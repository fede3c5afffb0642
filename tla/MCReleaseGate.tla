--------------------------- MODULE MCReleaseGate ----------------------------
EXTENDS ReleaseGate

CONSTANTS c1, c2, w1, r1, r2

=============================================================================
