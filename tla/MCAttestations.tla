--------------------------- MODULE MCAttestations ---------------------------
EXTENDS Watch

CONSTANTS c1, c2, w1, w2

=============================================================================
