------------------------------- MODULE MCCas -------------------------------
EXTENDS Cas, TLC

CONSTANTS d1, d2, p1, g1, g2

Interchangeable == Permutations(Digests)
=============================================================================
