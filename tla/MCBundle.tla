------------------------------- MODULE MCBundle -------------------------------
(* Two claims and two creates of one bundle, model values.                   *)
EXTENDS Bundle, TLC

CONSTANTS a, b, c1, c2

TwoClaims == <<a, b>>

Symmetry == Permutations({c1, c2})

=============================================================================
