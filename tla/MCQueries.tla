----------------------------- MODULE MCQueries ------------------------------
(***************************************************************************)
(* One claim is asked about: the graphs are closed under renaming of a, b  *)
(* and c, so that it stands for any of them.                               *)
(***************************************************************************)
EXTENDS MCLevels, Queries

=============================================================================
