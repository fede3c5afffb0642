-------------------------- MODULE MCVerifyProject ---------------------------
EXTENDS VerifyProject, TLC

CONSTANTS a, b, c, d, bg

\* b and c share a batch group.
PairBatched == [x \in Claims |-> IF x \in {b, c} THEN bg ELSE NoGroup]

\* The group above an individual claim; the group split over two levels below
\* an individual claim; an individual claim above the whole group; a cycle; an
\* entry named twice.
SmallGraphs ==
  { (a :> <<>> @@ b :> <<a>> @@ c :> <<a>> @@ d :> <<>>),
    (a :> <<d>> @@ b :> <<>> @@ c :> <<b>> @@ d :> <<c>>),
    (a :> <<b, c>> @@ b :> <<>> @@ c :> <<>> @@ d :> <<>>),
    (a :> <<>> @@ b :> <<c>> @@ c :> <<b>> @@ d :> <<>>),
    (a :> <<>> @@ b :> <<>> @@ c :> <<>> @@ d :> <<a, a>>) }

=============================================================================
