------------------------------ MODULE MCLevels ------------------------------
EXTENDS Levels

CONSTANTS a, b, c, d

\* Lists of up to 2, or up to 3, entries, which may repeat.
ListsUpTo(n, S) == UNION {[1 .. k -> S] : k \in 0 .. n}

\* All graphs of the claims with lists of up to 2 entries, self loops and
\* larger cycles included; and those of all claims but d with up to 3.
GraphsUpTo2 == [Claims -> ListsUpTo(2, Claims)]
MixedGraphs ==
  GraphsUpTo2 \cup
  {[x \in Claims |-> IF x = d THEN <<>> ELSE g[x]] :
     g \in [Claims \ {d} -> ListsUpTo(3, Claims \ {d})]}

=============================================================================
