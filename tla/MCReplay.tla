------------------------------ MODULE MCReplay ------------------------------
EXTENDS Replay

CONSTANTS a, b, d1, d2

Entry(cs, ds, sem, ok) == [claims |-> cs, evidence |-> ds, semantic |-> sem, sound |-> ok]

\* One claim with one or two items, and every option.
SingleJobs ==
  {[form |-> "single", entries |-> <<Entry(<<a>>, ds, sem, TRUE)>>,
    skip |-> o = "skip", reuse |-> o = "reuse", dry |-> o = "dry", json |-> js] :
      ds \in {<<d1>>, <<d1, d2>>}, sem \in BOOLEAN,
      o \in {"skip", "reuse", "dry", "none"}, js \in BOOLEAN}

\* Two claims that share two items, and a second entry that repeats a claim,
\* has no evidence, no claim, or is unsound.
BatchJobs ==
  {[form |-> "batch",
    entries |-> <<Entry(<<a, b>>, ds, sem, TRUE), second>>,
    skip |-> s, reuse |-> FALSE, dry |-> FALSE, json |-> FALSE] :
      ds \in {<<d1>>, <<d1, d2>>}, sem \in BOOLEAN, s \in BOOLEAN,
      second \in {Entry(<<a>>, <<d2>>, FALSE, TRUE), Entry(<<b>>, <<>>, FALSE, TRUE),
                  Entry(<<>>, <<d1>>, FALSE, TRUE), Entry(<<b>>, <<d1>>, FALSE, FALSE)}}

\* No claim attested; one of them, with both dates or with one; both.
SomeStores ==
  {[c \in Claims |-> None], [c \in Claims |-> Attested],
   [c \in Claims |-> IF c = a THEN Attested ELSE None],
   [c \in Claims |-> IF c = a THEN [Attested EXCEPT !.end = FALSE] ELSE None]}

\* No hinted file, one that is what it should be and one that is not.
SomeHints ==
  {[d \in Evidence |-> "absent"], [d \in Evidence |-> IF d = d1 THEN "right" ELSE "wrong"]}

AllJobs == SingleJobs \cup BatchJobs

=============================================================================
