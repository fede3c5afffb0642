------------------------------ MODULE Worklist ------------------------------
(***************************************************************************)
(* What `verify --project` promises its users, without levels, workers or  *)
(* batches: claims already accepted are recalled once, at the start; then  *)
(* sets of claims are started whose dependencies are done, and every claim *)
(* is worked on at most once.                                              *)
(***************************************************************************)
CONSTANT Claims

VARIABLES
  needs,   \* the claims each claim depends on
  state    \* "waiting", "busy" or "done" for each claim

workVars == <<needs, state>>

Init ==
  /\ needs \in [Claims -> SUBSET Claims]
  /\ state = [c \in Claims |-> "waiting"]

Recall(S) ==
  /\ \A c \in Claims : state[c] = "waiting"
  /\ state' = [c \in Claims |-> IF c \in S THEN "done" ELSE "waiting"]
  /\ UNCHANGED needs

Start(S) ==
  /\ \A c \in S : state[c] = "waiting" /\ \A d \in needs[c] : state[d] = "done"
  /\ state' = [c \in Claims |-> IF c \in S THEN "busy" ELSE state[c]]
  /\ UNCHANGED needs

Finish(S) ==
  /\ \A c \in S : state[c] = "busy"
  /\ state' = [c \in Claims |-> IF c \in S THEN "done" ELSE state[c]]
  /\ UNCHANGED needs

Next == \E S \in SUBSET Claims : Recall(S) \/ Start(S) \/ Finish(S)

Spec == Init /\ [][Next]_workVars

=============================================================================
