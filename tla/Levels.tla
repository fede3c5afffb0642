------------------------------- MODULE Levels -------------------------------
(***************************************************************************)
(* The claim graph as a proofctl process loads it.  loadProjectGraph       *)
(* refuses a graph that DAG.Validate rejects (Kahn's algorithm); then      *)
(* `verify --project` partitions the claims with DAG.Levels.               *)
(*                                                                         *)
(* A depends_on list is a JSON array: it may name a claim twice, and       *)
(* nothing between the file and the two algorithms removes the repetition. *)
(* Map iteration order is the only nondeterminism of the code here.        *)
(***************************************************************************)
EXTENDS Integers, Sequences, FiniteSets

CONSTANTS
  Claims,      \* claim IDs of the project
  Graphs       \* the depends_on lists the graph file may hold

ASSUME ClaimsAssumption == IsFiniteSet(Claims)
ASSUME GraphsAssumption == Graphs \subseteq [Claims -> Seq(Claims)]

VARIABLES
  dependsOn,   \* the graph that was read
  pc,          \* where loadProjectGraph or Levels stands
  inDegree,    \* Validate: unresolved dependency entries of each claim
  queue,       \* Validate: claims of in-degree 0, not yet visited
  visited,     \* Validate: number of claims taken from the queue
  remaining,   \* Levels: dependency counter of each claim not yet placed
  levels       \* Levels: the partition built so far

graphVars == <<dependsOn, pc, inDegree, queue, visited, remaining, levels>>

Deps(c) == {dependsOn[c][i] : i \in 1 .. Len(dependsOn[c])}

\* Entries of c's depends_on list that name d: Validate counts each of them.
Entries(c, d) == {i \in 1 .. Len(dependsOn[c]) : dependsOn[c][i] = d}

LoadInit ==
  /\ dependsOn \in Graphs
  /\ pc = "validate"
  /\ inDegree = [c \in Claims |-> Len(dependsOn[c])]
  /\ queue = {c \in Claims : Len(dependsOn[c]) = 0}
  /\ visited = 0
  /\ remaining = [c \in Claims |-> 0]
  /\ levels = <<>>

-----------------------------------------------------------------------------
(***************************************************************************)
(* DAG.Validate.  One step is one iteration of the queue loop.             *)
(***************************************************************************)

\* A variant of Decrement that stops at the first matching entry, the way
\* DAG.Levels does.
MutDecrementOnce(deg, curr) ==
  [c \in Claims |-> IF Entries(c, curr) # {} THEN deg[c] - 1 ELSE deg[c]]

Decrement(deg, curr) == [c \in Claims |-> deg[c] - Cardinality(Entries(c, curr))]

Visit(curr) ==
  /\ pc = "validate"
  /\ curr \in queue
  /\ inDegree' = Decrement(inDegree, curr)
  /\ queue' = (queue \ {curr}) \cup {c \in Claims : inDegree[c] > 0 /\ inDegree'[c] = 0}
  /\ visited' = visited + 1
  /\ UNCHANGED <<dependsOn, pc, remaining, levels>>

\* The queue ran empty: either every claim was visited, or the process dies
\* with CYCLE_DETECTED.
EndValidate ==
  /\ pc = "validate"
  /\ queue = {}
  /\ pc' = IF visited = Cardinality(Claims) THEN "levels" ELSE "rejected"
  /\ remaining' = [c \in Claims |-> Len(dependsOn[c])]
  /\ UNCHANGED <<dependsOn, inDegree, queue, visited, levels>>

-----------------------------------------------------------------------------
(***************************************************************************)
(* DAG.Levels.  One step is one round of the outer loop: take the claims   *)
(* whose counter is 0, delete them, and take one off the counter of every  *)
(* other claim for each of them that its list names, however often it      *)
(* names it (the loop over the list breaks at the first match).            *)
(***************************************************************************)
Placed == UNION {levels[i] : i \in DOMAIN levels}

\* Variants of Ready: an off-by-one on the counter, and a level cut short
\* after its first claim.
MutReadyEarly == {c \in DOMAIN remaining : remaining[c] <= 1}
MutReadyFirst ==
  LET zero == {c \in DOMAIN remaining : remaining[c] = 0}
  IN  IF zero = {} THEN {} ELSE {CHOOSE c \in zero : TRUE}

Ready == {c \in DOMAIN remaining : remaining[c] = 0}

\* Variants of Settle: the placed claims are not deleted; the dependents are
\* not decremented.
MutSettleKeep == [c \in DOMAIN remaining |-> remaining[c] - Cardinality(Deps(c) \cap Ready)]
MutSettleIdle == [c \in DOMAIN remaining \ Ready |-> remaining[c]]

Settle ==
  [c \in DOMAIN remaining \ Ready |-> remaining[c] - Cardinality(Deps(c) \cap Ready)]

\* A round that finds no claim of counter 0 appends an empty level and goes
\* round again; empty levels hold no claim and are left out of the sequence.
Round ==
  /\ pc = "levels"
  /\ DOMAIN remaining # {}
  /\ levels' = IF Ready = {} THEN levels ELSE Append(levels, Ready)
  /\ remaining' = Settle
  /\ UNCHANGED <<dependsOn, pc, inDegree, queue, visited>>

EndLevels ==
  /\ pc = "levels"
  /\ DOMAIN remaining = {}
  /\ pc' = "ready"
  /\ UNCHANGED <<dependsOn, inDegree, queue, visited, remaining, levels>>

LevelsNext ==
  \/ \E c \in Claims : Visit(c)
  \/ EndValidate
  \/ Round
  \/ EndLevels

Init == LoadInit

\* The process ends here when the graph is refused; when it is accepted
\* VerifyProject goes on.
Next == LevelsNext

Spec == Init /\ [][Next]_graphVars /\ WF_graphVars(Next)

-----------------------------------------------------------------------------
TypeOK ==
  /\ dependsOn \in Graphs
  /\ pc \in {"validate", "levels", "ready", "rejected"}
  /\ inDegree \in [Claims -> Int]
  /\ queue \subseteq Claims
  /\ visited \in Nat
  /\ DOMAIN remaining \subseteq Claims
  /\ remaining \in [DOMAIN remaining -> Int]
  /\ levels \in Seq(SUBSET Claims)

(***************************************************************************)
(* The reference definition Validate is measured against: a graph is       *)
(* acyclic when every non-empty set of claims has a member none of whose   *)
(* dependencies is in the set.                                             *)
(***************************************************************************)
Acyclic ==
  \A S \in (SUBSET Claims) \ {{}} : \E c \in S : Deps(c) \cap S = {}

\* Validate lets a graph through exactly when it is acyclic, repeated
\* depends_on entries included: the counter starts at the number of entries
\* and drops by the number of entries, so both must count the same way.
ValidateDecidesAcyclicity ==
  /\ pc \in {"levels", "ready"} => Acyclic
  /\ pc = "rejected" => ~ Acyclic

\* When a claim is in a level, everything it depends on is in an earlier one:
\* the promise the concurrent dispatch of a level relies on (dag.go:189-193).
LevelsTopological ==
  \A i \in DOMAIN levels : \A c \in levels[i] :
    Deps(c) \subseteq UNION {levels[j] : j \in 1 .. i - 1}

\* No claim is put in two levels, and once Levels returns none is missing:
\* a claim in two levels would have two checkers write one attestation file.
LevelsPartition ==
  /\ \A i, j \in DOMAIN levels : i # j => levels[i] \cap levels[j] = {}
  /\ pc = "ready" => Placed = Claims

\* A claim waits for no level it need not wait for: one of its dependencies
\* is in the level just before its own, so the number of levels is the length
\* of the longest dependency chain.
LevelsAreEarliest ==
  \A i \in DOMAIN levels \ {1} : \A c \in levels[i] :
    Deps(c) \cap levels[i - 1] # {}

\* A depends_on list names a claim twice.
Repeats == \E c \in Claims : Cardinality(Deps(c)) < Len(dependsOn[c])

-----------------------------------------------------------------------------
\* What the documentation says (dag.go:189-193, "partitions all claims"), and
\* the code does not do: it ends for every graph that Validate accepts.
LevelsAlwaysTerminates == <>(pc \in {"ready", "rejected"})

=============================================================================
