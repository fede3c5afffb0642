---------------------------- MODULE LevelsProofs ----------------------------
(***************************************************************************)
(* Proofs about Levels and Queries, for every finite set of claims and     *)
(* every set of graphs: repeated depends_on entries and cycles are not     *)
(* excluded.                                                               *)
(*                                                                         *)
(* The argument: the counter DAG.Levels keeps for a claim is the length of *)
(* its depends_on list less the number of distinct dependencies already    *)
(* placed.  A list is at least as long as the set of claims it names, so a *)
(* counter of 0 means that every dependency is placed.  Validate and       *)
(* topoSort count entries instead, and all of them; the other searches of  *)
(* Queries stop when what they have met is closed under their edges.       *)
(***************************************************************************)
EXTENDS Queries, FiniteSetTheorems, TLAPS

\* What DAG.Levels keeps between two rounds.
Counters ==
  pc = "levels" =>
    \A c \in DOMAIN remaining :
      remaining[c] = Len(dependsOn[c]) - Cardinality(Deps(c) \cap Placed)

Unplaced == pc \in {"levels", "ready"} => DOMAIN remaining = Claims \ Placed

Untouched == pc \in {"validate", "rejected"} => levels = <<>>

Done == pc = "ready" => DOMAIN remaining = {}

Disjoint == \A i, j \in DOMAIN levels : i # j => levels[i] \cap levels[j] = {}

LevelsInv ==
  /\ TypeOK
  /\ Untouched
  /\ Unplaced
  /\ Counters
  /\ Done
  /\ Disjoint
  /\ LevelsTopological

-----------------------------------------------------------------------------
\* A depends_on list names claims only, and is at least as long as the set of
\* claims it names.
LEMMA ListLemma ==
  ASSUME TypeOK, NEW c \in Claims
  PROVE  /\ dependsOn[c] \in Seq(Claims)
         /\ Len(dependsOn[c]) \in Nat
         /\ Deps(c) \subseteq Claims
         /\ IsFiniteSet(Deps(c))
         /\ Cardinality(Deps(c)) \in Nat
         /\ Cardinality(Deps(c)) <= Len(dependsOn[c])
  <1>1. dependsOn[c] \in Seq(Claims) /\ Len(dependsOn[c]) \in Nat
    BY GraphsAssumption DEF TypeOK
  <1>2. Deps(c) \subseteq Claims
    BY <1>1 DEF Deps
  <1> DEFINE n == Len(dependsOn[c])
             f == [i \in 1 .. n |-> dependsOn[c][i]]
  <1>3. f \in Surjection(1 .. n, Deps(c))
    BY <1>1 DEF Deps, Surjection
  <1>4. IsFiniteSet(1 .. n) /\ Cardinality(1 .. n) = n
    BY <1>1, FS_Interval
  <1>5. IsFiniteSet(Deps(c)) /\ Cardinality(Deps(c)) <= n
    BY <1>3, <1>4, FS_Surjection
  <1>6. QED
    BY <1>1, <1>2, <1>5, FS_CardinalityType

\* The number of entries of a list that name one claim is a natural number.
LEMMA EntriesLemma ==
  ASSUME TypeOK, NEW c \in Claims, NEW d
  PROVE  Cardinality(Entries(c, d)) \in Nat
  <1>1. IsFiniteSet(1 .. Len(dependsOn[c]))
    BY ListLemma, FS_Interval
  <1>2. Entries(c, d) \in SUBSET (1 .. Len(dependsOn[c]))
    BY DEF Entries
  <1>3. IsFiniteSet(Entries(c, d))
    BY <1>1, <1>2, FS_Subset
  <1>4. QED
    BY <1>3, FS_CardinalityType

\* The part of a dependency set that lies in a given set has a size, and has
\* the size of the list only if it is the whole dependency set.
LEMMA PartLemma ==
  ASSUME TypeOK, NEW c \in Claims, NEW S
  PROVE  /\ IsFiniteSet(Deps(c) \cap S)
         /\ Cardinality(Deps(c) \cap S) \in Nat
         /\ Cardinality(Deps(c) \cap S) <= Len(dependsOn[c])
         /\ Cardinality(Deps(c) \cap S) = Len(dependsOn[c]) => Deps(c) \subseteq S
  <1>1. Deps(c) \cap S \in SUBSET Deps(c)
    OBVIOUS
  <1>2. /\ IsFiniteSet(Deps(c) \cap S)
        /\ Cardinality(Deps(c) \cap S) <= Cardinality(Deps(c))
        /\ Cardinality(Deps(c)) = Cardinality(Deps(c) \cap S) => Deps(c) = Deps(c) \cap S
    BY <1>1, ListLemma, FS_Subset
  <1>3. Cardinality(Deps(c) \cap S) \in Nat
    BY <1>2, FS_CardinalityType
  <1>4. QED
    BY <1>2, <1>3, ListLemma

\* The sizes of the parts in two disjoint sets add up.
LEMMA SplitLemma ==
  ASSUME TypeOK, NEW c \in Claims, NEW S, NEW T, S \cap T = {}
  PROVE  Cardinality(Deps(c) \cap (S \cup T))
           = Cardinality(Deps(c) \cap S) + Cardinality(Deps(c) \cap T)
  <1> DEFINE A == Deps(c) \cap S
             B == Deps(c) \cap T
  <1>1. IsFiniteSet(A) /\ IsFiniteSet(B)
    BY PartLemma
  <1>2. A \cap B = {} /\ A \cup B = Deps(c) \cap (S \cup T)
    OBVIOUS
  <1>3. Cardinality(A \cap B) = 0
    BY <1>2, FS_EmptySet
  <1>4. Cardinality(A) \in Nat /\ Cardinality(B) \in Nat
    BY PartLemma
  <1>5. Cardinality(A \cup B) = Cardinality(A) + Cardinality(B) - Cardinality(A \cap B)
    BY <1>1, FS_Union
  <1>6. Cardinality(A \cup B) = Cardinality(A) + Cardinality(B)
    <2> HIDE DEF A, B
    <2>1. QED
      BY <1>3, <1>4, <1>5
  <1>7. QED
    BY <1>2, <1>6

\* A counter of 0 means that every dependency is placed.
LEMMA ReadyLemma ==
  ASSUME LevelsInv, pc = "levels"
  PROVE  /\ Ready \subseteq Claims \ Placed
         /\ \A c \in Ready : Deps(c) \subseteq Placed
  <1>1. Ready \subseteq Claims \ Placed
    BY DEF LevelsInv, Unplaced, Ready
  <1>2. ASSUME NEW c \in Ready
        PROVE  Deps(c) \subseteq Placed
    <2>1. c \in Claims /\ c \in DOMAIN remaining /\ remaining[c] = 0
      BY <1>1, <1>2 DEF Ready
    <2>2. Len(dependsOn[c]) - Cardinality(Deps(c) \cap Placed) = 0
      BY <2>1 DEF LevelsInv, Counters
    <2>3. /\ Len(dependsOn[c]) \in Nat
          /\ Cardinality(Deps(c) \cap Placed) \in Nat
      BY <2>1, ListLemma, PartLemma DEF LevelsInv
    <2>4. Cardinality(Deps(c) \cap Placed) = Len(dependsOn[c])
      BY <2>2, <2>3
    <2>5. QED
      BY <2>1, <2>4, PartLemma DEF LevelsInv
  <1>3. QED
    BY <1>1, <1>2

-----------------------------------------------------------------------------
LEMMA LevelsInit == Init => LevelsInv
  <1> SUFFICES ASSUME Init PROVE LevelsInv
    OBVIOUS
  <1> USE DEF Init, LoadInit
  <1>1. \A c \in Claims : Len(dependsOn[c]) \in Nat
    BY GraphsAssumption
  <1>2. TypeOK
    BY <1>1 DEF TypeOK
  <1>3. QED
    BY <1>2 DEF LevelsInv, Untouched, Unplaced, Counters, Done, Disjoint, LevelsTopological

\* One iteration of Validate touches nothing the levels are made of.
LEMMA LevelsVisit ==
  ASSUME LevelsInv, NEW curr \in Claims, Visit(curr)
  PROVE  LevelsInv'
  <1> USE DEF Visit, LevelsInv
  <1>1. TypeOK'
    <2>1. inDegree' \in [Claims -> Int]
      <3>1. \A c \in Claims : inDegree[c] \in Int /\ Cardinality(Entries(c, curr)) \in Nat
        BY EntriesLemma DEF TypeOK
      <3>2. QED
        BY <3>1 DEF Decrement
    <2>2. queue' \subseteq Claims /\ visited' \in Nat
      BY DEF TypeOK
    <2>3. QED
      BY <2>1, <2>2 DEF TypeOK
  <1>2. QED
    BY <1>1 DEF Untouched, Unplaced, Counters, Done, Disjoint, LevelsTopological,
                Deps, Placed

\* Validate's verdict; the counters of Levels start at the list lengths.
LEMMA LevelsEndValidate ==
  ASSUME LevelsInv, EndValidate
  PROVE  LevelsInv'
  <1> USE DEF EndValidate, LevelsInv
  <1>1. levels = <<>> /\ levels' = <<>>
    BY DEF Untouched
  <1>2. Placed = {} /\ Placed' = {}
    BY <1>1 DEF Placed
  <1>3. \A c \in Claims : Len(dependsOn[c]) \in Nat
    BY ListLemma
  <1>4. TypeOK'
    BY <1>3 DEF TypeOK
  <1>5. Counters'
    <2> SUFFICES ASSUME NEW c \in Claims
                 PROVE  Len(dependsOn[c]) = Len(dependsOn[c]) - Cardinality(Deps(c)' \cap {})
      BY <1>2 DEF Counters
    <2>1. Deps(c)' \cap {} = {}
      OBVIOUS
    <2>2. QED
      BY <1>3, <2>1, FS_EmptySet
  <1>6. Untouched' /\ Unplaced' /\ Done'
    BY <1>1, <1>2 DEF Untouched, Unplaced, Done
  <1>7. Disjoint' /\ LevelsTopological'
    BY <1>1 DEF Disjoint, LevelsTopological
  <1>8. QED
    BY <1>4, <1>5, <1>6, <1>7

\* What one round does to the set of placed claims.
LEMMA RoundPlaces ==
  ASSUME LevelsInv, Round
  PROVE  /\ Placed' = Placed \cup Ready
         /\ levels' \in Seq(SUBSET Claims)
  <1> USE DEF Round, LevelsInv
  <1>1. Ready \subseteq Claims
    BY ReadyLemma
  <1>2. levels \in Seq(SUBSET Claims)
    BY DEF TypeOK
  <1>3. CASE Ready = {}
    BY <1>2, <1>3 DEF Placed
  <1>4. CASE Ready # {}
    <2>1. levels' = Append(levels, Ready)
      BY <1>4
    <2>2. /\ levels' \in Seq(SUBSET Claims)
          /\ DOMAIN levels' = 1 .. Len(levels) + 1
          /\ levels'[Len(levels) + 1] = Ready
          /\ \A i \in 1 .. Len(levels) : levels'[i] = levels[i]
      BY <1>1, <1>2, <2>1
    <2>3. QED
      BY <1>2, <2>2 DEF Placed
  <1>5. QED
    BY <1>3, <1>4

LEMMA LevelsRound ==
  ASSUME LevelsInv, Round
  PROVE  LevelsInv'
  <1> USE DEF LevelsInv
  <1>1. /\ pc = "levels" /\ pc' = pc /\ dependsOn' = dependsOn
        /\ remaining' = Settle
        /\ inDegree' = inDegree /\ queue' = queue /\ visited' = visited
    BY DEF Round
  <1>2. /\ Ready \subseteq Claims \ Placed
        /\ \A c \in Ready : Deps(c) \subseteq Placed
    BY <1>1, ReadyLemma
  <1>3. Placed' = Placed \cup Ready /\ levels' \in Seq(SUBSET Claims)
    BY RoundPlaces
  <1>4. \A c : Deps(c)' = Deps(c)
    BY <1>1 DEF Deps
  <1>5. DOMAIN remaining' = DOMAIN remaining \ Ready
    BY <1>1 DEF Settle
  <1>6. \A c \in DOMAIN remaining' :
           /\ c \in Claims /\ c \in DOMAIN remaining
           /\ remaining[c] \in Int
           /\ Cardinality(Deps(c) \cap Ready) \in Nat
           /\ remaining'[c] = remaining[c] - Cardinality(Deps(c) \cap Ready)
    BY <1>1, <1>5, PartLemma DEF TypeOK, Settle
  <1>7. TypeOK'
    <2>1. remaining' \in [DOMAIN remaining' -> Int] /\ DOMAIN remaining' \subseteq Claims
      <3>1. remaining' = [c \in DOMAIN remaining' |-> remaining'[c]]
        BY <1>1 DEF Settle
      <3>2. ASSUME NEW c \in DOMAIN remaining'
            PROVE  remaining'[c] \in Int
        <4>1. /\ remaining[c] \in Int
              /\ Cardinality(Deps(c) \cap Ready) \in Nat
              /\ remaining'[c] = remaining[c] - Cardinality(Deps(c) \cap Ready)
          BY <1>6
        <4>2. QED
          BY <4>1
      <3>3. QED
        BY <1>6, <3>1, <3>2
    <2>2. QED
      BY <1>1, <1>3, <2>1 DEF TypeOK
  <1>8. Untouched' /\ Done'
    BY <1>1 DEF Untouched, Done
  <1>9. Unplaced'
    BY <1>1, <1>2, <1>3, <1>5 DEF Unplaced
  <1>10. Counters'
    <2> SUFFICES ASSUME NEW c \in DOMAIN remaining'
                 PROVE  remaining'[c] = Len(dependsOn[c])
                                          - Cardinality(Deps(c) \cap (Placed \cup Ready))
      BY <1>1, <1>3, <1>4 DEF Counters
    <2>1. Placed \cap Ready = {}
      BY <1>2
    <2>2. c \in Claims /\ c \in DOMAIN remaining
      BY <1>6
    <2>3. Cardinality(Deps(c) \cap (Placed \cup Ready))
             = Cardinality(Deps(c) \cap Placed) + Cardinality(Deps(c) \cap Ready)
      BY <2>1, <2>2, SplitLemma
    <2>4. remaining[c] = Len(dependsOn[c]) - Cardinality(Deps(c) \cap Placed)
      BY <1>1, <2>2 DEF Counters
    <2>5. /\ Len(dependsOn[c]) \in Nat
          /\ Cardinality(Deps(c) \cap Placed) \in Nat
          /\ Cardinality(Deps(c) \cap Ready) \in Nat
      BY <2>2, ListLemma, PartLemma
    <2>6. QED
      BY <1>6, <2>3, <2>4, <2>5
  <1>11. Disjoint' /\ LevelsTopological'
    <2>1. levels \in Seq(SUBSET Claims)
      BY DEF TypeOK
    <2>2. CASE Ready = {}
      <3>1. levels' = levels
        BY <2>2 DEF Round
      <3>2. QED
        BY <1>4, <3>1 DEF Disjoint, LevelsTopological
    <2>3. CASE Ready # {}
      <3> DEFINE k == Len(levels) + 1
      <3>1. levels' = Append(levels, Ready)
        BY <2>3 DEF Round
      <3>2. /\ DOMAIN levels' = 1 .. k /\ DOMAIN levels = 1 .. k - 1
            /\ k \in Nat
            /\ levels'[k] = Ready
            /\ \A i \in 1 .. k - 1 : levels'[i] = levels[i]
        BY <1>2, <2>1, <3>1
      <3>3. \A i \in 1 .. k - 1 : levels[i] \subseteq Placed
        BY <3>2 DEF Placed
      <3>4. Disjoint'
        BY <1>2, <3>2, <3>3 DEF Disjoint
      <3>5. LevelsTopological'
        <4> SUFFICES ASSUME NEW i \in 1 .. k, NEW c \in levels'[i]
                     PROVE  Deps(c) \subseteq UNION {levels'[j] : j \in 1 .. i - 1}
          BY <1>4, <3>2 DEF LevelsTopological
        <4>1. CASE i = k
          <5>1. Deps(c) \subseteq Placed
            BY <1>2, <3>2, <4>1
          <5>2. Placed = UNION {levels'[j] : j \in 1 .. i - 1}
            BY <3>2, <4>1 DEF Placed
          <5>3. QED
            BY <5>1, <5>2
        <4>2. CASE i # k
          <5>1. i \in DOMAIN levels /\ c \in levels[i] /\ \A j \in 1 .. i - 1 : j \in 1 .. k - 1
            BY <3>2, <4>2
          <5>2. Deps(c) \subseteq UNION {levels[j] : j \in 1 .. i - 1}
            BY <5>1 DEF LevelsTopological
          <5>3. QED
            BY <3>2, <5>1, <5>2
        <4>3. QED
          BY <4>1, <4>2
      <3>6. QED
        BY <3>4, <3>5
    <2>4. QED
      BY <2>2, <2>3
  <1>12. QED
    BY <1>7, <1>8, <1>9, <1>10, <1>11

LEMMA LevelsEnd ==
  ASSUME LevelsInv, EndLevels
  PROVE  LevelsInv'
  <1> USE DEF EndLevels, LevelsInv
  <1>1. Placed' = Placed /\ \A c : Deps(c)' = Deps(c)
    BY DEF Placed, Deps
  <1>2. TypeOK' /\ Disjoint' /\ LevelsTopological'
    BY <1>1 DEF TypeOK, Disjoint, LevelsTopological
  <1>3. Untouched' /\ Unplaced' /\ Counters' /\ Done'
    BY <1>1 DEF Untouched, Unplaced, Counters, Done
  <1>4. QED
    BY <1>2, <1>3

LEMMA LevelsStutter ==
  ASSUME LevelsInv, UNCHANGED graphVars
  PROVE  LevelsInv'
  <1> USE DEF graphVars, LevelsInv
  <1>1. Placed' = Placed /\ \A c : Deps(c)' = Deps(c)
    BY DEF Placed, Deps
  <1>2. TypeOK' /\ Disjoint' /\ LevelsTopological'
    BY <1>1 DEF TypeOK, Disjoint, LevelsTopological
  <1>3. Untouched' /\ Unplaced' /\ Counters' /\ Done'
    BY <1>1 DEF Untouched, Unplaced, Counters, Done
  <1>4. QED
    BY <1>2, <1>3

LEMMA LevelsStep ==
  ASSUME LevelsInv, [LevelsNext]_graphVars
  PROVE  LevelsInv'
  BY LevelsVisit, LevelsEndValidate, LevelsRound, LevelsEnd, LevelsStutter DEF LevelsNext

THEOREM LevelsInvariance == Spec => []LevelsInv
  <1>1. Init => LevelsInv
    BY LevelsInit
  <1>2. LevelsInv /\ [Next]_graphVars => LevelsInv'
    BY LevelsStep DEF Next
  <1>3. QED
    BY <1>1, <1>2, PTL DEF Spec

\* The variables of the loader keep their types.
THEOREM LevelsTyped == Spec => []TypeOK
  <1>1. LevelsInv => TypeOK
    BY DEF LevelsInv
  <1>2. QED
    BY <1>1, LevelsInvariance, PTL

\* DAG.Levels never places a claim before, or together with, a claim it
\* depends on, whatever depends_on lists it is given.
THEOREM LevelsAreTopological == Spec => []LevelsTopological
  <1>1. LevelsInv => LevelsTopological
    BY DEF LevelsInv
  <1>2. QED
    BY <1>1, LevelsInvariance, PTL

LEMMA PartitionLemma ==
  ASSUME LevelsInv
  PROVE  LevelsPartition
  <1> USE DEF LevelsInv
  <1>1. Placed \subseteq Claims
    BY DEF Placed, TypeOK
  <1>2. pc = "ready" => Claims \ Placed = {}
    BY DEF Unplaced, Done
  <1>3. QED
    BY <1>1, <1>2 DEF LevelsPartition, Disjoint

\* The levels are disjoint, and hold every claim when DAG.Levels returns.
THEOREM LevelsArePartition == Spec => []LevelsPartition
  BY PartitionLemma, LevelsInvariance, PTL

-----------------------------------------------------------------------------
(***************************************************************************)
(* No claim waits for longer than it must: a counter that is 0 has reached *)
(* 0 in the last round, for a claim placed in that round.                  *)
(***************************************************************************)
Fresh ==
  pc = "levels" /\ levels # <<>> =>
    \A c \in DOMAIN remaining : remaining[c] = 0 => Deps(c) \cap levels[Len(levels)] # {}

EarliestInv == Fresh /\ LevelsAreEarliest

LEMMA EarliestRound ==
  ASSUME LevelsInv, EarliestInv, Round
  PROVE  EarliestInv'
  <1> USE DEF EarliestInv
  <1>1. /\ pc = "levels" /\ dependsOn' = dependsOn /\ remaining' = Settle
        /\ levels' = IF Ready = {} THEN levels ELSE Append(levels, Ready)
    BY DEF Round
  <1>2. \A c : Deps(c)' = Deps(c)
    BY <1>1 DEF Deps
  <1>3. levels \in Seq(SUBSET Claims) /\ Ready \subseteq Claims
    BY ReadyLemma, <1>1 DEF LevelsInv, TypeOK
  \* A counter that reaches 0 now was not 0 before.
  <1>4. ASSUME NEW c \in DOMAIN remaining', remaining'[c] = 0
        PROVE  Deps(c) \cap Ready # {}
    <2>1. c \in DOMAIN remaining /\ c \in Claims /\ remaining[c] \in Int /\ remaining[c] # 0
      BY <1>1, <1>4 DEF Settle, Ready, LevelsInv, TypeOK
    <2>2. remaining[c] - Cardinality(Deps(c) \cap Ready) = 0
      BY <1>1, <1>4 DEF Settle
    <2>3. Cardinality(Deps(c) \cap Ready) \in Nat
      BY <2>1, PartLemma DEF LevelsInv
    <2>4. Cardinality(Deps(c) \cap Ready) # 0
      BY <2>1, <2>2, <2>3
    <2>5. QED
      BY <2>4, FS_EmptySet
  <1>5. CASE Ready = {}
    BY <1>1, <1>2, <1>4, <1>5 DEF Fresh, LevelsAreEarliest
  <1>6. CASE Ready # {}
    <2> DEFINE k == Len(levels) + 1
    <2>1. levels' = Append(levels, Ready)
      BY <1>1, <1>6
    <2>2. /\ DOMAIN levels' = 1 .. k /\ DOMAIN levels = 1 .. k - 1
          /\ k \in Nat /\ Len(levels') = k /\ levels'[k] = Ready
          /\ \A i \in 1 .. k - 1 : levels'[i] = levels[i]
      BY <1>3, <2>1
    <2>3. Fresh'
      BY <1>2, <1>4, <2>2 DEF Fresh
    <2>4. LevelsAreEarliest'
      <3> SUFFICES ASSUME NEW i \in 1 .. k, i # 1, NEW c \in levels'[i]
                   PROVE  Deps(c) \cap levels'[i - 1] # {}
        BY <1>2, <2>2 DEF LevelsAreEarliest
      <3>1. CASE i = k
        <4>1. c \in DOMAIN remaining /\ remaining[c] = 0
          BY <2>2, <3>1 DEF Ready
        <4>2. levels # <<>> /\ i - 1 = Len(levels) /\ i - 1 \in 1 .. k - 1
          BY <1>3, <2>2, <3>1
        <4>3. QED
          BY <1>1, <2>2, <4>1, <4>2 DEF Fresh
      <3>2. CASE i # k
        <4>1. i \in DOMAIN levels \ {1} /\ c \in levels[i] /\ i - 1 \in 1 .. k - 1
          BY <2>2, <3>2
        <4>2. Deps(c) \cap levels[i - 1] # {}
          BY <4>1 DEF LevelsAreEarliest
        <4>3. QED
          BY <2>2, <4>1, <4>2
      <3>3. QED
        BY <3>1, <3>2
    <2>5. QED
      BY <2>3, <2>4
  <1>7. QED
    BY <1>5, <1>6

LEMMA EarliestStep ==
  ASSUME LevelsInv, EarliestInv, [LevelsNext]_graphVars
  PROVE  EarliestInv'
  <1> USE DEF EarliestInv, Fresh, LevelsAreEarliest
  <1>1. ASSUME NEW c \in Claims, Visit(c)
        PROVE  EarliestInv'
    <2>1. UNCHANGED <<dependsOn, pc, remaining, levels>>
      BY <1>1 DEF Visit
    <2>2. \A d : Deps(d)' = Deps(d)
      BY <2>1 DEF Deps
    <2>3. QED
      BY <2>1, <2>2
  <1>2. CASE EndValidate
    BY <1>2 DEF EndValidate, LevelsInv, Untouched
  <1>3. CASE EndLevels
    BY <1>3 DEF EndLevels, Deps
  <1>4. CASE UNCHANGED graphVars
    <2>1. \A d : Deps(d)' = Deps(d)
      BY <1>4 DEF graphVars, Deps
    <2>2. QED
      BY <1>4, <2>1 DEF graphVars
  <1>5. QED
    BY <1>1, <1>2, <1>3, <1>4, EarliestRound DEF LevelsNext

\* DAG.Levels leaves no claim for a later level than it must: every claim
\* beyond the first level depends on one in the level just before its own.
THEOREM LevelsAreTight == Spec => []LevelsAreEarliest
  <1>1. Init => EarliestInv
    BY DEF Init, LoadInit, EarliestInv, Fresh, LevelsAreEarliest
  <1>2. LevelsInv /\ EarliestInv /\ [Next]_graphVars => EarliestInv'
    BY EarliestStep DEF Next
  <1>3. EarliestInv => LevelsAreEarliest
    BY DEF EarliestInv
  <1>4. QED
    BY <1>1, <1>2, <1>3, LevelsInvariance, PTL DEF Spec

-----------------------------------------------------------------------------
(***************************************************************************)
(* Kahn's algorithm.  The claims taken from the queue are those of counter *)
(* 0 that are no longer in it.  A counter is the number of entries that    *)
(* name a claim not taken yet; a set each of whose members depends on      *)
(* another loses none of them.                                             *)
(***************************************************************************)
Visited == {c \in Claims : inDegree[c] = 0} \ queue

Unmet(c, S) == {i \in 1 .. Len(dependsOn[c]) : dependsOn[c][i] \notin S}

Knotted(S) == \A c \in S : Deps(c) \cap S # {}

ValidateInv ==
  /\ queue \subseteq {c \in Claims : inDegree[c] = 0}
  /\ \A c \in Claims : inDegree[c] = Cardinality(Unmet(c, Visited))
  /\ visited = Cardinality(Visited)
  /\ \A S \in SUBSET Claims : Knotted(S) => S \cap Visited = {}
  /\ pc # "validate" => queue = {}
  /\ pc \in {"levels", "ready"} => visited = Cardinality(Claims)
  /\ pc = "rejected" => visited # Cardinality(Claims)

\* The entries still open, and what a further claim takes off them.
LEMMA UnmetLemma ==
  ASSUME TypeOK, NEW c \in Claims, NEW S
  PROVE  /\ IsFiniteSet(Unmet(c, S)) /\ Cardinality(Unmet(c, S)) \in Nat
         /\ Cardinality(Unmet(c, S)) = 0 <=> Deps(c) \subseteq S
         /\ \A d : d \notin S =>
              Cardinality(Unmet(c, S \cup {d})) = Cardinality(Unmet(c, S)) - Cardinality(Entries(c, d))
  <1>1. IsFiniteSet(1 .. Len(dependsOn[c]))
    BY ListLemma, FS_Interval
  <1>2. ASSUME NEW T PROVE IsFiniteSet(Unmet(c, T)) /\ Cardinality(Unmet(c, T)) \in Nat
    <2>1. Unmet(c, T) \in SUBSET (1 .. Len(dependsOn[c]))
      BY DEF Unmet
    <2>2. QED
      BY <1>1, <2>1, FS_Subset, FS_CardinalityType
  <1>3. Cardinality(Unmet(c, S)) = 0 <=> Deps(c) \subseteq S
    <2>1. Unmet(c, S) = {} <=> Deps(c) \subseteq S
      BY DEF Unmet, Deps
    <2>2. QED
      BY <1>2, <2>1, FS_EmptySet
  <1>4. ASSUME NEW d, d \notin S
        PROVE  Cardinality(Unmet(c, S \cup {d})) = Cardinality(Unmet(c, S)) - Cardinality(Entries(c, d))
    <2> DEFINE A == Unmet(c, S \cup {d})
               B == Entries(c, d)
    <2>1. B \in SUBSET (1 .. Len(dependsOn[c]))
      BY DEF Entries
    <2>2. IsFiniteSet(A) /\ IsFiniteSet(B) /\ Cardinality(A) \in Nat /\ Cardinality(B) \in Nat
      BY <1>1, <1>2, <2>1, FS_Subset, FS_CardinalityType
    <2>3. A \cap B = {} /\ A \cup B = Unmet(c, S)
      BY <1>4 DEF Unmet, Entries
    <2>4. Cardinality(A \cap B) = 0
      BY <2>3, FS_EmptySet
    <2>5. Cardinality(A \cup B) = Cardinality(A) + Cardinality(B) - Cardinality(A \cap B)
      BY <2>2, FS_Union
    <2>6. Cardinality(A \cup B) = Cardinality(A) + Cardinality(B)
      <3> HIDE DEF A, B
      <3>1. QED
        BY <2>2, <2>4, <2>5
    <2>7. Cardinality(Unmet(c, S)) = Cardinality(A) + Cardinality(B)
      BY <2>3, <2>6
    <2> HIDE DEF A, B
    <2>8. Cardinality(A) = Cardinality(Unmet(c, S)) - Cardinality(B)
      BY <2>2, <2>7
    <2>9. QED
      BY <2>8 DEF A, B
  <1>5. QED
    BY <1>2, <1>3, <1>4

LEMMA ValidateVisit ==
  ASSUME TypeOK, ValidateInv, NEW curr \in Claims, Visit(curr)
  PROVE  ValidateInv'
  <1>1. /\ pc = "validate" /\ pc' = pc /\ dependsOn' = dependsOn /\ curr \in queue
        /\ inDegree' = Decrement(inDegree, curr)
        /\ queue' = (queue \ {curr}) \cup {c \in Claims : inDegree[c] > 0 /\ inDegree'[c] = 0}
        /\ visited' = visited + 1
    BY DEF Visit
  <1>2. /\ queue \subseteq {c \in Claims : inDegree[c] = 0}
        /\ \A c \in Claims : inDegree[c] = Cardinality(Unmet(c, Visited))
        /\ visited = Cardinality(Visited)
        /\ \A S \in SUBSET Claims : Knotted(S) => S \cap Visited = {}
    BY DEF ValidateInv
  <1>3. inDegree[curr] = 0 /\ curr \notin Visited
    BY <1>1, <1>2 DEF Visited
  <1>4. ASSUME NEW c \in Claims
        PROVE  /\ inDegree[c] \in Nat
               /\ inDegree'[c] = Cardinality(Unmet(c, Visited \cup {curr}))
               /\ inDegree[c] = 0 => inDegree'[c] = 0
    <2>1. inDegree'[c] = inDegree[c] - Cardinality(Entries(c, curr))
      BY <1>1 DEF Decrement
    <2>2. /\ inDegree[c] = Cardinality(Unmet(c, Visited)) /\ inDegree[c] \in Nat
          /\ Cardinality(Unmet(c, Visited \cup {curr}))
               = Cardinality(Unmet(c, Visited)) - Cardinality(Entries(c, curr))
      BY <1>2, <1>3, UnmetLemma
    <2>3. Cardinality(Unmet(c, Visited \cup {curr})) \in Nat /\ Cardinality(Entries(c, curr)) \in Nat
      BY UnmetLemma, EntriesLemma
    <2>4. QED
      BY <2>1, <2>2, <2>3
  <1>5. Visited' = Visited \cup {curr}
    <2>1. ASSUME NEW c \in Claims
          PROVE  c \in Visited' <=> c \in Visited \cup {curr}
      <3>1. c \in Visited <=> inDegree[c] = 0 /\ c \notin queue
        BY DEF Visited
      <3>2. c \in Visited' <=> inDegree'[c] = 0 /\ c \notin queue'
        BY DEF Visited
      <3>3. c \in queue' <=> \/ c \in queue /\ c # curr
                             \/ inDegree[c] > 0 /\ inDegree'[c] = 0
        BY <1>1
      <3>4. CASE inDegree[c] = 0
        BY <1>1, <1>4, <3>1, <3>2, <3>3, <3>4
      <3>5. CASE inDegree[c] # 0
        <4>1. c \notin queue /\ c # curr /\ inDegree[c] > 0
          BY <1>2, <1>3, <1>4, <3>5
        <4>2. QED
          BY <3>1, <3>2, <3>3, <3>5, <4>1
      <3>6. QED
        BY <3>4, <3>5
    <2>2. QED
      BY <2>1 DEF Visited
  <1>6. queue' \subseteq {c \in Claims : inDegree'[c] = 0}
    BY <1>1, <1>2, <1>4
  <1>7. \A c \in Claims : inDegree'[c] = Cardinality(Unmet(c, Visited)')
    BY <1>1, <1>4, <1>5 DEF Unmet
  <1>8. visited' = Cardinality(Visited')
    <2>1. IsFiniteSet(Visited)
      BY ClaimsAssumption, FS_Subset DEF Visited
    <2>2. QED
      BY <1>1, <1>2, <1>3, <1>5, <2>1, FS_AddElement
  <1>9. ASSUME NEW S \in SUBSET Claims, Knotted(S)
        PROVE  S \cap Visited' = {}
    <2>1. S \cap Visited = {}
      BY <1>2, <1>9
    <2>2. Deps(curr) \subseteq Visited
      BY <1>2, <1>3, UnmetLemma
    <2>3. curr \notin S
      BY <1>9, <2>1, <2>2 DEF Knotted
    <2>4. QED
      BY <1>5, <2>1, <2>3
  <1>10. \A S : Knotted(S)' <=> Knotted(S)
    BY <1>1 DEF Knotted, Deps
  <1>11. QED
    BY <1>1, <1>6, <1>7, <1>8, <1>9, <1>10 DEF ValidateInv

LEMMA ValidateStep ==
  ASSUME TypeOK, ValidateInv, [LevelsNext]_graphVars
  PROVE  ValidateInv'
  <1>1. CASE UNCHANGED <<dependsOn, inDegree, queue, visited>>
    <2>1. Visited' = Visited /\ \A c : Deps(c)' = Deps(c)
      BY <1>1 DEF Visited, Deps
    <2>2. \A c : Unmet(c, Visited)' = Unmet(c, Visited)
      BY <1>1, <2>1 DEF Unmet
    <2>3. \A S : Knotted(S)' <=> Knotted(S)
      BY <2>1 DEF Knotted
    <2>4. /\ pc' # "validate" => queue = {}
          /\ pc' \in {"levels", "ready"} => visited = Cardinality(Claims)
          /\ pc' = "rejected" => visited # Cardinality(Claims)
      <3>1. CASE EndValidate
        BY <3>1 DEF EndValidate
      <3>2. CASE Round
        BY <3>2 DEF Round, ValidateInv
      <3>3. CASE EndLevels
        BY <3>3 DEF EndLevels, ValidateInv
      <3>4. ASSUME NEW c \in Claims, Visit(c)
            PROVE  pc' = "validate"
        BY <3>4 DEF Visit
      <3>5. CASE UNCHANGED graphVars
        BY <3>5 DEF graphVars, ValidateInv
      <3>6. QED
        BY <3>1, <3>2, <3>3, <3>4, <3>5 DEF LevelsNext
    <2>5. QED
      BY <1>1, <2>1, <2>2, <2>3, <2>4 DEF ValidateInv
  <1>2. CASE ~ UNCHANGED <<dependsOn, inDegree, queue, visited>>
    <2>1. \E c \in Claims : Visit(c)
      BY <1>2 DEF LevelsNext, EndValidate, Round, EndLevels, graphVars
    <2>2. QED
      BY <2>1, ValidateVisit
  <1>3. QED
    BY <1>1, <1>2

LEMMA ValidateInit == Init => ValidateInv
  <1> SUFFICES ASSUME Init PROVE ValidateInv
    OBVIOUS
  <1>1. TypeOK
    BY LevelsInit DEF LevelsInv
  <1>2. /\ pc = "validate" /\ visited = 0
        /\ inDegree = [c \in Claims |-> Len(dependsOn[c])]
        /\ queue = {c \in Claims : Len(dependsOn[c]) = 0}
    BY DEF Init, LoadInit
  <1>3. Visited = {} /\ queue = {c \in Claims : inDegree[c] = 0}
    BY <1>2 DEF Visited
  <1>4. ASSUME NEW c \in Claims
        PROVE  inDegree[c] = Cardinality(Unmet(c, {}))
    <2>1. Unmet(c, {}) = 1 .. Len(dependsOn[c])
      BY DEF Unmet
    <2>2. Len(dependsOn[c]) \in Nat
      BY <1>1, ListLemma
    <2>3. Cardinality(1 .. Len(dependsOn[c])) = Len(dependsOn[c])
      BY <2>2, FS_Interval
    <2>4. QED
      BY <1>2, <2>1, <2>3
  <1>5. QED
    BY <1>2, <1>3, <1>4, FS_EmptySet DEF ValidateInv

\* The claims were all visited exactly when no set of claims is knotted.
LEMMA ValidateVerdict ==
  ASSUME TypeOK, ValidateInv
  PROVE  ValidateDecidesAcyclicity
  <1>1. Visited \in SUBSET Claims /\ visited = Cardinality(Visited)
    BY DEF Visited, ValidateInv
  <1>2. ASSUME pc \in {"levels", "ready"}
        PROVE  Acyclic
    <2>1. Cardinality(Visited) = Cardinality(Claims)
      BY <1>1, <1>2 DEF ValidateInv
    <2>2. Visited = Claims
      BY <1>1, <2>1, ClaimsAssumption, FS_Subset
    <2>3. ASSUME NEW S \in (SUBSET Claims) \ {{}}
          PROVE  \E c \in S : Deps(c) \cap S = {}
      <3>1. S \subseteq Claims /\ S \cap Visited # {}
        BY <2>2
      <3>2. ~ Knotted(S)
        BY <3>1 DEF ValidateInv
      <3>3. QED
        BY <3>2 DEF Knotted
    <2>4. QED
      BY <2>3 DEF Acyclic
  <1>3. ASSUME pc = "rejected"
        PROVE  ~ Acyclic
    <2> DEFINE S == Claims \ Visited
    <2>1. visited # Cardinality(Claims) /\ queue = {}
      BY <1>3 DEF ValidateInv
    <2>2. S # {} /\ S \in SUBSET Claims
      BY <1>1, <2>1
    <2>3. ASSUME NEW c \in S
          PROVE  Deps(c) \cap S # {}
      <3>1. inDegree[c] # 0
        BY <2>1, <2>3 DEF Visited
      <3>2. ~ (Deps(c) \subseteq Visited)
        BY <2>3, <3>1, UnmetLemma DEF ValidateInv
      <3>3. Deps(c) \subseteq Claims
        BY <2>3, ListLemma
      <3>4. QED
        BY <3>2, <3>3
    <2>4. QED
      BY <2>2, <2>3 DEF Acyclic
  <1>4. QED
    BY <1>2, <1>3 DEF ValidateDecidesAcyclicity

\* DAG.Validate accepts a graph exactly when it has no cycle, for lists with and
\* without repeated entries.
THEOREM ValidateIsRight == Spec => []ValidateDecidesAcyclicity
  <1>1. Init => ValidateInv
    BY ValidateInit
  <1>2. TypeOK /\ ValidateInv /\ [Next]_graphVars => ValidateInv'
    BY ValidateStep DEF Next
  <1>3. TypeOK /\ ValidateInv => ValidateDecidesAcyclicity
    BY ValidateVerdict
  <1>4. QED
    BY <1>1, <1>2, <1>3, LevelsTyped, PTL DEF Spec


-----------------------------------------------------------------------------
(***************************************************************************)
(* When DAG.Levels returns.  A placed claim has counted down to 0, which   *)
(* takes a list as long as the set of claims it names; and in a graph      *)
(* without repetitions, claims that all wait for one another are a cycle.  *)
(***************************************************************************)
Unrepeated == \A c \in Placed : Cardinality(Deps(c)) = Len(dependsOn[c])

\* A claim that is ready has no repeated entry.
LEMMA ReadyIsUnrepeated ==
  ASSUME LevelsInv, pc = "levels", NEW c \in Ready
  PROVE  c \in Claims /\ Cardinality(Deps(c)) = Len(dependsOn[c])
  <1>1. c \in Claims /\ c \in DOMAIN remaining /\ remaining[c] = 0 /\ Deps(c) \subseteq Placed
    BY ReadyLemma DEF Ready, LevelsInv, TypeOK
  <1>2. 0 = Len(dependsOn[c]) - Cardinality(Deps(c) \cap Placed) /\ Deps(c) \cap Placed = Deps(c)
    BY <1>1 DEF LevelsInv, Counters
  <1>3. 0 = Len(dependsOn[c]) - Cardinality(Deps(c))
    BY <1>2
  <1>4. Len(dependsOn[c]) \in Nat /\ Cardinality(Deps(c)) \in Nat
    BY <1>1, ListLemma DEF LevelsInv
  <1>5. QED
    BY <1>1, <1>3, <1>4

LEMMA UnrepeatedStep ==
  ASSUME LevelsInv, Unrepeated, [LevelsNext]_graphVars
  PROVE  Unrepeated'
  <1>1. dependsOn' = dependsOn /\ \A c : Deps(c)' = Deps(c)
    BY DEF LevelsNext, Visit, EndValidate, Round, EndLevels, graphVars, Deps
  <1>2. CASE levels' = levels
    BY <1>1, <1>2 DEF Unrepeated, Placed
  <1>3. CASE levels' # levels
    <2>1. Round /\ levels' = Append(levels, Ready) /\ pc = "levels"
      BY <1>3 DEF LevelsNext, Visit, EndValidate, Round, EndLevels, graphVars
    <2>2. levels \in Seq(SUBSET Claims) /\ Ready \in SUBSET Claims
      BY ReadyIsUnrepeated, <2>1 DEF LevelsInv, TypeOK
    <2>3. Placed' \subseteq Placed \cup Ready
      BY <2>1, <2>2 DEF Placed
    <2>4. QED
      BY <1>1, <2>1, <2>3, ReadyIsUnrepeated DEF Unrepeated
  <1>4. QED
    BY <1>2, <1>3

\* DAG.Levels returns for no graph in which a list names a claim twice: each
\* one makes verify --project go round for ever (dag.go:205-235).
NoReturnWithRepeats == pc = "ready" => ~ Repeats

THEOREM ReturnTakesNoRepeats == Spec => []NoReturnWithRepeats
  <1>1. Init => Unrepeated
    BY DEF Init, LoadInit, Unrepeated, Placed
  <1>2. LevelsInv /\ Unrepeated /\ [Next]_graphVars => Unrepeated'
    BY UnrepeatedStep DEF Next
  <1>3. ASSUME LevelsInv, Unrepeated, pc = "ready"
        PROVE  ~ Repeats
    <2>1. Claims \ Placed = {}
      BY <1>3 DEF LevelsInv, Unplaced, Done
    <2>2. \A c \in Claims : Cardinality(Deps(c)) = Len(dependsOn[c]) /\ Len(dependsOn[c]) \in Nat
      BY <1>3, <2>1, ListLemma DEF Unrepeated, LevelsInv
    <2>3. QED
      BY <2>2 DEF Repeats
  <1>4. LevelsInv /\ Unrepeated => NoReturnWithRepeats
    BY <1>3 DEF NoReturnWithRepeats
  <1>5. QED
    BY <1>1, <1>2, <1>4, LevelsInvariance, PTL DEF Spec

\* Without repetitions every round places a claim.
RoundsPlace ==
  pc = "levels" /\ DOMAIN remaining # {} /\ ~ Repeats => Ready # {}

LEMMA RoundsPlaceLemma ==
  ASSUME LevelsInv, ValidateInv
  PROVE  RoundsPlace
  <1> SUFFICES ASSUME pc = "levels", DOMAIN remaining # {}, ~ Repeats, Ready = {}
               PROVE  FALSE
    BY DEF RoundsPlace
  <1> DEFINE S == DOMAIN remaining
  <1>1. TypeOK /\ Acyclic /\ S = Claims \ Placed /\ S \in SUBSET Claims
    BY ValidateVerdict DEF LevelsInv, Unplaced, ValidateDecidesAcyclicity
  <1>2. PICK c \in S : Deps(c) \cap S = {}
    BY <1>1 DEF Acyclic
  <1>3. c \in Claims /\ Deps(c) \subseteq Claims /\ Deps(c) \cap Placed = Deps(c)
    BY <1>1, <1>2, ListLemma
  <1>4. remaining[c] = Len(dependsOn[c]) - Cardinality(Deps(c))
    BY <1>2, <1>3 DEF LevelsInv, Counters
  <1>5. Cardinality(Deps(c)) = Len(dependsOn[c]) /\ Len(dependsOn[c]) \in Nat
    BY <1>1, <1>3, ListLemma DEF Repeats
  <1>6. remaining[c] = 0
    BY <1>4, <1>5
  <1>7. QED
    BY <1>2, <1>6 DEF Ready

\* As long as no list names a claim twice, each round of DAG.Levels leaves
\* fewer claims to place: the reason why it returns.
THEOREM RoundsMakeProgress ==
  Spec => [][Round /\ ~ Repeats => /\ DOMAIN remaining' \subseteq DOMAIN remaining
                                   /\ DOMAIN remaining' # DOMAIN remaining]_graphVars
  <1> DEFINE A == Round /\ ~ Repeats => /\ DOMAIN remaining' \subseteq DOMAIN remaining
                                        /\ DOMAIN remaining' # DOMAIN remaining
  <1>1. ASSUME LevelsInv, ValidateInv PROVE A
    <2>1. SUFFICES ASSUME Round, ~ Repeats
                   PROVE  /\ DOMAIN remaining' \subseteq DOMAIN remaining
                          /\ DOMAIN remaining' # DOMAIN remaining
      OBVIOUS
    <2>2. Ready # {} /\ Ready \subseteq DOMAIN remaining
      BY <1>1, <2>1, RoundsPlaceLemma DEF RoundsPlace, Round, Ready
    <2>3. DOMAIN remaining' = DOMAIN remaining \ Ready
      BY <2>1 DEF Round, Settle
    <2>4. QED
      BY <2>2, <2>3
  <1>2. Init => ValidateInv
    BY ValidateInit
  <1>3. TypeOK /\ ValidateInv /\ [Next]_graphVars => ValidateInv'
    BY ValidateStep DEF Next
  <1>4. LevelsInv => TypeOK
    BY DEF LevelsInv
  <1>5. QED
    BY <1>1, <1>2, <1>3, <1>4, LevelsInvariance, PTL DEF Spec

-----------------------------------------------------------------------------
(***************************************************************************)
(* What is below a claim, and what is above it.                            *)
(***************************************************************************)
\* Below is closed under dependencies, and is its claim's dependencies and
\* what is below them.
LEMMA BelowLemma ==
  ASSUME TypeOK, NEW c \in Claims
  PROVE  /\ Below(c) \subseteq Claims /\ Under(c, Below(c))
         /\ \A S \in SUBSET Claims : Under(c, S) => Below(c) \subseteq S
         /\ \A d \in Below(c) : d \in Deps(c) \/ \E e \in Deps(c) : d \in Below(e)
         /\ \A d \in Deps(c) \cup Below(c) : Below(d) \subseteq Below(c)
  <1>1. \A d \in Claims : Deps(d) \subseteq Claims
    BY ListLemma
  <1>2. ASSUME NEW b \in Claims
        PROVE  /\ Below(b) \in SUBSET Claims /\ Under(b, Below(b))
               /\ \A S \in SUBSET Claims : Under(b, S) => Below(b) \subseteq S
    BY <1>1 DEF Below, Under
  <1> DEFINE T == Deps(c) \cup UNION {Below(e) : e \in Deps(c)}
  <1>3. T \in SUBSET Claims /\ Under(c, T)
    <2>1. \A e \in Deps(c) : e \in Claims
      BY <1>1
    <2>2. T \in SUBSET Claims
      BY <1>2, <2>1
    <2>3. ASSUME NEW d \in T
          PROVE  Deps(d) \subseteq T
      <3>1. CASE d \in Deps(c)
        BY <1>2, <2>1, <3>1 DEF Under
      <3>2. ASSUME NEW e \in Deps(c), d \in Below(e)
            PROVE  Deps(d) \subseteq T
        <4>1. Under(e, Below(e))
          BY <1>2, <2>1
        <4>2. Deps(d) \subseteq Below(e)
          BY <3>2, <4>1 DEF Under
        <4>3. QED
          BY <4>2
      <3>3. QED
        BY <2>3, <3>1, <3>2
    <2>4. QED
      BY <2>2, <2>3 DEF Under
  <1>4. Below(c) \subseteq T
    BY <1>2, <1>3
  <1>5. ASSUME NEW d \in Deps(c) \cup Below(c)
        PROVE  Below(d) \subseteq Below(c)
    <2>1. d \in Below(c) /\ d \in Claims /\ Below(c) \in SUBSET Claims
      BY <1>2, <1>5 DEF Under
    <2>2. Under(d, Below(c))
      BY <1>2, <2>1 DEF Under
    <2>3. QED
      BY <1>2, <2>1, <2>2
  <1>6. QED
    BY <1>2, <1>4, <1>5

\* In a graph without cycles no claim is below itself.
LEMMA NotBelowItself ==
  ASSUME TypeOK, Acyclic, NEW c \in Claims
  PROVE  c \notin Below(c) /\ c \notin Deps(c)
  <1> DEFINE S == {x \in Claims : c \in Below(x)}
  <1>1. Deps(c) \subseteq Below(c)
    BY BelowLemma DEF Under
  <1>2. SUFFICES ASSUME c \in Below(c) PROVE FALSE
    BY <1>1
  <1>3. c \in S /\ S \in SUBSET Claims
    BY <1>2
  <1>4. PICK x \in S : Deps(x) \cap S = {}
    BY <1>3 DEF Acyclic
  <1>5. \A y \in Deps(x) : y \in Claims
    BY ListLemma
  <1>6. c \in Deps(x) \/ \E y \in Deps(x) : c \in Below(y)
    BY <1>4, BelowLemma
  <1>7. QED
    BY <1>3, <1>4, <1>5, <1>6

\* Above is closed under dependents, and a set that is closed under them and
\* holds the claim's own holds what is above it.
LEMMA AboveLemma ==
  ASSUME TypeOK, Acyclic, NEW c \in Claims
  PROVE  /\ Dependents(c) \subseteq Above(c)
         /\ \A d \in Above(c) : Dependents(d) \subseteq Above(c)
         /\ \A S : Dependents(c) \subseteq S /\ (\A d \in S : Dependents(d) \subseteq S)
                     => Above(c) \subseteq S
  <1>1. \A d \in Claims : Deps(d) \subseteq Below(d) /\ \A e \in Deps(d) : Below(e) \subseteq Below(d)
    BY BelowLemma DEF Under
  <1>2. Dependents(c) \subseteq Above(c)
    BY <1>1 DEF Dependents, Above
  <1>3. \A d \in Above(c) : Dependents(d) \subseteq Above(c)
    BY <1>1 DEF Dependents, Above
  <1>4. ASSUME NEW S, Dependents(c) \subseteq S, \A d \in S : Dependents(d) \subseteq S,
               NEW x \in Above(c)
        PROVE  x \in S
    <2> DEFINE T == Claims \ (S \cup {c})
    <2>1. SUFFICES ASSUME x \notin S PROVE FALSE
      OBVIOUS
    <2>2. x \in Claims /\ c \in Below(x) /\ x # c
      BY NotBelowItself DEF Above
    <2>3. ASSUME NEW d \in T
          PROVE  Deps(d) \subseteq T
      <3>1. Deps(d) \subseteq Claims /\ d \in Claims /\ d # c /\ d \notin S
        BY ListLemma
      <3>2. c \notin Deps(d)
        BY <1>4, <3>1 DEF Dependents
      <3>3. \A e \in Deps(d) : e \notin S
        BY <1>4, <3>1 DEF Dependents
      <3>4. QED
        BY <3>1, <3>2, <3>3
    <2>4. x \in T /\ Under(x, T) /\ T \in SUBSET Claims
      BY <2>1, <2>2, <2>3 DEF Under
    <2>5. Below(x) \subseteq T
      BY <2>2, <2>4, BelowLemma
    <2>6. QED
      BY <2>2, <2>5
  <1>5. QED
    BY <1>2, <1>3, <1>4

Kinds == {"closure", "impact", "stale", "sort"}

SearchTyped ==
  /\ about \in Claims
  /\ search \in Kinds \cup {"none"}
  /\ calls \subseteq Claims
  /\ met \subseteq Claims
  /\ deg \in [Claims -> Int]
  /\ order \in Seq(Claims)
  /\ search # "none" => Accepted
  /\ search = "none" => met = {} /\ order = <<>>

\* The searches that visit: the claims they may meet, those they begin with,
\* and that what they have met leads on only to what they have met or will.
Reach ==
  CASE search = "closure" -> {about} \cup Below(about)
    [] search = "stale"   -> {about} \cup Above(about)
    [] search = "impact"  -> Above(about)
    [] OTHER -> {}

Visiting ==
  search \in {"closure", "impact", "stale"} =>
    /\ calls \cup met \subseteq Reach
    /\ FirstCalls[search] \subseteq calls \cup met
    /\ \A c \in met : Onward(c) \subseteq calls \cup met

\* topoSort: the counters are as Validate's, and the queue is what has counted
\* down to 0 and is not in the order yet.
Ordered == {order[i] : i \in DOMAIN order}

Sorting ==
  search = "sort" =>
    /\ Cardinality(Ordered) = Len(order)
    /\ \A c \in Claims : deg[c] = Cardinality(Unmet(c, Ordered))
    /\ calls = {c \in Claims : deg[c] = 0} \ Ordered
    /\ \A c \in Ordered : deg[c] = 0
    /\ \A i \in DOMAIN order : Deps(order[i]) \subseteq {order[j] : j \in 1 .. i - 1}

QueriesInv ==
  /\ LevelsInv
  /\ ValidateInv
  /\ EarliestInv
  /\ SearchTyped
  /\ Visiting
  /\ Sorting

-----------------------------------------------------------------------------
LEMMA QueriesBegin == QueriesInit => QueriesInv
  <1> SUFFICES ASSUME QueriesInit PROVE QueriesInv
    OBVIOUS
  <1>1. Init
    BY DEF QueriesInit, Init
  <1>2. LevelsInv /\ ValidateInv /\ EarliestInv
    BY <1>1, LevelsInit, ValidateInit DEF LevelsInv, Untouched, EarliestInv, Fresh, LevelsAreEarliest, Init, LoadInit
  <1>3. SearchTyped
    BY AskedAssumption DEF QueriesInit, SearchTyped
  <1>4. Visiting /\ Sorting
    BY DEF QueriesInit, Visiting, Sorting
  <1>5. QED
    BY <1>2, <1>3, <1>4 DEF QueriesInv

\* A step of a query leaves the graph as it is, and with it the reference.
LEMMA SameGraph ==
  ASSUME UNCHANGED <<dependsOn, about>>
  PROVE  /\ \A c : Deps(c)' = Deps(c) /\ Below(c)' = Below(c) /\ Above(c)' = Above(c)
         /\ \A c : Dependents(c)' = Dependents(c)
         /\ \A c, S : Unmet(c, S)' = Unmet(c, S)
         /\ FirstCalls' = FirstCalls
  <1>1. \A c : Deps(c)' = Deps(c)
    BY DEF Deps
  <1>2. \A c, S : Under(c, S)' <=> Under(c, S)
    BY <1>1 DEF Under
  <1>3. \A c : Below(c)' = Below(c)
    BY <1>2 DEF Below
  <1>4. \A c : Dependents(c)' = Dependents(c)
    BY <1>1 DEF Dependents
  <1>5. \A c : Above(c)' = Above(c)
    BY <1>3 DEF Above
  <1>6. \A c, S : Unmet(c, S)' = Unmet(c, S)
    BY DEF Unmet
  <1>7. FirstCalls' = FirstCalls
    BY <1>4 DEF FirstCalls
  <1>8. QED
    BY <1>1, <1>3, <1>4, <1>5, <1>6, <1>7

LEMMA GraphPart ==
  ASSUME QueriesInv, [QueriesNext]_queryVars
  PROVE  LevelsInv' /\ ValidateInv' /\ EarliestInv'
  <1>1. [LevelsNext]_graphVars
    BY DEF QueriesNext, LoadGraph, Ask, Call, Spread, Meet, Take, queryVars
  <1>2. QED
    BY <1>1, LevelsStep, ValidateStep, EarliestStep DEF QueriesInv, LevelsInv, Next

\* The graph that a search walks has no cycle.
LEMMA SearchedIsAcyclic ==
  ASSUME QueriesInv, Accepted
  PROVE  TypeOK /\ Acyclic
  BY ValidateVerdict DEF QueriesInv, LevelsInv, Accepted, ValidateDecidesAcyclicity

-----------------------------------------------------------------------------
\* A search begins with calls in its reach; the queue of topoSort with the
\* claims whose list is empty.
LEMMA AskStep ==
  ASSUME QueriesInv, NEW s \in DOMAIN FirstCalls, Ask(s)
  PROVE  SearchTyped' /\ Visiting' /\ Sorting'
  <1>1. /\ Accepted /\ search' = s /\ calls' = FirstCalls[s] /\ about' = about
        /\ met' = {} /\ order' = <<>> /\ dependsOn' = dependsOn
        /\ deg' = [c \in Claims |-> Len(dependsOn[c])]
        /\ UNCHANGED <<pc, levels>>
    BY DEF Ask, QueriesInv, SearchTyped, graphVars
  <1>2. TypeOK /\ Acyclic /\ about \in Claims /\ s \in Kinds
    BY <1>1, SearchedIsAcyclic DEF QueriesInv, SearchTyped, FirstCalls, Kinds
  <1>3. \A c \in Claims : Len(dependsOn[c]) \in Nat
    BY <1>2, ListLemma
  <1>4. FirstCalls[s] \subseteq Claims
    BY <1>2 DEF FirstCalls, Kinds, Dependents
  <1>5. SearchTyped'
    BY <1>1, <1>2, <1>3, <1>4 DEF SearchTyped, Accepted, Kinds
  <1>6. Visiting'
    <2>1. ASSUME s \in {"closure", "impact", "stale"}
          PROVE  FirstCalls[s] \subseteq Reach'
      <3>1. Dependents(about) \subseteq Above(about) /\ Above(about)' = Above(about)
            /\ Below(about)' = Below(about)
        BY <1>1, <1>2, AboveLemma, SameGraph
      <3>2. QED
        BY <1>1, <2>1, <3>1 DEF FirstCalls, Reach
    <2>2. FirstCalls' = FirstCalls
      BY <1>1, SameGraph
    <2>3. QED
      BY <1>1, <2>1, <2>2 DEF Visiting
  <1>7. Sorting'
    <2>1. SUFFICES ASSUME s = "sort"
                   PROVE  /\ Cardinality(Ordered') = 0
                          /\ \A c \in Claims : deg'[c] = Cardinality(Unmet(c, Ordered)')
                          /\ calls' = {c \in Claims : deg'[c] = 0}
                          /\ Ordered' = {}
      BY <1>1 DEF Sorting
    <2>2. Ordered' = {}
      BY <1>1 DEF Ordered
    <2>3. ASSUME NEW c \in Claims
          PROVE  deg'[c] = Cardinality(Unmet(c, Ordered)')
      <3>1. Unmet(c, Ordered)' = 1 .. Len(dependsOn[c])
        BY <1>1, <2>2 DEF Unmet
      <3>2. QED
        BY <1>1, <1>3, <3>1, FS_Interval
    <2>4. calls' = {c \in Claims : deg'[c] = 0}
      BY <1>1, <2>1 DEF FirstCalls
    <2>5. QED
      BY <2>2, <2>3, <2>4, FS_EmptySet
  <1>8. QED
    BY <1>5, <1>6, <1>7

\* A visit stays within reach, and adds what the claim leads on to.
LEMMA MeetStep ==
  ASSUME QueriesInv, NEW c \in Claims, Call(c) \/ Spread(c)
  PROVE  SearchTyped' /\ Visiting' /\ Sorting'
  <1>1. /\ search \in {"closure", "impact", "stale"} /\ c \in calls /\ met' = met \cup {c}
        /\ calls' = (calls \ {c}) \cup (IF c \in met THEN {} ELSE Onward(c))
        /\ UNCHANGED <<pc, levels, dependsOn, about, search, deg, order>>
    BY DEF Call, Spread, Meet, graphVars
  <1>2. Accepted /\ TypeOK /\ Acyclic /\ about \in Claims
    BY <1>1, SearchedIsAcyclic DEF QueriesInv, SearchTyped
  <1>3. calls' \cup met' = calls \cup met \cup (IF c \in met THEN {} ELSE Onward(c))
    BY <1>1
  <1>4. Onward(c) \subseteq Claims
    BY <1>2, ListLemma DEF Onward, Dependents
  <1>5. SearchTyped'
    BY <1>1, <1>2, <1>3, <1>4 DEF QueriesInv, SearchTyped, Accepted
  <1>6. c \in Reach /\ calls \cup met \subseteq Reach
    BY <1>1 DEF QueriesInv, Visiting
  <1>7. Onward(c) \subseteq Reach
    <2>1. CASE search = "closure"
      <3>1. Onward(c) = Deps(c) /\ Reach = {about} \cup Below(about)
        BY <2>1 DEF Onward, Reach
      <3>2. Under(about, Below(about))
        BY <1>2, BelowLemma
      <3>3. QED
        BY <1>6, <3>1, <3>2 DEF Under
    <2>2. CASE search # "closure"
      <3>1. Onward(c) = Dependents(c) /\ Above(about) \subseteq Reach /\ Reach \subseteq {about} \cup Above(about)
        BY <1>1, <2>2 DEF Onward, Reach
      <3>2. Dependents(about) \subseteq Above(about) /\ \A d \in Above(about) : Dependents(d) \subseteq Above(about)
        BY <1>2, AboveLemma
      <3>3. QED
        BY <1>6, <3>1, <3>2
    <2>3. QED
      BY <2>1, <2>2
  <1>8. /\ Reach' = Reach /\ FirstCalls' = FirstCalls /\ \A d : Onward(d)' = Onward(d)
    <2>1. /\ Below(about)' = Below(about) /\ Above(about)' = Above(about) /\ FirstCalls' = FirstCalls
          /\ \A d : Deps(d)' = Deps(d) /\ Dependents(d)' = Dependents(d)
      BY <1>1, SameGraph
    <2>2. Reach' = Reach
      BY <1>1, <2>1 DEF Reach
    <2>3. QED
      BY <1>1, <2>1, <2>2 DEF Onward
  <1>9. Visiting'
    <2>1. calls' \cup met' \subseteq Reach
      BY <1>3, <1>6, <1>7
    <2>2. FirstCalls[search] \subseteq calls' \cup met'
      BY <1>1, <1>3 DEF QueriesInv, Visiting
    <2>3. \A d \in met' : Onward(d) \subseteq calls' \cup met'
      <3>1. \A d \in met : Onward(d) \subseteq calls \cup met
        BY <1>1 DEF QueriesInv, Visiting
      <3>2. QED
        BY <1>1, <1>3, <3>1
    <2>4. QED
      BY <1>1, <1>8, <2>1, <2>2, <2>3 DEF Visiting
  <1>10. Sorting'
    BY <1>1 DEF Sorting
  <1>11. QED
    BY <1>5, <1>9, <1>10

\* One round of topoSort: what is taken has its dependencies in the order.
LEMMA TakeStep ==
  ASSUME QueriesInv, NEW c \in Claims, Take(c)
  PROVE  SearchTyped' /\ Visiting' /\ Sorting'
  <1>1. /\ search = "sort" /\ c \in calls /\ order' = Append(order, c)
        /\ deg' = Decrement(deg, c)
        /\ calls' = (calls \ {c}) \cup {d \in Claims : deg[d] > 0 /\ deg'[d] = 0}
        /\ UNCHANGED <<pc, levels, dependsOn, about, search, met>>
    BY DEF Take, graphVars
  <1>2. Accepted /\ TypeOK /\ order \in Seq(Claims) /\ deg \in [Claims -> Int]
    BY <1>1, SearchedIsAcyclic DEF QueriesInv, SearchTyped
  <1>3. /\ Cardinality(Ordered) = Len(order)
        /\ \A d \in Claims : deg[d] = Cardinality(Unmet(d, Ordered))
        /\ calls = {d \in Claims : deg[d] = 0} \ Ordered
        /\ \A d \in Ordered : deg[d] = 0
        /\ \A i \in DOMAIN order : Deps(order[i]) \subseteq {order[j] : j \in 1 .. i - 1}
    BY <1>1 DEF QueriesInv, Sorting
  <1>4. c \notin Ordered /\ deg[c] = 0 /\ Ordered \subseteq Claims
    BY <1>1, <1>2, <1>3 DEF Ordered
  <1>5. /\ order' \in Seq(Claims) /\ Len(order') = Len(order) + 1 /\ Len(order) \in Nat
        /\ DOMAIN order = 1 .. Len(order) /\ DOMAIN order' = 1 .. Len(order) + 1
        /\ \A i \in 1 .. Len(order) : order'[i] = order[i]
        /\ order'[Len(order) + 1] = c
    BY <1>1, <1>2
  <1>6. Ordered' = Ordered \cup {c}
    BY <1>5 DEF Ordered
  <1>7. ASSUME NEW d \in Claims
        PROVE  /\ deg'[d] \in Int
               /\ deg'[d] = Cardinality(Unmet(d, Ordered)')
               /\ deg[d] \in Nat /\ deg'[d] <= deg[d] /\ deg'[d] \in Nat
    <2>1. deg'[d] = deg[d] - Cardinality(Entries(d, c)) /\ Cardinality(Entries(d, c)) \in Nat
      BY <1>1, <1>2, EntriesLemma DEF Decrement
    <2>2. /\ Cardinality(Unmet(d, Ordered \cup {c}))
               = Cardinality(Unmet(d, Ordered)) - Cardinality(Entries(d, c))
          /\ Cardinality(Unmet(d, Ordered)) \in Nat
          /\ Cardinality(Unmet(d, Ordered \cup {c})) \in Nat
      BY <1>2, <1>4, UnmetLemma
    <2>3. Unmet(d, Ordered)' = Unmet(d, Ordered \cup {c})
      BY <1>1, <1>6 DEF Unmet
    <2>4. QED
      BY <1>3, <2>1, <2>2, <2>3
  <1>8. SearchTyped'
    <2>1. deg' \in [Claims -> Int]
      BY <1>1, <1>7 DEF Decrement
    <2>2. calls' \subseteq Claims
      BY <1>1, <1>3
    <2>3. QED
      BY <1>1, <1>2, <1>5, <2>1, <2>2 DEF QueriesInv, SearchTyped, Accepted
  <1>9. Visiting'
    BY <1>1 DEF Visiting
  <1>10. Cardinality(Ordered') = Len(order')
    <2>1. IsFiniteSet(Ordered)
      BY <1>4, ClaimsAssumption, FS_Subset
    <2>2. Cardinality(Ordered \cup {c}) = Cardinality(Ordered) + 1
      BY <1>4, <2>1, FS_AddElement
    <2>3. QED
      BY <1>3, <1>5, <1>6, <2>2
  <1>11. \A d \in Ordered' : deg'[d] = 0
    <2>1. ASSUME NEW d \in Claims, deg[d] = 0
          PROVE  deg'[d] = 0
      BY <1>7, <2>1
    <2>2. QED
      BY <1>3, <1>4, <1>6, <2>1
  <1>12. calls' = {d \in Claims : deg'[d] = 0} \ Ordered'
    <2>1. ASSUME NEW d \in Claims
          PROVE  d \in calls' <=> deg'[d] = 0 /\ d \notin Ordered'
      <3>1. d \in calls' <=> \/ d # c /\ deg[d] = 0 /\ d \notin Ordered
                             \/ deg[d] > 0 /\ deg'[d] = 0
        BY <1>1, <1>3
      <3>2. deg[d] = 0 => deg'[d] = 0
        BY <1>7
      <3>3. deg[d] > 0 => d \notin Ordered'
        BY <1>3, <1>4, <1>6
      <3>4. deg[d] > 0 \/ deg[d] = 0
        BY <1>7
      <3>5. QED
        BY <1>6, <3>1, <3>2, <3>3, <3>4
    <2>2. QED
      BY <1>8, <2>1 DEF SearchTyped
  <1>13. ASSUME NEW i \in DOMAIN order'
         PROVE  Deps(order'[i]) \subseteq {order'[j] : j \in 1 .. i - 1}
    <2>1. CASE i \in 1 .. Len(order)
      <3>1. {order[j] : j \in 1 .. i - 1} \subseteq {order'[j] : j \in 1 .. i - 1}
        BY <1>5, <2>1
      <3>2. Deps(order[i]) \subseteq {order[j] : j \in 1 .. i - 1} /\ order'[i] = order[i]
        BY <1>3, <1>5, <2>1
      <3>3. QED
        BY <3>1, <3>2
    <2>2. CASE i = Len(order) + 1
      <3>1. Deps(c) \subseteq Ordered /\ order'[i] = c
        BY <1>2, <1>3, <1>4, <1>5, <2>2, UnmetLemma
      <3>2. Ordered \subseteq {order'[j] : j \in 1 .. Len(order)}
        BY <1>5 DEF Ordered
      <3>3. i - 1 = Len(order)
        BY <1>5, <2>2
      <3>4. QED
        BY <3>1, <3>2, <3>3
    <2>3. QED
      BY <1>5, <2>1, <2>2
  <1>14. \A i \in DOMAIN order' : (Deps(order[i]) \subseteq {order[j] : j \in 1 .. i - 1})'
    BY <1>1, <1>13 DEF Deps
  <1>15. Sorting'
    BY <1>7, <1>10, <1>11, <1>12, <1>14 DEF Sorting
  <1>16. QED
    BY <1>8, <1>9, <1>15

LEMMA QueriesStep ==
  ASSUME QueriesInv, [QueriesNext]_queryVars
  PROVE  QueriesInv'
  <1>1. LevelsInv' /\ ValidateInv' /\ EarliestInv'
    BY GraphPart
  <1>2. SearchTyped' /\ Visiting' /\ Sorting'
    <2>1. CASE search = "none" /\ UNCHANGED searchVars
      BY <2>1 DEF searchVars, QueriesInv, SearchTyped, Visiting, Sorting
    <2>2. CASE UNCHANGED queryVars
      <3>1. /\ UNCHANGED <<dependsOn, about, search, calls, met, deg, order, pc, levels>>
        BY <2>2 DEF queryVars, graphVars, searchVars
      <3>2. /\ Reach' = Reach /\ FirstCalls' = FirstCalls /\ Ordered' = Ordered
            /\ \A d : Onward(d)' = Onward(d) /\ Deps(d)' = Deps(d)
            /\ \A d : Unmet(d, Ordered)' = Unmet(d, Ordered)
        <4>1. /\ Below(about)' = Below(about) /\ Above(about)' = Above(about) /\ FirstCalls' = FirstCalls
              /\ \A d : Deps(d)' = Deps(d) /\ Dependents(d)' = Dependents(d)
          BY <3>1, SameGraph
        <4>2. Reach' = Reach
          BY <3>1, <4>1 DEF Reach
        <4>3. Ordered' = Ordered
          BY <3>1 DEF Ordered
        <4>4. \A d : Onward(d)' = Onward(d)
          BY <3>1, <4>1 DEF Onward
        <4>5. \A d : Unmet(d, Ordered)' = Unmet(d, Ordered)
          BY <3>1, <4>3 DEF Unmet
        <4>6. QED
          BY <4>1, <4>2, <4>3, <4>4, <4>5
      <3>3. SearchTyped'
        BY <3>1 DEF QueriesInv, SearchTyped, Accepted
      <3>4. Visiting'
        BY <3>1, <3>2 DEF QueriesInv, Visiting
      <3>5. Sorting'
        BY <3>1, <3>2 DEF QueriesInv, Sorting
      <3>6. QED
        BY <3>3, <3>4, <3>5
    <2>3. QED
      BY <2>1, <2>2, AskStep, MeetStep, TakeStep DEF QueriesNext, LoadGraph
  <1>3. QED
    BY <1>1, <1>2 DEF QueriesInv

THEOREM QueriesInvariance == QueriesSpec => []QueriesInv
  BY QueriesBegin, QueriesStep, PTL DEF QueriesSpec

-----------------------------------------------------------------------------
\* A search that has returned has met all that is in its reach.
LEMMA SearchIsExact ==
  ASSUME QueriesInv, HasReturned
  PROVE  SearchesAgree
  <1>1. calls = {} /\ search \in Kinds /\ Accepted /\ TypeOK /\ Acyclic /\ about \in Claims
    BY SearchedIsAcyclic DEF HasReturned, QueriesInv, SearchTyped
  <1>2. ASSUME search = "closure"
        PROVE  Closure = Below(about)
    <2>1. met \subseteq {about} \cup Below(about) /\ about \in met /\ \A c \in met : Deps(c) \subseteq met
      BY <1>1, <1>2 DEF QueriesInv, Visiting, Reach, FirstCalls, Onward
    <2>2. Under(about, met) /\ met \in SUBSET Claims
      BY <2>1 DEF Under, QueriesInv, SearchTyped
    <2>3. Below(about) \subseteq met /\ about \notin Below(about)
      BY <1>1, <2>2, BelowLemma, NotBelowItself
    <2>4. QED
      BY <2>1, <2>3 DEF Closure
  <1>3. ASSUME search = "impact"
        PROVE  met = Above(about)
    <2>1. met \subseteq Above(about) /\ Dependents(about) \subseteq met /\ \A c \in met : Dependents(c) \subseteq met
      BY <1>1, <1>3 DEF QueriesInv, Visiting, Reach, FirstCalls, Onward
    <2>2. Above(about) \subseteq met
      BY <1>1, <2>1, AboveLemma
    <2>3. QED
      BY <2>1, <2>2
  <1>4. ASSUME search = "stale"
        PROVE  met = {about} \cup Above(about)
    <2>1. met \subseteq {about} \cup Above(about) /\ about \in met /\ \A c \in met : Dependents(c) \subseteq met
      BY <1>1, <1>4 DEF QueriesInv, Visiting, Reach, FirstCalls, Onward
    <2>2. Above(about) \subseteq met
      BY <1>1, <2>1, AboveLemma
    <2>3. QED
      BY <2>1, <2>2
  <1>5. ASSUME search = "sort"
        PROVE  /\ Len(order) = Cardinality(Claims)
               /\ Claims = {order[i] : i \in DOMAIN order}
               /\ \A i \in DOMAIN order : Deps(order[i]) \subseteq {order[j] : j \in 1 .. i - 1}
    <2>1. /\ Cardinality(Ordered) = Len(order) /\ Ordered \subseteq Claims
          /\ \A c \in Claims : deg[c] = Cardinality(Unmet(c, Ordered))
          /\ {c \in Claims : deg[c] = 0} \subseteq Ordered
          /\ \A i \in DOMAIN order : Deps(order[i]) \subseteq {order[j] : j \in 1 .. i - 1}
      BY <1>1, <1>5 DEF QueriesInv, SearchTyped, Sorting, Ordered
    <2>2. ASSUME NEW c \in Claims \ Ordered
          PROVE  Deps(c) \cap (Claims \ Ordered) # {}
      <3>1. Cardinality(Unmet(c, Ordered)) # 0
        BY <2>1, <2>2
      <3>2. ~ (Deps(c) \subseteq Ordered) /\ Deps(c) \subseteq Claims
        BY <1>1, <2>2, <3>1, UnmetLemma, ListLemma
      <3>3. QED
        BY <3>2
    <2>3. Claims \ Ordered = {}
      BY <1>1, <2>2 DEF Acyclic
    <2>4. Claims = Ordered
      BY <2>1, <2>3
    <2>5. QED
      BY <2>1, <2>4 DEF Ordered
  <1>6. QED
    BY <1>2, <1>3, <1>4, <1>5 DEF SearchesAgree

\* A claim is blocked exactly by what is rejected below it.
LEMMA BlockedLemma ==
  ASSUME QueriesInv, HasReturned, search = "closure"
  PROVE  BlockedAreImpacted
  <1>1. Closure = Below(about) /\ about \in Claims /\ TypeOK
    BY SearchIsExact DEF SearchesAgree, QueriesInv, SearchTyped, LevelsInv
  <1>2. ASSUME NEW atts \in [Claims -> Attested], atts[about] = "none"
        PROVE  /\ ComputeOne(atts) = "blocked" <=>
                    \E d \in Claims : DeriveStatus(atts[d]) = "rejected" /\ about \in Above(d)
               /\ (\A d \in Claims : atts[d] # "overturned") =>
                    /\ ComputeOne(atts) = "blocked" <=> Blockers(atts) # {}
                    /\ ComputeOne(atts) = "blocked" /\ Frontier(atts) = {} =>
                         \E d \in Deps(about) :
                           atts[d] = "accepted" /\ \E b \in Below(d) : atts[b] = "rejected"
    <2>1. \A d \in Claims : atts[d] \in Attested
      BY <1>2
    <2>2. \A d \in Claims : DeriveStatus(atts[d]) \in Blocking <=> DeriveStatus(atts[d]) = "rejected"
      BY <2>1 DEF Attested, DeriveStatus, Blocking
    <2>3. Below(about) \subseteq Claims
      BY <1>1, BelowLemma
    <2>4. ComputeOne(atts) = "blocked" <=> \E d \in Below(about) : DeriveStatus(atts[d]) = "rejected"
      BY <1>1, <1>2, <2>2, <2>3 DEF ComputeOne
    <2>5. \A d \in Claims : d \in Below(about) <=> about \in Above(d)
      BY <1>1 DEF Above
    <2>6. ASSUME \A d \in Claims : atts[d] # "overturned"
          PROVE  /\ ComputeOne(atts) = "blocked" <=> Blockers(atts) # {}
                 /\ ComputeOne(atts) = "blocked" /\ Frontier(atts) = {} =>
                      \E d \in Deps(about) :
                        atts[d] = "accepted" /\ \E b \in Below(d) : atts[b] = "rejected"
      <3>1. \A d \in Claims : DeriveStatus(atts[d]) = atts[d] /\ Outcome(atts[d]) = atts[d]
        BY <2>6 DEF DeriveStatus, Outcome
      <3>2. ComputeOne(atts) = "blocked" <=> Blockers(atts) # {}
        BY <1>1, <2>2, <2>3, <2>4, <3>1 DEF Blockers
      <3>3. ASSUME NEW b \in Below(about), atts[b] = "rejected", Frontier(atts) = {}
            PROVE  \E d \in Deps(about) : atts[d] = "accepted" /\ \E x \in Below(d) : atts[x] = "rejected"
        <4>1. Deps(about) \subseteq Claims
          BY <1>1, ListLemma
        <4>2. \A d \in Deps(about) : atts[d] = "accepted"
          BY <3>1, <3>3, <4>1 DEF Frontier
        <4>3. b \in Deps(about) \/ \E d \in Deps(about) : b \in Below(d)
          BY <1>1, <3>3, BelowLemma
        <4>4. QED
          BY <3>3, <4>2, <4>3
      <3>4. QED
        BY <2>3, <2>4, <3>1, <3>2, <3>3
    <2>7. QED
      BY <2>3, <2>4, <2>5, <2>6
  <1>3. QED
    BY <1>2 DEF BlockedAreImpacted

\* The searches behind status, graph, explain and impact, and the propagation
\* of staleness, return what the reference says, for every graph that
\* Validate accepts.
THEOREM SearchesAreExact == QueriesSpec => []SearchesAgree
  <1>1. QueriesInv => SearchesAgree
    BY SearchIsExact DEF SearchesAgree
  <1>2. QED
    BY <1>1, QueriesInvariance, PTL

\* status calls a claim blocked exactly if something it rests on, however
\* far away, is rejected; explain agrees unless an attestation was overturned.
THEOREM BlockedIsImpacted == QueriesSpec => []BlockedAreImpacted
  <1>1. QueriesInv => BlockedAreImpacted
    BY BlockedLemma DEF BlockedAreImpacted
  <1>2. QED
    BY <1>1, QueriesInvariance, PTL

\* The process that searches loads the graph as the one that verifies does.
THEOREM QueriesLoadRight ==
  QueriesSpec => [](/\ ValidateDecidesAcyclicity /\ LevelsTopological
                    /\ LevelsPartition /\ LevelsAreEarliest)
  <1>1. QueriesInv => /\ ValidateDecidesAcyclicity /\ LevelsTopological
                      /\ LevelsPartition /\ LevelsAreEarliest
    BY ValidateVerdict, PartitionLemma DEF QueriesInv, LevelsInv, EarliestInv
  <1>2. QED
    BY <1>1, QueriesInvariance, PTL

=============================================================================
