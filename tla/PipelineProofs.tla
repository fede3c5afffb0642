--------------------------- MODULE PipelineProofs ---------------------------
(***************************************************************************)
(* For any number of runs, evidence items and edits: what an attestation   *)
(* rests on, and of which graph it is.                                     *)
(***************************************************************************)
EXTENDS Pipeline, TLAPS

-----------------------------------------------------------------------------
\* How often files have changed is counted.
Moves == moved \in [Runs -> [digests : Nat, snapshot : Nat]]

\* The checker has not been asked before stage "check" and has been about every
\* item after it, in the order of the list; a run that has not loaded the graph
\* has no result.
Stages(p) ==
  /\ pc[p] = "start" => outcome[p] = None
  /\ pc[p] \in {"start", "digests", "cache", "snapshot"} => \A i \in Items : answer[p][i] = None
  /\ pc[p] = "judge" => \A i \in ItemsOf(p) : answer[p][i] # None
  /\ \A i \in Items : answer[p][i] # None =>
       i \in ItemsOf(p) /\ \A j \in Items : j < i => answer[p][j] # None

\* As long as no file changes after the digest check, the files, the first
\* snapshot and what the checker has read are what the loaded graph pins.
Pinned(p) ==
  moved[p].digests = 0 =>
    /\ pc[p] \in {"cache", "snapshot"} => DigestsMatch(p)
    /\ pc[p] = "check" => \A i \in ItemsOf(p) : disk[i] = view[p].pinned[i]
    /\ pc[p] \in {"check", "judge"} =>
         \A i \in ItemsOf(p) : answer[p][i] # None => read[p][i] = view[p].pinned[i]

\* No change since the first snapshot: nothing differs from it.  One change: a
\* file differs from it, so that the second snapshot will tell.
Undrifted(p) ==
  /\ pc[p] = "check" /\ moved[p].snapshot = 0 => \A i \in ItemsOf(p) : disk[i] = pre[p][i]
  /\ pc[p] = "check" /\ moved[p].snapshot = 1 => \E i \in ItemsOf(p) : disk[i] # pre[p][i]
  /\ \/ pc[p] = "check" /\ moved[p].snapshot = 0
     \/ pc[p] = "judge" /\ moved[p].snapshot <= 1
     => \A i \in ItemsOf(p) : answer[p][i] # None => read[p][i] = pre[p][i]

\* What is merged is the output on item f, and the failures of the others.
MergedFrom(p, f) ==
  /\ merged[p].header = answer[p][f].header
  /\ merged[p].results = {m \in Items \X Results :
                            /\ m[1] \in Answered(p)
                            /\ m[2] \in answer[p][m[1]].results
                            /\ m[1] # f => m[2][2] = "fail"}

\* f is the first item that was answered.
Merging(p) ==
  Answered(p) # {} =>
    \E f \in Answered(p) : MergedFrom(p, f) /\ \A j \in Answered(p) : f <= j

\* An attestation has the key of its graph.
Keyed(a) == \E tc \in BOOLEAN : a.key = Key(a.view, tc)

Keys ==
  /\ att # None => Keyed(att)
  /\ \A p \in Runs : outcome[p] # None => Keyed(outcome[p])

TypeInv == TypeOK /\ Moves /\ \A p \in Runs : Stages(p)

PipelineInv ==
  /\ TypeInv
  /\ \A p \in Runs : Pinned(p) /\ Undrifted(p) /\ Merging(p)
  /\ Keys
  /\ FreshEvidence /\ DriftCaught /\ AcceptedByFirstItem /\ ResultMatchesView

-----------------------------------------------------------------------------
\* A run's claim lists at least the first item, and no gaps.
LEMMA Listed ==
  ASSUME TypeOK, NEW p \in Runs
  PROVE  /\ ItemsOf(p) \subseteq Items /\ 1 \in ItemsOf(p)
         /\ view[p].pinned \in [ItemsOf(p) -> Versions]
         /\ \A i \in ItemsOf(p), j \in Items : j < i => j \in ItemsOf(p)
<1>1. view[p].pinned \in Pins
  BY DEF TypeOK, Graph
<1>2. PICK n \in Items : view[p].pinned \in [1 .. n -> Versions]
  BY <1>1 DEF Pins
<1>3. ItemsOf(p) = 1 .. n
  BY <1>2 DEF ItemsOf
<1> QED
  BY <1>2, <1>3, ItemsAssumption DEF Items

\* A run's step changes no shared file and nothing of another run.
LEMMA OwnSteps ==
  ASSUME TypeInv, NEW p \in Runs, RunStep(p) \/ Abort(p)
  PROVE  /\ disk' = disk /\ graph' = graph /\ contract' = contract /\ edits' = edits
         /\ \A q \in Runs \ {p} :
              /\ pc'[q] = pc[q] /\ view'[q] = view[q] /\ pre'[q] = pre[q] /\ read'[q] = read[q]
              /\ answer'[q] = answer[q] /\ merged'[q] = merged[q] /\ outcome'[q] = outcome[q]
              /\ moved'[q] = moved[q]
<1> USE DEF TypeInv, TypeOK, Moves, Goto, private, shared
<1>1. CASE Begin(p)          BY <1>1 DEF Begin
<1>2. CASE CheckDigests(p)   BY <1>2 DEF CheckDigests
<1>3. CASE CacheHit(p)       BY <1>3 DEF CacheHit
<1>4. CASE Backfill(p)       BY <1>4 DEF Backfill
<1>5. CASE CacheMiss(p)      BY <1>5 DEF CacheMiss
<1>6. CASE Snapshot(p)       BY <1>6 DEF Snapshot
<1>7. CASE \E i \in ItemsOf(p), a \in Answers \cup {Failed, Down} : CheckItem(p, i, a)
  BY <1>7 DEF CheckItem
<1>8. CASE PostSnapshot(p)   BY <1>8 DEF PostSnapshot
<1>9. CASE Reject(p)         BY <1>9 DEF Reject, Publish
<1>10. CASE Judge(p)         BY <1>10 DEF Judge, Publish
<1>11. CASE Discard(p)       BY <1>11 DEF Discard
<1>12. CASE Abort(p)         BY <1>12 DEF Abort
<1> QED
  BY <1>1, <1>2, <1>3, <1>4, <1>5, <1>6, <1>7, <1>8, <1>9, <1>10, <1>11, <1>12 DEF RunStep

\* What the environment leaves alone.
LEMMA EnvironmentSteps ==
  ASSUME TypeInv, Environment
  PROVE  /\ pc' = pc /\ view' = view /\ pre' = pre /\ read' = read /\ answer' = answer
         /\ merged' = merged /\ outcome' = outcome
         /\ \A q \in Runs :
              \/ /\ \A i \in ItemsOf(q) : disk'[i] = disk[i]
                 /\ moved'[q] = moved[q]
              \/ /\ \E i \in ItemsOf(q) : disk'[i] # disk[i]
                 /\ moved'[q] = [digests |-> moved[q].digests + 1,
                                 snapshot |-> moved[q].snapshot + 1]
         /\ \/ att' = att /\ basis' = basis
            \/ att' = None /\ basis' = None
<1> USE DEF TypeInv, TypeOK, Moves, private, shared
<1>1. ASSUME NEW i \in Items, NEW v \in Contents, EditFile(i, v)
      PROVE  \A q \in Runs :
               \/ /\ \A j \in ItemsOf(q) : disk'[j] = disk[j]
                  /\ moved'[q] = moved[q]
               \/ /\ \E j \in ItemsOf(q) : disk'[j] # disk[j]
                  /\ moved'[q] = [digests |-> moved[q].digests + 1,
                                  snapshot |-> moved[q].snapshot + 1]
  <2>1. disk'[i] # disk[i] /\ \A j \in Items \ {i} : disk'[j] = disk[j]
    BY <1>1 DEF EditFile
  <2>2. \A q \in Runs :
          moved'[q] = IF i \in ItemsOf(q)
                        THEN [digests |-> moved[q].digests + 1, snapshot |-> moved[q].snapshot + 1]
                        ELSE moved[q]
    BY <1>1 DEF EditFile
  <2> QED
    BY <2>1, <2>2, Listed
<1> QED
  BY <1>1 DEF Environment, EditFile, EditGraph, EditContract, Invalidate

\* So nothing said of another run changes.
LEMMA Elsewhere ==
  ASSUME TypeInv, NEW p \in Runs, RunStep(p) \/ Abort(p), NEW q \in Runs \ {p}
  PROVE  /\ Stages(q)' <=> Stages(q)
         /\ Pinned(q)' <=> Pinned(q)
         /\ Undrifted(q)' <=> Undrifted(q)
         /\ Merging(q)' <=> Merging(q)
<1>1. /\ pc'[q] = pc[q] /\ view'[q] = view[q] /\ pre'[q] = pre[q] /\ read'[q] = read[q]
      /\ answer'[q] = answer[q] /\ merged'[q] = merged[q] /\ outcome'[q] = outcome[q]
      /\ moved'[q] = moved[q] /\ disk' = disk
  BY OwnSteps
<1>2. Stages(q)' <=> Stages(q)
  BY <1>1 DEF Stages, ItemsOf
<1>3. Pinned(q)' <=> Pinned(q)
  BY <1>1 DEF Pinned, DigestsMatch, ItemsOf
<1>4. Undrifted(q)' <=> Undrifted(q)
  BY <1>1 DEF Undrifted, ItemsOf
<1>5. Answered(q)' = Answered(q)
  BY <1>1 DEF Answered
<1>6. ASSUME NEW f PROVE MergedFrom(q, f)' <=> MergedFrom(q, f)
  BY <1>1, <1>5 DEF MergedFrom
<1>7. Merging(q)' <=> Merging(q)
  BY <1>1, <1>5, <1>6 DEF Merging
<1> QED
  BY <1>2, <1>3, <1>4, <1>7

\* The attestations a run writes have their type.
LEMMA BuiltTyped ==
  ASSUME TypeInv, NEW p \in Runs
  PROVE  /\ Attestation(view[p], FALSE, {}, "rejected", TRUE) \in Attestations
         /\ \A out \in {"accepted", "rejected"} :
              Attestation(view[p], Toolchain, {r[2] : r \in merged[p].results}, out, TRUE) \in Attestations
<1>1. view[p] \in Graph
  BY DEF TypeInv, TypeOK
<1>2. Key(view[p], FALSE) \in CacheKeys
  BY <1>1 DEF Key, CacheKeys, Graph
<1>3. Key(view[p], Toolchain) \in CacheKeys
  BY <1>1, ToolchainAssumption DEF Key, CacheKeys, Graph
<1>4. merged[p].results \in SUBSET (Items \X Results)
  BY DEF TypeInv, TypeOK
<1>5. {r[2] : r \in merged[p].results} \in SUBSET Results
  BY <1>4
<1>6. Attestation(view[p], FALSE, {}, "rejected", TRUE) \in Attestations
  BY <1>1, <1>2 DEF Attestation, Attestations
<1>7. ASSUME NEW out \in {"accepted", "rejected"}
      PROVE  Attestation(view[p], Toolchain, {r[2] : r \in merged[p].results}, out, TRUE) \in Attestations
  BY <1>1, <1>3, <1>5, <1>7 DEF Attestation, Attestations
<1> QED
  BY <1>6, <1>7

Merged == [header : {"right", "wrong", "none"}, results : SUBSET (Items \X Results)]

LEMMA MergeTyped ==
  ASSUME TypeInv, NEW p \in Runs, NEW i \in Items, NEW a \in Answers
  PROVE  Merge(p, i, a) \in Merged
<1>1. a.header \in {"right", "wrong"} /\ a.results \subseteq Results
  BY AnswersAssumption DEF Outputs
<1>2. merged[p] \in Merged
  BY DEF TypeInv, TypeOK, Merged
<1>3. {i} \X a.results \subseteq Items \X Results
  BY <1>1
<1>4. {i} \X {r \in a.results : r[2] = "fail"} \subseteq {i} \X a.results
  OBVIOUS
<1>5. CASE Answered(p) = {}
  BY <1>1, <1>3, <1>5 DEF Merge, Merged
<1>6. CASE Answered(p) # {}
  <2>1. merged[p].header \in {"right", "wrong", "none"}
    BY <1>2 DEF Merged
  <2>2. merged[p].results \cup ({i} \X {r \in a.results : r[2] = "fail"}) \subseteq Items \X Results
    BY <1>2, <1>3, <1>4 DEF Merged
  <2> QED
    BY <1>6, <2>1, <2>2 DEF Merge, Merged
<1> QED
  BY <1>5, <1>6

-----------------------------------------------------------------------------
LEMMA InitTyped == Init => TypeInv
<1> SUFFICES ASSUME Init PROVE TypeInv
  OBVIOUS
<1>1. graph \in Graph /\ disk \in [Items -> Contents]
  <2>1. graph \in Graph
    BY DEF Init
  <2>2. PICK n \in Items : graph.pinned \in [1 .. n -> Versions]
    BY <2>1 DEF Graph, Pins
  <2>3. disk = [i \in Items |-> IF i \in DOMAIN graph.pinned THEN graph.pinned[i] ELSE Absent]
    BY DEF Init
  <2>4. \A i \in Items : disk[i] \in Contents
    BY <2>2, <2>3 DEF Contents
  <2> QED
    BY <2>1, <2>3, <2>4
<1>2. att \in Attestations \cup {None}
  <2>1. CASE att = None
    BY <2>1
  <2>2. CASE att = Attestation(graph, FALSE, {}, "accepted", FALSE)
    <3>1. Key(graph, FALSE) \in CacheKeys
      BY <1>1 DEF Key, CacheKeys, Graph
    <3> QED
      BY <2>2, <3>1, <1>1 DEF Attestation, Attestations
  <2> QED
    BY <2>1, <2>2 DEF Init
<1>3. edits \in 0 .. MaxEdits
  <2>1. edits = 0
    BY DEF Init
  <2> QED
    BY <2>1, EditsAssumption
<1>4. TypeOK
  <2>1. contract \in SUBSET Obligations
    BY DEF Init
  <2>2. /\ pc \in [Runs -> Ended \cup {"start", "digests", "cache", "backfill", "snapshot", "check",
                                       "judge"}]
        /\ \A p \in Runs : pc[p] \in {"backfill", "done"} => outcome[p] # None
    BY DEF Init, Ended
  <2>3. /\ view \in [Runs -> Graph]
        /\ pre \in [Runs -> [Items -> Contents]]
        /\ read \in [Runs -> [Items -> Contents \cup {None}]]
        /\ answer \in [Runs -> [Items -> Answers \cup {Failed, Down, None}]]
        /\ merged \in [Runs -> Merged]
        /\ outcome \in [Runs -> Attestations \cup {None}]
    BY <1>1 DEF Init, Merged
  <2> QED
    BY <1>1, <1>2, <1>3, <2>1, <2>2, <2>3 DEF TypeOK, Merged
<1>5. Moves
  BY DEF Init, Moves
<1>6. \A p \in Runs : Stages(p)
  BY DEF Init, Stages
<1> QED
  BY <1>4, <1>5, <1>6 DEF TypeInv

LEMMA PublishTyped ==
  ASSUME TypeInv, NEW p \in Runs, NEW a \in Attestations, Publish(p, a),
         UNCHANGED <<shared, view, pre, read, answer, merged, moved, edits>>
  PROVE  TypeOK' /\ Moves' /\ Stages(p)'
<1>1. a # None
  BY NoneAssumption
<1>2. outcome' \in [Runs -> Attestations \cup {None}] /\ outcome'[p] = a /\ att' = a
  BY DEF Publish, TypeInv, TypeOK
<1>3. /\ pc' \in [Runs -> Ended \cup {"start", "digests", "cache", "backfill", "snapshot", "check",
                                      "judge"}]
      /\ pc'[p] = "done" /\ \A q \in Runs \ {p} : pc'[q] = pc[q] /\ outcome'[q] = outcome[q]
  BY DEF Publish, TypeInv, TypeOK, Goto, Ended
<1>4. TypeOK'
  BY <1>1, <1>2, <1>3 DEF TypeInv, TypeOK, shared
<1> QED
  BY <1>2, <1>3, <1>4 DEF TypeInv, Moves, Stages, ItemsOf

LEMMA RunTyped ==
  ASSUME TypeInv, NEW p \in Runs, RunStep(p) \/ Abort(p)
  PROVE  TypeOK' /\ Moves' /\ Stages(p)'
<1> USE DEF Goto, Ended, shared, private, TypeInv, TypeOK, Moves, Stages, ItemsOf
<1>1. CASE Begin(p)
  BY <1>1 DEF Begin
<1>2. CASE CheckDigests(p)
  BY <1>2 DEF CheckDigests
<1>3. CASE CacheHit(p)
  BY <1>3 DEF CacheHit, Cached
<1>4. CASE Backfill(p)
  <2>1. outcome[p] \in Attestations
    BY <1>4 DEF Backfill
  <2>2. [outcome[p] EXCEPT !.dated = TRUE] \in Attestations
    BY <2>1 DEF Attestations
  <2>3. outcome' = [outcome EXCEPT ![p] = [outcome[p] EXCEPT !.dated = TRUE]]
    BY <1>4 DEF Backfill
  <2>4. outcome' \in [Runs -> Attestations \cup {None}] /\ outcome'[p] \in Attestations
    BY <2>2, <2>3
  <2>5. outcome'[p] # None
    BY <2>4, NoneAssumption
  <2>6. /\ pc' = [pc EXCEPT ![p] = "done"]
        /\ att' = att \/ att' = outcome'[p]
        /\ \A q \in Runs \ {p} : outcome'[q] = outcome[q]
        /\ UNCHANGED <<graph, disk, contract, view, pre, read, answer, merged, moved, edits>>
    BY <1>4, <2>3 DEF Backfill
  <2> HIDE DEF Attestations
  <2>7. TypeOK' /\ Moves'
    BY <2>4, <2>5, <2>6
  <2>8. Stages(p)'
    BY <2>6
  <2> HIDE DEF TypeOK, Moves, Stages
  <2> QED
    BY <2>7, <2>8
<1>5. CASE CacheMiss(p)
  BY <1>5 DEF CacheMiss
<1>6. CASE Snapshot(p)
  <2>1. CASE \E i \in ItemsOf(p) : disk[i] = Absent
    <3>1. /\ pc' = [pc EXCEPT ![p] = "error"]
          /\ UNCHANGED <<graph, disk, contract, att, private, edits>>
      BY <1>6, <2>1 DEF Snapshot
    <3>2. TypeOK' /\ Moves'
      BY <3>1
    <3>3. Stages(p)'
      BY <3>1
    <3> HIDE DEF TypeOK, Moves, Stages
    <3> QED
      BY <3>2, <3>3
  <2>2. CASE ~ \E i \in ItemsOf(p) : disk[i] = Absent
    <3>1. moved' = [moved EXCEPT ![p] = [digests |-> moved[p].digests, snapshot |-> 0]]
      BY <1>6, <2>2 DEF Snapshot
    <3>2. Moves'
      BY <3>1
    <3>3. pre' = [pre EXCEPT ![p] = disk]
      BY <1>6, <2>2 DEF Snapshot
    <3>4. pre' \in [Runs -> [Items -> Contents]]
      BY <3>3
    <3>5. pc' = [pc EXCEPT ![p] = "check"]
      BY <1>6, <2>2 DEF Snapshot
    <3>6. UNCHANGED <<graph, disk, contract, att, view, read, answer, merged, outcome, edits>>
      BY <1>6 DEF Snapshot
    <3>7. TypeOK'
      BY <3>4, <3>5, <3>6
    <3>8. Stages(p)'
      BY <3>5, <3>6
    <3> QED
      BY <3>2, <3>7, <3>8
  <2> QED
    BY <2>1, <2>2
<1>7. CASE \E i \in ItemsOf(p), a \in Answers \cup {Failed, Down} : CheckItem(p, i, a)
  <2>1. PICK i \in ItemsOf(p), a \in Answers \cup {Failed, Down} : CheckItem(p, i, a)
    BY <1>7
  <2>2. i \in Items /\ \A j \in Items : j < i => j \in ItemsOf(p)
    BY Listed
  <2>3. /\ read' = [read EXCEPT ![p] = [read[p] EXCEPT ![i] = disk[i]]]
        /\ answer' = [answer EXCEPT ![p] = [answer[p] EXCEPT ![i] = a]]
        /\ merged' = [merged EXCEPT ![p] = IF a \in Answers THEN Merge(p, i, a) ELSE merged[p]]
        /\ UNCHANGED <<graph, disk, contract, att, pc, view, pre, outcome, moved, edits>>
        /\ pc[p] = "check" /\ \A j \in ItemsOf(p) : j < i => answer[p][j] # None
    BY <2>1 DEF CheckItem
  <2>4. read' \in [Runs -> [Items -> Contents \cup {None}]]
    BY <2>2, <2>3
  <2>5. answer' \in [Runs -> [Items -> Answers \cup {Failed, Down, None}]]
    BY <2>2, <2>3
  <2>6. merged' \in [Runs -> Merged]
    BY <2>2, <2>3, MergeTyped DEF Merged
  <2>7. TypeOK' /\ Moves'
    BY <2>3, <2>4, <2>5, <2>6 DEF Merged
  <2>8. /\ answer'[p][i] = a /\ a # None
        /\ \A j \in Items \ {i} : answer'[p][j] = answer[p][j]
    BY <2>2, <2>3, NoneAssumption
  <2>9. ItemsOf(p)' = ItemsOf(p)
    BY <2>3 DEF ItemsOf
  <2>10. \A j \in Items : answer'[p][j] # None =>
           j \in ItemsOf(p) /\ \A k \in Items : k < j => answer'[p][k] # None
    BY <2>2, <2>3, <2>8
  <2>11. Stages(p)'
    BY <2>3, <2>9, <2>10
  <2> QED
    BY <2>7, <2>11
<1>8. CASE PostSnapshot(p)
  BY <1>8 DEF PostSnapshot
<1>9. CASE Reject(p)
  BY <1>9, BuiltTyped, PublishTyped DEF Reject
<1>10. CASE Judge(p)
  <2>1. PICK out \in {"accepted", "rejected"} :
          Publish(p, Attestation(view[p], Toolchain, {r[2] : r \in merged[p].results}, out, TRUE))
    BY <1>10 DEF Judge
  <2> QED
    BY <1>10, <2>1, BuiltTyped, PublishTyped DEF Judge
<1>11. CASE Discard(p)
  BY <1>11 DEF Discard
<1>12. CASE Abort(p)
  BY <1>12 DEF Abort
<1> QED
  BY <1>1, <1>2, <1>3, <1>4, <1>5, <1>6, <1>7, <1>8, <1>9, <1>10, <1>11, <1>12 DEF RunStep

LEMMA EnvironmentTyped ==
  ASSUME TypeInv, Environment
  PROVE  TypeInv'
<1> USE DEF TypeInv, Edit, shared, private
<1>0. edits \in Int /\ (edits < MaxEdits /\ edits' = edits + 1 => edits' \in 0 .. MaxEdits)
  BY EditsAssumption DEF TypeOK
<1>1. ASSUME NEW i \in Items, NEW v \in Contents, EditFile(i, v)
      PROVE  TypeOK' /\ Moves'
  BY <1>0, <1>1 DEF EditFile, TypeOK, Moves
<1>2. ASSUME NEW g \in Graph, EditGraph(g)
      PROVE  TypeOK' /\ Moves'
  BY <1>0, <1>2 DEF EditGraph, TypeOK, Moves
<1>3. ASSUME NEW c \in {{}, Obligations}, EditContract(c)
      PROVE  TypeOK' /\ Moves'
  BY <1>0, <1>3 DEF EditContract, TypeOK, Moves
<1>4. ASSUME Invalidate
      PROVE  TypeOK' /\ Moves'
  BY <1>0, <1>4 DEF Invalidate, TypeOK, Moves
<1>5. \A p \in Runs : Stages(p)'
  BY EnvironmentSteps DEF TypeInv, Stages, ItemsOf
<1> QED
  BY <1>1, <1>2, <1>3, <1>4, <1>5 DEF Environment

LEMMA NextTyped == TypeInv /\ [Next]_vars => TypeInv'
<1> SUFFICES ASSUME TypeInv, [Next]_vars PROVE TypeInv'
  OBVIOUS
<1>1. CASE Environment
  BY <1>1, EnvironmentTyped
<1>2. ASSUME NEW p \in Runs, RunStep(p) \/ Abort(p)
      PROVE  TypeInv'
  <2>1. \A q \in Runs \ {p} : Stages(q)'
    BY <1>2, Elsewhere DEF TypeInv
  <2> QED
    BY <1>2, <2>1, RunTyped DEF TypeInv
<1>3. CASE UNCHANGED vars
  BY <1>3 DEF vars, shared, private, TypeInv, TypeOK, Moves, Stages, ItemsOf
<1> QED
  BY <1>1, <1>2, <1>3 DEF Next

-----------------------------------------------------------------------------
\* What a run has read, and what the files are.
LEMMA PinnedStep ==
  ASSUME TypeInv, NEW p \in Runs, RunStep(p) \/ Abort(p), Pinned(p)
  PROVE  Pinned(p)'
<1> USE DEF Goto, Ended, shared, private, Pinned, ItemsOf
<1>0. /\ pc[p] \in {"start", "digests", "cache", "snapshot"} => \A i \in Items : answer[p][i] = None
      /\ p \in DOMAIN pc /\ p \in DOMAIN moved /\ p \in DOMAIN view /\ p \in DOMAIN pre
      /\ pc' \in [Runs -> Ended \cup {"start", "digests", "cache", "backfill", "snapshot", "check",
                                      "judge"}]
      /\ ItemsOf(p) \subseteq Items
  <2>1. TypeOK'
    BY RunTyped
  <2>2. ItemsOf(p) \subseteq Items
    BY Listed DEF TypeInv
  <2> QED
    BY <2>1, <2>2 DEF TypeInv, Stages, TypeOK, Moves
<1>1. CASE Begin(p)
  BY <1>0, <1>1 DEF Begin
<1>2. CASE CheckDigests(p)
  BY <1>0, <1>2 DEF CheckDigests, DigestsMatch
<1>3. CASE CacheHit(p)
  BY <1>0, <1>3 DEF CacheHit
<1>4. CASE Backfill(p)
  BY <1>0, <1>4 DEF Backfill
<1>5. CASE CacheMiss(p)
  BY <1>0, <1>5 DEF CacheMiss, DigestsMatch
<1>6. CASE Snapshot(p)
  <2>1. CASE \E i \in ItemsOf(p) : disk[i] = Absent
    BY <1>0, <1>6, <2>1 DEF Snapshot
  <2>2. CASE ~ \E i \in ItemsOf(p) : disk[i] = Absent
    <3>1. moved'[p] = [digests |-> moved[p].digests, snapshot |-> 0]
      BY <1>0, <1>6, <2>2 DEF Snapshot
    <3>2. pc[p] = "snapshot" /\ UNCHANGED <<disk, view, answer, read>>
      BY <1>6 DEF Snapshot
    <3>3. DigestsMatch(p) => \A i \in ItemsOf(p) : disk[i] = view[p].pinned[i]
      BY <2>2 DEF DigestsMatch
    <3>4. pc'[p] = "check"
      BY <1>0, <1>6, <2>2 DEF Snapshot
    <3> QED
      BY <1>0, <3>1, <3>2, <3>3, <3>4
  <2> QED
    BY <2>1, <2>2
<1>7. ASSUME NEW i \in ItemsOf(p), NEW a \in Answers \cup {Failed, Down}, CheckItem(p, i, a)
      PROVE  Pinned(p)'
  <2>1. /\ read'[p] = [read[p] EXCEPT ![i] = disk[i]]
        /\ answer'[p] = [answer[p] EXCEPT ![i] = a]
        /\ pc[p] = "check"
    BY <1>7 DEF CheckItem, TypeInv, TypeOK
  <2>2. /\ read'[p][i] = disk[i]
        /\ \A j \in Items \ {i} : read'[p][j] = read[p][j] /\ answer'[p][j] = answer[p][j]
    BY <1>0, <2>1 DEF TypeInv, TypeOK
  <2>3. UNCHANGED <<disk, pc, view, moved>>
    BY <1>7 DEF CheckItem
  <2> QED
    BY <1>0, <2>1, <2>2, <2>3
<1>8. CASE PostSnapshot(p)
  BY <1>0, <1>8 DEF PostSnapshot
<1>9. CASE Reject(p)
  BY <1>0, <1>9 DEF Reject, Publish
<1>10. CASE Judge(p)
  BY <1>0, <1>10 DEF Judge, Publish
<1>11. CASE Discard(p)
  BY <1>0, <1>11 DEF Discard
<1>12. CASE Abort(p)
  BY <1>0, <1>12 DEF Abort
<1> QED
  BY <1>1, <1>2, <1>3, <1>4, <1>5, <1>6, <1>7, <1>8, <1>9, <1>10, <1>11, <1>12 DEF RunStep

LEMMA UndriftedStep ==
  ASSUME TypeInv, NEW p \in Runs, RunStep(p) \/ Abort(p), Undrifted(p)
  PROVE  Undrifted(p)'
<1> USE DEF Goto, Ended, shared, private, Undrifted, ItemsOf
<1>0. /\ pc[p] \in {"start", "digests", "cache", "snapshot"} => \A i \in Items : answer[p][i] = None
      /\ p \in DOMAIN pc /\ p \in DOMAIN moved /\ p \in DOMAIN view /\ p \in DOMAIN pre
      /\ moved[p].snapshot \in Nat /\ ItemsOf(p) \subseteq Items
  BY Listed DEF TypeInv, Stages, TypeOK, Moves
<1>1. CASE Begin(p)
  BY <1>0, <1>1 DEF Begin
<1>2. CASE CheckDigests(p)
  BY <1>0, <1>2 DEF CheckDigests, DigestsMatch
<1>3. CASE CacheHit(p)
  BY <1>0, <1>3 DEF CacheHit
<1>4. CASE Backfill(p)
  BY <1>0, <1>4 DEF Backfill
<1>5. CASE CacheMiss(p)
  BY <1>0, <1>5 DEF CacheMiss
<1>6. CASE Snapshot(p)
  <2>1. CASE \E i \in ItemsOf(p) : disk[i] = Absent
    BY <1>0, <1>6, <2>1 DEF Snapshot
  <2>2. CASE ~ \E i \in ItemsOf(p) : disk[i] = Absent
    <3>1. moved'[p] = [digests |-> moved[p].digests, snapshot |-> 0]
      BY <1>0, <1>6, <2>2 DEF Snapshot
    <3>2. pc[p] = "snapshot" /\ UNCHANGED <<disk, view, answer, read>>
      BY <1>6 DEF Snapshot
    <3>3. pre'[p] = disk
      BY <1>0, <1>6, <2>2 DEF Snapshot
    <3> QED
      BY <1>0, <3>1, <3>2, <3>3
  <2> QED
    BY <2>1, <2>2
<1>7. ASSUME NEW i \in ItemsOf(p), NEW a \in Answers \cup {Failed, Down}, CheckItem(p, i, a)
      PROVE  Undrifted(p)'
  <2>1. /\ read'[p] = [read[p] EXCEPT ![i] = disk[i]]
        /\ answer'[p] = [answer[p] EXCEPT ![i] = a]
        /\ pc[p] = "check"
    BY <1>7 DEF CheckItem, TypeInv, TypeOK
  <2>2. /\ read'[p][i] = disk[i]
        /\ \A j \in Items \ {i} : read'[p][j] = read[p][j] /\ answer'[p][j] = answer[p][j]
    BY <1>0, <2>1 DEF TypeInv, TypeOK
  <2>3. UNCHANGED <<disk, pc, view, pre, moved>>
    BY <1>7 DEF CheckItem
  <2> QED
    BY <1>0, <2>1, <2>2, <2>3
<1>8. CASE PostSnapshot(p)
  BY <1>0, <1>8 DEF PostSnapshot, NoDrift
<1>9. CASE Reject(p)
  BY <1>0, <1>9 DEF Reject, Publish
<1>10. CASE Judge(p)
  BY <1>0, <1>10 DEF Judge, Publish
<1>11. CASE Discard(p)
  BY <1>0, <1>11 DEF Discard
<1>12. CASE Abort(p)
  BY <1>0, <1>12 DEF Abort
<1> QED
  BY <1>1, <1>2, <1>3, <1>4, <1>5, <1>6, <1>7, <1>8, <1>9, <1>10, <1>11, <1>12 DEF RunStep

\* An edit makes the loaded digests a matter of the past, and the first edit
\* after the snapshot makes the files differ from it.
LEMMA EditsSeen ==
  ASSUME TypeInv, Environment, NEW p \in Runs, Pinned(p), Undrifted(p)
  PROVE  Pinned(p)' /\ Undrifted(p)'
<1>1. /\ pc' = pc /\ view' = view /\ pre' = pre /\ read' = read /\ answer' = answer
      /\ ItemsOf(p)' = ItemsOf(p)
  BY EnvironmentSteps DEF ItemsOf
<1>2. CASE moved'[p] = moved[p] /\ \A i \in ItemsOf(p) : disk'[i] = disk[i]
  BY <1>1, <1>2 DEF Pinned, Undrifted, DigestsMatch
<1>3. CASE /\ moved'[p] = [digests |-> moved[p].digests + 1, snapshot |-> moved[p].snapshot + 1]
           /\ \E i \in ItemsOf(p) : disk'[i] # disk[i]
  <2>1. moved[p].digests \in Nat /\ moved[p].snapshot \in Nat
    BY DEF TypeInv, Moves
  <2>2. Pinned(p)'
    BY <1>3, <2>1 DEF Pinned
  <2>3. Undrifted(p)'
    BY <1>1, <1>3, <2>1 DEF Undrifted
  <2> QED
    BY <2>2, <2>3
<1> QED
  BY <1>2, <1>3, EnvironmentSteps

-----------------------------------------------------------------------------
\* The first output is merged whole, of every later one only the failures.
LEMMA MergeStep ==
  ASSUME TypeInv, NEW p \in Runs, NEW i \in ItemsOf(p), NEW a \in Answers \cup {Failed, Down},
         CheckItem(p, i, a), Merging(p)
  PROVE  Merging(p)'
<1>0. i \in Items /\ Items \subseteq Int
  BY Listed DEF TypeInv, Items
<1>1. /\ answer'[p] = [answer[p] EXCEPT ![i] = a] /\ answer[p][i] = None
      /\ merged'[p] = IF a \in Answers THEN Merge(p, i, a) ELSE merged[p]
  BY DEF CheckItem, TypeInv, TypeOK
<1>2. /\ answer'[p][i] = a
      /\ \A j \in Items \ {i} : answer'[p][j] = answer[p][j]
      /\ i \notin Answered(p) /\ Answered(p) \subseteq Items
  BY <1>0, <1>1, NoneAssumption DEF TypeInv, TypeOK, Answered
<1>3. CASE a \notin Answers
  <2>1. Answered(p)' = Answered(p) /\ merged'[p] = merged[p]
    BY <1>1, <1>2, <1>3 DEF Answered
  <2>2. \A f \in Answered(p) : MergedFrom(p, f) => MergedFrom(p, f)'
    BY <2>1, <1>2 DEF MergedFrom
  <2> QED
    BY <2>1, <2>2 DEF Merging
<1>4. CASE a \in Answers
  <2>1. Answered(p)' = Answered(p) \cup {i}
    BY <1>0, <1>2, <1>4 DEF Answered
  <2>2. a.results \subseteq Results
    BY <1>4, AnswersAssumption DEF Outputs
  <2>3. CASE Answered(p) = {}
    <3>1. merged'[p] = [header |-> a.header, results |-> {i} \X a.results]
      BY <1>1, <1>4, <2>3 DEF Merge
    <3>2. merged'[p].header = a.header /\ merged'[p].results = {i} \X a.results
      BY <3>1
    <3>3. {i} \X a.results = {m \in Items \X Results : /\ m[1] \in {i}
                                                       /\ m[2] \in answer'[p][m[1]].results
                                                       /\ m[1] # i => m[2][2] = "fail"}
      BY <1>0, <1>2, <2>2
    <3>4. MergedFrom(p, i)'
      BY <1>2, <2>1, <2>3, <3>2, <3>3 DEF MergedFrom
    <3> QED
      BY <1>0, <2>1, <2>3, <3>4 DEF Merging
  <2>4. CASE Answered(p) # {}
    <3>1. PICK f \in Answered(p) : MergedFrom(p, f) /\ \A j \in Answered(p) : f <= j
      BY <2>4 DEF Merging
    <3>2. /\ merged'[p].header = merged[p].header
          /\ merged'[p].results =
               merged[p].results \cup ({i} \X {r \in a.results : r[2] = "fail"})
      BY <1>1, <1>4, <2>4 DEF Merge
    <3>3. f # i /\ f \in Items /\ answer[p][f] # None
      BY <1>2, NoneAssumption DEF Answered
    <3>4. f <= i
      BY <1>0, <1>1, <3>3 DEF TypeInv, Stages
    <3>5. ASSUME NEW m \in Items \X Results
          PROVE  m \in merged'[p].results <=> /\ m[1] \in Answered(p)'
                                              /\ m[2] \in answer'[p][m[1]].results
                                              /\ m[1] # f => m[2][2] = "fail"
      <4>1. CASE m[1] = i
        <5>1. m \notin merged[p].results
          BY <3>1, <1>2, <4>1 DEF MergedFrom
        <5>2. m \in {i} \X {r \in a.results : r[2] = "fail"} <=>
                m[2] \in a.results /\ m[2][2] = "fail"
          BY <4>1
        <5> QED
          BY <1>2, <2>1, <3>2, <3>3, <4>1, <5>1, <5>2
      <4>2. CASE m[1] # i
        <5>1. m \in merged'[p].results <=> m \in merged[p].results
          BY <3>2, <4>2
        <5>2. m \in merged[p].results <=> /\ m[1] \in Answered(p)
                                          /\ m[2] \in answer[p][m[1]].results
                                          /\ m[1] # f => m[2][2] = "fail"
          BY <3>1 DEF MergedFrom
        <5>3. m[1] \in Items
          OBVIOUS
        <5> QED
          BY <5>1, <5>2, <5>3, <1>2, <2>1, <4>2
      <4> QED
        BY <4>1, <4>2
    <3>6. merged'[p].results \subseteq Items \X Results
      BY <1>0, <1>4, <1>1, MergeTyped DEF Merged
    <3>7. merged'[p].header = answer'[p][f].header
      BY <1>2, <3>1, <3>2, <3>3 DEF MergedFrom
    <3>8. MergedFrom(p, f)'
      BY <3>5, <3>6, <3>7 DEF MergedFrom
    <3>9. f \in Answered(p)' /\ \A j \in Answered(p)' : f <= j
      BY <2>1, <3>1, <3>4
    <3> QED
      BY <3>8, <3>9 DEF Merging
  <2> QED
    BY <2>3, <2>4
<1> QED
  BY <1>3, <1>4

LEMMA MergingStep ==
  ASSUME TypeInv, NEW p \in Runs, RunStep(p) \/ Abort(p), Merging(p)
  PROVE  Merging(p)'
<1>1. CASE \E i \in ItemsOf(p), a \in Answers \cup {Failed, Down} : CheckItem(p, i, a)
  BY <1>1, MergeStep
<1>2. CASE ~ \E i \in ItemsOf(p), a \in Answers \cup {Failed, Down} : CheckItem(p, i, a)
  <2>1. UNCHANGED <<answer, merged>>
    BY <1>2 DEF RunStep, Abort, Begin, CheckDigests, CacheHit, Backfill, CacheMiss, Snapshot,
                PostSnapshot, Reject, Judge, Discard, private
  <2>2. Answered(p)' = Answered(p)
    BY <2>1 DEF Answered
  <2>3. \A f \in Answered(p) : MergedFrom(p, f) => MergedFrom(p, f)'
    BY <2>1, <2>2 DEF MergedFrom
  <2> QED
    BY <2>1, <2>2, <2>3 DEF Merging
<1> QED
  BY <1>1, <1>2

\* If what is merged passes, it is the output on the first item, and nothing
\* else fails.
LEMMA OneAnswer ==
  ASSUME TypeInv, NEW p \in Runs, Merging(p), Silent(p) = {}, AllObligationsPass(merged[p].results)
  PROVE  /\ \A i \in ItemsOf(p) : /\ answer[p][i] \in Answers
                                  /\ \A r \in answer[p][i].results : r[2] # "fail"
         /\ merged[p].header = answer[p][1].header
         /\ {m[2] : m \in merged[p].results} = answer[p][1].results
<1>0. /\ ItemsOf(p) \subseteq Items /\ 1 \in ItemsOf(p)
      /\ Items \subseteq Int /\ \A i \in Items : 1 <= i
  BY Listed, ItemsAssumption DEF TypeInv, Items
<1>1. ItemsOf(p) \subseteq Answered(p) /\ Answered(p) \subseteq Items
  BY <1>0 DEF Silent, Answered
<1>2. PICK f \in Answered(p) : MergedFrom(p, f) /\ \A j \in Answered(p) : f <= j
  BY <1>0, <1>1 DEF Merging
<1>3. f = 1
  <2>1. f \in Int /\ 1 <= f
    BY <1>0, <1>1
  <2>2. f <= 1
    BY <1>0, <1>1, <1>2
  <2> QED
    BY <2>1, <2>2
<1>4. \A i \in ItemsOf(p) : answer[p][i] \in Answers /\ answer[p][i].results \subseteq Results
  BY <1>1, AnswersAssumption DEF Answered, Outputs
<1>5. ASSUME NEW i \in ItemsOf(p), NEW r \in answer[p][i].results
      PROVE  r[2] # "fail"
  <2>1. r \in Results /\ i \in Items
    BY <1>0, <1>4
  <2>2. r[2] = "fail" => <<i, r>> \in merged[p].results
    BY <1>1, <1>2, <2>1 DEF MergedFrom
  <2> QED
    BY <2>1, <2>2 DEF AllObligationsPass
<1>6. {m[2] : m \in merged[p].results} = answer[p][1].results
  <2>1. ASSUME NEW m \in merged[p].results
        PROVE  m[2] \in answer[p][1].results
    <3>1. m[1] = 1 /\ m[2] \in answer[p][m[1]].results
      BY <1>2, <1>3, <2>1 DEF MergedFrom, AllObligationsPass
    <3> QED
      BY <3>1
  <2>2. ASSUME NEW r \in answer[p][1].results
        PROVE  \E m \in merged[p].results : m[2] = r
    <3>1. r \in Results
      BY <1>0, <1>4
    <3>2. <<1, r>> \in merged[p].results /\ <<1, r>>[2] = r
      BY <1>0, <1>1, <1>2, <1>3, <3>1 DEF MergedFrom
    <3> QED
      BY <3>2
  <2> QED
    BY <2>1, <2>2
<1> QED
  BY <1>2, <1>3, <1>4, <1>5, <1>6 DEF MergedFrom

\* A published acceptance is what AcceptedByFirstItem says of the first item.
LEMMA AcceptedFaithfully ==
  ASSUME TypeInv, NEW p \in Runs, Merging(p), Silent(p) = {}, Valid(merged[p]),
         AllObligationsPass(merged[p].results)
  PROVE  /\ answer[p][1].header = "right"
         /\ answer[p][1].results # {} /\ \A r \in answer[p][1].results : r[2] = "pass"
         /\ contract # {} => answer[p][1].results = contract \X {"pass"}
<1> DEFINE first == answer[p][1].results
<1>1. {m[2] : m \in merged[p].results} = first /\ answer[p][1].header = "right"
  BY OneAnswer DEF Valid
<1>2. /\ \A m \in merged[p].results : m[2] \in first
      /\ \A r \in first : \E m \in merged[p].results : m[2] = r
  BY <1>1
<1>3. first # {} /\ \A r \in first : r[2] = "pass"
  BY <1>2 DEF AllObligationsPass
<1>4. first \subseteq Results
  BY OneAnswer, Listed, AnswersAssumption DEF TypeInv, Outputs
<1>5. ASSUME contract # {}
      PROVE  first = contract \X {"pass"}
  <2>1. contract = {m[2][1] : m \in merged[p].results}
    BY <1>5 DEF Valid, Ids
  <2>2. \A r \in first : r[1] \in contract
    BY <1>2, <2>1
  <2>3. ASSUME NEW o \in contract
        PROVE  <<o, "pass">> \in first
    <3>1. PICK r \in first : r[1] = o
      BY <1>2, <2>1
    <3>2. r \in Results /\ r[2] = "pass"
      BY <1>3, <1>4
    <3> QED
      BY <3>1, <3>2 DEF Results
  <2>4. \A r \in first : r \in contract \X {"pass"}
    BY <1>3, <1>4, <2>2 DEF Results
  <2> HIDE DEF first
  <2> QED
    BY <2>3, <2>4
<1> QED
  BY <1>1, <1>3, <1>5

-----------------------------------------------------------------------------
\* A key tells the graph it was made for.
LEMMA KeyTellsView ==
  ASSUME NEW a \in Attestations, Keyed(a), NEW v \in Graph, NEW tc \in BOOLEAN, a.key = Key(v, tc)
  PROVE  a.view = v
<1>1. a.view \in Graph
  BY DEF Attestations
<1>2. a.view.stmt = v.stmt /\ a.view.pinned = v.pinned
  BY DEF Keyed, Key
<1> QED
  BY <1>1, <1>2 DEF Graph

LEMMA HitIsOfView ==
  ASSUME TypeInv, Keys, NEW p \in Runs, Cached(p)
  PROVE  att.view = view[p]
<1>1. att \in Attestations /\ view[p] \in Graph /\ Keyed(att)
  BY DEF TypeInv, TypeOK, Keys, Cached
<1>2. PICK tc \in BOOLEAN : tc = FALSE
  OBVIOUS
<1>3. att.key = Key(view[p], tc)
  BY <1>2 DEF Cached
<1> QED
  BY <1>1, <1>3, KeyTellsView

LEMMA BuiltKeyed ==
  ASSUME NEW v, NEW tc \in BOOLEAN, NEW res, NEW out, NEW dated, NEW a,
         a = Attestation(v, tc, res, out, dated)
  PROVE  Keyed(a) /\ a.view = v /\ a.outcome = out
<1>1. a.view = v /\ a.key = Key(v, tc) /\ a.outcome = out
  BY DEF Attestation
<1> QED
  BY <1>1 DEF Keyed

\* What Reject and Judge write.
LEMMA Published ==
  ASSUME TypeInv, NEW p \in Runs
  PROVE  /\ Reject(p) => /\ outcome'[p].view = view[p] /\ att' = outcome'[p]
                         /\ Keyed(outcome'[p]) /\ outcome'[p].outcome = "rejected"
         /\ Judge(p) => /\ outcome'[p].view = view[p] /\ att' = outcome'[p]
                        /\ Keyed(outcome'[p])
                        /\ outcome'[p].outcome = "accepted" => AllObligationsPass(merged[p].results)
<1>1. PICK yes \in BOOLEAN, no \in BOOLEAN : yes = TRUE /\ no = FALSE
  OBVIOUS
<1>2. ASSUME NEW a, Publish(p, a)
      PROVE  outcome'[p] = a /\ att' = a
  BY <1>2 DEF Publish, TypeInv, TypeOK
<1>3. ASSUME Reject(p)
      PROVE  /\ outcome'[p].view = view[p] /\ att' = outcome'[p]
             /\ Keyed(outcome'[p]) /\ outcome'[p].outcome = "rejected"
  <2>1. Publish(p, Attestation(view[p], no, {}, "rejected", yes))
    BY <1>1, <1>3 DEF Reject
  <2>2. outcome'[p] = Attestation(view[p], no, {}, "rejected", yes) /\ att' = outcome'[p]
    BY <1>2, <2>1
  <2>3. Keyed(outcome'[p]) /\ outcome'[p].view = view[p] /\ outcome'[p].outcome = "rejected"
    BY <2>2, BuiltKeyed
  <2> QED
    BY <2>2, <2>3
<1>4. ASSUME Judge(p)
      PROVE  /\ outcome'[p].view = view[p] /\ att' = outcome'[p]
             /\ Keyed(outcome'[p])
             /\ outcome'[p].outcome = "accepted" => AllObligationsPass(merged[p].results)
  <2>1. PICK out : /\ Publish(p, Attestation(view[p], Toolchain, {r[2] : r \in merged[p].results},
                                            out, yes))
                   /\ out = IF AllObligationsPass(merged[p].results) THEN "accepted" ELSE "rejected"
    BY <1>1, <1>4 DEF Judge
  <2>2. /\ outcome'[p] = Attestation(view[p], Toolchain, {r[2] : r \in merged[p].results}, out, yes)
        /\ att' = outcome'[p]
    BY <1>2, <2>1
  <2>3. Keyed(outcome'[p]) /\ outcome'[p].view = view[p] /\ outcome'[p].outcome = out
    BY <2>2, ToolchainAssumption, BuiltKeyed
  <2>4. out = "accepted" => AllObligationsPass(merged[p].results)
    BY <2>1
  <2> QED
    BY <2>2, <2>3, <2>4
<1> QED
  BY <1>3, <1>4

\* What a run writes to the attestation file is its result, and nothing else
\* ever gets there.
LEMMA Writes ==
  ASSUME TypeInv, NEW p \in Runs, RunStep(p) \/ Abort(p)
  PROVE  \/ att' = att /\ basis' = basis
         \/ att' = outcome'[p] /\ basis' = None
         \/ Reject(p) /\ att' = outcome'[p] /\ basis' = Basis(p)
         \/ Judge(p) /\ att' = outcome'[p] /\ basis' = Basis(p)
<1> USE DEF TypeInv, TypeOK
<1>1. CASE Backfill(p)
  BY <1>1 DEF Backfill
<1>2. CASE Reject(p)
  BY <1>2 DEF Reject, Publish
<1>3. CASE Judge(p)
  BY <1>3 DEF Judge, Publish
<1>4. CASE ~ (Backfill(p) \/ Reject(p) \/ Judge(p))
  BY <1>4 DEF RunStep, Abort, Begin, CheckDigests, CacheHit, CacheMiss, Snapshot, CheckItem,
              PostSnapshot, Discard
<1> QED
  BY <1>1, <1>2, <1>3, <1>4

\* A result is of the graph its run has loaded, and has that graph's key.
LEMMA ResultStep ==
  ASSUME TypeInv, Keys, NEW p \in Runs, RunStep(p) \/ Abort(p), outcome'[p] # None,
         outcome[p] # None => outcome[p].view = view[p]
  PROVE  Keyed(outcome'[p]) /\ outcome'[p].view = view'[p]
<1> USE DEF TypeInv, TypeOK
<1>1. CASE Begin(p)
  BY <1>1 DEF Begin, Stages
<1>2. CASE CacheHit(p)
  BY <1>2, HitIsOfView DEF CacheHit, Cached, Keys
<1>3. CASE Backfill(p)
  <2>1. outcome[p] \in Attestations
    BY <1>3 DEF Backfill
  <2>2. outcome'[p] = [outcome[p] EXCEPT !.dated = TRUE] /\ view' = view
    BY <1>3 DEF Backfill
  <2>3. outcome'[p].view = outcome[p].view /\ outcome'[p].key = outcome[p].key
    BY <2>1, <2>2 DEF Attestations
  <2>4. Keyed(outcome[p]) /\ outcome[p].view = view[p]
    BY <1>3 DEF Keys, Backfill
  <2> QED
    BY <2>2, <2>3, <2>4 DEF Keyed
<1>4. CASE Reject(p)
  BY <1>4, Published DEF Reject
<1>5. CASE Judge(p)
  BY <1>5, Published DEF Judge
<1>6. CASE ~ (Begin(p) \/ CacheHit(p) \/ Backfill(p) \/ Reject(p) \/ Judge(p))
  <2>1. outcome' = outcome /\ view' = view
    BY <1>6 DEF RunStep, Abort, CheckDigests, CacheMiss, Snapshot, CheckItem, PostSnapshot,
                Discard, private
  <2> QED
    BY <2>1 DEF Keys
<1> QED
  BY <1>1, <1>2, <1>3, <1>4, <1>5, <1>6

\* What stands behind an attestation that is written now.
LEMMA BasisStep ==
  ASSUME TypeInv, NEW p \in Runs, Pinned(p), Undrifted(p), Merging(p), Reject(p) \/ Judge(p),
         att' = outcome'[p], basis' = Basis(p)
  PROVE  FreshEvidence' /\ DriftCaught' /\ AcceptedByFirstItem'
<1>1. pc[p] = "judge" /\ \A i \in ItemsOf(p) : answer[p][i] # None
  BY DEF Reject, Judge, TypeInv, Stages
<1>2. /\ basis'.read = read[p] /\ basis'.pre = pre[p] /\ basis'.answer = answer[p]
      /\ basis'.contract = contract /\ basis'.moved = moved[p]
  BY DEF Basis
<1>3. att'.view = view[p]
  BY Published
<1>4. DOMAIN att'.view.pinned = ItemsOf(p)
  BY <1>3 DEF ItemsOf
<1>5. FreshEvidence'
  BY <1>1, <1>2, <1>3, <1>4 DEF FreshEvidence, Pinned
<1>6. DriftCaught'
  BY <1>1, <1>2, <1>4 DEF DriftCaught, Undrifted
<1>7. AcceptedByFirstItem'
  <2>1. SUFFICES ASSUME att'.outcome = "accepted"
                 PROVE  /\ \A i \in ItemsOf(p) : /\ answer[p][i] \in Answers
                                                /\ \A r \in answer[p][i].results : r[2] # "fail"
                        /\ answer[p][1].header = "right"
                        /\ answer[p][1].results # {}
                        /\ \A r \in answer[p][1].results : r[2] = "pass"
                        /\ contract # {} => answer[p][1].results = contract \X {"pass"}
    BY <1>2, <1>4 DEF AcceptedByFirstItem, Accepted
  <2>2. Judge(p)
    BY <2>1, Published
  <2>3. Silent(p) = {} /\ Valid(merged[p]) /\ AllObligationsPass(merged[p].results)
    BY <2>1, <2>2, Published DEF Judge
  <2> QED
    BY <2>3, OneAnswer, AcceptedFaithfully
<1> QED
  BY <1>5, <1>6, <1>7

-----------------------------------------------------------------------------
LEMMA InitInv == Init => PipelineInv
<1> SUFFICES ASSUME Init PROVE PipelineInv
  OBVIOUS
<1>1. TypeInv
  BY InitTyped
<1>2. \A p \in Runs : Pinned(p) /\ Undrifted(p)
  BY DEF Init, Pinned, Undrifted
<1>3. \A p \in Runs : Merging(p)
  BY NoneAssumption DEF Init, Merging, Answered
<1>4. att # None => Keyed(att)
  <2>1. PICK no \in BOOLEAN : no = FALSE
    OBVIOUS
  <2>2. att = None \/ att = Attestation(graph, no, {}, "accepted", no)
    BY <2>1 DEF Init
  <2> QED
    BY <2>2, BuiltKeyed
<1>5. Keys
  BY <1>4 DEF Init, Keys
<1>6. FreshEvidence /\ DriftCaught /\ AcceptedByFirstItem /\ ResultMatchesView
  BY DEF Init, FreshEvidence, DriftCaught, AcceptedByFirstItem, ResultMatchesView, Accepted, Written
<1> QED
  BY <1>1, <1>2, <1>3, <1>5, <1>6 DEF PipelineInv

LEMMA NextInv == PipelineInv /\ [Next]_vars => PipelineInv'
<1> SUFFICES ASSUME PipelineInv, [Next]_vars PROVE PipelineInv'
  OBVIOUS
<1>0. TypeInv /\ TypeInv'
  BY NextTyped DEF PipelineInv
<1>1. ASSUME NEW p \in Runs, RunStep(p) \/ Abort(p)
      PROVE  PipelineInv'
  <2>1. ASSUME NEW q \in Runs
        PROVE  Pinned(q)' /\ Undrifted(q)' /\ Merging(q)'
    <3>1. Pinned(q) /\ Undrifted(q) /\ Merging(q)
      BY DEF PipelineInv
    <3>2. CASE q = p
      BY <1>0, <1>1, <3>1, <3>2, PinnedStep, UndriftedStep, MergingStep
    <3>3. CASE q # p
      BY <1>0, <1>1, <3>1, <3>3, Elsewhere
    <3> QED
      BY <3>2, <3>3
  <2>2. ASSUME NEW q \in Runs, outcome'[q] # None
        PROVE  Keyed(outcome'[q]) /\ outcome'[q].view = view'[q]
    <3>1. CASE q = p
      BY <1>0, <1>1, <2>2, <3>1, ResultStep DEF PipelineInv, ResultMatchesView
    <3>2. CASE q # p
      BY <1>0, <1>1, <2>2, <3>2, OwnSteps DEF PipelineInv, ResultMatchesView, Keys
    <3> QED
      BY <3>1, <3>2
  <2>3. CASE att' = att /\ basis' = basis
    <3>1. Keys'
      BY <2>2, <2>3 DEF PipelineInv, Keys
    <3>2. FreshEvidence' /\ DriftCaught' /\ AcceptedByFirstItem'
      BY <2>3 DEF PipelineInv, FreshEvidence, DriftCaught, AcceptedByFirstItem, Accepted, Written
    <3> QED
      BY <1>0, <2>1, <2>2, <3>1, <3>2 DEF PipelineInv, ResultMatchesView
  <2>4. CASE att' = outcome'[p] /\ basis' = None
    <3>1. Keys'
      BY <2>2, <2>4 DEF Keys
    <3>2. FreshEvidence' /\ DriftCaught' /\ AcceptedByFirstItem'
      BY <2>4 DEF FreshEvidence, DriftCaught, AcceptedByFirstItem, Accepted, Written
    <3> QED
      BY <1>0, <2>1, <2>2, <3>1, <3>2 DEF PipelineInv, ResultMatchesView
  <2>5. CASE (Reject(p) \/ Judge(p)) /\ att' = outcome'[p] /\ basis' = Basis(p)
    <3>1. Keys'
      BY <2>2, <2>5 DEF Keys
    <3>2. FreshEvidence' /\ DriftCaught' /\ AcceptedByFirstItem'
      BY <1>0, <2>5, BasisStep DEF PipelineInv
    <3> QED
      BY <1>0, <2>1, <2>2, <3>1, <3>2 DEF PipelineInv, ResultMatchesView
  <2> QED
    BY <1>0, <1>1, <2>3, <2>4, <2>5, Writes
<1>2. CASE Environment
  <2>1. \A p \in Runs : Pinned(p)' /\ Undrifted(p)'
    BY <1>0, <1>2, EditsSeen DEF PipelineInv
  <2>2. /\ pc' = pc /\ view' = view /\ answer' = answer /\ merged' = merged /\ outcome' = outcome
        /\ \/ att' = att /\ basis' = basis
           \/ att' = None /\ basis' = None
    BY <1>0, <1>2, EnvironmentSteps
  <2>3. \A p \in Runs : Merging(p)'
    BY <1>0, <2>2 DEF PipelineInv, Merging, MergedFrom, Answered
  <2>4. Keys' /\ ResultMatchesView'
    BY <2>2 DEF PipelineInv, Keys, ResultMatchesView
  <2>5. FreshEvidence' /\ DriftCaught' /\ AcceptedByFirstItem'
    BY <2>2 DEF PipelineInv, FreshEvidence, DriftCaught, AcceptedByFirstItem, Accepted, Written
  <2> QED
    BY <1>0, <2>1, <2>3, <2>4, <2>5 DEF PipelineInv
<1>3. CASE UNCHANGED vars
  BY <1>0, <1>3 DEF vars, shared, private, PipelineInv, Pinned, Undrifted, DigestsMatch, ItemsOf, Merging,
                    MergedFrom, Answered, Keys, FreshEvidence, DriftCaught, AcceptedByFirstItem,
                    ResultMatchesView, Accepted, Written
<1> QED
  BY <1>1, <1>2, <1>3 DEF Next

LEMMA Invariant == Spec => []PipelineInv
  BY InitInv, NextInv, PTL DEF Spec

-----------------------------------------------------------------------------
\* The variables have their types; a run that ends well has a result.
THEOREM PipelineTyped == Spec => []TypeOK
<1>1. PipelineInv => TypeOK
  BY DEF PipelineInv, TypeInv
<1> QED
  BY <1>1, Invariant, PTL

\* verifyEvidenceDigestsOnDisk and the snapshots: an attestation written by a run
\* during which no evidence file changed rests on exactly the digests it names,
\* however many runs there are and whatever becomes of graph.json.
THEOREM EvidenceIsFresh == Spec => []FreshEvidence
<1>1. PipelineInv => FreshEvidence
  BY DEF PipelineInv
<1> QED
  BY <1>1, Invariant, PTL

\* The second snapshot catches every single change made after the first one,
\* and the checker of an attested run has read what the first one saw.
THEOREM DriftIsCaught == Spec => []DriftCaught
<1>1. PipelineInv => DriftCaught
  BY DEF PipelineInv
<1> QED
  BY <1>1, Invariant, PTL

\* runCheckerAllEvidence and ValidateOutput: whatever the checker prints, valid or
\* not, an accepted attestation says what the output on the claim's first evidence
\* item says, every other item was answered, and none of the outputs has a "fail".
\* What else a later output says is dropped unseen: see InvalidOutputsRejected.
THEOREM AcceptanceIsOfFirst == Spec => []AcceptedByFirstItem
<1>1. PipelineInv => AcceptedByFirstItem
  BY DEF PipelineInv
<1> QED
  BY <1>1, Invariant, PTL

\* The cache key: a run never returns the attestation of another statement or
\* of other evidence than it has loaded.
THEOREM ResultIsOfView == Spec => []ResultMatchesView
<1>1. PipelineInv => ResultMatchesView
  BY DEF PipelineInv
<1> QED
  BY <1>1, Invariant, PTL

=============================================================================
