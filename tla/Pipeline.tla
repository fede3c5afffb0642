------------------------------ MODULE Pipeline ------------------------------
(***************************************************************************)
(* verify.Pipeline.Run for one claim.  Several proofctl processes may run  *)
(* it at once (verify, check); they share graph.json, the evidence files,  *)
(* the contract and the attestation file, which users and other commands   *)
(* change between any two steps.  A step is what the code does between two *)
(* accesses to those files.                                                *)
(*                                                                         *)
(* Several files read one after the other are read in one step: what is    *)
(* made of them is a conjunction of what is made of each, and a change of  *)
(* one file commutes with the reading of another.                          *)
(*                                                                         *)
(* A digest is the version of what it digests, a cache key the tuple of    *)
(* what goes into it.  The variable `basis` is not in the code: it recalls *)
(* what the run that wrote the attestation had in hand.                    *)
(***************************************************************************)
EXTENDS Integers, FiniteSets

CONSTANTS
  Runs,         \* proofctl processes
  MaxItems,     \* bound: evidence items the claim may list
  Versions,     \* contents of a file, versions of a statement
  Absent,       \* there is no file at path_hint
  Obligations,  \* obligation IDs
  Answers,      \* outputs a checker may print
  Toolchain,    \* whether the checker reports a toolchain
  None,         \* no attestation, no value yet
  Failed,       \* a checker's exit status 1
  Down,         \* every other way in which it gives no output
  MaxEdits      \* bound: changes made by users and other commands

ASSUME ItemsAssumption == MaxItems \in Nat \ {0}

Items == 1 .. MaxItems

\* A verdict is any string the checker prints; "other" is one that the protocol
\* does not know.  The header is right when claim_id and protocol_version are.
Verdicts == {"pass", "fail", "other"}
Results == Obligations \X Verdicts
Outputs == [header : {"right", "wrong"}, results : SUBSET Results]

ASSUME AnswersAssumption == Answers \subseteq Outputs
ASSUME ToolchainAssumption == Toolchain \in BOOLEAN
ASSUME EditsAssumption == MaxEdits \in Nat
ASSUME NamesAssumption == Absent \notin Versions

VARIABLES
  graph,     \* [stmt, pinned]: the claim's statements and evidence digests
  disk,      \* the evidence files at their path_hint
  contract,  \* obligations of the contract file; {} when there is none
  att,       \* the attestation file
  pc,        \* where each run stands
  view,      \* the graph each run has loaded
  pre,       \* the files at its pre-run freshness snapshot
  read,      \* what the checker read of each item
  answer,    \* what the checker answered on each item
  merged,    \* mergedOut: a header and a set of <<item, <<o, verdict>>>>
  outcome,   \* what the run returns
  moved,     \* edits of its evidence since each run's digest check and its snapshot
  basis,     \* what the attestation rests on
  edits      \* number of edits so far

shared == <<graph, disk, contract>>
private == <<view, pre, read, answer, merged, outcome, moved>>
vars == <<shared, att, pc, private, basis, edits>>

\* A claim lists at least one item; the i-th is at the i-th path, whatever else
\* compile changes.
Pins == UNION {[1 .. n -> Versions] : n \in Items}

Graph == [stmt : Versions, pinned : Pins]
Contents == Versions \cup {Absent}

\* A variant of Key: the claim's statement is left out.
MutKey(v, tc) == <<v.pinned, tc>>

\* The cache key: the tuple of what is hashed, the reported toolchain included.
Key(v, tc) == <<v.stmt, v.pinned, tc>>

Attestation(v, tc, res, out, dated) ==
  [view |-> v, key |-> Key(v, tc), results |-> res, outcome |-> out, dated |-> dated]

Init ==
  /\ graph \in Graph
  /\ disk = [i \in Items |-> IF i \in DOMAIN graph.pinned THEN graph.pinned[i] ELSE Absent]
  /\ contract \in {{}, Obligations}
  /\ att \in {None, Attestation(graph, FALSE, {}, "accepted", FALSE)}
  /\ pc = [p \in Runs |-> "start"]
  /\ view = [p \in Runs |-> graph]
  /\ pre = [p \in Runs |-> disk]
  /\ read = [p \in Runs |-> [i \in Items |-> None]]
  /\ answer = [p \in Runs |-> [i \in Items |-> None]]
  /\ merged = [p \in Runs |-> [header |-> "none", results |-> {}]]
  /\ outcome = [p \in Runs |-> None]
  /\ moved = [p \in Runs |-> [digests |-> 0, snapshot |-> 0]]
  /\ basis = None
  /\ edits = 0

Ended == {"done", "error"}

Goto(p, l) == pc' = [pc EXCEPT ![p] = l]

\* The items of the claim that the run has loaded.
ItemsOf(p) == DOMAIN view[p].pinned

-----------------------------------------------------------------------------
(***************************************************************************)
(* Steps 1 to 4 of Run: what is decided before the checker is started.     *)
(***************************************************************************)

\* The process reads graph.json.
Begin(p) ==
  /\ pc[p] = "start"
  /\ Goto(p, "digests")
  /\ view' = [view EXCEPT ![p] = graph]
  /\ UNCHANGED <<shared, att, pre, read, answer, merged, outcome, moved, basis, edits>>

\* A variant of DigestsMatch: a file that is there is taken as it is.
MutDigestsMatch(p) == TRUE

\* verifyEvidenceDigestsOnDisk: a missing file is skipped.
DigestsMatch(p) == \A i \in ItemsOf(p) : disk[i] \in {view[p].pinned[i], Absent}

\* Steps 2 and 2b.
CheckDigests(p) ==
  /\ pc[p] = "digests"
  /\ Goto(p, IF DigestsMatch(p) THEN "cache" ELSE "error")
  /\ moved' = [moved EXCEPT ![p] = [digests |-> 0, snapshot |-> @.snapshot]]
  /\ UNCHANGED <<shared, att, view, pre, read, answer, merged, outcome, basis, edits>>

Cached(p) == att # None /\ att.key = Key(view[p], FALSE)

\* A hit: the stored attestation is the result.  One without dates is
\* completed and written back later.
CacheHit(p) ==
  /\ pc[p] = "cache"
  /\ Cached(p)
  /\ outcome' = [outcome EXCEPT ![p] = att]
  /\ Goto(p, IF att.dated THEN "done" ELSE "backfill")
  /\ UNCHANGED <<shared, att, view, pre, read, answer, merged, moved, basis, edits>>

\* The best-effort write of the completed attestation.
Backfill(p) ==
  /\ pc[p] = "backfill"
  /\ outcome' = [outcome EXCEPT ![p] = [@ EXCEPT !.dated = TRUE]]
  /\ \/ UNCHANGED <<att, basis>>
     \/ att' = outcome'[p] /\ basis' = None
  /\ Goto(p, "done")
  /\ UNCHANGED <<shared, view, pre, read, answer, merged, moved, edits>>

\* No cache, no file, another key, or --no-cache.
CacheMiss(p) ==
  /\ pc[p] = "cache"
  /\ Goto(p, "snapshot")
  /\ UNCHANGED <<shared, att, private, basis, edits>>

\* Step 5.
Snapshot(p) ==
  /\ pc[p] = "snapshot"
  /\ IF \E i \in ItemsOf(p) : disk[i] = Absent
       THEN Goto(p, "error") /\ UNCHANGED <<pre, moved>>
       ELSE /\ Goto(p, "check")
            /\ pre' = [pre EXCEPT ![p] = disk]
            /\ moved' = [moved EXCEPT ![p] = [digests |-> @.digests, snapshot |-> 0]]
  /\ UNCHANGED <<shared, att, view, read, answer, merged, outcome, basis, edits>>

-----------------------------------------------------------------------------
(***************************************************************************)
(* Step 6, runCheckerAllEvidence: one checker process per item.  Failed   *)
(* is exit status 1, Down everything else that yields no output: no such   *)
(* program, exit status 2 or 3, timeout, too long or not JSON.             *)
(***************************************************************************)
Answered(p) == {i \in Items : answer[p][i] \in Answers}

\* A variant of Merge: the last output replaces the earlier ones.
MutMerge(p, i, a) == [header |-> a.header, results |-> {i} \X a.results]

\* The first output is kept whole; of the later ones only the failures are
\* added, and everything else they say is dropped.
Merge(p, i, a) ==
  IF Answered(p) = {}
    THEN [header |-> a.header, results |-> {i} \X a.results]
    ELSE [header |-> merged[p].header,
          results |-> merged[p].results \cup ({i} \X {r \in a.results : r[2] = "fail"})]

CheckItem(p, i, a) ==
  /\ pc[p] = "check"
  /\ answer[p][i] = None
  /\ \A j \in ItemsOf(p) : j < i => answer[p][j] # None
  /\ read' = [read EXCEPT ![p] = [@ EXCEPT ![i] = disk[i]]]
  /\ answer' = [answer EXCEPT ![p] = [@ EXCEPT ![i] = a]]
  /\ merged' = [merged EXCEPT ![p] = IF a \in Answers THEN Merge(p, i, a) ELSE @]
  /\ UNCHANGED <<shared, att, pc, view, pre, outcome, moved, basis, edits>>

\* A variant of NoDrift: only files that disappear are noticed.
MutNoDrift(p) == \A i \in ItemsOf(p) : disk[i] # Absent

NoDrift(p) == \A i \in ItemsOf(p) : disk[i] = pre[p][i]

\* Step 7.
PostSnapshot(p) ==
  /\ pc[p] = "check"
  /\ \A i \in ItemsOf(p) : answer[p][i] # None
  /\ Goto(p, IF NoDrift(p) THEN "judge" ELSE "error")
  /\ UNCHANGED <<shared, att, private, basis, edits>>

-----------------------------------------------------------------------------
(***************************************************************************)
(* Steps 8 and 9: the output is validated against the contract, the        *)
(* attestation is built and its file replaced.                             *)
(***************************************************************************)
Silent(p) == ItemsOf(p) \ Answered(p)

\* A single item's exit status 1 is a rejection; with several items the error
\* is wrapped, and every error is a failure of the run.
Refuted(p) == Cardinality(ItemsOf(p)) = 1 /\ \A i \in ItemsOf(p) : answer[p][i] = Failed

Ids(res) == {r[2][1] : r \in res}

\* ValidateOutput looks at the merged output only.  Without a contract the
\* obligations are not compared with anything.
Valid(out) ==
  /\ out.header = "right"
  /\ \A r \in out.results : r[2][2] \in {"pass", "fail"}
  /\ \/ contract = {}
     \/ /\ Ids(out.results) = contract
        /\ \A r1, r2 \in out.results : r1[2][1] = r2[2][1] => r1 = r2

AllObligationsPass(res) == res # {} /\ \A r \in res : r[2][2] = "pass"

Basis(p) ==
  [read |-> read[p], pre |-> pre[p], answer |-> answer[p], contract |-> contract,
   moved |-> moved[p]]

Publish(p, a) ==
  /\ outcome' = [outcome EXCEPT ![p] = a]
  /\ att' = a
  /\ basis' = Basis(p)
  /\ Goto(p, "done")

Reject(p) ==
  /\ pc[p] = "judge"
  /\ Refuted(p)
  /\ Publish(p, Attestation(view[p], FALSE, {}, "rejected", TRUE))
  /\ UNCHANGED <<shared, view, pre, read, answer, merged, moved, edits>>

Judge(p) ==
  /\ pc[p] = "judge"
  /\ Silent(p) = {}
  /\ Valid(merged[p])
  /\ Publish(p, Attestation(view[p], Toolchain, {r[2] : r \in merged[p].results},
                            IF AllObligationsPass(merged[p].results) THEN "accepted"
                            ELSE "rejected", TRUE))
  /\ UNCHANGED <<shared, view, pre, read, answer, merged, moved, edits>>

Discard(p) ==
  /\ pc[p] = "judge"
  /\ ~ Refuted(p)
  /\ Silent(p) # {} \/ ~ Valid(merged[p])
  /\ Goto(p, "error")
  /\ UNCHANGED <<shared, att, private, basis, edits>>

\* Any access to a file fails, a blob is missing from the CAS, the lockfile has
\* drifted, a cached signature does not verify, the process is killed.
Abort(p) ==
  /\ pc[p] \notin Ended \cup {"start"}
  /\ Goto(p, "error")
  /\ UNCHANGED <<shared, att, private, basis, edits>>

-----------------------------------------------------------------------------
(***************************************************************************)
(* Users and other commands.                                               *)
(***************************************************************************)
Edit == edits < MaxEdits /\ edits' = edits + 1

EditFile(i, v) ==
  /\ Edit
  /\ v # disk[i]
  /\ disk' = [disk EXCEPT ![i] = v]
  /\ moved' = [p \in Runs |->
                 IF i \in ItemsOf(p)
                   THEN [digests |-> moved[p].digests + 1, snapshot |-> moved[p].snapshot + 1]
                   ELSE moved[p]]
  /\ UNCHANGED <<graph, contract, att, pc, view, pre, read, answer, merged, outcome, basis>>

\* compile, compile --fix-digests
EditGraph(g) ==
  /\ Edit
  /\ g # graph
  /\ graph' = g
  /\ UNCHANGED <<disk, contract, att, pc, private, basis>>

EditContract(c) ==
  /\ Edit
  /\ c # contract
  /\ contract' = c
  /\ UNCHANGED <<graph, disk, att, pc, private, basis>>

\* cache invalidate
Invalidate ==
  /\ Edit
  /\ att # None
  /\ att' = None
  /\ basis' = None
  /\ UNCHANGED <<shared, pc, private>>

RunStep(p) ==
  \/ Begin(p) \/ CheckDigests(p) \/ CacheHit(p) \/ Backfill(p) \/ CacheMiss(p) \/ Snapshot(p)
  \/ \E i \in ItemsOf(p), a \in Answers \cup {Failed, Down} : CheckItem(p, i, a)
  \/ PostSnapshot(p) \/ Reject(p) \/ Judge(p) \/ Discard(p)

Environment ==
  \/ \E i \in Items, v \in Contents : EditFile(i, v)
  \/ \E g \in Graph : EditGraph(g)
  \/ \E c \in {{}, Obligations} : EditContract(c)
  \/ Invalidate

Next == Environment \/ \E p \in Runs : RunStep(p) \/ Abort(p)

Spec == Init /\ [][Next]_vars

-----------------------------------------------------------------------------
CacheKeys == Versions \X Pins \X BOOLEAN

Attestations ==
  [view : Graph, key : CacheKeys, results : SUBSET Results,
   outcome : {"accepted", "rejected"}, dated : BOOLEAN]

\* None is neither an attestation nor what a checker answers.
ASSUME NoneAssumption == None \notin Attestations \cup Answers \cup {Failed, Down}

\* The variables have their types, and a run that ends well returns an
\* attestation.
TypeOK ==
  /\ graph \in Graph
  /\ disk \in [Items -> Contents]
  /\ contract \in SUBSET Obligations
  /\ att \in Attestations \cup {None}
  /\ pc \in [Runs -> Ended \cup {"start", "digests", "cache", "backfill", "snapshot", "check",
                                 "judge"}]
  /\ view \in [Runs -> Graph]
  /\ pre \in [Runs -> [Items -> Contents]]
  /\ read \in [Runs -> [Items -> Contents \cup {None}]]
  /\ answer \in [Runs -> [Items -> Answers \cup {Failed, Down, None}]]
  /\ merged \in [Runs -> [header : {"right", "wrong", "none"},
                          results : SUBSET (Items \X Results)]]
  /\ outcome \in [Runs -> Attestations \cup {None}]
  /\ \A p \in Runs : pc[p] \in {"backfill", "done"} => outcome[p] # None
  /\ edits \in 0 .. MaxEdits

\* What the run that wrote the attestation saw; backfilled ones are older.
Written == att # None /\ basis # None
Accepted == Written /\ att.outcome = "accepted"

\* When no evidence file changes from the digest check on, the checker has read
\* exactly what the attestation names, whatever happens to graph.json and
\* whatever other runs do.
FreshEvidence ==
  Written /\ basis.moved.digests = 0 =>
    \A i \in DOMAIN att.view.pinned : basis.read[i] = att.view.pinned[i]

\* One change of an evidence file between the two snapshots never gets into an
\* attestation: it takes a change and its reversal.
DriftCaught ==
  Written /\ basis.moved.snapshot <= 1 =>
    \A i \in DOMAIN att.view.pinned : basis.read[i] = basis.pre[i]

\* Behind an accepted attestation stands the answer on the first evidence item:
\* it was made out to the claim and passes, by itself, exactly the obligations of
\* the contract.  Every other item was answered, and no answer says "fail".
AcceptedByFirstItem ==
  Accepted =>
    /\ \A i \in DOMAIN att.view.pinned :
         /\ basis.answer[i] \in Answers
         /\ \A r \in basis.answer[i].results : r[2] # "fail"
    /\ LET first == basis.answer[1]
       IN  /\ first.header = "right"
           /\ first.results # {} /\ \A r \in first.results : r[2] = "pass"
           /\ basis.contract # {} => first.results = basis.contract \X {"pass"}

\* A run returns an attestation of the graph it has loaded, whether it comes
\* from the cache or from the checker.
ResultMatchesView ==
  \A p \in Runs : outcome[p] # None => outcome[p].view = view[p]

-----------------------------------------------------------------------------
\* What the protocol document says (docs/CHECKER_PROTOCOL.md:47-59), and the code
\* does not do: no output with a verdict other than pass and fail, or with another
\* claim_id or protocol_version, is behind an accepted attestation.
InvalidOutputsRejected ==
  Accepted =>
    \A i \in DOMAIN att.view.pinned :
      /\ basis.answer[i].header = "right"
      /\ \A r \in basis.answer[i].results : r[2] \in {"pass", "fail"}

=============================================================================
