--------------------------- MODULE VerifyProject ----------------------------
(***************************************************************************)
(* `proofctl verify --project`: one process loads the graph and the        *)
(* attestations, computes the levels (module Levels) and goes through them *)
(* in order.  In a level the individual claims are verified concurrently,  *)
(* at most MaxWorkers at a time, and then each batch group by one checker  *)
(* process.  An individual claim is verified by Pipeline.Run, of which     *)
(* this module keeps the outcome and the attestation file (module Pipeline *)
(* has the rest).                                                          *)
(*                                                                         *)
(* att is the attestations directory: it is shared with other proofctl     *)
(* processes and survives a crash.  Init lets it hold what earlier runs can  *)
(* have left (Leftovers), so a restart is an initial state.                 *)
(***************************************************************************)
EXTENDS Levels

CONSTANTS
  NoGroup,     \* the empty batch_group
  GroupOf,     \* batch_group of each claim
  MaxWorkers,  \* --parallel, or the number of CPUs
  Strays,      \* claims a batch checker may answer for without being asked
  MaxResults,  \* bound: claim results in one answer of a batch checker
  Leftovers,   \* what earlier runs may have left in an attestation file
  MaxForeign   \* bound: files other proofctl processes touch during the run

ASSUME GroupAssumption == GroupOf \in [Claims -> {GroupOf[c] : c \in Claims}]
ASSUME WorkersAssumption == MaxWorkers \in Nat \ {0}
ASSUME StraysAssumption == Strays \subseteq Claims
ASSUME ResultsAssumption == MaxResults \in Nat
ASSUME ForeignAssumption == MaxForeign \in Nat

VARIABLES
  stage,       \* where cmdVerify stands
  att,         \* outcome in each claim's attestation file
  loaded,      \* the attestations as they were read at the start
  lvl,         \* number of levels started
  worker,      \* goroutine of each claim, or of its group
  sem,         \* tokens in the semaphore channel
  groupsLeft,  \* batch groups of the level not yet run
  group,       \* the batch group being run
  answer,      \* resultByID: its checker's results as far as they are handled
  left,        \* claim results of its checker's list not yet handled
  torn,        \* claims whose file is between truncation and last write
  result,      \* entry of each claim in the results
  exitCode,
  foreign      \* writes by other processes so far

projectVars == <<stage, att, loaded, lvl, worker, sem, groupsLeft, group, answer, left,
                 torn, result, exitCode, foreign>>
vars == <<graphVars, projectVars>>

\* "torn" is a file that does not parse.
Outcomes == {"accepted", "rejected"}
Files == Outcomes \cup {"none", "torn"}

ASSUME LeftoversAssumption == Leftovers \subseteq Files

ProjectInit ==
  /\ LoadInit
  /\ stage = "load"
  /\ att \in [Claims -> Leftovers]
  /\ loaded = [c \in Claims |-> "none"]
  /\ lvl = 0
  /\ worker = [c \in Claims |-> "idle"]
  /\ sem = 0
  /\ groupsLeft = {}
  /\ group = NoGroup
  /\ answer = <<>>
  /\ left = 0
  /\ torn = {}
  /\ result = [c \in Claims |-> "none"]
  /\ exitCode = 0
  /\ foreign = 0

Alive == stage \notin {"over", "died"}

-----------------------------------------------------------------------------
(***************************************************************************)
(* Loading.                                                                *)
(***************************************************************************)
Validating ==
  /\ stage = "load"
  /\ pc = "validate"
  /\ EndValidate \/ \E c \in Claims : Visit(c)
  /\ UNCHANGED projectVars

\* loadAttestations dies on a file that does not parse.
Load ==
  /\ stage = "load"
  /\ pc = "levels"
  /\ IF \E c \in Claims : att[c] = "torn"
       THEN stage' = "died" /\ loaded' = loaded
       ELSE stage' = "levels" /\ loaded' = att
  /\ UNCHANGED <<graphVars, att, lvl, worker, sem, groupsLeft, group, answer, left, torn,
                 result, exitCode, foreign>>

Refuse ==
  /\ stage = "load"
  /\ pc = "rejected"
  /\ stage' = "died"
  /\ UNCHANGED <<graphVars, att, loaded, lvl, worker, sem, groupsLeft, group, answer, left,
                 torn, result, exitCode, foreign>>

Levelling ==
  /\ stage = "levels"
  /\ Round \/ EndLevels
  /\ stage' = IF pc' = "ready" THEN "next" ELSE stage
  /\ UNCHANGED <<att, loaded, lvl, worker, sem, groupsLeft, group, answer, left, torn,
                 result, exitCode, foreign>>

-----------------------------------------------------------------------------
(***************************************************************************)
(* One level.                                                              *)
(***************************************************************************)
Open(i) == {c \in levels[i] : loaded[c] # "accepted"}

\* A variant of Individual: the claims of the later levels are started as well.
MutIndividual(i) == {c \in UNION {Open(j) : j \in i .. Len(levels)} : GroupOf[c] = NoGroup}

Individual(i) == {c \in Open(i) : GroupOf[c] = NoGroup}

\* A variant of Members: batchGroups declared outside the loop over levels.
MutMembers(g) == {c \in UNION {Open(i) : i \in 1 .. lvl} : GroupOf[c] = g}

Members(g) == {c \in Open(lvl) : GroupOf[c] = g}

StartLevel ==
  /\ stage = "next"
  /\ lvl < Len(levels)
  /\ lvl' = lvl + 1
  /\ IF Open(lvl + 1) = {}
       THEN UNCHANGED <<stage, worker, groupsLeft>>
       ELSE /\ stage' = "indiv"
            /\ worker' = [c \in Claims |->
                            IF c \in Individual(lvl + 1) THEN "queued" ELSE worker[c]]
            /\ groupsLeft' = {GroupOf[c] : c \in Open(lvl + 1)} \ {NoGroup}
  /\ UNCHANGED <<graphVars, att, loaded, sem, group, answer, left, torn, result, exitCode,
                 foreign>>

\* A variant of Free: a channel one larger than asked for.
MutFree == sem <= MaxWorkers

Free == sem < MaxWorkers

Acquire(c) ==
  /\ Alive
  /\ worker[c] = "queued"
  /\ Free
  /\ sem' = sem + 1
  /\ worker' = [worker EXCEPT ![c] = "running"]
  /\ UNCHANGED <<graphVars, stage, att, loaded, lvl, groupsLeft, group, answer, left, torn,
                 result, exitCode, foreign>>

\* Variants of Released: the token is not given back when Run fails; it is
\* given back twice.
MutReleasedOnSuccess(o) == IF o = "error" THEN sem ELSE sem - 1
MutReleasedTwice(o) == sem - 2

Released(o) == sem - 1

\* runOne returns: an error writes no attestation, the two outcomes write one
\* atomically.
Finish(c, o) ==
  /\ Alive
  /\ worker[c] = "running"
  /\ GroupOf[c] = NoGroup
  /\ att' = IF o = "error" THEN att ELSE [att EXCEPT ![c] = o]
  /\ result' = [result EXCEPT ![c] = o]
  /\ worker' = [worker EXCEPT ![c] = "finished"]
  /\ sem' = Released(o)
  /\ UNCHANGED <<graphVars, stage, loaded, lvl, groupsLeft, group, answer, left, torn,
                 exitCode, foreign>>

Joined == \A c \in Individual(lvl) : worker[c] = "finished"

Join ==
  /\ stage = "indiv"
  /\ Joined
  /\ stage' = "groups"
  /\ UNCHANGED <<graphVars, att, loaded, lvl, worker, sem, groupsLeft, group, answer, left,
                 torn, result, exitCode, foreign>>

-----------------------------------------------------------------------------
(***************************************************************************)
(* runBatchGroup: the groups of a level run one after the other.           *)
(***************************************************************************)
StartGroup(g) ==
  /\ stage = "groups"
  /\ g \in groupsLeft
  /\ stage' = "batch"
  /\ group' = g
  /\ groupsLeft' = groupsLeft \ {g}
  /\ worker' = [c \in Claims |-> IF c \in Members(g) THEN "running" ELSE worker[c]]
  /\ UNCHANGED <<graphVars, att, loaded, lvl, sem, answer, left, torn, result, exitCode,
                 foreign>>

Returned(g, res) ==
  /\ worker' = [c \in Claims |-> IF c \in Members(g) THEN "finished" ELSE worker[c]]
  /\ result' = [c \in Claims |-> IF c \in Members(g) THEN res[c] ELSE result[c]]
  /\ stage' = "groups"
  /\ group' = NoGroup

\* RunBatch fails (no checker, exit status other than 0, timeout, output that
\* does not parse): every member is an error and no file is touched.
BatchFail ==
  /\ stage = "batch"
  /\ Returned(group, [c \in Claims |-> "error"])
  /\ UNCHANGED <<graphVars, att, loaded, lvl, sem, groupsLeft, answer, left, torn, exitCode,
                 foreign>>

\* RunBatch returns a list of n claim results.
BatchAnswer(n) ==
  /\ stage = "batch"
  /\ stage' = "write"
  /\ left' = n
  /\ UNCHANGED <<graphVars, att, loaded, lvl, worker, sem, groupsLeft, group, answer, torn,
                 result, exitCode, foreign>>

\* The claims a result may name: nothing compares the IDs with the group's, and
\* nothing keeps the list from naming one claim twice.  Of a result the loop
\* uses the claim when it opens the file and the outcome when it has written it.
Answered == Members(group) \cup Strays

Recording(c, o) ==
  answer' = [x \in DOMAIN answer \cup {c} |-> IF x = c THEN o ELSE answer[x]]

\* os.WriteFile truncates the file in place, then writes it.
WriteBegin(c) ==
  /\ stage = "write"
  /\ left > 0
  /\ torn = {}
  /\ c \in Answered
  /\ att' = [att EXCEPT ![c] = "torn"]
  /\ torn' = {c}
  /\ UNCHANGED <<graphVars, stage, loaded, lvl, worker, sem, groupsLeft, group, answer, left,
                 result, exitCode, foreign>>

\* The open file is still the one in the directory unless another process has
\* renamed a file over it or removed it.
WriteEnd(c, o) ==
  /\ stage = "write"
  /\ c \in torn
  /\ att' = IF att[c] = "torn" THEN [att EXCEPT ![c] = o] ELSE att
  /\ Recording(c, o)
  /\ torn' = {}
  /\ left' = left - 1
  /\ UNCHANGED <<graphVars, stage, loaded, lvl, worker, sem, groupsLeft, group, result,
                 exitCode, foreign>>

\* os.WriteFile fails, before or after the file was truncated.
WriteFail(c) ==
  /\ stage = "write"
  /\ left > 0
  /\ c \in Answered
  /\ torn \subseteq {c}
  /\ Recording(c, "error")
  /\ torn' = {}
  /\ left' = left - 1
  /\ UNCHANGED <<graphVars, stage, att, loaded, lvl, worker, sem, groupsLeft, group, result,
                 exitCode, foreign>>

\* A variant of Recorded: a claim the checker said nothing about counts as
\* accepted.
MutRecorded == [c \in Claims |-> IF c \in DOMAIN answer THEN answer[c] ELSE "accepted"]

Recorded == [c \in Claims |-> IF c \in DOMAIN answer THEN answer[c] ELSE "error"]

EndGroup ==
  /\ stage = "write"
  /\ left = 0
  /\ Returned(group, Recorded)
  /\ answer' = <<>>
  /\ UNCHANGED <<graphVars, att, loaded, lvl, sem, groupsLeft, left, torn, exitCode, foreign>>

\* A variant of Verdict: the exit code is that of the last level.
MutVerdict(failed) == IF failed THEN 1 ELSE 0

Verdict(failed) == IF failed THEN 1 ELSE exitCode

EndLevel ==
  /\ stage = "groups"
  /\ groupsLeft = {}
  /\ stage' = "next"
  /\ exitCode' = Verdict(\E c \in Open(lvl) : result[c] # "accepted")
  /\ UNCHANGED <<graphVars, att, loaded, lvl, worker, sem, groupsLeft, group, answer, left,
                 torn, result, foreign>>

Exit ==
  /\ stage = "next"
  /\ lvl = Len(levels)
  /\ stage' = "over"
  /\ UNCHANGED <<graphVars, att, loaded, lvl, worker, sem, groupsLeft, group, answer, left,
                 torn, result, exitCode, foreign>>

-----------------------------------------------------------------------------
(***************************************************************************)
(* The process is killed, or loadRawGraph dies in a goroutine.             *)
(***************************************************************************)
Die ==
  /\ Alive
  /\ stage' = "died"
  /\ UNCHANGED <<graphVars, att, loaded, lvl, worker, sem, groupsLeft, group, answer, left,
                 torn, result, exitCode, foreign>>

\* Another process removes a file (cache invalidate), replaces it atomically
\* (verify @claim) or truncates and rewrites it in place (attest, a batch).
Foreign(c, f) ==
  /\ foreign < MaxForeign
  /\ foreign' = foreign + 1
  /\ att' = [att EXCEPT ![c] = f]
  /\ UNCHANGED <<graphVars, stage, loaded, lvl, worker, sem, groupsLeft, group, answer, left,
                 torn, result, exitCode>>

\* Steps of proofctl itself, and steps that wait for the end of a checker.
Proceed ==
  \/ Validating \/ Load \/ Refuse \/ Levelling
  \/ StartLevel \/ Join \/ EndGroup \/ EndLevel \/ Exit
  \/ \E c \in Claims : Acquire(c) \/ WriteBegin(c) \/ WriteFail(c)
  \/ \E c \in Claims, o \in Outcomes : WriteEnd(c, o)
  \/ \E g \in groupsLeft : StartGroup(g)

CheckersEnd ==
  \/ \E c \in Claims, o \in Outcomes \cup {"error"} : Finish(c, o)
  \/ BatchFail
  \/ \E n \in 0 .. MaxResults : BatchAnswer(n)

Verify == Proceed \/ CheckersEnd

ProjectNext ==
  \/ Verify
  \/ Die
  \/ \E c \in Claims, f \in Files : Foreign(c, f)

\* The process is scheduled.  The end of a checker, a kill of proofctl and the
\* other processes are never owed.
ProjectSpec == ProjectInit /\ [][ProjectNext]_vars /\ WF_vars(Proceed)

-----------------------------------------------------------------------------
ProjectTypeOK ==
  /\ stage \in {"load", "levels", "next", "indiv", "groups", "batch", "write", "over", "died"}
  /\ att \in [Claims -> Files]
  /\ loaded \in [Claims -> Files]
  /\ lvl \in Nat
  /\ worker \in [Claims -> {"idle", "queued", "running", "finished"}]
  /\ sem \in 0 .. MaxWorkers
  /\ DOMAIN answer \subseteq Claims
  /\ answer \in [DOMAIN answer -> Outcomes \cup {"error"}]
  /\ left \in 0 .. MaxResults
  /\ torn # {} => left > 0
  /\ result \in [Claims -> Outcomes \cup {"none", "error"}]
  /\ exitCode \in {0, 1}
  /\ foreign \in 0 .. MaxForeign

\* A claim's checker is started only when every dependency is settled: it was
\* accepted when the run began, or this run has its result.  Two claims one of
\* which depends on the other never have checkers in flight together.
DepsSettledFirst ==
  \A c \in Claims : worker[c] \in {"running", "finished"} =>
    \A d \in Deps(c) : loaded[d] = "accepted" \/ result[d] # "none"

\* The checker processes in flight, a batch group counting as one, are never
\* more than --parallel allows, and a batch runs alone.
Running == {c \in Claims : worker[c] = "running" /\ GroupOf[c] = NoGroup}
CheckersBounded ==
  /\ Cardinality(Running) <= MaxWorkers
  /\ stage = "batch" => Running = {}

\* A run works through the claims as Worklist says: dependencies first, each
\* claim once, whatever the levels and the batch groups are.
Work == INSTANCE Worklist WITH
  needs <- [c \in Claims |-> Deps(c)],
  state <- [c \in Claims |->
              IF loaded[c] = "accepted" \/ worker[c] = "finished" THEN "done"
              ELSE IF worker[c] = "running" THEN "busy" ELSE "waiting"]
ImplementsWorklist == Work!Spec

\* The exit code is 0 exactly when every claim of the graph was accepted before
\* or by this run: no claim falls between levels, groups and error paths.
ExitTellsAll ==
  stage = "over" =>
    (exitCode = 0 <=>
       \A c \in Claims : loaded[c] = "accepted" \/ result[c] = "accepted")

\* When nobody else writes and the run exits with 0, the directory holds an
\* accepted attestation of every claim, but for those a batch checker may have
\* answered for without being asked.
ExitZeroOnDisk ==
  (stage = "over" /\ exitCode = 0 /\ foreign = 0) =>
    \A c \in Claims \ Strays : att[c] = "accepted"

\* A run ends, whatever the checkers answer and other processes do, if each
\* checker it starts returns and no depends_on list names a claim twice: with a
\* repeated entry the levels are never done, and the runner's time limit does
\* not end a checker that leaves its pipes open behind it (Runner).
RunEnds == ~ Repeats /\ WF_vars(CheckersEnd) => <>(stage \in {"over", "died"})

=============================================================================
