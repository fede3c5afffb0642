---------------------------- MODULE RunnerProofs ----------------------------
(***************************************************************************)
(* For every invocation, every limit, and whatever the checker, its helper *)
(* and the people who edit files do: what Run returns is whole, a          *)
(* refutation is the checker's own, and the program that ran was pinned.   *)
(***************************************************************************)
EXTENDS Runner, TLAPS

-----------------------------------------------------------------------------
Unstarted == {"resolve", "digest", "schema", "start"}

\* Where each stage of Run leaves the checker: there is none before it is
\* started, and none is left, nor anybody who could still write, at the end.
Stages ==
  /\ pc \in Unstarted =>
       /\ child = "none" /\ status = "none" /\ watch = "armed"
       /\ ran = "none" /\ holders = {}
  /\ pc = "wait" => child \in {"running", "exited"}
  /\ pc = "drain" => child = "reaped"
  /\ pc = "done" => child \in {"none", "reaped"} /\ holders = {}
  /\ pc # "done" => result = NoResult

\* The buffer is a function of what was written.
Buffered == kept = Keep(written)

\* Between the digest check and the start the program is the one pinned.
Checked ==
  (pc \in {"schema", "start"} /\ native /\ call.pinned /\ call.cmd \notin {"arguments", "word"}) =>
    (files["program"] = "pinned" \/ touched)

RunnerInv ==
  /\ TypeOK /\ Stages /\ Buffered /\ Checked
  /\ AnswerIsWhole /\ RefutationExact /\ PinnedRan

-----------------------------------------------------------------------------
LEMMA Kept ==
  ASSUME NEW n \in Nat
  PROVE  Keep(n) \in 0 .. n
BY LimitsAssumption DEF Keep, Room

\* What passes the buffer's limit is all that was written.
LEMMA WholeBuffer ==
  ASSUME TypeOK, Buffered, native => kept <= MaxOutput
  PROVE  kept = written /\ (native => written <= MaxOutput)
BY LimitsAssumption DEF TypeOK, Buffered, Keep, Room

\* Run's answer is an output only if the checker ended by itself with status 0.
LEMMA JudgedOutput ==
  ASSUME TypeOK, Buffered, Judge.kind = "output"
  PROVE  /\ status = ExitPass /\ watch = "armed"
         /\ native => kept <= MaxOutput
BY DEF Judge, Plain, Output, Failure, Result, Failed, Acceptable, TypeOK

\* It is a refutation only if the checker's status was 1, in time.
LEMMA JudgedRefutation ==
  ASSUME TypeOK
  PROVE  (Judge.kind = "error" /\ Judge.code = ExitFail)
           <=> (status = ExitFail /\ native /\ ~ call.batch /\ ~ Expired)
<1>1. CASE ~ native
  BY <1>1 DEF Judge, Plain, Output, Result, ExitFail, ExitPass
<1>2. CASE native /\ ~ Failed
  BY <1>2 DEF Judge, Failed, Failure, Output, Result, ExitFail, ExitPass, ExitProtocolError
<1>3. CASE native /\ Failed
  <2>1. Judge = Failure(Code)
    BY <1>3 DEF Judge
  <2>2. Code = ExitFail <=> (~ Expired /\ status = ExitFail)
    BY <1>3 DEF Code, TimedOut, Statuses, ExitPass, ExitFail, ExitUnavailable, ExitProtocolError
  <2>3. Judge.kind = "error" /\ Judge.code = IF call.batch THEN "none" ELSE Code
    BY <2>1 DEF Failure, Result
  <2> QED
    BY <1>3, <2>2, <2>3 DEF ExitFail
<1> QED
  BY <1>1, <1>2, <1>3

-----------------------------------------------------------------------------
LEMMA RunnerInit == Init => RunnerInv
<1> SUFFICES ASSUME Init PROVE RunnerInv
  OBVIOUS
<1> USE DEF Init
<1>1. TypeOK
  <2>1. written \in 0 .. MaxWritten /\ kept \in 0 .. written /\ edits \in 0 .. MaxEdits /\ now \in Nat
    BY LimitsAssumption
  <2> QED
    BY <2>1 DEF TypeOK, Forms
<1>2. Stages
  BY DEF Stages, Unstarted
<1>3. Buffered
  BY LimitsAssumption DEF Buffered, Keep, Room
<1>4. Checked /\ RefutationExact /\ PinnedRan
  BY DEF Checked, RefutationExact, PinnedRan
<1>5. AnswerIsWhole
  BY DEF AnswerIsWhole, NoResult, Result
<1> QED
  BY <1>1, <1>2, <1>3, <1>4, <1>5 DEF RunnerInv

\* Before the checker runs: Run goes on to the next check, or returns an error
\* that is no refutation.
LEMMA BeforeStart ==
  ASSUME RunnerInv,
         Resolve \/ ResolveOCI \/ VerifyBinaryDigest \/ VerifySchemaDigest \/ StartFails
  PROVE  RunnerInv'
<1> USE DEF RunnerInv
<1>1. /\ UNCHANGED beforeVars
      /\ pc \in Unstarted
      /\ \/ pc' \in {"digest", "schema", "start"} /\ UNCHANGED result
         \/ pc' = "done" /\ result' \in {Failure(ExitUnavailable), Plain}
  BY DEF Resolve, ResolveOCI, VerifyBinaryDigest, VerifySchemaDigest, StartFails, Return, Unstarted
<1>2. touched' \in BOOLEAN
  BY DEF Resolve, ResolveOCI, VerifyBinaryDigest, VerifySchemaDigest, StartFails, TypeOK
<1>3. TypeOK'
  BY <1>1, <1>2 DEF TypeOK, beforeVars
<1>4. Stages'
  BY <1>1 DEF Stages, Unstarted, beforeVars
<1>5. Buffered'
  BY <1>1 DEF Buffered, Keep, native, beforeVars
<1>6. Checked'
  <2>1. CASE VerifyBinaryDigest
    BY <2>1 DEF VerifyBinaryDigest, Checked, DigestTarget, native, beforeVars, Return
  <2>2. CASE Resolve \/ ResolveOCI
    BY <2>2 DEF Resolve, ResolveOCI, Checked, native, beforeVars, Return
  <2>3. CASE VerifySchemaDigest \/ StartFails
    BY <2>3 DEF VerifySchemaDigest, StartFails, Checked, native, beforeVars, Return
  <2> QED
    BY <2>1, <2>2, <2>3
<1>7. AnswerIsWhole'
  <2>1. result'.kind # "output"
    BY <1>1 DEF Stages, Unstarted, NoResult, Failure, Plain, Result
  <2> QED
    BY <2>1 DEF AnswerIsWhole
<1>8. RefutationExact'
  <2>1. pc' = "done" => result'.code # ExitFail
    BY <1>1 DEF Unstarted, Failure, Plain, Result, ExitFail, ExitUnavailable
  <2>2. status' # ExitFail
    BY <1>1 DEF Stages, beforeVars, ExitFail
  <2> QED
    BY <2>1, <2>2 DEF RefutationExact
<1>9. PinnedRan'
  BY <1>1 DEF PinnedRan, Stages, beforeVars
<1> QED
  BY <1>3, <1>4, <1>5, <1>6, <1>7, <1>8, <1>9

LEMMA Starting ==
  ASSUME RunnerInv, Start
  PROVE  RunnerInv'
<1> USE DEF RunnerInv, Start
<1>1. TypeOK'
  <2>1. files["program"] \in Contents
    BY DEF TypeOK, Files
  <2>2. holders' \subseteq Processes \X Pipes
    BY DEF Of, Processes
  <2> QED
    BY <2>1, <2>2 DEF TypeOK
<1>2. Stages'
  BY DEF Stages, Unstarted
<1>3. Buffered' /\ Checked'
  BY DEF Buffered, Keep, Checked, native
<1>4. AnswerIsWhole' /\ RefutationExact'
  BY DEF AnswerIsWhole, RefutationExact, Stages, NoResult, Result
<1>5. PinnedRan'
  BY DEF PinnedRan, Checked, native
<1> QED
  BY <1>1, <1>2, <1>3, <1>4, <1>5

\* While it runs, nothing has been returned yet.
LEMMA Running ==
  ASSUME RunnerInv,
         \/ \E p \in Processes, f \in Forms : Write(p, f)
         \/ \E code \in Statuses : Exit(code)
         \/ \E inherited \in (SUBSET Pipes) \ {{}} : Spawn(inherited)
         \/ HelperEnds \/ Kill \/ Reap
  PROVE  RunnerInv'
<1> USE DEF RunnerInv
<1>1. UNCHANGED runVars
  BY DEF Write, Exit, Spawn, HelperEnds, Kill, Reap
<1>2. pc \in {"wait", "drain"} /\ pc' \in {"wait", "drain"}
  BY DEF Write, Exit, Spawn, HelperEnds, Kill, Reap, Stages, Unstarted, TypeOK
<1>3. Buffered' /\ written' \in 0 .. MaxWritten
  <2>1. CASE \E p \in Processes, f \in Forms : Write(p, f)
    BY <2>1, LimitsAssumption DEF Write, Buffered, Keep, native, runVars, TypeOK
  <2>2. CASE UNCHANGED <<call, written, kept>>
    BY <2>2 DEF Buffered, Keep, native, TypeOK
  <2> QED
    BY <2>1, <2>2 DEF Exit, Spawn, HelperEnds, Kill, Reap, runVars
<1>4. TypeOK'
  <2>1. kept' \in 0 .. written'
    BY <1>3, Kept, LimitsAssumption DEF Buffered, Keep, native, Room
  <2>2. child' \in {"none", "running", "exited", "reaped"} /\ status' \in Statuses \cup {"killed", "none"}
    BY DEF Write, Exit, Spawn, HelperEnds, Kill, Reap, TypeOK
  <2>3. watch' \in {"armed", "fired"} /\ now' \in Nat
    BY DEF Write, Exit, Spawn, HelperEnds, Kill, Reap, TypeOK
  <2>5. holders' \subseteq Processes \X Pipes
    <3>1. CASE \E inherited \in (SUBSET Pipes) \ {{}} : Spawn(inherited)
      BY <3>1 DEF Spawn, Processes, TypeOK
    <3>2. CASE holders' \subseteq holders
      BY <3>2 DEF TypeOK
    <3> QED
      BY <3>1, <3>2 DEF Write, Exit, HelperEnds, Kill, Reap
  <2>4. form' \in Forms
    BY DEF Write, Exit, Spawn, HelperEnds, Kill, Reap, TypeOK
  <2> QED
    BY <1>1, <1>2, <1>3, <2>1, <2>2, <2>3, <2>4, <2>5 DEF TypeOK, runVars
<1>5. Stages' /\ child' # "none"
  <2>1. pc' = "wait" => child' \in {"running", "exited"}
    BY <1>2 DEF Write, Exit, Spawn, HelperEnds, Kill, Reap, Stages
  <2>2. pc' = "drain" => child' = "reaped"
    BY <1>2 DEF Write, Exit, Spawn, HelperEnds, Kill, Reap, Stages
  <2> QED
    BY <1>1, <1>2, <2>1, <2>2 DEF Stages, Unstarted, runVars
<1>6. Checked' /\ RefutationExact'
  BY <1>2 DEF Checked, RefutationExact
<1>7. AnswerIsWhole'
  BY <1>1, <1>2 DEF AnswerIsWhole, Stages, NoResult, Result, runVars
<1>8. PinnedRan'
  BY <1>1, <1>2 DEF PinnedRan, Stages, native, runVars
<1> QED
  BY <1>3, <1>4, <1>5, <1>6, <1>7, <1>8

LEMMA Returning ==
  ASSUME RunnerInv, Drain
  PROVE  RunnerInv'
<1> USE DEF RunnerInv
<1>1. /\ pc = "drain" /\ pc' = "done" /\ holders = {} /\ result' = Judge
      /\ UNCHANGED <<beforeVars, touched>>
  BY DEF Drain, Drained, Return
<1>2. TypeOK' /\ Buffered'
  BY <1>1 DEF TypeOK, Buffered, Keep, native, beforeVars
<1>3. Stages'
  BY <1>1 DEF Stages, Unstarted, beforeVars
<1>4. Checked' /\ PinnedRan'
  BY <1>1 DEF Checked, PinnedRan, native, beforeVars
<1>5. AnswerIsWhole'
  BY <1>1, JudgedOutput, WholeBuffer DEF AnswerIsWhole, native, beforeVars
<1>6. RefutationExact'
  BY <1>1, JudgedRefutation DEF RefutationExact, Expired, Limit, native, beforeVars
<1> QED
  BY <1>2, <1>3, <1>4, <1>5, <1>6

\* Time and edits pass until Run returns.
LEMMA Around ==
  ASSUME RunnerInv, Tick \/ \E f \in Files, c \in Contents : Edit(f, c)
  PROVE  RunnerInv'
<1> USE DEF RunnerInv
<1>1. /\ pc # "done" /\ UNCHANGED <<call, pc, child, status, ran, watch, holders, written, kept, form, result>>
      /\ now' \in Nat /\ edits' \in 0 .. MaxEdits
      /\ files' \in [Files -> Contents] /\ touched' \in BOOLEAN /\ (touched => touched')
  <2>1. CASE Tick
    BY <2>1 DEF Tick, runVars, TypeOK
  <2>2. ASSUME NEW f \in Files, NEW c \in Contents, Edit(f, c)
        PROVE  /\ pc # "done" /\ UNCHANGED <<call, pc, child, status, ran, watch, holders, written, kept, form, result>>
               /\ now' \in Nat /\ edits' \in 0 .. MaxEdits
               /\ files' \in [Files -> Contents] /\ touched' \in BOOLEAN /\ (touched => touched')
    <3>1. edits' \in 0 .. MaxEdits /\ files' \in [Files -> Contents] /\ now' \in Nat
      BY <2>2, LimitsAssumption DEF Edit, TypeOK
    <3>2. touched' \in BOOLEAN /\ (touched => touched')
      BY <2>2 DEF Edit, TypeOK
    <3> QED
      BY <2>2, <3>1, <3>2 DEF Edit
  <2> QED
    BY <2>1, <2>2
<1>2. TypeOK'
  BY <1>1 DEF TypeOK
<1>3. Stages' /\ Buffered'
  BY <1>1 DEF Stages, Unstarted, Buffered, Keep, native
<1>4. Checked'
  BY DEF Checked, Tick, Edit, runVars, native, TypeOK, Files
<1>5. AnswerIsWhole' /\ RefutationExact' /\ PinnedRan'
  BY <1>1 DEF AnswerIsWhole, RefutationExact, PinnedRan, Stages, NoResult, Result, native
<1> QED
  BY <1>2, <1>3, <1>4, <1>5

LEMMA RunnerStuttering ==
  ASSUME RunnerInv, UNCHANGED vars
  PROVE  RunnerInv'
BY DEF RunnerInv, vars, TypeOK, Stages, Unstarted, Buffered, Keep, Checked, AnswerIsWhole,
  RefutationExact, PinnedRan, Expired, Limit, native

LEMMA RunnerInvariant == Spec => []RunnerInv
<1>1. RunnerInv /\ [Next]_vars => RunnerInv'
  BY BeforeStart, Starting, Running, Returning, Around, RunnerStuttering
     DEF Next, RunnerStep, Outside
<1> QED
  BY RunnerInit, <1>1, PTL DEF Spec

-----------------------------------------------------------------------------
\* The runner's variables keep their types; no more is kept than was written.
THEOREM RunnerTyped == Spec => []TypeOK
BY RunnerInvariant, PTL DEF RunnerInv

\* An output that Run returns is all that the checker and its helpers have
\* written, within the limit, by a checker that ended with status 0
\* (runner.go:173-228).
THEOREM AnswersAreWhole == Spec => []AnswerIsWhole
BY RunnerInvariant, PTL DEF RunnerInv

\* A refutation is reported exactly when the checker's exit status says so
\* before the deadline, outside batches (runner.go:179-215).
THEOREM RefutationsAreExact == Spec => []RefutationExact
BY RunnerInvariant, PTL DEF RunnerInv

\* The program started is the one pinned, unless it was replaced after its
\* digest was compared (runner.go:123-171).
THEOREM PinnedProgramRan == Spec => []PinnedRan
BY RunnerInvariant, PTL DEF RunnerInv

=============================================================================
