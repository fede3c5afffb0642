-------------------------------- MODULE Runner --------------------------------
(***************************************************************************)
(* One invocation of a checker: NativeRunner.Run, alone or under RunBatch, *)
(* and OCIRunner.Run.  The checker is another program: it may start a      *)
(* helper that keeps its standard output or standard error open, write as  *)
(* much as it likes, and end, or not, when it likes.  Files may change     *)
(* under the runner.                                                       *)
(*                                                                         *)
(* Time is a counter that stops at the limit.  os/exec (cmd.Start, the     *)
(* goroutine that kills at the deadline, cmd.Wait) is modelled by what it  *)
(* does for a command without WaitDelay: Wait reaps the process and then   *)
(* waits, without limit, for end of file on both pipes: neither of its two *)
(* writers is a file.                                                      *)
(***************************************************************************)
EXTENDS Integers

CONSTANTS
  Calls,           \* the invocations examined, see CallType
  DefaultTimeout,  \* runner.DefaultTimeout
  MaxWallClock,    \* runner.MaxWallClock
  MaxOutput,       \* runner.MaxOutputBytes, in chunks
  MaxWritten,      \* bound: chunks the checker and its helper write
  MaxEdits         \* bound: changes to the files

CallType ==
  [backend : {"native", "oci"},    \* which Runner
   batch   : BOOLEAN,              \* through RunBatch
   timeout : Int,                  \* NativeRunner.Timeout
   secure  : BOOLEAN,              \* OCI: image named, network none
   cmd     : {"lookup", "script", "arguments", "word"},
                                   \* no Runtime.Cmd, or a path alone; Cmd
                                   \* ends with the script; Cmd ends with a
                                   \* data file; Cmd is one bare word
   pinned  : BOOLEAN,              \* CheckerDigest is set and not all zero
   schema  : BOOLEAN]              \* SchemaDigest is, and there is a path

ASSUME CallsAssumption == Calls \subseteq CallType
ASSUME LimitsAssumption ==
  /\ DefaultTimeout \in Nat /\ MaxWallClock \in Nat /\ MaxOutput \in Nat
  /\ MaxWritten \in Nat /\ MaxEdits \in Nat

\* "data" is what the last element of the command names where that is not the
\* program: a data file or, of a bare word, the file of that name in the
\* working directory, while the program is looked up in PATH.
Files == {"program", "data", "schema"}
Contents == {"pinned", "other", "absent"}

\* Exit statuses 0 to 3 of the checker protocol by name; any other is "other"; a
\* killed process has none.
ExitPass == "pass"
ExitFail == "fail"
ExitUnavailable == "unavailable"
ExitProtocolError == "protocol error"
Statuses == {ExitPass, ExitFail, ExitUnavailable, ExitProtocolError, "other"}

VARIABLES
  call,     \* the invocation
  files,    \* content of the files it may read
  now,      \* time since Run was called
  pc,       \* where Run stands
  child,    \* "none", "running", "exited" (not waited for yet), "reaped"
  status,   \* exit status of the child, "killed", or "none"
  ran,      \* content of the program at the moment it was started
  watch,    \* the deadline goroutine: "armed", or "fired" once it killed
  holders,  \* pairs <<process, pipe>>: the process has the pipe open
  written,  \* chunks written to standard output
  kept,     \* chunks in stdoutBuf
  form,     \* what was written, see Forms
  result,   \* what Run, or RunBatch, returned
  edits,    \* changes to the files so far
  touched   \* history: the program changed between digest check and start

vars == <<call, files, now, pc, child, status, ran, watch, holders, written,
          kept, form, result, edits, touched>>

native == call.backend = "native"

Pipes == {"stdout", "stderr"}
Processes == {"child", "helper"}
Of(p) == {p} \X Pipes

\* JSON, or not; a batch can be read from an array, and from null as no
\* results at all.
Forms == {"array", "null", "object", "text"}

-----------------------------------------------------------------------------
Limit ==
  IF call.timeout = 0 THEN DefaultTimeout
  ELSE IF call.timeout > MaxWallClock THEN MaxWallClock ELSE call.timeout

\* Variant: Run uses a context without a deadline.
MutExpired == FALSE

\* The context of a native run is done.  OCIRunner sets no deadline: its
\* TimeoutSec is read by nothing.
Expired == native /\ now >= Limit

\* The file whose digest is compared: the last element of the command.
\* Variant: the file found beside the script.
MutDigestTarget == "data"
DigestTarget == IF call.cmd \in {"arguments", "word"} THEN "data" ELSE "program"

Result(kind, code) == [kind |-> kind, code |-> code]
NoResult == Result("none", "none")
Output == Result("output", ExitPass)

\* RunBatch wraps every error of Run alike: Run returns no output with an
\* error, so the branch that would read a failing checker's answers is dead.
Failure(code) == Result("error", IF call.batch THEN "none" ELSE code)

\* OCIRunner returns a plain error, beside whatever was written.
Plain == Result("error", "none")

Return(r) == pc' = "done" /\ result' = r

Init ==
  /\ call \in Calls
  /\ files \in [Files -> Contents]
  /\ now = 0
  /\ pc = "resolve"
  /\ child = "none" /\ status = "none" /\ ran = "none" /\ watch = "armed"
  /\ holders = {} /\ written = 0 /\ kept = 0 /\ form = "text"
  /\ result = NoResult
  /\ edits = 0 /\ touched = FALSE

-----------------------------------------------------------------------------
(***************************************************************************)
(* Before the checker starts.                                              *)
(***************************************************************************)
beforeVars == <<call, files, now, child, status, ran, watch, holders, written,
                kept, form, edits>>

\* The files the command names are looked for, its first element is not.
Present == /\ call.cmd # "word" => files["program"] # "absent"
           /\ call.cmd = "arguments" => files["data"] # "absent"

Resolve ==
  /\ pc = "resolve" /\ native
  /\ IF Present THEN pc' = "digest" /\ UNCHANGED result
                ELSE Return(Failure(ExitUnavailable))
  /\ UNCHANGED <<beforeVars, touched>>

\* OCIRunner looks at its own configuration and for docker.
ResolveOCI ==
  /\ pc = "resolve" /\ ~ native
  /\ \/ call.secure /\ pc' = "start" /\ UNCHANGED result
     \/ Return(Plain)
  /\ UNCHANGED <<beforeVars, touched>>

VerifyBinaryDigest ==
  /\ pc = "digest"
  /\ IF call.pinned => files[DigestTarget] = "pinned"
       THEN pc' = "schema" /\ UNCHANGED result
       ELSE Return(Failure(ExitUnavailable))
  /\ touched' = FALSE
  /\ UNCHANGED beforeVars

VerifySchemaDigest ==
  /\ pc = "schema"
  /\ IF call.schema => files["schema"] = "pinned"
       THEN pc' = "start" /\ UNCHANGED result
       ELSE Return(Failure(ExitUnavailable))
  /\ UNCHANGED <<beforeVars, touched>>

Start ==
  /\ pc = "start"
  /\ ~ Expired
  /\ native /\ call.cmd \in {"lookup", "word"} => files["program"] # "absent"
  /\ pc' = "wait"
  /\ child' = "running"
  /\ ran' = files["program"]
  /\ holders' = Of("child")
  /\ UNCHANGED <<call, files, now, status, watch, written, kept, form, result, edits, touched>>

\* cmd.Start fails: the limit has passed already, the program or its
\* interpreter is not there, or the system has no process left.
StartFails ==
  /\ pc = "start"
  /\ Return(IF native THEN Failure(ExitUnavailable) ELSE Plain)
  /\ UNCHANGED <<beforeVars, touched>>

-----------------------------------------------------------------------------
(***************************************************************************)
(* While it runs: the checker, its helper, time, and the deadline.         *)
(***************************************************************************)
runVars == <<call, files, ran, result, edits, touched>>

\* stdoutBuf: one chunk more than may be returned is kept, the rest dropped.
\* Variant: no room for the chunk that shows the overflow.
MutRoom == MaxOutput
Room == MaxOutput + 1

Keep(n) == IF native /\ n > Room THEN Room ELSE n

Write(p, f) ==
  /\ <<p, "stdout">> \in holders
  /\ written < MaxWritten
  /\ written' = written + 1
  /\ kept' = Keep(written')
  /\ form' = f
  /\ UNCHANGED <<runVars, now, pc, child, status, watch, holders>>

\* The checker starts a process that inherits one of its outputs, or both.
Spawn(inherited) ==
  /\ child = "running"
  /\ holders' = holders \cup ({"helper"} \X inherited)
  /\ UNCHANGED <<runVars, now, pc, child, status, watch, written, kept, form>>

Exit(code) ==
  /\ child = "running"
  /\ child' = "exited"
  /\ status' = code
  /\ holders' = holders \ Of("child")
  /\ UNCHANGED <<runVars, now, pc, watch, written, kept, form>>

HelperEnds ==
  /\ holders \cap Of("helper") # {}
  /\ holders' = holders \ Of("helper")
  /\ UNCHANGED <<runVars, now, pc, child, status, watch, written, kept, form>>

Tick ==
  /\ native /\ pc # "done"
  /\ now < Limit
  /\ now' = now + 1
  /\ UNCHANGED <<runVars, pc, child, status, watch, holders, written, kept, form>>

\* The deadline goroutine kills the child, and only the child.  A child that
\* has exited but was not waited for counts as killed too.
Kill ==
  /\ pc = "wait" /\ Expired
  /\ watch = "armed"
  /\ child \in {"running", "exited"}
  /\ watch' = "fired"
  /\ child' = "exited"
  /\ status' = IF child = "running" THEN "killed" ELSE status
  /\ holders' = holders \ Of("child")
  /\ UNCHANGED <<runVars, now, pc, written, kept, form>>

Reap ==
  /\ pc = "wait" /\ child = "exited"
  /\ child' = "reaped"
  /\ pc' = "drain"
  /\ UNCHANGED <<runVars, now, status, watch, holders, written, kept, form>>

-----------------------------------------------------------------------------
(***************************************************************************)
(* What Run makes of it.                                                   *)
(***************************************************************************)
Failed == status # ExitPass \/ watch = "fired"

\* The context is asked after the fact: a checker that failed in time is
\* reported as timed out when its helper kept Run waiting past the limit.
TimedOut == Failed /\ Expired

\* Variant: an unexpected status counts as a refutation.
MutCode == IF TimedOut THEN ExitUnavailable
           ELSE IF status \in {ExitUnavailable, ExitProtocolError} THEN status ELSE ExitFail

Code ==
  IF TimedOut THEN ExitUnavailable
  ELSE IF status \in {ExitFail, ExitUnavailable, ExitProtocolError} THEN status
  ELSE ExitProtocolError

Acceptable == kept <= MaxOutput /\ written > 0 /\ form # "text"

Judge ==
  IF ~ native THEN IF Failed THEN Plain ELSE Output
  ELSE IF Failed THEN Failure(Code)
  ELSE IF ~ Acceptable \/ (call.batch /\ form = "object") THEN Failure(ExitProtocolError)
  ELSE Output

\* Both copying goroutines have met the end of their pipe.
Drained == holders = {}

Drain ==
  /\ pc = "drain"
  /\ Drained
  /\ Return(Judge)
  /\ UNCHANGED <<beforeVars, touched>>

Edit(f, c) ==
  /\ pc # "done"
  /\ edits < MaxEdits
  /\ files[f] # c
  /\ files' = [files EXCEPT ![f] = c]
  /\ edits' = edits + 1
  /\ touched' = (touched \/ (f = "program" /\ pc \in {"schema", "start"}))
  /\ UNCHANGED <<call, now, pc, child, status, ran, watch, holders, written, kept, form, result>>

RunnerStep ==
  \/ Resolve \/ ResolveOCI \/ VerifyBinaryDigest \/ VerifySchemaDigest
  \/ Start \/ StartFails \/ Kill \/ Reap \/ Drain

Outside ==
  \/ \E p \in Processes, f \in Forms : Write(p, f)
  \/ \E code \in Statuses : Exit(code)
  \/ \E inherited \in (SUBSET Pipes) \ {{}} : Spawn(inherited)
  \/ HelperEnds
  \/ \E f \in Files, c \in Contents : Edit(f, c)

Next == RunnerStep \/ Outside \/ Tick

\* proofctl's own steps and the clock go on; the checker, its helper and the
\* people who edit files owe nothing.
Spec == Init /\ [][Next]_vars /\ WF_vars(RunnerStep) /\ WF_vars(Tick)

-----------------------------------------------------------------------------
TypeOK ==
  /\ call \in Calls
  /\ files \in [Files -> Contents]
  /\ now \in Nat
  /\ pc \in {"resolve", "digest", "schema", "start", "wait", "drain", "done"}
  /\ child \in {"none", "running", "exited", "reaped"}
  /\ status \in Statuses \cup {"killed", "none"}
  /\ ran \in Contents \cup {"none"}
  /\ watch \in {"armed", "fired"}
  /\ holders \subseteq Processes \X Pipes
  /\ written \in 0 .. MaxWritten
  /\ kept \in 0 .. written
  /\ form \in Forms
  /\ edits \in 0 .. MaxEdits
  /\ touched \in BOOLEAN

\* What Run returns as the checker's output is all that the checker and
\* whatever it started have written, nobody can add to it any more, a native
\* run never exceeds the limit, and the checker ended by itself with status
\* 0: output cut off at the limit, or cut short by the deadline, is an error
\* (runner.go:179-228).
AnswerIsWhole ==
  result.kind = "output" =>
    /\ status = ExitPass /\ watch = "armed"
    /\ holders = {}
    /\ kept = written
    /\ native => written <= MaxOutput

\* Run reports "the claim does not hold" exactly when the checker said so by
\* its status while there was time: a kill, a crash or a program that cannot
\* be started is never taken for a refutation (the pipeline would record the
\* claim as rejected), and a refutation is lost only to the deadline.
RefutationExact ==
  pc = "done" =>
    ((result.kind = "error" /\ result.code = ExitFail)
      <=> (status = ExitFail /\ native /\ ~ call.batch /\ ~ Expired))

\* The program that was started is the one the claim pins, unless its file
\* was replaced between the digest check and the start.  A command that goes
\* on after the script's name, or that is one bare word, pins something else
\* (runner.go:133-134).
PinnedRan ==
  (child # "none" /\ native /\ call.pinned /\ call.cmd \notin {"arguments", "word"}) =>
    (ran = "pinned" \/ touched)

\* A native run ends, whatever the checker does, unless a process that the
\* checker left behind keeps standard output or standard error open for ever:
\* the limit of runner.go:109 does not end such a run.
RunEnds ==
  native => (<>(pc = "done") \/ <>[](holders \cap Of("helper") # {}))

=============================================================================
