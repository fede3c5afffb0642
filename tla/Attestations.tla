---------------------------- MODULE Attestations ----------------------------
(***************************************************************************)
(* The attestation files, .proofctl/attestations/<claim>.json, and the     *)
(* commands that write them, each in a process of its own: verify and      *)
(* check replace the file by a rename; verify's batch groups, replay and   *)
(* attest write it in place (os.WriteFile), that is, they open and empty   *)
(* it, then fill it.  attest also looks at the file first.  The process    *)
(* may die at any point.                                                   *)
(*                                                                         *)
(* A file is its inode and its body: who opened an inode before a rename   *)
(* or a removal writes to a file nobody reads any more.                    *)
(***************************************************************************)
EXTENDS Integers

CONSTANTS
  Claims,      \* claims of the graph
  Machine,     \* those whose checker_policy names a checker (protocol 2)
  Writers,     \* processes that write attestations
  Statements,  \* versions of a statement
  Reviews,     \* assurances given to attest
  MarkSets,    \* what a command may find to say beside the outcome
  None,        \* no file, no job, no value
  Torn,        \* the body of a file that does not decode
  MaxWrites    \* bound: jobs begun, files removed, statements revised

ASSUME MachineAssumption == Machine \subseteq Claims
ASSUME BoundAssumption == MaxWrites \in Nat

\* What the release conditions look for beside the outcome: a signature of a
\* known key; a native runtime; metadata with a value that is not allowed, with
\* a trigger key, the key it requires, the generators all copying files, every
\* mutant of the checker killed, or a key that a release requires.
Marks == {"signed", "native", "odd", "trigger", "bound", "copies", "killed", "keyed"}

ASSUME MarksAssumption == MarkSets \subseteq SUBSET Marks

VARIABLES
  stmt,    \* version of each claim's statement in graph.json
  files,   \* [ino, body] of each claim's attestation file
  job,     \* what each writer is doing
  writes   \* number of bounded steps so far

store == <<stmt, files, job, writes>>

Assurances == {"", "exact-replay", "reproducible-computation"} \cup Reviews

\* ir.AssuranceLevel; what it does not list ranks lowest.
Level(a) ==
  CASE a = "formal-kernel" -> 6 [] a = "deterministic-cap" -> 5 [] a = "exact-replay" -> 4
    [] a = "reproducible-computation" -> 3 [] a = "independent-review" -> 2
    [] a = "ai-review" -> 1 [] OTHER -> 0

-----------------------------------------------------------------------------
(***************************************************************************)
(* The attestations each command writes.  results stands for               *)
(* obligation_results: all "pass", some "fail", or "none" at all; v2 for   *)
(* checker.protocol_version = 2; dated for self_digest and freshness.      *)
(***************************************************************************)
Attestation ==
  [stmt : Statements \cup {None}, v2 : BOOLEAN, results : {"pass", "fail", "none"},
   outcome : {"accepted", "rejected"}, assurance : Assurances,
   mode : {"", "self_consistency", "from_scratch"}, dated : BOOLEAN,
   marks : SUBSET Marks]

\* Without a checker_policy there is no checker to have a runtime.
Native(c) == IF c \in Machine THEN {} ELSE {"native"}

VerifyAtt(c, s, r, m) ==
  [stmt |-> s, v2 |-> TRUE, results |-> r,
   outcome |-> IF r = "pass" THEN "accepted" ELSE "rejected",
   assurance |-> "", mode |-> "self_consistency", dated |-> TRUE,
   marks |-> m \cap {"signed", "native"}]

\* A batch group's attestation has nothing but its outcome.
GroupAtt(o) ==
  [stmt |-> None, v2 |-> FALSE, results |-> "none", outcome |-> o,
   assurance |-> "", mode |-> "", dated |-> FALSE, marks |-> {}]

\* Only a replay that passed writes one, and never signs it; replay --batch
\* drops the results.  The metadata are the generators and what the checker says.
ReplayAtt(c, r, a, m) ==
  [stmt |-> None, v2 |-> c \in Machine, results |-> r, outcome |-> "accepted",
   assurance |-> a, mode |-> "from_scratch", dated |-> TRUE,
   marks |-> m \ ({"signed"} \cup Native(c))]

\* The metadata are what the user says.
ReviewAtt(c, o, a, m) ==
  [stmt |-> None, v2 |-> c \in Machine,
   results |-> IF o = "accepted" /\ c \in Machine THEN "pass" ELSE "none",
   outcome |-> o, assurance |-> a, mode |-> "", dated |-> TRUE,
   marks |-> m \ Native(c)]

\* ino is the inode the job has opened; seen, which the code does not keep, the
\* file attest has looked at.
Job(kind, c, a, force, step) ==
  [kind |-> kind, claim |-> c, att |-> a, force |-> force, step |-> step, ino |-> 0,
   seen |-> None]

\* A project before the commands start: what earlier verify runs left.
StoreInit ==
  /\ stmt \in [Claims -> Statements]
  /\ \E left \in [Claims -> {None, "pass", "fail"}], m \in MarkSets :
       /\ \A c \in Claims \ Machine : left[c] = None
       /\ files = [c \in Claims |->
            [ino |-> 0,
             body |-> IF left[c] = None THEN None ELSE VerifyAtt(c, stmt[c], left[c], m)]]
  /\ job = [w \in Writers |-> None]
  /\ writes = 0

-----------------------------------------------------------------------------
Bounded == writes < MaxWrites /\ writes' = writes + 1

\* loadAttestations stops the command at the first file it cannot decode.
Readable == \A c \in Claims : files[c].body # Torn

Takes(w, j) == job' = [job EXCEPT ![w] = j]

TakesVerify(w) ==
  \E c \in Machine, r \in {"pass", "fail", "none"}, m \in MarkSets :
    Takes(w, Job("verify", c, VerifyAtt(c, stmt[c], r, m), FALSE, "rename"))
TakesGroup(w) ==
  \E c \in Machine, o \in {"accepted", "rejected"} :
    Takes(w, Job("group", c, GroupAtt(o), FALSE, "open"))
TakesReplay(w) ==
  \E c \in Claims, r \in {"pass", "fail", "none"},
     a \in {"exact-replay", "reproducible-computation"}, m \in MarkSets :
    Takes(w, Job("replay", c, ReplayAtt(c, r, a, m), FALSE, "open"))
TakesReview(w) ==
  \E c \in Claims, o \in {"accepted", "rejected"}, a \in Reviews, f \in BOOLEAN,
     m \in MarkSets :
    /\ a = "independent-review" => "signed" \in m
    /\ Takes(w, Job("attest", c, ReviewAtt(c, o, a, m), f, "look"))

\* The command has loaded the project and settled what it will write.
Begin(w) ==
  /\ Bounded
  /\ job[w] = None
  /\ Readable
  /\ TakesVerify(w) \/ TakesGroup(w) \/ TakesReplay(w) \/ TakesReview(w)
  /\ UNCHANGED <<stmt, files>>

At(w, step) == job[w] # None /\ job[w].step = step

Body(w) == files[job[w].claim].body

Finish(w) == job' = [job EXCEPT ![w] = None]

\* A variant of Rename: the new attestation is written over the old one.
MutRename(w) ==
  /\ At(w, "rename")
  /\ files' = [files EXCEPT ![job[w].claim].body = job[w].att]
  /\ Finish(w)
  /\ UNCHANGED <<stmt, writes>>

\* writeAttestationAtomic.
Rename(w) ==
  /\ At(w, "rename")
  /\ files' = [files EXCEPT ![job[w].claim] = [ino |-> @.ino + 1, body |-> job[w].att]]
  /\ Finish(w)
  /\ UNCHANGED <<stmt, writes>>

Stronger(w) ==
  Body(w) \notin {None, Torn} /\ Level(Body(w).assurance) > Level(job[w].att.assurance)

\* A variant of Refused: the negation is lost.
MutRefused(w) == Stronger(w) /\ job[w].force

Refused(w) == Stronger(w) /\ ~ job[w].force

\* attest refuses to replace a higher assurance; one it cannot read is none.
Look(w) ==
  /\ At(w, "look")
  /\ IF Refused(w)
       THEN Finish(w)
       ELSE job' = [job EXCEPT ![w].step = "open", ![w].seen = files[job[w].claim]]
  /\ UNCHANGED <<stmt, files, writes>>

\* The first half of os.WriteFile.
Open(w) ==
  /\ At(w, "open")
  /\ LET f == files[job[w].claim]
         i == IF f.body = None THEN f.ino + 1 ELSE f.ino
     IN  /\ files' = [files EXCEPT ![job[w].claim] = [ino |-> i, body |-> Torn]]
         /\ job' = [job EXCEPT ![w].step = "fill", ![w].ino = i]
  /\ UNCHANGED <<stmt, writes>>

\* The other half.  When another process has filled the file meanwhile, the
\* end of a longer attestation may stick out.
Fill(w) ==
  /\ At(w, "fill")
  /\ IF files[job[w].claim].ino = job[w].ino
       THEN \E b \in {job[w].att} \cup (IF Body(w) \notin {None, Torn, job[w].att}
                                          THEN {Torn} ELSE {}) :
              files' = [files EXCEPT ![job[w].claim].body = b]
       ELSE UNCHANGED files
  /\ Finish(w)
  /\ UNCHANGED <<stmt, writes>>

\* The command dies or one of its system calls fails.
Die(w) ==
  /\ job[w] # None
  /\ Finish(w)
  /\ UNCHANGED <<stmt, files, writes>>

\* cache invalidate: it needs no project that loads.
Invalidate(c) ==
  /\ Bounded
  /\ files[c].body # None
  /\ files' = [files EXCEPT ![c] = [ino |-> @.ino + 1, body |-> None]]
  /\ UNCHANGED <<stmt, job>>

\* The claim's source changes and is compiled.
Revise(c) ==
  /\ Bounded
  /\ \E s \in Statements \ {stmt[c]} : stmt' = [stmt EXCEPT ![c] = s]
  /\ UNCHANGED <<files, job>>

WriterStep(w) == Rename(w) \/ Look(w) \/ Open(w) \/ Fill(w)

StoreNext ==
  \/ \E w \in Writers : Begin(w) \/ WriterStep(w) \/ Die(w)
  \/ \E c \in Claims : Invalidate(c) \/ Revise(c)

StoreSpec == StoreInit /\ [][StoreNext]_store

-----------------------------------------------------------------------------
Files == [ino : Nat, body : Attestation \cup {None, Torn}]

\* The variables have their types; a writer that has opened a file opened an
\* inode that was or still is that claim's file.
StoreTypeOK ==
  /\ stmt \in [Claims -> Statements]
  /\ files \in [Claims -> Files]
  /\ writes \in 0 .. MaxWrites
  /\ \A w \in Writers : job[w] # None =>
       /\ job[w].kind \in {"verify", "group", "replay", "attest"}
       /\ job[w].claim \in Claims
       /\ job[w].att \in Attestation
       /\ job[w].step \in {"rename", "look", "open", "fill"}
       /\ job[w].ino \in 0 .. files[job[w].claim].ino

Whole(c) == files[c].body \notin {None, Torn}

\* What a rename published is whole until somebody opens, replaces or removes
\* it: a slower writer that opened the file before the rename cannot reach it
\* (verify.go writeAttestationAtomic).
PublishedStaysWhole ==
  [][\A c \in Claims :
       /\ Whole(c) /\ files[c].body.mode = "self_consistency"
       /\ files'[c] # files[c]
       => \/ files'[c].ino > files[c].ino
          \/ \E w \in Writers : At(w, "open") /\ job[w].claim = c /\ job'[w] # job[w]]_store

\* attest without --force empties a file of a higher assurance only when the
\* file has changed since it looked.
DowngradeOnlyByRace ==
  [][\A w \in Writers :
       Open(w) /\ job[w].kind = "attest" /\ ~ job[w].force /\ Stronger(w)
         => files[job[w].claim] # job[w].seen]_store

=============================================================================
