------------------------- MODULE ReleaseGateProofs -------------------------
(***************************************************************************)
(* For every set of claims, writers and statements: types, that a          *)
(* published attestation is out of the reach of slower writers, and that   *)
(* attest's downgrade check fails only against a writer that comes after.  *)
(* For every policy and set of releases beside them: types, and that a     *)
(* release says "released" only of claims that were well attested on disk  *)
(* while it loaded them.  For a release that has the project to itself:    *)
(* its outputs appear in order.  For a watch beside the writers: while its *)
(* signature is unchanged, it has shown what is there, except for what was *)
(* written in place.                                                       *)
(***************************************************************************)
EXTENDS ReleaseGate, Watch, TLAPS

-----------------------------------------------------------------------------
Kinds == {"verify", "group", "replay", "attest"}
InPlace == {"look", "open", "fill"}

\* A job as Begin creates it.
Sound(j) ==
  /\ j = [kind |-> j.kind, claim |-> j.claim, att |-> j.att, force |-> j.force,
          step |-> j.step, ino |-> j.ino, seen |-> j.seen]
  /\ j.kind \in Kinds
  /\ j.claim \in Claims
  /\ j.att \in Attestation
  /\ j.step \in {"rename"} \cup InPlace
  /\ j.step \in InPlace => j.att.mode # "self_consistency"
  /\ j.kind = "attest" => j.step # "rename"

\* The attestations the commands write.
LEMMA Written ==
  ASSUME NEW c \in Claims, NEW r \in {"pass", "fail", "none"}, NEW m \in MarkSets
  PROVE  /\ \A s \in Statements : VerifyAtt(c, s, r, m) \in Attestation
         /\ \A a \in {"exact-replay", "reproducible-computation"} :
              ReplayAtt(c, r, a, m) \in Attestation
         /\ \A o \in {"accepted", "rejected"}, a \in Reviews : ReviewAtt(c, o, a, m) \in Attestation
<1> USE MarksAssumption DEF Attestation, Assurances
<1>1. \A s \in Statements : VerifyAtt(c, s, r, m) \in Attestation
  BY DEF VerifyAtt
<1>0. (c \in Machine) = TRUE \/ (c \in Machine) = FALSE
  OBVIOUS
<1>2. \A a \in {"exact-replay", "reproducible-computation"} : ReplayAtt(c, r, a, m) \in Attestation
  BY <1>0 DEF ReplayAtt
<1>3. \A o \in {"accepted", "rejected"}, a \in Reviews : ReviewAtt(c, o, a, m) \in Attestation
  BY <1>0 DEF ReviewAtt
<1> QED
  BY <1>1, <1>2, <1>3

\* What Begin makes of a writer: a sound job that has opened nothing, and that of
\* attest has looked at nothing.
LEMMA NewJobs ==
  ASSUME stmt \in [Claims -> Statements], NEW w \in Writers,
         TakesVerify(w) \/ TakesGroup(w) \/ TakesReplay(w) \/ TakesReview(w)
  PROVE  \E j : /\ job' = [job EXCEPT ![w] = j]
                /\ Sound(j) /\ j.ino = 0 /\ j.step # "fill"
                /\ j.kind = "attest" => j.step = "look"
<1> USE DEF Takes
<1>1. CASE TakesVerify(w)
  <2>1. PICK c \in Machine, r \in {"pass", "fail", "none"}, m \in MarkSets :
          job' = [job EXCEPT ![w] = Job("verify", c, VerifyAtt(c, stmt[c], r, m), FALSE, "rename")]
    BY <1>1 DEF TakesVerify
  <2>2. c \in Claims
    BY MachineAssumption
  <2>3. VerifyAtt(c, stmt[c], r, m) \in Attestation
    BY <2>2, Written
  <2> DEFINE j == Job("verify", c, VerifyAtt(c, stmt[c], r, m), FALSE, "rename")
  <2>5. /\ Sound(j) /\ j.ino = 0 /\ j.step # "fill"
        /\ j.kind = "attest" => j.step = "look"
    BY <2>2, <2>3 DEF Job, Sound, Kinds, InPlace
  <2> HIDE DEF j
  <2> QED
    BY <2>1, <2>5 DEF j
<1>2. CASE TakesGroup(w)
  <2>1. PICK c \in Machine, o \in {"accepted", "rejected"} :
          job' = [job EXCEPT ![w] = Job("group", c, GroupAtt(o), FALSE, "open")]
    BY <1>2 DEF TakesGroup
  <2>2. c \in Claims
    BY MachineAssumption
  <2>3. GroupAtt(o) \in Attestation
    BY DEF GroupAtt, Attestation, Assurances
  <2>4. GroupAtt(o).mode # "self_consistency"
    BY DEF GroupAtt
  <2> DEFINE j == Job("group", c, GroupAtt(o), FALSE, "open")
  <2>5. /\ Sound(j) /\ j.ino = 0 /\ j.step # "fill"
        /\ j.kind = "attest" => j.step = "look"
    BY <2>2, <2>3, <2>4 DEF Job, Sound, Kinds, InPlace
  <2> HIDE DEF j
  <2> QED
    BY <2>1, <2>5 DEF j
<1>3. CASE TakesReplay(w)
  <2>1. PICK c \in Claims, r \in {"pass", "fail", "none"},
             a \in {"exact-replay", "reproducible-computation"}, m \in MarkSets :
          job' = [job EXCEPT ![w] = Job("replay", c, ReplayAtt(c, r, a, m), FALSE, "open")]
    BY <1>3 DEF TakesReplay
  <2>2. ReplayAtt(c, r, a, m) \in Attestation
    BY Written
  <2>3. ReplayAtt(c, r, a, m).mode # "self_consistency"
    BY DEF ReplayAtt
  <2> DEFINE j == Job("replay", c, ReplayAtt(c, r, a, m), FALSE, "open")
  <2>5. /\ Sound(j) /\ j.ino = 0 /\ j.step # "fill"
        /\ j.kind = "attest" => j.step = "look"
    BY <2>2, <2>3 DEF Job, Sound, Kinds, InPlace
  <2> HIDE DEF j
  <2> QED
    BY <2>1, <2>5 DEF j
<1>4. CASE TakesReview(w)
  <2>1. PICK c \in Claims, o \in {"accepted", "rejected"}, a \in Reviews, f \in BOOLEAN,
             m \in MarkSets :
          job' = [job EXCEPT ![w] = Job("attest", c, ReviewAtt(c, o, a, m), f, "look")]
    BY <1>4 DEF TakesReview
  <2>2. ReviewAtt(c, o, a, m) \in Attestation
    BY Written
  <2>3. ReviewAtt(c, o, a, m).mode # "self_consistency"
    BY DEF ReviewAtt
  <2> DEFINE j == Job("attest", c, ReviewAtt(c, o, a, m), f, "look")
  <2>5. /\ Sound(j) /\ j.ino = 0 /\ j.step # "fill"
        /\ j.kind = "attest" => j.step = "look"
    BY <2>2, <2>3 DEF Job, Sound, Kinds, InPlace
  <2> HIDE DEF j
  <2> QED
    BY <2>1, <2>5 DEF j
<1> QED
  BY <1>1, <1>2, <1>3, <1>4

-----------------------------------------------------------------------------
\* A writer that has opened a file wrote to an inode of that claim; if it is
\* still the claim's file, no rename has published it.
Reach(w) ==
  job[w] # None =>
    /\ Sound(job[w])
    /\ job[w].ino \in Nat
    /\ job[w].ino <= files[job[w].claim].ino
    /\ job[w].step = "fill" /\ job[w].ino = files[job[w].claim].ino =>
         \/ files[job[w].claim].body \in {None, Torn}
         \/ files[job[w].claim].body.mode # "self_consistency"

\* attest opens a file only after it has looked at one that is no stronger.
Looked(w) ==
  At(w, "open") /\ job[w].kind = "attest" /\ ~ job[w].force =>
    ~ /\ job[w].seen.body \notin {None, Torn}
      /\ Level(job[w].seen.body.assurance) > Level(job[w].att.assurance)

StoreInv ==
  /\ stmt \in [Claims -> Statements]
  /\ files \in [Claims -> Files]
  /\ writes \in 0 .. MaxWrites
  /\ job = [w \in Writers |-> job[w]]
  /\ \A w \in Writers : Reach(w) /\ Looked(w)

LEMMA StoreInitially == StoreInit => StoreInv
<1> SUFFICES ASSUME StoreInit PROVE StoreInv
  OBVIOUS
<1>1. ASSUME NEW c \in Claims PROVE files[c] \in Files
  <2>1. PICK left \in [Claims -> {None, "pass", "fail"}], m \in MarkSets :
          files[c] = [ino |-> 0,
                      body |-> IF left[c] = None THEN None ELSE VerifyAtt(c, stmt[c], left[c], m)]
    BY <1>1 DEF StoreInit
  <2>2. left[c] # None => VerifyAtt(c, stmt[c], left[c], m) \in Attestation
    BY <1>1, Written DEF StoreInit
  <2> QED
    BY <2>1, <2>2 DEF Files
<1>2. files \in [Claims -> Files]
  BY <1>1 DEF StoreInit
<1> QED
  BY <1>2, BoundAssumption DEF StoreInit, StoreInv, Reach, Looked, At

-----------------------------------------------------------------------------
(***************************************************************************)
(* Steps.                                                                  *)
(***************************************************************************)
Unpublished(b) == b \in {None, Torn} \/ b.mode # "self_consistency"

\* What a step may do to the files: give a claim a new inode, or leave in the old
\* one what no rename has published.
Mild ==
  /\ files' \in [Claims -> Files]
  /\ \A c \in Claims :
       \/ files'[c].ino > files[c].ino
       \/ files'[c].ino = files[c].ino /\ (files'[c].body = files[c].body \/ Unpublished(files'[c].body))

LEMMA Untouched ==
  ASSUME StoreInv, Mild, NEW w \in Writers, job'[w] = job[w]
  PROVE  Reach(w)' /\ Looked(w)'
<1>1. CASE job[w] = None
  BY <1>1 DEF Reach, Looked, At
<1>2. CASE job[w] # None
  <2> DEFINE c == job[w].claim
  <2>1. Reach(w) /\ Looked(w)
    BY DEF StoreInv
  <2>2. /\ Sound(job[w]) /\ c \in Claims /\ job[w].ino \in Nat
        /\ job[w].ino <= files[c].ino
        /\ job[w].step = "fill" /\ job[w].ino = files[c].ino => Unpublished(files[c].body)
    BY <1>2, <2>1 DEF Reach, Sound, Unpublished
  <2>3. files[c].ino \in Nat /\ files'[c].ino \in Nat
    BY <2>2 DEF StoreInv, Mild, Files
  <2>4. /\ job[w].ino <= files'[c].ino
        /\ job[w].step = "fill" /\ job[w].ino = files'[c].ino => Unpublished(files'[c].body)
    BY <2>2, <2>3 DEF Mild
  <2>5. Reach(w)'
    BY <1>2, <2>2, <2>4 DEF Reach, Unpublished, Sound
  <2>6. Looked(w)'
    BY <2>1 DEF Looked, At
  <2> QED
    BY <2>5, <2>6
<1> QED
  BY <1>1, <1>2

\* A step of one writer, given that its own part is kept.
LEMMA OneWriter ==
  ASSUME StoreInv, Mild, NEW w \in Writers, NEW j, job' = [job EXCEPT ![w] = j],
         UNCHANGED stmt, writes' \in 0 .. MaxWrites, Reach(w)' /\ Looked(w)'
  PROVE  StoreInv'
<1>1. job' = [v \in Writers |-> job'[v]]
  BY DEF StoreInv
<1>2. \A v \in Writers \ {w} : job'[v] = job[v]
  BY DEF StoreInv
<1>3. \A v \in Writers : Reach(v)' /\ Looked(v)'
  BY <1>2, Untouched
<1> QED
  BY <1>1, <1>3 DEF StoreInv, Mild

\* A writer that ends keeps nothing.
LEMMA Ending ==
  ASSUME StoreInv, Mild, NEW w \in Writers, Finish(w), UNCHANGED <<stmt, writes>>
  PROVE  StoreInv'
<1>1. job'[w] = None /\ job' = [job EXCEPT ![w] = None]
  BY DEF Finish, StoreInv
<1>2. Reach(w)' /\ Looked(w)'
  BY <1>1 DEF Reach, Looked, At
<1>3. writes' \in 0 .. MaxWrites
  BY DEF StoreInv
<1> QED
  BY <1>1, <1>2, <1>3, OneWriter

LEMMA FilesKept ==
  ASSUME StoreInv, UNCHANGED files
  PROVE  Mild
BY DEF StoreInv, Mild, Files

LEMMA Counting ==
  ASSUME StoreInv, Bounded
  PROVE  writes' \in 0 .. MaxWrites
BY BoundAssumption DEF StoreInv, Bounded

LEMMA OwnJob ==
  ASSUME StoreInv, NEW w \in Writers, NEW step, At(w, step)
  PROVE  /\ Sound(job[w]) /\ job[w].claim \in Claims /\ job[w].att \in Attestation
         /\ job[w].ino \in Nat /\ job[w].step = step
         /\ files[job[w].claim] \in Files
BY DEF StoreInv, Reach, At, Sound

LEMMA BeginKeeps ==
  ASSUME StoreInv, NEW w \in Writers, Begin(w)
  PROVE  StoreInv'
<1>1. PICK j : /\ job' = [job EXCEPT ![w] = j]
               /\ Sound(j) /\ j.ino = 0 /\ j.step # "fill"
               /\ j.kind = "attest" => j.step = "look"
  BY NewJobs DEF Begin, StoreInv
<1>2. Mild
  BY FilesKept DEF Begin
<1>3. job'[w] = j
  BY <1>1 DEF StoreInv
<1>4. j.claim \in Claims /\ files'[j.claim].ino \in Nat
  BY <1>1, <1>2 DEF Sound, Mild, Files
<1>5. Reach(w)'
  BY <1>1, <1>3, <1>4 DEF Reach, Sound
<1>6. Looked(w)'
  BY <1>1, <1>3 DEF Looked, At
<1> QED
  BY <1>1, <1>2, <1>5, <1>6, Counting, OneWriter DEF Begin

LEMMA RenameKeeps ==
  ASSUME StoreInv, NEW w \in Writers, Rename(w)
  PROVE  Mild /\ StoreInv'
<1> DEFINE c == job[w].claim
<1>1. /\ c \in Claims /\ job[w].att \in Attestation
      /\ files[c] \in Files
      /\ files' = [files EXCEPT ![c] = [ino |-> files[c].ino + 1, body |-> job[w].att]]
  BY OwnJob DEF Rename
<1>2. Mild
  BY <1>1 DEF Mild, Files, StoreInv
<1> QED
  BY <1>2, Ending DEF Rename

LEMMA LookKeeps ==
  ASSUME StoreInv, NEW w \in Writers, Look(w)
  PROVE  StoreInv'
<1> DEFINE c == job[w].claim
           j == [kind |-> job[w].kind, claim |-> c, att |-> job[w].att, force |-> job[w].force,
                 step |-> "open", ino |-> job[w].ino, seen |-> files[c]]
<1>0. Mild
  BY FilesKept DEF Look
<1>1. CASE Refused(w)
  BY <1>0, <1>1, Ending DEF Look
<1>2. CASE ~ Refused(w)
  <2>1. /\ Sound(job[w]) /\ job[w].step = "look" /\ job[w].ino \in Nat /\ c \in Claims
        /\ job[w].ino <= files[c].ino
    BY OwnJob DEF Look, StoreInv, Reach, At
  <2>2. job' = [job EXCEPT ![w] = j]
    BY <1>2, <2>1 DEF Look, Sound, StoreInv
  <2>3. /\ j.kind = job[w].kind /\ j.claim = c /\ j.att = job[w].att /\ j.force = job[w].force
        /\ j.step = "open" /\ j.ino = job[w].ino /\ j.seen = files[c]
        /\ j = [kind |-> j.kind, claim |-> j.claim, att |-> j.att, force |-> j.force,
                step |-> j.step, ino |-> j.ino, seen |-> j.seen]
    BY <2>1 DEF Sound
  <2> HIDE DEF j
  <2>4. job'[w] = j
    BY <2>2 DEF StoreInv
  <2>5. Sound(j)
    BY <2>1, <2>3 DEF Sound, InPlace
  <2>6. Reach(w)'
    BY <2>1, <2>3, <2>4, <2>5 DEF Reach, Look, Sound
  <2>7. ~ job[w].force => ~ Stronger(w)
    BY <1>2 DEF Refused
  <2>8. Looked(w)'
    BY <2>3, <2>4, <2>7 DEF Looked, Stronger, Body
  <2>9. UNCHANGED <<stmt, writes>> /\ writes' \in 0 .. MaxWrites
    BY DEF Look, StoreInv
  <2> QED
    BY <1>0, <2>2, <2>6, <2>8, <2>9, OneWriter
<1> QED
  BY <1>1, <1>2

LEMMA OpenKeeps ==
  ASSUME StoreInv, NEW w \in Writers, Open(w)
  PROVE  Mild /\ StoreInv'
<1> DEFINE c == job[w].claim
           i == IF files[c].body = None THEN files[c].ino + 1 ELSE files[c].ino
           j == [kind |-> job[w].kind, claim |-> c, att |-> job[w].att, force |-> job[w].force,
                 step |-> "fill", ino |-> i, seen |-> job[w].seen]
<1>1. /\ Sound(job[w]) /\ job[w].step = "open" /\ c \in Claims /\ files[c] \in Files
  BY OwnJob DEF Open
<1>2. i \in Nat /\ i >= files[c].ino
  BY <1>1 DEF Files
<1>3. /\ files' = [files EXCEPT ![c] = [ino |-> i, body |-> Torn]]
      /\ job' = [job EXCEPT ![w].step = "fill", ![w].ino = i]
      /\ UNCHANGED <<stmt, writes>>
  BY DEF Open
<1> HIDE DEF i
<1>4. job' = [job EXCEPT ![w] = j]
  <2>1. job' = [job EXCEPT ![w] = [job[w] EXCEPT !.step = "fill", !.ino = i]]
    BY <1>3 DEF StoreInv
  <2>2. PICK k, d, a, f, s, n, e :
          job[w] = [kind |-> k, claim |-> d, att |-> a, force |-> f, step |-> s, ino |-> n,
                    seen |-> e]
    BY <1>1 DEF Sound
  <2> DEFINE r == [job[w] EXCEPT !.step = "fill"]
  <2>3. r = [kind |-> k, claim |-> d, att |-> a, force |-> f, step |-> "fill", ino |-> n,
             seen |-> e]
    BY <2>2
  <2>4. [job[w] EXCEPT !.step = "fill", !.ino = i] = [r EXCEPT !.ino = i]
    BY <2>2
  <2> HIDE DEF r
  <2>5. [r EXCEPT !.ino = i] = j
    BY <2>2, <2>3
  <2> QED
    BY <2>1, <2>4, <2>5
<1>5. /\ j.kind = job[w].kind /\ j.claim = c /\ j.att = job[w].att /\ j.force = job[w].force
      /\ j.step = "fill" /\ j.ino = i
      /\ j = [kind |-> j.kind, claim |-> j.claim, att |-> j.att, force |-> j.force,
              step |-> j.step, ino |-> j.ino, seen |-> j.seen]
  BY <1>1 DEF Sound
<1> HIDE DEF j
<1>6. files'[c] = [ino |-> i, body |-> Torn] /\ job'[w] = j
  BY <1>1, <1>3, <1>4 DEF StoreInv
<1>7. Mild
  BY <1>1, <1>2, <1>3 DEF Mild, Files, StoreInv, Unpublished
<1>8. Sound(j)
  BY <1>1, <1>5 DEF Sound, InPlace
<1>9. Reach(w)'
  BY <1>2, <1>5, <1>6, <1>8 DEF Reach, Sound
<1>10. Looked(w)'
  BY <1>5, <1>6 DEF Looked, At
<1>11. writes' \in 0 .. MaxWrites
  BY <1>3 DEF StoreInv
<1> QED
  BY <1>3, <1>4, <1>7, <1>9, <1>10, <1>11, OneWriter

LEMMA FillKeeps ==
  ASSUME StoreInv, NEW w \in Writers, Fill(w)
  PROVE  Mild /\ StoreInv'
<1> DEFINE c == job[w].claim
<1>1. /\ Sound(job[w]) /\ job[w].step = "fill" /\ c \in Claims /\ job[w].att \in Attestation
      /\ files[c] \in Files
  BY OwnJob DEF Fill
<1>2. Unpublished(job[w].att) /\ Unpublished(Torn)
  BY <1>1 DEF Sound, InPlace, Unpublished
<1>3. UNCHANGED files \/ \E b \in {job[w].att, Torn} : files' = [files EXCEPT ![c].body = b]
  BY DEF Fill
<1>4. Mild
  <2>1. CASE UNCHANGED files
    BY <2>1, FilesKept
  <2>2. ASSUME NEW b \in {job[w].att, Torn}, files' = [files EXCEPT ![c].body = b]
        PROVE  Mild
    <3>1. files'[c] = [ino |-> files[c].ino, body |-> b]
      BY <1>1, <2>2 DEF Files, StoreInv
    <3>2. files'[c] \in Files
      BY <1>1, <3>1 DEF Files
    <3> QED
      BY <1>1, <1>2, <2>2, <3>1, <3>2 DEF Mild, StoreInv
  <2> QED
    BY <1>3, <2>1, <2>2
<1> QED
  BY <1>4, Ending DEF Fill

LEMMA DieKeeps ==
  ASSUME StoreInv, NEW w \in Writers, Die(w)
  PROVE  StoreInv'
BY FilesKept, Ending DEF Die

LEMMA OthersKeep ==
  ASSUME StoreInv, NEW c \in Claims, Invalidate(c) \/ Revise(c)
  PROVE  Mild /\ StoreInv'
<1>1. Mild
  BY DEF Invalidate, Revise, Mild, StoreInv, Files
<1>2. stmt' \in [Claims -> Statements] /\ UNCHANGED job
  BY DEF Invalidate, Revise, StoreInv
<1>3. writes' \in 0 .. MaxWrites
  BY Counting DEF Invalidate, Revise
<1>4. \A w \in Writers : Reach(w)' /\ Looked(w)'
  BY <1>1, <1>2, Untouched
<1> QED
  BY <1>1, <1>2, <1>3, <1>4 DEF StoreInv, Mild

LEMMA StoreStep ==
  ASSUME StoreInv, [StoreNext]_store
  PROVE  Mild /\ StoreInv'
<1>1. CASE UNCHANGED store
  <2>1. Mild
    BY <1>1, FilesKept DEF store
  <2>2. \A w \in Writers : Reach(w)' /\ Looked(w)'
    BY <1>1, <2>1, Untouched DEF store
  <2> QED
    BY <1>1, <2>1, <2>2 DEF store, StoreInv
<1>2. ASSUME NEW w \in Writers, Begin(w) PROVE Mild /\ StoreInv'
  BY <1>2, BeginKeeps, FilesKept DEF Begin
<1>3. ASSUME NEW w \in Writers, Look(w) PROVE Mild /\ StoreInv'
  BY <1>3, LookKeeps, FilesKept DEF Look
<1>4. ASSUME NEW w \in Writers, Die(w) PROVE Mild /\ StoreInv'
  BY <1>4, DieKeeps, FilesKept DEF Die
<1>5. CASE StoreNext
  BY <1>2, <1>3, <1>4, <1>5, RenameKeeps, OpenKeeps, FillKeeps, OthersKeep
  DEF StoreNext, WriterStep
<1> QED
  BY <1>1, <1>5

LEMMA StoreInductive ==
  ASSUME StoreInv, [StoreNext]_store
  PROVE  StoreInv'
BY StoreStep

-----------------------------------------------------------------------------
(***************************************************************************)
(* Theorems about the attestation files.                                   *)
(***************************************************************************)
LEMMA StoreAlways == StoreSpec => []StoreInv
<1>1. StoreInv /\ [StoreNext]_store => StoreInv'
  BY StoreInductive
<1> QED
  BY StoreInitially, <1>1, PTL DEF StoreSpec

LEMMA StoreTypes == StoreInv => StoreTypeOK
<1> SUFFICES ASSUME StoreInv PROVE StoreTypeOK
  OBVIOUS
<1>1. ASSUME NEW w \in Writers, job[w] # None
      PROVE  /\ job[w].kind \in {"verify", "group", "replay", "attest"}
             /\ job[w].claim \in Claims
             /\ job[w].att \in Attestation
             /\ job[w].step \in {"rename", "look", "open", "fill"}
             /\ job[w].ino \in 0 .. files[job[w].claim].ino
  <2>1. /\ Sound(job[w]) /\ job[w].ino \in Nat
        /\ job[w].ino <= files[job[w].claim].ino
    BY <1>1 DEF StoreInv, Reach
  <2>2. job[w].claim \in Claims /\ files[job[w].claim].ino \in Nat
    BY <2>1 DEF Sound, StoreInv, Files
  <2>3. job[w].ino \in 0 .. files[job[w].claim].ino
    BY <2>1, <2>2
  <2> QED
    BY <2>1, <2>3 DEF Sound, Kinds, InPlace
<1> QED
  BY <1>1 DEF StoreInv, StoreTypeOK

\* Whatever the commands do and wherever they die, files, jobs and counters keep
\* their types, and a writer's inode is one that its claim's file has or had
\* (verify.go writeAttestationAtomic, cmd_attest.go).
THEOREM StoreTyped == StoreSpec => []StoreTypeOK
<1> QED
  BY StoreTypes, StoreAlways, PTL

\* A file that a rename published as whole is emptied or refilled by nobody who
\* has not opened that very file: writers that were underway when it was
\* published write to an inode it no longer has (verify.go
\* writeAttestationAtomic).
THEOREM PublishedIsKept == StoreSpec => PublishedStaysWhole
<1>1. ASSUME StoreInv, [StoreNext]_store, NEW c \in Claims,
             Whole(c), files[c].body.mode = "self_consistency", files'[c] # files[c]
      PROVE  \/ files'[c].ino > files[c].ino
             \/ \E w \in Writers : At(w, "open") /\ job[w].claim = c /\ job'[w] # job[w]
  <2>0. files[c] \in Files
    BY <1>1 DEF StoreInv
  <2>1. ASSUME NEW w \in Writers, Rename(w)
        PROVE  files'[c].ino > files[c].ino
    <3>1. files' = [files EXCEPT ![job[w].claim] =
                      [ino |-> files[job[w].claim].ino + 1, body |-> job[w].att]]
      BY <2>1 DEF Rename
    <3>2. files'[c] = [ino |-> files[c].ino + 1, body |-> job[w].att]
      BY <1>1, <3>1 DEF StoreInv
    <3> QED
      BY <2>0, <3>2 DEF Files
  <2>2. ASSUME NEW w \in Writers, Open(w)
        PROVE  At(w, "open") /\ job[w].claim = c /\ job'[w] # job[w]
    <3>1. At(w, "open") /\ Sound(job[w]) /\ job[w].step = "open"
      BY <1>1, <2>2, OwnJob DEF Open
    <3>2. job'[w].step = "fill"
      BY <1>1, <2>2, <3>1 DEF Open, StoreInv, Sound
    <3>3. job[w].claim = c
      BY <1>1, <2>2 DEF Open, StoreInv
    <3> QED
      BY <3>1, <3>2, <3>3
  <2>3. ASSUME NEW w \in Writers, Fill(w)
        PROVE  FALSE
    <3>1. job[w].claim = c /\ files[c].ino = job[w].ino
      BY <1>1, <2>3 DEF Fill, StoreInv
    <3>2. files[c].body \in {None, Torn} \/ files[c].body.mode # "self_consistency"
      BY <1>1, <2>3, <3>1 DEF StoreInv, Reach, Fill, At
    <3> QED
      BY <1>1, <3>2 DEF Whole
  <2>4. ASSUME NEW d \in Claims, Invalidate(d)
        PROVE  files'[c].ino > files[c].ino
    <3>1. files' = [files EXCEPT ![d] = [ino |-> files[d].ino + 1, body |-> None]]
      BY <2>4 DEF Invalidate
    <3>2. files'[c] = [ino |-> files[c].ino + 1, body |-> None]
      BY <1>1, <3>1 DEF StoreInv
    <3> QED
      BY <2>0, <3>2 DEF Files
  <2>5. ~ UNCHANGED files
    BY <1>1
  <2>6. \/ \E w \in Writers : Rename(w) \/ Open(w) \/ Fill(w)
        \/ \E d \in Claims : Invalidate(d)
    BY <1>1, <2>5 DEF StoreNext, store, WriterStep, Begin, Look, Die, Revise
  <2> QED
    BY <2>1, <2>2, <2>3, <2>4, <2>6
<1>2. StoreInv /\ [StoreNext]_store =>
        \A c \in Claims :
          /\ Whole(c) /\ files[c].body.mode = "self_consistency"
          /\ files'[c] # files[c]
          => \/ files'[c].ino > files[c].ino
             \/ \E w \in Writers : At(w, "open") /\ job[w].claim = c /\ job'[w] # job[w]
  BY <1>1
<1> QED
  BY <1>2, StoreAlways, PTL DEF StoreSpec, PublishedStaysWhole

\* Without --force attest never empties the file it has looked at when that one
\* is stronger than what it writes: a downgrade takes a second writer between
\* the look and the write (cmd_attest.go).
THEOREM DowngradeTakesTwo == StoreSpec => DowngradeOnlyByRace
<1>1. ASSUME StoreInv, NEW w \in Writers,
             Open(w), job[w].kind = "attest", ~ job[w].force, Stronger(w)
      PROVE  files[job[w].claim] # job[w].seen
  BY <1>1 DEF StoreInv, Looked, Open, Stronger, Body
<1>2. StoreInv /\ [StoreNext]_store =>
        \A w \in Writers :
          Open(w) /\ job[w].kind = "attest" /\ ~ job[w].force /\ Stronger(w)
            => files[job[w].claim] # job[w].seen
  BY <1>1
<1> QED
  BY <1>2, StoreAlways, PTL DEF StoreSpec, DowngradeOnlyByRace


-----------------------------------------------------------------------------
\* The gate's decision: each condition of gate.check is needed for one part of
\* what makes an attestation good.
LEMMA PassedIsWell ==
  ASSUME NEW l, Passes(l)
  PROVE  \A c \in Claims : l[c] # None /\ Well(c, l[c])
<1> SUFFICES ASSUME NEW c \in Claims PROVE l[c] # None /\ Well(c, l[c])
  OBVIOUS
<1>1. l[c] # None
  BY DEF Passes, Conditions, C01
<1>2. c \in Loaded(l)
  BY <1>1 DEF Loaded
<1>3. l[c].v2
  BY <1>2 DEF Passes, NoLegacy
<1>4. l[c].results = "pass"
  BY <1>3 DEF Passes, Conditions, C01, AcceptedNow
<1>5. c \in Required => l[c].outcome = "accepted"
  BY DEF Passes, PolicyHolds
<1>6. c \in Machine => l[c].dated
  BY DEF Passes, Conditions, C04
<1>7. l[c].assurance # "assumption"
  BY <1>2 DEF Passes, Conditions, C02
<1>8. l[c].assurance # "" =>
        l[c].assurance \notin Forbidden /\ (Allowed # {} => l[c].assurance \in Allowed)
  BY <1>2 DEF Passes, Conditions, C03
<1>9. ReplayMode # "" => l[c].mode \in {"", ReplayMode}
  BY <1>2 DEF Passes, Conditions, C08
<1>10. /\ "C05" \in Enforced => "signed" \in l[c].marks
       /\ "C06" \in Enforced => "odd" \notin l[c].marks
       /\ "C09" \in Enforced => "native" \notin l[c].marks
  BY <1>2 DEF Passes, Conditions, C05, C06, C09
<1>11. Recomputed(l[c]) =>
         /\ "C10" \in Enforced => "copies" \notin l[c].marks
         /\ "C11" \in Enforced => "killed" \in l[c].marks
  BY <1>2 DEF Passes, Conditions, C10, C11
<1> QED
  BY <1>1, <1>3, <1>4, <1>5, <1>6, <1>7, <1>8, <1>9, <1>10, <1>11 DEF Well

-----------------------------------------------------------------------------
(***************************************************************************)
(* The invariant.                                                          *)
(***************************************************************************)
GateTyped ==
  /\ at \in [Releases -> {"start", "load", "snapshot", "manifest", "done", "failed"}]
  /\ loaded = [r \in Releases |-> [c \in Claims |-> loaded[r][c]]]
  /\ todo = [r \in Releases |-> todo[r]]
  /\ was \in [Releases -> SUBSET Claims]
  /\ status = [released |-> status.released, by |-> status.by]
  /\ status.released \in BOOLEAN

\* What a release has loaded was on disk, and was recalled if it was good.
Remembered ==
  \A r \in Releases :
    /\ at[r] = "start" => \A c \in Claims : loaded[r][c] = None
    /\ at[r] \in {"start", "load"} =>
         \A c \in Claims : loaded[r][c] # None /\ Well(c, loaded[r][c]) => c \in was[r]

\* STATUS.json is that of a release that has loaded all it ever will.
Decided ==
  status.released =>
    /\ status.by \in Releases
    /\ at[status.by] \notin {"start", "load"}
    /\ was[status.by] = Claims

GateInv == GateTyped /\ Remembered /\ Decided

LEMMA GateInitially == Init => GateInv
<1> SUFFICES ASSUME Init PROVE GateInv
  OBVIOUS
<1> USE DEF Init, GateInit
<1>1. GateTyped
  BY DEF GateTyped
<1>2. Remembered
  BY DEF Remembered
<1>3. Decided
  BY DEF Decided
<1> QED
  BY <1>1, <1>2, <1>3 DEF GateInv

\* Recall adds to what it recalls, and only while a release loads.
LEMMA Recalling ==
  ASSUME Recall, GateTyped, NEW r \in Releases
  PROVE  /\ was' \in [Releases -> SUBSET Claims]
         /\ was[r] \subseteq was'[r]
         /\ at'[r] = "load" => WellOnDisk' \subseteq was'[r]
<1>1. WellOnDisk' \subseteq Claims
  BY DEF WellOnDisk
<1> QED
  BY <1>1 DEF Recall, GateTyped

LEMMA StoreKeepsGate ==
  ASSUME GateInv, Recall, UNCHANGED gate
  PROVE  GateInv'
<1>1. GateTyped'
  BY Recalling DEF GateInv, GateTyped, gate, Recall
<1>2. Remembered'
  BY Recalling DEF GateInv, Remembered, gate
<1>3. Decided'
  <2>1. ASSUME status.released PROVE was'[status.by] = Claims
    <3>1. status.by \in Releases /\ was[status.by] = Claims
      BY <2>1 DEF GateInv, Decided
    <3>2. was[status.by] \subseteq was'[status.by] /\ was'[status.by] \subseteq Claims
      BY <3>1, Recalling DEF GateInv
    <3> QED
      BY <3>1, <3>2
  <2> QED
    BY <2>1 DEF GateInv, Decided, gate
<1> QED
  BY <1>1, <1>2, <1>3 DEF GateInv

\* A release has loaded one more file: when it is good, it was good on disk.
LEMMA LoadKeepsInv ==
  ASSUME GateInv, Recall, NEW r \in Releases, Load(r)
  PROVE  GateInv'
<1> USE DEF GateInv
<1>0. /\ at[r] = "load" /\ UNCHANGED <<store, Outputs>>
      /\ \A q \in Releases \ {r} : at'[q] = at[q] /\ loaded'[q] = loaded[q]
      /\ at'[r] \in {"load", "failed"}
  BY DEF Load, Goto, GateTyped
<1>1. PICK c \in todo[r] :
        IF files[c].body \in {None, Torn}
          THEN Goto(r, "failed") /\ UNCHANGED <<todo, loaded>>
          ELSE /\ loaded' = [loaded EXCEPT ![r][c] = files[c].body]
               /\ todo' = [todo EXCEPT ![r] = @ \ {c}]
               /\ UNCHANGED at
  BY DEF Load
<1>2. GateTyped'
  <2>1. at' \in [Releases -> {"start", "load", "snapshot", "manifest", "done", "failed"}]
    BY <1>1 DEF GateTyped, Goto
  <2>2. loaded' = [q \in Releases |-> [d \in Claims |-> loaded'[q][d]]]
    BY <1>1 DEF GateTyped
  <2>3. todo' = [q \in Releases |-> todo'[q]]
    BY <1>1 DEF GateTyped
  <2>4. was' \in [Releases -> SUBSET Claims]
    BY Recalling
  <2> QED
    BY <1>0, <2>1, <2>2, <2>3, <2>4 DEF GateTyped, Outputs
<1>3. Remembered'
  <2> SUFFICES ASSUME NEW q \in Releases
               PROVE  /\ at'[q] = "start" => \A d \in Claims : loaded'[q][d] = None
                      /\ at'[q] \in {"start", "load"} =>
                           \A d \in Claims : loaded'[q][d] # None /\ Well(d, loaded'[q][d])
                                               => d \in was'[q]
    BY DEF Remembered, Well
  <2>1. CASE q # r
    BY <1>0, <2>1, Recalling DEF Remembered
  <2>2. CASE q = r /\ at'[r] = "load"
    <3>1. files[c].body \notin {None, Torn}
      BY <1>0, <1>1, <2>2 DEF Goto, GateTyped
    <3>2. loaded' = [loaded EXCEPT ![r][c] = files[c].body]
      BY <1>1, <3>1
    <3>3. \A d \in Claims \ {c} : loaded'[r][d] = loaded[r][d]
      BY <3>2 DEF GateTyped
    <3>4. c \in Claims => loaded'[r][c] = files[c].body
      BY <3>2 DEF GateTyped
    <3>5. c \in Claims /\ Well(c, files[c].body) => c \in WellOnDisk'
      BY <1>0, <3>1 DEF WellOnDisk, Whole, store, Well
    <3>6. WellOnDisk' \subseteq was'[r] /\ was[r] \subseteq was'[r]
      BY <2>2, Recalling
    <3> QED
      BY <1>0, <2>2, <3>3, <3>4, <3>5, <3>6 DEF Remembered
  <2>3. CASE q = r /\ at'[r] = "failed"
    BY <2>3
  <2> QED
    BY <1>0, <2>1, <2>2, <2>3
<1>4. Decided'
  <2> SUFFICES ASSUME status.released
               PROVE  /\ status.by \in Releases
                      /\ at'[status.by] \notin {"start", "load"}
                      /\ was'[status.by] = Claims
    BY <1>0 DEF Decided, Outputs
  <2>1. /\ status.by \in Releases /\ at[status.by] \notin {"start", "load"}
        /\ was[status.by] = Claims
    BY DEF Decided
  <2>2. was[status.by] \subseteq was'[status.by] /\ was'[status.by] \subseteq Claims
    BY <2>1, Recalling
  <2> QED
    BY <1>0, <2>1, <2>2
<1> QED
  BY <1>2, <1>3, <1>4

\* Every other step of a release leaves the files and what it has loaded alone.
LEMMA MoveKeepsInv ==
  ASSUME GateInv, Recall, NEW r \in Releases, UNCHANGED <<store, loaded>>,
         NEW l \in {"load", "snapshot", "manifest", "done", "failed"}, Goto(r, l),
         l = "load" => at[r] = "start",
         todo' = [q \in Releases |-> todo'[q]],
         \/ UNCHANGED status /\ (status.released /\ status.by = r => l # "load")
         \/ status' = [released |-> Passes(loaded[r]), by |-> r] /\ at[r] = "load" /\ l # "load"
  PROVE  GateInv'
<1> USE DEF GateInv
<1>0. /\ \A q \in Releases \ {r} : at'[q] = at[q]
      /\ at'[r] = l
      /\ at' \in [Releases -> {"start", "load", "snapshot", "manifest", "done", "failed"}]
  BY DEF GateTyped, Goto
<1>1. GateTyped'
  <2>1. was' \in [Releases -> SUBSET Claims]
    BY Recalling
  <2>2. Passes(loaded[r]) \in BOOLEAN
    BY DEF Passes, NoLegacy, PolicyHolds, Conditions
  <2>3. status' = [released |-> status'.released, by |-> status'.by]
        /\ status'.released \in BOOLEAN
    BY <2>2 DEF GateTyped
  <2> QED
    BY <1>0, <2>1, <2>3 DEF GateTyped
<1>2. Remembered'
  <2> SUFFICES ASSUME NEW q \in Releases
               PROVE  /\ at'[q] = "start" => \A d \in Claims : loaded'[q][d] = None
                      /\ at'[q] \in {"start", "load"} =>
                           \A d \in Claims : loaded'[q][d] # None /\ Well(d, loaded'[q][d])
                                               => d \in was'[q]
    BY DEF Remembered, Well
  <2>1. was[q] \subseteq was'[q]
    BY Recalling
  <2>2. at'[q] \in {"start", "load"} => at[q] \in {"start", "load"} /\ (at'[q] = "start" => q # r)
    BY <1>0
  <2> QED
    BY <1>0, <2>1, <2>2 DEF Remembered
<1>3. Decided'
  <2>1. CASE UNCHANGED status
    <3> SUFFICES ASSUME status.released
                 PROVE  /\ status.by \in Releases
                        /\ at'[status.by] \notin {"start", "load"}
                        /\ was'[status.by] = Claims
      BY <2>1 DEF Decided
    <3>1. /\ status.by \in Releases /\ at[status.by] \notin {"start", "load"}
          /\ was[status.by] = Claims
      BY DEF Decided
    <3>2. was[status.by] \subseteq was'[status.by] /\ was'[status.by] \subseteq Claims
      BY <3>1, Recalling
    <3> QED
      BY <1>0, <3>1, <3>2
  <2>2. CASE status' = [released |-> Passes(loaded[r]), by |-> r] /\ at[r] = "load" /\ l # "load"
    <3> SUFFICES ASSUME Passes(loaded[r])
                 PROVE  was'[r] = Claims
      BY <1>0, <2>2 DEF Decided
    <3>1. \A c \in Claims : c \in was[r]
      BY <2>2, PassedIsWell DEF Remembered
    <3>2. was[r] \subseteq was'[r] /\ was'[r] \subseteq Claims
      BY Recalling
    <3> QED
      BY <3>1, <3>2
  <2> QED
    BY <2>1, <2>2
<1> QED
  BY <1>1, <1>2, <1>3

LEMMA GateInductive ==
  ASSUME GateInv, [Next]_vars
  PROVE  GateInv'
<1>0. CASE UNCHANGED vars
  <2> USE DEF vars, gate
  <2>1. GateTyped'
    BY <1>0 DEF GateInv, GateTyped
  <2>2. Remembered'
    BY <1>0 DEF GateInv, Remembered
  <2>3. Decided'
    BY <1>0 DEF GateInv, Decided
  <2> QED
    BY <2>1, <2>2, <2>3 DEF GateInv
<1> SUFFICES ASSUME Next PROVE GateInv'
  BY <1>0
<1>1. Recall
  BY DEF Next
<1>2. CASE StoreNext /\ UNCHANGED gate
  BY <1>1, <1>2, StoreKeepsGate
<1>3. ASSUME NEW r \in Releases, Start(r) PROVE GateInv'
  <2>1. Goto(r, "load") /\ at[r] = "start" /\ UNCHANGED <<store, loaded, status>>
    BY <1>3 DEF Start, Outputs
  <2>2. todo' = [q \in Releases |-> todo'[q]]
    BY <1>3 DEF Start, GateInv, GateTyped
  <2>3. ~ (status.released /\ status.by = r)
    BY <2>1 DEF GateInv, Decided
  <2> QED
    BY <1>1, <2>1, <2>2, <2>3, MoveKeepsInv
<1>4. ASSUME NEW r \in Releases, Load(r) PROVE GateInv'
  BY <1>1, <1>4, LoadKeepsInv
<1>5. ASSUME NEW r \in Releases, WriteStatus(r) PROVE GateInv'
  <2>1. /\ Goto(r, AfterStatus(r)) /\ at[r] = "load" /\ UNCHANGED <<store, loaded, todo>>
        /\ status' = [released |-> Passes(loaded[r]), by |-> r]
    BY <1>5 DEF WriteStatus
  <2>2. AfterStatus(r) \in {"snapshot", "done"}
    BY DEF AfterStatus
  <2>3. todo' = [q \in Releases |-> todo'[q]]
    BY <2>1 DEF GateInv, GateTyped
  <2> QED
    BY <1>1, <2>1, <2>2, <2>3, MoveKeepsInv
<1>6. ASSUME NEW r \in Releases, WriteSnapshot(r) \/ WriteManifest(r) \/ GiveUp(r)
      PROVE  GateInv'
  <2>1. /\ UNCHANGED <<store, loaded, todo, status>>
        /\ \E l \in {"manifest", "done", "failed"} : Goto(r, l)
    BY <1>6 DEF WriteSnapshot, WriteManifest, GiveUp, Outputs
  <2>2. todo' = [q \in Releases |-> todo'[q]]
    BY <2>1 DEF GateInv, GateTyped
  <2> QED
    BY <1>1, <2>1, <2>2, MoveKeepsInv
<1> QED
  BY <1>2, <1>3, <1>4, <1>5, <1>6 DEF Next, ReleaseStep

\* Fail-closed: STATUS.json says "released" only when every claim was well
\* attested on disk while that release ran (gate.check, EvaluateConditions).
THEOREM ReleaseRestsOnDisk == Spec => []RestsOnDisk
<1>1. GateInv => RestsOnDisk
  BY DEF GateInv, Decided, RestsOnDisk
<1> QED
  BY <1>1, GateInitially, GateInductive, PTL DEF Spec

-----------------------------------------------------------------------------
(***************************************************************************)
(* The order of the outputs.                                               *)
(***************************************************************************)
Alone == \A q, r \in Releases : q = r

\* How far each release has come, and what it has written by then.
Progress ==
  /\ at \in [Releases -> {"start", "load", "snapshot", "manifest", "done", "failed"}]
  /\ \A r \in Releases :
       /\ at[r] \in {"start", "load"} => snapshot # r
       /\ at[r] \in {"start", "load", "snapshot", "manifest"} => manifest # r
       /\ at[r] = "snapshot" => status = [released |-> TRUE, by |-> r]
       /\ at[r] = "manifest" => snapshot = r

LEMMA OrderInitially == Init => Progress /\ OutputsInOrder
BY ReleasesAssumption DEF Init, GateInit, Progress, OutputsInOrder

LEMMA OrderInductive ==
  ASSUME Alone, Progress, OutputsInOrder, [Next]_vars
  PROVE  Progress' /\ OutputsInOrder'
<1> USE DEF Progress, OutputsInOrder, Alone
<1>1. CASE UNCHANGED vars \/ UNCHANGED gate
  BY <1>1 DEF vars, gate
<1>2. ASSUME NEW r \in Releases, Start(r) \/ Load(r) \/ GiveUp(r)
      PROVE  Progress' /\ OutputsInOrder'
  <2>1. /\ UNCHANGED Outputs
        /\ at' = at \/ \E l \in {"load", "failed"} : Goto(r, l)
        /\ Goto(r, "load") => at[r] = "start" \/ at' = at
    BY <1>2 DEF Start, Load, GiveUp, Goto
  <2> QED
    BY <2>1 DEF Outputs, Goto
<1>3. ASSUME NEW r \in Releases, WriteStatus(r) PROVE Progress' /\ OutputsInOrder'
  <2>1. /\ at[r] = "load" /\ Goto(r, AfterStatus(r)) /\ UNCHANGED <<snapshot, manifest>>
        /\ status' = [released |-> Passes(loaded[r]), by |-> r]
    BY <1>3 DEF WriteStatus
  <2>2. /\ AfterStatus(r) \in {"snapshot", "done"}
        /\ AfterStatus(r) = "snapshot" => Passes(loaded[r])
    BY DEF AfterStatus
  <2> QED
    BY <2>1, <2>2 DEF Goto
<1>4. ASSUME NEW r \in Releases, WriteSnapshot(r) PROVE Progress' /\ OutputsInOrder'
  BY <1>4 DEF WriteSnapshot, Goto
<1>5. ASSUME NEW r \in Releases, WriteManifest(r) PROVE Progress' /\ OutputsInOrder'
  BY <1>5 DEF WriteManifest, Goto
<1> QED
  BY <1>1, <1>2, <1>3, <1>4, <1>5 DEF Next, ReleaseStep

\* A single release, stopped anywhere: no manifest without its snapshot, no
\* snapshot without a STATUS.json that says "released" (Gate.Release).
THEOREM OutputsAreOrdered == Alone /\ Spec => []OutputsInOrder
<1>1. SUFFICES ASSUME Alone PROVE Spec => []OutputsInOrder
  OBVIOUS
<1> QED
  BY <1>1, OrderInitially, OrderInductive, PTL DEF Spec

-----------------------------------------------------------------------------
(***************************************************************************)
(* Types.  The files keep theirs while releases read them.                 *)
(***************************************************************************)
GateTypeOK ==
  /\ at \in [Releases -> {"start", "load", "snapshot", "manifest", "done", "failed"}]
  /\ todo \in [Releases -> SUBSET Claims]
  /\ loaded \in [Releases -> [Claims -> Attestation \cup {None}]]
  /\ status \in [released : BOOLEAN, by : Releases \cup {None}]
  /\ snapshot \in Releases \cup {None}
  /\ manifest \in Releases \cup {None}
  /\ was \in [Releases -> SUBSET Claims]

LEMMA StoreBeside ==
  ASSUME [Next]_vars
  PROVE  [StoreNext]_store
BY DEF Next, vars, Start, ReleaseStep, Load, WriteStatus, WriteSnapshot, WriteManifest, GiveUp

LEMMA GateTypesInitially == Init => GateTypeOK
BY DEF Init, GateInit, GateTypeOK

LEMMA GateTypesKept ==
  ASSUME GateTypeOK, StoreInv, [Next]_vars
  PROVE  GateTypeOK'
<1> USE DEF GateTypeOK, Goto, Outputs
<1>1. CASE UNCHANGED vars
  BY <1>1 DEF vars, gate
<1> SUFFICES ASSUME Next PROVE GateTypeOK'
  BY <1>1
<1>2. was' \in [Releases -> SUBSET Claims]
  BY DEF Next, Recall, WellOnDisk
<1>3. CASE UNCHANGED gate
  BY <1>2, <1>3 DEF gate
<1>4. ASSUME NEW r \in Releases, Start(r) PROVE GateTypeOK'
  BY <1>2, <1>4 DEF Start
<1>5. ASSUME NEW r \in Releases, Load(r) PROVE GateTypeOK'
  <2>1. PICK c \in todo[r] :
          IF files[c].body \in {None, Torn}
            THEN Goto(r, "failed") /\ UNCHANGED <<todo, loaded>>
            ELSE /\ loaded' = [loaded EXCEPT ![r][c] = files[c].body]
                 /\ todo' = [todo EXCEPT ![r] = @ \ {c}]
                 /\ UNCHANGED at
    BY <1>5 DEF Load
  <2>2. UNCHANGED Outputs
    BY <1>5 DEF Load
  <2>3. CASE files[c].body \in {None, Torn}
    BY <1>2, <2>1, <2>2, <2>3
  <2>4. CASE files[c].body \notin {None, Torn}
    <3>1. c \in Claims /\ files[c] \in Files
      BY DEF StoreInv
    <3>2. files[c].body \in Attestation
      BY <2>4, <3>1 DEF Files
    <3>3. loaded' = [loaded EXCEPT ![r][c] = files[c].body]
      BY <2>1, <2>4
    <3>4. loaded' \in [Releases -> [Claims -> Attestation \cup {None}]]
      BY <3>1, <3>2, <3>3
    <3>5. todo' \in [Releases -> SUBSET Claims] /\ at' = at
      BY <2>1, <2>4
    <3> QED
      BY <1>2, <2>2, <3>4, <3>5
  <2> QED
    BY <2>3, <2>4
<1>6. ASSUME NEW r \in Releases, WriteStatus(r) PROVE GateTypeOK'
  <2>1. Passes(loaded[r]) \in BOOLEAN
    BY DEF Passes, NoLegacy, PolicyHolds, Conditions
  <2>2. status' \in [released : BOOLEAN, by : Releases \cup {None}]
    BY <1>6, <2>1 DEF WriteStatus
  <2>3. at' \in [Releases -> {"start", "load", "snapshot", "manifest", "done", "failed"}]
    BY <1>6 DEF WriteStatus, AfterStatus
  <2> QED
    BY <1>2, <1>6, <2>2, <2>3 DEF WriteStatus
<1>7. ASSUME NEW r \in Releases, WriteSnapshot(r) \/ WriteManifest(r) \/ GiveUp(r)
      PROVE  GateTypeOK'
  BY <1>2, <1>7 DEF WriteSnapshot, WriteManifest, GiveUp
<1> QED
  BY <1>3, <1>4, <1>5, <1>6, <1>7 DEF Next, ReleaseStep

\* Releases and the commands that write attestations, side by side: all state
\* keeps its type, and what a release has loaded are whole attestations.
THEOREM GateIsTyped == Spec => []TypeOK
<1>1. Init => StoreInv /\ GateTypeOK
  BY StoreInitially, GateTypesInitially DEF Init
<1>2. StoreInv /\ GateTypeOK /\ [Next]_vars => StoreInv' /\ GateTypeOK'
  BY StoreBeside, StoreInductive, GateTypesKept
<1>3. StoreInv /\ GateTypeOK => TypeOK
  BY StoreTypes DEF GateTypeOK, TypeOK
<1> QED
  BY <1>1, <1>2, <1>3, PTL DEF Spec

-----------------------------------------------------------------------------
(***************************************************************************)
(* The watch.  Inode numbers and the graph's time only grow, and each of   *)
(* the signature, the print and the files on disk is not older than the    *)
(* one before: when the first and the last are equal, so is the print.     *)
(* What the print found under an inode number that has not changed is      *)
(* still there, unless it was written in place.                            *)
(***************************************************************************)
Readings == [Claims -> Nat] \X Nat

Prints ==
  [inodes : [Claims -> Nat], bodies : [Claims -> Attestation \cup {None, Torn}],
   time : Nat, stmt : [Claims -> Statements]]

NotOlder(s, t) == (\A c \in Claims : s[1][c] <= t[1][c]) /\ s[2] <= t[2]

\* The signature of the moment at which r was found.
Sig(r) == <<r.inodes, r.time>>

Current(r) ==
  /\ \A c \in Claims :
       r.inodes[c] = files[c].ino => r.bodies[c] = files[c].body \/ c \in inPlace
  /\ GraphNamed /\ r.time = graphTime => r.stmt = stmt

\* A print made after lastSig was taken.
Follows(r) ==
  /\ r \in Prints
  /\ NotOlder(lastSig, Sig(r)) /\ NotOlder(Sig(r), Signature)
  /\ Current(r)

WatchInv ==
  /\ StoreInv
  /\ graphTime \in Nat
  /\ listed \subseteq Claims
  /\ lastSig \in Readings
  /\ NotOlder(lastSig, Signature)
  /\ wpc = "load" => Follows(reading)
  /\ wpc = "sleep" => Follows(shown)

LEMMA SignatureTyped ==
  ASSUME StoreInv, graphTime \in Nat
  PROVE  /\ Signature \in Readings
         /\ \A c \in Claims : Signature[1][c] = files[c].ino
         /\ Signature[2] = graphTime
         /\ NotOlder(Signature, Signature)
<1>1. \A c \in Claims : files[c].ino \in Nat
  BY DEF StoreInv, Files
<1> DEFINE f == [c \in Claims |-> files[c].ino]
<1>2. f \in [Claims -> Nat] /\ \A c \in Claims : f[c] = files[c].ino
  BY <1>1
<1>3. Signature = <<f, graphTime>>
  BY DEF Signature
<1> HIDE DEF f
<1> QED
  BY <1>1, <1>2, <1>3 DEF Readings, NotOlder

LEMMA FoundTyped ==
  ASSUME StoreInv, graphTime \in Nat
  PROVE  /\ Found \in Prints /\ Sig(Found) = Signature
         /\ \A c \in Claims : Found.bodies[c] = files[c].body
         /\ Found.stmt = stmt
<1>1. /\ \A c \in Claims : files[c].ino \in Nat /\ files[c].body \in Attestation \cup {None, Torn}
      /\ stmt \in [Claims -> Statements]
  BY DEF StoreInv, Files
<1> DEFINE f == [c \in Claims |-> files[c].ino]
           b == [c \in Claims |-> files[c].body]
<1>2. /\ f \in [Claims -> Nat] /\ b \in [Claims -> Attestation \cup {None, Torn}]
      /\ \A c \in Claims : b[c] = files[c].body
  BY <1>1
<1>3. Found = [inodes |-> f, bodies |-> b, time |-> graphTime, stmt |-> stmt]
  BY DEF Found
<1>4. Signature = <<f, graphTime>>
  BY DEF Signature
<1> HIDE DEF f, b
<1> QED
  BY <1>1, <1>2, <1>3, <1>4 DEF Prints, Sig

LEMMA SigTyped ==
  ASSUME NEW r \in Prints
  PROVE  /\ Sig(r) \in Readings /\ Sig(r)[1] = r.inodes /\ Sig(r)[2] = r.time
BY DEF Prints, Sig, Readings

LEMMA NotOlderTransitive ==
  ASSUME NEW r \in Readings, NEW s \in Readings, NEW t \in Readings,
         NotOlder(r, s), NotOlder(s, t)
  PROVE  NotOlder(r, t)
<1>1. \A c \in Claims : r[1][c] \in Nat /\ s[1][c] \in Nat /\ t[1][c] \in Nat
  BY DEF Readings
<1>2. r[2] \in Nat /\ s[2] \in Nat /\ t[2] \in Nat
  BY DEF Readings
<1> QED
  BY <1>1, <1>2 DEF NotOlder

LEMMA NotOlderBothWays ==
  ASSUME NEW s \in Readings, NEW t \in Readings, NotOlder(s, t), NotOlder(t, s)
  PROVE  s = t
<1>0. \A c \in Claims : s[1][c] \in Nat /\ t[1][c] \in Nat
  BY DEF Readings
<1>1. ASSUME NEW c \in Claims PROVE s[1][c] = t[1][c]
  <2>1. s[1][c] <= t[1][c] /\ t[1][c] <= s[1][c]
    BY DEF NotOlder
  <2> QED
    BY <1>0, <2>1
<1>2. s[2] = t[2]
  BY DEF Readings, NotOlder
<1>3. s[1] = t[1]
  BY <1>1 DEF Readings
<1> QED
  BY <1>2, <1>3 DEF Readings

LEMMA WatchInitially == WatchInit => WatchInv
<1> SUFFICES ASSUME WatchInit PROVE WatchInv
  OBVIOUS
<1>1. StoreInv /\ graphTime \in Nat
  BY StoreInitially DEF WatchInit
<1>2. Signature \in Readings /\ NotOlder(Signature, Signature)
  BY <1>1, SignatureTyped
<1> QED
  BY <1>1, <1>2 DEF WatchInit, WatchInv

\* Under the same inode number, only a write in place changes a file.
LEMMA OnlyInPlace ==
  ASSUME StoreInv, StoreNext, NEW c \in Claims, files'[c].ino = files[c].ino
  PROVE  files'[c].body = files[c].body \/ Overwritten(c)
<1>1. files \in [Claims -> Files] /\ files[c].ino \in Nat
  BY DEF StoreInv, Files
<1>2. ASSUME NEW w \in Writers, Rename(w) PROVE files'[c] = files[c]
  <2>1. files' = [files EXCEPT ![job[w].claim] =
                    [ino |-> files[job[w].claim].ino + 1, body |-> job[w].att]]
    BY <1>2 DEF Rename
  <2>2. job[w].claim # c
    <3> SUFFICES ASSUME job[w].claim = c PROVE FALSE
      OBVIOUS
    <3>1. files'[c].ino = files[c].ino + 1
      BY <1>1, <2>1
    <3> QED
      BY <1>1, <3>1
  <2> QED
    BY <1>1, <2>1, <2>2
<1>3. ASSUME NEW w \in Writers, Open(w) PROVE files'[c] = files[c] \/ Overwritten(c)
  <2> DEFINE f == files[job[w].claim]
             i == IF f.body = None THEN f.ino + 1 ELSE f.ino
  <2>1. job[w] # None /\ files' = [files EXCEPT ![job[w].claim] = [ino |-> i, body |-> Torn]]
    BY <1>3 DEF Open, At
  <2> HIDE DEF i
  <2>2. CASE job[w].claim = c
    BY <1>3, <2>1, <2>2 DEF Overwritten
  <2>3. CASE job[w].claim # c
    BY <1>1, <2>1, <2>3
  <2> QED
    BY <2>2, <2>3
<1>4. ASSUME NEW w \in Writers, Fill(w) PROVE files'[c] = files[c] \/ Overwritten(c)
  <2>1. /\ job[w] # None
        /\ \/ files' = files
           \/ \E b \in {job[w].att, Torn} : files' = [files EXCEPT ![job[w].claim].body = b]
    BY <1>4 DEF Fill, At
  <2>2. CASE job[w].claim = c
    BY <1>4, <2>1, <2>2 DEF Overwritten
  <2>3. CASE job[w].claim # c
    BY <1>1, <2>1, <2>3
  <2> QED
    BY <2>2, <2>3
<1>5. ASSUME NEW d \in Claims, Invalidate(d) PROVE files'[c] = files[c]
  <2>1. files' = [files EXCEPT ![d] = [ino |-> files[d].ino + 1, body |-> None]]
    BY <1>5 DEF Invalidate
  <2>2. d # c
    BY <1>1, <2>1
  <2> QED
    BY <1>1, <2>1, <2>2
<1>6. ASSUME NEW w \in Writers, Begin(w) \/ Look(w) \/ Die(w) PROVE files' = files
  BY <1>6 DEF Begin, Look, Die
<1>7. ASSUME NEW d \in Claims, Revise(d) PROVE files' = files
  BY <1>7 DEF Revise
<1> QED
  BY <1>2, <1>3, <1>4, <1>5, <1>6, <1>7 DEF StoreNext, WriterStep

\* Another command makes nothing on disk older, and what it writes in place is
\* recalled.
LEMMA OthersOnlyGrow ==
  ASSUME WatchInv, OtherStep
  PROVE  WatchInv'
<1>1. StoreInv' /\ Mild
  BY StoreStep DEF WatchInv, OtherStep
<1>2. graphTime' \in Nat /\ graphTime <= graphTime'
  BY DEF WatchInv, OtherStep
<1>3. /\ Signature \in Readings /\ Signature[2] = graphTime
      /\ \A c \in Claims : Signature[1][c] = files[c].ino
  BY SignatureTyped DEF WatchInv
<1>4. /\ Signature' \in Readings /\ Signature'[2] = graphTime'
      /\ \A c \in Claims : Signature'[1][c] = files'[c].ino
  <2>1. \A c \in Claims : files'[c].ino \in Nat
    BY <1>1 DEF StoreInv, Files
  <2> QED
    BY <1>2, <2>1 DEF Signature, Readings
<1>5. \A c \in Claims : files[c].ino \in Nat /\ files'[c].ino \in Nat
  BY <1>1 DEF WatchInv, StoreInv, Files
<1>6. \A c \in Claims : files[c].ino <= files'[c].ino
  BY <1>1, <1>5 DEF Mild
<1>7. NotOlder(Signature, Signature')
  BY <1>2, <1>3, <1>4, <1>6 DEF NotOlder
<1>8. \A s \in Readings : NotOlder(s, Signature) => NotOlder(s, Signature')
  BY <1>3, <1>4, <1>7, NotOlderTransitive
<1>9. UNCHANGED <<wpc, lastSig, listed, reading, shown>>
  BY DEF OtherStep, watch
<1>10. NotOlder(lastSig, Signature)'
  BY <1>8, <1>9 DEF WatchInv, NotOlder
<1>11. ASSUME NEW r, Follows(r)
       PROVE  /\ r \in Prints
              /\ NotOlder(lastSig, Sig(r)) /\ NotOlder(Sig(r), Signature')
              /\ \A c \in Claims :
                   r.inodes[c] = files'[c].ino => r.bodies[c] = files'[c].body \/ c \in inPlace'
              /\ GraphNamed /\ r.time = graphTime' => r.stmt = stmt'
  <2>1. r \in Prints /\ NotOlder(Sig(r), Signature) /\ Current(r)
    BY <1>11 DEF Follows
  <2>2. /\ \A c \in Claims : r.inodes[c] \in Nat /\ r.inodes[c] <= files[c].ino
        /\ r.time \in Nat /\ r.time <= graphTime
    BY <1>3, <2>1, SigTyped DEF NotOlder, Prints
  <2>3. ASSUME NEW c \in Claims, r.inodes[c] = files'[c].ino
        PROVE  r.bodies[c] = files'[c].body \/ c \in inPlace'
    <3>1. r.inodes[c] = files[c].ino /\ files'[c].ino = files[c].ino
      BY <1>5, <1>6, <2>2, <2>3
    <3>2. files'[c].body = files[c].body \/ Overwritten(c)
      BY <3>1, OnlyInPlace DEF WatchInv, OtherStep
    <3>3. Overwritten(c) => c \in inPlace'
      BY DEF OtherStep
    <3>4. c \in inPlace => c \in inPlace'
      BY DEF OtherStep
    <3>5. r.bodies[c] = files[c].body \/ c \in inPlace
      BY <2>1, <3>1 DEF Current
    <3> QED
      BY <3>2, <3>3, <3>4, <3>5
  <2>4. ASSUME GraphNamed, r.time = graphTime' PROVE r.stmt = stmt'
    <3>1. graphTime' = graphTime /\ r.time = graphTime
      BY <1>2, <2>2, <2>4 DEF WatchInv
    <3>2. stmt' = stmt
      BY <2>4, <3>1 DEF OtherStep, WatchInv
    <3> QED
      BY <2>1, <2>4, <3>1, <3>2 DEF Current
  <2> QED
    BY <1>8, <1>11, <2>1, <2>3, <2>4, SigTyped DEF Follows
<1>12. wpc = "load" => Follows(reading)'
  <2>1. ASSUME wpc = "load" PROVE Follows(reading)
    BY <2>1 DEF WatchInv
  <2> QED
    BY <1>9, <1>11, <2>1 DEF Follows, Current, NotOlder, Sig
<1>13. wpc = "sleep" => Follows(shown)'
  <2>1. ASSUME wpc = "sleep" PROVE Follows(shown)
    BY <2>1 DEF WatchInv
  <2> QED
    BY <1>9, <1>11, <2>1 DEF Follows, Current, NotOlder, Sig
<1> QED
  BY <1>1, <1>2, <1>9, <1>10, <1>12, <1>13 DEF WatchInv

\* A step of the watch, while the files and the graph stay.
LEMMA WatchKeeps ==
  ASSUME WatchInv, WatchStep
  PROVE  WatchInv'
<1>1. /\ StoreInv' /\ graphTime' = graphTime /\ Signature' = Signature
      /\ files' = files /\ stmt' = stmt
  <2>1. UNCHANGED <<store, graphTime>>
    BY DEF WatchStep
  <2> QED
    BY <2>1, StoreStep DEF WatchInv, Signature, store
<1>2. /\ Signature \in Readings /\ NotOlder(Signature, Signature)
      /\ \A c \in Claims : Signature[1][c] = files[c].ino
  BY SignatureTyped DEF WatchInv
<1>3. CASE BeginWatch \/ Poll
  BY <1>1, <1>2, <1>3 DEF WatchInv, BeginWatch, Poll, NotOlder
<1>4. CASE List
  <2>1. /\ wpc' = "load" /\ lastSig' = lastSig /\ reading' = Found /\ listed' \subseteq Claims
    BY <1>4 DEF List
  <2>2. /\ reading' \in Prints /\ Sig(reading') = Signature
        /\ \A c \in Claims : reading'.bodies[c] = files[c].body
        /\ reading'.stmt = stmt
    BY <2>1, FoundTyped DEF WatchInv
  <2>3. NotOlder(lastSig, Signature) /\ lastSig \in Readings /\ graphTime \in Nat
    BY DEF WatchInv
  <2>4. Follows(reading)'
    BY <1>1, <1>2, <2>1, <2>2, <2>3 DEF Follows, Current, NotOlder, Sig
  <2>5. NotOlder(lastSig, Signature)'
    BY <1>1, <2>1, <2>3 DEF NotOlder
  <2> QED
    BY <1>1, <2>1, <2>3, <2>4, <2>5 DEF WatchInv
<1>5. ASSUME NEW c \in Claims, LoadFile(c) PROVE WatchInv'
  <2>1. /\ wpc = "load" /\ UNCHANGED <<lastSig, shown>>
        /\ lastSig \in Readings /\ Follows(reading)
        /\ listed \subseteq Claims /\ graphTime \in Nat
        /\ NotOlder(lastSig, Signature)
    BY <1>5 DEF LoadFile, WatchInv
  <2>2. NotOlder(lastSig, Signature)'
    BY <1>1, <2>1 DEF NotOlder
  <2>3. CASE ~ Whole(c)
    <3>1. wpc' = "ended" /\ listed' = listed
      BY <1>5, <2>3 DEF LoadFile
    <3> QED
      BY <1>1, <2>1, <2>2, <3>1 DEF WatchInv
  <2>4. CASE Whole(c)
    <3>1. /\ reading' = [reading EXCEPT !.inodes[c] = files[c].ino, !.bodies[c] = files[c].body]
          /\ listed' \subseteq Claims /\ wpc' = "load" /\ inPlace' = inPlace \ {c}
      BY <1>5, <2>1, <2>4 DEF LoadFile
    <3>2. files[c].ino \in Nat /\ files[c].body \in Attestation \cup {None, Torn}
      BY DEF WatchInv, StoreInv, Files
    <3>3. reading \in Prints
      BY <2>1 DEF Follows
    <3>4. /\ reading' \in Prints
          /\ reading'.inodes = [reading.inodes EXCEPT ![c] = files[c].ino]
          /\ reading'.bodies = [reading.bodies EXCEPT ![c] = files[c].body]
          /\ reading'.time = reading.time /\ reading'.stmt = reading.stmt
      BY <3>1, <3>2, <3>3 DEF Prints
    <3>5. /\ reading'.inodes[c] = files[c].ino /\ reading'.bodies[c] = files[c].body
          /\ \A d \in Claims \ {c} : /\ reading'.inodes[d] = reading.inodes[d]
                                     /\ reading'.bodies[d] = reading.bodies[d]
      BY <3>3, <3>4 DEF Prints
    <3>6. /\ Sig(reading)[1] = reading.inodes /\ Sig(reading)[2] = reading.time
          /\ Sig(reading')[1] = reading'.inodes /\ Sig(reading')[2] = reading'.time
      BY <3>3, <3>4, SigTyped
    <3>7. NotOlder(lastSig, Sig(reading')) /\ NotOlder(Sig(reading'), Signature)
      BY <1>2, <2>1, <3>2, <3>4, <3>5, <3>6 DEF Follows, NotOlder
    <3>8. Current(reading)'
      BY <1>1, <2>1, <3>1, <3>4, <3>5 DEF Follows, Current
    <3>9. Follows(reading)'
      BY <1>1, <2>1, <3>4, <3>7, <3>8 DEF Follows, NotOlder, Sig
    <3> QED
      BY <1>1, <2>1, <2>2, <3>1, <3>9 DEF WatchInv
  <2> QED
    BY <2>3, <2>4
<1>6. CASE Display
  <2>1. /\ wpc = "load" /\ wpc' = "sleep" /\ shown' = reading /\ lastSig' = lastSig
        /\ UNCHANGED <<listed, reading, inPlace>>
    BY <1>6 DEF Display, Kept
  <2>2. Follows(reading)
    BY <2>1 DEF WatchInv
  <2>3. Follows(shown)'
    BY <1>1, <2>1, <2>2 DEF Follows, Current, NotOlder, Sig
  <2> QED
    BY <1>1, <2>1, <2>3 DEF WatchInv, NotOlder
<1> QED
  BY <1>3, <1>4, <1>5, <1>6 DEF WatchStep

\* While the watch sleeps on an unchanged signature, its last print showed each
\* attestation as it is now, unless that file was filled in place since, and the
\* graph as it is now, if config.json names a graph source: whatever the other
\* commands did before, during and after the print (cmdStatusWatch).
THEOREM WatchShowsCurrent == WatchSpec => []ShownIsCurrent
<1>1. WatchInv /\ [WatchNext]_watchVars => WatchInv'
  <2> SUFFICES ASSUME WatchInv, [WatchNext]_watchVars PROVE WatchInv'
    OBVIOUS
  <2>1. CASE UNCHANGED watchVars
    <3>1. /\ StoreInv'
          /\ UNCHANGED <<store, graphTime, wpc, lastSig, listed, reading, shown, inPlace>>
      BY <2>1, StoreStep DEF watchVars, watch, WatchInv
    <3>2. Signature' = Signature /\ files' = files /\ stmt' = stmt
      BY <3>1 DEF Signature, store
    <3>3. Follows(reading)' <=> Follows(reading)
      BY <3>1, <3>2 DEF Follows, Current, NotOlder, Sig
    <3>4. Follows(shown)' <=> Follows(shown)
      BY <3>1, <3>2 DEF Follows, Current, NotOlder, Sig
    <3> QED
      BY <3>1, <3>2, <3>3, <3>4 DEF WatchInv, NotOlder
  <2> QED
    BY <2>1, WatchKeeps, OthersOnlyGrow DEF WatchNext
<1>2. WatchInv => ShownIsCurrent
  <2> SUFFICES ASSUME WatchInv, wpc = "sleep", Signature = lastSig
               PROVE  /\ \A c \in Claims : shown.bodies[c] = files[c].body \/ c \in inPlace
                      /\ GraphNamed => shown.stmt = stmt
    BY DEF ShownIsCurrent
  <2>1. /\ Signature \in Readings /\ Signature[2] = graphTime
        /\ \A c \in Claims : Signature[1][c] = files[c].ino
    BY SignatureTyped DEF WatchInv
  <2>2. Follows(shown)
    BY DEF WatchInv
  <2>3. Sig(shown) \in Readings /\ Sig(shown)[1] = shown.inodes /\ Sig(shown)[2] = shown.time
    BY <2>2, SigTyped DEF Follows
  <2>4. Sig(shown) = Signature
    BY <2>1, <2>2, <2>3, NotOlderBothWays DEF Follows
  <2> QED
    BY <2>1, <2>2, <2>3, <2>4 DEF Follows, Current
<1> QED
  BY <1>1, <1>2, WatchInitially, PTL DEF WatchSpec

=============================================================================
