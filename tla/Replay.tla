-------------------------------- MODULE Replay --------------------------------
(***************************************************************************)
(* proofctl replay: regenerate the certificates a claim rests on, compare  *)
(* their digests, run a checker on each, and attest the claim.  One claim  *)
(* with options on the command line (cmdReplay), or a manifest of entries  *)
(* whose claims share their certificates (cmdReplayBatch).                 *)
(*                                                                         *)
(* The two differ in more than their input: cmdReplay takes the items one  *)
(* by one and goes on after a failure, hashes before it checks and dies of *)
(* what it cannot read; the batch generates everything first, stops an     *)
(* entry at its first failing generator, checks before it hashes, and      *)
(* reads nothing as a digest that matches no evidence.                     *)
(*                                                                         *)
(* Generators, checkers and whoever else writes to the certificates and to *)
(* the attestations are the environment.  The attestation file is written  *)
(* in one step here; Attestations has its torn states.                     *)
(***************************************************************************)
EXTENDS Integers, Sequences, Functions

CONSTANTS
  Claims,       \* claim IDs
  Evidence,     \* evidence digests
  Jobs,         \* invocations examined, see JobType
  Stores,       \* attestation files there may be at first
  Hints,        \* contents of the files that the path_hints name
  MaxMeddling   \* bound: changes by others

EntryType ==
  [claims   : Seq(Claims),
   evidence : Seq(Evidence),
   semantic : BOOLEAN,        \* a checker's consent is enough
   sound    : BOOLEAN]        \* batch: one generator each, and a checker

JobType ==
  [form    : {"single", "batch"},
   entries : Seq(EntryType),
   skip    : BOOLEAN,         \* --skip-if-accepted
   reuse   : BOOLEAN,         \* single: --reuse-generated
   dry     : BOOLEAN,         \* single: --dry-run
   json    : BOOLEAN]         \* --json

ASSUME JobsAssumption ==
  /\ Jobs \subseteq JobType
  /\ \A j \in Jobs :
       j.form = "single" => /\ Len(j.entries) = 1
                            /\ Len(j.entries[1].claims) = 1
                            /\ j.entries[1].evidence # <<>>
                            /\ j.entries[1].sound
ASSUME MeddlingAssumption == MaxMeddling \in Nat

\* A certificate file, compared with the digest it should have.
Contents == {"right", "wrong", "absent"}

\* What is known of an attestation file: outcome and freshness.
None == [outcome |-> "none", start |-> FALSE, end |-> FALSE]
Attested == [outcome |-> "accepted", start |-> TRUE, end |-> TRUE]
Attestations ==
  {None, Attested,
   [outcome |-> "accepted", start |-> TRUE, end |-> FALSE],  \* attest --fresh
   [outcome |-> "rejected", start |-> TRUE, end |-> TRUE]}

ASSUME FilesAssumption ==
  Stores \subseteq [Claims -> Attestations] /\ Hints \subseteq [Evidence -> Contents]

VARIABLES
  job,       \* the invocation
  store,     \* attestation files
  loaded,    \* what loadProjectGraph read
  cas,       \* digests in the store; "stray" stands for any other
  hints,     \* content of the file a path_hint names
  pc,
  e, i,      \* entry and item at work
  pending,   \* the claims of the entry still to be attested: places in its list
  certs,     \* certificate files of the entry
  results,   \* results of its items
  failed,    \* claims reported as failed
  partial,   \* a debug record was left
  code,      \* exit status
  meddling,  \* changes by others so far
  wrote      \* history: attestations written, with the results they rest on

vars == <<job, store, loaded, cas, hints, pc, e, i, pending, certs, results,
          failed, partial, code, meddling, wrote>>

single == job.form = "single"
entry == job.entries[e]
Items == DOMAIN entry.evidence

NoResult == [made |-> FALSE, hashed |-> "none", exit |-> "none", judged |-> "none", moved |-> FALSE]

Init ==
  /\ job \in Jobs
  /\ store \in Stores
  /\ loaded = [c \in Claims |-> None]
  /\ cas = {}
  /\ hints \in Hints
  /\ pc = "load"
  /\ e = 1 /\ i = 1
  /\ pending = {} /\ certs = <<>> /\ results = <<>>
  /\ failed = {} /\ partial = FALSE /\ code = 0
  /\ meddling = 0 /\ wrote = {}

-----------------------------------------------------------------------------
keep == UNCHANGED <<job, hints, meddling>>
keepFiles == UNCHANGED <<store, cas, partial, wrote>>

Die ==
  /\ pc' = "done" /\ code' = 1
  /\ UNCHANGED <<loaded, e, i, pending, certs, results, failed>>

\* --skip-if-accepted; the batch asks for one date only.
Skippable(c) ==
  /\ job.skip
  /\ loaded[c].outcome = "accepted" /\ loaded[c].start
  /\ single => loaded[c].end

Load ==
  /\ pc = "load"
  /\ loaded' = store
  /\ pc' = "entry"
  /\ keep /\ keepFiles
  /\ UNCHANGED <<e, i, pending, certs, results, failed, code>>

Begin ==
  /\ pending' = {k \in DOMAIN entry.claims : ~ Skippable(entry.claims[k])}
  /\ certs' = [k \in Items |-> "absent"]
  /\ results' = [k \in Items |-> NoResult]
  /\ i' = 1
  /\ IF pending' = {}
       THEN e' = e + 1 /\ UNCHANGED pc
       ELSE /\ pc' = IF Items = {} THEN "judge" ELSE "generate"
            /\ UNCHANGED e
  /\ UNCHANGED <<loaded, failed, code>>

\* Entries are looked at one after the other: an unsound one ends the run
\* when those before it have been attested.
BeginEntry ==
  /\ pc = "entry" /\ e <= Len(job.entries)
  /\ ~ job.dry
  /\ IF entry.sound \/ entry.claims = <<>> THEN Begin ELSE Die
  /\ keep /\ keepFiles

\* --dry-run: is the evidence in the store, can the checker be found?  The
\* run itself asks neither.
DryRun ==
  /\ pc = "entry" /\ e <= Len(job.entries)
  /\ job.dry
  /\ pc' = "done"
  /\ \E resolvable \in BOOLEAN :
       code' = IF \/ job.json \/ Skippable(entry.claims[1])
                  \/ resolvable /\ Range(entry.evidence) \subseteq cas
               THEN 0 ELSE 1
  /\ keep /\ keepFiles
  /\ UNCHANGED <<loaded, e, i, pending, certs, results, failed>>

-----------------------------------------------------------------------------
\* autoImportFromPathHint: the hinted file is stored under the digest it has.
Imported(d) ==
  IF d \in cas \/ hints[d] = "absent" THEN cas
  ELSE cas \cup {IF hints[d] = "right" THEN d ELSE "stray"}

\* Where the run goes when item i is over, or its generator has failed.
AfterItem == IF i < Len(entry.evidence) THEN "generate" ELSE "judge"
AfterFailure == IF single THEN AfterItem ELSE "giveUp"

\* With --reuse-generated a copy of an existing file stands for the generator.
Generate(content) ==
  /\ pc = "generate"
  /\ certs' = [certs EXCEPT ![i] = content]
  /\ results' = [results EXCEPT ![i] = [@ EXCEPT !.made = ~ job.reuse]]
  /\ IF single
       THEN pc' = "hash" /\ UNCHANGED i
       ELSE IF i < Len(entry.evidence)
         THEN i' = i + 1 /\ UNCHANGED pc
         ELSE i' = 1 /\ pc' = "check"
  /\ cas' = Imported(entry.evidence[i])
  /\ keep /\ UNCHANGED <<store, partial, wrote, loaded, e, pending, failed, code>>

GeneratorFails ==
  /\ pc = "generate"
  /\ pc' = AfterFailure
  /\ i' = i + 1
  /\ cas' = Imported(entry.evidence[i])
  /\ keep /\ UNCHANGED <<store, partial, wrote, loaded, e, pending, certs, results, failed, code>>

\* cmdReplay: hash, then check.  The batch: check, then hash.
Hash ==
  /\ pc = "hash"
  /\ IF single /\ certs[i] = "absent"
       THEN Die
       ELSE /\ results' = [results EXCEPT ![i] = [@ EXCEPT !.hashed = certs[i]]]
            /\ IF single THEN pc' = "check" /\ UNCHANGED i
               ELSE pc' = (IF i < Len(entry.evidence) THEN "check" ELSE "judge") /\ i' = i + 1
            /\ UNCHANGED <<loaded, e, pending, certs, failed, code>>
  /\ keep /\ keepFiles

\* Variant: the checker always reads the first certificate.
MutCertOf(k) == certs[1]
CertOf(k) == certs[k]

\* The checker's exit status.  One that could not be started has none, and
\* the variable keeps the 0 it was declared with.
Check(exit) ==
  /\ pc = "check"
  /\ results' = [results EXCEPT ![i] = [@ EXCEPT !.exit = exit, !.judged = CertOf(i)]]
  /\ IF single THEN pc' = AfterItem /\ i' = i + 1
               ELSE pc' = "hash" /\ UNCHANGED i
  /\ keep /\ keepFiles
  /\ UNCHANGED <<loaded, e, pending, certs, failed, code>>

-----------------------------------------------------------------------------
\* Variant: anything that was hashed matches.
MutDigestMatch(r) == r.hashed # "none"

DigestMatch(r) == r.hashed = "right" \/ (r.hashed # "none" /\ entry.semantic)

Pass(r) == DigestMatch(r) /\ r.exit \in {"zero", "unstarted"}

AllPass == \A k \in Items : Pass(results[k])

Judge ==
  /\ pc = "judge"
  /\ pc' = IF AllPass THEN "write" ELSE "giveUp"
  /\ keep /\ keepFiles
  /\ UNCHANGED <<loaded, e, i, pending, certs, results, failed, code>>

\* No attestation: the claims not skipped are reported as failed.
GiveUp ==
  /\ pc = "giveUp"
  /\ failed' = failed \cup {entry.claims[k] : k \in pending}
  /\ partial' = (partial \/ single)
  /\ pending' = {}
  /\ e' = e + 1 /\ pc' = "entry"
  /\ keep /\ UNCHANGED <<store, cas, wrote, loaded, i, certs, results, code>>

\* The claims are attested in the order of the entry.
First(k) == k \in pending /\ \A l \in pending : k <= l

\* One attestation per pending claim.
Write ==
  /\ pc = "write"
  /\ \E k \in pending :
       LET c == entry.claims[k]
       IN  /\ First(k)
           /\ store' = [store EXCEPT ![c] = Attested]
           /\ wrote' = wrote \cup {[claim |-> c, semantic |-> entry.semantic, items |-> results]}
           /\ pending' = pending \ {k}
  /\ keep /\ UNCHANGED <<cas, partial, loaded, pc, e, i, certs, results, failed, code>>

\* Variant: a failed write is not counted.
MutNotWritten(c) == failed
NotWritten(c) == failed \cup {c}

WriteFails ==
  /\ pc = "write" /\ pending # {}
  /\ IF single THEN Die
     ELSE /\ \E k \in pending :
               First(k) /\ failed' = NotWritten(entry.claims[k]) /\ pending' = pending \ {k}
          /\ UNCHANGED <<loaded, pc, e, i, certs, results, code>>
  /\ keep /\ keepFiles

Written ==
  /\ pc = "write" /\ pending = {}
  /\ e' = e + 1 /\ pc' = "entry"
  /\ keep /\ keepFiles
  /\ UNCHANGED <<loaded, i, pending, certs, results, failed, code>>

\* With --json cmdReplay exits with 0 whatever came out.
ExitCode == IF failed = {} \/ (single /\ job.json) THEN 0 ELSE 1

Finish ==
  /\ pc = "entry" /\ e > Len(job.entries)
  /\ pc' = "done"
  /\ code' = ExitCode
  /\ keep /\ keepFiles
  /\ UNCHANGED <<loaded, e, i, pending, certs, results, failed>>

ReplayStep ==
  \/ Load \/ BeginEntry \/ DryRun
  \/ \E content \in Contents : Generate(content)
  \/ GeneratorFails
  \/ Hash
  \/ \E exit \in {"zero", "nonzero", "unstarted"} : Check(exit)
  \/ Judge \/ GiveUp \/ Write \/ WriteFails \/ Written \/ Finish

-----------------------------------------------------------------------------
others == UNCHANGED <<job, loaded, cas, hints, pc, e, i, pending, failed, partial, code, wrote>>

\* A process a generator left behind, or the owner of --cert-out, writes to a
\* certificate.
Tamper(k, content) ==
  /\ meddling < MaxMeddling /\ pc \in {"generate", "hash", "check"}
  /\ k \in DOMAIN certs /\ certs[k] # content
  /\ certs' = [certs EXCEPT ![k] = content]
  /\ results' = [results EXCEPT ![k] = [@ EXCEPT !.moved = TRUE]]
  /\ meddling' = meddling + 1
  /\ UNCHANGED store /\ others

\* Another command writes or removes an attestation.
Other(c, att) ==
  /\ meddling < MaxMeddling /\ pc # "done"
  /\ store[c] # att
  /\ store' = [store EXCEPT ![c] = att]
  /\ meddling' = meddling + 1
  /\ UNCHANGED <<certs, results>> /\ others

Next ==
  \/ ReplayStep
  \/ \E k \in DOMAIN certs, content \in Contents : Tamper(k, content)
  \/ \E c \in Claims, att \in Attestations : Other(c, att)

Spec == Init /\ [][Next]_vars

-----------------------------------------------------------------------------
ResultType ==
  [made : BOOLEAN, hashed : Contents \cup {"none"}, exit : {"zero", "nonzero", "unstarted", "none"},
   judged : Contents \cup {"none"}, moved : BOOLEAN]

TypeOK ==
  /\ job \in Jobs
  /\ store \in [Claims -> Attestations] /\ loaded \in [Claims -> Attestations]
  /\ cas \subseteq Evidence \cup {"stray"}
  /\ hints \in Hints
  /\ pc \in {"load", "entry", "generate", "hash", "check", "judge", "giveUp", "write", "done"}
  /\ e \in 1 .. Len(job.entries) + 1
  /\ i \in Nat
  /\ pending \subseteq Nat
  /\ certs \in Seq(Contents) /\ results \in Seq(ResultType)
  /\ failed \subseteq Claims
  /\ partial \in BOOLEAN
  /\ code \in {0, 1}
  /\ meddling \in 0 .. MaxMeddling
  /\ \A w \in wrote :
       w.claim \in Claims /\ w.semantic \in BOOLEAN /\ w.items \in Seq(ResultType)

\* An attestation that replay writes rests on items each of which was
\* generated by this run (or copied, when that was asked for), was hashed to
\* its digest unless --semantic was given, and was not refused by the checker
\* (cmd_replay.go:76).
AcceptedMeansReplayed ==
  \A w \in wrote : \A k \in DOMAIN w.items :
    LET r == w.items[k]
    IN  /\ r.made \/ job.reuse
        /\ r.hashed = "right" \/ w.semantic
        /\ r.exit \in {"zero", "unstarted"}

\* Digest and verdict are about the same bytes, except where somebody else
\* wrote to the certificate between the two readings.
SameCertificate ==
  \A w \in wrote : \A k \in DOMAIN w.items :
    w.items[k].hashed = w.items[k].judged \/ w.items[k].moved

\* Exit status 0 (but for a single claim with --json, and for --dry-run)
\* means that every claim named was attested by this run or was accepted when
\* it began, whatever failed in between; 1 means that something failed.
ExitTells ==
  (pc = "done" /\ ~ job.dry /\ ~ (single /\ job.json)) =>
    /\ code = 0 =>
         \A n \in DOMAIN job.entries : \A c \in Range(job.entries[n].claims) :
           \/ \E w \in wrote : w.claim = c
           \/ job.skip /\ loaded[c].outcome = "accepted"
    /\ failed # {} => code = 1

-----------------------------------------------------------------------------
\* What the documentation says (cmd_replay.go:70-76: "Run checker"; "A single
\* attestation is written only when ALL items pass"), and the code does not
\* do: a checker passed every item of what is attested.
CheckerRan ==
  \A w \in wrote : \A k \in DOMAIN w.items : w.items[k].exit = "zero"

=============================================================================
