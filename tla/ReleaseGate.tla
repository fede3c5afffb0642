---------------------------- MODULE ReleaseGate -----------------------------
(***************************************************************************)
(* The release command: processes that load the attestation files one by   *)
(* one, pass or block what they have loaded (gate.check) and write         *)
(* STATUS.json, release-snapshot.json and release-manifest.json, while the *)
(* commands of module Attestations write the same files.                   *)
(*                                                                         *)
(* A file that a release writes is replaced as a whole, and is represented *)
(* by who wrote it.  The variable `was` is not in the code: it recalls     *)
(* what has been on disk while a release was at work.                      *)
(***************************************************************************)
EXTENDS Attestations

CONSTANTS
  Releases,   \* release processes; each runs once
  Required,   \* policy.required_claims
  Allowed,    \* policy.allowed_assurances; {} when there is no such list
  Forbidden,  \* policy.forbidden_assurances
  ReplayMode, \* policy.required_replay_mode; "" when there is none
  Enforced    \* the other conditions the policy switches on

ASSUME PolicyAssumption == Required \subseteq Claims
ASSUME ReleasesAssumption == None \notin Releases

VARIABLES
  at,        \* where each release stands
  todo,      \* claims whose files it has listed and not loaded yet
  loaded,    \* what it has loaded
  status,    \* STATUS.json: [released, by]
  snapshot,  \* who wrote release-snapshot.json
  manifest,  \* who wrote release-manifest.json
  was        \* claims that have been well attested on disk during the release

gate == <<at, todo, loaded, status, snapshot, manifest>>
vars == <<store, gate, was>>

-----------------------------------------------------------------------------
(***************************************************************************)
(* gate.check, of loaded attestations l.                                   *)
(***************************************************************************)
Loaded(l) == {c \in Claims : l[c] # None}

NoLegacy(l) == \A c \in Loaded(l) : l[c].v2

\* A variant of AcceptedNow: the outcome is believed.
MutAcceptedNow(a) == a.outcome = "accepted"

\* status.deriveStatus, attestationAccepted
AcceptedNow(a) == IF a.v2 THEN a.results = "pass" ELSE a.outcome = "accepted"

\* policy.Evaluate
PolicyHolds(l) == \A c \in Required : l[c] # None /\ l[c].outcome = "accepted"

C01(l) == \A c \in Claims : l[c] # None /\ AcceptedNow(l[c])
C02(l) == \A c \in Loaded(l) : l[c].assurance # "assumption"
C03(l) ==
  \A c \in Loaded(l) : l[c].assurance # "" =>
    l[c].assurance \notin Forbidden /\ (Allowed # {} => l[c].assurance \in Allowed)
C04(l) == \A c \in Machine : l[c] # None /\ l[c].dated
C08(l) ==
  ReplayMode # "" => \A c \in Loaded(l) : l[c].mode \in {"", ReplayMode}


\* The attestation claims to be a computation done again.
Recomputed(a) ==
  a.mode = "from_scratch" \/ a.assurance \in {"reproducible-computation", "exact-replay"}

\* Some attestation carries the mark.
Somewhere(l, mark) == \E c \in Loaded(l) : mark \in l[c].marks

C05(l) == \A c \in Loaded(l) : "signed" \in l[c].marks
C06(l) == \A c \in Loaded(l) : "odd" \notin l[c].marks
C07(l) == Somewhere(l, "trigger") => Somewhere(l, "bound")
C09(l) == \A c \in Loaded(l) : "native" \notin l[c].marks
C10(l) == \A c \in Loaded(l) : Recomputed(l[c]) => "copies" \notin l[c].marks
C11(l) == \A c \in Loaded(l) : Recomputed(l[c]) => "killed" \in l[c].marks
Meta(l) == Somewhere(l, "keyed")

\* EvaluateConditions
Conditions(l) ==
  /\ C01(l) /\ C02(l) /\ C03(l) /\ C04(l) /\ C08(l)
  /\ "C05" \in Enforced => C05(l)
  /\ "C06" \in Enforced => C06(l)
  /\ "C07" \in Enforced => C07(l)
  /\ "C09" \in Enforced => C09(l)
  /\ "C10" \in Enforced => C10(l)
  /\ "C11" \in Enforced => C11(l)
  /\ "meta" \in Enforced => Meta(l)

Passes(l) == NoLegacy(l) /\ PolicyHolds(l) /\ Conditions(l)

-----------------------------------------------------------------------------
GateInit ==
  /\ at = [r \in Releases |-> "start"]
  /\ todo = [r \in Releases |-> {}]
  /\ loaded = [r \in Releases |-> [c \in Claims |-> None]]
  /\ status = [released |-> FALSE, by |-> None]
  /\ snapshot = None
  /\ manifest = None
  /\ was = [r \in Releases |-> {}]

Goto(r, l) == at' = [at EXCEPT ![r] = l]

Outputs == <<status, snapshot, manifest>>

\* The graph is loaded and the attestations directory listed.
Start(r) ==
  /\ at[r] = "start"
  /\ Goto(r, "load")
  /\ todo' = [todo EXCEPT ![r] = {c \in Claims : files[c].body # None}]
  /\ UNCHANGED <<store, loaded, Outputs>>

\* A variant of Load: it waits until the file is there and whole.
MutLoadWaits(r) ==
  /\ at[r] = "load"
  /\ \E c \in todo[r] :
       /\ files[c].body \notin {None, Torn}
       /\ loaded' = [loaded EXCEPT ![r][c] = files[c].body]
       /\ todo' = [todo EXCEPT ![r] = @ \ {c}]
  /\ UNCHANGED <<at, store, Outputs>>

\* A listed file that has gone, or does not decode, ends the command.
Load(r) ==
  /\ at[r] = "load"
  /\ \E c \in todo[r] :
       IF files[c].body \in {None, Torn}
         THEN Goto(r, "failed") /\ UNCHANGED <<todo, loaded>>
         ELSE /\ loaded' = [loaded EXCEPT ![r][c] = files[c].body]
              /\ todo' = [todo EXCEPT ![r] = @ \ {c}]
              /\ UNCHANGED at
  /\ UNCHANGED <<store, Outputs>>

\* A variant of AfterStatus: the manifest is written before the snapshot.
MutAfterStatus(r) == IF Passes(loaded[r]) THEN "manifest" ELSE "done"

\* A blocked release ends with STATUS.json.
AfterStatus(r) == IF Passes(loaded[r]) THEN "snapshot" ELSE "done"

\* The check, and STATUS.json whatever its result.
WriteStatus(r) ==
  /\ at[r] = "load"
  /\ todo[r] = {}
  /\ status' = [released |-> Passes(loaded[r]), by |-> r]
  /\ Goto(r, AfterStatus(r))
  /\ UNCHANGED <<store, todo, loaded, snapshot, manifest>>

WriteSnapshot(r) ==
  /\ at[r] = "snapshot"
  /\ snapshot' = r
  /\ Goto(r, "manifest")
  /\ UNCHANGED <<store, todo, loaded, status, manifest>>

WriteManifest(r) ==
  /\ at[r] = "manifest"
  /\ manifest' = r
  /\ Goto(r, "done")
  /\ UNCHANGED <<store, todo, loaded, status, snapshot>>

\* The command dies or cannot write a file.
GiveUp(r) ==
  /\ at[r] \in {"load", "snapshot", "manifest"}
  /\ Goto(r, "failed")
  /\ UNCHANGED <<store, todo, loaded, Outputs>>

ReleaseStep(r) == Load(r) \/ WriteStatus(r) \/ WriteSnapshot(r) \/ WriteManifest(r)

-----------------------------------------------------------------------------
(***************************************************************************)
(* What has been on disk.  A claim is well attested by an attestation of   *)
(* its pinned checker's protocol that passes every obligation and meets    *)
(* the policy.                                                             *)
(***************************************************************************)
Well(c, a) ==
  /\ a.v2 /\ a.results = "pass"
  /\ c \in Required => a.outcome = "accepted"
  /\ c \in Machine => a.dated
  /\ a.assurance # "assumption"
  /\ a.assurance # "" =>
       a.assurance \notin Forbidden /\ (Allowed # {} => a.assurance \in Allowed)
  /\ ReplayMode # "" => a.mode \in {"", ReplayMode}
  /\ "C05" \in Enforced => "signed" \in a.marks
  /\ "C06" \in Enforced => "odd" \notin a.marks
  /\ "C09" \in Enforced => "native" \notin a.marks
  /\ Recomputed(a) =>
       /\ "C10" \in Enforced => "copies" \notin a.marks
       /\ "C11" \in Enforced => "killed" \in a.marks

WellOnDisk == {c \in Claims : Whole(c) /\ Well(c, files[c].body)}

Recall ==
  was' = [r \in Releases |-> IF at'[r] = "load" THEN was[r] \cup WellOnDisk' ELSE was[r]]

Init == StoreInit /\ GateInit

Next ==
  /\ \/ StoreNext /\ UNCHANGED gate
     \/ \E r \in Releases : Start(r) \/ ReleaseStep(r) \/ GiveUp(r)
  /\ Recall

\* A release that has started is scheduled.  Nobody owes the start of a command
\* or the end of another one.
Fairness == \A r \in Releases : WF_vars(ReleaseStep(r) /\ Recall)

Spec == Init /\ [][Next]_vars /\ Fairness

-----------------------------------------------------------------------------
\* The variables have their types.
TypeOK ==
  /\ StoreTypeOK
  /\ at \in [Releases -> {"start", "load", "snapshot", "manifest", "done", "failed"}]
  /\ todo \in [Releases -> SUBSET Claims]
  /\ loaded \in [Releases -> [Claims -> Attestation \cup {None}]]
  /\ status \in [released : BOOLEAN, by : Releases \cup {None}]
  /\ snapshot \in Releases \cup {None}
  /\ manifest \in Releases \cup {None}
  /\ was \in [Releases -> SUBSET Claims]

\* Fail-closed: a release says "released" only when every claim has been well
\* attested on disk at some moment after it began, whatever is written, torn,
\* removed or revised meanwhile.
RestsOnDisk == status.released => was[status.by] = Claims

\* Wherever a release stops, release-manifest.json is not there without the
\* snapshot, nor the snapshot without a STATUS.json that says "released"; a
\* property of a release that has the project to itself.
OutputsInOrder ==
  \A r \in Releases :
    /\ manifest = r => snapshot = r
    /\ snapshot = r => status = [released |-> TRUE, by |-> r]

\* A release that has started ends, whatever becomes of the files it has listed.
ReleaseEnds == \A r \in Releases : at[r] = "load" ~> at[r] \in {"done", "failed"}

=============================================================================
