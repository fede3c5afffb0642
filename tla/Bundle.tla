-------------------------------- MODULE Bundle --------------------------------
(***************************************************************************)
(* Release bundles: `proofctl bundle create' copies the project into a     *)
(* directory, file by file, and writes a manifest of digests last;         *)
(* `proofctl bundle verify' and `proofverify bundle.verify' read it.       *)
(*                                                                         *)
(* While files are copied other commands go on writing the project.  The   *)
(* directory is not emptied first, two creates may use it at once, copies  *)
(* may fail (create goes on without the file) and a create may die.        *)
(*                                                                         *)
(* A digest is represented by the content it is of.                        *)
(***************************************************************************)
EXTENDS Integers, FiniteSets, Sequences, Derive

CONSTANTS
  Claims,     \* claims that may be attested
  Order,      \* a sequence of the claims: directories are listed in this order
  Targets,    \* claims that a policy may name as its target
  NoClaim,    \* the root of a manifest made without a policy
  Creators,   \* processes that run bundle create
  MaxEdits,   \* bound: changes to the project
  MaxFaults   \* bound: copies that fail and creates that die

ASSUME NoClaimAssumption == NoClaim \notin Claims
ASSUME OrderAssumption == Order \in [1..Cardinality(Claims) -> Claims] /\ {Order[i] : i \in DOMAIN Order} = Claims
ASSUME TargetsAssumption == Targets \subseteq Claims
ASSUME NamesAssumption == {"graph", "policy", "contract"} \cap Claims = {}
ASSUME BoundsAssumption == MaxEdits \in Nat /\ MaxFaults \in Nat

\* The files of project and bundle, each attestation under its claim's name.
\* One contract stands for the contracts of the weil domain.
Paths == {"graph", "policy", "contract"} \cup Claims

NoFiles == [p \in Paths |-> "absent"]

\* The files in the order in which they are copied, listed and checked.
Sequence == <<"graph", "policy">> \o Order \o <<"contract">>
Position(p) == CHOOSE i \in DOMAIN Sequence : Sequence[i] = p

\* p is the first of S.
First(p, S) == p \in S /\ \A q \in S : Position(p) <= Position(q)

\* Attestations: obligations all passed, one failed, none listed (protocol
\* version 1, and replay --batch), or text that does not decode.
Attested == {"pass", "fail", "bare", "torn"}

\* What a file may hold in the project; a policy is represented by its target.
Contents(p) ==
  CASE p \in Claims -> Attested \cup {"absent"}
    [] p = "policy" -> Targets \cup {"absent"}
    [] OTHER        -> {"one"}

AnyContent == (UNION {Contents(p) : p \in Paths}) \cup {"absent", "torn"}

VARIABLES
  project,    \* content of the project's files
  dir,        \* content of the files in the bundle directory
  manifest,   \* the bundle's manifest.json
  cpc,        \* where each create stands
  todo,       \* files it still has to copy in this phase
  members,    \* files it has copied, with their digests
  root,       \* root claim it found
  vpc,        \* where the verification stands
  tool,       \* "proofverify" or "proofctl"
  mf,         \* the manifest it read
  left,       \* members still to check, or attestations still to read
  bad,        \* a member is missing or differs
  states,     \* claim states derived
  verdict,
  edits, faults,
  passed,     \* history: claims that had a passing attestation
  during,     \* history: contents the project had while each create ran
  seen,       \* history: what the member check read
  quiet,      \* history: "made" if one create ran alone and without a fault,
  found       \* and the project as it found it

vars == <<project, dir, manifest, cpc, todo, members, root, vpc, tool, mf, left, bad,
          states, verdict, edits, faults, passed, during, seen, quiet, found>>

createVars == <<dir, manifest, cpc, todo, members, root, faults>>
projectVars == <<project, edits, passed, during>>
verifyVars == <<vpc, tool, mf, left, bad, states, verdict, seen>>

\* GraphRootDigest and PolicyDigest are of the files found in the directory.
Manifest(state, r, ms, g, p) ==
  [state |-> state, root |-> r, members |-> ms, graphRoot |-> g, policy |-> p]

Files(f) == {<<p, f[p]>> : p \in {q \in Paths : f[q] # "absent"}}

Init ==
  /\ project \in {f \in [Paths -> AnyContent] : \A p \in Paths : f[p] \in Contents(p) \ {"torn"}}
  /\ project["graph"] = "one" /\ project["contract"] = "one"
  /\ dir = NoFiles
  /\ manifest = Manifest("absent", NoClaim, {}, "absent", "absent")
  /\ cpc = [c \in Creators |-> "idle"]
  /\ todo = [c \in Creators |-> {}]
  /\ members = [c \in Creators |-> {}]
  /\ root = [c \in Creators |-> NoClaim]
  /\ vpc = "idle" /\ tool = "none" /\ mf = manifest /\ left = {} /\ bad = FALSE
  /\ states = [x \in Claims |-> "none"] /\ verdict = "none"
  /\ edits = 0 /\ faults = 0
  /\ passed = {x \in Claims : project[x] = "pass"}
  /\ during = [c \in Creators |-> {}]
  /\ seen = {}
  /\ found = NoFiles /\ quiet = "nothing made"

-----------------------------------------------------------------------------
(***************************************************************************)
(* bundle create.                                                          *)
(***************************************************************************)
Active(c) == cpc[c] \notin {"idle", "done", "dead"}

Disturb == quiet' = "disturbed" /\ found' = NoFiles

\* loadProjectGraph dies if a file does not decode.
Loadable == \A x \in Claims : project[x] # "torn"

Begin(c) ==
  /\ cpc[c] = "idle"
  /\ Loadable
  /\ cpc' = [cpc EXCEPT ![c] = "first"]
  /\ todo' = [todo EXCEPT ![c] = {"graph", "policy"}]
  /\ during' = [during EXCEPT ![c] = Files(project)]
  /\ IF \A o \in Creators : cpc[o] = "idle" THEN quiet' = "making" /\ found' = project
                                           ELSE Disturb
  /\ UNCHANGED <<project, dir, manifest, members, root, edits, faults, passed, verifyVars>>

\* copyToBundleFile: read, write in place, digest what was read.  One step: a
\* file is met empty or half written only after a copy that failed or died.
Copy(c, p) ==
  /\ Active(c) /\ First(p, todo[c])
  /\ project[p] # "absent"
  /\ dir' = [dir EXCEPT ![p] = project[p]]
  /\ members' = [members EXCEPT ![c] = @ \cup {<<p, project[p]>>}]
  /\ todo' = [todo EXCEPT ![c] = @ \ {p}]
  /\ UNCHANGED <<manifest, cpc, root, faults, quiet, found, projectVars, verifyVars>>

\* The file has gone, or there is no policy: create goes on without it.
Skip(c, p) ==
  /\ Active(c) /\ First(p, todo[c])
  /\ project[p] = "absent"
  /\ todo' = [todo EXCEPT ![c] = @ \ {p}]
  /\ UNCHANGED <<dir, manifest, cpc, members, root, faults, quiet, found, projectVars, verifyVars>>

\* Reading or writing fails, the latter perhaps after the old copy was
\* emptied: create goes on as well.
CopyFails(c, p) ==
  /\ faults < MaxFaults
  /\ Active(c) /\ First(p, todo[c])
  /\ \E x \in {dir[p], "torn"} : dir' = [dir EXCEPT ![p] = x]
  /\ todo' = [todo EXCEPT ![c] = @ \ {p}]
  /\ faults' = faults + 1
  /\ Disturb
  /\ UNCHANGED <<manifest, cpc, members, root, projectVars, verifyVars>>

\* Variant: the attestations listed are those that the directory holds.
MutListedAttestations == {x \in Claims : dir[x] # "absent"}
ListedAttestations == {x \in Claims : project[x] # "absent"}

\* After graph and policy: the attestations as listed now, and the contracts.
ListFiles(c) ==
  /\ cpc[c] = "first" /\ todo[c] = {}
  /\ cpc' = [cpc EXCEPT ![c] = "rest"]
  /\ todo' = [todo EXCEPT ![c] = ListedAttestations \cup {"contract"}]
  /\ UNCHANGED <<dir, manifest, members, root, faults, quiet, found, projectVars, verifyVars>>

\* The target is read again, from the project's policy.
FindRoot(c) ==
  /\ cpc[c] = "rest" /\ todo[c] = {}
  /\ cpc' = [cpc EXCEPT ![c] = "manifest"]
  /\ root' = [root EXCEPT ![c] = IF project["policy"] = "absent" THEN NoClaim ELSE project["policy"]]
  /\ UNCHANGED <<dir, manifest, todo, members, faults, quiet, found, projectVars, verifyVars>>

\* Variant: the digests are those of the files found in the directory when
\* the manifest is written.
MutListed(c) == {m \in Files(dir) : m[1] \in {n[1] : n \in members[c]}}

Listed(c) == members[c]

WriteManifest(c) ==
  /\ cpc[c] = "manifest"
  /\ manifest' = Manifest("whole", root[c], Listed(c), dir["graph"], dir["policy"])
  /\ cpc' = [cpc EXCEPT ![c] = "done"]
  /\ quiet' = IF quiet = "making" THEN "made" ELSE quiet
  /\ UNCHANGED <<dir, todo, members, root, faults, found, projectVars, verifyVars>>

\* A create dies: while copying a file, or while writing the manifest, it
\* leaves that file emptied.
Die(c) ==
  /\ faults < MaxFaults
  /\ Active(c)
  /\ faults' = faults + 1
  /\ cpc' = [cpc EXCEPT ![c] = "dead"]
  /\ \/ UNCHANGED <<dir, manifest>>
     \/ /\ \E p \in todo[c] : First(p, todo[c]) /\ dir' = [dir EXCEPT ![p] = "torn"]
        /\ UNCHANGED manifest
     \/ cpc[c] = "manifest" /\ manifest' = Manifest("torn", NoClaim, {}, "absent", "absent") /\ UNCHANGED dir
  /\ Disturb
  /\ UNCHANGED <<todo, members, root, projectVars, verifyVars>>

Create(c) ==
  \/ Begin(c) \/ ListFiles(c) \/ FindRoot(c) \/ WriteManifest(c) \/ Die(c)
  \/ \E p \in todo[c] : Copy(c, p) \/ Skip(c, p) \/ CopyFails(c, p)

-----------------------------------------------------------------------------
\* Another command writes a file of the project; a policy stays.
Edit(p, x) ==
  /\ edits < MaxEdits
  /\ x \in Contents(p) /\ x # project[p]
  /\ project' = [project EXCEPT ![p] = x]
  /\ edits' = edits + 1
  /\ passed' = IF x = "pass" THEN passed \cup {p} ELSE passed
  /\ during' = [c \in Creators |-> IF Active(c) THEN during[c] \cup Files(project') ELSE during[c]]
  /\ IF quiet = "making" THEN Disturb ELSE UNCHANGED <<quiet, found>>
  /\ UNCHANGED <<createVars, verifyVars>>

-----------------------------------------------------------------------------
(***************************************************************************)
(* Verification.                                                           *)
(***************************************************************************)
\* Both tools check the members alike: which of the two runs is chosen after.
BeginVerify ==
  /\ vpc = "idle"
  /\ manifest.state # "absent"
  /\ mf' = manifest
  /\ left' = manifest.members
  /\ IF manifest.state = "whole" THEN vpc' = "members" /\ UNCHANGED verdict
                                 ELSE vpc' = "done" /\ verdict' = "error"
  /\ IF \E c \in Creators : Active(c) THEN Disturb ELSE UNCHANGED <<quiet, found>>
  /\ UNCHANGED <<createVars, projectVars, tool, bad, states, seen>>

Intact(m) == dir[m[1]] = m[2]

CheckMember(m) ==
  /\ vpc = "members" /\ m \in left /\ First(m[1], {n[1] : n \in left})
  /\ left' = left \ {m}
  /\ bad' = (bad \/ ~ Intact(m))
  /\ seen' = seen \cup {<<m[1], dir[m[1]]>>}
  /\ UNCHANGED <<createVars, projectVars, vpc, tool, mf, states, verdict, quiet, found>>

Conclude(v) == vpc' = "done" /\ verdict' = v

\* All members are checked: proofctl concludes; proofverify lists the
\* directory's attestations, whether they are members or not.
MembersDone(t) ==
  /\ vpc = "members" /\ left = {}
  /\ tool' = t
  /\ IF bad THEN Conclude("blocked") /\ UNCHANGED left
     ELSE IF t = "proofctl"
       THEN Conclude(IF mf.root = NoClaim THEN "blocked" ELSE "released") /\ UNCHANGED left
       ELSE /\ vpc' = "derive" /\ left' = {x \in Claims : dir[x] # "absent"}
            /\ UNCHANGED verdict
  /\ UNCHANGED <<createVars, projectVars, mf, bad, states, seen, quiet, found>>

\* proofverify compares the identity of an attestation with itself, takes the
\* evidence for present, and gives neither dependencies nor runtime class.
InputOf(x) ==
  [attested |-> "digest", current |-> "digest", evidence |-> "present",
   obligations |-> IF dir[x] = "bare" THEN "absent" ELSE dir[x],
   dep |-> [d \in {} |-> "OPEN"], required |-> [d \in {} |-> "OPEN"],
   replay |-> FALSE, root |-> FALSE, signed |-> FALSE, runtime |-> ""]

DeriveState(x) ==
  /\ vpc = "derive" /\ First(x, left)
  /\ left' = left \ {x}
  /\ states' = IF dir[x] \in {"torn", "absent"} THEN states
               ELSE [states EXCEPT ![x] = DeriveClaimState(InputOf(x))]
  /\ UNCHANGED <<createVars, projectVars, vpc, tool, mf, bad, verdict, seen, quiet, found>>

Releasable == {"GLOBALLY_VERIFIED", "REPRODUCIBLE", "RELEASED"}

DeriveDone ==
  /\ vpc = "derive" /\ left = {}
  /\ Conclude(IF mf.root \in Claims /\ states[mf.root] \in Releasable THEN "released" ELSE "blocked")
  /\ UNCHANGED <<createVars, projectVars, tool, mf, left, bad, states, seen, quiet, found>>

Verify ==
  \/ BeginVerify
  \/ \E m \in left : CheckMember(m)
  \/ \E t \in {"proofverify", "proofctl"} : MembersDone(t)
  \/ \E x \in Claims : DeriveState(x)
  \/ DeriveDone

Next ==
  \/ \E c \in Creators : Create(c)
  \/ \E p \in Paths, x \in AnyContent : Edit(p, x)
  \/ Verify

Spec == Init /\ [][Next]_vars

-----------------------------------------------------------------------------
TypeOK ==
  /\ \A p \in Paths : project[p] \in Contents(p)
  /\ \A p \in Paths : dir[p] \in Contents(p) \cup {"absent", "torn"}
  /\ manifest.state \in {"absent", "torn", "whole"} /\ mf.state \in {"absent", "torn", "whole"}
  /\ \A c \in Creators :
       /\ cpc[c] \in {"idle", "first", "rest", "manifest", "done", "dead"}
       /\ todo[c] \subseteq Paths /\ root[c] \in Claims \cup {NoClaim}
       /\ \A m \in members[c] : m[1] \in Paths /\ m[2] \in Contents(m[1])
  /\ vpc \in {"idle", "members", "derive", "done"}
  /\ \A x \in Claims : states[x] \in ClaimStates \cup {"none"}
  /\ verdict \in {"none", "error", "blocked", "released"}
  /\ edits \in 0..MaxEdits /\ faults \in 0..MaxFaults

\* A bundle is called released only if each member was read as its digest
\* says and the manifest names a root; by proofverify only if, besides, the
\* project once held an attestation of the root all of whose obligations
\* passed: whatever creates overlapped, failed, died or left behind
\* (proofverify/main.go:121-141, 206-262; cmd_bundle.go:240-250).
ReleasedRests ==
  verdict = "released" =>
    /\ mf.members \subseteq seen /\ mf.root \in Claims
    /\ tool = "proofverify" => mf.root \in passed

\* A manifest lists nothing but files that the project held, with the content
\* listed, while one create ran that has written its manifest: not what
\* another create or an earlier one left in the directory
\* (cmd_bundle.go:81-130, 155-164, 278-288).
ManifestHonest ==
  manifest.state = "whole" =>
    \E c \in Creators : cpc[c] = "done" /\ manifest.members \subseteq during[c]

\* A create that ran alone, into an empty directory and without a fault or a
\* change of the project makes a bundle that says what the project said: its
\* manifest lists all the files, with their contents, and names the policy's
\* target as the root; and a verification finds no member missing or different,
\* whatever has become of the project since (cmd_bundle.go:60-211,
\* proofverify/main.go:121-141).
FreshBundleExact ==
  quiet = "made" =>
    LET r == IF found["policy"] = "absent" THEN NoClaim ELSE found["policy"]
    IN /\ manifest = Manifest("whole", r, Files(found), found["graph"], found["policy"])
       /\ ~ bad

=============================================================================
