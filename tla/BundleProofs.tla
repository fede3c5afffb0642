---------------------------- MODULE BundleProofs ----------------------------
(***************************************************************************)
(* For any claims and any number of creates, edits and faults: a manifest  *)
(* lists only what the project held while its create ran, and a bundle     *)
(* that is called released was read intact and rests on an attestation     *)
(* that passed.                                                            *)
(***************************************************************************)
EXTENDS Bundle, TLAPS

-----------------------------------------------------------------------------
\* What a file may be found to hold.
Held == Paths \X AnyContent

Manifests ==
  [state : {"absent", "torn", "whole"}, root : Claims \cup {NoClaim},
   members : SUBSET Held, graphRoot : AnyContent, policy : AnyContent]

FilesTyped ==
  /\ project \in [Paths -> AnyContent] /\ dir \in [Paths -> AnyContent]
  /\ \A p \in Paths : project[p] \in Contents(p) /\ dir[p] \in Contents(p) \cup {"absent", "torn"}

CreatesTyped ==
  /\ cpc \in [Creators -> {"idle", "first", "rest", "manifest", "done", "dead"}]
  /\ todo \in [Creators -> SUBSET Paths]
  /\ members \in [Creators -> SUBSET Held]
  /\ \A c \in Creators : \A m \in members[c] : m[2] \in Contents(m[1])
  /\ root \in [Creators -> Claims \cup {NoClaim}]
  /\ during \in [Creators -> SUBSET Held]
  /\ manifest \in Manifests
  /\ edits \in 0 .. MaxEdits /\ faults \in 0 .. MaxFaults

VerifyTyped ==
  /\ vpc \in {"idle", "members", "derive", "done"}
  /\ mf \in Manifests
  /\ states \in [Claims -> ClaimStates \cup {"none"}]
  /\ verdict \in {"none", "error", "blocked", "released"}

\* A create has copied nothing before it begins, and only what the project held
\* since then.
Creating ==
  \A c \in Creators :
    /\ cpc[c] = "idle" => members[c] = {}
    /\ Active(c) => Files(project) \subseteq during[c]
    /\ members[c] \subseteq during[c]

\* A passing attestation, wherever it is, has been in the project.
Passing ==
  \A x \in Claims :
    project[x] = "pass" \/ dir[x] = "pass" \/ states[x] \in Releasable => x \in passed

\* What each stage of the verification has established.
Verifying ==
  /\ vpc # "done" => verdict = "none"
  /\ vpc = "members" => (bad \/ mf.members \subseteq seen \cup left)
  /\ vpc = "members" => left \subseteq mf.members
  /\ vpc = "derive" => mf.members \subseteq seen /\ tool = "proofverify"

BundleInv ==
  /\ FilesTyped /\ CreatesTyped /\ VerifyTyped
  /\ Creating /\ Passing /\ Verifying
  /\ ManifestHonest /\ ReleasedRests

-----------------------------------------------------------------------------
LEMMA ContentsOf ==
  /\ \A p \in Paths : Contents(p) \subseteq AnyContent
  /\ \A x \in Claims : x \in Paths /\ Contents(x) = Attested \cup {"absent"}
  /\ "policy" \in Paths /\ Contents("policy") = Targets \cup {"absent"}
  /\ {"absent", "torn"} \subseteq AnyContent
<1>1. \A x \in Claims : Contents(x) = Attested \cup {"absent"}
  BY NamesAssumption DEF Contents
<1>2. Contents("policy") = Targets \cup {"absent"}
  BY NamesAssumption DEF Contents
<1>3. \A p \in Paths : Contents(p) \subseteq AnyContent
  BY DEF AnyContent
<1>4. {"absent", "torn"} \subseteq AnyContent
  BY DEF AnyContent
<1>5. "policy" \in Paths /\ Claims \subseteq Paths
  BY DEF Paths
<1> QED
  BY <1>1, <1>2, <1>3, <1>4, <1>5

LEMMA FilesAreHeld ==
  ASSUME NEW f \in [Paths -> AnyContent]
  PROVE  Files(f) \subseteq Held
BY DEF Files, Held

LEMMA FileIsListed ==
  ASSUME NEW f, NEW p \in Paths, f[p] # "absent"
  PROVE  <<p, f[p]>> \in Files(f)
BY DEF Files

\* Only an attestation all of whose obligations passed is derived releasable.
LEMMA DerivedStates ==
  ASSUME NEW x, dir[x] \in {"pass", "fail", "bare"}
  PROVE  /\ DeriveClaimState(InputOf(x)) \in ClaimStates
         /\ DeriveClaimState(InputOf(x)) \in Releasable => dir[x] = "pass"
<1> DEFINE in == InputOf(x)
<1>1. /\ in.attested = in.current /\ in.evidence = "present"
      /\ in.obligations = IF dir[x] = "bare" THEN "absent" ELSE dir[x]
      /\ DOMAIN in.dep = {} /\ DOMAIN in.required = {}
  BY DEF InputOf
<1> HIDE DEF in
<1>2. ~ Stale(in)
  BY <1>1 DEF Stale
<1>3. CASE dir[x] = "fail"
  BY <1>1, <1>2, <1>3 DEF DeriveClaimState, ClaimStates, Releasable, in
<1>4. CASE dir[x] = "bare"
  BY <1>1, <1>2, <1>4 DEF DeriveClaimState, ClaimStates, Releasable, in
<1>5. CASE dir[x] = "pass"
  BY <1>1, <1>2, <1>5 DEF DeriveClaimState, ClaimStates, in
<1> QED
  BY <1>3, <1>4, <1>5

-----------------------------------------------------------------------------
LEMMA BundleInit == Init => BundleInv
<1> SUFFICES ASSUME Init PROVE BundleInv
  OBVIOUS
<1>1. FilesTyped
  BY ContentsOf DEF Init, FilesTyped, NoFiles
<1>2. manifest \in Manifests
  BY ContentsOf DEF Init, Manifest, Manifests
<1>3. CreatesTyped /\ VerifyTyped
  <2>1. \A c \in Creators : members[c] = {}
    BY DEF Init
  <2>2. edits \in 0 .. MaxEdits /\ faults \in 0 .. MaxFaults
    <3>1. edits = 0 /\ faults = 0
      BY DEF Init
    <3> QED
      BY <3>1, BoundsAssumption
  <2>3. during \in [Creators -> SUBSET Held] /\ members \in [Creators -> SUBSET Held]
    BY DEF Init
  <2>4. CreatesTyped
    BY <1>2, <2>1, <2>2, <2>3 DEF Init, CreatesTyped
  <2>5. VerifyTyped
    BY <1>2 DEF Init, VerifyTyped
  <2> QED
    BY <2>4, <2>5
<1>4. Creating
  BY DEF Init, Creating, Active
<1>5. Passing
  BY DEF Init, Passing, NoFiles, Paths, Releasable
<1>6. Verifying /\ ReleasedRests
  BY DEF Init, Verifying, ReleasedRests
<1>7. ManifestHonest
  BY DEF Init, ManifestHonest, Manifest
<1> QED
  BY <1>1, <1>3, <1>4, <1>5, <1>6, <1>7 DEF BundleInv

-----------------------------------------------------------------------------
(***************************************************************************)
(* A step of a create leaves the project and the verification alone.       *)
(***************************************************************************)
Untouched == UNCHANGED <<project, edits, passed, verifyVars>>

LEMMA VerificationStays ==
  ASSUME BundleInv, Untouched, dir' \in [Paths -> AnyContent],
         \A p \in Paths : dir'[p] = dir[p] \/ dir'[p] = project[p] \/ dir'[p] = "torn"
  PROVE  FilesTyped' /\ VerifyTyped' /\ Passing' /\ Verifying' /\ ReleasedRests'
<1> USE DEF BundleInv, Untouched, verifyVars
<1>1. FilesTyped'
  BY DEF FilesTyped, Contents
<1>2. VerifyTyped' /\ Verifying' /\ ReleasedRests'
  BY DEF VerifyTyped, Verifying, ReleasedRests, Manifests
<1>3. Passing'
  BY ContentsOf DEF Passing
<1> QED
  BY <1>1, <1>2, <1>3

LEMMA Beginning ==
  ASSUME BundleInv, NEW c \in Creators, Begin(c)
  PROVE  BundleInv'
<1> USE DEF BundleInv
<1>1. Untouched /\ dir' = dir /\ members' = members /\ manifest' = manifest /\ root' = root /\ faults' = faults
  BY DEF Begin, Untouched, verifyVars
<1>2. FilesTyped' /\ VerifyTyped' /\ Passing' /\ Verifying' /\ ReleasedRests'
  BY <1>1, VerificationStays DEF FilesTyped
<1>3. cpc[c] = "idle" /\ cpc' = [cpc EXCEPT ![c] = "first"] /\ during' = [during EXCEPT ![c] = Files(project)]
  BY DEF Begin
<1>4. CreatesTyped'
  <2>1. todo' \in [Creators -> SUBSET Paths]
    BY DEF Begin, CreatesTyped, Paths
  <2>2. Files(project) \in SUBSET Held
    BY FilesAreHeld DEF FilesTyped
  <2> QED
    BY <1>1, <1>3, <2>1, <2>2 DEF CreatesTyped, Untouched, Manifests, Contents
<1>5. Creating'
  <2> SUFFICES ASSUME NEW o \in Creators
               PROVE  /\ cpc'[o] = "idle" => members'[o] = {}
                      /\ Active(o)' => Files(project') \subseteq during'[o]
                      /\ members'[o] \subseteq during'[o]
    BY DEF Creating
  <2>1. CASE o = c
    BY <2>1, <1>1, <1>3 DEF Creating, CreatesTyped, Untouched
  <2>2. CASE o # c
    BY <2>2, <1>1, <1>3 DEF Creating, CreatesTyped, Untouched, Active
  <2> QED
    BY <2>1, <2>2
<1>6. ManifestHonest'
  BY <1>1, <1>3 DEF ManifestHonest, CreatesTyped
<1> QED
  BY <1>2, <1>4, <1>5, <1>6

\* The steps after the first change one create's program counter, to a stage
\* other than "idle", and add to its members what the project holds.
LEMMA Continuing ==
  ASSUME BundleInv, NEW c \in Creators, Untouched, UNCHANGED during,
         NEW at \in {"first", "rest", "manifest", "done", "dead"}, NEW more \in SUBSET Files(project),
         Active(c),
         cpc' = [cpc EXCEPT ![c] = at],
         members' = [members EXCEPT ![c] = @ \cup more],
         todo' \in [Creators -> SUBSET Paths], root' \in [Creators -> Claims \cup {NoClaim}],
         faults' \in 0 .. MaxFaults, manifest' \in Manifests
  PROVE  CreatesTyped' /\ Creating'
<1> USE DEF BundleInv
<1>1. more \in SUBSET Held /\ \A m \in more : m[2] \in Contents(m[1])
  <2>1. more \in SUBSET Held
    BY FilesAreHeld DEF FilesTyped
  <2>2. \A m \in Files(project) : m[2] \in Contents(m[1])
    BY DEF Files, FilesTyped
  <2> QED
    BY <2>1, <2>2
<1>2. members' \in [Creators -> SUBSET Held]
  BY <1>1 DEF CreatesTyped
<1>3. \A o \in Creators : \A m \in members'[o] : m[2] \in Contents(m[1])
  BY <1>1 DEF CreatesTyped
<1>4. CreatesTyped'
  BY <1>2, <1>3 DEF CreatesTyped, Untouched, Contents
<1>5. Creating'
  <2> SUFFICES ASSUME NEW o \in Creators
               PROVE  /\ cpc'[o] = "idle" => members'[o] = {}
                      /\ Active(o)' => Files(project') \subseteq during'[o]
                      /\ members'[o] \subseteq during'[o]
    BY DEF Creating
  <2>1. CASE o = c
    BY <2>1 DEF Creating, CreatesTyped, Untouched, Active
  <2>2. CASE o # c
    BY <2>2 DEF Creating, CreatesTyped, Untouched, Active
  <2> QED
    BY <2>1, <2>2
<1> QED
  BY <1>4, <1>5

\* A manifest that stays, or is torn, stays honest.
LEMMA ManifestStays ==
  ASSUME BundleInv, NEW c \in Creators, Active(c), UNCHANGED during,
         NEW at, cpc' = [cpc EXCEPT ![c] = at],
         manifest' = manifest \/ manifest'.state # "whole"
  PROVE  ManifestHonest'
<1>1. CASE manifest' = manifest
  BY <1>1 DEF BundleInv, ManifestHonest, CreatesTyped, Active
<1>2. CASE manifest'.state # "whole"
  BY <1>2 DEF ManifestHonest
<1> QED
  BY <1>1, <1>2

LEMMA Copying ==
  ASSUME BundleInv, NEW c \in Creators, NEW p \in todo[c],
         Copy(c, p) \/ Skip(c, p) \/ CopyFails(c, p)
  PROVE  BundleInv'
<1> USE DEF BundleInv
<1>1. Active(c) /\ p \in Paths
  BY DEF Copy, Skip, CopyFails, CreatesTyped
<1>2. /\ Untouched /\ UNCHANGED <<manifest, cpc, root, during>>
      /\ todo' = [todo EXCEPT ![c] = @ \ {p}]
  BY DEF Copy, Skip, CopyFails, Untouched, projectVars, verifyVars
<1>3. faults' \in 0 .. MaxFaults
  BY BoundsAssumption DEF Copy, Skip, CopyFails, CreatesTyped
<1>4. /\ dir' \in [Paths -> AnyContent]
      /\ \A q \in Paths : dir'[q] = dir[q] \/ dir'[q] = project[q] \/ dir'[q] = "torn"
  BY <1>1, ContentsOf DEF Copy, Skip, CopyFails, FilesTyped
<1>5. FilesTyped' /\ VerifyTyped' /\ Passing' /\ Verifying' /\ ReleasedRests'
  BY <1>2, <1>4, VerificationStays
<1>6. PICK more \in SUBSET Files(project) : members' = [members EXCEPT ![c] = @ \cup more]
  <2>1. CASE Copy(c, p)
    <3>1. {<<p, project[p]>>} \in SUBSET Files(project)
      BY <1>1, <2>1, FileIsListed DEF Copy
    <3> QED
      BY <2>1, <3>1 DEF Copy
  <2>2. CASE Skip(c, p) \/ CopyFails(c, p)
    <3>1. members' = [members EXCEPT ![c] = @ \cup {}]
      BY <2>2 DEF Skip, CopyFails, CreatesTyped
    <3> QED
      BY <3>1
  <2> QED
    BY <2>1, <2>2
<1>7. /\ cpc[c] \in {"first", "rest", "manifest", "done", "dead"}
      /\ cpc' = [cpc EXCEPT ![c] = cpc[c]]
  BY <1>1, <1>2 DEF Active, CreatesTyped
<1>8. todo' \in [Creators -> SUBSET Paths]
  BY <1>2 DEF CreatesTyped
<1>9. CreatesTyped' /\ Creating'
  BY <1>1, <1>2, <1>3, <1>6, <1>7, <1>8, Continuing DEF CreatesTyped
<1>10. ManifestHonest'
  BY <1>1, <1>2, <1>7, ManifestStays
<1> QED
  BY <1>5, <1>9, <1>10

\* Listing, finding the root and dying copy nothing.
LEMMA Proceeding ==
  ASSUME BundleInv, NEW c \in Creators, ListFiles(c) \/ FindRoot(c) \/ Die(c)
  PROVE  BundleInv'
<1> USE DEF BundleInv
<1>1. Active(c)
  BY DEF ListFiles, FindRoot, Die, Active
<1>2. Untouched /\ UNCHANGED <<members, during>>
  BY DEF ListFiles, FindRoot, Die, Untouched, projectVars, verifyVars
<1>3. PICK at \in {"first", "rest", "manifest", "done", "dead"} : cpc' = [cpc EXCEPT ![c] = at]
  BY DEF ListFiles, FindRoot, Die
<1>4. /\ dir' \in [Paths -> AnyContent]
      /\ \A q \in Paths : dir'[q] = dir[q] \/ dir'[q] = project[q] \/ dir'[q] = "torn"
  BY ContentsOf DEF ListFiles, FindRoot, Die, FilesTyped
<1>5. FilesTyped' /\ VerifyTyped' /\ Passing' /\ Verifying' /\ ReleasedRests'
  BY <1>2, <1>4, VerificationStays
<1>6. /\ todo' \in [Creators -> SUBSET Paths]
      /\ root' \in [Creators -> Claims \cup {NoClaim}]
      /\ faults' \in 0 .. MaxFaults
  <2>1. ListedAttestations \cup {"contract"} \subseteq Paths
    BY DEF ListedAttestations, Paths
  <2>2. project["policy"] \in Claims \cup {"absent"}
    BY ContentsOf, TargetsAssumption DEF FilesTyped
  <2>3. CASE ListFiles(c)
    BY <2>1, <2>3 DEF ListFiles, CreatesTyped
  <2>4. CASE FindRoot(c)
    BY <2>2, <2>4 DEF FindRoot, CreatesTyped
  <2>5. CASE Die(c)
    BY <2>5, BoundsAssumption DEF Die, CreatesTyped
  <2> QED
    BY <2>3, <2>4, <2>5
<1>7. manifest' \in Manifests /\ (manifest' = manifest \/ manifest'.state # "whole")
  <2>1. /\ Manifest("torn", NoClaim, {}, "absent", "absent") \in Manifests
        /\ Manifest("torn", NoClaim, {}, "absent", "absent").state # "whole"
    BY ContentsOf DEF Manifest, Manifests
  <2> QED
    BY <2>1 DEF ListFiles, FindRoot, Die, CreatesTyped
<1>8. PICK more \in SUBSET Files(project) : members' = [members EXCEPT ![c] = @ \cup more]
  <2>1. members' = [members EXCEPT ![c] = @ \cup {}] /\ {} \in SUBSET Files(project)
    BY <1>2 DEF CreatesTyped
  <2> QED
    BY <2>1
<1>9. CreatesTyped' /\ Creating'
  BY <1>1, <1>2, <1>3, <1>6, <1>7, <1>8, Continuing
<1>10. ManifestHonest'
  BY <1>1, <1>2, <1>3, <1>7, ManifestStays
<1> QED
  BY <1>5, <1>9, <1>10

LEMMA Publishing ==
  ASSUME BundleInv, NEW c \in Creators, WriteManifest(c)
  PROVE  BundleInv'
<1> USE DEF BundleInv
<1>1. /\ Untouched /\ Active(c) /\ UNCHANGED <<members, during, dir, todo, root, faults>>
      /\ cpc' = [cpc EXCEPT ![c] = "done"]
      /\ manifest' = Manifest("whole", root[c], members[c], dir["graph"], dir["policy"])
  BY DEF WriteManifest, Listed, Untouched, Active, projectVars, verifyVars
<1>2. FilesTyped' /\ VerifyTyped' /\ Passing' /\ Verifying' /\ ReleasedRests'
  BY <1>1, VerificationStays DEF FilesTyped
<1>3. manifest' \in Manifests
  BY <1>1 DEF Manifest, Manifests, CreatesTyped, FilesTyped, Paths
<1>4. PICK more \in SUBSET Files(project) : members' = [members EXCEPT ![c] = @ \cup more]
  <2>1. members' = [members EXCEPT ![c] = @ \cup {}] /\ {} \in SUBSET Files(project)
    BY <1>1 DEF CreatesTyped
  <2> QED
    BY <2>1
<1>5. /\ todo' \in [Creators -> SUBSET Paths] /\ root' \in [Creators -> Claims \cup {NoClaim}]
      /\ faults' \in 0 .. MaxFaults
  BY <1>1 DEF CreatesTyped
<1>6. CreatesTyped' /\ Creating'
  BY <1>1, <1>3, <1>4, <1>5, Continuing
<1>7. cpc'[c] = "done" /\ manifest'.members \subseteq during'[c]
  BY <1>1 DEF CreatesTyped, Creating, Manifest
<1> QED
  BY <1>2, <1>6, <1>7 DEF ManifestHonest

LEMMA Editing ==
  ASSUME BundleInv, NEW p \in Paths, NEW x \in AnyContent, Edit(p, x)
  PROVE  BundleInv'
<1> USE DEF BundleInv
<1>1. /\ UNCHANGED <<dir, manifest, cpc, todo, members, root, faults>> /\ UNCHANGED verifyVars
      /\ project' = [project EXCEPT ![p] = x] /\ x \in Contents(p)
      /\ passed' = IF x = "pass" THEN passed \cup {p} ELSE passed
      /\ during' = [c \in Creators |-> IF Active(c) THEN during[c] \cup Files(project') ELSE during[c]]
  BY DEF Edit, createVars
<1>2. edits' \in 0 .. MaxEdits
  BY BoundsAssumption DEF Edit, CreatesTyped
<1>3. project' \in [Paths -> AnyContent] /\ \A q \in Paths : project'[q] \in Contents(q)
  BY <1>1 DEF FilesTyped
<1>4. FilesTyped'
  BY <1>1, <1>3 DEF FilesTyped, Contents
<1>5. CreatesTyped'
  <2>1. Files(project') \in SUBSET Held
    BY <1>3, FilesAreHeld
  <2>2. during' \in [Creators -> SUBSET Held]
    BY <1>1, <2>1 DEF CreatesTyped
  <2> QED
    BY <1>1, <1>2, <2>2 DEF CreatesTyped, Manifests, Contents
<1>6. Creating' /\ ManifestHonest'
  BY <1>1 DEF Creating, ManifestHonest, Active, CreatesTyped
<1>7. Passing'
  <2>1. \A y \in Claims : project'[y] = "pass" => project[y] = "pass" \/ (y = p /\ x = "pass")
    BY <1>1, ContentsOf DEF FilesTyped
  <2> QED
    BY <1>1, <2>1 DEF Passing, verifyVars
<1>8. VerifyTyped' /\ Verifying' /\ ReleasedRests'
  BY <1>1 DEF VerifyTyped, Verifying, ReleasedRests, Manifests, verifyVars
<1> QED
  BY <1>4, <1>5, <1>6, <1>7, <1>8

-----------------------------------------------------------------------------
(***************************************************************************)
(* A step of the verification leaves project, bundle and creates alone.    *)
(***************************************************************************)
LEMMA CreatesStay ==
  ASSUME BundleInv, UNCHANGED <<createVars, projectVars>>
  PROVE  FilesTyped' /\ CreatesTyped' /\ Creating' /\ ManifestHonest'
BY DEF BundleInv, createVars, projectVars, FilesTyped, CreatesTyped, Creating, ManifestHonest,
  Active, Manifests, Contents

LEMMA VerifyBegins ==
  ASSUME BundleInv, BeginVerify
  PROVE  BundleInv'
<1> USE DEF BundleInv
<1>1. UNCHANGED <<createVars, projectVars, states, seen>>
  BY DEF BeginVerify
<1>2. FilesTyped' /\ CreatesTyped' /\ Creating' /\ ManifestHonest'
  BY <1>1, CreatesStay
<1>3. Passing'
  BY <1>1 DEF Passing, createVars, projectVars
<1>4. VerifyTyped' /\ Verifying' /\ ReleasedRests'
  BY DEF BeginVerify, VerifyTyped, Verifying, ReleasedRests, CreatesTyped, createVars, projectVars
<1> QED
  BY <1>2, <1>3, <1>4

LEMMA MemberChecked ==
  ASSUME BundleInv, NEW m \in left, CheckMember(m)
  PROVE  BundleInv'
<1> USE DEF BundleInv
<1>1. UNCHANGED <<createVars, projectVars, vpc, tool, mf, states, verdict>> /\ vpc = "members"
  BY DEF CheckMember
<1>2. FilesTyped' /\ CreatesTyped' /\ Creating' /\ ManifestHonest'
  BY <1>1, CreatesStay
<1>3. Passing' /\ VerifyTyped' /\ ReleasedRests'
  BY <1>1 DEF Passing, VerifyTyped, Verifying, ReleasedRests, createVars, projectVars, Manifests
<1>4. bad' \/ m \in seen'
  <2>1. m = <<m[1], m[2]>>
    BY <1>1 DEF Verifying, VerifyTyped, Manifests, Held
  <2> QED
    BY <2>1 DEF CheckMember, Intact
<1>5. Verifying'
  BY <1>1, <1>4 DEF Verifying, CheckMember
<1> QED
  BY <1>2, <1>3, <1>5

LEMMA MembersChecked ==
  ASSUME BundleInv, NEW t \in {"proofverify", "proofctl"}, MembersDone(t)
  PROVE  BundleInv'
<1> USE DEF BundleInv
<1>1. UNCHANGED <<createVars, projectVars, mf, bad, states, seen>> /\ vpc = "members" /\ left = {}
  BY DEF MembersDone
<1>2. FilesTyped' /\ CreatesTyped' /\ Creating' /\ ManifestHonest'
  BY <1>1, CreatesStay
<1>3. Passing' /\ VerifyTyped'
  BY <1>1 DEF Passing, VerifyTyped, createVars, projectVars, Manifests, MembersDone, Conclude
<1>4. Verifying' /\ ReleasedRests'
  <2>1. mf.root \in Claims \cup {NoClaim} /\ (bad \/ mf.members \subseteq seen) /\ verdict = "none"
    BY <1>1 DEF VerifyTyped, Manifests, Verifying
  <2>2. CASE bad
    BY <1>1, <2>2 DEF Verifying, ReleasedRests, MembersDone, Conclude
  <2>3. CASE ~ bad /\ t = "proofctl"
    BY <1>1, <2>1, <2>3 DEF Verifying, ReleasedRests, MembersDone, Conclude
  <2>4. CASE ~ bad /\ t # "proofctl"
    <3>1. vpc' = "derive" /\ verdict' = "none" /\ tool' = t
      BY <2>1, <2>4 DEF MembersDone
    <3> QED
      BY <1>1, <2>1, <2>4, <3>1 DEF Verifying, ReleasedRests
  <2> QED
    BY <2>2, <2>3, <2>4
<1> QED
  BY <1>2, <1>3, <1>4

LEMMA StateDerived ==
  ASSUME BundleInv, NEW x \in Claims, DeriveState(x)
  PROVE  BundleInv'
<1> USE DEF BundleInv
<1>1. UNCHANGED <<createVars, projectVars, vpc, tool, mf, bad, verdict, seen>> /\ vpc = "derive"
  BY DEF DeriveState
<1>2. FilesTyped' /\ CreatesTyped' /\ Creating' /\ ManifestHonest'
  BY <1>1, CreatesStay
<1>3. /\ states' \in [Claims -> ClaimStates \cup {"none"}]
      /\ \A y \in Claims : states'[y] \in Releasable => states[y] \in Releasable \/ dir[y] = "pass"
  <2>1. dir[x] \in Attested \cup {"absent", "torn"}
    BY ContentsOf DEF FilesTyped
  <2>2. CASE dir[x] \in {"torn", "absent"}
    BY <2>2 DEF DeriveState, VerifyTyped
  <2>3. CASE dir[x] \in {"pass", "fail", "bare"}
    <3>1. /\ DeriveClaimState(InputOf(x)) \in ClaimStates
          /\ DeriveClaimState(InputOf(x)) \in Releasable => dir[x] = "pass"
      BY <2>3, DerivedStates
    <3>2. states' = [states EXCEPT ![x] = DeriveClaimState(InputOf(x))]
      BY <2>3 DEF DeriveState
    <3> QED
      BY <3>1, <3>2 DEF VerifyTyped
  <2> QED
    BY <2>1, <2>2, <2>3 DEF Attested
<1>4. Passing'
  BY <1>1, <1>3 DEF Passing, createVars, projectVars
<1>5. VerifyTyped' /\ Verifying' /\ ReleasedRests'
  BY <1>1, <1>3 DEF VerifyTyped, Verifying, ReleasedRests, Manifests, projectVars
<1> QED
  BY <1>2, <1>4, <1>5

LEMMA Derived ==
  ASSUME BundleInv, DeriveDone
  PROVE  BundleInv'
<1> USE DEF BundleInv
<1>1. UNCHANGED <<createVars, projectVars, tool, mf, left, bad, states, seen>> /\ vpc = "derive"
  BY DEF DeriveDone
<1>2. FilesTyped' /\ CreatesTyped' /\ Creating' /\ ManifestHonest'
  BY <1>1, CreatesStay
<1>3. Passing' /\ VerifyTyped' /\ Verifying'
  BY <1>1 DEF Passing, VerifyTyped, Verifying, createVars, projectVars, Manifests, DeriveDone, Conclude
<1>4. ReleasedRests'
  BY <1>1 DEF ReleasedRests, Verifying, Passing, projectVars, DeriveDone, Conclude
<1> QED
  BY <1>2, <1>3, <1>4

LEMMA BundleStuttering ==
  ASSUME BundleInv, UNCHANGED vars
  PROVE  BundleInv'
<1>1. UNCHANGED <<createVars, projectVars, verifyVars>>
  BY DEF vars, createVars, projectVars, verifyVars
<1>2. FilesTyped' /\ CreatesTyped' /\ Creating' /\ ManifestHonest'
  BY <1>1, CreatesStay
<1>3. VerifyTyped' /\ Verifying' /\ ReleasedRests' /\ Passing'
  BY <1>1 DEF BundleInv, VerifyTyped, Verifying, ReleasedRests, Passing, Manifests,
     createVars, projectVars, verifyVars
<1> QED
  BY <1>2, <1>3 DEF BundleInv

LEMMA BundleInvariant == Spec => []BundleInv
<1>1. ASSUME BundleInv, Next PROVE BundleInv'
  <2>1. ASSUME NEW c \in Creators, Create(c) PROVE BundleInv'
    BY <1>1, <2>1, Beginning, Copying, Proceeding, Publishing DEF Create
  <2>2. ASSUME NEW p \in Paths, NEW x \in AnyContent, Edit(p, x) PROVE BundleInv'
    BY <1>1, <2>2, Editing
  <2>3. CASE Verify
    BY <1>1, <2>3, VerifyBegins, MemberChecked, MembersChecked, StateDerived, Derived DEF Verify
  <2> QED
    BY <1>1, <2>1, <2>2, <2>3 DEF Next
<1> QED
  BY BundleInit, <1>1, BundleStuttering, PTL DEF Spec

-----------------------------------------------------------------------------
(***************************************************************************)
(* A create that runs alone and undisturbed.                               *)
(***************************************************************************)
Idle == \A c \in Creators : cpc[c] = "idle"

\* Nobody has begun: there is no bundle.
Untried == Idle => dir = NoFiles /\ manifest.state = "absent" /\ vpc = "idle"

\* No member has been checked before a verification begins.
Unread == vpc = "idle" => ~ bad

\* The project as a create found it: it decoded.
Found ==
  quiet \in {"making", "made"} =>
    /\ found \in [Paths -> AnyContent]
    /\ \A p \in Paths : found[p] \in Contents(p)
    /\ \A x \in Claims : found[x] # "torn"

RootOf(f) == IF f["policy"] = "absent" THEN NoClaim ELSE f["policy"]

\* What create c has still to reach, listed or not.
Ahead(c) == IF cpc[c] = "first" THEN todo[c] \cup Claims \cup {"contract"} ELSE todo[c]

\* The one create has copied what it has reached, and the directory holds that
\* and no more.
Alone(c) ==
  /\ Active(c) /\ \A o \in Creators \ {c} : cpc[o] = "idle"
  /\ members[c] = Files(dir)
  /\ \A p \in Paths : dir[p] = IF p \in Ahead(c) THEN "absent" ELSE found[p]
  /\ cpc[c] = "first" => todo[c] \subseteq {"graph", "policy"}
  /\ cpc[c] = "manifest" => todo[c] = {} /\ root[c] = RootOf(found)

Making ==
  quiet = "making" =>
    /\ project = found
    /\ manifest.state = "absent" /\ vpc = "idle"
    /\ \E c \in Creators : Alone(c)

\* The bundle is the project it found, and the members are in order.
Made ==
  quiet = "made" =>
    /\ ~ Idle /\ \A c \in Creators : ~ Active(c)
    /\ manifest = Manifest("whole", RootOf(found), Files(found), found["graph"], found["policy"])
    /\ \A p \in Paths : dir[p] = found[p]
    /\ vpc # "idle" => mf = manifest /\ ~ bad
    /\ vpc = "members" => left \subseteq Files(found)

FreshInv == Untried /\ Unread /\ Found /\ Making /\ Made

LEMMA FreshInit == Init => FreshInv
<1> SUFFICES ASSUME Init PROVE FreshInv
  OBVIOUS
<1>1. Untried
  BY DEF Init, Untried, Manifest
<1>2. Unread
  BY DEF Init, Unread
<1>3. Found /\ Making /\ Made
  BY DEF Init, Found, Making, Made
<1> QED
  BY <1>1, <1>2, <1>3 DEF FreshInv

\* Only a step of a create or an edit of the project concerns a bundle in the
\* making; a disturbed one is of no concern.
LEMMA FreshDisturbed ==
  ASSUME FreshInv, quiet' = "disturbed", UNCHANGED verifyVars, ~ Idle' \/ UNCHANGED createVars
  PROVE  FreshInv'
BY DEF FreshInv, Untried, Unread, Found, Making, Made, verifyVars, createVars, Idle

LEMMA FreshBegins ==
  ASSUME BundleInv, FreshInv, NEW c \in Creators, Begin(c)
  PROVE  FreshInv'
<1> USE DEF FreshInv
<1>1. /\ UNCHANGED <<project, dir, manifest, members, verifyVars>>
      /\ cpc[c] = "idle" /\ cpc' = [cpc EXCEPT ![c] = "first"]
      /\ todo' = [todo EXCEPT ![c] = {"graph", "policy"}] /\ Loadable
  BY DEF Begin
<1>2. cpc'[c] = "first" /\ todo'[c] = {"graph", "policy"} /\ \A o \in Creators \ {c} : cpc'[o] = cpc[o]
  BY <1>1 DEF BundleInv, CreatesTyped
<1>3. ~ Idle'
  BY <1>2 DEF Idle
<1>4. CASE \A o \in Creators : cpc[o] = "idle"
  <2>1. quiet' = "making" /\ found' = project
    BY <1>4 DEF Begin
  <2>2. dir = NoFiles /\ manifest.state = "absent" /\ vpc = "idle"
    BY <1>4 DEF Untried, Idle
  <2>3. Found'
    BY <1>1, <2>1 DEF Found, BundleInv, FilesTyped, Loadable
  <2>4. members'[c] = Files(dir)
    BY <1>1, <2>2 DEF BundleInv, Creating, Files, NoFiles
  <2>5. \A p \in Paths : p \in Ahead(c)' /\ dir[p] = "absent"
    BY <1>2, <2>2 DEF Ahead, Paths, NoFiles
  <2>6. Files(dir)' = Files(dir')
    BY DEF Files
  <2>7. Alone(c)'
    BY <1>1, <1>2, <1>4, <2>4, <2>5, <2>6 DEF Alone, Active
  <2>8. Making'
    BY <1>1, <2>1, <2>2, <2>7 DEF Making, verifyVars
  <2> QED
    BY <1>1, <1>3, <2>1, <2>3, <2>8 DEF Untried, Unread, Made, verifyVars
<1>5. CASE ~ \A o \in Creators : cpc[o] = "idle"
  BY <1>1, <1>3, <1>5, FreshDisturbed DEF Begin, Disturb
<1> QED
  BY <1>4, <1>5

\* What one create does while the bundle is in the making.
LEMMA FreshGoesOn ==
  ASSUME BundleInv, FreshInv, NEW c \in Creators, Active(c),
         UNCHANGED <<project, manifest, quiet, found, verifyVars>>,
         \A o \in Creators \ {c} : cpc'[o] = cpc[o], Active(c)',
         Alone(c) /\ project = found /\ quiet = "making" => Alone(c)'
  PROVE  FreshInv'
<1> USE DEF FreshInv
<1>1. ~ Idle' /\ ~ Idle
  BY DEF Idle, Active
<1>2. quiet # "made"
  BY DEF Made
<1>3. Making'
  <2> SUFFICES ASSUME quiet = "making" PROVE Making'
    BY DEF Making
  <2>1. PICK d \in Creators : Alone(d)
    BY DEF Making
  <2>2. d = c
    BY <2>1 DEF Alone, Active
  <2> QED
    BY <2>1, <2>2 DEF Making, verifyVars
<1> QED
  BY <1>1, <1>2, <1>3 DEF Untried, Unread, Found, Made, verifyVars

LEMMA FreshCopies ==
  ASSUME BundleInv, FreshInv, NEW c \in Creators, NEW p \in todo[c],
         Copy(c, p) \/ Skip(c, p) \/ CopyFails(c, p)
  PROVE  FreshInv'
<1>1. /\ Active(c) /\ UNCHANGED <<project, manifest, cpc, root, verifyVars>>
      /\ todo' = [todo EXCEPT ![c] = @ \ {p}]
  BY DEF Copy, Skip, CopyFails, projectVars
<1>2. Active(c)'
  BY <1>1 DEF Active
<1>3. CASE CopyFails(c, p)
  <2>1. ~ Idle'
    BY <1>1 DEF Idle, Active
  <2> QED
    BY <1>1, <1>3, <2>1, FreshDisturbed DEF CopyFails, Disturb
<1>4. CASE Copy(c, p) \/ Skip(c, p)
  <2>1. UNCHANGED <<quiet, found>>
    BY <1>4 DEF Copy, Skip
  <2>2. ASSUME Alone(c), project = found, quiet = "making"
        PROVE  Alone(c)'
    <3>1. p \in Paths /\ p \in Ahead(c) /\ dir[p] = "absent" /\ cpc[c] # "manifest"
      BY <2>2 DEF Alone, Ahead, BundleInv, CreatesTyped
    <3>2. todo'[c] = todo[c] \ {p}
      BY <1>1 DEF BundleInv, CreatesTyped
    <3>3. Ahead(c)' = Ahead(c) \ {p}
      <4>1. cpc[c] = "first" => p \notin Claims \cup {"contract"}
        BY <2>2, NamesAssumption DEF Alone
      <4> QED
        BY <1>1, <3>2, <4>1 DEF Ahead
    <3>4. dir' \in [Paths -> AnyContent] /\ dir'[p] = project[p] /\ \A q \in Paths \ {p} : dir'[q] = dir[q]
      <4>1. CASE Copy(c, p)
        BY <3>1, <4>1 DEF Copy, BundleInv, FilesTyped
      <4>2. CASE Skip(c, p)
        BY <3>1, <4>2 DEF Skip, BundleInv, FilesTyped
      <4> QED
        BY <1>4, <4>1, <4>2
    <3>5. Files(dir') = IF project[p] = "absent" THEN Files(dir) ELSE Files(dir) \cup {<<p, project[p]>>}
      BY <3>1, <3>4 DEF Files
    <3>6. members'[c] = IF project[p] = "absent" THEN members[c] ELSE members[c] \cup {<<p, project[p]>>}
      BY <1>4 DEF Copy, Skip, BundleInv, CreatesTyped
    <3>7. members'[c] = Files(dir')
      BY <2>2, <3>5, <3>6 DEF Alone
    <3>8. \A q \in Paths : dir'[q] = IF q \in Ahead(c)' THEN "absent" ELSE found[q]
      BY <2>2, <3>3, <3>4 DEF Alone
    <3>9. Files(dir)' = Files(dir')
      BY DEF Files
    <3> QED
      BY <1>1, <1>2, <2>1, <2>2, <3>1, <3>2, <3>7, <3>8, <3>9 DEF Alone
  <2> QED
    BY <1>1, <1>2, <2>1, <2>2, FreshGoesOn
<1> QED
  BY <1>3, <1>4

LEMMA FreshProceeds ==
  ASSUME BundleInv, FreshInv, NEW c \in Creators, ListFiles(c) \/ FindRoot(c) \/ Die(c)
  PROVE  FreshInv'
<1>1. Active(c) /\ UNCHANGED <<project, members, verifyVars>>
  BY DEF ListFiles, FindRoot, Die, Active, projectVars
<1>2. PICK at \in {"rest", "manifest", "dead"} : cpc' = [cpc EXCEPT ![c] = at]
  BY DEF ListFiles, FindRoot, Die
<1>3. cpc'[c] = at /\ \A o \in Creators \ {c} : cpc'[o] = cpc[o]
  BY <1>2 DEF BundleInv, CreatesTyped
<1>4. CASE Die(c)
  <2>1. ~ Idle'
    BY <1>3 DEF Idle
  <2> QED
    BY <1>1, <1>4, <2>1, FreshDisturbed DEF Die, Disturb
<1>5. CASE ListFiles(c)
  <2>1. /\ UNCHANGED <<dir, manifest, quiet, found>> /\ cpc'[c] = "rest" /\ cpc[c] = "first"
        /\ todo[c] = {} /\ todo'[c] = ListedAttestations \cup {"contract"}
    BY <1>3, <1>5 DEF ListFiles, BundleInv, CreatesTyped
  <2>2. ASSUME Alone(c), project = found
        PROVE  Alone(c)'
    <3>1. Ahead(c) = Claims \cup {"contract"} /\ Ahead(c)' = ListedAttestations \cup {"contract"}
      BY <2>1 DEF Ahead
    <3>2. \A p \in Paths : dir[p] = IF p \in Ahead(c)' THEN "absent" ELSE found[p]
      BY <2>2, <3>1 DEF Alone, ListedAttestations
    <3> QED
      BY <1>1, <1>3, <2>1, <2>2, <3>2 DEF Alone, Active, Files
  <2> QED
    BY <1>1, <1>3, <2>1, <2>2, FreshGoesOn DEF Active
<1>6. CASE FindRoot(c)
  <2>1. /\ UNCHANGED <<dir, manifest, todo, quiet, found>> /\ cpc'[c] = "manifest" /\ cpc[c] = "rest"
        /\ todo[c] = {} /\ root'[c] = RootOf(project)
    BY <1>3, <1>6 DEF FindRoot, BundleInv, CreatesTyped, RootOf
  <2>2. ASSUME Alone(c), project = found
        PROVE  Alone(c)'
    <3>1. Ahead(c)' = Ahead(c)
      BY <2>1 DEF Ahead
    <3>2. RootOf(found)' = RootOf(project)
      BY <2>1, <2>2 DEF RootOf
    <3> QED
      BY <1>1, <1>3, <2>1, <2>2, <3>1, <3>2 DEF Alone, Active, Files
  <2> QED
    BY <1>1, <1>3, <2>1, <2>2, FreshGoesOn DEF Active
<1> QED
  BY <1>4, <1>5, <1>6

\* The manifest is written when nothing is ahead: the directory is the project.
LEMMA FreshPublishes ==
  ASSUME BundleInv, FreshInv, NEW c \in Creators, WriteManifest(c)
  PROVE  FreshInv'
<1> USE DEF FreshInv
<1>1. /\ Active(c) /\ UNCHANGED <<project, dir, members, found, verifyVars>>
      /\ cpc[c] = "manifest" /\ cpc' = [cpc EXCEPT ![c] = "done"]
      /\ manifest' = Manifest("whole", root[c], members[c], dir["graph"], dir["policy"])
      /\ quiet' = IF quiet = "making" THEN "made" ELSE quiet
  BY DEF WriteManifest, Listed, Active, projectVars
<1>2. cpc'[c] = "done" /\ \A o \in Creators \ {c} : cpc'[o] = cpc[o]
  BY <1>1 DEF BundleInv, CreatesTyped
<1>3. ~ Idle'
  BY <1>2 DEF Idle
<1>4. quiet # "made"
  BY <1>1 DEF Made
<1>5. CASE quiet = "making"
  <2>1. PICK d \in Creators : Alone(d)
    BY <1>5 DEF Making
  <2>2. Alone(c)
    BY <1>1, <2>1 DEF Alone, Active
  <2>3. \A p \in Paths : dir[p] = found[p]
    BY <1>1, <2>2 DEF Alone, Ahead
  <2>4. Files(dir) = Files(found) /\ dir["graph"] = found["graph"] /\ dir["policy"] = found["policy"]
    BY <2>3 DEF Files, Paths
  <2>5. manifest' = Manifest("whole", RootOf(found), Files(found), found["graph"], found["policy"])
    BY <1>1, <2>2, <2>4 DEF Alone
  <2>6. \A o \in Creators : ~ Active(o)'
    BY <1>2, <2>2 DEF Alone, Active
  <2>7. vpc = "idle"
    BY <1>5 DEF Making
  <2>8. RootOf(found)' = RootOf(found) /\ Files(found)' = Files(found)
    BY <1>1 DEF RootOf, Files
  <2>9. (Manifest("whole", RootOf(found), Files(found), found["graph"], found["policy"]))'
        = Manifest("whole", RootOf(found), Files(found), found["graph"], found["policy"])
    BY <1>1, <2>8 DEF Manifest
  <2>10. Made'
    BY <1>1, <1>3, <2>3, <2>5, <2>6, <2>7, <2>9 DEF Made, verifyVars
  <2> QED
    BY <1>1, <1>3, <1>5, <2>10 DEF Untried, Unread, Found, Making, verifyVars
<1>6. CASE quiet # "making"
  BY <1>1, <1>3, <1>4, <1>6 DEF Untried, Unread, Found, Making, Made, verifyVars
<1> QED
  BY <1>5, <1>6

LEMMA FreshEdited ==
  ASSUME FreshInv, NEW p \in Paths, NEW x \in AnyContent, Edit(p, x)
  PROVE  FreshInv'
<1>1. UNCHANGED createVars /\ UNCHANGED verifyVars
  BY DEF Edit
<1>2. CASE quiet = "making"
  BY <1>1, <1>2, FreshDisturbed DEF Edit, Disturb
<1>3. CASE quiet # "making"
  <2>1. UNCHANGED <<quiet, found>>
    BY <1>3 DEF Edit
  <2>2. UNCHANGED <<dir, manifest, cpc>>
    BY <1>1 DEF createVars
  <2>3. UNCHANGED <<vpc, mf, left, bad>>
    BY <1>1 DEF verifyVars
  <2> QED
    BY <1>3, <2>1, <2>2, <2>3
    DEF FreshInv, Untried, Unread, Found, Making, Made, Idle, Active, RootOf, Files, Manifest
<1> QED
  BY <1>2, <1>3

-----------------------------------------------------------------------------
\* A verification begins when there is a manifest, and finds what was made.
LEMMA FreshVerified ==
  ASSUME FreshInv, UNCHANGED <<createVars, projectVars, quiet, found>>, vpc' # "idle",
         quiet # "making", manifest.state # "absent" \/ vpc # "idle",
         quiet = "made" =>
           /\ mf' = manifest /\ ~ bad'
           /\ vpc' = "members" => left' \subseteq Files(found)
  PROVE  FreshInv'
<1>1. UNCHANGED <<dir, manifest, cpc, quiet, found>>
  BY DEF createVars
<1>2. ~ Idle' /\ ~ Idle
  BY <1>1 DEF FreshInv, Untried, Idle
<1>3. /\ RootOf(found)' = RootOf(found) /\ Files(found)' = Files(found)
      /\ \A c \in Creators : Active(c)' <=> Active(c)
  BY <1>1 DEF RootOf, Files, Active
<1>4. Untried' /\ Unread' /\ Found' /\ Making'
  BY <1>1, <1>2 DEF FreshInv, Untried, Unread, Found, Making
<1>5. Made'
  <2> SUFFICES ASSUME quiet = "made" PROVE Made'
    BY <1>1 DEF Made
  <2>1. /\ \A c \in Creators : ~ Active(c)
        /\ manifest = Manifest("whole", RootOf(found), Files(found), found["graph"], found["policy"])
        /\ \A p \in Paths : dir[p] = found[p]
    BY DEF FreshInv, Made
  <2>2. (Manifest("whole", RootOf(found), Files(found), found["graph"], found["policy"]))'
        = Manifest("whole", RootOf(found), Files(found), found["graph"], found["policy"])
    BY <1>1, <1>3 DEF Manifest
  <2> QED
    BY <1>1, <1>2, <1>3, <2>1, <2>2 DEF Made
<1> QED
  BY <1>4, <1>5 DEF FreshInv

LEMMA FreshVerifyBegins ==
  ASSUME BundleInv, FreshInv, BeginVerify
  PROVE  FreshInv'
<1> USE DEF FreshInv
<1>1. /\ UNCHANGED <<createVars, projectVars, tool, bad, states, seen>>
      /\ vpc = "idle" /\ manifest.state # "absent" /\ vpc' \in {"members", "done"}
      /\ mf' = manifest /\ left' = manifest.members
  BY DEF BeginVerify
<1>2. ~ Idle' /\ ~ bad
  BY <1>1 DEF Untried, Unread, Idle, createVars
<1>3. CASE \E c \in Creators : Active(c)
  <2>1. quiet' = "disturbed"
    BY <1>3 DEF BeginVerify, Disturb
  <2> QED
    BY <1>1, <1>2, <2>1 DEF Untried, Unread, Found, Making, Made
<1>4. CASE ~ \E c \in Creators : Active(c)
  <2>1. UNCHANGED <<quiet, found>> /\ quiet # "making"
    BY <1>4 DEF BeginVerify, Making, Alone
  <2>2. quiet = "made" => vpc' = "members" /\ left' = Files(found)
    BY <1>1 DEF BeginVerify, Made, Manifest
  <2> QED
    BY <1>1, <1>2, <2>1, <2>2, FreshVerified
<1> QED
  BY <1>3, <1>4

LEMMA FreshMember ==
  ASSUME FreshInv, NEW m \in left, CheckMember(m)
  PROVE  FreshInv'
<1> USE DEF FreshInv
<1>1. /\ UNCHANGED <<createVars, projectVars, vpc, tool, mf, states, verdict, quiet, found>>
      /\ vpc = "members" /\ left' = left \ {m} /\ bad' = (bad \/ ~ Intact(m))
  BY DEF CheckMember
<1>2. quiet # "making"
  BY <1>1 DEF Making
<1>3. ASSUME quiet = "made"
      PROVE  ~ bad' /\ left' \subseteq Files(found) /\ mf = manifest
  <2>1. ~ bad /\ left \subseteq Files(found) /\ mf = manifest /\ \A p \in Paths : dir[p] = found[p]
    BY <1>1, <1>3 DEF Made
  <2>2. PICK p \in Paths : m = <<p, found[p]>>
    BY <2>1 DEF Files
  <2>3. Intact(m)
    BY <2>1, <2>2 DEF Intact
  <2> QED
    BY <1>1, <2>1, <2>3
<1> QED
  BY <1>1, <1>2, <1>3, FreshVerified DEF Unread

\* What follows the check of the members leaves what they showed alone.
LEMMA FreshDerives ==
  ASSUME FreshInv,
         \/ \E t \in {"proofverify", "proofctl"} : MembersDone(t)
         \/ \E x \in Claims : DeriveState(x)
         \/ DeriveDone
  PROVE  FreshInv'
<1> USE DEF FreshInv
<1>1. /\ UNCHANGED <<createVars, projectVars, mf, bad, quiet, found>>
      /\ vpc \in {"members", "derive"} /\ vpc' \in {"derive", "done"}
  BY DEF MembersDone, DeriveState, DeriveDone, Conclude
<1>2. quiet # "making"
  BY <1>1 DEF Making
<1>3. quiet = "made" => mf' = manifest /\ ~ bad'
  BY <1>1 DEF Made
<1> QED
  BY <1>1, <1>2, <1>3, FreshVerified

LEMMA FreshStuttering ==
  ASSUME FreshInv, UNCHANGED vars
  PROVE  FreshInv'
<1>1. /\ UNCHANGED <<project, dir, manifest, cpc, todo, members, root, quiet, found>>
      /\ UNCHANGED <<vpc, mf, left, bad>>
  BY DEF vars
<1>2. \A c \in Creators : (Alone(c)' <=> Alone(c)) /\ (Active(c)' <=> Active(c))
  BY <1>1 DEF Alone, Active, Ahead, Files, RootOf
<1>3. RootOf(found)' = RootOf(found) /\ Files(found)' = Files(found) /\ (Idle' <=> Idle)
  BY <1>1 DEF RootOf, Files, Idle
<1>4. Untried' /\ Unread' /\ Found' /\ Making'
  BY <1>1, <1>2, <1>3 DEF FreshInv, Untried, Unread, Found, Making
<1>5. Made'
  BY <1>1, <1>2, <1>3 DEF FreshInv, Made, Manifest
<1> QED
  BY <1>4, <1>5 DEF FreshInv

LEMMA FreshInvariant == Spec => []FreshInv
<1>1. ASSUME BundleInv, FreshInv, Next PROVE FreshInv'
  <2>1. ASSUME NEW c \in Creators, Create(c) PROVE FreshInv'
    BY <1>1, <2>1, FreshBegins, FreshCopies, FreshProceeds, FreshPublishes DEF Create
  <2>2. ASSUME NEW p \in Paths, NEW x \in AnyContent, Edit(p, x) PROVE FreshInv'
    BY <1>1, <2>2, FreshEdited
  <2>3. CASE Verify
    BY <1>1, <2>3, FreshVerifyBegins, FreshMember, FreshDerives DEF Verify
  <2> QED
    BY <1>1, <2>1, <2>2, <2>3 DEF Next
<1> QED
  BY FreshInit, <1>1, FreshStuttering, BundleInvariant, PTL DEF Spec

-----------------------------------------------------------------------------
\* The files, creates and the verification keep their types.
THEOREM BundleTyped == Spec => []TypeOK
<1>1. BundleInv => TypeOK
  BY DEF BundleInv, TypeOK, FilesTyped, CreatesTyped, VerifyTyped, Manifests, Held
<1> QED
  BY BundleInvariant, <1>1, PTL

\* What a manifest lists was in the project while the create that wrote it
\* ran, with that content (cmd_bundle.go:81-130, 278-288).
THEOREM ManifestsAreHonest == Spec => []ManifestHonest
BY BundleInvariant, PTL DEF BundleInv

\* A bundle is called released only if its members were read as listed and, by
\* proofverify, only on an attestation that passed (proofverify/main.go:121-262).
THEOREM ReleasesRestOnPasses == Spec => []ReleasedRests
BY BundleInvariant, PTL DEF BundleInv

\* A create that runs alone makes a bundle of exactly the project it found, and
\* no verification finds a member of it missing or different: for any number of
\* files, and whatever is edited after (cmd_bundle.go:81-164).
THEOREM FreshBundlesAreExact == Spec => []FreshBundleExact
<1>1. FreshInv => FreshBundleExact
  BY DEF FreshInv, Unread, Made, FreshBundleExact, RootOf
<1> QED
  BY FreshInvariant, <1>1, PTL

-----------------------------------------------------------------------------
(***************************************************************************)
(* The kernel by itself: what a state rests on, for any input.             *)
(***************************************************************************)
Kernel(in) ==
  /\ in.obligations \in {"absent", "pass", "fail", "mismatch"}
  /\ in.dep \in [DOMAIN in.dep -> ClaimStates]
  /\ in.required \in [DOMAIN in.required -> ClaimStates]

LEMMA Ordinals ==
  /\ StateOrdinal["BLOCKED"] = -1 /\ StateOrdinal["STALE"] = -1 /\ StateOrdinal["OPEN"] = 0
  /\ StateOrdinal["CANDIDATE"] = 1 /\ StateOrdinal["LOCALLY_VERIFIED"] = 2
  /\ StateOrdinal["GLOBALLY_VERIFIED"] = 3 /\ StateOrdinal["REPRODUCIBLE"] = 4
  /\ StateOrdinal["RELEASED"] = 5
BY DEF StateOrdinal, ClaimStates

\* The outcomes, rule by rule.
LEMMA KernelCases ==
  ASSUME NEW in, Kernel(in)
  PROVE  LET s == DeriveClaimState(in)
         IN  \/ Stale(in) /\ s = "STALE"
             \/ /\ ~ Stale(in) /\ s = "BLOCKED"
                /\ \/ \E d \in DOMAIN in.dep : in.dep[d] = "BLOCKED"
                   \/ in.obligations \in {"fail", "mismatch"}
             \/ /\ ~ Stale(in) /\ \A d \in DOMAIN in.dep : in.dep[d] # "BLOCKED"
                /\ \/ in.obligations = "absent" /\ s = IF in.evidence = "present" THEN "CANDIDATE" ELSE "OPEN"
                   \/ /\ in.obligations = "pass"
                      /\ s = IF Capped(in) \/ ~ DepsReady(in) THEN "LOCALLY_VERIFIED"
                             ELSE IF in.root /\ in.signed THEN "RELEASED"
                             ELSE IF in.replay THEN "REPRODUCIBLE" ELSE "GLOBALLY_VERIFIED"
<1>1. CASE Stale(in)
  BY <1>1 DEF DeriveClaimState
<1>2. CASE ~ Stale(in) /\ (\/ \E d \in DOMAIN in.dep : in.dep[d] = "BLOCKED"
                           \/ in.obligations \in {"fail", "mismatch"})
  BY <1>2 DEF DeriveClaimState
<1>3. CASE ~ Stale(in) /\ (\A d \in DOMAIN in.dep : in.dep[d] # "BLOCKED")
           /\ in.obligations \in {"absent", "pass"}
  BY <1>3 DEF DeriveClaimState
<1> QED
  BY <1>1, <1>2, <1>3 DEF Kernel

\* A claim is globally verified or more only on its present identity, with all
\* obligations passed, no blocked dependency, each required dependency known and
\* at its state, and not by a native runtime (SECURITY-INVARIANTS.md:16-20,
\* derive.go:112-178).
THEOREM KernelGrants ==
  ASSUME NEW in, Kernel(in), StateAtLeast(DeriveClaimState(in), "GLOBALLY_VERIFIED")
  PROVE  /\ in.attested \in {"", in.current}
         /\ in.obligations = "pass"
         /\ \A d \in DOMAIN in.dep : in.dep[d] # "BLOCKED"
         /\ \A d \in DOMAIN in.required :
              d \in DOMAIN in.dep /\ StateAtLeast(in.dep[d], in.required[d])
         /\ in.runtime \notin {"native-dev", "native"}
<1>1. DeriveClaimState(in) \notin {"STALE", "BLOCKED", "OPEN", "CANDIDATE", "LOCALLY_VERIFIED"}
  BY Ordinals DEF StateAtLeast
<1>2. /\ ~ Stale(in) /\ in.obligations = "pass"
      /\ \A d \in DOMAIN in.dep : in.dep[d] # "BLOCKED"
      /\ ~ Capped(in) /\ DepsReady(in)
  BY <1>1, KernelCases
<1> QED
  BY <1>2 DEF Stale, Capped, DepsReady

\* The kernel is monotone: when dependencies become known or rise, and none of
\* them becomes blocked, no claim's state falls, so that the order in which a
\* project makes progress does not matter (derive.go:112-178).
THEOREM KernelIsMonotone ==
  ASSUME NEW a, NEW b, Kernel(a), Kernel(b),
         a.attested = b.attested, a.current = b.current, a.evidence = b.evidence,
         a.obligations = b.obligations, a.required = b.required, a.replay = b.replay,
         a.root = b.root, a.signed = b.signed, a.runtime = b.runtime,
         DOMAIN a.dep \subseteq DOMAIN b.dep,
         \A d \in DOMAIN b.dep \ DOMAIN a.dep : b.dep[d] # "BLOCKED",
         \A d \in DOMAIN a.dep :
           b.dep[d] = a.dep[d] \/ StateOrdinal[b.dep[d]] > StateOrdinal[a.dep[d]]
  PROVE  StateAtLeast(DeriveClaimState(b), DeriveClaimState(a))
<1>1. (Stale(a) <=> Stale(b)) /\ (Capped(a) <=> Capped(b))
  BY DEF Stale, Capped
<1>2. ASSUME NEW s \in ClaimStates
      PROVE  /\ StateOrdinal[s] \in -1 .. 5
             /\ s \in {"BLOCKED", "STALE"} <=> StateOrdinal[s] = -1
  BY Ordinals DEF ClaimStates
<1>3. ASSUME NEW d \in DOMAIN b.dep, b.dep[d] = "BLOCKED"
      PROVE  \E x \in DOMAIN a.dep : a.dep[x] = "BLOCKED"
  <2>1. d \in DOMAIN a.dep
    BY <1>3
  <2>2. a.dep[d] \in ClaimStates
    BY <2>1 DEF Kernel
  <2>3. ~ (StateOrdinal[b.dep[d]] > StateOrdinal[a.dep[d]])
    BY <1>2, <1>3, <2>2, Ordinals
  <2> QED
    BY <1>3, <2>1, <2>3
<1>4. DepsReady(a) => DepsReady(b)
  <2> SUFFICES ASSUME DepsReady(a), NEW d \in DOMAIN b.required
               PROVE  d \in DOMAIN b.dep /\ StateAtLeast(b.dep[d], b.required[d])
    BY DEF DepsReady
  <2>1. d \in DOMAIN a.dep /\ StateOrdinal[a.dep[d]] >= StateOrdinal[b.required[d]]
    BY DEF DepsReady, StateAtLeast
  <2>2. a.dep[d] \in ClaimStates /\ b.dep[d] \in ClaimStates /\ b.required[d] \in ClaimStates
    BY <2>1 DEF Kernel
  <2>3. StateOrdinal[a.dep[d]] \in Int /\ StateOrdinal[b.dep[d]] \in Int
        /\ StateOrdinal[b.required[d]] \in Int
    BY <1>2, <2>2
  <2>4. b.dep[d] = a.dep[d] \/ StateOrdinal[b.dep[d]] > StateOrdinal[a.dep[d]]
    BY <2>1
  <2> QED
    BY <2>1, <2>3, <2>4 DEF StateAtLeast
<1>5. CASE Stale(a)
  BY <1>1, <1>5, KernelCases, Ordinals DEF StateAtLeast
<1>6. CASE ~ Stale(a) /\ (\/ \E d \in DOMAIN a.dep : a.dep[d] = "BLOCKED"
                          \/ a.obligations \in {"fail", "mismatch"})
  <2>1. DeriveClaimState(a) = "BLOCKED"
    BY <1>6 DEF DeriveClaimState
  <2>2. \A s \in ClaimStates : StateOrdinal[s] >= -1
    BY <1>2
  <2>3. DeriveClaimState(b) \in ClaimStates
    BY KernelCases DEF ClaimStates
  <2> QED
    BY <2>1, <2>2, <2>3, Ordinals DEF StateAtLeast
<1>7. CASE ~ Stale(a) /\ (\A d \in DOMAIN a.dep : a.dep[d] # "BLOCKED")
           /\ a.obligations = "absent"
  <2>1. DeriveClaimState(b) = DeriveClaimState(a)
    BY <1>1, <1>3, <1>7, KernelCases
  <2>2. DeriveClaimState(a) \in {"OPEN", "CANDIDATE"}
    BY <1>7, KernelCases
  <2> QED
    BY <2>1, <2>2, Ordinals DEF StateAtLeast
<1>8. CASE ~ Stale(a) /\ (\A d \in DOMAIN a.dep : a.dep[d] # "BLOCKED")
           /\ a.obligations = "pass"
  <2>1. /\ DeriveClaimState(a) = IF Capped(a) \/ ~ DepsReady(a) THEN "LOCALLY_VERIFIED"
                                 ELSE IF a.root /\ a.signed THEN "RELEASED"
                                 ELSE IF a.replay THEN "REPRODUCIBLE" ELSE "GLOBALLY_VERIFIED"
        /\ DeriveClaimState(b) = IF Capped(a) \/ ~ DepsReady(b) THEN "LOCALLY_VERIFIED"
                                 ELSE IF a.root /\ a.signed THEN "RELEASED"
                                 ELSE IF a.replay THEN "REPRODUCIBLE" ELSE "GLOBALLY_VERIFIED"
    BY <1>1, <1>3, <1>8, KernelCases
  <2> QED
    BY <1>4, <2>1, Ordinals DEF StateAtLeast
<1> QED
  BY <1>5, <1>6, <1>7, <1>8 DEF Kernel

=============================================================================
