# proofctl in TLA+

proofctl keeps a graph of claims in `.proofctl/graph.json`. External checkers
verify the claims, their results are stored as attestations
(`.proofctl/attestations/<claim>.json`), and a release gate decides from the
attestations whether the project may be released. Every command is a process of
its own: the commands share nothing but files, take no locks, and may be killed
at any point. That, and the goroutines of `verify --project`, is where the
concurrency of the system lies, and what these modules are about.

## The system's parts

| part | state | operations | talks to |
|---|---|---|---|
| claim graph (`internal/dag`, `main.go`) | claims, `depends_on` lists | `AddClaim`, `Validate`, `Levels`, `Closure`, `Frontier`, `Impact` | graph.json; every command loads it |
| `verify --project` (`cmd_verify.go`) | levels, worker goroutines, semaphore, batch groups, results, exit code | one level after the other: individual claims concurrently, then each batch group | claim graph, pipeline, runner, attestation files |
| verification pipeline (`internal/verify`, `checker`, `freshness`, `pkg/protocol/v2`) | loaded graph, evidence files, snapshots, checker output | digest check, cache lookup, snapshot, one checker per evidence item, merge, validation, publication | CAS, runner, attestation file |
| attestation files (`cmd_attest.go`, `cmd_replay.go`, `cmd_cache.go`) | one file per claim | `verify`, batch, `replay`, `attest`, `cache invalidate` | every command that loads the project |
| replay (`cmd_replay.go`) | certificate files, results, claims still to attest | regenerate, hash, check, judge, attest; one claim or a manifest | generators, checkers, CAS, attestation files |
| release gate (`internal/release`, `internal/policy`, `internal/status`) | loaded attestations; STATUS.json, release-snapshot.json, release-manifest.json | load, check, three writes | attestation files |
| runner (`internal/runner`, `internal/runtime/oci`) | a child process, output buffers, a timeout | `Run`, `RunBatch` | checkers |
| CAS (`internal/cas`, `cmd_cas.go`) | blobs by digest, temporary files | `Store`, `Open`, `Verify`, `put`, `gc` | graph, attestations |
| status (`internal/status`, `status`, `explain`, `frontier`, `impact`, `check`) | the signature that `status --watch` compares with | derive the status of every claim; `check --all` drives the pipeline | graph, attestations |
| trust kernel (`internal/kernel`) | claim states, contracts, identities | `DeriveClaimState`, `PropagateStale`, validators | proofverify |
| release bundles (`cmd_bundle.go`, `proofverify`) | a directory of copies and its manifest | `bundle create`, `bundle verify`, `bundle.verify` | the project's files, kernel |
| signing (`internal/signing`, `key`) | key files, trust store | generate, sign, verify | attestations |
| compiler and IR (`internal/compile`, `internal/ir`) | none | parse, canonical JSON, digests | graph.json |
| adapters, scaffold, doctor, env, githook, pin, export, ... | none of their own | wrap provers, write templates, reports | files |

What is hard in each part, and what makes it correct:

- **Graph.** `Validate` and `Levels` count dependencies separately. Validate
  must accept exactly the acyclic graphs; Levels must produce a partition in
  which every dependency lies in an earlier level, and must end.
- **verify --project.** Workers of one level run concurrently under a bound;
  batch checkers answer what they like, their files are written in place, a
  write may fail, the process may die. No claim may be checked before its
  dependencies are settled, none twice, none be forgotten, and the exit code
  must tell.
- **Pipeline.** graph.json, evidence, contract and attestation may change
  between any two steps. An attestation must rest on the evidence it names and
  on a checker run without failure; a cached one must belong to what was asked.
- **Attestation files.** Writers of two kinds, in place and by rename, meet on
  one file. A published attestation must not be damaged, a stronger one not be
  replaced unnoticed, and a crash not make the project unreadable.
- **Release gate.** It reads many files one by one and writes three. It must
  fail closed, whatever the others do meanwhile, and its outputs must fit
  together wherever it stops.
- **Replay.** Steps of two kinds (items of a claim, claims of an entry) fail
  one by one, certificates are read twice, and the report must tell what was
  attested.
- **Runner.** The deadline races the end of the checker, which may leave
  processes behind; output is cut at a limit; the files named by a claim change
  between digest check and start. A refutation must be the checker's own.
- **Watch.** A change between taking the signature and printing must be shown.
- **Bundles.** Files are copied one by one from a project at work into a
  directory that others have used; the manifest must not promise what was never
  there, nor a verification release what never passed.
- **CAS.** gc races Store, and decides from a graph it may fail to read, and from
  files read one after the other. What stays referenced must stay, what stays
  garbage must go.
- **Kernel.** Staleness must reach every dependent; a state must not be granted
  that a dependency does not support; the decision must not depend on order.

## Modules

| module | models | state and actions in terms of the code |
|---|---|---|
| `Levels` | loading and levelling | `inDegree`, `queue`, `visited` are Validate's variables, one `Visit` per iteration of its loop; `remaining` and `levels` are those of `Levels`, one `Round` per iteration. Map order is the choice of `Visit`. |
| `Queries` | `status`, `graph`, `explain`, `frontier`, `impact`, `PropagateStale` | extends `Levels`: the process loads a graph and, once it is accepted, computes the levels or `Ask`s for one of the searches. `Call` is one call of `closure` or `impactFrom`, `Spread` one round of `PropagateStale`'s queue, `Take` one of `topoSort`'s; `ComputeOne`, `Blockers` and `Frontier` are what the commands make of a closure; `Below` is the reference |
| `Worklist` | abstract: what verify --project promises | `Recall`, `Start`, `Finish` of sets of claims |
| `VerifyProject` | `cmdVerify` with `--project` | extends `Levels`; `stage` is the program counter of the main goroutine, `worker` and `sem` the other goroutines and the channel. `Acquire`/`Finish` are the body of a worker; `StartGroup`, `BatchFail`, `BatchAnswer`, `WriteBegin`, `WriteEnd`, `WriteFail`, `EndGroup` are `runBatchGroup`, whose loop takes the results of a list one by one, in which a claim may appear twice or unasked; `Die` is a kill or `die()` in a goroutine; `Foreign` another command writing the directory. |
| `Pipeline` | `verify.Pipeline.Run`, by several processes | one action per access to a shared file: `Begin`, `CheckDigests`, `CacheHit`/`Backfill`/`CacheMiss`, `Snapshot`, `CheckItem`, `PostSnapshot`, `Judge`/`Reject`/`Discard`; `EditFile`, `EditGraph`, `EditContract`, `Invalidate` are users and other commands |
| `Runner` | `NativeRunner.Run`, `RunBatch`, `OCIRunner.Run` | one checker process: `pc` is where Run stands, `child`, `status` and `holders` (who has which pipe open) are the operating system's; `Resolve` to `StartFails` before the start, `Kill`, `Reap`, `Drain` after; `Write`, `Spawn`, `Exit`, `HelperEnds` are the checker, `Tick` the clock, `Edit` users. `os/exec` is modelled by what it does without `WaitDelay`. |
| `Replay` | `cmdReplay`, `cmdReplayBatch` | `Load`, `Begin`, `BeginEntry`, then per item `Generate`, `Hash`, `Check` in the order of each command, `Judge` or `GiveUp`, per claim `Write`; `Tamper` and `Other` are generators' leftovers and other commands |
| `Attestations` | the attestation files and their writers | a file is an inode and a body; `Rename` is `writeAttestationAtomic`, `Open`+`Fill` are `os.WriteFile`, `Look` is attest's downgrade check; `Die` at any point |
| `Watch` | `status --watch` among those writers | extends `Attestations`; `Signature` is `watchSignature`, `Found` what a print reads, `Poll`, `List`, `LoadFile`, `Display` a round of its loop |
| `ReleaseGate` | the release command among those writers | extends `Attestations`; `Load` reads one listed file; `WriteStatus` contains `gate.check` with conditions C01 to C11, the required metadata and the policy; `WriteSnapshot`, `WriteManifest` |
| `Cas` | the content-addressed store, `cas import`, `import-dir` and `gc` | a blob is its digest, since `Store` renames complete files into place. `Copy`, `Stat`, `Rename` are `Store`; `CorrectSize`, `Truncate`, `Fill` the rest of import; `ReadAttestation`, `ReadSource`, `Inspect`, `Confirm`, `Remove` one reading or system call of gc each; `Edit`, `Cite`, `Retract` are compile, verify and cache invalidate |
| `Derive` | `DeriveClaimState` and the order of claim states | operators without variables |
| `Bundle` | `bundle create`, `bundle verify`, proofverify's `bundle.verify` | `Copy`, `Skip`, `CopyFails` are `copyToBundleFile`; `ListFiles`, `FindRoot`, `WriteManifest` the rest of create, by several processes; `CheckMember`, `MembersDone`, `DeriveState` (with `Derive`), `DeriveDone` the verification; `Edit` other commands |
| `LevelsProofs`, `VerifyProjectProofs`, `PipelineProofs`, `RunnerProofs`, `ReplayProofs`, `ReleaseGateProofs`, `CasProofs`, `BundleProofs` | proofs | |
| `MC...` | instances for TLC | |

Which compose which: `VerifyProject` runs the goroutines over `Levels`; `Watch`
and `ReleaseGate` each put one more process beside the writers of `Attestations`;
`Bundle` takes its verdict from `Derive`; `Queries` goes on where the loading of
`Levels` ends. `Pipeline`, `Runner` and `Replay` see each other through their
results: a checker in `Pipeline` gives any of the answers that `Runner` shows to be
possible, and the writes of `Replay` are one step there and several in
`Attestations`.

Abstractions. A digest is the version of what it digests, or the content itself;
a cache key is the tuple of what goes into it. A checker is a nondeterministic choice among its
answers, valid or not, and its two kinds of failure; the results in an answer are a
set. In `Pipeline` several evidence files are read in one step where the code reads them one after
the other: what is made of them is made of each by itself, and a change of one
file commutes with the reading of another. In `VerifyProject` a run of the
pipeline is its outcome together with the attestation it has published; the
other steps of the pipeline are in `Pipeline`. In `Attestations` a body keeps
the fields that the gate reads; the fields of which a condition only asks for
presence or one value are `marks`. In `Runner` output is counted in chunks, and time
stops at the limit. In `Replay` a certificate is right, wrong or absent. In `Bundle`
a policy is its target, one contract stands for all, and `Copy` is one step: between
the truncation and the write of a copy the code has an empty file that a verification or
another create may meet; the model has such files only where a copy has failed or its
create has died. In `Cas` there is one
attestation for each digest. In `Queries` the calls a recursive search has to make, like
the entries of a queue, are a set taken from in any order: `Impact` ranges over a map,
and nothing returned depends on the order but that of `topoSort`'s list, for which the
property holds in every order.
Some state is not in the code and recalls the past so that a property can speak
of it: `basis` and `moved` in `Pipeline`, `seen` of a job in `Attestations`, `was`
in `ReleaseGate`, `steady` in `Cas`, `touched` in `Runner`, `inPlace` in `Watch`, `wrote` in `Replay`, and
`passed`, `during`, `seen`, `quiet` and `found` in `Bundle`; nothing that the code
does depends on it.

## Runs

Runs that pass:

| run | instance | shows |
|---|---|---|
| MCQueries | all graphs over 4 claims with lists of up to 2 entries, and over 3 claims with up to 3, repetitions and cycles included; one claim asked about (711 000 states) | Validate accepts exactly the acyclic graphs; what `Levels` places is topological, disjoint and as early as possible; the searches agree with each other and with the reference; a claim is blocked exactly if it is in the impact of a rejected one; every search ends, and the levels do unless an entry is repeated |
| MCVerifyProject | 4 claims, 5 graphs (the group above a claim; split over two levels; below a claim; a cycle; a repeated entry), a batch group of two, 1 worker, answers of up to three results that may repeat a claim or name one that was not asked about, files left by earlier runs, one foreign write | dependencies settle first; one checker at a time; the exit code is exact; 0 means accepted attestations on disk; a run whose checkers return ends, unless an entry is repeated; refinement of `Worklist` |
| MCPipeline | 1 run, 1 or 2 evidence items, valid and invalid outputs, 2 edits | what an attestation rests on; that a result is of the graph the run loaded |
| MCRunner | all invocations of 16 kinds, output up to one chunk over what is kept, one helper with either pipe or both, one edit | output is whole; a refutation is the checker's own; what ran was pinned; Run ends unless a helper keeps a pipe open |
| MCReplay | one claim with 1 or 2 items and every option; manifests of 2 entries that share, repeat or lack claims and evidence; one change by others | an attestation rests on items that were regenerated, matched and not refused, digest and verdict are of one certificate, exit code 0 means attested |
| MCAttestations | 2 writers of all kinds on one file, 3 jobs, removals or revisions, and a watch | published files stay whole; a downgrade takes a race; the watch catches up, and while its signature is unchanged it has shown the files' contents, unless they were filled in place, and the graph |
| MCReleaseGate | 1 release over 2 claims, 1 writer, 2 jobs or removals, attestations of two kinds of marks | fail-closed; outputs in order; a release that has started ends |
| MCCas | 1 import and 1 gc over 2 files, 2 edits, citations or retractions | gc spares what stays referenced, deletes what stays garbage; imported files are lost to nothing else |
| MCBundle | 2 creates of one directory, 2 claims, 1 edit, 1 fault, 1 verification at any point | the manifest is honest; a release rests on what passed; an undisturbed bundle lists what the project was and holds what it lists |

Runs in which the code departs from what its documentation says (one property
each; the quotations are in `PROJECT.json`, "findings"):

| run | what happens |
|---|---|
| MCLevelsHang | a `depends_on` list that names a claim twice passes Validate and makes `Levels` loop for ever |
| MCPipelineInvalid | the output for a second evidence item with an unknown verdict, or with another `claim_id` or `protocol_version`, is dropped by the merge, and the claim is accepted |
| MCReplayUnstarted | a checker command that cannot be started leaves exit status 0 behind, and the claim is attested |

Some properties are weaker than one would like, because the code does no more.
Each says as much as holds, and the hazard list in `PROJECT.json` names the line:

- `DepsSettledFirst`: dependencies are settled, not accepted; `verify --project`
  goes on to the next level whatever the results were.
- `ImplementsWorklist`: each claim is checked once, but a batch group that spans
  two levels, or has an accepted member, is not verified by one invocation.
- `ExitZeroOnDisk` speaks of the claims that no batch checker answers about without
  being asked (`Strays`): such an answer overwrites the attestation of a claim
  outside the group, accepted or not, and is in no exit code.
- `FreshEvidence`, `DriftCaught`: the checker reads paths in the working tree; an
  edit between the digest check and the first snapshot is not noticed.
- `AcceptedByFirstItem`: with several evidence items only the first has to
  resolve the obligations and to name the claim, since of the others nothing but the
  failing results is merged, and only the merged output is validated (MCPipelineInvalid).
  Nothing is claimed of failures: exit status 1 of one of several items is wrapped
  (`verify.go:497`), nothing is recorded although `verify.go:492` says so, and an older
  accepted attestation stays.
- `ResultMatchesView`: the cache key has neither the contract nor (on lookup) the
  toolchain, so that a hit may rest on other obligations, and an attestation
  with a toolchain is never found again.
- `DowngradeOnlyByRace`: attest's check and its write are not one step. Nor is its
  write atomic (`cmd_attest.go:387`, beside the comment at 322-323): killed in between,
  it leaves a project that no command loads.
- `WatchCatchesUp`, `ShownIsCurrent`: a file filled in place (`attest`, `replay`, a
  batch group) moves no watched time (`cmd_status.go:268-269`) and is not shown until
  something else changes, although the help says "whenever .proofctl/ or graph source
  changes" (`cmd_status.go:23`) and the comment on `watchSignature` that a change of
  the signature is a relevant change (`293-294`). `ShownIsCurrent` excepts such files
  by name (`inPlace`), and the graph where config.json names no `graph_source`
  (`GraphNamed`): then the signature does not cover the graph file, and a graph rewritten in
  place goes unnoticed. A file that vanishes or is torn while the watch loads it ends the
  watch.
- `RestsOnDisk`: each claim was well attested at some time during the release,
  not all at one time; a claim without `checker_policy` attested by hand has
  protocol version 0 and blocks every release. What was attested need not be the
  statement the claim has now: the gate compares it with nothing (`gate.go:80`, beside
  `THREAT_MODEL.md:188-190`). C10 and C11 read metadata that the checker, or the user
  of attest, supplies. A policy that asks for signatures (C05) never releases a
  claim attested by replay, which does not sign; the run leaves C05 out, the theorem
  covers it.
- `OutputsInOrder`: a release stopped after STATUS.json leaves `released = true`
  without a snapshot.
- `ReferencedStay`: gc goes on without the graph when it does not decode, as while
  an import rewrites it.
- `PinnedRan`: the digest compared is that of the command's last element, which need
  not be the program or script, and of one bare word is a path in the working directory
  while the program is looked up in PATH (`runner.go:133-134`). `RefutationExact` leaves batches
  out: `RunBatch` wraps every error alike, so that its branch for a failing checker's
  answers is dead. `AnswerIsWhole` claims the limit for native runs only, and
  `RunEnds` an end for them only: the OCI runner reads no time limit. Nor does the limit end
  a native run whose checker leaves a process behind that holds standard output or
  standard error: Wait goes on for both copies (`runner.go:175-179`).
- `RunEnds` of `VerifyProject` has two exceptions: a graph that repeats a
  `depends_on` entry, whose levels are never done (MCLevelsHang), and a checker that
  never returns, as just said.
- `AcceptedMeansReplayed` allows a checker that was never started (MCReplayUnstarted),
  an entry without evidence, which is attested vacuously, and `--reuse-generated`,
  which still records `from_scratch`. `ExitTells` excludes `--json`, whose exit code is
  0 in any case. A record of a failed replay says that the claim remains open although an
  older accepted attestation stays; `--skip-if-accepted` looks at one date only in a
  manifest; generators and checkers of replay have no time limit.
- `BlockedAreImpacted`: a manifest's replay drops the obligation results, so that a claim
  with a checker is accepted by its outcome and rejected when derived: status then
  blocks its dependents while explain and frontier take it for accepted.
- `ReleasedRests`: the root's attestation passed once, in the project; it need not be a
  member of the bundle, since proofverify reads whatever the directory holds, which
  `bundle create` does not empty (so INV-12 does not hold of such files). Nor does
  `FreshBundleExact` say what verdict an undisturbed bundle gets: proofverify
  passes no runtime class and no dependencies, so that neither the cap for native
  runs nor INV-08 applies; it calls a root released that is only `GLOBALLY_VERIFIED`
  (`bundle.go:76-77` says RELEASED); trust root and signature need not be there.
  `proofctl bundle verify` asks only for equal digests and a root.
- `ManifestHonest`: each member was in the project at some time, not all at one time;
  the policy digest may be of a leftover policy that is no member.

### Bounds

`MaxForeign`, `MaxEdits`, `MaxWrites`, `MaxMeddling` and `MaxFaults` bound what users,
other processes and failures do during the run, `MaxWritten` what a checker writes;
everything else is finite by itself. `MaxItems` bounds the evidence items of a claim and `MaxResults` the
claim results in one batch answer: three make room for both members of the group and a
repetition or a stray. The runs of `Pipeline` meet in the files only, and what another
run does to them, an edit, an invalidation or an attestation from before can do as well;
one run is what TLC examines, the theorems are about any number. Two edits are what a change and its reversal
need, the shortest way past the freshness check, and what a reference that moves from
the graph to an attestation needs; three bounded steps of the writers are two jobs
and a removal between them. In `MCBundle` two creates already change the directory
under one another, and one edit suffices to set project, directory and manifest
apart. Two claims are what loading file by file needs to mix two times. Four claims
make the graphs in which a group is split over levels between individual claims;
with lists of two entries they have all cycles, chains and diamonds, and three claims
with lists of three entries all repetitions that the counters of `Levels` can tell
apart. The graphs are closed under renaming of three claims, so that it suffices to ask
about one of them. Limits of the runner are 1 and 2 clock ticks, so that there is a time before,
at and beyond each; three chunks are one more than the two that a buffer of limit
1 keeps. Two files give gc one to spare and one to delete; it treats digests alike,
as MCBundle does its two creates, so that both runs use symmetry.

`Leftovers` are the files earlier runs may have left, `MarkSets` the combinations of
marks that attestations carry: in MCReleaseGate one that meets every enforced
condition and one that triggers C07 and lacks what C11 asks for, `Enforced` the
conditions the policy switches on, all but C05.

### Fairness

`Levels` and `Queries` assume weak fairness of the process as a whole: it is scheduled.
`VerifyProject` assumes it of proofctl's own steps (`Proceed`); that the checkers
return (`CheckersEnd`) is a premise of its `RunEnds`, not of the specification, since
the runner's time limit (`runner.go:101-109`) does not end every run. `Runner` assumes it of Run's own steps and of the
clock; the checker, its helper and users owe nothing, which is why `RunEnds` has the
exception of a helper that keeps a pipe open for ever.
`ReleaseGate` assumes weak fairness of each command that has started, `Watch` of the
watching process. Nobody owes the start of a command, its death, an edit or the
step of another command. `Pipeline`, `Attestations`, `Replay`, `Bundle` and `Cas` have no
fairness: their processes may stop anywhere. For a command that computes the levels `CommandEnds`
speaks of graphs without repeated entries; with them, `Levels` does not end (MCLevelsHang).

## Proofs

Every safety invariant, action property and refinement that a passing run checks is also a
theorem. Each module proves inductive invariants, step by step, and derives its theorems
from them.

From the assumptions that `Claims` is finite, `Graphs` holds sequences of
claims, `Leftovers` are contents of attestation files, and `MaxWorkers` is a positive
number, for every graph, grouping and set of stray answers:

- `LevelsTyped`, `LevelsAreTopological`, `LevelsArePartition`. `LevelsTopological`
  is not inductive: that a claim's counter is 0 says that its dependencies have
  been placed only because the counter is the number of its entries less the
  number of its placed dependencies. That equation is the conjunct `Counters`
  of `LevelsInv`; `Done` and `Disjoint` tie `remaining` to the levels. A claim
  with a repeated entry never reaches 0 and harms only termination, which is
  why the theorems hold without an assumption on repetitions.
- `LevelsAreTight`: a claim whose counter is 0 while it remains depends on a claim of
  the last level (`Fresh`); it is placed right after that one.
- `ValidateIsRight`: Validate's counter is the number of entries that name a claim
  not taken from the queue yet (`Unmet`). A set of claims each of which depends on
  another of the set loses none of them, so that a cycle is never visited whole; and if
  the queue runs dry early, the claims not visited are themselves such a set. Both
  directions are conjuncts of `ValidateInv`; neither needs an induction over the graph,
  since acyclicity is a statement over sets of claims.
- `SearchesAreExact`, of the claims `Asked` about among all claims: what a search of
  `Queries` has met and what it has still to go to lie between two bounds (`Reach`).
  From above, all of it is below the claim, or above it, or the claim itself; from below,
  what has been met leads only to what has been met or waits (`Visiting`). With nothing
  waiting the claims met are therefore a set that `Below` ranges over, and the two bounds
  meet; that a claim is not below itself (`NotBelowItself`) takes acyclicity. `topoSort`'s
  counter is, as Validate's, the number of entries not listed yet (`Sorting`), and the set of
  claims it would leave out is one each of which depends on another, which the
  accepted graph does not have.
- `BlockedIsImpacted`: the closure being exact, it remains to relate status, outcome
  and frontier for any attestations (`BlockedLemma`): a rejected claim below is a direct
  dependency, and then on the frontier, or below one.
- `QueriesLoadRight`: the invariants of loading and levelling hold of this larger
  specification too, so that the theorems about `Levels` carry over.
- `ReturnTakesNoRepeats`, `RoundsMakeProgress`, the safety half of termination. A claim
  whose list repeats a claim keeps a counter above 0 (`Unrepeated`), so that `Levels`
  never returns for such a graph. In every other graph that Validate accepts each round
  places a claim, so that `remaining` shrinks: a measure, from which what
  `CommandEnds` says of levels follows by fairness alone. Together they are the exact condition under which `Levels`
  returns.
- `DependenciesSettleFirst`, `ExitCodeIsExact`. `ProjectInv` adds to `LevelsInv`
  where each stage of the main goroutine leaves the workers of the current
  level (`Workers`, `CurrentLevel`), that every claim of an earlier level is
  settled (`EarlierLevels`), and what the exit code says so far (`ExitSoFar`).
  From these and `LevelsTopological` the dependencies of a claim are in settled
  levels when it is started.
- `ProjectTyped`, `WorkersAreBounded`: with `Tokens`, the semaphore holds as
  many tokens as there are running workers.
- `NoGoroutineWaitsInVain`, from the same two: while a level waits for its claims, a
  checker runs or a queued claim finds a free token, and when they have joined no token
  is taken. This is the safety half of `RunEnds` for the semaphore.
- `ExitZeroIsOnDisk`: as long as no other command writes the directory, what has
  passed is accepted on disk (`OnDisk`). A batch's answer is written only for members of
  its group, which have no result yet (`MembersHaveNotPassed`), and a file is torn only in the
  middle of its own write, so that no write undoes an earlier one.
- `ProjectImplementsWorklist`: initial states map to initial states; each action
  maps to `Recall` (loading), `Start` (`Acquire`, `StartGroup`), `Finish`
  (`Finish`, `BatchFail`, `EndGroup`) or a stutter, under `ProjectInv`.

From the assumptions that a claim may list a positive number of items, that answers
are outputs, valid or not, that `None` and `Absent` are no values of their own and
that `MaxEdits` is a natural number, for any number of runs, items and versions, in
`PipelineProofs`:

- `EvidenceIsFresh`: while nothing was edited since the digest check, the
  files are the ones the run's graph pins, and what each item read is too (`Pinned`).
- `DriftIsCaught`: without an edit since the first snapshot the files equal it, after one
  edit they differ, so that the second snapshot tells (`Undrifted`). Two edits may cancel
  out, and nothing is claimed then.
- `AcceptanceIsOfFirst`: items are answered in order, so that the merged output is the
  first item's, whole, with the failures of the later ones (`Merging`). What
  is accepted has none, and its header and results are the first item's own. Invalid
  verdicts in later outputs are not in the merged list, and the theorem says nothing of
  them.
- `ResultIsOfView`: every attestation carries the key of the graph it was made for
  (`Keys`), and keys of different statements or evidence digests differ (`CacheKeys`).
  `PipelineTyped` is a part of the same invariant.

From the assumptions that jobs are well formed (a single replay has one claim with
evidence), that the files at the start have contents of theirs and that
`MaxMeddling` is a natural number, in `ReplayProofs`, for any manifests and claims:

- `AcceptanceIsReplayed`, `CertificateIsOne`. The two commands reach a judgement in a
  different order: cmdReplay makes, hashes and checks an item before the next
  (`SingleInv`), the batch makes all, then checks and hashes each (`BatchInv`). Either way
  a checked item was made, and its digest is that of what was checked unless the
  file moved between (`ItemInv`); all of them pass when a claim is written.
- `ExitCodeTells`: by `Accounted`, a claim of an entry that is behind was
  attested by this run, was accepted before (`Settled`) or is counted as failed; one of
  the entry at work may be pending instead. `ReplayTyped` is a part of the same
  invariant.

From the assumption that `MaxEdits` is a natural number, for any digests, imports
and collectors, in `CasProofs`:

- `ReferencedAreSpared`: of the two readings, `Knows` says that what an
  attestation has named all the time is found or still to be read, and that
  after `ReadSource` all that stayed referenced has been found; what is doomed is
  not found, and `steady` only shrinks.
- `GarbageIsCollected`: `Cleans` follows the garbage of the beginning through the
  stages: not found, then still to be looked at or doomed, then doomed and not
  deleted, since a deleted blob is no longer there to count.
- `ImportedAreKept`: what an import reports is in the store at that moment
  (`ImportStores`), only `Remove` takes it out (`CollectDeletes`), and what removed
  it keeps its excuse (`StillExcused`). `CasTyped` is a part of the same invariant.

From the assumptions that machine-checked claims are claims, that `MarkSets` are sets
of marks and that `MaxWrites` is a natural number, for any claims, writers and
statements, in `ReleaseGateProofs`:

- `StoreTyped`, `PublishedIsKept`. `PublishedStaysWhole` is about a single step, but
  needs to know which files a slow writer can still reach: `Reach` says that a
  writer has an inode which the file has or had, and that if the file still has it,
  no rename has published what is in it. Every step is `Mild`: it gives a file a
  new inode or leaves in the old one nothing that a rename published, so that it
  keeps `Reach` of the other writers.
- `DowngradeTakesTwo`: `Looked`, that attest without `--force` opens a file only
  after it has looked at one that is no stronger.

- `WatchShowsCurrent`, about the contents of the files and the graph, with the two
  exceptions named above: inode numbers and the
  graph's time only grow (`StoreStep`), and the signature is not younger than what the
  print read, nor that younger than the files (`WatchInv`, `NotOlder`). When signature
  and files agree, what lies between agrees with both (`NotOlderBothWays`). The signature
  taken after the print breaks the first half, which is why the order of the two
  matters.

and, about the release among these writers, with the assumptions that `None` is not a
release and that a policy requires claims of the graph:

- `GateIsTyped`, and `ReleaseRestsOnDisk`: `Remembered` ties what a release has loaded to the contents
  that the files have had since it started, `Decided` what it has decided to what it
  has loaded; `PassedIsWell` is the pure part, that what passes the gate's
  conditions is well attested.
- `OutputsAreOrdered` is proved for one release process at most (`Alone`). Two
  releases interleave their three writes, and then the outputs need not fit
  together.

From the assumptions that the limits are natural numbers and the invocations well
formed, in `RunnerProofs`, for any invocations, limits and behaviour of the checker:

- `RunnerTyped`, `AnswersAreWhole`, `RefutationsAreExact`, `PinnedProgramRan`. `Stages`
  says where each stage of Run leaves the child and those who hold its pipes,
  `Buffered` that the buffer is a function of what was written, `Checked` that
  between digest check and start the program is pinned or was touched. `JudgedOutput`
  and `JudgedRefutation` are the pure parts: what Run makes of status, deadline and
  buffer.

From the assumptions that no claim is named like another of the bundle's files, that
targets are claims and that the bounds are natural numbers, in `BundleProofs`, for any
claims and number of creates:

- `ManifestsAreHonest`: by `Creating`, the members of a create lie in what the project
  has held since it began, so that overlapping creates do not matter.
- `ReleasesRestOnPasses`: by `Passing`, an attestation that passes, in the project or
  the directory, and a releasable state have passed in the project once
  (`DerivedStates` is the part about `Derive`); `Verifying` follows the members from
  left to seen. `BundleTyped` is a part of the same invariant.
- `FreshBundlesAreExact`: as long as a create runs alone over an unchanged project,
  what it has copied is the directory, and what it has not is missing there (`Alone`,
  with `Ahead` for what it has still to list); then manifest and directory
  are the project it found (`Made`), and no check of a member can find a difference.
- Of `DeriveClaimState` itself, for any input: `KernelGrants`, that at least
  `GLOBALLY_VERIFIED` takes a current statement, passing obligations, no blocked
  dependency, every required one in its state and no native runtime; and
  `KernelIsMonotone`, that no better dependency makes a claim's state worse.

Only model-checked: the liveness properties (`CommandEnds`, both `RunEnds`,
`ReleaseEnds`, `WatchCatchesUp`), since liveness under fairness is out of the prover's
reach; what is proved of them is that rounds of `Levels` make progress and that no
goroutine waits in vain, as said above. `GateIsTyped`, `StoreTyped`, `PipelineTyped`, `RunnerTyped`,
`ReplayTyped`, `BundleTyped`, `LevelsTyped`, `KernelGrants` and `KernelIsMonotone` are only
proved: no run spends time on them.

## Not modelled

- `check`, `verify @claim`, `attest --batch`, `--from-manifest` and `diff`: sequential
  drivers of what is modelled.
- The second reading of graph.json by a worker (`cmd_verify.go:95`) and by release
  (`cmd_release.go:34`), and the contents of snapshot and manifest.
- How contracts are looked up and which obligations attest fills in; the shadow
  attestations that `compile` writes for the weil adapter.
- The kernel's validators of attestations, contracts, identities and policies, and
  proofverify's requests on given input: stateless comparisons of single records,
  which a model would only repeat.
- Signing and keys: cryptography, and files written once.
- Parsing and canonical JSON, adapters of provers, templates, reports, hooks,
  `snapshot`, `mutate`: text in, text out, with no control worth checking.
- In the runner, argument lists and the JSON of the input; in the store, symlinks
  and a `graph_source` that is not graph.json.

## Plan

Done, in this order: `Levels`, `VerifyProject`, `Worklist`; `Pipeline`; `Attestations`;
`ReleaseGate`; `Cas`; `Runner`; `Derive`, `Queries`, `Bundle`; `Replay`; `Watch`.

The proofs followed in the order of the section above.

Left: the second reading of graph.json in `Pipeline` and `ReleaseGate`.
