-------------------------------- MODULE Cas --------------------------------
(***************************************************************************)
(* The content-addressed store, .proofctl/cas, and the commands that       *)
(* change it: cas import and import-dir put files into it and correct the  *)
(* sizes recorded in graph.json, cas gc removes the blobs that neither the *)
(* graph nor an attestation names.  Each is a process of its own, none     *)
(* takes a lock, and any of them may die.                                  *)
(*                                                                         *)
(* A blob is its digest, since Store renames it into place only when it is *)
(* complete.  The graph source is graph.json itself, as init configures    *)
(* it, so that import's two writes go to one file.                         *)
(***************************************************************************)
EXTENDS Integers

CONSTANTS
  Digests,     \* digests of the files there are
  Importers,   \* import processes
  Collectors,  \* gc processes
  Torn,        \* the graph when it does not decode
  MaxEdits     \* bound: edits of the graph, attestations written or removed

ASSUME EditsAssumption == MaxEdits \in Nat

VARIABLES
  blobs,    \* digests of the blobs in the store
  graph,    \* what graph.json records of each digest, or Torn
  cited,    \* digests that the attestation of some claim names
  edits,    \* number of bounded steps so far
  importer, \* local variables of each import
  gc,       \* local variables of each collector
  steady    \* what has been so ever since each collector began; see Recall

vars == <<blobs, graph, cited, edits, importer, gc, steady>>

\* A size in the graph is that of the file, or it is wrong.
Graph == [Digests -> {"none", "wrong", "right"}]

Named == IF graph = Torn THEN {} ELSE {d \in Digests : graph[d] # "none"}

Steps(at, p) == importer[p].at = at
Stage(at, g) == gc[g].at = at

-----------------------------------------------------------------------------
(***************************************************************************)
(* cas import, cas import-dir.  pg is the graph as read and corrected,     *)
(* todo the files left, now the one in hand, stored the digests reported   *)
(* as imported, left the writes of the graph still to come.                *)
(***************************************************************************)
\* An import that runs no more has reported what it has stored.
Over(at, stored) ==
  [at |-> at, pg |-> [d \in Digests |-> "none"], todo |-> {}, now |-> {}, stored |-> stored,
   left |-> 0]

\* A project that does not load stops the command before it does anything.
BeginImport(p) ==
  /\ Steps("idle", p)
  /\ graph # Torn
  /\ \E fs \in (SUBSET Digests) \ {{}} :
       importer' = [importer EXCEPT ![p] =
         [at |-> "next", pg |-> graph, todo |-> fs, now |-> {}, stored |-> {}, left |-> 0]]
  /\ UNCHANGED <<blobs, graph, cited, edits, gc>>

\* Store has copied the next file into a temporary one that gc does not look at,
\* and knows its digest.  When that fails, the file is reported and passed over.
Copy(p) ==
  /\ Steps("next", p)
  /\ \E d \in importer[p].todo :
       \/ importer' = [importer EXCEPT ![p].todo = @ \ {d}, ![p].now = {d}, ![p].at = "stat"]
       \/ importer' = [importer EXCEPT ![p].todo = @ \ {d}]
  /\ UNCHANGED <<blobs, graph, cited, edits, gc>>

Reported(p) == [importer EXCEPT ![p].stored = @ \cup importer[p].now, ![p].at = "size"]

\* A variant of Stat: the condition is the wrong way round.
MutStat(p) ==
  /\ Steps("stat", p)
  /\ importer' = IF importer[p].now \subseteq blobs
                   THEN [importer EXCEPT ![p].at = "rename"]
                   ELSE Reported(p)
  /\ UNCHANGED <<blobs, graph, cited, edits, gc>>

\* Store: a blob that is there already is left alone.
Stat(p) ==
  /\ Steps("stat", p)
  /\ importer' = IF importer[p].now \subseteq blobs
                   THEN Reported(p)
                   ELSE [importer EXCEPT ![p].at = "rename"]
  /\ UNCHANGED <<blobs, graph, cited, edits, gc>>

\* Or the rename fails, and the file is reported and passed over.
Rename(p) ==
  /\ Steps("rename", p)
  /\ \/ blobs' = blobs \cup importer[p].now /\ importer' = Reported(p)
     \/ /\ importer' = [importer EXCEPT ![p].now = {}, ![p].at = "next"]
        /\ UNCHANGED blobs
  /\ UNCHANGED <<graph, cited, edits, gc>>

\* A size is corrected in memory when the stored blob verifies; when it does not,
\* import reports the file as failed, import-dir as stored.
CorrectSize(p) ==
  /\ Steps("size", p)
  /\ LET i == importer[p]
         wrong == {d \in i.now : i.pg[d] = "wrong"}
     IN  IF wrong \subseteq blobs
           THEN importer' = [importer EXCEPT
                  ![p].pg = [d \in Digests |-> IF d \in wrong THEN "right" ELSE i.pg[d]],
                  ![p].left = IF wrong = {} THEN @ ELSE 2,
                  ![p].now = {}, ![p].at = "next"]
           ELSE \E s \in {i.stored, i.stored \ i.now} :
                  importer' = [importer EXCEPT
                    ![p].stored = s, ![p].now = {}, ![p].at = "next"]
  /\ UNCHANGED <<blobs, graph, cited, edits, gc>>

\* The graph is written back, once as source and once as compiled graph, when a
\* size was corrected: each time the file is emptied and then filled.
Truncate(p) ==
  /\ Steps("next", p) /\ importer[p].todo = {} /\ importer[p].left > 0
  /\ graph' = Torn
  /\ importer' = [importer EXCEPT ![p].at = "fill"]
  /\ UNCHANGED <<blobs, cited, edits, gc>>

\* When the file is not empty any more, another process has filled it, whose
\* longer text may stick out, or replaced it, and this one is lost.
Fill(p) ==
  /\ Steps("fill", p)
  /\ graph' \in IF graph = Torn THEN {importer[p].pg} ELSE {importer[p].pg, graph, Torn}
  /\ importer' = [importer EXCEPT ![p].at = "next", ![p].left = @ - 1]
  /\ UNCHANGED <<blobs, cited, edits, gc>>

EndImport(p) ==
  /\ Steps("next", p) /\ importer[p].todo = {} /\ importer[p].left = 0
  /\ importer' = [importer EXCEPT ![p] = Over("done", @.stored)]
  /\ UNCHANGED <<blobs, graph, cited, edits, gc>>

DieImporting(p) ==
  /\ importer[p].at \notin {"idle", "done"}
  /\ importer' = [importer EXCEPT ![p] = Over("done", @.stored)]
  /\ UNCHANGED <<blobs, graph, cited, edits, gc>>

Import(p) ==
  \/ BeginImport(p) \/ Copy(p) \/ Stat(p) \/ Rename(p) \/ CorrectSize(p)
  \/ Truncate(p) \/ Fill(p) \/ EndImport(p) \/ DieImporting(p)

-----------------------------------------------------------------------------
(***************************************************************************)
(* cas gc.  todo are the attestations still to be read, then the digests   *)
(* still to be looked for in the store; found the digests seen to be       *)
(* referenced; doomed the unreferenced blobs; deleted and failed what      *)
(* became of them.                                                         *)
(***************************************************************************)
Ended(at, deleted, failed) ==
  [at |-> at, todo |-> {}, found |-> {}, doomed |-> {}, deleted |-> deleted, failed |-> failed]

BeginCollect(g) ==
  /\ Stage("idle", g)
  /\ graph # Torn
  /\ gc' = [gc EXCEPT ![g].at = "load", ![g].todo = Digests]
  /\ UNCHANGED <<blobs, graph, cited, edits, importer>>

\* A variant of ReadAttestation: what was found before is forgotten.
MutReadAttestation(g) ==
  /\ Stage("load", g)
  /\ \E d \in gc[g].todo :
       gc' = [gc EXCEPT ![g].todo = @ \ {d}, ![g].found = cited \cap {d}]
  /\ UNCHANGED <<blobs, graph, cited, edits, importer>>

\* loadAttestations reads one file after the other; there is one for each digest.
ReadAttestation(g) ==
  /\ Stage("load", g)
  /\ \E d \in gc[g].todo :
       gc' = [gc EXCEPT ![g].todo = @ \ {d}, ![g].found = @ \cup (cited \cap {d})]
  /\ UNCHANGED <<blobs, graph, cited, edits, importer>>

\* The graph is read once more; when it does not decode, gc goes on without it.
ReadSource(g) ==
  /\ Stage("load", g) /\ gc[g].todo = {}
  /\ gc' = [gc EXCEPT ![g].at = "walk", ![g].todo = Digests, ![g].found = @ \cup Named]
  /\ UNCHANGED <<blobs, graph, cited, edits, importer>>

\* A variant of Candidates: a size not yet corrected hides the blob.
MutCandidates(g, d) ==
  IF graph = Torn THEN {} ELSE {e \in ({d} \cap blobs) \ gc[g].found : graph[e] = "right"}

\* Another one: what is referenced is not looked up.
MutUnchecked(g, d) == {d} \cap blobs

Candidates(g, d) == ({d} \cap blobs) \ gc[g].found

\* One directory entry of the store, if it is there; the directories themselves
\* are taken to be readable (gc passes over one that is not).
Inspect(g) ==
  /\ Stage("walk", g)
  /\ \E d \in gc[g].todo :
       gc' = [gc EXCEPT ![g].todo = @ \ {d}, ![g].doomed = @ \cup Candidates(g, d)]
  /\ UNCHANGED <<blobs, graph, cited, edits, importer>>

\* Confirmed, by --yes, --json or the user, or not: refused, or a dry run.
Confirm(g) ==
  /\ Stage("walk", g) /\ gc[g].todo = {}
  /\ \/ gc' = [gc EXCEPT ![g].at = "remove"]
     \/ gc' = [gc EXCEPT ![g] = Ended("abort", {}, {})]
  /\ UNCHANGED <<blobs, graph, cited, edits, importer>>

\* A blob that has gone meanwhile counts as deleted; an error is reported.
Remove(g) ==
  /\ Stage("remove", g)
  /\ \E d \in gc[g].doomed \ (gc[g].deleted \cup gc[g].failed) :
       \/ /\ blobs' = blobs \ {d}
          /\ gc' = [gc EXCEPT ![g].deleted = @ \cup {d}]
       \/ /\ d \in blobs
          /\ gc' = [gc EXCEPT ![g].failed = @ \cup {d}]
          /\ UNCHANGED blobs
  /\ UNCHANGED <<graph, cited, edits, importer>>

EndCollect(g) ==
  /\ Stage("remove", g) /\ gc[g].doomed = gc[g].deleted \cup gc[g].failed
  /\ gc' = [gc EXCEPT ![g] = Ended("done", @.deleted, @.failed)]
  /\ UNCHANGED <<blobs, graph, cited, edits, importer>>

DieCollecting(g) ==
  /\ gc[g].at \in {"load", "walk", "remove"}
  /\ gc' = [gc EXCEPT ![g] = Ended("abort", @.deleted, @.failed)]
  /\ UNCHANGED <<blobs, graph, cited, edits, importer>>

Collect(g) ==
  \/ BeginCollect(g) \/ ReadAttestation(g) \/ ReadSource(g) \/ Inspect(g) \/ Confirm(g)
  \/ Remove(g) \/ EndCollect(g) \/ DieCollecting(g)

-----------------------------------------------------------------------------
(***************************************************************************)
(* Users and other commands.                                               *)
(***************************************************************************)
Bounded == edits < MaxEdits /\ edits' = edits + 1

\* compile replaces graph.json by a rename.
Edit ==
  /\ Bounded
  /\ \E gr \in Graph : graph' = gr
  /\ UNCHANGED <<blobs, cited, importer, gc>>

\* verify writes an attestation of evidence that the graph names.
Cite(d) ==
  /\ Bounded
  /\ d \in Named
  /\ cited' = cited \cup {d}
  /\ UNCHANGED <<blobs, graph, importer, gc>>

\* cache invalidate removes one.
Retract(d) ==
  /\ Bounded
  /\ d \in cited
  /\ cited' = cited \ {d}
  /\ UNCHANGED <<blobs, graph, importer, gc>>

-----------------------------------------------------------------------------
(***************************************************************************)
(* What has been so in every state since a collector began: the digests    *)
(* that the graph named, those an attestation named, and the blobs that    *)
(* neither did.                                                            *)
(***************************************************************************)
Everything == [named |-> Digests, cited |-> Digests, garbage |-> Digests]

Narrowed(s) ==
  [named |-> s.named \cap Named', cited |-> s.cited \cap cited',
   garbage |-> s.garbage \cap (blobs' \ (Named' \cup cited'))]

Recall ==
  steady' = [g \in Collectors |->
    IF gc'[g].at = "idle" THEN Everything ELSE Narrowed(steady[g])]

Init ==
  /\ blobs \in SUBSET Digests
  /\ graph \in Graph
  /\ cited \in SUBSET Named
  /\ edits = 0
  /\ importer = [p \in Importers |-> Over("idle", {})]
  /\ gc = [g \in Collectors |-> Ended("idle", {}, {})]
  /\ steady = [g \in Collectors |-> Everything]

Step ==
  \/ \E p \in Importers : Import(p)
  \/ \E g \in Collectors : Collect(g)
  \/ Edit \/ \E d \in Digests : Cite(d) \/ Retract(d)

Next == Step /\ Recall

Spec == Init /\ [][Next]_vars

-----------------------------------------------------------------------------
Importing ==
  [at : {"idle", "next", "stat", "rename", "size", "fill", "done"}, pg : Graph,
   todo : SUBSET Digests, now : SUBSET Digests, stored : SUBSET Digests, left : 0 .. 2]

Collecting ==
  [at : {"idle", "load", "walk", "remove", "done", "abort"}, todo : SUBSET Digests,
   found : SUBSET Digests, doomed : SUBSET Digests, deleted : SUBSET Digests,
   failed : SUBSET Digests]

Memory == [named : SUBSET Digests, cited : SUBSET Digests, garbage : SUBSET Digests]

\* The variables have their types; what a collector has doomed it has not found
\* referenced.
CasTypeOK ==
  /\ blobs \subseteq Digests
  /\ graph \in Graph \cup {Torn}
  /\ cited \subseteq Digests
  /\ edits \in 0 .. MaxEdits
  /\ importer \in [Importers -> Importing]
  /\ gc \in [Collectors -> Collecting]
  /\ steady \in [Collectors -> Memory]
  /\ \A g \in Collectors : gc[g].doomed \cap gc[g].found = {}

\* gc deletes no blob that the graph, or that an attestation, has named all the
\* time since gc began (cmd_cas.go cmdCasGC: "deletes unreferenced blobs").  A
\* moment at which the graph does not decode, while import writes it, is one at
\* which it names nothing.
ReferencedStay ==
  \A g \in Collectors : gc[g].deleted \cap (steady[g].named \cup steady[g].cited) = {}

\* A file that import has reported as stored is in the store, unless a gc that
\* did not find it named all the time has deleted it (Store's "already" branch
\* included).
ImportedStay ==
  \A p \in Importers : \A d \in importer[p].stored \ blobs :
    \E g \in Collectors : d \in gc[g].deleted \ (steady[g].named \cup steady[g].cited)

\* A gc that ran to its end has deleted what was garbage from its beginning on,
\* except what it reported it could not delete.
GarbageGoes ==
  \A g \in Collectors : gc[g].at = "done" => steady[g].garbage \subseteq gc[g].failed
=============================================================================
