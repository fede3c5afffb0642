----------------------------- MODULE CasProofs -----------------------------
(***************************************************************************)
(* For every set of digests and any number of imports, collectors and      *)
(* edits: gc spares what has been referenced all the time, what import     *)
(* stored is lost to nothing else, and gc deletes the garbage it found     *)
(* when it began.                                                          *)
(***************************************************************************)
EXTENDS Cas, TLAPS

-----------------------------------------------------------------------------
\* What a collector knows at each of its stages, compared with what has been so
\* ever since it began.
Knows(g) ==
  /\ gc[g].at = "load" =>
       /\ gc[g].doomed = {} /\ gc[g].deleted = {} /\ gc[g].failed = {}
       /\ steady[g].cited \subseteq gc[g].found \cup gc[g].todo
  /\ gc[g].at = "idle" =>
       /\ gc[g].found = {} /\ gc[g].doomed = {}
       /\ gc[g].deleted = {} /\ gc[g].failed = {}
  /\ gc[g].at = "walk" => gc[g].deleted = {} /\ gc[g].failed = {}
  /\ gc[g].at \in {"walk", "remove"} =>
       steady[g].named \cup steady[g].cited \subseteq gc[g].found
  /\ gc[g].at = "remove" => gc[g].deleted \subseteq gc[g].doomed

Spares(g) == gc[g].deleted \cap (steady[g].named \cup steady[g].cited) = {}

\* The garbage there was from the beginning on is not found referenced, and is
\* looked at, doomed and deleted in turn.
Cleans(g) ==
  /\ gc[g].at \in {"load", "walk", "remove"} => steady[g].garbage \cap gc[g].found = {}
  /\ gc[g].at = "walk" => steady[g].garbage \subseteq gc[g].todo \cup gc[g].doomed
  /\ gc[g].at = "remove" =>
       /\ steady[g].garbage \subseteq gc[g].doomed
       /\ steady[g].garbage \cap gc[g].deleted = {}
  /\ gc[g].at = "done" => steady[g].garbage \subseteq gc[g].failed

CasInv ==
  /\ CasTypeOK
  /\ \A g \in Collectors : Knows(g) /\ Spares(g) /\ Cleans(g)
  /\ ImportedStay

-----------------------------------------------------------------------------
\* Recall gives each collector that has begun less than it had.
LEMMA Narrowing ==
  ASSUME Recall, NEW g \in Collectors, gc'[g].at # "idle"
  PROVE  /\ steady'[g].named = steady[g].named \cap Named'
         /\ steady'[g].cited = steady[g].cited \cap cited'
         /\ steady'[g].garbage = steady[g].garbage \cap (blobs' \ (Named' \cup cited'))
BY DEF Recall, Narrowed

LEMMA InitialState == Init => CasInv
<1> SUFFICES ASSUME Init PROVE CasInv
  OBVIOUS
<1> USE DEF Init
<1>1. CasTypeOK
  <2>1. Named \subseteq Digests
    BY DEF Named
  <2>2. Everything \in Memory
    BY DEF Everything, Memory
  <2>3. Over("idle", {}) \in Importing
    BY DEF Over, Importing, Graph
  <2>4. Ended("idle", {}, {}) \in Collecting
    BY DEF Ended, Collecting
  <2>5. \A g \in Collectors : gc[g].doomed = {}
    BY DEF Ended
  <2> QED
    BY <2>1, <2>2, <2>3, <2>4, <2>5, EditsAssumption DEF CasTypeOK
<1>2. \A g \in Collectors : Knows(g) /\ Spares(g) /\ Cleans(g)
  BY DEF Knows, Spares, Cleans, Ended
<1>3. ImportedStay
  BY DEF ImportedStay, Over
<1> QED
  BY <1>1, <1>2, <1>3 DEF CasInv

-----------------------------------------------------------------------------
(***************************************************************************)
(* Type correctness.                                                       *)
(***************************************************************************)
\* An import changes nothing of the collectors, and keeps its types.
LEMMA ImportTyped ==
  ASSUME CasTypeOK, NEW p \in Importers, Import(p)
  PROVE  /\ UNCHANGED <<cited, edits, gc>>
         /\ blobs' \subseteq Digests
         /\ graph' \in Graph \cup {Torn}
         /\ importer' \in [Importers -> Importing]
<1> USE DEF CasTypeOK, Steps
<1>0. importer[p] \in Importing
  OBVIOUS
<1>1. CASE BeginImport(p)
  BY <1>0, <1>1 DEF BeginImport, Importing
<1>2. CASE Copy(p)
  BY <1>0, <1>2 DEF Copy, Importing
<1>3. CASE Stat(p)
  BY <1>0, <1>3 DEF Stat, Reported, Importing
<1>4. CASE Rename(p)
  BY <1>0, <1>4 DEF Rename, Reported, Importing
<1>5. CASE CorrectSize(p)
  <2> DEFINE i == importer[p]
             wrong == {d \in i.now : i.pg[d] = "wrong"}
  <2>1. CASE wrong \subseteq blobs
    <3>1. [d \in Digests |-> IF d \in wrong THEN "right" ELSE i.pg[d]] \in Graph
      BY <1>0 DEF Importing, Graph
    <3>2. QED
      <4>1. importer' = [importer EXCEPT
              ![p].pg = [d \in Digests |-> IF d \in wrong THEN "right" ELSE i.pg[d]],
              ![p].left = IF wrong = {} THEN @ ELSE 2,
              ![p].now = {}, ![p].at = "next"]
        BY <1>5, <2>1 DEF CorrectSize
      <4>2. (IF wrong = {} THEN importer[p].left ELSE 2) \in 0 .. 2
        BY <1>0 DEF Importing
      <4> HIDE DEF wrong
      <4>3. importer' \in [Importers -> Importing]
        BY <1>0, <3>1, <4>1, <4>2 DEF Importing
      <4> QED
        BY <1>5, <4>3 DEF CorrectSize
  <2>2. CASE ~ wrong \subseteq blobs
    BY <1>0, <1>5, <2>2 DEF CorrectSize, Importing
  <2> QED
    BY <2>1, <2>2
<1>6. CASE Truncate(p)
  BY <1>0, <1>6 DEF Truncate, Importing
<1>7. CASE Fill(p)
  <2>1. importer[p].pg \in Graph
    BY <1>0 DEF Importing
  <2>2. graph' \in Graph \cup {Torn}
    BY <1>7, <2>1 DEF Fill
  <2> QED
    BY <1>0, <1>7, <2>2 DEF Fill, Importing
<1>8. CASE EndImport(p) \/ DieImporting(p)
  <2>1. Over("done", importer[p].stored) \in Importing
    BY <1>0 DEF Over, Importing, Graph
  <2> QED
    BY <1>8, <2>1 DEF EndImport, DieImporting
<1> QED
  BY <1>1, <1>2, <1>3, <1>4, <1>5, <1>6, <1>7, <1>8 DEF Import

LEMMA CollectTyped ==
  ASSUME CasTypeOK, NEW g \in Collectors, Collect(g)
  PROVE  /\ UNCHANGED <<graph, cited, edits, importer>>
         /\ blobs' \subseteq blobs
         /\ gc' \in [Collectors -> Collecting]
         /\ \A h \in Collectors \ {g} : gc'[h] = gc[h]
<1> USE DEF CasTypeOK, Stage
<1>0. gc[g] \in Collecting
  OBVIOUS
<1>1. CASE BeginCollect(g)
  BY <1>0, <1>1 DEF BeginCollect, Collecting
<1>2. CASE ReadAttestation(g)
  <2>1. PICK d \in gc[g].todo :
          gc' = [gc EXCEPT ![g].todo = @ \ {d}, ![g].found = @ \cup (cited \cap {d})]
    BY <1>2 DEF ReadAttestation
  <2>2. /\ gc[g].todo \ {d} \in SUBSET Digests
        /\ gc[g].found \cup (cited \cap {d}) \in SUBSET Digests
    BY <1>0 DEF Collecting
  <2> QED
    BY <1>0, <1>2, <2>1, <2>2 DEF ReadAttestation, Collecting
<1>3. CASE ReadSource(g)
  BY <1>0, <1>3 DEF ReadSource, Collecting, Named
<1>4. CASE Inspect(g)
  <2>1. PICK d \in gc[g].todo :
          gc' = [gc EXCEPT ![g].todo = @ \ {d}, ![g].doomed = @ \cup Candidates(g, d)]
    BY <1>4 DEF Inspect
  <2>2. /\ gc[g].todo \ {d} \in SUBSET Digests
        /\ gc[g].doomed \cup Candidates(g, d) \in SUBSET Digests
        /\ (gc[g].doomed \cup Candidates(g, d)) \cap gc[g].found = {}
    BY <1>0 DEF Collecting, Candidates
  <2> QED
    BY <1>0, <1>4, <2>1, <2>2 DEF Inspect, Collecting
<1>5. CASE Confirm(g)
  BY <1>0, <1>5 DEF Confirm, Ended, Collecting
<1>6. CASE Remove(g)
  BY <1>0, <1>6 DEF Remove, Collecting
<1>7. CASE EndCollect(g)
  BY <1>0, <1>7 DEF EndCollect, Ended, Collecting
<1>8. CASE DieCollecting(g)
  BY <1>0, <1>8 DEF DieCollecting, Ended, Collecting
<1> QED
  BY <1>1, <1>2, <1>3, <1>4, <1>5, <1>6, <1>7, <1>8 DEF Collect

LEMMA EditTyped ==
  ASSUME CasTypeOK, Edit \/ \E d \in Digests : Cite(d) \/ Retract(d)
  PROVE  /\ UNCHANGED <<blobs, importer, gc>>
         /\ graph' \in Graph \cup {Torn}
         /\ cited' \subseteq Digests
         /\ edits' \in 0 .. MaxEdits
BY EditsAssumption DEF CasTypeOK, Edit, Cite, Retract, Bounded, Named

LEMMA RecallTyped ==
  ASSUME CasTypeOK, Recall PROVE steady' \in [Collectors -> Memory]
BY DEF CasTypeOK, Recall, Narrowed, Everything, Memory

-----------------------------------------------------------------------------
(***************************************************************************)
(* What a collector knows.                                                 *)
(***************************************************************************)
\* A collector that does not move goes on knowing what it knows: what it is
\* compared with only shrinks.
LEMMA Waiting ==
  ASSUME Recall, NEW g \in Collectors, gc'[g] = gc[g], Knows(g), Spares(g), Cleans(g)
  PROVE  Knows(g)' /\ Spares(g)' /\ Cleans(g)'
<1>1. CASE gc[g].at = "idle"
  BY <1>1 DEF Knows, Spares, Cleans
<1>2. CASE gc[g].at # "idle"
  <2>1. /\ steady'[g].named \subseteq steady[g].named
        /\ steady'[g].cited \subseteq steady[g].cited
        /\ steady'[g].garbage \subseteq steady[g].garbage
    BY <1>2, Narrowing
  <2> QED
    BY <1>2, <2>1 DEF Knows, Spares, Cleans
<1> QED
  BY <1>1, <1>2

\* The collector's own steps.
LEMMA Moving ==
  ASSUME CasTypeOK, Recall, NEW g \in Collectors, Collect(g), Knows(g), Spares(g), Cleans(g)
  PROVE  Knows(g)' /\ Spares(g)' /\ Cleans(g)'
<1> USE DEF Stage
<1>0. gc[g] \in Collecting /\ gc \in [Collectors -> Collecting]
  BY DEF CasTypeOK
<1>1. CASE BeginCollect(g)
  <2>1. /\ gc'[g].at = "load" /\ gc'[g].todo = Digests
        /\ gc'[g].found = {} /\ gc'[g].doomed = {}
        /\ gc'[g].deleted = {} /\ gc'[g].failed = {}
    BY <1>0, <1>1 DEF BeginCollect, Knows, Collecting
  <2>2. steady'[g].cited \subseteq Digests
    BY <1>1, <2>1, Narrowing DEF CasTypeOK, BeginCollect
  <2> QED
    BY <2>1, <2>2 DEF Knows, Spares, Cleans
<1>2. CASE ReadAttestation(g)
  <2>1. PICK d \in gc[g].todo :
          gc' = [gc EXCEPT ![g].todo = @ \ {d}, ![g].found = @ \cup (cited \cap {d})]
    BY <1>2 DEF ReadAttestation
  <2>2. /\ gc'[g].at = "load" /\ gc'[g].todo = gc[g].todo \ {d}
        /\ gc'[g].found = gc[g].found \cup (cited \cap {d})
        /\ gc'[g].doomed = {} /\ gc'[g].deleted = {} /\ gc'[g].failed = {}
    BY <1>0, <1>2, <2>1 DEF ReadAttestation, Knows, Collecting
  <2>3. /\ steady'[g].cited \subseteq steady[g].cited \cap cited
        /\ steady'[g].garbage \subseteq steady[g].garbage \ cited
    BY <1>2, <2>2, Narrowing DEF ReadAttestation
  <2> QED
    BY <1>2, <2>2, <2>3 DEF ReadAttestation, Knows, Spares, Cleans
<1>3. CASE ReadSource(g)
  <2>1. /\ gc'[g].at = "walk" /\ gc'[g].todo = Digests
        /\ gc'[g].found = gc[g].found \cup Named
        /\ gc'[g].doomed = {} /\ gc'[g].deleted = {} /\ gc'[g].failed = {}
    BY <1>0, <1>3 DEF ReadSource, Knows, Collecting
  <2>2. /\ steady'[g].named \subseteq Named
        /\ steady'[g].cited \subseteq steady[g].cited
        /\ steady'[g].garbage \subseteq steady[g].garbage \ Named
        /\ steady'[g].garbage \subseteq Digests
    BY <1>3, <2>1, Narrowing DEF ReadSource, Named, CasTypeOK
  <2> QED
    BY <1>3, <2>1, <2>2 DEF ReadSource, Knows, Spares, Cleans
<1>4. CASE Inspect(g)
  <2>1. PICK d \in gc[g].todo :
          gc' = [gc EXCEPT ![g].todo = @ \ {d}, ![g].doomed = @ \cup Candidates(g, d)]
    BY <1>4 DEF Inspect
  <2>2. /\ gc'[g].at = "walk" /\ gc'[g].todo = gc[g].todo \ {d}
        /\ gc'[g].found = gc[g].found
        /\ gc'[g].doomed = gc[g].doomed \cup Candidates(g, d)
        /\ gc'[g].deleted = {} /\ gc'[g].failed = {}
    BY <1>0, <1>4, <2>1 DEF Inspect, Knows, Collecting
  <2>3. /\ steady'[g].named \subseteq steady[g].named
        /\ steady'[g].cited \subseteq steady[g].cited
        /\ steady'[g].garbage \subseteq steady[g].garbage \cap blobs
    BY <1>4, <2>2, Narrowing DEF Inspect
  <2> QED
    BY <1>4, <2>2, <2>3 DEF Inspect, Candidates, Knows, Spares, Cleans
<1>5. CASE Confirm(g)
  <2>1. CASE gc' = [gc EXCEPT ![g].at = "remove"]
    <3>1. gc'[g] = [gc[g] EXCEPT !.at = "remove"]
      BY <1>0, <2>1
    <3>2. /\ gc'[g].at = "remove" /\ gc'[g].found = gc[g].found
          /\ gc'[g].doomed = gc[g].doomed /\ gc'[g].deleted = {} /\ gc'[g].failed = {}
      BY <1>0, <1>5, <3>1 DEF Confirm, Knows, Collecting
    <3>3. /\ steady'[g].named \subseteq steady[g].named
          /\ steady'[g].cited \subseteq steady[g].cited
          /\ steady'[g].garbage \subseteq steady[g].garbage
      BY <3>2, Narrowing
    <3> QED
      BY <1>5, <3>2, <3>3 DEF Confirm, Knows, Spares, Cleans
  <2>2. CASE gc' = [gc EXCEPT ![g] = Ended("abort", {}, {})]
    BY <1>0, <2>2 DEF Ended, Knows, Spares, Cleans
  <2> QED
    BY <1>5, <2>1, <2>2 DEF Confirm
<1>6. CASE Remove(g)
  <2>1. PICK d \in gc[g].doomed \ (gc[g].deleted \cup gc[g].failed) :
          \/ /\ blobs' = blobs \ {d}
             /\ gc' = [gc EXCEPT ![g].deleted = @ \cup {d}]
          \/ /\ gc' = [gc EXCEPT ![g].failed = @ \cup {d}]
             /\ UNCHANGED blobs
    BY <1>6 DEF Remove
  <2>2. /\ gc'[g].at = "remove" /\ gc'[g].found = gc[g].found /\ gc'[g].doomed = gc[g].doomed
        /\ \/ gc'[g].deleted = gc[g].deleted
           \/ gc'[g].deleted = gc[g].deleted \cup {d} /\ blobs' = blobs \ {d}
    BY <1>0, <1>6, <2>1 DEF Remove, Collecting
  <2>3. /\ steady'[g].named \subseteq steady[g].named
        /\ steady'[g].cited \subseteq steady[g].cited
        /\ steady'[g].garbage \subseteq steady[g].garbage \cap blobs'
    BY <2>2, Narrowing
  <2>4. gc[g].doomed \cap gc[g].found = {}
    BY DEF CasTypeOK
  <2> QED
    BY <1>6, <2>2, <2>3, <2>4 DEF Remove, Knows, Spares, Cleans
<1>7. CASE EndCollect(g) \/ DieCollecting(g)
  <2>1. PICK at \in {"done", "abort"} :
          /\ gc'[g] = Ended(at, gc[g].deleted, gc[g].failed)
          /\ at = "done" => EndCollect(g)
    BY <1>0, <1>7 DEF EndCollect, DieCollecting
  <2>2. /\ gc'[g].at = at /\ gc'[g].found = {} /\ gc'[g].doomed = {}
        /\ gc'[g].deleted = gc[g].deleted /\ gc'[g].failed = gc[g].failed
    BY <2>1 DEF Ended
  <2>3. /\ steady'[g].named \subseteq steady[g].named
        /\ steady'[g].cited \subseteq steady[g].cited
        /\ steady'[g].garbage \subseteq steady[g].garbage
    BY <2>2, Narrowing
  <2>4. at = "done" => steady[g].garbage \subseteq gc[g].failed
    BY <1>7, <2>1 DEF EndCollect, Cleans
  <2> QED
    BY <2>1, <2>2, <2>3, <2>4 DEF Knows, Spares, Cleans
<1> QED
  BY <1>1, <1>2, <1>3, <1>4, <1>5, <1>6, <1>7 DEF Collect

-----------------------------------------------------------------------------
(***************************************************************************)
(* What import stored.                                                     *)
(***************************************************************************)
\* What an import newly reports is in the store at that moment.
LEMMA ImportStores ==
  ASSUME CasTypeOK, NEW p \in Importers, Import(p)
  PROVE  /\ blobs \subseteq blobs'
         /\ \A q \in Importers : importer'[q].stored \subseteq importer[q].stored \cup blobs'
<1> USE DEF CasTypeOK, Steps
<1>0. importer[p] \in Importing /\ importer \in [Importers -> Importing]
  OBVIOUS
<1>1. CASE BeginImport(p)
  BY <1>0, <1>1 DEF BeginImport
<1>2. CASE Copy(p)
  BY <1>0, <1>2 DEF Copy, Importing
<1>3. CASE Stat(p)
  BY <1>0, <1>3 DEF Stat, Reported, Importing
<1>4. CASE Rename(p)
  BY <1>0, <1>4 DEF Rename, Reported, Importing
<1>5. CASE CorrectSize(p)
  <2>1. UNCHANGED blobs
    BY <1>5 DEF CorrectSize
  <2>2. \A q \in Importers : importer'[q].stored \subseteq importer[q].stored
    <3> DEFINE i == importer[p]
               wrong == {d \in i.now : i.pg[d] = "wrong"}
               pg == [d \in Digests |-> IF d \in wrong THEN "right" ELSE i.pg[d]]
    <3>1. CASE wrong \subseteq blobs
      <4>1. importer' = [importer EXCEPT ![p].pg = pg,
              ![p].left = IF wrong = {} THEN @ ELSE 2, ![p].now = {}, ![p].at = "next"]
        BY <1>5, <3>1 DEF CorrectSize
      <4> HIDE DEF wrong, pg
      <4> QED
        BY <1>0, <4>1 DEF Importing
    <3>2. CASE ~ wrong \subseteq blobs
      <4>1. PICK t \in {i.stored, i.stored \ i.now} :
              importer' = [importer EXCEPT ![p].stored = t, ![p].now = {}, ![p].at = "next"]
        BY <1>5, <3>2 DEF CorrectSize
      <4> HIDE DEF wrong, pg
      <4> QED
        BY <1>0, <4>1 DEF Importing
    <3> QED
      BY <3>1, <3>2
  <2> QED
    BY <2>1, <2>2
<1>6. CASE Truncate(p)
  BY <1>0, <1>6 DEF Truncate, Importing
<1>7. CASE Fill(p)
  BY <1>0, <1>7 DEF Fill, Importing
<1>8. CASE EndImport(p) \/ DieImporting(p)
  BY <1>0, <1>8 DEF EndImport, DieImporting, Over
<1> QED
  BY <1>1, <1>2, <1>3, <1>4, <1>5, <1>6, <1>7, <1>8 DEF Import

\* A collector forgets nothing it has deleted, and deletes nothing else.
LEMMA CollectDeletes ==
  ASSUME CasTypeOK, NEW g \in Collectors, Collect(g), Knows(g)
  PROVE  /\ gc'[g].at # "idle"
         /\ gc[g].deleted \subseteq gc'[g].deleted
         /\ blobs \ blobs' \subseteq gc'[g].deleted
<1> USE DEF CasTypeOK, Stage
<1>0. gc[g] \in Collecting /\ gc \in [Collectors -> Collecting]
  OBVIOUS
<1>1. CASE BeginCollect(g)
  BY <1>0, <1>1 DEF BeginCollect, Collecting
<1>2. CASE ReadAttestation(g)
  BY <1>0, <1>2 DEF ReadAttestation, Collecting
<1>3. CASE ReadSource(g)
  BY <1>0, <1>3 DEF ReadSource, Collecting
<1>4. CASE Inspect(g)
  BY <1>0, <1>4 DEF Inspect, Collecting
<1>5. CASE Confirm(g)
  BY <1>0, <1>5 DEF Confirm, Ended, Knows, Collecting
<1>6. CASE Remove(g)
  BY <1>0, <1>6 DEF Remove, Collecting
<1>7. CASE EndCollect(g) \/ DieCollecting(g)
  BY <1>0, <1>7 DEF EndCollect, DieCollecting, Ended
<1> QED
  BY <1>1, <1>2, <1>3, <1>4, <1>5, <1>6, <1>7 DEF Collect

\* A collector that has deleted something has begun, and Recall only narrows
\* what has been so since.
LEMMA StillExcused ==
  ASSUME Recall, NEW g \in Collectors, NEW d, gc'[g].at # "idle",
         gc[g].deleted \subseteq gc'[g].deleted,
         d \in gc[g].deleted \ (steady[g].named \cup steady[g].cited)
  PROVE  d \in gc'[g].deleted \ (steady'[g].named \cup steady'[g].cited)
BY Narrowing

LEMMA ImportedKept ==
  ASSUME CasInv, Next
  PROVE  ImportedStay'
<1> SUFFICES ASSUME NEW p \in Importers, NEW d \in importer'[p].stored \ blobs'
             PROVE  \E g \in Collectors :
                      d \in gc'[g].deleted \ (steady'[g].named \cup steady'[g].cited)
  BY DEF ImportedStay
<1> USE DEF CasInv
<1>0. Recall
  BY DEF Next
<1>1. ASSUME NEW g \in Collectors, gc[g].deleted # {} PROVE gc[g].at # "idle"
  BY <1>1 DEF Knows
<1>2. ASSUME UNCHANGED gc, d \in importer[p].stored \ blobs
      PROVE  \E g \in Collectors :
               d \in gc'[g].deleted \ (steady'[g].named \cup steady'[g].cited)
  <2>1. PICK g \in Collectors : d \in gc[g].deleted \ (steady[g].named \cup steady[g].cited)
    BY <1>2 DEF ImportedStay
  <2> QED
    BY <1>0, <1>1, <1>2, <2>1, StillExcused
<1>3. CASE \E q \in Importers : Import(q)
  BY <1>2, <1>3, ImportTyped, ImportStores
<1>4. ASSUME NEW g \in Collectors, Collect(g)
      PROVE  \E h \in Collectors :
               d \in gc'[h].deleted \ (steady'[h].named \cup steady'[h].cited)
  <2>1. d \in importer[p].stored
    BY <1>4, CollectTyped
  <2>2. CASE d \in blobs
    <3>1. d \in gc'[g].deleted
      BY <1>4, <2>2, CollectDeletes
    <3>2. Spares(g)'
      BY <1>0, <1>4, Moving
    <3> QED
      BY <3>1, <3>2 DEF Spares
  <2>3. CASE d \notin blobs
    <3>1. PICK h \in Collectors : d \in gc[h].deleted \ (steady[h].named \cup steady[h].cited)
      BY <2>1, <2>3 DEF ImportedStay
    <3>2. gc[h].deleted \subseteq gc'[h].deleted /\ gc'[h].at # "idle"
      BY <1>1, <1>4, <3>1, CollectDeletes, CollectTyped
    <3> QED
      BY <1>0, <3>1, <3>2, StillExcused
  <2> QED
    BY <2>2, <2>3
<1>5. CASE Edit \/ \E e \in Digests : Cite(e) \/ Retract(e)
  BY <1>2, <1>5, EditTyped
<1> QED
  BY <1>3, <1>4, <1>5 DEF Next, Step

\* What is doomed is not found, and found no more once gc walks the store.
LEMMA DoomedUnfound ==
  ASSUME CasTypeOK, NEW g \in Collectors, Collect(g), Knows(g)
  PROVE  gc'[g].doomed \cap gc'[g].found = {}
<1> USE DEF CasTypeOK, Stage
<1>0. gc[g] \in Collecting /\ gc \in [Collectors -> Collecting]
  OBVIOUS
<1>1. CASE BeginCollect(g)
  BY <1>0, <1>1 DEF BeginCollect, Collecting
<1>2. CASE ReadAttestation(g)
  <2>1. gc'[g].doomed = gc[g].doomed
    BY <1>0, <1>2 DEF ReadAttestation, Collecting
  <2> QED
    BY <1>2, <2>1 DEF ReadAttestation, Knows
<1>3. CASE ReadSource(g)
  <2>1. gc'[g].doomed = gc[g].doomed
    BY <1>0, <1>3 DEF ReadSource, Collecting
  <2> QED
    BY <1>3, <2>1 DEF ReadSource, Knows
<1>4. CASE Inspect(g)
  <2>1. PICK d \in gc[g].todo :
          gc' = [gc EXCEPT ![g].todo = @ \ {d}, ![g].doomed = @ \cup Candidates(g, d)]
    BY <1>4 DEF Inspect
  <2>2. /\ gc'[g].doomed = gc[g].doomed \cup Candidates(g, d)
        /\ gc'[g].found = gc[g].found
    BY <1>0, <2>1 DEF Collecting
  <2> QED
    BY <2>2 DEF Candidates
<1>5. CASE Confirm(g)
  <2>1. CASE gc' = [gc EXCEPT ![g].at = "remove"]
    BY <1>0, <2>1 DEF Collecting
  <2>2. CASE gc' = [gc EXCEPT ![g] = Ended("abort", {}, {})]
    BY <1>0, <2>2 DEF Ended
  <2> QED
    BY <1>5, <2>1, <2>2 DEF Confirm
<1>6. CASE Remove(g)
  BY <1>0, <1>6 DEF Remove, Collecting
<1>7. CASE EndCollect(g) \/ DieCollecting(g)
  BY <1>0, <1>7 DEF EndCollect, DieCollecting, Ended
<1> QED
  BY <1>1, <1>2, <1>3, <1>4, <1>5, <1>6, <1>7 DEF Collect

-----------------------------------------------------------------------------
LEMMA Inductive ==
  ASSUME CasInv, [Next]_vars
  PROVE  CasInv'
<1>1. CASE Next
  <2> USE DEF CasInv
  <2>0. Recall
    BY <1>1 DEF Next
  <2>1. steady' \in [Collectors -> Memory]
    BY <2>0, RecallTyped
  <2>2. CASE \E p \in Importers : Import(p)
    <3>1. CasTypeOK'
      BY <2>1, <2>2, ImportTyped DEF CasTypeOK
    <3>2. \A g \in Collectors : Knows(g)' /\ Spares(g)' /\ Cleans(g)'
      BY <2>0, <2>2, ImportTyped, Waiting
    <3> QED
      BY <1>1, <3>1, <3>2, ImportedKept
  <2>3. CASE \E g \in Collectors : Collect(g)
    <3>0. PICK g \in Collectors : Collect(g)
      BY <2>3
    <3>1. \A h \in Collectors : Knows(h)' /\ Spares(h)' /\ Cleans(h)'
      BY <2>0, <3>0, CollectTyped, Waiting, Moving
    <3>2. gc'[g].doomed \cap gc'[g].found = {}
      BY <3>0, DoomedUnfound
    <3>3. CasTypeOK'
      BY <2>1, <3>0, <3>2, CollectTyped DEF CasTypeOK
    <3> QED
      BY <1>1, <3>1, <3>3, ImportedKept
  <2>4. CASE Edit \/ \E d \in Digests : Cite(d) \/ Retract(d)
    <3>1. CasTypeOK'
      BY <2>1, <2>4, EditTyped DEF CasTypeOK
    <3>2. \A g \in Collectors : Knows(g)' /\ Spares(g)' /\ Cleans(g)'
      BY <2>0, <2>4, EditTyped, Waiting
    <3> QED
      BY <1>1, <3>1, <3>2, ImportedKept
  <2> QED
    BY <1>1, <2>2, <2>3, <2>4 DEF Next, Step
<1>2. CASE UNCHANGED vars
  BY <1>2 DEF vars, CasInv, CasTypeOK, Knows, Spares, Cleans, ImportedStay
<1> QED
  BY <1>1, <1>2

LEMMA CasIsInv == Spec => []CasInv
BY InitialState, Inductive, PTL DEF Spec

\* The variables of imports and collectors keep their types, and no collector
\* dooms what it has found referenced.
THEOREM CasTyped == Spec => []CasTypeOK
BY CasIsInv, PTL DEF CasInv

\* cmdCasGC deletes no blob that the graph, or an attestation, has named all the
\* time since it began, whatever else runs.
THEOREM ReferencedAreSpared == Spec => []ReferencedStay
<1>1. CasInv => ReferencedStay
  BY DEF CasInv, Spares, ReferencedStay
<1> QED
  BY <1>1, CasIsInv, PTL

\* A file that Store reported is in the store unless such a gc has deleted it.
THEOREM ImportedAreKept == Spec => []ImportedStay
BY CasIsInv, PTL DEF CasInv

\* A gc that ran to its end has deleted all that was garbage from its beginning
\* on, or reported that it could not.
THEOREM GarbageIsCollected == Spec => []GarbageGoes
<1>1. CasInv => GarbageGoes
  BY DEF CasInv, Cleans, GarbageGoes
<1> QED
  BY <1>1, CasIsInv, PTL
=============================================================================
