----------------------------- MODULE ReplayProofs -----------------------------
(***************************************************************************)
(* For every invocation of replay and every amount of meddling: types,     *)
(* what the attestations it writes rest on, and what its exit status says. *)
(***************************************************************************)
EXTENDS Replay, TLAPS

-----------------------------------------------------------------------------
Busy == pc \in {"generate", "hash", "check", "judge", "giveUp", "write"}
AtItem == pc \in {"generate", "hash", "check"}

\* While an entry is at work there is a certificate and a result for each of its
\* items, and i is one of them.
TypeInv ==
  /\ TypeOK
  /\ Busy => /\ e \in DOMAIN job.entries
             /\ DOMAIN certs = Items /\ DOMAIN results = Items
             /\ pending \subseteq DOMAIN entry.claims
  /\ AtItem => i \in Items

-----------------------------------------------------------------------------
\* The entry at work.
LEMMA EntryTyped ==
  ASSUME TypeInv, e \in DOMAIN job.entries
  PROVE  /\ job \in JobType /\ entry \in EntryType
         /\ Len(entry.evidence) \in Nat /\ Items = 1 .. Len(entry.evidence)
         /\ \A k \in DOMAIN entry.claims : k \in Nat /\ entry.claims[k] \in Claims
         /\ \A k \in Items : entry.evidence[k] \in Evidence
         /\ e \in Nat /\ e <= Len(job.entries) /\ e + 1 \in 1 .. Len(job.entries) + 1
<1>1. job \in JobType
  BY JobsAssumption DEF TypeInv, TypeOK
<1>2. job.entries \in Seq(EntryType)
  BY <1>1 DEF JobType
<1>3. entry \in EntryType
  BY <1>2 DEF entry
<1>4. entry.claims \in Seq(Claims) /\ entry.evidence \in Seq(Evidence)
  BY <1>3 DEF EntryType
<1>5. Len(entry.evidence) \in Nat /\ Items = 1 .. Len(entry.evidence)
  BY <1>4 DEF Items
<1>6. e \in Nat /\ e <= Len(job.entries) /\ e + 1 \in 1 .. Len(job.entries) + 1
  BY <1>2
<1> QED
  BY <1>1, <1>3, <1>4, <1>5, <1>6 DEF Items

LEMMA Replaced ==
  ASSUME NEW S, NEW s \in Seq(S), NEW k \in DOMAIN s, NEW x \in S
  PROVE  LET t == [s EXCEPT ![k] = x]
         IN  /\ t \in Seq(S) /\ DOMAIN t = DOMAIN s /\ t[k] = x
             /\ \A l \in DOMAIN s \ {k} : t[l] = s[l]
OBVIOUS

\* The updates of one result.
LEMMA Updated ==
  ASSUME NEW r \in ResultType
  PROVE  /\ \A b \in BOOLEAN : [r EXCEPT !.made = b] \in ResultType
         /\ \A x \in Contents : [r EXCEPT !.hashed = x] \in ResultType
         /\ \A x \in {"zero", "nonzero", "unstarted"}, y \in Contents :
              [r EXCEPT !.exit = x, !.judged = y] \in ResultType
         /\ [r EXCEPT !.moved = TRUE] \in ResultType
BY DEF ResultType, Contents

\* What the updates of one item leave of a run.
LEMMA ItemStep ==
  ASSUME TypeInv, NEW k \in DOMAIN results, NEW x \in ResultType,
         results' = [results EXCEPT ![k] = x]
  PROVE  /\ results' \in Seq(ResultType) /\ DOMAIN results' = DOMAIN results /\ results'[k] = x
         /\ \A l \in DOMAIN results \ {k} : results'[l] = results[l]
BY Replaced DEF TypeInv, TypeOK

LEMMA CertStep ==
  ASSUME TypeInv, NEW k \in DOMAIN certs, NEW x \in Contents, certs' = [certs EXCEPT ![k] = x]
  PROVE  /\ certs' \in Seq(Contents) /\ DOMAIN certs' = DOMAIN certs /\ certs'[k] = x
         /\ \A l \in DOMAIN certs \ {k} : certs'[l] = certs[l]
BY Replaced DEF TypeInv, TypeOK

\* A run that dies.
LEMMA DieTyped ==
  ASSUME TypeInv, Die, keep, keepFiles
  PROVE  TypeInv'
BY DEF TypeInv, TypeOK, Die, keep, keepFiles, Busy, AtItem

-----------------------------------------------------------------------------
LEMMA InitTyped == Init => TypeInv
<1> SUFFICES ASSUME Init PROVE TypeInv
  OBVIOUS
<1>1. job \in JobType
  BY JobsAssumption DEF Init
<1>2. Len(job.entries) \in Nat
  BY <1>1 DEF JobType
<1>3. e \in 1 .. Len(job.entries) + 1
  BY <1>2 DEF Init
<1>4. store \in [Claims -> Attestations] /\ loaded \in [Claims -> Attestations]
  BY FilesAssumption DEF Init, Attestations
<1>5. meddling \in 0 .. MaxMeddling
  <2>1. meddling = 0
    BY DEF Init
  <2> QED
    BY <2>1, MeddlingAssumption
<1>6. /\ job \in Jobs /\ hints \in Hints /\ cas = {} /\ pc = "load" /\ i \in Nat
      /\ pending = {} /\ failed = {} /\ partial \in BOOLEAN /\ code \in {0, 1} /\ wrote = {}
  BY DEF Init
<1>7. certs \in Seq(Contents) /\ results \in Seq(ResultType)
  <2>1. certs = <<>> /\ results = <<>>
    BY DEF Init
  <2> QED
    BY <2>1
<1>8. TypeOK
  BY <1>3, <1>4, <1>5, <1>6, <1>7 DEF TypeOK
<1> QED
  BY <1>6, <1>8 DEF TypeInv, Busy, AtItem

LEMMA BeginTyped ==
  ASSUME TypeInv, pc = "entry", e <= Len(job.entries), Begin, keep, keepFiles
  PROVE  TypeInv'
<1>1. e \in DOMAIN job.entries
  <2>1. job.entries \in Seq(EntryType)
    BY JobsAssumption DEF TypeInv, TypeOK, JobType
  <2> QED
    BY <2>1 DEF TypeInv, TypeOK
<1>2. /\ Items = 1 .. Len(entry.evidence) /\ Len(entry.evidence) \in Nat
      /\ e + 1 \in 1 .. Len(job.entries) + 1
      /\ \A k \in DOMAIN entry.claims : k \in Nat
  BY <1>1, EntryTyped
<1>3. /\ certs' \in Seq(Contents) /\ DOMAIN certs' = Items
      /\ results' \in Seq(ResultType) /\ DOMAIN results' = Items
  <2>1. "absent" \in Contents /\ NoResult \in ResultType
    BY DEF Contents, NoResult, ResultType
  <2> QED
    BY <1>2, <2>1 DEF Begin
<1>4. pending' \subseteq DOMAIN entry.claims /\ pending' \subseteq Nat
  BY <1>2 DEF Begin
<1>5. UNCHANGED <<job, hints, meddling, store, cas, partial, wrote, loaded, failed, code>>
  BY DEF Begin, keep, keepFiles
<1>6. CASE pending' = {}
  <2>1. e' = e + 1 /\ pc' = pc /\ i' = 1
    BY <1>6 DEF Begin
  <2>2. TypeOK'
    BY <1>2, <1>3, <1>4, <1>5, <2>1 DEF TypeInv, TypeOK
  <2> QED
    BY <2>1, <2>2 DEF TypeInv, Busy, AtItem
<1>7. CASE pending' # {}
  <2>1. e' = e /\ pc' = (IF Items = {} THEN "judge" ELSE "generate") /\ i' = 1
    BY <1>7 DEF Begin
  <2>2. TypeOK'
    BY <1>3, <1>4, <1>5, <2>1 DEF TypeInv, TypeOK
  <2>3. entry' = entry /\ Items' = Items
    BY <1>5, <2>1 DEF entry, Items
  <2>4. Items # {} => 1 \in Items
    BY <1>2
  <2> QED
    BY <1>1, <1>3, <1>4, <1>5, <2>1, <2>2, <2>3, <2>4 DEF TypeInv, Busy, AtItem
<1> QED
  BY <1>6, <1>7

\* Steps at an item: what they may do to the state.
LEMMA AtItemTyped ==
  ASSUME TypeInv, AtItem, pc' \in {"generate", "hash", "check", "judge", "giveUp"},
         UNCHANGED <<job, hints, meddling, store, partial, wrote, loaded, e, pending, failed, code>>,
         i' = i \/ i' = i + 1 \/ i' = 1,
         pc' \in {"generate", "hash", "check"} => i' \in Items,
         cas' \subseteq Evidence \cup {"stray"},
         certs' \in Seq(Contents), DOMAIN certs' = DOMAIN certs,
         results' \in Seq(ResultType), DOMAIN results' = DOMAIN results
  PROVE  TypeInv'
<1>1. entry' = entry /\ Items' = Items
  BY DEF entry, Items
<1>2. i' \in Nat
  BY DEF TypeInv, TypeOK
<1>3. TypeOK'
  BY <1>2 DEF TypeInv, TypeOK
<1>4. Busy
  BY DEF Busy, AtItem
<1> QED
  BY <1>1, <1>3, <1>4 DEF TypeInv, AtItem, Busy

LEMMA ImportTyped ==
  ASSUME TypeInv, NEW d \in Evidence
  PROVE  Imported(d) \subseteq Evidence \cup {"stray"}
BY DEF Imported, TypeInv, TypeOK

LEMMA RunTyped ==
  ASSUME TypeInv, ReplayStep
  PROVE  TypeInv'
<1> USE DEF keep, keepFiles
<1>0. AtItem => /\ Busy /\ e \in DOMAIN job.entries /\ i \in DOMAIN results /\ i \in DOMAIN certs
                /\ i \in Items /\ results[i] \in ResultType /\ certs[i] \in Contents
                /\ Items = 1 .. Len(entry.evidence) /\ Len(entry.evidence) \in Nat
                /\ (i < Len(entry.evidence) => i + 1 \in Items) /\ 1 \in Items
                /\ entry.evidence[i] \in Evidence
  <2> SUFFICES ASSUME AtItem
               PROVE  /\ Busy /\ e \in DOMAIN job.entries /\ i \in DOMAIN results /\ i \in DOMAIN certs
                      /\ i \in Items /\ results[i] \in ResultType /\ certs[i] \in Contents
                      /\ Items = 1 .. Len(entry.evidence) /\ Len(entry.evidence) \in Nat
                      /\ (i < Len(entry.evidence) => i + 1 \in Items) /\ 1 \in Items
                      /\ entry.evidence[i] \in Evidence
    OBVIOUS
  <2>1. Busy
    BY DEF AtItem, Busy
  <2>2. /\ e \in DOMAIN job.entries /\ i \in DOMAIN results /\ i \in DOMAIN certs
        /\ i \in Items
    BY <2>1 DEF TypeInv
  <2>3. results[i] \in ResultType /\ certs[i] \in Contents
    BY <2>2 DEF TypeInv, TypeOK
  <2>4. /\ Items = 1 .. Len(entry.evidence) /\ Len(entry.evidence) \in Nat
        /\ entry.evidence[i] \in Evidence
    BY <2>2, EntryTyped
  <2> QED
    BY <2>1, <2>2, <2>3, <2>4
<1>1. CASE Load
  BY <1>1 DEF Load, TypeInv, TypeOK, Busy, AtItem
<1>2. CASE BeginEntry
  BY <1>2, BeginTyped, DieTyped DEF BeginEntry
<1>3. CASE DryRun
  BY <1>3 DEF DryRun, TypeInv, TypeOK, Busy, AtItem
<1>4. ASSUME NEW content \in Contents, Generate(content)
      PROVE  TypeInv'
  <2>1. AtItem
    BY <1>4 DEF Generate, AtItem
  <2>2. certs' \in Seq(Contents) /\ DOMAIN certs' = DOMAIN certs
    BY <1>0, <1>4, <2>1, CertStep DEF Generate
  <2>3. (~ job.reuse) \in BOOLEAN
    OBVIOUS
  <2>4. results' \in Seq(ResultType) /\ DOMAIN results' = DOMAIN results
    <3>1. [results[i] EXCEPT !.made = ~ job.reuse] \in ResultType
      BY <1>0, <2>1, <2>3, Updated
    <3> QED
      BY <1>0, <1>4, <2>1, <3>1, ItemStep DEF Generate
  <2>5. cas' \subseteq Evidence \cup {"stray"}
    BY <1>0, <1>4, <2>1, ImportTyped DEF Generate
  <2>6. /\ pc' \in {"generate", "hash", "check"} /\ (i' = i \/ i' = i + 1 \/ i' = 1)
        /\ i' \in Items
    BY <1>0, <1>4, <2>1 DEF Generate
  <2> QED
    BY <1>4, <2>1, <2>2, <2>4, <2>5, <2>6, AtItemTyped DEF Generate
<1>5. CASE GeneratorFails
  <2>1. AtItem
    BY <1>5 DEF GeneratorFails, AtItem
  <2>2. cas' \subseteq Evidence \cup {"stray"}
    BY <1>0, <1>5, <2>1, ImportTyped DEF GeneratorFails
  <2>3. /\ pc' \in {"generate", "judge", "giveUp"} /\ i' = i + 1
        /\ pc' = "generate" => i' \in Items
    BY <1>0, <1>5, <2>1 DEF GeneratorFails, AfterFailure, AfterItem
  <2> QED
    BY <1>5, <2>1, <2>2, <2>3, AtItemTyped DEF GeneratorFails, TypeInv, TypeOK
<1>6. CASE Hash
  <2>1. AtItem
    BY <1>6 DEF Hash, AtItem
  <2>2. CASE single /\ certs[i] = "absent"
    BY <1>6, <2>2, DieTyped DEF Hash
  <2>3. CASE ~ (single /\ certs[i] = "absent")
    <3>1. [results[i] EXCEPT !.hashed = certs[i]] \in ResultType
      BY <1>0, <2>1, Updated
    <3>2. results' \in Seq(ResultType) /\ DOMAIN results' = DOMAIN results
      BY <1>0, <1>6, <2>1, <2>3, <3>1, ItemStep DEF Hash
    <3>3. /\ pc' \in {"check", "judge"} /\ (i' = i \/ i' = i + 1)
          /\ pc' = "check" => i' \in Items
      BY <1>0, <1>6, <2>1, <2>3 DEF Hash
    <3> QED
      BY <1>6, <2>1, <2>3, <3>2, <3>3, AtItemTyped DEF Hash, TypeInv, TypeOK
  <2> QED
    BY <2>2, <2>3
<1>7. ASSUME NEW exit \in {"zero", "nonzero", "unstarted"}, Check(exit)
      PROVE  TypeInv'
  <2>1. AtItem
    BY <1>7 DEF Check, AtItem
  <2>2. [results[i] EXCEPT !.exit = exit, !.judged = CertOf(i)] \in ResultType
    BY <1>0, <2>1, Updated DEF CertOf
  <2>3. results' \in Seq(ResultType) /\ DOMAIN results' = DOMAIN results
    BY <1>0, <1>7, <2>1, <2>2, ItemStep DEF Check
  <2>4. /\ pc' \in {"generate", "judge", "hash"} /\ (i' = i \/ i' = i + 1)
        /\ pc' \in {"generate", "hash"} => i' \in Items
    BY <1>0, <1>7, <2>1 DEF Check, AfterItem
  <2> QED
    BY <1>7, <2>1, <2>3, <2>4, AtItemTyped DEF Check, TypeInv, TypeOK
<1>8. CASE Judge
  <2>1. entry' = entry /\ Items' = Items
    BY <1>8 DEF Judge, entry, Items
  <2> QED
    BY <1>8, <2>1 DEF Judge, TypeInv, TypeOK, Busy, AtItem
<1>9. ASSUME Busy
      PROVE  /\ e + 1 \in 1 .. Len(job.entries) + 1
             /\ \A k \in pending : entry.claims[k] \in Claims
  BY <1>9, EntryTyped DEF TypeInv
<1>10. CASE GiveUp
  <2>1. Busy
    BY <1>10 DEF GiveUp, Busy
  <2>2. pc' = "entry" /\ e' = e + 1
    BY <1>10 DEF GiveUp
  <2> QED
    BY <1>9, <1>10, <2>1, <2>2 DEF GiveUp, TypeInv, TypeOK, Busy, AtItem
<1>11. CASE Write
  <2>1. Busy
    BY <1>11 DEF Write, Busy
  <2>2. PICK k \in pending :
          /\ store' = [store EXCEPT ![entry.claims[k]] = Attested]
          /\ wrote' = wrote \cup {[claim |-> entry.claims[k], semantic |-> entry.semantic,
                                   items |-> results]}
          /\ pending' = pending \ {k}
    BY <1>11 DEF Write
  <2>3. entry' = entry /\ Items' = Items
    BY <1>11 DEF Write, keep, entry, Items
  <2>4. store' \in [Claims -> Attestations]
    BY <2>2 DEF TypeInv, TypeOK, Attestations
  <2>5. entry.claims[k] \in Claims /\ entry.semantic \in BOOLEAN
    BY <1>9, <2>1, EntryTyped DEF TypeInv, EntryType
  <2>6. \A w \in wrote' :
          w.claim \in Claims /\ w.semantic \in BOOLEAN /\ w.items \in Seq(ResultType)
    BY <2>2, <2>5 DEF TypeInv, TypeOK
  <2>7. TypeOK'
    BY <1>11, <2>2, <2>4, <2>6 DEF Write, TypeInv, TypeOK
  <2> QED
    BY <1>11, <2>1, <2>2, <2>3, <2>7 DEF Write, TypeInv, Busy, AtItem
<1>12. CASE WriteFails
  <2>1. CASE single
    BY <1>12, <2>1, DieTyped DEF WriteFails
  <2>2. CASE ~ single
    <3>1. PICK k \in pending : failed' = failed \cup {entry.claims[k]} /\ pending' = pending \ {k}
      BY <1>12, <2>2 DEF WriteFails, NotWritten
    <3>2. Busy /\ entry.claims[k] \in Claims
      BY <1>9, <1>12 DEF WriteFails, Busy
    <3>3. entry' = entry /\ Items' = Items
      BY <1>12, <2>2 DEF WriteFails, entry, Items
    <3>4. TypeOK'
      BY <1>12, <2>2, <3>1, <3>2 DEF WriteFails, TypeInv, TypeOK
    <3> QED
      BY <1>12, <2>2, <3>1, <3>2, <3>3, <3>4 DEF WriteFails, TypeInv, Busy, AtItem
  <2> QED
    BY <2>1, <2>2
<1>13. CASE Written
  <2>1. Busy
    BY <1>13 DEF Written, Busy
  <2> QED
    BY <1>9, <1>13, <2>1 DEF Written, TypeInv, TypeOK, Busy, AtItem
<1>14. CASE Finish
  BY <1>14 DEF Finish, ExitCode, TypeInv, TypeOK, Busy, AtItem
<1> QED
  BY <1>1, <1>2, <1>3, <1>4, <1>5, <1>6, <1>7, <1>8, <1>10, <1>11, <1>12, <1>13, <1>14
  DEF ReplayStep

LEMMA OthersTyped ==
  ASSUME TypeInv,
         \/ \E k \in DOMAIN certs, content \in Contents : Tamper(k, content)
         \/ \E c \in Claims, att \in Attestations : Other(c, att)
  PROVE  TypeInv'
<1> USE DEF others
<1>0. meddling < MaxMeddling /\ meddling' = meddling + 1 => meddling' \in 0 .. MaxMeddling
  BY MeddlingAssumption DEF TypeInv, TypeOK
<1>1. ASSUME NEW k \in DOMAIN certs, NEW content \in Contents, Tamper(k, content)
      PROVE  TypeInv'
  <2>1. AtItem /\ Busy
    BY <1>1 DEF Tamper, AtItem, Busy
  <2>2. k \in DOMAIN results
    BY <2>1 DEF TypeInv
  <2>3. results[k] \in ResultType
    BY <2>2 DEF TypeInv, TypeOK
  <2>4. [results[k] EXCEPT !.moved = TRUE] \in ResultType
    BY <2>3, Updated
  <2>5. certs' \in Seq(Contents) /\ DOMAIN certs' = DOMAIN certs
    BY <1>1, CertStep DEF Tamper
  <2>6. results' \in Seq(ResultType) /\ DOMAIN results' = DOMAIN results
    BY <1>1, <2>2, <2>4, ItemStep DEF Tamper
  <2>7. entry' = entry /\ Items' = Items
    BY <1>1 DEF Tamper, entry, Items
  <2>8. TypeOK'
    BY <1>0, <1>1, <2>5, <2>6 DEF Tamper, TypeInv, TypeOK
  <2> QED
    BY <1>1, <2>1, <2>5, <2>6, <2>7, <2>8 DEF Tamper, TypeInv, Busy, AtItem
<1>2. ASSUME NEW c \in Claims, NEW att \in Attestations, Other(c, att)
      PROVE  TypeInv'
  <2>1. entry' = entry /\ Items' = Items
    BY <1>2 DEF Other, entry, Items
  <2>2. TypeOK'
    BY <1>0, <1>2 DEF Other, TypeInv, TypeOK
  <2> QED
    BY <1>2, <2>1, <2>2 DEF Other, TypeInv, Busy, AtItem
<1> QED
  BY <1>1, <1>2

LEMMA NextTyped ==
  ASSUME TypeInv, [Next]_vars
  PROVE  TypeInv'
<1>1. CASE UNCHANGED vars
  <2>1. entry' = entry /\ Items' = Items
    BY <1>1 DEF vars, entry, Items
  <2> QED
    BY <1>1, <2>1 DEF vars, TypeInv, TypeOK, Busy, AtItem
<1> QED
  BY <1>1, RunTyped, OthersTyped DEF Next

-----------------------------------------------------------------------------
(***************************************************************************)
(* What is known of the items while an entry is at work.                   *)
(***************************************************************************)
Made(r) == r.made \/ job.reuse

\* A checked item was made, and its digest is that of what was checked.
ItemInv(r) ==
  /\ r.exit # "none" => r.judged # "none" /\ Made(r)
  /\ r.hashed = "none" \/ r.judged = "none" \/ r.hashed = r.judged \/ r.moved

\* cmdReplay: item i is made, hashed, checked; no later one has been checked.
SingleInv ==
  /\ AtItem => \A k \in Items : k >= i => results[k].judged = "none"
  /\ pc \in {"hash", "check"} => Made(results[i])
  /\ pc = "check" => results[i].hashed = certs[i] \/ results[i].moved

\* The batch: all items are made, then each is checked and hashed.
BatchInv ==
  /\ pc = "generate" => \A k \in Items : /\ k < i => Made(results[k])
                                         /\ results[k].hashed = "none"
  /\ pc \in {"check", "hash"} => \A k \in Items : Made(results[k])
  /\ pc = "check" => \A k \in Items : k >= i => results[k].hashed = "none"
  /\ pc = "hash" => /\ \A k \in Items : k > i => results[k].hashed = "none"
                    /\ results[i].judged = certs[i] \/ results[i].moved

ItemsInv ==
  /\ Busy => \A k \in Items : ItemInv(results[k])
  /\ IF single THEN SingleInv ELSE BatchInv
  /\ pc = "write" => AllPass

WroteInv == AcceptedMeansReplayed /\ SameCertificate

\* One result is replaced, the run stays with its entry.
LEMMA ItemMoved ==
  ASSUME TypeInv, AtItem, NEW x \in ResultType, ItemInv(x), UNCHANGED <<job, e>>,
         results' = [results EXCEPT ![i] = x], \A k \in Items : ItemInv(results[k])
  PROVE  /\ Items' = Items /\ (\A k \in Items : ItemInv(results[k]))'
         /\ i \in Items /\ results'[i] = x /\ \A k \in Items \ {i} : results'[k] = results[k]
         /\ \A r : Made(r)' <=> Made(r)
<1>1. Items' = Items
  BY DEF Items, entry
<1>2. Busy /\ DOMAIN results = Items /\ i \in Items
  BY DEF TypeInv, Busy, AtItem
<1>3. results'[i] = x /\ \A k \in Items \ {i} : results'[k] = results[k]
  BY <1>2, ItemStep
<1>4. \A r : (ItemInv(r)' <=> ItemInv(r)) /\ (Made(r)' <=> Made(r))
  BY DEF ItemInv, Made
<1>5. \A k \in Items : ItemInv(results'[k])
  BY <1>3
<1> QED
  BY <1>1, <1>2, <1>3, <1>4, <1>5

\* An entry of which nothing is changed.
LEMMA ItemsSame ==
  ASSUME UNCHANGED <<job, e, results, certs>>
  PROVE  /\ Items' = Items /\ single' = single /\ AllPass' = AllPass
         /\ (\A k \in Items : ItemInv(results[k]))' <=> \A k \in Items : ItemInv(results[k])
<1>1. Items' = Items /\ single' = single /\ entry' = entry
  BY DEF Items, entry, single
<1>2. \A r : (ItemInv(r)' <=> ItemInv(r)) /\ (Pass(r)' <=> Pass(r))
  BY <1>1 DEF ItemInv, Made, Pass, DigestMatch
<1> QED
  BY <1>1, <1>2 DEF AllPass

LEMMA BeginItems ==
  ASSUME TypeInv, TypeInv', pc = "entry", Begin, keep, keepFiles
  PROVE  ItemsInv'
<1>1. CASE pending' = {}
  BY <1>1 DEF Begin, keep, ItemsInv, SingleInv, BatchInv, Busy, AtItem, single
<1>2. CASE pending' # {}
  <2>1. e' = e /\ pc' \in {"judge", "generate"} /\ i' = 1 /\ job' = job
    BY <1>2 DEF Begin, keep
  <2>2. Items' = Items /\ single' = single
    BY <2>1 DEF Items, entry, single
  <2>3. \A k \in Items : results'[k] = NoResult
    BY DEF Begin
  <2>4. Items \subseteq Nat \ {0}
    <3>1. e \in DOMAIN job.entries
      BY <2>1, <1>2 DEF TypeInv, Busy
    <3> QED
      BY <3>1, EntryTyped
  <2>5. (\A k \in Items : ItemInv(results[k]))'
    BY <2>2, <2>3 DEF ItemInv, NoResult
  <2>6. \A k \in Items : k >= 1 /\ results'[k].judged = "none" /\ results'[k].hashed = "none"
    BY <2>3, <2>4 DEF NoResult
  <2>7. SingleInv'
    BY <2>1, <2>2, <2>6 DEF SingleInv
  <2>8. BatchInv'
    <3>1. \A k \in Items : ~ (k < 1)
      BY <2>4
    <3> QED
      BY <2>1, <2>2, <2>6, <3>1 DEF BatchInv
  <2> QED
    BY <2>1, <2>5, <2>7, <2>8 DEF ItemsInv
<1> QED
  BY <1>1, <1>2

LEMMA ItemsStep ==
  ASSUME TypeInv, TypeInv', ItemsInv, ReplayStep
  PROVE  ItemsInv'
<1> USE DEF keep, keepFiles
<1>0. AtItem => /\ Busy /\ i \in Items /\ results[i] \in ResultType /\ certs[i] \in Contents
                /\ DOMAIN results = Items /\ DOMAIN certs = Items
                /\ Items = 1 .. Len(entry.evidence) /\ Len(entry.evidence) \in Nat
                /\ \A k \in Items : ItemInv(results[k])
  <2> SUFFICES ASSUME AtItem
               PROVE  /\ Busy /\ i \in Items /\ results[i] \in ResultType /\ certs[i] \in Contents
                      /\ DOMAIN results = Items /\ DOMAIN certs = Items
                      /\ Items = 1 .. Len(entry.evidence) /\ Len(entry.evidence) \in Nat
                      /\ \A k \in Items : ItemInv(results[k])
    OBVIOUS
  <2>1. Busy
    BY DEF AtItem, Busy
  <2>2. /\ e \in DOMAIN job.entries /\ i \in Items /\ DOMAIN results = Items /\ DOMAIN certs = Items
    BY <2>1 DEF TypeInv
  <2>3. results[i] \in ResultType /\ certs[i] \in Contents
    BY <2>2 DEF TypeInv, TypeOK
  <2>4. Items = 1 .. Len(entry.evidence) /\ Len(entry.evidence) \in Nat
    BY <2>2, EntryTyped
  <2> QED
    BY <2>1, <2>2, <2>3, <2>4 DEF ItemsInv
<1>1. CASE ~ Busy' /\ job' = job
  BY <1>1 DEF ItemsInv, SingleInv, BatchInv, Busy, AtItem, single
<1>2. CASE BeginEntry
  BY <1>1, <1>2, BeginItems DEF BeginEntry, Die, Busy
<1>3. ASSUME NEW content \in Contents, Generate(content)
      PROVE  ItemsInv'
  <2> DEFINE x == [results[i] EXCEPT !.made = ~ job.reuse]
  <2>1. AtItem /\ pc = "generate" /\ UNCHANGED <<job, e>> /\ results' = [results EXCEPT ![i] = x]
    BY <1>3 DEF Generate, AtItem
  <2>2. /\ x.made = ~ job.reuse /\ x.hashed = results[i].hashed /\ x.exit = results[i].exit
        /\ x.judged = results[i].judged /\ x.moved = results[i].moved /\ x \in ResultType
    BY <1>0, <2>1 DEF ResultType
  <2> HIDE DEF x
  <2>3. Made(x) /\ ItemInv(x)
    BY <1>0, <2>1, <2>2 DEF ItemInv, Made
  <2>4. /\ Items' = Items /\ (\A k \in Items : ItemInv(results[k]))'
        /\ i \in Items /\ results'[i] = x /\ \A k \in Items \ {i} : results'[k] = results[k]
        /\ \A r : Made(r)' <=> Made(r)
    BY <1>0, <2>1, <2>2, <2>3, ItemMoved
  <2>5. CASE single
    <3>1. single' /\ pc' = "hash" /\ i' = i
      BY <1>3, <2>5 DEF Generate, single
    <3>2. SingleInv'
      BY <2>1, <2>2, <2>3, <2>4, <2>5, <3>1 DEF SingleInv, ItemsInv, AtItem
    <3> QED
      BY <2>4, <3>1, <3>2 DEF ItemsInv
  <2>6. CASE ~ single
    <3>1. ~ single'
      BY <2>1, <2>6 DEF single
    <3>2. BatchInv
      BY <2>6 DEF ItemsInv
    <3>3. CASE i < Len(entry.evidence)
      <4>1. i' = i + 1 /\ pc' = "generate"
        BY <1>3, <2>6, <3>3 DEF Generate
      <4>2. BatchInv'
        BY <1>0, <2>1, <2>2, <2>3, <2>4, <3>2, <4>1 DEF BatchInv
      <4> QED
        BY <2>4, <3>1, <4>1, <4>2 DEF ItemsInv
    <3>4. CASE ~ (i < Len(entry.evidence))
      <4>1. i' = 1 /\ pc' = "check"
        BY <1>3, <2>6, <3>4 DEF Generate
      <4>2. \A k \in Items \ {i} : k < i
        BY <1>0, <2>1, <3>4
      <4>3. BatchInv'
        BY <2>1, <2>2, <2>3, <2>4, <3>2, <4>1, <4>2 DEF BatchInv
      <4> QED
        BY <2>4, <3>1, <4>1, <4>3 DEF ItemsInv
    <3> QED
      BY <3>3, <3>4
  <2> QED
    BY <2>5, <2>6
<1>4. CASE GeneratorFails
  <2>1. AtItem /\ pc = "generate" /\ UNCHANGED <<job, e, results, certs>> /\ i' = i + 1
    BY <1>4 DEF GeneratorFails, AtItem
  <2>2. /\ Items' = Items /\ single' = single
        /\ (\A k \in Items : ItemInv(results[k]))'
    BY <1>0, <2>1, ItemsSame
  <2>3. CASE single
    <3>1. pc' \in {"generate", "judge"}
      BY <1>4, <2>3 DEF GeneratorFails, AfterFailure, AfterItem
    <3>2. \A k \in Items : k >= i' => k >= i
      BY <1>0, <2>1
    <3>3. SingleInv'
      BY <2>1, <2>2, <2>3, <3>1, <3>2 DEF SingleInv, ItemsInv, AtItem
    <3> QED
      BY <2>2, <2>3, <3>1, <3>3 DEF ItemsInv
  <2>4. CASE ~ single
    <3>1. pc' = "giveUp"
      BY <1>4, <2>4 DEF GeneratorFails, AfterFailure
    <3> QED
      BY <2>2, <2>4, <3>1 DEF ItemsInv, BatchInv
  <2> QED
    BY <2>3, <2>4
<1>5. CASE Hash
  <2>1. CASE single /\ certs[i] = "absent"
    BY <1>1, <1>5, <2>1 DEF Hash, Die, Busy
  <2>2. CASE ~ (single /\ certs[i] = "absent")
    <3> DEFINE x == [results[i] EXCEPT !.hashed = certs[i]]
    <3>1. /\ AtItem /\ pc = "hash" /\ UNCHANGED <<job, e, certs>>
          /\ results' = [results EXCEPT ![i] = x]
      BY <1>5, <2>2 DEF Hash, AtItem
    <3>2. /\ x.made = results[i].made /\ x.hashed = certs[i] /\ x.exit = results[i].exit
          /\ x.judged = results[i].judged /\ x.moved = results[i].moved /\ x \in ResultType
      BY <1>0, <3>1 DEF ResultType
    <3> HIDE DEF x
    <3>3. ItemInv(results[i])
      BY <1>0, <3>1
    <3>4. Made(x) <=> Made(results[i])
      BY <3>2 DEF Made
    <3>5. CASE single
      <4>1. results[i].judged = "none" /\ Made(results[i])
        BY <1>0, <3>1, <3>5 DEF ItemsInv, SingleInv
      <4>2. ItemInv(x)
        BY <3>2, <3>3, <3>4, <4>1 DEF ItemInv
      <4>3. /\ Items' = Items /\ (\A k \in Items : ItemInv(results[k]))'
            /\ i \in Items /\ results'[i] = x /\ \A k \in Items \ {i} : results'[k] = results[k]
            /\ \A r : Made(r)' <=> Made(r)
        BY <1>0, <3>1, <3>2, <4>2, ItemMoved
      <4>4. single' /\ pc' = "check" /\ i' = i
        BY <1>5, <2>2, <3>5 DEF Hash, single
      <4>5. SingleInv'
        BY <3>1, <3>2, <3>4, <3>5, <4>1, <4>3, <4>4 DEF SingleInv, ItemsInv, AtItem
      <4> QED
        BY <4>3, <4>4, <4>5 DEF ItemsInv
    <3>6. CASE ~ single
      <4>1. BatchInv
        BY <3>6 DEF ItemsInv
      <4>2. results[i].judged = certs[i] \/ results[i].moved
        BY <3>1, <4>1 DEF BatchInv
      <4>3. ItemInv(x)
        BY <3>2, <3>3, <3>4, <4>2 DEF ItemInv
      <4>4. /\ Items' = Items /\ (\A k \in Items : ItemInv(results[k]))'
            /\ i \in Items /\ results'[i] = x /\ \A k \in Items \ {i} : results'[k] = results[k]
            /\ \A r : Made(r)' <=> Made(r)
        BY <1>0, <3>1, <3>2, <4>3, ItemMoved
      <4>5. ~ single' /\ pc' \in {"check", "judge"} /\ i' = i + 1
        BY <1>5, <2>2, <3>6 DEF Hash, single
      <4>6. \A k \in Items : k >= i' => k > i /\ k # i
        BY <1>0, <3>1, <4>5
      <4>7. BatchInv'
        BY <3>1, <3>4, <4>1, <4>4, <4>5, <4>6 DEF BatchInv
      <4> QED
        BY <4>4, <4>5, <4>7 DEF ItemsInv
    <3> QED
      BY <3>5, <3>6
  <2> QED
    BY <2>1, <2>2
<1>6. ASSUME NEW exit \in {"zero", "nonzero", "unstarted"}, Check(exit)
      PROVE  ItemsInv'
  <2> DEFINE x == [results[i] EXCEPT !.exit = exit, !.judged = CertOf(i)]
  <2>1. /\ AtItem /\ pc = "check" /\ UNCHANGED <<job, e, certs>>
        /\ results' = [results EXCEPT ![i] = x]
    BY <1>6 DEF Check, AtItem
  <2>2. /\ x.made = results[i].made /\ x.hashed = results[i].hashed /\ x.exit = exit
        /\ x.judged = certs[i] /\ x.moved = results[i].moved
    BY <1>0, <2>1 DEF ResultType, CertOf
  <2>3. x \in ResultType
    BY <1>0, <2>1, Updated DEF CertOf
  <2> HIDE DEF x
  <2>4. certs[i] # "none"
    BY <1>0, <2>1 DEF Contents
  <2>5. Made(x) <=> Made(results[i])
    BY <2>2 DEF Made
  <2>6. CASE single
    <3>1. Made(results[i]) /\ (results[i].hashed = certs[i] \/ results[i].moved)
      BY <2>1, <2>6 DEF ItemsInv, SingleInv
    <3>2. ItemInv(x)
      BY <2>2, <2>4, <2>5, <3>1 DEF ItemInv
    <3>3. /\ Items' = Items /\ (\A k \in Items : ItemInv(results[k]))'
          /\ i \in Items /\ results'[i] = x /\ \A k \in Items \ {i} : results'[k] = results[k]
          /\ \A r : Made(r)' <=> Made(r)
      BY <1>0, <2>1, <2>3, <3>2, ItemMoved
    <3>4. single' /\ pc' \in {"generate", "judge"} /\ i' = i + 1
      BY <1>6, <2>6 DEF Check, single, AfterItem
    <3>5. \A k \in Items : k >= i' => k >= i /\ k # i
      BY <1>0, <2>1, <3>4
    <3>6. SingleInv'
      BY <2>1, <2>6, <3>3, <3>4, <3>5 DEF SingleInv, ItemsInv, AtItem
    <3> QED
      BY <3>3, <3>4, <3>6 DEF ItemsInv
  <2>7. CASE ~ single
    <3>1. BatchInv
      BY <2>7 DEF ItemsInv
    <3>2. Made(results[i]) /\ results[i].hashed = "none"
      BY <1>0, <2>1, <3>1 DEF BatchInv
    <3>3. ItemInv(x)
      BY <2>2, <2>4, <2>5, <3>2 DEF ItemInv
    <3>4. /\ Items' = Items /\ (\A k \in Items : ItemInv(results[k]))'
          /\ i \in Items /\ results'[i] = x /\ \A k \in Items \ {i} : results'[k] = results[k]
          /\ \A r : Made(r)' <=> Made(r)
      BY <1>0, <2>1, <2>3, <3>3, ItemMoved
    <3>5. ~ single' /\ pc' = "hash" /\ i' = i
      BY <1>6, <2>7 DEF Check, single
    <3>6. \A k \in Items : k > i => k >= i /\ k # i
      BY <1>0, <2>1
    <3>7. BatchInv'
      BY <2>1, <2>2, <2>5, <3>1, <3>2, <3>4, <3>5, <3>6 DEF BatchInv
    <3> QED
      BY <3>4, <3>5, <3>7 DEF ItemsInv
  <2> QED
    BY <2>6, <2>7
<1>7. CASE Judge
  <2>1. UNCHANGED <<job, e, results, certs>> /\ pc = "judge"
    BY <1>7 DEF Judge
  <2>2. pc' \in {"write", "giveUp"} /\ (pc' = "write" => AllPass)
    BY <1>7 DEF Judge
  <2>3. (\A k \in Items : ItemInv(results[k]))' /\ AllPass' = AllPass
    BY <2>1, ItemsSame DEF ItemsInv, Busy
  <2> QED
    BY <2>2, <2>3 DEF ItemsInv, SingleInv, BatchInv, AtItem
<1>8. CASE UNCHANGED <<pc, job, e, results, certs>> /\ pc = "write"
  <2>1. (\A k \in Items : ItemInv(results[k]))' /\ AllPass' = AllPass
    BY <1>8, ItemsSame DEF ItemsInv, Busy
  <2> QED
    BY <1>8, <2>1 DEF ItemsInv, SingleInv, BatchInv, AtItem
<1>9. CASE Load \/ DryRun \/ GiveUp \/ Written \/ Finish
  BY <1>1, <1>9 DEF Load, DryRun, GiveUp, Written, Finish, Busy
<1>10. CASE Write
  BY <1>8, <1>10 DEF Write
<1>11. CASE WriteFails
  BY <1>1, <1>8, <1>11 DEF WriteFails, Die, Busy
<1> QED
  BY <1>2, <1>3, <1>4, <1>5, <1>6, <1>7, <1>9, <1>10, <1>11 DEF ReplayStep

\* Somebody else writes to a certificate: its result is marked.
LEMMA ItemsTampered ==
  ASSUME TypeInv, ItemsInv, NEW k \in DOMAIN certs, NEW content \in Contents, Tamper(k, content)
  PROVE  ItemsInv'
<1> DEFINE x == [results[k] EXCEPT !.moved = TRUE]
<1>1. /\ AtItem /\ UNCHANGED <<job, e, i, pc>>
      /\ results' = [results EXCEPT ![k] = x] /\ certs' = [certs EXCEPT ![k] = content]
  BY DEF Tamper, others, AtItem
<1>2. Busy
  BY <1>1 DEF AtItem, Busy
<1>3. /\ e \in DOMAIN job.entries /\ i \in Items /\ k \in Items
      /\ DOMAIN results = Items /\ DOMAIN certs = Items
  BY <1>1, <1>2 DEF TypeInv
<1>4. results[k] \in ResultType
  BY <1>3 DEF TypeInv, TypeOK
<1>5. /\ x.made = results[k].made /\ x.hashed = results[k].hashed /\ x.exit = results[k].exit
      /\ x.judged = results[k].judged /\ x.moved /\ x \in ResultType
  BY <1>4 DEF ResultType
<1> HIDE DEF x
<1>6. /\ results'[k] = x
      /\ \A l \in Items \ {k} : results'[l] = results[l] /\ certs'[l] = certs[l]
  BY <1>1, <1>3, <1>5, ItemStep, CertStep
<1>7. Items' = Items /\ single' = single
  BY <1>1 DEF Items, entry, single
<1>8. \A r : (ItemInv(r)' <=> ItemInv(r)) /\ (Made(r)' <=> Made(r))
  BY <1>1 DEF ItemInv, Made
<1>9. ItemInv(x)
  <2>1. ItemInv(results[k])
    BY <1>2, <1>3 DEF ItemsInv
  <2> QED
    BY <1>5, <2>1 DEF ItemInv, Made
<1>10. \A l \in Items : /\ Made(results[l]) => Made(results'[l])
                        /\ results'[l].hashed = results[l].hashed
                        /\ results'[l].judged = results[l].judged
                        /\ results[l].moved => results'[l].moved
                        /\ certs'[l] = certs[l] \/ results'[l].moved
  BY <1>5, <1>6 DEF Made
<1>11. (\A l \in Items : ItemInv(results[l]))'
  <2>1. \A l \in Items : ItemInv(results'[l])
    BY <1>2, <1>6, <1>9 DEF ItemsInv
  <2> QED
    BY <1>7, <1>8, <2>1
<1>12. CASE single
  <2>1. SingleInv
    BY <1>12 DEF ItemsInv
  <2>2. SingleInv'
    BY <1>1, <1>3, <1>7, <1>8, <1>10, <2>1 DEF SingleInv
  <2> QED
    BY <1>1, <1>7, <1>11, <1>12, <2>2 DEF ItemsInv, AtItem
<1>13. CASE ~ single
  <2>1. BatchInv
    BY <1>13 DEF ItemsInv
  <2>2. BatchInv'
    BY <1>1, <1>3, <1>7, <1>8, <1>10, <2>1 DEF BatchInv
  <2> QED
    BY <1>1, <1>7, <1>11, <1>13, <2>2 DEF ItemsInv, AtItem
<1> QED
  BY <1>12, <1>13

LEMMA ItemsUntouched ==
  ASSUME ItemsInv, UNCHANGED <<job, e, i, pc, certs, results>>
  PROVE  ItemsInv'
<1>1. /\ Items' = Items /\ single' = single /\ AllPass' = AllPass
      /\ (\A k \in Items : ItemInv(results[k]))' <=> \A k \in Items : ItemInv(results[k])
  BY ItemsSame
<1>2. \A r : Made(r)' <=> Made(r)
  BY DEF Made
<1>3. SingleInv' <=> SingleInv
  BY <1>1, <1>2 DEF SingleInv, AtItem
<1>4. BatchInv' <=> BatchInv
  BY <1>1, <1>2 DEF BatchInv
<1> QED
  BY <1>1, <1>3, <1>4 DEF ItemsInv, Busy

-----------------------------------------------------------------------------
\* What is attested: all items passed, so each was checked, and hence made;
\* each was hashed, and its digest is that of what was checked.
LEMMA WroteStep ==
  ASSUME TypeInv, ItemsInv, WroteInv, Next
  PROVE  WroteInv'
<1>1. job' = job
  BY DEF Next, ReplayStep, keep, others, Load, BeginEntry, DryRun, Generate, GeneratorFails, Hash,
         Check, Judge, GiveUp, Write, WriteFails, Written, Finish, Tamper, Other
<1>2. CASE wrote' = wrote
  BY <1>1, <1>2 DEF WroteInv, AcceptedMeansReplayed, SameCertificate
<1>3. CASE Write
  <2>1. PICK k \in pending :
          wrote' = wrote \cup {[claim |-> entry.claims[k], semantic |-> entry.semantic,
                                items |-> results]}
    BY <1>3 DEF Write
  <2>2. Busy /\ AllPass /\ DOMAIN results = Items
    BY <1>3 DEF Write, Busy, ItemsInv, TypeInv
  <2>3. ASSUME NEW n \in Items
        PROVE  /\ results[n].made \/ job.reuse
               /\ results[n].hashed = "right" \/ entry.semantic
               /\ results[n].exit \in {"zero", "unstarted"}
               /\ results[n].hashed = results[n].judged \/ results[n].moved
    <3>1. Pass(results[n]) /\ ItemInv(results[n])
      BY <2>2 DEF AllPass, ItemsInv
    <3> QED
      BY <3>1 DEF Pass, DigestMatch, ItemInv, Made
  <2>4. \A w \in wrote' : w \in wrote \/ (w.items = results /\ w.semantic = entry.semantic)
    BY <2>1
  <2>5. AcceptedMeansReplayed'
    BY <1>1, <2>2, <2>3, <2>4 DEF WroteInv, AcceptedMeansReplayed
  <2>6. SameCertificate'
    BY <2>2, <2>3, <2>4 DEF WroteInv, SameCertificate
  <2> QED
    BY <2>5, <2>6 DEF WroteInv
<1> QED
  BY <1>2, <1>3
  DEF Next, ReplayStep, keepFiles, others, Load, BeginEntry, DryRun, Generate, GeneratorFails, Hash,
      Check, Judge, GiveUp, WriteFails, Written, Finish, Tamper, Other

-----------------------------------------------------------------------------
\* Attested by this run, or accepted when it began.
Settled(c) == (\E w \in wrote : w.claim = c) \/ (job.skip /\ loaded[c].outcome = "accepted")

\* Each claim of an entry that is behind is settled or reported as failed;
\* each claim of the one at work is that or is still pending.
Accounted ==
  /\ pc = "load" => e = 1
  /\ \A n \in DOMAIN job.entries : n < e =>
       \A c \in Range(job.entries[n].claims) : Settled(c) \/ c \in failed
  /\ Busy => \A k \in DOMAIN entry.claims :
       k \in pending \/ Settled(entry.claims[k]) \/ entry.claims[k] \in failed

\* Steps that stay with their entry and account for what leaves pending.
LEMMA AccountedStays ==
  ASSUME Accounted, UNCHANGED <<job, loaded, e>>, wrote \subseteq wrote', failed \subseteq failed',
         pc # "load", pc' # "load", Busy' => Busy,
         \A k \in pending \ pending' :
           entry.claims[k] \in failed' \/ \E w \in wrote' : w.claim = entry.claims[k]
  PROVE  Accounted'
<1>1. entry' = entry
  BY DEF entry
<1>2. \A c : Settled(c) => Settled(c)'
  BY DEF Settled
<1>3. (\A n \in DOMAIN job.entries : n < e =>
        \A c \in Range(job.entries[n].claims) : Settled(c) \/ c \in failed)'
  BY <1>2 DEF Accounted
<1>4. (Busy => \A k \in DOMAIN entry.claims :
         k \in pending \/ Settled(entry.claims[k]) \/ entry.claims[k] \in failed)'
  <2> SUFFICES ASSUME Busy, NEW k \in DOMAIN entry.claims
               PROVE  k \in pending' \/ Settled(entry.claims[k])' \/ entry.claims[k] \in failed'
    BY <1>1
  <2>1. k \in pending \/ Settled(entry.claims[k]) \/ entry.claims[k] \in failed
    BY DEF Accounted
  <2>2. (\E w \in wrote' : w.claim = entry.claims[k]) => Settled(entry.claims[k])'
    BY <1>1 DEF Settled
  <2>3. Settled(entry.claims[k]) => Settled(entry.claims[k])'
    BY <1>1, <1>2 DEF Settled
  <2> QED
    BY <2>1, <2>2, <2>3
<1> QED
  BY <1>3, <1>4 DEF Accounted

\* Steps that leave their entry behind.
LEMMA AccountedLeaves ==
  ASSUME TypeInv, Accounted, UNCHANGED <<job, loaded>>, e' = e + 1, e \in DOMAIN job.entries,
         wrote \subseteq wrote', failed \subseteq failed', pc' = "entry",
         \A c \in Range(entry.claims) : Settled(c)' \/ c \in failed'
  PROVE  Accounted'
<1>1. \A c : Settled(c) => Settled(c)'
  BY DEF Settled
<1>2. \A n \in DOMAIN job.entries : n < e + 1 => n < e \/ n = e
  <2>1. job.entries \in Seq(EntryType)
    BY JobsAssumption DEF TypeInv, TypeOK, JobType
  <2> QED
    BY <2>1
<1>3. ASSUME NEW n \in DOMAIN job.entries, n < e + 1,
             NEW c \in Range(job.entries[n].claims)
      PROVE  Settled(c)' \/ c \in failed'
  <2>1. CASE n < e
    BY <1>1, <2>1 DEF Accounted
  <2>2. CASE n = e
    BY <2>2 DEF entry
  <2> QED
    BY <1>2, <1>3, <2>1, <2>2
<1> QED
  BY <1>3 DEF Accounted, Busy

LEMMA AccountedBegins ==
  ASSUME TypeInv, Accounted, pc = "entry", e \in DOMAIN job.entries, Begin, keep, keepFiles
  PROVE  Accounted'
<1>1. UNCHANGED <<job, loaded, wrote, failed>>
  BY DEF Begin, keep, keepFiles
<1>2. \A c : Settled(c)' <=> Settled(c)
  BY <1>1 DEF Settled
<1>3. \A k \in DOMAIN entry.claims : k \in pending' \/ Settled(entry.claims[k])
  BY DEF Begin, Skippable, Settled
<1>4. CASE pending' = {}
  <2>1. e' = e + 1 /\ pc' = "entry"
    BY <1>4 DEF Begin
  <2>2. \A c \in Range(entry.claims) : Settled(c)'
    BY <1>2, <1>3, <1>4 DEF Range
  <2> QED
    BY <1>1, <2>1, <2>2, AccountedLeaves
<1>5. CASE pending' # {}
  <2>1. e' = e /\ pc' # "load"
    BY <1>5 DEF Begin
  <2>2. entry' = entry
    BY <1>1, <2>1 DEF entry
  <2>3. (\A k \in DOMAIN entry.claims : k \in pending \/ Settled(entry.claims[k]))'
    BY <1>2, <1>3, <2>2
  <2> QED
    BY <1>1, <1>2, <2>1, <2>3 DEF Accounted
<1> QED
  BY <1>4, <1>5

LEMMA AccountedStep ==
  ASSUME TypeInv, Accounted, Next
  PROVE  Accounted'
<1> USE DEF keep, keepFiles, others
<1>1. Busy => e \in DOMAIN job.entries
  BY DEF TypeInv
<1>2. CASE Load
  <2>1. job.entries \in Seq(EntryType)
    BY JobsAssumption DEF TypeInv, TypeOK, JobType
  <2>2. \A n \in DOMAIN job.entries : ~ (n < 1)
    BY <2>1
  <2>3. e' = 1 /\ pc' = "entry" /\ job' = job
    BY <1>2 DEF Load, Accounted
  <2> QED
    BY <2>2, <2>3 DEF Accounted, Busy
<1>3. CASE BeginEntry
  <2>1. e \in DOMAIN job.entries
    <3>1. job.entries \in Seq(EntryType)
      BY JobsAssumption DEF TypeInv, TypeOK, JobType
    <3> QED
      BY <1>3, <3>1 DEF BeginEntry, TypeInv, TypeOK
  <2>2. CASE Begin
    BY <1>3, <2>1, <2>2, AccountedBegins DEF BeginEntry
  <2>3. CASE Die
    BY <1>3, <2>3, AccountedStays DEF BeginEntry, Die, Busy
  <2> QED
    BY <1>3, <2>2, <2>3 DEF BeginEntry
<1>4. CASE DryRun
  BY <1>4, AccountedStays DEF DryRun, Busy
<1>5. ASSUME NEW content \in Contents, Generate(content) PROVE Accounted'
  BY <1>5, AccountedStays DEF Generate, Busy
<1>6. CASE GeneratorFails
  BY <1>6, AccountedStays DEF GeneratorFails, AfterFailure, AfterItem, Busy
<1>7. CASE Hash
  BY <1>7, AccountedStays DEF Hash, Die, Busy
<1>8. ASSUME NEW exit \in {"zero", "nonzero", "unstarted"}, Check(exit) PROVE Accounted'
  BY <1>8, AccountedStays DEF Check, AfterItem, Busy
<1>9. CASE Judge
  BY <1>9, AccountedStays DEF Judge, Busy
<1>10. CASE GiveUp
  <2>1. Busy
    BY <1>10 DEF GiveUp, Busy
  <2>2. /\ UNCHANGED <<job, loaded, wrote>> /\ e' = e + 1 /\ pc' = "entry"
        /\ failed' = failed \cup {entry.claims[k] : k \in pending}
    BY <1>10 DEF GiveUp
  <2>3. \A c \in Range(entry.claims) : Settled(c)' \/ c \in failed'
    BY <2>1, <2>2 DEF Accounted, Range, Settled
  <2> QED
    BY <1>1, <2>1, <2>2, <2>3, AccountedLeaves
<1>11. CASE Write
  <2> DEFINE w(k) == [claim |-> entry.claims[k], semantic |-> entry.semantic, items |-> results]
  <2>1. PICK k \in pending : wrote' = wrote \cup {w(k)} /\ pending' = pending \ {k}
    BY <1>11 DEF Write
  <2>2. w(k) \in wrote' /\ w(k).claim = entry.claims[k]
    BY <2>1
  <2>3. pending \ pending' \subseteq {k}
    BY <2>1
  <2> QED
    BY <1>11, <2>1, <2>2, <2>3, AccountedStays DEF Write, Busy
<1>12. CASE WriteFails
  <2>1. CASE single
    BY <1>12, <2>1, AccountedStays DEF WriteFails, Die, Busy
  <2>2. CASE ~ single
    <3>1. PICK k \in pending : failed' = failed \cup {entry.claims[k]} /\ pending' = pending \ {k}
      BY <1>12, <2>2 DEF WriteFails, NotWritten
    <3> QED
      BY <1>12, <2>2, <3>1, AccountedStays DEF WriteFails, Busy
  <2> QED
    BY <2>1, <2>2
<1>13. CASE Written
  <2>1. Busy /\ pending = {}
    BY <1>13 DEF Written, Busy
  <2>2. UNCHANGED <<job, loaded, wrote, failed>> /\ e' = e + 1 /\ pc' = "entry"
    BY <1>13 DEF Written
  <2>3. \A c \in Range(entry.claims) : Settled(c)' \/ c \in failed'
    BY <2>1, <2>2 DEF Accounted, Range, Settled
  <2> QED
    BY <1>1, <2>1, <2>2, <2>3, AccountedLeaves
<1>14. CASE Finish
  BY <1>14, AccountedStays DEF Finish, Busy
<1>15. ASSUME UNCHANGED <<job, loaded, pc, e, pending, failed, wrote>> PROVE Accounted'
  <2>1. entry' = entry
    BY <1>15 DEF entry
  <2>2. \A c : Settled(c)' <=> Settled(c)
    BY <1>15 DEF Settled
  <2> QED
    BY <1>15, <2>1, <2>2 DEF Accounted, Busy
<1>16. ASSUME NEW k \in DOMAIN certs, NEW content \in Contents, Tamper(k, content) PROVE Accounted'
  BY <1>15, <1>16 DEF Tamper
<1>17. ASSUME NEW c \in Claims, NEW att \in Attestations, Other(c, att) PROVE Accounted'
  BY <1>15, <1>17 DEF Other
<1> QED
  BY <1>2, <1>3, <1>4, <1>5, <1>6, <1>7, <1>8, <1>9, <1>10, <1>11, <1>12, <1>13, <1>14, <1>16, <1>17
  DEF Next, ReplayStep

\* A run ends by dying, by --dry-run, or when all entries are behind.
LEMMA ExitStep ==
  ASSUME TypeInv, Accounted, ExitTells, Next
  PROVE  ExitTells'
<1> USE DEF keep, keepFiles, others
<1>1. CASE pc' # "done"
  BY <1>1 DEF ExitTells
<1>2. CASE Die
  BY <1>2 DEF Die, ExitTells
<1>3. CASE DryRun
  BY <1>3 DEF DryRun, ExitTells
<1>4. CASE Finish
  <2>1. \A n \in DOMAIN job.entries : n < e
    <3>1. job.entries \in Seq(EntryType)
      BY JobsAssumption DEF TypeInv, TypeOK, JobType
    <3> QED
      BY <1>4, <3>1 DEF Finish, TypeInv, TypeOK
  <2>2. UNCHANGED <<job, loaded, wrote, failed>> /\ code' = ExitCode
    BY <1>4 DEF Finish
  <2>3. \A n \in DOMAIN job.entries : \A c \in Range(job.entries[n].claims) :
          Settled(c) \/ c \in failed
    BY <2>1 DEF Accounted
  <2>4. ~ (single /\ job.json) =>
          /\ code' = 0 => failed = {}
          /\ failed # {} => code' = 1
    BY <2>2 DEF ExitCode
  <2>5. single' = single
    BY <2>2 DEF single
  <2> QED
    BY <2>2, <2>3, <2>4, <2>5 DEF ExitTells, Settled
<1> QED
  BY <1>1, <1>2, <1>3, <1>4
  DEF Next, ReplayStep, Load, BeginEntry, Begin, Generate, GeneratorFails, AfterFailure, AfterItem,
      Hash, Check, Judge, GiveUp, Write, WriteFails, Written, Tamper, Other

-----------------------------------------------------------------------------
ReplayInv == TypeInv /\ ItemsInv /\ WroteInv /\ Accounted /\ ExitTells

LEMMA InitInv == Init => ReplayInv
<1> SUFFICES ASSUME Init PROVE ReplayInv
  OBVIOUS
<1>1. TypeInv
  BY InitTyped
<1>2. pc = "load" /\ e = 1 /\ wrote = {}
  BY DEF Init
<1>3. ItemsInv /\ WroteInv /\ ExitTells
  BY <1>2 DEF ItemsInv, SingleInv, BatchInv, WroteInv, AcceptedMeansReplayed, SameCertificate,
              ExitTells, Busy, AtItem
<1>4. \A n \in DOMAIN job.entries : ~ (n < 1)
  <2>1. job.entries \in Seq(EntryType)
    BY <1>1, JobsAssumption DEF TypeInv, TypeOK, JobType
  <2> QED
    BY <2>1
<1>5. Accounted
  BY <1>2, <1>4 DEF Accounted, Busy
<1> QED
  BY <1>1, <1>3, <1>5 DEF ReplayInv

LEMMA InvStep == ReplayInv /\ [Next]_vars => ReplayInv'
<1> SUFFICES ASSUME ReplayInv, [Next]_vars PROVE ReplayInv'
  OBVIOUS
<1>1. TypeInv'
  BY NextTyped DEF ReplayInv
<1>2. CASE Next
  <2>1. ItemsInv'
    <3>1. CASE ReplayStep
      BY <1>1, <3>1, ItemsStep DEF ReplayInv
    <3>2. ASSUME NEW k \in DOMAIN certs, NEW content \in Contents, Tamper(k, content)
          PROVE  ItemsInv'
      BY <3>2, ItemsTampered DEF ReplayInv
    <3>3. ASSUME NEW c \in Claims, NEW att \in Attestations, Other(c, att)
          PROVE  ItemsInv'
      BY <3>3, ItemsUntouched DEF ReplayInv, Other, others
    <3> QED
      BY <1>2, <3>1, <3>2, <3>3 DEF Next
  <2>2. WroteInv' /\ Accounted' /\ ExitTells'
    BY <1>2, WroteStep, AccountedStep, ExitStep DEF ReplayInv
  <2> QED
    BY <1>1, <2>1, <2>2 DEF ReplayInv
<1>3. CASE UNCHANGED vars
  <2>1. ItemsInv'
    BY <1>3, ItemsUntouched DEF ReplayInv, vars
  <2>2. WroteInv'
    BY <1>3 DEF ReplayInv, WroteInv, AcceptedMeansReplayed, SameCertificate, vars
  <2>3. Accounted'
    <3>1. entry' = entry
      BY <1>3 DEF entry, vars
    <3>2. \A c : Settled(c)' <=> Settled(c)
      BY <1>3 DEF Settled, vars
    <3> QED
      BY <1>3, <3>1, <3>2 DEF ReplayInv, Accounted, Busy, vars
  <2>4. ExitTells'
    BY <1>3 DEF ReplayInv, ExitTells, single, vars
  <2> QED
    BY <1>1, <2>1, <2>2, <2>3, <2>4 DEF ReplayInv
<1> QED
  BY <1>2, <1>3

LEMMA Invariant == Spec => []ReplayInv
BY InitInv, InvStep, PTL DEF Spec

-----------------------------------------------------------------------------
\* For every invocation, types: the entry and item at work exist, every
\* certificate and result has its kind, and exit status is 0 or 1.
THEOREM ReplayTyped == Spec => []TypeOK
<1>1. ReplayInv => TypeOK
  BY DEF ReplayInv, TypeInv
<1> QED
  BY <1>1, Invariant, PTL

\* However many claims, entries and items there are and whoever else writes to
\* the certificates, replay attests a claim only on items it generated (or was
\* told to copy), whose digest was right unless the entry is semantic, and
\* which no checker refused (cmd_replay.go:76).
THEOREM AcceptanceIsReplayed == Spec => []AcceptedMeansReplayed
<1>1. ReplayInv => AcceptedMeansReplayed
  BY DEF ReplayInv, WroteInv
<1> QED
  BY <1>1, Invariant, PTL

\* In both orders, hash then check and check then hash, digest and verdict of
\* an attested item are of one content, unless the file was written to between
\* the two readings: replay itself never mixes up items.
THEOREM CertificateIsOne == Spec => []SameCertificate
<1>1. ReplayInv => SameCertificate
  BY DEF ReplayInv, WroteInv
<1> QED
  BY <1>1, Invariant, PTL

\* Exit status 0 leaves no claim of any entry without an attestation of this
\* run or an accepted one it found, and a failed claim makes it 1.
THEOREM ExitCodeTells == Spec => []ExitTells
<1>1. ReplayInv => ExitTells
  BY DEF ReplayInv
<1> QED
  BY <1>1, Invariant, PTL

===============================================================================
