------------------------ MODULE VerifyProjectProofs -------------------------
(***************************************************************************)
(* Proofs about VerifyProject, for every set of graphs, every grouping,    *)
(* every number of workers and any number of foreign writes.               *)
(*                                                                         *)
(* The argument: the goroutines of a run belong to the level it is in;     *)
(* every claim of an earlier level has a result (or was accepted before);  *)
(* and LevelsTopological puts a claim's dependencies in earlier levels.    *)
(* The exit code sums up the levels that are done, and LevelsPartition     *)
(* says that together they are all the claims.                             *)
(***************************************************************************)
EXTENDS VerifyProject, LevelsProofs

Busy == {"indiv", "groups", "batch", "write"}

Settled(c) == loaded[c] = "accepted" \/ result[c] # "none"
Passed(c) == loaded[c] = "accepted" \/ result[c] = "accepted"

\* The levels the run is through with.
DoneLevels == IF stage \in Busy THEN 1 .. lvl - 1 ELSE 1 .. lvl

Typed ==
  /\ stage \in Busy \cup {"load", "levels", "next", "over", "died"}
  /\ worker \in [Claims -> {"idle", "queued", "running", "finished"}]
  /\ answer \in [DOMAIN answer -> Outcomes \cup {"error"}]
  /\ result \in [Claims -> Outcomes \cup {"none", "error"}]
  /\ exitCode \in {0, 1}

Place ==
  /\ lvl \in 0 .. Len(levels)
  /\ stage \in Busy \cup {"next", "over"} => pc = "ready"
  /\ stage \in {"load", "levels"} => lvl = 0
  /\ stage \in Busy => lvl > 0
  /\ stage = "over" => lvl = Len(levels)
  /\ stage = "load" => \A c \in Claims : loaded[c] # "accepted"

Workers ==
  \A c \in Claims :
    /\ worker[c] # "idle" => \E i \in 1 .. lvl : c \in levels[i]
    /\ worker[c] \in {"queued", "running"} => lvl > 0 /\ c \in Open(lvl)
    /\ worker[c] = "finished" <=> result[c] # "none"
    /\ worker[c] = "queued" => GroupOf[c] = NoGroup
    /\ worker[c] \in {"queued", "running"} =>
         IF GroupOf[c] = NoGroup
           THEN stage \in {"indiv", "died"}
           ELSE GroupOf[c] = group /\ stage \in {"batch", "write", "died"}

CurrentLevel ==
  /\ NoGroup \notin groupsLeft
  /\ stage \in {"batch", "write"} =>
       group # NoGroup /\ \A c \in Members(group) : worker[c] = "running"
  /\ stage \in Busy =>
       \A c \in Open(lvl) : GroupOf[c] \in groupsLeft => worker[c] = "idle"
  /\ stage \in {"batch", "write"} => group \notin groupsLeft
  /\ stage = "indiv" =>
       \A c \in Open(lvl) :
         IF GroupOf[c] = NoGroup THEN worker[c] # "idle" ELSE GroupOf[c] \in groupsLeft
  /\ stage \in {"groups", "batch", "write"} =>
       \A c \in Open(lvl) :
         \/ result[c] # "none"
         \/ GroupOf[c] \in groupsLeft
         \/ stage # "groups" /\ GroupOf[c] = group

EarlierLevels ==
  stage # "died" => \A i \in DoneLevels : \A c \in levels[i] : Settled(c)

ExitSoFar ==
  stage # "died" => (exitCode = 0 <=> \A i \in DoneLevels : \A c \in levels[i] : Passed(c))

ProjectInv ==
  /\ LevelsInv
  /\ Typed
  /\ Place
  /\ Workers
  /\ CurrentLevel
  /\ EarlierLevels
  /\ ExitSoFar
  /\ DepsSettledFirst

\* What the invariant reads, the loader's variables and answer excepted.
flow == <<stage, loaded, lvl, worker, groupsLeft, group, result, exitCode>>

-----------------------------------------------------------------------------
LEMMA ProjectInit0 == ProjectInit => ProjectInv
  <1> SUFFICES ASSUME ProjectInit PROVE ProjectInv
    OBVIOUS
  <1> USE DEF ProjectInit
  <1>1. LevelsInv
    BY LevelsInit DEF Init
  <1>2. Len(levels) = 0
    BY DEF LoadInit
  <1>3. Typed
    BY DEF Typed, Files, Outcomes, Busy
  <1>4. Place /\ DoneLevels = {}
    BY <1>2 DEF Place, Busy, DoneLevels
  <1>5. Workers /\ CurrentLevel /\ DepsSettledFirst
    BY DEF Workers, CurrentLevel, DepsSettledFirst
  <1>6. EarlierLevels /\ ExitSoFar
    BY <1>4 DEF EarlierLevels, ExitSoFar
  <1>7. QED
    BY <1>1, <1>3, <1>4, <1>5, <1>6 DEF ProjectInv

\* Steps the invariant does not see: other processes, and the files a batch
\* writes.
LEMMA UnseenStep ==
  ASSUME ProjectInv, UNCHANGED <<graphVars, flow>>,
         answer' \in [DOMAIN answer' -> Outcomes \cup {"error"}]
  PROVE  ProjectInv'
  <1> USE DEF ProjectInv, graphVars, flow
  <1>1. LevelsInv'
    BY LevelsStutter
  <1>2. Typed' /\ Place'
    BY DEF Typed, Place
  <1>3. \A c : Deps(c)' = Deps(c)
    BY DEF Deps
  <1>4. DepsSettledFirst'
    BY <1>3 DEF DepsSettledFirst
  <1>5. Workers' /\ CurrentLevel'
    BY DEF Workers, CurrentLevel, Open, Members, Busy
  <1>6. EarlierLevels' /\ ExitSoFar'
    BY DEF EarlierLevels, ExitSoFar, DoneLevels, Settled, Passed
  <1>7. QED
    BY <1>1, <1>2, <1>4, <1>5, <1>6

\* While the graph is loaded and levelled no claim has a goroutine.
LEMMA LoadingStep ==
  ASSUME ProjectInv, stage \in {"load", "levels"},
         LevelsInv', levels' \in Seq(SUBSET Claims),
         UNCHANGED <<lvl, worker, groupsLeft, group, answer, result, exitCode>>,
         stage' \in {"load", "levels", "next", "died"},
         stage' = "next" => pc' = "ready",
         stage' = "load" => stage = "load" /\ loaded' = loaded
  PROVE  ProjectInv'
  <1> USE DEF ProjectInv
  <1>1. lvl = 0 /\ lvl' = 0
    BY DEF Place
  <1>2. \A c \in Claims : worker'[c] = "idle"
    BY <1>1 DEF Workers, Typed
  <1>3. Len(levels') \in Nat
    OBVIOUS
  <1>4. DoneLevels = {} /\ DoneLevels' = {}
    BY <1>1 DEF DoneLevels, Busy
  <1>5. Typed'
    BY DEF Typed
  <1>6. Place'
    BY <1>1, <1>3 DEF Place, Busy
  <1>7. Workers' /\ DepsSettledFirst'
    BY <1>2 DEF Workers, DepsSettledFirst
  <1>8. CurrentLevel'
    BY DEF CurrentLevel, Busy
  <1>9. EarlierLevels' /\ ExitSoFar'
    BY <1>4 DEF EarlierLevels, ExitSoFar
  <1>10. QED
    BY <1>5, <1>6, <1>7, <1>8, <1>9

LEMMA LoadSteps ==
  ASSUME ProjectInv, Validating \/ Load \/ Refuse \/ Levelling
  PROVE  ProjectInv'
  <1> USE DEF ProjectInv
  <1>1. CASE Validating
    <2>1. LevelsInv'
      BY <1>1, LevelsVisit, LevelsEndValidate DEF Validating
    <2>2. levels' \in Seq(SUBSET Claims)
      BY <2>1 DEF LevelsInv, TypeOK
    <2>3. QED
      BY <1>1, <2>1, <2>2, LoadingStep DEF Validating, projectVars, Typed
  <1>2. CASE Load
    <2>1. LevelsInv' /\ levels' \in Seq(SUBSET Claims)
      BY <1>2, LevelsStutter DEF Load, LevelsInv, TypeOK
    <2>2. QED
      <3>1. CASE \E c \in Claims : att[c] = "torn"
        BY <1>2, <2>1, <3>1, LoadingStep DEF Load, Typed
      <3>2. CASE ~ \E c \in Claims : att[c] = "torn"
        BY <1>2, <2>1, <3>2, LoadingStep DEF Load, Typed
      <3>3. QED
        BY <3>1, <3>2
  <1>3. CASE Refuse
    <2>1. LevelsInv' /\ levels' \in Seq(SUBSET Claims)
      BY <1>3, LevelsStutter DEF Refuse, LevelsInv, TypeOK
    <2>2. QED
      BY <1>3, <2>1, LoadingStep DEF Refuse, Typed
  <1>4. CASE Levelling
    <2>1. LevelsInv'
      BY <1>4, LevelsRound, LevelsEnd DEF Levelling
    <2>2. levels' \in Seq(SUBSET Claims)
      BY <2>1 DEF LevelsInv, TypeOK
    <2>3. QED
      BY <1>4, <2>1, <2>2, LoadingStep DEF Levelling, Typed
  <1>5. QED
    BY <1>1, <1>2, <1>3, <1>4

-----------------------------------------------------------------------------
\* The level a run is in is disjoint from the ones it is through with.
LEMMA LevelFacts ==
  ASSUME ProjectInv, lvl > 0
  PROVE  /\ lvl \in DOMAIN levels /\ lvl \in Nat
         /\ Open(lvl) \subseteq levels[lvl] /\ levels[lvl] \subseteq Claims
         /\ \A i \in 1 .. lvl - 1 : i \in DOMAIN levels /\ levels[i] \subseteq Claims
         /\ \A i \in 1 .. lvl - 1 : \A c \in levels[i] : c \notin Open(lvl)
  <1> USE DEF ProjectInv
  <1>1. levels \in Seq(SUBSET Claims)
    BY DEF LevelsInv, TypeOK
  <1>2. lvl \in 1 .. Len(levels)
    BY <1>1 DEF Place
  <1>3. lvl \in DOMAIN levels /\ \A i \in 1 .. lvl - 1 : i \in DOMAIN levels /\ i # lvl
    BY <1>1, <1>2
  <1>4. Open(lvl) \subseteq levels[lvl]
    BY DEF Open
  <1>5. QED
    BY <1>1, <1>2, <1>3, <1>4 DEF LevelsInv, Disjoint

\* A step inside a level: results appear for open claims of the level only and
\* never disappear, and only such claims are started.
LEMMA BusyStep ==
  ASSUME ProjectInv, stage \in Busy, stage' \in Busy,
         UNCHANGED <<graphVars, loaded, lvl, exitCode>>,
         \A c \in Claims : \/ result'[c] = result[c]
                           \/ c \in Open(lvl) /\ result'[c] # "none",
         \A c \in Claims : worker'[c] \in {"running", "finished"} =>
                             worker[c] \in {"running", "finished"} \/ c \in Open(lvl),
         Typed', Workers', CurrentLevel'
  PROVE  ProjectInv'
  <1> USE DEF ProjectInv, graphVars
  <1>1. LevelsInv'
    BY LevelsStutter
  <1>2. lvl > 0 /\ Place'
    BY DEF Place, Busy
  <1>3. DoneLevels = 1 .. lvl - 1 /\ DoneLevels' = 1 .. lvl - 1 /\ stage # "died"
    BY DEF DoneLevels, Busy
  <1>4. \A i \in 1 .. lvl - 1 : \A c \in levels[i] : c \in Claims /\ result'[c] = result[c]
    BY <1>2, LevelFacts
  <1>5. EarlierLevels'
    BY <1>3, <1>4 DEF EarlierLevels, Settled
  <1>6. ExitSoFar'
    BY <1>3, <1>4 DEF ExitSoFar, Passed
  <1>7. DepsSettledFirst'
    <2> SUFFICES ASSUME NEW c \in Claims, worker'[c] \in {"running", "finished"},
                        NEW d \in Deps(c)
                 PROVE  loaded[d] = "accepted" \/ result'[d] # "none"
      BY DEF DepsSettledFirst, Deps
    <2>1. d \in Claims
      BY ListLemma DEF LevelsInv
    <2>2. CASE worker[c] \in {"running", "finished"}
      BY <2>1, <2>2 DEF DepsSettledFirst
    <2>3. CASE c \in Open(lvl)
      <3>1. lvl \in DOMAIN levels /\ c \in levels[lvl]
        BY <1>2, <2>3, LevelFacts
      <3>2. PICK i \in 1 .. lvl - 1 : d \in levels[i]
        BY <3>1 DEF LevelsInv, LevelsTopological
      <3>3. QED
        BY <1>3, <1>4, <3>2 DEF EarlierLevels, Settled
    <2>4. QED
      BY <2>2, <2>3
  <1>8. QED
    BY <1>1, <1>2, <1>5, <1>6, <1>7

LEMMA AcquireStep ==
  ASSUME ProjectInv, NEW c \in Claims, Acquire(c)
  PROVE  ProjectInv'
  <1> USE DEF ProjectInv, Acquire
  <1>1. c \in Open(lvl) /\ stage = "indiv" /\ GroupOf[c] = NoGroup
    BY DEF Workers, Alive
  <1>2. Typed'
    BY DEF Typed
  <1>3. Open(lvl)' = Open(lvl)
    BY DEF Open, graphVars
  <1>4. Workers'
    BY <1>1, <1>3 DEF Workers, Typed, graphVars
  <1>5. CurrentLevel'
    BY <1>1, <1>3 DEF CurrentLevel, Typed
  <1>6. QED
    BY <1>1, <1>2, <1>4, <1>5, BusyStep DEF Busy, Typed

LEMMA FinishStep ==
  ASSUME ProjectInv, NEW c \in Claims, NEW o \in Outcomes \cup {"error"}, Finish(c, o)
  PROVE  ProjectInv'
  <1> USE DEF ProjectInv, Finish
  <1>1. c \in Open(lvl) /\ stage = "indiv" /\ GroupOf[c] = NoGroup /\ o # "none"
    BY DEF Workers, Alive, Outcomes
  <1>2. Typed'
    BY DEF Typed, Outcomes, Files
  <1>3. Open(lvl)' = Open(lvl)
    BY DEF Open, graphVars
  <1>4. Workers'
    BY <1>1, <1>3 DEF Workers, Typed, graphVars
  <1>5. CurrentLevel'
    BY <1>1, <1>3 DEF CurrentLevel, Typed
  <1>6. QED
    BY <1>1, <1>2, <1>4, <1>5, BusyStep DEF Busy, Typed

LEMMA JoinStep ==
  ASSUME ProjectInv, Join
  PROVE  ProjectInv'
  <1> USE DEF ProjectInv, Join
  <1>1. Typed'
    BY DEF Typed, Busy
  <1>2. Open(lvl)' = Open(lvl) /\ Open(lvl) \subseteq Claims
    BY LevelFacts DEF Open, graphVars, Place, Busy
  <1>3. Workers'
    BY <1>2 DEF Workers, Joined, Individual, graphVars
  <1>4. CurrentLevel'
    BY <1>2 DEF CurrentLevel, Workers, Joined, Individual, Busy
  <1>5. QED
    BY <1>1, <1>3, <1>4, BusyStep DEF Busy

LEMMA StartGroupStep ==
  ASSUME ProjectInv, NEW g, StartGroup(g)
  PROVE  ProjectInv'
  <1> USE DEF ProjectInv, StartGroup
  <1>1. Typed'
    BY DEF Typed, Busy
  <1>2. Open(lvl)' = Open(lvl) /\ Open(lvl) \subseteq levels[lvl] /\ Open(lvl) \subseteq Claims
        /\ lvl > 0 /\ lvl \in 1 .. lvl
    BY LevelFacts DEF Open, graphVars, Place, Busy
  <1>3. Workers'
    BY <1>2 DEF Workers, Members, graphVars, Typed, CurrentLevel
  <1>4. CurrentLevel'
    BY <1>2 DEF CurrentLevel, Members, Busy, Typed, Workers
  <1>5. QED
    BY <1>1, <1>2, <1>3, <1>4, BusyStep DEF Busy, Members, Typed

\* The members of the group get their results all at once.
LEMMA ReturnedStep ==
  ASSUME ProjectInv, stage \in {"batch", "write"},
         NEW res, \A c \in Claims : res[c] \in Outcomes \cup {"error"},
         Returned(group, res),
         UNCHANGED <<graphVars, loaded, lvl, groupsLeft, exitCode>>,
         answer' \in [DOMAIN answer' -> Outcomes \cup {"error"}]
  PROVE  ProjectInv'
  <1> USE DEF ProjectInv, Returned
  <1>1. Open(lvl)' = Open(lvl) /\ Open(lvl) \subseteq levels[lvl] /\ Open(lvl) \subseteq Claims
        /\ lvl > 0 /\ lvl \in 1 .. lvl
    BY LevelFacts DEF Open, graphVars, Place, Busy
  <1>2. Typed'
    BY DEF Typed, Busy
  <1>3. \A c \in Claims : res[c] # "none"
    BY DEF Outcomes
  <1>4. Workers'
    BY <1>1, <1>3 DEF Workers, Members, graphVars, Typed, CurrentLevel
  <1>5. CurrentLevel'
    BY <1>1, <1>3 DEF CurrentLevel, Members, Typed
  <1>6. QED
    BY <1>2, <1>3, <1>4, <1>5, BusyStep DEF Busy, Members, Typed

LEMMA BatchSteps ==
  ASSUME ProjectInv,
         \/ BatchFail
         \/ EndGroup
         \/ \E n \in 0 .. MaxResults : BatchAnswer(n)
         \/ \E c \in Claims : WriteBegin(c) \/ WriteFail(c)
         \/ \E c \in Claims, o \in Outcomes : WriteEnd(c, o)
  PROVE  ProjectInv'
  <1> USE DEF ProjectInv
  <1>1. CASE BatchFail
    <2> DEFINE res == [c \in Claims |-> "error"]
    <2>1. \A c \in Claims : res[c] \in Outcomes \cup {"error"}
      OBVIOUS
    <2>2. QED
      BY <1>1, <2>1, ReturnedStep DEF BatchFail, Typed
  <1>2. CASE EndGroup
    <2>1. \A c \in Claims : Recorded[c] \in Outcomes \cup {"error"}
      BY DEF Recorded, Typed
    <2>2. answer' \in [DOMAIN answer' -> Outcomes \cup {"error"}]
      BY <1>2 DEF EndGroup
    <2>3. QED
      BY <1>2, <2>1, <2>2, ReturnedStep DEF EndGroup
  <1>3. ASSUME NEW n \in 0 .. MaxResults, BatchAnswer(n)
        PROVE  ProjectInv'
    <2> USE <1>3 DEF BatchAnswer
    <2>1. Typed'
      BY DEF Typed, Busy
    <2>2. Open(lvl)' = Open(lvl)
      BY DEF Open, graphVars
    <2>3. Workers' /\ CurrentLevel'
      BY <2>2 DEF Workers, CurrentLevel, Members, Busy, graphVars
    <2>4. QED
      BY <2>1, <2>3, BusyStep DEF Busy
  <1>4. ASSUME NEW c, NEW o \in Outcomes \cup {"error"}, Recording(c, o)
        PROVE  answer' \in [DOMAIN answer' -> Outcomes \cup {"error"}]
    BY <1>4 DEF Recording, Typed
  <1>5. ASSUME NEW c \in Claims, WriteBegin(c)
        PROVE  ProjectInv'
    BY <1>5, UnseenStep DEF WriteBegin, flow, Typed
  <1>6. ASSUME NEW c \in Claims, NEW o \in Outcomes, WriteEnd(c, o)
        PROVE  ProjectInv'
    BY <1>4, <1>6, UnseenStep DEF WriteEnd, flow
  <1>7. ASSUME NEW c \in Claims, WriteFail(c)
        PROVE  ProjectInv'
    BY <1>4, <1>7, UnseenStep DEF WriteFail, flow
  <1>8. QED
    BY <1>1, <1>2, <1>3, <1>5, <1>6, <1>7

-----------------------------------------------------------------------------
LEMMA StartLevelStep ==
  ASSUME ProjectInv, StartLevel
  PROVE  ProjectInv'
  <1> USE DEF ProjectInv, StartLevel
  <1>1. LevelsInv' /\ Open(lvl)' = Open(lvl + 1)
    BY LevelsStutter DEF Open, graphVars
  <1>2. /\ levels \in Seq(SUBSET Claims) /\ lvl \in Nat /\ lvl + 1 \in 1 .. Len(levels)
        /\ Open(lvl + 1) \subseteq levels[lvl + 1] /\ levels[lvl + 1] \subseteq Claims
    BY DEF LevelsInv, TypeOK, Place, Open
  <1>3. DoneLevels = 1 .. lvl
    BY DEF DoneLevels, Busy
  <1>4. Typed'
    BY DEF Typed, Busy
  <1>5. Place'
    BY <1>2 DEF Place, Busy, graphVars
  <1>6. DepsSettledFirst'
    BY DEF DepsSettledFirst, Deps, graphVars, Typed
  <1>7. \A c \in Claims : /\ worker[c] \notin {"queued", "running"}
                          /\ worker[c] # "idle" => \E i \in 1 .. lvl + 1 : c \in levels[i]
    BY <1>2 DEF Workers
  <1>7a. \A c \in Open(lvl + 1) : worker[c] = "idle"
    <2> SUFFICES ASSUME NEW c \in Open(lvl + 1), worker[c] # "idle"
                 PROVE  FALSE
      OBVIOUS
    <2>1. PICK i \in 1 .. lvl : c \in levels[i]
      BY <1>2 DEF Workers
    <2>2. i # lvl + 1 /\ i \in DOMAIN levels /\ lvl + 1 \in DOMAIN levels
      BY <1>2
    <2>3. QED
      BY <1>2, <2>1, <2>2 DEF LevelsInv, Disjoint
  <1>8. CASE Open(lvl + 1) = {}
    <2>1. DoneLevels' = 1 .. lvl + 1
      BY <1>8 DEF DoneLevels, Busy
    <2>2. \A c \in levels[lvl + 1] : loaded[c] = "accepted"
      BY <1>8 DEF Open
    <2>3. EarlierLevels'
      BY <1>2, <1>3, <2>1, <2>2, <1>8 DEF EarlierLevels, Settled, graphVars
    <2>4. ExitSoFar'
      BY <1>2, <1>3, <2>1, <2>2, <1>8 DEF ExitSoFar, Passed, graphVars
    <2>5. Workers'
      BY <1>7, <1>8 DEF Workers, graphVars
    <2>6. QED
      BY <1>1, <1>4, <1>5, <1>6, <1>8, <2>3, <2>4, <2>5 DEF CurrentLevel
  <1>9. CASE Open(lvl + 1) # {}
    <2>1. DoneLevels' = 1 .. lvl
      BY <1>2, <1>9 DEF DoneLevels, Busy
    <2>2. EarlierLevels'
      BY <1>2, <1>3, <2>1, <1>9 DEF EarlierLevels, Settled, graphVars
    <2>3. ExitSoFar'
      BY <1>2, <1>3, <2>1, <1>9 DEF ExitSoFar, Passed, graphVars
    <2>4. Workers'
      BY <1>1, <1>2, <1>7, <1>7a, <1>9 DEF Workers, Individual, graphVars, Typed
    <2>5. CurrentLevel'
      BY <1>1, <1>2, <1>7a, <1>9 DEF CurrentLevel, Individual, Typed, Busy
    <2>6. QED
      BY <1>1, <1>4, <1>5, <1>6, <2>2, <2>3, <2>4, <2>5
  <1>10. QED
    BY <1>8, <1>9

LEMMA EndLevelStep ==
  ASSUME ProjectInv, EndLevel
  PROVE  ProjectInv'
  <1> USE DEF ProjectInv, EndLevel
  <1>1. LevelsInv' /\ Open(lvl)' = Open(lvl)
    BY LevelsStutter DEF Open, graphVars
  <1>2. lvl > 0 /\ lvl \in Nat /\ lvl \in DOMAIN levels /\ levels[lvl] \subseteq Claims
    BY LevelFacts DEF Place, Busy
  <1>3. DoneLevels = 1 .. lvl - 1 /\ DoneLevels' = 1 .. lvl
    BY DEF DoneLevels, Busy
  <1>4. 1 .. lvl = (1 .. lvl - 1) \cup {lvl}
    BY <1>2
  <1>5. Typed'
    BY DEF Typed, Busy, Verdict
  <1>6. Place' /\ DepsSettledFirst'
    BY DEF Place, Busy, DepsSettledFirst, Deps, graphVars
  <1>7. Workers' /\ CurrentLevel'
    BY <1>1 DEF Workers, CurrentLevel, graphVars
  <1>8. \A c \in Open(lvl) : result[c] # "none"
    BY DEF CurrentLevel
  <1>9. EarlierLevels'
    BY <1>3, <1>4, <1>8 DEF EarlierLevels, Settled, Open, graphVars
  <1>10. ExitSoFar'
    <2> DEFINE failed == \E c \in Open(lvl) : result[c] # "accepted"
    <2>1. ~ failed <=> \A c \in levels[lvl] : Passed(c)
      BY DEF Passed, Open
    <2>2. exitCode = 0 <=> \A i \in 1 .. lvl - 1 : \A c \in levels[i] : Passed(c)
      BY <1>3 DEF ExitSoFar
    <2>3. exitCode' = 0 <=> exitCode = 0 /\ ~ failed
      BY DEF Verdict, Typed
    <2>4. exitCode' = 0 <=> \A i \in 1 .. lvl : \A c \in levels[i] : Passed(c)
      BY <1>4, <2>1, <2>2, <2>3
    <2>5. QED
      BY <1>3, <2>4 DEF ExitSoFar, Passed, graphVars
  <1>11. QED
    BY <1>1, <1>5, <1>6, <1>7, <1>9, <1>10

LEMMA LastSteps ==
  ASSUME ProjectInv, Exit \/ Die
  PROVE  ProjectInv'
  <1> USE DEF ProjectInv
  <1>1. LevelsInv' /\ Open(lvl)' = Open(lvl)
    BY LevelsStutter DEF Open, graphVars, Exit, Die
  <1>2. UNCHANGED <<graphVars, att, loaded, lvl, worker, groupsLeft, group, answer, result,
                    exitCode>>
    BY DEF Exit, Die
  <1>3. Typed' /\ DepsSettledFirst'
    BY <1>2 DEF Typed, Busy, DepsSettledFirst, Deps, graphVars, Exit, Die
  <1>4. Place'
    BY <1>2 DEF Place, Busy, graphVars, Exit, Die
  <1>5. Workers' /\ CurrentLevel'
    BY <1>1, <1>2 DEF Workers, CurrentLevel, Members, Busy, graphVars, Exit, Die
  <1>6. EarlierLevels' /\ ExitSoFar'
    BY <1>2 DEF EarlierLevels, ExitSoFar, DoneLevels, Busy, Settled, Passed, graphVars, Exit, Die
  <1>7. QED
    BY <1>1, <1>3, <1>4, <1>5, <1>6

LEMMA ProjectStep ==
  ASSUME ProjectInv, [ProjectNext]_vars
  PROVE  ProjectInv'
  <1>1. CASE Verify
    BY <1>1, LoadSteps, StartLevelStep, AcquireStep, FinishStep, JoinStep, StartGroupStep,
       BatchSteps, EndLevelStep, LastSteps DEF Verify, Proceed, CheckersEnd
  <1>2. CASE Die
    BY <1>2, LastSteps
  <1>3. ASSUME NEW c \in Claims, NEW f \in Files, Foreign(c, f)
        PROVE  ProjectInv'
    BY <1>3, UnseenStep DEF Foreign, flow, ProjectInv, Typed
  <1>4. CASE UNCHANGED vars
    BY <1>4, UnseenStep DEF vars, projectVars, flow, ProjectInv, Typed
  <1>5. QED
    BY <1>1, <1>2, <1>3, <1>4 DEF ProjectNext

THEOREM ProjectInvariance == ProjectSpec => []ProjectInv
  <1>1. ProjectInit => ProjectInv
    BY ProjectInit0
  <1>2. ProjectInv /\ [ProjectNext]_vars => ProjectInv'
    BY ProjectStep
  <1>3. QED
    BY <1>1, <1>2, PTL DEF ProjectSpec

\* No checker of `verify --project` runs before the claims its claim depends on
\* are settled, whatever the graph, the groups and the number of workers.
THEOREM DependenciesSettleFirst == ProjectSpec => []DepsSettledFirst
  <1>1. ProjectInv => DepsSettledFirst
    BY DEF ProjectInv
  <1>2. QED
    BY <1>1, ProjectInvariance, PTL

\* The exit code of `verify --project` is 0 exactly when every claim of the
\* graph was accepted, whatever the graph, the groups and the checkers do.
THEOREM ExitCodeIsExact == ProjectSpec => []ExitTellsAll
  <1>1. ASSUME ProjectInv PROVE ExitTellsAll
    <2> USE <1>1 DEF ProjectInv
    <2> SUFFICES ASSUME stage = "over"
                 PROVE  exitCode = 0 <=> \A c \in Claims : Passed(c)
      BY DEF ExitTellsAll, Passed
    <2>1. pc = "ready" /\ DoneLevels = 1 .. Len(levels)
      BY DEF Place, DoneLevels, Busy
    <2>2. levels \in Seq(SUBSET Claims) /\ Claims = UNION {levels[i] : i \in 1 .. Len(levels)}
      <3>1. levels \in Seq(SUBSET Claims)
        BY DEF LevelsInv, TypeOK
      <3>2. Placed = UNION {levels[i] : i \in 1 .. Len(levels)} /\ Placed \subseteq Claims
        BY <3>1 DEF Placed
      <3>3. Claims \ Placed = {}
        BY <2>1 DEF LevelsInv, Unplaced, Done
      <3>4. QED
        BY <3>1, <3>2, <3>3
    <2>3. QED
      BY <2>1, <2>2 DEF ExitSoFar
  <1>2. QED
    BY <1>1, ProjectInvariance, PTL

-----------------------------------------------------------------------------
(***************************************************************************)
(* The semaphore and the files.  The tokens in the channel are the         *)
(* individual claims whose checker runs.                                   *)
(***************************************************************************)
Tokens == sem = Cardinality(Running) /\ sem \in 0 .. MaxWorkers

FilesTyped ==
  /\ att \in [Claims -> Files]
  /\ loaded \in [Claims -> Files]
  /\ DOMAIN answer \subseteq Claims
  /\ left \in 0 .. MaxResults
  /\ torn \subseteq Claims
  /\ \A c, d \in torn : c = d
  /\ torn # {} => left > 0
  /\ stage \notin {"write", "died"} => torn = {} /\ DOMAIN answer = {}
  /\ foreign \in 0 .. MaxForeign

LEMMA RunningFinite == IsFiniteSet(Running) /\ Cardinality(Running) \in Nat
  <1>1. Running \in SUBSET Claims
    BY DEF Running
  <1>2. QED
    BY <1>1, ClaimsAssumption, FS_Subset, FS_CardinalityType

LEMMA TokensStep ==
  ASSUME ProjectInv, ProjectInv', Tokens, [ProjectNext]_vars
  PROVE  Tokens'
  <1> USE DEF ProjectInv
  <1>1. ASSUME Running' = Running, sem' = sem
        PROVE  Tokens'
    BY <1>1 DEF Tokens
  <1>2. ASSUME NEW c \in Claims, Acquire(c)
        PROVE  Tokens'
    <2>1. GroupOf[c] = NoGroup /\ c \notin Running
      BY <1>2 DEF Workers, Acquire, Running
    <2>2. Running' = Running \cup {c}
      BY <1>2, <2>1 DEF Acquire, Running, Typed
    <2>3. Cardinality(Running') = Cardinality(Running) + 1
      BY <2>1, <2>2, RunningFinite, FS_AddElement
    <2>4. QED
      BY <1>2, <2>3, RunningFinite, WorkersAssumption DEF Acquire, Free, Tokens
  <1>3. ASSUME NEW c \in Claims, NEW o \in Outcomes \cup {"error"}, Finish(c, o)
        PROVE  Tokens'
    <2>1. c \in Running
      BY <1>3 DEF Finish, Running
    <2>2. Running' = Running \ {c}
      BY <1>3, <2>1 DEF Finish, Running, Typed
    <2>3. Cardinality(Running') = Cardinality(Running) - 1 /\ Cardinality(Running) # 0
      BY <2>1, <2>2, RunningFinite, FS_RemoveElement, FS_EmptySet
    <2>4. QED
      BY <1>3, <2>3, RunningFinite, WorkersAssumption DEF Finish, Released, Tokens
  <1>4. ASSUME NEW g \in groupsLeft, StartGroup(g)
        PROVE  Tokens'
    <2>1. g # NoGroup
      BY <1>4 DEF CurrentLevel
    <2>2. Running' = Running
      BY <1>4, <2>1 DEF StartGroup, Running, Members, Typed
    <2>3. QED
      BY <1>1, <1>4, <2>2 DEF StartGroup
  <1>5. CASE BatchFail \/ EndGroup
    <2>1. group # NoGroup
      BY <1>5 DEF CurrentLevel, BatchFail, EndGroup
    <2>2. Running' = Running
      BY <1>5, <2>1 DEF BatchFail, EndGroup, Returned, Running, Members, Typed
    <2>3. QED
      BY <1>1, <1>5, <2>2 DEF BatchFail, EndGroup
  <1>6. CASE StartLevel
    <2>1. \A c \in Claims : worker[c] \notin {"queued", "running"}
      BY <1>6 DEF Workers, StartLevel
    <2>2. Running' = Running
      BY <1>6, <2>1 DEF StartLevel, Running, Typed
    <2>3. QED
      BY <1>1, <1>6, <2>2 DEF StartLevel
  <1>7. CASE \/ Validating \/ Load \/ Refuse \/ Levelling \/ Join \/ EndLevel \/ Exit \/ Die
             \/ UNCHANGED vars
    BY <1>1, <1>7 DEF Validating, Load, Refuse, Levelling, Join, EndLevel, Exit, Die, vars,
                      projectVars, Running
  <1>8. ASSUME NEW c \in Claims, NEW o, WriteBegin(c) \/ WriteEnd(c, o) \/ WriteFail(c)
        PROVE  Tokens'
    BY <1>1, <1>8 DEF WriteBegin, WriteEnd, WriteFail, Running
  <1>9. ASSUME NEW n, BatchAnswer(n)
        PROVE  Tokens'
    BY <1>1, <1>9 DEF BatchAnswer, Running
  <1>10. ASSUME NEW c \in Claims, NEW f \in Files, Foreign(c, f)
         PROVE  Tokens'
    BY <1>1, <1>10 DEF Foreign, Running
  <1>11. QED
    BY <1>2, <1>3, <1>4, <1>5, <1>6, <1>7, <1>8, <1>9, <1>10
       DEF ProjectNext, Verify, Proceed, CheckersEnd

LEMMA FilesStep ==
  ASSUME ProjectInv, FilesTyped, [ProjectNext]_vars
  PROVE  FilesTyped'
  <1> USE DEF FilesTyped, ProjectInv
  <1>1. CASE Validating \/ Load \/ Refuse \/ Levelling
    BY <1>1 DEF Validating, Load, Refuse, Levelling, projectVars
  <1>2. CASE StartLevel \/ Join \/ BatchFail \/ EndLevel \/ Exit
    BY <1>2 DEF StartLevel, Join, BatchFail, Returned, EndLevel, Exit
  <1>3. CASE EndGroup
    BY <1>3 DEF EndGroup, Returned
  <1>4. ASSUME NEW c \in Claims, Acquire(c) \/ WriteBegin(c)
        PROVE  FilesTyped'
    <2>1. CASE Acquire(c)
      BY <2>1 DEF Acquire
    <2>2. CASE WriteBegin(c)
      BY <2>2 DEF WriteBegin, Files
    <2>3. QED
      BY <1>4, <2>1, <2>2
  <1>5. ASSUME NEW c \in Claims, NEW o \in Outcomes, WriteEnd(c, o) \/ WriteFail(c)
        PROVE  FilesTyped'
    <2>1. left > 0 /\ left' = left - 1 /\ torn' = {} /\ stage = "write"
          /\ UNCHANGED <<loaded, foreign, stage>>
      BY <1>5 DEF WriteEnd, WriteFail
    <2>2. DOMAIN answer' = DOMAIN answer \cup {c}
      BY <1>5 DEF WriteEnd, WriteFail, Recording
    <2>3. att' \in [Claims -> Files]
      BY <1>5 DEF WriteEnd, WriteFail, Files
    <2>4. QED
      BY <2>1, <2>2, <2>3, ResultsAssumption
  <1>6. ASSUME NEW c \in Claims, NEW o \in Outcomes \cup {"error"}, Finish(c, o)
        PROVE  FilesTyped'
    <2>1. att' \in [Claims -> Files]
      BY <1>6 DEF Finish, Files
    <2>2. QED
      BY <1>6, <2>1 DEF Finish
  <1>7. ASSUME NEW g \in groupsLeft, StartGroup(g)
        PROVE  FilesTyped'
    BY <1>7 DEF StartGroup
  <1>8. ASSUME NEW n \in 0 .. MaxResults, BatchAnswer(n)
        PROVE  FilesTyped'
    BY <1>8 DEF BatchAnswer
  <1>9. CASE Die \/ UNCHANGED vars
    BY <1>9 DEF Die, vars, projectVars
  <1>10. ASSUME NEW c \in Claims, NEW f \in Files, Foreign(c, f)
         PROVE  FilesTyped'
    BY <1>10, ForeignAssumption DEF Foreign
  <1>11. CASE \E c \in Claims : WriteFail(c)
    <2>1. "accepted" \in Outcomes
      BY DEF Outcomes
    <2>2. QED
      BY <1>5, <1>11, <2>1
  <1>12. QED
    BY <1>1, <1>2, <1>3, <1>4, <1>5, <1>6, <1>7, <1>8, <1>9, <1>10, <1>11
       DEF ProjectNext, Verify, Proceed, CheckersEnd

LEMMA ResourceInvariance == ProjectSpec => [](ProjectInv /\ Tokens /\ FilesTyped)
  <1>1. ProjectInit => ProjectInv /\ Tokens /\ FilesTyped
    <2> SUFFICES ASSUME ProjectInit PROVE ProjectInv /\ Tokens /\ FilesTyped
      OBVIOUS
    <2>1. Running = {}
      BY DEF ProjectInit, Running
    <2>2. QED
      BY <2>1, ProjectInit0, FS_EmptySet, WorkersAssumption, ForeignAssumption, LeftoversAssumption,
         ResultsAssumption
         DEF ProjectInit, Tokens, FilesTyped, Files
  <1>2. ProjectInv /\ Tokens /\ FilesTyped /\ [ProjectNext]_vars
          => (ProjectInv /\ Tokens /\ FilesTyped)'
    BY ProjectStep, TokensStep, FilesStep
  <1>3. QED
    BY <1>1, <1>2, PTL DEF ProjectSpec

\* The variables of a run keep their types.
THEOREM ProjectTyped == ProjectSpec => []ProjectTypeOK
  <1>1. ProjectInv /\ Tokens /\ FilesTyped => ProjectTypeOK
    BY DEF ProjectInv, Tokens, FilesTyped, ProjectTypeOK, Typed, Place, Busy, LevelsInv, TypeOK
  <1>2. QED
    BY <1>1, ResourceInvariance, PTL

\* The semaphore keeps the number of checkers in flight within --parallel, and
\* a batch group's checker runs alone.
THEOREM WorkersAreBounded == ProjectSpec => []CheckersBounded
  <1>1. ASSUME ProjectInv, Tokens PROVE CheckersBounded
    BY <1>1, RunningFinite, WorkersAssumption
       DEF ProjectInv, Tokens, CheckersBounded, Workers, Running
  <1>2. QED
    BY <1>1, ResourceInvariance, PTL

\* The semaphore starves no goroutine and leaks no token: while a level waits for
\* its individual claims, either a checker that holds a token runs or a queued
\* claim finds one free; and when they have joined no token is taken, so the next
\* level has them all (cmdVerify).
SemaphoreServes ==
  /\ stage = "indiv" /\ ~ Joined =>
       Running # {} \/ (Free /\ \E c \in Individual(lvl) : worker[c] = "queued")
  /\ stage \notin {"indiv", "died"} => sem = 0

THEOREM NoGoroutineWaitsInVain == ProjectSpec => []SemaphoreServes
  <1>1. ASSUME ProjectInv, Tokens PROVE SemaphoreServes
    <2>1. ASSUME stage = "indiv", NEW c \in Individual(lvl), worker[c] # "finished",
                 ~ (Free /\ \E d \in Individual(lvl) : worker[d] = "queued")
          PROVE  Running # {}
      <3>1. c \in Open(lvl) /\ GroupOf[c] = NoGroup /\ c \in Claims
        BY <1>1, <2>1, LevelFacts DEF Individual, ProjectInv, Place, Busy
      <3>2. worker[c] \in {"queued", "running"}
        BY <1>1, <2>1, <3>1 DEF ProjectInv, Typed, CurrentLevel
      <3>3. CASE worker[c] = "running"
        BY <3>1, <3>3 DEF Running
      <3>4. CASE worker[c] = "queued"
        <4>1. Cardinality(Running) # 0
          BY <1>1, <2>1, <3>4, WorkersAssumption DEF Free, Tokens
        <4>2. QED
          BY <4>1, FS_EmptySet
      <3>5. QED
        BY <3>2, <3>3, <3>4
    <2>2. ASSUME stage \notin {"indiv", "died"} PROVE sem = 0
      <3>1. Running = {}
        BY <1>1, <2>2 DEF Running, ProjectInv, Workers
      <3>2. QED
        BY <1>1, <3>1, FS_EmptySet DEF Tokens
    <2>3. QED
      BY <2>1, <2>2 DEF SemaphoreServes, Joined
  <1>2. QED
    BY <1>1, ResourceInvariance, PTL

-----------------------------------------------------------------------------
(***************************************************************************)
(* The attestations directory, while no other process writes to it.        *)
(***************************************************************************)
\* What has passed is accepted on disk.  While a batch's answer is written its
\* members have no result yet, and a file is torn only in the middle of its own
\* write.
OnDisk ==
  foreign = 0 =>
    \A c \in Claims \ Strays :
      /\ Passed(c) => att[c] = "accepted"
      /\ stage = "write" =>
           /\ c \in DOMAIN answer \cup torn => c \in Members(group)
           /\ c \in DOMAIN answer \ torn /\ answer[c] = "accepted" => att[c] = "accepted"
           /\ c \in torn => att[c] = "torn"

\* A claim that a batch may write has not passed.
LEMMA MembersHaveNotPassed ==
  ASSUME ProjectInv, stage \in {"batch", "write"}, NEW c \in Members(group)
  PROVE  c \in Claims /\ ~ Passed(c)
  <1>1. c \in Open(lvl) /\ c \in Claims
    BY LevelFacts DEF Members, ProjectInv, Place, Busy
  <1>2. loaded[c] # "accepted"
    BY <1>1 DEF Open
  <1>3. result[c] = "none"
    BY <1>1 DEF ProjectInv, Workers, CurrentLevel
  <1>4. QED
    BY <1>1, <1>2, <1>3 DEF Passed

LEMMA OnDiskStep ==
  ASSUME ProjectInv, FilesTyped, OnDisk, [ProjectNext]_vars
  PROVE  OnDisk'
  <1>1. ASSUME UNCHANGED <<att, loaded, result, foreign>>, stage' # "write"
        PROVE  OnDisk'
    BY <1>1 DEF OnDisk, Passed
  <1>2. CASE Validating \/ Refuse \/ Levelling \/ StartLevel \/ Join \/ EndLevel \/ Exit \/ Die
    <2>1. CASE Validating
      <3>1. UNCHANGED <<att, loaded, result, foreign, stage>> /\ stage = "load"
        BY <2>1 DEF Validating, projectVars
      <3>2. QED
        BY <1>1, <3>1
    <2>2. CASE Levelling
      BY <1>1, <2>2 DEF Levelling
    <2>3. CASE StartLevel
      BY <1>1, <2>3 DEF StartLevel
    <2>4. CASE Refuse \/ Join \/ EndLevel \/ Exit \/ Die
      BY <1>1, <2>4 DEF Refuse, Join, EndLevel, Exit, Die
    <2>5. QED
      BY <1>2, <2>1, <2>2, <2>3, <2>4
  <1>3. CASE Load
    <2>1. UNCHANGED <<att, result, foreign>> /\ stage' # "write" /\ (loaded' = att \/ loaded' = loaded)
      BY <1>3 DEF Load
    <2>2. QED
      BY <2>1 DEF OnDisk, Passed
  <1>4. ASSUME NEW g \in groupsLeft, StartGroup(g)
        PROVE  OnDisk'
    BY <1>1, <1>4 DEF StartGroup
  <1>5. ASSUME NEW c \in Claims, Acquire(c)
        PROVE  OnDisk'
    <2>1. stage = "indiv"
      BY <1>5 DEF ProjectInv, Workers, Acquire, Alive
    <2>2. QED
      BY <1>1, <1>5, <2>1 DEF Acquire
  <1>6. ASSUME NEW c \in Claims, NEW o \in Outcomes \cup {"error"}, Finish(c, o)
        PROVE  OnDisk'
    <2>1. c \in Open(lvl) /\ stage = "indiv" /\ stage' = stage
      BY <1>6 DEF ProjectInv, Workers, Finish, Alive
    <2>2. /\ UNCHANGED <<loaded, foreign>> /\ result' = [result EXCEPT ![c] = o]
          /\ att' = IF o = "error" THEN att ELSE [att EXCEPT ![c] = o]
      BY <1>6 DEF Finish
    <2>3. loaded[c] # "accepted"
      BY <2>1 DEF Open
    <2>4. \A x \in Claims \ {c} : att'[x] = att[x] /\ result'[x] = result[x]
      BY <2>2 DEF FilesTyped, ProjectInv, Typed
    <2>5. result'[c] = "accepted" => att'[c] = "accepted"
      BY <2>2 DEF FilesTyped, ProjectInv, Typed
    <2>6. QED
      BY <2>1, <2>2, <2>3, <2>4, <2>5 DEF OnDisk, Passed
  <1>7. CASE BatchFail
    <2>1. UNCHANGED <<att, loaded, foreign>> /\ stage' = "groups"
      BY <1>7 DEF BatchFail, Returned
    <2>2. \A c \in Claims : result'[c] = result[c] \/ result'[c] = "error"
      BY <1>7 DEF BatchFail, Returned
    <2>3. QED
      BY <2>1, <2>2 DEF OnDisk, Passed
  <1>8. ASSUME NEW n \in 0 .. MaxResults, BatchAnswer(n)
        PROVE  OnDisk'
    <2>1. UNCHANGED <<att, loaded, result, foreign, answer, torn>> /\ stage = "batch"
      BY <1>8 DEF BatchAnswer
    <2>2. torn = {} /\ DOMAIN answer = {}
      BY <2>1 DEF FilesTyped
    <2>3. QED
      BY <2>1, <2>2 DEF OnDisk, Passed
  <1>9. ASSUME NEW c \in Claims, NEW o \in Outcomes,
               WriteBegin(c) \/ WriteEnd(c, o) \/ WriteFail(c)
        PROVE  OnDisk'
    <2> SUFFICES ASSUME foreign = 0, NEW x \in Claims \ Strays
                 PROVE  /\ Passed(x)' => att'[x] = "accepted"
                        /\ x \in DOMAIN answer' \cup torn' => x \in Members(group)'
                        /\ x \in DOMAIN answer' \ torn' /\ answer'[x] = "accepted"
                             => att'[x] = "accepted"
                        /\ x \in torn' => att'[x] = "torn"
      BY <1>9 DEF OnDisk, WriteBegin, WriteEnd, WriteFail
    <2>1. /\ UNCHANGED <<loaded, result, foreign, group, lvl>> /\ UNCHANGED graphVars
          /\ stage = "write"
      BY <1>9 DEF WriteBegin, WriteEnd, WriteFail
    <2>2. Members(group)' = Members(group) /\ (Passed(x)' <=> Passed(x))
      BY <2>1 DEF Members, Open, graphVars, Passed
    <2>3. /\ Passed(x) => att[x] = "accepted"
          /\ x \in DOMAIN answer \cup torn => x \in Members(group)
          /\ x \in DOMAIN answer \ torn /\ answer[x] = "accepted" => att[x] = "accepted"
          /\ x \in torn => att[x] = "torn"
      BY <2>1 DEF OnDisk
    <2>4. x = c /\ c \in Answered => x \in Members(group) /\ ~ Passed(x)
      BY <2>1, MembersHaveNotPassed DEF Answered
    <2>5. CASE WriteBegin(c)
      <3>1. /\ answer' = answer /\ torn' = {c} /\ torn = {} /\ att' = [att EXCEPT ![c] = "torn"]
            /\ c \in Answered
        BY <2>5 DEF WriteBegin
      <3>2. att'[c] = "torn" /\ (x # c => att'[x] = att[x])
        BY <3>1 DEF FilesTyped
      <3>3. QED
        BY <2>2, <2>3, <2>4, <3>1, <3>2
    <2>6. CASE WriteEnd(c, o)
      <3>1. /\ torn' = {} /\ c \in torn
            /\ att' = IF att[c] = "torn" THEN [att EXCEPT ![c] = o] ELSE att
        BY <2>6 DEF WriteEnd
      <3>2. /\ DOMAIN answer' = DOMAIN answer \cup {c}
            /\ answer'[c] = o
            /\ \A y \in DOMAIN answer \ {c} : answer'[y] = answer[y]
        BY <2>6 DEF WriteEnd, Recording
      <3>3. x # c => x \notin torn /\ att'[x] = att[x]
        BY <3>1 DEF FilesTyped
      <3>4. x = c => att'[x] = o /\ ~ Passed(x) /\ x \in Members(group)
        BY <2>1, <2>3, <3>1, MembersHaveNotPassed DEF FilesTyped
      <3>5. QED
        BY <2>2, <2>3, <3>1, <3>2, <3>3, <3>4
    <2>7. CASE WriteFail(c)
      <3>1. torn' = {} /\ torn \subseteq {c} /\ att' = att /\ c \in Answered
        BY <2>7 DEF WriteFail
      <3>2. /\ DOMAIN answer' = DOMAIN answer \cup {c}
            /\ answer'[c] = "error"
            /\ \A y \in DOMAIN answer \ {c} : answer'[y] = answer[y]
        BY <2>7 DEF WriteFail, Recording
      <3>3. QED
        BY <2>2, <2>3, <2>4, <3>1, <3>2
    <2>8. QED
      BY <1>9, <2>5, <2>6, <2>7
  <1>10. CASE EndGroup
    <2>1. /\ UNCHANGED <<att, loaded, foreign>> /\ stage = "write" /\ stage' = "groups" /\ torn = {}
          /\ \A c \in Claims :
               result'[c] = IF c \in Members(group) THEN Recorded[c] ELSE result[c]
      BY <1>10 DEF EndGroup, Returned, FilesTyped
    <2>2. \A c \in Claims : Recorded[c] = "accepted" => c \in DOMAIN answer /\ answer[c] = "accepted"
      BY DEF Recorded
    <2>3. QED
      BY <2>1, <2>2 DEF OnDisk, Passed
  <1>11. ASSUME NEW c \in Claims, NEW f \in Files, Foreign(c, f)
         PROVE  OnDisk'
    <2>1. foreign' # 0
      BY <1>11 DEF Foreign, FilesTyped
    <2>2. QED
      BY <2>1 DEF OnDisk
  <1>12. CASE UNCHANGED vars
    <2>1. UNCHANGED <<att, loaded, result, foreign, stage, group, lvl, torn, answer>>
          /\ UNCHANGED graphVars
      BY <1>12 DEF vars, projectVars
    <2>2. Members(group)' = Members(group)
      BY <2>1 DEF Members, Open, graphVars
    <2>3. QED
      BY <2>1, <2>2 DEF OnDisk, Passed
  <1>13. CASE \E c \in Claims : WriteBegin(c) \/ WriteFail(c)
    <2>1. "accepted" \in Outcomes
      BY DEF Outcomes
    <2>2. QED
      BY <1>9, <1>13, <2>1
  <1>14. QED
    BY <1>2, <1>3, <1>4, <1>5, <1>6, <1>7, <1>8, <1>9, <1>10, <1>11, <1>12, <1>13
       DEF ProjectNext, Verify, Proceed, CheckersEnd

\* With no other process at work, exit code 0 leaves an accepted attestation of
\* every claim in the directory, of batches too, whose files are written in
\* place after their checker has answered for any claims it likes; only what it
\* answered unasked may have been overwritten.
THEOREM ExitZeroIsOnDisk == ProjectSpec => []ExitZeroOnDisk
  <1>1. ProjectInit => OnDisk
    BY DEF ProjectInit, OnDisk, Passed
  <1>2. ProjectInv /\ FilesTyped /\ OnDisk /\ [ProjectNext]_vars => OnDisk'
    BY OnDiskStep
  <1>3. OnDisk /\ ExitTellsAll => ExitZeroOnDisk
    BY DEF OnDisk, ExitTellsAll, ExitZeroOnDisk, Passed
  <1>4. QED
    BY <1>1, <1>2, <1>3, ResourceInvariance, ExitCodeIsExact, PTL DEF ProjectSpec

-----------------------------------------------------------------------------
(***************************************************************************)
(* The refinement: a run implements Worklist.                              *)
(***************************************************************************)
Needs == [c \in Claims |-> Deps(c)]
State ==
  [c \in Claims |->
     IF loaded[c] = "accepted" \/ worker[c] = "finished" THEN "done"
     ELSE IF worker[c] = "running" THEN "busy" ELSE "waiting"]

\* A step that starts open claims of the level whose goroutine was idle or
\* queued implements Start.
LEMMA StartImplemented ==
  ASSUME ProjectInv, stage \in Busy, NEW S \in SUBSET Open(lvl),
         \A c \in S : worker[c] \in {"idle", "queued"},
         loaded' = loaded,
         worker' = [c \in Claims |-> IF c \in S THEN "running" ELSE worker[c]]
  PROVE  /\ \A c \in S : State[c] = "waiting" /\ \A d \in Needs[c] : State[d] = "done"
         /\ State' = [c \in Claims |-> IF c \in S THEN "busy" ELSE State[c]]
  <1> USE DEF ProjectInv
  <1>1. lvl > 0 /\ lvl \in DOMAIN levels /\ Open(lvl) \subseteq levels[lvl] /\ S \subseteq Claims
        /\ \A i \in 1 .. lvl - 1 : levels[i] \subseteq Claims
    BY LevelFacts DEF Place, Busy
  <1>2. \A c \in S : loaded[c] # "accepted"
    BY DEF Open
  <1>3. ASSUME NEW c \in S, NEW d \in Deps(c)
        PROVE  State[d] = "done"
    <2>1. PICK i \in 1 .. lvl - 1 : d \in levels[i]
      BY <1>1 DEF LevelsInv, LevelsTopological
    <2>2. loaded[d] = "accepted" \/ result[d] # "none"
      BY <2>1 DEF EarlierLevels, DoneLevels, Busy, Settled
    <2>3. QED
      BY <1>1, <2>1, <2>2 DEF Workers, State
  <1>4. QED
    BY <1>1, <1>2, <1>3 DEF State, Needs

\* A step that finishes running claims implements Finish.
LEMMA FinishImplemented ==
  ASSUME ProjectInv, NEW S \in SUBSET Claims,
         \A c \in S : worker[c] = "running",
         loaded' = loaded,
         worker' = [c \in Claims |-> IF c \in S THEN "finished" ELSE worker[c]]
  PROVE  /\ \A c \in S : State[c] = "busy"
         /\ State' = [c \in Claims |-> IF c \in S THEN "done" ELSE State[c]]
  <1>1. \A c \in S : loaded[c] # "accepted"
    BY DEF ProjectInv, Workers, Open
  <1>2. QED
    BY <1>1 DEF State

LEMMA WorkStep ==
  ASSUME ProjectInv, [ProjectNext]_vars
  PROVE  \/ Needs' = Needs /\ State' = State
         \/ /\ Needs' = Needs
            /\ \E S \in SUBSET Claims :
                 \/ /\ \A c \in Claims : State[c] = "waiting"
                    /\ State' = [c \in Claims |-> IF c \in S THEN "done" ELSE "waiting"]
                 \/ /\ \A c \in S : State[c] = "waiting" /\ \A d \in Needs[c] : State[d] = "done"
                    /\ State' = [c \in Claims |-> IF c \in S THEN "busy" ELSE State[c]]
                 \/ /\ \A c \in S : State[c] = "busy"
                    /\ State' = [c \in Claims |-> IF c \in S THEN "done" ELSE State[c]]
  <1> USE DEF ProjectInv
  <1> DEFINE Recalled(S) ==
               /\ \A c \in Claims : State[c] = "waiting"
               /\ State' = [c \in Claims |-> IF c \in S THEN "done" ELSE "waiting"]
             Started(S) ==
               /\ \A c \in S : State[c] = "waiting" /\ \A d \in Needs[c] : State[d] = "done"
               /\ State' = [c \in Claims |-> IF c \in S THEN "busy" ELSE State[c]]
             Finished(S) ==
               /\ \A c \in S : State[c] = "busy"
               /\ State' = [c \in Claims |-> IF c \in S THEN "done" ELSE State[c]]
  <1>1. dependsOn' = dependsOn
    BY DEF ProjectNext, Verify, Proceed, CheckersEnd, Validating, EndValidate, Visit, Load, Refuse, Levelling, Round,
           EndLevels, StartLevel, Join, BatchFail, EndGroup, EndLevel, Exit, Acquire,
           WriteBegin, WriteEnd, WriteFail, Finish, StartGroup, BatchAnswer, Die, Foreign,
           vars, graphVars
  <1>2. Needs' = Needs
    BY <1>1 DEF Needs, Deps
  <1>3. CASE Load
    <2>1. \A c \in Claims : worker[c] = "idle"
      BY <1>3 DEF Workers, Place, Load, Typed
    <2>2. CASE loaded' = loaded
      BY <1>3, <2>2, <1>2 DEF Load, State
    <2>3. CASE loaded' = att
      <3> DEFINE S == {c \in Claims : att[c] = "accepted"}
      <3>1. \A c \in Claims : State[c] = "waiting"
        BY <1>3, <2>1 DEF State, Place, Load
      <3>2. State' = [c \in Claims |-> IF c \in S THEN "done" ELSE "waiting"]
        BY <1>3, <2>1, <2>3 DEF State, Load
      <3>3. QED
        BY <1>2, <3>1, <3>2
    <2>4. QED
      BY <1>3, <2>2, <2>3 DEF Load
  <1>4. ASSUME NEW S, S \in SUBSET Open(lvl), stage \in Busy,
               \A c \in S : worker[c] \in {"idle", "queued"},
               loaded' = loaded,
               worker' = [c \in Claims |-> IF c \in S THEN "running" ELSE worker[c]]
        PROVE  S \in SUBSET Claims /\ Started(S)
    <2>1. S \in SUBSET Claims
      BY <1>4, LevelFacts DEF Place, Busy
    <2>2. QED
      BY <1>4, <2>1, StartImplemented
  <1>5. ASSUME NEW c \in Claims, Acquire(c)
        PROVE  Started({c})
    <2>1. c \in Open(lvl) /\ stage \in Busy
      BY <1>5 DEF Workers, Acquire, Alive, Busy
    <2>2. worker' = [x \in Claims |-> IF x \in {c} THEN "running" ELSE worker[x]]
      BY <1>5 DEF Acquire, Typed
    <2>3. QED
      BY <1>4, <1>5, <2>1, <2>2 DEF Acquire
  <1>6. ASSUME NEW g \in groupsLeft, StartGroup(g)
        PROVE  Members(g) \in SUBSET Claims /\ Started(Members(g))
    <2>1. Members(g) \in SUBSET Open(lvl) /\ stage \in Busy
      BY <1>6 DEF Members, StartGroup, Busy
    <2>2. \A c \in Members(g) : worker[c] = "idle"
      BY <1>6, <2>1 DEF Members, CurrentLevel
    <2>3. /\ loaded' = loaded
          /\ worker' = [c \in Claims |-> IF c \in Members(g) THEN "running" ELSE worker[c]]
      BY <1>6 DEF StartGroup
    <2> HIDE DEF Started
    <2>4. QED
      BY <1>4, <2>1, <2>2, <2>3
  <1>7. ASSUME NEW c \in Claims, NEW o \in Outcomes \cup {"error"}, Finish(c, o)
        PROVE  Finished({c})
    <2>1. worker' = [x \in Claims |-> IF x \in {c} THEN "finished" ELSE worker[x]]
      BY <1>7 DEF Finish, Typed
    <2>2. {c} \in SUBSET Claims /\ \A x \in {c} : worker[x] = "running"
      BY <1>7 DEF Finish
    <2>3. loaded' = loaded
      BY <1>7 DEF Finish
    <2>4. QED
      BY <2>1, <2>2, <2>3, FinishImplemented
  <1>8. CASE BatchFail \/ EndGroup
    <2>1. Members(group) \in SUBSET Claims
      BY <1>8, LevelFacts DEF Members, Place, Busy, BatchFail, EndGroup
    <2>2. \A c \in Members(group) : worker[c] = "running"
      BY <1>8 DEF CurrentLevel, BatchFail, EndGroup
    <2>3. Finished(Members(group))
      BY <1>8, <2>1, <2>2, FinishImplemented DEF BatchFail, EndGroup, Returned
    <2>4. QED
      BY <1>2, <2>1, <2>3
  <1>9. CASE StartLevel
    <2>1. \A c \in Claims : worker[c] # worker'[c] => worker'[c] = "queued" /\ worker[c] = "idle"
      <3>1. \A c \in Individual(lvl + 1) : worker[c] = "idle"
        <4> SUFFICES ASSUME NEW c \in Individual(lvl + 1), worker[c] # "idle"
                     PROVE  FALSE
          OBVIOUS
        <4>1. lvl + 1 \in DOMAIN levels /\ lvl \in Nat /\ c \in levels[lvl + 1] /\ c \in Claims
          BY <1>9 DEF StartLevel, Individual, Open, LevelsInv, TypeOK, Place
        <4>2. PICK i \in 1 .. lvl : c \in levels[i]
          BY <4>1 DEF Workers
        <4>3. i # lvl + 1 /\ i \in DOMAIN levels
          BY <4>1 DEF Place, LevelsInv, TypeOK
        <4>4. QED
          BY <4>1, <4>2, <4>3 DEF LevelsInv, Disjoint
      <3>2. QED
        BY <1>9, <3>1 DEF StartLevel, Typed
    <2>2. State' = State
      BY <1>9, <2>1 DEF StartLevel, State
    <2>3. QED
      BY <1>2, <2>2
  <1>10. ASSUME UNCHANGED <<loaded, worker>>
         PROVE  State' = State
    BY <1>10 DEF State
  <1>11. CASE Validating \/ Refuse \/ Levelling \/ Join \/ EndLevel \/ Exit \/ Die \/ UNCHANGED vars
    BY <1>2, <1>10, <1>11 DEF Validating, Refuse, Levelling, Join, EndLevel, Exit, Die, vars,
                              projectVars
  <1>12. ASSUME NEW c \in Claims, NEW o, WriteBegin(c) \/ WriteEnd(c, o) \/ WriteFail(c)
         PROVE  State' = State
    BY <1>10, <1>12 DEF WriteBegin, WriteEnd, WriteFail
  <1>13. ASSUME NEW n, BatchAnswer(n)
         PROVE  State' = State
    BY <1>10, <1>13 DEF BatchAnswer
  <1>14. ASSUME NEW c \in Claims, NEW f \in Files, Foreign(c, f)
         PROVE  State' = State
    BY <1>10, <1>14 DEF Foreign
  <1>15. CASE \E c \in Claims : Acquire(c)
    <2>1. PICK c \in Claims : Acquire(c)
      BY <1>15
    <2>2. {c} \in SUBSET Claims /\ Started({c})
      BY <1>5, <2>1
    <2>3. QED
      BY <1>2, <2>2
  <1>16. CASE \E c \in Claims, o \in Outcomes \cup {"error"} : Finish(c, o)
    <2>1. PICK c \in Claims, o \in Outcomes \cup {"error"} : Finish(c, o)
      BY <1>16
    <2>2. {c} \in SUBSET Claims /\ Finished({c})
      BY <1>7, <2>1
    <2>3. QED
      BY <1>2, <2>2
  <1>17. CASE \E g \in groupsLeft : StartGroup(g)
    BY <1>2, <1>6, <1>17
  <1>18. QED
    <2> HIDE DEF Started, Finished
    <2>1. CASE Verify
      BY <1>2, <1>3, <1>8, <1>9, <1>11, <1>12, <1>13, <1>15, <1>16, <1>17, <2>1
         DEF Verify, Proceed, CheckersEnd
    <2>2. QED
      BY <1>2, <1>11, <1>14, <2>1 DEF ProjectNext

\* `verify --project` works through the claims as Worklist says: dependencies
\* first, every claim at most once.
THEOREM ProjectImplementsWorklist == ProjectSpec => ImplementsWorklist
  <1>1. ProjectInit => Work!Init
    <2> SUFFICES ASSUME ProjectInit PROVE Work!Init
      OBVIOUS
    <2>1. LevelsInv
      BY LevelsInit DEF ProjectInit, Init
    <2>2. Needs \in [Claims -> SUBSET Claims]
      BY <2>1, ListLemma DEF LevelsInv, Needs
    <2>3. State = [c \in Claims |-> "waiting"]
      BY DEF ProjectInit, State
    <2>4. QED
      BY <2>2, <2>3 DEF Work!Init, Needs, State
  <1>2. ProjectInv /\ [ProjectNext]_vars => [Work!Next]_(Work!workVars)
    <2> SUFFICES ASSUME ProjectInv, [ProjectNext]_vars
                 PROVE  [Work!Next]_(Work!workVars)
      OBVIOUS
    <2>1. CASE Needs' = Needs /\ State' = State
      BY <2>1 DEF Work!workVars, Needs, State
    <2>2. ASSUME Needs' = Needs, NEW S \in SUBSET Claims,
                 \A c \in Claims : State[c] = "waiting",
                 State' = [c \in Claims |-> IF c \in S THEN "done" ELSE "waiting"]
          PROVE  Work!Next
      BY <2>2 DEF Work!Next, Work!Recall, Needs, State
    <2>3. ASSUME Needs' = Needs, NEW S \in SUBSET Claims,
                 \A c \in S : State[c] = "waiting" /\ \A d \in Needs[c] : State[d] = "done",
                 State' = [c \in Claims |-> IF c \in S THEN "busy" ELSE State[c]]
          PROVE  Work!Next
      BY <2>3 DEF Work!Next, Work!Start, Needs, State
    <2>4. ASSUME Needs' = Needs, NEW S \in SUBSET Claims,
                 \A c \in S : State[c] = "busy",
                 State' = [c \in Claims |-> IF c \in S THEN "done" ELSE State[c]]
          PROVE  Work!Next
      BY <2>4 DEF Work!Next, Work!Finish, Needs, State
    <2>5. QED
      BY <2>1, <2>2, <2>3, <2>4, WorkStep
  <1>3. QED
    BY <1>1, <1>2, ProjectInvariance, PTL DEF ProjectSpec, ImplementsWorklist, Work!Spec

=============================================================================
