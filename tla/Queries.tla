------------------------------- MODULE Queries -------------------------------
(***************************************************************************)
(* What a proofctl process does with a graph that Validate has accepted    *)
(* when its command is not `verify --project`: status, graph, explain and  *)
(* impact search it, and so does the kernel's propagation of staleness.    *)
(* Each search is written on its own in the code: down along depends_on    *)
(* (Closure), up from the dependents (Impact), up as a queue of reversed   *)
(* edges (PropagateStale), and as Kahn's algorithm once more (topoSort).   *)
(*                                                                         *)
(* A search that recurses has calls to make, one that loops has a queue.   *)
(* Both are a set here, taken from in any order: Impact ranges over a map, *)
(* and a call or an entry that waits twice does nothing the second time.   *)
(***************************************************************************)
EXTENDS Levels

CONSTANT Asked   \* claims that commands are asked about

ASSUME AskedAssumption == Asked \subseteq Claims

VARIABLES
  about,     \* the claim on the command line
  search,    \* the search begun, or "none"
  calls,     \* claims it has still to go to
  met,       \* the claims it has visited
  deg,       \* topoSort's inDegree
  order      \* what topoSort returns

searchVars == <<about, search, calls, met, deg, order>>
queryVars == <<graphVars, searchVars>>

Dependents(c) == {d \in Claims \ {c} : c \in Deps(d)}

\* The graph has been accepted and nothing else has been done.
Accepted == pc = "levels" /\ levels = <<>>

QueriesInit ==
  /\ LoadInit
  /\ about \in Asked
  /\ search = "none"
  /\ calls = {}
  /\ met = {}
  /\ deg = [c \in Claims |-> 0]
  /\ order = <<>>

LoadGraph == search = "none" /\ LevelsNext /\ UNCHANGED searchVars

-----------------------------------------------------------------------------
\* closure is called with the claim, impactFrom with each of its dependents;
\* the queues begin with the changed claim, and with the claims without an entry.
FirstCalls ==
  [closure |-> {about}, impact |-> Dependents(about), stale |-> {about},
   sort |-> {c \in Claims : Len(dependsOn[c]) = 0}]

Ask(s) ==
  /\ Accepted /\ search = "none"
  /\ search' = s
  /\ calls' = FirstCalls[s]
  /\ deg' = [c \in Claims |-> Len(dependsOn[c])]
  /\ UNCHANGED <<graphVars, about, met, order>>

\* A variant of Onward: Impact stops at the dependents of dependents.
MutOnward(c) ==
  IF search = "closure" THEN Deps(c)
  ELSE IF search = "impact" /\ c \notin Dependents(about) THEN {} ELSE Dependents(c)

\* Where the search goes from a claim it has not visited before.
Onward(c) == IF search = "closure" THEN Deps(c) ELSE Dependents(c)

\* A claim met before leads nowhere.
Meet(c) ==
  /\ c \in calls
  /\ met' = met \cup {c}
  /\ calls' = (calls \ {c}) \cup (IF c \in met THEN {} ELSE Onward(c))
  /\ UNCHANGED <<graphVars, about, search, deg, order>>

\* One call of closure or impactFrom.
Call(c) == search \in {"closure", "impact"} /\ Meet(c)

\* One round of PropagateStale's loop, which marks what it meets as stale.
Spread(c) == search = "stale" /\ Meet(c)

\* One round of topoSort's loop.
Take(c) ==
  /\ search = "sort"
  /\ c \in calls
  /\ order' = Append(order, c)
  /\ deg' = Decrement(deg, c)
  /\ calls' = (calls \ {c}) \cup {d \in Claims : deg[d] > 0 /\ deg'[d] = 0}
  /\ UNCHANGED <<graphVars, about, search, met>>

QueriesNext ==
  \/ LoadGraph
  \/ \E s \in DOMAIN FirstCalls : Ask(s)
  \/ \E c \in Claims : Call(c) \/ Spread(c) \/ Take(c)

QueriesSpec == QueriesInit /\ [][QueriesNext]_queryVars /\ WF_queryVars(QueriesNext)

\* The search has returned.
HasReturned == search # "none" /\ calls = {}

\* What Closure returns: the claims visited, but for the first.
Closure == met \ {about}

-----------------------------------------------------------------------------
\* An attestation is represented by its outcome; "overturned" is a protocol 2
\* attestation of outcome "accepted" whose obligation results do not pass (what
\* replay --batch leaves for a claim with a checker); "none" is no attestation.
Attested == {"none", "accepted", "rejected", "overturned"}

\* deriveStatus, and ir.Status(att.Outcome)
DeriveStatus(a) == IF a = "overturned" THEN "rejected" ELSE a
Outcome(a) == IF a = "overturned" THEN "accepted" ELSE a

Blocking == {"disproved", "rejected", "error"}

\* A variant of ComputeOne: only direct dependencies block.
MutComputeOne(atts) ==
  IF atts[about] # "none" THEN DeriveStatus(atts[about])
  ELSE IF \E d \in Deps(about) : DeriveStatus(atts[d]) \in Blocking THEN "blocked" ELSE "open"

\* status.computeOne, once Closure has returned
ComputeOne(atts) ==
  IF atts[about] # "none" THEN DeriveStatus(atts[about])
  ELSE IF \E d \in Closure : DeriveStatus(atts[d]) \in Blocking THEN "blocked" ELSE "open"

\* computeOneWithReason, and the blockers that explain prints, believe outcomes.
Blockers(atts) == {d \in Closure : Outcome(atts[d]) \in Blocking}

\* frontier
Frontier(atts) == {d \in Deps(about) : Outcome(atts[d]) # "accepted"}

-----------------------------------------------------------------------------
(***************************************************************************)
(* The reference: the claims below c are the least set that holds c's      *)
(* dependencies and theirs.                                                *)
(***************************************************************************)
Under(c, S) == Deps(c) \subseteq S /\ \A d \in S : Deps(d) \subseteq S

Below(c) == {d \in Claims : \A S \in SUBSET Claims : Under(c, S) => d \in S}

Above(c) == {d \in Claims : c \in Below(d)}

\* For every graph that Validate accepts, the four searches say the same: the
\* closure of a claim is what is below it, its impact is what it is below, a
\* change makes stale the claim and its impact and nothing else, and topoSort
\* lists every claim once and after its dependencies, so that it never reports
\* a cycle (dag.go:104-188, derive.go:213-236, main.go:325-358).
SearchesAgree ==
  HasReturned =>
    /\ search = "closure" => Closure = Below(about)
    /\ search = "impact" => met = Above(about)
    /\ search = "stale" => met = {about} \cup Above(about)
    /\ search = "sort" =>
         /\ Len(order) = Cardinality(Claims)
         /\ Claims = {order[i] : i \in DOMAIN order}
         /\ \A i \in DOMAIN order : Deps(order[i]) \subseteq {order[j] : j \in 1 .. i - 1}

\* status calls a claim without an attestation blocked exactly if it is in the
\* impact of one that is rejected, however far away; unless an attestation was
\* overturned, explain then names a blocker, and if the frontier is empty what
\* blocks the claim is below an accepted dependency
\* (status.go:26-50, cmd_explain.go:83-96, cmd_frontier.go:31-37).
BlockedAreImpacted ==
  HasReturned /\ search = "closure" =>
    \A atts \in [Claims -> Attested] :
      atts[about] = "none" =>
        /\ ComputeOne(atts) = "blocked" <=>
             \E d \in Claims : DeriveStatus(atts[d]) = "rejected" /\ about \in Above(d)
        /\ (\A d \in Claims : atts[d] # "overturned") =>
             /\ ComputeOne(atts) = "blocked" <=> Blockers(atts) # {}
             /\ ComputeOne(atts) = "blocked" /\ Frontier(atts) = {} =>
                  \E d \in Deps(about) :
                    atts[d] = "accepted" /\ \E b \in Below(d) : atts[b] = "rejected"

\* A command ends: a search in any case, and verify's levels when no depends_on
\* list names a claim twice, whatever cycles there are.
CommandEnds ==
  ~ Repeats \/ <>(search # "none") => <>(pc \in {"ready", "rejected"} \/ HasReturned)

=============================================================================
