-------------------------------- MODULE Derive --------------------------------
(***************************************************************************)
(* The state of a claim under the v2 kernel (internal/kernel/derive): a    *)
(* function of what is known about the claim and its dependencies.         *)
(***************************************************************************)
EXTENDS Integers

ClaimStates ==
  {"OPEN", "CANDIDATE", "LOCALLY_VERIFIED", "GLOBALLY_VERIFIED", "REPRODUCIBLE",
   "RELEASED", "STALE", "BLOCKED"}

\* The order in which states count as progress; STALE and BLOCKED are below all.
StateOrdinal ==
  [s \in ClaimStates |->
     CASE s \in {"BLOCKED", "STALE"} -> -1
       [] s = "OPEN"                 -> 0
       [] s = "CANDIDATE"            -> 1
       [] s = "LOCALLY_VERIFIED"     -> 2
       [] s = "GLOBALLY_VERIFIED"    -> 3
       [] s = "REPRODUCIBLE"         -> 4
       [] s = "RELEASED"             -> 5]

StateAtLeast(actual, required) == StateOrdinal[actual] >= StateOrdinal[required]

\* DeriveInput: `dep' gives the states of the dependencies that are known and
\* `required' the least state demanded of some.
Stale(in) == in.attested # "" /\ in.attested # in.current

Capped(in) == in.runtime \in {"native-dev", "native"}

DepsReady(in) ==
  \A d \in DOMAIN in.required :
    d \in DOMAIN in.dep /\ StateAtLeast(in.dep[d], in.required[d])

\* Variant: no obligation results count as none that failed.
MutDeriveClaimState(in) ==
  IF in.obligations \in {"fail", "mismatch"} THEN "BLOCKED" ELSE "GLOBALLY_VERIFIED"

DeriveClaimState(in) ==
  CASE Stale(in) -> "STALE"
    [] ~ Stale(in) /\ (\/ \E d \in DOMAIN in.dep : in.dep[d] = "BLOCKED"
                       \/ in.obligations \in {"fail", "mismatch"}) -> "BLOCKED"
    [] OTHER ->
         IF in.obligations = "absent"
           THEN IF in.evidence = "present" THEN "CANDIDATE" ELSE "OPEN"
         ELSE IF Capped(in) \/ ~ DepsReady(in) THEN "LOCALLY_VERIFIED"
         ELSE IF in.root /\ in.signed THEN "RELEASED"
         ELSE IF in.replay THEN "REPRODUCIBLE" ELSE "GLOBALLY_VERIFIED"

=============================================================================
