---------------------------- MODULE MCActivation ----------------------------
(***************************************************************************)
(* What changes which package is active, for TLC: the scoring activation   *)
(* of a host, its controlled promotion, and the catalog runtime with its   *)
(* registry of generations, the activation store of a host and the update  *)
(* of a fleet.  They share no state here: side says which of them a        *)
(* behaviour is about.                                                     *)
(***************************************************************************)
EXTENDS ScoringActivation, PackageUse, TLC

CONSTANTS c1, a1, a2, a3, good, drift, k1, k2, g1, g2, g3, r1, r2, none, p1, p2, w1, w2, w3, u1, u2

AnyOp == [c \in Callers |-> Ops]
AllReady == [p \in Packages |-> TRUE]
CanariesOf == (u1 :> {w1}) @@ (u2 :> {w2})

VARIABLE side

allVars == <<side, vars, promotionVars, registryVars, hostVars, fleetVars>>

\* one drifting observation, whose summary is beyond the thresholds
Blocked == {s \in SUBSET {good, drift} : drift \in s}

ASSUME RuntimeAssumption == RegistryFits /\ Fleet!ConstantsFit

HostBound == Cardinality(hostActivations) < 5

MCInit ==
    /\ side \in {"activation", "promotion", "registry", "host", "fleet"}
    /\ Init /\ Registry!Init /\ Host!Init /\ Fleet!Init /\ Promoting!Init
    /\ side # "promotion" => operators = "careful"

MCNext ==
    /\ UNCHANGED side
    /\ \/ side = "activation" /\ Next /\ UNCHANGED <<promotionVars, registryVars, hostVars, fleetVars>>
       \/ side = "promotion" /\ Promoting!Next /\ UNCHANGED <<vars, registryVars, hostVars, fleetVars>>
       \/ side = "registry" /\ Registry!Next /\ UNCHANGED <<vars, promotionVars, hostVars, fleetVars>>
       \/ side = "host" /\ HostBound /\ Host!Next /\ UNCHANGED <<vars, promotionVars, registryVars, fleetVars>>
       \/ side = "fleet" /\ Fleet!Next /\ UNCHANGED <<vars, promotionVars, registryVars, hostVars>>

MCSpec ==
    /\ MCInit /\ [][MCNext]_allVars
    /\ Registry!Fairness /\ PromotionFairness
=============================================================================
