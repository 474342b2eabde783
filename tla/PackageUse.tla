----------------------------- MODULE PackageUse -----------------------------
(***************************************************************************)
(* A package on its way into use: the controlled promotion of a scoring    *)
(* package (activationpromotion), the fleet update that takes a catalog    *)
(* package to the workers (updatemanager), the activation store of one     *)
(* host (catalogruntime.StateStore) and the registry of the generations    *)
(* that readers of a process use (catalogruntime.Registry).  They share no *)
(* state; a behaviour is about one of them.                                *)
(***************************************************************************)
EXTENDS Integers, FiniteSets, Sequences

CONSTANTS Generations, Readers, MaxLeases,
          Packages, ReadyFor, Commands, MaxClock, MaxHostStops,
          Workers, Updates, Canaries, NoUpdate, MaxEpoch, MaxFaults,
          NoGen,
          Intents, Instances, RequiredAcks, Observations, Blocking, Operators, MaxRevision, MaxCuts,
          Base, Candidate, Manager, Bases, NoDocument

\* what the proofs about the registry use
RegistryFits == NoGen \notin Generations /\ IsFiniteSet(Readers)

VARIABLES generation, epoch, gen, installer, reader, leases,
          hostPointer, hostActivations, hostRollbacks, hostLock, command, clock, hostStops,
          update, staged, running, fleetPointer, records, last, fleetOp, faults,
          operators, pActivations, pActive, pJournal, pSound, pPc, pOp, pDoc, pPrev, pStops,
          lock, intents, snapshots, state, pending, audit, auditHead, acks, observations, reports, summaries,
          step, next, event, ack, cuts

registryVars == <<generation, epoch, gen, installer, reader, leases>>
hostVars == <<hostPointer, hostActivations, hostRollbacks, hostLock, command, clock, hostStops>>
fleetVars == <<update, staged, running, fleetPointer, records, last, fleetOp, faults>>
promotionVars == <<operators, <<pActivations, pActive, pJournal, pSound, pPc, pOp, pDoc, pPrev, pStops>>,
                   lock, intents, snapshots, state, pending, audit, auditHead, acks, observations, reports, summaries,
                   step, next, event, ack, cuts>>

Registry == INSTANCE GenerationRegistry WITH active <- generation
Host == INSTANCE CatalogActivation WITH
    MaxStops <- MaxHostStops, pointer <- hostPointer, activations <- hostActivations, rollbacks <- hostRollbacks,
    lock <- hostLock, stops <- hostStops
Fleet == INSTANCE FleetUpdate WITH pointer <- fleetPointer, op <- fleetOp
Promoting == INSTANCE Promotion WITH
    Ids <- Bases, None <- NoDocument,
    activations <- pActivations, active <- pActive, journal <- pJournal, sound <- pSound, pc <- pPc, op <- pOp, doc <- pDoc,
    prev <- pPrev, stops <- pStops

ASSUME PromotionAssumption == Promoting!ConstantsFit

\* a promotion command goes on, and careful operators run recover
PromotionFairness ==
    /\ WF_promotionVars(UNCHANGED operators /\ Promoting!InProgress)
    /\ WF_promotionVars(UNCHANGED operators /\ Promoting!Complete)

(***************************************************************************)
(* WaitDrained returns for a generation of the catalog runtime only when   *)
(* nobody holds or will be handed a lease on it.                           *)
(***************************************************************************)
DrainedIsUnread == Registry!DrainedIsUnread

(***************************************************************************)
(* A generation that was replaced is reported drained in the end, whoever  *)
(* takes its count of readers to zero.                                     *)
(***************************************************************************)
Drains == Registry!Drains

(***************************************************************************)
(* No activation of a catalog is lost: the pointer of a host moves only to *)
(* a recorded activation that was built on the generation it replaces,     *)
(* whatever commands overlapped, were cut off or were run again.           *)
(***************************************************************************)
PointerSucceeds == Host!PointerSucceeds

(***************************************************************************)
(* The fleet pointer moves to a package only when every required worker    *)
(* runs it under that epoch, although answers were lost, probes failed and *)
(* operations were cut off; and no worker outside the canaries leaves its  *)
(* package for one that a canary of that activation does not run.          *)
(***************************************************************************)
FleetBehindPointer == Fleet!FleetBehindPointer

(***************************************************************************)
(* Promotion with operators who recover first: VerifyAudit accepts the     *)
(* audit chain at every moment; between commands it tells how              *)
(* promotion.json came about, each revision once, active.json is what the  *)
(* phase says is served, and the next revision can be written, although    *)
(* transactions were cut off and completed by Recover.                     *)
(***************************************************************************)
AuditHolds == Promoting!AuditHolds

(***************************************************************************)
(* Wherever a promotion command is cut off or dies: the candidate is       *)
(* active only with the required acknowledgements and a report within the  *)
(* thresholds (Promote, Evaluate), and promotion.json goes through its     *)
(* revisions one by one and its phases in the documented order, also when  *)
(* a pending transaction is completed late.                                *)
(***************************************************************************)
CandidateEarned == [](state # NoDocument => Promoting!Earned) /\ Promoting!RevisionsInOrder

(***************************************************************************)
(* A promotion transaction that was cut off is completed, given that       *)
(* recover is run.                                                         *)
(***************************************************************************)
RecoverCompletes == Promoting!RecoverCompletes
=============================================================================
