---------------------------- MODULE FleetUpdate ----------------------------
(***************************************************************************)
(* updatemanager: one Manager takes a package to a fleet of workers:       *)
(* staged everywhere, activated on the canaries, then on the others, then  *)
(* recorded and named by the fleet pointer; and rolls the fleet back.  A   *)
(* worker may refuse to stage, may fail its probe or may not answer; the   *)
(* Manager may be cut off between any two steps.                           *)
(***************************************************************************)
EXTENDS Integers, FiniteSets, Sequences

CONSTANTS Workers,   \* required workers
          Updates,   \* compiled updates
          Canaries,  \* [Updates -> SUBSET Workers]
          NoUpdate,
          MaxEpoch, MaxFaults

\* what the proofs use
ConstantsFit == Canaries \in [Updates -> SUBSET Workers]

VARIABLES update,   \* [Updates -> status of its record]
          staged,   \* [Workers -> packages a worker holds]
          running,  \* [Workers -> [pkg, epoch]]: MemoryWorker.active
          pointer,  \* active.json: [pkg, epoch]
          records,  \* fleet-activations/ and fleet-rollbacks/: [kind, pkg, epoch, state]
          last,     \* the activation record the Manager returned last
          op,       \* the operation under way
          faults

vars == <<update, staged, running, pointer, records, last, op, faults>>

Idle == [kind |-> "idle"]
Nothing == [pkg |-> NoUpdate, epoch |-> 0]
Record(kind, u, epoch, state) == [kind |-> kind, pkg |-> u, epoch |-> epoch, state |-> state]

Init ==
    /\ update = [u \in Updates |-> "none"]
    /\ staged = [w \in Workers |-> {}]
    /\ running = [w \in Workers |-> Nothing]
    /\ pointer = Nothing /\ records = {} /\ last = Record("activation", NoUpdate, 0, "none")
    /\ op = Idle /\ faults = 0

Fault == faults < MaxFaults /\ faults' = faults + 1
NoFault == UNCHANGED faults

---------------------------------------------------------------------------
\* Prepare and PrepareDelta: a delta may be rejected or ask for a full rebuild; a record is written
\* once, and a failure (failRecord) writes none
Prepare(u, status) ==
    /\ op = Idle /\ update[u] = "none"
    /\ update' = [update EXCEPT ![u] = status]
    /\ UNCHANGED <<staged, running, pointer, records, last, op, faults>>

---------------------------------------------------------------------------
(* Activate                                                                *)

ActivateStart(u) ==
    /\ op = Idle /\ update[u] = "compiled" /\ pointer.epoch < MaxEpoch
    /\ op' = [kind |-> "activate", at |-> "stage", u |-> u, epoch |-> 0, todo |-> Workers]
    /\ UNCHANGED <<update, staged, running, pointer, records, last, faults>>

\* worker.Stage: a worker that is not ready, or does not answer, ends the activation
Stage(w) ==
    /\ op.kind = "activate" /\ op.at = "stage" /\ w \in op.todo
    /\ \/ /\ staged' = [staged EXCEPT ![w] = @ \cup {op.u}]
          /\ op' = [op EXCEPT !.todo = @ \ {w}]
          /\ NoFault
       \/ Fault /\ op' = Idle /\ UNCHANGED staged
    /\ UNCHANGED <<update, running, pointer, records, last>>

Begin ==
    /\ op.kind = "activate" /\ op.at = "stage" /\ op.todo = {}
    /\ op' = [op EXCEPT !.at = "canary", !.epoch = pointer.epoch + 1, !.todo = Canaries[op.u]]
    /\ UNCHANGED <<update, staged, running, pointer, records, last, faults>>

\* worker.Activate: the package must be staged; a probe that fails leaves the worker as it was
Runs(w, u, epoch) == /\ u \in staged[w]
                     /\ running' = [running EXCEPT ![w] = [pkg |-> u, epoch |-> epoch]]

\* a canary whose answer is not looked at
ActivateOne_Unchecked(w) ==
    /\ op.kind = "activate" /\ op.at \in {"canary", "broad"} /\ w \in op.todo
    /\ \/ Runs(w, op.u, op.epoch) /\ NoFault
       \/ Fault /\ UNCHANGED running
    /\ op' = [op EXCEPT !.todo = @ \ {w}]
    /\ UNCHANGED <<update, staged, pointer, records, last>>

ActivateOne(w) ==
    /\ op.kind = "activate" /\ op.at \in {"canary", "broad"} /\ w \in op.todo
    /\ \/ Runs(w, op.u, op.epoch) /\ op' = [op EXCEPT !.todo = @ \ {w}] /\ NoFault /\ UNCHANGED <<records, last>>
       \/ /\ Fault /\ op' = Idle /\ UNCHANGED running       \* an error: nothing is recorded
          /\ UNCHANGED <<records, last>>
       \/ /\ Fault /\ op' = Idle /\ UNCHANGED running       \* AckFail: a failed activation is recorded
          /\ last' = Record("activation", op.u, op.epoch, "failed")
          /\ records' = records \cup {last'}
    /\ UNCHANGED <<update, staged, pointer>>

Broad ==
    /\ op.kind = "activate" /\ op.at = "canary" /\ op.todo = {}
    /\ op' = [op EXCEPT !.at = "broad", !.todo = Workers \ Canaries[op.u]]
    /\ UNCHANGED <<update, staged, running, pointer, records, last, faults>>

PersistActivation ==
    /\ op.kind = "activate" /\ op.at = "broad" /\ op.todo = {}
    /\ records' = records \cup {Record("activation", op.u, op.epoch, "complete")}
    /\ op' = [op EXCEPT !.at = "pointer"]
    /\ UNCHANGED <<update, staged, running, pointer, last, faults>>

SetActive ==
    /\ op.kind # "idle" /\ op.at = "pointer"
    /\ pointer' = [pkg |-> op.u, epoch |-> op.epoch]
    /\ last' = IF op.kind = "activate" THEN Record("activation", op.u, op.epoch, "complete") ELSE last
    /\ op' = Idle
    /\ UNCHANGED <<update, staged, running, records, faults>>

---------------------------------------------------------------------------
(* Rollback, from the activation that was returned last                    *)

RollbackStart(u) ==
    /\ op = Idle /\ update[u] = "compiled"
    /\ last.epoch \in 1..(MaxEpoch - 1)
    /\ op' = [kind |-> "rollback", at |-> "workers", u |-> u, epoch |-> last.epoch + 1, todo |-> Workers]
    /\ UNCHANGED <<update, staged, running, pointer, records, last, faults>>

RollbackOne(w) ==
    /\ op.kind = "rollback" /\ op.at = "workers" /\ w \in op.todo
    /\ \/ /\ staged' = [staged EXCEPT ![w] = @ \cup {op.u}]
          /\ running' = [running EXCEPT ![w] = [pkg |-> op.u, epoch |-> op.epoch]]
          /\ op' = [op EXCEPT !.todo = @ \ {w}] /\ NoFault
       \/ /\ Fault /\ op' = Idle /\ UNCHANGED running
          /\ \E held \in {{}, {op.u}} : staged' = [staged EXCEPT ![w] = @ \cup held]
    /\ UNCHANGED <<update, pointer, records, last>>

PersistRollback ==
    /\ op.kind = "rollback" /\ op.at = "workers" /\ op.todo = {}
    /\ records' = records \cup {Record("rollback", op.u, op.epoch, "complete")}
    /\ op' = [op EXCEPT !.at = "pointer"]
    /\ UNCHANGED <<update, staged, running, pointer, last, faults>>

Stop == op # Idle /\ Fault /\ op' = Idle /\ UNCHANGED <<update, staged, running, pointer, records, last>>

Next == \/ \E u \in Updates : \/ \E s \in {"compiled", "rejected", "full_rebuild_required"} : Prepare(u, s)
                              \/ ActivateStart(u) \/ RollbackStart(u)
        \/ \E w \in Workers : Stage(w) \/ ActivateOne(w) \/ RollbackOne(w)
        \/ Begin \/ Broad \/ PersistActivation \/ SetActive \/ PersistRollback \/ Stop

Spec == Init /\ [][Next]_vars

---------------------------------------------------------------------------
(***************************************************************************)
(* The fleet pointer moves to a package only when every required worker    *)
(* runs it under that epoch, after answers that were lost, probes that     *)
(* failed and operations that were cut off left the fleet mixed; and no    *)
(* worker outside the canaries leaves its package for one that a canary of *)
(* that activation does not run.                                           *)
(***************************************************************************)
FleetBehindPointer == [][
    /\ pointer' # pointer => \A w \in Workers : running[w] = pointer'
    /\ op.kind = "activate" =>
          \A w \in Workers \ Canaries[op.u] : running'[w] # running[w] =>
              \A c \in Canaries[op.u] : running[c] = running'[w]]_vars
=============================================================================
