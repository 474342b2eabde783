------------------------- MODULE GenerationRegistry -------------------------
(***************************************************************************)
(* catalogruntime.Registry: readers take leases on the active generation   *)
(* without a lock while activations replace it.  A step is one atomic      *)
(* access; activations exclude one another by the mutex.                   *)
(***************************************************************************)
EXTENDS Integers

CONSTANTS Generations, Readers, NoGen, MaxLeases

VARIABLES active,    \* Registry.active
          epoch,     \* Registry.epoch
          gen,       \* [Generations -> [epoch, readers, retired, drained]]
          installer, \* the activation that holds the mutex: [at, g, old]
          reader,    \* [Readers -> [at, g]]
          leases     \* leases taken so far, which bounds the behaviours

vars == <<active, epoch, gen, installer, reader, leases>>

Free == [at |-> "free", g |-> NoGen, old |-> NoGen]
Outside == [at |-> "out", g |-> NoGen]

Init ==
    /\ active = NoGen /\ epoch = 0 /\ leases = 0
    /\ gen = [g \in Generations |-> [epoch |-> 0, readers |-> 0, retired |-> FALSE, drained |-> FALSE]]
    /\ installer = Free
    /\ reader = [r \in Readers |-> Outside]

\* signal: close(drained), once, when retired and without readers
signal(G, g) == IF G[g].retired /\ G[g].readers = 0 THEN [G EXCEPT ![g].drained = TRUE] ELSE G

---------------------------------------------------------------------------
(* Activate and activatePackageLocked                                      *)

\* a generation is activated once
ActivateSwap(g) ==
    /\ installer = Free
    /\ gen[g].epoch = 0 /\ ~gen[g].retired
    /\ epoch' = epoch + 1
    /\ gen' = [gen EXCEPT ![g].epoch = epoch']
    /\ active' = g
    /\ installer' = IF active = NoGen THEN Free ELSE [at |-> "retire", g |-> g, old |-> active]
    /\ UNCHANGED <<reader, leases>>

ActivateRetire ==
    /\ installer.at = "retire"
    /\ gen' = [gen EXCEPT ![installer.old].retired = TRUE]
    /\ installer' = [installer EXCEPT !.at = "signal"]
    /\ UNCHANGED <<active, epoch, reader, leases>>

ActivateSignal ==
    /\ installer.at = "signal"
    /\ gen' = signal(gen, installer.old)
    /\ installer' = Free
    /\ UNCHANGED <<active, epoch, reader, leases>>

---------------------------------------------------------------------------
(* Acquire and Release                                                     *)

Step(r, at) == reader' = [reader EXCEPT ![r].at = at]

AcquireLoad(r) ==
    /\ \/ reader[r].at = "out" /\ leases < MaxLeases
       \/ reader[r].at = "again"
    /\ active # NoGen
    /\ reader' = [reader EXCEPT ![r] = [at |-> "count", g |-> active]]
    /\ leases' = IF reader[r].at = "out" THEN leases + 1 ELSE leases
    /\ UNCHANGED <<active, epoch, gen, installer>>

AcquireCount(r) ==
    /\ reader[r].at = "count"
    /\ gen' = [gen EXCEPT ![reader[r].g].readers = @ + 1]
    /\ Step(r, "recheck")
    /\ UNCHANGED <<active, epoch, installer, leases>>

AcquireRecheck(r) ==
    /\ reader[r].at = "recheck"
    /\ Step(r, IF active = reader[r].g THEN "retired" ELSE "undo")
    /\ UNCHANGED <<active, epoch, gen, installer, leases>>

\* what the second look at the registry shows is not acted on
AcquireRetired_NoRecheck(r) ==
    /\ reader[r].at \in {"retired", "undo"}
    /\ Step(r, "lease")
    /\ UNCHANGED <<active, epoch, gen, installer, leases>>

AcquireRetired(r) ==
    /\ reader[r].at = "retired"
    /\ Step(r, IF gen[reader[r].g].retired THEN "undo" ELSE "lease")
    /\ UNCHANGED <<active, epoch, gen, installer, leases>>

\* a count that goes back without a signal when it reaches zero
Leave_NoSignal(r, at, sig, to) ==
    /\ reader[r].at = at
    /\ gen' = [gen EXCEPT ![reader[r].g].readers = @ - 1]
    /\ Step(r, to)
    /\ UNCHANGED <<active, epoch, installer, leases>>

\* readers.Add(-1), and the signal when that was the last
Leave(r, at, sig, to) ==
    /\ reader[r].at = at
    /\ gen' = [gen EXCEPT ![reader[r].g].readers = @ - 1]
    /\ Step(r, IF gen'[reader[r].g].readers = 0 THEN sig ELSE to)
    /\ UNCHANGED <<active, epoch, installer, leases>>

LeaveSignal(r, sig, to) ==
    /\ reader[r].at = sig
    /\ gen' = signal(gen, reader[r].g)
    /\ Step(r, to)
    /\ UNCHANGED <<active, epoch, installer, leases>>

AcquireUndo(r) == Leave(r, "undo", "undo_signal", "again") \/ LeaveSignal(r, "undo_signal", "again")
Release(r) == Leave(r, "lease", "release_signal", "out") \/ LeaveSignal(r, "release_signal", "out")

Acquire(r) == AcquireLoad(r) \/ AcquireCount(r) \/ AcquireRecheck(r) \/ AcquireRetired(r) \/ AcquireUndo(r)
Activate == ActivateRetire \/ ActivateSignal

Next == \/ \E g \in Generations : ActivateSwap(g)
        \/ Activate
        \/ \E r \in Readers : Acquire(r) \/ Release(r)

\* activations and readers run to their ends; nobody is made to start one
Fairness == /\ WF_vars(Activate)
            /\ \A r \in Readers : WF_vars(reader[r].at # "out" /\ (Acquire(r) \/ Release(r)))

Spec == Init /\ [][Next]_vars /\ Fairness

---------------------------------------------------------------------------
(***************************************************************************)
(* WaitDrained returns for a generation only when nobody holds or will be  *)
(* handed a lease on it: its payload can be unmapped.  Acquire looks at    *)
(* the registry again after it counted itself for this, as activations run *)
(* between any two of its accesses.                                        *)
(***************************************************************************)
DrainedIsUnread ==
    \A g \in Generations : gen[g].drained =>
        /\ gen[g].retired /\ active # g
        /\ \A r \in Readers : reader[r].g = g => reader[r].at \notin {"lease", "retired"}

(***************************************************************************)
(* A generation that was replaced is reported drained in the end: whoever  *)
(* takes the count to zero, a reader that only passed through or the       *)
(* activation itself, signals it.                                          *)
(***************************************************************************)
Drains == \A g \in Generations : gen[g].retired ~> gen[g].drained
=============================================================================
