------------------------- MODULE CatalogActivation -------------------------
(***************************************************************************)
(* catalogruntime.StateStore: the activation of a package on one host,     *)
(* over the files of its directory.  The commands exclude one another by a *)
(* lock file; a command that is cut off leaves it behind, and the operator *)
(* removes it.                                                             *)
(***************************************************************************)
EXTENDS Integers, FiniteSets

CONSTANTS Packages,  \* packages with a readiness report
          ReadyFor,  \* [Packages -> BOOLEAN]: what the report says
          Commands,  \* runs of the command line
          NoGen,
          MaxClock, MaxStops

VARIABLES pointer,     \* active.json: a generation, or NoGen
          activations, \* activations/: [action, at, previous, active]
          rollbacks,   \* rollbacks/: [from, to]
          lock,        \* .activation.lock exists
          command,     \* [Commands -> the step a command is at]
          clock, stops

vars == <<pointer, activations, rollbacks, lock, command, clock, stops>>

\* a generation's ID covers package, epoch, time and action
Gen(pkg, epoch, at, action) == [pkg |-> pkg, epoch |-> epoch, at |-> at, action |-> action]
Off == [at |-> "off"]

Init ==
    /\ pointer = NoGen /\ activations = {} /\ rollbacks = {} /\ lock = FALSE
    /\ command = [c \in Commands |-> Off]
    /\ clock = 1 /\ stops = 0

\* Activate and Rollback: the readiness report first, then the lock
Locked_NoLock(c, pkg, action, now) ==
    /\ command[c] = Off /\ ReadyFor[pkg]
    /\ command' = [command EXCEPT ![c] = [at |-> "read", pkg |-> pkg, action |-> action, now |-> now]]
    /\ UNCHANGED <<pointer, activations, rollbacks, lock, clock, stops>>

Locked(c, pkg, action, now) ==
    /\ command[c] = Off /\ ReadyFor[pkg]
    /\ ~lock /\ lock' = TRUE
    /\ command' = [command EXCEPT ![c] = [at |-> "read", pkg |-> pkg, action |-> action, now |-> now]]
    /\ UNCHANGED <<pointer, activations, rollbacks, clock, stops>>

\* BuildActivation
BuildActivation(previous, pkg, action, now) ==
    [action |-> action, at |-> now, previous |-> previous,
     active |-> Gen(pkg, IF previous = NoGen THEN 1 ELSE previous.epoch + 1, now, action)]

ReadPrevious(c) ==
    LET m == command[c] IN
    /\ m.at = "read"
    /\ IF m.action = "rollback" /\ pointer = NoGen
         THEN command' = [command EXCEPT ![c] = Off] /\ lock' = FALSE
         ELSE /\ command' = [command EXCEPT ![c] = [at |-> "record", record |-> BuildActivation(pointer, m.pkg, m.action, m.now)]]
              /\ UNCHANGED lock
    /\ UNCHANGED <<pointer, activations, rollbacks, clock, stops>>

\* persistActivation: an existing record ends the command
WriteRecord(c) ==
    LET r == command[c].record IN
    /\ command[c].at = "record"
    /\ IF r \in activations
         THEN command' = [command EXCEPT ![c] = Off] /\ lock' = FALSE /\ UNCHANGED activations
         ELSE /\ activations' = activations \cup {r}
              /\ command' = [command EXCEPT ![c].at = IF r.action = "rollback" THEN "rollback" ELSE "pointer"]
              /\ UNCHANGED lock
    /\ UNCHANGED <<pointer, rollbacks, clock, stops>>

WriteRollback(c) ==
    LET r == command[c].record IN
    /\ command[c].at = "rollback"
    /\ rollbacks' = rollbacks \cup {[from |-> r.previous, to |-> r.active]}
    /\ command' = [command EXCEPT ![c].at = "pointer"]
    /\ UNCHANGED <<pointer, activations, lock, clock, stops>>

WritePointer(c) ==
    /\ command[c].at = "pointer"
    /\ pointer' = command[c].record.active
    /\ command' = [command EXCEPT ![c] = Off] /\ lock' = FALSE
    /\ UNCHANGED <<activations, rollbacks, clock, stops>>

Stop(c) ==
    /\ command[c] # Off /\ stops < MaxStops
    /\ stops' = stops + 1
    /\ command' = [command EXCEPT ![c] = Off]
    /\ UNCHANGED <<pointer, activations, rollbacks, lock, clock>>

\* the operator removes the lock of a command that no longer runs
RemoveLock ==
    /\ lock /\ \A c \in Commands : command[c] = Off
    /\ lock' = FALSE
    /\ UNCHANGED <<pointer, activations, rollbacks, command, clock, stops>>

Tick == clock < MaxClock /\ clock' = clock + 1 /\ UNCHANGED <<pointer, activations, rollbacks, lock, command, stops>>

Next == \/ \E c \in Commands : \/ \E p \in Packages, a \in {"activate", "rollback"} : Locked(c, p, a, clock)
                               \/ ReadPrevious(c) \/ WriteRecord(c) \/ WriteRollback(c) \/ WritePointer(c) \/ Stop(c)
        \/ RemoveLock \/ Tick

Spec == Init /\ [][Next]_vars

---------------------------------------------------------------------------
(***************************************************************************)
(* No activation is lost: the pointer moves to a recorded activation that  *)
(* was built on the generation it replaces, a rollback's record beside it, *)
(* whatever commands overlapped, were cut off or were run again.           *)
(***************************************************************************)
PointerSucceeds == [][
    pointer' # pointer =>
        \E r \in activations : /\ r.active = pointer' /\ r.previous = pointer
                               /\ r.action = "rollback" => [from |-> pointer, to |-> pointer'] \in rollbacks]_vars
=============================================================================
