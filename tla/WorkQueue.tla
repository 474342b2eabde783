------------------------------ MODULE WorkQueue ------------------------------
(***************************************************************************)
(* What internal/productionops/outbox.go promises its users: every item is *)
(* submitted at most once, leased to one worker at a time and at most      *)
(* Attempts times, and ends completed or dead.                             *)
(***************************************************************************)
EXTENDS Integers

CONSTANTS Items, Attempts

VARIABLES state, attempts

vars == <<state, attempts>>

Init ==
  /\ state = [i \in Items |-> "absent"]
  /\ attempts = [i \in Items |-> 0]

Move(i, from, to) ==
  /\ state[i] = from
  /\ state' = [state EXCEPT ![i] = to]

Submit(i)     == Move(i, "absent", "pending") /\ UNCHANGED attempts
Complete(i)   == Move(i, "leased", "completed") /\ UNCHANGED attempts
Release(i)    == Move(i, "leased", "pending") /\ UNCHANGED attempts
Bury(i)       == Move(i, "pending", "dead") /\ attempts[i] = Attempts /\ UNCHANGED attempts

Take(i) ==
  /\ Move(i, "pending", "leased")
  /\ attempts[i] < Attempts
  /\ attempts' = [attempts EXCEPT ![i] = @ + 1]

Next == \E i \in Items : Submit(i) \/ Take(i) \/ Complete(i) \/ Release(i) \/ Bury(i)

Spec == Init /\ [][Next]_vars
=============================================================================
