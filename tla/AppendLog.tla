------------------------------ MODULE AppendLog ------------------------------
(***************************************************************************)
(* What internal/screeningledger/store.go promises the callers of Append:  *)
(* one log that only grows at its end, in which an event identity occurs   *)
(* once; what a caller is told was recorded is a beginning of that log.    *)
(***************************************************************************)
EXTENDS Sequences, Integers

CONSTANTS Entries, Identity

VARIABLES log, told

vars == <<log, told>>

Init == log = <<>> /\ told = {}

Record(e) ==
  /\ \A i \in 1 .. Len(log) : Identity[log[i]] # Identity[e]
  /\ log' = Append(log, e)
  /\ UNCHANGED told

Tell(n) ==
  /\ told' = told \cup {SubSeq(log, 1, n)}
  /\ UNCHANGED log

Next ==
  \/ \E e \in Entries : Record(e)
  \/ \E n \in 1 .. Len(log) : Tell(n)

Spec == Init /\ [][Next]_vars
=============================================================================
