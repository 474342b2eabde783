------------------------------ MODULE MCOutbox ------------------------------
(***************************************************************************)
(* Instances of Outbox for TLC: callers that share one store, and, under   *)
(* another side, callers in two processes with a store each.  The two      *)
(* sides have one directory of messages and receipts, which is what        *)
(* enqueueing promises something about; the chain of events, the clock and *)
(* the callers of the second side are its own, since what the outbox       *)
(* promises about leases it promises for one store.                        *)
(***************************************************************************)
EXTENDS Outbox, TLC

CONSTANTS t1, t2, t3, t4, k1, p1, p2

VARIABLES side,
          now2, last2, torn2, mu2, pc2, req2, by2, todo2, granted2, leases2, crashes2

OneStore == [t \in Threads |-> "store"]

(* Callers of one store, and payloads, are interchangeable.                *)
SymThreads == Permutations(Threads) \cup Permutations(Payloads)

OwnName == [k \in Keys |-> k]

(* Two processes: one message at a time, without retries, with a crash.    *)
Two == INSTANCE Outbox WITH
  Threads <- {t3, t4}, StoreOf <- (t3 :> "cli 1") @@ (t4 :> "cli 2"),
  MaxAttempts <- 1, MaxTime <- 0, MaxCrashes <- 1,
  now <- now2, last <- last2, torn <- torn2, mu <- mu2, pc <- pc2, req <- req2, by <- by2,
  todo <- todo2, granted <- granted2, leases <- leases2, crashes <- crashes2

own1 == <<now, last, torn, local, granted, leases, crashes>>
own2 == <<now2, last2, torn2, mu2, pc2, req2, by2, todo2, granted2, leases2, crashes2>>

MCInit == side \in {"one", "two"} /\ Init /\ Two!Init
MCNext ==
  /\ UNCHANGED side
  /\ \/ side = "one" /\ Next /\ UNCHANGED own2
     \/ side = "two" /\ Two!Next /\ UNCHANGED own1
MCSpec == MCInit /\ [][MCNext]_<<side, vars, own2>>

=============================================================================
