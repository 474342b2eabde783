------------------------------ MODULE MCLedger ------------------------------
(***************************************************************************)
(* The screening ledger for TLC: the local store, and its mirror with the  *)
(* retention and anchor commands.  The mirror's model has its own, coarser *)
(* copy of the local files, so that the two share no state: side says      *)
(* which of them a behaviour is about.                                     *)
(***************************************************************************)
EXTENDS LedgerStore, LedgerReplica, TLC

CONSTANTS t1, t2, i1, i2, i3, e1, e2, e3, f1, s1, s2, c1, k1, k2

\* Inputs i1 and i2 are one request with one idempotency key, sent twice; i3 is another request with the same body
OneStore == [t \in Threads |-> "store"]
AnyOp == [t \in Threads |-> {"append", "recover", "verify", "audit"}]
Id == [i \in Inputs |-> IF i = i3 THEN "b" ELSE "a"]
Req == [i \in Inputs |-> "request"]
Resp == [i \in Inputs |-> IF i = i3 THEN "response b" ELSE "response a"]

VARIABLE side

\* e1 and e2 share a request; e3 repeats e1's idempotency key with other content; f1 is another ledger's event
SnapshotsOf == (e1 :> {s1}) @@ (e2 :> {s1, s2}) @@ (e3 :> {s2}) @@ (f1 :> {s1})
ExpiryOf == (e1 :> 1) @@ (e2 :> 2) @@ (e3 :> 1) @@ (f1 :> 1)
KeyOfEvent == (e1 :> k1) @@ (e2 :> k2) @@ (e3 :> k1)
Policy(tenancy, allow, min) == [tenancy |-> tenancy, allowUnanchored |-> allow, minAnchor |-> min]
Usual == [catalog |-> Declared, policy |-> Policy("exclusive", TRUE, 0), holds |-> {}, rows |-> {}, load |-> {e1, e2}]
AllWorlds ==
    {Usual, [Usual EXCEPT !.holds = {e2}], [Usual EXCEPT !.load = {e1, e3}], [Usual EXCEPT !.rows = {f1}],
     [Usual EXCEPT !.policy = Policy("exclusive", FALSE, 0)],
     [Usual EXCEPT !.policy = Policy("exclusive", TRUE, 1)],
     [Usual EXCEPT !.policy = Policy("shared", TRUE, 0), !.rows = {f1}],
     [Usual EXCEPT !.catalog = [@ EXCEPT !.indexes["anchor"] = {"unique"}]],
     [Usual EXCEPT !.catalog = [@ EXCEPT !.triggers["event"] = {"present"}, !.recorded["event"] = {"trigger_oids"}]]}

MCInit ==
    /\ side \in {"store", "replica"}
    /\ Init /\ ReplicaInit
    /\ side = "store" => /\ catalog = Usual.catalog /\ policy = Usual.policy
                          /\ holds = {} /\ mirror = {} /\ load = Usual.load
MCNext ==
    /\ UNCHANGED side
    /\ \/ side = "store" /\ Next /\ UNCHANGED replicaVars
       \/ side = "replica" /\ ReplicaNext /\ UNCHANGED vars
MCSpec == MCInit /\ [][MCNext]_<<side, vars, replicaVars>>
=============================================================================
