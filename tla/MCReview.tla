------------------------------ MODULE MCReview ------------------------------
(***************************************************************************)
(* The review services for TLC: the alert and case backend, the vendor     *)
(* adapters, the assistance and the access control with its audit.  They   *)
(* share no state: side says which of them a behaviour is about.           *)
(***************************************************************************)
EXTENDS ReviewServices, TLC

CONSTANTS a1, a2, a3, c1, c2, d1, k1, k2, k3, b1, b2, b3, b4

VARIABLE side

----------------------------------------------------------------------------
(* Two alerts and one of another tenant, a case, one that would mix the    *)
(* tenants' alerts, and two actors.  An event's idempotency key is new for *)
(* every revision.                                                         *)

Alert(key, alert, at, foreign) == [op |-> "alert", key |-> key, alert |-> alert, at |-> at, foreign |-> foreign]
Batch == [op |-> "batch", key |-> k1, requests |-> <<Alert(k1, a1, 1, FALSE), Alert(k2, a2, 1, FALSE)>>, foreign |-> FALSE]
Open(key) == [op |-> "case", key |-> key, case |-> c1, alerts |-> {a1}, foreign |-> FALSE]
Mixed == [op |-> "case", key |-> k3, case |-> c2, alerts |-> {a1, a3}, foreign |-> FALSE]
Event(action, actor, expected) ==
    [op |-> "event", key |-> expected, case |-> c1, action |-> action, actor |-> actor, expected |-> expected, what |-> d1, foreign |-> FALSE]

MCCaseSeeds == {<<>>, <<Open(k1), Event("assign", "ann", 1)>>, <<Open(k1), Event("assign", "ann", 1), Event("propose_decision", "ann", 2)>>}
MCCaseRequests ==
    {Alert(k1, a1, 1, FALSE), Alert(k2, a3, 1, TRUE), Alert(k3, a1, 2, FALSE), Batch, Open(k1), Open(k2), Mixed,
     Event("assign", "ann", 1), Event("start_investigation", "ann", 2), Event("request_evidence", "ann", 3), Event("submit_evidence", "bob", 4),
     Event("link_rescreen", "ann", 3), Event("approve_decision", "ann", 3), Event("approve_decision", "bob", 3), Event("reject_decision", "bob", 3),
     Event("reopen", "bob", 4), Event("propose_decision", "bob", 5)}

----------------------------------------------------------------------------
(* One adapter; b1 and b2 use one key with other bytes, b4 has a score out *)
(* of range.                                                               *)

Text(t) == [kind |-> "string", text |-> t]
Number(n) == [kind |-> "integer", number |-> n]
Source(body, alert, key, score) ==
    [body |-> body, bytes |-> 1, json |-> TRUE,
     at |-> [alert |-> Text(alert), key |-> Text(key), list |-> Text("sdn"), at |-> Text("t"), score |-> Number(score), corr |-> Text("c")]]
MCSources == {Source(b1, "a1", "k1", 100), Source(b2, "a1", "k1", 0), Source(b3, "a2", "k2", 50), Source(b4, "a2", "k2", 101)}
MCProfiles == [v1 |-> [sha |-> 1, maxSourceBytes |-> 1, requiredPaths |-> {"alert"}, lists |-> [sdn |-> "active"],
                     constants |-> [tenant_id |-> Text("t1"), source_system_id |-> Text("s")],
                     mappings |-> [source_alert_id |-> "alert", raw_list_name |-> "list", occurred_at |-> "at", external_score |-> "score",
                                   correlation_id |-> "corr", idempotency_key |-> "key"]]]

----------------------------------------------------------------------------
(* A corpus of four passages of which one is another tenant's; a case with *)
(* two revisions; one assistance and reviews of it.                        *)

Passage(id, tenant, title, text) == [id |-> id, tenant |-> tenant, title |-> title, text |-> text]
MCCorpus == {Passage(1, "*", {}, {"sdn"}), Passage(2, "t1", {"sdn"}, {}), Passage(3, "t2", {"sdn"}, {"sdn"}), Passage(4, "t1", {}, {"sdn"})}
Ask(via, key, actor, tenant) == [op |-> "assist", via |-> via, key |-> key, actor |-> actor, tenant |-> tenant]
Judge(via, key, actor, of, action) ==
    [op |-> "review", via |-> via, key |-> key, actor |-> actor, tenant |-> "t1", of |-> of, action |-> action]
First == Ask("console", 1, "ann", "t1")
Reply(disposition, cites) == [large |-> FALSE, schema |-> TRUE, disposition |-> disposition, cites |-> cites]
MCTerms == <<{"sdn"}, {"none"}>>
Replies == {Reply(FALSE, {2}), Reply(FALSE, {2, 3}), Reply(TRUE, {1})}
MCVerdicts == {[schema |-> TRUE, grounded |-> TRUE, claims |-> {}], [schema |-> TRUE, grounded |-> TRUE, claims |-> {"c"}],
             [schema |-> FALSE, grounded |-> TRUE, claims |-> {}]}

ID == <<1, "ann", {[place |-> 1, id |-> 2], [place |-> 2, id |-> 1]}>>
MCDraftRequests ==
    {First, Ask("console", 1, "bob", "*"), Ask("api", 2, "cat", "t2"),
     Judge("console", 1, "bob", ID, "accept"), Judge("console", 1, "ann", ID, "reject"), Judge("api", 2, "bob", ID, "reject"),
     Judge("console", 3, "eve", ID, "accept")}

----------------------------------------------------------------------------
(* Two registries: the second one deactivates bob and starts a new session *)
(* epoch for ann.                                                          *)

User(active, epoch, bindings) == [active |-> active, epoch |-> epoch, bindings |-> bindings]
Roles == [analyst |-> {"case.read", "case.create", "decision.propose"}, reviewer |-> {"case.*", "decision.*"}]
MCRegistries ==
    <<[roles |-> Roles, users |-> [ann |-> User(TRUE, 1, [t1 |-> {"analyst"}]), bob |-> User(TRUE, 1, ("*" :> {"reviewer"}))]],
      [roles |-> Roles, users |-> [ann |-> User(TRUE, 2, [t1 |-> {"analyst"}]), bob |-> User(FALSE, 1, ("*" :> {"reviewer"}))]]>>
Route(policy, need, tenant) == [policy |-> policy, need |-> need, tenant |-> tenant]
MCRoutes == {Route("console", "", ""), Route("console", "case.create", "t1"), Route("console", "decision.approve", "t2"), Route("guard", "", "t1")}

----------------------------------------------------------------------------

Init ==
    /\ side \in {"cases", "vendor", "assistance", "access"}
    /\ Backend!Init /\ Adapter!Init /\ Assist!Init /\ Access!Init
    /\ side = "cases" \/ answered = {}

Next ==
    /\ UNCHANGED side
    /\ \/ side = "cases" /\ Backend!Next /\ UNCHANGED <<vendorVars, draftVars, accessVars>>
       \/ side = "vendor" /\ Adapter!Next /\ UNCHANGED <<caseVars, draftVars, accessVars>>
       \/ side = "assistance" /\ Assist!Next /\ UNCHANGED <<caseVars, vendorVars, accessVars>>
       \/ side = "access" /\ Access!Next /\ UNCHANGED <<caseVars, vendorVars, draftVars>>

Spec == Init /\ [][Next]_<<side, caseVars, vendorVars, draftVars, accessVars>>
=============================================================================
