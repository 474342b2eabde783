----------------------------- MODULE AlertCase -----------------------------
(***************************************************************************)
(* The alert and case backend: alertcase.Store, a directory of alerts,     *)
(* case events, projections, heads, receipts and an audit chain, and the   *)
(* handlers of alertcaseapi, which copy what the Store did to PostgreSQL.  *)
(*                                                                         *)
(* A chain of hashes is modelled by the sequence it vouches for: a case    *)
(* event is the sequence of the requests up to it, an audit event the      *)
(* sequence of the entries up to it.  Files are replaced atomically; an    *)
(* operation writes several, one by one, under a lock that is a directory. *)
(***************************************************************************)
EXTENDS Naturals, Sequences, SequencesExt, FiniteSets

CONSTANTS Requests,    \* [op, key, ...]: "alert", "batch", "case" and "event" requests
          Seeds,       \* histories of the case to start from: sequences of case events, oldest first
          PostgresRequired, Nobody,
          MaxRunning, MaxSends, MaxStops, MaxFaults

VARIABLES disk,      \* file name -> content
          locked,    \* the directory .lock is there
          run,       \* the requests that are being handled
          db,        \* the tables
          answered,  \* requests that were told they succeeded
          sends, stops, faults,
          halfway    \* a stop cut an operation off after its first write

vars == <<disk, locked, run, db, answered, sends, stops, faults, halfway>>

Put(f, x, y) == [z \in DOMAIN f \cup {x} |-> IF z = x THEN y ELSE f[z]]
Exists(name) == name \in DOMAIN disk
Named(kind) == {n \in DOMAIN disk : n[1] = kind}

---------------------------------------------------------------------------
(* A case                                                                  *)

Opened == [state |-> "open", revision |-> 1, assignee |-> Nobody, proposer |-> Nobody, proposed |-> Nobody, approved |-> Nobody]

Allowed ==
    [assign |-> {"open", "assigned", "investigating", "reopened"}, start_investigation |-> {"assigned", "reopened"},
     request_evidence |-> {"assigned", "investigating", "pending_evidence"}, submit_evidence |-> {"pending_evidence", "investigating"},
     propose_decision |-> {"assigned", "investigating", "pending_evidence", "reopened"},
     approve_decision |-> {"pending_approval"}, reject_decision |-> {"pending_approval"}, reopen |-> {"resolved"},
     link_rescreen |-> {"open", "assigned", "investigating", "pending_evidence", "pending_approval", "reopened"}]

MayAct(p, req) ==
    /\ p.state \in Allowed[req.action]
    /\ req.action \in {"approve_decision", "reject_decision"} => p.proposer \notin {Nobody, req.actor}

applyTransition(p, req) ==
    CASE req.action = "assign" -> [p EXCEPT !.state = "assigned", !.assignee = req.what]
      [] req.action \in {"start_investigation", "submit_evidence"} -> [p EXCEPT !.state = "investigating"]
      [] req.action = "request_evidence" -> [p EXCEPT !.state = "pending_evidence"]
      [] req.action = "propose_decision" -> [p EXCEPT !.state = "pending_approval", !.proposer = req.actor, !.proposed = req.what]
      [] req.action = "approve_decision" -> [p EXCEPT !.state = "resolved", !.approved = p.proposed]
      [] req.action = "reject_decision" -> [p EXCEPT !.state = "investigating", !.proposer = Nobody, !.proposed = Nobody]
      [] req.action = "reopen" -> [p EXCEPT !.state = "reopened", !.proposer = Nobody, !.proposed = Nobody]
      [] req.action = "link_rescreen" -> p

Step(p, req) == [applyTransition(p, req) EXCEPT !.revision = @ + 1]

\* replaying a chain of events; one that could not have happened stops it
Refused == [state |-> "refused"]
Replay(chain) ==
    FoldLeft(LAMBDA p, req : IF p = Refused \/ ~MayAct(p, req) THEN Refused ELSE Step(p, req), Opened, Tail(chain))

EventsOf(c) == {n[3] : n \in {m \in Named("event") : m[2] = c}}

VerifyCase(c) ==
    LET events == EventsOf(c) IN
    /\ \A e, f \in events : IsPrefix(e, f) \/ IsPrefix(f, e)
    /\ \A e \in events : \A i \in 1..Len(e) : SubSeq(e, 1, i) \in events
    /\ disk[<<"projection", c>>] = Replay(CHOOSE e \in events : \A f \in events : Len(f) <= Len(e))

VerifyAudit ==
    LET events == {n[2] : n \in Named("audit")} IN
    /\ \A e, f \in events : IsPrefix(e, f) \/ IsPrefix(f, e)
    /\ \A e \in events : \A i \in 1..Len(e) : SubSeq(e, 1, i) \in events

\* events of one actor's proposal and of another's approval
Proposes(e, what) == Last(e).op = "event" /\ Last(e).action = "propose_decision" /\ Last(e).what = what
Approves(f, e) == Last(f).op = "event" /\ Last(f).action = "approve_decision" /\ Last(f).actor # Last(e).actor

---------------------------------------------------------------------------
(* Operations of the Store: what an operation writes, given what it reads  *)

No == [ok |-> FALSE, writes |-> <<>>, held |-> <<>>]
Yes(writes, held) == [ok |-> TRUE, writes |-> writes, held |-> held]
Write(name, body) == [name |-> name, body |-> body]

Scope(req) == IF req.op = "event" THEN <<"event", req.case, req.action>> ELSE <<req.op>>
receiptPath(req) == <<"receipt", Scope(req), req.key>>
saveReceipt(req) == Write(receiptPath(req), req)

appendAudit(entry) ==
    LET head == IF Exists(<<"audit head">>) THEN disk[<<"audit head">>] ELSE <<>>
        e == Append(head, entry)
    IN  <<Write(<<"audit", e>>, e), Write(<<"audit head">>, e)>>

\* an alert's id covers its tenant and its source, its record the time as well
AlertRecord(req) == [at |-> req.at, foreign |-> req.foreign]

CreateAlert(req) ==
    LET name == <<"alert", req.alert>> IN
    IF ~Exists(name) THEN Yes(<<Write(name, AlertRecord(req))>> \o appendAudit(<<"alert", req.alert>>) \o <<saveReceipt(req)>>, <<>>)
    ELSE IF disk[name] = AlertRecord(req) THEN Yes(<<saveReceipt(req)>>, <<>>)
    ELSE No

\* an event, the projection after it, the head, the audit and the receipt, in this order
CaseWrites(req, e, p) ==
    <<Write(<<"event", req.case, e>>, e), Write(<<"projection", req.case>>, p), Write(<<"head", req.case>>, e)>>
        \o appendAudit(<<"case", req.case, e>>) \o <<saveReceipt(req)>>

\* what the operation hands to its handler: the projection and, but for a creation, the event
Current(c) == [projection |-> disk[<<"projection", c>>], event |-> disk[<<"head", c>>]]

\* alerts of one tenant: the caller's, or the one other that requests are made for
CreateCase(req) ==
    IF \E a \in req.alerts : ~Exists(<<"alert", a>>) \/ disk[<<"alert", a>>].foreign # req.foreign THEN No
    ELSE IF Exists(<<"head", req.case>>) THEN Yes(<<saveReceipt(req)>>, Current(req.case))
    ELSE Yes(CaseWrites(req, <<req>>, Opened), [projection |-> Opened, event |-> <<req>>])

\* the revision that the caller saw is not compared
Expected_Any(req) == TRUE

Expected(req) == req.expected = disk[<<"projection", req.case>>].revision

ApplyCaseEvent(req) ==
    IF ~Exists(<<"projection", req.case>>) \/ ~Exists(<<"head", req.case>>) THEN No
    ELSE LET p == disk[<<"projection", req.case>>]
             e == Append(disk[<<"head", req.case>>], req)
             next == [applyTransition(p, req) EXCEPT !.revision = Len(e)]
         IN  IF Expected(req) /\ MayAct(p, req) THEN Yes(CaseWrites(req, e, next), [projection |-> next, event |-> e]) ELSE No

\* checkReceipt, then the operation; a replay hands over the case as it is now
Operation(req) ==
    IF Exists(receiptPath(req))
      THEN IF disk[receiptPath(req)] # req THEN No
           ELSE Yes(<<>>, IF req.op = "alert" THEN <<>> ELSE Current(req.case))
      ELSE CASE req.op = "alert" -> CreateAlert(req)
             [] req.op = "case" -> CreateCase(req)
             [] req.op = "event" -> ApplyCaseEvent(req)

---------------------------------------------------------------------------
(* What an instance's constants satisfy; ReviewServices assumes it.        *)

IsSequence(s) == s \in Seq({s[i] : i \in DOMAIN s})

RequestFits(req) ==
    \/ req.op \in {"alert", "case"}
    \/ req.op = "event" /\ req.action \in DOMAIN Allowed
    \/ req.op = "batch" /\ req.requests # <<>> /\ IsSequence(req.requests) /\ \A i \in DOMAIN req.requests : req.requests[i].op = "alert"

Beginnings(seed) == {SubSeq(seed, 1, i) : i \in 1..Len(seed)}

\* a case that was created and changed before, without a stop: each event saw the revision before it, and the decision
\* that replaying it gives is of its events.  The empty directory, <<>>, needs none of this
SeedFits(seed) ==
    LET p == Replay(seed) IN
    /\ IsSequence(seed) /\ seed[1].op = "case"
    /\ \A i \in DOMAIN seed \ {1} : seed[i].op = "event" /\ seed[i].case = seed[1].case /\ seed[i].expected = i - 1
    /\ \A i, j \in DOMAIN seed : receiptPath(seed[i]) = receiptPath(seed[j]) => i = j
    /\ DOMAIN p = DOMAIN Opened /\ p.revision = Len(seed)
    /\ p.proposer # Nobody => \E e \in Beginnings(seed) : Proposes(e, p.proposed) /\ Last(e).actor = p.proposer
    /\ p.approved # Nobody => \E e, f \in Beginnings(seed) : Proposes(e, p.approved) /\ Approves(f, e)

ConstantsFit ==
    /\ \A req \in Requests : RequestFits(req)
    /\ \A seed \in Seeds : seed # <<>> => SeedFits(seed)

---------------------------------------------------------------------------
(* Handlers                                                                *)

Ended(h) == RemoveAt(run, h)

\* a client sends a request, or sends one again; CreateAlertBatch looks for its receipt before it takes any lock
Send(req) ==
    LET jobs == CASE req.op # "batch" -> <<req>>
                  [] req.op = "batch" /\ Exists(receiptPath(req)) -> <<>>
                  [] OTHER -> req.requests
        refused == req.op = "batch" /\ Exists(receiptPath(req)) /\ disk[receiptPath(req)] # req
    IN  /\ Len(run) < MaxRunning /\ sends < MaxSends
        /\ sends' = sends + 1
        /\ run' = IF refused THEN run
                  ELSE Append(run, [req |-> req, jobs |-> jobs, todo |-> <<>>, held |-> <<>>,
                                    at |-> IF jobs = <<>> THEN "persist" ELSE "lock",
                                    copies |-> IF req.op = "batch" THEN req.requests ELSE <<req>>])
        /\ UNCHANGED <<disk, locked, db, answered, stops, faults, halfway>>

\* the directory .lock is not waited for
Lock_NoWait(h) ==
    LET r == run[h]
        o == Operation(Head(r.jobs))
    IN  /\ r.at = "lock"
        /\ IF o.ok THEN locked' = TRUE /\ run' = [run EXCEPT ![h].at = "write", ![h].todo = o.writes, ![h].held = o.held]
                   ELSE run' = Ended(h) /\ UNCHANGED locked
        /\ UNCHANGED <<disk, db, answered, sends, stops, faults, halfway>>

\* withLock
Lock(h) ==
    LET r == run[h]
        o == Operation(Head(r.jobs))
    IN  /\ r.at = "lock" /\ ~locked
        /\ IF o.ok THEN locked' = TRUE /\ run' = [run EXCEPT ![h].at = "write", ![h].todo = o.writes, ![h].held = o.held]
                   ELSE run' = Ended(h) /\ UNCHANGED locked
        /\ UNCHANGED <<disk, db, answered, sends, stops, faults, halfway>>

GiveUp(h) ==
    /\ run[h].at = "lock" /\ locked
    /\ run' = Ended(h)
    /\ UNCHANGED <<disk, locked, db, answered, sends, stops, faults, halfway>>

writeJSONAtomic(h) ==
    LET w == Head(run[h].todo) IN
    /\ run[h].at = "write" /\ run[h].todo # <<>>
    /\ disk' = Put(disk, w.name, w.body)
    /\ run' = [run EXCEPT ![h].todo = Tail(@)]
    /\ UNCHANGED <<locked, db, answered, sends, stops, faults, halfway>>

\* the lock is released; a batch goes on to its next alert, and at last writes its receipt without the lock
Unlock(h) ==
    LET r == run[h] IN
    /\ r.at = "write" /\ r.todo = <<>>
    /\ locked' = FALSE
    /\ run' = [run EXCEPT ![h].jobs = Tail(@),
                          ![h].at = IF Len(r.jobs) > 1 THEN "lock" ELSE IF r.req.op = "batch" THEN "receipt" ELSE "persist"]
    /\ UNCHANGED <<disk, db, answered, sends, stops, faults, halfway>>

BatchReceipt(h) ==
    /\ run[h].at = "receipt"
    /\ disk' = Put(disk, receiptPath(run[h].req), run[h].req)
    /\ run' = [run EXCEPT ![h].at = "persist"]
    /\ UNCHANGED <<locked, db, answered, sends, stops, faults, halfway>>

---------------------------------------------------------------------------
(* PostgreSQL: one transaction each                                        *)

\* PersistAlert; the receipt's key must be new
PersistAlert(req) ==
    [ok |-> receiptPath(req) \notin db.receipts,
     db |-> [db EXCEPT !.alerts = @ \cup {req.alert}, !.receipts = @ \cup {receiptPath(req)}]]

\* the row of the case takes any projection
NewerCase_Any(c, p) == TRUE

NewerCase(c, p) == c \notin DOMAIN db.cases \/ db.cases[c].revision < p.revision

\* PersistCase, of the projection and the event that the handler holds; the alerts of the case must have rows, which its
\* memberships refer to, and an event's sequence is unique
PersistCase(req, p, e) ==
    [ok |-> /\ receiptPath(req) \notin db.receipts
            /\ e[1].alerts \subseteq db.alerts
            /\ \A f \in db.events : f[1] = req.case /\ Len(f[2]) = Len(e) => f[2] = e,
     db |-> [db EXCEPT !.cases = IF NewerCase(req.case, p) THEN Put(@, req.case, p) ELSE @,
                       !.events = @ \cup {<<req.case, e>>}, !.receipts = @ \cup {receiptPath(req)}]]

\* what the handler passes on: what its operation held, but a creation reads the case's latest event again
Transaction(r) ==
    LET req == Head(r.copies) IN
    CASE req.op = "alert" -> PersistAlert(req)
      [] req.op = "case" -> PersistCase(req, r.held.projection, disk[<<"head", req.case>>])
      [] req.op = "event" -> PersistCase(req, r.held.projection, r.held.event)

Answer(h, ok) == /\ run' = Ended(h)
                 /\ answered' = IF ok THEN answered \cup {run[h].req} ELSE answered

\* the handler after a transaction; a case event is answered without SyncAudit
Persisted(h) ==
    IF Len(run[h].copies) = 1 /\ run[h].req.op = "event" THEN Answer(h, TRUE)
    ELSE /\ run' = [run EXCEPT ![h].copies = Tail(@), ![h].at = IF Len(run[h].copies) = 1 THEN "sync" ELSE "persist"]
         /\ UNCHANGED answered

NotPersisted(h) ==
    IF PostgresRequired \/ run[h].req.op # "batch" THEN Answer(h, ~PostgresRequired)
    ELSE Persisted(h)

\* the tenant of the request is compared with the caller's only here
Persist(h) ==
    LET t == Transaction(run[h]) IN
    /\ run[h].at = "persist"
    /\ IF Head(run[h].copies).foreign THEN Answer(h, FALSE) /\ UNCHANGED db
       ELSE IF t.ok THEN Persisted(h) /\ db' = t.db
       ELSE NotPersisted(h) /\ UNCHANGED db
    /\ UNCHANGED <<disk, locked, sends, stops, faults, halfway>>

\* psql fails or takes too long, before or after the transaction was committed
PersistFails(h) ==
    /\ run[h].at = "persist" /\ faults < MaxFaults /\ ~Head(run[h].copies).foreign
    /\ faults' = faults + 1
    /\ NotPersisted(h)
    /\ LET t == Transaction(run[h]) IN db' \in {db} \cup (IF t.ok THEN {t.db} ELSE {})
    /\ UNCHANGED <<disk, locked, sends, stops, halfway>>

\* every audit event of the directory, in one transaction; a sequence number is unique
SyncAudit(h) ==
    LET all == db.audit \cup {n[2] : n \in Named("audit")}
        ok == \A e, f \in all : Len(e) = Len(f) => e = f
    IN  /\ run[h].at = "sync"
        /\ db' = IF ok THEN [db EXCEPT !.audit = all] ELSE db
        /\ Answer(h, ok \/ ~PostgresRequired)
        /\ UNCHANGED <<disk, locked, sends, stops, faults, halfway>>

---------------------------------------------------------------------------
\* the process stops, with all that it was handling; the lock's directory stays
Stop ==
    /\ stops < MaxStops /\ run # <<>>
    /\ stops' = stops + 1
    /\ run' = <<>>
    /\ halfway' = (halfway \/ locked)
    /\ UNCHANGED <<disk, locked, db, answered, sends, faults>>

RemoveLock ==
    /\ locked /\ run = <<>>
    /\ locked' = FALSE
    /\ UNCHANGED <<disk, run, db, answered, sends, stops, faults, halfway>>

\* the entries of the audit: an alert, and the case's changes
Trail(seed) ==
    <<<<"alert", CHOOSE a \in seed[1].alerts : TRUE>>>> \o [i \in 1..Len(seed) |-> <<"case", seed[1].case, SubSeq(seed, 1, i)>>]

\* the directory and the tables after a history
Names(seed) ==
    {<<"alert", a>> : a \in seed[1].alerts} \cup {<<"event", seed[1].case, e>> : e \in Beginnings(seed)}
        \cup {<<"projection", seed[1].case>>, <<"head", seed[1].case>>, <<"audit head">>}
        \cup {<<"audit", e>> : e \in Beginnings(Trail(seed))} \cup {receiptPath(seed[i]) : i \in 1..Len(seed)}

Directory(seed) ==
    [n \in Names(seed) |->
        CASE n[1] = "alert" -> [at |-> 1, foreign |-> FALSE]
          [] n[1] = "event" -> n[3]
          [] n[1] = "projection" -> Replay(seed)
          [] n[1] = "head" -> seed
          [] n[1] = "audit head" -> Trail(seed)
          [] n[1] = "audit" -> n[2]
          [] n[1] = "receipt" -> CHOOSE r \in ToSet(seed) : receiptPath(r) = n]

Tables(seed) ==
    [alerts |-> seed[1].alerts, cases |-> Put(<<>>, seed[1].case, Replay(seed)),
     events |-> {<<seed[1].case, e>> : e \in Beginnings(seed)}, receipts |-> {receiptPath(r) : r \in ToSet(seed)},
     audit |-> Beginnings(Trail(seed))]

NoTables == [alerts |-> {}, cases |-> <<>>, events |-> {}, receipts |-> {}, audit |-> {}]

Init ==
    /\ \E seed \in Seeds : /\ disk = IF seed = <<>> THEN <<>> ELSE Directory(seed)
                           /\ db = IF seed = <<>> THEN NoTables ELSE Tables(seed)
                           /\ answered = ToSet(seed)
    /\ locked = FALSE /\ run = <<>> /\ sends = 0 /\ stops = 0 /\ faults = 0 /\ halfway = FALSE

Next ==
    \/ \E req \in Requests : Send(req)
    \/ \E h \in DOMAIN run : \/ Lock(h) \/ GiveUp(h) \/ writeJSONAtomic(h) \/ Unlock(h) \/ BatchReceipt(h)
                            \/ Persist(h) \/ PersistFails(h) \/ SyncAudit(h)
    \/ Stop \/ RemoveLock

Spec == Init /\ [][Next]_vars

---------------------------------------------------------------------------
Cases == {n[2] : n \in Named("head")}

(***************************************************************************)
(* No false alarm: while no operation holds the lock, every case replays   *)
(* to its projection and the audit chain verifies, unless a stop has cut   *)
(* an operation off in the middle of its writes.                           *)
(***************************************************************************)
CaseVerifies == ~locked /\ ~halfway => VerifyAudit /\ \A c \in Cases : VerifyCase(c)

(***************************************************************************)
(* Whatever is sent again: no request is in the history of a case twice,   *)
(* unless two stops each cut an operation off; then at most twice, and     *)
(* nothing between (ApplyCaseEvent compares the revision of a projection   *)
(* that may be ahead of the head).  A request that was answered with       *)
(* success is in the history, and a decision in force was proposed by one  *)
(* actor and approved by another.                                          *)
(***************************************************************************)
AppliedOnce ==
    /\ \A n \in Named("event") : \A i, j \in 1..Len(n[3]) : n[3][i] = n[3][j] /\ i < j => stops > 1 /\ j = i + 1
    /\ \A req \in answered : req.op = "event" => req \in ToSet(disk[<<"head", req.case>>])
    /\ \A c \in Cases :
          LET approved == disk[<<"projection", c>>].approved IN
          approved # Nobody => \E e, f \in EventsOf(c) : Proposes(e, approved) /\ Approves(f, e)

(***************************************************************************)
(* Handlers reach the database in any order, after their operations and    *)
(* outside the lock: the row of a case never goes back to an earlier       *)
(* revision, and every row is of something that is in the directory.       *)
(***************************************************************************)
DatabaseFollows == [][
    /\ \A c \in DOMAIN db.cases : db'.cases[c].revision >= db.cases[c].revision
    /\ \A e \in db'.events : <<"event", e[1], e[2]>> \in DOMAIN disk'
    /\ \A a \in db'.alerts : <<"alert", a>> \in DOMAIN disk'
    /\ \A e \in db'.audit : <<"audit", e>> \in DOMAIN disk']_vars

(***************************************************************************)
(* With PostgreSQL required, a case event whose request was answered with  *)
(* success is in the table of case events.                                 *)
(***************************************************************************)
SuccessIsDurable ==
    \A req \in answered : req.op = "event" => \E e \in db.events : e[1] = req.case /\ Last(e[2]) = req
=============================================================================
