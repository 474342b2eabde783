----------------------------- MODULE CaseProofs -----------------------------
(***************************************************************************)
(* Proofs about the alert and case backend, for any alerts, cases and      *)
(* events, any number of requests at a time, sent again in any order, and  *)
(* any number of stops and failures of the database.                       *)
(***************************************************************************)
EXTENDS ReviewProofs

ProjectionFields == {"state", "revision", "assignee", "proposer", "proposed", "approved"}
CasePlaces == {"lock", "write", "receipt", "persist", "sync"}
CaseJobFields == {"req", "jobs", "todo", "held", "at", "copies"}

AlertAt(a) == <<"alert", a>> \in DOMAIN disk
EventAt(c, e) == <<"event", c, e>> \in DOMAIN disk
HeadAt(c) == <<"head", c>> \in DOMAIN disk
HeadOf(c) == disk[<<"head", c>>]
ProjectionOf(c) == disk[<<"projection", c>>]
ReceiptAt(q) == Backend!receiptPath(q) \in DOMAIN disk
InHead(q, c) == HeadAt(c) /\ \E i \in DOMAIN HeadOf(c) : HeadOf(c)[i] = q

\* a history of a case: each of its events saw the revision before it, or the one that a cut-off event had written ahead
Told(c, e) ==
    /\ Own(e) /\ e # <<>> /\ e[1].op = "case"
    /\ \A i \in DOMAIN e \ {1} : e[i].op = "event" /\ e[i].case = c /\ e[i].expected \in {i - 1, i}
    /\ caseStops < 2 => \A i, j \in DOMAIN e : e[i] = e[j] => i = j

\* what a projection says of a proposal and of an approval is in the events, of which x may not be written yet
Backed(c, p, x) ==
    /\ p.proposer # Absent =>
          \E e \in Backend!EventsOf(c) \cup {x} : Backend!Proposes(e, p.proposed) /\ Backend!Last(e).actor = p.proposer
    /\ p.approved # Absent =>
          \E e, f \in Backend!EventsOf(c) \cup {x} : Backend!Proposes(e, p.approved) /\ Backend!Approves(f, e)

---------------------------------------------------------------------------
(* The requests in hand.                                                   *)

CasePlan(q, e, p, x) ==
    <<Backend!Write(<<"event", q.case, e>>, e), Backend!Write(<<"projection", q.case>>, p), Backend!Write(<<"head", q.case>>, e),
      Backend!Write(<<"audit", x>>, x), Backend!Write(<<"audit head">>, x), Backend!saveReceipt(q)>>
AlertPlan(q, x) ==
    <<Backend!Write(<<"alert", q.alert>>, Backend!AlertRecord(q)), Backend!Write(<<"audit", x>>, x), Backend!Write(<<"audit head">>, x), Backend!saveReceipt(q)>>
ReceiptPlan(q) == <<Backend!saveReceipt(q)>>

\* the last writes of a plan are still to do, the others are done
Carried(todo, plan) ==
    /\ Own(todo) /\ Len(todo) <= Len(plan)
    /\ \A i \in DOMAIN todo : todo[i] = plan[Len(plan) - Len(todo) + i]
    /\ \A i \in 1 .. Len(plan) - Len(todo) : 
          plan[i].name \in DOMAIN disk /\ (plan[i].name[1] # "receipt" => disk[plan[i].name] = plan[i].body)

\* an event and the projection after it, of which n writes are left
Applying(q, e, p, n) ==
    /\ q.op \in {"case", "event"} /\ Told(q.case, e) /\ e[Len(e)] = q
    /\ DOMAIN p = ProjectionFields /\ p.revision = Len(e) /\ Backed(q.case, p, e)
    /\ q.op = "case" => Len(e) = 1 /\ (n > 3 => ~HeadAt(q.case))
    /\ q.op = "event" => /\ HeadAt(q.case) /\ (caseStops = 0 => q.expected = Len(e) - 1)
                         /\ n > 3 => /\ Len(e) = Len(HeadOf(q.case)) + 1
                                     /\ \A i \in DOMAIN HeadOf(q.case) : e[i] = HeadOf(q.case)[i]

\* a request that the files tell of
Applied(q, held) ==
    /\ HeadAt(q.case) /\ EventAt(q.case, held.event) /\ held.projection.revision \in Nat
    /\ q.op = "event" => InHead(q, q.case)

Working(r) ==
    LET q == r.jobs[1] IN
    \/ q.op = "alert" /\ AlertAt(q.alert) /\ (Carried(r.todo, <<>>) \/ Carried(r.todo, ReceiptPlan(q)))
    \/ q.op = "alert" /\ \E x : Carried(r.todo, AlertPlan(q, x))
    \/ q.op \in {"case", "event"} /\ Applied(q, r.held) /\ (Carried(r.todo, <<>>) \/ (q.op = "case" /\ Carried(r.todo, ReceiptPlan(q))))
    \/ /\ Applying(q, r.held.event, r.held.projection, Len(r.todo))
       /\ \E x : Carried(r.todo, CasePlan(q, r.held.event, r.held.projection, x))

Started(r) == r.at \in {"lock", "write"}

CaseJobOK(r) ==
    /\ DOMAIN r = CaseJobFields /\ r.at \in CasePlaces /\ Backend!RequestFits(r.req) /\ Own(r.jobs) /\ Own(r.copies)
    /\ Started(r) => /\ r.jobs # <<>>
                     /\ IF r.req.op = "batch" THEN \A j \in DOMAIN r.jobs : r.jobs[j].op = "alert" ELSE r.jobs = <<r.req>>
    /\ r.at # "sync" => r.copies # <<>>
    /\ IF r.req.op = "batch" THEN \A i \in DOMAIN r.copies : r.copies[i].op = "alert"
                             ELSE \A i \in DOMAIN r.copies : r.copies[i] = r.req
    /\ r.req.op = "batch" /\ r.at \in {"lock", "write", "receipt"} => r.copies = r.req.requests
    /\ r.at = "receipt" => r.req.op = "batch"
    /\ \A i \in DOMAIN r.copies : r.copies[i].op = "alert" =>
          AlertAt(r.copies[i].alert) \/ (Started(r) /\ \E j \in DOMAIN r.jobs : r.jobs[j] = r.copies[i])
    /\ r.at \in {"persist", "sync"} /\ r.req.op \in {"case", "event"} => Applied(r.req, r.held)
    /\ r.at = "write" => caseLock /\ Working(r)

CaseRunInv ==
    /\ \A h \in DOMAIN caseRun : CaseJobOK(caseRun[h])
    /\ \A h, k \in DOMAIN caseRun : caseRun[h].at = "write" /\ caseRun[k].at = "write" => h = k

---------------------------------------------------------------------------
(* The files and the tables.                                               *)

\* an operation of which some writes are done and some are left
Between(r) == r.at = "write" /\ Len(r.todo) \in 1 .. 4
Betweens == {caseRun[h] : h \in {k \in DOMAIN caseRun : Between(caseRun[k])}}

\* the projection of c is written ahead of the head; the receipt of q is not written yet
Ahead(c) == \E r \in Betweens : r.jobs[1].op = "event" /\ r.jobs[1].case = c /\ Len(r.todo) = 4
Unrecorded(q) == \E r \in Betweens : r.jobs[1] = q /\ Len(r.todo) \in 1 .. 3

\* a request that would be refused when it is sent again
Spent(q, c) == ReceiptAt(q) \/ q.expected < ProjectionOf(c).revision

CaseOK(c) ==
    /\ EventAt(c, HeadOf(c)) /\ <<"projection", c>> \in DOMAIN disk /\ DOMAIN ProjectionOf(c) = ProjectionFields
    /\ ProjectionOf(c).revision \in {Len(HeadOf(c)), Len(HeadOf(c)) + 1}
    /\ caseStops = 0 => ProjectionOf(c).revision = Len(HeadOf(c)) \/ Ahead(c)
    /\ Backed(c, ProjectionOf(c), HeadOf(c))
    /\ caseStops < 2 => \A i \in DOMAIN HeadOf(c) \ {1} : Spent(HeadOf(c)[i], c) \/ Unrecorded(HeadOf(c)[i])

FileOK(n) ==
    /\ n[1] = "event" => n = <<"event", n[2], n[3]>> /\ Told(n[2], n[3])
    /\ n[1] = "head" => n = <<"head", n[2]>>
    /\ n[1] = "audit" => n = <<"audit", n[2]>>
    /\ n[1] = "receipt" =>
          /\ disk[n].op = "alert" => AlertAt(disk[n].alert)
          /\ disk[n].op = "batch" => \A i \in DOMAIN disk[n].requests : AlertAt(disk[n].requests[i].alert)
          /\ disk[n].op = "case" => HeadAt(disk[n].case)
          /\ disk[n].op = "event" => InHead(disk[n], disk[n].case)

CaseFiles == /\ \A n \in DOMAIN disk : FileOK(n)
             /\ \A c : HeadAt(c) => CaseOK(c)

RowsOK(d) ==
    /\ DOMAIN d = {"alerts", "cases", "events", "receipts", "audit"}
    /\ \A c \in DOMAIN d.cases : d.cases[c].revision \in Nat
    /\ \A e \in d.events : EventAt(e[1], e[2])
    /\ \A a \in d.alerts : AlertAt(a)
    /\ \A e \in d.audit : <<"audit", e>> \in DOMAIN disk
Rows == RowsOK(caseDb)
Answers == \A q \in answered : q.op = "event" => InHead(q, q.case)

CaseInv == caseStops \in Nat /\ Own(caseRun) /\ CaseRunInv /\ CaseFiles /\ Rows /\ Answers

---------------------------------------------------------------------------
LEMMA OwnTail ==
  ASSUME NEW s, Own(s), s # <<>>, NEW t, t = Tail(s)
  PROVE  /\ Own(t) /\ Len(s) \in Nat /\ Len(s) > 0 /\ Len(t) = Len(s) - 1 /\ DOMAIN s = 1 .. Len(s) /\ DOMAIN t = 1 .. Len(t)
         /\ \A i \in DOMAIN t : i + 1 \in DOMAIN s /\ t[i] = s[i + 1]
<1>1. PICK S : s \in Seq(S)
  BY DEF Own
<1>2. t \in Seq(S) /\ Len(t) = Len(s) - 1 /\ \A i \in 1 .. Len(t) : t[i] = s[i + 1]
  BY <1>1, HeadTailProperties
<1>3. Len(s) \in Nat /\ DOMAIN s = 1 .. Len(s) /\ DOMAIN t = 1 .. Len(t) /\ Len(t) \in Nat
  BY <1>1, <1>2, LenProperties
<1>4. Own(t)
  BY <1>2, Owned
<1> QED
  BY <1>2, <1>3, <1>4

LEMMA OwnFirst ==
  ASSUME NEW s, Own(s), s # <<>> PROVE Len(s) \in Nat /\ Len(s) > 0 /\ 1 \in DOMAIN s /\ DOMAIN s = 1 .. Len(s)
BY OwnTail

LEMMA OwnOne ==
  ASSUME NEW x PROVE Own(<<x>>) /\ Own(<<>>) /\ Len(<<x>>) = 1 /\ DOMAIN <<x>> = {1} /\ <<x>>[1] = x /\ <<x>> # <<>>
<1>1. <<x>> \in Seq({x}) /\ <<>> \in Seq({x})
  OBVIOUS
<1>2. Own(<<x>>) /\ Own(<<>>)
  BY <1>1, Owned, Zenon
<1>3. Len(<<x>>) = 1 /\ DOMAIN <<x>> = {1} /\ <<x>>[1] = x /\ <<x>> # <<>>
  OBVIOUS
<1> QED
  BY <1>2, <1>3

\* A request that moves on.
LEMMA CaseMoves ==
  ASSUME Own(caseRun), CaseRunInv, NEW h \in DOMAIN caseRun, NEW y, caseRun' = [caseRun EXCEPT ![h] = y], CaseJobOK(y)',
         \A x : CaseJobOK(x) /\ (x.at = "write" => caseLock /\ caseRun[h].at # "write") => CaseJobOK(x)' /\ (x.at = "write" => y.at # "write")
  PROVE  /\ Own(caseRun)' /\ CaseRunInv'
         /\ \A x : x \in Betweens /\ x # caseRun[h] => x \in Betweens'
         /\ ~Between(caseRun[h]) => Betweens \subseteq Betweens'
         /\ Between(y) => y \in Betweens'
<1>1. PICK next, old : next = caseRun' /\ old = caseRun
  OBVIOUS
<1>2. Own(next) /\ DOMAIN next = DOMAIN old /\ next[h] = y /\ \A i \in DOMAIN old \ {h} : next[i] = old[i]
  BY <1>1, OwnMoves
<1>3. \A i \in DOMAIN old \ {h} : CaseJobOK(old[i]) /\ (old[i].at = "write" => caseLock /\ old[h].at # "write")
  BY <1>1 DEF CaseRunInv, CaseJobOK
<1>4. \A i \in DOMAIN old \ {h} : CaseJobOK(old[i])' /\ (old[i].at = "write" => y.at # "write")
  BY <1>1, <1>3
<1>5. \A i \in DOMAIN next : CaseJobOK(next[i])'
  BY <1>2, <1>4
<1>6. \A i, j \in DOMAIN next : next[i].at = "write" /\ next[j].at = "write" => i = j
  BY <1>1, <1>2, <1>4 DEF CaseRunInv
<1>7. CaseRunInv'
  BY <1>1, <1>5, <1>6 DEF CaseRunInv
<1>8. Own(caseRun)'
  BY <1>1, <1>2 DEF Own
<1>9. \A x \in Betweens : \E k \in DOMAIN old : Between(old[k]) /\ x = old[k]
  BY <1>1 DEF Betweens
<1>10. Betweens' = {next[k] : k \in {k \in DOMAIN next : Between(next[k])}}
  BY <1>1 DEF Betweens
<1>11. \A k \in DOMAIN old : Between(old[k]) /\ k # h => old[k] \in Betweens'
  BY <1>2, <1>10
<1> QED
  BY <1>1, <1>2, <1>7, <1>8, <1>9, <1>10, <1>11

\* While the files and the stops are as they were, so is what a request has done.
LEMMA WorkingStays ==
  ASSUME UNCHANGED <<disk, caseStops>>, NEW x, Working(x)
  PROVE  Working(x)'
<1>1. \A a, c, q : (AlertAt(a) <=> AlertAt(a)') /\ (HeadAt(c) <=> HeadAt(c)') /\ HeadOf(c) = HeadOf(c)' /\ (InHead(q, c) <=> InHead(q, c)')
  BY DEF AlertAt, HeadAt, HeadOf, InHead
<1>2. \A q, held : Applied(q, held) <=> Applied(q, held)'
  BY <1>1 DEF Applied, EventAt
<1>3. \A c, e, p : (Told(c, e) <=> Told(c, e)') /\ (Backed(c, p, e) <=> Backed(c, p, e)')
  BY DEF Told, Backed, Backend!EventsOf, Backend!Named
<1>4. \A q, e, p, n : Applying(q, e, p, n) <=> Applying(q, e, p, n)'
  BY <1>1, <1>3 DEF Applying
<1>5. \A todo, plan : Carried(todo, plan) <=> Carried(todo, plan)'
  BY DEF Carried
<1> QED
  BY <1>1, <1>2, <1>4, <1>5, Zenon DEF Working

\* While the files, the stops and the lock are as they were, a request in hand is too.
LEMMA CaseStays ==
  ASSUME UNCHANGED <<disk, caseStops>>, NEW x, CaseJobOK(x), x.at = "write" => caseLock'
  PROVE  CaseJobOK(x)'
<1>1. \A a, c, q : (AlertAt(a) <=> AlertAt(a)') /\ (HeadAt(c) <=> HeadAt(c)') /\ HeadOf(c) = HeadOf(c)' /\ (InHead(q, c) <=> InHead(q, c)')
  BY DEF AlertAt, HeadAt, HeadOf, InHead
<1>2. \A q, held : Applied(q, held) <=> Applied(q, held)'
  BY <1>1 DEF Applied, EventAt
<1>3. Working(x) => Working(x)'
  BY WorkingStays
<1> QED
  BY <1>1, <1>2, <1>3 DEF CaseJobOK, Started

\* A request that is over, of which no writes are left.
LEMMA CaseEnds ==
  ASSUME Own(caseRun), CaseRunInv, NEW h \in DOMAIN caseRun, caseRun' = Backend!Ended(h), ~Between(caseRun[h]),
         UNCHANGED <<disk, caseStops, caseLock>>
  PROVE  Own(caseRun)' /\ CaseRunInv' /\ Betweens \subseteq Betweens'
<1>1. PICK next, old : next = caseRun' /\ old = caseRun
  OBVIOUS
<1>2. next = RemoveAt(old, h)
  BY <1>1 DEF Backend!Ended, Backend!RemoveAt, RemoveAt
<1>3. /\ Own(next)
      /\ \A i \in DOMAIN next : Before(h, i) \in DOMAIN old /\ Before(h, i) # h /\ next[i] = old[Before(h, i)]
      /\ \A i, j \in DOMAIN next : Before(h, i) = Before(h, j) => i = j
      /\ \A k \in DOMAIN old \ {h} : \E i \in DOMAIN next : Before(h, i) = k
  BY <1>1, <1>2, OwnEnds
<1>4. \A i \in DOMAIN old : CaseJobOK(old[i]) /\ CaseJobOK(old[i])'
  BY <1>1, CaseStays DEF CaseRunInv, CaseJobOK
<1>5. \A i \in DOMAIN next : CaseJobOK(next[i])'
  BY <1>3, <1>4
<1>6. \A i, j \in DOMAIN next : next[i].at = "write" /\ next[j].at = "write" => i = j
  BY <1>1, <1>3 DEF CaseRunInv
<1>7. \A k \in DOMAIN old : Between(old[k]) => \E i \in DOMAIN next : next[i] = old[k]
  BY <1>1, <1>3
<1> QED
  BY <1>1, <1>3, <1>5, <1>6, <1>7 DEF CaseRunInv, Own, Betweens

\* A request that arrives.
LEMMA CaseBegins ==
  ASSUME Own(caseRun), CaseRunInv, NEW y, caseRun' = Append(caseRun, y), CaseJobOK(y)', y.at # "write",
         UNCHANGED <<disk, caseStops, caseLock>>
  PROVE  Own(caseRun)' /\ CaseRunInv' /\ Betweens \subseteq Betweens'
<1>1. PICK next, old, n : next = caseRun' /\ old = caseRun /\ n = Len(caseRun)
  OBVIOUS
<1>2. /\ Own(next) /\ n \in Nat /\ DOMAIN old = 1 .. n /\ DOMAIN next = 1 .. n + 1
      /\ next[n + 1] = y /\ \A i \in 1 .. n : next[i] = old[i]
  <2>1. next = Append(old, y) /\ Own(old) /\ n = Len(old)
    BY <1>1
  <2>2. Own(next)
    BY <2>1, OwnBegins, Zenon
  <2>3. n \in Nat /\ DOMAIN old = 1 .. n /\ DOMAIN next = 1 .. n + 1 /\ next[n + 1] = y
    BY <2>1, OwnBegins
  <2>4. \A i \in 1 .. n : next[i] = old[i]
    BY <2>1, OwnBegins
  <2> QED
    BY <2>2, <2>3, <2>4
<1>3. \A i \in DOMAIN old : CaseJobOK(old[i]) /\ CaseJobOK(old[i])'
  BY <1>1, CaseStays DEF CaseRunInv, CaseJobOK
<1>4. \A i \in DOMAIN next : i \in DOMAIN old \/ i = n + 1
  BY <1>2
<1>5. \A i \in DOMAIN next : CaseJobOK(next[i])'
  BY <1>2, <1>3, <1>4
<1>6. \A i, j \in DOMAIN next : next[i].at = "write" /\ next[j].at = "write" => i = j
  BY <1>1, <1>2, <1>4 DEF CaseRunInv
<1>7. \A k \in DOMAIN old : k \in DOMAIN next /\ next[k] = old[k]
  BY <1>2
<1> QED
  BY <1>1, <1>2, <1>5, <1>6, <1>7 DEF CaseRunInv, Own, Betweens

\* What the files tell does not depend on which requests are in hand, but for those between their writes.
LEMMA CaseFilesStay ==
  ASSUME CaseFiles, UNCHANGED <<disk, caseStops>>, Betweens \subseteq Betweens'
  PROVE  CaseFiles'
<1>1. \A c, e : Told(c, e) <=> Told(c, e)'
  BY DEF Told
<1>2. ASSUME NEW n PROVE FileOK(n) => FileOK(n)'
  BY <1>1 DEF FileOK, AlertAt, HeadAt, HeadOf, InHead
<1>3. \A c, p, x : Backed(c, p, x) <=> Backed(c, p, x)'
  BY DEF Backed, Backend!EventsOf, Backend!Named
<1>4. \A c, q : /\ Ahead(c) => Ahead(c)'
                /\ Unrecorded(q) => Unrecorded(q)'
                /\ Spent(q, c) <=> Spent(q, c)'
  BY DEF Ahead, Unrecorded, Spent, ReceiptAt, ProjectionOf
<1>5. \A c : CaseOK(c) => CaseOK(c)'
  BY <1>3, <1>4 DEF CaseOK, EventAt, HeadOf, ProjectionOf
<1> QED
  BY <1>2, <1>5 DEF CaseFiles, HeadAt

\* The files are as they were.
LEMMA RowsStay ==
  ASSUME Rows, Answers, disk' = disk, UNCHANGED <<caseDb, answered>> PROVE (Rows /\ Answers)'
BY DEF Rows, RowsOK, Answers, EventAt, AlertAt, InHead, HeadAt, HeadOf

LEMMA CaseOver ==
  ASSUME CaseInv, NEW h \in DOMAIN caseRun, caseRun' = Backend!Ended(h), ~Between(caseRun[h]),
         UNCHANGED <<disk, caseStops, caseLock>>, Rows', Answers'
  PROVE  CaseInv'
<1>1. Own(caseRun)' /\ CaseRunInv' /\ Betweens \subseteq Betweens'
  BY CaseEnds DEF CaseInv
<1> QED
  BY <1>1, CaseFilesStay DEF CaseInv

LEMMA CaseOn ==
  ASSUME CaseInv, NEW h \in DOMAIN caseRun, NEW y, caseRun' = [caseRun EXCEPT ![h] = y], ~Between(caseRun[h]),
         UNCHANGED <<disk, caseStops>>, Rows', Answers', CaseJobOK(y)',
         \A x : CaseJobOK(x) /\ (x.at = "write" => caseLock /\ caseRun[h].at # "write") => (x.at = "write" => y.at # "write" /\ caseLock')
  PROVE  CaseInv'
<1>1. \A x : CaseJobOK(x) /\ (x.at = "write" => caseLock /\ caseRun[h].at # "write") => CaseJobOK(x)' /\ (x.at = "write" => y.at # "write")
  BY CaseStays
<1>2. Own(caseRun)' /\ CaseRunInv' /\ Betweens \subseteq Betweens'
  BY <1>1, CaseMoves DEF CaseInv
<1> QED
  BY <1>2, CaseFilesStay DEF CaseInv

---------------------------------------------------------------------------
LEMMA SendCaseKeeps ==
  ASSUME CaseInv, NEW req \in CaseRequests, Backend!Send(req)
  PROVE  CaseInv'
<1>1. PICK jobs, copies, y :
        /\ jobs = CASE req.op # "batch" -> <<req>>
                    [] req.op = "batch" /\ Backend!Exists(Backend!receiptPath(req)) -> <<>>
                    [] OTHER -> req.requests
        /\ copies = IF req.op = "batch" THEN req.requests ELSE <<req>>
        /\ y = [req |-> req, jobs |-> jobs, todo |-> <<>>, held |-> <<>>, at |-> IF jobs = <<>> THEN "persist" ELSE "lock", copies |-> copies]
  OBVIOUS
<1>2. /\ UNCHANGED <<disk, caseStops, caseLock, caseDb, answered>>
      /\ caseRun' = caseRun \/ (caseRun' = Append(caseRun, y) /\ ~(req.op = "batch" /\ ReceiptAt(req) /\ disk[Backend!receiptPath(req)] # req))
  BY <1>1 DEF Backend!Send, Backend!Exists, ReceiptAt
<1>3. Backend!RequestFits(req)
  BY CaseAssumption DEF Backend!ConstantsFit
<1>4. CASE caseRun' = caseRun
  <2>1. Betweens' = Betweens /\ Own(caseRun)'
    BY <1>4 DEF Betweens, Own, CaseInv
  <2>2. CaseRunInv'
    BY <1>2, <1>4, CaseStays DEF CaseRunInv, CaseInv, CaseJobOK
  <2> QED
    BY <1>2, <2>1, <2>2, CaseFilesStay, RowsStay DEF CaseInv
<1>5. CASE caseRun' = Append(caseRun, y) /\ ~(req.op = "batch" /\ ReceiptAt(req) /\ disk[Backend!receiptPath(req)] # req)
  <2>0. /\ DOMAIN y = CaseJobFields /\ y.at \in {"lock", "persist"} /\ y.req = req /\ y.jobs = jobs /\ y.copies = copies
        /\ y.at = "lock" <=> jobs # <<>>
    BY <1>1 DEF CaseJobFields
  <2>1. ASSUME req.op # "batch" PROVE CaseJobOK(y)
    <3>1. jobs = <<req>> /\ copies = <<req>> /\ <<req>> # <<>>
      BY <1>1, <2>1
    <3>2. Own(jobs) /\ Own(copies) /\ DOMAIN copies = {1} /\ copies[1] = req /\ DOMAIN jobs = {1} /\ jobs[1] = req
      BY <3>1, OwnOne, Zenon
    <3> QED
      BY <1>3, <2>0, <2>1, <3>1, <3>2 DEF CaseJobOK, CasePlaces, Started
  <2>2. ASSUME req.op = "batch" PROVE CaseJobOK(y)
    <3>1. copies = req.requests /\ copies # <<>> /\ Own(copies) /\ \A i \in DOMAIN copies : copies[i].op = "alert"
      BY <1>1, <1>3, <2>2 DEF Backend!RequestFits, Backend!IsSequence, Own
    <3>2. CASE ReceiptAt(req)
      <4>1. jobs = <<>> /\ Own(jobs)
        BY <1>1, <2>2, <3>2, OwnOne DEF ReceiptAt, Backend!Exists
      <4>2. FileOK(Backend!receiptPath(req)) /\ disk[Backend!receiptPath(req)] = req
        BY <1>5, <2>2, <3>2 DEF CaseInv, CaseFiles, ReceiptAt
      <4>3. \A i \in DOMAIN copies : AlertAt(copies[i].alert)
        BY <2>2, <3>1, <4>2 DEF FileOK, Backend!receiptPath
      <4> QED
        BY <1>3, <2>0, <2>2, <3>1, <4>1, <4>3 DEF CaseJobOK, CasePlaces, Started
    <3>3. CASE ~ReceiptAt(req)
      <4>1. jobs = copies
        BY <1>1, <2>2, <3>3 DEF ReceiptAt, Backend!Exists
      <4> QED
        BY <1>3, <2>0, <2>2, <3>1, <4>1 DEF CaseJobOK, CasePlaces, Started
    <3> QED
      BY <3>2, <3>3
  <2>3. CaseJobOK(y) /\ y.at # "write"
    BY <2>0, <2>1, <2>2
  <2>4. CaseJobOK(y)'
    BY <1>2, <2>3, CaseStays
  <2>5. Own(caseRun)' /\ CaseRunInv' /\ Betweens \subseteq Betweens'
    BY <1>2, <1>5, <2>3, <2>4, CaseBegins DEF CaseInv
  <2> QED
    BY <1>2, <2>5, CaseFilesStay, RowsStay DEF CaseInv
<1> QED
  BY <1>2, <1>4, <1>5

LEMMA CaseGiveUpKeeps ==
  ASSUME CaseInv, NEW h \in DOMAIN caseRun, Backend!GiveUp(h)
  PROVE  CaseInv'
<1>1. /\ UNCHANGED <<disk, caseStops, caseLock, caseDb, answered>> /\ ~Between(caseRun[h]) /\ caseRun' = Backend!Ended(h)
  BY DEF Backend!GiveUp, Between
<1> QED
  BY <1>1, CaseOver, RowsStay DEF CaseInv

---------------------------------------------------------------------------
(* How far a plan is.                                                      *)

LEMMA CaseDone ==
  ASSUME NEW q, NEW e, NEW p, NEW x, NEW todo, Carried(todo, CasePlan(q, e, p, x)), NEW n, n = Len(todo)
  PROVE  /\ n \in 0 .. 6
         /\ n <= 5 => EventAt(q.case, e)
         /\ n <= 4 => <<"projection", q.case>> \in DOMAIN disk /\ ProjectionOf(q.case) = p
         /\ n <= 3 => HeadAt(q.case) /\ HeadOf(q.case) = e
         /\ n = 0 => ReceiptAt(q)
<1>1. PICK plan : plan = CasePlan(q, e, p, x)
  OBVIOUS
<1>2. Len(plan) = 6 /\ n \in 0 .. 6
  <2>1. Len(plan) = 6
    BY <1>1 DEF CasePlan
  <2>2. Len(todo) \in Nat /\ Len(todo) <= Len(plan)
    BY <1>1, OwnDomain DEF Carried
  <2> QED
    BY <2>1, <2>2
<1>3. \A i \in 1 .. 6 - n : plan[i].name \in DOMAIN disk /\ (plan[i].name[1] # "receipt" => disk[plan[i].name] = plan[i].body)
  BY <1>1, <1>2 DEF Carried
<1>4. /\ plan[1].name = <<"event", q.case, e>>
      /\ plan[2].name = <<"projection", q.case>> /\ plan[2].body = p
      /\ plan[3].name = <<"head", q.case>> /\ plan[3].body = e
      /\ plan[6].name = Backend!receiptPath(q)
  BY <1>1 DEF CasePlan, Backend!Write, Backend!saveReceipt
<1>5. n <= 5 => EventAt(q.case, e)
  <2>1. n <= 5 => 1 \in 1 .. 6 - n
    BY <1>2
  <2>2. n <= 5 => plan[1].name \in DOMAIN disk
    BY <1>3, <2>1
  <2> QED
    BY <1>4, <2>2 DEF EventAt
<1>6. n <= 4 => <<"projection", q.case>> \in DOMAIN disk /\ ProjectionOf(q.case) = p
  <2>1. plan[2].name[1] = "projection"
    BY <1>4
  <2> QED
    BY <1>2, <1>3, <1>4, <2>1 DEF ProjectionOf
<1>7. n <= 3 => HeadAt(q.case) /\ HeadOf(q.case) = e
  <2>1. plan[3].name[1] = "head"
    BY <1>4
  <2> QED
    BY <1>2, <1>3, <1>4, <2>1 DEF HeadAt, HeadOf
<1>8. n = 0 => ReceiptAt(q)
  BY <1>2, <1>3, <1>4 DEF ReceiptAt
<1> QED
  BY <1>2, <1>5, <1>6, <1>7, <1>8

LEMMA AlertDone ==
  ASSUME NEW q, NEW x, NEW todo, Carried(todo, AlertPlan(q, x)), NEW n, n = Len(todo)
  PROVE  /\ n \in 0 .. 4
         /\ n <= 3 => AlertAt(q.alert)
<1>1. PICK plan : plan = AlertPlan(q, x)
  OBVIOUS
<1>2. Len(plan) = 4 /\ n \in 0 .. 4
  <2>1. Len(plan) = 4
    BY <1>1 DEF AlertPlan
  <2>2. Len(todo) \in Nat /\ Len(todo) <= Len(plan)
    BY <1>1, OwnDomain DEF Carried
  <2> QED
    BY <2>1, <2>2
<1>3. \A i \in 1 .. 4 - n : plan[i].name \in DOMAIN disk
  BY <1>1, <1>2 DEF Carried
<1>4. plan[1].name = <<"alert", q.alert>>
  BY <1>1 DEF AlertPlan, Backend!Write
<1> QED
  BY <1>2, <1>3, <1>4 DEF AlertAt

LEMMA WorkDone ==
  ASSUME NEW r, Working(r), r.todo = <<>>, NEW q, q = r.jobs[1]
  PROVE  q.op \in {"alert", "case", "event"} /\ (q.op = "alert" => AlertAt(q.alert)) /\ (q.op # "alert" => Applied(q, r.held))
<1>1. Len(r.todo) = 0
  OBVIOUS
<1>2. ASSUME NEW x, Carried(r.todo, AlertPlan(q, x)) PROVE AlertAt(q.alert)
  BY <1>1, <1>2, AlertDone
<1>3. ASSUME Applying(q, r.held.event, r.held.projection, Len(r.todo)),
             NEW x, Carried(r.todo, CasePlan(q, r.held.event, r.held.projection, x))
      PROVE  Applied(q, r.held) /\ q.op # "alert"
  <2>1. PICK e, p, todo : e = r.held.event /\ p = r.held.projection /\ todo = r.todo
    OBVIOUS
  <2>2. EventAt(q.case, e) /\ HeadAt(q.case) /\ HeadOf(q.case) = e
    <3>1. PICK n : n = Len(todo) /\ n = 0 /\ Carried(todo, CasePlan(q, e, p, x))
      BY <1>1, <1>3, <2>1
    <3>2. (n <= 5 => EventAt(q.case, e)) /\ (n <= 3 => HeadAt(q.case) /\ HeadOf(q.case) = e)
      BY <3>1, CaseDone, Zenon
    <3> QED
      BY <3>1, <3>2
  <2>3. q.op \in {"case", "event"} /\ Own(e) /\ e # <<>> /\ e[Len(e)] = q /\ p.revision = Len(e)
    BY <1>3, <2>1 DEF Applying, Told
  <2>4. Len(e) \in Nat /\ Len(e) \in DOMAIN e
    BY <2>3, OwnFirst
  <2> QED
    BY <2>1, <2>2, <2>3, <2>4 DEF Applied, InHead
<1> QED
  BY <1>2, <1>3 DEF Working, Applying

LEMMA CaseFields ==
  ASSUME NEW f, NEW h \in DOMAIN f, NEW at, NEW v, NEW w
  PROVE  /\ [f EXCEPT ![h].jobs = Tail(@), ![h].at = at] = [f EXCEPT ![h] = [f[h] EXCEPT !.jobs = Tail(@), !.at = at]]
         /\ [f EXCEPT ![h].copies = Tail(@), ![h].at = at] = [f EXCEPT ![h] = [f[h] EXCEPT !.copies = Tail(@), !.at = at]]
         /\ [f EXCEPT ![h].at = at, ![h].todo = v, ![h].held = w] = [f EXCEPT ![h] = [f[h] EXCEPT !.at = at, !.todo = v, !.held = w]]
OBVIOUS

LEMMA UnlockCaseKeeps ==
  ASSUME CaseInv, NEW h \in DOMAIN caseRun, Backend!Unlock(h)
  PROVE  CaseInv'
<1>1. PICK r, at, y : /\ r = caseRun[h]
                      /\ at = IF Len(r.jobs) > 1 THEN "lock" ELSE IF r.req.op = "batch" THEN "receipt" ELSE "persist"
                      /\ y = [caseRun[h] EXCEPT !.jobs = Tail(@), !.at = at]
  OBVIOUS
<1>2. /\ UNCHANGED <<disk, caseStops, caseDb, answered>> /\ r.at = "write" /\ r.todo = <<>> /\ CaseJobOK(r)
      /\ caseRun' = [caseRun EXCEPT ![h].jobs = Tail(@), ![h].at = at]
  BY <1>1 DEF Backend!Unlock, CaseInv, CaseRunInv
<1>3. caseRun' = [caseRun EXCEPT ![h] = y]
  BY <1>1, <1>2, CaseFields, Zenon
<1>4. /\ DOMAIN r = CaseJobFields /\ Started(r) /\ Working(r) /\ r.jobs # <<>> /\ Own(r.jobs)
      /\ IF r.req.op = "batch" THEN \A j \in DOMAIN r.jobs : r.jobs[j].op = "alert" ELSE r.jobs = <<r.req>>
  BY <1>2 DEF CaseJobOK, Started
<1>5. PICK jobs, rest, q : jobs = r.jobs /\ rest = Tail(r.jobs) /\ q = r.jobs[1]
  OBVIOUS
<1>6. DOMAIN y = CaseJobFields /\ y.req = r.req /\ y.jobs = rest /\ y.at = at /\ y.copies = r.copies /\ y.held = r.held /\ y.todo = r.todo
  BY <1>1, <1>4, <1>5 DEF CaseJobFields
<1>7. /\ Own(rest) /\ Len(jobs) \in Nat /\ Len(jobs) > 0 /\ Len(rest) = Len(jobs) - 1 /\ DOMAIN jobs = 1 .. Len(jobs) /\ DOMAIN rest = 1 .. Len(rest)
      /\ \A i \in DOMAIN rest : i + 1 \in DOMAIN jobs /\ rest[i] = jobs[i + 1]
  <2>1. Own(jobs) /\ jobs # <<>> /\ rest = Tail(jobs)
    BY <1>4, <1>5
  <2> QED
    BY <2>1, OwnTail
<1>8. q.op \in {"alert", "case", "event"} /\ (q.op = "alert" => AlertAt(q.alert)) /\ (q.op # "alert" => Applied(q, r.held))
  BY <1>2, <1>4, <1>5, WorkDone
<1>9. ~Between(r)
  <2>1. Len(r.todo) = 0
    BY <1>2
  <2> QED
    BY <2>1 DEF Between
<1>10. ASSUME NEW i \in DOMAIN r.copies, r.copies[i].op = "alert"
       PROVE  AlertAt(r.copies[i].alert) \/ (Started(y) /\ \E j \in DOMAIN y.jobs : y.jobs[j] = r.copies[i])
  <2>1. AlertAt(r.copies[i].alert) \/ \E j \in DOMAIN jobs : jobs[j] = r.copies[i]
    BY <1>2, <1>5, <1>10 DEF CaseJobOK
  <2>2. ASSUME NEW j \in DOMAIN jobs, jobs[j] = r.copies[i], j # 1 PROVE Started(y) /\ \E k \in DOMAIN y.jobs : y.jobs[k] = r.copies[i]
    <3>1. j - 1 \in DOMAIN rest /\ rest[j - 1] = jobs[j] /\ Len(jobs) > 1
      BY <1>7, <2>2
    <3>2. y.at = "lock"
      BY <1>1, <1>5, <1>6, <3>1
    <3> QED
      BY <1>6, <2>2, <3>1, <3>2 DEF Started
  <2>3. ASSUME jobs[1] = r.copies[i] PROVE AlertAt(r.copies[i].alert)
    BY <1>5, <1>8, <1>10, <2>3
  <2> QED
    BY <2>1, <2>2, <2>3
<1>11. ASSUME r.req.op # "batch" PROVE CaseJobOK(y)
  <2>1. jobs = <<r.req>> /\ Len(jobs) = 1 /\ q = r.req
    <3>1. jobs = <<r.req>>
      BY <1>4, <1>5, <1>11
    <3>2. Len(<<r.req>>) = 1 /\ <<r.req>>[1] = r.req
      BY OwnOne
    <3> QED
      BY <1>5, <3>1, <3>2
  <2>2. y.at = "persist"
    BY <1>1, <1>5, <1>6, <1>11, <2>1
  <2>3. r.req.op \in {"case", "event"} => Applied(y.req, y.held)
    BY <1>6, <1>8, <2>1
  <2> QED
    BY <1>2, <1>6, <1>7, <1>10, <1>11, <2>2, <2>3 DEF CaseJobOK, CasePlaces, Started
<1>12. ASSUME r.req.op = "batch" PROVE CaseJobOK(y)
  <2>1. y.at \in {"lock", "receipt"} /\ (y.at = "lock" => rest # <<>>)
    <3>1. Len(rest) > 0 => rest # <<>>
      OBVIOUS
    <3> QED
      BY <1>1, <1>5, <1>6, <1>7, <1>12, <3>1
  <2>2. \A j \in DOMAIN rest : rest[j].op = "alert"
    BY <1>4, <1>5, <1>7, <1>12
  <2> QED
    BY <1>2, <1>6, <1>7, <1>10, <1>12, <2>1, <2>2 DEF CaseJobOK, CasePlaces, Started
<1>13. CaseJobOK(y) /\ y.at # "write"
  BY <1>1, <1>6, <1>11, <1>12
<1>14. CaseJobOK(y)'
  BY <1>2, <1>13, CaseStays
<1> QED
  BY <1>1, <1>2, <1>3, <1>9, <1>13, <1>14, CaseOn, RowsStay DEF CaseInv

---------------------------------------------------------------------------
(* The tables.                                                             *)

LEMMA AnswerCaseKeeps ==
  ASSUME CaseInv, NEW h \in DOMAIN caseRun, caseRun[h].at \in {"persist", "sync"}, NEW ok \in BOOLEAN, Backend!Answer(h, ok),
         UNCHANGED <<disk, caseStops, caseLock>>, Rows'
  PROVE  CaseInv'
<1>1. PICK r : r = caseRun[h]
  OBVIOUS
<1>2. caseRun' = Backend!Ended(h) /\ answered' \subseteq answered \cup {r.req} /\ CaseJobOK(r) /\ ~Between(r)
  BY <1>1 DEF Backend!Answer, CaseInv, CaseRunInv, Between
<1>3. r.req.op = "event" => InHead(r.req, r.req.case)
  BY <1>1, <1>2 DEF CaseJobOK, Applied
<1>4. Answers'
  BY <1>2, <1>3 DEF CaseInv, Answers, InHead, HeadAt, HeadOf
<1> QED
  BY <1>1, <1>2, <1>4, CaseOver

LEMMA PersistedKeeps ==
  ASSUME CaseInv, NEW h \in DOMAIN caseRun, caseRun[h].at = "persist", Backend!Persisted(h),
         UNCHANGED <<disk, caseStops, caseLock>>, Rows'
  PROVE  CaseInv'
<1>1. PICK r, at, y : /\ r = caseRun[h] /\ at = IF Len(r.copies) = 1 THEN "sync" ELSE "persist"
                      /\ y = [caseRun[h] EXCEPT !.copies = Tail(@), !.at = at]
  OBVIOUS
<1>2. CASE Backend!Answer(h, TRUE)
  BY <1>2, AnswerCaseKeeps
<1>3. CASE caseRun' = [caseRun EXCEPT ![h].copies = Tail(@), ![h].at = at] /\ UNCHANGED answered
  <2>1. caseRun' = [caseRun EXCEPT ![h] = y]
    BY <1>1, <1>3, CaseFields, Zenon
  <2>2. CaseJobOK(r) /\ DOMAIN r = CaseJobFields /\ Own(r.copies) /\ r.copies # <<>> /\ r.at = "persist"
    BY <1>1 DEF CaseInv, CaseRunInv, CaseJobOK
  <2>3. PICK copies, rest : copies = r.copies /\ rest = Tail(r.copies)
    OBVIOUS
  <2>4. DOMAIN y = CaseJobFields /\ y.req = r.req /\ y.jobs = r.jobs /\ y.at = at /\ y.copies = rest /\ y.held = r.held /\ y.todo = r.todo
    BY <1>1, <2>2, <2>3 DEF CaseJobFields
  <2>5. /\ Own(rest) /\ Len(copies) \in Nat /\ Len(copies) > 0 /\ Len(rest) = Len(copies) - 1 /\ DOMAIN rest = 1 .. Len(rest)
        /\ \A i \in DOMAIN rest : i + 1 \in DOMAIN copies /\ rest[i] = copies[i + 1]
    <3>1. Own(copies) /\ copies # <<>> /\ rest = Tail(copies)
      BY <2>2, <2>3
    <3> QED
      BY <3>1, OwnTail
  <2>6. at \in {"sync", "persist"} /\ (at = "persist" => rest # <<>>)
    <3>1. Len(rest) > 0 => rest # <<>>
      OBVIOUS
    <3>2. at = IF Len(copies) = 1 THEN "sync" ELSE "persist"
      BY <1>1, <2>3
    <3>3. PICK m, n : m = Len(copies) /\ n = Len(rest) /\ m \in Nat /\ m > 0 /\ n = m - 1
      BY <2>5
    <3> QED
      BY <3>1, <3>2, <3>3
  <2>7. \A i \in DOMAIN rest : \E k \in DOMAIN r.copies : rest[i] = r.copies[k]
    BY <2>3, <2>5
  <2>8. CaseJobOK(y) /\ y.at # "write" /\ ~Between(r)
    BY <2>2, <2>4, <2>5, <2>6, <2>7 DEF CaseJobOK, CasePlaces, Started, Between
  <2>9. CaseJobOK(y)'
    BY <2>8, CaseStays
  <2>10. Answers'
    BY <1>3 DEF CaseInv, Answers, InHead, HeadAt, HeadOf
  <2> QED
    BY <1>1, <2>1, <2>2, <2>8, <2>9, <2>10, CaseOn
<1> QED
  BY <1>1, <1>2, <1>3 DEF Backend!Persisted

LEMMA NotPersistedKeeps ==
  ASSUME CaseInv, NEW h \in DOMAIN caseRun, caseRun[h].at = "persist", Backend!NotPersisted(h),
         UNCHANGED <<disk, caseStops, caseLock>>, Rows'
  PROVE  CaseInv'
<1>1. Backend!Answer(h, ~CasePostgres) \/ Backend!Persisted(h)
  BY DEF Backend!NotPersisted
<1>2. CASE Backend!Persisted(h)
  BY <1>2, PersistedKeeps
<1>3. CASE Backend!Answer(h, ~CasePostgres)
  <2>1. (~CasePostgres) \in BOOLEAN
    OBVIOUS
  <2> QED
    BY <1>3, <2>1, AnswerCaseKeeps
<1> QED
  BY <1>1, <1>2, <1>3

\* the rows of cases only move on
RowsFollow(d) == \A c \in DOMAIN caseDb.cases : c \in DOMAIN d.cases /\ d.cases[c].revision >= caseDb.cases[c].revision

LEMMA PersistCaseFollows ==
  ASSUME RowsOK(caseDb), NEW q, NEW p, NEW e, EventAt(q.case, e), p.revision \in Nat, NEW d, d = Backend!PersistCase(q, p, e).db
  PROVE  RowsOK(d) /\ RowsFollow(d)
<1>1. PICK cases, old : old = caseDb.cases /\ cases = IF Backend!NewerCase(q.case, p) THEN Backend!Put(old, q.case, p) ELSE old
  OBVIOUS
<1>2. /\ DOMAIN d = DOMAIN caseDb /\ d.cases = cases /\ d.alerts = caseDb.alerts /\ d.audit = caseDb.audit
      /\ d.events = caseDb.events \cup {<<q.case, e>>}
  BY <1>1 DEF Backend!PersistCase, RowsOK
<1>3. \A c \in DOMAIN old : old[c].revision \in Nat
  BY <1>1 DEF RowsOK
<1>4. /\ \A c \in DOMAIN cases : cases[c].revision \in Nat
      /\ \A c \in DOMAIN old : c \in DOMAIN cases /\ cases[c].revision >= old[c].revision
  BY <1>1, <1>3 DEF Backend!NewerCase, Backend!Put
<1>5. <<q.case, e>>[1] = q.case /\ <<q.case, e>>[2] = e
  OBVIOUS
<1>6. \A f \in d.events : EventAt(f[1], f[2])
  BY <1>2, <1>5 DEF RowsOK
<1> QED
  BY <1>1, <1>2, <1>4, <1>6 DEF RowsOK, RowsFollow

LEMMA TransactionFollows ==
  ASSUME CaseInv, NEW h \in DOMAIN caseRun, caseRun[h].at = "persist", NEW d, d = Backend!Transaction(caseRun[h]).db
  PROVE  RowsOK(d) /\ RowsFollow(d)
<1>1. PICK r, q : r = caseRun[h] /\ q = r.copies[1]
  OBVIOUS
<1>2. CaseJobOK(r) /\ r.at = "persist" /\ RowsOK(caseDb)
  BY <1>1 DEF CaseInv, CaseRunInv, Rows
<1>3. 1 \in DOMAIN r.copies /\ Head(r.copies) = q
  BY <1>1, <1>2, OwnFirst DEF CaseJobOK
<1>4. IF r.req.op = "batch" THEN q.op = "alert" ELSE q = r.req
  BY <1>1, <1>2, <1>3 DEF CaseJobOK
<1>5. q.op \in {"alert", "case", "event"} /\ (q.op = "alert" => AlertAt(q.alert)) /\ (q.op # "alert" => Applied(q, r.held))
  BY <1>1, <1>2, <1>3, <1>4 DEF CaseJobOK, Backend!RequestFits, Started
<1>6. CASE q.op = "alert"
  <2>1. d = [caseDb EXCEPT !.alerts = @ \cup {q.alert}, !.receipts = @ \cup {Backend!receiptPath(q)}]
    BY <1>1, <1>3, <1>6 DEF Backend!Transaction, Backend!PersistAlert
  <2>2. /\ DOMAIN d = DOMAIN caseDb /\ d.cases = caseDb.cases /\ d.events = caseDb.events /\ d.audit = caseDb.audit
        /\ d.alerts = caseDb.alerts \cup {q.alert}
    BY <1>2, <2>1 DEF RowsOK
  <2>3. RowsOK(d)
    BY <1>2, <1>5, <1>6, <2>2 DEF RowsOK
  <2>4. RowsFollow(d)
    BY <1>2, <2>2 DEF RowsOK, RowsFollow
  <2> QED
    BY <2>3, <2>4
<1>7. CASE q.op \in {"case", "event"}
  <2>1. PICK e : e \in {r.held.event, HeadOf(q.case)} /\ d = Backend!PersistCase(q, r.held.projection, e).db
    BY <1>1, <1>3, <1>7 DEF Backend!Transaction, HeadOf
  <2>2. EventAt(q.case, e) /\ r.held.projection.revision \in Nat
    BY <1>5, <1>7, <2>1 DEF Applied, CaseInv, CaseFiles, CaseOK
  <2> QED
    BY <1>2, <2>1, <2>2, PersistCaseFollows
<1> QED
  BY <1>5, <1>6, <1>7

LEMMA PersistCaseKeeps ==
  ASSUME CaseInv, NEW h \in DOMAIN caseRun, Backend!Persist(h) \/ Backend!PersistFails(h)
  PROVE  CaseInv' /\ RowsFollow(caseDb')
<1>1. PICK d : d = Backend!Transaction(caseRun[h]).db
  OBVIOUS
<1>2. /\ UNCHANGED <<disk, caseStops, caseLock>> /\ caseRun[h].at = "persist"
      /\ caseDb' \in {caseDb, d}
      /\ Backend!Answer(h, FALSE) \/ Backend!Persisted(h) \/ Backend!NotPersisted(h)
  BY <1>1 DEF Backend!Persist, Backend!PersistFails
<1>3. RowsOK(d) /\ RowsFollow(d)
  BY <1>1, <1>2, TransactionFollows
<1>4. RowsOK(caseDb) /\ RowsFollow(caseDb)
  BY DEF CaseInv, Rows, RowsOK, RowsFollow
<1>5. RowsOK(caseDb') /\ RowsFollow(caseDb')
  BY <1>2, <1>3, <1>4
<1>6. Rows'
  BY <1>2, <1>5 DEF Rows, RowsOK, EventAt, AlertAt
<1> QED
  BY <1>2, <1>5, <1>6, AnswerCaseKeeps, PersistedKeeps, NotPersistedKeeps

LEMMA SyncAuditKeeps ==
  ASSUME CaseInv, NEW h \in DOMAIN caseRun, Backend!SyncAudit(h)
  PROVE  CaseInv' /\ RowsFollow(caseDb')
<1>1. PICK all : all = caseDb.audit \cup {n[2] : n \in Backend!Named("audit")}
  OBVIOUS
<1>2. /\ UNCHANGED <<disk, caseStops, caseLock>> /\ caseRun[h].at = "sync"
      /\ caseDb' = caseDb \/ caseDb' = [caseDb EXCEPT !.audit = all]
      /\ \E ok \in BOOLEAN : Backend!Answer(h, ok)
  <2>1. ASSUME NEW ok, Backend!Answer(h, ok \/ ~CasePostgres) PROVE \E b \in BOOLEAN : Backend!Answer(h, b)
    <3>1. (ok \/ ~CasePostgres) \in BOOLEAN
      OBVIOUS
    <3> QED
      BY <2>1, <3>1
  <2> QED
    BY <1>1, <2>1, Zenon DEF Backend!SyncAudit
<1>3. \A e \in all : <<"audit", e>> \in DOMAIN disk
  <2>1. \A n \in Backend!Named("audit") : n = <<"audit", n[2]>> /\ n \in DOMAIN disk
    BY DEF Backend!Named, CaseInv, CaseFiles, FileOK
  <2> QED
    BY <1>1, <2>1 DEF CaseInv, Rows, RowsOK
<1>4. RowsOK(caseDb) /\ RowsFollow(caseDb)
  BY DEF CaseInv, Rows, RowsOK, RowsFollow
<1>5. CASE caseDb' = caseDb
  <2>1. Rows'
    BY <1>2, <1>4, <1>5 DEF Rows, RowsOK, EventAt, AlertAt
  <2> QED
    BY <1>2, <1>4, <1>5, <2>1, AnswerCaseKeeps
<1>6. CASE caseDb' = [caseDb EXCEPT !.audit = all]
  <2>1. PICK d : d = caseDb' /\ d = [caseDb EXCEPT !.audit = all]
    BY <1>6
  <2>2. DOMAIN d = DOMAIN caseDb /\ d.cases = caseDb.cases /\ d.alerts = caseDb.alerts /\ d.events = caseDb.events /\ d.audit = all
    BY <1>4, <2>1 DEF RowsOK
  <2>3. RowsOK(d) /\ RowsFollow(d)
    BY <1>3, <1>4, <2>2 DEF RowsOK, RowsFollow
  <2>4. Rows'
    BY <1>2, <2>1, <2>3 DEF Rows, RowsOK, EventAt, AlertAt
  <2> QED
    BY <1>2, <2>1, <2>3, <2>4, AnswerCaseKeeps
<1> QED
  BY <1>2, <1>5, <1>6

---------------------------------------------------------------------------
(* The lock.                                                               *)

LEMMA HeadTold ==
  ASSUME CaseFiles, NEW c, HeadAt(c) PROVE Told(c, HeadOf(c)) /\ CaseOK(c)
<1>1. CaseOK(c) /\ <<"event", c, HeadOf(c)>> \in DOMAIN disk
  BY DEF CaseFiles, CaseOK, EventAt
<1>2. PICK n : n = <<"event", c, HeadOf(c)>> /\ FileOK(n)
  BY <1>1 DEF CaseFiles
<1>3. n[1] = "event" /\ n[2] = c /\ n[3] = HeadOf(c)
  BY <1>2
<1> QED
  BY <1>1, <1>2, <1>3 DEF FileOK

\* Before any stop, an event that is in the history without its receipt saw the revision before its projection's.
LEMMA CutOff ==
  ASSUME CaseInv, caseStops = 0, NEW c, HeadAt(c), NEW q, q.op = "event", q.case = c, Unrecorded(q)
  PROVE  Spent(q, c)
<1>1. PICK r \in Betweens : r.jobs[1] = q /\ Len(r.todo) \in 1 .. 3
  BY DEF Unrecorded
<1>2. CaseJobOK(r) /\ r.at = "write" /\ Working(r)
  BY <1>1 DEF Betweens, Between, CaseInv, CaseRunInv, CaseJobOK
<1>3. PICK e, p, todo, n : e = r.held.event /\ p = r.held.projection /\ todo = r.todo /\ n = Len(todo) /\ n \in 1 .. 3
  BY <1>1
<1>10. \A k \in 1 .. 3 : k <= 4 /\ ~(k <= 0)
  OBVIOUS
<1>11. n <= 4 /\ ~(n <= 0) /\ n = Len(todo)
  BY <1>3, <1>10, Zenon
<1>4. ~Carried(todo, <<>>)
  <2>1. PICK none, k : none = <<>> /\ k = Len(none) /\ k = 0
    OBVIOUS
  <2>2. Carried(todo, none) => Len(todo) <= Len(none)
    BY DEF Carried
  <2>3. ~(Len(todo) <= Len(none))
    BY <1>11, <2>1
  <2> QED
    BY <2>1, <2>2, <2>3
<1>5. Applying(q, e, p, n) /\ \E x : Carried(todo, CasePlan(q, e, p, x))
  BY <1>1, <1>2, <1>3, <1>4 DEF Working
<1>6. n <= 4 => ProjectionOf(q.case) = p
  BY <1>3, <1>5, CaseDone, Zenon
<1>7. p.revision = Len(e) /\ q.expected = Len(e) - 1 /\ Own(e)
  BY <1>5 DEF Applying, Told
<1>8. Len(e) \in Nat
  BY <1>7, OwnDomain
<1>9. ProjectionOf(c) = p
  <2>2. ProjectionOf(q.case) = p
    BY <1>6, <1>11
  <2> QED
    BY <2>2
<1> QED
  BY <1>7, <1>8, <1>9 DEF Spent

LEMMA StopCaseKeeps ==
  ASSUME CaseInv, Backend!Stop
  PROVE  CaseInv'
<1>1. UNCHANGED <<disk, caseLock, caseDb, answered>> /\ caseRun' = <<>> /\ caseStops' = caseStops + 1 /\ caseStops \in Nat
  BY DEF Backend!Stop, CaseInv
<1>2. Own(caseRun)' /\ CaseRunInv'
  BY <1>1, EmptySeq DEF Own, CaseRunInv
<1>3. \A c, e : Told(c, e) => Told(c, e)'
  BY <1>1 DEF Told
<1>4. \A n : FileOK(n) => FileOK(n)'
  BY <1>1, <1>3 DEF FileOK, AlertAt, HeadAt, HeadOf, InHead
<1>5. \A c, p, x : Backed(c, p, x) <=> Backed(c, p, x)'
  BY <1>1 DEF Backed, Backend!EventsOf, Backend!Named
<1>6. \A q, c : Spent(q, c) <=> Spent(q, c)'
  BY <1>1 DEF Spent, ReceiptAt, ProjectionOf
<1>7. ASSUME NEW c, HeadAt(c) PROVE CaseOK(c)'
  <2>1. Told(c, HeadOf(c)) /\ CaseOK(c)
    BY <1>7, HeadTold DEF CaseInv
  <2>2. ASSUME caseStops' < 2, NEW i \in DOMAIN HeadOf(c) \ {1} PROVE Spent(HeadOf(c)[i], c)
    <3>1. caseStops = 0 /\ caseStops < 2
      BY <1>1, <2>2
    <3>2. Spent(HeadOf(c)[i], c) \/ Unrecorded(HeadOf(c)[i])
      BY <2>1, <2>2, <3>1 DEF CaseOK
    <3>3. HeadOf(c)[i].op = "event" /\ HeadOf(c)[i].case = c
      BY <2>1, <2>2 DEF Told
    <3> QED
      BY <1>7, <3>1, <3>2, <3>3, CutOff
  <2>3. HeadOf(c)' = HeadOf(c) /\ ProjectionOf(c)' = ProjectionOf(c) /\ (EventAt(c, HeadOf(c)) => EventAt(c, HeadOf(c))')
    BY <1>1 DEF HeadOf, ProjectionOf, EventAt
  <2>6. PICK f : f = HeadOf(c)
    OBVIOUS
  <2>4. \A i \in DOMAIN f \ {1} : caseStops' < 2 => Spent(f[i], c)'
    BY <1>6, <2>2, <2>6
  <2>5. caseStops' # 0
    BY <1>1
  <2> QED
    BY <1>1, <1>5, <2>1, <2>3, <2>4, <2>5, <2>6 DEF CaseOK
<1>8. CaseFiles'
  BY <1>1, <1>4, <1>7 DEF CaseFiles, HeadAt, CaseInv
<1> QED
  BY <1>1, <1>2, <1>8, RowsStay DEF CaseInv

LEMMA RemoveLockCaseKeeps ==
  ASSUME CaseInv, Backend!RemoveLock
  PROVE  CaseInv'
<1>1. UNCHANGED <<disk, caseRun, caseDb, answered, caseStops>> /\ caseRun = <<>>
  BY DEF Backend!RemoveLock
<1>2. Own(caseRun)' /\ CaseRunInv' /\ Betweens' = Betweens
  BY <1>1, EmptySeq DEF Own, CaseRunInv, Betweens
<1> QED
  BY <1>1, <1>2, CaseFilesStay, RowsStay DEF CaseInv

LEMMA SameCases ==
  ASSUME CaseInv, UNCHANGED <<disk, caseRun, caseDb, answered, caseStops, caseLock>>
  PROVE  CaseInv'
<1>1. Own(caseRun)' /\ Betweens' = Betweens
  BY DEF Own, Betweens, CaseInv
<1>2. CaseRunInv'
  BY CaseStays DEF CaseRunInv, CaseInv, CaseJobOK
<1> QED
  BY <1>1, <1>2, CaseFilesStay, RowsStay DEF CaseInv

LEMMA JoinedFour ==
  ASSUME NEW a, NEW b, NEW c, NEW d
  PROVE  <<a>> \o <<b, c>> \o <<d>> = <<a, b, c, d>>
<1>1. PICK S : S = {a, b, c, d}
  OBVIOUS
<1>2. PICK s, t, u, w : s = <<a>> /\ t = <<b, c>> /\ u = <<d>> /\ w = <<a, b, c, d>>
  OBVIOUS
<1>3. /\ s \in Seq(S) /\ t \in Seq(S) /\ u \in Seq(S) /\ w \in Seq(S)
      /\ Len(s) = 1 /\ Len(t) = 2 /\ Len(u) = 1 /\ Len(w) = 4
  BY <1>1, <1>2
<1>4. PICK v : v = s \o t
  OBVIOUS
<1>5. v \in Seq(S) /\ Len(v) = 3 /\ \A i \in 1 .. 3 : v[i] = IF i <= 1 THEN s[i] ELSE t[i - 1]
  <2>1. /\ s \o t \in Seq(S) /\ Len(s \o t) = Len(s) + Len(t)
        /\ \A i \in 1 .. Len(s) + Len(t) : (s \o t)[i] = IF i <= Len(s) THEN s[i] ELSE t[i - Len(s)]
    BY <1>3, <1>4, ConcatProperties
  <2> QED
    BY <1>3, <1>4, <2>1
<1>6. PICK z : z = v \o u
  OBVIOUS
<1>7. z \in Seq(S) /\ Len(z) = 4 /\ \A i \in 1 .. 4 : z[i] = IF i <= 3 THEN v[i] ELSE u[i - 3]
  <2>1. /\ v \o u \in Seq(S) /\ Len(v \o u) = Len(v) + Len(u)
        /\ \A i \in 1 .. Len(v) + Len(u) : (v \o u)[i] = IF i <= Len(v) THEN v[i] ELSE u[i - Len(v)]
    BY <1>3, <1>5, <1>6, ConcatProperties
  <2> QED
    BY <1>3, <1>5, <1>6, <2>1
<1>8. \A i \in 1 .. 4 : z[i] = w[i]
  BY <1>2, <1>5, <1>7
<1>9. z = w
  BY <1>3, <1>7, <1>8, SeqEqual
<1> QED
  BY <1>2, <1>4, <1>6, <1>9

LEMMA JoinedSix ==
  ASSUME NEW a, NEW b, NEW c, NEW d, NEW e, NEW f
  PROVE  <<a, b, c>> \o <<d, e>> \o <<f>> = <<a, b, c, d, e, f>>
<1>1. PICK S : S = {a, b, c, d, e, f}
  OBVIOUS
<1>2. PICK s, t, u, w : s = <<a, b, c>> /\ t = <<d, e>> /\ u = <<f>> /\ w = <<a, b, c, d, e, f>>
  OBVIOUS
<1>3. /\ s \in Seq(S) /\ t \in Seq(S) /\ u \in Seq(S) /\ w \in Seq(S)
      /\ Len(s) = 3 /\ Len(t) = 2 /\ Len(u) = 1 /\ Len(w) = 6
  BY <1>1, <1>2
<1>4. PICK v : v = s \o t
  OBVIOUS
<1>5. v \in Seq(S) /\ Len(v) = 5 /\ \A i \in 1 .. 5 : v[i] = IF i <= 3 THEN s[i] ELSE t[i - 3]
  <2>1. /\ s \o t \in Seq(S) /\ Len(s \o t) = Len(s) + Len(t)
        /\ \A i \in 1 .. Len(s) + Len(t) : (s \o t)[i] = IF i <= Len(s) THEN s[i] ELSE t[i - Len(s)]
    BY <1>3, <1>4, ConcatProperties
  <2> QED
    BY <1>3, <1>4, <2>1
<1>6. PICK z : z = v \o u
  OBVIOUS
<1>7. z \in Seq(S) /\ Len(z) = 6 /\ \A i \in 1 .. 6 : z[i] = IF i <= 5 THEN v[i] ELSE u[i - 5]
  <2>1. /\ v \o u \in Seq(S) /\ Len(v \o u) = Len(v) + Len(u)
        /\ \A i \in 1 .. Len(v) + Len(u) : (v \o u)[i] = IF i <= Len(v) THEN v[i] ELSE u[i - Len(v)]
    BY <1>3, <1>5, <1>6, ConcatProperties
  <2> QED
    BY <1>3, <1>5, <1>6, <2>1
<1>8. \A i \in 1 .. 6 : z[i] = w[i]
  BY <1>2, <1>5, <1>7
<1>9. z = w
  BY <1>3, <1>7, <1>8, SeqEqual
<1> QED
  BY <1>2, <1>4, <1>6, <1>9

\* A plan is a sequence, and is carried out from its beginning.
LEMMA Planned ==
  ASSUME NEW plan, \/ plan = <<>> \/ (\E q : plan = ReceiptPlan(q)) \/ (\E q, x : plan = AlertPlan(q, x))
                   \/ (\E q, e, p, x : plan = CasePlan(q, e, p, x))
  PROVE  Carried(plan, plan)
<1>1. Own(plan)
  <2>1. \A a, b, c, d, e, f : /\ Own(<<a, b, c, d>>) /\ Own(<<a, b, c, d, e, f>>)
    <3>1. \A a, b, c, d, e, f : /\ <<a, b, c, d>> \in Seq({a, b, c, d})
                                /\ <<a, b, c, d, e, f>> \in Seq({a, b, c, d, e, f})
      OBVIOUS
    <3> QED
      BY <3>1, Owned, Zenon
  <2> QED
    BY <2>1, OwnOne DEF ReceiptPlan, AlertPlan, CasePlan
<1>2. Len(plan) \in Nat /\ DOMAIN plan = 1 .. Len(plan)
  BY <1>1, OwnDomain
<1> QED
  BY <1>1, <1>2 DEF Carried

LEMMA AuditWrites ==
  ASSUME NEW entry PROVE \E x : Backend!appendAudit(entry) = <<Backend!Write(<<"audit", x>>, x), Backend!Write(<<"audit head">>, x)>>
BY DEF Backend!appendAudit

LEMMA NoWriter ==
  ASSUME CaseInv, ~caseLock
  PROVE  /\ \A h \in DOMAIN caseRun : caseRun[h].at # "write"
         /\ Betweens = {} /\ (\A c : ~Ahead(c)) /\ (\A q : ~Unrecorded(q))
<1>1. \A h \in DOMAIN caseRun : caseRun[h].at # "write"
  BY DEF CaseInv, CaseRunInv, CaseJobOK
<1>2. Betweens = {}
  BY <1>1 DEF Betweens, Between
<1> QED
  BY <1>1, <1>2 DEF Ahead, Unrecorded

LEMMA CurrentApplied ==
  ASSUME CaseFiles, NEW q, HeadAt(q.case), q.op = "event" => InHead(q, q.case)
  PROVE  Applied(q, Backend!Current(q.case))
<1>1. PICK c, p, f, held : c = q.case /\ p = ProjectionOf(c) /\ f = HeadOf(c) /\ held = Backend!Current(c)
  OBVIOUS
<1>2. Told(c, f) /\ CaseOK(c)
  BY <1>1, HeadTold
<1>3. EventAt(c, f) /\ p.revision \in {Len(f), Len(f) + 1} /\ Own(f)
  BY <1>1, <1>2 DEF CaseOK, Told
<1>4. p.revision \in Nat
  BY <1>3, OwnDomain
<1>5. held.projection = p /\ held.event = f
  BY <1>1 DEF Backend!Current, ProjectionOf, HeadOf
<1> QED
  BY <1>1, <1>3, <1>4, <1>5 DEF Applied

\* What a transition does to the proposal and to the approval of a case.
Moved(p, q, n, next) ==
    /\ DOMAIN next = ProjectionFields /\ next.revision = n
    /\ \/ next.proposer = Absent
       \/ next.proposer = p.proposer /\ next.proposed = p.proposed
       \/ q.action = "propose_decision" /\ next.proposer = q.actor /\ next.proposed = q.what
    /\ \/ next.approved = p.approved
       \/ q.action = "approve_decision" /\ next.approved = p.proposed

LEMMA Transition ==
  ASSUME NEW p, DOMAIN p = ProjectionFields, NEW q, q.action \in DOMAIN Backend!Allowed, NEW n,
         NEW next, next = [Backend!applyTransition(p, q) EXCEPT !.revision = n]
  PROVE  Moved(p, q, n, next)
<1>1. PICK m : m = Backend!applyTransition(p, q)
  OBVIOUS
<1>2. DOMAIN m = ProjectionFields /\ Moved(p, q, m.revision, m)
  <2>1. CASE q.action = "assign"
    BY <1>1, <2>1 DEF Backend!applyTransition, ProjectionFields, Moved
  <2>2. CASE q.action \in {"start_investigation", "submit_evidence"}
    BY <1>1, <2>2 DEF Backend!applyTransition, ProjectionFields, Moved
  <2>3. CASE q.action = "request_evidence"
    BY <1>1, <2>3 DEF Backend!applyTransition, ProjectionFields, Moved
  <2>4. CASE q.action = "propose_decision"
    BY <1>1, <2>4 DEF Backend!applyTransition, ProjectionFields, Moved
  <2>5. CASE q.action = "approve_decision"
    BY <1>1, <2>5 DEF Backend!applyTransition, ProjectionFields, Moved
  <2>6. CASE q.action = "reject_decision"
    BY <1>1, <2>6 DEF Backend!applyTransition, ProjectionFields, Moved
  <2>7. CASE q.action = "reopen"
    BY <1>1, <2>7 DEF Backend!applyTransition, ProjectionFields, Moved
  <2>8. CASE q.action = "link_rescreen"
    BY <1>1, <2>8 DEF Backend!applyTransition, ProjectionFields, Moved
  <2> QED
    BY <2>1, <2>2, <2>3, <2>4, <2>5, <2>6, <2>7, <2>8 DEF Backend!Allowed
<1>3. /\ DOMAIN next = ProjectionFields /\ next.revision = n
      /\ next.proposer = m.proposer /\ next.proposed = m.proposed /\ next.approved = m.approved
  BY <1>1, <1>2 DEF ProjectionFields
<1> QED
  BY <1>2, <1>3 DEF Moved

\* ApplyCaseEvent on a case with history f and projection p: the history and the projection that it makes hold together.
LEMMA EventApplies ==
  ASSUME CaseInv, ~caseLock, NEW q, q.op = "event", q.action \in DOMAIN Backend!Allowed, ~ReceiptAt(q),
         NEW c, c = q.case, HeadAt(c), NEW f, f = HeadOf(c), NEW p, p = ProjectionOf(c),
         q.expected = p.revision, Backend!MayAct(p, q),
         NEW e, e = Append(f, q), NEW next, next = [Backend!applyTransition(p, q) EXCEPT !.revision = Len(e)]
  PROVE  Applying(q, e, next, 6)
<1>1. Told(c, f) /\ CaseOK(c)
  BY HeadTold DEF CaseInv
<1>2. PICK n : n = Len(f)
  OBVIOUS
<1>3. /\ Own(e) /\ n \in Nat /\ DOMAIN f = 1 .. n /\ DOMAIN e = 1 .. n + 1
      /\ e[n + 1] = q /\ \A i \in 1 .. n : e[i] = f[i]
  <2>1. Own(f)
    BY <1>1 DEF Told
  <2> QED
    <3>1. Own(e)
      BY <2>1, OwnBegins
    <3>2. n \in Nat /\ DOMAIN f = 1 .. n /\ DOMAIN e = 1 .. n + 1
      BY <1>2, <2>1, OwnBegins
    <3>3. e[n + 1] = q /\ \A i \in 1 .. n : e[i] = f[i]
      BY <1>2, <2>1, OwnBegins
    <3> QED
      BY <3>1, <3>2, <3>3
<1>4. n > 0 /\ 1 \in DOMAIN f
  BY <1>1, <1>2, OwnFirst DEF Told
<1>5. Len(e) = n + 1 /\ e # <<>>
  <2>1. Len(e) \in Nat /\ DOMAIN e = 1 .. Len(e)
    BY <1>3, OwnDomain
  <2>2. PICK k : k = Len(e) /\ k \in Nat /\ 1 .. k = 1 .. n + 1
    BY <1>3, <2>1
  <2>3. k = n + 1
    BY <1>3, <2>2
  <2> QED
    BY <1>3, <2>1, <2>2, <2>3
<1>6. /\ q.expected \in {n, n + 1}
      /\ caseStops = 0 => q.expected = n
      /\ DOMAIN p = ProjectionFields /\ Backed(c, p, f)
      /\ caseStops < 2 => \A i \in DOMAIN f \ {1} : ReceiptAt(f[i]) \/ f[i].expected < p.revision
  BY <1>1, <1>2, NoWriter DEF CaseOK, Spent
<1>7. ASSUME caseStops < 2, NEW i \in 1 .. n PROVE f[i] # q
  <2>1. CASE i = 1
    BY <1>1, <2>1 DEF Told
  <2>2. CASE i # 1
    <3>1. q.expected \in Nat
      BY <1>3, <1>6
    <3> QED
      BY <1>3, <1>6, <1>7, <2>2, <3>1
  <2> QED
    BY <2>1, <2>2
<1>8. Told(c, e)
  <2>1. e[1].op = "case"
    BY <1>1, <1>3, <1>4 DEF Told
  <2>2. ASSUME NEW i \in DOMAIN e \ {1} PROVE e[i].op = "event" /\ e[i].case = c /\ e[i].expected \in {i - 1, i}
    <3>1. CASE i = n + 1
      BY <1>3, <1>6, <3>1
    <3>2. CASE i # n + 1
      BY <1>1, <1>3, <2>2, <3>2 DEF Told
    <3> QED
      BY <3>1, <3>2
  <2>3. ASSUME caseStops < 2, NEW i \in DOMAIN e, NEW j \in DOMAIN e, e[i] = e[j] PROVE i = j
    BY <1>1, <1>3, <1>7, <2>3 DEF Told
  <2> QED
    BY <1>3, <1>5, <2>1, <2>2, <2>3 DEF Told
<1>9. f \in Backend!EventsOf(c)
  <2>1. PICK m : m = <<"event", c, f>> /\ m \in DOMAIN disk
    BY <1>1 DEF CaseOK, EventAt
  <2>2. m[1] = "event" /\ m[2] = c /\ m[3] = f
    BY <2>1
  <2> QED
    BY <2>1, <2>2 DEF Backend!EventsOf, Backend!Named
<1>10. /\ DOMAIN next = ProjectionFields /\ next.revision = Len(e)
       /\ \/ next.proposer = Absent
          \/ next.proposer = p.proposer /\ next.proposed = p.proposed
          \/ q.action = "propose_decision" /\ next.proposer = q.actor /\ next.proposed = q.what
       /\ \/ next.approved = p.approved
          \/ q.action = "approve_decision" /\ next.approved = p.proposed
  <2>1. PICK k : k = Len(e) /\ next = [Backend!applyTransition(p, q) EXCEPT !.revision = k]
    OBVIOUS
  <2>2. DOMAIN p = ProjectionFields
    BY <1>6
  <2>3. Moved(p, q, k, next)
    BY <2>1, <2>2, Transition, Zenon
  <2> QED
    BY <2>1, <2>3 DEF Moved
<1>11. Backend!Last(e) = q
  BY <1>3, <1>5 DEF Backend!Last
<1>12. next.proposer # Absent =>
          \E d \in Backend!EventsOf(c) \cup {e} : Backend!Proposes(d, next.proposed) /\ Backend!Last(d).actor = next.proposer
  <2>1. ASSUME q.action = "propose_decision", next.proposer = q.actor, next.proposed = q.what
        PROVE  Backend!Proposes(e, next.proposed) /\ Backend!Last(e).actor = next.proposer
    BY <1>11, <2>1 DEF Backend!Proposes
  <2>2. p.proposer # Absent => \E d \in Backend!EventsOf(c) : Backend!Proposes(d, p.proposed) /\ Backend!Last(d).actor = p.proposer
    BY <1>6, <1>9 DEF Backed
  <2> QED
    BY <1>10, <2>1, <2>2
<1>13. next.approved # Absent =>
          \E d, b \in Backend!EventsOf(c) \cup {e} : Backend!Proposes(d, next.approved) /\ Backend!Approves(b, d)
  <2>1. ASSUME q.action = "approve_decision", next.approved = p.proposed
        PROVE  \E d \in Backend!EventsOf(c) : Backend!Proposes(d, next.approved) /\ Backend!Approves(e, d)
    <3>1. p.proposer # Absent /\ p.proposer # q.actor
      BY <2>1 DEF Backend!MayAct
    <3>2. PICK d \in Backend!EventsOf(c) : Backend!Proposes(d, p.proposed) /\ Backend!Last(d).actor = p.proposer
      BY <1>6, <1>9, <3>1 DEF Backed
    <3>3. Backend!Approves(e, d)
      BY <1>11, <2>1, <3>1, <3>2 DEF Backend!Approves
    <3> QED
      BY <2>1, <3>2, <3>3
  <2>2. p.approved # Absent => \E d, b \in Backend!EventsOf(c) : Backend!Proposes(d, p.approved) /\ Backend!Approves(b, d)
    BY <1>6, <1>9 DEF Backed
  <2> QED
    BY <1>10, <2>1, <2>2
<1>14. Backed(c, next, e)
  BY <1>12, <1>13 DEF Backed
<1>15. e[Len(e)] = q /\ Len(e) = Len(f) + 1 /\ (caseStops = 0 => q.expected = Len(e) - 1) /\ \A i \in DOMAIN f : e[i] = f[i]
  BY <1>2, <1>3, <1>5, <1>6
<1> QED
  BY <1>8, <1>10, <1>14, <1>15 DEF Applying

LEMMA CaseWritesPlan ==
  ASSUME NEW q, NEW e, NEW p PROVE \E x : Backend!CaseWrites(q, e, p) = CasePlan(q, e, p, x)
<1>1. PICK x : Backend!appendAudit(<<"case", q.case, e>>) = <<Backend!Write(<<"audit", x>>, x), Backend!Write(<<"audit head">>, x)>>
  BY AuditWrites
<1>2. PICK a, b, c, d, g, f :
        /\ a = Backend!Write(<<"event", q.case, e>>, e) /\ b = Backend!Write(<<"projection", q.case>>, p)
        /\ c = Backend!Write(<<"head", q.case>>, e) /\ d = Backend!Write(<<"audit", x>>, x)
        /\ g = Backend!Write(<<"audit head">>, x) /\ f = Backend!saveReceipt(q)
  OBVIOUS
<1>3. Backend!CaseWrites(q, e, p) = <<a, b, c>> \o <<d, g>> \o <<f>>
  BY <1>1, <1>2, Zenon DEF Backend!CaseWrites
<1>4. CasePlan(q, e, p, x) = <<a, b, c, d, g, f>>
  BY <1>2, Zenon DEF CasePlan
<1>5. Backend!CaseWrites(q, e, p) = CasePlan(q, e, p, x)
  BY <1>3, <1>4, JoinedSix
<1> QED
  BY <1>5

LEMMA AlertWritesPlan ==
  ASSUME NEW q
  PROVE  \E x : <<Backend!Write(<<"alert", q.alert>>, Backend!AlertRecord(q))>> \o Backend!appendAudit(<<"alert", q.alert>>) \o <<Backend!saveReceipt(q)>> = AlertPlan(q, x)
<1>1. PICK x : Backend!appendAudit(<<"alert", q.alert>>) = <<Backend!Write(<<"audit", x>>, x), Backend!Write(<<"audit head">>, x)>>
  BY AuditWrites
<1>2. <<Backend!Write(<<"alert", q.alert>>, Backend!AlertRecord(q))>> \o Backend!appendAudit(<<"alert", q.alert>>) \o <<Backend!saveReceipt(q)>> = AlertPlan(q, x)
  BY <1>1, JoinedFour, Zenon DEF AlertPlan
<1> QED
  BY <1>2

LEMMA NoWrites == Carried(<<>>, <<>>)
BY Planned

LEMMA ReceiptWorks ==
  ASSUME CaseInv, NEW q, q.op \in {"alert", "case", "event"}, ReceiptAt(q), NEW o, o = Backend!Operation(q), o.ok,
         NEW r, r.jobs[1] = q, r.todo = o.writes, r.held = o.held
  PROVE  Working(r)
<1>1. PICK n : n = Backend!receiptPath(q)
  OBVIOUS
<1>2. n \in DOMAIN disk /\ n[1] = "receipt"
  BY <1>1 DEF ReceiptAt, Backend!receiptPath
<1>3. disk[n] = q /\ o = Backend!Yes(<<>>, IF q.op = "alert" THEN <<>> ELSE Backend!Current(q.case))
  BY <1>1, <1>2 DEF Backend!Operation, Backend!Exists, Backend!No, Backend!Yes
<1>4. r.todo = <<>> /\ (q.op # "alert" => r.held = Backend!Current(q.case))
  BY <1>3 DEF Backend!Yes
<1>5. /\ q.op = "alert" => AlertAt(q.alert)
      /\ q.op # "alert" => HeadAt(q.case)
      /\ q.op = "event" => InHead(q, q.case)
  BY <1>2, <1>3 DEF CaseInv, CaseFiles, FileOK, InHead
<1>6. Carried(r.todo, <<>>)
  BY <1>4, NoWrites
<1>7. q.op # "alert" => Applied(q, r.held)
  BY <1>4, <1>5, CurrentApplied DEF CaseInv
<1> QED
  BY <1>5, <1>6, <1>7 DEF Working

LEMMA AlertWorks ==
  ASSUME NEW q, q.op = "alert", NEW o, o = Backend!CreateAlert(q), o.ok, NEW r, r.jobs[1] = q, r.todo = o.writes
  PROVE  Working(r)
<1>1. CASE ~AlertAt(q.alert)
  <2>1. r.todo = <<Backend!Write(<<"alert", q.alert>>, Backend!AlertRecord(q))>> \o Backend!appendAudit(<<"alert", q.alert>>) \o <<Backend!saveReceipt(q)>>
    BY <1>1 DEF Backend!CreateAlert, Backend!Exists, Backend!Yes, AlertAt
  <2>2. PICK x : <<Backend!Write(<<"alert", q.alert>>, Backend!AlertRecord(q))>> \o Backend!appendAudit(<<"alert", q.alert>>) \o <<Backend!saveReceipt(q)>>
                   = AlertPlan(q, x)
    BY AlertWritesPlan, Zenon
  <2>3. Carried(r.todo, AlertPlan(q, x))
    BY <2>1, <2>2, Planned, Zenon
  <2> QED
    BY <2>3 DEF Working
<1>2. CASE AlertAt(q.alert)
  <2>1. r.todo = <<Backend!saveReceipt(q)>>
    BY <1>2 DEF Backend!CreateAlert, Backend!Exists, Backend!Yes, Backend!No, AlertAt
  <2>2. r.todo = ReceiptPlan(q)
    BY <2>1 DEF ReceiptPlan
  <2>3. Carried(r.todo, ReceiptPlan(q))
    BY <2>2, Planned
  <2> QED
    BY <1>2, <2>3 DEF Working
<1> QED
  BY <1>1, <1>2

LEMMA CreateWorks ==
  ASSUME CaseInv, NEW q, q.op = "case", NEW o, o = Backend!CreateCase(q), o.ok, NEW r, r.jobs[1] = q, r.todo = o.writes, r.held = o.held
  PROVE  Working(r)
<1>1. CASE HeadAt(q.case)
  <2>1. r.todo = ReceiptPlan(q) /\ r.held = Backend!Current(q.case)
    BY <1>1 DEF Backend!CreateCase, Backend!Exists, Backend!Yes, Backend!No, HeadAt, ReceiptPlan
  <2>2. Carried(r.todo, ReceiptPlan(q))
    BY <2>1, Planned
  <2>3. Applied(q, r.held)
    BY <1>1, <2>1, CurrentApplied DEF CaseInv
  <2> QED
    BY <2>2, <2>3 DEF Working
<1>2. CASE ~HeadAt(q.case)
  <2>1. PICK e, p : e = <<q>> /\ p = Backend!Opened
    OBVIOUS
  <2>2. r.todo = Backend!CaseWrites(q, e, p) /\ r.held = [projection |-> p, event |-> e]
    BY <1>2, <2>1 DEF Backend!CreateCase, Backend!Exists, Backend!Yes, Backend!No, HeadAt
  <2>3. PICK x : r.todo = CasePlan(q, e, p, x)
    BY <2>2, CaseWritesPlan
  <2>4. Carried(r.todo, CasePlan(q, e, p, x))
    BY <2>3, Planned
  <2>5. r.held.event = e /\ r.held.projection = p
    BY <2>2
  <2>6. Own(e) /\ Len(e) = 1 /\ DOMAIN e = {1} /\ e[1] = q /\ e # <<>>
    BY <2>1, OwnOne, Zenon
  <2>7. Told(q.case, e)
    BY <2>6 DEF Told
  <2>8. DOMAIN p = ProjectionFields /\ p.revision = 1 /\ p.proposer = Absent /\ p.approved = Absent
    BY <2>1 DEF Backend!Opened, ProjectionFields
  <2>9. Backed(q.case, p, e)
    BY <2>8 DEF Backed
  <2>10. Applying(q, e, p, Len(r.todo))
    BY <1>2, <2>6, <2>7, <2>8, <2>9 DEF Applying
  <2> QED
    BY <2>4, <2>5, <2>10 DEF Working
<1> QED
  BY <1>1, <1>2

LEMMA EventWorks ==
  ASSUME CaseInv, ~caseLock, NEW q, q.op = "event", q.action \in DOMAIN Backend!Allowed, ~ReceiptAt(q),
         NEW o, o = Backend!ApplyCaseEvent(q), o.ok, NEW r, r.jobs[1] = q, r.todo = o.writes, r.held = o.held
  PROVE  Working(r)
<1>1. PICK c, f, p, e, next : /\ c = q.case /\ f = HeadOf(c) /\ p = ProjectionOf(c) /\ e = Append(f, q)
                              /\ next = [Backend!applyTransition(p, q) EXCEPT !.revision = Len(e)]
  OBVIOUS
<1>2. /\ HeadAt(c) /\ q.expected = p.revision /\ Backend!MayAct(p, q)
      /\ r.todo = Backend!CaseWrites(q, e, next) /\ r.held = [projection |-> next, event |-> e]
  BY <1>1 DEF Backend!ApplyCaseEvent, Backend!Expected, Backend!Exists, Backend!Yes, Backend!No, HeadAt, HeadOf, ProjectionOf
<1>3. PICK x : r.todo = CasePlan(q, e, next, x)
  BY <1>2, CaseWritesPlan
<1>4. Carried(r.todo, CasePlan(q, e, next, x))
  BY <1>3, Planned
<1>5. Len(r.todo) = 6
  <2>1. PICK plan : plan = CasePlan(q, e, next, x)
    OBVIOUS
  <2>2. Len(plan) = 6
    BY <2>1 DEF CasePlan
  <2> QED
    BY <1>3, <2>1, <2>2
<1>6. r.held.event = e /\ r.held.projection = next
  BY <1>2
<1>7. Applying(q, e, next, 6)
  BY <1>1, <1>2, EventApplies
<1>8. Applying(q, e, next, Len(r.todo))
  BY <1>5, <1>7
<1> QED
  BY <1>4, <1>6, <1>8 DEF Working

LEMMA LockCaseKeeps ==
  ASSUME CaseInv, NEW h \in DOMAIN caseRun, Backend!Lock(h)
  PROVE  CaseInv'
<1>1. PICK r, q, o : r = caseRun[h] /\ q = r.jobs[1] /\ o = Backend!Operation(q)
  OBVIOUS
<1>2. CaseJobOK(r) /\ r.at = "lock" /\ ~caseLock /\ Own(r.jobs) /\ r.jobs # <<>> /\ ~Between(r)
  BY <1>1 DEF Backend!Lock, CaseInv, CaseRunInv, CaseJobOK, Started, Between
<1>3. Head(r.jobs) = q /\ 1 \in DOMAIN r.jobs
  BY <1>1, <1>2, OwnFirst
<1>4. /\ UNCHANGED <<disk, caseStops, caseDb, answered>>
      /\ IF o.ok THEN caseLock' = TRUE /\ caseRun' = [caseRun EXCEPT ![h].at = "write", ![h].todo = o.writes, ![h].held = o.held]
                 ELSE caseRun' = Backend!Ended(h) /\ UNCHANGED caseLock
  BY <1>1, <1>3 DEF Backend!Lock
<1>5. CASE ~o.ok
  BY <1>1, <1>2, <1>4, <1>5, CaseOver, RowsStay DEF CaseInv
<1>6. CASE o.ok
  <2>1. PICK y : y = [caseRun[h] EXCEPT !.at = "write", !.todo = o.writes, !.held = o.held]
    OBVIOUS
  <2>2. caseRun' = [caseRun EXCEPT ![h] = y] /\ caseLock'
    <3>1. caseLock' /\ caseRun' = [caseRun EXCEPT ![h].at = "write", ![h].todo = o.writes, ![h].held = o.held]
      BY <1>4, <1>6
    <3>2. [caseRun EXCEPT ![h].at = "write", ![h].todo = o.writes, ![h].held = o.held]
            = [caseRun EXCEPT ![h] = [caseRun[h] EXCEPT !.at = "write", !.todo = o.writes, !.held = o.held]]
      BY CaseFields, Zenon
    <3> QED
      BY <2>1, <3>1, <3>2, Zenon
  <2>3. DOMAIN r = CaseJobFields
    BY <1>2 DEF CaseJobOK
  <2>4. /\ DOMAIN y = CaseJobFields /\ y.req = r.req /\ y.jobs = r.jobs /\ y.at = "write" /\ y.copies = r.copies
        /\ y.todo = o.writes /\ y.held = o.held
    BY <1>1, <2>1, <2>3 DEF CaseJobFields
  <2>5. q.op \in {"alert", "case", "event"} /\ (q.op = "event" => q.action \in DOMAIN Backend!Allowed)
    <3>1. CASE r.req.op = "batch"
      BY <1>1, <1>2, <1>3, <3>1 DEF CaseJobOK, Started
    <3>2. CASE r.req.op # "batch"
      <4>1. r.jobs = <<r.req>>
        BY <1>2, <3>2 DEF CaseJobOK, Started
      <4>2. q = r.req
        BY <1>1, <4>1
      <4> QED
        BY <1>2, <3>2, <4>2 DEF CaseJobOK, Backend!RequestFits
    <3> QED
      BY <3>1, <3>2
  <2>6. y.jobs[1] = q
    BY <1>1, <2>4
  <2>7. Working(y)
    <3>1. CASE ReceiptAt(q)
      BY <1>1, <1>6, <2>4, <2>5, <2>6, <3>1, ReceiptWorks
    <3>2. CASE ~ReceiptAt(q) /\ q.op = "alert"
      <4>1. o = Backend!CreateAlert(q)
        BY <1>1, <3>2 DEF Backend!Operation, Backend!Exists, ReceiptAt
      <4> QED
        BY <1>6, <2>4, <2>6, <3>2, <4>1, AlertWorks
    <3>3. CASE ~ReceiptAt(q) /\ q.op = "case"
      <4>1. o = Backend!CreateCase(q)
        BY <1>1, <3>3 DEF Backend!Operation, Backend!Exists, ReceiptAt
      <4> QED
        BY <1>6, <2>4, <2>6, <3>3, <4>1, CreateWorks
    <3>4. CASE ~ReceiptAt(q) /\ q.op = "event"
      <4>1. o = Backend!ApplyCaseEvent(q)
        BY <1>1, <3>4 DEF Backend!Operation, Backend!Exists, ReceiptAt
      <4> QED
        BY <1>2, <1>6, <2>4, <2>5, <2>6, <3>4, <4>1, EventWorks
    <3> QED
      BY <2>5, <3>1, <3>2, <3>3, <3>4
  <2>8. ASSUME NEW x, CaseJobOK(x) PROVE x.at # "write"
    BY <1>2, <2>8 DEF CaseJobOK
  <2>9. CaseJobOK(y)'
    <3>2. UNCHANGED <<disk, caseStops>> /\ r.at # "write"
      BY <1>2, <1>4
    <3>3. CaseJobOK(r)'
      BY <1>2, <3>2, CaseStays
    <3>4. Working(y)'
      BY <2>7, <3>2, WorkingStays
    <3> QED
      BY <1>2, <2>2, <2>4, <3>3, <3>4 DEF CaseJobOK, Started, CasePlaces
  <2> QED
    BY <1>1, <1>2, <1>4, <2>2, <2>4, <2>8, <2>9, CaseOn, RowsStay DEF CaseInv
<1> QED
  BY <1>5, <1>6

---------------------------------------------------------------------------
(* The writes.                                                             *)

LEMMA PutOne ==
  ASSUME NEW n, NEW b, disk' = Backend!Put(disk, n, b)
  PROVE  /\ \A m : m \in DOMAIN disk' <=> m \in DOMAIN disk \/ m = n
         /\ disk'[n] = b
         /\ \A m \in DOMAIN disk : m # n => disk'[m] = disk[m]
BY DEF Backend!Put

\* What the files tell of is still told of when one more is written; a history is only continued.
LEMMA Grows ==
  ASSUME NEW n, NEW b, disk' = Backend!Put(disk, n, b), \A q, c : InHead(q, c) => InHead(q, c)'
  PROVE  /\ \A a : AlertAt(a) => AlertAt(a)'
         /\ \A c, e : EventAt(c, e) => EventAt(c, e)'
         /\ \A c : HeadAt(c) => HeadAt(c)'
         /\ \A q : ReceiptAt(q) => ReceiptAt(q)'
         /\ \A q, held : Applied(q, held) => Applied(q, held)'
<1>1. \A m \in DOMAIN disk : m \in DOMAIN disk'
  BY PutOne
<1>2. (\A a : AlertAt(a) => AlertAt(a)') /\ (\A c, e : EventAt(c, e) => EventAt(c, e)') /\ (\A c : HeadAt(c) => HeadAt(c)')
      /\ \A q : ReceiptAt(q) => ReceiptAt(q)'
  BY <1>1 DEF AlertAt, EventAt, HeadAt, ReceiptAt
<1> QED
  BY <1>2 DEF Applied

LEMMA BackedGrows ==
  ASSUME NEW n, NEW b, disk' = Backend!Put(disk, n, b), NEW c, NEW p, NEW x, Backed(c, p, x)
  PROVE  Backed(c, p, x)'
<1>1. Backend!EventsOf(c) \subseteq Backend!EventsOf(c)'
  BY PutOne DEF Backend!EventsOf, Backend!Named
<1> QED
  BY <1>1 DEF Backed

LEMMA CaseFilesGrow ==
  ASSUME NEW n, NEW b, disk' = Backend!Put(disk, n, b), \A q, c : InHead(q, c) => InHead(q, c)', caseStops' = caseStops,
         CaseFiles, FileOK(n)'
  PROVE  \A m \in DOMAIN disk' : FileOK(m)'
<1>1. /\ \A a : AlertAt(a) => AlertAt(a)'
      /\ \A c : HeadAt(c) => HeadAt(c)'
  BY Grows
<1>2. \A c, e : Told(c, e) => Told(c, e)'
  BY DEF Told
<1>3. ASSUME NEW m \in DOMAIN disk, m # n PROVE FileOK(m)'
  <2>1. FileOK(m) /\ disk'[m] = disk[m]
    BY <1>3, PutOne DEF CaseFiles
  <2> QED
    BY <1>1, <1>2, <2>1 DEF FileOK
<1> QED
  BY <1>3, PutOne

LEMMA RowsGrow ==
  ASSUME NEW n, NEW b, disk' = Backend!Put(disk, n, b), \A q, c : InHead(q, c) => InHead(q, c)', UNCHANGED <<caseDb, answered>>,
         Rows, Answers
  PROVE  Rows' /\ Answers'
<1>1. \A m \in DOMAIN disk : m \in DOMAIN disk'
  BY PutOne
<1> QED
  BY <1>1 DEF Rows, RowsOK, Answers, AlertAt, EventAt

LEMMA JobGrows ==
  ASSUME NEW n, NEW b, disk' = Backend!Put(disk, n, b), \A q, c : InHead(q, c) => InHead(q, c)', caseStops' = caseStops,
         NEW x, CaseJobOK(x), x.at # "write"
  PROVE  CaseJobOK(x)'
<1>1. /\ \A a : AlertAt(a) => AlertAt(a)'
      /\ \A q, held : Applied(q, held) => Applied(q, held)'
  BY Grows
<1> QED
  BY <1>1 DEF CaseJobOK, Started

\* What is left to write stays left to write when a receipt is written.
LEMMA WorkingGrows ==
  ASSUME NEW n, NEW b, n[1] = "receipt", disk' = Backend!Put(disk, n, b), caseStops' = caseStops, NEW x, Working(x)
  PROVE  Working(x)'
<1>1. /\ \A m : m \in DOMAIN disk => m \in DOMAIN disk'
      /\ \A m : m[1] # "receipt" => (m \in DOMAIN disk' <=> m \in DOMAIN disk)
      /\ \A m \in DOMAIN disk : m[1] # "receipt" => disk'[m] = disk[m]
  BY PutOne
<1>2. \A c : <<"head", c>>[1] = "head"
  OBVIOUS
<1>3. \A c : (HeadAt(c) <=> HeadAt(c)') /\ (HeadAt(c) => HeadOf(c)' = HeadOf(c))
  BY <1>1, <1>2 DEF HeadAt, HeadOf
<1>4. \A q, c : InHead(q, c) => InHead(q, c)'
  BY <1>3 DEF InHead
<1>5. /\ \A a : AlertAt(a) => AlertAt(a)'
      /\ \A q, held : Applied(q, held) => Applied(q, held)'
  BY <1>4, Grows
<1>6. \A c, e, p : (Told(c, e) => Told(c, e)') /\ (Backed(c, p, e) => Backed(c, p, e)')
  BY BackedGrows DEF Told
<1>7. ASSUME NEW q, NEW e, NEW p, NEW k, Applying(q, e, p, k) PROVE Applying(q, e, p, k)'
  BY <1>3, <1>6, <1>7 DEF Applying
<1>8. \A todo, plan : Carried(todo, plan) => Carried(todo, plan)'
  BY <1>1 DEF Carried
<1> QED
  BY <1>5, <1>7, <1>8, Zenon DEF Working

\* A case whose history and projection are not written.
LEMMA CaseGrows ==
  ASSUME CaseInv, NEW n, NEW b, disk' = Backend!Put(disk, n, b), caseStops' = caseStops,
         NEW c, HeadAt(c), n # <<"head", c>>, n # <<"projection", c>>,
         caseStops = 0 /\ Ahead(c) => Ahead(c)',
         \A q : q.op = "event" /\ Unrecorded(q) => Unrecorded(q)' \/ ReceiptAt(q)'
  PROVE  CaseOK(c)'
<1>1. PICK f, p : f = HeadOf(c) /\ p = ProjectionOf(c)
  OBVIOUS
<1>2. CaseOK(c) /\ Told(c, f)
  BY <1>1, HeadTold DEF CaseInv
<1>3. /\ EventAt(c, f) => EventAt(c, f)'
      /\ <<"projection", c>> \in DOMAIN disk => <<"projection", c>> \in DOMAIN disk'
      /\ HeadOf(c)' = f
  BY <1>1, PutOne DEF EventAt, HeadAt, HeadOf
<1>4. ProjectionOf(c)' = p
  BY <1>1, <1>2, PutOne DEF CaseOK, ProjectionOf
<1>5. Backed(c, p, f)'
  BY <1>1, <1>2, BackedGrows DEF CaseOK
<1>6. \A q : ReceiptAt(q) => ReceiptAt(q)'
  BY PutOne DEF ReceiptAt
<1>7. ASSUME caseStops < 2, NEW i \in DOMAIN f \ {1} PROVE Spent(f[i], c)' \/ Unrecorded(f[i])'
  <2>1. PICK q : q = f[i]
    OBVIOUS
  <2>2. q.op = "event"
    BY <1>2, <1>7, <2>1 DEF Told
  <2>3. (ReceiptAt(q) \/ q.expected < p.revision) \/ Unrecorded(q)
    BY <1>1, <1>2, <1>7, <2>1 DEF CaseOK, Spent
  <2>4. ReceiptAt(q)' \/ q.expected < p.revision \/ Unrecorded(q)'
    BY <1>6, <2>2, <2>3
  <2>5. Spent(q, c)' \/ Unrecorded(q)'
    BY <1>4, <2>4 DEF Spent
  <2> QED
    BY <2>1, <2>5
<1>8. caseStops < 2 => \A i \in DOMAIN f \ {1} : Spent(f[i], c)' \/ Unrecorded(f[i])'
  BY <1>7
<1> QED
  BY <1>1, <1>2, <1>3, <1>4, <1>5, <1>8 DEF CaseOK

LEMMA BatchReceiptKeeps ==
  ASSUME CaseInv, NEW h \in DOMAIN caseRun, Backend!BatchReceipt(h)
  PROVE  CaseInv'
<1>1. PICK r, y, n : r = caseRun[h] /\ y = [caseRun[h] EXCEPT !.at = "persist"] /\ n = Backend!receiptPath(r.req)
  OBVIOUS
<1>2. CaseJobOK(r) /\ r.at = "receipt" /\ DOMAIN r = CaseJobFields /\ r.req.op = "batch" /\ r.copies = r.req.requests /\ ~Between(r)
  BY <1>1 DEF Backend!BatchReceipt, CaseInv, CaseRunInv, CaseJobOK, Between
<1>3. UNCHANGED <<caseStops, caseLock, caseDb, answered>> /\ disk' = Backend!Put(disk, n, r.req) /\ n[1] = "receipt"
  BY <1>1 DEF Backend!BatchReceipt, Backend!receiptPath
<1>4. caseRun' = [caseRun EXCEPT ![h] = y]
  BY <1>1 DEF Backend!BatchReceipt
<1>5. \A c : (HeadAt(c) <=> HeadAt(c)') /\ (HeadAt(c) => HeadOf(c)' = HeadOf(c)) /\ n # <<"head", c>> /\ n # <<"projection", c>>
  <2>1. \A c : n # <<"head", c>> /\ n # <<"projection", c>>
    BY <1>3
  <2> QED
    BY <1>3, <2>1, PutOne DEF HeadAt, HeadOf
<1>6. \A q, c : InHead(q, c) => InHead(q, c)'
  BY <1>5 DEF InHead
<1>7. DOMAIN y = CaseJobFields /\ y.req = r.req /\ y.jobs = r.jobs /\ y.at = "persist" /\ y.copies = r.copies /\ y.held = r.held /\ y.todo = r.todo
  BY <1>1, <1>2 DEF CaseJobFields
<1>8. CaseJobOK(y) /\ ~Between(y)
  BY <1>2, <1>7 DEF CaseJobOK, CasePlaces, Started, Between
<1>9. CaseJobOK(y)'
  BY <1>3, <1>6, <1>7, <1>8, JobGrows
<1>10. ASSUME NEW x, CaseJobOK(x) PROVE CaseJobOK(x)'
  <2>1. CASE x.at # "write"
    BY <1>3, <1>6, <1>10, <2>1, JobGrows
  <2>2. CASE x.at = "write"
    <3>1. Working(x)'
      BY <1>3, <1>10, <2>2, WorkingGrows DEF CaseJobOK
    <3>2. /\ \A a : AlertAt(a) => AlertAt(a)'
      BY <1>3, <1>6, Grows
    <3> QED
      BY <1>3, <1>10, <2>2, <3>1, <3>2 DEF CaseJobOK, Started
  <2> QED
    BY <2>1, <2>2
<1>11. Own(caseRun)' /\ CaseRunInv' /\ Betweens \subseteq Betweens'
  BY <1>1, <1>2, <1>4, <1>7, <1>9, <1>10, CaseMoves DEF CaseInv
<1>12. ASSUME NEW c, HeadAt(c)' PROVE CaseOK(c)'
  <2>1. (Ahead(c) => Ahead(c)') /\ \A q : Unrecorded(q) => Unrecorded(q)'
    BY <1>11 DEF Ahead, Unrecorded
  <2> QED
    BY <1>3, <1>5, <1>12, <2>1, CaseGrows
<1>13. FileOK(n)'
  <2>1. disk'[n] = r.req
    BY <1>3, PutOne
  <2>2. \A i \in DOMAIN r.copies : AlertAt(r.copies[i].alert)
    BY <1>2 DEF CaseJobOK, Started
  <2>3. \A a : AlertAt(a) => AlertAt(a)'
    BY <1>3, <1>6, Grows
  <2> QED
    BY <1>2, <1>3, <2>1, <2>2, <2>3 DEF FileOK
<1>14. CaseFiles'
  BY <1>3, <1>6, <1>12, <1>13, CaseFilesGrow DEF CaseFiles, CaseInv
<1> QED
  BY <1>3, <1>6, <1>11, <1>14, RowsGrow DEF CaseInv

\* The write w of a plan of m writes is the first of those that were to do; the rest stays to do.
Advanced(todo, rest, plan, m, w) ==
    Own(rest) /\ Len(todo) \in 1 .. m /\ w = plan[m - Len(todo) + 1] /\ Len(rest) = Len(todo) - 1

\* One write of a plan whose files are of different kinds.
LEMMA Advances ==
  ASSUME NEW todo, NEW plan, Carried(todo, plan), todo # <<>>, NEW m \in Nat, m = Len(plan),
         \A i, j \in 1 .. m : plan[i].name[1] = plan[j].name[1] => i = j,
         NEW w, w = todo[1], disk' = Backend!Put(disk, w.name, w.body), NEW rest, rest = Tail(todo)
  PROVE  Advanced(todo, rest, plan, m, w) /\ Carried(rest, plan)'
<1>1. PICK k, l : k = Len(todo) /\ l = Len(rest)
  OBVIOUS
<1>2. /\ Own(rest) /\ k \in Nat /\ k > 0 /\ l = k - 1 /\ DOMAIN todo = 1 .. k /\ DOMAIN rest = 1 .. l
      /\ \A i \in DOMAIN rest : i + 1 \in DOMAIN todo /\ rest[i] = todo[i + 1]
  <2>1. Own(todo)
    BY DEF Carried
  <2>2. Own(rest)
    BY <2>1, OwnTail
  <2>3. Len(todo) \in Nat /\ Len(todo) > 0 /\ Len(rest) = Len(todo) - 1 /\ DOMAIN todo = 1 .. Len(todo) /\ DOMAIN rest = 1 .. Len(rest)
    BY <2>1, OwnTail
  <2>4. \A i \in DOMAIN rest : i + 1 \in DOMAIN todo /\ rest[i] = todo[i + 1]
    BY <2>1, OwnTail
  <2> QED
    BY <1>1, <2>2, <2>3, <2>4
<1>3. /\ k <= m
      /\ \A i \in 1 .. k : todo[i] = plan[m - k + i]
      /\ \A i \in 1 .. m - k : plan[i].name \in DOMAIN disk /\ (plan[i].name[1] # "receipt" => disk[plan[i].name] = plan[i].body)
  BY <1>1, <1>2 DEF Carried
<1>4. PICK g : g = m - k + 1 /\ g \in 1 .. m /\ w = plan[g]
  BY <1>2, <1>3
<1>5. \A i \in 1 .. l : rest[i] = plan[m - l + i]
  <2>1. ASSUME NEW i \in 1 .. l PROVE rest[i] = plan[m - l + i]
    <3>1. i + 1 \in 1 .. k /\ rest[i] = todo[i + 1] /\ m - k + (i + 1) = m - l + i
      BY <1>2, <2>1
    <3>2. todo[i + 1] = plan[m - k + (i + 1)]
      BY <1>3, <3>1
    <3> QED
      BY <3>1, <3>2
  <2> QED
    BY <2>1
<1>6. ASSUME NEW i \in 1 .. m - l
      PROVE  plan[i].name \in DOMAIN disk' /\ (plan[i].name[1] # "receipt" => disk'[plan[i].name] = plan[i].body)
  <2>1. CASE i = g
    BY <1>4, <2>1, PutOne
  <2>2. CASE i # g
    <3>1. i \in 1 .. m - k /\ i \in 1 .. m
      BY <1>2, <1>3, <1>4, <1>6, <2>2
    <3>2. plan[i].name[1] # plan[g].name[1]
      BY <1>4, <2>2, <3>1
    <3>3. plan[i].name # w.name
      BY <1>4, <3>2
    <3> QED
      BY <1>3, <3>1, <3>3, PutOne
  <2> QED
    BY <2>1, <2>2
<1>7. Carried(rest, plan)'
  <2>1. l <= m
    BY <1>2, <1>3
  <2>2. \A i \in 1 .. m - l : plan[i].name \in DOMAIN disk' /\ (plan[i].name[1] # "receipt" => disk'[plan[i].name] = plan[i].body)
    BY <1>6
  <2> QED
    BY <1>1, <1>2, <1>5, <2>1, <2>2 DEF Carried
<1>8. Len(todo) \in 1 .. m /\ w = plan[m - Len(todo) + 1]
  BY <1>1, <1>2, <1>3, <1>4
<1>9. Own(rest) /\ Len(rest) = Len(todo) - 1
  BY <1>1, <1>2
<1> QED
  BY <1>7, <1>8, <1>9 DEF Advanced

LEMMA ReceiptAdvances ==
  ASSUME NEW todo, NEW q, Carried(todo, ReceiptPlan(q)), todo # <<>>, NEW w, w = todo[1], disk' = Backend!Put(disk, w.name, w.body),
         NEW rest, rest = Tail(todo)
  PROVE  w = Backend!saveReceipt(q) /\ Len(todo) = 1 /\ Len(rest) = 0 /\ rest = <<>>
<1>1. PICK plan, m : plan = ReceiptPlan(q) /\ m = 1
  OBVIOUS
<1>2. m \in Nat /\ m = Len(plan) /\ plan[1] = Backend!saveReceipt(q)
  BY <1>1 DEF ReceiptPlan
<1>3. \A i, j \in 1 .. m : plan[i].name[1] = plan[j].name[1] => i = j
  BY <1>1
<1>4. Carried(todo, plan)
  BY <1>1
<1>5. Advanced(todo, rest, plan, m, w)
  BY <1>2, <1>3, <1>4, Advances
<1>6. Own(rest) /\ Len(todo) \in 1 .. m /\ w = plan[m - Len(todo) + 1] /\ Len(rest) = Len(todo) - 1
  BY <1>5 DEF Advanced
<1>7. Len(todo) = 1 /\ Len(rest) = 0 /\ w = plan[1]
  <2>1. PICK k : k = Len(todo)
    OBVIOUS
  <2>2. k \in 1 .. m /\ w = plan[m - k + 1]
    BY <1>6, <2>1
  <2>3. k = 1 /\ m - k + 1 = 1
    BY <1>1, <2>2
  <2> QED
    BY <1>6, <2>1, <2>2, <2>3
<1>8. rest = <<>>
  <2>1. Own(rest)
    BY <1>6
  <2> QED
    BY <1>7, <2>1, EmptySeq DEF Own
<1> QED
  BY <1>2, <1>7, <1>8

\* The files of an alert's plan.
AlertWrite(q, x, w) ==
    /\ w.name \in {<<"alert", q.alert>>, <<"audit", x>>, <<"audit head">>, Backend!receiptPath(q)}
    /\ w.name = Backend!receiptPath(q) => w.body = q /\ AlertAt(q.alert)

LEMMA AlertAdvances ==
  ASSUME NEW todo, NEW q, NEW x, Carried(todo, AlertPlan(q, x)), todo # <<>>, NEW w, w = todo[1], disk' = Backend!Put(disk, w.name, w.body),
         NEW rest, rest = Tail(todo)
  PROVE  Carried(rest, AlertPlan(q, x))' /\ AlertWrite(q, x, w)
<1>1. PICK plan, m : plan = AlertPlan(q, x) /\ m = 4
  OBVIOUS
<1>2. /\ m = Len(plan)
      /\ plan[1].name = <<"alert", q.alert>> /\ plan[2].name = <<"audit", x>> /\ plan[3].name = <<"audit head">>
      /\ plan[4].name = Backend!receiptPath(q) /\ plan[4].body = q
  BY <1>1 DEF AlertPlan, Backend!Write, Backend!saveReceipt
<1>3. plan[1].name[1] = "alert" /\ plan[2].name[1] = "audit" /\ plan[3].name[1] = "audit head" /\ plan[4].name[1] = "receipt"
  <2>1. PICK n1, n2, n3, n4 :
          n1 = <<"alert", q.alert>> /\ n2 = <<"audit", x>> /\ n3 = <<"audit head">> /\ n4 = Backend!receiptPath(q)
    OBVIOUS
  <2>2. n1[1] = "alert" /\ n2[1] = "audit" /\ n3[1] = "audit head" /\ n4[1] = "receipt"
    BY <2>1 DEF Backend!receiptPath
  <2>3. plan[1].name = n1 /\ plan[2].name = n2 /\ plan[3].name = n3 /\ plan[4].name = n4
    BY <1>2, <2>1, Zenon
  <2> QED
    BY <2>2, <2>3
<1>4. \A i \in 1 .. m : i \in {1, 2, 3, 4}
  BY <1>1
<1>5. \A i, j \in 1 .. m : plan[i].name[1] = plan[j].name[1] => i = j
  BY <1>3, <1>4
<1>6. Carried(todo, plan) /\ m \in Nat
  BY <1>1
<1>14. Advanced(todo, rest, plan, m, w)
  BY <1>2, <1>5, <1>6, Advances
<1>7. Len(todo) \in 1 .. m /\ w = plan[m - Len(todo) + 1] /\ Len(rest) = Len(todo) - 1
  BY <1>14 DEF Advanced
<1>8. Carried(rest, plan)'
  BY <1>2, <1>5, <1>6, Advances
<1>9. PICK k : k = Len(todo) /\ k \in 1 .. 4 /\ w = plan[4 - k + 1]
  BY <1>1, <1>7
<1>10. k # 1 => w.name \in {<<"alert", q.alert>>, <<"audit", x>>, <<"audit head">>} /\ w.name[1] # "receipt"
  <2>1. \A j \in 1 .. 4 : j # 1 => 4 - j + 1 \in {1, 2, 3}
    OBVIOUS
  <2>2. PICK i : i = 4 - k + 1 /\ (k # 1 => i \in {1, 2, 3}) /\ w = plan[i]
    BY <1>9, <2>1
  <2>3. i = 1 \/ i = 2 \/ i = 3 => w.name \in {plan[1].name, plan[2].name, plan[3].name}
    BY <2>2
  <2> QED
    BY <1>2, <1>3, <2>2, <2>3
<1>11. k = 1 => w.name = Backend!receiptPath(q) /\ w.body = q
  <2>1. \A j \in 1 .. 4 : j = 1 => 4 - j + 1 = 4
    OBVIOUS
  <2>2. k = 1 => w = plan[4]
    BY <1>9, <2>1
  <2> QED
    BY <1>2, <2>2
<1>12. AlertAt(q.alert) \/ k # 1
  <2>1. k <= 3 => AlertAt(q.alert)
    BY <1>9, AlertDone
  <2> QED
    BY <2>1
<1>13. Backend!receiptPath(q)[1] = "receipt"
  BY DEF Backend!receiptPath
<1> QED
  BY <1>1, <1>8, <1>10, <1>11, <1>12, <1>13 DEF AlertWrite

\* The files of a case's plan, of which k are left to write.
CaseWrite(q, e, p, x, w, k) ==
    /\ k \in 1 .. 6
    /\ k = 6 => w.name = <<"event", q.case, e>>
    /\ k = 5 => w.name = <<"projection", q.case>> /\ w.body = p
    /\ k = 4 => w.name = <<"head", q.case>> /\ w.body = e
    /\ k = 3 => w.name = <<"audit", x>>
    /\ k = 2 => w.name = <<"audit head">>
    /\ k = 1 => w.name = Backend!receiptPath(q) /\ w.body = q

LEMMA CaseAdvances ==
  ASSUME NEW todo, NEW q, NEW e, NEW p, NEW x, Carried(todo, CasePlan(q, e, p, x)), todo # <<>>,
         NEW w, w = todo[1], disk' = Backend!Put(disk, w.name, w.body), NEW rest, rest = Tail(todo), NEW k, k = Len(todo)
  PROVE  Carried(rest, CasePlan(q, e, p, x))' /\ Len(rest) = k - 1 /\ CaseWrite(q, e, p, x, w, k)
<1>1. PICK plan, m : plan = CasePlan(q, e, p, x) /\ m = 6
  OBVIOUS
<1>2. /\ m = Len(plan)
      /\ plan[1].name = <<"event", q.case, e>>
      /\ plan[2].name = <<"projection", q.case>> /\ plan[2].body = p
      /\ plan[3].name = <<"head", q.case>> /\ plan[3].body = e
      /\ plan[4].name = <<"audit", x>> /\ plan[5].name = <<"audit head">>
      /\ plan[6].name = Backend!receiptPath(q) /\ plan[6].body = q
  BY <1>1 DEF CasePlan, Backend!Write, Backend!saveReceipt
<1>3. /\ plan[1].name[1] = "event" /\ plan[2].name[1] = "projection" /\ plan[3].name[1] = "head"
      /\ plan[4].name[1] = "audit" /\ plan[5].name[1] = "audit head" /\ plan[6].name[1] = "receipt"
  <2>1. PICK n1, n2, n3, n4, n5, n6 :
          /\ n1 = <<"event", q.case, e>> /\ n2 = <<"projection", q.case>> /\ n3 = <<"head", q.case>>
          /\ n4 = <<"audit", x>> /\ n5 = <<"audit head">> /\ n6 = Backend!receiptPath(q)
    OBVIOUS
  <2>2. n1[1] = "event" /\ n2[1] = "projection" /\ n3[1] = "head" /\ n4[1] = "audit" /\ n5[1] = "audit head" /\ n6[1] = "receipt"
    BY <2>1 DEF Backend!receiptPath
  <2>3. /\ plan[1].name = n1 /\ plan[2].name = n2 /\ plan[3].name = n3
        /\ plan[4].name = n4 /\ plan[5].name = n5 /\ plan[6].name = n6
    BY <1>2, <2>1, Zenon
  <2> QED
    BY <2>2, <2>3
<1>4. \A i \in 1 .. m : i \in {1, 2, 3, 4, 5, 6}
  BY <1>1
<1>5. \A i, j \in 1 .. m : plan[i].name[1] = plan[j].name[1] => i = j
  BY <1>3, <1>4
<1>6. Carried(todo, plan) /\ m \in Nat
  BY <1>1
<1>14. Advanced(todo, rest, plan, m, w)
  BY <1>2, <1>5, <1>6, Advances
<1>7. Len(todo) \in 1 .. m /\ w = plan[m - Len(todo) + 1] /\ Len(rest) = Len(todo) - 1
  BY <1>14 DEF Advanced
<1>8. Carried(rest, plan)'
  BY <1>2, <1>5, <1>6, Advances
<1>10. k \in 1 .. 6 /\ w = plan[6 - k + 1]
  BY <1>1, <1>7
<1>11. (k = 6 => w = plan[1]) /\ (k = 5 => w = plan[2]) /\ (k = 4 => w = plan[3]) /\ (k = 3 => w = plan[4])
       /\ (k = 2 => w = plan[5]) /\ (k = 1 => w = plan[6])
  <2>1. \A j \in 1 .. 6 : (j = 6 => 6 - j + 1 = 1) /\ (j = 5 => 6 - j + 1 = 2) /\ (j = 4 => 6 - j + 1 = 3) /\ (j = 3 => 6 - j + 1 = 4)
                        /\ (j = 2 => 6 - j + 1 = 5) /\ (j = 1 => 6 - j + 1 = 6)
    OBVIOUS
  <2> QED
    BY <1>10, <2>1
<1> QED
  BY <1>1, <1>2, <1>7, <1>8, <1>10, <1>11 DEF CaseWrite

\* h writes the first of what it has to write.
WriteStep(h, r, y, w) ==
    /\ h \in DOMAIN caseRun /\ r = caseRun[h] /\ CaseJobOK(r) /\ r.at = "write" /\ r.todo # <<>>
    /\ w = r.todo[1] /\ disk' = Backend!Put(disk, w.name, w.body)
    /\ caseRun' = [caseRun EXCEPT ![h] = y]
    /\ DOMAIN y = CaseJobFields /\ y.req = r.req /\ y.jobs = r.jobs /\ y.at = "write" /\ y.copies = r.copies /\ y.held = r.held
    /\ y.todo = Tail(r.todo)
    /\ UNCHANGED <<caseStops, caseLock, caseDb, answered>>

LEMMA WriteRuns ==
  ASSUME CaseInv, NEW h, NEW r, NEW y, NEW w, WriteStep(h, r, y, w), \A q, c : InHead(q, c) => InHead(q, c)', Working(y)'
  PROVE  /\ Own(caseRun)' /\ CaseRunInv'
         /\ Betweens \subseteq {r}
         /\ Between(y) => y \in Betweens'
<1>1. PICK n, b : n = w.name /\ b = w.body
  OBVIOUS
<1>2. disk' = Backend!Put(disk, n, b) /\ caseStops' = caseStops /\ caseLock' = caseLock
  BY <1>1 DEF WriteStep
<1>3. \A x : CaseJobOK(x) /\ x.at # "write" => CaseJobOK(x)'
  BY <1>2, JobGrows
<1>4. /\ \A a : AlertAt(a) => AlertAt(a)'
      /\ \A q, held : Applied(q, held) => Applied(q, held)'
  BY <1>2, Grows
<1>5. CaseJobOK(r) /\ r.at = "write" /\ caseLock
  BY DEF WriteStep, CaseJobOK
<1>6. CaseJobOK(y)'
  BY <1>2, <1>4, <1>5 DEF WriteStep, CaseJobOK, Started
<1>7. h \in DOMAIN caseRun /\ r = caseRun[h] /\ caseRun' = [caseRun EXCEPT ![h] = y]
  BY DEF WriteStep
<1>8. \A x : CaseJobOK(x) /\ (x.at = "write" => caseLock /\ caseRun[h].at # "write") => CaseJobOK(x)' /\ (x.at = "write" => y.at # "write")
  BY <1>3, <1>5, <1>7
<1>9. Own(caseRun) /\ CaseRunInv
  BY DEF CaseInv
<1>10. Own(caseRun)' /\ CaseRunInv'
  BY <1>6, <1>7, <1>8, <1>9, CaseMoves
<1>11. Between(y) => y \in Betweens'
  BY <1>6, <1>7, <1>8, <1>9, CaseMoves
<1>12. Betweens \subseteq {r}
  BY <1>5, <1>7, <1>9 DEF Betweens, Between, CaseRunInv
<1> QED
  BY <1>10, <1>11, <1>12

LEMMA WriteEnds ==
  ASSUME CaseInv, NEW h, NEW r, NEW y, NEW w, WriteStep(h, r, y, w), \A q, c : InHead(q, c) => InHead(q, c)', Working(y)',
         FileOK(w.name)', \A c : HeadAt(c)' => CaseOK(c)'
  PROVE  CaseInv'
<1>1. PICK n, b : n = w.name /\ b = w.body
  OBVIOUS
<1>2. disk' = Backend!Put(disk, n, b) /\ UNCHANGED <<caseStops, caseDb, answered>> /\ FileOK(n)'
  BY <1>1 DEF WriteStep
<1>3. Own(caseRun)' /\ CaseRunInv'
  BY WriteRuns
<1>4. CaseFiles'
  BY <1>2, CaseFilesGrow DEF CaseFiles, CaseInv
<1>5. Rows' /\ Answers'
  BY <1>2, RowsGrow DEF CaseInv
<1> QED
  BY <1>2, <1>3, <1>4, <1>5 DEF CaseInv

\* Between the first and the last of its writes.
LEMMA StillBetween ==
  ASSUME NEW h, NEW r, NEW y, NEW w, WriteStep(h, r, y, w), NEW k \in Nat, Len(y.todo) = k, k \in 1 .. 4
  PROVE  Between(y)
BY DEF WriteStep, Between

LEMMA OtherWrite ==
  ASSUME CaseInv, NEW h, NEW r, NEW y, NEW w, WriteStep(h, r, y, w), w.name[1] \notin {"head", "projection"}, Working(y)', FileOK(w.name)',
         NEW q, q = r.jobs[1], NEW k \in Nat, k = Len(r.todo),
         q.op = "event" => k # 4 /\ (k \in 2 .. 3 => Len(y.todo) = k - 1) /\ (k = 1 => ReceiptAt(q)')
  PROVE  CaseInv'
<1>1. PICK n, b : n = w.name /\ b = w.body
  OBVIOUS
<1>2. disk' = Backend!Put(disk, n, b) /\ caseStops' = caseStops /\ n[1] \notin {"head", "projection"}
  BY <1>1 DEF WriteStep
<1>3. \A c : n # <<"head", c>> /\ n # <<"projection", c>>
  BY <1>2
<1>4. \A c : (HeadAt(c) <=> HeadAt(c)') /\ (HeadAt(c) => HeadOf(c)' = HeadOf(c))
  BY <1>2, <1>3, PutOne DEF HeadAt, HeadOf
<1>5. \A s, c : InHead(s, c) => InHead(s, c)'
  BY <1>4 DEF InHead
<1>6. Betweens \subseteq {r} /\ (Between(y) => y \in Betweens')
  BY <1>5, WriteRuns
<1>7. \A c : ~Ahead(c)
  BY <1>6 DEF Ahead
<1>8. ASSUME NEW s, s.op = "event", Unrecorded(s) PROVE Unrecorded(s)' \/ ReceiptAt(s)'
  <2>1. s = q /\ k \in 1 .. 3
    BY <1>6, <1>8 DEF Unrecorded
  <2>2. CASE k = 1
    BY <1>8, <2>1, <2>2
  <2>3. CASE k \in 2 .. 3
    <3>4. q.op = "event"
      BY <1>8, <2>1
    <3>5. Len(y.todo) = k - 1
      BY <2>3, <3>4
    <3>7. \A j \in 2 .. 3 : j - 1 \in Nat /\ j - 1 \in 1 .. 3 /\ j - 1 \in 1 .. 4
      OBVIOUS
    <3>8. PICK l : l = k - 1
      OBVIOUS
    <3>6. l = k - 1 /\ l \in Nat /\ l \in 1 .. 3 /\ l \in 1 .. 4
      BY <2>3, <3>7, <3>8, Zenon
    <3>1. l \in 1 .. 3 /\ Len(y.todo) = l
      BY <3>5, <3>6
    <3>2. Between(y)
      BY <3>1, <3>6, StillBetween
    <3>3. y \in Betweens' /\ y.jobs[1] = q
      BY <1>6, <3>2 DEF WriteStep
    <3> QED
      BY <2>1, <3>1, <3>3 DEF Unrecorded
  <2> QED
    BY <2>1, <2>2, <2>3
<1>9. ASSUME NEW c, HeadAt(c)' PROVE CaseOK(c)'
  BY <1>2, <1>3, <1>4, <1>7, <1>8, <1>9, CaseGrows
<1> QED
  BY <1>5, <1>9, WriteEnds

LEMMA StillNoWrites == Carried(<<>>, <<>>)'
<1>1. PICK none : none = <<>>
  OBVIOUS
<1>2. Own(none) /\ Len(none) = 0 /\ DOMAIN none = {}
  BY <1>1, EmptySeq DEF Own
<1>3. Carried(none, none)'
  BY <1>2 DEF Carried
<1> QED
  BY <1>1, <1>3

LEMMA WriteReceiptKeeps ==
  ASSUME CaseInv, NEW h, NEW r, NEW y, NEW w, WriteStep(h, r, y, w), NEW q, q = r.jobs[1], Carried(r.todo, ReceiptPlan(q)),
         (q.op = "alert" /\ AlertAt(q.alert)) \/ (q.op = "case" /\ Applied(q, r.held))
  PROVE  CaseInv'
<1>1. PICK todo, n, b : todo = r.todo /\ n = w.name /\ b = w.body
  OBVIOUS
<1>2. /\ todo # <<>> /\ w = todo[1] /\ disk' = Backend!Put(disk, n, b) /\ y.todo = Tail(todo) /\ y.jobs = r.jobs /\ y.held = r.held
  BY <1>1 DEF WriteStep
<1>3. Carried(todo, ReceiptPlan(q)) /\ disk' = Backend!Put(disk, w.name, w.body)
  BY <1>1, <1>2
<1>4. w = Backend!saveReceipt(q)
  BY <1>2, <1>3, ReceiptAdvances
<1>5. Len(todo) = 1
  BY <1>2, <1>3, ReceiptAdvances
<1>6. y.todo = <<>>
  <2>1. PICK rest : rest = Tail(todo)
    OBVIOUS
  <2>2. rest = <<>>
    BY <1>2, <1>3, <2>1, ReceiptAdvances
  <2> QED
    BY <1>2, <2>1, <2>2
<1>7. n = Backend!receiptPath(q) /\ n[1] = "receipt" /\ disk'[n] = q
  BY <1>1, <1>2, <1>4, PutOne DEF Backend!saveReceipt, Backend!Write, Backend!receiptPath
<1>8. \A c : n # <<"head", c>>
  BY <1>7
<1>9. \A s, c : InHead(s, c) => InHead(s, c)'
  BY <1>2, <1>8, PutOne DEF InHead, HeadAt, HeadOf
<1>10. /\ \A a : AlertAt(a) => AlertAt(a)'
       /\ \A c : HeadAt(c) => HeadAt(c)'
       /\ \A s, held : Applied(s, held) => Applied(s, held)'
  BY <1>2, <1>9, Grows
<1>11. Working(y)'
  <2>1. Carried(y.todo, <<>>)'
    BY <1>6, StillNoWrites
  <2>2. y.jobs[1] = q /\ y.held = r.held
    BY <1>2
  <2> QED
    BY <1>10, <2>1, <2>2 DEF Working
<1>12. FileOK(n)'
  BY <1>7, <1>10 DEF FileOK, Applied
<1>13. PICK k : k = 1 /\ k \in Nat /\ k = Len(r.todo)
  BY <1>1, <1>5
<1>14. q.op # "event" /\ w.name[1] \notin {"head", "projection"} /\ FileOK(w.name)'
  BY <1>1, <1>7, <1>12
<1> QED
  BY <1>11, <1>13, <1>14, OtherWrite

LEMMA WriteAlertKeeps ==
  ASSUME CaseInv, NEW h, NEW r, NEW y, NEW w, WriteStep(h, r, y, w), NEW q, q = r.jobs[1], q.op = "alert",
         NEW x, Carried(r.todo, AlertPlan(q, x))
  PROVE  CaseInv'
<1>1. PICK todo, n, b, rest : todo = r.todo /\ n = w.name /\ b = w.body /\ rest = Tail(r.todo)
  OBVIOUS
<1>2. /\ todo # <<>> /\ w = todo[1] /\ disk' = Backend!Put(disk, n, b) /\ y.todo = rest /\ y.jobs = r.jobs /\ y.held = r.held
      /\ rest = Tail(todo)
  BY <1>1 DEF WriteStep
<1>3. Carried(todo, AlertPlan(q, x)) /\ todo # <<>> /\ w = todo[1] /\ disk' = Backend!Put(disk, w.name, w.body) /\ rest = Tail(todo)
  BY <1>1, <1>2
<1>4. Carried(rest, AlertPlan(q, x))'
  BY <1>3, AlertAdvances
<1>18. AlertWrite(q, x, w)
  BY <1>3, AlertAdvances
<1>5. w.name \in {<<"alert", q.alert>>, <<"audit", x>>, <<"audit head">>, Backend!receiptPath(q)}
  BY <1>18 DEF AlertWrite
<1>6. w.name = Backend!receiptPath(q) => w.body = q /\ AlertAt(q.alert)
  BY <1>18 DEF AlertWrite
<1>7. PICK n1, n2, n3, n4 :
        n1 = <<"alert", q.alert>> /\ n2 = <<"audit", x>> /\ n3 = <<"audit head">> /\ n4 = Backend!receiptPath(q)
  OBVIOUS
<1>8. n1[1] = "alert" /\ n2[1] = "audit" /\ n3[1] = "audit head" /\ n4[1] = "receipt" /\ n2 = <<"audit", n2[2]>>
  BY <1>7 DEF Backend!receiptPath
<1>9. n \in {n1, n2, n3, n4} /\ (n = n4 => b = q /\ AlertAt(q.alert))
  BY <1>1, <1>5, <1>6, <1>7
<1>10. n[1] \notin {"head", "projection", "event"}
  BY <1>8, <1>9
<1>11. \A c : n # <<"head", c>>
  BY <1>10
<1>12. \A s, c : InHead(s, c) => InHead(s, c)'
  BY <1>2, <1>11, PutOne DEF InHead, HeadAt, HeadOf
<1>13. \A a : AlertAt(a) => AlertAt(a)'
  BY <1>2, <1>12, Grows
<1>14. Working(y)'
  <2>1. y.jobs[1] = q /\ y.todo = rest
    BY <1>2
  <2>2. Carried(y.todo, AlertPlan(q, x))'
    BY <1>2, <1>4
  <2> QED
    BY <2>1, <2>2 DEF Working
<1>15. FileOK(n)'
  <2>1. disk'[n] = b
    BY <1>2, PutOne
  <2>2. n[1] = "receipt" => disk'[n] = q /\ AlertAt(q.alert)'
    BY <1>8, <1>9, <1>13, <2>1
  <2>3. n[1] = "audit" => n = <<"audit", n[2]>>
    BY <1>8, <1>9
  <2> QED
    BY <1>10, <2>2, <2>3 DEF FileOK
<1>16. PICK k : k \in Nat /\ k = Len(r.todo)
  <2>1. Len(todo) \in Nat
    BY <1>3, OwnDomain DEF Carried
  <2> QED
    BY <1>1, <2>1
<1>17. q.op # "event" /\ w.name[1] \notin {"head", "projection"} /\ FileOK(w.name)'
  BY <1>1, <1>10, <1>15
<1> QED
  BY <1>14, <1>16, <1>17, OtherWrite

\* The event and the projection of a plan still hold together when one of its files is written.
LEMMA ApplyingGrows ==
  ASSUME NEW n, NEW b, disk' = Backend!Put(disk, n, b), caseStops' = caseStops, NEW q, NEW e, NEW p, NEW k \in 1 .. 6,
         Applying(q, e, p, k), k > 4 => n[1] # "head", NEW m, m = k - 1
  PROVE  Applying(q, e, p, m)'
<1>1. Told(q.case, e)'
  BY DEF Applying, Told
<1>2. Backed(q.case, p, e)'
  BY BackedGrows DEF Applying
<1>3. HeadAt(q.case) => HeadAt(q.case)'
  BY PutOne DEF HeadAt
<1>4. ASSUME m > 3
      PROVE  (HeadAt(q.case) <=> HeadAt(q.case)') /\ (HeadAt(q.case) => HeadOf(q.case)' = HeadOf(q.case))
  <2>1. k > 4
    BY <1>4
  <2>2. n # <<"head", q.case>>
    BY <2>1
  <2> QED
    BY <2>2, PutOne DEF HeadAt, HeadOf
<1>5. m > 3 => k > 3
  OBVIOUS
<1> QED
  BY <1>1, <1>2, <1>3, <1>4, <1>5 DEF Applying

\* h writes a file of a case's plan, of which k are left.
CaseWriteStep(h, r, y, w, q, e, p, x, k) ==
    /\ WriteStep(h, r, y, w)
    /\ q = r.jobs[1] /\ e = r.held.event /\ p = r.held.projection
    /\ Applying(q, e, p, k) /\ Carried(r.todo, CasePlan(q, e, p, x)) /\ k = Len(r.todo)

LEMMA CaseStepWrites ==
  ASSUME NEW h, NEW r, NEW y, NEW w, NEW q, NEW e, NEW p, NEW x, NEW k, CaseWriteStep(h, r, y, w, q, e, p, x, k)
  PROVE  CaseWrite(q, e, p, x, w, k) /\ Len(y.todo) = k - 1 /\ k \in 1 .. 6 /\ Working(y)'
<1>1. PICK todo, n, b, rest : todo = r.todo /\ n = w.name /\ b = w.body /\ rest = Tail(r.todo)
  OBVIOUS
<1>2. /\ disk' = Backend!Put(disk, n, b) /\ y.todo = rest /\ y.jobs = r.jobs /\ y.held = r.held /\ caseStops' = caseStops
  BY <1>1 DEF WriteStep, CaseWriteStep
<1>3. /\ Carried(todo, CasePlan(q, e, p, x)) /\ todo # <<>> /\ w = todo[1] /\ disk' = Backend!Put(disk, w.name, w.body) /\ rest = Tail(todo)
      /\ k = Len(todo)
  BY <1>1, <1>2 DEF WriteStep, CaseWriteStep
<1>4. Carried(rest, CasePlan(q, e, p, x))'
  BY <1>3, CaseAdvances
<1>5. CaseWrite(q, e, p, x, w, k)
  BY <1>3, CaseAdvances
<1>6. Len(rest) = k - 1
  BY <1>3, CaseAdvances
<1>7. k \in 1 .. 6 /\ (k > 4 => n[1] # "head")
  <2>1. k \in 1 .. 6
    BY <1>5 DEF CaseWrite
  <2>2. \A j \in 1 .. 6 : j > 4 => j = 5 \/ j = 6
    OBVIOUS
  <2>3. PICK n1, n2 : n1 = <<"event", q.case, e>> /\ n2 = <<"projection", q.case>>
    OBVIOUS
  <2>4. n1[1] # "head" /\ n2[1] # "head"
    BY <2>3
  <2>5. (k = 6 => n = n1) /\ (k = 5 => n = n2)
    BY <1>1, <1>5, <2>3 DEF CaseWrite
  <2> QED
    BY <2>1, <2>2, <2>4, <2>5
<1>8. PICK m : m = k - 1
  OBVIOUS
<1>9. Applying(q, e, p, m)'
  <2>1. Applying(q, e, p, k)
    BY DEF CaseWriteStep
  <2> QED
    BY <1>2, <1>7, <1>8, <2>1, ApplyingGrows
<1>10. y.jobs[1] = q /\ y.held.event = e /\ y.held.projection = p /\ Len(y.todo) = m
  BY <1>1, <1>2, <1>6, <1>8 DEF CaseWriteStep
<1>11. Carried(y.todo, CasePlan(q, e, p, x))'
  BY <1>2, <1>4
<1>12. Working(y)'
  <2>1. q.op \in {"case", "event"}
    BY <1>9 DEF Applying
  <2>2. Applying(y.jobs[1], y.held.event, y.held.projection, Len(y.todo))'
    BY <1>9, <1>10
  <2>3. Carried(y.todo, CasePlan(y.jobs[1], y.held.event, y.held.projection, x))'
    BY <1>10, <1>11
  <2> QED
    BY <2>2, <2>3 DEF Working
<1> QED
  BY <1>5, <1>7, <1>8, <1>10, <1>12

\* What was written before.
LEMMA CaseStepWritten ==
  ASSUME NEW h, NEW r, NEW y, NEW w, NEW q, NEW e, NEW p, NEW x, NEW k, CaseWriteStep(h, r, y, w, q, e, p, x, k)
  PROVE  /\ k <= 5 => EventAt(q.case, e)
         /\ k <= 4 => <<"projection", q.case>> \in DOMAIN disk /\ ProjectionOf(q.case) = p
         /\ k <= 3 => HeadAt(q.case) /\ HeadOf(q.case) = e
<1>1. PICK todo : todo = r.todo
  OBVIOUS
<1>2. Carried(todo, CasePlan(q, e, p, x)) /\ k = Len(todo)
  BY <1>1 DEF CaseWriteStep
<1>3. k <= 5 => EventAt(q.case, e)
  BY <1>2, CaseDone
<1>4. k <= 4 => <<"projection", q.case>> \in DOMAIN disk /\ ProjectionOf(q.case) = p
  BY <1>2, CaseDone
<1>5. k <= 3 => HeadAt(q.case) /\ HeadOf(q.case) = e
  BY <1>2, CaseDone
<1> QED
  BY <1>3, <1>4, <1>5

LEMMA WriteOtherKeeps ==
  ASSUME CaseInv, NEW h, NEW r, NEW y, NEW w, NEW q, NEW e, NEW p, NEW x, NEW k, CaseWriteStep(h, r, y, w, q, e, p, x, k),
         k # 5, k # 4
  PROVE  CaseInv'
<1>1. CaseWrite(q, e, p, x, w, k) /\ Len(y.todo) = k - 1 /\ k \in 1 .. 6 /\ Working(y)'
  BY CaseStepWrites
<1>2. PICK n, b : n = w.name /\ b = w.body
  OBVIOUS
<1>3. disk' = Backend!Put(disk, n, b) /\ caseStops' = caseStops
  BY <1>2 DEF WriteStep, CaseWriteStep
<1>4. disk'[n] = b /\ n \in DOMAIN disk'
  BY <1>3, PutOne
<1>5. PICK n1, n4, n5, n6 :
        n1 = <<"event", q.case, e>> /\ n4 = <<"audit", x>> /\ n5 = <<"audit head">> /\ n6 = Backend!receiptPath(q)
  OBVIOUS
<1>6. /\ n1[1] = "event" /\ n4[1] = "audit" /\ n5[1] = "audit head" /\ n6[1] = "receipt"
      /\ n1[2] = q.case /\ n1[3] = e /\ n4 = <<"audit", n4[2]>>
  BY <1>5 DEF Backend!receiptPath
<1>7. (k = 6 => n = n1) /\ (k = 3 => n = n4) /\ (k = 2 => n = n5) /\ (k = 1 => n = n6 /\ b = q)
  BY <1>1, <1>2, <1>5 DEF CaseWrite
<1>8. k = 6 \/ k = 3 \/ k = 2 \/ k = 1
  BY <1>1
<1>9. n[1] \notin {"head", "projection"}
  BY <1>6, <1>7, <1>8
<1>10. Applying(q, e, p, k) /\ Told(q.case, e)
  BY DEF CaseWriteStep, Applying
<1>11. Told(q.case, e)'
  BY <1>3, <1>10 DEF Told
<1>12. \A c : n # <<"head", c>>
  BY <1>9
<1>13. \A c : (HeadAt(c) <=> HeadAt(c)') /\ (HeadAt(c) => HeadOf(c)' = HeadOf(c))
  BY <1>3, <1>12, PutOne DEF HeadAt, HeadOf
<1>14. k = 1 => HeadAt(q.case)' /\ InHead(q, q.case)'
  <2>1. k = 1 => k <= 3
    OBVIOUS
  <2>2. k = 1 => HeadAt(q.case) /\ HeadOf(q.case) = e
    BY <2>1, CaseStepWritten
  <2>3. e[Len(e)] = q /\ Len(e) \in DOMAIN e
    BY <1>10, OwnFirst DEF Applying, Told
  <2> QED
    BY <1>13, <2>2, <2>3 DEF InHead
<1>15. FileOK(n)'
  <2>1. CASE k = 6
    BY <1>5, <1>6, <1>7, <1>11, <2>1 DEF FileOK
  <2>2. CASE k = 3
    BY <1>6, <1>7, <2>2 DEF FileOK
  <2>3. CASE k = 2
    BY <1>6, <1>7, <2>3 DEF FileOK
  <2>4. CASE k = 1
    <3>1. disk'[n] = q /\ n[1] = "receipt" /\ q.op \in {"case", "event"}
      BY <1>4, <1>6, <1>7, <1>10, <2>4 DEF Applying
    <3> QED
      BY <1>14, <2>4, <3>1 DEF FileOK
  <2> QED
    BY <1>8, <2>1, <2>2, <2>3, <2>4
<1>16. k = 1 => ReceiptAt(q)'
  BY <1>4, <1>5, <1>7 DEF ReceiptAt
<1>17. q = r.jobs[1] /\ k = Len(r.todo) /\ WriteStep(h, r, y, w)
  BY DEF CaseWriteStep
<1>18. k \in Nat
  BY <1>1
<1>19. q.op = "event" => k # 4 /\ (k \in 2 .. 3 => Len(y.todo) = k - 1) /\ (k = 1 => ReceiptAt(q)')
  BY <1>1, <1>16
<1>20. w.name[1] \notin {"head", "projection"} /\ FileOK(w.name)'
  BY <1>2, <1>9, <1>15
<1> QED
  BY <1>1, <1>17, <1>18, <1>19, <1>20, OtherWrite

LEMMA WriteProjectionKeeps ==
  ASSUME CaseInv, NEW h, NEW r, NEW y, NEW w, NEW q, NEW e, NEW p, NEW x, NEW k, CaseWriteStep(h, r, y, w, q, e, p, x, k), k = 5
  PROVE  CaseInv'
<1>1. CaseWrite(q, e, p, x, w, k) /\ Len(y.todo) = k - 1 /\ Working(y)'
  BY CaseStepWrites
<1>2. PICK n, b, c : n = w.name /\ b = w.body /\ c = q.case
  OBVIOUS
<1>3. disk' = Backend!Put(disk, n, b) /\ caseStops' = caseStops /\ n = <<"projection", c>> /\ b = p
  BY <1>1, <1>2 DEF WriteStep, CaseWriteStep, CaseWrite
<1>4. n[1] = "projection" /\ n[2] = c
  BY <1>3
<1>5. \A d : n # <<"head", d>> /\ (d # c => n # <<"projection", d>>)
  BY <1>3
<1>6. \A d : (HeadAt(d) <=> HeadAt(d)') /\ (HeadAt(d) => HeadOf(d)' = HeadOf(d))
  BY <1>3, <1>5, PutOne DEF HeadAt, HeadOf
<1>7. \A s, d : InHead(s, d) => InHead(s, d)'
  BY <1>6 DEF InHead
<1>8. WriteStep(h, r, y, w)
  BY DEF CaseWriteStep
<1>9. Betweens \subseteq {r} /\ (Between(y) => y \in Betweens')
  BY <1>1, <1>7, <1>8, WriteRuns
<1>10. (\A d : ~Ahead(d)) /\ (\A s : ~Unrecorded(s))
  <2>1. PICK m : m = Len(r.todo) /\ m = 5
    BY DEF CaseWriteStep
  <2>2. ~(m \in 1 .. 4) /\ m # 4 /\ ~(m \in 1 .. 3)
    BY <2>1
  <2> QED
    BY <1>9, <2>1, <2>2 DEF Ahead, Unrecorded
<1>11. Between(y) /\ Len(y.todo) = 4
  <2>1. PICK m : m = 4 /\ m \in Nat /\ m \in 1 .. 4
    OBVIOUS
  <2>2. Len(y.todo) = m
    BY <1>1, <2>1
  <2> QED
    BY <1>8, <2>1, <2>2, StillBetween
<1>12. Applying(q, e, p, k) /\ Told(c, e) /\ p.revision = Len(e) /\ DOMAIN p = ProjectionFields /\ Backed(c, p, e)
  <2>1. Applying(q, e, p, k)
    BY DEF CaseWriteStep
  <2> QED
    BY <1>2, <2>1 DEF Applying
<1>13. EventAt(c, e)
  <2>1. k <= 5 => EventAt(q.case, e)
    BY CaseStepWritten, Zenon
  <2>2. k <= 5
    OBVIOUS
  <2> QED
    BY <1>2, <2>1, <2>2
<1>14. ASSUME HeadAt(c) PROVE CaseOK(c)'
  <2>1. PICK f, old : f = HeadOf(c) /\ old = ProjectionOf(c)
    OBVIOUS
  <2>2. CaseOK(c) /\ Told(c, f) /\ Own(f)
    BY <1>14, <2>1, HeadTold DEF CaseInv, Told
  <2>3. q.op = "event" /\ Len(e) = Len(f) + 1
    BY <1>2, <1>12, <1>14, <2>1 DEF Applying
  <2>4. PICK m : m = Len(f) /\ m \in Nat /\ DOMAIN f = 1 .. m
    BY <2>2, OwnDomain
  <2>5. disk'[n] = b /\ n \in DOMAIN disk'
    BY <1>3, PutOne
  <2>6. HeadOf(c)' = f /\ ProjectionOf(c)' = p /\ <<"projection", c>> \in DOMAIN disk'
    BY <1>3, <1>6, <1>14, <2>1, <2>5 DEF ProjectionOf
  <2>7. EventAt(c, f)'
    BY <1>3, <2>1, <2>2, PutOne DEF EventAt, CaseOK
  <2>8. p.revision = m + 1
    BY <1>12, <2>3, <2>4
  <2>9. Ahead(c)'
    <3>1. y.jobs[1] = q
      BY DEF CaseWriteStep, WriteStep
    <3> QED
      BY <1>2, <1>9, <1>11, <2>3, <3>1 DEF Ahead
  <2>10. Backed(c, p, f)'
    <3>1. PICK g : g = <<"event", c, e>> /\ g \in DOMAIN disk
      BY <1>13 DEF EventAt
    <3>2. g[1] = "event" /\ g[2] = c /\ g[3] = e
      BY <3>1
    <3>3. e \in Backend!EventsOf(c)
      BY <3>1, <3>2 DEF Backend!EventsOf, Backend!Named
    <3>4. Backed(c, p, f)
      BY <1>12, <3>3 DEF Backed
    <3> QED
      BY <1>3, <3>4, BackedGrows
  <2>11. ASSUME caseStops < 2, NEW i \in DOMAIN f \ {1} PROVE Spent(f[i], c)'
    <3>1. PICK s : s = f[i]
      OBVIOUS
    <3>2. s.expected \in {i - 1, i} /\ i \in Nat
      BY <2>2, <2>4, <2>11, <3>1 DEF Told
    <3>3. ReceiptAt(s) \/ s.expected < old.revision
      BY <1>10, <2>1, <2>2, <2>11, <3>1 DEF CaseOK, Spent
    <3>4. old.revision \in {m, m + 1}
      BY <2>1, <2>2, <2>4 DEF CaseOK
    <3>5. s.expected \in Int
      BY <3>2
    <3>6. s.expected < old.revision => s.expected < p.revision
      BY <2>4, <2>8, <3>4, <3>5
    <3>7. ReceiptAt(s) => ReceiptAt(s)'
      BY <1>3, PutOne DEF ReceiptAt
    <3>8. Spent(s, c)'
      BY <2>6, <3>3, <3>6, <3>7 DEF Spent
    <3> QED
      BY <3>1, <3>8
  <2>12. caseStops < 2 => \A i \in DOMAIN f \ {1} : Spent(f[i], c)' \/ Unrecorded(f[i])'
    BY <2>11
  <2> QED
    BY <1>3, <1>12, <2>4, <2>6, <2>7, <2>8, <2>9, <2>10, <2>12 DEF CaseOK
<1>15. ASSUME NEW d, HeadAt(d)' PROVE CaseOK(d)'
  <2>1. CASE d = c
    BY <1>6, <1>14, <1>15, <2>1
  <2>2. CASE d # c
    BY <1>3, <1>5, <1>6, <1>10, <1>15, <2>2, CaseGrows
  <2> QED
    BY <2>1, <2>2
<1>16. FileOK(w.name)'
  BY <1>2, <1>4 DEF FileOK
<1> QED
  BY <1>1, <1>7, <1>8, <1>15, <1>16, WriteEnds

LEMMA WriteHeadKeeps ==
  ASSUME CaseInv, NEW h, NEW r, NEW y, NEW w, NEW q, NEW e, NEW p, NEW x, NEW k, CaseWriteStep(h, r, y, w, q, e, p, x, k), k = 4
  PROVE  CaseInv'
<1>1. CaseWrite(q, e, p, x, w, k) /\ Len(y.todo) = k - 1 /\ Working(y)'
  BY CaseStepWrites
<1>2. PICK n, b, c : n = w.name /\ b = w.body /\ c = q.case
  OBVIOUS
<1>3. disk' = Backend!Put(disk, n, b) /\ caseStops' = caseStops /\ n = <<"head", c>> /\ b = e
  BY <1>1, <1>2 DEF WriteStep, CaseWriteStep, CaseWrite
<1>4. n[1] = "head" /\ n = <<"head", n[2]>>
  BY <1>3
<1>5. \A d : n # <<"projection", d>> /\ (d # c => n # <<"head", d>>)
  BY <1>3
<1>6. disk'[n] = b /\ n \in DOMAIN disk'
  BY <1>3, PutOne
<1>7. HeadAt(c)' /\ HeadOf(c)' = e
  BY <1>3, <1>6 DEF HeadAt, HeadOf
<1>8. \A d : d # c => (HeadAt(d) <=> HeadAt(d)') /\ (HeadAt(d) => HeadOf(d)' = HeadOf(d))
  BY <1>3, <1>5, PutOne DEF HeadAt, HeadOf
<1>9. Applying(q, e, p, k) /\ Told(c, e) /\ Own(e) /\ e # <<>> /\ p.revision = Len(e) /\ DOMAIN p = ProjectionFields /\ Backed(c, p, e)
  BY <1>2 DEF CaseWriteStep, Applying, Told
<1>10. PICK f, m, l : f = HeadOf(c) /\ m = Len(f) /\ l = Len(e)
  OBVIOUS
<1>11. l \in Nat /\ DOMAIN e = 1 .. l /\ e[l] = q
  BY <1>9, <1>10, OwnDomain DEF Applying
<1>12. HeadAt(c) => /\ q.op = "event" /\ l = m + 1 /\ m \in Nat /\ DOMAIN f = 1 .. m
                    /\ \A i \in DOMAIN f : e[i] = f[i]
  <2>1. HeadAt(c) => Own(f)
    BY <1>10, HeadTold DEF CaseInv, Told
  <2>2. HeadAt(c) => m \in Nat /\ DOMAIN f = 1 .. m
    BY <1>10, <2>1, OwnDomain
  <2>3. HeadAt(c) => q.op = "event" /\ Len(e) = Len(f) + 1 /\ \A i \in DOMAIN f : e[i] = f[i]
    BY <1>2, <1>9, <1>10 DEF Applying
  <2> QED
    BY <1>10, <2>2, <2>3
<1>13. ASSUME NEW s, NEW d, InHead(s, d) PROVE InHead(s, d)'
  <2>1. CASE d = c
    <3>1. HeadAt(c)
      BY <1>13, <2>1 DEF InHead
    <3>2. PICK i \in DOMAIN f : f[i] = s
      BY <1>10, <1>13, <2>1 DEF InHead
    <3>3. i \in DOMAIN e /\ e[i] = s
      BY <1>11, <1>12, <3>1, <3>2
    <3> QED
      BY <1>7, <2>1, <3>3 DEF InHead
  <2>2. CASE d # c
    BY <1>8, <1>13, <2>2 DEF InHead
  <2> QED
    BY <2>1, <2>2
<1>14. WriteStep(h, r, y, w)
  BY DEF CaseWriteStep
<1>15. Betweens \subseteq {r} /\ (Between(y) => y \in Betweens')
  BY <1>1, <1>13, <1>14, WriteRuns
<1>16. (\A d : d # c => ~Ahead(d)) /\ (\A s : ~Unrecorded(s))
  <2>1. PICK g : g = Len(r.todo) /\ g = 4 /\ r.jobs[1] = q
    BY DEF CaseWriteStep
  <2>2. ~(g \in 1 .. 3)
    BY <2>1
  <2> QED
    BY <1>2, <1>15, <2>1, <2>2 DEF Ahead, Unrecorded
<1>17. Unrecorded(q)'
  <2>1. PICK g : g = 3 /\ g \in Nat /\ g \in 1 .. 4 /\ g \in 1 .. 3
    OBVIOUS
  <2>2. Len(y.todo) = g
    BY <1>1, <2>1
  <2>3. Between(y)
    BY <1>14, <2>1, <2>2, StillBetween
  <2>4. y.jobs[1] = q
    BY DEF CaseWriteStep, WriteStep
  <2> QED
    BY <1>15, <2>1, <2>2, <2>3, <2>4 DEF Unrecorded
<1>18. EventAt(c, e) /\ <<"projection", c>> \in DOMAIN disk /\ ProjectionOf(c) = p
  BY <1>2, CaseStepWritten
<1>19. ProjectionOf(c)' = p /\ <<"projection", c>> \in DOMAIN disk' /\ EventAt(c, e)'
  BY <1>3, <1>5, <1>18, PutOne DEF ProjectionOf, EventAt
<1>20. Backed(c, p, e)'
  BY <1>3, <1>9, BackedGrows
<1>21. ASSUME caseStops < 2, NEW i \in DOMAIN e \ {1} PROVE Spent(e[i], c)' \/ Unrecorded(e[i])'
  <2>1. CASE i = l
    BY <1>11, <1>17, <2>1
  <2>2. CASE i # l
    <3>1. HeadAt(c)
      <4>1. q.op = "case" => l = 1
        BY <1>9, <1>10 DEF Applying
      <4>2. q.op # "case"
        BY <1>11, <1>21, <2>2, <4>1
      <4> QED
        BY <1>2, <1>9, <4>2 DEF Applying
    <3>2. i \in DOMAIN f \ {1} /\ e[i] = f[i]
      BY <1>11, <1>12, <1>21, <2>2, <3>1
    <3>3. PICK s : s = f[i]
      OBVIOUS
    <3>4. ReceiptAt(s) \/ s.expected < p.revision
      BY <1>10, <1>16, <1>18, <1>21, <3>1, <3>2, <3>3, HeadTold DEF CaseOK, Spent, CaseInv
    <3>5. ReceiptAt(s) => ReceiptAt(s)'
      BY <1>3, PutOne DEF ReceiptAt
    <3>6. Spent(s, c)'
      BY <1>19, <3>4, <3>5 DEF Spent
    <3> QED
      BY <3>2, <3>3, <3>6
  <2> QED
    BY <2>1, <2>2
<1>22. CaseOK(c)'
  <2>1. caseStops < 2 => \A i \in DOMAIN e \ {1} : Spent(e[i], c)' \/ Unrecorded(e[i])'
    BY <1>21
  <2> QED
    BY <1>3, <1>7, <1>9, <1>19, <1>20, <2>1 DEF CaseOK
<1>23. ASSUME NEW d, HeadAt(d)' PROVE CaseOK(d)'
  <2>1. CASE d = c
    BY <1>22, <2>1
  <2>2. CASE d # c
    BY <1>3, <1>5, <1>8, <1>16, <1>23, <2>2, CaseGrows
  <2> QED
    BY <2>1, <2>2
<1>24. FileOK(w.name)'
  BY <1>2, <1>4 DEF FileOK
<1> QED
  BY <1>1, <1>13, <1>14, <1>23, <1>24, WriteEnds

LEMMA WriteCaseKeeps ==
  ASSUME CaseInv, NEW h \in DOMAIN caseRun, Backend!writeJSONAtomic(h)
  PROVE  CaseInv'
<1>1. PICK r, y, w, q, k : /\ r = caseRun[h] /\ y = [caseRun[h] EXCEPT !.todo = Tail(@)] /\ w = r.todo[1]
                           /\ q = r.jobs[1] /\ k = Len(r.todo)
  OBVIOUS
<1>2. CaseJobOK(r) /\ r.at = "write" /\ Working(r) /\ DOMAIN r = CaseJobFields /\ r.todo # <<>>
  BY <1>1 DEF Backend!writeJSONAtomic, CaseInv, CaseRunInv, CaseJobOK
<1>3. caseRun' = [caseRun EXCEPT ![h] = y] /\ UNCHANGED <<caseStops, caseLock, caseDb, answered>>
  BY <1>1 DEF Backend!writeJSONAtomic
<1>4. ASSUME Own(r.todo) PROVE WriteStep(h, r, y, w)
  <2>1. Head(r.todo) = w
    BY <1>1, <1>2, <1>4, OwnFirst
  <2>2. disk' = Backend!Put(disk, w.name, w.body)
    BY <1>1, <2>1 DEF Backend!writeJSONAtomic
  <2>3. /\ DOMAIN y = CaseJobFields /\ y.req = r.req /\ y.jobs = r.jobs /\ y.at = "write" /\ y.copies = r.copies /\ y.held = r.held
        /\ y.todo = Tail(r.todo)
    BY <1>1, <1>2 DEF CaseJobFields
  <2> QED
    BY <1>1, <1>2, <1>3, <2>2, <2>3 DEF WriteStep
<1>5. \A plan : Carried(r.todo, plan) => WriteStep(h, r, y, w)
  BY <1>4 DEF Carried
<1>6. ~Carried(r.todo, <<>>)
  <2>1. PICK todo, none : todo = r.todo /\ none = <<>>
    OBVIOUS
  <2>2. ASSUME Carried(todo, none) PROVE FALSE
    <3>1. Own(todo) /\ todo # <<>> /\ Len(todo) <= Len(none)
      BY <1>2, <2>1, <2>2 DEF Carried
    <3>2. Len(todo) \in Nat /\ Len(todo) > 0
      BY <3>1, OwnFirst
    <3>3. Len(none) = 0
      BY <2>1
    <3> QED
      BY <3>1, <3>2, <3>3
  <2> QED
    BY <2>1, <2>2
<1>7. CASE Carried(r.todo, ReceiptPlan(q)) /\ ((q.op = "alert" /\ AlertAt(q.alert)) \/ (q.op = "case" /\ Applied(q, r.held)))
  BY <1>1, <1>5, <1>7, WriteReceiptKeeps
<1>8. ASSUME q.op = "alert", NEW x, Carried(r.todo, AlertPlan(q, x)) PROVE CaseInv'
  BY <1>1, <1>5, <1>8, WriteAlertKeeps
<1>9. ASSUME Applying(q, r.held.event, r.held.projection, k), NEW x, Carried(r.todo, CasePlan(q, r.held.event, r.held.projection, x))
      PROVE  CaseInv'
  <2>1. PICK e, p : e = r.held.event /\ p = r.held.projection
    OBVIOUS
  <2>2. CaseWriteStep(h, r, y, w, q, e, p, x, k)
    BY <1>1, <1>5, <1>9, <2>1 DEF CaseWriteStep
  <2> QED
    BY <2>2, WriteOtherKeeps, WriteProjectionKeeps, WriteHeadKeeps
<1> QED
  BY <1>1, <1>2, <1>6, <1>7, <1>8, <1>9 DEF Working

---------------------------------------------------------------------------
(* The start.                                                              *)

LEMMA Prefix ==
  ASSUME NEW s, Own(s), NEW i \in 1 .. Len(s), NEW e, e = SubSeq(s, 1, i)
  PROVE  Own(e) /\ Len(e) = i /\ e # <<>> /\ DOMAIN e = 1 .. i /\ \A j \in 1 .. i : j \in DOMAIN s /\ e[j] = s[j]
<1>1. PICK S : S = {s[j] : j \in DOMAIN s}
  OBVIOUS
<1>2. Len(s) \in Nat /\ DOMAIN s = 1 .. Len(s)
  BY OwnDomain
<1>3. i \in Nat /\ i > 0 /\ \A j \in 1 .. i : j \in DOMAIN s /\ s[j] \in S
  BY <1>1, <1>2
<1>4. /\ SubSeq(s, 1, i) \in Seq(S)
      /\ Len(SubSeq(s, 1, i)) = IF 1 <= i THEN i - 1 + 1 ELSE 0
      /\ \A j \in 1 .. i - 1 + 1 : SubSeq(s, 1, i)[j] = s[1 + j - 1]
  BY <1>3, SubSeqProperties
<1>5. e \in Seq(S) /\ Len(e) = i /\ \A j \in 1 .. i : e[j] = s[j]
  BY <1>3, <1>4
<1>6. Own(e)
  BY <1>5, Owned
<1>7. DOMAIN e = 1 .. i
  BY <1>5, <1>6, OwnDomain
<1>8. e # <<>>
  BY <1>3, <1>5
<1> QED
  BY <1>3, <1>5, <1>6, <1>7, <1>8

LEMMA WholePrefix ==
  ASSUME NEW s, Own(s) PROVE SubSeq(s, 1, Len(s)) = s
<1>1. PICK S : s \in Seq(S)
  BY DEF Own
<1> QED
  BY <1>1, SubSeqFull

\* The directory of a case that was changed before.
SeedDisk(seed, c) ==
    /\ seed # <<>> /\ c = seed[1].case
    /\ \A n : n \in DOMAIN disk <=> \/ \E a \in seed[1].alerts : n = <<"alert", a>>
                                    \/ \E i \in 1 .. Len(seed) : n = <<"event", c, SubSeq(seed, 1, i)>>
                                    \/ n = <<"projection", c>> \/ n = <<"head", c>> \/ n = <<"audit head">>
                                    \/ \E e : n = <<"audit", e>> /\ e \in caseDb.audit
                                    \/ \E i \in 1 .. Len(seed) : n = Backend!receiptPath(seed[i])
    /\ disk[<<"projection", c>>] = Backend!Replay(seed) /\ disk[<<"head", c>>] = seed
    /\ \A i \in 1 .. Len(seed) : \E j \in 1 .. Len(seed) :
          disk[Backend!receiptPath(seed[i])] = seed[j] /\ Backend!receiptPath(seed[j]) = Backend!receiptPath(seed[i])
    /\ DOMAIN caseDb = {"alerts", "cases", "events", "receipts", "audit"}
    /\ caseDb.alerts = seed[1].alerts /\ caseDb.cases = Backend!Put(<<>>, c, Backend!Replay(seed))
    /\ \A e \in caseDb.events : \E i \in 1 .. Len(seed) : e = <<c, SubSeq(seed, 1, i)>>
    /\ \A q \in answered : \E i \in 1 .. Len(seed) : q = seed[i]

LEMMA SeedStarts ==
  ASSUME Backend!Init
  PROVE  /\ caseRun = <<>> /\ caseStops = 0
         /\ \/ disk = <<>> /\ answered = {} /\ caseDb = Backend!NoTables
            \/ \E seed \in CaseSeeds : \E c : SeedDisk(seed, c)
<1>1. PICK seed \in CaseSeeds : /\ disk = IF seed = <<>> THEN <<>> ELSE Backend!Directory(seed)
                                /\ caseDb = IF seed = <<>> THEN Backend!NoTables ELSE Backend!Tables(seed)
                                /\ answered = Backend!ToSet(seed)
  BY DEF Backend!Init
<1>2. caseRun = <<>> /\ caseStops = 0
  BY DEF Backend!Init
<1>3. CASE seed = <<>>
  <2>1. answered = {}
    BY <1>1, <1>3 DEF Backend!ToSet
  <2> QED
    BY <1>1, <1>2, <1>3, <2>1
<1>4. CASE seed # <<>>
  <2>1. Own(seed)
    BY <1>4, CaseAssumption DEF Backend!ConstantsFit, Backend!SeedFits, Backend!IsSequence, Own
  <2>2. PICK c, m : c = seed[1].case /\ m = Len(seed) /\ m \in Nat /\ DOMAIN seed = 1 .. m
    BY <1>4, <2>1, OwnDomain
  <2>3. DOMAIN disk = Backend!Names(seed)
    BY <1>1, <1>4, Zenon DEF Backend!Directory
  <2>4. /\ \A n \in DOMAIN disk : n[1] = "projection" => disk[n] = Backend!Replay(seed)
        /\ \A n \in DOMAIN disk : n[1] = "head" => disk[n] = seed
        /\ \A n \in DOMAIN disk : n[1] = "receipt" => disk[n] = CHOOSE r \in Backend!ToSet(seed) : Backend!receiptPath(r) = n
    BY <1>1, <1>4 DEF Backend!Directory
  <2>5. caseDb = Backend!Tables(seed)
    BY <1>1, <1>4
  <2>6. /\ caseDb.alerts = seed[1].alerts /\ caseDb.cases = Backend!Put(<<>>, c, Backend!Replay(seed))
        /\ caseDb.events = {<<c, e>> : e \in Backend!Beginnings(seed)} /\ caseDb.audit = Backend!Beginnings(Backend!Trail(seed))
        /\ DOMAIN caseDb = {"alerts", "cases", "events", "receipts", "audit"}
    BY <2>2, <2>5 DEF Backend!Tables
  <2>7. ASSUME NEW n
        PROVE  n \in DOMAIN disk <=> \/ \E a \in seed[1].alerts : n = <<"alert", a>>
                                     \/ \E i \in 1 .. Len(seed) : n = <<"event", c, SubSeq(seed, 1, i)>>
                                     \/ n = <<"projection", c>> \/ n = <<"head", c>> \/ n = <<"audit head">>
                                     \/ \E e : n = <<"audit", e>> /\ e \in caseDb.audit
                                     \/ \E i \in 1 .. Len(seed) : n = Backend!receiptPath(seed[i])
    <3>1. n \in {<<"alert", a>> : a \in seed[1].alerts} <=> \E a \in seed[1].alerts : n = <<"alert", a>>
      BY Zenon
    <3>2. n \in {<<"event", c, e>> : e \in Backend!Beginnings(seed)} <=> \E i \in 1 .. Len(seed) : n = <<"event", c, SubSeq(seed, 1, i)>>
      BY Zenon DEF Backend!Beginnings
    <3>3. n \in {<<"projection", c>>, <<"head", c>>, <<"audit head">>} <=> n = <<"projection", c>> \/ n = <<"head", c>> \/ n = <<"audit head">>
      BY Zenon
    <3>4. n \in {<<"audit", e>> : e \in caseDb.audit} <=> \E e : n = <<"audit", e>> /\ e \in caseDb.audit
      BY Zenon
    <3>5. n \in {Backend!receiptPath(seed[i]) : i \in 1 .. Len(seed)} <=> \E i \in 1 .. Len(seed) : n = Backend!receiptPath(seed[i])
      BY Zenon
    <3>6. n \in DOMAIN disk <=> \/ n \in {<<"alert", a>> : a \in seed[1].alerts}
                               \/ n \in {<<"event", c, e>> : e \in Backend!Beginnings(seed)}
                               \/ n \in {<<"projection", c>>, <<"head", c>>, <<"audit head">>}
                               \/ n \in {<<"audit", e>> : e \in caseDb.audit}
                               \/ n \in {Backend!receiptPath(seed[i]) : i \in 1 .. Len(seed)}
      BY <2>2, <2>3, <2>6, Zenon DEF Backend!Names
    <3> QED
      BY <3>1, <3>2, <3>3, <3>4, <3>5, <3>6, Zenon
  <2>8. disk[<<"projection", c>>] = Backend!Replay(seed) /\ disk[<<"head", c>>] = seed
    <3>1. PICK n1, n2 : n1 = <<"projection", c>> /\ n2 = <<"head", c>>
      OBVIOUS
    <3>2. n1 \in DOMAIN disk /\ n2 \in DOMAIN disk
      BY <2>7, <3>1, Zenon
    <3>3. n1[1] = "projection" /\ n2[1] = "head"
      BY <3>1
    <3> QED
      BY <2>4, <3>1, <3>2, <3>3
  <2>9. ASSUME NEW i \in 1 .. Len(seed)
        PROVE  \E j \in 1 .. Len(seed) :
                 disk[Backend!receiptPath(seed[i])] = seed[j] /\ Backend!receiptPath(seed[j]) = Backend!receiptPath(seed[i])
    <3>1. PICK n : n = Backend!receiptPath(seed[i])
      OBVIOUS
    <3>2. n \in DOMAIN disk
      BY <2>7, <2>9, <3>1, Zenon
    <3>3. n[1] = "receipt"
      BY <3>1 DEF Backend!receiptPath
    <3>4. \E r \in Backend!ToSet(seed) : Backend!receiptPath(r) = n
      BY <2>2, <2>9, <3>1, Zenon DEF Backend!ToSet
    <3>5. disk[n] \in Backend!ToSet(seed) /\ Backend!receiptPath(disk[n]) = n
      BY <2>4, <3>2, <3>3, <3>4, Zenon
    <3> QED
      BY <2>2, <3>1, <3>5, Zenon DEF Backend!ToSet
  <2>10. \A e \in caseDb.events : \E i \in 1 .. Len(seed) : e = <<c, SubSeq(seed, 1, i)>>
    BY <2>6, Zenon DEF Backend!Beginnings
  <2>11. \A q \in answered : \E i \in 1 .. Len(seed) : q = seed[i]
    BY <1>1, <2>2, Zenon DEF Backend!ToSet
  <2>12. SeedDisk(seed, c)
    BY <1>4, <2>2, <2>6, <2>7, <2>8, <2>9, <2>10, <2>11, Zenon DEF SeedDisk
  <2> QED
    BY <1>2, <2>12
<1> QED
  BY <1>3, <1>4

\* what the assumption on the histories says of one
LEMMA SeedKnown ==
  ASSUME NEW seed \in CaseSeeds, seed # <<>>, NEW c, c = seed[1].case, NEW p, p = Backend!Replay(seed)
  PROVE  /\ Own(seed) /\ seed[1].op = "case"
         /\ \A i \in DOMAIN seed \ {1} : seed[i].op = "event" /\ seed[i].case = c /\ seed[i].expected = i - 1
         /\ \A i, j \in DOMAIN seed : Backend!receiptPath(seed[i]) = Backend!receiptPath(seed[j]) => i = j
         /\ DOMAIN p = ProjectionFields /\ p.revision = Len(seed)
         /\ p.proposer # Absent => \E e \in Backend!Beginnings(seed) : Backend!Proposes(e, p.proposed) /\ Backend!Last(e).actor = p.proposer
         /\ p.approved # Absent => \E e, f \in Backend!Beginnings(seed) : Backend!Proposes(e, p.approved) /\ Backend!Approves(f, e)
<1>1. Backend!SeedFits(seed)
  BY CaseAssumption DEF Backend!ConstantsFit
<1>2. DOMAIN Backend!Opened = ProjectionFields
  BY DEF Backend!Opened, ProjectionFields
<1> QED
  BY <1>1, <1>2, Zenon DEF Backend!SeedFits, Backend!IsSequence, Own

\* each beginning of such a history is a history itself
LEMMA SeedTold ==
  ASSUME NEW seed \in CaseSeeds, NEW c, SeedDisk(seed, c), NEW i \in 1 .. Len(seed), NEW e, e = SubSeq(seed, 1, i)
  PROVE  Told(c, e)
<1>1. PICK p : p = Backend!Replay(seed)
  OBVIOUS
<1>2. seed # <<>> /\ c = seed[1].case
  BY DEF SeedDisk
<1>3. Own(seed)
  BY <1>1, <1>2, SeedKnown
<1>4. /\ seed[1].op = "case"
      /\ \A j \in DOMAIN seed \ {1} : seed[j].op = "event" /\ seed[j].case = c /\ seed[j].expected = j - 1
      /\ \A j, k \in DOMAIN seed : Backend!receiptPath(seed[j]) = Backend!receiptPath(seed[k]) => j = k
  BY <1>1, <1>2, SeedKnown
<1>5. Own(e) /\ e # <<>> /\ DOMAIN e = 1 .. i
  BY <1>3, Prefix
<1>6. \A j \in 1 .. i : j \in DOMAIN seed /\ e[j] = seed[j]
  BY <1>3, Prefix
<1>7. i \in Nat /\ 1 \in 1 .. i
  BY <1>3, OwnDomain
<1>8. e[1].op = "case"
  BY <1>4, <1>6, <1>7
<1>9. \A j \in DOMAIN e \ {1} : e[j].op = "event" /\ e[j].case = c /\ e[j].expected = j - 1
  BY <1>4, <1>5, <1>6
<1>10. \A j, k \in DOMAIN e : e[j] = e[k] => j = k
  BY <1>4, <1>5, <1>6
<1> QED
  BY <1>5, <1>8, <1>9, <1>10 DEF Told

LEMMA SeedCase ==
  ASSUME NEW seed \in CaseSeeds, NEW c, SeedDisk(seed, c)
  PROVE  CaseOK(c) /\ Own(seed) /\ HeadAt(c) /\ HeadOf(c) = seed
<1>1. PICK p : p = Backend!Replay(seed)
  OBVIOUS
<1>2. seed # <<>> /\ c = seed[1].case
  BY DEF SeedDisk
<1>3. Own(seed)
  BY <1>1, <1>2, SeedKnown
<1>4. PICK m : m = Len(seed) /\ m \in Nat /\ m > 0 /\ DOMAIN seed = 1 .. m
  BY <1>2, <1>3, OwnFirst
<1>5. /\ \A n : (\E i \in 1 .. Len(seed) : n = <<"event", c, SubSeq(seed, 1, i)>>) => n \in DOMAIN disk
      /\ \A n : (\E i \in 1 .. Len(seed) : n = Backend!receiptPath(seed[i])) => n \in DOMAIN disk
      /\ <<"projection", c>> \in DOMAIN disk /\ <<"head", c>> \in DOMAIN disk
  BY Zenon DEF SeedDisk
<1>6. HeadOf(c) = seed /\ ProjectionOf(c) = p /\ HeadAt(c)
  BY <1>1, <1>5 DEF SeedDisk, HeadOf, ProjectionOf, HeadAt
<1>7. \A i \in 1 .. m : EventAt(c, SubSeq(seed, 1, i)) /\ ReceiptAt(seed[i])
  BY <1>4, <1>5, Zenon DEF EventAt, ReceiptAt
<1>8. EventAt(c, seed)
  <2>1. m \in 1 .. m
    BY <1>4
  <2> QED
    BY <1>3, <1>4, <1>7, <2>1, WholePrefix
<1>9. Backend!Beginnings(seed) \subseteq Backend!EventsOf(c)
  <2>1. ASSUME NEW e, EventAt(c, e) PROVE e \in Backend!EventsOf(c)
    BY <2>1 DEF EventAt, Backend!EventsOf, Backend!Named
  <2> QED
    BY <1>4, <1>7, <2>1, Zenon DEF Backend!Beginnings
<1>10. Backed(c, p, seed)
  <2>1. /\ p.proposer # Absent => \E e \in Backend!Beginnings(seed) : Backend!Proposes(e, p.proposed) /\ Backend!Last(e).actor = p.proposer
        /\ p.approved # Absent => \E e, f \in Backend!Beginnings(seed) : Backend!Proposes(e, p.approved) /\ Backend!Approves(f, e)
    BY <1>1, <1>2, SeedKnown
  <2>2. \A e \in Backend!Beginnings(seed) : e \in Backend!EventsOf(c) \cup {seed}
    BY <1>9
  <2> QED
    BY <2>1, <2>2, Zenon DEF Backed
<1>11. DOMAIN p = ProjectionFields /\ p.revision = m
  BY <1>1, <1>2, <1>4, SeedKnown
<1>12. \A i \in DOMAIN seed \ {1} : Spent(seed[i], c)
  BY <1>4, <1>7 DEF Spent
<1>13. CaseOK(c)
  BY <1>4, <1>5, <1>6, <1>8, <1>10, <1>11, <1>12 DEF CaseOK
<1> QED
  BY <1>3, <1>6, <1>13

LEMMA SeedFiles ==
  ASSUME NEW seed \in CaseSeeds, NEW c, SeedDisk(seed, c)
  PROVE  CaseFiles /\ Rows /\ Answers
<1>1. PICK p : p = Backend!Replay(seed)
  OBVIOUS
<1>2. seed # <<>> /\ c = seed[1].case
  BY DEF SeedDisk
<1>3. CaseOK(c) /\ Own(seed) /\ HeadAt(c) /\ HeadOf(c) = seed
  BY SeedCase
<1>4. PICK m : m = Len(seed) /\ m \in Nat /\ DOMAIN seed = 1 .. m
  BY <1>3, OwnDomain
<1>5. seed[1].op = "case" /\ \A i \in DOMAIN seed \ {1} : seed[i].op = "event" /\ seed[i].case = c
  BY <1>1, <1>2, SeedKnown
<1>6. \A i \in 1 .. m : /\ seed[i].op \in {"case", "event"} /\ seed[i].case = c /\ InHead(seed[i], c)
  BY <1>2, <1>3, <1>4, <1>5 DEF InHead
<1>7. ASSUME NEW n \in DOMAIN disk
      PROVE  \/ \E a \in seed[1].alerts : n = <<"alert", a>>
             \/ \E i \in 1 .. Len(seed) : n = <<"event", c, SubSeq(seed, 1, i)>>
             \/ n = <<"projection", c>> \/ n = <<"head", c>> \/ n = <<"audit head">>
             \/ \E e : n = <<"audit", e>>
             \/ \E i \in 1 .. Len(seed) : n = Backend!receiptPath(seed[i])
  BY <1>7, Zenon DEF SeedDisk
<1>8. ASSUME NEW n \in DOMAIN disk PROVE FileOK(n)
  <2>1. ASSUME NEW a, n = <<"alert", a>> PROVE FileOK(n)
    BY <2>1 DEF FileOK
  <2>2. ASSUME NEW i \in 1 .. Len(seed), n = <<"event", c, SubSeq(seed, 1, i)>> PROVE FileOK(n)
    <3>1. PICK e : e = SubSeq(seed, 1, i) /\ Told(c, e)
      BY SeedTold
    <3>2. n[1] = "event" /\ n[2] = c /\ n[3] = e
      BY <2>2, <3>1
    <3> QED
      BY <2>2, <3>1, <3>2 DEF FileOK
  <2>3. ASSUME NEW d, n = <<"projection", d>> \/ n = <<"head", d>> \/ n = <<"audit", d>> \/ n = <<"audit head">> PROVE FileOK(n)
    <3>1. n = <<"projection", d>> => n[1] = "projection"
      OBVIOUS
    <3>4. n = <<"audit head">> => n[1] = "audit head"
      BY OwnOne, Zenon
    <3>2. n = <<"head", d>> => n[1] = "head" /\ n[2] = d
      OBVIOUS
    <3>3. n = <<"audit", d>> => n[1] = "audit" /\ n[2] = d
      OBVIOUS
    <3> QED
      BY <2>3, <3>1, <3>2, <3>3, <3>4 DEF FileOK
  <2>4. ASSUME NEW i \in 1 .. Len(seed), n = Backend!receiptPath(seed[i]) PROVE FileOK(n)
    <3>1. PICK j \in 1 .. Len(seed) : disk[n] = seed[j]
      BY <2>4, Zenon DEF SeedDisk
    <3>2. PICK q : q = disk[n] /\ q.op \in {"case", "event"} /\ q.case = c /\ InHead(q, c)
      BY <1>4, <1>6, <3>1
    <3>3. n[1] = "receipt"
      BY <2>4 DEF Backend!receiptPath
    <3> QED
      BY <1>3, <3>2, <3>3 DEF FileOK
  <2> QED
    BY <1>7, <2>1, <2>2, <2>3, <2>4, Zenon
<1>9. ASSUME NEW d, HeadAt(d) PROVE d = c
  <2>1. PICK n : n = <<"head", d>> /\ n \in DOMAIN disk
    BY <1>9 DEF HeadAt
  <2>2. \A i \in 1 .. Len(seed) : n # Backend!receiptPath(seed[i])
    BY <2>1 DEF Backend!receiptPath
  <2>3. n = <<"head", c>>
    BY <1>7, <2>1, <2>2
  <2> QED
    BY <2>1, <2>3
<1>10. CaseFiles
  BY <1>3, <1>8, <1>9 DEF CaseFiles
<1>11. Rows
  <2>1. \A k \in DOMAIN caseDb.cases : caseDb.cases[k].revision \in Nat
    <3>1. caseDb.cases = Backend!Put(<<>>, c, p)
      BY <1>1 DEF SeedDisk
    <3>2. p.revision = m
      BY <1>1, <1>2, <1>4, SeedKnown
    <3> QED
      BY <1>4, <3>1, <3>2 DEF Backend!Put
  <2>2. ASSUME NEW e \in caseDb.events PROVE EventAt(e[1], e[2])
    <3>1. PICK i \in 1 .. Len(seed) : e = <<c, SubSeq(seed, 1, i)>>
      BY DEF SeedDisk
    <3>2. <<"event", c, SubSeq(seed, 1, i)>> \in DOMAIN disk
      BY Zenon DEF SeedDisk
    <3> QED
      BY <3>1, <3>2 DEF EventAt
  <2>3. \A a \in caseDb.alerts : AlertAt(a)
    BY Zenon DEF SeedDisk, AlertAt
  <2>4. \A e \in caseDb.audit : <<"audit", e>> \in DOMAIN disk
    BY Zenon DEF SeedDisk
  <2>5. DOMAIN caseDb = {"alerts", "cases", "events", "receipts", "audit"}
    BY DEF SeedDisk
  <2> QED
    BY <2>1, <2>2, <2>3, <2>4, <2>5 DEF Rows, RowsOK
<1>12. Answers
  <2>1. ASSUME NEW q \in answered PROVE InHead(q, q.case)
    <3>1. PICK i \in 1 .. Len(seed) : q = seed[i]
      BY DEF SeedDisk
    <3> QED
      BY <1>4, <1>6, <3>1
  <2> QED
    BY <2>1 DEF Answers
<1> QED
  BY <1>10, <1>11, <1>12

LEMMA CaseStart ==
  ASSUME Backend!Init PROVE CaseInv
<1>1. caseRun = <<>> /\ caseStops = 0
  BY SeedStarts
<1>2. caseStops \in Nat /\ Own(caseRun) /\ CaseRunInv
  <2>1. Own(<<>>)
    BY OwnOne, Zenon
  <2>3. DOMAIN <<>> = {}
    OBVIOUS
  <2>2. CaseRunInv
    BY <1>1, <2>3 DEF CaseRunInv
  <2> QED
    BY <1>1, <2>1, <2>2
<1>3. CASE disk = <<>> /\ answered = {} /\ caseDb = Backend!NoTables
  <2>1. DOMAIN disk = {}
    BY <1>3
  <2>2. CaseFiles /\ Answers
    BY <1>3, <2>1 DEF CaseFiles, HeadAt, Answers
  <2>3. Rows
    BY <1>3 DEF Rows, RowsOK, Backend!NoTables
  <2> QED
    BY <1>2, <2>2, <2>3 DEF CaseInv
<1>4. ASSUME NEW seed \in CaseSeeds, NEW c, SeedDisk(seed, c) PROVE CaseInv
  BY <1>2, <1>4, SeedFiles DEF CaseInv
<1> QED
  BY <1>3, <1>4, SeedStarts

---------------------------------------------------------------------------
(* Every step, and what the invariant says.                                *)

LEMMA CaseStep ==
  ASSUME CaseInv, [Backend!Next]_Backend!vars
  PROVE  CaseInv' /\ RowsFollow(caseDb')
<1>1. caseDb' = caseDb => RowsFollow(caseDb')
  BY DEF CaseInv, Rows, RowsOK, RowsFollow
<1>2. CASE UNCHANGED Backend!vars
  BY <1>1, <1>2, SameCases DEF Backend!vars
<1>3. ASSUME NEW req \in CaseRequests, Backend!Send(req) PROVE CaseInv' /\ RowsFollow(caseDb')
  BY <1>1, <1>3, SendCaseKeeps DEF Backend!Send
<1>4. ASSUME NEW h \in DOMAIN caseRun
      PROVE  /\ Backend!Lock(h) \/ Backend!GiveUp(h) \/ Backend!writeJSONAtomic(h) \/ Backend!Unlock(h) \/ Backend!BatchReceipt(h)
                => CaseInv' /\ RowsFollow(caseDb')
             /\ Backend!Persist(h) \/ Backend!PersistFails(h) \/ Backend!SyncAudit(h) => CaseInv' /\ RowsFollow(caseDb')
  <2>1. Backend!Lock(h) => CaseInv' /\ RowsFollow(caseDb')
    BY <1>1, LockCaseKeeps DEF Backend!Lock
  <2>2. Backend!GiveUp(h) => CaseInv' /\ RowsFollow(caseDb')
    BY <1>1, CaseGiveUpKeeps DEF Backend!GiveUp
  <2>3. Backend!writeJSONAtomic(h) => CaseInv' /\ RowsFollow(caseDb')
    BY <1>1, WriteCaseKeeps DEF Backend!writeJSONAtomic
  <2>4. Backend!Unlock(h) => CaseInv' /\ RowsFollow(caseDb')
    BY <1>1, UnlockCaseKeeps DEF Backend!Unlock
  <2>5. Backend!BatchReceipt(h) => CaseInv' /\ RowsFollow(caseDb')
    BY <1>1, BatchReceiptKeeps DEF Backend!BatchReceipt
  <2>6. Backend!Persist(h) \/ Backend!PersistFails(h) => CaseInv' /\ RowsFollow(caseDb')
    BY PersistCaseKeeps
  <2>7. Backend!SyncAudit(h) => CaseInv' /\ RowsFollow(caseDb')
    BY SyncAuditKeeps
  <2> QED
    BY <2>1, <2>2, <2>3, <2>4, <2>5, <2>6, <2>7
<1>5. Backend!Stop => CaseInv' /\ RowsFollow(caseDb')
  BY <1>1, StopCaseKeeps DEF Backend!Stop
<1>6. Backend!RemoveLock => CaseInv' /\ RowsFollow(caseDb')
  BY <1>1, RemoveLockCaseKeeps DEF Backend!RemoveLock
<1> QED
  BY <1>2, <1>3, <1>4, <1>5, <1>6 DEF Backend!Next

LEMMA CaseGoal ==
  ASSUME CaseInv PROVE AppliedOnce
<1>1. ASSUME NEW n \in Backend!Named("event"), NEW i \in 1 .. Len(n[3]), NEW j \in 1 .. Len(n[3]), n[3][i] = n[3][j], i < j
      PROVE  caseStops > 1 /\ j = i + 1
  <2>1. n \in DOMAIN disk /\ n[1] = "event"
    BY DEF Backend!Named
  <2>2. PICK c, e : c = n[2] /\ e = n[3] /\ Told(c, e)
    BY <2>1 DEF CaseInv, CaseFiles, FileOK
  <2>3. Own(e) /\ e[1].op = "case"
    BY <2>2 DEF Told
  <2>4. \A k \in DOMAIN e \ {1} : e[k].op = "event" /\ e[k].expected \in {k - 1, k}
    BY <2>2 DEF Told
  <2>5. PICK m : m = Len(e) /\ m \in Nat /\ DOMAIN e = 1 .. m
    BY <2>3, OwnDomain
  <2>6. i \in DOMAIN e /\ j \in DOMAIN e /\ e[i] = e[j] /\ i \in Nat /\ j \in Nat
    BY <1>1, <2>2, <2>5
  <2>7. e[j].op = "event" /\ e[j].expected \in {j - 1, j}
    BY <1>1, <2>4, <2>5, <2>6
  <2>8. i # 1
    BY <2>3, <2>6, <2>7
  <2>9. e[j].expected \in {i - 1, i}
    BY <2>4, <2>6, <2>8
  <2>10. j = i + 1
    BY <1>1, <2>6, <2>7, <2>9
  <2>11. caseStops \in Nat /\ ~(caseStops < 2)
    BY <1>1, <2>2, <2>6 DEF Told, CaseInv
  <2> QED
    BY <2>10, <2>11
<1>2. ASSUME NEW req \in answered, req.op = "event" PROVE req \in Backend!ToSet(disk[<<"head", req.case>>])
  <2>1. InHead(req, req.case)
    BY <1>2 DEF CaseInv, Answers
  <2> QED
    BY <2>1, Zenon DEF InHead, HeadOf, Backend!ToSet
<1>3. ASSUME NEW c \in Backend!Cases, NEW approved, approved = disk[<<"projection", c>>].approved, approved # Absent
      PROVE  \E e, f \in Backend!EventsOf(c) : Backend!Proposes(e, approved) /\ Backend!Approves(f, e)
  <2>1. PICK n \in DOMAIN disk : n[1] = "head" /\ n[2] = c
    BY DEF Backend!Cases, Backend!Named
  <2>2. n = <<"head", c>>
    BY <2>1 DEF CaseInv, CaseFiles, FileOK
  <2>3. CaseOK(c)
    BY <2>2 DEF HeadAt, CaseInv, CaseFiles
  <2>4. PICK x : x = HeadOf(c) /\ <<"event", c, x>> \in DOMAIN disk
    BY <2>3 DEF CaseOK, EventAt
  <2>5. x \in Backend!EventsOf(c)
    <3>1. PICK m : m = <<"event", c, x>>
      OBVIOUS
    <3>2. m \in DOMAIN disk /\ m[1] = "event" /\ m[2] = c /\ m[3] = x
      BY <2>4, <3>1
    <3> QED
      BY <3>2 DEF Backend!EventsOf, Backend!Named
  <2>6. Backed(c, ProjectionOf(c), x)
    BY <2>3, <2>4 DEF CaseOK
  <2>7. Backend!EventsOf(c) \cup {x} = Backend!EventsOf(c)
    BY <2>5
  <2> QED
    BY <1>3, <2>6, <2>7 DEF Backed, ProjectionOf
<1> QED
  BY <1>1, <1>2, <1>3 DEF AppliedOnce, Backend!AppliedOnce

\* a step leaves the rows as the directory has them
LEMMA RowsGoal ==
  ASSUME CaseInv', RowsFollow(caseDb')
  PROVE  /\ \A c \in DOMAIN caseDb.cases : caseDb'.cases[c].revision >= caseDb.cases[c].revision
         /\ \A e \in caseDb'.events : <<"event", e[1], e[2]>> \in DOMAIN disk'
         /\ \A a \in caseDb'.alerts : <<"alert", a>> \in DOMAIN disk'
         /\ \A e \in caseDb'.audit : <<"audit", e>> \in DOMAIN disk'
BY DEF CaseInv, Rows, RowsOK, EventAt, AlertAt, RowsFollow

(***************************************************************************)
(* AppliedOnce holds of every case the Store keeps, whatever requests      *)
(* ApplyCaseEvent is sent, in whatever order the handlers take the lock,   *)
(* and wherever the process stops between two of its files.                *)
(***************************************************************************)
THEOREM CasesSound == Backend!Spec => []AppliedOnce
<1>1. Backend!Init => CaseInv
  BY CaseStart
<1>2. CaseInv /\ [Backend!Next]_Backend!vars => CaseInv'
  BY CaseStep
<1>3. CaseInv => AppliedOnce
  BY CaseGoal
<1> QED
  BY <1>1, <1>2, <1>3, PTL DEF Backend!Spec

(***************************************************************************)
(* DatabaseFollows: PersistCase, PersistAlert and SyncAudit, at whatever   *)
(* time after the lock was released, copy only what the directory has and  *)
(* take no case back to an earlier revision.                               *)
(***************************************************************************)
THEOREM DatabaseSound == Backend!Spec => DatabaseFollows
<1>1. Backend!Init => CaseInv
  BY CaseStart
<1>2. CaseInv /\ [Backend!Next]_Backend!vars => CaseInv'
  BY CaseStep
<1>3. CaseInv /\ CaseInv' /\ [Backend!Next]_Backend!vars =>
        [/\ \A c \in DOMAIN caseDb.cases : caseDb'.cases[c].revision >= caseDb.cases[c].revision
         /\ \A e \in caseDb'.events : <<"event", e[1], e[2]>> \in DOMAIN disk'
         /\ \A a \in caseDb'.alerts : <<"alert", a>> \in DOMAIN disk'
         /\ \A e \in caseDb'.audit : <<"audit", e>> \in DOMAIN disk']_Backend!vars
  BY CaseStep, RowsGoal
<1> QED
  BY <1>1, <1>2, <1>3, PTL DEF Backend!Spec, DatabaseFollows, Backend!DatabaseFollows
=============================================================================
