---------------------------- MODULE ReviewProofs ----------------------------
(***************************************************************************)
(* Proofs about the services at the edges of a review, for any profiles    *)
(* and sources, any registries, tokens and routes, any corpus and models,  *)
(* any number of requests at a time, and any number of stops and faults.   *)
(***************************************************************************)
EXTENDS ReviewServices, SequencesExt, FiniteSetTheorems, SequenceTheorems, TLAPS

---------------------------------------------------------------------------
(* Sequences.                                                              *)

\* Where the elements of a sequence were before its h-th was removed.
Before(h, i) == IF i < h THEN i ELSE i + 1

LEMMA Removed ==
  ASSUME NEW S, NEW s \in Seq(S), NEW h \in DOMAIN s
  PROVE  /\ RemoveAt(s, h) \in Seq(S) /\ Len(RemoveAt(s, h)) = Len(s) - 1
         /\ \A i \in DOMAIN RemoveAt(s, h) :
              /\ Before(h, i) \in DOMAIN s /\ Before(h, i) # h
              /\ RemoveAt(s, h)[i] = s[Before(h, i)]
<1>1. Len(s) \in Nat /\ DOMAIN s = 1 .. Len(s) /\ h \in 1 .. Len(s) /\ \A i \in 1 .. Len(s) : s[i] \in S
  BY LenProperties, ElementOfSeq
<1>2. PICK n : n = Len(s)
  OBVIOUS
<1>3. PICK a, b : a = SubSeq(s, 1, h - 1) /\ b = SubSeq(s, h + 1, n)
  OBVIOUS
<1>4. a \in Seq(S) /\ Len(a) = h - 1 /\ \A i \in 1 .. h - 1 : a[i] = s[i]
  <2>1. /\ SubSeq(s, 1, h - 1) \in Seq(S)
        /\ Len(SubSeq(s, 1, h - 1)) = IF 1 <= h - 1 THEN (h - 1) - 1 + 1 ELSE 0
        /\ \A i \in 1 .. (h - 1) - 1 + 1 : SubSeq(s, 1, h - 1)[i] = s[1 + i - 1]
    BY <1>1, SubSeqProperties
  <2> QED
    BY <1>1, <1>3, <2>1
<1>5. b \in Seq(S) /\ Len(b) = n - h /\ \A i \in 1 .. n - h : b[i] = s[h + i]
  <2>1. /\ SubSeq(s, h + 1, n) \in Seq(S)
        /\ Len(SubSeq(s, h + 1, n)) = IF h + 1 <= n THEN n - (h + 1) + 1 ELSE 0
        /\ \A i \in 1 .. n - (h + 1) + 1 : SubSeq(s, h + 1, n)[i] = s[(h + 1) + i - 1]
    BY <1>1, <1>2, SubSeqProperties
  <2>2. b = SubSeq(s, h + 1, n) /\ h \in 1 .. n /\ n \in Nat
    BY <1>1, <1>2, <1>3
  <2>3. b \in Seq(S) /\ Len(b) = n - h
    BY <2>1, <2>2
  <2>4. ASSUME NEW i \in 1 .. n - h PROVE b[i] = s[h + i]
    <3>1. i \in 1 .. n - (h + 1) + 1 /\ (h + 1) + i - 1 = h + i
      BY <2>2
    <3>2. b[i] = s[(h + 1) + i - 1]
      BY <2>1, <2>2, <3>1
    <3> QED
      BY <3>1, <3>2
  <2> QED
    BY <2>3, <2>4
<1>0. /\ a \o b \in Seq(S) /\ Len(a \o b) = Len(a) + Len(b)
      /\ \A i \in 1 .. Len(a) + Len(b) : (a \o b)[i] = IF i <= Len(a) THEN a[i] ELSE b[i - Len(a)]
  BY <1>4, <1>5, ConcatProperties
<1>9. PICK r : r = a \o b /\ r = RemoveAt(s, h)
  BY <1>2, <1>3 DEF RemoveAt
<1>6. /\ r \in Seq(S) /\ Len(r) = Len(a) + Len(b)
      /\ \A i \in 1 .. Len(a) + Len(b) : r[i] = IF i <= Len(a) THEN a[i] ELSE b[i - Len(a)]
  BY <1>0, <1>9
<1>7. DOMAIN r = 1 .. (n - 1)
  BY <1>1, <1>2, <1>4, <1>5, <1>6, LenProperties
<1>8. ASSUME NEW i \in 1 .. (n - 1)
      PROVE  Before(h, i) \in 1 .. n /\ Before(h, i) # h /\ r[i] = s[Before(h, i)]
  <2>0. h \in Int /\ n \in Int /\ i \in Int /\ 1 <= h /\ h <= n /\ 1 <= i /\ i <= n - 1
        /\ Len(a) = h - 1 /\ Len(a) + Len(b) = n - 1
    BY <1>1, <1>2, <1>4, <1>5
  <2>1. CASE i < h
    <3>1. r[i] = a[i] /\ a[i] = s[i]
      BY <1>4, <1>6, <2>0, <2>1
    <3> QED
      BY <2>0, <2>1, <3>1 DEF Before
  <2>2. CASE ~(i < h)
    <3>1. r[i] = b[i - (h - 1)]
      BY <1>6, <2>0, <2>2
    <3>2. i - (h - 1) \in 1 .. n - h /\ h + (i - (h - 1)) = i + 1
      BY <2>0, <2>2
    <3>3. b[i - (h - 1)] = s[i + 1]
      BY <1>5, <3>2
    <3> QED
      BY <2>0, <2>2, <3>1, <3>3 DEF Before
  <2> QED
    BY <2>1, <2>2
<1>10. Len(r) = n - 1
  BY <1>1, <1>2, <1>4, <1>5, <1>6
<1> QED
  BY <1>1, <1>2, <1>6, <1>7, <1>8, <1>9, <1>10

\* A sequence, whatever its elements are.
Own(s) == s \in Seq({s[i] : i \in DOMAIN s})

LEMMA Owned ==
  ASSUME NEW S, NEW s \in Seq(S) PROVE Own(s)
<1>1. PICK n \in Nat : n = Len(s) /\ DOMAIN s = 1 .. n /\ s = [i \in 1 .. n |-> s[i]]
  BY LenProperties
<1>2. \A i \in 1 .. n : s[i] \in {s[k] : k \in DOMAIN s}
  BY <1>1
<1> QED
  BY <1>1, <1>2, IsASeq DEF Own

LEMMA OwnDomain ==
  ASSUME NEW s, Own(s) PROVE Len(s) \in Nat /\ DOMAIN s = 1 .. Len(s)
BY LenProperties DEF Own

LEMMA OwnEnds ==
  ASSUME NEW s, Own(s), NEW h \in DOMAIN s, NEW t, t = RemoveAt(s, h)
  PROVE  /\ Own(t)
         /\ \A i \in DOMAIN t : Before(h, i) \in DOMAIN s /\ Before(h, i) # h /\ t[i] = s[Before(h, i)]
         /\ \A i, j \in DOMAIN t : Before(h, i) = Before(h, j) => i = j
         /\ \A k \in DOMAIN s \ {h} : \E i \in DOMAIN t : Before(h, i) = k
<1>1. PICK S : S = {s[i] : i \in DOMAIN s} /\ s \in Seq(S)
  BY DEF Own
<1>2. /\ RemoveAt(s, h) \in Seq(S)
      /\ \A i \in DOMAIN RemoveAt(s, h) :
           Before(h, i) \in DOMAIN s /\ Before(h, i) # h /\ RemoveAt(s, h)[i] = s[Before(h, i)]
  BY <1>1, Removed, Zenon
<1>3. t \in Seq(S) /\ \A i \in DOMAIN t : Before(h, i) \in DOMAIN s /\ Before(h, i) # h /\ t[i] = s[Before(h, i)]
  BY <1>2
<1>4. Own(t)
  BY <1>3, Owned
<1>5. DOMAIN t = 1 .. Len(t) /\ Len(t) \in Nat /\ DOMAIN s = 1 .. Len(s) /\ Len(s) \in Nat
  BY <1>1, <1>3, LenProperties
<1>6. Len(t) = Len(s) - 1
  BY <1>1, Removed, Zenon
<1>7. ASSUME NEW k \in DOMAIN s \ {h} PROVE \E i \in DOMAIN t : Before(h, i) = k
  <2>1. CASE k < h
    BY <2>1, <1>5, <1>6 DEF Before
  <2>2. CASE k > h
    <3>1. k - 1 \in DOMAIN t /\ Before(h, k - 1) = k
      BY <2>2, <1>5, <1>6 DEF Before
    <3> QED
      BY <3>1
  <2> QED
    BY <2>1, <2>2, <1>5
<1> QED
  BY <1>3, <1>4, <1>5, <1>7 DEF Before

LEMMA OwnMoves ==
  ASSUME NEW s, Own(s), NEW h \in DOMAIN s, NEW y, NEW t, t = [s EXCEPT ![h] = y]
  PROVE  Own(t) /\ DOMAIN t = DOMAIN s /\ t[h] = y /\ \A i \in DOMAIN s \ {h} : t[i] = s[i]
<1>1. PICK S : S = {s[i] : i \in DOMAIN s} \cup {y}
  OBVIOUS
<1>2. s \in Seq(S) /\ y \in S
  BY <1>1, SeqMonotonic, Zenon DEF Own
<1>3. t \in Seq(S) /\ DOMAIN t = DOMAIN s /\ t[h] = y /\ \A i \in DOMAIN s \ {h} : t[i] = s[i]
  BY <1>2, ExceptSeq, LenProperties
<1> QED
  BY <1>3, Owned

LEMMA OwnBegins ==
  ASSUME NEW s, Own(s), NEW y, NEW t, t = Append(s, y), NEW n, n = Len(s)
  PROVE  /\ Own(t) /\ n \in Nat /\ DOMAIN s = 1 .. n /\ DOMAIN t = 1 .. n + 1
         /\ t[n + 1] = y /\ \A i \in 1 .. n : t[i] = s[i]
<1>1. PICK S : S = {s[i] : i \in DOMAIN s} \cup {y}
  OBVIOUS
<1>2. s \in Seq(S) /\ y \in S
  BY <1>1, SeqMonotonic, Zenon DEF Own
<1>3. /\ t \in Seq(S) /\ n \in Nat /\ DOMAIN s = 1 .. n /\ DOMAIN t = 1 .. n + 1
      /\ t[n + 1] = y /\ \A i \in 1 .. n : t[i] = s[i]
  BY <1>2, AppendProperties, LenProperties
<1> QED
  BY <1>3, Owned

---------------------------------------------------------------------------
(* The access control and its audit: reviewauth.                           *)

Outcomes == {"allowed", "denied"}
EventRecords == [id : Nat, outcome : Outcomes, after : Seq(Nat)]
CallRecords(T) == [id : Nat, claims : T, route : Routes, outcome : Outcomes,
                   at : {"handle", "lock", "append", "unlock"}, todo : Seq(EventRecords)]

EventIds == {events[i].id : i \in DOMAIN events}

\* what Parse found out about a token stands as long as the process has its registry
Entitled(c) ==
    LET r == Registries[registry] IN
    /\ c.user \in DOMAIN r.users /\ r.users[c.user].active /\ r.users[c.user].epoch = c.epoch
    /\ Access!RolesFor(r, c.user, c.tenant) = c.roles

\* a request: what it was found to be, what of it is in the audit, what it read of the audit
CallOK(x) ==
    /\ x.id <= sent
    /\ x.at = "handle" => Entitled(x.claims)
    /\ x.at # "unlock" => x.id \notin EventIds
    /\ x.at \in {"append", "unlock"} => auditLock
    /\ x.at = "append" => x.todo = events
    /\ x.at # "handle" /\ x.outcome = "allowed" => x.id \in owed

\* no two requests are one, and one at a time is past the lock
Apart(x, y) == x.id # y.id /\ ~(x.at \in {"append", "unlock"} /\ y.at \in {"append", "unlock"})

AccessTyped == /\ sent \in Nat /\ events \in Seq(EventRecords) /\ calls \in Seq(CallRecords(tokens))
               /\ \A c \in tokens : c.roles # {}
CallsInv == /\ \A i \in DOMAIN calls : CallOK(calls[i])
            /\ \A i, j \in DOMAIN calls : i # j => Apart(calls[i], calls[j])
TrailInv == /\ Access!AuditIsOneChain
            /\ \A n \in EventIds : n <= sent
AccessInv == AccessTyped /\ CallsInv /\ TrailInv /\ Access!ServedIsEntitled

---------------------------------------------------------------------------
LEMMA AccessStart ==
  ASSUME Access!Init PROVE AccessInv
<1>1. calls = <<>> /\ events = <<>> /\ tokens = {} /\ served = {} /\ sent = 0
  BY DEF Access!Init
<1>2. DOMAIN calls = {} /\ DOMAIN events = {} /\ Len(events) = 0 /\ calls \in Seq(CallRecords(tokens)) /\ events \in Seq(EventRecords)
  BY <1>1, EmptySeq
<1>3. AccessTyped
  BY <1>1, <1>2 DEF AccessTyped
<1>4. CallsInv
  BY <1>2 DEF CallsInv
<1>5. TrailInv
  BY <1>2 DEF TrailInv, EventIds, Access!AuditIsOneChain, Access!Verify
<1> QED
  BY <1>1, <1>3, <1>4, <1>5 DEF AccessInv, Access!ServedIsEntitled

\* What a request's steps use of it.
LEMMA CallFacts ==
  ASSUME AccessTyped, CallsInv, NEW h \in DOMAIN calls
  PROVE  /\ calls[h] \in CallRecords(tokens) /\ CallOK(calls[h])
         /\ \A i \in DOMAIN calls \ {h} : calls[i] \in CallRecords(tokens) /\ CallOK(calls[i]) /\ Apart(calls[i], calls[h])
<1>1. \A i \in DOMAIN calls : calls[i] \in CallRecords(tokens)
  BY ElementOfSeq, LenProperties DEF AccessTyped
<1> QED
  BY <1>1 DEF CallsInv

\* A request is over.
LEMMA CallEnds ==
  ASSUME AccessTyped, CallsInv, tokens' = tokens,
         NEW h \in DOMAIN calls, calls' = Access!Ended(h),
         \A x \in CallRecords(tokens) : CallOK(x) /\ Apart(x, calls[h]) => CallOK(x)'
  PROVE  CallsInv' /\ calls' \in Seq(CallRecords(tokens))
<1>1. calls \in Seq(CallRecords(tokens)) /\ calls' = RemoveAt(calls, h)
  BY DEF AccessTyped, Access!Ended, Access!RemoveAt, RemoveAt
<1>2. PICK next : next = calls'
  OBVIOUS
<1>3. /\ next \in Seq(CallRecords(tokens))
      /\ \A i \in DOMAIN next : Before(h, i) \in DOMAIN calls /\ Before(h, i) # h /\ next[i] = calls[Before(h, i)]
  <2>1. PICK old, T : old = calls /\ T = CallRecords(tokens)
    OBVIOUS
  <2>2. old \in Seq(T) /\ h \in DOMAIN old /\ next = RemoveAt(old, h)
    BY <1>1, <1>2, <2>1
  <2>3. /\ RemoveAt(old, h) \in Seq(T)
        /\ \A i \in DOMAIN RemoveAt(old, h) :
             Before(h, i) \in DOMAIN old /\ Before(h, i) # h /\ RemoveAt(old, h)[i] = old[Before(h, i)]
    BY <2>2, Removed, Zenon
  <2> QED
    BY <2>1, <2>2, <2>3
<1>4. \A i \in DOMAIN next : CallOK(next[i])'
  BY <1>3, CallFacts
<1>5. ASSUME NEW i \in DOMAIN next, NEW j \in DOMAIN next, i # j PROVE Apart(next[i], next[j])
  <2>1. DOMAIN next = 1 .. Len(next) /\ Len(next) \in Nat /\ DOMAIN calls = 1 .. Len(calls) /\ Len(calls) \in Nat
    BY <1>1, <1>3, LenProperties
  <2>2. Before(h, i) # Before(h, j)
    BY <2>1, <1>5 DEF Before
  <2> QED
    BY <1>3, <2>2 DEF CallsInv
<1> QED
  BY <1>2, <1>3, <1>4, <1>5 DEF CallsInv

\* A request moves on.
LEMMA CallMoves ==
  ASSUME AccessTyped, CallsInv, tokens' = tokens,
         NEW h \in DOMAIN calls, NEW y \in CallRecords(tokens), calls' = [calls EXCEPT ![h] = y], CallOK(y)',
         \A x \in CallRecords(tokens) : CallOK(x) /\ Apart(x, calls[h]) => CallOK(x)' /\ Apart(x, y) /\ Apart(y, x)
  PROVE  CallsInv' /\ calls' \in Seq(CallRecords(tokens))
<1>1. calls \in Seq(CallRecords(tokens))
  BY DEF AccessTyped
<1>2. PICK next : next = calls'
  OBVIOUS
<1>3. next \in Seq(CallRecords(tokens)) /\ DOMAIN next = DOMAIN calls
      /\ next[h] = y /\ \A i \in DOMAIN calls \ {h} : next[i] = calls[i]
  BY <1>1, <1>2, ExceptSeq, LenProperties
<1>4. \A i \in DOMAIN next : CallOK(next[i])'
  BY <1>3, CallFacts
<1>5. ASSUME NEW i \in DOMAIN next, NEW j \in DOMAIN next, i # j PROVE Apart(next[i], next[j])
  BY <1>3, <1>5, CallFacts DEF CallsInv
<1> QED
  BY <1>2, <1>3, <1>4, <1>5 DEF CallsInv

\* A request begins.
LEMMA CallBegins ==
  ASSUME AccessTyped, CallsInv, tokens' = tokens,
         NEW y \in CallRecords(tokens), calls' = Append(calls, y), CallOK(y)',
         \A x \in CallRecords(tokens) : CallOK(x) => CallOK(x)' /\ Apart(x, y) /\ Apart(y, x)
  PROVE  CallsInv' /\ calls' \in Seq(CallRecords(tokens))
<1>1. calls \in Seq(CallRecords(tokens))
  BY DEF AccessTyped
<1>2. PICK next, n : next = calls' /\ n = Len(calls)
  OBVIOUS
<1>3. next \in Seq(CallRecords(tokens)) /\ n \in Nat /\ DOMAIN calls = 1 .. n /\ DOMAIN next = 1 .. n + 1
      /\ next[n + 1] = y /\ \A i \in 1 .. n : next[i] = calls[i]
  BY <1>1, <1>2, AppendProperties, LenProperties
<1>4. \A i \in 1 .. n : calls[i] \in CallRecords(tokens) /\ CallOK(calls[i])
  BY <1>3, CallFacts
<1>5. \A i \in DOMAIN next : CallOK(next[i])'
  BY <1>3, <1>4
<1>6. ASSUME NEW i \in DOMAIN next, NEW j \in DOMAIN next, i # j PROVE Apart(next[i], next[j])
  BY <1>3, <1>4, <1>6 DEF CallsInv
<1> QED
  BY <1>2, <1>3, <1>5, <1>6 DEF CallsInv

---------------------------------------------------------------------------
\* Steps that leave the audit and the requests as they are.
LEMMA Still ==
  ASSUME AccessTyped, UNCHANGED <<registry, events, auditLock, sent, tokens>>, owed \subseteq owed'
  PROVE  \A x \in CallRecords(tokens) : CallOK(x) => CallOK(x)'
BY DEF CallOK, Entitled, EventIds

\* The events are all of requests that were answered, still.
LEMMA TrailStays ==
  ASSUME TrailInv, events' = events, owed \subseteq owed', sent <= sent', sent \in Nat, sent' \in Nat,
         events \in Seq(EventRecords)
  PROVE  TrailInv'
<1>1. Access!AuditIsOneChain'
  <2>1. Access!Verify'
    BY DEF TrailInv, Access!AuditIsOneChain, Access!Verify
  <2> QED
    BY <2>1 DEF TrailInv, Access!AuditIsOneChain
<1>2. EventIds' = EventIds
  BY DEF EventIds
<1>3. EventIds \subseteq Nat
  <2>1. \A i \in DOMAIN events : events[i] \in EventRecords
    BY ElementOfSeq, LenProperties
  <2> QED
    BY <2>1 DEF EventIds, EventRecords
<1> QED
  BY <1>1, <1>2, <1>3 DEF TrailInv

\* The tokens' requests keep their type when there are more tokens.
LEMMA IssueKeeps ==
  ASSUME AccessInv, NEW u, NEW t, NEW ttl, Access!Issue(u, t, ttl)
  PROVE  AccessInv'
<1>1. /\ UNCHANGED <<registry, clock, calls, events, auditLock, served, owed, sent, restarts>>
      /\ tokens \subseteq tokens' /\ \A c \in tokens' \ tokens : c.roles # {}
  <2>1. PICK c : /\ c = [user |-> u, tenant |-> t, roles |-> Access!RolesFor(Access!Reg, u, t), iat |-> clock, exp |-> clock + ttl,
                         registry |-> registry, epoch |-> Access!Reg.users[u].epoch]
                 /\ tokens' = tokens \cup {c}
    BY Zenon DEF Access!Issue
  <2>2. c.roles = Access!RolesFor(Access!Reg, u, t)
    BY <2>1
  <2>3. Access!RolesFor(Access!Reg, u, t) # {} /\ UNCHANGED <<registry, clock, calls, events, auditLock, served, owed, sent, restarts>>
    BY Zenon DEF Access!Issue
  <2> QED
    BY <2>1, <2>2, <2>3, Zenon
<1>2. CallRecords(tokens) \subseteq CallRecords(tokens')
  BY <1>1 DEF CallRecords
<1>3. calls \in Seq(CallRecords(tokens'))
  BY <1>2, SeqMonotonic, Zenon DEF AccessInv, AccessTyped
<1>4. AccessTyped'
  BY <1>1, <1>3 DEF AccessInv, AccessTyped
<1>5. CallsInv'
  BY <1>1 DEF AccessInv, CallsInv, CallOK, Entitled, EventIds
<1>6. TrailInv'
  BY <1>1, TrailStays DEF AccessInv, AccessTyped
<1> QED
  BY <1>1, <1>4, <1>5, <1>6 DEF AccessInv, Access!ServedIsEntitled

\* A request that is authenticated is let in, or is to be entered as denied, or is sent away.
LEMMA AuthenticateKeeps ==
  ASSUME AccessInv, NEW c \in tokens, NEW route \in Routes, Access!Authenticate(c, route)
  PROVE  AccessInv'
<1> DEFINE ok == Access!Parse(c) /\ (route.policy = "guard" => Access!Resolve(c))
<1>1. PICK y : y = [id |-> sent', claims |-> c, route |-> route, outcome |-> IF ok THEN "allowed" ELSE "denied",
                    at |-> IF ok THEN "handle" ELSE "lock", todo |-> <<>>]
  OBVIOUS
<1>2. /\ UNCHANGED <<registry, clock, tokens, events, auditLock, served, owed, restarts>>
      /\ sent' = sent + 1 /\ (calls' = calls \/ calls' = Append(calls, y))
  BY <1>1 DEF Access!Authenticate
<1>3. AccessTyped /\ CallsInv /\ TrailInv /\ sent \in Nat /\ events \in Seq(EventRecords) /\ sent' \in Nat /\ sent <= sent'
  BY <1>2 DEF AccessInv, AccessTyped
<1>4. \A x \in CallRecords(tokens) : CallOK(x) => CallOK(x)' /\ x.id < sent'
  BY <1>2, <1>3 DEF CallOK, Entitled, EventIds, CallRecords
<1>5. ok => Entitled(c)
  BY DEF Access!Parse, Entitled, Access!Reg
<1>6. y \in CallRecords(tokens) /\ y.id = sent' /\ y.at \in {"handle", "lock"}
      /\ (y.at = "handle" => Entitled(y.claims)) /\ (y.at # "handle" => y.outcome = "denied")
  <2>1. <<>> \in Seq(EventRecords)
    BY EmptySeq
  <2> HIDE DEF ok
  <2> QED
    BY <1>1, <1>3, <1>5, <2>1 DEF CallRecords, Outcomes
<1>7. CallOK(y)'
  <2>1. sent' \notin EventIds
    BY <1>2, <1>3 DEF TrailInv
  <2>2. EventIds' = EventIds /\ (Entitled(y.claims) => Entitled(y.claims)')
    BY <1>2 DEF EventIds, Entitled
  <2> QED
    BY <1>3, <1>6, <2>1, <2>2 DEF CallOK
<1>8. \A x \in CallRecords(tokens) : CallOK(x) => Apart(x, y) /\ Apart(y, x)
  BY <1>3, <1>4, <1>6 DEF Apart, CallRecords
<1>9. CallsInv' /\ calls' \in Seq(CallRecords(tokens))
  <2>1. CASE calls' = calls
    BY <2>1, <1>3, <1>4, CallFacts DEF CallsInv, AccessTyped
  <2>2. CASE calls' = Append(calls, y)
    BY <2>2, <1>2, <1>3, <1>4, <1>6, <1>7, <1>8, CallBegins
  <2> QED
    BY <1>2, <2>1, <2>2
<1>10. AccessTyped'
  BY <1>2, <1>3, <1>9 DEF AccessTyped
<1>11. TrailInv'
  BY <1>2, <1>3, TrailStays
<1> QED
  BY <1>2, <1>9, <1>10, <1>11 DEF AccessInv, Access!ServedIsEntitled

\* What the handler of an entitled caller does, its caller may.
LEMMA PermittedIsEntitled ==
  ASSUME NEW c, NEW route, Entitled(c), c.roles # {}, Access!Permitted(c, route),
         NEW r, r = Registries[registry]
  PROVE  /\ c.user \in DOMAIN r.users /\ r.users[c.user].active /\ r.users[c.user].epoch = c.epoch
         /\ ~Access!Own(route) => \E t \in DOMAIN r.users[c.user].bindings :
               /\ t \in {route.tenant, "*"}
               /\ route.policy = "console" => \E x \in r.users[c.user].bindings[t] : Access!PermissionAllowed(r.roles[x], route.need)
<1>1. c.user \in DOMAIN r.users /\ r.users[c.user].active /\ r.users[c.user].epoch = c.epoch
      /\ Access!RolesFor(r, c.user, c.tenant) = c.roles
  BY DEF Entitled
<1>2. \A x \in c.roles : \E t \in DOMAIN r.users[c.user].bindings : t \in {c.tenant, "*"} /\ x \in r.users[c.user].bindings[t]
  BY <1>1 DEF Access!RolesFor
<1>3. CASE route.policy = "guard"
  <2>1. c.tenant = route.tenant
    BY <1>3 DEF Access!Permitted
  <2>2. PICK x \in c.roles : TRUE
    OBVIOUS
  <2> QED
    BY <1>1, <1>2, <1>3, <2>1, <2>2
<1>4. CASE route.policy # "guard" /\ ~Access!Own(route)
  <2>1. /\ Access!PermissionAllowed(Access!Permissions(r, c.roles), route.need)
        /\ c.tenant \in {route.tenant, "*"}
    BY <1>4 DEF Access!Permitted, Access!tenantOK, Access!Reg
  <2>2. PICK x \in c.roles : Access!PermissionAllowed(r.roles[x], route.need)
    <3>1. PICK g \in Access!Permissions(r, c.roles) :
            \/ g = route.need \/ g = "*"
            \/ g \in DOMAIN Access!resourcePermissions /\ route.need \in Access!resourcePermissions[g]
      BY <2>1 DEF Access!PermissionAllowed
    <3>2. PICK x \in c.roles : g \in r.roles[x]
      BY DEF Access!Permissions
    <3> QED
      BY <3>1, <3>2 DEF Access!PermissionAllowed
  <2>3. PICK t \in DOMAIN r.users[c.user].bindings : t \in {c.tenant, "*"} /\ x \in r.users[c.user].bindings[t]
    BY <1>2
  <2> QED
    BY <1>1, <2>1, <2>2, <2>3
<1>5. CASE Access!Own(route)
  BY <1>1, <1>5
<1> QED
  BY <1>3, <1>4, <1>5

\* The handler did what was permitted; its request goes on to the audit, or is over.
LEMMA HandleKeeps ==
  ASSUME AccessInv, NEW h \in DOMAIN calls, Access!Handle(h)
  PROVE  AccessInv'
<1> DEFINE ok == Access!Permitted(calls[h].claims, calls[h].route)
<1>1. PICK x : x = calls[h]
  OBVIOUS
<1>2. PICK y : y = [x EXCEPT !.at = "lock", !.outcome = IF ok THEN "allowed" ELSE "denied"]
  OBVIOUS
<1>3. AccessTyped /\ CallsInv /\ TrailInv /\ sent \in Nat /\ events \in Seq(EventRecords)
  BY DEF AccessInv, AccessTyped
<1>4. x \in CallRecords(tokens) /\ CallOK(x) /\ x.at = "handle"
  BY <1>1, <1>3, CallFacts DEF Access!Handle
<1>5. /\ UNCHANGED <<registry, clock, tokens, events, auditLock, sent, restarts>> /\ owed \subseteq owed'
      /\ \/ calls' = Access!Ended(h)
         \/ x.route.policy # "guard" /\ owed' = owed \cup {x.id} /\ calls' = [calls EXCEPT ![h] = y]
  BY <1>1, <1>2 DEF Access!Handle
<1>6. served' = served \/ (ok /\ served' = served \cup {[claims |-> x.claims, route |-> x.route, registry |-> registry]})
  BY <1>1 DEF Access!Handle
<1>7. \A z \in CallRecords(tokens) : CallOK(z) => CallOK(z)'
  BY <1>3, <1>5, Still
<1>8. CallsInv' /\ calls' \in Seq(CallRecords(tokens))
  <2>1. CASE calls' = Access!Ended(h)
    BY <2>1, <1>3, <1>5, <1>7, CallEnds
  <2>2. CASE owed' = owed \cup {x.id} /\ calls' = [calls EXCEPT ![h] = y]
    <3>1. y \in CallRecords(tokens) /\ y.id = x.id /\ y.at = "lock"
      <4> HIDE DEF ok
      <4> QED
        BY <1>2, <1>4 DEF CallRecords, Outcomes
    <3>2. CallOK(y)'
      BY <1>4, <1>5, <2>2, <3>1 DEF CallOK, EventIds
    <3>3. \A z \in CallRecords(tokens) : Apart(z, x) => Apart(z, y) /\ Apart(y, z)
      BY <3>1 DEF Apart
    <3> QED
      BY <1>1, <1>3, <1>5, <1>7, <2>2, <3>1, <3>2, <3>3, CallMoves
  <2> QED
    BY <1>5, <2>1, <2>2
<1>9. AccessTyped'
  BY <1>3, <1>5, <1>8 DEF AccessTyped
<1>10. TrailInv'
  BY <1>3, <1>5, TrailStays
<1>11. Access!ServedIsEntitled'
  <2>1. Entitled(x.claims) /\ x.claims.roles # {}
    BY <1>3, <1>4 DEF CallOK, AccessTyped, CallRecords
  <2>2. PICK s : s = [claims |-> x.claims, route |-> x.route, registry |-> registry]
    OBVIOUS
  <2>3. PICK r : r = Registries[registry]
    OBVIOUS
  <2>4. ok => /\ x.claims.user \in DOMAIN r.users /\ r.users[x.claims.user].active /\ r.users[x.claims.user].epoch = x.claims.epoch
              /\ ~Access!Own(x.route) => \E t \in DOMAIN r.users[x.claims.user].bindings :
                    /\ t \in {x.route.tenant, "*"}
                    /\ x.route.policy = "console" =>
                          \E p \in r.users[x.claims.user].bindings[t] : Access!PermissionAllowed(r.roles[p], x.route.need)
    BY <1>1, <2>1, <2>3, PermittedIsEntitled
  <2>5. s.claims = x.claims /\ s.route = x.route /\ Registries[s.registry] = r
    BY <2>2, <2>3
  <2> HIDE DEF ok
  <2>6. CASE served' = served
    BY <2>6 DEF AccessInv, Access!ServedIsEntitled
  <2>7. CASE ok /\ served' = served \cup {s}
    BY <2>4, <2>5, <2>7 DEF AccessInv, Access!ServedIsEntitled
  <2> QED
    BY <1>6, <2>2, <2>6, <2>7
<1> QED
  BY <1>8, <1>9, <1>10, <1>11 DEF AccessInv

\* The lock is taken: nobody else is past it.
LEMMA WithLockKeeps ==
  ASSUME AccessInv, NEW h \in DOMAIN calls, Access!withLock(h)
  PROVE  AccessInv'
<1>1. PICK x, y : x = calls[h] /\ y = [x EXCEPT !.at = "append", !.todo = events]
  OBVIOUS
<1>2. AccessTyped /\ CallsInv /\ TrailInv /\ sent \in Nat /\ events \in Seq(EventRecords)
  BY DEF AccessInv, AccessTyped
<1>3. /\ x.at = "lock" /\ ~auditLock /\ auditLock' /\ calls' = [calls EXCEPT ![h] = y]
      /\ UNCHANGED <<registry, clock, tokens, events, served, owed, sent, restarts>>
  BY <1>1 DEF Access!withLock
<1>4. x \in CallRecords(tokens) /\ CallOK(x)
  BY <1>1, <1>2, CallFacts
<1>5. y \in CallRecords(tokens) /\ y.id = x.id /\ y.at = "append" /\ y.outcome = x.outcome /\ y.todo = events
  BY <1>1, <1>2, <1>4 DEF CallRecords
<1>6. CallOK(y)'
  BY <1>3, <1>4, <1>5 DEF CallOK, EventIds
<1>7. \A z \in CallRecords(tokens) : CallOK(z) /\ Apart(z, x) => CallOK(z)' /\ Apart(z, y) /\ Apart(y, z)
  BY <1>3, <1>5 DEF CallOK, Apart, Entitled, EventIds
<1>8. CallsInv' /\ calls' \in Seq(CallRecords(tokens))
  <2>1. calls[h] = x /\ tokens' = tokens /\ calls' = [calls EXCEPT ![h] = y] /\ y \in CallRecords(tokens)
    BY <1>1, <1>3, <1>5
  <2>2. \A z \in CallRecords(tokens) : CallOK(z) /\ Apart(z, calls[h]) => CallOK(z)' /\ Apart(z, y) /\ Apart(y, z)
    BY <1>7, <2>1
  <2> QED
    BY <1>2, <1>6, <2>1, <2>2, CallMoves
<1> QED
  BY <1>2, <1>3, <1>8, TrailStays DEF AccessInv, AccessTyped, Access!ServedIsEntitled

\* The event is appended to the events that were read, and they are all there are.
LEMMA AppendEventKeeps ==
  ASSUME AccessInv, NEW h \in DOMAIN calls, Access!AppendEvent(h)
  PROVE  AccessInv'
<1>1. PICK x, y : x = calls[h] /\ y = [x EXCEPT !.at = "unlock"]
  OBVIOUS
<1>2. AccessTyped /\ CallsInv /\ TrailInv /\ sent \in Nat /\ events \in Seq(EventRecords)
  BY DEF AccessInv, AccessTyped
<1>3. x \in CallRecords(tokens) /\ CallOK(x) /\ x.at = "append"
  BY <1>1, <1>2, CallFacts DEF Access!AppendEvent
<1>4. PICK n, e : n = Len(events) /\ e = [id |-> x.id, outcome |-> x.outcome, after |-> [i \in 1..n |-> events[i].id]]
  OBVIOUS
<1>5. n \in Nat /\ DOMAIN events = 1 .. n /\ \A i \in 1 .. n : events[i] \in EventRecords
  BY <1>2, <1>4, ElementOfSeq, LenProperties
<1>6. /\ calls' = [calls EXCEPT ![h] = y]
      /\ UNCHANGED <<registry, clock, tokens, auditLock, served, owed, sent, restarts>>
      /\ events' = Append(events, e)
  <2>1. x.todo = events
    BY <1>3 DEF CallOK
  <2>2. ~(Len(events) + 1 <= Len(events))
    BY <1>4, <1>5
  <2> QED
    BY <1>1, <1>4, <2>1, <2>2 DEF Access!AppendEvent
<1>7. e \in EventRecords /\ e.id = x.id /\ e.outcome = x.outcome /\ e.after = [i \in 1..n |-> events[i].id]
  <2>1. [i \in 1..n |-> events[i].id] \in Seq(Nat)
    BY <1>5, IsASeq DEF EventRecords
  <2> QED
    BY <1>3, <1>4, <2>1 DEF EventRecords, CallRecords
<1>8. PICK more : more = events' /\ more \in Seq(EventRecords) /\ Len(more) = n + 1 /\ DOMAIN more = 1 .. n + 1
        /\ more[n + 1] = e /\ \A i \in 1 .. n : more[i] = events[i]
  <2>1. PICK more : more = Append(events, e)
    OBVIOUS
  <2>2. /\ more \in Seq(EventRecords) /\ Len(more) = Len(events) + 1 /\ more[Len(events) + 1] = e
        /\ \A i \in 1 .. Len(events) : more[i] = events[i]
    BY <1>2, <1>7, <2>1, AppendProperties
  <2>3. DOMAIN more = 1 .. n + 1
    BY <1>4, <1>5, <2>2, LenProperties
  <2> QED
    BY <1>4, <1>6, <2>1, <2>2, <2>3
<1>9. EventIds' = EventIds \cup {x.id}
  BY <1>5, <1>7, <1>8 DEF EventIds
<1>10. TrailInv'
  <2>1. Access!Verify'
    <3>1. \A i \in 1 .. n : events[i].after = [j \in 1..(i - 1) |-> events[j].id]
      BY <1>2, <1>4, <1>5 DEF TrailInv, Access!AuditIsOneChain, Access!Verify
    <3>2. ASSUME NEW i \in 1 .. n + 1 PROVE more[i].after = [j \in 1..(i - 1) |-> more[j].id]
      <4>1. \A j \in 1 .. (i - 1) : more[j] = events[j]
        BY <1>5, <1>8
      <4>2. [j \in 1..(i - 1) |-> more[j].id] = [j \in 1..(i - 1) |-> events[j].id]
        BY <4>1
      <4>3. CASE i = n + 1
        BY <1>5, <1>7, <1>8, <4>2, <4>3
      <4>4. CASE i \in 1 .. n
        BY <1>8, <3>1, <4>2, <4>4
      <4> QED
        BY <1>5, <4>3, <4>4
    <3> QED
      BY <1>8, <3>2 DEF Access!Verify
  <2>2. \A i, j \in 1 .. n + 1 : more[i].id = more[j].id => i = j
    <3>1. \A i, j \in 1 .. n : events[i].id = events[j].id => i = j
      BY <1>2, <1>4 DEF TrailInv, Access!AuditIsOneChain
    <3>2. \A i \in 1 .. n : events[i].id # x.id
      BY <1>3, <1>5 DEF CallOK, EventIds
    <3> QED
      BY <1>5, <1>7, <1>8, <3>1, <3>2
  <2>3. \A i \in 1 .. n + 1 : more[i].outcome = "allowed" => more[i].id \in owed
    <3>1. \A i \in 1 .. n : events[i].outcome = "allowed" => events[i].id \in owed
      BY <1>2, <1>4 DEF TrailInv, Access!AuditIsOneChain
    <3>2. e.outcome = "allowed" => e.id \in owed
      BY <1>3, <1>7 DEF CallOK
    <3> QED
      BY <1>5, <1>8, <3>1, <3>2
  <2>4. \A m \in EventIds' : m <= sent'
    BY <1>2, <1>3, <1>6, <1>9 DEF TrailInv, CallOK
  <2> QED
    BY <1>6, <1>8, <2>1, <2>2, <2>3, <2>4 DEF TrailInv, Access!AuditIsOneChain
<1>11. y \in CallRecords(tokens) /\ y.id = x.id /\ y.at = "unlock" /\ y.outcome = x.outcome
  BY <1>1, <1>3 DEF CallRecords
<1>12. CallOK(y)'
  BY <1>3, <1>6, <1>11 DEF CallOK
<1>13. \A z \in CallRecords(tokens) : CallOK(z) /\ Apart(z, x) => CallOK(z)' /\ Apart(z, y) /\ Apart(y, z)
  BY <1>3, <1>6, <1>9, <1>11 DEF CallOK, Apart, Entitled
<1>14. CallsInv' /\ calls' \in Seq(CallRecords(tokens))
  BY <1>1, <1>2, <1>6, <1>11, <1>12, <1>13, CallMoves
<1> QED
  BY <1>2, <1>6, <1>8, <1>10, <1>14 DEF AccessInv, AccessTyped, Access!ServedIsEntitled

\* The lock is let go of: nobody else was past it.
LEMMA UnlockKeeps ==
  ASSUME AccessInv, NEW h \in DOMAIN calls, Access!Unlock(h)
  PROVE  AccessInv'
<1>1. AccessTyped /\ CallsInv /\ TrailInv /\ sent \in Nat /\ events \in Seq(EventRecords)
  BY DEF AccessInv, AccessTyped
<1>2. /\ calls[h].at = "unlock" /\ calls' = Access!Ended(h) /\ owed \subseteq owed'
      /\ UNCHANGED <<registry, clock, tokens, events, served, sent, restarts>>
  BY DEF Access!Unlock
<1>3. \A z \in CallRecords(tokens) : CallOK(z) /\ Apart(z, calls[h]) => CallOK(z)'
  BY <1>2 DEF CallOK, Apart, Entitled, EventIds
<1>4. CallsInv' /\ calls' \in Seq(CallRecords(tokens))
  BY <1>1, <1>2, <1>3, CallEnds
<1> QED
  BY <1>1, <1>2, <1>4, TrailStays DEF AccessInv, AccessTyped, Access!ServedIsEntitled

\* The lock is given up on.
LEMMA GiveUpKeeps ==
  ASSUME AccessInv, NEW h \in DOMAIN calls, Access!GiveUp(h)
  PROVE  AccessInv'
<1>1. AccessTyped /\ CallsInv /\ TrailInv /\ sent \in Nat /\ events \in Seq(EventRecords)
  BY DEF AccessInv, AccessTyped
<1>2. /\ calls' = Access!Ended(h) /\ owed \subseteq owed'
      /\ UNCHANGED <<registry, clock, tokens, events, auditLock, served, sent, restarts>>
  BY DEF Access!GiveUp
<1>3. CallsInv' /\ calls' \in Seq(CallRecords(tokens))
  BY <1>1, <1>2, Still, CallEnds
<1> QED
  BY <1>1, <1>2, <1>3, TrailStays DEF AccessInv, AccessTyped, Access!ServedIsEntitled

\* The process has no requests: it was stopped, or the lock that one left is removed.
LEMMA EmptyKeeps ==
  ASSUME AccessInv, calls' = <<>>, UNCHANGED <<tokens, events, served, owed, sent>>
  PROVE  AccessInv'
<1>1. DOMAIN calls' = {} /\ calls' \in Seq(CallRecords(tokens))
  BY EmptySeq
<1>2. CallsInv'
  BY <1>1 DEF CallsInv
<1> QED
  BY <1>1, <1>2, TrailStays DEF AccessInv, AccessTyped, Access!ServedIsEntitled

LEMMA AccessStep == AccessInv /\ [Access!Next]_(Access!vars) => AccessInv'
<1> SUFFICES ASSUME AccessInv, [Access!Next]_(Access!vars) PROVE AccessInv'
  OBVIOUS
<1>1. CASE \E u, t, ttl : Access!Issue(u, t, ttl)
  BY <1>1, IssueKeeps
<1>2. CASE \E c \in tokens, route \in Routes : Access!Authenticate(c, route)
  BY <1>2, AuthenticateKeeps
<1>3. CASE \E h \in DOMAIN calls : Access!Handle(h)
  BY <1>3, HandleKeeps
<1>4. CASE \E h \in DOMAIN calls : Access!withLock(h)
  BY <1>4, WithLockKeeps
<1>5. CASE \E h \in DOMAIN calls : Access!AppendEvent(h)
  BY <1>5, AppendEventKeeps
<1>6. CASE \E h \in DOMAIN calls : Access!Unlock(h)
  BY <1>6, UnlockKeeps
<1>7. CASE \E h \in DOMAIN calls : Access!GiveUp(h)
  BY <1>7, GiveUpKeeps
<1>8. CASE Access!Restart \/ Access!RemoveLock
  BY <1>8, EmptyKeeps DEF Access!Restart, Access!RemoveLock
<1>9. CASE Access!Tick \/ UNCHANGED Access!vars
  <2>1. UNCHANGED <<registry, tokens, calls, events, auditLock, served, owed, sent>>
    BY <1>9 DEF Access!Tick, Access!vars
  <2> QED
    BY <2>1, TrailStays DEF AccessInv, AccessTyped, CallsInv, CallOK, Entitled, EventIds, Access!ServedIsEntitled
<1> QED
  BY <1>1, <1>2, <1>3, <1>4, <1>5, <1>6, <1>7, <1>8, <1>9 DEF Access!Next

(* A step is taken only under the rights in force in the registry that the *)
(* process has read, and the security audit is one chain that tells what   *)
(* came of each request once, whatever overlaps, gives up on the lock, or  *)
(* is stopped (Authenticate, Parse, Permitted, Append).                    *)
THEOREM AccessSound == Access!Spec => []AccessHolds
<1>1. AccessInv => AccessHolds
  BY DEF AccessInv, TrailInv, AccessHolds
<1> QED
  BY <1>1, AccessStart, AccessStep, PTL DEF Access!Spec

---------------------------------------------------------------------------
(* The adapters that take in a vendor's alerts: vendoradapter.             *)

Ids == {e.record : e \in Adapter!Envelopes}
Jobs == [adapter : DOMAIN Profiles, src : Sources, env : Adapter!Envelopes \cup {Absent}, todo : Seq({"record", "receipt", "audit"}),
         replay : BOOLEAN, at : {"process", "write", "persist"}, id : Nat]

\* a file is whole, and of the name it is stored under
RecordWhole(id) == id \in DOMAIN records /\ records[id] # Torn
ReceiptWhole(rp) == rp \in DOMAIN receipts /\ receipts[rp] # Torn
Kept(e) == RecordWhole(e.record) /\ records[e.record] = e
Receipted(e) == /\ ReceiptWhole(Adapter!receiptPath(e)) /\ receipts[Adapter!receiptPath(e)].record = e.record

\* the envelope that a request has to store, or is answered with, is of the bytes it sent
OfSource(x) == x.env \in Adapter!Envelopes /\ x.env.source = x.src.body /\ x.env.adapter = x.adapter

\* what a request that holds the mutex has written, and has not
Halfway(x) ==
    /\ x.todo \in {Adapter!Order, <<"receipt", "audit">>, <<"audit">>}
    /\ IF x.todo = Adapter!Order THEN x.env.record \notin DOMAIN records ELSE Kept(x.env)
    /\ IF x.todo = <<"audit">> THEN Receipted(x.env) ELSE Adapter!receiptPath(x.env) \notin DOMAIN receipts

JobOK(x) ==
    /\ x.id \in 1..sends
    /\ x.at = "write" => mu = x.id /\ OfSource(x) /\ Halfway(x)
    /\ x.at = "persist" => OfSource(x) /\ Kept(x.env) /\ Receipted(x.env)

JobsInv == /\ \A i \in DOMAIN run : JobOK(run[i])
           /\ \A i, j \in DOMAIN run : i # j => run[i].id # run[j].id

VendorTyped == /\ sends \in Nat /\ stops \in Nat /\ faults \in Nat /\ run \in Seq(Jobs)
               /\ audit \in Seq(Seq(Ids) \cup {Torn})

\* a record has its own name, a receipt is of a record, a row of a file, an answer of both files
FilesInv ==
    /\ \A id \in DOMAIN records : records[id] # Torn => records[id] \in Adapter!Envelopes /\ records[id].record = id
    /\ \A rp \in DOMAIN receipts : receipts[rp] # Torn =>
          LET id == receipts[rp].record IN
          RecordWhole(id) /\ records[id].source = receipts[rp].source /\ Adapter!receiptPath(records[id]) = rp
    /\ db.keys \subseteq DOMAIN receipts /\ db.records \subseteq DOMAIN records
    /\ \A t \in told : /\ RecordWhole(t.record) /\ Receipted(records[t.record])
                       /\ records[t.record].source = t.source /\ records[t.record].adapter = t.adapter

\* the audit entries that vouch for a record last
Entries(id) == {i \in 1..Len(audit) : Last(audit[i]) = id}
Unaudited(id) == \E h \in DOMAIN run : run[h].at = "write" /\ run[h].env.record = id

\* as long as nothing was cut off, nothing is torn, and a record is in the audit when its request has let go of the mutex
CleanInv ==
    stops = 0 /\ faults = 0 =>
    /\ Adapter!Verify
    /\ \A rp \in DOMAIN receipts : receipts[rp] # Torn
    /\ \A i \in 1..Len(audit) : Last(audit[i]) \in DOMAIN records
    /\ \A rp \in DOMAIN receipts : ~Unaudited(receipts[rp].record) => \E i \in 1..Len(audit) : Entries(receipts[rp].record) = {i}
    /\ \A id \in Ids : Unaudited(id) => Entries(id) = {}

VendorInv == VendorTyped /\ JobsInv /\ FilesInv /\ CleanInv

---------------------------------------------------------------------------
LEMMA EnvelopeFacts ==
  ASSUME NEW e \in Adapter!Envelopes
  PROVE  e # Torn /\ Adapter!Receipt(e) # Torn /\ e.record \in Ids
BY VendorAssumption DEF Adapter!ConstantsFit, Ids

LEMMA ConvertFacts ==
  ASSUME NEW a \in DOMAIN Profiles, NEW src \in Sources, Adapter!Convertible(Profiles[a], src)
  PROVE  /\ Adapter!Convert(a, src) \in Adapter!Envelopes
         /\ Adapter!Convert(a, src).source = src.body /\ Adapter!Convert(a, src).adapter = a
<1>1. PICK y : y = [adapter |-> a, src |-> src]
  OBVIOUS
<1>2. y \in [adapter : DOMAIN Profiles, src : Sources] /\ y.adapter = a /\ y.src = src
  BY <1>1
<1>3. Adapter!Convert(a, src) \in Adapter!Envelopes
  BY <1>2 DEF Adapter!Envelopes
<1> QED
  BY <1>3 DEF Adapter!Convert

LEMMA TrailIsNotTorn ==
  ASSUME NEW s \in Seq(Ids) PROVE s # Torn
BY VendorAssumption DEF Adapter!ConstantsFit, Ids

\* The next file of a request that holds the mutex.
LEMMA NextFile ==
  ASSUME NEW x, Halfway(x)
  PROVE  \/ x.todo = Adapter!Order /\ Head(x.todo) = "record" /\ Tail(x.todo) = <<"receipt", "audit">>
         \/ x.todo = <<"receipt", "audit">> /\ Head(x.todo) = "receipt" /\ Tail(x.todo) = <<"audit">>
         \/ x.todo = <<"audit">> /\ Head(x.todo) = "audit"
<1>1. /\ Head(<<"record", "receipt", "audit">>) = "record"
      /\ Head(<<"receipt", "audit">>) = "receipt" /\ Head(<<"audit">>) = "audit"
  OBVIOUS
<1>2. Tail(<<"record", "receipt", "audit">>) = <<"receipt", "audit">>
  OBVIOUS
<1>3. Tail(<<"receipt", "audit">>) = <<"audit">>
  OBVIOUS
<1> QED
  BY <1>1, <1>2, <1>3, Zenon DEF Halfway, Adapter!Order

\* Files are created, never replaced.
FilesGrow ==
    /\ \A id \in DOMAIN records : id \in DOMAIN records' /\ records'[id] = records[id]
    /\ \A rp \in DOMAIN receipts : rp \in DOMAIN receipts' /\ receipts'[rp] = receipts[rp]

LEMMA Lasting ==
  ASSUME FilesGrow, NEW e
  PROVE  (Kept(e) => Kept(e)') /\ (Receipted(e) => Receipted(e)')
BY DEF FilesGrow, Kept, Receipted, RecordWhole, ReceiptWhole

LEMMA JobFacts ==
  ASSUME VendorTyped, JobsInv, NEW h \in DOMAIN run
  PROVE  /\ run[h] \in Jobs /\ JobOK(run[h])
         /\ \A i \in DOMAIN run \ {h} : run[i] \in Jobs /\ JobOK(run[i]) /\ run[i].id # run[h].id
<1>1. \A i \in DOMAIN run : run[i] \in Jobs
  BY ElementOfSeq, LenProperties DEF VendorTyped
<1> QED
  BY <1>1 DEF JobsInv

\* While nobody has the mutex, nobody writes, and one at a time does.
LEMMA Writers ==
  VendorTyped /\ JobsInv =>
    /\ mu = 0 => \A id : ~Unaudited(id)
    /\ \A h \in DOMAIN run : run[h].at = "write" =>
          /\ mu # 0 /\ \A i \in DOMAIN run : run[i].at = "write" => i = h
          /\ \A id : Unaudited(id) <=> id = run[h].env.record
<1> SUFFICES ASSUME VendorTyped, JobsInv
             PROVE  /\ mu = 0 => \A id : ~Unaudited(id)
                    /\ \A h \in DOMAIN run : run[h].at = "write" =>
                          /\ mu # 0 /\ \A i \in DOMAIN run : run[i].at = "write" => i = h
                          /\ \A id : Unaudited(id) <=> id = run[h].env.record
  OBVIOUS
<1>1. \A i \in DOMAIN run : run[i].at = "write" => mu = run[i].id /\ mu # 0
  BY JobFacts DEF JobOK, VendorTyped
<1>2. \A i, h \in DOMAIN run : run[i].at = "write" /\ run[h].at = "write" => i = h
  BY <1>1 DEF JobsInv
<1> QED
  BY <1>1, <1>2 DEF Unaudited

LEMMA NextWriters ==
  ASSUME VendorTyped', JobsInv'
  PROVE  /\ mu' = 0 => \A id : ~Unaudited(id)'
         /\ \A h \in DOMAIN run' : run'[h].at = "write" => \A id : Unaudited(id)' <=> id = run'[h].env.record
<1>1. (VendorTyped /\ JobsInv =>
    /\ mu = 0 => \A id : ~Unaudited(id)
    /\ \A h \in DOMAIN run : run[h].at = "write" =>
          /\ mu # 0 /\ \A i \in DOMAIN run : run[i].at = "write" => i = h
          /\ \A id : Unaudited(id) <=> id = run[h].env.record)'
  BY Writers, PTL
<1> QED
  BY <1>1

LEMMA JobEnds ==
  ASSUME VendorTyped, JobsInv, NEW h \in DOMAIN run, run' = Adapter!Ended(h),
         \A x \in Jobs : JobOK(x) /\ x.id # run[h].id => JobOK(x)'
  PROVE  JobsInv' /\ run' \in Seq(Jobs)
<1>1. run \in Seq(Jobs) /\ run' = RemoveAt(run, h)
  BY DEF VendorTyped, Adapter!Ended, Adapter!RemoveAt, RemoveAt
<1>2. PICK next : next = run'
  OBVIOUS
<1>3. /\ next \in Seq(Jobs)
      /\ \A i \in DOMAIN next : Before(h, i) \in DOMAIN run /\ Before(h, i) # h /\ next[i] = run[Before(h, i)]
  <2>1. PICK old : old = run
    OBVIOUS
  <2>2. old \in Seq(Jobs) /\ h \in DOMAIN old /\ next = RemoveAt(old, h)
    BY <1>1, <1>2, <2>1
  <2>3. /\ RemoveAt(old, h) \in Seq(Jobs)
        /\ \A i \in DOMAIN RemoveAt(old, h) :
             Before(h, i) \in DOMAIN old /\ Before(h, i) # h /\ RemoveAt(old, h)[i] = old[Before(h, i)]
    BY <2>2, Removed, Zenon
  <2> QED
    BY <2>1, <2>2, <2>3
<1>4. \A i \in DOMAIN next : JobOK(next[i])'
  BY <1>3, JobFacts
<1>5. ASSUME NEW i \in DOMAIN next, NEW j \in DOMAIN next, i # j PROVE next[i].id # next[j].id
  <2>1. DOMAIN next = 1 .. Len(next) /\ Len(next) \in Nat
    BY <1>3, LenProperties
  <2>2. Before(h, i) # Before(h, j)
    <3>1. DOMAIN run = 1 .. Len(run) /\ Len(run) \in Nat
      BY <1>1, LenProperties
    <3> QED
      BY <2>1, <3>1, <1>5 DEF Before
  <2> QED
    BY <1>3, <2>2 DEF JobsInv
<1> QED
  BY <1>2, <1>3, <1>4, <1>5 DEF JobsInv

LEMMA JobMoves ==
  ASSUME VendorTyped, JobsInv, NEW h \in DOMAIN run, NEW y \in Jobs, run' = [run EXCEPT ![h] = y],
         y.id = run[h].id, JobOK(y)',
         \A x \in Jobs : JobOK(x) /\ x.id # run[h].id => JobOK(x)'
  PROVE  /\ JobsInv' /\ run' \in Seq(Jobs) /\ DOMAIN run' = DOMAIN run /\ run'[h] = y
         /\ \A i \in DOMAIN run \ {h} : run'[i] = run[i]
<1>1. run \in Seq(Jobs)
  BY DEF VendorTyped
<1>2. PICK next : next = run'
  OBVIOUS
<1>3. next \in Seq(Jobs) /\ DOMAIN next = DOMAIN run
      /\ next[h] = y /\ \A i \in DOMAIN run \ {h} : next[i] = run[i]
  BY <1>1, <1>2, ExceptSeq, LenProperties
<1>4. \A i \in DOMAIN next : JobOK(next[i])'
  BY <1>3, JobFacts
<1>5. ASSUME NEW i \in DOMAIN next, NEW j \in DOMAIN next, i # j PROVE next[i].id # next[j].id
  BY <1>3, <1>5, JobFacts DEF JobsInv
<1> QED
  BY <1>2, <1>3, <1>4, <1>5 DEF JobsInv

LEMMA JobBegins ==
  ASSUME VendorTyped, JobsInv, NEW y \in Jobs, run' = Append(run, y), JobOK(y)', y.at # "write",
         \A x \in Jobs : JobOK(x) => JobOK(x)' /\ x.id # y.id
  PROVE  /\ JobsInv' /\ run' \in Seq(Jobs)
         /\ \A id : Unaudited(id)' <=> Unaudited(id)
<1>1. run \in Seq(Jobs)
  BY DEF VendorTyped
<1>2. PICK next, n : next = run' /\ n = Len(run)
  OBVIOUS
<1>3. next \in Seq(Jobs) /\ n \in Nat /\ DOMAIN run = 1 .. n /\ DOMAIN next = 1 .. n + 1
      /\ next[n + 1] = y /\ \A i \in 1 .. n : next[i] = run[i]
  BY <1>1, <1>2, AppendProperties, LenProperties
<1>4. \A i \in 1 .. n : run[i] \in Jobs /\ JobOK(run[i])
  BY <1>3, JobFacts
<1>5. \A i \in DOMAIN next : JobOK(next[i])'
  BY <1>3, <1>4
<1>6. ASSUME NEW i \in DOMAIN next, NEW j \in DOMAIN next, i # j PROVE next[i].id # next[j].id
  BY <1>3, <1>4, <1>6 DEF JobsInv
<1>7. \A id : Unaudited(id)' <=> Unaudited(id)
  BY <1>2, <1>3 DEF Unaudited
<1> QED
  BY <1>2, <1>3, <1>5, <1>6, <1>7 DEF JobsInv

\* The files do not change: nothing that is said of them alone does.
LEMMA FilesStay ==
  ASSUME FilesInv, UNCHANGED <<records, receipts, db, told>>
  PROVE  FilesInv' /\ FilesGrow
BY DEF FilesInv, FilesGrow, RecordWhole, ReceiptWhole, Receipted

\* Nor does what is said of the audit, if the same requests are writing.
LEMMA CleanStays ==
  ASSUME CleanInv, UNCHANGED <<records, receipts, audit>>,
         stops' = 0 /\ faults' = 0 => stops = 0 /\ faults = 0 /\ \A id : Unaudited(id)' <=> Unaudited(id)
  PROVE  CleanInv'
<1> SUFFICES ASSUME stops' = 0 /\ faults' = 0 PROVE CleanInv'
  BY DEF CleanInv
<1>1. Adapter!Verify'
  BY DEF CleanInv, Adapter!Verify
<1>2. \A id : Entries(id)' = Entries(id)
  BY DEF Entries
<1> QED
  BY <1>1, <1>2 DEF CleanInv

LEMMA VendorStart ==
  ASSUME Adapter!Init PROVE VendorInv
<1>1. /\ records = <<>> /\ receipts = <<>> /\ audit = <<>> /\ run = <<>> /\ told = {}
      /\ db = [records |-> {}, keys |-> {}] /\ stops = 0 /\ sends = 0 /\ faults = 0
  BY DEF Adapter!Init
<1>2. DOMAIN records = {} /\ DOMAIN receipts = {} /\ DOMAIN run = {} /\ Len(audit) = 0
  BY <1>1
<1>3. VendorTyped
  BY <1>1, EmptySeq DEF VendorTyped
<1>4. JobsInv
  BY <1>2 DEF JobsInv
<1>5. FilesInv
  BY <1>1, <1>2 DEF FilesInv
<1>6. CleanInv
  <2>1. Adapter!Verify
    BY <1>2 DEF Adapter!Verify
  <2>2. \A id : Entries(id) = {} /\ ~Unaudited(id)
    BY <1>2 DEF Entries, Unaudited
  <2> QED
    BY <1>2, <2>1, <2>2 DEF CleanInv
<1> QED
  BY <1>3, <1>4, <1>5, <1>6 DEF VendorInv

LEMMA IngestKeeps ==
  ASSUME VendorInv, NEW a, NEW src \in Sources, NEW t, Adapter!ingest(a, src, t)
  PROVE  VendorInv'
<1>1. PICK y : y = [adapter |-> a, src |-> src, env |-> Absent, todo |-> <<>>, replay |-> FALSE, at |-> "process", id |-> sends']
  OBVIOUS
<1>2. /\ UNCHANGED <<records, receipts, audit, mu, db, told, stops, faults>> /\ sends' = sends + 1
      /\ run' = run \/ (a \in DOMAIN Adapter!LoadProfiles(Profiles) /\ run' = Append(run, y))
  BY <1>1 DEF Adapter!ingest
<1>3. VendorTyped /\ JobsInv /\ FilesInv /\ CleanInv /\ sends \in Nat
  BY DEF VendorInv, VendorTyped
<1>4. FilesInv'
  BY <1>2, <1>3, FilesStay
<1>5. \A x \in Jobs : JobOK(x) => JobOK(x)' /\ x.id # sends'
  BY <1>2, <1>3 DEF JobOK, OfSource, Halfway, Kept, Receipted, RecordWhole, ReceiptWhole
<1>6. JobsInv' /\ run' \in Seq(Jobs) /\ \A id : Unaudited(id)' <=> Unaudited(id)
  <2>1. CASE run' = run
    <3>1. PICK old : old = run
      OBVIOUS
    <3>2. \A i \in DOMAIN old : JobOK(old[i])'
      BY <1>3, <1>5, <3>1, JobFacts
    <3> QED
      BY <2>1, <3>1, <3>2, <1>3 DEF JobsInv, VendorTyped, Unaudited
  <2>2. CASE a \in DOMAIN Adapter!LoadProfiles(Profiles) /\ run' = Append(run, y)
    <3>1. a \in DOMAIN Profiles
      BY <2>2 DEF Adapter!LoadProfiles
    <3>2. <<>> \in Seq({"record", "receipt", "audit"})
      BY EmptySeq
    <3>3. y \in Jobs /\ y.at = "process" /\ y.id = sends'
      BY <1>1, <1>2, <1>3, <3>1, <3>2 DEF Jobs
    <3>4. JobOK(y)'
      BY <1>2, <1>3, <3>3 DEF JobOK
    <3> QED
      BY <1>3, <1>5, <2>2, <3>3, <3>4, JobBegins
  <2> QED
    BY <1>2, <2>1, <2>2
<1>7. VendorTyped'
  BY <1>2, <1>3, <1>6 DEF VendorTyped
<1>8. CleanInv'
  BY <1>2, <1>3, <1>6, CleanStays
<1> QED
  BY <1>4, <1>6, <1>7, <1>8 DEF VendorInv

\* Process looks at the files under the mutex: it refuses, replays, or begins to write what is not there yet.
LEMMA ProcessKeeps ==
  ASSUME VendorInv, NEW h \in DOMAIN run, Adapter!Process(h)
  PROVE  VendorInv'
<1>1. PICK x, e : x = run[h] /\ e = Adapter!Convert(x.adapter, x.src)
  OBVIOUS
<1>2. PICK rp : rp = Adapter!receiptPath(e)
  OBVIOUS
<1>3. VendorTyped /\ JobsInv /\ FilesInv /\ CleanInv /\ sends \in Nat
  BY DEF VendorInv, VendorTyped
<1>4. x \in Jobs /\ JobOK(x) /\ x.at = "process" /\ mu = 0
  BY <1>1, <1>3, JobFacts DEF Adapter!Process
<1>5. UNCHANGED <<records, receipts, audit, db, told, stops, sends, faults>>
  BY DEF Adapter!Process
<1>6. FilesInv'
  BY <1>3, <1>5, FilesStay
<1>7. \A z \in Jobs : JobOK(z) => z.at # "write" /\ JobOK(z)'
  BY <1>3, <1>4, <1>5 DEF JobOK, OfSource, Halfway, Kept, Receipted, RecordWhole, ReceiptWhole
<1>8. \/ run' = Adapter!Ended(h) /\ mu' = mu
      \/ /\ mu' = mu /\ Adapter!Convertible(Profiles[x.adapter], x.src)
         /\ rp \in DOMAIN receipts /\ receipts[rp] # Torn /\ receipts[rp].source = e.source
         /\ records[receipts[rp].record] # Torn
         /\ run' = [run EXCEPT ![h] = [x EXCEPT !.env = records[receipts[rp].record], !.replay = TRUE, !.at = "persist"]]
      \/ /\ Adapter!Convertible(Profiles[x.adapter], x.src)
         /\ rp \notin DOMAIN receipts /\ e.record \notin DOMAIN records
         /\ mu' = x.id /\ run' = [run EXCEPT ![h] = [x EXCEPT !.env = e, !.at = "write", !.todo = Adapter!Order]]
  BY <1>1, <1>2 DEF Adapter!Process, Adapter!SameSource
<1>9. CASE run' = Adapter!Ended(h) /\ mu' = mu
  <2>1. JobsInv' /\ run' \in Seq(Jobs)
    BY <1>3, <1>7, <1>9, JobEnds
  <2>2. VendorTyped'
    BY <1>3, <1>5, <2>1 DEF VendorTyped
  <2>3. \A id : Unaudited(id)' <=> Unaudited(id)
    BY <1>3, <1>4, <1>9, <2>1, <2>2, Writers, NextWriters
  <2> QED
    BY <1>3, <1>5, <1>6, <2>1, <2>2, <2>3, CleanStays DEF VendorInv
<1>10. CASE /\ mu' = mu /\ Adapter!Convertible(Profiles[x.adapter], x.src)
            /\ rp \in DOMAIN receipts /\ receipts[rp] # Torn /\ receipts[rp].source = e.source
            /\ records[receipts[rp].record] # Torn
            /\ run' = [run EXCEPT ![h] = [x EXCEPT !.env = records[receipts[rp].record], !.replay = TRUE, !.at = "persist"]]
  <2>1. PICK stored : stored = records[receipts[rp].record]
    OBVIOUS
  <2>2. PICK y : y = [x EXCEPT !.env = stored, !.replay = TRUE, !.at = "persist"]
    OBVIOUS
  <2>3. /\ receipts[rp].record \in DOMAIN records /\ stored # Torn
        /\ stored.source = e.source /\ Adapter!receiptPath(stored) = rp
        /\ stored \in Adapter!Envelopes /\ stored.record = receipts[rp].record
    BY <1>3, <1>10, <2>1 DEF FilesInv, RecordWhole
  <2>4. e.source = x.src.body /\ e.adapter = x.adapter
    BY <1>1, <1>4, <1>10, ConvertFacts DEF Jobs
  <2>5. stored.adapter = e.adapter
    BY <1>2, <2>3 DEF Adapter!receiptPath
  <2>6. y \in Jobs /\ y.id = x.id /\ y.at = "persist" /\ y.env = stored /\ y.src = x.src /\ y.adapter = x.adapter
    BY <1>4, <2>2, <2>3 DEF Jobs
  <2>7. OfSource(y) /\ Kept(stored) /\ Receipted(stored)
    BY <1>10, <2>1, <2>3, <2>4, <2>5, <2>6 DEF OfSource, Kept, Receipted, RecordWhole, ReceiptWhole
  <2>8. JobOK(y)'
    BY <1>4, <1>5, <2>6, <2>7 DEF JobOK, OfSource, Kept, Receipted, RecordWhole, ReceiptWhole
  <2>9. run' = [run EXCEPT ![h] = y] /\ y.id = run[h].id
    BY <1>1, <1>10, <2>1, <2>2, <2>6
  <2>10. JobsInv' /\ run' \in Seq(Jobs)
    BY <1>3, <1>7, <2>6, <2>8, <2>9, JobMoves
  <2>11. VendorTyped'
    BY <1>3, <1>5, <2>10 DEF VendorTyped
  <2>12. \A id : Unaudited(id)' <=> Unaudited(id)
    BY <1>3, <1>4, <1>10, <2>10, <2>11, Writers, NextWriters
  <2> QED
    BY <1>3, <1>5, <1>6, <2>10, <2>11, <2>12, CleanStays DEF VendorInv
<1>11. CASE /\ Adapter!Convertible(Profiles[x.adapter], x.src)
            /\ rp \notin DOMAIN receipts /\ e.record \notin DOMAIN records
            /\ mu' = x.id /\ run' = [run EXCEPT ![h] = [x EXCEPT !.env = e, !.at = "write", !.todo = Adapter!Order]]
  <2>1. PICK y : y = [x EXCEPT !.env = e, !.at = "write", !.todo = Adapter!Order]
    OBVIOUS
  <2>2. e \in Adapter!Envelopes /\ e.source = x.src.body /\ e.adapter = x.adapter
    BY <1>1, <1>4, <1>11, ConvertFacts DEF Jobs
  <2>3. y \in Jobs /\ y.id = x.id /\ y.at = "write" /\ y.env = e /\ y.src = x.src /\ y.adapter = x.adapter /\ y.todo = Adapter!Order
    <3>1. Adapter!Order \in Seq({"record", "receipt", "audit"})
      BY DEF Adapter!Order
    <3> QED
      BY <1>4, <2>1, <2>2, <3>1 DEF Jobs
  <2>4. Adapter!Order # <<"audit">> /\ Adapter!Order # <<"receipt", "audit">>
    BY DEF Adapter!Order
  <2>5. JobOK(y)'
    BY <1>2, <1>4, <1>5, <1>11, <2>2, <2>3, <2>4 DEF JobOK, OfSource, Halfway
  <2>6. run' = [run EXCEPT ![h] = y] /\ y.id = run[h].id
    BY <1>1, <1>11, <2>1, <2>3
  <2>7. \A z \in Jobs : JobOK(z) => JobOK(z)'
    BY <1>5, <1>7 DEF JobOK, OfSource, Kept, Receipted, RecordWhole, ReceiptWhole
  <2>8. JobsInv' /\ run' \in Seq(Jobs) /\ DOMAIN run' = DOMAIN run /\ run'[h] = y
    BY <1>3, <2>3, <2>5, <2>6, <2>7, JobMoves
  <2>9. VendorTyped'
    BY <1>3, <1>5, <2>8 DEF VendorTyped
  <2>10. (\A id : ~Unaudited(id)) /\ (\A id : Unaudited(id)' <=> id = e.record)
    BY <1>3, <1>4, <2>3, <2>8, <2>9, Writers, NextWriters
  <2>11. CleanInv'
    <3> SUFFICES ASSUME stops' = 0 /\ faults' = 0 PROVE CleanInv'
      BY DEF CleanInv
    <3>1. Adapter!Verify' /\ \A id : Entries(id)' = Entries(id)
      BY <1>3, <1>5 DEF CleanInv, Adapter!Verify, Entries
    <3>2. \A r \in DOMAIN receipts : receipts[r] # Torn /\ \E i \in 1..Len(audit) : Entries(receipts[r].record) = {i}
      BY <1>3, <1>5, <2>10 DEF CleanInv
    <3>3. Entries(e.record) = {}
      BY <1>3, <1>5, <1>11 DEF CleanInv, Entries
    <3> QED
      BY <1>3, <1>5, <2>10, <3>1, <3>2, <3>3 DEF CleanInv
  <2> QED
    BY <1>6, <2>8, <2>9, <2>11 DEF VendorInv
<1> QED
  BY <1>8, <1>9, <1>10, <1>11

\* A record is created, whole or torn; what is said of the files there were stands.
LEMMA RecordCreated ==
  ASSUME FilesInv, NEW e \in Adapter!Envelopes, e.record \notin DOMAIN records,
         NEW body, body \in {e, Torn}, records' = Adapter!Put(records, e.record, body),
         UNCHANGED <<receipts, db, told>>
  PROVE  /\ FilesInv' /\ FilesGrow
         /\ DOMAIN records' = DOMAIN records \cup {e.record} /\ records'[e.record] = body
<1>1. PICK next : next = records'
  OBVIOUS
<1>2. /\ DOMAIN next = DOMAIN records \cup {e.record} /\ next[e.record] = body
      /\ \A id \in DOMAIN records : next[id] = records[id]
  BY <1>1 DEF Adapter!Put
<1>3. FilesGrow
  BY <1>1, <1>2 DEF FilesGrow
<1>4. \A id \in DOMAIN next : next[id] # Torn => next[id] \in Adapter!Envelopes /\ next[id].record = id
  BY <1>2 DEF FilesInv
<1>5. ASSUME NEW rp \in DOMAIN receipts, receipts[rp] # Torn, NEW id, id = receipts[rp].record
      PROVE  id \in DOMAIN next /\ next[id] # Torn /\ next[id].source = receipts[rp].source /\ Adapter!receiptPath(next[id]) = rp
  <2>1. id \in DOMAIN records /\ records[id] # Torn /\ records[id].source = receipts[rp].source /\ Adapter!receiptPath(records[id]) = rp
    BY <1>5 DEF FilesInv, RecordWhole
  <2> QED
    BY <1>2, <2>1
<1>6. ASSUME NEW t \in told
      PROVE  /\ t.record \in DOMAIN next /\ next[t.record] # Torn /\ Receipted(next[t.record])
             /\ next[t.record].source = t.source /\ next[t.record].adapter = t.adapter
  <2>1. /\ t.record \in DOMAIN records /\ records[t.record] # Torn /\ Receipted(records[t.record])
        /\ records[t.record].source = t.source /\ records[t.record].adapter = t.adapter
    BY DEF FilesInv, RecordWhole
  <2> QED
    BY <1>2, <2>1
<1>7. \A f : Receipted(f) => Receipted(f)'
  BY DEF Receipted, ReceiptWhole
<1>8. FilesInv'
  BY <1>1, <1>2, <1>4, <1>5, <1>6, <1>7 DEF FilesInv, RecordWhole
<1> QED
  BY <1>1, <1>2, <1>3, <1>8

\* A receipt is created for a record that is kept, whole or torn.
LEMMA ReceiptCreated ==
  ASSUME FilesInv, NEW e \in Adapter!Envelopes, Kept(e), NEW rp, rp = Adapter!receiptPath(e), rp \notin DOMAIN receipts,
         NEW body, body \in {Adapter!Receipt(e), Torn}, receipts' = Adapter!Put(receipts, rp, body),
         UNCHANGED <<records, db, told>>
  PROVE  /\ FilesInv' /\ FilesGrow
         /\ DOMAIN receipts' = DOMAIN receipts \cup {rp} /\ receipts'[rp] = body
<1>1. PICK next : next = receipts'
  OBVIOUS
<1>2. /\ DOMAIN next = DOMAIN receipts \cup {rp} /\ next[rp] = body
      /\ \A r \in DOMAIN receipts : next[r] = receipts[r]
  BY <1>1 DEF Adapter!Put
<1>3. FilesGrow
  BY <1>1, <1>2 DEF FilesGrow
<1>4. ASSUME NEW r \in DOMAIN next, next[r] # Torn, NEW id, id = next[r].record
      PROVE  id \in DOMAIN records /\ records[id] # Torn /\ records[id].source = next[r].source /\ Adapter!receiptPath(records[id]) = r
  <2>1. CASE r \in DOMAIN receipts
    BY <1>2, <1>4, <2>1 DEF FilesInv, RecordWhole
  <2>2. CASE r = rp
    <3>1. next[r] = Adapter!Receipt(e) /\ next[r].record = e.record /\ next[r].source = e.source
      BY <1>2, <1>4, <2>2 DEF Adapter!Receipt
    <3> QED
      BY <1>4, <2>2, <3>1 DEF Kept, RecordWhole
  <2> QED
    BY <1>2, <2>1, <2>2
<1>5. \A f : Receipted(f) => Receipted(f)'
  BY <1>3, Lasting
<1>6. ASSUME NEW t \in told
      PROVE  /\ t.record \in DOMAIN records /\ records[t.record] # Torn /\ Receipted(records[t.record])
             /\ records[t.record].source = t.source /\ records[t.record].adapter = t.adapter
  BY DEF FilesInv, RecordWhole
<1>7. \A id \in DOMAIN records : records[id] # Torn => records[id] \in Adapter!Envelopes /\ records[id].record = id
  BY DEF FilesInv
<1>8. db.keys \subseteq DOMAIN next /\ db.records \subseteq DOMAIN records
  BY <1>2 DEF FilesInv
<1>9. FilesInv'
  BY <1>1, <1>4, <1>5, <1>6, <1>7, <1>8 DEF FilesInv, RecordWhole
<1> QED
  BY <1>1, <1>2, <1>3, <1>9

\* The requests that do not hold the mutex are as before when files are only created.
LEMMA OthersKeep ==
  ASSUME FilesGrow, sends' = sends, NEW z, JobOK(z), z.at # "write"
  PROVE  JobOK(z)'
BY Lasting DEF JobOK, OfSource

\* The request that holds the mutex writes the next file, and goes on holding it.
LEMMA FileWritten ==
  ASSUME VendorInv, NEW h \in DOMAIN run, Adapter!writeExclusive(h), FilesGrow, FilesInv',
         NEW x, x = run[h], OfSource(x), x.id = mu,
         NEW todo \in Seq({"record", "receipt", "audit"}), todo = Tail(x.todo),
         NEW y, y = [x EXCEPT !.todo = todo], Halfway(y)'
  PROVE  /\ JobsInv' /\ VendorTyped'
         /\ \A id : (Unaudited(id) <=> id = x.env.record) /\ (Unaudited(id)' <=> id = x.env.record)
<1>1. x = run[h]
  OBVIOUS
<1>2. y = [x EXCEPT !.todo = todo]
  OBVIOUS
<1>3. VendorTyped /\ JobsInv
  BY DEF VendorInv
<1>4. x \in Jobs /\ JobOK(x) /\ x.at = "write"
  BY <1>1, <1>3, JobFacts DEF Adapter!writeExclusive
<1>5. UNCHANGED <<audit, mu, stops, sends, faults>> /\ run' = [run EXCEPT ![h] = y]
  BY <1>1, <1>2 DEF Adapter!writeExclusive
<1>6. y \in Jobs /\ y.at = "write" /\ y.id = x.id /\ y.env = x.env /\ y.src = x.src /\ y.adapter = x.adapter
  BY <1>2, <1>4 DEF Jobs
<1>7. Halfway(y)'
  OBVIOUS
<1>8. JobOK(y)'
  BY <1>1, <1>4, <1>5, <1>6, <1>7 DEF JobOK, OfSource
<1>9. \A z \in Jobs : JobOK(z) /\ z.id # x.id => JobOK(z)'
  <2>1. \A z \in Jobs : JobOK(z) /\ z.id # x.id => z.at # "write"
    BY <1>1 DEF JobOK
  <2> QED
    BY <1>5, <2>1, OthersKeep
<1>10. JobsInv' /\ run' \in Seq(Jobs) /\ DOMAIN run' = DOMAIN run /\ run'[h] = y
  BY <1>1, <1>3, <1>5, <1>6, <1>8, <1>9, JobMoves
<1>11. VendorTyped'
  BY <1>3, <1>5, <1>10 DEF VendorTyped
<1>12. \A id : Unaudited(id) <=> id = x.env.record
  BY <1>1, <1>3, <1>4, Writers
<1>13. \A id : Unaudited(id)' <=> id = x.env.record
  <2>1. h \in DOMAIN run' /\ run'[h].at = "write" /\ run'[h].env = x.env
    BY <1>6, <1>10
  <2> QED
    BY <1>10, <1>11, <2>1, NextWriters
<1> QED
  BY <1>10, <1>11, <1>12, <1>13

LEMMA WriteKeeps ==
  ASSUME VendorInv, NEW h \in DOMAIN run, Adapter!writeExclusive(h)
  PROVE  VendorInv'
<1>1. PICK x, e, y : x = run[h] /\ e = x.env /\ y = [x EXCEPT !.todo = Tail(@)]
  OBVIOUS
<1>2. PICK rp : rp = Adapter!receiptPath(e)
  OBVIOUS
<1>3. VendorTyped /\ JobsInv /\ FilesInv /\ CleanInv
  BY DEF VendorInv
<1>4. x \in Jobs /\ JobOK(x) /\ x.at = "write" /\ Head(x.todo) # "audit"
  BY <1>1, <1>3, JobFacts DEF Adapter!writeExclusive
<1>5. x.id = mu /\ OfSource(x) /\ Halfway(x) /\ e \in Adapter!Envelopes
  BY <1>1, <1>4 DEF JobOK, OfSource
<1>6. UNCHANGED <<audit, db, told, stops, faults>>
  BY DEF Adapter!writeExclusive
<1>7. \A id : Entries(id)' = Entries(id)
  BY <1>6 DEF Entries
<1>8. y.todo = Tail(x.todo) /\ y.env = e
  BY <1>1, <1>4 DEF Jobs
<1>9. CASE x.todo = Adapter!Order /\ Head(x.todo) = "record" /\ Tail(x.todo) = <<"receipt", "audit">>
  <2>1. records' = Adapter!Put(records, e.record, e) /\ receipts' = receipts
    BY <1>1, <1>9 DEF Adapter!writeExclusive
  <2>2. e.record \notin DOMAIN records /\ rp \notin DOMAIN receipts
    <3>1. Adapter!Order # <<"audit">>
      BY DEF Adapter!Order
    <3> QED
      BY <1>1, <1>2, <1>5, <1>9, <3>1 DEF Halfway
  <2>3. FilesInv' /\ FilesGrow /\ DOMAIN records' = DOMAIN records \cup {e.record} /\ records'[e.record] = e
    BY <1>3, <1>5, <1>6, <2>1, <2>2, RecordCreated
  <2>4. Kept(e)'
    <3>1. PICK next : next = records'
      OBVIOUS
    <3>2. e.record \in DOMAIN next /\ next[e.record] = e /\ e # Torn
      BY <2>3, <3>1, <1>5, EnvelopeFacts
    <3> QED
      BY <3>1, <3>2 DEF Kept, RecordWhole
  <2>5. Halfway(y)'
    <3>1. y.todo = <<"receipt", "audit">> /\ y.todo # Adapter!Order /\ y.todo # <<"audit">>
      BY <1>8, <1>9 DEF Adapter!Order
    <3> QED
      BY <1>2, <1>8, <2>1, <2>2, <2>4, <3>1 DEF Halfway
  <2>6. JobsInv' /\ VendorTyped' /\ \A id : (Unaudited(id) <=> id = e.record) /\ (Unaudited(id)' <=> id = e.record)
    <3>1. PICK todo : todo = <<"receipt", "audit">>
      OBVIOUS
    <3>2. todo \in Seq({"record", "receipt", "audit"})
      BY <3>1
    <3>3. todo = Tail(x.todo) /\ y = [x EXCEPT !.todo = todo]
      BY <1>1, <1>9, <3>1
    <3> QED
      BY <1>1, <1>5, <2>3, <2>5, <3>2, <3>3, FileWritten
  <2>7. CleanInv'
    <3> SUFFICES ASSUME stops' = 0 /\ faults' = 0 PROVE CleanInv'
      BY DEF CleanInv
    <3>1. Adapter!Verify'
      <4>1. PICK next : next = records'
        OBVIOUS
      <4>2. \A id \in DOMAIN next : next[id] # Torn
        BY <4>1, <1>3, <1>5, <1>6, <2>3, EnvelopeFacts DEF CleanInv, Adapter!Verify, FilesGrow
      <4> QED
        BY <4>1, <4>2, <1>3, <1>6 DEF CleanInv, Adapter!Verify
    <3>2. \A i \in 1..Len(audit) : Last(audit[i]) \in DOMAIN records'
      BY <1>3, <1>6, <2>3 DEF CleanInv
    <3> QED
      BY <1>3, <1>6, <1>7, <2>1, <2>6, <3>1, <3>2 DEF CleanInv
  <2> QED
    BY <2>3, <2>6, <2>7 DEF VendorInv
<1>10. CASE x.todo = <<"receipt", "audit">> /\ Head(x.todo) = "receipt" /\ Tail(x.todo) = <<"audit">>
  <2>1. records' = records /\ receipts' = Adapter!Put(receipts, rp, Adapter!Receipt(e))
    BY <1>1, <1>2, <1>10 DEF Adapter!writeExclusive
  <2>2. Kept(e) /\ rp \notin DOMAIN receipts
    <3>1. <<"receipt", "audit">> # <<"audit">> /\ <<"receipt", "audit">> # Adapter!Order
      BY DEF Adapter!Order
    <3> QED
      BY <1>1, <1>2, <1>5, <1>10, <3>1 DEF Halfway
  <2>3. FilesInv' /\ FilesGrow /\ DOMAIN receipts' = DOMAIN receipts \cup {rp} /\ receipts'[rp] = Adapter!Receipt(e)
    BY <1>2, <1>3, <1>5, <1>6, <2>1, <2>2, ReceiptCreated
  <2>4. Receipted(e)'
    <3>1. PICK next : next = receipts'
      OBVIOUS
    <3>2. rp \in DOMAIN next /\ next[rp] # Torn /\ next[rp].record = e.record
      BY <2>3, <3>1, <1>5, EnvelopeFacts DEF Adapter!Receipt
    <3> QED
      BY <1>2, <3>1, <3>2 DEF Receipted, ReceiptWhole
  <2>5. Halfway(y)'
    <3>1. y.todo = <<"audit">> /\ y.todo # Adapter!Order
      BY <1>8, <1>10 DEF Adapter!Order
    <3>2. Kept(e)'
      BY <2>1, <2>2 DEF Kept, RecordWhole
    <3> QED
      BY <1>8, <2>4, <3>1, <3>2 DEF Halfway
  <2>6. JobsInv' /\ VendorTyped' /\ \A id : (Unaudited(id) <=> id = e.record) /\ (Unaudited(id)' <=> id = e.record)
    <3>1. PICK todo : todo = <<"audit">>
      OBVIOUS
    <3>2. todo \in Seq({"record", "receipt", "audit"})
      BY <3>1
    <3>3. todo = Tail(x.todo) /\ y = [x EXCEPT !.todo = todo]
      BY <1>1, <1>10, <3>1
    <3> QED
      BY <1>1, <1>5, <2>3, <2>5, <3>2, <3>3, FileWritten
  <2>7. CleanInv'
    <3> SUFFICES ASSUME stops' = 0 /\ faults' = 0 PROVE CleanInv'
      BY DEF CleanInv
    <3>1. Adapter!Verify'
      BY <1>3, <1>6, <2>1 DEF CleanInv, Adapter!Verify
    <3>2. PICK next : next = receipts'
      OBVIOUS
    <3>3. \A r \in DOMAIN next : next[r] # Torn
      BY <3>2, <1>3, <1>5, <1>6, <2>3, EnvelopeFacts DEF CleanInv, FilesGrow
    <3>4. ASSUME NEW r \in DOMAIN next, ~Unaudited(next[r].record)'
          PROVE  \E i \in 1..Len(audit) : Entries(next[r].record) = {i}
      <4>1. r # rp
        BY <2>3, <2>6, <3>2, <3>4 DEF Adapter!Receipt
      <4>2. r \in DOMAIN receipts /\ next[r] = receipts[r]
        BY <2>3, <3>2, <4>1 DEF FilesGrow
      <4>3. ~Unaudited(receipts[r].record)
        BY <2>6, <3>2, <3>4, <4>2
      <4> QED
        BY <1>3, <1>6, <4>2, <4>3 DEF CleanInv
    <3> QED
      BY <1>3, <1>6, <1>7, <2>1, <2>6, <3>1, <3>2, <3>3, <3>4 DEF CleanInv
  <2> QED
    BY <2>3, <2>6, <2>7 DEF VendorInv
<1> QED
  BY <1>4, <1>5, <1>9, <1>10, NextFile

LEMMA AppendAuditKeeps ==
  ASSUME VendorInv, NEW h \in DOMAIN run, Adapter!appendAudit(h)
  PROVE  VendorInv'
<1>1. PICK x, e : x = run[h] /\ e = x.env
  OBVIOUS
<1>2. VendorTyped /\ JobsInv /\ FilesInv /\ CleanInv
  BY DEF VendorInv
<1>3. x \in Jobs /\ JobOK(x) /\ x.at = "write" /\ x.todo = <<"audit">>
  BY <1>1, <1>2, JobFacts DEF Adapter!appendAudit
<1>4. x.id = mu /\ OfSource(x) /\ Kept(e) /\ Receipted(e) /\ e \in Adapter!Envelopes /\ e.record \in Ids
  <2>1. x.id = mu /\ OfSource(x) /\ Halfway(x)
    BY <1>3 DEF JobOK
  <2>2. <<"audit">> # Adapter!Order
    BY DEF Adapter!Order
  <2> QED
    BY <1>1, <1>3, <2>1, <2>2, EnvelopeFacts DEF Halfway, OfSource
<1>5. UNCHANGED <<records, receipts, db, told, stops, sends, faults>> /\ mu' = 0
  BY DEF Adapter!appendAudit
<1>6. FilesInv' /\ FilesGrow
  BY <1>2, <1>5, FilesStay
<1>7. \A z \in Jobs : JobOK(z) /\ z.id # x.id => JobOK(z)'
  <2>1. \A z \in Jobs : JobOK(z) /\ z.id # x.id => z.at # "write"
    BY <1>4 DEF JobOK
  <2> QED
    BY <1>5, <1>6, <2>1, OthersKeep
<1>8. PICK n : n = Len(audit)
  OBVIOUS
<1>9. /\ n \in Nat /\ DOMAIN audit = 1 .. n /\ \A i \in 1 .. n : audit[i] \in Seq(Ids) \cup {Torn}
      /\ audit = <<>> <=> n = 0
      /\ n # 0 => Last(audit) = audit[n] /\ Adapter!Last(audit) = audit[n]
  BY <1>2, <1>8, LenProperties, ElementOfSeq, EmptySeq DEF VendorTyped, Last, Adapter!Last
<1>10. CASE n # 0 /\ audit[n] = Torn
  <2>1. audit' = audit /\ run' = Adapter!Ended(h)
    BY <1>9, <1>10 DEF Adapter!appendAudit
  <2>2. JobsInv' /\ run' \in Seq(Jobs)
    BY <1>1, <1>2, <1>7, <2>1, JobEnds
  <2>3. VendorTyped'
    BY <1>2, <1>5, <2>1, <2>2 DEF VendorTyped
  <2>4. ~(stops' = 0 /\ faults' = 0)
    BY <1>2, <1>5, <1>8, <1>9, <1>10 DEF CleanInv, Adapter!Verify
  <2>5. CleanInv'
    BY <2>4 DEF CleanInv
  <2> QED
    BY <1>6, <2>2, <2>3, <2>5 DEF VendorInv
<1>11. CASE ~(n # 0 /\ audit[n] = Torn)
  <2>1. PICK chain : chain = IF n = 0 THEN <<>> ELSE audit[n]
    OBVIOUS
  <2>2. PICK s, y : s = Append(chain, e.record) /\ y = [x EXCEPT !.at = "persist"]
    OBVIOUS
  <2>3. audit' = Append(audit, s) /\ run' = [run EXCEPT ![h] = y]
    BY <1>1, <1>9, <1>11, <2>1, <2>2 DEF Adapter!appendAudit
  <2>4. chain \in Seq(Ids)
    BY <1>9, <1>11, <2>1, EmptySeq
  <2>5. /\ s \in Seq(Ids) /\ s # Torn /\ Len(s) = Len(chain) + 1 /\ s[Len(s)] = e.record
        /\ \A i \in 1 .. Len(chain) : s[i] = chain[i]
    BY <1>4, <2>2, <2>4, AppendProperties, LenProperties, TrailIsNotTorn
  <2>6. y \in Jobs /\ y.at = "persist" /\ y.id = x.id /\ y.env = e /\ y.src = x.src /\ y.adapter = x.adapter
    BY <1>1, <1>3, <2>2 DEF Jobs
  <2>7. Kept(e)' /\ Receipted(e)'
    BY <1>4, <1>6, Lasting
  <2>8. JobOK(y)'
    BY <1>1, <1>3, <1>4, <1>5, <2>6, <2>7 DEF JobOK, OfSource
  <2>9. JobsInv' /\ run' \in Seq(Jobs)
    BY <1>1, <1>2, <1>7, <2>3, <2>6, <2>8, JobMoves
  <2>10. PICK next : next = audit'
    OBVIOUS
  <2>11. /\ next \in Seq(Seq(Ids) \cup {Torn}) /\ Len(next) = n + 1 /\ next[n + 1] = s
         /\ \A i \in 1 .. n : next[i] = audit[i]
    <3>1. audit \in Seq(Seq(Ids) \cup {Torn}) /\ s \in Seq(Ids) \cup {Torn}
      BY <1>2, <2>5 DEF VendorTyped
    <3> QED
      BY <1>8, <2>3, <2>10, <3>1, AppendProperties
  <2>12. VendorTyped'
    BY <1>2, <1>5, <2>9, <2>10, <2>11 DEF VendorTyped
  <2>13. (\A id : Unaudited(id) <=> id = e.record) /\ (\A id : ~Unaudited(id)')
    BY <1>1, <1>2, <1>3, <1>5, <2>9, <2>12, Writers, NextWriters
  <2>14. CleanInv'
    <3> SUFFICES ASSUME stops' = 0 /\ faults' = 0 PROVE CleanInv'
      BY DEF CleanInv
    <3>1. /\ Adapter!Verify /\ \A rp \in DOMAIN receipts : receipts[rp] # Torn
          /\ \A i \in 1 .. n : Last(audit[i]) \in DOMAIN records
          /\ \A rp \in DOMAIN receipts : ~Unaudited(receipts[rp].record) => \E i \in 1 .. n : Entries(receipts[rp].record) = {i}
          /\ Entries(e.record) = {}
      BY <1>2, <1>4, <1>5, <1>8, <2>13 DEF CleanInv
    <3>2. /\ \A i \in 1 .. n : audit[i] # Torn /\ Len(audit[i]) = i /\ (i > 1 => Adapter!IsPrefix(audit[i - 1], audit[i]))
          /\ \A id \in DOMAIN records : records[id] # Torn
      BY <1>8, <3>1 DEF Adapter!Verify
    <3>3. Len(chain) = n /\ (n # 0 => chain = audit[n])
      BY <1>9, <2>1, <3>2, EmptySeq
    <3>4. Adapter!IsPrefix(chain, s)
      BY <2>4, <2>5, LenProperties DEF Adapter!IsPrefix
    <3>5. \A i \in 1 .. n + 1 : next[i] # Torn /\ Len(next[i]) = i /\ (i > 1 => Adapter!IsPrefix(next[i - 1], next[i]))
      BY <1>9, <2>5, <2>11, <3>2, <3>3, <3>4
    <3>6. Adapter!Verify'
      BY <1>5, <2>10, <2>11, <3>2, <3>5 DEF Adapter!Verify
    <3>7. Last(s) = e.record
      BY <2>5 DEF Last
    <3>8. \A id : Entries(id)' = IF id = e.record THEN Entries(id) \cup {n + 1} ELSE Entries(id)
      BY <1>8, <1>9, <2>10, <2>11, <3>7 DEF Entries
    <3>9. \A i \in 1 .. n + 1 : Last(next[i]) \in DOMAIN records
      BY <1>4, <1>9, <2>11, <3>1, <3>7 DEF Kept, RecordWhole
    <3>10. ASSUME NEW rp \in DOMAIN receipts PROVE \E i \in 1 .. n + 1 : Entries(receipts[rp].record)' = {i}
      <4>1. PICK id : id = receipts[rp].record
        OBVIOUS
      <4>2. CASE id = e.record
        <5>1. Entries(id)' = {n + 1}
          BY <3>1, <3>8, <4>2
        <5> QED
          BY <1>5, <1>9, <4>1, <5>1
      <4>3. CASE id # e.record
        <5>1. PICK i \in 1 .. n : Entries(id) = {i}
          BY <2>13, <3>1, <4>1, <4>3
        <5>2. i \in 1 .. n + 1 /\ Entries(id)' = {i}
          BY <1>9, <3>8, <4>3, <5>1
        <5> QED
          BY <1>5, <4>1, <5>2
      <4> QED
        BY <4>2, <4>3
    <3> QED
      BY <1>5, <2>10, <2>11, <2>13, <3>1, <3>6, <3>9, <3>10 DEF CleanInv
  <2> QED
    BY <1>6, <2>9, <2>12, <2>14 DEF VendorInv
<1> QED
  BY <1>10, <1>11

\* What a cut-off write leaves is torn: it says nothing, and hides nothing there was.
LEMMA TearKeeps ==
  ASSUME VendorInv, NEW h \in DOMAIN run, run[h].at = "write", Adapter!Tear(h), UNCHANGED <<db, told>>
  PROVE  FilesInv' /\ FilesGrow /\ audit' \in Seq(Seq(Ids) \cup {Torn})
<1>1. PICK x, e, rp : x = run[h] /\ e = x.env /\ rp = Adapter!receiptPath(e)
  OBVIOUS
<1>2. VendorTyped /\ JobsInv /\ FilesInv /\ audit \in Seq(Seq(Ids) \cup {Torn})
  BY DEF VendorInv, VendorTyped
<1>3. OfSource(x) /\ Halfway(x) /\ e \in Adapter!Envelopes
  BY <1>1, <1>2, JobFacts DEF JobOK, OfSource
<1>4. <<"audit">> # Adapter!Order /\ <<"receipt", "audit">> # Adapter!Order /\ <<"audit">> # <<"receipt", "audit">>
  BY DEF Adapter!Order
<1>5. CASE x.todo = Adapter!Order /\ Head(x.todo) = "record"
  <2>1. records' = Adapter!Put(records, e.record, Torn) /\ UNCHANGED <<receipts, audit>> /\ e.record \notin DOMAIN records
    BY <1>1, <1>3, <1>4, <1>5 DEF Adapter!Tear, Halfway
  <2> QED
    BY <1>2, <1>3, <2>1, RecordCreated
<1>6. CASE x.todo = <<"receipt", "audit">> /\ Head(x.todo) = "receipt"
  <2>1. receipts' = Adapter!Put(receipts, rp, Torn) /\ UNCHANGED <<records, audit>> /\ rp \notin DOMAIN receipts /\ Kept(e)
    BY <1>1, <1>3, <1>4, <1>6 DEF Adapter!Tear, Halfway
  <2> QED
    BY <1>1, <1>2, <1>3, <2>1, ReceiptCreated
<1>7. CASE x.todo = <<"audit">> /\ Head(x.todo) = "audit"
  <2>1. UNCHANGED <<records, receipts>> /\ (audit' = audit \/ audit' = Append(audit, Torn))
    BY <1>1, <1>7 DEF Adapter!Tear
  <2>2. FilesInv' /\ FilesGrow
    BY <1>2, <2>1, FilesStay
  <2>3. audit' \in Seq(Seq(Ids) \cup {Torn})
    BY <1>2, <2>1, AppendProperties
  <2> QED
    BY <2>2, <2>3
<1> QED
  BY <1>3, <1>5, <1>6, <1>7, NextFile

LEMMA WriteFailsKeeps ==
  ASSUME VendorInv, NEW h \in DOMAIN run, Adapter!WriteFails(h)
  PROVE  VendorInv'
<1>1. PICK x : x = run[h]
  OBVIOUS
<1>2. VendorTyped /\ JobsInv /\ faults \in Nat /\ sends \in Nat /\ stops \in Nat
  BY DEF VendorInv, VendorTyped
<1>3. /\ x.at = "write" /\ Adapter!Tear(h) /\ run' = Adapter!Ended(h)
      /\ faults' = faults + 1 /\ UNCHANGED <<db, told, stops, sends>>
  BY <1>1 DEF Adapter!WriteFails, Adapter!Writing
<1>4. FilesInv' /\ FilesGrow /\ audit' \in Seq(Seq(Ids) \cup {Torn})
  BY <1>1, <1>3, TearKeeps
<1>5. \A z \in Jobs : JobOK(z) /\ z.id # x.id => JobOK(z)'
  <2>1. \A z \in Jobs : JobOK(z) /\ z.id # x.id => z.at # "write"
    BY <1>1, <1>2, <1>3, JobFacts DEF JobOK
  <2> QED
    BY <1>3, <1>4, <2>1, OthersKeep
<1>6. JobsInv' /\ run' \in Seq(Jobs)
  BY <1>1, <1>2, <1>3, <1>5, JobEnds
<1>7. VendorTyped'
  BY <1>2, <1>3, <1>4, <1>6 DEF VendorTyped
<1>8. CleanInv'
  BY <1>2, <1>3 DEF CleanInv
<1> QED
  BY <1>4, <1>6, <1>7, <1>8 DEF VendorInv

LEMMA StopKeeps ==
  ASSUME VendorInv, Adapter!Stop
  PROVE  VendorInv'
<1>1. VendorTyped /\ FilesInv /\ audit \in Seq(Seq(Ids) \cup {Torn}) /\ stops \in Nat
  BY DEF VendorInv, VendorTyped
<1>2. run' = <<>> /\ stops' = stops + 1 /\ UNCHANGED <<db, told, sends, faults>>
  BY DEF Adapter!Stop
<1>3. FilesInv' /\ audit' \in Seq(Seq(Ids) \cup {Torn})
  <2>1. CASE UNCHANGED <<records, receipts, audit>>
    BY <1>1, <1>2, <2>1, FilesStay
  <2>2. CASE \E h \in DOMAIN run : Adapter!Writing(h) /\ Adapter!Tear(h)
    <3>1. PICK h \in DOMAIN run : run[h].at = "write" /\ Adapter!Tear(h)
      BY <2>2 DEF Adapter!Writing
    <3> QED
      BY <1>2, <3>1, TearKeeps
  <2> QED
    BY <2>1, <2>2 DEF Adapter!Stop
<1>4. JobsInv' /\ VendorTyped'
  <2>1. PICK next : next = run'
    OBVIOUS
  <2>2. next \in Seq(Jobs) /\ DOMAIN next = {}
    BY <1>2, <2>1, EmptySeq
  <2> QED
    BY <1>1, <1>2, <1>3, <2>1, <2>2 DEF JobsInv, VendorTyped
<1>5. CleanInv'
  BY <1>1, <1>2 DEF CleanInv
<1> QED
  BY <1>3, <1>4, <1>5 DEF VendorInv

\* A request that has its record and its receipt in the directory copies them, or not, and is answered, or not.
LEMMA PersistKeeps ==
  ASSUME VendorInv, NEW h \in DOMAIN run, Adapter!Persist(h) \/ Adapter!PersistFails(h)
  PROVE  VendorInv'
<1>1. PICK x, e, rp : x = run[h] /\ e = x.env /\ rp = Adapter!receiptPath(e)
  OBVIOUS
<1>2. PICK t : t = [adapter |-> x.adapter, source |-> x.src.body, record |-> e.record, replay |-> x.replay]
  OBVIOUS
<1>3. VendorTyped /\ JobsInv /\ FilesInv /\ CleanInv /\ faults \in Nat
  BY DEF VendorInv, VendorTyped
<1>4. /\ UNCHANGED <<records, receipts, audit, mu, stops, sends>> /\ mu = 0 /\ x.at = "persist"
      /\ faults' \in {faults, faults + 1} /\ run' = Adapter!Ended(h)
      /\ db' \in {db, [records |-> db.records \cup {e.record}, keys |-> db.keys \cup {rp}]}
      /\ told' \in {told, told \cup {t}}
  BY <1>1, <1>2 DEF Adapter!Persist, Adapter!PersistFails, Adapter!Answer
<1>5. OfSource(x) /\ Kept(e) /\ Receipted(e)
  BY <1>1, <1>3, <1>4, JobFacts DEF JobOK
<1>6. db'.keys \subseteq DOMAIN receipts /\ db'.records \subseteq DOMAIN records
  <2>1. e.record \in DOMAIN records /\ rp \in DOMAIN receipts
    BY <1>1, <1>5 DEF Kept, Receipted, RecordWhole, ReceiptWhole
  <2> QED
    BY <1>3, <1>4, <2>1 DEF FilesInv
<1>7. /\ RecordWhole(t.record) /\ Receipted(records[t.record])
      /\ records[t.record].source = t.source /\ records[t.record].adapter = t.adapter
  BY <1>1, <1>2, <1>5 DEF Kept, OfSource
<1>8. FilesInv'
  BY <1>3, <1>4, <1>6, <1>7 DEF FilesInv, RecordWhole, ReceiptWhole, Receipted
<1>9. \A z \in Jobs : JobOK(z) => JobOK(z)'
  BY <1>4 DEF JobOK, OfSource, Halfway, Kept, Receipted, RecordWhole, ReceiptWhole
<1>10. JobsInv' /\ run' \in Seq(Jobs)
  BY <1>3, <1>4, <1>9, JobEnds
<1>11. VendorTyped'
  BY <1>3, <1>4, <1>10 DEF VendorTyped
<1>12. \A id : ~Unaudited(id) /\ ~Unaudited(id)'
  BY <1>3, <1>4, <1>10, <1>11, Writers, NextWriters
<1>13. CleanInv'
  BY <1>3, <1>4, <1>12, CleanStays
<1> QED
  BY <1>8, <1>10, <1>11, <1>13 DEF VendorInv

LEMMA VendorStep ==
  ASSUME VendorInv, [Adapter!Next]_vendorVars PROVE VendorInv'
<1>1. CASE UNCHANGED vendorVars
  <2>1. UNCHANGED <<records, receipts, audit, mu, run, db, told, stops, sends, faults>>
    BY <1>1 DEF vendorVars
  <2>2. VendorTyped /\ JobsInv /\ FilesInv /\ CleanInv
    BY DEF VendorInv
  <2>3. VendorTyped'
    BY <2>1, <2>2 DEF VendorTyped
  <2>4. JobsInv'
    <3>1. \A i \in DOMAIN run : JobOK(run[i])'
      BY <2>1, <2>2 DEF JobsInv, JobOK, OfSource, Halfway, Kept, Receipted, RecordWhole, ReceiptWhole
    <3> QED
      BY <2>1, <2>2, <3>1 DEF JobsInv
  <2>5. FilesInv'
    BY <2>1, <2>2, FilesStay
  <2>6. CleanInv'
    BY <2>1, <2>2, CleanStays DEF Unaudited
  <2> QED
    BY <2>3, <2>4, <2>5, <2>6 DEF VendorInv
<1>2. CASE Adapter!Next
  BY <1>2, IngestKeeps, ProcessKeeps, WriteKeeps, AppendAuditKeeps, WriteFailsKeeps, PersistKeeps, StopKeeps DEF Adapter!Next
<1> QED
  BY <1>1, <1>2

LEMMA VendorGoal ==
  ASSUME VendorInv PROVE ReplayIsExact
<1>1. VendorTyped /\ JobsInv /\ FilesInv /\ CleanInv
  BY DEF VendorInv
<1>2. Adapter!ReplayIsExact
  <2>1. \A t \in told : /\ records[t.record] # Torn /\ records[t.record].source = t.source /\ records[t.record].adapter = t.adapter
                        /\ records[t.record].record = t.record /\ Receipted(records[t.record])
    BY <1>1 DEF FilesInv, RecordWhole
  <2> QED
    BY <2>1 DEF Adapter!ReplayIsExact, Receipted
<1>3. Adapter!ReceiptsAreBacked
  <2>1. /\ \A rp \in DOMAIN receipts : receipts[rp] # Torn =>
             LET id == receipts[rp].record IN
             id \in DOMAIN records /\ records[id] # Torn /\ records[id].source = receipts[rp].source /\ Adapter!receiptPath(records[id]) = rp
        /\ db.keys \subseteq DOMAIN receipts /\ db.records \subseteq DOMAIN records
    BY <1>1 DEF FilesInv, RecordWhole
  <2>2. ASSUME stops = 0 /\ faults = 0 /\ mu = 0, NEW rp \in DOMAIN receipts
        PROVE  Adapter!Cardinality({i \in 1..Len(audit) : Adapter!Last(audit[i]) = receipts[rp].record}) = 1
    <3>1. PICK k \in 1 .. Len(audit) : Entries(receipts[rp].record) = {k}
      BY <1>1, <2>2, Writers DEF CleanInv
    <3>2. {i \in 1..Len(audit) : Adapter!Last(audit[i]) = receipts[rp].record} = {k}
      BY <3>1 DEF Entries, Last, Adapter!Last
    <3>3. Cardinality({k}) = 1
      BY FS_Singleton
    <3>4. Adapter!Cardinality({k}) = Cardinality({k})
      BY Zenon DEF Cardinality, Adapter!Cardinality
    <3> QED
      BY <3>2, <3>3, <3>4
  <2>3. stops = 0 /\ faults = 0 => Adapter!Verify
    BY <1>1 DEF CleanInv
  <2> QED
    BY <2>1, <2>2, <2>3, Zenon DEF Adapter!ReceiptsAreBacked
<1> QED
  BY <1>2, <1>3 DEF ReplayIsExact

(* However often an alert is sent, torn, refused or cut off, an answer     *)
(* carries a whole record of the bytes that were sent, no key is answered  *)
(* with two records, a receipt names a whole record of its source, and     *)
(* while nothing was cut off every record is audited once (Process,        *)
(* writeExclusive, appendAudit, Persist).                                  *)
THEOREM VendorSound == Adapter!Spec => []ReplayIsExact
<1>1. [Adapter!Next]_(Adapter!vars) => [Adapter!Next]_vendorVars
  BY DEF Adapter!vars, vendorVars
<1> QED
  BY <1>1, VendorStart, VendorStep, VendorGoal, PTL DEF Adapter!Spec
---------------------------------------------------------------------------
(* The assistance: assistancerag.                                          *)

DraftPlaces == {"console", "lock", "generate", "guard", "write", "answer"}
DraftFields == {"req", "at", "id", "passages", "draft", "todo"}
Reviewed(q) == q.op = "review"

\* of an operation's files the first is written, the receipt is not
Rest == <<[file |-> "receipt"], [file |-> "audit"]>>
HalfDone(x) == x.at = "write" /\ x.todo = Rest
Full(x) == x.at = "write" /\ Len(x.todo) = 3
Holds(x) == x.at \in {"generate", "guard", "write"}
Written(x) == x.at = "answer" \/ (x.at = "write" /\ ~Full(x))
Halves == {draftRun[h] : h \in {k \in DOMAIN draftRun : HalfDone(draftRun[k])}}

Retrieved(passages) == \A p \in passages : \E c \in Corpus : c.id = p.id /\ c.tenant \in {"*", CaseTenant}
Grounded(b) == b.status = "completed" =>
    b.draft # Nothing /\ \A c \in b.draft.cites : \E p \in Corpus : p.id = c /\ p.tenant \in {"*", CaseTenant}
InHistory(e, id) == id \in DOMAIN reviews /\ \E i \in DOMAIN reviews[id] : reviews[id][i] = e
AnotherAsked(q) == q.of \in DOMAIN drafts /\ drafts[q.of].actor # q.actor
AcceptStands(e, id) == e.action = "accept" /\ torn = {} => drafts[id].status = "completed"

\* what a request in hand is about to write, or has written
Begun(x) ==
    LET q == x.req IN
    /\ Assist!receiptPath(q) \notin DOMAIN draftReceipts
    /\ ~Reviewed(q) => /\ torn = {} => x.id \notin DOMAIN drafts
                       /\ x.id = Assist!AssistanceID(q, x.passages) /\ Retrieved(x.passages)
                       /\ x.at = "guard" => x.draft # Nothing
                       /\ Full(x) => LET b == x.todo[1].body IN b.actor = q.actor /\ b.tenant = CaseTenant /\ Grounded(b)
    /\ Reviewed(q) => /\ Full(x) /\ x.todo[1].body = Assist!Seen(q) /\ x.id = q.of /\ q.of \in DOMAIN drafts
                      /\ AcceptStands(q, q.of)
                      /\ Assist!Seen(q) \notin torn => ~InHistory(Assist!Seen(q), q.of)
DraftJobOK(x) ==
    /\ DOMAIN x = DraftFields /\ x.req \in DraftRequests /\ x.at \in DraftPlaces
    /\ Holds(x) => draftLock
    /\ Reviewed(x.req) /\ x.req.via = "console" /\ x.at # "console" => AnotherAsked(x.req)
    /\ x.at = "write" => Full(x) \/ x.todo \in {Rest, <<[file |-> "audit"]>>, <<>>}
    /\ Full(x) => x.todo = Assist!Files(IF Reviewed(x.req) THEN "review" ELSE "record", x.todo[1].body)
    /\ Holds(x) /\ ~Written(x) => Begun(x)
    /\ Written(x) /\ Reviewed(x.req) => x.id = x.req.of /\ InHistory(Assist!Seen(x.req), x.req.of)
    /\ HalfDone(x) /\ ~Reviewed(x.req) => x.id[1] = x.req.key
DraftsInv ==
    /\ \A h \in DOMAIN draftRun : DraftJobOK(draftRun[h])
    /\ \A g, h \in DOMAIN draftRun : Holds(draftRun[g]) /\ Holds(draftRun[h]) => g = h

\* what is on disk: an event of a record's history, a record
EventOK(e, id) ==
    /\ id \in DOMAIN drafts
    /\ \E q \in DraftRequests : e = Assist!Seen(q) /\ Reviewed(q) /\ q.of = id /\ (q.via = "console" => drafts[id].actor # q.actor)
    /\ AcceptStands(e, id)
    /\ e \in torn \/ <<<<"review", id>>, e.key>> \in DOMAIN draftReceipts \/ \E x \in Halves : Assist!Seen(x.req) = e
RecordOK(id) ==
    /\ drafts[id].actor = id[2] /\ drafts[id].tenant = CaseTenant /\ Grounded(drafts[id])
    /\ \/ torn # {} \/ <<<<"assist">>, id[1]>> \in DOMAIN draftReceipts
       \/ \E x \in Halves : ~Reviewed(x.req) /\ x.id = id
HistoryInv ==
    /\ \A id \in DOMAIN drafts : RecordOK(id)
    /\ \A id \in DOMAIN reviews : \A i \in DOMAIN reviews[id] :
          /\ EventOK(reviews[id][i], id)
          /\ reviews[id][i] \notin torn => \A j \in DOMAIN reviews[id] : reviews[id][j] = reviews[id][i] => i = j
    /\ \A rp \in DOMAIN draftReceipts : Reviewed(draftReceipts[rp].request) => InHistory(draftReceipts[rp].request, draftReceipts[rp].request.of)
    /\ \A t \in draftTold : Reviewed(t[1]) => InHistory(t[1], t[2])
DraftTyped == Own(draftRun) /\ \A id \in DOMAIN reviews : Own(reviews[id])
DraftInv == DraftTyped /\ DraftsInv /\ HistoryInv

LEMMA DraftStart ==
  ASSUME Assist!Init PROVE DraftInv
<1>1. /\ draftRun = <<>> /\ drafts = <<>> /\ reviews = <<>> /\ draftReceipts = <<>> /\ draftTold = {}
      /\ DOMAIN draftRun = {} /\ DOMAIN drafts = {} /\ DOMAIN reviews = {} /\ DOMAIN draftReceipts = {}
  BY DEF Assist!Init
<1>2. Own(draftRun)
  BY <1>1, EmptySeq DEF Own
<1> QED
  BY <1>1, <1>2 DEF DraftInv, DraftTyped, DraftsInv, HistoryInv

\* What the Store sees of a request.
LEMMA SeenFacts ==
  ASSUME NEW q \in DraftRequests
  PROVE  LET e == Assist!Seen(q) IN
         /\ q.op \in {"assist", "review"}
         /\ e.op = q.op /\ e.key = q.key /\ e.actor = q.actor /\ (Reviewed(e) <=> Reviewed(q))
         /\ Reviewed(q) => e.of = q.of /\ e.action = q.action
<1>1. /\ {"op", "key", "actor"} \subseteq DOMAIN q \ {"via", "tenant"} /\ q.op \in {"assist", "review"}
      /\ Reviewed(q) => {"of", "action"} \subseteq DOMAIN q \ {"via", "tenant"}
  BY DraftAssumption DEF Assist!ConstantsFit, Reviewed
<1> QED
  BY <1>1 DEF Assist!Seen, Reviewed

\* While the files and the lock are as they were, a request in hand is too.
LEMMA DraftStays ==
  ASSUME UNCHANGED <<drafts, reviews, draftReceipts, torn>>, NEW x, DraftJobOK(x), Holds(x) => draftLock'
  PROVE  DraftJobOK(x)'
BY DEF DraftJobOK, Begun, AcceptStands, InHistory, AnotherAsked

LEMMA FilesStayDrafts ==
  ASSUME HistoryInv, UNCHANGED <<drafts, reviews, draftReceipts, torn, draftTold>>, Halves \subseteq Halves'
  PROVE  HistoryInv'
<1>1. \A e, id : InHistory(e, id)' <=> InHistory(e, id)
  BY DEF InHistory
<1>2. \A id : RecordOK(id) => RecordOK(id)'
  BY DEF RecordOK
<1>3. \A e, id : EventOK(e, id) => EventOK(e, id)'
  BY DEF EventOK, AcceptStands
<1> QED
  BY <1>1, <1>2, <1>3 DEF HistoryInv

\* A request that moves on.
LEMMA DraftMoves ==
  ASSUME Own(draftRun), DraftsInv, NEW h \in DOMAIN draftRun, NEW y, draftRun' = [draftRun EXCEPT ![h] = y], DraftJobOK(y)',
         \A x : DraftJobOK(x) /\ (Holds(x) => draftLock /\ ~Holds(draftRun[h])) => DraftJobOK(x)' /\ (Holds(x) => ~Holds(y))
  PROVE  /\ Own(draftRun)' /\ DraftsInv'
         /\ \A x : x \in Halves /\ x # draftRun[h] => x \in Halves'
         /\ ~HalfDone(draftRun[h]) => Halves \subseteq Halves'
         /\ HalfDone(y) => y \in Halves'
<1>1. PICK next, old : next = draftRun' /\ old = draftRun
  OBVIOUS
<1>2. Own(next) /\ DOMAIN next = DOMAIN old /\ next[h] = y /\ \A i \in DOMAIN old \ {h} : next[i] = old[i]
  BY <1>1, OwnMoves
<1>3. \A i \in DOMAIN old \ {h} : DraftJobOK(old[i]) /\ (Holds(old[i]) => draftLock /\ ~Holds(old[h]))
  BY <1>1 DEF DraftsInv, DraftJobOK
<1>4. \A i \in DOMAIN old \ {h} : DraftJobOK(old[i])' /\ (Holds(old[i]) => ~Holds(y))
  BY <1>1, <1>3
<1>5. \A i \in DOMAIN next : DraftJobOK(next[i])'
  BY <1>2, <1>4
<1>6. \A i, j \in DOMAIN next : Holds(next[i]) /\ Holds(next[j]) => i = j
  BY <1>1, <1>2, <1>4 DEF DraftsInv
<1>7. DraftsInv'
  BY <1>1, <1>5, <1>6 DEF DraftsInv
<1>8. Own(draftRun)'
  BY <1>1, <1>2 DEF Own
<1>9. \A x \in Halves : \E k \in DOMAIN old : HalfDone(old[k]) /\ x = old[k]
  BY <1>1 DEF Halves
<1>10. Halves' = {next[k] : k \in {k \in DOMAIN next : HalfDone(next[k])}}
  BY <1>1 DEF Halves
<1>11. \A k \in DOMAIN old : HalfDone(old[k]) /\ k # h => old[k] \in Halves'
  BY <1>2, <1>10
<1> QED
  BY <1>1, <1>2, <1>7, <1>8, <1>9, <1>10, <1>11

\* A request that is over, of which nothing is half written.
LEMMA DraftEnds ==
  ASSUME Own(draftRun), DraftsInv, NEW h \in DOMAIN draftRun, draftRun' = Assist!Ended(h), ~HalfDone(draftRun[h]),
         UNCHANGED <<drafts, reviews, draftReceipts, torn, draftLock>>
  PROVE  Own(draftRun)' /\ DraftsInv' /\ Halves \subseteq Halves'
<1>1. PICK next, old : next = draftRun' /\ old = draftRun
  OBVIOUS
<1>2. next = RemoveAt(old, h)
  BY <1>1 DEF Assist!Ended, Assist!RemoveAt, RemoveAt
<1>3. /\ Own(next)
      /\ \A i \in DOMAIN next : Before(h, i) \in DOMAIN old /\ Before(h, i) # h /\ next[i] = old[Before(h, i)]
      /\ \A i, j \in DOMAIN next : Before(h, i) = Before(h, j) => i = j
      /\ \A k \in DOMAIN old \ {h} : \E i \in DOMAIN next : Before(h, i) = k
  BY <1>1, <1>2, OwnEnds
<1>4. \A i \in DOMAIN old : DraftJobOK(old[i]) /\ DraftJobOK(old[i])'
  BY <1>1, DraftStays DEF DraftsInv, DraftJobOK
<1>5. \A i \in DOMAIN next : DraftJobOK(next[i])'
  BY <1>3, <1>4
<1>6. \A i, j \in DOMAIN next : Holds(next[i]) /\ Holds(next[j]) => i = j
  BY <1>1, <1>3 DEF DraftsInv
<1>7. \A k \in DOMAIN old : HalfDone(old[k]) => \E i \in DOMAIN next : next[i] = old[k]
  BY <1>1, <1>3
<1> QED
  BY <1>1, <1>3, <1>5, <1>6, <1>7 DEF DraftsInv, Own, Halves

\* A request that arrives.
LEMMA DraftBegins ==
  ASSUME Own(draftRun), DraftsInv, NEW y, draftRun' = Append(draftRun, y), DraftJobOK(y)', ~Holds(y),
         UNCHANGED <<drafts, reviews, draftReceipts, torn, draftLock>>
  PROVE  Own(draftRun)' /\ DraftsInv' /\ Halves \subseteq Halves'
<1>1. PICK next, old, n : next = draftRun' /\ old = draftRun /\ n = Len(draftRun)
  OBVIOUS
<1>2. /\ Own(next) /\ n \in Nat /\ DOMAIN old = 1 .. n /\ DOMAIN next = 1 .. n + 1
      /\ next[n + 1] = y /\ \A i \in 1 .. n : next[i] = old[i]
  <2>1. next = Append(old, y) /\ Own(old) /\ n = Len(old)
    BY <1>1
  <2>2. Own(next)
    BY <2>1, OwnBegins, Zenon
  <2>3. n \in Nat /\ DOMAIN old = 1 .. n /\ DOMAIN next = 1 .. n + 1 /\ next[n + 1] = y
    BY <2>1, OwnBegins
  <2>4. \A i \in 1 .. n : next[i] = old[i]
    BY <2>1, OwnBegins
  <2> QED
    BY <2>2, <2>3, <2>4
<1>3. \A i \in DOMAIN old : DraftJobOK(old[i]) /\ DraftJobOK(old[i])'
  BY <1>1, DraftStays DEF DraftsInv, DraftJobOK
<1>4. \A i \in DOMAIN next : i \in DOMAIN old \/ i = n + 1
  BY <1>2
<1>5. \A i \in DOMAIN next : DraftJobOK(next[i])'
  BY <1>2, <1>3, <1>4
<1>6. \A i, j \in DOMAIN next : Holds(next[i]) /\ Holds(next[j]) => i = j
  BY <1>1, <1>2, <1>4 DEF DraftsInv
<1>7. \A k \in DOMAIN old : k \in DOMAIN next /\ next[k] = old[k]
  BY <1>2
<1> QED
  BY <1>1, <1>2, <1>5, <1>6, <1>7 DEF DraftsInv, Own, Halves

---------------------------------------------------------------------------
LEMMA SendDraftKeeps ==
  ASSUME DraftInv, NEW req \in DraftRequests, Assist!Send(req)
  PROVE  DraftInv'
<1>1. PICK y : y = [req |-> req, at |-> IF req.op = "review" /\ req.via = "console" THEN "console" ELSE "lock",
                    id |-> Nothing, passages |-> {}, draft |-> Nothing, todo |-> <<>>]
  OBVIOUS
<1>2. /\ UNCHANGED <<drafts, reviews, draftReceipts, draftLock, draftTold, torn>>
      /\ draftRun' = draftRun \/ draftRun' = Append(draftRun, y)
  BY <1>1 DEF Assist!Send
<1>3. DraftJobOK(y)' /\ ~Holds(y)
  BY <1>1 DEF DraftJobOK, DraftFields, DraftPlaces, Holds, Full, HalfDone, Written, Reviewed
<1>4. Own(draftRun)' /\ DraftsInv' /\ Halves \subseteq Halves'
  <2>1. CASE draftRun' = draftRun
    BY <2>1, <1>2, DraftStays DEF DraftInv, DraftTyped, DraftsInv, Own, Halves, DraftJobOK
  <2>2. CASE draftRun' = Append(draftRun, y)
    BY <2>2, <1>2, <1>3, DraftBegins DEF DraftInv, DraftTyped
  <2> QED
    BY <1>2, <2>1, <2>2
<1>5. HistoryInv'
  BY <1>2, <1>4, FilesStayDrafts DEF DraftInv
<1> QED
  BY <1>2, <1>4, <1>5 DEF DraftInv, DraftTyped, Own

\* A request that is over, with what its answer said.
LEMMA DraftOver ==
  ASSUME DraftInv, NEW h \in DOMAIN draftRun, draftRun' = Assist!Ended(h), ~HalfDone(draftRun[h]),
         UNCHANGED <<drafts, reviews, draftReceipts, torn, draftLock>>,
         \A t \in draftTold' : t \in draftTold \/ (Reviewed(t[1]) => InHistory(t[1], t[2]))
  PROVE  DraftInv'
<1>1. Own(draftRun)' /\ DraftsInv' /\ Halves \subseteq Halves'
  BY DraftEnds DEF DraftInv, DraftTyped
<1>2. \A e, id : InHistory(e, id)' <=> InHistory(e, id)
  BY DEF InHistory
<1>3. \A id : RecordOK(id) => RecordOK(id)'
  BY <1>1 DEF RecordOK
<1>4. \A e, id : EventOK(e, id) => EventOK(e, id)'
  BY <1>1 DEF EventOK, AcceptStands
<1>5. HistoryInv'
  BY <1>2, <1>3, <1>4 DEF HistoryInv, DraftInv
<1> QED
  BY <1>1, <1>5 DEF DraftInv, DraftTyped, Own

\* A request that moves on without a file.
LEMMA DraftOn ==
  ASSUME DraftInv, NEW h \in DOMAIN draftRun, NEW y, draftRun' = [draftRun EXCEPT ![h] = y], ~HalfDone(draftRun[h]),
         UNCHANGED <<drafts, reviews, draftReceipts, torn, draftTold>>, DraftJobOK(y)',
         \A x : DraftJobOK(x) /\ (Holds(x) => draftLock /\ ~Holds(draftRun[h])) => (Holds(x) => ~Holds(y) /\ draftLock')
  PROVE  DraftInv'
<1>1. \A x : DraftJobOK(x) /\ (Holds(x) => draftLock /\ ~Holds(draftRun[h])) => DraftJobOK(x)' /\ (Holds(x) => ~Holds(y))
  BY DraftStays
<1>2. Own(draftRun)' /\ DraftsInv' /\ Halves \subseteq Halves'
  BY <1>1, DraftMoves DEF DraftInv, DraftTyped
<1>3. HistoryInv'
  BY <1>2, FilesStayDrafts DEF DraftInv
<1> QED
  BY <1>2, <1>3 DEF DraftInv, DraftTyped, Own

LEMMA assistanceReviewKeeps ==
  ASSUME DraftInv, NEW h \in DOMAIN draftRun, Assist!assistanceReview(h)
  PROVE  DraftInv'
<1>1. PICK x, y : x = draftRun[h] /\ y = [x EXCEPT !.at = "lock"]
  OBVIOUS
<1>2. /\ UNCHANGED <<drafts, reviews, draftReceipts, draftLock, draftTold, torn>> /\ x.at = "console" /\ DraftJobOK(x)
      /\ \/ draftRun' = [draftRun EXCEPT ![h] = [draftRun[h] EXCEPT !.at = "lock"]] /\ AnotherAsked(x.req)
         \/ draftRun' = Assist!Ended(h)
  BY <1>1 DEF Assist!assistanceReview, Assist!FourEyes, AnotherAsked, DraftInv, DraftsInv
<1>3. ~HalfDone(x) /\ ~Holds(x)
  BY <1>2 DEF HalfDone, Holds
<1>4. CASE draftRun' = Assist!Ended(h)
  BY <1>1, <1>2, <1>3, <1>4, DraftOver
<1>5. CASE draftRun' = [draftRun EXCEPT ![h] = y] /\ AnotherAsked(x.req)
  <2>1. DOMAIN y = DraftFields /\ y.at = "lock" /\ y.req = x.req
    BY <1>1, <1>2 DEF DraftJobOK, DraftFields
  <2>2. DraftJobOK(y)' /\ ~Holds(y)
    BY <1>2, <1>5, <2>1 DEF DraftJobOK, DraftPlaces, Holds, Full, HalfDone, Written, AnotherAsked
  <2> QED
    BY <1>1, <1>2, <1>3, <1>5, <2>2, DraftOn
<1> QED
  BY <1>1, <1>2, <1>4, <1>5

LEMMA DraftGiveUpKeeps ==
  ASSUME DraftInv, NEW h \in DOMAIN draftRun, Assist!GiveUp(h)
  PROVE  DraftInv'
BY DraftOver DEF Assist!GiveUp, HalfDone

\* What is retrieved is what the case's tenant may see.
LEMMA QueryRetrieves ==
  ASSUME NEW terms PROVE Retrieved(Assist!Query(CaseTenant, terms))
<1>1. PICK found : found = Assist!Query(CaseTenant, terms)
  OBVIOUS
<1>2. ASSUME NEW p \in found PROVE \E c \in Corpus : c.id = p.id /\ c.tenant \in {"*", CaseTenant}
  <2>1. PICK c, n : c \in Corpus /\ Assist!Visible(c, CaseTenant) /\ p = [place |-> n, id |-> c.id]
    BY <1>1, Zenon DEF Assist!Query
  <2> QED
    BY <2>1 DEF Assist!Visible
<1> QED
  BY <1>1, <1>2 DEF Retrieved

\* Nobody holds the lock: every file of a record is written, and of an event that no stop cut off.
LEMMA NobodyHolds ==
  ASSUME DraftInv, ~draftLock PROVE Halves = {}
BY DEF DraftInv, DraftsInv, DraftJobOK, Halves, HalfDone, Holds

\* Two fields of a request at once.
LEMMA TwoFields ==
  ASSUME NEW f, NEW h \in DOMAIN f, NEW at, NEW v
  PROVE  /\ [f EXCEPT ![h].at = at, ![h].todo = v] = [f EXCEPT ![h] = [f[h] EXCEPT !.at = at, !.todo = v]]
         /\ [f EXCEPT ![h].at = at, ![h].id = v] = [f EXCEPT ![h] = [f[h] EXCEPT !.at = at, !.id = v]]
         /\ [f EXCEPT ![h].at = at, ![h].draft = v] = [f EXCEPT ![h] = [f[h] EXCEPT !.at = at, !.draft = v]]
OBVIOUS

LEMMA ThreeFields ==
  ASSUME NEW f, NEW h \in DOMAIN f, NEW at, NEW id, NEW v
  PROVE  [f EXCEPT ![h].at = at, ![h].id = id, ![h].todo = v] = [f EXCEPT ![h] = [f[h] EXCEPT !.at = at, !.id = id, !.todo = v]]
OBVIOUS

LEMMA AssistKeeps ==
  ASSUME DraftInv, NEW h \in DOMAIN draftRun, Assist!Assist(h)
  PROVE  DraftInv'
<1>1. PICK x, req, rp, passages, id, started :
        /\ x = draftRun[h] /\ req = x.req /\ rp = Assist!receiptPath(req)
        /\ passages = Assist!Query(CaseTenant, Terms[revision]) /\ id = Assist!AssistanceID(req, passages)
        /\ started = [x EXCEPT !.id = id, !.passages = passages]
  OBVIOUS
<1>2. /\ UNCHANGED <<drafts, reviews, draftReceipts, draftTold, torn>> /\ x.at = "lock" /\ ~draftLock /\ DraftJobOK(x) /\ req \in DraftRequests
      /\ DOMAIN x = DraftFields
      /\ req.op = "assist" /\ ~Reviewed(req)
  BY <1>1 DEF Assist!Assist, DraftInv, DraftsInv, DraftJobOK, Reviewed
<1>3. ~HalfDone(x) /\ ~Holds(x)
  BY <1>2 DEF HalfDone, Holds
<1>4. \/ draftLock' = draftLock /\ draftRun' = Assist!Ended(h)
      \/ draftLock' = draftLock /\ draftRun' = [draftRun EXCEPT ![h].at = "answer", ![h].id = draftReceipts[rp].id]
      \/ /\ draftLock' = TRUE /\ rp \notin DOMAIN draftReceipts
         /\ \/ draftRun' = [draftRun EXCEPT ![h] = [started EXCEPT !.at = "generate"]]
            \/ draftRun' = [draftRun EXCEPT ![h] = [started EXCEPT !.at = "write",
                              !.todo = Assist!Files("record", Assist!Record(req, passages, "retrieval_empty", Nothing))]]
  BY <1>1 DEF Assist!Assist
<1>5. CASE draftLock' = draftLock /\ draftRun' = Assist!Ended(h)
  BY <1>1, <1>2, <1>3, <1>5, DraftOver
<1>6. CASE draftLock' = draftLock /\ draftRun' = [draftRun EXCEPT ![h].at = "answer", ![h].id = draftReceipts[rp].id]
  <2>1. PICK y : y = [draftRun[h] EXCEPT !.at = "answer", !.id = draftReceipts[rp].id]
    OBVIOUS
  <2>0. draftRun' = [draftRun EXCEPT ![h] = y]
    BY <1>6, <2>1, TwoFields, Zenon
  <2>2. draftRun' = [draftRun EXCEPT ![h] = y] /\ DOMAIN y = DraftFields /\ y.at = "answer" /\ y.req = req
    BY <1>1, <1>2, <2>0, <2>1 DEF DraftFields
  <2>3. DraftJobOK(y)' /\ ~Holds(y)
    BY <1>1, <1>2, <2>2 DEF DraftJobOK, DraftPlaces, Holds, Full, HalfDone, Written
  <2> QED
    BY <1>1, <1>2, <1>3, <1>6, <2>2, <2>3, DraftOn
<1>7. CASE /\ draftLock' = TRUE /\ rp \notin DOMAIN draftReceipts
           /\ \/ draftRun' = [draftRun EXCEPT ![h] = [started EXCEPT !.at = "generate"]]
              \/ draftRun' = [draftRun EXCEPT ![h] = [started EXCEPT !.at = "write",
                              !.todo = Assist!Files("record", Assist!Record(req, passages, "retrieval_empty", Nothing))]]
  <2>1. PICK y, b : /\ draftRun' = [draftRun EXCEPT ![h] = y]
                    /\ b = Assist!Record(req, passages, "retrieval_empty", Nothing)
                    /\ \/ y = [started EXCEPT !.at = "generate"]
                       \/ y = [started EXCEPT !.at = "write", !.todo = Assist!Files("record", b)]
    BY <1>7
  <2>2. DOMAIN y = DraftFields /\ y.req = req /\ y.id = id /\ y.passages = passages /\ y.at \in {"generate", "write"}
        /\ (y.at = "write" => y.todo = Assist!Files("record", b))
    BY <1>1, <1>2, <2>1 DEF DraftFields
  <2>3. b.actor = req.actor /\ b.tenant = CaseTenant /\ Grounded(b)
    BY <2>1 DEF Assist!Record, Grounded
  <2>4. torn = {} => id \notin DOMAIN drafts
    <3>1. id[1] = req.key /\ rp = <<<<"assist">>, req.key>>
      BY <1>1, <1>2 DEF Assist!AssistanceID, Assist!receiptPath, Assist!Scope
    <3>2. id \in DOMAIN drafts => RecordOK(id)
      BY DEF DraftInv, HistoryInv
    <3> QED
      BY <1>2, <1>7, <3>1, <3>2, NobodyHolds DEF RecordOK
  <2>5. Retrieved(passages)
    BY <1>1, QueryRetrieves
  <2>6. y.at = "write" => Len(y.todo) = 3 /\ y.todo[1].body = b /\ y.todo = Assist!Files("record", y.todo[1].body)
    BY <2>2 DEF Assist!Files
  <2>7. Begun(y)'
    BY <1>1, <1>2, <1>7, <2>2, <2>3, <2>4, <2>5, <2>6 DEF Begun, Full, Retrieved, Grounded
  <2>8. DraftJobOK(y)' /\ Holds(y)
    BY <1>2, <1>7, <2>2, <2>6, <2>7 DEF DraftJobOK, DraftPlaces, Holds, Full, HalfDone, Written, Rest
  <2> QED
    BY <1>1, <1>2, <1>3, <1>7, <2>1, <2>8, DraftOn
<1> QED
  BY <1>4, <1>5, <1>6, <1>7

\* A record that is on its way to its files.
LEMMA FinalizeKeeps ==
  ASSUME DraftInv, NEW h \in DOMAIN draftRun, NEW x, x = draftRun[h], x.at \in {"generate", "guard"},
         NEW status, NEW draft, NEW b, b = Assist!Record(x.req, x.passages, status, draft),
         Grounded(b), draftRun' = [draftRun EXCEPT ![h].at = "write", ![h].todo = Assist!Files("record", b)],
         UNCHANGED <<drafts, reviews, draftReceipts, draftLock, draftTold, torn>>
  PROVE  DraftInv'
<1>1. PICK y : y = [draftRun[h] EXCEPT !.at = "write", !.todo = Assist!Files("record", b)]
  OBVIOUS
<1>2. /\ DraftJobOK(x) /\ Holds(x) /\ ~Written(x) /\ ~Full(x) /\ Begun(x) /\ draftLock /\ ~Reviewed(x.req) /\ ~HalfDone(x)
      /\ x.req \in DraftRequests /\ DOMAIN x = DraftFields
  BY DEF DraftInv, DraftsInv, DraftJobOK, Holds, Written, Full, Begun, HalfDone
<1>3. draftRun' = [draftRun EXCEPT ![h] = y] /\ DOMAIN y = DraftFields /\ y.at = "write" /\ y.req = x.req /\ y.id = x.id /\ y.passages = x.passages
      /\ y.todo = Assist!Files("record", b)
  <2>1. draftRun' = [draftRun EXCEPT ![h] = y]
    BY <1>1, TwoFields, Zenon
  <2> QED
    BY <1>1, <1>2, <2>1 DEF DraftFields
<1>4. Len(y.todo) = 3 /\ y.todo[1].body = b /\ y.todo = Assist!Files("record", y.todo[1].body)
  BY <1>3 DEF Assist!Files
<1>5. b.actor = x.req.actor /\ b.tenant = CaseTenant
  BY DEF Assist!Record
<1>6. Begun(y)'
  BY <1>2, <1>3, <1>4, <1>5 DEF Begun, Full, Retrieved, Grounded
<1>7. DraftJobOK(y)' /\ Holds(y)
  BY <1>2, <1>3, <1>4, <1>6 DEF DraftJobOK, DraftPlaces, Holds, Full, HalfDone, Written, Rest
<1> QED
  BY <1>2, <1>3, <1>7, DraftOn

LEMMA GenerateKeeps ==
  ASSUME DraftInv, NEW h \in DOMAIN draftRun, NEW out \in Outputs \cup {Absent}, Assist!Generate(h, out)
  PROVE  DraftInv'
<1>1. PICK x : x = draftRun[h]
  OBVIOUS
<1>2. /\ UNCHANGED <<drafts, reviews, draftReceipts, draftLock, draftTold, torn>> /\ x.at = "generate"
      /\ DraftJobOK(x) /\ ~HalfDone(x) /\ Holds(x) /\ Begun(x) /\ draftLock /\ ~Reviewed(x.req) /\ DOMAIN x = DraftFields
  BY <1>1 DEF Assist!Generate, DraftInv, DraftsInv, DraftJobOK, Holds, Written, Full, Begun, HalfDone
<1>3. \/ \E status \in {"model_unavailable", "invalid_model_output"} : Assist!finalizeRecord(h, status, Nothing)
      \/ out # Absent /\ draftRun' = [draftRun EXCEPT ![h].at = "guard", ![h].draft = out]
  BY DEF Assist!Generate
<1>4. CASE \E status \in {"model_unavailable", "invalid_model_output"} : Assist!finalizeRecord(h, status, Nothing)
  <2>1. PICK status \in {"model_unavailable", "invalid_model_output"} : Assist!finalizeRecord(h, status, Nothing)
    BY <1>4
  <2>2. PICK b : b = Assist!Record(x.req, x.passages, status, Nothing)
    OBVIOUS
  <2>3. draftRun' = [draftRun EXCEPT ![h].at = "write", ![h].todo = Assist!Files("record", b)]
    BY <1>1, <2>1, <2>2 DEF Assist!finalizeRecord
  <2>4. Grounded(b)
    BY <2>2 DEF Assist!Record, Grounded
  <2> QED
    BY <1>1, <1>2, <2>2, <2>3, <2>4, FinalizeKeeps
<1>5. CASE out # Absent /\ draftRun' = [draftRun EXCEPT ![h].at = "guard", ![h].draft = out]
  <2>1. PICK y : y = [draftRun[h] EXCEPT !.at = "guard", !.draft = out]
    OBVIOUS
  <2>2. draftRun' = [draftRun EXCEPT ![h] = y]
    BY <1>5, <2>1, TwoFields, Zenon
  <2>3. /\ DOMAIN y = DraftFields /\ y.req = x.req /\ y.id = x.id /\ y.passages = x.passages /\ y.at = "guard"
        /\ y.draft = out /\ out # Nothing
    BY <1>1, <1>2, <1>5, <2>1, DraftAssumption DEF DraftFields, Assist!ConstantsFit
  <2>4. Begun(y)'
    BY <1>2, <2>3 DEF Begun, Full, Retrieved
  <2>5. DraftJobOK(y)' /\ Holds(y)
    BY <1>2, <2>3, <2>4 DEF DraftJobOK, DraftPlaces, Holds, Full, HalfDone, Written
  <2> QED
    BY <1>1, <1>2, <2>2, <2>5, DraftOn
<1> QED
  BY <1>3, <1>4, <1>5

LEMMA GuardKeeps ==
  ASSUME DraftInv, NEW h \in DOMAIN draftRun, NEW verdict \in Verdicts \cup {Absent}, Assist!Guard(h, verdict)
  PROVE  DraftInv'
<1>1. PICK x : x = draftRun[h]
  OBVIOUS
<1>2. /\ UNCHANGED <<drafts, reviews, draftReceipts, draftLock, draftTold, torn>> /\ x.at = "guard"
      /\ DraftJobOK(x) /\ Begun(x) /\ ~Reviewed(x.req) /\ x.draft # Nothing /\ Retrieved(x.passages)
  BY <1>1 DEF Assist!Guard, DraftInv, DraftsInv, DraftJobOK, Holds, Written, Full, Begun
<1>3. PICK status : /\ Assist!finalizeRecord(h, status, x.draft)
                    /\ status = "completed" => Assist!validateDraftCitations(x.draft, x.passages)
  BY <1>1 DEF Assist!Guard
<1>4. PICK b : b = Assist!Record(x.req, x.passages, status, x.draft)
  OBVIOUS
<1>5. draftRun' = [draftRun EXCEPT ![h].at = "write", ![h].todo = Assist!Files("record", b)]
  BY <1>1, <1>3, <1>4 DEF Assist!finalizeRecord
<1>6. Grounded(b)
  <2>1. b.status = status /\ b.draft = x.draft
    BY <1>4 DEF Assist!Record
  <2> QED
    BY <1>2, <1>3, <2>1 DEF Grounded, Assist!validateDraftCitations, Retrieved
<1> QED
  BY <1>1, <1>2, <1>4, <1>5, <1>6, FinalizeKeeps

LEMMA ReviewKeeps ==
  ASSUME DraftInv, NEW h \in DOMAIN draftRun, Assist!Review(h)
  PROVE  DraftInv'
<1>1. PICK x, req, rp, e : x = draftRun[h] /\ req = x.req /\ rp = Assist!receiptPath(req) /\ e = Assist!Seen(req)
  OBVIOUS
<1>2. /\ UNCHANGED <<drafts, reviews, draftReceipts, draftTold, torn>> /\ x.at = "lock" /\ ~draftLock /\ DraftJobOK(x) /\ req \in DraftRequests
      /\ Reviewed(req) /\ DOMAIN x = DraftFields
  BY <1>1 DEF Assist!Review, DraftInv, DraftsInv, DraftJobOK, Reviewed
<1>3. ~HalfDone(x) /\ ~Holds(x)
  BY <1>2 DEF HalfDone, Holds
<1>4. e.key = req.key /\ e.of = req.of /\ e.action = req.action /\ Reviewed(e) /\ rp = <<<<"review", req.of>>, req.key>>
  BY <1>1, <1>2, SeenFacts DEF Assist!receiptPath, Assist!Scope, Reviewed
<1>5. \/ draftLock' = draftLock /\ draftRun' = Assist!Ended(h)
      \/ /\ draftLock' = draftLock /\ rp \in DOMAIN draftReceipts /\ draftReceipts[rp].request = e
         /\ draftRun' = [draftRun EXCEPT ![h].at = "answer", ![h].id = req.of]
      \/ /\ draftLock' = TRUE /\ rp \notin DOMAIN draftReceipts /\ req.of \in DOMAIN drafts /\ Assist!Acceptable(drafts[req.of], req.action)
         /\ draftRun' = [draftRun EXCEPT ![h].at = "write", ![h].id = req.of, ![h].todo = Assist!Files("review", e)]
  BY <1>1 DEF Assist!Review
<1>6. CASE draftLock' = draftLock /\ draftRun' = Assist!Ended(h)
  BY <1>1, <1>2, <1>3, <1>6, DraftOver
<1>7. CASE /\ draftLock' = draftLock /\ rp \in DOMAIN draftReceipts /\ draftReceipts[rp].request = e
           /\ draftRun' = [draftRun EXCEPT ![h].at = "answer", ![h].id = req.of]
  <2>1. PICK y : y = [draftRun[h] EXCEPT !.at = "answer", !.id = req.of]
    OBVIOUS
  <2>2. draftRun' = [draftRun EXCEPT ![h] = y]
    BY <1>7, <2>1, TwoFields, Zenon
  <2>3. DOMAIN y = DraftFields /\ y.at = "answer" /\ y.req = req /\ y.id = req.of
    BY <1>1, <1>2, <2>1 DEF DraftFields
  <2>4. InHistory(e, req.of) /\ (InHistory(e, req.of) => InHistory(e, req.of)')
    BY <1>2, <1>4, <1>7 DEF DraftInv, HistoryInv, InHistory
  <2>5. DraftJobOK(y)' /\ ~Holds(y)
    BY <1>1, <1>2, <2>3, <2>4 DEF DraftJobOK, DraftPlaces, Holds, Full, HalfDone, Written, AnotherAsked
  <2> QED
    BY <1>1, <1>2, <1>3, <1>7, <2>2, <2>5, DraftOn
<1>8. CASE /\ draftLock' = TRUE /\ rp \notin DOMAIN draftReceipts /\ req.of \in DOMAIN drafts /\ Assist!Acceptable(drafts[req.of], req.action)
           /\ draftRun' = [draftRun EXCEPT ![h].at = "write", ![h].id = req.of, ![h].todo = Assist!Files("review", e)]
  <2>1. PICK y : y = [draftRun[h] EXCEPT !.at = "write", !.id = req.of, !.todo = Assist!Files("review", e)]
    OBVIOUS
  <2>2. draftRun' = [draftRun EXCEPT ![h] = y]
    BY <1>8, <2>1, ThreeFields, Zenon
  <2>3. DOMAIN y = DraftFields /\ y.at = "write" /\ y.req = req /\ y.id = req.of /\ y.todo = Assist!Files("review", e)
    BY <1>1, <1>2, <2>1 DEF DraftFields
  <2>4. Len(y.todo) = 3 /\ y.todo[1].body = e /\ y.todo = Assist!Files("review", y.todo[1].body)
    BY <2>3 DEF Assist!Files
  <2>5. AcceptStands(req, req.of) /\ AcceptStands(req, req.of)'
    BY <1>2, <1>8 DEF AcceptStands, Assist!Acceptable
  <2>6. e \notin torn => ~InHistory(e, req.of)
    <3>1. SUFFICES ASSUME e \notin torn, InHistory(e, req.of) PROVE FALSE
      OBVIOUS
    <3>2. EventOK(e, req.of)
      BY <3>1 DEF InHistory, DraftInv, HistoryInv
    <3> QED
      BY <1>2, <1>4, <1>8, <3>1, <3>2, NobodyHolds DEF EventOK
  <2>7. Begun(y)'
    BY <1>1, <1>2, <1>8, <2>3, <2>4, <2>5, <2>6 DEF Begun, Full, InHistory
  <2>8. DraftJobOK(y)' /\ Holds(y)
    BY <1>1, <1>2, <1>8, <2>3, <2>4, <2>7 DEF DraftJobOK, DraftPlaces, Holds, Full, HalfDone, Written, Rest, AnotherAsked
  <2> QED
    BY <1>1, <1>2, <1>3, <1>8, <2>2, <2>8, DraftOn
<1> QED
  BY <1>5, <1>6, <1>7, <1>8

---------------------------------------------------------------------------
(* One file more.                                                          *)

\* g is f but for one key
Changed(g, f, k, v) == DOMAIN g = DOMAIN f \cup {k} /\ g[k] = v /\ \A z \in DOMAIN f \ {k} : g[z] = f[z]

\* the history of a record, and one event more
Longer(all, id, e) ==
    /\ Own(all)
    /\ \E n \in Nat : /\ DOMAIN all = 1 .. n + 1 /\ all[n + 1] = e
                      /\ \A i \in 1 .. n : id \in DOMAIN reviews /\ all[i] = reviews[id][i]
                      /\ id \in DOMAIN reviews => DOMAIN reviews[id] = 1 .. n

\* the holder of the lock, before and after it writes a file
Writing(h, x, y) ==
    /\ x = draftRun[h] /\ DraftJobOK(x) /\ Holds(x) /\ draftLock
    /\ DOMAIN y = DraftFields /\ y.at = "write" /\ y.req = x.req /\ y.id = x.id

LEMMA PutFacts ==
  ASSUME NEW f, NEW k, NEW v, NEW g, g = Assist!Put(f, k, v)
  PROVE  DOMAIN g = DOMAIN f \cup {k} /\ g[k] = v /\ \A z \in DOMAIN f \ {k} : g[z] = f[z]
BY DEF Assist!Put

\* A request that does not hold the lock, while records keep their actors and histories grow.
LEMMA OthersStay ==
  ASSUME NEW x, DraftJobOK(x), ~Holds(x),
         \A id \in DOMAIN drafts : id \in DOMAIN drafts' /\ drafts'[id].actor = drafts[id].actor,
         \A e, id : InHistory(e, id) => InHistory(e, id)'
  PROVE  DraftJobOK(x)'
BY DEF DraftJobOK, Holds, Full, HalfDone, Written, AnotherAsked

\* How far a request's files are.
LEMMA Shapes ==
  ASSUME NEW x
  PROVE  /\ Full(x) => ~HalfDone(x) /\ ~Written(x)
         /\ HalfDone(x) => ~Full(x) /\ Written(x)
         /\ x.at = "write" /\ x.todo = Rest => HalfDone(x) /\ ~Full(x) /\ Written(x)
         /\ x.at = "write" /\ x.todo = <<[file |-> "audit"]>> => ~HalfDone(x) /\ ~Full(x) /\ Written(x)
         /\ x.at = "write" => x.at \in DraftPlaces /\ Holds(x)
<1>1. Len(Rest) = 2 /\ Len(<<[file |-> "audit"]>>) = 1
  BY DEF Rest
<1> QED
  BY <1>1 DEF Full, HalfDone, Written, DraftPlaces, Holds

\* The histories are as they were.
LEMMA HistoriesStay ==
  ASSUME reviews' = reviews
  PROVE  /\ \A e, id : InHistory(e, id)' <=> InHistory(e, id)
         /\ DraftTyped /\ Own(draftRun)' => DraftTyped'
BY DEF InHistory, DraftTyped, Own

\* The record.
LEMMA RecordWritten ==
  ASSUME DraftInv, NEW h \in DOMAIN draftRun, NEW x, x = draftRun[h], NEW y, draftRun' = [draftRun EXCEPT ![h] = y],
         DraftJobOK(x), Holds(x), Full(x), Begun(x), ~Reviewed(x.req), draftLock, UNCHANGED <<draftLock, draftTold, torn, reviews, draftReceipts>>,
         DOMAIN y = DraftFields, y.at = "write", y.req = x.req, y.id = x.id, y.todo = Rest,
         drafts' = Assist!Put(drafts, x.id, x.todo[1].body)
  PROVE  DraftInv'
<1>1. PICK new, b : new = drafts' /\ b = x.todo[1].body
  OBVIOUS
<1>2. /\ DOMAIN new = DOMAIN drafts \cup {x.id} /\ new[x.id] = b /\ \A z \in DOMAIN drafts \ {x.id} : new[z] = drafts[z]
  <2>1. new = Assist!Put(drafts, x.id, b)
    BY <1>1
  <2> QED
    BY <2>1, PutFacts
<1>3. /\ torn = {} => x.id \notin DOMAIN drafts
      /\ x.id = <<x.req.key, x.req.actor, x.passages>> /\ b.actor = x.req.actor /\ b.tenant = CaseTenant /\ Grounded(b)
  BY <1>1 DEF Begun, Assist!AssistanceID
<1>4. x.id[1] = x.req.key /\ x.id[2] = x.req.actor
  BY <1>3
<1>5. \A id \in DOMAIN drafts : id \in DOMAIN new /\ new[id].actor = drafts[id].actor
  BY <1>2, <1>3, <1>4 DEF DraftInv, HistoryInv, RecordOK
<1>6. \A e, id : InHistory(e, id)' <=> InHistory(e, id)
  BY HistoriesStay
<1>7. DraftJobOK(y)'
  <2>1. Len(Rest) = 2 /\ ~Full(y) /\ Written(y) /\ y.at \in DraftPlaces /\ x.req \in DraftRequests
    BY DEF Rest, Full, Written, DraftPlaces, DraftJobOK
  <2> QED
    BY <2>1, <1>4 DEF DraftJobOK, Full, Written, HalfDone
<1>8. \A z : DraftJobOK(z) /\ (Holds(z) => draftLock /\ ~Holds(draftRun[h])) => DraftJobOK(z)' /\ (Holds(z) => ~Holds(y))
  BY <1>1, <1>5, <1>6, OthersStay
<1>9. ~HalfDone(x) /\ HalfDone(y)
  BY DEF HalfDone, Full, Rest
<1>10. Own(draftRun)' /\ DraftsInv' /\ Halves \subseteq Halves' /\ y \in Halves'
  BY <1>7, <1>8, <1>9, DraftMoves DEF DraftInv, DraftTyped
<1>11. \A id \in DOMAIN new : RecordOK(id)'
  <2>1. RecordOK(x.id)'
    BY <1>1, <1>2, <1>3, <1>4, <1>10 DEF RecordOK, Grounded
  <2>2. ASSUME NEW id \in DOMAIN drafts \ {x.id} PROVE RecordOK(id)'
    BY <1>1, <1>2, <1>10 DEF RecordOK, Grounded, DraftInv, HistoryInv
  <2> QED
    BY <1>2, <2>1, <2>2
<1>12. \A e, id : EventOK(e, id) => EventOK(e, id)'
  BY <1>1, <1>2, <1>3, <1>5, <1>10 DEF EventOK, AcceptStands
<1>13. HistoryInv'
  BY <1>1, <1>6, <1>11, <1>12 DEF HistoryInv, DraftInv
<1> QED
  BY <1>10, <1>13, HistoriesStay DEF DraftInv

\* The receipt.
LEMMA DraftReceiptWritten ==
  ASSUME DraftInv, NEW h \in DOMAIN draftRun, NEW x, NEW y, Writing(h, x, y), draftRun' = [draftRun EXCEPT ![h] = y],
         HalfDone(x), y.todo = <<[file |-> "audit"]>>, UNCHANGED <<draftLock, draftTold, torn, drafts, reviews>>,
         NEW r, r.request = Assist!Seen(x.req), Changed(draftReceipts', draftReceipts, Assist!receiptPath(x.req), r)
  PROVE  DraftInv'
<1> SUFFICES
      ASSUME x = draftRun[h], DraftJobOK(x), Holds(x), draftLock, DOMAIN y = DraftFields, y.at = "write", y.req = x.req, y.id = x.id,
             NEW rp, rp = Assist!receiptPath(x.req), NEW e, e = Assist!Seen(x.req), NEW new, new = draftReceipts',
             DOMAIN new = DOMAIN draftReceipts \cup {rp}, new[rp].request = e, \A z \in DOMAIN draftReceipts \ {rp} : new[z] = draftReceipts[z]
      PROVE  DraftInv'
  BY DEF Writing, Changed
<1>2. /\ DOMAIN new = DOMAIN draftReceipts \cup {rp} /\ new[rp].request = e
      /\ \A z \in DOMAIN draftReceipts \ {rp} : new[z] = draftReceipts[z]
  OBVIOUS
<1>3. /\ x.req \in DraftRequests /\ e.key = x.req.key /\ (Reviewed(e) <=> Reviewed(x.req)) /\ (Reviewed(x.req) => e.of = x.req.of)
      /\ Reviewed(x.req) => rp = <<<<"review", x.req.of>>, x.req.key>>
      /\ ~Reviewed(x.req) => rp = <<<<"assist">>, x.req.key>> /\ x.id[1] = x.req.key
  BY SeenFacts DEF DraftJobOK, Assist!receiptPath, Assist!Scope, Reviewed
<1>4. Written(x) /\ (Reviewed(x.req) => x.id = x.req.of /\ InHistory(e, x.req.of))
  <2>1. Len(Rest) = 2
    BY DEF Rest
  <2> QED
    BY <2>1 DEF DraftJobOK, Written, Full, HalfDone
<1>5. \A f, id : InHistory(f, id)' <=> InHistory(f, id)
  BY HistoriesStay
<1>6. DraftJobOK(y)'
  <2>1. Len(y.todo) = 1 /\ ~Full(y) /\ Written(y) /\ ~HalfDone(y) /\ y.at \in DraftPlaces
    <3>1. Len(y.todo) = 1 /\ Len(Rest) = 2
      BY DEF Rest
    <3> QED
      BY <3>1 DEF Full, Written, DraftPlaces, HalfDone
  <2> QED
    BY <1>3, <1>4, <1>5, <2>1 DEF DraftJobOK, Full, Written, HalfDone, AnotherAsked
<1>7. \A z : DraftJobOK(z) /\ (Holds(z) => draftLock /\ ~Holds(draftRun[h])) => DraftJobOK(z)' /\ (Holds(z) => ~Holds(y))
  BY <1>5, OthersStay
<1>8. Own(draftRun)' /\ DraftsInv' /\ \A z : z \in Halves /\ z # x => z \in Halves'
  BY <1>6, <1>7, DraftMoves DEF DraftInv, DraftTyped
<1>9. \A id \in DOMAIN drafts : RecordOK(id)'
  <2>1. ASSUME NEW id \in DOMAIN drafts PROVE RecordOK(id)'
    <3>1. RecordOK(id) /\ drafts' = drafts /\ torn' = torn
      BY DEF DraftInv, HistoryInv
    <3>2. CASE \E z \in Halves : ~Reviewed(z.req) /\ z.id = id
      BY <1>2, <1>3, <1>8, <3>1, <3>2 DEF RecordOK, Grounded
    <3> QED
      BY <1>2, <3>1, <3>2 DEF RecordOK, Grounded
  <2> QED
    BY <2>1
<1>10. ASSUME NEW f, NEW id, EventOK(f, id) PROVE EventOK(f, id)'
  <2>1. AcceptStands(f, id)' /\ id \in DOMAIN drafts /\ drafts' = drafts /\ torn' = torn
    BY <1>10 DEF EventOK, AcceptStands
  <2>2. CASE f = e
    <3>1. PICK q \in DraftRequests : f = Assist!Seen(q) /\ Reviewed(q) /\ q.of = id
      BY <1>10 DEF EventOK
    <3>2. Reviewed(f) /\ f.of = id
      BY <3>1, SeenFacts
    <3>3. <<<<"review", id>>, f.key>> \in DOMAIN new
      BY <1>2, <1>3, <2>2, <3>2
    <3> QED
      BY <1>10, <2>1, <3>3 DEF EventOK
  <2>3. CASE f # e
    BY <1>2, <1>8, <1>10, <2>1, <2>3 DEF EventOK
  <2> QED
    BY <2>2, <2>3
<1>11. \A p \in DOMAIN new : Reviewed(new[p].request) => InHistory(new[p].request, new[p].request.of)
  BY <1>2, <1>3, <1>4 DEF DraftInv, HistoryInv
<1>12. HistoryInv'
  BY <1>5, <1>9, <1>10, <1>11 DEF HistoryInv, DraftInv
<1> QED
  BY <1>8, <1>12, HistoriesStay DEF DraftInv

LEMMA HistoriesNow ==
  ASSUME NEW new, new = reviews'
  PROVE  /\ \A e, id : InHistory(e, id)' <=> (id \in DOMAIN new /\ \E i \in DOMAIN new[id] : new[id][i] = e)
         /\ Own(draftRun)' /\ (\A id \in DOMAIN new : Own(new[id])) => DraftTyped'
BY DEF InHistory, DraftTyped, Own

LEMMA RecordsStay ==
  ASSUME HistoryInv, UNCHANGED <<drafts, torn, draftReceipts>>, Halves \subseteq Halves'
  PROVE  \A id \in DOMAIN drafts : RecordOK(id)'
BY DEF HistoryInv, RecordOK

\* The review.
LEMMA ReviewWritten ==
  ASSUME DraftInv, NEW h \in DOMAIN draftRun, NEW x, NEW y, Writing(h, x, y), draftRun' = [draftRun EXCEPT ![h] = y],
         Full(x), Begun(x), Reviewed(x.req), y.todo = Rest, UNCHANGED <<draftLock, draftTold, torn, drafts, draftReceipts>>,
         NEW all, Longer(all, x.id, x.todo[1].body), Changed(reviews', reviews, x.id, all)
  PROVE  DraftInv'
<1> SUFFICES
      ASSUME x = draftRun[h], DraftJobOK(x), Holds(x), draftLock, DOMAIN y = DraftFields, y.at = "write", y.req = x.req, y.id = x.id,
             NEW e, e = x.todo[1].body, NEW id, id = x.id, Own(all), NEW n \in Nat, DOMAIN all = 1 .. n + 1, all[n + 1] = e,
             \A i \in 1 .. n : id \in DOMAIN reviews /\ all[i] = reviews[id][i],
             id \in DOMAIN reviews => DOMAIN reviews[id] = 1 .. n,
             NEW new, new = reviews', DOMAIN new = DOMAIN reviews \cup {id}, new[id] = all, \A z \in DOMAIN reviews \ {id} : new[z] = reviews[z]
      PROVE  DraftInv'
  BY DEF Writing, Changed, Longer
<1>2. /\ x.req \in DraftRequests /\ Assist!Seen(x.req) = e /\ id = x.req.of /\ id \in DOMAIN drafts /\ AcceptStands(x.req, id)
      /\ e \notin torn => ~InHistory(e, id)
      /\ x.req.via = "console" => AnotherAsked(x.req)
  <2>1. Begun(x) /\ Reviewed(x.req) /\ x.at = "write" /\ DraftJobOK(x)
    BY DEF Full
  <2> QED
    BY <2>1 DEF Begun, DraftJobOK
<1>4. /\ DOMAIN new = DOMAIN reviews \cup {id} /\ new[id] = all /\ \A z \in DOMAIN reviews \ {id} : new[z] = reviews[z]
  OBVIOUS
<1>6. DOMAIN all = 1 .. n + 1 /\ all[n + 1] = e
  OBVIOUS
<1>7. /\ \A i \in 1 .. n : id \in DOMAIN reviews /\ reviews[id][i] = all[i] /\ i \in DOMAIN reviews[id]
      /\ id \in DOMAIN reviews => DOMAIN reviews[id] = 1 .. n
  OBVIOUS
<1>8. \A f, z : InHistory(f, z) => InHistory(f, z)'
  <2>1. ASSUME NEW f, NEW z, InHistory(f, z) PROVE InHistory(f, z)'
    <3>1. PICK i \in DOMAIN reviews[z] : z \in DOMAIN reviews /\ reviews[z][i] = f
      BY <2>1 DEF InHistory
    <3>2. z \in DOMAIN new /\ i \in DOMAIN new[z] /\ new[z][i] = f
      <4>1. CASE z = id
        BY <1>4, <1>6, <1>7, <3>1, <4>1
      <4>2. CASE z # id
        BY <1>4, <3>1, <4>2
      <4> QED
        BY <4>1, <4>2
    <3> QED
      BY <3>2, HistoriesNow, Zenon
  <2> QED
    BY <2>1, Zenon
<1>9. InHistory(e, id)'
  BY <1>4, <1>6 DEF InHistory
<1>10. DraftJobOK(y)'
  <2>1. ~Full(y) /\ Written(y) /\ y.at \in DraftPlaces
    BY Shapes, Zenon
  <2> QED
    BY <1>2, <1>9, <2>1 DEF DraftJobOK, Full, Written, HalfDone, AnotherAsked
<1>11. \A z : DraftJobOK(z) /\ (Holds(z) => draftLock /\ ~Holds(draftRun[h])) => DraftJobOK(z)' /\ (Holds(z) => ~Holds(y))
  BY <1>8, OthersStay
<1>12. ~HalfDone(x) /\ HalfDone(y)
  BY Shapes, Zenon
<1>13. Own(draftRun)' /\ DraftsInv' /\ Halves \subseteq Halves' /\ y \in Halves'
  <2>1. Own(draftRun) /\ DraftsInv
    BY DEF DraftInv, DraftTyped
  <2> QED
    BY <1>10, <1>11, <1>12, <2>1, DraftMoves, Zenon
<1>14. \A z \in DOMAIN drafts : RecordOK(z)'
  BY <1>13, RecordsStay DEF DraftInv
<1>15. \A f, z : EventOK(f, z) => EventOK(f, z)'
  BY <1>13 DEF EventOK, AcceptStands
<1>16. EventOK(e, id)'
  <2>1. e.action = x.req.action /\ AcceptStands(e, id)' /\ drafts' = drafts
    BY <1>2, SeenFacts DEF AcceptStands
  <2>2. \E q \in DraftRequests : e = Assist!Seen(q) /\ Reviewed(q) /\ q.of = id /\ (q.via = "console" => drafts[id].actor # q.actor)
    BY <1>2 DEF AnotherAsked
  <2>3. y \in Halves' /\ Assist!Seen(y.req) = e
    BY <1>2, <1>13
  <2> QED
    BY <1>2, <2>1, <2>2, <2>3 DEF EventOK
<1>17. ASSUME NEW z \in DOMAIN new, NEW i \in DOMAIN new[z]
       PROVE  /\ EventOK(new[z][i], z)'
              /\ new[z][i] \notin torn => \A j \in DOMAIN new[z] : new[z][j] = new[z][i] => i = j
  <2>1. CASE z # id
    <3>1. z \in DOMAIN reviews /\ new[z] = reviews[z]
      BY <1>4, <1>17, <2>1
    <3> QED
      BY <1>15, <1>17, <3>1 DEF DraftInv, HistoryInv
  <2>2. CASE z = id
    <3>1. EventOK(all[i], id)'
      <4>1. CASE i = n + 1
        BY <1>6, <1>16, <4>1
      <4>2. CASE i \in 1 .. n
        BY <1>6, <1>7, <1>15, <4>2 DEF DraftInv, HistoryInv
      <4> QED
        BY <1>4, <1>6, <1>17, <2>2, <4>1, <4>2
    <3>2. ASSUME all[i] \notin torn, NEW j \in DOMAIN all, all[j] = all[i] PROVE i = j
      <4>1. \A k \in 1 .. n : InHistory(all[k], id)
        BY <1>6, <1>7 DEF InHistory
      <4>2. i \in 1 .. n + 1 /\ j \in 1 .. n + 1
        BY <1>4, <1>6, <1>17, <2>2, <3>2
      <4>3. CASE i \in 1 .. n /\ j \in 1 .. n
        BY <1>6, <1>7, <3>2, <4>3 DEF DraftInv, HistoryInv
      <4>4. CASE i = n + 1 \/ j = n + 1
        BY <1>2, <1>6, <3>2, <4>1, <4>2, <4>4
      <4> QED
        BY <1>6, <4>2, <4>3, <4>4
    <3> QED
      BY <1>4, <2>2, <3>1, <3>2
  <2> QED
    BY <2>1, <2>2
<1>18. HistoryInv'
  <2>1. drafts' = drafts /\ torn' = torn /\ draftReceipts' = draftReceipts /\ draftTold' = draftTold
    OBVIOUS
  <2>2. /\ \A rp \in DOMAIN draftReceipts : Reviewed(draftReceipts[rp].request) => InHistory(draftReceipts[rp].request, draftReceipts[rp].request.of)'
        /\ \A t \in draftTold : Reviewed(t[1]) => InHistory(t[1], t[2])'
    BY <1>8 DEF DraftInv, HistoryInv
  <2> QED
    BY <1>14, <1>17, <2>1, <2>2 DEF HistoryInv
<1>19. DraftTyped'
  <2>1. \A z \in DOMAIN new : Own(new[z])
    BY <1>4, <1>6 DEF DraftInv, DraftTyped
  <2> QED
    BY <1>13, <2>1, HistoriesNow, Zenon
<1> QED
  BY <1>13, <1>18, <1>19 DEF DraftInv

\* The history that a review is appended to.
LEMMA History ==
  ASSUME DraftTyped, NEW id, NEW e, NEW past, past = IF id \in DOMAIN reviews THEN reviews[id] ELSE <<>>
  PROVE  Longer(Append(past, e), id, e)
<1>0. PICK all, n : all = Append(past, e) /\ n = Len(past)
  OBVIOUS
<1>1. Own(<<>>) /\ Len(<<>>) = 0
  BY EmptySeq DEF Own
<1>2. Own(past) /\ (id \notin DOMAIN reviews => n = 0)
  BY <1>0, <1>1 DEF DraftTyped
<1>3. Own(all)
  BY <1>0, <1>2, OwnBegins, Zenon
<1>4. n \in Nat /\ DOMAIN past = 1 .. n /\ DOMAIN all = 1 .. n + 1 /\ all[n + 1] = e
  BY <1>0, <1>2, OwnBegins
<1>5. \A i \in 1 .. n : all[i] = past[i]
  BY <1>0, <1>2, OwnBegins
<1>6. \A i \in 1 .. n : id \in DOMAIN reviews /\ all[i] = reviews[id][i]
  BY <1>2, <1>4, <1>5
<1>7. Longer(all, id, e)
  BY <1>2, <1>3, <1>4, <1>6 DEF Longer
<1> QED
  BY <1>0, <1>7

\* The audit event is written: nothing is left to do.
LEMMA AuditDraftWritten ==
  ASSUME NEW x, DraftJobOK(x), Written(x), x.at = "write", NEW y, DOMAIN y = DraftFields, y.at = "write", y.req = x.req, y.id = x.id,
         y.todo = <<>>, ~Full(y), ~HalfDone(y), draftLock', UNCHANGED <<drafts, reviews>>
  PROVE  DraftJobOK(y)'
<1>1. \A e, id : InHistory(e, id) => InHistory(e, id)'
  BY HistoriesStay
<1>2. y.at \in DraftPlaces /\ Written(y)
  BY DEF DraftPlaces, Written
<1>3. Reviewed(y.req) => y.id = y.req.of /\ InHistory(Assist!Seen(y.req), y.req.of)'
  BY <1>1 DEF DraftJobOK
<1>4. Reviewed(y.req) /\ y.req.via = "console" => AnotherAsked(y.req)'
  BY DEF DraftJobOK, AnotherAsked
<1>5. y.req \in DraftRequests
  BY DEF DraftJobOK
<1> QED
  BY <1>2, <1>3, <1>4, <1>5 DEF DraftJobOK

LEMMA WriteDraftKeeps ==
  ASSUME DraftInv, NEW h \in DOMAIN draftRun, Assist!WriteJSONAtomic(h)
  PROVE  DraftInv'
<1>1. PICK x, y : x = draftRun[h] /\ y = [draftRun[h] EXCEPT !.todo = Tail(x.todo)]
  OBVIOUS
<1>2. DraftJobOK(x) /\ x.req \in DraftRequests /\ x.at = "write" /\ Holds(x) /\ draftLock /\ x.todo # <<>> /\ DOMAIN x = DraftFields
      /\ UNCHANGED <<draftLock, draftTold, torn>>
  BY <1>1 DEF Assist!WriteJSONAtomic, DraftInv, DraftsInv, DraftJobOK, Holds
<1>3. draftRun' = [draftRun EXCEPT ![h] = y]
  <2>1. draftRun' = [draftRun EXCEPT ![h].todo = Tail(draftRun[h].todo)]
    BY DEF Assist!WriteJSONAtomic
  <2> QED
    BY <1>1, <2>1
<1>4. DOMAIN y = DraftFields /\ y.at = "write" /\ y.req = x.req /\ y.id = x.id /\ y.todo = Tail(x.todo)
  BY <1>1, <1>2 DEF DraftFields
<1>5. PICK w, id, past : w = Head(x.todo) /\ id = x.id /\ past = IF id \in DOMAIN reviews THEN reviews[id] ELSE <<>>
  OBVIOUS
<1>6. PICK rp, e, all, r : rp = Assist!receiptPath(x.req) /\ e = Assist!Seen(x.req) /\ all = Append(past, w.body) /\ r = [request |-> e, id |-> id]
  OBVIOUS
<1>7. /\ drafts' = IF w.file = "record" THEN Assist!Put(drafts, id, w.body) ELSE drafts
      /\ reviews' = IF w.file = "review" THEN Assist!Put(reviews, id, all) ELSE reviews
      /\ draftReceipts' = IF w.file = "receipt" THEN Assist!Put(draftReceipts, rp, r) ELSE draftReceipts
  BY <1>1, <1>5, <1>6, Zenon DEF Assist!WriteJSONAtomic
<1>11. Writing(h, x, y)
  BY <1>1, <1>2, <1>4 DEF Writing
<1>8. CASE Full(x)
  <2>1. PICK b, f : b = x.todo[1].body /\ f = IF Reviewed(x.req) THEN "review" ELSE "record"
    OBVIOUS
  <2>2. x.todo = Assist!Files(f, b) /\ Begun(x)
    BY <1>2, <1>8, <2>1 DEF DraftJobOK, Written
  <2>3. x.todo = <<[file |-> f, body |-> b], [file |-> "receipt"], [file |-> "audit"]>>
    BY <2>2 DEF Assist!Files
  <2>4. w.file = f /\ w.body = b /\ y.todo = Rest
    BY <1>4, <1>5, <2>3 DEF Rest
  <2>5. CASE ~Reviewed(x.req)
    <3>1. drafts' = Assist!Put(drafts, x.id, x.todo[1].body) /\ UNCHANGED <<reviews, draftReceipts>>
      BY <1>5, <1>7, <2>1, <2>4, <2>5
    <3> QED
      BY <1>1, <1>2, <1>3, <1>4, <1>8, <2>2, <2>4, <2>5, <3>1, RecordWritten
  <2>6. CASE Reviewed(x.req)
    <3>1. DraftTyped
      BY DEF DraftInv
    <3>2. Longer(Append(past, b), id, b)
      BY <1>5, <3>1, History, Zenon
    <3>3. Longer(all, x.id, x.todo[1].body)
      BY <1>5, <1>6, <2>1, <2>4, <3>2
    <3>4. reviews' = Assist!Put(reviews, id, all) /\ UNCHANGED <<drafts, draftReceipts>>
      BY <1>7, <2>1, <2>4, <2>6
    <3>5. Changed(reviews', reviews, x.id, all)
      BY <1>5, <3>4 DEF Assist!Put, Changed
    <3>6. UNCHANGED <<draftLock, draftTold, torn, drafts, draftReceipts>>
      BY <1>2, <3>4
    <3> QED
      BY <1>3, <1>8, <1>11, <2>2, <2>4, <2>6, <3>3, <3>5, <3>6, ReviewWritten, Zenon
  <2> QED
    BY <2>5, <2>6
<1>9. CASE HalfDone(x)
  <2>1. w.file = "receipt" /\ y.todo = <<[file |-> "audit"]>>
    BY <1>4, <1>5, <1>9 DEF HalfDone, Rest
  <2>2. draftReceipts' = Assist!Put(draftReceipts, rp, r) /\ UNCHANGED <<drafts, reviews>> /\ r.request = Assist!Seen(x.req)
    BY <1>6, <1>7, <2>1
  <2>3. Changed(draftReceipts', draftReceipts, Assist!receiptPath(x.req), r)
    BY <1>6, <2>2 DEF Assist!Put, Changed
  <2>4. UNCHANGED <<draftLock, draftTold, torn, drafts, reviews>>
    BY <1>2, <2>2
  <2> QED
    BY <1>3, <1>9, <1>11, <2>1, <2>2, <2>3, <2>4, DraftReceiptWritten, Zenon
<1>10. CASE x.todo = <<[file |-> "audit"]>>
  <2>1. w.file = "audit" /\ y.todo = <<>>
    BY <1>4, <1>5, <1>10
  <2>2. UNCHANGED <<drafts, reviews, draftReceipts, draftLock, draftTold, torn>>
    BY <1>2, <1>7, <2>1
  <2>3. /\ ~Full(x) /\ Written(x) /\ ~HalfDone(x)
        /\ ~Full(y) /\ Written(y) /\ ~HalfDone(y) /\ Holds(y) /\ y.at \in DraftPlaces
    <3>1. Len(<<>>) = 0 /\ Rest # <<>> /\ <<[file |-> "audit"]>> # Rest
      BY EmptySeq DEF Rest
    <3> QED
      BY <1>2, <1>4, <1>10, <2>1, <3>1, Shapes DEF Full, Written, HalfDone, DraftPlaces, Holds
  <2>4. DraftJobOK(y)'
    BY <1>2, <1>4, <2>1, <2>2, <2>3, AuditDraftWritten
  <2> QED
    BY <1>1, <1>2, <1>3, <2>2, <2>3, <2>4, DraftOn
<1> QED
  BY <1>2, <1>8, <1>9, <1>10 DEF DraftJobOK, HalfDone

LEMMA UnlockDraftKeeps ==
  ASSUME DraftInv, NEW h \in DOMAIN draftRun, Assist!Unlock(h)
  PROVE  DraftInv'
<1>1. PICK x, y : x = draftRun[h] /\ y = [draftRun[h] EXCEPT !.at = "answer"]
  OBVIOUS
<1>2. /\ UNCHANGED <<drafts, reviews, draftReceipts, draftTold, torn>> /\ x.at = "write" /\ x.todo = <<>> /\ DraftJobOK(x)
      /\ Holds(x) /\ DOMAIN x = DraftFields
      /\ draftRun' = [draftRun EXCEPT ![h].at = "answer"] /\ draftLock' = FALSE
  BY <1>1 DEF Assist!Unlock, DraftInv, DraftsInv, DraftJobOK, Holds
<1>3. draftRun' = [draftRun EXCEPT ![h] = y]
  BY <1>1, <1>2
<1>4. DOMAIN y = DraftFields /\ y.at = "answer" /\ y.req = x.req /\ y.id = x.id
  BY <1>1, <1>2 DEF DraftFields
<1>5. ~Full(x) /\ Written(x) /\ ~HalfDone(x)
  <2>1. Len(<<>>) = 0 /\ Rest # <<>>
    BY EmptySeq DEF Rest
  <2> QED
    BY <1>2, <2>1 DEF Full, Written, HalfDone
<1>6. DraftJobOK(y)' /\ ~Holds(y)
  BY <1>2, <1>4, <1>5 DEF DraftJobOK, DraftPlaces, Holds, Full, Written, HalfDone, AnotherAsked, InHistory
<1> QED
  BY <1>1, <1>2, <1>3, <1>5, <1>6, DraftOn

LEMMA AnswerDraftKeeps ==
  ASSUME DraftInv, NEW h \in DOMAIN draftRun, Assist!Answer(h)
  PROVE  DraftInv'
<1>1. PICK x, e : x = draftRun[h] /\ e = Assist!Seen(x.req)
  OBVIOUS
<1>2. /\ UNCHANGED <<drafts, reviews, draftReceipts, draftLock, torn>> /\ x.at = "answer" /\ DraftJobOK(x) /\ x.req \in DraftRequests
      /\ draftRun' = Assist!Ended(h) /\ draftTold' \subseteq draftTold \cup {<<e, x.id>>}
  BY <1>1 DEF Assist!Answer, DraftInv, DraftsInv, DraftJobOK
<1>3. ~HalfDone(x) /\ Written(x)
  BY <1>2 DEF HalfDone, Written
<1>4. Reviewed(e) => InHistory(e, x.id)
  BY <1>1, <1>2, <1>3, SeenFacts DEF DraftJobOK
<1>5. \A t \in draftTold' : t \in draftTold \/ (Reviewed(t[1]) => InHistory(t[1], t[2]))
  BY <1>2, <1>4
<1> QED
  BY <1>1, <1>2, <1>3, <1>5, DraftOver

\* The process stops: what was half written is known as torn.
LEMMA StopDraftKeeps ==
  ASSUME DraftInv, Assist!Stop
  PROVE  DraftInv'
<1>1. /\ UNCHANGED <<drafts, reviews, draftReceipts, draftLock, draftTold>> /\ draftRun' = <<>>
      /\ torn' = torn \cup {Assist!Seen(draftRun[h].req) : h \in {k \in DOMAIN draftRun : draftRun[k].at = "write" /\ Len(draftRun[k].todo) \in 1 .. 2}}
  BY DEF Assist!Stop
<1>2. \A x \in Halves : Assist!Seen(x.req) \in torn'
  <2>1. Len(Rest) \in 1 .. 2
    BY DEF Rest
  <2> QED
    BY <1>1, <2>1 DEF Halves, HalfDone
<1>3. torn \subseteq torn'
  BY <1>1
<1>4. \A e, id : InHistory(e, id)' <=> InHistory(e, id)
  BY <1>1, HistoriesStay
<1>5. \A id : RecordOK(id) => RecordOK(id)'
  BY <1>1, <1>2, <1>3 DEF RecordOK, Grounded
<1>6. \A e, id : EventOK(e, id) => EventOK(e, id)'
  BY <1>1, <1>2, <1>3 DEF EventOK, AcceptStands
<1>7. HistoryInv'
  BY <1>1, <1>3, <1>4, <1>5, <1>6 DEF HistoryInv, DraftInv
<1>8. Own(draftRun)' /\ DraftsInv'
  BY <1>1, EmptySeq DEF Own, DraftsInv
<1> QED
  BY <1>1, <1>7, <1>8, HistoriesStay DEF DraftInv

LEMMA RemoveLockKeeps ==
  ASSUME DraftInv, Assist!RemoveLock
  PROVE  DraftInv'
<1>1. UNCHANGED <<drafts, reviews, draftReceipts, draftRun, draftTold, torn>> /\ draftRun = <<>>
  BY DEF Assist!RemoveLock
<1>2. Halves' = Halves
  BY <1>1 DEF Halves
<1>3. HistoryInv'
  BY <1>1, <1>2, FilesStayDrafts DEF DraftInv
<1>4. Own(draftRun)' /\ DraftsInv'
  BY <1>1, EmptySeq DEF Own, DraftsInv
<1> QED
  BY <1>1, <1>3, <1>4, HistoriesStay DEF DraftInv

LEMMA SameDrafts ==
  ASSUME DraftInv, UNCHANGED <<drafts, reviews, draftReceipts, draftRun, draftTold, draftLock, torn>>
  PROVE  DraftInv'
<1>1. Halves' = Halves
  BY DEF Halves
<1>2. HistoryInv'
  BY <1>1, FilesStayDrafts DEF DraftInv
<1>3. Own(draftRun)' /\ DraftsInv'
  BY DraftStays DEF Own, DraftsInv, DraftInv, DraftTyped, DraftJobOK
<1> QED
  BY <1>2, <1>3, HistoriesStay DEF DraftInv

LEMMA DraftStep == DraftInv /\ [Assist!Next]_(Assist!vars) => DraftInv'
<1> SUFFICES ASSUME DraftInv, [Assist!Next]_(Assist!vars) PROVE DraftInv'
  OBVIOUS
<1>1. CASE UNCHANGED Assist!vars
  BY <1>1, SameDrafts DEF Assist!vars
<1>2. ASSUME NEW req \in DraftRequests, Assist!Send(req) PROVE DraftInv'
  BY <1>2, SendDraftKeeps
<1>3. ASSUME NEW h \in DOMAIN draftRun,
             \/ Assist!assistanceReview(h) \/ Assist!GiveUp(h) \/ Assist!Assist(h) \/ Assist!Review(h)
             \/ Assist!WriteJSONAtomic(h) \/ Assist!Unlock(h) \/ Assist!Answer(h)
      PROVE  DraftInv'
  BY <1>3, assistanceReviewKeeps, DraftGiveUpKeeps, AssistKeeps, ReviewKeeps, WriteDraftKeeps, UnlockDraftKeeps, AnswerDraftKeeps
<1>4. ASSUME NEW h \in DOMAIN draftRun, NEW out \in Outputs \cup {Absent}, Assist!Generate(h, out) PROVE DraftInv'
  BY <1>4, GenerateKeeps
<1>5. ASSUME NEW h \in DOMAIN draftRun, NEW verdict \in Verdicts \cup {Absent}, Assist!Guard(h, verdict) PROVE DraftInv'
  BY <1>5, GuardKeeps
<1>6. CASE Assist!CaseEvent
  BY <1>6, SameDrafts DEF Assist!CaseEvent
<1>7. CASE Assist!Stop \/ Assist!RemoveLock
  BY <1>7, StopDraftKeeps, RemoveLockKeeps
<1> QED
  BY <1>1, <1>2, <1>3, <1>4, <1>5, <1>6, <1>7 DEF Assist!Next

LEMMA DraftGoal ==
  ASSUME DraftInv PROVE ReviewsStand
<1>1. Assist!CompletedIsGrounded
  <2>1. \A id \in DOMAIN drafts : drafts[id].tenant = CaseTenant /\ Grounded(drafts[id])
    BY DEF DraftInv, HistoryInv, RecordOK
  <2> QED
    BY <2>1 DEF Assist!CompletedIsGrounded, Grounded
<1>2. ASSUME NEW id \in DOMAIN reviews
      PROVE  DOMAIN reviews[id] = 1 .. Len(reviews[id])
  BY OwnDomain DEF DraftInv, DraftTyped
<1>3. ASSUME NEW id \in DOMAIN reviews, NEW i \in 1 .. Len(reviews[id]), NEW e, e = reviews[id][i]
      PROVE  /\ e.action = "accept" /\ torn = {} => drafts[id].status = "completed"
             /\ (\E q \in DraftRequests : q.via = "console" /\ Assist!Seen(q) = e) /\ (\A q \in DraftRequests : Assist!Seen(q) = e => q.via = "console")
                   => drafts[id].actor # e.actor
             /\ e \notin torn => \A j \in 1 .. Len(reviews[id]) : reviews[id][j] = e => i = j
  <2>1. i \in DOMAIN reviews[id] /\ EventOK(e, id)
    BY <1>2, <1>3 DEF DraftInv, HistoryInv
  <2>2. PICK q \in DraftRequests : e = Assist!Seen(q) /\ Reviewed(q) /\ q.of = id /\ (q.via = "console" => drafts[id].actor # q.actor)
    BY <2>1 DEF EventOK
  <2>3. e.actor = q.actor
    BY <2>2, SeenFacts
  <2>4. e \notin torn => \A j \in DOMAIN reviews[id] : reviews[id][j] = e => i = j
    BY <1>3, <2>1 DEF DraftInv, HistoryInv
  <2> QED
    BY <1>2, <2>1, <2>2, <2>3, <2>4 DEF EventOK, AcceptStands
<1>4. \A t \in draftTold : t[1].op = "review" => t[1] \in Assist!ToSet(reviews[t[2]])
  BY DEF Assist!ToSet, DraftInv, HistoryInv, Reviewed, InHistory
<1>5. Assist!ReviewsStand
  BY <1>3, <1>4 DEF Assist!ReviewsStand
<1> QED
  BY <1>1, <1>5 DEF ReviewsStand

(***************************************************************************)
(* Whatever the model and the guardian answer, and however requests        *)
(* overlap, give up, are sent again or are cut off by a stop: a completed  *)
(* record cites only what the case's tenant may see, a review is in its    *)
(* record's history once, an accepted record is complete and was accepted  *)
(* by another actor than the one who asked for it, and an answered review  *)
(* is in the history.                                                      *)
(***************************************************************************)
THEOREM DraftsSound == Assist!Spec => []ReviewsStand
<1>1. Assist!Init => DraftInv
  BY DraftStart
<1> QED
  BY <1>1, DraftStep, DraftGoal, PTL DEF Assist!Spec
=============================================================================
