---------------------------- MODULE OutboxProofs ----------------------------
(* Proofs about the outbox, for every set of callers, keys and payloads.   *)
EXTENDS Outbox, TLAPS

Safe == TypeOK /\ CallInv /\ MutexInv /\ DiskInv

(* The fields of a call, by its operation.                                 *)
LEMMA CallFields ==
  ASSUME NEW ats, NEW toks, NEW r \in Calls(ats, toks)
  PROVE  /\ r.at \in ats
         /\ r # NoReq
         /\ r.op \in {"enqueue", "claim", "recover", "complete", "retry"}
         /\ r.op = "enqueue" => r.id \in Ids
         /\ r.op \in {"complete", "retry"} => r.token \in toks
         /\ r.op = "retry" => r.delay \in Delays
BY DEF Calls, NoReq

(* Names are the images of keys.                                           *)
LEMMA NameOfType == \A id \in Ids : NameOf[id[1]] \in Names
BY DEF Ids, Names

LEMMA StoreOfType == \A t \in Threads : StoreOf[t] \in Stores
BY DEF Stores

(* A leased event is an event, and its fields have their types.            *)
LEMMA EventFields ==
  ASSUME NEW e \in Events
  PROVE  e # NoEvent /\ e.attempt \in Nat /\ e.exp \in Nat /\ e.next \in Nat
BY NoEventAssumption DEF Events

LEMMA EventType ==
  ASSUME NEW a \in {"enqueued", "leased", "completed", "retry_scheduled",
                    "recovered", "dead"},
         NEW n \in Nat, NEW k \in Tokens \cup {<<>>}, NEW x \in Nat, NEW y \in Nat
  PROVE  /\ Event(a, n, k, x, y) \in Events
         /\ Event(a, n, k, x, y).action = a
         /\ Event(a, n, k, x, y).attempt = n
         /\ Event(a, n, k, x, y).token = k
         /\ Event(a, n, k, x, y).exp = x
         /\ Event(a, n, k, x, y).next = y
BY DEF Event, Events
-----------------------------------------------------------------------------
(* The shape of one append.                                                *)
LEMMA AppendType ==
  ASSUME TypeOK, NEW id \in Ids, NEW e \in Events, appendEventLocked(id, e)
  PROVE  /\ last' \in [Ids -> Events \cup {NoEvent}]
         /\ torn' \in BOOLEAN
         /\ leases' \in [Ids -> Nat]
BY DEF TypeOK, DiskTypeOK, appendEventLocked

(* What a leased or pending event is, for the decisions of a call.         *)
LEMMA LeasedIsEvent ==
  ASSUME NEW e \in Events \cup {NoEvent}, StateOf(e) = "leased"
  PROVE  e \in Events /\ e.action = "leased"
BY DEF StateOf, Events

LEMMA AttemptType ==
  ASSUME NEW e \in Events \cup {NoEvent}
  PROVE  AttemptOf(e) \in Nat /\ NextOf(e) \in Nat
BY DEF AttemptOf, NextOf, Events

(* The arguments of the call a caller is in.                               *)
LEMMA ReqFields ==
  ASSUME TypeOK, CallInv, NEW t \in Threads, pc[t] # "idle"
  PROVE  /\ req[t] \in Calls(Times, Tokens)
         /\ req[t].at \in Times /\ req[t].at \in Nat /\ req[t].at <= now
         /\ req[t].op \in {"enqueue", "claim", "recover", "complete", "retry"}
         /\ req[t].op = "enqueue" => req[t].id \in Ids
         /\ req[t].op \in {"complete", "retry"} =>
              req[t].token \in Tokens /\ req[t].token[1] \in Ids
         /\ req[t].op = "retry" => req[t].delay \in Nat
<1>1. req[t] \in Calls(Times, Tokens) /\ req[t].at <= now
  BY DEF TypeOK, CallTypeOK, CallInv, CallOK
<1>2. \A k \in Tokens : k[1] \in Ids
  BY DEF Tokens
<1>3. /\ req[t].at \in Times
      /\ req[t].op \in {"enqueue", "claim", "recover", "complete", "retry"}
      /\ req[t].op = "enqueue" => req[t].id \in Ids
      /\ req[t].op \in {"complete", "retry"} => req[t].token \in Tokens
      /\ req[t].op = "retry" => req[t].delay \in Delays
  BY <1>1, CallFields
<1>4. Times \subseteq Nat /\ Delays \subseteq Nat
  BY ConstantsAssumption DEF Times
<1> QED BY <1>1, <1>2, <1>3, <1>4

(* The event and the token of a new lease.                                 *)
LEMMA LeaseEvent ==
  ASSUME TypeOK, CallInv, NEW t \in Threads, pc[t] # "idle", NEW id \in Ids,
         NEW e \in Events \cup {NoEvent}, AttemptOf(e) + 1 <= MaxAttempts
  PROVE  /\ <<id, req[t].at, AttemptOf(e) + 1>> \in Tokens
         /\ Event("leased", AttemptOf(e) + 1, <<id, req[t].at, AttemptOf(e) + 1>>,
                  req[t].at + Lease, 0) \in Events
<1> DEFINE attempt == AttemptOf(e) + 1
           token   == <<id, req[t].at, attempt>>
<1>1. attempt \in 1 .. MaxAttempts /\ attempt \in Nat
  BY AttemptType, ConstantsAssumption
<1>2. req[t].at \in Times /\ req[t].at + Lease \in Nat
  BY ReqFields, ConstantsAssumption
<1>3. token \in Tokens
  BY <1>1, <1>2 DEF Tokens
<1>4. Event("leased", attempt, token, req[t].at + Lease, 0) \in Events
  <2> HIDE DEF attempt, token
  <2> QED BY <1>1, <1>2, <1>3, EventType
<1> QED BY <1>3, <1>4

(* Returning and locking keep the types of a caller's state.               *)
LEMMA ReturnType ==
  ASSUME CallTypeOK, NEW t \in Threads, Return(t)
  PROVE  CallTypeOK'
<1>1. mu' \in [Stores -> Threads \cup {NoThread}]
  BY StoreOfType DEF CallTypeOK, Return
<1>2. by' \in [Threads -> [Ids -> Events \cup {NoEvent}]]
  BY DEF CallTypeOK, Return
<1>3. pc' \in [Threads -> Labels] /\ todo' \in [Threads -> SUBSET Ids]
  BY DEF CallTypeOK, Return, Labels
<1>4. req' \in [Threads -> Calls(Times, Tokens) \cup {NoReq}]
  BY DEF CallTypeOK, Return
<1> QED BY <1>1, <1>2, <1>3, <1>4 DEF CallTypeOK

LEMMA LockType ==
  ASSUME CallTypeOK, NEW t \in Threads, Lock(t)
  PROVE  mu' \in [Stores -> Threads \cup {NoThread}]
BY StoreOfType DEF CallTypeOK, Lock

(* The types hold initially.                                               *)
LEMMA TypeInit == Init => TypeOK
<1> SUFFICES ASSUME Init PROVE TypeOK
  OBVIOUS
<1>1. DiskTypeOK
  <2>1. now \in Times /\ crashes \in 0 .. MaxCrashes
    BY ConstantsAssumption DEF Init, Times
  <2>2. /\ messages \in [Ids -> {"absent", "torn", "ok"}]
        /\ receipts \in [Names -> Ids \cup {NoReceipt, Torn}]
        /\ last \in [Ids -> Events \cup {NoEvent}]
        /\ torn \in BOOLEAN
    BY DEF Init
  <2>3. granted \subseteq Tokens /\ acked \subseteq Ids /\ leases \in [Ids -> Nat]
    BY DEF Init
  <2> QED BY <2>1, <2>2, <2>3 DEF DiskTypeOK
<1>2. CallTypeOK
  <2>1. mu \in [Stores -> Threads \cup {NoThread}] /\ pc \in [Threads -> Labels]
    BY DEF Init, Labels
  <2>2. by \in [Threads -> [Ids -> Events \cup {NoEvent}]]
    BY DEF Init
  <2>3. /\ todo \in [Threads -> SUBSET Ids]
        /\ req \in [Threads -> Calls(Times, Tokens) \cup {NoReq}]
    BY DEF Init
  <2> QED BY <2>1, <2>2, <2>3 DEF CallTypeOK
<1> QED BY <1>1, <1>2 DEF TypeOK

(* Every step of a caller preserves the types.                             *)
LEMMA TypeStep ==
  ASSUME TypeOK, CallInv, NEW t \in Threads, Call(t) \/ Step(t) \/ Crash(t)
  PROVE  TypeOK'
<1> USE ConstantsAssumption, StoreOfType, NameOfType DEF TypeOK
<1>1. CASE Call(t)
  <2>1. DiskTypeOK'
    BY <1>1 DEF Call, DiskTypeOK, disk
  <2>2. CallTypeOK'
    <3>1. PICK r \in Calls({now}, granted) : req' = [req EXCEPT ![t] = r]
      BY <1>1 DEF Call
    <3>2. r \in Calls(Times, Tokens)
      BY <3>1 DEF Calls, DiskTypeOK
    <3> QED BY <1>1, <3>1, <3>2 DEF Call, Goto, CallTypeOK, Labels
  <2> QED BY <2>1, <2>2
<1>2. CASE EnqueueStart(t)
  <2>1. DiskTypeOK'
    BY <1>2, CallFields DEF EnqueueStart, DiskTypeOK, CallTypeOK, CallInv, CallOK, disk
  <2>2. CallTypeOK'
    BY <1>2, ReturnType, LockType DEF EnqueueStart, CallTypeOK, Goto, Labels
  <2> QED BY <2>1, <2>2
<1>3. CASE EnqueueMessage(t)
  <2>1. DiskTypeOK'
    BY <1>3, CallFields DEF EnqueueMessage, DiskTypeOK, CallTypeOK, CallInv, CallOK
  <2>2. CallTypeOK'
    BY <1>3, ReturnType DEF EnqueueMessage, CallTypeOK, Goto, Labels
  <2> QED BY <2>1, <2>2
<1>4. CASE EnqueueReceipt(t)
  <2>1. DiskTypeOK'
    BY <1>4, CallFields DEF EnqueueReceipt, DiskTypeOK, CallTypeOK, CallInv, CallOK
  <2>2. CallTypeOK'
    BY <1>4, ReturnType DEF EnqueueReceipt, CallTypeOK, Goto, Labels
  <2> QED BY <2>1, <2>2
<1>5. CASE EnqueueEvent(t)
  <2>1. DiskTypeOK'
    <3>1. req[t].id \in Ids
      BY <1>5, CallFields DEF EnqueueEvent, CallTypeOK, CallInv, CallOK
    <3>2. Event("enqueued", 0, <<>>, 0, 0) \in Events
      BY EventType
    <3> QED BY <1>5, <3>1, <3>2, AppendType DEF EnqueueEvent, DiskTypeOK
  <2>2. CallTypeOK'
    BY <1>5, ReturnType DEF EnqueueEvent
  <2> QED BY <2>1, <2>2
<1>6. CASE RecoverStart(t)
  <2>1. DiskTypeOK'
    BY <1>6 DEF RecoverStart, DiskTypeOK, disk
  <2>2. CallTypeOK'
    BY <1>6, LockType DEF RecoverStart, CallTypeOK, DiskTypeOK, Goto, Labels
  <2> QED BY <2>1, <2>2
<1>7. CASE RecoverOne(t)
  <2>1. DiskTypeOK'
    <3>1. PICK id \in todo[t] :
            appendEventLocked(id, Event("recovered", by[t][id].attempt, <<>>, 0, 0))
      BY <1>7 DEF RecoverOne
    <3>2. id \in Ids /\ by[t][id] \in Events \cup {NoEvent}
      BY DEF CallTypeOK
    <3>3. by[t][id] \in Events
      BY <1>7, <3>2, LeasedIsEvent DEF RecoverOne, CallInv, CallOK, Expired
    <3>4. Event("recovered", by[t][id].attempt, <<>>, 0, 0) \in Events
      BY <3>3, EventType, EventFields
    <3> QED BY <1>7, <3>1, <3>2, <3>4, AppendType DEF RecoverOne, DiskTypeOK
  <2>2. CallTypeOK'
    BY <1>7 DEF RecoverOne, CallTypeOK
  <2> QED BY <2>1, <2>2
<1>8. CASE RecoverDone(t)
  <2>1. DiskTypeOK'
    BY <1>8 DEF RecoverDone, DiskTypeOK, disk
  <2>2. CallTypeOK'
    BY <1>8, ReturnType DEF RecoverDone
  <2> QED BY <2>1, <2>2
<1>9. CASE ClaimRead(t)
  <2>1. DiskTypeOK'
    BY <1>9 DEF ClaimRead, DiskTypeOK, disk
  <2>2. CallTypeOK'
    BY <1>9 DEF ClaimRead, CallTypeOK, DiskTypeOK, Goto, Labels
  <2> QED BY <2>1, <2>2
<1>10. CASE ClaimDead(t)
  <2>1. DiskTypeOK'
    <3>1. PICK id \in todo[t] :
            appendEventLocked(id, Event("dead", AttemptOf(by[t][id]), <<>>, 0, 0))
      BY <1>10 DEF ClaimDead
    <3>2. id \in Ids /\ by[t][id] \in Events \cup {NoEvent}
      BY DEF CallTypeOK
    <3>3. Event("dead", AttemptOf(by[t][id]), <<>>, 0, 0) \in Events
      BY <3>2, EventType, AttemptType
    <3> QED BY <1>10, <3>1, <3>2, <3>3, AppendType DEF ClaimDead, DiskTypeOK
  <2>2. CallTypeOK'
    BY <1>10 DEF ClaimDead, CallTypeOK
  <2> QED BY <2>1, <2>2
<1>11. CASE ClaimLease(t)
  <2>1. DiskTypeOK'
    <3>1. PICK id \in todo[t] :
            LET attempt == AttemptOf(by[t][id]) + 1
                token   == <<id, req[t].at, attempt>>
            IN /\ attempt <= MaxAttempts
               /\ appendEventLocked(id, Event("leased", attempt, token,
                                              req[t].at + Lease, 0))
               /\ granted' = granted \cup {token}
      BY <1>11 DEF ClaimLease
    <3>2. id \in Ids /\ by[t][id] \in Events \cup {NoEvent}
      BY DEF CallTypeOK
    <3>3. /\ <<id, req[t].at, AttemptOf(by[t][id]) + 1>> \in Tokens
          /\ Event("leased", AttemptOf(by[t][id]) + 1,
                   <<id, req[t].at, AttemptOf(by[t][id]) + 1>>,
                   req[t].at + Lease, 0) \in Events
      BY <1>11, <3>1, <3>2, LeaseEvent DEF ClaimLease
    <3> QED BY <1>11, <3>1, <3>2, <3>3, AppendType DEF ClaimLease, DiskTypeOK
  <2>2. CallTypeOK'
    BY <1>11, ReturnType DEF ClaimLease
  <2> QED BY <2>1, <2>2
<1>12. CASE ClaimNone(t)
  <2>1. DiskTypeOK'
    BY <1>12 DEF ClaimNone, DiskTypeOK, disk
  <2>2. CallTypeOK'
    BY <1>12, ReturnType DEF ClaimNone
  <2> QED BY <2>1, <2>2
<1>13. CASE FinishStart(t)
  <2>1. DiskTypeOK'
    BY <1>13 DEF FinishStart, DiskTypeOK, disk
  <2>2. CallTypeOK'
    BY <1>13, LockType DEF FinishStart, CallTypeOK, DiskTypeOK, Goto, Labels
  <2> QED BY <2>1, <2>2
<1>14. CASE FinishRefuse(t)
  <2>1. DiskTypeOK'
    BY <1>14 DEF FinishRefuse, DiskTypeOK, disk
  <2>2. CallTypeOK'
    BY <1>14, ReturnType DEF FinishRefuse
  <2> QED BY <2>1, <2>2
<1>15. CASE Complete(t)
  <2>1. DiskTypeOK'
    <3> DEFINE id == req[t].token[1]
               e  == Event("completed", by[t][id].attempt, <<>>, 0, 0)
    <3>1. req[t].token \in Tokens /\ id \in Ids
      BY <1>15, ReqFields DEF Complete, CallInv, CallOK
    <3>2. by[t][id] \in Events \cup {NoEvent}
      BY <3>1 DEF CallTypeOK
    <3>3. by[t][id] \in Events
      <4>1. StateOf(by[t][id]) = "leased"
        BY <1>15 DEF Complete, CallInv, CallOK, Finishable
      <4> QED BY <3>2, <4>1, LeasedIsEvent
    <3>5. e \in Events
      BY <3>3, EventType, EventFields
    <3>6. appendEventLocked(id, e)
      BY <1>15 DEF Complete
    <3> QED BY <1>15, <3>1, <3>5, <3>6, AppendType DEF Complete, DiskTypeOK
  <2>2. CallTypeOK'
    BY <1>15, ReturnType DEF Complete
  <2> QED BY <2>1, <2>2
<1>16. CASE Retry(t)
  <2>1. DiskTypeOK'
    <3> DEFINE id == req[t].token[1]
               e  == Event("retry_scheduled", by[t][id].attempt, <<>>, 0,
                       req[t].at + req[t].delay)
    <3>1. req[t].token \in Tokens /\ id \in Ids
      BY <1>16, ReqFields DEF Retry, CallInv, CallOK
    <3>2. by[t][id] \in Events \cup {NoEvent}
      BY <3>1 DEF CallTypeOK
    <3>3. by[t][id] \in Events
      <4>1. StateOf(by[t][id]) = "leased"
        BY <1>16 DEF Retry, CallInv, CallOK, Finishable
      <4> QED BY <3>2, <4>1, LeasedIsEvent
    <3>4. req[t].at + req[t].delay \in Nat
      BY <1>16, ReqFields DEF Retry
    <3>5. e \in Events
      BY <3>3, <3>4, EventType, EventFields
    <3>6. appendEventLocked(id, e)
      BY <1>16 DEF Retry
    <3> QED BY <1>16, <3>1, <3>5, <3>6, AppendType DEF Retry, DiskTypeOK
  <2>2. CallTypeOK'
    BY <1>16, ReturnType DEF Retry
  <2> QED BY <2>1, <2>2
<1>17. CASE TornError(t)
  <2>1. DiskTypeOK'
    BY <1>17 DEF TornError, DiskTypeOK, disk
  <2>2. CallTypeOK'
    BY <1>17, ReturnType DEF TornError
  <2> QED BY <2>1, <2>2
<1>18. CASE LostRace(t)
  <2>1. DiskTypeOK'
    BY <1>18 DEF LostRace, DiskTypeOK, disk
  <2>2. CallTypeOK'
    BY <1>18, ReturnType DEF LostRace
  <2> QED BY <2>1, <2>2
<1>19. CASE Crash(t)
  <2>1. DiskTypeOK'
    <3>1. pc[t] \in {"message", "receipt"} =>
            req[t].id \in Ids /\ NameOf[req[t].id[1]] \in Names
      BY ReqFields DEF CallInv, CallOK
    <3>2. messages' \in [Ids -> {"absent", "torn", "ok"}]
      BY <1>19, <3>1 DEF Crash, DiskTypeOK
    <3>3. receipts' \in [Names -> Ids \cup {NoReceipt, Torn}] /\ torn' \in BOOLEAN
      BY <1>19, <3>1 DEF Crash, DiskTypeOK
    <3>4. crashes' \in 0 .. MaxCrashes
      BY <1>19 DEF Crash, DiskTypeOK
    <3> QED BY <1>19, <3>2, <3>3, <3>4 DEF Crash, DiskTypeOK
  <2>2. CallTypeOK'
    <3>1. by' \in [Threads -> [Ids -> Events \cup {NoEvent}]]
      BY <1>19 DEF Crash, CallTypeOK
    <3>2. /\ mu' \in [Stores -> Threads \cup {NoThread}]
          /\ pc' \in [Threads -> Labels]
      BY <1>19 DEF Crash, CallTypeOK, Labels
    <3>3. /\ todo' \in [Threads -> SUBSET Ids]
          /\ req' \in [Threads -> Calls(Times, Tokens) \cup {NoReq}]
      BY <1>19 DEF Crash, CallTypeOK
    <3> QED BY <3>1, <3>2, <3>3 DEF CallTypeOK
  <2> QED BY <2>1, <2>2
<1> QED
  BY <1>1, <1>2, <1>3, <1>4, <1>5, <1>6, <1>7, <1>8, <1>9, <1>10, <1>11, <1>12, <1>13, <1>14, <1>15, <1>16, <1>17, <1>18, <1>19
     DEF Step, Enqueue, Recover, Claim, Finish

-----------------------------------------------------------------------------
(* Files are created and never replaced.                                   *)
DiskGrows ==
  /\ \A id \in Ids : messages[id] # "absent" => messages'[id] = messages[id]
  /\ \A n \in Names : receipts[n] # NoReceipt => receipts'[n] = receipts[n]

(* A caller's own state does not change.                                   *)
Still(u) ==
  pc'[u] = pc[u] /\ req'[u] = req[u] /\ by'[u] = by[u] /\ todo'[u] = todo[u]

ThreadStep(t) == Call(t) \/ Step(t)

LEMMA StepGrows ==
  ASSUME TypeOK, CallInv, NEW t \in Threads, ThreadStep(t) \/ Crash(t)
  PROVE  DiskGrows /\ now' = now
<1> USE DEF TypeOK, DiskTypeOK, DiskGrows
<1>1. CASE EnqueueMessage(t)
  BY <1>1, ReqFields DEF EnqueueMessage, CallInv, CallOK
<1>2. CASE EnqueueReceipt(t)
  BY <1>2, ReqFields, NameOfType DEF EnqueueReceipt, CallInv, CallOK
<1>3. CASE Crash(t)
  <2>1. pc[t] # "idle" /\ (pc[t] \in {"message", "receipt"} => req[t].id \in Ids)
    BY <1>3, ReqFields DEF Crash, CallInv, CallOK
  <2> QED BY <1>3, <2>1, NameOfType DEF Crash
<1>4. CASE UNCHANGED <<now, messages, receipts>>
  BY <1>4
<1>5. ThreadStep(t) /\ ~EnqueueMessage(t) /\ ~EnqueueReceipt(t)
        => UNCHANGED <<now, messages, receipts>>
  BY DEF ThreadStep, Step, Enqueue, Recover, Claim, Finish, Call, EnqueueStart,
         EnqueueEvent, RecoverStart, RecoverOne, RecoverDone, ClaimRead, ClaimDead,
         ClaimLease, ClaimNone, FinishStart, FinishRefuse, Complete, Retry,
         TornError, LostRace, disk
<1> QED BY <1>1, <1>2, <1>3, <1>4, <1>5

LEMMA StepOthers ==
  ASSUME TypeOK, NEW t \in Threads, ThreadStep(t), NEW u \in Threads, u # t
  PROVE  Still(u) /\ (mu'[StoreOf[u]] = mu[StoreOf[u]] \/ StoreOf[u] = StoreOf[t])
BY StoreOfType
   DEF TypeOK, CallTypeOK, Still, ThreadStep, Step, Enqueue, Recover, Claim, Finish, Call,
       EnqueueStart, EnqueueMessage, EnqueueReceipt, EnqueueEvent, RecoverStart,
       RecoverOne, RecoverDone, ClaimRead, ClaimDead, ClaimLease, ClaimNone,
       FinishStart, FinishRefuse, Complete, Retry, TornError, LostRace,
       Return, Lock, Goto

(* A caller's reading is an old one, the chain of the moment, or nothing.   *)
LEMMA StepReads ==
  ASSUME TypeOK, NEW t \in Threads, ThreadStep(t) \/ Crash(t),
         NEW u \in Threads, NEW id \in Ids
  PROVE  by'[u][id] \in {by[u][id], last[id], NoEvent}
<1> USE DEF TypeOK, CallTypeOK
<1>1. CASE Crash(t)
  BY <1>1 DEF Crash
<1>2. CASE u # t /\ ThreadStep(t)
  BY <1>2, StepOthers DEF Still
<1>3. CASE u = t /\ ThreadStep(t)
  <2>1. \/ by' = by \/ by' = [by EXCEPT ![t] = last]
        \/ by' = [by EXCEPT ![t] = [i \in Ids |-> NoEvent]]
    BY <1>3
       DEF ThreadStep, Step, Enqueue, Recover, Claim, Finish, Call,
           EnqueueStart, EnqueueMessage, EnqueueReceipt, EnqueueEvent, RecoverStart,
           RecoverOne, RecoverDone, ClaimRead, ClaimDead, ClaimLease, ClaimNone,
           FinishStart, FinishRefuse, Complete, Retry, TornError, LostRace, Return
  <2> QED BY <1>3, <2>1
<1> QED BY <1>1, <1>2, <1>3

(* A caller that does not move keeps what it knows.                        *)
LEMMA Frame ==
  ASSUME TypeOK, CallInv, NEW u \in Threads, DiskOK(u),
         Still(u), DiskGrows, now' \in Nat, now' >= now
  PROVE  CallOK(u)' /\ DiskOK(u)'
<1> DEFINE grown == \A id \in Ids : messages[id] # "absent" => messages'[id] = messages[id]
<1>0. CallOK(u) /\ grown
  BY DEF CallInv, DiskGrows
<1>1. CASE pc[u] = "idle"
  BY <1>1 DEF Still, CallOK, DiskOK
<1>2. CASE pc[u] # "idle"
  <2>1. req[u].at <= now' /\ req[u] # NoReq
    BY <1>2, <1>0, ReqFields, ConstantsAssumption DEF CallOK, TypeOK, DiskTypeOK, Times
  <2>2. todo[u] \in SUBSET Ids
    BY DEF TypeOK, CallTypeOK
  <2>3. CallOK(u)'
    BY <1>0, <1>2, <2>1, <2>2, ReqFields DEF Still, CallOK, DiskOK
  <2>4. pc[u] \in {"receipt", "enqueued"} =>
          req[u].id \in Ids /\ NameOf[req[u].id[1]] \in Names /\ req[u].id # NoReceipt
    BY <1>0, ReqFields, NameOfType, ConstantsAssumption DEF CallOK
  <2>5. DiskOK(u)'
    BY <1>0, <2>2, <2>4 DEF Still, DiskOK, DiskGrows
  <2> QED BY <2>3, <2>5
<1> QED BY <1>1, <1>2

(* The mover itself.                                                       *)
LEMMA StepSelf ==
  ASSUME Safe, TypeOK', NEW t \in Threads, ThreadStep(t) \/ Crash(t)
  PROVE  CallOK(t)' /\ DiskOK(t)'
<1> USE DEF Safe, TypeOK, CallTypeOK, DiskTypeOK
<1>0. now' = now /\ DiskGrows
  BY StepGrows
<1>a. ASSUME pc'[t] = "idle" PROVE CallOK(t)' /\ DiskOK(t)'
  BY <1>a DEF CallOK, DiskOK
<1>b. Return(t) => pc'[t] = "idle"
  BY DEF Return
<1>1. CASE Call(t)
  <2>1. PICK r \in Calls({now}, granted) : req' = [req EXCEPT ![t] = r]
    BY <1>1 DEF Call
  <2>2. r # NoReq /\ r.at = now
    BY <2>1, CallFields
  <2> QED BY <1>0, <1>1, <2>1, <2>2, ConstantsAssumption
          DEF Call, Goto, CallOK, DiskOK, Times
<1>2. CASE EnqueueStart(t)
  BY <1>a, <1>b, <1>0, <1>2 DEF EnqueueStart, Lock, Goto, CallInv, CallOK, DiskOK
<1>3. CASE EnqueueMessage(t)
  <2>1. req[t].id \in Ids
    BY <1>3, ReqFields DEF EnqueueMessage, CallInv, CallOK
  <2> QED BY <1>a, <1>b, <1>0, <1>3, <2>1
          DEF EnqueueMessage, Goto, CallInv, CallOK, DiskOK
<1>4. CASE EnqueueReceipt(t)
  <2>1. req[t].id \in Ids /\ NameOf[req[t].id[1]] \in Names
    BY <1>4, ReqFields, NameOfType DEF EnqueueReceipt, CallInv, CallOK
  <2> QED BY <1>a, <1>b, <1>0, <1>4, <2>1
          DEF EnqueueReceipt, Goto, CallInv, CallOK, DiskInv, DiskOK
<1>5. CASE RecoverStart(t)
  BY <1>0, <1>5 DEF RecoverStart, Lock, Goto, CallInv, CallOK, DiskOK
<1>6. CASE RecoverOne(t)
  BY <1>0, <1>6 DEF RecoverOne, CallInv, CallOK, DiskOK
<1>7. CASE ClaimRead(t)
  BY <1>0, <1>7 DEF ClaimRead, Goto, CallInv, CallOK, DiskOK, disk
<1>8. CASE ClaimDead(t)
  BY <1>0, <1>8 DEF ClaimDead, CallInv, CallOK, DiskInv, DiskOK
<1>9. CASE FinishStart(t)
  BY <1>0, <1>9 DEF FinishStart, Lock, Goto, CallInv, CallOK, DiskOK, disk
<1>10. CASE Crash(t)
  BY <1>a, <1>10 DEF Crash
<1>11. CASE \/ EnqueueEvent(t) \/ RecoverDone(t) \/ ClaimLease(t) \/ ClaimNone(t)
            \/ FinishRefuse(t) \/ Complete(t) \/ Retry(t) \/ TornError(t) \/ LostRace(t)
  BY <1>a, <1>b, <1>11
     DEF EnqueueEvent, RecoverDone, ClaimLease, ClaimNone, FinishRefuse, Complete,
         Retry, TornError, LostRace
<1> QED
  BY <1>1, <1>2, <1>3, <1>4, <1>5, <1>6, <1>7, <1>8, <1>9, <1>10, <1>11
     DEF ThreadStep, Step, Enqueue, Recover, Claim, Finish

(* The mutex discipline.                                                   *)
LEMMA MutexStep ==
  ASSUME Safe, NEW t \in Threads, ThreadStep(t) \/ Crash(t)
  PROVE  MutexInv'
<1> USE StoreOfType, ConstantsAssumption DEF Safe, TypeOK, CallTypeOK
<1>1. CASE Crash(t)
  BY <1>1 DEF Crash, MutexInv
<1>2. CASE ThreadStep(t)
  <2> SUFFICES ASSUME NEW u \in Threads, pc'[u] \notin {"idle", "called"}
               PROVE  mu'[StoreOf[u]] = u
    BY DEF MutexInv
  <2>1. CASE Call(t) \/ Lock(t)
    <3>1. u # t => pc'[u] = pc[u]
      BY <1>2, StepOthers DEF Still
    <3> QED BY <2>1, <3>1 DEF Call, Goto, Lock, MutexInv
  <2>2. CASE pc[t] = "called" /\ Return(t)
    <3>1. mu[StoreOf[t]] = NoThread
      BY <1>2, <2>2 DEF ThreadStep, Call, Step, Enqueue, Recover, Claim, Finish,
           EnqueueStart, EnqueueMessage, EnqueueReceipt, EnqueueEvent, RecoverStart,
           RecoverOne, RecoverDone, ClaimRead, ClaimDead, ClaimLease, ClaimNone,
           FinishStart, FinishRefuse, Complete, Retry, TornError, LostRace, Lock,
           Appending
    <3> QED BY <2>2, <3>1 DEF Return, MutexInv
  <2>3. CASE pc[t] # "called" /\ Return(t) /\ pc[t] # "idle"
    BY <2>3 DEF Return, MutexInv
  <2>4. CASE /\ pc[t] \notin {"idle", "called"} /\ mu' = mu
             /\ \A v \in Threads \ {t} : pc'[v] = pc[v]
    BY <2>4 DEF MutexInv
  <2>5. \A v \in Threads \ {t} : pc'[v] = pc[v]
    BY <1>2, StepOthers DEF Still
  <2> QED
    BY <1>2, <2>1, <2>2, <2>3, <2>4, <2>5
       DEF ThreadStep, Step, Enqueue, Recover, Claim, Finish,
           EnqueueStart, EnqueueMessage, EnqueueReceipt, EnqueueEvent, RecoverStart,
           RecoverOne, RecoverDone, ClaimRead, ClaimDead, ClaimLease, ClaimNone,
           FinishStart, FinishRefuse, Complete, Retry, TornError, LostRace, Appending
<1> QED BY <1>1, <1>2

(* Every change of the chain is the append of one event to a message that  *)
(* is on disk, by the caller that moves.                                   *)
LEMMA OnlyAppends ==
  ASSUME Safe, NEW t \in Threads, ThreadStep(t) \/ Crash(t), last' # last
  PROVE  /\ pc[t] \notin {"idle", "called"}
         /\ \E i \in Ids, e \in Events :
              /\ messages[i] = "ok" /\ appendEventLocked(i, e)
              /\ i \in todo[t] \/ (pc[t] = "enqueued" /\ i = req[t].id)
                   \/ (pc[t] = "finish" /\ i = req[t].token[1])
<1> USE DEF Safe, TypeOK, CallTypeOK
<1>1. CASE EnqueueEvent(t)
  <2>1. req[t].id \in Ids /\ messages[req[t].id] = "ok"
    BY <1>1, ReqFields DEF EnqueueEvent, CallInv, CallOK, DiskInv, DiskOK
  <2>2. Event("enqueued", 0, <<>>, 0, 0) \in Events
    BY EventType
  <2> QED BY <1>1, <2>1, <2>2 DEF EnqueueEvent
<1>2. CASE RecoverOne(t)
  <2>1. PICK i \in todo[t] :
          appendEventLocked(i, Event("recovered", by[t][i].attempt, <<>>, 0, 0))
    BY <1>2 DEF RecoverOne
  <2>2. i \in Ids /\ by[t][i] \in Events \cup {NoEvent}
    OBVIOUS
  <2>3. by[t][i] \in Events /\ by[t][i] # NoEvent
    BY <1>2, <2>2, LeasedIsEvent, EventFields DEF RecoverOne, CallInv, CallOK, Expired
  <2>4. messages[i] = "ok"
    BY <2>2, <2>3 DEF DiskInv, SeenOK
  <2>5. Event("recovered", by[t][i].attempt, <<>>, 0, 0) \in Events
    BY <2>3, EventType, EventFields
  <2> QED BY <1>2, <2>1, <2>2, <2>4, <2>5 DEF RecoverOne
<1>3. CASE ClaimDead(t)
  <2>1. PICK i \in todo[t] :
          /\ messages[i] = "ok"
          /\ appendEventLocked(i, Event("dead", AttemptOf(by[t][i]), <<>>, 0, 0))
    BY <1>3 DEF ClaimDead
  <2>2. i \in Ids /\ by[t][i] \in Events \cup {NoEvent}
    OBVIOUS
  <2>3. Event("dead", AttemptOf(by[t][i]), <<>>, 0, 0) \in Events
    BY <2>2, EventType, AttemptType
  <2> QED BY <1>3, <2>1, <2>2, <2>3 DEF ClaimDead
<1>4. CASE ClaimLease(t)
  <2>1. PICK i \in todo[t] :
          LET attempt == AttemptOf(by[t][i]) + 1
              token   == <<i, req[t].at, attempt>>
          IN /\ messages[i] = "ok"
             /\ attempt <= MaxAttempts
             /\ appendEventLocked(i, Event("leased", attempt, token,
                                           req[t].at + Lease, 0))
    BY <1>4 DEF ClaimLease
  <2>2. i \in Ids /\ by[t][i] \in Events \cup {NoEvent}
    OBVIOUS
  <2>3. Event("leased", AttemptOf(by[t][i]) + 1, <<i, req[t].at, AttemptOf(by[t][i]) + 1>>,
              req[t].at + Lease, 0) \in Events
    BY <1>4, <2>1, <2>2, LeaseEvent DEF ClaimLease
  <2> QED BY <1>4, <2>1, <2>2, <2>3 DEF ClaimLease
<1>5. CASE Complete(t) \/ Retry(t)
  <2> DEFINE i == req[t].token[1]
  <2>1. i \in Ids /\ messages[i] = "ok" /\ by[t][i] \in Events
    <3>1. pc[t] = "finish" /\ i \in Ids
      BY <1>5, ReqFields DEF Complete, Retry, CallInv, CallOK
    <3>2. by[t][i] \in Events \cup {NoEvent} /\ StateOf(by[t][i]) = "leased"
      BY <3>1 DEF CallInv, CallOK, Finishable
    <3> QED BY <3>1, <3>2, LeasedIsEvent DEF CallInv, CallOK
  <2>2. CASE Complete(t)
    <3>1. Event("completed", by[t][i].attempt, <<>>, 0, 0) \in Events
      BY <2>1, EventType, EventFields
    <3> QED BY <2>1, <2>2, <3>1 DEF Complete
  <2>3. CASE Retry(t)
    <3>1. req[t].at + req[t].delay \in Nat
      BY <2>3, ReqFields DEF Retry
    <3>2. Event("retry_scheduled", by[t][i].attempt, <<>>, 0,
                req[t].at + req[t].delay) \in Events
      BY <2>1, <3>1, EventType, EventFields
    <3> QED BY <2>1, <2>3, <3>2 DEF Retry
  <2> QED BY <1>5, <2>2, <2>3
<1>6. ~(EnqueueEvent(t) \/ RecoverOne(t) \/ ClaimDead(t) \/ ClaimLease(t)
         \/ Complete(t) \/ Retry(t)) => last' = last
  BY DEF ThreadStep, Step, Enqueue, Recover, Claim, Finish, Call, EnqueueStart,
         EnqueueMessage, EnqueueReceipt, RecoverStart, RecoverDone, ClaimRead,
         ClaimNone, FinishStart, FinishRefuse, TornError, LostRace, Crash, disk
<1> QED BY <1>1, <1>2, <1>3, <1>4, <1>5, <1>6

(* The safety invariant is inductive.                                      *)
LEMMA SafeStep == Safe /\ [Next]_vars => Safe'
<1> SUFFICES ASSUME Safe, [Next]_vars PROVE Safe'
  OBVIOUS
<1> USE DEF Safe
<1>1. CASE UNCHANGED vars
  BY <1>1 DEF vars, TypeOK, DiskTypeOK, CallTypeOK, CallInv, CallOK, MutexInv, DiskInv,
              DiskOK, SeenOK
<1>2. CASE Tick
  <2>1. TypeOK'
    BY <1>2, ConstantsAssumption
       DEF Tick, TypeOK, DiskTypeOK, CallTypeOK, Times, disk, local
  <2>2. now' \in Nat /\ now' >= now /\ DiskGrows /\ \A u \in Threads : Still(u)
    BY <1>2, ConstantsAssumption
       DEF Tick, TypeOK, DiskTypeOK, Times, disk, local, Still, DiskGrows
  <2>3. CallInv' /\ \A u \in Threads : DiskOK(u)'
    BY <2>2, Frame DEF CallInv, DiskInv
  <2>4. MutexInv' /\ DiskInv'
    BY <1>2, <2>3 DEF Tick, MutexInv, DiskInv, SeenOK, disk, local
  <2> QED BY <2>1, <2>3, <2>4
<1>3. ASSUME NEW t \in Threads, ThreadStep(t) \/ Crash(t) PROVE Safe'
  <2>1. TypeOK'
    BY <1>3, TypeStep DEF ThreadStep
  <2>2. DiskGrows /\ now' = now
    BY <1>3, StepGrows
  <2>3. ASSUME NEW u \in Threads PROVE CallOK(u)' /\ DiskOK(u)'
    <3>1. CASE u = t
      BY <1>3, <2>1, <3>1, StepSelf
    <3>2. CASE Still(u)
      BY <2>1, <2>2, <3>2, Frame, ConstantsAssumption DEF DiskInv, TypeOK, DiskTypeOK, Times
    <3>3. CASE u # t /\ ThreadStep(t)
      BY <3>2, <3>3, StepOthers
    <3>4. CASE Crash(t) /\ ~Still(u)
      <4>1. pc'[u] = "idle"
        BY <3>4 DEF Crash, Still
      <4> QED BY <4>1 DEF CallOK, DiskOK
    <3> QED BY <1>3, <3>1, <3>2, <3>3, <3>4
  <2>4. MutexInv'
    BY <1>3, MutexStep
  <2>5. ASSUME NEW id \in Ids, last'[id] # NoEvent PROVE messages'[id] = "ok"
    <3>1. CASE last'[id] = last[id]
      BY <2>2, <2>5, <3>1 DEF DiskInv, DiskGrows
    <3>2. CASE last'[id] # last[id]
      <4>1. messages[id] = "ok"
        <5>1. PICK i \in Ids, e \in Events : messages[i] = "ok" /\ appendEventLocked(i, e)
          BY <1>3, <3>2, OnlyAppends
        <5> QED BY <3>2, <5>1 DEF appendEventLocked, TypeOK, DiskTypeOK
      <4> QED BY <2>2, <4>1 DEF DiskGrows
    <3> QED BY <3>1, <3>2
  <2>6. ASSUME NEW u \in Threads, NEW id \in Ids, by'[u][id] # NoEvent
        PROVE  messages'[id] = "ok"
    <3>1. by'[u][id] \in {by[u][id], last[id]}
      BY <1>3, <2>6, StepReads
    <3> QED BY <2>2, <2>6, <3>1 DEF DiskInv, SeenOK, DiskGrows
  <2> QED BY <2>1, <2>3, <2>4, <2>5, <2>6 DEF CallInv, DiskInv, SeenOK
<1> QED BY <1>1, <1>2, <1>3 DEF Next, ThreadStep

LEMMA SafeInit == Init => Safe
<1> SUFFICES ASSUME Init PROVE Safe
  OBVIOUS
<1>1. CallInv /\ MutexInv /\ DiskInv
  BY DEF Init, CallInv, CallOK, MutexInv, DiskInv, DiskOK, SeenOK
<1> QED BY <1>1, TypeInit DEF Safe

-----------------------------------------------------------------------------
(* The outbox keeps its types, and its callers keep the mutex discipline:  *)
(* for any number of callers, stores, keys, payloads and crashes           *)
(* (productionops/outbox.go, every operation).                             *)
THEOREM TypeCorrect == Spec => []TypeOK
<1>1. Safe => TypeOK
  BY DEF Safe
<1> QED BY <1>1, SafeInit, SafeStep, PTL DEF Spec

(* What was acknowledged is on disk under its receipt.                     *)
AckInv == \A id \in acked : messages[id] = "ok" /\ receipts[NameOf[id[1]]] = id

LEMMA AckStep == Safe /\ AckInv /\ [Next]_vars => AckInv'
<1> SUFFICES ASSUME Safe, AckInv, [Next]_vars PROVE AckInv'
  OBVIOUS
<1> USE DEF Safe
<1>1. CASE UNCHANGED vars
  BY <1>1 DEF vars, AckInv
<1>2. CASE Tick
  BY <1>2 DEF Tick, disk, AckInv
<1>3. ASSUME NEW t \in Threads, ThreadStep(t) \/ Crash(t) PROVE AckInv'
  <2>1. DiskGrows
    BY <1>3, StepGrows
  <2>2. ASSUME NEW id \in acked'
        PROVE  messages[id] = "ok" /\ receipts[NameOf[id[1]]] = id /\ id \in Ids
    <3>1. CASE id \in acked
      BY <3>1 DEF AckInv, TypeOK, DiskTypeOK
    <3>2. CASE EnqueueStart(t)
      <4>1. req[t].id \in Ids
        BY <3>2, ReqFields DEF EnqueueStart
      <4> QED BY <2>2, <3>1, <3>2, <4>1 DEF EnqueueStart
    <3>3. CASE EnqueueEvent(t)
      <4>1. req[t].id \in Ids
        BY <3>3, ReqFields DEF EnqueueEvent, CallInv, CallOK
      <4> QED BY <2>2, <3>1, <3>3, <4>1 DEF EnqueueEvent, DiskInv, DiskOK
    <3>4. ~EnqueueStart(t) /\ ~EnqueueEvent(t) => acked' = acked
      BY <1>3
         DEF ThreadStep, Step, Enqueue, Recover, Claim, Finish, Call, EnqueueMessage,
             EnqueueReceipt, RecoverStart, RecoverOne, RecoverDone, ClaimRead,
             ClaimDead, ClaimLease, ClaimNone, FinishStart, FinishRefuse, Complete,
             Retry, TornError, LostRace, Crash
    <3> QED BY <2>2, <3>1, <3>2, <3>3, <3>4
  <2> QED BY <2>1, <2>2, NameOfType, ConstantsAssumption DEF AckInv, DiskGrows
<1> QED BY <1>1, <1>2, <1>3 DEF Next, ThreadStep

(* An idempotency key is acknowledged for one payload only, and that       *)
(* message and its receipt stay on disk: for any number of processes       *)
(* enqueueing at once and any crashes (Enqueue).                           *)
THEOREM Idempotent == Spec => []AckedOncePerKey
<1>1. Init => AckInv
  BY DEF Init, AckInv
<1>2. AckInv => AckedOncePerKey
  BY DEF AckInv, AckedOncePerKey
<1> QED BY <1>1, <1>2, SafeInit, SafeStep, AckStep, PTL DEF Spec

-----------------------------------------------------------------------------
(* One store: the decisions of a call are made on the current chain.       *)
OneInv == Safe /\ FreshInv /\ CountInv

(* With one store, a caller is alone past its first step.                  *)
LEMMA Alone ==
  ASSUME SingleStore, Safe, NEW t \in Threads, NEW u \in Threads, u # t,
         pc[t] \notin {"idle", "called"} \/ mu[StoreOf[t]] = NoThread
  PROVE  pc[u] \in {"idle", "called"}
BY ConstantsAssumption, StoreOfType DEF SingleStore, Safe, MutexInv

(* What is appended follows the lifecycle, and counts the leases.          *)
LEMMA AppendFollows ==
  ASSUME OneInv, NEW t \in Threads, ThreadStep(t) \/ Crash(t), NEW id \in Ids,
         last'[id] # last[id]
  PROVE  /\ Follows(last[id], last'[id])
         /\ last'[id].action = "leased" =>
              /\ last'[id].attempt = AttemptOf(last[id]) + 1
              /\ last'[id].attempt <= MaxAttempts
              /\ now >= NextOf(last[id])
         /\ last'[id].action # "leased" => last'[id].attempt = AttemptOf(last[id])
         /\ last'[id].action = "dead" => AttemptOf(last[id]) = MaxAttempts
         /\ last'[id].action = "recovered" => now >= last[id].exp
         /\ last'[id].action \in {"completed", "retry_scheduled"} =>
              /\ pc[t] = "finish"
              /\ req[t].token = last[id].token
              /\ req[t].at <= last[id].exp
         /\ leases' = [leases EXCEPT ![id] =
              @ + (IF last'[id].action = "leased" THEN 1 ELSE 0)]
         /\ last' = [last EXCEPT ![id] = last'[id]]
<1> USE DEF OneInv, Safe, TypeOK, DiskTypeOK, CallTypeOK
<1> DEFINE Goal(e) ==
      /\ Follows(last[id], e)
      /\ e.action = "leased" =>
           /\ e.attempt = AttemptOf(last[id]) + 1
           /\ e.attempt <= MaxAttempts
           /\ now >= NextOf(last[id])
      /\ e.action # "leased" => e.attempt = AttemptOf(last[id])
      /\ e.action = "dead" => AttemptOf(last[id]) = MaxAttempts
      /\ e.action = "recovered" => now >= last[id].exp
      /\ e.action \in {"completed", "retry_scheduled"} =>
           /\ pc[t] = "finish"
           /\ req[t].token = last[id].token
           /\ req[t].at <= last[id].exp
<1>0. last[id] \in Events \cup {NoEvent} /\ now \in Nat
  BY ConstantsAssumption DEF Times
<1>a. ASSUME NEW i \in Ids, NEW e \in Events, appendEventLocked(i, e)
      PROVE  /\ i = id /\ e = last'[id]
             /\ last' = [last EXCEPT ![id] = e]
             /\ leases' = [leases EXCEPT ![id] =
                             @ + (IF e.action = "leased" THEN 1 ELSE 0)]
  <2>1. last' = [last EXCEPT ![i] = e]
    BY <1>a DEF appendEventLocked
  <2>2. i = id
    BY <2>1
  <2> QED BY <1>a, <2>1, <2>2 DEF appendEventLocked
<1>1. CASE EnqueueEvent(t)
  <2> DEFINE e == Event("enqueued", 0, <<>>, 0, 0)
  <2>1. req[t].id \in Ids /\ last[req[t].id] = NoEvent
    BY <1>1, ReqFields DEF EnqueueEvent, CallInv, CallOK, FreshInv, FreshOK
  <2>2. e \in Events /\ e.action = "enqueued" /\ e.attempt = 0
    <3>1. e \in Events
      BY EventType
    <3> QED BY <3>1 DEF Event
  <2>3. appendEventLocked(req[t].id, e)
    BY <1>1 DEF EnqueueEvent
  <2> HIDE DEF e
  <2>4. req[t].id = id /\ e = last'[id]
    BY <1>a, <2>1, <2>2, <2>3
  <2>5. Goal(e)
    BY <2>1, <2>2, <2>4 DEF Follows, AttemptOf
  <2> QED BY <1>a, <2>1, <2>2, <2>3, <2>4, <2>5
<1>2. CASE RecoverOne(t)
  <2>1. PICK i \in todo[t] :
          appendEventLocked(i, Event("recovered", by[t][i].attempt, <<>>, 0, 0))
    BY <1>2 DEF RecoverOne
  <2> DEFINE e == Event("recovered", by[t][i].attempt, <<>>, 0, 0)
  <2>2. i \in Ids /\ by[t][i] = last[i] /\ Expired(last[i], req[t].at)
    BY <1>2 DEF RecoverOne, CallInv, CallOK, FreshInv, FreshOK
  <2>3. last[i] \in Events /\ last[i].exp \in Nat /\ last[i].attempt \in Nat
    BY <2>2, LeasedIsEvent, EventFields DEF Expired
  <2>4. e \in Events /\ e.action = "recovered" /\ e.attempt = last[i].attempt
    <3>1. e \in Events
      BY <2>2, <2>3, EventType
    <3> QED BY <2>2, <3>1 DEF Event
  <2> HIDE DEF e
  <2>5. i = id /\ e = last'[id]
    BY <1>a, <2>1, <2>2, <2>4 DEF e
  <2>6. now >= last[id].exp
    BY <1>2, <1>0, <2>2, <2>3, <2>5, ReqFields DEF RecoverOne, Expired
  <2>7. Goal(e)
    BY <2>2, <2>3, <2>4, <2>5, <2>6, EventFields DEF Follows, AttemptOf, Expired
  <2> QED BY <1>a, <2>1, <2>2, <2>4, <2>5, <2>7 DEF e
<1>3. CASE ClaimDead(t)
  <2>1. PICK i \in todo[t] :
          /\ messages[i] = "ok"
          /\ AttemptOf(by[t][i]) + 1 > MaxAttempts
          /\ appendEventLocked(i, Event("dead", AttemptOf(by[t][i]), <<>>, 0, 0))
    BY <1>3 DEF ClaimDead
  <2> DEFINE e == Event("dead", AttemptOf(by[t][i]), <<>>, 0, 0)
  <2>2. i \in Ids /\ by[t][i] = last[i] /\ Due(last[i], req[t].at)
    BY <1>3, <2>1 DEF ClaimDead, CallInv, CallOK, FreshInv, FreshOK
  <2>3. e \in Events /\ e.action = "dead" /\ e.attempt = AttemptOf(last[i])
    <3>0. AttemptOf(by[t][i]) \in Nat
      BY <2>2, AttemptType
    <3>1. e \in Events
      BY <3>0, EventType
    <3> QED BY <2>2, <3>1 DEF Event
  <2> HIDE DEF e
  <2>4. i = id /\ e = last'[id]
    BY <1>a, <2>1, <2>2, <2>3 DEF e
  <2>5. AttemptOf(last[id]) = MaxAttempts
    BY <2>1, <2>2, <2>4, AttemptType, ConstantsAssumption DEF CountInv
  <2>6. Goal(e)
    BY <2>2, <2>3, <2>4, <2>5 DEF Follows, Due
  <2> QED BY <1>a, <2>1, <2>2, <2>3, <2>4, <2>6 DEF e
<1>4. CASE ClaimLease(t)
  <2>1. PICK i \in todo[t] :
          /\ messages[i] = "ok"
          /\ AttemptOf(by[t][i]) + 1 <= MaxAttempts
          /\ appendEventLocked(i, Event("leased", AttemptOf(by[t][i]) + 1,
                                        <<i, req[t].at, AttemptOf(by[t][i]) + 1>>,
                                        req[t].at + Lease, 0))
    BY <1>4 DEF ClaimLease
  <2> DEFINE e == Event("leased", AttemptOf(by[t][i]) + 1,
                        <<i, req[t].at, AttemptOf(by[t][i]) + 1>>, req[t].at + Lease, 0)
  <2>2. i \in Ids /\ by[t][i] = last[i] /\ Due(last[i], req[t].at)
    BY <1>4, <2>1 DEF ClaimLease, CallInv, CallOK, FreshInv, FreshOK
  <2>3. e \in Events
    BY <1>4, <2>1, <2>2, LeaseEvent DEF ClaimLease
  <2>4. e.action = "leased" /\ e.attempt = AttemptOf(last[i]) + 1
    BY <2>2 DEF Event
  <2> HIDE DEF e
  <2>5. i = id /\ e = last'[id]
    BY <1>a, <2>1, <2>2, <2>3 DEF e
  <2>6. now >= NextOf(last[id])
    BY <1>4, <1>0, <2>2, <2>5, ReqFields, AttemptType DEF ClaimLease, Due
  <2>7. Goal(e)
    BY <2>1, <2>2, <2>4, <2>5, <2>6 DEF Follows, Due
  <2> QED BY <1>a, <2>1, <2>2, <2>3, <2>5, <2>7 DEF e
<1>5. CASE Complete(t) \/ Retry(t)
  <2> DEFINE i == req[t].token[1]
  <2>1. pc[t] = "finish" /\ req[t].op \in {"complete", "retry"}
    BY <1>5 DEF Complete, Retry
  <2>2. i \in Ids /\ by[t][i] = last[i] /\ Finishable(last[i], req[t].token, req[t].at)
    BY <2>1, ReqFields DEF CallInv, CallOK, FreshInv, FreshOK
  <2>3. last[i] \in Events /\ last[i].attempt \in Nat /\ last[i] # NoEvent
    BY <2>2, LeasedIsEvent, EventFields DEF Finishable
  <2>4. PICK e \in Events :
          /\ e.action \in {"completed", "retry_scheduled"}
          /\ e.attempt = last[i].attempt
          /\ appendEventLocked(i, e)
    <3>1. CASE Complete(t)
      <4> DEFINE x == Event("completed", by[t][i].attempt, <<>>, 0, 0)
      <4>1. x \in Events /\ x.action = "completed" /\ x.attempt = last[i].attempt
        <5>1. x \in Events
          BY <2>2, <2>3, EventType
        <5> QED BY <2>2, <5>1 DEF Event
      <4> QED BY <3>1, <4>1 DEF Complete
    <3>2. CASE Retry(t)
      <4> DEFINE x == Event("retry_scheduled", by[t][i].attempt, <<>>, 0,
                            req[t].at + req[t].delay)
      <4>1. req[t].at + req[t].delay \in Nat
        <5>1. req[t].op = "retry"
          BY <3>2 DEF Retry
        <5>2. req[t].at \in Nat /\ req[t].delay \in Nat
          BY <2>1, <5>1, ReqFields
        <5> QED BY <5>2
      <4>2. x \in Events /\ x.action = "retry_scheduled" /\ x.attempt = last[i].attempt
        <5>1. x \in Events
          BY <2>2, <2>3, <4>1, EventType
        <5> QED BY <2>2, <5>1 DEF Event
      <4> QED BY <3>2, <4>2 DEF Retry
    <3> QED BY <1>5, <3>1, <3>2
  <2>5. i = id /\ e = last'[id]
    BY <1>a, <2>2, <2>4
  <2> HIDE DEF i
  <2>6. Goal(e)
    BY <2>1, <2>2, <2>3, <2>4, <2>5 DEF Follows, Finishable, AttemptOf
  <2> QED BY <1>a, <2>2, <2>4, <2>5, <2>6
<1>6. EnqueueEvent(t) \/ RecoverOne(t) \/ ClaimDead(t) \/ ClaimLease(t)
        \/ Complete(t) \/ Retry(t)
  BY DEF ThreadStep, Step, Enqueue, Recover, Claim, Finish, Call, EnqueueStart,
         EnqueueMessage, EnqueueReceipt, RecoverStart, RecoverDone, ClaimRead,
         ClaimNone, FinishStart, FinishRefuse, TornError, LostRace, Crash, disk
<1> QED BY <1>1, <1>2, <1>3, <1>4, <1>5, <1>6

(* A step that leaves the chain alone leases nothing.                      *)
LEMMA QuietSteps ==
  ASSUME OneInv, NEW t \in Threads, ThreadStep(t) \/ Crash(t), last' = last
  PROVE  leases' = leases
<1> USE DEF OneInv, Safe, TypeOK, DiskTypeOK, CallTypeOK
<1>a. ASSUME NEW i, NEW e, appendEventLocked(i, e), e.action # "leased"
      PROVE  leases' = leases
  BY <1>a DEF appendEventLocked
<1>1. CASE ClaimLease(t)
  <2>1. PICK i \in todo[t] :
          /\ messages[i] = "ok"
          /\ AttemptOf(by[t][i]) + 1 <= MaxAttempts
          /\ appendEventLocked(i, Event("leased", AttemptOf(by[t][i]) + 1,
                                        <<i, req[t].at, AttemptOf(by[t][i]) + 1>>,
                                        req[t].at + Lease, 0))
    BY <1>1 DEF ClaimLease
  <2> DEFINE e == Event("leased", AttemptOf(by[t][i]) + 1,
                        <<i, req[t].at, AttemptOf(by[t][i]) + 1>>, req[t].at + Lease, 0)
  <2>2. i \in Ids /\ by[t][i] \in Events \cup {NoEvent} /\ StateOf(last[i]) = "pending"
    BY <1>1, <2>1 DEF ClaimLease, CallInv, CallOK, FreshInv, FreshOK, Due
  <2>3. e \in Events
    BY <1>1, <2>1, <2>2, LeaseEvent DEF ClaimLease
  <2>4. e.action = "leased"
    BY DEF Event
  <2>5. last[i] = e
    BY <2>1, <2>2 DEF appendEventLocked
  <2> HIDE DEF e
  <2> QED BY <2>2, <2>3, <2>4, <2>5, EventFields DEF StateOf
<1>2. CASE EnqueueEvent(t)
  BY <1>2, <1>a DEF EnqueueEvent, Event
<1>3. CASE RecoverOne(t)
  BY <1>3, <1>a DEF RecoverOne, Event
<1>4. CASE ClaimDead(t)
  BY <1>4, <1>a DEF ClaimDead, Event
<1>5. CASE Complete(t) \/ Retry(t)
  BY <1>5, <1>a DEF Complete, Retry, Event
<1>6. ~(EnqueueEvent(t) \/ RecoverOne(t) \/ ClaimDead(t) \/ ClaimLease(t)
         \/ Complete(t) \/ Retry(t)) => leases' = leases
  BY DEF ThreadStep, Step, Enqueue, Recover, Claim, Finish, Call, EnqueueStart,
         EnqueueMessage, EnqueueReceipt, RecoverStart, RecoverDone, ClaimRead,
         ClaimNone, FinishStart, FinishRefuse, TornError, LostRace, Crash, disk
<1> QED BY <1>1, <1>2, <1>3, <1>4, <1>5, <1>6

(* With one store the invariant is inductive.                              *)
LEMMA CountStep ==
  ASSUME OneInv, NEW t \in Threads, ThreadStep(t) \/ Crash(t)
  PROVE  CountInv'
<1> SUFFICES ASSUME NEW id \in Ids
             PROVE  leases'[id] = AttemptOf(last'[id]) /\ leases'[id] <= MaxAttempts
  BY DEF CountInv
<1> USE DEF OneInv, Safe, TypeOK, DiskTypeOK
<1>1. CASE last'[id] # last[id]
  <2>1. last'[id] # NoEvent
    <3>1. PICK i \in Ids, e \in Events : appendEventLocked(i, e)
      BY <1>1, OnlyAppends
    <3> QED BY <1>1, <3>1, EventFields DEF appendEventLocked
  <2> QED BY <1>1, <2>1, AppendFollows, AttemptType DEF AttemptOf, CountInv
<1>2. CASE last'[id] = last[id]
  <2>1. leases'[id] = leases[id]
    <3>1. CASE last' = last
      <4>1. leases' = leases
        BY <3>1, QuietSteps
      <4> QED BY <4>1
    <3>2. CASE last' # last
      <4>1. PICK i \in Ids : last'[i] # last[i]
        BY <3>2, TypeStep DEF ThreadStep
      <4> QED BY <1>2, <4>1, AppendFollows
    <3> QED BY <3>1, <3>2
  <2> QED BY <1>2, <2>1 DEF CountInv
<1> QED BY <1>1, <1>2

LEMMA FreshStep ==
  ASSUME SingleStore, OneInv, NEW t \in Threads, ThreadStep(t) \/ Crash(t)
  PROVE  FreshInv'
<1> SUFFICES ASSUME NEW u \in Threads PROVE FreshOK(u)'
  BY DEF FreshInv
<1> USE DEF OneInv, Safe, TypeOK, CallTypeOK, DiskTypeOK
<1>0. CASE pc'[u] \in {"idle", "called"}
  BY <1>0 DEF FreshOK
<1>1. CASE last' = last /\ Still(u)
  BY <1>1 DEF FreshInv, FreshOK, Still
<1>2. CASE u # t /\ last' # last
  <2>1. pc[u] \in {"idle", "called"}
    BY <1>2, OnlyAppends, Alone
  <2>2. pc'[u] = pc[u] \/ pc'[u] = "idle"
    BY <1>2, StepOthers DEF Still, Crash
  <2> QED BY <1>0, <2>1, <2>2
<1>3. CASE u # t /\ last' = last
  <2>1. CASE Crash(t)
    BY <1>0, <1>1, <1>3, <2>1 DEF Crash, Still
  <2> QED BY <1>1, <1>3, <2>1, StepOthers
<1>4. CASE u = t
  <2>1. CASE EnqueueStart(t) \/ Call(t)
    BY <1>4, <1>0, <2>1 DEF EnqueueStart, Call, Goto, Return, FreshOK
  <2>2. CASE EnqueueMessage(t)
    <3>1. req[t].id \in Ids
      BY <2>2, ReqFields DEF EnqueueMessage, CallInv, CallOK
    <3> QED BY <1>4, <1>0, <2>2, <3>1
            DEF EnqueueMessage, Goto, Return, FreshOK, DiskInv
  <2>3. CASE EnqueueReceipt(t)
    BY <1>4, <1>0, <2>3 DEF EnqueueReceipt, Goto, Return, FreshInv, FreshOK
  <2>4. CASE RecoverStart(t) \/ ClaimRead(t) \/ FinishStart(t)
    <3>1. FinishStart(t) => req[t].token[1] \in Ids
      BY ReqFields DEF FinishStart, Lock
    <3> QED BY <1>4, <2>4, <3>1
            DEF RecoverStart, ClaimRead, FinishStart, Goto, FreshOK, disk, Lock
  <2>5. CASE RecoverOne(t) \/ ClaimDead(t)
    <3>1. PICK i \in todo[t] : /\ \E e : last' = [last EXCEPT ![i] = e]
                               /\ todo' = [todo EXCEPT ![t] = @ \ {i}]
      BY <2>5 DEF RecoverOne, ClaimDead, appendEventLocked
    <3> QED BY <1>4, <2>5, <3>1 DEF RecoverOne, ClaimDead, FreshInv, FreshOK
  <2>6. CASE Return(t) \/ Crash(t)
    BY <1>4, <1>0, <2>6 DEF Return, Crash
  <2> QED BY <2>1, <2>2, <2>3, <2>4, <2>5, <2>6
       DEF ThreadStep, Step, Enqueue, Recover, Claim, Finish, EnqueueEvent, RecoverDone,
           ClaimLease, ClaimNone, FinishRefuse, Complete, Retry, TornError, LostRace
<1> QED BY <1>2, <1>3, <1>4

LEMMA OneStep == SingleStore /\ OneInv /\ [Next]_vars => OneInv'
<1> SUFFICES ASSUME SingleStore, OneInv, [Next]_vars PROVE OneInv'
  OBVIOUS
<1>1. Safe'
  BY SafeStep DEF OneInv
<1>2. CASE UNCHANGED vars \/ Tick
  BY <1>1, <1>2 DEF vars, Tick, disk, local, OneInv, FreshInv, FreshOK, CountInv
<1>3. ASSUME NEW t \in Threads, ThreadStep(t) \/ Crash(t) PROVE OneInv'
  BY <1>1, <1>3, CountStep, FreshStep DEF OneInv
<1> QED BY <1>2, <1>3 DEF Next, ThreadStep

LEMMA OneInit == Init => OneInv
<1>1. Init => FreshInv /\ CountInv
  BY ConstantsAssumption DEF Init, FreshInv, FreshOK, CountInv, AttemptOf
<1> QED BY <1>1, SafeInit DEF OneInv

-----------------------------------------------------------------------------
(* One step of the specification, as a step of a caller.                   *)
LEMMA ChainSteps ==
  ASSUME OneInv, [Next]_vars, NEW id \in Ids, last'[id] # last[id]
  PROVE  \E t \in Threads : ThreadStep(t) \/ Crash(t)
<1>1. ~UNCHANGED vars /\ ~Tick
  BY DEF vars, Tick, disk
<1> QED BY <1>1 DEF Next, ThreadStep

(* With one process, every event follows the lifecycle, whatever retries,  *)
(* expiries and crashes happen (Claim, finishLocked, recoverLocked).       *)
THEOREM Lifecycle == SingleStore => (Spec => LifecycleFollowed)
<1> SUFFICES ASSUME SingleStore PROVE Spec => LifecycleFollowed
  OBVIOUS
<1>1. OneInv /\ [Next]_vars => OneInv'
  BY OneStep
<1>2. ASSUME OneInv, [Next]_vars, NEW id \in Ids, last'[id] # last[id]
      PROVE  Follows(last[id], last'[id])
  <2>1. PICK t \in Threads : ThreadStep(t) \/ Crash(t)
    BY <1>2, ChainSteps
  <2> QED BY <1>2, <2>1, AppendFollows
<1>3. OneInv /\ [Next]_vars
        => [\A id \in Ids : last'[id] # last[id] => Follows(last[id], last'[id])]_vars
  BY <1>2
<1> QED BY <1>1, <1>3, OneInit, PTL DEF Spec, LifecycleFollowed

(* With one process, a message is finished only by the holder of its last  *)
(* lease and not after that lease expired (finishLocked).                  *)
THEOREM Fenced == SingleStore => (Spec => FinishIsFenced)
<1> SUFFICES ASSUME SingleStore PROVE Spec => FinishIsFenced
  OBVIOUS
<1>1. OneInv /\ [Next]_vars => OneInv'
  BY OneStep
<1>2. ASSUME OneInv, [Next]_vars, NEW id \in Ids, last'[id] # last[id]
      PROVE  last'[id].action \in {"completed", "retry_scheduled"} =>
               \E t \in Threads : /\ pc[t] = "finish"
                                  /\ req[t].token = last[id].token
                                  /\ req[t].at <= last[id].exp
  <2>1. PICK t \in Threads : ThreadStep(t) \/ Crash(t)
    BY <1>2, ChainSteps
  <2> QED BY <1>2, <2>1, AppendFollows
<1>3. OneInv /\ [Next]_vars
        => [\A id \in Ids : 
             (last'[id] # last[id] /\ last'[id].action \in {"completed", "retry_scheduled"})
               => \E t \in Threads : /\ pc[t] = "finish"
                                     /\ req[t].token = last[id].token
                                     /\ req[t].at <= last[id].exp]_vars
  BY <1>2
<1> QED BY <1>1, <1>3, OneInit, PTL DEF Spec, FinishIsFenced

(* With one process, no lease is taken away and no retry is leased early   *)
(* (recoverLocked, Claim).                                                 *)
THEOREM Timely == SingleStore => (Spec => NothingEarly)
<1> SUFFICES ASSUME SingleStore PROVE Spec => NothingEarly
  OBVIOUS
<1>1. OneInv /\ [Next]_vars => OneInv'
  BY OneStep
<1>2. ASSUME OneInv, [Next]_vars, NEW id \in Ids, last'[id] # last[id]
      PROVE  /\ last'[id].action = "recovered" => now >= last[id].exp
             /\ last'[id].action = "leased" => now >= NextOf(last[id])
  <2>1. PICK t \in Threads : ThreadStep(t) \/ Crash(t)
    BY <1>2, ChainSteps
  <2> QED BY <1>2, <2>1, AppendFollows
<1>3. OneInv /\ [Next]_vars
        => [\A id \in Ids : 
             last'[id] # last[id] =>
               /\ last'[id].action = "recovered" => now >= last[id].exp
               /\ last'[id].action = "leased" => now >= NextOf(last[id])]_vars
  BY <1>2
<1> QED BY <1>1, <1>3, OneInit, PTL DEF Spec, NothingEarly

(* With one process, no message is leased more than MaxAttempts times      *)
(* (Claim).                                                                *)
THEOREM Bounded == SingleStore => (Spec => []AttemptsBounded)
<1> SUFFICES ASSUME SingleStore PROVE Spec => []AttemptsBounded
  OBVIOUS
<1>1. OneInv /\ [Next]_vars => OneInv'
  BY OneStep
<1>2. OneInv => AttemptsBounded
  BY DEF OneInv, CountInv, AttemptsBounded
<1> QED BY <1>1, <1>2, OneInit, PTL DEF Spec

(* The leases of one store, crashes included: attempts bounded, finishing  *)
(* fenced, nothing early (Claim, finishLocked, recoverLocked).             *)
THEOREM Leases == SingleStore => (Spec => LeasesKept)
<1> SUFFICES ASSUME SingleStore PROVE Spec => LeasesKept
  OBVIOUS
<1> QED BY Bounded, Fenced, Timely, PTL DEF LeasesKept

-----------------------------------------------------------------------------
(* The refinement mapping.                                                 *)
QState    == [id \in Ids |-> IF messages[id] = "ok" THEN StateOf(last[id]) ELSE "absent"]
QAttempts == [id \in Ids |-> AttemptOf(last[id])]

(* A step of a caller is a step of the work queue, or a stutter.           *)
LEMMA QueueStep ==
  ASSUME OneInv, NEW t \in Threads, ThreadStep(t) \/ Crash(t)
  PROVE  Queue!Next \/ UNCHANGED <<QState, QAttempts>>
<1> USE DEF OneInv, Safe, TypeOK, DiskTypeOK
<1>1. CASE last' # last
  <2>1. PICK id \in Ids, e \in Events : messages[id] = "ok" /\ appendEventLocked(id, e)
    BY <1>1, OnlyAppends
  <2>2. last'[id] # last[id] /\ last'[id] = e /\ last' = [last EXCEPT ![id] = e]
    BY <1>1, <2>1 DEF appendEventLocked
  <2>3. messages' = messages
    BY <1>1 DEF ThreadStep, Step, Enqueue, Recover, Claim, Finish, Call, EnqueueStart,
           EnqueueMessage, EnqueueReceipt, EnqueueEvent, RecoverStart, RecoverOne,
           RecoverDone, ClaimRead, ClaimDead, ClaimLease, ClaimNone, FinishStart,
           FinishRefuse, Complete, Retry, TornError, LostRace, Crash, disk
  <2>4. /\ QState' = [QState EXCEPT ![id] = StateOf(e)]
        /\ QAttempts' = [QAttempts EXCEPT ![id] = AttemptOf(e)]
        /\ QState[id] = StateOf(last[id]) /\ QAttempts[id] = AttemptOf(last[id])
    BY <2>1, <2>2, <2>3 DEF QState, QAttempts
  <2>5. e # NoEvent /\ AttemptOf(e) = e.attempt
    BY EventFields DEF AttemptOf
  <2>6. /\ Follows(last[id], e)
        /\ e.action = "leased" => /\ e.attempt = AttemptOf(last[id]) + 1
                                  /\ e.attempt <= MaxAttempts
        /\ e.action # "leased" => e.attempt = AttemptOf(last[id])
        /\ e.action = "dead" => AttemptOf(last[id]) = MaxAttempts
    BY <2>2, AppendFollows
  <2>7. AttemptOf(last[id]) \in Nat
    BY AttemptType
  <2>8. e.action \in {"enqueued", "leased", "completed", "retry_scheduled",
                      "recovered", "dead"}
    BY DEF Events
  <2>a. QAttempts[id] = AttemptOf(e) => QAttempts' = QAttempts
    BY <2>4 DEF QAttempts
  <2>b. QState[id] = StateOf(e) => QState' = QState
    BY <2>4 DEF QState
  <2>9. CASE e.action = "enqueued"
    <3>1. StateOf(last[id]) = "pending" /\ StateOf(e) = "pending"
      BY <2>5, <2>6, <2>9 DEF Follows, StateOf
    <3> QED BY <2>4, <2>5, <2>6, <2>9, <2>a, <2>b, <3>1
  <2>10. CASE e.action = "leased"
    <3>1. StateOf(last[id]) = "pending" /\ StateOf(e) = "leased"
      BY <2>5, <2>6, <2>10 DEF Follows, StateOf
    <3>2. QAttempts[id] \in Nat /\ QAttempts[id] < MaxAttempts
      BY <2>4, <2>6, <2>7, <2>10, ConstantsAssumption
    <3>3. QAttempts' = [QAttempts EXCEPT ![id] = @ + 1]
      BY <2>4, <2>5, <2>6, <2>10
    <3>4. QState[id] = "pending" /\ QState' = [QState EXCEPT ![id] = "leased"]
      BY <2>4, <3>1
    <3>5. Queue!Take(id)
      BY <3>2, <3>3, <3>4 DEF Queue!Take, Queue!Move, QState, QAttempts
    <3> QED BY <3>5 DEF Queue!Next
  <2>11. CASE e.action = "dead"
    <3>1. StateOf(last[id]) = "pending" /\ StateOf(e) = "dead"
      BY <2>5, <2>6, <2>11 DEF Follows, StateOf
    <3>2. Queue!Bury(id)
      BY <2>4, <2>5, <2>6, <2>11, <2>a, <3>1 DEF Queue!Bury, Queue!Move, QState, QAttempts
    <3> QED BY <3>2 DEF Queue!Next
  <2>12. CASE e.action = "completed"
    <3>1. StateOf(last[id]) = "leased" /\ StateOf(e) = "completed"
      BY <2>5, <2>6, <2>12 DEF Follows, StateOf
    <3>2. Queue!Complete(id)
      BY <2>4, <2>5, <2>6, <2>12, <2>a, <3>1
         DEF Queue!Complete, Queue!Move, QState, QAttempts
    <3> QED BY <3>2 DEF Queue!Next
  <2>13. CASE e.action \in {"retry_scheduled", "recovered"}
    <3>1. StateOf(last[id]) = "leased" /\ StateOf(e) = "pending"
      BY <2>5, <2>6, <2>13 DEF Follows, StateOf
    <3>2. Queue!Release(id)
      BY <2>4, <2>5, <2>6, <2>13, <2>a, <3>1
         DEF Queue!Release, Queue!Move, QState, QAttempts
    <3> QED BY <3>2 DEF Queue!Next
  <2> QED BY <2>8, <2>9, <2>10, <2>11, <2>12, <2>13
<1>2. CASE last' = last /\ ~EnqueueMessage(t)
  <2>1. \A id \in Ids : (messages'[id] = "ok") <=> (messages[id] = "ok")
    <3>1. CASE messages' = messages
      BY <3>1
    <3>2. CASE messages' # messages
      <4>1. /\ req[t].id \in Ids /\ messages[req[t].id] = "absent"
            /\ messages' = [messages EXCEPT ![req[t].id] = "torn"]
        <5>1. Crash(t)
          BY <1>2, <3>2 DEF ThreadStep, Step, Enqueue, Recover, Claim, Finish, Call,
               EnqueueStart, EnqueueReceipt, EnqueueEvent, RecoverStart, RecoverOne,
               RecoverDone, ClaimRead, ClaimDead, ClaimLease, ClaimNone, FinishStart,
               FinishRefuse, Complete, Retry, TornError, LostRace, disk
        <5>2. pc[t] = "message" /\ messages[req[t].id] = "absent"
              /\ messages' = [messages EXCEPT ![req[t].id] = "torn"]
          BY <3>2, <5>1 DEF Crash
        <5> QED BY <5>2, ReqFields DEF CallInv, CallOK
      <4> QED BY <4>1
    <3> QED BY <3>1, <3>2
  <2> QED BY <1>2, <2>1 DEF QState, QAttempts
<1>3. CASE EnqueueMessage(t)
  <2>1. CASE messages' = messages
    BY <1>3, <2>1 DEF EnqueueMessage, QState, QAttempts
  <2>2. CASE messages' # messages
    <3>1. /\ messages[req[t].id] = "absent" /\ last' = last /\ req[t].id \in Ids
          /\ messages' = [messages EXCEPT ![req[t].id] = "ok"]
      BY <1>3, <2>2, ReqFields DEF EnqueueMessage, CallInv, CallOK
    <3>2. last[req[t].id] = NoEvent
      BY <3>1 DEF DiskInv
    <3>3. PICK id \in Ids : id = req[t].id
      BY <3>1
    <3>4. StateOf(last'[id]) = "pending"
      BY <3>1, <3>2, <3>3 DEF StateOf
    <3>5. QState[id] = "absent" /\ QState' = [QState EXCEPT ![id] = "pending"]
      BY <3>1, <3>3, <3>4 DEF QState
    <3>6. QAttempts' = QAttempts
      BY <3>1 DEF QAttempts
    <3>7. Queue!Submit(id)
      BY <3>5, <3>6 DEF Queue!Submit, Queue!Move, QState, QAttempts
    <3> QED BY <3>7 DEF Queue!Next
  <2> QED BY <2>1, <2>2
<1> QED BY <1>1, <1>2, <1>3

(* With one process, the outbox implements the work queue: every item is   *)
(* submitted once, leased to one worker at a time and at most MaxAttempts  *)
(* times, and completed or dead for good (productionops/outbox.go).        *)
THEOREM Refinement == SingleStore => (Spec => ImplementsWorkQueue)
<1> SUFFICES ASSUME SingleStore PROVE Spec => Queue!Spec
  BY DEF ImplementsWorkQueue
<1>1. OneInv /\ [Next]_vars => OneInv'
  BY OneStep
<1>2. Init => Queue!Init
  BY DEF Init, Queue!Init, StateOf, AttemptOf
<1>3. OneInv /\ [Next]_vars => [Queue!Next]_(Queue!vars)
  <2> SUFFICES ASSUME OneInv, [Next]_vars PROVE [Queue!Next]_(Queue!vars)
    OBVIOUS
  <2>1. CASE UNCHANGED vars \/ Tick
    BY <2>1 DEF vars, Tick, disk, Queue!vars
  <2>2. ASSUME NEW t \in Threads, ThreadStep(t) \/ Crash(t)
        PROVE  [Queue!Next]_(Queue!vars)
    BY <2>2, QueueStep DEF Queue!vars, QState, QAttempts
  <2> QED BY <2>1, <2>2 DEF Next, ThreadStep
<1> QED BY <1>1, <1>2, <1>3, OneInit, PTL DEF Spec, Queue!Spec
=============================================================================
