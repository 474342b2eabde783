------------------------------- MODULE Outbox -------------------------------
(***************************************************************************)
(* The file-backed operational outbox, internal/productionops/outbox.go.   *)
(*                                                                         *)
(* An OutboxStore keeps messages/, receipts/ and an append-only chain of   *)
(* events/ in one directory.  Every operation takes the store's mutex, but *)
(* the mutex belongs to the Go value: each platform-ops invocation builds  *)
(* its own store (cmd/platform-ops/main.go:269), so two processes share    *)
(* the directory and not the mutex.  StoreOf says which store a caller     *)
(* uses; SingleStore is the case in which one mutex covers everyone.       *)
(*                                                                         *)
(* One step is one file operation: the read that an operation decides on,  *)
(* and each exclusive file creation it then performs.  project() folds the *)
(* events of a message, and every action overwrites the fields a decision  *)
(* reads, so the chain is kept as the last event of each message.          *)
(***************************************************************************)
EXTENDS Integers, FiniteSets

CONSTANTS Threads,       \* callers of an OutboxStore
          StoreOf,       \* the store (process) each caller uses
          Keys,          \* (topic, tenant, idempotency key) triples
          Payloads,
          NameOf,        \* receipt file name of a key: safeName is not injective
          MaxAttempts,   \* OutboxMessage.MaxAttempts
          Lease,         \* lease duration, in ticks
          Delays,        \* retry delays callers pass, in ticks
          MaxTime,       \* bound on the clock
          MaxCrashes,    \* bound on process crashes
          NoEvent, NoReceipt, NoThread, Torn

Ids    == Keys \X Payloads
Stores == {StoreOf[t] : t \in Threads}
Names  == {NameOf[k] : k \in Keys}
Times  == 0 .. MaxTime
Tokens == Ids \X Times \X (1 .. MaxAttempts)

ASSUME ConstantsAssumption ==
  /\ StoreOf \in [Threads -> Stores]
  /\ NameOf \in [Keys -> Names]
  /\ MaxAttempts \in Nat \ {0}
  /\ Lease \in Nat \ {0}
  /\ Delays \subseteq Nat
  /\ MaxTime \in Nat
  /\ MaxCrashes \in Nat
  /\ NoReceipt \notin Ids /\ Torn \notin Ids /\ Torn # NoReceipt
  /\ NoThread \notin Threads

(* One mutex covers every caller: one process, one OutboxStore.            *)
SingleStore == \A t, u \in Threads : StoreOf[t] = StoreOf[u]

(* An OutboxEvent, without its position in the chain.                      *)
Events == [action : {"enqueued", "leased", "completed", "retry_scheduled",
                     "recovered", "dead"},
           attempt : Nat, token : Tokens \cup {<<>>}, exp : Nat, next : Nat]

ASSUME NoEventAssumption == NoEvent \notin Events

VARIABLES
  now,        \* the clock the callers read
  messages,   \* messages/<id>.json: "absent", "torn" or "ok"
  receipts,   \* receipts/<name>.json: the request it binds
  last,       \* the last event of each message in events/
  torn,       \* the newest file of events/ holds no complete JSON
  mu,         \* the mutex of each store: its holder, or NoThread
  pc,         \* where each caller is
  req,        \* the arguments of its call
  by,         \* the events() result it decides on
  todo,       \* the messages its loop has still to visit
  granted,    \* lease tokens that Claim returned to a caller
  acked,      \* history: messages whose Enqueue returned without error
  leases,     \* history: number of "leased" events of each message
  crashes

disk  == <<messages, receipts, last, torn, leases>>
local == <<pc, req, by, todo, mu>>
vars  == <<now, messages, receipts, last, torn, mu, pc, req, by, todo,
           granted, acked, leases, crashes>>

NoReq == [op |-> "none"]

Init ==
  /\ now = 0
  /\ messages = [id \in Ids |-> "absent"]
  /\ receipts = [n \in Names |-> NoReceipt]
  /\ last = [id \in Ids |-> NoEvent]
  /\ torn = FALSE
  /\ mu = [s \in Stores |-> NoThread]
  /\ pc = [t \in Threads |-> "idle"]
  /\ req = [t \in Threads |-> NoReq]
  /\ by = [t \in Threads |-> [id \in Ids |-> NoEvent]]
  /\ todo = [t \in Threads |-> {}]
  /\ granted = {}
  /\ acked = {}
  /\ leases = [id \in Ids |-> 0]
  /\ crashes = 0

-----------------------------------------------------------------------------
(* project(): the state a message has after its events.  A message with no *)
(* event projects to pending, so a message file alone can be claimed.      *)
StateOf(e) ==
  IF e = NoEvent THEN "pending"
  ELSE CASE e.action \in {"enqueued", "recovered", "retry_scheduled"} -> "pending"
         [] e.action = "leased" -> "leased"
         [] e.action = "completed" -> "completed"
         [] e.action = "dead" -> "dead"

AttemptOf(e) == IF e = NoEvent THEN 0 ELSE e.attempt
NextOf(e)    == IF e = NoEvent THEN 0 ELSE e.next

Event(action, attempt, token, exp, next) ==
  [action |-> action, attempt |-> attempt, token |-> token,
   exp |-> exp, next |-> next]

(* appendEventLocked: the chain takes one more event.                      *)
appendEventLocked(id, e) ==
  /\ ~torn
  /\ last' = [last EXCEPT ![id] = e]
  /\ leases' = [leases EXCEPT ![id] = @ + (IF e.action = "leased" THEN 1 ELSE 0)]
  /\ UNCHANGED torn

(* The recovery condition of recoverLocked: a lease is expired from its    *)
(* expiry instant on, the instant included.                                *)
Expired(e, at) == StateOf(e) = "leased" /\ at >= e.exp

(* Mutant: Claim forgets to skip messages that are not pending.            *)
Due_AnyState(e, at) == at >= NextOf(e)

(* The messages Claim would act on: pending and due.                       *)
Due(e, at) == StateOf(e) = "pending" /\ at >= NextOf(e)

Goto(t, l) == pc' = [pc EXCEPT ![t] = l]

(* Return: unlock and forget the call.                                     *)
Return(t) ==
  /\ pc' = [pc EXCEPT ![t] = "idle"]
  /\ req' = [req EXCEPT ![t] = NoReq]
  /\ by' = [by EXCEPT ![t] = [id \in Ids |-> NoEvent]]
  /\ todo' = [todo EXCEPT ![t] = {}]
  /\ mu' = [mu EXCEPT ![StoreOf[t]] = NoThread]

Lock(t) ==
  /\ pc[t] = "called"
  /\ mu[StoreOf[t]] = NoThread
  /\ mu' = [mu EXCEPT ![StoreOf[t]] = t]

-----------------------------------------------------------------------------
(* The calls callers can make: with the clock readings ats, and presenting *)
(* lease tokens from toks.                                                 *)
Calls(ats, toks) ==
  [op : {"enqueue"}, id : Ids, at : ats]
    \cup [op : {"claim", "recover"}, at : ats]
    \cup [op : {"complete"}, token : toks, at : ats]
    \cup [op : {"retry"}, token : toks, delay : Delays, at : ats]

(* A caller reads its clock and calls; it may wait for the mutex.          *)
Call(t) ==
  /\ pc[t] = "idle"
  /\ \E r \in Calls({now}, granted) : req' = [req EXCEPT ![t] = r]
  /\ Goto(t, "called")
  /\ UNCHANGED <<now, disk, by, todo, mu, granted, acked, crashes>>

(* Enqueue, up to its decision on the receipt.  A matching receipt replays *)
(* the message, a different request is an idempotency conflict.            *)
EnqueueStart(t) ==
  /\ req[t].op = "enqueue"
  /\ pc[t] = "called"
  /\ mu[StoreOf[t]] = NoThread
  /\ LET id == req[t].id
         r  == receipts[NameOf[id[1]]]
     IN \/ /\ r = NoReceipt
           /\ Lock(t)
           /\ Goto(t, "message")
           /\ UNCHANGED <<req, by, todo, acked>>
        \/ /\ r # NoReceipt
           /\ Return(t)
           /\ acked' = IF r = id /\ messages[id] = "ok"
                         THEN acked \cup {id} ELSE acked
  /\ UNCHANGED <<now, disk, granted, crashes>>

(* writeJSONExclusive of the message, then of the receipt: O_EXCL fails    *)
(* when the file is there already.                                         *)
EnqueueMessage(t) ==
  /\ pc[t] = "message"
  /\ LET id == req[t].id
     IN \/ /\ messages[id] = "absent"
           /\ messages' = [messages EXCEPT ![id] = "ok"]
           /\ Goto(t, "receipt")
           /\ UNCHANGED <<req, by, todo, mu>>
        \/ /\ messages[id] # "absent"
           /\ Return(t)
           /\ UNCHANGED messages
  /\ UNCHANGED <<now, receipts, last, torn, leases, granted, acked, crashes>>

(* Mutant: the receipt is written over what is there, as if the mutex kept *)
(* other writers away.                                                     *)
EnqueueReceipt_Overwrites(t) ==
  /\ pc[t] = "receipt"
  /\ receipts' = [receipts EXCEPT ![NameOf[req[t].id[1]]] = req[t].id]
  /\ Goto(t, "enqueued")
  /\ UNCHANGED <<now, messages, last, torn, leases, req, by, todo, mu, granted, acked, crashes>>

EnqueueReceipt(t) ==
  /\ pc[t] = "receipt"
  /\ LET id == req[t].id
         n  == NameOf[id[1]]
     IN \/ /\ receipts[n] = NoReceipt
           /\ receipts' = [receipts EXCEPT ![n] = id]
           /\ Goto(t, "enqueued")
           /\ UNCHANGED <<req, by, todo, mu>>
        \/ /\ receipts[n] # NoReceipt
           /\ Return(t)
           /\ UNCHANGED receipts
  /\ UNCHANGED <<now, messages, last, torn, leases, granted, acked, crashes>>

EnqueueEvent(t) ==
  /\ pc[t] = "enqueued"
  /\ LET id == req[t].id
     IN /\ appendEventLocked(id, Event("enqueued", 0, <<>>, 0, 0))
        /\ acked' = acked \cup {id}
  /\ Return(t)
  /\ UNCHANGED <<now, messages, receipts, granted, crashes>>

-----------------------------------------------------------------------------
(* recoverLocked, first step of both Claim and Recover: the expired leases *)
(* of one reading of the chain.                                            *)
RecoverStart(t) ==
  /\ req[t].op \in {"claim", "recover"}
  /\ Lock(t)
  /\ ~torn
  /\ by' = [by EXCEPT ![t] = last]
  /\ todo' = [todo EXCEPT ![t] = {id \in Ids : Expired(last[id], req[t].at)}]
  /\ Goto(t, "recover")
  /\ UNCHANGED <<now, disk, req, granted, acked, crashes>>

RecoverOne(t) ==
  /\ pc[t] = "recover"
  /\ \E id \in todo[t] :
       /\ appendEventLocked(id, Event("recovered", by[t][id].attempt, <<>>, 0, 0))
       /\ todo' = [todo EXCEPT ![t] = @ \ {id}]
  /\ UNCHANGED <<now, messages, receipts, pc, req, by, mu, granted, acked, crashes>>

RecoverDone(t) ==
  /\ pc[t] = "recover"
  /\ todo[t] = {}
  /\ req[t].op = "recover"
  /\ Return(t)
  /\ UNCHANGED <<now, disk, granted, acked, crashes>>

(* Claim reads the chain again and lists the message files.  Message files *)
(* are visited in the order of their hashes, which is any order.           *)
ClaimRead(t) ==
  /\ pc[t] = "recover"
  /\ todo[t] = {}
  /\ req[t].op = "claim"
  /\ ~torn
  /\ by' = [by EXCEPT ![t] = last]
  /\ todo' = [todo EXCEPT ![t] =
                {id \in Ids : \/ messages[id] = "torn"
                              \/ messages[id] = "ok" /\ Due(last[id], req[t].at)}]
  /\ Goto(t, "claim")
  /\ UNCHANGED <<now, disk, req, mu, granted, acked, crashes>>

(* Mutant: a message dies one attempt too early.                           *)
ClaimDead_Early(t) ==
  /\ pc[t] = "claim"
  /\ \E id \in todo[t] :
       /\ messages[id] = "ok"
       /\ AttemptOf(by[t][id]) + 1 >= MaxAttempts
       /\ appendEventLocked(id, Event("dead", AttemptOf(by[t][id]), <<>>, 0, 0))
       /\ todo' = [todo EXCEPT ![t] = @ \ {id}]
  /\ UNCHANGED <<now, messages, receipts, pc, req, by, mu, granted, acked, crashes>>

(* A pending message whose attempts are used up is dead-lettered and the   *)
(* loop goes on.                                                           *)
ClaimDead(t) ==
  /\ pc[t] = "claim"
  /\ \E id \in todo[t] :
       /\ messages[id] = "ok"
       /\ AttemptOf(by[t][id]) + 1 > MaxAttempts
       /\ appendEventLocked(id, Event("dead", AttemptOf(by[t][id]), <<>>, 0, 0))
       /\ todo' = [todo EXCEPT ![t] = @ \ {id}]
  /\ UNCHANGED <<now, messages, receipts, pc, req, by, mu, granted, acked, crashes>>

ClaimLease(t) ==
  /\ pc[t] = "claim"
  /\ \E id \in todo[t] :
       LET attempt == AttemptOf(by[t][id]) + 1
           token   == <<id, req[t].at, attempt>>
       IN /\ messages[id] = "ok"
          /\ attempt <= MaxAttempts
          /\ appendEventLocked(id, Event("leased", attempt, token,
                                         req[t].at + Lease, 0))
          /\ granted' = granted \cup {token}
  /\ Return(t)
  /\ UNCHANGED <<now, messages, receipts, acked, crashes>>

(* Nothing to lease, or a message file that does not parse.                *)
ClaimNone(t) ==
  /\ pc[t] = "claim"
  /\ todo[t] = {} \/ \E id \in todo[t] : messages[id] = "torn"
  /\ Return(t)
  /\ UNCHANGED <<now, disk, granted, acked, crashes>>

-----------------------------------------------------------------------------
(* Mutant: finishLocked does not compare the lease token.                  *)
Finishable_AnyToken(e, token, at) == StateOf(e) = "leased" /\ at <= e.exp

(* finishLocked: the check of Complete and Retry on the message's last     *)
(* event.  Completion is allowed up to the expiry instant, that included.  *)
Finishable(e, token, at) ==
  /\ StateOf(e) = "leased"
  /\ e.token = token
  /\ at <= e.exp

FinishStart(t) ==
  /\ req[t].op \in {"complete", "retry"}
  /\ Lock(t)
  /\ ~torn
  /\ LET id == req[t].token[1]
     IN messages[id] = "ok" /\ Finishable(last[id], req[t].token, req[t].at)
  /\ by' = [by EXCEPT ![t] = last]
  /\ Goto(t, "finish")
  /\ UNCHANGED <<now, disk, req, todo, granted, acked, crashes>>

FinishRefuse(t) ==
  /\ pc[t] = "called"
  /\ req[t].op \in {"complete", "retry"}
  /\ mu[StoreOf[t]] = NoThread
  /\ ~torn
  /\ LET id == req[t].token[1]
     IN ~(messages[id] = "ok" /\ Finishable(last[id], req[t].token, req[t].at))
  /\ Return(t)
  /\ UNCHANGED <<now, disk, granted, acked, crashes>>

Complete(t) ==
  /\ pc[t] = "finish"
  /\ req[t].op = "complete"
  /\ LET id == req[t].token[1]
     IN appendEventLocked(id, Event("completed", by[t][id].attempt, <<>>, 0, 0))
  /\ Return(t)
  /\ UNCHANGED <<now, messages, receipts, granted, acked, crashes>>

Retry(t) ==
  /\ pc[t] = "finish"
  /\ req[t].op = "retry"
  /\ LET id == req[t].token[1]
     IN appendEventLocked(id, Event("retry_scheduled", by[t][id].attempt, <<>>, 0,
                                    req[t].at + req[t].delay))
  /\ Return(t)
  /\ UNCHANGED <<now, messages, receipts, granted, acked, crashes>>

-----------------------------------------------------------------------------
Appending(t) ==
  \/ pc[t] \in {"enqueued", "finish"}
  \/ pc[t] = "recover" /\ todo[t] # {}
  \/ pc[t] = "claim" /\ \E id \in todo[t] : messages[id] = "ok"

(* Every read of the chain reports a file that does not parse.             *)
TornError(t) ==
  /\ torn
  /\ \/ pc[t] = "called" /\ req[t].op # "enqueue" /\ mu[StoreOf[t]] = NoThread
     \/ pc[t] = "recover" /\ req[t].op = "claim"
     \/ Appending(t)
  /\ Return(t)
  /\ UNCHANGED <<now, disk, granted, acked, crashes>>

(* Two stores computed the same next sequence number: O_EXCL lets one of   *)
(* them create the file and fails the other.                               *)
LostRace(t) ==
  /\ Appending(t)
  /\ \E u \in Threads : StoreOf[u] # StoreOf[t] /\ Appending(u)
  /\ Return(t)
  /\ UNCHANGED <<now, disk, granted, acked, crashes>>

(* The process of t's store dies.  writeJSONExclusive creates the file     *)
(* under its final name and then fills it, so the file being written may   *)
(* be left without its contents.                                           *)
Crash(t) ==
  /\ crashes < MaxCrashes
  /\ pc[t] \notin {"idle", "called"}
  /\ crashes' = crashes + 1
  /\ LET dying == {u \in Threads : StoreOf[u] = StoreOf[t]}
     IN /\ pc' = [u \in Threads |-> IF u \in dying THEN "idle" ELSE pc[u]]
        /\ req' = [u \in Threads |-> IF u \in dying THEN NoReq ELSE req[u]]
        /\ by' = [u \in Threads |-> IF u \in dying THEN [id \in Ids |-> NoEvent]
                                    ELSE by[u]]
        /\ todo' = [u \in Threads |-> IF u \in dying THEN {} ELSE todo[u]]
  /\ mu' = [mu EXCEPT ![StoreOf[t]] = NoThread]
  /\ \/ UNCHANGED <<messages, receipts, torn>>
     \/ /\ pc[t] = "message" /\ messages[req[t].id] = "absent"
        /\ messages' = [messages EXCEPT ![req[t].id] = "torn"]
        /\ UNCHANGED <<receipts, torn>>
     \/ /\ pc[t] = "receipt" /\ receipts[NameOf[req[t].id[1]]] = NoReceipt
        /\ receipts' = [receipts EXCEPT ![NameOf[req[t].id[1]]] = Torn]
        /\ UNCHANGED <<messages, torn>>
     \/ /\ Appending(t)
        /\ torn' = TRUE
        /\ UNCHANGED <<messages, receipts>>
  /\ UNCHANGED <<now, last, leases, granted, acked>>

Tick ==
  /\ now < MaxTime
  /\ now' = now + 1
  /\ UNCHANGED <<disk, local, granted, acked, crashes>>

Enqueue(t) == EnqueueStart(t) \/ EnqueueMessage(t) \/ EnqueueReceipt(t) \/ EnqueueEvent(t)
Recover(t) == RecoverStart(t) \/ RecoverOne(t) \/ RecoverDone(t)
Claim(t)   == ClaimRead(t) \/ ClaimDead(t) \/ ClaimLease(t) \/ ClaimNone(t)
Finish(t)  == FinishStart(t) \/ FinishRefuse(t) \/ Complete(t) \/ Retry(t)

Step(t) == \/ Enqueue(t) \/ Recover(t) \/ Claim(t) \/ Finish(t)
           \/ TornError(t) \/ LostRace(t)

Next == Tick \/ \E t \in Threads : Call(t) \/ Step(t) \/ Crash(t)

Spec == Init /\ [][Next]_vars

-----------------------------------------------------------------------------
DiskTypeOK ==
  /\ now \in Times
  /\ messages \in [Ids -> {"absent", "torn", "ok"}]
  /\ receipts \in [Names -> Ids \cup {NoReceipt, Torn}]
  /\ last \in [Ids -> Events \cup {NoEvent}]
  /\ torn \in BOOLEAN
  /\ granted \subseteq Tokens
  /\ acked \subseteq Ids
  /\ leases \in [Ids -> Nat]
  /\ crashes \in 0 .. MaxCrashes

Labels == {"idle", "called", "message", "receipt", "enqueued", "recover",
           "claim", "finish"}

CallTypeOK ==
  /\ mu \in [Stores -> Threads \cup {NoThread}]
  /\ pc \in [Threads -> Labels]
  /\ req \in [Threads -> Calls(Times, Tokens) \cup {NoReq}]
  /\ by \in [Threads -> [Ids -> Events \cup {NoEvent}]]
  /\ todo \in [Threads -> SUBSET Ids]

(* The type invariant.                                                     *)
TypeOK == DiskTypeOK /\ CallTypeOK

(* The lifecycle of the design document: enqueued, then leased, then       *)
(* completed or retried; a lease may be recovered; a pending message may   *)
(* die; completed and dead are final.                                      *)
Follows(e, f) ==
  CASE f.action = "enqueued" -> e = NoEvent
    [] f.action \in {"leased", "dead"} -> StateOf(e) = "pending"
    [] OTHER -> StateOf(e) = "leased"

(* Every event appended to the chain is one the lifecycle allows after the *)
(* message's previous event, whatever calls, timeouts and crashes come     *)
(* between (outbox.go: finishLocked, Claim and recoverLocked decide on a   *)
(* reading of the chain made earlier in the same call).                    *)
LifecycleFollowed ==
  [][\A id \in Ids : last'[id] # last[id] => Follows(last[id], last'[id])]_vars

(* Only the holder of the current lease finishes a message: the token the  *)
(* caller presents is that of the last lease, not of one that expired and  *)
(* was recovered or leased again, and the lease had not expired when the   *)
(* call was made (finishLocked).                                           *)
FinishIsFenced ==
  [][\A id \in Ids :
       (last'[id] # last[id] /\ last'[id].action \in {"completed", "retry_scheduled"})
         => \E t \in Threads : /\ pc[t] = "finish"
                               /\ req[t].token = last[id].token
                               /\ req[t].at <= last[id].exp]_vars

(* No lease is taken away before it expires, and no retry is leased before *)
(* its delay is over, although callers read the clock before they wait for *)
(* the mutex (recoverLocked, Claim).                                       *)
NothingEarly ==
  [][\A id \in Ids :
       last'[id] # last[id] =>
         /\ last'[id].action = "recovered" => now >= last[id].exp
         /\ last'[id].action = "leased" => now >= NextOf(last[id])]_vars

(* Attempts are bounded: a message is leased at most MaxAttempts times in  *)
(* its life, recoveries, retries and crashes included (Claim).             *)
AttemptsBounded == \A id \in Ids : leases[id] <= MaxAttempts

(***************************************************************************)
(* One store, crashes included: no message is attempted more often than    *)
(* its limit, only the holder of the current lease completes or retries    *)
(* (finishLocked), and neither a retry nor a lease's recovery comes before *)
(* its time (Claim, recoverLocked).                                        *)
(***************************************************************************)
LeasesKept == []AttemptsBounded /\ FinishIsFenced /\ NothingEarly

(* An idempotency key is acknowledged for one payload only, and what was   *)
(* acknowledged stays on disk under its receipt, whatever crashes follow   *)
(* and however many stores enqueue at once (Enqueue).                      *)
AckedOncePerKey ==
  \A id \in acked :
    /\ messages[id] = "ok" /\ receipts[NameOf[id[1]]] = id
    /\ \A other \in acked : other[1] = id[1] => other = id

-----------------------------------------------------------------------------
(* What a caller knows inside its call: which call it is in, and what the  *)
(* reading it decides on said.                                             *)
CallOK(t) ==
  /\ pc[t] # "idle" => req[t] # NoReq /\ req[t].at <= now
  /\ pc[t] \in {"message", "receipt", "enqueued"} => req[t].op = "enqueue"
  /\ pc[t] \in {"recover", "claim"} => req[t].op \in {"claim", "recover"}
  /\ pc[t] = "recover" => \A id \in todo[t] : Expired(by[t][id], req[t].at)
  /\ pc[t] = "claim" =>
       \A id \in todo[t] : messages[id] = "ok" => Due(by[t][id], req[t].at)
  /\ pc[t] = "finish" =>
       /\ req[t].op \in {"complete", "retry"}
       /\ messages[req[t].token[1]] = "ok"
       /\ Finishable(by[t][req[t].token[1]], req[t].token, req[t].at)

(* The files a caller has seen on disk are still there.                    *)
DiskOK(t) ==
  /\ pc[t] \in {"receipt", "enqueued"} => messages[req[t].id] = "ok"
  /\ pc[t] = "enqueued" => receipts[NameOf[req[t].id[1]]] = req[t].id
  /\ pc[t] = "claim" => \A id \in todo[t] : messages[id] # "absent"

(* The reading a caller decides on is still the state of the chain.        *)
FreshOK(t) ==
  /\ pc[t] \in {"recover", "claim"} => \A id \in todo[t] : by[t][id] = last[id]
  /\ pc[t] = "finish" => by[t][req[t].token[1]] = last[req[t].token[1]]
  /\ pc[t] \in {"receipt", "enqueued"} => last[req[t].id] = NoEvent

CallInv  == \A t \in Threads : CallOK(t)
FreshInv == \A t \in Threads : FreshOK(t)

(* A caller past its first step holds the mutex of its store.              *)
MutexInv ==
  \A t \in Threads : pc[t] \notin {"idle", "called"} => mu[StoreOf[t]] = t

(* An event, on disk or in a caller's reading, implies its message.        *)
SeenOK(t) == \A id \in Ids : by[t][id] # NoEvent => messages[id] = "ok"

DiskInv ==
  /\ \A id \in Ids : last[id] # NoEvent => messages[id] = "ok"
  /\ \A t \in Threads : SeenOK(t)
  /\ \A t \in Threads : DiskOK(t)

(* With one store, the attempt number of a message counts its leases.      *)
CountInv ==
  \A id \in Ids : leases[id] = AttemptOf(last[id]) /\ leases[id] <= MaxAttempts

(* What the outbox promises: a work queue with bounded attempts.           *)
Queue == INSTANCE WorkQueue WITH
  Items    <- Ids,
  Attempts <- MaxAttempts,
  state    <- [id \in Ids |-> IF messages[id] = "ok" THEN StateOf(last[id]) ELSE "absent"],
  attempts <- [id \in Ids |-> AttemptOf(last[id])]

(* One process and one store: the outbox implements the work queue.        *)
ImplementsWorkQueue == Queue!Spec
=============================================================================
