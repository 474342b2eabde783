---------------------------- MODULE LedgerStore ----------------------------
(***************************************************************************)
(* The local screening ledger, internal/screeningledger/store.go and       *)
(* audit.go: an event chain with a head file and a pending marker that     *)
(* makes Append recoverable, and an audit chain that has a head file only. *)
(*                                                                         *)
(* One step is one file operation; atomicWrite replaces a file by rename,  *)
(* so a write happens or does not.  The mutex is a field of Store, so each *)
(* process over the directory has its own: StoreOf says which one a caller *)
(* uses.                                                                   *)
(*                                                                         *)
(* The keyed digest of an entry covers the entry and, through the previous *)
(* digest, all entries before it.  A digest is therefore modelled as the   *)
(* sequence of the entries it commits to; its length is the sequence       *)
(* number stored beside it.                                                *)
(***************************************************************************)
EXTENDS Integers, Sequences, FiniteSets

CONSTANTS Threads,      \* callers of a Store
          StoreOf,      \* the Store (process) each caller uses
          OpsOf,        \* the operations each caller uses: the CLI never appends
          Inputs,       \* what callers append
          IdOf,         \* event ID of an input: retries differ in OccurredAt only
          ReqOf, RespOf,  \* the snapshots of an input, named by their content
          MaxAudits,    \* bound on audit entries
          MaxStops,     \* bound on process deaths and failed file operations
          None, NoThread

Ids    == {IdOf[i] : i \in Inputs}
Snaps  == {ReqOf[i] : i \in Inputs} \cup {RespOf[i] : i \in Inputs}
Stores == {StoreOf[t] : t \in Threads}
Chains == Seq(Inputs)

ASSUME LedgerAssumption ==
  /\ StoreOf \in [Threads -> Stores]
  /\ IdOf \in [Inputs -> Ids]
  /\ ReqOf \in [Inputs -> Snaps] /\ RespOf \in [Inputs -> Snaps]
  /\ MaxAudits \in Nat /\ MaxStops \in Nat
  /\ None \notin Chains
  /\ NoThread \notin Threads

SingleStore == \A t, u \in Threads : StoreOf[t] = StoreOf[u]

VARIABLES
  snapshots,  \* snapshots/<sha>.json
  pending,    \* pending.json: an event, or None
  events,     \* events/<id>.json: the event, or None
  head,       \* head.json: <<>> stands for the missing file
  audit,      \* audit/<seq>-<sha>.json
  auditHead,  \* audit-head.json
  mu,         \* the mutex of each Store
  pc,         \* where each caller is
  req,        \* its call
  ev,         \* the event it read from pending.json, or is appending
  aud,        \* the audit entry it is appending
  stamp,      \* audit calls made so far: tells their entries apart
  told,       \* history: events that Append returned to callers
  stops

eventFiles == <<snapshots, pending, events, head>>
auditFiles == <<audit, auditHead>>
local      == <<mu, pc, req, ev, aud>>
vars == <<snapshots, pending, events, head, audit, auditHead, mu, pc, req, ev,
          aud, stamp, told, stops>>

NoReq == [op |-> "none"]
Calls == [op : {"append"}, input : Inputs] \cup [op : {"recover", "verify"}]
           \cup [op : {"audit"}, at : 1 .. MaxAudits]

Init ==
  /\ snapshots = {}
  /\ pending = None
  /\ events = [id \in Ids |-> None]
  /\ head = <<>>
  /\ audit = {}
  /\ auditHead = <<>>
  /\ mu = [s \in Stores |-> NoThread]
  /\ pc = [t \in Threads |-> "idle"]
  /\ req = [t \in Threads |-> NoReq]
  /\ ev = [t \in Threads |-> None]
  /\ aud = [t \in Threads |-> <<>>]
  /\ stamp = 0
  /\ told = {}
  /\ stops = 0

-----------------------------------------------------------------------------
Newest(d) == d[Len(d)]
Prefixes(d) == {SubSeq(d, 1, n) : n \in 1 .. Len(d)}

(* eventPath of the event a digest belongs to.                             *)
FileOf(d) == events[IdOf[Newest(d)]]

Goto(t, l) == pc' = [pc EXCEPT ![t] = l]

Return(t) ==
  /\ pc' = [pc EXCEPT ![t] = "idle"]
  /\ req' = [req EXCEPT ![t] = NoReq]
  /\ ev' = [ev EXCEPT ![t] = None]
  /\ aud' = [aud EXCEPT ![t] = <<>>]
  /\ mu' = [mu EXCEPT ![StoreOf[t]] = NoThread]

Lock(t) ==
  /\ pc[t] = "called"
  /\ mu[StoreOf[t]] = NoThread
  /\ mu' = [mu EXCEPT ![StoreOf[t]] = t]

Call(t) ==
  /\ pc[t] = "idle"
  /\ \E r \in Calls :
       /\ r.op \in OpsOf[t]
       /\ req' = [req EXCEPT ![t] = r]
       /\ \/ r.op # "audit" /\ UNCHANGED stamp
          \/ r.op = "audit" /\ r.at = stamp + 1 /\ stamp' = r.at
  /\ Goto(t, "called")
  /\ UNCHANGED <<eventFiles, auditFiles, mu, ev, aud, told, stops>>

-----------------------------------------------------------------------------
(* Mutant: recovery removes the marker without looking for the event.      *)
RecoverRead_NoRedo(t) ==
  /\ req[t].op # "audit"
  /\ Lock(t)
  /\ ev' = [ev EXCEPT ![t] = pending]
  /\ Goto(t, IF pending = None THEN "recovered" ELSE "drop")
  /\ UNCHANGED <<eventFiles, auditFiles, req, aud, told, stamp, stops>>

(* recoverLocked, with which NewStore, Append and VerifyPolicy begin: a    *)
(* marker whose event was written makes that event the head again.         *)
RecoverRead(t) ==
  /\ req[t].op # "audit"
  /\ Lock(t)
  /\ ev' = [ev EXCEPT ![t] = pending]
  /\ Goto(t, IF pending = None THEN "recovered"
             ELSE IF FileOf(pending) = None THEN "drop" ELSE "redo")
  /\ UNCHANGED <<eventFiles, auditFiles, req, aud, told, stamp, stops>>

(* Mutant: the head is rewritten from the event's previous digest.         *)
RecoverRedo_Previous(t) ==
  /\ pc[t] = "redo"
  /\ head' = SubSeq(ev[t], 1, Len(ev[t]) - 1)
  /\ Goto(t, "drop")
  /\ UNCHANGED <<snapshots, pending, events, auditFiles, mu, req, ev, aud, told, stamp, stops>>

RecoverRedo(t) ==
  /\ pc[t] = "redo"
  /\ head' = ev[t]
  /\ Goto(t, "drop")
  /\ UNCHANGED <<snapshots, pending, events, auditFiles, mu, req, ev, aud, told, stamp, stops>>

(* os.Remove fails when another process has removed the marker.            *)
RecoverDrop(t) ==
  /\ pc[t] = "drop"
  /\ pending' = None
  /\ IF pending = None THEN Return(t)
     ELSE Goto(t, "recovered") /\ UNCHANGED <<mu, req, ev, aud>>
  /\ UNCHANGED <<snapshots, events, head, auditFiles, told, stamp, stops>>

(* Recover returns here; verifyPolicyLocked walks the chains, which        *)
(* EventChainOK and AuditOrphans below stand for, and changes nothing.     *)
RecoverDone(t) ==
  /\ pc[t] = "recovered"
  /\ req[t].op \in {"recover", "verify"}
  /\ Return(t)
  /\ UNCHANGED <<eventFiles, auditFiles, told, stamp, stops>>

-----------------------------------------------------------------------------
(* Mutant: Append does not look for an event with the same ID.             *)
AppendCheck_NoReplay(t) ==
  /\ pc[t] = "recovered"
  /\ req[t].op = "append"
  /\ Goto(t, "load")
  /\ UNCHANGED <<eventFiles, auditFiles, mu, req, ev, aud, told, stamp, stops>>

(* Append: an event with this ID is replayed, not appended again.          *)
AppendCheck(t) ==
  /\ pc[t] = "recovered"
  /\ req[t].op = "append"
  /\ LET old == events[IdOf[req[t].input]]
     IN IF old # None
          THEN Return(t) /\ told' = told \cup {old}
          ELSE Goto(t, "load") /\ UNCHANGED <<mu, req, ev, aud, told>>
  /\ UNCHANGED <<eventFiles, auditFiles, stamp, stops>>

AppendLoad(t) ==
  /\ pc[t] = "load"
  /\ ev' = [ev EXCEPT ![t] = Append(head, req[t].input)]
  /\ Goto(t, "request")
  /\ UNCHANGED <<eventFiles, auditFiles, mu, req, aud, told, stamp, stops>>

(* writeSnapshot keeps a snapshot that is there already.                   *)
WriteRequest(t) ==
  /\ pc[t] = "request"
  /\ snapshots' = snapshots \cup {ReqOf[req[t].input]}
  /\ Goto(t, "response")
  /\ UNCHANGED <<pending, events, head, auditFiles, mu, req, ev, aud, told, stamp, stops>>

WriteResponse(t) ==
  /\ pc[t] = "response"
  /\ snapshots' = snapshots \cup {RespOf[req[t].input]}
  /\ Goto(t, "pending")
  /\ UNCHANGED <<pending, events, head, auditFiles, mu, req, ev, aud, told, stamp, stops>>

(* Mutant: the marker is written after the event, not before it.           *)
WritePending_Late(t) ==
  /\ pc[t] = "pending"
  /\ Goto(t, "event")
  /\ UNCHANGED <<eventFiles, auditFiles, mu, req, ev, aud, told, stamp, stops>>

WritePending(t) ==
  /\ pc[t] = "pending"
  /\ pending' = ev[t]
  /\ Goto(t, "event")
  /\ UNCHANGED <<snapshots, events, head, auditFiles, mu, req, ev, aud, told, stamp, stops>>

WriteEvent(t) ==
  /\ pc[t] = "event"
  /\ events' = [events EXCEPT ![IdOf[req[t].input]] = ev[t]]
  /\ Goto(t, "head")
  /\ UNCHANGED <<snapshots, pending, head, auditFiles, mu, req, ev, aud, told, stamp, stops>>

WriteHead(t) ==
  /\ pc[t] = "head"
  /\ head' = ev[t]
  /\ Goto(t, "remove")
  /\ UNCHANGED <<snapshots, pending, events, auditFiles, mu, req, ev, aud, told, stamp, stops>>

RemovePending(t) ==
  /\ pc[t] = "remove"
  /\ pending' = None
  /\ told' = told \cup {ev[t]}
  /\ Return(t)
  /\ UNCHANGED <<snapshots, events, head, auditFiles, stamp, stops>>

-----------------------------------------------------------------------------
(* AppendAudit: the entry's file, then the head; no marker.                *)
AuditStart(t) ==
  /\ req[t].op = "audit"
  /\ Lock(t)
  /\ aud' = [aud EXCEPT ![t] = Append(auditHead, req[t].at)]
  /\ Goto(t, "entry")
  /\ UNCHANGED <<eventFiles, auditFiles, req, ev, told, stamp, stops>>

WriteAudit(t) ==
  /\ pc[t] = "entry"
  /\ audit' = audit \cup {aud[t]}
  /\ Goto(t, "audithead")
  /\ UNCHANGED <<eventFiles, auditHead, mu, req, ev, aud, told, stamp, stops>>

WriteAuditHead(t) ==
  /\ pc[t] = "audithead"
  /\ auditHead' = aud[t]
  /\ Return(t)
  /\ UNCHANGED <<eventFiles, audit, told, stamp, stops>>

-----------------------------------------------------------------------------
(* A call ends early: the process dies, or a file operation fails and the  *)
(* error is returned.  Callers that still wait for the mutex have done     *)
(* nothing, so for the directory the two are the same.                     *)
Stop(t) ==
  /\ pc[t] \notin {"idle", "called"}
  /\ stops < MaxStops
  /\ stops' = stops + 1
  /\ Return(t)
  /\ UNCHANGED <<eventFiles, auditFiles, told, stamp>>

Recover(t) == RecoverRead(t) \/ RecoverRedo(t) \/ RecoverDrop(t) \/ RecoverDone(t)
AppendEvent(t) == \/ AppendCheck(t) \/ AppendLoad(t) \/ WriteRequest(t)
                  \/ WriteResponse(t) \/ WritePending(t) \/ WriteEvent(t)
                  \/ WriteHead(t) \/ RemovePending(t)
AppendAudit(t) == AuditStart(t) \/ WriteAudit(t) \/ WriteAuditHead(t)

Step(t) == Recover(t) \/ AppendEvent(t) \/ AppendAudit(t)

Next == \E t \in Threads : Call(t) \/ Step(t) \/ Stop(t)

Spec == Init /\ [][Next]_vars

-----------------------------------------------------------------------------
Labels == {"idle", "called", "redo", "drop", "recovered", "load", "request",
           "response", "pending", "event", "head", "remove", "entry", "audithead"}

FilesTypeOK ==
  /\ snapshots \subseteq Snaps
  /\ pending \in Chains \cup {None}
  /\ events \in [Ids -> Chains \cup {None}]
  /\ head \in Chains
  /\ audit \subseteq Seq(1 .. MaxAudits)
  /\ auditHead \in Seq(1 .. MaxAudits)
  /\ told \subseteq Chains
  /\ stamp \in 0 .. MaxAudits
  /\ stops \in 0 .. MaxStops

CallTypeOK ==
  /\ mu \in [Stores -> Threads \cup {NoThread}]
  /\ pc \in [Threads -> Labels]
  /\ req \in [Threads -> Calls \cup {NoReq}]
  /\ ev \in [Threads -> Chains \cup {None}]
  /\ aud \in [Threads -> Seq(1 .. MaxAudits)]

(* The type invariant.                                                     *)
TypeOK == FilesTypeOK /\ CallTypeOK

(* The walk of verifyPolicyLocked: the event files are numbered 1, 2, ...  *)
(* without a gap, each carries the digest of the one before, and head.json *)
(* is the last.                                                            *)
EventChainOK == {events[id] : id \in Ids} \ {None} = Prefixes(head)

(* The entries that the walk of verifyAuditPolicyLocked does not expect.   *)
AuditOrphans == audit \ Prefixes(auditHead)

Verifying(t) == pc[t] = "recovered" /\ req[t].op = "verify"

(* VerifyPolicy never reports a broken event chain for a ledger that only  *)
(* Append and Recover have written, wherever calls were cut off            *)
(* (store.go: the order of pending.json, the event, head.json).            *)
NoFalseAlarm == \A t \in Threads : Verifying(t) => EventChainOK

(* With one Store, the audit entries up to audit-head.json are all there,  *)
(* and each entry that verifyAuditPolicyLocked would refuse was left by a  *)
(* call that was cut off between its two writes: callers of AppendAudit    *)
(* that run to their end never fork the chain.                             *)
AuditForksAreStops ==
  (\A t \in Threads : pc[t] # "audithead") =>
    /\ Prefixes(auditHead) \subseteq audit
    /\ Cardinality(AuditOrphans) <= stops

(* What Append returned stays in the ledger: the event file holds it       *)
(* unchanged, so a retry of the same request is answered with the same     *)
(* event (Append's replay of an existing event).                           *)
ToldIsDurable == \A d \in told : FileOf(d) = d

(* head.json never goes back, and never to another history: the new head   *)
(* extends the old one (Append, and recoverLocked's rewriting of it).      *)
HeadOnlyExtends ==
  [][/\ Len(head') >= Len(head)
     /\ SubSeq(head', 1, Len(head)) = head]_vars

(* Both snapshots of an event are on disk before the event is, in every    *)
(* process, so no event can be found whose decision inputs were never      *)
(* written (Append: writeSnapshot before pending.json and the event).      *)
SnapshotsFirst ==
  \A id \in Ids : events[id] # None =>
    {ReqOf[Newest(events[id])], RespOf[Newest(events[id])]} \subseteq snapshots

(* The local store, wherever calls are cut off: no event file without its  *)
(* two snapshots, the audit chain forks only where a call was cut off, and *)
(* head.json only moves to an extension of its history (Append, Recover,   *)
(* AppendAudit).                                                           *)
StoreKept == [](SnapshotsFirst /\ AuditForksAreStops) /\ HeadOnlyExtends

(* The history the directory stands for: that of the event that pending    *)
(* marks once its file is there, and that of head.json otherwise.          *)
History ==
  IF pending # None /\ FileOf(pending) = pending THEN pending ELSE head

-----------------------------------------------------------------------------
(* A caller past its first step holds the mutex of its Store.              *)
MutexInv ==
  \A t \in Threads : pc[t] \notin {"idle", "called"} => mu[StoreOf[t]] = t

Appending == {"load", "request", "response", "pending", "event", "head", "remove"}

(* Which call a caller is in, and what it has written of its snapshots.    *)
CallOK(t) ==
  /\ pc[t] # "idle" => req[t] # NoReq
  /\ pc[t] \in {"redo", "drop", "recovered"} => req[t].op # "audit"
  /\ pc[t] = "redo" => ev[t] # None
  /\ pc[t] \in Appending => req[t].op = "append"
  /\ pc[t] \in {"entry", "audithead"} => req[t].op = "audit"
  /\ pc[t] \in Appending \ {"load"} =>
       ev[t] # None /\ ev[t] # <<>> /\ Newest(ev[t]) = req[t].input
  /\ pc[t] \in Appending \ {"load", "request"} =>
       ReqOf[req[t].input] \in snapshots
  /\ pc[t] \in Appending \ {"load", "request", "response"} =>
       RespOf[req[t].input] \in snapshots

CallInv == \A t \in Threads : CallOK(t)

(* An event file holds an event of that ID.                                *)
FileInv ==
  \A id \in Ids : events[id] # None =>
    events[id] # <<>> /\ IdOf[Newest(events[id])] = id

(* The directory as a call finds and leaves it, with one Store: a marker   *)
(* is for the event after the head, or for the head itself, ...            *)
MarkerInv ==
  pending # None =>
    /\ pending # <<>>
    /\ FileOf(pending) \in {None, pending}
    /\ \/ pending = head /\ FileOf(pending) = pending
       \/ \E i \in Inputs : pending = Append(head, i)

(* ... and the event files are the events of one history.                  *)
ChainInv ==
  /\ \A n \in 1 .. Len(History) :
       events[IdOf[History[n]]] = SubSeq(History, 1, n)
  /\ \A id \in Ids : events[id] # None =>
       /\ Len(events[id]) <= Len(History)
       /\ events[id] = SubSeq(History, 1, Len(events[id]))

(* What the caller holding the mutex has seen is still so.                 *)
FreshOK(t) ==
  /\ pc[t] = "redo" => pending = ev[t] /\ FileOf(ev[t]) = ev[t]
  /\ pc[t] = "drop" =>
       pending # None /\ (FileOf(pending) = None \/ head = pending)
  /\ pc[t] \in {"recovered", "load", "request", "response", "pending"} =>
       pending = None
  /\ pc[t] \in Appending \ {"head", "remove"} => events[IdOf[req[t].input]] = None
  /\ pc[t] \in Appending \ {"load", "remove"} => ev[t] = Append(head, req[t].input)
  /\ pc[t] \in {"event", "head", "remove"} => pending = ev[t]
  /\ pc[t] \in {"head", "remove"} => events[IdOf[req[t].input]] = ev[t]
  /\ pc[t] = "remove" => head = ev[t]

FreshInv == \A t \in Threads : FreshOK(t)

(* What callers were told is not the empty history.                        *)
ToldInv == \A d \in told : d # <<>> /\ FileOf(d) = d

Log == INSTANCE AppendLog WITH
  Entries <- Inputs, Identity <- IdOf, log <- History, told <- told

(* One process and one Store: the ledger implements the append-only log,   *)
(* crashes and recoveries included.                                        *)
ImplementsAppendLog == Log!Spec
=============================================================================
