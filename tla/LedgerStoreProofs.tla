------------------------- MODULE LedgerStoreProofs -------------------------
(* Proofs about the local screening ledger, for every set of callers and   *)
(* inputs, any number of stops and any number of audit entries.            *)
EXTENDS LedgerStore, FiniteSetTheorems, TLAPS

(* The invariant that holds for any number of Stores over the directory.   *)
Safe == TypeOK /\ MutexInv /\ CallInv /\ FileInv /\ SnapshotsFirst

LEMMA StoreOfType == \A t \in Threads : StoreOf[t] \in Stores
BY DEF Stores

LEMMA InputTypes ==
  \A i \in Inputs : IdOf[i] \in Ids /\ ReqOf[i] \in Snaps /\ RespOf[i] \in Snaps
BY DEF Ids, Snaps

(* The fields of a call, by its operation.                                 *)
LEMMA CallFields ==
  ASSUME NEW r \in Calls
  PROVE  /\ r # NoReq
         /\ r.op \in {"append", "recover", "verify", "audit"}
         /\ r.op = "append" => r.input \in Inputs
         /\ r.op = "audit" => r.at \in 1 .. MaxAudits
BY DEF Calls, NoReq

LEMMA ReqFields ==
  ASSUME TypeOK, CallInv, NEW t \in Threads, pc[t] # "idle"
  PROVE  /\ req[t] \in Calls
         /\ req[t].op \in {"append", "recover", "verify", "audit"}
         /\ req[t].op = "append" => req[t].input \in Inputs
         /\ req[t].op = "audit" => req[t].at \in 1 .. MaxAudits
<1>1. req[t] \in Calls
  BY DEF TypeOK, CallTypeOK, CallInv, CallOK
<1> QED BY <1>1, CallFields

(* Appending one entry to a digest.                                        *)
LEMMA AppendFacts ==
  ASSUME NEW S, NEW s \in Seq(S), NEW x \in S
  PROVE  /\ Append(s, x) \in Seq(S)
         /\ Append(s, x) # <<>>
         /\ Len(Append(s, x)) = Len(s) + 1
         /\ Append(s, x)[Len(Append(s, x))] = x
         /\ \A n \in 1 .. Len(s) : Append(s, x)[n] = s[n]
OBVIOUS

(* A digest's newest entry, when it has one.                               *)
LEMMA NewestType ==
  ASSUME NEW d \in Chains, d # <<>>
  PROVE  Len(d) \in Nat /\ Len(d) >= 1 /\ Newest(d) \in Inputs
BY DEF Chains, Newest

LEMMA PrefixFacts ==
  ASSUME NEW S, NEW s \in Seq(S), NEW n \in 0 .. Len(s)
  PROVE  /\ SubSeq(s, 1, n) \in Seq(S)
         /\ Len(SubSeq(s, 1, n)) = n
         /\ \A k \in 1 .. n : SubSeq(s, 1, n)[k] = s[k]
OBVIOUS

(* The beginnings of a digest and of what is appended to it.               *)
LEMMA PrefixAppend ==
  ASSUME NEW S, NEW s \in Seq(S), NEW x \in S
  PROVE  /\ \A n \in 0 .. Len(s) : SubSeq(Append(s, x), 1, n) = SubSeq(s, 1, n)
         /\ SubSeq(Append(s, x), 1, Len(s) + 1) = Append(s, x)
         /\ SubSeq(s, 1, Len(s)) = s
OBVIOUS

-----------------------------------------------------------------------------
LEMMA ReturnType ==
  ASSUME CallTypeOK, NEW t \in Threads, Return(t)
  PROVE  CallTypeOK'
<1>1. mu' \in [Stores -> Threads \cup {NoThread}]
  BY StoreOfType DEF CallTypeOK, Return
<1>2. pc' \in [Threads -> Labels]
  BY DEF CallTypeOK, Return, Labels
<1>3. req' \in [Threads -> Calls \cup {NoReq}]
  BY DEF CallTypeOK, Return
<1>4. ev' \in [Threads -> Chains \cup {None}]
  BY DEF CallTypeOK, Return
<1>5. aud' \in [Threads -> Seq(1 .. MaxAudits)]
  <2>1. <<>> \in Seq(1 .. MaxAudits)
    OBVIOUS
  <2> QED BY <2>1 DEF CallTypeOK, Return
<1> QED BY <1>1, <1>2, <1>3, <1>4, <1>5 DEF CallTypeOK

LEMMA LockType ==
  ASSUME CallTypeOK, NEW t \in Threads, Lock(t)
  PROVE  mu' \in [Stores -> Threads \cup {NoThread}]
BY StoreOfType DEF CallTypeOK, Lock

LEMMA TypeInit == Init => TypeOK
<1> SUFFICES ASSUME Init PROVE TypeOK
  OBVIOUS
<1>1. FilesTypeOK
  BY LedgerAssumption DEF Init, FilesTypeOK, Chains
<1>2. CallTypeOK
  BY DEF Init, CallTypeOK, Labels
<1> QED BY <1>1, <1>2 DEF TypeOK

(* One step keeps the types.                                               *)
LEMMA TypeStep ==
  ASSUME TypeOK, CallInv, [Next]_vars
  PROVE  TypeOK'
<1> USE DEF TypeOK
<1>1. CASE UNCHANGED vars
  <2>1. FilesTypeOK'
    BY <1>1 DEF vars, FilesTypeOK
  <2>2. CallTypeOK'
    BY <1>1 DEF vars, CallTypeOK
  <2> QED BY <2>1, <2>2
<1>2. ASSUME NEW t \in Threads, Call(t)
      PROVE  TypeOK'
  <2>1. FilesTypeOK'
    <3>1. stamp' \in 0 .. MaxAudits
      <4>1. PICK r \in Calls : \/ stamp' = stamp
                               \/ r.op = "audit" /\ stamp' = r.at
        BY <1>2 DEF Call
      <4>2. r.op = "audit" => r.at \in 1 .. MaxAudits
        BY CallFields
      <4> QED BY <4>1, <4>2, LedgerAssumption DEF FilesTypeOK
    <3> QED BY <1>2, <3>1 DEF Call, eventFiles, auditFiles, FilesTypeOK
  <2>2. CallTypeOK'
    <3>1. pc' \in [Threads -> Labels] /\ req' \in [Threads -> Calls \cup {NoReq}]
      BY <1>2 DEF Call, Goto, CallTypeOK, Labels
    <3> QED BY <1>2, <3>1 DEF Call, CallTypeOK
  <2> QED BY <2>1, <2>2
<1>3. ASSUME NEW t \in Threads, RecoverRead(t)
      PROVE  TypeOK'
  <2>1. FilesTypeOK'
    BY <1>3 DEF RecoverRead, eventFiles, auditFiles, FilesTypeOK
  <2>2. ev' \in [Threads -> Chains \cup {None}]
    BY <1>3 DEF RecoverRead, CallTypeOK, FilesTypeOK
  <2>3. pc' \in [Threads -> Labels]
    BY <1>3 DEF RecoverRead, Goto, CallTypeOK, Labels
  <2> QED BY <1>3, <2>1, <2>2, <2>3, LockType DEF RecoverRead, CallTypeOK
<1>4. ASSUME NEW t \in Threads, RecoverRedo(t)
      PROVE  TypeOK'
  <2>1. ev[t] \in Chains
    BY <1>4 DEF RecoverRedo, CallInv, CallOK, CallTypeOK
  <2>2. FilesTypeOK'
    BY <1>4, <2>1 DEF RecoverRedo, auditFiles, FilesTypeOK
  <2>3. CallTypeOK'
    BY <1>4 DEF RecoverRedo, Goto, CallTypeOK, Labels
  <2> QED BY <2>2, <2>3
<1>5. ASSUME NEW t \in Threads, RecoverDrop(t)
      PROVE  TypeOK'
  <2>1. FilesTypeOK'
    BY <1>5 DEF RecoverDrop, auditFiles, FilesTypeOK
  <2>2. CASE pending = None
    BY <1>5, <2>1, <2>2, ReturnType DEF RecoverDrop
  <2>3. CASE pending # None
    BY <1>5, <2>1, <2>3 DEF RecoverDrop, Goto, CallTypeOK, Labels
  <2> QED BY <2>2, <2>3
<1>6. ASSUME NEW t \in Threads, RecoverDone(t)
      PROVE  TypeOK'
  <2>1. FilesTypeOK'
    BY <1>6 DEF RecoverDone, eventFiles, auditFiles, FilesTypeOK
  <2> QED BY <1>6, <2>1, ReturnType DEF RecoverDone
<1>7. ASSUME NEW t \in Threads, AppendCheck(t)
      PROVE  TypeOK'
  <2>1. req[t].input \in Inputs
    BY <1>7, ReqFields DEF AppendCheck
  <2>2. events[IdOf[req[t].input]] \in Chains \cup {None}
    BY <2>1, InputTypes DEF FilesTypeOK
  <2>3. CASE events[IdOf[req[t].input]] # None
    <3>1. told' \subseteq Chains
      BY <1>7, <2>2, <2>3 DEF AppendCheck, FilesTypeOK
    <3>2. FilesTypeOK'
      BY <1>7, <3>1 DEF AppendCheck, eventFiles, auditFiles, FilesTypeOK
    <3> QED BY <1>7, <2>3, <3>2, ReturnType DEF AppendCheck
  <2>4. CASE events[IdOf[req[t].input]] = None
    <3>1. FilesTypeOK'
      BY <1>7, <2>4 DEF AppendCheck, eventFiles, auditFiles, FilesTypeOK
    <3> QED BY <1>7, <2>4, <3>1 DEF AppendCheck, Goto, CallTypeOK, Labels
  <2> QED BY <2>3, <2>4
<1>8. ASSUME NEW t \in Threads, AppendLoad(t)
      PROVE  TypeOK'
  <2>1. req[t].input \in Inputs
    BY <1>8, ReqFields DEF AppendLoad, CallInv, CallOK, Appending
  <2>2. Append(head, req[t].input) \in Chains
    BY <2>1, AppendFacts DEF FilesTypeOK, Chains
  <2>3. FilesTypeOK'
    BY <1>8 DEF AppendLoad, eventFiles, auditFiles, FilesTypeOK
  <2>4. CallTypeOK'
    BY <1>8, <2>2 DEF AppendLoad, Goto, CallTypeOK, Labels
  <2> QED BY <2>3, <2>4
<1>9. ASSUME NEW t \in Threads, WriteRequest(t) \/ WriteResponse(t)
      PROVE  TypeOK'
  <2>1. req[t].input \in Inputs
    BY <1>9, ReqFields DEF WriteRequest, WriteResponse, CallInv, CallOK, Appending
  <2>2. FilesTypeOK'
    BY <1>9, <2>1, InputTypes DEF WriteRequest, WriteResponse, auditFiles, FilesTypeOK
  <2>3. CallTypeOK'
    BY <1>9 DEF WriteRequest, WriteResponse, Goto, CallTypeOK, Labels
  <2> QED BY <2>2, <2>3
<1>10. ASSUME NEW t \in Threads, WritePending(t) \/ WriteHead(t)
       PROVE  TypeOK'
  <2>1. ev[t] \in Chains
    BY <1>10 DEF WritePending, WriteHead, CallInv, CallOK, Appending, CallTypeOK
  <2>2. FilesTypeOK'
    BY <1>10, <2>1 DEF WritePending, WriteHead, auditFiles, FilesTypeOK
  <2>3. CallTypeOK'
    BY <1>10 DEF WritePending, WriteHead, Goto, CallTypeOK, Labels
  <2> QED BY <2>2, <2>3
<1>11. ASSUME NEW t \in Threads, WriteEvent(t)
       PROVE  TypeOK'
  <2>1. ev[t] \in Chains
    BY <1>11 DEF WriteEvent, CallInv, CallOK, Appending, CallTypeOK
  <2>2. FilesTypeOK'
    BY <1>11, <2>1 DEF WriteEvent, auditFiles, FilesTypeOK
  <2>3. CallTypeOK'
    BY <1>11 DEF WriteEvent, Goto, CallTypeOK, Labels
  <2> QED BY <2>2, <2>3
<1>12. ASSUME NEW t \in Threads, RemovePending(t)
       PROVE  TypeOK'
  <2>1. ev[t] \in Chains
    BY <1>12 DEF RemovePending, CallInv, CallOK, Appending, CallTypeOK
  <2>2. FilesTypeOK'
    BY <1>12, <2>1 DEF RemovePending, auditFiles, FilesTypeOK
  <2> QED BY <1>12, <2>2, ReturnType DEF RemovePending
<1>13. ASSUME NEW t \in Threads, AuditStart(t)
       PROVE  TypeOK'
  <2>1. req[t].at \in 1 .. MaxAudits
    BY <1>13, ReqFields DEF AuditStart, Lock
  <2>2. Append(auditHead, req[t].at) \in Seq(1 .. MaxAudits)
    BY <2>1, AppendFacts DEF FilesTypeOK
  <2>3. aud' \in [Threads -> Seq(1 .. MaxAudits)]
    BY <1>13, <2>2 DEF AuditStart, CallTypeOK
  <2>4. FilesTypeOK'
    BY <1>13 DEF AuditStart, eventFiles, auditFiles, FilesTypeOK
  <2>5. pc' \in [Threads -> Labels]
    BY <1>13 DEF AuditStart, Goto, CallTypeOK, Labels
  <2> QED BY <1>13, <2>3, <2>4, <2>5, LockType DEF AuditStart, CallTypeOK
<1>14. ASSUME NEW t \in Threads, WriteAudit(t)
       PROVE  TypeOK'
  <2>1. aud[t] \in Seq(1 .. MaxAudits)
    BY DEF CallTypeOK
  <2>2. FilesTypeOK'
    BY <1>14, <2>1 DEF WriteAudit, eventFiles, FilesTypeOK
  <2>3. CallTypeOK'
    BY <1>14 DEF WriteAudit, Goto, CallTypeOK, Labels
  <2> QED BY <2>2, <2>3
<1>15. ASSUME NEW t \in Threads, WriteAuditHead(t)
       PROVE  TypeOK'
  <2>1. aud[t] \in Seq(1 .. MaxAudits)
    BY DEF CallTypeOK
  <2>2. FilesTypeOK'
    BY <1>15, <2>1 DEF WriteAuditHead, eventFiles, FilesTypeOK
  <2> QED BY <1>15, <2>2, ReturnType DEF WriteAuditHead
<1>16. ASSUME NEW t \in Threads, Stop(t)
       PROVE  TypeOK'
  <2>1. FilesTypeOK'
    BY <1>16, LedgerAssumption DEF Stop, eventFiles, auditFiles, FilesTypeOK
  <2> QED BY <1>16, <2>1, ReturnType DEF Stop
<1> QED BY <1>1, <1>2, <1>3, <1>4, <1>5, <1>6, <1>7, <1>8, <1>9, <1>10, <1>11,
           <1>12, <1>13, <1>14, <1>15, <1>16
        DEF Next, Step, Recover, AppendEvent, AppendAudit

-----------------------------------------------------------------------------
(* What a step of t leaves alone: the other callers, and the snapshots.    *)
LEMMA Frame ==
  ASSUME TypeOK, NEW t \in Threads, Call(t) \/ Step(t) \/ Stop(t)
  PROVE  /\ \A u \in Threads \ {t} : /\ pc'[u] = pc[u] /\ req'[u] = req[u]
                                     /\ ev'[u] = ev[u] /\ aud'[u] = aud[u]
         /\ snapshots \subseteq snapshots'
<1> USE DEF TypeOK, CallTypeOK, Goto, Return, eventFiles, auditFiles
<1>1. CASE Call(t) \/ Stop(t)
  BY <1>1 DEF Call, Stop
<1>2. CASE Recover(t)
  BY <1>2 DEF Recover, RecoverRead, RecoverRedo, RecoverDrop, RecoverDone
<1>3. CASE AppendEvent(t)
  BY <1>3 DEF AppendEvent, AppendCheck, AppendLoad, WriteRequest, WriteResponse,
              WritePending, WriteEvent, WriteHead, RemovePending
<1>4. CASE AppendAudit(t)
  BY <1>4 DEF AppendAudit, AuditStart, WriteAudit, WriteAuditHead
<1> QED BY <1>1, <1>2, <1>3, <1>4 DEF Step

LEMMA MutexStep ==
  ASSUME TypeOK, MutexInv, NEW t \in Threads, Call(t) \/ Step(t) \/ Stop(t)
  PROVE  MutexInv'
<1> USE DEF TypeOK, CallTypeOK
<1>1. \/ pc[t] = "idle" /\ pc'[t] = "called" /\ mu' = mu
      \/ pc[t] = "called" /\ mu[StoreOf[t]] = NoThread /\ mu'[StoreOf[t]] = t
         /\ \A s \in Stores \ {StoreOf[t]} : mu'[s] = mu[s]
      \/ pc[t] \notin {"idle", "called"} /\ pc'[t] # "idle" /\ mu' = mu
      \/ pc[t] \notin {"idle", "called"} /\ pc'[t] = "idle"
         /\ \A s \in Stores \ {StoreOf[t]} : mu'[s] = mu[s]
  <2> USE DEF Goto, Return, Lock
  <2>1. CASE Call(t) \/ Stop(t)
    BY <2>1 DEF Call, Stop
  <2>2. CASE Recover(t)
    BY <2>2, StoreOfType DEF Recover, RecoverRead, RecoverRedo, RecoverDrop, RecoverDone
  <2>3. CASE AppendEvent(t)
    BY <2>3 DEF AppendEvent, AppendCheck, AppendLoad, WriteRequest, WriteResponse,
                WritePending, WriteEvent, WriteHead, RemovePending
  <2>4. CASE AppendAudit(t)
    BY <2>4, StoreOfType DEF AppendAudit, AuditStart, WriteAudit, WriteAuditHead
  <2> QED BY <2>1, <2>2, <2>3, <2>4 DEF Step
<1>2. SUFFICES ASSUME NEW u \in Threads, pc'[u] \notin {"idle", "called"}
               PROVE  mu'[StoreOf[u]] = u
  BY DEF MutexInv
<1>3. CASE u = t
  BY <1>1, <1>2, <1>3 DEF MutexInv
<1>4. CASE u # t
  <2>1. pc[u] = pc'[u] /\ mu[StoreOf[u]] = u
    BY <1>2, <1>4, Frame DEF MutexInv
  <2>2. mu'[StoreOf[u]] = mu[StoreOf[u]]
    <3>1. CASE StoreOf[u] # StoreOf[t]
      BY <1>1, <3>1, StoreOfType
    <3>2. CASE StoreOf[u] = StoreOf[t]
      BY <1>1, <1>4, <2>1, <3>2, LedgerAssumption DEF MutexInv
    <3> QED BY <3>1, <3>2
  <2> QED BY <2>1, <2>2
<1> QED BY <1>3, <1>4

(* The caller that steps is in the call it says it is in.                  *)
LEMMA CallSelf ==
  ASSUME TypeOK, CallInv, NEW t \in Threads, Call(t) \/ Step(t) \/ Stop(t)
  PROVE  CallOK(t)'
<1>1. CallOK(t)
  BY DEF CallInv
<1> USE DEF TypeOK, CallTypeOK, Goto, Return
<1>2. CASE Call(t)
  <2>1. pc'[t] = "called" /\ req'[t] \in Calls
    BY <1>2 DEF Call
  <2> QED BY <2>1, CallFields DEF CallOK, Appending
<1>3. CASE pc'[t] = "idle"
  BY <1>3 DEF CallOK, Appending
<1>4. CASE RecoverRead(t) \/ AuditStart(t)
  BY <1>1, <1>4 DEF RecoverRead, AuditStart, Lock, CallOK, Appending
<1>5. CASE RecoverRedo(t) \/ (RecoverDrop(t) /\ pending # None)
  BY <1>1, <1>5 DEF RecoverRedo, RecoverDrop, CallOK, Appending
<1>6. CASE AppendCheck(t) /\ pc'[t] # "idle"
  BY <1>1, <1>6 DEF AppendCheck, CallOK, Appending
<1>7. CASE AppendLoad(t)
  <2>1. req[t].input \in Inputs
    BY <1>7, ReqFields DEF AppendLoad, CallInv, CallOK, Appending
  <2>2. ev'[t] = Append(head, req[t].input) /\ head \in Seq(Inputs)
    BY <1>7 DEF AppendLoad, FilesTypeOK, Chains
  <2>a. PICK d : d = Append(head, req[t].input)
    OBVIOUS
  <2>b. d \in Chains /\ d # <<>> /\ Newest(d) = req[t].input
    BY <2>1, <2>2, <2>a, AppendFacts DEF Newest, Chains
  <2>3. ev'[t] # <<>> /\ Newest(ev'[t]) = req[t].input /\ ev'[t] # None
    BY <2>2, <2>a, <2>b, LedgerAssumption
  <2>4. req'[t] = req[t] /\ pc'[t] = "request"
    BY <1>7 DEF AppendLoad
  <2> QED BY <1>1, <1>7, <2>3, <2>4 DEF AppendLoad, CallOK, Appending
<1>8. CASE WriteRequest(t) \/ WriteResponse(t)
  BY <1>1, <1>8 DEF WriteRequest, WriteResponse, CallOK, Appending
<1>9. CASE WritePending(t) \/ WriteEvent(t) \/ WriteHead(t)
  BY <1>1, <1>9 DEF WritePending, WriteEvent, WriteHead, CallOK, Appending
<1>10. CASE WriteAudit(t)
  BY <1>1, <1>10 DEF WriteAudit, CallOK, Appending
<1>11. CASE RecoverDone(t) \/ RemovePending(t) \/ WriteAuditHead(t) \/ Stop(t)
            \/ (RecoverDrop(t) /\ pending = None)
  BY <1>3, <1>11 DEF RecoverDone, RemovePending, WriteAuditHead, Stop, RecoverDrop
<1> HIDE DEF TypeOK, CallTypeOK, Goto, Return
<1> QED BY <1>2, <1>3, <1>4, <1>5, <1>6, <1>7, <1>8, <1>9, <1>10, <1>11
        DEF Step, Recover, AppendEvent, AppendAudit

LEMMA CallStep ==
  ASSUME TypeOK, CallInv, NEW t \in Threads, Call(t) \/ Step(t) \/ Stop(t)
  PROVE  CallInv'
<1> SUFFICES ASSUME NEW u \in Threads PROVE CallOK(u)'
  BY DEF CallInv
<1>1. CASE u = t
  BY <1>1, CallSelf
<1>2. CASE u # t
  BY <1>2, Frame DEF CallInv, CallOK
<1> QED BY <1>1, <1>2

(* Event files are written by WriteEvent only.                             *)
LEMMA EventWrites ==
  ASSUME TypeOK, CallInv, NEW t \in Threads, Call(t) \/ Step(t) \/ Stop(t)
  PROVE  \/ events' = events
         \/ /\ WriteEvent(t)
            /\ req[t].input \in Inputs /\ IdOf[req[t].input] \in Ids
            /\ ev[t] \in Chains /\ ev[t] # <<>> /\ ev[t] # None
            /\ Newest(ev[t]) = req[t].input
            /\ {ReqOf[req[t].input], RespOf[req[t].input]} \subseteq snapshots
            /\ events' = [events EXCEPT ![IdOf[req[t].input]] = ev[t]]
<1>1. CASE WriteEvent(t)
  <2>1. pc[t] = "event" /\ CallOK(t)
    BY <1>1 DEF WriteEvent, CallInv
  <2>2. req[t].op = "append" /\ ev[t] # None /\ ev[t] # <<>>
        /\ Newest(ev[t]) = req[t].input
        /\ {ReqOf[req[t].input], RespOf[req[t].input]} \subseteq snapshots
    BY <2>1 DEF CallOK, Appending
  <2>3. req[t].input \in Inputs
    BY <2>1, <2>2, ReqFields
  <2>4. ev[t] \in Chains
    BY <2>2 DEF TypeOK, CallTypeOK
  <2> QED BY <1>1, <2>2, <2>3, <2>4, InputTypes DEF WriteEvent
<1>2. CASE ~WriteEvent(t)
  BY <1>2 DEF Call, Step, Stop, Recover, RecoverRead, RecoverRedo, RecoverDrop, RecoverDone,
              AppendEvent, AppendCheck, AppendLoad, WriteRequest, WriteResponse,
              WritePending, WriteHead, RemovePending, AppendAudit, AuditStart,
              WriteAudit, WriteAuditHead, eventFiles
<1> QED BY <1>1, <1>2

LEMMA FileStep ==
  ASSUME TypeOK, CallInv, FileInv, SnapshotsFirst,
         NEW t \in Threads, Call(t) \/ Step(t) \/ Stop(t)
  PROVE  FileInv' /\ SnapshotsFirst'
<1>1. snapshots \subseteq snapshots'
  BY Frame
<1>2. CASE events' = events
  BY <1>1, <1>2 DEF FileInv, SnapshotsFirst
<1>3. CASE events' # events
  <2>1. PICK i \in Inputs, d \in Chains :
           /\ IdOf[i] \in Ids /\ d # <<>> /\ d # None /\ Newest(d) = i
           /\ {ReqOf[i], RespOf[i]} \subseteq snapshots
           /\ events' = [events EXCEPT ![IdOf[i]] = d]
    BY <1>3, EventWrites
  <2>2. FileInv'
    BY <2>1 DEF FileInv, TypeOK, FilesTypeOK
  <2>3. SnapshotsFirst'
    BY <1>1, <2>1 DEF SnapshotsFirst, TypeOK, FilesTypeOK
  <2> QED BY <2>2, <2>3
<1> QED BY <1>2, <1>3

LEMMA SafeStep == Safe /\ [Next]_vars => Safe'
<1> SUFFICES ASSUME Safe, [Next]_vars PROVE Safe'
  OBVIOUS
<1>1. TypeOK'
  BY TypeStep DEF Safe
<1>2. CASE UNCHANGED vars
  BY <1>1, <1>2 DEF vars, Safe, MutexInv, CallInv, CallOK, FileInv, SnapshotsFirst
<1>3. ASSUME NEW t \in Threads, Call(t) \/ Step(t) \/ Stop(t)
      PROVE  Safe'
  BY <1>1, <1>3, MutexStep, CallStep, FileStep DEF Safe
<1> QED BY <1>2, <1>3 DEF Next

LEMMA SafeInit == Init => Safe
<1> SUFFICES ASSUME Init PROVE Safe
  OBVIOUS
<1>1. TypeOK
  BY TypeInit
<1>2. MutexInv /\ CallInv
  BY DEF Init, MutexInv, CallInv, CallOK, Appending
<1>3. FileInv /\ SnapshotsFirst
  BY DEF Init, FileInv, SnapshotsFirst
<1> QED BY <1>1, <1>2, <1>3 DEF Safe

(* The ledger's files and the callers' state have their types, in every    *)
(* interleaving of any number of Stores (store.go, audit.go).              *)
THEOREM TypeCorrect == Spec => []TypeOK
<1>1. Safe => TypeOK
  BY DEF Safe
<1> QED BY <1>1, SafeInit, SafeStep, PTL DEF Spec

(* Whatever the processes over one directory do and wherever they stop, an *)
(* event file is never there without both its snapshots (Append writes     *)
(* them first).                                                            *)
THEOREM SnapshotsDurable == Spec => []SnapshotsFirst
<1>1. Safe => SnapshotsFirst
  BY DEF Safe
<1> QED BY <1>1, SafeInit, SafeStep, PTL DEF Spec

-----------------------------------------------------------------------------
(* From here on one Store covers every caller.                             *)
OneInv == Safe /\ MarkerInv /\ ChainInv /\ FreshInv /\ ToldInv

LEMMA Alone ==
  ASSUME SingleStore, MutexInv, NEW t \in Threads,
         pc[t] \notin {"idle", "called"} \/ mu[StoreOf[t]] = NoThread
  PROVE  \A u \in Threads \ {t} : pc[u] \in {"idle", "called"}
BY LedgerAssumption DEF SingleStore, MutexInv

(* The five things a step can do to pending.json, events/ and head.json:   *)
(* nothing; ...                                                            *)
Same == pending' = pending /\ events' = events /\ head' = head

(* ... make the marked event, whose file is there, the head; ...           *)
Redo ==
  /\ pending # None /\ FileOf(pending) = pending /\ head' = pending
  /\ pending' = pending /\ events' = events

(* ... remove a marker that has done its work, or has none to do; ...      *)
Drop ==
  /\ pending # None /\ (FileOf(pending) = None \/ head = pending)
  /\ pending' = None /\ events' = events /\ head' = head

(* ... mark the next event; ...                                            *)
Mark(i) ==
  /\ pending = None /\ events[IdOf[i]] = None
  /\ pending' = Append(head, i) /\ events' = events /\ head' = head

(* ... write the marked event.                                             *)
Commit(i) ==
  /\ pending = Append(head, i) /\ events[IdOf[i]] = None
  /\ events' = [events EXCEPT ![IdOf[i]] = pending]
  /\ pending' = pending /\ head' = head

LEMMA Kinds ==
  ASSUME OneInv, NEW t \in Threads, Call(t) \/ Step(t) \/ Stop(t)
  PROVE  Same \/ Redo \/ Drop \/ (\E i \in Inputs : Mark(i) \/ Commit(i))
<1>1. FreshOK(t) /\ CallOK(t) /\ TypeOK
  BY DEF OneInv, FreshInv, Safe, CallInv
<1>2. CASE RecoverRedo(t)
  BY <1>1, <1>2 DEF RecoverRedo, FreshOK, CallOK, Redo
<1>3. CASE RecoverDrop(t)
  BY <1>1, <1>3 DEF RecoverDrop, FreshOK, Drop
<1>4. ASSUME pc[t] \in Appending
      PROVE  req[t].input \in Inputs /\ IdOf[req[t].input] \in Ids
  BY <1>1, <1>4, ReqFields, InputTypes DEF CallOK, Appending, OneInv, Safe
<1>5. CASE WritePending(t)
  <2>1. Mark(req[t].input)
    BY <1>1, <1>5 DEF WritePending, FreshOK, Mark, Appending
  <2> QED BY <1>4, <1>5, <2>1 DEF WritePending, Appending
<1>6. CASE WriteEvent(t)
  <2>1. Commit(req[t].input)
    BY <1>1, <1>6 DEF WriteEvent, FreshOK, Commit, Appending
  <2> QED BY <1>4, <1>6, <2>1 DEF WriteEvent, Appending
<1>7. CASE WriteHead(t)
  BY <1>1, <1>7 DEF WriteHead, FreshOK, CallOK, Redo, Appending, FileOf
<1>8. CASE RemovePending(t)
  BY <1>1, <1>8 DEF RemovePending, FreshOK, CallOK, Drop, Appending
<1>9. CASE ~(RecoverRedo(t) \/ RecoverDrop(t) \/ WritePending(t) \/ WriteEvent(t)
             \/ WriteHead(t) \/ RemovePending(t))
  <2>1. Same
    BY <1>9 DEF Same, Call, Step, Stop, Recover, RecoverRead, RecoverDone, AppendEvent,
                AppendCheck, AppendLoad, WriteRequest, WriteResponse, AppendAudit,
                AuditStart, WriteAudit, WriteAuditHead, eventFiles
  <2> QED BY <2>1
<1> QED BY <1>2, <1>3, <1>5, <1>6, <1>7, <1>8, <1>9

(* The history a directory stands for changes by commits only, each of     *)
(* which appends one event.                                                *)
LEMMA HistoryKinds ==
  ASSUME OneInv
  PROVE  /\ Same \/ Redo \/ Drop => History' = History
         /\ \A i \in Inputs : Mark(i) => History' = History
         /\ \A i \in Inputs : Commit(i) =>
              History = head /\ History' = Append(head, i)
<1>1. head \in Chains /\ pending \in Chains \cup {None}
      /\ events \in [Ids -> Chains \cup {None}]
  BY DEF OneInv, Safe, TypeOK, FilesTypeOK
<1>2. Same \/ Redo \/ Drop => History' = History
  BY <1>1 DEF Same, Redo, Drop, History, FileOf, OneInv, MarkerInv
<1>3. ASSUME NEW i \in Inputs
      PROVE  /\ Append(head, i) \in Chains /\ Append(head, i) # None
             /\ Newest(Append(head, i)) = i /\ IdOf[i] \in Ids
  <2>1. head \in Seq(Inputs)
    BY <1>1 DEF Chains
  <2>2. Append(head, i) \in Seq(Inputs) /\ Append(head, i)[Len(Append(head, i))] = i
    BY <2>1, AppendFacts
  <2>3. Append(head, i) \in Chains
    BY <2>2 DEF Chains
  <2>4. Append(head, i) # None
    BY <2>3, LedgerAssumption
  <2> QED
    BY <2>2, <2>3, <2>4, InputTypes DEF Newest
<1>4. ASSUME NEW i \in Inputs, Mark(i)
      PROVE  History' = History
  <2>1. pending' # None /\ FileOf(pending)' = None
    BY <1>3, <1>4 DEF Mark, FileOf
  <2> QED BY <1>4, <2>1 DEF Mark, History
<1>5. ASSUME NEW i \in Inputs, Commit(i)
      PROVE  History = head /\ History' = Append(head, i)
  <2>1. pending # None /\ Newest(pending) = i /\ IdOf[i] \in Ids
    BY <1>3, <1>5 DEF Commit
  <2>2. FileOf(pending) = None
    BY <1>5, <2>1 DEF Commit, FileOf
  <2>3. FileOf(pending)' = pending
    BY <1>1, <1>5, <2>1 DEF Commit, FileOf
  <2> QED BY <1>5, <2>1, <2>2, <2>3 DEF Commit, History
<1> QED BY <1>2, <1>4, <1>5

LEMMA MarkerStep ==
  ASSUME OneInv, Same \/ Redo \/ Drop \/ (\E i \in Inputs : Mark(i) \/ Commit(i))
  PROVE  MarkerInv'
<1>1. head \in Chains /\ events \in [Ids -> Chains \cup {None}] /\ MarkerInv
  BY DEF OneInv, Safe, TypeOK, FilesTypeOK
<1>2. CASE Same
  BY <1>1, <1>2 DEF Same, MarkerInv, FileOf
<1>3. CASE Redo
  BY <1>1, <1>3 DEF Redo, MarkerInv, FileOf
<1>4. CASE Drop
  BY <1>4 DEF Drop, MarkerInv
<1>5. ASSUME NEW i \in Inputs, Mark(i) \/ Commit(i)
      PROVE  MarkerInv'
  <2>1. PICK d \in Chains : /\ d = Append(head, i) /\ d # <<>> /\ Newest(d) = i
                            /\ IdOf[i] \in Ids
    BY <1>1, AppendFacts, InputTypes DEF Chains, Newest
  <2>2. pending' = d /\ head' = head /\ events'[IdOf[i]] \in {None, d}
    BY <1>1, <1>5, <2>1 DEF Mark, Commit
  <2> QED BY <2>1, <2>2 DEF MarkerInv, FileOf
<1> QED BY <1>2, <1>3, <1>4, <1>5

LEMMA ChainStep ==
  ASSUME OneInv, Same \/ Redo \/ Drop \/ (\E i \in Inputs : Mark(i) \/ Commit(i))
  PROVE  ChainInv'
<1>1. CASE Same \/ Redo \/ Drop \/ (\E i \in Inputs : Mark(i))
  <2>1. History' = History
    BY <1>1, HistoryKinds
  <2>2. events' = events
    BY <1>1 DEF Same, Redo, Drop, Mark
  <2> QED BY <2>1, <2>2 DEF ChainInv, OneInv
<1>2. ASSUME NEW i \in Inputs, Commit(i)
      PROVE  ChainInv'
  <2>1. PICK h \in Seq(Inputs) : h = head
    BY DEF OneInv, Safe, TypeOK, FilesTypeOK, Chains
  <2>2. PICK d \in Seq(Inputs) : d = Append(h, i)
    BY AppendFacts
  <2>3. /\ Len(d) = Len(h) + 1 /\ d[Len(d)] = i
        /\ \A n \in 1 .. Len(h) : d[n] = h[n]
        /\ \A n \in 0 .. Len(h) : SubSeq(d, 1, n) = SubSeq(h, 1, n)
        /\ SubSeq(d, 1, Len(d)) = d
    BY <2>2, AppendFacts, PrefixAppend
  <2>4. History = h /\ History' = d /\ events' = [events EXCEPT ![IdOf[i]] = d]
        /\ events[IdOf[i]] = None
    BY <1>2, <2>1, <2>2, HistoryKinds DEF Commit
  <2>5. events \in [Ids -> Chains \cup {None}] /\ IdOf[i] \in Ids /\ Len(h) \in Nat
    BY InputTypes DEF OneInv, Safe, TypeOK, FilesTypeOK
  <2>6. ASSUME NEW n \in 1 .. Len(d)
        PROVE  events'[IdOf[d[n]]] = SubSeq(d, 1, n)
    <3>1. CASE n = Len(d)
      BY <2>3, <2>4, <2>5, <3>1
    <3>2. CASE n \in 1 .. Len(h)
      <4>1. events[IdOf[h[n]]] = SubSeq(h, 1, n) /\ h[n] \in Inputs
        BY <2>4, <3>2 DEF OneInv, ChainInv
      <4>2. SubSeq(h, 1, n) \in Chains
        BY <3>2, PrefixFacts DEF Chains
      <4>3. IdOf[h[n]] # IdOf[i] /\ IdOf[h[n]] \in Ids
        BY <2>4, <4>1, <4>2, LedgerAssumption, InputTypes
      <4> QED BY <2>3, <2>4, <2>5, <3>2, <4>1, <4>3
    <3> QED BY <2>3, <2>5, <3>1, <3>2
  <2>7. ASSUME NEW id \in Ids, events'[id] # None
        PROVE  Len(events'[id]) <= Len(d) /\ events'[id] = SubSeq(d, 1, Len(events'[id]))
    <3>1. CASE id = IdOf[i]
      BY <2>3, <2>4, <2>5, <3>1
    <3>2. CASE id # IdOf[i]
      <4>1. PICK e \in Seq(Inputs) : e = events[id] /\ events'[id] = e
        BY <2>4, <2>5, <2>7, <3>2 DEF Chains
      <4>2. Len(e) <= Len(h) /\ e = SubSeq(h, 1, Len(e)) /\ Len(e) \in Nat
        BY <2>4, <2>7, <4>1 DEF OneInv, ChainInv
      <4> QED BY <2>3, <2>5, <4>1, <4>2
    <3> QED BY <3>1, <3>2
  <2> QED BY <2>4, <2>6, <2>7 DEF ChainInv
<1> QED BY <1>1, <1>2

(* What the stepping caller has seen is still so after its step.           *)
LEMMA FreshSelf ==
  ASSUME OneInv, NEW t \in Threads, Call(t) \/ Step(t) \/ Stop(t)
  PROVE  FreshOK(t)'
<1>1. FreshOK(t) /\ CallOK(t) /\ TypeOK /\ MarkerInv
  BY DEF OneInv, FreshInv, Safe, CallInv
<1>2. pc \in [Threads -> Labels] /\ ev \in [Threads -> Chains \cup {None}]
      /\ req \in [Threads -> Calls \cup {NoReq}]
      /\ events \in [Ids -> Chains \cup {None}]
  BY <1>1 DEF TypeOK, CallTypeOK, FilesTypeOK
<1> USE DEF Goto, Return, eventFiles
<1>3. CASE Call(t)
  BY <1>2, <1>3 DEF Call, FreshOK, Appending
<1>4. CASE pc'[t] = "idle"
  BY <1>4 DEF FreshOK, Appending
<1>5. CASE RecoverRead(t)
  <2>1. pc'[t] = "recovered" => pending = None
    BY <1>2, <1>5 DEF RecoverRead
  <2>2. pc'[t] = "drop" => pending # None /\ FileOf(pending) = None
    BY <1>2, <1>5 DEF RecoverRead
  <2>3. pc'[t] = "redo" => pending # None /\ FileOf(pending) # None
    BY <1>2, <1>5 DEF RecoverRead
  <2>4. pc'[t] \in {"recovered", "drop", "redo"} /\ ev'[t] = pending
        /\ pending' = pending /\ events' = events /\ head' = head
    BY <1>2, <1>5 DEF RecoverRead
  <2> QED BY <1>1, <2>1, <2>2, <2>3, <2>4 DEF FreshOK, MarkerInv, FileOf, Appending
<1>6. CASE AuditStart(t) \/ WriteAudit(t)
  BY <1>2, <1>6 DEF AuditStart, WriteAudit, FreshOK, Appending
<1>7. CASE RecoverRedo(t)
  BY <1>1, <1>2, <1>7 DEF RecoverRedo, FreshOK, CallOK, Appending, FileOf
<1>8. CASE RecoverDrop(t) /\ pc'[t] # "idle"
  BY <1>2, <1>8 DEF RecoverDrop, FreshOK, Appending
<1>9. CASE AppendCheck(t) /\ pc'[t] # "idle"
  BY <1>1, <1>2, <1>9 DEF AppendCheck, FreshOK, Appending
<1>10. CASE AppendLoad(t)
  BY <1>1, <1>2, <1>10 DEF AppendLoad, FreshOK, Appending
<1>11. CASE WriteRequest(t) \/ WriteResponse(t)
  BY <1>1, <1>2, <1>11 DEF WriteRequest, WriteResponse, FreshOK, Appending
<1>12. CASE WritePending(t)
  BY <1>1, <1>2, <1>12 DEF WritePending, FreshOK, Appending
<1>13. CASE WriteEvent(t)
  <2>1. IdOf[req[t].input] \in Ids
    BY <1>1, <1>13, ReqFields, InputTypes
       DEF WriteEvent, CallOK, Appending, OneInv, Safe
  <2> QED BY <1>1, <1>2, <1>13, <2>1 DEF WriteEvent, FreshOK, Appending
<1>14. CASE WriteHead(t)
  BY <1>1, <1>2, <1>14 DEF WriteHead, FreshOK, Appending
<1>15. CASE RecoverDone(t) \/ RemovePending(t) \/ WriteAuditHead(t) \/ Stop(t)
  BY <1>2, <1>4, <1>15 DEF RecoverDone, RemovePending, WriteAuditHead, Stop
<1> HIDE DEF Goto, Return, eventFiles
<1> QED BY <1>3, <1>4, <1>5, <1>6, <1>7, <1>8, <1>9, <1>10, <1>11, <1>12, <1>13,
           <1>14, <1>15
        DEF Step, Recover, AppendEvent, AppendAudit

LEMMA FreshStep ==
  ASSUME SingleStore, OneInv, NEW t \in Threads, Call(t) \/ Step(t) \/ Stop(t)
  PROVE  FreshInv'
<1> SUFFICES ASSUME NEW u \in Threads, u # t PROVE FreshOK(u)'
  BY FreshSelf DEF FreshInv
<1>1. pc'[u] = pc[u] /\ req'[u] = req[u] /\ ev'[u] = ev[u]
  BY Frame DEF OneInv, Safe
<1>2. CASE Call(t)
  BY <1>1, <1>2 DEF Call, eventFiles, OneInv, FreshInv, FreshOK, FileOf
<1>3. CASE Step(t) \/ Stop(t)
  <2>1. pc[t] \notin {"idle", "called"} \/ mu[StoreOf[t]] = NoThread
    BY <1>3 DEF Step, Stop, Recover, RecoverRead, RecoverRedo, RecoverDrop, RecoverDone,
                AppendEvent, AppendCheck, AppendLoad, WriteRequest, WriteResponse,
                WritePending, WriteEvent, WriteHead, RemovePending, AppendAudit,
                AuditStart, WriteAudit, WriteAuditHead, Lock
  <2>2. pc'[u] \in {"idle", "called"}
    BY <1>1, <2>1, Alone DEF OneInv, Safe
  <2> QED BY <2>2 DEF FreshOK, Appending
<1> QED BY <1>2, <1>3

LEMMA ToldStep ==
  ASSUME OneInv, NEW t \in Threads, Call(t) \/ Step(t) \/ Stop(t)
  PROVE  ToldInv'
<1>1. TypeOK /\ CallOK(t) /\ FreshOK(t) /\ FileInv /\ ToldInv
  BY DEF OneInv, Safe, CallInv, FreshInv
<1>2. events \in [Ids -> Chains \cup {None}] /\ told \subseteq Chains
  BY <1>1 DEF TypeOK, FilesTypeOK
<1>3. \A d \in told : d # <<>> /\ FileOf(d)' = d
  <2> SUFFICES ASSUME NEW d \in told PROVE d # <<>> /\ FileOf(d)' = d
    OBVIOUS
  <2>1. d \in Chains /\ d # <<>> /\ FileOf(d) = d /\ d # None
    BY <1>1, <1>2, LedgerAssumption DEF ToldInv
  <2>2. CASE events' = events
    BY <2>1, <2>2 DEF FileOf
  <2>3. CASE \E i \in Inputs : Commit(i)
    BY <1>2, <2>1, <2>3 DEF Commit, FileOf
  <2> QED BY <2>2, <2>3, Kinds DEF Same, Redo, Drop, Mark
<1>4. CASE told' = told
  BY <1>3, <1>4 DEF ToldInv
<1>5. CASE AppendCheck(t) /\ told' # told
  <2>1. PICK id : id = IdOf[req[t].input] /\ id \in Ids
    BY <1>1, <1>5, ReqFields, InputTypes DEF AppendCheck, OneInv, Safe
  <2>2. told' = told \cup {events[id]} /\ events[id] # None /\ events' = events
    BY <1>5, <2>1 DEF AppendCheck, eventFiles
  <2>3. events[id] # <<>> /\ FileOf(events[id])' = events[id]
    BY <1>1, <2>1, <2>2 DEF FileInv, FileOf
  <2> QED BY <1>3, <2>2, <2>3 DEF ToldInv
<1>6. CASE RemovePending(t)
  <2>1. /\ ev[t] # <<>> /\ Newest(ev[t]) = req[t].input
        /\ events[IdOf[req[t].input]] = ev[t]
    BY <1>1, <1>6 DEF RemovePending, CallOK, FreshOK, Appending
  <2>2. told' = told \cup {ev[t]} /\ events' = events
    BY <1>6 DEF RemovePending
  <2>3. FileOf(ev[t]) = ev[t]
    BY <2>1 DEF FileOf
  <2>4. \A d \in told' : d # <<>> /\ events'[IdOf[Newest(d)]] = d
    BY <1>3, <2>1, <2>2, <2>3 DEF FileOf
  <2> QED BY <2>4 DEF ToldInv, FileOf
<1>7. CASE ~(AppendCheck(t) \/ RemovePending(t))
  <2>1. told' = told
    BY <1>7 DEF Call, Step, Stop, Recover, RecoverRead, RecoverRedo, RecoverDrop, RecoverDone,
                AppendEvent, AppendLoad, WriteRequest, WriteResponse, WritePending,
                WriteEvent, WriteHead, AppendAudit, AuditStart, WriteAudit, WriteAuditHead
  <2> QED BY <1>4, <2>1
<1> QED BY <1>4, <1>5, <1>6, <1>7

LEMMA OneInit == Init => OneInv
<1> SUFFICES ASSUME Init PROVE OneInv
  OBVIOUS
<1>1. Safe
  BY SafeInit
<1>2. History = <<>> /\ Len(<<>>) = 0
  BY DEF Init, History
<1>3. MarkerInv /\ ToldInv
  BY DEF Init, MarkerInv, ToldInv
<1>4. ChainInv
  BY <1>2 DEF Init, ChainInv
<1>5. FreshInv
  BY DEF Init, FreshInv, FreshOK, Appending
<1> QED BY <1>1, <1>3, <1>4, <1>5 DEF OneInv

LEMMA OneStep ==
  ASSUME SingleStore, OneInv, [Next]_vars
  PROVE  OneInv'
<1>1. Safe'
  BY SafeStep DEF OneInv
<1>2. CASE UNCHANGED vars
  BY <1>1, <1>2 DEF vars, OneInv, MarkerInv, ChainInv, FreshInv, FreshOK, ToldInv,
                    History, FileOf
<1>3. ASSUME NEW t \in Threads, Call(t) \/ Step(t) \/ Stop(t)
      PROVE  OneInv'
  BY <1>1, <1>3, Kinds, MarkerStep, ChainStep, FreshStep, ToldStep DEF OneInv
<1> QED BY <1>2, <1>3 DEF Next

(* With one process, VerifyPolicy never reports a broken event chain,      *)
(* however many calls were cut off and wherever (recoverLocked finishes or *)
(* forgets the event that pending.json marks).                             *)
THEOREM VerifySound == SingleStore => (Spec => []NoFalseAlarm)
<1> SUFFICES ASSUME SingleStore PROVE Spec => []NoFalseAlarm
  OBVIOUS
<1>1. OneInv => NoFalseAlarm
  <2> SUFFICES ASSUME OneInv, NEW t \in Threads, Verifying(t) PROVE EventChainOK
    BY DEF NoFalseAlarm
  <2>1. pending = None
    BY DEF Verifying, OneInv, FreshInv, FreshOK
  <2>2. PICK h \in Seq(Inputs) : h = head /\ History = h
    BY <2>1 DEF History, OneInv, Safe, TypeOK, FilesTypeOK, Chains
  <2>3. ASSUME NEW id \in Ids, events[id] # None
        PROVE  events[id] \in Prefixes(h)
    <3>1. PICK e \in Seq(Inputs) : e = events[id]
      BY <2>3 DEF OneInv, Safe, TypeOK, FilesTypeOK, Chains
    <3>2. e # <<>> /\ Len(e) <= Len(h) /\ e = SubSeq(h, 1, Len(e))
      BY <2>2, <2>3, <3>1 DEF OneInv, Safe, FileInv, ChainInv
    <3>3. Len(e) \in 1 .. Len(h)
      BY <3>2
    <3> QED BY <3>1, <3>2, <3>3 DEF Prefixes
  <2>4. ASSUME NEW n \in 1 .. Len(h)
        PROVE  \E id \in Ids : events[id] # None /\ events[id] = SubSeq(h, 1, n)
    <3>1. h[n] \in Inputs /\ events[IdOf[h[n]]] = SubSeq(h, 1, n)
      BY <2>2 DEF OneInv, ChainInv
    <3>2. SubSeq(h, 1, n) \in Chains
      BY PrefixFacts DEF Chains
    <3> QED BY <3>1, <3>2, InputTypes, LedgerAssumption
  <2> QED BY <2>2, <2>3, <2>4 DEF EventChainOK, Prefixes
<1>2. OneInv /\ [Next]_vars => OneInv'
  BY OneStep
<1> QED BY <1>1, <1>2, OneInit, PTL DEF Spec

(* With one process, the event that Append returned is the one found under *)
(* its ID for ever after, so a retry is answered with the same event.      *)
THEOREM Durable == SingleStore => (Spec => []ToldIsDurable)
<1> SUFFICES ASSUME SingleStore PROVE Spec => []ToldIsDurable
  OBVIOUS
<1>1. OneInv => ToldIsDurable
  BY DEF OneInv, ToldInv, ToldIsDurable
<1>2. OneInv /\ [Next]_vars => OneInv'
  BY OneStep
<1> QED BY <1>1, <1>2, OneInit, PTL DEF Spec

(* With one process, neither Append nor recovery ever moves head.json back *)
(* or to another history.                                                  *)
THEOREM HeadMonotone == SingleStore => (Spec => HeadOnlyExtends)
<1> SUFFICES ASSUME SingleStore PROVE Spec => HeadOnlyExtends
  OBVIOUS
<1> DEFINE Extends == Len(head') >= Len(head) /\ SubSeq(head', 1, Len(head)) = head
<1>1. OneInv /\ [Next]_vars => [Extends]_vars
  <2> SUFFICES ASSUME OneInv, [Next]_vars, ~ UNCHANGED vars PROVE Extends
    OBVIOUS
  <2>1. PICK h \in Seq(Inputs) : h = head
    BY DEF OneInv, Safe, TypeOK, FilesTypeOK, Chains
  <2>2. SubSeq(h, 1, Len(h)) = h /\ Len(h) \in Nat
    BY PrefixAppend DEF Chains
  <2>3. head' = h \/ \E i \in Inputs : head' = Append(h, i)
    <3>1. Same \/ Redo \/ Drop \/ (\E i \in Inputs : Mark(i) \/ Commit(i))
      BY Kinds DEF Next
    <3> QED BY <2>1, <3>1 DEF Same, Redo, Drop, Mark, Commit, OneInv, MarkerInv
  <2>4. CASE head' = h
    BY <2>1, <2>2, <2>4
  <2>5. ASSUME NEW i \in Inputs, head' = Append(h, i)
        PROVE  Extends
    <3>1. Len(Append(h, i)) = Len(h) + 1 /\ SubSeq(Append(h, i), 1, Len(h)) = h
      BY <2>2, AppendFacts, PrefixAppend
    <3> QED BY <2>1, <2>2, <2>5, <3>1
  <2> QED BY <2>3, <2>4, <2>5
<1>2. OneInv /\ [Next]_vars => OneInv'
  BY OneStep
<1> QED BY <1>1, <1>2, OneInit, PTL DEF Spec, HeadOnlyExtends

-----------------------------------------------------------------------------
(* The entries beside the chain that ends in digest d.                     *)
Beside(d) == audit \ Prefixes(d)

(* The audit chain, whoever is writing it: what a caller with the mutex    *)
(* means to append extends the head as it is, and only calls that were cut *)
(* off between the entry and the head left entries beside the chain.       *)
AuditInv ==
  /\ IsFiniteSet(audit)
  /\ Prefixes(auditHead) \subseteq audit
  /\ \A t \in Threads : pc[t] \in {"entry", "audithead"} =>
       aud[t] = Append(auditHead, req[t].at)
  /\ \A t \in Threads : pc[t] = "audithead" =>
       aud[t] \in audit /\ Cardinality(Beside(aud[t])) <= stops
  /\ (\A t \in Threads : pc[t] # "audithead") =>
       Cardinality(Beside(auditHead)) <= stops

(* ... with what it rests on.                                              *)
AuditSafe == TypeOK /\ MutexInv /\ CallInv /\ AuditInv

(* A digest one entry longer has one beginning more: itself.               *)
LEMMA PrefixesAppend ==
  ASSUME NEW S, NEW s \in Seq(S), NEW x \in S
  PROVE  Prefixes(Append(s, x)) = Prefixes(s) \cup {Append(s, x)}
<1>1. /\ Len(s) \in Nat /\ Len(Append(s, x)) = Len(s) + 1
      /\ \A n \in 1 .. Len(s) : SubSeq(Append(s, x), 1, n) = SubSeq(s, 1, n)
      /\ SubSeq(Append(s, x), 1, Len(s) + 1) = Append(s, x)
  BY PrefixAppend, AppendFacts
<1>2. ASSUME NEW d \in Prefixes(Append(s, x))
      PROVE  d \in Prefixes(s) \cup {Append(s, x)}
  <2>1. PICK n \in 1 .. Len(s) + 1 : d = SubSeq(Append(s, x), 1, n)
    BY <1>1 DEF Prefixes
  <2>2. n \in 1 .. Len(s) \/ n = Len(s) + 1
    BY <1>1
  <2> QED BY <1>1, <2>1, <2>2 DEF Prefixes
<1>3. ASSUME NEW d \in Prefixes(s) PROVE d \in Prefixes(Append(s, x))
  <2>1. PICK n \in 1 .. Len(s) : d = SubSeq(s, 1, n)
    BY DEF Prefixes
  <2>2. n \in 1 .. Len(Append(s, x))
    BY <1>1
  <2> QED BY <1>1, <2>1, <2>2 DEF Prefixes
<1>4. Append(s, x) \in Prefixes(Append(s, x))
  <2>1. Len(s) + 1 \in 1 .. Len(Append(s, x))
    BY <1>1
  <2> QED BY <1>1, <2>1 DEF Prefixes
<1> QED BY <1>2, <1>3, <1>4

(* The digest a caller is about to append, and the chain it makes.         *)
LEMMA Extended ==
  ASSUME AuditSafe, NEW t \in Threads, pc[t] \in {"entry", "audithead"}
  PROVE  Prefixes(aud[t]) = Prefixes(auditHead) \cup {aud[t]}
<1>1. req[t].at \in 1 .. MaxAudits
  BY ReqFields DEF AuditSafe, CallInv, CallOK
<1>2. auditHead \in Seq(1 .. MaxAudits) /\ aud[t] = Append(auditHead, req[t].at)
  BY DEF AuditSafe, AuditInv, TypeOK, FilesTypeOK
<1>3. PICK h \in Seq(1 .. MaxAudits), x \in 1 .. MaxAudits : h = auditHead /\ x = req[t].at
  BY <1>1, <1>2
<1>4. Prefixes(Append(h, x)) = Prefixes(h) \cup {Append(h, x)}
  BY PrefixesAppend
<1> QED BY <1>2, <1>3, <1>4

(* The numbers that are compared are numbers.                              *)
LEMMA Counts ==
  ASSUME AuditSafe
  PROVE  /\ stops \in Nat
         /\ \A d : IsFiniteSet(Beside(d)) /\ Cardinality(Beside(d)) \in Nat
<1>1. stops \in Nat
  BY LedgerAssumption DEF AuditSafe, TypeOK, FilesTypeOK
<1>2. ASSUME NEW d PROVE IsFiniteSet(Beside(d))
  BY FS_Subset DEF AuditSafe, AuditInv, Beside
<1> QED BY <1>1, <1>2, FS_CardinalityType

(* The writer is alone: whoever steps past its call is the only one past   *)
(* its call.                                                               *)
LEMMA OthersWait ==
  ASSUME SingleStore, AuditSafe, NEW t \in Threads, Step(t) \/ Stop(t)
  PROVE  \A u \in Threads \ {t} :
           pc[u] \notin {"entry", "audithead"} /\ pc'[u] = pc[u]
<1>1. pc[t] \notin {"idle", "called"} \/ mu[StoreOf[t]] = NoThread
  BY DEF Step, Stop, Recover, RecoverRead, RecoverRedo, RecoverDrop, RecoverDone,
         AppendEvent, AppendCheck, AppendLoad, WriteRequest, WriteResponse,
         WritePending, WriteEvent, WriteHead, RemovePending, AppendAudit,
         AuditStart, WriteAudit, WriteAuditHead, Lock
<1>2. \A u \in Threads \ {t} : pc[u] \in {"idle", "called"}
  BY <1>1, Alone DEF AuditSafe
<1>3. \A u \in Threads \ {t} : pc'[u] = pc[u]
  BY Frame DEF AuditSafe
<1> QED BY <1>2, <1>3

(* Steps that leave the audit files alone and are not of an audit entry.   *)
LEMMA AuditQuiet ==
  ASSUME AuditSafe, audit' = audit, auditHead' = auditHead, stops' = stops,
         \A u \in Threads : /\ pc'[u] \in {"entry", "audithead"} <=> pc[u] \in {"entry", "audithead"}
                            /\ pc'[u] = "audithead" <=> pc[u] = "audithead"
                            /\ pc[u] \in {"entry", "audithead"} =>
                                 aud'[u] = aud[u] /\ req'[u] = req[u]
  PROVE  AuditInv'
<1>1. \A d : Beside(d)' = audit \ Prefixes(d)'
  BY DEF Beside
<1>2. ASSUME NEW u \in Threads, pc'[u] \in {"entry", "audithead"}
      PROVE  aud'[u] = Append(auditHead', req'[u].at)
  BY <1>2 DEF AuditSafe, AuditInv
<1>3. ASSUME NEW u \in Threads, pc'[u] = "audithead"
      PROVE  aud'[u] \in audit' /\ Cardinality(Beside(aud[u])) <= stops' /\ aud'[u] = aud[u]
  BY <1>3 DEF AuditSafe, AuditInv
<1>4. (\A u \in Threads : pc'[u] # "audithead") =>
        Cardinality(Beside(auditHead)) <= stops'
  BY DEF AuditSafe, AuditInv
<1>5. IsFiniteSet(audit') /\ Prefixes(auditHead)' \subseteq audit'
  BY DEF AuditSafe, AuditInv, Prefixes
<1> QED BY <1>2, <1>3, <1>4, <1>5 DEF AuditInv, Beside, Prefixes

(* One step keeps the audit chain.                                         *)
LEMMA AuditStep ==
  ASSUME SingleStore, AuditSafe, [Next]_vars
  PROVE  AuditInv'
<1> USE DEF Goto, Return
<1>a. pc \in [Threads -> Labels] /\ aud \in [Threads -> Seq(1 .. MaxAudits)]
      /\ req \in [Threads -> Calls \cup {NoReq}]
  BY DEF AuditSafe, TypeOK, CallTypeOK
<1>1. CASE UNCHANGED vars
  BY <1>1, AuditQuiet DEF vars
<1>2. ASSUME NEW t \in Threads, Call(t)
      PROVE  AuditInv'
  BY <1>2, <1>a, AuditQuiet DEF Call, auditFiles
<1>3. ASSUME NEW t \in Threads, Recover(t) \/ AppendEvent(t)
      PROVE  AuditInv'
  <2>1. \A u \in Threads \ {t} : pc'[u] = pc[u] /\ aud'[u] = aud[u] /\ req'[u] = req[u]
    BY <1>3, Frame DEF AuditSafe, Step
  <2>2. CASE Recover(t)
    <3>1. req[t].op # "audit"
      BY <2>2 DEF Recover, RecoverRead, RecoverRedo, RecoverDrop, RecoverDone,
                  AuditSafe, CallInv, CallOK
    <3>2. /\ pc[t] \notin {"entry", "audithead"} /\ pc'[t] \notin {"entry", "audithead"}
          /\ audit' = audit /\ auditHead' = auditHead /\ stops' = stops
      BY <1>a, <2>2 DEF Recover, RecoverRead, RecoverRedo, RecoverDrop, RecoverDone,
                        Lock, auditFiles
    <3> QED BY <2>1, <3>2, AuditQuiet
  <2>3. CASE AppendEvent(t)
    <3>2. /\ pc[t] \notin {"entry", "audithead"} /\ pc'[t] \notin {"entry", "audithead"}
          /\ audit' = audit /\ auditHead' = auditHead /\ stops' = stops
      BY <1>a, <2>3 DEF AppendEvent, AppendCheck, AppendLoad, WriteRequest, WriteResponse,
                        WritePending, WriteEvent, WriteHead, RemovePending, auditFiles
    <3> QED BY <2>1, <3>2, AuditQuiet
  <2> QED BY <1>3, <2>2, <2>3
<1>4. ASSUME NEW t \in Threads, AuditStart(t)
      PROVE  AuditInv'
  <2>1. \A u \in Threads \ {t} : pc[u] \notin {"entry", "audithead"} /\ pc'[u] = pc[u]
    BY <1>4, OthersWait DEF Step, AppendAudit
  <2>2. /\ pc[t] = "called" /\ pc'[t] = "entry" /\ req' = req
        /\ aud'[t] = Append(auditHead, req[t].at)
        /\ audit' = audit /\ auditHead' = auditHead /\ stops' = stops
    BY <1>a, <1>4 DEF AuditStart, Lock, auditFiles
  <2>3. \A u \in Threads : pc[u] # "audithead" /\ pc'[u] # "audithead"
    BY <2>1, <2>2
  <2>4. Cardinality(Beside(auditHead)) <= stops
    BY <2>3 DEF AuditSafe, AuditInv
  <2>5. IsFiniteSet(audit) /\ Prefixes(auditHead) \subseteq audit
    BY DEF AuditSafe, AuditInv
  <2> QED BY <2>1, <2>2, <2>3, <2>4, <2>5 DEF AuditInv, Beside, Prefixes
<1>5. ASSUME NEW t \in Threads, WriteAudit(t)
      PROVE  AuditInv'
  <2>1. \A u \in Threads \ {t} : pc[u] \notin {"entry", "audithead"} /\ pc'[u] = pc[u]
    BY <1>5, OthersWait DEF Step, AppendAudit
  <2>2. /\ pc[t] = "entry" /\ pc'[t] = "audithead" /\ req' = req /\ aud' = aud
        /\ audit' = audit \cup {aud[t]} /\ auditHead' = auditHead /\ stops' = stops
    BY <1>a, <1>5 DEF WriteAudit, eventFiles
  <2>3. /\ aud[t] = Append(auditHead, req[t].at)
        /\ Cardinality(Beside(auditHead)) <= stops
    BY <2>1, <2>2 DEF AuditSafe, AuditInv
  <2>4. IsFiniteSet(audit') /\ Prefixes(auditHead) \subseteq audit'
    BY <2>2, FS_AddElement DEF AuditSafe, AuditInv
  <2>5. audit' \ Prefixes(aud[t]) \subseteq Beside(auditHead)
    BY <2>2, Extended DEF Beside
  <2>6. Cardinality(audit' \ Prefixes(aud[t])) <= stops
    <3>1. IsFiniteSet(Beside(auditHead)) /\ Cardinality(Beside(auditHead)) \in Nat /\ stops \in Nat
      BY Counts
    <3>2. /\ IsFiniteSet(audit' \ Prefixes(aud[t]))
          /\ Cardinality(audit' \ Prefixes(aud[t])) <= Cardinality(Beside(auditHead))
      BY <2>5, <3>1, FS_Subset
    <3>3. Cardinality(audit' \ Prefixes(aud[t])) \in Nat
      BY <3>2, FS_CardinalityType
    <3> QED BY <2>3, <3>1, <3>2, <3>3
  <2>7. \A u \in Threads : pc'[u] \in {"entry", "audithead"} => u = t
    BY <2>1
  <2> QED BY <2>2, <2>3, <2>4, <2>6, <2>7 DEF AuditInv, Beside, Prefixes
<1>6. ASSUME NEW t \in Threads, WriteAuditHead(t)
      PROVE  AuditInv'
  <2>1. \A u \in Threads \ {t} : pc[u] \notin {"entry", "audithead"} /\ pc'[u] = pc[u]
    BY <1>6, OthersWait DEF Step, AppendAudit
  <2>2. /\ pc[t] = "audithead" /\ pc'[t] = "idle"
        /\ audit' = audit /\ auditHead' = aud[t] /\ stops' = stops
    BY <1>a, <1>6 DEF WriteAuditHead, eventFiles
  <2>3. aud[t] \in audit /\ Cardinality(Beside(aud[t])) <= stops
    BY <2>2 DEF AuditSafe, AuditInv
  <2>4. Prefixes(aud[t]) \subseteq audit /\ IsFiniteSet(audit)
    BY <2>2, <2>3, Extended DEF AuditSafe, AuditInv
  <2>7. \A u \in Threads : pc'[u] \notin {"entry", "audithead"}
    BY <2>1, <2>2
  <2> QED BY <2>2, <2>3, <2>4, <2>7 DEF AuditInv, Beside, Prefixes
<1>7. ASSUME NEW t \in Threads, Stop(t)
      PROVE  AuditInv'
  <2>1. \A u \in Threads \ {t} : pc[u] \notin {"entry", "audithead"} /\ pc'[u] = pc[u]
    BY <1>7, OthersWait
  <2>2. /\ pc'[t] = "idle" /\ audit' = audit /\ auditHead' = auditHead /\ stops' = stops + 1
    BY <1>a, <1>7 DEF Stop, auditFiles
  <2>3. \A u \in Threads : pc'[u] \notin {"entry", "audithead"}
    BY <2>1, <2>2
  <2>4. Cardinality(Beside(auditHead)) <= stops + 1
    <3>1. CASE pc[t] # "audithead"
      <4>1. Cardinality(Beside(auditHead)) <= stops
        BY <2>1, <3>1 DEF AuditSafe, AuditInv
      <4> QED BY <4>1, Counts
    <3>2. CASE pc[t] = "audithead"
      <4>1. Cardinality(Beside(aud[t])) <= stops
        BY <3>2 DEF AuditSafe, AuditInv
      <4>2. Beside(auditHead) \subseteq Beside(aud[t]) \cup {aud[t]}
        BY <3>2, Extended DEF Beside
      <4>3. /\ IsFiniteSet(Beside(aud[t])) /\ Cardinality(Beside(aud[t])) \in Nat
            /\ Cardinality(Beside(auditHead)) \in Nat /\ stops \in Nat
        BY Counts
      <4>4. /\ IsFiniteSet(Beside(aud[t]) \cup {aud[t]})
            /\ Cardinality(Beside(aud[t]) \cup {aud[t]}) <= Cardinality(Beside(aud[t])) + 1
            /\ Cardinality(Beside(aud[t]) \cup {aud[t]}) \in Nat
        BY <4>3, FS_AddElement
      <4>5. Cardinality(Beside(auditHead)) <= Cardinality(Beside(aud[t]) \cup {aud[t]})
        BY <4>2, <4>4, FS_Subset
      <4> QED BY <4>1, <4>3, <4>4, <4>5
    <3> QED BY <3>1, <3>2
  <2>5. IsFiniteSet(audit) /\ Prefixes(auditHead) \subseteq audit
    BY DEF AuditSafe, AuditInv
  <2> QED BY <2>2, <2>3, <2>4, <2>5 DEF AuditInv, Beside, Prefixes
<1> QED BY <1>1, <1>2, <1>3, <1>4, <1>5, <1>6, <1>7 DEF Next, Step, AppendAudit

LEMMA AuditInit == Init => AuditInv
<1> SUFFICES ASSUME Init PROVE AuditInv
  OBVIOUS
<1>1. Prefixes(auditHead) = {}
  BY DEF Init, Prefixes
<1>2. Beside(auditHead) = {} /\ IsFiniteSet(audit)
  BY FS_EmptySet DEF Init, Beside
<1>3. Cardinality(Beside(auditHead)) = 0 /\ stops = 0
  BY <1>2, FS_EmptySet DEF Init
<1>4. \A t \in Threads : pc[t] = "idle"
  BY DEF Init
<1> QED BY <1>1, <1>2, <1>3, <1>4 DEF AuditInv

(* With one process, wherever calls are cut off: both snapshots before the *)
(* event, head.json never to another history, and an audit chain that is   *)
(* whole up to audit-head.json, with no more entries beside it than calls  *)
(* of AppendAudit were cut off between the entry and the head.             *)
THEOREM StoreHolds == SingleStore => (Spec => StoreKept)
<1> SUFFICES ASSUME SingleStore PROVE Spec => StoreKept
  OBVIOUS
<1>1. Init => AuditSafe
  BY SafeInit, AuditInit DEF AuditSafe, Safe
<1>2. (Safe /\ AuditSafe) /\ [Next]_vars => AuditSafe'
  BY AuditStep, SafeStep DEF AuditSafe, Safe
<1>3. AuditSafe => AuditForksAreStops
  BY DEF AuditSafe, AuditInv, AuditForksAreStops, AuditOrphans, Beside
<1>4. Safe => SnapshotsFirst
  BY DEF Safe
<1>5. Spec => HeadOnlyExtends
  BY HeadMonotone
<1> QED BY <1>1, <1>2, <1>3, <1>4, <1>5, SafeInit, SafeStep, PTL DEF Spec, StoreKept

-----------------------------------------------------------------------------
(* What a step does to the abstract log.                                   *)
LEMMA LogStep ==
  ASSUME OneInv, NEW t \in Threads, Call(t) \/ Step(t) \/ Stop(t)
  PROVE  Log!Next \/ (History' = History /\ told' = told)
<1>1. Same \/ Redo \/ Drop \/ (\E i \in Inputs : Mark(i) \/ Commit(i))
  BY Kinds
<1>2. ASSUME NEW i \in Inputs, Commit(i)
      PROVE  Log!Record(i)
  <2>1. History = head /\ History' = Append(History, i) /\ events[IdOf[i]] = None
    BY <1>2, HistoryKinds DEF Commit
  <2>2. PICK h \in Seq(Inputs) : h = History
    BY <2>1 DEF OneInv, Safe, TypeOK, FilesTypeOK, Chains
  <2>3. ASSUME NEW n \in 1 .. Len(h)
        PROVE  IdOf[h[n]] # IdOf[i]
    <3>1. events[IdOf[h[n]]] = SubSeq(h, 1, n)
      BY <2>2 DEF OneInv, ChainInv
    <3>2. SubSeq(h, 1, n) \in Chains
      BY PrefixFacts DEF Chains
    <3> QED BY <2>1, <3>1, <3>2, LedgerAssumption
  <2>4. told' = told
    <3>1. events' # events
      <4>1. IdOf[i] \in Ids /\ pending # None /\ events \in [Ids -> Chains \cup {None}]
        <5>1. Append(head, i) \in Chains
          BY AppendFacts DEF OneInv, Safe, TypeOK, FilesTypeOK, Chains
        <5> QED BY <1>2, <5>1, InputTypes, LedgerAssumption
                DEF Commit, OneInv, Safe, TypeOK, FilesTypeOK
      <4>2. events'[IdOf[i]] = pending /\ events[IdOf[i]] = None
        BY <1>2, <4>1 DEF Commit
      <4> QED BY <4>1, <4>2
    <3> QED BY <3>1 DEF Call, Step, Stop, Recover, RecoverRead, RecoverRedo, RecoverDrop,
                RecoverDone, AppendEvent, AppendCheck, AppendLoad, WriteRequest,
                WriteResponse, WritePending, WriteEvent, WriteHead, RemovePending,
                AppendAudit, AuditStart, WriteAudit, WriteAuditHead, eventFiles
  <2> QED BY <2>1, <2>2, <2>3, <2>4 DEF Log!Record
<1>3. ASSUME History' = History, told' # told
      PROVE  \E n \in 1 .. Len(History) : Log!Tell(n)
  <2>1. PICK id \in Ids : events[id] # None /\ told' = told \cup {events[id]}
    <3>1. CallOK(t) /\ FreshOK(t) /\ TypeOK /\ CallInv
      BY DEF OneInv, Safe, CallInv, FreshInv
    <3>2. CASE AppendCheck(t)
      BY <1>3, <3>1, <3>2, ReqFields, InputTypes DEF AppendCheck
    <3>3. CASE RemovePending(t)
      BY <3>1, <3>3, ReqFields, InputTypes
         DEF RemovePending, CallOK, FreshOK, Appending
    <3>4. AppendCheck(t) \/ RemovePending(t)
      BY <1>3 DEF Call, Step, Stop, Recover, RecoverRead, RecoverRedo, RecoverDrop,
                RecoverDone, AppendEvent, AppendLoad, WriteRequest, WriteResponse,
                WritePending, WriteEvent, WriteHead, AppendAudit, AuditStart,
                WriteAudit, WriteAuditHead
    <3> QED BY <3>2, <3>3, <3>4
  <2>2. PICK e \in Seq(Inputs) : e = events[id] /\ e # <<>>
    BY <2>1 DEF OneInv, Safe, FileInv, TypeOK, FilesTypeOK, Chains
  <2>3. PICK h \in Seq(Inputs) : h = History
    BY DEF OneInv, Safe, TypeOK, FilesTypeOK, Chains, History
  <2>4. Len(e) \in 1 .. Len(h) /\ e = SubSeq(h, 1, Len(e))
    BY <2>1, <2>2, <2>3 DEF OneInv, ChainInv
  <2> QED BY <1>3, <2>1, <2>2, <2>3, <2>4 DEF Log!Tell
<1>4. CASE \E i \in Inputs : Commit(i)
  BY <1>2, <1>4 DEF Log!Next
<1>5. CASE Same \/ Redo \/ Drop \/ \E i \in Inputs : Mark(i)
  <2>1. History' = History
    BY <1>5, HistoryKinds
  <2> QED BY <1>3, <2>1 DEF Log!Next
<1> QED BY <1>1, <1>4, <1>5

(* With one process, the ledger with its marker, its recoveries and its    *)
(* interrupted calls is the append-only log: every event enters once, at   *)
(* the end, at the moment its file is written, and callers are told        *)
(* beginnings of that log only.                                            *)
THEOREM Refinement == SingleStore => (Spec => ImplementsAppendLog)
<1> SUFFICES ASSUME SingleStore PROVE Spec => Log!Spec
  BY DEF ImplementsAppendLog
<1>1. OneInv /\ [Next]_vars => OneInv'
  BY OneStep
<1>2. Init => Log!Init
  BY DEF Init, Log!Init, History
<1>3. OneInv /\ [Next]_vars => [Log!Next]_(Log!vars)
  <2> SUFFICES ASSUME OneInv, [Next]_vars PROVE [Log!Next]_(Log!vars)
    OBVIOUS
  <2>1. CASE UNCHANGED vars
    BY <2>1 DEF vars, Log!vars, History, FileOf
  <2>2. ASSUME NEW t \in Threads, Call(t) \/ Step(t) \/ Stop(t)
        PROVE  [Log!Next]_(Log!vars)
    BY <2>2, LogStep DEF Log!vars
  <2> QED BY <2>1, <2>2 DEF Next
<1> QED BY <1>1, <1>2, <1>3, OneInit, PTL DEF Spec, Log!Spec
=============================================================================
