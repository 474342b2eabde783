----------------------------- MODULE Promotion -----------------------------
(***************************************************************************)
(* Controlled promotion, internal/activationpromotion: a state machine     *)
(* over promotion.json with an audit chain and a pending transaction, and  *)
(* the activation pointer it moves through internal/scoringactivation.     *)
(*                                                                         *)
(* Commands exclude each other by the file .lock (O_EXCL): one that finds  *)
(* it returns an error at once and does nothing, so there is at most one   *)
(* in progress.  A command that returns removes the file, one that dies    *)
(* leaves it.  Commands that fail a check change nothing and are left out. *)
(*                                                                         *)
(* promotion.json is never removed, so a directory has one promotion, and  *)
(* acks/, reports/ and observations/ are those of its intent.  Documents   *)
(* carry the time they were written: writing one a second time finds other *)
(* bytes.  An audit event's digest is the sequence of events it covers.    *)
(***************************************************************************)
EXTENDS Integers, Sequences, FiniteSets

CONSTANTS Intents,         \* intent IDs operators may choose
          Instances,       \* runtime instances that acknowledge
          RequiredAcks,    \* required_ready_acks
          Observations,    \* shadow comparisons
          Blocking,        \* the summaries (sets of them) beyond a threshold
          Operators,       \* how the directory may be operated, see Recovering and Exposed
          MaxRevision, MaxCuts,
          Base, Candidate, \* the active activation and the staged one
          Manager,         \* the promotion manager as a user of the pointer
          Ids, None

Phases    == {"prepared", "validated", "blocked", "canary", "promoted", "rolled_back"}
Revisions == 1 .. MaxRevision + 3
States    == [intent : Intents, rev : Revisions, phase : Phases,
              cur : Ids, cand : Ids, report : SUBSET Observations]
Entries   == [kind : Phases, intent : Intents, rev : Revisions]
               \cup [kind : {"ack"}, instance : Instances]
Pendings  == [state : States, event : Seq(Entries)]

VARIABLES
  operators,     \* "careful", "unlucky" or "careless"
  activations, active, journal, sound, pc, op, doc, prev, stops,
  lock,          \* .lock exists
  intents,       \* intents/<id>.json
  snapshots,     \* states/<intent>/<revision>.json
  state,         \* promotion.json, or None
  pending,       \* pending.json: the target state and its audit event, or None
  audit,         \* audit/<seq>-<sha>.json
  auditHead,     \* audit-head.json
  acks,          \* acks/<intent>/<instance>.json
  observations, reports,
  summaries,     \* the summary files operators hold
  step,          \* where the command in progress is
  next,          \* the state it commits, or None
  event,         \* the audit event it appends
  ack,           \* the acknowledgement it records
  cuts

pointerVars == <<activations, active, journal, sound, pc, op, doc, prev, stops>>
chainVars   == <<audit, auditHead>>
evidence    == <<acks, observations, reports, summaries>>
vars == <<operators, pointerVars, lock, intents, snapshots, state, pending, chainVars, evidence,
          step, next, event, ack, cuts>>

Pointer == INSTANCE ScoringActivation WITH
  Callers <- {Manager}, OpsOf <- [c \in {Manager} |-> {"promote"}],
  MaxDamage <- 0, MaxStops <- MaxCuts

\* what an instance's constants satisfy; PackageUse assumes it
ConstantsFit ==
  /\ RequiredAcks \in Nat /\ MaxRevision \in Nat /\ MaxCuts \in Nat
  /\ Blocking \subseteq SUBSET Observations /\ IsFiniteSet(Instances)
  /\ Operators \subseteq {"careful", "unlucky", "careless"}
  /\ {Base, Candidate} \subseteq Ids /\ Base # Candidate
  /\ None \notin Ids /\ None \notin Pointer!Docs /\ None \notin States /\ None \notin Pendings

NoAck == [instance |-> None, status |-> "none"]

(* Careful operators run recover before other commands, and a command is   *)
(* cut off in a transaction only, by an error.  Unlucky ones do the same,  *)
(* and a command may be cut off where it has moved the pointer.  Careless  *)
(* ones may leave a transaction pending, and a command is cut off anywhere *)
(* or dies, so that its lock stays.                                        *)
Recovering == operators \in {"careful", "unlucky"}

(* Base is active and Candidate is staged behind it.                       *)
Init ==
  /\ operators \in Operators
  /\ activations = [id \in Ids |->
       CASE id = Base      -> [id |-> id, prev |-> None, paths |-> "relative"]
         [] id = Candidate -> [id |-> id, prev |-> Base, paths |-> "absolute"]
         [] OTHER          -> None]
  /\ active = activations[Base]
  /\ journal = None /\ sound = Ids /\ stops = 0
  /\ pc = [c \in {Manager} |-> "idle"] /\ op = [c \in {Manager} |-> "none"]
  /\ doc = [c \in {Manager} |-> None] /\ prev = [c \in {Manager} |-> None]
  /\ lock = FALSE
  /\ intents = {} /\ snapshots = {} /\ state = None /\ pending = None
  /\ audit = {} /\ auditHead = <<>>
  /\ acks = [k \in Instances |-> "none"]
  /\ observations = {} /\ reports = {} /\ summaries = {}
  /\ step = "idle" /\ next = None /\ event = <<>> /\ ack = NoAck
  /\ cuts = 0

-----------------------------------------------------------------------------
(* m.lock() succeeds; the commands other than Recover do not look at       *)
(* pending.json, so whether they wait for Recover is up to the operators.  *)
Free == ~ lock /\ (Recovering => pending = None)

Take(s, l) == lock' = TRUE /\ next' = s /\ step' = l

Release ==
  /\ lock' = FALSE /\ step' = "idle"
  /\ next' = None /\ event' = <<>> /\ ack' = NoAck

InPhase(ps) == state # None /\ state.phase \in ps

Advance(phase) == [state EXCEPT !.rev = @ + 1, !.phase = phase]

Ready == {k \in Instances : acks[k] = "ready"}

Prepare ==
  /\ Free /\ state = None
  /\ active # None /\ active.id \in sound
  /\ \E i \in Intents, id \in sound \ {active.id} :
       /\ activations[id] # None /\ activations[id].prev = active.id
       /\ Take([intent |-> i, rev |-> 1, phase |-> "prepared", cur |-> active.id,
                cand |-> id, report |-> {}], "intent")
  /\ UNCHANGED <<pointerVars, intents, snapshots, state, pending, chainVars, evidence,
                 event, ack, cuts>>

(* An intent ID that was used before is refused.                           *)
WriteIntent ==
  /\ step = "intent"
  /\ \/ next.intent \in intents /\ Release /\ UNCHANGED intents
     \/ /\ next.intent \notin intents
        /\ intents' = intents \cup {next.intent}
        /\ step' = "snapshot" /\ UNCHANGED <<lock, next, event, ack>>
  /\ UNCHANGED <<pointerVars, snapshots, state, pending, chainVars, evidence, cuts>>

(* Mutant: a summary beyond a threshold does not block.                    *)
Evaluate_Passes ==
  /\ Free /\ InPhase({"prepared", "validated", "blocked"}) /\ state.rev < MaxRevision
  /\ \E s \in summaries :
       Take([Advance("validated") EXCEPT !.report = s], "report")
  /\ UNCHANGED <<pointerVars, intents, snapshots, state, pending, chainVars, evidence,
                 event, ack, cuts>>

Evaluate ==
  /\ Free /\ InPhase({"prepared", "validated", "blocked"}) /\ state.rev < MaxRevision
  /\ \E s \in summaries :
       Take([Advance(IF s \in Blocking THEN "blocked" ELSE "validated")
               EXCEPT !.report = s], "report")
  /\ UNCHANGED <<pointerVars, intents, snapshots, state, pending, chainVars, evidence,
                 event, ack, cuts>>

WriteReport ==
  /\ step = "report"
  /\ reports' = reports \cup {next.report}
  /\ step' = "snapshot"
  /\ UNCHANGED <<pointerVars, lock, intents, snapshots, state, pending, chainVars, acks,
                 observations, summaries, next, event, ack, cuts>>

StartCanary ==
  /\ Free /\ InPhase({"validated"})
  /\ Take(Advance("canary"), "snapshot")
  /\ UNCHANGED <<pointerVars, intents, snapshots, state, pending, chainVars, evidence,
                 event, ack, cuts>>

(* Promote and Rollback move the pointer first; "moving" lasts until       *)
(* PromoteExisting returns.                                                *)
Promote ==
  /\ Free /\ InPhase({"canary"})
  /\ Cardinality(Ready) >= RequiredAcks
  /\ Take(Advance("promoted"), "moving")
  /\ Pointer!PromoteExisting(Manager, state.cand, state.cur)
  /\ UNCHANGED <<intents, snapshots, state, pending, chainVars, evidence, event, ack, cuts>>

Rollback ==
  /\ Free /\ InPhase({"promoted"})
  /\ Take(Advance("rolled_back"), "moving")
  /\ Pointer!PromoteExisting(Manager, state.cur, state.cand)
  /\ UNCHANGED <<intents, snapshots, state, pending, chainVars, evidence, event, ack, cuts>>

Move ==
  /\ step = "moving"
  /\ Pointer!Continue(Manager)
  /\ step' = IF pc'[Manager] = "idle" THEN "snapshot" ELSE "moving"
  /\ UNCHANGED <<lock, intents, snapshots, state, pending, chainVars, evidence, next, event,
                 ack, cuts>>

-----------------------------------------------------------------------------
(* commitState: the revision's snapshot, which is refused when that        *)
(* revision was written before, ...                                        *)
WriteSnapshot ==
  /\ step = "snapshot"
  /\ LET revision == <<next.intent, next.rev>>
     IN \/ revision \in snapshots /\ Release /\ UNCHANGED snapshots
        \/ /\ revision \notin snapshots
           /\ snapshots' = snapshots \cup {revision}
           /\ event' = Append(auditHead, [kind |-> next.phase, intent |-> next.intent,
                                          rev |-> next.rev])
           /\ step' = "pending" /\ UNCHANGED <<lock, next, ack>>
  /\ UNCHANGED <<pointerVars, intents, state, pending, chainVars, evidence, cuts>>

(* Mutant: the transaction is not written down.                            *)
WritePending_Skipped ==
  /\ step = "pending"
  /\ step' = "entry"
  /\ UNCHANGED <<pointerVars, lock, intents, snapshots, state, pending, chainVars, evidence,
                 next, event, ack, cuts>>

(* ... the pending transaction, ...                                        *)
WritePending ==
  /\ step = "pending"
  /\ pending' = [state |-> next, event |-> event]
  /\ step' = "entry"
  /\ UNCHANGED <<pointerVars, lock, intents, snapshots, state, chainVars, evidence, next,
                 event, ack, cuts>>

(* Mutant: an event that the head is at already is refused too.            *)
AppendEntry_NoReplay ==
  /\ step = "entry"
  /\ \/ /\ SubSeq(event, 1, Len(event) - 1) # auditHead
        /\ Release /\ UNCHANGED audit
     \/ /\ SubSeq(event, 1, Len(event) - 1) = auditHead
        /\ audit' = audit \cup {event}
        /\ step' = "head" /\ UNCHANGED <<lock, next, event, ack>>
  /\ UNCHANGED <<pointerVars, intents, snapshots, state, pending, auditHead, evidence, cuts>>

(* ... the audit event, unless the head is at it already or has gone       *)
(* another way, ...                                                        *)
AppendEntry ==
  /\ step = "entry"
  /\ \/ /\ auditHead = event
        /\ step' = "state" /\ UNCHANGED <<lock, next, event, ack, audit>>
     \/ /\ auditHead # event /\ SubSeq(event, 1, Len(event) - 1) # auditHead
        /\ Release /\ UNCHANGED audit
     \/ /\ SubSeq(event, 1, Len(event) - 1) = auditHead
        /\ audit' = audit \cup {event}
        /\ step' = "head" /\ UNCHANGED <<lock, next, event, ack>>
  /\ UNCHANGED <<pointerVars, intents, snapshots, state, pending, auditHead, evidence, cuts>>

WriteHead ==
  /\ step = "head"
  /\ auditHead' = event
  /\ IF next = None THEN Release
     ELSE step' = "state" /\ UNCHANGED <<lock, next, event, ack>>
  /\ UNCHANGED <<pointerVars, intents, snapshots, state, pending, audit, evidence, cuts>>

(* ... and promotion.json.                                                 *)
WriteState ==
  /\ step = "state"
  /\ state' = next
  /\ step' = "clear"
  /\ UNCHANGED <<pointerVars, lock, intents, snapshots, pending, chainVars, evidence, next,
                 event, ack, cuts>>

ClearPending ==
  /\ step = "clear"
  /\ pending' = None
  /\ Release
  /\ UNCHANGED <<pointerVars, intents, snapshots, state, chainVars, evidence, cuts>>

Recover ==
  /\ ~ lock /\ pending # None
  /\ Take(pending.state, "entry")
  /\ event' = pending.event
  /\ UNCHANGED <<pointerVars, intents, snapshots, state, pending, chainVars, evidence, ack,
                 cuts>>

-----------------------------------------------------------------------------
Acknowledge ==
  /\ Free /\ InPhase({"canary", "validated"})
  /\ Take(None, "ack")
  /\ ack' \in [instance : Instances, status : {"ready", "not_ready"}]
  /\ UNCHANGED <<pointerVars, intents, snapshots, state, pending, chainVars, evidence, event,
                 cuts>>

(* An instance acknowledges once.                                          *)
WriteAck ==
  /\ step = "ack"
  /\ \/ acks[ack.instance] # "none" /\ Release /\ UNCHANGED acks
     \/ /\ acks[ack.instance] = "none"
        /\ acks' = [acks EXCEPT ![ack.instance] = ack.status]
        /\ event' = Append(auditHead, [kind |-> "ack", instance |-> ack.instance])
        /\ step' = "entry" /\ UNCHANGED <<lock, next, ack>>
  /\ UNCHANGED <<pointerVars, intents, snapshots, state, pending, chainVars, observations,
                 reports, summaries, cuts>>

(* RecordObservation and SummarizeObservations; Evaluate refuses a summary *)
(* without screening items.                                                *)
RecordObservation ==
  /\ Free /\ InPhase({"prepared", "validated", "canary"})
  /\ \E o \in Observations \ observations : observations' = observations \cup {o}
  /\ UNCHANGED <<pointerVars, lock, intents, snapshots, state, pending, chainVars, acks,
                 reports, summaries, step, next, event, ack, cuts>>

SummarizeObservations ==
  /\ Free /\ state # None /\ observations # {}
  /\ observations \notin summaries
  /\ summaries' = summaries \cup {observations}
  /\ UNCHANGED <<pointerVars, lock, intents, snapshots, state, pending, chainVars, acks,
                 observations, reports, step, next, event, ack, cuts>>

-----------------------------------------------------------------------------
Exposed == \/ operators = "careful" /\ step \in {"entry", "head", "state", "clear"} /\ next # None
           \/ operators = "unlucky" /\ step = "moving"
           \/ operators = "careless" /\ step # "idle"

(* A file operation fails and the error is returned, or the process dies   *)
(* and .lock stays.                                                        *)
Cut(dies) ==
  /\ Exposed /\ cuts < MaxCuts /\ cuts' = cuts + 1
  /\ step' = "idle" /\ next' = None /\ event' = <<>> /\ ack' = NoAck
  /\ lock' = dies
  /\ IF pc[Manager] = "idle" THEN UNCHANGED pointerVars ELSE Pointer!Stop(Manager)
  /\ UNCHANGED <<intents, snapshots, state, pending, chainVars, evidence>>

Fail  == Cut(FALSE)
Crash == operators = "careless" /\ Cut(TRUE)

Commit == \/ WriteSnapshot \/ WritePending \/ AppendEntry \/ WriteHead
          \/ WriteState \/ ClearPending

\* what a command in progress does next
InProgress == WriteIntent \/ WriteReport \/ Move \/ WriteAck \/ Commit

\* what careful operators do about a transaction that was cut off
Complete == operators = "careful" /\ Recover

Next ==
  /\ UNCHANGED operators
  /\ \/ Prepare \/ Evaluate \/ StartCanary \/ Promote \/ Rollback \/ Recover
     \/ Acknowledge \/ RecordObservation \/ SummarizeObservations
     \/ InProgress \/ Fail \/ Crash

Spec == Init /\ [][Next]_vars

-----------------------------------------------------------------------------
Steps == {"idle", "intent", "report", "moving", "snapshot", "pending", "entry", "head",
          "state", "clear", "ack"}

(* The type invariant.                                                     *)
TypeOK ==
  /\ lock \in BOOLEAN /\ step \in Steps
  /\ intents \subseteq Intents /\ snapshots \subseteq Intents \X Revisions
  /\ state \in States \cup {None} /\ next \in States \cup {None}
  /\ pending \in Pendings \cup {None}
  /\ audit \subseteq Seq(Entries) /\ auditHead \in Seq(Entries) /\ event \in Seq(Entries)
  /\ acks \in [Instances -> {"none", "ready", "not_ready"}]
  /\ observations \subseteq Observations
  /\ reports \subseteq SUBSET Observations /\ summaries \subseteq SUBSET Observations
  /\ cuts \in 0 .. MaxCuts
  /\ Pointer!TypeOK

(* VerifyAudit, which the verify-audit command runs without the lock,      *)
(* accepts the chain at every moment: each sequence number up to the       *)
(* head's has one event file, and they are the events the head commits to. *)
AuditVerifies ==
  \A n \in 1 .. Len(auditHead) :
    {e \in audit : Len(e) = n} = {SubSeq(auditHead, 1, n)}

Settled == ~ lock /\ pending = None /\ state # None

(* Between commands, the audit chain tells how promotion.json came about:  *)
(* its transitions are the revisions 1, 2, ... up to the current one, each *)
(* once, although transactions were cut off and recovered.                 *)
Tells(chain, s) ==
  LET told == {i \in DOMAIN chain : chain[i].kind # "ack"} IN
  /\ \A i \in told : chain[i].rev \in 1 .. s.rev
  /\ \A i, j \in told : i < j => chain[i].rev < chain[j].rev
  /\ \A n \in 1 .. s.rev : \E i \in told : chain[i].rev = n
  /\ \A i \in told : chain[i].rev = s.rev => chain[i].kind = s.phase /\ chain[i].intent = s.intent

AuditTellsState == Settled => Tells(auditHead, state)

(* Between commands, active.json is what the phase says is served: the     *)
(* candidate when promoted, and the current activation otherwise           *)
(* (Route, and Promote's use of PromoteExisting before commitState).       *)
PointerFollowsPhase ==
  Settled => active.id = IF state.phase = "promoted" THEN state.cand ELSE state.cur

(* Between commands, the next transition can be written: its revision has  *)
(* no snapshot yet (commitState refuses one that is there).                *)
NextRevisionFree == Settled => <<state.intent, state.rev + 1>> \notin snapshots

(* With careful operators, all of these hold: the audit chain verifies at  *)
(* every moment and tells how promotion.json came about, active.json is    *)
(* what the phase says is served, and the next revision can be written.    *)
AuditHolds ==
  operators = "careful" => AuditVerifies /\ AuditTellsState /\ PointerFollowsPhase /\ NextRevisionFree

(* The candidate is active only with the required acknowledgements and a   *)
(* report within the thresholds, wherever commands were cut off (Promote,  *)
(* Evaluate).                                                              *)
Earned ==
  active.id = state.cand =>
    /\ Cardinality(Ready) >= RequiredAcks
    /\ state.report # {} /\ state.report \notin Blocking

Order == {<<"prepared", "validated">>, <<"prepared", "blocked">>,
          <<"validated", "validated">>, <<"validated", "blocked">>,
          <<"blocked", "validated">>, <<"blocked", "blocked">>,
          <<"validated", "canary">>, <<"canary", "promoted">>,
          <<"promoted", "rolled_back">>}

(* promotion.json goes through its revisions one by one and its phases in  *)
(* the documented order, whether or not operators recover in time: a       *)
(* pending transaction that is completed late never undoes another.        *)
RevisionsInOrder ==
  [][state' # state =>
       \/ state = None /\ state'.rev = 1 /\ state'.phase = "prepared"
       \/ /\ state # None /\ state'.rev = state.rev + 1
          /\ state'.intent = state.intent
          /\ <<state.phase, state'.phase>> \in Order]_vars

(* A transaction that was cut off is completed, given that recover is run. *)
RecoverCompletes == (operators = "careful" /\ pending # None) ~> (pending = None)
=============================================================================
