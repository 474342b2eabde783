------------------------- MODULE ScoringActivation -------------------------
(***************************************************************************)
(* The activation state directory, internal/scoringactivation/manager.go   *)
(* and phase8f_promotion.go: immutable activation documents, the pointer   *)
(* active.json and the journal pending.json.                               *)
(*                                                                         *)
(* One step is one file operation; atomicWrite replaces a file by rename.  *)
(* A Manager has no lock, so every command is a caller of its own.         *)
(***************************************************************************)
EXTENDS Integers, FiniteSets

CONSTANTS Callers,    \* commands that run at the same time
          OpsOf,      \* the operations each of them uses
          Ids,        \* activation IDs
          MaxDamage,  \* bound on the tuples whose packages are damaged
          MaxStops,   \* bound on the calls that are cut off
          None

(* An activation document: what it is, what was active before it, and how  *)
(* its package paths are written.                                          *)
Docs     == [id : Ids, prev : Ids \cup {None}, paths : {"relative", "absolute"}]
Journals == [target : Ids, prev : Ids \cup {None}]
Ops      == {"activate", "stage", "promote", "rollback", "recover"}

ASSUME ActivationAssumption ==
  /\ OpsOf \in [Callers -> SUBSET Ops]
  /\ MaxDamage \in Nat /\ MaxStops \in Nat
  /\ None \notin Ids /\ None \notin Docs /\ None \notin Journals

VARIABLES
  activations,  \* activations/<id>.json, or None
  active,       \* active.json, or None
  journal,      \* pending.json, or None
  sound,        \* the activations whose packages and policy validate
  pc,           \* where each caller is
  op,           \* its operation
  doc,          \* the document it is about to store or to make active
  prev,         \* the activation that was active when it looked
  stops

files == <<activations, active, journal>>
vars  == <<activations, active, journal, sound, pc, op, doc, prev, stops>>

Init ==
  /\ activations = [id \in Ids |-> None]
  /\ active = None
  /\ journal = None
  /\ sound = Ids
  /\ pc = [c \in Callers |-> "idle"]
  /\ op = [c \in Callers |-> "none"]
  /\ doc = [c \in Callers |-> None]
  /\ prev = [c \in Callers |-> None]
  /\ stops = 0

-----------------------------------------------------------------------------
ActiveId == IF active = None THEN None ELSE active.id

Goto(c, l) == pc' = [pc EXCEPT ![c] = l]

Start(c, o, d, p, l) ==
  /\ pc[c] = "idle"
  /\ o \in OpsOf[c]
  /\ Goto(c, l)
  /\ op' = [op EXCEPT ![c] = o]
  /\ doc' = [doc EXCEPT ![c] = d]
  /\ prev' = [prev EXCEPT ![c] = p]
  /\ UNCHANGED <<files, sound, stops>>

Return(c) ==
  /\ Goto(c, "idle")
  /\ op' = [op EXCEPT ![c] = "none"]
  /\ doc' = [doc EXCEPT ![c] = None]
  /\ prev' = [prev EXCEPT ![c] = None]

(* Activate: the tuple is validated, then linked to what is active.        *)
Activate(c) ==
  \E id \in sound :
    Start(c, "activate", [id |-> id, prev |-> ActiveId, paths |-> "relative"],
          ActiveId, "check")

(* Stage, whose expected activation, when given, is the active one.        *)
Stage(c) ==
  /\ active # None /\ active.id \in sound
  /\ \E id \in sound :
       Start(c, "stage", [id |-> id, prev |-> active.id, paths |-> "absolute"],
             active.id, "check")

(* Mutant: the link between the two activations is not asked for.          *)
CanPromote_NoLink(id, expected) ==
  /\ active # None /\ active.id \in sound
  /\ active.id = expected
  /\ activations[id] # None /\ id \in sound

CanPromote(id, expected) ==
  /\ active # None /\ active.id \in sound
  /\ active.id = expected
  /\ activations[id] # None /\ id \in sound
  /\ activations[id].prev = expected \/ active.prev = id

(* PromoteExisting, up to its writes: LoadActivation resolves the paths of *)
(* the document it returns.                                                *)
PromoteExisting(c, id, expected) ==
  /\ CanPromote(id, expected)
  /\ Start(c, "promote", [activations[id] EXCEPT !.paths = "absolute"],
           expected, "journal")

Rollback(c) ==
  /\ active # None /\ active.prev # None
  /\ activations[active.prev] # None /\ active.prev \in sound
  /\ Start(c, "rollback", activations[active.prev], active.id, "journal")

-----------------------------------------------------------------------------
(* A document that is there already must have the same bytes.              *)
CheckDocument(c) ==
  /\ pc[c] = "check"
  /\ LET there == activations[doc[c].id]
     IN \/ there = None /\ Goto(c, "store") /\ UNCHANGED <<op, doc, prev>>
        \/ there = doc[c] /\ op[c] = "activate" /\ Goto(c, "journal") /\ UNCHANGED <<op, doc, prev>>
        \/ there # None /\ ~(there = doc[c] /\ op[c] = "activate") /\ Return(c)
  /\ UNCHANGED <<files, sound, stops>>

StoreDocument(c) ==
  /\ pc[c] = "store"
  /\ activations' = [activations EXCEPT ![doc[c].id] = doc[c]]
  /\ \/ op[c] = "activate" /\ Goto(c, "journal") /\ UNCHANGED <<op, doc, prev>>
     \/ op[c] = "stage" /\ Return(c)
  /\ UNCHANGED <<active, journal, sound, stops>>

(* Mutant: the journal is not replaced when there is one already.          *)
WriteJournal_Keep(c) ==
  /\ pc[c] = "journal"
  /\ journal' = IF journal # None THEN journal ELSE [target |-> doc[c].id, prev |-> prev[c]]
  /\ Goto(c, "pointer")
  /\ UNCHANGED <<activations, active, sound, op, doc, prev, stops>>

(* The writes that Activate, PromoteExisting and Rollback end with.        *)
WriteJournal(c) ==
  /\ pc[c] = "journal"
  /\ journal' = [target |-> doc[c].id, prev |-> prev[c]]
  /\ Goto(c, "pointer")
  /\ UNCHANGED <<activations, active, sound, op, doc, prev, stops>>

WritePointer(c) ==
  /\ pc[c] = "pointer"
  /\ active' = doc[c]
  /\ Goto(c, "clear")
  /\ UNCHANGED <<activations, journal, sound, op, doc, prev, stops>>

ClearJournal(c) ==
  /\ pc[c] = "clear"
  /\ journal' = None
  /\ Return(c)
  /\ UNCHANGED <<activations, active, sound, stops>>

-----------------------------------------------------------------------------
(* Recover reads the journal, and nothing happens when there is none.      *)
RecoverRead(c) ==
  /\ journal # None
  /\ Start(c, "recover", [id |-> journal.target, prev |-> journal.prev, paths |-> "relative"],
           journal.prev, "inspect")

Restorable(id) == activations[id] # None /\ id \in sound

(* An active target is kept; otherwise the previous activation is          *)
(* restored, or the pointer removed when there was none.                   *)
RecoverInspect(c) ==
  /\ pc[c] = "inspect"
  /\ LET kept == active # None /\ active.id = doc[c].id /\ active.id \in sound
     IN \/ /\ kept
           /\ Goto(c, "clear") /\ UNCHANGED <<op, doc, prev>>
        \/ /\ ~ kept /\ prev[c] = None
           /\ doc' = [doc EXCEPT ![c] = None]
           /\ Goto(c, "pointer") /\ UNCHANGED <<op, prev>>
        \/ /\ ~ kept /\ prev[c] # None /\ Restorable(prev[c])
           /\ doc' = [doc EXCEPT ![c] = activations[prev[c]]]
           /\ Goto(c, "pointer") /\ UNCHANGED <<op, prev>>
        \/ /\ ~ kept /\ prev[c] # None /\ ~ Restorable(prev[c])
           /\ Return(c)
  /\ UNCHANGED <<files, sound, stops>>

-----------------------------------------------------------------------------
(* The packages an activation refers to are lost or changed on disk.       *)
Damage ==
  /\ Cardinality(Ids \ sound) < MaxDamage
  /\ \E id \in sound : sound' = sound \ {id}
  /\ UNCHANGED <<files, pc, op, doc, prev, stops>>

(* A call ends early: the process dies or a file operation fails.          *)
Stop(c) ==
  /\ pc[c] # "idle"
  /\ stops < MaxStops
  /\ stops' = stops + 1
  /\ Return(c)
  /\ UNCHANGED <<files, sound>>

Promote(c) == \E id, expected \in Ids : PromoteExisting(c, id, expected)

Begin(c) == Activate(c) \/ Stage(c) \/ Promote(c) \/ Rollback(c) \/ RecoverRead(c)

Continue(c) == \/ CheckDocument(c) \/ StoreDocument(c) \/ WriteJournal(c)
               \/ WritePointer(c) \/ ClearJournal(c) \/ RecoverInspect(c)

Next == Damage \/ \E c \in Callers : Begin(c) \/ Continue(c) \/ Stop(c)

Spec == Init /\ [][Next]_vars

-----------------------------------------------------------------------------
Labels == {"idle", "check", "store", "journal", "pointer", "clear", "inspect"}

(* The type invariant.                                                     *)
TypeOK ==
  /\ activations \in [Ids -> Docs \cup {None}]
  /\ active \in Docs \cup {None}
  /\ journal \in Journals \cup {None}
  /\ sound \subseteq Ids
  /\ pc \in [Callers -> Labels]
  /\ op \in [Callers -> Ops \cup {"none"}]
  /\ doc \in [Callers -> Docs \cup {None}]
  /\ prev \in [Callers -> Ids \cup {None}]
  /\ stops \in 0 .. MaxStops

(* Whatever commands run at once and wherever they stop: the active        *)
(* activation has its document, and so has the one before it, so that      *)
(* Rollback and Recover find what they need (manager.go: the document is   *)
(* stored before the journal and the pointer, and no document is removed). *)
NothingDangles ==
  active # None =>
    /\ activations[active.id] # None
    /\ active.prev # None => activations[active.prev] # None

(* One command at a time: the pointer moves only between an activation and *)
(* the one it was linked to when it was prepared, in either direction,     *)
(* recoveries included; so a rollback leads back to what was active.       *)
LinkedMoves ==
  [][(active # None /\ active' # None /\ active'.id # active.id) =>
       active'.prev = active.id \/ active.prev = active'.id]_vars

(* One command at a time: Recover moves the pointer to another activation  *)
(* only if the active one no longer validates; it never undoes a good      *)
(* activation, wherever the interrupted command stopped.                   *)
RecoverOnlyRepairs ==
  [][\A c \in Callers :
       (op[c] = "recover" /\ ActiveId' # ActiveId) => ActiveId \notin sound]_vars

(***************************************************************************)
(* Scoring activation, wherever commands stop and whatever is damaged: the *)
(* active activation and the one before it have their documents, and       *)
(* Recover moves the pointer only away from an activation that no longer   *)
(* validates (manager.go: document, journal, pointer).                     *)
(***************************************************************************)
RecoverSound == []NothingDangles /\ RecoverOnlyRepairs

(* What makes PromoteExisting a compare-and-swap: the pointer it replaces  *)
(* is the one it was told to expect (phase8f_promotion.go).                *)
CompareAndSwap ==
  [][\A c \in Callers :
       (op[c] = "promote" /\ pc[c] = "pointer" /\ pc'[c] = "clear") =>
         ActiveId = prev[c]]_vars
=============================================================================
