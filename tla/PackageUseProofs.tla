-------------------------- MODULE PackageUseProofs --------------------------
(* Proofs about a package on its way into use: the activation state        *)
(* directory of the scoring host, for any commands, activation IDs,        *)
(* interruptions and damaged packages; the registry of the generations of  *)
(* a process, whose count of readers is what it counts and whose drained   *)
(* generations have none; the activation store of a host; the update of a  *)
(* fleet, for any workers, updates, canaries, bounds and faults; and the   *)
(* controlled promotion of a package, for any intents, instances,          *)
(* observations, thresholds and cuts, with any operators and with those    *)
(* who recover first.                                                      *)
EXTENDS ScoringActivation, PackageUse, FiniteSetTheorems, TLAPS

-----------------------------------------------------------------------------
(* The activation state directory: scoringactivation.Manager.              *)

(* The document of d and that of its predecessor are stored.               *)
Kept(d) == /\ activations[d.id] # None
           /\ d.prev # None => activations[d.prev] # None

(* Stored documents are under their own ID and their predecessors stored.  *)
DocsInv == \A id \in Ids : activations[id] # None =>
             activations[id].id = id /\ Kept(activations[id])

(* What a caller is about to write.                                        *)
HeldOK(c) ==
  /\ pc[c] \in {"check", "store"} =>
       /\ doc[c] # None /\ op[c] \in {"activate", "stage"}
       /\ doc[c].prev # None => activations[doc[c].prev] # None
  /\ pc[c] = "journal" => doc[c] # None
  /\ pc[c] \in {"journal", "pointer"} /\ doc[c] # None => Kept(doc[c])

HeldInv == \A c \in Callers : HeldOK(c)

(* The invariant for any number of commands at once.                       *)
Safe == TypeOK /\ DocsInv /\ HeldInv /\ NothingDangles

-----------------------------------------------------------------------------
OneCaller == \A c, d \in Callers : c = d

(* Two activations of which one was prepared on top of the other.          *)
Linked(a, b) == /\ activations[a] # None /\ activations[b] # None
                /\ activations[a].prev = b \/ activations[b].prev = a

(* active.json is linked as its stored document is.                        *)
ActiveInv == active # None => active.prev = activations[active.id].prev

(* A journal explains active.json, whichever command left it behind: the   *)
(* pointer is at its target or where it was.                               *)
JournalInv ==
  journal # None =>
    /\ ActiveId \in {journal.target, journal.prev}
    /\ journal.prev # None => Linked(journal.target, journal.prev)

(* What the only caller knows: until it moves the pointer, what it read of *)
(* the pointer is so.                                                      *)
KnownOK(c) ==
  /\ pc[c] \in {"check", "store", "journal"} => prev[c] = ActiveId
  /\ pc[c] \in {"check", "store"} => doc[c].prev = prev[c]
  /\ pc[c] = "store" => activations[doc[c].id] = None
  /\ pc[c] \in {"journal", "pointer"} /\ doc[c] # None =>
       doc[c].prev = activations[doc[c].id].prev
  /\ pc[c] = "journal" =>
       op[c] # "recover" /\ (prev[c] # None => Linked(doc[c].id, prev[c]))
  /\ pc[c] = "pointer" /\ op[c] # "recover" =>
       /\ prev[c] = ActiveId /\ doc[c] # None
       /\ journal = [target |-> doc[c].id, prev |-> prev[c]]
  /\ pc[c] = "inspect" =>
       /\ op[c] = "recover" /\ doc[c] # None
       /\ journal = [target |-> doc[c].id, prev |-> prev[c]]
  /\ pc[c] = "pointer" /\ op[c] = "recover" =>
       /\ journal # None /\ journal.prev = prev[c]
       /\ IF doc[c] = None THEN prev[c] = None ELSE prev[c] = doc[c].id
       /\ ActiveId = prev[c] \/ ActiveId \notin sound

KnownInv == \A c \in Callers : KnownOK(c)

(* The invariant for one command at a time.                                *)
OneInv == Safe /\ ActiveInv /\ JournalInv /\ KnownInv

-----------------------------------------------------------------------------
LEMMA ActiveIdType == TypeOK => ActiveId \in Ids \cup {None}
BY DEF TypeOK, ActiveId, Docs

LEMMA DocFields ==
  ASSUME NEW d \in Docs
  PROVE  /\ d # None /\ d.id \in Ids /\ d.prev \in Ids \cup {None}
         /\ d.paths \in {"relative", "absolute"}
BY ActivationAssumption DEF Docs

(* How a command begins: what it holds, and where its writes start.        *)
Begun(c, o, d, p, l) ==
  /\ Start(c, o, d, p, l)
  /\ d \in Docs /\ p \in Ids \cup {None}
  /\ \/ /\ o \in {"activate", "stage"} /\ l = "check"
        /\ p = ActiveId /\ d.prev = ActiveId
     \/ /\ o \in {"promote", "rollback"} /\ l = "journal"
        /\ active # None /\ p = active.id
        /\ activations[d.id] # None /\ d.prev = activations[d.id].prev
        /\ activations[d.id].prev = p \/ active.prev = d.id
     \/ /\ o = "recover" /\ l = "inspect"
        /\ journal # None /\ journal = [target |-> d.id, prev |-> p]

LEMMA BeginCases ==
  ASSUME Safe, NEW c \in Callers, Begin(c)
  PROVE  \E o \in Ops, d \in Docs, p \in Ids \cup {None},
            l \in {"check", "journal", "inspect"} : Begun(c, o, d, p, l)
<1>1. /\ ActiveId \in Ids \cup {None} /\ sound \subseteq Ids
      /\ active \in Docs \cup {None} /\ journal \in Journals \cup {None}
      /\ activations \in [Ids -> Docs \cup {None}]
      /\ DocsInv
  BY ActiveIdType DEF Safe, TypeOK
<1>2. CASE Activate(c)
  <2>1. PICK id \in sound :
          Start(c, "activate", [id |-> id, prev |-> ActiveId, paths |-> "relative"],
                ActiveId, "check")
    BY <1>2 DEF Activate
  <2>2. [id |-> id, prev |-> ActiveId, paths |-> "relative"] \in Docs
    BY <1>1 DEF Docs
  <2> QED BY <1>1, <2>1, <2>2 DEF Begun, Ops
<1>3. CASE Stage(c)
  <2>1. PICK id \in sound :
          Start(c, "stage", [id |-> id, prev |-> active.id, paths |-> "absolute"],
                active.id, "check")
    BY <1>3 DEF Stage
  <2>2. active # None /\ ActiveId = active.id
    BY <1>3 DEF Stage, ActiveId
  <2>3. [id |-> id, prev |-> active.id, paths |-> "absolute"] \in Docs
    BY <1>1, <2>2 DEF Docs
  <2> QED BY <1>1, <2>1, <2>2, <2>3 DEF Begun, Ops
<1>4. CASE Promote(c)
  <2>1. PICK id \in Ids, expected \in Ids : PromoteExisting(c, id, expected)
    BY <1>4 DEF Promote
  <2> DEFINE d == [activations[id] EXCEPT !.paths = "absolute"]
  <2>2. /\ active # None /\ active.id = expected /\ activations[id] # None
        /\ activations[id].prev = expected \/ active.prev = id
    BY <2>1 DEF PromoteExisting, CanPromote
  <2>3. activations[id] \in Docs /\ activations[id].id = id
    BY <1>1, <2>2 DEF DocsInv
  <2>4. d \in Docs /\ d.id = id /\ d.prev = activations[id].prev
    BY <2>3 DEF Docs
  <2>5. Begun(c, "promote", d, expected, "journal")
    BY <2>1, <2>2, <2>3, <2>4 DEF PromoteExisting, Begun
  <2> QED BY <2>4, <2>5 DEF Ops
<1>5. CASE Rollback(c)
  <2> DEFINE d == activations[active.prev]
  <2>1. /\ active # None /\ active.prev # None /\ d # None
        /\ Start(c, "rollback", d, active.id, "journal")
    BY <1>5 DEF Rollback
  <2>2. active.prev \in Ids /\ active.id \in Ids
    BY <1>1, <2>1, DocFields
  <2>3. d \in Docs /\ d.id = active.prev
    BY <1>1, <2>1, <2>2 DEF DocsInv
  <2>4. Begun(c, "rollback", d, active.id, "journal")
    BY <2>1, <2>2, <2>3 DEF Begun
  <2> QED BY <2>2, <2>3, <2>4 DEF Ops
<1>6. CASE RecoverRead(c)
  <2> DEFINE d == [id |-> journal.target, prev |-> journal.prev, paths |-> "relative"]
  <2>1. journal # None /\ Start(c, "recover", d, journal.prev, "inspect")
    BY <1>6 DEF RecoverRead
  <2>2. journal \in Journals
    BY <1>1, <2>1
  <2>3. d \in Docs /\ d.id = journal.target /\ journal.prev \in Ids \cup {None}
        /\ journal = [target |-> journal.target, prev |-> journal.prev]
    BY <2>2 DEF Docs, Journals
  <2>4. Begun(c, "recover", d, journal.prev, "inspect")
    BY <2>1, <2>3 DEF Begun
  <2> QED BY <2>3, <2>4 DEF Ops
<1> QED BY <1>2, <1>3, <1>4, <1>5, <1>6 DEF Begin

-----------------------------------------------------------------------------
(* No step removes a document.                                             *)
LEMMA Grows ==
  ASSUME Safe, [Next]_vars, NEW id \in Ids, activations[id] # None
  PROVE  activations'[id] # None
<1>1. ASSUME NEW c \in Callers, StoreDocument(c) PROVE activations'[id] # None
  BY <1>1 DEF StoreDocument, Safe, HeldInv, HeldOK, TypeOK
<1>2. ASSUME NEW c \in Callers, ~ StoreDocument(c),
             Begin(c) \/ Continue(c) \/ Stop(c)
      PROVE  activations' = activations
  <2>1. CASE Begin(c)
    BY <2>1, BeginCases DEF Begun, Start, files
  <2> QED BY <1>2, <2>1 DEF Continue, Stop, CheckDocument, WriteJournal, WritePointer,
                           ClearJournal, RecoverInspect, files
<1>3. CASE Damage \/ UNCHANGED vars
  BY <1>3 DEF Damage, vars, files
<1> QED BY <1>1, <1>2, <1>3 DEF Next

(* A step of one caller leaves the others where they are.                  *)
LEMMA Frame ==
  ASSUME TypeOK, NEW c \in Callers, Begin(c) \/ Continue(c) \/ Stop(c),
         NEW u \in Callers, u # c
  PROVE  pc'[u] = pc[u] /\ op'[u] = op[u] /\ doc'[u] = doc[u] /\ prev'[u] = prev[u]
<1>1. CASE Begin(c)
  <2>1. \E o, d, p, l : Start(c, o, d, p, l)
    BY <1>1 DEF Begin, Activate, Stage, Promote, PromoteExisting, Rollback, RecoverRead
  <2> QED BY <2>1 DEF TypeOK, Start, Goto
<1>2. CASE CheckDocument(c)
  BY <1>2 DEF TypeOK, CheckDocument, Goto, Return
<1>3. CASE StoreDocument(c)
  BY <1>3 DEF TypeOK, StoreDocument, Goto, Return
<1>4. CASE WriteJournal(c) \/ WritePointer(c) \/ ClearJournal(c) \/ Stop(c)
  BY <1>4 DEF TypeOK, WriteJournal, WritePointer, ClearJournal, Stop, Goto, Return
<1>5. CASE RecoverInspect(c)
  BY <1>5 DEF TypeOK, RecoverInspect, Goto, Return
<1> QED BY <1>1, <1>2, <1>3, <1>4, <1>5 DEF Continue

-----------------------------------------------------------------------------
LEMMA TypeStep ==
  ASSUME Safe, [Next]_vars
  PROVE  TypeOK'
<1> USE ActivationAssumption
<1>1. TypeOK /\ HeldInv
  BY DEF Safe
<1>2. CASE UNCHANGED vars
  BY <1>1, <1>2 DEF vars, TypeOK
<1>3. CASE Damage
  BY <1>1, <1>3 DEF TypeOK, Damage, files
<1>4. ASSUME NEW c \in Callers, Begin(c) PROVE TypeOK'
  <2>1. PICK o \in Ops, d \in Docs, p \in Ids \cup {None},
             l \in {"check", "journal", "inspect"} : Start(c, o, d, p, l)
    BY <1>4, BeginCases DEF Begun
  <2> QED BY <1>1, <2>1 DEF TypeOK, Start, Goto, files, Labels
<1>5. ASSUME NEW c \in Callers, CheckDocument(c) PROVE TypeOK'
  BY <1>1, <1>5 DEF TypeOK, CheckDocument, Goto, Return, files, Labels
<1>6. ASSUME NEW c \in Callers, StoreDocument(c) PROVE TypeOK'
  <2>1. doc[c] \in Docs /\ doc[c].id \in Ids
    BY <1>1, <1>6, DocFields DEF StoreDocument, TypeOK, HeldInv, HeldOK
  <2> QED BY <1>1, <1>6, <2>1 DEF TypeOK, StoreDocument, Goto, Return, Labels
<1>7. ASSUME NEW c \in Callers, WriteJournal(c) PROVE TypeOK'
  <2>1. doc[c] \in Docs /\ doc[c].id \in Ids /\ prev[c] \in Ids \cup {None}
    BY <1>1, <1>7, DocFields DEF WriteJournal, TypeOK, HeldInv, HeldOK
  <2>2. [target |-> doc[c].id, prev |-> prev[c]] \in Journals
    BY <2>1 DEF Journals
  <2> QED BY <1>1, <1>7, <2>2 DEF TypeOK, WriteJournal, Goto, Labels
<1>8. ASSUME NEW c \in Callers, WritePointer(c) PROVE TypeOK'
  BY <1>1, <1>8 DEF TypeOK, WritePointer, Goto, Labels
<1>9. ASSUME NEW c \in Callers, ClearJournal(c) PROVE TypeOK'
  BY <1>1, <1>9 DEF TypeOK, ClearJournal, Goto, Return, Labels
<1>10. ASSUME NEW c \in Callers, RecoverInspect(c) PROVE TypeOK'
  BY <1>1, <1>10 DEF TypeOK, RecoverInspect, Restorable, Goto, Return, files, Labels
<1>11. ASSUME NEW c \in Callers, Stop(c) PROVE TypeOK'
  BY <1>1, <1>11 DEF TypeOK, Stop, Goto, Return, files, Labels
<1> QED BY <1>2, <1>3, <1>4, <1>5, <1>6, <1>7, <1>8, <1>9, <1>10, <1>11
        DEF Next, Continue

LEMMA DocsStep ==
  ASSUME Safe, [Next]_vars
  PROVE  DocsInv'
<1> SUFFICES ASSUME NEW id \in Ids, activations'[id] # None
             PROVE  /\ activations'[id].id = id /\ activations'[activations'[id].id] # None
                    /\ activations'[id].prev # None => activations'[activations'[id].prev] # None
  BY DEF DocsInv, Kept
<1>1. TypeOK /\ DocsInv /\ TypeOK'
  BY TypeStep DEF Safe
<1>2. ASSUME activations'[id] = activations[id]
      PROVE  /\ activations'[id].id = id
             /\ activations'[id].prev # None => activations'[activations'[id].prev] # None
  <2>1. activations[id] \in Docs
    BY <1>1, <1>2 DEF TypeOK
  <2>2. activations[id].id = id /\ activations[id].prev \in Ids \cup {None}
    BY <1>1, <1>2, <2>1, DocFields DEF DocsInv
  <2>3. activations[id].prev # None => activations[activations[id].prev] # None
    BY <1>1, <1>2 DEF DocsInv, Kept
  <2> QED BY <1>2, <2>2, <2>3, Grows
<1>3. ASSUME activations'[id] # activations[id]
      PROVE  /\ activations'[id].id = id
             /\ activations'[id].prev # None => activations'[activations'[id].prev] # None
  <2>1. PICK c \in Callers : StoreDocument(c)
    <3>1. ASSUME NEW c \in Callers, Begin(c) PROVE FALSE
      BY <1>3, <3>1, BeginCases DEF Begun, Start, files
    <3> QED BY <1>3, <3>1 DEF Next, Continue, Stop, CheckDocument, WriteJournal,
                           WritePointer, ClearJournal, RecoverInspect, files, Damage, vars
  <2>2. /\ doc[c] \in Docs
        /\ doc[c].prev # None => activations[doc[c].prev] # None
    BY <1>1, <2>1 DEF Safe, HeldInv, HeldOK, StoreDocument, TypeOK
  <2>3. doc[c].prev \in Ids \cup {None} /\ doc[c].id \in Ids
    BY <2>2, DocFields
  <2>4. id = doc[c].id /\ activations'[id] = doc[c]
    BY <1>1, <1>3, <2>1, <2>3 DEF StoreDocument, TypeOK
  <2> QED BY <2>2, <2>3, <2>4, Grows
<1> QED BY <1>2, <1>3

(* What is kept stays kept.                                                *)
LEMMA KeptGrows ==
  ASSUME Safe, [Next]_vars, NEW d \in Docs
  PROVE  /\ Kept(d) => activations'[d.id] # None
         /\ (d.prev # None => activations[d.prev] # None) =>
              (d.prev # None => activations'[d.prev] # None)
         /\ Kept(d) => (d.prev # None => activations'[d.prev] # None)
BY Grows, DocFields DEF Kept

LEMMA HeldStep ==
  ASSUME Safe, [Next]_vars
  PROVE  HeldInv'
<1> SUFFICES ASSUME NEW u \in Callers PROVE HeldOK(u)'
  BY DEF HeldInv
<1>1. TypeOK /\ TypeOK' /\ HeldOK(u) /\ DocsInv /\ NothingDangles
  BY TypeStep DEF Safe, HeldInv
<1>2. ASSUME pc'[u] = pc[u], op'[u] = op[u], doc'[u] = doc[u] PROVE HeldOK(u)'
  <2>1. CASE doc[u] = None
    BY <1>1, <1>2, <2>1 DEF HeldOK
  <2>2. CASE doc[u] # None
    <3>1. doc[u] \in Docs
      BY <1>1, <2>2 DEF TypeOK
    <3> QED BY <1>1, <1>2, <3>1, KeptGrows DEF HeldOK, Kept
  <2> QED BY <2>1, <2>2
<1>3. CASE Damage \/ UNCHANGED vars
  BY <1>2, <1>3 DEF Damage, vars
<1>4. ASSUME NEW c \in Callers, c # u, Begin(c) \/ Continue(c) \/ Stop(c) PROVE HeldOK(u)'
  BY <1>1, <1>2, <1>4, Frame
<1>5. CASE Begin(u)
  <2>1. PICK o \in Ops, d \in Docs, p \in Ids \cup {None},
             l \in {"check", "journal", "inspect"} : Begun(u, o, d, p, l)
    BY <1>5, BeginCases
  <2>2. /\ pc'[u] = l /\ op'[u] = o /\ doc'[u] = d /\ activations' = activations
    BY <1>1, <2>1 DEF Begun, Start, Goto, files, TypeOK
  <2>3. d.id \in Ids /\ d.prev \in Ids \cup {None} /\ d # None
    BY <2>1, DocFields
  <2>4. CASE l = "check"
    <3>1. o \in {"activate", "stage"} /\ d.prev = ActiveId
      BY <2>1, <2>4 DEF Begun
    <3>2. d.prev # None => activations[d.prev] # None
      BY <1>1, <3>1 DEF ActiveId, NothingDangles
    <3> QED BY <2>2, <2>3, <2>4, <3>1, <3>2 DEF HeldOK
  <2>5. CASE l = "journal"
    <3>1. activations[d.id] # None /\ d.prev = activations[d.id].prev
      BY <2>1, <2>5 DEF Begun
    <3>2. d.prev # None => activations[d.prev] # None
      BY <1>1, <2>3, <3>1 DEF DocsInv, Kept
    <3> QED BY <2>2, <2>3, <2>5, <3>1, <3>2 DEF HeldOK, Kept
  <2>6. CASE l = "inspect"
    BY <2>2, <2>6 DEF HeldOK
  <2> QED BY <2>4, <2>5, <2>6
<1>6. CASE CheckDocument(u)
  <2>1. /\ doc[u] # None /\ op[u] \in {"activate", "stage"} /\ doc[u] \in Docs
        /\ doc[u].prev # None => activations[doc[u].prev] # None
    BY <1>1, <1>6 DEF CheckDocument, HeldOK, TypeOK
  <2>2. activations' = activations
    BY <1>6 DEF CheckDocument, files
  <2>3. CASE Goto(u, "store") /\ UNCHANGED <<op, doc, prev>>
    BY <1>1, <2>1, <2>2, <2>3 DEF Goto, TypeOK, HeldOK
  <2>4. CASE Goto(u, "journal") /\ UNCHANGED <<op, doc, prev>> /\ activations[doc[u].id] = doc[u]
    BY <1>1, <2>1, <2>2, <2>4 DEF Goto, TypeOK, HeldOK, Kept
  <2>5. CASE Return(u)
    BY <1>1, <2>5 DEF Return, Goto, TypeOK, HeldOK
  <2> QED BY <1>6, <2>3, <2>4, <2>5 DEF CheckDocument
<1>7. CASE StoreDocument(u)
  <2>1. /\ doc[u] # None /\ doc[u] \in Docs
        /\ doc[u].prev # None => activations[doc[u].prev] # None
    BY <1>1, <1>7 DEF StoreDocument, HeldOK, TypeOK
  <2>2. doc[u].id \in Ids /\ doc[u].prev \in Ids \cup {None}
    BY <2>1, DocFields
  <2>3. activations'[doc[u].id] # None
        /\ (doc[u].prev # None => activations'[doc[u].prev] # None)
    BY <1>1, <1>7, <2>1, <2>2, Grows DEF StoreDocument, TypeOK
  <2>4. CASE Goto(u, "journal") /\ UNCHANGED <<op, doc, prev>>
    BY <1>1, <2>1, <2>3, <2>4 DEF Goto, TypeOK, HeldOK, Kept
  <2>5. CASE Return(u)
    BY <1>1, <2>5 DEF Return, Goto, TypeOK, HeldOK
  <2> QED BY <1>7, <2>4, <2>5 DEF StoreDocument
<1>8. CASE WriteJournal(u)
  <2>1. pc'[u] = "pointer" /\ pc[u] = "journal" /\ doc' = doc /\ activations' = activations
    BY <1>1, <1>8 DEF WriteJournal, Goto, TypeOK
  <2> QED BY <1>1, <2>1 DEF HeldOK, Kept
<1>9. CASE WritePointer(u)
  BY <1>1, <1>9 DEF WritePointer, Goto, TypeOK, HeldOK
<1>10. CASE ClearJournal(u) \/ Stop(u)
  BY <1>1, <1>10 DEF ClearJournal, Stop, Return, Goto, TypeOK, HeldOK
<1>11. CASE RecoverInspect(u)
  <2>1. activations' = activations
    BY <1>11 DEF RecoverInspect, files
  <2>2. CASE Goto(u, "clear") \/ Return(u)
    BY <1>1, <2>2 DEF Return, Goto, TypeOK, HeldOK
  <2>3. CASE Goto(u, "pointer") /\ doc' = [doc EXCEPT ![u] = None]
    BY <1>1, <2>3 DEF Goto, TypeOK, HeldOK
  <2>4. CASE /\ Goto(u, "pointer") /\ doc' = [doc EXCEPT ![u] = activations[prev[u]]]
             /\ prev[u] # None /\ Restorable(prev[u])
    <3>1. prev[u] \in Ids /\ activations[prev[u]] # None
      BY <1>1, <2>4 DEF TypeOK, Restorable
    <3>2. Kept(activations[prev[u]])
      BY <1>1, <3>1 DEF DocsInv
    <3>3. pc'[u] = "pointer" /\ doc'[u] = activations[prev[u]]
      BY <1>1, <2>4 DEF Goto, TypeOK
    <3> QED BY <2>1, <3>2, <3>3 DEF HeldOK, Kept
  <2> QED BY <1>11, <2>2, <2>3, <2>4 DEF RecoverInspect
<1> QED BY <1>3, <1>4, <1>5, <1>6, <1>7, <1>8, <1>9, <1>10, <1>11 DEF Next, Continue

LEMMA PointerOnly ==
  ASSUME [Next]_vars, active' # active
  PROVE  \E c \in Callers : WritePointer(c)
<1>1. ASSUME NEW c \in Callers, Begin(c) PROVE FALSE
  <2>1. \E o, d, p, l : Start(c, o, d, p, l)
    BY <1>1 DEF Begin, Activate, Stage, Promote, PromoteExisting, Rollback, RecoverRead
  <2> QED BY <2>1 DEF Start, files
<1> QED BY <1>1 DEF Next, Continue, Stop, CheckDocument, StoreDocument, WriteJournal,
                    ClearJournal, RecoverInspect, files, Damage, vars

LEMMA DanglesStep ==
  ASSUME Safe, [Next]_vars
  PROVE  NothingDangles'
<1>1. TypeOK /\ NothingDangles /\ HeldInv
  BY DEF Safe
<1>2. CASE active' = active
  <2>1. ASSUME active # None
        PROVE  /\ active.id \in Ids /\ active.prev \in Ids \cup {None}
    BY <1>1, <2>1, DocFields DEF TypeOK
  <2> QED BY <1>1, <1>2, <2>1, Grows DEF NothingDangles
<1>3. CASE active' # active
  <2>1. PICK c \in Callers : WritePointer(c)
    BY <1>3, PointerOnly
  <2>2. active' = doc[c] /\ pc[c] = "pointer" /\ activations' = activations
    BY <2>1 DEF WritePointer
  <2> QED BY <1>1, <2>2 DEF HeldInv, HeldOK, Kept, NothingDangles
<1> QED BY <1>2, <1>3

LEMMA SafeInit == Init => Safe
<1> SUFFICES ASSUME Init PROVE Safe
  OBVIOUS
<1>1. TypeOK
  BY ActivationAssumption DEF Init, TypeOK, Labels
<1>2. HeldInv
  BY DEF Init, HeldInv, HeldOK
<1> QED BY <1>1, <1>2 DEF Init, Safe, DocsInv, NothingDangles

LEMMA SafeStep == Safe /\ [Next]_vars => Safe'
BY TypeStep, DocsStep, HeldStep, DanglesStep DEF Safe

(* However many commands run at once: the files and the callers' state     *)
(* have their types.                                                       *)
THEOREM TypeCorrect == Spec => []TypeOK
<1>1. Safe => TypeOK
  BY DEF Safe
<1> QED BY <1>1, SafeInit, SafeStep, PTL DEF Spec

(* However many commands run at once and wherever they are cut off: the    *)
(* active activation and the one before it have their documents, so that   *)
(* there is something to serve and something to go back to.                *)
THEOREM Anchored == Spec => []NothingDangles
<1>1. Safe => NothingDangles
  BY DEF Safe
<1> QED BY <1>1, SafeInit, SafeStep, PTL DEF Spec

-----------------------------------------------------------------------------
(* One command at a time: a document that is stored stays as it is.        *)
LEMMA Immutable ==
  ASSUME OneInv, [Next]_vars, NEW id \in Ids, activations[id] # None
  PROVE  activations'[id] = activations[id]
<1>1. ASSUME NEW c \in Callers, StoreDocument(c) PROVE activations'[id] = activations[id]
  <2>1. activations[doc[c].id] = None
    BY <1>1 DEF StoreDocument, OneInv, KnownInv, KnownOK
  <2> QED BY <1>1, <2>1 DEF StoreDocument, OneInv, Safe, TypeOK
<1>2. ASSUME NEW c \in Callers, Begin(c) PROVE activations' = activations
  BY <1>2, BeginCases DEF OneInv, Begun, Start, files
<1> QED BY <1>1, <1>2 DEF Next, Continue, Stop, CheckDocument, WriteJournal, WritePointer,
                        ClearJournal, RecoverInspect, files, Damage, vars

LEMMA LinkedStays ==
  ASSUME OneInv, [Next]_vars, NEW a \in Ids, NEW b \in Ids, Linked(a, b)
  PROVE  Linked(a, b)'
BY Immutable DEF Linked

LEMMA ActiveStep ==
  ASSUME OneInv, [Next]_vars
  PROVE  ActiveInv'
<1>1. TypeOK /\ NothingDangles /\ ActiveInv
  BY DEF OneInv, Safe
<1>2. CASE active' = active
  <2> SUFFICES ASSUME active # None PROVE active.prev = activations'[active.id].prev
    BY <1>2 DEF ActiveInv
  <2>1. active.id \in Ids /\ activations[active.id] # None
    BY <1>1, DocFields DEF TypeOK, NothingDangles
  <2> QED BY <1>1, <2>1, Immutable DEF ActiveInv
<1>3. CASE active' # active
  <2>1. PICK c \in Callers : WritePointer(c)
    BY <1>3, PointerOnly
  <2>2. active' = doc[c] /\ pc[c] = "pointer" /\ activations' = activations
    BY <2>1 DEF WritePointer
  <2> QED BY <2>2 DEF OneInv, KnownInv, KnownOK, ActiveInv
<1> QED BY <1>2, <1>3

LEMMA ActiveIdStays == ASSUME active' = active PROVE ActiveId' = ActiveId
BY DEF ActiveId

LEMMA JournalStep ==
  ASSUME OneCaller, OneInv, [Next]_vars
  PROVE  JournalInv'
<1>1. TypeOK /\ JournalInv /\ HeldInv /\ KnownInv
  BY DEF OneInv, Safe
<1>2. ASSUME journal' = journal, journal # None
      PROVE  journal.prev # None => Linked(journal.target, journal.prev)'
  <2>1. journal.target \in Ids /\ journal.prev \in Ids \cup {None}
    BY <1>1, <1>2 DEF TypeOK, Journals
  <2> QED BY <1>1, <1>2, <2>1, LinkedStays DEF JournalInv
<1>3. CASE journal' = journal /\ active' = active
  <2>1. ActiveId' = ActiveId
    BY <1>3, ActiveIdStays
  <2> QED BY <1>1, <1>2, <1>3, <2>1 DEF JournalInv
<1>4. ASSUME NEW c \in Callers, WriteJournal(c) PROVE JournalInv'
  <2>1. /\ pc[c] = "journal" /\ active' = active /\ activations' = activations
        /\ journal' = [target |-> doc[c].id, prev |-> prev[c]]
    BY <1>4 DEF WriteJournal
  <2>2. /\ prev[c] = ActiveId /\ (prev[c] # None => Linked(doc[c].id, prev[c]))
    BY <1>1, <2>1 DEF KnownInv, KnownOK
  <2>3. ActiveId' = ActiveId
    BY <2>1, ActiveIdStays
  <2> QED BY <2>1, <2>2, <2>3 DEF JournalInv, Linked
<1>5. ASSUME NEW c \in Callers, WritePointer(c) PROVE JournalInv'
  <2>1. /\ pc[c] = "pointer" /\ active' = doc[c] /\ journal' = journal
    BY <1>5 DEF WritePointer
  <2>2. CASE op[c] # "recover"
    <3>1. doc[c] # None /\ journal = [target |-> doc[c].id, prev |-> prev[c]]
      BY <1>1, <2>1, <2>2 DEF KnownInv, KnownOK
    <3>2. ActiveId' = doc[c].id /\ journal # None
      <4>1. doc[c].id \in Ids /\ prev[c] \in Ids \cup {None}
        BY <1>1, <3>1, DocFields DEF TypeOK
      <4> QED BY <2>1, <3>1, <4>1, ActivationAssumption DEF ActiveId, Journals
    <3> QED BY <1>2, <2>1, <3>1, <3>2 DEF JournalInv
  <2>3. CASE op[c] = "recover"
    <3>1. /\ journal # None /\ journal.prev = prev[c]
          /\ IF doc[c] = None THEN prev[c] = None ELSE prev[c] = doc[c].id
      BY <1>1, <2>1, <2>3 DEF KnownInv, KnownOK
    <3>2. ActiveId' = prev[c]
      BY <2>1, <3>1 DEF ActiveId
    <3> QED BY <1>2, <2>1, <3>1, <3>2 DEF JournalInv
  <2> QED BY <2>2, <2>3
<1>6. ASSUME NEW c \in Callers, ClearJournal(c) PROVE JournalInv'
  BY <1>6 DEF ClearJournal, JournalInv
<1>7. ASSUME NEW c \in Callers, Begin(c) PROVE journal' = journal /\ active' = active
  BY <1>7, BeginCases DEF OneInv, Begun, Start, files
<1> QED BY <1>3, <1>4, <1>5, <1>6, <1>7 DEF Next, Continue, Stop, CheckDocument,
        StoreDocument, RecoverInspect, files, Damage, vars

(* The only caller's knowledge is kept.                                    *)
LEMMA KnownStep ==
  ASSUME OneCaller, OneInv, [Next]_vars
  PROVE  KnownInv'
<1> SUFFICES ASSUME NEW c \in Callers PROVE KnownOK(c)'
  BY DEF KnownInv
<1>1. /\ TypeOK /\ TypeOK' /\ HeldOK(c) /\ DocsInv /\ NothingDangles
      /\ ActiveInv /\ JournalInv /\ KnownOK(c)
  BY TypeStep DEF OneInv, Safe, HeldInv, KnownInv
<1>2. CASE UNCHANGED vars
  BY <1>1, <1>2 DEF vars, KnownOK, ActiveId, Linked
<1>3. CASE Damage
  <2>1. UNCHANGED <<files, pc, op, doc, prev>> /\ sound' \subseteq sound
    BY <1>3 DEF Damage
  <2> QED BY <1>1, <2>1 DEF files, KnownOK, ActiveId, Linked
<1>4. CASE Begin(c)
  <2>1. PICK o \in Ops, d \in Docs, p \in Ids \cup {None},
             l \in {"check", "journal", "inspect"} : Begun(c, o, d, p, l)
    BY <1>4, BeginCases DEF OneInv
  <2>2. /\ pc'[c] = l /\ op'[c] = o /\ doc'[c] = d /\ prev'[c] = p
        /\ activations' = activations /\ active' = active /\ journal' = journal
    BY <1>1, <2>1 DEF Begun, Start, Goto, files, TypeOK
  <2>3. ActiveId' = ActiveId /\ d # None
    BY <2>1, <2>2, ActiveIdStays, DocFields
  <2>4. CASE l = "check"
    <3>1. p = ActiveId /\ d.prev = ActiveId
      BY <2>1, <2>4 DEF Begun
    <3> QED BY <2>2, <2>3, <2>4, <3>1 DEF KnownOK
  <2>5. CASE l = "journal"
    <3>1. /\ o \in {"promote", "rollback"} /\ active # None /\ p = active.id
          /\ activations[d.id] # None /\ d.prev = activations[d.id].prev
          /\ activations[d.id].prev = p \/ active.prev = d.id
      BY <2>1, <2>5 DEF Begun
    <3>2. p = ActiveId /\ activations[p] # None /\ active.prev = activations[p].prev
      BY <1>1, <3>1 DEF ActiveId, NothingDangles, ActiveInv
    <3>3. Linked(d.id, p)
      BY <3>1, <3>2 DEF Linked
    <3> QED BY <2>2, <2>3, <2>5, <3>1, <3>2, <3>3 DEF KnownOK, Linked
  <2>6. CASE l = "inspect"
    <3>1. o = "recover" /\ journal = [target |-> d.id, prev |-> p]
      BY <2>1, <2>6 DEF Begun
    <3> QED BY <2>2, <2>3, <2>6, <3>1 DEF KnownOK
  <2> QED BY <2>4, <2>5, <2>6
<1>5. CASE CheckDocument(c)
  <2>1. /\ pc[c] = "check" /\ UNCHANGED files
        /\ doc[c] # None /\ op[c] \in {"activate", "stage"}
        /\ prev[c] = ActiveId /\ doc[c].prev = prev[c]
    BY <1>1, <1>5 DEF CheckDocument, HeldOK, KnownOK
  <2>2. ActiveId' = ActiveId /\ activations' = activations
    BY <2>1, ActiveIdStays DEF files
  <2>3. CASE /\ activations[doc[c].id] = None
             /\ Goto(c, "store") /\ UNCHANGED <<op, doc, prev>>
    BY <1>1, <2>1, <2>2, <2>3 DEF Goto, TypeOK, KnownOK
  <2>4. CASE /\ activations[doc[c].id] = doc[c]
             /\ Goto(c, "journal") /\ UNCHANGED <<op, doc, prev>>
    <3>1. prev[c] # None => activations[prev[c]] # None
      BY <1>1, <2>1 DEF ActiveId, NothingDangles
    <3>2. prev[c] # None => Linked(doc[c].id, prev[c])
      BY <2>1, <2>4, <3>1 DEF Linked
    <3>3. pc'[c] = "journal" /\ doc' = doc /\ op' = op /\ prev' = prev
      BY <1>1, <2>4 DEF Goto, TypeOK
    <3> QED BY <2>1, <2>2, <2>4, <3>2, <3>3 DEF KnownOK, Linked
  <2>5. CASE Return(c)
    BY <1>1, <2>5 DEF Return, Goto, TypeOK, KnownOK
  <2> QED BY <1>5, <2>3, <2>4, <2>5 DEF CheckDocument
<1>6. CASE StoreDocument(c)
  <2>1. /\ pc[c] = "store" /\ active' = active /\ journal' = journal
        /\ doc[c] # None /\ op[c] \in {"activate", "stage"}
        /\ prev[c] = ActiveId /\ doc[c].prev = prev[c]
    BY <1>1, <1>6 DEF StoreDocument, HeldOK, KnownOK
  <2>2. ActiveId' = ActiveId
    BY <2>1, ActiveIdStays
  <2>3. doc[c] \in Docs /\ doc[c].id \in Ids /\ prev[c] \in Ids \cup {None}
    BY <1>1, <2>1, DocFields DEF TypeOK
  <2>4. activations'[doc[c].id] = doc[c]
    BY <1>1, <1>6, <2>3 DEF StoreDocument, TypeOK
  <2>5. CASE Goto(c, "journal") /\ UNCHANGED <<op, doc, prev>>
    <3>1. prev[c] # None => activations[prev[c]] # None
      BY <1>1, <2>1 DEF ActiveId, NothingDangles
    <3>2. prev[c] # None => activations'[prev[c]] # None
      BY <2>3, <3>1, Grows DEF OneInv
    <3>3. pc'[c] = "journal" /\ doc' = doc /\ op' = op /\ prev' = prev
      BY <1>1, <2>5 DEF Goto, TypeOK
    <3>4. prev[c] # None => Linked(doc[c].id, prev[c])'
      BY <2>1, <2>4, <3>2, <3>3 DEF Linked
    <3> QED BY <2>1, <2>2, <2>4, <3>3, <3>4 DEF KnownOK, Linked
  <2>6. CASE Return(c)
    BY <1>1, <2>6 DEF Return, Goto, TypeOK, KnownOK
  <2> QED BY <1>6, <2>5, <2>6 DEF StoreDocument
<1>7. CASE WriteJournal(c)
  <2>1. /\ pc[c] = "journal" /\ pc'[c] = "pointer" /\ op' = op /\ doc' = doc /\ prev' = prev
        /\ active' = active /\ activations' = activations
        /\ journal' = [target |-> doc[c].id, prev |-> prev[c]]
    BY <1>1, <1>7 DEF WriteJournal, Goto, TypeOK
  <2>2. ActiveId' = ActiveId
    BY <2>1, ActiveIdStays
  <2> QED BY <1>1, <2>1, <2>2 DEF KnownOK, HeldOK
<1>8. CASE WritePointer(c)
  BY <1>1, <1>8 DEF WritePointer, Goto, TypeOK, KnownOK
<1>9. CASE ClearJournal(c) \/ Stop(c)
  BY <1>1, <1>9 DEF ClearJournal, Stop, Return, Goto, TypeOK, KnownOK
<1>10. CASE RecoverInspect(c)
  <2>1. /\ pc[c] = "inspect" /\ UNCHANGED files /\ sound' = sound
        /\ op[c] = "recover" /\ doc[c] # None
        /\ journal = [target |-> doc[c].id, prev |-> prev[c]]
    BY <1>1, <1>10 DEF RecoverInspect, KnownOK
  <2>2. ActiveId' = ActiveId /\ activations' = activations /\ journal' = journal
    BY <2>1, ActiveIdStays DEF files
  <2>3. CASE Goto(c, "clear") \/ Return(c)
    BY <1>1, <2>3 DEF Return, Goto, TypeOK, KnownOK
  <2>4. doc[c].id \in Ids /\ prev[c] \in Ids \cup {None}
    BY <1>1, <2>1, DocFields DEF TypeOK
  <2>5. journal # None
    BY <2>1, <2>4, ActivationAssumption DEF Journals
  <2>6. ASSUME ~ (active # None /\ active.id = doc[c].id /\ active.id \in sound)
        PROVE  ActiveId = prev[c] \/ ActiveId \notin sound
    <3>1. ActiveId \in {doc[c].id, prev[c]}
      BY <1>1, <2>1, <2>5 DEF JournalInv
    <3> QED BY <2>4, <2>6, <3>1, ActivationAssumption DEF ActiveId
  <2>7. CASE /\ ~ (active # None /\ active.id = doc[c].id /\ active.id \in sound)
             /\ prev[c] = None /\ doc' = [doc EXCEPT ![c] = None]
             /\ Goto(c, "pointer") /\ UNCHANGED <<op, prev>>
    <3>1. pc'[c] = "pointer" /\ doc'[c] = None
      BY <1>1, <2>7 DEF Goto, TypeOK
    <3> QED BY <2>1, <2>2, <2>5, <2>6, <2>7, <3>1 DEF KnownOK
  <2>8. CASE /\ ~ (active # None /\ active.id = doc[c].id /\ active.id \in sound)
             /\ prev[c] # None /\ Restorable(prev[c])
             /\ doc' = [doc EXCEPT ![c] = activations[prev[c]]]
             /\ Goto(c, "pointer") /\ UNCHANGED <<op, prev>>
    <3>1. pc'[c] = "pointer" /\ doc'[c] = activations[prev[c]]
      BY <1>1, <2>8 DEF Goto, TypeOK
    <3>2. activations[prev[c]] # None /\ activations[prev[c]].id = prev[c]
      BY <1>1, <2>4, <2>8 DEF Restorable, DocsInv
    <3> QED BY <2>1, <2>2, <2>5, <2>6, <2>8, <3>1, <3>2 DEF KnownOK
  <2> QED BY <1>10, <2>3, <2>7, <2>8 DEF RecoverInspect
<1>11. ASSUME NEW u \in Callers PROVE u = c
  BY DEF OneCaller
<1> QED BY <1>2, <1>3, <1>4, <1>5, <1>6, <1>7, <1>8, <1>9, <1>10, <1>11
        DEF Next, Continue

LEMMA OneInit == Init => OneInv
<1> SUFFICES ASSUME Init PROVE OneInv
  OBVIOUS
<1>1. KnownInv
  BY DEF Init, KnownInv, KnownOK
<1> QED BY <1>1, SafeInit DEF Init, OneInv, ActiveInv, JournalInv

LEMMA OneStep == OneCaller => (OneInv /\ [Next]_vars => OneInv')
BY SafeStep, ActiveStep, JournalStep, KnownStep DEF OneInv

(* One command at a time, with any interruptions and damage: the pointer   *)
(* moves along links only, so that what a rollback leads to is what was    *)
(* active when the activation was prepared.                                *)
THEOREM MovesLinked == OneCaller => (Spec => LinkedMoves)
<1> SUFFICES ASSUME OneCaller PROVE Spec => LinkedMoves
  OBVIOUS
<1> DEFINE Move == (active # None /\ active' # None /\ active'.id # active.id) =>
                     active'.prev = active.id \/ active.prev = active'.id
<1>1. OneInv /\ [Next]_vars => [Move]_vars
  <2> SUFFICES ASSUME OneInv, [Next]_vars, active # None, active' # None,
                      active'.id # active.id
               PROVE  active'.prev = active.id \/ active.prev = active'.id
    OBVIOUS
  <2>1. PICK c \in Callers : WritePointer(c)
    BY PointerOnly
  <2>2. active' = doc[c] /\ pc[c] = "pointer" /\ ActiveId = active.id
    BY <2>1 DEF WritePointer, ActiveId
  <2>3. doc[c].prev = activations[doc[c].id].prev /\ active.prev = activations[active.id].prev
    BY <2>2 DEF OneInv, KnownInv, KnownOK, ActiveInv
  <2>4. journal # None /\ journal.prev \in {active.id, doc[c].id} /\ journal.prev # None
        /\ journal.target \in {active.id, doc[c].id} /\ journal.target # journal.prev
    <3>1. TypeOK /\ TypeOK' /\ JournalInv /\ KnownOK(c)
      BY TypeStep DEF OneInv, Safe, KnownInv
    <3>2. active.id \in Ids /\ doc[c].id \in Ids /\ None \notin Ids
      BY <2>2, <3>1, DocFields, ActivationAssumption DEF TypeOK
    <3>3. CASE op[c] # "recover"
      <4>1. journal = [target |-> doc[c].id, prev |-> active.id]
        BY <2>2, <3>1, <3>3 DEF KnownOK
      <4> QED BY <2>2, <3>2, <4>1, ActivationAssumption DEF Journals
    <3>4. CASE op[c] = "recover"
      <4>1. journal # None /\ journal.prev = doc[c].id
        BY <2>2, <3>1, <3>4 DEF KnownOK
      <4>2. journal.target = active.id
        BY <2>2, <3>1, <4>1 DEF JournalInv
      <4> QED BY <2>2, <3>2, <4>1, <4>2
    <3> QED BY <3>3, <3>4
  <2>5. Linked(journal.target, journal.prev)
    BY <2>4 DEF OneInv, JournalInv
  <2> QED BY <2>2, <2>3, <2>4, <2>5 DEF Linked
<1>2. OneInv /\ [Next]_vars => OneInv'
  BY OneStep
<1> QED BY <1>1, <1>2, OneInit, PTL DEF Spec, LinkedMoves

(* One command at a time: recovery moves the pointer away from an          *)
(* activation only if that activation does not validate.                   *)
THEOREM RecoverySafe == OneCaller => (Spec => RecoverOnlyRepairs)
<1> SUFFICES ASSUME OneCaller PROVE Spec => RecoverOnlyRepairs
  OBVIOUS
<1> DEFINE Repair == \A c \in Callers :
                       (op[c] = "recover" /\ ActiveId' # ActiveId) => ActiveId \notin sound
<1>1. OneInv /\ [Next]_vars => [Repair]_vars
  <2> SUFFICES ASSUME OneInv, [Next]_vars, NEW c \in Callers, op[c] = "recover",
                      ActiveId' # ActiveId
               PROVE  ActiveId \notin sound
    OBVIOUS
  <2>1. WritePointer(c)
    BY PointerOnly, ActiveIdStays DEF OneCaller
  <2>2. active' = doc[c] /\ pc[c] = "pointer"
    BY <2>1 DEF WritePointer
  <2>3. /\ IF doc[c] = None THEN prev[c] = None ELSE prev[c] = doc[c].id
        /\ ActiveId = prev[c] \/ ActiveId \notin sound
    BY <2>2 DEF OneInv, KnownInv, KnownOK
  <2> QED BY <2>2, <2>3 DEF ActiveId
<1>2. OneInv /\ [Next]_vars => OneInv'
  BY OneStep
<1> QED BY <1>1, <1>2, OneInit, PTL DEF Spec, RecoverOnlyRepairs

(* One command at a time, stops and damage included: recovery finds what   *)
(* it needs and undoes nothing that still validates (Recover).             *)
THEOREM RecoveryIsSound == OneCaller => (Spec => RecoverSound)
<1> SUFFICES ASSUME OneCaller PROVE Spec => RecoverSound
  OBVIOUS
<1> QED BY Anchored, RecoverySafe, PTL DEF RecoverSound


-----------------------------------------------------------------------------
(* The generations of a process: catalogruntime.Registry.                  *)

Places == {"out", "count", "recheck", "retired", "undo", "undo_signal", "again", "lease", "release_signal"}

RegistryTypeOK ==
    /\ generation \in Generations \cup {NoGen}
    /\ epoch \in Nat
    /\ gen \in [Generations -> [epoch : Nat, readers : Int, retired : BOOLEAN, drained : BOOLEAN]]
    /\ installer \in [at : {"free", "retire", "signal"}, g : Generations \cup {NoGen}, old : Generations \cup {NoGen}]
    /\ reader \in [Readers -> [at : Places, g : Generations \cup {NoGen}]]

\* a reader in the middle of Acquire, or with a lease, is at a generation
ReaderInv == \A r \in Readers : reader[r].at # "out" => reader[r].g \in Generations

\* the readers that are in the count of a generation
Counted(g) == {r \in Readers : reader[r].g = g /\ reader[r].at \in {"recheck", "retired", "undo", "lease"}}
CountInv == \A g \in Generations : gen[g].readers = Cardinality(Counted(g))

\* what was replaced is not active, now or later
RetireInv ==
    /\ generation # NoGen => gen[generation].epoch > 0 /\ ~gen[generation].retired
    /\ \A g \in Generations : gen[g].retired => gen[g].epoch > 0
    /\ installer.at # "free" => installer.old \in Generations /\ installer.old # generation
            /\ gen[installer.old].epoch > 0
    /\ installer.at = "signal" => gen[installer.old].retired

\* a generation that was reported drained is read by nobody
DrainInv ==
    \A g \in Generations : gen[g].drained =>
        gen[g].retired /\ \A r \in Readers : reader[r].g = g => reader[r].at \notin {"lease", "retired"}

RegistryInv == RegistryTypeOK /\ ReaderInv /\ CountInv /\ RetireInv /\ DrainInv

-----------------------------------------------------------------------------
\* The initial states satisfy the invariant.
LEMMA RegistryInitInv ==
  ASSUME RegistryFits, Registry!Init
  PROVE  RegistryInv
<1>1. RegistryTypeOK
  BY DEF Registry!Init, RegistryTypeOK, Registry!Free, Registry!Outside, Places
<1>2. \A g \in Generations : Counted(g) = {}
  BY DEF Registry!Init, Counted, Registry!Outside
<1>3. CountInv
  BY <1>2, FS_EmptySet DEF Registry!Init, CountInv
<1> QED
  BY <1>1, <1>3 DEF RegistryInv, ReaderInv, RetireInv, DrainInv, Registry!Init, Registry!Outside, Registry!Free

\* Only who is counted changes a count: the effect of one reader's step.
LEMMA CountedStep ==
  ASSUME RegistryFits, NEW r \in Readers, NEW g,
         \A q \in Readers \ {r} : reader'[q] = reader[q]
  PROVE  /\ IsFiniteSet(Counted(g)) /\ Cardinality(Counted(g)) \in Nat
         /\ r \in Counted(g) /\ r \in Counted(g)' => Counted(g)' = Counted(g)
         /\ r \notin Counted(g) /\ r \notin Counted(g)' => Counted(g)' = Counted(g)
         /\ r \notin Counted(g) /\ r \in Counted(g)' => Cardinality(Counted(g)') = Cardinality(Counted(g)) + 1
         /\ r \in Counted(g) /\ r \notin Counted(g)' => Cardinality(Counted(g)') = Cardinality(Counted(g)) - 1
<1>1. IsFiniteSet(Counted(g)) /\ Cardinality(Counted(g)) \in Nat
  <2>1. Counted(g) \in SUBSET Readers /\ IsFiniteSet(Readers)
    BY DEF Counted, RegistryFits
  <2> QED
    BY <2>1, FS_Subset, FS_CardinalityType
<1>2. \A q \in Readers \ {r} : q \in Counted(g)' <=> q \in Counted(g)
  BY DEF Counted
<1>3. Counted(g) \in SUBSET Readers /\ Counted(g)' \in SUBSET Readers
  BY DEF Counted
<1>4. CASE r \in Counted(g) <=> r \in Counted(g)'
  <2>1. Counted(g)' = Counted(g)
    BY <1>2, <1>3, <1>4
  <2> QED
    BY <1>1, <1>4, <2>1
<1>5. CASE r \notin Counted(g) /\ r \in Counted(g)'
  <2>1. Counted(g)' = Counted(g) \cup {r}
    BY <1>2, <1>3, <1>5
  <2>2. Cardinality(Counted(g) \cup {r}) = Cardinality(Counted(g)) + 1
    BY <1>1, <1>5, FS_AddElement
  <2> QED
    BY <1>1, <1>5, <2>1, <2>2
<1>6. CASE r \in Counted(g) /\ r \notin Counted(g)'
  <2>1. Counted(g)' = Counted(g) \ {r}
    BY <1>2, <1>3, <1>6
  <2>2. Cardinality(Counted(g) \ {r}) = Cardinality(Counted(g)) - 1
    BY <1>1, <1>6, FS_RemoveElement
  <2> QED
    BY <1>1, <1>6, <2>1, <2>2
<1> QED
  BY <1>4, <1>5, <1>6

\* A count of zero means that nobody reads.
LEMMA ZeroIsUnread ==
  ASSUME RegistryFits, RegistryInv, NEW g \in Generations, gen[g].readers = 0
  PROVE  \A r \in Readers : reader[r].g = g => reader[r].at \notin {"lease", "retired"}
<1>1. Counted(g) \in SUBSET Readers /\ IsFiniteSet(Readers)
  BY DEF Counted, RegistryFits
<1>2. IsFiniteSet(Counted(g))
  BY <1>1, FS_Subset
<1>3. Counted(g) = {}
  BY <1>2, FS_EmptySet DEF RegistryInv, CountInv
<1> QED
  BY <1>3 DEF Counted

\* Signalling reports a generation drained that is retired and unread.
LEMMA SignalInv ==
  ASSUME RegistryFits, RegistryInv, NEW h \in Generations, gen' = Registry!signal(gen, h),
         UNCHANGED <<generation, epoch>>,
         \A g \in Generations : Counted(g)' = Counted(g),
         \A r \in Readers : reader'[r].at \in {"lease", "retired"} => reader'[r] = reader[r]
  PROVE  /\ gen' \in [Generations -> [epoch : Nat, readers : Int, retired : BOOLEAN, drained : BOOLEAN]]
         /\ \A g \in Generations : gen'[g].epoch = gen[g].epoch /\ gen'[g].retired = gen[g].retired
         /\ CountInv' /\ DrainInv'
<1>1. CASE ~(gen[h].retired /\ gen[h].readers = 0)
  <2>1. gen' = gen
    BY <1>1 DEF Registry!signal
  <2> QED
    BY <2>1 DEF RegistryInv, RegistryTypeOK, CountInv, DrainInv
<1>2. CASE gen[h].retired /\ gen[h].readers = 0
  <2>1. gen' = [gen EXCEPT ![h].drained = TRUE]
    BY <1>2 DEF Registry!signal
  <2>2. /\ gen' \in [Generations -> [epoch : Nat, readers : Int, retired : BOOLEAN, drained : BOOLEAN]]
        /\ \A g \in Generations : gen'[g].epoch = gen[g].epoch /\ gen'[g].retired = gen[g].retired
        /\ \A g \in Generations : gen'[g].readers = gen[g].readers
        /\ \A g \in Generations : g # h => gen'[g].drained = gen[g].drained
    <3>1. gen \in [Generations -> [epoch : Nat, readers : Int, retired : BOOLEAN, drained : BOOLEAN]]
      BY DEF RegistryInv, RegistryTypeOK
    <3>2. \A g \in Generations : gen'[g] = IF g = h THEN [gen[h] EXCEPT !.drained = TRUE] ELSE gen[g]
      BY <2>1, <3>1
    <3>3. [gen[h] EXCEPT !.drained = TRUE] \in [epoch : Nat, readers : Int, retired : BOOLEAN, drained : BOOLEAN]
      BY <3>1
    <3> QED
      BY <2>1, <3>1, <3>2, <3>3
  <2>3. CountInv'
    BY <2>2 DEF RegistryInv, CountInv
  <2>4. \A r \in Readers : reader[r].g = h => reader[r].at \notin {"lease", "retired"}
    BY <1>2, ZeroIsUnread
  <2>5. DrainInv'
    BY <1>2, <2>2, <2>4 DEF RegistryInv, DrainInv
  <2> QED
    BY <2>2, <2>3, <2>5
<1> QED
  BY <1>1, <1>2
-----------------------------------------------------------------------------
\* The steps of an activation.
LEMMA SwapStep ==
  ASSUME RegistryFits, RegistryInv, NEW g \in Generations, Registry!ActivateSwap(g)
  PROVE  RegistryInv'
<1>1. /\ generation # g /\ epoch' > 0 /\ epoch' \in Nat /\ reader' = reader /\ generation' = g
      /\ gen' \in [Generations -> [epoch : Nat, readers : Int, retired : BOOLEAN, drained : BOOLEAN]]
      /\ gen'[g].epoch = epoch' /\ ~gen'[g].retired
  BY DEF Registry!ActivateSwap, RegistryInv, RegistryTypeOK, RetireInv, RegistryFits
<1>2. \A h \in Generations : gen'[h].retired = gen[h].retired /\ gen'[h].drained = gen[h].drained
           /\ gen'[h].readers = gen[h].readers
  BY DEF Registry!ActivateSwap, RegistryInv, RegistryTypeOK
<1>3. \A h \in Generations : h # g => gen'[h] = gen[h]
  BY DEF Registry!ActivateSwap, RegistryInv, RegistryTypeOK
<1>4. RegistryTypeOK'
  BY <1>1 DEF Registry!ActivateSwap, RegistryInv, RegistryTypeOK, Registry!Free
<1>5. \A h \in Generations : Counted(h)' = Counted(h)
  BY <1>1 DEF Counted
<1>6. CountInv'
  BY <1>2, <1>5 DEF RegistryInv, CountInv
<1>7. RetireInv'
  <2>1. generation # NoGen => generation \in Generations /\ gen'[generation].epoch > 0
    BY <1>1, <1>3 DEF RegistryInv, RegistryTypeOK, RetireInv
  <2>2. \A h \in Generations : gen'[h].retired => gen'[h].epoch > 0
    BY <1>1, <1>2, <1>3 DEF RegistryInv, RetireInv
  <2>3. installer' = Registry!Free \/ (generation # NoGen /\ installer'.at = "retire" /\ installer'.old = generation)
    BY DEF Registry!ActivateSwap, Registry!Free
  <2> QED
    BY <1>1, <2>1, <2>2, <2>3 DEF RetireInv, Registry!Free
<1> QED
  BY <1>1, <1>2, <1>4, <1>6, <1>7 DEF RegistryInv, ReaderInv, DrainInv

LEMMA RetireStep ==
  ASSUME RegistryFits, RegistryInv, Registry!ActivateRetire
  PROVE  RegistryInv'
<1>1. installer.old \in Generations /\ installer.old # generation
  BY DEF Registry!ActivateRetire, RegistryInv, RetireInv
<1>2. /\ gen' \in [Generations -> [epoch : Nat, readers : Int, retired : BOOLEAN, drained : BOOLEAN]]
      /\ \A h \in Generations : gen'[h].epoch = gen[h].epoch /\ gen'[h].drained = gen[h].drained
              /\ gen'[h].readers = gen[h].readers
      /\ \A h \in Generations : h # installer.old => gen'[h].retired = gen[h].retired
      /\ gen'[installer.old].retired
  BY <1>1 DEF Registry!ActivateRetire, RegistryInv, RegistryTypeOK
<1>3. RegistryTypeOK'
  BY <1>2 DEF Registry!ActivateRetire, RegistryInv, RegistryTypeOK
<1>4. \A h \in Generations : Counted(h)' = Counted(h)
  BY DEF Registry!ActivateRetire, Counted
<1>5. CountInv'
  BY <1>2, <1>4 DEF RegistryInv, CountInv
<1>6. installer'.at = "signal" /\ installer'.old = installer.old /\ generation' = generation /\ reader' = reader
  BY DEF Registry!ActivateRetire, RegistryInv, RegistryTypeOK
<1>7. RetireInv'
  <2>1. generation # NoGen => gen'[generation].epoch > 0 /\ ~gen'[generation].retired
    BY <1>1, <1>2 DEF RegistryInv, RegistryTypeOK, RetireInv
  <2>2. gen[installer.old].epoch > 0
    BY DEF Registry!ActivateRetire, RegistryInv, RetireInv
  <2> QED
    BY <1>1, <1>2, <1>6, <2>1, <2>2 DEF RegistryInv, RetireInv
<1> QED
  BY <1>2, <1>3, <1>5, <1>6, <1>7 DEF RegistryInv, ReaderInv, DrainInv

LEMMA SignalStep ==
  ASSUME RegistryFits, RegistryInv, Registry!ActivateSignal
  PROVE  RegistryInv'
<1>1. installer.old \in Generations
  BY DEF Registry!ActivateSignal, RegistryInv, RetireInv
<1>2. /\ gen' = Registry!signal(gen, installer.old) /\ reader' = reader /\ generation' = generation /\ epoch' = epoch
      /\ installer'.at = "free" /\ installer' = Registry!Free
  BY DEF Registry!ActivateSignal, Registry!Free
<1>3. \A h \in Generations : Counted(h)' = Counted(h)
  BY <1>2 DEF Counted
<1>4. /\ gen' \in [Generations -> [epoch : Nat, readers : Int, retired : BOOLEAN, drained : BOOLEAN]]
      /\ \A g \in Generations : gen'[g].epoch = gen[g].epoch /\ gen'[g].retired = gen[g].retired
      /\ CountInv' /\ DrainInv'
  BY <1>1, <1>2, <1>3, SignalInv
<1>5. RegistryTypeOK'
  BY <1>2, <1>4 DEF RegistryInv, RegistryTypeOK, Registry!Free
<1>6. RetireInv'
  BY <1>2, <1>4 DEF RegistryInv, RegistryTypeOK, RetireInv
<1> QED
  BY <1>2, <1>4, <1>5, <1>6 DEF RegistryInv, ReaderInv
-----------------------------------------------------------------------------
\* What a reader's step leaves alone, when it does not signal.
LEMMA ReaderStep ==
  ASSUME RegistryFits, RegistryInv, NEW r \in Readers,
         UNCHANGED <<generation, epoch, installer>>,
         gen' \in [Generations -> [epoch : Nat, readers : Int, retired : BOOLEAN, drained : BOOLEAN]],
         \A g \in Generations :
            gen'[g].epoch = gen[g].epoch /\ gen'[g].retired = gen[g].retired /\ gen'[g].drained = gen[g].drained,
         reader' \in [Readers -> [at : Places, g : Generations \cup {NoGen}]],
         \A q \in Readers \ {r} : reader'[q] = reader[q],
         reader'[r].at # "out" => reader'[r].g \in Generations,
         reader'[r].at \in {"lease", "retired"} => ~gen[reader'[r].g].drained,
         \A g \in Generations : gen'[g].readers = Cardinality(Counted(g)')
  PROVE  RegistryInv'
<1>1. RegistryTypeOK'
  BY DEF RegistryInv, RegistryTypeOK
<1>2. ReaderInv'
  BY DEF RegistryInv, ReaderInv
<1>3. CountInv'
  BY DEF CountInv
<1>4. RetireInv'
  BY DEF RegistryInv, RegistryTypeOK, RetireInv
<1>5. DrainInv'
  <2> SUFFICES ASSUME NEW g \in Generations, gen'[g].drained
               PROVE  gen'[g].retired
                      /\ \A q \in Readers : reader'[q].g = g => reader'[q].at \notin {"lease", "retired"}
    BY DEF DrainInv
  <2>1. gen[g].drained /\ gen[g].retired /\ gen'[g].retired
    BY DEF RegistryInv, DrainInv
  <2>2. \A q \in Readers : q # r => (reader'[q].g = g => reader'[q].at \notin {"lease", "retired"})
    BY <2>1 DEF RegistryInv, DrainInv
  <2>3. reader'[r].g = g => reader'[r].at \notin {"lease", "retired"}
    BY <2>1
  <2> QED
    BY <2>1, <2>2, <2>3
<1> QED
  BY <1>1, <1>2, <1>3, <1>4, <1>5 DEF RegistryInv

\* A reader that moves without entering or leaving a count.
LEMMA QuietStep ==
  ASSUME RegistryFits, RegistryInv, NEW r \in Readers,
         UNCHANGED <<generation, epoch, installer, gen>>,
         reader' \in [Readers -> [at : Places, g : Generations \cup {NoGen}]],
         \A q \in Readers \ {r} : reader'[q] = reader[q],
         reader'[r].at # "out" => reader'[r].g \in Generations,
         reader'[r].at \in {"lease", "retired"} => ~gen[reader'[r].g].drained,
         \A g \in Generations : r \in Counted(g)' <=> r \in Counted(g)
  PROVE  RegistryInv'
<1>1. \A g \in Generations : Counted(g)' = Counted(g)
  BY CountedStep
<1>2. \A g \in Generations : gen'[g].readers = Cardinality(Counted(g)')
  BY <1>1 DEF RegistryInv, CountInv
<1>3. gen' \in [Generations -> [epoch : Nat, readers : Int, retired : BOOLEAN, drained : BOOLEAN]]
  BY DEF RegistryInv, RegistryTypeOK
<1> QED
  BY <1>2, <1>3, ReaderStep

\* A reader that enters a count or leaves it.
LEMMA CountingStep ==
  ASSUME RegistryFits, RegistryInv, NEW r \in Readers, NEW g \in Generations, NEW n \in Int,
         gen' = [gen EXCEPT ![g].readers = n],
         UNCHANGED <<generation, epoch, installer>>,
         reader' \in [Readers -> [at : Places, g : Generations \cup {NoGen}]],
         \A q \in Readers \ {r} : reader'[q] = reader[q],
         reader'[r].at # "out" => reader'[r].g \in Generations,
         reader'[r].at \notin {"lease", "retired"},
         \A h \in Generations : h # g => (r \in Counted(h)' <=> r \in Counted(h)),
         \/ n = gen[g].readers + 1 /\ r \notin Counted(g) /\ r \in Counted(g)'
         \/ n = gen[g].readers - 1 /\ r \in Counted(g) /\ r \notin Counted(g)'
  PROVE  RegistryInv'
<1>1. gen \in [Generations -> [epoch : Nat, readers : Int, retired : BOOLEAN, drained : BOOLEAN]]
  BY DEF RegistryInv, RegistryTypeOK
<1>2. \A h \in Generations : gen'[h] = IF h = g THEN [gen[g] EXCEPT !.readers = n] ELSE gen[h]
  BY <1>1
<1>3. [gen[g] EXCEPT !.readers = n] \in [epoch : Nat, readers : Int, retired : BOOLEAN, drained : BOOLEAN]
  BY <1>1
<1>4. gen' \in [Generations -> [epoch : Nat, readers : Int, retired : BOOLEAN, drained : BOOLEAN]]
  BY <1>1, <1>2, <1>3
<1>5. \A h \in Generations :
         gen'[h].epoch = gen[h].epoch /\ gen'[h].retired = gen[h].retired /\ gen'[h].drained = gen[h].drained
  BY <1>1, <1>2
<1>6. \A h \in Generations \ {g} : gen'[h].readers = Cardinality(Counted(h)')
  <2>1. \A h \in Generations \ {g} : Counted(h)' = Counted(h)
    BY CountedStep
  <2> QED
    BY <1>2, <2>1 DEF RegistryInv, CountInv
<1>7. gen'[g].readers = Cardinality(Counted(g)')
  <2>1. gen'[g].readers = n /\ gen[g].readers = Cardinality(Counted(g))
    BY <1>1, <1>2 DEF RegistryInv, CountInv
  <2>2. Cardinality(Counted(g)') = n
    BY <2>1, CountedStep
  <2> QED
    BY <2>1, <2>2
<1>8. \A h \in Generations : gen'[h].readers = Cardinality(Counted(h)')
  BY <1>6, <1>7
<1> QED
  BY <1>4, <1>5, <1>8, ReaderStep
-----------------------------------------------------------------------------
\* The steps of Acquire and Release.
LEMMA AcquireLoadStep ==
  ASSUME RegistryFits, RegistryInv, NEW r \in Readers, Registry!AcquireLoad(r)
  PROVE  RegistryInv'
<1>1. reader[r].at \in {"out", "again"} /\ generation \in Generations
  BY DEF Registry!AcquireLoad, RegistryInv, RegistryTypeOK
<1>2. reader' = [reader EXCEPT ![r] = [at |-> "count", g |-> generation]]
      /\ UNCHANGED <<generation, epoch, installer, gen>>
  BY DEF Registry!AcquireLoad
<1>3. reader' \in [Readers -> [at : Places, g : Generations \cup {NoGen}]] /\ reader'[r].at = "count"
           /\ reader'[r].g = generation
  BY <1>1, <1>2 DEF RegistryInv, RegistryTypeOK, Places
<1>4. \A q \in Readers \ {r} : reader'[q] = reader[q]
  BY <1>2 DEF RegistryInv, RegistryTypeOK
<1>5. \A g \in Generations : r \notin Counted(g)' /\ r \notin Counted(g)
  BY <1>1, <1>3 DEF Counted
<1> QED
  BY <1>1, <1>2, <1>3, <1>4, <1>5, QuietStep

\* The reader's record after a step that moves it within its generation.
LEMMA Moved ==
  ASSUME RegistryInv, NEW r \in Readers, NEW at \in Places, Registry!Step(r, at)
  PROVE  /\ reader' \in [Readers -> [at : Places, g : Generations \cup {NoGen}]]
         /\ reader'[r].at = at /\ reader'[r].g = reader[r].g
         /\ \A q \in Readers \ {r} : reader'[q] = reader[q]
<1>1. reader \in [Readers -> [at : Places, g : Generations \cup {NoGen}]]
  BY DEF RegistryInv, RegistryTypeOK
<1>2. reader' = [reader EXCEPT ![r].at = at]
  BY DEF Registry!Step
<1> QED
  BY <1>1, <1>2

LEMMA AcquireCountStep ==
  ASSUME RegistryFits, RegistryInv, NEW r \in Readers, Registry!AcquireCount(r)
  PROVE  RegistryInv'
<1>1. PICK g \in Generations : g = reader[r].g /\ reader[r].at = "count"
  BY DEF Registry!AcquireCount, RegistryInv, ReaderInv
<1>2. gen' = [gen EXCEPT ![g].readers = gen[g].readers + 1] /\ Registry!Step(r, "recheck")
      /\ UNCHANGED <<generation, epoch, installer>>
  BY <1>1 DEF Registry!AcquireCount
<1>3. /\ reader' \in [Readers -> [at : Places, g : Generations \cup {NoGen}]]
      /\ reader'[r].at = "recheck" /\ reader'[r].g = g
      /\ \A q \in Readers \ {r} : reader'[q] = reader[q]
  BY <1>1, <1>2, Moved DEF Places
<1>4. r \notin Counted(g) /\ r \in Counted(g)'
  BY <1>1, <1>3 DEF Counted
<1>5. \A h \in Generations : h # g => (r \in Counted(h)' <=> r \in Counted(h))
  BY <1>1, <1>3 DEF Counted
<1>6. reader'[r].at \notin {"lease", "retired"} /\ reader'[r].g \in Generations /\ gen[g].readers + 1 \in Int
  BY <1>1, <1>3 DEF RegistryInv, RegistryTypeOK
<1> QED
  BY <1>2, <1>3, <1>4, <1>5, <1>6, CountingStep

\* Both looks: nobody passes the second who could be at a drained generation.
LEMMA LookStep ==
  ASSUME RegistryFits, RegistryInv, NEW r \in Readers, Registry!AcquireRecheck(r) \/ Registry!AcquireRetired(r)
  PROVE  RegistryInv'
<1>1. reader[r].at \in {"recheck", "retired"} /\ reader[r].g \in Generations
      /\ UNCHANGED <<generation, epoch, installer, gen>>
  BY DEF Registry!AcquireRecheck, Registry!AcquireRetired, RegistryInv, ReaderInv
<1>2. PICK at \in {"retired", "undo", "lease"} : Registry!Step(r, at)
           /\ (at \in {"retired", "lease"} => ~gen[reader[r].g].drained)
  <2>1. CASE Registry!AcquireRecheck(r)
    <3>1. generation = reader[r].g => ~gen[reader[r].g].drained
      BY <1>1 DEF RegistryInv, RegistryTypeOK, RetireInv, DrainInv, RegistryFits
    <3> QED
      BY <2>1, <3>1 DEF Registry!AcquireRecheck
  <2>2. CASE Registry!AcquireRetired(r)
    <3>1. ~gen[reader[r].g].retired => ~gen[reader[r].g].drained
      BY <1>1 DEF RegistryInv, DrainInv
    <3> QED
      BY <2>2, <3>1 DEF Registry!AcquireRetired
  <2> QED
    BY <2>1, <2>2
<1>3. /\ reader' \in [Readers -> [at : Places, g : Generations \cup {NoGen}]]
      /\ reader'[r].at = at /\ reader'[r].g = reader[r].g
      /\ \A q \in Readers \ {r} : reader'[q] = reader[q]
  BY <1>2, Moved DEF Places
<1>4. \A g \in Generations : r \in Counted(g)' <=> r \in Counted(g)
  BY <1>1, <1>2, <1>3 DEF Counted
<1> QED
  BY <1>1, <1>2, <1>3, <1>4, QuietStep

LEMMA LeaveStep ==
  ASSUME RegistryFits, RegistryInv, NEW r \in Readers, NEW at \in {"undo", "lease"},
         NEW sig \in {"undo_signal", "release_signal"}, NEW to \in {"again", "out"}, Registry!Leave(r, at, sig, to)
  PROVE  RegistryInv'
<1>1. PICK g \in Generations : g = reader[r].g /\ reader[r].at = at
  BY DEF Registry!Leave, RegistryInv, ReaderInv
<1>2. gen' = [gen EXCEPT ![g].readers = gen[g].readers - 1] /\ UNCHANGED <<generation, epoch, installer>>
  BY <1>1 DEF Registry!Leave
<1>3. PICK p \in {sig, to} : Registry!Step(r, p)
  BY DEF Registry!Leave
<1>4. /\ reader' \in [Readers -> [at : Places, g : Generations \cup {NoGen}]]
      /\ reader'[r].at = p /\ reader'[r].g = g
      /\ \A q \in Readers \ {r} : reader'[q] = reader[q]
  BY <1>1, <1>3, Moved DEF Places
<1>5. r \in Counted(g) /\ r \notin Counted(g)'
  BY <1>1, <1>3, <1>4 DEF Counted
<1>6. \A h \in Generations : h # g => (r \in Counted(h)' <=> r \in Counted(h))
  BY <1>1, <1>4 DEF Counted
<1>7. reader'[r].at \notin {"lease", "retired"} /\ reader'[r].g \in Generations /\ gen[g].readers - 1 \in Int
  BY <1>1, <1>3, <1>4 DEF RegistryInv, RegistryTypeOK
<1> QED
  BY <1>2, <1>4, <1>5, <1>6, <1>7, CountingStep

LEMMA LeaveSignalStep ==
  ASSUME RegistryFits, RegistryInv, NEW r \in Readers, NEW sig \in {"undo_signal", "release_signal"},
         NEW to \in {"again", "out"},
         Registry!LeaveSignal(r, sig, to)
  PROVE  RegistryInv'
<1>1. reader[r].at = sig /\ reader[r].g \in Generations
  BY DEF Registry!LeaveSignal, RegistryInv, ReaderInv
<1>2. gen' = Registry!signal(gen, reader[r].g) /\ Registry!Step(r, to) /\ UNCHANGED <<generation, epoch, installer>>
  BY DEF Registry!LeaveSignal
<1>3. /\ reader' \in [Readers -> [at : Places, g : Generations \cup {NoGen}]]
      /\ reader'[r].at = to /\ reader'[r].g = reader[r].g
      /\ \A q \in Readers \ {r} : reader'[q] = reader[q]
  BY <1>2, Moved DEF Places
<1>4. \A g \in Generations : Counted(g)' = Counted(g)
  <2>1. \A g \in Generations : r \notin Counted(g) /\ r \notin Counted(g)'
    BY <1>1, <1>3 DEF Counted
  <2> QED
    BY <1>3, <2>1, CountedStep
<1>5. \A q \in Readers : reader'[q].at \in {"lease", "retired"} => reader'[q] = reader[q]
  BY <1>3
<1>6. /\ gen' \in [Generations -> [epoch : Nat, readers : Int, retired : BOOLEAN, drained : BOOLEAN]]
      /\ \A g \in Generations : gen'[g].epoch = gen[g].epoch /\ gen'[g].retired = gen[g].retired
      /\ CountInv' /\ DrainInv'
  BY <1>1, <1>2, <1>4, <1>5, SignalInv
<1>7. RegistryTypeOK'
  BY <1>2, <1>3, <1>6 DEF RegistryInv, RegistryTypeOK
<1>8. RetireInv'
  BY <1>2, <1>6 DEF RegistryInv, RegistryTypeOK, RetireInv
<1>9. ReaderInv'
  BY <1>1, <1>3 DEF RegistryInv, ReaderInv
<1> QED
  BY <1>6, <1>7, <1>8, <1>9 DEF RegistryInv

\* Every step preserves the invariant.
LEMMA RegistryNextInv ==
  ASSUME RegistryFits, RegistryInv, [Registry!Next]_(Registry!vars)
  PROVE  RegistryInv'
<1>1. CASE UNCHANGED Registry!vars
  BY <1>1 DEF Registry!vars, RegistryInv, RegistryTypeOK, ReaderInv, CountInv, Counted, RetireInv, DrainInv
<1>2. ASSUME NEW g \in Generations, Registry!ActivateSwap(g) PROVE RegistryInv'
  BY <1>2, SwapStep
<1>3. CASE Registry!Activate
  BY <1>3, RetireStep, SignalStep DEF Registry!Activate
<1>4. ASSUME NEW r \in Readers, Registry!Acquire(r) PROVE RegistryInv'
  <2>1. CASE Registry!AcquireLoad(r)
    BY <2>1, AcquireLoadStep
  <2>2. CASE Registry!AcquireCount(r)
    BY <2>2, AcquireCountStep
  <2>3. CASE Registry!AcquireRecheck(r) \/ Registry!AcquireRetired(r)
    BY <2>3, LookStep
  <2>4. CASE Registry!AcquireUndo(r)
    BY <2>4, LeaveStep, LeaveSignalStep DEF Registry!AcquireUndo
  <2> QED
    BY <1>4, <2>1, <2>2, <2>3, <2>4 DEF Registry!Acquire
<1>5. ASSUME NEW r \in Readers, Registry!Release(r) PROVE RegistryInv'
  BY <1>5, LeaveStep, LeaveSignalStep DEF Registry!Release
<1> QED
  BY <1>1, <1>2, <1>3, <1>4, <1>5 DEF Registry!Next

-----------------------------------------------------------------------------
(* Registry, Generation and Lease keep their types, and a generation's     *)
(* counter is the number of readers between their count and their leaving. *)
THEOREM CountsAreExact == RegistryFits => (Registry!Spec => [](RegistryTypeOK /\ CountInv))
<1> SUFFICES ASSUME RegistryFits PROVE Registry!Spec => [](RegistryTypeOK /\ CountInv)
  OBVIOUS
<1>1. Registry!Init => RegistryInv
  BY RegistryInitInv
<1>2. RegistryInv /\ [Registry!Next]_(Registry!vars) => RegistryInv'
  BY RegistryNextInv
<1>3. RegistryInv => RegistryTypeOK /\ CountInv
  BY DEF RegistryInv
<1> QED
  BY <1>1, <1>2, <1>3, PTL DEF Registry!Spec

(* WaitDrained returns for a generation only when it is retired and no     *)
(* reader holds, or will be handed, a lease on it: Acquire's second look   *)
(* and the exact count are what it takes.                                  *)
THEOREM DrainSound == RegistryFits => (Registry!Spec => []DrainedIsUnread)
<1> SUFFICES ASSUME RegistryFits PROVE Registry!Spec => []DrainedIsUnread
  OBVIOUS
<1>1. Registry!Init => RegistryInv
  BY RegistryInitInv
<1>2. RegistryInv /\ [Registry!Next]_(Registry!vars) => RegistryInv'
  BY RegistryNextInv
<1>3. RegistryInv => DrainedIsUnread
  BY DEF RegistryInv, RegistryTypeOK, DrainInv, RetireInv, DrainedIsUnread, Registry!DrainedIsUnread, RegistryFits
<1> QED
  BY <1>1, <1>2, <1>3, PTL DEF Registry!Spec

-----------------------------------------------------------------------------
(* The activation store of a host: catalogruntime.StateStore.              *)

Writing == {"record", "rollback", "pointer"}

\* the lock file is there while a command runs, and one runs at most
LockInv ==
    /\ \A c \in Commands : command[c] # Host!Off => hostLock
    /\ \A c, d \in Commands : command[c] # Host!Off /\ command[d] # Host!Off => c = d

\* what a command is about to write was built on the generation that is active still
BuiltInv ==
    \A c \in Commands : command[c].at \in Writing =>
        /\ command[c] # Host!Off
        /\ command[c] = [at |-> command[c].at, record |-> command[c].record]
        /\ command[c].record.previous = hostPointer

\* and what it has written so far is on disk
WrittenInv ==
    \A c \in Commands :
        /\ command[c].at \in {"rollback", "pointer"} => command[c].record \in hostActivations
        /\ command[c].at = "pointer" /\ command[c].record.action = "rollback" =>
             [from |-> command[c].record.previous, to |-> command[c].record.active] \in hostRollbacks

HostInv == /\ DOMAIN command = Commands /\ command = [c \in Commands |-> command[c]]
           /\ \A c \in Commands : command[c] # Host!Off => command[c].at # "off"
           /\ LockInv /\ BuiltInv /\ WrittenInv

-----------------------------------------------------------------------------
LEMMA HostInitInv ==
  ASSUME Host!Init PROVE HostInv
BY DEF Host!Init, HostInv, LockInv, BuiltInv, WrittenInv, Host!Off, Writing

\* A command that moves while it holds the lock: the others are off.
LEMMA MoveInv ==
  ASSUME HostInv, NEW c \in Commands, command[c] # Host!Off, NEW onward,
         command' = [command EXCEPT ![c] = onward],
         onward # Host!Off => onward.at # "off" /\ hostLock' = hostLock /\ hostPointer' = hostPointer,
         onward.at \in Writing =>
            /\ onward = [at |-> onward.at, record |-> onward.record] /\ onward.record.previous = hostPointer,
         onward.at \in {"rollback", "pointer"} => onward.record \in hostActivations',
         onward.at = "pointer" /\ onward.record.action = "rollback" =>
            [from |-> onward.record.previous, to |-> onward.record.active] \in hostRollbacks'
  PROVE  HostInv'
<1>1. \A d \in Commands : d # c => command[d] = Host!Off
  BY DEF HostInv, LockInv
<1>2. command'[c] = onward /\ DOMAIN command' = Commands /\ command' = [d \in Commands |-> command'[d]]
  BY DEF HostInv
<1>3. \A d \in Commands : d # c => command'[d] = Host!Off
  BY <1>1 DEF HostInv
<1>4. Host!Off.at \notin Writing /\ Host!Off.at \notin {"rollback", "pointer"}
  BY DEF Host!Off, Writing
<1>5. LockInv'
  BY <1>2, <1>3 DEF HostInv, LockInv
<1>6. BuiltInv'
  <2>1. CASE onward = Host!Off
    BY <1>2, <1>3, <1>4, <2>1 DEF BuiltInv
  <2>2. CASE onward # Host!Off /\ hostPointer' = hostPointer
    BY <1>2, <1>3, <1>4, <2>2 DEF BuiltInv
  <2> QED
    BY <2>1, <2>2
<1>7. WrittenInv'
  BY <1>2, <1>3, <1>4 DEF WrittenInv
<1>8. \A d \in Commands : command'[d] # Host!Off => command'[d].at # "off"
  BY <1>2, <1>3
<1> QED
  BY <1>2, <1>5, <1>6, <1>7, <1>8 DEF HostInv

LEMMA LockedInv ==
  ASSUME HostInv, NEW c \in Commands, NEW p, NEW a, NEW now, Host!Locked(c, p, a, now)
  PROVE  HostInv'
<1> DEFINE onward == [at |-> "read", pkg |-> p, action |-> a, now |-> now]
<1>1. \A d \in Commands : command[d] = Host!Off
  BY DEF Host!Locked, HostInv, LockInv
<1>2. command' = [command EXCEPT ![c] = onward] /\ hostLock'
  BY DEF Host!Locked
<1>3. command'[c] = onward /\ \A d \in Commands : d # c => command'[d] = Host!Off
  BY <1>1, <1>2 DEF HostInv
<1>4. onward.at = "read" /\ onward.at # "off" /\ Host!Off.at = "off"
  BY DEF Host!Off
<1>5. DOMAIN command' = Commands /\ command' = [d \in Commands |-> command'[d]]
  BY <1>2 DEF HostInv
<1> HIDE DEF onward
<1>6. LockInv'
  BY <1>2, <1>3 DEF LockInv
<1>7. BuiltInv' /\ WrittenInv'
  BY <1>3, <1>4 DEF BuiltInv, WrittenInv, Writing
<1> QED
  BY <1>3, <1>4, <1>5, <1>6, <1>7 DEF HostInv

LEMMA ReadPreviousInv ==
  ASSUME HostInv, NEW c \in Commands, Host!ReadPrevious(c)
  PROVE  HostInv'
<1>1. command[c].at = "read" /\ command[c] # Host!Off /\ UNCHANGED <<hostPointer, hostActivations, hostRollbacks>>
  BY DEF Host!ReadPrevious, Host!Off
<1>2. CASE command' = [command EXCEPT ![c] = Host!Off]
  BY <1>1, <1>2, MoveInv DEF Host!Off, Writing
<1>3. ASSUME NEW r, r = Host!BuildActivation(hostPointer, command[c].pkg, command[c].action, command[c].now),
             command' = [command EXCEPT ![c] = [at |-> "record", record |-> r]], UNCHANGED hostLock
      PROVE  HostInv'
  <2>1. PICK onward : onward = [at |-> "record", record |-> r]
    OBVIOUS
  <2>2. onward.at = "record" /\ onward.record = r /\ onward # Host!Off
    BY <2>1 DEF Host!Off
  <2>3. r.previous = hostPointer
    BY <1>3 DEF Host!BuildActivation
  <2> QED
    BY <1>1, <1>3, <2>1, <2>2, <2>3, MoveInv
<1> QED
  BY <1>2, <1>3 DEF Host!ReadPrevious

\* A record that is being written, and the same command one step further.
LEMMA Further ==
  ASSUME HostInv, NEW c \in Commands, command[c].at \in Writing, NEW at \in Writing
  PROVE  /\ [command[c] EXCEPT !.at = at] = [at |-> at, record |-> command[c].record]
         /\ [command[c] EXCEPT !.at = at].at = at
         /\ [command[c] EXCEPT !.at = at].record = command[c].record
         /\ command[c].record.previous = hostPointer /\ command[c] # Host!Off
         /\ [command EXCEPT ![c].at = at] = [command EXCEPT ![c] = [command[c] EXCEPT !.at = at]]
<1>1. command[c] = [at |-> command[c].at, record |-> command[c].record]
  BY DEF HostInv, BuiltInv
<1> QED
  BY <1>1 DEF HostInv, BuiltInv

LEMMA WriteRecordInv ==
  ASSUME HostInv, NEW c \in Commands, Host!WriteRecord(c)
  PROVE  HostInv'
<1> DEFINE r == command[c].record
<1>1. command[c].at = "record" /\ command[c] # Host!Off /\ UNCHANGED <<hostPointer, hostRollbacks>>
  BY DEF Host!WriteRecord, HostInv, BuiltInv, Writing
<1>2. CASE command' = [command EXCEPT ![c] = Host!Off]
  BY <1>1, <1>2, MoveInv DEF Host!Off, Writing
<1>3. ASSUME NEW at, at = IF r.action = "rollback" THEN "rollback" ELSE "pointer",
             command' = [command EXCEPT ![c].at = at], hostActivations' = hostActivations \cup {r}, UNCHANGED hostLock
      PROVE  HostInv'
  <2>1. PICK onward : onward = [command[c] EXCEPT !.at = at]
    OBVIOUS
  <2>2. /\ onward = [at |-> at, record |-> r] /\ onward.at = at /\ onward.record = r /\ r.previous = hostPointer
        /\ command' = [command EXCEPT ![c] = onward]
    <3>1. command[c].at \in Writing /\ at \in Writing
      BY <1>1, <1>3 DEF Writing
    <3>2. /\ onward = [at |-> at, record |-> r] /\ onward.at = at /\ onward.record = r /\ r.previous = hostPointer
          /\ [command EXCEPT ![c].at = at] = [command EXCEPT ![c] = onward]
      BY <2>1, <3>1, Further
    <3> QED
      BY <1>3, <3>2
  <2>3. onward # Host!Off /\ onward.at # "off"
    BY <1>3, <2>2 DEF Host!Off
  <2>4. r \in hostActivations' /\ (onward.at = "pointer" => r.action # "rollback")
    BY <1>3, <2>2
  <2> HIDE DEF r
  <2> QED
    BY <1>1, <1>3, <2>2, <2>3, <2>4, MoveInv
<1> QED
  BY <1>2, <1>3 DEF Host!WriteRecord

LEMMA WriteRollbackInv ==
  ASSUME HostInv, NEW c \in Commands, Host!WriteRollback(c)
  PROVE  HostInv'
<1>1. /\ command[c].at = "rollback" /\ UNCHANGED <<hostPointer, hostActivations, hostLock>>
      /\ hostRollbacks' = hostRollbacks \cup {[from |-> command[c].record.previous, to |-> command[c].record.active]}
      /\ command' = [command EXCEPT ![c].at = "pointer"]
  BY DEF Host!WriteRollback
<1>2. PICK onward : onward = [command[c] EXCEPT !.at = "pointer"]
  OBVIOUS
<1>3. /\ onward = [at |-> "pointer", record |-> command[c].record] /\ onward.at = "pointer"
         /\ onward.record = command[c].record
      /\ command[c].record.previous = hostPointer /\ command' = [command EXCEPT ![c] = onward] /\ command[c] # Host!Off
  BY <1>1, <1>2, Further DEF Writing
<1>4. onward # Host!Off /\ onward.record \in hostActivations'
  BY <1>1, <1>3 DEF Host!Off, HostInv, WrittenInv
<1>5. [from |-> onward.record.previous, to |-> onward.record.active] \in hostRollbacks'
  BY <1>1, <1>3
<1> QED
  BY <1>1, <1>3, <1>4, <1>5, MoveInv

LEMMA EndInv ==
  ASSUME HostInv, NEW c \in Commands, command[c] # Host!Off, command' = [command EXCEPT ![c] = Host!Off]
  PROVE  HostInv'
BY MoveInv DEF Host!Off, Writing

LEMMA HostNextInv ==
  ASSUME HostInv, [Host!Next]_(Host!vars)
  PROVE  HostInv'
<1>1. CASE UNCHANGED Host!vars
  BY <1>1 DEF Host!vars, HostInv, LockInv, BuiltInv, WrittenInv
<1>2. ASSUME NEW c \in Commands, NEW p \in Packages, NEW a \in {"activate", "rollback"}, Host!Locked(c, p, a, clock)
      PROVE HostInv'
  BY <1>2, LockedInv
<1>3. ASSUME NEW c \in Commands, Host!ReadPrevious(c) \/ Host!WriteRecord(c) \/ Host!WriteRollback(c) PROVE HostInv'
  BY <1>3, ReadPreviousInv, WriteRecordInv, WriteRollbackInv
<1>4. ASSUME NEW c \in Commands, Host!WritePointer(c) \/ Host!Stop(c) PROVE HostInv'
  <2>1. command[c] # Host!Off /\ command' = [command EXCEPT ![c] = Host!Off]
    BY <1>4 DEF Host!WritePointer, Host!Stop, Host!Off
  <2> QED
    BY <2>1, EndInv
<1>5. CASE Host!RemoveLock
  BY <1>5 DEF Host!RemoveLock, HostInv, LockInv, BuiltInv, WrittenInv
<1>6. CASE Host!Tick
  BY <1>6 DEF Host!Tick, HostInv, LockInv, BuiltInv, WrittenInv
<1> QED
  BY <1>1, <1>2, <1>3, <1>4, <1>5, <1>6 DEF Host!Next

-----------------------------------------------------------------------------
(* active.json of a host moves only to a recorded activation that was      *)
(* built on the generation it replaces, a rollback's record beside it,     *)
(* whatever overlaps, stops or is run again (persistActivation, lock).     *)
THEOREM Succession == Host!Spec => PointerSucceeds
<1>1. Host!Init => HostInv
  BY HostInitInv
<1>2. HostInv /\ [Host!Next]_(Host!vars) => HostInv'
  BY HostNextInv
<1>3. HostInv /\ [Host!Next]_(Host!vars) =>
        [hostPointer' # hostPointer =>
            \E r \in hostActivations : /\ r.active = hostPointer' /\ r.previous = hostPointer
                                       /\ r.action = "rollback" => [from |-> hostPointer,
                                                                    to |-> hostPointer'] \in hostRollbacks]_(Host!vars)
  <2> SUFFICES ASSUME HostInv, Host!Next, hostPointer' # hostPointer
               PROVE  \E r \in hostActivations : /\ r.active = hostPointer' /\ r.previous = hostPointer
                                                 /\ r.action = "rollback" => [from |-> hostPointer,
                                                                              to |-> hostPointer'] \in hostRollbacks
    OBVIOUS
  <2>1. PICK c \in Commands : Host!WritePointer(c)
    BY DEF Host!Next, Host!Locked, Host!ReadPrevious, Host!WriteRecord, Host!WriteRollback, Host!Stop,
       Host!RemoveLock, Host!Tick
  <2>2. command[c].at = "pointer" /\ hostPointer' = command[c].record.active
    BY <2>1 DEF Host!WritePointer
  <2>3. command[c].record \in hostActivations /\ command[c].record.previous = hostPointer
    BY <2>2 DEF HostInv, BuiltInv, WrittenInv, Writing
  <2>4. command[c].record.action = "rollback" => [from |-> hostPointer, to |-> hostPointer'] \in hostRollbacks
    BY <2>2, <2>3 DEF HostInv, WrittenInv
  <2> QED
    BY <2>2, <2>3, <2>4
<1> QED
  BY <1>1, <1>2, <1>3, PTL DEF Host!Spec, PointerSucceeds, Host!PointerSucceeds

-----------------------------------------------------------------------------
(* The update of a fleet: updatemanager.Manager.                           *)

\* what a worker runs once the operation has reached it
Target == [pkg |-> fleetOp.u, epoch |-> fleetOp.epoch]

\* an operation is idle or complete in its fields
OpInv ==
    \/ fleetOp = Fleet!Idle
    \/ /\ fleetOp = [kind |-> fleetOp.kind, at |-> fleetOp.at, u |-> fleetOp.u, epoch |-> fleetOp.epoch,
                     todo |-> fleetOp.todo]
       /\ fleetOp.u \in Updates /\ fleetOp.todo \in SUBSET Workers
       /\ \/ fleetOp.kind = "activate" /\ fleetOp.at \in {"stage", "canary", "broad", "pointer"}
          \/ fleetOp.kind = "rollback" /\ fleetOp.at \in {"workers", "pointer"}

\* the canaries that are done run the package; then all others that are done, and no canary left it
DoneInv ==
    fleetOp # Fleet!Idle =>
        /\ fleetOp.at = "canary" => /\ fleetOp.todo \subseteq Canaries[fleetOp.u]
                                    /\ \A w \in Canaries[fleetOp.u] \ fleetOp.todo : running[w] = Target
        /\ fleetOp.at = "broad" => fleetOp.todo \cap Canaries[fleetOp.u] = {}
        /\ fleetOp.at \in {"broad", "workers"} => \A w \in Workers \ fleetOp.todo : running[w] = Target
        /\ fleetOp.at = "pointer" => \A w \in Workers : running[w] = Target

FleetInv == running = [w \in Workers |-> running[w]] /\ OpInv /\ DoneInv

-----------------------------------------------------------------------------
LEMMA FleetInitInv ==
  ASSUME Fleet!Init PROVE FleetInv
BY DEF Fleet!Init, FleetInv, OpInv, DoneInv, Fleet!Idle

\* The operation ends, or something else changes than what workers run.
LEMMA IdleInv ==
  ASSUME FleetInv, fleetOp' = Fleet!Idle, running' = [w \in Workers |-> running'[w]]
  PROVE  FleetInv'
BY DEF FleetInv, OpInv, DoneInv

\* What an operation under way looks like.
LEMMA Fields ==
  ASSUME FleetInv, fleetOp.kind \in {"activate", "rollback"}
  PROVE  /\ fleetOp # Fleet!Idle /\ fleetOp.u \in Updates /\ fleetOp.todo \in SUBSET Workers
         /\ fleetOp = [kind |-> fleetOp.kind, at |-> fleetOp.at, u |-> fleetOp.u, epoch |-> fleetOp.epoch,
                       todo |-> fleetOp.todo]
         /\ fleetOp.kind = "activate" => fleetOp.at \in {"stage", "canary", "broad", "pointer"}
         /\ fleetOp.kind = "rollback" => fleetOp.at \in {"workers", "pointer"}
<1>1. fleetOp # Fleet!Idle
  BY DEF Fleet!Idle
<1> QED
  BY <1>1 DEF FleetInv, OpInv

\* The steps that start an operation.
LEMMA StartInv ==
  ASSUME FleetInv, NEW u \in Updates, Fleet!ActivateStart(u) \/ Fleet!RollbackStart(u)
  PROVE  FleetInv'
<1>1. UNCHANGED running
  BY DEF Fleet!ActivateStart, Fleet!RollbackStart
<1>2. PICK e : \/ fleetOp' = [kind |-> "activate", at |-> "stage", u |-> u, epoch |-> e, todo |-> Workers]
               \/ fleetOp' = [kind |-> "rollback", at |-> "workers", u |-> u, epoch |-> e, todo |-> Workers]
  BY DEF Fleet!ActivateStart, Fleet!RollbackStart
<1>3. OpInv'
  BY <1>2 DEF OpInv
<1>4. DoneInv'
  BY <1>2 DEF DoneInv
<1> QED
  BY <1>1, <1>3, <1>4 DEF FleetInv

LEMMA StageInv ==
  ASSUME FleetInv, NEW w \in Workers, Fleet!Stage(w)
  PROVE  FleetInv'
<1>1. UNCHANGED running /\ fleetOp.kind = "activate" /\ fleetOp.at = "stage"
  BY DEF Fleet!Stage
<1>2. CASE fleetOp' = Fleet!Idle
  BY <1>1, <1>2, IdleInv DEF FleetInv
<1>3. CASE fleetOp' = [fleetOp EXCEPT !.todo = @ \ {w}]
  <2>1. /\ fleetOp'.kind = "activate" /\ fleetOp'.at = "stage" /\ fleetOp'.u = fleetOp.u
           /\ fleetOp'.todo = fleetOp.todo \ {w}
        /\ fleetOp' = [kind |-> fleetOp'.kind, at |-> fleetOp'.at, u |-> fleetOp'.u, epoch |-> fleetOp'.epoch,
                       todo |-> fleetOp'.todo]
    BY <1>1, <1>3, Fields
  <2>2. OpInv'
    BY <1>1, <2>1, Fields DEF OpInv
  <2>3. DoneInv'
    BY <2>1 DEF DoneInv
  <2> QED
    BY <1>1, <2>2, <2>3 DEF FleetInv
<1> QED
  BY <1>2, <1>3 DEF Fleet!Stage

\* The step from one group of workers to the next, and from the last to the pointer.
LEMMA TurnInv ==
  ASSUME Fleet!ConstantsFit, FleetInv, Fleet!Begin \/ Fleet!Broad \/ Fleet!PersistActivation \/ Fleet!PersistRollback
  PROVE  FleetInv'
<1>1. UNCHANGED running /\ fleetOp.kind \in {"activate", "rollback"} /\ fleetOp.todo = {}
  BY DEF Fleet!Begin, Fleet!Broad, Fleet!PersistActivation, Fleet!PersistRollback
<1>2. Canaries[fleetOp.u] \in SUBSET Workers
  BY <1>1, Fields DEF Fleet!ConstantsFit
<1>3. CASE Fleet!Begin
  <2>1. /\ fleetOp'.kind = "activate" /\ fleetOp'.at = "canary" /\ fleetOp'.u = fleetOp.u
           /\ fleetOp'.todo = Canaries[fleetOp.u]
        /\ fleetOp' = [kind |-> fleetOp'.kind, at |-> fleetOp'.at, u |-> fleetOp'.u, epoch |-> fleetOp'.epoch,
                       todo |-> fleetOp'.todo]
    BY <1>1, <1>3, Fields DEF Fleet!Begin
  <2>2. OpInv' /\ DoneInv'
    BY <1>1, <1>2, <2>1, Fields DEF OpInv, DoneInv
  <2> QED
    BY <1>1, <2>2 DEF FleetInv
<1>4. CASE Fleet!Broad
  <2>1. /\ fleetOp'.kind = "activate" /\ fleetOp'.at = "broad" /\ fleetOp'.u = fleetOp.u
           /\ fleetOp'.todo = Workers \ Canaries[fleetOp.u] /\ fleetOp'.epoch = fleetOp.epoch
        /\ fleetOp' = [kind |-> fleetOp'.kind, at |-> fleetOp'.at, u |-> fleetOp'.u, epoch |-> fleetOp'.epoch,
                       todo |-> fleetOp'.todo]
    BY <1>1, <1>4, Fields DEF Fleet!Broad
  <2>2. \A w \in Canaries[fleetOp.u] : running[w] = Target
    BY <1>1, <1>4, Fields DEF Fleet!Broad, FleetInv, DoneInv
  <2>3. OpInv'
    BY <1>1, <2>1, Fields DEF OpInv
  <2>4. DoneInv'
    BY <1>1, <2>1, <2>2 DEF DoneInv, Target
  <2> QED
    BY <1>1, <2>3, <2>4 DEF FleetInv
<1>5. CASE Fleet!PersistActivation \/ Fleet!PersistRollback
  <2>1. fleetOp.at \in {"broad", "workers"} /\ fleetOp' = [fleetOp EXCEPT !.at = "pointer"]
    BY <1>5 DEF Fleet!PersistActivation, Fleet!PersistRollback
  <2>2. /\ fleetOp'.kind = fleetOp.kind /\ fleetOp'.at = "pointer" /\ fleetOp'.u = fleetOp.u
           /\ fleetOp'.todo = fleetOp.todo /\ fleetOp'.epoch = fleetOp.epoch
        /\ fleetOp' = [kind |-> fleetOp'.kind, at |-> fleetOp'.at, u |-> fleetOp'.u, epoch |-> fleetOp'.epoch,
                       todo |-> fleetOp'.todo]
    BY <1>1, <2>1, Fields
  <2>3. \A w \in Workers : running[w] = Target
    BY <1>1, <2>1, Fields DEF FleetInv, DoneInv
  <2>4. OpInv'
    BY <1>1, <2>2, Fields DEF OpInv
  <2>5. DoneInv'
    BY <1>1, <2>2, <2>3 DEF DoneInv, Target
  <2> QED
    BY <1>1, <2>4, <2>5 DEF FleetInv
<1> QED
  BY <1>3, <1>4, <1>5

\* One worker is done.
LEMMA OneWorkerInv ==
  ASSUME FleetInv, NEW w \in Workers, w \in fleetOp.todo, fleetOp.kind \in {"activate", "rollback"},
         fleetOp.at \in {"canary", "broad", "workers"},
         running' = [running EXCEPT ![w] = Target], fleetOp' = [fleetOp EXCEPT !.todo = @ \ {w}]
  PROVE  FleetInv'
<1>1. /\ fleetOp'.kind = fleetOp.kind /\ fleetOp'.at = fleetOp.at /\ fleetOp'.u = fleetOp.u
         /\ fleetOp'.todo = fleetOp.todo \ {w} /\ fleetOp'.epoch = fleetOp.epoch
      /\ fleetOp' = [kind |-> fleetOp'.kind, at |-> fleetOp'.at, u |-> fleetOp'.u, epoch |-> fleetOp'.epoch,
                     todo |-> fleetOp'.todo]
  BY Fields
<1>2. running'[w] = Target /\ \A v : v \in Workers /\ v # w => running'[v] = running[v]
  BY DEF FleetInv
<1>3. Target' = Target
  BY <1>1 DEF Target
<1>4. OpInv'
  BY <1>1, Fields DEF OpInv
<1>5. running' = [v \in Workers |-> running'[v]]
  BY DEF FleetInv
<1>6. DoneInv'
  <2>1. fleetOp.at = "canary" => \A v \in Canaries[fleetOp.u] \ fleetOp.todo : v # w /\ running[v] = Target
    BY Fields DEF FleetInv, DoneInv
  <2>2. fleetOp.at = "canary" => \A v \in Canaries[fleetOp.u] \ (fleetOp.todo \ {w}) : running'[v] = Target
    BY <1>2, <2>1 DEF FleetInv
  <2>3. fleetOp.at \in {"broad", "workers"} => \A v \in Workers \ (fleetOp.todo \ {w}) : running'[v] = Target
    BY <1>2, Fields DEF FleetInv, DoneInv
  <2>4. fleetOp.at = "canary" => fleetOp.todo \subseteq Canaries[fleetOp.u]
    BY Fields DEF FleetInv, DoneInv
  <2>5. fleetOp.at = "broad" => fleetOp.todo \cap Canaries[fleetOp.u] = {}
    BY Fields DEF FleetInv, DoneInv
  <2> QED
    BY <1>1, <1>3, <2>2, <2>3, <2>4, <2>5 DEF DoneInv
<1> QED
  BY <1>4, <1>5, <1>6 DEF FleetInv

LEMMA ActivateOneInv ==
  ASSUME FleetInv, NEW w \in Workers, Fleet!ActivateOne(w)
  PROVE  FleetInv'
<1>1. fleetOp.kind = "activate" /\ fleetOp.at \in {"canary", "broad"} /\ w \in fleetOp.todo
  BY DEF Fleet!ActivateOne
<1>2. CASE Fleet!Runs(w, fleetOp.u, fleetOp.epoch) /\ fleetOp' = [fleetOp EXCEPT !.todo = @ \ {w}]
  BY <1>1, <1>2, OneWorkerInv DEF Fleet!Runs, Target
<1>3. CASE fleetOp' = Fleet!Idle /\ UNCHANGED running
  BY <1>3, IdleInv DEF FleetInv
<1> QED
  BY <1>2, <1>3 DEF Fleet!ActivateOne

LEMMA RollbackOneInv ==
  ASSUME FleetInv, NEW w \in Workers, Fleet!RollbackOne(w)
  PROVE  FleetInv'
<1>1. fleetOp.kind = "rollback" /\ fleetOp.at = "workers" /\ w \in fleetOp.todo
  BY DEF Fleet!RollbackOne
<1>2. CASE running' = [running EXCEPT ![w] = [pkg |-> fleetOp.u, epoch |-> fleetOp.epoch]]
           /\ fleetOp' = [fleetOp EXCEPT !.todo = @ \ {w}]
  BY <1>1, <1>2, OneWorkerInv DEF Target
<1>3. CASE fleetOp' = Fleet!Idle /\ UNCHANGED running
  BY <1>3, IdleInv DEF FleetInv
<1> QED
  BY <1>2, <1>3 DEF Fleet!RollbackOne

LEMMA FleetNextInv ==
  ASSUME Fleet!ConstantsFit, FleetInv, [Fleet!Next]_(Fleet!vars)
  PROVE  FleetInv'
<1>1. CASE UNCHANGED Fleet!vars
  BY <1>1 DEF Fleet!vars, FleetInv, OpInv, DoneInv, Target
<1>2. ASSUME NEW u \in Updates, NEW s, Fleet!Prepare(u, s) PROVE FleetInv'
  BY <1>2 DEF Fleet!Prepare, FleetInv, OpInv, DoneInv, Target
<1>3. ASSUME NEW u \in Updates, Fleet!ActivateStart(u) \/ Fleet!RollbackStart(u) PROVE FleetInv'
  BY <1>3, StartInv
<1>4. ASSUME NEW w \in Workers, Fleet!Stage(w) \/ Fleet!ActivateOne(w) \/ Fleet!RollbackOne(w) PROVE FleetInv'
  BY <1>4, StageInv, ActivateOneInv, RollbackOneInv
<1>5. CASE Fleet!Begin \/ Fleet!Broad \/ Fleet!PersistActivation \/ Fleet!PersistRollback
  BY <1>5, TurnInv
<1>6. CASE Fleet!SetActive \/ Fleet!Stop
  BY <1>6, IdleInv DEF Fleet!SetActive, Fleet!Stop, FleetInv
<1> QED
  BY <1>1, <1>2, <1>3, <1>4, <1>5, <1>6 DEF Fleet!Next

-----------------------------------------------------------------------------
\* A worker that changes during an activation was asked to.
LEMMA Change ==
  ASSUME FleetInv, Fleet!Next, fleetOp.kind = "activate", NEW w \in Workers \ Canaries[fleetOp.u],
         running'[w] # running[w]
  PROVE  running'[w] = Target /\ fleetOp.at = "broad"
<1>1. PICK v \in Workers : Fleet!ActivateOne(v) /\ Fleet!Runs(v, fleetOp.u, fleetOp.epoch)
  BY DEF Fleet!Next, Fleet!Prepare, Fleet!ActivateStart, Fleet!RollbackStart, Fleet!Stage, Fleet!ActivateOne,
     Fleet!RollbackOne, Fleet!Begin, Fleet!Broad,
         Fleet!PersistActivation, Fleet!SetActive, Fleet!PersistRollback, Fleet!Stop, Fleet!Idle
<1>2. running' = [running EXCEPT ![v] = Target] /\ fleetOp.at \in {"canary", "broad"} /\ v \in fleetOp.todo
  BY <1>1 DEF Fleet!ActivateOne, Fleet!Runs, Target
<1>3. w = v
  BY <1>2 DEF FleetInv
<1>4. fleetOp.at # "canary"
  BY <1>2, <1>3, Fields DEF FleetInv, DoneInv
<1> QED
  BY <1>2, <1>3, <1>4 DEF FleetInv

(* The fleet pointer moves only to what every worker runs, and no worker   *)
(* outside the canaries takes a package that a canary of that activation   *)
(* does not run, whatever answers are lost, probes fail or operations are  *)
(* cut off (Manager.Activate, Rollback).                                   *)
THEOREM PointerBehind == Fleet!ConstantsFit => (Fleet!Spec => FleetBehindPointer)
<1> SUFFICES ASSUME Fleet!ConstantsFit PROVE Fleet!Spec => FleetBehindPointer
  OBVIOUS
<1>1. Fleet!Init => FleetInv
  BY FleetInitInv
<1>2. FleetInv /\ [Fleet!Next]_(Fleet!vars) => FleetInv'
  BY FleetNextInv
<1>3. FleetInv /\ [Fleet!Next]_(Fleet!vars) =>
        [/\ fleetPointer' # fleetPointer => \A w \in Workers : running[w] = fleetPointer'
         /\ fleetOp.kind = "activate" =>
               \A w \in Workers \ Canaries[fleetOp.u] : running'[w] # running[w] =>
                   \A c \in Canaries[fleetOp.u] : running[c] = running'[w]]_(Fleet!vars)
  <2> SUFFICES ASSUME FleetInv, Fleet!Next
               PROVE  /\ fleetPointer' # fleetPointer => \A w \in Workers : running[w] = fleetPointer'
                      /\ fleetOp.kind = "activate" =>
                            \A w \in Workers \ Canaries[fleetOp.u] : running'[w] # running[w] =>
                                \A c \in Canaries[fleetOp.u] : running[c] = running'[w]
    OBVIOUS
  <2>1. ASSUME fleetPointer' # fleetPointer PROVE \A w \in Workers : running[w] = fleetPointer'
    <3>1. Fleet!SetActive
      BY <2>1 DEF Fleet!Next, Fleet!Prepare, Fleet!ActivateStart, Fleet!RollbackStart, Fleet!Stage, Fleet!ActivateOne,
         Fleet!RollbackOne, Fleet!Begin, Fleet!Broad,
                  Fleet!PersistActivation, Fleet!PersistRollback, Fleet!Stop
    <3> QED
      BY <3>1 DEF Fleet!SetActive, FleetInv, DoneInv, Target, Fleet!Idle
  <2>2. ASSUME fleetOp.kind = "activate", NEW w \in Workers \ Canaries[fleetOp.u], running'[w] # running[w],
               NEW c \in Canaries[fleetOp.u]
        PROVE  running[c] = running'[w]
    <3>1. running'[w] = Target /\ fleetOp.at = "broad"
      BY <2>2, Change
    <3>2. c \in Workers /\ c \notin fleetOp.todo
      BY <2>2, <3>1, Fields DEF FleetInv, DoneInv, Fleet!ConstantsFit
    <3> QED
      BY <2>2, <3>1, <3>2, Fields DEF FleetInv, DoneInv
  <2> QED
    BY <2>1, <2>2
<1> QED
  BY <1>1, <1>2, <1>3, PTL DEF Fleet!Spec, FleetBehindPointer, Fleet!FleetBehindPointer

-----------------------------------------------------------------------------
(* The controlled promotion of a package: activationpromotion.Manager.     *)

\* the activation that a state has served, and the audit entry of a state
Served(s) == IF s.phase = "promoted" THEN Candidate ELSE Base
Told(s) == [kind |-> s.phase, intent |-> s.intent, rev |-> s.rev]
AckOf(k) == [kind |-> "ack", instance |-> k]

\* one state comes after another, or is the first
Follows(s, t) ==
    IF s = NoDocument THEN t.rev = 1 /\ t.phase = "prepared"
    ELSE t.rev = s.rev + 1 /\ t.intent = s.intent /\ <<s.phase, t.phase>> \in Promoting!Order

\* how far the bound on evaluations lets a revision be
Bounded(s) ==
    /\ s.phase \in {"validated", "blocked"} => s.rev <= MaxRevision
    /\ s.phase = "canary" => s.rev <= MaxRevision + 1
    /\ s.phase = "promoted" => s.rev <= MaxRevision + 2

\* a state that Prepare, Evaluate, StartCanary, Promote and Rollback could have written
Right(s) ==
    /\ s \in Promoting!States /\ Bounded(s)
    /\ s.cur = Base /\ s.cand = Candidate
    /\ s.phase \in {"validated", "canary", "promoted", "rolled_back"} => s.report # {} /\ s.report \notin Blocking

\* the documents do not change, and a command that moves the pointer moves it where its state says
PointerInv ==
    /\ pActivations = [id \in Bases |->
          CASE id = Base      -> [id |-> id, prev |-> NoDocument, paths |-> "relative"]
            [] id = Candidate -> [id |-> id, prev |-> Base, paths |-> "absolute"]
            [] OTHER          -> NoDocument]
    /\ pActive # NoDocument /\ pActive.id \in {Base, Candidate}
    /\ pSound \subseteq Bases
    /\ pPc \in [{Manager} -> {"idle", "journal", "pointer", "clear"}]
    /\ DOMAIN pDoc = {Manager}
    /\ step = "moving" <=> pPc[Manager] # "idle"
    /\ step = "moving" => /\ pDoc[Manager] # NoDocument /\ pDoc[Manager].id = Served(next)
                          /\ pPc[Manager] = "clear" => pActive.id = Served(next)

\* every state that is written or about to be written follows the one that is there
StateInv ==
    /\ state # NoDocument => Right(state)
    /\ next # NoDocument => Right(next)
    /\ pending # NoDocument => /\ Right(pending.state) /\ pending.event \in Seq(Promoting!Entries)
                               /\ Follows(state, pending.state) \/ state = pending.state
    /\ step \in {"intent", "report", "moving", "snapshot", "pending"} => next # NoDocument /\ Follows(state, next)
    /\ step = "intent" => state = NoDocument
    /\ step = "report" => state # NoDocument /\ next.phase \in {"validated", "blocked"}
    /\ step = "moving" => /\ state # NoDocument
                          /\ <<state.phase, next.phase>> \in {<<"canary", "promoted">>, <<"promoted", "rolled_back">>}
    /\ step \in {"state", "clear"} => next # NoDocument
    /\ step \in {"entry", "head", "state", "clear"} /\ next # NoDocument =>
          pending # NoDocument /\ pending.state = next /\ pending.event = event
    /\ step = "clear" => state = next

\* an acknowledgement is appended to the chain as it is
ChainInv ==
    /\ auditHead \in Seq(Promoting!Entries) /\ event \in Seq(Promoting!Entries)
    /\ step = "ack" => next = NoDocument /\ ack.instance \in Instances /\ ack.status \in {"ready", "not_ready"}
    /\ step \in {"entry", "head"} /\ next = NoDocument => \E k \in Instances : event = Append(auditHead, AckOf(k))

EvidenceInv ==
    /\ acks \in [Instances -> {"none", "ready", "not_ready"}]
    /\ observations \subseteq Observations /\ summaries \subseteq SUBSET Observations /\ {} \notin summaries

\* enough instances are ready wherever the pointer is, or will be, at the candidate
Enough == Cardinality(Promoting!Ready) >= RequiredAcks
ServingInv ==
    /\ pActive.id = Candidate => /\ state # NoDocument /\ state.phase \in {"canary", "promoted", "rolled_back"}
                                 /\ Enough
    /\ step = "moving" /\ next.phase = "promoted" => Enough

\* a command in progress has the lock
BusyInv == step \in Promoting!Steps /\ (step # "idle" => lock)

\* the invariant, however the directory is operated
PromotionInv == PointerInv /\ StateInv /\ ChainInv /\ EvidenceInv /\ ServingInv /\ BusyInv

-----------------------------------------------------------------------------
LEMMA Settings ==
  /\ RequiredAcks \in Nat /\ MaxRevision \in Nat /\ MaxCuts \in Nat
  /\ Blocking \subseteq SUBSET Observations /\ IsFiniteSet(Instances)
  /\ Base \in Bases /\ Candidate \in Bases /\ Base # Candidate
  /\ NoDocument \notin Bases /\ NoDocument \notin Promoting!Pointer!Docs
  /\ NoDocument \notin Promoting!States /\ NoDocument \notin Promoting!Pendings
BY PromotionAssumption DEF Promoting!ConstantsFit, Promoting!IsFiniteSet, IsFiniteSet

\* Promotion counts as this module does.
LEMMA Counting == \A S : Promoting!Cardinality(S) = Cardinality(S)
BY Zenon DEF Promoting!Cardinality, Cardinality

LEMMA RightIs ==
  ASSUME NEW s, Right(s)
  PROVE  /\ s # NoDocument /\ s \in Promoting!States
         /\ s = [intent |-> s.intent, rev |-> s.rev, phase |-> s.phase, cur |-> s.cur, cand |-> s.cand, report |-> s.report]
         /\ s.intent \in Intents /\ s.rev \in 1..MaxRevision + 3 /\ s.phase \in Promoting!Phases
         /\ s.cur = Base /\ s.cand = Candidate /\ s.report \in SUBSET Observations
BY Settings DEF Right, Promoting!States, Promoting!Revisions

LEMMA PendingIs ==
  ASSUME NEW s, NEW e, Right(s), e \in Seq(Promoting!Entries)
  PROVE  /\ [state |-> s, event |-> e] # NoDocument
         /\ [state |-> s, event |-> e].state = s /\ [state |-> s, event |-> e].event = e
<1>1. [state |-> s, event |-> e] \in Promoting!Pendings
  BY RightIs DEF Promoting!Pendings
<1> QED
  BY <1>1, Settings

\* The pointer while no command moves it.
LEMMA PointerRests ==
  ASSUME PointerInv, step # "moving", step' # "moving", UNCHANGED Promoting!pointerVars
  PROVE  PointerInv'
BY DEF PointerInv, Promoting!pointerVars

\* PromoteExisting takes the document of an activation and the pointer is where it was.
LEMMA PointerBegins ==
  ASSUME PointerInv, step = "idle", NEW id \in {Base, Candidate}, NEW expected,
         Promoting!Pointer!PromoteExisting(Manager, id, expected)
  PROVE  /\ UNCHANGED <<pActivations, pActive, pSound>> /\ pActive.id = expected
         /\ pPc' \in [{Manager} -> {"idle", "journal", "pointer", "clear"}] /\ pPc'[Manager] = "journal"
         /\ DOMAIN pDoc' = {Manager} /\ pDoc'[Manager] # NoDocument /\ pDoc'[Manager].id = id
<1> DEFINE d == [pActivations[id] EXCEPT !.paths = "absolute"]
<1>1. d \in Promoting!Pointer!Docs /\ d.id = id
  BY Settings DEF PointerInv, Promoting!Pointer!Docs
<1>2. /\ UNCHANGED <<pActivations, pActive, pSound>> /\ pActive.id = expected
      /\ pPc' = [pPc EXCEPT ![Manager] = "journal"] /\ pDoc' = [pDoc EXCEPT ![Manager] = d]
  BY DEF Promoting!Pointer!PromoteExisting, Promoting!Pointer!CanPromote, Promoting!Pointer!Start,
         Promoting!Pointer!Goto, Promoting!Pointer!files
<1> HIDE DEF d
<1>3. d # NoDocument
  BY <1>1, Settings
<1>4. pDoc'[Manager] = d /\ DOMAIN pDoc' = {Manager}
  BY <1>2 DEF PointerInv
<1> QED
  BY <1>1, <1>2, <1>3, <1>4 DEF PointerInv

\* Its three writes: the journal, the pointer, and the journal's removal.
LEMMA PointerMoves ==
  ASSUME PointerInv, Promoting!Pointer!Continue(Manager)
  PROVE  /\ UNCHANGED <<pActivations, pSound>> /\ DOMAIN pDoc' = {Manager}
         /\ pPc' \in [{Manager} -> {"idle", "journal", "pointer", "clear"}]
         /\ \/ pPc[Manager] = "journal" /\ pPc'[Manager] = "pointer" /\ UNCHANGED <<pActive, pDoc>>
            \/ pPc[Manager] = "pointer" /\ pPc'[Manager] = "clear" /\ UNCHANGED pDoc /\ pActive' = pDoc[Manager]
            \/ pPc[Manager] = "clear" /\ pPc'[Manager] = "idle" /\ UNCHANGED pActive
<1>1. pPc[Manager] \in {"idle", "journal", "pointer", "clear"}
  BY DEF PointerInv
<1>2. CASE Promoting!Pointer!WriteJournal(Manager)
  BY <1>2 DEF PointerInv, Promoting!Pointer!WriteJournal, Promoting!Pointer!Goto
<1>3. CASE Promoting!Pointer!WritePointer(Manager)
  BY <1>3 DEF PointerInv, Promoting!Pointer!WritePointer, Promoting!Pointer!Goto
<1>4. CASE Promoting!Pointer!ClearJournal(Manager)
  BY <1>4 DEF PointerInv, Promoting!Pointer!ClearJournal, Promoting!Pointer!Return, Promoting!Pointer!Goto
<1> QED
  BY <1>1, <1>2, <1>3, <1>4 DEF Promoting!Pointer!Continue, Promoting!Pointer!CheckDocument,
     Promoting!Pointer!StoreDocument, Promoting!Pointer!RecoverInspect

\* A command that is cut off while it moves the pointer leaves it where it is.
LEMMA PointerStops ==
  ASSUME PointerInv, Promoting!Pointer!Stop(Manager), step' # "moving"
  PROVE  PointerInv' /\ UNCHANGED pActive
BY DEF PointerInv, Promoting!Pointer!Stop, Promoting!Pointer!Return, Promoting!Pointer!Goto, Promoting!Pointer!files

-----------------------------------------------------------------------------
\* The initial states satisfy the invariant.
LEMMA PromotionInitInv ==
  ASSUME Promoting!Init
  PROVE  PromotionInv
<1> DEFINE d == pActivations[Base]
<1>1. d \in Promoting!Pointer!Docs /\ d.id = Base /\ pActive = d
  BY Settings DEF Promoting!Init, Promoting!Pointer!Docs
<1>2. PointerInv
  BY <1>1, Settings DEF Promoting!Init, PointerInv
<1>3. StateInv /\ ChainInv /\ EvidenceInv /\ BusyInv
  BY DEF Promoting!Init, StateInv, ChainInv, EvidenceInv, BusyInv, Promoting!Steps
<1>4. ServingInv
  BY <1>1, Settings DEF Promoting!Init, ServingInv
<1> QED
  BY <1>2, <1>3, <1>4 DEF PromotionInv

-----------------------------------------------------------------------------
\* The number of instances that are ready stays while acks does.
LEMMA EnoughStays == ASSUME UNCHANGED acks PROVE Enough' = Enough
BY DEF Enough, Promoting!Ready

\* A command that takes the lock with the state it is to write.
LEMMA TakeInv ==
  ASSUME PromotionInv, ~lock, NEW t, Right(t), Follows(state, t), NEW l \in {"intent", "report", "snapshot"},
         l = "intent" => state = NoDocument,
         l = "report" => state # NoDocument /\ t.phase \in {"validated", "blocked"},
         Promoting!Take(t, l),
         UNCHANGED <<Promoting!pointerVars, state, pending, auditHead, acks, observations, summaries, event>>
  PROVE  PromotionInv'
<1>1. step = "idle" /\ step' = l /\ next' = t /\ lock' /\ t # NoDocument
  BY RightIs DEF PromotionInv, BusyInv, Promoting!Take
<1>2. PointerInv'
  BY <1>1, PointerRests DEF PromotionInv
<1>3. StateInv'
  BY <1>1 DEF PromotionInv, StateInv, Follows, Right, Bounded
<1>4. ChainInv' /\ EvidenceInv' /\ BusyInv'
  BY <1>1 DEF PromotionInv, ChainInv, EvidenceInv, BusyInv, Promoting!Steps
<1>5. ServingInv'
  BY <1>1, EnoughStays DEF PromotionInv, ServingInv, Promoting!pointerVars
<1> QED
  BY <1>2, <1>3, <1>4, <1>5 DEF PromotionInv

\* Prepare can only be of the candidate, over the base.
LEMMA PrepareInv ==
  ASSUME PromotionInv, Promoting!Prepare
  PROVE  PromotionInv'
<1>1. PICK i \in Intents, id \in pSound \ {pActive.id} :
        /\ pActivations[id] # NoDocument /\ pActivations[id].prev = pActive.id
        /\ Promoting!Take([intent |-> i, rev |-> 1, phase |-> "prepared", cur |-> pActive.id, cand |-> id,
                           report |-> {}], "intent")
  BY DEF Promoting!Prepare
<1>2. ~lock /\ state = NoDocument
  BY DEF Promoting!Prepare, Promoting!Free
<1>3. UNCHANGED <<Promoting!pointerVars, state, pending, auditHead, acks, observations, summaries, event>>
  BY DEF Promoting!Prepare, Promoting!chainVars, Promoting!evidence
<1>4. id \in Bases
  BY DEF PromotionInv, PointerInv
<1>5. pActive.id \in {Base, Candidate} /\ pActive.id # NoDocument
  BY Settings DEF PromotionInv, PointerInv
<1>6. id \in {Base, Candidate}
  BY <1>1, <1>4 DEF PromotionInv, PointerInv
<1>7. pActivations[Base].prev = NoDocument /\ pActivations[Candidate].prev = Base
  BY Settings DEF PromotionInv, PointerInv
<1>8. id = Candidate /\ pActive.id = Base
  BY <1>1, <1>5, <1>6, <1>7
<1> DEFINE t == [intent |-> i, rev |-> 1, phase |-> "prepared", cur |-> pActive.id, cand |-> id, report |-> {}]
<1>9. t \in Promoting!States
  BY <1>8, Settings DEF Promoting!States, Promoting!Revisions, Promoting!Phases
<1>10. Right(t) /\ Follows(state, t)
  BY <1>2, <1>8, <1>9 DEF Right, Bounded, Follows
<1> HIDE DEF t
<1> QED
  BY <1>1, <1>2, <1>3, <1>10, TakeInv DEF t

\* What the later states are made of.
LEMMA AdvanceIs ==
  ASSUME StateInv, state # NoDocument, NEW phase \in Promoting!Phases, state.rev <= MaxRevision + 2,
         NEW t, t = Promoting!Advance(phase)
  PROVE  /\ t \in Promoting!States /\ t.intent = state.intent /\ t.rev = state.rev + 1 /\ t.phase = phase
         /\ t.cur = Base /\ t.cand = Candidate /\ t.report = state.report
<1>1. Right(state)
  BY DEF StateInv
<1>2. PICK s, n : s = state /\ n = s.rev + 1
  OBVIOUS
<1>3. /\ DOMAIN s = {"intent", "rev", "phase", "cur", "cand", "report"}
      /\ s.cur = Base /\ s.cand = Candidate /\ s.rev \in 1..MaxRevision + 3
      /\ s.intent \in Intents /\ s.report \in SUBSET Observations
  BY <1>1, <1>2, RightIs
<1>4. t = [s EXCEPT !.rev = n, !.phase = phase]
  BY <1>2 DEF Promoting!Advance
<1>5. n \in 1..MaxRevision + 3
  BY <1>2, <1>3, Settings
<1>6. /\ DOMAIN t = {"intent", "rev", "phase", "cur", "cand", "report"} /\ t = [k \in DOMAIN t |-> t[k]]
      /\ t.intent = s.intent /\ t.rev = n /\ t.phase = phase
      /\ t.cur = s.cur /\ t.cand = s.cand /\ t.report = s.report
  BY <1>3, <1>4
<1>7. t \in Promoting!States
  BY <1>3, <1>5, <1>6, Settings DEF Promoting!States, Promoting!Revisions
<1> QED
  BY <1>2, <1>3, <1>6, <1>7

LEMMA ReportedIs ==
  ASSUME NEW t \in Promoting!States, NEW r \in SUBSET Observations, NEW u, u = [t EXCEPT !.report = r]
  PROVE  /\ u \in Promoting!States /\ u.intent = t.intent /\ u.rev = t.rev /\ u.phase = t.phase
         /\ u.cur = t.cur /\ u.cand = t.cand /\ u.report = r
BY DEF Promoting!States

\* Evaluate writes the report of a summary, which decides between validated and blocked.
LEMMA EvaluateInv ==
  ASSUME PromotionInv, Promoting!Evaluate
  PROVE  PromotionInv'
<1>1. PICK r \in summaries :
        Promoting!Take([Promoting!Advance(IF r \in Blocking THEN "blocked" ELSE "validated") EXCEPT !.report = r], "report")
  BY DEF Promoting!Evaluate
<1>2. /\ ~lock /\ state # NoDocument /\ state.phase \in {"prepared", "validated", "blocked"} /\ state.rev < MaxRevision
      /\ UNCHANGED <<Promoting!pointerVars, state, pending, auditHead, acks, observations, summaries, event>>
  BY DEF Promoting!Evaluate, Promoting!Free, Promoting!InPhase, Promoting!chainVars, Promoting!evidence
<1>3. PICK phase, t, u : /\ phase = (IF r \in Blocking THEN "blocked" ELSE "validated")
                         /\ t = Promoting!Advance(phase) /\ u = [t EXCEPT !.report = r]
  OBVIOUS
<1>4. StateInv /\ phase \in Promoting!Phases /\ phase \in {"validated", "blocked"} /\ (phase = "validated" => r \notin Blocking)
  BY <1>3 DEF PromotionInv, Promoting!Phases
<1>5. state.rev \in 1..MaxRevision + 3 /\ state.rev <= MaxRevision + 2
  BY <1>2, <1>4, RightIs, Settings DEF StateInv
<1>6. /\ t \in Promoting!States /\ t.intent = state.intent /\ t.rev = state.rev + 1 /\ t.phase = phase
      /\ t.cur = Base /\ t.cand = Candidate
  BY <1>2, <1>3, <1>4, <1>5, AdvanceIs
<1>7. r \in SUBSET Observations /\ r # {}
  BY DEF PromotionInv, EvidenceInv
<1>8. /\ u \in Promoting!States /\ u.intent = state.intent /\ u.rev = state.rev + 1 /\ u.phase = phase
      /\ u.cur = Base /\ u.cand = Candidate /\ u.report = r
  BY <1>3, <1>6, <1>7, ReportedIs
<1>9. Right(u)
  BY <1>2, <1>4, <1>5, <1>7, <1>8, Settings DEF Right, Bounded
<1>10. Follows(state, u)
  BY <1>2, <1>4, <1>8 DEF Follows, Promoting!Order
<1>11. Promoting!Take(u, "report")
  BY <1>1, <1>3
<1> QED
  BY <1>2, <1>4, <1>8, <1>9, <1>10, <1>11, TakeInv

LEMMA StartCanaryInv ==
  ASSUME PromotionInv, Promoting!StartCanary
  PROVE  PromotionInv'
<1>1. PICK t : t = Promoting!Advance("canary")
  OBVIOUS
<1>2. /\ ~lock /\ state # NoDocument /\ state.phase = "validated" /\ Promoting!Take(t, "snapshot")
      /\ UNCHANGED <<Promoting!pointerVars, state, pending, auditHead, acks, observations, summaries, event>>
  BY <1>1 DEF Promoting!StartCanary, Promoting!Free, Promoting!InPhase, Promoting!chainVars, Promoting!evidence
<1>3. StateInv /\ Right(state) /\ "canary" \in Promoting!Phases
  BY <1>2 DEF PromotionInv, StateInv, Promoting!Phases
<1>4. state.rev \in 1..MaxRevision + 3 /\ state.rev <= MaxRevision
  BY <1>2, <1>3, RightIs DEF Right, Bounded
<1>5. /\ t \in Promoting!States /\ t.intent = state.intent /\ t.rev = state.rev + 1 /\ t.phase = "canary"
      /\ t.cur = Base /\ t.cand = Candidate /\ t.report = state.report
  BY <1>1, <1>2, <1>3, <1>4, AdvanceIs, Settings
<1>6. Right(t)
  BY <1>2, <1>3, <1>4, <1>5, Settings DEF Right, Bounded
<1>7. Follows(state, t)
  BY <1>2, <1>5 DEF Follows, Promoting!Order
<1> QED
  BY <1>2, <1>6, <1>7, TakeInv

\* Promote and Rollback begin to move the pointer to what the state they write has served.
LEMMA MovingInv ==
  ASSUME PromotionInv, ~lock, state # NoDocument, NEW t, Right(t), Follows(state, t), NEW expected,
         <<state.phase, t.phase>> \in {<<"canary", "promoted">>, <<"promoted", "rolled_back">>},
         t.phase = "promoted" => Enough,
         Promoting!Take(t, "moving"), Promoting!Pointer!PromoteExisting(Manager, Served(t), expected),
         UNCHANGED <<state, pending, auditHead, acks, observations, summaries, event>>
  PROVE  PromotionInv'
<1>1. step = "idle" /\ step' = "moving" /\ next' = t /\ lock' /\ t # NoDocument
  BY RightIs DEF PromotionInv, BusyInv, Promoting!Take
<1>2. Served(t) \in {Base, Candidate} /\ PointerInv
  BY DEF Served, PromotionInv
<1>3. /\ UNCHANGED <<pActivations, pActive, pSound>>
      /\ pPc' \in [{Manager} -> {"idle", "journal", "pointer", "clear"}] /\ pPc'[Manager] = "journal"
      /\ DOMAIN pDoc' = {Manager} /\ pDoc'[Manager] # NoDocument /\ pDoc'[Manager].id = Served(t)
  BY <1>1, <1>2, PointerBegins
<1>4. PointerInv'
  BY <1>1, <1>2, <1>3 DEF PointerInv, Served
<1>5. StateInv'
  BY <1>1 DEF PromotionInv, StateInv, Follows, Right, Bounded
<1>6. ChainInv' /\ EvidenceInv' /\ BusyInv'
  BY <1>1 DEF PromotionInv, ChainInv, EvidenceInv, BusyInv, Promoting!Steps
<1>7. ServingInv'
  BY <1>1, <1>3, EnoughStays DEF PromotionInv, ServingInv
<1> QED
  BY <1>4, <1>5, <1>6, <1>7 DEF PromotionInv

LEMMA PromoteInv ==
  ASSUME PromotionInv, Promoting!Promote
  PROVE  PromotionInv'
<1>1. PICK t : t = Promoting!Advance("promoted")
  OBVIOUS
<1>2. /\ ~lock /\ state # NoDocument /\ state.phase = "canary" /\ Promoting!Take(t, "moving") /\ Enough
      /\ Promoting!Pointer!PromoteExisting(Manager, state.cand, state.cur)
      /\ UNCHANGED <<state, pending, auditHead, acks, observations, summaries, event>>
  BY <1>1, Counting DEF Promoting!Promote, Promoting!Free, Promoting!InPhase, Promoting!chainVars, Promoting!evidence, Enough
<1>3. StateInv /\ Right(state) /\ "promoted" \in Promoting!Phases
  BY <1>2 DEF PromotionInv, StateInv, Promoting!Phases
<1>4. state.rev \in 1..MaxRevision + 3 /\ state.rev <= MaxRevision + 1
  BY <1>2, <1>3, RightIs DEF Right, Bounded
<1>5. /\ t \in Promoting!States /\ t.intent = state.intent /\ t.rev = state.rev + 1 /\ t.phase = "promoted"
      /\ t.cur = Base /\ t.cand = Candidate /\ t.report = state.report
  BY <1>1, <1>2, <1>3, <1>4, AdvanceIs, Settings
<1>6. Right(t)
  BY <1>2, <1>3, <1>4, <1>5, Settings DEF Right, Bounded
<1>7. Follows(state, t)
  BY <1>2, <1>5 DEF Follows, Promoting!Order
<1>8. Served(t) = state.cand
  BY <1>3, <1>5 DEF Served, Right
<1> QED
  BY <1>2, <1>5, <1>6, <1>7, <1>8, MovingInv

LEMMA RollbackInv ==
  ASSUME PromotionInv, Promoting!Rollback
  PROVE  PromotionInv'
<1>1. PICK t : t = Promoting!Advance("rolled_back")
  OBVIOUS
<1>2. /\ ~lock /\ state # NoDocument /\ state.phase = "promoted" /\ Promoting!Take(t, "moving")
      /\ Promoting!Pointer!PromoteExisting(Manager, state.cur, state.cand)
      /\ UNCHANGED <<state, pending, auditHead, acks, observations, summaries, event>>
  BY <1>1 DEF Promoting!Rollback, Promoting!Free, Promoting!InPhase, Promoting!chainVars, Promoting!evidence
<1>3. StateInv /\ Right(state) /\ "rolled_back" \in Promoting!Phases
  BY <1>2 DEF PromotionInv, StateInv, Promoting!Phases
<1>4. state.rev \in 1..MaxRevision + 3 /\ state.rev <= MaxRevision + 2
  BY <1>2, <1>3, RightIs DEF Right, Bounded
<1>5. /\ t \in Promoting!States /\ t.intent = state.intent /\ t.rev = state.rev + 1 /\ t.phase = "rolled_back"
      /\ t.cur = Base /\ t.cand = Candidate /\ t.report = state.report
  BY <1>1, <1>2, <1>3, <1>4, AdvanceIs, Settings
<1>6. Right(t)
  BY <1>2, <1>3, <1>4, <1>5, Settings DEF Right, Bounded
<1>7. Follows(state, t)
  BY <1>2, <1>5 DEF Follows, Promoting!Order
<1>8. Served(t) = state.cur
  BY <1>3, <1>5 DEF Served, Right
<1> QED
  BY <1>2, <1>5, <1>6, <1>7, <1>8, MovingInv

\* The pointer reaches the candidate only where enough instances are ready and the state is at the canary.
LEMMA MoveInv2 ==
  ASSUME PromotionInv, Promoting!Move
  PROVE  PromotionInv'
<1>1. /\ step = "moving" /\ PointerInv /\ Promoting!Pointer!Continue(Manager)
      /\ step' = IF pPc'[Manager] = "idle" THEN "snapshot" ELSE "moving"
      /\ UNCHANGED <<lock, state, pending, auditHead, acks, observations, summaries, next, event>>
  BY DEF Promoting!Move, PromotionInv, Promoting!chainVars, Promoting!evidence
<1>2. /\ UNCHANGED <<pActivations, pSound>> /\ DOMAIN pDoc' = {Manager}
      /\ pPc' \in [{Manager} -> {"idle", "journal", "pointer", "clear"}]
      /\ \/ pPc[Manager] = "journal" /\ pPc'[Manager] = "pointer" /\ UNCHANGED <<pActive, pDoc>>
         \/ pPc[Manager] = "pointer" /\ pPc'[Manager] = "clear" /\ UNCHANGED pDoc /\ pActive' = pDoc[Manager]
         \/ pPc[Manager] = "clear" /\ pPc'[Manager] = "idle" /\ UNCHANGED pActive
  BY <1>1, PointerMoves
<1>3. pActive' = pActive \/ (pActive' # NoDocument /\ pActive'.id = Served(next))
  BY <1>1, <1>2 DEF PointerInv
<1>4. PointerInv'
  BY <1>1, <1>2, <1>3 DEF PointerInv, Served
<1>5. StateInv'
  BY <1>1 DEF PromotionInv, StateInv, Follows, Right, Bounded
<1>6. ChainInv' /\ EvidenceInv' /\ BusyInv'
  BY <1>1 DEF PromotionInv, ChainInv, EvidenceInv, BusyInv, Promoting!Steps
<1>7. pActive'.id = Candidate => pActive.id = Candidate \/ next.phase = "promoted"
  BY <1>3, Settings DEF Served
<1>8. /\ state # NoDocument
      /\ <<state.phase, next.phase>> \in {<<"canary", "promoted">>, <<"promoted", "rolled_back">>}
  BY <1>1 DEF PromotionInv, StateInv
<1>9. ServingInv'
  BY <1>1, <1>7, <1>8, EnoughStays DEF PromotionInv, ServingInv
<1> QED
  BY <1>4, <1>5, <1>6, <1>9 DEF PromotionInv

\* Recover goes on with the transaction that is pending.
LEMMA RecoverInv ==
  ASSUME PromotionInv, Promoting!Recover
  PROVE  PromotionInv'
<1>1. /\ step = "idle" /\ step' = "entry" /\ next' = pending.state /\ event' = pending.event /\ lock' /\ pending # NoDocument
      /\ UNCHANGED <<Promoting!pointerVars, state, pending, auditHead, acks, observations, summaries>>
  BY DEF PromotionInv, BusyInv, Promoting!Recover, Promoting!Take, Promoting!chainVars, Promoting!evidence
<1>2. next' # NoDocument /\ Right(next')
  BY <1>1, RightIs DEF PromotionInv, StateInv
<1>3. PointerInv'
  BY <1>1, PointerRests DEF PromotionInv
<1>4. StateInv'
  BY <1>1, <1>2 DEF PromotionInv, StateInv, Follows, Right, Bounded
<1>5. ChainInv' /\ EvidenceInv' /\ BusyInv'
  BY <1>1, <1>2 DEF PromotionInv, StateInv, ChainInv, EvidenceInv, BusyInv, Promoting!Steps
<1>6. ServingInv'
  BY <1>1, EnoughStays DEF PromotionInv, ServingInv, Promoting!pointerVars
<1> QED
  BY <1>3, <1>4, <1>5, <1>6 DEF PromotionInv

\* A command that returns, or is cut off, while the pointer is not moved.
LEMMA ReleaseInv ==
  ASSUME PromotionInv, step # "moving", step' = "idle", next' = NoDocument, event' = <<>>,
         UNCHANGED <<Promoting!pointerVars, state, acks, observations, summaries>>,
         UNCHANGED pending \/ (step = "clear" /\ pending' = NoDocument),
         auditHead' \in Seq(Promoting!Entries)
  PROVE  PromotionInv'
<1>1. PointerInv'
  BY PointerRests DEF PromotionInv
<1>2. StateInv'
  BY DEF PromotionInv, StateInv, Follows, Right, Bounded
<1>3. ChainInv' /\ EvidenceInv' /\ BusyInv'
  BY DEF PromotionInv, ChainInv, EvidenceInv, BusyInv, Promoting!Steps
<1>4. ServingInv'
  BY EnoughStays DEF PromotionInv, ServingInv, Promoting!pointerVars
<1> QED
  BY <1>1, <1>2, <1>3, <1>4 DEF PromotionInv

LEMMA WriteIntentInv ==
  ASSUME PromotionInv, Promoting!WriteIntent
  PROVE  PromotionInv'
<1>1. /\ step = "intent"
      /\ UNCHANGED <<Promoting!pointerVars, state, pending, auditHead, acks, observations, summaries>>
  BY DEF Promoting!WriteIntent, Promoting!chainVars, Promoting!evidence
<1>2. CASE Promoting!Release
  BY <1>1, <1>2, ReleaseInv DEF Promoting!Release, PromotionInv, ChainInv
<1>3. CASE step' = "snapshot" /\ UNCHANGED <<lock, next, event, ack>>
  <2>1. PointerInv'
    BY <1>1, <1>3, PointerRests DEF PromotionInv
  <2>2. StateInv'
    BY <1>1, <1>3 DEF PromotionInv, StateInv, Follows, Right, Bounded
  <2>3. ChainInv' /\ EvidenceInv' /\ BusyInv'
    BY <1>1, <1>3 DEF PromotionInv, ChainInv, EvidenceInv, BusyInv, Promoting!Steps
  <2>4. ServingInv'
    BY <1>1, <1>3, EnoughStays DEF PromotionInv, ServingInv, Promoting!pointerVars
  <2> QED
    BY <2>1, <2>2, <2>3, <2>4 DEF PromotionInv
<1> QED
  BY <1>2, <1>3 DEF Promoting!WriteIntent

LEMMA WriteReportInv ==
  ASSUME PromotionInv, Promoting!WriteReport
  PROVE  PromotionInv'
<1>1. /\ step = "report" /\ step' = "snapshot"
      /\ UNCHANGED <<Promoting!pointerVars, lock, state, pending, auditHead, acks, observations, summaries, next, event, ack>>
  BY DEF Promoting!WriteReport, Promoting!chainVars
<1>2. PointerInv'
  BY <1>1, PointerRests DEF PromotionInv
<1>3. StateInv'
  BY <1>1 DEF PromotionInv, StateInv, Follows, Right, Bounded
<1>4. ChainInv' /\ EvidenceInv' /\ BusyInv'
  BY <1>1 DEF PromotionInv, ChainInv, EvidenceInv, BusyInv, Promoting!Steps
<1>5. ServingInv'
  BY <1>1, EnoughStays DEF PromotionInv, ServingInv, Promoting!pointerVars
<1> QED
  BY <1>2, <1>3, <1>4, <1>5 DEF PromotionInv

\* The audit entries that commitState and Acknowledge append.
LEMMA EntryTypes ==
  /\ \A s : Right(s) => Told(s) \in Promoting!Entries
  /\ \A k \in Instances : AckOf(k) \in Promoting!Entries
BY RightIs DEF Told, AckOf, Promoting!Entries, Promoting!Revisions

LEMMA WriteSnapshotInv ==
  ASSUME PromotionInv, Promoting!WriteSnapshot
  PROVE  PromotionInv'
<1>1. /\ step = "snapshot"
      /\ UNCHANGED <<Promoting!pointerVars, state, pending, auditHead, acks, observations, summaries>>
  BY DEF Promoting!WriteSnapshot, Promoting!chainVars, Promoting!evidence
<1>2. CASE Promoting!Release
  BY <1>1, <1>2, ReleaseInv DEF Promoting!Release, PromotionInv, ChainInv
<1>3. CASE step' = "pending" /\ event' = Append(auditHead, Told(next)) /\ UNCHANGED <<lock, next, ack>>
  <2>1. PointerInv'
    BY <1>1, <1>3, PointerRests DEF PromotionInv
  <2>2. StateInv'
    BY <1>1, <1>3 DEF PromotionInv, StateInv, Follows, Right, Bounded
  <2>3. Told(next) \in Promoting!Entries
    BY <1>1, EntryTypes DEF PromotionInv, StateInv
  <2>4. event' \in Seq(Promoting!Entries)
    BY <1>3, <2>3 DEF PromotionInv, ChainInv
  <2>5. ChainInv' /\ EvidenceInv' /\ BusyInv'
    BY <1>1, <1>3, <2>4 DEF PromotionInv, ChainInv, EvidenceInv, BusyInv, Promoting!Steps
  <2>6. ServingInv'
    BY <1>1, <1>3, EnoughStays DEF PromotionInv, ServingInv, Promoting!pointerVars
  <2> QED
    BY <2>1, <2>2, <2>5, <2>6 DEF PromotionInv
<1> QED
  BY <1>2, <1>3 DEF Promoting!WriteSnapshot, Told

LEMMA WritePendingInv ==
  ASSUME PromotionInv, Promoting!WritePending
  PROVE  PromotionInv'
<1>1. /\ step = "pending" /\ step' = "entry" /\ pending' = [state |-> next, event |-> event]
      /\ UNCHANGED <<Promoting!pointerVars, lock, state, auditHead, acks, observations, summaries, next, event, ack>>
  BY DEF Promoting!WritePending, Promoting!chainVars, Promoting!evidence
<1>2. Right(next) /\ next # NoDocument /\ event \in Seq(Promoting!Entries) /\ Follows(state, next)
  BY <1>1 DEF PromotionInv, StateInv, ChainInv
<1>3. pending' # NoDocument /\ pending'.state = next /\ pending'.event = event
  BY <1>1, <1>2, PendingIs
<1>4. PointerInv'
  BY <1>1, PointerRests DEF PromotionInv
<1>5. StateInv'
  BY <1>1, <1>2, <1>3 DEF PromotionInv, StateInv, Follows, Right, Bounded
<1>6. ChainInv' /\ EvidenceInv' /\ BusyInv'
  BY <1>1, <1>2 DEF PromotionInv, ChainInv, EvidenceInv, BusyInv, Promoting!Steps
<1>7. ServingInv'
  BY <1>1, EnoughStays DEF PromotionInv, ServingInv, Promoting!pointerVars
<1> QED
  BY <1>4, <1>5, <1>6, <1>7 DEF PromotionInv

\* A chain is not the longer one.
LEMMA Longer ==
  ASSUME NEW S, NEW s \in Seq(S), NEW x \in S
  PROVE  /\ Append(s, x) # s /\ Len(Append(s, x)) = Len(s) + 1
         /\ SubSeq(Append(s, x), 1, Len(Append(s, x)) - 1) = s
<1>1. Len(Append(s, x)) = Len(s) + 1 /\ Len(s) \in Nat
  OBVIOUS
<1> QED
  BY <1>1

LEMMA AppendEntryInv ==
  ASSUME PromotionInv, Promoting!AppendEntry
  PROVE  PromotionInv'
<1>1. /\ step = "entry"
      /\ UNCHANGED <<Promoting!pointerVars, state, pending, auditHead, acks, observations, summaries>>
  BY DEF Promoting!AppendEntry, Promoting!evidence
<1>2. CASE Promoting!Release
  BY <1>1, <1>2, ReleaseInv DEF Promoting!Release, PromotionInv, ChainInv
<1>3. CASE /\ \/ step' = "head"
              \/ step' = "state" /\ auditHead = event
           /\ UNCHANGED <<lock, next, event, ack>>
  <2>1. step' = "state" => next # NoDocument
    <3> SUFFICES ASSUME next = NoDocument, auditHead = event PROVE FALSE
      BY <1>3
    <3>1. PICK k \in Instances : event = Append(auditHead, AckOf(k))
      BY <1>1 DEF PromotionInv, ChainInv
    <3>2. AckOf(k) \in Promoting!Entries /\ auditHead \in Seq(Promoting!Entries)
      BY EntryTypes DEF PromotionInv, ChainInv
    <3> QED
      BY <3>1, <3>2, Longer
  <2>2. PointerInv'
    BY <1>1, <1>3, PointerRests DEF PromotionInv
  <2>3. StateInv'
    BY <1>1, <1>3, <2>1 DEF PromotionInv, StateInv, Follows, Right, Bounded
  <2>4. ChainInv' /\ EvidenceInv' /\ BusyInv'
    BY <1>1, <1>3 DEF PromotionInv, ChainInv, EvidenceInv, BusyInv, Promoting!Steps
  <2>5. ServingInv'
    BY <1>1, <1>3, EnoughStays DEF PromotionInv, ServingInv, Promoting!pointerVars
  <2> QED
    BY <2>2, <2>3, <2>4, <2>5 DEF PromotionInv
<1> QED
  BY <1>2, <1>3 DEF Promoting!AppendEntry

LEMMA WriteHeadInv ==
  ASSUME PromotionInv, Promoting!WriteHead
  PROVE  PromotionInv'
<1>1. /\ step = "head" /\ auditHead' = event
      /\ UNCHANGED <<Promoting!pointerVars, state, pending, acks, observations, summaries>>
  BY DEF Promoting!WriteHead, Promoting!evidence
<1>2. event \in Seq(Promoting!Entries)
  BY DEF PromotionInv, ChainInv
<1>3. CASE Promoting!Release
  BY <1>1, <1>2, <1>3, ReleaseInv DEF Promoting!Release
<1>4. CASE next # NoDocument /\ step' = "state" /\ UNCHANGED <<lock, next, event, ack>>
  <2>1. PointerInv'
    BY <1>1, <1>4, PointerRests DEF PromotionInv
  <2>2. StateInv'
    BY <1>1, <1>4 DEF PromotionInv, StateInv, Follows, Right, Bounded
  <2>3. ChainInv' /\ EvidenceInv' /\ BusyInv'
    BY <1>1, <1>2, <1>4 DEF PromotionInv, ChainInv, EvidenceInv, BusyInv, Promoting!Steps
  <2>4. ServingInv'
    BY <1>1, <1>4, EnoughStays DEF PromotionInv, ServingInv, Promoting!pointerVars
  <2> QED
    BY <2>1, <2>2, <2>3, <2>4 DEF PromotionInv
<1> QED
  BY <1>3, <1>4 DEF Promoting!WriteHead

\* promotion.json takes a state that follows it, or is there already.
LEMMA StateFollows ==
  ASSUME StateInv, Promoting!WriteState
  PROVE  /\ step = "state" /\ state' = next /\ next # NoDocument /\ Right(next)
         /\ Follows(state, next) \/ state = next
BY DEF StateInv, Promoting!WriteState

LEMMA WriteStateInv ==
  ASSUME PromotionInv, Promoting!WriteState
  PROVE  PromotionInv'
<1>1. /\ step = "state" /\ step' = "clear" /\ state' = next
      /\ UNCHANGED <<Promoting!pointerVars, lock, pending, auditHead, acks, observations, summaries, next, event, ack>>
  BY DEF Promoting!WriteState, Promoting!chainVars, Promoting!evidence
<1>2. next # NoDocument /\ Right(next) /\ (Follows(state, next) \/ state = next)
  BY StateFollows DEF PromotionInv
<1>3. PointerInv'
  BY <1>1, PointerRests DEF PromotionInv
<1>4. StateInv'
  BY <1>1, <1>2 DEF PromotionInv, StateInv, Follows, Right, Bounded
<1>5. ChainInv' /\ EvidenceInv' /\ BusyInv'
  BY <1>1 DEF PromotionInv, ChainInv, EvidenceInv, BusyInv, Promoting!Steps
<1>6. state # NoDocument /\ state.phase \in {"canary", "promoted", "rolled_back"} =>
        next.phase \in {"canary", "promoted", "rolled_back"}
  BY <1>2 DEF Follows, Promoting!Order
<1>7. ServingInv'
  BY <1>1, <1>2, <1>6, EnoughStays DEF PromotionInv, ServingInv, Promoting!pointerVars
<1> QED
  BY <1>3, <1>4, <1>5, <1>7 DEF PromotionInv

LEMMA ClearPendingInv ==
  ASSUME PromotionInv, Promoting!ClearPending
  PROVE  PromotionInv'
BY ReleaseInv DEF Promoting!ClearPending, Promoting!Release, Promoting!chainVars, Promoting!evidence, PromotionInv, ChainInv

LEMMA AcknowledgeInv ==
  ASSUME PromotionInv, Promoting!Acknowledge
  PROVE  PromotionInv'
<1>1. /\ step = "idle" /\ step' = "ack" /\ next' = NoDocument /\ lock'
      /\ ack'.instance \in Instances /\ ack'.status \in {"ready", "not_ready"}
      /\ UNCHANGED <<Promoting!pointerVars, state, pending, auditHead, acks, observations, summaries, event>>
  BY DEF PromotionInv, BusyInv, Promoting!Acknowledge, Promoting!Free, Promoting!Take, Promoting!chainVars, Promoting!evidence
<1>2. PointerInv'
  BY <1>1, PointerRests DEF PromotionInv
<1>3. StateInv'
  BY <1>1 DEF PromotionInv, StateInv, Follows, Right, Bounded
<1>4. ChainInv' /\ EvidenceInv' /\ BusyInv'
  BY <1>1 DEF PromotionInv, ChainInv, EvidenceInv, BusyInv, Promoting!Steps
<1>5. ServingInv'
  BY <1>1, EnoughStays DEF PromotionInv, ServingInv, Promoting!pointerVars
<1> QED
  BY <1>2, <1>3, <1>4, <1>5 DEF PromotionInv

\* An instance that is ready stays so.
LEMMA WriteAckInv ==
  ASSUME PromotionInv, Promoting!WriteAck
  PROVE  PromotionInv'
<1>1. /\ step = "ack" /\ next = NoDocument
      /\ UNCHANGED <<Promoting!pointerVars, state, pending, auditHead, observations, summaries>>
  BY DEF Promoting!WriteAck, Promoting!chainVars, PromotionInv, ChainInv
<1>2. CASE Promoting!Release /\ UNCHANGED acks
  BY <1>1, <1>2, ReleaseInv DEF Promoting!Release, PromotionInv, ChainInv
<1>3. CASE /\ acks[ack.instance] = "none" /\ acks' = [acks EXCEPT ![ack.instance] = ack.status]
           /\ event' = Append(auditHead, AckOf(ack.instance))
           /\ step' = "entry" /\ UNCHANGED <<lock, next, ack>>
  <2>1. ack.instance \in Instances /\ ack.status \in {"ready", "not_ready"} /\ acks \in [Instances -> {"none", "ready", "not_ready"}]
    BY <1>1 DEF PromotionInv, ChainInv, EvidenceInv
  <2>2. Promoting!Ready \subseteq Promoting!Ready' /\ Promoting!Ready' \subseteq Instances
    BY <1>3, <2>1 DEF Promoting!Ready
  <2>3. Enough => Enough'
    <3>1. IsFiniteSet(Promoting!Ready')
      BY <2>2, Settings, FS_Subset
    <3>2. /\ Cardinality(Promoting!Ready) \in Nat /\ Cardinality(Promoting!Ready') \in Nat
          /\ Cardinality(Promoting!Ready) <= Cardinality(Promoting!Ready')
      BY <2>2, <3>1, FS_Subset, FS_CardinalityType
    <3> QED
      BY <3>2, Settings DEF Enough
  <2>4. PointerInv'
    BY <1>1, <1>3, PointerRests DEF PromotionInv
  <2>5. StateInv'
    BY <1>1, <1>3 DEF PromotionInv, StateInv, Follows, Right, Bounded
  <2>6. event' \in Seq(Promoting!Entries)
    BY <1>3, <2>1, EntryTypes DEF PromotionInv, ChainInv
  <2>7. ChainInv'
    BY <1>1, <1>3, <2>1, <2>6 DEF PromotionInv, ChainInv
  <2>8. BusyInv'
    BY <1>1, <1>3 DEF PromotionInv, BusyInv, Promoting!Steps
  <2>9. ServingInv'
    BY <1>1, <1>3, <2>3 DEF PromotionInv, ServingInv, Promoting!pointerVars
  <2>10. EvidenceInv'
    BY <1>1, <1>3, <2>1 DEF PromotionInv, EvidenceInv
  <2> QED
    BY <2>4, <2>5, <2>7, <2>8, <2>9, <2>10 DEF PromotionInv
<1> QED
  BY <1>2, <1>3 DEF Promoting!WriteAck, AckOf

LEMMA ObserveInv ==
  ASSUME PromotionInv, Promoting!RecordObservation \/ Promoting!SummarizeObservations
  PROVE  PromotionInv'
<1>1. /\ UNCHANGED <<Promoting!pointerVars, lock, state, pending, auditHead, acks, step, next, event, ack>>
      /\ observations' \subseteq Observations /\ summaries' \subseteq SUBSET Observations /\ {} \notin summaries'
  BY DEF PromotionInv, EvidenceInv, Promoting!RecordObservation, Promoting!SummarizeObservations, Promoting!chainVars
<1>2. PointerInv'
  BY <1>1 DEF PromotionInv, PointerInv, Promoting!pointerVars, Served
<1>3. StateInv'
  BY <1>1 DEF PromotionInv, StateInv, Follows, Right, Bounded
<1>4. ChainInv' /\ EvidenceInv' /\ BusyInv'
  BY <1>1 DEF PromotionInv, ChainInv, EvidenceInv, BusyInv, Promoting!Steps
<1>5. ServingInv'
  BY <1>1, EnoughStays DEF PromotionInv, ServingInv, Promoting!pointerVars
<1> QED
  BY <1>2, <1>3, <1>4, <1>5 DEF PromotionInv

\* A command is cut off anywhere, or dies.
LEMMA CutInv ==
  ASSUME PromotionInv, NEW dies, Promoting!Cut(dies)
  PROVE  PromotionInv' /\ UNCHANGED <<pActive, state>>
<1>1. /\ step # "idle" /\ step' = "idle" /\ next' = NoDocument /\ event' = <<>>
      /\ UNCHANGED <<state, pending, auditHead, acks, observations, summaries>>
  BY DEF Promoting!Cut, Promoting!Exposed, Promoting!chainVars, Promoting!evidence
<1>2. CASE step # "moving"
  <2>1. UNCHANGED Promoting!pointerVars
    BY <1>2 DEF Promoting!Cut, PromotionInv, PointerInv
  <2> QED
    BY <1>1, <1>2, <2>1, ReleaseInv DEF PromotionInv, ChainInv, Promoting!pointerVars
<1>3. CASE step = "moving"
  <2>1. Promoting!Pointer!Stop(Manager)
    BY <1>3 DEF Promoting!Cut, PromotionInv, PointerInv
  <2>2. PointerInv' /\ UNCHANGED pActive
    BY <1>1, <2>1, PointerStops DEF PromotionInv
  <2>3. StateInv'
    BY <1>1 DEF PromotionInv, StateInv, Follows, Right, Bounded
  <2>4. ChainInv' /\ EvidenceInv' /\ BusyInv'
    BY <1>1 DEF PromotionInv, ChainInv, EvidenceInv, BusyInv, Promoting!Steps
  <2>5. ServingInv'
    BY <1>1, <2>2, EnoughStays DEF PromotionInv, ServingInv
  <2> QED
    BY <1>1, <2>2, <2>3, <2>4, <2>5 DEF PromotionInv
<1> QED
  BY <1>2, <1>3

LEMMA PromotionIdles ==
  ASSUME PromotionInv, UNCHANGED promotionVars
  PROVE  PromotionInv'
<1>1. UNCHANGED <<Promoting!pointerVars, lock, state, pending, auditHead, acks, observations, summaries, step, next, event, ack>>
  BY DEF promotionVars, Promoting!pointerVars
<1>2. PointerInv'
  BY <1>1 DEF PromotionInv, PointerInv, Promoting!pointerVars, Served
<1>3. StateInv'
  BY <1>1 DEF PromotionInv, StateInv, Follows, Right, Bounded
<1>4. ChainInv' /\ EvidenceInv' /\ BusyInv'
  BY <1>1 DEF PromotionInv, ChainInv, EvidenceInv, BusyInv, Promoting!Steps
<1>5. ServingInv'
  BY <1>1, EnoughStays DEF PromotionInv, ServingInv, Promoting!pointerVars
<1> QED
  BY <1>2, <1>3, <1>4, <1>5 DEF PromotionInv

LEMMA PromotionNextInv ==
  ASSUME PromotionInv, [Promoting!Next]_(Promoting!vars)
  PROVE  PromotionInv'
<1>1. CASE UNCHANGED Promoting!vars
  BY <1>1, PromotionIdles DEF promotionVars, Promoting!vars, Promoting!pointerVars, Promoting!chainVars, Promoting!evidence
<1>2. CASE Promoting!InProgress
  BY <1>2, WriteIntentInv, WriteReportInv, MoveInv2, WriteAckInv, WriteSnapshotInv, WritePendingInv, AppendEntryInv,
     WriteHeadInv, WriteStateInv, ClearPendingInv DEF Promoting!InProgress, Promoting!Commit
<1>3. CASE Promoting!Fail \/ Promoting!Crash
  BY <1>3, CutInv DEF Promoting!Fail, Promoting!Crash
<1> QED
  BY <1>1, <1>2, <1>3, PrepareInv, EvaluateInv, StartCanaryInv, PromoteInv, RollbackInv, RecoverInv, AcknowledgeInv,
     ObserveInv DEF Promoting!Next

\* The candidate is active only where it was earned.
LEMMA EarnedHolds ==
  ASSUME PromotionInv
  PROVE  state # NoDocument => Promoting!Earned
<1> SUFFICES ASSUME state # NoDocument, pActive.id = state.cand
             PROVE  Cardinality(Promoting!Ready) >= RequiredAcks /\ state.report # {} /\ state.report \notin Blocking
  BY Counting DEF Promoting!Earned
<1>1. Right(state) /\ state.cand = Candidate
  BY DEF PromotionInv, StateInv, Right
<1> QED
  BY <1>1 DEF PromotionInv, ServingInv, Right, Enough

\* promotion.json goes from one revision to the next in the documented order.
LEMMA RevisionStep ==
  ASSUME PromotionInv, [Promoting!Next]_(Promoting!vars), state' # state
  PROVE  \/ state = NoDocument /\ state'.rev = 1 /\ state'.phase = "prepared"
         \/ /\ state # NoDocument /\ state'.rev = state.rev + 1
            /\ state'.intent = state.intent
            /\ <<state.phase, state'.phase>> \in Promoting!Order
<1>1. CASE Promoting!WriteState
  BY <1>1, StateFollows DEF PromotionInv, Follows
<1>2. CASE ~Promoting!WriteState
  <2>1. CASE Promoting!InProgress
    BY <1>2, <2>1 DEF Promoting!InProgress, Promoting!Commit, Promoting!WriteIntent, Promoting!WriteReport, Promoting!Move,
       Promoting!WriteAck, Promoting!WriteSnapshot, Promoting!WritePending, Promoting!AppendEntry, Promoting!WriteHead,
       Promoting!ClearPending
  <2>2. CASE Promoting!Fail \/ Promoting!Crash
    BY <2>2, CutInv DEF Promoting!Fail, Promoting!Crash
  <2> QED
    BY <2>1, <2>2 DEF Promoting!Next, Promoting!Prepare, Promoting!Evaluate, Promoting!StartCanary, Promoting!Promote,
       Promoting!Rollback, Promoting!Recover, Promoting!Acknowledge, Promoting!RecordObservation,
       Promoting!SummarizeObservations, Promoting!vars
<1> QED
  BY <1>1, <1>2

(* However a directory is operated, and wherever commands are cut off or   *)
(* die: the candidate is active only with the required acknowledgements    *)
(* and a report within the thresholds, and promotion.json goes through its *)
(* revisions one by one, in the documented order of its phases.            *)
THEOREM CandidateIsEarned == Promoting!Spec => CandidateEarned
<1>1. Promoting!Init => PromotionInv
  BY PromotionInitInv
<1>2. PromotionInv /\ [Promoting!Next]_(Promoting!vars) => PromotionInv'
  BY PromotionNextInv
<1>3. PromotionInv => (state # NoDocument => Promoting!Earned)
  BY EarnedHolds
<1>4. PromotionInv /\ [Promoting!Next]_(Promoting!vars) =>
        [state' # state =>
          \/ state = NoDocument /\ state'.rev = 1 /\ state'.phase = "prepared"
          \/ /\ state # NoDocument /\ state'.rev = state.rev + 1
             /\ state'.intent = state.intent
             /\ <<state.phase, state'.phase>> \in Promoting!Order]_(Promoting!vars)
  BY RevisionStep
<1> QED
  BY <1>1, <1>2, <1>3, <1>4, PTL DEF Promoting!Spec, CandidateEarned, Promoting!RevisionsInOrder

-----------------------------------------------------------------------------
(* The same under careful operators: a command other than Recover begins   *)
(* with no transaction pending, and is cut off with one pending only.      *)

\* a transaction is pending only while it is written, or after it was cut off
AloneInv ==
    /\ lock <=> step # "idle"
    /\ step \in {"intent", "report", "moving", "snapshot", "pending", "ack"} => pending = NoDocument
    /\ step \in {"entry", "head"} /\ next = NoDocument => pending = NoDocument

\* what active.json is at, unless a command is moving it
Serves == IF step \in {"snapshot", "pending"} THEN Served(next)
          ELSE IF pending # NoDocument THEN Served(pending.state)
          ELSE IF state # NoDocument THEN Served(state) ELSE Base
HandInv == step # "moving" => pActive.id = Serves

\* the last revision that has a snapshot
Top == IF pending # NoDocument THEN pending.state.rev
       ELSE IF step = "pending" THEN next.rev
       ELSE IF state # NoDocument THEN state.rev ELSE 0
SnapshotInv == \A i, r : <<i, r>> \in snapshots => r \in Nat /\ r <= Top

\* the head of the chain is at the event that is appended, or at the one before it
HeadInv ==
    /\ step = "pending" => event = Append(auditHead, Told(next))
    /\ step = "head" => \E x \in Promoting!Entries : event = Append(auditHead, x)
    /\ step \in {"state", "clear"} => auditHead = event
    /\ pending # NoDocument => /\ pending.event # <<>>
                               /\ \/ auditHead = pending.event
                                  \/ /\ pending.event = Append(auditHead, Told(pending.state))
                                     /\ Follows(state, pending.state)

\* the chain tells how the state it is at came about
Tale(chain, s) ==
    IF s = NoDocument THEN \A i \in DOMAIN chain : chain[i].kind = "ack" ELSE Promoting!Tells(chain, s)
TaleInv ==
    IF pending # NoDocument /\ auditHead = pending.event THEN Tale(auditHead, pending.state) ELSE Tale(auditHead, state)

\* the audit's files are the beginnings of the chain, and perhaps the one event that is ahead of the head
Ahead(e) == /\ Len(e) = Len(auditHead) + 1
            /\ \/ pending # NoDocument /\ e = pending.event
               \/ step = "head" /\ e = event
FilesInv ==
    /\ \A n \in 1..Len(auditHead) : SubSeq(auditHead, 1, n) \in audit
    /\ step = "head" => event \in audit
    /\ \A e \in audit : /\ e \in Seq(Promoting!Entries)
                        /\ (Len(e) <= Len(auditHead) /\ e = SubSeq(auditHead, 1, Len(e))) \/ Ahead(e)

CarefulInv == AloneInv /\ HandInv /\ SnapshotInv /\ HeadInv /\ TaleInv /\ FilesInv

-----------------------------------------------------------------------------
\* What a chain tells stays true when an acknowledgement is appended, ...
LEMMA AckTold ==
  ASSUME NEW chain \in Seq(Promoting!Entries), NEW s, s # NoDocument => Right(s), Tale(chain, s), NEW k \in Instances
  PROVE  Tale(Append(chain, AckOf(k)), s)
<1> DEFINE longer == Append(chain, AckOf(k))
<1>1. AckOf(k).kind = "ack" /\ Len(chain) \in Nat
  BY DEF AckOf
<1>2. /\ DOMAIN chain = 1..Len(chain) /\ DOMAIN longer = 1..Len(chain) + 1
      /\ \A i \in 1..Len(chain) : longer[i] = chain[i]
      /\ longer[Len(chain) + 1] = AckOf(k)
  BY <1>1
<1> HIDE DEF longer
<1>3. CASE s = NoDocument
  BY <1>1, <1>2, <1>3 DEF Tale, longer
<1>4. CASE s # NoDocument
  <2>1. PICK told : told = {i \in DOMAIN chain : chain[i].kind # "ack"}
    OBVIOUS
  <2>2. told = {i \in DOMAIN longer : longer[i].kind # "ack"}
    BY <1>1, <1>2, <2>1
  <2>3. \A i \in told : longer[i] = chain[i]
    BY <1>2, <2>1
  <2>4. /\ \A i \in told : chain[i].rev \in 1..s.rev
        /\ \A i, j \in told : i < j => chain[i].rev < chain[j].rev
        /\ \A n \in 1..s.rev : \E i \in told : chain[i].rev = n
        /\ \A i \in told : chain[i].rev = s.rev => chain[i].kind = s.phase /\ chain[i].intent = s.intent
    BY <1>4, <2>1 DEF Tale, Promoting!Tells
  <2>5. /\ \A i \in told : longer[i].rev \in 1..s.rev
        /\ \A i, j \in told : i < j => longer[i].rev < longer[j].rev
        /\ \A n \in 1..s.rev : \E i \in told : longer[i].rev = n
        /\ \A i \in told : longer[i].rev = s.rev => longer[i].kind = s.phase /\ longer[i].intent = s.intent
    BY <2>3, <2>4
  <2>6. Promoting!Tells(longer, s)
    BY <2>2, <2>5 DEF Promoting!Tells
  <2> QED
    BY <1>4, <2>6 DEF Tale, longer
<1> QED
  BY <1>3, <1>4

\* ... and tells of the next state when its transition is appended.
LEMMA TransitionTold ==
  ASSUME NEW chain \in Seq(Promoting!Entries), NEW s, s # NoDocument => Right(s), Tale(chain, s),
         NEW t, Right(t), Follows(s, t)
  PROVE  Tale(Append(chain, Told(t)), t)
<1> DEFINE longer == Append(chain, Told(t))
<1> DEFINE top == Len(chain) + 1
<1>1. /\ Told(t).kind = t.phase /\ Told(t).kind # "ack" /\ Told(t).rev = t.rev /\ Told(t).intent = t.intent
      /\ t.rev \in 1..MaxRevision + 3 /\ t # NoDocument
  BY RightIs DEF Told, Promoting!Phases
<1>2. /\ DOMAIN chain = 1..Len(chain) /\ DOMAIN longer = 1..top /\ Len(chain) \in Nat
      /\ \A i \in 1..Len(chain) : longer[i] = chain[i]
      /\ longer[top] = Told(t)
  OBVIOUS
<1> HIDE DEF longer
<1>3. PICK told, after : /\ told = {i \in DOMAIN chain : chain[i].kind # "ack"}
                         /\ after = {i \in DOMAIN longer : longer[i].kind # "ack"}
  OBVIOUS
<1>4. after = told \cup {top} /\ \A i \in told : i \in 1..Len(chain) /\ longer[i] = chain[i]
  BY <1>1, <1>2, <1>3
<1>5. PICK n \in Nat : n = t.rev - 1
  BY <1>1
<1>6. /\ \A i \in told : chain[i].rev \in 1..n
      /\ \A i, j \in told : i < j => chain[i].rev < chain[j].rev
      /\ \A m \in 1..n : \E i \in told : chain[i].rev = m
  <2>1. CASE s = NoDocument
    <3>1. told = {}
      BY <1>3, <2>1 DEF Tale
    <3>2. n = 0
      BY <1>5, <2>1 DEF Follows
    <3> QED
      BY <3>1, <3>2
  <2>2. CASE s # NoDocument
    <3>1. s.rev \in 1..MaxRevision + 3 /\ t.rev = s.rev + 1
      BY <2>2, RightIs DEF Follows
    <3>2. n = s.rev
      BY <1>5, <3>1, Settings
    <3> QED
      BY <1>3, <2>2, <3>2 DEF Tale, Promoting!Tells
  <2> QED
    BY <2>1, <2>2
<1>7. \A i \in after : longer[i].rev \in 1..t.rev
  BY <1>1, <1>2, <1>4, <1>5, <1>6
<1>8. \A i, j \in after : i < j => longer[i].rev < longer[j].rev
  <2> SUFFICES ASSUME NEW i \in after, NEW j \in after, i < j PROVE longer[i].rev < longer[j].rev
    OBVIOUS
  <2>1. i \in told
    BY <1>2, <1>4
  <2>2. CASE j \in told
    BY <1>4, <1>6, <2>1, <2>2
  <2>3. CASE j = top
    BY <1>1, <1>2, <1>4, <1>5, <1>6, <2>1, <2>3
  <2> QED
    BY <1>4, <2>2, <2>3
<1>9. \A m \in 1..t.rev : \E i \in after : longer[i].rev = m
  <2> SUFFICES ASSUME NEW m \in 1..t.rev PROVE \E i \in after : longer[i].rev = m
    OBVIOUS
  <2>1. CASE m = t.rev
    BY <1>1, <1>2, <1>4, <2>1
  <2>2. CASE m # t.rev
    <3>1. m \in 1..n
      BY <1>1, <1>5, <2>2
    <3>2. PICK i \in told : chain[i].rev = m
      BY <1>6, <3>1
    <3> QED
      BY <1>4, <3>2
  <2> QED
    BY <2>1, <2>2
<1>10. \A i \in after : longer[i].rev = t.rev => longer[i].kind = t.phase /\ longer[i].intent = t.intent
  BY <1>1, <1>2, <1>4, <1>5, <1>6
<1> QED
  BY <1>1, <1>3, <1>7, <1>8, <1>9, <1>10 DEF Tale, Promoting!Tells, longer

-----------------------------------------------------------------------------
LEMMA CarefulInitInv ==
  ASSUME Promoting!Init
  PROVE  CarefulInv
<1>1. AloneInv /\ SnapshotInv /\ HeadInv /\ FilesInv
  BY DEF Promoting!Init, AloneInv, SnapshotInv, HeadInv, FilesInv
<1>2. TaleInv
  BY DEF Promoting!Init, TaleInv, Tale
<1>3. pActive.id = Base
  BY Settings DEF Promoting!Init
<1>4. HandInv
  BY <1>3 DEF Promoting!Init, HandInv, Serves
<1> QED
  BY <1>1, <1>2, <1>4 DEF CarefulInv

\* The chain and its files while no event is appended.
LEMMA ChainRests ==
  ASSUME CarefulInv, UNCHANGED <<audit, auditHead, state, pending>>, step \notin {"pending", "head"},
         step' \in {"state", "clear"} => auditHead = event',
         step' = "pending" => event' = Append(auditHead, Told(next')), step' # "head"
  PROVE  HeadInv' /\ TaleInv' /\ FilesInv'
<1>1. HeadInv' /\ TaleInv'
  BY DEF CarefulInv, HeadInv, TaleInv, Tale, Follows, Promoting!Tells
<1>2. FilesInv'
  BY DEF CarefulInv, FilesInv, Ahead
<1> QED
  BY <1>1, <1>2

\* A command begins, or goes on to its snapshot, with no transaction pending.
LEMMA BeginKeeps ==
  ASSUME CarefulInv, step \in {"idle", "intent", "report"}, pending = NoDocument,
         step' \in {"intent", "report", "snapshot", "ack", "moving"}, lock',
         UNCHANGED <<pActive, snapshots, state, pending, audit, auditHead>>,
         step' = "snapshot" => Served(next') = Serves
  PROVE  CarefulInv'
<1>1. AloneInv' /\ SnapshotInv'
  BY DEF CarefulInv, AloneInv, SnapshotInv, Top
<1>2. HandInv'
  BY DEF CarefulInv, HandInv, Serves, Served
<1>3. HeadInv' /\ TaleInv' /\ FilesInv'
  BY ChainRests
<1> QED
  BY <1>1, <1>2, <1>3 DEF CarefulInv

\* A command returns without a transaction.
LEMMA ReturnKeeps ==
  ASSUME CarefulInv, step \in {"intent", "ack"}, Promoting!Release,
         UNCHANGED <<pActive, snapshots, state, pending, audit, auditHead>>
  PROVE  CarefulInv'
<1>1. step' = "idle" /\ ~lock'
  BY DEF Promoting!Release
<1>2. AloneInv' /\ SnapshotInv'
  BY <1>1 DEF CarefulInv, AloneInv, SnapshotInv, Top
<1>3. HandInv'
  BY <1>1 DEF CarefulInv, HandInv, Serves, Served
<1>4. HeadInv' /\ TaleInv' /\ FilesInv'
  BY <1>1, ChainRests
<1> QED
  BY <1>2, <1>3, <1>4 DEF CarefulInv

LEMMA CommandsKeep ==
  ASSUME PromotionInv, CarefulInv, operators = "careful",
         \/ Promoting!Prepare \/ Promoting!Evaluate \/ Promoting!Acknowledge \/ Promoting!StartCanary
  PROVE  CarefulInv'
<1>1. /\ step = "idle" /\ pending = NoDocument /\ UNCHANGED <<pActive, snapshots, state, pending, audit, auditHead>>
  BY DEF CarefulInv, AloneInv, Promoting!Prepare, Promoting!Evaluate, Promoting!Acknowledge, Promoting!StartCanary,
     Promoting!Free, Promoting!Recovering, Promoting!pointerVars, Promoting!chainVars
<1>2. CASE Promoting!StartCanary
  <2>1. PICK t : t = Promoting!Advance("canary")
    OBVIOUS
  <2>2. lock' /\ step' = "snapshot" /\ next' = t /\ state # NoDocument /\ state.phase = "validated"
    BY <1>2, <2>1 DEF Promoting!StartCanary, Promoting!Take, Promoting!InPhase
  <2>3. state.rev \in 1..MaxRevision + 3 /\ state.rev <= MaxRevision /\ StateInv
    BY <2>2, RightIs DEF PromotionInv, StateInv, Right, Bounded
  <2>4. t.phase = "canary"
    BY <2>1, <2>2, <2>3, AdvanceIs, Settings DEF Promoting!Phases
  <2>5. Served(next') = Serves
    BY <1>1, <2>2, <2>4 DEF Served, Serves
  <2> QED
    BY <1>1, <2>2, <2>5, BeginKeeps
<1>3. CASE Promoting!Prepare \/ Promoting!Evaluate \/ Promoting!Acknowledge
  <2>1. lock' /\ step' \in {"intent", "report", "ack"}
    BY <1>3 DEF Promoting!Prepare, Promoting!Evaluate, Promoting!Acknowledge, Promoting!Take
  <2> QED
    BY <1>1, <2>1, BeginKeeps
<1> QED
  BY <1>2, <1>3

LEMMA MovesKeep ==
  ASSUME PromotionInv, PromotionInv', CarefulInv, operators = "careful",
         Promoting!Promote \/ Promoting!Rollback
  PROVE  CarefulInv'
<1>1. /\ step = "idle" /\ pending = NoDocument /\ UNCHANGED <<snapshots, state, pending, audit, auditHead>>
      /\ step' = "moving" /\ lock'
  BY DEF CarefulInv, AloneInv, Promoting!Promote, Promoting!Rollback, Promoting!Take,
     Promoting!Free, Promoting!Recovering, Promoting!chainVars
<1>2. UNCHANGED pActive
  BY DEF Promoting!Promote, Promoting!Rollback, Promoting!Pointer!PromoteExisting, Promoting!Pointer!Start,
     Promoting!Pointer!files
<1> QED
  BY <1>1, <1>2, BeginKeeps

\* The pointer is where the next state has it when the move is over.
LEMMA MoveKeeps ==
  ASSUME PromotionInv, CarefulInv, Promoting!Move
  PROVE  CarefulInv'
<1>1. /\ step = "moving" /\ PointerInv /\ Promoting!Pointer!Continue(Manager)
      /\ step' = IF pPc'[Manager] = "idle" THEN "snapshot" ELSE "moving"
      /\ UNCHANGED <<lock, snapshots, state, pending, audit, auditHead, next, event>>
  BY DEF Promoting!Move, PromotionInv, Promoting!chainVars
<1>2. pPc'[Manager] = "idle" => pPc[Manager] = "clear" /\ pActive' = pActive
  BY <1>1, PointerMoves
<1>3. pPc'[Manager] = "idle" => pActive'.id = Served(next)
  BY <1>1, <1>2 DEF PointerInv
<1>4. AloneInv' /\ SnapshotInv'
  BY <1>1 DEF CarefulInv, AloneInv, SnapshotInv, Top
<1>5. HandInv'
  BY <1>1, <1>3 DEF HandInv, Serves, Served
<1>6. HeadInv' /\ TaleInv' /\ FilesInv'
  BY <1>1, ChainRests
<1> QED
  BY <1>4, <1>5, <1>6 DEF CarefulInv

LEMMA BeforeKeeps ==
  ASSUME PromotionInv, CarefulInv, Promoting!WriteIntent \/ Promoting!WriteReport
  PROVE  CarefulInv'
<1>1. /\ step \in {"intent", "report"} /\ pending = NoDocument
      /\ UNCHANGED <<pActive, snapshots, state, pending, audit, auditHead>>
  BY DEF CarefulInv, AloneInv, Promoting!WriteIntent, Promoting!WriteReport, Promoting!pointerVars, Promoting!chainVars
<1>2. CASE step = "intent" /\ Promoting!Release
  BY <1>1, <1>2, ReturnKeeps
<1>3. CASE step' = "snapshot" /\ UNCHANGED <<lock, next>>
  <2>1. lock /\ next # NoDocument /\ Follows(state, next)
    BY <1>1 DEF PromotionInv, BusyInv, StateInv
  <2>2. Served(next) = Base /\ (state # NoDocument => Served(state) = Base)
    BY <1>1, <2>1 DEF PromotionInv, StateInv, Follows, Served, Promoting!Order
  <2>3. Served(next') = Serves
    BY <1>1, <1>3, <2>2 DEF Serves, Served
  <2> QED
    BY <1>1, <1>3, <2>1, <2>3, BeginKeeps
<1> QED
  BY <1>2, <1>3 DEF Promoting!WriteIntent, Promoting!WriteReport

\* The snapshot of the next revision is never refused.
LEMMA WriteSnapshotKeeps ==
  ASSUME PromotionInv, CarefulInv, Promoting!WriteSnapshot
  PROVE  CarefulInv'
<1>1. /\ step = "snapshot" /\ pending = NoDocument
      /\ UNCHANGED <<pActive, state, pending, audit, auditHead>>
  BY DEF CarefulInv, AloneInv, Promoting!WriteSnapshot, Promoting!pointerVars, Promoting!chainVars
<1>2. /\ next # NoDocument /\ Right(next) /\ Follows(state, next) /\ next.rev \in 1..MaxRevision + 3
      /\ state # NoDocument => state.rev \in 1..MaxRevision + 3
  BY <1>1, RightIs DEF PromotionInv, StateInv
<1>3. next.rev > Top /\ Top \in Nat /\ next.rev \in Nat
  BY <1>1, <1>2, Settings DEF Top, Follows
<1>4. <<next.intent, next.rev>> \notin snapshots
  BY <1>3 DEF CarefulInv, SnapshotInv
<1>5. /\ snapshots' = snapshots \cup {<<next.intent, next.rev>>} /\ event' = Append(auditHead, Told(next))
      /\ step' = "pending" /\ UNCHANGED <<lock, next>>
  BY <1>4 DEF Promoting!WriteSnapshot, Told
<1>6. AloneInv'
  BY <1>1, <1>5 DEF CarefulInv, AloneInv
<1>7. Top' = next.rev
  BY <1>1, <1>5 DEF Top
<1>8. SnapshotInv'
  BY <1>3, <1>5, <1>7 DEF CarefulInv, SnapshotInv
<1>9. HandInv'
  BY <1>1, <1>5 DEF CarefulInv, HandInv, Serves, Served
<1>10. event' = Append(auditHead, Told(next'))
  BY <1>5 DEF Told
<1>11. HeadInv' /\ TaleInv' /\ FilesInv'
  BY <1>1, <1>5, <1>10, ChainRests
<1> QED
  BY <1>6, <1>8, <1>9, <1>11 DEF CarefulInv

LEMMA WritePendingKeeps ==
  ASSUME PromotionInv, CarefulInv, Promoting!WritePending
  PROVE  CarefulInv'
<1>1. /\ step = "pending" /\ step' = "entry" /\ pending' = [state |-> next, event |-> event] /\ pending = NoDocument
      /\ UNCHANGED <<pActive, lock, snapshots, state, audit, auditHead, next, event>>
  BY DEF CarefulInv, AloneInv, Promoting!WritePending, Promoting!pointerVars, Promoting!chainVars
<1>2. Right(next) /\ next # NoDocument /\ event \in Seq(Promoting!Entries) /\ Follows(state, next)
  BY <1>1 DEF PromotionInv, StateInv, ChainInv
<1>3. pending' # NoDocument /\ pending'.state = next /\ pending'.event = event
  BY <1>1, <1>2, PendingIs
<1>4. event = Append(auditHead, Told(next)) /\ Told(next) \in Promoting!Entries /\ auditHead \in Seq(Promoting!Entries)
  BY <1>1, <1>2, EntryTypes DEF CarefulInv, HeadInv, PromotionInv, ChainInv
<1>5. event # auditHead /\ event # <<>>
  BY <1>4, Longer
<1>6. AloneInv' /\ SnapshotInv'
  BY <1>1, <1>2, <1>3 DEF CarefulInv, AloneInv, SnapshotInv, Top
<1>7. HandInv'
  BY <1>1, <1>3 DEF CarefulInv, HandInv, Serves, Served
<1>8. HeadInv'
  BY <1>1, <1>2, <1>3, <1>4, <1>5 DEF CarefulInv, HeadInv, Follows, Told
<1>9. TaleInv'
  BY <1>1, <1>3, <1>5 DEF CarefulInv, TaleInv, Tale, Promoting!Tells
<1>10. FilesInv'
  BY <1>1 DEF CarefulInv, FilesInv, Ahead
<1> QED
  BY <1>6, <1>7, <1>8, <1>9, <1>10 DEF CarefulInv

\* Its event is appended once: the head is at it, or right before it.
LEMMA AppendEntryKeeps ==
  ASSUME PromotionInv, CarefulInv, Promoting!AppendEntry
  PROVE  CarefulInv'
<1>1. /\ step = "entry" /\ UNCHANGED <<pActive, snapshots, state, pending, auditHead>>
      /\ auditHead \in Seq(Promoting!Entries)
  BY DEF Promoting!AppendEntry, Promoting!pointerVars, PromotionInv, ChainInv
<1>2. auditHead = event \/ \E x \in Promoting!Entries : event = Append(auditHead, x)
  <2>1. CASE next = NoDocument
    BY <1>1, <2>1, EntryTypes DEF PromotionInv, ChainInv
  <2>2. CASE next # NoDocument
    BY <1>1, <2>2, EntryTypes DEF PromotionInv, StateInv, CarefulInv, HeadInv
  <2> QED
    BY <2>1, <2>2
<1>3. CASE auditHead = event /\ step' = "state" /\ UNCHANGED <<lock, next, event, audit>>
  <2>1. AloneInv' /\ SnapshotInv'
    BY <1>1, <1>3 DEF CarefulInv, AloneInv, SnapshotInv, Top
  <2>2. HandInv'
    BY <1>1, <1>3 DEF CarefulInv, HandInv, Serves, Served
  <2>3. HeadInv' /\ TaleInv' /\ FilesInv'
    BY <1>1, <1>3, ChainRests
  <2> QED
    BY <2>1, <2>2, <2>3 DEF CarefulInv
<1>4. CASE /\ SubSeq(event, 1, Len(event) - 1) = auditHead /\ auditHead # event
           /\ audit' = audit \cup {event} /\ step' = "head" /\ UNCHANGED <<lock, next, event>>
  <2>1. PICK x \in Promoting!Entries : event = Append(auditHead, x)
    BY <1>2, <1>4
  <2>2. Len(event) = Len(auditHead) + 1 /\ event \in Seq(Promoting!Entries)
    BY <1>1, <2>1, Longer
  <2>3. AloneInv' /\ SnapshotInv'
    BY <1>1, <1>4 DEF CarefulInv, AloneInv, SnapshotInv, Top
  <2>4. HandInv'
    BY <1>1, <1>4 DEF CarefulInv, HandInv, Serves, Served
  <2>5. TaleInv'
    BY <1>1, <1>4 DEF CarefulInv, TaleInv, Tale, Promoting!Tells
  <2>7. HeadInv'
    BY <1>1, <1>4, <2>1 DEF CarefulInv, HeadInv, Follows, Told
  <2>6. FilesInv'
    BY <1>1, <1>4, <2>2 DEF CarefulInv, FilesInv, Ahead
  <2> QED
    BY <2>3, <2>4, <2>5, <2>6, <2>7 DEF CarefulInv
<1>5. auditHead # event => SubSeq(event, 1, Len(event) - 1) = auditHead
  BY <1>1, <1>2, Longer
<1>6. auditHead = event => SubSeq(event, 1, Len(event) - 1) # auditHead
  <2> SUFFICES ASSUME auditHead = event, SubSeq(event, 1, Len(event) - 1) = auditHead PROVE FALSE
    OBVIOUS
  <2>1. event \in Seq(Promoting!Entries) /\ Len(event) \in Nat
    BY <1>1
  <2>2. CASE Len(event) = 0
    <3>1. event = <<>>
      BY <2>1, <2>2
    <3>2. next # NoDocument
      <4> SUFFICES ASSUME next = NoDocument PROVE FALSE
        OBVIOUS
      <4>1. PICK k \in Instances : event = Append(auditHead, AckOf(k))
        BY <1>1 DEF PromotionInv, ChainInv
      <4> QED
        BY <1>1, <4>1, EntryTypes, Longer
    <3>3. pending # NoDocument /\ pending.event = event
      BY <1>1, <3>2 DEF PromotionInv, StateInv
    <3> QED
      BY <3>1, <3>3 DEF CarefulInv, HeadInv
  <2>3. CASE Len(event) # 0
    <3>1. Len(SubSeq(event, 1, Len(event) - 1)) = Len(event) - 1
      BY <2>1, <2>3
    <3> QED
      BY <2>1, <3>1
  <2> QED
    BY <2>2, <2>3
<1> QED
  BY <1>3, <1>4, <1>5, <1>6 DEF Promoting!AppendEntry

\* The head takes the event, and the chain tells one more.
LEMMA WriteHeadKeeps ==
  ASSUME PromotionInv, CarefulInv, Promoting!WriteHead
  PROVE  CarefulInv'
<1>1. /\ step = "head" /\ auditHead' = event /\ UNCHANGED <<pActive, snapshots, state, pending, audit>>
      /\ auditHead \in Seq(Promoting!Entries) /\ event \in Seq(Promoting!Entries)
  BY DEF Promoting!WriteHead, Promoting!pointerVars, PromotionInv, ChainInv
<1>2. /\ next = NoDocument => step' = "idle" /\ ~lock' /\ pending = NoDocument
      /\ next # NoDocument => step' = "state" /\ lock' /\ UNCHANGED <<next, event>> /\ pending # NoDocument
                              /\ pending.state = next /\ pending.event = event
  BY <1>1 DEF BusyInv,  Promoting!WriteHead, Promoting!Release, CarefulInv, AloneInv, PromotionInv, StateInv
<1>3. PICK x \in Promoting!Entries : event = Append(auditHead, x)
  BY <1>1 DEF CarefulInv, HeadInv
<1>4. event # auditHead /\ Len(event) = Len(auditHead) + 1 /\ SubSeq(event, 1, Len(event) - 1) = auditHead
  BY <1>1, <1>3, Longer
<1>5. AloneInv'
  BY <1>1, <1>2 DEF AloneInv
<1>10. SnapshotInv'
  BY <1>1, <1>2 DEF CarefulInv, SnapshotInv, Top
<1>6. HandInv'
  BY <1>1, <1>2 DEF CarefulInv, HandInv, Serves, Served
<1>7. HeadInv'
  BY <1>1, <1>2 DEF CarefulInv, HeadInv
<1>8. TaleInv'
  <2>1. CASE next = NoDocument
    <3>1. PICK k \in Instances : event = Append(auditHead, AckOf(k))
      BY <1>1, <2>1 DEF PromotionInv, ChainInv
    <3>2. Tale(auditHead, state)
      BY <1>2, <2>1 DEF CarefulInv, TaleInv
    <3>3. Tale(event, state)
      BY <1>1, <3>1, <3>2, AckTold DEF PromotionInv, StateInv
    <3> QED
      BY <1>1, <1>2, <2>1, <3>3 DEF TaleInv, Tale, Promoting!Tells
  <2>2. CASE next # NoDocument
    <3>1. auditHead # pending.event
      BY <1>2, <1>4, <2>2
    <3>2. event = Append(auditHead, Told(next)) /\ Follows(state, next) /\ Tale(auditHead, state) /\ Right(next)
      BY <1>2, <2>2, <3>1 DEF CarefulInv, HeadInv, TaleInv, PromotionInv, StateInv
    <3>3. Tale(event, next)
      BY <1>1, <3>2, TransitionTold DEF PromotionInv, StateInv
    <3> QED
      BY <1>1, <1>2, <2>2, <3>3 DEF TaleInv, Tale, Promoting!Tells
  <2> QED
    BY <2>1, <2>2
<1>9. FilesInv'
  <2>1. \A n \in 1..Len(auditHead) : SubSeq(event, 1, n) = SubSeq(auditHead, 1, n)
    BY <1>1, <1>3
  <2>2. event \in audit
    BY <1>1 DEF CarefulInv, FilesInv
  <2>3. SubSeq(event, 1, Len(event)) = event
    BY <1>1
  <2>4. \A n \in 1..Len(event) : SubSeq(event, 1, n) \in audit
    <3> SUFFICES ASSUME NEW n \in 1..Len(event) PROVE SubSeq(event, 1, n) \in audit
      OBVIOUS
    <3>1. CASE n = Len(event)
      BY <2>2, <2>3, <3>1
    <3>2. CASE n # Len(event)
      <4>1. Len(auditHead) \in Nat /\ n \in 1..Len(auditHead)
        BY <1>1, <1>4, <3>2
      <4> QED
        BY <2>1, <4>1 DEF CarefulInv, FilesInv
    <3> QED
      BY <3>1, <3>2
  <2>5. \A e \in audit : e \in Seq(Promoting!Entries) /\ Len(e) <= Len(event) /\ e = SubSeq(event, 1, Len(e))
    <3> SUFFICES ASSUME NEW e \in audit
                 PROVE  e \in Seq(Promoting!Entries) /\ Len(e) <= Len(event) /\ e = SubSeq(event, 1, Len(e))
      OBVIOUS
    <3>1. e \in Seq(Promoting!Entries) /\ Len(e) \in Nat
      BY DEF CarefulInv, FilesInv
    <3>2. CASE Ahead(e)
      <4>1. e = event
        BY <1>1, <1>2, <3>2 DEF Ahead
      <4> QED
        BY <1>1, <2>3, <4>1
    <3>3. CASE Len(e) <= Len(auditHead) /\ e = SubSeq(auditHead, 1, Len(e))
      <4>1. CASE Len(e) = 0
        <5>1. e = <<>> /\ SubSeq(event, 1, 0) = <<>>
          BY <1>1, <3>1, <4>1
        <5> QED
          BY <1>1, <3>1, <4>1, <5>1
      <4>2. CASE Len(e) # 0
        BY <1>1, <1>4, <2>1, <3>1, <3>3, <4>2
      <4> QED
        BY <4>1, <4>2
    <3> QED
      BY <3>2, <3>3 DEF CarefulInv, FilesInv
  <2> QED
    BY <1>1, <1>2, <2>4, <2>5 DEF FilesInv
<1> QED
  BY <1>5, <1>6, <1>7, <1>8, <1>9, <1>10 DEF CarefulInv

LEMMA WriteStateKeeps ==
  ASSUME PromotionInv, CarefulInv, Promoting!WriteState
  PROVE  CarefulInv'
<1>1. /\ step = "state" /\ step' = "clear" /\ state' = next /\ next # NoDocument /\ lock'
      /\ pending # NoDocument /\ pending.state = next /\ pending.event = event /\ auditHead = event
      /\ UNCHANGED <<pActive, snapshots, pending, audit, auditHead, next, event>>
  BY DEF Promoting!WriteState, Promoting!pointerVars, Promoting!chainVars, PromotionInv, StateInv, BusyInv, CarefulInv, HeadInv
<1>2. AloneInv'
  BY <1>1 DEF AloneInv
<1>3. SnapshotInv'
  BY <1>1 DEF CarefulInv, SnapshotInv, Top
<1>4. HandInv'
  BY <1>1 DEF CarefulInv, HandInv, Serves, Served
<1>5. HeadInv'
  BY <1>1 DEF CarefulInv, HeadInv
<1>6. TaleInv'
  BY <1>1 DEF CarefulInv, TaleInv, Tale, Promoting!Tells
<1>7. FilesInv'
  BY <1>1 DEF CarefulInv, FilesInv, Ahead
<1> QED
  BY <1>2, <1>3, <1>4, <1>5, <1>6, <1>7 DEF CarefulInv

\* The transaction is over: promotion.json, the chain and the pointer are at its state.
LEMMA ClearPendingKeeps ==
  ASSUME PromotionInv, CarefulInv, Promoting!ClearPending
  PROVE  CarefulInv'
<1>1. /\ step = "clear" /\ step' = "idle" /\ ~lock' /\ pending' = NoDocument /\ state = next /\ next # NoDocument
      /\ pending # NoDocument /\ pending.state = next /\ pending.event = event /\ auditHead = event
      /\ UNCHANGED <<pActive, snapshots, state, audit, auditHead>>
  BY DEF Promoting!ClearPending, Promoting!Release, Promoting!pointerVars, Promoting!chainVars, PromotionInv, StateInv,
     CarefulInv, HeadInv
<1>2. AloneInv'
  BY <1>1 DEF AloneInv
<1>3. SnapshotInv'
  BY <1>1 DEF CarefulInv, SnapshotInv, Top
<1>4. HandInv'
  BY <1>1 DEF CarefulInv, HandInv, Serves, Served
<1>5. HeadInv'
  BY <1>1 DEF HeadInv
<1>6. TaleInv'
  BY <1>1 DEF CarefulInv, TaleInv, Tale, Promoting!Tells
<1>7. FilesInv'
  <2>1. auditHead \in Seq(Promoting!Entries) /\ Len(auditHead) \in Nat
    BY DEF PromotionInv, ChainInv
  <2>2. \A e \in audit : ~Ahead(e)
    BY <1>1, <2>1 DEF Ahead
  <2> QED
    BY <1>1, <2>2 DEF CarefulInv, FilesInv
<1> QED
  BY <1>2, <1>3, <1>4, <1>5, <1>6, <1>7 DEF CarefulInv

LEMMA RecoverKeeps ==
  ASSUME PromotionInv, CarefulInv, Promoting!Recover
  PROVE  CarefulInv'
<1>1. /\ step = "idle" /\ step' = "entry" /\ lock' /\ next' = pending.state /\ event' = pending.event /\ pending # NoDocument
      /\ UNCHANGED <<pActive, snapshots, state, pending, audit, auditHead>>
  BY DEF Promoting!Recover, Promoting!Take, Promoting!pointerVars, Promoting!chainVars, CarefulInv, AloneInv
<1>2. next' # NoDocument
  BY <1>1, RightIs DEF PromotionInv, StateInv
<1>3. AloneInv'
  BY <1>1, <1>2 DEF AloneInv
<1>4. SnapshotInv'
  BY <1>1 DEF CarefulInv, SnapshotInv, Top
<1>5. HandInv'
  BY <1>1 DEF CarefulInv, HandInv, Serves, Served
<1>6. HeadInv' /\ TaleInv' /\ FilesInv'
  BY <1>1, ChainRests
<1> QED
  BY <1>3, <1>4, <1>5, <1>6 DEF CarefulInv

LEMMA WriteAckKeeps ==
  ASSUME PromotionInv, CarefulInv, Promoting!WriteAck
  PROVE  CarefulInv'
<1>1. /\ step = "ack" /\ next = NoDocument /\ pending = NoDocument /\ lock
      /\ UNCHANGED <<pActive, snapshots, state, pending, audit, auditHead>>
  BY DEF Promoting!WriteAck, Promoting!pointerVars, Promoting!chainVars, PromotionInv, ChainInv, BusyInv, CarefulInv, AloneInv
<1>2. CASE Promoting!Release
  BY <1>1, <1>2, ReturnKeeps
<1>3. CASE step' = "entry" /\ UNCHANGED <<lock, next>>
  <2>1. AloneInv'
    BY <1>1, <1>3 DEF AloneInv
  <2>2. SnapshotInv'
    BY <1>1, <1>3 DEF CarefulInv, SnapshotInv, Top
  <2>3. HandInv'
    BY <1>1, <1>3 DEF CarefulInv, HandInv, Serves, Served
  <2>4. HeadInv' /\ TaleInv' /\ FilesInv'
    BY <1>1, <1>3, ChainRests
  <2> QED
    BY <2>1, <2>2, <2>3, <2>4 DEF CarefulInv
<1> QED
  BY <1>2, <1>3 DEF Promoting!WriteAck

\* Nothing that the invariant is about changes.
LEMMA CarefulRests ==
  ASSUME CarefulInv, UNCHANGED <<pActive, lock, snapshots, state, pending, audit, auditHead, step, next, event>>
  PROVE  CarefulInv'
<1>1. AloneInv' /\ SnapshotInv' /\ HandInv'
  BY DEF CarefulInv, AloneInv, SnapshotInv, Top, HandInv, Serves, Served
<1>2. HeadInv' /\ TaleInv'
  BY DEF CarefulInv, HeadInv, TaleInv, Tale, Follows, Told, Promoting!Tells
<1>3. FilesInv'
  BY DEF CarefulInv, FilesInv, Ahead
<1> QED
  BY <1>1, <1>2, <1>3 DEF CarefulInv

\* A transaction that is cut off stays pending, with its event.
LEMMA CutKeeps ==
  ASSUME PromotionInv, CarefulInv, operators = "careful", Promoting!Fail
  PROVE  CarefulInv'
<1>1. /\ step \in {"entry", "head", "state", "clear"} /\ next # NoDocument /\ step' = "idle" /\ lock' = FALSE
      /\ UNCHANGED <<snapshots, state, pending, audit, auditHead>>
  BY DEF Promoting!Fail, Promoting!Cut, Promoting!Exposed, Promoting!chainVars
<1>2. pending # NoDocument /\ pending.event = event
  BY <1>1 DEF PromotionInv, StateInv
<1>3. UNCHANGED pActive
  BY CutInv DEF Promoting!Fail
<1>4. AloneInv'
  BY <1>1 DEF AloneInv
<1>5. SnapshotInv'
  BY <1>1, <1>2 DEF CarefulInv, SnapshotInv, Top
<1>6. HandInv'
  BY <1>1, <1>2, <1>3 DEF CarefulInv, HandInv, Serves, Served
<1>7. HeadInv'
  BY <1>1 DEF CarefulInv, HeadInv, Follows, Told
<1>8. TaleInv'
  BY <1>1 DEF CarefulInv, TaleInv, Tale, Promoting!Tells
<1>9. FilesInv'
  BY <1>1, <1>2 DEF CarefulInv, FilesInv, Ahead
<1> QED
  BY <1>4, <1>5, <1>6, <1>7, <1>8, <1>9 DEF CarefulInv

\* The invariant of a directory.
OperatedInv == PromotionInv /\ (operators = "careful" => CarefulInv)

LEMMA OperatedNextInv ==
  ASSUME OperatedInv, [Promoting!Next]_(Promoting!vars)
  PROVE  OperatedInv'
<1>1. PromotionInv /\ PromotionInv'
  BY PromotionNextInv DEF OperatedInv
<1>2. UNCHANGED operators
  BY DEF Promoting!Next, Promoting!vars
<1> SUFFICES ASSUME operators = "careful" PROVE CarefulInv'
  BY <1>1, <1>2 DEF OperatedInv
<1>3. CarefulInv
  BY DEF OperatedInv
<1>4. CASE UNCHANGED Promoting!vars
  BY <1>3, <1>4, CarefulRests DEF Promoting!vars, Promoting!pointerVars, Promoting!chainVars
<1>5. CASE Promoting!RecordObservation \/ Promoting!SummarizeObservations
  BY <1>3, <1>5, CarefulRests DEF Promoting!RecordObservation, Promoting!SummarizeObservations, Promoting!pointerVars,
     Promoting!chainVars
<1>6. CASE Promoting!InProgress
  BY <1>1, <1>3, <1>6, BeforeKeeps, MoveKeeps, WriteAckKeeps, WriteSnapshotKeeps, WritePendingKeeps, AppendEntryKeeps,
     WriteHeadKeeps, WriteStateKeeps, ClearPendingKeeps DEF Promoting!InProgress, Promoting!Commit
<1>7. CASE Promoting!Fail \/ Promoting!Crash
  BY <1>1, <1>3, <1>7, CutKeeps DEF Promoting!Crash
<1> QED
  BY <1>1, <1>3, <1>4, <1>5, <1>6, <1>7, CommandsKeep, MovesKeep, RecoverKeeps DEF Promoting!Next

\* What the invariant says of the chain, of the pointer and of the snapshots.
LEMMA OperatedHolds ==
  ASSUME OperatedInv
  PROVE  AuditHolds
<1> SUFFICES ASSUME operators = "careful"
             PROVE  /\ Promoting!AuditVerifies /\ Promoting!AuditTellsState
                    /\ Promoting!PointerFollowsPhase /\ Promoting!NextRevisionFree
  BY DEF AuditHolds, Promoting!AuditHolds
<1>1. PromotionInv /\ CarefulInv
  BY DEF OperatedInv
<1>2. Promoting!AuditVerifies
  <2> SUFFICES ASSUME NEW n \in 1..Len(auditHead)
               PROVE  {e \in audit : Len(e) = n} = {SubSeq(auditHead, 1, n)}
    BY DEF Promoting!AuditVerifies
  <2>1. auditHead \in Seq(Promoting!Entries) /\ Len(auditHead) \in Nat
    BY <1>1 DEF PromotionInv, ChainInv
  <2>2. SubSeq(auditHead, 1, n) \in audit /\ Len(SubSeq(auditHead, 1, n)) = n
    BY <1>1, <2>1 DEF CarefulInv, FilesInv
  <2>3. ASSUME NEW e \in audit, Len(e) = n
        PROVE  e = SubSeq(auditHead, 1, n)
    <3>1. Len(e) # Len(auditHead) + 1
      BY <2>1, <2>3
    <3>2. ~ Ahead(e)
      BY <3>1 DEF Ahead
    <3>3. e = SubSeq(auditHead, 1, Len(e))
      BY <1>1, <2>3, <3>2 DEF CarefulInv, FilesInv
    <3> QED
      BY <2>3, <3>3
  <2> QED
    BY <2>2, <2>3
<1>3. CASE ~Promoting!Settled
  BY <1>2, <1>3 DEF Promoting!AuditTellsState, Promoting!PointerFollowsPhase, Promoting!NextRevisionFree
<1>4. CASE Promoting!Settled
  <2>1. step = "idle" /\ pending = NoDocument /\ state # NoDocument
    BY <1>1, <1>4 DEF Promoting!Settled, CarefulInv, AloneInv, PromotionInv, BusyInv
  <2>2. Right(state) /\ state.rev \in 1..MaxRevision + 3
    BY <1>1, <2>1, RightIs DEF PromotionInv, StateInv
  <2>3. Promoting!AuditTellsState
    BY <1>1, <2>1 DEF CarefulInv, TaleInv, Tale, Promoting!AuditTellsState
  <2>4. Promoting!PointerFollowsPhase
    BY <1>1, <2>1, <2>2 DEF CarefulInv, HandInv, Serves, Served, Right, Promoting!PointerFollowsPhase
  <2>5. <<state.intent, state.rev + 1>> \notin snapshots
    <3>1. Top = state.rev
      BY <2>1 DEF Top
    <3> QED
      BY <1>1, <2>2, <3>1, Settings DEF CarefulInv, SnapshotInv
  <2> QED
    BY <1>2, <2>3, <2>4, <2>5 DEF Promoting!NextRevisionFree
<1> QED
  BY <1>2, <1>3, <1>4

(* With operators who recover first, wherever a transaction is cut off:    *)
(* VerifyAudit accepts the audit chain at every moment; between commands   *)
(* it tells how promotion.json came about, active.json is what the phase   *)
(* says is served, and the next revision can be written.                   *)
THEOREM PromotionAudited == Promoting!Spec => []AuditHolds
<1>1. Promoting!Init => OperatedInv
  BY PromotionInitInv, CarefulInitInv DEF OperatedInv
<1>2. OperatedInv /\ [Promoting!Next]_(Promoting!vars) => OperatedInv'
  BY OperatedNextInv
<1>3. OperatedInv => AuditHolds
  BY OperatedHolds
<1> QED
  BY <1>1, <1>2, <1>3, PTL DEF Promoting!Spec
=============================================================================
