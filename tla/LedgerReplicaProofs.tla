------------------------ MODULE LedgerReplicaProofs ------------------------
(***************************************************************************)
(* Proofs about the screening ledger beside its PostgreSQL mirror, for any *)
(* finite sets of events, any catalogs that differ in a fact, any policies *)
(* and holds, any number of processes and any bounds.  The catalog first:  *)
(* what checkProvisioningState notices.  Then the invariant: what a        *)
(* command read stays true while the others run, because the chain, the    *)
(* trail, the markers and the rows only grow.                              *)
(***************************************************************************)
EXTENDS LedgerReplica, FiniteSetTheorems, WellFoundedInduction, TLAPS

(* What the operators on numbers and sets return.                          *)
Less == {p \in Nat \X Nat : p[1] < p[2]}

\* A set of numbers has a least one.
LEMMA Least ==
  ASSUME NEW T \in SUBSET Nat, T # {}
  PROVE  \E x \in T : \A y \in T : x <= y
<1>1. OpToRel(<, Nat) = Less
  BY DEF OpToRel, Less
<1>2. IsWellFoundedOn(Less, Nat)
  BY <1>1, NatLessThanWellFounded
<1>3. PICK x \in T : \A y \in T : <<y, x>> \notin Less
  BY <1>2, WFMin
<1>4. \A y \in T : ~(y < x)
  <2>1. \A y \in T : <<y, x>> \in Nat \X Nat /\ <<y, x>>[1] = y /\ <<y, x>>[2] = x
    OBVIOUS
  <2> QED
    BY <1>3, <2>1 DEF Less
<1> QED
  BY <1>4

\* Min and Max of the community modules return what they are named for.
LEMMA MinIsLeast ==
  ASSUME NEW T \in SUBSET Nat, T # {}
  PROVE  Min(T) \in T /\ \A y \in T : Min(T) <= y
BY Least DEF Min

\* A finite set of numbers has a greatest one: of the sets without, none has the fewest elements.
LEMMA Greatest ==
  ASSUME NEW T \in SUBSET Nat, T # {}, IsFiniteSet(T)
  PROVE  \E x \in T : \A y \in T : x >= y
<1> DEFINE Headless(X) == X \in SUBSET Nat /\ X # {} /\ IsFiniteSet(X) /\ ~(\E x \in X : \A y \in X : x >= y)
           Sizes == {n \in Nat : \E X \in SUBSET Nat : Headless(X) /\ Cardinality(X) = n}
<1> SUFFICES ASSUME Headless(T) PROVE FALSE
  OBVIOUS
<1>1. Cardinality(T) \in Sizes
  BY FS_CardinalityType
<1>2. PICK n \in Sizes : \A m \in Sizes : n <= m
  BY <1>1, Least
<1>3. PICK X \in SUBSET Nat : Headless(X) /\ Cardinality(X) = n
  OBVIOUS
<1>4. PICK x \in X : TRUE
  BY <1>3
<1>5. IsFiniteSet(X \ {x}) /\ Cardinality(X \ {x}) = n - 1
  BY <1>3, <1>4, FS_RemoveElement
<1>6. ~Headless(X \ {x})
  <2>1. Headless(X \ {x}) => n - 1 \in Sizes
    <3>1. Cardinality(X \ {x}) \in Nat
      BY <1>5, FS_CardinalityType
    <3> QED
      BY <1>5, <3>1
  <2> QED
    BY <1>2, <2>1
<1>7. CASE X \ {x} = {}
  BY <1>3, <1>4, <1>7
<1>8. CASE X \ {x} # {}
  <2>1. PICK z \in X \ {x} : \A y \in X \ {x} : z >= y
    BY <1>3, <1>5, <1>6, <1>8
  <2>2. CASE z >= x
    BY <1>3, <2>1, <2>2
  <2>3. CASE ~(z >= x)
    <3>1. x \in Nat /\ z \in Nat /\ x >= z /\ \A y \in X : y \in Nat
      BY <1>3, <1>4, <2>1, <2>3
    <3>2. \A y \in X : x >= y
      BY <2>1, <3>1
    <3> QED
      BY <1>3, <1>4, <3>2
  <2> QED
    BY <2>2, <2>3
<1> QED
  BY <1>7, <1>8

\* The same of Max, for a finite set.
LEMMA MaxIsGreatest ==
  ASSUME NEW T \in SUBSET Nat, T # {}, IsFiniteSet(T)
  PROVE  Max(T) \in T /\ \A y \in T : Max(T) >= y
BY Greatest DEF Max

\* The events that need a snapshot, and until when.
LEMMA RefsFinite ==
  ASSUME NEW es \in SUBSET (Events \cup Foreign), NEW s
  PROVE  /\ RefsOf(es, s) \in SUBSET es /\ IsFiniteSet(RefsOf(es, s)) /\ Cardinality(RefsOf(es, s)) \in Nat
         /\ \A e \in RefsOf(es, s) : Expires[e] \in Nat
<1>1. RefsOf(es, s) \in SUBSET es /\ RefsOf(es, s) \in SUBSET (Events \cup Foreign)
  BY DEF RefsOf
<1> QED
  BY <1>1, ReplicaAssumption, FS_Subset, FS_CardinalityType

\* The latest expiry is that of an event that needs the snapshot.
LEMMA Latest ==
  ASSUME NEW es \in SUBSET (Events \cup Foreign), NEW s, RefsOf(es, s) # {}
  PROVE  /\ \E e \in RefsOf(es, s) : MaxExpires(RefsOf(es, s)) = Expires[e]
         /\ \A e \in RefsOf(es, s) : Expires[e] <= MaxExpires(RefsOf(es, s))
<1> DEFINE T == {Expires[e] : e \in RefsOf(es, s)}
<1>1. T \in SUBSET Nat /\ T # {}
  BY RefsFinite
<1>2. IsFiniteSet(T)
  <2> DEFINE f == [e \in RefsOf(es, s) |-> Expires[e]]
  <2>1. f \in Surjection(RefsOf(es, s), T)
    BY DEF Surjection
  <2> QED
    BY <2>1, RefsFinite, FS_Surjection
<1>3. MaxExpires(RefsOf(es, s)) = Max(T)
  BY DEF MaxExpires
<1> QED
  BY <1>1, <1>2, <1>3, MaxIsGreatest

(* What checkProvisioningState notices.                                    *)
Checked(c) ==
    /\ eventTriggersOK(c) /\ ownersOK(c) /\ definersOK(c) /\ tablePrivilegeHoldersOK(c) /\ maintainHoldersOK(c)
    /\ functionExecuteHoldersOK(c) /\ protectedObjectIdentityOK(c) /\ protectedRelationIdentityOK(c)
    /\ protectedRelationStateOK(c) /\ createPrivilegesOK(c)

\* All ten checks hold of a catalog that is provisioned.
LEMMA ProvisionedIsChecked ==
  ASSUME NEW c, ~Checked(c)
  PROVE  CheckProvisioningState(c) # "provisioned"
<1> DEFINE checks == << <<"event_trigger", eventTriggersOK(c)>>, <<"owner", ownersOK(c)>>,
                        <<"definer", definersOK(c)>>, <<"table_privilege", tablePrivilegeHoldersOK(c)>>,
                        <<"maintain", maintainHoldersOK(c)>>, <<"execute", functionExecuteHoldersOK(c)>>,
                        <<"protected_object", protectedObjectIdentityOK(c)>>,
                        <<"protected_relation", protectedRelationIdentityOK(c)>>,
                        <<"relation_state", protectedRelationStateOK(c)>>, <<"create", createPrivilegesOK(c)>> >>
           failing == {i \in DOMAIN checks : ~checks[i][2]}
<1>1. DOMAIN checks = 1..10
  OBVIOUS
<1>2. \A i \in 1..10 : checks[i][1] # "provisioned"
  OBVIOUS
<1>3. failing # {}
  BY <1>1 DEF Checked
<1>4. Min(failing) \in 1..10
  <2>1. failing \in SUBSET Nat /\ failing \in SUBSET (1..10)
    BY <1>1
  <2>2. \E x \in failing : \A y \in failing : x <= y
    BY <1>3, <2>1, Least
  <2> QED
    BY <1>3, <2>1, <2>2, MinIsLeast
<1>5. CheckProvisioningState(c) = checks[Min(failing)][1]
  BY <1>3 DEF CheckProvisioningState
<1> QED
  BY <1>2, <1>4, <1>5

Facts == {"evt", "owner", "fn", "holders", "grantees", "maintain", "execute", "objects", "relations", "recorded",
          "triggers", "enabled", "indexes", "columns", "create"}

\* A catalog is a record of these facts.
CatalogLike(c) == c = [f \in Facts |-> c[f]]

\* The migration creates guard triggers, and changes nothing else.
LEMMA MigrationKeeps ==
  ASSUME NEW c, CatalogLike(c)
  PROVE  /\ CatalogLike(SchemaSQL(c))
         /\ \A f \in Facts \ {"triggers"} : SchemaSQL(c)[f] = c[f]
         /\ \A r \in Relations : c.triggers[r] # {} /\ "present" \notin c.triggers[r] => SchemaSQL(c).triggers[r] # {}
         /\ SchemaSQL(SchemaSQL(c)) = SchemaSQL(c)
<1> DEFINE left == [r \in Relations |-> IF RelationOwner[r] = "owl_migrator" THEN c.triggers[r] \ {"present"}
                                                                            ELSE c.triggers[r]]
<1>1. CASE ~guardBodiesOK(c)
  <2>1. SchemaSQL(c) = c
    BY <1>1 DEF SchemaSQL
  <2> QED
    BY <2>1
<1>2. CASE guardBodiesOK(c)
  <2>1. PICK d : d = SchemaSQL(c)
    OBVIOUS
  <2>2. d = [c EXCEPT !.triggers = left]
    BY <1>2, <2>1 DEF SchemaSQL
  <2>3. CatalogLike(d) /\ d.triggers = left /\ \A f \in Facts \ {"triggers"} : d[f] = c[f]
    BY <2>2 DEF CatalogLike, Facts
  <2>4. guardBodiesOK(d)
    BY <1>2, <2>3 DEF guardBodiesOK
  <2>5. [r \in Relations |-> IF RelationOwner[r] = "owl_migrator" THEN d.triggers[r] \ {"present"}
                                                                 ELSE d.triggers[r]] = left
    BY <2>3
  <2>6. SchemaSQL(d) = [d EXCEPT !.triggers = left]
    BY <2>4, <2>5 DEF SchemaSQL
  <2>7. SchemaSQL(d) = d
    BY <2>3, <2>6 DEF CatalogLike, Facts
  <2>8. \A r \in Relations : c.triggers[r] # {} /\ "present" \notin c.triggers[r] => d.triggers[r] # {}
    BY <2>3
  <2> QED
    BY <2>1, <2>3, <2>7, <2>8
<1> QED
  BY <1>1, <1>2

\* The facts of the declared catalog.
LEMMA DeclaredFacts ==
  /\ CatalogLike(Declared)
  /\ Declared.evt = [t \in EventTriggers |-> "always"] /\ Declared.owner = RelationOwner
  /\ Declared.fn = [f \in Functions |-> [definer |-> TRUE, owner |-> "owl_ledger_ddl", body |-> TRUE]]
  /\ Declared.holders = [o \in Relations \X TableKinds |-> RequiredHolders(o[1], o[2])]
  /\ Declared.grantees = [o \in Relations \X TableKinds |-> RequiredHolders(o[1], o[2])]
  /\ Declared.maintain = [r \in Relations |-> {}] /\ Declared.execute = [f \in Functions |-> RequiredExecute]
  /\ Declared.objects = RequiredObjects /\ Declared.relations = RequiredRelations
  /\ Declared.recorded = [r \in Relations |-> {}] /\ Declared.triggers = [r \in Relations |-> {}]
  /\ Declared.indexes = [r \in Relations |-> {}] /\ Declared.create = {}
BY DEF Declared, CatalogLike, Facts

\* What no migration repairs.
Broken(c) ==
    \/ \E t \in EventTriggers : c.evt[t] # "always"
    \/ \E r \in Relations : c.owner[r] # RelationOwner[r]
    \/ \E f \in Functions : c.fn[f] # [definer |-> TRUE, owner |-> "owl_ledger_ddl", body |-> TRUE]
    \/ \E r \in Relations, k \in TableKinds : \/ c.holders[<<r, k>>] # RequiredHolders(r, k)
                                              \/ c.grantees[<<r, k>>] # RequiredHolders(r, k)
    \/ \E r \in Relations : c.maintain[r] # {}
    \/ \E f \in Functions : c.execute[f] # RequiredExecute
    \/ ~(RequiredObjects \subseteq c.objects) \/ ~(RequiredRelations \subseteq c.relations)
    \/ \E r \in Relations : c.recorded[r] # {} \/ c.indexes[r] # {}
    \/ \E r \in Relations : c.triggers[r] # {} /\ "present" \notin c.triggers[r]
    \/ c.create # {}

\* What no migration repairs is noticed before a migration and after it.
LEMMA BrokenIsNoticed ==
  ASSUME NEW c, CatalogLike(c), Broken(c)
  PROVE  ~Checked(c) /\ ~Checked(SchemaSQL(c))
<1>1. ~Checked(c)
  BY DEF Broken, Checked, eventTriggersOK, ownersOK, definersOK, tablePrivilegeHoldersOK, maintainHoldersOK,
         functionExecuteHoldersOK, protectedObjectIdentityOK, protectedRelationIdentityOK, protectedRelationStateOK,
         recordedStateOK, triggerBehaviourOK, indexShapeOK, createPrivilegesOK
<1>2. PICK d : d = SchemaSQL(c)
  OBVIOUS
<1>3. \A f \in Facts \ {"triggers"} : d[f] = c[f]
  BY <1>2, MigrationKeeps
<1>4. /\ d.evt = c.evt /\ d.owner = c.owner /\ d.fn = c.fn /\ d.holders = c.holders /\ d.grantees = c.grantees
      /\ d.maintain = c.maintain /\ d.execute = c.execute /\ d.objects = c.objects /\ d.relations = c.relations
      /\ d.recorded = c.recorded /\ d.indexes = c.indexes /\ d.create = c.create
  BY <1>3 DEF Facts
<1>5. \A r \in Relations : c.triggers[r] # {} /\ "present" \notin c.triggers[r] => d.triggers[r] # {}
  BY <1>2, MigrationKeeps
<1>6. ASSUME Checked(d) PROVE FALSE
  <2>1. (\A t \in EventTriggers : d.evt[t] = "always") /\ (\A r \in Relations : d.owner[r] = RelationOwner[r])
    BY <1>6 DEF Checked, eventTriggersOK, ownersOK
  <2>2. /\ \A f \in Functions : d.fn[f] = [definer |-> TRUE, owner |-> "owl_ledger_ddl", body |-> TRUE]
        /\ \A f \in Functions : d.execute[f] = RequiredExecute
    BY <1>6 DEF Checked, definersOK, functionExecuteHoldersOK
  <2>3. \A r \in Relations, k \in TableKinds : /\ d.holders[<<r, k>>] = RequiredHolders(r, k)
                                               /\ d.grantees[<<r, k>>] = RequiredHolders(r, k)
    BY <1>6 DEF Checked, tablePrivilegeHoldersOK
  <2>4. RequiredObjects \subseteq d.objects /\ RequiredRelations \subseteq d.relations /\ d.create = {}
    BY <1>6 DEF Checked, protectedObjectIdentityOK, protectedRelationIdentityOK, createPrivilegesOK
  <2>5. \A r \in Relations : d.maintain[r] = {} /\ d.recorded[r] = {} /\ d.indexes[r] = {} /\ d.triggers[r] = {}
    BY <1>6 DEF Checked, maintainHoldersOK, protectedRelationStateOK, recordedStateOK, triggerBehaviourOK, indexShapeOK
  <2>6. ~(\E r \in Relations : c.triggers[r] # {} /\ "present" \notin c.triggers[r])
    BY <1>5, <2>5
  <2>7. /\ ~(\E t \in EventTriggers : c.evt[t] # "always") /\ ~(\E r \in Relations : c.owner[r] # RelationOwner[r])
        /\ ~(\E f \in Functions : c.fn[f] # [definer |-> TRUE, owner |-> "owl_ledger_ddl", body |-> TRUE])
        /\ ~(\E f \in Functions : c.execute[f] # RequiredExecute)
    BY <1>4, <2>1, <2>2
  <2>8. ~(\E r \in Relations, k \in TableKinds : \/ c.holders[<<r, k>>] # RequiredHolders(r, k)
                                                 \/ c.grantees[<<r, k>>] # RequiredHolders(r, k))
    BY <1>4, <2>3
  <2>9. /\ ~(\E r \in Relations : c.maintain[r] # {}) /\ ~(\E r \in Relations : c.recorded[r] # {} \/ c.indexes[r] # {})
        /\ RequiredObjects \subseteq c.objects /\ RequiredRelations \subseteq c.relations /\ c.create = {}
    BY <1>4, <2>4, <2>5
  <2> QED
    BY <2>6, <2>7, <2>8, <2>9 DEF Broken
<1> QED
  BY <1>1, <1>2, <1>6

\* A catalog that differs from the declaration in one fact is broken beyond what a migration repairs.
LEMMA OneFactIsBroken ==
  ASSUME NEW c \in OneFactOff
  PROVE  CatalogLike(c) /\ Broken(c)
<1>1. CASE c \in {[Declared EXCEPT !.evt[t] = v] : t \in EventTriggers, v \in {"absent", "origin"}}
  <2>1. PICK t \in EventTriggers, v \in {"absent", "origin"} : c = [Declared EXCEPT !.evt[t] = v]
    BY <1>1
  <2>2. CatalogLike(c) /\ c.evt = [Declared.evt EXCEPT ![t] = v]
    BY DeclaredFacts, <2>1 DEF CatalogLike, Facts
  <2> QED
    BY DeclaredFacts, <2>2 DEF Broken
<1>2. CASE c \in {[Declared EXCEPT !.owner[r] = "other"] : r \in Relations}
  <2>1. PICK r \in Relations : c = [Declared EXCEPT !.owner[r] = "other"]
    BY <1>2
  <2>2. CatalogLike(c) /\ c.owner = [Declared.owner EXCEPT ![r] = "other"]
    BY DeclaredFacts, <2>1 DEF CatalogLike, Facts
  <2> QED
    BY DeclaredFacts, <2>2 DEF Broken, RelationOwner
<1>3. CASE c \in {[Declared EXCEPT !.fn[f].definer = FALSE] : f \in Functions}
  <2>1. PICK f \in Functions : c = [Declared EXCEPT !.fn[f].definer = FALSE]
    BY <1>3
  <2>2. CatalogLike(c) /\ c.fn = [Declared.fn EXCEPT ![f].definer = FALSE]
    BY DeclaredFacts, <2>1 DEF CatalogLike, Facts
  <2> QED
    BY DeclaredFacts, <2>2 DEF Broken
<1>4. CASE c \in {[Declared EXCEPT !.fn[f].owner = "owl_migrator"] : f \in Functions}
  <2>1. PICK f \in Functions : c = [Declared EXCEPT !.fn[f].owner = "owl_migrator"]
    BY <1>4
  <2>2. CatalogLike(c) /\ c.fn = [Declared.fn EXCEPT ![f].owner = "owl_migrator"]
    BY DeclaredFacts, <2>1 DEF CatalogLike, Facts
  <2> QED
    BY DeclaredFacts, <2>2 DEF Broken
<1>5. CASE c \in {[Declared EXCEPT !.fn[f].body = FALSE] : f \in Functions}
  <2>1. PICK f \in Functions : c = [Declared EXCEPT !.fn[f].body = FALSE]
    BY <1>5
  <2>2. CatalogLike(c) /\ c.fn = [Declared.fn EXCEPT ![f].body = FALSE]
    BY DeclaredFacts, <2>1 DEF CatalogLike, Facts
  <2> QED
    BY DeclaredFacts, <2>2 DEF Broken
<1>6. CASE c \in {[Declared EXCEPT !.holders[o] = @ \cup {"other"}] : o \in Relations \X TableKinds}
  <2>1. PICK r \in Relations, k \in TableKinds : c = [Declared EXCEPT !.holders[<<r, k>>] = @ \cup {"other"}]
    BY <1>6
  <2>2. CatalogLike(c) /\ c.holders = [Declared.holders EXCEPT ![<<r, k>>] = @ \cup {"other"}]
    BY DeclaredFacts, <2>1 DEF CatalogLike, Facts
  <2>3. c.holders[<<r, k>>] = RequiredHolders(r, k) \cup {"other"} /\ "other" \notin RequiredHolders(r, k)
    BY DeclaredFacts, <2>2 DEF RequiredHolders, RelationOwner
  <2> QED
    BY <2>2, <2>3 DEF Broken
<1>7. CASE c \in {[Declared EXCEPT !.grantees[o] = {}] : o \in Relations \X TableKinds}
  <2>1. PICK r \in Relations, k \in TableKinds : c = [Declared EXCEPT !.grantees[<<r, k>>] = {}]
    BY <1>7
  <2>2. CatalogLike(c) /\ c.grantees = [Declared.grantees EXCEPT ![<<r, k>>] = {}]
    BY DeclaredFacts, <2>1 DEF CatalogLike, Facts
  <2>3. c.grantees[<<r, k>>] = {} /\ RelationOwner[r] \in RequiredHolders(r, k)
    BY DeclaredFacts, <2>2 DEF RequiredHolders
  <2> QED
    BY <2>2, <2>3 DEF Broken
<1>8. CASE c \in {[Declared EXCEPT !.maintain[r] = {"owl_ledger_ddl"}] : r \in Relations}
  <2>1. PICK r \in Relations : c = [Declared EXCEPT !.maintain[r] = {"owl_ledger_ddl"}]
    BY <1>8
  <2>2. CatalogLike(c) /\ c.maintain = [Declared.maintain EXCEPT ![r] = {"owl_ledger_ddl"}]
    BY DeclaredFacts, <2>1 DEF CatalogLike, Facts
  <2>3. c.maintain[r] = {"owl_ledger_ddl"}
    BY DeclaredFacts, <2>2
  <2> QED
    BY <2>2, <2>3 DEF Broken
<1>9. CASE c \in {[Declared EXCEPT !.execute[f] = @ \cup {"other"}] : f \in Functions}
  <2>1. PICK f \in Functions : c = [Declared EXCEPT !.execute[f] = @ \cup {"other"}]
    BY <1>9
  <2>2. CatalogLike(c) /\ c.execute = [Declared.execute EXCEPT ![f] = @ \cup {"other"}]
    BY DeclaredFacts, <2>1 DEF CatalogLike, Facts
  <2>3. c.execute[f] = RequiredExecute \cup {"other"} /\ "other" \notin RequiredExecute
    BY DeclaredFacts, <2>2 DEF RequiredExecute
  <2> QED
    BY <2>2, <2>3 DEF Broken
<1>10. CASE c \in {[Declared EXCEPT !.objects = @ \ {o}] : o \in RequiredObjects}
  <2>1. PICK o \in RequiredObjects : c = [Declared EXCEPT !.objects = @ \ {o}]
    BY <1>10
  <2>2. CatalogLike(c) /\ c.objects = Declared.objects \ {o}
    BY DeclaredFacts, <2>1 DEF CatalogLike, Facts
  <2> QED
    BY DeclaredFacts, <2>2 DEF Broken
<1>11. CASE c \in {[Declared EXCEPT !.relations = (@ \ {r}) \cup {"elsewhere"}] : r \in Relations}
  <2>1. PICK r \in Relations : c = [Declared EXCEPT !.relations = (@ \ {r}) \cup {"elsewhere"}]
    BY <1>11
  <2>2. CatalogLike(c) /\ c.relations = (Declared.relations \ {r}) \cup {"elsewhere"}
    BY DeclaredFacts, <2>1 DEF CatalogLike, Facts
  <2> QED
    BY DeclaredFacts, <2>2 DEF Broken, RequiredRelations, Relations
<1>12. CASE c \in {[Declared EXCEPT !.recorded[r] = {f}] : r \in Relations, f \in RecordedFacts}
  <2>1. PICK r \in Relations, f \in RecordedFacts : c = [Declared EXCEPT !.recorded[r] = {f}]
    BY <1>12
  <2>2. CatalogLike(c) /\ c.recorded = [Declared.recorded EXCEPT ![r] = {f}]
    BY DeclaredFacts, <2>1 DEF CatalogLike, Facts
  <2>3. c.recorded[r] = {f}
    BY DeclaredFacts, <2>2
  <2> QED
    BY <2>2, <2>3 DEF Broken
<1>13. CASE c \in {[Declared EXCEPT !.triggers[r] = {f}] : r \in Relations, f \in TriggerFacts \ {"present"}}
  <2>1. PICK r \in Relations, f \in TriggerFacts \ {"present"} : c = [Declared EXCEPT !.triggers[r] = {f}]
    BY <1>13
  <2>2. CatalogLike(c) /\ c.triggers = [Declared.triggers EXCEPT ![r] = {f}]
    BY DeclaredFacts, <2>1 DEF CatalogLike, Facts
  <2>3. c.triggers[r] = {f}
    BY DeclaredFacts, <2>2
  <2> QED
    BY <2>2, <2>3 DEF Broken
<1>14. CASE c \in TriggersOff
  <2>1. PICK r \in Relations : c = [Declared EXCEPT !.triggers[r] = {"present"}, !.recorded[r] = {"trigger_oids"}]
    BY <1>14 DEF TriggersOff
  <2>2. CatalogLike(c) /\ c.recorded = [Declared.recorded EXCEPT ![r] = {"trigger_oids"}]
    BY DeclaredFacts, <2>1 DEF CatalogLike, Facts
  <2>3. c.recorded[r] = {"trigger_oids"}
    BY DeclaredFacts, <2>2
  <2> QED
    BY <2>2, <2>3 DEF Broken
<1>15. CASE c \in {[Declared EXCEPT !.indexes[r] = {f}] : r \in Relations, f \in IndexFacts}
  <2>1. PICK r \in Relations, f \in IndexFacts : c = [Declared EXCEPT !.indexes[r] = {f}]
    BY <1>15
  <2>2. CatalogLike(c) /\ c.indexes = [Declared.indexes EXCEPT ![r] = {f}]
    BY DeclaredFacts, <2>1 DEF CatalogLike, Facts
  <2>3. c.indexes[r] = {f}
    BY DeclaredFacts, <2>2
  <2> QED
    BY <2>2, <2>3 DEF Broken
<1>16. CASE c \in {[Declared EXCEPT !.create = {w}] : w \in {"ddl_schema", "ddl_database", "migrator_database"}}
  <2>1. PICK w \in {"ddl_schema", "ddl_database", "migrator_database"} : c = [Declared EXCEPT !.create = {w}]
    BY <1>16
  <2>2. CatalogLike(c) /\ c.create = {w}
    BY DeclaredFacts, <2>1 DEF CatalogLike, Facts
  <2> QED
    BY DeclaredFacts, <2>2 DEF Broken
<1>17. CASE c \in OwnershipOff
  BY <1>17, <1>1, <1>2, <1>3, <1>4, <1>5 DEF OwnershipOff
<1>18. CASE c \in PrivilegeOff
  BY <1>18, <1>6, <1>7, <1>8, <1>9, <1>16 DEF PrivilegeOff
<1>19. CASE c \in RegistryOff
  BY <1>19, <1>10, <1>11, <1>12 DEF RegistryOff
<1>20. CASE c \in ShapeOff
  BY <1>20, <1>13, <1>15 DEF ShapeOff
<1> QED
  BY <1>14, <1>17, <1>18, <1>19, <1>20 DEF OneFactOff

\* No such catalog passes, before a migration or after it.
LEMMA DriftNoticed == DriftIsNoticed
BY OneFactIsBroken, BrokenIsNoticed, ProvisionedIsChecked DEF DriftIsNoticed

(***************************************************************************)
(* The inductive invariant.  The commands are records of their own shape.  *)
(***************************************************************************)
SyncCmds == [op : {"sync"}, at : {"persist", "mark", "audit"}, i : Nat, n : Nat]
AuditCmds == [op : {"sync"}, at : {"persist_audit"}, i : Nat, n : Nat, seq : Nat]
AnchorCmds == [op : {"anchor"}, seq : Nat, auditSeq : Nat]
RecordCmds == [op : {"purge"}, at : {"record"}, shas : SUBSET Digests, list : SUBSET Events]
MarkCmds == [op : {"purge"}, at : {"mark"}, shas : SUBSET Digests, list : SUBSET Events, done : SUBSET Digests]
EvidenceCmds == [op : {"evidence"}, event : Events]
Commands == {Idle} \cup SyncCmds \cup AuditCmds \cup AnchorCmds \cup RecordCmds \cup MarkCmds \cup EvidenceCmds

FilesTyped == /\ chain \in Seq(Events) /\ pend \in SUBSET Events /\ marked \in SUBSET Events
              /\ snap \in [Digests -> {"none", "whole", "purged"}]
              /\ trail \in Seq([shas : SUBSET Digests, by : Procs])
ServerTyped == /\ mirror \in SUBSET (Events \cup Foreign)
               /\ tomb \in [Digests -> [at : Nat, by : Procs \cup {"nobody"}]]
               /\ anchors \in SUBSET [seq : Nat, auditSeq : Nat, at : Nat] /\ IsFiniteSet(anchors)
               /\ clock \in Nat
RestTyped == cmd \in [Procs -> Commands] /\ holds \in SUBSET Events /\ load \in SUBSET Events
TypeOK == FilesTyped /\ ServerTyped /\ RestTyped

\* events of the chain with every event before them
Closed(es) == /\ es \subseteq ListEvents
              /\ \A i, j \in DOMAIN chain : i <= j /\ chain[j] \in es => chain[i] \in es
Ordered == /\ \A i, j \in DOMAIN chain : chain[i] = chain[j] => i = j
           /\ pend \cap ListEvents = {}
           /\ Closed(mirror \cap Events) /\ marked \subseteq mirror

\* the catalogs that a world starts in, and what the migration makes of them
Drifted == OneFactOff \cup {SchemaSQL(c) : c \in OneFactOff}
Guarded == /\ catalog = Declared \/ catalog \in Drifted
           /\ catalog # Declared => mirror \cap Events = {} /\ anchors = {}

SyncSound(c) == c.op = "sync" =>
    /\ catalog = Declared
    /\ c.i > 0 /\ c.i <= c.n + 1 /\ c.n <= Len(chain)
    /\ \A j \in 1..(c.i - 1) : chain[j] \in marked
    /\ c.at # "persist" => c.i <= c.n /\ chain[c.i] \in mirror
    /\ c.at \in {"audit", "persist_audit"} => chain[c.i] \in marked
AnchorSound(c) == c.op = "anchor" => catalog = Declared /\ c.seq <= Len(chain) /\ c.auditSeq <= Len(trail)
PurgeSound(c, p) == c.op = "purge" =>
    /\ Closed(c.list)
    /\ \A s \in c.shas : RefsOf(c.list, s) # {} /\ RefsOf(c.list, s) \cap holds = {}
    /\ c.at = "mark" => c.done \subseteq c.shas /\ \A s \in c.shas : tomb[s].at # 0 /\ tomb[s].by = p
CommandsSound == \A p \in Procs : SyncSound(cmd[p]) /\ AnchorSound(cmd[p]) /\ PurgeSound(cmd[p], p)

\* what an audit entry names was recorded by its process, and an anchor is as late as what it attests to
Attested == \A i \in DOMAIN trail : \A s \in trail[i].shas :
                /\ tomb[s].at # 0 /\ tomb[s].by = trail[i].by
                /\ RefsOf(ListEvents, s) # {}
Timely == /\ \A s \in Digests : tomb[s].at <= clock
          /\ \A a \in anchors : /\ a.auditSeq <= Len(trail)
                                /\ \A i \in DOMAIN trail : \A s \in trail[i].shas :
                                      i <= a.auditSeq => tomb[s].at <= a.at
ReplicaInv == TypeOK /\ Ordered /\ Guarded /\ CommandsSound /\ Attested /\ Timely

---------------------------------------------------------------------------
(* A world that is admitted.                                               *)

\* A migration leaves a declared catalog declared, and one that drifted is provisioned neither before nor after.
LEMMA Migrates ==
  ASSUME NEW w, w = Declared \/ w \in Drifted
  PROVE  /\ SchemaSQL(w) = Declared \/ SchemaSQL(w) \in Drifted
         /\ SchemaSQL(w) = Declared <=> w = Declared
         /\ w # Declared => CheckProvisioningState(w) # "provisioned"
<1>1. SchemaSQL(Declared) = Declared
  <2>1. PICK d : d = SchemaSQL(Declared)
    OBVIOUS
  <2>2. [r \in Relations |-> IF RelationOwner[r] = "owl_migrator" THEN Declared.triggers[r] \ {"present"}
                                                                 ELSE Declared.triggers[r]] = Declared.triggers
    BY DeclaredFacts
  <2>3. [Declared EXCEPT !.triggers = Declared.triggers] = Declared
    BY DeclaredFacts DEF CatalogLike, Facts
  <2> QED
    BY <2>2, <2>3 DEF SchemaSQL
<1>2. /\ eventTriggersOK(Declared) /\ ownersOK(Declared) /\ definersOK(Declared) /\ tablePrivilegeHoldersOK(Declared)
      /\ maintainHoldersOK(Declared) /\ functionExecuteHoldersOK(Declared) /\ protectedObjectIdentityOK(Declared)
      /\ protectedRelationIdentityOK(Declared) /\ protectedRelationStateOK(Declared) /\ createPrivilegesOK(Declared)
  BY DeclaredFacts DEF eventTriggersOK, ownersOK, definersOK, tablePrivilegeHoldersOK, maintainHoldersOK,
         functionExecuteHoldersOK, protectedObjectIdentityOK, protectedRelationIdentityOK, protectedRelationStateOK,
         recordedStateOK, triggerBehaviourOK, indexShapeOK, createPrivilegesOK
<1>3. Checked(Declared)
  BY <1>2 DEF Checked
<1>4. \A c \in OneFactOff : ~Checked(c) /\ ~Checked(SchemaSQL(c)) /\ SchemaSQL(SchemaSQL(c)) = SchemaSQL(c)
  BY OneFactIsBroken, BrokenIsNoticed, MigrationKeeps
<1>5. CASE w = Declared
  BY <1>1, <1>5
<1>6. CASE w \in OneFactOff
  BY <1>3, <1>4, <1>6, ProvisionedIsChecked DEF Drifted
<1>7. ASSUME NEW c \in OneFactOff, w = SchemaSQL(c) PROVE ~Checked(w) /\ SchemaSQL(w) = w
  BY <1>4, <1>7
<1>8. CASE w \in {SchemaSQL(c) : c \in OneFactOff}
  BY <1>3, <1>7, <1>8, ProvisionedIsChecked DEF Drifted
<1> QED
  BY <1>5, <1>6, <1>8 DEF Drifted

\* A verification that does not refuse ran in the declared catalog.
LEMMA Admitted ==
  ASSUME NEW c, NEW mode, NEW genesis,
         VerifyAnchored(c, mode, genesis) \cap {"verified", "absent", "deferrable"} # {}
  PROVE  CheckProvisioningState(c) = "provisioned"
BY DEF VerifyAnchored

(***************************************************************************)
(* What no step takes back: the chain and the trail are only appended to,  *)
(* markers and rows stay, a purge that the server recorded keeps its time  *)
(* and its process, and the declared catalog stays declared.               *)
(***************************************************************************)
Grows == /\ chain' = chain \/ \E e \in pend : chain' = Append(chain, e)
         /\ marked \subseteq marked' /\ mirror \subseteq mirror'
         /\ trail' = trail \/ \E x \in [shas : SUBSET Digests, by : Procs] : trail' = Append(trail, x)
         /\ \A s \in Digests : tomb[s].at # 0 => tomb'[s] = tomb[s]
         /\ catalog = Declared => catalog' = Declared
         /\ UNCHANGED fixed

\* The chain keeps its events where they are, and holds each of them once.
LEMMA ChainGrows ==
  ASSUME FilesTyped, Ordered, Grows
  PROVE  /\ chain' \in Seq(Events) /\ Len(chain) <= Len(chain') /\ Len(chain) \in Nat /\ Len(chain') \in Nat
         /\ \A i \in DOMAIN chain : i \in DOMAIN chain' /\ chain'[i] = chain[i]
         /\ \A i, j \in DOMAIN chain' : chain'[i] = chain'[j] => i = j
         /\ ListEvents \subseteq ListEvents'
<1>1. CASE chain' = chain
  BY <1>1 DEF FilesTyped, Ordered, ListEvents, Range
<1>2. CASE \E e \in pend : chain' = Append(chain, e)
  <2> PICK e \in pend : chain' = Append(chain, e)
    BY <1>2
  <2>1. chain \in Seq(Events) /\ e \in Events /\ e \notin ListEvents
    BY <1>2 DEF FilesTyped, Ordered
  <2>2. /\ chain' \in Seq(Events) /\ Len(chain') = Len(chain) + 1 /\ Len(chain) \in Nat
        /\ \A i \in 1..Len(chain) : chain'[i] = chain[i]
        /\ chain'[Len(chain) + 1] = e
    BY <2>1
  <2>3. DOMAIN chain = 1..Len(chain) /\ DOMAIN chain' = 1..(Len(chain) + 1)
    BY <2>1, <2>2
  <2>4. \A i \in DOMAIN chain : i \in DOMAIN chain' /\ chain'[i] = chain[i] /\ chain[i] # e
    BY <2>1, <2>2, <2>3 DEF ListEvents, Range
  <2>5. \A i, j \in DOMAIN chain' : chain'[i] = chain'[j] => i = j
    <3>1. \A i \in DOMAIN chain' : i \in DOMAIN chain \/ i = Len(chain) + 1
      BY <2>2, <2>3
    <3> QED
      BY <2>2, <2>4, <3>1 DEF Ordered
  <2> QED
    BY <2>2, <2>4, <2>5 DEF ListEvents, Range
<1> QED
  BY <1>1, <1>2 DEF Grows

\* The trail keeps its entries where they are.
LEMMA TrailGrows ==
  ASSUME FilesTyped, Grows
  PROVE  /\ trail' \in Seq([shas : SUBSET Digests, by : Procs]) /\ Len(trail) <= Len(trail')
         /\ Len(trail) \in Nat /\ Len(trail') \in Nat
         /\ \A i \in DOMAIN trail : i \in DOMAIN trail' /\ trail'[i] = trail[i]
<1>1. CASE trail' = trail
  BY <1>1 DEF FilesTyped
<1>2. CASE \E x \in [shas : SUBSET Digests, by : Procs] : trail' = Append(trail, x)
  <2> PICK x \in [shas : SUBSET Digests, by : Procs] : trail' = Append(trail, x)
    BY <1>2
  <2> QED
    BY DEF FilesTyped
<1> QED
  BY <1>1, <1>2 DEF Grows

\* A set of events of the chain with every event before them stays one.
LEMMA ClosedStays ==
  ASSUME FilesTyped, Ordered, Grows, NEW es, Closed(es)
  PROVE  Closed(es)'
<1>1. es \subseteq ListEvents'
  BY ChainGrows DEF Closed
<1>2. ASSUME NEW i \in DOMAIN chain', NEW j \in DOMAIN chain', i <= j, chain'[j] \in es PROVE chain'[i] \in es
  <2>1. PICK k \in DOMAIN chain : chain[k] = chain'[j]
    BY <1>2 DEF Closed, ListEvents, Range
  <2>2. k = j
    BY <1>2, <2>1, ChainGrows
  <2>3. i \in DOMAIN chain
    BY <1>2, <2>1, <2>2, ChainGrows DEF FilesTyped
  <2> QED
    BY <1>2, <2>1, <2>2, <2>3, ChainGrows DEF Closed
<1> QED
  BY <1>1, <1>2 DEF Closed

\* What a command relies on stays.
LEMMA SyncStays ==
  ASSUME FilesTyped, ServerTyped, Ordered, Grows, NEW c \in Commands, SyncSound(c)
  PROVE  SyncSound(c)'
<1> SUFFICES ASSUME c.op = "sync" PROVE SyncSound(c)'
  BY DEF SyncSound
<1>1. c.i \in Nat /\ c.n \in Nat /\ c.i > 0 /\ c.i <= c.n + 1 /\ c.n <= Len(chain)
  BY DEF SyncSound, Commands, Idle, SyncCmds, AuditCmds, AnchorCmds, RecordCmds, MarkCmds, EvidenceCmds
<1>2. Len(chain) \in Nat /\ DOMAIN chain = 1..Len(chain)
  BY DEF FilesTyped
<1>3. \A j \in 1..(c.i - 1) : chain'[j] \in marked'
  BY <1>1, <1>2, ChainGrows DEF SyncSound, Grows
<1>4. c.at # "persist" => c.i <= c.n /\ chain'[c.i] \in mirror'
  BY <1>1, <1>2, ChainGrows DEF SyncSound, Grows
<1>5. c.at \in {"audit", "persist_audit"} => chain'[c.i] \in marked'
  BY <1>1, <1>2, ChainGrows DEF SyncSound, Grows
<1>6. catalog' = Declared /\ c.n <= Len(chain')
  BY <1>1, ChainGrows DEF SyncSound, Grows
<1> QED
  BY <1>1, <1>3, <1>4, <1>5, <1>6 DEF SyncSound

\* What an anchor relies on stays.
LEMMA AnchorStays ==
  ASSUME FilesTyped, Ordered, Grows, NEW c \in Commands, AnchorSound(c)
  PROVE  AnchorSound(c)'
<1> SUFFICES ASSUME c.op = "anchor" PROVE AnchorSound(c)'
  BY DEF AnchorSound
<1>1. c.seq \in Nat /\ c.auditSeq \in Nat
  BY DEF Commands, Idle, SyncCmds, AuditCmds, AnchorCmds, RecordCmds, MarkCmds, EvidenceCmds
<1> QED
  BY <1>1, ChainGrows, TrailGrows DEF AnchorSound, Grows

\* What a purge relies on stays.
LEMMA PurgeStays ==
  ASSUME FilesTyped, Ordered, Grows, NEW c \in Commands, NEW p, PurgeSound(c, p)
  PROVE  PurgeSound(c, p)'
<1> SUFFICES ASSUME c.op = "purge" PROVE PurgeSound(c, p)'
  BY DEF PurgeSound
<1>1. c.shas \in SUBSET Digests
  BY DEF Commands, Idle, SyncCmds, AuditCmds, AnchorCmds, RecordCmds, MarkCmds, EvidenceCmds
<1>2. Closed(c.list)'
  BY ClosedStays DEF PurgeSound
<1>3. \A s \in c.shas : RefsOf(c.list, s) # {} /\ RefsOf(c.list, s) \cap holds' = {}
  BY DEF PurgeSound, Grows, fixed
<1>4. c.at = "mark" => c.done \subseteq c.shas /\ \A s \in c.shas : tomb'[s].at # 0 /\ tomb'[s].by = p
  BY <1>1 DEF PurgeSound, Grows
<1> QED
  BY <1>2, <1>3, <1>4 DEF PurgeSound

Sound(c, p) == SyncSound(c) /\ AnchorSound(c) /\ PurgeSound(c, p)
\* A step of one process, whose command is then sound.
Turn(p) == \E c \in Commands : cmd' = [cmd EXCEPT ![p] = c] /\ Sound(c, p)'

\* A step of one process leaves every command sound.
LEMMA CommandsStay ==
  ASSUME FilesTyped, ServerTyped, RestTyped, Ordered, CommandsSound, Grows,
         cmd' = cmd \/ \E p \in Procs : Turn(p)
  PROVE  RestTyped' /\ CommandsSound'
<1>1. holds' \in SUBSET Events /\ load' \in SUBSET Events
  BY DEF RestTyped, Grows, fixed
<1>2. cmd \in [Procs -> Commands]
  BY DEF RestTyped
<1>3. ASSUME NEW q \in Procs, NEW d, d = cmd'[q], cmd'[q] = cmd[q] PROVE d \in Commands /\ Sound(d, q)'
  <2>1. d = cmd[q] /\ d \in Commands
    BY <1>2, <1>3
  <2>2. SyncSound(d) /\ AnchorSound(d) /\ PurgeSound(d, q)
    BY <2>1 DEF CommandsSound
  <2> QED
    BY <2>1, <2>2, SyncStays, AnchorStays, PurgeStays DEF Sound
<1>4. ASSUME NEW q \in Procs, NEW d, d = cmd'[q] PROVE d \in Commands /\ Sound(d, q)'
  <2>1. CASE cmd' = cmd
    BY <1>3, <1>4, <2>1
  <2>2. ASSUME NEW p \in Procs, Turn(p) PROVE d \in Commands /\ Sound(d, q)'
    <3> PICK c \in Commands : cmd' = [cmd EXCEPT ![p] = c] /\ Sound(c, p)'
      BY <2>2 DEF Turn
    <3>1. CASE p = q
      <4>1. d = c
        BY <1>2, <1>4, <3>1
      <4> QED
        BY <3>1, <4>1
    <3>2. CASE p # q
      <4>1. cmd'[q] = cmd[q]
        BY <1>2, <3>2
      <4> QED
        BY <1>3, <1>4, <4>1
    <3> QED
      BY <3>1, <3>2
  <2> QED
    BY <2>1, <2>2
<1>5. cmd' \in [Procs -> Commands]
  <2>1. \A q \in Procs : cmd'[q] \in Commands
    BY <1>4
  <2>2. cmd' = cmd \/ \E p \in Procs, c \in Commands : cmd' = [cmd EXCEPT ![p] = c]
    BY DEF Turn
  <2>3. \E f : cmd' = [q \in Procs |-> f[q]]
    <3>1. CASE cmd' = cmd
      BY <1>2, <3>1
    <3>2. CASE \E p \in Procs, c \in Commands : cmd' = [cmd EXCEPT ![p] = c]
      BY <1>2, <3>2
    <3> QED
      BY <2>2, <3>1, <3>2
  <2> QED
    BY <2>1, <2>3
<1>6. ASSUME NEW q \in Procs PROVE (SyncSound(cmd[q]) /\ AnchorSound(cmd[q]) /\ PurgeSound(cmd[q], q))'
  <2>1. PICK d : d = cmd'[q]
    OBVIOUS
  <2>2. Sound(d, q)'
    BY <1>4, <2>1
  <2>3. SyncSound(cmd[q])'
    BY <2>1, <2>2 DEF Sound, SyncSound
  <2>4. AnchorSound(cmd[q])'
    BY <2>1, <2>2 DEF Sound, AnchorSound
  <2>5. PurgeSound(cmd[q], q)'
    BY <2>1, <2>2 DEF Sound, PurgeSound
  <2> QED
    BY <2>3, <2>4, <2>5
<1> QED
  BY <1>1, <1>5, <1>6 DEF RestTyped, CommandsSound

Base == FilesTyped /\ ServerTyped /\ Ordered /\ Guarded /\ Attested /\ Timely

\* A command tells its shape by its operation and its step.
LEMMA Shapes ==
  ASSUME NEW c \in Commands
  PROVE  /\ c.op = "sync" /\ c.at \in {"persist", "mark", "audit"} => c \in SyncCmds
         /\ c.op = "sync" /\ c.at = "persist_audit" => c \in AuditCmds
         /\ c.op = "sync" => c.i \in Nat /\ c.n \in Nat
         /\ c.op = "anchor" => c \in AnchorCmds
         /\ c.op = "purge" /\ c.at = "record" => c \in RecordCmds
         /\ c.op = "purge" /\ c.at = "mark" => c \in MarkCmds
         /\ c.op = "evidence" => c \in EvidenceCmds
BY DEF Commands, Idle, SyncCmds, AuditCmds, AnchorCmds, RecordCmds, MarkCmds, EvidenceCmds

\* A process without a command relies on nothing.
LEMMA IdleIsSound ==
  ASSUME NEW p \in Procs
  PROVE  Idle \in Commands /\ Sound(Idle, p) /\ Sound(Idle, p)'
BY DEF Commands, Idle, Sound, SyncSound, AnchorSound, PurgeSound

\* The step of a process that ends its command.
LEMMA Ends ==
  ASSUME NEW p \in Procs, cmd' = [cmd EXCEPT ![p] = Idle]
  PROVE  Turn(p)
BY IdleIsSound DEF Turn

\* Steps that leave the chain, the trail, the rows and the catalog alone.
LEMMA Still ==
  ASSUME Base, UNCHANGED <<chain, pend, marked, trail, mirror, tomb, anchors, clock, catalog, fixed>>,
         snap' \in [Digests -> {"none", "whole", "purged"}]
  PROVE  Grows /\ Base'
<1>1. Grows
  BY DEF Grows, fixed
<1>2. FilesTyped' /\ ServerTyped'
  BY DEF Base, FilesTyped, ServerTyped
<1>3. Ordered' /\ Guarded' /\ Attested' /\ Timely'
  BY DEF Base, Ordered, Closed, ListEvents, Range, Guarded, Attested, Timely, RefsOf
<1> QED
  BY <1>1, <1>2, <1>3 DEF Base

---------------------------------------------------------------------------
(* The catalog and the start of a command.                                 *)

\* Migrate: the catalog changes, and stays what it was of the two.
LEMMA MigrateKept ==
  ASSUME Base, catalog' = SchemaSQL(catalog), UNCHANGED <<files, server, clock, fixed>>
  PROVE  Grows /\ Base'
<1>1. Guarded' /\ (catalog = Declared => catalog' = Declared)
  BY Migrates DEF Base, Guarded, server
<1>2. Grows
  BY <1>1 DEF Grows, files, server
<1>3. FilesTyped' /\ ServerTyped'
  BY DEF Base, FilesTyped, ServerTyped, files, server
<1>4. Ordered' /\ Attested' /\ Timely'
  BY DEF Base, Ordered, Closed, ListEvents, Range, Attested, Timely, RefsOf, files, server
<1> QED
  BY <1>1, <1>2, <1>3, <1>4 DEF Base

\* A sync starts at the first event of the chain, in the declared catalog.
LEMMA SyncStartKept ==
  ASSUME Base, NEW p \in Procs, NEW mode, SyncStart(p, mode)
  PROVE  Grows /\ Base' /\ Turn(p)
<1>1. Grows /\ Base'
  BY MigrateKept DEF SyncStart
<1>2. catalog' = Declared
  <2>1. PICK c : c = SchemaSQL(catalog)
    OBVIOUS
  <2>2. VerifyAnchored(c, mode, FALSE) \cap {"verified", "absent", "deferrable"} # {}
    BY <2>1 DEF SyncStart
  <2>3. c = Declared \/ c \in Drifted
    BY <2>1, Migrates DEF Base, Guarded
  <2> QED
    BY <2>1, <2>2, <2>3, Admitted, Migrates DEF SyncStart
<1>3. PICK c : c = [op |-> "sync", at |-> "persist", i |-> 1, n |-> Len(chain)]
  OBVIOUS
<1>4. c \in Commands /\ Sound(c, p)'
  BY <1>2, <1>3 DEF SyncStart, files, Base, FilesTyped, Commands, SyncCmds, Sound, SyncSound, AnchorSound, PurgeSound
<1> QED
  BY <1>1, <1>3, <1>4 DEF SyncStart, Turn

\* An anchor is taken of a chain and a trail that only grow.
LEMMA AnchorStartKept ==
  ASSUME Base, NEW p \in Procs, NEW mode, NEW genesis, AnchorStart(p, mode, genesis)
  PROVE  Grows /\ Base' /\ Turn(p)
<1>1. Grows /\ Base'
  BY Still DEF AnchorStart, files, server, Base, FilesTyped
<1>2. catalog = Declared
  BY Admitted, Migrates DEF AnchorStart, Base, Guarded
<1>3. PICK c : c = [op |-> "anchor", seq |-> Len(chain), auditSeq |-> Len(trail)]
  OBVIOUS
<1>4. c \in Commands /\ Sound(c, p)'
  BY <1>2, <1>3 DEF AnchorStart, files, Base, FilesTyped, Commands, AnchorCmds, Sound, SyncSound, AnchorSound,
         PurgeSound
<1> QED
  BY <1>1, <1>3, <1>4 DEF AnchorStart, Turn

\* A purge lists the whole chain and the snapshots that nothing held needs.
LEMMA PurgeStartKept ==
  ASSUME Base, NEW p \in Procs, NEW now, PurgeStart(p, now)
  PROVE  Grows /\ Base' /\ Turn(p)
<1>1. Grows /\ Base'
  BY Still DEF PurgeStart, files, server, Base, FilesTyped
<1>2. PICK c : c = [op |-> "purge", at |-> "record", shas |-> Eligible(now), list |-> ListEvents]
  OBVIOUS
<1>3. ListEvents \in SUBSET Events /\ Closed(ListEvents)
  BY DEF Base, FilesTyped, Closed, ListEvents, Range
<1>4. /\ Eligible(now) \in SUBSET Digests
      /\ \A s \in Eligible(now) : RefsOf(ListEvents, s) # {} /\ RefsOf(ListEvents, s) \cap holds = {}
  BY DEF Eligible
<1>5. c \in RecordCmds /\ c \in Commands
  BY <1>2, <1>3, <1>4 DEF Commands, RecordCmds
<1>6. PurgeSound(c, p)
  BY <1>2, <1>3, <1>4 DEF PurgeSound
<1>7. PurgeSound(c, p)'
  BY <1>1, <1>5, <1>6, PurgeStays DEF Base
<1>8. Sound(c, p)'
  BY <1>2, <1>7 DEF Sound, SyncSound, AnchorSound
<1> QED
  BY <1>1, <1>2, <1>5, <1>8 DEF PurgeStart, Turn

\* A replay or an export reads, and changes nothing.
LEMMA EvidenceStartKept ==
  ASSUME Base, NEW p \in Procs, NEW mode, NEW e \in Events, EvidenceStart(p, mode, e)
  PROVE  Grows /\ Base' /\ Turn(p)
<1>1. Grows /\ Base'
  BY Still DEF EvidenceStart, files, server, Base, FilesTyped
<1>2. PICK c : c = [op |-> "evidence", event |-> e]
  OBVIOUS
<1>3. c \in Commands /\ Sound(c, p)'
  BY <1>2 DEF Commands, EvidenceCmds, Sound, SyncSound, AnchorSound, PurgeSound
<1> QED
  BY <1>1, <1>2, <1>3 DEF EvidenceStart, Turn

\* A command that ends, or is cut off, without a word to the files or the server.
LEMMA EndKept ==
  ASSUME Base, NEW p \in Procs,
         PersistRefused(p) \/ SyncEnd(p) \/ RecordPurgeRefused(p) \/ CutOff(p)
  PROVE  Grows /\ Base' /\ Turn(p)
<1>1. /\ UNCHANGED <<files, server, clock, catalog, fixed>> /\ cmd' = [cmd EXCEPT ![p] = Idle]
  BY DEF PersistRefused, SyncEnd, RecordPurgeRefused, CutOff
<1> QED
  BY <1>1, Still, Ends DEF files, server, Base, FilesTyped

---------------------------------------------------------------------------
(* The API and the steps of sync.                                          *)

\* The steps that leave the server alone and append nothing to the trail.
LEMMA FilesKept ==
  ASSUME Base, Grows, FilesTyped', UNCHANGED <<trail, server, clock, catalog>>, marked' \subseteq mirror',
         pend' \cap ListEvents' = {}
  PROVE  Base'
<1>1. ServerTyped' /\ Guarded' /\ Timely'
  BY DEF Base, ServerTyped, Guarded, Timely, server
<1>2. Closed(mirror \cap Events)'
  <2>1. PICK es : es = mirror \cap Events
    OBVIOUS
  <2>2. Closed(es)'
    BY <2>1, ClosedStays DEF Base, Ordered
  <2> QED
    BY <2>1, <2>2 DEF server, Closed
<1>3. Ordered'
  BY <1>2, ChainGrows DEF Base, Ordered
<1>4. Attested'
  BY ChainGrows DEF Base, Attested, RefsOf, server
<1> QED
  BY <1>1, <1>3, <1>4 DEF Base

\* The snapshots of an event are written before the event is in the chain.
LEMMA AppendSnapshotsKept ==
  ASSUME Base, NEW e \in Events, AppendSnapshots(e)
  PROVE  Grows /\ Base' /\ cmd' = cmd
<1>1. FilesTyped'
  BY DEF AppendSnapshots, Base, FilesTyped
<1>2. Grows
  BY DEF AppendSnapshots, Grows, server
<1>3. pend' \cap ListEvents' = {} /\ marked' \subseteq mirror'
  BY DEF AppendSnapshots, ListEvents, Range, Base, Ordered, server
<1> QED
  BY <1>1, <1>2, <1>3, FilesKept DEF AppendSnapshots

\* The event joins the chain at its end.
LEMMA AppendChainKept ==
  ASSUME Base, NEW e \in Events, AppendChain(e)
  PROVE  Grows /\ Base' /\ cmd' = cmd
<1>1. Grows
  BY DEF AppendChain, Grows, server
<1>2. FilesTyped'
  BY <1>1, ChainGrows DEF AppendChain, Base, FilesTyped
<1>3. pend' \cap ListEvents' = {} /\ marked' \subseteq mirror'
  BY DEF AppendChain, Base, Ordered, server
<1> QED
  BY <1>1, <1>2, <1>3, FilesKept DEF AppendChain

\* A sync passes over an event that is marked.
LEMMA SyncSkipKept ==
  ASSUME Base, RestTyped, CommandsSound, NEW p \in Procs, SyncSkip(p)
  PROVE  Grows /\ Base' /\ Turn(p)
<1>1. Grows /\ Base'
  BY Still DEF SyncSkip, files, server, Base, FilesTyped
<1>2. PICK d : d = cmd[p]
  OBVIOUS
<1>3. d \in SyncCmds /\ SyncSound(d) /\ d.op = "sync" /\ d.at = "persist" /\ d.i <= d.n /\ chain[d.i] \in marked
  BY <1>2, Shapes DEF SyncSkip, SyncAt, RestTyped, CommandsSound
<1>4. PICK c : c = [d EXCEPT !.i = @ + 1]
  OBVIOUS
<1>5. c \in SyncCmds /\ c.op = "sync" /\ c.at = "persist" /\ c.i = d.i + 1 /\ c.n = d.n /\ d.i \in Nat /\ d.n \in Nat
  BY <1>3, <1>4 DEF SyncCmds
<1>6. SyncSound(c)
  BY <1>3, <1>5 DEF SyncSound
<1>7. Sound(c, p)'
  BY <1>1, <1>5, <1>6, SyncStays DEF Base, Commands, Sound, AnchorSound, PurgeSound
<1> QED
  BY <1>1, <1>2, <1>4, <1>5, <1>7 DEF SyncSkip, Turn, Commands

\* A row is written when those of every earlier event are.
LEMMA PersistKept ==
  ASSUME Base, RestTyped, CommandsSound, NEW p \in Procs, Persist(p)
  PROVE  Grows /\ Base' /\ Turn(p)
<1>1. PICK d : d = cmd[p]
  OBVIOUS
<1>2. d \in SyncCmds /\ SyncSound(d) /\ d.op = "sync" /\ d.at = "persist" /\ d.i <= d.n
  BY <1>1, Shapes DEF Persist, SyncAt, RestTyped, CommandsSound
<1>3. d.i \in Nat /\ d.n \in Nat /\ d.i > 0 /\ d.n <= Len(chain) /\ catalog = Declared
  BY <1>2 DEF SyncSound, SyncCmds
<1>4. chain \in Seq(Events) /\ Len(chain) \in Nat /\ DOMAIN chain = 1..Len(chain)
  BY DEF Base, FilesTyped
<1>5. PICK e : e = chain[d.i]
  OBVIOUS
<1>6. d.i \in DOMAIN chain /\ e \in Events /\ e \in ListEvents /\ mirror' = mirror \cup {e}
  BY <1>1, <1>3, <1>4, <1>2, <1>5 DEF Persist, ListEvents, Range
<1>7. Grows
  BY <1>6 DEF Persist, Grows, files
<1>8. Closed(mirror \cap Events)'
  <2>1. mirror' \cap Events = (mirror \cap Events) \cup {e}
    BY <1>6
  <2>2. \A j \in DOMAIN chain : j <= d.i => chain[j] \in mirror' \cap Events
    BY <1>2, <1>3, <1>4, <1>5, <1>6 DEF SyncSound, Base, Ordered
  <2>3. \A j \in DOMAIN chain : chain[j] = e => j = d.i
    BY <1>5, <1>6 DEF Base, Ordered
  <2>4. ASSUME NEW i \in DOMAIN chain, NEW j \in DOMAIN chain, i <= j, chain[j] \in mirror' \cap Events
        PROVE  chain[i] \in mirror' \cap Events
    BY <1>3, <1>4, <2>1, <2>2, <2>3, <2>4 DEF Base, Ordered, Closed
  <2>5. mirror' \cap Events \subseteq ListEvents
    BY <1>6, <2>1 DEF Base, Ordered, Closed
  <2> QED
    BY <2>4, <2>5 DEF Persist, files, Closed, ListEvents, Range
<1>9. FilesTyped' /\ ServerTyped' /\ Guarded'
  BY <1>3, <1>6 DEF Persist, files, Base, FilesTyped, ServerTyped, Guarded
<1>10. Ordered' /\ Attested' /\ Timely'
  BY <1>6, <1>8 DEF Persist, files, Base, Ordered, ListEvents, Range, Attested, Timely, RefsOf
<1>11. Base'
  BY <1>9, <1>10 DEF Base
<1>12. PICK c : c = [d EXCEPT !.at = "mark"]
  OBVIOUS
<1>13. c \in SyncCmds /\ c.op = "sync" /\ c.at = "mark" /\ c.i = d.i /\ c.n = d.n
  BY <1>2, <1>12 DEF SyncCmds
<1>14. SyncSound(c)'
  <2>1. SyncSound(d)'
    BY <1>2, <1>7, SyncStays DEF Base, Commands
  <2>2. chain' = chain /\ e \in mirror'
    BY <1>6 DEF Persist, files
  <2> QED
    BY <1>2, <1>5, <1>13, <2>1, <2>2 DEF SyncSound
<1>15. Sound(c, p)'
  BY <1>13, <1>14 DEF Sound, AnchorSound, PurgeSound
<1> QED
  BY <1>1, <1>7, <1>11, <1>12, <1>13, <1>15 DEF Persist, SyncTo, Turn, Commands

\* An event is marked after its row is written.
LEMMA MarkReplicatedKept ==
  ASSUME Base, RestTyped, CommandsSound, NEW p \in Procs, MarkReplicated(p)
  PROVE  Grows /\ Base' /\ Turn(p)
<1>1. PICK d : d = cmd[p]
  OBVIOUS
<1>2. d \in SyncCmds /\ SyncSound(d) /\ d.op = "sync" /\ d.at = "mark" /\ d.i <= d.n
  BY <1>1, Shapes DEF MarkReplicated, SyncAt, RestTyped, CommandsSound
<1>3. PICK e : e = chain[d.i]
  OBVIOUS
<1>4. e \in mirror /\ e \in Events
  <2>1. d.i \in 1..Len(chain) /\ e \in mirror
    BY <1>2, <1>3 DEF SyncSound, SyncCmds, Base, FilesTyped
  <2> QED
    BY <1>3, <2>1 DEF Base, FilesTyped
<1>5. marked' = marked \cup {e}
  BY <1>1, <1>3 DEF MarkReplicated
<1>6. FilesTyped' /\ marked' \subseteq mirror'
  BY <1>4, <1>5 DEF MarkReplicated, Base, FilesTyped, Ordered, server
<1>7. Grows
  BY <1>5 DEF MarkReplicated, Grows, server
<1>8. Base'
  BY <1>6, <1>7, FilesKept DEF MarkReplicated, Base, Ordered, ListEvents, Range
<1>9. PICK c : c = [d EXCEPT !.at = "audit"]
  OBVIOUS
<1>10. c \in SyncCmds /\ c.op = "sync" /\ c.at = "audit" /\ c.i = d.i /\ c.n = d.n
  BY <1>2, <1>9 DEF SyncCmds
<1>11. SyncSound(c)'
  <2>1. SyncSound(d)'
    BY <1>2, <1>7, SyncStays DEF Base, Commands
  <2>2. chain' = chain /\ e \in marked'
    BY <1>5 DEF MarkReplicated
  <2> QED
    BY <1>2, <1>3, <1>10, <2>1, <2>2 DEF SyncSound
<1>12. Sound(c, p)'
  BY <1>10, <1>11 DEF Sound, AnchorSound, PurgeSound
<1> QED
  BY <1>1, <1>7, <1>8, <1>9, <1>10, <1>12 DEF MarkReplicated, SyncTo, Turn, Commands

---------------------------------------------------------------------------
(* The audit trail, the anchors and the purges.                            *)

\* An entry that names only snapshots its process had the server record.
LEMMA TrailKept ==
  ASSUME Base, NEW shas \in SUBSET Digests, NEW p \in Procs, AppendTrail(shas, p),
         \A s \in shas : tomb[s].at # 0 /\ tomb[s].by = p /\ RefsOf(ListEvents, s) # {},
         UNCHANGED <<chain, pend, snap, marked, server, clock, catalog, fixed>>
  PROVE  Grows /\ Base' /\ Len(trail') = Len(trail) + 1
<1>1. PICK x : x = [shas |-> shas, by |-> p]
  OBVIOUS
<1>2. x \in [shas : SUBSET Digests, by : Procs] /\ x.shas = shas /\ x.by = p /\ trail' = Append(trail, x)
  BY <1>1 DEF AppendTrail
<1>3. /\ trail \in Seq([shas : SUBSET Digests, by : Procs]) /\ Len(trail) \in Nat
      /\ Len(trail') = Len(trail) + 1 /\ DOMAIN trail = 1..Len(trail) /\ DOMAIN trail' = 1..(Len(trail) + 1)
      /\ (\A i \in DOMAIN trail : trail'[i] = trail[i]) /\ trail'[Len(trail) + 1] = x
  BY <1>2 DEF Base, FilesTyped
<1>4. Grows
  BY <1>2 DEF Grows, server
<1>5. FilesTyped'
  BY <1>4, TrailGrows DEF Base, FilesTyped
<1>6. ServerTyped' /\ Ordered' /\ Guarded'
  BY DEF Base, ServerTyped, Ordered, Closed, ListEvents, Range, Guarded, server
<1>7. ListEvents' = ListEvents
  BY DEF ListEvents, Range
<1>8. ASSUME NEW i \in DOMAIN trail', NEW s \in trail'[i].shas
      PROVE  tomb[s].at # 0 /\ tomb[s].by = trail'[i].by /\ RefsOf(ListEvents, s) # {}
  <2>1. CASE i \in DOMAIN trail
    BY <1>3, <1>8, <2>1 DEF Base, Attested
  <2>2. CASE i = Len(trail) + 1
    BY <1>2, <1>3, <1>8, <2>2
  <2> QED
    BY <1>3, <2>1, <2>2
<1>9. Attested'
  BY <1>7, <1>8 DEF Attested, server, RefsOf
<1>10. Timely'
  <2>1. ASSUME NEW a \in anchors PROVE a.auditSeq \in Nat /\ a.auditSeq <= Len(trail)
    BY DEF Base, Timely, ServerTyped
  <2>2. ASSUME NEW a \in anchors, NEW i \in DOMAIN trail', i <= a.auditSeq
        PROVE  i \in DOMAIN trail /\ trail'[i] = trail[i]
    BY <1>3, <2>1, <2>2
  <2> QED
    BY <1>3, <2>1, <2>2 DEF Base, Timely, server
<1> QED
  BY <1>3, <1>4, <1>5, <1>6, <1>9, <1>10 DEF Base

\* The audit entry of a sync names no snapshot.
LEMMA SyncAuditKept ==
  ASSUME Base, RestTyped, CommandsSound, NEW p \in Procs, SyncAudit(p)
  PROVE  Grows /\ Base' /\ Turn(p)
<1>1. Grows /\ Base' /\ Len(trail') = Len(trail) + 1
  BY TrailKept DEF SyncAudit
<1>2. PICK d : d = cmd[p]
  OBVIOUS
<1>3. d \in SyncCmds /\ SyncSound(d) /\ d.op = "sync" /\ d.at = "audit" /\ d.i <= d.n
  BY <1>2, Shapes DEF SyncAudit, SyncAt, RestTyped, CommandsSound
<1>4. PICK c : c = [op |-> "sync", at |-> "persist_audit", i |-> d.i, n |-> d.n, seq |-> Len(trail')]
  OBVIOUS
<1>5. Len(trail') \in Nat
  BY <1>1 DEF Base, FilesTyped
<1>6. c \in AuditCmds /\ c.op = "sync" /\ c.at = "persist_audit" /\ c.i = d.i /\ c.n = d.n
  BY <1>3, <1>4, <1>5 DEF SyncCmds, AuditCmds
<1>7. SyncSound(c)'
  <2>1. SyncSound(d)'
    BY <1>1, <1>3, SyncStays DEF Base, Commands
  <2> QED
    BY <1>3, <1>6, <2>1 DEF SyncSound
<1>8. Sound(c, p)'
  BY <1>6, <1>7 DEF Sound, AnchorSound, PurgeSound
<1>9. cmd' = [cmd EXCEPT ![p] = c]
  BY <1>2, <1>4 DEF SyncAudit
<1> QED
  BY <1>1, <1>6, <1>8, <1>9 DEF Turn, Commands

\* Its copy on the server ends the turn of an event that is marked.
LEMMA PersistAuditKept ==
  ASSUME Base, RestTyped, CommandsSound, NEW p \in Procs, PersistAudit(p)
  PROVE  Grows /\ Base' /\ Turn(p)
<1>1. Grows /\ Base'
  BY Still DEF PersistAudit, files, Base, FilesTyped
<1>2. PICK d : d = cmd[p]
  OBVIOUS
<1>3. d \in AuditCmds /\ SyncSound(d) /\ d.op = "sync" /\ d.at = "persist_audit" /\ d.i <= d.n
  BY <1>2, Shapes DEF PersistAudit, SyncAt, RestTyped, CommandsSound
<1>4. PICK c : c = [op |-> "sync", at |-> "persist", i |-> d.i + 1, n |-> d.n]
  OBVIOUS
<1>5. c \in SyncCmds /\ c.op = "sync" /\ c.at = "persist" /\ c.i = d.i + 1 /\ c.n = d.n /\ d.i \in Nat /\ d.n \in Nat
  BY <1>3, <1>4 DEF SyncCmds, AuditCmds
<1>6. SyncSound(c)
  BY <1>3, <1>5 DEF SyncSound
<1>7. Sound(c, p)'
  BY <1>1, <1>5, <1>6, SyncStays DEF Base, Commands, Sound, AnchorSound, PurgeSound
<1>8. cmd' = [cmd EXCEPT ![p] = c]
  BY <1>2, <1>4 DEF PersistAudit
<1> QED
  BY <1>1, <1>5, <1>7, <1>8 DEF Turn, Commands

\* The audit entry of a replay or an export names no snapshot.
LEMMA EvidenceEndKept ==
  ASSUME Base, RestTyped, NEW p \in Procs, EvidenceEnd(p)
  PROVE  Grows /\ Base' /\ Turn(p)
<1>1. CASE AppendTrail({}, p)
  BY <1>1, TrailKept, Ends DEF EvidenceEnd
<1>2. CASE UNCHANGED trail
  BY <1>2, Still, Ends DEF EvidenceEnd, server, Base, FilesTyped
<1> QED
  BY <1>1, <1>2 DEF EvidenceEnd

\* A snapshot is marked as purged after the server recorded it.
LEMMA MarkPurgedKept ==
  ASSUME Base, RestTyped, CommandsSound, NEW p \in Procs, NEW s \in Digests, MarkPurged(p, s)
  PROVE  Grows /\ Base' /\ Turn(p) /\ tomb[s].at # 0
<1>1. Grows /\ Base'
  BY Still DEF MarkPurged, server, Base, FilesTyped
<1>2. PICK d : d = cmd[p]
  OBVIOUS
<1>3. d \in MarkCmds /\ PurgeSound(d, p) /\ d.op = "purge" /\ d.at = "mark" /\ s \in d.shas
  BY <1>2, Shapes DEF MarkPurged, RestTyped, CommandsSound
<1>4. PICK c : c = [d EXCEPT !.done = @ \cup {s}]
  OBVIOUS
<1>5. /\ c \in MarkCmds /\ c.op = "purge" /\ c.at = "mark"
      /\ c.shas = d.shas /\ c.list = d.list /\ c.done = d.done \cup {s}
  BY <1>3, <1>4 DEF MarkCmds
<1>6. PurgeSound(c, p)
  BY <1>3, <1>5 DEF PurgeSound
<1>7. Sound(c, p)'
  BY <1>1, <1>5, <1>6, PurgeStays DEF Base, Commands, Sound, AnchorSound, SyncSound
<1>8. tomb[s].at # 0
  BY <1>3 DEF PurgeSound
<1>9. cmd' = [cmd EXCEPT ![p] = c]
  BY <1>2, <1>4 DEF MarkPurged
<1> QED
  BY <1>1, <1>5, <1>7, <1>8, <1>9 DEF Turn, Commands

\* The audit entry of a purge names what the server recorded for this process.
LEMMA PurgeAuditKept ==
  ASSUME Base, RestTyped, CommandsSound, NEW p \in Procs, PurgeAudit(p)
  PROVE  Grows /\ Base' /\ Turn(p)
<1>1. PICK d : d = cmd[p]
  OBVIOUS
<1>2. /\ d \in MarkCmds /\ PurgeSound(d, p) /\ d.op = "purge" /\ d.at = "mark"
      /\ d.done = d.shas /\ d.done \in SUBSET Digests
  BY <1>1, Shapes DEF PurgeAudit, RestTyped, CommandsSound, MarkCmds
<1>3. ASSUME NEW s \in d.done PROVE tomb[s].at # 0 /\ tomb[s].by = p /\ RefsOf(ListEvents, s) # {}
  <2>1. RefsOf(d.list, s) # {} /\ d.list \subseteq ListEvents /\ tomb[s].at # 0 /\ tomb[s].by = p
    BY <1>2, <1>3 DEF PurgeSound, Closed
  <2> QED
    BY <2>1 DEF RefsOf
<1> QED
  BY <1>1, <1>2, <1>3, TrailKept, Ends DEF PurgeAudit

\* An audit entry names snapshots.
LEMMA EntriesTyped ==
  ASSUME FilesTyped, NEW i \in DOMAIN trail, NEW s \in trail[i].shas
  PROVE  s \in Digests
<1>1. PICK R : R = [shas : SUBSET Digests, by : Procs]
  OBVIOUS
<1>2. trail \in Seq(R)
  BY <1>1 DEF FilesTyped
<1>3. trail[i] \in R
  BY <1>2
<1> QED
  BY <1>1, <1>3

\* An anchor is later than every purge that the server has recorded.
LEMMA WriteAnchorKept ==
  ASSUME Base, RestTyped, CommandsSound, NEW p \in Procs, WriteAnchor(p)
  PROVE  Grows /\ Base' /\ Turn(p)
<1>1. PICK d : d = cmd[p]
  OBVIOUS
<1>2. d \in AnchorCmds /\ d.seq \in Nat /\ d.auditSeq \in Nat /\ d.auditSeq <= Len(trail) /\ catalog = Declared
  BY <1>1, Shapes DEF WriteAnchor, RestTyped, CommandsSound, AnchorSound, AnchorCmds
<1>3. Grows /\ Turn(p)
  BY Ends DEF WriteAnchor, Grows, files
<1>4. CASE UNCHANGED <<anchors, clock>>
  BY <1>3, <1>4, Still DEF WriteAnchor, files, Base, FilesTyped
<1>5. CASE ~UNCHANGED <<anchors, clock>>
  <2>1. PICK a : a = [seq |-> d.seq, auditSeq |-> d.auditSeq, at |-> clock + 1]
    OBVIOUS
  <2>2. clock' = clock + 1 /\ anchors' = anchors \cup {a} /\ clock \in Nat
    BY <1>1, <1>5, <2>1 DEF WriteAnchor, Base, ServerTyped
  <2>3. a \in [seq : Nat, auditSeq : Nat, at : Nat] /\ a.auditSeq = d.auditSeq /\ a.at = clock + 1
    BY <1>2, <2>1, <2>2
  <2>4. ServerTyped'
    <3>1. IsFiniteSet(anchors')
      BY <2>2, FS_AddElement DEF Base, ServerTyped
    <3> QED
      BY <2>2, <2>3, <3>1 DEF WriteAnchor, Base, ServerTyped
  <2>5. FilesTyped' /\ Ordered' /\ Guarded' /\ Attested'
    BY <1>2 DEF WriteAnchor, files, Base, FilesTyped, Ordered, Closed, ListEvents, Range, Guarded, Attested, RefsOf
  <2>6. \A s \in Digests : tomb[s].at \in Nat /\ tomb[s].at <= clock
    BY DEF Base, ServerTyped, Timely
  <2>7. ASSUME NEW i \in DOMAIN trail, NEW s \in trail[i].shas PROVE tomb[s].at <= clock + 1
    BY <2>2, <2>6, EntriesTyped DEF Base
  <2>8. Timely'
    <3>1. \A s \in Digests : tomb[s].at <= clock'
      BY <2>2, <2>6
    <3>2. ASSUME NEW b \in anchors'
          PROVE  /\ b.auditSeq <= Len(trail)
                 /\ \A i \in DOMAIN trail : \A s \in trail[i].shas : i <= b.auditSeq => tomb[s].at <= b.at
      <4>1. CASE b = a
        BY <1>2, <2>3, <2>7, <4>1
      <4>2. CASE b \in anchors
        BY <4>2 DEF Base, Timely
      <4> QED
        BY <2>2, <4>1, <4>2
    <3> QED
      BY <3>1, <3>2 DEF Timely, WriteAnchor, files
  <2> QED
    BY <1>3, <2>4, <2>5, <2>8 DEF Base
<1> QED
  BY <1>4, <1>5

\* The clock only advances.
LEMMA TickKept ==
  ASSUME Base, Tick
  PROVE  Grows /\ Base' /\ cmd' = cmd
<1>1. Grows /\ cmd' = cmd
  BY DEF Tick, Grows, files, server
<1>2. FilesTyped' /\ ServerTyped' /\ Ordered' /\ Guarded' /\ Attested'
  <2>1. FilesTyped' /\ ServerTyped'
    BY DEF Tick, files, server, Base, FilesTyped, ServerTyped
  <2>2. Ordered' /\ Guarded'
    BY DEF Tick, files, server, Base, Ordered, Closed, ListEvents, Range, Guarded
  <2>3. Attested'
    BY DEF Tick, files, server, Base, ListEvents, Range, Attested, RefsOf
  <2> QED
    BY <2>1, <2>2, <2>3
<1>3. clock \in Nat /\ \A s \in Digests : tomb[s].at \in Nat
  BY DEF Base, ServerTyped
<1>4. Timely'
  BY <1>3 DEF Tick, files, server, Base, Timely
<1> QED
  BY <1>1, <1>2, <1>4 DEF Base

\* The server records a snapshot once, at a time of its own.
LEMMA RecordPurgeKept ==
  ASSUME Base, RestTyped, CommandsSound, NEW p \in Procs, RecordPurge(p)
  PROVE  Grows /\ Base' /\ Turn(p)
<1>1. PICK d : d = cmd[p]
  OBVIOUS
<1>2. d \in RecordCmds /\ PurgeSound(d, p) /\ d.op = "purge"
  BY <1>1, Shapes DEF RecordPurge, RestTyped, CommandsSound
<1>3. PICK recorded : recorded = Purgeable(d.shas)
  OBVIOUS
<1>4. recorded \subseteq d.shas /\ recorded \in SUBSET Digests /\ \A s \in recorded : tomb[s].at = 0
  BY <1>1, <1>2, <1>3 DEF RecordPurge, Purgeable, RecordCmds
<1>5. /\ tomb' = [s \in Digests |-> IF s \in recorded THEN [at |-> clock', by |-> p] ELSE tomb[s]]
      /\ clock' = clock + 1 /\ clock \in Nat
  BY <1>1, <1>3 DEF RecordPurge, Base, ServerTyped
<1>6. \A s \in Digests : tomb[s].at # 0 => tomb'[s] = tomb[s]
  BY <1>4, <1>5
<1>7. \A s \in recorded : tomb'[s].at # 0 /\ tomb'[s].by = p
  BY <1>4, <1>5
<1>8. Grows
  BY <1>6 DEF RecordPurge, Grows, files
<1>9. FilesTyped' /\ Ordered' /\ Guarded'
  BY DEF RecordPurge, files, Base, FilesTyped, Ordered, Closed, ListEvents, Range, Guarded
<1>10. ServerTyped'
  BY <1>5 DEF RecordPurge, Base, ServerTyped
<1>11. \A i \in DOMAIN trail : \A s \in trail[i].shas : s \in Digests /\ tomb'[s] = tomb[s]
  BY <1>6, EntriesTyped DEF Base, Attested
<1>12. Attested'
  BY <1>11 DEF RecordPurge, files, Base, Attested, ListEvents, Range, RefsOf
<1>13. Timely'
  <2>1. \A s \in Digests : tomb[s].at \in Nat /\ tomb[s].at <= clock
    BY DEF Base, ServerTyped, Timely
  <2>2. \A s \in Digests : tomb'[s].at <= clock'
    BY <1>5, <2>1
  <2> QED
    BY <1>11, <2>2 DEF RecordPurge, files, Base, Timely
<1>14. PICK c : c = [op |-> "purge", at |-> "mark", shas |-> recorded, list |-> d.list, done |-> {}]
  OBVIOUS
<1>15. c \in MarkCmds /\ c.op = "purge" /\ c.at = "mark" /\ c.shas = recorded /\ c.list = d.list /\ c.done = {}
  BY <1>2, <1>4, <1>14 DEF RecordCmds, MarkCmds
<1>16. PurgeSound(c, p)'
  <2>1. PurgeSound(d, p)'
    BY <1>2, <1>8, PurgeStays DEF Base, Commands
  <2> QED
    BY <1>2, <1>4, <1>7, <1>15, <2>1 DEF PurgeSound
<1>17. Sound(c, p)'
  BY <1>15, <1>16 DEF Sound, SyncSound, AnchorSound
<1>18. cmd' = [cmd EXCEPT ![p] = c]
  BY <1>1, <1>3, <1>14 DEF RecordPurge
<1> QED
  BY <1>8, <1>9, <1>10, <1>12, <1>13, <1>15, <1>17, <1>18 DEF Base, Turn, Commands

---------------------------------------------------------------------------
\* The invariant holds in every world a behaviour starts in.
LEMMA ReplicaInitInv == ReplicaInit => ReplicaInv
<1> SUFFICES ASSUME ReplicaInit PROVE ReplicaInv
  OBVIOUS
<1>1. PICK w \in Worlds : catalog = w.catalog /\ holds = w.holds /\ mirror = w.rows /\ load = w.load
  BY DEF ReplicaInit
<1>2. /\ catalog \in OneFactOff \cup {Declared} /\ holds \subseteq Events /\ load \subseteq Events
      /\ mirror \subseteq Foreign /\ mirror \cap Events = {}
  BY <1>1, ReplicaAssumption
<1>3. FilesTyped
  BY DEF ReplicaInit, FilesTyped
<1>4. ServerTyped
  <2>1. tomb \in [Digests -> [at : Nat, by : Procs \cup {"nobody"}]]
    BY DEF ReplicaInit
  <2>2. anchors \in SUBSET [seq : Nat, auditSeq : Nat, at : Nat] /\ IsFiniteSet(anchors) /\ clock \in Nat
    BY FS_EmptySet DEF ReplicaInit
  <2> QED
    BY <1>2, <2>1, <2>2 DEF ServerTyped
<1>5. RestTyped
  BY <1>2 DEF ReplicaInit, RestTyped, Commands
<1>6. Ordered
  BY <1>2 DEF ReplicaInit, Ordered, Closed
<1>7. Guarded
  BY <1>2 DEF ReplicaInit, Guarded, Drifted
<1>8. CommandsSound
  BY IdleIsSound DEF ReplicaInit, CommandsSound, Sound
<1>9. Attested /\ Timely
  BY DEF ReplicaInit, Attested, Timely
<1> QED
  BY <1>3, <1>4, <1>5, <1>6, <1>7, <1>8, <1>9 DEF ReplicaInv, TypeOK

\* Every action, and what it does to the command of its process.
LEMMA ReplicaNextKept ==
  ASSUME Base, RestTyped, CommandsSound, ReplicaNext
  PROVE  Grows /\ Base' /\ (cmd' = cmd \/ \E p \in Procs : Turn(p))
<1>1. CASE Tick
  BY <1>1, TickKept
<1>2. ASSUME NEW e \in Events, AppendSnapshots(e) \/ AppendChain(e) PROVE Grows /\ Base' /\ cmd' = cmd
  BY <1>2, AppendSnapshotsKept, AppendChainKept
<1>3. ASSUME NEW p \in Procs, Migrate(p) PROVE Grows /\ Base' /\ cmd' = cmd
  BY <1>3, MigrateKept DEF Migrate
<1>4. ASSUME NEW p \in Procs, SyncStep(p) PROVE Grows /\ Base' /\ Turn(p)
  BY <1>4, SyncSkipKept, PersistKept, EndKept, MarkReplicatedKept, SyncAuditKept, PersistAuditKept DEF SyncStep
<1>5. ASSUME NEW p \in Procs, PurgeStep(p) PROVE Grows /\ Base' /\ Turn(p)
  BY <1>5, RecordPurgeKept, EndKept, PurgeAuditKept, MarkPurgedKept DEF PurgeStep
<1>6. ASSUME NEW p \in Procs,
             \/ \E mode \in Modes : SyncStart(p, mode)
             \/ \E mode \in Modes, g \in BOOLEAN : AnchorStart(p, mode, g)
             \/ \E now \in {clock, clock + 1} : PurgeStart(p, now)
             \/ \E mode \in Modes, e \in Events : EvidenceStart(p, mode, e)
      PROVE  Grows /\ Base' /\ Turn(p)
  BY <1>6, SyncStartKept, AnchorStartKept, PurgeStartKept, EvidenceStartKept
<1>7. ASSUME NEW p \in Procs, WriteAnchor(p) \/ EvidenceEnd(p) \/ CutOff(p) PROVE Grows /\ Base' /\ Turn(p)
  BY <1>7, WriteAnchorKept, EvidenceEndKept, EndKept
<1> QED
  BY <1>1, <1>2, <1>3, <1>4, <1>5, <1>6, <1>7 DEF ReplicaNext

\* The invariant is inductive.
LEMMA ReplicaStep ==
  ASSUME ReplicaInv, [ReplicaNext]_replicaVars
  PROVE  ReplicaInv'
<1>1. CASE ReplicaNext
  <2>1. Grows /\ Base' /\ (cmd' = cmd \/ \E p \in Procs : Turn(p))
    BY <1>1, ReplicaNextKept DEF ReplicaInv, TypeOK, Base
  <2>2. RestTyped' /\ CommandsSound'
    BY <2>1, CommandsStay DEF ReplicaInv, TypeOK
  <2> QED
    BY <2>1, <2>2 DEF ReplicaInv, TypeOK, Base
<1>2. CASE UNCHANGED replicaVars
  <2>1. Grows /\ Base' /\ cmd' = cmd
    BY <1>2, Still DEF replicaVars, files, server, ReplicaInv, TypeOK, Base, FilesTyped
  <2>2. RestTyped' /\ CommandsSound'
    BY <2>1, CommandsStay DEF ReplicaInv, TypeOK
  <2> QED
    BY <2>1, <2>2 DEF ReplicaInv, TypeOK, Base
<1> QED
  BY <1>1, <1>2

\* The inductive invariant holds of every behaviour of the mirror and its commands.
THEOREM ReplicaSound == ReplicaSpec => []ReplicaInv
<1> QED
  BY ReplicaInitInv, ReplicaStep, PTL DEF ReplicaSpec

(***************************************************************************)
(* A marker stands for a row, and a database that drifted in any one fact  *)
(* receives nothing of this ledger.                                        *)
(***************************************************************************)
THEOREM MirrorSound == ReplicaSpec => []MirrorHolds
<1>1. ReplicaInv => MirrorHolds
  <2> SUFFICES ASSUME ReplicaInv PROVE MirrorHolds
    OBVIOUS
  <2>1. MarkedIsMirrored
    BY DEF ReplicaInv, Ordered, CommandsSound, SyncSound, MarkedIsMirrored
  <2>2. DriftStopsTheMirror
    BY DriftNoticed DEF ReplicaInv, Guarded, DriftStopsTheMirror
  <2> QED
    BY <2>1, <2>2 DEF MirrorHolds
<1> QED
  BY <1>1, ReplicaSound, PTL

---------------------------------------------------------------------------
(* Retention.                                                              *)

\* Of two sets that hold every event before their own, one holds the other.
LEMMA Comparable ==
  ASSUME FilesTyped, NEW A, NEW B, Closed(A), Closed(B)
  PROVE  A \subseteq B \/ B \subseteq A
<1> SUFFICES ASSUME NEW a \in A \ B, NEW b \in B \ A PROVE FALSE
  OBVIOUS
<1>1. PICK i \in DOMAIN chain : chain[i] = a
  BY DEF Closed, ListEvents, Range
<1>2. PICK j \in DOMAIN chain : chain[j] = b
  BY DEF Closed, ListEvents, Range
<1>3. i \in Nat /\ j \in Nat
  BY <1>1, <1>2 DEF FilesTyped
<1> QED
  BY <1>1, <1>2, <1>3 DEF Closed

\* The server's count accounts for the promises of the listed events.
LEMMA Accounted ==
  ASSUME FilesTyped, ServerTyped, Ordered, NEW list \in SUBSET Events, Closed(list), NEW s,
         Obligation(mirror, s) = Obligation(list, s)
  PROVE  /\ RefsOf(mirror \cap Events, s) \subseteq RefsOf(list, s)
         /\ mirror \cap Foreign = {} => RefsOf(list, s) \subseteq mirror
<1> DEFINE M == mirror \cap Events
<1>1. Cardinality(RefsOf(mirror, s)) = Cardinality(RefsOf(list, s))
  BY DEF Obligation
<1>2. M \subseteq list \/ list \subseteq M
  BY Comparable DEF Ordered
<1>3. IsFiniteSet(RefsOf(mirror, s)) /\ IsFiniteSet(RefsOf(list, s))
  BY RefsFinite DEF ServerTyped
<1>4. CASE M \subseteq list
  <2>1. RefsOf(M, s) \subseteq RefsOf(list, s)
    BY <1>4 DEF RefsOf
  <2>2. ASSUME mirror \cap Foreign = {} PROVE RefsOf(list, s) \subseteq mirror
    <3>1. mirror = M
      BY <2>2 DEF ServerTyped
    <3>2. RefsOf(mirror, s) = RefsOf(list, s)
      BY <1>1, <1>3, <2>1, <3>1, FS_Subset
    <3> QED
      BY <3>2 DEF RefsOf
  <2> QED
    BY <2>1, <2>2
<1>5. CASE list \subseteq M
  <2>1. RefsOf(list, s) \subseteq RefsOf(mirror, s)
    BY <1>5 DEF RefsOf
  <2>2. RefsOf(list, s) = RefsOf(mirror, s)
    BY <1>1, <1>3, <2>1, FS_Subset
  <2> QED
    BY <2>2 DEF RefsOf
<1> QED
  BY <1>2, <1>4, <1>5

PromiseKept(s) ==
    /\ snap[s] # "purged" /\ snap'[s] = "purged" => tomb[s].at # 0
    /\ tomb[s].at = 0 /\ tomb'[s].at # 0 =>
          \E p \in Procs : /\ cmd[p].op = "purge" /\ s \in cmd[p].shas
                           /\ mirror \cap Foreign = {} => RefsOf(cmd[p].list, s) \subseteq mirror
                           /\ \A e \in RefsOf(cmd[p].list \cup mirror, s) :
                                 Expires[e] < tomb'[s].at /\ e \notin holds

\* What the server asks before it records a purge is enough, whatever the command listed.
LEMMA RecordKeepsPromises ==
  ASSUME ReplicaInv, NEW p \in Procs, RecordPurge(p), NEW s \in Digests, tomb[s].at = 0, tomb'[s].at # 0
  PROVE  /\ cmd[p].op = "purge" /\ s \in cmd[p].shas
         /\ mirror \cap Foreign = {} => RefsOf(cmd[p].list, s) \subseteq mirror
         /\ \A e \in RefsOf(cmd[p].list \cup mirror, s) : Expires[e] < tomb'[s].at /\ e \notin holds
<1>1. PICK d : d = cmd[p]
  OBVIOUS
<1>2. d \in RecordCmds /\ d.list \in SUBSET Events /\ PurgeSound(d, p) /\ d.op = "purge"
  BY <1>1, Shapes DEF RecordPurge, ReplicaInv, TypeOK, RestTyped, CommandsSound, RecordCmds
<1>3. s \in Purgeable(d.shas) /\ tomb'[s].at = clock + 1
  BY <1>1 DEF RecordPurge
<1>4. /\ s \in d.shas /\ RefsOf(mirror, s) # {} /\ \A e \in RefsOf(mirror, s) : Expires[e] < clock
  BY <1>3 DEF Purgeable
<1>5. Obligation(mirror, s) = Obligation(d.list, s)
  BY <1>1, <1>4 DEF RecordPurge, Corroborated
<1>6. Closed(d.list) /\ RefsOf(d.list, s) # {} /\ RefsOf(d.list, s) \cap holds = {}
  BY <1>2, <1>4 DEF PurgeSound
<1>7. /\ RefsOf(mirror \cap Events, s) \subseteq RefsOf(d.list, s)
      /\ mirror \cap Foreign = {} => RefsOf(d.list, s) \subseteq mirror
  BY <1>2, <1>5, <1>6, Accounted DEF ReplicaInv, TypeOK
<1>8. clock \in Nat /\ mirror \in SUBSET (Events \cup Foreign) /\ holds \in SUBSET Events
  BY DEF ReplicaInv, TypeOK, ServerTyped, RestTyped
<1>9. ASSUME NEW e \in RefsOf(mirror, s) PROVE Expires[e] < clock + 1 /\ e \notin holds
  <2>1. Expires[e] \in Nat /\ Expires[e] < clock /\ e \in mirror
    BY <1>4, <1>8, RefsFinite
  <2>2. e \in Events => e \in RefsOf(d.list, s)
    BY <1>7, <2>1 DEF RefsOf
  <2> QED
    BY <1>6, <1>8, <2>1, <2>2
<1>10. ASSUME NEW e \in RefsOf(d.list, s) PROVE Expires[e] < clock + 1 /\ e \notin holds
  <2>1. MaxExpires(RefsOf(mirror, s)) = MaxExpires(RefsOf(d.list, s))
    BY <1>5 DEF Obligation
  <2>2. PICK m \in RefsOf(mirror, s) : MaxExpires(RefsOf(mirror, s)) = Expires[m]
    BY <1>4, <1>8, Latest
  <2>3. Expires[e] \in Nat /\ Expires[e] <= MaxExpires(RefsOf(d.list, s))
    BY <1>2, <1>6, Latest, RefsFinite
  <2>4. Expires[m] < clock /\ Expires[m] \in Nat
    BY <1>4, <1>8, RefsFinite
  <2> QED
    BY <1>6, <1>8, <2>1, <2>2, <2>3, <2>4
<1>11. \A e \in RefsOf(d.list \cup mirror, s) : e \in RefsOf(d.list, s) \/ e \in RefsOf(mirror, s)
  BY DEF RefsOf
<1> QED
  BY <1>1, <1>2, <1>3, <1>4, <1>7, <1>9, <1>10, <1>11

\* Only MarkPurged destroys, and only RecordPurge records.
LEMMA StepKeepsPromises ==
  ASSUME ReplicaInv, [ReplicaNext]_replicaVars, NEW s \in Digests
  PROVE  PromiseKept(s)
<1>1. ASSUME snap[s] # "purged", snap'[s] = "purged" PROVE tomb[s].at # 0
  <2>1. snap \in [Digests -> {"none", "whole", "purged"}]
    BY DEF ReplicaInv, TypeOK, FilesTyped
  <2>2. ASSUME NEW e \in Events, AppendSnapshots(e) PROVE FALSE
    BY <1>1, <2>1, <2>2 DEF AppendSnapshots
  <2>3. ASSUME NEW p \in Procs, NEW t \in Digests, MarkPurged(p, t) PROVE tomb[s].at # 0
    <3>1. t = s
      BY <1>1, <2>1, <2>3 DEF MarkPurged
    <3> QED
      BY <2>3, <3>1, MarkPurgedKept DEF ReplicaInv, TypeOK, Base
  <2>4. snap' # snap
    BY <1>1
  <2>5. (\E e \in Events : AppendSnapshots(e)) \/ \E p \in Procs, t \in Digests : MarkPurged(p, t)
    BY <2>4 DEF ReplicaNext, replicaVars, files, server, AppendChain, Migrate, SyncStart, SyncStep, SyncSkip, Persist,
         PersistRefused, MarkReplicated, SyncAudit, PersistAudit, SyncEnd, PurgeStep, RecordPurge, RecordPurgeRefused,
         PurgeAudit, AnchorStart, WriteAnchor, PurgeStart, EvidenceStart, EvidenceEnd, CutOff, Tick
  <2> QED
    BY <2>2, <2>3, <2>5
<1>2. ASSUME tomb[s].at = 0, tomb'[s].at # 0 PROVE \E p \in Procs : RecordPurge(p)
  <2>1. tomb' # tomb
    BY <1>2
  <2> QED
    BY <2>1 DEF ReplicaNext, replicaVars, files, server, AppendSnapshots, AppendChain, Migrate, SyncStart, SyncStep,
         SyncSkip, Persist, PersistRefused, MarkReplicated, SyncAudit, PersistAudit, SyncEnd, PurgeStep, MarkPurged,
         RecordPurgeRefused, PurgeAudit, AnchorStart, WriteAnchor, PurgeStart, EvidenceStart, EvidenceEnd, CutOff, Tick
<1>3. ASSUME tomb[s].at = 0, tomb'[s].at # 0
      PROVE  \E p \in Procs : /\ cmd[p].op = "purge" /\ s \in cmd[p].shas
                              /\ mirror \cap Foreign = {} => RefsOf(cmd[p].list, s) \subseteq mirror
                              /\ \A e \in RefsOf(cmd[p].list \cup mirror, s) :
                                    Expires[e] < tomb'[s].at /\ e \notin holds
  BY <1>2, <1>3, RecordKeepsPromises
<1> QED
  BY <1>1, <1>3 DEF PromiseKept

(***************************************************************************)
(* The bytes of a decision are destroyed only after the server recorded    *)
(* it, and the server records it only when every event that was listed or  *)
(* is mirrored, and needs them, has expired and is not held.               *)
(***************************************************************************)
THEOREM Promises == ReplicaSpec => PromisesKept
<1>1. ReplicaInv /\ [ReplicaNext]_replicaVars => [\A s \in Digests : PromiseKept(s)]_replicaVars
  BY StepKeepsPromises
<1>2. ReplicaSpec => [][\A s \in Digests : PromiseKept(s)]_replicaVars
  BY <1>1, ReplicaSound, PTL DEF ReplicaSpec
<1> QED
  BY <1>2 DEF PromisesKept, PromiseKept

---------------------------------------------------------------------------
(* A purge that was recorded and audited.                                  *)

\* Of some anchors one has the latest head.
LEMMA LatestOf ==
  ASSUME ServerTyped, NEW S \in SUBSET anchors, S # {}
  PROVE  \E a \in S : \A b \in S : b.seq <= a.seq
<1> DEFINE T == {a.seq : a \in S}
<1>1. T \in SUBSET Nat /\ T # {}
  BY DEF ServerTyped
<1>2. IsFiniteSet(T)
  <2> DEFINE f == [a \in S |-> a.seq]
  <2>1. f \in Surjection(S, T)
    BY DEF Surjection
  <2>2. IsFiniteSet(S)
    BY FS_Subset DEF ServerTyped
  <2> QED
    BY <2>1, <2>2, FS_Surjection
<1>3. PICK x \in T : \A y \in T : x >= y
  BY <1>1, <1>2, Greatest
<1>4. PICK a \in S : a.seq = x
  OBVIOUS
<1>5. \A b \in S : b.seq \in T /\ b.seq \in Nat /\ x \in Nat
  BY <1>1, <1>3
<1>6. \A b \in S : b.seq <= a.seq
  BY <1>3, <1>4, <1>5
<1> QED
  BY <1>6

\* LatestAnchor is an anchor, and none has a later head.
LEMMA LatestAnchorIs ==
  ASSUME ServerTyped, anchors # {}
  PROVE  LatestAnchor \in anchors /\ \A b \in anchors : b.seq <= LatestAnchor.seq
BY LatestOf DEF LatestAnchor

\* The time of the anchor before the latest one is that of another anchor.
LEMMA PreviousIsAnother ==
  ASSUME ServerTyped, anchors # {}
  PROVE  PreviousAnchoredAt = 0 \/ \E a \in anchors \ {LatestAnchor} : PreviousAnchoredAt = a.at
<1>1. CASE PreviousAnchors = {}
  BY <1>1 DEF PreviousAnchoredAt
<1>2. CASE PreviousAnchors # {}
  <2> DEFINE prev == CHOOSE a \in PreviousAnchors : \A b \in PreviousAnchors : b.seq <= a.seq
  <2>1. PreviousAnchors \in SUBSET anchors
    BY DEF PreviousAnchors
  <2>2. prev \in PreviousAnchors
    BY <1>2, <2>1, LatestOf
  <2>3. PreviousAnchoredAt = prev.at
    BY <1>2 DEF PreviousAnchoredAt
  <2>4. prev \in anchors /\ prev.seq < LatestAnchor.seq
    BY <2>2 DEF PreviousAnchors
  <2>5. LatestAnchor.seq \in Nat
    BY LatestAnchorIs DEF ServerTyped
  <2> HIDE DEF prev
  <2>6. prev # LatestAnchor
    BY <2>4, <2>5
  <2> QED
    BY <2>3, <2>4, <2>6
<1> QED
  BY <1>1, <1>2

\* In the mirror there is nothing of the chain's promises that the chain does not hold.
LEMMA HonestIsVerified ==
  ASSUME ReplicaInv, NEW s \in Digests, HonestPurge(s)
  PROVE  PromisesVerdict(s) = "verified"
<1>1. PICK es : es = RefsOf(ListEvents, s)
  OBVIOUS
<1>2. ListEvents \in SUBSET Events
  BY DEF ReplicaInv, TypeOK, FilesTyped, ListEvents, Range
<1>3. RefsOf(mirror \cap Events, s) = RefsOf(ListEvents, s)
  BY <1>2 DEF HonestPurge, RefsOf, ReplicaInv, Ordered, Closed
<1>4. RefsOf(ListEvents, s) # {}
  <2>1. PICK i \in DOMAIN trail : s \in trail[i].shas
    BY DEF HonestPurge, Attesting
  <2> QED
    BY <2>1 DEF ReplicaInv, Attested
<1>5. Cardinality(RefsOf(ListEvents, s)) # 0
  BY <1>2, <1>4, RefsFinite, FS_EmptySet
<1>6. Obligation(mirror \cap Events, s) = Obligation(ListEvents, s) /\ Obligation(mirror \cap Events, s).count # 0
  BY <1>3, <1>5 DEF Obligation
<1> QED
  BY <1>6 DEF PromisesVerdict

\* An honest purge is later than its promises and than the previous anchor.
LEMMA FloorIsPassed ==
  ASSUME ReplicaInv, anchors # {}, NEW s \in Digests, HonestPurge(s),
         \A a \in anchors \ {LatestAnchor} : a.at < tomb[s].at
  PROVE  tomb[s].at > Floor(s)
<1>1. PICK x : x = Obligation(ListEvents, s).max
  OBVIOUS
<1>2. PICK y : y = PreviousAnchoredAt
  OBVIOUS
<1>3. tomb[s].at \in Nat /\ tomb[s].at > 0
  BY DEF ReplicaInv, TypeOK, ServerTyped, HonestPurge
<1>4. x \in Nat /\ x < tomb[s].at
  <2>1. ListEvents \in SUBSET (Events \cup Foreign)
    BY DEF ReplicaInv, TypeOK, FilesTyped, ListEvents, Range
  <2>2. x = MaxExpires(RefsOf(ListEvents, s))
    BY <1>1 DEF Obligation
  <2>3. CASE RefsOf(ListEvents, s) = {}
    BY <1>3, <2>2, <2>3 DEF MaxExpires
  <2>4. CASE RefsOf(ListEvents, s) # {}
    BY <2>1, <2>2, <2>4, Latest, RefsFinite DEF HonestPurge
  <2> QED
    BY <2>3, <2>4
<1>5. y \in Nat /\ y < tomb[s].at
  BY <1>2, <1>3, PreviousIsAnother DEF ReplicaInv, TypeOK, ServerTyped
<1>6. Max({x, y}) \in {x, y}
  <2>1. {x, y} \in SUBSET Nat /\ {x, y} # {}
    BY <1>4, <1>5
  <2>2. \E m \in {x, y} : \A n \in {x, y} : m >= n
    BY <1>4, <1>5
  <2> QED
    BY <2>2 DEF Max
<1>7. Floor(s) = Max({x, y})
  BY <1>1, <1>2 DEF Floor
<1> QED
  BY <1>3, <1>4, <1>5, <1>6, <1>7

(***************************************************************************)
(* A complete purge verifies under the anchor that attests to it, when no  *)
(* anchor was written between the two.                                     *)
(***************************************************************************)
THEOREM FreshPurges == ReplicaSpec => []FreshPurgeStands
<1>1. ReplicaInv => FreshPurgeStands
  <2> SUFFICES ASSUME ReplicaInv, anchors # {}, NEW s \in Digests,
                      HonestPurge(s), AttestingAnchors(s) = {LatestAnchor},
                      \A a \in anchors \ {LatestAnchor} : a.at < tomb[s].at
               PROVE  AdjudicatePurge(s) = "verified"
    BY DEF FreshPurgeStands
  <2>1. Attesting(s) # {} /\ tomb[s].at # 0 /\ Attesting(s) \in SUBSET Nat
    BY DEF HonestPurge, Attesting, ReplicaInv, TypeOK, FilesTyped
  <2>2. PICK i : i = Min(Attesting(s))
    OBVIOUS
  <2>3. i \in Attesting(s) /\ i \in DOMAIN trail /\ s \in trail[i].shas /\ i \in Nat
    <3>1. i \in Attesting(s)
      BY <2>1, <2>2, MinIsLeast
    <3> QED
      BY <2>1, <3>1 DEF Attesting
  <2>4. LatestAnchor \in anchors /\ LatestAnchor.auditSeq >= i
    BY <2>2 DEF AttestingAnchors
  <2>5. LatestAnchor.auditSeq \in Nat
    BY <2>4 DEF ReplicaInv, TypeOK, ServerTyped
  <2>6. i <= LatestAnchor.auditSeq /\ ~(i > LatestAnchor.auditSeq)
    BY <2>3, <2>4, <2>5
  <2>7. tomb[s].by = trail[i].by /\ tomb[s].at <= LatestAnchor.at
    BY <2>3, <2>4, <2>6 DEF ReplicaInv, Attested, Timely
  <2>8. AttributionOK(s, i, Floor(s))
    BY <2>7, FloorIsPassed DEF AttributionOK
  <2>9. PromisesVerdict(s) = "verified"
    BY HonestIsVerified
  <2> QED
    BY <2>1, <2>2, <2>6, <2>8, <2>9 DEF AdjudicatePurge
<1> QED
  BY <1>1, ReplicaSound, PTL
=============================================================================
