---------------------------- MODULE Provisioning ----------------------------
(***************************************************************************)
(* What PostgresSink asks of the mirror's database before it trusts it:    *)
(* the schema that Migrate insists on, and the provisioning state (event   *)
(* triggers, owners, definer functions, privilege holders, the registry of *)
(* protected objects) that anchored verification insists on.  The catalog  *)
(* is a record of the facts the checks tell apart; for the facts of a      *)
(* trigger, an index or a registry row it is the set of those that differ  *)
(* from the declaration.                                                   *)
(***************************************************************************)
EXTENDS FiniteSetsExt

Relations == {"anchor", "tombstone", "event", "snapshot"}
EventTriggers == {"on_drop", "on_alter"}
Functions == {"purge_sweep", "purge_array"}
TableKinds == {"DELETE", "INSERT", "REFERENCES", "SELECT", "TRIGGER", "TRUNCATE", "UPDATE"}
Roles == {"owl_ledger_ddl", "owl_migrator", "owl_ledger_anchor", "other"}

RelationOwner == [r \in Relations |-> IF r \in {"anchor", "tombstone"} THEN "owl_ledger_ddl" ELSE "owl_migrator"]

\* requiredProtectedObjects: the relations, their triggers, the guard functions and the registries
RequiredObjects == (Relations \X {"table", "immutable", "no_truncate"}) \cup (Functions \X {"function"})
                      \cup ({"reject_mutation", "reject_truncate", "snapshot_guard"} \X {"function"})
                      \cup ({"protected_object", "protected_relation", "instance_binding"} \X {"table"})
RequiredRelations == Relations

RecordedFacts == {"relowner", "relkind", "rls", "trigger_oids", "index_defs", "index_valid", "index_present",
                  "policy_oids", "identity"}
TriggerFacts == {"present", "function", "tgtype", "tgqual", "tgnargs", "tgattr", "body"}
IndexFacts == {"unique", "primary", "indkey", "indnkeyatts", "indpred", "indexprs"}

\* requiredTablePrivilegeHolders: an owner holds everything, the others what is listed
RequiredHolders(r, k) ==
    {RelationOwner[r]}
        \cup {w \in {"owl_ledger_anchor"} : r = "anchor" /\ k = "INSERT"}
        \cup {w \in {"owl_migrator"} : k = "SELECT"}
        \cup {w \in {"owl_ledger_ddl"} : \/ r \in {"event", "snapshot"} /\ k = "SELECT"
                                         \/ r = "snapshot" /\ k = "UPDATE"}
RequiredExecute == {"owl_ledger_ddl", "owl_migrator"}

\* the catalog that the migrations and grant-ddl-ownership leave behind
Declared ==
    [evt       |-> [t \in EventTriggers |-> "always"],
     owner     |-> RelationOwner,
     fn        |-> [f \in Functions |-> [definer |-> TRUE, owner |-> "owl_ledger_ddl", body |-> TRUE]],
     holders   |-> [o \in Relations \X TableKinds |-> RequiredHolders(o[1], o[2])],
     grantees  |-> [o \in Relations \X TableKinds |-> RequiredHolders(o[1], o[2])],
     maintain  |-> [r \in Relations |-> {}],
     execute   |-> [f \in Functions |-> RequiredExecute],
     objects   |-> RequiredObjects,
     relations |-> RequiredRelations,
     recorded  |-> [r \in Relations |-> {}],
     triggers  |-> [r \in Relations |-> {}],
     enabled   |-> [r \in Relations |-> TRUE],
     indexes   |-> [r \in Relations |-> {}],
     columns   |-> TRUE,
     create    |-> {}]

(***************************************************************************)
(* Migrate: SchemaSQL creates the guard triggers that are absent on the    *)
(* tables its role owns (under new OIDs: what the registry recorded stays  *)
(* different), unless a guard function has another body: then the script   *)
(* fails as a whole.  The postcondition is checked afterwards.             *)
(***************************************************************************)
guardBodiesOK(c) == \A r \in Relations : "body" \notin c.triggers[r]
SchemaSQL(c) ==
    IF guardBodiesOK(c)
      THEN [c EXCEPT !.triggers = [r \in Relations |-> IF RelationOwner[r] = "owl_migrator"
                                                         THEN c.triggers[r] \ {"present"}
                                                         ELSE c.triggers[r]]]
      ELSE c

triggerEnabled(c, r) == "present" \notin c.triggers[r] /\ c.enabled[r]
checkRequiredSchemaObjects(c) == c.columns /\ \A r \in Relations : triggerEnabled(c, r)
checkPurgeSnapshotsDefiner(c) == \A f \in Functions : c.fn[f].definer
MigrateOK(c) == guardBodiesOK(c) /\ checkRequiredSchemaObjects(SchemaSQL(c)) /\ checkPurgeSnapshotsDefiner(SchemaSQL(c))

---------------------------------------------------------------------------
(***************************************************************************)
(* checkProvisioningState: the checks in their order; the reason is that   *)
(* of the first one that does not hold.                                    *)
(***************************************************************************)
eventTriggersOK(c) == \A t \in EventTriggers : c.evt[t] = "always"
ownersOK(c) == \A r \in Relations : c.owner[r] = RelationOwner[r]
definersOK(c) == \A f \in Functions : c.fn[f] = [definer |-> TRUE, owner |-> "owl_ledger_ddl", body |-> TRUE]
tablePrivilegeHoldersOK(c) ==
    \A r \in Relations, k \in TableKinds : /\ c.holders[<<r, k>>] = RequiredHolders(r, k)
                                           /\ c.grantees[<<r, k>>] = RequiredHolders(r, k)
maintainHoldersOK(c) == \A r \in Relations : c.maintain[r] = {}
functionExecuteHoldersOK(c) == \A f \in Functions : c.execute[f] = RequiredExecute
protectedObjectIdentityOK(c) == /\ Cardinality(c.objects) = Cardinality(RequiredObjects)
                                /\ RequiredObjects \subseteq c.objects
protectedRelationIdentityOK(c) == /\ Cardinality(c.relations) = Cardinality(RequiredRelations)
                                  /\ RequiredRelations \subseteq c.relations
recordedStateOK(c) == \A r \in Relations : c.recorded[r] = {}
triggerBehaviourOK(c) == \A r \in Relations : c.triggers[r] = {}
indexShapeOK(c) == \A r \in Relations : c.indexes[r] = {}
createPrivilegesOK(c) == c.create = {}

protectedRelationStateOK(c) == recordedStateOK(c) /\ triggerBehaviourOK(c) /\ indexShapeOK(c)

CheckProvisioningState(c) ==
    LET checks == << <<"event_trigger", eventTriggersOK(c)>>, <<"owner", ownersOK(c)>>,
                     <<"definer", definersOK(c)>>, <<"table_privilege", tablePrivilegeHoldersOK(c)>>,
                     <<"maintain", maintainHoldersOK(c)>>, <<"execute", functionExecuteHoldersOK(c)>>,
                     <<"protected_object", protectedObjectIdentityOK(c)>>,
                     <<"protected_relation", protectedRelationIdentityOK(c)>>,
                     <<"relation_state", protectedRelationStateOK(c)>>, <<"create", createPrivilegesOK(c)>> >>
        failing == {i \in DOMAIN checks : ~checks[i][2]}
    IN  IF failing = {} THEN "provisioned" ELSE checks[Min(failing)][1]

---------------------------------------------------------------------------
(***************************************************************************)
(* The catalogs that differ from the declaration in one fact of one        *)
(* relation or function: who owns and may do what, what the registry holds *)
(* and records, and the shape of triggers and indexes.                     *)
(***************************************************************************)
OwnershipOff ==
    {[Declared EXCEPT !.evt[t] = v] : t \in EventTriggers, v \in {"absent", "origin"}}
  \cup {[Declared EXCEPT !.owner[r] = "other"] : r \in Relations}
  \cup {[Declared EXCEPT !.fn[f].definer = FALSE] : f \in Functions}
  \cup {[Declared EXCEPT !.fn[f].owner = "owl_migrator"] : f \in Functions}
  \cup {[Declared EXCEPT !.fn[f].body = FALSE] : f \in Functions}
PrivilegeOff ==
    {[Declared EXCEPT !.holders[o] = @ \cup {"other"}] : o \in Relations \X TableKinds}
  \cup {[Declared EXCEPT !.grantees[o] = {}] : o \in Relations \X TableKinds}
  \cup {[Declared EXCEPT !.maintain[r] = {"owl_ledger_ddl"}] : r \in Relations}
  \cup {[Declared EXCEPT !.execute[f] = @ \cup {"other"}] : f \in Functions}
  \cup {[Declared EXCEPT !.create = {w}] : w \in {"ddl_schema", "ddl_database", "migrator_database"}}
RegistryOff ==
    {[Declared EXCEPT !.objects = @ \ {o}] : o \in RequiredObjects}
  \cup {[Declared EXCEPT !.relations = (@ \ {r}) \cup {"elsewhere"}] : r \in Relations}
  \cup {[Declared EXCEPT !.recorded[r] = {f}] : r \in Relations, f \in RecordedFacts}
ShapeOff ==
    {[Declared EXCEPT !.triggers[r] = {f}] : r \in Relations, f \in TriggerFacts \ {"present"}}
  \cup {[Declared EXCEPT !.indexes[r] = {f}] : r \in Relations, f \in IndexFacts}
\* a guard trigger that is absent is not the one the registry recorded either
TriggersOff ==
    {[Declared EXCEPT !.triggers[r] = {"present"}, !.recorded[r] = {"trigger_oids"}] : r \in Relations}
OneFactOff == OwnershipOff \cup PrivilegeOff \cup RegistryOff \cup ShapeOff \cup TriggersOff

\* no such catalog passes, before a migration or after it
DriftIsNoticed == \A c \in OneFactOff : /\ CheckProvisioningState(c) # "provisioned"
                                        /\ CheckProvisioningState(SchemaSQL(c)) # "provisioned"
=============================================================================
