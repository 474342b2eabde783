-------------------------- MODULE RefreshAnalysis --------------------------
(***************************************************************************)
(* providerrefresh.Analyze: what a provider's new inventory would change,  *)
(* whom it would touch, and whether the policy lets it be promoted.  An    *)
(* inventory is [provider, parts], where parts maps a component reference  *)
(* to [content, count]; renames maps old references to new ones.           *)
(***************************************************************************)
EXTENDS Integers, FiniteSets, Functions

\* deltaPercent, in ten-thousandths of a percent, rounded half up
deltaPercent(old, next) ==
    LET change == IF next > old THEN next - old ELSE old - next IN
    IF old = 0 THEN (IF next = 0 THEN 0 ELSE 1000000)
    ELSE (2 * change * 1000000 + old) \div (2 * old)

\* ValidateInventory: references are well-formed, which the sets of the model give; counts are not negative
ValidateInventory(inventory) == \A r \in DOMAIN inventory.parts : inventory.parts[r].count >= 0

\* ValidatePolicy
ValidatePolicy(policy) ==
    /\ policy.maxAdded >= 0 /\ policy.maxRemoved >= 0 /\ policy.maxRenamed >= 0
    /\ policy.maxDelta >= 0

\* the directives name a reference that was there and one that is there, each once
RenamesOK(renames, previous, candidate) ==
    \A r \in DOMAIN renames :
        /\ r # renames[r]
        /\ r \in DOMAIN previous.parts /\ renames[r] \in DOMAIN candidate.parts
        /\ \A s \in DOMAIN renames : renames[s] = renames[r] => s = r

\* the classification of the components
Changes(previous, candidate, renames) ==
    LET was == DOMAIN previous.parts
        is == DOMAIN candidate.parts
        renamed == {r \in was \ is : r \in DOMAIN renames}
        consumed == (was \cap is) \cup {renames[r] : r \in renamed}
    IN  [unchanged |-> was \cap is, renamed |-> renamed,
         removed |-> (was \ is) \ renamed, added |-> is \ consumed]

\* activeMappingCount: mappings whose latest effective version binds the component and has not ended
activeMappingCount(mappings, component, at) ==
    LET effective == {v \in mappings : v.from <= at}
        latest == {v \in effective : \A w \in effective : w.key = v.key => w.from <= v.from}
    IN  Cardinality({v \in latest : v.action = "bind" /\ v.component = component /\ at < v.to})

\* the impact on one active component, whose active version is v
Impact(v, mapped, candidate, renames) ==
    LET parts == candidate.parts
        exists == v.ref \in DOMAIN parts
        ref == IF ~exists /\ v.ref \in DOMAIN renames THEN renames[v.ref] ELSE v.ref
    IN  [status |-> IF exists THEN "available" ELSE IF v.ref \in DOMAIN renames THEN "renamed" ELSE "missing",
         mapped |-> mapped,
         delta |-> IF ref \in DOMAIN parts THEN deltaPercent(v.count, parts[ref].count) ELSE 0]

\* active: the active versions of the catalog's provider components, by component
Impacts(previous, candidate, renames, active, mappings, at) ==
    {Impact(active[c], activeMappingCount(mappings, c, at), candidate, renames) :
        c \in {d \in DOMAIN active : active[d].provider = previous.provider}}

\* the reference that the target component is to take
TargetRef(v, renames) == IF v.ref \in DOMAIN renames THEN renames[v.ref] ELSE v.ref

Violations(policy, previous, candidate, renames, impacts, target) ==
    LET changes == Changes(previous, candidate, renames) IN
    {v \in {"provider", "added", "removed", "renamed", "mapped", "delta", "target"} :
        \/ v = "provider" /\ policy.sameProvider /\ previous.provider # candidate.provider
        \/ v = "added" /\ Cardinality(changes.added) > policy.maxAdded
        \/ v = "removed" /\ Cardinality(changes.removed) > policy.maxRemoved
        \/ v = "renamed" /\ Cardinality(changes.renamed) > policy.maxRenamed
        \/ v = "mapped" /\ policy.needMapped /\ \E i \in impacts : i.status = "missing" /\ i.mapped > 0
        \/ v = "delta" /\ \E i \in impacts : i.delta > policy.maxDelta
        \/ v = "target" /\ policy.needTarget /\ TargetRef(target, renames) \notin DOMAIN candidate.parts}

\* the candidate that Analyze records for the component c; Refused where it returns an error.  Its id is a digest of all
\* of it, the time of the analysis included
Refused == [refused |-> TRUE]
Analyze(policy, previous, candidate, renames, c, active, mappings, at) ==
    IF ~ /\ ValidatePolicy(policy) /\ ValidateInventory(previous) /\ ValidateInventory(candidate)
         /\ c \in DOMAIN active /\ RenamesOK(renames, previous, candidate)
      THEN Refused
      ELSE LET target == active[c]
               ref == TargetRef(target, renames)
               changes == Changes(previous, candidate, renames)
               impacts == Impacts(previous, candidate, renames, active, mappings, at)
               violations == Violations(policy, previous, candidate, renames, impacts, target)
           IN  [refused |-> FALSE, component |-> c, expected |-> target.id, ref |-> ref, provider |-> candidate.provider,
                status |-> IF violations = {} THEN "ready" ELSE "blocked", violations |-> violations,
                policy |-> policy, inventories |-> <<previous, candidate>>, changes |-> changes, impacts |-> impacts, at |-> at,
                part |-> IF ref \in DOMAIN candidate.parts THEN candidate.parts[ref] ELSE [content |-> "none", count |-> 0]]
=============================================================================
