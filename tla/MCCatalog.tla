----------------------------- MODULE MCCatalog -----------------------------
(***************************************************************************)
(* The registries of catalog governance, for TLC.                          *)
(***************************************************************************)
EXTENDS CatalogRegistries

CONSTANTS cA, cB, acme, r1, r2, x1, x2, x3, l1

Part(content, count) == [content |-> content, count |-> count]
MCModes == cA :> "provider" @@ cB :> "official"
MCSeed == [component |-> cA, provider |-> acme, ref |-> r1, part |-> Part(x1, 10)]
MCOffered == {BuildVersion(cA, acme, r1, Part(x3, 10), 1)}
Mapping(action, component, from) == [key |-> l1, action |-> action, component |-> component, from |-> from, to |-> 3, at |-> 1]
MCMappings == {Mapping("bind", cA, 1), Mapping("retire", Absent, 2)}
Policy == [maxAdded |-> 1, maxRemoved |-> 1, maxRenamed |-> 1, maxDelta |-> 200000,
           sameProvider |-> TRUE, needMapped |-> TRUE, needTarget |-> FALSE]
Inventory(parts) == [provider |-> acme, parts |-> parts]
\* a new version of the list; and an inventory from which the list is gone
MCAnalyses ==
    {[policy |-> Policy, previous |-> Inventory(r1 :> Part(x1, 10)), candidate |-> Inventory(parts), renames |-> <<>>, component |-> cA] :
        parts \in {r1 :> Part(x2, 11), r2 :> Part(x2, 10)}}
MCAnalyzed == {{}, {x \in MCAnalyses : r1 \in DOMAIN x.candidate.parts}}
=============================================================================
