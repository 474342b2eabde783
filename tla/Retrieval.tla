------------------------------ MODULE Retrieval ------------------------------
(***************************************************************************)
(* rag and analystnote: the passages of the corpus a decision is explained *)
(* with, and which note of a language model is accepted.                   *)
(*                                                                         *)
(* A document is [tier, approval, tenant, scopes, from, to, chunks], with  *)
(* tenant "" for everyone and from/to zero for no limit.  A chunk is [id,  *)
(* instruction, mentions, tokens]: the codes its text or headings mention, *)
(* and its tokens.  A token stands for a word of a code.                   *)
(***************************************************************************)
EXTENDS PolicyEngine

CONSTANTS Bucket,     \* the bucket of the hashed vector that a token falls into
          RetrievalPolicy  \* [tiers, approvals, max, min, metadata, lexical, vector, exclude]

Tiers == {"tier_a", "tier_b", "tier_c", "tier_d"}

ValidateManifest(corpus) == corpus # {} /\ \A d \in corpus : d.tier \in Tiers /\ d.scopes # {}

\* BuildSnapshot: every document gives at least one chunk, and a chunk has tokens
ValidateSnapshot(corpus) ==
    corpus # {} /\ \A d \in corpus : d.chunks # {} /\ \A k \in d.chunks : k.tokens # {}

ValidateRetrievalPolicy(p) ==
    /\ p.tiers # {} /\ p.approvals # {}
    /\ p.max \in 1 .. 50 /\ p.min \in BasisPoints
    /\ p.metadata + p.lexical + p.vector = 10000

NewRetriever(corpus) == ValidateManifest(corpus) /\ ValidateSnapshot(corpus) /\ ValidateRetrievalPolicy(RetrievalPolicy)

\* QueryFromDecision: a decision always asks within transaction screening
QueryFromDecision(d, tenant, at) ==
    [decision |-> d, tenant |-> tenant, scope |-> "transaction_screening", at |-> at,
     codes |-> d.reasons \cup d.blockers \cup d.required]

ValidateQuery(q) == q.tenant # "" /\ q.decision.reasons # {}

\* mutant: a document is in force before its first day
documentAllowed_Early(d, q) ==
    /\ d.tier \in RetrievalPolicy.tiers /\ d.approval \in RetrievalPolicy.approvals
    /\ d.tenant \in {"", q.tenant}
    /\ q.scope \in d.scopes
    /\ d.to # 0 => q.at <= d.to

\* a day's document is in force until the end of its last day
documentAllowed(d, q) ==
    /\ d.tier \in RetrievalPolicy.tiers /\ d.approval \in RetrievalPolicy.approvals
    /\ d.tenant \in {"", q.tenant}
    /\ q.scope \in d.scopes
    /\ d.from # 0 => d.from <= q.at
    /\ d.to # 0 => q.at <= d.to

overlapBasisPoints(query, document) ==
    IF query = {} \/ document = {} THEN 0 ELSE (Cardinality(query \cap document) * 10000) \div Cardinality(query)

\* the Dice-like similarity of the two bucket counts
hashedVectorSimilarity(a, b) ==
    LET Count(tokens, i) == Cardinality({t \in tokens : Bucket[t] = i})
        buckets == {Bucket[t] : t \in a \cup b}
        dot == MapThenSumSet(LAMBDA i : Count(a, i) * Count(b, i), buckets)
        squares == MapThenSumSet(LAMBDA i : Count(a, i) * Count(a, i) + Count(b, i) * Count(b, i), buckets)
    IN  IF a = {} \/ b = {} THEN 0 ELSE (2 * dot * 10000) \div squares

\* 1500 for each code that is mentioned; the policy's name and the role of the field count 2000 and 1500
Parts(q, chunk) ==
    [metadata |-> Capped(1500 * Cardinality(q.codes \cap chunk.mentions)
                         + (IF "policy_id" \in chunk.mentions THEN 2000 ELSE 0)
                         + (IF "semantic_role" \in chunk.mentions THEN 1500 ELSE 0)),
     lexical |-> overlapBasisPoints(q.codes, chunk.tokens),
     vector |-> hashedVectorSimilarity(q.codes, chunk.tokens)]

score(q, chunk) ==
    LET parts == Parts(q, chunk)
    IN  Weighted(parts.metadata, RetrievalPolicy.metadata) + Weighted(parts.lexical, RetrievalPolicy.lexical)
        + Weighted(parts.vector, RetrievalPolicy.vector)

Matching(corpus, q) ==
    {k \in UNION {d.chunks : d \in {e \in corpus : documentAllowed(e, q)}} :
        /\ ~(k.instruction /\ RetrievalPolicy.exclude)
        /\ score(q, k) >= RetrievalPolicy.min}

\* the MaxResults best; a citation's id settles a tie, and so does the chunk's number here
Retrieve(corpus, q) ==
    LET found == Matching(corpus, q)
        Before(k, l) == score(q, k) > score(q, l) \/ (score(q, k) = score(q, l) /\ k.id < l.id)
    IN  {k \in found : Cardinality({l \in found : Before(l, k)}) < RetrievalPolicy.max}

\* a citation whose every part is zero has no retrieval method, and spoils the package
ValidateCitationPackage(q, citations) ==
    /\ ValidateQuery(q) /\ citations # {}
    /\ \A k \in citations : \E part \in {"metadata", "lexical", "vector"} : Parts(q, k)[part] > 0

----------------------------------------------------------------------------

ValidateProfile(profile) == profile.citations \in 1 .. 20 /\ profile.prohibited # {}

(***************************************************************************)
(* A draft is [decodes, disposition, route, claims, cites, says]: claims   *)
(* is a set of sets of chunk ids, cites the note's own list, says the      *)
(* phrases of its text.                                                    *)
(***************************************************************************)
ValidateNote(draft, decision, citations, profile) ==
    LET allowed == {k.id : k \in citations}
        used == UNION draft.claims
    IN  /\ draft.disposition = decision.disposition /\ draft.route = decision.route
        /\ draft.claims # {} /\ {} \notin draft.claims
        /\ draft.cites # {} /\ used \subseteq allowed
        /\ draft.cites \subseteq used
        /\ draft.says \cap profile.prohibited = {}

\* Generate: what the model sent, once it is decoded and its lists are sorted
Generated(draft, decision, q, citations, profile) ==
    /\ ValidateDecision(decision) /\ ValidateCitationPackage(q, citations) /\ q.decision = decision
    /\ draft.decodes
    /\ ValidateNote(draft, decision, citations, profile)
=============================================================================
