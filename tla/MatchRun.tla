------------------------------ MODULE MatchRun ------------------------------
(***************************************************************************)
(* One run of the matching pipeline, as iso20022-inspect, matcher-project  *)
(* and matcher-run chain it: a document is parsed under a plan, executed   *)
(* under a plan that should be the same, projected to requests and run     *)
(* against a provider.  A step that fails leaves nothing behind.           *)
(***************************************************************************)
EXTENDS Matchers

CONSTANTS Inputs,       \* what a run may be given: [parsing, plan, document, provider, stamp], stamp zero for none
          Names,        \* names that are compared in pairs
          NameProfile   \* the profile they are compared under

VARIABLES stage,    \* "idle", "chosen", "parsed", "executed", "projected", "run", "failed" or "compared"
          input,    \* the member of Inputs that is run
          message, bundle, batch, results,   \* what the steps made, each empty or of one element
          pair      \* the two names compared last and their score

vars == <<stage, input, message, bundle, batch, results, pair>>

\* what every provider's descriptor lists: all the types, and all the routes
SupportedRoutes == Range(RouteOrder)
SupportedTypes == {"aircraft", "financial_institution", "government_entity", "individual", "jurisdiction", "organization", "vessel"}

----------------------------------------------------------------------------
(* The runner.                                                             *)

ValidateDescriptor(p) == p.max \in 1 .. 1000

validateRequestCompatibility(request) ==
    request.routes \cap SupportedRoutes # {} /\ request.types \cap SupportedTypes # {}

\* the score is what the evidence adds up to, and the penalty is at most 10000
validateMatchEvidence(evidence, score) ==
    \A e \in Range(evidence) :
        /\ e.threshold \in 0 .. 10000 /\ e.penalty \in 0 .. 10000
        /\ \A f \in DOMAIN e.features : e.features[f] \in 0 .. 10000
        /\ MapThenSumSet(LAMBDA f : e.weights[f], DOMAIN e.weights) = 10000
        /\ Max({0, Contributions(e.features, e.weights) - e.penalty}) = score

validateProviderCandidate(request, c) ==
    /\ c.value # <<>>
    /\ c.route \in request.routes \cap SupportedRoutes /\ c.type \in request.types \cap SupportedTypes
    /\ c.score \in 0 .. 10000
    /\ validateMatchEvidence(c.evidence, c.score)

validateDiagnostic(request, d) ==
    /\ d.score \in 0 .. 10000 /\ d.route \in request.routes
    /\ \/ d.code = "entity_type_mismatch" /\ d.type \notin request.types
       \/ /\ d.code = "narrative_denial_context" /\ d.route = "contextual_phrase_window"
          /\ d.evidence # NoEvidence /\ d.evidence[1].markers # {}
    /\ validateMatchEvidence(d.evidence, d.score)
    /\ \A e \in Range(d.evidence) : e.threshold = d.threshold

CandidateBefore(l, r) ==
    IF l.score # r.score THEN l.score > r.score
    ELSE IF l.exact # r.exact THEN l.exact
    ELSE IF l.record # r.record THEN l.record < r.record
    ELSE RouteBefore(l.route, r.route)

sortCandidates(candidates) == SetToSortSeq(candidates, CandidateBefore)

summarizeResults(rs) ==
    LET Sum(Of(_)) == MapThenSumSet(LAMBDA i : Of(rs[i]), DOMAIN rs)
    IN  [requests |-> Len(rs), matched |-> Sum(LAMBDA r : IF r.status = "matched" THEN 1 ELSE 0),
         candidates |-> Sum(LAMBDA r : Len(r.candidates)), diagnostics |-> Sum(LAMBDA r : Cardinality(r.diagnostics))]

validateResult(r) ==
    /\ (r.status = "matched") = (r.candidates # <<>>)
    /\ sortCandidates(Range(r.candidates)) = r.candidates
    /\ \A c \in Range(r.candidates) : validateProviderCandidate(r.request, c)
    /\ \A d \in r.diagnostics : validateDiagnostic(r.request, d)
    /\ \A d, e \in r.diagnostics : d # e => <<d.code, d.record, d.route>> # <<e.code, e.record, e.route>>

ValidateResultBatch(b) ==
    /\ \A r \in Range(b.results) : validateResult(r)
    /\ \A i, j \in DOMAIN b.results : i # j => b.results[i].request.path # b.results[j].request.path
    /\ b.summary = summarizeResults(b.results)

resultFor(request, found) ==
    [request |-> request, status |-> IF found.candidates = {} THEN "no_candidates" ELSE "matched",
     candidates |-> sortCandidates(found.candidates), diagnostics |-> found.diagnostics]

newBatch(stamp, rs) == [stamp |-> stamp, results |-> rs, summary |-> summarizeResults(rs)]

\* found is what the provider says of each request; one that cannot be served, or has too many candidates, fails them all
collect(p, requests, found, stamp) ==
    LET b == newBatch(stamp, [i \in DOMAIN requests |-> resultFor(requests[i], found[i])])
    IN  IF /\ ValidateBatch(requests)
           /\ \A i \in DOMAIN requests :
                 /\ validateRequestCompatibility(requests[i])
                 /\ found[i].ok
                 /\ Cardinality(found[i].candidates) <= p.max
                 /\ \A c \in found[i].candidates : validateProviderCandidate(requests[i], c)
                 /\ \A c, d \in found[i].candidates : c # d => <<c.record, c.route>> # <<d.record, d.route>>
           /\ ValidateResultBatch(b)
        THEN <<b>> ELSE <<>>

execute(p, requests, stamp) == collect(p, requests, [i \in DOMAIN requests |-> search(p, requests[i])], stamp)

\* a stamp has to name the catalog of the provider
ExecuteStamped(p, requests, stamp) == IF stamp \in {0, p.catalog} THEN execute(p, requests, stamp) ELSE <<>>

\* the replay envelope keeps the requests and has a result for each of them, in their order
ValidateProviderReplay(b, requests) ==
    /\ ValidateResultBatch(b)
    /\ Len(b.results) = Len(requests)
    /\ \A i \in DOMAIN requests : b.results[i].request = requests[i]

replay(p, requests, stamp) == SelectSeq(ExecuteStamped(p, requests, stamp), LAMBDA b : ValidateProviderReplay(b, requests))

----------------------------------------------------------------------------

\* Compile of the plans and NewProvider accept what they are given
Choose ==
    /\ stage = "idle"
    /\ \E i \in Inputs :
          LET p == i.provider IN
          /\ validatePlan(i.parsing) /\ validatePlan(i.plan)
          /\ ValidateDescriptor(p)
          /\ IF p.kind = "fixture" THEN validateFixtureCatalog(p.records)
             ELSE /\ ValidatePayload(p.entries, p.records)
                  /\ p.kind # "exact" => \A n \in DOMAIN p.names : ValidateProfile(p.names[n])
                  /\ p.kind = "context" =>
                        ValidatePolicySet(p.policies) /\ \A n \in DOMAIN p.contexts : ValidateContextProfile(p.contexts[n])
          /\ input' = <<i>>
    /\ stage' = "chosen"
    /\ UNCHANGED <<message, bundle, batch, results, pair>>

\* the made of a step is kept, or the run has failed
Step(before, made, after) == stage = before /\ stage' = (IF made = <<>> THEN "failed" ELSE after)

Parse ==
    /\ stage = "chosen"
    /\ message' = buildMessage(input[1].parsing, input[1].document)
    /\ Step("chosen", message', "parsed")
    /\ UNCHANGED <<input, bundle, batch, results, pair>>

Resolved ==
    /\ stage = "parsed"
    /\ bundle' = Execute(input[1].plan, message[1])
    /\ Step("parsed", bundle', "executed")
    /\ UNCHANGED <<input, message, batch, results, pair>>

Projected ==
    /\ stage = "executed"
    /\ batch' = Project(bundle[1])
    /\ Step("executed", batch', "projected")
    /\ UNCHANGED <<input, message, bundle, results, pair>>

Run ==
    /\ stage = "projected"
    /\ results' = replay(input[1].provider, batch[1].requests, input[1].stamp)
    /\ Step("projected", results', "run")
    /\ UNCHANGED <<input, message, bundle, batch, pair>>

\* the scoring of a pair of names outside a catalog
ScorePair ==
    /\ stage = "idle"
    /\ \E q, c \in Names : pair' = <<[query |-> q, candidate |-> c, scored |-> scoreName(fold(q), fold(c), NameProfile)]>>
    /\ stage' = "compared"
    /\ UNCHANGED <<input, message, bundle, batch, results>>

Init ==
    /\ stage = "idle"
    /\ input = <<>> /\ message = <<>> /\ bundle = <<>>
    /\ batch = <<>> /\ results = <<>> /\ pair = <<>>

Next == Choose \/ Parse \/ Resolved \/ Projected \/ Run \/ ScorePair
Spec == Init /\ [][Next]_vars

----------------------------------------------------------------------------

\* the distance of two texts by its definition
Distance(s, t) ==
    LET d[i \in 0 .. Len(s), j \in 0 .. Len(t)] ==
            IF i = 0 \/ j = 0 THEN i + j
            ELSE Min({d[i - 1, j] + 1, d[i, j - 1] + 1, d[i - 1, j - 1] + (IF s[i] = t[j] THEN 0 ELSE 1)})
    IN  d[Len(s), Len(t)]

\* the most tokens of both names that are alike and in the same order
InOrder(s, t) ==
    Max({Cardinality(m) : m \in {n \in SUBSET ((DOMAIN s) \X (DOMAIN t)) :
            /\ \A x \in n : editSimilarity(s[x[1]], t[x[2]]) >= 7000
            /\ \A x, y \in n : x # y => (x[1] < y[1] /\ x[2] < y[2]) \/ (y[1] < x[1] /\ y[2] < x[2])}})

(***************************************************************************)
(* The features of a pair of names are what they are named after: the      *)
(* distance computed row by row is the edit distance of the texts, the     *)
(* tokens counted in order are a longest matching, the score does not      *)
(* depend on which name is the query, equal Latin names score 10000 and    *)
(* so does the edit feature of names of several tokens that differ in      *)
(* their order alone (scoreName, levenshtein, orderedTokenSimilarity).     *)
(***************************************************************************)
NameScoresAgree ==
    \A x \in Range(pair) :
        LET q == fold(x.query)
            c == fold(x.candidate)
            f == x.scored.features
        IN  /\ levenshtein(Text(q), Text(c)) = Distance(Text(q), Text(c))
            /\ q # <<>> \/ c # <<>> => f.ordered = (InOrder(tokens(q), tokens(c)) * 10000) \div Longer(tokens(q), tokens(c))
            /\ scoreName(c, q, NameProfile).score = x.scored.score
            /\ Range(q) = Range(c) /\ Len(q) = Len(c) /\ IsInjective(q) /\ Len(tokens(q)) > 1 => f.edit = 10000
            /\ q = c /\ (\A t \in Range(q) : \E l \in Range(t) : l <= 4) => x.scored.score = 10000

\* whether the route of the provider p finds the record r for the query
Named(p, r, route, query) ==
    \E e \in p.entries :
        /\ e.record = r /\ e.route = route
        /\ IF route \in NameRoutes /\ p.kind # "exact"
           THEN fold(query) # <<>> /\ fold(e.value) = fold(query) /\ \A t \in Range(fold(query)) : \E l \in Range(t) : l <= 4
           ELSE normalize(e.value) = normalize(query)

\* neither hidden nor connecting marks, on which the folds of names and of narratives differ
Clean(value) == Range(Text(value)) \cap Marks = {}

\* whether the phrase is in the text, word for word
Within(phrase, text) == \E i \in 1 .. Len(text) - Len(phrase) + 1 : SubSeq(text, i, i + Len(phrase) - 1) = phrase

(***************************************************************************)
(* What is on the list is found: when a run ends, every element that is    *)
(* there and triggers a search has a result, in the order of the message,  *)
(* and a record whose listed value equals the element (for a name, up to   *)
(* case, accents, connecting and hidden marks and turned spans), a policy  *)
(* one of whose phrases does, and a listed name that a narrative without   *)
(* any denial contains word for word (as it is listed or, when neither has *)
(* such marks, up to case and accents) are among its candidates, or an     *)
(* entity type mismatch says why not.  Parser, plan, projector, matchers   *)
(* and runner all have a part in it (Execute, Project,                     *)
(* SearchWithDiagnostics, execute).                                        *)
(***************************************************************************)
HitsAreReported ==
    stage = "run" =>
        LET p == input[1].provider
            fields == input[1].document.fields
            Entry(f) == Resolve(input[1].plan, input[1].document.definition, f.path)[1]
            searched == SelectSeq(fields, LAMBDA f : f.valid /\ f.value # <<>> /\ Entry(f).trigger \in Triggers)
            rs == results[1].results
            Reported(i, record) ==
                \/ \E c \in Range(rs[i].candidates) : c.record = record
                \/ \E d \in rs[i].diagnostics : d.record = record /\ d.code = "entity_type_mismatch"
            Quiet(f, e) == \A m \in p.contexts[e.threshold].markers : ~Within(m, contextTokens(f.value))
        IN  /\ Len(rs) = Len(searched)
            /\ \A i \in DOMAIN rs :
                  LET f == searched[i]
                      e == Entry(f)
                  IN  /\ rs[i].request.path = f.path /\ rs[i].request.query = f.value
                      /\ p.kind # "fixture" =>
                           \A r \in p.records, route \in e.routes :
                             Named(p, r.id, route, f.value) /\ (r.type \in e.types \/ (route \in NameRoutes /\ p.kind # "exact"))
                             /\ ~(p.kind = "context" /\ route \in {"jurisdiction_policy", "contextual_phrase_window"})
                                => Reported(i, r.id)
                      /\ p.kind = "context" =>
                           /\ "jurisdiction_policy" \in e.routes /\ "jurisdiction" \in e.types =>
                                 \A q \in p.policies : contextTokens(f.value) \in Range(q.phrases) => Reported(i, q.id)
                           /\ "contextual_phrase_window" \in e.routes /\ Quiet(f, e) =>
                                 /\ \A x \in {y \in p.entries : y.route \in NameRoutes} :
                                       LET words == contextTokens(x.value) IN
                                       /\ \/ Within(normalize(x.value), normalize(f.value))
                                          \/ Clean(x.value) /\ Clean(f.value) /\ Within(fold(x.value), fold(f.value))
                                       /\ words # <<>>
                                       /\ Len(words) > 1 \/ Len(words[1]) >= p.contexts[e.threshold].single
                                       => Reported(i, x.record)
                                 /\ \A q \in p.policies :
                                       Within(q.phrases[1], contextTokens(f.value)) /\ "jurisdiction" \in e.types => Reported(i, q.id)
                      /\ p.kind = "fixture" =>
                           \A r \in p.records, route \in e.routes :
                              r.type \in e.types /\ (\E v \in Range(r.values[route]) : normalize(v) = normalize(f.value)) => Reported(i, r.id)
=============================================================================
