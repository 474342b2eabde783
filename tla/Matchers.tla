------------------------------ MODULE Matchers ------------------------------
(***************************************************************************)
(* The searches themselves: the entries compiled from a catalog and their  *)
(* exact search (ofacruntime), the fuzzy search of names over them         *)
(* (matcherbaseline), the search of jurisdictions and narratives           *)
(* (matchercontext), the exact search over a plain catalog and the runner  *)
(* that checks what any of them returns (matcherprovider).                 *)
(*                                                                         *)
(* A record is [id, type, name, aliases, dates, addresses, remarks,        *)
(* identifiers]; an entry [route, record, type, value, score, weak]; a     *)
(* provider [kind, catalog, entries, records, names, contexts, policies,   *)
(* max].  Names and contexts are profiles by id; a policy is [id, phrases],*)
(* the country name first.  A search returns [ok, candidates, diagnostics].*)
(***************************************************************************)
EXTENDS NameScore, ScreeningPlan

NameRoutes == {"normalized_name", "alias", "transliteration"}

\* the order of route names
RouteOrder == <<"alias", "contextual_address", "contextual_phrase_window", "exact_account", "exact_bic", "exact_date",
                "exact_lei", "jurisdiction_policy", "normalized_name", "transliteration">>
RouteBefore(r, s) == (CHOOSE i \in DOMAIN RouteOrder : RouteOrder[i] = r) < (CHOOSE i \in DOMAIN RouteOrder : RouteOrder[i] = s)

Failed == [ok |-> FALSE, candidates |-> {}, diagnostics |-> {}]
Found(candidates, diagnostics) == [ok |-> TRUE, candidates |-> candidates, diagnostics |-> diagnostics]

\* one of each class under Key, none of its class being better
BestBy(values, Key(_), Better(_, _)) ==
    {CHOOSE v \in class : \A w \in class : ~Better(w, v) : class \in {{w \in values : Key(w) = Key(v)} : v \in values}}

----------------------------------------------------------------------------
(* The compiled catalog and its exact search.                              *)

\* kind is the set of words in the type of an identifier
identifierSupports(route, kind) ==
    CASE route = "exact_bic" -> kind \cap {"bic", "swift"} # {}
      [] route = "exact_lei" -> "legal entity identifier" \in kind \/ kind = {"lei"}
      [] route = "exact_account" -> kind \cap {"account", "iban"} # {} /\ "imo" \notin kind

compileEntries(records) ==
    LET Of(r, route, value, score, weak) ==
            [route |-> route, record |-> r.id, type |-> r.type, value |-> value, score |-> score, weak |-> weak]
        All(r) ==
            {Of(r, "normalized_name", r.name, 10000, FALSE)}
            \cup {Of(r, route, a.name, 9700, a.weak) : a \in r.aliases, route \in {"alias", "transliteration"}}
            \cup {Of(r, "exact_date", d, 10000, FALSE) : d \in r.dates}
            \cup {Of(r, "jurisdiction_policy", a.country, 10000, FALSE) : a \in r.addresses}
            \cup {Of(r, "contextual_address", v, 9000, FALSE) : v \in UNION {a.parts \cup {a.country} : a \in r.addresses}}
            \cup {Of(r, "contextual_phrase_window", r.remarks, 10000, FALSE)}
            \cup {Of(r, x[2], x[1].number, 10000, FALSE) :
                    x \in {y \in r.identifiers \X {"exact_bic", "exact_lei", "exact_account"} : identifierSupports(y[2], y[1].kind)}}
        kept == {e \in UNION {All(r) : r \in records} : e.value # <<>>}
    \* of two entries that differ in their attributes alone one is kept
    IN  BestBy(kept, LAMBDA e : <<e.route, e.record, e.value>>, LAMBDA d, e : FALSE)

ValidatePayload(entries, records) ==
    /\ entries # {} /\ records # {}
    /\ {e.record : e \in entries} = {r.id : r \in records}

better(l, r) ==
    IF l.score # r.score THEN l.score > r.score
    ELSE IF l.exact # r.exact THEN l.exact
    ELSE RouteBefore(l.route, r.route)

NoEvidence == <<>>

\* the best entry of each record for the value, over the routes
exactSearch(entries, request) ==
    Found(BestBy({[record |-> e.record, type |-> e.type, route |-> e.route, value |-> e.value, score |-> e.score,
                   exact |-> TRUE, evidence |-> NoEvidence] :
                     e \in {x \in entries : /\ x.route \in request.routes /\ x.type \in request.types
                                            /\ normalize(x.value) = normalize(request.query)}},
                 LAMBDA c : c.record, better), {})

----------------------------------------------------------------------------
(* The fuzzy search of names.                                              *)

Evidence(features, profile, penalty, markers) ==
    <<[features |-> features, weights |-> profile.weights, penalty |-> penalty, threshold |-> profile.threshold, markers |-> markers]>>

betterCandidate(l, r) == better(l, r) \/ (~better(r, l) /\ TextBefore(Text(l.value), Text(r.value)))

betterDiagnostic(l, r) ==
    IF l.score # r.score THEN l.score > r.score
    ELSE IF l.route # r.route THEN RouteBefore(l.route, r.route) ELSE TextBefore(Text(l.value), Text(r.value))

\* the entry as a candidate, s being the score of its value and weak what a weak alias loses
scoredEntry(e, s, weak, profile, request) ==
    [record |-> e.record, type |-> e.type, route |-> e.route, value |-> e.value,
     score |-> Max({0, s.score - weak}), exact |-> normalize(request.query) = normalize(e.value),
     evidence |-> Evidence(s.features, profile, s.penalty + weak, {})]

\* the best strong candidate of each record, or the best one of the wrong type as a diagnostic, next to the exact candidates
reportStrong(exact, strong, profile, types) ==
    Found(exact \cup BestBy({c \in strong : c.type \in types}, LAMBDA c : c.record, betterCandidate),
          BestBy({[code |-> "entity_type_mismatch", record |-> c.record, type |-> c.type, route |-> c.route, value |-> c.value,
                   score |-> c.score, threshold |-> profile.threshold, evidence |-> c.evidence] :
                     c \in {x \in strong : x.type \notin types}},
                 LAMBDA d : d.record, betterDiagnostic))

baselineSearch(p, request) ==
    LET others == request.routes \ NameRoutes
        exact == IF others = {} THEN {} ELSE exactSearch(p.entries, [request EXCEPT !.routes = others]).candidates
        profile == p.names[request.threshold]
        query == fold(request.query)
        Scored(e) == scoredEntry(e, scoreName(query, fold(e.value), profile),
                                 IF e.weak THEN profile.weak ELSE 0, profile, request)
    IN  IF request.routes \cap NameRoutes = {} THEN Found(exact, {})
        ELSE IF request.threshold \notin DOMAIN p.names THEN Failed
        ELSE IF query = <<>> THEN Found(exact, {})
        ELSE reportStrong(exact,
                          {c \in {Scored(e) : e \in {x \in p.entries : x.route \in request.routes \cap NameRoutes /\ fold(x.value) # <<>>}} :
                              c.score >= profile.floor /\ c.score >= profile.threshold},
                          profile, request.types)

----------------------------------------------------------------------------
(* Jurisdictions and narratives.                                           *)

\* mutant: the accents of a value are kept
contextTokens_Raw(value) == LET text == Text(value) IN Fields([i \in DOMAIN text |-> IF text[i] \in Marks THEN 0 ELSE text[i] % 20])

\* matchercontext has a fold of its own: what is no letter separates tokens, and no span is turned round
contextTokens(value) ==
    LET text == Text(value) IN Fields([i \in DOMAIN text |-> IF text[i] \in Marks THEN 0 ELSE text[i] % 10])

ValidateContextProfile(c) ==
    /\ 0 <= c.floor /\ c.floor <= c.threshold /\ c.threshold <= 10000
    /\ MapThenSumSet(LAMBDA f : c.weights[f], DOMAIN c.weights) = 10000
    /\ c.kind = "narrative" =>
          /\ c.ordered \in 1 .. 10000 /\ c.extra >= 0 /\ c.single >= 1 /\ c.window >= 0
          /\ c.weak \in 0 .. 10000 /\ c.denial \in 0 .. 10000
          /\ \A m \in c.markers : m # <<>> /\ contextTokens(m) = m
    /\ c.kind \in {"narrative", "jurisdiction"}

\* no phrase of a policy is another's
ValidatePolicySet(policies) ==
    /\ policies # {}
    /\ \A q \in policies : \A v \in Range(q.phrases) : v # <<>> /\ contextTokens(v) = v
    /\ \A q, r \in policies : q # r => q.id # r.id /\ Range(q.phrases) \cap Range(r.phrases) = {}

scoreFeatures(profile, values) == [f \in DOMAIN profile.weights |-> IF f \in DOMAIN values THEN values[f] ELSE 0]

featureTotal(features, profile) == Contributions(features, profile.weights)

\* the threshold of the profile is not applied
searchJurisdiction(p, request) ==
    LET profile == p.contexts[request.threshold]
        features == scoreFeatures(profile, [country_equivalence |-> 10000, policy_status |-> 10000])
    IN  IF request.threshold \notin DOMAIN p.contexts \/ profile.kind # "jurisdiction" THEN Failed
        ELSE Found({[record |-> q.id, type |-> "jurisdiction", route |-> "jurisdiction_policy", value |-> contextTokens(request.query),
                     score |-> featureTotal(features, profile), exact |-> TRUE, evidence |-> Evidence(features, profile, 0, {})] :
                       q \in {x \in p.policies : contextTokens(request.query) \in Range(x.phrases) /\ "jurisdiction" \in request.types}}, {})

NoWindow == [found |-> FALSE, first |-> 0, last |-> 0, contiguous |-> FALSE]

\* the first contiguous occurrence, otherwise the first start from which the tokens follow in order within the limit
findPhraseWindow(query, matched, extra, single) ==
    LET n == Len(matched)
        whole == {s \in DOMAIN query : s + n - 1 <= Len(query) /\ SubSeq(query, s, s + n - 1) = matched}
        Limit(s) == Min({s - 1 + n + extra, Len(query)})
        Walk(s) == FoldLeft(LAMBDA a, i : IF a.next <= n /\ query[i] = matched[a.next] THEN [next |-> a.next + 1, last |-> i] ELSE a,
                            [next |-> 2, last |-> s], [i \in 1 .. Limit(s) - s |-> s + i])
        inOrder == {s \in DOMAIN query : query[s] = matched[1] /\ Walk(s).next = n + 1}
    IN  IF query = <<>> \/ n = 0 \/ (n = 1 /\ Len(matched[1]) < single) THEN NoWindow
        ELSE IF whole # {} THEN [found |-> TRUE, first |-> Min(whole), last |-> Min(whole) + n - 1, contiguous |-> TRUE]
        ELSE IF inOrder # {} THEN [found |-> TRUE, first |-> Min(inOrder), last |-> Walk(Min(inOrder)).last, contiguous |-> FALSE]
        ELSE NoWindow

denialMarkers(query, w, profile) ==
    LET around == SubSeq(query, Max({1, w.first - profile.window}), Min({Len(query), w.last + profile.window}))
    IN  {m \in profile.markers : \E i \in DOMAIN around : i + Len(m) - 1 <= Len(around) /\ SubSeq(around, i, i + Len(m) - 1) = m}

sourceQuality(e) ==
    CASE e.route = "normalized_name" -> 10000
      [] e.route = "alias" -> IF e.weak THEN 8000 ELSE 9500
      [] e.route = "transliteration" -> 9000
      [] OTHER -> 8500

\* of the names of a record and route that fold alike the first of the payload counts, and whether that one is weak
buildNarrativeEntries(entries) ==
    BestBy({e \in entries : e.route \in NameRoutes},
           LAMBDA e : <<e.record, e.route, contextTokens(e.value)>>,
           LAMBDA d, e : LET s == Text(normalize(d.value))
                             t == Text(normalize(e.value))
                         IN  TextBefore(s, t) \/ (s = t /\ TextBefore(Text(d.value), Text(e.value))))

\* what a phrase of that quality and penalty scores in the window
Phrase(query, phrase, w, quality, penalty, profile) ==
    LET features == scoreFeatures(profile, [boundary_phrase_match |-> IF w.contiguous THEN 10000 ELSE profile.ordered,
                                            source_quality |-> quality,
                                            window_compactness |-> (Len(phrase) * 10000) \div (w.last - w.first + 1)])
        markers == denialMarkers(query, w, profile)
        total == penalty + (IF markers = {} THEN 0 ELSE profile.denial)
        score == featureTotal(features, profile) - total
    IN  [score |-> Max({0, score}), raw |-> score, markers |-> markers,
         exact |-> w.first = 1 /\ w.last = Len(query), evidence |-> Evidence(features, profile, total, markers)]

\* below the floor nothing is said, whatever the reason; a denied phrase is a diagnostic
Told(record, type, value, h, profile, types) ==
    LET candidate == [record |-> record, type |-> type, route |-> "contextual_phrase_window", value |-> value, score |-> h.score,
                      exact |-> h.exact, evidence |-> h.evidence]
        Diagnostic(code) == [code |-> code, record |-> record, type |-> type, route |-> "contextual_phrase_window", value |-> value,
                             score |-> h.score, threshold |-> profile.threshold, evidence |-> h.evidence]
    IN  CASE h.score < profile.floor -> Found({}, {})
          [] h.score >= profile.floor /\ type \notin types ->
                Found({}, IF h.score >= profile.threshold THEN {Diagnostic("entity_type_mismatch")} ELSE {})
          [] h.score >= profile.floor /\ type \in types /\ h.markers # {} -> Found({}, {Diagnostic("narrative_denial_context")})
          [] OTHER -> Found(IF h.score >= profile.threshold THEN {candidate} ELSE {}, {})

\* every name of the catalog, and of each policy the first phrase that is found and scores at least the floor
searchNarrative(p, request) ==
    LET profile == p.contexts[request.threshold]
        query == contextTokens(request.query)
        Window(value, single) == findPhraseWindow(query, contextTokens(value), profile.extra, single)
        Name(e) == Told(e.record, e.type, e.value,
                        Phrase(query, contextTokens(e.value), Window(e.value, profile.single), sourceQuality(e),
                               IF e.weak THEN profile.weak ELSE 0, profile), profile, request.types)
        names == {Name(e) : e \in {x \in buildNarrativeEntries(p.entries) : Window(x.value, profile.single).found}}
        Hit(v) == Phrase(query, v, Window(v, 1), 10000, 0, profile)
        Tried(q) == SelectSeq(q.phrases, LAMBDA v : Window(v, 1).found /\ Hit(v).raw >= profile.floor)
        policies == {Told(q.id, "jurisdiction", Head(Tried(q)), Hit(Head(Tried(q))), profile, request.types) :
                        q \in {x \in p.policies : Tried(x) # <<>> /\ "jurisdiction" \in request.types}}
        told == names \cup policies
    IN  IF request.threshold \notin DOMAIN p.contexts \/ profile.kind # "narrative" THEN Failed
        ELSE IF query = <<>> THEN Found({}, {})
        ELSE Found(UNION {t.candidates : t \in told}, UNION {t.diagnostics : t \in told})

bestCandidates(values) ==
    BestBy(values, LAMBDA c : <<c.record, c.route>>,
           LAMBDA l, r : l.score > r.score \/ (l.score = r.score /\ TextBefore(Text(l.value), Text(r.value))))

bestDiagnostics(values) == BestBy(values, LAMBDA d : <<d.code, d.record, d.route>>, LAMBDA l, r : l.score > r.score)

mergeOutcomes(parts) ==
    IF \E s \in parts : ~s.ok THEN Failed
    ELSE Found(bestCandidates(UNION {s.candidates : s \in parts}), bestDiagnostics(UNION {s.diagnostics : s \in parts}))

contextSearch(p, request) ==
    LET own == {"jurisdiction_policy", "contextual_phrase_window"}
    IN  mergeOutcomes(
            (IF request.routes \ own = {} THEN {} ELSE {baselineSearch(p, [request EXCEPT !.routes = @ \ own])})
            \cup (IF "jurisdiction_policy" \in request.routes THEN {searchJurisdiction(p, request)} ELSE {})
            \cup (IF "contextual_phrase_window" \in request.routes THEN {searchNarrative(p, request)} ELSE {}))

----------------------------------------------------------------------------
(* The plain catalog, whose records are [id, type, values], the values a   *)
(* sequence for each route.                                                *)

FixtureScore == [normalized_name |-> 10000, alias |-> 9700, transliteration |-> 9300, exact_bic |-> 10000, exact_lei |-> 10000,
                 exact_account |-> 10000, exact_date |-> 10000, jurisdiction_policy |-> 10000, contextual_address |-> 9000,
                 contextual_phrase_window |-> 8500]

validateFixtureCatalog(records) ==
    /\ records # {}
    /\ \A r \in records : r.values["normalized_name"] # <<>>
    /\ \A r, s \in records : r # s => r.id # s.id

exactValue(query, values) == SelectSeq(values, LAMBDA v : normalize(v) = query)

\* a phrase is looked for in the text, across the bounds of tokens
fixtureRouteMatch(route, query, r) ==
    LET Inside(v) == LET t == Text(normalize(v))
                     IN  \E i \in 1 .. Len(Text(query)) - Len(t) + 1 : SubSeq(Text(query), i, i + Len(t) - 1) = t
    IN  IF route = "contextual_phrase_window" THEN SelectSeq(r.values[route], LAMBDA v : v # <<>> /\ Inside(v))
        ELSE exactValue(query, r.values[route])

\* the first value of each route that fits, and the best route
matchFixtureRecord(request, r) ==
    LET Fits(route) == fixtureRouteMatch(route, normalize(request.query), r)
    IN  BestBy({[record |-> r.id, type |-> r.type, route |-> route, value |-> Head(Fits(route)), score |-> FixtureScore[route],
                 exact |-> route # "contextual_phrase_window", evidence |-> NoEvidence] :
                   route \in {x \in request.routes : Fits(x) # <<>>}},
               LAMBDA c : c.record, better)

fixtureSearch(records, request) ==
    Found(UNION {matchFixtureRecord(request, r) : r \in {x \in records : x.type \in request.types}}, {})

search(p, request) ==
    CASE p.kind = "exact" -> exactSearch(p.entries, request)
      [] p.kind = "baseline" -> baselineSearch(p, request)
      [] p.kind = "context" -> contextSearch(p, request)
      [] p.kind = "fixture" -> fixtureSearch(p.records, request)

=============================================================================
