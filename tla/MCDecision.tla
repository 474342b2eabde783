----------------------------- MODULE MCDecision -----------------------------
(***************************************************************************)
(* The decision pipeline for TLC: the refresh of a catalog by deltas, the  *)
(* matching run over a small catalog, the scoring of candidates, and the   *)
(* review run under the shipped configuration and three others the         *)
(* validations accept.  The four do not touch each other's state: side     *)
(* says which of them a behaviour is.                                      *)
(***************************************************************************)
EXTENDS TLC, Integers, FiniteSets, Sequences

\* the instances: the configuration gives each the definition below that it is named after
CONSTANTS MCConfigs, MCHitSets, MCFiles, MCCorpus, MCReferences, MCDrafts, MCProfile, MCBucket, MCRetrievalPolicy,
          MCPolicies, MCSubjects, MCBatches,
          MCInputs, MCCompared, MCNameProfile, MCNicknames, MCSuffixes, MCHonorifics,
          MCCatalogs, MCLimits, MCMade, MCFirst, MCSpecs

VARIABLES side,
          stage, options, observations, classifications, decisions, cases,   \* the review run
          asked, answered,                                                   \* the scoring
          step, input, message, bundle, batch, results, pair,                \* the matching run
          active, expected, circulating, files, job, compiled, now, stops, jobs   \* the refresh

Plain == [case |-> 1, trigger |-> "candidate_alert", route |-> "normalized_name", exact |-> FALSE, value |-> "name",
          occurs |-> "equal", length |-> 8, words |-> {}, required |-> {}, present |-> {},
          types |-> {"person"}, type |-> "person", diagnostics |-> {}, reasons |-> {"name_exact"},
          secondary |-> {}, technical |-> {}, marks |-> {}, score |-> 9000]

\* the shipped pattern library
Rule(s, h, b) == [strength |-> s, hint |-> h, blockers |-> b]
Library ==
    [acronym_collision |-> Rule(8500, "clear_eligible", {"acronym_field_collision"}),
     entity_type_mismatch |-> Rule(9000, "investigate", {"entity_type_conflict"}),
     legal_control_context |-> Rule(8500, "manual_review", {"legal_control_evidence_required"}),
     missing_qualifier |-> Rule(7000, "investigate", {"missing_critical_watchlist_terms"}),
     narrative_denial_context |-> Rule(10000, "clear_eligible", {"denial_context"}),
     phonetic_transliteration_only |-> Rule(7500, "investigate", {"secondary_identifier_missing"}),
     routing_bic_collision |-> Rule(9000, "clear_eligible", {"routing_code_collision"}),
     substring_containment |-> Rule(9500, "clear_eligible", {"substring_only_match"}),
     technical_system_artifact |-> Rule(10000, "clear_eligible", {"technical_artifact"}),
     wrong_field_data_type |-> Rule(9500, "clear_eligible", {"wrong_field_context"})]
\* one whose patterns block less
Mild == [c \in DOMAIN Library |-> IF c \in {"missing_qualifier", "narrative_denial_context"} THEN [Library[c] EXCEPT !.blockers = {}] ELSE Library[c]]

\* the shipped countervailing policy
Exact(c, s, e) == [class |-> c, strength |-> s, eligible |-> e, triggers |-> {"candidate_alert", "supporting_evidence"}]
Countervailing ==
    [rules |-> [exact_account |-> Exact("secondary_attribute", 8000, FALSE), exact_bic |-> Exact("primary_identifier", 10000, TRUE),
                exact_date |-> Exact("secondary_attribute", 7000, FALSE), exact_lei |-> Exact("primary_identifier", 10000, TRUE)],
     secondary |-> [class |-> "secondary_support", strength |-> 9000, eligible |-> FALSE]]

\* the shipped policy
Shipped ==
    [weights |-> [screening |-> 4500, support |-> 4000, release |-> 5000],
     clearMax |-> 2500, escalateMin |-> 8500, minRelease |-> 7000, minSupport |-> 9000,
     autoClear |-> TRUE, escalation |-> TRUE,
     patterns |-> [c \in DOMAIN Library |->
                      CASE c \in {"narrative_denial_context", "technical_system_artifact"} -> [adjust |-> -2500, max |-> "clear"]
                        [] c = "legal_control_context" -> [adjust |-> 0, max |-> "investigate"]
                        [] c = "missing_qualifier" -> [adjust |-> -1000, max |-> "investigate"]
                        [] c = "phonetic_transliteration_only" -> [adjust |-> -500, max |-> "investigate"]
                        [] c = "entity_type_mismatch" -> [adjust |-> -1500, max |-> "investigate"]
                        [] OTHER -> [adjust |-> -1500, max |-> "clear"]],
     blockers |-> [b \in UNION {Library[c].blockers : c \in DOMAIN Library} \cup {"supporting_evidence_cannot_escalate", "primary_identifier_required"} |->
                      IF b \in {"acronym_field_collision", "denial_context", "routing_code_collision", "substring_only_match", "technical_artifact", "wrong_field_context"}
                      THEN "clear" ELSE "investigate"],
     hints |-> [clear_eligible |-> [route |-> "auto_release", max |-> "escalate"],
                escalation_candidate |-> [route |-> "escalation_review", max |-> "escalate"],
                investigate |-> [route |-> "standard_review", max |-> "investigate"],
                manual_review |-> [route |-> "manual_review", max |-> "investigate"]]]
\* an extreme one that ValidatePolicy accepts: no rule caps anything, every threshold is as low as it may be
Lenient ==
    [Shipped EXCEPT !.clearMax = 6000, !.escalateMin = 6001, !.minRelease = 0, !.minSupport = 0,
                    !.weights = [screening |-> 10000, support |-> 10000, release |-> 0],
                    !.patterns = [c \in DOMAIN Library |-> [adjust |-> 0, max |-> "escalate"]],
                    !.blockers = [b \in {} |-> "clear"],
                    !.hints = [h \in DOMAIN Shipped.hints |-> [route |-> "standard_review", max |-> "escalate"]]]
None(policy) == [base |-> policy, set |-> {}]
\* the shipped overlay, and one that lifts a cap of the shipped policy
Conservative == [base |-> Shipped, set |-> {<<"clearMax", 1500>>, <<"escalateMin", 9000>>, <<"minRelease", 8000>>, <<"minSupport", 9500>>,
                                            <<"autoClear", FALSE>>, <<"escalation", FALSE>>, <<"pattern", "legal_control_context", "adjust", 500>>}]
Config(library, policy, overlay) == [library |-> library, countervailing |-> Countervailing, policy |-> policy, overlay |-> overlay]
Configs == {Config(Library, Shipped, None(Shipped)), Config(Library, Shipped, Conservative),
            Config(Library, Lenient, None(Lenient)), Config(Mild, Lenient, [base |-> Lenient, set |-> {<<"minSupport", 5000>>, <<"screening", 5000>>}])}

Wide ==
    {[Plain EXCEPT !.trigger = t, !.route = r[1], !.exact = r[2], !.value = v, !.occurs = w[1], !.length = w[2],
                   !.words = q, !.secondary = s, !.marks = m, !.reasons = c, !.score = n] :
        t \in {"candidate_alert", "supporting_evidence", "retain_only"},
        r \in {<<"exact_bic", TRUE>>, <<"exact_bic", FALSE>>, <<"exact_account", TRUE>>, <<"normalized_name", TRUE>>, <<"transliteration", FALSE>>},
        v \in {"name", "bic", "iban"},
        w \in {<<"equal", 8>>, <<"inside", 4>>, <<"absent", 2>>},
        q \in {{}, {"BANK"}}, s \in {{}, {"dob"}}, m \in {{}, {"denial"}, {"control"}},
        c \in {{"name_exact"}, {"name_fuzzy_phonetic"}}, n \in {0, 7000, 10000}}
Odd == {[Plain EXCEPT !.technical = {"dummy"}], [Plain EXCEPT !.marks = {"padding"}], [Plain EXCEPT !.types = {"vessel"}],
        [Plain EXCEPT !.value = "iban", !.length = 2, !.occurs = "tokens"], [Plain EXCEPT !.required = {"BANK"}, !.present = {"BANK"}],
        [Plain EXCEPT !.score = 10001]}

Hit(kind, o) == [kind |-> kind, observation |-> o]
Escalated == [Plain EXCEPT !.route = "exact_lei", !.exact = TRUE, !.value = "lei", !.score = 10000]
Denied == [Plain EXCEPT !.case = 2, !.diagnostics = {"narrative_denial_context"}, !.score = 5000]
HitSets == {{}, {Hit("candidate", Plain)}, {Hit("candidate", Escalated), Hit("diagnostic", Denied)},
            {Hit("diagnostic", [Denied EXCEPT !.diagnostics = {"entity_type_mismatch"}])}, {Hit("diagnostic", Escalated)},
            {Hit("candidate", [Plain EXCEPT !.case = 2, !.marks = {"control"}])}}

Doc(t, from, to, chunks) == [tier |-> "tier_a", approval |-> "approved", tenant |-> t, scopes |-> {"transaction_screening"},
                             from |-> from, to |-> to, chunks |-> chunks]
Chunk(i, m, t) == [id |-> i, instruction |-> FALSE, mentions |-> m, tokens |-> t]
Corpus == {Doc("", 0, 0, {Chunk(1, {"escalate", "policy_id"}, {"escalate", "investigate"}), Chunk(2, {}, {"other"})}),
           Doc("t1", 1, 2, {Chunk(3, {"investigate", "semantic_role"}, {"investigate"})}),
           Doc("t2", 0, 0, {Chunk(4, {"investigate"}, {"investigate", "clear"})}),
           [Doc("", 0, 0, {Chunk(5, {"investigate"}, {"investigate"})}) EXCEPT !.approval = "draft"],
           Doc("", 0, 0, {[Chunk(6, {"investigate"}, {"investigate"}) EXCEPT !.instruction = TRUE]}),
           Doc("", 2, 0, {Chunk(7, {"investigate", "policy_id", "semantic_role"}, {"investigate"})})}
\* the references of a run, with what is left of them; one has white space around it, one is blank
References == "ref" :> "ref" @@ " ref" :> "ref" @@ "" :> ""

Tokens == {"escalate", "investigate", "clear", "other"} \cup DOMAIN Library \cup DOMAIN Shipped.blockers
          \cup {"clear_eligible", "manual_review", "escalation_candidate", "threshold_score", "escalation_disabled", "auto_clear_disabled",
                "supporting_evidence_non_escalation", "policy_escalation_disabled", "policy_auto_clear_disabled", "secondary_identifier",
                "legal_control_documentation", "qualifying_candidate_alert", "primary_identifier"}
Drafts == [decodes : {TRUE}, disposition : {"escalate", "investigate"}, route : {"escalation_review", "standard_review"},
           claims : {{{1}}, {{3}}, {{7}}, {{1}, {4}}, {{}}}, cites : {{1}, {3}, {7}}, says : {{}, {"confirmed match"}}]
          \cup {[decodes |-> FALSE, disposition |-> "clear", route |-> "auto_release", claims |-> {}, cites |-> {}, says |-> {}]}

Files == Wide \cup Odd
Profile == [citations |-> 3, prohibited |-> {"confirmed match"}]
Bucket == [t \in Tokens |-> IF t \in {"other", "threshold_score"} THEN 1 ELSE IF t = "investigate" THEN 2 ELSE IF t = "escalate" THEN 3 ELSE 4]
RetrievalPolicy == [tiers |-> {"tier_a", "tier_b"}, approvals |-> {"approved"}, max |-> 2, min |-> 500,
                    metadata |-> 5000, lexical |-> 3000, vector |-> 2000, exclude |-> TRUE]

R == INSTANCE ReviewRun WITH
        Configs <- MCConfigs, HitSets <- MCHitSets, Files <- MCFiles, Corpus <- MCCorpus, References <- MCReferences, Drafts <- MCDrafts, Profile <- MCProfile,
        Bucket <- MCBucket, RetrievalPolicy <- MCRetrievalPolicy, Tenants <- {"t1", "t2"}, Dates <- {1, 3}

----------------------------------------------------------------------------
(* The scoring of candidates: the shipped policy and a strict one.         *)

Weights ==
    [typed_identifier_exact |-> 550, name_exact |-> 400, name_concatenation_normalized |-> 370, name_token_set_exact |-> 340,
     name_particle_stripped |-> 300, name_prefix |-> 250, name_containment |-> 180, date_of_birth_exact |-> 120,
     date_of_birth_year_exact |-> 60, country_exact |-> 60, entity_type_exact |-> 40,
     date_of_birth_conflict |-> -180, country_conflict |-> -60, entity_type_conflict |-> -100]
ScoringPolicy == [weights |-> Weights, floor |-> 0, ceiling |-> 1000, weak |-> 1, review |-> 400, strong |-> 700, items |-> 12, profile |-> 1]
Strict == [ScoringPolicy EXCEPT !.ceiling = 600, !.strong = 600, !.weak = 0, !.items = 2, !.weights["country_exact"] = 0]
Subject(i, d, c, t) == [identifiers |-> i, dates |-> d, countries |-> c, type |-> t]
Candidate(n, i, d, c, t, s) == [id |-> n, identifiers |-> i, dates |-> d, countries |-> c, type |-> t, shapes |-> s]

Listed == {Candidate(n, i, d, c, t, s) : n \in 1 .. 2, i \in {{}, {1}}, d \in {{}, {<<1970, 5>>}, {<<1971, 1>>}},
                                         c \in {{}, {1, 2}}, t \in {0, 1}, s \in {{}, {"name_exact", "name_prefix"}}}

Policies == {ScoringPolicy, Strict}
Subjects == {Subject({1}, {<<1970, 5>>}, {2, 3}, 1), Subject({}, {}, {}, 0), Subject({1, 2}, {<<1970, 0>>}, {1}, 2)}
Lists == {<<>>} \cup {<<c, d>> : c \in {x \in Listed : x.type = 1}, d \in Listed} \cup {<<c, c, c>> : c \in Listed}
Item(id, candidates) == [id |-> id, candidates |-> candidates]
\* two candidates that differ in their ids alone, one without an id, and one that scores less
Tied == Candidate(1, {}, {}, {2}, 1, {"name_exact"})
Few == {<<Tied, [Tied EXCEPT !.id = 2]>>, <<[Tied EXCEPT !.id = 0]>>, <<[Tied EXCEPT !.shapes = {}]>>}
Batches == {[id |-> 1, items |-> <<Item(1, l)>>] : l \in Lists}
           \cup {[id |-> b, items |-> <<Item(1, l), Item(i, m)>>] : b \in 0 .. 1, i \in 0 .. 2, l, m \in Few}
           \cup {[id |-> 1, items |-> <<>>]}

S == INSTANCE CandidateScoring WITH
        Policies <- MCPolicies, Subjects <- MCSubjects, Batches <- MCBatches, Profiles <- {1, 2}, MaxCandidates <- 2

----------------------------------------------------------------------------
(* The matching run.  The tokens, and a denial.                            *)

Jo == <<1, 2>>
Nicknames == <<2, 1>> :> Jo
CorporateSuffixes == {<<2, 2>>}
PersonHonorifics == {<<4>>}

N == INSTANCE Matchers

Ex == <<3, 4>>
Other == <<4>>
Not == <<2>>
Accented == <<11, 2>>
Lower == <<21, 22>>
Dotted == <<1, N!Connector, 2>>     \* Jo, with a connector
Blank == <<N!Connector>>
Turned == <<<<N!Override, 4, 3>>, <<2, 1, N!Pop>>>>   \* Jo Ex, as it is shown

Record(id, type, name, aliases) ==
    [id |-> id, type |-> type, name |-> name, aliases |-> aliases, dates |-> {<<<<1, 1>>>>},
     addresses |-> {[country |-> <<<<4, 4>>>>, parts |-> {<<Ex>>}]}, remarks |-> <<>>,
     identifiers |-> {[kind |-> {"swift"}, number |-> <<<<1, 1, 1>>>>], [kind |-> {"account", "imo"}, number |-> <<<<2, 2>>>>]}]
Alias(name, weak) == [name |-> name, weak |-> weak]
Records == {Record(1, "individual", <<Jo, Ex>>, {Alias(<<Ex, Accented>>, TRUE)}), Record(2, "vessel", <<Jo, Other, Ex>>, {Alias(<<Ex>>, FALSE)}),
            Record(3, "individual", <<Dotted, Ex>>, {Alias(<<Other, Jo>>, TRUE), Alias(<<Other, Accented>>, FALSE), Alias(<<Blank>>, FALSE)})}
Listings == {[id |-> 9, phrases |-> <<<<<<3, 3>>, Other>>, <<<<4, 4>>>>>>]}

ShippedNames == [threshold |-> 8200, floor |-> 7000, single |-> 900, weak |-> 500,
                 weights |-> [edit |-> 3000, length |-> 1000, ordered |-> 1500, phonetic |-> 1500, alignment |-> 3000]]
Narrative == [kind |-> "narrative", threshold |-> 8500, floor |-> 3000, ordered |-> 9000, extra |-> 3, single |-> 2, weak |-> 500,
              denial |-> 6000, window |-> 6, markers |-> {<<Not>>},
              weights |-> [boundary_phrase_match |-> 5000, source_quality |-> 2000, window_compactness |-> 3000]]
Geography == [Narrative EXCEPT !.kind = "jurisdiction", !.weights = [country_equivalence |-> 6000, policy_status |-> 4000]]

Provider(kind, max) ==
    [kind |-> kind, catalog |-> 1, entries |-> N!compileEntries(Records), records |-> Records, max |-> max, policies |-> Listings,
     names |-> [party |-> ShippedNames], contexts |-> [narrative |-> Narrative, country |-> Geography]]
Fixture == [Provider("exact", 25) EXCEPT !.kind = "fixture",
                !.records = {[id |-> 1, type |-> "individual",
                              values |-> [r \in DOMAIN N!ValueTypes |-> IF r \in {"normalized_name", "contextual_phrase_window"} THEN <<<<Jo, Ex>>>> ELSE <<>>]]}]

Path(name, index) == <<[name |-> "Document", index |-> N!NoIndex], [name |-> name, index |-> index]>>
Entry(id, path, type, routes, types, threshold) ==
    [id |-> id, path |-> path, type |-> type, trigger |-> "candidate_alert", routes |-> routes, types |-> types, threshold |-> threshold]
Names == Entry(1, Path("Nm", N!AnyIndex), "name", {"normalized_name", "alias", "transliteration"}, {"individual"}, "party")
Texts == Entry(2, Path("RmtInf", N!NoIndex), "narrative", {"contextual_phrase_window"}, {"individual", "jurisdiction"}, "narrative")
Countries == [Entry(3, Path("Ctry", N!NoIndex), "country_code", {"jurisdiction_policy"}, {"individual", "jurisdiction"}, "country")
                EXCEPT !.trigger = "supporting_evidence"]
Bics == Entry(4, Path("BIC", N!NoIndex), "bic", {"exact_bic"}, {"individual", "vessel"}, "none")
Kept == [Entry(5, Path("Id", N!NoIndex), "name", {}, {}, "none") EXCEPT !.trigger = "retain_only"]
Plan == [id |-> 1, version |-> 1, definitions |-> <<"pacs008">>, entries |-> <<Names, Texts, Countries, Bics, Kept>>]
Newer == [Plan EXCEPT !.version = 2, !.entries[1].routes = {"normalized_name"}]
Overlapping == [Plan EXCEPT !.entries[5].path = Path("Nm", 0)]
Typeless == [Plan EXCEPT !.entries[1].types = {}]
Unprofiled == [Plan EXCEPT !.entries[1].threshold = "none"]

Field(path, value, valid) == [path |-> path, value |-> value, valid |-> valid]
Document(fields) == [definition |-> "pacs008", fields |-> fields]
Sequences(set, n) == UNION {[1 .. k -> set] : k \in 1 .. n}
NameDocument(v) == Document(<<Field(Path("Nm", 0), v, TRUE), Field(Path("Id", N!NoIndex), v, TRUE)>>)
TextDocument(v) == Document(<<Field(Path("RmtInf", N!NoIndex), v, TRUE)>>)
Codes == {Document(<<Field(Path("Nm", 0), n, TRUE), Field(Path("Ctry", N!NoIndex), c, v), Field(Path("BIC", N!NoIndex), b, TRUE)>>) :
             n \in {<<>>, <<Lower, Ex>>}, c \in {<<<<4, 4>>>>, <<<<3, 3>>, Other>>, <<Jo>>}, v \in BOOLEAN, b \in {<<<<1, 1, 1>>>>, <<<<1, 1>>>>}}
Strange == {Document(<<Field(Path("Nm", 0), <<Jo>>, TRUE), Field(Path("Nm", 0), <<Ex>>, TRUE)>>),
            Document(<<Field(Path("Xx", N!NoIndex), <<Jo>>, TRUE)>>), Document(<<>>),
            [NameDocument(<<Jo>>) EXCEPT !.definition = "pacs009"]}

Marked == {<<Dotted, Ex>>, Turned, <<Jo, <<N!Override, 4, 3>>>>, <<Blank>>, <<Jo, Blank, Ex>>, <<Other, Accented>>, <<Other, Dotted>>}
Input(parsing, plan, d, p, stamp) == [parsing |-> parsing, plan |-> plan, document |-> d, provider |-> p, stamp |-> stamp]
Inputs ==
    {Input(Plan, Plan, NameDocument(v), Provider(k, 25), 0) :
        v \in Sequences({Jo, Ex, Other, Accented, Lower}, 3), k \in {"baseline", "context"}}
    \cup {Input(Plan, Plan, TextDocument(v), Provider("context", 25), 1) : v \in Sequences({Jo, Ex, Other, Not, <<3, 3>>}, 4)}
    \cup {Input(Plan, Plan, NameDocument(v), Provider(k, 25), 0) : v \in Marked, k \in {"baseline", "context"}}
    \cup {Input(Plan, Plan, TextDocument(<<w>> \o v), Provider("context", 25), 0) : v \in Marked, w \in {Other, Not, Blank}}
    \cup {Input(Plan, Plan, d, Provider(k, m), 0) : d \in Codes, k \in {"exact", "baseline", "context"}, m \in {1, 25}}
    \cup {Input(Plan, Plan, d, Fixture, s) : d \in Codes \cup {TextDocument(<<Other, Jo, Ex>>), NameDocument(<<Lower, Ex>>)}, s \in {1, 2}}
    \cup {Input(p, q, d, Provider("baseline", 25), 0) :
             p, q \in {Plan, Newer, Overlapping, Typeless, Unprofiled}, d \in Strange \cup {NameDocument(<<Jo, Ex>>), TextDocument(<<Jo>>)}}

Compared == Sequences({<<1>>, <<1, 3>>, <<3, 1>>, <<4>>, <<11, 3>>, <<5>>, <<2, 2>>, <<1, 3, 2>>}, 2)
            \cup {<<Blank>>, <<<<1, N!Connector>>, <<3, 1>>>>, <<<<N!Override, 3, 1, N!Pop>>, <<4>>>>}
            \cup {<<<<1>>, <<3, 1>>, <<1, 3>>>>, <<<<1, 3>>, <<1>>, <<3, 1>>>>, <<<<3>>, <<1, 3>>, <<3, 1>>>>}

M == INSTANCE MatchRun WITH
        stage <- step, Inputs <- MCInputs, Names <- MCCompared, NameProfile <- MCNameProfile,
        Nicknames <- MCNicknames, CorporateSuffixes <- MCSuffixes, PersonHonorifics <- MCHonorifics

----------------------------------------------------------------------------
(* The refresh: a change of one record, of all, a removal, a new version   *)
(* of the same records; and deltas that were tampered with and rehashed.   *)

Version(v, records) == [version |-> v, records |-> records]
Base == Version(1, (1 :> "a" @@ 2 :> "a"))
Limits(change, deletion, operations, atLimit, checks, interval) ==
    [change |-> change, deletion |-> deletion, operations |-> operations, atLimit |-> atLimit,
     contiguous |-> checks, sameBase |-> checks, interval |-> interval]

\* a delta that changes record 1 from what it says it was to b
Forged(before, times) ==
    [sequence |-> 1, base |-> Base, target |-> Version(2, (1 :> "b" @@ 2 :> "a")),
     operations |-> [i \in 1 .. times |-> [op |-> "replace", id |-> 1, before |-> before, after |-> [id |-> 1, content |-> "b"]]]]

Catalogs == {Version(1, <<>>), Version(1, (1 :> "b")), Version(1, (1 :> "a" @@ 2 :> "b")),
             Version(2, (1 :> "a" @@ 2 :> "a")), Version(2, (1 :> "a" @@ 2 :> "b" @@ 3 :> "a"))}
Promotion == {Limits(5000, 5000, 2, FALSE, TRUE, 2), Limits(10000, 6000, 1, TRUE, FALSE, 0)}
Made == {Forged("b", 1), Forged("a", 2)}
Specs == <<[id |-> 1, scheduledFor |-> 1], [id |-> 2, scheduledFor |-> 2]>>

D == INSTANCE CatalogDelta WITH
        Catalogs <- MCCatalogs, Policies <- MCLimits, Made <- MCMade, First <- MCFirst, Specs <- MCSpecs,
        MaxSequence <- 2, MaxTime <- 2, MaxStops <- 1, MaxJobs <- 2

----------------------------------------------------------------------------

reviewing == <<stage, options, observations, classifications, decisions, cases>>
scoring == <<asked, answered>>
matching == <<step, input, message, bundle, batch, results, pair>>

refreshing == <<active, expected, circulating, files, job, compiled, now, stops, jobs>>

Init == side \in {"refresh", "matching", "scoring", "review"} /\ R!Init /\ S!Init /\ M!Init /\ D!Init
Next ==
    /\ UNCHANGED side
    /\ \/ side = "refresh" /\ D!Next /\ UNCHANGED <<reviewing, scoring, matching>>
       \/ side = "matching" /\ M!Next /\ UNCHANGED <<reviewing, scoring, refreshing>>
       \/ side = "scoring" /\ S!Next /\ UNCHANGED <<reviewing, matching, refreshing>>
       \/ side = "review" /\ R!Next /\ UNCHANGED <<scoring, matching, refreshing>>
Spec == Init /\ [][Next]_<<side, reviewing, scoring, matching, refreshing>>

(***************************************************************************)
(* Whatever valid library, policy and overlay were loaded, an observation  *)
(* is escalated only as a candidate alert without a blocking pattern and,  *)
(* when anything speaks for the match, on a primary identifier; and is     *)
(* released only when nothing exact speaks for it (classify, chooseRoute   *)
(* and evaluate together).                                                 *)
(***************************************************************************)
DispositionIsEarned == R!DispositionIsEarned

(***************************************************************************)
(* No failure of the corpus or of the model loses decisions: a run whose   *)
(* source reference has no white space around it ends with a bundle that   *)
(* ValidateRunBundle accepts, with a case per observation (Run).           *)
(***************************************************************************)
DecisionsSurvive == R!DecisionsSurvive

(***************************************************************************)
(* A note repeats its decision's disposition and cites only passages that  *)
(* the tenant may read, that are approved and in force on the run's date,  *)
(* and that are no instructions (documentAllowed, Retrieve, ValidateNote). *)
(***************************************************************************)
NoteIsGrounded == R!NoteIsGrounded

(***************************************************************************)
(* What docs/design/phase6b-review-orchestration.md:20 says of a run: it   *)
(* does not fail once valid decisions exist (Run, ValidateRunBundle).      *)
(***************************************************************************)
AcceptedDecisionsKept == R!AcceptedDecisionsKept

(***************************************************************************)
(* Scores do not depend on the order of the candidates, and a fact that    *)
(* agrees with the subject never lowers a candidate's score or band        *)
(* (Score, setMatch, dateMatch, identifierMatch, strengthBand).            *)
(***************************************************************************)
AgreementNeverHurts == S!AgreementNeverHurts

(***************************************************************************)
(* The features of a pair of names are what they are named after: edit     *)
(* distance, longest matching in order, symmetric, and 10000 for equal     *)
(* names (scoreName, levenshtein, orderedTokenSimilarity).                 *)
(***************************************************************************)
NameScoresAgree == M!NameScoresAgree

(***************************************************************************)
(* What is on the list is found: every element that triggers a search has  *)
(* its result in order, and a record that equals the element is among the  *)
(* candidates, or a mismatch of type says why not (parser, plan,           *)
(* projector, matchers and runner together).                               *)
(***************************************************************************)
HitsAreReported == M!HitsAreReported

(***************************************************************************)
(* A delta built from the active catalog is accepted in its turn and       *)
(* reconstructs its target; and whatever deltas arrive, twice, late or     *)
(* tampered with, a package is compiled only in sequence, from the catalog *)
(* the caller stands at, within its policy, with the full rebuild when one *)
(* is due, and after its delta and its decision are on disk (BuildDelta,   *)
(* Apply, Evaluate, PrepareDelta).                                         *)
(***************************************************************************)
DeltasHold == D!BuiltIsAccepted /\ D!CompiledIsDecided
=============================================================================
