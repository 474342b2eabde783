--------------------------- MODULE FalsePositive ---------------------------
(***************************************************************************)
(* falsepositive: what makes a match look wrong, what speaks against       *)
(* releasing it, and the route hint both lead to.                          *)
(*                                                                         *)
(* An observation is a record                                              *)
(*   [case, trigger, route, exact, value, occurs, length, words, required, *)
(*    present, types, type, diagnostics, reasons, secondary, technical,    *)
(*    marks, score]:                                                       *)
(* the two texts appear as how one occurs in the other (occurs), the       *)
(* length of the watchlist value without blanks, the qualifiers it has     *)
(* (words) and the phrases of the built-in lists that the input, with the  *)
(* context markers, contains (marks).                                      *)
(*                                                                         *)
(* A library maps a pattern's code to [strength, hint, blockers].  A       *)
(* countervailing policy is [rules, secondary]; rules maps a typed exact   *)
(* route to [class, strength, eligible, triggers].                         *)
(***************************************************************************)
EXTENDS Integers, FiniteSets, FiniteSetsExt

BasisPoints == 0 .. 10000

Patterns == {"acronym_collision", "entity_type_mismatch", "legal_control_context", "missing_qualifier",
             "narrative_denial_context", "phonetic_transliteration_only", "routing_bic_collision",
             "substring_containment", "technical_system_artifact", "wrong_field_data_type"}
Hints == {"clear_eligible", "investigate", "manual_review", "escalation_candidate"}
TypedExact == {"exact_account", "exact_bic", "exact_date", "exact_lei"}
NameRoutes == {"normalized_name", "alias", "transliteration", "contextual_phrase_window"}
Classes == {"primary_identifier", "secondary_attribute", "secondary_support"}

\* normalizeText, tokens, compact: the watchlist value is the input, is a run of its tokens, is only inside it, or is not in it
Occurrences == {"equal", "tokens", "inside", "absent"}
Contained(o) == o.occurs # "absent"

ValidatePatternLibrary(library) ==
    /\ DOMAIN library # {}
    /\ \A code \in DOMAIN library : library[code].strength \in BasisPoints /\ library[code].hint \in Hints

validateCountervailingRule(rule) ==
    /\ rule.class \in Classes
    /\ rule.strength \in BasisPoints
    /\ rule.triggers # {} /\ rule.triggers \subseteq {"candidate_alert", "supporting_evidence"}
    /\ rule.eligible => rule.class = "primary_identifier"

\* the policy's rules are a function of the route, so that the code's duplicate check is part of the type
ValidateCountervailingPolicy(policy) ==
    /\ DOMAIN policy.rules = TypedExact
    /\ \A route \in TypedExact : validateCountervailingRule(policy.rules[route])
    /\ policy.secondary.class = "secondary_support"
    /\ policy.secondary.strength \in BasisPoints
    /\ ~policy.secondary.eligible

NewClassifier(library, policy) ==
    ValidatePatternLibrary(library) /\ Patterns \subseteq DOMAIN library /\ ValidateCountervailingPolicy(policy)

----------------------------------------------------------------------------
(* The ten patterns.                                                       *)

strictSubstring(o) == o.length >= 3 /\ o.occurs = "inside"

wrongFieldDataType(o) ==
    /\ o.route \in NameRoutes
    /\ o.value \in {"account_identifier", "iban", "payment_reference", "uetr", "amount", "count", "datetime"}

entityTypeMismatch(o) ==
    "entity_type_mismatch" \in o.diagnostics \/ (o.types # {} /\ o.type \notin o.types)

\* without a stated requirement the qualifiers of the watchlist value itself are required
missingQualifiers(o) ==
    (IF o.required = {} THEN o.words ELSE o.required) \ o.present

routingBICCollision(o) ==
    o.value = "bic" /\ o.route # "exact_bic" /\ o.length \in 2 .. 5 /\ Contained(o)

acronymCollision(o) ==
    /\ o.length \in 2 .. 5
    /\ ~(o.exact /\ o.route = "exact_bic")
    /\ o.value \in {"payment_reference", "account_identifier", "iban", "uetr"}
    /\ Contained(o)

phoneticTransliterationOnly(o) ==
    /\ ~o.exact /\ o.secondary = {} /\ o.reasons # {}
    /\ o.reasons \subseteq {"name_fuzzy_phonetic", "transliteration_fold_exact", "transliteration_only"}

narrativeDenialContext(o) == "narrative_denial_context" \in o.diagnostics \/ "denial" \in o.marks

technicalArtifact(o) == o.technical # {} \/ {"artifact", "padding"} \cap o.marks # {}

legalControlContext(o) == "control" \in o.marks

Detected(o) ==
    {code \in Patterns :
        CASE code = "substring_containment" -> strictSubstring(o)
          [] code = "wrong_field_data_type" -> wrongFieldDataType(o)
          [] code = "entity_type_mismatch" -> entityTypeMismatch(o)
          [] code = "missing_qualifier" -> missingQualifiers(o) # {}
          [] code = "routing_bic_collision" -> routingBICCollision(o)
          [] code = "acronym_collision" -> acronymCollision(o)
          [] code = "phonetic_transliteration_only" -> phoneticTransliterationOnly(o)
          [] code = "narrative_denial_context" -> narrativeDenialContext(o)
          [] code = "technical_system_artifact" -> technicalArtifact(o)
          [] code = "legal_control_context" -> legalControlContext(o)}

----------------------------------------------------------------------------
(* What speaks against a release.                                          *)

\* exactRouteRule: the typed exact route's rule, when the trigger may use it
exactRouteRule(policy, o) ==
    {policy.rules[route] : route \in {r \in TypedExact \cap {o.route} : o.trigger \in policy.rules[r].triggers}}

\* at most two signals, one of an exact match and one of the secondary identifiers
countervailingSignals(policy, o) ==
    {[kind |-> "exact", class |-> r.class, strength |-> r.strength, eligible |-> r.eligible] :
        r \in IF o.exact THEN exactRouteRule(policy, o) ELSE {}}
    \cup (IF o.secondary = {} THEN {} ELSE
          {[kind |-> "secondary", class |-> policy.secondary.class, strength |-> policy.secondary.strength,
            eligible |-> policy.secondary.eligible]})

hasEscalationEligibleSignal(signals) == \E s \in signals : s.eligible /\ s.class = "primary_identifier"

chooseRoute(hints, signals, trigger) ==
    IF signals # {}
    THEN IF hints \cap {"clear_eligible", "manual_review", "investigate"} # {} THEN "investigate"
         ELSE IF trigger = "candidate_alert" /\ hasEscalationEligibleSignal(signals)
              THEN "escalation_candidate" ELSE "investigate"
    ELSE IF "manual_review" \in hints THEN "manual_review"
         ELSE IF "clear_eligible" \in hints THEN "clear_eligible" ELSE "investigate"

Capped(total) == IF total > 10000 THEN 10000 ELSE total
PatternStrength(library, codes) == MapThenSumSet(LAMBDA c : library[c].strength, codes)

classify(library, policy, o) ==
    LET codes == Detected(o)
        signals == countervailingSignals(policy, o)
        releasing == {c \in codes : library[c].hint = "clear_eligible"}
        unfit == IF signals = {} THEN "fit"
                 ELSE IF o.trigger # "candidate_alert" THEN "trigger"
                 ELSE IF ~hasEscalationEligibleSignal(signals) THEN "primary" ELSE "fit"
    IN  [observation |-> o, patterns |-> codes, signals |-> signals,
         hint |-> chooseRoute({library[c].hint : c \in codes}, signals, o.trigger),
         blockers |-> UNION {library[c].blockers : c \in codes}
                      \cup (CASE unfit = "trigger" -> {"supporting_evidence_cannot_escalate"}
                              [] unfit = "primary" -> {"primary_identifier_required"}
                              [] OTHER -> {}),
         requires |-> {"secondary_identifier" : c \in codes \cap {"phonetic_transliteration_only"}}
                      \cup {"legal_control_documentation" : c \in codes \cap {"legal_control_context"}}
                      \cup (CASE unfit = "trigger" -> {"qualifying_candidate_alert"}
                              [] unfit = "primary" -> {"primary_identifier"}
                              [] OTHER -> {}),
         release |-> Capped(PatternStrength(library, releasing)),
         support |-> Capped(MapThenSumSet(LAMBDA s : s.strength, signals))]

----------------------------------------------------------------------------
(* Batches.  Observations are sorted and their ids are digests of their    *)
(* content, so that a canonical batch is a set.                            *)

ValidateObservation(o) == o.score \in BasisPoints

ValidateObservationBatch(observations) ==
    observations # {} /\ \A o \in observations : ValidateObservation(o)

\* what the classifier promises of its own output; the policy engine checks it again on input
ValidateClassification(c) ==
    /\ ValidateObservation(c.observation)
    /\ c.hint \in Hints
    /\ \A s \in c.signals : s.class \in Classes /\ s.strength \in BasisPoints
                            /\ (s.eligible => s.class = "primary_identifier")
    /\ c.hint = "escalation_candidate" =>
          c.observation.trigger = "candidate_alert" /\ hasEscalationEligibleSignal(c.signals)

ValidateClassificationBatch(classifications) == \A c \in classifications : ValidateClassification(c)

ClassifyBatch(library, policy, observations) == {classify(library, policy, o) : o \in observations}

summarizeClassifications(classifications) ==
    [total |-> Cardinality(classifications),
     patterns |-> [p \in Patterns |-> Cardinality({c \in classifications : p \in c.patterns})],
     hints |-> [h \in Hints |-> Cardinality({c \in classifications : c.hint = h})]]
=============================================================================
