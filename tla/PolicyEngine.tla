---------------------------- MODULE PolicyEngine ----------------------------
(***************************************************************************)
(* policyengine: a classification's disposition and review route under a   *)
(* policy, and the policy a tenant's overlay makes of it.                  *)
(*                                                                         *)
(* A policy is [weights, clearMax, escalateMin, minRelease, minSupport,    *)
(* autoClear, escalation, patterns, blockers, hints]: patterns maps a code *)
(* to [adjust, max], blockers some codes to a disposition, hints a route   *)
(* hint to [route, max].  An overlay is a set of overrides, each           *)
(* <<field, value>> or <<"pattern", code, field, value>>, with the id of   *)
(* its base policy.  A reason code is named after the rule it comes from.  *)
(***************************************************************************)
EXTENDS FalsePositive

Dispositions == {"clear", "investigate", "escalate"}
ReviewRoutes == {"auto_release", "standard_review", "manual_review", "escalation_review"}

dispositionRank(d) == CASE d = "clear" -> 0 [] d = "investigate" -> 1 [] d = "escalate" -> 2

\* minDisposition, over all the rules that apply
Strictest(dispositions) ==
    CHOOSE d \in dispositions : \A e \in dispositions : dispositionRank(d) <= dispositionRank(e)

validatePatternRule(rule) == rule.adjust \in -10000 .. 10000 /\ rule.max \in Dispositions

ValidatePolicy(policy) ==
    /\ \A w \in {"screening", "support", "release"} : policy.weights[w] \in BasisPoints
    /\ policy.clearMax \in BasisPoints /\ policy.escalateMin \in BasisPoints
    /\ policy.clearMax < policy.escalateMin
    /\ policy.minRelease \in BasisPoints /\ policy.minSupport \in BasisPoints
    /\ Patterns \subseteq DOMAIN policy.patterns
    /\ \A code \in DOMAIN policy.patterns : validatePatternRule(policy.patterns[code])
    /\ \A code \in DOMAIN policy.blockers : policy.blockers[code] \in Dispositions
    /\ \A hint \in Hints : policy.hints[hint].max \in Dispositions /\ policy.hints[hint].route \in ReviewRoutes

ApplyOverlay(policy, overlay) ==
    LET Over(field, value) == IF \E v \in overlay.set : v[1] = field
                              THEN (CHOOSE v \in overlay.set : v[1] = field)[2] ELSE value
        Pattern(code, field, value) == IF \E v \in overlay.set : v[1] = "pattern" /\ v[2] = code /\ v[3] = field
                                       THEN (CHOOSE v \in overlay.set : v[1] = "pattern" /\ v[2] = code /\ v[3] = field)[4]
                                       ELSE value
    IN  [policy EXCEPT
            !.weights = [w \in DOMAIN @ |-> Over(w, @[w])],
            !.clearMax = Over("clearMax", @), !.escalateMin = Over("escalateMin", @),
            !.minRelease = Over("minRelease", @), !.minSupport = Over("minSupport", @),
            !.autoClear = Over("autoClear", @), !.escalation = Over("escalation", @),
            !.patterns = [c \in DOMAIN @ |-> [adjust |-> Pattern(c, "adjust", @[c].adjust),
                                              max |-> Pattern(c, "max", @[c].max)]]]

\* a policy is also what a decision refers to: its id and checksum are the policy itself
ValidateOverlay(overlay, policy) ==
    /\ overlay.base = policy
    /\ \A v \in overlay.set :
          \/ v[1] \in {"screening", "support", "release", "clearMax", "escalateMin", "minRelease", "minSupport"}
             /\ v[2] \in BasisPoints
          \/ v[1] \in {"autoClear", "escalation"} /\ v[2] \in BOOLEAN
          \/ v[1] = "pattern" /\ v[2] \in DOMAIN policy.patterns
             /\ (IF v[3] = "adjust" THEN v[4] \in -10000 .. 10000 ELSE v[4] \in Dispositions)
    /\ LET effective == ApplyOverlay(policy, overlay) IN effective.clearMax < effective.escalateMin

\* NewEngine: the effective policy of an engine that could be made
Makeable(policy, overlay) == ValidatePolicy(policy) /\ (overlay.set = {} \/ ValidateOverlay(overlay, policy))
Effective(policy, overlay) == IF overlay.set = {} THEN policy ELSE ApplyOverlay(policy, overlay)

----------------------------------------------------------------------------

Weighted(input, weight) == (input * weight) \div 10000
Clamp(score) == IF score < 0 THEN 0 ELSE IF score > 10000 THEN 10000 ELSE score

BeforeClamp(policy, c) ==
    Weighted(c.observation.score, policy.weights.screening)
    + Weighted(c.support, policy.weights.support)
    - Weighted(c.release, policy.weights.release)
    + MapThenSumSet(LAMBDA p : policy.patterns[p].adjust, c.patterns)

Maximum(policy, c) ==
    Strictest({"escalate", policy.hints[c.hint].max}
              \cup {policy.patterns[p].max : p \in c.patterns}
              \cup {policy.blockers[b] : b \in c.blockers \cap DOMAIN policy.blockers})

\* mutant: the gate trusts the maximum of the rules and does not look at the blockers
Escalates_NoBlockers(policy, c, score) ==
    /\ score >= policy.escalateMin /\ policy.escalation
    /\ c.observation.trigger = "candidate_alert" /\ c.support >= policy.minSupport
    /\ dispositionRank(Maximum(policy, c)) >= dispositionRank("escalate")

Escalates(policy, c, score) ==
    /\ score >= policy.escalateMin
    /\ policy.escalation
    /\ c.observation.trigger = "candidate_alert"
    /\ c.support >= policy.minSupport
    /\ c.blockers = {}
    /\ dispositionRank(Maximum(policy, c)) >= dispositionRank("escalate")

Clears(policy, c, score) ==
    /\ policy.autoClear
    /\ c.hint = "clear_eligible"
    /\ c.release >= policy.minRelease
    /\ score <= policy.clearMax
    /\ dispositionRank(Maximum(policy, c)) >= dispositionRank("clear")

evaluate(policy, c) ==
    LET score == Clamp(BeforeClamp(policy, c))
        disposition == IF Escalates(policy, c, score) THEN "escalate"
                       ELSE IF Clears(policy, c, score) THEN "clear" ELSE "investigate"
        barred == disposition = "investigate" /\ ~policy.autoClear /\ c.hint = "clear_eligible"
        stopped == disposition # "escalate" /\ ~policy.escalation
    IN  [classification |-> c, score |-> score, disposition |-> disposition,
         route |-> CASE disposition = "escalate" -> "escalation_review"
                     [] disposition = "clear" -> "auto_release"
                     [] OTHER -> IF c.hint = "manual_review" THEN "manual_review" ELSE "standard_review",
         blockers |-> c.blockers \cup (IF stopped THEN {"policy_escalation_disabled"} ELSE {})
                                 \cup (IF barred THEN {"policy_auto_clear_disabled"} ELSE {}),
         required |-> c.requires,
         reasons |-> c.patterns \cup (c.blockers \cap DOMAIN policy.blockers) \cup {c.hint, disposition}
                     \cup (IF disposition = "investigate" THEN {"threshold_score"} ELSE {})
                     \cup (IF stopped THEN {"escalation_disabled"} ELSE {})
                     \cup (IF barred THEN {"auto_clear_disabled"} ELSE {})
                     \cup (IF c.observation.trigger = "supporting_evidence"
                           THEN {"supporting_evidence_non_escalation"} ELSE {})]

ValidateDecision(d) ==
    /\ ValidateClassification(d.classification)
    /\ d.score \in BasisPoints /\ d.disposition \in Dispositions /\ d.route \in ReviewRoutes
    /\ d.reasons # {}

ValidateDecisionBatch(decisions) == decisions # {} /\ \A d \in decisions : ValidateDecision(d)

EvaluateBatch(policy, overlay, classifications) ==
    {evaluate(Effective(policy, overlay), c) : c \in classifications}

summarize(decisions) ==
    [total |-> Cardinality(decisions),
     dispositions |-> [x \in Dispositions |-> Cardinality({d \in decisions : d.disposition = x})],
     routes |-> [x \in ReviewRoutes |-> Cardinality({d \in decisions : d.route = x})]]
=============================================================================
