------------------------------ MODULE ReviewRun ------------------------------
(***************************************************************************)
(* revieworchestrator.Run: matcher results become observations, the        *)
(* observations classifications, those decisions, and every decision a     *)
(* case with citations and perhaps a note of a model.  A failure before    *)
(* the decisions ends the run; a failure after them is written into the    *)
(* case.  The stand-alone commands (false-positive-classify,               *)
(* policy-evaluate) start from a file of observations and end with the     *)
(* decisions.                                                              *)
(*                                                                         *)
(* A hit is [kind, observation]: a candidate or a diagnostic of a matcher  *)
(* result.                                                                 *)
(***************************************************************************)
EXTENDS Retrieval

CONSTANTS Configs,   \* [library, countervailing, policy, overlay]: what the commands were started with
          HitSets,   \* the sets of hits a matcher result batch may have
          Files,     \* the observations a file may have
          Corpus, Tenants, Dates,
          References,   \* a function from the source references an operator gives to what TrimSpace leaves of them
          Drafts,    \* what the model may send
          Profile

VARIABLES stage,            \* where the run is
          options,          \* the configuration and the run's options, the source reference as it was given
          observations, classifications, decisions,
          cases             \* the finished cases, by decision

vars == <<stage, options, observations, classifications, decisions, cases>>

NoDraft == [decodes |-> FALSE, disposition |-> "none", route |-> "none", claims |-> {}, cites |-> {}, says |-> {}]
NoCase == [retrieval |-> "none", note |-> "none", citations |-> {}, draft |-> NoDraft, warned |-> FALSE]

----------------------------------------------------------------------------

\* ObservationsFromMatcherResults: what a matcher does not tell stays empty, and a diagnostic is never exact
Projected(hit) ==
    [hit.observation EXCEPT
        !.exact = @ /\ hit.kind = "candidate",
        !.diagnostics = IF hit.kind = "candidate" THEN {} ELSE @,
        !.required = {}, !.secondary = {}, !.technical = {}]

\* RunOptions.CaseID; zero is none
Wanted(o, case) == case = 0 \/ o.case = case

\* CanonicalizeObservationBatch trims the reference of the observations; the run's own stays as it was given
BatchReference == References[options.reference]

Fail == stage' = "failed" /\ UNCHANGED <<observations, classifications, decisions, cases>>

\* New and the first part of Run: options, observations, the filter by case, the check of the batch
Start ==
    /\ stage = "start"
    /\ \E config \in Configs, tenant \in Tenants \cup {""}, at \in Dates, case \in 0 .. 1, hits \in HitSets,
          reference \in DOMAIN References :
          /\ NewClassifier(config.library, config.countervailing)
          /\ Makeable(config.policy, config.overlay)
          /\ NewRetriever(Corpus) /\ ValidateProfile(Profile)
          /\ options' = [config |-> config, tenant |-> tenant, at |-> at, source |-> "matcher", reference |-> reference]
          /\ LET found == {o \in {Projected(h) : h \in hits} : Wanted(o, case)} IN
             IF tenant # "" /\ References[reference] # "" /\ ValidateObservationBatch(found)
             THEN /\ stage' = "observed" /\ observations' = found
                  /\ UNCHANGED <<classifications, decisions, cases>>
             ELSE Fail

\* LoadObservationBatch of the stand-alone classifier, which compares no references afterwards
Load ==
    /\ stage = "start"
    /\ \E config \in Configs, o \in Files :
          /\ NewClassifier(config.library, config.countervailing)
          /\ Makeable(config.policy, config.overlay)
          /\ options' = [config |-> config, tenant |-> "", at |-> 0, source |-> "file", reference |-> ""]
          /\ IF ValidateObservationBatch({o})
             THEN /\ stage' = "observed" /\ observations' = {o}
                  /\ UNCHANGED <<classifications, decisions, cases>>
             ELSE Fail

Classify ==
    /\ stage = "observed"
    /\ LET found == ClassifyBatch(options.config.library, options.config.countervailing, observations) IN
       IF ValidateClassificationBatch(found)
       THEN stage' = "classified" /\ classifications' = found /\ UNCHANGED <<observations, decisions, cases>>
       ELSE Fail
    /\ UNCHANGED options

Decide ==
    /\ stage = "classified"
    /\ LET made == EvaluateBatch(options.config.policy, options.config.overlay, classifications) IN
       IF ValidateDecisionBatch(made)
       THEN /\ stage' = IF options.source = "file" THEN "done" ELSE "decided"
            /\ decisions' = made
            /\ cases' = [d \in made |-> NoCase]
            /\ UNCHANGED <<observations, classifications>>
       ELSE Fail
    /\ UNCHANGED options

\* the first case that is not finished; cases do not depend on each other, so that their order is left open
Current(status) == {d \in decisions : cases[d].retrieval = status /\ cases[d].note = "none"}

CaseQuery(d) == QueryFromDecision(d, options.tenant, options.at)

RetrieveCase ==
    /\ stage = "decided"
    /\ \E d \in Current("none") :
          LET citations == Retrieve(Corpus, CaseQuery(d)) IN
          cases' = [cases EXCEPT ![d] =
              IF ValidateCitationPackage(CaseQuery(d), citations)
              THEN [@ EXCEPT !.retrieval = "completed", !.citations = citations]
              ELSE [@ EXCEPT !.retrieval = "failed", !.note = "retrieval_failed", !.warned = TRUE]]
    /\ UNCHANGED <<stage, options, observations, classifications, decisions>>

\* mutant: a failed generation leaves no warning behind
NoteCase_Silent ==
    /\ stage = "decided"
    /\ \E d \in Current("completed"), draft \in Drafts \cup {NoDraft} :
          cases' = [cases EXCEPT ![d] =
              CASE d.route = "auto_release" -> [@ EXCEPT !.note = "skipped_auto_clear"]
                [] d.route # "auto_release" /\ draft = NoDraft -> [@ EXCEPT !.note = "disabled"]
                [] OTHER -> IF Generated(draft, d, CaseQuery(d), @.citations, Profile)
                            THEN [@ EXCEPT !.note = "generated", !.draft = draft]
                            ELSE [@ EXCEPT !.note = "generation_failed"]]
    /\ UNCHANGED <<stage, options, observations, classifications, decisions>>

\* the note of a case whose citations are there; no provider: "disabled"
NoteCase ==
    /\ stage = "decided"
    /\ \E d \in Current("completed"), draft \in Drafts \cup {NoDraft} :
          cases' = [cases EXCEPT ![d] =
              CASE d.route = "auto_release" -> [@ EXCEPT !.note = "skipped_auto_clear"]
                [] d.route # "auto_release" /\ draft = NoDraft -> [@ EXCEPT !.note = "disabled"]
                [] OTHER -> IF Generated(draft, d, CaseQuery(d), @.citations, Profile)
                            THEN [@ EXCEPT !.note = "generated", !.draft = draft]
                            ELSE [@ EXCEPT !.note = "generation_failed", !.warned = TRUE]]
    /\ UNCHANGED <<stage, options, observations, classifications, decisions>>

ValidateCase(d, c) ==
    /\ \/ c.retrieval = "completed" /\ ValidateCitationPackage(CaseQuery(d), c.citations)
       \/ c.retrieval = "failed" /\ c.citations = {} /\ c.warned /\ c.note = "retrieval_failed"
    /\ CASE c.note = "generated" -> /\ c.draft # NoDraft /\ c.citations # {}
                                    /\ c.draft.disposition = d.disposition /\ c.draft.route = d.route
         [] c.note \in {"disabled", "skipped_auto_clear"} ->
                /\ c.draft = NoDraft /\ c.retrieval = "completed"
                /\ c.note = "skipped_auto_clear" => d.route = "auto_release"
         [] c.note = "retrieval_failed" -> c.draft = NoDraft /\ c.retrieval = "failed"
         [] c.note = "generation_failed" -> c.draft = NoDraft /\ c.retrieval = "completed" /\ c.warned
         [] OTHER -> FALSE

ValidateRunBundle ==
    /\ ValidateObservationBatch(observations)
    /\ ValidateClassificationBatch(classifications)
    /\ ValidateDecisionBatch(decisions)
    /\ BatchReference = options.reference
    /\ {d.classification.observation : d \in decisions} = observations
    /\ DOMAIN cases = decisions
    /\ \A d \in decisions : ValidateCase(d, cases[d])

Finish ==
    /\ stage = "decided"
    /\ \A d \in decisions : cases[d].note # "none"
    /\ IF ValidateRunBundle
       THEN stage' = "done" /\ UNCHANGED <<observations, classifications, decisions, cases>>
       ELSE Fail
    /\ UNCHANGED options

----------------------------------------------------------------------------

Init == /\ stage = "start"
        /\ options = [config |-> "none", tenant |-> "", at |-> 0, source |-> "none", reference |-> ""]
        /\ observations = {} /\ classifications = {} /\ decisions = {}
        /\ cases = <<>>

Next == Start \/ Load \/ Classify \/ Decide \/ RetrieveCase \/ NoteCase \/ Finish

Spec == Init /\ [][Next]_vars

----------------------------------------------------------------------------

(***************************************************************************)
(* Whatever valid library, policy and overlay were loaded, an observation  *)
(* is escalated only as a candidate alert in which no pattern with a       *)
(* blocker was seen, and, when anything speaks for the match, only with an *)
(* exact match by a route the policy counts as a primary identifier; and   *)
(* it is released only when neither an exact match on a typed route that   *)
(* its trigger may use nor a secondary identifier speaks for the match     *)
(* (classify, chooseRoute and evaluate together).                          *)
(***************************************************************************)
DispositionIsEarned ==
    \A d \in decisions :
        LET o == d.classification.observation
            rules == options.config.countervailing.rules
            exact == o.exact /\ o.route \in TypedExact /\ o.trigger \in rules[o.route].triggers
        IN  /\ d.disposition = "escalate" =>
                  /\ o.trigger = "candidate_alert"
                  /\ \A p \in Detected(o) : options.config.library[p].blockers = {}
                  /\ exact \/ o.secondary # {} => exact /\ rules[o.route].eligible
            /\ d.route = "auto_release" => ~exact /\ o.secondary = {}

(***************************************************************************)
(* A note that is part of a case repeats the decision's disposition and    *)
(* cites only passages of documents that this tenant may read, that are    *)
(* approved, in scope and in force on the run's date (it is neither before *)
(* their first day nor after their last), and that are not instructions    *)
(* (documentAllowed, Retrieve, ValidateNote).                              *)
(***************************************************************************)
NoteIsGrounded ==
    \A d \in DOMAIN cases : cases[d].note = "generated" =>
        /\ cases[d].draft.disposition = d.disposition
        /\ \A id \in cases[d].draft.cites \cup UNION cases[d].draft.claims :
              \E doc \in Corpus : \E k \in doc.chunks :
                  /\ k.id = id
                  /\ doc.tenant \in {"", options.tenant} /\ "transaction_screening" \in doc.scopes
                  /\ doc.approval = "approved"
                  /\ doc.from # 0 => doc.from <= options.at
                  /\ doc.to # 0 => options.at <= doc.to
                  /\ ~k.instruction

(***************************************************************************)
(* Once the decisions are made no failure of the corpus or of the model    *)
(* loses them: when the run's source reference has no white space around   *)
(* it, the run ends with a bundle that its own validation accepts and that *)
(* has a case for every observation (Run, ValidateRunBundle).              *)
(***************************************************************************)
DecisionsSurvive ==
    /\ decisions # {} /\ BatchReference = options.reference => stage \in {"decided", "done"}
    /\ stage = "done" => {d.classification.observation : d \in decisions} = observations

(***************************************************************************)
(* What docs/design/phase6b-review-orchestration.md:20 says: a run fails   *)
(* while no valid decision exists, and later failures preserve the         *)
(* accepted decisions.  The code fails a run whose source reference has    *)
(* white space around it when the bundle is validated (Run).               *)
(***************************************************************************)
AcceptedDecisionsKept == decisions # {} => stage # "failed"

=============================================================================
