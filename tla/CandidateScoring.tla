-------------------------- MODULE CandidateScoring --------------------------
(***************************************************************************)
(* candidatescoring: the deterministic score of the candidates that        *)
(* retrieval found for a subject, as candidate-score and the screening API *)
(* compute it.                                                             *)
(*                                                                         *)
(* A subject is [identifiers, dates, countries, type]; a candidate is the  *)
(* same with an id and shapes, the ways in which a name of the subject and *)
(* one of its own are alike.  A date is <<year, day>>, with day zero when  *)
(* only the year is known.  A policy is [weights, floor, ceiling, weak,    *)
(* review, strong, items, profile], weights by reason code.  An id is a    *)
(* number, zero for one that is blank.                                     *)
(***************************************************************************)
EXTENDS Integers, Sequences, FiniteSets, FiniteSetsExt, SequencesExt

CONSTANTS Policies, Subjects,
          Batches,          \* the batches of requests: an id of the batch, and an id and a list of candidates of each item
          Profiles,         \* normalization profiles a lineage may name
          MaxCandidates     \* the bound of a request, 1000 in the code

VARIABLES asked,     \* the requests of a batch
          answered   \* their responses, none when the batch is refused

vars == <<asked, answered>>

Supports == {"typed_identifier_exact", "name_exact", "name_concatenation_normalized", "name_token_set_exact",
             "name_particle_stripped", "name_prefix", "name_containment", "date_of_birth_exact",
             "date_of_birth_year_exact", "country_exact", "entity_type_exact"}
Conflicts == {"date_of_birth_conflict", "country_conflict", "entity_type_conflict"}

validatePolicy(p) ==
    /\ p.items \in 1 .. 64
    /\ p.floor >= 0 /\ p.ceiling > p.floor
    /\ p.floor <= p.weak /\ p.weak <= p.review /\ p.review <= p.strong /\ p.strong <= p.ceiling
    /\ \A r \in Supports : p.weights[r] >= 0
    /\ \A r \in Conflicts : p.weights[r] <= 0

----------------------------------------------------------------------------
(* The evidence for one candidate, each operator giving at most one reason.*)

identifierMatch(s, c) == IF s.identifiers \cap c.identifiers # {} THEN {"typed_identifier_exact"} ELSE {}

\* the shapes of a pair of names, the best first
NameShapes == <<"name_exact", "name_concatenation_normalized", "name_token_set_exact", "name_particle_stripped",
                "name_prefix", "name_containment">>

bestNameMatch(c) ==
    LET alike == {i \in DOMAIN NameShapes : NameShapes[i] \in c.shapes}
    IN  IF alike = {} THEN {} ELSE {NameShapes[Min(alike)]}

dateMatch(s, c) ==
    IF s.dates = {} \/ c.dates = {} THEN {}
    ELSE IF s.dates \cap c.dates # {} THEN {"date_of_birth_exact"}
    ELSE IF \E d \in s.dates, e \in c.dates : d[1] = e[1] THEN {"date_of_birth_year_exact"}
    ELSE {"date_of_birth_conflict"}

\* mutant: only the first country of each list is compared
setMatch_First(s, c) ==
    IF s.countries = {} \/ c.countries = {} THEN {}
    ELSE IF Min(s.countries) = Min(c.countries) THEN {"country_exact"} ELSE {"country_conflict"}

setMatch(s, c) ==
    IF s.countries = {} \/ c.countries = {} THEN {}
    ELSE IF s.countries \cap c.countries # {} THEN {"country_exact"} ELSE {"country_conflict"}

\* type zero is none
TypeMatch(s, c) ==
    IF s.type = 0 \/ c.type = 0 THEN {}
    ELSE IF s.type = c.type THEN {"entity_type_exact"} ELSE {"entity_type_conflict"}

\* the reasons, in the order in which scoreCandidate adds them
Reasons(s, c) ==
    SetToSeq(identifierMatch(s, c)) \o SetToSeq(bestNameMatch(c)) \o SetToSeq(dateMatch(s, c))
    \o SetToSeq(setMatch(s, c)) \o SetToSeq(TypeMatch(s, c))

strengthBand(score, p) ==
    IF score >= p.strong THEN "strong_candidate"
    ELSE IF score >= p.review THEN "review_candidate"
    ELSE IF score >= p.weak THEN "weak_candidate" ELSE "no_candidate_support"

Bounded(total, p) == IF total < p.floor THEN p.floor ELSE IF total > p.ceiling THEN p.ceiling ELSE total

\* the components keep every reason that counts, the evidence only the first MaxEvidenceItems
scoreCandidate(s, c, p) ==
    LET reasons == Reasons(s, c)
        components == SelectSeq(reasons, LAMBDA r : p.weights[r] # 0)
        total == MapThenSumSet(LAMBDA i : p.weights[components[i]], DOMAIN components)
    IN  [id |-> c.id, score |-> Bounded(total, p), band |-> strengthBand(Bounded(total, p), p),
         identifier |-> identifierMatch(s, c) # {}, name |-> bestNameMatch(c) = {"name_exact"},
         components |-> components,
         evidence |-> SubSeq(reasons, 1, IF Len(reasons) > p.items THEN p.items ELSE Len(reasons))]

Before(a, b) ==
    IF a.score # b.score THEN a.score > b.score
    ELSE IF a.identifier # b.identifier THEN a.identifier
    ELSE IF a.name # b.name THEN a.name ELSE a.id < b.id

----------------------------------------------------------------------------

validateRequest(request) ==
    /\ request.id # 0
    /\ \A c \in Range(request.candidates) : c.id # 0
    /\ request.candidates # <<>> /\ Len(request.candidates) <= MaxCandidates
    /\ request.profile = request.policy.profile

Duplicate(items) == \E i, j \in DOMAIN items : i # j /\ items[i].id = items[j].id

Refused == [ok |-> FALSE, results |-> <<>>]

\* sort.SliceStable: of two results of which neither comes before the other the one that was first stays so
StablySorted(results) ==
    LET order == SetToSortSeq(DOMAIN results, LAMBDA i, j : \/ Before(results[i], results[j])
                                                            \/ ~Before(results[j], results[i]) /\ i < j)
    IN  [k \in DOMAIN order |-> results[order[k]]]

Score(request) ==
    IF ~validateRequest(request) \/ Duplicate(request.candidates) THEN Refused
    ELSE LET candidates == request.candidates IN
         [ok |-> TRUE,
          results |-> StablySorted([i \in DOMAIN candidates |-> scoreCandidate(request.subject, candidates[i], request.policy)])]

\* one refused item refuses the batch, and so do two items of one id; the items are otherwise independent
ScoreBatch(id, requests) ==
    LET answers == [i \in DOMAIN requests |-> Score(requests[i])]
    IN  IF \/ id = 0 \/ requests = <<>> \/ Duplicate(requests)
           \/ \E i \in DOMAIN requests : ~answers[i].ok
        THEN <<>> ELSE answers

Ask ==
    /\ asked = <<>> /\ answered = <<>>
    /\ \E p \in Policies, s \in Subjects, batch \in Batches, profile \in Profiles :
          /\ validatePolicy(p)                    \* NewEngine
          /\ asked' = [i \in DOMAIN batch.items |->
                          [id |-> batch.items[i].id, policy |-> p, subject |-> s,
                           candidates |-> batch.items[i].candidates, profile |-> profile]]
          /\ answered' = ScoreBatch(batch.id, asked')

Init == asked = <<>> /\ answered = <<>>
Next == Ask
Spec == Init /\ [][Next]_vars

----------------------------------------------------------------------------

(***************************************************************************)
(* The answer does not depend on the order in which retrieval listed the   *)
(* candidates, and facts that agree never lower a score: a candidate that  *)
(* has a country or an identifier of the subject more scores no less and   *)
(* keeps or improves its band, and one without the contradicting facts     *)
(* does too (Score, setMatch, dateMatch, identifierMatch, strengthBand).   *)
(***************************************************************************)
AgreementNeverHurts ==
    \A i \in DOMAIN answered :
        LET request == asked[i]
            s == request.subject
            p == request.policy
            Of(c) == scoreCandidate(s, c, p).score
        IN  /\ Score([request EXCEPT !.candidates = Reverse(@)]) = answered[i]
            /\ \A c \in Range(request.candidates) :
                  /\ \A x \in s.countries : Of([c EXCEPT !.countries = @ \cup {x}]) >= Of(c)
                  /\ \A x \in s.identifiers : Of([c EXCEPT !.identifiers = @ \cup {x}]) >= Of(c)
                  /\ \A r \in Conflicts : r \in Range(Reasons(s, c)) =>
                        Of(CASE r = "country_conflict" -> [c EXCEPT !.countries = {}]
                             [] r = "date_of_birth_conflict" -> [c EXCEPT !.dates = {}]
                             [] OTHER -> [c EXCEPT !.type = 0]) >= Of(c)
=============================================================================
