----------------------------- MODULE Assistance -----------------------------
(***************************************************************************)
(* Case assistance: assistancerag.Store retrieves passages for a case,     *)
(* lets a model draft, lets a guardian model judge the draft, and records  *)
(* the outcome; a person accepts or rejects the record.  Requests arrive   *)
(* through the review console, which compares requester and reviewer, and  *)
(* through the assistance API, which copies to PostgreSQL.  Files are      *)
(* replaced atomically, several per operation, under a lock directory that *)
(* is held while the models answer.                                        *)
(***************************************************************************)
EXTENDS Naturals, Sequences, SequencesExt, FiniteSets

CONSTANTS Requests,     \* [op, via, key, actor, tenant] and, for a review, [of, action]
          Corpus,       \* passages: [id, tenant, title, text]
          CaseTenant,
          Terms,        \* the case's terms, one set per revision
          TopK,
          Outputs,      \* what a model may answer: [large, schema, disposition, cites]
          Verdicts,     \* what the guardian may answer: [schema, grounded, claims]
          Unavailable, Nothing, PostgresRequired,
          MaxSends, MaxStops

VARIABLES revision,   \* of the case
          records,    \* assistance id -> record
          reviews,    \* assistance id -> review events, oldest first
          receipts,   \* (scope, key) -> receipt
          audit,      \* (kind, id), in order
          locked,
          run,        \* the requests that are being handled
          told,       \* requests answered with success, and the id
          sends, stops,
          torn        \* operations that a stop cut off after their first write

vars == <<revision, records, reviews, receipts, audit, locked, run, told, sends, stops, torn>>

Put(f, x, y) == [z \in DOMAIN f \cup {x} |-> IF z = x THEN y ELSE f[z]]

---------------------------------------------------------------------------
(* Retrieval                                                               *)

Score(p, terms) == 4 * Cardinality(p.title \cap terms) + 2 * Cardinality(p.text \cap terms)

Visible(p, tenant) == p.tenant \in {"*", tenant}

\* the best passages, each at its place: the highest score first, equal ones by their id
Query(tenant, terms) ==
    LET hits == {p \in Corpus : Visible(p, tenant) /\ Score(p, terms) > 0}
        better(p, q) == Score(p, terms) > Score(q, terms) \/ (Score(p, terms) = Score(q, terms) /\ p.id < q.id)
        place(p) == Cardinality({q \in hits : better(q, p)}) + 1
    IN  {[place |-> place(p), id |-> p.id] : p \in {q \in hits : place(q) <= TopK}}

validateDraftCitations(draft, passages) == draft.cites \subseteq {p.id : p \in passages}

parseDraft(draft, passages) == draft.schema /\ ~draft.disposition /\ validateDraftCitations(draft, passages)

---------------------------------------------------------------------------
(* Requests and receipts                                                   *)

\* a request as the Store compares it: the tenant is the case's
Seen(req) == [f \in DOMAIN req \ {"via", "tenant"} |-> req[f]]
Scope(req) == IF req.op = "assist" THEN <<"assist">> ELSE <<"review", req.of>>
receiptPath(req) == <<Scope(req), req.key>>

\* the id covers the request and what was retrieved for it
AssistanceID(req, passages) == <<req.key, req.actor, passages>>

Record(req, passages, status, draft) ==
    [actor |-> req.actor, tenant |-> CaseTenant, passages |-> passages, status |-> status, draft |-> draft]

\* what the proofs use: requests have the fields of their kind, and a model answers something
ConstantsFit == /\ \A q \in Requests : {"op", "via", "key", "actor", "tenant"} \subseteq DOMAIN q /\ q.op \in {"assist", "review"}
                /\ \A q \in Requests : q.op = "review" => {"of", "action"} \subseteq DOMAIN q
                /\ Nothing \notin Outputs

Ended(h) == RemoveAt(run, h)

\* a client sends a request: the console answers for a case of another tenant with 404
Send(req) ==
    /\ sends < MaxSends
    /\ sends' = sends + 1
    /\ run' = IF req.via = "console" /\ req.tenant \notin {"*", CaseTenant} THEN run
              ELSE Append(run, [req |-> req, at |-> IF req.op = "review" /\ req.via = "console" THEN "console" ELSE "lock",
                                id |-> Nothing, passages |-> {}, draft |-> Nothing, todo |-> <<>>])
    /\ UNCHANGED <<revision, records, reviews, receipts, audit, locked, told, stops, torn>>

\* the reviewer may be the requester
FourEyes_Any(record, actor) == TRUE

FourEyes(record, actor) == record.actor # actor

\* assistanceReview reads the record before it asks the Store
assistanceReview(h) ==
    LET req == run[h].req IN
    /\ run[h].at = "console"
    /\ run' = IF req.of \in DOMAIN records /\ FourEyes(records[req.of], req.actor) THEN [run EXCEPT ![h].at = "lock"] ELSE Ended(h)
    /\ UNCHANGED <<revision, records, reviews, receipts, audit, locked, told, sends, stops, torn>>

\* withLock: after fifteen seconds a request gives up, and the holder waits for two models
GiveUp(h) ==
    /\ run[h].at = "lock" /\ locked
    /\ run' = Ended(h)
    /\ UNCHANGED <<revision, records, reviews, receipts, audit, locked, told, sends, stops, torn>>

\* the record or the review, the receipt and the audit event, in this order
Files(file, body) == <<[file |-> file, body |-> body], [file |-> "receipt"], [file |-> "audit"]>>

finalizeRecord(h, status, draft) ==
    LET r == run[h] IN
    run' = [run EXCEPT ![h].at = "write", ![h].todo = Files("record", Record(r.req, r.passages, status, draft))]

\* Assist up to the first model: a conflict, a replay, nothing retrieved, or on to the model
Assist(h) ==
    LET req == run[h].req
        rp == receiptPath(req)
        passages == Query(CaseTenant, Terms[revision])
        id == AssistanceID(req, passages)
        started == [run EXCEPT ![h].id = id, ![h].passages = passages]
    IN  /\ run[h].at = "lock" /\ ~locked /\ req.op = "assist"
        /\ IF req.via = "api" /\ req.tenant \notin {"", CaseTenant} THEN run' = Ended(h) /\ UNCHANGED locked
           ELSE IF rp \in DOMAIN receipts
             THEN /\ UNCHANGED locked
                  /\ run' = IF receipts[rp].request # Seen(req) THEN Ended(h) ELSE [run EXCEPT ![h].at = "answer", ![h].id = receipts[rp].id]
           ELSE /\ locked' = TRUE
                /\ run' = IF passages # {} THEN [started EXCEPT ![h].at = "generate"]
                          ELSE [started EXCEPT ![h].at = "write", ![h].todo = Files("record", Record(req, passages, "retrieval_empty", Nothing))]
        /\ UNCHANGED <<revision, records, reviews, receipts, audit, told, sends, stops, torn>>

\* the model answers, or does not
Generate(h, out) ==
    /\ run[h].at = "generate"
    /\ IF out = Unavailable THEN finalizeRecord(h, "model_unavailable", Nothing)
       ELSE IF out.large \/ ~parseDraft(out, run[h].passages) THEN finalizeRecord(h, "invalid_model_output", Nothing)
       ELSE run' = [run EXCEPT ![h].at = "guard", ![h].draft = out]
    /\ UNCHANGED <<revision, records, reviews, receipts, audit, locked, told, sends, stops, torn>>

\* the guardian answers; whether the citations resolve is not left to it
Guard(h, verdict) ==
    /\ run[h].at = "guard"
    /\ LET ok == verdict.grounded /\ verdict.claims = {} /\ validateDraftCitations(run[h].draft, run[h].passages)
           status == IF verdict = Unavailable THEN "guardian_unavailable"
                     ELSE IF ~verdict.schema THEN "invalid_guardian_output"
                     ELSE IF ok THEN "completed" ELSE "rejected_guardrail"
       IN  finalizeRecord(h, status, run[h].draft)
    /\ UNCHANGED <<revision, records, reviews, receipts, audit, locked, told, sends, stops, torn>>

Acceptable(record, action) == record.status = "completed" \/ action # "accept"

Review(h) ==
    LET req == run[h].req
        rp == receiptPath(req)
    IN  /\ run[h].at = "lock" /\ ~locked /\ req.op = "review"
        /\ IF rp \in DOMAIN receipts
             THEN /\ UNCHANGED locked
                  /\ run' = IF receipts[rp].request # Seen(req) THEN Ended(h) ELSE [run EXCEPT ![h].at = "answer", ![h].id = req.of]
           ELSE IF req.of \notin DOMAIN records \/ ~Acceptable(records[req.of], req.action) THEN run' = Ended(h) /\ UNCHANGED locked
           ELSE /\ locked' = TRUE
                /\ run' = [run EXCEPT ![h].at = "write", ![h].id = req.of, ![h].todo = Files("review", Seen(req))]
        /\ UNCHANGED <<revision, records, reviews, receipts, audit, told, sends, stops, torn>>

\* a record replaces one of the same id; a review and an audit event take the next number
WriteJSONAtomic(h) ==
    LET r == run[h]
        w == Head(r.todo)
        past == IF r.id \in DOMAIN reviews THEN reviews[r.id] ELSE <<>>
    IN  /\ r.at = "write" /\ r.todo # <<>>
        /\ records' = IF w.file = "record" THEN Put(records, r.id, w.body) ELSE records
        /\ reviews' = IF w.file = "review" THEN Put(reviews, r.id, Append(past, w.body)) ELSE reviews
        /\ receipts' = IF w.file = "receipt" THEN Put(receipts, receiptPath(r.req), [request |-> Seen(r.req), id |-> r.id]) ELSE receipts
        /\ audit' = IF w.file = "audit" THEN Append(audit, <<r.req.op, r.id>>) ELSE audit
        /\ run' = [run EXCEPT ![h].todo = Tail(@)]
        /\ UNCHANGED <<revision, locked, told, sends, stops, torn>>

Unlock(h) ==
    /\ run[h].at = "write" /\ run[h].todo = <<>>
    /\ locked' = FALSE
    /\ run' = [run EXCEPT ![h].at = "answer"]
    /\ UNCHANGED <<revision, records, reviews, receipts, audit, told, sends, stops, torn>>

\* the assistance API binds no tenant to its requests: the transactions of its records are refused before they start
Answer(h) ==
    LET r == run[h] IN
    /\ r.at = "answer"
    /\ told' = IF r.req.via = "api" /\ PostgresRequired THEN told ELSE told \cup {<<Seen(r.req), r.id>>}
    /\ run' = Ended(h)
    /\ UNCHANGED <<revision, records, reviews, receipts, audit, locked, sends, stops, torn>>

\* the case goes on: its terms change
CaseEvent ==
    /\ revision < Len(Terms)
    /\ revision' = revision + 1
    /\ UNCHANGED <<records, reviews, receipts, audit, locked, run, told, sends, stops, torn>>

\* the process stops; the lock's directory stays until it is removed by hand
Stop ==
    /\ run # <<>> /\ stops < MaxStops
    /\ stops' = stops + 1
    /\ torn' = torn \cup {Seen(run[h].req) : h \in {k \in DOMAIN run : run[k].at = "write" /\ Len(run[k].todo) \in 1..2}}
    /\ run' = <<>>
    /\ UNCHANGED <<revision, records, reviews, receipts, audit, locked, told, sends>>

RemoveLock ==
    /\ locked /\ run = <<>>
    /\ locked' = FALSE
    /\ UNCHANGED <<revision, records, reviews, receipts, audit, run, told, sends, stops, torn>>

Init ==
    /\ revision = 1 /\ records = <<>> /\ reviews = <<>> /\ receipts = <<>> /\ audit = <<>>
    /\ locked = FALSE /\ run = <<>> /\ told = {} /\ sends = 0 /\ stops = 0 /\ torn = {}

Next ==
    \/ \E req \in Requests : Send(req)
    \/ \E h \in DOMAIN run :
          \/ assistanceReview(h) \/ GiveUp(h) \/ Assist(h) \/ Review(h) \/ WriteJSONAtomic(h) \/ Unlock(h) \/ Answer(h)
          \/ \E out \in Outputs \cup {Unavailable} : Generate(h, out)
          \/ \E verdict \in Verdicts \cup {Unavailable} : Guard(h, verdict)
    \/ CaseEvent \/ Stop \/ RemoveLock

Spec == Init /\ [][Next]_vars

---------------------------------------------------------------------------
(***************************************************************************)
(* A record that is complete carries a draft whose every citation is a     *)
(* passage that the case's tenant may see, and a record without a draft is *)
(* never complete.                                                         *)
(***************************************************************************)
CompletedIsGrounded ==
    \A id \in DOMAIN records : records[id].status = "completed" =>
        /\ records[id].draft # Nothing
        /\ \A c \in records[id].draft.cites : \E p \in Corpus : p.id = c /\ p.tenant \in {"*", records[id].tenant}

(***************************************************************************)
(* An accepted record is complete and, through the console, was accepted   *)
(* by someone other than its requester; a review request is in the history *)
(* once, and one that was answered with success is in it: however requests *)
(* overlap and are sent again, unless a stop cut off the request that made *)
(* the record, or the review, between its writes.                          *)
(***************************************************************************)
ReviewsStand ==
    /\ \A id \in DOMAIN reviews : \A i \in 1..Len(reviews[id]) :
          LET e == reviews[id][i] IN
          /\ e.action = "accept" /\ torn = {} => records[id].status = "completed"
          /\ (\E q \in Requests : q.via = "console" /\ Seen(q) = e) /\ (\A q \in Requests : Seen(q) = e => q.via = "console")
                => records[id].actor # e.actor
          /\ e \notin torn => \A j \in 1..Len(reviews[id]) : reviews[id][j] = e => i = j
    /\ \A t \in told : t[1].op = "review" => t[1] \in ToSet(reviews[t[2]])

(***************************************************************************)
(* Review is an idempotent event: a request is in the history of reviews   *)
(* at most once.                                                           *)
(***************************************************************************)
ReviewIsIdempotent == \A id \in DOMAIN reviews : IsInjective(reviews[id])
=============================================================================
