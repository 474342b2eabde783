--------------------------- MODULE ScreeningPlan ---------------------------
(***************************************************************************)
(* From a payment message to the searches it asks for: the screening plan  *)
(* (screeningplan), the parser that attaches its entries to the elements   *)
(* of a message (adapters/iso20022, canonical), the executor that checks   *)
(* them again (screening) and the projector (matcherrequest).              *)
(*                                                                         *)
(* A path is a sequence of steps [name, index]; NoIndex stands where there *)
(* is none and AnyIndex for [*] in a pattern.  A plan is [id, version,     *)
(* definitions, entries], an entry [id, path, type, trigger, routes,       *)
(* types, threshold].  A document is [definition, fields], a field [path,  *)
(* value, valid], valid telling whether the value has the form of its      *)
(* value type.  Operators that fail return the empty sequence.             *)
(***************************************************************************)
EXTENDS Integers, Sequences, FiniteSets, SequencesExt

NoIndex == -1
AnyIndex == -2

\* the value types a route may be asked for
ValueTypes ==
    [normalized_name |-> {"name"}, alias |-> {"name"}, transliteration |-> {"name"}, exact_bic |-> {"bic"},
     exact_lei |-> {"lei"}, exact_account |-> {"iban", "account_identifier"}, exact_date |-> {"date"},
     jurisdiction_policy |-> {"country_code"}, contextual_address |-> {"address_text"},
     contextual_phrase_window |-> {"narrative"}]

Triggers == {"candidate_alert", "supporting_evidence"}

----------------------------------------------------------------------------
(* The plan.                                                               *)

compilePathPattern(p) == Len(p) > 1 /\ p[1].name = "Document" /\ \A i \in DOMAIN p : p[i].name # "*"

Matches(pattern, path) ==
    /\ Len(pattern) = Len(path)
    /\ \A i \in DOMAIN path :
          /\ pattern[i].name = path[i].name
          /\ pattern[i].index = path[i].index \/ (pattern[i].index = AnyIndex /\ path[i].index >= 0)

validateRoutes(e) == \A r \in e.routes : r \in DOMAIN ValueTypes /\ e.type \in ValueTypes[r]

validatePlan(p) ==
    /\ p.definitions # <<>> /\ IsInjective(p.definitions)
    /\ p.entries # <<>>
    /\ \A i, j \in DOMAIN p.entries :
          i # j => p.entries[i].id # p.entries[j].id /\ p.entries[i].path # p.entries[j].path
    /\ \A e \in Range(p.entries) :
          /\ compilePathPattern(e.path)
          /\ \/ e.trigger \in Triggers /\ e.routes # {}
             \/ e.trigger \in {"retain_only", "disabled"} /\ e.routes = {} /\ e.types = {}
          /\ validateRoutes(e)

Checksum(p) == <<p.definitions, p.entries>>
Reference(p) == [id |-> p.id, version |-> p.version, checksum |-> Checksum(p)]

Supports(p, definition) == definition \in Range(p.definitions)

\* the one entry for the path; none and two are errors
Resolve(p, definition, path) ==
    LET matched == SelectSeq(p.entries, LAMBDA e : Matches(e.path, path))
    IN  IF Supports(p, definition) /\ Len(matched) = 1 THEN matched ELSE <<>>

Apply(p, e) ==
    [plan |-> Reference(p), entry |-> e.id, type |-> e.type, trigger |-> e.trigger, routes |-> e.routes,
     types |-> e.types, threshold |-> e.threshold]

----------------------------------------------------------------------------
(* The parser.                                                             *)

\* a value that is there and has not the form of its type is invalid
validateElementValue(f) == IF f.value = <<>> THEN "empty" ELSE IF f.valid THEN "present" ELSE "invalid"

add(p, definition, f) ==
    [i \in DOMAIN Resolve(p, definition, f.path) |->
        [path |-> f.path, presence |-> validateElementValue(f), value |-> f.value,
         attached |-> Apply(p, Resolve(p, definition, f.path)[i])]]

ValidateMessage(m) ==
    /\ m.elements # <<>>
    /\ \A i, j \in DOMAIN m.elements : i # j => m.elements[i].path # m.elements[j].path
    /\ \A e \in Range(m.elements) : e.path[1].name = "Document"

\* one field without an entry of its own fails the message
buildMessage(p, document) ==
    LET added == [i \in DOMAIN document.fields |-> add(p, document.definition, document.fields[i])]
        message == [definition |-> document.definition, plan |-> Reference(p), elements |-> FlattenSeq(added)]
    IN  IF (\E i \in DOMAIN added : added[i] = <<>>) \/ ~ValidateMessage(message) THEN <<>> ELSE <<message>>

----------------------------------------------------------------------------
(* The executor.                                                           *)

resolutionFor(presence, e) ==
    [entry |-> e.id, trigger |-> e.trigger, routes |-> e.routes, types |-> e.types, threshold |-> e.threshold,
     eligible |-> e.trigger \in Triggers /\ presence = "present",
     action |-> IF e.trigger \notin Triggers THEN e.trigger
                ELSE CASE presence = "empty" -> "skip_empty"
                       [] presence = "invalid" -> "skip_invalid"
                       [] e.trigger = "candidate_alert" -> "candidate_lookup"
                       [] OTHER -> "supporting_lookup"]

verifyAttachment(p, element, e) == element.attached = Apply(p, e)

validateResolution(element) ==
    LET r == element.resolution
    IN  IF r.trigger \notin Triggers THEN ~r.eligible /\ r.routes = {} /\ r.action = r.trigger
        ELSE /\ r.routes # {}
             /\ r.eligible = (element.presence = "present")
             /\ r.action = CASE element.presence = "empty" -> "skip_empty"
                             [] element.presence = "invalid" -> "skip_invalid"
                             [] r.trigger = "candidate_alert" -> "candidate_lookup"
                             [] OTHER -> "supporting_lookup"

\* how many elements a matcher is asked about and how many are skipped
summarize(elements) ==
    LET Count(P(_)) == Cardinality({i \in DOMAIN elements : P(elements[i].resolution)})
    IN  [total |-> Len(elements), eligible |-> Count(LAMBDA r : r.eligible),
         skipped |-> Count(LAMBDA r : r.action \in {"skip_empty", "skip_invalid"})]

ValidateBundle(b) ==
    /\ b.elements # <<>>
    /\ \A i, j \in DOMAIN b.elements : i # j => b.elements[i].path # b.elements[j].path
    /\ \A e \in Range(b.elements) : validateResolution(e)
    /\ b.summary = summarize(b.elements)

\* every element is resolved again, and what the parser attached is compared
Execute(p, m) ==
    LET entry == [i \in DOMAIN m.elements |-> Resolve(p, m.definition, m.elements[i].path)]
        Evidence(i) == [path |-> m.elements[i].path, presence |-> m.elements[i].presence, value |-> m.elements[i].value,
                        resolution |-> resolutionFor(m.elements[i].presence, entry[i][1])]
        elements == [i \in DOMAIN m.elements |-> Evidence(i)]
        bundle == [plan |-> Reference(p), elements |-> elements, summary |-> summarize(elements)]
    IN  IF /\ Supports(p, m.definition) /\ m.plan = Reference(p)
           /\ \A i \in DOMAIN m.elements : entry[i] # <<>> /\ verifyAttachment(p, m.elements[i], entry[i][1])
           /\ ValidateBundle(bundle)
        THEN <<bundle>> ELSE <<>>

----------------------------------------------------------------------------
(* The projector.                                                          *)

validateRequest(r) == r.query # <<>> /\ r.routes # {} /\ r.types # {} /\ r.kind = r.trigger

ValidateBatch(requests) ==
    /\ \A r \in Range(requests) : validateRequest(r)
    /\ \A i, j \in DOMAIN requests : i # j => requests[i].path # requests[j].path

requestKind(trigger) == trigger

\* one request for every eligible element, in the order of the message; an entry without types fails them all
Project(b) ==
    LET Request(e) == [path |-> e.path, kind |-> requestKind(e.resolution.trigger), trigger |-> e.resolution.trigger, query |-> e.value,
                       routes |-> e.resolution.routes, types |-> e.resolution.types, threshold |-> e.resolution.threshold]
        eligible == SelectSeq(b.elements, LAMBDA e : e.resolution.eligible)
        requests == [i \in DOMAIN eligible |-> Request(eligible[i])]
    IN  IF ValidateBundle(b) /\ ValidateBatch(requests) THEN <<[plan |-> b.plan, requests |-> requests]>> ELSE <<>>
=============================================================================
