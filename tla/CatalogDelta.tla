---------------------------- MODULE CatalogDelta ----------------------------
(***************************************************************************)
(* catalogrefresh and updatemanager.PrepareDelta: a delta between two      *)
(* catalogs, its reconstruction on the active one, the promotion decision, *)
(* and the files the preparation leaves behind.                            *)
(*                                                                         *)
(* A catalog is its version (with its source manifest) and the content of  *)
(* its records by provider record id; a checksum or a reference stands for *)
(* the catalog it was taken of.  A delta's id is the delta.  Deltas arrive *)
(* late, twice, in any order, or made by hand; a call may be cut off       *)
(* between any two files or while it writes one.                           *)
(***************************************************************************)
EXTENDS Integers, FiniteSets, Sequences, SequencesExt

CONSTANTS Catalogs,   \* [version, records]
          Policies,   \* promotion policies
          Made,       \* deltas that BuildDelta did not build
          First,      \* the catalog in use at the start
          Specs,      \* the update spec for each sequence: [id, scheduledFor]
          MaxSequence, MaxTime, MaxStops, MaxJobs

VARIABLES active, expected,   \* the caller's base catalog and the sequence it expects
          circulating,        \* deltas that were built, or made
          files,              \* deltas/, promotion-decisions/, packages/ and updates/: [name, data, whole]
          job,                \* the call of PrepareDelta under way
          compiled,           \* the calls that ended with a package
          now, stops, jobs

vars == <<active, expected, circulating, files, job, compiled, now, stops, jobs>>

Idle == [at |-> "idle"]
NoCatalog == [version |-> 0, records |-> <<>>]

---------------------------------------------------------------------------
(* Catalogs and their difference                                           *)

\* the records are listed by their ids, each once; the checksum is that of the catalog
ValidateCatalog(c) == DOMAIN c.records # {}

removed(b, t) == DOMAIN b.records \ DOMAIN t.records
added(b, t) == DOMAIN t.records \ DOMAIN b.records
modified(b, t) == {id \in DOMAIN b.records \cap DOMAIN t.records : b.records[id] # t.records[id]}
TotalChanges(b, t) == Cardinality(removed(b, t)) + Cardinality(modified(b, t)) + Cardinality(added(b, t))
RecordCount(c) == Cardinality(DOMAIN c.records)

Diff(b, t) ==
    [change |-> (TotalChanges(b, t) * 10000) \div Max({RecordCount(b), RecordCount(t)}),
     deletion |-> (Cardinality(removed(b, t)) * 10000) \div RecordCount(b)]
\* the change ratio exceeds 10000 when more records changed than the larger catalog has
ValidateDiff(d) == d.change \in 0 .. 10000 /\ d.deletion \in 0 .. 10000

---------------------------------------------------------------------------
(* Deltas.  before is what the SHA-256 of the record was taken of; None    *)
(* where there is none.                                                    *)

None == "none"
NoRecord == [id |-> 0, content |-> None]
Operation(op, id, before, after) == [op |-> op, id |-> id, before |-> before, after |-> after]

ById(ids) == SetToSortSeq(ids, LAMBDA i, j : i < j)

OperationFor(b, t, id) ==
    IF id \in removed(b, t) THEN Operation("remove", id, b.records[id], NoRecord)
    ELSE Operation(IF id \in added(b, t) THEN "add" ELSE "replace", id,
                   IF id \in added(b, t) THEN None ELSE b.records[id], [id |-> id, content |-> t.records[id]])

ValidateDelta(d) ==
    /\ d.sequence > 0 /\ ValidateCatalog(d.target)
    /\ \A i, j \in DOMAIN d.operations : i < j => d.operations[i].id < d.operations[j].id
    /\ \A i \in DOMAIN d.operations : LET o == d.operations[i] IN
          \/ o.op = "add" /\ o.after # NoRecord /\ o.before = None
          \/ o.op = "replace" /\ o.after # NoRecord /\ o.before # None
          \/ o.op = "remove" /\ o.after = NoRecord /\ o.before # None

DeltaOf(b, t, n, ids) ==
    [sequence |-> n, base |-> b, target |-> t,
     operations |-> LET order == ById(ids) IN [i \in DOMAIN order |-> OperationFor(b, t, order[i])]]

\* a removal that has no operation
BuildDelta_KeepsRemoved(b, t, n) == DeltaOf(b, t, n, modified(b, t) \cup added(b, t))

BuildDelta(b, t, n) == DeltaOf(b, t, n, removed(b, t) \cup modified(b, t) \cup added(b, t))

\* one operation on the private record map; an operation whose precondition fails ends in ok = FALSE
ApplyOne(r, o) ==
    LET here == o.id \in DOMAIN r.records IN
    IF \/ ~r.ok
       \/ o.op = "add" /\ (here \/ o.after.id # o.id)
       \/ o.op = "replace" /\ (~here \/ o.after.id # o.id)
       \/ o.op = "remove" /\ ~here
       \/ o.op # "add" /\ here /\ r.records[o.id] # o.before
    THEN [r EXCEPT !.ok = FALSE]
    ELSE [ok |-> TRUE,
          records |-> [id \in IF o.op = "remove" THEN DOMAIN r.records \ {o.id} ELSE DOMAIN r.records \cup {o.id} |->
                          IF id = o.id THEN o.after.content ELSE r.records[id]]]

Apply(b, d, n) ==
    LET end == FoldLeft(ApplyOne, [ok |-> TRUE, records |-> b.records], d.operations)
        out == [version |-> d.target.version, records |-> end.records]
    IN [ok |-> /\ ValidateCatalog(b) /\ ValidateDelta(d) /\ d.sequence = n /\ d.base = b
               /\ end.ok /\ out = d.target /\ ValidateCatalog(out),
        catalog |-> out]

---------------------------------------------------------------------------
(* The promotion decision                                                  *)

ValidatePolicy(p) == p.change \in 1 .. 10000 /\ p.deletion \in 1 .. 10000 /\ p.operations >= 1

Rejects(b, d, p, n) ==
    \/ ~ValidatePolicy(p) \/ ~ValidateDelta(d)
    \/ p.contiguous /\ d.sequence # n
    \/ p.sameBase /\ d.base # b
    \/ ~Apply(b, d, n).ok

RejectsFull(b, d, n, full) == full # NoCatalog /\ (~ValidateCatalog(full) \/ full # Apply(b, d, n).catalog)

ForcesFull(b, d, p, full) ==
    LET diff == Diff(b, d.target)
        over(value, limit) == IF p.atLimit THEN value >= limit ELSE value > limit
    IN \/ Len(d.operations) > p.operations
       \/ over(diff.change, p.change) \/ over(diff.deletion, p.deletion)
       \/ p.interval > 0 /\ d.sequence % p.interval = 0 /\ full = NoCatalog

\* the outcome; RequireTargetChecksumMatch adds nothing, for Apply compares the target itself; "error" when the difference does not validate
Evaluate(b, d, p, n, full) ==
    IF Rejects(b, d, p, n) THEN "reject"
    ELSE IF ~ValidateDiff(Diff(b, d.target)) THEN "error"
    ELSE IF RejectsFull(b, d, n, full) THEN "reject"
    ELSE IF ForcesFull(b, d, p, full) THEN "force_full_rebuild"
    ELSE "promote_delta"

---------------------------------------------------------------------------
(* PrepareDelta                                                            *)

Init ==
    /\ active = First /\ expected = 1 /\ circulating = Made /\ files = {} /\ job = Idle
    /\ compiled = {} /\ now = 1 /\ stops = 0 /\ jobs = 0

\* BuildDelta by whoever publishes them, one from each active catalog; Diff's and ValidateDelta's errors end it
Build(t, n) ==
    /\ \A d \in circulating \ Made : d.base # active
    /\ ValidateCatalog(active) /\ ValidateCatalog(t) /\ ValidateDiff(Diff(active, t))
    /\ ValidateDelta(BuildDelta(active, t, n))
    /\ circulating' = circulating \cup {BuildDelta(active, t, n)}
    /\ UNCHANGED <<active, expected, files, job, compiled, now, stops, jobs>>

Named(name) == {f \in files : f.name = name}
\* PersistDelta, PersistDecision, persistImmutablePackage and writeExclusive: an existing file must have these bytes
Fits(name, data) == \A f \in Named(name) : f.whole /\ f.data = data
File(name, data) == files \cup {[name |-> name, data |-> data, whole |-> TRUE]}
\* a file is created, or fits, and the call goes on; or the call fails: failRecord writes nothing
Persist(name, data, next) ==
    \/ Fits(name, data) /\ files' = File(name, data) /\ job' = next
    \/ ~Fits(name, data) /\ job' = Idle /\ UNCHANGED files

\* ValidateSpec holds of every spec; one that is not due is refused
PrepareDelta(u, d, p, full) ==
    /\ job = Idle /\ jobs < MaxJobs /\ now >= u.scheduledFor
    /\ job' = [at |-> "delta", u |-> u, delta |-> d, policy |-> p, full |-> full, base |-> active, n |-> expected, now |-> now]
    /\ jobs' = jobs + 1
    /\ UNCHANGED <<active, expected, circulating, files, compiled, now, stops>>

DeltaName(j) == <<"delta", j.delta>>
StageDelta ==
    /\ job.at = "delta"
    /\ IF ValidateDelta(job.delta) THEN Persist(DeltaName(job), 0, [job EXCEPT !.at = "decision"])
       ELSE job' = Idle /\ UNCHANGED files
    /\ UNCHANGED <<active, expected, circulating, compiled, now, stops, jobs>>

Outcome(j) == Evaluate(j.base, j.delta, j.policy, j.n, j.full)
\* the id leaves out the time of the evaluation, the file does not
DecisionName(j) == <<"decision", Outcome(j), j.policy, j.delta, j.n, j.base, j.full # NoCatalog>>
Decide ==
    /\ job.at = "decision"
    /\ IF Outcome(job) = "error" THEN job' = Idle /\ UNCHANGED files
       ELSE Persist(DecisionName(job), job.now, [job EXCEPT !.at = IF Outcome(job) = "promote_delta" THEN "package" ELSE "update"])
    /\ UNCHANGED <<active, expected, circulating, compiled, now, stops, jobs>>

PackageName(j) == <<"package", j.delta.target>>
CompileAndPersist ==
    /\ job.at = "package"
    /\ Persist(PackageName(job), 0, [job EXCEPT !.at = "update"])
    /\ UNCHANGED <<active, expected, circulating, compiled, now, stops, jobs>>

UpdateName(j) == <<"update", j.u>>
PersistUpdate ==
    /\ job.at = "update"
    /\ Persist(UpdateName(job), <<Outcome(job), job.now, job.delta>>, IF Outcome(job) = "promote_delta" THEN [job EXCEPT !.at = "compiled"] ELSE Idle)
    /\ compiled' = IF job'.at = "compiled" THEN compiled \cup {job} ELSE compiled
    /\ UNCHANGED <<active, expected, circulating, now, stops, jobs>>

\* the caller has the package activated and goes on from it, or not
Return(adopt) ==
    /\ job.at = "compiled"
    /\ job' = Idle
    /\ active' = (IF adopt THEN job.delta.target ELSE active)
    /\ expected' = (IF adopt THEN expected + 1 ELSE expected)
    /\ UNCHANGED <<circulating, files, compiled, now, stops, jobs>>

\* the process ends, perhaps while it writes the next file
Stop ==
    /\ job.at \notin {"idle", "compiled"} /\ stops < MaxStops
    /\ stops' = stops + 1 /\ job' = Idle
    /\ LET name == CASE job.at = "delta" -> DeltaName(job) [] job.at = "decision" -> DecisionName(job)
                     [] job.at = "package" -> PackageName(job) [] OTHER -> UpdateName(job)
       IN \/ UNCHANGED files
          \/ /\ Named(name) = {}
             /\ files' = files \cup {[name |-> name, data |-> 0, whole |-> FALSE]}
    /\ UNCHANGED <<active, expected, circulating, compiled, now, jobs>>

\* the time is an argument of a call
Tick == /\ job = Idle /\ now < MaxTime /\ now' = now + 1
        /\ UNCHANGED <<active, expected, circulating, files, job, compiled, stops, jobs>>

Next ==
    \/ \E t \in Catalogs, n \in 1 .. MaxSequence : Build(t, n)
    \/ \E d \in circulating, p \in Policies : \E full \in {NoCatalog, d.target, First} : PrepareDelta(Specs[d.sequence], d, p, full)
    \/ StageDelta \/ Decide \/ CompileAndPersist \/ PersistUpdate
    \/ \E adopt \in BOOLEAN : Return(adopt)
    \/ Stop \/ Tick

Spec == Init /\ [][Next]_vars

---------------------------------------------------------------------------
(***************************************************************************)
(* A delta that was built from the active catalog, and whose turn it is,   *)
(* is never refused under a valid policy, with or without the full         *)
(* rebuild it was built for (BuildDelta, Apply, Diff).                     *)
(***************************************************************************)
BuiltIsAccepted ==
    \A d \in circulating, p \in Policies :
        d \notin Made /\ d.base = active /\ d.sequence = expected /\ ValidatePolicy(p) =>
            \A full \in {NoCatalog, d.target} : Evaluate(active, d, p, expected, full) \in {"promote_delta", "force_full_rebuild"}

(***************************************************************************)
(* Whatever deltas arrive, twice, late or made by hand, a package is       *)
(* compiled only of the target its delta names, from the catalog and the   *)
(* sequence the caller stands at, within the limits of its policy as the   *)
(* records themselves tell them, and on every interval-th sequence only    *)
(* with an equal full rebuild; its delta and its decision are on disk      *)
(* (Evaluate, PrepareDelta).                                               *)
(***************************************************************************)
CompiledIsDecided ==
    \A j \in compiled :
        LET changed == {id \in DOMAIN j.base.records \cup DOMAIN j.delta.target.records :
                          \/ id \notin DOMAIN j.base.records \/ id \notin DOMAIN j.delta.target.records
                          \/ j.base.records[id] # j.delta.target.records[id]}
        IN /\ j.delta.base = j.base /\ j.delta.sequence = j.n
           /\ Cardinality(changed) <= j.policy.operations
           /\ 10000 * Cardinality(changed) < (j.policy.change + 1) * Max({RecordCount(j.base), RecordCount(j.delta.target)})
           /\ j.full \in {NoCatalog, j.delta.target}
           /\ j.policy.interval > 0 /\ j.n % j.policy.interval = 0 => j.full = j.delta.target
           /\ \A name \in {DeltaName(j), DecisionName(j), PackageName(j), UpdateName(j)} :
                 \E f \in files : f.name = name /\ f.whole
=============================================================================
