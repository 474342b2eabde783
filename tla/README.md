# Formal models of watchlist-platform

This directory holds TLA+ specifications of watchlist-platform: the parts that
keep state across steps, processes or failures, and the algorithms that decide
about an alert. TLC configurations check them on small instances, and TLAPS
proofs establish the properties that matter most for every size of the system. Every
definition is translated from the code; `PROJECT.json` maps each one to the lines it
stands for.

1. [The system](#1-the-system)
2. [How the modules correspond to the code](#2-how-the-modules-correspond-to-the-code)
3. [The runs](#3-the-runs)
4. [Fairness](#4-fairness)
5. [What is proved](#5-what-is-proved)
6. [Where the code and its documents disagree](#6-where-the-code-and-its-documents-disagree)
7. [Seen in the models, not kept as runs](#7-seen-in-the-models-not-kept-as-runs)
8. [What is not modelled](#8-what-is-not-modelled)
9. [Plan](#9-plan)

To check a run, `tlc -workers 2 -config MCOutbox_main.cfg MCOutbox`; to check the
proofs of a module, `tlapm OutboxProofs.tla`.

## 1. The system

watchlist-platform is a set of Go services and commands (about 50,000 lines without
tests) and one Rust worker process (`runtime/catalog-mmap`). An alert takes the path

    vendoradapter -> alertcase -> screeningapi -> runtimemmapclient -> catalog-mmap
      -> candidatescoring -> falsepositive -> policyengine -> revieworchestrator
      -> assistancerag / reviewconsole, behind platformapi

a payment message the path

    adapters/iso20022 -> screeningplan -> screening -> matcherrequest -> matchers
      -> matcherprovider (runner) -> falsepositive ...

and around them are the parts that decide *which* catalog, package, policy and model is
in use (registries, deltas, activation, promotion, fleet updates) and the parts that record
what was done (ledger, outbox, audit logs). There is almost no shared memory between
components: they share directories. Files are written by renaming a temporary file over
the name or created exclusively (`O_EXCL`), most locks are files or directories that a
stop leaves behind, and PostgreSQL is a replica of files. So the hard behaviours are: a
process that stops between two file operations, two processes over one directory,
callers that time out while their work goes on, and retries of what was half done.

| Component | State | Operations | Interacts with | Hard because | Correct when |
|---|---|---|---|---|---|
| Screening API (`screeningapi`) | idempotency records, lock directories, one handler per request | screen, screen a batch, stop, restart | runtime pools; catalog registry; scoring | two requests with one key; expiry, stop and crash at any moment; the active version changes under a request | one lease per key; what is recorded is complete and of one version; who was answered finds a record; requests end |
| Runtime worker pool (`runtimemmapclient`, `screeningapi/runtime.go`, `catalog-mmap/src/worker.rs`) | channel of workers, worker mutexes, pipes, goroutines | Lookup, Close; the process loop | API handlers; worker processes | a timed-out lookup leaves a goroutine reading; Close runs beside lookups; a process dies in mid-answer | no worker lost or shared; nothing of one answer is left to the next; Close ends |
| Screening ledger, local store (`screeningledger`: `store.go`, `audit.go`) | snapshots, event files, `head.json`, pending marker; audit files | Append, Recover, VerifyPolicy, AppendAudit | the CLI; replication | six writes per append; recovery that is itself cut off; retries with another time stamp | an append-only log; verification never accuses an honest ledger |
| Ledger: replay, retention, replication, anchors | replication markers, tombstones, PostgreSQL rows and schema, anchors | sync, anchor, purge, replay, export, verify | local store, PostgreSQL | several stores changed one after the other, beside Append; a database that drifted | markers stand for rows; nothing under hold or unexpired is destroyed; a fresh purge verifies |
| Operational outbox (`productionops/outbox.go`) | message, receipt and event files | Enqueue, Claim, Complete, Retry, Recover | platform-ops processes | leases that expire; torn files; a process per command | lease lifecycle; only the current lease finishes a message; one request per key |
| Scoring activation (`scoringactivation`) | activation documents, `active.json`, `pending.json` | Activate, Stage, PromoteExisting, Rollback, Recover | promotion; commands | no lock; a journal left by a command meets the next ones | the pointer moves along recorded links; recovery never undoes a good activation |
| Activation promotion (`activationpromotion`) | `promotion.json`, `pending.json`, `.lock`, audit chain, acks, reports | Prepare, Evaluate, StartCanary, Acknowledge, Promote, Rollback, Recover | scoring activation | a five-file transaction; two stores changed in turn | audit, state and pointer agree; the candidate is active only if it has earned it |
| Catalog runtime (`catalogruntime`) | generations with reader counts; activation records, pointer, lock file | Acquire, Release, WaitDrained; Activate, Rollback | readers; the mmap reloader | lock-free counting against retirement; files cut off | a drained generation has no reader; activations succeed each other |
| Fleet updates (`updatemanager`) | update records, worker packages, epochs, fleet pointer | Prepare, PrepareDelta, Activate, Rollback | workers; refresh | workers change one by one | the pointer is never ahead of the workers |
| Catalog refresh (`catalogrefresh`) | deltas, decisions, packages | Diff, BuildDelta, Apply, Evaluate | fleet updates | deltas late, twice, or not what they say | a package is compiled only of an accepted delta, in turn, within limits |
| Catalog registry, alert-list mapping, provider refresh | three registries, each a `registry.json` and files of its own | register, activate, bind, analyze, approve, promote, roll back | screening API | a registry rewritten as a whole; two registries changed in turn under three locks | history stays; executions are approved activations |
| Vendor adapters (`vendoradapter`) | record, receipt, audit event | ingest, Process | alert cases, PostgreSQL | three writes, torn files, retries | a retry is answered with its own record or not at all |
| Alert and case backend (`alertcase`, `alertcaseapi`) | events, heads, projections, receipts, audit; PostgreSQL rows | ingest (batches too), case events, status | vendor adapters, console, PostgreSQL | five writes under a lock directory; database calls after the lock, in any order | an event applied once; the chain verifies; the database never goes back |
| Case assistance (`assistancerag`, `assistanceapi`) | records, reviews, receipts, audit | assist, review | cases, two models | the case changes, models fail, retries | a review belongs to the record the reviewer saw; four eyes |
| Review access (`reviewauth`, `reviewconsoleapi`, `httpauth`) | registry, session epochs, tokens, security audit | log in, act, log out | console, case services | a token older than the registry; an audit under a lock others give up on | every step under the rights in force; the audit is one chain |
| Screening plans, ISO 20022 (`adapters/iso20022`, `screeningplan`, `screening`, `matcherrequest`) | none | parse, compile, execute, project | matchers | paths that overlap, profiles of another version | a field that triggers a search is searched |
| Matchers (`matcherbaseline`, `matchercontext`, `matcherprovider`) | compiled indexes | search, validate, replay | review | normalisation in several places, integer similarities | what equals a listed record is found |
| Candidate scoring (`candidatescoring`) | none | score | screening API | clamps, bands, ties | agreement never hurts; order does not matter |
| False-positive workflow, policy engine, retrieval, orchestration (`falsepositive`, `policyengine`, `rag`, `analystnote`, `revieworchestrator`) | none | classify, decide, retrieve, write a note | matchers, console | rules of four files decide together | a disposition is earned; decisions survive failures |
| Gateway, backup, OFAC sources, mmap format, release qualification, SQL schema, commands | | | | | not modelled, see section 8 |

(Paths are under `internal/`.) `PROJECT.json` lists the components with what is left
out of each, and the hazards at their lines.

## 2. How the modules correspond to the code

The grain is the same everywhere: **one step is one operation another process or
goroutine can observe**, such as a file created, renamed or removed, a mutex taken, a
channel received from, or a line read. The checks a function makes on what it has just
read belong to the step that read it. A digest that covers an entry and, through the
previous digest, all entries before it is modelled as the sequence of those entries: two
digests are equal exactly when the histories are. Likewise an identifier computed from a
content is that content. Time stamps, canonical JSON and wording are left out except
where a comparison sees them (a retry with another `OccurredAt`; a decision evaluated
again at another time, under the same name). Pure algorithms are operators that a small
state machine calls on every input of a bounded set.

### Outbox, WorkQueue

`Outbox` models `productionops/outbox.go`. State: `messages`, `receipts`, the last
event of each message (every event overwrites each field a decision reads, so the
last one is what `project()` computes), whether the newest event file is torn, the
mutex of each store, and per caller the place in its call, its arguments, the `events()`
result it decides on and the rest of its loop. `StoreOf` gives each caller a store: the
mutex is a field of the Go value and `cmd/platform-ops` builds one store per
invocation, so callers of different processes share the directory and not the mutex.
`Crash` at each step, with or without a torn file; `Tick`. `WorkQueue` is what the outbox
promises: submit, take, complete, release, bury, at most `Attempts` takes.
`ImplementsWorkQueue` maps a message to absent, pending, leased, completed or dead.

### LedgerStore, AppendLog; LedgerReplica, Provisioning

`LedgerStore` models Append, Recover, VerifyPolicy's recovery and walk, and AppendAudit,
at one file operation per step, with `Stop` (death or a failed operation) at each.
`AppendLog` is the promise to callers: a log that grows at its end, an identity in it
once, and what a caller is told is a prefix of it. Under the mapping, the log is
`head.json`, or the pending marker's chain once the event it announces is on disk
(`History`): the commit point is the event file, not the head. Append has no caller outside
tests at this commit.

`LedgerReplica` models the commands against a ledger and its mirror: sync, anchor, purge,
replay and export, verify, migrate, beside an API that appends (`AppendSnapshots`, `AppendChain`) and processes
that end (`CutOff`).
A command (`cmd`) is the list of what it has read and still has to do, so that appends,
other commands, stops and the server's clock come in between. A *world* fixes what is
there before: policy, tenancy, holds, rows of another ledger, the schema.
`Provisioning` is the check of the schema (`CheckProvisioningState`) and what Migrate
repairs, as operators over a catalog of triggers, indexes and privileges; `OneFactOff` is the
catalogs that differ from the declared one in one fact, by family (ownership, privileges, registry, shape, triggers).

### ScoringActivation, Promotion

`ScoringActivation` models `manager.go` and `phase8f_promotion.go`: documents, pointer,
journal, and the set `sound` of activations whose packages validate, which `Damage`
shrinks. Each command is a caller; a Manager has no lock. `Promotion` models
`activationpromotion/manager.go` and `shadow.go` over the pointer of
`ScoringActivation` (`INSTANCE ... WITH`, the promotion manager being one caller of it).
Commands exclude each other by `.lock` and fail at once when they find it. `Fail` returns an
error and removes `.lock`, `Crash` leaves it. The code leaves to its operators what happens next,
so `operators`, which never changes, says how a directory is run: `"careful"` ones run `recover`
before another command, and their commands are cut off in a transaction only; `"unlucky"` ones do the same and
a command may be cut off where it moves the pointer; `"careless"` ones run any command while a
transaction is pending, and a command is cut off or dies anywhere (`Recovering`, `Exposed`). What the
properties promise is stated for the operators for which it holds.

### PackageUse (Promotion, GenerationRegistry, CatalogActivation, FleetUpdate), CatalogDelta

`GenerationRegistry` models `catalogruntime/runtime.go` access by access: Acquire loads the
active generation, counts itself, looks at `retired` and perhaps leaves again; Activate
swaps and retires; the count and the two flags are atomics, so each access is a step.
`CatalogActivation` is the host's store (`store.go`): lock file, activation record created
exclusively, pointer renamed, with stops and retries. `FleetUpdate` is
`updatemanager.Manager`: staged everywhere, activated on the canaries, then on the
others, then recorded and named by the pointer; a worker may refuse, fail its probe or
not answer. `PackageUse` instantiates these three and Promotion, which share no state,
side by side and states what is proved of them. `CatalogDelta` models `catalogrefresh` and `PrepareDelta`: a delta is a sequence of
operations with the content each expects to find; deltas circulate, arrive late, twice
or tampered with and rehashed (`Made`); PrepareDelta writes the delta, the decision, the
package and the update record one by one, is cut off and run again at another time.

### CatalogRegistries, RefreshAnalysis

`CatalogRegistries` models three stores with the same shape (`catalogregistry`,
`alertlistmapping`, `providerrefresh`): a directory with a lock file, immutable files and a
`registry.json` rewritten as a whole. A command first loads, checks, and computes the list of
writes it will make (`Yes(writes, ...)`), then makes them one by one under the lock, and
may be stopped at each. Promote is three such operations under three locks in turn.
`RefreshAnalysis` is `Analyze`: classification of an inventory's changes, impacts,
violations. A candidate is the whole record, the time of its analysis included, so analysing the same inventory
again at another time is another candidate. `Resolve` is what an alert's list name stands for.

### RuntimePool, ScreeningApi

`RuntimePool` models RuntimeManager, Pool, Worker and the Rust process. `stage`, `asked`,
`held`, `nth`, `reply` are a request's `Pool.Lookup`; `job` is the goroutine `Worker.Lookup`
starts, named by request and number of the lookup because it outlives the lookup when the
context ends; `stdin` and `stdout` are pipes of lines; a line is its tag, its query and a
count or a record. `RunWorker` is one round of `run_worker`, `Die` ends a process, perhaps in
the middle of an answer. `ScreeningApi` extends it with the two POST handlers: the
idempotency lease (`BeginRead`, `BeginLock`, `BeginReread`, `Commit`, `Release`),
`screenAt` (`Load` reads the active version once per item, `Lookup` and `Merge` run the
query and its expansions; `Merged` drops a record that is there already and, as `service.go:139`
does, those of a type the item did not ask for; `Score`), and the process: `StopServer`, `Exit`, `Crash`,
`Start`. Validation, list resolution and scoring appear by their outcomes.

### AlertCase, Assistance, ReviewServices (VendorAdapter, ReviewAccess)

`AlertCase` is the Store of `alertcase`, write by write under its lock directory (which a
caller waits for, and gives up on), and the handlers, which persist to PostgreSQL after they
have let go of it; requests are sent again, the database fails, the process stops. An alert is written
with the time of its request and with whether it is of another tenant than the cases (`AlertRecord`), which CreateCase
refuses (`store.go:195`); a case, and each of its events, is persisted only when the rows of its alerts are
there (`postgres.go:119-125`). `VendorAdapter`
is Process with three files under one mutex, each of which may be left torn.
`Assistance` is Assist (two model calls under the lock), Review, their receipts and audit,
through the API and through the console, while the case moves to another revision.
`ReviewAccess` is Parse and the permission, tenant and session checks of the console and
of the guard, with tokens issued under an older registry, and the security audit. `Own` is the
console's route that asks for no permission, `GET /v1/me`; no token is issued for an empty tenant.
`ReviewServices` instantiates the four, which share no state, side by side, and states what is
promised of them.

### The decision pipeline

`ScreeningPlan` compiles and resolves a plan and builds the message, the bundle and the
matcher requests; `Matchers` has the four providers and their indexes over names as
sequences of tokens over a small alphabet; `NameScore` is name similarity in basis points
(edit distance as a table of rows, ordered and phonetic tokens); `MatchRun` composes them
step by step, with the runner's validation of what a provider returns. The code has two functions
`fold`, and so has the model: that of names (`fold`) turns overridden spans round and deletes periods, apostrophes
and invisible marks, that of narratives (`contextTokens`) makes each of these the end of a token. `CandidateScoring`
is the engine of `candidatescoring`, for batches with their ids; its order is a stable sort of a list. `FalsePositive` has the ten patterns, countervailing
signals and the route; `PolicyEngine` scores, rank and clamp, and the overlay; `Retrieval`
eligibility, ranking and citations; `ReviewRun` runs them over files of observations
stage by stage, with the errors that end a run and those that go into a case; a source reference is
what the operator gave, and `BatchReference` what `TrimSpace` leaves of it. A text is
represented by the facts the rules ask of it.

## 3. The runs

Where one run checks several components, its MC module starts in one of several *sides*
(`side` never changes), and a behaviour moves only that side's variables: the run's states are the
sum of the sides', not their product. The components that do interact are composed in the
modules themselves (Promotion over ScoringActivation, ScreeningApi over RuntimePool, LedgerReplica with
PostgreSQL, the three registries of CatalogRegistries, the stages of MatchRun and of
ReviewRun).

Passing runs:

| Run | Question | Instance and why it is enough |
|---|---|---|
| `MCActivation_main` | Does whatever changes the active package keep its promises under overlap, cuts and recovery? | *Activation*: one command at a time, three activations (current, previous, one more), two cuts (a journal met by the next command, cut off again), one damaged package. *Promotion*: two intents, one instance, a good and a drifting observation, three revisions before the canary, two cuts: of a command and of its recovery, or anywhere when operators are careless. *Generations*: three, so that one is retired while another drains; two readers, four leases. *Host*: two packages, two commands, one stop, five activations (an activation, a rollback and their retries). *Fleet*: three workers, two updates with other canaries, three epochs, one fault (a lost answer, a failed probe or a stop). |
| `MCLedger_main` | Is the event chain always accepted, is what was returned kept, does the ledger refine a log; does the mirror follow; is nothing destroyed that is needed? | *Store*: two callers of one Store; three inputs, two of which are one request retried with another time stamp and one has the same request snapshot; two audit entries, two stops (a recovery is itself cut off). *Replica*: two listed events that share a snapshot, a third that reuses a key, one of another ledger; nine worlds (usual, held, colliding key, foreign rows, three policies, two drifted schemas); clock 0..4 around expiries 1 and 2; one stop. |
| `MCOutbox_main` | Is the lease protocol safe for callers of one store, and does it refine the work queue; is one request acknowledged under a key, whichever process enqueues it? | *One store*: two callers, one key, two payloads (a conflict under the key), two attempts (retry and burial), clock 0..2 with lease and delay 1 (early, on time, late), one crash with or without a torn file. Two callers suffice for every pairwise race inside one mutex. *Two stores*: a caller in each of two processes, the same key and payloads, one crash; races for the names of a message, a receipt and an event (`LostRace`). The two sides share the message and receipt files, which `AckedOncePerKey` is about, and nothing else. |
| `MCScreeningApi_safe` | Is no worker lost, shared or out of step, and is what is recorded complete and of one version? | Two requests with one key (one a batch item with an expansion), two pools and a third version without one, queries with one and two records under a limit of two (so that the limit cuts the merged list), of which one is of a type that is not asked for, one activation, one dying worker, one stop or crash with restart, timeouts anywhere. |
| `MCScreeningApi_live` | Does each request end, and does a stop end? | One pool of one worker, so that requests wait for it; a death, a restart, timeouts anywhere. |
| `MCCatalog_main` | Is what was executed what was approved, does no registry forget, can each be loaded or repaired? | Three commands of which two overlap, one stop with or without a torn file, two points of time (a retry with another `created_at`, one analysis made twice); one component offered two versions and refreshed by two inventories (a new list version, a missing list), a mapping that is bound and retired. |
| `MCReview_main` | Do the services of the review keep one history, one answer per key, and the rights in force? | *Cases*: three alerts of which one is another tenant's, a case and a request for a second that mixes tenants, two actors, batches, requests sent again, two running, three sends, two stops (of which each may let a request in once more), one database fault; started from an empty case and from two later ones, so that propose, approve, reject and reopen are all reached within the sends. *Vendor*: four sources of which two reuse a key with other bytes and one is invalid; four sends, one fault. *Assistance*: four passages of which one is another tenant's, replies that cite foreign passages, models that fail, reviews by the asker and by others through both ways, one stop. *Access*: two registries (one deactivates a user and moves an epoch), a token of any user, tenant, time and registry (what a token may do depends on no other token), an expiry, a route without a permission, three requests of which two overlap, two restarts. |
| `MCDecision_main` | Do the rules of the pipeline together decide what they promise, and are deltas applied in turn or not at all? | *Refresh*: six catalogs (a change of one record, of all, a removal, a new version of the same content), two policies, two forged deltas, two jobs in sequence, two points of time, one stop. *Matching*: names of up to three tokens, texts of up to four, both with connecting marks and turned spans, codes with valid and invalid identifiers, four providers, five plans, stale bundles. *Scoring*: two policies, three subjects, lists of up to three candidates, batches of up to two items with equal and missing ids and ties. *Review*: the shipped library, countervailing policy and overlay and accepted variations; observations that vary one or two facts from a plain one; two tenants, two dates, of which one is before the first day of a document and one after the last day of another; a source reference with white space around it, and a blank one. |

Violation runs are in section 6. Each property of a passing run has a mutant in
`PROJECT.json`: a plausible defect of a mapped definition under which the same run finds the
property violated.

`CHECK_DEADLOCK FALSE` is used where the system may rest: requests are all answered, inputs are
used up, a promotion has reached its end (`promotion.json` is never removed), or a lock
file is left behind.

## 4. Fairness

* Generations: `WF` on the steps of an Activate that has begun and on each reader's steps in Acquire
  and of its Release. That a reader gives its lease back is an assumption about callers (there are none outside tests
  at this commit): without it a generation drains never, in the code as in the model. Nothing
  forces a reader to acquire.
* Promotion (`PromotionFairness`): `WF` on the command in progress (it runs or is cut off), and on `Recover`
  by careful operators, which they are told to run (`docs/design/phase8f*`). Without the second, nothing in the
  code completes a transaction, as no command runs recovery on its own.
* Screening API: `WF` on handlers, lookups, goroutines, the expiry of a request's context (it has a
  deadline), Close and the exit of main. `WF` on `RunWorker` is an assumption about an external
  process: it answers or dies. It is needed, because `Worker.Close` takes the worker's mutex before
  it kills the process, so a process that hangs would keep Close, and the shutdown, for
  ever. There is no fairness for receiving requests, deaths, crashes, activations or restarts.
* The other components have no liveness property. A store's mutex is released by a deferred
  unlock on every path; the other locks are directories and files that a stop leaves behind, so that no fairness
  makes their operations succeed (section 7).

## 5. What is proved

TLAPS checks all proofs, for any number of callers, stores, keys, inputs, activations, commands,
attempts, crashes and ticks, from named assumptions on the constants only: types; that the "none" values
are not values; and, where a module says so, what the code's own input is like. `CatalogAssumption`: version
identities are not the empty one, the version that is active at first has records and a component that exists,
mappings start and end at numbers and bind or retire, and the candidates a directory starts with are analyses of a provider's component that
were accepted. `VendorAssumption`: a torn file is not mistaken for a record, a receipt or an audit entry. `ReplicaAssumption`: finitely many events, the rows of another ledger are not among them, a world's
catalog is the declared one or has one fact off. `RegistryFits`: finitely many readers. `ConstantsFit` of the fleet: canaries
are workers. `PromotionAssumption`: finitely many instances, the base and the candidate are two activations.
`DraftAssumption`: a request has the fields of its kind, and no answer of a model is "none".
`CaseAssumption`: a request has the fields of its kind, and a history that a directory starts with is one the code could have
written (`SeedFits`: each event saw the revision before it, no receipt is used twice, and its replay tells who proposed and
approved); TLC evaluates it on the seeds. It names the result of the replay because what a fold computes over a
sequence needs an induction; an empty directory needs none of it. Theorems for the case of one process have the extra hypothesis `SingleStore` or
`OneCaller` in their statement; they fail without it.

**OutboxProofs.** `TypeCorrect`; `Idempotent` (any number of stores: acknowledgements of one key
name one request); with one store `Lifecycle`, `Leases` (`LeasesKept`: only the current lease finishes a
message, in its time, and no message is leased more often than allowed), and
`Refinement` (`Spec => WorkQueue`). The inductive invariant: the mutex is held by exactly the callers past their
lock (`MutexInv`); a message with an event has its file, and a receipt
names a message that exists (`DiskInv`); the snapshot `by` a caller decides on is still what is on disk for
the messages in its `todo` (`FreshInv`, the heart: the caller is alone behind the mutex, and its
own writes touch a message it has taken out of `todo`); the attempt number is the number of
leases (`CountInv`).

**LedgerStoreProofs.** `TypeCorrect`, `SnapshotsDurable` (any number of processes); with one Store
`VerifySound`, `Durable`, `HeadMonotone`, `StoreHolds` (all of `StoreKept`, with `AuditForksAreStops`) and
`Refinement` (`Spec => AppendLog`). The invariant:
`MutexInv`, `CallInv` (what a call in progress carries), `FileInv` (an event file holds a
chain that ends in its own entry), `MarkerInv` (the marker is one entry beyond the head, or is the head),
`ChainInv` (the event files are exactly the prefixes of `History`), `FreshInv` (the head an Append read is
still the head) and `ToldInv`. Steps are first classified as Same, Mark, Commit, Redo
or Drop (`Kinds`), so that chain reasoning is done five times and not once per action. The audit
has an invariant of its own (`AuditInv`): entries beside the chain that ends in the audit head
are no more than stops, not counting the one a caller behind the mutex is about to make the head.

**LedgerReplicaProofs.** `ReplicaSound`, `MirrorSound` (`MirrorHolds`: what is marked is mirrored, the mirror is the
beginning of a chain, nothing is written into a schema that is not the declared one), `Promises` (`PromisesKept`: only expired
snapshots that nothing holds are destroyed) and `FreshPurges` (`FreshPurgeStands`: a purge verifies, whoever
anchored it, until a later anchor covers it). First the operators: `DriftNoticed` goes through all catalogs
with one fact off, before and after a migration, and shows that the check of the schema notices each; Min and Max of
a finite set of numbers are its least and its greatest element (by well-founded induction over numbers).
Then the invariant `ReplicaInv`, for any number of commands, appends, stops and ticks at once: `Ordered` (the chain repeats
nothing; of an event in the mirror, those before it are there too), `Guarded` (a drifted schema has no rows of
this ledger), `CommandsSound` (what each command has read and still has to do), `Attested` (what an audit
entry names was recorded by the process that wrote it), `Timely` (an anchor is no earlier than the
tombstones it attests to). The argument is that a command's reads stay true while others run because
chain, trail, markers, rows and tombstones only grow (`Grows`), and that a set of events
closed under "before" in a shorter chain is closed in the longer one (`ClosedStays`).
`AnchoredPurgeStands` is not proved, since it is false (section 7).

**ScreeningApiProofs.** For any requests, keys, bodies, pools, workers, stops and deaths: `TypeCorrect`
(of RuntimePool and ScreeningApi together; the type of a handler includes that it is at a query of an
item of its body), `OneLease`, `AnswersRecorded`, `SendsAreSafe`, `PoolKept` (`PoolSound`: no worker is lost or
shared, none is out of step, no send on a closed channel, one lease per key) and `RecordsWhole`
(`RecordsComplete`). `LeaseExclusive` is inductive with the types. `AnsweredIsRecorded` needs that a handler
between Commit and its answer has a record too (`CommittedIsRecorded`) and that records are never taken away
(`RecordsStay`). `RuntimeInv` is behind `PoolSound`:

* `PoolInv`: a channel is closed only in a closed pool, no lookup past `Enter` is of a pool whose
  channel is closed, and only a lookup that waits or returns holds a worker;
* `ChanInv`: a worker is in its pool's channel once, or held by one lookup, or the pool is closing;
* `MutexInv`: a worker's mutex is held by the one goroutine that exchanges lines with it, which may
  belong to a lookup that has long given up;
* `PipeInv`: what that goroutine finds in the pipes is what is left of the answer to its own query
  after the lines it has read; a worker at rest whose process lives has empty pipes. This is why a lookup
  that times out does not leave its answer to the next one.

`RecordsComplete` follows from it by `CallInv` (a lookup that succeeds returns all candidates of its own query, from
its own version) and `HandlerInv` (a handler at query k has every candidate of the queries before; the items
before its own are whole).

**CatalogRegistriesProofs.** For any commands, stops, torn files and points of time, with all three
directories and Promote's way through them: `RegistriesSound`, `ExecutionsApproved` (`ExecutedAsApproved`: what a recorded execution
activated is what the approval before it approved, in the place of the version it was analyzed against), `HistoryHolds`
(`HistoryKept`: no log or set of versions loses an entry), `FilesSound` and `RegistriesStand` (`RegistriesKept`, which adds
to `HistoryKept` that every registry can be loaded or repaired and that what is counted as mapped is what is resolved). The invariant `RegistryInv` says of each directory what a
`registry.json` holds (`DocOK`), and of a command what it was given (`JobOK`), that its next writes are still
sound against the directory as it is now, because it holds its lock (`WritesOK`), and that the activation it
will record is in the log of the catalog, or in the registry it is about to write (`MadeOK`). It is
proved per operation what its list of writes may contain, then per step. `FilesInv` is the invariant of the
files: each `registry.json` has the file of everything it speaks of (`Filed`) and passes its store's validation (`Valid`), and the one
that a command is about to write will, once the writes before it are made (`Writes`). An active pointer that is not what
`registry.json` says (`Pointers`) belongs to a command between its last two writes (`InFlight`), or to the one activation that a
stop cut off there, which may still be made (`Ahead`); running it again is then shown to collide with no file, since none
of an activation is torn (`Clean`), and to leave a catalog that loads. That the two ways of reading a mapping's timeline count the
same is a bijection from counted versions to resolved lists, as the versions of a list advance strictly in time.

**PackageUseProofs.** *Scoring activation*: `TypeCorrect` and `Anchored` (active and previous documents exist) for any
number of commands at once; `MovesLinked` and `RecoveryIsSound` (recovery finds what it needs, and moves the pointer
only away from an activation that no longer validates) for one at a time. The first two rest on
types, `DocsInv` (a document is stored under its ID) and `HeldInv` (what a command is about to store or
to point at); the others add `ActiveInv`, `JournalInv` (a journal explains the last move, or
a move not made) and `KnownInv`.

*Promotion*: `CandidateIsEarned` (`CandidateEarned`), for any intents, instances, thresholds, operators and cuts. `PromotionInv` says that
every state that is written, pending or about to be written follows the one that is there (`StateInv`), so
that a transaction completed late writes what is there already or the next revision; that a command which moves the pointer
moves it where its own state says (`PointerInv`); and that the pointer is, or will be, at the candidate only when
enough instances are ready and the phase has passed the canary's start (`ServingInv`), which is what remains true when
Promote is cut off between the two stores. Acknowledgements are never taken back, so enough stays enough.
`PromotionAudited` (`AuditHolds`) is about operators who recover first. `CarefulInv` says for each place of a command
which of the five files of its transaction are written: the pending transaction is there while it is written or after it was cut off
(`AloneInv`); `active.json` is where that transaction's state says, or else the last one written (`HandInv`); no revision beyond the
one in hand has a snapshot (`SnapshotInv`); the head is at the pending event or right before it (`HeadInv`), which is why
Recover appends it once; the chain tells of the state it is at (`TaleInv`, and the lemmas `AckTold` and the like on what one more
event does to a chain); and the event files are the beginnings of the chain and at most one event ahead of it (`FilesInv`).

*Registry of generations*, for any generations, readers and leases: `CountsAreExact` (a generation's counter is the
number of readers in `Counted`) and `DrainSound` (`DrainedIsUnread`), from `CountInv` (a cardinality, by
the lemma `CountedStep` on what one reader's step does to the set), `RetireInv` (what was replaced is not active,
now or later) and `DrainInv`: the count is zero when a generation is reported drained, and a reader that
counts itself later fails the second look. *Host*: `Succession` (`PointerSucceeds`), for any commands and stops, from
`LockInv` (one command at a time, until the operator removes the lock of a dead one), `BuiltInv` (what a
command is about to write was built on the generation that is active still) and `WrittenInv` (a record before the pointer).
*Fleet*: `PointerBehind` (`FleetBehindPointer`), for any workers, updates, canaries and faults, from `DoneInv`: which workers
run the target of the operation at each of its stages.

**ReviewProofs.** *Access*: `AccessSound` (`AccessHolds`), for any registries, tokens, overlapping requests, time-outs
of the lock and restarts. Each step a request may take was in the rights of the registry in force when it was checked
(`ServedIsEntitled`; by `CallsInv` what Parse found of a token stays true until its request is handled, as a process reads a
registry only when it starts, with no request running), and the security audit is one chain (`TrailInv`),
because what a request has read of it to append to is still all of it: it alone is past the lock directory. *Vendor*: `VendorSound` (`ReplayIsExact`), for any profiles,
sources, requests at once, torn writes, faults and stops. `JobsInv` says what the one request that holds the mutex has
written and has not (`Halfway`), and that a request on its way to PostgreSQL has its record and its receipt in the
directory; `FilesInv` says that a record has its own name and that a receipt is of a whole record with
that key, which makes two answers for one key the same record; `CleanInv` counts the entries that vouch for a
record while nothing was cut off. The steps of `Process` are one lemma each for the record, the receipt and the
audit, and a torn write is shown to say nothing and to hide nothing (`TearKeeps`).

*Assistance*: `DraftsSound` (`ReviewsStand`), for any corpus, requests, answers of the two models and stops. What a request in
hand is about to write is sound (`DraftJobOK`, `Begun`): passages the tenant may see, a draft that cites only
these, a review of a record another actor asked for. An event of a history has its receipt, or is of the one operation that is between
its files, or of one that a stop cut off (`EventOK`): so a request that the lock lets in is in the history already only when
a stop lost its receipt, and `torn` is what the property excepts.

**CaseProofs.** `CasesSound` (`AppliedOnce`) and `DatabaseSound` (`DatabaseFollows`), for any alerts, cases, events, batches, requests at
once and sent again, stops and database faults. The heart of `CaseInv` is that the request behind the lock carries out a
plan of which the first writes are done and the others are to do (`Carried`, `Working`): event, projection, head, audit event,
audit head, receipt. Of a case that no request is working on, the projection is at the head's revision, or one ahead if a stop cut
an operation off (`CaseOK`, `Ahead`), and each event of its history is `Spent`: it has its receipt, or saw a revision
that has gone by, and would be refused either way. One event may lose both at a stop; it is accepted again only against
a projection left one ahead, which takes the second stop that `AppliedOnce` excepts. `Backed` says of a proposal in
force, and of an approval, which event made it and by whom. Rows follow the files (`RowsOK`), since no file is
taken away and a projection's revision never falls.

Only model-checked:

* liveness (fairness and ENABLED are out of the prover's reach): `RecoverCompletes`, `Drains`, `RequestsEnd`, `StopEnds`;
* `CaseVerifies`: that the replay of a history gives the projection written beside it is an induction over the history;
* every property of CatalogDelta and of the decision pipeline. What their recursions compute for every input (edit distance, token
  matching, folds over sequences of deltas) needs an induction whose predicate is a parameter, which the installed provers
  cannot instantiate; facts about a least element can be had without it, and are used above.

## 6. Where the code and its documents disagree

Four runs state what a document says and TLC finds a behaviour of the code that violates it.

* `MCPromotion_pointer`: Promote fails after the pointer has moved and before its
  transaction is on disk; the candidate is active in phase canary, Promote is refused since the
  base is no longer active, and Rollback since the phase is not promoted.
* `MCScreeningApi_race`: a request that found no record takes the lock after another was recorded and
  released it, does not look again, and replaces a record that is documented as immutable.
* `MCReview_durable`: with PostgreSQL required, a retry of a case event persists the latest event
  of the case, not its own; when another was applied in between, the retry succeeds and its
  own event never reaches the database.
* `MCDecision_padded`: `review-run` is given a source reference with white space around it. It is not blank
  (`orchestrate.go:38`), is kept as it is (line 128), and is compared with that of the observations, which is trimmed
  (`falsepositive/validate.go:20`), only when the bundle is validated (`revieworchestrator/validate.go:37`): the run fails
  after its decisions, citations and notes were made. `docs/design/phase6b-review-orchestration.md:20` has runs
  fail only while no valid decision exists. `DecisionsSurvive` says what holds: for other references, nothing that
  fails after the decisions loses them.

`PROJECT.json` quotes the lines.

## 7. Seen in the models, not kept as runs

Each of these is a behaviour of a model, most of them reached by changing constants of a kept
configuration or by stating a stronger property. They are what a stronger property would meet.

* **Outbox.** A crash between message and receipt, then other bytes under the same key: both messages are
  leased later (`outbox.go:69`; the design document says reuse of a key with different bytes is rejected).
  Only acknowledged requests are protected (`AckedOncePerKey`). Two processes over one directory append
  events the documented lifecycle does not have (`outbox.go:119`): the mutex is per process, and an
  append takes the next free number whatever was written since the decision.
* **Ledger, local store.** AppendAudit cut off between entry and `audit-head.json` (`audit.go:44`): verification
  refuses the honest ledger from then on and the next entry forks it. With two Stores over one
  directory, a recovery that read an old marker sets `head.json` back (`store.go:391`).
* **Ledger, mirror.** A purge that one anchor attests to stops verifying once two anchors follow it
  (`anchor.go:435`; `docs/adr/0007-audit-chain-integrity.md` promises that it stands). An event appended
  after PurgeExpired has listed the events, and not mirrored yet, does not protect its snapshots.
* **Activation.** Two commands with one new ID both find it free and the later rename wins
  (`manager.go:112`). Another command runs between PromoteExisting's comparison and its write and is
  overwritten (`phase8f_promotion.go:111`). Stage stores absolute package paths where Activate
  stores relative ones (`phase8f_promotion.go:65`).
* **Promotion.** A cut between an acknowledgement's writes breaks the audit chain (`manager.go:218`); a cut
  between snapshot and transaction makes the next revision impossible (`manager.go:428`); a stale
  `.lock` stops recovery too (`manager.go:554`). A blocked promotion accepts an earlier passing
  report, and refuses new observations.
* **Screening API.** A process that ends between Mkdir and Release leaves the lock directory, and the key
  is busy for ever; SIGTERM does this too, since `serve` returns as soon as the listener is
  closed and does not wait for handlers (`cmd/screening-api/main.go:63-75`). The worker applies the limit before the
  API looks at types (`service.go:139`), so a lookup may spend its limit on records of other types; `RecordsComplete`
  speaks of what the lookups return. A worker that died stays in its
  pool: lookups that get it fail, and readiness does not notice.
* **Catalog runtime, fleet.** A stop leaves `.activation.lock`; the same activation after a stop between record and
  pointer is refused, because its record exists. A fleet activation that fails half-way leaves
  some workers on the new package under epoch n+1 while the pointer keeps n, and the next activation
  uses n+1 again. Rollback ignores whether a worker staged the package and takes the epoch after that of
  the update it leaves. Update records are exclusive, so preparing again at another time collides.
* **Catalog refresh.** The change ratio exceeds 10000 when more records change than the larger catalog has: such a
  delta fails validation, and BuildDelta and Evaluate return an error where
  `docs/design/phase2d-delta-refresh-promotion.md:90` has `force_full_rebuild`. A decision's name leaves out
  the time its file contains, so preparing the same delta again at another time fails with
  "immutable promotion decision collision". A torn delta, decision or package file makes every
  retry fail. Three of the policy's switches change nothing, since Apply checks the same.
* **Catalog governance.** A rejection recorded between Promote's load and its activation is not noticed. Executions may be
  recorded in another order than the activations were made; two promotions of one candidate with
  equal time stamps and a rollback in between both execute; after a stop between Activate and recordExecution
  the candidate is active, is never recorded and cannot be tried again. A torn version file makes that version
  unregistrable; a mapping tried again at another time collides with its own key file. After a stop between
  pointer and `registry.json`, Load refuses until activate is run again; after two such stops, of two components, until
  both are (which Load refuses in between: `Recoverable` is about one stop).
* **Cases.** With PostgreSQL required, a retry of an alert that was already persisted is answered 503 for ever,
  since its idempotency key exists (`docs/design/phase9ab-deterministic-alert-case-backend.md:42` promises
  completion). Case events never synchronise the audit. A stop between projection and head makes the next
  event reuse the sequence, and the case never verifies again; one between audit event and audit head does
  the same to the audit, and with it to readiness. After a stop past the alert file its audit entry is never written.
  Two stops that each cut an operation off let one request be appended twice: the projection is ahead of the head, so
  the request still sees the revision it expects (`alertcase/store.go:279`) while the sequence comes from `head.json`; this is what
  `AppliedOnce` excepts. A `.lock` left by a stop makes every operation time out. VerifyCase takes no lock, so it can say "invalid"
  during an operation.
* **Vendor adapters.** A stop after the record and before the receipt makes every retry of those bytes fail,
  while other bytes under the same key are accepted. A torn audit file makes each later new alert fail after its record
  and receipt; its retry succeeds as a replay and is never audited. Receipt names drop special characters,
  so keys may collide. With PostgreSQL required a replay is answered 503 for ever.
* **Assistance.** Assist holds the lock over two model calls while others give up after 15 s. A stop between record and
  receipt lets the retry overwrite the record; one between review and receipt lets the retry add a second
  review (`assistancerag/store.go:366`, against `docs/design/phase9c-governed-rag-larger-model-assistance.md:127`).
  `case-assistance-api` is not wrapped by `httpauth`, so its tenant assertion always fails. Four eyes are enforced
  by the console only.
* **Review access.** The audit entry is appended after the answer and its error is ignored
  (`reviewconsoleapi/server.go:192`, against `docs/design/phase9f-auth-rbac-review-console.md:10`); the guarded
  services are started without an audit; a lock left by a stop loses all later entries silently; the
  registry is read at the start only.
* **Matching.** The two folds disagree: a listed "O'Brien" is OBRIEN to the search of names and O BRIEN to that of
  narratives, so a remittance text with "OBRIEN" does not find it (nor "O'Brien" a listed "OBrien"), and a turned or
  invisibly broken name is found in a name field and not in a narrative. `docs/adr/0008*` (lines 72-80) describes the fold of names only.
  `HitsAreReported` speaks, for narratives, of texts without such marks. The first occurrence of a phrase decides about denial, so a later affirmative one is shadowed, and a policy's
  first phrase that is found only as an ordered window below its threshold shadows a later contiguous one
  (`matchercontext/provider.go:259`). The score floor comes before the denial diagnostic, so that a strong phrase
  whose penalised score falls below the floor vanishes
  (`docs/design/phase3b-contextual-geography-remittance.md:45` says it is emitted). Equal names without Latin letters
  lose the phonetic weight. Of two aliases that differ only in strength, which one is kept is not determined.
  Penalties that sum to more than 10000 fail the batch, and one candidate more than `MaxCandidates` the message. A plan
  entry with routes and no candidate types compiles but cannot be projected; overlapping patterns compile and fail
  only when a path matches both. An ill-formed identifier is never searched.
* **Review run.** An empty matcher result makes the run fail. Under a valid policy with minimum countervailing score 0
  and an uncapped investigate hint, an observation without any identifier escalates. An exact BIC under `retain_only` gives no
  signal. A `clear_eligible` pattern wins over an `investigate` one. A minimum retrieval score of 0 lets a passage with score
  0 into the package, which then is invalid.

## 8. What is not modelled

Components: the **Gateway** (rate buckets, concurrency tokens, draining), and the **backup and PostgreSQL
synchronisation of operations**, are the two with state that remain (section 9). The **mmap catalog
format and projections**, **OFAC sources and catalogs**, **release qualification**, **tenant SQL**, **other
commands and database migrations** are left out for good: byte layouts, XML, batch checks of
artifacts, SQL schema and argument parsing, whose correctness is in data that cannot be
enumerated, and which keep no state.

Parts of modelled components: `postgres.go` of the catalog registry and of the alert-list mapping, and the
ledger's direct sweep, which have no caller; the ledger's import of old audits; the HTTP retrieval provider;
the XML of each ISO 20022 message (a document is the list of its fields); Unicode tables beyond an
accented, a lower-case and a non-Latin letter, a connecting mark and the two marks of a turned span; providers that support
fewer than the ten routes and seven types (every descriptor in the repository lists them all, `matcherprovider/fixture.go:121`); signatures, which are taken as unforgeable; the
compilation of a corpus; the console's pages.

Bounds: clocks, attempts, crashes, faults, lookups, sends, restarts, sequences and revisions are bounded by named
constants in guards; the proofs do not depend on their values. Directories are
not damaged from outside (tampering is what verification is for), except for the packages that `Damage` breaks and
the deltas in `Made`. Disk writes are durable
when they return: a machine that loses a rename after it returned is outside the models.
`fsync` is therefore not visible.

## 9. Plan

Runs are kept to about a dozen, so that new questions are merged with or replace older ones.

1. A proof of the part of `CompiledIsDecided` that is about the files, the base and the sequence of a preparation; its limit on
   changed records says what the fold over a delta's operations computes, and stays with TLC.
2. An abstract specification for the case backend (a history per case that grows by accepted events) and
   the refinement by AlertCase under its lock; the same for the vendor adapters (one record per key). `CaseInv` and `JobsInv` hold what both need.
3. `Gateway`: tokens conserved on all paths of a request, and a drain that ends.
4. The backup of a directory that is being written to, and the per-tenant transactions of the
   operational synchronisation.
5. Longer runs for the parts whose instances are smallest: two commands at a time in LedgerReplica, and
   cases with shared alerts in AlertCase.
