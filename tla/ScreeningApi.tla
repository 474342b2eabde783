---------------------------- MODULE ScreeningApi ---------------------------
(***************************************************************************)
(* The screening API: POST /v1/screenings and its batch form               *)
(* (internal/screeningapi/http.go, idempotency.go, service.go) over the    *)
(* runtime pools, with the process stopped, killed and started again.      *)
(*                                                                         *)
(* A request is read, given a lease on its idempotency key, screened item  *)
(* by item against the catalog version active when the item is resolved,   *)
(* recorded under its key, and answered.  An item asks one query and the   *)
(* expansions of it.  Scoring adds evidence to the candidates found and    *)
(* does no more than block an item as a whole; what an item found stands   *)
(* for its response.                                                       *)
(***************************************************************************)
EXTENDS RuntimePool

CONSTANTS Keys, Bodies,
          KeyOf, BodyOf,  \* idempotency record path and bytes of a request
          Items,          \* the items of a body, each a sequence of queries
          Targets,        \* the entity types an item asks for; none asked for are all
          EntityType,     \* of a record
          Versions,       \* catalog versions that can be active
          MaxRestarts,    \* bound on stops and crashes of the process
          MaxActivations, \* bound on changes of the active version
          None

Results == [version : Versions \cup {None}, found : SUBSET Candidates]

ASSUME ApiAssumption ==
  /\ KeyOf \in [Requests -> Keys] /\ BodyOf \in [Requests -> Bodies]
  /\ Items \in [Bodies -> Seq(Seq(Queries))]
  /\ \A b \in Bodies : Len(Items[b]) > 0 /\ \A n \in 1 .. Len(Items[b]) : Len(Items[b][n]) > 0
  /\ Pools \subseteq Versions /\ None \notin Versions
  /\ None \notin [body : Bodies, results : Seq(Results)]
  /\ MaxRestarts \in Nat /\ MaxActivations \in Nat

VARIABLES
  record,    \* <digest of endpoint, tenant and key>.json
  lockDir,   \* <the same>.json.lock
  active,    \* the active version in the catalog registry
  h,         \* the handler of each request
  answer,    \* what its client was told
  restarts, activations

apiVars == <<record, lockDir, active, h, answer, restarts, activations>>
vars    == <<runtimeVars, apiVars>>

(* A handler: its step, the item and the query it is at, the version of    *)
(* the item, what the item found so far, and the items that are done.      *)
Fresh(l) == [pc |-> l, i |-> 1, k |-> 1, version |-> None, got |-> <<>>, results |-> <<>>]

Init ==
  /\ RuntimeInit
  /\ server = "open"
  /\ deaths = 0
  /\ record = [k \in Keys |-> None]
  /\ lockDir = [k \in Keys |-> FALSE]
  /\ active \in Pools
  /\ h = [r \in Requests |-> Fresh("new")]
  /\ answer = [r \in Requests |-> None]
  /\ restarts = 0
  /\ activations = 0

-----------------------------------------------------------------------------
Goto(r, l) == h' = [h EXCEPT ![r].pc = l]

Reply(r, a) ==
  /\ h' = [h EXCEPT ![r] = Fresh("done")]
  /\ answer' = [answer EXCEPT ![r] = a]

(* A record answers a request with the same bytes and refuses another.     *)
FromRecord(r) ==
  LET rec == record[KeyOf[r]]
  IN Reply(r, IF rec.body = BodyOf[r] THEN [code |-> "ok", results |-> rec.results]
              ELSE [code |-> "conflict"])

(* The listener takes requests until the process is told to stop.          *)
Receive(r) ==
  /\ h[r].pc = "new"
  /\ server = "open"
  /\ Goto(r, "read")
  /\ UNCHANGED <<runtimeVars, record, lockDir, active, answer, restarts, activations>>

BeginRead(r) ==
  /\ h[r].pc = "read"
  /\ IF record[KeyOf[r]] # None THEN FromRecord(r)
     ELSE Goto(r, "mkdir") /\ UNCHANGED answer
  /\ UNCHANGED <<runtimeVars, record, lockDir, active, restarts, activations>>

BeginLock(r) ==
  /\ h[r].pc = "mkdir"
  /\ lockDir' = [lockDir EXCEPT ![KeyOf[r]] = TRUE]
  /\ Goto(r, IF lockDir[KeyOf[r]] THEN "reread" ELSE "load")
  /\ UNCHANGED <<runtimeVars, record, active, answer, restarts, activations>>

(* The directory cannot be read or written.                                *)
StoreError(r) ==
  /\ h[r].pc \in {"read", "mkdir"}
  /\ Reply(r, [code |-> "error"])
  /\ UNCHANGED <<runtimeVars, record, lockDir, active, restarts, activations>>

(* The lock is taken: the record may have come meanwhile.                  *)
BeginReread(r) ==
  /\ h[r].pc = "reread"
  /\ IF record[KeyOf[r]] # None THEN FromRecord(r) ELSE Reply(r, [code |-> "busy"])
  /\ UNCHANGED <<runtimeVars, record, lockDir, active, restarts, activations>>

-----------------------------------------------------------------------------
(* The item is done: the next one, or the record.                          *)
NextItem(r, result) ==
  LET rest == h[r].i < Len(Items[BodyOf[r]])
  IN h' = [h EXCEPT ![r] =
             [pc |-> IF rest THEN "load" ELSE "commit",
              i |-> IF rest THEN h[r].i + 1 ELSE h[r].i, k |-> 1,
              version |-> None, got |-> <<>>, results |-> Append(h[r].results, result)]]

(* screenAt: the body is valid and both registries load, or the request    *)
(* fails; the list has a component to screen against, or the item is       *)
(* blocked; the active pointer of that component is read once.             *)
Load(r) ==
  /\ h[r].pc = "load"
  /\ \/ Goto(r, "fail")
     \/ NextItem(r, [version |-> None, found |-> {}])
     \/ h' = [h EXCEPT ![r].pc = "lookup", ![r].version = active]
  /\ UNCHANGED <<runtimeVars, record, lockDir, active, answer, restarts, activations>>

Query(r) == Items[BodyOf[r]][h[r].i][h[r].k]

(* Mutant: the version is read again for every expansion.                  *)
Lookup_ReadsAgain(r) ==
  /\ h[r].pc = "lookup"
  /\ Bind(r, active, Query(r))
  /\ UNCHANGED apiVars

Lookup(r) ==
  /\ h[r].pc = "lookup"
  /\ Bind(r, h[r].version, Query(r))
  /\ UNCHANGED apiVars

(* One lookup is back: its candidates are merged, and the next expansion   *)
(* is asked of the same version; one that failed fails the request.        *)
Merge(r) ==
  /\ h[r].pc = "lookup" /\ stage[r] = "out"
  /\ reply[r] # NoReply
  /\ reply' = [reply EXCEPT ![r] = NoReply]
  /\ IF reply[r] = Failed THEN Goto(r, "fail")
     ELSE LET more == h[r].k < Len(Items[BodyOf[r]][h[r].i])
          IN h' = [h EXCEPT ![r].got = @ \o reply[r].found,
                            ![r].k = IF more THEN @ + 1 ELSE @,
                            ![r].pc = IF more THEN @ ELSE "score"]
  /\ UNCHANGED <<poolVars, server, stage, asked, held, nth, expired, job, workerVars, deaths,
                 record, lockDir, active, answer, restarts, activations>>

(* The candidates of an entity type that an item asks for.                 *)
Allowed(b, n) ==
  {c \in Candidates : Targets[b][n] = {} \/ EntityType[c[1]] \in Targets[b][n]}

(* Mutant: a candidate that is passed over is counted all the same.        *)
Merged_CountsAll(s, a) ==
  {s[n] : n \in {m \in 1 .. Len(s) :
                   s[m] \in a /\ Cardinality({s[j] : j \in 1 .. m}) <= Limit}}

(* The candidates of all lookups of an item: each allowed record once, in  *)
(* the order of the lookups, until there are as many as one lookup may     *)
(* have.                                                                   *)
Merged(s, a) ==
  {s[n] : n \in {m \in 1 .. Len(s) :
                   s[m] \in a /\ Cardinality(a \cap {s[j] : j \in 1 .. m}) <= Limit}}

(* Scoring fails the request, or adds its evidence and sorts.              *)
Score(r) ==
  /\ h[r].pc = "score"
  /\ \/ Goto(r, "fail")
     \/ NextItem(r, [version |-> h[r].version,
                      found |-> Merged(h[r].got, Allowed(BodyOf[r], h[r].i))])
  /\ UNCHANGED <<runtimeVars, record, lockDir, active, answer, restarts, activations>>

(* Mutant: the client is answered although the record was not written.     *)
Commit_IgnoresError(r) ==
  /\ h[r].pc = "commit"
  /\ \/ record' = [record EXCEPT ![KeyOf[r]] = [body |-> BodyOf[r], results |-> h[r].results]]
     \/ UNCHANGED record
  /\ Goto(r, "release")
  /\ UNCHANGED <<runtimeVars, lockDir, active, answer, restarts, activations>>

(* lease.Commit renames a file over the record, or fails.                  *)
Commit(r) ==
  /\ h[r].pc = "commit"
  /\ \/ /\ record' = [record EXCEPT ![KeyOf[r]] = [body |-> BodyOf[r], results |-> h[r].results]]
        /\ Goto(r, "release")
     \/ Goto(r, "drop") /\ UNCHANGED record
  /\ UNCHANGED <<runtimeVars, lockDir, active, answer, restarts, activations>>

(* Mutant: a request that failed keeps its lease and its handler.          *)
Release_CommittedOnly(r) ==
  /\ h[r].pc = "release"
  /\ lockDir' = [lockDir EXCEPT ![KeyOf[r]] = FALSE]
  /\ Goto(r, "respond")
  /\ UNCHANGED <<runtimeVars, record, active, answer, restarts, activations>>

(* Commit releases the lease before the answer, the deferred Release       *)
(* after it.                                                               *)
Release(r) ==
  /\ h[r].pc \in {"release", "drop", "unlock"}
  /\ lockDir' = [lockDir EXCEPT ![KeyOf[r]] = FALSE]
  /\ CASE h[r].pc = "release" -> Goto(r, "respond")
       [] h[r].pc = "drop"    -> Goto(r, "refuse")
       [] h[r].pc = "unlock"  -> h' = [h EXCEPT ![r] = Fresh("done")]
  /\ UNCHANGED <<runtimeVars, record, active, answer, restarts, activations>>

Respond(r) ==
  /\ \/ h[r].pc = "respond" /\ Reply(r, [code |-> "ok", results |-> h[r].results])
     \/ h[r].pc = "refuse"  /\ Reply(r, [code |-> "error"])
     \/ /\ h[r].pc = "fail"
        /\ answer' = [answer EXCEPT ![r] = [code |-> "error"]]
        /\ Goto(r, "unlock")
  /\ UNCHANGED <<runtimeVars, record, lockDir, active, restarts, activations>>

Leased(r) ==
  h[r].pc \in {"load", "lookup", "score", "commit", "release", "drop", "fail", "unlock"}

Timeout(r) == Leased(r) /\ Expire(r) /\ UNCHANGED apiVars

Handle(r) == \/ BeginRead(r) \/ BeginLock(r) \/ BeginReread(r) \/ StoreError(r)
             \/ Load(r) \/ Lookup(r) \/ Merge(r) \/ Score(r)
             \/ Commit(r) \/ Release(r) \/ Respond(r)

-----------------------------------------------------------------------------
(* The catalog registry is another process's: it may activate a version    *)
(* this process has no pool for.                                           *)
ActivateVersion ==
  /\ activations < MaxActivations
  /\ activations' = activations + 1
  /\ active' \in Versions \ {active}
  /\ UNCHANGED <<runtimeVars, record, lockDir, h, answer, restarts>>

(* SIGTERM: ListenAndServe returns at once, and the deferred Close runs    *)
(* while handlers are still at work.                                       *)
StopServer ==
  /\ restarts < MaxRestarts
  /\ CloseStart
  /\ UNCHANGED apiVars

(* The process ends, and its workers with it: main returns, or a crash.    *)
(* What is in memory is as the next process will find it.                  *)
Down ==
  /\ restarts < MaxRestarts
  /\ restarts' = restarts + 1
  /\ RuntimeReset
  /\ server' = "down"
  /\ h' = [r \in Requests |->
             IF h[r].pc = "new" THEN h[r] ELSE Fresh("done")]
  /\ answer' = [r \in Requests |->
                  IF h[r].pc \in {"new", "unlock", "done"} THEN answer[r] ELSE [code |-> "lost"]]
  /\ UNCHANGED <<deaths, record, lockDir, active, activations>>

Exit  == server = "closed" /\ Down
Crash == server \in {"open", "closing"} /\ Down

(* StartRuntimeManager refuses to start without a pool for the active      *)
(* version.                                                                *)
Start ==
  /\ server = "down"
  /\ active \in Pools
  /\ server' = "open"
  /\ UNCHANGED <<poolVars, callVars, expired, job, workerVars, deaths, apiVars>>

Next ==
  \/ \E r \in Requests : Receive(r) \/ Handle(r) \/ Timeout(r)
                          \/ (LookupStep(r) /\ UNCHANGED apiVars)
  \/ \E g \in Jobs : JobStep(g) /\ UNCHANGED apiVars
  \/ \E w \in Workers : (RunWorker(w) \/ Die(w)) /\ UNCHANGED apiVars
  \/ CloseStep /\ UNCHANGED apiVars
  \/ ActivateVersion \/ StopServer \/ Exit \/ Crash \/ Start

Spec == Init /\ [][Next]_vars

(* Goroutines run; a context with a deadline expires; a worker process     *)
(* answers what it is asked (external); main goes on closing.              *)
FairSpec ==
  /\ Spec
  /\ \A r \in Requests :
       /\ WF_vars(Handle(r))
       /\ WF_vars(LookupStep(r) /\ UNCHANGED apiVars)
       /\ WF_vars(Timeout(r))
  /\ \A g \in Jobs : WF_vars(JobStep(g) /\ UNCHANGED apiVars)
  /\ \A w \in Workers : WF_vars(RunWorker(w) /\ UNCHANGED apiVars)
  /\ WF_vars(CloseStep /\ UNCHANGED apiVars)
  /\ WF_vars(Exit)

-----------------------------------------------------------------------------
Handlers == [pc : {"new", "read", "mkdir", "reread", "load", "lookup", "score", "commit",
                   "release", "drop", "respond", "refuse", "fail", "unlock", "done"},
             i : Nat \ {0}, k : Nat \ {0}, version : Versions \cup {None},
             got : Seq(Candidates), results : Seq(Results)]
Answers == [code : {"busy", "conflict", "error", "lost"}] \cup [code : {"ok"}, results : Seq(Results)]

(* A handler is at a query of an item of its body.                         *)
Positioned(r, x) ==
  /\ x.i \in 1 .. Len(Items[BodyOf[r]])
  /\ x.k \in 1 .. Len(Items[BodyOf[r]][x.i])

ApiTypeOK ==
  /\ record \in [Keys -> [body : Bodies, results : Seq(Results)] \cup {None}]
  /\ lockDir \in [Keys -> BOOLEAN]
  /\ active \in Versions
  /\ h \in [Requests -> Handlers]
  /\ answer \in [Requests -> Answers \cup {None}]
  /\ restarts \in 0 .. MaxRestarts /\ activations \in 0 .. MaxActivations
  /\ \A r \in Requests : Positioned(r, h[r])

(* The type invariant.                                                     *)
TypeOK == CallTypeOK /\ WorkerTypeOK /\ ApiTypeOK

(* At most one request has the lease of a key, and the lock directory is   *)
(* there while it has (Begin's Mkdir, and Release by the holder only).     *)
LeaseExclusive ==
  \A r \in Requests : Leased(r) =>
    /\ lockDir[KeyOf[r]]
    /\ \A s \in Requests : Leased(s) /\ KeyOf[s] = KeyOf[r] => s = r

(* Whatever times out, dies or is closed while lookups are in flight, no   *)
(* worker of a pool is lost or handed to two lookups, none goes back to a  *)
(* closed channel, a worker given to a lookup is in step with its process, *)
(* and no two requests hold the lock of one key (Pool.Acquire, Release and *)
(* Close, Worker.Lookup, Idempotency.Begin).                               *)
PoolSound == WorkersAccounted /\ NoSendOnClosed /\ InStep /\ LeaseExclusive

(* A recorded response is complete: for each item, blocked ones aside, it  *)
(* has, up to the limit, what the lookups of every query of the item may   *)
(* find of the types asked for and nothing else, all from the package of   *)
(* the version its lineage names, whatever lookups timed out, workers died *)
(* and versions were activated (screenAt, Worker.lookup).                  *)
Complete(body, results) ==
  /\ Len(results) = Len(Items[body])
  /\ \A n \in 1 .. Len(results) : results[n].version # None =>
       LET hits == UNION {Members(Hits(q)) : q \in Members(Items[body][n])}
           all  == Allowed(body, n) \cap (hits \X {results[n].version})
       IN results[n].found \subseteq all
            /\ (results[n].found = all \/ Cardinality(results[n].found) = Limit)

RecordsComplete == \A k \in Keys : record[k] # None => Complete(record[k].body, record[k].results)

(* A client told a result can ask again: the key has a record, across      *)
(* restarts (lease.Commit before the response is written).                 *)
AnsweredIsRecorded ==
  \A r \in Requests : answer[r] # None /\ answer[r].code = "ok" => record[KeyOf[r]] # None

(* Every request that was received is answered, or lost with its process.  *)
RequestsEnd == \A r \in Requests : h[r].pc = "read" ~> h[r].pc = "done"

(* The process stops when it is told to, with lookups in flight and        *)
(* goroutines left behind by timeouts (Pool.Close, Worker.Close).          *)
StopEnds == server = "closing" ~> server = "down"

(* "Completed responses are persisted as immutable local idempotency       *)
(* records": a key's record is never replaced (lease.Commit).              *)
RecordsImmutable ==
  [][\A k \in Keys : record[k] # None => record'[k] = record[k]]_vars
=============================================================================
