---------------------------- MODULE RuntimePool ----------------------------
(***************************************************************************)
(* The runtime behind the screening API: pools of catalog-mmap worker      *)
(* processes (internal/runtimemmapclient), one pool for each bound catalog *)
(* version, and the RuntimeManager that owns them                          *)
(* (internal/screeningapi/runtime.go).  The processes are                  *)
(* runtime/catalog-mmap/src/worker.rs.                                     *)
(*                                                                         *)
(* A lookup takes a worker from its pool's channel and leaves the exchange *)
(* of lines with the process to a goroutine of its own; when its context   *)
(* expires it returns the worker and the goroutine reads on.  A goroutine  *)
(* is named after its request and the number of the lookup.                *)
(*                                                                         *)
(* The identifier a query carries is a digest of the request and of the    *)
(* variant asked for: it stands for the query, and q is both.              *)
(***************************************************************************)
EXTENDS Integers, Sequences, FiniteSets

CONSTANTS Requests,     \* HTTP requests
          Queries,      \* what is looked up
          Records,      \* catalog records
          HitsOf,       \* the records that match a query, in a package's order
          Limit,        \* the most candidates a query may have
          Pools,        \* the bound catalog versions, one pool each
          Started,      \* the worker processes of each pool
          MaxLookups,   \* bound on the lookups of one request
          MaxDeaths,    \* bound on worker processes that die
          Nobody

Members(s) == {s[n] : n \in 1 .. Len(s)}
Workers    == UNION {Members(Started[p]) : p \in Pools}
PoolOf(w)  == CHOOSE p \in Pools : w \in Members(Started[p])
Jobs       == Requests \X (1 .. MaxLookups)
Candidates == Records \X Pools

ASSUME RuntimeAssumption ==
  /\ HitsOf \in [Queries -> Seq(Records)]
  /\ Limit \in Nat \ {0}
  /\ Started \in [Pools -> Seq(Workers)]
  /\ \A p, o \in Pools : \A m \in 1 .. Len(Started[p]), n \in 1 .. Len(Started[o]) :
       Started[p][m] = Started[o][n] => p = o /\ m = n
  /\ MaxLookups \in Nat /\ MaxDeaths \in Nat
  /\ Nobody \notin Workers \cup Jobs \cup [pool : Pools, query : Queries]

VARIABLES
  chan,        \* Pool.workers
  closed,      \* Pool.closed
  chanClosed,  \* close(pool.workers) has been called
  server,      \* main: "open", "closing" (RuntimeManager.Close), "closed", "down"
  stage,       \* where each request is in Pool.Lookup
  asked,       \* the pool and the query of its lookup
  held,        \* the worker it has checked out
  nth,         \* how many lookups it has begun
  expired,     \* its context is done
  reply,       \* the result of its lookup
  job,         \* the goroutines
  mu,          \* Worker.mu
  shut,        \* Worker.closed
  stdin, stdout, alive,  \* the worker processes and their pipes
  deaths

poolVars   == <<chan, closed, chanClosed>>
callVars   == <<stage, asked, held, nth, reply>>
pipeVars   == <<stdin, stdout, alive>>
workerVars == <<mu, shut, pipeVars>>
runtimeVars == <<poolVars, server, callVars, expired, job, workerVars, deaths>>

NoJob    == [st |-> "none"]
NoReply  == [kind |-> "none"]
Failed   == [kind |-> "error"]
Found(s) == [kind |-> "ok", found |-> s]

(* The records the process of a package returns for a query: the first     *)
(* Limit of them.                                                          *)
Hits(q) == SubSeq(HitsOf[q], 1, IF Len(HitsOf[q]) < Limit THEN Len(HitsOf[q]) ELSE Limit)

(* StartRuntimeManager: every worker has started and said hello.           *)
RuntimeInit ==
  /\ chan = Started
  /\ closed = [p \in Pools |-> FALSE] /\ chanClosed = [p \in Pools |-> FALSE]
  /\ stage = [r \in Requests |-> "out"] /\ asked = [r \in Requests |-> Nobody]
  /\ held = [r \in Requests |-> Nobody] /\ nth = [r \in Requests |-> 0]
  /\ expired = [r \in Requests |-> FALSE] /\ reply = [r \in Requests |-> NoReply]
  /\ job = [g \in Jobs |-> NoJob]
  /\ mu = [w \in Workers |-> Nobody] /\ shut = [w \in Workers |-> FALSE]
  /\ stdin = [w \in Workers |-> <<>>] /\ stdout = [w \in Workers |-> <<>>]
  /\ alive = [w \in Workers |-> TRUE]

(* The memory of a process that has ended, as the next one will find it.   *)
RuntimeReset ==
  /\ chan' = Started
  /\ closed' = [p \in Pools |-> FALSE] /\ chanClosed' = [p \in Pools |-> FALSE]
  /\ stage' = [r \in Requests |-> "out"] /\ asked' = [r \in Requests |-> Nobody]
  /\ held' = [r \in Requests |-> Nobody] /\ nth' = [r \in Requests |-> 0]
  /\ expired' = [r \in Requests |-> FALSE] /\ reply' = [r \in Requests |-> NoReply]
  /\ job' = [g \in Jobs |-> NoJob]
  /\ mu' = [w \in Workers |-> Nobody] /\ shut' = [w \in Workers |-> FALSE]
  /\ stdin' = [w \in Workers |-> <<>>] /\ stdout' = [w \in Workers |-> <<>>]
  /\ alive' = [w \in Workers |-> TRUE]

-----------------------------------------------------------------------------
(* Pool.Lookup.                                                            *)
-----------------------------------------------------------------------------
InLookup(r) == stage[r] \in {"select", "wait", "giveback"}

(* pool.wg: the lookups of a pool that have not returned.                  *)
InFlight(p) == {r \in Requests : InLookup(r) /\ asked[r].pool = p}

Leave(r, result) ==
  /\ stage' = [stage EXCEPT ![r] = "out"]
  /\ asked' = [asked EXCEPT ![r] = Nobody]
  /\ reply' = [reply EXCEPT ![r] = result]

(* RuntimeManager.Lookup: the binding is read under the manager's lock,    *)
(* which Close holds until the bindings are gone.                          *)
Bind(r, p, q) ==
  /\ stage[r] = "out" /\ reply[r] = NoReply
  /\ server # "closing"
  /\ IF server = "open" /\ p \in Pools
       THEN /\ stage' = [stage EXCEPT ![r] = "bound"]
            /\ asked' = [asked EXCEPT ![r] = [pool |-> p, query |-> q]]
            /\ UNCHANGED reply
       ELSE Leave(r, Failed)
  /\ UNCHANGED <<poolVars, server, held, nth, expired, job, workerVars, deaths>>

Enter(r) ==
  /\ stage[r] = "bound"
  /\ IF closed[asked[r].pool] THEN Leave(r, Failed)
     ELSE stage' = [stage EXCEPT ![r] = "select"] /\ UNCHANGED <<asked, reply>>
  /\ UNCHANGED <<poolVars, server, held, nth, expired, job, workerVars, deaths>>

(* A worker is received from the channel and its goroutine started.        *)
TakeWorker(r) ==
  LET p == asked[r].pool
      n == nth[r] + 1
  IN /\ stage[r] = "select"
     /\ chan[p] # <<>>
     /\ n <= MaxLookups
     /\ chan' = [chan EXCEPT ![p] = Tail(@)]
     /\ held' = [held EXCEPT ![r] = Head(chan[p])]
     /\ nth' = [nth EXCEPT ![r] = n]
     /\ job' = [job EXCEPT ![<<r, n>>] =
                  [st |-> "lock", w |-> Head(chan[p]), q |-> asked[r].query]]
     /\ stage' = [stage EXCEPT ![r] = "wait"]
     /\ UNCHANGED <<closed, chanClosed, server, asked, expired, reply, workerVars, deaths>>

GiveUpWaiting(r) ==
  /\ stage[r] = "select"
  /\ expired[r]
  /\ Leave(r, Failed)
  /\ UNCHANGED <<poolVars, server, held, nth, expired, job, workerVars, deaths>>

(* The goroutine's result is received.                                     *)
TakeReply(r) ==
  /\ stage[r] = "wait"
  /\ reply[r] # NoReply
  /\ stage' = [stage EXCEPT ![r] = "giveback"]
  /\ UNCHANGED <<poolVars, server, asked, held, nth, reply, expired, job, workerVars, deaths>>

(* The context ends the wait; the goroutine goes on, for nobody.           *)
Abandon(r) ==
  /\ stage[r] = "wait"
  /\ expired[r]
  /\ stage' = [stage EXCEPT ![r] = "giveback"]
  /\ reply' = [reply EXCEPT ![r] = Failed]
  /\ UNCHANGED <<poolVars, server, asked, held, nth, expired, job, workerVars, deaths>>

(* The deferred send; a send on a closed channel would panic.              *)
GiveBack(r) ==
  /\ stage[r] = "giveback"
  /\ chan' = [chan EXCEPT ![asked[r].pool] = Append(@, held[r])]
  /\ held' = [held EXCEPT ![r] = Nobody]
  /\ Leave(r, reply[r])
  /\ UNCHANGED <<closed, chanClosed, server, nth, expired, job, workerVars, deaths>>

(* The request's timeout, or a client that went away.                      *)
Expire(r) ==
  /\ ~expired[r]
  /\ expired' = [expired EXCEPT ![r] = TRUE]
  /\ UNCHANGED <<poolVars, server, callVars, job, workerVars, deaths>>

-----------------------------------------------------------------------------
(* Worker.lookup, in its goroutine g.                                      *)
-----------------------------------------------------------------------------
(* The result goes to a buffered channel: to nobody if the lookup left.    *)
Finish(g, result) ==
  /\ job' = [job EXCEPT ![g] = NoJob]
  /\ mu' = [mu EXCEPT ![job[g].w] = Nobody]
  /\ reply' = IF stage[g[1]] = "wait" /\ nth[g[1]] = g[2]
                THEN [reply EXCEPT ![g[1]] = result] ELSE reply

LockWorker(g) ==
  /\ job[g].st = "lock"
  /\ mu[job[g].w] = Nobody
  /\ IF shut[job[g].w] THEN Finish(g, Failed)
     ELSE /\ mu' = [mu EXCEPT ![job[g].w] = g]
          /\ job' = [job EXCEPT ![g].st = "write"]
          /\ UNCHANGED reply
  /\ UNCHANGED <<poolVars, server, stage, asked, held, nth, expired, shut, pipeVars, deaths>>

WriteQuery(g) ==
  LET w == job[g].w
  IN /\ job[g].st = "write"
     /\ IF alive[w]
          THEN /\ stdin' = [stdin EXCEPT ![w] = Append(@, job[g].q)]
               /\ job' = [job EXCEPT ![g].st = "begin"]
               /\ UNCHANGED <<mu, reply>>
          ELSE Finish(g, Failed) /\ UNCHANGED stdin
     /\ UNCHANGED <<poolVars, server, stage, asked, held, nth, expired, shut, stdout, alive, deaths>>

(* The first line: an error line, or the number of candidates.  A line of  *)
(* another query, or too many candidates, ends the lookup with an error.   *)
ScanBegin(g) ==
  LET w == job[g].w
      line == Head(stdout[w])
  IN /\ job[g].st = "begin"
     /\ stdout[w] # <<>>
     /\ stdout' = [stdout EXCEPT ![w] = Tail(@)]
     /\ IF line.tag = "B" /\ line.q = job[g].q /\ line.n <= Limit
          THEN /\ job' = [job EXCEPT ![g] = [st |-> "body", w |-> w, q |-> line.q,
                                             need |-> line.n, got |-> <<>>]]
               /\ UNCHANGED <<mu, reply>>
          ELSE Finish(g, Failed)
     /\ UNCHANGED <<poolVars, server, stage, asked, held, nth, expired, shut, stdin, alive, deaths>>

(* The candidates, and the end line after the last of them.                *)
ScanBody(g) ==
  LET w == job[g].w
      line == Head(stdout[w])
      last == job[g].need = 0
  IN /\ job[g].st = "body"
     /\ stdout[w] # <<>>
     /\ stdout' = [stdout EXCEPT ![w] = Tail(@)]
     /\ IF line.q # job[g].q \/ line.tag # (IF last THEN "E" ELSE "C")
          THEN Finish(g, Failed)
        ELSE IF last THEN Finish(g, Found(job[g].got))
        ELSE /\ job' = [job EXCEPT ![g].need = @ - 1,
                                   ![g].got = Append(@, <<line.n, PoolOf(w)>>)]
             /\ UNCHANGED <<mu, reply>>
     /\ UNCHANGED <<poolVars, server, stage, asked, held, nth, expired, shut, stdin, alive, deaths>>

(* Mutant: the end of the output is reported with the mutex held.          *)
ScanEOF_KeepsMutex(g) ==
  /\ job[g].st \in {"begin", "body"}
  /\ stdout[job[g].w] = <<>>
  /\ ~alive[job[g].w]
  /\ job' = [job EXCEPT ![g] = NoJob]
  /\ reply' = IF stage[g[1]] = "wait" /\ nth[g[1]] = g[2]
                THEN [reply EXCEPT ![g[1]] = Failed] ELSE reply
  /\ UNCHANGED <<poolVars, server, stage, asked, held, nth, expired, workerVars, deaths>>

(* The process has ended and its output is read.                           *)
ScanEOF(g) ==
  /\ job[g].st \in {"begin", "body"}
  /\ stdout[job[g].w] = <<>>
  /\ ~alive[job[g].w]
  /\ Finish(g, Failed)
  /\ UNCHANGED <<poolVars, server, stage, asked, held, nth, expired, shut, pipeVars, deaths>>

-----------------------------------------------------------------------------
(* The worker process: run_worker's loop.                                  *)
-----------------------------------------------------------------------------
Line(t, q, n) == [tag |-> t, q |-> q, n |-> n]

response_lines(q) ==
  <<Line("B", q, Len(Hits(q)))>> \o [j \in 1 .. Len(Hits(q)) |-> Line("C", q, Hits(q)[j])]
    \o <<Line("E", q, 0)>>

(* execute may also fail on the query, and answers with an error line.     *)
handle_request_line(q) == {response_lines(q), <<Line("X", q, 0)>>}

RunWorker(w) ==
  /\ alive[w]
  /\ stdin[w] # <<>>
  /\ stdin' = [stdin EXCEPT ![w] = Tail(@)]
  /\ \E lines \in handle_request_line(Head(stdin[w])) :
       stdout' = [stdout EXCEPT ![w] = @ \o lines]
  /\ UNCHANGED <<poolVars, server, callVars, expired, job, mu, shut, alive, deaths>>

(* It dies, perhaps in the middle of an answer.                            *)
Die(w) ==
  /\ alive[w] /\ server # "down"
  /\ deaths < MaxDeaths
  /\ deaths' = deaths + 1
  /\ alive' = [alive EXCEPT ![w] = FALSE]
  /\ stdin' = [stdin EXCEPT ![w] = <<>>]
  /\ \/ UNCHANGED stdout
     \/ /\ stdin[w] # <<>>
        /\ LET lines == response_lines(Head(stdin[w]))
           IN \E n \in 1 .. Len(lines) :
                stdout' = [stdout EXCEPT ![w] = @ \o SubSeq(lines, 1, n)]
  /\ UNCHANGED <<poolVars, server, callVars, expired, job, mu, shut>>

-----------------------------------------------------------------------------
(* RuntimeManager.Close, Pool.Close and Worker.Close, run by main once the *)
(* listener is closed.                                                     *)
-----------------------------------------------------------------------------
CloseStart ==
  /\ server = "open"
  /\ server' = "closing"
  /\ UNCHANGED <<poolVars, callVars, expired, job, workerVars, deaths>>

(* The manager closes its pools one after the other.                       *)
PoolDone(p) == chanClosed[p] /\ \A w \in Members(Started[p]) : shut[w]

ClosePool(p) ==
  /\ server = "closing"
  /\ ~closed[p]
  /\ \A o \in Pools : closed[o] => PoolDone(o)
  /\ closed' = [closed EXCEPT ![p] = TRUE]
  /\ UNCHANGED <<chan, chanClosed, server, callVars, expired, job, workerVars, deaths>>

(* Mutant: Close does not wait for the lookups.                            *)
CloseChannel_NoWait(p) ==
  /\ closed[p] /\ ~chanClosed[p]
  /\ chanClosed' = [chanClosed EXCEPT ![p] = TRUE]
  /\ UNCHANGED <<chan, closed, server, callVars, expired, job, workerVars, deaths>>

(* pool.wg.Wait, close(pool.workers).                                      *)
CloseChannel(p) ==
  /\ closed[p] /\ ~chanClosed[p]
  /\ InFlight(p) = {}
  /\ chanClosed' = [chanClosed EXCEPT ![p] = TRUE]
  /\ UNCHANGED <<chan, closed, server, callVars, expired, job, workerVars, deaths>>

(* Worker.Close waits for a goroutine that still reads, then kills.        *)
CloseWorker(w) ==
  /\ chanClosed[PoolOf(w)]
  /\ ~shut[w]
  /\ mu[w] = Nobody
  /\ shut' = [shut EXCEPT ![w] = TRUE]
  /\ alive' = [alive EXCEPT ![w] = FALSE]
  /\ UNCHANGED <<poolVars, server, callVars, expired, job, mu, stdin, stdout, deaths>>

CloseEnd ==
  /\ server = "closing"
  /\ \A p \in Pools : PoolDone(p)
  /\ server' = "closed"
  /\ UNCHANGED <<poolVars, callVars, expired, job, workerVars, deaths>>

LookupStep(r) == \/ Enter(r) \/ TakeWorker(r) \/ GiveUpWaiting(r)
                 \/ TakeReply(r) \/ Abandon(r) \/ GiveBack(r)
JobStep(g)  == \/ LockWorker(g) \/ WriteQuery(g) \/ ScanBegin(g)
               \/ ScanBody(g) \/ ScanEOF(g)
CloseStep   == \/ \E p \in Pools : ClosePool(p) \/ CloseChannel(p)
               \/ \E w \in Workers : CloseWorker(w)
               \/ CloseEnd

-----------------------------------------------------------------------------
Lines      == [tag : {"B", "E", "X"}, q : Queries, n : Nat]
                \cup [tag : {"C"}, q : Queries, n : Records]
JobStates  == {NoJob} \cup [st : {"lock", "write", "begin"}, w : Workers, q : Queries]
                \cup [st : {"body"}, w : Workers, q : Queries, need : Nat, got : Seq(Candidates)]
Replies    == {NoReply, Failed} \cup [kind : {"ok"}, found : Seq(Candidates)]

(* The types of the runtime's variables, a conjunct of TypeOK.             *)
CallTypeOK ==
  /\ server \in {"open", "closing", "closed", "down"}
  /\ stage \in [Requests -> {"out", "bound", "select", "wait", "giveback"}]
  /\ asked \in [Requests -> [pool : Pools, query : Queries] \cup {Nobody}]
  /\ held \in [Requests -> Workers \cup {Nobody}]
  /\ nth \in [Requests -> 0 .. MaxLookups]
  /\ expired \in [Requests -> BOOLEAN]
  /\ reply \in [Requests -> Replies]
  /\ \A r \in Requests : stage[r] # "out" => asked[r] # Nobody
  /\ \A r \in Requests : stage[r] \in {"wait", "giveback"} => held[r] # Nobody

WorkerTypeOK ==
  /\ chan \in [Pools -> Seq(Workers)]
  /\ closed \in [Pools -> BOOLEAN] /\ chanClosed \in [Pools -> BOOLEAN]
  /\ job \in [Jobs -> JobStates]
  /\ mu \in [Workers -> Jobs \cup {Nobody}]
  /\ shut \in [Workers -> BOOLEAN] /\ alive \in [Workers -> BOOLEAN]
  /\ stdin \in [Workers -> Seq(Queries)] /\ stdout \in [Workers -> Seq(Lines)]
  /\ deaths \in 0 .. MaxDeaths

Occurrences(s, x) == Cardinality({n \in 1 .. Len(s) : s[n] = x})

(* While its pool is open, each worker is either in the channel or checked *)
(* out by exactly one lookup, whatever ended the lookups before            *)
(* (Pool.Lookup: the deferred send).                                       *)
WorkersAccounted ==
  \A w \in Workers :
    Occurrences(chan[PoolOf(w)], w) + Cardinality({r \in Requests : held[r] = w}) = 1

(* No lookup returns a worker to a closed channel, which would panic       *)
(* (Pool.Close waits for pool.wg before it closes pool.workers).           *)
NoSendOnClosed ==
  \A r \in Requests : held[r] # Nobody => ~chanClosed[asked[r].pool]

(* A worker whose mutex is free has nothing unread in its pipes: timeouts  *)
(* never leave part of an answer to the next lookup (Worker.Lookup).       *)
InStep ==
  \A w \in Workers :
    mu[w] = Nobody /\ alive[w] => stdin[w] = <<>> /\ stdout[w] = <<>>
=============================================================================
