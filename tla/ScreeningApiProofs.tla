------------------------- MODULE ScreeningApiProofs -------------------------
(***************************************************************************)
(* Proofs about ScreeningApi and RuntimePool, for any requests, keys,      *)
(* bodies, pools, workers, stops and deaths.                               *)
(***************************************************************************)
EXTENDS ScreeningApi, FiniteSetTheorems, SequenceTheorems, WellFoundedInduction, TLAPS

-----------------------------------------------------------------------------
(* Types.                                                                  *)
-----------------------------------------------------------------------------
LEMMA WorkerPool == ASSUME NEW w \in Workers PROVE PoolOf(w) \in Pools
  BY DEF PoolOf, Workers

LEMMA JobFields ==
  ASSUME NEW g \in Jobs, WorkerTypeOK, job[g].st # "none"
  PROVE  /\ job[g].w \in Workers /\ job[g].q \in Queries
         /\ job[g].st \in {"lock", "write", "begin", "body"}
         /\ job[g].st = "body" => job[g].need \in Nat /\ job[g].got \in Seq(Candidates)
         /\ job[g].st # "body" => job[g] \in [st : {"lock", "write", "begin"}, w : Workers, q : Queries]
         /\ job[g].st = "body" => job[g] \in [st : {"body"}, w : Workers, q : Queries,
                                              need : Nat, got : Seq(Candidates)]
  BY DEF WorkerTypeOK, JobStates, NoJob

LEMMA RuntimeSame ==
  ASSUME CallTypeOK, WorkerTypeOK, UNCHANGED runtimeVars
  PROVE  CallTypeOK' /\ WorkerTypeOK'
  BY DEF CallTypeOK, WorkerTypeOK, runtimeVars, poolVars, callVars, workerVars, pipeVars

LEMMA ApiSame ==
  ASSUME ApiTypeOK, UNCHANGED apiVars
  PROVE  ApiTypeOK'
  BY DEF ApiTypeOK, apiVars

LEMMA FreshOK ==
  ASSUME NEW r \in Requests, NEW l \in {"new", "done"}
  PROVE  Fresh(l) \in Handlers /\ Positioned(r, Fresh(l))
<1> DEFINE body == BodyOf[r]
<1>1. body \in Bodies /\ Items[body] \in Seq(Seq(Queries))
  BY ApiAssumption
<1>2. Len(Items[body]) \in Nat /\ 1 \in 1 .. Len(Items[body])
  BY <1>1, ApiAssumption
<1>3. /\ Items[body][1] \in Seq(Queries)
      /\ Len(Items[body][1]) > 0
  <2>1. Items[body][1] \in Seq(Queries)
    BY <1>1, <1>2, ElementOfSeq
  <2>2. \A n \in 1 .. Len(Items[body]) : Len(Items[body][n]) > 0
    BY <1>1, ApiAssumption
  <2> QED
    BY <1>2, <2>1, <2>2
<1>4. Len(Items[body][1]) \in Nat /\ 1 \in 1 .. Len(Items[body][1])
  BY <1>3
<1> QED
  BY <1>2, <1>4 DEF Fresh, Handlers, Positioned

LEMMA HitsType ==
  ASSUME NEW q \in Queries
  PROVE  Hits(q) \in Seq(Records) /\ Len(Hits(q)) \in Nat
  BY RuntimeAssumption DEF Hits

LEMMA LinesType ==
  ASSUME NEW q \in Queries
  PROVE  /\ response_lines(q) \in Seq(Lines)
         /\ \A lines \in handle_request_line(q) : lines \in Seq(Lines)
<1>1. /\ Line("B", q, Len(Hits(q))) \in Lines
      /\ Line("E", q, 0) \in Lines /\ Line("X", q, 0) \in Lines
  BY HitsType DEF Line, Lines
<1>2. [j \in 1 .. Len(Hits(q)) |-> Line("C", q, Hits(q)[j])] \in Seq(Lines)
  BY HitsType DEF Line, Lines
<1>3. response_lines(q) \in Seq(Lines)
  BY <1>1, <1>2 DEF response_lines
<1> QED
  BY <1>1, <1>3 DEF handle_request_line

LEMMA TypeInit == Init => TypeOK
<1> SUFFICES ASSUME Init PROVE TypeOK
  OBVIOUS
<1>1. CallTypeOK
  BY RuntimeAssumption DEF Init, RuntimeInit, CallTypeOK, Replies
<1>2. WorkerTypeOK
  BY RuntimeAssumption DEF Init, RuntimeInit, WorkerTypeOK, JobStates
<1>3. ApiTypeOK
  BY ApiAssumption, FreshOK DEF Init, ApiTypeOK
<1> QED
  BY <1>1, <1>2, <1>3 DEF TypeOK

LEMMA AskedType ==
  ASSUME CallTypeOK, NEW r \in Requests, stage[r] # "out"
  PROVE  asked[r] \in [pool : Pools, query : Queries]
  BY DEF CallTypeOK

LEMMA ReplyKinds == NoReply \in Replies /\ Failed \in Replies
  BY DEF Replies

(* The steps of a lookup keep the types.                                   *)
LEMMA LookupType ==
  ASSUME CallTypeOK, WorkerTypeOK, NEW r \in Requests, LookupStep(r)
  PROVE  CallTypeOK' /\ WorkerTypeOK'
<1> USE ReplyKinds
<1>1. CASE Enter(r)
  BY <1>1 DEF Enter, Leave, CallTypeOK, WorkerTypeOK, poolVars, workerVars, pipeVars
<1>2. CASE TakeWorker(r)
  <2> DEFINE p == asked[r].pool
             n == nth[r] + 1
  <2>1. p \in Pools /\ asked[r].query \in Queries
    BY <1>2, AskedType DEF TakeWorker
  <2>2. Head(chan[p]) \in Workers /\ Tail(chan[p]) \in Seq(Workers)
    BY <1>2, <2>1 DEF TakeWorker, WorkerTypeOK
  <2>3. n \in 1 .. MaxLookups /\ n \in 0 .. MaxLookups /\ <<r, n>> \in Jobs
    BY <1>2, RuntimeAssumption DEF TakeWorker, CallTypeOK, Jobs
  <2>4. [st |-> "lock", w |-> Head(chan[p]), q |-> asked[r].query] \in JobStates
    BY <2>1, <2>2 DEF JobStates
  <2>5. CallTypeOK'
    BY <1>2, <2>2, <2>3, RuntimeAssumption DEF TakeWorker, CallTypeOK
  <2>6. WorkerTypeOK'
    BY <1>2, <2>1, <2>2, <2>3, <2>4 DEF TakeWorker, WorkerTypeOK, workerVars, pipeVars
  <2> QED
    BY <2>5, <2>6
<1>3. CASE GiveUpWaiting(r)
  BY <1>3 DEF GiveUpWaiting, Leave, CallTypeOK, WorkerTypeOK, poolVars, workerVars, pipeVars
<1>4. CASE TakeReply(r)
  BY <1>4 DEF TakeReply, CallTypeOK, WorkerTypeOK, poolVars, workerVars, pipeVars
<1>5. CASE Abandon(r)
  BY <1>5 DEF Abandon, CallTypeOK, WorkerTypeOK, poolVars, workerVars, pipeVars
<1>6. CASE GiveBack(r)
  <2>1. asked[r].pool \in Pools /\ held[r] \in Workers
    BY <1>6, AskedType DEF GiveBack, CallTypeOK
  <2>2. Append(chan[asked[r].pool], held[r]) \in Seq(Workers)
    BY <2>1 DEF WorkerTypeOK
  <2>3. CallTypeOK'
    BY <1>6 DEF GiveBack, Leave, CallTypeOK
  <2>4. WorkerTypeOK'
    BY <1>6, <2>1, <2>2 DEF GiveBack, WorkerTypeOK, workerVars, pipeVars
  <2> QED
    BY <2>3, <2>4
<1> QED
  BY <1>1, <1>2, <1>3, <1>4, <1>5, <1>6 DEF LookupStep

LEMMA FinishType ==
  ASSUME CallTypeOK, WorkerTypeOK, NEW g \in Jobs, job[g].st # "none",
         NEW result \in Replies, Finish(g, result)
  PROVE  /\ job' \in [Jobs -> JobStates] /\ mu' \in [Workers -> Jobs \cup {Nobody}]
         /\ reply' \in [Requests -> Replies]
<1>1. g[1] \in Requests
  BY DEF Jobs
<1> QED
  BY <1>1, JobFields DEF Finish, CallTypeOK, WorkerTypeOK, JobStates

(* The steps of a goroutine keep the types.                                *)
LEMMA JobType ==
  ASSUME CallTypeOK, WorkerTypeOK, NEW g \in Jobs, JobStep(g)
  PROVE  CallTypeOK' /\ WorkerTypeOK'
<1> DEFINE w == job[g].w
           q == job[g].q
           line == Head(stdout[w])
<1> SUFFICES /\ job' \in [Jobs -> JobStates] /\ mu' \in [Workers -> Jobs \cup {Nobody}]
             /\ reply' \in [Requests -> Replies]
             /\ stdin' \in [Workers -> Seq(Queries)] /\ stdout' \in [Workers -> Seq(Lines)]
  BY DEF JobStep, LockWorker, WriteQuery, ScanBegin, ScanBody, ScanEOF,
         CallTypeOK, WorkerTypeOK, poolVars, pipeVars
<1> USE ReplyKinds
<1>1. job[g].st # "none" /\ w \in Workers /\ q \in Queries
  <2>1. job[g].st # "none"
    BY DEF JobStep, LockWorker, WriteQuery, ScanBegin, ScanBody, ScanEOF
  <2> QED
    BY <2>1, JobFields
<1>2. CASE LockWorker(g)
  <2>1. CASE shut[w]
    BY <1>1, <1>2, <2>1, FinishType DEF LockWorker, WorkerTypeOK, pipeVars
  <2>2. CASE ~ shut[w]
    <3>1. [job[g] EXCEPT !.st = "write"] \in JobStates
      BY <1>1, <1>2, JobFields DEF LockWorker, JobStates
    <3>2. job' = [job EXCEPT ![g] = [job[g] EXCEPT !.st = "write"]]
      BY <1>2, <2>2 DEF LockWorker, WorkerTypeOK
    <3>3. job' \in [Jobs -> JobStates]
      BY <3>1, <3>2 DEF WorkerTypeOK
    <3>4. mu' = [mu EXCEPT ![w] = g]
      BY <1>2, <2>2 DEF LockWorker
    <3>5. mu' \in [Workers -> Jobs \cup {Nobody}]
      BY <1>1, <3>4 DEF WorkerTypeOK
    <3> QED
      BY <1>2, <2>2, <3>3, <3>5 DEF LockWorker, WorkerTypeOK, CallTypeOK, pipeVars
  <2> QED
    BY <2>1, <2>2
<1>3. CASE WriteQuery(g)
  <2>1. CASE ~ alive[w]
    BY <1>1, <1>3, <2>1, FinishType DEF WriteQuery, WorkerTypeOK
  <2>2. CASE alive[w]
    <3>1. [job[g] EXCEPT !.st = "begin"] \in JobStates
      BY <1>1, <1>3, JobFields DEF WriteQuery, JobStates
    <3>2. Append(stdin[w], q) \in Seq(Queries)
      BY <1>1 DEF WorkerTypeOK
    <3> QED
      BY <1>1, <1>3, <2>2, <3>1, <3>2 DEF WriteQuery, WorkerTypeOK, CallTypeOK
  <2> QED
    BY <2>1, <2>2
<1>4. ASSUME stdout[w] # <<>>
      PROVE  line \in Lines /\ Tail(stdout[w]) \in Seq(Lines)
  BY <1>1, <1>4 DEF WorkerTypeOK
<1>5. CASE ScanBegin(g)
  <2>1. line \in Lines /\ stdout' \in [Workers -> Seq(Lines)]
    BY <1>1, <1>4, <1>5 DEF ScanBegin, WorkerTypeOK
  <2>2. CASE ~ (line.tag = "B" /\ line.q = q /\ line.n <= Limit)
    BY <1>1, <1>5, <2>1, <2>2, FinishType DEF ScanBegin, WorkerTypeOK
  <2>3. CASE line.tag = "B" /\ line.q = q /\ line.n <= Limit
    <3>1. [st |-> "body", w |-> w, q |-> line.q, need |-> line.n, got |-> <<>>] \in JobStates
      BY <1>1, <2>1, <2>3 DEF Lines, JobStates
    <3> QED
      BY <1>1, <1>5, <2>1, <2>3, <3>1 DEF ScanBegin, WorkerTypeOK, CallTypeOK
  <2> QED
    BY <2>2, <2>3
<1>6. CASE ScanBody(g)
  <2>1. line \in Lines /\ stdout' \in [Workers -> Seq(Lines)]
    BY <1>1, <1>4, <1>6 DEF ScanBody, WorkerTypeOK
  <2>2. job[g].need \in Nat /\ job[g].got \in Seq(Candidates)
    BY <1>1, <1>6, JobFields DEF ScanBody
  <2>3. Found(job[g].got) \in Replies
    BY <2>2 DEF Found, Replies
  <2>4. CASE line.q # q \/ line.tag # (IF job[g].need = 0 THEN "E" ELSE "C")
    BY <1>1, <1>6, <2>1, <2>4, FinishType DEF ScanBody, WorkerTypeOK
  <2>5. CASE job[g].need = 0 /\ line.q = q /\ line.tag = "E"
    BY <1>1, <1>6, <2>1, <2>3, <2>5, FinishType DEF ScanBody, WorkerTypeOK
  <2>6. CASE job[g].need # 0 /\ line.q = q /\ line.tag = "C"
    <3>1. <<line.n, PoolOf(w)>> \in Candidates
      BY <1>1, <2>1, <2>6, WorkerPool DEF Lines, Candidates
    <3>2. job[g].need - 1 \in Nat /\ Append(job[g].got, <<line.n, PoolOf(w)>>) \in Seq(Candidates)
      BY <2>2, <2>6, <3>1
    <3>3. [job[g] EXCEPT !.need = job[g].need - 1,
                         !.got = Append(job[g].got, <<line.n, PoolOf(w)>>)] \in JobStates
      BY <1>1, <1>6, <3>2, JobFields DEF ScanBody, JobStates
    <3>4. job' = [job EXCEPT ![g] = [job[g] EXCEPT !.need = job[g].need - 1,
                         !.got = Append(job[g].got, <<line.n, PoolOf(w)>>)]]
      BY <1>6, <2>6 DEF ScanBody, WorkerTypeOK
    <3> QED
      BY <1>1, <1>6, <2>1, <2>6, <3>3, <3>4 DEF ScanBody, WorkerTypeOK, CallTypeOK
  <2> QED
    BY <2>4, <2>5, <2>6
<1>7. CASE ScanEOF(g)
  BY <1>1, <1>7, FinishType DEF ScanEOF, WorkerTypeOK, pipeVars
<1> QED
  BY <1>2, <1>3, <1>5, <1>6, <1>7 DEF JobStep

(* The steps of a worker process keep the types.                           *)
LEMMA ProcessType ==
  ASSUME CallTypeOK, WorkerTypeOK, NEW w \in Workers, RunWorker(w) \/ Die(w)
  PROVE  CallTypeOK' /\ WorkerTypeOK'
<1>1. CallTypeOK'
  BY DEF RunWorker, Die, CallTypeOK, callVars
<1>2. CASE RunWorker(w)
  <2>1. Head(stdin[w]) \in Queries /\ Tail(stdin[w]) \in Seq(Queries)
    BY <1>2 DEF RunWorker, WorkerTypeOK
  <2>2. PICK lines \in handle_request_line(Head(stdin[w])) :
          stdout' = [stdout EXCEPT ![w] = @ \o lines]
    BY <1>2 DEF RunWorker
  <2>3. stdout[w] \o lines \in Seq(Lines)
    BY <2>1, <2>2, LinesType DEF WorkerTypeOK
  <2> QED
    BY <1>1, <1>2, <2>1, <2>2, <2>3 DEF RunWorker, WorkerTypeOK, poolVars
<1>3. CASE Die(w)
  <2>1. stdout' \in [Workers -> Seq(Lines)]
    <3>1. CASE UNCHANGED stdout
      BY <3>1 DEF WorkerTypeOK
    <3>2. CASE stdin[w] # <<>> /\ \E n \in 1 .. Len(response_lines(Head(stdin[w]))) :
                 stdout' = [stdout EXCEPT ![w] = @ \o SubSeq(response_lines(Head(stdin[w])), 1, n)]
      <4> DEFINE lines == response_lines(Head(stdin[w]))
      <4>1. lines \in Seq(Lines)
        BY <3>2, LinesType DEF WorkerTypeOK
      <4>2. PICK n \in 1 .. Len(lines) : stdout' = [stdout EXCEPT ![w] = @ \o SubSeq(lines, 1, n)]
        BY <3>2
      <4>3. stdout[w] \o SubSeq(lines, 1, n) \in Seq(Lines)
        BY <4>1, <4>2 DEF WorkerTypeOK
      <4> QED
        BY <4>2, <4>3 DEF WorkerTypeOK
    <3> QED
      BY <1>3, <3>1, <3>2 DEF Die
  <2>2. deaths' \in 0 .. MaxDeaths
    BY <1>3, RuntimeAssumption DEF Die, WorkerTypeOK
  <2>3. /\ alive' = [alive EXCEPT ![w] = FALSE] /\ stdin' = [stdin EXCEPT ![w] = <<>>]
        /\ UNCHANGED <<chan, closed, chanClosed, job, mu, shut>>
    BY <1>3 DEF Die, poolVars
  <2>4. stdin' \in [Workers -> Seq(Queries)] /\ alive' \in [Workers -> BOOLEAN]
    BY <2>3 DEF WorkerTypeOK
  <2> QED
    BY <1>1, <2>1, <2>2, <2>3, <2>4 DEF WorkerTypeOK
<1> QED
  BY <1>2, <1>3

(* The steps of Close keep the types.                                      *)
LEMMA CloseType ==
  ASSUME CallTypeOK, WorkerTypeOK, CloseStep \/ CloseStart
  PROVE  CallTypeOK' /\ WorkerTypeOK'
<1>1. CASE CloseStart \/ CloseEnd
  BY <1>1 DEF CloseStart, CloseEnd, CallTypeOK, WorkerTypeOK, poolVars, callVars, workerVars, pipeVars
<1>2. ASSUME NEW p \in Pools, ClosePool(p) \/ CloseChannel(p)
      PROVE  CallTypeOK' /\ WorkerTypeOK'
  BY <1>2 DEF ClosePool, CloseChannel, CallTypeOK, WorkerTypeOK, callVars, workerVars, pipeVars
<1>3. ASSUME NEW w \in Workers, CloseWorker(w)
      PROVE  CallTypeOK' /\ WorkerTypeOK'
  BY <1>3 DEF CloseWorker, CallTypeOK, WorkerTypeOK, poolVars, callVars
<1> QED
  BY <1>1, <1>2, <1>3 DEF CloseStep

LEMMA DownType ==
  ASSUME TypeOK, Down
  PROVE  TypeOK'
<1>1. CallTypeOK'
  BY RuntimeAssumption DEF Down, RuntimeReset, CallTypeOK, Replies
<1>2. WorkerTypeOK'
  BY RuntimeAssumption DEF TypeOK, Down, RuntimeReset, WorkerTypeOK, JobStates
<1>3. ASSUME NEW r \in Requests
      PROVE  h'[r] \in Handlers /\ Positioned(r, h'[r])
  BY FreshOK DEF TypeOK, ApiTypeOK, Down
<1>4. answer' \in [Requests -> Answers \cup {None}]
  BY DEF TypeOK, ApiTypeOK, Down, Answers
<1>5. ApiTypeOK'
  <2>1. h' \in [Requests -> Handlers]
    BY <1>3 DEF Down
  <2>2. restarts' \in 0 .. MaxRestarts
    BY ApiAssumption DEF TypeOK, ApiTypeOK, Down
  <2> QED
    BY <1>3, <1>4, <2>1, <2>2 DEF TypeOK, ApiTypeOK, Down
<1> QED
  BY <1>1, <1>2, <1>5 DEF TypeOK

(* What the other steps leave of the runtime.                              *)
LEMMA OtherRuntimeType ==
  ASSUME CallTypeOK, WorkerTypeOK, ApiTypeOK, NEW r \in Requests,
         Lookup(r) \/ Merge(r) \/ Timeout(r)
  PROVE  CallTypeOK' /\ WorkerTypeOK'
<1> USE ReplyKinds
<1>1. CASE Lookup(r)
  <2>1. Query(r) \in Queries
    <3>1. /\ Items[BodyOf[r]] \in Seq(Seq(Queries))
          /\ h[r].i \in 1 .. Len(Items[BodyOf[r]])
          /\ h[r].k \in 1 .. Len(Items[BodyOf[r]][h[r].i])
      BY ApiAssumption DEF ApiTypeOK, Positioned
    <3>2. Items[BodyOf[r]][h[r].i] \in Seq(Queries)
      BY <3>1, ElementOfSeq
    <3> QED
      BY <3>1, <3>2, ElementOfSeq DEF Query
  <2>2. UNCHANGED <<chan, closed, chanClosed, server, held, nth, expired, job, mu, shut, stdin,
                    stdout, alive, deaths>>
    BY <1>1 DEF Lookup, Bind, poolVars, workerVars, pipeVars
  <2>3. WorkerTypeOK'
    BY <2>2 DEF WorkerTypeOK
  <2>4. \/ /\ h[r].version \in Pools /\ stage' = [stage EXCEPT ![r] = "bound"]
           /\ asked' = [asked EXCEPT ![r] = [pool |-> h[r].version, query |-> Query(r)]]
           /\ reply' = reply
        \/ /\ stage' = [stage EXCEPT ![r] = "out"] /\ asked' = [asked EXCEPT ![r] = Nobody]
           /\ reply' = [reply EXCEPT ![r] = Failed]
    BY <1>1 DEF Lookup, Bind, Leave
  <2>5. ASSUME h[r].version \in Pools
        PROVE  /\ [pool |-> h[r].version, query |-> Query(r)] \in [pool : Pools, query : Queries]
               /\ [pool |-> h[r].version, query |-> Query(r)] # Nobody
    BY <2>1, <2>5, RuntimeAssumption
  <2>6. CallTypeOK'
    BY <2>2, <2>4, <2>5 DEF CallTypeOK
  <2> QED
    BY <2>3, <2>6
<1>2. CASE Merge(r)
  BY <1>2 DEF Merge, CallTypeOK, WorkerTypeOK, poolVars, workerVars, pipeVars
<1>3. CASE Timeout(r)
  BY <1>3 DEF Timeout, Expire, CallTypeOK, WorkerTypeOK, poolVars, callVars, workerVars, pipeVars
<1> QED
  BY <1>1, <1>2, <1>3

LEMMA HandlerType ==
  ASSUME ApiTypeOK, NEW r \in Requests, NEW x \in Handlers, Positioned(r, x),
         h' = [h EXCEPT ![r] = x]
  PROVE  h' \in [Requests -> Handlers] /\ \A s \in Requests : Positioned(s, h'[s])
  BY DEF ApiTypeOK

Labels == {"read", "mkdir", "reread", "load", "lookup", "score", "commit", "release", "drop",
           "respond", "refuse", "fail", "unlock"}

LEMMA GotoType ==
  ASSUME ApiTypeOK, NEW r \in Requests, NEW l \in Labels, Goto(r, l)
  PROVE  h' \in [Requests -> Handlers] /\ \A s \in Requests : Positioned(s, h'[s])
<1>1. h[r] \in Handlers /\ Positioned(r, h[r])
  BY DEF ApiTypeOK
<1>2. [h[r] EXCEPT !.pc = l] \in Handlers /\ Positioned(r, [h[r] EXCEPT !.pc = l])
  BY <1>1 DEF Handlers, Positioned, Labels
<1>3. h' = [h EXCEPT ![r] = [h[r] EXCEPT !.pc = l]]
  BY DEF Goto
<1> QED
  BY <1>2, <1>3, HandlerType

LEMMA ReplyType ==
  ASSUME ApiTypeOK, NEW r \in Requests, NEW a \in Answers, Reply(r, a)
  PROVE  /\ h' \in [Requests -> Handlers] /\ \A s \in Requests : Positioned(s, h'[s])
         /\ answer' \in [Requests -> Answers \cup {None}]
<1>1. Fresh("done") \in Handlers /\ Positioned(r, Fresh("done"))
  BY FreshOK
<1>2. h' \in [Requests -> Handlers] /\ \A s \in Requests : Positioned(s, h'[s])
  BY <1>1, HandlerType DEF Reply
<1> QED
  BY <1>2 DEF Reply, ApiTypeOK

LEMMA RecordAnswer ==
  ASSUME ApiTypeOK, NEW r \in Requests, record[KeyOf[r]] # None, FromRecord(r)
  PROVE  /\ h' \in [Requests -> Handlers] /\ \A s \in Requests : Positioned(s, h'[s])
         /\ answer' \in [Requests -> Answers \cup {None}]
<1> DEFINE rec == record[KeyOf[r]]
           a == IF rec.body = BodyOf[r] THEN [code |-> "ok", results |-> rec.results]
                ELSE [code |-> "conflict"]
<1>1. rec.results \in Seq(Results)
  BY ApiAssumption DEF ApiTypeOK
<1>2. a \in Answers
  BY <1>1 DEF Answers
<1>3. Reply(r, a)
  BY DEF FromRecord
<1> HIDE DEF a
<1> QED
  BY <1>2, <1>3, ReplyType

LEMMA NextItemType ==
  ASSUME ApiTypeOK, NEW r \in Requests, NEW result \in Results, NextItem(r, result)
  PROVE  h' \in [Requests -> Handlers] /\ \A s \in Requests : Positioned(s, h'[s])
<1> DEFINE body == BodyOf[r]
           rest == h[r].i < Len(Items[body])
           j == IF rest THEN h[r].i + 1 ELSE h[r].i
           x == [pc |-> IF rest THEN "load" ELSE "commit", i |-> j, k |-> 1, version |-> None,
                 got |-> <<>>, results |-> Append(h[r].results, result)]
<1>1. h[r] \in Handlers /\ Positioned(r, h[r])
  BY DEF ApiTypeOK
<1>2. Items[body] \in Seq(Seq(Queries)) /\ body \in Bodies
  BY ApiAssumption
<1>3. j \in 1 .. Len(Items[body]) /\ j \in Nat \ {0}
  BY <1>1, <1>2 DEF Positioned
<1>4. Items[body][j] \in Seq(Queries) /\ Len(Items[body][j]) > 0
  <2>1. \A n \in 1 .. Len(Items[body]) : Len(Items[body][n]) > 0
    BY <1>2, ApiAssumption
  <2>2. Items[body][j] \in Seq(Queries)
    BY <1>2, <1>3, ElementOfSeq
  <2> QED
    BY <1>3, <2>1, <2>2
<1>5. 1 \in 1 .. Len(Items[body][j])
  BY <1>4
<1>6. h' = [h EXCEPT ![r] = x]
  BY DEF NextItem
<1> HIDE DEF j
<1>7. Append(h[r].results, result) \in Seq(Results)
  BY <1>1 DEF Handlers
<1>8. x \in Handlers /\ x.i = j /\ x.k = 1
  BY <1>1, <1>3, <1>7 DEF Handlers
<1>9. Positioned(r, x)
  BY <1>3, <1>5, <1>8 DEF Positioned
<1> HIDE DEF x
<1> QED
  BY <1>6, <1>8, <1>9, HandlerType

LEMMA MergedType ==
  ASSUME NEW s \in Seq(Candidates), NEW a
  PROVE  Merged(s, a) \in SUBSET Candidates
<1> SUFFICES ASSUME NEW c \in Merged(s, a) PROVE c \in Candidates
  OBVIOUS
<1>1. PICK n \in 1 .. Len(s) : c = s[n]
  BY DEF Merged
<1> QED
  BY <1>1, ElementOfSeq

(* The steps of a handler keep the types.                                  *)
LEMMA HandleType ==
  ASSUME TypeOK, NEW r \in Requests, Receive(r) \/ Handle(r)
  PROVE  ApiTypeOK'
<1> USE DEF TypeOK
<1> DEFINE HandlersOK == h' \in [Requests -> Handlers] /\ \A s \in Requests : Positioned(s, h'[s])
           AnswersOK  == answer' \in [Requests -> Answers \cup {None}]
<1>0. /\ h[r] \in Handlers /\ KeyOf[r] \in Keys /\ BodyOf[r] \in Bodies
      /\ ApiTypeOK /\ reply[r] \in Replies
  <2>1. KeyOf[r] \in Keys /\ BodyOf[r] \in Bodies
    BY ApiAssumption
  <2>2. h[r] \in Handlers /\ reply[r] \in Replies
    BY DEF ApiTypeOK, CallTypeOK
  <2> QED
    BY <2>1, <2>2
<1>1. CASE Receive(r)
  <2>1. HandlersOK
    BY <1>1, GotoType DEF Receive, Labels
  <2> QED
    BY <1>1, <2>1 DEF Receive, ApiTypeOK
<1>2. CASE BeginRead(r)
  <2>1. HandlersOK /\ AnswersOK
    <3>1. CASE record[KeyOf[r]] # None
      BY <1>2, <3>1, RecordAnswer DEF BeginRead
    <3>2. CASE record[KeyOf[r]] = None
      BY <1>2, <3>2, GotoType DEF BeginRead, Labels, ApiTypeOK
    <3> QED
      BY <3>1, <3>2
  <2> QED
    BY <1>2, <2>1 DEF BeginRead, ApiTypeOK
<1>3. CASE BeginLock(r)
  <2>1. HandlersOK
    <3>1. (IF lockDir[KeyOf[r]] THEN "reread" ELSE "load") \in Labels
      BY DEF Labels
    <3> QED
      BY <1>3, <3>1, GotoType DEF BeginLock
  <2> QED
    BY <1>0, <1>3, <2>1 DEF BeginLock, ApiTypeOK
<1>4. CASE BeginReread(r)
  <2>1. HandlersOK /\ AnswersOK
    <3>1. CASE record[KeyOf[r]] # None
      BY <1>4, <3>1, RecordAnswer DEF BeginReread
    <3>2. CASE record[KeyOf[r]] = None
      <4>1. [code |-> "busy"] \in Answers
        BY DEF Answers
      <4> QED
        BY <1>4, <3>2, <4>1, ReplyType DEF BeginReread
    <3> QED
      BY <3>1, <3>2
  <2> QED
    BY <1>4, <2>1 DEF BeginReread, ApiTypeOK
<1>5. CASE StoreError(r)
  <2>1. [code |-> "error"] \in Answers
    BY DEF Answers
  <2>2. HandlersOK /\ AnswersOK
    BY <1>5, <2>1, ReplyType DEF StoreError
  <2> QED
    BY <1>5, <2>2 DEF StoreError, ApiTypeOK
<1>6. CASE Load(r)
  <2>1. HandlersOK
    <3>1. CASE Goto(r, "fail")
      BY <3>1, GotoType DEF Labels
    <3>2. CASE NextItem(r, [version |-> None, found |-> {}])
      <4>1. [version |-> None, found |-> {}] \in Results
        BY DEF Results
      <4> QED
        BY <3>2, <4>1, NextItemType
    <3>3. CASE h' = [h EXCEPT ![r].pc = "lookup", ![r].version = active]
      <4> DEFINE x == [h[r] EXCEPT !.pc = "lookup", !.version = active]
      <4>1. h' = [h EXCEPT ![r] = x]
        BY <3>3
      <4>2. x \in Handlers /\ Positioned(r, x)
        BY <1>0 DEF Handlers, Positioned, ApiTypeOK
      <4> HIDE DEF x
      <4> QED
        BY <4>1, <4>2, HandlerType
    <3> QED
      BY <1>6, <3>1, <3>2, <3>3 DEF Load
  <2> QED
    BY <1>6, <2>1 DEF Load, ApiTypeOK
<1>7. CASE Lookup(r)
  BY <1>7, ApiSame DEF Lookup
<1>8. CASE Merge(r)
  <2>1. HandlersOK
    <3>1. CASE reply[r] = Failed
      BY <1>8, <3>1, GotoType DEF Merge, Labels
    <3>2. CASE reply[r] # Failed
      <4> DEFINE more == h[r].k < Len(Items[BodyOf[r]][h[r].i])
                 m == IF more THEN h[r].k + 1 ELSE h[r].k
                 l == IF more THEN h[r].pc ELSE "score"
                 found == h[r].got \o reply[r].found
                 x == [h[r] EXCEPT !.got = found, !.k = m, !.pc = l]
      <4>1. reply[r].found \in Seq(Candidates)
        BY <1>0, <1>8, <3>2 DEF Merge, Replies, NoReply
      <4>2. found \in Seq(Candidates)
        BY <1>0, <4>1 DEF Handlers
      <4>3. Positioned(r, h[r]) /\ Items[BodyOf[r]] \in Seq(Seq(Queries))
        BY <1>0, ApiAssumption DEF ApiTypeOK
      <4>4. Items[BodyOf[r]][h[r].i] \in Seq(Queries)
        BY <4>3, ElementOfSeq DEF Positioned
      <4>5. m \in 1 .. Len(Items[BodyOf[r]][h[r].i]) /\ m \in Nat \ {0}
        <5> DEFINE len == Len(Items[BodyOf[r]][h[r].i])
        <5>1. len \in Nat
          BY <4>4
        <5>2. h[r].k \in 1 .. len
          BY <4>3 DEF Positioned
        <5> HIDE DEF len
        <5>3. (IF h[r].k < len THEN h[r].k + 1 ELSE h[r].k) \in 1 .. len
          BY <5>1, <5>2
        <5>4. m \in 1 .. len
          BY <5>3 DEF len
        <5> QED
          BY <5>1, <5>4 DEF len
      <4>6. l \in Labels
        BY <1>8 DEF Merge, Labels
      <4>7. h' = [h EXCEPT ![r] = x]
        BY <1>8, <3>2 DEF Merge
      <4> HIDE DEF m, l, found
      <4>8. x \in Handlers /\ x.i = h[r].i /\ x.k = m
        BY <1>0, <4>2, <4>5, <4>6 DEF Handlers, Labels
      <4>9. Positioned(r, x)
        BY <4>3, <4>5, <4>8 DEF Positioned
      <4> HIDE DEF x
      <4> QED
        BY <4>7, <4>8, <4>9, HandlerType
    <3> QED
      BY <3>1, <3>2
  <2> QED
    BY <1>8, <2>1 DEF Merge, ApiTypeOK
<1>9. CASE Score(r)
  <2>1. HandlersOK
    <3>1. CASE Goto(r, "fail")
      BY <3>1, GotoType DEF Labels
    <3> DEFINE allowed == Allowed(BodyOf[r], h[r].i)
               result  == [version |-> h[r].version, found |-> Merged(h[r].got, allowed)]
    <3>2. CASE NextItem(r, result)
      <4> HIDE DEF allowed
      <4>1. result \in Results
        BY <1>0, MergedType DEF Results, Handlers
      <4> HIDE DEF result
      <4> QED
        BY <3>2, <4>1, NextItemType
    <3> QED
      BY <1>9, <3>1, <3>2 DEF Score
  <2> QED
    BY <1>9, <2>1 DEF Score, ApiTypeOK
<1>10. CASE Commit(r)
  <2>1. HandlersOK
    <3>1. CASE Goto(r, "release")
      BY <3>1, GotoType DEF Labels
    <3>2. CASE Goto(r, "drop")
      BY <3>2, GotoType DEF Labels
    <3> QED
      BY <1>10, <3>1, <3>2 DEF Commit
  <2>2. [body |-> BodyOf[r], results |-> h[r].results] \in [body : Bodies, results : Seq(Results)]
    BY <1>0 DEF Handlers
  <2>3. record' \in [Keys -> [body : Bodies, results : Seq(Results)] \cup {None}]
    <3>1. CASE record' = record
      BY <3>1 DEF ApiTypeOK
    <3>2. CASE record' = [record EXCEPT ![KeyOf[r]] = [body |-> BodyOf[r], results |-> h[r].results]]
      BY <1>0, <2>2, <3>2 DEF ApiTypeOK
    <3> QED
      BY <1>10, <3>1, <3>2 DEF Commit
  <2> QED
    BY <1>10, <2>1, <2>3 DEF Commit, ApiTypeOK
<1>11. CASE Release(r)
  <2>1. HandlersOK
    <3>1. CASE Goto(r, "respond")
      BY <3>1, GotoType DEF Labels
    <3>2. CASE Goto(r, "refuse")
      BY <3>2, GotoType DEF Labels
    <3>3. CASE h' = [h EXCEPT ![r] = Fresh("done")]
      BY <3>3, FreshOK, HandlerType
    <3> QED
      BY <1>11, <3>1, <3>2, <3>3 DEF Release
  <2> QED
    BY <1>0, <1>11, <2>1 DEF Release, ApiTypeOK
<1>12. CASE Respond(r)
  <2>1. [code |-> "error"] \in Answers /\ [code |-> "ok", results |-> h[r].results] \in Answers
    BY <1>0 DEF Answers, Handlers
  <2>2. HandlersOK /\ AnswersOK
    <3>1. CASE Reply(r, [code |-> "ok", results |-> h[r].results])
      BY <2>1, <3>1, ReplyType
    <3>2. CASE Reply(r, [code |-> "error"])
      BY <2>1, <3>2, ReplyType
    <3>3. CASE answer' = [answer EXCEPT ![r] = [code |-> "error"]] /\ Goto(r, "unlock")
      <4>1. HandlersOK
        BY <3>3, GotoType DEF Labels
      <4> QED
        BY <2>1, <3>3, <4>1 DEF ApiTypeOK
    <3> QED
      BY <1>12, <3>1, <3>2, <3>3 DEF Respond
  <2> QED
    BY <1>12, <2>2 DEF Respond, ApiTypeOK
<1> QED
  BY <1>1, <1>2, <1>3, <1>4, <1>5, <1>6, <1>7, <1>8, <1>9, <1>10, <1>11, <1>12 DEF Handle

LEMMA TypeStep == TypeOK /\ [Next]_vars => TypeOK'
<1> SUFFICES ASSUME TypeOK, [Next]_vars PROVE TypeOK'
  OBVIOUS
<1>0. CallTypeOK /\ WorkerTypeOK /\ ApiTypeOK
  BY DEF TypeOK
<1>1. ASSUME NEW r \in Requests, Receive(r) \/ Handle(r) PROVE TypeOK'
  <2>1. ApiTypeOK'
    BY <1>1, HandleType
  <2>2. CASE Lookup(r) \/ Merge(r)
    BY <1>0, <2>1, <2>2, OtherRuntimeType DEF TypeOK
  <2>3. CASE ~ (Lookup(r) \/ Merge(r))
    <3>1. UNCHANGED runtimeVars
      BY <1>1, <2>3 DEF Receive, Handle, BeginRead, BeginLock, BeginReread, StoreError, Load,
                        Score, Commit, Release, Respond
    <3> QED
      BY <1>0, <2>1, <3>1, RuntimeSame DEF TypeOK
  <2> QED
    BY <2>2, <2>3
<1>2. ASSUME NEW r \in Requests, Timeout(r) PROVE TypeOK'
  <2>1. UNCHANGED apiVars
    BY <1>2 DEF Timeout
  <2> QED
    BY <1>0, <1>2, <2>1, OtherRuntimeType, ApiSame DEF TypeOK
<1>3. ASSUME NEW r \in Requests, LookupStep(r), UNCHANGED apiVars PROVE TypeOK'
  BY <1>0, <1>3, LookupType, ApiSame DEF TypeOK
<1>4. ASSUME NEW g \in Jobs, JobStep(g), UNCHANGED apiVars PROVE TypeOK'
  BY <1>0, <1>4, JobType, ApiSame DEF TypeOK
<1>5. ASSUME NEW w \in Workers, RunWorker(w) \/ Die(w), UNCHANGED apiVars PROVE TypeOK'
  BY <1>0, <1>5, ProcessType, ApiSame DEF TypeOK
<1>6. CASE (CloseStep /\ UNCHANGED apiVars) \/ StopServer
  <2>1. (CloseStep \/ CloseStart) /\ UNCHANGED apiVars
    BY <1>6 DEF StopServer
  <2> QED
    BY <1>0, <2>1, CloseType, ApiSame DEF TypeOK
<1>7. CASE ActivateVersion
  <2>1. activations' \in 0 .. MaxActivations
    BY <1>0, <1>7, ApiAssumption DEF ActivateVersion, ApiTypeOK
  <2>2. ApiTypeOK'
    BY <1>0, <1>7, <2>1 DEF ActivateVersion, ApiTypeOK
  <2> QED
    BY <1>0, <1>7, <2>2, RuntimeSame DEF ActivateVersion, TypeOK
<1>8. CASE Exit \/ Crash
  BY <1>8, DownType DEF Exit, Crash
<1>9. CASE Start
  <2>1. CallTypeOK' /\ WorkerTypeOK'
    BY <1>0, <1>9 DEF Start, CallTypeOK, WorkerTypeOK, poolVars, callVars, workerVars, pipeVars
  <2>2. UNCHANGED apiVars
    BY <1>9 DEF Start
  <2> QED
    BY <1>0, <2>1, <2>2, ApiSame DEF TypeOK
<1>10. CASE UNCHANGED vars
  BY <1>0, <1>10, RuntimeSame, ApiSame DEF vars, TypeOK
<1> QED
  BY <1>1, <1>2, <1>3, <1>4, <1>5, <1>6, <1>7, <1>8, <1>9, <1>10 DEF Next

(* The screening API, its pools and its workers keep the declared types:   *)
(* no lookup is of a version without a pool, no handler goes past the      *)
(* items of its body or the queries of an item, and every line a goroutine *)
(* reads is one the worker process writes.                                 *)
THEOREM TypeCorrect == Spec => []TypeOK
<1>1. TypeOK /\ [Next]_vars => TypeOK'
  BY TypeStep
<1> QED
  BY <1>1, TypeInit, PTL DEF Spec

-----------------------------------------------------------------------------
(* The lease of an idempotency key.                                        *)
-----------------------------------------------------------------------------
(* Only these steps change a lease or a lock directory.                    *)
LEMMA LeaseSame ==
  ASSUME LeaseExclusive, UNCHANGED <<h, lockDir>>
  PROVE  LeaseExclusive'
  BY DEF LeaseExclusive, Leased

(* A handler moves within its lease, or leaves it alone.                   *)
LEMMA LeaseMove ==
  ASSUME TypeOK, LeaseExclusive, NEW r \in Requests, UNCHANGED lockDir,
         \A s \in Requests \ {r} : h'[s].pc = h[s].pc,
         Leased(r)' => Leased(r)
  PROVE  LeaseExclusive'
<1>1. \A s \in Requests : Leased(s)' => Leased(s)
  BY DEF Leased
<1> QED
  BY <1>1 DEF LeaseExclusive

LEMMA LeaseHandle ==
  ASSUME TypeOK, LeaseExclusive, NEW r \in Requests, Receive(r) \/ Handle(r)
  PROVE  LeaseExclusive'
<1>0. h \in [Requests -> Handlers] /\ lockDir \in [Keys -> BOOLEAN] /\ KeyOf[r] \in Keys
  BY ApiAssumption DEF TypeOK, ApiTypeOK
<1>1. \A s \in Requests \ {r} : h'[s] = h[s]
  BY <1>0 DEF Receive, Handle, BeginRead, BeginLock, BeginReread, StoreError, Load, Lookup, Merge,
         Score, Commit, Release, Respond, FromRecord, Reply, Goto, NextItem, apiVars
<1>2. CASE BeginLock(r)
  <2>1. h'[r].pc = IF lockDir[KeyOf[r]] THEN "reread" ELSE "load"
    BY <1>0, <1>2 DEF BeginLock, Goto, Handlers
  <2>2. CASE lockDir[KeyOf[r]]
    <3>1. ~ Leased(r)'
      BY <2>1, <2>2 DEF Leased
    <3>2. lockDir' = lockDir
      BY <1>0, <1>2, <2>2 DEF BeginLock
    <3> QED
      BY <1>1, <3>1, <3>2, LeaseMove
  <2>3. CASE ~ lockDir[KeyOf[r]]
    <3>1. \A s \in Requests : Leased(s) => KeyOf[s] # KeyOf[r]
      BY <2>3 DEF LeaseExclusive
    <3>2. \A s \in Requests \ {r} : Leased(s)' <=> Leased(s)
      BY <1>1 DEF Leased
    <3>3. \A k \in Keys : lockDir'[k] <=> (lockDir[k] \/ k = KeyOf[r])
      BY <1>0, <1>2 DEF BeginLock
    <3>4. \A s \in Requests : KeyOf[s] \in Keys
      BY ApiAssumption
    <3> QED
      BY <3>1, <3>2, <3>3, <3>4 DEF LeaseExclusive
  <2> QED
    BY <2>2, <2>3
<1>3. CASE Release(r)
  <2>1. Leased(r) /\ ~ Leased(r)'
    <3>1. CASE Goto(r, "respond") \/ Goto(r, "refuse")
      BY <1>0, <1>3, <3>1 DEF Release, Goto, Leased, Handlers
    <3>2. CASE h' = [h EXCEPT ![r] = Fresh("done")]
      BY <1>0, <1>3, <3>2 DEF Release, Fresh, Leased
    <3> QED
      BY <1>3, <3>1, <3>2 DEF Release
  <2>2. \A s \in Requests \ {r} : Leased(s)' <=> Leased(s)
    BY <1>1 DEF Leased
  <2>3. \A s \in Requests \ {r} : Leased(s) => KeyOf[s] # KeyOf[r]
    BY <2>1 DEF LeaseExclusive
  <2>4. \A k \in Keys \ {KeyOf[r]} : lockDir'[k] = lockDir[k]
    BY <1>0, <1>3 DEF Release
  <2>5. \A s \in Requests : KeyOf[s] \in Keys
    BY ApiAssumption
  <2> QED
    BY <2>1, <2>2, <2>3, <2>4, <2>5 DEF LeaseExclusive
<1>4. CASE ~ BeginLock(r) /\ ~ Release(r)
  <2>1. lockDir' = lockDir
    BY <1>4 DEF Receive, Handle, BeginRead, BeginReread, StoreError, Load, Lookup, Merge, Score,
                Commit, Respond, apiVars
  <2>2. Leased(r)' => Leased(r)
    <3>1. CASE Receive(r) \/ BeginRead(r) \/ BeginReread(r) \/ StoreError(r)
      BY <1>0, <3>1 DEF Receive, BeginRead, BeginReread, StoreError, FromRecord, Reply, Goto,
                        Fresh, Leased, Handlers
    <3>2. CASE Respond(r)
      BY <1>0, <3>2 DEF Respond, Reply, Goto, Fresh, Leased, Handlers
    <3>3. CASE Load(r) \/ Lookup(r) \/ Merge(r) \/ Score(r) \/ Commit(r)
      BY <3>3 DEF Load, Lookup, Merge, Score, Commit, Leased
    <3> QED
      BY <1>4, <3>1, <3>2, <3>3 DEF Handle
  <2> QED
    BY <1>1, <2>1, <2>2, LeaseMove
<1> QED
  BY <1>2, <1>3, <1>4

(* A key has one lease: whatever requests, timeouts, stops, crashes and    *)
(* directories left behind by a crash, two requests never screen and write *)
(* the record of the same key at once (Begin's Mkdir, Release).            *)
THEOREM OneLease == Spec => []LeaseExclusive
<1>1. Init => LeaseExclusive
  BY DEF Init, LeaseExclusive, Leased, Fresh
<1>2. TypeOK /\ LeaseExclusive /\ [Next]_vars => LeaseExclusive'
  <2> SUFFICES ASSUME TypeOK, LeaseExclusive, [Next]_vars PROVE LeaseExclusive'
    OBVIOUS
  <2>1. CASE \E r \in Requests : Receive(r) \/ Handle(r)
    BY <2>1, LeaseHandle
  <2>2. CASE Exit \/ Crash
    <3>1. \A r \in Requests : ~ Leased(r)'
      BY <2>2 DEF Exit, Crash, Down, Fresh, Leased
    <3> QED
      BY <3>1 DEF LeaseExclusive
  <2>3. CASE UNCHANGED <<h, lockDir>>
    BY <2>3, LeaseSame
  <2> QED
    BY <2>1, <2>2, <2>3 DEF Next, Timeout, ActivateVersion, StopServer, Start, vars, apiVars
<1> QED
  BY <1>1, <1>2, TypeCorrect, PTL DEF Spec

-----------------------------------------------------------------------------
(* A client told a result can ask again.                                   *)
-----------------------------------------------------------------------------
(* A handler that has committed has a record, until it has answered.       *)
CommittedIsRecorded ==
  \A r \in Requests : h[r].pc \in {"release", "respond"} => record[KeyOf[r]] # None

Recorded == AnsweredIsRecorded /\ CommittedIsRecorded

(* Records are never taken away.                                           *)
LEMMA RecordsStay ==
  ASSUME TypeOK, [Next]_vars, NEW k \in Keys, record[k] # None
  PROVE  record'[k] # None
<1>1. CASE \E r \in Requests : Commit(r)
  <2>1. PICK r \in Requests : Commit(r)
    BY <1>1
  <2>2. [body |-> BodyOf[r], results |-> h[r].results] # None
    <3>1. h[r].results \in Seq(Results) /\ BodyOf[r] \in Bodies
      BY ApiAssumption DEF TypeOK, ApiTypeOK, Handlers
    <3> QED
      BY <3>1, ApiAssumption
  <2> QED
    BY <2>1, <2>2 DEF Commit, TypeOK, ApiTypeOK
<1>2. CASE record' = record
  BY <1>2
<1> QED
  BY <1>1, <1>2 DEF Next, Receive, Handle, BeginRead, BeginLock, BeginReread, StoreError, Load,
     Lookup, Merge, Score, Release, Respond, Timeout, ActivateVersion, StopServer, Exit, Crash,
     Down, Start, vars, apiVars

LEMMA RecordedHandle ==
  ASSUME TypeOK, Recorded, [Next]_vars, NEW r \in Requests, Receive(r) \/ Handle(r)
  PROVE  Recorded'
<1>0. /\ h \in [Requests -> Handlers] /\ h[r] \in Handlers
      /\ answer \in [Requests -> Answers \cup {None}]
      /\ record \in [Keys -> [body : Bodies, results : Seq(Results)] \cup {None}]
      /\ \A s \in Requests : KeyOf[s] \in Keys
  BY ApiAssumption DEF TypeOK, ApiTypeOK
<1>1. \A s \in Requests : record[KeyOf[s]] # None => record'[KeyOf[s]] # None
  BY <1>0, RecordsStay
<1>2. \A s \in Requests \ {r} : h'[s] = h[s] /\ answer'[s] = answer[s]
  BY <1>0 DEF Receive, Handle, BeginRead, BeginLock, BeginReread, StoreError, Load, Lookup, Merge,
         Score, Commit, Release, Respond, FromRecord, Reply, Goto, NextItem, apiVars
<1> SUFFICES /\ h'[r].pc \in {"release", "respond"} => record'[KeyOf[r]] # None
             /\ answer'[r] = answer[r] \/ answer'[r].code # "ok" \/ record'[KeyOf[r]] # None
  BY <1>1, <1>2 DEF Recorded, AnsweredIsRecorded, CommittedIsRecorded
<1>3. ASSUME NEW a, Reply(r, a), a.code # "ok" \/ record'[KeyOf[r]] # None
      PROVE  /\ h'[r].pc \in {"release", "respond"} => record'[KeyOf[r]] # None
             /\ answer'[r] = answer[r] \/ answer'[r].code # "ok" \/ record'[KeyOf[r]] # None
  BY <1>0, <1>3 DEF Reply, Fresh
<1>4. ASSUME FromRecord(r), record[KeyOf[r]] # None
      PROVE  /\ h'[r].pc \in {"release", "respond"} => record'[KeyOf[r]] # None
             /\ answer'[r] = answer[r] \/ answer'[r].code # "ok" \/ record'[KeyOf[r]] # None
  BY <1>1, <1>3, <1>4 DEF FromRecord
<1>5. ASSUME NEW l \in Labels \ {"release", "respond"}, Goto(r, l)
      PROVE  h'[r].pc \notin {"release", "respond"}
  BY <1>0, <1>5 DEF Goto, Handlers
<1>6. ASSUME NEW result, NextItem(r, result)
      PROVE  h'[r].pc \notin {"release", "respond"}
  BY <1>0, <1>6 DEF NextItem
<1>7. CASE Receive(r)
  BY <1>5, <1>7 DEF Receive, Labels
<1>8. CASE BeginRead(r)
  BY <1>4, <1>5, <1>8 DEF BeginRead, Labels
<1>9. CASE BeginLock(r)
  BY <1>5, <1>9 DEF BeginLock, Labels
<1>10. CASE BeginReread(r)
  BY <1>3, <1>4, <1>10 DEF BeginReread
<1>11. CASE StoreError(r)
  BY <1>3, <1>11 DEF StoreError
<1>12. CASE Load(r)
  <2>1. answer' = answer
    BY <1>12 DEF Load
  <2>2. CASE h' = [h EXCEPT ![r].pc = "lookup", ![r].version = active]
    BY <1>0, <2>1, <2>2 DEF Handlers
  <2> QED
    BY <1>5, <1>6, <1>12, <2>1, <2>2 DEF Load, Labels
<1>13. CASE Lookup(r)
  BY <1>13 DEF Lookup, apiVars
<1>14. CASE Merge(r)
  <2>1. answer' = answer
    BY <1>14 DEF Merge
  <2>2. CASE reply[r] = Failed
    BY <1>5, <1>14, <2>1, <2>2 DEF Merge, Labels
  <2>3. CASE reply[r] # Failed
    <3>1. h'[r].pc \in {"lookup", "score"}
      BY <1>0, <1>14, <2>3 DEF Merge, Handlers
    <3> QED
      BY <2>1, <3>1
  <2> QED
    BY <2>2, <2>3
<1>15. CASE Score(r)
  BY <1>5, <1>6, <1>15 DEF Score, Labels
<1>16. CASE Commit(r)
  <2>1. answer' = answer
    BY <1>16 DEF Commit
  <2>2. CASE record' = [record EXCEPT ![KeyOf[r]] = [body |-> BodyOf[r], results |-> h[r].results]]
    <3>1. h[r].results \in Seq(Results) /\ BodyOf[r] \in Bodies
      BY <1>0, ApiAssumption DEF Handlers
    <3>2. [body |-> BodyOf[r], results |-> h[r].results] # None
      BY <3>1, ApiAssumption
    <3> QED
      BY <1>0, <2>1, <2>2, <3>2
  <2>3. CASE Goto(r, "drop")
    BY <1>5, <2>1, <2>3 DEF Labels
  <2> QED
    BY <1>16, <2>2, <2>3 DEF Commit
<1>17. CASE Release(r)
  <2>1. answer' = answer /\ record' = record
    BY <1>17 DEF Release
  <2>2. CASE h[r].pc = "release"
    BY <2>1, <2>2 DEF Recorded, CommittedIsRecorded
  <2>3. CASE h[r].pc = "drop"
    <3>1. Goto(r, "refuse")
      BY <1>17, <2>3 DEF Release
    <3> QED
      BY <1>5, <2>1, <3>1 DEF Labels
  <2>4. CASE h[r].pc = "unlock"
    <3>1. h' = [h EXCEPT ![r] = Fresh("done")]
      BY <1>17, <2>4 DEF Release
    <3> QED
      BY <1>0, <2>1, <3>1 DEF Fresh
  <2> QED
    BY <1>17, <2>2, <2>3, <2>4 DEF Release
<1>18. CASE Respond(r)
  <2>1. record' = record
    BY <1>18 DEF Respond
  <2>2. CASE h[r].pc = "respond"
    BY <1>18, <2>1, <2>2 DEF Respond, Recorded, CommittedIsRecorded
  <2>3. CASE Reply(r, [code |-> "error"])
    BY <1>3, <2>3
  <2>4. CASE answer' = [answer EXCEPT ![r] = [code |-> "error"]] /\ Goto(r, "unlock")
    BY <1>0, <1>5, <2>4 DEF Labels
  <2> QED
    BY <1>18, <2>2, <2>3, <2>4 DEF Respond
<1> QED
  BY <1>7, <1>8, <1>9, <1>10, <1>11, <1>12, <1>13, <1>14, <1>15, <1>16, <1>17, <1>18 DEF Handle

(* What a client was told is on disk: a request answered with a result has *)
(* a record that any later process finds, whatever stops and crashes       *)
(* (lease.Commit before the response is written).                          *)
THEOREM AnswersRecorded == Spec => []AnsweredIsRecorded
<1>1. Init => Recorded
  BY DEF Init, Fresh, Recorded, AnsweredIsRecorded, CommittedIsRecorded
<1>2. TypeOK /\ Recorded /\ [Next]_vars => Recorded'
  <2> SUFFICES ASSUME TypeOK, Recorded, [Next]_vars PROVE Recorded'
    OBVIOUS
  <2>0. \A s \in Requests : record[KeyOf[s]] # None => record'[KeyOf[s]] # None
    BY RecordsStay, ApiAssumption
  <2>1. CASE \E r \in Requests : Receive(r) \/ Handle(r)
    BY <2>1, RecordedHandle
  <2>2. CASE Exit \/ Crash
    <3>1. \A r \in Requests : h'[r].pc \in {"new", "done"}
      BY <2>2 DEF Exit, Crash, Down, Fresh
    <3>2. \A r \in Requests : answer'[r] = answer[r] \/ answer'[r].code = "lost"
      BY <2>2 DEF Exit, Crash, Down
    <3> QED
      BY <2>0, <3>1, <3>2 DEF Recorded, AnsweredIsRecorded, CommittedIsRecorded
  <2>3. CASE UNCHANGED <<h, answer>>
    BY <2>0, <2>3 DEF Recorded, AnsweredIsRecorded, CommittedIsRecorded
  <2> QED
    BY <2>1, <2>2, <2>3 DEF Next, Timeout, ActivateVersion, StopServer, Start, vars, apiVars
<1>3. Recorded => AnsweredIsRecorded
  BY DEF Recorded
<1> QED
  BY <1>1, <1>2, <1>3, TypeCorrect, PTL DEF Spec

-----------------------------------------------------------------------------
(* A pool's channel and its lookups.                                       *)
-----------------------------------------------------------------------------
(* A channel is closed only in a closed pool, no lookup is past Enter when *)
(* it is, and a worker is held only by a lookup that waits or returns it.  *)
PoolInv ==
  /\ \A p \in Pools : chanClosed[p] => closed[p]
  /\ \A r \in Requests : InLookup(r) => ~ chanClosed[asked[r].pool]
  /\ \A r \in Requests : held[r] # Nobody => stage[r] \in {"wait", "giveback"}

LEMMA PoolSame ==
  ASSUME PoolInv, UNCHANGED <<closed, chanClosed, stage, asked, held>>
  PROVE  PoolInv'
  BY DEF PoolInv, InLookup

LEMMA PoolLookup ==
  ASSUME TypeOK, PoolInv, NEW r \in Requests, LookupStep(r) \/ Lookup(r)
  PROVE  PoolInv'
<1>0. /\ stage \in [Requests -> {"out", "bound", "select", "wait", "giveback"}]
      /\ asked \in [Requests -> [pool : Pools, query : Queries] \cup {Nobody}]
      /\ held \in [Requests -> Workers \cup {Nobody}]
  BY DEF TypeOK, CallTypeOK
<1>1. UNCHANGED <<closed, chanClosed>>
  BY DEF LookupStep, Enter, TakeWorker, GiveUpWaiting, TakeReply, Abandon, GiveBack, Lookup, Bind,
         poolVars
<1>2. \A s \in Requests \ {r} : stage'[s] = stage[s] /\ asked'[s] = asked[s] /\ held'[s] = held[s]
  BY <1>0 DEF LookupStep, Enter, TakeWorker, GiveUpWaiting, TakeReply, Abandon, GiveBack, Lookup,
         Bind, Leave
<1> SUFFICES /\ InLookup(r)' => ~ chanClosed[asked'[r].pool]
             /\ held'[r] # Nobody => stage'[r] \in {"wait", "giveback"}
  BY <1>1, <1>2 DEF PoolInv, InLookup
<1>3. CASE Enter(r)
  <2>1. asked[r].pool \in Pools
    BY <1>3, AskedType DEF Enter, TypeOK
  <2> QED
    BY <1>0, <1>3, <2>1 DEF Enter, Leave, PoolInv, InLookup
<1>4. CASE TakeWorker(r)
  BY <1>0, <1>4 DEF TakeWorker, PoolInv, InLookup
<1>5. CASE GiveUpWaiting(r)
  BY <1>0, <1>5 DEF GiveUpWaiting, Leave, PoolInv, InLookup
<1>6. CASE TakeReply(r) \/ Abandon(r)
  BY <1>0, <1>6 DEF TakeReply, Abandon, PoolInv, InLookup
<1>7. CASE GiveBack(r)
  BY <1>0, <1>7 DEF GiveBack, Leave, InLookup
<1>8. CASE Lookup(r)
  <2>1. stage'[r] \in {"out", "bound"} /\ stage[r] = "out" /\ held' = held
    BY <1>0, <1>8 DEF Lookup, Bind, Leave
  <2> QED
    BY <2>1 DEF PoolInv, InLookup
<1> QED
  BY <1>3, <1>4, <1>5, <1>6, <1>7, <1>8 DEF LookupStep

LEMMA PoolClose ==
  ASSUME TypeOK, PoolInv, CloseStep
  PROVE  PoolInv'
<1>0. closed \in [Pools -> BOOLEAN] /\ chanClosed \in [Pools -> BOOLEAN]
  BY DEF TypeOK, WorkerTypeOK
<1>1. ASSUME NEW p \in Pools, ClosePool(p) PROVE PoolInv'
  BY <1>0, <1>1 DEF ClosePool, PoolInv, InLookup, callVars
<1>2. ASSUME NEW p \in Pools, CloseChannel(p) PROVE PoolInv'
  <2>1. \A r \in Requests : InLookup(r) => asked[r].pool \in Pools /\ asked[r].pool # p
    <3>1. \A r \in Requests : InLookup(r) => asked[r].pool # p
      BY <1>2 DEF CloseChannel, InFlight
    <3>2. \A r \in Requests : InLookup(r) => asked[r].pool \in Pools
      BY AskedType DEF TypeOK, InLookup
    <3> QED
      BY <3>1, <3>2
  <2>2. chanClosed' = [chanClosed EXCEPT ![p] = TRUE] /\ closed[p]
        /\ UNCHANGED <<closed, stage, asked, held>>
    BY <1>2 DEF CloseChannel, callVars
  <2>3. \A r \in Requests : InLookup(r)' <=> InLookup(r)
    BY <2>2 DEF InLookup
  <2> QED
    BY <1>0, <2>1, <2>2, <2>3 DEF PoolInv
<1>3. CASE CloseEnd \/ \E w \in Workers : CloseWorker(w)
  BY <1>3, PoolSame DEF CloseEnd, CloseWorker, poolVars, callVars
<1> QED
  BY <1>1, <1>2, <1>3 DEF CloseStep

LEMMA PoolStep == TypeOK /\ PoolInv /\ [Next]_vars => PoolInv'
<1> SUFFICES ASSUME TypeOK, PoolInv, [Next]_vars PROVE PoolInv'
  OBVIOUS
<1>1. CASE \E r \in Requests : LookupStep(r) \/ Lookup(r)
  BY <1>1, PoolLookup
<1>2. CASE CloseStep
  BY <1>2, PoolClose
<1>3. CASE Exit \/ Crash
  BY <1>3 DEF Exit, Crash, Down, RuntimeReset, PoolInv, InLookup
<1>4. CASE UNCHANGED <<closed, chanClosed, stage, asked, held>>
  BY <1>4, PoolSame
<1>5. ASSUME NEW g \in Jobs, JobStep(g)
      PROVE  UNCHANGED <<closed, chanClosed, stage, asked, held>>
  BY <1>5 DEF JobStep, LockWorker, WriteQuery, ScanBegin, ScanBody, ScanEOF, poolVars
<1>6. ASSUME NEW w \in Workers, RunWorker(w) \/ Die(w)
      PROVE  UNCHANGED <<closed, chanClosed, stage, asked, held>>
  BY <1>6 DEF RunWorker, Die, poolVars, callVars
<1>7. ASSUME NEW r \in Requests, Receive(r) \/ Handle(r) \/ Timeout(r), ~ Lookup(r)
      PROVE  UNCHANGED <<closed, chanClosed, stage, asked, held>>
  BY <1>7 DEF Receive, Handle, BeginRead, BeginLock, BeginReread, StoreError, Load, Merge, Score,
     Commit, Release, Respond, Timeout, Expire, runtimeVars, poolVars, callVars
<1>8. CASE ActivateVersion \/ StopServer \/ Start \/ UNCHANGED vars
  <2>1. UNCHANGED <<closed, chanClosed, stage, asked, held>>
    BY <1>8 DEF ActivateVersion, StopServer, CloseStart, Start, vars, runtimeVars, poolVars, callVars
  <2> QED
    BY <2>1, PoolSame
<1> QED
  BY <1>1, <1>2, <1>3, <1>4, <1>5, <1>6, <1>7, <1>8 DEF Next

(* No interleaving of lookups, timeouts and Close sends a worker on a      *)
(* closed channel: Pool.Close waits for the lookups it did not refuse, and *)
(* refuses the ones that come later.                                       *)
THEOREM SendsAreSafe == Spec => []NoSendOnClosed
<1>1. Init => PoolInv
  BY DEF Init, RuntimeInit, PoolInv, InLookup
<1>2. PoolInv => NoSendOnClosed
  BY DEF PoolInv, NoSendOnClosed, InLookup
<1> QED
  BY <1>1, <1>2, PoolStep, TypeCorrect, PTL DEF Spec

-----------------------------------------------------------------------------
(* Where the workers are.                                                  *)
-----------------------------------------------------------------------------
(* Every worker is once in the channel of its pool, or held by one lookup  *)
(* of its pool.                                                            *)
ChanInv ==
  /\ \A p \in Pools : \A n \in 1 .. Len(chan[p]) : PoolOf(chan[p][n]) = p
  /\ \A p \in Pools : \A m, n \in 1 .. Len(chan[p]) : chan[p][m] = chan[p][n] => m = n
  /\ \A r \in Requests : held[r] # Nobody => PoolOf(held[r]) = asked[r].pool
  /\ \A r \in Requests : \A p \in Pools : \A n \in 1 .. Len(chan[p]) : held[r] # chan[p][n]
  /\ \A r, s \in Requests : held[r] # Nobody /\ held[r] = held[s] => r = s
  /\ \A w \in Workers : \/ \E n \in 1 .. Len(chan[PoolOf(w)]) : chan[PoolOf(w)][n] = w
                        \/ \E r \in Requests : held[r] = w

(* A worker has been started for one pool.                                 *)
LEMMA StartedOnce ==
  ASSUME NEW p \in Pools, NEW n \in 1 .. Len(Started[p])
  PROVE  Started[p][n] \in Workers /\ PoolOf(Started[p][n]) = p
<1> DEFINE w == Started[p][n]
<1>1. w \in Members(Started[p])
  BY DEF Members
<1>2. w \in Workers
  BY <1>1 DEF Workers
<1>3. ASSUME NEW o \in Pools, w \in Members(Started[o])
      PROVE  o = p
  BY <1>3, RuntimeAssumption DEF Members
<1>4. PoolOf(w) \in Pools /\ w \in Members(Started[PoolOf(w)])
  BY <1>1 DEF PoolOf
<1> QED
  BY <1>2, <1>3, <1>4

LEMMA StartedAll ==
  ASSUME NEW w \in Workers
  PROVE  \E n \in 1 .. Len(Started[PoolOf(w)]) : Started[PoolOf(w)][n] = w
<1>1. w \in Members(Started[PoolOf(w)])
  BY DEF PoolOf, Workers
<1> QED
  BY <1>1 DEF Members

LEMMA ChanStarted ==
  ASSUME chan = Started, held = [r \in Requests |-> Nobody]
  PROVE  ChanInv
<1>1. Nobody \notin Workers
  BY RuntimeAssumption
<1>2. \A p \in Pools : \A m, n \in 1 .. Len(Started[p]) : Started[p][m] = Started[p][n] => m = n
  BY RuntimeAssumption
<1> QED
  BY <1>1, <1>2, StartedOnce, StartedAll DEF ChanInv

LEMMA ChanSame ==
  ASSUME ChanInv, UNCHANGED <<chan, held>>,
         \A r \in Requests : held[r] # Nobody => asked'[r] = asked[r]
  PROVE  ChanInv'
  BY DEF ChanInv

(* Taking a worker from the channel.                                       *)
LEMMA ChanTake ==
  ASSUME TypeOK, PoolInv, ChanInv, NEW r \in Requests, TakeWorker(r)
  PROVE  ChanInv'
<1> DEFINE p == asked[r].pool
           w == Head(chan[p])
<1>0. /\ p \in Pools /\ chan \in [Pools -> Seq(Workers)] /\ chan[p] # <<>>
      /\ held \in [Requests -> Workers \cup {Nobody}] /\ Nobody \notin Workers
      /\ chan[p] \in Seq(Workers)
  BY AskedType, RuntimeAssumption DEF TakeWorker, TypeOK, CallTypeOK, WorkerTypeOK
<1>1. /\ chan' = [chan EXCEPT ![p] = Tail(chan[p])] /\ held' = [held EXCEPT ![r] = w]
      /\ asked' = asked
  BY DEF TakeWorker
<1>2. held[r] = Nobody
  BY DEF TakeWorker, PoolInv
<1>3. /\ Len(chan[p]) \in Nat \ {0} /\ w = chan[p][1] /\ w \in Workers
      /\ Len(Tail(chan[p])) = Len(chan[p]) - 1
      /\ \A n \in 1 .. Len(Tail(chan[p])) : n + 1 \in 1 .. Len(chan[p]) /\ Tail(chan[p])[n] = chan[p][n + 1]
  BY <1>0
<1>4. 1 \in 1 .. Len(chan[p]) /\ PoolOf(w) = p
  BY <1>0, <1>3 DEF ChanInv
<1>5. \A o \in Pools : \A n \in 1 .. Len(chan'[o]) :
        \E m \in 1 .. Len(chan[o]) : chan'[o][n] = chan[o][m] /\ (o = p => m = n + 1) /\ (o # p => m = n)
  BY <1>0, <1>1, <1>3
<1>6. \A o \in Pools : \A n \in 1 .. Len(chan'[o]) : PoolOf(chan'[o][n]) = o
  BY <1>5 DEF ChanInv
<1>7. ASSUME NEW o \in Pools, NEW m \in 1 .. Len(chan'[o]), NEW n \in 1 .. Len(chan'[o]),
             chan'[o][m] = chan'[o][n]
      PROVE  m = n
  <2>1. CASE o = p
    <3>1. Len(chan'[p]) = Len(chan[p]) - 1 /\ chan'[p][m] = chan[p][m + 1] /\ chan'[p][n] = chan[p][n + 1]
      BY <1>0, <1>1, <1>3, <2>1
    <3>2. m + 1 \in 1 .. Len(chan[p]) /\ n + 1 \in 1 .. Len(chan[p]) /\ m \in Int /\ n \in Int
      BY <1>3, <2>1, <3>1
    <3>3. m + 1 = n + 1
      BY <1>0, <1>7, <2>1, <3>1, <3>2 DEF ChanInv
    <3> QED
      BY <3>2, <3>3
  <2>2. CASE o # p
    <3>1. chan'[o] = chan[o]
      BY <1>0, <1>1, <2>2
    <3> QED
      BY <1>7, <3>1 DEF ChanInv
  <2> QED
    BY <2>1, <2>2
<1>8. ASSUME NEW s \in Requests, held'[s] # Nobody
      PROVE  PoolOf(held'[s]) = asked'[s].pool
  BY <1>0, <1>1, <1>4, <1>8 DEF ChanInv
<1>9. ASSUME NEW s \in Requests, NEW o \in Pools, NEW n \in 1 .. Len(chan'[o])
      PROVE  held'[s] # chan'[o][n]
  <2>1. PICK m \in 1 .. Len(chan[o]) : chan'[o][n] = chan[o][m] /\ (o = p => m = n + 1)
    BY <1>5
  <2>2. CASE s # r
    BY <1>0, <1>1, <2>1, <2>2 DEF ChanInv
  <2>3. CASE s = r /\ o = p
    BY <1>0, <1>1, <1>3, <1>4, <2>1, <2>3 DEF ChanInv
  <2>4. CASE s = r /\ o # p
    <3>1. PoolOf(chan[o][m]) = o
      BY <2>1 DEF ChanInv
    <3> QED
      BY <1>0, <1>1, <1>4, <2>1, <2>4, <3>1
  <2> QED
    BY <2>2, <2>3, <2>4
<1>10. ASSUME NEW s \in Requests, NEW t \in Requests, held'[s] # Nobody, held'[s] = held'[t]
       PROVE  s = t
  <2>0. \A u \in Requests : held[u] # chan[p][1]
    BY <1>0, <1>4 DEF ChanInv
  <2>1. \A u \in Requests : held[u] # w
    BY <1>3, <2>0
  <2> QED
    BY <1>0, <1>1, <1>10, <2>1 DEF ChanInv
<1>11. ASSUME NEW v \in Workers
       PROVE  \/ \E n \in 1 .. Len(chan'[PoolOf(v)]) : chan'[PoolOf(v)][n] = v
              \/ \E s \in Requests : held'[s] = v
  <2>1. CASE \E s \in Requests : held[s] = v
    BY <1>0, <1>1, <1>2, <2>1
  <2>2. CASE \E n \in 1 .. Len(chan[PoolOf(v)]) : chan[PoolOf(v)][n] = v
    <3>1. PICK n \in 1 .. Len(chan[PoolOf(v)]) : chan[PoolOf(v)][n] = v
      BY <2>2
    <3>2. CASE PoolOf(v) # p
      BY <1>0, <1>1, <3>1, <3>2, WorkerPool
    <3>3. CASE PoolOf(v) = p /\ n = 1
      BY <1>0, <1>1, <1>3, <3>1, <3>3
    <3>4. CASE PoolOf(v) = p /\ n # 1
      <4>1. n - 1 \in 1 .. Len(Tail(chan[p])) /\ Tail(chan[p])[n - 1] = v
        BY <1>3, <3>1, <3>4
      <4> QED
        BY <1>0, <1>1, <3>4, <4>1
    <3> QED
      BY <3>2, <3>3, <3>4
  <2> QED
    BY <2>1, <2>2 DEF ChanInv
<1> QED
  BY <1>6, <1>7, <1>8, <1>9, <1>10, <1>11 DEF ChanInv

(* Giving it back.                                                         *)
LEMMA ChanGive ==
  ASSUME TypeOK, PoolInv, ChanInv, NEW r \in Requests, GiveBack(r)
  PROVE  ChanInv'
<1> DEFINE p == asked[r].pool
           w == held[r]
<1>0. /\ p \in Pools /\ chan \in [Pools -> Seq(Workers)] /\ w \in Workers
      /\ held \in [Requests -> Workers \cup {Nobody}] /\ Nobody \notin Workers
      /\ chan[p] \in Seq(Workers)
      /\ asked \in [Requests -> [pool : Pools, query : Queries] \cup {Nobody}]
  BY AskedType, RuntimeAssumption DEF GiveBack, TypeOK, CallTypeOK, WorkerTypeOK
<1>1. /\ chan' = [chan EXCEPT ![p] = Append(chan[p], w)] /\ held' = [held EXCEPT ![r] = Nobody]
      /\ asked' = [asked EXCEPT ![r] = Nobody]
  BY DEF GiveBack, Leave
<1>2. PoolOf(w) = p /\ w # Nobody
  BY <1>0 DEF ChanInv
<1>3. /\ Len(chan[p]) \in Nat /\ Len(Append(chan[p], w)) = Len(chan[p]) + 1
      /\ \A n \in 1 .. Len(chan[p]) : Append(chan[p], w)[n] = chan[p][n]
      /\ Append(chan[p], w)[Len(chan[p]) + 1] = w
  BY <1>0
<1>4. \A o \in Pools : Len(chan[o]) \in Nat
  BY <1>0
<1>5. ASSUME NEW o \in Pools, NEW n \in 1 .. Len(chan'[o])
      PROVE  \/ n \in 1 .. Len(chan[o]) /\ chan'[o][n] = chan[o][n]
             \/ o = p /\ n = Len(chan[p]) + 1 /\ chan'[o][n] = w
  BY <1>0, <1>1, <1>3
<1>6. \A o \in Pools : \A n \in 1 .. Len(chan'[o]) : PoolOf(chan'[o][n]) = o
  BY <1>2, <1>5 DEF ChanInv
<1>7. ASSUME NEW o \in Pools, NEW m \in 1 .. Len(chan'[o]), NEW n \in 1 .. Len(chan'[o]),
             chan'[o][m] = chan'[o][n]
      PROVE  m = n
  <2>1. \A j \in 1 .. Len(chan[o]) : chan[o][j] # w
    BY <1>2 DEF ChanInv
  <2>2. CASE m \in 1 .. Len(chan[o]) /\ chan'[o][m] = chan[o][m]
    BY <1>5, <1>7, <2>1, <2>2 DEF ChanInv
  <2>3. CASE o = p /\ m = Len(chan[p]) + 1 /\ chan'[o][m] = w
    BY <1>5, <1>7, <2>1, <2>3
  <2> QED
    BY <1>5, <2>2, <2>3
<1>8. ASSUME NEW s \in Requests, held'[s] # Nobody
      PROVE  PoolOf(held'[s]) = asked'[s].pool
  BY <1>0, <1>1, <1>8 DEF ChanInv
<1>9. ASSUME NEW s \in Requests, NEW o \in Pools, NEW n \in 1 .. Len(chan'[o])
      PROVE  held'[s] # chan'[o][n]
  <2>1. chan'[o][n] \in Workers
    <3>1. chan[o] \in Seq(Workers)
      BY <1>0
    <3> QED
      BY <1>0, <1>5, <3>1, ElementOfSeq
  <2>2. CASE s = r
    BY <1>0, <1>1, <2>1, <2>2
  <2>3. CASE s # r
    BY <1>0, <1>1, <1>2, <1>5, <2>1, <2>3 DEF ChanInv
  <2> QED
    BY <2>2, <2>3
<1>10. ASSUME NEW s \in Requests, NEW t \in Requests, held'[s] # Nobody, held'[s] = held'[t]
       PROVE  s = t
  BY <1>0, <1>1, <1>10 DEF ChanInv
<1>11. ASSUME NEW v \in Workers
       PROVE  \/ \E n \in 1 .. Len(chan'[PoolOf(v)]) : chan'[PoolOf(v)][n] = v
              \/ \E s \in Requests : held'[s] = v
  <2>0. PoolOf(v) \in Pools
    BY WorkerPool
  <2>1. CASE v = w
    <3>1. Len(chan[p]) + 1 \in 1 .. Len(chan'[p]) /\ chan'[p][Len(chan[p]) + 1] = w
      BY <1>0, <1>1, <1>3
    <3> QED
      BY <1>2, <2>1, <3>1
  <2>2. CASE v # w /\ \E s \in Requests : held[s] = v
    BY <1>0, <1>1, <2>2
  <2>3. CASE \E n \in 1 .. Len(chan[PoolOf(v)]) : chan[PoolOf(v)][n] = v
    <3>1. PICK n \in 1 .. Len(chan[PoolOf(v)]) : chan[PoolOf(v)][n] = v
      BY <2>3
    <3>2. n \in 1 .. Len(chan'[PoolOf(v)]) /\ chan'[PoolOf(v)][n] = v
      BY <1>0, <1>1, <1>3, <2>0, <3>1
    <3> QED
      BY <3>2
  <2> QED
    BY <2>1, <2>2, <2>3 DEF ChanInv
<1> QED
  BY <1>6, <1>7, <1>8, <1>9, <1>10, <1>11 DEF ChanInv

LEMMA ChanLookup ==
  ASSUME TypeOK, PoolInv, ChanInv, NEW r \in Requests, LookupStep(r) \/ Lookup(r)
  PROVE  ChanInv'
<1>0. asked \in [Requests -> [pool : Pools, query : Queries] \cup {Nobody}]
  BY DEF TypeOK, CallTypeOK
<1>1. CASE Enter(r)
  BY <1>0, <1>1, ChanSame DEF Enter, Leave, PoolInv, poolVars
<1>2. CASE GiveUpWaiting(r)
  BY <1>0, <1>2, ChanSame DEF GiveUpWaiting, Leave, PoolInv, poolVars
<1>3. CASE TakeReply(r) \/ Abandon(r)
  BY <1>3, ChanSame DEF TakeReply, Abandon, poolVars
<1>4. CASE Lookup(r)
  BY <1>0, <1>4, ChanSame DEF Lookup, Bind, Leave, PoolInv, poolVars
<1> QED
  BY <1>1, <1>2, <1>3, <1>4, ChanTake, ChanGive DEF LookupStep

LEMMA ChanAccounts ==
  ASSUME TypeOK, ChanInv
  PROVE  WorkersAccounted
<1> SUFFICES ASSUME NEW w \in Workers
             PROVE  Occurrences(chan[PoolOf(w)], w) + Cardinality({r \in Requests : held[r] = w}) = 1
  BY DEF WorkersAccounted
<1> DEFINE p == PoolOf(w)
           at == {n \in 1 .. Len(chan[p]) : chan[p][n] = w}
           by == {r \in Requests : held[r] = w}
<1>0. p \in Pools /\ w # Nobody
  BY WorkerPool, RuntimeAssumption
<1>1. (\E n : at = {n} /\ by = {}) \/ (\E r : at = {} /\ by = {r})
  <2>1. ASSUME NEW n \in 1 .. Len(chan[p]), chan[p][n] = w
        PROVE  at = {n} /\ by = {}
    BY <1>0, <2>1 DEF ChanInv
  <2>2. ASSUME NEW r \in Requests, held[r] = w
        PROVE  at = {} /\ by = {r}
    BY <1>0, <2>2 DEF ChanInv
  <2> QED
    BY <2>1, <2>2 DEF ChanInv
<1> HIDE DEF at, by
<1>2. Cardinality(at) + Cardinality(by) = 1
  <2>1. CASE \E n : at = {n} /\ by = {}
    <3>1. PICK n : at = {n} /\ by = {}
      BY <2>1
    <3>2. Cardinality({n}) = 1 /\ Cardinality({}) = 0
      BY FS_Singleton, FS_EmptySet
    <3> QED
      BY <3>1, <3>2
  <2>2. CASE \E r : at = {} /\ by = {r}
    <3>1. PICK r : at = {} /\ by = {r}
      BY <2>2
    <3>2. Cardinality({r}) = 1 /\ Cardinality({}) = 0
      BY FS_Singleton, FS_EmptySet
    <3> QED
      BY <3>1, <3>2
  <2> QED
    BY <1>1, <2>1, <2>2
<1> QED
  BY <1>2 DEF Occurrences, at, by

-----------------------------------------------------------------------------
(* Who has a worker's mutex, and what is in its pipes.                     *)
-----------------------------------------------------------------------------
HasMutex == {"write", "begin", "body"}

(* The goroutine that has a worker's mutex is the one that exchanges lines *)
(* with it, and it was started by a lookup of its request.                 *)
MutexInv ==
  /\ \A g \in Jobs : job[g].st \in HasMutex => mu[job[g].w] = g
  /\ \A w \in Workers : mu[w] # Nobody => job[mu[w]].st \in HasMutex /\ job[mu[w]].w = w
  /\ \A g \in Jobs : job[g].st # "none" => g[2] <= nth[g[1]]

(* After k lines of the answer to q, the rest of them is unread, or a part *)
(* of the rest if the process has died.                                    *)
Unread(w, q, k) ==
  /\ k + Len(stdout[w]) <= Len(Hits(q)) + 2
  /\ alive[w] => k + Len(stdout[w]) = Len(Hits(q)) + 2
  /\ \A n \in 1 .. Len(stdout[w]) : stdout[w][n] = response_lines(q)[k + n]

Quiet(w) == stdin[w] = <<>> /\ stdout[w] = <<>>

(* What a goroutine finds in the pipes of its worker, and what it has of   *)
(* the answer.                                                             *)
Reading(x) ==
  /\ x.st = "write" => (alive[x.w] => Quiet(x.w))
  /\ x.st = "begin" => \/ stdin[x.w] = <<x.q>> /\ stdout[x.w] = <<>> /\ alive[x.w]
                       \/ stdin[x.w] = <<>> /\ stdout[x.w] = <<Line("X", x.q, 0)>>
                       \/ stdin[x.w] = <<>> /\ Unread(x.w, x.q, 0)
  /\ x.st = "body" => /\ stdin[x.w] = <<>>
                      /\ Len(x.got) + x.need = Len(Hits(x.q))
                      /\ \A n \in 1 .. Len(x.got) : x.got[n] = <<Hits(x.q)[n], PoolOf(x.w)>>
                      /\ Unread(x.w, x.q, Len(x.got) + 1)

PipeInv == InStep /\ \A g \in Jobs : Reading(job[g])

(* The lines of an answer.                                                 *)
LEMMA ResponseLines ==
  ASSUME NEW q \in Queries
  PROVE  /\ Len(Hits(q)) \in Nat /\ Len(Hits(q)) <= Limit
         /\ Len(response_lines(q)) = Len(Hits(q)) + 2
         /\ response_lines(q)[1] = Line("B", q, Len(Hits(q)))
         /\ \A n \in 1 .. Len(Hits(q)) : response_lines(q)[n + 1] = Line("C", q, Hits(q)[n])
         /\ response_lines(q)[Len(Hits(q)) + 2] = Line("E", q, 0)
<1> DEFINE hits == Hits(q)
           first == Line("B", q, Len(hits))
           mid == [j \in 1 .. Len(hits) |-> Line("C", q, hits[j])]
           end == Line("E", q, 0)
<1>1. hits \in Seq(Records) /\ Len(hits) \in Nat /\ Len(hits) <= Limit
  BY RuntimeAssumption DEF Hits
<1>2. first \in Lines /\ end \in Lines
  BY <1>1 DEF Line, Lines
<1>3. mid \in Seq(Lines) /\ Len(mid) = Len(hits) /\ \A n \in 1 .. Len(hits) : mid[n] = Line("C", q, hits[n])
  BY <1>1 DEF Line, Lines
<1>4. response_lines(q) = <<first>> \o mid \o <<end>>
  BY DEF response_lines
<1> HIDE DEF hits, first, mid, end
<1>5. /\ <<first>> \o mid \in Seq(Lines) /\ Len(<<first>> \o mid) = Len(hits) + 1
      /\ (<<first>> \o mid)[1] = first
      /\ \A n \in 1 .. Len(hits) : (<<first>> \o mid)[n + 1] = mid[n]
  BY <1>1, <1>2, <1>3
<1>6. /\ Len(response_lines(q)) = Len(hits) + 2
      /\ response_lines(q)[Len(hits) + 2] = end
      /\ \A n \in 1 .. Len(hits) + 1 : response_lines(q)[n] = (<<first>> \o mid)[n]
  BY <1>1, <1>2, <1>4, <1>5
<1>7. response_lines(q)[1] = first
  BY <1>1, <1>5, <1>6
<1>8. \A n \in 1 .. Len(hits) : response_lines(q)[n + 1] = Line("C", q, hits[n])
  BY <1>1, <1>3, <1>5, <1>6
<1> QED
  BY <1>1, <1>6, <1>7, <1>8 DEF hits, first, end

LEMMA MutexFinish ==
  ASSUME TypeOK, MutexInv, NEW g \in Jobs, NEW result, Finish(g, result), nth' = nth,
         job[g].st # "none", job[g].st \in HasMutex \/ mu[job[g].w] = Nobody
  PROVE  MutexInv'
<1> DEFINE w == job[g].w
<1>0. /\ job \in [Jobs -> JobStates] /\ mu \in [Workers -> Jobs \cup {Nobody}] /\ w \in Workers
      /\ Nobody \notin Jobs
  BY JobFields, RuntimeAssumption DEF TypeOK, WorkerTypeOK
<1>1. job' = [job EXCEPT ![g] = NoJob] /\ mu' = [mu EXCEPT ![w] = Nobody]
  BY DEF Finish
<1>2. mu[w] \in {g, Nobody}
  BY DEF MutexInv
<1>3. ASSUME NEW j \in Jobs, job'[j].st \in HasMutex
      PROVE  mu'[job'[j].w] = j
  <2>1. j # g
    BY <1>0, <1>1, <1>3 DEF NoJob, HasMutex
  <2>2. job'[j] = job[j] /\ mu[job[j].w] = j
    BY <1>0, <1>1, <1>3, <2>1 DEF MutexInv
  <2>3. job[j].w \in Workers
    BY <1>3, <2>2, JobFields DEF TypeOK, HasMutex
  <2>4. job[j].w # w
    BY <1>0, <1>2, <2>1, <2>2
  <2> QED
    BY <1>0, <1>1, <2>2, <2>3, <2>4
<1>4. ASSUME NEW v \in Workers, mu'[v] # Nobody
      PROVE  job'[mu'[v]].st \in HasMutex /\ job'[mu'[v]].w = v
  <2>1. v # w /\ mu'[v] = mu[v] /\ mu[v] \in Jobs
    BY <1>0, <1>1, <1>4
  <2>2. job[mu[v]].st \in HasMutex /\ job[mu[v]].w = v
    BY <1>4, <2>1 DEF MutexInv
  <2>3. mu[v] # g
    BY <2>1, <2>2
  <2> QED
    BY <1>0, <1>1, <2>1, <2>2, <2>3
<1>5. \A j \in Jobs : job'[j].st # "none" => j[2] <= nth'[j[1]]
  BY <1>0, <1>1 DEF MutexInv, NoJob
<1> QED
  BY <1>3, <1>4, <1>5 DEF MutexInv

(* A goroutine takes the mutex, or goes on with it.                        *)
LEMMA MutexGoesOn ==
  ASSUME TypeOK, MutexInv, NEW g \in Jobs, nth' = nth,
         job[g].st # "none", job[g].st \in HasMutex \/ mu[job[g].w] = Nobody,
         \A j \in Jobs \ {g} : job'[j] = job[j],
         job'[g].st \in HasMutex, job'[g].w = job[g].w,
         mu' = [mu EXCEPT ![job[g].w] = g]
  PROVE  MutexInv'
<1> DEFINE w == job[g].w
<1>0. /\ mu \in [Workers -> Jobs \cup {Nobody}] /\ w \in Workers /\ Nobody \notin Jobs
  BY JobFields, RuntimeAssumption DEF TypeOK, WorkerTypeOK
<1>1. mu[w] \in {g, Nobody}
  BY DEF MutexInv
<1>2. ASSUME NEW j \in Jobs, job'[j].st \in HasMutex
      PROVE  mu'[job'[j].w] = j
  <2>1. CASE j = g
    BY <1>0, <2>1
  <2>2. CASE j # g
    <3>1. job'[j] = job[j] /\ mu[job[j].w] = j
      BY <1>2, <2>2 DEF MutexInv
    <3>2. job[j].w \in Workers
      BY <1>2, <3>1, JobFields DEF TypeOK, HasMutex
    <3> QED
      BY <1>0, <1>1, <2>2, <3>1, <3>2
  <2> QED
    BY <2>1, <2>2
<1>3. ASSUME NEW v \in Workers, mu'[v] # Nobody
      PROVE  job'[mu'[v]].st \in HasMutex /\ job'[mu'[v]].w = v
  <2>1. CASE v = w
    BY <1>0, <2>1
  <2>2. CASE v # w
    <3>1. mu'[v] = mu[v] /\ mu[v] \in Jobs
      BY <1>0, <1>3, <2>2
    <3>2. job[mu[v]].st \in HasMutex /\ job[mu[v]].w = v
      BY <1>3, <3>1 DEF MutexInv
    <3>3. mu[v] # g
      BY <2>2, <3>2
    <3> QED
      BY <3>1, <3>2, <3>3
  <2> QED
    BY <2>1, <2>2
<1>4. \A j \in Jobs : job'[j].st # "none" => j[2] <= nth'[j[1]]
  BY DEF MutexInv
<1> QED
  BY <1>2, <1>3, <1>4 DEF MutexInv

(* A step that touches one worker, and goroutines that exchange lines with *)
(* no other.                                                               *)
LEMMA PipeFrame ==
  ASSUME TypeOK, PipeInv, NEW w \in Workers,
         \A v \in Workers \ {w} : /\ mu'[v] = Nobody => mu[v] = Nobody
                                  /\ stdin'[v] = stdin[v] /\ stdout'[v] = stdout[v] /\ alive'[v] = alive[v],
         \A g \in Jobs : \/ job'[g] = job[g] /\ (job[g].st \in HasMutex => job[g].w # w)
                         \/ Reading(job[g])',
         mu'[w] = Nobody /\ alive'[w] => Quiet(w)'
  PROVE  PipeInv'
<1>1. InStep'
  BY DEF PipeInv, InStep, Quiet
<1>2. ASSUME NEW g \in Jobs
      PROVE  Reading(job[g])'
  <2> SUFFICES ASSUME job'[g] = job[g], job[g].st \in HasMutex => job[g].w # w
               PROVE  Reading(job[g])'
    OBVIOUS
  <2>1. CASE job[g].st \notin HasMutex
    BY <2>1 DEF Reading, HasMutex
  <2>2. CASE job[g].st \in HasMutex
    <3>1. job[g].w \in Workers \ {w}
      BY <2>2, JobFields DEF TypeOK, HasMutex
    <3> DEFINE v == job[g].w
    <3>2. stdin'[v] = stdin[v] /\ stdout'[v] = stdout[v] /\ alive'[v] = alive[v]
      BY <3>1
    <3>3. Reading(job[g])
      BY DEF PipeInv
    <3>4. \A q, k : Unread(v, q, k) => Unread(v, q, k)'
      BY <3>2 DEF Unread
    <3>5. Quiet(v) => Quiet(v)'
      BY <3>2 DEF Quiet
    <3>6. job'[g].st = job[g].st /\ job'[g].w = v /\ job'[g].q = job[g].q
          /\ job'[g].got = job[g].got /\ job'[g].need = job[g].need
      OBVIOUS
    <3> HIDE DEF v
    <3> QED
      BY <3>2, <3>3, <3>4, <3>5, <3>6 DEF Reading, v
  <2> QED
    BY <2>1, <2>2
<1> QED
  BY <1>1, <1>2 DEF PipeInv

LEMMA PipeSame ==
  ASSUME MutexInv, PipeInv, UNCHANGED <<nth, job, mu, pipeVars>>
  PROVE  MutexInv' /\ PipeInv'
  BY DEF MutexInv, PipeInv, InStep, Reading, Unread, Quiet, pipeVars

LEMMA OneAtATime ==
  ASSUME TypeOK, MutexInv, NEW g \in Jobs, job[g].st \in HasMutex \/ mu[job[g].w] = Nobody,
         NEW j \in Jobs, j # g, job[j].st \in HasMutex
  PROVE  job[j].w # job[g].w
<1>1. g # Nobody /\ j # Nobody
  BY RuntimeAssumption
<1> QED
  BY <1>1 DEF MutexInv

LEMMA NoJobReads == ASSUME NEW g, job[g] = NoJob PROVE Reading(job[g])
  BY DEF Reading, NoJob

(* A goroutine that ends leaves a worker in step.                          *)
LEMMA PipeFinish ==
  ASSUME TypeOK, MutexInv, PipeInv, NEW g \in Jobs, NEW result, Finish(g, result),
         job[g].st # "none", job[g].st \in HasMutex \/ mu[job[g].w] = Nobody,
         NEW w \in Workers, job[g].w = w, nth' = nth, alive' = alive,
         \A v \in Workers \ {w} : stdin'[v] = stdin[v] /\ stdout'[v] = stdout[v],
         alive[w] => Quiet(w)'
  PROVE  MutexInv' /\ PipeInv'
<1>0. job \in [Jobs -> JobStates] /\ mu \in [Workers -> Jobs \cup {Nobody}]
  BY DEF TypeOK, WorkerTypeOK
<1>1. job' = [job EXCEPT ![g] = NoJob] /\ mu' = [mu EXCEPT ![w] = Nobody]
  BY DEF Finish
<1>2. ASSUME NEW j \in Jobs
      PROVE  \/ job'[j] = job[j] /\ (job[j].st \in HasMutex => job[j].w # w)
             \/ Reading(job[j])'
  <2>1. CASE j = g
    <3>1. job'[g] = NoJob
      BY <1>0, <1>1
    <3>2. Reading(job[g])'
      BY <3>1 DEF Reading, NoJob
    <3> QED
      BY <2>1, <3>2
  <2>2. CASE j # g
    BY <1>0, <1>1, <2>2, OneAtATime
  <2> QED
    BY <2>1, <2>2
<1>3. \A v \in Workers \ {w} : mu'[v] = mu[v]
  BY <1>0, <1>1
<1>4. PipeInv'
  BY <1>0, <1>2, <1>3, PipeFrame
<1> QED
  BY <1>4, MutexFinish

(* A goroutine that goes on has read what it was to read.                  *)
LEMMA PipeGoesOn ==
  ASSUME TypeOK, MutexInv, PipeInv, NEW g \in Jobs,
         job[g].st # "none", job[g].st \in HasMutex \/ mu[job[g].w] = Nobody,
         \A j \in Jobs \ {g} : job'[j] = job[j],
         job'[g].st \in HasMutex, job'[g].w = job[g].w,
         mu' = [mu EXCEPT ![job[g].w] = g],
         nth' = nth, alive' = alive,
         \A v \in Workers \ {job[g].w} : stdin'[v] = stdin[v] /\ stdout'[v] = stdout[v],
         Reading(job[g])'
  PROVE  MutexInv' /\ PipeInv'
<1> DEFINE w == job[g].w
<1>0. mu \in [Workers -> Jobs \cup {Nobody}] /\ w \in Workers /\ g # Nobody
  BY JobFields, RuntimeAssumption DEF TypeOK, WorkerTypeOK
<1>1. ASSUME NEW j \in Jobs
      PROVE  \/ job'[j] = job[j] /\ (job[j].st \in HasMutex => job[j].w # w)
             \/ Reading(job[j])'
  BY OneAtATime
<1>2. \A v \in Workers \ {w} : mu'[v] = mu[v]
  BY <1>0
<1>3. mu'[w] # Nobody
  BY <1>0
<1>4. PipeInv'
  BY <1>0, <1>1, <1>2, <1>3, PipeFrame
<1>5. MutexInv'
  BY MutexGoesOn
<1> QED
  BY <1>4, <1>5

LEMMA PipeTake ==
  ASSUME TypeOK, MutexInv, PipeInv, NEW r \in Requests, TakeWorker(r)
  PROVE  MutexInv' /\ PipeInv'
<1> DEFINE n == nth[r] + 1
           g == <<r, n>>
           x == [st |-> "lock", w |-> Head(chan[asked[r].pool]), q |-> asked[r].query]
<1>0. /\ job \in [Jobs -> JobStates] /\ mu \in [Workers -> Jobs \cup {Nobody}] /\ nth[r] \in Nat
      /\ nth \in [Requests -> 0 .. MaxLookups] /\ MaxLookups \in Nat
  BY RuntimeAssumption DEF TypeOK, WorkerTypeOK, CallTypeOK
<1>1. /\ job' = [job EXCEPT ![g] = x] /\ nth' = [nth EXCEPT ![r] = n]
      /\ UNCHANGED <<mu, stdin, stdout, alive>>
  BY DEF TakeWorker, workerVars, pipeVars
<1>2. g \in Jobs /\ g[1] = r /\ g[2] = n
  BY <1>0 DEF TakeWorker, Jobs
<1>3. job[g].st = "none"
  <2>1. job[g].st # "none" => n <= nth[r]
    BY <1>2 DEF MutexInv
  <2> QED
    BY <1>0, <2>1
<1>4. job'[g].st = "lock" /\ \A j \in Jobs \ {g} : job'[j] = job[j]
  BY <1>0, <1>1, <1>2
<1> HIDE DEF g, x, n
<1>5. MutexInv'
  <2>1. \A j \in Jobs : job'[j].st \in HasMutex => mu'[job'[j].w] = j
    BY <1>1, <1>4 DEF MutexInv, HasMutex
  <2>2. ASSUME NEW v \in Workers, mu'[v] # Nobody
        PROVE  job'[mu'[v]].st \in HasMutex /\ job'[mu'[v]].w = v
    <3>1. mu'[v] = mu[v] /\ mu[v] \in Jobs /\ job[mu[v]].st \in HasMutex /\ job[mu[v]].w = v
      BY <1>0, <1>1, <2>2 DEF MutexInv
    <3>2. mu[v] # g
      BY <1>3, <3>1 DEF HasMutex
    <3> QED
      BY <1>4, <3>1, <3>2
  <2>3. ASSUME NEW j \in Jobs, job'[j].st # "none"
        PROVE  j[2] <= nth'[j[1]]
    <3>1. CASE j = g
      <4>1. n \in Nat
        BY <1>0 DEF n
      <4> QED
        BY <1>0, <1>1, <1>2, <3>1, <4>1
    <3>2. CASE j # g
      <4>1. j[2] <= nth[j[1]] /\ j[1] \in Requests /\ j[2] \in Int
        BY <1>4, <2>3, <3>2 DEF MutexInv, Jobs
      <4>2. nth'[j[1]] \in Int /\ nth[j[1]] \in Int /\ nth[j[1]] <= nth'[j[1]]
        BY <1>0, <1>1, <4>1 DEF n
      <4> QED
        BY <4>1, <4>2
    <3> QED
      BY <3>1, <3>2
  <2> QED
    BY <2>1, <2>2, <2>3 DEF MutexInv
<1>6. ASSUME NEW j \in Jobs
      PROVE  Reading(job[j])'
  <2>1. CASE j = g
    BY <1>4, <2>1 DEF Reading
  <2>2. CASE j # g
    <3>1. job'[j] = job[j] /\ Reading(job[j])
      BY <1>4, <2>2 DEF PipeInv
    <3> QED
      BY <1>1, <3>1 DEF Reading, Unread, Quiet
  <2> QED
    BY <2>1, <2>2
<1> QED
  BY <1>1, <1>5, <1>6 DEF PipeInv, InStep

(* A goroutine takes the mutex of a worker that is in step, and asks.      *)
LEMMA PipeAsk ==
  ASSUME TypeOK, MutexInv, PipeInv, NEW g \in Jobs, LockWorker(g) \/ WriteQuery(g)
  PROVE  MutexInv' /\ PipeInv'
<1> PICK w \in Workers : w = job[g].w
  BY JobFields DEF LockWorker, WriteQuery, TypeOK
<1>0. /\ job \in [Jobs -> JobStates] /\ mu \in [Workers -> Jobs \cup {Nobody}]
      /\ stdin \in [Workers -> Seq(Queries)]
      /\ job[g].st # "none" /\ Nobody \notin Jobs
  BY JobFields, RuntimeAssumption DEF LockWorker, WriteQuery, TypeOK, WorkerTypeOK
<1>1. CASE LockWorker(g)
  <2>0. mu[w] = Nobody /\ UNCHANGED <<nth, stdin, stdout, alive>>
    BY <1>1 DEF LockWorker, pipeVars
  <2>1. alive[w] => Quiet(w)
    BY <1>0, <2>0 DEF PipeInv, InStep, Quiet
  <2>2. alive'[w] => Quiet(w)'
    BY <2>0, <2>1 DEF Quiet
  <2>3. CASE shut[w]
    <3>1. Finish(g, Failed)
      BY <1>1, <2>3 DEF LockWorker
    <3> QED
      BY <1>0, <2>0, <2>2, <3>1, PipeFinish
  <2>4. CASE ~ shut[w]
    <3>1. mu' = [mu EXCEPT ![w] = g] /\ job' = [job EXCEPT ![g].st = "write"]
      BY <1>1, <2>4 DEF LockWorker
    <3>2. job'[g].st = "write" /\ job'[g].w = w /\ \A j \in Jobs \ {g} : job'[j] = job[j]
      <4>1. job'[g] = [job[g] EXCEPT !.st = "write"]
        BY <1>0, <3>1
      <4>2. job[g] \in [st : {"lock", "write", "begin"}, w : Workers, q : Queries]
        BY <1>0, <1>1, JobFields DEF LockWorker, TypeOK
      <4> QED
        BY <1>0, <3>1, <4>1, <4>2
    <3>3. Reading(job[g])'
      BY <2>2, <3>2 DEF Reading
    <3>4. job'[g].st \in HasMutex
      BY <3>2 DEF HasMutex
    <3> QED
      BY <1>0, <2>0, <3>1, <3>2, <3>3, <3>4, PipeGoesOn
  <2> QED
    BY <2>3, <2>4
<1>2. CASE WriteQuery(g)
  <2>0. /\ job[g].st = "write" /\ job[g].st \in HasMutex /\ UNCHANGED <<nth, stdout, alive>>
        /\ mu[w] = g
    BY <1>2 DEF WriteQuery, HasMutex, MutexInv
  <2>1. CASE ~ alive[w]
    <3>1. Finish(g, Failed) /\ stdin' = stdin
      BY <1>2, <2>1 DEF WriteQuery
    <3> QED
      BY <1>0, <2>0, <2>1, <3>1, PipeFinish
  <2>2. CASE alive[w]
    <3>1. /\ stdin' = [stdin EXCEPT ![w] = Append(stdin[w], job[g].q)]
          /\ job' = [job EXCEPT ![g].st = "begin"] /\ mu' = mu
      BY <1>2, <2>2 DEF WriteQuery
    <3>2. /\ job'[g].st = "begin" /\ job'[g].w = w /\ job'[g].q = job[g].q
          /\ \A j \in Jobs \ {g} : job'[j] = job[j]
      <4>1. job'[g] = [job[g] EXCEPT !.st = "begin"]
        BY <1>0, <3>1
      <4>2. job[g] \in [st : {"lock", "write", "begin"}, w : Workers, q : Queries]
        BY <1>0, <2>0, JobFields DEF TypeOK
      <4> QED
        BY <1>0, <3>1, <4>1, <4>2
    <3>3. stdin[w] = <<>> /\ stdout[w] = <<>>
      BY <2>0, <2>2 DEF PipeInv, Reading, Quiet
    <3>4. stdin'[w] = <<job[g].q>> /\ stdout'[w] = <<>> /\ alive'[w]
      BY <1>0, <2>0, <2>2, <3>1, <3>3
    <3>5. Reading(job[g])'
      BY <3>2, <3>4 DEF Reading
    <3>6. job'[g].st \in HasMutex
      BY <3>2 DEF HasMutex
    <3>7. mu' = [mu EXCEPT ![w] = g]
      BY <1>0, <2>0, <3>1
    <3>8. \A v \in Workers \ {w} : stdin'[v] = stdin[v] /\ stdout'[v] = stdout[v]
      BY <1>0, <2>0, <3>1
    <3> QED
      BY <1>0, <2>0, <3>2, <3>5, <3>6, <3>7, <3>8, PipeGoesOn
  <2> QED
    BY <2>1, <2>2
<1> QED
  BY <1>1, <1>2

(* Reading a line of an answer leaves the rest of it.                      *)
LEMMA ReadLine ==
  ASSUME NEW q \in Queries, NEW w \in Workers, NEW k \in Nat, stdout[w] \in Seq(Lines), alive[w] \in BOOLEAN,
         stdout[w] # <<>>, Unread(w, q, k), stdout'[w] = Tail(stdout[w]), alive' = alive
  PROVE  /\ k + 1 <= Len(Hits(q)) + 2
         /\ Head(stdout[w]) = response_lines(q)[k + 1]
         /\ Unread(w, q, k + 1)'
         /\ alive[w] /\ k = Len(Hits(q)) + 1 => stdout'[w] = <<>>
<1> DEFINE s == stdout[w]
           t == Tail(stdout[w])
<1>1. /\ Len(s) \in Nat \ {0} /\ Head(s) = s[1] /\ t \in Seq(Lines) /\ Len(t) = Len(s) - 1
      /\ \A n \in 1 .. Len(t) : t[n] = s[n + 1] /\ n + 1 \in 1 .. Len(s)
  OBVIOUS
<1>2. Len(Hits(q)) \in Nat
  BY HitsType
<1>3. /\ k + Len(s) <= Len(Hits(q)) + 2
      /\ alive[w] => k + Len(s) = Len(Hits(q)) + 2
      /\ \A n \in 1 .. Len(s) : s[n] = response_lines(q)[k + n]
  BY DEF Unread
<1>4. stdout'[w] = t
  OBVIOUS
<1> HIDE DEF s, t
<1>5. k + 1 <= Len(Hits(q)) + 2
  BY <1>1, <1>2, <1>3
<1>6. Head(s) = response_lines(q)[k + 1]
  <2>1. 1 \in 1 .. Len(s)
    BY <1>1
  <2> QED
    BY <1>1, <1>3, <2>1
<1>7. Unread(w, q, k + 1)'
  <2>1. (k + 1) + Len(t) <= Len(Hits(q)) + 2
    BY <1>1, <1>2, <1>3
  <2>2. alive[w] => (k + 1) + Len(t) = Len(Hits(q)) + 2
    BY <1>1, <1>2, <1>3
  <2>3. ASSUME NEW n \in 1 .. Len(t)
        PROVE  t[n] = response_lines(q)[(k + 1) + n]
    <3>1. t[n] = s[n + 1] /\ s[n + 1] = response_lines(q)[k + (n + 1)]
      BY <1>1, <1>3
    <3>2. k + (n + 1) = (k + 1) + n
      BY <1>1
    <3> QED
      BY <3>1, <3>2
  <2>4. stdout'[w] = t /\ alive'[w] = alive[w]
    BY <1>4
  <2> QED
    BY <2>1, <2>2, <2>3, <2>4 DEF Unread
<1>8. ASSUME alive[w], k = Len(Hits(q)) + 1
      PROVE  t = <<>>
  <2>1. Len(t) = 0
    BY <1>1, <1>2, <1>3, <1>8
  <2> QED
    BY <1>1, <2>1
<1> QED
  BY <1>4, <1>5, <1>6, <1>7, <1>8 DEF s

(* The first line of an answer.                                            *)
LEMMA PipeBegin ==
  ASSUME TypeOK, MutexInv, PipeInv, NEW g \in Jobs, ScanBegin(g)
  PROVE  MutexInv' /\ PipeInv'
<1> PICK w \in Workers : w = job[g].w
  BY JobFields DEF ScanBegin, TypeOK
<1> PICK q \in Queries : q = job[g].q
  BY JobFields DEF ScanBegin, TypeOK
<1> DEFINE line == Head(stdout[w])
<1>0. /\ job \in [Jobs -> JobStates] /\ mu \in [Workers -> Jobs \cup {Nobody}]
      /\ stdout \in [Workers -> Seq(Lines)] /\ stdout[w] \in Seq(Lines) /\ alive[w] \in BOOLEAN
      /\ job[g].st = "begin" /\ job[g].st \in HasMutex /\ mu[w] = g
      /\ UNCHANGED <<nth, stdin, alive>> /\ stdout' = [stdout EXCEPT ![w] = Tail(stdout[w])]
      /\ stdout[w] # <<>> /\ stdout'[w] = Tail(stdout[w])
      /\ \A v \in Workers \ {w} : stdin'[v] = stdin[v] /\ stdout'[v] = stdout[v]
  BY DEF ScanBegin, TypeOK, WorkerTypeOK, HasMutex, MutexInv
<1>1. \/ stdin[w] = <<>> /\ stdout[w] = <<Line("X", q, 0)>>
      \/ stdin[w] = <<>> /\ Unread(w, q, 0)
  BY <1>0 DEF PipeInv, Reading
<1>2. CASE stdin[w] = <<>> /\ stdout[w] = <<Line("X", q, 0)>>
  <2>1. line.tag = "X" /\ Tail(stdout[w]) = <<>>
    BY <1>2 DEF Line
  <2>2. Finish(g, Failed)
    BY <1>0, <2>1 DEF ScanBegin
  <2>3. Quiet(w)'
    BY <1>0, <1>2, <2>1 DEF Quiet
  <2> QED
    BY <1>0, <2>2, <2>3, PipeFinish
<1>3. CASE stdin[w] = <<>> /\ Unread(w, q, 0)
  <2>1. line = response_lines(q)[1] /\ Unread(w, q, 1)'
    <3>1. Head(stdout[w]) = response_lines(q)[0 + 1] /\ Unread(w, q, 0 + 1)'
      BY <1>0, <1>3, ReadLine
    <3> QED
      BY <3>1
  <2>2. line.tag = "B" /\ line.q = q /\ line.n = Len(Hits(q)) /\ line.n <= Limit
    <3>1. line = Line("B", q, Len(Hits(q))) /\ Len(Hits(q)) <= Limit
      BY <2>1, ResponseLines
    <3> HIDE DEF line
    <3> QED
      BY <3>1 DEF Line
  <2>3. /\ job' = [job EXCEPT ![g] = [st |-> "body", w |-> w, q |-> line.q, need |-> line.n, got |-> <<>>]]
        /\ mu' = mu
    BY <1>0, <2>2 DEF ScanBegin
  <2>4. /\ job'[g] = [st |-> "body", w |-> w, q |-> q, need |-> Len(Hits(q)), got |-> <<>>]
        /\ \A j \in Jobs \ {g} : job'[j] = job[j]
    BY <1>0, <2>2, <2>3
  <2>5. /\ job'[g].st = "body" /\ job'[g].w = w /\ job'[g].q = q /\ job'[g].need = Len(Hits(q))
        /\ job'[g].got = <<>>
    BY <2>4
  <2>6. /\ stdin'[w] = <<>> /\ Len(job'[g].got) = 0 /\ Len(job'[g].got) + Len(Hits(q)) = Len(Hits(q))
        /\ \A n \in 1 .. Len(job'[g].got) : job'[g].got[n] = <<Hits(q)[n], PoolOf(w)>>
    BY <1>0, <1>3, <2>5, HitsType
  <2>7. Unread(w, q, Len(job[g].got) + 1)'
    <3>1. Len(job'[g].got) + 1 = 1
      BY <2>6
    <3> QED
      BY <2>1, <3>1 DEF Unread
  <2>8. Reading(job[g])'
    BY <2>5, <2>6, <2>7 DEF Reading
  <2>9. mu' = [mu EXCEPT ![w] = g] /\ job'[g].st \in HasMutex
    BY <1>0, <2>3, <2>5 DEF HasMutex
  <2> QED
    BY <1>0, <2>4, <2>5, <2>8, <2>9, PipeGoesOn
<1> QED
  BY <1>1, <1>2, <1>3

(* The candidates of an answer and its end.                                *)
LEMMA PipeBody ==
  ASSUME TypeOK, MutexInv, PipeInv, NEW g \in Jobs, ScanBody(g)
  PROVE  MutexInv' /\ PipeInv'
<1> PICK w \in Workers : w = job[g].w
  BY JobFields DEF ScanBody, TypeOK
<1> PICK q \in Queries : q = job[g].q
  BY JobFields DEF ScanBody, TypeOK
<1> PICK got \in Seq(Candidates) : got = job[g].got
  BY JobFields DEF ScanBody, TypeOK
<1> PICK left \in Nat : left = job[g].need
  BY JobFields DEF ScanBody, TypeOK
<1> PICK n \in Nat : n = Len(got) + 1
  OBVIOUS
<1> PICK total \in Nat : total = Len(Hits(q))
  BY HitsType
<1> DEFINE line == Head(stdout[w])
<1>0. /\ job \in [Jobs -> JobStates] /\ mu \in [Workers -> Jobs \cup {Nobody}]
      /\ stdout \in [Workers -> Seq(Lines)]
      /\ job[g].st = "body" /\ job[g].st \in HasMutex /\ mu[w] = g
      /\ UNCHANGED <<nth, stdin, alive>> /\ stdout' = [stdout EXCEPT ![w] = Tail(stdout[w])]
      /\ \A v \in Workers \ {w} : stdin'[v] = stdin[v] /\ stdout'[v] = stdout[v]
  BY DEF ScanBody, TypeOK, WorkerTypeOK, HasMutex, MutexInv
<1>1. /\ n \in 1 .. total + 1 /\ left + n = total + 1 /\ n + (left - 1) = total
      /\ n <= total => line = Line("C", q, Hits(q)[n])
      /\ n = total + 1 => line = Line("E", q, 0) /\ (alive[w] => stdout'[w] = <<>>)
      /\ Unread(w, q, n + 1)'
      /\ stdin[w] = <<>>
      /\ \A m \in 1 .. n - 1 : got[m] = <<Hits(q)[m], PoolOf(w)>>
  <2>0. /\ stdout[w] \in Seq(Lines) /\ alive[w] \in BOOLEAN
        /\ stdout[w] # <<>> /\ stdout'[w] = Tail(stdout[w]) /\ alive' = alive
    BY DEF ScanBody, TypeOK, WorkerTypeOK
  <2>1. /\ stdin[w] = <<>> /\ Len(got) + left = total /\ Unread(w, q, n)
        /\ \A m \in 1 .. Len(got) : got[m] = <<Hits(q)[m], PoolOf(w)>>
    BY <1>0 DEF PipeInv, Reading
  <2>2. /\ n + 1 <= total + 2
        /\ Head(stdout[w]) = response_lines(q)[n + 1]
        /\ Unread(w, q, n + 1)'
        /\ alive[w] /\ n = total + 1 => stdout'[w] = <<>>
    BY <2>0, <2>1, ReadLine
  <2>3. PICK len \in Nat : len = Len(got)
    OBVIOUS
  <2>4. n = len + 1 /\ len + left = total
    BY <2>1, <2>3
  <2>5. n \in 1 .. total + 1
    BY <2>4
  <2>6. left + n = total + 1 /\ n - 1 = len /\ n + (left - 1) = total
    <3>1. left + n = total + 1
      BY <2>4
    <3>2. n - 1 = len
      BY <2>4
    <3>3. n + (left - 1) = total
      BY <2>4
    <3> QED
      BY <3>1, <3>2, <3>3
  <2>7. n <= total => response_lines(q)[n + 1] = Line("C", q, Hits(q)[n])
    BY <2>5, ResponseLines
  <2>8. n = total + 1 => response_lines(q)[n + 1] = Line("E", q, 0)
    <3>1. n = total + 1 => n + 1 = total + 2
      OBVIOUS
    <3> QED
      BY <3>1, ResponseLines
  <2>9. \A m \in 1 .. n - 1 : got[m] = <<Hits(q)[m], PoolOf(w)>>
    BY <2>1, <2>3, <2>6
  <2> QED
    BY <2>1, <2>2, <2>5, <2>6, <2>7, <2>8, <2>9
<1>3. CASE n = total + 1
  <2>1. left = 0 /\ line.tag = "E" /\ line.q = q
    <3>1. left + n = total + 1 /\ line = Line("E", q, 0)
      BY <1>1, <1>3
    <3>2. left = 0
      BY <1>3, <3>1
    <3> HIDE DEF line
    <3>3. line.tag = "E" /\ line.q = q
      BY <3>1 DEF Line
    <3> QED
      BY <3>2, <3>3
  <2>2. Finish(g, Found(got))
    BY <2>1 DEF ScanBody
  <2>3. alive[w] => Quiet(w)'
    BY <1>0, <1>1, <1>3 DEF Quiet
  <2> QED
    BY <1>0, <2>2, <2>3, PipeFinish
<1>4. CASE n <= total
  <2>1. left > 0 /\ line.tag = "C" /\ line.q = q /\ line.n = Hits(q)[n]
    <3>1. left + n = total + 1 /\ line = Line("C", q, Hits(q)[n])
      BY <1>1, <1>4
    <3>2. left > 0
      BY <1>4, <3>1
    <3> HIDE DEF line
    <3>3. line.tag = "C" /\ line.q = q /\ line.n = Hits(q)[n]
      BY <3>1 DEF Line
    <3> QED
      BY <3>2, <3>3
  <2>2. /\ job' = [job EXCEPT ![g].need = @ - 1, ![g].got = Append(@, <<line.n, PoolOf(w)>>)]
        /\ mu' = mu
    BY <2>1 DEF ScanBody
  <2>3. job[g] \in [st : {"body"}, w : Workers, q : Queries, need : Nat, got : Seq(Candidates)]
    BY <1>0, JobFields DEF TypeOK
  <2>4. /\ job'[g].st = "body" /\ job'[g].w = w /\ job'[g].q = q /\ job'[g].need = left - 1
        /\ job'[g].got = Append(got, <<Hits(q)[n], PoolOf(w)>>)
        /\ \A j \in Jobs \ {g} : job'[j] = job[j]
    BY <1>0, <2>1, <2>2, <2>3
  <2>5. /\ Len(job'[g].got) = n /\ n + (left - 1) = total
        /\ \A m \in 1 .. n : job'[g].got[m] = <<Hits(q)[m], PoolOf(w)>>
    <3> DEFINE c == <<Hits(q)[n], PoolOf(w)>>
    <3>1. Len(got) = n - 1 /\ Len(Append(got, c)) = n /\ Append(got, c)[n] = c
      OBVIOUS
    <3>2. \A m \in 1 .. n - 1 : Append(got, c)[m] = got[m]
      BY <3>1
    <3>3. n + (left - 1) = total
      BY <1>1
    <3> HIDE DEF c
    <3>4. \A m \in 1 .. n : Append(got, c)[m] = <<Hits(q)[m], PoolOf(w)>>
      <4> TAKE m \in 1 .. n
      <4>1. CASE m = n
        BY <3>1, <4>1 DEF c
      <4>2. CASE m # n
        <5>1. m \in 1 .. n - 1
          BY <4>2
        <5>2. got[m] = <<Hits(q)[m], PoolOf(w)>>
          BY <1>1, <5>1
        <5> QED
          BY <3>2, <5>1, <5>2
      <4> QED
        BY <4>1, <4>2
    <3> QED
      BY <2>4, <3>1, <3>3, <3>4 DEF c
  <2>6. Unread(w, q, Len(job[g].got) + 1)'
    BY <1>1, <2>5 DEF Unread
  <2>7. stdin'[w] = <<>>
    BY <1>0, <1>1
  <2>8. Reading(job[g])'
    BY <2>4, <2>5, <2>6, <2>7 DEF Reading
  <2>9. mu' = [mu EXCEPT ![w] = g] /\ job'[g].st \in HasMutex
    BY <1>0, <2>2, <2>4 DEF HasMutex
  <2> QED
    BY <1>0, <2>4, <2>8, <2>9, PipeGoesOn
<1> QED
  BY <1>1, <1>3, <1>4

LEMMA PipeEOF ==
  ASSUME TypeOK, MutexInv, PipeInv, NEW g \in Jobs, ScanEOF(g)
  PROVE  MutexInv' /\ PipeInv'
<1> PICK w \in Workers : w = job[g].w
  BY JobFields DEF ScanEOF, TypeOK
<1>1. /\ job[g].st \in HasMutex /\ job[g].st # "none" /\ ~ alive[w] /\ Finish(g, Failed)
      /\ UNCHANGED <<nth, stdin, stdout, alive>>
  BY DEF ScanEOF, HasMutex, pipeVars
<1> QED
  BY <1>1, PipeFinish

(* A step of a worker process, seen by the goroutine that has its mutex.   *)
LEMMA PipeProcess ==
  ASSUME TypeOK, MutexInv, PipeInv, NEW w \in Workers,
         UNCHANGED <<nth, job, mu>>,
         \A v \in Workers \ {w} : stdin'[v] = stdin[v] /\ stdout'[v] = stdout[v] /\ alive'[v] = alive[v],
         mu[w] = Nobody => (alive'[w] => Quiet(w)'),
         \A g \in Jobs : job[g].st \in HasMutex /\ job[g].w = w => Reading(job[g])'
  PROVE  MutexInv' /\ PipeInv'
<1>1. MutexInv'
  BY DEF MutexInv
<1>2. PipeInv'
  BY PipeFrame
<1> QED
  BY <1>1, <1>2

LEMMA PipeRun ==
  ASSUME TypeOK, MutexInv, PipeInv, NEW w \in Workers, RunWorker(w)
  PROVE  MutexInv' /\ PipeInv'
<1>0. /\ stdin \in [Workers -> Seq(Queries)] /\ stdout \in [Workers -> Seq(Lines)]
      /\ alive[w] /\ stdin[w] # <<>> /\ UNCHANGED <<nth, job, mu, alive>>
      /\ stdin' = [stdin EXCEPT ![w] = Tail(@)]
  BY DEF RunWorker, TypeOK, WorkerTypeOK, callVars
<1>1. mu[w] # Nobody
  BY <1>0 DEF PipeInv, InStep
<1>2. PICK lines \in handle_request_line(Head(stdin[w])) : stdout' = [stdout EXCEPT ![w] = @ \o lines]
  BY DEF RunWorker
<1>3. ASSUME NEW g \in Jobs, job[g].st \in HasMutex, job[g].w = w
      PROVE  Reading(job[g])'
  <2> PICK q \in Queries : q = job[g].q
    BY <1>3, JobFields DEF TypeOK, HasMutex
  <2>1. job[g].st = "begin" /\ stdin[w] = <<q>> /\ stdout[w] = <<>>
    BY <1>0, <1>3 DEF PipeInv, Reading, HasMutex, Quiet
  <2>2. lines \in handle_request_line(q) /\ lines \in Seq(Lines)
    <3>1. Head(stdin[w]) = q
      BY <2>1
    <3> QED
      BY <1>2, <3>1, LinesType
  <2>3. stdin'[w] = <<>> /\ stdout'[w] = lines
    BY <1>0, <1>2, <2>1, <2>2
  <2>4. lines = <<Line("X", q, 0)>> \/ lines = response_lines(q)
    BY <2>2 DEF handle_request_line
  <2>5. ASSUME lines = response_lines(q)
        PROVE  Unread(w, q, 0)'
    <3>1. Len(lines) = Len(Hits(q)) + 2 /\ Len(Hits(q)) \in Nat
      BY <2>5, ResponseLines
    <3>2. 0 + Len(lines) = Len(Hits(q)) + 2 /\ 0 + Len(lines) <= Len(Hits(q)) + 2
      BY <3>1
    <3>3. \A n \in 1 .. Len(lines) : lines[n] = response_lines(q)[0 + n]
      BY <2>5
    <3> QED
      BY <2>3, <3>2, <3>3 DEF Unread
  <2>6. /\ job'[g].st = "begin" /\ job'[g].w = w /\ job'[g].q = q
    BY <1>0, <1>3, <2>1
  <2> QED
    BY <2>3, <2>4, <2>5, <2>6 DEF Reading
<1>4. \A v \in Workers \ {w} : stdin'[v] = stdin[v] /\ stdout'[v] = stdout[v] /\ alive'[v] = alive[v]
  BY <1>0, <1>2
<1> QED
  BY <1>0, <1>1, <1>3, <1>4, PipeProcess

LEMMA PipeDie ==
  ASSUME TypeOK, MutexInv, PipeInv, NEW w \in Workers, Die(w)
  PROVE  MutexInv' /\ PipeInv'
<1>0. /\ stdin \in [Workers -> Seq(Queries)] /\ stdout \in [Workers -> Seq(Lines)]
      /\ alive \in [Workers -> BOOLEAN] /\ UNCHANGED <<nth, job, mu>>
      /\ stdin' = [stdin EXCEPT ![w] = <<>>] /\ alive' = [alive EXCEPT ![w] = FALSE]
  BY DEF Die, TypeOK, WorkerTypeOK, callVars
<1>1. \/ stdout' = stdout
      \/ /\ stdin[w] # <<>>
         /\ \E n \in 1 .. Len(response_lines(Head(stdin[w]))) :
              stdout' = [stdout EXCEPT ![w] = @ \o SubSeq(response_lines(Head(stdin[w])), 1, n)]
  BY DEF Die
<1>2. ~ alive'[w] /\ stdin'[w] = <<>>
  BY <1>0
<1>3. \A v \in Workers \ {w} : stdin'[v] = stdin[v] /\ stdout'[v] = stdout[v] /\ alive'[v] = alive[v]
  BY <1>0, <1>1
<1>4. ASSUME NEW g \in Jobs, job[g].st \in HasMutex, job[g].w = w
      PROVE  Reading(job[g])'
  <2> PICK q \in Queries : q = job[g].q
    BY <1>4, JobFields DEF TypeOK, HasMutex
  <2>0. job'[g].w = w /\ job'[g].q = q /\ job'[g].st = job[g].st /\ job'[g].got = job[g].got
        /\ job'[g].need = job[g].need
    BY <1>0, <1>4
  <2>1. ASSUME NEW k, Unread(w, q, k), stdout' = stdout
        PROVE  Unread(w, q, k)'
    BY <1>2, <2>1 DEF Unread
  <2>2. CASE job[g].st = "write"
    BY <1>2, <2>0, <2>2 DEF Reading
  <2>3. CASE job[g].st = "body"
    <3>1. stdin[w] = <<>> /\ stdout' = stdout
      BY <1>1, <1>4, <2>3 DEF PipeInv, Reading
    <3>2. Unread(w, q, Len(job[g].got) + 1)
      BY <1>4, <2>3 DEF PipeInv, Reading
    <3>3. Unread(w, q, Len(job[g].got) + 1)'
      BY <2>0, <3>1, <3>2, <1>2 DEF Unread
    <3>4. /\ Len(job[g].got) + job[g].need = Len(Hits(q))
          /\ \A n \in 1 .. Len(job[g].got) : job[g].got[n] = <<Hits(q)[n], PoolOf(w)>>
      BY <1>4, <2>3 DEF PipeInv, Reading
    <3> QED
      BY <1>2, <2>0, <2>3, <3>3, <3>4 DEF Reading
  <2>4. CASE job[g].st = "begin" /\ stdin[w] = <<>>
    <3>1. stdout' = stdout /\ (stdout[w] = <<Line("X", q, 0)>> \/ Unread(w, q, 0))
      <4>1. stdin[w] # <<q>>
        BY <2>4
      <4>2. Reading(job[g])
        BY DEF PipeInv
      <4>3. stdout[w] = <<Line("X", q, 0)>> \/ Unread(w, q, 0)
        BY <1>4, <2>4, <4>1, <4>2 DEF Reading
      <4> QED
        BY <1>1, <2>4, <4>3
    <3> QED
      BY <1>2, <2>0, <2>1, <2>4, <3>1 DEF Reading
  <2>5. CASE job[g].st = "begin" /\ stdin[w] # <<>>
    <3>1. stdin[w] = <<q>> /\ stdout[w] = <<>>
      BY <1>4, <2>5 DEF PipeInv, Reading
    <3>2. Head(stdin[w]) = q
      BY <3>1
    <3> PICK total \in Nat : total = Len(Hits(q))
      BY HitsType
    <3>3. response_lines(q) \in Seq(Lines) /\ Len(response_lines(q)) = total + 2
      BY LinesType, ResponseLines
    <3>4. PICK n \in 0 .. total + 2 : /\ Len(stdout'[w]) = n
                                      /\ \A m \in 1 .. n : stdout'[w][m] = response_lines(q)[m]
      <4>1. CASE stdout' = stdout
        BY <3>1, <4>1
      <4>2. CASE \E n \in 1 .. Len(response_lines(q)) :
                   stdout' = [stdout EXCEPT ![w] = @ \o SubSeq(response_lines(q), 1, n)]
        <5>1. PICK n \in 1 .. Len(response_lines(q)) :
                     stdout' = [stdout EXCEPT ![w] = @ \o SubSeq(response_lines(q), 1, n)]
          BY <4>2
        <5> DEFINE part == SubSeq(response_lines(q), 1, n)
        <5>2. part \in Seq(Lines) /\ Len(part) = n /\ \A m \in 1 .. n : part[m] = response_lines(q)[m]
          BY <3>3, <5>1
        <5>3. stdout'[w] = part
          BY <1>0, <3>1, <5>1, <5>2
        <5>4. n \in 0 .. total + 2
          BY <3>3, <5>1
        <5> HIDE DEF part
        <5> QED
          BY <5>2, <5>3, <5>4
      <4> QED
        BY <1>1, <3>2, <4>1, <4>2
    <3>5. Unread(w, q, 0)'
      <4>1. 0 + n <= total + 2 /\ \A m \in 1 .. n : 0 + m = m
        BY <3>4
      <4> QED
        BY <1>2, <3>4, <4>1 DEF Unread
    <3> QED
      BY <1>2, <2>0, <2>5, <3>5 DEF Reading
  <2> QED
    BY <1>4, <2>2, <2>3, <2>4, <2>5 DEF HasMutex
<1> QED
  BY <1>0, <1>2, <1>3, <1>4, PipeProcess

LEMMA PipeClose ==
  ASSUME TypeOK, MutexInv, PipeInv, NEW w \in Workers, CloseWorker(w)
  PROVE  MutexInv' /\ PipeInv'
<1>0. /\ alive \in [Workers -> BOOLEAN] /\ UNCHANGED <<nth, job, mu, stdin, stdout>>
      /\ alive' = [alive EXCEPT ![w] = FALSE] /\ mu[w] = Nobody
  BY DEF CloseWorker, TypeOK, WorkerTypeOK, callVars
<1>1. ~ alive'[w] /\ \A v \in Workers \ {w} : alive'[v] = alive[v]
  BY <1>0
<1>2. ASSUME NEW g \in Jobs, job[g].st \in HasMutex, job[g].w = w PROVE FALSE
  BY <1>0, <1>2, RuntimeAssumption DEF MutexInv
<1> QED
  BY <1>0, <1>1, <1>2, PipeProcess

(* The runtime as a process starts with it.                                *)
AtRest ==
  /\ job = [g \in Jobs |-> NoJob] /\ mu = [w \in Workers |-> Nobody]
  /\ stdin = [w \in Workers |-> <<>>] /\ stdout = [w \in Workers |-> <<>>]
  /\ chan = Started /\ held = [r \in Requests |-> Nobody]

LEMMA RestStarts == AtRest => ChanInv /\ MutexInv /\ PipeInv
<1> SUFFICES ASSUME AtRest PROVE ChanInv /\ MutexInv /\ PipeInv
  OBVIOUS
<1> USE DEF AtRest
<1>1. MutexInv
  BY DEF MutexInv, NoJob, HasMutex
<1>2. InStep
  BY DEF InStep
<1>3. \A g \in Jobs : Reading(job[g])
  BY DEF Reading, NoJob
<1>4. ChanInv
  BY ChanStarted
<1> QED
  BY <1>1, <1>2, <1>3, <1>4 DEF PipeInv

(* Every step, but those of lookups and goroutines.                        *)
LEMMA RestIsSame ==
  ASSUME [Next]_vars,
         ~ \E r \in Requests : LookupStep(r) \/ Lookup(r),
         ~ \E g \in Jobs : JobStep(g),
         ~ \E w \in Workers : RunWorker(w) \/ Die(w) \/ CloseWorker(w),
         ~ (Exit \/ Crash)
  PROVE  UNCHANGED <<chan, asked, held, nth, job, mu, pipeVars>>
<1>1. CASE \E r \in Requests : Receive(r) \/ Handle(r) \/ Timeout(r)
  BY <1>1 DEF Receive, Handle, BeginRead, BeginLock, BeginReread, StoreError, Load, Merge, Score,
     Commit, Release, Respond, Timeout, Expire, runtimeVars, poolVars, callVars, workerVars
<1>2. CASE CloseStep
  BY <1>2 DEF CloseStep, ClosePool, CloseChannel, CloseEnd, poolVars, callVars, workerVars
<1>3. CASE ActivateVersion \/ StopServer \/ Start \/ UNCHANGED vars
  BY <1>3 DEF ActivateVersion, StopServer, CloseStart, Start, vars, runtimeVars, poolVars, callVars,
     workerVars
<1> QED
  BY <1>1, <1>2, <1>3 DEF Next

(* The invariant behind PoolSound.                                         *)
RuntimeInv == PoolInv /\ ChanInv /\ MutexInv /\ PipeInv

LEMMA RuntimeStart == Init => RuntimeInv
<1> SUFFICES ASSUME Init PROVE RuntimeInv
  OBVIOUS
<1>1. PoolInv
  BY DEF Init, RuntimeInit, PoolInv, InLookup
<1>2. ChanInv /\ MutexInv /\ PipeInv
  BY RestStarts DEF Init, RuntimeInit, AtRest
<1> QED
  BY <1>1, <1>2 DEF RuntimeInv

LEMMA RuntimeStep == TypeOK /\ RuntimeInv /\ [Next]_vars => RuntimeInv'
<1> SUFFICES ASSUME TypeOK, RuntimeInv, [Next]_vars PROVE RuntimeInv'
  OBVIOUS
<1>0. PoolInv /\ ChanInv /\ MutexInv /\ PipeInv
  BY DEF RuntimeInv
<1>1. PoolInv'
  BY <1>0, PoolStep
<1>2. CASE \E r \in Requests : LookupStep(r) \/ Lookup(r)
  <2>1. PICK r \in Requests : LookupStep(r) \/ Lookup(r)
    BY <1>2
  <2>2. ChanInv'
    BY <1>0, <2>1, ChanLookup
  <2>3. CASE TakeWorker(r)
    BY <1>0, <1>1, <2>2, <2>3, PipeTake DEF RuntimeInv
  <2>4. CASE ~ TakeWorker(r)
    <3>1. UNCHANGED <<nth, job, mu, pipeVars>>
      BY <2>1, <2>4 DEF LookupStep, Enter, GiveUpWaiting, TakeReply, Abandon, GiveBack, Lookup, Bind,
                        workerVars
    <3> QED
      BY <1>0, <1>1, <2>2, <3>1, PipeSame DEF RuntimeInv
  <2> QED
    BY <2>3, <2>4
<1>3. CASE \E g \in Jobs : JobStep(g)
  <2>1. PICK g \in Jobs : JobStep(g)
    BY <1>3
  <2>2. UNCHANGED <<chan, held, asked>>
    BY <2>1 DEF JobStep, LockWorker, WriteQuery, ScanBegin, ScanBody, ScanEOF, poolVars
  <2>3. MutexInv' /\ PipeInv'
    BY <1>0, <2>1, PipeAsk, PipeBegin, PipeBody, PipeEOF DEF JobStep
  <2> QED
    BY <1>0, <1>1, <2>2, <2>3, ChanSame DEF RuntimeInv
<1>4. CASE \E w \in Workers : RunWorker(w) \/ Die(w) \/ CloseWorker(w)
  <2>1. PICK w \in Workers : RunWorker(w) \/ Die(w) \/ CloseWorker(w)
    BY <1>4
  <2>2. UNCHANGED <<chan, held, asked>>
    BY <2>1 DEF RunWorker, Die, CloseWorker, poolVars, callVars
  <2>3. MutexInv' /\ PipeInv'
    BY <1>0, <2>1, PipeRun, PipeDie, PipeClose
  <2> QED
    BY <1>0, <1>1, <2>2, <2>3, ChanSame DEF RuntimeInv
<1>5. CASE Exit \/ Crash
  <2>1. AtRest'
    BY <1>5 DEF Exit, Crash, Down, RuntimeReset, AtRest
  <2>2. (AtRest => ChanInv /\ MutexInv /\ PipeInv)'
    BY RestStarts, PTL
  <2> QED
    BY <1>1, <2>1, <2>2 DEF RuntimeInv
<1>6. CASE UNCHANGED <<chan, asked, held, nth, job, mu, pipeVars>>
  BY <1>0, <1>1, <1>6, ChanSame, PipeSame DEF RuntimeInv
<1> QED
  BY <1>2, <1>3, <1>4, <1>5, <1>6, RestIsSame

(* Whatever times out, dies, is closed or killed while lookups are in      *)
(* flight, every worker is in its pool's channel or with one lookup, a     *)
(* worker whose mutex is free has nothing unread in its pipes, none goes   *)
(* to a closed channel, and a key has one lease (Pool.Lookup,              *)
(* Worker.lookup, Pool.Close, Idempotency.Begin).                          *)
THEOREM PoolKept == Spec => []PoolSound
<1>1. TypeOK /\ RuntimeInv => WorkersAccounted /\ NoSendOnClosed /\ InStep
  BY ChanAccounts DEF RuntimeInv, PipeInv, PoolInv, NoSendOnClosed, InLookup
<1>2. Spec => []RuntimeInv
  BY TypeCorrect, RuntimeStart, RuntimeStep, PTL DEF Spec
<1>3. WorkersAccounted /\ NoSendOnClosed /\ InStep /\ LeaseExclusive => PoolSound
  BY DEF PoolSound
<1> QED
  BY <1>1, <1>2, <1>3, TypeCorrect, OneLease, PTL

-----------------------------------------------------------------------------
(* The merging of an item's lookups.                                       *)
-----------------------------------------------------------------------------
LEMMA LeastOf ==
  ASSUME NEW S, S \subseteq Nat, S # {}
  PROVE  \E m \in S : \A n \in S : m <= n
<1> DEFINE Less == {p \in Nat \X Nat : p[1] < p[2]}
<1>1. IsWellFoundedOn(Less, Nat)
  BY NatLessThanWellFounded DEF OpToRel
<1> HIDE DEF Less
<1>2. PICK m \in S : \A n \in S : <<n, m>> \notin Less
  BY <1>1, WFMin
<1> USE DEF Less
<1>3. \A n \in S : ~ (n < m)
  BY <1>2
<1> QED
  BY <1>3

(* The elements of a set among the first m of a sequence.                  *)
FirstOf(s, a, m) == a \cap {s[j] : j \in 1 .. m}

LEMMA FirstOfFinite ==
  ASSUME NEW s, NEW a, NEW m \in Nat
  PROVE  IsFiniteSet(FirstOf(s, a, m)) /\ Cardinality(FirstOf(s, a, m)) \in Nat
<1> DEFINE f == [j \in 1 .. m |-> s[j]]
           first == {s[j] : j \in 1 .. m}
<1>1. f \in Surjection(1 .. m, first)
  BY DEF Surjection
<1>2. IsFiniteSet(1 .. m)
  BY FS_Interval
<1>3. IsFiniteSet(first)
  BY <1>1, <1>2, FS_Surjection
<1>4. FirstOf(s, a, m) \subseteq first
  BY DEF FirstOf
<1>5. IsFiniteSet(FirstOf(s, a, m))
  BY <1>3, <1>4, FS_Subset
<1> QED
  BY <1>5, FS_CardinalityType

LEMMA FirstOfGrows ==
  ASSUME NEW s, NEW a, NEW m \in Nat, NEW n \in Nat, m <= n
  PROVE  Cardinality(FirstOf(s, a, m)) <= Cardinality(FirstOf(s, a, n))
<1>1. FirstOf(s, a, m) \subseteq FirstOf(s, a, n)
  BY DEF FirstOf
<1> QED
  BY <1>1, FirstOfFinite, FS_Subset

LEMMA FirstOfNext ==
  ASSUME NEW s, NEW a, NEW m \in Nat
  PROVE  Cardinality(FirstOf(s, a, m + 1)) <= Cardinality(FirstOf(s, a, m)) + 1
<1>1. \A j : j \in 1 .. m + 1 <=> j \in 1 .. m \/ j = m + 1
  OBVIOUS
<1>2. \/ FirstOf(s, a, m + 1) = FirstOf(s, a, m) \cup {s[m + 1]}
      \/ FirstOf(s, a, m + 1) = FirstOf(s, a, m)
  BY <1>1 DEF FirstOf
<1>3. \/ Cardinality(FirstOf(s, a, m + 1)) = Cardinality(FirstOf(s, a, m))
      \/ Cardinality(FirstOf(s, a, m + 1)) = Cardinality(FirstOf(s, a, m)) + 1
  BY <1>2, FirstOfFinite, FS_AddElement
<1> QED
  BY <1>3, FirstOfFinite

(* What is merged from the candidates of all lookups is all that are       *)
(* allowed, or as many as one lookup may have.                             *)
LEMMA MergedIsAll ==
  ASSUME NEW s \in Seq(Candidates), NEW a
  PROVE  /\ Merged(s, a) \subseteq a \cap Members(s)
         /\ Merged(s, a) = a \cap Members(s) \/ Cardinality(Merged(s, a)) = Limit
<1> PICK len \in Nat : len = Len(s)
  OBVIOUS
<1> DEFINE full == {m \in 1 .. len : Cardinality(FirstOf(s, a, m)) > Limit}
<1>0. Limit \in Nat \ {0}
  BY RuntimeAssumption
<1>1. \A m \in 1 .. len : m \in Nat /\ Cardinality(FirstOf(s, a, m)) \in Nat
  BY FirstOfFinite
<1>2. \A m \in 1 .. len : Cardinality(FirstOf(s, a, m)) <= Limit <=> m \notin full
  BY <1>0, <1>1
<1>3. Merged(s, a) = a \cap {s[n] : n \in (1 .. len) \ full}
  <2>1. {m \in 1 .. len : Cardinality(FirstOf(s, a, m)) <= Limit} = (1 .. len) \ full
    BY <1>2
  <2>2. Merged(s, a) = a \cap {s[n] : n \in {m \in 1 .. len : Cardinality(FirstOf(s, a, m)) <= Limit}}
    BY DEF Merged, FirstOf
  <2> HIDE DEF full
  <2> QED
    BY <2>1, <2>2
<1>4. Merged(s, a) \subseteq a \cap Members(s)
  BY <1>3 DEF Members
<1>5. CASE full = {}
  <2>1. (1 .. len) \ full = 1 .. len
    BY <1>5
  <2> QED
    BY <1>3, <1>4, <2>1 DEF Members
<1>6. CASE full # {}
  <2>1. PICK m \in full : \A n \in full : m <= n
    <3>1. full \subseteq Nat
      OBVIOUS
    <3> HIDE DEF full
    <3> QED
      BY <1>6, <3>1, LeastOf
  <2>2. m \in 1 .. len /\ Cardinality(FirstOf(s, a, m)) > Limit
    OBVIOUS
  <2> PICK k \in Nat : k = m - 1
    BY <2>2
  <2>3. m = k + 1 /\ k < len
    BY <2>2
  <2>4. Cardinality(FirstOf(s, a, k)) = Limit
    <3>1. Cardinality(FirstOf(s, a, k + 1)) <= Cardinality(FirstOf(s, a, k)) + 1
      BY FirstOfNext
    <3>2. Cardinality(FirstOf(s, a, k)) \in Nat /\ Cardinality(FirstOf(s, a, k + 1)) \in Nat
      BY FirstOfFinite
    <3>3. Cardinality(FirstOf(s, a, k)) <= Limit
      <4>1. CASE k = 0
        <5>1. FirstOf(s, a, 0) = {}
          BY DEF FirstOf
        <5>2. Cardinality(FirstOf(s, a, k)) = 0
          BY <4>1, <5>1, FS_EmptySet
        <5> QED
          BY <1>0, <5>2
      <4>2. CASE k # 0
        <5>1. k \in 1 .. len /\ ~ (m <= k)
          BY <2>3, <4>2
        <5>2. k \notin full
          BY <2>1, <5>1
        <5> HIDE DEF full
        <5> QED
          BY <1>2, <5>1, <5>2
      <4> QED
        BY <4>1, <4>2
    <3>4. Cardinality(FirstOf(s, a, k + 1)) > Limit
      BY <2>2, <2>3
    <3> QED
      BY <1>0, <3>1, <3>2, <3>3, <3>4
  <2>5. \A n \in 1 .. len : n \in full <=> m <= n
    <3> TAKE n \in 1 .. len
    <3>1. n \in full => m <= n
      BY <2>1
    <3>2. ASSUME m <= n
          PROVE  Cardinality(FirstOf(s, a, n)) > Limit
      <4>1. m \in Nat /\ n \in Nat
        BY <2>2
      <4>2. Cardinality(FirstOf(s, a, m)) <= Cardinality(FirstOf(s, a, n))
        BY <3>2, <4>1, FirstOfGrows
      <4>3. Cardinality(FirstOf(s, a, m)) \in Nat /\ Cardinality(FirstOf(s, a, n)) \in Nat
        BY <4>1, FirstOfFinite
      <4> QED
        BY <1>0, <2>2, <4>2, <4>3
    <3>3. m <= n => n \in full
      BY <3>2
    <3> HIDE DEF full
    <3> QED
      BY <3>1, <3>3
  <2>6. Merged(s, a) = FirstOf(s, a, k)
    <3> HIDE DEF full
    <3>1. \A n : n \in (1 .. len) \ full <=> n \in 1 .. k
      BY <2>2, <2>3, <2>5
    <3>2. (1 .. len) \ full = 1 .. k
      BY <3>1
    <3> QED
      BY <1>3, <3>2 DEF FirstOf
  <2> QED
    BY <1>4, <2>4, <2>6
<1> QED
  BY <1>4, <1>5, <1>6

-----------------------------------------------------------------------------
(* What a lookup answers.                                                  *)
-----------------------------------------------------------------------------
(* The candidates of a query in a version.                                 *)
HitsIn(q, v) == Members(Hits(q)) \X {v}

(* A lookup is of the handler's query in the handler's version, its        *)
(* goroutine exchanges lines about that query with a worker of that pool,  *)
(* and its reply is all the candidates of the query there.                 *)
Served(r) ==
  /\ stage[r] # "out" =>
       h[r].pc = "lookup" /\ asked[r] = [pool |-> h[r].version, query |-> Query(r)]
  /\ reply[r] # NoReply => h[r].pc = "lookup"
  /\ reply[r].kind = "ok" => Members(reply[r].found) = HitsIn(Query(r), h[r].version)
  /\ stage[r] = "wait" =>
       /\ nth[r] >= 1
       /\ job[<<r, nth[r]>>].st # "none" =>
            /\ job[<<r, nth[r]>>].q = asked[r].query
            /\ PoolOf(job[<<r, nth[r]>>].w) = asked[r].pool

CallInv == \A r \in Requests : Served(r)

LEMMA ServedSame ==
  ASSUME NEW r \in Requests, Served(r), UNCHANGED <<stage, asked, nth, job>>,
         h'[r] = h[r], reply'[r] = reply[r]
  PROVE  Served(r)'
  BY DEF Served, Query

(* A handler that is not in a lookup has no part in one.                   *)
LEMMA ServedIdle ==
  ASSUME NEW r \in Requests, Served(r), UNCHANGED <<stage, asked, nth, job>>,
         stage[r] = "out", reply'[r] = NoReply
  PROVE  Served(r)'
  BY DEF Served, NoReply

LEMMA ServedOthers ==
  ASSUME TypeOK, CallInv, NEW r \in Requests,
         Receive(r) \/ Handle(r) \/ (LookupStep(r) /\ UNCHANGED apiVars), NEW s \in Requests, s # r
  PROVE  Served(s)'
<1>1. /\ stage'[s] = stage[s] /\ asked'[s] = asked[s] /\ nth'[s] = nth[s]
      /\ reply'[s] = reply[s] /\ h'[s] = h[s]
  <2>1. CASE LookupStep(r) /\ UNCHANGED apiVars
    BY <2>1 DEF TypeOK, CallTypeOK, ApiTypeOK, LookupStep, Enter, TakeWorker, GiveUpWaiting, TakeReply,
       Abandon, GiveBack, Leave, apiVars
  <2>2. CASE Lookup(r)
    BY <2>2 DEF TypeOK, CallTypeOK, ApiTypeOK, Lookup, Bind, Leave, apiVars
  <2>3. CASE Merge(r)
    BY <2>3 DEF TypeOK, CallTypeOK, ApiTypeOK, Merge, Goto
  <2>4. CASE Receive(r) \/ BeginRead(r) \/ BeginLock(r) \/ BeginReread(r) \/ StoreError(r) \/ Load(r)
             \/ Score(r) \/ Commit(r) \/ Release(r) \/ Respond(r)
    BY <2>4 DEF TypeOK, ApiTypeOK, Receive, BeginRead, BeginLock, BeginReread, StoreError, Load, Score,
       Commit, Release, Respond, FromRecord, Reply, Goto, NextItem, runtimeVars, callVars
  <2> QED
    BY <2>1, <2>2, <2>3, <2>4 DEF Handle
<1>2. job'[<<s, nth[s]>>] = job[<<s, nth[s]>>]
  <2>1. CASE TakeWorker(r)
    BY <2>1 DEF TakeWorker, TypeOK, WorkerTypeOK
  <2>2. CASE ~ TakeWorker(r)
    <3>1. job' = job
      BY <2>2 DEF LookupStep, Enter, GiveUpWaiting, TakeReply, Abandon, GiveBack, Receive, Handle, BeginRead,
         BeginLock, BeginReread, StoreError, Load, Lookup, Bind, Merge, Score, Commit, Release, Respond,
         runtimeVars
    <3> QED
      BY <3>1
  <2> QED
    BY <2>1, <2>2
<1>3. Query(s)' = Query(s)
  BY <1>1 DEF Query
<1> QED
  BY <1>1, <1>2, <1>3 DEF CallInv, Served

(* The handler's own steps.                                                *)
LEMMA ServedHandle ==
  ASSUME TypeOK, CallInv, NEW r \in Requests, Receive(r) \/ Handle(r)
  PROVE  Served(r)'
<1>0. Served(r) /\ reply \in [Requests -> Replies] /\ h \in [Requests -> Handlers]
      /\ stage \in [Requests -> {"out", "bound", "select", "wait", "giveback"}]
  BY DEF CallInv, TypeOK, CallTypeOK, ApiTypeOK
<1>1. CASE Lookup(r)
  <2>1. stage[r] = "out" /\ reply[r] = NoReply /\ h[r].pc = "lookup" /\ UNCHANGED <<h, nth, job>>
    BY <1>1 DEF Lookup, Bind, apiVars
  <2>2. Query(r)' = Query(r)
    BY <2>1 DEF Query
  <2>3. CASE server = "open" /\ h[r].version \in Pools
    <3>1. /\ stage'[r] = "bound" /\ reply' = reply
          /\ asked'[r] = [pool |-> h[r].version, query |-> Query(r)]
      BY <1>0, <1>1, <2>3 DEF Lookup, Bind, TypeOK, CallTypeOK
    <3> QED
      BY <2>1, <2>2, <3>1 DEF Served, NoReply
  <2>4. CASE ~ (server = "open" /\ h[r].version \in Pools)
    <3>1. stage'[r] = "out" /\ reply'[r] = Failed
      BY <1>0, <1>1, <2>4 DEF Lookup, Bind, Leave
    <3> QED
      BY <2>1, <3>1 DEF Served, Failed, NoReply
  <2> QED
    BY <2>3, <2>4
<1>2. CASE Merge(r)
  BY <1>0, <1>2, ServedIdle DEF Merge
<1>3. CASE ~ Lookup(r) /\ ~ Merge(r)
  <2>1. UNCHANGED <<stage, asked, nth, job, reply>>
    BY <1>3 DEF Receive, Handle, BeginRead, BeginLock, BeginReread, StoreError, Load, Score,
       Commit, Release, Respond, runtimeVars, callVars
  <2>2. h[r].pc # "lookup"
    BY <1>3 DEF Receive, Handle, BeginRead, BeginLock, BeginReread, StoreError, Load, Score,
       Commit, Release, Respond
  <2>3. stage[r] = "out" /\ reply[r] = NoReply
    BY <1>0, <2>2 DEF Served
  <2> QED
    BY <1>0, <2>1, <2>3, ServedIdle
<1> QED
  BY <1>1, <1>2, <1>3

(* The steps of its lookup.                                                *)
LEMMA ServedLookup ==
  ASSUME TypeOK, PoolInv, ChanInv, CallInv, NEW r \in Requests, LookupStep(r),
         UNCHANGED apiVars
  PROVE  Served(r)'
<1>0. /\ Served(r) /\ reply \in [Requests -> Replies]
      /\ stage \in [Requests -> {"out", "bound", "select", "wait", "giveback"}]
      /\ asked \in [Requests -> [pool : Pools, query : Queries] \cup {Nobody}]
      /\ nth \in [Requests -> 0 .. MaxLookups] /\ MaxLookups \in Nat
  BY RuntimeAssumption DEF CallInv, TypeOK, CallTypeOK
<1>1. h' = h /\ Query(r)' = Query(r)
  BY DEF Query, apiVars
<1>2. CASE Enter(r)
  BY <1>0, <1>1, <1>2 DEF Enter, Leave, Served, Failed, NoReply
<1>3. CASE TakeWorker(r)
  <2> DEFINE p == asked[r].pool
             w == Head(chan[p])
  <2> PICK n \in Nat : n = nth[r] + 1
    BY <1>0
  <2>1. /\ stage'[r] = "wait" /\ nth'[r] = n /\ asked' = asked /\ reply' = reply /\ n <= MaxLookups
        /\ stage[r] = "select" /\ chan[p] # <<>>
        /\ job' = [job EXCEPT ![<<r, n>>] = [st |-> "lock", w |-> w, q |-> asked[r].query]]
    BY <1>0, <1>3 DEF TakeWorker
  <2>2. <<r, n>> \in Jobs /\ n >= 1
    BY <1>0, <2>1 DEF Jobs
  <2>3. job'[<<r, n>>].q = asked[r].query /\ job'[<<r, n>>].w = w
    <3>1. job \in [Jobs -> JobStates]
      BY DEF TypeOK, WorkerTypeOK
    <3>2. job'[<<r, n>>] = [st |-> "lock", w |-> w, q |-> asked[r].query]
      BY <2>1, <2>2, <3>1
    <3> QED
      BY <3>2
  <2>4. PoolOf(w) = p
    <3>1. p \in Pools
      BY <2>1, AskedType DEF TypeOK
    <3>2. chan[p] \in Seq(Workers)
      BY <3>1 DEF TypeOK, WorkerTypeOK
    <3>3. w = chan[p][1] /\ 1 \in 1 .. Len(chan[p])
      BY <2>1, <3>2
    <3> QED
      BY <3>1, <3>3 DEF ChanInv
  <2> HIDE DEF w
  <2> QED
    BY <1>0, <1>1, <2>1, <2>2, <2>3, <2>4 DEF Served
<1>4. CASE GiveUpWaiting(r)
  BY <1>0, <1>1, <1>4 DEF GiveUpWaiting, Leave, Served, Failed, NoReply
<1>5. CASE TakeReply(r)
  BY <1>0, <1>1, <1>5 DEF TakeReply, Served
<1>6. CASE Abandon(r)
  BY <1>0, <1>1, <1>6 DEF Abandon, Served, Failed
<1>7. CASE GiveBack(r)
  BY <1>0, <1>1, <1>7 DEF GiveBack, Leave, Served
<1> QED
  BY <1>2, <1>3, <1>4, <1>5, <1>6, <1>7 DEF LookupStep

(* What a step of a goroutine does to its lookup.                          *)
LEMMA JobEffect ==
  ASSUME TypeOK, NEW g \in Jobs, JobStep(g)
  PROVE  /\ UNCHANGED <<stage, asked, nth>>
         /\ job[g].st # "none"
         /\ \A j \in Jobs \ {g} : job'[j] = job[j]
         /\ \/ job'[g].st = "none"
            \/ job'[g].q = job[g].q /\ job'[g].w = job[g].w
         /\ \/ reply' = reply
            \/ /\ stage[g[1]] = "wait" /\ nth[g[1]] = g[2]
               /\ \/ reply' = [reply EXCEPT ![g[1]] = Failed]
                  \/ /\ job[g].st = "body" /\ job[g].need = 0
                     /\ reply' = [reply EXCEPT ![g[1]] = Found(job[g].got)]
<1>0. job \in [Jobs -> JobStates]
  BY DEF TypeOK, WorkerTypeOK
<1>1. UNCHANGED <<stage, asked, nth>> /\ job[g].st \in {"lock", "write", "begin", "body"}
  BY DEF JobStep, LockWorker, WriteQuery, ScanBegin, ScanBody, ScanEOF
<1>2. /\ job[g].st # "body" => job[g] \in [st : {"lock", "write", "begin"}, w : Workers, q : Queries]
      /\ job[g].st = "body" => job[g] \in [st : {"body"}, w : Workers, q : Queries,
                                           need : Nat, got : Seq(Candidates)]
  BY <1>1, JobFields DEF TypeOK
<1>3. ASSUME NEW result, Finish(g, result),
             result = Failed \/ (job[g].st = "body" /\ job[g].need = 0 /\ result = Found(job[g].got))
      PROVE  /\ \A j \in Jobs \ {g} : job'[j] = job[j]
             /\ job'[g].st = "none"
             /\ \/ reply' = reply
                \/ /\ stage[g[1]] = "wait" /\ nth[g[1]] = g[2]
                   /\ \/ reply' = [reply EXCEPT ![g[1]] = Failed]
                      \/ /\ job[g].st = "body" /\ job[g].need = 0
                         /\ reply' = [reply EXCEPT ![g[1]] = Found(job[g].got)]
  BY <1>0, <1>3 DEF Finish, NoJob
<1>4. CASE LockWorker(g)
  <2>1. CASE shut[job[g].w]
    BY <1>1, <1>3, <1>4, <2>1 DEF LockWorker
  <2>2. CASE ~ shut[job[g].w]
    <3>1. reply' = reply /\ job' = [job EXCEPT ![g].st = "write"] /\ job[g].st = "lock"
      BY <1>4, <2>2 DEF LockWorker
    <3>2. job'[g].q = job[g].q /\ job'[g].w = job[g].w /\ \A j \in Jobs \ {g} : job'[j] = job[j]
      BY <1>0, <1>2, <3>1
    <3> QED
      BY <1>1, <3>1, <3>2
  <2> QED
    BY <2>1, <2>2
<1>5. CASE WriteQuery(g)
  <2>1. CASE ~ alive[job[g].w]
    BY <1>1, <1>3, <1>5, <2>1 DEF WriteQuery
  <2>2. CASE alive[job[g].w]
    <3>1. reply' = reply /\ job' = [job EXCEPT ![g].st = "begin"] /\ job[g].st = "write"
      BY <1>5, <2>2 DEF WriteQuery
    <3>2. job'[g].q = job[g].q /\ job'[g].w = job[g].w /\ \A j \in Jobs \ {g} : job'[j] = job[j]
      BY <1>0, <1>2, <3>1
    <3> QED
      BY <1>1, <3>1, <3>2
  <2> QED
    BY <2>1, <2>2
<1>6. CASE ScanBegin(g)
  <2> DEFINE line == Head(stdout[job[g].w])
  <2>1. CASE ~ (line.tag = "B" /\ line.q = job[g].q /\ line.n <= Limit)
    BY <1>1, <1>3, <1>6, <2>1 DEF ScanBegin
  <2>2. CASE line.tag = "B" /\ line.q = job[g].q /\ line.n <= Limit
    <3>1. reply' = reply /\ job' = [job EXCEPT ![g] = [st |-> "body", w |-> job[g].w, q |-> line.q,
                                                       need |-> line.n, got |-> <<>>]]
      BY <1>6, <2>2 DEF ScanBegin
    <3>2. job'[g].q = job[g].q /\ job'[g].w = job[g].w /\ \A j \in Jobs \ {g} : job'[j] = job[j]
      BY <1>0, <2>2, <3>1
    <3> QED
      BY <1>1, <3>1, <3>2
  <2> QED
    BY <2>1, <2>2
<1>7. CASE ScanBody(g)
  <2> DEFINE line == Head(stdout[job[g].w])
             wrong == line.q # job[g].q \/ line.tag # (IF job[g].need = 0 THEN "E" ELSE "C")
  <2>0. job[g].st = "body"
    BY <1>7 DEF ScanBody
  <2>1. CASE wrong
    BY <1>1, <1>3, <1>7, <2>1 DEF ScanBody
  <2>2. CASE ~ wrong /\ job[g].need = 0
    <3>1. Finish(g, Found(job[g].got))
      BY <1>7, <2>2 DEF ScanBody
    <3> QED
      BY <1>1, <1>3, <2>0, <2>2, <3>1
  <2>3. CASE ~ wrong /\ job[g].need # 0
    <3>1. reply' = reply /\ job' = [job EXCEPT ![g].need = @ - 1, ![g].got = Append(@, <<line.n, PoolOf(job[g].w)>>)]
      BY <1>7, <2>3 DEF ScanBody
    <3>2. job'[g].q = job[g].q /\ job'[g].w = job[g].w /\ \A j \in Jobs \ {g} : job'[j] = job[j]
      BY <1>0, <1>2, <2>0, <3>1
    <3> QED
      BY <1>1, <3>1, <3>2
  <2> QED
    BY <2>1, <2>2, <2>3
<1>8. CASE ScanEOF(g)
  BY <1>1, <1>3, <1>8 DEF ScanEOF
<1> QED
  BY <1>4, <1>5, <1>6, <1>7, <1>8 DEF JobStep

(* A goroutine that has read the end has all the candidates.               *)
LEMMA AnswerIsWhole ==
  ASSUME TypeOK, PipeInv, NEW g \in Jobs, job[g].st = "body", job[g].need = 0
  PROVE  Members(job[g].got) = HitsIn(job[g].q, PoolOf(job[g].w))
<1> PICK q \in Queries : q = job[g].q
  BY JobFields DEF TypeOK
<1> PICK got \in Seq(Candidates) : got = job[g].got
  BY JobFields DEF TypeOK
<1> PICK p : p = PoolOf(job[g].w)
  OBVIOUS
<1>1. /\ Len(got) + 0 = Len(Hits(q))
      /\ \A n \in 1 .. Len(got) : got[n] = <<Hits(q)[n], p>>
  BY DEF PipeInv, Reading
<1>2. Len(got) \in Nat /\ Len(Hits(q)) \in Nat
  BY HitsType
<1>3. Len(got) = Len(Hits(q))
  BY <1>1, <1>2
<1>4. Members(got) \subseteq HitsIn(q, p)
  <2> SUFFICES ASSUME NEW n \in 1 .. Len(got) PROVE got[n] \in HitsIn(q, p)
    BY DEF Members
  <2>1. got[n] = <<Hits(q)[n], p>> /\ Hits(q)[n] \in Members(Hits(q))
    BY <1>1, <1>3 DEF Members
  <2> QED
    BY <2>1 DEF HitsIn
<1>5. HitsIn(q, p) \subseteq Members(got)
  <2> SUFFICES ASSUME NEW x \in Members(Hits(q)) PROVE <<x, p>> \in Members(got)
    BY DEF HitsIn
  <2> PICK n \in 1 .. Len(Hits(q)) : x = Hits(q)[n]
    BY DEF Members
  <2>1. n \in 1 .. Len(got) /\ got[n] = <<Hits(q)[n], p>>
    BY <1>1, <1>3
  <2> QED
    BY <2>1 DEF Members
<1> QED
  BY <1>4, <1>5

LEMMA ServedJob ==
  ASSUME TypeOK, PipeInv, CallInv, NEW g \in Jobs, JobStep(g), UNCHANGED apiVars,
         NEW r \in Requests
  PROVE  Served(r)'
<1>0. /\ Served(r) /\ h' = h /\ Query(r)' = Query(r) /\ reply \in [Requests -> Replies]
      /\ nth \in [Requests -> 0 .. MaxLookups] /\ MaxLookups \in Nat
      /\ g[1] \in Requests /\ g = <<g[1], g[2]>>
  BY RuntimeAssumption DEF CallInv, Query, apiVars, TypeOK, CallTypeOK, Jobs
<1>1. UNCHANGED <<stage, asked, nth>> /\ job[g].st # "none"
  BY JobEffect
<1>2. CASE g = <<r, nth[r]>>
  <2>1. g[1] = r /\ g[2] = nth[r]
    BY <1>2
  <2>2. stage'[r] = "wait" /\ job'[g].st # "none" => job'[g].q = asked'[r].query
                                                     /\ PoolOf(job'[g].w) = asked'[r].pool
    <3>1. stage[r] = "wait" => job[g].q = asked[r].query /\ PoolOf(job[g].w) = asked[r].pool
      BY <1>0, <1>1, <1>2 DEF Served
    <3>2. job'[g].st # "none" => job'[g].q = job[g].q /\ job'[g].w = job[g].w
      BY JobEffect
    <3> QED
      BY <1>1, <3>1, <3>2
  <2>3. CASE reply' = reply
    BY <1>0, <1>1, <1>2, <2>2, <2>3 DEF Served
  <2>4. CASE stage[r] = "wait" /\ reply' = [reply EXCEPT ![r] = Failed]
    <3>1. reply'[r] = Failed
      BY <1>0, <2>4
    <3> QED
      BY <1>0, <1>1, <1>2, <2>2, <2>4, <3>1 DEF Served, Failed
  <2>5. CASE stage[r] = "wait" /\ job[g].st = "body" /\ job[g].need = 0
             /\ reply' = [reply EXCEPT ![r] = Found(job[g].got)]
    <3>1. reply'[r] = Found(job[g].got)
      BY <1>0, <2>5
    <3>2. reply'[r].found = job[g].got
      BY <3>1 DEF Found
    <3>3. h[r].pc = "lookup" /\ job[g].q = Query(r) /\ PoolOf(job[g].w) = h[r].version
      BY <1>0, <1>1, <1>2, <2>5 DEF Served
    <3>4. Members(reply'[r].found) = HitsIn(Query(r), h[r].version)
      BY <2>5, <3>2, <3>3, AnswerIsWhole
    <3> QED
      BY <1>0, <1>1, <1>2, <2>2, <3>3, <3>4 DEF Served
  <2> QED
    BY <2>1, <2>3, <2>4, <2>5, JobEffect
<1>3. CASE g # <<r, nth[r]>>
  <2>1. stage[r] = "wait" => <<r, nth[r]>> \in Jobs
    BY <1>0 DEF Served, Jobs
  <2>2. stage[r] = "wait" => job'[<<r, nth[r]>>] = job[<<r, nth[r]>>]
    BY <1>3, <2>1, JobEffect
  <2>3. reply'[r] = reply[r]
    <3>1. g[1] # r \/ g[2] # nth[r]
      BY <1>0, <1>3
    <3>2. reply' = reply \/ (nth[g[1]] = g[2] /\ \E a : reply' = [reply EXCEPT ![g[1]] = a])
      BY JobEffect
    <3> QED
      BY <1>0, <3>1, <3>2
  <2> QED
    BY <1>0, <1>1, <2>2, <2>3 DEF Served
<1> QED
  BY <1>2, <1>3

LEMMA CallStart == Init => CallInv
  BY DEF Init, RuntimeInit, CallInv, Served, NoReply

LEMMA CallStep == TypeOK /\ RuntimeInv /\ CallInv /\ [Next]_vars => CallInv'
<1> SUFFICES ASSUME TypeOK, RuntimeInv, CallInv, [Next]_vars PROVE CallInv'
  OBVIOUS
<1>0. PoolInv /\ ChanInv /\ PipeInv
  BY DEF RuntimeInv
<1>1. CASE \E r \in Requests : Receive(r) \/ Handle(r) \/ (LookupStep(r) /\ UNCHANGED apiVars)
  BY <1>0, <1>1, ServedOthers, ServedHandle, ServedLookup DEF CallInv
<1>2. CASE \E g \in Jobs : JobStep(g) /\ UNCHANGED apiVars
  BY <1>0, <1>2, ServedJob DEF CallInv
<1>3. CASE Exit \/ Crash
  <2>1. ASSUME NEW r \in Requests PROVE stage'[r] = "out" /\ reply'[r] = NoReply
    BY <1>3 DEF Exit, Crash, Down, RuntimeReset
  <2> QED
    BY <2>1 DEF CallInv, Served, NoReply
<1>4. CASE UNCHANGED <<callVars, job, h>>
  BY <1>4, ServedSame DEF CallInv, callVars
<1>5. CASE \E r \in Requests : Timeout(r)
  BY <1>4, <1>5 DEF Timeout, Expire, apiVars
<1>6. CASE (\E w \in Workers : (RunWorker(w) \/ Die(w)) /\ UNCHANGED apiVars)
           \/ (CloseStep /\ UNCHANGED apiVars)
  BY <1>4, <1>6 DEF RunWorker, Die, CloseStep, ClosePool, CloseChannel, CloseWorker, CloseEnd, apiVars
<1>7. CASE ActivateVersion \/ StopServer \/ Start \/ UNCHANGED vars
  BY <1>4, <1>7 DEF ActivateVersion, StopServer, CloseStart, Start, vars, runtimeVars, apiVars
<1> QED
  BY <1>1, <1>2, <1>3, <1>5, <1>6, <1>7 DEF Next

-----------------------------------------------------------------------------
(* What a handler has of its items.                                        *)
-----------------------------------------------------------------------------
(* The candidates of the first n queries of item i of a body, in version v.*)
Asks(b, i, n, v) == (UNION {Members(Hits(Items[b][i][m])) : m \in 1 .. n}) \X {v}

(* The result of item i is all of its candidates of the types asked for,   *)
(* or as many as may be.                                                   *)
Whole(b, i, x) ==
  x.version # None =>
    LET all == Allowed(b, i) \cap Asks(b, i, Len(Items[b][i]), x.version)
    IN x.found \subseteq all /\ (x.found = all \/ Cardinality(x.found) = Limit)

AtItem   == {"load", "lookup", "score"}
AllItems == {"commit", "release", "respond"}

(* The items before the one a handler is at are whole, and of the queries  *)
(* before the one it is at it has every candidate.                         *)
Progress(b, x) ==
  /\ x.pc \in AtItem => Len(x.results) = x.i - 1
  /\ x.pc \in AllItems => Len(x.results) = Len(Items[b])
  /\ x.pc \in AtItem \cup AllItems => \A n \in 1 .. Len(x.results) : Whole(b, n, x.results[n])
  /\ x.pc = "load" => x.k = 1 /\ x.got = <<>>
  /\ x.pc = "lookup" => Members(x.got) = Asks(b, x.i, x.k - 1, x.version)
  /\ x.pc = "score" => Members(x.got) = Asks(b, x.i, Len(Items[b][x.i]), x.version)
  /\ x.pc \in {"new", "read", "mkdir"} => x = Fresh(x.pc)

HandlerInv == \A r \in Requests : Progress(BodyOf[r], h[r])

(* Every recorded response has all items, and each is whole.               *)
AllWhole ==
  \A k \in Keys : record[k] # None =>
  LET rec == record[k]
  IN /\ Len(rec.results) = Len(Items[rec.body])
     /\ \A n \in 1 .. Len(rec.results) : Whole(rec.body, n, rec.results[n])

(* A recorded response whose items are whole is complete.                  *)
LEMMA WholeIsComplete == AllWhole => RecordsComplete
<1> SUFFICES ASSUME AllWhole, NEW k \in Keys, record[k] # None
             PROVE  Complete(record[k].body, record[k].results)
  BY DEF RecordsComplete
<1> DEFINE b == record[k].body
           results == record[k].results
<1>1. /\ Len(results) = Len(Items[b])
      /\ \A n \in 1 .. Len(results) : Whole(b, n, results[n])
  BY DEF AllWhole
<1>2. \A n : UNION {Members(Hits(q)) : q \in Members(Items[b][n])}
               = UNION {Members(Hits(Items[b][n][m])) : m \in 1 .. Len(Items[b][n])}
  <2> TAKE n
  <2> DEFINE s == Items[b][n]
  <2>1. {Members(Hits(q)) : q \in Members(s)} = {Members(Hits(s[m])) : m \in 1 .. Len(s)}
    <3> DEFINE hits(q) == Members(Hits(q))
    <3>1. Members(s) = {s[m] : m \in 1 .. Len(s)}
      BY DEF Members
    <3> HIDE DEF s, hits
    <3>2. {hits(q) : q \in {s[m] : m \in 1 .. Len(s)}} = {hits(s[m]) : m \in 1 .. Len(s)}
      OBVIOUS
    <3> QED
      BY <3>1, <3>2 DEF hits
  <2> QED
    BY <2>1
<1> HIDE DEF b, results
<1> QED
  BY <1>1, <1>2 DEF Complete, Whole, Asks, b, results

LEMMA AsksNone == ASSUME NEW b, NEW i, NEW v PROVE Asks(b, i, 0, v) = {}
<1>1. 1 .. 0 = {}
  OBVIOUS
<1>2. {Members(Hits(Items[b][i][m])) : m \in 1 .. 0} = {}
  BY <1>1
<1> QED
  BY <1>2 DEF Asks

LEMMA AsksNext ==
  ASSUME NEW b, NEW i, NEW v, NEW k \in Nat \ {0}
  PROVE  Asks(b, i, k - 1, v) \cup HitsIn(Items[b][i][k], v) = Asks(b, i, k, v)
<1> DEFINE hits(m) == Members(Hits(Items[b][i][m]))
<1>1. \A m : m \in 1 .. k <=> m \in 1 .. k - 1 \/ m = k
  OBVIOUS
<1>2. {hits(m) : m \in 1 .. k} = {hits(m) : m \in 1 .. k - 1} \cup {hits(k)}
  BY <1>1
<1>3. UNION {hits(m) : m \in 1 .. k} = (UNION {hits(m) : m \in 1 .. k - 1}) \cup hits(k)
  BY <1>2
<1> HIDE DEF hits
<1>4. \A A, B : (A \X {v}) \cup (B \X {v}) = (A \cup B) \X {v}
  OBVIOUS
<1>5. (UNION {hits(m) : m \in 1 .. k - 1}) \X {v} \cup hits(k) \X {v} = (UNION {hits(m) : m \in 1 .. k}) \X {v}
  BY <1>3, <1>4
<1> QED
  BY <1>5 DEF Asks, HitsIn, hits

LEMMA MembersConcat ==
  ASSUME NEW S, NEW s \in Seq(S), NEW t \in Seq(S)
  PROVE  Members(s \o t) = Members(s) \cup Members(t)
<1> DEFINE u == s \o t
<1>1. /\ Len(s) \in Nat /\ Len(t) \in Nat /\ Len(u) = Len(s) + Len(t)
      /\ \A n \in 1 .. Len(u) : u[n] = IF n <= Len(s) THEN s[n] ELSE t[n - Len(s)]
  BY ConcatProperties
<1> HIDE DEF u
<1>2. Members(u) \subseteq Members(s) \cup Members(t)
  <2> SUFFICES ASSUME NEW n \in 1 .. Len(u) PROVE u[n] \in Members(s) \cup Members(t)
    BY DEF Members
  <2>1. CASE n <= Len(s)
    BY <1>1, <2>1 DEF Members
  <2>2. CASE ~ (n <= Len(s))
    <3>1. u[n] = t[n - Len(s)] /\ n - Len(s) \in 1 .. Len(t)
      BY <1>1, <2>2
    <3> QED
      BY <3>1 DEF Members
  <2> QED
    BY <2>1, <2>2
<1>3. \A n \in 1 .. Len(s) : s[n] \in Members(u)
  <2> TAKE n \in 1 .. Len(s)
  <2>1. n \in 1 .. Len(u) /\ u[n] = s[n]
    BY <1>1
  <2> QED
    BY <2>1 DEF Members
<1>4. \A n \in 1 .. Len(t) : t[n] \in Members(u)
  <2> TAKE n \in 1 .. Len(t)
  <2>1. Len(s) + n \in 1 .. Len(u) /\ u[Len(s) + n] = t[n]
    BY <1>1
  <2> QED
    BY <2>1 DEF Members
<1>5. Members(s) \subseteq Members(u) /\ Members(t) \subseteq Members(u)
  BY <1>3, <1>4 DEF Members
<1> QED
  BY <1>2, <1>5 DEF u

(* Handlers go on by one step of their own, the others stay.               *)
LEMMA ProgressFrame ==
  ASSUME TypeOK, HandlerInv, NEW r \in Requests,
         \A s \in Requests \ {r} : h'[s] = h[s],
         Progress(BodyOf[r], h'[r])
  PROVE  HandlerInv'
<1> SUFFICES ASSUME NEW s \in Requests PROVE Progress(BodyOf[s], h'[s])
  BY DEF HandlerInv
<1> QED
  BY DEF HandlerInv

LEMMA ProgressEnd ==
  ASSUME NEW b, NEW x, x.pc \in {"reread", "drop", "refuse", "fail", "unlock", "done"}
  PROVE  Progress(b, x)
  BY DEF Progress, AtItem, AllItems

LEMMA ProgressReply ==
  ASSUME TypeOK, HandlerInv, NEW r \in Requests, NEW a, Reply(r, a)
  PROVE  HandlerInv'
<1>1. h' = [h EXCEPT ![r] = Fresh("done")]
  BY DEF Reply
<1>2. h \in [Requests -> Handlers]
  BY DEF TypeOK, ApiTypeOK
<1>3. h'[r].pc = "done"
  BY <1>1, <1>2 DEF Fresh
<1>4. Progress(BodyOf[r], h'[r])
  BY <1>3, ProgressEnd
<1> QED
  BY <1>1, <1>2, <1>4, ProgressFrame

LEMMA ProgressGoto ==
  ASSUME TypeOK, HandlerInv, NEW r \in Requests, NEW l, Goto(r, l),
         \/ l \in {"reread", "drop", "refuse", "fail", "unlock"}
         \/ h[r].pc \in {"new", "read", "mkdir"} /\ l \in {"read", "mkdir", "load"}
         \/ h[r].pc \in AllItems /\ l \in AllItems
  PROVE  HandlerInv'
<1> DEFINE b == BodyOf[r]
           x == h[r]
           y == h'[r]
<1>0. h \in [Requests -> Handlers] /\ x \in Handlers /\ Progress(b, x)
  BY DEF TypeOK, ApiTypeOK, HandlerInv
<1>1. h' = [h EXCEPT ![r] = [x EXCEPT !.pc = l]]
  BY DEF Goto
<1>2. /\ y.pc = l /\ y.i = x.i /\ y.k = x.k /\ y.version = x.version /\ y.got = x.got
      /\ y.results = x.results /\ y = [x EXCEPT !.pc = l]
  BY <1>0, <1>1 DEF Handlers
<1>3. \A s \in Requests \ {r} : h'[s] = h[s]
  BY <1>0, <1>1
<1> HIDE DEF x, y, b
<1>4. Progress(b, y)
  <2>1. CASE l \in {"reread", "drop", "refuse", "fail", "unlock"}
    <3>1. y.pc \in {"reread", "drop", "refuse", "fail", "unlock", "done"}
      BY <1>2, <2>1
    <3> QED
      BY <3>1, ProgressEnd
  <2>2. CASE x.pc \in {"new", "read", "mkdir"} /\ l \in {"read", "mkdir", "load"}
    <3>1. x = Fresh(x.pc)
      BY <1>0, <2>2 DEF Progress
    <3>2. y = Fresh(l)
      BY <1>2, <3>1 DEF Fresh
    <3>3. y.results = <<>> /\ Len(y.results) = 0 /\ y.i = 1 /\ y.k = 1 /\ y.got = <<>> /\ y.pc = l
      BY <3>2 DEF Fresh
    <3>4. Len(y.results) = y.i - 1 /\ \A n \in 1 .. Len(y.results) : Whole(b, n, y.results[n])
      BY <3>3
    <3> QED
      BY <2>2, <3>2, <3>3, <3>4 DEF Progress, AtItem, AllItems
  <2>3. CASE x.pc \in AllItems /\ l \in AllItems
    BY <1>0, <1>2, <2>3 DEF Progress, AtItem, AllItems
  <2> QED
    BY <2>1, <2>2, <2>3 DEF x
<1> QED
  BY <1>3, <1>4, ProgressFrame DEF b, y

LEMMA ProgressNext ==
  ASSUME TypeOK, HandlerInv, NEW r \in Requests, NEW result \in Results, NextItem(r, result),
         h[r].pc \in AtItem, Whole(BodyOf[r], h[r].i, result)
  PROVE  HandlerInv'
<1> DEFINE b == BodyOf[r]
           x == h[r]
           rest == x.i < Len(Items[b])
           y == [pc |-> IF rest THEN "load" ELSE "commit", i |-> IF rest THEN x.i + 1 ELSE x.i, k |-> 1,
                 version |-> None, got |-> <<>>, results |-> Append(x.results, result)]
<1>0. /\ h \in [Requests -> Handlers] /\ x \in Handlers /\ Progress(b, x) /\ Positioned(r, x)
      /\ b \in Bodies /\ Items[b] \in Seq(Seq(Queries))
  BY ApiAssumption DEF TypeOK, ApiTypeOK, HandlerInv
<1>1. h' = [h EXCEPT ![r] = y]
  BY DEF NextItem
<1> PICK i \in Nat : i = x.i
  BY <1>0 DEF Handlers
<1> PICK total \in Nat : total = Len(Items[b])
  BY <1>0
<1> PICK results \in Seq(Results) : results = x.results
  BY <1>0 DEF Handlers
<1> PICK next \in Seq(Results) : next = Append(results, result)
  BY AppendProperties
<1>2. i \in 1 .. total /\ Len(results) = i - 1 /\ \A n \in 1 .. Len(results) : Whole(b, n, results[n])
  BY <1>0 DEF Progress, AtItem, Positioned
<1>3. Len(next) = i /\ next[i] = result /\ \A n \in 1 .. i - 1 : next[n] = results[n]
  BY <1>2
<1>4. \A n \in 1 .. i : Whole(b, n, next[n])
  <2> TAKE n \in 1 .. i
  <2>1. CASE n = i
    BY <1>3, <2>1
  <2>2. CASE n # i
    <3>1. n \in 1 .. i - 1
      BY <2>2
    <3> QED
      BY <1>2, <1>3, <3>1
  <2> QED
    BY <2>1, <2>2
<1>5. y.results = next /\ y.k = 1 /\ y.got = <<>>
  OBVIOUS
<1>6. CASE i < total
  <2>1. y.pc = "load" /\ y.i = i + 1
    BY <1>6
  <2>2. (i + 1) - 1 = i
    OBVIOUS
  <2> HIDE DEF y
  <2>3. Progress(b, y)
    BY <1>3, <1>4, <1>5, <2>1, <2>2 DEF Progress, AtItem, AllItems
  <2> QED
    BY <1>0, <1>1, <2>3, ProgressFrame
<1>7. CASE ~ (i < total)
  <2>1. y.pc = "commit" /\ i = total
    BY <1>2, <1>7
  <2> HIDE DEF y
  <2>2. Progress(b, y)
    BY <1>3, <1>4, <1>5, <2>1 DEF Progress, AtItem, AllItems
  <2> QED
    BY <1>0, <1>1, <2>2, ProgressFrame
<1> QED
  BY <1>6, <1>7

LEMMA ProgressLoad ==
  ASSUME TypeOK, HandlerInv, NEW r \in Requests, Load(r)
  PROVE  HandlerInv'
<1> DEFINE x == h[r]
           y == [x EXCEPT !.pc = "lookup", !.version = active]
<1>0. h \in [Requests -> Handlers] /\ x \in Handlers /\ Progress(BodyOf[r], x) /\ x.pc = "load"
  BY DEF TypeOK, ApiTypeOK, HandlerInv, Load
<1>1. CASE Goto(r, "fail")
  BY <1>1, ProgressGoto
<1>2. CASE NextItem(r, [version |-> None, found |-> {}])
  <2> DEFINE result == [version |-> None, found |-> {}]
  <2>1. result \in Results
    BY DEF Results
  <2>2. Whole(BodyOf[r], x.i, result)
    BY DEF Whole
  <2> HIDE DEF result
  <2> QED
    BY <1>0, <1>2, <2>1, <2>2, ProgressNext DEF AtItem, result
<1>3. CASE h' = [h EXCEPT ![r].pc = "lookup", ![r].version = active]
  <2>1. h' = [h EXCEPT ![r] = y]
    BY <1>0, <1>3
  <2>2. /\ y.pc = "lookup" /\ y.i = x.i /\ y.k = x.k /\ y.got = x.got /\ y.results = x.results
    BY <1>0 DEF Handlers
  <2>3. x.k - 1 = 0 /\ x.got = <<>> /\ Members(x.got) = {}
    BY <1>0 DEF Progress, Members
  <2>4. Members(y.got) = Asks(BodyOf[r], y.i, y.k - 1, y.version)
    BY <2>2, <2>3, AsksNone
  <2> HIDE DEF y
  <2>5. Progress(BodyOf[r], y)
    BY <1>0, <2>2, <2>4 DEF Progress, AtItem, AllItems
  <2> QED
    BY <1>0, <2>1, <2>5, ProgressFrame
<1> QED
  BY <1>1, <1>2, <1>3 DEF Load

LEMMA ProgressMerge ==
  ASSUME TypeOK, CallInv, HandlerInv, NEW r \in Requests, Merge(r)
  PROVE  HandlerInv'
<1> DEFINE b == BodyOf[r]
           x == h[r]
           q == Items[b][x.i][x.k]
           more == x.k < Len(Items[b][x.i])
           y == [x EXCEPT !.got = x.got \o reply[r].found,
                          !.k = IF more THEN x.k + 1 ELSE x.k,
                          !.pc = IF more THEN x.pc ELSE "score"]
<1>0. /\ h \in [Requests -> Handlers] /\ x \in Handlers /\ Progress(b, x) /\ x.pc = "lookup"
      /\ Positioned(r, x) /\ reply[r] \in Replies /\ reply[r] # NoReply
  BY DEF TypeOK, ApiTypeOK, CallTypeOK, HandlerInv, Merge
<1>1. CASE reply[r] = Failed
  BY <1>1, ProgressGoto DEF Merge
<1>2. CASE reply[r] # Failed
  <2>1. reply[r].kind = "ok" /\ reply[r].found \in Seq(Candidates)
    BY <1>0, <1>2 DEF Replies
  <2>2. Members(reply[r].found) = HitsIn(q, x.version)
    BY <2>1 DEF CallInv, Served, Query
  <2>3. x.got \in Seq(Candidates) /\ x.k \in Nat \ {0}
    BY <1>0 DEF Handlers
  <2>4. Members(x.got) = Asks(b, x.i, x.k - 1, x.version)
    BY <1>0 DEF Progress
  <2>5. Members(x.got \o reply[r].found) = Asks(b, x.i, x.k, x.version)
    <3>1. Members(x.got \o reply[r].found) = Members(x.got) \cup Members(reply[r].found)
      BY <2>1, <2>3, MembersConcat
    <3>2. Asks(b, x.i, x.k - 1, x.version) \cup HitsIn(q, x.version) = Asks(b, x.i, x.k, x.version)
      BY <2>3, AsksNext
    <3> QED
      BY <2>2, <2>4, <3>1, <3>2
  <2>6. h' = [h EXCEPT ![r] = y]
    BY <1>0, <1>2 DEF Merge, Handlers
  <2>7. /\ y.pc = (IF more THEN "lookup" ELSE "score") /\ y.i = x.i /\ y.k = (IF more THEN x.k + 1 ELSE x.k)
        /\ y.got = x.got \o reply[r].found /\ y.version = x.version /\ y.results = x.results
    BY <1>0 DEF Handlers
  <2>8. /\ Len(x.results) = x.i - 1
        /\ \A n \in 1 .. Len(x.results) : Whole(b, n, x.results[n])
    BY <1>0 DEF Progress, AtItem
  <2>9. CASE more
    <3>1. (x.k + 1) - 1 = x.k
      BY <2>3
    <3>2. y.pc = "lookup" /\ y.k = x.k + 1
      BY <2>7, <2>9
    <3> HIDE DEF y
    <3>3. Members(y.got) = Asks(b, y.i, y.k - 1, y.version)
      BY <2>5, <2>7, <3>1, <3>2
    <3>4. Progress(b, y)
      BY <2>7, <2>8, <3>2, <3>3 DEF Progress, AtItem, AllItems
    <3> QED
      BY <1>0, <2>6, <3>4, ProgressFrame
  <2>10. CASE ~ more
    <3>1. x.k = Len(Items[b][x.i])
      <4>1. x.k \in 1 .. Len(Items[b][x.i])
        BY <1>0 DEF Positioned
      <4>2. Len(Items[b][x.i]) \in Nat
        BY <1>0, ApiAssumption, ElementOfSeq DEF Positioned
      <4> QED
        BY <2>10, <4>1, <4>2
    <3>2. y.pc = "score"
      BY <2>7, <2>10
    <3> HIDE DEF y
    <3>3. Members(y.got) = Asks(b, y.i, Len(Items[b][y.i]), y.version)
      BY <2>5, <2>7, <3>1
    <3>4. Progress(b, y)
      BY <2>7, <2>8, <3>2, <3>3 DEF Progress, AtItem, AllItems
    <3> QED
      BY <1>0, <2>6, <3>4, ProgressFrame
  <2> QED
    BY <2>9, <2>10
<1> QED
  BY <1>1, <1>2

LEMMA ProgressScore ==
  ASSUME TypeOK, HandlerInv, NEW r \in Requests, Score(r)
  PROVE  HandlerInv'
<1> DEFINE x == h[r]
           allowed == Allowed(BodyOf[r], x.i)
           result == [version |-> x.version, found |-> Merged(x.got, allowed)]
<1>0. /\ h \in [Requests -> Handlers] /\ x \in Handlers /\ Progress(BodyOf[r], x) /\ x.pc = "score"
      /\ x.got \in Seq(Candidates)
  BY DEF TypeOK, ApiTypeOK, HandlerInv, Score, Handlers
<1>1. CASE Goto(r, "fail")
  BY <1>1, ProgressGoto
<1>2. CASE NextItem(r, result)
  <2>1. result \in Results
    BY <1>0, MergedType DEF Results, Handlers
  <2>2. Members(x.got) = Asks(BodyOf[r], x.i, Len(Items[BodyOf[r]][x.i]), x.version)
    BY <1>0 DEF Progress
  <2>3. /\ Merged(x.got, allowed) \subseteq allowed \cap Members(x.got)
        /\ \/ Merged(x.got, allowed) = allowed \cap Members(x.got)
           \/ Cardinality(Merged(x.got, allowed)) = Limit
    BY <1>0, MergedIsAll
  <2>4. Whole(BodyOf[r], x.i, result)
    BY <2>2, <2>3 DEF Whole
  <2> HIDE DEF result
  <2> QED
    BY <1>0, <1>2, <2>1, <2>4, ProgressNext DEF AtItem
<1> QED
  BY <1>1, <1>2 DEF Score

LEMMA ProgressHandle ==
  ASSUME TypeOK, CallInv, HandlerInv, NEW r \in Requests, Receive(r) \/ Handle(r)
  PROVE  HandlerInv'
<1>0. h \in [Requests -> Handlers]
  BY DEF TypeOK, ApiTypeOK
<1>1. CASE Receive(r) \/ BeginRead(r) \/ BeginLock(r) \/ BeginReread(r) \/ StoreError(r)
  BY <1>1, ProgressGoto, ProgressReply DEF Receive, BeginRead, BeginLock, BeginReread, StoreError,
     FromRecord
<1>2. CASE Lookup(r)
  BY <1>2 DEF Lookup, apiVars, HandlerInv
<1>3. CASE Commit(r)
  BY <1>3, ProgressGoto DEF Commit, AllItems
<1>4. CASE Release(r)
  <2>1. CASE h[r].pc = "unlock"
    <3>1. h' = [h EXCEPT ![r] = Fresh("done")]
      BY <1>4, <2>1 DEF Release
    <3>2. h'[r].pc = "done"
      BY <1>0, <3>1 DEF Fresh
    <3> QED
      BY <1>0, <3>1, <3>2, ProgressEnd, ProgressFrame
  <2>2. CASE h[r].pc = "release"
    <3>1. Goto(r, "respond")
      BY <1>4, <2>2 DEF Release
    <3> QED
      BY <2>2, <3>1, ProgressGoto DEF AllItems
  <2>3. CASE h[r].pc = "drop"
    <3>1. Goto(r, "refuse")
      BY <1>4, <2>3 DEF Release
    <3> QED
      BY <3>1, ProgressGoto
  <2> QED
    BY <1>4, <2>1, <2>2, <2>3 DEF Release
<1>5. CASE Respond(r)
  BY <1>5, ProgressGoto, ProgressReply DEF Respond
<1> QED
  BY <1>1, <1>2, <1>3, <1>4, <1>5, ProgressLoad, ProgressMerge, ProgressScore DEF Handle

(* The invariant behind RecordsComplete.                                   *)
ScreenInv == RuntimeInv /\ CallInv /\ HandlerInv /\ AllWhole

LEMMA ScreenStart == Init => ScreenInv
<1> SUFFICES ASSUME Init PROVE ScreenInv
  OBVIOUS
<1>1. HandlerInv
  <2>1. ASSUME NEW r \in Requests PROVE h[r] = Fresh("new") /\ h[r].pc = "new"
    BY DEF Init, Fresh
  <2> QED
    BY <2>1 DEF HandlerInv, Progress, AtItem, AllItems
<1>2. AllWhole
  BY DEF Init, AllWhole
<1> QED
  BY <1>1, <1>2, RuntimeStart, CallStart DEF ScreenInv

LEMMA HandlerStep == TypeOK /\ CallInv /\ HandlerInv /\ [Next]_vars => HandlerInv'
<1> SUFFICES ASSUME TypeOK, CallInv, HandlerInv, [Next]_vars PROVE HandlerInv'
  OBVIOUS
<1>1. CASE \E r \in Requests : Receive(r) \/ Handle(r)
  BY <1>1, ProgressHandle
<1>2. CASE Exit \/ Crash
  <2> SUFFICES ASSUME NEW r \in Requests PROVE Progress(BodyOf[r], h'[r])
    BY DEF HandlerInv
  <2>1. h'[r] = h[r] \/ h'[r] = Fresh("done")
    BY <1>2 DEF Exit, Crash, Down
  <2>2. Progress(BodyOf[r], h[r])
    BY DEF HandlerInv
  <2>3. Progress(BodyOf[r], Fresh("done"))
    <3>1. Fresh("done").pc = "done"
      BY DEF Fresh
    <3> QED
      BY <3>1, ProgressEnd
  <2> QED
    BY <2>1, <2>2, <2>3
<1>3. CASE UNCHANGED h
  BY <1>3 DEF HandlerInv
<1> QED
  BY <1>1, <1>2, <1>3 DEF Next, Timeout, ActivateVersion, StopServer, Start, vars, apiVars

LEMMA WholeStep == TypeOK /\ HandlerInv /\ AllWhole /\ [Next]_vars => AllWhole'
<1> SUFFICES ASSUME TypeOK, HandlerInv, AllWhole, [Next]_vars PROVE AllWhole'
  OBVIOUS
<1>1. CASE \E r \in Requests : Commit(r)
  <2> PICK r \in Requests : Commit(r)
    BY <1>1
  <2>0. h[r].pc = "commit" /\ Progress(BodyOf[r], h[r])
    BY DEF HandlerInv, Commit
  <2>1. CASE record' = record
    BY <2>1 DEF AllWhole
  <2>2. CASE record' = [record EXCEPT ![KeyOf[r]] = [body |-> BodyOf[r], results |-> h[r].results]]
    <3> SUFFICES ASSUME NEW k \in Keys, record'[k] # None
                 PROVE  /\ Len(record'[k].results) = Len(Items[record'[k].body])
                        /\ \A n \in 1 .. Len(record'[k].results) :
                             Whole(record'[k].body, n, record'[k].results[n])
      BY DEF AllWhole
    <3>1. record \in [Keys -> [body : Bodies, results : Seq(Results)] \cup {None}]
      BY DEF TypeOK, ApiTypeOK
    <3>2. CASE k = KeyOf[r]
      <4>1. record'[k].body = BodyOf[r] /\ record'[k].results = h[r].results
        BY <2>2, <3>1, <3>2
      <4> QED
        BY <2>0, <4>1 DEF Progress, AllItems
    <3>3. CASE k # KeyOf[r]
      <4>1. record'[k] = record[k]
        BY <2>2, <3>1, <3>3
      <4> QED
        BY <4>1 DEF AllWhole
    <3> QED
      BY <3>2, <3>3
  <2> QED
    BY <2>1, <2>2 DEF Commit
<1>2. CASE record' = record
  BY <1>2 DEF AllWhole
<1> QED
  BY <1>1, <1>2 DEF Next, Receive, Handle, BeginRead, BeginLock, BeginReread, StoreError, Load,
     Lookup, Merge, Score, Release, Respond, Timeout, ActivateVersion, StopServer, Exit, Crash,
     Down, Start, vars, apiVars

(* A response that is recorded has, for every item, the candidates of      *)
(* every query of the item from the package of one version, up to the      *)
(* limit: no timeout, late answer, death of a process, change of the       *)
(* active version, stop or crash leaves a part of one (screenAt,           *)
(* Worker.lookup, lease.Commit).                                           *)
THEOREM RecordsWhole == Spec => []RecordsComplete
<1>1. TypeOK /\ ScreenInv /\ [Next]_vars => ScreenInv'
  BY RuntimeStep, CallStep, HandlerStep, WholeStep DEF ScreenInv
<1>2. ScreenInv => RecordsComplete
  BY WholeIsComplete DEF ScreenInv
<1> QED
  BY <1>1, <1>2, ScreenStart, TypeCorrect, PTL DEF Spec
=============================================================================
