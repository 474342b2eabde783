------------------------- MODULE CatalogRegistries -------------------------
(***************************************************************************)
(* The three registries of catalog governance, each a directory: catalog   *)
(* components, versions and activations (catalogregistry); the mapping of  *)
(* alert lists to components (alertlistmapping); and the candidates,       *)
(* decisions and executions of a provider's refresh (providerrefresh),     *)
(* whose promotions and rollbacks go through the catalog registry.         *)
(*                                                                         *)
(* A store operation takes the directory's lock, loads registry.json, and  *)
(* writes its files one by one, registry.json last; a command is a row of  *)
(* such operations.  Every command may be cut off between two writes, or   *)
(* within one; the operator then removes the lock.                         *)
(***************************************************************************)
EXTENDS RefreshAnalysis, Sequences, SequencesExt

CONSTANTS MaxRunning,
          Modes,      \* [components -> "provider" or "official"]
          Seed,       \* [provider, ref, content, count] of the version that is active at first
          Offered,    \* versions that are registered without a refresh
          Mappings,   \* mapping inputs: [key, action, component, from, to, at]
          Analyses,   \* inputs of analyze: [policy, previous, candidate, renames, component]
          Analyzed,   \* refresh registries to start from: sets of inputs whose candidates are there, and approved if ready
          Torn, Absent, NoVersion,
          MaxStarts, MaxStops, MaxTime

VARIABLES dir,    \* [Dirs -> [lock, doc, files]]: files maps names to contents, doc is registry.json
          cmd,    \* what each running command still has to do
          cut,    \* the operation that the last stop cut off
          starts, stops

vars == <<dir, cmd, cut, starts, stops>>

Dirs == {"catalog", "mapping", "refresh"}
Components == DOMAIN Modes
Times == 1..MaxTime

Put(f, x, y) == [z \in DOMAIN f \cup {x} |-> IF z = x THEN y ELSE f[z]]

---------------------------------------------------------------------------
(* The documents                                                           *)

\* a version's id covers the component and the content, its checksum the time as well
BuildVersion(c, provider, ref, part, at) ==
    [id |-> <<c, part.content>>, component |-> c, provider |-> provider, ref |-> ref, count |-> part.count, at |-> at]

versionOf(doc, id) == CHOOSE v \in doc.versions : v.id = id
findActive(doc, c) == IF c \in DOMAIN doc.active THEN doc.active[c].version ELSE NoVersion
ActiveVersions(doc) ==
    [c \in {d \in DOMAIN doc.active : Modes[d] = "provider"} |-> versionOf(doc, doc.active[c].version)]
wasActivated(doc, c, id) == \E i \in DOMAIN doc.log : doc.log[i].component = c /\ doc.log[i].target = id

\* catalogregistry.ValidateActivation, of the i-th activation, in its place
ValidateActivation(doc, i) ==
    LET a == doc.log[i]
        before == {j \in 1..(i - 1) : doc.log[j].component = a.component}
    IN  /\ a.sequence = i /\ a.epoch = Cardinality(before) + 1
        /\ \E v \in doc.versions : v.id = a.target /\ v.component = a.component
        /\ a.action = "rollback" => a.previous # NoVersion /\ \E j \in before : doc.log[j].target = a.target

\* catalogregistry.ValidateRegistry
ValidateCatalog(doc) ==
    /\ \A v \in doc.versions : v.component \in doc.components /\ v.count >= 1
    /\ \A v, w \in doc.versions : v.id = w.id => v = w
    /\ \A i \in DOMAIN doc.log : ValidateActivation(doc, i)
    /\ \A c \in DOMAIN doc.active : \E i \in DOMAIN doc.log :
          doc.log[i].component = c /\ doc.active[c] = [version |-> doc.log[i].target, activation |-> i, epoch |-> doc.log[i].epoch, at |-> doc.log[i].at]

\* catalogregistry.Verify: every document is in its file as well
VerifyCatalog(d) ==
    /\ ValidateCatalog(d.doc)
    /\ \A c \in d.doc.components : <<"component", c>> \in DOMAIN d.files /\ d.files[<<"component", c>>] = c
    /\ \A v \in d.doc.versions : <<"version", v.id>> \in DOMAIN d.files /\ d.files[<<"version", v.id>>] = v
    /\ \A a \in ToSet(d.doc.log) : <<"activation", a>> \in DOMAIN d.files /\ d.files[<<"activation", a>>] = a
    /\ \A c \in DOMAIN d.doc.active : <<"active", c>> \in DOMAIN d.files /\ d.files[<<"active", c>>] = d.doc.active[c]

\* the version of a list that a new one supersedes: the latest in effect
OfKey(versions, key) == {v \in ToSet(versions) : v.key = key}
Previous(versions, key) == CHOOSE v \in OfKey(versions, key) : \A w \in OfKey(versions, key) : w.from <= v.from

\* alertlistmapping.ValidateVersion, of the i-th version, in its place
ValidateVersion(doc, i, catalog) ==
    LET v == doc.versions[i]
        before == {j \in 1..(i - 1) : doc.versions[j].key = v.key}
        last == doc.versions[Max(before)]
    IN  /\ v.sequence = i
        /\ \E k \in doc.keys : k.key = v.key
        /\ IF before = {} THEN v.supersedes = 0 ELSE v.from > last.from /\ v.supersedes = last.sequence
        /\ v.action = "bind" => v.component \in catalog.components

\* alertlistmapping.ValidateRegistry and Verify
VerifyMapping(d, catalog) ==
    /\ d.doc # Absent
    /\ \A i \in DOMAIN d.doc.versions :
          ValidateVersion(d.doc, i, catalog) /\ <<"mapping version", d.doc.versions[i]>> \in DOMAIN d.files
    /\ \A k \in d.doc.keys : <<"mapping", k.key>> \in DOMAIN d.files /\ d.files[<<"mapping", k.key>>] = k

\* Resolve: what an alert's list name stands for at a time; components are never retired in this registry
Effective(doc, key, at) == {v \in ToSet(doc.versions) : v.key = key /\ v.from <= at}
Selected(doc, key, at) == CHOOSE v \in Effective(doc, key, at) : \A w \in Effective(doc, key, at) : w.from <= v.from
Resolve(doc, catalog, key, at) ==
    LET blocked(status) == [status |-> status, component |-> Absent, version |-> NoVersion]
        v == Selected(doc, key, at)
    IN  IF \A k \in doc.keys : k.key # key THEN blocked("unmapped")
        ELSE IF Effective(doc, key, at) = {} THEN blocked("not_effective")
        ELSE IF at >= v.to THEN blocked("expired")
        ELSE IF v.action = "retire" THEN blocked("retired")
        ELSE [status |-> IF v.component \notin catalog.components THEN "component_missing"
                         ELSE IF findActive(catalog, v.component) = NoVersion THEN "catalog_not_active" ELSE "resolved",
              component |-> v.component, version |-> findActive(catalog, v.component)]

\* providerrefresh.ValidateCandidate, ValidateRegistry and Verify
ValidateCandidate(candidate, catalog) ==
    /\ candidate.component \in catalog.components /\ Modes[candidate.component] = "provider"
    /\ (candidate.status = "ready") <=> (candidate.violations = {})

VerifyRefresh(d, catalog) ==
    /\ \A k \in d.doc.candidates : ValidateCandidate(k, catalog) /\ <<"candidate", k>> \in DOMAIN d.files
    /\ \A i \in DOMAIN d.doc.log :
          /\ d.doc.log[i].sequence = i
          /\ d.doc.log[i].kind # "rollback" => d.doc.log[i].candidate \in d.doc.candidates
          /\ <<"event", d.doc.log[i]>> \in DOMAIN d.files

---------------------------------------------------------------------------
(* Store operations: the writes that an operation, given what it loads,    *)
(* makes; [ok |-> FALSE] when it is refused                                *)

No == [ok |-> FALSE, writes |-> <<>>, made |-> <<>>]
Yes(writes, made) == [ok |-> TRUE, writes |-> writes, made |-> made]
Once(name, body) == [name |-> name, body |-> body, once |-> TRUE]
Replace(name, body) == [name |-> name, body |-> body, once |-> FALSE]
Registry(doc) == Replace(<<"registry.json">>, doc)

NoMappings == [keys |-> {}, versions |-> <<>>]
Initialize(d) == IF dir[d].doc = Absent THEN Yes(<<Registry(NoMappings)>>, <<>>) ELSE Yes(<<>>, <<>>)

RegisterComponent(c) ==
    LET doc == dir["catalog"].doc IN
    IF c \in doc.components THEN Yes(<<>>, <<>>)
    ELSE Yes(<<Once(<<"component", c>>, c), Registry([doc EXCEPT !.components = @ \cup {c}])>>, <<>>)

RegisterVersion(v) ==
    LET doc == dir["catalog"].doc
        same == {w \in doc.versions : w.id = v.id}
    IN  IF ~(v.component \in doc.components /\ v.count >= 1) THEN No
        ELSE IF same # {} THEN (IF v \in same THEN Yes(<<>>, <<>>) ELSE No)
        ELSE Yes(<<Once(<<"version", v.id>>, v), Registry([doc EXCEPT !.versions = @ \cup {v}])>>, <<>>)

\* the compare-and-set precondition is not looked at
Activatable_NoExpected(doc, c, target, action, expected) ==
    /\ c \in doc.components
    /\ \E v \in doc.versions : v.id = target /\ v.component = c
    /\ findActive(doc, c) # target
    /\ action = "rollback" => wasActivated(doc, c, target)

Activatable(doc, c, target, action, expected) ==
    /\ c \in doc.components
    /\ \E v \in doc.versions : v.id = target /\ v.component = c
    /\ expected # NoVersion => findActive(doc, c) = expected
    /\ findActive(doc, c) # target
    /\ action = "rollback" => wasActivated(doc, c, target)

ActivationWrites(a, c, pointer, doc) ==
    <<Once(<<"activation", a>>, a), Replace(<<"active", c>>, pointer), Registry(doc)>>

\* ValidateRegistry, called before registry.json is written, never refuses this document: see Recoverable
Activate(c, target, action, expected, at) ==
    LET doc == dir["catalog"].doc
        a == [sequence |-> Len(doc.log) + 1, component |-> c, action |-> action, target |-> target, previous |-> findActive(doc, c),
              epoch |-> IF c \in DOMAIN doc.active THEN doc.active[c].epoch + 1 ELSE 1, at |-> at]
        pointer == [version |-> target, activation |-> a.sequence, epoch |-> a.epoch, at |-> at]
        next == [doc EXCEPT !.log = Append(@, a), !.active = Put(@, c, pointer)]
    IN  IF Activatable(doc, c, target, action, expected)
          THEN Yes(ActivationWrites(a, c, pointer, next), a) ELSE No

\* Register: the key's file is there before its first version
Register(input) ==
    LET doc == dir["mapping"].doc
        new == OfKey(doc.versions, input.key) = {}
        previous == Previous(doc.versions, input.key)
        v == [key |-> input.key, action |-> input.action, component |-> input.component, from |-> input.from, to |-> input.to, at |-> input.at,
              sequence |-> Len(doc.versions) + 1, supersedes |-> IF new THEN 0 ELSE previous.sequence]
        same(w) == [w EXCEPT !.sequence = 0, !.supersedes = 0] = [v EXCEPT !.sequence = 0, !.supersedes = 0]
        key == [key |-> input.key, at |-> input.at]
        next == [keys |-> IF new THEN doc.keys \cup {key} ELSE doc.keys, versions |-> Append(doc.versions, v)]
    IN  IF doc = Absent \/ ~VerifyMapping(dir["mapping"], dir["catalog"].doc) THEN No
        ELSE IF ~new /\ input.from <= previous.from THEN (IF same(previous) THEN Yes(<<>>, <<>>) ELSE No)
        ELSE IF input.action = "bind" /\ input.component \notin dir["catalog"].doc.components THEN No
        ELSE Yes((IF new THEN <<Once(<<"mapping", input.key>>, key)>> ELSE <<>>)
                    \o <<Once(<<"mapping version", v>>, v), Registry(next)>>, <<>>)

AddCandidate(candidate) ==
    LET doc == dir["refresh"].doc IN
    IF ~ValidateCandidate(candidate, dir["catalog"].doc) THEN No
    ELSE IF candidate \in doc.candidates THEN Yes(<<>>, <<>>)
    ELSE Yes(<<Once(<<"candidate", candidate>>, candidate), Registry([doc EXCEPT !.candidates = @ \cup {candidate}])>>, <<>>)

\* a decision or an execution: both extend the one chain
Extend(event) ==
    LET doc == dir["refresh"].doc
        e == Put(event, "sequence", Len(doc.log) + 1)
    IN  Yes(<<Once(<<"event", e>>, e), Registry([doc EXCEPT !.log = Append(@, e)])>>, <<>>)

Decide(candidate, action, at) ==
    IF candidate \in dir["refresh"].doc.candidates /\ (action = "approve" => candidate.status = "ready")
      THEN Extend([kind |-> action, candidate |-> candidate, at |-> at]) ELSE No

recordExecution(kind, candidate, decision, activation, at) ==
    Extend([kind |-> kind, candidate |-> candidate, decision |-> decision, activation |-> activation, at |-> at])

latestDecision(doc, candidate) ==
    LET mine == {i \in DOMAIN doc.log : doc.log[i].kind \in {"approve", "reject"} /\ doc.log[i].candidate = candidate} IN
    IF mine = {} THEN 0 ELSE CHOOSE i \in mine : \A j \in mine : j <= i
alreadyPromoted(doc, candidate) == \E i \in DOMAIN doc.log : doc.log[i].kind = "promote" /\ doc.log[i].candidate = candidate

DirOf(job) == CASE job.op \in {"component", "version", "activate"} -> "catalog"
                [] job.op \in {"init", "mapping"} -> "mapping"
                [] OTHER -> "refresh"

Operation(job, made) ==
    CASE job.op = "init" -> Initialize("mapping")
      [] job.op = "component" -> RegisterComponent(job.c)
      [] job.op = "version" -> RegisterVersion(job.v)
      [] job.op = "activate" -> Activate(job.c, job.target, job.action, job.expected, job.time)
      [] job.op = "mapping" -> Register(job.input)
      [] job.op = "candidate" -> AddCandidate(job.k)
      [] job.op = "decide" -> Decide(job.k, job.action, job.time)
      [] job.op = "execute" -> recordExecution(job.action, job.k, job.decision, made, job.time)

---------------------------------------------------------------------------
(* Commands                                                                *)

Loaded == VerifyCatalog(dir["catalog"])

\* the bounds of the model
MayStart == Len(cmd) < MaxRunning /\ starts < MaxStarts

Start(jobs) ==
    /\ starts' = starts + 1
    /\ cmd' = Append(cmd, [at |-> "lock", jobs |-> jobs, todo |-> <<>>, made |-> <<>>])
    /\ UNCHANGED <<dir, cut, stops>>

\* the time that commands are given, but for the analyses and the promotions
Now == 1

\* catalog-registry
ActivateJob(c, target, action, expected, at) ==
    [op |-> "activate", c |-> c, target |-> target, action |-> action, expected |-> expected, time |-> at]

ComponentJobs == {[op |-> "component", c |-> d] : d \in Components}
VersionJobs == {[op |-> "version", v |-> v] : v \in Offered}
MappingJobs == {[op |-> "mapping", input |-> input] : input \in Mappings}

StartCatalog ==
    \/ \E job \in ComponentJobs : Start(<<job>>)
    \/ \E job \in VersionJobs : Loaded /\ Start(<<job>>)
    \/ \E v \in dir["catalog"].doc.versions, action \in {"activate", "rollback"} :
          Start(<<ActivateJob(v.component, v.id, action, NoVersion, Now)>>)

\* alert-list-mapping
StartMapping ==
    \/ Start(<<[op |-> "init"]>>)
    \/ \E job \in MappingJobs : Loaded /\ Start(<<job>>)

Candidate(x, active, mappings, at) == Analyze(x.policy, x.previous, x.candidate, x.renames, x.component, active, mappings, at)

\* provider-refresh analyze: the catalog and the mappings are loaded, the candidate is added
StartAnalyze ==
    \E x \in Analyses, at \in Times :
        LET k == Candidate(x, ActiveVersions(dir["catalog"].doc), ToSet(dir["mapping"].doc.versions), at)
        IN  /\ Loaded /\ dir["mapping"].doc # Absent /\ VerifyMapping(dir["mapping"], dir["catalog"].doc)
            /\ ~k.refused
            /\ Start(<<[op |-> "candidate", k |-> k]>>)

StartDecide ==
    \E k \in dir["refresh"].doc.candidates, action \in {"approve", "reject"} :
        Loaded /\ Start(<<[op |-> "decide", k |-> k, action |-> action, time |-> 1]>>)

Promotable(doc, k) ==
    /\ k.status = "ready"
    /\ latestDecision(doc, k) # 0 /\ doc.log[latestDecision(doc, k)].kind = "approve"
    /\ ~alreadyPromoted(doc, k)

\* Promote: everything is loaded and checked first, then three operations on two directories
StartPromote ==
    LET doc == dir["refresh"].doc IN
    \E k \in doc.candidates, at \in Times :
        LET v == BuildVersion(k.component, k.provider, k.ref, k.part, at) IN
        /\ Loaded /\ VerifyRefresh(dir["refresh"], dir["catalog"].doc)
        /\ Promotable(doc, k)
        /\ findActive(dir["catalog"].doc, k.component) = k.expected /\ k.part.count >= 1
        /\ Start(<<[op |-> "version", v |-> v],
                      ActivateJob(k.component, v.id, "activate", k.expected, at),
                      [op |-> "execute", action |-> "promote", k |-> k, decision |-> latestDecision(doc, k), time |-> at]>>)

StartRollback ==
    LET doc == dir["catalog"].doc IN
    \E v \in doc.versions :
        /\ Loaded /\ v.component \in DOMAIN doc.active
        /\ Start(<<ActivateJob(v.component, v.id, "rollback", findActive(doc, v.component), Now),
                      [op |-> "execute", action |-> "rollback", k |-> <<>>, decision |-> 0, time |-> Now]>>)

Ended(c) == RemoveAt(cmd, c)

\* withLock; a directory that is locked, or an operation that is refused, ends the command
LockDir_NoLock(c) ==
    LET job == Head(cmd[c].jobs)
        o == Operation(job, cmd[c].made)
    IN  /\ cmd[c].at = "lock"
        /\ cmd' = IF o.ok THEN [cmd EXCEPT ![c].at = "write", ![c].todo = o.writes, ![c].made = o.made] ELSE Ended(c)
        /\ UNCHANGED <<dir, cut, starts, stops>>

LockDir(c) ==
    LET job == Head(cmd[c].jobs)
        d == DirOf(job)
        o == Operation(job, cmd[c].made)
    IN  /\ cmd[c].at = "lock"
        /\ IF ~dir[d].lock /\ o.ok
             THEN /\ dir' = [dir EXCEPT ![d].lock = TRUE]
                  /\ cmd' = [cmd EXCEPT ![c].at = "write", ![c].todo = o.writes, ![c].made = o.made]
             ELSE cmd' = Ended(c) /\ UNCHANGED dir
        /\ UNCHANGED <<cut, starts, stops>>

\* writeImmutable and writeAtomic
Written(d, w) == IF w.name = <<"registry.json">> THEN [d EXCEPT !.doc = w.body] ELSE [d EXCEPT !.files = Put(@, w.name, w.body)]
Collides(d, w) == w.once /\ w.name \in DOMAIN d.files /\ d.files[w.name] # w.body

WriteNext(c) ==
    LET d == DirOf(Head(cmd[c].jobs))
        w == Head(cmd[c].todo)
    IN  /\ cmd[c].at = "write" /\ cmd[c].todo # <<>>
        /\ IF Collides(dir[d], w)
             THEN dir' = [dir EXCEPT ![d].lock = FALSE] /\ cmd' = Ended(c)
             ELSE dir' = [dir EXCEPT ![d] = Written(@, w)] /\ cmd' = [cmd EXCEPT ![c].todo = Tail(@)]
        /\ UNCHANGED <<cut, starts, stops>>

Unlock(c) ==
    LET d == DirOf(Head(cmd[c].jobs))
        rest == Tail(cmd[c].jobs)
    IN  /\ cmd[c].at = "write" /\ cmd[c].todo = <<>>
        /\ dir' = [dir EXCEPT ![d].lock = FALSE]
        /\ cmd' = IF rest = <<>> THEN Ended(c) ELSE [cmd EXCEPT ![c].at = "lock", ![c].jobs = rest]
        /\ UNCHANGED <<cut, starts, stops>>

\* a stop; one within a file that is written in place leaves it torn
Stop(c) ==
    /\ stops < MaxStops
    /\ stops' = stops + 1
    /\ cut' = Head(cmd[c].jobs)
    /\ cmd' = Ended(c)
    /\ \/ UNCHANGED dir
       \/ LET d == DirOf(Head(cmd[c].jobs))
              w == Head(cmd[c].todo)
          IN  /\ cmd[c].todo # <<>> /\ w.once /\ d # "mapping" /\ w.name \notin DOMAIN dir[d].files
              /\ dir' = [dir EXCEPT ![d] = Written(@, [w EXCEPT !.body = Torn])]
    /\ UNCHANGED starts

\* the operator removes the lock of a command that no longer runs
RemoveLock(d) ==
    /\ dir[d].lock /\ cmd = <<>>
    /\ dir' = [dir EXCEPT ![d].lock = FALSE]
    /\ UNCHANGED <<cmd, cut, starts, stops>>

\* an identity is a digest of the component and the content, never empty; what is there at first, its analysis accepted
ASSUME CatalogAssumption ==
    LET active == [c \in {Seed.component} |-> BuildVersion(c, Seed.provider, Seed.ref, Seed.part, 1)] IN
    /\ MaxTime \in Nat \ {0} /\ Absent \notin Components
    /\ Seed.component \in Components /\ Seed.part.count >= 1
    /\ <<Seed.component, Seed.part.content>> # NoVersion
    /\ \A v \in Offered : v.id # NoVersion
    /\ \A x \in Analyses : \A r \in DOMAIN x.candidate.parts : <<x.component, x.candidate.parts[r].content>> # NoVersion
    /\ \A seeded \in Analyzed :
          /\ IsFiniteSet(seeded) /\ seeded \subseteq Analyses /\ \A x \in seeded : ~Candidate(x, active, {}, Now).refused
          /\ seeded # {} => Modes[Seed.component] = "provider"
    /\ \A input \in Mappings : input.action \in {"bind", "retire"} /\ input.from \in Int /\ input.to \in Int

Init ==
    LET c == Seed.component
        v == BuildVersion(c, Seed.provider, Seed.ref, Seed.part, 1)
        a == [sequence |-> 1, component |-> c, action |-> "activate", target |-> v.id, previous |-> NoVersion, epoch |-> 1, at |-> 1]
        pointer == [version |-> v.id, activation |-> 1, epoch |-> 1, at |-> 1]
    IN  /\ \E seeded \in Analyzed, mappings \in {Absent, NoMappings} :
             LET ks == {Candidate(x, [d \in {c} |-> v], {}, Now) : x \in seeded}
                 approved == SetToSeq({k \in ks : k.status = "ready"})
                 log == [i \in DOMAIN approved |-> [kind |-> "approve", candidate |-> approved[i], at |-> 1, sequence |-> i]]
             IN  /\ seeded # {} => mappings # Absent
                 /\ dir = [catalog |-> [lock |-> FALSE,
                                        doc |-> [components |-> {c}, versions |-> {v}, log |-> <<a>>, active |-> Put(<<>>, c, pointer)],
                                        files |-> Put(Put(Put(Put(<<>>, <<"component", c>>, c), <<"version", v.id>>, v), <<"activation", a>>, a), <<"active", c>>, pointer)],
                           mapping |-> [lock |-> FALSE, doc |-> mappings, files |-> <<>>],
                           refresh |-> [lock |-> FALSE, doc |-> [candidates |-> ks, log |-> log],
                                        files |-> [n \in {<<"candidate", k>> : k \in ks} \cup {<<"event", e>> : e \in ToSet(log)} |-> n[2]]]]
        /\ cmd = <<>> /\ cut = [op |-> "none"] /\ starts = 0 /\ stops = 0

Next ==
    \/ /\ MayStart
       /\ StartCatalog \/ StartMapping \/ StartAnalyze \/ StartDecide \/ StartPromote \/ StartRollback
    \/ \E c \in DOMAIN cmd : \/ LockDir(c) \/ WriteNext(c) \/ Unlock(c) \/ Stop(c)
    \/ \E d \in Dirs : RemoveLock(d)

Spec == Init /\ [][Next]_vars

---------------------------------------------------------------------------
Quiet == cmd = <<>>

\* the directory after the three writes of an activation
After(d, writes) == Written(Written(Written(d, writes[1]), writes[2]), writes[3])

\* the operation that was cut off, run again at some time, is accepted and leaves a registry that loads
Heals == cut.op = "activate" /\ \E at \in Times :
            LET o == Activate(cut.c, cut.target, cut.action, cut.expected, at) IN
            /\ o.ok /\ \A i \in DOMAIN o.writes : ~Collides(dir["catalog"], o.writes[i])
            /\ VerifyCatalog(After(dir["catalog"], o.writes))

(***************************************************************************)
(* When no command runs, the catalog registry loads, or a stop between its *)
(* pointer and its registry.json is repaired by running the activation     *)
(* that was cut off again: one stop never leaves a registry that only      *)
(* editing its files, or activating something else, would repair; two may  *)
(* leave two pointers to repair.  The two registries that depend on it     *)
(* load at any time.                                                       *)
(***************************************************************************)
Recoverable ==
    /\ Quiet => Loaded \/ stops > 1 \/ (stops = 1 /\ Heals)
    /\ VerifyRefresh(dir["refresh"], dir["catalog"].doc)
    /\ dir["mapping"].doc # Absent => VerifyMapping(dir["mapping"], dir["catalog"].doc)

(***************************************************************************)
(* What the analysis of a refresh counts as mapped to a component, at any  *)
(* time, are the lists that screening resolves to it then: the two read    *)
(* the same timeline with code of their own (activeMappingCount, Resolve). *)
(***************************************************************************)
MappedIsResolved ==
    LET doc == dir["mapping"].doc IN
    doc # Absent => \A c \in Components, at \in 0..(MaxTime + 1) :
        activeMappingCount(ToSet(doc.versions), c, at)
            = Cardinality({k \in {input.key : input \in Mappings} : Resolve(doc, dir["catalog"].doc, k, at).component = c})

(***************************************************************************)
(* History is never rewritten: whatever commands overlap, no activation,   *)
(* version, decision, execution or mapping is lost by another command's    *)
(* registry.json.                                                          *)
(***************************************************************************)
HistoryKept == [][
    /\ IsPrefix(dir["catalog"].doc.log, dir'["catalog"].doc.log)
    /\ dir["catalog"].doc.versions \subseteq dir'["catalog"].doc.versions
    /\ IsPrefix(dir["refresh"].doc.log, dir'["refresh"].doc.log)
    /\ dir["refresh"].doc.candidates \subseteq dir'["refresh"].doc.candidates
    /\ dir["mapping"].doc # Absent => IsPrefix(dir["mapping"].doc.versions, dir'["mapping"].doc.versions)]_vars

(***************************************************************************)
(* Registering, activating, mapping, analysing and promoting never lose    *)
(* what a registry of catalog governance has recorded: logs grow at their  *)
(* end only, versions and candidates stay; what one stop leaves behind can *)
(* be loaded, or repaired by the activation that was cut off; and the      *)
(* analysis counts as mapped what screening resolves.                      *)
(***************************************************************************)
RegistriesKept == [](Recoverable /\ MappedIsResolved) /\ HistoryKept

(***************************************************************************)
(* An execution that the refresh registry records is an activation of the  *)
(* catalog's own log; a promotion's is of the candidate's content, in the  *)
(* place of the very version that was analyzed, and rests on an approval   *)
(* recorded before it, although Promote checks all this before it takes    *)
(* the first of three locks.                                               *)
(***************************************************************************)
ExecutedAsApproved ==
    LET log == dir["refresh"].doc.log IN
    \A i \in DOMAIN log : log[i].kind \in {"promote", "rollback"} =>
        LET e == log[i]
            a == e.activation
        IN  /\ a.sequence \in DOMAIN dir["catalog"].doc.log /\ dir["catalog"].doc.log[a.sequence] = a
            /\ e.kind = "promote" =>
                  /\ e.decision < i /\ log[e.decision].kind = "approve" /\ log[e.decision].candidate = e.candidate
                  /\ e.candidate.status = "ready"
                  /\ a.previous = e.candidate.expected
                  /\ a.target = <<e.candidate.component, e.candidate.part.content>>
=============================================================================
