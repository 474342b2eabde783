---------------------------- MODULE ReviewAccess ----------------------------
(***************************************************************************)
(* Who may do what: reviewauth's identity registry, its signed tokens and  *)
(* its security audit, as the review console (reviewconsoleapi) and the    *)
(* guard of the other services (httpauth) use them.                        *)
(*                                                                         *)
(* A process reads its registry when it starts.  A request is              *)
(* authenticated, handled, answered, and only then entered in the audit,   *)
(* under a lock that is a directory; what Append answers is not looked at. *)
(***************************************************************************)
EXTENDS Naturals, Sequences, SequencesExt, FiniteSets, TLC

CONSTANTS Tenants,        \* what tokens are asked for
          Registries,     \* versions of the identity registry, in the order in which they are deployed
          Routes,         \* [policy, need, tenant]: need is a permission, or "" for none
          MaxTTL, MaxClock, MaxTokens, MaxRequests, MaxRunning, MaxStops, Skew

VARIABLES registry,   \* the version that the running process has read
          clock,
          tokens,     \* claims that were signed
          run,        \* the requests that are being handled
          events,     \* the audit: each event carries the sequence of events it follows
          locked,
          served,     \* what was allowed: [claims, route, registry, at]
          owed,       \* requests to the console that were answered
          sent, stops

vars == <<registry, clock, tokens, run, events, locked, served, owed, sent, stops>>

---------------------------------------------------------------------------
(* The registry                                                            *)

VerifyRegistry(r) ==
    /\ DOMAIN r.roles # {} /\ DOMAIN r.users # {}
    /\ \A x \in DOMAIN r.roles : r.roles[x] # {}
    /\ \A u \in DOMAIN r.users :
          /\ r.users[u].epoch > 0 /\ DOMAIN r.users[u].bindings # {}
          /\ \A t \in DOMAIN r.users[u].bindings : r.users[u].bindings[t] # {} /\ r.users[u].bindings[t] \subseteq DOMAIN r.roles

Reg == Registries[registry]

RolesFor(r, u, tenant) ==
    UNION {r.users[u].bindings[t] : t \in DOMAIN r.users[u].bindings \cap {tenant, "*"}}

Permissions(r, roles) == UNION {r.roles[x] : x \in roles \cap DOMAIN r.roles}

resourcePermissions == ("case.*" :> {"case.read", "case.create", "case.assign_self", "case.assign_any"}) @@ ("decision.*" :> {"decision.approve", "decision.propose"})

PermissionAllowed(granted, need) ==
    \/ need \in granted \/ "*" \in granted
    \/ \E g \in granted \cap DOMAIN resourcePermissions : need \in resourcePermissions[g]

---------------------------------------------------------------------------
(* Tokens                                                                  *)

Issue(u, tenant, ttl) ==
    /\ Cardinality(tokens) < MaxTokens
    /\ u \in DOMAIN Reg.users /\ Reg.users[u].active
    /\ tenant # "" /\ RolesFor(Reg, u, tenant) # {}
    /\ ttl \in 1..MaxTTL
    /\ tokens' = tokens \cup {[user |-> u, tenant |-> tenant, roles |-> RolesFor(Reg, u, tenant), iat |-> clock, exp |-> clock + ttl,
                               registry |-> registry, epoch |-> Reg.users[u].epoch]}
    /\ UNCHANGED <<registry, clock, run, events, locked, served, owed, sent, stops>>

\* the claims are believed until they expire
Parse_Signed(c) == c \in tokens /\ clock < c.exp

Parse(c) ==
    /\ c \in tokens
    /\ c.registry = registry
    /\ clock + Skew >= c.iat /\ clock < c.exp /\ c.exp - c.iat <= MaxTTL
    /\ c.user \in DOMAIN Reg.users /\ Reg.users[c.user].active
    /\ Reg.users[c.user].epoch = c.epoch
    /\ RolesFor(Reg, c.user, c.tenant) = c.roles

\* tenantctx.Resolve: the guard binds a concrete tenant
Resolve(c) == c.tenant \notin {"", "*"}

---------------------------------------------------------------------------
(* Requests                                                                *)

Ended(h) == RemoveAt(run, h)

\* sec of the console, Wrap of the guard: 401 without valid claims; the console audits the denial first,
\* the services behind the guard are started without an audit
Authenticate(c, route) ==
    LET ok == Parse(c) /\ (route.policy = "guard" => Resolve(c)) IN
    /\ sent < MaxRequests /\ Len(run) < MaxRunning
    /\ sent' = sent + 1
    /\ run' = IF ~ok /\ route.policy = "guard" THEN run ELSE Append(run, [id |-> sent', claims |-> c, route |-> route, outcome |-> IF ok THEN "allowed" ELSE "denied",
                           at |-> IF ok THEN "handle" ELSE "lock", todo |-> <<>>])
    /\ UNCHANGED <<registry, clock, tokens, events, locked, served, owed, stops>>

tenantOK(c, t) == c.tenant \in {t, "*"}

\* what a caller is told of its own claims asks for no permission and touches no tenant's object (me)
Own(route) == route.policy = "console" /\ route.need = ""

\* permit, then the object's tenant; a wildcard token creates nothing; the guard's services compare the bound tenant
Permitted(c, route) ==
    IF route.policy = "guard" THEN c.tenant = route.tenant
    ELSE \/ Own(route)
         \/ /\ PermissionAllowed(Permissions(Reg, c.roles), route.need)
            /\ tenantOK(c, route.tenant)
            /\ route.need = "case.create" => c.tenant # "*"

\* the handler runs and answers
Handle(h) ==
    LET r == run[h]
        ok == Permitted(r.claims, r.route)
    IN  /\ r.at = "handle"
        /\ served' = IF ok THEN served \cup {[claims |-> r.claims, route |-> r.route, registry |-> registry]} ELSE served
        /\ owed' = IF r.route.policy = "guard" THEN owed ELSE owed \cup {r.id}
        /\ run' = IF r.route.policy = "guard" THEN Ended(h)
                  ELSE [run EXCEPT ![h].at = "lock", ![h].outcome = IF ok THEN "allowed" ELSE "denied"]
        /\ UNCHANGED <<registry, clock, tokens, events, locked, sent, stops>>

---------------------------------------------------------------------------
(* The audit                                                               *)

\* the events are counted and the last one is read
withLock(h) ==
    /\ run[h].at = "lock" /\ ~locked
    /\ locked' = TRUE
    /\ run' = [run EXCEPT ![h].at = "append", ![h].todo = events]
    /\ UNCHANGED <<registry, clock, tokens, events, served, owed, sent, stops>>

\* the next number, after the last event's hash; a file of that number is replaced
AppendEvent(h) ==
    LET r == run[h]
        n == Len(r.todo) + 1
        e == [id |-> r.id, outcome |-> r.outcome, after |-> [i \in 1..Len(r.todo) |-> r.todo[i].id]]
    IN  /\ r.at = "append"
        /\ events' = IF n <= Len(events) THEN [events EXCEPT ![n] = e] ELSE Append(events, e)
        /\ run' = [run EXCEPT ![h].at = "unlock"]
        /\ UNCHANGED <<registry, clock, tokens, locked, served, owed, sent, stops>>

Unlock(h) ==
    /\ run[h].at = "unlock"
    /\ locked' = FALSE
    /\ owed' = owed \cup {run[h].id}
    /\ run' = Ended(h)
    /\ UNCHANGED <<registry, clock, tokens, events, served, sent, stops>>

\* ten seconds have passed: Append fails, and the request has its answer all the same
GiveUp(h) ==
    /\ run[h].at = "lock" /\ locked
    /\ owed' = owed \cup {run[h].id}
    /\ run' = Ended(h)
    /\ UNCHANGED <<registry, clock, tokens, events, locked, served, sent, stops>>

Verify == \A i \in 1..Len(events) : events[i].after = [j \in 1..(i - 1) |-> events[j].id]

---------------------------------------------------------------------------
Tick == /\ clock < MaxClock
        /\ clock' = clock + 1
        /\ UNCHANGED <<registry, tokens, run, events, locked, served, owed, sent, stops>>

\* the process is stopped and started again, perhaps with the next registry
Restart ==
    /\ stops < MaxStops
    /\ stops' = stops + 1
    /\ registry' \in {r \in {registry, registry + 1} : r <= Len(Registries) /\ VerifyRegistry(Registries[r])}
    /\ run' = <<>>
    /\ UNCHANGED <<clock, tokens, events, locked, served, owed, sent>>

RemoveLock ==
    /\ locked /\ run = <<>>
    /\ locked' = FALSE
    /\ UNCHANGED <<registry, clock, tokens, run, events, served, owed, sent, stops>>

Init ==
    /\ registry = 1 /\ VerifyRegistry(Registries[1])
    /\ clock = 0 /\ tokens = {} /\ run = <<>> /\ events = <<>> /\ locked = FALSE
    /\ served = {} /\ owed = {} /\ sent = 0 /\ stops = 0

Next ==
    \/ \E u \in DOMAIN Reg.users, t \in Tenants, ttl \in 1..MaxTTL : Issue(u, t, ttl)
    \/ \E c \in tokens, route \in Routes : Authenticate(c, route)
    \/ \E h \in DOMAIN run : Handle(h) \/ withLock(h) \/ AppendEvent(h) \/ Unlock(h) \/ GiveUp(h)
    \/ Tick \/ Restart \/ RemoveLock

Spec == Init /\ [][Next]_vars

---------------------------------------------------------------------------
(***************************************************************************)
(* Whatever was done was allowed by the registry that the process had read *)
(* when it was done: the user was active, the token was not older than the *)
(* user's current session, and, where more was touched than the caller's   *)
(* own claims, the user was bound to the tenant of it by a role with the   *)
(* permission.  A new registry or a new session epoch ends every token     *)
(* that was issued before it.                                              *)
(***************************************************************************)
ServedIsEntitled ==
    \A s \in served :
        LET r == Registries[s.registry]
            u == r.users[s.claims.user]
        IN  /\ s.claims.user \in DOMAIN r.users /\ u.active /\ u.epoch = s.claims.epoch
            /\ ~Own(s.route) => \E t \in DOMAIN u.bindings :
                  /\ t \in {s.route.tenant, "*"}
                  /\ s.route.policy = "console" => \E x \in u.bindings[t] : PermissionAllowed(r.roles[x], s.route.need)

(***************************************************************************)
(* The security audit is one chain whatever overlaps, times out or stops:  *)
(* no event takes the number of another, and an event tells what came of a *)
(* request that was made, once.                                            *)
(***************************************************************************)
AuditIsOneChain ==
    /\ Verify
    /\ \A i, j \in 1..Len(events) : events[i].id = events[j].id => i = j
    /\ \A i \in 1..Len(events) : events[i].outcome = "allowed" => events[i].id \in owed

(***************************************************************************)
(* Every protected request to the console, including denial, enters the    *)
(* security audit: one that has been answered and is no longer being       *)
(* handled is in it.                                                       *)
(***************************************************************************)
EveryRequestIsAudited ==
    \A id \in owed : (\E h \in DOMAIN run : run[h].id = id) \/ \E i \in 1..Len(events) : events[i].id = id
=============================================================================
