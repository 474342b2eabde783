--------------------------- MODULE LedgerReplica ---------------------------
(***************************************************************************)
(* The screening ledger beside its PostgreSQL mirror: replication (Sync),  *)
(* anchors, retention (PurgeExpired) and the verification that joins them, *)
(* as the commands of cmd/screening-ledger run them against a directory    *)
(* that the screening API keeps appending to.                              *)
(*                                                                         *)
(* The local chain is the log that LedgerStore implements: an Append is    *)
(* the write of its snapshots and then of its event.  A command is a       *)
(* process of its own; between two of its steps the others run, and it may *)
(* be cut off.  Every step on the server is one transaction.  VerifyPolicy *)
(* holds the Store's mutex, and the reads of VerifyAnchored are one step.  *)
(***************************************************************************)
EXTENDS Provisioning, Sequences, Integers, Functions

CONSTANTS Events,      \* decisions the API may record
          Foreign,     \* events of another ledger that the same schema may hold
          Digests,       \* snapshot digests
          Refs,        \* [Events \cup Foreign -> SUBSET Digests]: request and response snapshot
          Expires,     \* [Events \cup Foreign -> Nat]: ExpiresAt
          KeyOf,       \* [Events -> idempotency key]
          Procs,       \* concurrent runs of the command line
          Worlds,      \* [catalog, policy: [tenancy, allowUnanchored, minAnchor], holds, rows, load]
          MaxClock, MaxAudit, MaxCuts

VARIABLES chain,       \* events/ in sequence order
          pend,        \* the event whose snapshots are written and which is not
          snap,        \* snapshots/: [Digests -> {"none", "whole", "purged"}]
          marked,      \* replication/: events marked as replicated
          trail,       \* audit/: [shas, by]; shas: what a purge_expired entry names
          mirror,      \* rows of screening_ledger_event
          mirrorSnap,  \* rows of screening_ledger_snapshot
          mirrorAudit, \* sequences of screening_ledger_audit
          tomb,        \* screening_ledger_retention_tombstone: [at, by]; at = 0: no row
          anchors,     \* screening_ledger_anchor: [seq, auditSeq, at]
          clock,       \* the server's clock
          cmd,         \* [Procs -> the command a process runs]
          cuts,
          catalog,     \* the state of the database catalog
          policy,      \* the signed policy
          holds,       \* holds/: events under a legal hold
          load         \* the decisions the API makes

files == <<chain, pend, snap, marked, trail>>
server == <<mirror, mirrorSnap, mirrorAudit, tomb, anchors>>
fixed == <<policy, holds, load>>
replicaVars == <<files, server, clock, cmd, cuts, catalog, fixed>>

Idle == [op |-> "idle"]
ListEvents == Range(chain)
RefsOf(es, s) == {e \in es : s \in Refs[e]}
MaxExpires(es) == IF es = {} THEN 0 ELSE Max({Expires[e] : e \in es})

\* computeSnapshotObligations: how many events promise a snapshot, and until when
Obligation(es, s) == [count |-> Cardinality(RefsOf(es, s)), max |-> MaxExpires(RefsOf(es, s))]

\* sets are finite; the mirror starts without an event of this ledger, in the declared catalog or in one that
\* differs in a fact, and only events of this ledger are under a hold or recorded by its API
ASSUME ReplicaAssumption ==
    /\ IsFiniteSet(Events \cup Foreign) /\ Events \cap Foreign = {}
    /\ Refs \in [Events \cup Foreign -> SUBSET Digests] /\ Expires \in [Events \cup Foreign -> Nat]
    /\ \A w \in Worlds : /\ w.catalog \in OneFactOff \cup {Declared}
                          /\ w.holds \subseteq Events /\ w.load \subseteq Events /\ w.rows \subseteq Foreign

ReplicaInit ==
    /\ chain = <<>> /\ pend = {} /\ marked = {} /\ trail = <<>>
    /\ snap = [s \in Digests |-> "none"]
    /\ \E w \in Worlds : /\ catalog = w.catalog /\ policy = w.policy /\ holds = w.holds
                         /\ mirror = w.rows /\ load = w.load
    /\ mirrorSnap = [s \in Digests |-> IF RefsOf(mirror, s) = {} THEN "none" ELSE "whole"]
    /\ mirrorAudit = {} /\ anchors = {}
    /\ tomb = [s \in Digests |-> [at |-> 0, by |-> "nobody"]]
    /\ clock = 1 /\ cuts = 0
    /\ cmd = [p \in Procs |-> Idle]

---------------------------------------------------------------------------
(* The API appends.                                                        *)

\* Append holds the Store's mutex; writeSnapshot leaves an envelope that exists, a purged one too
AppendSnapshots(e) ==
    /\ e \in load \ ListEvents /\ pend = {}
    /\ pend' = {e}
    /\ snap' = [s \in Digests |-> IF s \in Refs[e] /\ snap[s] = "none" THEN "whole" ELSE snap[s]]
    /\ UNCHANGED <<chain, marked, trail, server, clock, cmd, cuts, catalog, fixed>>

AppendChain(e) ==
    /\ e \in pend
    /\ pend' = {}
    /\ chain' = Append(chain, e)
    /\ UNCHANGED <<snap, marked, trail, server, clock, cmd, cuts, catalog, fixed>>

AppendTrail(shas, by) ==
    /\ Len(trail) < MaxAudit
    /\ trail' = Append(trail, [shas |-> shas, by |-> by])

---------------------------------------------------------------------------
(* VerifyAnchored                                                          *)

LatestAnchor == CHOOSE a \in anchors : \A b \in anchors : b.seq <= a.seq
\* the preceding anchor looked up with <= for <
PreviousAnchors_Inclusive == {a \in anchors : a.seq <= LatestAnchor.seq}
PreviousAnchors == {a \in anchors : a.seq < LatestAnchor.seq}
PreviousAnchoredAt == IF PreviousAnchors = {} THEN 0
                      ELSE (CHOOSE a \in PreviousAnchors : \A b \in PreviousAnchors : b.seq <= a.seq).at

\* eventAtSequence and auditEntryAtSequence find no entry at sequence 0
AnchorMatches(a) ==
    /\ a.seq <= Len(chain) /\ (a.seq = Len(chain) \/ a.seq > 0)
    /\ a.auditSeq <= Len(trail) /\ (a.auditSeq = Len(trail) \/ a.auditSeq > 0)

\* attestingAuditEntries: the first purge_expired entry that names the snapshot
Attesting(s) == {i \in DOMAIN trail : s \in trail[i].shas}

\* purgeAttributionMismatch, with the bounds of the anchor that is verified
AttributionOK(s, i, lower) == /\ tomb[s].by = trail[i].by
                              /\ tomb[s].at <= LatestAnchor.at
                              /\ tomb[s].at > lower

\* ShortfallExplainedByUnreplicatedEvents
Explained(s) ==
    LET missing == RefsOf(ListEvents, s) \ mirror IN
    /\ missing # {} /\ missing \cap marked = {}
    /\ Cardinality(missing) = Cardinality(RefsOf(ListEvents, s)) - Cardinality(RefsOf(mirror \cap Events, s))

\* forSnapshot: the promises of the chain against those of this ledger's rows
Floor(s) == Max({Obligation(ListEvents, s).max, PreviousAnchoredAt})
PromisesVerdict(s) ==
    LET own == Obligation(ListEvents, s)
        theirs == Obligation(mirror \cap Events, s)
    IN  CASE theirs.count = 0 -> "refused"
          [] theirs.count # own.count -> IF Explained(s) THEN "deferrable" ELSE "refused"
          [] theirs.max # own.max -> "refused"
          [] OTHER -> "verified"

\* adjudicatePurgeClaims for one snapshot, marked locally (forward) or with a tombstone (reverse)
AdjudicatePurge(s) ==
    IF Attesting(s) = {} THEN IF snap[s] # "purged" /\ policy.tenancy = "shared" THEN "verified" ELSE "refused"
    ELSE IF Min(Attesting(s)) > LatestAnchor.auditSeq \/ tomb[s].at = 0 THEN "refused"
    ELSE IF PromisesVerdict(s) # "verified" THEN PromisesVerdict(s)
    ELSE IF AttributionOK(s, Min(Attesting(s)), Floor(s)) THEN "verified" ELSE "refused"

Claims == {s \in Digests : RefsOf(ListEvents, s) # {} /\ (snap[s] = "purged" \/ tomb[s].at # 0)}

AbsentAnchor(mode, genesis) ==
    IF policy.minAnchor >= 1 THEN {"refused"}
    ELSE IF mode = "historical" \/ genesis THEN {"absent"} ELSE {"refused"}

\* the first purge that does not adjudicate decides, and either may be met first
VerifyClaims ==
    LET met == {AdjudicatePurge(s) : s \in Claims} \ {"verified"}
    IN  IF policy.tenancy = "exclusive" /\ mirror \cap Foreign # {} THEN {"refused"}
        ELSE IF met = {} THEN {"verified"} ELSE met

VerifyAnchored(c, mode, genesis) ==
    IF (mode = "historical" /\ ~policy.allowUnanchored) \/ CheckProvisioningState(c) # "provisioned"
      THEN {"refused"}
    ELSE IF anchors = {} THEN AbsentAnchor(mode, genesis)
    ELSE IF LatestAnchor.seq < policy.minAnchor \/ ~AnchorMatches(LatestAnchor) THEN {"refused"}
    ELSE IF mode = "historical" THEN {"verified"}
    ELSE VerifyClaims

Modes == {"anchored", "historical"}

---------------------------------------------------------------------------
(* sync                                                                    *)

\* the migrate command, and a sync that ends in its migration or its verification
Migrate(p) ==
    /\ cmd[p] = Idle
    /\ catalog' = SchemaSQL(catalog)
    /\ UNCHANGED <<files, server, clock, cmd, cuts, fixed>>

SyncStart(p, mode) ==
    /\ cmd[p] = Idle
    /\ MigrateOK(catalog)
    /\ catalog' = SchemaSQL(catalog)
    /\ VerifyAnchored(catalog', mode, FALSE) \cap {"verified", "absent", "deferrable"} # {}
    /\ cmd' = [cmd EXCEPT ![p] = [op |-> "sync", at |-> "persist", i |-> 1, n |-> Len(chain)]]
    /\ UNCHANGED <<files, server, clock, cuts, fixed>>

SyncAt(p, step) == cmd[p].op = "sync" /\ cmd[p].at = step /\ cmd[p].i <= cmd[p].n
SyncTo(p, step) == cmd' = [cmd EXCEPT ![p].at = step]
ReceiptConflict(e) == \E f \in (mirror \cap Events) \ {e} : KeyOf[f] = KeyOf[e]

SyncSkip(p) ==
    /\ SyncAt(p, "persist") /\ chain[cmd[p].i] \in marked
    /\ cmd' = [cmd EXCEPT ![p].i = @ + 1]
    /\ UNCHANGED <<files, server, clock, cuts, catalog, fixed>>

\* the local marker written before the transaction
Persist_MarksFirst(p) ==
    LET e == chain[cmd[p].i] IN
    /\ SyncAt(p, "persist") /\ e \notin marked
    /\ ~ReceiptConflict(e)
    /\ marked' = marked \cup {e}
    /\ SyncTo(p, "mark")
    /\ UNCHANGED <<chain, pend, snap, trail, server, clock, cuts, catalog, fixed>>

\* Persist: one transaction, and nothing for a row that exists
Persist(p) ==
    LET e == chain[cmd[p].i] IN
    /\ SyncAt(p, "persist") /\ e \notin marked
    /\ ~ReceiptConflict(e)
    /\ mirror' = mirror \cup {e}
    /\ mirrorSnap' = [s \in Digests |-> IF s \in Refs[e] /\ mirrorSnap[s] = "none" THEN "whole" ELSE mirrorSnap[s]]
    /\ SyncTo(p, "mark")
    /\ UNCHANGED <<files, mirrorAudit, tomb, anchors, clock, cuts, catalog, fixed>>

PersistRefused(p) ==
    /\ SyncAt(p, "persist") /\ chain[cmd[p].i] \notin marked
    /\ ReceiptConflict(chain[cmd[p].i])
    /\ cmd' = [cmd EXCEPT ![p] = Idle]
    /\ UNCHANGED <<files, server, clock, cuts, catalog, fixed>>

MarkReplicated(p) ==
    /\ SyncAt(p, "mark")
    /\ marked' = marked \cup {chain[cmd[p].i]}
    /\ SyncTo(p, "audit")
    /\ UNCHANGED <<chain, pend, snap, trail, server, clock, cuts, catalog, fixed>>

SyncAudit(p) ==
    /\ SyncAt(p, "audit")
    /\ AppendTrail({}, p)
    /\ cmd' = [cmd EXCEPT ![p] = [op |-> "sync", at |-> "persist_audit", i |-> @.i, n |-> @.n, seq |-> Len(trail')]]
    /\ UNCHANGED <<chain, pend, snap, marked, server, clock, cuts, catalog, fixed>>

PersistAudit(p) ==
    /\ SyncAt(p, "persist_audit")
    /\ mirrorAudit' = mirrorAudit \cup {cmd[p].seq}
    /\ cmd' = [cmd EXCEPT ![p] = [op |-> "sync", at |-> "persist", i |-> @.i + 1, n |-> @.n]]
    /\ UNCHANGED <<files, mirror, mirrorSnap, tomb, anchors, clock, cuts, catalog, fixed>>

\* after a deferral the verification runs again, and only reports
SyncEnd(p) ==
    /\ cmd[p].op = "sync" /\ cmd[p].i > cmd[p].n
    /\ cmd' = [cmd EXCEPT ![p] = Idle]
    /\ UNCHANGED <<files, server, clock, cuts, catalog, fixed>>

---------------------------------------------------------------------------
(* anchor                                                                  *)

AnchorStart(p, mode, genesis) ==
    /\ cmd[p] = Idle
    /\ ~(genesis /\ policy.minAnchor > 0)
    /\ VerifyAnchored(catalog, mode, genesis) \cap {"verified", "absent"} # {}
    /\ cmd' = [cmd EXCEPT ![p] = [op |-> "anchor", seq |-> Len(chain), auditSeq |-> Len(trail)]]
    /\ UNCHANGED <<files, server, clock, cuts, catalog, fixed>>

\* the primary key is the event sequence: a head is anchored once
WriteAnchor(p) ==
    /\ cmd[p].op = "anchor" /\ clock < MaxClock
    /\ IF \E a \in anchors : a.seq = cmd[p].seq
         THEN UNCHANGED <<anchors, clock>>
         ELSE /\ clock' = clock + 1
              /\ anchors' = anchors \cup {[seq |-> cmd[p].seq, auditSeq |-> cmd[p].auditSeq, at |-> clock']}
    /\ cmd' = [cmd EXCEPT ![p] = Idle]
    /\ UNCHANGED <<files, mirror, mirrorSnap, mirrorAudit, tomb, cuts, catalog, fixed>>

---------------------------------------------------------------------------
(* purge                                                                   *)

Eligible(now) ==
    {s \in Digests : LET refs == RefsOf(ListEvents, s) IN
        /\ refs # {} /\ refs \cap holds = {}
        /\ \A e \in refs : Expires[e] <= now
        /\ snap[s] # "purged"}

\* now: this host's clock, or the --before of the command line
PurgeStart(p, now) ==
    /\ cmd[p] = Idle
    /\ policy.tenancy = "exclusive"
    /\ cmd' = [cmd EXCEPT ![p] = [op |-> "purge", at |-> "record", shas |-> Eligible(now), list |-> ListEvents]]
    /\ UNCHANGED <<files, server, clock, cuts, catalog, fixed>>

\* screening_ledger_purge_snapshots: the whole call is refused unless every promise is corroborated
Corroborated(shas, list) ==
    shas # {} => mirror \cap Events # {} /\ \A s \in shas : Obligation(mirror, s) = Obligation(list, s)
Purgeable(shas) ==
    {s \in shas : mirrorSnap[s] = "whole" /\ RefsOf(mirror, s) # {} /\ \A e \in RefsOf(mirror, s) : Expires[e] < clock}

\* the server's record made without comparing it with the mirror's events
RecordPurge_Trusting(p) ==
    LET recorded == {s \in cmd[p].shas : mirrorSnap[s] # "purged"} IN
    /\ cmd[p].op = "purge" /\ cmd[p].at = "record" /\ clock < MaxClock
    /\ clock' = clock + 1
    /\ tomb' = [s \in Digests |-> IF s \in recorded THEN [at |-> clock', by |-> p] ELSE tomb[s]]
    /\ mirrorSnap' = [s \in Digests |-> IF s \in recorded THEN "purged" ELSE mirrorSnap[s]]
    /\ cmd' = [cmd EXCEPT ![p] = [op |-> "purge", at |-> "mark", shas |-> recorded, list |-> cmd[p].list, done |-> {}]]
    /\ UNCHANGED <<files, mirror, mirrorAudit, anchors, cuts, catalog, fixed>>

RecordPurge(p) ==
    LET recorded == Purgeable(cmd[p].shas) IN
    /\ cmd[p].op = "purge" /\ cmd[p].at = "record" /\ clock < MaxClock
    /\ Corroborated(cmd[p].shas, cmd[p].list)
    /\ \A s \in recorded : tomb[s].at = 0
    /\ clock' = clock + 1
    /\ tomb' = [s \in Digests |-> IF s \in recorded THEN [at |-> clock', by |-> p] ELSE tomb[s]]
    /\ mirrorSnap' = [s \in Digests |-> IF s \in recorded THEN "purged" ELSE mirrorSnap[s]]
    /\ cmd' = [cmd EXCEPT ![p] = [op |-> "purge", at |-> "mark", shas |-> recorded, list |-> cmd[p].list, done |-> {}]]
    /\ UNCHANGED <<files, mirror, mirrorAudit, anchors, cuts, catalog, fixed>>

RecordPurgeRefused(p) ==
    /\ cmd[p].op = "purge" /\ cmd[p].at = "record"
    /\ \/ ~Corroborated(cmd[p].shas, cmd[p].list)
       \/ \E s \in Purgeable(cmd[p].shas) : tomb[s].at # 0
    /\ cmd' = [cmd EXCEPT ![p] = Idle]
    /\ UNCHANGED <<files, server, clock, cuts, catalog, fixed>>

MarkPurged(p, s) ==
    /\ cmd[p].op = "purge" /\ cmd[p].at = "mark" /\ s \in cmd[p].shas \ cmd[p].done
    /\ snap' = [snap EXCEPT ![s] = "purged"]
    /\ cmd' = [cmd EXCEPT ![p].done = @ \cup {s}]
    /\ UNCHANGED <<chain, pend, marked, trail, server, clock, cuts, catalog, fixed>>

PurgeAudit(p) ==
    /\ cmd[p].op = "purge" /\ cmd[p].at = "mark" /\ cmd[p].done = cmd[p].shas
    /\ AppendTrail(cmd[p].done, p)
    /\ cmd' = [cmd EXCEPT ![p] = Idle]
    /\ UNCHANGED <<chain, pend, snap, marked, server, clock, cuts, catalog, fixed>>

---------------------------------------------------------------------------
(* replay and export: verified first, then read, then audited              *)

EvidenceStart(p, mode, e) ==
    /\ cmd[p] = Idle
    /\ e \in ListEvents
    /\ VerifyAnchored(catalog, mode, FALSE) \cap {"verified", "absent"} # {}
    /\ cmd' = [cmd EXCEPT ![p] = [op |-> "evidence", event |-> e]]
    /\ UNCHANGED <<files, server, clock, cuts, catalog, fixed>>

\* a purged request is "unreproducible" and an export of it an error: neither is audited
EvidenceEnd(p) ==
    /\ cmd[p].op = "evidence"
    /\ IF \A s \in Refs[cmd[p].event] : snap[s] = "whole"
         THEN AppendTrail({}, p)
         ELSE UNCHANGED trail
    /\ cmd' = [cmd EXCEPT ![p] = Idle]
    /\ UNCHANGED <<chain, pend, snap, marked, server, clock, cuts, catalog, fixed>>

---------------------------------------------------------------------------
CutOff(p) ==
    /\ cmd[p] # Idle /\ cuts < MaxCuts
    /\ cuts' = cuts + 1
    /\ cmd' = [cmd EXCEPT ![p] = Idle]
    /\ UNCHANGED <<files, server, clock, catalog, fixed>>

Tick == /\ clock < MaxClock /\ clock' = clock + 1
        /\ UNCHANGED <<files, server, cmd, cuts, catalog, fixed>>

SyncStep(p) == \/ SyncSkip(p) \/ Persist(p) \/ PersistRefused(p) \/ MarkReplicated(p)
               \/ SyncAudit(p) \/ PersistAudit(p) \/ SyncEnd(p)
PurgeStep(p) == \/ RecordPurge(p) \/ RecordPurgeRefused(p) \/ PurgeAudit(p)
                \/ \E s \in Digests : MarkPurged(p, s)

ReplicaNext ==
    \/ \E e \in Events : AppendSnapshots(e) \/ AppendChain(e)
    \/ \E p \in Procs : \/ Migrate(p)
                        \/ \E mode \in Modes : SyncStart(p, mode)
                        \/ SyncStep(p) \/ PurgeStep(p)
                        \/ \E mode \in Modes, g \in BOOLEAN : AnchorStart(p, mode, g)
                        \/ WriteAnchor(p)
                        \/ \E now \in {clock, clock + 1} : PurgeStart(p, now)
                        \/ \E mode \in Modes, e \in Events : EvidenceStart(p, mode, e)
                        \/ EvidenceEnd(p)
                        \/ CutOff(p)
    \/ Tick

ReplicaSpec == ReplicaInit /\ [][ReplicaNext]_replicaVars

---------------------------------------------------------------------------
(* What replication and retention promise.                                 *)

(***************************************************************************)
(* The marker of replication/ is what a later sync, and the explanation of *)
(* a shortfall, rely on: whatever run of sync was cut off and whatever ran *)
(* beside it, a marked event has its row, and a sync never passes over an  *)
(* event that has none.                                                    *)
(***************************************************************************)
MarkedIsMirrored ==
    /\ marked \subseteq mirror
    /\ \A p \in Procs : cmd[p].op = "sync" => \A j \in 1..(cmd[p].i - 1) : chain[j] \in marked

(***************************************************************************)
(* The bytes of a decision are destroyed only after the server recorded    *)
(* it, and the server records it only when every event that the command    *)
(* listed or that is mirrored, and that needs them, has expired and is not *)
(* held: the clocks may differ, appends, syncs and purges may overlap and  *)
(* commands may be cut off.  In a mirror that is this ledger's alone, as   *)
(* the exclusive tenancy declares, those events are all mirrored; a row of *)
(* another ledger can stand in for one that is not.                        *)
(***************************************************************************)
PromisesKept == [][
    \A s \in Digests :
        /\ snap[s] # "purged" /\ snap'[s] = "purged" => tomb[s].at # 0
        /\ tomb[s].at = 0 /\ tomb'[s].at # 0 =>
              \E p \in Procs : /\ cmd[p].op = "purge" /\ s \in cmd[p].shas
                               /\ mirror \cap Foreign = {} => RefsOf(cmd[p].list, s) \subseteq mirror
                               /\ \A e \in RefsOf(cmd[p].list \cup mirror, s) :
                                     Expires[e] < tomb'[s].at /\ e \notin holds]_replicaVars

(***************************************************************************)
(* A database whose catalog differs in any one checked fact from what was  *)
(* provisioned never receives a row or an anchor of this ledger, neither   *)
(* at once nor after the migration that sync starts with repaired what it  *)
(* repairs.                                                                *)
(***************************************************************************)
DriftStopsTheMirror ==
    /\ DriftIsNoticed
    /\ catalog # Declared => mirror \cap Events = {} /\ anchors = {}

(***************************************************************************)
(* A marker stands for a row, and a database that drifted receives nothing *)
(* of this ledger, whatever run of sync was cut off and whatever ran       *)
(* beside it (Sync, Persist, MarkReplicated, checkProvisioningState).      *)
(***************************************************************************)
MirrorHolds == MarkedIsMirrored /\ DriftStopsTheMirror

\* a purge that is complete: audited, its events mirrored and expired when it was recorded
HonestPurge(s) == /\ Attesting(s) # {} /\ tomb[s].at # 0
                  /\ RefsOf(ListEvents, s) \subseteq mirror
                  /\ \A e \in RefsOf(ListEvents, s) : Expires[e] < tomb[s].at
AttestingAnchors(s) == {a \in anchors : a.auditSeq >= Min(Attesting(s))}

(***************************************************************************)
(* A complete purge verifies under the anchor that attests to it, when no  *)
(* anchor was written between the two.                                     *)
(***************************************************************************)
FreshPurgeStands ==
    anchors # {} => \A s \in Digests :
          /\ HonestPurge(s) /\ AttestingAnchors(s) = {LatestAnchor}
          /\ \A a \in anchors \ {LatestAnchor} : a.at < tomb[s].at
        => AdjudicatePurge(s) = "verified"

(***************************************************************************)
(* ADR-0007 D32: a ledger with legitimately purged snapshots verifies      *)
(* because each purge is anchored.  The code compares the time of a purge  *)
(* with the anchor before the latest one, and not with the one before the  *)
(* anchor that attests to it.                                              *)
(***************************************************************************)
AnchoredPurgeStands ==
    \A s \in Digests : HonestPurge(s) /\ AttestingAnchors(s) # {} => AdjudicatePurge(s) = "verified"
=============================================================================
