--------------------------- MODULE ReviewServices ---------------------------
(***************************************************************************)
(* The services of a review: the adapters that take a vendor's alerts in   *)
(* (vendoradapter), the case backend (alertcase), the assistance of        *)
(* analysts (assistancerag) and the access control with its audit          *)
(* (reviewauth).  They share no state; a behaviour is about one of them.   *)
(***************************************************************************)
EXTENDS Naturals, Sequences, FiniteSets

CONSTANTS CaseRequests, CaseSeeds, CasePostgres, MaxCaseRunning, MaxCaseSends, MaxCaseStops, MaxCaseFaults,
          DraftRequests, Corpus, CaseTenant, Terms, TopK, Outputs, Verdicts, Nothing, DraftPostgres, MaxDraftSends, MaxDraftStops,
          Profiles, Sources, VendorTenants, VendorPostgres, Absent, Torn, MaxVendorSends, MaxVendorStops, MaxVendorFaults,
          Tenants, Registries, Routes, MaxTTL, MaxClock, MaxTokens, MaxRequests, MaxCalls, MaxRestarts, Skew

VARIABLES disk, caseLock, caseRun, caseDb, answered, caseSends, caseStops, caseFaults, halfway,
          revision, drafts, reviews, draftReceipts, draftAudit, draftLock, draftRun, draftTold, draftSends, draftStops, torn,
          records, receipts, audit, mu, run, db, told, stops, sends, faults,
          registry, clock, tokens, calls, events, auditLock, served, owed, sent, restarts

caseVars == <<disk, caseLock, caseRun, caseDb, answered, caseSends, caseStops, caseFaults, halfway>>
draftVars == <<revision, drafts, reviews, draftReceipts, draftAudit, draftLock, draftRun, draftTold, draftSends, draftStops, torn>>
vendorVars == <<records, receipts, audit, mu, run, db, told, stops, sends, faults>>
accessVars == <<registry, clock, tokens, calls, events, auditLock, served, owed, sent, restarts>>

Backend == INSTANCE AlertCase WITH
    Requests <- CaseRequests, Seeds <- CaseSeeds, PostgresRequired <- CasePostgres, Nobody <- Absent,
    MaxRunning <- MaxCaseRunning, MaxSends <- MaxCaseSends, MaxStops <- MaxCaseStops, MaxFaults <- MaxCaseFaults,
    locked <- caseLock, run <- caseRun, db <- caseDb, sends <- caseSends, stops <- caseStops, faults <- caseFaults

Assist == INSTANCE Assistance WITH
    Requests <- DraftRequests, Unavailable <- Absent, PostgresRequired <- DraftPostgres,
    MaxSends <- MaxDraftSends, MaxStops <- MaxDraftStops,
    records <- drafts, receipts <- draftReceipts, audit <- draftAudit, locked <- draftLock, run <- draftRun,
    told <- draftTold, sends <- draftSends, stops <- draftStops

Adapter == INSTANCE VendorAdapter WITH
    Tenants <- VendorTenants, PostgresRequired <- VendorPostgres,
    MaxSends <- MaxVendorSends, MaxStops <- MaxVendorStops, MaxFaults <- MaxVendorFaults

Access == INSTANCE ReviewAccess WITH
    MaxRunning <- MaxCalls, MaxStops <- MaxRestarts, run <- calls, locked <- auditLock, stops <- restarts

ASSUME CaseAssumption == Backend!ConstantsFit
ASSUME VendorAssumption == Adapter!ConstantsFit
ASSUME DraftAssumption == Assist!ConstantsFit

(***************************************************************************)
(* The case backend raises no false alarm: while no operation holds the    *)
(* lock, every case replays to its projection and the audit verifies,      *)
(* unless a stop has cut an operation off in the middle of its writes.     *)
(***************************************************************************)
CaseVerifies == Backend!CaseVerifies

(***************************************************************************)
(* Whatever ApplyCaseEvent is sent again: no request is in the history of  *)
(* a case twice, unless two stops each cut an operation off, and then the  *)
(* second time is next to the first.  One answered with success is in the  *)
(* history, and a decision in force was proposed by one actor and approved *)
(* by another.                                                             *)
(***************************************************************************)
AppliedOnce == Backend!AppliedOnce

(***************************************************************************)
(* The handlers persist in any order after their operations: no case's row *)
(* goes back to an earlier revision, and every row is of something that is *)
(* in the directory.                                                       *)
(***************************************************************************)
DatabaseFollows == Backend!DatabaseFollows

(***************************************************************************)
(* With PostgreSQL required, a case event whose request was answered with  *)
(* success is in the table of case events.                                 *)
(***************************************************************************)
SuccessIsDurable == Backend!SuccessIsDurable

(***************************************************************************)
(* Whatever the model answers, a completed assistance record cites only    *)
(* passages that the case's tenant may see; and a review of a record is in *)
(* its history once, an accepted record is complete and was accepted by    *)
(* another actor than the one who asked for it, and an answered review is  *)
(* in the history (Assist, Review, assistanceReview).                      *)
(***************************************************************************)
ReviewsStand == Assist!CompletedIsGrounded /\ Assist!ReviewsStand

(***************************************************************************)
(* An answer of the vendor adapters carries a record of the very bytes     *)
(* that were sent, no key is answered with two records, and a receipt that *)
(* can be read names a whole record of its source.                         *)
(***************************************************************************)
ReplayIsExact == Adapter!ReplayIsExact /\ Adapter!ReceiptsAreBacked

(***************************************************************************)
(* What the console and the guarded services did was allowed by the        *)
(* registry they had read: no token outlives a new registry, a new session *)
(* epoch or the user's bindings; and the security audit is one chain,      *)
(* whatever overlaps, times out or stops, that tells what came of each     *)
(* request once (Authenticate, Parse, Permitted, AppendEvent).             *)
(***************************************************************************)
AccessHolds == Access!ServedIsEntitled /\ Access!AuditIsOneChain
=============================================================================
