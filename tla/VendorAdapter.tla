--------------------------- MODULE VendorAdapter ---------------------------
(***************************************************************************)
(* Vendor adapters: a vendor's alert is converted by a profile into an     *)
(* envelope and kept in vendoradapter.Store, a directory of records,       *)
(* receipts and audit events, under one mutex; vendoradapterapi copies it  *)
(* to PostgreSQL.  A file is created exclusively and then written: a stop  *)
(* or an error in between leaves it torn.                                  *)
(***************************************************************************)
EXTENDS Naturals, Sequences, SequencesExt, FiniteSets

CONSTANTS Profiles,     \* adapter -> profile
          Sources,      \* what vendors send: [body, bytes, json, at]
          Tenants, PostgresRequired, Absent, Torn,
          MaxSends, MaxStops, MaxFaults

VARIABLES records,    \* record id -> envelope, or Torn
          receipts,   \* file name -> receipt, or Torn
          audit,      \* the audit files, in order: a chain, each entry the sequence of records it vouches for, or Torn
          mu,         \* the request that holds the mutex
          run,        \* the requests that are being handled
          db,         \* the tables: records and the receipts' keys
          told,       \* successful answers: [adapter, source, record, replay]
          stops, sends, faults

vars == <<records, receipts, audit, mu, run, db, told, stops, sends, faults>>

Put(f, x, y) == [z \in DOMAIN f \cup {x} |-> IF z = x THEN y ELSE f[z]]

---------------------------------------------------------------------------
(* Profiles and conversion                                                 *)

canonicalFields == {"tenant_id", "source_system_id", "source_alert_id", "raw_list_name", "occurred_at", "external_score",
                    "correlation_id", "idempotency_key"}
requiredFields == canonicalFields \ {"external_score"}

\* the tenant is a constant of the profile: a payload cannot name its own
ValidateProfile(p) ==
    /\ p.maxSourceBytes > 0
    /\ "tenant_id" \notin DOMAIN p.mappings
    /\ \A f \in requiredFields : f \in DOMAIN p.mappings \cup DOMAIN p.constants
    /\ ("tenant_id" \in DOMAIN p.constants) => p.constants["tenant_id"].text # ""
    /\ DOMAIN p.mappings \subseteq canonicalFields
    /\ DOMAIN p.lists # {} /\ \A l \in DOMAIN p.lists : p.lists[l] = "active"

\* a directory with one bad profile is refused altogether
LoadProfiles(dir) == IF dir # <<>> /\ \A a \in DOMAIN dir : ValidateProfile(dir[a]) THEN dir ELSE <<>>

lookup(src, path) == IF path \in DOMAIN src.at THEN src.at[path] ELSE Absent
isEmpty(v) == v = Absent \/ (v.kind = "string" /\ v.text = "")

\* a constant of the profile takes precedence over the payload
Value(p, src, f) == CASE f \in DOMAIN p.constants -> p.constants[f]
                      [] f \notin DOMAIN p.constants /\ f \in DOMAIN p.mappings -> lookup(src, p.mappings[f])
                      [] OTHER -> Absent

asRequiredString(v) == v # Absent /\ v.kind = "string" /\ v.text # ""
asScore(v) == v = Absent \/ (v.kind = "integer" /\ v.number \in 0..100)

Convertible(p, src) ==
    /\ src.bytes <= p.maxSourceBytes /\ src.json
    /\ \A path \in p.requiredPaths : ~isEmpty(lookup(src, path))
    /\ \A f \in requiredFields : asRequiredString(Value(p, src, f))
    /\ asScore(Value(p, src, "external_score"))
    /\ Value(p, src, "raw_list_name").text \in DOMAIN p.lists

\* the record's id covers the adapter, the profile, the alert and the bytes, the receipt's name the adapter and the key
Convert(a, src) ==
    LET p == Profiles[a] IN
    [record |-> <<a, p.sha, Value(p, src, "source_system_id").text, Value(p, src, "source_alert_id").text, src.body>>,
     adapter |-> a, source |-> src.body, tenant |-> Value(p, src, "tenant_id").text, key |-> Value(p, src, "idempotency_key").text]

Receipt(e) == [source |-> e.source, record |-> e.record]
receiptPath(e) == <<e.adapter, e.key>>

\* what the proofs use: a file that can be read is not torn, and no two kinds of file are confused
Envelopes == {Convert(x.adapter, x.src) :
                  x \in {y \in [adapter : DOMAIN Profiles, src : Sources] : Convertible(Profiles[y.adapter], y.src)}}
ConstantsFit == /\ \A e \in Envelopes : Torn # e /\ Torn # Receipt(e)
                /\ Torn \notin Seq({e.record : e \in Envelopes})

---------------------------------------------------------------------------
(* The handler and the Store                                               *)

Ended(h) == RemoveAt(run, h)

\* ingest: the tenant that the caller is bound to is compared before anything is written
ingest(a, src, tenant) ==
    /\ sends < MaxSends
    /\ sends' = sends + 1
    /\ run' = IF a \notin DOMAIN LoadProfiles(Profiles) \/ Profiles[a].constants["tenant_id"].text # tenant \/ src.bytes > Profiles[a].maxSourceBytes THEN run
              ELSE Append(run, [adapter |-> a, src |-> src, env |-> Absent, todo |-> <<>>, replay |-> FALSE, at |-> "process", id |-> sends'])
    /\ UNCHANGED <<records, receipts, audit, mu, db, told, stops, faults>>

Order == <<"record", "receipt", "audit">>

\* a receipt is believed whatever the bytes that came with the key
SameSource_Key(e) == TRUE

SameSource(e) == receipts[receiptPath(e)].source = e.source

\* Process until its first write: a conversion that fails, a conflict, a replay, a record that has no receipt
Process(h) ==
    LET r == run[h]
        e == Convert(r.adapter, r.src)
        rp == receiptPath(e)
    IN  /\ r.at = "process" /\ mu = 0
        /\ IF ~Convertible(Profiles[r.adapter], r.src) THEN run' = Ended(h) /\ UNCHANGED mu
           ELSE IF rp \in DOMAIN receipts
             THEN /\ UNCHANGED mu
                  /\ IF receipts[rp] = Torn \/ ~SameSource(e) THEN run' = Ended(h)
                     ELSE LET stored == records[receipts[rp].record] IN
                          run' = IF stored = Torn THEN Ended(h)
                                 ELSE [run EXCEPT ![h].env = stored, ![h].replay = TRUE, ![h].at = "persist"]
           ELSE IF e.record \in DOMAIN records THEN run' = Ended(h) /\ UNCHANGED mu
           ELSE mu' = r.id /\ run' = [run EXCEPT ![h].env = e, ![h].at = "write", ![h].todo = Order]
        /\ UNCHANGED <<records, receipts, audit, db, told, stops, sends, faults>>

writeExclusive(h) ==
    LET e == run[h].env
        file == Head(run[h].todo)
    IN  /\ run[h].at = "write" /\ file # "audit"
        /\ records' = IF file = "record" THEN Put(records, e.record, e) ELSE records
        /\ receipts' = IF file = "receipt" THEN Put(receipts, receiptPath(e), Receipt(e)) ELSE receipts
        /\ run' = [run EXCEPT ![h].todo = Tail(@)]
        /\ UNCHANGED <<audit, mu, db, told, stops, sends, faults>>

\* after a torn audit event none can be appended: the request is refused with its record and its receipt in place
appendAudit(h) ==
    LET refused == audit # <<>> /\ Last(audit) = Torn
        chain == IF audit = <<>> THEN <<>> ELSE Last(audit)
    IN  /\ run[h].at = "write" /\ run[h].todo = <<"audit">>
        /\ audit' = IF refused THEN audit ELSE Append(audit, Append(chain, run[h].env.record))
        /\ run' = IF refused THEN Ended(h) ELSE [run EXCEPT ![h].at = "persist"]
        /\ mu' = 0
        /\ UNCHANGED <<records, receipts, db, told, stops, sends, faults>>

\* the file that the request writes next was created and not written
Tear(h) ==
    LET e == run[h].env
        file == Head(run[h].todo)
    IN  CASE file = "record" -> records' = Put(records, e.record, Torn) /\ UNCHANGED <<receipts, audit>>
          [] file = "receipt" -> receipts' = Put(receipts, receiptPath(e), Torn) /\ UNCHANGED <<records, audit>>
          [] file = "audit" -> audit' = (IF audit # <<>> /\ Last(audit) = Torn THEN audit ELSE Append(audit, Torn)) /\ UNCHANGED <<records, receipts>>

Writing(h) == run[h].at = "write"

\* writeExclusive fails after the file was created
WriteFails(h) ==
    /\ Writing(h) /\ faults < MaxFaults
    /\ faults' = faults + 1
    /\ Tear(h)
    /\ run' = Ended(h) /\ mu' = 0
    /\ UNCHANGED <<db, told, stops, sends>>

Answer(h) == /\ run' = Ended(h)
             /\ told' = told \cup {[adapter |-> run[h].adapter, source |-> run[h].src.body,
                                    record |-> run[h].env.record, replay |-> run[h].replay]}

\* Receipt and Persist: one transaction, whose key must be new
Persist(h) ==
    LET e == run[h].env
        ok == receiptPath(e) \notin db.keys
    IN  /\ run[h].at = "persist" /\ mu = 0
        /\ db' = IF ok THEN [records |-> db.records \cup {e.record}, keys |-> db.keys \cup {receiptPath(e)}] ELSE db
        /\ IF ok \/ ~PostgresRequired THEN Answer(h) ELSE run' = Ended(h) /\ UNCHANGED told
        /\ UNCHANGED <<records, receipts, audit, mu, stops, sends, faults>>

\* psql fails, before or after the commit
PersistFails(h) ==
    LET e == run[h].env IN
    /\ run[h].at = "persist" /\ mu = 0 /\ faults < MaxFaults
    /\ faults' = faults + 1
    /\ db' \in {db} \cup (IF receiptPath(e) \in db.keys THEN {}
                          ELSE {[records |-> db.records \cup {e.record}, keys |-> db.keys \cup {receiptPath(e)}]})
    /\ IF PostgresRequired THEN run' = Ended(h) /\ UNCHANGED told ELSE Answer(h)
    /\ UNCHANGED <<records, receipts, audit, mu, stops, sends>>

\* the process stops, perhaps in the middle of a write
Stop ==
    /\ run # <<>> /\ stops < MaxStops
    /\ stops' = stops + 1
    /\ run' = <<>> /\ mu' = 0
    /\ \/ UNCHANGED <<records, receipts, audit>>
       \/ \E h \in DOMAIN run : Writing(h) /\ Tear(h)
    /\ UNCHANGED <<db, told, sends, faults>>

\* Verify: the chain and every record
Verify ==
    /\ \A i \in 1..Len(audit) : audit[i] # Torn /\ Len(audit[i]) = i /\ (i > 1 => IsPrefix(audit[i - 1], audit[i]))
    /\ \A id \in DOMAIN records : records[id] # Torn

Init ==
    /\ records = <<>> /\ receipts = <<>> /\ audit = <<>> /\ mu = 0 /\ run = <<>>
    /\ db = [records |-> {}, keys |-> {}] /\ told = {}
    /\ stops = 0 /\ sends = 0 /\ faults = 0

Next ==
    \/ \E a \in DOMAIN Profiles, src \in Sources, t \in Tenants : ingest(a, src, t)
    \/ \E h \in DOMAIN run : \/ Process(h) \/ writeExclusive(h) \/ appendAudit(h)
                            \/ WriteFails(h) \/ Persist(h) \/ PersistFails(h)
    \/ Stop

Spec == Init /\ [][Next]_vars

---------------------------------------------------------------------------
(***************************************************************************)
(* Byte-exact replay: whatever is sent again, torn or cut off, an answer   *)
(* carries a record of the very bytes that were sent, and a key is never   *)
(* answered with two records.                                              *)
(***************************************************************************)
ReplayIsExact ==
    /\ \A t \in told : records[t.record] # Torn /\ records[t.record].source = t.source /\ records[t.record].adapter = t.adapter
    /\ \A s, t \in told : receiptPath(records[s.record]) = receiptPath(records[t.record]) => s.record = t.record

(***************************************************************************)
(* A receipt that can be read names a record that is there, whole, of the  *)
(* source it was written for; the database has no record and no key that   *)
(* the directory does not have; without a stop or a failed write, Verify   *)
(* succeeds and every receipt's record is in the audit exactly once when   *)
(* nothing is being written.                                               *)
(***************************************************************************)
ReceiptsAreBacked ==
    /\ \A rp \in DOMAIN receipts : receipts[rp] # Torn =>
          LET id == receipts[rp].record IN
          id \in DOMAIN records /\ records[id] # Torn /\ records[id].source = receipts[rp].source /\ receiptPath(records[id]) = rp
    /\ db.keys \subseteq DOMAIN receipts /\ db.records \subseteq DOMAIN records
    /\ stops = 0 /\ faults = 0 /\ mu = 0 =>
          /\ Verify
          /\ \A rp \in DOMAIN receipts : Cardinality({i \in 1..Len(audit) : Last(audit[i]) = receipts[rp].record}) = 1
=============================================================================
