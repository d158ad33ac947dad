---------------------------- MODULE ControlPlane ----------------------------
(***************************************************************************)
(* punar-mock-smplify, the control plane a device is enrolled with: the    *)
(* device ledger, the reports it appends, the queue of questions, custody  *)
(* of recovery envelopes and the administrators' methods; and the escrow   *)
(* client of punard.                                                       *)
(*                                                                         *)
(* The two ledgers are in memory and in a file that is rewritten after     *)
(* each change; the rest is appended to.  A method that takes the state    *)
(* lock once is one step.  A write may fail, and an answer may be lost.    *)
(***************************************************************************)
EXTENDS Integers, Sequences, FiniteSets, Functions

CONSTANTS
    Devices, Admins,
    Role,                 \* [Admins -> a role, or Missing for somebody unknown]
    RoleScopes,           \* [role -> the scopes it may ask at]
    ReleaseRoles,         \* roles that may release recovery material
    Volume,               \* [Devices -> [luks, slot, key]]: the encrypted disk
    MaxPerSync,
    MaxTokens, MaxQueries, MaxLines, MaxSeals, MaxReleases, MaxFaults,     \* bounds
    Missing

Bodies == {"compliant", "non_compliant", "inventory"}
DeviceRecord == [token : Nat, synced : BOOLEAN,
                 overall : {"compliant", "non_compliant", Missing}]

\* "Missing" is none of the values it stands in for.
ASSUME ServerAssumption == Missing \notin Nat \cup Bodies \cup DeviceRecord

VARIABLES
    devices, devicesFile,      \* [Devices -> record or Missing]; devices.json
    queries, queriesFile,      \* the queue; queries.json
    reports,                   \* received-inventory.jsonl, received-compliance.jsonl
    answers,                   \* received-answers.jsonl
    envelopes,                 \* received-recovery-envelopes.jsonl
    releases,                  \* recovery-releases.jsonl
    device,                    \* what each device holds
    release,                   \* an administrator's release under way
    given,                     \* history: recovery keys handed out
    acked,                     \* history: what a device was told is accepted
    tokens, asked, seals, faults

ledgers == <<devices, devicesFile, queries, queriesFile>>
logs == <<reports, answers, envelopes, releases>>
counters == <<tokens, asked, seals>>
serverVars == <<ledgers, logs, device, release, given, acked, counters, faults>>

Scopes == {"inventory", "resource_summary", "authority"}
Nobody == [token |-> Missing, tried |-> Missing, tenant |-> Missing, envelope |-> Missing, custody |-> Missing,
           pulled |-> {}]
NoRelease == [device |-> Missing, envelope |-> Missing]

ServerInit ==
    /\ devices = [d \in Devices |-> Missing] /\ devicesFile = devices
    /\ queries = <<>> /\ queriesFile = <<>>
    /\ reports = <<>> /\ answers = <<>> /\ envelopes = <<>> /\ releases = <<>>
    /\ device = [d \in Devices |-> Nobody]
    /\ release = [a \in Admins |-> NoRelease]
    /\ given = {} /\ acked = {}
    /\ tokens = 0 /\ asked = 0 /\ seals = 0 /\ faults = 0

-----------------------------------------------------------------------------
\* punar-recovery: what is sealed for an organization, what its receipt says,
\* and who can open it.  A key, a digest and a signature are what they stand
\* for: two envelopes have one digest only if they are equal, and only the
\* holder of the signing key makes a signature.

MaxKeyslot == 31

\* RecoveryBinding and its validate
Binding(org, key_id, dev, luks, slot) ==
    [organization_id |-> org, tenant_key_id |-> key_id, device_id |-> dev,
     luks_uuid |-> luks, recovery_keyslot |-> slot]
ValidBinding(b) == b.recovery_keyslot \in 0 .. MaxKeyslot

\* TenantRecoveryKey::validate
ValidTenantKey(t) == t.v = 1 /\ t.suite = "hpke" /\ t.key_id # Missing

\* TenantRecoveryKey::seal; n is the ephemeral key of this seal.  Missing when it
\* is refused.
Seal(t, b, key, n) ==
    IF ValidTenantKey(t) /\ ValidBinding(b)
       /\ b.organization_id = t.organization_id /\ b.tenant_key_id = t.key_id
    THEN [binding |-> b, to |-> t.public_key, plain |-> key, aad |-> b, n |-> n]
    ELSE Missing

\* RecoveryEnvelope::validate and digest_hex
ValidEnvelope(e) == e # Missing /\ ValidBinding(e.binding)
Digest(e) == e

\* RecoveryEnvelope::open_for_recipient: the binding is authenticated with it.
Open(e, private) ==
    IF ValidEnvelope(e) /\ e.to = private /\ e.aad = e.binding THEN e.plain ELSE Missing

\* EscrowReceipt::signing_payload and the signature over it
SigningPayload(r) == [binding |-> r.binding, envelope_sha256 |-> r.envelope_sha256]
Sign(e, key) ==
    [binding |-> e.binding, envelope_sha256 |-> Digest(e),
     signature |-> [by |-> key, over |-> [binding |-> e.binding, envelope_sha256 |-> Digest(e)]]]

\* EscrowReceipt::verify
Verify(r, t, e) ==
    /\ ValidTenantKey(t) /\ ValidEnvelope(e)
    /\ r.binding = e.binding
    /\ r.binding.organization_id = t.organization_id /\ r.binding.tenant_key_id = t.key_id
    /\ r.envelope_sha256 = Digest(e)
    /\ r.signature = [by |-> t.receipt_signing_public_key, over |-> SigningPayload(r)]

-----------------------------------------------------------------------------
Fault == faults < MaxFaults /\ faults' = faults + 1
Fine == UNCHANGED faults

\* save_devices, save_queries: the temporary file replaces the ledger.
SaveDevices(ok) == IF ok THEN devicesFile' = devices' ELSE UNCHANGED devicesFile
SaveQueries(ok) == IF ok THEN queriesFile' = queries' ELSE UNCHANGED queriesFile

-----------------------------------------------------------------------------
\* Devices.

DeviceForToken(t) ==
    IF \E d \in Devices : devices[d] # Missing /\ devices[d].token = t
    THEN CHOOSE d \in Devices : devices[d] # Missing /\ devices[d].token = t
    ELSE Missing
RequireToken(d) == device[d].token # Missing /\ DeviceForToken(device[d].token) # Missing
Caller(d) == DeviceForToken(device[d].token)

\* enroll.register: the ledger forgets everything about an earlier
\* registration of the device, its token included.
EnrollRegister(d) ==
    /\ tokens < MaxTokens
    /\ tokens' = tokens + 1
    /\ devices' = [devices EXCEPT ![d] = [token |-> tokens', synced |-> FALSE, overall |-> Missing]]
    /\ \/ /\ Fine /\ SaveDevices(TRUE)
          /\ device' = [device EXCEPT ![d].token = tokens', ![d].tried = tokens']
       \/ /\ Fault /\ \E saved \in BOOLEAN : SaveDevices(saved)
          /\ device' = [device EXCEPT ![d].tried = tokens']
    /\ UNCHANGED <<queries, queriesFile, logs, release, given, acked, asked, seals>>

\* stamp_sync
StampSync(d, overall) ==
    [devices EXCEPT ![d].synced = TRUE, ![d].overall = IF overall = Missing THEN @ ELSE overall]

\* Mutant: the report is acknowledged before it is written.
ReportAcknowledged(d, overall, body) ==
    /\ RequireToken(d) /\ Len(reports) < MaxLines
    /\ devices' = StampSync(Caller(d), overall)
    /\ \/ /\ Fine /\ SaveDevices(TRUE)
          /\ reports' = Append(reports, [device |-> Caller(d), body |-> body])
       \/ Fault /\ SaveDevices(FALSE) /\ UNCHANGED reports
    /\ acked' = acked \cup {[device |-> Caller(d), body |-> body]}
    /\ UNCHANGED <<queries, queriesFile, answers, envelopes, releases, device, release, given,
                   counters>>

\* append_compliance and append_inventory: the ledger is stamped and saved,
\* then the line is appended.
Report(d, overall, body) ==
    /\ RequireToken(d) /\ Len(reports) < MaxLines
    /\ devices' = StampSync(Caller(d), overall)
    /\ \/ /\ Fine /\ SaveDevices(TRUE)
          /\ reports' = Append(reports, [device |-> Caller(d), body |-> body])
          /\ acked' = acked \cup {[device |-> Caller(d), body |-> body]}
       \/ /\ Fault /\ \E saved, written \in BOOLEAN :
                /\ written => saved
                /\ SaveDevices(saved)
                /\ reports' = IF written THEN Append(reports, [device |-> Caller(d), body |-> body])
                                         ELSE reports
          /\ UNCHANGED acked
    /\ UNCHANGED <<queries, queriesFile, answers, envelopes, releases, device, release, given,
                   counters>>

ComplianceReport(d) == \E o \in {"compliant", "non_compliant"} : Report(d, o, o)
InventoryReport(d) == Report(d, Missing, "inventory")

\* queries.pending: the oldest pending questions of the device, marked as
\* delivered.
PendingForDevice(d) ==
    LET pending == {i \in DOMAIN queries : queries[i].device = d /\ queries[i].status = "pending"}
    IN  {i \in pending : Cardinality({j \in pending : j < i}) < MaxPerSync}

QueriesPending(d) ==
    LET taken == PendingForDevice(Caller(d))
    IN  /\ RequireToken(d) /\ taken # {}
        /\ queries' = [i \in DOMAIN queries |->
                          IF i \in taken THEN [queries[i] EXCEPT !.delivered = TRUE]
                                         ELSE queries[i]]
        /\ \/ /\ Fine /\ SaveQueries(TRUE)
              /\ device' = [device EXCEPT ![d].pulled = {queries[i].id : i \in taken}]
           \/ /\ Fault /\ \E saved \in BOOLEAN : SaveQueries(saved)
              /\ UNCHANGED device
        /\ UNCHANGED <<devices, devicesFile, logs, release, given, acked, counters>>

\* queries.answer and record_answer: of a question addressed to this device.
Entry(id, d) == {i \in DOMAIN queries : queries[i].id = id /\ queries[i].device = d}
QueriesAnswer(d, id, refused, count) ==
    LET told == [answered |-> id]
    IN  /\ id \in device[d].pulled
        /\ RequireToken(d)
        /\ device' = [device EXCEPT ![d].pulled = @ \ {id}]
        /\ \/ /\ Entry(id, Caller(d)) = {}
              /\ Fine /\ UNCHANGED <<queries, queriesFile, answers, acked>>
           \/ \E i \in Entry(id, Caller(d)) :
                /\ queries' = [queries EXCEPT ![i].status = IF refused THEN "refused" ELSE "answered",
                                              ![i].answer = count]
                /\ \/ /\ Fine /\ SaveQueries(TRUE)
                      /\ answers' = Append(answers, told) /\ acked' = acked \cup {told}
                   \/ /\ Fault /\ \E saved \in BOOLEAN : SaveQueries(saved)
                      /\ UNCHANGED <<answers, acked>>
        /\ UNCHANGED <<devices, devicesFile, reports, envelopes, releases, release, given,
                       counters>>

-----------------------------------------------------------------------------
\* Custody of recovery keys.

\* tenant_recovery_key
TenantKey == [v |-> 1, suite |-> "hpke", organization_id |-> "acme", key_id |-> "trk",
              public_key |-> "tenant", receipt_signing_public_key |-> "receipts"]

\* recovery.key, answered to punard's escrow_recovery_key
RecoveryKey(d) ==
    /\ device[d].tenant = Missing /\ RequireToken(d) /\ ValidTenantKey(TenantKey)
    /\ device' = [device EXCEPT ![d].tenant = TenantKey]
    /\ UNCHANGED <<ledgers, logs, release, given, acked, counters, faults>>

DeviceBinding(d) == Binding("acme", "trk", d, Volume[d].luks, Volume[d].slot)

SealKey(d) ==
    /\ device[d].tenant # Missing /\ device[d].envelope = Missing /\ seals < MaxSeals
    /\ seals' = seals + 1
    /\ device' = [device EXCEPT ![d].envelope =
                     Seal(device[d].tenant, DeviceBinding(d), Volume[d].key, seals')]
    /\ UNCHANGED <<ledgers, logs, release, given, acked, tokens, asked, faults>>

\* The call is over without a receipt; escrow starts again from recovery.key.
EscrowFailed(d) == device' = [device EXCEPT ![d].tenant = Missing, ![d].envelope = Missing]
\* EscrowReceipt::verify at the device
TakeReceipt(d, r) ==
    IF Verify(r, device[d].tenant, device[d].envelope)
    THEN device' = [device EXCEPT ![d].custody = device[d].envelope,
                                  ![d].tenant = Missing, ![d].envelope = Missing]
    ELSE EscrowFailed(d)

BoundTo(e, d) ==
    /\ e.binding.organization_id = TenantKey.organization_id
    /\ e.binding.tenant_key_id = TenantKey.key_id /\ e.binding.device_id = d

\* recovery.escrow: the envelope of this device, kept before the receipt is
\* signed.
RecoveryEscrow(d) ==
    LET e == device[d].envelope
    IN  /\ e # Missing
        /\ IF ~ValidEnvelope(e) \/ ~RequireToken(d) \/ ~BoundTo(e, Caller(d))
           THEN Fine /\ EscrowFailed(d) /\ UNCHANGED envelopes
           ELSE \/ /\ Fine
                   /\ envelopes' = Append(envelopes, [device |-> Caller(d), envelope |-> e])
                   /\ TakeReceipt(d, Sign(e, "receipts"))
                \/ /\ Fault /\ EscrowFailed(d)
                   /\ \/ UNCHANGED envelopes
                      \/ envelopes' = Append(envelopes, [device |-> Caller(d), envelope |-> e])
        /\ UNCHANGED <<ledgers, reports, answers, releases, release, given, acked, counters>>

\* latest_recovery_envelope
LatestEnvelope(d) ==
    LET of == {i \in DOMAIN envelopes : envelopes[i].device = d}
    IN  IF of = {} THEN Missing
        ELSE envelopes[CHOOSE i \in of : \A j \in of : j <= i].envelope

-----------------------------------------------------------------------------
\* Administrators.

RequireAdmin(a) == Role[a] # Missing
Permits(a, s) == RequireAdmin(a) /\ s \in RoleScopes[Role[a]]
PermitsRecoveryRelease(a) == RequireAdmin(a) /\ Role[a] \in ReleaseRoles

\* admin.ai_query; when the ledger cannot be saved the question stays in the
\* queue although the administrator is told otherwise.
AdminAiQuery(a, d, s) ==
    /\ Permits(a, s) /\ devices[d] # Missing
    /\ asked < MaxQueries
    /\ asked' = asked + 1
    /\ queries' = Append(queries, [id |-> asked', device |-> d, admin |-> a, scope |-> s,
                                   status |-> "pending", delivered |-> FALSE, answer |-> Missing])
    /\ (Fine /\ SaveQueries(TRUE)) \/ (Fault /\ SaveQueries(FALSE))
    /\ UNCHANGED <<devices, devicesFile, logs, device, release, given, acked, tokens, seals>>

\* What the reading methods show: admin.devices, admin.device,
\* admin.query_result and admin.fleet.
LastReceived(d) ==
    LET of == {i \in DOMAIN reports : reports[i].device = d}
    IN  IF of = {} THEN Missing ELSE reports[CHOOSE i \in of : \A j \in of : j <= i].body
AdminDevices == {d \in Devices : devices[d] # Missing}
AdminDevice(d) == [state |-> devices[d], last |-> LastReceived(d),
                   asked |-> {q.id : q \in {q \in Range(queries) : q.device = d}}]
QueryResult(a, id) ==
    {q.answer : q \in {q \in Range(queries) : q.id = id /\ q.admin = a /\ RequireAdmin(a)}}

\* fleet::aggregate: a number needs an answer at the scope that produces it.
AnsweredAt(s) == {i \in DOMAIN queries : queries[i].status = "answered" /\ queries[i].scope = s}
FleetValue(s) ==
    IF AnsweredAt(s) = {} THEN Missing
    ELSE Cardinality(UNION {{<<i, n>> : n \in 1 .. queries[i].answer} : i \in AnsweredAt(s)})
Audited(a, d, outcome) == Append(releases, [admin |-> a, device |-> d, outcome |-> outcome])

\* admin.recovery_release: refusals are recorded; the envelope is read in a
\* first critical section and handed out after the second.
ReleaseRefused(a, d) ==
    /\ Len(releases) < MaxReleases /\ release[a] = NoRelease
    /\ ~PermitsRecoveryRelease(a) \/ devices[d] = Missing \/ LatestEnvelope(d) = Missing
    /\ \/ /\ Fine
          /\ releases' = Audited(a, d, IF PermitsRecoveryRelease(a) THEN "not_found" ELSE "denied")
       \/ Fault /\ UNCHANGED releases
    /\ UNCHANGED <<ledgers, reports, answers, envelopes, device, release, given, acked, counters>>

ReleaseRead(a, d) ==
    /\ Len(releases) < MaxReleases /\ release[a] = NoRelease
    /\ PermitsRecoveryRelease(a) /\ devices[d] # Missing /\ LatestEnvelope(d) # Missing
    /\ release' = [release EXCEPT ![a] = [device |-> d, envelope |-> LatestEnvelope(d)]]
    /\ UNCHANGED <<ledgers, logs, device, given, acked, counters, faults>>

ReleaseHand(a) ==
    LET r == release[a]
        key == Open(r.envelope, "tenant")
    IN  /\ r # NoRelease
        /\ \/ /\ Fine
              /\ releases' = Audited(a, r.device, IF key = Missing THEN "unwrap_failed" ELSE "released")
              /\ given' = IF key = Missing THEN given
                          ELSE given \cup {[admin |-> a, device |-> r.device, key |-> key]}
           \/ Fault /\ UNCHANGED <<releases, given>>
        /\ release' = [release EXCEPT ![a] = NoRelease]
        /\ UNCHANGED <<ledgers, reports, answers, envelopes, device, acked, counters>>

\* StateStore::open after the process was killed
ServerRestart ==
    /\ Fault
    /\ devices' = devicesFile /\ queries' = queriesFile
    /\ release' = [a \in Admins |-> NoRelease]
    /\ UNCHANGED <<devicesFile, queriesFile, logs, device, given, acked, counters>>

-----------------------------------------------------------------------------
LedgerCalls(d) ==
    \/ EnrollRegister(d) \/ ComplianceReport(d) \/ InventoryReport(d) \/ QueriesPending(d)
    \/ \E id \in device[d].pulled, refused \in BOOLEAN, n \in {0, 1} : QueriesAnswer(d, id, refused, n)
EscrowCalls(d) == RecoveryKey(d) \/ SealKey(d) \/ RecoveryEscrow(d)
Asks(a) == \E d \in Devices, s \in Scopes : AdminAiQuery(a, d, s)
Releases(a) == (\E d \in Devices : ReleaseRefused(a, d) \/ ReleaseRead(a, d)) \/ ReleaseHand(a)

ServerNext ==
    \/ \E d \in Devices : LedgerCalls(d) \/ EscrowCalls(d)
    \/ \E a \in Admins : Asks(a) \/ Releases(a)
    \/ ServerRestart

ServerSpec == ServerInit /\ [][ServerNext]_serverVars

-----------------------------------------------------------------------------
\* A receipt the device accepted means custody: the envelope it is for is in
\* the organization's file, and opens with the tenant's key to the key of
\* this device's disk; a key that is handed to an administrator is the key of
\* the device it was asked for, somebody with the role asked, and the release
\* is on record (recovery_escrow, escrow_recovery_key, admin_recovery_release).
ReceiptMeansCustody ==
    /\ \A d \in Devices : device[d].custody # Missing =>
        /\ \E i \in DOMAIN envelopes : envelopes[i] = [device |-> d, envelope |-> device[d].custody]
        /\ Open(device[d].custody, "tenant") = Volume[d].key
    /\ \A g \in given :
        /\ g.key = Volume[g.device].key /\ Role[g.admin] \in ReleaseRoles
        /\ \E i \in DOMAIN releases : releases[i] = [admin |-> g.admin, device |-> g.device,
                                                     outcome |-> "released"]

\* What a device was told is accepted outlives the process and stays in the
\* administrators' views: its token, while it has not tried to register
\* again, a report, the end of every question it answered for the one who
\* asked it, and the number an answer puts into the fleet view (register,
\* append_compliance, append_inventory, record_answer, admin_device,
\* admin_query_result, aggregate).
AcknowledgedIsKept ==
    /\ \A d \in Devices : device[d].token # Missing /\ device[d].tried = device[d].token =>
        devicesFile[d] # Missing /\ devicesFile[d].token = device[d].token /\ d \in AdminDevices
    /\ \A r \in acked : "body" \in DOMAIN r =>
        AdminDevice(r.device).last # Missing /\ \E i \in DOMAIN reports : reports[i] = r
    /\ \A r \in acked : "answered" \in DOMAIN r =>
        \E q \in Range(queriesFile) : q.id = r.answered /\ Missing \notin QueryResult(q.admin, q.id)
    /\ \A q \in Range(queriesFile) :
        q.status = "answered" => FleetValue(q.scope) \in Nat

\* The control plane keeps what it acknowledges, recovery material included
\* (every route that answers with success appends or rewrites its file first).
AcknowledgementsHold == ReceiptMeansCustody /\ AcknowledgedIsKept
=============================================================================
