------------------------ MODULE ControlPlane_proofs ------------------------
(***************************************************************************)
(* What the control plane acknowledged is kept (AcknowledgementsHold), by  *)
(* the invariant ServerSafe: a token names one device; the files may lag   *)
(* behind the ledgers in memory, but never in what a device has been told; *)
(* every envelope in the escrow opens to the key of the device it is filed *)
(* under; and a report that was accepted is in the log.                    *)
(***************************************************************************)
EXTENDS ControlPlane, FiniteSetTheorems, NaturalsInduction, TLAPS

-----------------------------------------------------------------------------
(* The control plane's types.                                              *)

Bindings == {DeviceBinding(d) : d \in Devices}
Envelopes == [binding : Bindings, to : {"tenant"}, plain : {Volume[d].key : d \in Devices},
              aad : Bindings, n : Nat]
EnvelopeLine == [device : Devices, envelope : Envelopes]
DeviceState == [token : Nat \cup {Missing}, tried : Nat \cup {Missing},
                tenant : {TenantKey, Missing}, envelope : Envelopes \cup {Missing},
                custody : Envelopes \cup {Missing}, pulled : SUBSET Nat]
QueryRecord == [id : Nat, device : Devices, admin : Admins, scope : Scopes,
                status : {"pending", "answered", "refused"}, delivered : BOOLEAN,
                answer : {0, 1, Missing}]
ReportLine == [device : Devices, body : Bodies]
ReleaseLine == [admin : Admins, device : Devices,
                outcome : {"not_found", "denied", "unwrap_failed", "released"}]
Told == [answered : Nat]
Handed == [admin : Admins, device : Devices, key : {Volume[d].key : d \in Devices}]

LedgerTypes ==
    /\ devices \in [Devices -> DeviceRecord \cup {Missing}]
    /\ devicesFile \in [Devices -> DeviceRecord \cup {Missing}]
    /\ queries \in Seq(QueryRecord)
    /\ queriesFile \in Seq(QueryRecord)
    /\ tokens \in Nat /\ asked \in Nat /\ seals \in Nat

LogTypes ==
    /\ reports \in Seq(ReportLine)
    /\ envelopes \in Seq(EnvelopeLine)
    /\ releases \in Seq(ReleaseLine)
    /\ acked \subseteq ReportLine \cup Told
    /\ given \subseteq Handed

DeviceTypes ==
    /\ device \in [Devices -> DeviceState]
    /\ release \in [Admins -> [device : Devices \cup {Missing}, envelope : Envelopes \cup {Missing}]]

ServerTypeOK == LedgerTypes /\ LogTypes /\ DeviceTypes

-----------------------------------------------------------------------------
(* The invariant.                                                          *)

\* Every registration drew a token of its own, so a token names one device;
\* and the last token a device was given is in the ledger and in its file.
TokensSound ==
    /\ \A d \in Devices : devices[d] # Missing => devices[d].token <= tokens
    /\ \A d \in Devices : devicesFile[d] # Missing => devicesFile[d].token <= tokens
    /\ \A d \in Devices : device[d].token # Missing => device[d].token <= tokens
    /\ \A d, e \in Devices : device[e].token # Missing =>
        /\ devices[d] # Missing /\ devices[d].token = device[e].token => d = e
        /\ devicesFile[d] # Missing /\ devicesFile[d].token = device[e].token => d = e
    /\ \A d \in Devices : device[d].token # Missing /\ device[d].tried = device[d].token =>
        /\ devices[d] # Missing /\ devices[d].token = device[d].token
        /\ devicesFile[d] # Missing /\ devicesFile[d].token = device[d].token

\* The file may be behind the queue, in length and in what has ended, but
\* what the file says has ended has ended so.
Behind(f, q) ==
    /\ f.id = q.id /\ f.device = q.device /\ f.admin = q.admin /\ f.scope = q.scope
    /\ f.status # "pending" => q.status = f.status

\* A question has an id of its own; one that has ended has its count; one a
\* device holds has not; and an answer a device was told is accepted is in the
\* file.
QueriesSound ==
    /\ \A i \in DOMAIN queries : queries[i].id <= asked
    /\ \A i, j \in DOMAIN queries : queries[i].id = queries[j].id => i = j
    /\ \A i \in DOMAIN queries : queries[i].status # "pending" => queries[i].answer \in {0, 1}
    /\ \A i \in DOMAIN queriesFile :
        queriesFile[i].status # "pending" => queriesFile[i].answer \in {0, 1}
    /\ \A i \in DOMAIN queriesFile : i \in DOMAIN queries /\ Behind(queriesFile[i], queries[i])
    /\ \A d \in Devices : \A i \in DOMAIN queries :
        queries[i].id \in device[d].pulled /\ queries[i].device = d => queries[i].status = "pending"
    /\ \A id \in Nat : [answered |-> id] \in acked =>
        \E i \in DOMAIN queriesFile : queriesFile[i].id = id /\ queriesFile[i].status # "pending"

\* An envelope that opens, with the tenant's key, to the key of d's disk.
Good(d, e) ==
    /\ e # Missing /\ ValidBinding(e.binding) /\ e.binding.device_id = d
    /\ e.to = "tenant" /\ e.aad = e.binding /\ e.plain = Volume[d].key

\* Every envelope on its way, in the file or being released is good for the
\* device it is filed under, and a receipt stands for one in the file.
CustodySound ==
    /\ \A d \in Devices : device[d].envelope # Missing => Good(d, device[d].envelope)
    /\ \A d \in Devices : device[d].custody # Missing =>
        /\ Good(d, device[d].custody)
        /\ \E i \in DOMAIN envelopes : envelopes[i] = [device |-> d, envelope |-> device[d].custody]
    /\ \A i \in DOMAIN envelopes : Good(envelopes[i].device, envelopes[i].envelope)
    /\ \A a \in Admins : release[a] # NoRelease =>
        /\ release[a].device \in Devices
        /\ Good(release[a].device, release[a].envelope)
        /\ Role[a] \in ReleaseRoles
    /\ \A g \in given :
        /\ g.key = Volume[g.device].key /\ Role[g.admin] \in ReleaseRoles
        /\ \E i \in DOMAIN releases : releases[i] = [admin |-> g.admin, device |-> g.device,
                                                     outcome |-> "released"]

\* Every report a device was told is accepted is in the file.
ReportsSound ==
    \A r \in acked : r \in ReportLine => \E i \in DOMAIN reports : reports[i] = r

ServerSafe == ServerTypeOK /\ TokensSound /\ QueriesSound /\ CustodySound /\ ReportsSound

-----------------------------------------------------------------------------
(* Helpers.                                                                *)

\* A token that is accepted is the caller's own.
LEMMA CallerIsSelf ==
    ASSUME ServerTypeOK, TokensSound, NEW d \in Devices, RequireToken(d)
    PROVE  Caller(d) = d /\ devices[d] # Missing
<1>1. \E e \in Devices : devices[e] # Missing /\ devices[e].token = device[d].token
  BY Zenon DEF RequireToken, DeviceForToken
<1>2. /\ Caller(d) \in Devices
      /\ devices[Caller(d)] # Missing /\ devices[Caller(d)].token = device[d].token
  BY Zenon, <1>1 DEF Caller, DeviceForToken
<1>3. QED
  BY Zenon, <1>2 DEF TokensSound, RequireToken

\* Appending keeps the lines there are and adds the new one.
LEMMA AppendFacts ==
    ASSUME NEW S, NEW s \in Seq(S), NEW x \in S
    PROVE  /\ Append(s, x) \in Seq(S)
           /\ DOMAIN Append(s, x) = DOMAIN s \cup {Len(s) + 1}
           /\ Len(s) + 1 \notin DOMAIN s
           /\ Append(s, x)[Len(s) + 1] = x
           /\ \A i \in DOMAIN s : Append(s, x)[i] = s[i]
  OBVIOUS

\* A non-empty set of naturals has a least element.
LEMMA LeastNatural ==
    ASSUME NEW T, T \subseteq Nat, T # {}
    PROVE  \E x \in T : \A y \in T : x <= y
<1>1. PICK x \in T : \A y \in T : ~(<<y, x>> \in OpToRel(<, Nat))
  BY Zenon, NatLessThanWellFounded, WFMin
<1>2. \A y \in T : ~(y < x)
  BY Zenon, <1>1 DEF OpToRel
<1>3. QED
  BY <1>2

\* A set of positions of a sequence that has one has a last one.
LEMMA LastPosition ==
    ASSUME NEW S, NEW s \in Seq(S), NEW P \in SUBSET DOMAIN s, P # {}
    PROVE  \E i \in P : \A j \in P : j <= i
<1> DEFINE f(i) == Len(s) - i
           Q == {f(i) : i \in P}
<1>1. Len(s) \in Nat /\ DOMAIN s = 1 .. Len(s)
  OBVIOUS
<1>2. Q \subseteq Nat /\ Q # {}
  BY <1>1
<1>3. PICK m \in Q : \A k \in Q : m <= k
  BY <1>2, LeastNatural
<1>4. PICK i \in P : m = f(i)
  BY <1>3
<1>5. ASSUME NEW j \in P
      PROVE  j <= i
  <2>1. f(j) \in Q
    OBVIOUS
  <2>2. f(i) <= f(j)
    BY <1>3, <1>4, <2>1
  <2>3. i \in Nat /\ j \in Nat
    BY <1>1
  <2>4. QED
    BY <1>1, <2>2, <2>3
<1>6. QED
  BY <1>5

\* The parts of the invariant that a method leaves alone.
LEMMA FrameTokens ==
    ASSUME TokensSound, UNCHANGED <<devices, devicesFile, tokens>>,
           \A d \in Devices : device'[d].token = device[d].token /\ device'[d].tried = device[d].tried
    PROVE  TokensSound'
  BY DEF TokensSound

\* A step that leaves the queue alone leaves it in order, whatever a device
\* forgets.
LEMMA FrameQueries ==
    ASSUME QueriesSound, UNCHANGED <<queries, queriesFile, asked>>,
           \A d \in Devices : device'[d].pulled \subseteq device[d].pulled,
           \A id \in Nat : [answered |-> id] \in acked' => [answered |-> id] \in acked
    PROVE  QueriesSound'
<1>1. queries' = queries /\ queriesFile' = queriesFile /\ asked' = asked
  BY Zenon
<1>2. \A d \in Devices : \A i \in DOMAIN queries :
        queries[i].id \in device'[d].pulled /\ queries[i].device = d => queries[i].status = "pending"
  BY Zenon DEF QueriesSound
<1>3. \A id \in Nat : [answered |-> id] \in acked' =>
        \E i \in DOMAIN queriesFile : queriesFile[i].id = id /\ queriesFile[i].status # "pending"
  BY Zenon DEF QueriesSound
<1>4. QED
  BY <1>1, <1>2, <1>3 DEF QueriesSound

\* A step that leaves escrow and releases alone leaves custody in order.
LEMMA FrameCustody ==
    ASSUME CustodySound, UNCHANGED <<envelopes, releases, release, given>>,
           \A d \in Devices : /\ device'[d].envelope = device[d].envelope
                              /\ device'[d].custody = device[d].custody
    PROVE  CustodySound'
  BY Zenon DEF CustodySound

\* A step that leaves the reports alone leaves them in order.
LEMMA FrameReports ==
    ASSUME ReportsSound, UNCHANGED reports,
           \A r \in acked' : r \in ReportLine => r \in acked
    PROVE  ReportsSound'
  BY Zenon DEF ReportsSound

\* Saving a ledger keeps its file a ledger.
LEMMA SaveTypes ==
    ASSUME NEW ok \in BOOLEAN
    PROVE  /\ SaveDevices(ok) => devicesFile' \in {devices', devicesFile}
           /\ SaveQueries(ok) => queriesFile' \in {queries', queriesFile}
           /\ SaveDevices(TRUE) => devicesFile' = devices'
           /\ SaveQueries(TRUE) => queriesFile' = queries'
           /\ SaveQueries(FALSE) => queriesFile' = queriesFile
  BY DEF SaveDevices, SaveQueries

-----------------------------------------------------------------------------
(* The methods.                                                            *)

\* /v1/enroll: a fresh token, and the device file before the answer.
LEMMA RegisterSafe ==
    ASSUME ServerSafe, NEW d \in Devices, EnrollRegister(d)
    PROVE  ServerSafe'
<1> DEFINE t == tokens + 1
           rec == [token |-> t, synced |-> FALSE, overall |-> Missing]
<1>1. ServerTypeOK /\ TokensSound /\ QueriesSound /\ CustodySound /\ ReportsSound
  BY Zenon DEF ServerSafe
<1>2. /\ tokens' = t
      /\ devices' = [devices EXCEPT ![d] = rec]
      /\ \/ /\ devicesFile' = devices'
            /\ device' = [device EXCEPT ![d].token = t, ![d].tried = t]
         \/ /\ devicesFile' \in {devices', devicesFile}
            /\ device' = [device EXCEPT ![d].tried = t]
      /\ UNCHANGED <<queries, queriesFile, logs, release, given, acked, asked, seals>>
  BY Zenon, SaveTypes DEF EnrollRegister
<1>3. t \in Nat /\ tokens \in Nat /\ t > tokens /\ rec \in DeviceRecord
  BY <1>1 DEF ServerTypeOK, LedgerTypes, DeviceRecord
<1>4. rec # Missing /\ t # Missing /\ rec.token = t
  BY Zenon, <1>3, ServerAssumption
<1>5. device \in [Devices -> DeviceState] /\ device[d] \in DeviceState
  BY Zenon, <1>1 DEF ServerTypeOK, DeviceTypes
<1>6. /\ device' \in [Devices -> DeviceState]
      /\ \A e \in Devices : e # d => device'[e] = device[e]
      /\ device'[d].pulled = device[d].pulled
      /\ device'[d].envelope = device[d].envelope
      /\ device'[d].custody = device[d].custody
      /\ device'[d].tried = t
      /\ \/ device'[d].token = t /\ devicesFile' = devices'
         \/ device'[d].token = device[d].token /\ devicesFile' \in {devices', devicesFile}
  <2> HIDE DEF t
  <2>1. CASE /\ devicesFile' = devices'
             /\ device' = [device EXCEPT ![d].token = t, ![d].tried = t]
    BY <1>3, <1>5, <2>1 DEF DeviceState
  <2>2. CASE /\ devicesFile' \in {devices', devicesFile}
             /\ device' = [device EXCEPT ![d].tried = t]
    BY <1>3, <1>5, <2>2 DEF DeviceState
  <2>3. QED
    BY Zenon, <1>2, <2>1, <2>2
<1> HIDE DEF t, rec
<1>7. devices \in [Devices -> DeviceRecord \cup {Missing}] /\ devicesFile \in [Devices -> DeviceRecord \cup {Missing}]
  BY Zenon, <1>1 DEF ServerTypeOK, LedgerTypes
<1>8. /\ devices' \in [Devices -> DeviceRecord \cup {Missing}]
      /\ devices'[d] = rec
      /\ \A e \in Devices : e # d => devices'[e] = devices[e]
  BY Zenon, <1>2, <1>3, <1>7
<1>9. ServerTypeOK'
  BY Zenon, <1>1, <1>2, <1>3, <1>6, <1>7, <1>8 DEF ServerTypeOK, LedgerTypes, LogTypes, DeviceTypes, logs
<1>10. TokensSound'
  <2>1. ASSUME NEW e \in Devices
        PROVE  /\ devices'[e] # Missing => devices'[e].token <= tokens'
               /\ devicesFile'[e] # Missing => devicesFile'[e].token <= tokens'
               /\ device'[e].token # Missing => device'[e].token <= tokens'
    <3>1. /\ devices[e] # Missing => devices[e].token <= tokens /\ devices[e].token \in Nat
          /\ devicesFile[e] # Missing => devicesFile[e].token <= tokens /\ devicesFile[e].token \in Nat
          /\ device[e].token # Missing => device[e].token <= tokens /\ device[e].token \in Nat
      BY Zenon, <1>1, <1>5, <1>7 DEF TokensSound, DeviceRecord, DeviceState
    <3>2. devices'[e] # Missing => devices'[e].token <= t
      BY <1>3, <1>4, <1>8, <3>1
    <3>3. devicesFile'[e] \in {devices'[e], devicesFile[e]}
      BY Zenon, <1>6
    <3>4. devicesFile[e] # Missing => devicesFile[e].token <= t
      BY <1>3, <3>1
    <3>5. device'[e].token # Missing => device'[e].token <= t
      BY <1>3, <1>6, <3>1
    <3>6. QED
      BY Zenon, <1>2, <3>2, <3>3, <3>4, <3>5
  <2>2. ASSUME NEW e \in Devices
        PROVE  /\ devices[e] # Missing => devices[e].token # t
               /\ devicesFile[e] # Missing => devicesFile[e].token # t
               /\ device[e].token # Missing => device[e].token # t
    <3>1. /\ devices[e] # Missing => devices[e].token <= tokens /\ devices[e].token \in Nat
          /\ devicesFile[e] # Missing => devicesFile[e].token <= tokens /\ devicesFile[e].token \in Nat
          /\ device[e].token # Missing => device[e].token <= tokens /\ device[e].token \in Nat
      BY Zenon, <1>1, <1>5, <1>7 DEF TokensSound, DeviceRecord, DeviceState
    <3>2. QED
      BY <1>3, <3>1
  <2>3. ASSUME NEW c \in Devices, NEW e \in Devices, device'[e].token # Missing
        PROVE  /\ devices'[c] # Missing /\ devices'[c].token = device'[e].token => c = e
               /\ devicesFile'[c] # Missing /\ devicesFile'[c].token = device'[e].token => c = e
    <3>1. device'[e].token = device[e].token \/ (e = d /\ device'[e].token = t)
      BY Zenon, <1>6
    <3>2. devices'[c] = devices[c] \/ (c = d /\ devices'[c].token = t)
      BY Zenon, <1>4, <1>8
    <3>3. devicesFile'[c] = devices'[c] \/ devicesFile'[c] = devicesFile[c]
      BY Zenon, <1>6
    <3>4. device[e].token # Missing =>
            /\ devices[c] # Missing /\ devices[c].token = device[e].token => c = e
            /\ devicesFile[c] # Missing /\ devicesFile[c].token = device[e].token => c = e
      BY Zenon, <1>1 DEF TokensSound
    <3>5. CASE device'[e].token = device[e].token
      BY Zenon, <2>2, <2>3, <3>2, <3>3, <3>4, <3>5
    <3>6. CASE e = d /\ device'[e].token = t
      BY Zenon, <2>2, <3>2, <3>3, <3>6
    <3>7. QED
      BY Zenon, <3>1, <3>5, <3>6
  <2>4. ASSUME NEW e \in Devices, device'[e].token # Missing, device'[e].tried = device'[e].token
        PROVE  /\ devices'[e] # Missing /\ devices'[e].token = device'[e].token
               /\ devicesFile'[e] # Missing /\ devicesFile'[e].token = device'[e].token
    <3>1. CASE e = d
      <4>1. device'[d].token = t /\ devicesFile' = devices'
        BY Zenon, <1>6, <2>2, <2>4, <3>1
      <4>2. QED
        BY Zenon, <1>4, <1>8, <3>1, <4>1
    <3>2. CASE e # d
      <4>1. /\ devices[e] # Missing /\ devices[e].token = device[e].token
            /\ devicesFile[e] # Missing /\ devicesFile[e].token = device[e].token
        BY Zenon, <1>1, <1>6, <2>4, <3>2 DEF TokensSound
      <4>2. QED
        BY Zenon, <1>6, <1>8, <3>2, <4>1
    <3>3. QED
      BY Zenon, <3>1, <3>2
  <2>5. QED
    BY Zenon, <2>1, <2>3, <2>4 DEF TokensSound
<1>11. QueriesSound' /\ CustodySound' /\ ReportsSound'
  <2>1. \A e \in Devices : /\ device'[e].pulled = device[e].pulled
                           /\ device'[e].envelope = device[e].envelope
                           /\ device'[e].custody = device[e].custody
    BY Zenon, <1>6
  <2>2. QED
    BY Zenon, <1>1, <1>2, <2>1, FrameQueries, FrameCustody, FrameReports DEF logs
<1>12. QED
  BY Zenon, <1>9, <1>10, <1>11 DEF ServerSafe

\* /v1/report: the ledger line and the stamp of the device.
LEMMA ReportSafe ==
    ASSUME ServerSafe, NEW d \in Devices, NEW overall \in {"compliant", "non_compliant", Missing},
           NEW body \in Bodies, Report(d, overall, body)
    PROVE  ServerSafe'
<1> DEFINE line == [device |-> d, body |-> body]
<1>1. ServerTypeOK /\ TokensSound /\ QueriesSound /\ CustodySound /\ ReportsSound
  BY Zenon DEF ServerSafe
<1>2. Caller(d) = d /\ devices[d] # Missing
  BY Zenon, <1>1, CallerIsSelf DEF Report
<1>3. /\ devices' = StampSync(d, overall)
      /\ devicesFile' \in {devices', devicesFile}
      /\ \/ reports' = Append(reports, line) /\ acked' = acked \cup {line}
         \/ reports' \in {reports, Append(reports, line)} /\ acked' = acked
      /\ UNCHANGED <<queries, queriesFile, answers, envelopes, releases, device, release, given, counters>>
  BY Zenon, <1>2, SaveTypes DEF Report
<1>4. line \in ReportLine
  BY DEF ReportLine
<1>5. devices \in [Devices -> DeviceRecord \cup {Missing}] /\ devicesFile \in [Devices -> DeviceRecord \cup {Missing}]
  BY Zenon, <1>1 DEF ServerTypeOK, LedgerTypes
<1>6. devices[d] \in DeviceRecord
  BY Zenon, <1>2, <1>5
<1>7. /\ devices' \in [Devices -> DeviceRecord \cup {Missing}]
      /\ devices'[d] \in DeviceRecord /\ devices'[d].token = devices[d].token
      /\ \A e \in Devices : e # d => devices'[e] = devices[e]
  <2> DEFINE stamped == [devices EXCEPT ![d] = [devices[d] EXCEPT !.synced = TRUE]]
             o == IF overall = Missing THEN stamped[d].overall ELSE overall
             rec == [stamped[d] EXCEPT !.overall = o]
  <2>1. devices' = [stamped EXCEPT ![d] = rec]
    BY Zenon, <1>3 DEF StampSync
  <2>2. /\ stamped \in [Devices -> DeviceRecord \cup {Missing}]
        /\ stamped[d] \in DeviceRecord /\ stamped[d].token = devices[d].token
        /\ \A e \in Devices : e # d => stamped[e] = devices[e]
    <3> DEFINE new == [devices[d] EXCEPT !.synced = TRUE]
    <3>1. new \in DeviceRecord /\ new.token = devices[d].token
      BY <1>6 DEF DeviceRecord
    <3> HIDE DEF new
    <3>2. stamped = [devices EXCEPT ![d] = new]
      BY Zenon DEF new
    <3> HIDE DEF stamped
    <3>3. QED
      BY Zenon, <1>5, <3>1, <3>2
  <2> HIDE DEF stamped
  <2>3. o \in {"compliant", "non_compliant", Missing}
    BY Zenon, <2>2 DEF DeviceRecord
  <2> HIDE DEF o
  <2>4. rec \in DeviceRecord /\ rec.token = stamped[d].token
    BY <2>2, <2>3 DEF DeviceRecord
  <2> HIDE DEF rec
  <2>5. QED
    BY Zenon, <2>1, <2>2, <2>4
<1>8. devices'[d] # Missing
  BY Zenon, <1>7, ServerAssumption
<1> HIDE DEF line
<1>9. TokensSound'
  <2>1. \A e \in Devices : /\ devices'[e] # Missing <=> devices[e] # Missing
                           /\ devices'[e] # Missing => devices'[e].token = devices[e].token
    BY Zenon, <1>2, <1>7, <1>8
  <2>2. \A e \in Devices : devicesFile'[e] = devices'[e] \/ devicesFile'[e] = devicesFile[e]
    BY Zenon, <1>3
  <2>3. device' = device /\ tokens' = tokens
    BY Zenon, <1>3 DEF counters
  <2>4. QED
    BY <1>1, <2>1, <2>2, <2>3 DEF TokensSound
<1>10. /\ reports' \in Seq(ReportLine)
       /\ acked' \subseteq ReportLine \cup Told
       /\ ReportsSound'
  <2>1. reports \in Seq(ReportLine) /\ acked \subseteq ReportLine \cup Told
    BY Zenon, <1>1 DEF ServerTypeOK, LogTypes
  <2>2. /\ Append(reports, line) \in Seq(ReportLine)
        /\ DOMAIN Append(reports, line) = DOMAIN reports \cup {Len(reports) + 1}
        /\ Append(reports, line)[Len(reports) + 1] = line
        /\ \A i \in DOMAIN reports : Append(reports, line)[i] = reports[i]
    BY <1>4, <2>1, AppendFacts
  <2>3. reports' \in Seq(ReportLine) /\ acked' \subseteq ReportLine \cup Told
    BY Zenon, <1>3, <1>4, <2>1, <2>2
  <2>4. \A i \in DOMAIN reports : i \in DOMAIN reports' /\ reports'[i] = reports[i]
    BY Zenon, <1>3, <2>2
  <2>5. line \in acked' => line \in acked \/ \E i \in DOMAIN reports' : reports'[i] = line
    BY Zenon, <1>3, <2>2
  <2>6. \A r \in acked' : r \in acked \/ r = line
    BY Zenon, <1>3
  <2>7. QED
    BY Zenon, <1>1, <2>3, <2>4, <2>5, <2>6 DEF ReportsSound
<1>11. ServerTypeOK'
  BY Zenon, <1>1, <1>3, <1>5, <1>7, <1>10 DEF ServerTypeOK, LedgerTypes, LogTypes, DeviceTypes, counters
<1>12. QueriesSound'
  <2>1. \A id \in Nat : [answered |-> id] # line
    BY DEF line
  <2>2. \A id \in Nat : [answered |-> id] \in acked' => [answered |-> id] \in acked
    BY Zenon, <1>3, <2>1
  <2>3. QED
    BY Zenon, <1>1, <1>3, <2>2, FrameQueries DEF counters
<1>13. CustodySound'
  BY Zenon, <1>1, <1>3, FrameCustody
<1>14. QED
  BY Zenon, <1>9, <1>10, <1>11, <1>12, <1>13 DEF ServerSafe

\* An update of the queue that leaves every question what it asks keeps the
\* file behind it.
LEMMA QueueTypes ==
    ASSUME ServerTypeOK
    PROVE  /\ queries \in Seq(QueryRecord) /\ queriesFile \in Seq(QueryRecord)
           /\ \A i \in DOMAIN queries : queries[i] \in QueryRecord
           /\ \A i \in DOMAIN queriesFile : queriesFile[i] \in QueryRecord
           /\ DOMAIN queries = 1 .. Len(queries) /\ Len(queries) \in Nat
           /\ \A s : (DOMAIN s = DOMAIN queries /\ s = [i \in DOMAIN s |-> s[i]]
                      /\ \A i \in DOMAIN s : s[i] \in QueryRecord) => s \in Seq(QueryRecord)
<1>1. queries \in Seq(QueryRecord) /\ queriesFile \in Seq(QueryRecord)
  BY Zenon DEF ServerTypeOK, LedgerTypes
<1>2. DOMAIN queries = 1 .. Len(queries) /\ Len(queries) \in Nat
  BY <1>1
<1>3. ASSUME NEW s, DOMAIN s = DOMAIN queries, s = [i \in DOMAIN s |-> s[i]],
             \A i \in DOMAIN s : s[i] \in QueryRecord
      PROVE  s \in Seq(QueryRecord)
  <2>1. s \in [1 .. Len(queries) -> QueryRecord]
    BY <1>2, <1>3
  <2>2. QED
    BY <1>2, <2>1
<1>4. QED
  BY <1>1, <1>2, <1>3

\* /v1/queries/pending: pending questions are marked delivered on the way out.
LEMMA PendingSafe ==
    ASSUME ServerSafe, NEW d \in Devices, QueriesPending(d)
    PROVE  ServerSafe'
<1> DEFINE taken == PendingForDevice(d)
           ids == {queries[i].id : i \in taken}
<1>1. ServerTypeOK /\ TokensSound /\ QueriesSound /\ CustodySound /\ ReportsSound
  BY Zenon DEF ServerSafe
<1>2. Caller(d) = d
  BY Zenon, <1>1, CallerIsSelf DEF QueriesPending
<1>3. /\ queries' = [i \in DOMAIN queries |->
                        IF i \in taken THEN [queries[i] EXCEPT !.delivered = TRUE] ELSE queries[i]]
      /\ queriesFile' \in {queries', queriesFile}
      /\ device' = device \/ device' = [device EXCEPT ![d].pulled = ids]
      /\ UNCHANGED <<devices, devicesFile, logs, release, given, acked, counters>>
  BY Zenon, <1>2, SaveTypes DEF QueriesPending
<1>4. \A i \in taken : /\ i \in DOMAIN queries
                       /\ queries[i].device = d /\ queries[i].status = "pending"
  BY DEF PendingForDevice
<1>5. /\ queries \in Seq(QueryRecord) /\ queriesFile \in Seq(QueryRecord)
      /\ \A i \in DOMAIN queries : queries[i] \in QueryRecord
  BY Zenon, <1>1, QueueTypes
<1>6. ids \subseteq Nat
  BY <1>4, <1>5 DEF QueryRecord
<1> HIDE DEF taken
<1>7. /\ DOMAIN queries' = DOMAIN queries
      /\ \A i \in DOMAIN queries :
            /\ queries'[i] \in QueryRecord
            /\ queries'[i].id = queries[i].id /\ queries'[i].device = queries[i].device
            /\ queries'[i].admin = queries[i].admin /\ queries'[i].scope = queries[i].scope
            /\ queries'[i].status = queries[i].status /\ queries'[i].answer = queries[i].answer
  BY <1>3, <1>5 DEF QueryRecord
<1>8. queries' \in Seq(QueryRecord)
  <2>1. queries' = [i \in DOMAIN queries' |-> queries'[i]]
    BY Zenon, <1>3
  <2>2. QED
    BY Zenon, <1>1, <1>7, <2>1, QueueTypes
<1>9. device \in [Devices -> DeviceState]
  BY Zenon, <1>1 DEF ServerTypeOK, DeviceTypes
<1> HIDE DEF ids
<1>10. /\ device' \in [Devices -> DeviceState]
       /\ \A e \in Devices :
            /\ device'[e].token = device[e].token /\ device'[e].tried = device[e].tried
            /\ device'[e].envelope = device[e].envelope /\ device'[e].custody = device[e].custody
            /\ device'[e].pulled = device[e].pulled \/ (e = d /\ device'[e].pulled = ids)
  <2>1. CASE device' = device
    BY Zenon, <1>9, <2>1
  <2>2. CASE device' = [device EXCEPT ![d].pulled = ids]
    BY <1>6, <1>9, <2>2 DEF DeviceState
  <2>3. QED
    BY Zenon, <1>3, <2>1, <2>2
<1>11. ServerTypeOK'
  BY Zenon, <1>1, <1>3, <1>5, <1>8, <1>10
     DEF ServerTypeOK, LedgerTypes, LogTypes, DeviceTypes, logs, counters
<1>12. TokensSound' /\ CustodySound' /\ ReportsSound'
  BY Zenon, <1>1, <1>3, <1>10, FrameTokens, FrameCustody, FrameReports DEF logs, counters
<1>13. QueriesSound'
  <2>1. asked' = asked /\ acked' = acked
    BY Zenon, <1>3 DEF counters
  <2>2. /\ \A i \in DOMAIN queries' : queries'[i].id <= asked'
        /\ \A i, j \in DOMAIN queries' : queries'[i].id = queries'[j].id => i = j
        /\ \A i \in DOMAIN queries' : queries'[i].status # "pending" => queries'[i].answer \in {0, 1}
    BY Zenon, <1>1, <1>7, <2>1 DEF QueriesSound
  <2>3. \A i \in DOMAIN queriesFile : i \in DOMAIN queries' /\ Behind(queriesFile[i], queries'[i])
    BY <1>1, <1>7 DEF QueriesSound, Behind
  <2>4. \A i \in DOMAIN queries' : Behind(queries'[i], queries'[i])
    BY Zenon DEF Behind
  <2>5. \A i \in DOMAIN queriesFile' : i \in DOMAIN queries' /\ Behind(queriesFile'[i], queries'[i])
    BY Zenon, <1>3, <2>3, <2>4
  <2>6. \A i \in DOMAIN queriesFile' :
            queriesFile'[i].status # "pending" => queriesFile'[i].answer \in {0, 1}
    <3>1. \A i \in DOMAIN queriesFile :
            queriesFile[i].status # "pending" => queriesFile[i].answer \in {0, 1}
      BY Zenon, <1>1 DEF QueriesSound
    <3>2. QED
      BY Zenon, <1>3, <2>2, <3>1
  <2>7. ASSUME NEW e \in Devices, NEW i \in DOMAIN queries',
               queries'[i].id \in device'[e].pulled, queries'[i].device = e
        PROVE  queries'[i].status = "pending"
    <3>1. CASE device'[e].pulled = device[e].pulled
      BY <1>1, <1>7, <2>7, <3>1 DEF QueriesSound
    <3>2. CASE device'[e].pulled = ids
      <4>1. PICK j \in taken : queries[j].id = queries[i].id
        BY <1>7, <2>7, <3>2 DEF ids
      <4>2. i = j
        BY Zenon, <1>1, <1>4, <1>7, <2>7, <4>1 DEF QueriesSound, taken
      <4>3. QED
        BY Zenon, <1>4, <1>7, <4>1, <4>2 DEF taken
    <3>3. QED
      BY Zenon, <1>10, <3>1, <3>2
  <2>8. ASSUME NEW id \in Nat, [answered |-> id] \in acked'
        PROVE  \E i \in DOMAIN queriesFile' :
                    queriesFile'[i].id = id /\ queriesFile'[i].status # "pending"
    <3>1. PICK i \in DOMAIN queriesFile : queriesFile[i].id = id /\ queriesFile[i].status # "pending"
      BY Zenon, <1>1, <2>1, <2>8 DEF QueriesSound
    <3>2. i \in DOMAIN queries' /\ queries'[i].id = id /\ queries'[i].status # "pending"
      BY Zenon, <2>3, <3>1 DEF Behind
    <3>3. QED
      BY Zenon, <1>3, <3>1, <3>2
  <2>9. QED
    BY Zenon, <2>2, <2>5, <2>6, <2>7, <2>8 DEF QueriesSound
<1>14. QED
  BY Zenon, <1>11, <1>12, <1>13 DEF ServerSafe

\* /v1/queries/answer: a delivered question is answered once and kept.
LEMMA AnswerSafe ==
    ASSUME ServerSafe, NEW d \in Devices, NEW id \in device[d].pulled,
           NEW refused \in BOOLEAN, NEW n \in {0, 1}, QueriesAnswer(d, id, refused, n)
    PROVE  ServerSafe'
<1> DEFINE told == [answered |-> id]
           s == IF refused THEN "refused" ELSE "answered"
           left == device[d].pulled \ {id}
<1>1. ServerTypeOK /\ TokensSound /\ QueriesSound /\ CustodySound /\ ReportsSound
  BY Zenon DEF ServerSafe
<1>2. Caller(d) = d
  BY Zenon, <1>1, CallerIsSelf DEF QueriesAnswer
<1>3. /\ device' = [device EXCEPT ![d].pulled = left]
      /\ \/ UNCHANGED <<queries, queriesFile, acked>>
         \/ \E i \in Entry(id, d) :
              /\ queries' = [queries EXCEPT ![i].status = s, ![i].answer = n]
              /\ \/ queriesFile' = queries' /\ acked' = acked \cup {told}
                 \/ queriesFile' \in {queries', queriesFile} /\ acked' = acked
      /\ UNCHANGED <<devices, devicesFile, reports, envelopes, releases, release, given, counters>>
  BY Zenon, <1>2, SaveTypes DEF QueriesAnswer
<1>4. device \in [Devices -> DeviceState]
  BY Zenon, <1>1 DEF ServerTypeOK, DeviceTypes
<1>5. id \in Nat /\ left \subseteq Nat
  BY Zenon, <1>4 DEF DeviceState
<1> HIDE DEF left
<1>6. /\ device' \in [Devices -> DeviceState]
      /\ \A e \in Devices :
            /\ device'[e].token = device[e].token /\ device'[e].tried = device[e].tried
            /\ device'[e].envelope = device[e].envelope /\ device'[e].custody = device[e].custody
            /\ device'[e].pulled = IF e = d THEN left ELSE device[e].pulled
  BY <1>3, <1>4, <1>5 DEF DeviceState
<1>7. \A e \in Devices : device'[e].pulled \subseteq device[e].pulled
  BY Zenon, <1>6 DEF left
<1>8. TokensSound' /\ CustodySound'
  BY Zenon, <1>1, <1>3, <1>6, FrameTokens, FrameCustody DEF counters
<1>9. told \in Told /\ told \notin ReportLine
  BY <1>5 DEF Told, ReportLine
<1>10. /\ acked' \subseteq ReportLine \cup Told
       /\ ReportsSound'
  <2>1. acked' \in {acked, acked \cup {told}}
    BY Zenon, <1>3
  <2>2. acked \subseteq ReportLine \cup Told
    BY Zenon, <1>1 DEF ServerTypeOK, LogTypes
  <2>3. acked' \subseteq ReportLine \cup Told
    BY Zenon, <1>9, <2>1, <2>2
  <2>4. QED
    BY Zenon, <1>1, <1>3, <1>9, <2>1, <2>3, FrameReports
<1>11. CASE UNCHANGED <<queries, queriesFile, acked>>
  <2>1. QueriesSound'
    BY Zenon, <1>1, <1>3, <1>7, <1>11, FrameQueries DEF counters
  <2>2. ServerTypeOK'
    BY Zenon, <1>1, <1>3, <1>6, <1>11 DEF ServerTypeOK, LedgerTypes, LogTypes, DeviceTypes, counters
  <2>3. QED
    BY Zenon, <1>8, <1>10, <2>1, <2>2 DEF ServerSafe
<1>12. ASSUME NEW i \in Entry(id, d),
              queries' = [queries EXCEPT ![i].status = s, ![i].answer = n],
              \/ queriesFile' = queries' /\ acked' = acked \cup {told}
              \/ queriesFile' \in {queries', queriesFile} /\ acked' = acked
       PROVE  ServerSafe'
  <2>1. i \in DOMAIN queries /\ queries[i].id = id /\ queries[i].device = d
    BY Zenon DEF Entry
  <2>2. /\ queries \in Seq(QueryRecord) /\ queriesFile \in Seq(QueryRecord)
        /\ \A j \in DOMAIN queries : queries[j] \in QueryRecord
    BY Zenon, <1>1, QueueTypes
  <2>3. s \in {"answered", "refused"}
    BY Zenon
  <2> HIDE DEF s
  <2>4. /\ DOMAIN queries' = DOMAIN queries
        /\ \A j \in DOMAIN queries : j # i => queries'[j] = queries[j]
        /\ queries'[i] \in QueryRecord
        /\ queries'[i].id = queries[i].id /\ queries'[i].device = queries[i].device
        /\ queries'[i].admin = queries[i].admin /\ queries'[i].scope = queries[i].scope
        /\ queries'[i].status = s /\ queries'[i].answer = n
    <3>1. queries' = [queries EXCEPT ![i] = [[queries[i] EXCEPT !.status = s] EXCEPT !.answer = n]]
      BY <1>12, <2>1, <2>2
    <3>2. queries[i] \in QueryRecord
      BY Zenon, <2>1, <2>2
    <3> DEFINE q == [[queries[i] EXCEPT !.status = s] EXCEPT !.answer = n]
    <3>3. /\ q \in QueryRecord
          /\ q.id = queries[i].id /\ q.device = queries[i].device
          /\ q.admin = queries[i].admin /\ q.scope = queries[i].scope
          /\ q.status = s /\ q.answer = n
      BY <2>3, <3>2 DEF QueryRecord
    <3> HIDE DEF q
    <3>4. queries' = [queries EXCEPT ![i] = q]
      BY Zenon, <3>1 DEF q
    <3>5. QED
      BY <2>1, <2>2, <3>3, <3>4
  <2>5. queries' \in Seq(QueryRecord)
    <3>1. queries' = [j \in DOMAIN queries' |-> queries'[j]]
      BY <1>12, <2>2
    <3>2. \A j \in DOMAIN queries' : queries'[j] \in QueryRecord
      BY Zenon, <2>2, <2>4
    <3>3. QED
      BY Zenon, <1>1, <2>4, <3>1, <3>2, QueueTypes
  <2>6. s # "pending"
    BY <2>3
  <2>7. queries[i].status = "pending"
    BY Zenon, <1>1, <2>1 DEF QueriesSound
  <2>8. asked' = asked
    BY Zenon, <1>3 DEF counters
  <2>9. /\ \A j \in DOMAIN queries' : queries'[j].id <= asked'
        /\ \A j, k \in DOMAIN queries' : queries'[j].id = queries'[k].id => j = k
        /\ \A j \in DOMAIN queries' : queries'[j].status # "pending" => queries'[j].answer \in {0, 1}
    <3>1. \A j \in DOMAIN queries : queries'[j].id = queries[j].id
      BY Zenon, <2>4
    <3>2. QED
      BY Zenon, <1>1, <2>4, <2>8, <3>1 DEF QueriesSound
  <2>10. \A j \in DOMAIN queriesFile : j \in DOMAIN queries' /\ Behind(queriesFile[j], queries'[j])
    <3>1. SUFFICES ASSUME NEW j \in DOMAIN queriesFile
                   PROVE  j \in DOMAIN queries' /\ Behind(queriesFile[j], queries'[j])
      OBVIOUS
    <3>2. j \in DOMAIN queries /\ Behind(queriesFile[j], queries[j])
      BY Zenon, <1>1 DEF QueriesSound
    <3>3. CASE j # i
      BY Zenon, <2>4, <3>2, <3>3
    <3>4. CASE j = i
      BY Zenon, <2>4, <2>7, <3>2, <3>4 DEF Behind
    <3>5. QED
      BY Zenon, <3>3, <3>4
  <2>11. \A j \in DOMAIN queries' : Behind(queries'[j], queries'[j])
    BY Zenon DEF Behind
  <2>12. \A j \in DOMAIN queriesFile' : j \in DOMAIN queries' /\ Behind(queriesFile'[j], queries'[j])
    BY Zenon, <1>12, <2>10, <2>11
  <2>13. \A j \in DOMAIN queriesFile' :
            queriesFile'[j].status # "pending" => queriesFile'[j].answer \in {0, 1}
    <3>1. \A j \in DOMAIN queriesFile :
            queriesFile[j].status # "pending" => queriesFile[j].answer \in {0, 1}
      BY Zenon, <1>1 DEF QueriesSound
    <3>2. QED
      BY Zenon, <1>12, <2>9, <3>1
  <2>14. ASSUME NEW e \in Devices, NEW j \in DOMAIN queries',
                queries'[j].id \in device'[e].pulled, queries'[j].device = e
         PROVE  queries'[j].status = "pending"
    <3>1. CASE j = i
      <4>1. e = d /\ queries'[j].id = id
        BY Zenon, <2>1, <2>4, <2>14, <3>1
      <4>2. id \notin device'[d].pulled
        BY Zenon, <1>6 DEF left
      <4>3. QED
        BY Zenon, <2>14, <4>1, <4>2
    <3>2. CASE j # i
      BY <1>1, <1>7, <2>4, <2>14, <3>2 DEF QueriesSound
    <3>3. QED
      BY Zenon, <3>1, <3>2
  <2>15. ASSUME NEW k \in Nat, [answered |-> k] \in acked'
         PROVE  \E j \in DOMAIN queriesFile' :
                    queriesFile'[j].id = k /\ queriesFile'[j].status # "pending"
    <3>1. CASE [answered |-> k] \in acked
      <4>1. PICK j \in DOMAIN queriesFile : queriesFile[j].id = k /\ queriesFile[j].status # "pending"
        BY Zenon, <1>1, <3>1 DEF QueriesSound
      <4>2. j \in DOMAIN queries' /\ queries'[j].id = k /\ queries'[j].status # "pending"
        BY Zenon, <2>10, <4>1 DEF Behind
      <4>3. QED
        BY Zenon, <1>12, <4>1, <4>2
    <3>2. CASE [answered |-> k] \notin acked
      <4>1. queriesFile' = queries' /\ [answered |-> k] = told
        BY Zenon, <1>12, <2>15, <3>2
      <4>2. k = id
        <5>1. [answered |-> k].answered = told.answered
          BY Zenon, <4>1
        <5>2. QED
          BY <5>1
      <4>3. QED
        BY Zenon, <2>1, <2>4, <2>6, <4>1, <4>2
    <3>3. QED
      BY Zenon, <3>1, <3>2
  <2>16. QueriesSound'
    BY Zenon, <2>9, <2>12, <2>13, <2>14, <2>15 DEF QueriesSound
  <2>17. ServerTypeOK'
    BY Zenon, <1>1, <1>3, <1>6, <1>10, <1>12, <2>2, <2>5
       DEF ServerTypeOK, LedgerTypes, LogTypes, DeviceTypes, counters
  <2>18. QED
    BY Zenon, <1>8, <1>10, <2>16, <2>17 DEF ServerSafe
<1>13. QED
  BY Zenon, <1>3, <1>11, <1>12

\* An admin's question gets an id nobody has.
LEMMA AskSafe ==
    ASSUME ServerSafe, NEW a \in Admins, NEW d \in Devices, NEW sc \in Scopes, AdminAiQuery(a, d, sc)
    PROVE  ServerSafe'
<1> DEFINE q == [id |-> asked + 1, device |-> d, admin |-> a, scope |-> sc,
                 status |-> "pending", delivered |-> FALSE, answer |-> Missing]
           new == Len(queries) + 1
<1>1. ServerTypeOK /\ TokensSound /\ QueriesSound /\ CustodySound /\ ReportsSound
  BY Zenon DEF ServerSafe
<1>2. /\ asked' = asked + 1
      /\ queries' = Append(queries, q)
      /\ queriesFile' \in {queries', queriesFile}
      /\ UNCHANGED <<devices, devicesFile, logs, device, release, given, acked, tokens, seals>>
  BY Zenon, SaveTypes DEF AdminAiQuery
<1>3. asked \in Nat /\ q \in QueryRecord /\ q.id = asked + 1 /\ q.status = "pending" /\ q.device = d
  BY <1>1 DEF ServerTypeOK, LedgerTypes, QueryRecord
<1>4. queries \in Seq(QueryRecord) /\ queriesFile \in Seq(QueryRecord)
      /\ \A i \in DOMAIN queries : queries[i] \in QueryRecord
  BY Zenon, <1>1, QueueTypes
<1> HIDE DEF q, new
<1>5. /\ queries' \in Seq(QueryRecord)
      /\ DOMAIN queries' = DOMAIN queries \cup {new}
      /\ new \notin DOMAIN queries
      /\ queries'[new] = q
      /\ \A i \in DOMAIN queries : queries'[i] = queries[i]
  BY <1>2, <1>3, <1>4, AppendFacts DEF new
<1>6. \A i \in DOMAIN queries : queries[i].id <= asked /\ queries[i].id \in Nat
  BY Zenon, <1>1, <1>4 DEF QueriesSound, QueryRecord
<1>7. \A i \in DOMAIN queries : queries'[i].id # q.id /\ queries'[i].id <= asked + 1
  BY <1>3, <1>5, <1>6
<1>8. q.id <= asked + 1
  BY <1>3
<1>9. /\ \A i \in DOMAIN queries' : queries'[i].id <= asked'
      /\ \A i, j \in DOMAIN queries' : queries'[i].id = queries'[j].id => i = j
      /\ \A i \in DOMAIN queries' : queries'[i].status # "pending" => queries'[i].answer \in {0, 1}
  <2>1. \A i \in DOMAIN queries' : queries'[i].id <= asked'
    BY Zenon, <1>2, <1>5, <1>7, <1>8
  <2>2. \A i, j \in DOMAIN queries' : queries'[i].id = queries'[j].id => i = j
    BY Zenon, <1>1, <1>5, <1>7 DEF QueriesSound
  <2>3. \A i \in DOMAIN queries' : queries'[i].status # "pending" => queries'[i].answer \in {0, 1}
    BY Zenon, <1>1, <1>3, <1>5 DEF QueriesSound
  <2>4. QED
    BY Zenon, <2>1, <2>2, <2>3
<1>10. \A i \in DOMAIN queriesFile : i \in DOMAIN queries' /\ Behind(queriesFile[i], queries'[i])
  BY Zenon, <1>1, <1>5 DEF QueriesSound
<1>11. \A i \in DOMAIN queries' : Behind(queries'[i], queries'[i])
  BY Zenon DEF Behind
<1>12. \A i \in DOMAIN queriesFile' : i \in DOMAIN queries' /\ Behind(queriesFile'[i], queries'[i])
  BY Zenon, <1>2, <1>10, <1>11
<1>13. \A i \in DOMAIN queriesFile' :
            queriesFile'[i].status # "pending" => queriesFile'[i].answer \in {0, 1}
  BY Zenon, <1>1, <1>2, <1>9 DEF QueriesSound
<1>14. \A e \in Devices : \A i \in DOMAIN queries' :
            queries'[i].id \in device'[e].pulled /\ queries'[i].device = e => queries'[i].status = "pending"
  BY <1>1, <1>2, <1>3, <1>5 DEF QueriesSound
<1>15. \A id \in Nat : [answered |-> id] \in acked' =>
            \E i \in DOMAIN queriesFile' : queriesFile'[i].id = id /\ queriesFile'[i].status # "pending"
  <2>1. SUFFICES ASSUME NEW id \in Nat, [answered |-> id] \in acked
                 PROVE  \E i \in DOMAIN queriesFile' :
                            queriesFile'[i].id = id /\ queriesFile'[i].status # "pending"
    BY Zenon, <1>2
  <2>2. PICK i \in DOMAIN queriesFile : queriesFile[i].id = id /\ queriesFile[i].status # "pending"
    BY Zenon, <1>1, <2>1 DEF QueriesSound
  <2>3. i \in DOMAIN queries' /\ queries'[i].id = id /\ queries'[i].status # "pending"
    BY Zenon, <1>10, <2>2 DEF Behind
  <2>4. QED
    BY Zenon, <1>2, <2>2, <2>3
<1>16. QueriesSound'
  BY Zenon, <1>9, <1>12, <1>13, <1>14, <1>15 DEF QueriesSound
<1>17. ServerTypeOK'
  <2>1. asked' \in Nat
    BY <1>2, <1>3
  <2>2. QED
    BY Zenon, <1>1, <1>2, <1>4, <1>5, <2>1
       DEF ServerTypeOK, LedgerTypes, LogTypes, DeviceTypes, logs
<1>18. TokensSound' /\ CustodySound' /\ ReportsSound'
  BY Zenon, <1>1, <1>2, FrameTokens, FrameCustody, FrameReports DEF logs
<1>19. QED
  BY Zenon, <1>16, <1>17, <1>18 DEF ServerSafe

\* StateStore::open takes both ledgers from their files.
LEMMA ServerRestartSafe ==
    ASSUME ServerSafe, ServerRestart
    PROVE  ServerSafe'
<1>1. ServerTypeOK /\ TokensSound /\ QueriesSound /\ CustodySound /\ ReportsSound
  BY Zenon DEF ServerSafe
<1>2. /\ devices' = devicesFile /\ queries' = queriesFile
      /\ release' = [a \in Admins |-> NoRelease]
      /\ UNCHANGED <<devicesFile, queriesFile, reports, envelopes, releases, device, given, acked,
                     tokens, asked, seals>>
  BY Zenon DEF ServerRestart, logs, counters
<1>3. ServerTypeOK'
  <2>1. NoRelease \in [device : Devices \cup {Missing}, envelope : Envelopes \cup {Missing}]
    BY DEF NoRelease
  <2>2. release' \in [Admins -> [device : Devices \cup {Missing}, envelope : Envelopes \cup {Missing}]]
    BY Zenon, <1>2, <2>1
  <2>3. QED
    BY Zenon, <1>1, <1>2, <2>2 DEF ServerTypeOK, LedgerTypes, LogTypes, DeviceTypes
<1>4. TokensSound'
  BY Zenon, <1>1, <1>2 DEF TokensSound
<1>5. QueriesSound'
  <2>1. \A i \in DOMAIN queriesFile : i \in DOMAIN queries /\ Behind(queriesFile[i], queries[i])
    BY Zenon, <1>1 DEF QueriesSound
  <2>2. /\ \A i \in DOMAIN queriesFile : queriesFile[i].id <= asked
        /\ \A i, j \in DOMAIN queriesFile : queriesFile[i].id = queriesFile[j].id => i = j
    BY <1>1, <2>1 DEF QueriesSound, Behind
  <2>3. \A d \in Devices : \A i \in DOMAIN queriesFile :
            queriesFile[i].id \in device[d].pulled /\ queriesFile[i].device = d =>
                queriesFile[i].status = "pending"
    BY <1>1, <2>1 DEF QueriesSound, Behind
  <2>4. \A i \in DOMAIN queriesFile : Behind(queriesFile[i], queriesFile[i])
    BY Zenon DEF Behind
  <2>5. QED
    BY Zenon, <1>1, <1>2, <2>2, <2>3, <2>4 DEF QueriesSound
<1>6. CustodySound'
  BY Zenon, <1>1, <1>2 DEF CustodySound
<1>7. ReportsSound'
  BY Zenon, <1>1, <1>2, FrameReports
<1>8. QED
  BY Zenon, <1>3, <1>4, <1>5, <1>6, <1>7 DEF ServerSafe

\* recovery.key and the sealing of a key: the envelope is good for its device.
LEMMA SealSafe ==
    ASSUME ServerSafe, NEW d \in Devices, RecoveryKey(d) \/ SealKey(d)
    PROVE  ServerSafe'
<1>1. ServerTypeOK /\ TokensSound /\ QueriesSound /\ CustodySound /\ ReportsSound
  BY Zenon DEF ServerSafe
<1>2. /\ UNCHANGED <<devices, devicesFile, queries, queriesFile, reports, envelopes, releases,
                     release, given, acked, tokens, asked>>
      /\ seals' \in {seals, seals + 1}
  BY Zenon DEF RecoveryKey, SealKey, ledgers, logs, counters
<1>3. device \in [Devices -> DeviceState] /\ device[d] \in DeviceState /\ seals \in Nat
  BY Zenon, <1>1 DEF ServerTypeOK, DeviceTypes, LedgerTypes
<1>4. PICK x \in {TenantKey, Missing}, e \in Envelopes \cup {Missing} :
        /\ device' = [device EXCEPT ![d].tenant = x, ![d].envelope = e]
        /\ e = device[d].envelope \/ (e # Missing => Good(d, e))
  <2>1. CASE RecoveryKey(d)
    <3>1. device' = [device EXCEPT ![d].tenant = TenantKey, ![d].envelope = device[d].envelope]
      BY <1>3, <2>1 DEF RecoveryKey, DeviceState
    <3>2. device[d].envelope \in Envelopes \cup {Missing}
      BY Zenon, <1>3 DEF DeviceState
    <3>3. QED
      BY Zenon, <3>1, <3>2
  <2>2. CASE SealKey(d)
    <3> DEFINE b == DeviceBinding(d)
               n == seals + 1
               e == [binding |-> b, to |-> "tenant", plain |-> Volume[d].key, aad |-> b, n |-> n]
               sealed == Seal(TenantKey, b, Volume[d].key, n)
    <3>1. device[d].tenant = TenantKey
      BY Zenon, <1>3, <2>2 DEF SealKey, DeviceState
    <3>2. device' = [device EXCEPT ![d].envelope = sealed]
      BY Zenon, <2>2, <3>1 DEF SealKey
    <3>3. n \in Nat
      BY <1>3
    <3>4. e \in Envelopes
      BY Zenon, <3>3 DEF Envelopes, Bindings
    <3>5. sealed = Missing \/ (sealed = e /\ ValidBinding(b))
      BY DEF Seal, TenantKey
    <3>6. b.device_id = d
      BY DEF DeviceBinding, Binding
    <3> HIDE DEF b
    <3>7. e.binding = b /\ e.to = "tenant" /\ e.aad = b /\ e.plain = Volume[d].key
      OBVIOUS
    <3> HIDE DEF e, sealed
    <3>8. sealed \in Envelopes \cup {Missing}
      BY Zenon, <3>4, <3>5
    <3>9. sealed # Missing => Good(d, sealed)
      BY Zenon, <3>5, <3>6, <3>7 DEF Good
    <3>10. device' = [device EXCEPT ![d].tenant = TenantKey, ![d].envelope = sealed]
      BY <1>3, <3>1, <3>2, <3>8 DEF DeviceState
    <3>11. QED
      BY Zenon, <3>8, <3>9, <3>10
  <2>3. QED
    BY Zenon, <2>1, <2>2
<1>5. /\ device' \in [Devices -> DeviceState]
      /\ \A c \in Devices :
            /\ device'[c].token = device[c].token /\ device'[c].tried = device[c].tried
            /\ device'[c].pulled = device[c].pulled /\ device'[c].custody = device[c].custody
            /\ device'[c].envelope = device[c].envelope \/ (c = d /\ device'[c].envelope = e)
  BY <1>3, <1>4 DEF DeviceState
<1>6. ServerTypeOK'
  <2>1. seals' \in Nat
    BY <1>2, <1>3
  <2>2. QED
    BY Zenon, <1>1, <1>2, <1>5, <2>1 DEF ServerTypeOK, LedgerTypes, LogTypes, DeviceTypes
<1>7. TokensSound' /\ QueriesSound' /\ ReportsSound'
  BY Zenon, <1>1, <1>2, <1>5, FrameTokens, FrameQueries, FrameReports
<1>8. CustodySound'
  <2>1. \A c \in Devices : device'[c].envelope # Missing => Good(c, device'[c].envelope)
    BY <1>1, <1>4, <1>5 DEF CustodySound
  <2>2. QED
    BY <1>1, <1>2, <1>5, <2>1 DEF CustodySound
<1>9. QED
  BY Zenon, <1>6, <1>7, <1>8 DEF ServerSafe

\* recovery.escrow: a receipt is taken only for an envelope that was filed.
LEMMA EscrowSafe ==
    ASSUME ServerSafe, NEW d \in Devices, RecoveryEscrow(d)
    PROVE  ServerSafe'
<1> DEFINE e == device[d].envelope
           line == [device |-> d, envelope |-> e]
           over == [device EXCEPT ![d].tenant = Missing, ![d].envelope = Missing]
           kept == [device EXCEPT ![d].custody = e, ![d].tenant = Missing, ![d].envelope = Missing]
<1>1. ServerTypeOK /\ TokensSound /\ QueriesSound /\ CustodySound /\ ReportsSound
  BY Zenon DEF ServerSafe
<1>2. /\ e # Missing
      /\ UNCHANGED <<devices, devicesFile, queries, queriesFile, reports, releases, release, given,
                     acked, tokens, asked, seals>>
  BY Zenon DEF RecoveryEscrow, ledgers, counters
<1>3. \/ device' = over /\ envelopes' \in {envelopes, Append(envelopes, line)}
      \/ device' = kept /\ envelopes' = Append(envelopes, line)
  <2>1. CASE ~ValidEnvelope(e) \/ ~RequireToken(d) \/ ~BoundTo(e, Caller(d))
    BY Zenon, <2>1 DEF RecoveryEscrow, EscrowFailed
  <2>2. CASE RequireToken(d) /\ ~(~ValidEnvelope(e) \/ ~RequireToken(d) \/ ~BoundTo(e, Caller(d)))
    <3>1. Caller(d) = d
      BY Zenon, <1>1, <2>2, CallerIsSelf
    <3>2. QED
      BY Zenon, <2>2, <3>1 DEF RecoveryEscrow, EscrowFailed, TakeReceipt
  <2>3. QED
    BY Zenon, <2>1, <2>2
<1>4. device \in [Devices -> DeviceState] /\ device[d] \in DeviceState /\ envelopes \in Seq(EnvelopeLine)
  BY Zenon, <1>1 DEF ServerTypeOK, DeviceTypes, LogTypes
<1>5. e \in Envelopes /\ Good(d, e)
  BY Zenon, <1>1, <1>2, <1>4 DEF DeviceState, CustodySound
<1>6. line \in EnvelopeLine /\ line.device = d /\ line.envelope = e
  BY <1>5 DEF EnvelopeLine
<1> HIDE DEF e
<1>7. /\ device' \in [Devices -> DeviceState]
      /\ \A c \in Devices :
            /\ device'[c].token = device[c].token /\ device'[c].tried = device[c].tried
            /\ device'[c].pulled = device[c].pulled
            /\ device'[c].envelope = device[c].envelope \/ device'[c].envelope = Missing
            /\ device'[c].custody = device[c].custody
               \/ (c = d /\ device'[c].custody = e /\ envelopes' = Append(envelopes, line))
  <2>1. CASE device' = over
    BY <1>4, <2>1 DEF DeviceState
  <2>2. CASE device' = kept /\ envelopes' = Append(envelopes, line)
    BY <1>4, <1>5, <2>2 DEF DeviceState
  <2>3. QED
    BY Zenon, <1>3, <2>1, <2>2
<1> HIDE DEF over, kept, line
<1>8. /\ Append(envelopes, line) \in Seq(EnvelopeLine)
      /\ DOMAIN Append(envelopes, line) = DOMAIN envelopes \cup {Len(envelopes) + 1}
      /\ Append(envelopes, line)[Len(envelopes) + 1] = line
      /\ \A i \in DOMAIN envelopes : Append(envelopes, line)[i] = envelopes[i]
  BY <1>4, <1>6, AppendFacts
<1>9. /\ envelopes' \in Seq(EnvelopeLine)
      /\ \A i \in DOMAIN envelopes : i \in DOMAIN envelopes' /\ envelopes'[i] = envelopes[i]
      /\ \A i \in DOMAIN envelopes' : envelopes'[i] = line \/ (i \in DOMAIN envelopes /\ envelopes'[i] = envelopes[i])
  BY Zenon, <1>3, <1>4, <1>8
<1>10. ServerTypeOK'
  BY Zenon, <1>1, <1>2, <1>7, <1>9 DEF ServerTypeOK, LedgerTypes, LogTypes, DeviceTypes
<1>11. TokensSound' /\ QueriesSound' /\ ReportsSound'
  BY Zenon, <1>1, <1>2, <1>7, FrameTokens, FrameQueries, FrameReports
<1>12. CustodySound'
  <2>1. \A c \in Devices : device'[c].envelope # Missing => Good(c, device'[c].envelope)
    BY Zenon, <1>1, <1>7 DEF CustodySound
  <2>2. \A i \in DOMAIN envelopes' : Good(envelopes'[i].device, envelopes'[i].envelope)
    BY Zenon, <1>1, <1>5, <1>6, <1>9 DEF CustodySound
  <2>3. ASSUME NEW c \in Devices, device'[c].custody # Missing
        PROVE  /\ Good(c, device'[c].custody)
               /\ \E i \in DOMAIN envelopes' :
                    envelopes'[i] = [device |-> c, envelope |-> device'[c].custody]
    <3>1. CASE device'[c].custody = device[c].custody
      <4>1. /\ Good(c, device[c].custody)
            /\ \E i \in DOMAIN envelopes : envelopes[i] = [device |-> c, envelope |-> device[c].custody]
        BY Zenon, <1>1, <2>3, <3>1 DEF CustodySound
      <4>2. QED
        BY Zenon, <1>9, <3>1, <4>1
    <3>2. CASE c = d /\ device'[c].custody = e /\ envelopes' = Append(envelopes, line)
      <4>1. line = [device |-> d, envelope |-> e]
        BY Zenon DEF line
      <4>2. QED
        BY Zenon, <1>5, <1>8, <3>2, <4>1
    <3>3. QED
      BY Zenon, <1>7, <3>1, <3>2
  <2>4. QED
    BY Zenon, <1>1, <1>2, <2>1, <2>2, <2>3 DEF CustodySound
<1>13. QED
  BY Zenon, <1>10, <1>11, <1>12 DEF ServerSafe

\* latest_recovery_envelope: what it finds is good for the device.
LEMMA LatestIsGood ==
    ASSUME ServerTypeOK, CustodySound, NEW d \in Devices, LatestEnvelope(d) # Missing
    PROVE  LatestEnvelope(d) \in Envelopes /\ Good(d, LatestEnvelope(d))
<1> DEFINE of == {i \in DOMAIN envelopes : envelopes[i].device = d}
           last == CHOOSE i \in of : \A j \in of : j <= i
<1>1. envelopes \in Seq(EnvelopeLine) /\ of \in SUBSET DOMAIN envelopes
  BY Zenon DEF ServerTypeOK, LogTypes
<1>2. of # {} /\ LatestEnvelope(d) = envelopes[last].envelope
  BY Zenon DEF LatestEnvelope
<1>3. \E i \in of : \A j \in of : j <= i
  <2> HIDE DEF of
  <2>1. QED
    BY Zenon, <1>1, <1>2, LastPosition
<1>4. last \in of
  <2> HIDE DEF of
  <2>1. QED
    BY Zenon, <1>3
<1> HIDE DEF last
<1>5. last \in DOMAIN envelopes /\ envelopes[last].device = d
  BY Zenon, <1>4
<1>6. envelopes[last] \in EnvelopeLine
  BY <1>1, <1>5
<1>7. envelopes[last].envelope \in Envelopes
  BY Zenon, <1>6 DEF EnvelopeLine
<1>8. Good(d, envelopes[last].envelope)
  BY Zenon, <1>5 DEF CustodySound
<1>9. QED
  BY Zenon, <1>2, <1>7, <1>8

\* The part of the invariant that an administrator's release leaves alone.
LEMMA ReleaseFrame ==
    ASSUME ServerSafe, UNCHANGED <<ledgers, reports, answers, envelopes, device, acked, counters>>
    PROVE  /\ LedgerTypes' /\ TokensSound' /\ QueriesSound' /\ ReportsSound'
           /\ device' \in [Devices -> DeviceState]
           /\ reports' \in Seq(ReportLine) /\ envelopes' \in Seq(EnvelopeLine)
           /\ acked' \subseteq ReportLine \cup Told
<1>1. /\ UNCHANGED <<devices, devicesFile, queries, queriesFile, tokens, asked, seals>>
      /\ UNCHANGED <<reports, envelopes, device, acked>>
  BY Zenon DEF ledgers, counters
<1>2. ServerTypeOK /\ TokensSound /\ QueriesSound /\ ReportsSound
  BY Zenon DEF ServerSafe
<1>3. LedgerTypes'
  BY Zenon, <1>1, <1>2 DEF ServerTypeOK, LedgerTypes
<1>4. TokensSound' /\ QueriesSound' /\ ReportsSound'
  BY Zenon, <1>1, <1>2, FrameTokens, FrameQueries, FrameReports
<1>5. QED
  BY Zenon, <1>1, <1>2, <1>3, <1>4 DEF ServerTypeOK, DeviceTypes, LogTypes

\* A line of the release record is added to the ones there are.
LEMMA AuditedFacts ==
    ASSUME ServerTypeOK, NEW a \in Admins, NEW d \in Devices,
           NEW o \in {"not_found", "denied", "unwrap_failed", "released"}
    PROVE  /\ Audited(a, d, o) \in Seq(ReleaseLine)
           /\ \A i \in DOMAIN releases : i \in DOMAIN Audited(a, d, o) /\ Audited(a, d, o)[i] = releases[i]
           /\ \E i \in DOMAIN Audited(a, d, o) :
                Audited(a, d, o)[i] = [admin |-> a, device |-> d, outcome |-> o]
<1> DEFINE line == [admin |-> a, device |-> d, outcome |-> o]
<1>1. line \in ReleaseLine /\ releases \in Seq(ReleaseLine)
  BY Zenon DEF ReleaseLine, ServerTypeOK, LogTypes
<1>2. Audited(a, d, o) = Append(releases, line)
  BY Zenon DEF Audited
<1> HIDE DEF line
<1>3. /\ Append(releases, line) \in Seq(ReleaseLine)
      /\ DOMAIN Append(releases, line) = DOMAIN releases \cup {Len(releases) + 1}
      /\ Append(releases, line)[Len(releases) + 1] = line
      /\ \A i \in DOMAIN releases : Append(releases, line)[i] = releases[i]
  BY <1>1, AppendFacts
<1>4. \E i \in DOMAIN Audited(a, d, o) : Audited(a, d, o)[i] = line
  BY Zenon, <1>2, <1>3
<1>5. QED
  BY Zenon, <1>2, <1>3, <1>4 DEF line

\* admin.recovery_release, refused or read.
LEMMA ReleaseAskedSafe ==
    ASSUME ServerSafe, NEW a \in Admins, NEW d \in Devices, ReleaseRefused(a, d) \/ ReleaseRead(a, d)
    PROVE  ServerSafe'
<1> DEFINE Slots == [device : Devices \cup {Missing}, envelope : Envelopes \cup {Missing}]
<1>1. ServerTypeOK /\ CustodySound
  BY Zenon DEF ServerSafe
<1>2. UNCHANGED <<ledgers, reports, answers, envelopes, device, acked, counters, given>>
  BY Zenon DEF ReleaseRefused, ReleaseRead, logs
<1>3. /\ LedgerTypes' /\ TokensSound' /\ QueriesSound' /\ ReportsSound'
      /\ device' \in [Devices -> DeviceState]
      /\ reports' \in Seq(ReportLine) /\ envelopes' \in Seq(EnvelopeLine)
      /\ acked' \subseteq ReportLine \cup Told
  BY Zenon, <1>2, ReleaseFrame
<1>4. /\ releases' \in Seq(ReleaseLine)
      /\ \A i \in DOMAIN releases : i \in DOMAIN releases' /\ releases'[i] = releases[i]
  <2>1. CASE UNCHANGED releases
    BY Zenon, <1>1, <2>1 DEF ServerTypeOK, LogTypes
  <2>2. ASSUME NEW o \in {"not_found", "denied"}, releases' = Audited(a, d, o)
        PROVE  /\ releases' \in Seq(ReleaseLine)
               /\ \A i \in DOMAIN releases : i \in DOMAIN releases' /\ releases'[i] = releases[i]
    BY <1>1, <2>2, AuditedFacts
  <2>3. QED
    BY Zenon, <2>1, <2>2 DEF ReleaseRefused, ReleaseRead, logs
<1>5. release \in [Admins -> Slots]
  BY Zenon, <1>1 DEF ServerTypeOK, DeviceTypes
<1>6. \/ release' = release
      \/ /\ release' = [release EXCEPT ![a] = [device |-> d, envelope |-> LatestEnvelope(d)]]
         /\ PermitsRecoveryRelease(a) /\ LatestEnvelope(d) # Missing
  BY Zenon DEF ReleaseRefused, ReleaseRead
<1>7. /\ release' \in [Admins -> Slots]
      /\ \A b \in Admins : release'[b] # NoRelease =>
            /\ release'[b].device \in Devices
            /\ Good(release'[b].device, release'[b].envelope)
            /\ Role[b] \in ReleaseRoles
  <2>1. CASE release' = release
    BY Zenon, <1>1, <1>5, <2>1 DEF CustodySound
  <2>2. CASE /\ release' = [release EXCEPT ![a] = [device |-> d, envelope |-> LatestEnvelope(d)]]
             /\ PermitsRecoveryRelease(a) /\ LatestEnvelope(d) # Missing
    <3> DEFINE slot == [device |-> d, envelope |-> LatestEnvelope(d)]
    <3>1. LatestEnvelope(d) \in Envelopes /\ Good(d, LatestEnvelope(d))
      BY Zenon, <1>1, <2>2, LatestIsGood
    <3>2. slot \in Slots /\ slot.device = d /\ slot.envelope = LatestEnvelope(d)
      BY Zenon, <3>1
    <3> HIDE DEF slot, Slots
    <3>3. /\ release' \in [Admins -> Slots] /\ release'[a] = slot
          /\ \A b \in Admins : b # a => release'[b] = release[b]
      BY Zenon, <1>5, <2>2, <3>2 DEF slot
    <3>4. Role[a] \in ReleaseRoles
      BY Zenon, <2>2 DEF PermitsRecoveryRelease
    <3>5. \A b \in Admins : release[b] # NoRelease =>
            /\ release[b].device \in Devices
            /\ Good(release[b].device, release[b].envelope)
            /\ Role[b] \in ReleaseRoles
      BY Zenon, <1>1 DEF CustodySound
    <3>6. QED
      BY Zenon, <3>1, <3>2, <3>3, <3>4, <3>5
  <2>3. QED
    BY Zenon, <1>6, <2>1, <2>2
<1>8. CustodySound'
  BY Zenon, <1>1, <1>2, <1>4, <1>7 DEF CustodySound
<1>9. ServerTypeOK'
  BY Zenon, <1>1, <1>2, <1>3, <1>4, <1>7 DEF ServerTypeOK, LogTypes, DeviceTypes
<1>10. QED
  BY Zenon, <1>3, <1>8, <1>9 DEF ServerSafe

\* The second half of admin.recovery_release: the record, then the key.
LEMMA ReleaseHandSafe ==
    ASSUME ServerSafe, NEW a \in Admins, ReleaseHand(a)
    PROVE  ServerSafe'
<1> DEFINE Slots == [device : Devices \cup {Missing}, envelope : Envelopes \cup {Missing}]
           r == release[a]
           d == r.device
           key == Open(r.envelope, "tenant")
           hand == [admin |-> a, device |-> d, key |-> key]
<1>1. ServerTypeOK /\ CustodySound
  BY Zenon DEF ServerSafe
<1>2. UNCHANGED <<ledgers, reports, answers, envelopes, device, acked, counters>>
  BY Zenon DEF ReleaseHand
<1>3. /\ LedgerTypes' /\ TokensSound' /\ QueriesSound' /\ ReportsSound'
      /\ device' \in [Devices -> DeviceState]
      /\ reports' \in Seq(ReportLine) /\ envelopes' \in Seq(EnvelopeLine)
      /\ acked' \subseteq ReportLine \cup Told
  BY Zenon, <1>2, ReleaseFrame
<1>4. d \in Devices /\ Good(d, r.envelope) /\ Role[a] \in ReleaseRoles
  BY Zenon, <1>1 DEF CustodySound, ReleaseHand
<1>5. key = Volume[d].key
  BY Zenon, <1>4 DEF Good, Open, ValidEnvelope
<1>6. /\ release' = [release EXCEPT ![a] = NoRelease]
      /\ \/ UNCHANGED <<releases, given>>
         \/ releases' = Audited(a, d, "unwrap_failed") /\ given' = given
         \/ releases' = Audited(a, d, "released") /\ given' = given \cup {hand}
  BY Zenon DEF ReleaseHand
<1>7. release \in [Admins -> Slots] /\ given \subseteq Handed
  BY Zenon, <1>1 DEF ServerTypeOK, DeviceTypes, LogTypes
<1>8. NoRelease \in Slots
  BY DEF NoRelease
<1>9. hand \in Handed /\ hand.admin = a /\ hand.device = d /\ hand.key = Volume[d].key
  BY Zenon, <1>4, <1>5 DEF Handed
<1> HIDE DEF Slots, r, d, key, hand
<1>10. /\ release' \in [Admins -> Slots]
       /\ \A b \in Admins : release'[b] = release[b] \/ release'[b] = NoRelease
  BY Zenon, <1>6, <1>7, <1>8
<1>11. /\ releases' \in Seq(ReleaseLine)
       /\ \A i \in DOMAIN releases : i \in DOMAIN releases' /\ releases'[i] = releases[i]
       /\ given' \subseteq Handed
       /\ \A g \in given' : g \in given \/
            (g = hand /\ \E i \in DOMAIN releases' :
                            releases'[i] = [admin |-> a, device |-> d, outcome |-> "released"])
  <2>1. CASE UNCHANGED <<releases, given>>
    BY Zenon, <1>1, <1>7, <2>1 DEF ServerTypeOK, LogTypes
  <2>2. CASE releases' = Audited(a, d, "unwrap_failed") /\ given' = given
    <3>1. "unwrap_failed" \in {"not_found", "denied", "unwrap_failed", "released"}
      OBVIOUS
    <3>2. QED
      BY Zenon, <1>1, <1>4, <1>7, <2>2, <3>1, AuditedFacts
  <2>3. CASE releases' = Audited(a, d, "released") /\ given' = given \cup {hand}
    <3>1. "released" \in {"not_found", "denied", "unwrap_failed", "released"}
      OBVIOUS
    <3>2. /\ releases' \in Seq(ReleaseLine)
          /\ \A i \in DOMAIN releases : i \in DOMAIN releases' /\ releases'[i] = releases[i]
          /\ \E i \in DOMAIN releases' : releases'[i] = [admin |-> a, device |-> d, outcome |-> "released"]
      BY Zenon, <1>1, <1>4, <2>3, <3>1, AuditedFacts
    <3>3. QED
      BY Zenon, <1>7, <1>9, <2>3, <3>2
  <2>4. QED
    BY Zenon, <1>6, <2>1, <2>2, <2>3
<1>12. CustodySound'
  <2>1. ASSUME NEW g \in given'
        PROVE  /\ g.key = Volume[g.device].key /\ Role[g.admin] \in ReleaseRoles
               /\ \E i \in DOMAIN releases' : releases'[i] = [admin |-> g.admin, device |-> g.device,
                                                              outcome |-> "released"]
    <3>1. CASE g \in given
      BY Zenon, <1>1, <1>11, <3>1 DEF CustodySound
    <3>2. CASE g = hand /\ \E i \in DOMAIN releases' :
                    releases'[i] = [admin |-> a, device |-> d, outcome |-> "released"]
      BY Zenon, <1>4, <1>9, <3>2
    <3>3. QED
      BY Zenon, <1>11, <3>1, <3>2
  <2>2. \A b \in Admins : release'[b] # NoRelease =>
            /\ release'[b].device \in Devices
            /\ Good(release'[b].device, release'[b].envelope)
            /\ Role[b] \in ReleaseRoles
    BY Zenon, <1>1, <1>10 DEF CustodySound
  <2>3. QED
    BY Zenon, <1>1, <1>2, <2>1, <2>2 DEF CustodySound
<1>13. ServerTypeOK'
  BY Zenon, <1>3, <1>10, <1>11 DEF ServerTypeOK, LogTypes, DeviceTypes, Slots
<1>14. QED
  BY Zenon, <1>3, <1>12, <1>13 DEF ServerSafe

-----------------------------------------------------------------------------
(* The theorem.                                                            *)

\* The empty server is in order.
LEMMA InitServerSafe ==
    ASSUME ServerInit
    PROVE  ServerSafe
<1>1. Nobody \in DeviceState /\ Nobody.token = Missing /\ Nobody.pulled = {}
      /\ Nobody.envelope = Missing /\ Nobody.custody = Missing
  BY DEF Nobody, DeviceState
<1>2. NoRelease \in [device : Devices \cup {Missing}, envelope : Envelopes \cup {Missing}]
  BY DEF NoRelease
<1>3. /\ devices = [d \in Devices |-> Missing] /\ devicesFile = devices
      /\ device = [d \in Devices |-> Nobody]
      /\ release = [a \in Admins |-> NoRelease]
      /\ queries = <<>> /\ queriesFile = <<>> /\ reports = <<>> /\ envelopes = <<>> /\ releases = <<>>
      /\ given = {} /\ acked = {} /\ tokens = 0 /\ asked = 0 /\ seals = 0
  BY Zenon DEF ServerInit
<1>4. \A S : <<>> \in Seq(S)
  OBVIOUS
<1>5. DOMAIN <<>> = {}
  OBVIOUS
<1>6. 0 \in Nat
  OBVIOUS
<1>7. ServerTypeOK
  <2>1. LedgerTypes
    BY Zenon, <1>3, <1>4, <1>6 DEF LedgerTypes
  <2>2. LogTypes
    BY Zenon, <1>3, <1>4 DEF LogTypes
  <2>3. DeviceTypes
    BY Zenon, <1>1, <1>2, <1>3 DEF DeviceTypes
  <2>4. QED
    BY Zenon, <2>1, <2>2, <2>3 DEF ServerTypeOK
<1>8. /\ \A d \in Devices : devices[d] = Missing /\ devicesFile[d] = Missing /\ device[d] = Nobody
      /\ \A a \in Admins : release[a] = NoRelease
  BY Zenon, <1>3
<1>9. TokensSound
  BY Zenon, <1>1, <1>8 DEF TokensSound
<1>10. QueriesSound
  BY Zenon, <1>1, <1>3, <1>5, <1>8 DEF QueriesSound
<1>11. CustodySound
  BY Zenon, <1>1, <1>3, <1>5, <1>8 DEF CustodySound
<1>12. ReportsSound
  BY Zenon, <1>3 DEF ReportsSound
<1>13. QED
  BY Zenon, <1>7, <1>9, <1>10, <1>11, <1>12 DEF ServerSafe

\* Every step of the server, its devices and its admins keeps it in order.
LEMMA NextServerSafe ==
    ASSUME ServerSafe, [ServerNext]_serverVars
    PROVE  ServerSafe'
<1>1. ASSUME NEW d \in Devices, LedgerCalls(d)
      PROVE  ServerSafe'
  <2>1. CASE ComplianceReport(d)
    <3>1. PICK o \in {"compliant", "non_compliant"} : Report(d, o, o)
      BY Zenon, <2>1 DEF ComplianceReport
    <3>2. o \in {"compliant", "non_compliant", Missing} /\ o \in Bodies
      BY Zenon DEF Bodies
    <3>3. QED
      BY Zenon, <3>1, <3>2, ReportSafe
  <2>2. CASE InventoryReport(d)
    <3>1. "inventory" \in Bodies
      BY Zenon DEF Bodies
    <3>2. QED
      BY Zenon, <2>2, <3>1, ReportSafe DEF InventoryReport
  <2>3. CASE \E id \in device[d].pulled, refused \in BOOLEAN, n \in {0, 1} : QueriesAnswer(d, id, refused, n)
    BY Zenon, <2>3, AnswerSafe
  <2>4. QED
    BY Zenon, <1>1, <2>1, <2>2, <2>3, RegisterSafe, PendingSafe DEF LedgerCalls
<1>2. ASSUME NEW d \in Devices, EscrowCalls(d)
      PROVE  ServerSafe'
  BY Zenon, <1>2, SealSafe, EscrowSafe DEF EscrowCalls
<1>3. ASSUME NEW a \in Admins, Asks(a) \/ Releases(a)
      PROVE  ServerSafe'
  BY Zenon, <1>3, AskSafe, ReleaseAskedSafe, ReleaseHandSafe DEF Asks, Releases
<1>4. CASE UNCHANGED serverVars
  <2>1. /\ UNCHANGED <<devices, devicesFile, queries, queriesFile, reports, envelopes, releases>>
        /\ UNCHANGED <<device, release, given, acked, tokens, asked, seals>>
    BY Zenon, <1>4 DEF serverVars, ledgers, logs, counters
  <2>2. ServerTypeOK'
    BY Zenon, <2>1 DEF ServerSafe, ServerTypeOK, LedgerTypes, LogTypes, DeviceTypes
  <2>3. TokensSound' /\ QueriesSound' /\ CustodySound' /\ ReportsSound'
    BY Zenon, <2>1, FrameTokens, FrameQueries, FrameCustody, FrameReports DEF ServerSafe
  <2>4. QED
    BY Zenon, <2>2, <2>3 DEF ServerSafe
<1>5. QED
  BY Zenon, <1>1, <1>2, <1>3, <1>4, ServerRestartSafe DEF ServerNext

\* What the invariant says of an administrator's views.
LEMMA ReportShows ==
    ASSUME ServerSafe, NEW r \in acked, r \in ReportLine
    PROVE  AdminDevice(r.device).last # Missing /\ \E i \in DOMAIN reports : reports[i] = r
<1> DEFINE d == r.device
           of == {i \in DOMAIN reports : reports[i].device = d}
           last == CHOOSE i \in of : \A j \in of : j <= i
<1>1. PICK i \in DOMAIN reports : reports[i] = r
  BY Zenon DEF ServerSafe, ReportsSound
<1>2. reports \in Seq(ReportLine) /\ of \in SUBSET DOMAIN reports /\ of # {}
  BY Zenon, <1>1 DEF ServerSafe, ServerTypeOK, LogTypes
<1>3. LastReceived(d) = reports[last].body
  BY Zenon, <1>2 DEF LastReceived
<1>4. last \in of
  <2> HIDE DEF of
  <2>1. \E k \in of : \A j \in of : j <= k
    BY Zenon, <1>2, LastPosition
  <2>2. QED
    BY Zenon, <2>1
<1>5. reports[last] \in ReportLine
  <2>1. last \in DOMAIN reports
    BY Zenon, <1>4
  <2> HIDE DEF last
  <2>2. QED
    BY <1>2, <2>1
<1> HIDE DEF last
<1>6. reports[last].body \in Bodies
  BY Zenon, <1>5 DEF ReportLine
<1>7. LastReceived(d) # Missing
  BY Zenon, <1>3, <1>6, ServerAssumption
<1>8. AdminDevice(d).last = LastReceived(d)
  BY Zenon DEF AdminDevice
<1>9. QED
  BY Zenon, <1>1, <1>7, <1>8

\* An answer that was accepted is shown to the one who asked.
LEMMA AnswerShows ==
    ASSUME ServerSafe, NEW id \in Nat, [answered |-> id] \in acked
    PROVE  \E q \in Range(queriesFile) : q.id = id /\ Missing \notin QueryResult(q.admin, q.id)
<1>1. ServerTypeOK /\ QueriesSound
  BY Zenon DEF ServerSafe
<1>2. PICK i \in DOMAIN queriesFile : queriesFile[i].id = id /\ queriesFile[i].status # "pending"
  BY Zenon, <1>1 DEF QueriesSound
<1>3. i \in DOMAIN queries /\ queries[i].id = id /\ queries[i].status # "pending"
  BY Zenon, <1>1, <1>2 DEF QueriesSound, Behind
<1>4. queries[i].answer # Missing
  <2>1. queries[i].answer \in Nat
    BY <1>1, <1>3 DEF QueriesSound
  <2>2. QED
    BY Zenon, <2>1, ServerAssumption
<1>5. \A q \in Range(queries) : q.id = id => q = queries[i]
  BY <1>1, <1>3 DEF QueriesSound, Range
<1>6. Missing \notin QueryResult(queriesFile[i].admin, id)
  BY Zenon, <1>4, <1>5 DEF QueryResult
<1>7. queriesFile[i] \in Range(queriesFile)
  BY Zenon DEF Range
<1>8. QED
  BY Zenon, <1>2, <1>6, <1>7

\* The fleet view has a number for every scope an answer on file is at.
LEMMA FleetCounts ==
    ASSUME ServerSafe, NEW q \in Range(queriesFile), q.status = "answered"
    PROVE  FleetValue(q.scope) \in Nat
<1> DEFINE s == q.scope
           at == AnsweredAt(s)
           counted == UNION {{<<j, n>> : n \in 1 .. queries[j].answer} : j \in at}
<1>1. ServerTypeOK /\ QueriesSound
  BY Zenon DEF ServerSafe
<1>2. PICK i \in DOMAIN queriesFile : queriesFile[i] = q
  BY Zenon DEF Range
<1>3. i \in DOMAIN queries /\ queries[i].status = "answered" /\ queries[i].scope = s
  <2>1. "answered" # "pending"
    OBVIOUS
  <2>2. QED
    BY Zenon, <1>1, <1>2, <2>1 DEF QueriesSound, Behind
<1>4. at # {} /\ FleetValue(s) = Cardinality(counted)
  BY Zenon, <1>3 DEF AnsweredAt, FleetValue
<1>5. Len(queries) \in Nat /\ DOMAIN queries = 1 .. Len(queries)
  BY Zenon, <1>1, QueueTypes
<1>6. IsFiniteSet(1 .. Len(queries)) /\ IsFiniteSet(1 .. 1)
  <2>1. 1 \in Int /\ Len(queries) \in Int
    BY <1>5
  <2>2. QED
    BY Zenon, <2>1, FS_Interval
<1>7. IsFiniteSet((1 .. Len(queries)) \X (1 .. 1))
  BY Zenon, <1>6, FS_Product
<1>8. counted \subseteq (1 .. Len(queries)) \X (1 .. 1)
  <2>1. SUFFICES ASSUME NEW j \in at, NEW n \in 1 .. queries[j].answer
                 PROVE  <<j, n>> \in (1 .. Len(queries)) \X (1 .. 1)
    OBVIOUS
  <2>2. j \in DOMAIN queries /\ queries[j].status = "answered"
    BY Zenon DEF AnsweredAt
  <2>3. queries[j].status # "pending"
    BY <2>2
  <2>4. queries[j].answer \in {0, 1}
    BY Zenon, <1>1, <2>2, <2>3 DEF QueriesSound
  <2>5. n \in 1 .. 1
    BY <2>4
  <2>6. QED
    BY Zenon, <1>5, <2>2, <2>5
<1> HIDE DEF counted
<1>9. IsFiniteSet(counted)
  BY Zenon, <1>7, <1>8, FS_Subset
<1>10. Cardinality(counted) \in Nat
  BY Zenon, <1>9, FS_CardinalityType
<1>11. QED
  BY Zenon, <1>4, <1>10

\* What is in order keeps its acknowledgements.
LEMMA ServerSafeSuffices ==
    ASSUME ServerSafe
    PROVE  AcknowledgementsHold
<1>1. ServerTypeOK /\ TokensSound /\ QueriesSound /\ CustodySound /\ ReportsSound
  BY Zenon DEF ServerSafe
<1>2. ReceiptMeansCustody
  <2>1. \A d \in Devices : \A e : Good(d, e) => Open(e, "tenant") = Volume[d].key
    BY Zenon DEF Good, Open, ValidEnvelope
  <2>2. QED
    BY Zenon, <1>1, <2>1 DEF ReceiptMeansCustody, CustodySound
<1>3. \A d \in Devices : device[d].token # Missing /\ device[d].tried = device[d].token =>
        devicesFile[d] # Missing /\ devicesFile[d].token = device[d].token /\ d \in AdminDevices
  BY Zenon, <1>1 DEF TokensSound, AdminDevices
<1>4. \A r \in acked : r \in ReportLine \cup Told
  BY Zenon, <1>1 DEF ServerTypeOK, LogTypes
<1>5. ASSUME NEW r \in acked, "body" \in DOMAIN r
      PROVE  AdminDevice(r.device).last # Missing /\ \E i \in DOMAIN reports : reports[i] = r
  <2>1. r \notin Told
    BY <1>5 DEF Told
  <2>2. QED
    BY Zenon, <1>4, <2>1, ReportShows
<1>6. ASSUME NEW r \in acked, "answered" \in DOMAIN r
      PROVE  \E q \in Range(queriesFile) : q.id = r.answered /\ Missing \notin QueryResult(q.admin, q.id)
  <2>1. r \notin ReportLine
    BY <1>6 DEF ReportLine
  <2>2. r \in Told
    BY Zenon, <1>4, <2>1
  <2>3. r.answered \in Nat /\ r = [answered |-> r.answered]
    BY <2>2 DEF Told
  <2>4. QED
    BY Zenon, <2>3, AnswerShows
<1>7. AcknowledgedIsKept
  BY Zenon, <1>3, <1>5, <1>6, FleetCounts DEF AcknowledgedIsKept
<1>8. QED
  BY Zenon, <1>2, <1>7 DEF AcknowledgementsHold

\* The control plane keeps what it acknowledges: a receipt means custody of an
\* envelope that opens to the device's key, and a token, a report and an answer
\* a device was told is accepted are in their files and in the administrators'
\* views, whatever write fails and whenever the process is killed.
THEOREM AcknowledgementsAreKept == ServerSpec => []AcknowledgementsHold
<1>1. ServerInit => ServerSafe
  BY InitServerSafe
<1>2. ServerSafe /\ [ServerNext]_serverVars => ServerSafe'
  BY NextServerSafe
<1>3. ServerSafe => AcknowledgementsHold
  BY ServerSafeSuffices
<1>4. QED
  BY <1>1, <1>2, <1>3, PTL DEF ServerSpec
=============================================================================
