-------------------------- MODULE Approvals_proofs --------------------------
(***************************************************************************)
(* Proofs about Approvals, for every set of users, sessions, ids and       *)
(* faults and every bound: what holds whatever fails, by the invariant     *)
(* IInv, and what holds when nothing fails (Exact), by GentleInv.          *)
(***************************************************************************)
EXTENDS Approvals, FiniteSetTheorems, TLAPS

Records == [Ids -> ApprovalEnvelope \cup {None}]
Grants == [GrantIds -> Grant \cup {None}]

\* A map is durable in a file map when the file has every record it has.
RecordsOnDisk(recs, fls) == \A i \in Ids : recs[i] # None => fls[i] = recs[i]
GrantsOnDisk(gs, gfs) == \A g \in GrantIds : gs[g] # None => gfs[g] = gs[g]

\* What a sweep may make of a record that it keeps.
Swept(r, s) == s = r \/ (r.status = "pending" /\ s = [r EXCEPT !.status = "expired"])

-----------------------------------------------------------------------------
\* A sweep (sweep_approvals) keeps both maps typed and durable, only ever
\* turns a pending record into an expired one, and unlinks only what it drops.
LEMMA SweepFacts ==
    ASSUME NEW recs \in Records, NEW fls \in Records, NEW gs \in Grants,
           NEW w \in Sweeps(recs, gs), RecordsOnDisk(recs, fls)
    PROVE  /\ AfterSweep(recs, w) \in Records
           /\ FilesAfterSweep(fls, recs, w) \in Records
           /\ RecordsOnDisk(AfterSweep(recs, w), FilesAfterSweep(fls, recs, w))
           /\ \A i \in Ids : AfterSweep(recs, w)[i] # None =>
                recs[i] # None /\ Swept(recs[i], AfterSweep(recs, w)[i])
           /\ \A i \in Ids : FilesAfterSweep(fls, recs, w)[i] # None =>
                fls[i] # None /\ Swept(fls[i], FilesAfterSweep(fls, recs, w)[i])
           /\ w.expired \subseteq Ids
           /\ w.audited \subseteq Ids
           /\ w.dropped \subseteq GrantIds
           /\ w.unlinked \subseteq w.dropped
<1>1. /\ w.expired \subseteq Lapsed(recs)
      /\ w.audited \subseteq Lapsed(recs)
      /\ w.dropped = LapsedGrants(gs)
      /\ w.unlinked \subseteq LapsedGrants(gs)
  BY Zenon DEF Sweeps
<1>2. /\ Lapsed(recs) \subseteq Ids
      /\ \A i \in Lapsed(recs) : recs[i] # None /\ recs[i].status = "pending"
  BY Zenon DEF Lapsed, Held
<1>3. LapsedGrants(gs) \subseteq GrantIds
  BY Zenon DEF LapsedGrants, HeldGrants
<1>4. \A i \in w.expired :
        /\ recs[i] \in ApprovalEnvelope
        /\ fls[i] = recs[i]
        /\ [recs[i] EXCEPT !.status = "expired"] \in ApprovalEnvelope
  BY <1>1, <1>2 DEF Records, RecordsOnDisk, ApprovalEnvelope, Statuses
<1>5. \A i \in Ids :
        /\ AfterSweep(recs, w)[i] = IF i \in w.evicted THEN None
                                    ELSE IF i \in w.expired
                                    THEN [recs[i] EXCEPT !.status = "expired"]
                                    ELSE recs[i]
        /\ FilesAfterSweep(fls, recs, w)[i] = IF i \in w.evicted THEN None
                                    ELSE IF i \in w.expired
                                    THEN [recs[i] EXCEPT !.status = "expired"]
                                    ELSE fls[i]
  BY Zenon DEF AfterSweep, FilesAfterSweep, Without, Expire
<1>6. /\ AfterSweep(recs, w) \in Records
      /\ FilesAfterSweep(fls, recs, w) \in Records
  BY Zenon, <1>4 DEF AfterSweep, FilesAfterSweep, Without, Expire, Records
<1>7. RecordsOnDisk(AfterSweep(recs, w), FilesAfterSweep(fls, recs, w))
  BY Zenon, <1>5 DEF RecordsOnDisk
<1>8. \A i \in Ids : AfterSweep(recs, w)[i] # None =>
        recs[i] # None /\ Swept(recs[i], AfterSweep(recs, w)[i])
  BY Zenon, <1>1, <1>2, <1>5 DEF Swept
<1>9. \A i \in Ids : FilesAfterSweep(fls, recs, w)[i] # None =>
        fls[i] # None /\ Swept(fls[i], FilesAfterSweep(fls, recs, w)[i])
  BY Zenon, <1>1, <1>2, <1>4, <1>5 DEF Swept
<1>10. QED
  BY Zenon, <1>1, <1>2, <1>3, <1>6, <1>7, <1>8, <1>9

\* ApprovalStore::put keeps both maps typed and durable and touches no record
\* but the one it writes, except to evict; when it reports success that
\* record is on disk as written, or evicted.
LEMMA PutFacts ==
    ASSUME NEW recs \in Records, NEW fls \in Records, NEW id \in Ids,
           NEW r \in ApprovalEnvelope, NEW o \in PutOutcomes(recs, fls, id, r),
           RecordsOnDisk(recs, fls)
    PROVE  /\ o.records \in Records
           /\ o.files \in Records
           /\ RecordsOnDisk(o.records, o.files)
           /\ \A i \in Ids : o.files[i] # None =>
                (i = id /\ o.files[i] = r) \/ o.files[i] = fls[i]
<1>1. CASE o = [records |-> recs, files |-> fls, ok |-> FALSE]
  BY Zenon, <1>1
<1>2. CASE \E x : o = [records |-> Without([recs EXCEPT ![id] = r], x.evicted),
                        files |-> Without([fls EXCEPT ![id] = r], x.evicted), ok |-> x.ok]
  <2>1. PICK V : /\ o.records = Without([recs EXCEPT ![id] = r], V)
                 /\ o.files = Without([fls EXCEPT ![id] = r], V)
    BY <1>2
  <2>2. o.records \in Records /\ o.files \in Records
    BY Zenon, <2>1 DEF Without, Records
  <2>3. \A i \in Ids :
          /\ o.records[i] = IF i \in V THEN None ELSE IF i = id THEN r ELSE recs[i]
          /\ o.files[i] = IF i \in V THEN None ELSE IF i = id THEN r ELSE fls[i]
    BY Zenon, <2>1 DEF Without, Records
  <2>4. QED
    BY Zenon, <2>2, <2>3 DEF RecordsOnDisk
<1>3. QED
  BY Zenon, <1>1, <1>2 DEF PutOutcomes

\* A put that reports success has its record on disk, unless it was evicted.
LEMMA PutRecorded ==
    ASSUME NEW recs \in Records, NEW fls \in Records, NEW id \in Ids,
           NEW r \in ApprovalEnvelope, NEW o \in PutOutcomes(recs, fls, id, r), o.ok
    PROVE  o.files[id] # None => o.files[id] = r
<1>1. CASE o = [records |-> recs, files |-> fls, ok |-> FALSE]
  BY Zenon, <1>1
<1>2. CASE \E x : o = [records |-> Without([recs EXCEPT ![id] = r], x.evicted),
                        files |-> Without([fls EXCEPT ![id] = r], x.evicted), ok |-> x.ok]
  <2>1. PICK V : o.files = Without([fls EXCEPT ![id] = r], V)
    BY <1>2
  <2>2. QED
    BY Zenon, <2>1 DEF Without, Records
<1>3. QED
  BY Zenon, <1>1, <1>2 DEF PutOutcomes

\* The saturating history counters stay in range.
LEMMA BumpFacts ==
    ASSUME NEW f \in [Ids -> 0 .. 2], NEW S
    PROVE  /\ Bump(f, S) \in [Ids -> 0 .. 2]
           /\ \A i \in Ids : Bump(f, S)[i] = IF i \in S /\ f[i] < 2 THEN f[i] + 1 ELSE f[i]
  BY DEF Bump

-----------------------------------------------------------------------------
(* The inductive invariant.                                                *)

\* The answer that approvals.resolve is about to persist is the answer to a
\* question that is in memory and open, and a yes is somebody's yes.
ResolvingHeld ==
    resolving # None =>
        /\ up
        /\ records[resolving.id] # None
        /\ records[resolving.id].status = "pending"
        /\ resolving.status = "approved" => \E c \in consents : c.id = resolving.id

\* Ids are not reused: whatever is recorded about an approval is about an id
\* that create_approval generated.
IdsRaised ==
    /\ \A i \in Ids : files[i] # None => i \in raised
    /\ \A i \in Ids : spent[i] # 0 => i \in raised
    /\ \A c \in consents : c.id \in raised

\* An approval on disk as approved was approved by somebody.
ApprovedHasConsent ==
    \A i \in Ids : files[i] # None /\ files[i].status = "approved" =>
        \E c \in consents : c.id = i

IInv ==
    /\ TypeOK
    /\ MemoryIsDurable
    /\ ResolvingHeld
    /\ IdsRaised
    /\ ApprovedHasConsent
    /\ PrivilegeHasConsent
    /\ SpentOnce

\* The part of a step that every handler's sweep contributes.
LEMMA SweepStep ==
    ASSUME TypeOK, MemoryIsDurable, NEW w \in Sweeps(records, grants)
    PROVE  /\ AfterSweep(records, w) \in Records
           /\ FilesAfterSweep(files, records, w) \in Records
           /\ RecordsOnDisk(AfterSweep(records, w), FilesAfterSweep(files, records, w))
           /\ \A i \in Ids : AfterSweep(records, w)[i] # None =>
                records[i] # None /\ Swept(records[i], AfterSweep(records, w)[i])
           /\ \A i \in Ids : FilesAfterSweep(files, records, w)[i] # None =>
                files[i] # None /\ Swept(files[i], FilesAfterSweep(files, records, w)[i])
           /\ Drop(grants, w.dropped) \in Grants
           /\ Drop(grantFiles, w.unlinked) \in Grants
           /\ GrantsOnDisk(Drop(grants, w.dropped), Drop(grantFiles, w.unlinked))
           /\ \A g \in GrantIds : Drop(grants, w.dropped)[g] # None =>
                Drop(grants, w.dropped)[g] = grants[g]
           /\ \A g \in GrantIds : Drop(grantFiles, w.unlinked)[g] # None =>
                Drop(grantFiles, w.unlinked)[g] = grantFiles[g]
           /\ Bump(expireEvents, w.audited) \in [Ids -> 0 .. 2]
           /\ w.dropped \subseteq GrantIds
<1>1. /\ records \in Records /\ files \in Records
      /\ grants \in Grants /\ grantFiles \in Grants
      /\ expireEvents \in [Ids -> 0 .. 2]
      /\ RecordsOnDisk(records, files)
      /\ GrantsOnDisk(grants, grantFiles)
  BY Zenon DEF TypeOK, MemoryIsDurable, Records, Grants, RecordsOnDisk, GrantsOnDisk
<1>2. w.dropped \subseteq GrantIds /\ w.unlinked \subseteq w.dropped
  BY Zenon, <1>1, SweepFacts
<1>3. /\ AfterSweep(records, w) \in Records
      /\ FilesAfterSweep(files, records, w) \in Records
      /\ RecordsOnDisk(AfterSweep(records, w), FilesAfterSweep(files, records, w))
      /\ \A i \in Ids : AfterSweep(records, w)[i] # None =>
            records[i] # None /\ Swept(records[i], AfterSweep(records, w)[i])
      /\ \A i \in Ids : FilesAfterSweep(files, records, w)[i] # None =>
            files[i] # None /\ Swept(files[i], FilesAfterSweep(files, records, w)[i])
  BY Zenon, <1>1, SweepFacts
<1>4. /\ Drop(grants, w.dropped) \in Grants
      /\ Drop(grantFiles, w.unlinked) \in Grants
      /\ GrantsOnDisk(Drop(grants, w.dropped), Drop(grantFiles, w.unlinked))
      /\ \A g \in GrantIds : Drop(grants, w.dropped)[g] # None =>
            Drop(grants, w.dropped)[g] = grants[g]
      /\ \A g \in GrantIds : Drop(grantFiles, w.unlinked)[g] # None =>
            Drop(grantFiles, w.unlinked)[g] = grantFiles[g]
  BY Zenon, <1>1, <1>2 DEF Drop, Grants, GrantsOnDisk
<1>5. Bump(expireEvents, w.audited) \in [Ids -> 0 .. 2]
  BY Zenon, <1>1, BumpFacts
<1>6. QED
  BY Zenon, <1>2, <1>3, <1>4, <1>5

-----------------------------------------------------------------------------
(* What one step does to the approvals on disk.                            *)

\* A record on disk is new under a fresh id, swept, answered by the resolve
\* under way, or spent; nothing else ever happens to it but eviction.
FileStep(i) ==
    files'[i] # None =>
        \/ /\ i \notin raised
           /\ i \in raised'
           /\ files'[i].status = "pending"
           /\ ~files'[i].consumed
        \/ /\ files[i] # None
           /\ Swept(files[i], files'[i])
        \/ /\ files[i] # None
           /\ resolving # None
           /\ i = resolving.id
           /\ files[i].status = "pending"
           /\ files'[i] = [files[i] EXCEPT !.status = resolving.status, !.by = resolving.by]
        \/ /\ files[i] # None
           /\ MayConsume(files[i])
           /\ files'[i] = [files[i] EXCEPT !.consumed = TRUE]

FilesStep == \A i \in Ids : FileStep(i)

\* create_approval: a new record is well formed.
LEMMA NewRecordType ==
    ASSUME NEW spec \in NewApproval, now \in 0 .. MaxTime
    PROVE  /\ NewRecord(spec) \in ApprovalEnvelope
           /\ NewRecord(spec).status = "pending"
           /\ ~NewRecord(spec).consumed
<1>1. ClampTtl(spec.ttl) \in 0 .. APPROVAL_TTL_MAX_SECS
  BY ConstantsAssumption DEF ClampTtl, NewApproval
<1>2. now \in Nat /\ now + ClampTtl(spec.ttl) \in Times
  BY <1>1, ConstantsAssumption DEF Times
<1>3. QED
  BY Zenon, <1>2 DEF NewRecord, NewApproval, ApprovalEnvelope, Statuses

\* Every caller of create_approval fills in a well-formed request.
LEMMA RequestSpecs ==
    ASSUME Request
    PROVE  \E spec \in NewApproval : CreateApproval(spec)
<1>1. CASE \E s \in Sessions, c \in Capabilities : AgentCapabilitySet(s, c)
  BY Zenon, <1>1, ConstantsAssumption
     DEF AgentCapabilitySet, NewApproval, Kinds, Requesters, Humans
<1>2. CASE \E p \in Peers, spec \in CreateCalls : ApprovalsCreate(p, spec)
  BY Zenon, <1>2, ConstantsAssumption DEF ApprovalsCreate
<1>3. CASE \E p \in Peers, c \in Capabilities, m \in Durations : PrivilegeRequest(p, c, m)
  <2>1. PICK p \in Peers, c \in Capabilities, m \in Durations : PrivilegeRequest(p, c, m)
    BY Zenon, <1>3
  <2>2. ClampGrantMinutes(m) \in Nat
    BY Zenon, ConstantsAssumption DEF ClampGrantMinutes
  <2>3. p.uid \in Humans
    BY Zenon DEF Peers
  <2>4. QED
    BY Zenon, <2>1, <2>2, <2>3 DEF PrivilegeRequest, NewApproval, Kinds, Requesters
<1>4. QED
  BY Zenon, <1>1, <1>2, <1>3 DEF Request

-----------------------------------------------------------------------------
(* Every step keeps the store typed and durable.                           *)

StoreInv == TypeOK /\ MemoryIsDurable /\ ResolvingHeld

\* No grant file appears or changes.
GrantFilesShrink ==
    \A g \in GrantIds : grantFiles'[g] # None => grantFiles'[g] = grantFiles[g]

\* A call that only sweeps (approvals.list, privilege.status) keeps the store
\* invariant.
LEMMA SweepOnlyStep ==
    ASSUME StoreInv, SweepOnly
    PROVE  StoreInv' /\ FilesStep /\ GrantFilesShrink
<1> USE DEF StoreInv
<1>1. PICK w \in Sweeps(records, grants) :
        /\ records' = AfterSweep(records, w)
        /\ files' = FilesAfterSweep(files, records, w)
        /\ grants' = Drop(grants, w.dropped)
        /\ grantFiles' = Drop(grantFiles, w.unlinked)
        /\ handedBack' = handedBack \cup w.dropped
        /\ expireEvents' = Bump(expireEvents, w.audited)
  BY Zenon DEF SweepOnly, SweepTrail
<1>2. TypeOK'
  BY Zenon, <1>1, SweepStep DEF SweepOnly, TypeOK, Records, Grants
<1>3. MemoryIsDurable'
  BY Zenon, <1>1, SweepStep DEF MemoryIsDurable, RecordsOnDisk, GrantsOnDisk
<1>4. ResolvingHeld'
  BY Zenon DEF SweepOnly, Ready, ResolvingHeld
<1>5. FilesStep
  BY Zenon, <1>1, SweepStep DEF FilesStep, FileStep
<1>6. GrantFilesShrink
  BY Zenon, <1>1, SweepStep DEF GrantFilesShrink
<1>7. QED
  BY Zenon, <1>2, <1>3, <1>4, <1>5, <1>6

\* Raising an approval (approvals_create_inner) keeps the store invariant and
\* adds at most one pending record to the files.
LEMMA CreateStep ==
    ASSUME StoreInv, NEW spec \in NewApproval, CreateApproval(spec)
    PROVE  StoreInv' /\ FilesStep /\ GrantFilesShrink
<1> USE DEF StoreInv
<1>1. PICK w \in Sweeps(records, grants), id \in Ids \ raised :
        /\ \E o \in PutOutcomes(AfterSweep(records, w), FilesAfterSweep(files, records, w),
                                id, NewRecord(spec)) :
                records' = o.records /\ files' = o.files
        /\ raised' = raised \cup {id}
        /\ grants' = Drop(grants, w.dropped)
        /\ grantFiles' = Drop(grantFiles, w.unlinked)
        /\ handedBack' = handedBack \cup w.dropped
        /\ expireEvents' = Bump(expireEvents, w.audited)
  BY Zenon DEF CreateApproval, SweepTrail
<1>2. PICK o \in PutOutcomes(AfterSweep(records, w), FilesAfterSweep(files, records, w),
                             id, NewRecord(spec)) :
                records' = o.records /\ files' = o.files
  BY Zenon, <1>1
<1>3. /\ NewRecord(spec) \in ApprovalEnvelope
      /\ NewRecord(spec).status = "pending"
      /\ ~NewRecord(spec).consumed
  BY Zenon, NewRecordType DEF TypeOK
<1>4. /\ records' \in Records
      /\ files' \in Records
      /\ RecordsOnDisk(records', files')
      /\ \A i \in Ids : files'[i] # None =>
            \/ i = id /\ files'[i] = NewRecord(spec)
            \/ files'[i] = FilesAfterSweep(files, records, w)[i]
  <2>1. /\ AfterSweep(records, w) \in Records
        /\ FilesAfterSweep(files, records, w) \in Records
        /\ RecordsOnDisk(AfterSweep(records, w), FilesAfterSweep(files, records, w))
    BY Zenon, SweepStep
  <2>2. /\ o.records \in Records
        /\ o.files \in Records
        /\ RecordsOnDisk(o.records, o.files)
        /\ \A i \in Ids : o.files[i] # None =>
              \/ i = id /\ o.files[i] = NewRecord(spec)
              \/ o.files[i] = FilesAfterSweep(files, records, w)[i]
    BY <1>3, <2>1, PutFacts
  <2>3. QED
    BY Zenon, <1>2, <2>2
<1>5. TypeOK'
  BY Zenon, <1>1, <1>4, SweepStep DEF CreateApproval, TypeOK, Records, Grants
<1>6. MemoryIsDurable'
  BY ZenonT(30), <1>1, <1>4, SweepStep DEF MemoryIsDurable, RecordsOnDisk, GrantsOnDisk
<1>7. ResolvingHeld'
  BY Zenon DEF CreateApproval, Ready, ResolvingHeld
<1>8. FilesStep
  BY Zenon, <1>1, <1>3, <1>4, SweepStep DEF FilesStep, FileStep
<1>9. GrantFilesShrink
  BY Zenon, <1>1, SweepStep DEF GrantFilesShrink
<1>10. QED
  BY Zenon, <1>5, <1>6, <1>7, <1>8, <1>9

\* Deciding and executing (handle_approvals_resolve up to the put) keeps the
\* store invariant: a minted grant is durable before it is in memory.
LEMMA ResolveStep ==
    ASSUME StoreInv, NEW p \in Peers, NEW id \in Ids, NEW d \in {"approved", "denied"},
           Resolve(p, id, d)
    PROVE  StoreInv' /\ FilesStep
<1> USE DEF StoreInv
<1>1. PICK w \in Sweeps(records, grants) :
        /\ AfterSweep(records, w)[id] # None
        /\ MayResolve(p, AfterSweep(records, w)[id])
        /\ records' = AfterSweep(records, w)
        /\ files' = FilesAfterSweep(files, records, w)
        /\ \/ /\ d = "approved"
              /\ consents' = consents \cup {[id |-> id, peer |-> p]}
              /\ ExecuteApproved(id, AfterSweep(records, w)[id],
                                 Drop(grants, w.dropped), Drop(grantFiles, w.unlinked))
           \/ /\ d = "denied"
              /\ grants' = Drop(grants, w.dropped)
              /\ grantFiles' = Drop(grantFiles, w.unlinked)
              /\ UNCHANGED <<consents, minted, executions>>
        /\ handedBack' = handedBack \cup w.dropped
        /\ expireEvents' = Bump(expireEvents, w.audited)
  BY Zenon DEF Resolve, SweepTrail
<1>2. AfterSweep(records, w)[id] \in ApprovalEnvelope
  BY Zenon, <1>1, SweepStep DEF Records
<1>3. NewGrant(id, AfterSweep(records, w)[id]) \in Grant
  BY <1>2 DEF NewGrant, Grant, ApprovalEnvelope, TypeOK
<1>4. /\ grants' \in Grants
      /\ grantFiles' \in Grants
      /\ GrantsOnDisk(grants', grantFiles')
      /\ minted' \in Grants
      /\ executions' \in [Ids -> 0 .. 2]
  <2>1. CASE /\ grants' = Drop(grants, w.dropped)
             /\ grantFiles' = Drop(grantFiles, w.unlinked)
             /\ UNCHANGED minted
             /\ executions' \in {executions, Bump(executions, {id})}
    BY <2>1, SweepStep, BumpFacts DEF TypeOK, Grants
  <2>2. CASE /\ \E g \in GrantIds :
                /\ grants' = [Drop(grants, w.dropped)
                                EXCEPT ![g] = NewGrant(id, AfterSweep(records, w)[id])]
                /\ grantFiles' = [Drop(grantFiles, w.unlinked)
                                EXCEPT ![g] = NewGrant(id, AfterSweep(records, w)[id])]
                /\ minted' = [minted EXCEPT ![g] = NewGrant(id, AfterSweep(records, w)[id])]
             /\ executions' = Bump(executions, {id})
    BY <2>2, <1>3, SweepStep, BumpFacts DEF TypeOK, Grants, GrantsOnDisk
  <2>3. QED
    BY Zenon, <1>1, <2>1, <2>2 DEF ExecuteApproved
<1>5. consents' \subseteq Consent
  BY <1>1 DEF TypeOK, Consent
<1>6. resolving' = [id |-> id, status |-> d, by |-> p.uid] /\ resolving' \in Resolution
  BY Zenon DEF Resolve, Resolution, Peers
<1>7. TypeOK'
  BY Zenon, <1>1, <1>4, <1>5, <1>6, SweepStep DEF Resolve, TypeOK, Records, Grants
<1>8. MemoryIsDurable'
  BY Zenon, <1>1, <1>4, SweepStep DEF MemoryIsDurable, RecordsOnDisk, GrantsOnDisk
<1>9. ResolvingHeld'
  <2>1. up' /\ records'[id] # None /\ records'[id].status = "pending"
    BY Zenon, <1>1 DEF Resolve, Ready, MayResolve
  <2>2. d = "approved" => \E c \in consents' : c.id = id
    <3>1. d = "approved" => [id |-> id, peer |-> p] \in consents'
      BY Zenon, <1>1
    <3>2. [id |-> id, peer |-> p].id = id
      OBVIOUS
    <3>3. QED
      BY Zenon, <3>1, <3>2
  <2>3. resolving'.id = id /\ resolving'.status = d
    BY Zenon, <1>6
  <2>4. QED
    BY Zenon, <2>1, <2>2, <2>3 DEF ResolvingHeld
<1>10. FilesStep
  BY Zenon, <1>1, SweepStep DEF FilesStep, FileStep
<1>11. QED
  BY Zenon, <1>7, <1>8, <1>9, <1>10

\* Recording the decision, the last put of handle_approvals_resolve, changes
\* the record decided and no other.
LEMMA PersistStep ==
    ASSUME StoreInv, PersistResolution
    PROVE  StoreInv' /\ FilesStep
<1> USE DEF StoreInv
<1> DEFINE r == [records[resolving.id] EXCEPT !.status = resolving.status,
                                              !.by = resolving.by]
<1>1. PICK o \in PutOutcomes(records, files, resolving.id, r) :
        records' = o.records /\ files' = o.files
  BY Zenon DEF PersistResolution
<1>2. /\ resolving \in Resolution
      /\ resolving # None
      /\ records[resolving.id] \in ApprovalEnvelope
      /\ files[resolving.id] = records[resolving.id]
      /\ records[resolving.id].status = "pending"
  BY Zenon DEF PersistResolution, ResolvingHeld, TypeOK, MemoryIsDurable, Resolution
<1>3. resolving.id \in Ids /\ r \in ApprovalEnvelope
  BY Zenon, <1>2 DEF Resolution, ApprovalEnvelope, Statuses
<1>4. records \in Records /\ files \in Records /\ RecordsOnDisk(records, files)
  BY Zenon DEF TypeOK, MemoryIsDurable, Records, RecordsOnDisk
<1> HIDE DEF r
<1>5. /\ o.records \in Records
      /\ o.files \in Records
      /\ RecordsOnDisk(o.records, o.files)
      /\ \A i \in Ids : o.files[i] # None =>
            (i = resolving.id /\ o.files[i] = r) \/ o.files[i] = files[i]
  BY <1>3, <1>4, PutFacts
<1>6. TypeOK'
  BY Zenon, <1>1, <1>5 DEF PersistResolution, TypeOK, Records, trail
<1>7. MemoryIsDurable'
  BY Zenon, <1>1, <1>5 DEF PersistResolution, MemoryIsDurable, RecordsOnDisk
<1>8. ResolvingHeld'
  BY Zenon DEF PersistResolution, ResolvingHeld
<1>9. FilesStep
  <2>1. r = [files[resolving.id] EXCEPT !.status = resolving.status, !.by = resolving.by]
    BY Zenon, <1>2 DEF r
  <2>2. SUFFICES ASSUME NEW i \in Ids, files'[i] # None
                 PROVE  FileStep(i)
    BY Zenon DEF FilesStep, FileStep
  <2>3. CASE i = resolving.id /\ files'[i] = r
    BY Zenon, <1>2, <2>1, <2>3, ConstantsAssumption DEF FileStep
  <2>4. CASE files'[i] = files[i]
    BY Zenon, <2>2, <2>4 DEF FileStep, Swept
  <2>5. QED
    BY Zenon, <1>1, <1>5, <2>2, <2>3, <2>4
<1>10. QED
  BY Zenon, <1>6, <1>7, <1>8, <1>9

\* A consume (handle_approvals_consume) spends an approved record, once, and
\* changes no other record.
LEMMA ConsumeStep ==
    ASSUME StoreInv, NEW p \in Peers, NEW id \in Ids, Consume(p, id)
    PROVE  /\ StoreInv'
           /\ FilesStep
           /\ GrantFilesShrink
           /\ files[id] # None /\ MayConsume(files[id])
           /\ \/ spent' = spent
              \/ /\ spent' = Bump(spent, {id})
                 /\ files'[id] # None => files'[id].consumed
<1> USE DEF StoreInv
<1>1. PICK w \in Sweeps(records, grants) :
        /\ AfterSweep(records, w)[id] # None
        /\ MayConsume(AfterSweep(records, w)[id])
        /\ \E o \in PutOutcomes(AfterSweep(records, w), FilesAfterSweep(files, records, w),
                                id, [AfterSweep(records, w)[id] EXCEPT !.consumed = TRUE]) :
            /\ records' = o.records /\ files' = o.files
            /\ spent' = IF o.ok THEN Bump(spent, {id}) ELSE spent
        /\ grants' = Drop(grants, w.dropped)
        /\ grantFiles' = Drop(grantFiles, w.unlinked)
        /\ handedBack' = handedBack \cup w.dropped
        /\ expireEvents' = Bump(expireEvents, w.audited)
  BY Zenon DEF Consume, SweepTrail
<1> DEFINE r == [AfterSweep(records, w)[id] EXCEPT !.consumed = TRUE]
<1>2. PICK o \in PutOutcomes(AfterSweep(records, w), FilesAfterSweep(files, records, w), id, r) :
            /\ records' = o.records /\ files' = o.files
            /\ spent' = IF o.ok THEN Bump(spent, {id}) ELSE spent
  BY Zenon, <1>1
<1>3. /\ records[id] \in ApprovalEnvelope
      /\ files[id] = records[id]
      /\ AfterSweep(records, w)[id] = records[id]
      /\ MayConsume(files[id])
  <2>1. records[id] # None /\ Swept(records[id], AfterSweep(records, w)[id])
    BY Zenon, <1>1, SweepStep
  <2>2. records[id] \in ApprovalEnvelope /\ files[id] = records[id]
    BY Zenon, <2>1 DEF TypeOK, MemoryIsDurable
  <2>3. AfterSweep(records, w)[id].status = "approved"
    BY Zenon, <1>1 DEF MayConsume
  <2>4. AfterSweep(records, w)[id] = records[id]
    BY Zenon, <2>1, <2>2, <2>3 DEF Swept, ApprovalEnvelope
  <2>5. QED
    BY Zenon, <1>1, <2>2, <2>4
<1>4. /\ r = [files[id] EXCEPT !.consumed = TRUE]
      /\ r.consumed
      /\ r \in ApprovalEnvelope
  BY Zenon, <1>3 DEF ApprovalEnvelope
<1> HIDE DEF r
<1>5. /\ records' \in Records
      /\ files' \in Records
      /\ RecordsOnDisk(records', files')
      /\ \A i \in Ids : files'[i] # None =>
            \/ i = id /\ files'[i] = r
            \/ files'[i] = FilesAfterSweep(files, records, w)[i]
  <2>1. /\ AfterSweep(records, w) \in Records
        /\ FilesAfterSweep(files, records, w) \in Records
        /\ RecordsOnDisk(AfterSweep(records, w), FilesAfterSweep(files, records, w))
    BY Zenon, SweepStep
  <2>2. /\ o.records \in Records
        /\ o.files \in Records
        /\ RecordsOnDisk(o.records, o.files)
        /\ \A i \in Ids : o.files[i] # None =>
              \/ i = id /\ o.files[i] = r
              \/ o.files[i] = FilesAfterSweep(files, records, w)[i]
    BY <1>4, <2>1, PutFacts
  <2>3. QED
    BY Zenon, <1>2, <2>2
<1>6. spent' \in [Ids -> 0 .. 2]
  BY Zenon, <1>2, BumpFacts DEF TypeOK
<1>7. TypeOK'
  BY Zenon, <1>1, <1>5, <1>6, SweepStep DEF Consume, TypeOK, Records, Grants
<1>8. MemoryIsDurable'
  BY ZenonT(30), <1>1, <1>5, SweepStep DEF MemoryIsDurable, RecordsOnDisk, GrantsOnDisk
<1>9. ResolvingHeld'
  BY Zenon DEF Consume, Ready, ResolvingHeld
<1>10. FilesStep
  <2>1. SUFFICES ASSUME NEW i \in Ids, files'[i] # None
                 PROVE  FileStep(i)
    BY Zenon DEF FilesStep, FileStep
  <2>2. CASE i = id /\ files'[i] = r
    BY Zenon, <1>1, <1>3, <1>4, <2>2, ConstantsAssumption DEF FileStep
  <2>3. CASE files'[i] = FilesAfterSweep(files, records, w)[i]
    BY Zenon, <2>1, <2>3, SweepStep DEF FileStep
  <2>4. QED
    BY Zenon, <1>5, <2>1, <2>2, <2>3
<1>11. \/ spent' = spent
       \/ spent' = Bump(spent, {id}) /\ (files'[id] # None => files'[id].consumed)
  <2>1. AfterSweep(records, w) \in Records /\ FilesAfterSweep(files, records, w) \in Records
    BY Zenon, SweepStep
  <2>2. CASE o.ok
    <3>1. o.files[id] # None => o.files[id] = r
      BY <1>4, <2>1, <2>2, PutRecorded
    <3>2. QED
      BY Zenon, <1>2, <1>4, <3>1
  <2>3. CASE ~o.ok
    BY Zenon, <1>2, <2>3
  <2>4. QED
    BY Zenon, <2>2, <2>3
<1>12. GrantFilesShrink
  BY Zenon, <1>1, SweepStep DEF GrantFilesShrink
<1>13. files[id] # None
  BY Zenon, <1>3, ConstantsAssumption
<1>14. QED
  BY Zenon, <1>3, <1>7, <1>8, <1>9, <1>10, <1>11, <1>12, <1>13

\* Revoking a grant (handle_privilege_revoke) only removes grants, in memory
\* no later than on disk.
LEMMA RevokeStep ==
    ASSUME StoreInv, NEW p \in Peers, PrivilegeRevoke(p)
    PROVE  /\ StoreInv'
           /\ FilesStep
           /\ GrantFilesShrink
<1> USE DEF StoreInv
<1>1. PICK w \in Sweeps(records, grants) :
        /\ records' = AfterSweep(records, w)
        /\ files' = FilesAfterSweep(files, records, w)
        /\ \E T \in RevokeTargets(p, Drop(grants, w.dropped)) :
           \E o \in RevokeOutcomes(Drop(grants, w.dropped), Drop(grantFiles, w.unlinked), T) :
                /\ grants' = o.grants
                /\ grantFiles' = o.grantFiles
                /\ handedBack' = handedBack \cup w.dropped \cup o.gone
        /\ expireEvents' = Bump(expireEvents, w.audited)
  BY Zenon DEF PrivilegeRevoke, SweepTrail
<1>2. PICK T \in RevokeTargets(p, Drop(grants, w.dropped)) :
           \E o \in RevokeOutcomes(Drop(grants, w.dropped), Drop(grantFiles, w.unlinked), T) :
                /\ grants' = o.grants
                /\ grantFiles' = o.grantFiles
                /\ handedBack' = handedBack \cup w.dropped \cup o.gone
  BY Zenon, <1>1
<1>3. T \subseteq GrantIds
  BY DEF RevokeTargets, HeldGrants, LiveGrants
<1>4. \E D, F : /\ D \subseteq GrantIds
                /\ F \subseteq D
                /\ grants' = Drop(Drop(grants, w.dropped), D)
                /\ grantFiles' = Drop(Drop(grantFiles, w.unlinked), F)
                /\ handedBack' = handedBack \cup w.dropped \cup D
  <2>1. PICK o \in RevokeOutcomes(Drop(grants, w.dropped), Drop(grantFiles, w.unlinked), T) :
                /\ grants' = o.grants
                /\ grantFiles' = o.grantFiles
                /\ handedBack' = handedBack \cup w.dropped \cup o.gone
    BY Zenon, <1>2
  <2>2. CASE o = [grants |-> Drop(Drop(grants, w.dropped), T),
                  grantFiles |-> Drop(Drop(grantFiles, w.unlinked), T), gone |-> T]
    BY Zenon, <1>3, <2>1, <2>2
  <2>3. CASE \E x \in [bad : T, done : SUBSET T] :
                o = [grants |-> Drop(Drop(grants, w.dropped), x.done \cup {x.bad}),
                     grantFiles |-> Drop(Drop(grantFiles, w.unlinked), x.done),
                     gone |-> x.done \cup {x.bad}]
    <3>1. PICK x \in [bad : T, done : SUBSET T] :
                o = [grants |-> Drop(Drop(grants, w.dropped), x.done \cup {x.bad}),
                     grantFiles |-> Drop(Drop(grantFiles, w.unlinked), x.done),
                     gone |-> x.done \cup {x.bad}]
      BY Zenon, <2>3
    <3>2. x.done \cup {x.bad} \subseteq GrantIds /\ x.done \subseteq x.done \cup {x.bad}
      BY Zenon, <1>3
    <3>3. QED
      BY Zenon, <2>1, <3>1, <3>2
  <2>4. QED
    BY Zenon, <2>2, <2>3 DEF RevokeOutcomes
<1>5. PICK D, F : /\ D \subseteq GrantIds
                  /\ F \subseteq D
                  /\ grants' = Drop(Drop(grants, w.dropped), D)
                  /\ grantFiles' = Drop(Drop(grantFiles, w.unlinked), F)
                  /\ handedBack' = handedBack \cup w.dropped \cup D
  BY Zenon, <1>4
<1>6. /\ grants' \in Grants
      /\ grantFiles' \in Grants
      /\ GrantsOnDisk(grants', grantFiles')
      /\ \A g \in GrantIds : grantFiles'[g] # None => grantFiles'[g] = grantFiles[g]
  <2>1. /\ Drop(grants, w.dropped) \in Grants
        /\ Drop(grantFiles, w.unlinked) \in Grants
        /\ GrantsOnDisk(Drop(grants, w.dropped), Drop(grantFiles, w.unlinked))
        /\ \A g \in GrantIds : Drop(grantFiles, w.unlinked)[g] # None =>
                Drop(grantFiles, w.unlinked)[g] = grantFiles[g]
    BY Zenon, SweepStep
  <2> DEFINE gs == Drop(grants, w.dropped)
             gfs == Drop(grantFiles, w.unlinked)
  <2> HIDE DEF gs, gfs
  <2>2. /\ Drop(gs, D) \in Grants
        /\ Drop(gfs, F) \in Grants
        /\ GrantsOnDisk(Drop(gs, D), Drop(gfs, F))
        /\ \A g \in GrantIds : Drop(gfs, F)[g] # None => Drop(gfs, F)[g] = grantFiles[g]
    <3>1. /\ gs \in Grants
          /\ gfs \in Grants
          /\ GrantsOnDisk(gs, gfs)
          /\ \A g \in GrantIds : gfs[g] # None => gfs[g] = grantFiles[g]
      BY Zenon, <2>1 DEF gs, gfs
    <3>2. QED
      BY Zenon, <1>5, <3>1 DEF Drop, Grants, GrantsOnDisk
  <2>3. QED
    BY Zenon, <1>5, <2>2 DEF gs, gfs
<1>7. TypeOK'
  BY Zenon, <1>1, <1>5, <1>6, SweepStep DEF PrivilegeRevoke, TypeOK, Records, Grants
<1>8. MemoryIsDurable'
  BY Zenon, <1>1, <1>6, SweepStep DEF MemoryIsDurable, RecordsOnDisk, GrantsOnDisk
<1>9. ResolvingHeld'
  BY Zenon DEF PrivilegeRevoke, Ready, ResolvingHeld
<1>10. FilesStep
  BY Zenon, <1>1, SweepStep DEF FilesStep, FileStep
<1>11. QED
  BY Zenon, <1>6, <1>7, <1>8, <1>9, <1>10 DEF GrantFilesShrink

\* Relying on a grant (handle_capabilities_set) captures a grant that is live
\* at that moment.
LEMMA AuthorizeStep ==
    ASSUME StoreInv, NEW p \in Peers, NEW c \in Capabilities, AuthorizeByGrant(p, c)
    PROVE  /\ StoreInv'
           /\ FilesStep
           /\ GrantFilesShrink
           /\ \A call \in inflight' : call \in inflight \/
                /\ grants[call.grant] # None
                /\ grants[call.grant].uid = call.uid
                /\ grants[call.grant].capability = call.capability
<1> USE DEF StoreInv
<1>1. PICK w \in Sweeps(records, grants) :
        /\ \E g \in LiveGrantFor(Drop(grants, w.dropped), p.uid, c) :
              inflight' = inflight \cup {[uid |-> p.uid, capability |-> c, grant |-> g]}
        /\ records' = AfterSweep(records, w)
        /\ files' = FilesAfterSweep(files, records, w)
        /\ grants' = Drop(grants, w.dropped)
        /\ grantFiles' = Drop(grantFiles, w.unlinked)
        /\ handedBack' = handedBack \cup w.dropped
        /\ expireEvents' = Bump(expireEvents, w.audited)
  BY Zenon DEF AuthorizeByGrant, SweepTrail
<1>2. PICK g \in LiveGrantFor(Drop(grants, w.dropped), p.uid, c) :
              inflight' = inflight \cup {[uid |-> p.uid, capability |-> c, grant |-> g]}
  BY Zenon, <1>1
<1>3. /\ g \in GrantIds
      /\ Drop(grants, w.dropped)[g] # None
      /\ Drop(grants, w.dropped)[g].uid = p.uid
      /\ Drop(grants, w.dropped)[g].capability = c
  BY Zenon DEF LiveGrantFor, LiveGrants, HeldGrants
<1>4. [uid |-> p.uid, capability |-> c, grant |-> g] \in Call
  BY Zenon, <1>3 DEF Call, Peers
<1>5. grants[g] # None /\ grants[g].uid = p.uid /\ grants[g].capability = c
  BY Zenon, <1>3, SweepStep
<1>6. TypeOK'
  BY Zenon, <1>1, <1>2, <1>4, SweepStep DEF AuthorizeByGrant, TypeOK, Records, Grants
<1>7. MemoryIsDurable'
  BY Zenon, <1>1, SweepStep DEF MemoryIsDurable, RecordsOnDisk, GrantsOnDisk
<1>8. ResolvingHeld'
  BY Zenon DEF AuthorizeByGrant, Ready, ResolvingHeld
<1>9. FilesStep
  BY Zenon, <1>1, SweepStep DEF FilesStep, FileStep
<1>10. \A h \in GrantIds : grantFiles'[h] # None => grantFiles'[h] = grantFiles[h]
  BY Zenon, <1>1, SweepStep
<1>11. QED
  BY <1>2, <1>5, <1>6, <1>7, <1>8, <1>9, <1>10 DEF GrantFilesShrink

\* A restart (ApprovalStore::load, GrantStore::load and the boot sweep) takes
\* both maps from the files.
LEMMA RestartStep ==
    ASSUME StoreInv, Restart
    PROVE  /\ StoreInv'
           /\ FilesStep
           /\ GrantFilesShrink
<1> USE DEF StoreInv
<1>1. PICK w \in Sweeps(files, grantFiles) :
        /\ records' = AfterSweep(files, w)
        /\ files' = FilesAfterSweep(files, files, w)
        /\ grants' = Drop(grantFiles, w.dropped)
        /\ grantFiles' = Drop(grantFiles, w.unlinked)
        /\ handedBack' = handedBack \cup w.dropped
        /\ expireEvents' = Bump(expireEvents, w.audited)
  BY Zenon DEF Restart, SweepTrail
<1>2. /\ files \in Records /\ grantFiles \in Grants
      /\ RecordsOnDisk(files, files)
      /\ expireEvents \in [Ids -> 0 .. 2]
  BY Zenon DEF TypeOK, Records, Grants, RecordsOnDisk
<1>3. /\ AfterSweep(files, w) \in Records
      /\ FilesAfterSweep(files, files, w) \in Records
      /\ RecordsOnDisk(AfterSweep(files, w), FilesAfterSweep(files, files, w))
      /\ \A i \in Ids : FilesAfterSweep(files, files, w)[i] # None =>
            files[i] # None /\ Swept(files[i], FilesAfterSweep(files, files, w)[i])
      /\ w.dropped \subseteq GrantIds
      /\ w.unlinked \subseteq w.dropped
  BY Zenon, <1>2, SweepFacts
<1>4. /\ Drop(grantFiles, w.dropped) \in Grants
      /\ Drop(grantFiles, w.unlinked) \in Grants
      /\ GrantsOnDisk(Drop(grantFiles, w.dropped), Drop(grantFiles, w.unlinked))
      /\ \A g \in GrantIds : Drop(grantFiles, w.unlinked)[g] # None =>
            Drop(grantFiles, w.unlinked)[g] = grantFiles[g]
  BY Zenon, <1>2, <1>3 DEF Drop, Grants, GrantsOnDisk
<1>5. Bump(expireEvents, w.audited) \in [Ids -> 0 .. 2]
  BY Zenon, <1>2, BumpFacts
<1>6. TypeOK'
  BY Zenon, <1>1, <1>3, <1>4, <1>5 DEF Restart, TypeOK, Records, Grants
<1>7. MemoryIsDurable'
  BY Zenon, <1>1, <1>3, <1>4 DEF MemoryIsDurable, RecordsOnDisk, GrantsOnDisk
<1>8. ResolvingHeld'
  BY Zenon DEF Restart, ResolvingHeld
<1>9. FilesStep
  BY Zenon, <1>1, <1>3 DEF FilesStep, FileStep
<1>10. QED
  BY Zenon, <1>1, <1>4, <1>6, <1>7, <1>8, <1>9 DEF GrantFilesShrink

\* The steps that leave the disk alone: the authorised call runs, the process
\* dies, time passes.
LEMMA QuietStep ==
    ASSUME StoreInv,
           \/ \E call \in inflight : ExecuteAuthorized(call)
           \/ Crash
           \/ Tick
           \/ UNCHANGED vars
    PROVE  /\ StoreInv'
           /\ FilesStep
           /\ files' = files /\ grantFiles' = grantFiles
           /\ inflight' \subseteq inflight
           /\ UNCHANGED trail
<1> USE DEF StoreInv
<1>1. ASSUME NEW call \in inflight, ExecuteAuthorized(call)
      PROVE  /\ StoreInv' /\ files' = files /\ grantFiles' = grantFiles
             /\ inflight' \subseteq inflight /\ UNCHANGED trail
  BY Zenon, <1>1 DEF ExecuteAuthorized, TypeOK, MemoryIsDurable, ResolvingHeld, store, trail
<1>2. ASSUME Crash
      PROVE  /\ StoreInv' /\ files' = files /\ grantFiles' = grantFiles
             /\ inflight' \subseteq inflight /\ UNCHANGED trail
  BY Zenon, <1>2 DEF Crash, TypeOK, MemoryIsDurable, ResolvingHeld, trail
<1>3. ASSUME Tick
      PROVE  /\ StoreInv' /\ files' = files /\ grantFiles' = grantFiles
             /\ inflight' \subseteq inflight /\ UNCHANGED trail
  BY <1>3, ConstantsAssumption DEF Tick, TypeOK, MemoryIsDurable, ResolvingHeld, store, trail
<1>4. ASSUME UNCHANGED vars
      PROVE  /\ StoreInv' /\ files' = files /\ grantFiles' = grantFiles
             /\ inflight' \subseteq inflight /\ UNCHANGED trail
  BY Zenon, <1>4 DEF vars, TypeOK, MemoryIsDurable, ResolvingHeld, store, trail
<1>5. files' = files => FilesStep
  BY Zenon DEF FilesStep, FileStep, Swept
<1>6. QED
  BY Zenon, <1>1, <1>2, <1>3, <1>4, <1>5

-----------------------------------------------------------------------------
(* What one step does to the trail.                                        *)

\* The grant n goes back to peer p's yes to approval id.
MintedFrom(n, id, p) ==
    /\ n # None
    /\ n.approval = id
    /\ files'[id] # None
    /\ files'[id].kind = "privilege_request"
    /\ files'[id].uid = n.uid
    /\ files'[id].capability = n.capability
    /\ Entitled(p, files'[id].user)

\* A new consent is to a question on disk, and a new grant is minted from it.
LEMMA ResolveTrail ==
    ASSUME StoreInv, NEW p \in Peers, NEW id \in Ids, NEW d \in {"approved", "denied"},
           Resolve(p, id, d)
    PROVE  /\ files[id] # None
           /\ consents' \in {consents, consents \cup {[id |-> id, peer |-> p]}}
           /\ \/ /\ minted' = minted
                 /\ GrantFilesShrink
              \/ \E g \in GrantIds, n \in Grant :
                 /\ minted[g] = None
                 /\ minted' = [minted EXCEPT ![g] = n]
                 /\ grantFiles'[g] = n
                 /\ \A h \in GrantIds \ {g} :
                        grantFiles'[h] # None => grantFiles'[h] = grantFiles[h]
                 /\ [id |-> id, peer |-> p] \in consents'
                 /\ MintedFrom(n, id, p)
<1> USE DEF StoreInv
<1>1. PICK w \in Sweeps(records, grants) :
        /\ AfterSweep(records, w)[id] # None
        /\ MayResolve(p, AfterSweep(records, w)[id])
        /\ files' = FilesAfterSweep(files, records, w)
        /\ \/ /\ d = "approved"
              /\ consents' = consents \cup {[id |-> id, peer |-> p]}
              /\ ExecuteApproved(id, AfterSweep(records, w)[id],
                                 Drop(grants, w.dropped), Drop(grantFiles, w.unlinked))
           \/ /\ d = "denied"
              /\ grants' = Drop(grants, w.dropped)
              /\ grantFiles' = Drop(grantFiles, w.unlinked)
              /\ UNCHANGED <<consents, minted, executions>>
  BY Zenon DEF Resolve, SweepTrail
<1> DEFINE r == AfterSweep(records, w)[id]
<1>2. /\ r \in ApprovalEnvelope
      /\ files'[id] = r
      /\ files[id] # None
  BY ZenonT(30), <1>1, SweepStep DEF Records, RecordsOnDisk
<1>3. consents' \in {consents, consents \cup {[id |-> id, peer |-> p]}}
  BY Zenon, <1>1
<1>4. /\ Drop(grantFiles, w.unlinked) \in Grants
      /\ \A g \in GrantIds : Drop(grantFiles, w.unlinked)[g] # None =>
            Drop(grantFiles, w.unlinked)[g] = grantFiles[g]
  BY Zenon, SweepStep
<1>5. CASE minted' = minted /\ grantFiles' = Drop(grantFiles, w.unlinked)
  BY Zenon, <1>2, <1>3, <1>4, <1>5 DEF GrantFilesShrink
<1>6. CASE /\ d = "approved"
           /\ r.kind = "privilege_request"
           /\ \E g \in GrantIds :
                /\ minted[g] = None
                /\ grantFiles' = [Drop(grantFiles, w.unlinked) EXCEPT ![g] = NewGrant(id, r)]
                /\ minted' = [minted EXCEPT ![g] = NewGrant(id, r)]
  <2>1. PICK g \in GrantIds :
                /\ minted[g] = None
                /\ grantFiles' = [Drop(grantFiles, w.unlinked) EXCEPT ![g] = NewGrant(id, r)]
                /\ minted' = [minted EXCEPT ![g] = NewGrant(id, r)]
    BY Zenon, <1>6
  <2>2. NewGrant(id, r) \in Grant /\ NewGrant(id, r) # None
    BY <1>2, ConstantsAssumption DEF NewGrant, Grant, ApprovalEnvelope, TypeOK
  <2>3. Entitled(p, r.user)
    BY Zenon, <1>1 DEF Entitled, MayResolve, Resolve
  <2>4. MintedFrom(NewGrant(id, r), id, p)
    BY Zenon, <1>1, <1>2, <1>6, <2>2, <2>3 DEF MintedFrom, NewGrant
  <2>5. [id |-> id, peer |-> p] \in consents'
    BY Zenon, <1>1, <1>6
  <2>6. /\ grantFiles'[g] = NewGrant(id, r)
        /\ \A h \in GrantIds \ {g} : grantFiles'[h] # None => grantFiles'[h] = grantFiles[h]
    BY Zenon, <1>4, <2>1 DEF Grants
  <2> HIDE DEF r
  <2>7. QED
    BY Zenon, <1>2, <1>3, <2>1, <2>2, <2>4, <2>5, <2>6
<1>7. QED
  BY Zenon, <1>1, <1>5, <1>6 DEF ExecuteApproved

\* Consents are only added, to questions on disk; an approval is spent when
\* it may be, and is then marked; a call is let through by a grant in memory;
\* a grant file only ever appears by being minted from a consent.
TrailStep ==
    /\ raised \subseteq raised'
    /\ consents \subseteq consents'
    /\ \A c \in consents' \ consents : files[c.id] # None
    /\ \/ spent' = spent
       \/ \E id \in Ids :
            /\ files[id] # None /\ MayConsume(files[id])
            /\ spent' = Bump(spent, {id})
            /\ files'[id] # None => files'[id].consumed
    /\ \A call \in inflight' \ inflight :
            /\ grants[call.grant] # None
            /\ grants[call.grant].uid = call.uid
            /\ grants[call.grant].capability = call.capability
    /\ \/ minted' = minted /\ GrantFilesShrink
       \/ \E g \in GrantIds, n \in Grant, id \in Ids, p \in Peers :
            /\ minted[g] = None
            /\ minted' = [minted EXCEPT ![g] = n]
            /\ grantFiles'[g] = n
            /\ \A h \in GrantIds \ {g} :
                    grantFiles'[h] # None => grantFiles'[h] = grantFiles[h]
            /\ [id |-> id, peer |-> p] \in consents'
            /\ MintedFrom(n, id, p)

\* Every step of the daemon keeps the store invariant, moves each file by
\* FilesStep and each trail by TrailStep.
LEMMA NextFacts ==
    ASSUME StoreInv, [Next]_vars
    PROVE  StoreInv' /\ FilesStep /\ TrailStep
<1>1. ASSUME SweepOnly
      PROVE  StoreInv' /\ FilesStep /\ TrailStep
  BY Zenon, <1>1, SweepOnlyStep DEF SweepOnly, TrailStep
<1>2. ASSUME Request
      PROVE  StoreInv' /\ FilesStep /\ TrailStep
  <2>1. PICK spec \in NewApproval : CreateApproval(spec)
    BY Zenon, <1>2, RequestSpecs
  <2>2. raised \subseteq raised'
    BY Zenon, <2>1 DEF CreateApproval
  <2>3. UNCHANGED <<inflight, minted, consents, spent>>
    BY Zenon, <2>1 DEF CreateApproval
  <2>4. QED
    BY Zenon, <2>1, <2>2, <2>3, CreateStep DEF TrailStep
<1>3. ASSUME NEW p \in Peers, NEW id \in Ids, NEW d \in {"approved", "denied"},
             Resolve(p, id, d)
      PROVE  StoreInv' /\ FilesStep /\ TrailStep
  <2>1. UNCHANGED <<inflight, raised, spent>>
    BY Zenon, <1>3 DEF Resolve
  <2>2. [id |-> id, peer |-> p].id = id
    OBVIOUS
  <2>3. StoreInv' /\ FilesStep
    BY Zenon, <1>3, ResolveStep
  <2>4. /\ files[id] # None
        /\ consents' \in {consents, consents \cup {[id |-> id, peer |-> p]}}
        /\ \/ minted' = minted /\ GrantFilesShrink
           \/ \E g \in GrantIds, n \in Grant :
                 /\ minted[g] = None
                 /\ minted' = [minted EXCEPT ![g] = n]
                 /\ grantFiles'[g] = n
                 /\ \A h \in GrantIds \ {g} :
                        grantFiles'[h] # None => grantFiles'[h] = grantFiles[h]
                 /\ [id |-> id, peer |-> p] \in consents'
                 /\ MintedFrom(n, id, p)
    BY Zenon, <1>3, ResolveTrail
  <2>5. \A c \in consents' \ consents : files[c.id] # None
    BY Zenon, <2>2, <2>4
  <2>6. QED
    BY Zenon, <2>1, <2>3, <2>4, <2>5 DEF TrailStep
<1>4. ASSUME PersistResolution
      PROVE  StoreInv' /\ FilesStep /\ TrailStep
  BY Zenon, <1>4, PersistStep DEF PersistResolution, TrailStep, GrantFilesShrink, trail
<1>5. ASSUME NEW p \in Peers, NEW id \in Ids, Consume(p, id)
      PROVE  StoreInv' /\ FilesStep /\ TrailStep
  <2>1. UNCHANGED <<inflight, raised, minted, consents>>
    BY Zenon, <1>5 DEF Consume
  <2>2. QED
    BY Zenon, <1>5, <2>1, ConsumeStep DEF TrailStep
<1>6. ASSUME NEW p \in Peers, PrivilegeRevoke(p)
      PROVE  StoreInv' /\ FilesStep /\ TrailStep
  <2>1. UNCHANGED <<inflight, raised, minted, consents, spent>>
    BY Zenon, <1>6 DEF PrivilegeRevoke
  <2>2. QED
    BY Zenon, <1>6, <2>1, RevokeStep DEF TrailStep
<1>7. ASSUME NEW p \in Peers, NEW c \in Capabilities, AuthorizeByGrant(p, c)
      PROVE  StoreInv' /\ FilesStep /\ TrailStep
  <2>1. UNCHANGED <<raised, minted, consents, spent>>
    BY Zenon, <1>7 DEF AuthorizeByGrant
  <2>2. QED
    BY Zenon, <1>7, <2>1, AuthorizeStep DEF TrailStep
<1>8. ASSUME Restart
      PROVE  StoreInv' /\ FilesStep /\ TrailStep
  BY Zenon, <1>8, RestartStep DEF Restart, TrailStep
<1>9. ASSUME \/ \E call \in inflight : ExecuteAuthorized(call)
             \/ Crash
             \/ Tick
             \/ UNCHANGED vars
      PROVE  StoreInv' /\ FilesStep /\ TrailStep
  BY Zenon, <1>9, QuietStep DEF TrailStep, GrantFilesShrink, trail
<1>10. QED
  BY Zenon, <1>1, <1>2, <1>3, <1>4, <1>5, <1>6, <1>7, <1>8, <1>9 DEF Next

-----------------------------------------------------------------------------
(* The invariant is inductive.                                             *)

\* The parts of a record that no later step changes.
SameRequest(r, s) ==
    /\ s.kind = r.kind /\ s.uid = r.uid /\ s.capability = r.capability
    /\ s.user = r.user /\ s.expires = r.expires

\* A record that was there before the step, and under a raised id, is the
\* same request afterwards, and a spent one stays spent.
LEMMA RequestsKept ==
    ASSUME TypeOK, FilesStep, NEW i \in Ids, i \in raised, files'[i] # None
    PROVE  /\ files[i] # None
           /\ SameRequest(files[i], files'[i])
           /\ files[i].consumed => files'[i].consumed
<1>1. FileStep(i)
  BY Zenon DEF FilesStep
<1>2. files[i] # None
  BY Zenon, <1>1 DEF FileStep
<1>3. files[i] \in ApprovalEnvelope
  BY Zenon, <1>2 DEF TypeOK
<1>4. QED
  BY ZenonT(30), <1>1, <1>2, <1>3 DEF FileStep, Swept, SameRequest, ApprovalEnvelope

\* Whatever is on disk, consented to or granted goes back to an id that was
\* raised (fresh_hex_id), so a new id never meets an old trail.
LEMMA IdsRaisedStep ==
    ASSUME IInv, TypeOK', FilesStep, TrailStep
    PROVE  IdsRaised'
<1>1. \A i \in Ids : files'[i] # None => i \in raised'
  BY Zenon DEF IInv, IdsRaised, FilesStep, FileStep, TrailStep
<1>2. \A i \in Ids : spent'[i] # 0 => i \in raised'
  <2>1. CASE spent' = spent
    BY Zenon, <2>1 DEF IInv, IdsRaised, TrailStep
  <2>2. ASSUME NEW id \in Ids, files[id] # None, spent' = Bump(spent, {id})
        PROVE  \A i \in Ids : spent'[i] # 0 => i \in raised'
    <3>1. id \in raised'
      BY Zenon, <2>2 DEF IInv, IdsRaised, TrailStep
    <3>2. \A i \in Ids : i # id => spent'[i] = spent[i]
      BY Zenon, <2>2, BumpFacts DEF IInv, TypeOK
    <3>3. QED
      BY Zenon, <3>1, <3>2 DEF IInv, IdsRaised, TrailStep
  <2>3. QED
    BY Zenon, <2>1, <2>2 DEF TrailStep
<1>3. \A c \in consents' : c.id \in raised'
  <2>1. SUFFICES ASSUME NEW c \in consents', c \notin consents
                 PROVE  c.id \in raised'
    BY Zenon DEF IInv, IdsRaised, TrailStep
  <2>2. files[c.id] # None
    BY Zenon, <2>1 DEF TrailStep
  <2>3. QED
    BY Zenon, <2>2 DEF IInv, IdsRaised, TrailStep, TypeOK, Consent
<1>4. QED
  BY Zenon, <1>1, <1>2, <1>3 DEF IdsRaised

\* An approved record on disk always has the consent that approved it.
LEMMA ApprovedStep ==
    ASSUME IInv, FilesStep, TrailStep
    PROVE  ApprovedHasConsent'
<1>1. SUFFICES ASSUME NEW i \in Ids, files'[i] # None, files'[i].status = "approved"
               PROVE  \E c \in consents : c.id = i
  BY Zenon DEF ApprovedHasConsent, TrailStep
<1>2. FileStep(i)
  BY Zenon DEF FilesStep
<1>3. files[i] # None
  BY Zenon, <1>1, <1>2 DEF FileStep
<1>4. files[i] \in ApprovalEnvelope
  BY Zenon, <1>3 DEF IInv, TypeOK
<1>5. CASE files[i].status = "approved"
  BY Zenon, <1>3, <1>5 DEF IInv, ApprovedHasConsent
<1>6. CASE resolving # None /\ i = resolving.id /\ resolving.status = "approved"
  BY Zenon, <1>6 DEF IInv, ResolvingHeld
<1>7. QED
  BY Zenon, <1>1, <1>2, <1>3, <1>4, <1>5, <1>6 DEF FileStep, Swept, MayConsume, ApprovalEnvelope

\* The consume count of an id follows the consumed flag of its record.
LEMMA SpentStep ==
    ASSUME IInv, TypeOK', FilesStep, TrailStep
    PROVE  SpentOnce'
<1>1. SUFFICES ASSUME NEW i \in Ids
               PROVE  /\ spent'[i] <= 1
                      /\ spent'[i] = 1 => /\ files'[i] # None => files'[i].consumed
                                          /\ \E c \in consents : c.id = i
  BY Zenon DEF SpentOnce, TrailStep
<1>2. CASE spent'[i] = spent[i]
  <2>1. spent[i] = 1 => i \in raised
    BY DEF IInv, IdsRaised
  <2>2. spent[i] = 1 => (files'[i] # None => files'[i].consumed)
    BY Zenon, <2>1, RequestsKept DEF IInv, SpentOnce
  <2>3. QED
    BY Zenon, <1>2, <2>2 DEF IInv, SpentOnce
<1>3. CASE /\ files[i] # None
           /\ MayConsume(files[i])
           /\ spent' = Bump(spent, {i})
           /\ files'[i] # None => files'[i].consumed
  <2>1. spent[i] \in 0 .. 2 /\ spent[i] <= 1 /\ (spent[i] = 1 => files[i].consumed)
    BY Zenon, <1>3 DEF IInv, TypeOK, SpentOnce
  <2>2. spent[i] = 0
    BY <1>3, <2>1 DEF MayConsume
  <2>3. spent'[i] = 1
    BY <1>3, <2>2, BumpFacts DEF IInv, TypeOK
  <2>4. \E c \in consents : c.id = i
    BY Zenon, <1>3 DEF IInv, ApprovedHasConsent, MayConsume
  <2>5. QED
    BY <1>3, <2>3, <2>4
<1>4. ASSUME NEW id \in Ids, id # i, spent' = Bump(spent, {id})
      PROVE  spent'[i] = spent[i]
  BY Zenon, <1>4, BumpFacts DEF IInv, TypeOK
<1>5. QED
  BY Zenon, <1>2, <1>3, <1>4 DEF TrailStep

\* The consent behind a grant keeps standing behind it: the record it
\* answered is the same request after the step, or gone.
LEMMA ConsentKept ==
    ASSUME IInv, FilesStep, TrailStep, NEW n \in Grant, NEW c \in consents,
           c.id = n.approval,
           files[c.id] # None =>
                /\ files[c.id].kind = "privilege_request"
                /\ files[c.id].uid = n.uid
                /\ files[c.id].capability = n.capability
                /\ Entitled(c.peer, files[c.id].user)
    PROVE  files'[c.id] # None =>
                /\ files'[c.id].kind = "privilege_request"
                /\ files'[c.id].uid = n.uid
                /\ files'[c.id].capability = n.capability
                /\ Entitled(c.peer, files'[c.id].user)
<1>1. c.id \in Ids /\ c.id \in raised
  BY Zenon DEF IInv, TypeOK, Consent, IdsRaised
<1>2. files'[c.id] # None => files[c.id] # None /\ SameRequest(files[c.id], files'[c.id])
  BY Zenon, <1>1, RequestsKept DEF IInv
<1>3. QED
  BY Zenon, <1>2 DEF SameRequest

\* What PrivilegeHasConsent says of one grant that was minted.
Consented(n, cs, fls) ==
    \E c \in cs :
        /\ c.id = n.approval
        /\ fls[c.id] # None =>
            /\ fls[c.id].kind = "privilege_request"
            /\ fls[c.id].uid = n.uid
            /\ fls[c.id].capability = n.capability
            /\ Entitled(c.peer, fls[c.id].user)

\* Every grant, and every call relying on one, keeps the consent it was minted
\* from.
LEMMA PrivilegeStep ==
    ASSUME IInv, TypeOK', FilesStep, TrailStep
    PROVE  PrivilegeHasConsent'
<1>1. \A g \in GrantIds : minted[g] # None => minted'[g] = minted[g]
  BY Zenon DEF TrailStep, IInv, TypeOK
<1>2. \A g \in GrantIds : grantFiles'[g] # None => grantFiles'[g] = minted'[g]
  <2>1. CASE minted' = minted /\ GrantFilesShrink
    BY Zenon, <2>1 DEF IInv, PrivilegeHasConsent, GrantFilesShrink
  <2>2. ASSUME NEW g \in GrantIds, NEW n \in Grant,
               minted' = [minted EXCEPT ![g] = n], grantFiles'[g] = n,
               \A h \in GrantIds \ {g} : grantFiles'[h] # None => grantFiles'[h] = grantFiles[h]
        PROVE  \A h \in GrantIds : grantFiles'[h] # None => grantFiles'[h] = minted'[h]
    BY Zenon, <2>2 DEF IInv, PrivilegeHasConsent, TypeOK
  <2>3. QED
    BY Zenon, <2>1, <2>2 DEF TrailStep
<1>3. ASSUME NEW call \in inflight'
      PROVE  /\ minted'[call.grant] # None
             /\ minted'[call.grant].uid = call.uid
             /\ minted'[call.grant].capability = call.capability
  <2>1. call.grant \in GrantIds
    BY Zenon DEF TypeOK, Call
  <2>2. CASE call \in inflight
    BY ZenonT(30), <1>1, <2>1, <2>2 DEF IInv, PrivilegeHasConsent
  <2>3. CASE call \notin inflight
    <3>1. /\ grants[call.grant] # None
          /\ grants[call.grant].uid = call.uid
          /\ grants[call.grant].capability = call.capability
      BY Zenon, <1>3, <2>3 DEF TrailStep
    <3>2. minted[call.grant] = grants[call.grant]
      BY Zenon, <2>1, <3>1 DEF IInv, MemoryIsDurable, PrivilegeHasConsent
    <3>3. QED
      BY Zenon, <1>1, <2>1, <3>1, <3>2
  <2>4. QED
    BY Zenon, <2>2, <2>3
<1>4. ASSUME NEW g \in GrantIds, minted'[g] # None
      PROVE  Consented(minted'[g], consents', files')
  <2>1. CASE minted[g] # None
    <3>1. minted'[g] = minted[g] /\ minted[g] \in Grant
      BY Zenon, <1>1, <2>1 DEF IInv, TypeOK
    <3>2. PICK c \in consents :
            /\ c.id = minted[g].approval
            /\ files[c.id] # None =>
                /\ files[c.id].kind = "privilege_request"
                /\ files[c.id].uid = minted[g].uid
                /\ files[c.id].capability = minted[g].capability
                /\ Entitled(c.peer, files[c.id].user)
      BY Zenon, <2>1 DEF IInv, PrivilegeHasConsent
    <3>3. files'[c.id] # None =>
                /\ files'[c.id].kind = "privilege_request"
                /\ files'[c.id].uid = minted[g].uid
                /\ files'[c.id].capability = minted[g].capability
                /\ Entitled(c.peer, files'[c.id].user)
      BY Zenon, <3>1, <3>2, ConsentKept
    <3>4. c \in consents'
      BY Zenon DEF TrailStep
    <3>5. QED
      BY Zenon, <3>1, <3>2, <3>3, <3>4 DEF Consented
  <2>2. CASE minted[g] = None
    <3>1. PICK h \in GrantIds, n \in Grant, id \in Ids, p \in Peers :
            /\ minted' = [minted EXCEPT ![h] = n]
            /\ [id |-> id, peer |-> p] \in consents'
            /\ MintedFrom(n, id, p)
      BY Zenon, <1>4, <2>2 DEF TrailStep
    <3>2. minted'[g] = n
      BY Zenon, <1>4, <2>2, <3>1 DEF IInv, TypeOK
    <3> DEFINE c == [id |-> id, peer |-> p]
    <3>3. c.id = id /\ c.peer = p /\ c \in consents'
      BY Zenon, <3>1
    <3> HIDE DEF c
    <3>4. QED
      BY Zenon, <3>1, <3>2, <3>3 DEF Consented, MintedFrom
  <2>3. QED
    BY Zenon, <2>1, <2>2
<1>5. QED
  BY Zenon, <1>2, <1>3, <1>4 DEF PrivilegeHasConsent, Consented

\* The empty store satisfies the inductive invariant.
LEMMA InitIInv == Init => IInv
  BY ConstantsAssumption
     DEF Init, IInv, TypeOK, MemoryIsDurable, ResolvingHeld, IdsRaised, ApprovedHasConsent,
         PrivilegeHasConsent, SpentOnce

\* The inductive invariant is preserved by every step.
LEMMA NextIInv == IInv /\ [Next]_vars => IInv'
<1>1. SUFFICES ASSUME IInv, [Next]_vars
               PROVE  IInv'
  OBVIOUS
<1>2. StoreInv' /\ FilesStep /\ TrailStep
  BY Zenon, <1>1, NextFacts DEF IInv, StoreInv
<1>3. TypeOK' /\ MemoryIsDurable' /\ ResolvingHeld'
  BY Zenon, <1>2 DEF StoreInv
<1>4. IdsRaised' /\ ApprovedHasConsent' /\ PrivilegeHasConsent' /\ SpentOnce'
  BY Zenon, <1>1, <1>2, <1>3, IdsRaisedStep, ApprovedStep, PrivilegeStep, SpentStep
<1>5. QED
  BY Zenon, <1>3, <1>4 DEF IInv

-----------------------------------------------------------------------------
(* The theorems.                                                           *)

\* IInv holds in every reachable state.
THEOREM Invariance == Spec => []IInv
  BY InitIInv, NextIInv, PTL DEF Spec

\* Every variable keeps its type.
THEOREM TypeCorrect == Spec => []TypeOK
<1>1. IInv => TypeOK
  BY Zenon DEF IInv
<1>2. QED
  BY <1>1, Invariance, PTL

\* What readers of the approval store are told is what a restart will load,
\* whatever writes and unlinks fail and wherever the daemon crashes.
THEOREM Durability == Spec => []MemoryIsDurable
<1>1. IInv => MemoryIsDurable
  BY Zenon DEF IInv
<1>2. QED
  BY <1>1, Invariance, PTL

\* Every privilege that exists goes back to an entitled person's yes to a
\* request for exactly that uid and capability.
THEOREM Lineage == Spec => []PrivilegeHasConsent
<1>1. IInv => PrivilegeHasConsent
  BY Zenon DEF IInv
<1>2. QED
  BY <1>1, Invariance, PTL

\* approvals.consume answers success at most once per approval, and only
\* after a yes.
THEOREM SingleUse == Spec => []SpentOnce
<1>1. IInv => SpentOnce
  BY Zenon DEF IInv
<1>2. QED
  BY <1>1, Invariance, PTL

\* A recorded answer is never turned into another one, and a spent approval
\* is never un-spent, by any handler, sweep or restart.
THEOREM Finality == Spec => AnswersAreFinal
<1>1. ASSUME IInv, [Next]_vars, NEW i \in Ids, files[i] # None, IsTerminal(files[i]),
             files'[i] # None
      PROVE  files'[i].status = files[i].status /\ (files[i].consumed => files'[i].consumed)
  <2>1. FileStep(i)
    BY Zenon, <1>1, NextFacts DEF IInv, StoreInv, FilesStep
  <2>2. i \in raised /\ files[i] \in ApprovalEnvelope
    BY Zenon, <1>1 DEF IInv, IdsRaised, TypeOK
  <2>3. QED
    BY Zenon, <1>1, <2>1, <2>2 DEF FileStep, Swept, IsTerminal, ApprovalEnvelope
<1>2. IInv /\ [Next]_vars =>
        [\A i \in Ids : files[i] # None /\ IsTerminal(files[i]) =>
            \/ files'[i] = None
            \/ /\ files'[i].status = files[i].status
               /\ files[i].consumed => files'[i].consumed]_vars
  BY Zenon, <1>1
<1>3. QED
  BY <1>2, Invariance, PTL DEF Spec, AnswersAreFinal

\* An approval is carried out only by a resolve of a question on disk that
\* has not lapsed.
LEMMA ExecutionsStep ==
    ASSUME StoreInv, [Next]_vars, NEW i \in Ids, executions'[i] # executions[i]
    PROVE  files[i] # None /\ now < files[i].expires
<1> USE DEF StoreInv
<1>1. PICK p \in Peers, id \in Ids, d \in {"approved", "denied"} : Resolve(p, id, d)
  BY Zenon DEF Next, vars, SweepOnly, Request, AgentCapabilitySet, ApprovalsCreate,
         PrivilegeRequest, CreateApproval, PersistResolution, Consume, PrivilegeRevoke,
         AuthorizeByGrant, ExecuteAuthorized, Crash, Restart, Tick, trail
<1>2. PICK w \in Sweeps(records, grants) :
        /\ AfterSweep(records, w)[id] # None
        /\ MayResolve(p, AfterSweep(records, w)[id])
        /\ \/ ExecuteApproved(id, AfterSweep(records, w)[id],
                              Drop(grants, w.dropped), Drop(grantFiles, w.unlinked))
           \/ UNCHANGED executions
  BY Zenon, <1>1 DEF Resolve
<1>3. executions' \in {executions, Bump(executions, {id})}
  BY Zenon, <1>2 DEF ExecuteApproved
<1>4. i = id
  BY <1>3, BumpFacts DEF TypeOK
<1>5. /\ files[id] # None
      /\ files[id] \in ApprovalEnvelope
      /\ Swept(files[id], AfterSweep(records, w)[id])
  BY ZenonT(30), <1>2, SweepStep DEF MemoryIsDurable, TypeOK
<1>6. AfterSweep(records, w)[id].expires = files[id].expires
  BY Zenon, <1>5 DEF Swept, ApprovalEnvelope
<1>7. ~(now >= files[id].expires)
  BY Zenon, <1>2, <1>6 DEF MayResolve, HasLapsed
<1>8. now \in Int /\ files[id].expires \in Int
  BY <1>5, ConstantsAssumption DEF TypeOK, ApprovalEnvelope, Times
<1>9. QED
  BY <1>4, <1>5, <1>7, <1>8

\* Nothing an approval authorises happens at or after its expires_at.
THEOREM Timeliness == Spec => NoLateEffect
<1>1. ASSUME IInv, [Next]_vars, NEW i \in Ids, spent'[i] # spent[i]
      PROVE  files[i] # None /\ now < files[i].expires
  <2>1. TrailStep
    BY Zenon, <1>1, NextFacts DEF IInv, StoreInv
  <2>2. PICK id \in Ids : /\ files[id] # None /\ MayConsume(files[id])
                          /\ spent' = Bump(spent, {id})
    BY Zenon, <1>1, <2>1 DEF TrailStep
  <2>3. i = id
    BY ZenonT(30), <1>1, <2>2, BumpFacts DEF IInv, TypeOK
  <2>4. files[id] \in ApprovalEnvelope /\ ~(now >= files[id].expires)
    BY Zenon, <1>1, <2>2 DEF MayConsume, HasLapsed, IInv, TypeOK
  <2>5. now \in Int /\ files[id].expires \in Int
    BY <1>1, <2>4, ConstantsAssumption DEF IInv, TypeOK, ApprovalEnvelope, Times
  <2>6. QED
    BY <2>2, <2>3, <2>4, <2>5
<1>2. ASSUME IInv, [Next]_vars, NEW i \in Ids, executions'[i] # executions[i]
      PROVE  files[i] # None /\ now < files[i].expires
  BY Zenon, <1>2, ExecutionsStep DEF IInv, StoreInv
<1>3. IInv /\ [Next]_vars =>
        [\A i \in Ids : executions'[i] # executions[i] \/ spent'[i] # spent[i] =>
            files[i] # None /\ now < files[i].expires]_vars
  BY Zenon, <1>1, <1>2
<1>4. QED
  BY <1>3, Invariance, PTL DEF Spec, NoLateEffect

-----------------------------------------------------------------------------
(* The store implements the lifecycle of an approval.                      *)

\* Every approval is at a stage of the lifecycle.
LEMMA StageType == TypeOK => \A i \in Ids : StageOf(i) \in Lifecycle!Stages
<1>1. SUFFICES ASSUME TypeOK, NEW i \in Ids
               PROVE  StageOf(i) \in Lifecycle!Stages
  OBVIOUS
<1>2. files[i] # None => files[i] \in ApprovalEnvelope
  BY Zenon, <1>1 DEF TypeOK
<1>3. files[i] # None => files[i].status \in {"pending", "approved", "denied", "expired"}
  BY <1>2 DEF ApprovalEnvelope, Statuses
<1>4. QED
  BY Zenon, <1>3 DEF StageOf, Lifecycle!Stages

\* A step of the daemon leaves an approval at its stage or makes one move.
LEMMA StageStep ==
    ASSUME IInv, FilesStep, TrailStep, NEW i \in Ids
    PROVE  StageOf(i)' = StageOf(i) \/ <<StageOf(i), StageOf(i)'>> \in Lifecycle!Moves
<1>1. FileStep(i)
  BY Zenon DEF FilesStep
<1>2. /\ files[i] # None => files[i] \in ApprovalEnvelope /\ i \in raised
      /\ i \in raised => i \in raised'
  BY Zenon DEF IInv, TypeOK, IdsRaised, TrailStep
<1>3. files[i] # None => files[i].status \in {"pending", "approved", "denied", "expired"}
  BY <1>2 DEF ApprovalEnvelope, Statuses
<1>4. StageOf(i)' = IF files'[i] = None THEN IF i \in raised' THEN "gone" ELSE "unasked"
                    ELSE IF files'[i].consumed THEN "consumed" ELSE files'[i].status
  BY Zenon DEF StageOf
<1>5. CASE files'[i] = None /\ i \notin raised'
  BY Zenon, <1>2, <1>4, <1>5 DEF StageOf
<1>6. CASE files'[i] = None /\ i \in raised'
  <2>1. StageOf(i)' = "gone"
    BY Zenon, <1>4, <1>6
  <2>2. StageOf(i) \in {"unasked", "pending", "approved", "denied", "expired", "consumed", "gone"}
    BY Zenon, <1>3 DEF StageOf
  <2>3. QED
    BY <2>1, <2>2 DEF Lifecycle!Moves
<1>7. CASE /\ files'[i] # None
           /\ i \notin raised /\ i \in raised'
           /\ files'[i].status = "pending" /\ ~files'[i].consumed
  <2>1. StageOf(i)' = "pending" /\ StageOf(i) = "unasked"
    BY Zenon, <1>2, <1>4, <1>7 DEF StageOf
  <2>2. QED
    BY <2>1 DEF Lifecycle!Moves
<1>8. CASE files'[i] # None /\ files[i] # None /\ Swept(files[i], files'[i])
  <2>1. CASE files'[i] = files[i]
    BY Zenon, <1>4, <1>8, <2>1 DEF StageOf
  <2>2. CASE files[i].status = "pending" /\ files'[i] = [files[i] EXCEPT !.status = "expired"]
    <3>1. files'[i].status = "expired" /\ files'[i].consumed = files[i].consumed
      BY <1>2, <1>8, <2>2 DEF ApprovalEnvelope
    <3>2. CASE files[i].consumed
      BY Zenon, <1>4, <1>8, <3>1, <3>2 DEF StageOf
    <3>3. CASE ~files[i].consumed
      <4>1. StageOf(i)' = "expired" /\ StageOf(i) = "pending"
        BY Zenon, <1>4, <1>8, <2>2, <3>1, <3>3 DEF StageOf
      <4>2. QED
        BY <4>1 DEF Lifecycle!Moves
    <3>4. QED
      BY Zenon, <3>2, <3>3
  <2>3. QED
    BY Zenon, <1>8, <2>1, <2>2 DEF Swept
<1>9. CASE /\ files'[i] # None /\ files[i] # None
           /\ resolving # None /\ files[i].status = "pending"
           /\ files'[i] = [files[i] EXCEPT !.status = resolving.status, !.by = resolving.by]
  <2>1. resolving.status \in {"approved", "denied"}
    BY <1>9 DEF IInv, TypeOK, Resolution
  <2>2. files'[i].status = resolving.status /\ files'[i].consumed = files[i].consumed
    BY <1>2, <1>9 DEF ApprovalEnvelope
  <2>3. CASE files[i].consumed
    BY Zenon, <1>4, <1>9, <2>2, <2>3 DEF StageOf
  <2>4. CASE ~files[i].consumed
    <3>1. StageOf(i)' = resolving.status /\ StageOf(i) = "pending"
      BY Zenon, <1>4, <1>9, <2>2, <2>4 DEF StageOf
    <3>2. QED
      BY <2>1, <3>1 DEF Lifecycle!Moves
  <2>5. QED
    BY Zenon, <2>3, <2>4
<1>10. CASE /\ files'[i] # None /\ files[i] # None
            /\ MayConsume(files[i]) /\ files'[i] = [files[i] EXCEPT !.consumed = TRUE]
  <2>1. files'[i].consumed
    BY <1>2, <1>10 DEF ApprovalEnvelope
  <2>2. StageOf(i)' = "consumed" /\ StageOf(i) = "approved"
    BY Zenon, <1>4, <1>10, <2>1 DEF StageOf, MayConsume
  <2>3. QED
    BY <2>2 DEF Lifecycle!Moves
<1>11. QED
  BY Zenon, <1>1, <1>5, <1>6, <1>7, <1>8, <1>9, <1>10 DEF FileStep

\* The approval store implements ApprovalLifecycle: through every handler,
\* failed write, eviction, crash and restart an approval is answered once and
\* spent once, and does not come back.
THEOREM Implementation == Spec => ImplementsLifecycle
<1>1. Init => Lifecycle!LifecycleInit
  BY Zenon DEF Init, Lifecycle!LifecycleInit, StageOf
<1>2. IInv /\ [Next]_vars =>
        [Lifecycle!LifecycleStep]_[i \in Ids |-> StageOf(i)]
  <2>1. SUFFICES ASSUME IInv, [Next]_vars
                 PROVE  Lifecycle!LifecycleStep
    OBVIOUS
  <2>2. FilesStep /\ TrailStep
    BY Zenon, <2>1, NextFacts DEF IInv, StoreInv
  <2>3. \A i \in Ids : \/ StageOf(i)' = StageOf(i)
                      \/ <<StageOf(i), StageOf(i)'>> \in Lifecycle!Moves
    BY Zenon, <2>1, <2>2, StageStep
  <2>4. \A i \in Ids : StageOf(i)' \in Lifecycle!Stages
    <3>1. \A x, y : <<x, y>> \in Lifecycle!Moves => y \in Lifecycle!Stages
      BY DEF Lifecycle!Moves, Lifecycle!Stages
    <3>2. \A i \in Ids : StageOf(i) \in Lifecycle!Stages
      BY Zenon, <2>1, StageType DEF IInv
    <3>3. QED
      BY Zenon, <2>3, <3>1, <3>2
  <2>5. QED
    BY Zenon, <2>3, <2>4 DEF Lifecycle!LifecycleStep
<1>3. QED
  BY <1>1, <1>2, Invariance, PTL DEF Spec, ImplementsLifecycle, Lifecycle!LifecycleSpec

-----------------------------------------------------------------------------
(* Without faults every step is exact.                                     *)

\* No write, index write or unlink fails, and the daemon stops only between
\* requests.
Gentle == Faults \subseteq {"restart"}

\* The store is within its record bound.
WithinBound(recs) ==
    IsFiniteSet(Held(recs)) /\ Cardinality(Held(recs)) <= MAX_APPROVAL_RECORDS

\* Expiring what has lapsed changes the status of those records and leaves
\* none that is pending and late.
LEMMA ExpireFacts ==
    ASSUME NEW recs \in Records
    PROVE  /\ Expire(recs, Lapsed(recs)) \in Records
           /\ Held(Expire(recs, Lapsed(recs))) = Held(recs)
           /\ \A i \in Ids : Expire(recs, Lapsed(recs))[i] =
                IF i \in Lapsed(recs) THEN [recs[i] EXCEPT !.status = "expired"] ELSE recs[i]
           /\ \A i \in Lapsed(recs) :
                /\ recs[i] # None /\ recs[i].status = "pending"
                /\ Expire(recs, Lapsed(recs))[i].status = "expired"
           /\ \A i \in Held(recs) : Expire(recs, Lapsed(recs))[i].status = "pending" =>
                /\ Expire(recs, Lapsed(recs))[i] = recs[i]
                /\ i \in Answerable(recs)
           /\ Answerable(Expire(recs, Lapsed(recs))) = Answerable(recs)
           /\ \A who : PendingForRequester(Expire(recs, Lapsed(recs)), who) =
                            PendingForRequester(recs, who)
<1> DEFINE L == Lapsed(recs)
           after == Expire(recs, L)
<1>1. /\ L \subseteq Ids
      /\ \A i \in L : recs[i] # None /\ recs[i].status = "pending" /\ HasLapsed(recs[i])
      /\ \A i \in Ids : recs[i] # None /\ recs[i].status = "pending" /\ HasLapsed(recs[i]) => i \in L
  BY Zenon DEF Lapsed, Held
<1>2. \A i \in Ids :
        after[i] = IF i \in L THEN [recs[i] EXCEPT !.status = "expired"] ELSE recs[i]
  BY Zenon DEF Expire
<1>3. \A i \in L : /\ recs[i] \in ApprovalEnvelope
                   /\ [recs[i] EXCEPT !.status = "expired"] \in ApprovalEnvelope
                   /\ [recs[i] EXCEPT !.status = "expired"].status = "expired"
  BY <1>1 DEF Records, ApprovalEnvelope, Statuses
<1>4. \A i \in L : after[i] \in ApprovalEnvelope /\ after[i] # None /\ after[i].status = "expired"
  <2>1. \A i \in L : after[i] = [recs[i] EXCEPT !.status = "expired"]
    BY Zenon, <1>1, <1>2
  <2>2. None \notin ApprovalEnvelope
    BY Zenon, ConstantsAssumption
  <2> HIDE DEF L, after
  <2>3. QED
    BY Zenon, <1>3, <2>1, <2>2
<1>5. after \in Records
  BY Zenon, <1>3 DEF Expire, Records
<1> HIDE DEF L, after
<1>6. Held(after) = Held(recs)
  <2>1. \A i \in Ids : after[i] # None <=> recs[i] # None
    BY Zenon, <1>1, <1>2, <1>4
  <2>2. QED
    BY Zenon, <2>1 DEF Held
<1>7. "expired" # "pending"
  OBVIOUS
<1>8. \A i \in Held(recs) : after[i].status = "pending" =>
        after[i] = recs[i] /\ i \in Answerable(recs)
  BY Zenon, <1>1, <1>2, <1>4, <1>7 DEF Held, Answerable
<1>9. Answerable(after) = Answerable(recs)
  <2>1. \A i \in Answerable(recs) : i \notin L
    BY Zenon, <1>1 DEF Answerable
  <2>2. \A i \in Answerable(recs) : i \in Ids /\ i \in Held(recs) /\ after[i] = recs[i]
    BY Zenon, <1>2, <2>1 DEF Answerable, Held
  <2>3. Answerable(recs) \subseteq Answerable(after)
    BY Zenon, <1>6, <2>2 DEF Answerable
  <2>4. Answerable(after) \subseteq Answerable(recs)
    BY Zenon, <1>6, <1>8 DEF Answerable
  <2>5. QED
    BY Zenon, <2>3, <2>4
<1>10. \A who : PendingForRequester(after, who) = PendingForRequester(recs, who)
  <2>1. \A i \in Answerable(recs) : after[i] = recs[i]
    <3>1. \A i \in Answerable(recs) : i \in Ids /\ i \notin L
      BY Zenon, <1>1 DEF Answerable, Held
    <3>2. QED
      BY Zenon, <1>2, <3>1
  <2>2. QED
    BY Zenon, <1>9, <2>1 DEF PendingForRequester
<1>11. QED
  BY Zenon, <1>1, <1>2, <1>4, <1>5, <1>6, <1>8, <1>9, <1>10 DEF L, after

\* A store within its bound has nothing to evict.
LEMMA NothingToEvict ==
    ASSUME NEW recs, WithinBound(recs)
    PROVE  /\ Excess(recs) = 0
           /\ \A V \in SUBSET Held(recs) : Cardinality(V) <= 0 => V = {}
<1>1. Cardinality(Held(recs)) \in Nat
  BY FS_CardinalityType DEF WithinBound
<1>2. Excess(recs) = 0
  BY <1>1, ConstantsAssumption DEF Excess, WithinBound
<1>3. ASSUME NEW V \in SUBSET Held(recs), Cardinality(V) <= 0
      PROVE  V = {}
  <2>1. IsFiniteSet(V)
    BY FS_Subset DEF WithinBound
  <2>2. Cardinality(V) \in Nat
    BY <2>1, FS_CardinalityType
  <2>3. Cardinality(V) = 0
    BY <1>3, <2>2
  <2>4. QED
    BY Zenon, <2>1, <2>3, FS_EmptySet
<1>4. QED
  BY <1>2, <1>3

\* Without faults a sweep (sweep_approvals) expires and audits exactly what has
\* lapsed, evicts nothing and unlinks what it drops.
LEMMA GentleSweep ==
    ASSUME Gentle, NEW recs \in Records, NEW gs, NEW w \in Sweeps(recs, gs), WithinBound(recs)
    PROVE  /\ w.audited = Lapsed(recs)
           /\ w.dropped = LapsedGrants(gs)
           /\ w.unlinked = w.dropped
           /\ AfterSweep(recs, w) = Expire(recs, Lapsed(recs))
           /\ FilesAfterSweep(recs, recs, w) = Expire(recs, Lapsed(recs))
<1>1. /\ "write" \notin Faults /\ "index" \notin Faults /\ "unlink" \notin Faults
  BY DEF Gentle
<1>2. /\ w.expired = Lapsed(recs)
      /\ w.audited = w.expired
      /\ w.evicted \subseteq Terminal(Expire(recs, w.expired))
      /\ Cardinality(w.evicted) <= IF w.expired = {} THEN 0 ELSE Excess(Expire(recs, w.expired))
      /\ w.dropped = LapsedGrants(gs)
      /\ w.unlinked = w.dropped
  BY Zenon, <1>1 DEF Sweeps
<1> DEFINE after == Expire(recs, Lapsed(recs))
<1>3. Held(after) = Held(recs)
  BY Zenon, ExpireFacts
<1>4. WithinBound(after)
  BY Zenon, <1>3 DEF WithinBound
<1>5. w.evicted \in SUBSET Held(after)
  BY Zenon, <1>2 DEF Terminal
<1> HIDE DEF after
<1>6. Excess(after) = 0
  BY Zenon, <1>4, NothingToEvict
<1>7. Cardinality(w.evicted) <= 0
  BY Zenon, <1>2, <1>6 DEF after
<1>8. w.evicted = {}
  BY Zenon, <1>4, <1>5, <1>7, NothingToEvict
<1>9. AfterSweep(recs, w) = after
  <2>1. AfterSweep(recs, w) = Without(after, {})
    BY Zenon, <1>2, <1>8 DEF AfterSweep, after
  <2>2. Without(after, {}) = after
    BY Zenon DEF Without, after, Expire
  <2>3. QED
    BY Zenon, <2>1, <2>2
<1>10. FilesAfterSweep(recs, recs, w) = after
  <2>1. FilesAfterSweep(recs, recs, w) =
            Without([i \in Ids |-> IF i \in Lapsed(recs) THEN after[i] ELSE recs[i]], {})
    BY Zenon, <1>2, <1>8 DEF FilesAfterSweep, after
  <2>2. [i \in Ids |-> IF i \in Lapsed(recs) THEN after[i] ELSE recs[i]] = after
    BY Zenon DEF after, Expire
  <2>3. Without(after, {}) = after
    BY Zenon DEF Without, after, Expire
  <2>4. QED
    BY Zenon, <2>1, <2>2, <2>3
<1>11. QED
  BY Zenon, <1>2, <1>9, <1>10 DEF after

\* Without faults a put (ApprovalStore::put) writes the record, evicts what
\* is over the bound and says so, alike in memory and on disk.
LEMMA GentlePut ==
    ASSUME Gentle, NEW recs \in Records, NEW id \in Ids, NEW r \in ApprovalEnvelope,
           NEW o \in PutOutcomes(recs, recs, id, r)
    PROVE  /\ o.records = o.files
           /\ \E V \in SUBSET Terminal([recs EXCEPT ![id] = r]) :
                /\ Cardinality(V) = Excess([recs EXCEPT ![id] = r])
                /\ o.files = Without([recs EXCEPT ![id] = r], V)
<1>1. "write" \notin Faults /\ "unlink" \notin Faults
  BY DEF Gentle
<1> DEFINE recs2 == [recs EXCEPT ![id] = r]
<1>2. PICK x : /\ x.evicted \in Evictions(recs2)
               /\ o = [records |-> Without(recs2, x.evicted),
                       files |-> Without(recs2, x.evicted), ok |-> x.ok]
  BY Zenon, <1>1 DEF PutOutcomes
<1>3. /\ x.evicted \in SUBSET Terminal(recs2)
      /\ Cardinality(x.evicted) = Excess(recs2)
  BY Zenon, <1>1, <1>2 DEF Evictions
<1>4. o.records = Without(recs2, x.evicted) /\ o.files = Without(recs2, x.evicted)
  BY Zenon, <1>2
<1>5. QED
  BY Zenon, <1>3, <1>4

-----------------------------------------------------------------------------
(* The invariant of the faultless store.                                   *)

\* Memory is the disk while the daemon runs.
MemoryIsDisk == up => records = files /\ grants = grantFiles

\* A yes to approval i is recorded, is about to be, or its record has been
\* evicted.
Decided(i) ==
    /\ i \in raised
    /\ \/ files[i] = None
       \/ files[i].status = "approved"
       \/ resolving # None /\ resolving.id = i /\ resolving.status = "approved"

\* What was carried out or minted was decided; what was audited as lapsed has
\* lapsed for good; what was handed back has no file and is not minted again.
HistoryExact ==
    /\ \A i \in Ids : executions[i] <= 1 /\ (executions[i] # 0 => Decided(i))
    /\ \A g \in GrantIds : minted[g] # None => Decided(minted[g].approval)
    /\ \A i \in Ids :
        /\ expireEvents[i] <= 1
        /\ files[i] # None /\ files[i].status = "expired" => expireEvents[i] = 1
        /\ expireEvents[i] # 0 =>
            i \in raised /\ (files[i] = None \/ files[i].status = "expired")
    /\ \A g \in handedBack : grantFiles[g] = None /\ minted[g] # None

Bounded ==
    /\ WithinBound(files)
    /\ Cardinality(Answerable(files)) <= MAX_PENDING_APPROVALS
    /\ \A who \in Requesters :
        Cardinality(PendingForRequester(files, who)) <= MAX_PENDING_PER_REQUESTER

GentleInv == IInv /\ MemoryIsDisk /\ HistoryExact /\ Bounded

\* What every sweep leaves.
SweptFiles == Expire(files, Lapsed(files))
SweptGrants == Drop(grantFiles, LapsedGrants(grantFiles))

\* A running daemon's sweep, in these terms.
LEMMA GentleSwept ==
    ASSUME Gentle, TypeOK, MemoryIsDisk, WithinBound(files), up,
           NEW w \in Sweeps(records, grants)
    PROVE  /\ w.audited = Lapsed(files)
           /\ w.dropped = LapsedGrants(grantFiles)
           /\ AfterSweep(records, w) = SweptFiles
           /\ FilesAfterSweep(files, records, w) = SweptFiles
           /\ Drop(grants, w.dropped) = SweptGrants
           /\ Drop(grantFiles, w.unlinked) = SweptGrants
<1>1. files \in Records /\ records = files /\ grants = grantFiles
  BY Zenon DEF TypeOK, Records, MemoryIsDisk
<1>2. w \in Sweeps(files, grantFiles)
  BY Zenon, <1>1
<1>3. /\ w.audited = Lapsed(files)
      /\ w.dropped = LapsedGrants(grantFiles)
      /\ w.unlinked = w.dropped
      /\ AfterSweep(files, w) = Expire(files, Lapsed(files))
      /\ FilesAfterSweep(files, files, w) = Expire(files, Lapsed(files))
  BY Zenon, <1>1, <1>2, GentleSweep
<1>4. QED
  BY Zenon, <1>1, <1>3 DEF SweptFiles, SweptGrants

\* What the sweep leaves of a record.
LEMMA SweptFacts ==
    ASSUME TypeOK
    PROVE  /\ SweptFiles \in Records /\ Held(SweptFiles) = Held(files)
           /\ \A i \in Ids : i \notin Lapsed(files) => SweptFiles[i] = files[i]
           /\ \A i \in Held(files) : SweptFiles[i].status = "pending" => SweptFiles[i] = files[i]
<1>1. files \in Records
  BY Zenon DEF TypeOK, Records
<1>2. /\ Expire(files, Lapsed(files)) \in Records
      /\ Held(Expire(files, Lapsed(files))) = Held(files)
  BY Zenon, <1>1, ExpireFacts
<1>3. \A i \in Ids : Expire(files, Lapsed(files))[i] =
            IF i \in Lapsed(files) THEN [files[i] EXCEPT !.status = "expired"] ELSE files[i]
  BY Zenon, <1>1, ExpireFacts
<1>4. \A i \in Held(files) : Expire(files, Lapsed(files))[i].status = "pending" =>
            /\ Expire(files, Lapsed(files))[i] = files[i]
            /\ i \in Answerable(files)
  BY Zenon, <1>1, ExpireFacts
<1>5. \A i \in Ids : i \notin Lapsed(files) => SweptFiles[i] = files[i]
  BY Zenon, <1>3 DEF SweptFiles
<1>6. QED
  BY Zenon, <1>2, <1>4, <1>5 DEF SweptFiles

-----------------------------------------------------------------------------
(* What one step does to the lapses and to the grants handed back.         *)

\* A lapse is audited when it is recorded, and recorded when it is audited.
LapseStep(i) ==
    \/ /\ expireEvents'[i] = expireEvents[i]
       /\ files'[i] # None /\ files'[i].status = "expired" =>
            files[i] # None /\ files[i].status = "expired"
    \/ /\ expireEvents'[i] = IF expireEvents[i] < 2 THEN expireEvents[i] + 1 ELSE expireEvents[i]
       /\ files[i] # None /\ files[i].status = "pending"
       /\ files'[i] = None \/ files'[i].status = "expired"

LapsesStep == \A i \in Ids : LapseStep(i)

\* A grant is handed back with its file.
HandStep == \A g \in handedBack' \ handedBack : grantFiles[g] # None /\ grantFiles'[g] = None

\* Only a resolve carries out or mints, for the question it is answering, and
\* that question is pending until then.
YesStep ==
    /\ \A i \in Ids : executions'[i] # executions[i] =>
        /\ executions'[i] = IF executions[i] < 2 THEN executions[i] + 1 ELSE executions[i]
        /\ resolving = None
        /\ resolving' # None /\ resolving'.id = i /\ resolving'.status = "approved"
        /\ files[i] # None /\ files[i].status = "pending"
    /\ \A g \in GrantIds : minted'[g] # minted[g] =>
        /\ resolving' # None /\ resolving'.status = "approved"
        /\ resolving'.id = minted'[g].approval
        /\ files'[resolving'.id] # None
    /\ \A g \in GrantIds : minted[g] # None => minted'[g] = minted[g]

\* A resolve that holds the mutex ends by recording its answer.
MutexStep ==
    resolving # None =>
        \/ resolving' = resolving /\ files' = files
        \/ /\ resolving' = None
           /\ files'[resolving.id] = None \/ files'[resolving.id].status = resolving.status

ExactStep == MemoryIsDisk' /\ LapsesStep /\ HandStep /\ YesStep /\ MutexStep /\ Bounded'

\* The sweep of a step accounts for its lapses, when what the step does
\* afterwards touches no record that lapsed.
LEMMA SweepLapses ==
    ASSUME TypeOK, expireEvents' = Bump(expireEvents, Lapsed(files)),
           \A i \in Ids : files'[i] # None =>
                \/ files'[i] = SweptFiles[i]
                \/ i \notin Lapsed(files) /\ files'[i].status # "expired"
    PROVE  LapsesStep
<1>1. SUFFICES ASSUME NEW i \in Ids
               PROVE  LapseStep(i)
  BY Zenon DEF LapsesStep
<1>2. files \in Records
  BY Zenon DEF TypeOK, Records
<1>3. expireEvents'[i] = IF i \in Lapsed(files) /\ expireEvents[i] < 2
                         THEN expireEvents[i] + 1 ELSE expireEvents[i]
  <2>1. expireEvents \in [Ids -> 0 .. 2]
    BY Zenon DEF TypeOK
  <2>2. \A j \in Ids : Bump(expireEvents, Lapsed(files))[j] =
            IF j \in Lapsed(files) /\ expireEvents[j] < 2
            THEN expireEvents[j] + 1 ELSE expireEvents[j]
    BY Zenon, <2>1, BumpFacts
  <2>3. QED
    BY Zenon, <2>2
<1>4. CASE i \in Lapsed(files)
  <2>1. /\ files[i] # None /\ files[i].status = "pending"
        /\ SweptFiles[i].status = "expired"
    BY Zenon, <1>2, <1>4, ExpireFacts DEF SweptFiles
  <2>2. files'[i] = None \/ files'[i].status = "expired"
    BY Zenon, <1>4, <2>1
  <2>3. expireEvents'[i] = IF expireEvents[i] < 2 THEN expireEvents[i] + 1 ELSE expireEvents[i]
    BY Zenon, <1>3, <1>4
  <2>4. QED
    BY Zenon, <2>1, <2>2, <2>3 DEF LapseStep
<1>5. CASE i \notin Lapsed(files)
  <2>1. SweptFiles[i] = files[i]
    BY Zenon, <1>5, SweptFacts
  <2>2. expireEvents'[i] = expireEvents[i]
    BY Zenon, <1>3, <1>5
  <2>3. QED
    BY Zenon, <2>1, <2>2 DEF LapseStep
<1>6. QED
  BY Zenon, <1>4, <1>5

\* What the sweep drops it hands back, with its file.
LEMMA SweepHands ==
    ASSUME TypeOK, NEW T \in SUBSET GrantIds,
           \A g \in T : SweptGrants[g] # None,
           handedBack' = handedBack \cup LapsedGrants(grantFiles) \cup T,
           \A g \in GrantIds : grantFiles'[g] = IF g \in T THEN None ELSE SweptGrants[g]
    PROVE  HandStep
<1>1. /\ LapsedGrants(grantFiles) \subseteq GrantIds
      /\ \A g \in LapsedGrants(grantFiles) : grantFiles[g] # None /\ SweptGrants[g] = None
  BY Zenon DEF LapsedGrants, HeldGrants, SweptGrants, Drop
<1>2. \A g \in T : grantFiles[g] # None /\ grantFiles'[g] = None
  BY Zenon DEF SweptGrants, Drop
<1>3. QED
  BY Zenon, <1>1, <1>2 DEF HandStep

-----------------------------------------------------------------------------
(* The bounds of the store.                                                *)

\* The sets the bounds count are finite.
LEMMA OpenIsFinite ==
    ASSUME Bounded
    PROVE  /\ IsFiniteSet(Held(files))
           /\ IsFiniteSet(Answerable(files))
           /\ \A who : IsFiniteSet(PendingForRequester(files, who))
<1>1. IsFiniteSet(Held(files)) /\ Answerable(files) \in SUBSET Held(files)
  BY Zenon DEF Bounded, WithinBound, Answerable
<1>2. IsFiniteSet(Answerable(files))
  BY <1>1, FS_Subset
<1>3. \A who : PendingForRequester(files, who) \in SUBSET Answerable(files)
  BY Zenon DEF PendingForRequester
<1>4. ASSUME NEW who
      PROVE  IsFiniteSet(PendingForRequester(files, who))
  BY <1>2, <1>3, FS_Subset
<1>5. QED
  BY Zenon, <1>1, <1>2, <1>4

\* A smaller finite set has no more elements.
LEMMA Fewer ==
    ASSUME NEW S, NEW T \in SUBSET S, IsFiniteSet(S), NEW n \in Nat, Cardinality(S) <= n
    PROVE  IsFiniteSet(T) /\ Cardinality(T) <= n
<1>1. IsFiniteSet(T) /\ Cardinality(T) <= Cardinality(S)
  BY FS_Subset
<1>2. Cardinality(T) \in Nat /\ Cardinality(S) \in Nat
  BY <1>1, FS_CardinalityType
<1>3. QED
  BY <1>1, <1>2

\* A step that raises no question keeps the bounds.
LEMMA NoNewQuestion ==
    ASSUME TypeOK, TypeOK', Bounded, now <= now',
           \A i \in Ids : files'[i] # None =>
                files[i] # None /\ (files'[i].status = "pending" => files'[i] = files[i])
    PROVE  Bounded'
<1>1. Held(files') \in SUBSET Held(files)
  BY Zenon DEF Held
<1>2. WithinBound(files')
  <2>1. MAX_APPROVAL_RECORDS \in Nat
    BY Zenon, ConstantsAssumption
  <2>2. QED
    BY Zenon, <1>1, <2>1, Fewer DEF Bounded, WithinBound
<1>3. \A i \in Answerable(files)' : i \in Answerable(files) /\ files'[i] = files[i]
  <2>1. SUFFICES ASSUME NEW i \in Ids, files'[i] # None, files'[i].status = "pending",
                        ~(now' >= files'[i].expires)
                 PROVE  i \in Answerable(files) /\ files'[i] = files[i]
    BY Zenon DEF Answerable, Held, HasLapsed
  <2>2. files[i] # None /\ files'[i] = files[i]
    BY Zenon, <2>1
  <2>3. files[i] \in ApprovalEnvelope
    BY Zenon, <2>2 DEF TypeOK
  <2>4. files[i].expires \in Int /\ now \in Int /\ now' \in Int
    BY <2>3, ConstantsAssumption DEF ApprovalEnvelope, Times, TypeOK
  <2>5. ~(now >= files[i].expires)
    BY <2>1, <2>2, <2>4
  <2>6. QED
    BY Zenon, <2>1, <2>2, <2>5 DEF Answerable, Held, HasLapsed
<1>4. Answerable(files)' \in SUBSET Answerable(files)
  BY Zenon, <1>3
<1>5. \A who : PendingForRequester(files, who)' \in SUBSET PendingForRequester(files, who)
  BY Zenon, <1>3 DEF PendingForRequester
<1>6. Cardinality(Answerable(files)') <= MAX_PENDING_APPROVALS
  <2>1. MAX_PENDING_APPROVALS \in Nat
    BY Zenon, ConstantsAssumption
  <2>2. QED
    BY Zenon, <1>4, <2>1, OpenIsFinite, Fewer DEF Bounded
<1>7. ASSUME NEW who \in Requesters
      PROVE  Cardinality(PendingForRequester(files, who)') <= MAX_PENDING_PER_REQUESTER
  <2>1. MAX_PENDING_PER_REQUESTER \in Nat
    BY Zenon, ConstantsAssumption
  <2>2. QED
    BY Zenon, <1>5, <2>1, OpenIsFinite, Fewer DEF Bounded
<1>8. QED
  BY Zenon, <1>2, <1>6, <1>7 DEF Bounded

\* Raising a question keeps the bounds: the flood bounds were judged on the
\* swept store, and what is not evicted for room is pending.
LEMMA NewQuestion ==
    ASSUME TypeOK, Bounded, now' = now, NEW id \in Ids, files[id] = None,
           NEW r \in ApprovalEnvelope, r.status = "pending",
           NEW spec, r.requester = spec.requester,
           WithinPendingBounds(SweptFiles, spec),
           NEW V \in SUBSET Terminal([SweptFiles EXCEPT ![id] = r]),
           Cardinality(V) = Excess([SweptFiles EXCEPT ![id] = r]),
           files' = Without([SweptFiles EXCEPT ![id] = r], V)
    PROVE  Bounded'
<1> DEFINE G == [SweptFiles EXCEPT ![id] = r]
           T == Terminal(G)
           H == Held(G)
           A == Answerable(files)
<1>1. /\ SweptFiles \in Records
      /\ Held(SweptFiles) = Held(files)
      /\ \A i \in Held(files) : SweptFiles[i].status = "pending" => SweptFiles[i] = files[i] /\ i \in A
      /\ Answerable(SweptFiles) = A
      /\ \A who : PendingForRequester(SweptFiles, who) = PendingForRequester(files, who)
  BY Zenon, ExpireFacts DEF TypeOK, Records, SweptFiles
<1>2. \A i \in Ids : G[i] = IF i = id THEN r ELSE SweptFiles[i]
  BY Zenon, <1>1 DEF Records
<1>3. r # None
  BY Zenon, ConstantsAssumption
<1>4. \A i \in Ids : files'[i] = IF i \in V THEN None ELSE G[i]
  BY Zenon DEF Without
<1> HIDE DEF G
<1>5. /\ H = Held(files) \cup {id}
      /\ id \notin Held(files)
  <2>1. \A i \in Ids : i \in H <=> i \in Held(SweptFiles) \/ i = id
    BY Zenon, <1>2, <1>3 DEF Held
  <2>2. H \subseteq Ids /\ Held(SweptFiles) \subseteq Ids
    BY Zenon DEF Held
  <2>3. id \notin Held(files)
    BY Zenon DEF Held
  <2>4. QED
    BY Zenon, <1>1, <2>1, <2>2, <2>3
<1>6. T \in SUBSET H
  BY Zenon DEF Terminal
<1>7. H \ T \in SUBSET (A \cup {id})
  <2>1. SUFFICES ASSUME NEW i \in H, G[i].status = "pending", i # id
                 PROVE  i \in A
    BY Zenon DEF Terminal, IsTerminal
  <2>2. i \in Ids /\ i \in Held(files)
    BY Zenon, <1>5, <2>1 DEF Held
  <2>3. QED
    BY Zenon, <1>1, <1>2, <2>1, <2>2
<1>8. IsFiniteSet(Held(files)) /\ IsFiniteSet(A)
  BY Zenon, OpenIsFinite
<1>9. id \notin V
  BY Zenon, <1>2 DEF Terminal, IsTerminal, G
<1> HIDE DEF T, H, A
<1>10. /\ IsFiniteSet(H)
       /\ Cardinality(H) = Cardinality(Held(files)) + 1
  BY <1>5, <1>8, FS_AddElement
<1>11. /\ IsFiniteSet(A \cup {id})
       /\ Cardinality(A \cup {id}) <= Cardinality(A) + 1
       /\ Cardinality(A) \in Nat
       /\ Cardinality(A \cup {id}) \in Nat
  <2>1. IsFiniteSet(A \cup {id}) /\ Cardinality(A \cup {id}) =
            IF id \in A THEN Cardinality(A) ELSE Cardinality(A) + 1
    BY <1>8, FS_AddElement
  <2>2. Cardinality(A) \in Nat /\ Cardinality(A \cup {id}) \in Nat
    BY <1>8, <2>1, FS_CardinalityType
  <2>3. QED
    BY <2>1, <2>2
<1>12. Cardinality(A) < MAX_PENDING_APPROVALS
  BY Zenon, <1>1 DEF WithinPendingBounds
<1>13. /\ IsFiniteSet(T)
       /\ Cardinality(T) \in Nat
       /\ Cardinality(H) \in Nat
  BY <1>6, <1>10, FS_Subset, FS_CardinalityType
<1>14. Cardinality(H) - Cardinality(T) <= MAX_PENDING_APPROVALS
  <2>1. Cardinality(H \ T) = Cardinality(H) - Cardinality(H \cap T)
    BY <1>10, FS_Difference
  <2>2. H \cap T = T
    BY Zenon, <1>6
  <2>3. Cardinality(H \ T) <= Cardinality(A \cup {id})
    BY <1>7, <1>11, FS_Subset
  <2>4. MAX_PENDING_APPROVALS \in Nat
    BY Zenon, ConstantsAssumption
  <2>5. Cardinality(H \ T) = Cardinality(H) - Cardinality(T)
    BY Zenon, <2>1, <2>2
  <2>6. QED
    BY <1>11, <1>12, <1>13, <2>3, <2>4, <2>5
<1>15. /\ IsFiniteSet(Held(files'))
       /\ Cardinality(Held(files')) <= MAX_APPROVAL_RECORDS
  <2>1. Held(files') = H \ V
    <3>1. \A i \in Ids : i \in Held(files') <=> i \in H /\ i \notin V
      BY Zenon, <1>4 DEF Held, H
    <3>2. H \subseteq Ids /\ Held(files') \subseteq Ids
      BY Zenon DEF Held, H
    <3>3. QED
      BY Zenon, <3>1, <3>2
  <2>2. V \in SUBSET H
    BY Zenon, <1>6 DEF T, G
  <2>3. H \cap V = V
    BY Zenon, <2>2
  <2>4. IsFiniteSet(H \ V) /\ Cardinality(H \ V) = Cardinality(H) - Cardinality(H \cap V)
    BY <1>10, FS_Difference
  <2>5. Cardinality(H \ V) = Cardinality(H) - Cardinality(V)
    BY Zenon, <2>3, <2>4
  <2>6. Cardinality(V) = LET over == Cardinality(H) - MAX_APPROVAL_RECORDS
                         IN  IF over <= 0 THEN 0
                             ELSE IF over <= Cardinality(T) THEN over ELSE Cardinality(T)
    BY Zenon DEF Excess, H, T, G
  <2>7. /\ MAX_APPROVAL_RECORDS \in Nat /\ MAX_PENDING_APPROVALS \in Nat
        /\ MAX_PENDING_APPROVALS <= MAX_APPROVAL_RECORDS
    BY Zenon, ConstantsAssumption
  <2>8. Cardinality(H) - Cardinality(V) <= MAX_APPROVAL_RECORDS
    BY <1>13, <1>14, <2>6, <2>7
  <2>9. QED
    BY Zenon, <2>1, <2>4, <2>5, <2>8
<1>16. \A i \in Answerable(files)' :
            i \in A \cup {id} /\ files'[i] = IF i = id THEN r ELSE files[i]
  <2>1. SUFFICES ASSUME NEW i \in Ids, files'[i] # None, files'[i].status = "pending"
                 PROVE  i \in A \cup {id} /\ files'[i] = IF i = id THEN r ELSE files[i]
    BY Zenon DEF Answerable, Held
  <2>2. files'[i] = IF i = id THEN r ELSE SweptFiles[i]
    BY Zenon, <1>2, <1>4, <2>1
  <2>3. CASE i = id
    BY Zenon, <2>2, <2>3
  <2>4. CASE i # id
    <3>1. i \in Held(files)
      BY Zenon, <1>1, <2>1, <2>2, <2>4 DEF Held
    <3>2. QED
      BY Zenon, <1>1, <2>1, <2>2, <2>4, <3>1
  <2>5. QED
    BY Zenon, <2>3, <2>4
<1>17. Cardinality(Answerable(files)') <= MAX_PENDING_APPROVALS
  <2>1. Answerable(files)' \in SUBSET (A \cup {id})
    BY Zenon, <1>16
  <2>2. MAX_PENDING_APPROVALS \in Nat
    BY Zenon, ConstantsAssumption
  <2>3. Cardinality(A \cup {id}) <= MAX_PENDING_APPROVALS
    BY <1>11, <1>12, <2>2
  <2>4. QED
    BY <1>11, <2>1, <2>2, <2>3, Fewer
<1>18. ASSUME NEW who \in Requesters
       PROVE  Cardinality(PendingForRequester(files, who)') <= MAX_PENDING_PER_REQUESTER
  <2> DEFINE Q == PendingForRequester(files, who)
  <2>1. IsFiniteSet(Q) /\ Cardinality(Q) <= MAX_PENDING_PER_REQUESTER
    BY Zenon, OpenIsFinite DEF Bounded
  <2>2. MAX_PENDING_PER_REQUESTER \in Nat /\ Cardinality(Q) \in Nat
    BY <2>1, ConstantsAssumption, FS_CardinalityType
  <2>3. \A i \in Ids : i \in PendingForRequester(files, who)' =>
            i \in Q \/ (i = id /\ who = r.requester)
    BY Zenon, <1>16 DEF PendingForRequester, A
  <2>4. PendingForRequester(files, who)' \subseteq Ids
    BY Zenon DEF PendingForRequester, Answerable, Held
  <2>5. CASE who = r.requester
    <3>1. Cardinality(Q) < MAX_PENDING_PER_REQUESTER
      BY Zenon, <1>1, <2>5 DEF WithinPendingBounds
    <3>2. IsFiniteSet(Q \cup {id}) /\ Cardinality(Q \cup {id}) =
            IF id \in Q THEN Cardinality(Q) ELSE Cardinality(Q) + 1
      BY <2>1, FS_AddElement
    <3>3. Cardinality(Q \cup {id}) <= MAX_PENDING_PER_REQUESTER
      BY <2>2, <3>1, <3>2
    <3>4. PendingForRequester(files, who)' \in SUBSET (Q \cup {id})
      BY Zenon, <2>3, <2>4
    <3> HIDE DEF Q
    <3>5. QED
      BY <2>2, <3>2, <3>3, <3>4, Fewer
  <2>6. CASE who # r.requester
    <3>1. PendingForRequester(files, who)' \in SUBSET Q
      BY Zenon, <2>3, <2>4, <2>6
    <3> HIDE DEF Q
    <3>2. QED
      BY <2>1, <2>2, <3>1, Fewer
  <2>7. QED
    BY Zenon, <2>5, <2>6
<1>19. QED
  BY Zenon, <1>15, <1>17, <1>18 DEF Bounded, WithinBound

\* Whatever a put of this record comes to, it is in its place and all else is
\* as it was.
InPlace(recs, id, r) ==
    \A o \in PutOutcomes(recs, recs, id, r) :
        o.records = [recs EXCEPT ![id] = r] /\ o.files = [recs EXCEPT ![id] = r]

\* Writing a record that is there already evicts nothing.
LEMMA PutInPlace ==
    ASSUME Gentle, NEW recs \in Records, WithinBound(recs), NEW id \in Ids, recs[id] # None,
           NEW r \in ApprovalEnvelope
    PROVE  InPlace(recs, id, r)
<1> SUFFICES ASSUME NEW o \in PutOutcomes(recs, recs, id, r)
             PROVE  o.records = [recs EXCEPT ![id] = r] /\ o.files = [recs EXCEPT ![id] = r]
  BY Zenon DEF InPlace
<1> DEFINE G == [recs EXCEPT ![id] = r]
<1>1. PICK V \in SUBSET Terminal(G) : Cardinality(V) = Excess(G) /\ o.files = Without(G, V)
  BY Zenon, GentlePut
<1>2. o.records = o.files
  BY Zenon, GentlePut
<1>3. \A i \in Ids : G[i] = IF i = id THEN r ELSE recs[i]
  BY Zenon DEF Records
<1>4. G \in Records
  BY Zenon DEF Records
<1> HIDE DEF G
<1>5. Held(G) = Held(recs)
  <2>1. \A i \in Ids : G[i] # None <=> recs[i] # None
    BY Zenon, <1>3, ConstantsAssumption
  <2>2. QED
    BY Zenon, <2>1 DEF Held
<1>6. WithinBound(G)
  BY Zenon, <1>5 DEF WithinBound
<1>7. Cardinality(V) <= 0
  BY <1>1, <1>6, NothingToEvict
<1>8. V \in SUBSET Held(G)
  BY Zenon, <1>1 DEF Terminal
<1>9. V = {}
  BY Zenon, <1>6, <1>7, <1>8, NothingToEvict
<1>10. Without(G, {}) = G
  BY Zenon, <1>4 DEF Without, Records
<1>11. QED
  BY Zenon, <1>1, <1>2, <1>9, <1>10 DEF G

-----------------------------------------------------------------------------
(* Every faultless step is exact.                                          *)

\* Who executes nothing and mints nothing uses no yes.
LEMMA NoYes == UNCHANGED <<executions, minted>> => YesStep
  BY Zenon DEF YesStep

\* What a handler that only sweeps the approvals does to them.
LEMMA PlainSweep ==
    ASSUME GentleInv, TypeOK', now' = now, resolving = None,
           records' = SweptFiles, files' = SweptFiles, grants' = grantFiles',
           expireEvents' = Bump(expireEvents, Lapsed(files))
    PROVE  MemoryIsDisk' /\ LapsesStep /\ MutexStep /\ Bounded'
<1>1. files \in Records
  BY Zenon DEF GentleInv, IInv, TypeOK, Records
<1>2. LapsesStep
  BY Zenon, SweepLapses DEF GentleInv, IInv
<1>3. \A i \in Ids : files'[i] # None =>
            files[i] # None /\ (files'[i].status = "pending" => files'[i] = files[i])
  <2>1. Held(SweptFiles) = Held(files)
    BY Zenon, <1>1, ExpireFacts DEF SweptFiles
  <2>2. \A i \in Ids : SweptFiles[i] # None => i \in Held(files) /\ files[i] # None
    BY Zenon, <2>1 DEF Held
  <2>3. QED
    BY Zenon, <1>1, <2>2, ExpireFacts DEF SweptFiles
<1>4. now <= now'
  BY DEF GentleInv, IInv, TypeOK
<1>5. Bounded'
  BY Zenon, <1>3, <1>4, NoNewQuestion DEF GentleInv, IInv
<1>6. QED
  BY Zenon, <1>2, <1>5 DEF MemoryIsDisk, MutexStep

\* The sweep's part of handing back, when the handler drops no other grant.
LEMMA PlainHands ==
    ASSUME GentleInv, handedBack' = handedBack \cup LapsedGrants(grantFiles),
           \A g \in LapsedGrants(grantFiles) : grantFiles'[g] = SweptGrants[g]
    PROVE  HandStep
<1>1. \A g \in LapsedGrants(grantFiles) : grantFiles[g] # None /\ SweptGrants[g] = None
  BY Zenon DEF LapsedGrants, HeldGrants, SweptGrants, Drop
<1>2. QED
  BY Zenon, <1>1 DEF HandStep

\* approvals.list and approvals.get leave no more than their sweep.
LEMMA ExactSweepOnly ==
    ASSUME Gentle, GentleInv, TypeOK', SweepOnly
    PROVE  ExactStep
<1>1. TypeOK /\ MemoryIsDisk /\ WithinBound(files) /\ up /\ resolving = None
  BY Zenon DEF GentleInv, IInv, Bounded, SweepOnly, Ready
<1>2. PICK w \in Sweeps(records, grants) :
        /\ records' = AfterSweep(records, w)
        /\ files' = FilesAfterSweep(files, records, w)
        /\ grants' = Drop(grants, w.dropped)
        /\ grantFiles' = Drop(grantFiles, w.unlinked)
        /\ handedBack' = handedBack \cup w.dropped
        /\ expireEvents' = Bump(expireEvents, w.audited)
  BY Zenon DEF SweepOnly, SweepTrail
<1>3. /\ records' = SweptFiles /\ files' = SweptFiles
      /\ grants' = SweptGrants /\ grantFiles' = SweptGrants
      /\ handedBack' = handedBack \cup LapsedGrants(grantFiles)
      /\ expireEvents' = Bump(expireEvents, Lapsed(files))
  BY Zenon, <1>1, <1>2, GentleSwept
<1>4. now' = now /\ UNCHANGED <<executions, minted>>
  BY Zenon DEF SweepOnly
<1>5. QED
  BY Zenon, <1>1, <1>3, <1>4, PlainSweep, PlainHands, NoYes DEF ExactStep

\* A call that a grant lets through leaves the approvals to its sweep.
LEMMA ExactAuthorize ==
    ASSUME Gentle, GentleInv, TypeOK', NEW p \in Peers, NEW c \in Capabilities,
           AuthorizeByGrant(p, c)
    PROVE  ExactStep
<1>1. TypeOK /\ MemoryIsDisk /\ WithinBound(files) /\ up /\ resolving = None
  BY Zenon DEF GentleInv, IInv, Bounded, AuthorizeByGrant, Ready
<1>2. PICK w \in Sweeps(records, grants) :
        /\ records' = AfterSweep(records, w)
        /\ files' = FilesAfterSweep(files, records, w)
        /\ grants' = Drop(grants, w.dropped)
        /\ grantFiles' = Drop(grantFiles, w.unlinked)
        /\ handedBack' = handedBack \cup w.dropped
        /\ expireEvents' = Bump(expireEvents, w.audited)
  BY Zenon DEF AuthorizeByGrant, SweepTrail
<1>3. /\ records' = SweptFiles /\ files' = SweptFiles
      /\ grants' = SweptGrants /\ grantFiles' = SweptGrants
      /\ handedBack' = handedBack \cup LapsedGrants(grantFiles)
      /\ expireEvents' = Bump(expireEvents, Lapsed(files))
  BY Zenon, <1>1, <1>2, GentleSwept
<1>4. now' = now /\ UNCHANGED <<executions, minted>>
  BY Zenon DEF AuthorizeByGrant
<1>5. QED
  BY Zenon, <1>1, <1>3, <1>4, PlainSweep, PlainHands, NoYes DEF ExactStep

\* A restart reloads what is on disk, which is what was in memory.
LEMMA ExactRestart ==
    ASSUME Gentle, GentleInv, TypeOK', Restart
    PROVE  ExactStep
<1>1. TypeOK /\ WithinBound(files) /\ resolving = None /\ files \in Records
  BY Zenon DEF GentleInv, IInv, Bounded, Restart, ResolvingHeld, TypeOK, Records
<1>2. PICK w \in Sweeps(files, grantFiles) :
        /\ records' = AfterSweep(files, w)
        /\ files' = FilesAfterSweep(files, files, w)
        /\ grants' = Drop(grantFiles, w.dropped)
        /\ grantFiles' = Drop(grantFiles, w.unlinked)
        /\ handedBack' = handedBack \cup w.dropped
        /\ expireEvents' = Bump(expireEvents, w.audited)
  BY Zenon DEF Restart, SweepTrail
<1>3. /\ records' = SweptFiles /\ files' = SweptFiles
      /\ grants' = SweptGrants /\ grantFiles' = SweptGrants
      /\ handedBack' = handedBack \cup LapsedGrants(grantFiles)
      /\ expireEvents' = Bump(expireEvents, Lapsed(files))
  BY Zenon, <1>1, <1>2, GentleSweep DEF SweptFiles, SweptGrants
<1>4. now' = now /\ UNCHANGED <<executions, minted>>
  BY Zenon DEF Restart
<1>5. QED
  BY Zenon, <1>1, <1>3, <1>4, PlainSweep, PlainHands, NoYes DEF ExactStep

\* drop_grant unlinks what it forgets.
LEMMA ExactRevoke ==
    ASSUME Gentle, GentleInv, TypeOK', NEW p \in Peers, PrivilegeRevoke(p)
    PROVE  ExactStep
<1>1. TypeOK /\ MemoryIsDisk /\ WithinBound(files) /\ up /\ resolving = None
  BY Zenon DEF GentleInv, IInv, Bounded, PrivilegeRevoke, Ready
<1>2. PICK w \in Sweeps(records, grants) :
        /\ records' = AfterSweep(records, w)
        /\ files' = FilesAfterSweep(files, records, w)
        /\ \E T \in RevokeTargets(p, Drop(grants, w.dropped)) :
           \E o \in RevokeOutcomes(Drop(grants, w.dropped), Drop(grantFiles, w.unlinked), T) :
                /\ grants' = o.grants
                /\ grantFiles' = o.grantFiles
                /\ handedBack' = handedBack \cup w.dropped \cup o.gone
        /\ expireEvents' = Bump(expireEvents, w.audited)
  BY Zenon DEF PrivilegeRevoke, SweepTrail
<1>3. /\ w.dropped = LapsedGrants(grantFiles)
      /\ w.audited = Lapsed(files)
      /\ AfterSweep(records, w) = SweptFiles
      /\ FilesAfterSweep(files, records, w) = SweptFiles
      /\ Drop(grants, w.dropped) = SweptGrants
      /\ Drop(grantFiles, w.unlinked) = SweptGrants
  BY Zenon, <1>1, <1>2, GentleSwept
<1>4a. PICK T \in RevokeTargets(p, SweptGrants) :
           \E o \in RevokeOutcomes(SweptGrants, SweptGrants, T) :
                /\ grants' = o.grants
                /\ grantFiles' = o.grantFiles
                /\ handedBack' = handedBack \cup LapsedGrants(grantFiles) \cup o.gone
  BY Zenon, <1>2, <1>3
<1>4. PICK o \in RevokeOutcomes(SweptGrants, SweptGrants, T) :
                /\ grants' = o.grants
                /\ grantFiles' = o.grantFiles
                /\ handedBack' = handedBack \cup LapsedGrants(grantFiles) \cup o.gone
  BY Zenon, <1>4a
<1>5. "unlink" \notin Faults
  BY DEF Gentle
<1>6. o = [grants |-> Drop(SweptGrants, T), grantFiles |-> Drop(SweptGrants, T), gone |-> T]
  BY Zenon, <1>5 DEF RevokeOutcomes
<1>7. T \subseteq GrantIds /\ \A g \in T : SweptGrants[g] # None
  BY DEF RevokeTargets, HeldGrants, LiveGrants
<1>8. /\ grants' = grantFiles'
      /\ grantFiles' = Drop(SweptGrants, T)
      /\ handedBack' = handedBack \cup LapsedGrants(grantFiles) \cup T
  BY Zenon, <1>4, <1>6
<1>9. \A g \in GrantIds : grantFiles'[g] = IF g \in T THEN None ELSE SweptGrants[g]
  BY Zenon, <1>8 DEF Drop
<1>10. HandStep
  BY Zenon, <1>1, <1>7, <1>8, <1>9, SweepHands
<1>11. now' = now /\ UNCHANGED <<executions, minted>>
  BY Zenon DEF PrivilegeRevoke
<1>12. /\ records' = SweptFiles /\ files' = SweptFiles
       /\ expireEvents' = Bump(expireEvents, Lapsed(files))
  BY Zenon, <1>2, <1>3
<1>13. QED
  BY Zenon, <1>1, <1>8, <1>10, <1>11, <1>12, PlainSweep, NoYes DEF ExactStep

\* A yes carries out the pending question it answers, and no other.
LEMMA ExactResolve ==
    ASSUME Gentle, GentleInv, TypeOK', NEW p \in Peers, NEW id \in Ids,
           NEW d \in {"approved", "denied"}, Resolve(p, id, d)
    PROVE  ExactStep
<1>1. TypeOK /\ MemoryIsDisk /\ WithinBound(files) /\ up /\ resolving = None /\ files \in Records
  BY Zenon DEF GentleInv, IInv, Bounded, Resolve, Ready, TypeOK, Records
<1>2. PICK w \in Sweeps(records, grants) :
        /\ AfterSweep(records, w)[id] # None
        /\ MayResolve(p, AfterSweep(records, w)[id])
        /\ records' = AfterSweep(records, w)
        /\ files' = FilesAfterSweep(files, records, w)
        /\ \/ /\ d = "approved"
              /\ ExecuteApproved(id, AfterSweep(records, w)[id],
                                 Drop(grants, w.dropped), Drop(grantFiles, w.unlinked))
           \/ /\ grants' = Drop(grants, w.dropped)
              /\ grantFiles' = Drop(grantFiles, w.unlinked)
              /\ UNCHANGED <<minted, executions>>
        /\ handedBack' = handedBack \cup w.dropped
        /\ expireEvents' = Bump(expireEvents, w.audited)
  BY Zenon DEF Resolve, SweepTrail
<1>3. /\ w.dropped = LapsedGrants(grantFiles)
      /\ w.audited = Lapsed(files)
      /\ AfterSweep(records, w) = SweptFiles
      /\ FilesAfterSweep(files, records, w) = SweptFiles
      /\ Drop(grants, w.dropped) = SweptGrants
      /\ Drop(grantFiles, w.unlinked) = SweptGrants
  BY Zenon, <1>1, <1>2, GentleSwept
<1>4. /\ SweptFiles[id] # None /\ SweptFiles[id].status = "pending"
      /\ records' = SweptFiles /\ files' = SweptFiles
      /\ handedBack' = handedBack \cup LapsedGrants(grantFiles)
      /\ expireEvents' = Bump(expireEvents, Lapsed(files))
      /\ \/ d = "approved" /\ ExecuteApproved(id, SweptFiles[id], SweptGrants, SweptGrants)
         \/ grants' = SweptGrants /\ grantFiles' = SweptGrants /\ UNCHANGED <<minted, executions>>
  BY Zenon, <1>2, <1>3 DEF MayResolve
<1>5. files[id] # None /\ files[id].status = "pending"
  <2>1. id \in Held(files)
    BY Zenon, <1>1, <1>4, SweptFacts DEF Held
  <2>2. SweptFiles[id] = files[id]
    BY Zenon, <1>1, <1>4, <2>1, SweptFacts
  <2>3. QED
    BY Zenon, <1>4, <2>2
<1>6. resolving' = [id |-> id, status |-> d, by |-> p.uid] /\ now' = now
  BY Zenon DEF Resolve
<1>7. resolving' # None /\ resolving'.id = id /\ resolving'.status = d
  <2>1. resolving' \in Resolution
    BY Zenon, <1>6 DEF Resolution, Peers
  <2>2. QED
    BY Zenon, <1>6, <2>1, ConstantsAssumption
<1>8. \/ /\ d = "approved" \/ UNCHANGED executions
         /\ executions' \in {executions, Bump(executions, {id})}
         /\ minted' = minted
         /\ grants' = SweptGrants /\ grantFiles' = SweptGrants
      \/ /\ d = "approved"
         /\ executions' = Bump(executions, {id})
         /\ \E g \in GrantIds :
              /\ minted[g] = None
              /\ grants' = [SweptGrants EXCEPT ![g] = NewGrant(id, SweptFiles[id])]
              /\ grantFiles' = [SweptGrants EXCEPT ![g] = NewGrant(id, SweptFiles[id])]
              /\ minted' = [minted EXCEPT ![g] = NewGrant(id, SweptFiles[id])]
  BY Zenon, <1>4 DEF ExecuteApproved
<1>9. grants' = grantFiles'
  BY Zenon, <1>8
<1>10. HandStep
  <2>1. CASE grantFiles' = SweptGrants
    BY Zenon, <1>4, <2>1, PlainHands
  <2>2. ASSUME NEW g \in GrantIds, minted[g] = None,
               grantFiles' = [SweptGrants EXCEPT ![g] = NewGrant(id, SweptFiles[id])]
        PROVE  HandStep
    <3>1. \A h \in LapsedGrants(grantFiles) : h \in GrantIds /\ grantFiles[h] # None
      BY Zenon DEF LapsedGrants, HeldGrants
    <3>2. g \notin LapsedGrants(grantFiles)
      BY Zenon, <2>2, <3>1 DEF GentleInv, IInv, PrivilegeHasConsent
    <3>3. \A h \in GrantIds : h # g => grantFiles'[h] = SweptGrants[h]
      BY Zenon, <2>2 DEF SweptGrants, Drop
    <3>4. \A h \in LapsedGrants(grantFiles) : grantFiles'[h] = SweptGrants[h]
      BY Zenon, <3>1, <3>2, <3>3
    <3>5. QED
      BY Zenon, <1>4, <3>4, PlainHands
  <2>3. QED
    BY Zenon, <1>8, <2>1, <2>2
<1>11. YesStep
  <2>1. ASSUME NEW i \in Ids, executions'[i] # executions[i]
        PROVE  /\ executions'[i] = IF executions[i] < 2 THEN executions[i] + 1 ELSE executions[i]
               /\ i = id /\ d = "approved"
    <3>1. executions' = Bump(executions, {id}) /\ d = "approved"
      BY Zenon, <1>8, <2>1
    <3>2. executions'[i] = IF i \in {id} /\ executions[i] < 2 THEN executions[i] + 1 ELSE executions[i]
      BY Zenon, <1>1, <3>1, BumpFacts DEF TypeOK
    <3>3. QED
      BY Zenon, <2>1, <3>1, <3>2
  <2>2. ASSUME NEW g \in GrantIds, minted'[g] # minted[g]
        PROVE  /\ d = "approved"
               /\ minted[g] = None
               /\ minted'[g].approval = id
    <3>1. PICK h \in GrantIds :
              /\ minted[h] = None
              /\ minted' = [minted EXCEPT ![h] = NewGrant(id, SweptFiles[id])]
              /\ d = "approved"
      BY Zenon, <1>8, <2>2
    <3>2. g = h /\ minted'[g] = NewGrant(id, SweptFiles[id])
      BY Zenon, <1>1, <2>2, <3>1 DEF TypeOK
    <3>3. NewGrant(id, SweptFiles[id]).approval = id
      BY DEF NewGrant
    <3>4. QED
      BY Zenon, <3>1, <3>2, <3>3
  <2>3. files'[id] # None
    BY Zenon, <1>4
  <2>4. QED
    BY Zenon, <1>1, <1>5, <1>7, <2>1, <2>2, <2>3 DEF YesStep
<1>12. QED
  BY Zenon, <1>1, <1>4, <1>6, <1>9, <1>10, <1>11, PlainSweep DEF ExactStep

\* A new question is pending, and whatever made room for it was answered.
LEMMA ExactCreate ==
    ASSUME Gentle, GentleInv, TypeOK', NEW spec \in NewApproval, CreateApproval(spec)
    PROVE  ExactStep
<1>1. /\ TypeOK /\ MemoryIsDisk /\ WithinBound(files) /\ Bounded
      /\ up /\ resolving = None /\ files \in Records
  BY Zenon DEF GentleInv, IInv, Bounded, CreateApproval, Ready, TypeOK, Records
<1>2. PICK w \in Sweeps(records, grants), id \in Ids \ raised :
        /\ WithinPendingBounds(AfterSweep(records, w), spec)
        /\ \E o \in PutOutcomes(AfterSweep(records, w), FilesAfterSweep(files, records, w),
                                id, NewRecord(spec)) :
                records' = o.records /\ files' = o.files
        /\ grants' = Drop(grants, w.dropped)
        /\ grantFiles' = Drop(grantFiles, w.unlinked)
        /\ handedBack' = handedBack \cup w.dropped
        /\ expireEvents' = Bump(expireEvents, w.audited)
  BY Zenon DEF CreateApproval, SweepTrail
<1>3. /\ w.dropped = LapsedGrants(grantFiles)
      /\ w.audited = Lapsed(files)
      /\ AfterSweep(records, w) = SweptFiles
      /\ FilesAfterSweep(files, records, w) = SweptFiles
      /\ Drop(grants, w.dropped) = SweptGrants
      /\ Drop(grantFiles, w.unlinked) = SweptGrants
  BY Zenon, <1>1, <1>2, GentleSwept
<1>4. /\ WithinPendingBounds(SweptFiles, spec)
      /\ \E o \in PutOutcomes(SweptFiles, SweptFiles, id, NewRecord(spec)) :
            records' = o.records /\ files' = o.files
      /\ grants' = SweptGrants /\ grantFiles' = SweptGrants
      /\ handedBack' = handedBack \cup LapsedGrants(grantFiles)
      /\ expireEvents' = Bump(expireEvents, Lapsed(files))
  BY Zenon, <1>2, <1>3
<1>5. PICK o \in PutOutcomes(SweptFiles, SweptFiles, id, NewRecord(spec)) :
            records' = o.records /\ files' = o.files
  BY Zenon, <1>4
<1>6. NewRecord(spec) \in ApprovalEnvelope /\ NewRecord(spec).status = "pending"
  BY Zenon, <1>1, NewRecordType DEF TypeOK
<1>7. NewRecord(spec).requester = spec.requester
  BY Zenon DEF NewRecord
<1> DEFINE r == NewRecord(spec)
<1> HIDE DEF r
<1>8. SweptFiles \in Records
  BY Zenon, <1>1, ExpireFacts DEF SweptFiles
<1>9. /\ records' = files'
      /\ \E V \in SUBSET Terminal([SweptFiles EXCEPT ![id] = r]) :
            /\ Cardinality(V) = Excess([SweptFiles EXCEPT ![id] = r])
            /\ files' = Without([SweptFiles EXCEPT ![id] = r], V)
  BY Zenon, <1>5, <1>6, <1>8, GentlePut DEF r
<1>10. PICK V \in SUBSET Terminal([SweptFiles EXCEPT ![id] = r]) :
            /\ Cardinality(V) = Excess([SweptFiles EXCEPT ![id] = r])
            /\ files' = Without([SweptFiles EXCEPT ![id] = r], V)
  BY Zenon, <1>9
<1>11. id \in Ids /\ files[id] = None
  BY Zenon DEF GentleInv, IInv, IdsRaised
<1>12. now' = now /\ UNCHANGED <<executions, minted>>
  BY Zenon DEF CreateApproval
<1>13. Bounded'
  BY Zenon, <1>1, <1>4, <1>6, <1>7, <1>10, <1>11, <1>12, NewQuestion DEF r
<1>14. LapsesStep
  <2>1. \A i \in Ids : files'[i] # None => files'[i] = IF i = id THEN r ELSE SweptFiles[i]
    BY Zenon, <1>8, <1>10 DEF Without, Records
  <2>2. id \notin Lapsed(files)
    BY Zenon, <1>11 DEF Lapsed, Held
  <2>3. r.status # "expired"
    BY <1>6 DEF r
  <2>4. \A i \in Ids : files'[i] # None =>
                \/ files'[i] = SweptFiles[i]
                \/ i \notin Lapsed(files) /\ files'[i].status # "expired"
    BY Zenon, <2>1, <2>2, <2>3
  <2>5. QED
    BY Zenon, <1>1, <1>4, <2>4, SweepLapses
<1>15. QED
  BY Zenon, <1>1, <1>4, <1>9, <1>12, <1>13, <1>14, PlainHands, NoYes
     DEF ExactStep, MemoryIsDisk, MutexStep

\* Spending an approval changes a record that was answered.
LEMMA ExactConsume ==
    ASSUME Gentle, GentleInv, TypeOK', NEW p \in Peers, NEW id \in Ids, Consume(p, id)
    PROVE  ExactStep
<1>1. /\ TypeOK /\ MemoryIsDisk /\ WithinBound(files) /\ Bounded
      /\ up /\ resolving = None /\ files \in Records
  BY Zenon DEF GentleInv, IInv, Bounded, Consume, Ready, TypeOK, Records
<1>2. PICK w \in Sweeps(records, grants) :
        /\ AfterSweep(records, w)[id] # None
        /\ MayConsume(AfterSweep(records, w)[id])
        /\ \E o \in PutOutcomes(AfterSweep(records, w), FilesAfterSweep(files, records, w),
                                id, [AfterSweep(records, w)[id] EXCEPT !.consumed = TRUE]) :
                records' = o.records /\ files' = o.files
        /\ grants' = Drop(grants, w.dropped)
        /\ grantFiles' = Drop(grantFiles, w.unlinked)
        /\ handedBack' = handedBack \cup w.dropped
        /\ expireEvents' = Bump(expireEvents, w.audited)
  BY Zenon DEF Consume, SweepTrail
<1>3. /\ w.dropped = LapsedGrants(grantFiles)
      /\ w.audited = Lapsed(files)
      /\ AfterSweep(records, w) = SweptFiles
      /\ FilesAfterSweep(files, records, w) = SweptFiles
      /\ Drop(grants, w.dropped) = SweptGrants
      /\ Drop(grantFiles, w.unlinked) = SweptGrants
  BY Zenon, <1>1, <1>2, GentleSwept
<1> DEFINE r == [SweptFiles[id] EXCEPT !.consumed = TRUE]
<1>4. /\ SweptFiles[id] # None
      /\ SweptFiles[id].status = "approved"
      /\ \E o \in PutOutcomes(SweptFiles, SweptFiles, id, r) :
            records' = o.records /\ files' = o.files
      /\ grants' = SweptGrants /\ grantFiles' = SweptGrants
      /\ handedBack' = handedBack \cup LapsedGrants(grantFiles)
      /\ expireEvents' = Bump(expireEvents, Lapsed(files))
  BY Zenon, <1>2, <1>3 DEF MayConsume
<1>5. SweptFiles \in Records /\ Held(SweptFiles) = Held(files)
  BY Zenon, <1>1, ExpireFacts DEF SweptFiles
<1>6. r \in ApprovalEnvelope /\ r.status = "approved"
  <2>1. SweptFiles[id] \in ApprovalEnvelope
    BY Zenon, <1>4, <1>5 DEF Records
  <2>2. QED
    BY <1>4, <2>1 DEF ApprovalEnvelope
<1> HIDE DEF r
<1>7. WithinBound(SweptFiles)
  BY Zenon, <1>1, <1>5 DEF WithinBound
<1>8. records' = [SweptFiles EXCEPT ![id] = r] /\ files' = [SweptFiles EXCEPT ![id] = r]
  <2>1. PICK o \in PutOutcomes(SweptFiles, SweptFiles, id, r) :
            records' = o.records /\ files' = o.files
    BY Zenon, <1>4
  <2>2. InPlace(SweptFiles, id, r)
    BY Zenon, <1>4, <1>5, <1>6, <1>7, PutInPlace
  <2>3. QED
    BY Zenon, <2>1, <2>2 DEF InPlace
<1>9. \A i \in Ids : files'[i] = IF i = id THEN r ELSE SweptFiles[i]
  BY Zenon, <1>5, <1>8 DEF Records
<1>10. "approved" # "expired" /\ "approved" # "pending"
  OBVIOUS
<1>11. LapsesStep
  <2>1. id \notin Lapsed(files)
    BY Zenon, <1>1, <1>4, <1>10, ExpireFacts DEF SweptFiles
  <2>2. \A i \in Ids : files'[i] # None =>
                \/ files'[i] = SweptFiles[i]
                \/ i \notin Lapsed(files) /\ files'[i].status # "expired"
    BY Zenon, <1>6, <1>9, <1>10, <2>1
  <2>3. QED
    BY Zenon, <1>1, <1>4, <2>2, SweepLapses
<1>12. now' = now /\ UNCHANGED <<executions, minted>>
  BY Zenon DEF Consume
<1>13. Bounded'
  <2>1. \A i \in Ids : files'[i] # None => i \in Held(files)
    BY Zenon, <1>4, <1>5, <1>9 DEF Held
  <2>2. \A i \in Ids : files'[i] # None /\ files'[i].status = "pending" => files'[i] = files[i]
    BY Zenon, <1>1, <1>6, <1>9, <1>10, <2>1, SweptFacts
  <2>3. now <= now'
    BY <1>1, <1>12 DEF TypeOK
  <2>4. \A i \in Ids : files'[i] # None => files[i] # None
    BY Zenon, <2>1 DEF Held
  <2>5. QED
    BY Zenon, <1>1, <2>2, <2>3, <2>4, NoNewQuestion
<1>14. QED
  BY Zenon, <1>1, <1>4, <1>8, <1>11, <1>12, <1>13, PlainHands, NoYes
     DEF ExactStep, MemoryIsDisk, MutexStep

\* The answer is recorded where the question was.
LEMMA ExactPersist ==
    ASSUME Gentle, GentleInv, TypeOK', PersistResolution
    PROVE  ExactStep
<1> DEFINE r == [records[resolving.id] EXCEPT !.status = resolving.status,
                                              !.by = resolving.by]
<1>1. /\ TypeOK /\ WithinBound(files) /\ Bounded /\ files \in Records
      /\ records = files /\ grants = grantFiles
  BY Zenon DEF GentleInv, IInv, Bounded, MemoryIsDisk, PersistResolution, TypeOK, Records
<1>2. /\ resolving \in Resolution /\ resolving # None
      /\ files[resolving.id] # None
  BY Zenon, <1>1 DEF PersistResolution, GentleInv, IInv, ResolvingHeld, TypeOK
<1>3. resolving.id \in Ids /\ resolving.status \in {"approved", "denied"} /\ resolving.by \in Humans
  BY Zenon, <1>2 DEF Resolution
<1>4. files[resolving.id] \in ApprovalEnvelope
  BY Zenon, <1>1, <1>2, <1>3 DEF Records
<1>5. r \in ApprovalEnvelope /\ r.status = resolving.status
  BY <1>1, <1>3, <1>4 DEF ApprovalEnvelope, Statuses
<1>6. PICK o \in PutOutcomes(records, files, resolving.id, r) :
            records' = o.records /\ files' = o.files
  BY Zenon DEF PersistResolution
<1> HIDE DEF r
<1>7. /\ records' = [files EXCEPT ![resolving.id] = r]
      /\ files' = [files EXCEPT ![resolving.id] = r]
  <2>1. o \in PutOutcomes(files, files, resolving.id, r)
    BY Zenon, <1>1, <1>6
  <2>2. InPlace(files, resolving.id, r)
    BY Zenon, <1>1, <1>2, <1>3, <1>5, PutInPlace
  <2>3. QED
    BY Zenon, <1>6, <2>1, <2>2 DEF InPlace
<1>8. \A i \in Ids : files'[i] = IF i = resolving.id THEN r ELSE files[i]
  BY Zenon, <1>1, <1>7 DEF Records
<1>9. r.status # "expired" /\ r.status # "pending"
  BY <1>3, <1>5
<1>10. /\ resolving' = None
       /\ UNCHANGED <<now, grants, grantFiles, executions, minted, expireEvents, handedBack>>
  BY Zenon DEF PersistResolution, trail
<1>11. LapsesStep
  BY Zenon, <1>8, <1>9, <1>10 DEF LapsesStep, LapseStep
<1>12. Bounded'
  <2>1. now <= now'
    BY <1>1, <1>10 DEF TypeOK
  <2>2. \A i \in Ids : files'[i] # None =>
                files[i] # None /\ (files'[i].status = "pending" => files'[i] = files[i])
    BY Zenon, <1>2, <1>8, <1>9
  <2>3. QED
    BY Zenon, <1>1, <2>1, <2>2, NoNewQuestion
<1>13. MutexStep
  BY Zenon, <1>3, <1>5, <1>8, <1>10 DEF MutexStep
<1>14. HandStep /\ YesStep
  BY Zenon, <1>10, NoYes DEF HandStep
<1>15. MemoryIsDisk'
  BY Zenon, <1>1, <1>7, <1>10 DEF MemoryIsDisk
<1>16. QED
  BY Zenon, <1>11, <1>12, <1>13, <1>14, <1>15 DEF ExactStep

\* The steps that leave the disk alone.
LEMMA ExactQuiet ==
    ASSUME Gentle, GentleInv, TypeOK',
           \/ \E call \in inflight : ExecuteAuthorized(call)
           \/ Crash
           \/ Tick
           \/ UNCHANGED vars
    PROVE  ExactStep
<1>1. TypeOK /\ Bounded /\ MemoryIsDisk
  BY Zenon DEF GentleInv, IInv
<1>2. /\ UNCHANGED <<files, grantFiles, executions, minted, expireEvents, handedBack>>
      /\ MemoryIsDisk'
  <2>1. CASE \E call \in inflight : ExecuteAuthorized(call)
    BY Zenon, <1>1, <2>1 DEF ExecuteAuthorized, store, trail, MemoryIsDisk
  <2>2. CASE Crash
    BY Zenon, <2>2 DEF Crash, trail, MemoryIsDisk
  <2>3. CASE Tick
    BY Zenon, <1>1, <2>3 DEF Tick, store, trail, MemoryIsDisk
  <2>4. CASE UNCHANGED vars
    BY Zenon, <1>1, <2>4 DEF vars, store, trail, MemoryIsDisk
  <2>5. QED
    BY Zenon, <2>1, <2>2, <2>3, <2>4
<1>3. MutexStep
  <2>1. "crash" \notin Faults
    BY DEF Gentle
  <2>2. Crash => resolving = None
    BY Zenon, <2>1 DEF Crash
  <2>3. ~Crash => resolving' = resolving
    BY Zenon DEF ExecuteAuthorized, Tick, vars
  <2>4. QED
    BY Zenon, <1>2, <2>2, <2>3 DEF MutexStep
<1>4. now <= now'
  <2>1. now' \in {now, now + 1}
    BY Zenon DEF ExecuteAuthorized, Crash, Tick, vars
  <2>2. QED
    BY <1>1, <2>1 DEF TypeOK
<1>5. Bounded'
  BY Zenon, <1>1, <1>2, <1>4, NoNewQuestion
<1>6. LapsesStep /\ HandStep /\ YesStep
  BY Zenon, <1>2, NoYes DEF LapsesStep, LapseStep, HandStep
<1>7. QED
  BY Zenon, <1>2, <1>3, <1>5, <1>6 DEF ExactStep

\* Every step that fails nowhere is exact.
LEMMA NextExact ==
    ASSUME Gentle, GentleInv, TypeOK', [Next]_vars
    PROVE  ExactStep
<1>1. ASSUME Request
      PROVE  ExactStep
  <2>1. PICK spec \in NewApproval : CreateApproval(spec)
    BY Zenon, <1>1, RequestSpecs
  <2>2. QED
    BY Zenon, <2>1, ExactCreate
<1>2. QED
  BY Zenon, <1>1, ExactSweepOnly, ExactResolve, ExactPersist, ExactConsume, ExactRevoke,
     ExactAuthorize, ExactRestart, ExactQuiet DEF Next

-----------------------------------------------------------------------------
(* The invariant of the faultless store is inductive.                      *)

\* What was decided stays decided.
LEMMA DecidedStays ==
    ASSUME IInv, FilesStep, TrailStep, MutexStep, NEW i \in Ids, Decided(i)
    PROVE  Decided(i)'
<1>1. i \in raised /\ i \in raised'
  BY Zenon DEF Decided, TrailStep
<1>2. FileStep(i)
  BY Zenon DEF FilesStep
<1>3. CASE files'[i] = None
  BY Zenon, <1>1, <1>3 DEF Decided
<1>4. CASE files'[i] # None
  <2>1. files[i] # None /\ files[i] \in ApprovalEnvelope
    BY Zenon, <1>1, <1>2, <1>4 DEF FileStep, IInv, TypeOK
  <2>2. CASE files[i].status = "approved"
    <3>1. files'[i].status = "approved"
      BY <1>1, <1>2, <1>4, <2>1, <2>2 DEF FileStep, Swept, ApprovalEnvelope
    <3>2. QED
      BY Zenon, <1>1, <3>1 DEF Decided
  <2>3. CASE resolving # None /\ resolving.id = i /\ resolving.status = "approved"
    BY Zenon, <1>1, <1>4, <2>3 DEF MutexStep, Decided
  <2>4. QED
    BY Zenon, <2>1, <2>2, <2>3 DEF Decided
<1>5. QED
  BY Zenon, <1>3, <1>4

\* A question that is pending, and not being answered with a yes, is undecided.
LEMMA PendingUndecided ==
    ASSUME NEW i, files[i] # None, files[i].status = "pending", resolving = None
    PROVE  ~Decided(i)
  BY DEF Decided

\* What the histories say of the files stays so over an exact step.
LEMMA HistoryStep ==
    ASSUME IInv, IInv', HistoryExact, FilesStep, TrailStep, ExactStep
    PROVE  HistoryExact'
<1> USE DEF ExactStep
<1>1. \A i \in Ids : executions'[i] <= 1 /\ (executions'[i] # 0 => Decided(i)')
  <2>1. SUFFICES ASSUME NEW i \in Ids
                 PROVE  executions'[i] <= 1 /\ (executions'[i] # 0 => Decided(i)')
    OBVIOUS
  <2>2. executions[i] <= 1 /\ (executions[i] # 0 => Decided(i)) /\ executions[i] \in 0 .. 2
    BY Zenon DEF HistoryExact, IInv, TypeOK
  <2>3. CASE executions'[i] = executions[i]
    BY Zenon, <2>2, <2>3, DecidedStays
  <2>4. CASE executions'[i] # executions[i]
    <3>1. /\ executions'[i] = IF executions[i] < 2 THEN executions[i] + 1 ELSE executions[i]
          /\ resolving = None
          /\ resolving' # None /\ resolving'.id = i /\ resolving'.status = "approved"
          /\ files[i] # None /\ files[i].status = "pending"
      BY Zenon, <2>4 DEF YesStep
    <3>2. executions[i] = 0
      BY Zenon, <2>2, <3>1, PendingUndecided
    <3>3. executions'[i] <= 1
      BY <3>1, <3>2
    <3>4. i \in raised'
      BY Zenon, <3>1 DEF IInv, IdsRaised, TrailStep
    <3>5. QED
      BY Zenon, <3>1, <3>3, <3>4 DEF Decided
  <2>5. QED
    BY Zenon, <2>3, <2>4
<1>2. \A g \in GrantIds : minted'[g] # None => Decided(minted[g].approval)'
  <2>1. SUFFICES ASSUME NEW g \in GrantIds, minted'[g] # None, NEW a, a = minted'[g].approval
                 PROVE  Decided(a)'
    BY Zenon DEF Decided
  <2>2. a \in Ids
    BY Zenon, <2>1 DEF IInv, TypeOK, Grant
  <2>3. CASE minted'[g] = minted[g]
    <3>1. Decided(a)
      BY Zenon, <2>1, <2>3 DEF HistoryExact
    <3>2. QED
      BY Zenon, <2>2, <3>1, DecidedStays
  <2>4. CASE minted'[g] # minted[g]
    <3>1. /\ resolving' # None /\ resolving'.status = "approved"
          /\ resolving'.id = a
          /\ files'[a] # None
      BY Zenon, <2>1, <2>4 DEF YesStep
    <3>2. a \in raised'
      BY Zenon, <2>2, <3>1 DEF IInv, IdsRaised
    <3>3. QED
      BY Zenon, <3>1, <3>2 DEF Decided
  <2>5. QED
    BY Zenon, <2>3, <2>4
<1>3. ASSUME NEW i \in Ids
      PROVE  /\ expireEvents'[i] <= 1
             /\ files'[i] # None /\ files'[i].status = "expired" => expireEvents'[i] = 1
             /\ expireEvents'[i] # 0 =>
                    i \in raised' /\ (files'[i] = None \/ files'[i].status = "expired")
  <2>1. /\ expireEvents[i] <= 1
        /\ files[i] # None /\ files[i].status = "expired" => expireEvents[i] = 1
        /\ expireEvents[i] # 0 =>
                i \in raised /\ (files[i] = None \/ files[i].status = "expired")
        /\ expireEvents[i] \in 0 .. 2
    BY Zenon DEF HistoryExact, IInv, TypeOK
  <2>2. LapseStep(i) /\ FileStep(i) /\ (i \in raised => i \in raised')
    BY Zenon DEF LapsesStep, FilesStep, TrailStep
  <2>3. CASE /\ expireEvents'[i] = expireEvents[i]
             /\ files'[i] # None /\ files'[i].status = "expired" =>
                    files[i] # None /\ files[i].status = "expired"
    <3>1. ASSUME expireEvents[i] # 0, files'[i] # None
          PROVE  files'[i].status = "expired"
      <4>1. i \in raised /\ files[i] # None
        BY Zenon, <2>1, <2>2, <3>1 DEF FileStep
      <4>2. files[i].status = "expired" /\ files[i] \in ApprovalEnvelope
        BY Zenon, <2>1, <3>1, <4>1 DEF IInv, TypeOK
      <4>3. QED
        BY <2>2, <3>1, <4>1, <4>2 DEF FileStep, Swept, MayConsume, ApprovalEnvelope
    <3>2. QED
      BY Zenon, <2>1, <2>2, <2>3, <3>1
  <2>4. CASE /\ expireEvents'[i] = IF expireEvents[i] < 2 THEN expireEvents[i] + 1 ELSE expireEvents[i]
             /\ files[i] # None /\ files[i].status = "pending"
             /\ files'[i] = None \/ files'[i].status = "expired"
    <3>1. expireEvents[i] = 0
      BY <2>1, <2>4
    <3>2. expireEvents'[i] = 1
      BY <2>4, <3>1
    <3>3. i \in raised'
      BY Zenon, <2>2, <2>4 DEF IInv, IdsRaised
    <3>4. QED
      BY <2>4, <3>2, <3>3
  <2>5. QED
    BY Zenon, <2>2, <2>3, <2>4 DEF LapseStep
<1>4. \A g \in handedBack' : grantFiles'[g] = None /\ minted'[g] # None
  <2>1. SUFFICES ASSUME NEW g \in handedBack'
                 PROVE  grantFiles'[g] = None /\ minted'[g] # None
    OBVIOUS
  <2>2. g \in GrantIds
    BY Zenon DEF IInv, TypeOK
  <2>3. CASE g \in handedBack
    <3>1. grantFiles[g] = None /\ minted[g] # None
      BY Zenon, <2>3 DEF HistoryExact
    <3>2. minted'[g] = minted[g]
      BY Zenon, <2>2, <3>1 DEF YesStep
    <3>3. grantFiles'[g] # None => grantFiles'[g] = grantFiles[g]
      <4>1. CASE minted' = minted /\ GrantFilesShrink
        BY Zenon, <2>2, <4>1 DEF GrantFilesShrink
      <4>2. ASSUME NEW h \in GrantIds, minted[h] = None,
                   \A k \in GrantIds \ {h} :
                        grantFiles'[k] # None => grantFiles'[k] = grantFiles[k]
            PROVE  grantFiles'[g] # None => grantFiles'[g] = grantFiles[g]
        BY Zenon, <2>2, <3>1, <4>2
      <4>3. QED
        BY Zenon, <4>1, <4>2 DEF TrailStep
    <3>4. QED
      BY Zenon, <3>1, <3>2, <3>3
  <2>4. CASE g \notin handedBack
    <3>1. grantFiles[g] # None /\ grantFiles'[g] = None
      BY Zenon, <2>1, <2>4 DEF HandStep
    <3>2. minted[g] # None
      BY Zenon, <2>2, <3>1 DEF IInv, PrivilegeHasConsent
    <3>3. QED
      BY Zenon, <2>2, <3>1, <3>2 DEF YesStep
  <2>5. QED
    BY Zenon, <2>3, <2>4
<1>5. QED
  BY Zenon, <1>1, <1>2, <1>3, <1>4 DEF HistoryExact

\* The empty stores are exact.
LEMMA InitGentle == Init => GentleInv
<1>1. SUFFICES ASSUME Init
               PROVE  GentleInv
  OBVIOUS
<1>2. IInv
  BY Zenon, <1>1, InitIInv
<1>3. MemoryIsDisk /\ HistoryExact
  BY <1>1 DEF Init, MemoryIsDisk, HistoryExact
<1>4. /\ Held(files) = {}
      /\ Answerable(files) = {}
      /\ \A who : PendingForRequester(files, who) = {}
  BY Zenon, <1>1 DEF Init, Held, Answerable, PendingForRequester
<1>5. IsFiniteSet({}) /\ Cardinality({}) = 0
  BY Zenon, FS_EmptySet
<1>6. /\ 0 <= MAX_APPROVAL_RECORDS
      /\ 0 <= MAX_PENDING_APPROVALS
      /\ 0 <= MAX_PENDING_PER_REQUESTER
  BY ConstantsAssumption
<1>7. Bounded
  BY Zenon, <1>4, <1>5, <1>6 DEF Bounded, WithinBound
<1>8. QED
  BY Zenon, <1>2, <1>3, <1>7 DEF GentleInv

\* Every step that fails nowhere keeps the invariant.
LEMMA NextGentle ==
    ASSUME Gentle, GentleInv, [Next]_vars
    PROVE  GentleInv'
<1>1. IInv' /\ FilesStep /\ TrailStep
  BY Zenon, NextIInv, NextFacts DEF GentleInv, IInv, StoreInv
<1>2. ExactStep
  BY Zenon, <1>1, NextExact DEF IInv
<1>3. HistoryExact'
  BY Zenon, <1>1, <1>2, HistoryStep DEF GentleInv
<1>4. QED
  BY Zenon, <1>1, <1>2, <1>3 DEF GentleInv, ExactStep

\* The invariant is at least what exactness asks.
LEMMA GentleIsExact == GentleInv => Exact
<1>1. SUFFICES ASSUME GentleInv
               PROVE  Exact
  OBVIOUS
<1>2. ExecutedOnce /\ LapseAuditedOnce
  BY Zenon, <1>1 DEF GentleInv, HistoryExact, ExecutedOnce, LapseAuditedOnce
<1>3. DecisionRecorded
  <2>1. SUFFICES ASSUME resolving = None, NEW g \in GrantIds, grants[g] # None
                 PROVE  \/ files[grants[g].approval] = None
                        \/ files[grants[g].approval].status = "approved"
    BY Zenon DEF DecisionRecorded
  <2>2. grants[g] = minted[g]
    BY Zenon, <1>1, <2>1 DEF GentleInv, IInv, MemoryIsDurable, PrivilegeHasConsent
  <2>3. Decided(grants[g].approval)
    BY Zenon, <1>1, <2>1, <2>2 DEF GentleInv, HistoryExact
  <2>4. QED
    BY Zenon, <2>1, <2>3 DEF Decided
<1>4. HandedBackStaysGone
  BY Zenon, <1>1 DEF GentleInv, IInv, TypeOK, MemoryIsDurable, HistoryExact, HandedBackStaysGone
<1>5. StoresBounded
  BY Zenon, <1>1 DEF GentleInv, Bounded, WithinBound, StoresBounded
<1>6. QED
  BY Zenon, <1>2, <1>3, <1>4, <1>5 DEF Exact

\* While no write or unlink fails and the daemon stops only between requests,
\* an approved request is carried out at most once, a grant has its recorded
\* decision, every lapse is audited exactly once, privilege handed back stays
\* gone, and the flood and record bounds hold, restarts included.
THEOREM Exactness == Gentle /\ Spec => []Exact
<1> DEFINE Inv == Gentle /\ GentleInv
<1>1. Gentle /\ Init => Inv
  BY InitGentle
<1>2. Inv /\ [Next]_vars => Inv'
  BY NextGentle DEF Gentle
<1>3. Inv => Exact
  BY GentleIsExact
<1> HIDE DEF Inv
<1>4. QED
  BY <1>1, <1>2, <1>3, PTL DEF Spec
=============================================================================
