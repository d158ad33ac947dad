------------------------------ MODULE Approvals ------------------------------
(***************************************************************************)
(* punard's approval store and privilege-grant store: the handlers of      *)
(* crates/punard/src/server/m9.rs over the store of                        *)
(* crates/punard/src/approvals.rs.                                         *)
(*                                                                         *)
(* Every handler runs under the one store mutex, so a handler is one step, *)
(* with one exception: approvals.resolve executes the approved request     *)
(* before it persists the answer, and a crash or a failed write between    *)
(* the two is visible afterwards.  It is two steps, with `resolving`       *)
(* standing for the mutex held between them.                               *)
(*                                                                         *)
(* A request that is refused after the sweep changes nothing but what the  *)
(* sweep changed: it is a SweepOnly step.  A request refused before the    *)
(* mutex is taken is a stuttering step.                                    *)
(***************************************************************************)
EXTENDS Integers, FiniteSets

CONSTANTS
    Users,          \* human accounts other than root
    Root,           \* uid 0
    Sessions,       \* managed agent sessions
    ConsoleUser,    \* the account agent-raised approvals are routed to
    Capabilities,
    Ruling,         \* the AI authority document: [Capabilities -> decision]
    CreateCalls,    \* the approvals.create requests root peers make
    Ids,            \* approval ids (random in the code, never reused here)
    GrantIds,
    None,           \* "no such record"
    APPROVAL_TTL_MIN_SECS, APPROVAL_TTL_MAX_SECS,
    GRANT_MIN_MINUTES, GRANT_MAX_MINUTES,
    Durations,      \* the grant windows people ask for
    MAX_PENDING_APPROVALS, MAX_PENDING_PER_REQUESTER, MAX_APPROVAL_RECORDS,
    MaxTime,        \* bound: the clock stops here
    LastRequest,    \* bound: no approval is raised after this
    Faults          \* the failures a run admits, a subset of FaultKinds

FaultKinds == {"write", "index", "unlink", "crash", "restart"}
Humans == Users \cup {Root}
Requesters == Humans \cup Sessions
Kinds == {"capability_set", "credential_request", "privilege_request"}
Statuses == {"pending", "approved", "denied", "expired"}
Times == 0 .. (MaxTime + APPROVAL_TTL_MAX_SECS)

\* A connected peer: its uid, and what its cgroup says of agent scopes.
Peers == [uid : Humans, scope : {"none", "malformed", "session"}]
AgentShaped(p) == p.scope # "none"

\* What the callers of create_approval fill in.  `ttl` is None when the
\* caller leaves it to the default; `minutes` is the grant window a
\* privilege_request carries in its `resource`; `runnable` says whether the
\* request of a capability_set can be read back and names a capability.
NewApproval == [kind : Kinds, capability : Capabilities, requester : Requesters,
                user : Humans, uid : Humans, minutes : Nat, runnable : BOOLEAN,
                ttl : Nat \cup {None}]

ApprovalEnvelope ==
    [kind : Kinds, capability : Capabilities, requester : Requesters,
     user : Humans, uid : Humans, minutes : Nat, runnable : BOOLEAN,
     created : 0 .. MaxTime, expires : Times, status : Statuses, by : Humans \cup {None}, consumed : BOOLEAN]

Grant == [approval : Ids, uid : Humans, capability : Capabilities, expires : Nat]

Resolution == [id : Ids, status : {"approved", "denied"}, by : Humans]

ASSUME ConstantsAssumption ==
    /\ Root \notin Users
    /\ ConsoleUser \in Users
    /\ None \notin Ids \cup GrantIds \cup Humans
    /\ None \notin Nat \cup ApprovalEnvelope \cup Grant \cup Resolution
    /\ Ruling \in [Capabilities -> {"allow", "deny", "approval_required", "none"}]
    /\ CreateCalls \subseteq NewApproval
    /\ APPROVAL_TTL_MIN_SECS \in Nat \ {0}
    /\ APPROVAL_TTL_MAX_SECS \in Nat
    /\ APPROVAL_TTL_MIN_SECS <= APPROVAL_TTL_MAX_SECS
    /\ GRANT_MIN_MINUTES \in Nat \ {0}
    /\ GRANT_MAX_MINUTES \in Nat
    /\ GRANT_MIN_MINUTES <= GRANT_MAX_MINUTES
    /\ Durations \subseteq Nat
    /\ MAX_PENDING_APPROVALS \in Nat \ {0}
    /\ MAX_PENDING_PER_REQUESTER \in Nat \ {0}
    /\ MAX_APPROVAL_RECORDS \in Nat
    /\ MAX_PENDING_APPROVALS <= MAX_APPROVAL_RECORDS
    /\ MaxTime \in Nat
    /\ LastRequest \in Nat
    /\ Faults \subseteq FaultKinds

VARIABLES
    now,            \* the wall clock, in the unit of the TTL constants
    up,             \* the daemon process is running
    records, files,          \* approvals: in memory, on disk
    grants, grantFiles,      \* grants: in memory, on disk
    resolving,      \* the resolve that holds the mutex between its two steps
    inflight,       \* capabilities.set calls authorised by a grant, not yet run
    raised,         \* approval ids ever generated
    minted,         \* every grant ever written: the privilege.grant trail
    consents,       \* every "approved" a resolve accepted: who said yes to what
    executions,     \* how often an approval's request was carried out
    spent,          \* how often approvals.consume answered success
    expireEvents,   \* approval.expire events in the audit trail
    handedBack      \* grants the daemon has dropped from memory

store == <<records, files, grants, grantFiles>>
trail == <<raised, minted, consents, executions, spent, expireEvents, handedBack>>
vars == <<now, up, store, resolving, inflight, trail>>

-----------------------------------------------------------------------------
(* The store (approvals.rs).                                               *)

HasLapsed(r) == now >= r.expires
IsLive(g) == now < g.expires
IsTerminal(r) == r.status # "pending"

Held(recs) == {i \in Ids : recs[i] # None}
Answerable(recs) ==
    {i \in Held(recs) : recs[i].status = "pending" /\ ~HasLapsed(recs[i])}
PendingForRequester(recs, who) == {i \in Answerable(recs) : recs[i].requester = who}
Lapsed(recs) == {i \in Held(recs) : recs[i].status = "pending" /\ HasLapsed(recs[i])}
HeldGrants(gs) == {g \in GrantIds : gs[g] # None}
LiveGrants(gs) == {g \in HeldGrants(gs) : IsLive(gs[g])}
LapsedGrants(gs) == HeldGrants(gs) \ LiveGrants(gs)

\* History counters saturate at 2: one, or more than one.
Bump(f, S) == [i \in DOMAIN f |-> IF i \in S /\ f[i] < 2 THEN f[i] + 1 ELSE f[i]]

Terminal(recs) == {i \in Held(recs) : IsTerminal(recs[i])}

\* How many records evict_if_needed has to drop: down to the bound, or until
\* no terminal record is left.
Excess(recs) ==
    LET over == Cardinality(Held(recs)) - MAX_APPROVAL_RECORDS
        terminal == Cardinality(Terminal(recs))
    IN  IF over <= 0 THEN 0 ELSE IF over <= terminal THEN over ELSE terminal

\* evict_if_needed: the oldest terminal records go first; records created in
\* the same second go in either order.  An unlink that fails ends the loop
\* with an error, so fewer than Excess have gone.
Evictions(recs) ==
    {V \in SUBSET Terminal(recs) :
        /\ Cardinality(V) <= Excess(recs)
        /\ "unlink" \notin Faults => Cardinality(V) = Excess(recs)
        /\ \A v \in V, t \in Terminal(recs) \ V : recs[v].created <= recs[t].created}

Expire(recs, S) ==
    [i \in Ids |-> IF i \in S THEN [recs[i] EXCEPT !.status = "expired"] ELSE recs[i]]
Without(f, V) == [i \in Ids |-> IF i \in V THEN None ELSE f[i]]

\* ApprovalStore::put.  The record file is written first; when that fails
\* nothing has changed.  Then memory, the evictions, and the index, whose
\* failures are an error although the record is recorded.
PutOutcomes(recs, fls, id, r) ==
    LET recs2 == [recs EXCEPT ![id] = r]
        fls2 == [fls EXCEPT ![id] = r]
        done(V) == Cardinality(V) = Excess(recs2)
    IN  {[records |-> Without(recs2, x.evicted), files |-> Without(fls2, x.evicted), ok |-> x.ok] :
            x \in {y \in [evicted : Evictions(recs2), ok : BOOLEAN] :
                /\ y.ok => done(y.evicted)
                /\ "index" \notin Faults /\ done(y.evicted) => y.ok}}
        \cup {[records |-> recs, files |-> fls, ok |-> FALSE] :
                f \in Faults \cap {"write"}}

\* Mutant: a sweep that only looks at grants.
SweepsGrantsOnly(recs, gs) ==
    {[expired |-> {}, audited |-> {}, evicted |-> {},
      dropped |-> LapsedGrants(gs), unlinked |-> LapsedGrants(gs)]}

\* What one sweep_approvals did: the records it expired, those of them it
\* audited, the records its puts evicted, the grants it dropped from memory,
\* those of them it unlinked.  Which terminal records go when several are
\* put one after the other is left open.
Sweeps(recs, gs) ==
    {w \in [expired : SUBSET Lapsed(recs), audited : SUBSET Lapsed(recs),
            evicted : SUBSET Held(recs),
            dropped : {LapsedGrants(gs)}, unlinked : SUBSET LapsedGrants(gs)] :
        LET after == Expire(recs, w.expired)
        IN  /\ w.audited \subseteq w.expired
            /\ w.evicted \subseteq Terminal(after)
            /\ Cardinality(w.evicted) <= IF w.expired = {} THEN 0 ELSE Excess(after)
            /\ "write" \notin Faults => w.expired = Lapsed(recs)
            /\ "index" \notin Faults /\ ("unlink" \notin Faults \/ Excess(after) = 0)
                => w.audited = w.expired
            /\ "unlink" \notin Faults =>
                /\ w.expired # {} => Cardinality(w.evicted) = Excess(after)
                /\ w.unlinked = w.dropped}

AfterSweep(recs, w) == Without(Expire(recs, w.expired), w.evicted)
FilesAfterSweep(fls, recs, w) ==
    Without([i \in Ids |-> IF i \in w.expired THEN Expire(recs, w.expired)[i] ELSE fls[i]],
            w.evicted)
Drop(gs, S) == [g \in GrantIds |-> IF g \in S THEN None ELSE gs[g]]

\* The parts of the state every sweep changes and no handler touches again.
SweepTrail(w) == expireEvents' = Bump(expireEvents, w.audited)

\* The mutex is free and the daemon is serving.
Ready == up /\ resolving = None

-----------------------------------------------------------------------------
Init ==
    /\ now = 0
    /\ up = TRUE
    /\ records = [i \in Ids |-> None]
    /\ files = [i \in Ids |-> None]
    /\ grants = [g \in GrantIds |-> None]
    /\ grantFiles = [g \in GrantIds |-> None]
    /\ resolving = None
    /\ inflight = {}
    /\ raised = {}
    /\ minted = [g \in GrantIds |-> None]
    /\ consents = {}
    /\ executions = [i \in Ids |-> 0]
    /\ spent = [i \in Ids |-> 0]
    /\ expireEvents = [i \in Ids |-> 0]
    /\ handedBack = {}

\* approvals.list, approvals.get, privilege.status, a reconcile pass, and
\* every call refused after its sweep.
SweepOnly ==
    /\ Ready
    /\ \E w \in Sweeps(records, grants) :
        /\ records' = AfterSweep(records, w)
        /\ files' = FilesAfterSweep(files, records, w)
        /\ grants' = Drop(grants, w.dropped)
        /\ grantFiles' = Drop(grantFiles, w.unlinked)
        /\ handedBack' = handedBack \cup w.dropped
        /\ SweepTrail(w)
    /\ UNCHANGED <<now, up, resolving, inflight, raised, minted, consents,
                   executions, spent>>

ClampTtl(ttl) ==
    IF ttl = None \/ ttl > APPROVAL_TTL_MAX_SECS THEN APPROVAL_TTL_MAX_SECS
    ELSE IF ttl < APPROVAL_TTL_MIN_SECS THEN APPROVAL_TTL_MIN_SECS ELSE ttl

ClampGrantMinutes(m) ==
    IF m > GRANT_MAX_MINUTES THEN GRANT_MAX_MINUTES
    ELSE IF m < GRANT_MIN_MINUTES THEN GRANT_MIN_MINUTES ELSE m

NewRecord(spec) ==
    [kind |-> spec.kind, capability |-> spec.capability, requester |-> spec.requester,
     user |-> spec.user, uid |-> spec.uid, minutes |-> spec.minutes,
     runnable |-> spec.runnable, created |-> now, expires |-> now + ClampTtl(spec.ttl),
     status |-> "pending", by |-> None, consumed |-> FALSE]

\* The flood bounds are judged after the sweep and under the same mutex as
\* the write.
WithinPendingBounds(recs, spec) ==
    /\ Cardinality(Answerable(recs)) < MAX_PENDING_APPROVALS
    /\ Cardinality(PendingForRequester(recs, spec.requester)) < MAX_PENDING_PER_REQUESTER

CreateApproval(spec) ==
    /\ Ready
    /\ now <= LastRequest
    /\ \E w \in Sweeps(records, grants), id \in Ids \ raised :
        LET recs == AfterSweep(records, w)
        IN  /\ WithinPendingBounds(recs, spec)
            /\ \E o \in PutOutcomes(recs, FilesAfterSweep(files, records, w), id, NewRecord(spec)) :
                records' = o.records /\ files' = o.files
            /\ raised' = raised \cup {id}
            /\ grants' = Drop(grants, w.dropped)
            /\ grantFiles' = Drop(grantFiles, w.unlinked)
            /\ handedBack' = handedBack \cup w.dropped
            /\ SweepTrail(w)
    /\ UNCHANGED <<now, up, resolving, inflight, minted, consents, executions, spent>>

\* capabilities.set from an agent session whose capability the AI authority
\* document puts behind an approval.
AgentCapabilitySet(s, c) ==
    /\ Ruling[c] = "approval_required"
    /\ CreateApproval([kind |-> "capability_set", capability |-> c, requester |-> s,
                       user |-> ConsoleUser, uid |-> ConsoleUser, minutes |-> 0,
                       runnable |-> TRUE, ttl |-> None])

\* approvals.create: a root peer outside every agent scope, in practice the
\* credential broker.
ApprovalsCreate(p, spec) ==
    /\ ~AgentShaped(p)
    /\ p.uid = Root
    /\ CreateApproval(spec)

\* privilege.request
PrivilegeRequest(p, c, m) ==
    /\ ~AgentShaped(p)
    /\ CreateApproval([kind |-> "privilege_request", capability |-> c,
                       requester |-> p.uid, user |-> p.uid, uid |-> p.uid,
                       minutes |-> ClampGrantMinutes(m), runnable |-> TRUE,
                       ttl |-> None])

\* Mutants: rule 2 (routing) dropped; the already-answered test dropped.
MayResolveUnrouted(p, r) == ~HasLapsed(r) /\ r.status = "pending"
MayResolveAgain(p, r) == (p.uid = Root \/ p.uid = r.user) /\ ~HasLapsed(r)

\* Rules 2 and 3 of approvals.resolve.
MayResolve(p, r) ==
    /\ p.uid = Root \/ p.uid = r.user
    /\ ~HasLapsed(r)
    /\ r.status = "pending"

NewGrant(id, r) ==
    [approval |-> id, uid |-> r.uid, capability |-> r.capability,
     expires |-> now + r.minutes]

\* execute_approved: a capability_set runs, a privilege_request mints a
\* grant (put_grant: file, then memory; a failed write is reported in the
\* record's `execution` and the answer is still recorded), a
\* credential_request does nothing here.
ExecuteApproved(id, r, gs, gfs) ==
    \/ /\ r.kind = "credential_request"
       /\ grants' = gs /\ grantFiles' = gfs
       /\ UNCHANGED <<minted, executions>>
    \/ /\ r.kind = "capability_set"
       /\ executions' = IF r.runnable THEN Bump(executions, {id}) ELSE executions
       /\ grants' = gs /\ grantFiles' = gfs
       /\ UNCHANGED minted
    \/ /\ r.kind = "privilege_request"
       /\ \E g \in GrantIds :
            /\ minted[g] = None
            /\ grants' = [gs EXCEPT ![g] = NewGrant(id, r)]
            /\ grantFiles' = [gfs EXCEPT ![g] = NewGrant(id, r)]
            /\ minted' = [minted EXCEPT ![g] = NewGrant(id, r)]
       /\ executions' = Bump(executions, {id})
    \/ /\ r.kind = "privilege_request"
       /\ "write" \in Faults
       /\ grants' = gs /\ grantFiles' = gfs
       /\ UNCHANGED <<minted, executions>>

\* approvals.resolve, up to and including execute_approved.
Resolve(p, id, decision) ==
    /\ Ready
    /\ ~AgentShaped(p)
    /\ \E w \in Sweeps(records, grants) :
        LET recs == AfterSweep(records, w)
            gs == Drop(grants, w.dropped)
            gfs == Drop(grantFiles, w.unlinked)
        IN  /\ recs[id] # None
            /\ MayResolve(p, recs[id])
            /\ records' = recs
            /\ files' = FilesAfterSweep(files, records, w)
            /\ \/ /\ decision = "approved"
                  /\ consents' = consents \cup {[id |-> id, peer |-> p]}
                  /\ ExecuteApproved(id, recs[id], gs, gfs)
               \/ /\ decision = "denied"
                  /\ grants' = gs /\ grantFiles' = gfs
                  /\ UNCHANGED <<consents, minted, executions>>
            /\ handedBack' = handedBack \cup w.dropped
            /\ SweepTrail(w)
    /\ resolving' = [id |-> id, status |-> decision, by |-> p.uid]
    /\ UNCHANGED <<now, up, inflight, raised, spent>>

\* approvals.resolve, from store.put on: the answer is persisted, or the
\* caller gets an error.
PersistResolution ==
    /\ up
    /\ resolving # None
    /\ LET r == [records[resolving.id] EXCEPT !.status = resolving.status,
                                              !.by = resolving.by]
       IN  \E o \in PutOutcomes(records, files, resolving.id, r) :
            records' = o.records /\ files' = o.files
    /\ resolving' = None
    /\ UNCHANGED <<now, up, grants, grantFiles, inflight, trail>>

MayConsume(r) ==
    /\ r.kind = "credential_request"
    /\ ~HasLapsed(r)
    /\ r.status = "approved"
    /\ ~r.consumed

\* approvals.consume: the answer is success only when the put succeeded.
Consume(p, id) ==
    /\ Ready
    /\ p.uid = Root
    /\ \E w \in Sweeps(records, grants) :
        LET recs == AfterSweep(records, w)
        IN  /\ recs[id] # None
            /\ MayConsume(recs[id])
            /\ \E o \in PutOutcomes(recs, FilesAfterSweep(files, records, w), id,
                                    [recs[id] EXCEPT !.consumed = TRUE]) :
                /\ records' = o.records /\ files' = o.files
                /\ spent' = IF o.ok THEN Bump(spent, {id}) ELSE spent
            /\ grants' = Drop(grants, w.dropped)
            /\ grantFiles' = Drop(grantFiles, w.unlinked)
            /\ handedBack' = handedBack \cup w.dropped
            /\ SweepTrail(w)
    /\ UNCHANGED <<now, up, resolving, inflight, raised, minted, consents, executions>>

\* The grants privilege.revoke names: one by id, or every live one of the
\* caller (of everybody, for root).
RevokeTargets(p, gs) ==
    {{g} : g \in {h \in HeldGrants(gs) : p.uid = Root \/ gs[h].uid = p.uid}}
    \cup {{g \in LiveGrants(gs) : p.uid = Root \/ gs[g].uid = p.uid}}

\* Mutant: drop_grant forgets the grant and leaves its file.
RevokeInMemory(gs, gfs, T) == {[grants |-> Drop(gs, T), grantFiles |-> gfs, gone |-> T]}

\* drop_grant, for each target in the order of expires_at: forget the grant,
\* then unlink its file; the first unlink that fails ends the call.
RevokeOutcomes(gs, gfs, T) ==
    {[grants |-> Drop(gs, T), grantFiles |-> Drop(gfs, T), gone |-> T]}
    \cup {[grants |-> Drop(gs, x.done \cup {x.bad}), grantFiles |-> Drop(gfs, x.done),
           gone |-> x.done \cup {x.bad}] :
            x \in {y \in [bad : T, done : SUBSET T] :
                /\ "unlink" \in Faults
                /\ y.bad \notin y.done
                /\ \A g \in y.done : gs[g].expires <= gs[y.bad].expires
                /\ \A g \in T \ y.done : gs[g].expires >= gs[y.bad].expires}}

PrivilegeRevoke(p) ==
    /\ Ready
    /\ \E w \in Sweeps(records, grants) :
        LET gs == Drop(grants, w.dropped)
            gfs == Drop(grantFiles, w.unlinked)
        IN  /\ records' = AfterSweep(records, w)
            /\ files' = FilesAfterSweep(files, records, w)
            /\ \E T \in RevokeTargets(p, gs) : \E o \in RevokeOutcomes(gs, gfs, T) :
                /\ grants' = o.grants
                /\ grantFiles' = o.grantFiles
                /\ handedBack' = handedBack \cup w.dropped \cup o.gone
            /\ SweepTrail(w)
    /\ UNCHANGED <<now, up, resolving, inflight, raised, minted, consents,
                   executions, spent>>

\* live_grant: the longest-lived live grant for exactly this uid and capability.
LiveGrantFor(gs, u, c) ==
    LET mine == {g \in LiveGrants(gs) : gs[g].uid = u /\ gs[g].capability = c}
    IN  {g \in mine : \A h \in mine : gs[h].expires <= gs[g].expires}

\* capabilities.set from a person holding a grant: the mutex is released
\* between this check and the mutation.
AuthorizeByGrant(p, c) ==
    /\ Ready
    /\ p.scope # "session"
    /\ p.uid # Root
    /\ \E w \in Sweeps(records, grants) :
        LET gs == Drop(grants, w.dropped)
        IN  /\ \E g \in LiveGrantFor(gs, p.uid, c) :
                inflight' = inflight \cup {[uid |-> p.uid, capability |-> c, grant |-> g]}
            /\ records' = AfterSweep(records, w)
            /\ files' = FilesAfterSweep(files, records, w)
            /\ grants' = gs
            /\ grantFiles' = Drop(grantFiles, w.unlinked)
            /\ handedBack' = handedBack \cup w.dropped
            /\ SweepTrail(w)
    /\ UNCHANGED <<now, up, resolving, raised, minted, consents, executions, spent>>

\* The authorised mutation runs (its effect on the device is the policy
\* engine's).
ExecuteAuthorized(call) ==
    /\ up
    /\ call \in inflight
    /\ inflight' = inflight \ {call}
    /\ UNCHANGED <<now, up, store, resolving, trail>>

\* The process dies: memory is lost, wherever a handler was ("crash") or
\* between two calls ("restart").
Crash ==
    /\ \/ "crash" \in Faults
       \/ "restart" \in Faults /\ resolving = None /\ inflight = {}
    /\ up
    /\ up' = FALSE
    /\ records' = [i \in Ids |-> None]
    /\ grants' = [g \in GrantIds |-> None]
    /\ resolving' = None
    /\ inflight' = {}
    /\ UNCHANGED <<now, files, grantFiles, trail>>

\* ApprovalStore::load, then the boot reconcile pass, before the socket opens.
Restart ==
    /\ ~up
    /\ up' = TRUE
    /\ \E w \in Sweeps(files, grantFiles) :
        /\ records' = AfterSweep(files, w)
        /\ files' = FilesAfterSweep(files, files, w)
        /\ grants' = Drop(grantFiles, w.dropped)
        /\ grantFiles' = Drop(grantFiles, w.unlinked)
        /\ handedBack' = handedBack \cup w.dropped
        /\ SweepTrail(w)
    /\ UNCHANGED <<now, resolving, inflight, raised, minted, consents, executions, spent>>

Tick ==
    /\ now < MaxTime
    /\ now' = now + 1
    /\ UNCHANGED <<up, store, resolving, inflight, trail>>

Request ==
    \/ \E s \in Sessions, c \in Capabilities : AgentCapabilitySet(s, c)
    \/ \E p \in Peers, spec \in CreateCalls : ApprovalsCreate(p, spec)
    \/ \E p \in Peers, c \in Capabilities, m \in Durations : PrivilegeRequest(p, c, m)

Next ==
    \/ SweepOnly
    \/ Request
    \/ \E p \in Peers, id \in Ids, d \in {"approved", "denied"} : Resolve(p, id, d)
    \/ PersistResolution
    \/ \E p \in Peers, id \in Ids : Consume(p, id)
    \/ \E p \in Peers : PrivilegeRevoke(p)
    \/ \E p \in Peers, c \in Capabilities : AuthorizeByGrant(p, c)
    \/ \E call \in inflight : ExecuteAuthorized(call)
    \/ Crash
    \/ Restart
    \/ Tick

Spec == Init /\ [][Next]_vars

-----------------------------------------------------------------------------
(* Types.                                                                  *)

Consent == [id : Ids, peer : Peers]
Call == [uid : Humans, capability : Capabilities, grant : GrantIds]

\* Every variable holds a value of its type.
TypeOK ==
    /\ now \in 0 .. MaxTime
    /\ up \in BOOLEAN
    /\ records \in [Ids -> ApprovalEnvelope \cup {None}]
    /\ files \in [Ids -> ApprovalEnvelope \cup {None}]
    /\ grants \in [GrantIds -> Grant \cup {None}]
    /\ grantFiles \in [GrantIds -> Grant \cup {None}]
    /\ resolving \in Resolution \cup {None}
    /\ inflight \subseteq Call
    /\ raised \subseteq Ids
    /\ minted \in [GrantIds -> Grant \cup {None}]
    /\ consents \subseteq Consent
    /\ executions \in [Ids -> 0 .. 2]
    /\ spent \in [Ids -> 0 .. 2]
    /\ expireEvents \in [Ids -> 0 .. 2]
    /\ handedBack \subseteq GrantIds

-----------------------------------------------------------------------------
(* Safety under every fault.                                               *)

\* Memory is never ahead of the disk: what a reader is told of an approval
\* or a grant is what a restart will load (put and put_grant write the file
\* before they insert into the map).
MemoryIsDurable ==
    /\ \A i \in Ids : records[i] # None => files[i] = records[i]
    /\ \A g \in GrantIds : grants[g] # None => grantFiles[g] = grants[g]

\* A peer whose yes counts: outside every agent scope, and root or the
\* person the approval is routed to.
Entitled(peer, user) == ~AgentShaped(peer) /\ (peer.uid = Root \/ peer.uid = user)

\* Whatever privilege exists, in memory, on disk, or in the hands of a call
\* that was let through, goes back to a yes given by an entitled peer to a
\* privilege_request, and is for the uid and capability that were asked for
\* ("a grant is only ever produced by resolving an approval").
PrivilegeHasConsent ==
    /\ \A g \in GrantIds : grantFiles[g] # None => grantFiles[g] = minted[g]
    /\ \A call \in inflight :
        /\ minted[call.grant] # None
        /\ minted[call.grant].uid = call.uid
        /\ minted[call.grant].capability = call.capability
    /\ \A g \in GrantIds : minted[g] # None =>
        \E c \in consents :
            /\ c.id = minted[g].approval
            /\ files[c.id] # None =>
                /\ files[c.id].kind = "privilege_request"
                /\ files[c.id].uid = minted[g].uid
                /\ files[c.id].capability = minted[g].capability
                /\ Entitled(c.peer, files[c.id].user)

\* An approved credential request is spent at most once, and a spent one was
\* approved by an entitled peer (approvals.consume, single use).
SpentOnce ==
    \A i \in Ids :
        /\ spent[i] <= 1
        /\ spent[i] = 1 => /\ files[i] # None => files[i].consumed
                           /\ \E c \in consents : c.id = i

\* An answer, once on disk, is final: no later step, restart included,
\* turns it into another one or un-spends it.
AnswersAreFinal ==
    [][\A i \in Ids :
        files[i] # None /\ IsTerminal(files[i]) =>
            \/ files'[i] = None
            \/ /\ files'[i].status = files[i].status
               /\ files[i].consumed => files'[i].consumed]_vars

\* Nothing an approval authorises happens at or after its expires_at: it is
\* not carried out, and it is not spent.
NoLateEffect ==
    [][\A i \in Ids :
        executions'[i] # executions[i] \/ spent'[i] # spent[i] =>
            files[i] # None /\ now < files[i].expires]_vars

\* Where an approval stands, read off the disk.
StageOf(i) ==
    IF files[i] = None THEN IF i \in raised THEN "gone" ELSE "unasked"
    ELSE IF files[i].consumed THEN "consumed" ELSE files[i].status

Lifecycle == INSTANCE ApprovalLifecycle WITH stage <- [i \in Ids |-> StageOf(i)]

\* The store, with its failing writes, evictions, sweeps and restarts, moves
\* every approval only as ApprovalLifecycle allows: answered once, spent once,
\* never back from "gone" (approvals.rs put, evict_if_needed, load; m9.rs
\* resolve, consume).
ImplementsLifecycle == Lifecycle!LifecycleSpec

-----------------------------------------------------------------------------
(* Safety that depends on which faults occur.                              *)

\* An approval's request is carried out at most once (docs/api/ipc.md 14.6:
\* "Exactly-once by construction").
ExecutedOnce == \A i \in Ids : executions[i] <= 1

\* No grant without a recorded decision: when no resolve is under way, the
\* approval a live grant came from is recorded as approved, unless its
\* record has been evicted.
DecisionRecorded ==
    resolving = None =>
        \A g \in GrantIds : grants[g] # None =>
            \/ files[grants[g].approval] = None
            \/ files[grants[g].approval].status = "approved"

\* Each lapse the sweep records is audited exactly once.
LapseAuditedOnce ==
    \A i \in Ids :
        /\ expireEvents[i] <= 1
        /\ files[i] # None /\ files[i].status = "expired" => expireEvents[i] = 1

\* At most MAX_PENDING_APPROVALS questions are open device-wide and
\* MAX_PENDING_PER_REQUESTER per requester, restarts included, and the store
\* is never over its record bound, so only a create ever evicts.
StoresBounded ==
    /\ Cardinality(Answerable(files)) <= MAX_PENDING_APPROVALS
    /\ \A who \in Requesters :
        Cardinality(PendingForRequester(files, who)) <= MAX_PENDING_PER_REQUESTER
    /\ Cardinality(Held(files)) <= MAX_APPROVAL_RECORDS

\* Privilege handed back, or lapsed, never authorises again: once the daemon
\* has dropped a grant, no restart brings it back.
HandedBackStaysGone == \A g \in handedBack : grants[g] = None

\* The five together: what holds when nothing fails.
Exact ==
    /\ ExecutedOnce /\ DecisionRecorded /\ LapseAuditedOnce
    /\ HandedBackStaysGone /\ StoresBounded
=============================================================================
