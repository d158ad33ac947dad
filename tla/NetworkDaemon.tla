---------------------------- MODULE NetworkDaemon ---------------------------
(***************************************************************************)
(* punar-netd: one mutex holds the runtime while a thread reads the        *)
(* sessions from agentd, compiles and renders the table, flushes the       *)
(* destinations of the sessions that left, reads the kernel's counters and *)
(* replaces the table in one nft transaction.  The doorbell of agentd, the *)
(* root's apply, the barrier of a managed launch and the connections view  *)
(* are the four callers.  agentd and the kernel move while the mutex is    *)
(* held, and every call out can fail.                                      *)
(*                                                                         *)
(* The last section is how a project's two documents become the chain of a *)
(* session: the manifest and the network policy are compiled to one        *)
(* decision per zone, the decisions and the addresses of the zones are     *)
(* rendered to an ordered chain, and the kernel gives a packet the verdict *)
(* of the first rule that matches its destination.                         *)
(***************************************************************************)
EXTENDS Naturals, Sequences, FiniteSets, SequencesExt

CONSTANTS
    Sessions,
    MaxFaults,      \* failing calls, removals of the table and restarts
    MaxAttempts,    \* refused packets per session
    MaxCalls,       \* requests of the command line
    NamedZones,     \* zones with CIDR members: corporate, production, ...
    Width,          \* bits of an address
    MaxCidrs,       \* bound on the CIDRs of a zone
    LocalAddresses  \* loopback and link-local destinations

VARIABLES
    active,         \* agentd: the managed sessions that are active
    alive,          \* the registered processes alive in their scopes
    documents,      \* the state of each session's project documents
    purged,         \* agentd: the sessions whose ledger the user purged
    doorbell,       \* agentd's list changed since the watcher last looked
    kernel,         \* the live table: hits per session, or NoTable
    attempts,       \* the packets the kernel really refused
    runtime,        \* Runtime: what the daemon remembers
    jobs,           \* what each thread is doing
    faults, calls

netdVars == <<active, alive, documents, purged, doorbell, kernel, attempts,
              runtime, jobs, faults, calls>>

NoTable == [table |-> FALSE]
Table(hits) == [table |-> TRUE, hits |-> hits]
Governed == IF kernel.table THEN DOMAIN kernel.hits ELSE {}
Hits(s) == IF s \in Governed THEN kernel.hits[s] ELSE 0

Signal == "signal"
Cli == "cli"
Threads == Sessions \cup {Signal, Cli}
NoJob == [step |-> "idle"]
Locked == {"snapshot", "publish", "query", "apply", "verify", "table", "observe"}

(* Runtime::new: nothing installed, nothing carried, nothing refused yet.   *)
FreshRuntime ==
    [installed |-> {}, carry |-> [s \in Sessions |-> 0], flows |-> {}, error |-> FALSE]

NetdInit ==
    /\ active = {}
    /\ alive = {}
    /\ documents = [s \in Sessions |-> "sound"]
    /\ purged = {}
    /\ doorbell = FALSE
    /\ kernel = Table([s \in {} |-> 0])
    /\ attempts = [s \in Sessions |-> 0]
    /\ runtime = FreshRuntime
    /\ jobs = [t \in Threads |-> NoJob]
    /\ faults = 0
    /\ calls = 0

agentdVars == <<active, alive, documents, purged>>
budgetVars == <<faults, calls>>

NoMutex == TRUE

(* The runtime mutex: at most one thread is between lock and unlock.       *)
MutexFree == \A t \in Threads : jobs[t].step \notin Locked

Job(what, step) == [what |-> what, step |-> step, snapshot |-> {}, before |-> [s \in {} |-> 0]]

Continue(t, j) == jobs' = [jobs EXCEPT ![t] = j]

(* A call out that fails: agentd or nft does not answer.                   *)
CallFails == faults < MaxFaults /\ faults' = faults + 1

(* The job ends; a launch that asked reads the answer, the others are told  *)
(* and forgotten.                                                          *)
Finish(t, answer) ==
    Continue(t, IF jobs[t].what = "ready" THEN [step |-> answer] ELSE NoJob)

(* reconcile on an error: the old table stays, the error is remembered.    *)
ReconcileFails(t) ==
    /\ runtime' = [runtime EXCEPT !.error = TRUE]
    /\ Finish(t, "refused")

(* The watcher's callback, reconcile_from_signal.                          *)
BeginSignal ==
    /\ doorbell /\ MutexFree /\ jobs[Signal] = NoJob
    /\ doorbell' = FALSE
    /\ Continue(Signal, Job("signal", "snapshot"))
    /\ UNCHANGED <<agentdVars, kernel, attempts, runtime, budgetVars>>

(* dispatch: Apply by root, or Connections.                                *)
BeginCall ==
    /\ MutexFree /\ jobs[Cli] = NoJob /\ calls < MaxCalls
    /\ calls' = calls + 1
    /\ \/ Continue(Cli, Job("apply", "snapshot"))
       \/ Continue(Cli, Job("view", "table"))
    /\ UNCHANGED <<agentdVars, doorbell, kernel, attempts, runtime, faults>>

(* dispatch: SessionReady from the gate of s.  The peer must be in the      *)
(* scope of the session it names.                                          *)
BeginReady(s) ==
    /\ MutexFree /\ jobs[s] = NoJob
    /\ Continue(s, IF s \in alive THEN Job("ready", "snapshot") ELSE [step |-> "refused"])
    /\ UNCHANGED <<agentdVars, doorbell, kernel, attempts, runtime, budgetVars>>

(* snapshot_from_list: agentd's active sessions whose process is in the     *)
(* scope of its session; the others are skipped.                           *)
Listed == active \cap alive

(* render_table: a document that cannot be used was replaced by deny-all,   *)
(* but one that names another project than its session's stops the table.  *)
Renders == \A s \in Listed : documents[s] # "renamed"

(* apply_inner up to render_table.                                         *)
Snapshot(t) ==
    /\ jobs[t].step = "snapshot"
    /\ \/ /\ Renders
          /\ Continue(t, [jobs[t] EXCEPT !.step = "publish", !.snapshot = Listed])
          /\ UNCHANGED <<runtime, faults>>
       \/ /\ ~Renders
          /\ ReconcileFails(t)
          /\ UNCHANGED faults
       \/ CallFails /\ ReconcileFails(t)
    /\ UNCHANGED <<agentdVars, doorbell, kernel, attempts, calls>>

Leaving(t) == runtime.installed \ jobs[t].snapshot

(* publish_destinations: a session without destinations sends nothing, and  *)
(* agentd rejects the rows of a purged ledger.                             *)
Rejected(published) == published \cap runtime.flows \cap purged # {}

(* apply_inner: the destinations of every session that leaves are flushed,  *)
(* and a rejection stops the apply.                                        *)
Publish(t) ==
    /\ jobs[t].step = "publish"
    /\ \/ /\ ~Rejected(Leaving(t))
          /\ Continue(t, [jobs[t] EXCEPT !.step = "query"])
          /\ UNCHANGED <<runtime, faults>>
       \/ /\ Rejected(Leaving(t))
          /\ ReconcileFails(t)
          /\ UNCHANGED faults
       \/ CallFails /\ ReconcileFails(t)
    /\ UNCHANGED <<agentdVars, doorbell, kernel, attempts, calls>>

Carried(hits) ==
    [s \in Sessions |-> runtime.carry[s] + (IF s \in DOMAIN hits THEN hits[s] ELSE 0)]

QueryFolding(t) ==
    /\ jobs[t].step = "query"
    /\ \/ /\ Continue(t, [jobs[t] EXCEPT !.step = "apply"])
          /\ runtime' = [runtime EXCEPT !.carry = Carried(IF kernel.table THEN kernel.hits ELSE [s \in {} |-> 0])]
          /\ UNCHANGED faults
       \/ CallFails /\ ReconcileFails(t)
    /\ UNCHANGED <<agentdVars, doorbell, kernel, attempts, calls>>

(* query_named_counters: the hits the old table has counted so far.        *)
Query(t) ==
    /\ jobs[t].step = "query"
    /\ \/ /\ Continue(t, [jobs[t] EXCEPT !.step = "apply",
                                         !.before = IF kernel.table THEN kernel.hits
                                                    ELSE [s \in {} |-> 0]])
          /\ UNCHANGED <<runtime, faults>>
       \/ CallFails /\ ReconcileFails(t)
    /\ UNCHANGED <<agentdVars, doorbell, kernel, attempts, calls>>

NewTable(t) == Table([s \in jobs[t].snapshot |-> 0])

(* What follows a successful reconcile: the barrier verifies, the watcher   *)
(* observes when something moved, the root's apply always observes.        *)
AfterApply(t) ==
    CASE jobs[t].what = "ready" -> Job("ready", "verify")
      [] jobs[t].what = "view" -> Job("view", "observe")
      [] jobs[t].what = "apply" -> Job("view", "table")
      [] jobs[t].what = "signal" ->
           IF runtime.installed # jobs[t].snapshot THEN Job("view", "table") ELSE NoJob

(* apply_checked: nft commits or rejects the whole transaction.  A nft that *)
(* outlives its deadline is killed, before or after the kernel committed.   *)
(* Only a success folds the counters read before it into the carry.        *)
Apply(t) ==
    /\ jobs[t].step = "apply"
    /\ \/ /\ kernel' = NewTable(t)
          /\ runtime' = [installed |-> jobs[t].snapshot,
                         carry |-> Carried(jobs[t].before),
                         flows |-> runtime.flows \ Leaving(t),
                         error |-> FALSE]
          /\ Continue(t, AfterApply(t))
          /\ UNCHANGED faults
       \/ /\ CallFails
          /\ kernel' \in {kernel, NewTable(t)}
          /\ ReconcileFails(t)
    /\ UNCHANGED <<agentdVars, doorbell, attempts, calls>>

(* verify_session_rule: the kernel's own listing has the jump on the cgroup *)
(* of t and the chain it jumps to.                                         *)
RuleListed(t) == t \in Governed

(* session_ready after its reconcile: the session is installed, the kernel  *)
(* lists the very rule, and the peer is still in its scope.                *)
Verify(t) ==
    /\ jobs[t].step = "verify"
    /\ Finish(t, IF t \in runtime.installed \cap alive /\ RuleListed(t)
                 THEN "proved" ELSE "refused")
    /\ runtime' = [runtime EXCEPT !.error = @ \/ (t \in runtime.installed /\ ~RuleListed(t))]
    /\ UNCHANGED <<agentdVars, doorbell, kernel, attempts, budgetVars>>

(* connections: a missing table is rebuilt first.                          *)
CheckTable(t) ==
    /\ jobs[t].step = "table"
    /\ \/ /\ Continue(t, [jobs[t] EXCEPT !.step = IF kernel.table THEN "observe" ELSE "snapshot"])
          /\ UNCHANGED faults
       \/ CallFails /\ Continue(t, NoJob)
    /\ UNCHANGED <<agentdVars, doorbell, kernel, attempts, runtime, calls>>

(* refresh_destinations: the flows seen now are added to the totals of      *)
(* their sessions.                                                         *)
Refreshed == {[runtime EXCEPT !.flows = @ \cup seen] : seen \in SUBSET Listed}

(* connections: the totals are refreshed and the sessions that changed are  *)
(* published.  A rejection or a failure ends the pass without a report.    *)
Observe(t) ==
    /\ jobs[t].step = "observe"
    /\ Continue(t, NoJob)
    /\ \/ runtime' \in Refreshed /\ UNCHANGED faults
       \/ CallFails /\ UNCHANGED runtime
    /\ UNCHANGED <<agentdVars, doorbell, kernel, attempts, calls>>

(* The daemon starts again: it forgets what it held and reconciles before   *)
(* it listens, then once more when the watch is in place.  The kernel keeps *)
(* the table.                                                              *)
Restart ==
    /\ CallFails
    /\ runtime' = FreshRuntime
    /\ jobs' = [t \in Threads |->
                  CASE t = Signal -> Job("signal", "snapshot")
                    [] t # Signal /\ jobs[t].step \in Locked /\ jobs[t].what = "ready" ->
                         [step |-> "refused"]
                    [] OTHER -> IF t \in Sessions /\ jobs[t].step \in {"proved", "refused"}
                                THEN jobs[t] ELSE NoJob]
    /\ doorbell' = TRUE
    /\ UNCHANGED <<agentdVars, kernel, attempts, calls>>

(* Somebody removes the table behind the daemon's back.                    *)
RemoveTable ==
    /\ kernel.table /\ CallFails
    /\ kernel' = NoTable
    /\ UNCHANGED <<agentdVars, doorbell, attempts, runtime, jobs, calls>>

(* The kernel refuses a packet of s and counts it.                         *)
Refuse(s) ==
    /\ s \in Governed /\ s \in alive /\ attempts[s] < MaxAttempts
    /\ kernel' = [kernel EXCEPT !.hits[s] = @ + 1]
    /\ attempts' = [attempts EXCEPT ![s] = @ + 1]
    /\ UNCHANGED <<agentdVars, doorbell, runtime, jobs, budgetVars>>

NetdStep ==
    \/ BeginSignal
    \/ \E t \in Threads : \/ Snapshot(t) \/ Publish(t) \/ Query(t) \/ Apply(t)
                          \/ Verify(t) \/ CheckTable(t) \/ Observe(t)
NetdNext ==
    \/ NetdStep
    \/ BeginCall \/ Restart \/ RemoveTable
    \/ \E s \in Sessions : Refuse(s)

-----------------------------------------------------------------------------
(* The rules of a session.                                                 *)

Addresses == 0..(2 ^ Width - 1)

ASSUME LocalAreAddresses == LocalAddresses \subseteq Addresses

Internet == "internet"
Zones == NamedZones \cup {Internet}

Decisions == {"allow", "approval_required", "deny"}
Absent == "absent"

(* Decision::strictness *)
Strictness(d) == CASE d = "allow" -> 0 [] d = "approval_required" -> 1 [] d = "deny" -> 2

(* Decision::blocks: what needs an approval is refused until it has one.   *)
Blocks(d) == d # "allow"

(* The manifest's and the policy's decisions, each silent on some zones.   *)
Stated == [Zones -> Decisions \cup {Absent}]

(* compile_project, the loop over the zones: the stricter of the two, the   *)
(* one that speaks, and deny where both are silent.                        *)
Effective(m, p) ==
    CASE m = Absent /\ p = Absent -> "deny"
      [] m = Absent /\ p # Absent -> p
      [] m # Absent /\ p = Absent -> m
      [] OTHER -> IF Strictness(m) > Strictness(p) THEN m ELSE p

(* ProjectLocator::load: the documents found in the project's directory.   *)
(* They can be read and parsed or not, and they name the same project or    *)
(* not.                                                                    *)
Documents ==
    [readable : BOOLEAN, sameProject : BOOLEAN, manifest : Stated, policy : Stated]

Compiles(doc) == doc.readable /\ doc.sameProject

Compiled(doc) == [z \in Zones |-> Effective(doc.manifest[z], doc.policy[z])]

(* deny_all: the fallback for documents that cannot be used.               *)
DenyAll == [z \in Zones |-> "deny"]

(* masked_v4: the network of an address under a prefix.                    *)
Masked(address, prefix) ==
    LET size == 2 ^ (Width - prefix) IN (address \div size) * size

(* Cidr::parse accepts the canonical ones: no bit set below the prefix.     *)
Cidrs ==
    {c \in [network : Addresses, prefix : 0..Width] : Masked(c.network, c.prefix) = c.network}

(* Cidr::contains *)
CidrHolds(c, address) == Masked(address, c.prefix) = c.network

(* Cidr::overlaps: alike under the shorter of the two prefixes.             *)
Overlaps(c, d) ==
    LET prefix == IF c.prefix < d.prefix THEN c.prefix ELSE d.prefix
    IN  Masked(c.network, prefix) = Masked(d.network, prefix)

(* parse_zone_memberships: no two zones overlap, and the internet residual   *)
(* has no members.                                                         *)
MembershipFiles ==
    {f \in [NamedZones -> {cs \in SUBSET Cidrs : Cardinality(cs) <= MaxCidrs}] :
        \A y, z \in NamedZones : y # z =>
            \A c \in f[y], d \in f[z] : ~Overlaps(c, d)}

(* What a file stands for: the addresses of each zone.                      *)
MembersOf(file) ==
    [z \in Zones |-> IF z = Internet THEN {}
                     ELSE {a \in Addresses : \E c \in file[z] : CidrHolds(c, a)}]
Memberships == {MembersOf(f) : f \in MembershipFiles}

(* compile_bindings: a session is bound to what its documents compile to,   *)
(* and to deny-all when they do not, or when a zone they block has no       *)
(* addresses the kernel could block.                                       *)
Bound(doc, members) ==
    IF /\ Compiles(doc)
       /\ \A z \in NamedZones : Blocks(Compiled(doc)[z]) => members[z] # {}
    THEN Compiled(doc)
    ELSE DenyAll

Rule(addresses, verdict) == [on |-> addresses, verdict |-> verdict]

ZoneRules(zones, members, verdict) ==
    LET with == {z \in zones : members[z] # {}}
        order == SetToSeq(with)
    IN  [i \in DOMAIN order |-> Rule(members[order[i]], verdict)]

RenderLocalFirst(rules, members) ==
    LET blocked == {z \in NamedZones : Blocks(rules[z])}
    IN  <<Rule(LocalAddresses, "accept")>>
        \o ZoneRules(blocked, members, "reject")
        \o ZoneRules(NamedZones \ blocked, members, "accept")
        \o <<Rule(Addresses, IF Blocks(rules[Internet]) THEN "reject" ELSE "accept")>>

(* render_session_chain: the blocked zones, the allowed ones, loopback and  *)
(* link-local, and the internet residual last.                             *)
SessionChain(rules, members) ==
    LET blocked == {z \in NamedZones : Blocks(rules[z])}
    IN  ZoneRules(blocked, members, "reject")
        \o ZoneRules(NamedZones \ blocked, members, "accept")
        \o <<Rule(LocalAddresses, "accept")>>
        \o <<Rule(Addresses, IF Blocks(rules[Internet]) THEN "reject" ELSE "accept")>>

(* The kernel: the verdict of the first rule that matches.                 *)
KernelVerdict(chain, a) ==
    LET hit == CHOOSE i \in DOMAIN chain :
                 /\ a \in chain[i].on
                 /\ \A j \in 1..(i - 1) : a \notin chain[j].on
    IN  chain[hit].verdict

(* classify_connection: the zone that holds an address, or the residual.   *)
ZoneOf(members, a) ==
    IF \E z \in NamedZones : a \in members[z]
    THEN CHOOSE z \in NamedZones : a \in members[z]
    ELSE Internet

(* What the documents ask for at an address: the stricter of what they say  *)
(* of its zone, nothing where both are silent, and nothing at all when they *)
(* cannot be used.  Loopback is open unless a zone claims the address.      *)
MayReach(doc, members, a) ==
    LET z == ZoneOf(members, a)
        said == {doc.manifest[z], doc.policy[z]} \ {Absent}
    IN  \/ /\ a \in LocalAddresses
           /\ z = Internet
        \/ /\ Compiles(doc)
           /\ \A y \in NamedZones :
                (members[y] = {}) => Effective(doc.manifest[y], doc.policy[y]) = "allow"
           /\ said = {"allow"}
=============================================================================
