---------------------------- MODULE NetworkView -----------------------------
(***************************************************************************)
(* The connections view of punar-netd: one pass reads the kernel's TCP     *)
(* tables, then the cgroup ids of the sockets, then who holds them, then   *)
(* the counters of refused packets, and makes a report.  Processes open,   *)
(* hand over and close sockets, and exit, between any two reads.           *)
(***************************************************************************)
EXTENDS Naturals, FiniteSets

CONSTANTS
    Scopes,         \* managed sessions, each with its own cgroup
    Pids,           \* processes, in the order of their numbers
    Inodes,         \* sockets ever opened
    MaxRefusals,    \* bound on the packets refused to one session
    MaxPasses,      \* bound on the passes made
    MaxRestarts     \* bound on the restarts of the daemon

VARIABLES
    sockets,        \* inode -> the socket, for those that are open
    procs,          \* pid -> the scope it runs in, for those alive
    used,           \* the inodes handed out so far: the kernel reuses none
    refused,        \* scope -> the kernel's counter
    logged,         \* the scopes with a refusal in the journal past the cursor
    live,           \* the sessions agentd lists
    told,           \* scope -> reported_denials
    lastDenied,     \* last_denied_destinations
    flows,          \* active_destinations
    bound,          \* the sessions of the last reconcile
    trail,          \* what was audited of each session
    report,         \* the connections file
    relay,          \* the relay preference: in the file and in memory
    restarts,
    pass            \* the pass being made

viewVars == <<sockets, procs, used, refused, logged, live, told, lastDenied, flows,
              bound, trail, report, relay, restarts, pass>>

Outside == "outside"
Direct == "direct"
NoPass ==
    [step |-> "idle", sessions |-> {}, table |-> {}, ids |-> {}, owners |-> {}, count |-> 0]
TcpStates == {"established", "closing", "listening"}

ViewInit ==
    /\ sockets = [i \in {} |-> 0]
    /\ procs \in [Pids -> Scopes \cup {Outside}]
    /\ used = 0
    /\ refused = [s \in Scopes |-> 0] /\ told = refused
    /\ logged = {} /\ lastDenied = {} /\ flows = {} /\ report = {} /\ pass = NoPass
    /\ live \in SUBSET Scopes /\ bound = {}
    /\ trail = [s \in Scopes |-> [attached |-> 0, detached |-> 0, denied |-> 0]]
    /\ relay = [file |-> "missing", mode |-> Direct] /\ restarts = 0

-----------------------------------------------------------------------------
(* parse_table: a socket that listens, or has no peer, is no connection.    *)
ParseTable == {i \in DOMAIN sockets : sockets[i].state \in {"established", "closing"}}

(* tcp_cgroup_ids: the cgroup a socket was opened in, for those still there. *)
CgroupIds(table) ==
    {[inode |-> i, scope |-> sockets[i].scope] :
        i \in {j \in table \cap DOMAIN sockets : sockets[j].scope # Outside}}

(* resolve_owners: the lowest pid that holds a descriptor of the socket.    *)
ResolveOwners(table) ==
    {[inode |-> i, pid |-> p, scope |-> procs[p]] :
        <<i, p>> \in {q \in (table \cap DOMAIN sockets) \X DOMAIN procs :
            /\ q[2] \in sockets[q[1]].holders
            /\ \A r \in DOMAIN procs : r \in sockets[q[1]].holders => q[2] <= r}}

ByPath(p, i) == {o.scope : o \in {q \in p.owners : q.inode = i}} \cap p.sessions
ByCgroup(p, i) == {c.scope : c \in {d \in p.ids : d.inode = i}} \cap p.sessions

AttributedByPath(p, i) ==
    IF ByPath(p, i) # {} THEN CHOOSE s \in ByPath(p, i) : TRUE ELSE Outside

(* build_report: the session whose scope holds the owner, or the one whose  *)
(* cgroup the kernel names.  Two different answers fail the whole report.   *)
Conflicting(p) ==
    \E i \in p.table : Cardinality(ByPath(p, i) \cup ByCgroup(p, i)) > 1
Attributed(p, i) ==
    IF ByPath(p, i) \cup ByCgroup(p, i) # {}
    THEN CHOOSE s \in ByPath(p, i) \cup ByCgroup(p, i) : TRUE
    ELSE Outside
BuildReport(p) == {[inode |-> i, session |-> Attributed(p, i)] : i \in p.table}

(* collect_denials: an event for each counter that grew since it was told.  *)
CollectDenials == {s \in bound : refused[s] > told[s]}

(* attach_denials: on a row of the session, or on a row of its own.         *)
AttachDenials(rows, destinations) ==
    rows \cup {[session |-> s, denied |-> refused[s], last |-> s \in destinations] :
                 s \in {t \in bound : refused[t] > 0}}

(* ensure_system_rows: punard and netd have a row whatever they hold.       *)
EnsureSystemRows(rows) == rows \cup {[system |-> "punard"], [system |-> "punar-netd"]}

(* refresh_destinations looks at what is established, under a session.      *)
Established(p) ==
    {r \in BuildReport(p) :
        /\ r.session # Outside /\ r.inode \in DOMAIN sockets
        /\ sockets[r.inode].state = "established"}

(* session_transitions, as audit_transitions writes them.                   *)
SessionTransitions(before, after) ==
    [s \in Scopes |->
        [trail[s] EXCEPT !.attached = @ + (IF s \in after \ before THEN 1 ELSE 0),
                         !.detached = @ + (IF s \in before \ after THEN 1 ELSE 0)]]

(* audit_network_denials *)
AuditDenials(scopes, before) ==
    [s \in Scopes |-> [before[s] EXCEPT !.denied = @ + (IF s \in scopes THEN 1 ELSE 0)]]

-----------------------------------------------------------------------------
world == <<sockets, procs, used, refused, live>>
daemon == <<logged, told, lastDenied, flows, bound, trail, report, relay, restarts>>

EndPass == pass' = [NoPass EXCEPT !.count = pass.count + 1]

Told == [s \in Scopes |-> IF s \in bound THEN refused[s] ELSE told[s]]

(* apply_inner, as far as the view depends on it: the denials of the         *)
(* installed sessions are collected, the sessions agentd lists become the    *)
(* installed ones, and what is known of one that left is forgotten.  When    *)
(* the kernel refuses the table, only the denials have been taken as told.   *)
Rebind ==
    /\ pass.step = "idle" /\ bound # live
    /\ told' = Told
    /\ \/ /\ bound' = live
          /\ trail' = AuditDenials(CollectDenials, SessionTransitions(bound, live))
          /\ flows' = {r \in flows : r.session \in live}
          /\ lastDenied' = lastDenied \cap live
       \/ /\ told' # told
          /\ UNCHANGED <<bound, trail, flows, lastDenied>>
    /\ UNCHANGED <<world, logged, report, relay, restarts, pass>>

(* connections: agentd's list, then observe_inner, one read after another.   *)
(* A table, a dump or a list that cannot be read ends the pass.             *)
ReadSessions ==
    /\ pass.step = "idle" /\ pass.count < MaxPasses
    /\ \/ pass' = [pass EXCEPT !.step = "tables", !.sessions = live]
       \/ EndPass
    /\ UNCHANGED <<world, daemon>>
ReadTables ==
    /\ pass.step = "tables"
    /\ pass' = [pass EXCEPT !.step = "diag", !.table = ParseTable]
    /\ UNCHANGED <<world, daemon>>
ReadCgroups ==
    /\ pass.step = "diag"
    /\ \/ pass' = [pass EXCEPT !.step = "owners", !.ids = CgroupIds(pass.table)]
       \/ EndPass
    /\ UNCHANGED <<world, daemon>>
ReadOwners ==
    /\ pass.step = "owners"
    /\ pass' = [pass EXCEPT !.step = "report", !.owners = ResolveOwners(pass.table)]
    /\ UNCHANGED <<world, daemon>>

(* DenyLog::read_new: the records past the cursor, which moves with them, or *)
(* an error that the report mentions and nothing else.                      *)
ReadNew ==
    \/ lastDenied' = lastDenied \cup logged /\ logged' = {}
    \/ UNCHANGED <<lastDenied, logged>>

(* connections after observe.  The denials count as told before they are     *)
(* audited: when the destinations cannot be published their events are lost. *)
Report ==
    /\ pass.step = "report"
    /\ IF Conflicting(pass)
       THEN UNCHANGED daemon
       ELSE /\ told' = Told
            /\ ReadNew
            /\ flows' = Established(pass)
            /\ \/ /\ report' = EnsureSystemRows(
                                 AttachDenials(BuildReport(pass), lastDenied'))
                  /\ trail' = AuditDenials(CollectDenials, trail)
               \/ /\ flows' # flows
                  /\ UNCHANGED <<report, trail>>
            /\ UNCHANGED <<bound, relay, restarts>>
    /\ EndPass
    /\ UNCHANGED world

(* RelayStore::set writes the file and then changes the mode.               *)
SetRelay(mode) ==
    /\ mode # relay.mode
    /\ relay' = [file |-> mode, mode |-> mode]
    /\ UNCHANGED <<world, logged, told, lastDenied, flows, bound, trail, report, restarts, pass>>

(* The daemon starts again: RelayStore::open, DenyLog::initialize.  Only the *)
(* file, the cursor, the report and the audit trail remain.                 *)
OpenRelay(file) == [file |-> file, mode |-> IF file = "missing" THEN Direct ELSE file]
Reopen ==
    /\ restarts < MaxRestarts
    /\ restarts' = restarts + 1
    /\ relay' = OpenRelay(relay.file)
    /\ told' = [s \in Scopes |-> 0] /\ lastDenied' = {} /\ flows' = {} /\ bound' = {}
    /\ EndPass
    /\ UNCHANGED <<world, logged, trail, report>>

(* Processes and the kernel.                                               *)
Opens(p) ==
    /\ used < Cardinality(Inodes) /\ p \in DOMAIN procs
    /\ used' = used + 1
    /\ \E state \in TcpStates :
         sockets' = [i \in DOMAIN sockets \cup {used + 1} |->
                       IF i = used + 1
                       THEN [scope |-> procs[p], holders |-> {p}, state |-> state]
                       ELSE sockets[i]]
    /\ UNCHANGED <<procs, refused, live, daemon, pass>>
HandsOver(i, q) ==
    /\ i \in DOMAIN sockets /\ q \in DOMAIN procs \ sockets[i].holders
    /\ sockets' = [sockets EXCEPT ![i].holders = @ \cup {q}]
    /\ UNCHANGED <<procs, used, refused, live, daemon, pass>>
Without(p) ==
    LET left == {i \in DOMAIN sockets : sockets[i].holders # {p}}
    IN  [i \in left |-> [sockets[i] EXCEPT !.holders = @ \ {p}]]
Exits(p) ==
    /\ p \in DOMAIN procs
    /\ procs' = [q \in DOMAIN procs \ {p} |-> procs[q]]
    /\ sockets' = Without(p)
    /\ UNCHANGED <<used, refused, live, daemon, pass>>
Refuses(s) ==
    /\ s \in bound /\ refused[s] < MaxRefusals
    /\ refused' = [refused EXCEPT ![s] = @ + 1]
    /\ logged' = logged \cup {s}
    /\ UNCHANGED <<sockets, procs, used, live, told, lastDenied, flows, bound, trail, report,
                   relay, restarts, pass>>
SessionEnds(s) ==
    /\ s \in live
    /\ live' = live \ {s}
    /\ UNCHANGED <<sockets, procs, used, refused, daemon, pass>>

ViewNext ==
    \/ Rebind \/ ReadSessions \/ ReadTables \/ ReadCgroups \/ ReadOwners \/ Report \/ Reopen
    \/ \E mode \in {Direct, "private_relay"} : SetRelay(mode)
    \/ \E p \in Pids : Opens(p) \/ Exits(p) \/ \E i \in Inodes : HandsOver(i, p)
    \/ \E s \in Scopes : Refuses(s) \/ SessionEnds(s)

-----------------------------------------------------------------------------
(* A report leaves none of a listed session's open connections outside, and *)
(* shows none under a session that neither opened it nor holds it: what the *)
(* kernel knows of a socket counts where its owner could not be seen        *)
(* (view.rs, build_report).                                                *)
ShownWhereItBelongs ==
    pass.step = "report" /\ ~Conflicting(pass) =>
        \A i \in pass.table \cap DOMAIN sockets :
            LET session == Attributed(pass, i)
            IN  /\ session = Outside => sockets[i].scope \notin pass.sessions
                /\ session # Outside =>
                     \/ sockets[i].scope = session
                     \/ [inode |-> i, scope |-> session] \in
                          {[inode |-> o.inode, scope |-> o.scope] : o \in pass.owners}

(* A refusal is audited no more often than the kernel counted it, unless    *)
(* the daemon was restarted (runtime.rs, collect_denials).                 *)
DenialsAuditedOnce ==
    \A s \in Scopes : trail[s].denied <= refused[s] * (restarts + 1)

(* What the view and the trail say of a session's network is what the       *)
(* kernel saw (build_report, collect_denials).                             *)
ViewIsTrue == ShownWhereItBelongs /\ DenialsAuditedOnce
=============================================================================
