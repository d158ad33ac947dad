--------------------------- MODULE AgentRegistry ---------------------------
(***************************************************************************)
(* punar-agentd's registry of AI agent sessions, its process scan, the     *)
(* detections the scan produces and the local alert engine.                *)
(*                                                                         *)
(* Requests are served by one thread per connection.  The registry, the    *)
(* alert register and the detection index each have a mutex that is held   *)
(* for one step and released between steps: a scan reads /proc with no     *)
(* lock held and applies what it saw afterwards, agents.end checks a       *)
(* session's status under one acquisition of the lock and marks it under   *)
(* the next.  A panic while the registry lock is held poisons it, and      *)
(* every later `lock().unwrap()` panics too.                               *)
(***************************************************************************)
EXTENDS Integers, Sequences, FiniteSets, SequencesExt

CONSTANTS
    Sessions,       \* session ids a launcher may mint
    Pids,           \* process ids the kernel hands out, and reuses
    Sigs,           \* (executable, owner) pairs that look like an unknown agent
    Threads,        \* connection threads
    Main,           \* the thread that builds the daemon
    None,           \* no value
    QuietWindow,    \* ALERT_QUIET_WINDOW_SECS, in ticks
    MaxRetained,    \* MAX_RETAINED_ALERTS
    MaxTime,        \* bound: ticks of the clock
    MaxBirths,      \* bound: processes started
    MaxRestarts,    \* bound: restarts of the daemon
    MaxFaults       \* bound: failing appends

VARIABLES
    now,        \* the wall clock
    proc,       \* /proc: pid -> what runs there
    births,     \* processes started so far; a start time, in effect
    sess,       \* Registry.sessions
    dets,       \* Registry.detections
    log,        \* registry.jsonl: the newest record of each session
    drows,      \* the detection index: the rows kept, and whether each cleared
    cards,      \* Register.entries of the alert engine, oldest first
    file,       \* alerts.json
    call,       \* what each thread is doing
    poisoned,   \* a thread panicked with the registry lock held
    ends,       \* how often each session was recorded as ended
    raised,     \* how many cards each signature raised, and when the last one
    restarts,   \* how often the daemon was restarted
    faults      \* appends that failed

vars == <<now, proc, births, sess, dets, log, drows, cards, file, call,
          poisoned, ends, raised, restarts, faults>>

world  == <<now, proc, births>>
memory == <<sess, dets, cards>>
disk   == <<log, drows, file>>
trace  == <<ends, raised, restarts, faults>>

Idle == [at |-> "idle"]

(* What may run as a process: a managed agent inside the scope of its      *)
(* session, an agent an adapter's signature names, an executable that only *)
(* a suspected pattern or a provenance rule matches, or anything else.     *)
Kinds == [is : {"scope"}, of : Sessions]
         \cup [is : {"known"}, of : {None}]
         \cup [is : {"suspect"}, of : Sigs]
         \cup [is : {"plain"}, of : {None}]

(* A detection's id is a digest of the executable, the owner, the boot, the *)
(* pid and the start time: one id per process, the same on every scan.     *)
DetectionId(p) == [pid |-> p, born |-> proc[p].born]

IsAlive(p) == proc[p] # None

InManagedScope(p) == proc[p].kind.is = "scope"

(* Detector::classify: a known adapter first, then the suspected patterns   *)
(* and the provenance rules, and everything else is not a finding.         *)
Classify(p) ==
    CASE proc[p].kind.is = "known"   -> {[id |-> DetectionId(p), class |-> "observed", sig |-> None]}
      [] proc[p].kind.is = "suspect" -> {[id |-> DetectionId(p), class |-> "unknown", sig |-> proc[p].kind.of]}
      [] OTHER -> {}

(* Detector::scan over the pids no active session accounts for.            *)
Found(accounted) ==
    UNION {Classify(p) : p \in {q \in Pids \ accounted : IsAlive(q) /\ ~InManagedScope(q)}}

ActiveSessions == {s \in Sessions : sess[s] # None /\ sess[s].status = "active"}
ActivePids == {sess[s].pid : s \in ActiveSessions}

----------------------------------------------------------------------------
(* The alert engine. *)

(* Register::current_index: the newest entry of a signature.                *)
CurrentIndex(reg, g) ==
    LET of == {i \in DOMAIN reg : reg[i].sig = g}
    IN  IF of = {} THEN 0 ELSE CHOOSE i \in of : \A j \in of : j <= i

NewEntry(g) ==
    [sig |-> g, state |-> "live", live |-> TRUE, cleared |-> None, quiet |-> None,
     dismissed |-> FALSE]

(* A signature seen now has no entry, or its newest one was cleared and its *)
(* quiet window has run out: the sighting raises a fresh card.              *)
Raises(reg, g) ==
    LET i == CurrentIndex(reg, g)
    IN  \/ i = 0
        \/ /\ reg[i].state = "cleared"
           /\ reg[i].quiet = None \/ now >= reg[i].quiet

(* reconcile, first loop: the signatures that are seen live.                *)
Sighted(reg, seen) ==
    LET touched == [i \in DOMAIN reg |->
                      IF /\ reg[i].sig \in seen
                         /\ CurrentIndex(reg, reg[i].sig) = i
                         /\ ~Raises(reg, reg[i].sig)
                      THEN IF reg[i].state = "cleared"
                           THEN [reg[i] EXCEPT !.state = "live", !.cleared = None, !.quiet = None, !.live = TRUE]
                           ELSE [reg[i] EXCEPT !.live = TRUE]
                      ELSE reg[i]]
    IN  touched \o SetToSeq({NewEntry(g) : g \in {h \in seen : Raises(reg, h)}})

UnsightedKept(reg, seen) == reg

(* reconcile, second loop: the newest entry of a signature that is not live *)
(* clears, and its quiet window starts; a dismissed one stays dismissed.    *)
Unsighted(reg, seen) ==
    [i \in DOMAIN reg |->
       IF /\ CurrentIndex(reg, reg[i].sig) = i
          /\ reg[i].sig \notin seen
          /\ reg[i].live \/ reg[i].cleared = None
       THEN [reg[i] EXCEPT !.live = FALSE, !.cleared = now, !.quiet = now + QuietWindow,
                           !.state = IF @ = "live" THEN "cleared" ELSE @]
       ELSE reg[i]]

(* evict: beyond MaxRetained the oldest entries that are not live go.       *)
Evicted(reg) ==
    LET calm == {i \in DOMAIN reg : reg[i].state # "live"}
        gone == {i \in calm : Cardinality({j \in calm : j < i}) < Len(reg) - MaxRetained}
        kept == SetToSortSeq(DOMAIN reg \ gone, LAMBDA i, j : i < j)
    IN  [k \in DOMAIN kept |-> reg[kept[k]]]

(* AlertEngine::write: the rows, without the engine's own bookkeeping.  The *)
(* last_seen of a cleared row is the moment it cleared.                     *)
Rows(reg) == [i \in DOMAIN reg |->
                [sig |-> reg[i].sig, state |-> reg[i].state,
                 lastSeen |-> IF reg[i].state = "cleared" THEN reg[i].cleared ELSE None]]

(* The file is rewritten when the alert set changed: a card was raised,     *)
(* cleared, brought back or evicted.  A time stamp that moved is no change. *)
SetChanged(old, new) ==
    [i \in DOMAIN old |-> old[i].state] # [i \in DOMAIN new |-> new[i].state]

(* AlertEngine::resume: the bookkeeping is rebuilt from state and last_seen. *)
Resumed(rows) ==
    [i \in DOMAIN rows |->
       LET cleared == rows[i].state = "cleared"
       IN  [sig |-> rows[i].sig, state |-> rows[i].state, live |-> ~cleared,
            cleared |-> rows[i].lastSeen,
            quiet |-> IF cleared THEN rows[i].lastSeen + QuietWindow ELSE None,
            dismissed |-> rows[i].state = "dismissed"]]

----------------------------------------------------------------------------
(* Threads. *)

Goto(t, c) == call' = [call EXCEPT ![t] = c]

(* A connection thread is free to take a request once the daemon has        *)
(* finished its start-up scan; one that needs the registry finds its lock   *)
(* unpoisoned.                                                              *)
Serving(t) == call[t] = Idle /\ call[Main].at # "boot"
Free(t) == Serving(t) /\ ~poisoned

(* scan_now begins: reap_dead_sessions snapshots the active sessions.       *)
Scan(at, sessions) ==
    [at |-> at, step |-> "reap",
     data |-> {s \in Sessions : sessions[s] # None /\ sessions[s].status = "active"}]

Scanning(t, step) == call[t].at \in {"scan", "boot"} /\ call[t].step = step /\ ~poisoned

Advance(t, step, data) == Goto(t, [call[t] EXCEPT !.step = step, !.data = data])

(* mark_ended: only an active session becomes ended, under the lock.        *)
MarkEnded(s) == sess[s] # None /\ sess[s].status = "active"

(* The ended record is appended best-effort, and the end is audited.        *)
RecordEnd(s) ==
    /\ sess' = [sess EXCEPT ![s].status = "ended"]
    /\ \/ log' = [log EXCEPT ![s] = sess'[s]] /\ UNCHANGED faults
       \/ faults < MaxFaults /\ faults' = faults + 1 /\ UNCHANGED log
    /\ ends' = [ends EXCEPT ![s] = @ + 1]

----------------------------------------------------------------------------
(* The machine around the daemon. *)

Tick == now < MaxTime /\ now' = now + 1 /\ UNCHANGED <<proc, births, memory, disk, call, poisoned, trace>>

StartProcess(p, k) ==
    /\ proc[p] = None /\ births < MaxBirths
    /\ proc' = [proc EXCEPT ![p] = [kind |-> k, born |-> births]]
    /\ births' = births + 1
    /\ UNCHANGED <<now, memory, disk, call, poisoned, trace>>

ExitProcess(p) ==
    /\ IsAlive(p)
    /\ proc' = [proc EXCEPT ![p] = None]
    /\ UNCHANGED <<now, births, memory, disk, call, poisoned, trace>>

----------------------------------------------------------------------------
(* agents.register *)

(* The request is refused when the id is in use, the process does not exist *)
(* or belongs to another user, or is neither in its session's scope nor a   *)
(* known agent.  Managed means verified in the scope.  The launcher that    *)
(* minted the id sends one request at a time and waits for its answer.      *)
RegisterVerdict(s, p, owner) ==
    CASE sess[s] # None \/ ~IsAlive(p) -> "invalid"
      [] ~owner -> "denied"
      [] proc[p].kind = [is |-> "scope", of |-> s] -> "managed"
      [] proc[p].kind.is = "known" -> "observed"
      [] OTHER -> "invalid"

HandleRegister(t, s, p, owner) ==
    /\ Free(t)
    /\ \A u \in Threads : call[u].at = "register" => call[u].s # s
    /\ LET v == RegisterVerdict(s, p, owner)
       IN  IF v \in {"managed", "observed"}
           THEN Goto(t, [at |-> "register", s |-> s, rec |-> [status |-> "active", pid |-> p, class |-> v]])
           ELSE UNCHANGED call
    /\ UNCHANGED <<world, memory, disk, poisoned, trace>>

(* The record is appended before it is inserted; a failed append refuses    *)
(* the registration.  The registering thread then scans.                    *)
RegisterInsert(t) ==
    /\ call[t].at = "register" /\ ~poisoned
    /\ \/ /\ log' = [log EXCEPT ![call[t].s] = call[t].rec]
          /\ sess' = [sess EXCEPT ![call[t].s] = call[t].rec]
          /\ Goto(t, Scan("scan", sess'))
          /\ UNCHANGED faults
       \/ /\ faults < MaxFaults /\ faults' = faults + 1
          /\ Goto(t, Idle)
          /\ UNCHANGED <<log, sess>>
    /\ UNCHANGED <<world, dets, cards, drows, file, poisoned, ends, raised, restarts>>

----------------------------------------------------------------------------
(* agents.end *)

(* The status is read under one acquisition of the registry lock.           *)
HandleEnd(t, s, owner) ==
    /\ Free(t)
    /\ IF sess[s] # None /\ owner /\ sess[s].status = "active"
       THEN Goto(t, [at |-> "end", s |-> s])
       ELSE UNCHANGED call
    /\ UNCHANGED <<world, memory, disk, poisoned, trace>>

(* ... and marked under the next.  `mark_ended(..).expect(..)` panics when  *)
(* another thread ended the session in between.                             *)
EndMark(t) ==
    /\ call[t].at = "end" /\ ~poisoned
    /\ \/ /\ MarkEnded(call[t].s)
          /\ RecordEnd(call[t].s)
          /\ Goto(t, Scan("scan", sess'))
          /\ UNCHANGED poisoned
       \/ /\ ~MarkEnded(call[t].s)
          /\ poisoned' = TRUE
          /\ Goto(t, Idle)
          /\ UNCHANGED <<sess, log, faults, ends>>
    /\ UNCHANGED <<world, dets, cards, drows, file, raised, restarts>>

----------------------------------------------------------------------------
(* agents.scan, and agents.list when the last scan is stale *)

HandleScan(t) ==
    /\ Free(t) /\ Goto(t, Scan("scan", sess))
    /\ UNCHANGED <<world, memory, disk, poisoned, trace>>

(* reap_dead_sessions, one candidate: a session whose pid is gone ends.     *)
ReapSession(t, s) ==
    /\ Scanning(t, "reap") /\ s \in call[t].data
    /\ \/ /\ ~IsAlive(sess[s].pid) /\ MarkEnded(s)
          /\ RecordEnd(s)
       \/ /\ IsAlive(sess[s].pid) \/ ~MarkEnded(s)
          /\ UNCHANGED <<sess, log, faults, ends>>
    /\ Advance(t, "reap", call[t].data \ {s})
    /\ UNCHANGED <<world, dets, cards, drows, file, poisoned, raised, restarts>>

(* The accounted pids are read, then /proc is walked with no lock held.     *)
ScanWalk(t) ==
    /\ Scanning(t, "reap") /\ call[t].data = {}
    /\ Advance(t, "replace", Found(ActivePids))
    /\ UNCHANGED <<world, memory, disk, poisoned, trace>>

(* clear_row: the row of a detection that is gone gets its cleared_at.      *)
ClearRow(r) == [r EXCEPT !.cleared = TRUE]

(* replace_detections and persist_detection_transitions: what was found     *)
(* becomes the registry's set, each appearance gets a row of the index and  *)
(* each disappearance clears its row.  A detection whose ledger is resumed  *)
(* after a restart keeps the row it had.  An appearance whose record cannot *)
(* be appended gets no row.                                                 *)
ScanReplace(t) ==
    /\ Scanning(t, "replace")
    /\ dets' = call[t].data
    /\ LET appeared == {d.id : d \in call[t].data} \ {d.id : d \in dets}
           gone == {d.id : d \in dets} \ {d.id : d \in call[t].data}
           cleared == {ClearRow(r) : r \in {q \in drows : q.id \in gone}}
           kept(lost) == {r \in drows : r.id \notin gone \cup lost}
       IN  \/ /\ drows' = kept(appeared) \cup cleared \cup {[id |-> d, cleared |-> FALSE] : d \in appeared}
              /\ UNCHANGED faults
           \/ /\ appeared # {} /\ faults < MaxFaults /\ faults' = faults + 1
              /\ drows' = kept({}) \cup cleared
    /\ Advance(t, "observe", {})
    /\ UNCHANGED <<world, sess, cards, log, file, poisoned, ends, raised, restarts>>

(* reconcile_alerts reads the live unknown detections under the registry    *)
(* lock ...                                                                 *)
ScanObserve(t) ==
    /\ Scanning(t, "observe")
    /\ Advance(t, "reconcile", {d.sig : d \in {e \in dets : e.class = "unknown"}})
    /\ UNCHANGED <<world, memory, disk, poisoned, trace>>

(* ... and applies them under the register's own.  prune_detections then    *)
(* drops the cleared rows whose retention has run out.                      *)
ScanReconcile(t) ==
    /\ Scanning(t, "reconcile")
    /\ LET seen == call[t].data
       IN  /\ \E sighted \in {Sighted(cards, seen)} :
                \E settled \in {Unsighted(sighted, seen)} : cards' = Evicted(settled)
           /\ file' = IF SetChanged(cards, cards') THEN Rows(cards') ELSE file
           /\ raised' = [g \in Sigs |->
                           IF g \in seen /\ Raises(cards, g)
                           THEN [count |-> raised[g].count + 1, last |-> now] ELSE raised[g]]
    /\ \E expired \in SUBSET {r \in drows : r.cleared} : drows' = drows \ expired
    /\ Goto(t, Idle)
    /\ UNCHANGED <<world, sess, dets, log, poisoned, ends, restarts, faults>>

----------------------------------------------------------------------------
(* alerts.dismiss: the card's owner, or root, files it once.                *)
Dismissable(i) == ~cards[i].dismissed

HandleAlertsDismiss(t, i, owner) ==
    /\ Serving(t) /\ i \in DOMAIN cards
    /\ IF owner /\ Dismissable(i)
       THEN /\ cards' = [cards EXCEPT ![i].dismissed = TRUE, ![i].state = "dismissed"]
            /\ file' = Rows(cards')
       ELSE UNCHANGED <<cards, file>>
    /\ UNCHANGED <<world, sess, dets, log, drows, call, poisoned, trace>>

(* ledger.purge also deletes the purged detections' rows.                   *)
PurgeDetectionRecords(t, r) ==
    /\ Free(t) /\ r \in drows
    /\ drows' = drows \ {r}
    /\ UNCHANGED <<world, memory, log, file, call, poisoned, trace>>

----------------------------------------------------------------------------
(* The daemon dies, at any step, and systemd starts it again: replay_into   *)
(* rebuilds the sessions from the newest record of each and ends the active *)
(* ones whose pid is gone; the alert register is rebuilt from its file; the *)
(* start-up scan runs before the socket is bound.                           *)
Replayed(s) ==
    IF log[s] # None /\ log[s].status = "active" /\ ~IsAlive(log[s].pid)
    THEN [log[s] EXCEPT !.status = "ended"]
    ELSE log[s]

Restart ==
    /\ restarts < MaxRestarts /\ restarts' = restarts + 1
    /\ sess' = [s \in Sessions |-> Replayed(s)]
    /\ \/ log' = sess' /\ UNCHANGED faults
       \/ faults < MaxFaults /\ faults' = faults + 1 /\ UNCHANGED log
    /\ dets' = {}
    /\ cards' = Resumed(file)
    /\ call' = [t \in Threads |-> IF t = Main THEN Scan("boot", sess') ELSE Idle]
    /\ poisoned' = FALSE
    /\ UNCHANGED <<world, drows, file, ends, raised>>

(* A request that finds the registry lock poisoned kills its own thread.    *)
PoisonedRequest(t) == Serving(t) /\ poisoned /\ UNCHANGED vars

----------------------------------------------------------------------------
Init ==
    /\ now = 0 /\ proc = [p \in Pids |-> None] /\ births = 0
    /\ sess = [s \in Sessions |-> None] /\ dets = {} /\ cards = <<>>
    /\ log = [s \in Sessions |-> None] /\ drows = {} /\ file = <<>>
    /\ call = [t \in Threads |-> Idle] /\ poisoned = FALSE
    /\ ends = [s \in Sessions |-> 0] /\ raised = [g \in Sigs |-> [count |-> 0, last |-> None]] /\ restarts = 0 /\ faults = 0

ScanStep(t) ==
    \/ \E s \in Sessions : ReapSession(t, s)
    \/ ScanWalk(t) \/ ScanReplace(t) \/ ScanObserve(t) \/ ScanReconcile(t)

Request(t) ==
    \/ \E s \in Sessions, p \in Pids, owner \in BOOLEAN : HandleRegister(t, s, p, owner)
    \/ \E s \in Sessions, owner \in BOOLEAN : HandleEnd(t, s, owner)
    \/ HandleScan(t)
    \/ \E i \in DOMAIN cards, owner \in BOOLEAN : HandleAlertsDismiss(t, i, owner)
    \/ \E r \in drows : PurgeDetectionRecords(t, r)

Next ==
    \/ Tick
    \/ \E p \in Pids, k \in Kinds : StartProcess(p, k)
    \/ \E p \in Pids : ExitProcess(p)
    \/ \E t \in Threads : RegisterInsert(t) \/ EndMark(t) \/ ScanStep(t)
    \/ \E t \in Threads : Request(t) \/ PoisonedRequest(t)
    \/ Restart

Spec == Init /\ [][Next]_vars

----------------------------------------------------------------------------
(* Properties *)

(* agents.end and the reaper race for the same session, on two threads, and *)
(* a session is recorded and audited as ended at most once, restarts        *)
(* included, unless the append of the ended record failed.                  *)
EndsOnce == faults = 0 => \A s \in Sessions : ends[s] <= 1

Running(g) == \E p \in Pids \ ActivePids : IsAlive(p) /\ proc[p].kind = [is |-> "suspect", of |-> g]

(* The cards tell the truth about every unknown agent.                      *)
CardsTell ==
    \/ poisoned
    \/ \A g \in Sigs : LET i == CurrentIndex(cards, g)
                       IN  IF Running(g) THEN i # 0 /\ cards[i].state # "cleared"
                           ELSE i # 0 => cards[i].state # "live"
=============================================================================
