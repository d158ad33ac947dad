---------------------------- MODULE AgentLedger ----------------------------
(***************************************************************************)
(* punar-agentd's AI Access Ledger: what each session and each detection    *)
(* was seen to touch, partly read from the audit trail, and that trail.     *)
(*                                                                         *)
(* The trail is shared: several daemons append to one file through          *)
(* descriptors of their own, and whoever finds the file full renames it to  *)
(* `.1` and starts a fresh one.  A file is the sequence of the events in    *)
(* it; a descriptor is the number of the file it was opened on, so it keeps *)
(* writing to a file that was renamed meanwhile.                            *)
(*                                                                         *)
(* In the ledger `state` is one mutex; files are read and written partly    *)
(* under it and partly after it was released.  A call is the list of the    *)
(* locked regions and file writes it still has to go through, so every      *)
(* place where another thread can come in between is a step here.  The      *)
(* inotify thread is one more caller that only drains.                      *)
(***************************************************************************)
EXTENDS Integers, Sequences, FiniteSets, SequencesExt

CONSTANTS
    Writers,        \* AuditWriter values, one per daemon
    Principals,     \* sessions and detections an event may be attributed to
    None,           \* no value
    Cap,            \* AUDIT_ROTATE_BYTES, in events
    MaxEvents       \* bound: events appended

ASSUME TrailBounds == Cap \in Nat \ {0} /\ MaxEvents \in Nat

VARIABLES
    live,       \* the events in the live file
    rotated,    \* the events in `.1`
    ino,        \* which file is the live one
    appended,   \* every event ever written, in order
    late,       \* ids of the events written to a file that had been renamed
    writer      \* what each writer is doing, and its descriptor

trail == <<live, rotated, ino, appended, late, writer>>

----------------------------------------------------------------------------
(* The audit trail *)

(* Only events with a session and a ledger type matter to a reader.  Some   *)
(* also name a credential class.                                            *)
Events(n) == [id : {n}, s : Principals, cred : BOOLEAN]

(* AuditWriter::open *)
TrailInit ==
    /\ live = <<>> /\ rotated = <<>> /\ ino = 1 /\ appended = <<>> /\ late = {}
    /\ writer = [w \in Writers |-> [at |-> "idle", fd |-> 1]]

(* The length of the file behind a descriptor; a late one was full.     *)
LenOf(fd) == CASE fd = ino -> Len(live) [] fd = ino - 1 -> Len(rotated) [] OTHER -> Cap

(* append begins: rotate_if_needed looks at the writer's own descriptor.    *)
Check(w) ==
    /\ writer[w].at = "idle" /\ Len(appended) < MaxEvents
    /\ writer' = [writer EXCEPT ![w].at = IF LenOf(writer[w].fd) < Cap THEN "write" ELSE "rotate"]
    /\ UNCHANGED <<live, rotated, ino, appended, late>>

(* Under the flock the size of the live file is looked at again, and the    *)
(* descriptor is replaced whoever rotated.                                  *)
Rotate(w) ==
    /\ writer[w].at = "rotate"
    /\ IF Len(live) >= Cap
       THEN rotated' = live /\ live' = <<>> /\ ino' = ino + 1
       ELSE UNCHANGED <<rotated, live, ino>>
    /\ writer' = [writer EXCEPT ![w] = [at |-> "write", fd |-> ino']]
    /\ UNCHANGED <<appended, late>>

(* One write of one line through the descriptor; if the file was renamed    *)
(* since the check, the line lands in `.1`, or in a file without a name.    *)
Write(w, e) ==
    /\ writer[w].at = "write" /\ Len(appended) < MaxEvents /\ e \in Events(Len(appended) + 1)
    /\ appended' = Append(appended, e)
    /\ live' = IF writer[w].fd = ino THEN Append(live, e) ELSE live
    /\ rotated' = IF writer[w].fd = ino - 1 THEN Append(rotated, e) ELSE rotated
    /\ late' = IF writer[w].fd # ino THEN late \cup {e.id} ELSE late
    /\ writer' = [writer EXCEPT ![w].at = "idle"]
    /\ UNCHANGED ino

TrailNext ==
    \E w \in Writers :
      \/ Check(w) \/ Rotate(w)
      \/ \E e \in Events(Len(appended) + 1) : Write(w, e)

(* Whatever the interleaving of two writers around a full file, the newest  *)
(* Cap events are in one of the two files that have a name.  The exception  *)
(* is an event whose file was renamed between its check and its write.     *)
TrailKeepsRecent ==
    \A k \in DOMAIN appended :
      \/ appended[k] \in ToSet(live) \cup ToSet(rotated)
      \/ k <= Len(appended) - Cap
      \/ appended[k].id \in late

----------------------------------------------------------------------------
(* The ledger *)

CONSTANTS
    Detections,     \* the principals that are detections, not sessions
    Threads,        \* connection threads and the inotify watch
    Budget,         \* MAX_AUDIT_DRAIN_BYTES, in events
    MaxPending,     \* MAX_PENDING_ATTRIBUTIONS
    MaxCrashes,     \* bound: times the daemon dies
    MaxFaults       \* bound: record writes that fail

VARIABLES
    reg,        \* the registry: "none", "active" or "ended"
    active,     \* State.active: records of running principals, and their dirty flag
    index,      \* State.index: the rows and the tail position
    pending,    \* State.pending: attributions to principals not begun yet
    rec,        \* the record files
    idx,        \* the index file
    gate,       \* who holds drain_gate
    call,       \* what is left of each thread's call
    seen,       \* ids of the events some drain read
    dropped,    \* ids of the events pushed out of pending
    gone,       \* ids a purge, a prune or a tombstone took out of the ledger
    erased,     \* ids of the events before a purge of their principal that was answered
    mishaps,    \* "record", "index": a file was written from a stale copy;
                \* "budget": a drain stopped before the end of the trail
    crashes, faults

ledger == <<reg, active, index, pending, rec, idx, gate, call, seen, dropped, gone, erased, mishaps, crashes, faults>>
vars == <<trail, ledger>>

NewRecord == [events |-> {}, creds |-> 0, net |-> 0, status |-> "active"]

Idle == [todo |-> <<>>]
Call(todo, s) == [todo |-> todo, s |-> s, data |-> None, ids |-> {}, outrun |-> FALSE]
Busy(t, step) == call[t].todo # <<>> /\ Head(call[t].todo) = step
Then(t, more) ==
    LET rest == more \o Tail(call[t].todo)
    IN  call' = [call EXCEPT ![t] = IF rest = <<>> THEN Idle ELSE [Call(rest, @.s) EXCEPT !.ids = call[t].ids]]
Done(t) == Then(t, <<>>)
WriteIndex == <<"clone", "store">>

(* index_row: retention starts when the record ended.                       *)
IndexRow(r) == IF r.status = "ended" THEN "ended" ELSE "active"

Tombstone(s) == index.rows[s] = "tombstone"

----------------------------------------------------------------------------
(* Records *)

(* observe_security_event refuses an id it holds; observe adds one.         *)
Observe(r, e) ==
    [r EXCEPT !.events = @ \cup {e.id}, !.creds = IF e.cred THEN @ + 1 ELSE @]

(* hold: a bounded queue, the oldest goes.                                  *)
Hold(q, e) ==
    LET kept == IF Len(q) >= MaxPending THEN Tail(q) ELSE q IN Append(kept, e)

(* write_record, which may fail.                                            *)
WriteRecord(s, r) == rec' = [rec EXCEPT ![s] = r] /\ UNCHANGED faults
CannotWrite == faults < MaxFaults /\ faults' = faults + 1 /\ UNCHANGED rec

(* A record or index is written by t while another thread is about to write *)
(* what it took, or copied, before.                                         *)
Overtakes(t, s) == \E u \in Threads \ {t} :
    call[u].todo # <<>> /\ Head(call[u].todo) \in {"put", "upsert"} /\ call[u].s = s

----------------------------------------------------------------------------
(* drain_audit *)

(* AuditTail::drain: after a rotation the rest of the rotated file from the *)
(* old offset, then the live file, as far as the budget reaches.            *)
Drained(from) ==
    LET moved == from.ino \notin {0, ino}
        old == IF moved /\ from.off < Len(rotated) THEN SubSeq(rotated, from.off + 1, Len(rotated)) ELSE <<>>
        start == IF moved \/ from.off > Len(live) THEN 0 ELSE from.off
        all == old \o SubSeq(live, start + 1, Len(live))
        n == IF Len(all) < Budget THEN Len(all) ELSE Budget
    IN  [events |-> SubSeq(all, 1, n), bounded |-> n < Len(all),
         position |-> [ino |-> ino, off |-> start + (IF n > Len(old) THEN n - Len(old) ELSE 0)]]

NoGate(t) == gate' = t

(* The drain gate is a mutex.                                               *)
Gate(t) == gate = None /\ gate' = t

(* The position is read, then the bytes after it, with no lock but the      *)
(* drain gate, which is held until the call is over.                        *)
Read(t) ==
    /\ Busy(t, "drain") /\ Gate(t)
    /\ call' = [call EXCEPT ![t] = [@ EXCEPT !.todo = <<"ingest">> \o Tail(@), !.data = Drained(index.tail)]]
    /\ mishaps' = IF Drained(index.tail).bounded THEN mishaps \cup {"budget"} ELSE mishaps
    /\ UNCHANGED <<trail, reg, active, index, pending, rec, idx, seen, dropped, gone, erased, crashes, faults>>

(* An attribution to a principal that has no ledger yet is held.            *)
Unclaimed(e, st) == [st EXCEPT !.pending = Hold(@, e)]

(* Where one attribution goes: nowhere for a tombstone, into the record of  *)
(* a running principal, into the file of one that ended, and else it waits. *)
Attribute(e, st) ==
    CASE Tombstone(e.s) -> st
      [] ~Tombstone(e.s) /\ st.active[e.s] # None ->
           [st EXCEPT !.active[e.s] = [rec |-> Observe(@.rec, e), dirty |-> TRUE]]
      [] ~Tombstone(e.s) /\ st.active[e.s] = None /\ st.rec[e.s] # None ->
           [st EXCEPT !.rec[e.s] = Observe(@, e), !.rows[e.s] = IndexRow(st.rec[e.s]), !.touched = @ \cup {e.s}]
      [] OTHER -> Unclaimed(e, st)

(* The new position and everything that was read, under one lock.  A drain  *)
(* that read nothing only moves the position in memory.                     *)
Ingest(t) ==
    /\ Busy(t, "ingest")
    /\ LET got == call[t].data.events
           st == FoldLeft(LAMBDA x, e : Attribute(e, x),
                          [active |-> active, rec |-> rec, rows |-> index.rows, pending |-> pending, touched |-> {}],
                          got)
       IN  /\ active' = st.active /\ rec' = st.rec /\ pending' = st.pending
           /\ index' = [rows |-> st.rows, tail |-> call[t].data.position]
           /\ seen' = seen \cup {e.id : e \in ToSet(got)}
           /\ dropped' = dropped \cup {e.id : e \in ToSet(pending) \ ToSet(st.pending)}
           /\ gone' = gone \cup {e.id : e \in {f \in ToSet(got) : Tombstone(f.s)}}
           /\ mishaps' = IF \E s \in st.touched : Overtakes(t, s) THEN mishaps \cup {"record"} ELSE mishaps
           /\ Then(t, IF st.touched = {} THEN <<"release">> ELSE WriteIndex \o <<"release">>)
    /\ UNCHANGED <<trail, reg, idx, gate, erased, crashes, faults>>

Release(t) ==
    /\ Busy(t, "release") /\ gate' = None /\ Done(t)
    /\ UNCHANGED <<trail, reg, active, index, pending, rec, idx, seen, dropped, gone, erased, mishaps, crashes, faults>>

----------------------------------------------------------------------------
(* write_index: a copy made under the lock, written after it was released.  *)

Clone(t) ==
    /\ Busy(t, "clone")
    /\ call' = [call EXCEPT ![t] = [@ EXCEPT !.todo = Tail(@), !.data = index, !.outrun = FALSE]]
    /\ UNCHANGED <<trail, reg, active, index, pending, rec, idx, gate, seen, dropped, gone, erased, mishaps, crashes, faults>>

Store(t) ==
    /\ Busy(t, "store")
    /\ idx' = call[t].data
    /\ mishaps' = IF call[t].outrun THEN mishaps \cup {"index"} ELSE mishaps
    /\ call' = [u \in Threads |->
                  IF u = t THEN IF Tail(call[t].todo) = <<>> THEN Idle
                                ELSE [Call(Tail(call[t].todo), call[t].s) EXCEPT !.ids = call[t].ids]
                  ELSE IF Busy(u, "store") THEN [call[u] EXCEPT !.outrun = TRUE] ELSE call[u]]
    /\ UNCHANGED <<trail, reg, active, index, pending, rec, gate, seen, dropped, gone, erased, crashes, faults>>

(* flush: the dirty ones of some records, under the lock.                   *)
Flush(t, all) ==
    /\ Busy(t, IF all THEN "flush_dirty" ELSE "flush")
    /\ LET out == {s \in (IF all THEN Principals ELSE {call[t].s}) : active[s] # None /\ active[s].dirty}
       IN  \/ /\ rec' = [s \in Principals |-> IF s \in out THEN active[s].rec ELSE rec[s]]
              /\ active' = [s \in Principals |-> IF s \in out THEN [active[s] EXCEPT !.dirty = FALSE] ELSE active[s]]
              /\ index' = [index EXCEPT !.rows = [s \in Principals |-> IF s \in out THEN IndexRow(active[s].rec) ELSE @[s]]]
              /\ mishaps' = IF \E s \in out : Overtakes(t, s) THEN mishaps \cup {"record"} ELSE mishaps
              /\ Then(t, IF out = {} THEN <<>> ELSE WriteIndex)
              /\ UNCHANGED faults
           \/ /\ out # {} /\ faults < MaxFaults /\ faults' = faults + 1
              /\ Done(t)
              /\ UNCHANGED <<rec, active, index, mishaps>>
    /\ UNCHANGED <<trail, reg, pending, idx, gate, seen, dropped, gone, erased, crashes>>

----------------------------------------------------------------------------
(* The calls of the daemon *)

Starts(t, todo, s) == call[t] = Idle /\ call' = [call EXCEPT ![t] = Call(todo, s)]

(* handle_register has inserted the session, or a scan the detection.  The  *)
(* scan drains first, so that what its own audit events say is held.        *)
Register(t, s) ==
    /\ reg[s] = "none" /\ reg' = [reg EXCEPT ![s] = "active"]
    /\ Starts(t, (IF s \in Detections THEN <<"drain">> ELSE <<>>) \o <<"begin", "flush">>, s)
    /\ UNCHANGED <<trail, active, index, pending, rec, idx, gate, seen, dropped, gone, erased, mishaps, crashes, faults>>

(* resume_detection: the record of a detection that still runs.             *)
Resumes(s) == s \in Detections /\ ~Tombstone(s) /\ rec[s] # None /\ rec[s].status = "active"

(* begin_session, begin_detection: the record with what was held for it     *)
(* becomes the active one.  A detection whose record survived a restart is  *)
(* resumed instead.                                                         *)
Begin(t) ==
    /\ Busy(t, "begin")
    /\ LET s == call[t].s
           held == SelectSeq(pending, LAMBDA e : e.s = s)
           fresh == IF Tombstone(s) THEN NewRecord ELSE FoldLeft(Observe, NewRecord, held)
       IN  /\ IF s \in Detections /\ active[s] # None
              THEN UNCHANGED <<active, pending>>
              ELSE IF Resumes(s)
              THEN active' = [active EXCEPT ![s] = [rec |-> rec[s], dirty |-> FALSE]] /\ UNCHANGED pending
              ELSE /\ active' = [active EXCEPT ![s] = [rec |-> fresh, dirty |-> TRUE]]
                   /\ pending' = SelectSeq(pending, LAMBDA e : e.s # s)
           /\ gone' = IF Tombstone(s) THEN gone \cup {e.id : e \in ToSet(pending) \ ToSet(pending')} ELSE gone
    /\ Done(t)
    /\ UNCHANGED <<trail, reg, index, rec, idx, gate, seen, dropped, erased, mishaps, crashes, faults>>

(* The registry marked the session ended, or the detection is gone.         *)
End(t, s) ==
    /\ reg[s] = "active" /\ reg' = [reg EXCEPT ![s] = "ended"]
    /\ Starts(t, <<"drain", "remove", "prune">>, s)
    /\ UNCHANGED <<trail, active, index, pending, rec, idx, gate, seen, dropped, gone, erased, mishaps, crashes, faults>>

(* end_session, end_detection: the record leaves the active set, and only   *)
(* then, with the lock released, reaches its file and the index.            *)
TakeOut(t) ==
    /\ Busy(t, "remove")
    /\ LET s == call[t].s
       IN  IF active[s] = None THEN Done(t) /\ UNCHANGED active
           ELSE /\ active' = [active EXCEPT ![s] = None]
                /\ call' = [call EXCEPT ![t] = [@ EXCEPT !.todo = <<"put">> \o Tail(@),
                                                         !.data = [active[s].rec EXCEPT !.status = "ended"]]]
    /\ UNCHANGED <<trail, reg, index, pending, rec, idx, gate, seen, dropped, gone, erased, mishaps, crashes, faults>>

Put(t) ==
    /\ Busy(t, "put")
    /\ \/ /\ WriteRecord(call[t].s, call[t].data)
          /\ call' = [call EXCEPT ![t] = [@ EXCEPT !.todo = <<"upsert">> \o WriteIndex \o Tail(@),
                                                   !.data = IndexRow(@)]]
          /\ mishaps' = IF Overtakes(t, call[t].s) THEN mishaps \cup {"record"} ELSE mishaps
       \/ CannotWrite /\ Done(t) /\ UNCHANGED mishaps
    /\ UNCHANGED <<trail, reg, active, index, pending, idx, gate, seen, dropped, gone, erased, crashes>>

Upsert(t) ==
    /\ Busy(t, "upsert")
    /\ index' = [index EXCEPT !.rows[call[t].s] = call[t].data]
    /\ Done(t)
    /\ UNCHANGED <<trail, reg, active, pending, rec, idx, gate, seen, dropped, gone, erased, mishaps, crashes, faults>>

(* agents.scan, agents.access: refresh, then a prune.                       *)
Refresh(t) ==
    /\ Starts(t, <<"sample", "drain", "flush_dirty", "prune">>, None)
    /\ UNCHANGED <<trail, reg, active, index, pending, rec, idx, gate, seen, dropped, gone, erased, mishaps, crashes, faults>>

(* sample_active: a process not seen before makes a record dirty.           *)
Sample(t) ==
    /\ Busy(t, "sample")
    /\ \E new \in SUBSET {s \in Principals \ Detections : active[s] # None} :
         active' = [s \in Principals |-> IF s \in new THEN [active[s] EXCEPT !.dirty = TRUE] ELSE active[s]]
    /\ Done(t)
    /\ UNCHANGED <<trail, reg, index, pending, rec, idx, gate, seen, dropped, gone, erased, mishaps, crashes, faults>>

(* The inotify thread: the trail moved.                                     *)
Watch(t) ==
    /\ Starts(t, <<"drain">>, None)
    /\ UNCHANGED <<trail, reg, active, index, pending, rec, idx, gate, seen, dropped, gone, erased, mishaps, crashes, faults>>

----------------------------------------------------------------------------
(* ledger.purge by the owner *)

Knows(s) == active[s] # None \/ index.rows[s] # None

HandlePurge(t, s) ==
    /\ Knows(s)
    /\ Starts(t, <<"purge">>, s)
    /\ UNCHANGED <<trail, reg, active, index, pending, rec, idx, gate, seen, dropped, gone, erased, mishaps, crashes, faults>>

PurgeNoFloor(s) == None

(* What is left in the index: a tombstone, which later drains respect.      *)
PurgedRow(s) == "tombstone"

(* One locked region: out of the active set, the file removed, a tombstone. *)
(* When the file cannot be removed the row stays.                           *)
Purge(t) ==
    /\ Busy(t, "purge")
    /\ LET s == call[t].s
           ids == (IF active[s] = None THEN {} ELSE active[s].rec.events)
                  \cup (IF rec[s] = None THEN {} ELSE rec[s].events)
           sofar == {e.id : e \in {f \in ToSet(appended) : f.s = s}}
       IN  IF ~Knows(s) \/ Tombstone(s)
           THEN Done(t) /\ UNCHANGED <<active, rec, index, gone, mishaps, faults>>
           ELSE /\ active' = [active EXCEPT ![s] = None]
                /\ gone' = gone \cup ids
                /\ \/ /\ WriteRecord(s, None)
                      /\ index' = [index EXCEPT !.rows[s] = PurgedRow(s)]
                      /\ mishaps' = IF Overtakes(t, s) THEN mishaps \cup {"record"} ELSE mishaps
                      /\ call' = [call EXCEPT ![t] = [Call(WriteIndex \o <<"answer">>, s) EXCEPT !.ids = sofar]]
                   \/ CannotWrite /\ Done(t) /\ UNCHANGED <<index, mishaps>>
    /\ UNCHANGED <<trail, reg, pending, idx, gate, seen, dropped, erased, crashes>>

Answer(t) ==
    /\ Busy(t, "answer") /\ erased' = erased \cup call[t].ids /\ Done(t)
    /\ UNCHANGED <<trail, reg, active, index, pending, rec, idx, gate, seen, dropped, gone, mishaps, crashes, faults>>

(* prune, under the lock: rows whose retention ran out, or beyond the cap,  *)
(* go with their record; a row without a record goes.                       *)
Prune(t) ==
    /\ Busy(t, "prune")
    /\ \E out \in SUBSET {s \in Principals : index.rows[s] \in {"ended", "tombstone"} /\ reg[s] # "active"} :
         LET orphans == {s \in Principals \ out : index.rows[s] \in {"active", "ended"} /\ rec[s] = None}
         IN  /\ rec' = [s \in Principals |-> IF s \in out THEN None ELSE rec[s]]
             /\ index' = [index EXCEPT !.rows = [s \in Principals |-> IF s \in out \cup orphans THEN None ELSE @[s]]]
             /\ gone' = gone \cup UNION {rec[s].events : s \in {r \in out : rec[r] # None}}
             /\ mishaps' = IF \E s \in out : Overtakes(t, s) THEN mishaps \cup {"record"} ELSE mishaps
             /\ Then(t, IF out \cup orphans = {} THEN <<>> ELSE WriteIndex)
    /\ UNCHANGED <<trail, reg, active, pending, idx, gate, seen, dropped, erased, crashes, faults>>

----------------------------------------------------------------------------
(* ledger.network, from punar-netd: an absolute count, so a repeated report *)
(* changes nothing (observe_absolute).                                      *)
HandleLedgerNetwork(t, s) ==
    /\ Knows(s) /\ Starts(t, <<"network">>, s)
    /\ UNCHANGED <<trail, reg, active, index, pending, rec, idx, gate, seen, dropped, gone, erased, mishaps, crashes, faults>>

IngestNetwork(t) ==
    /\ Busy(t, "network")
    /\ LET s == call[t].s
       IN  CASE Tombstone(s) -> Done(t) /\ UNCHANGED active
             [] ~Tombstone(s) /\ active[s] # None ->
                  IF active[s].rec.net = 1 THEN Done(t) /\ UNCHANGED active
                  ELSE active' = [active EXCEPT ![s].rec.net = 1, ![s].dirty = TRUE] /\ Then(t, <<"flush">>)
             [] OTHER -> Then(t, <<"load">>) /\ UNCHANGED active
    /\ UNCHANGED <<trail, reg, index, pending, rec, idx, gate, seen, dropped, gone, erased, mishaps, crashes, faults>>

(* A session that ended: its file is read, and written back, with no lock.  *)
Load(t) ==
    /\ Busy(t, "load")
    /\ LET r == rec[call[t].s]
       IN  IF r = None \/ (r # None /\ r.net = 1) THEN Done(t)
           ELSE call' = [call EXCEPT ![t] = [@ EXCEPT !.todo = <<"put">> \o Tail(@), !.data = [r EXCEPT !.net = 1]]]
    /\ UNCHANGED <<trail, reg, active, index, pending, rec, idx, gate, seen, dropped, gone, erased, mishaps, crashes, faults>>

----------------------------------------------------------------------------
(* The daemon dies at any step and is started again: open reads the index,  *)
(* the registry is replayed, resume and the first scan take up the records  *)
(* of the principals that still run.                                        *)
Crash ==
    /\ crashes < MaxCrashes /\ crashes' = crashes + 1
    /\ \E died \in SUBSET {s \in Principals : reg[s] = "active"} :
         reg' = [s \in Principals |-> IF s \in died THEN "ended"
                                      ELSE IF reg[s] = "active" /\ s \in Detections THEN "none" ELSE reg[s]]
    /\ index' = idx
    /\ active' = [s \in Principals |->
                    IF s \notin Detections /\ reg'[s] = "active" /\ idx.rows[s] # "tombstone" /\ rec[s] # None
                    THEN [rec |-> rec[s], dirty |-> FALSE] ELSE None]
    /\ pending' = <<>> /\ gate' = None /\ call' = [t \in Threads |-> Idle]
    /\ UNCHANGED <<trail, rec, idx, seen, dropped, gone, erased, mishaps, faults>>

Init ==
    /\ TrailInit
    /\ reg = [s \in Principals |-> "none"] /\ active = [s \in Principals |-> None]
    /\ index = [rows |-> [s \in Principals |-> None], tail |-> [ino |-> 0, off |-> 0]]
    /\ pending = <<>> /\ rec = [s \in Principals |-> None] /\ idx = index
    /\ gate = None /\ call = [t \in Threads |-> Idle]
    /\ seen = {} /\ dropped = {} /\ gone = {} /\ erased = {} /\ mishaps = {} /\ crashes = 0 /\ faults = 0

Step(t) ==
    \/ Read(t) \/ Ingest(t) \/ Release(t) \/ Clone(t) \/ Store(t) \/ Flush(t, TRUE) \/ Flush(t, FALSE)
    \/ Begin(t) \/ TakeOut(t) \/ Put(t) \/ Upsert(t) \/ Sample(t) \/ Purge(t) \/ Answer(t) \/ Prune(t)
    \/ IngestNetwork(t) \/ Load(t)

Start(t) ==
    \/ \E s \in Principals : Register(t, s) \/ End(t, s) \/ HandlePurge(t, s) \/ HandleLedgerNetwork(t, s)
    \/ Refresh(t) \/ Watch(t)

Next ==
    \/ TrailNext /\ UNCHANGED ledger
    \/ \E t \in Threads : Step(t) \/ Start(t)
    \/ Crash

Spec == Init /\ [][Next]_vars

----------------------------------------------------------------------------
(* Answers: what punar-agentd tells of its registry and its ledger, to the   *)
(* owner, to root and to other users on the device, and, scope by scope, to  *)
(* an administrator whose question was granted.  Nothing changes.            *)

Peers == {"owner", "root", "other"}
QueryScopes == {"inventory", "authority", "resource_summary", "security_events"}

Listed(s) == reg[s] # "none"
SessionsListed == {s \in Principals \ Detections : Listed(s)}
DetectionsListed == {s \in Detections : reg[s] = "active"}

(* LedgerEngine::record_of: from memory, a shell without content for a       *)
(* tombstone, else the file.                                                *)
Shell == [NewRecord EXCEPT !.status = "purged"]
RecordOf(s) ==
    CASE active[s] # None -> active[s].rec
      [] active[s] = None /\ Tombstone(s) -> Shell
      [] OTHER -> rec[s]

(* fingerprints: a row of the index, or fresher the active record.          *)
Fingerprints == {s \in Principals : active[s] # None \/ index.rows[s] \in {"active", "ended"}}

(* list_result: every session with its counts, and the live detections,      *)
(* which have none.                                                         *)
ListResult ==
    {[row |-> s, counts |-> s \in Fingerprints] : s \in SessionsListed}
    \cup {[row |-> s, counts |-> FALSE] : s \in DetectionsListed}

(* handle_get *)
HandleGet(s) == IF s \in SessionsListed \cup DetectionsListed THEN s ELSE None

(* ledger_owner_uid: the registry's answer, else that of the ledger.  Nobody *)
(* known means root only.                                                   *)
LedgerOwner(s) ==
    IF s \in SessionsListed \cup DetectionsListed \/ Knows(s) THEN "owner" ELSE "nobody"

(* may_act_on_session *)
MayActOnSession(peer, s) == peer = "root" \/ peer = LedgerOwner(s)

(* handle_access after its refresh.  Root reading another's ledger, and a    *)
(* refusal, are audited.                                                    *)
HandleAccess(peer, s) ==
    CASE ~Knows(s) -> [answer |-> "not_found", events |-> {}, audited |-> FALSE]
      [] Knows(s) /\ ~MayActOnSession(peer, s) ->
           [answer |-> "denied", events |-> {}, audited |-> TRUE]
      [] Knows(s) /\ MayActOnSession(peer, s) /\ RecordOf(s) = None ->
           [answer |-> "not_found", events |-> {}, audited |-> FALSE]
      [] OTHER ->
           [answer |-> RecordOf(s).status, events |-> RecordOf(s).events,
            audited |-> peer = "root" /\ LedgerOwner(s) = "owner"]

----------------------------------------------------------------------------
(* An administrator's question, possibly narrowed to one session.           *)

Narrow(all, narrow) == IF narrow = None THEN all ELSE all \cap {narrow}

(* all_sessions: what the index knows and the user has not purged.          *)
AllSessions == {s \in Principals : index.rows[s] \in {"active", "ended"}}

(* narrowed_sessions filters the sessions an open question would cover.     *)
NarrowedSessions(narrow) == Narrow(AllSessions, narrow)

(* project_inventory: a row for each session and detection, counted by kind. *)
ProjectInventory(narrow) ==
    {[about |-> s, kind |-> IF s \in Detections THEN "suspected" ELSE "session",
      live |-> reg[s] = "active"] : s \in Narrow(SessionsListed \cup DetectionsListed, narrow)}

(* project_authority: sessions alone have an authority to read back.        *)
ProjectAuthority(narrow) ==
    {[about |-> s, kind |-> "authority"] : s \in Narrow(SessionsListed, narrow)}

(* project_resource_summary *)
ProjectResourceSummary(narrow) ==
    {[about |-> s, kind |-> "summary", events |-> RecordOf(s).events] :
        s \in {t \in NarrowedSessions(narrow) : RecordOf(t) # None}}

(* project_security_events: references, and no more of an event.            *)
ProjectSecurityEvents(narrow) ==
    UNION {{[about |-> s, kind |-> "reference", events |-> {e}] : e \in RecordOf(s).events} :
        s \in {t \in NarrowedSessions(narrow) : RecordOf(t) # None}}

(* project_answer *)
ProjectAnswer(scope, narrow) ==
    CASE scope = "inventory" -> ProjectInventory(narrow)
      [] scope = "authority" -> ProjectAuthority(narrow)
      [] scope = "resource_summary" -> ProjectResourceSummary(narrow)
      [] scope = "security_events" -> ProjectSecurityEvents(narrow)

(* An administrator's question narrowed to a session never brings up more    *)
(* than the open question, nothing of an answer is hidden from the owner of  *)
(* the ledger, and an answered purge is not undone by asking (server.rs,     *)
(* narrowed_sessions, handle_access).                                       *)
AnswersAreTheOwners ==
    \A scope \in QueryScopes, narrow \in Principals \cup {None} :
        /\ ProjectAnswer(scope, narrow) \subseteq ProjectAnswer(scope, None)
        /\ scope \in {"resource_summary", "security_events"} =>
             \A row \in ProjectAnswer(scope, narrow) :
                /\ row.events \subseteq HandleAccess("owner", row.about).events
                /\ mishaps = {} => row.events \cap erased = {}
        /\ scope \in {"inventory", "authority"} =>
             \A row \in ProjectAnswer(scope, narrow) :
                \E listed \in ListResult : listed.row = HandleGet(row.about)

----------------------------------------------------------------------------
(* Properties *)

Held == {e.id : e \in ToSet(pending)}
InFlight == UNION {call[t].data.events : t \in {u \in Threads : Busy(u, "put")}}
Ledgers == UNION {active[s].rec.events : s \in {r \in Principals : active[r] # None}}
           \cup UNION {rec[s].events : s \in {r \in Principals : rec[r] # None}}

(* What a drain read is never silently lost: it is held until its principal *)
(* begins, in a ledger, on its way to one, or it was pushed out of the      *)
(* bounded queue or deleted on purpose; across threads that drain, end,     *)
(* flush, prune and purge, while no record is written from a stale copy.    *)
EventsKept ==
    crashes = 0 /\ faults = 0 /\ "record" \notin mishaps
    => /\ seen \subseteq Held \cup Ledgers \cup InFlight \cup dropped \cup gone
       /\ \A e \in ToSet(pending) : active[e.s] = None

Credentials(s) == Cardinality({e \in ToSet(appended) : e.s = s /\ e.cred})

(* The drain gate does its work: two threads that drain at the same time    *)
(* never count one credential use twice, as long as the daemon stays up.    *)
NoDoubleCount ==
    crashes = 0 => \A s \in Principals :
      /\ active[s] # None => active[s].rec.creds <= Credentials(s)
      /\ rec[s] # None => rec[s].creds <= Credentials(s)

(* A purge that was answered holds: what happened before it is in no ledger *)
(* again, although the trail still has it, later drains come to it, also    *)
(* after a crash, and the detection it belongs to may still run.            *)
PurgeHolds == mishaps = {} => erased \cap Ledgers = {}

(* Every event is kept in the trail until it is read, is then counted, and   *)
(* counted once, whoever writes, drains, ends, flushes, prunes or purges.    *)
CountedOnce == TrailKeepsRecent /\ EventsKept /\ NoDoubleCount

(* A ledger belongs to the person it is about: what they purged stays gone,  *)
(* and no answer to the organization shows more than they see themselves.    *)
LedgerIsTheOwners == PurgeHolds /\ AnswersAreTheOwners
=============================================================================
