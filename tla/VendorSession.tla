--------------------------- MODULE VendorSession ---------------------------
(***************************************************************************)
(* Opening a vendor application (punarctl app open).  Every launch is a    *)
(* supervisor process of its own; it hands its callback to the session of  *)
(* an earlier launch if it can, and otherwise starts a filtered bus and a  *)
(* sandbox, whose first process owns the callback socket in the directory  *)
(* all launches of the application share.  Processes meet only in that     *)
(* directory: the socket and the bus-<pid> files.                          *)
(***************************************************************************)
EXTENDS Integers, FiniteSets, Sequences, TLAPS

CONSTANTS
    Launches,       \* the launches of one application, each with one callback
    RelayTries,     \* retries while another session is starting
    MaxKills,       \* bound: supervisors killed
    MaxRefusals,    \* bound: tools that fail and answers that come too late
    Nobody

VARIABLES
    launch,         \* the supervisor of each launch
    session,        \* the session in its sandbox, if any
    socket,         \* the launch whose session bound punar-vendor-session.sock
    backlog,        \* connections a session has not accepted, oldest first
    answer,         \* the byte sent on the connection of a launch
    buses,          \* launches whose bus-<pid> file exists
    instances,      \* history: processes started with the callback of a launch
    kills, refusals

vendorVars == <<launch, session, socket, backlog, answer, buses, instances, kills, refusals>>

ASSUME VendorAssumption ==
    /\ IsFiniteSet(Launches) /\ Nobody \notin Launches
    /\ RelayTries \in Nat /\ MaxKills \in Nat /\ MaxRefusals \in Nat

Opened == {"relayed", "closed"}
Settled == Opened \cup {"error", "killed"}
VendorInit ==
    /\ launch = [l \in Launches |-> [pc |-> "new", tries |-> 0, outcome |-> "closed"]]
    /\ session = [l \in Launches |-> "none"]
    /\ socket = Nobody
    /\ backlog = [l \in Launches |-> <<>>]
    /\ answer = [l \in Launches |-> "none"]
    /\ buses = {}
    /\ instances = [l \in Launches |-> 0]
    /\ kills = 0 /\ refusals = 0

LaunchAt(l, pc) == launch[l].pc = pc
GoOn(l, pc) == launch' = [launch EXCEPT ![l].pc = pc]
Listening(l) == session[l] \in {"spawn", "run", "close"}
Refuse == refusals < MaxRefusals /\ refusals' = refusals + 1

-----------------------------------------------------------------------------
\* punarctl app open

\* app_open, spawn_vendor_supervisor and app_run_vendor: the supervisor has the
\* callback on its stdin, or is killed and the launch reported as failed.
AppOpen(l) ==
    /\ LaunchAt(l, "new")
    /\ \/ GoOn(l, "inspect") /\ UNCHANGED refusals
       \/ GoOn(l, "error") /\ Refuse
    /\ UNCHANGED <<session, socket, backlog, answer, buses, instances, kills>>

\* Where a relay that found nobody goes on: to look for a session that is only
\* starting, or to the next of its tries.
NobodyThere(l) ==
    IF launch[l].tries = 0 THEN GoOn(l, "scan")
    ELSE launch' = [launch EXCEPT
                        ![l].pc = IF launch[l].tries < RelayTries THEN "inspect" ELSE "error",
                        ![l].tries = @ + 1]

-----------------------------------------------------------------------------
\* relay_vendor_callbacks

RelayInspect(l) ==
    /\ LaunchAt(l, "inspect")
    /\ IF socket = Nobody THEN NobodyThere(l) ELSE GoOn(l, "connect")
    /\ UNCHANGED <<session, socket, backlog, answer, buses, instances, kills, refusals>>

\* The connection waits in the backlog until the session accepts it; without a
\* listener, or without the file, connect fails.
RelayConnect(l) ==
    /\ LaunchAt(l, "connect")
    /\ IF socket # Nobody /\ Listening(socket)
       THEN /\ backlog' = [backlog EXCEPT ![socket] = Append(@, l)]
            /\ GoOn(l, "ack")
       ELSE GoOn(l, "unlink") /\ UNCHANGED backlog
    /\ UNCHANGED <<session, socket, answer, buses, instances, kills, refusals>>

\* What is removed as stale is whatever has the name by now.
RelayRemoveStale(l) ==
    /\ LaunchAt(l, "unlink")
    /\ IF socket = Nobody
       THEN GoOn(l, "error") /\ UNCHANGED socket
       ELSE socket' = Nobody /\ NobodyThere(l)
    /\ UNCHANGED <<session, backlog, answer, buses, instances, kills, refusals>>

\* Mutant: an answer that does not come is taken for a session that is not there.
RelayAckOrRetry(l) ==
    /\ LaunchAt(l, "ack")
    /\ \/ answer[l] = "1" /\ GoOn(l, "relayed") /\ UNCHANGED refusals
       \/ answer[l] \in {"0", "eof"} /\ GoOn(l, "error") /\ UNCHANGED refusals
       \/ answer[l] = "none" /\ Refuse /\ NobodyThere(l)
    /\ UNCHANGED <<session, socket, backlog, answer, buses, instances, kills>>

\* Only the byte "1" is success; a rejection, a closed connection and three
\* seconds without an answer are errors.
RelayAck(l) ==
    /\ LaunchAt(l, "ack")
    /\ \/ answer[l] = "1" /\ GoOn(l, "relayed") /\ UNCHANGED refusals
       \/ answer[l] \in {"0", "eof"} /\ GoOn(l, "error") /\ UNCHANGED refusals
       \/ answer[l] = "none" /\ Refuse /\ GoOn(l, "error")
    /\ UNCHANGED <<session, socket, backlog, answer, buses, instances, kills>>

Relay(l) == RelayInspect(l) \/ RelayConnect(l) \/ RelayRemoveStale(l) \/ RelayAck(l)

-----------------------------------------------------------------------------
\* supervise_vendor_app

\* Any bus-* file means that another session is starting.
ScanForStarting(l) ==
    /\ LaunchAt(l, "scan")
    /\ IF buses = {} THEN GoOn(l, "proxy")
       ELSE launch' = [launch EXCEPT ![l].pc = IF RelayTries = 0 THEN "error" ELSE "inspect",
                                     ![l].tries = 1]
    /\ UNCHANGED <<session, socket, backlog, answer, buses, instances, kills, refusals>>

\* The proxy makes the bus file and says that it is ready, within five seconds.
StartFilteredBus(l) ==
    /\ LaunchAt(l, "proxy")
    /\ \/ buses' = buses \cup {l} /\ GoOn(l, "enter") /\ UNCHANGED refusals
       \/ /\ Refuse
          /\ buses' \in {buses, buses \cup {l}}
          /\ launch' = [launch EXCEPT ![l].pc = "reap", ![l].outcome = "error"]
    /\ UNCHANGED <<session, socket, backlog, answer, instances, kills>>

\* vendor_app_command and the sandbox: bubblewrap starts run_vendor_session,
\* which is handed the callback on its stdin.
EnterSandbox(l) ==
    /\ LaunchAt(l, "enter")
    /\ \/ /\ session' = [session EXCEPT ![l] = "clear"]
          /\ GoOn(l, "wait")
          /\ UNCHANGED refusals
       \/ /\ Refuse
          /\ launch' = [launch EXCEPT ![l].pc = "reap", ![l].outcome = "error"]
          /\ UNCHANGED session
    /\ UNCHANGED <<socket, backlog, answer, buses, instances, kills>>

WaitForSandbox(l) ==
    /\ LaunchAt(l, "wait")
    /\ session[l] \in {"ended", "failed"}
    /\ launch' = [launch EXCEPT ![l].pc = "reap",
                                ![l].outcome = IF session[l] = "ended" THEN @ ELSE "error"]
    /\ UNCHANGED <<session, socket, backlog, answer, buses, instances, kills, refusals>>

\* The proxy ends, its bus file is removed, and the outcome is returned.
ReapFilteredBus(l) ==
    /\ LaunchAt(l, "reap")
    /\ buses' = buses \ {l}
    /\ GoOn(l, launch[l].outcome)
    /\ UNCHANGED <<session, socket, backlog, answer, instances, kills, refusals>>

Supervise(l) == \/ ScanForStarting(l) \/ StartFilteredBus(l) \/ EnterSandbox(l)
                \/ WaitForSandbox(l) \/ ReapFilteredBus(l)

-----------------------------------------------------------------------------
\* run_vendor_session

SessionClear(l) ==
    /\ session[l] = "clear"
    /\ socket' = Nobody
    /\ session' = [session EXCEPT ![l] = "bind"]
    /\ UNCHANGED <<launch, backlog, answer, buses, instances, kills, refusals>>

\* bind fails if somebody else has the name by now.
SessionBind(l) ==
    /\ session[l] = "bind"
    /\ IF socket = Nobody
       THEN socket' = l /\ session' = [session EXCEPT ![l] = "spawn"]
       ELSE session' = [session EXCEPT ![l] = "failed"] /\ UNCHANGED socket
    /\ UNCHANGED <<launch, backlog, answer, buses, instances, kills, refusals>>

\* A session that ends drops its listener: whoever waits there reads the end
\* of the connection.
Hangup(l) ==
    /\ answer' = [m \in Launches |-> IF \E i \in 1 .. Len(backlog[l]) : backlog[l][i] = m THEN "eof" ELSE answer[m]]
    /\ backlog' = [backlog EXCEPT ![l] = <<>>]

\* spawn_vendor_instance for the first callback; an error leaves the socket file.
SessionSpawn(l) ==
    /\ session[l] = "spawn"
    /\ \/ /\ instances' = [instances EXCEPT ![l] = @ + 1]
          /\ session' = [session EXCEPT ![l] = "run"]
          /\ UNCHANGED <<backlog, answer, refusals>>
       \/ /\ Refuse /\ Hangup(l)
          /\ session' = [session EXCEPT ![l] = "failed"]
          /\ UNCHANGED instances
    /\ UNCHANGED <<launch, socket, buses, kills>>

\* One connection at a time: its callback starts one more instance, then the
\* answer is written, whether or not the supervisor still waits for it.
SessionAccept(l) ==
    /\ session[l] = "run" /\ backlog[l] # <<>>
    /\ LET m == Head(backlog[l])
       IN \/ /\ instances' = [instances EXCEPT ![m] = @ + 1]
             /\ answer' = [answer EXCEPT ![m] = "1"]
             /\ UNCHANGED refusals
          \/ /\ answer' = [answer EXCEPT ![m] = "0"]
             /\ Refuse /\ UNCHANGED instances
    /\ backlog' = [backlog EXCEPT ![l] = Tail(@)]
    /\ UNCHANGED <<launch, session, socket, buses, kills>>

\* The application exits: the loop ends at its next turn, ...
PrimaryExits(l) ==
    /\ session[l] = "run"
    /\ session' = [session EXCEPT ![l] = "close"]
    /\ UNCHANGED <<launch, socket, backlog, answer, buses, instances, kills, refusals>>

\* ... the name is removed, whoever has it, and the listener goes with the process.
SessionClose(l) ==
    /\ session[l] = "close"
    /\ socket' = Nobody
    /\ session' = [session EXCEPT ![l] = "ended"]
    /\ Hangup(l)
    /\ UNCHANGED <<launch, buses, instances, kills, refusals>>

Session(l) == \/ SessionClear(l) \/ SessionBind(l) \/ SessionSpawn(l)
              \/ SessionAccept(l) \/ SessionClose(l)

\* A killed supervisor takes its sandbox (--die-with-parent) and its proxy with
\* it; the bus file and the socket file stay.
KillSupervisor(l) ==
    /\ kills < MaxKills /\ kills' = kills + 1
    /\ ~LaunchAt(l, "new") /\ launch[l].pc \notin Settled
    /\ GoOn(l, "killed")
    /\ session' = [session EXCEPT ![l] = IF @ = "none" THEN @ ELSE "killed"]
    /\ Hangup(l)
    /\ UNCHANGED <<socket, buses, instances, refusals>>

-----------------------------------------------------------------------------
VendorStep(l) == Relay(l) \/ Supervise(l) \/ Session(l)
VendorNext == \E l \in Launches : AppOpen(l) \/ VendorStep(l) \/ PrimaryExits(l)
                                  \/ KillSupervisor(l)
VendorSpec == VendorInit /\ [][VendorNext]_vendorVars

-----------------------------------------------------------------------------
\* A callback starts at most one process of the application, and exactly one
\* when its launch reports success: through a session that is going away, a
\* socket that changes hands and an answer that comes too late
\* (relay_vendor_callbacks, run_vendor_session).
CallbackOnce ==
    \A l \in Launches :
        /\ instances[l] <= 1
        /\ launch[l].pc \in Opened => instances[l] = 1

-----------------------------------------------------------------------------
(* CallbackOnce for any number of launches, retries, kills and refusals.     *)
(* The invariant says where a callback is: with its supervisor, waiting in   *)
(* one place of one backlog, or spent; a callback that waits has started     *)
(* nothing, and one whose supervisor still looks for a session waits nowhere. *)

Looking == {"new", "inspect", "connect", "unlink", "scan", "proxy", "enter"}
LaunchStates == [pc : Looking \cup {"ack", "relayed", "error", "wait", "reap", "closed", "killed"},
                 tries : Nat, outcome : {"closed", "error"}]
SessionStates == {"none", "clear", "bind", "spawn", "run", "close", "ended", "failed", "killed"}

VendorTypeOK ==
    /\ launch \in [Launches -> LaunchStates]
    /\ session \in [Launches -> SessionStates]
    /\ socket \in Launches \cup {Nobody}
    /\ backlog \in [Launches -> Seq(Launches)]
    /\ answer \in [Launches -> {"none", "0", "1", "eof"}]
    /\ instances \in [Launches -> Nat]

\* Nobody waits twice.
WaitsOnce ==
    \A m, n \in Launches : \A i \in 1 .. Len(backlog[m]), j \in 1 .. Len(backlog[n]) :
        backlog[m][i] = backlog[n][j] => m = n /\ i = j

\* Who waits has handed the callback over and nothing has come of it yet.
Waits(l) == /\ launch[l].pc \notin Looking /\ session[l] = "none"
            /\ answer[l] = "none"
WaitingIsUnserved ==
    \A m \in Launches : \A i \in 1 .. Len(backlog[m]) : Waits(backlog[m][i])

\* What became of the callback of one launch.
Accounted(l) ==
    /\ session[l] = "none" => instances[l] = IF answer[l] = "1" THEN 1 ELSE 0
    /\ session[l] \in {"clear", "bind", "spawn", "failed"} => instances[l] = 0
    /\ session[l] \in {"run", "close", "ended"} => instances[l] = 1
    /\ instances[l] <= 1
    /\ session[l] # "none" => answer[l] = "none"
    /\ launch[l].pc \in Looking => session[l] = "none" /\ answer[l] = "none"
    /\ launch[l].pc \in {"ack", "relayed"} => session[l] = "none"
    /\ launch[l].pc = "relayed" => answer[l] = "1"
    /\ launch[l].pc = "closed" => session[l] = "ended"
    /\ launch[l].pc = "reap" /\ launch[l].outcome = "closed" => session[l] = "ended"

VendorSafe ==
    /\ VendorTypeOK
    /\ WaitsOnce
    /\ WaitingIsUnserved
    /\ \A l \in Launches : Accounted(l)

LEMMA VendorInitSafe == VendorInit => VendorSafe
<1> SUFFICES ASSUME VendorInit PROVE VendorSafe
    OBVIOUS
<1>1. VendorTypeOK
    BY DEF VendorInit, VendorTypeOK, LaunchStates, Looking, SessionStates
<1>2. \A m \in Launches : Len(backlog[m]) = 0
    BY DEF VendorInit
<1>3. WaitsOnce /\ WaitingIsUnserved
    BY <1>2 DEF WaitsOnce, WaitingIsUnserved
<1>4. ASSUME NEW l \in Launches PROVE Accounted(l)
    BY DEF VendorInit, Accounted, Looking
<1> QED
    BY <1>1, <1>3, <1>4 DEF VendorSafe

\* A step of a supervisor that only moves its own launch on, and not back to
\* looking for a session.
LEMMA Moves ==
    ASSUME VendorSafe, NEW l \in Launches, NEW new \in LaunchStates,
           launch' = [launch EXCEPT ![l] = new],
           UNCHANGED <<session, backlog, answer, instances>>,
           socket' \in {socket, Nobody},
           new.pc \in Looking => launch[l].pc \in Looking,
           new.pc = "ack" => launch[l].pc = "ack",
           new.pc = "relayed" => session[l] = "none" /\ answer[l] = "1",
           new.pc = "closed" \/ (new.pc = "reap" /\ new.outcome = "closed") => session[l] = "ended"
    PROVE  VendorSafe'
<1> USE DEF VendorSafe
<1>1. VendorTypeOK'
    BY DEF VendorTypeOK
<1>2. /\ launch'[l] = new
      /\ \A m \in Launches : m # l => launch'[m] = launch[m]
    BY DEF VendorTypeOK
<1>3. WaitsOnce'
    BY DEF WaitsOnce
<1>4. WaitingIsUnserved'
    <2>1. \A m \in Launches : \A i \in 1 .. Len(backlog[m]) : backlog[m][i] \in Launches
        BY DEF VendorTypeOK
    <2>2. ASSUME NEW m \in Launches, Waits(m) PROVE Waits(m)'
        BY <1>2, <2>2 DEF Waits
    <2> QED
        BY <2>1, <2>2 DEF WaitingIsUnserved
<1>5. ASSUME NEW m \in Launches PROVE Accounted(m)'
    <2>1. CASE m = l
        BY <1>2, <2>1 DEF Accounted
    <2>2. CASE m # l
        BY <1>2, <2>2 DEF Accounted
    <2> QED
        BY <2>1, <2>2
<1> QED
    BY <1>1, <1>3, <1>4, <1>5

LEMMA Typed ==
    ASSUME VendorSafe, NEW l \in Launches
    PROVE  /\ launch[l] \in LaunchStates /\ session[l] \in SessionStates
           /\ backlog[l] \in Seq(Launches) /\ instances[l] \in Nat
           /\ answer[l] \in {"none", "0", "1", "eof"}
           /\ Accounted(l)
    BY DEF VendorSafe, VendorTypeOK

LEMMA ToNext ==
    ASSUME VendorSafe, NEW l \in Launches, NobodyThere(l)
    PROVE  \E new \in LaunchStates : launch' = [launch EXCEPT ![l] = new] /\ new.pc \in {"scan", "inspect", "error"}
<1>1. CASE launch[l].tries = 0
    <2> DEFINE new == [launch[l] EXCEPT !.pc = "scan"]
    <2>1. new \in LaunchStates /\ new.pc = "scan"
        BY Typed DEF LaunchStates, Looking
    <2>2. launch' = [launch EXCEPT ![l] = new]
        BY <1>1 DEF NobodyThere, GoOn
    <2> QED
        BY <2>1, <2>2
<1>2. CASE launch[l].tries # 0
    <2> DEFINE pc == IF launch[l].tries < RelayTries THEN "inspect" ELSE "error"
               new == [launch[l] EXCEPT !.pc = pc, !.tries = @ + 1]
    <2>1. pc \in {"inspect", "error"}
        OBVIOUS
    <2>2. launch' = [launch EXCEPT ![l] = new]
        BY <1>2 DEF NobodyThere, VendorSafe, VendorTypeOK
    <2> HIDE DEF pc
    <2>3. launch[l].tries + 1 \in Nat
        BY Typed DEF LaunchStates
    <2>4. new \in LaunchStates /\ new.pc = pc
        <3>1. [launch[l] EXCEPT !.pc = pc] \in LaunchStates
            BY <2>1, Typed DEF LaunchStates, Looking
        <3>2. new = [[launch[l] EXCEPT !.pc = pc] EXCEPT !.tries = launch[l].tries + 1]
            BY Typed DEF LaunchStates
        <3> QED
            BY <2>3, <3>1, <3>2 DEF LaunchStates
    <2> QED
        BY <2>1, <2>2, <2>4
<1> QED
    BY <1>1, <1>2

\* GoOn, as a step of Moves.
LEMMA ToPc ==
    ASSUME VendorSafe, NEW l \in Launches, NEW pc \in Looking \cup {"ack", "relayed", "error", "wait",
                "reap", "closed", "killed"}, GoOn(l, pc)
    PROVE  \E new \in LaunchStates :
              launch' = [launch EXCEPT ![l] = new] /\ new.pc = pc /\ new.outcome = launch[l].outcome
<1> DEFINE new == [launch[l] EXCEPT !.pc = pc]
<1>1. new \in LaunchStates /\ new.pc = pc /\ new.outcome = launch[l].outcome
    BY Typed DEF LaunchStates
<1>2. launch' = [launch EXCEPT ![l] = new]
    BY DEF GoOn
<1> QED
    BY <1>1, <1>2

-----------------------------------------------------------------------------
LEMMA SafeAppOpen ==
    ASSUME VendorSafe, NEW l \in Launches, AppOpen(l)
    PROVE  VendorSafe'
<1>1. PICK pc \in {"inspect", "error"} : GoOn(l, pc)
    BY DEF AppOpen
<1>2. PICK new \in LaunchStates : launch' = [launch EXCEPT ![l] = new] /\ new.pc = pc
    BY <1>1, ToPc DEF Looking
<1>3. launch[l].pc \in Looking /\ UNCHANGED <<session, backlog, answer, instances, socket>>
    BY DEF AppOpen, LaunchAt, Looking
<1> QED
    BY <1>1, <1>2, <1>3, Moves

LEMMA SafeInspect ==
    ASSUME VendorSafe, NEW l \in Launches, RelayInspect(l)
    PROVE  VendorSafe'
<1>1. launch[l].pc \in Looking /\ UNCHANGED <<session, backlog, answer, instances, socket>>
    BY DEF RelayInspect, LaunchAt, Looking
<1>2. CASE NobodyThere(l)
    <2>1. PICK new \in LaunchStates :
              launch' = [launch EXCEPT ![l] = new] /\ new.pc \in {"scan", "inspect", "error"}
        BY <1>2, ToNext
    <2> QED
        BY <1>1, <2>1, Moves
<1>3. CASE GoOn(l, "connect")
    <2>1. PICK new \in LaunchStates : launch' = [launch EXCEPT ![l] = new] /\ new.pc = "connect"
        BY <1>3, ToPc DEF Looking
    <2> QED
        BY <1>1, <2>1, Moves
<1> QED
    BY <1>2, <1>3 DEF RelayInspect

\* A connection joins a backlog: its callback was with its supervisor until now.
LEMMA SafeConnect ==
    ASSUME VendorSafe, NEW l \in Launches, RelayConnect(l)
    PROVE  VendorSafe'
<1>1. launch[l].pc \in Looking /\ UNCHANGED <<session, answer, instances, socket>>
    BY DEF RelayConnect, LaunchAt, Looking
<1>2. CASE GoOn(l, "unlink") /\ UNCHANGED backlog
    <2>1. PICK new \in LaunchStates : launch' = [launch EXCEPT ![l] = new] /\ new.pc = "unlink"
        BY <1>2, ToPc DEF Looking
    <2> QED
        BY <1>1, <1>2, <2>1, Moves
<1>3. CASE socket # Nobody /\ backlog' = [backlog EXCEPT ![socket] = Append(@, l)] /\ GoOn(l, "ack")
    <2>1. PICK new \in LaunchStates :
              launch' = [launch EXCEPT ![l] = new] /\ new.pc = "ack"
        BY <1>3, ToPc DEF Looking
    <2>2. socket \in Launches /\ backlog[socket] \in Seq(Launches)
        BY <1>3 DEF VendorSafe, VendorTypeOK
    <2> DEFINE q == Append(backlog[socket], l)
    <2>3. /\ q \in Seq(Launches) /\ Len(q) = Len(backlog[socket]) + 1
          /\ \A i \in 1 .. Len(backlog[socket]) : q[i] = backlog[socket][i]
          /\ q[Len(q)] = l
        BY <2>2
    <2>4. /\ backlog'[socket] = q
          /\ \A m \in Launches : m # socket => backlog'[m] = backlog[m]
          /\ backlog' \in [Launches -> Seq(Launches)]
        BY <1>3, <2>2, <2>3 DEF VendorSafe, VendorTypeOK
    <2>5. /\ launch'[l] = new /\ launch' \in [Launches -> LaunchStates]
          /\ \A m \in Launches : m # l => launch'[m] = launch[m]
        BY <2>1 DEF VendorSafe, VendorTypeOK
    <2>6. session[l] = "none" /\ answer[l] = "none"
        BY <1>1, Typed DEF Accounted
    <2>7. \A m \in Launches : \A i \in 1 .. Len(backlog[m]) : backlog[m][i] # l /\ backlog[m][i] \in Launches
        BY <1>1 DEF VendorSafe, WaitingIsUnserved, Waits, VendorTypeOK
    <2>8. \A m \in Launches : Len(backlog[m]) \in Nat
        BY DEF VendorSafe, VendorTypeOK
    <2> HIDE DEF q
    <2>9. ASSUME NEW m \in Launches, NEW i \in 1 .. Len(backlog'[m])
          PROVE  \/ i \in 1 .. Len(backlog[m]) /\ backlog'[m][i] = backlog[m][i]
                 \/ m = socket /\ i = Len(q) /\ backlog'[m][i] = l
        <3>1. CASE m = socket
            <4>1. i \in 1 .. Len(q) /\ Len(backlog[socket]) \in Nat
                BY <2>2, <2>4, <2>8, <3>1
            <4>2. i \in 1 .. Len(backlog[socket]) \/ i = Len(q)
                BY <2>3, <4>1
            <4> QED
                BY <2>3, <2>4, <3>1, <4>2
        <3>2. CASE m # socket
            BY <2>4, <3>2
        <3> QED
            BY <3>1, <3>2
    <2>10. VendorTypeOK'
        BY <1>1, <2>4, <2>5 DEF VendorSafe, VendorTypeOK
    <2>11. WaitsOnce'
        <3> SUFFICES ASSUME NEW m \in Launches, NEW n \in Launches, NEW i \in 1 .. Len(backlog'[m]),
                            NEW j \in 1 .. Len(backlog'[n]), backlog'[m][i] = backlog'[n][j]
                     PROVE  m = n /\ i = j
            BY DEF WaitsOnce
        <3>1. \/ i \in 1 .. Len(backlog[m]) /\ backlog'[m][i] = backlog[m][i]
              \/ m = socket /\ i = Len(q) /\ backlog'[m][i] = l
            BY <2>9
        <3>2. \/ j \in 1 .. Len(backlog[n]) /\ backlog'[n][j] = backlog[n][j]
              \/ n = socket /\ j = Len(q) /\ backlog'[n][j] = l
            BY <2>9
        <3> QED
            BY <2>7, <3>1, <3>2 DEF VendorSafe, WaitsOnce
    <2>12. WaitingIsUnserved'
        <3> SUFFICES ASSUME NEW m \in Launches, NEW i \in 1 .. Len(backlog'[m])
                     PROVE  Waits(backlog[m][i])'
            BY DEF WaitingIsUnserved
        <3>1. CASE i \in 1 .. Len(backlog[m]) /\ backlog'[m][i] = backlog[m][i]
            BY <1>1, <2>5, <2>7, <3>1 DEF VendorSafe, WaitingIsUnserved, Waits
        <3>2. CASE backlog'[m][i] = l
            BY <1>1, <2>1, <2>5, <2>6, <3>2 DEF Waits, Looking
        <3> QED
            BY <2>9, <3>1, <3>2
    <2>13. ASSUME NEW m \in Launches PROVE Accounted(m)'
        <3>1. CASE m = l
            BY <1>1, <2>1, <2>5, <2>6, <3>1 DEF VendorSafe, Accounted, Looking
        <3>2. CASE m # l
            BY <1>1, <2>5, <3>2 DEF VendorSafe, Accounted
        <3> QED
            BY <3>1, <3>2
    <2> QED
        BY <2>10, <2>11, <2>12, <2>13 DEF VendorSafe
<1> QED
    BY <1>2, <1>3 DEF RelayConnect

LEMMA SafeRemoveStale ==
    ASSUME VendorSafe, NEW l \in Launches, RelayRemoveStale(l)
    PROVE  VendorSafe'
<1>1. launch[l].pc \in Looking /\ UNCHANGED <<session, backlog, answer, instances>>
    BY DEF RelayRemoveStale, LaunchAt, Looking
<1>2. CASE GoOn(l, "error") /\ UNCHANGED socket
    <2>1. PICK new \in LaunchStates : launch' = [launch EXCEPT ![l] = new] /\ new.pc = "error"
        BY <1>2, ToPc DEF Looking
    <2> QED
        BY <1>1, <1>2, <2>1, Moves DEF Looking
<1>3. CASE socket' = Nobody /\ NobodyThere(l)
    <2>1. PICK new \in LaunchStates :
              launch' = [launch EXCEPT ![l] = new] /\ new.pc \in {"scan", "inspect", "error"}
        BY <1>3, ToNext
    <2> QED
        BY <1>1, <1>3, <2>1, Moves
<1> QED
    BY <1>2, <1>3 DEF RelayRemoveStale

LEMMA SafeAck ==
    ASSUME VendorSafe, NEW l \in Launches, RelayAck(l)
    PROVE  VendorSafe'
<1>1. /\ launch[l].pc = "ack" /\ session[l] = "none"
      /\ UNCHANGED <<session, backlog, answer, instances, socket>>
    BY Typed DEF RelayAck, LaunchAt, Accounted
<1>2. PICK pc \in {"relayed", "error"} : GoOn(l, pc) /\ (pc = "relayed" => answer[l] = "1")
    BY DEF RelayAck
<1>3. PICK new \in LaunchStates : launch' = [launch EXCEPT ![l] = new] /\ new.pc = pc
    BY <1>2, ToPc DEF Looking
<1> QED
    BY <1>1, <1>2, <1>3, Moves DEF Looking

LEMMA SafeScan ==
    ASSUME VendorSafe, NEW l \in Launches, ScanForStarting(l)
    PROVE  VendorSafe'
<1>1. launch[l].pc \in Looking /\ UNCHANGED <<session, backlog, answer, instances, socket>>
    BY DEF ScanForStarting, LaunchAt, Looking
<1>2. CASE GoOn(l, "proxy")
    <2>1. PICK new \in LaunchStates : launch' = [launch EXCEPT ![l] = new] /\ new.pc = "proxy"
        BY <1>2, ToPc DEF Looking
    <2> QED
        BY <1>1, <2>1, Moves
<1>3. CASE buses # {}
    <2> DEFINE pc == IF RelayTries = 0 THEN "error" ELSE "inspect"
               new == [launch[l] EXCEPT !.pc = pc, !.tries = 1]
    <2>1. pc \in {"error", "inspect"}
        OBVIOUS
    <2>2. launch' = [launch EXCEPT ![l] = new]
        BY <1>3 DEF ScanForStarting, VendorSafe, VendorTypeOK
    <2> HIDE DEF pc
    <2>3. new \in LaunchStates /\ new.pc = pc
        BY <2>1, Typed DEF LaunchStates, Looking
    <2> QED
        BY <1>1, <2>1, <2>2, <2>3, Moves
<1> QED
    BY <1>2, <1>3 DEF ScanForStarting

\* A refusal on the way to the sandbox: the launch fails once its bus is gone.
LEMMA GivesUp ==
    ASSUME VendorSafe, NEW l \in Launches, launch[l].pc \in Looking,
           launch' = [launch EXCEPT ![l].pc = "reap", ![l].outcome = "error"],
           UNCHANGED <<session, backlog, answer, instances, socket>>
    PROVE  VendorSafe'
<1> DEFINE new == [launch[l] EXCEPT !.pc = "reap", !.outcome = "error"]
<1>1. new \in LaunchStates /\ new.pc = "reap" /\ new.outcome = "error"
    BY Typed DEF LaunchStates
<1>2. launch' = [launch EXCEPT ![l] = new]
    BY DEF VendorSafe, VendorTypeOK
<1> QED
    BY <1>1, <1>2, Moves DEF Looking

LEMMA SafeBus ==
    ASSUME VendorSafe, NEW l \in Launches, StartFilteredBus(l)
    PROVE  VendorSafe'
<1>1. launch[l].pc \in Looking /\ UNCHANGED <<session, backlog, answer, instances, socket>>
    BY DEF StartFilteredBus, LaunchAt, Looking
<1>2. CASE GoOn(l, "enter")
    <2>1. PICK new \in LaunchStates : launch' = [launch EXCEPT ![l] = new] /\ new.pc = "enter"
        BY <1>2, ToPc DEF Looking
    <2> QED
        BY <1>1, <2>1, Moves
<1>3. CASE launch' = [launch EXCEPT ![l].pc = "reap", ![l].outcome = "error"]
    BY <1>1, <1>3, GivesUp
<1> QED
    BY <1>2, <1>3 DEF StartFilteredBus

LEMMA SafeEnter ==
    ASSUME VendorSafe, NEW l \in Launches, EnterSandbox(l)
    PROVE  VendorSafe'
<1>1. launch[l].pc \in Looking /\ UNCHANGED <<backlog, answer, instances, socket>>
    BY DEF EnterSandbox, LaunchAt, Looking
<1>2. CASE session' = [session EXCEPT ![l] = "clear"] /\ GoOn(l, "wait")
    <2>1. PICK new \in LaunchStates : launch' = [launch EXCEPT ![l] = new] /\ new.pc = "wait"
        BY <1>2, ToPc DEF Looking
    <2>2. /\ launch'[l] = new /\ launch' \in [Launches -> LaunchStates]
          /\ session'[l] = "clear" /\ session' \in [Launches -> SessionStates]
          /\ \A m \in Launches : m # l => launch'[m] = launch[m] /\ session'[m] = session[m]
        BY <1>2, <2>1 DEF VendorSafe, VendorTypeOK, SessionStates
    <2>3. \A m \in Launches : \A i \in 1 .. Len(backlog[m]) : backlog[m][i] # l /\ backlog[m][i] \in Launches
        BY <1>1 DEF VendorSafe, WaitingIsUnserved, Waits, VendorTypeOK
    <2>4. session[l] = "none" /\ answer[l] = "none" /\ instances[l] = 0
        BY <1>1, Typed DEF Accounted
    <2>5. VendorTypeOK' /\ WaitsOnce'
        BY <1>1, <2>2 DEF VendorSafe, VendorTypeOK, WaitsOnce
    <2>6. WaitingIsUnserved'
        BY <1>1, <2>2, <2>3 DEF VendorSafe, WaitingIsUnserved, Waits
    <2>7. ASSUME NEW m \in Launches PROVE Accounted(m)'
        <3>1. CASE m = l
            BY <1>1, <2>1, <2>2, <2>4, <3>1 DEF Accounted, Looking
        <3>2. CASE m # l
            BY <1>1, <2>2, <3>2 DEF VendorSafe, Accounted
        <3> QED
            BY <3>1, <3>2
    <2> QED
        BY <2>5, <2>6, <2>7 DEF VendorSafe
<1>3. CASE launch' = [launch EXCEPT ![l].pc = "reap", ![l].outcome = "error"] /\ UNCHANGED session
    BY <1>1, <1>3, GivesUp
<1> QED
    BY <1>2, <1>3 DEF EnterSandbox

LEMMA SafeWait ==
    ASSUME VendorSafe, NEW l \in Launches, WaitForSandbox(l)
    PROVE  VendorSafe'
<1> DEFINE how == IF session[l] = "ended" THEN launch[l].outcome ELSE "error"
           new == [launch[l] EXCEPT !.pc = "reap", !.outcome = how]
<1>1. how \in {"closed", "error"} /\ (how = "closed" => session[l] = "ended")
    BY Typed DEF LaunchStates
<1>2. launch' = [launch EXCEPT ![l] = new]
    BY DEF WaitForSandbox, VendorSafe, VendorTypeOK
<1> HIDE DEF how
<1>3. new \in LaunchStates /\ new.pc = "reap" /\ new.outcome = how
    BY <1>1, Typed DEF LaunchStates
<1>4. UNCHANGED <<session, backlog, answer, instances, socket>>
    BY DEF WaitForSandbox
<1> QED
    BY <1>1, <1>2, <1>3, <1>4, Moves DEF Looking

LEMMA SafeReap ==
    ASSUME VendorSafe, NEW l \in Launches, ReapFilteredBus(l)
    PROVE  VendorSafe'
<1>1. launch[l].pc = "reap" /\ UNCHANGED <<session, backlog, answer, instances, socket>>
    BY DEF ReapFilteredBus, LaunchAt
<1>2. launch[l].outcome \in {"closed", "error"}
    BY Typed DEF LaunchStates
<1>3. PICK new \in LaunchStates : launch' = [launch EXCEPT ![l] = new] /\ new.pc = launch[l].outcome
    BY <1>2, ToPc DEF ReapFilteredBus
<1>4. new.pc = "closed" => session[l] = "ended"
    BY <1>1, <1>3, Typed DEF Accounted
<1> QED
    BY <1>1, <1>2, <1>3, <1>4, Moves DEF Looking

-----------------------------------------------------------------------------
\* A step of a session: its own launch waits nowhere.
LEMMA SessionMoves ==
    ASSUME VendorSafe, NEW l \in Launches, NEW new \in SessionStates \ {"none"},
           session[l] # "none", session' = [session EXCEPT ![l] = new],
           UNCHANGED <<launch, backlog, answer>>, socket' \in Launches \cup {Nobody},
           instances' \in [Launches -> Nat],
           \A m \in Launches : m # l => instances'[m] = instances[m],
           Accounted(l)'
    PROVE  VendorSafe'
<1>1. /\ session' \in [Launches -> SessionStates] /\ session'[l] = new
      /\ \A m \in Launches : m # l => session'[m] = session[m]
    BY DEF VendorSafe, VendorTypeOK
<1>2. VendorTypeOK' /\ WaitsOnce'
    BY <1>1 DEF VendorSafe, VendorTypeOK, WaitsOnce
<1>3. \A m \in Launches : \A i \in 1 .. Len(backlog[m]) : backlog[m][i] # l /\ backlog[m][i] \in Launches
    BY DEF VendorSafe, WaitingIsUnserved, Waits, VendorTypeOK
<1>4. WaitingIsUnserved'
    BY <1>1, <1>3 DEF VendorSafe, WaitingIsUnserved, Waits
<1>5. ASSUME NEW m \in Launches, m # l PROVE Accounted(m)'
    BY <1>1, <1>5 DEF VendorSafe, Accounted
<1> QED
    BY <1>2, <1>4, <1>5 DEF VendorSafe

LEMMA SafeClear ==
    ASSUME VendorSafe, NEW l \in Launches, SessionClear(l)
    PROVE  VendorSafe'
<1>1. /\ session[l] = "clear" /\ session' = [session EXCEPT ![l] = "bind"] /\ socket' = Nobody
      /\ UNCHANGED <<launch, backlog, answer, instances>>
    BY DEF SessionClear
<1>2. session'[l] = "bind" /\ instances \in [Launches -> Nat]
    BY <1>1 DEF VendorSafe, VendorTypeOK
<1>3. Accounted(l)'
    BY <1>1, <1>2, Typed DEF Accounted
<1> QED
    BY <1>1, <1>2, <1>3, SessionMoves DEF SessionStates

LEMMA SafeBind ==
    ASSUME VendorSafe, NEW l \in Launches, SessionBind(l)
    PROVE  VendorSafe'
<1>1. session[l] = "bind" /\ UNCHANGED <<launch, backlog, answer, instances>>
    BY DEF SessionBind
<1>2. PICK new \in {"spawn", "failed"} : session' = [session EXCEPT ![l] = new]
    BY DEF SessionBind
<1>3. socket' \in Launches \cup {Nobody}
    BY DEF SessionBind, VendorSafe, VendorTypeOK
<1>4. session'[l] = new /\ instances \in [Launches -> Nat]
    BY <1>2 DEF VendorSafe, VendorTypeOK
<1>5. Accounted(l)'
    BY <1>1, <1>4, Typed DEF Accounted
<1> QED
    BY <1>1, <1>2, <1>3, <1>4, <1>5, SessionMoves DEF SessionStates

LEMMA SafeExits ==
    ASSUME VendorSafe, NEW l \in Launches, PrimaryExits(l)
    PROVE  VendorSafe'
<1>1. /\ session[l] = "run" /\ session' = [session EXCEPT ![l] = "close"]
      /\ UNCHANGED <<launch, backlog, answer, instances, socket>>
    BY DEF PrimaryExits
<1>2. session'[l] = "close" /\ instances \in [Launches -> Nat] /\ socket \in Launches \cup {Nobody}
    BY <1>1 DEF VendorSafe, VendorTypeOK
<1>3. Accounted(l)'
    BY <1>1, <1>2, Typed DEF Accounted
<1> QED
    BY <1>1, <1>2, <1>3, SessionMoves DEF SessionStates

\* The backlog of one session is dropped: those who waited there read the end,
\* and nobody else notices.
LEMMA HangsUp ==
    ASSUME VendorSafe, NEW l \in Launches, Hangup(l), UNCHANGED instances,
           launch' \in [Launches -> LaunchStates], session' \in [Launches -> SessionStates],
           socket' \in Launches \cup {Nobody},
           \A m \in Launches : m # l => launch'[m] = launch[m] /\ session'[m] = session[m],
           launch[l].pc \notin Looking => launch'[l].pc \notin Looking,
           session[l] = "none" => session'[l] = "none",
           Accounted(l)'
    PROVE  VendorSafe'
<1>1. /\ backlog'[l] = <<>> /\ backlog' \in [Launches -> Seq(Launches)]
      /\ \A m \in Launches : m # l => backlog'[m] = backlog[m]
    BY DEF Hangup, VendorSafe, VendorTypeOK
<1>2. answer' \in [Launches -> {"none", "0", "1", "eof"}]
    BY DEF Hangup, VendorSafe, VendorTypeOK
<1>3. VendorTypeOK'
    BY <1>1, <1>2 DEF VendorSafe, VendorTypeOK
<1>4. ASSUME NEW m \in Launches, NEW i \in 1 .. Len(backlog'[m])
      PROVE  m # l /\ backlog'[m] = backlog[m] /\ i \in 1 .. Len(backlog[m])
    BY <1>1
<1>5. WaitsOnce'
    BY <1>4 DEF VendorSafe, WaitsOnce
<1>6. WaitingIsUnserved'
    <2> SUFFICES ASSUME NEW m \in Launches, NEW i \in 1 .. Len(backlog'[m])
                 PROVE  Waits(backlog[m][i])'
        BY DEF WaitingIsUnserved
    <2>1. m # l /\ backlog'[m] = backlog[m] /\ i \in 1 .. Len(backlog[m])
        BY <1>4
    <2>2. PICK n \in Launches : n = backlog[m][i]
        BY <2>1 DEF VendorSafe, VendorTypeOK
    <2>3. Waits(n) /\ backlog'[m][i] = n
        BY <2>1, <2>2 DEF VendorSafe, WaitingIsUnserved
    <2>4. ~\E j \in 1 .. Len(backlog[l]) : backlog[l][j] = n
        BY <2>1, <2>2 DEF VendorSafe, WaitsOnce
    <2>5. answer'[n] = answer[n]
        BY <2>4 DEF Hangup
    <2>6. Waits(n)'
        <3>1. CASE n = l
            BY <2>3, <2>5, <3>1 DEF Waits
        <3>2. CASE n # l
            BY <2>3, <2>5, <3>2 DEF Waits
        <3> QED
            BY <3>1, <3>2
    <2> QED
        BY <2>3, <2>6 DEF Waits
<1>7. ASSUME NEW m \in Launches, m # l PROVE Accounted(m)'
    <2>1. CASE answer'[m] = answer[m]
        BY <1>7, <2>1 DEF VendorSafe, Accounted
    <2>2. CASE answer'[m] # answer[m]
        <3>1. answer'[m] = "eof" /\ \E j \in 1 .. Len(backlog[l]) : backlog[l][j] = m
            BY <2>2 DEF Hangup
        <3>2. Waits(m)
            BY <3>1 DEF VendorSafe, WaitingIsUnserved
        <3> QED
            BY <1>7, <3>1, <3>2 DEF VendorSafe, Accounted, Waits
    <2> QED
        BY <2>1, <2>2
<1> QED
    BY <1>3, <1>5, <1>6, <1>7 DEF VendorSafe

\* Who has a session of its own waits in no backlog.
LEMMA OwnerHearsNothing ==
    ASSUME VendorSafe, NEW l \in Launches, Hangup(l), session[l] # "none"
    PROVE  answer'[l] = answer[l]
<1>1. ~\E j \in 1 .. Len(backlog[l]) : backlog[l][j] = l
    BY DEF VendorSafe, WaitingIsUnserved, Waits
<1> QED
    BY <1>1 DEF Hangup

LEMMA SafeSpawn ==
    ASSUME VendorSafe, NEW l \in Launches, SessionSpawn(l)
    PROVE  VendorSafe'
<1>1. session[l] = "spawn" /\ UNCHANGED <<launch, socket>> /\ socket \in Launches \cup {Nobody}
    BY DEF SessionSpawn, VendorSafe, VendorTypeOK
<1>2. CASE /\ instances' = [instances EXCEPT ![l] = @ + 1]
           /\ session' = [session EXCEPT ![l] = "run"] /\ UNCHANGED <<backlog, answer>>
    <2>1. /\ session'[l] = "run" /\ instances' \in [Launches -> Nat] /\ instances'[l] = instances[l] + 1
          /\ \A m \in Launches : m # l => instances'[m] = instances[m]
        BY <1>2 DEF VendorSafe, VendorTypeOK
    <2>2. Accounted(l)'
        BY <1>1, <1>2, <2>1, Typed DEF Accounted
    <2> QED
        BY <1>1, <1>2, <2>1, <2>2, SessionMoves DEF SessionStates
<1>3. CASE Hangup(l) /\ session' = [session EXCEPT ![l] = "failed"] /\ UNCHANGED instances
    <2>1. /\ session'[l] = "failed" /\ session' \in [Launches -> SessionStates]
          /\ \A m \in Launches : m # l => session'[m] = session[m]
          /\ launch \in [Launches -> LaunchStates]
        BY <1>3 DEF VendorSafe, VendorTypeOK, SessionStates
    <2>2. answer'[l] = answer[l]
        BY <1>1, <1>3, OwnerHearsNothing
    <2>3. Accounted(l)'
        BY <1>1, <1>3, <2>1, <2>2, Typed DEF Accounted
    <2> QED
        BY <1>1, <1>3, <2>1, <2>3, HangsUp
<1> QED
    BY <1>2, <1>3 DEF SessionSpawn

LEMMA SafeClose ==
    ASSUME VendorSafe, NEW l \in Launches, SessionClose(l)
    PROVE  VendorSafe'
<1>1. /\ session[l] = "close" /\ session' = [session EXCEPT ![l] = "ended"] /\ socket' = Nobody
      /\ Hangup(l) /\ UNCHANGED <<launch, instances>>
    BY DEF SessionClose
<1>2. /\ session'[l] = "ended" /\ session' \in [Launches -> SessionStates]
      /\ \A m \in Launches : m # l => session'[m] = session[m]
      /\ launch \in [Launches -> LaunchStates]
    BY <1>1 DEF VendorSafe, VendorTypeOK, SessionStates
<1>3. answer'[l] = answer[l]
    BY <1>1, OwnerHearsNothing
<1>4. Accounted(l)'
    BY <1>1, <1>2, <1>3, Typed DEF Accounted
<1> QED
    BY <1>1, <1>2, <1>4, HangsUp

LEMMA SafeKill ==
    ASSUME VendorSafe, NEW l \in Launches, KillSupervisor(l)
    PROVE  VendorSafe'
<1>1. Hangup(l) /\ UNCHANGED <<socket, instances>> /\ socket \in Launches \cup {Nobody}
    BY DEF KillSupervisor, VendorSafe, VendorTypeOK
<1>2. PICK new \in LaunchStates : launch' = [launch EXCEPT ![l] = new] /\ new.pc = "killed"
    BY ToPc DEF KillSupervisor, Looking
<1>3. /\ launch'[l] = new /\ launch' \in [Launches -> LaunchStates]
      /\ \A m \in Launches : m # l => launch'[m] = launch[m]
    BY <1>2 DEF VendorSafe, VendorTypeOK
<1>4. /\ session'[l] = IF session[l] = "none" THEN "none" ELSE "killed"
      /\ session' \in [Launches -> SessionStates]
      /\ \A m \in Launches : m # l => session'[m] = session[m]
    BY DEF KillSupervisor, VendorSafe, VendorTypeOK, SessionStates
<1>5. CASE session[l] # "none"
    <2>1. answer'[l] = answer[l] /\ session'[l] = "killed"
        BY <1>1, <1>4, <1>5, OwnerHearsNothing
    <2>2. Accounted(l)'
        BY <1>1, <1>2, <1>3, <1>5, <2>1, Typed DEF Accounted, Looking
    <2> QED
        BY <1>1, <1>2, <1>3, <1>4, <1>5, <2>2, HangsUp DEF Looking
<1>6. CASE session[l] = "none"
    <2>1. answer'[l] = answer[l] \/ (answer'[l] = "eof" /\ answer[l] = "none")
        BY <1>1 DEF Hangup, VendorSafe, WaitingIsUnserved, Waits
    <2>2. session'[l] = "none"
        BY <1>4, <1>6
    <2>3. Accounted(l)'
        BY <1>1, <1>2, <1>3, <1>6, <2>1, <2>2, Typed DEF Accounted, Looking
    <2> QED
        BY <1>1, <1>2, <1>3, <1>4, <1>6, <2>2, <2>3, HangsUp DEF Looking
<1> QED
    BY <1>5, <1>6

\* The oldest connection is served: its callback is spent as it leaves.
LEMMA SafeAccept ==
    ASSUME VendorSafe, NEW l \in Launches, SessionAccept(l)
    PROVE  VendorSafe'
<1> DEFINE m == Head(backlog[l])
           q == Tail(backlog[l])
<1>1. /\ backlog[l] \in Seq(Launches) /\ backlog[l] # <<>>
      /\ UNCHANGED <<launch, session, socket>> /\ backlog' = [backlog EXCEPT ![l] = q]
    BY DEF SessionAccept, VendorSafe, VendorTypeOK
<1>2. /\ m = backlog[l][1] /\ 1 \in 1 .. Len(backlog[l]) /\ m \in Launches
      /\ q \in Seq(Launches) /\ Len(q) = Len(backlog[l]) - 1 /\ Len(backlog[l]) \in Nat
    BY <1>1
<1>3. \A i \in 1 .. Len(q) : q[i] = backlog[l][i + 1]
    BY <1>1
<1>4. PICK a \in {"0", "1"} :
        /\ answer' = [answer EXCEPT ![m] = a]
        /\ instances' = IF a = "1" THEN [instances EXCEPT ![m] = @ + 1] ELSE instances
    BY DEF SessionAccept
<1>5. Waits(m)
    BY <1>2 DEF VendorSafe, WaitingIsUnserved
<1> HIDE DEF m, q
<1>6. /\ backlog'[l] = q /\ backlog' \in [Launches -> Seq(Launches)]
      /\ \A n \in Launches : n # l => backlog'[n] = backlog[n]
    BY <1>1, <1>2 DEF VendorSafe, VendorTypeOK
<1>7. /\ answer'[m] = a /\ answer' \in [Launches -> {"none", "0", "1", "eof"}]
      /\ \A n \in Launches : n # m => answer'[n] = answer[n] /\ instances'[n] = instances[n]
    BY <1>2, <1>4 DEF VendorSafe, VendorTypeOK
<1>8. instances' \in [Launches -> Nat] /\ instances'[m] = instances[m] + (IF a = "1" THEN 1 ELSE 0)
    <2>1. CASE a = "1"
        BY <1>2, <1>4, <2>1 DEF VendorSafe, VendorTypeOK
    <2>2. CASE a = "0"
        BY <1>2, <1>4, <2>2 DEF VendorSafe, VendorTypeOK
    <2> QED
        BY <2>1, <2>2
<1>9. VendorTypeOK'
    BY <1>1, <1>6, <1>7, <1>8 DEF VendorSafe, VendorTypeOK
<1>10. ASSUME NEW n \in Launches, NEW i \in 1 .. Len(backlog'[n])
       PROVE  \E k \in 1 .. Len(backlog[n]) :
                /\ backlog'[n][i] = backlog[n][k]
                /\ IF n = l THEN k = i + 1 ELSE k = i
    <2>1. CASE n = l
        <3>1. i \in 1 .. Len(q) /\ i + 1 \in 1 .. Len(backlog[l])
            BY <1>2, <1>6, <2>1
        <3> QED
            BY <1>3, <1>6, <2>1, <3>1
    <2>2. CASE n # l
        BY <1>6, <2>2
    <2> QED
        BY <2>1, <2>2
<1>11. WaitsOnce'
    <2> SUFFICES ASSUME NEW n \in Launches, NEW o \in Launches, NEW i \in 1 .. Len(backlog'[n]),
                        NEW j \in 1 .. Len(backlog'[o]), backlog'[n][i] = backlog'[o][j]
                 PROVE  n = o /\ i = j
        BY DEF WaitsOnce
    <2>1. PICK k \in 1 .. Len(backlog[n]) : /\ backlog'[n][i] = backlog[n][k]
                                            /\ IF n = l THEN k = i + 1 ELSE k = i
        BY <1>10
    <2>2. PICK r \in 1 .. Len(backlog[o]) : /\ backlog'[o][j] = backlog[o][r]
                                            /\ IF o = l THEN r = j + 1 ELSE r = j
        BY <1>10
    <2>3. n = o /\ k = r
        <3>1. backlog[n][k] = backlog[o][r]
            BY <2>1, <2>2, Zenon
        <3> QED
            BY <3>1, Zenon DEF VendorSafe, WaitsOnce
    <2>4. i \in Int /\ j \in Int
        OBVIOUS
    <2> QED
        BY <2>1, <2>2, <2>3, <2>4
<1>12. WaitingIsUnserved'
    <2> SUFFICES ASSUME NEW n \in Launches, NEW i \in 1 .. Len(backlog'[n])
                 PROVE  Waits(backlog[n][i])'
        BY DEF WaitingIsUnserved
    <2>1. PICK k \in 1 .. Len(backlog[n]) : /\ backlog'[n][i] = backlog[n][k]
                                            /\ IF n = l THEN k = i + 1 ELSE k = i
        BY <1>10
    <2>2. PICK w \in Launches : w = backlog[n][k]
        BY DEF VendorSafe, VendorTypeOK
    <2>3. Waits(w) /\ backlog'[n][i] = w
        BY <2>1, <2>2 DEF VendorSafe, WaitingIsUnserved
    <2>4. w # m
        <3>1. ASSUME w = m PROVE n = l /\ k = 1
            <4>1. backlog[n][k] = backlog[l][1]
                BY <1>2, <2>2, <3>1
            <4> QED
                BY <1>2, <4>1, Zenon DEF VendorSafe, WaitsOnce
        <3>2. i \in Int /\ i >= 1
            OBVIOUS
        <3> QED
            BY <2>1, <3>1, <3>2
    <2>5. launch' = launch /\ session' = session
        BY <1>1
    <2>6. answer'[w] = answer[w]
        BY <1>7, <2>2, <2>4
    <2>7. Waits(w)'
        BY <2>3, <2>5, <2>6 DEF Waits
    <2> QED
        BY <2>3, <2>7 DEF Waits
<1>13. ASSUME NEW n \in Launches PROVE Accounted(n)'
    <2>1. CASE n = m
        BY <1>1, <1>2, <1>5, <1>7, <1>8, <2>1, Typed DEF Accounted, Waits
    <2>2. CASE n # m
        BY <1>1, <1>7, <2>2 DEF VendorSafe, Accounted
    <2> QED
        BY <2>1, <2>2
<1> QED
    BY <1>9, <1>11, <1>12, <1>13 DEF VendorSafe

LEMMA VendorStepSafe == VendorSafe /\ [VendorNext]_vendorVars => VendorSafe'
<1> SUFFICES ASSUME VendorSafe, [VendorNext]_vendorVars PROVE VendorSafe'
    OBVIOUS
<1>1. ASSUME NEW l \in Launches,
             AppOpen(l) \/ VendorStep(l) \/ PrimaryExits(l) \/ KillSupervisor(l)
      PROVE  VendorSafe'
    BY <1>1, SafeAppOpen, SafeInspect, SafeConnect, SafeRemoveStale, SafeAck, SafeScan, SafeBus,
       SafeEnter, SafeWait, SafeReap, SafeClear, SafeBind, SafeSpawn, SafeAccept, SafeClose,
       SafeExits, SafeKill, Zenon
    DEF VendorStep, Relay, Supervise, Session
<1>2. CASE UNCHANGED vendorVars
    BY <1>2 DEF vendorVars, VendorSafe, VendorTypeOK, WaitsOnce, WaitingIsUnserved, Waits, Accounted
<1> QED
    BY <1>1, <1>2 DEF VendorNext

\* A callback starts at most one process, and one when its launch reports
\* success, for any number of launches, retries, killed supervisors and
\* answers that come too late (relay_vendor_callbacks, run_vendor_session).
THEOREM CallbackServedOnce == VendorSpec => []CallbackOnce
<1>1. VendorSafe => CallbackOnce
    <2> SUFFICES ASSUME VendorSafe, NEW l \in Launches
                 PROVE  instances[l] <= 1 /\ (launch[l].pc \in Opened => instances[l] = 1)
        BY DEF CallbackOnce
    <2> QED
        BY Typed DEF Accounted, Opened
<1> QED
    BY <1>1, VendorInitSafe, VendorStepSafe, PTL DEF VendorSpec
=============================================================================
