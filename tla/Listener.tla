------------------------------ MODULE Listener ------------------------------
(***************************************************************************)
(* The connection server that punard, punar-agentd, punar-netd and         *)
(* punar-secrets each hold a copy of: one thread accepts, a thread per     *)
(* connection answers its requests in order, a counter under a mutex with  *)
(* a condition variable keeps the connections under a limit, and the main  *)
(* thread stops the server when a signal arrives.                          *)
(***************************************************************************)
EXTENDS Naturals, Sequences, FiniteSets, SequencesExt

CONSTANTS
    Clients,
    MaxConnections,     \* DaemonConfig::max_connections
    Backlog,            \* the length given to listen(2)
    MaxRequests,        \* bound on the requests of one client
    MaxErrors           \* bound on the failures of accept(2)

VARIABLES
    acceptor,       \* where the accept thread is
    active,         \* the counter of connections, under the mutex
    shutdown,       \* the flag
    socket,         \* the socket in the file system: none, bound, listening
    queue,          \* connections the kernel holds for accept
    handler,        \* client -> where the thread of its connection is
    asked,          \* client -> requests it has sent
    answered,       \* client -> answers it has received
    stopper,        \* where stop is
    errors          \* failures of accept(2) so far

listenVars ==
    <<acceptor, active, shutdown, socket, queue, handler, asked, answered, stopper, errors>>

(* The connection stop makes to wake the accept thread.                     *)
Nudge == "nudge"

ListenInit ==
    /\ acceptor = "none" /\ active = 0 /\ shutdown = FALSE
    /\ socket \in {"none", "stale"} /\ queue = <<>>
    /\ handler = [c \in Clients |-> "out"]
    /\ asked = [c \in Clients |-> 0] /\ answered = asked
    /\ stopper = "off" /\ errors = 0

-----------------------------------------------------------------------------
(* The accept thread holds the mutex from its test of the counter until it  *)
(* is parked on the condition variable.                                     *)
MutexHeld == acceptor = "parking"

NotifyAll(a) == IF a = "parked" THEN "top" ELSE a

(* bind_with_perms: a socket left behind is removed, and the new one does   *)
(* not listen before its permissions and group are set.                     *)
Bind ==
    /\ acceptor = "none" /\ socket \in {"none", "stale"} /\ stopper = "off"
    /\ socket' = "bound"
    /\ UNCHANGED <<acceptor, active, shutdown, queue, handler, asked, answered, stopper, errors>>

(* require_group and listen; spawn then starts the accept thread.           *)
Listen ==
    /\ socket = "bound"
    /\ socket' = "listening" /\ acceptor' = "top"
    /\ UNCHANGED <<active, shutdown, queue, handler, asked, answered, stopper, errors>>

(* accept_loop, the wait for a slot.  The flag is read under the mutex.     *)
AwaitSlot ==
    /\ acceptor = "top"
    /\ acceptor' = IF active >= MaxConnections /\ ~shutdown THEN "parking" ELSE "flag"
    /\ UNCHANGED <<active, shutdown, socket, queue, handler, asked, answered, stopper, errors>>
Park ==
    /\ acceptor = "parking"
    /\ acceptor' = "parked"
    /\ UNCHANGED <<active, shutdown, socket, queue, handler, asked, answered, stopper, errors>>

(* Dropping the listener refuses what the kernel still holds.               *)
Close ==
    /\ acceptor' = "ended" /\ queue' = <<>>
    /\ handler' = [c \in Clients |->
                     IF \E i \in DOMAIN queue : queue[i] = c THEN "closed" ELSE handler[c]]

(* accept_loop after the wait: the flag, accept, the flag again, the thread  *)
(* of the connection.  A thread that cannot be started gives the slot back.  *)
Leave ==
    /\ acceptor = "flag" /\ shutdown
    /\ Close
    /\ UNCHANGED <<active, shutdown, socket, asked, answered, stopper, errors>>
Block ==
    /\ acceptor = "flag" /\ ~shutdown
    /\ acceptor' = "blocked"
    /\ UNCHANGED <<active, shutdown, socket, queue, handler, asked, answered, stopper, errors>>
Started(c) == active' = active + 1 /\ handler' = [handler EXCEPT ![c] = "read"]
NotStarted(c) == UNCHANGED active /\ handler' = [handler EXCEPT ![c] = "closed"]
Accept ==
    /\ acceptor = "blocked" /\ queue # <<>>
    /\ IF shutdown
       THEN Close /\ UNCHANGED active
       ELSE /\ Started(Head(queue)) \/ NotStarted(Head(queue))
            /\ queue' = Tail(queue) /\ acceptor' = "top"
    /\ UNCHANGED <<shutdown, socket, asked, answered, stopper, errors>>
AcceptFails ==
    /\ acceptor = "blocked" /\ errors < MaxErrors
    /\ errors' = errors + 1
    /\ IF shutdown THEN Close ELSE acceptor' = "top" /\ UNCHANGED <<queue, handler>>
    /\ UNCHANGED <<active, shutdown, socket, asked, answered, stopper>>

(* handle_connection: requests are read, dispatched and answered in order.   *)
ReadLine(c) ==
    /\ handler[c] = "read" /\ asked[c] > answered[c]
    /\ handler' = [handler EXCEPT ![c] = "dispatch"]
    /\ UNCHANGED <<acceptor, active, shutdown, socket, queue, asked, answered, stopper, errors>>

(* The line is too long, is rejected with a code that closes the connection, *)
(* is the end of the stream, or does not come within io_timeout.            *)
ReadEnds(c) ==
    /\ handler[c] = "read"
    /\ handler' = [handler EXCEPT ![c] = "release"]
    /\ UNCHANGED <<acceptor, active, shutdown, socket, queue, asked, answered, stopper, errors>>

(* dispatch and write_response; a response the peer does not take within    *)
(* io_timeout ends the connection.                                          *)
Answer(c) ==
    /\ handler[c] = "dispatch"
    /\ \/ /\ answered' = [answered EXCEPT ![c] = @ + 1]
          /\ handler' = [handler EXCEPT ![c] = "read"]
       \/ /\ handler' = [handler EXCEPT ![c] = "release"]
          /\ UNCHANGED answered
    /\ UNCHANGED <<acceptor, active, shutdown, socket, queue, asked, stopper, errors>>

(* The end of the connection's thread: the counter under the mutex, then    *)
(* the notification without it.                                             *)
Release(c) ==
    /\ handler[c] = "release" /\ ~MutexHeld
    /\ active' = active - 1
    /\ handler' = [handler EXCEPT ![c] = "notify"]
    /\ UNCHANGED <<acceptor, shutdown, socket, queue, asked, answered, stopper, errors>>
Notify(c) ==
    /\ handler[c] = "notify"
    /\ acceptor' = NotifyAll(acceptor)
    /\ handler' = [handler EXCEPT ![c] = "closed"]
    /\ UNCHANGED <<active, shutdown, socket, queue, asked, answered, stopper, errors>>

(* stop: the flag, the notification, the throwaway connection, the join, and *)
(* the removal of the socket.  connect(2) waits while the queue is full.     *)
Signalled ==
    /\ stopper = "off" /\ socket = "listening"
    /\ shutdown' = TRUE /\ stopper' = "notify"
    /\ UNCHANGED <<acceptor, active, socket, queue, handler, asked, answered, errors>>
StopNotifies ==
    /\ stopper = "notify"
    /\ acceptor' = NotifyAll(acceptor) /\ stopper' = "connect"
    /\ UNCHANGED <<active, shutdown, socket, queue, handler, asked, answered, errors>>
StopWithoutNudge ==
    /\ stopper = "connect"
    /\ stopper' = "join"
    /\ UNCHANGED <<acceptor, active, shutdown, socket, queue, handler, asked, answered, errors>>
StopConnects ==
    /\ stopper = "connect"
    /\ acceptor = "ended" \/ Len(queue) < Backlog
    /\ queue' = IF acceptor = "ended" THEN queue ELSE Append(queue, Nudge)
    /\ stopper' = "join"
    /\ UNCHANGED <<acceptor, active, shutdown, socket, handler, asked, answered, errors>>
StopJoins ==
    /\ stopper = "join" /\ acceptor = "ended"
    /\ socket' = "none" /\ stopper' = "done"
    /\ UNCHANGED <<acceptor, active, shutdown, queue, handler, asked, answered, errors>>

(* Clients connect once and then ask, or not.                               *)
Connect(c) ==
    /\ handler[c] = "out" /\ socket = "listening" /\ acceptor # "ended"
    /\ Len(queue) < Backlog
    /\ queue' = Append(queue, c)
    /\ handler' = [handler EXCEPT ![c] = "queued"]
    /\ UNCHANGED <<acceptor, active, shutdown, socket, asked, answered, stopper, errors>>
Ask(c) ==
    /\ handler[c] \in {"queued", "read", "dispatch"} /\ asked[c] < MaxRequests
    /\ asked' = [asked EXCEPT ![c] = @ + 1]
    /\ UNCHANGED <<acceptor, active, shutdown, socket, queue, handler, answered, stopper, errors>>

Accepting == AwaitSlot \/ Park \/ Leave \/ Block \/ Accept
Stopping == StopNotifies \/ StopConnects \/ StopJoins
Serving(c) == ReadLine(c) \/ ReadEnds(c) \/ Answer(c) \/ Release(c) \/ Notify(c)

ListenNext ==
    \/ Bind \/ Listen \/ Accepting \/ AcceptFails \/ Signalled \/ Stopping
    \/ \E c \in Clients : Connect(c) \/ Ask(c) \/ Serving(c)

-----------------------------------------------------------------------------
(* stop returns, whatever the clients do and wherever the accept thread is  *)
(* when the signal arrives: parked on the condition variable, about to park *)
(* with the notification already spent, or blocked in accept (server.rs,    *)
(* DaemonHandle::stop).                                                     *)
StopReturns == stopper = "notify" ~> stopper = "done"

=============================================================================
