------------------------------ MODULE MCDaemon ------------------------------
(***************************************************************************)
(* punard for TLC.  Lens "ladder": one thread and organizations that       *)
(* exercise the rungs, with failures of the backends and restarts.  Lens   *)
(* "pair": two threads under a pinning baseline, with failing writes.      *)
(* Lens "start": one capability with a compiled default and two without.   *)
(* Lens "listen": three clients of a server with room for one.             *)
(***************************************************************************)
EXTENDS PolicyEngine, Startup, Listener, TLC

CONSTANTS fw, on, off

OneCapability == <<fw>>
MCOsDefault == [c \in Caps |-> on]
MCCompiled == [c \in {"firewall", "hostname", "timezone"} |-> IF c = "firewall" THEN "a" ELSE Absent]

Layer(c, v, rank, kind) == [cap |-> c, value |-> v, rank |-> rank, kind |-> kind]
Organization(ls, allowed) == [layers |-> ls, localAdmin |-> allowed]

\* A baseline that pins, a role policy under a baseline that says otherwise,
\* and an approved exception, which shares the administrator's rung.
Baseline == Layer(fw, off, 2, "organization_baseline")
Role == Layer(fw, on, 3, "organization_role_policy")
Exception == Layer(fw, off, 4, "temporary_approved_exception")

Laddered == {Organization(<<Role, Baseline>>, TRUE), Organization(<<Exception>>, TRUE)}
Pinning == {Organization(<<Baseline>>, TRUE)}
Served == Laddered \cup Pinning

VARIABLE lens
daemonVars == <<lens, vars, startVars, listenVars>>

InitFor(lenses) ==
    /\ lens \in lenses
    /\ Init /\ StartInit /\ ListenInit
    /\ faulty = CASE lens = "ladder" -> {"apply", "observe", "crash"}
                  [] lens = "pair" -> {"apply", "persist"}
                  [] OTHER -> {}
    /\ lens \notin {"ladder", "pair", "race"} => machine = [c \in Caps |-> on]
    /\ lens # "start" => desired = Absent /\ observed = [c \in Capabilities |-> "a"]
    /\ lens # "listen" => socket = "none"

Engine(l) == lens = l /\ UNCHANGED <<lens, faulty, startVars, listenVars>>
\* Bound of a lens with two threads: calls and drifts together.
Pair == changes' + drifts' <= 2
MCNext ==
    \/ /\ Engine("ladder") /\ Next
       /\ org'.layers = <<>> \/ org' \in Laddered
       /\ \A t \in Threads \ {Boot} : calls'[t] = Idle
    \/ Engine("pair") /\ Next /\ Pair /\ (org'.layers = <<>> \/ org' \in Pinning)
    \/ lens = "start" /\ StartNext /\ UNCHANGED <<lens, vars, listenVars>>
    \/ lens = "listen" /\ ListenNext /\ UNCHANGED <<lens, vars, startVars>>
RaceNext == Engine("race") /\ Next /\ Pair /\ (org'.layers = <<>> \/ org' \in Laddered)

\* Threads run, and the reconcile timer keeps firing; io_timeout ends every
\* read and every write of a connection, and each handler returns.
Running(t) == Engine("pair") /\ Step(t)
Timer == Engine("pair") /\ \E t \in Threads : Reconcile(t)
Connection(A) == lens = "listen" /\ A /\ UNCHANGED <<lens, vars, startVars>>
MCSpec ==
    /\ InitFor({"ladder", "pair", "start", "listen"}) /\ [][MCNext]_daemonVars
    /\ \A t \in Threads : WF_daemonVars(Running(t))
    /\ WF_daemonVars(Timer)
    /\ WF_daemonVars(Connection(Accepting)) /\ WF_daemonVars(Connection(Stopping))
    /\ \A c \in Clients : WF_daemonVars(Connection(Serving(c)))

\* Two threads and no failure at all.
RaceSpec == InitFor({"race"}) /\ [][RaceNext]_daemonVars

-----------------------------------------------------------------------------
\* Loop protection: no more than MAX_REMEDIATION_ATTEMPTS attempts in a row
\* fail, and a capability is given up only after that many
\* (plan_and_remediate, one pass at a time).
LoopProtection ==
    lens = "ladder" => \A c \in Caps :
        /\ tries[c] <= MAX_REMEDIATION_ATTEMPTS
        /\ LoopProtected(c) => tries[c] = MAX_REMEDIATION_ATTEMPTS

\* When the layers and the machine are left alone, every capability ends up
\* at its effective value or is given up on (the reconcile timer).
Converges ==
    lens = "pair" => \A c \in Caps : <>[](machine[c] = effective[c].value \/ LoopProtected(c))

\* What is in effect, what is offered and what was given up follow the layers
\* (compute_effective, policy.effective, plan_and_remediate).
EngineFollowsLayers == EffectiveFollowsLadder /\ OffersAreHonest /\ LoopProtection
=============================================================================
