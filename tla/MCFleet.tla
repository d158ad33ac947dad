------------------------------ MODULE MCFleet ------------------------------
(***************************************************************************)
(* A device and its organization for TLC.  Lens "enroll": two threads, one *)
(* organization with two policy files, failing writes and lost answers.    *)
(* Lens "sync": one pass at a time, with a change of the inventory, an     *)
(* outage and a crash.  Lens "drain": one pass over two questions, one of  *)
(* which may be malformed, and an outage.  Lens "drains": two passes that  *)
(* overlap on one.  Lenses "ledgers" and "custody": the control plane      *)
(* itself, two devices, an administrator who asks and one who may release  *)
(* recovery material.                                                      *)
(***************************************************************************)
EXTENDS Enrollment, RemoteQueries, ControlPlane, TLC

CONSTANTS acme, p1, p2, asker, keeper, d1, d2

OneOrganization == acme :> {p1, p2}
MCAskerScopes == asker :> {"inventory"}
MCRole == asker :> "security_admin" @@ keeper :> "recovery_admin"
MCRoleScopes == "security_admin" :> {"inventory", "authority"} @@ "recovery_admin" :> {}
MCVolume == d1 :> [luks |-> "u1", slot |-> 1, key |-> "k1"]
            @@ d2 :> [luks |-> "u2", slot |-> 1, key |-> "k2"]

VARIABLE lens
fleetVars == <<lens, vars, queriesVars, serverVars>>

MCInit ==
    /\ lens \in {"enroll", "sync", "drain", "drains", "ledgers", "custody"}
    /\ Init /\ QueriesInit /\ ServerInit
    /\ lens # "sync" => inventory = CHOOSE i \in Inventories : TRUE

Device(l) == lens = l /\ UNCHANGED <<lens, queriesVars, serverVars>>
Courier(l) == lens = l /\ UNCHANGED <<lens, vars, serverVars>>
Server(l) == lens = l /\ UNCHANGED <<lens, vars, queriesVars>>
MCNext ==
    \/ Device("enroll") /\ Next /\ changes' = 0 /\ crashes' = 0 /\ outages' = 0
    \/ Device("sync") /\ Next /\ \A t \in Threads \ {Boot} : calls'[t] = Idle
    \/ Courier("drain") /\ QueriesNext /\ \A t \in Drains \ {Boot} : drains'[t] = NoDrain
    \/ Courier("drains") /\ QueriesNext /\ Len(queue') <= 1 /\ disconnects' = 0
    \/ Server("ledgers") /\ \E d \in Devices : LedgerCalls(d)
    \/ Server("ledgers") /\ \E a \in Admins : Asks(a)
    \/ Server("custody") /\ \E d \in Devices : EnrollRegister(d) \/ EscrowCalls(d)
    \/ Server("custody") /\ \E a \in Admins : Releases(a)
    \/ (Server("ledgers") \/ Server("custody")) /\ ServerRestart

\* A pass that runs goes on, the reconcile timer starts passes, and outages end.
Passing == Device("sync") /\ Step(Boot)
Passes == Device("sync") /\ Reconcile(Boot)
Draining == Courier("drain") /\ DrainStep(Boot)
DrainStarts == Courier("drain") /\ DrainBegins(Boot)
OutageEnds == (Device("sync") /\ ComeUp) \/ (Courier("drain") /\ Reconnects)
MCSpec ==
    /\ MCInit /\ [][MCNext]_fleetVars
    /\ WF_fleetVars(Passing) /\ WF_fleetVars(Passes)
    /\ WF_fleetVars(Draining) /\ WF_fleetVars(DrainStarts)
    /\ WF_fleetVars(OutageEnds)

\* While the device stays enrolled and is left alone, the organization ends
\* up with its present inventory (the pending flag, the hash gate and the
\* retry on every pass).
InventoryArrives ==
    lens = "sync" /\ <>[](enrollment # None /\ ~enrollInProgress)
        => <>[](enrollment # None /\ received[enrollment.token] = inventory)

\* A question the device can read is answered, if the device stays enrolled
\* (drain_pending_queries, with the timer behind it).
QueriesAnswered ==
    \A q \in Queries : lens = "drain" /\ Waiting(q) ~> ~Waiting(q) \/ ~enrolled
=============================================================================
