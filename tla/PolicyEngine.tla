---------------------------- MODULE PolicyEngine ----------------------------
(***************************************************************************)
(* The desired-state engine of punard: the layer stores, the merge that    *)
(* chooses one effective value per capability, the handlers that change a  *)
(* layer and settle the machine on the result (capabilities.set,           *)
(* policy.set, the tail of an enrollment transition), and the reconcile    *)
(* pass that remediates drift, with its loop protection.                   *)
(*                                                                         *)
(* Every connection has a thread of its own and no lock is held across a   *)
(* handler, so a handler is a sequence of steps, one per lock it takes or  *)
(* backend it calls, and steps of different threads interleave.            *)
(*                                                                         *)
(* The loader classifies every entry auto_remediate, so the alert_only     *)
(* branch of the pass is not modelled.                                     *)
(***************************************************************************)
EXTENDS Integers, Sequences, FiniteSets

CONSTANTS
    Registry,                  \* the capabilities, in the order a pass visits them
    Values,                    \* the states a capability can be in
    OsDefault,                 \* [capability -> its rank 6 value]
    OrgPolicies,               \* the policy documents an organization may serve
    Threads,
    Boot,                      \* the thread that runs the boot reconcile
    MAX_REMEDIATION_ATTEMPTS,
    MaxCalls,                  \* bound: layer changes asked for
    MaxDrifts,                 \* bound: changes made behind the daemon's back
    None

VARIABLES
    prefs, prefsFile,          \* PreferencesStore (rank 5): its map, its file
    admin, adminFile,          \* AdminPolicyStore (rank 4)
    org, orgFile,              \* org_layers and local_admin; policy.d
    effective,                 \* the effective document
    machine,                   \* what the backends would observe
    states, failCounts,        \* ComplianceTracker
    calls,                     \* what each thread is doing
    serving,                   \* the socket is open
    faulty,                    \* which of "persist", "apply", "observe", "crash" go wrong
    tries,                     \* history: failed attempts since the last success
    changes, drifts

vars == <<prefs, prefsFile, admin, adminFile, org, orgFile, effective, machine, states,
          failCounts, calls, serving, faulty, tries, changes, drifts>>

layers == <<prefs, prefsFile, admin, adminFile, org, orgFile>>
tracker == <<states, failCounts, tries>>

Caps == {Registry[i] : i \in DOMAIN Registry}
Maybe(S) == S \cup {None}

SourceKinds == {"os_hard_safety_constraint", "organization_baseline",
                "organization_role_policy", "temporary_approved_exception",
                "local_user_preference", "os_secure_default", "device_specific_override"}
LayerValue == [cap : Caps, value : Values, rank : Nat, kind : SourceKinds]
\* What load_policy_dir makes of policy.d: the layer entries in file order
\* and the organization's word on local administration.
Loaded == [layers : Seq(LayerValue), localAdmin : BOOLEAN]
NoOrganization == [layers |-> <<>>, localAdmin |-> TRUE]
ComplianceStates == {"unknown", "compliant", "non_compliant", "remediating"}

ASSUME ConstantsAssumption ==
    /\ Registry \in Seq(Caps) /\ Registry # <<>>
    /\ \A i, j \in DOMAIN Registry : Registry[i] = Registry[j] => i = j
    /\ OsDefault \in [Caps -> Values]
    /\ OrgPolicies \subseteq Loaded
    /\ Boot \in Threads
    /\ MAX_REMEDIATION_ATTEMPTS \in Nat \ {0}
    /\ MaxCalls \in Nat /\ MaxDrifts \in Nat
    /\ None \notin Values \cup Caps

-----------------------------------------------------------------------------
\* The merge.

\* policy_source_for_rank, as a number that grows with precedence.
Rung(rank) == IF rank <= 1 THEN 6 ELSE IF rank <= 5 THEN 7 - rank ELSE 1

\* Mutant: `>=` for `>`, the last entry wins a tie.
ResolveLast(entries) ==
    LET best[i \in 1 .. Len(entries)] ==
            IF i = 1 \/ Rung(entries[i].rank) >= Rung(best[i - 1].rank)
            THEN entries[i] ELSE best[i - 1]
    IN  best[Len(entries)]

\* resolve: a strictly higher source displaces the best so far.
Resolve(entries) ==
    LET best[i \in 1 .. Len(entries)] ==
            IF i = 1 \/ Rung(entries[i].rank) > Rung(best[i - 1].rank)
            THEN entries[i] ELSE best[i - 1]
    IN  best[Len(entries)]

DEVICE_ADMIN_RANK == 4
USER_OVERRIDE_MIN_RANK == 5

Opinion(c, v, rank, kind) ==
    IF v = None THEN <<>> ELSE <<[cap |-> c, value |-> v, rank |-> rank, kind |-> kind]>>

\* The opinions on c in the order compute_effective pushes them.
Candidates(c, ps, o, as) ==
    Opinion(c, OsDefault[c], 6, "os_secure_default")
    \o Opinion(c, ps[c], 5, "local_user_preference")
    \o SelectSeq(o.layers, LAMBDA l : l.cap = c)
    \o Opinion(c, as[c], DEVICE_ADMIN_RANK, "device_specific_override")

\* compute_effective, with merge.
ComputeEffective(ps, o, as) == [c \in Caps |-> Resolve(Candidates(c, ps, o, as))]

AdminMayOverride(entry) ==
    \/ entry.rank > DEVICE_ADMIN_RANK
    \/ entry.kind = "device_specific_override"

UserOverridePermitted(entry) == entry.rank >= USER_OVERRIDE_MIN_RANK

-----------------------------------------------------------------------------
\* Threads.

Idle == [pc |-> "idle", task |-> "none", cap |-> None, value |-> None,
         doc |-> None, next |-> 0, count |-> 0]
Tasks == {"none", "set", "enroll", "reconcile"}
PCs == {"idle", "pin", "compute", "publish", "read", "observe", "apply", "verify",
        "snapshot", "inspect", "remediate", "check", "failed"}
EffectiveDocument == [Caps -> LayerValue]

Start(t, call) ==
    /\ serving
    /\ calls[t] = Idle
    /\ calls' = [calls EXCEPT ![t] = call]
Asked == changes < MaxCalls /\ changes' = changes + 1
At(t, pc) == calls[t].pc = pc
Goto(t, pc) == calls' = [calls EXCEPT ![t].pc = pc]
Return(t) == calls' = [calls EXCEPT ![t] = Idle]

\* Saturates: one more than the limit is enough to see it exceeded.
Count(n) == IF n > MAX_REMEDIATION_ATTEMPTS THEN n ELSE n + 1

\* Success, seen by whichever handler verified it, lifts the suppression.
ClearFailures(c) ==
    /\ failCounts' = [failCounts EXCEPT ![c] = 0]
    /\ tries' = [tries EXCEPT ![c] = 0]

Init ==
    /\ prefs = [c \in Caps |-> None] /\ prefsFile = prefs
    /\ admin = [c \in Caps |-> None] /\ adminFile = admin
    /\ org = NoOrganization /\ orgFile = org
    /\ effective = ComputeEffective(prefs, org, admin)
    /\ machine \in [Caps -> Values]
    /\ states = [c \in Caps |-> "unknown"]
    /\ failCounts = [c \in Caps |-> 0]
    /\ calls = [t \in Threads |-> IF t = Boot THEN [Idle EXCEPT !.pc = "snapshot",
                                                               !.task = "reconcile"] ELSE Idle]
    /\ serving = FALSE
    /\ faulty \in SUBSET {"persist", "apply", "observe", "crash"}
    /\ tries = [c \in Caps |-> 0]
    /\ changes = 0 /\ drifts = 0

\* PreferencesStore::set and AdminPolicyStore::set: the map changes, then the
\* file is replaced, which may fail.
SetPreference(c, v, saved) ==
    /\ prefs' = [prefs EXCEPT ![c] = v]
    /\ IF saved THEN prefsFile' = prefs' ELSE UNCHANGED prefsFile
SetAdminPolicy(c, v, saved) ==
    /\ admin' = [admin EXCEPT ![c] = v]
    /\ IF saved THEN adminFile' = admin' ELSE UNCHANGED adminFile

\* capabilities.set and approvals.resolve, once authorized, up to the
\* preference store: its map changes first, and a failed write ends the call.
CapabilitiesSet(t, c, v) ==
    /\ Asked
    /\ \/ /\ SetPreference(c, v, TRUE)
          /\ Start(t, [Idle EXCEPT !.pc = "compute", !.task = "set", !.cap = c])
       \/ /\ "persist" \in faulty
          /\ SetPreference(c, v, FALSE)
          /\ Start(t, Idle)
    /\ UNCHANGED <<admin, adminFile, org, orgFile, effective, machine, tracker, serving, drifts>>

\* policy.set: the two checks that depend on the device, then (with every
\* lock released) the store.  A value of None clears the entry.
PolicySet(t, c, v) ==
    /\ Asked
    /\ org.localAdmin
    /\ AdminMayOverride(effective[c])
    /\ Start(t, [Idle EXCEPT !.pc = "pin", !.task = "set", !.cap = c, !.value = v])
    /\ UNCHANGED <<layers, effective, machine, tracker, serving, drifts>>

Pin(t) ==
    /\ At(t, "pin")
    /\ \/ SetAdminPolicy(calls[t].cap, calls[t].value, TRUE) /\ Goto(t, "compute")
       \/ "persist" \in faulty /\ SetAdminPolicy(calls[t].cap, calls[t].value, FALSE) /\ Return(t)
    /\ UNCHANGED <<prefs, prefsFile, org, orgFile, effective, machine, tracker, serving,
                   changes, drifts>>

\* The tail of enroll.start: the organization's layers are loaded and the
\* document recomputed, then one full pass.
EnrollStart(t, o) ==
    /\ Asked
    /\ \A u \in Threads : calls[u].task # "enroll"
    /\ orgFile = NoOrganization
    /\ org' = o /\ orgFile' = o
    /\ Start(t, [Idle EXCEPT !.pc = "compute", !.task = "enroll"])
    /\ UNCHANGED <<prefs, prefsFile, admin, adminFile, effective, machine, tracker, serving,
                   drifts>>

\* enroll.stop clears the layers; local_admin keeps what it had.
EnrollStop(t) ==
    /\ Asked
    /\ \A u \in Threads : calls[u].task # "enroll"
    /\ orgFile # NoOrganization
    /\ org' = [org EXCEPT !.layers = <<>>]
    /\ orgFile' = NoOrganization
    /\ Start(t, [Idle EXCEPT !.pc = "compute", !.task = "enroll"])
    /\ UNCHANGED <<prefs, prefsFile, admin, adminFile, effective, machine, tracker, serving,
                   drifts>>

\* recompute_effective: the document is computed from the stores, and stored
\* under another lock.
Compute(t) ==
    /\ At(t, "compute")
    /\ calls' = [calls EXCEPT ![t].pc = "publish",
                              ![t].doc = ComputeEffective(prefs, org, admin)]
    /\ UNCHANGED <<layers, effective, machine, tracker, serving, changes, drifts>>

Publish(t) ==
    /\ At(t, "publish")
    /\ effective' = calls[t].doc
    /\ calls' = [calls EXCEPT ![t].doc = None,
                    ![t].pc = IF calls[t].task = "enroll" THEN "snapshot" ELSE "read"]
    /\ UNCHANGED <<layers, machine, tracker, serving, changes, drifts>>

-----------------------------------------------------------------------------
\* settle_layer_change

Read(t) ==
    /\ At(t, "read")
    /\ calls' = [calls EXCEPT ![t].pc = "observe", ![t].value = effective[calls[t].cap].value]
    /\ UNCHANGED <<layers, effective, machine, tracker, serving, changes, drifts>>

MarkSettled(c) == states' = [states EXCEPT ![c] = "compliant"] /\ ClearFailures(c)

Observe(t) ==
    LET c == calls[t].cap
        already == machine[c] = calls[t].value
    IN  /\ At(t, "observe")
        /\ \/ already /\ MarkSettled(c) /\ Return(t)
           \/ /\ ~already \/ "observe" \in faulty
              /\ Goto(t, "apply")
              /\ UNCHANGED tracker
        /\ UNCHANGED <<layers, effective, machine, serving, changes, drifts>>

\* A backend's apply takes effect, or reports success without it; it may
\* also fail, which each caller handles in its own way.
Apply(t, c, pc) ==
    \/ machine' = [machine EXCEPT ![c] = calls[t].value] /\ Goto(t, pc)
    \/ "apply" \in faulty /\ UNCHANGED machine /\ Goto(t, pc)

ApplySet(t) ==
    /\ At(t, "apply")
    /\ \/ Apply(t, calls[t].cap, "verify")
       \/ "apply" \in faulty /\ UNCHANGED machine /\ Return(t)
    /\ UNCHANGED <<layers, effective, tracker, serving, changes, drifts>>

VerifySet(t) ==
    LET c == calls[t].cap
    IN  /\ At(t, "verify")
        /\ Return(t)
        /\ \/ machine[c] = calls[t].value /\ MarkSettled(c)
           \/ /\ machine[c] # calls[t].value \/ "observe" \in faulty
              /\ UNCHANGED tracker
        /\ UNCHANGED <<layers, effective, machine, serving, changes, drifts>>

-----------------------------------------------------------------------------
\* reconcile_and_remediate and plan_and_remediate

\* The timer's `punarctl reconcile`, or a caller's.
Reconcile(t) ==
    /\ Start(t, [Idle EXCEPT !.pc = "snapshot", !.task = "reconcile"])
    /\ UNCHANGED <<layers, effective, machine, tracker, serving, changes, drifts>>

Snapshot(t) ==
    /\ At(t, "snapshot")
    /\ calls' = [calls EXCEPT ![t].pc = "inspect", ![t].next = 1, ![t].doc = effective]
    /\ UNCHANGED <<layers, effective, machine, tracker, serving, changes, drifts>>

\* On to the next capability, or the end of the pass; the boot pass opens
\* the socket.
Advance(t) ==
    IF calls[t].next < Len(Registry)
    THEN /\ calls' = [calls EXCEPT ![t].pc = "inspect", ![t].next = @ + 1, ![t].count = 0,
                                   ![t].cap = None, ![t].value = None]
         /\ UNCHANGED serving
    ELSE Return(t) /\ serving' = TRUE

Suppressed(n) == n >= MAX_REMEDIATION_ATTEMPTS
LoopProtected(c) == Suppressed(failCounts[c])

Inspect(t) ==
    LET c == Registry[calls[t].next]
        desired == calls[t].doc[c].value
        state(s) == states' = [states EXCEPT ![c] = s]
    IN  /\ At(t, "inspect")
        /\ \/ /\ "observe" \in faulty
              /\ state("unknown") /\ Advance(t)
              /\ UNCHANGED <<failCounts, tries>>
           \/ /\ machine[c] = desired
              /\ state("compliant") /\ ClearFailures(c) /\ Advance(t)
           \/ /\ machine[c] # desired /\ LoopProtected(c)
              /\ state("non_compliant") /\ Advance(t)
              /\ UNCHANGED <<failCounts, tries>>
           \/ /\ machine[c] # desired /\ ~LoopProtected(c)
              /\ calls' = [calls EXCEPT ![t].pc = "remediate", ![t].cap = c,
                                        ![t].value = desired, ![t].count = failCounts[c]]
              /\ UNCHANGED <<tracker, serving>>
        /\ UNCHANGED <<layers, effective, machine, changes, drifts>>

Remediate(t) ==
    /\ At(t, "remediate")
    /\ \/ Apply(t, calls[t].cap, "check")
       \/ "apply" \in faulty /\ UNCHANGED machine /\ Goto(t, "failed")
    /\ UNCHANGED <<layers, effective, tracker, serving, changes, drifts>>

\* Mutant: a failed attempt is not counted.
FailedUncounted(t, c) ==
    /\ states' = [states EXCEPT ![c] = "remediating"]
    /\ tries' = [tries EXCEPT ![c] = Count(@)]
    /\ UNCHANGED failCounts

\* The count is the one read before the attempt.
Failed(t, c) ==
    LET attempts == calls[t].count + 1
    IN  /\ failCounts' = [failCounts EXCEPT ![c] = attempts]
        /\ states' = [states EXCEPT
                        ![c] = IF Suppressed(attempts) THEN "non_compliant" ELSE "remediating"]
        /\ tries' = [tries EXCEPT ![c] = Count(@)]

Check(t) ==
    LET c == calls[t].cap
    IN  /\ \/ /\ At(t, "check")
              /\ machine[c] = calls[t].value
              /\ states' = [states EXCEPT ![c] = "compliant"]
              /\ ClearFailures(c)
           \/ /\ \/ At(t, "check") /\ (machine[c] # calls[t].value \/ "observe" \in faulty)
                 \/ At(t, "failed")
              /\ Failed(t, c)
        /\ Advance(t)
        /\ UNCHANGED <<layers, effective, machine, changes, drifts>>

-----------------------------------------------------------------------------
\* Somebody changes the machine by other means.
Drift(c, v) ==
    /\ drifts < MaxDrifts
    /\ v # machine[c]
    /\ machine' = [machine EXCEPT ![c] = v]
    /\ drifts' = drifts + 1
    /\ UNCHANGED <<layers, effective, tracker, calls, serving, changes>>

\* The daemon is killed and started again: Daemon::new loads the stores, and
\* the boot pass runs before the socket opens.
Restart ==
    /\ "crash" \in faulty
    /\ prefs' = prefsFile /\ admin' = adminFile /\ org' = orgFile
    /\ effective' = ComputeEffective(prefsFile, orgFile, adminFile)
    /\ states' = [c \in Caps |-> "unknown"]
    /\ failCounts' = [c \in Caps |-> 0]
    /\ tries' = [c \in Caps |-> 0]
    /\ calls' = [t \in Threads |-> IF t = Boot THEN [Idle EXCEPT !.pc = "snapshot",
                                                                !.task = "reconcile"] ELSE Idle]
    /\ serving' = FALSE
    /\ UNCHANGED <<prefsFile, adminFile, orgFile, machine, changes, drifts>>

Step(t) ==
    \/ Pin(t) \/ Compute(t) \/ Publish(t)
    \/ Read(t) \/ Observe(t) \/ ApplySet(t) \/ VerifySet(t)
    \/ Snapshot(t) \/ Inspect(t) \/ Remediate(t) \/ Check(t)

Next ==
    \/ \E t \in Threads :
        \/ \E c \in Caps, v \in Values : CapabilitiesSet(t, c, v)
        \/ \E c \in Caps, v \in Maybe(Values) : PolicySet(t, c, v)
        \/ \E o \in OrgPolicies : EnrollStart(t, o)
        \/ EnrollStop(t)
        \/ Reconcile(t)
        \/ Step(t)
    \/ \E c \in Caps, v \in Values : Drift(c, v)
    \/ Restart

Spec == Init /\ [][Next /\ UNCHANGED faulty]_vars

-----------------------------------------------------------------------------
Call == [pc : PCs, task : Tasks, cap : Maybe(Caps), value : Maybe(Values),
         doc : Maybe(EffectiveDocument), next : 0 .. Len(Registry),
         count : 0 .. MAX_REMEDIATION_ATTEMPTS]

\* Every variable has its type; in particular a failure count never passes
\* the limit (plan_and_remediate reads it before it adds one).
TypeOK ==
    /\ prefs \in [Caps -> Maybe(Values)] /\ prefsFile \in [Caps -> Maybe(Values)]
    /\ admin \in [Caps -> Maybe(Values)] /\ adminFile \in [Caps -> Maybe(Values)]
    /\ org \in Loaded /\ orgFile \in Loaded
    /\ effective \in EffectiveDocument
    /\ machine \in [Caps -> Values]
    /\ states \in [Caps -> ComplianceStates]
    /\ failCounts \in [Caps -> 0 .. MAX_REMEDIATION_ATTEMPTS]
    /\ calls \in [Threads -> Call]
    /\ serving \in BOOLEAN /\ faulty \subseteq {"persist", "apply", "observe", "crash"}
    /\ tries \in [Caps -> 0 .. MAX_REMEDIATION_ATTEMPTS + 1]
    /\ changes \in 0 .. MaxCalls
    /\ drifts \in 0 .. MaxDrifts

\* No layer change is on its way to the document.
Settled == \A t \in Threads : calls[t].pc \notin {"pin", "compute", "publish"}

\* Entry i outranks entry j: a higher rung, or the same and pushed earlier.
WinsOver(entries, i, j) ==
    \/ Rung(entries[i].rank) > Rung(entries[j].rank)
    \/ Rung(entries[i].rank) = Rung(entries[j].rank) /\ i <= j

\* Between layer changes, the document holds for each capability the opinion
\* no other opinion outranks: the ladder decides, and on a rung the first
\* one pushed (compute_effective, merge, recompute_effective).  A failed
\* write is an opinion in memory that the document does not have yet.
EffectiveFollowsLadder ==
    Settled /\ "persist" \notin faulty =>
        \A c \in Caps :
            LET entries == Candidates(c, prefs, org, admin)
            IN  \E i \in DOMAIN entries :
                    /\ effective[c] = entries[i]
                    /\ \A j \in DOMAIN entries : WinsOver(entries, i, j)

PinWins(c) ==
    \A v \in Values : ComputeEffective(prefs, org, [admin EXCEPT ![c] = v])[c].value = v
PreferenceWins(c) ==
    \A v \in Values : ComputeEffective([prefs EXCEPT ![c] = v], org, admin)[c].value = v

\* policy.effective and policy.explain: who wins, and who may change it.
Offer(c) == [winner |-> effective[c], admin |-> AdminMayOverride(effective[c]),
             user |-> UserOverridePermitted(effective[c])]

\* What policy.effective offers is what would happen: an administrator is
\* offered exactly the paths their pin would win, a user exactly the paths
\* their preference would win (admin_may_override, user_override_permitted).
OffersAreHonest ==
    Settled /\ "persist" \notin faulty =>
        \A c \in Caps :
            Offer(c).admin = PinWins(c) /\ Offer(c).user = PreferenceWins(c)

=============================================================================
