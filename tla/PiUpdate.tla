------------------------------ MODULE PiUpdate ------------------------------
(***************************************************************************)
(* The Raspberry Pi system-image transaction of punard (pi_update.rs): a   *)
(* release is written to the inactive root and boot slots, the firmware    *)
(* tries it once (tryboot), and update.reconcile_candidate makes it the    *)
(* ordinary slot, or records the fallback, after an audit event and before *)
(* the pending record goes.  Every write is a step.                        *)
(***************************************************************************)
EXTENDS Integers, FiniteSets

CONSTANTS
    Versions, Factory, Sound, Torn, None,
    MaxFaults, MaxRollbacks

VARIABLES
    root,               \* what each root slot holds
    bootfs,             \* what each boot slot holds
    normal,             \* autoboot.txt: the ordinary slot; tryboot takes the other
    previous,           \* autoboot.previous: its ordinary slot, or None
    pending,            \* pending-pi.json
    boot,               \* the running system: its slot, the firmware's tryboot flag, where
                        \* the health service is, whether it wrote a passing report, and
                        \* whether the caller of an apply is about to restart it
    call,               \* the operation that holds update_lock
    audited,            \* history: releases whose outcome was audited since staged
    good,               \* history: slots whose release was installed or blessed
    astray,             \* history: a rollback chose a slot not in good
    faults, rollbacks

disk == <<root, bootfs, good>>
selector == <<normal, previous>>
bounds == <<faults, rollbacks>>
vars == <<disk, selector, pending, boot, call, audited, astray, bounds>>

Slots == {"A", "B"}
Inactive(s) == CHOOSE t \in Slots : t # s
Idle == [pc |-> "idle", version |-> Factory, slot |-> "A"]
Off == [up |-> FALSE, slot |-> "A", tryboot |-> FALSE,
        gate |-> "done", report |-> FALSE, restart |-> FALSE]

Init ==
    /\ root = [s \in Slots |-> IF s = "A" THEN Factory ELSE Torn]
    /\ bootfs = root
    /\ normal = "A" /\ previous = None
    /\ pending = None
    /\ boot = [Off EXCEPT !.up = TRUE]
    /\ call = Idle
    /\ audited = {} /\ good = {"A"} /\ astray = FALSE
    /\ faults = 0 /\ rollbacks = 0

At(pc) == call.pc = pc
Goto(pc) == call' = [call EXCEPT !.pc = pc]
Return == call' = Idle
\* Failed writes, missed health windows and losses of power share a budget.
Fault == faults < MaxFaults /\ faults' = faults + 1
Whole(s) == root[s] # Torn /\ bootfs[s] = root[s]

-----------------------------------------------------------------------------
\* What the firmware and the partitions say.

\* PiBootObservation::read
Observation == [slot |-> boot.slot, tryboot |-> boot.tryboot]
\* verify_selector: autoboot.txt names this slot for an ordinary start.
VerifySelector(s) == normal = s
\* verify_boot_filesystem: the boot slot mounts and has the files of a release.
VerifyBootFilesystem(s) == bootfs[s] # Torn
\* root_version and candidate_root_version: IMAGE_VERSION of a slot that mounts.
RootVersion(s) == root[s]
\* validate_running_root: the kernel runs read-only on the root of this slot.
ValidateRunningRoot(s) == boot.slot = s
\* validate_health_report: all four signals of this boot.
ValidateHealthReport == boot.report

-----------------------------------------------------------------------------
\* stage_bundle

StageBegin(v) ==
    /\ boot.up /\ At("idle")
    /\ pending = None
    /\ ~Observation.tryboot
    /\ VerifySelector(Observation.slot)
    /\ v > root[boot.slot]
    /\ call' = [pc |-> "root", version |-> v, slot |-> Inactive(boot.slot)]
    /\ UNCHANGED <<disk, selector, pending, boot, audited, astray, bounds>>

\* The slot stops being the release it was with the first byte.
OpenRoot ==
    /\ At("root")
    /\ root' = [root EXCEPT ![call.slot] = Torn]
    /\ good' = good \ {call.slot}
    /\ Goto("verifyRoot")
    /\ UNCHANGED <<bootfs, selector, pending, boot, audited, astray, bounds>>

\* write_root_payload and digest_installed_partition
WriteRoot ==
    /\ At("verifyRoot")
    /\ root' = [root EXCEPT ![call.slot] = call.version]
    /\ bootfs' = [bootfs EXCEPT ![call.slot] = Torn]
    /\ Goto("verifyBoot")
    /\ UNCHANGED <<good, selector, pending, boot, audited, astray, bounds>>

\* copy_exact_artifact, its digest, the boot filesystem and the selector.
WriteBoot ==
    /\ At("verifyBoot")
    /\ bootfs' = [bootfs EXCEPT ![call.slot] = call.version]
    /\ IF VerifySelector(boot.slot) THEN Goto("pending") ELSE Return
    /\ UNCHANGED <<root, good, selector, pending, boot, audited, astray, bounds>>

WritePending ==
    /\ At("pending")
    /\ pending' = [version |-> call.version, slot |-> call.slot]
    /\ audited' = audited \ {call.version}
    /\ boot' = [boot EXCEPT !.restart = TRUE]
    /\ Return
    /\ UNCHANGED <<disk, selector, astray, bounds>>

-----------------------------------------------------------------------------
\* reconcile_candidate, and the handler's audit and finalize_pending

FirmwareFallback == /\ ~boot.tryboot /\ boot.slot = Inactive(pending.slot)
                    /\ normal = Inactive(pending.slot)
PostcommitRecovery == boot.slot = pending.slot /\ normal = pending.slot
BlessedCandidate == /\ boot.tryboot /\ boot.slot = pending.slot
                    /\ normal = Inactive(pending.slot)

\* validate_running_candidate: the health report of this boot, the exact
\* bytes of both slots and the version.
ValidateRunningCandidate ==
    /\ ValidateRunningRoot(pending.slot)
    /\ ValidateHealthReport
    /\ bootfs[pending.slot] = pending.version /\ VerifyBootFilesystem(pending.slot)
    /\ RootVersion(pending.slot) = pending.version

CanRecover == PostcommitRecovery /\ previous = Inactive(pending.slot) /\ ValidateRunningCandidate
CanBless == BlessedCandidate /\ ValidateRunningCandidate

Outcome(pc) == /\ call' = [pc |-> pc, version |-> pending.version, slot |-> pending.slot]
               /\ boot' = [boot EXCEPT !.gate = IF @ = "call" THEN "done" ELSE @]

\* Called by the health service, or by an administrator at any other time.
Reconcile ==
    /\ boot.up /\ At("idle")
    /\ pending # None
    /\ \/ FirmwareFallback /\ Outcome("audit")
       \/ CanRecover /\ Outcome("audit")
       \/ CanBless /\ Outcome("backup")
    /\ UNCHANGED <<disk, selector, pending, audited, astray, bounds>>

\* A refused call ends the service for this boot.
ReconcileRefused ==
    /\ boot.up /\ At("idle") /\ boot.gate = "call"
    /\ ~(pending # None /\ (FirmwareFallback \/ CanRecover \/ CanBless))
    /\ boot' = [boot EXCEPT !.gate = "done"]
    /\ UNCHANGED <<disk, selector, pending, call, audited, astray, bounds>>

\* The selector in force is kept before it is replaced.
BackupSelector ==
    /\ At("backup")
    /\ previous' = normal
    /\ Goto("commit")
    /\ UNCHANGED <<disk, normal, pending, boot, audited, astray, bounds>>

CommitSelector ==
    /\ At("commit")
    /\ normal' = call.slot
    /\ good' = good \cup {call.slot}
    /\ Goto("audit")
    /\ UNCHANGED <<root, bootfs, previous, pending, boot, audited, astray, bounds>>

\* log_pi_reconcile_required
\* A failed append is the operation's failure and leaves the record.
AuditOutcome ==
    /\ At("audit")
    /\ audited' = audited \cup {call.version}
    /\ Goto("finalize")
    /\ UNCHANGED <<disk, selector, pending, boot, astray, bounds>>

FinalizePending ==
    /\ At("finalize")
    /\ pending' = None
    /\ Return
    /\ UNCHANGED <<disk, selector, boot, audited, astray, bounds>>

-----------------------------------------------------------------------------
\* rollback

\* A named version must be the one in the other root slot; no name, no look.
Rollback ==
    /\ boot.up /\ At("idle")
    /\ rollbacks < MaxRollbacks
    /\ pending = None
    /\ normal = boot.slot /\ previous = Inactive(boot.slot)
    /\ call' = [Idle EXCEPT !.pc = "keep", !.slot = Inactive(boot.slot)]
    /\ rollbacks' = rollbacks + 1
    /\ UNCHANGED <<disk, selector, pending, boot, audited, astray, faults>>

KeepSelector ==
    /\ At("keep")
    /\ previous' = normal
    /\ Goto("swap")
    /\ UNCHANGED <<disk, normal, pending, boot, audited, astray, bounds>>

SwapSelector ==
    /\ At("swap")
    /\ normal' = call.slot
    /\ astray' = (astray \/ call.slot \notin good)
    /\ Return
    /\ UNCHANGED <<disk, previous, pending, boot, audited, bounds>>

\* Any step may end the operation with an error; what was written stays.
Fail ==
    /\ ~At("idle")
    /\ Fault
    /\ Return
    /\ UNCHANGED <<disk, selector, pending, boot, audited, astray, rollbacks>>

-----------------------------------------------------------------------------
\* The machine and its firmware.

PowerOff ==
    /\ boot.up
    /\ Fault
    /\ boot' = Off
    /\ Return
    /\ UNCHANGED <<disk, selector, pending, audited, astray, rollbacks>>

\* The health service starts with the boot when there is a pending record.
Booted(s, try) ==
    boot' = [Off EXCEPT !.up = TRUE, !.slot = s, !.tryboot = try,
                        !.gate = IF pending # None THEN "wait" ELSE "done"]

\* An ordinary start; a torn slot does not come up.
PowerOn ==
    /\ ~boot.up
    /\ IF Whole(normal) THEN Booted(normal, FALSE) ELSE UNCHANGED boot
    /\ UNCHANGED <<disk, selector, pending, call, audited, astray, bounds>>

\* `reboot "0 tryboot"` after an apply: the firmware starts the other slot
\* once; if it does not come up, the watchdog's reset is an ordinary start.
Tryboot ==
    /\ boot.up /\ boot.restart /\ At("idle")
    /\ \/ Whole(Inactive(normal)) /\ Booted(Inactive(normal), TRUE)
       \/ /\ ~Whole(Inactive(normal)) \/ root[Inactive(normal)] \notin Sound
          /\ Whole(normal) /\ Booted(normal, FALSE)
    /\ UNCHANGED <<disk, selector, pending, call, audited, astray, bounds>>

\* An ordinary restart; the service asks for one after a blessing.  One that
\* cuts the service short is like a loss of power.
Reboot ==
    /\ boot.up /\ At("idle") /\ boot.gate = "done"
    /\ boot' = Off
    /\ UNCHANGED <<disk, selector, pending, call, audited, astray, bounds>>

\* pi_firmware_fallback_observed
FallbackObserved ==
    pending # None /\ ~boot.tryboot /\ boot.slot = Inactive(pending.slot)

\* The service sees a fallback, or all four signals, and calls the daemon; or
\* it gives up: an unsound release never shows all four, a sound one may not
\* show them in time.
HealthGate ==
    /\ boot.up /\ boot.gate = "wait"
    /\ \/ /\ FallbackObserved
          /\ boot' = [boot EXCEPT !.gate = "call"] /\ UNCHANGED faults
       \/ /\ ~FallbackObserved /\ root[boot.slot] \in Sound
          /\ boot' = [boot EXCEPT !.gate = IF pending # None THEN "call" ELSE "done",
                                  !.report = TRUE]
          /\ UNCHANGED faults
       \/ /\ ~FallbackObserved
          /\ boot' = [boot EXCEPT !.gate = "done"]
          /\ IF root[boot.slot] \in Sound THEN Fault ELSE UNCHANGED faults
    /\ UNCHANGED <<disk, selector, pending, call, audited, astray, rollbacks>>

Service == HealthGate \/ ReconcileRefused
Step == \/ OpenRoot \/ WriteRoot \/ WriteBoot \/ WritePending
        \/ BackupSelector \/ CommitSelector \/ AuditOutcome \/ FinalizePending
        \/ KeepSelector \/ SwapSelector
Next ==
    \/ \E v \in Versions : StageBegin(v)
    \/ Step \/ Fail \/ Reconcile \/ Rollback
    \/ PowerOn \/ Tryboot \/ Reboot \/ PowerOff \/ Service

Spec == Init /\ [][Next]_vars
\* The device is restarted now and then, and its health service is not kept
\* from the lock for ever.
Fairness == /\ WF_vars(Step) /\ WF_vars(PowerOn) /\ WF_vars(Service)
            /\ SF_vars(Reboot) /\ SF_vars(Reconcile)
FairSpec == Spec /\ Fairness

-----------------------------------------------------------------------------
(* Properties *)

Content == Versions \cup {Torn}
TypeOK ==
    /\ {root, bootfs} \subseteq [Slots -> Content]
    /\ normal \in Slots /\ previous \in Slots \cup {None}
    /\ pending \in [version : Versions, slot : Slots] \cup {None}
    /\ boot \in [up : BOOLEAN, slot : Slots, tryboot : BOOLEAN,
                 gate : {"wait", "call", "done"}, report : BOOLEAN, restart : BOOLEAN]
    /\ call \in [pc : {"idle", "root", "verifyRoot", "verifyBoot", "pending", "backup", "commit",
                       "audit", "finalize", "keep", "swap"},
                 version : Versions, slot : Slots]
    /\ audited \subseteq Versions /\ good \subseteq Slots /\ astray \in BOOLEAN
    /\ faults \in 0 .. MaxFaults /\ rollbacks \in 0 .. MaxRollbacks

\* The ordinary slot holds a whole release that was installed or passed its
\* health gate there, unless a rollback was asked for without a version and
\* the other slot had been written to since.
NormalIsGood == astray \/ (normal \in good /\ Whole(normal) /\ root[normal] \in Sound)

=============================================================================
