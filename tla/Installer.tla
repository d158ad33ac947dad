----------------------------- MODULE Installer -----------------------------
(***************************************************************************)
(* The installer of a live boot (install.rs and the install.* handlers):   *)
(* install.plan registers what a person is asked to confirm, install.apply *)
(* runs the nine phases against the disk, install.recovery_ack answers its *)
(* recovery checkpoint from another connection.  A step is one write to    *)
(* the disk, one published status or one critical section of the gate.     *)
(*                                                                         *)
(* A status is written to its file and then to memory under one lock, and  *)
(* the start of the daemon publishes an idle one, so one variable stands   *)
(* for both.                                                               *)
(***************************************************************************)
EXTENDS Integers, FiniteSets, Sequences, Functions

CONSTANTS
    PLAN_REGISTRY_LIMIT,
    MaxPlans, MaxStarts, MaxFaults,      \* bounds
    None

VARIABLES
    platform,           \* "uefi" or "pi"
    disk,               \* the selected disk
    status,             \* install-status.json and its copy in memory
    plans,              \* PlanRegistry: the admissible tokens, oldest first
    given,              \* tokens a caller was handed
    gate,               \* RecoveryGate
    seedDigest,         \* the seed this boot wrote
    call,               \* the holder of install_in_progress
    liveAudit,          \* the live medium's audit log
    custody,            \* history: keys a person confirmed or the organization holds
    starts, faults

memory == <<status, plans, gate, seedDigest, call>>
bounds == <<starts, faults>>
vars == <<platform, disk, memory, given, liveAudit, custody, bounds>>

ASSUME LimitsAssumption ==
    PLAN_REGISTRY_LIMIT \in Nat \ {0} /\ {MaxPlans, MaxStarts, MaxFaults} \subseteq Nat

VerifyRelease == 0
Partition == 1
Encrypt == 2
Format == 3
WriteSlotA == 4
ReRead == 5
Boot == 6
Seed == 7
VerifyInstalled == 8

Modes == {"personal", "organization", "none"}
Tables == {"blank", "other", "torn", "punar"}
\* plan_token hashes the plan: the disk as it was seen and the answers.
Tokens == [table : Tables, mode : Modes]

\* The root slots a release fills, in the order they are written.
RootSlots == IF platform = "uefi" THEN <<"A", "B">> ELSE <<"A">>

IdleStatus == [state |-> "idle", phase |-> None, token |-> None, written |-> 0]
IdleGate == [state |-> "idle", token |-> None, key |-> 0]
IdleCall == [pc |-> "idle", token |-> None, unattended |-> FALSE]
\* A disk whose partition table is t and that holds nothing of Punar's.
Bare(t) == [table |-> t, encrypted |-> FALSE, key |-> 0,
            roots |-> [s \in {"A", "B"} |-> "blank"], boot |-> FALSE,
            files |-> FALSE, seed |-> None, audit |-> {}]

Init ==
    /\ platform \in {"uefi", "pi"}
    /\ disk \in {Bare("blank"), Bare("punar")}
    /\ status = IdleStatus /\ plans = <<>> /\ given = {}
    /\ gate = IdleGate /\ seedDigest = None /\ call = IdleCall
    /\ liveAudit = {} /\ custody = {}
    /\ starts = 0 /\ faults = 0

At(pc) == call.pc = pc
Goto(pc) == call' = [call EXCEPT !.pc = pc]
Return == call' = IdleCall
Fault == faults < MaxFaults /\ faults' = faults + 1
Mode == call.token.mode
Actor == IF call.unattended THEN "service" ELSE "human"
Active == status.state \in {"running", "awaiting"}

\* require_transaction_phase
Bound(phase) == /\ status.state = "running"
                /\ status.token = call.token /\ status.phase = phase

-----------------------------------------------------------------------------
\* install.plan

Insert(token) ==
    LET order == Append(SelectSeq(plans, LAMBDA p : p # token), token)
    IN IF Len(order) > PLAN_REGISTRY_LIMIT THEN Tail(order) ELSE order

\* The token is registered first; without its audit record it is not handed out.
Plan(mode) ==
    LET token == [table |-> disk.table, mode |-> mode]
    IN /\ token \in given \/ Cardinality(given) < MaxPlans
       /\ plans' = Insert(token)
       /\ \/ /\ liveAudit' = liveAudit \cup {<<"plan", "human">>}
             /\ given' = given \cup {token}
             /\ UNCHANGED faults
          \/ Fault /\ UNCHANGED <<liveAudit, given>>
       /\ UNCHANGED <<platform, disk, status, gate, seedDigest, call, custody, starts>>

-----------------------------------------------------------------------------
\* install.apply, up to the first write

\* One caller at a time holds the guard.  A call that finds a transaction
\* still active is one more chance to publish its failure.
ApplyBegin(token, unattended) ==
    /\ At("idle")
    /\ starts < MaxStarts \/ Active
    /\ call' = [pc |-> "preflight", token |-> token, unattended |-> unattended]
    /\ UNCHANGED <<platform, disk, status, plans, gate, seedDigest, given, liveAudit,
                   custody, bounds>>

\* preflight_apply: a registered token that a fresh look at the disk produces again.
Preflight ==
    /\ At("preflight")
    /\ IF /\ \E i \in DOMAIN plans : plans[i] = call.token
          /\ call.unattended => Mode = "personal"
          /\ call.token.table = disk.table
       THEN Goto(IF call.unattended THEN "authorize" ELSE "start")
       ELSE Goto("fail")
    /\ UNCHANGED <<platform, disk, status, plans, gate, seedDigest, given, liveAudit,
                   custody, bounds>>

\* verify_unattended_authorization, and the plan event of the service
Authorize ==
    /\ At("authorize")
    /\ liveAudit' = liveAudit \cup {<<"plan", "service">>}
    /\ Goto("start")
    /\ UNCHANGED <<platform, disk, status, plans, gate, seedDigest, given, custody, bounds>>

StartTransactionStatus ==
    /\ At("start")
    /\ IF Active \/ status.state = "succeeded"
       THEN Goto("fail") /\ UNCHANGED <<status, seedDigest, starts>>
       ELSE /\ status' = [state |-> "running", phase |-> VerifyRelease,
                          token |-> call.token, written |-> 0]
            /\ seedDigest' = None
            /\ starts' = starts + 1
            /\ Goto("release")
    /\ UNCHANGED <<platform, disk, plans, gate, given, liveAudit, custody, faults>>

\* enter_phase: to the next phase, from a running transaction; the re-read
\* only once every root slot is written.
EnterPhase(pc, phase, next) ==
    /\ At(pc)
    /\ status.state = "running"
    /\ status.phase = phase - 1
    /\ phase = ReRead => status.written = Len(RootSlots)
    /\ status' = [status EXCEPT !.phase = phase]
    /\ Goto(next)
    /\ UNCHANGED <<platform, disk, plans, gate, seedDigest, given, liveAudit, custody, bounds>>

Enter == \/ EnterPhase("release", Partition, "layout")
         \/ EnterPhase("table", Encrypt, IF Mode = "none" THEN "format" ELSE "enroll")
         \/ EnterPhase("format", Format, "formatted")
         \/ EnterPhase("formatted", WriteSlotA, "write")
         \/ EnterPhase("written", ReRead, "reread")
         \/ EnterPhase("reread ok", Boot, "boot")
         \/ EnterPhase("booted", Seed, "seed")
         \/ EnterPhase("seeded", VerifyInstalled, "installed")

-----------------------------------------------------------------------------
\* The disk layout

\* prepare_disk_layout looks once more before systemd-repart starts writing.
\* The moment between this look and repart's own open is part of the step.
PrepareDiskLayout ==
    /\ At("layout") /\ Bound(Partition)
    /\ IF call.token.table = disk.table
       THEN disk' = Bare("torn") /\ Goto("repart")
       ELSE Goto("fail") /\ UNCHANGED disk
    /\ UNCHANGED <<platform, status, plans, gate, seedDigest, given, liveAudit, custody, bounds>>

\* The exit of systemd-repart and, on UEFI, the table read back.
Repart ==
    /\ At("repart")
    /\ disk' = [disk EXCEPT !.table = "punar", !.encrypted = (Mode # "none")]
    /\ Goto("table")
    /\ UNCHANGED <<platform, status, plans, gate, seedDigest, given, liveAudit, custody, bounds>>

-----------------------------------------------------------------------------
\* The recovery key and its checkpoint

\* enroll_recovery_key; a transaction makes one key
EnrollRecoveryKey ==
    /\ At("enroll") /\ Bound(Encrypt)
    /\ disk' = [disk EXCEPT !.key = starts]
    /\ Goto("enrolled")
    /\ UNCHANGED <<platform, status, plans, gate, seedDigest, given, liveAudit, custody, bounds>>

\* log_install_event_required
AuditEnrolment ==
    /\ At("enrolled")
    /\ liveAudit' = liveAudit \cup {<<"recovery", Actor>>}
    /\ Goto(IF Mode = "personal" THEN "disclose" ELSE "escrow")
    /\ UNCHANGED <<platform, disk, status, plans, gate, seedDigest, given, custody, bounds>>

Arm(state) == gate' = [state |-> state, token |-> call.token, key |-> disk.key]
Await == /\ status.state = "running" /\ status.phase = Encrypt
         /\ status' = [status EXCEPT !.state = "awaiting"]

\* The gate is armed once the key has been disclosed, before the status says so.
BeginPersonalRecovery ==
    /\ At("disclose")
    /\ IF gate = IdleGate
       THEN Arm("personal") /\ Goto("await")
       ELSE Goto("fail") /\ UNCHANGED gate
    /\ UNCHANGED <<platform, disk, status, plans, seedDigest, given, liveAudit, custody, bounds>>

AwaitRecoveryStatus ==
    /\ At("await") /\ Await
    /\ Goto("wait")
    /\ UNCHANGED <<platform, disk, plans, gate, seedDigest, given, liveAudit, custody, bounds>>

\* install.recovery_ack with the right groups, on a connection of its own;
\* any other acknowledgement leaves the gate as it is.
AcknowledgePersonalRecovery(token) ==
    /\ gate.state = "personal" /\ gate.token = token
    /\ gate' = [gate EXCEPT !.state = "confirmed"]
    /\ custody' = custody \cup {gate.key}
    /\ UNCHANGED <<platform, disk, status, plans, seedDigest, call, given, liveAudit, bounds>>

\* wait_for_personal_recovery has no timeout.
WaitForPersonalRecovery ==
    /\ At("wait")
    /\ gate.state = "confirmed" /\ gate.token = call.token
    /\ gate' = IdleGate
    /\ Goto("resume")
    /\ UNCHANGED <<platform, disk, status, plans, seedDigest, given, liveAudit, custody, bounds>>

Resume == /\ status.state = "awaiting" /\ status.phase = Encrypt
          /\ status' = [status EXCEPT !.state = "running"]

ResumeRecoveryStatus ==
    /\ At("resume") /\ Resume
    /\ Goto("format")
    /\ UNCHANGED <<platform, disk, plans, gate, seedDigest, given, liveAudit, custody, bounds>>

\* The status waits before the key is in the gate; both under the gate's lock.
BeginOrganizationRecovery ==
    /\ At("escrow") /\ Bound(Encrypt)
    /\ IF gate = IdleGate
       THEN Await /\ Arm("organization") /\ Goto("attempt")
       ELSE Goto("fail") /\ UNCHANGED <<status, gate>>
    /\ UNCHANGED <<platform, disk, plans, seedDigest, given, liveAudit, custody, bounds>>

\* attempt_organization_recovery with a verified receipt
AttemptOrganizationRecovery ==
    /\ At("attempt")
    /\ gate.state = "organization" /\ gate.token = call.token
    /\ custody' = custody \cup {gate.key}
    /\ Resume
    /\ gate' = IdleGate
    /\ Goto("format")
    /\ UNCHANGED <<platform, disk, plans, seedDigest, given, liveAudit, bounds>>

\* The receipt was lost, or the status could not be written after it: the
\* handler sleeps and tries again with the same key.
AttemptAgain ==
    /\ At("attempt")
    /\ gate.state = "organization" /\ gate.token = call.token
    /\ custody' = custody \cup {gate.key}
    /\ UNCHANGED <<platform, disk, memory, given, liveAudit, bounds>>

-----------------------------------------------------------------------------
\* The release

Slot == RootSlots[status.written + 1]

\* write_root_slot_artifact: from the first byte the slot is torn, ...
OpenRootSlot ==
    /\ At("write") /\ Bound(WriteSlotA)
    /\ disk' = [disk EXCEPT !.roots[Slot] = "torn"]
    /\ Goto("stream")
    /\ UNCHANGED <<platform, status, plans, gate, seedDigest, given, liveAudit, custody, bounds>>

\* ... and at the last one the progress is published.  What the device keeps
\* may differ from what it was given.
WriteRootSlot ==
    /\ At("stream")
    /\ \/ disk' = [disk EXCEPT !.roots[Slot] = "release"] /\ UNCHANGED faults
       \/ disk' = [disk EXCEPT !.roots[Slot] = "corrupt"] /\ Fault
    /\ status' = [status EXCEPT !.written = @ + 1]
    /\ Goto(IF status'.written = Len(RootSlots) THEN "written" ELSE "write")
    /\ UNCHANGED <<platform, plans, gate, seedDigest, given, liveAudit, custody, starts>>

\* Mutant: only the first slot is read back.
VerifySlotA ==
    /\ At("reread") /\ Bound(ReRead)
    /\ Goto(IF disk.roots["A"] = "release" THEN "reread ok" ELSE "fail")
    /\ UNCHANGED <<platform, disk, status, plans, gate, seedDigest, given, liveAudit,
                   custody, bounds>>

VerifyWrittenRootSlots ==
    /\ At("reread") /\ Bound(ReRead)
    /\ Goto(IF \A s \in Range(RootSlots) : disk.roots[s] = "release"
            THEN "reread ok" ELSE "fail")
    /\ UNCHANGED <<platform, disk, status, plans, gate, seedDigest, given, liveAudit,
                   custody, bounds>>

\* The boot partition, unmounted and read back (both platforms).
InstallBootArtifact ==
    /\ At("boot") /\ Bound(Boot)
    /\ disk' = [disk EXCEPT !.boot = TRUE]
    /\ Goto("booted")
    /\ UNCHANGED <<platform, status, plans, gate, seedDigest, given, liveAudit, custody, bounds>>

-----------------------------------------------------------------------------
\* First-boot state

Acknowledgement ==
    IF Mode = "personal" THEN (IF call.unattended THEN "unattended" ELSE "human") ELSE Mode

\* machine-id, device-id, the answers and the hardware report
SeedFiles ==
    /\ At("seed") /\ Bound(Seed)
    /\ disk' = [disk EXCEPT !.files = TRUE]
    /\ Goto("document")
    /\ UNCHANGED <<platform, status, plans, gate, seedDigest, given, liveAudit, custody, bounds>>

\* seed.json is the last file written.
SeedDocument ==
    /\ At("document")
    /\ disk' = [disk EXCEPT !.seed = Acknowledgement]
    /\ seedDigest' = Acknowledgement
    /\ Goto("seeded")
    /\ UNCHANGED <<platform, status, plans, gate, given, liveAudit, custody, bounds>>

\* build_installed_audit_handoff: the live log with the terminal events
Handoff == liveAudit \cup {<<"apply", Actor>>}
                     \cup IF Mode = "none" THEN {} ELSE {<<"recovery", Actor>>}

\* Seed and root A read back, then the audit log handed over and read back.
VerifyInstalledSystem ==
    /\ At("installed") /\ Bound(VerifyInstalled)
    /\ IF /\ seedDigest # None /\ disk.seed = seedDigest /\ disk.files
          /\ disk.roots["A"] = "release"
          /\ <<"plan", Actor>> \in liveAudit
       THEN disk' = [disk EXCEPT !.audit = Handoff] /\ Goto("complete")
       ELSE Goto("fail") /\ UNCHANGED disk
    /\ UNCHANGED <<platform, status, plans, gate, seedDigest, given, liveAudit, custody, bounds>>

CompleteTransactionStatus ==
    /\ At("complete") /\ Bound(VerifyInstalled)
    /\ status' = [status EXCEPT !.state = "succeeded", !.phase = None]
    /\ seedDigest' = None
    /\ Return
    /\ UNCHANGED <<platform, disk, plans, gate, given, liveAudit, custody, bounds>>

-----------------------------------------------------------------------------
\* Failure

\* Any step of the executor may return an error (a device, a tool, a failed
\* verification, a status that could not be written).
Fails ==
    /\ call.pc \notin {"idle", "wait", "fail", "cancel"}
    /\ Fault
    /\ Goto("fail")
    /\ UNCHANGED <<platform, disk, status, plans, gate, seedDigest, given, liveAudit,
                   custody, starts>>

\* Mutant: an awaiting transaction is not failed.
FailRunningOnly ==
    /\ At("fail")
    /\ IF status.state = "running"
       THEN \/ /\ status' = [status EXCEPT !.state = "failed"]
               /\ Goto("cancel") /\ UNCHANGED faults
            \/ Fault /\ Return /\ UNCHANGED status
       ELSE Return /\ UNCHANGED <<status, faults>>
    /\ UNCHANGED <<platform, disk, plans, gate, seedDigest, given, liveAudit, custody, starts>>

\* The error arm of the handler publishes the failure of whatever is active,
\* if it can; the answer is given in any case.
FailTransactionStatus ==
    /\ At("fail")
    /\ IF Active
       THEN \/ /\ status' = [status EXCEPT !.state = "failed"]
               /\ Goto("cancel") /\ UNCHANGED faults
            \/ Fault /\ Return /\ UNCHANGED status
       ELSE Return /\ UNCHANGED <<status, faults>>
    /\ UNCHANGED <<platform, disk, plans, gate, seedDigest, given, liveAudit, custody, starts>>

\* cancel_recovery, for the token of the failed transaction
CancelRecovery ==
    /\ At("cancel")
    /\ gate' = IF gate.token = status.token THEN IdleGate ELSE gate
    /\ seedDigest' = None
    /\ Return
    /\ UNCHANGED <<platform, disk, status, plans, given, liveAudit, custody, bounds>>

\* The daemon stops and is started again in the same live boot: Installer::new
\* and initialize_status_file.
Restart ==
    /\ Fault
    /\ status' = IdleStatus /\ plans' = <<>> /\ gate' = IdleGate
    /\ seedDigest' = None /\ Return
    /\ UNCHANGED <<platform, disk, given, liveAudit, custody, starts>>

\* Before the layout is written, the disk may turn out to be another one.
DiskChanges ==
    /\ call.pc \in {"idle", "preflight", "authorize", "start", "release", "layout"}
    /\ status.state # "succeeded"
    /\ Fault
    /\ disk' = Bare("other")
    /\ UNCHANGED <<platform, memory, given, liveAudit, custody, starts>>

-----------------------------------------------------------------------------
Step == \/ Preflight \/ Authorize \/ StartTransactionStatus \/ Enter
        \/ PrepareDiskLayout \/ Repart
        \/ EnrollRecoveryKey \/ AuditEnrolment \/ BeginPersonalRecovery
        \/ AwaitRecoveryStatus \/ WaitForPersonalRecovery \/ ResumeRecoveryStatus
        \/ BeginOrganizationRecovery \/ AttemptOrganizationRecovery
        \/ OpenRootSlot \/ WriteRootSlot \/ VerifyWrittenRootSlots \/ InstallBootArtifact
        \/ SeedFiles \/ SeedDocument \/ VerifyInstalledSystem \/ CompleteTransactionStatus
        \/ FailTransactionStatus \/ CancelRecovery
Apply == \E t \in given, u \in BOOLEAN : ApplyBegin(t, u)
Acknowledge == \E t \in Tokens : AcknowledgePersonalRecovery(t)
Next == \/ \E m \in Modes : Plan(m)
        \/ Apply \/ Step \/ Acknowledge \/ AttemptAgain
        \/ Fails \/ Restart \/ DiskChanges

Spec == Init /\ [][Next]_vars
\* The apply thread runs, the person types the groups in the end, and a call
\* that found its transaction still active is made again.
Fairness == WF_vars(Step) /\ WF_vars(Acknowledge) /\ WF_vars(Active /\ Apply)
FairSpec == Spec /\ Fairness

-----------------------------------------------------------------------------
\* No byte of a release goes onto an encrypted disk before the recovery key
\* enrolled in that very volume is in somebody's hands, whatever an earlier
\* transaction with the same token left in the gate
\* (wait_for_personal_recovery, attempt_organization_recovery).
CustodyBeforeContent ==
    disk.encrypted /\ (\E s \in {"A", "B"} : disk.roots[s] # "blank") =>
        disk.key \in custody

\* Success is published only over a disk that has every root slot as it was
\* released, its boot files, the first-boot state with seed.json, and an audit
\* log that tells of the plan, the key and the installation by one actor
\* (verify_installed_system).
SucceededIsComplete ==
    status.state = "succeeded" =>
        /\ \A s \in Range(RootSlots) : disk.roots[s] = "release"
        /\ disk.boot /\ disk.files /\ disk.seed # None
        /\ \E a \in {"human", "service"} :
            /\ {<<"plan", a>>, <<"apply", a>>} \subseteq disk.audit
            /\ disk.encrypted => <<"recovery", a>> \in disk.audit

=============================================================================
