----------------------------- MODULE UefiUpdate -----------------------------
(***************************************************************************)
(* The UEFI system-image transaction of punard (update_transaction.rs): a  *)
(* release is written to the inactive root slot, its boot image (UKI) is   *)
(* put on the EFI system partition with three tries, and loader.conf       *)
(* prefers it.  systemd-boot counts the tries down; a healthy boot removes *)
(* the counter.  Every write is a step, so that an error or a loss of      *)
(* power falls between any two of them.                                    *)
(***************************************************************************)
EXTENDS Integers, FiniteSets

CONSTANTS
    Versions,           \* releases, in order
    Factory,            \* the release the installer wrote
    Sound,              \* the releases that come up and pass the health gate
    Torn, None,
    Tries,              \* the tries of a staged UKI
    EspRoom,            \* UKIs the EFI system partition has room for
    MaxFaults, MaxRollbacks

VARIABLES
    root,               \* what each root slot holds
    blessed,            \* punar_<v>.efi: the slot its command line names
    counted,            \* punar_<v>+left-done.efi: that slot and the tries left
    recovery,           \* punar-recovery_<Factory>.efi, bound to slot B
    preferred,          \* loader.conf
    pending,            \* pending-uefi.json
    boot,               \* the running system
    call,               \* the operation that holds update_lock
    overBlessed,        \* history: a release was staged over one with a blessed UKI
    faults, rollbacks

slots == <<root, blessed, counted, recovery>>
bounds == <<faults, rollbacks>>
vars == <<slots, preferred, pending, boot, call, overBlessed, bounds>>

Slots == {"A", "B"}
Other(s) == CHOOSE t \in Slots : t # s
Maximum(S) == CHOOSE v \in S : \A w \in S : w <= v
Idle == [pc |-> "idle", version |-> Factory, slot |-> "A"]
Off == [up |-> FALSE, slot |-> "A", version |-> Factory, entry |-> "blessed"]

Init ==
    /\ root = [s \in Slots |-> Factory]
    /\ blessed = [v \in Versions |-> IF v = Factory THEN "A" ELSE None]
    /\ counted = [v \in Versions |-> None]
    /\ recovery = TRUE
    /\ preferred = Factory
    /\ pending = None
    /\ boot = [Off EXCEPT !.up = TRUE]
    /\ call = Idle
    /\ overBlessed = FALSE
    /\ faults = 0 /\ rollbacks = 0

\* active_slot: the one root= of the kernel command line.
ActiveSlot == boot.slot
InactiveSlot == Other(ActiveSlot)
\* recovery_uki_paths
RecoveryUkiPaths == IF recovery THEN {Factory} ELSE {}
\* read_preferred and selector_version
PreferredVersion == preferred
\* copy_verified_atomic: under the name with all tries left, bound to its slot
\* (validate_uki_binding).
CopiedUki(v, s) == [counted EXCEPT ![v] = [slot |-> s, left |-> Tries]]

KnownUkiVersions == {v \in Versions : blessed[v] # None}
CountedUkis == {v \in Versions : counted[v] # None}
RequireEspStageCapacity ==
    Cardinality(KnownUkiVersions) + Cardinality(CountedUkis) + Cardinality(RecoveryUkiPaths)
        < EspRoom

At(pc) == call.pc = pc
Goto(pc) == call' = [call EXCEPT !.pc = pc]
Return == call' = Idle
\* Failed writes and losses of power share a budget.
Fault == faults < MaxFaults /\ faults' = faults + 1

-----------------------------------------------------------------------------
\* stage

StageBegin(v) ==
    /\ boot.up /\ At("idle")
    /\ pending = None
    /\ KnownUkiVersions # {} /\ RequireEspStageCapacity
    /\ call' = [pc |-> "retire", version |-> v, slot |-> InactiveSlot]
    /\ overBlessed' = (overBlessed \/ \E u \in Versions : blessed[u] = InactiveSlot)
    /\ UNCHANGED <<slots, preferred, pending, boot, bounds>>

\* Mutant: the recovery entry is left for the end of the transaction.
RetireNever ==
    /\ At("retire")
    /\ Goto("write")
    /\ UNCHANGED <<slots, preferred, pending, boot, overBlessed, bounds>>

\* retire_initial_recovery_before_overwrite: the entry bound to B goes before
\* the first byte of B does, and only with a blessed, preferred A.
Retire ==
    /\ At("retire")
    /\ \/ /\ RecoveryUkiPaths = {} \/ call.slot = "A"
          /\ Goto("write")
          /\ UNCHANGED recovery
       \/ /\ RecoveryUkiPaths # {} /\ call.slot = "B"
          /\ IF blessed[PreferredVersion] = "A"
             THEN recovery' = FALSE /\ Goto("write")
             ELSE Return /\ UNCHANGED recovery
    /\ UNCHANGED <<root, blessed, counted, preferred, pending, boot, overBlessed, bounds>>

\* Mutant: a short write is not found by reading the slot back.
OpenUnverified ==
    /\ At("write")
    /\ root' = [root EXCEPT ![call.slot] = Torn]
    /\ call' = [call EXCEPT !.pc = "uki"]
    /\ UNCHANGED <<blessed, counted, recovery, preferred, pending, boot, overBlessed, bounds>>

\* The first byte of the new root ends the old one.
OpenRoot ==
    /\ At("write")
    /\ root' = [root EXCEPT ![call.slot] = Torn]
    /\ Goto("verify")
    /\ UNCHANGED <<blessed, counted, recovery, preferred, pending, boot, overBlessed, bounds>>

\* write_root_payload up to the sync, and the digest of what was written.
WriteRoot ==
    /\ At("verify")
    /\ root' = [root EXCEPT ![call.slot] = call.version]
    /\ Goto("uki")
    /\ UNCHANGED <<blessed, counted, recovery, preferred, pending, boot, overBlessed, bounds>>

\* Mutant: the new UKI has no tries to use up.
CopyUncounted ==
    /\ At("uki")
    /\ IF RequireEspStageCapacity /\ KnownUkiVersions # {}
       THEN /\ blessed' = [blessed EXCEPT ![call.version] = call.slot]
            /\ Goto("pending")
       ELSE Return /\ UNCHANGED blessed
    /\ UNCHANGED <<root, counted, recovery, preferred, pending, boot, overBlessed, bounds>>

\* The partition is mounted again, and has to have room again.
CopyUki ==
    /\ At("uki")
    /\ IF RequireEspStageCapacity /\ KnownUkiVersions # {}
       THEN /\ counted' = CopiedUki(call.version, call.slot)
            /\ Goto("pending")
       ELSE Return /\ UNCHANGED counted
    /\ UNCHANGED <<root, blessed, recovery, preferred, pending, boot, overBlessed, bounds>>

WritePending ==
    /\ At("pending")
    /\ pending' = [version |-> call.version, slot |-> call.slot]
    /\ Goto("loader")
    /\ UNCHANGED <<slots, preferred, boot, overBlessed, bounds>>

WriteLoader ==
    /\ At("loader")
    /\ preferred' = call.version
    /\ Return
    /\ UNCHANGED <<slots, pending, boot, overBlessed, bounds>>

\* Any step may end the operation with an error; what was written stays.
Fail ==
    /\ ~At("idle")
    /\ Fault
    /\ Return
    /\ UNCHANGED <<slots, preferred, pending, boot, overBlessed, rollbacks>>

-----------------------------------------------------------------------------
\* rollback

\* To a requested release, or to the newest one that is not preferred: some
\* release that has a blessed UKI.
Rollback ==
    /\ boot.up /\ At("idle")
    /\ rollbacks < MaxRollbacks
    /\ \E v \in KnownUkiVersions :
        /\ preferred' = v
        /\ call' = [Idle EXCEPT !.pc = "forget"]
    /\ rollbacks' = rollbacks + 1
    /\ UNCHANGED <<slots, pending, boot, overBlessed, faults>>

ForgetPending ==
    /\ At("forget")
    /\ pending' = None
    /\ Return
    /\ UNCHANGED <<slots, preferred, boot, overBlessed, bounds>>

-----------------------------------------------------------------------------
\* The machine, systemd-boot and the health gate.

Reboot ==
    /\ boot.up /\ At("idle")
    /\ boot' = Off
    /\ UNCHANGED <<slots, preferred, pending, call, overBlessed, bounds>>

\* A loss of power, wherever an operation is.
PowerOff ==
    /\ boot.up
    /\ Fault
    /\ boot' = Off
    /\ Return
    /\ UNCHANGED <<slots, preferred, pending, overBlessed, rollbacks>>

Offered(v) == blessed[v] # None \/ (counted[v] # None /\ counted[v].left > 0)
\* The preferred release while it has a usable entry, else the newest that has.
Selected == IF Offered(preferred) THEN preferred
            ELSE Maximum({v \in Versions : Offered(v)})

\* A kernel comes up on the root of its own release; an unsound release may
\* come up and stay unhealthy, or not come up.  A start that fails is a step,
\* told by the slot of the machine that is off.
ComesUp(v, s) == root[s] = v
Boot(v, s, entry) ==
    \/ /\ ComesUp(v, s)
       /\ boot' = [up |-> TRUE, slot |-> s, version |-> v, entry |-> entry]
    \/ /\ ~ComesUp(v, s) \/ v \notin Sound
       /\ boot' = [boot EXCEPT !.slot = Other(@)]

PowerOn ==
    /\ ~boot.up
    /\ \/ /\ blessed[Selected] # None
          /\ Boot(Selected, blessed[Selected], "blessed")
          /\ UNCHANGED counted
       \/ /\ counted[Selected] # None /\ counted[Selected].left > 0
          /\ counted' = [counted EXCEPT ![Selected].left = @ - 1]
          /\ Boot(Selected, counted[Selected].slot, "counted")
    /\ UNCHANGED <<root, blessed, recovery, preferred, pending, call, overBlessed, bounds>>

\* Somebody picks the recovery entry in the boot menu.
PickRecovery ==
    /\ ~boot.up /\ recovery
    /\ Boot(Factory, "B", "recovery")
    /\ UNCHANGED <<slots, preferred, pending, call, overBlessed, bounds>>

\* The health gate passes and systemd-bless-boot drops the counter.
Bless ==
    /\ boot.up /\ boot.entry = "counted"
    /\ boot.version \in Sound
    /\ counted[boot.version] # None
    /\ blessed' = [blessed EXCEPT ![boot.version] = counted[boot.version].slot]
    /\ counted' = [counted EXCEPT ![boot.version] = None]
    /\ boot' = [boot EXCEPT !.entry = "blessed"]
    /\ UNCHANGED <<root, recovery, preferred, pending, call, overBlessed, bounds>>

Step == \/ Retire \/ OpenRoot \/ WriteRoot \/ CopyUki \/ WritePending \/ WriteLoader
        \/ ForgetPending
Next ==
    \/ \E v \in Versions : StageBegin(v)
    \/ Step \/ Fail \/ Rollback
    \/ PowerOn \/ Bless \/ Reboot \/ PowerOff \/ PickRecovery

Spec == Init /\ [][Next]_vars
FairSpec == Spec /\ WF_vars(Step) /\ WF_vars(PowerOn) /\ WF_vars(Bless)

-----------------------------------------------------------------------------
(* Properties *)

Content == Versions \cup {Torn}
TypeOK ==
    /\ root \in [Slots -> Content]
    /\ blessed \in [Versions -> Slots \cup {None}]
    /\ counted \in [Versions -> [slot : Slots, left : 0 .. Tries] \cup {None}]
    /\ {recovery, overBlessed} \subseteq BOOLEAN
    /\ preferred \in Versions
    /\ pending \in [version : Versions, slot : Slots] \cup {None}
    /\ boot \in [up : BOOLEAN, slot : Slots, version : Versions,
                 entry : {"blessed", "counted", "recovery"}]
    /\ call \in [pc : {"idle", "retire", "write", "verify", "uki", "pending", "loader", "forget"},
                 version : Versions, slot : Slots]
    /\ faults \in 0 .. MaxFaults /\ rollbacks \in 0 .. MaxRollbacks

\* The factory recovery entry is there only as long as slot B still holds
\* the factory release, whatever failed and wherever the power went.
RecoveryIntact == recovery => root["B"] = Factory

\* A blessed UKI never names a slot that holds anything but its release
\* (docs/development/update-and-rollback.md 436-443).
UkisMatchRoots ==
    \A v \in KnownUkiVersions : root[blessed[v]] = v

\* The same, as long as no release is staged over one that has a blessed UKI.
BlessedMatchRoots == overBlessed \/ UkisMatchRoots

\* A pending record means a complete pair: the release is in its slot and a
\* UKI bound to that slot is on the partition.
PendingIsComplete ==
    pending # None =>
        /\ root[pending.slot] = pending.version
        /\ \/ blessed[pending.version] = pending.slot
           \/ counted[pending.version] # None /\ counted[pending.version].slot = pending.slot

\* A machine that is off comes back up by itself, whatever release was
\* staged (boot counting, and the blessed entry behind it).
ComesBack == ~boot.up ~> (boot.up \/ overBlessed)
=============================================================================
