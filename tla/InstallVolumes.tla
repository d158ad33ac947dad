--------------------------- MODULE InstallVolumes ---------------------------
(***************************************************************************)
(* The executor's work on the volumes of the new disk (install.rs): each   *)
(* phase from the root slots on is the sequence of steps its function      *)
(* takes, every one of which may fail.  A mount holds its directory and,   *)
(* for the data volume, a LUKS mapping; an error unwinds through the       *)
(* destructor of what is held.                                             *)
(*                                                                         *)
(* A write through a mount is seen in the page cache of that mount and     *)
(* reaches the disk with a sync or the unmount; the medium may keep        *)
(* something else than was sent to it.  Reads of a block device are        *)
(* direct.                                                                 *)
(***************************************************************************)
EXTENDS Integers, FiniteSets, Sequences, SequencesExt

CONSTANTS
    Logs,               \* audit logs of the live system
    MaxTries, MaxUpsets,    \* bounds
    Nothing             \* no value

VARIABLES
    setup,      \* the platform, encryption, OOBE answers and the live audit log
    token,      \* the token of the running plan, which names directories and mapping
    script,     \* the steps still to take
    guard,      \* the mount the executor holds, or Nothing
    dirs, mounts, mapping,      \* what exists in the live system
    media,      \* what the disk keeps of each artifact
    cache,      \* what was written through the current mount
    handoff,    \* the audit log built for the installed system
    outcome,    \* "running", "unwinding", "failed" or "succeeded"
    compared,   \* history: artifacts compared with what the disk keeps
    stuck,      \* history: a release of something held failed
    tries, upsets

live == <<dirs, mounts, mapping>>
content == <<media, cache>>
volumeVars == <<setup, token, script, guard, live, content, handoff, outcome, compared, stuck,
                tries, upsets>>

\* The files and partitions of the installed system, and where they are.
Where == [rootA |-> "root-a", rootB |-> "root-b",
          loader |-> "boot", ukiA |-> "boot", ukiB |-> "boot", loaderConf |-> "boot",
          bootfs |-> "boot", autoboot |-> "selector",
          machineId |-> "data", deviceId |-> "data", answers |-> "data",
          hardware |-> "data", seed |-> "data", audit |-> "data"]
Artifacts == DOMAIN Where

Work(do, part, what) == [do |-> do, part |-> part, what |-> what]
Write(a) == Work("write", Where[a], a)
\* Through the mount that is held.
Read(a) == Work("read", Where[a], a)
\* stream_exact_payload to a partition, which is synced before it is closed
Stream(a) == Work("stream", Where[a], a)
\* digest_installed_partition, with direct reads
Digest(a) == Work("digest", Where[a], a)
Sync == Work("sync", Nothing, Nothing)
\* finish() of a mount: unmounted, its directory removed, its mapping closed
Finish == <<Work("unmount", Nothing, Nothing), Work("rmdir", Nothing, Nothing),
            Work("close", Nothing, Nothing)>>

-----------------------------------------------------------------------------
\* The mounts.  A private directory is made first; a mount that fails removes
\* it again.

Mount(part, mode) == <<Work("directory", part, mode), Work("mount", part, mode)>>
MountRaspberryPiSelector == Mount("selector", "rw")
MountBootPartitionA(mode) == Mount("boot", mode)
MountRootSlotA == Mount("root-a", "ro")
MountRecoveryRoot == Mount("root-b", "ro")
\* The mapping is opened, and its device node looked up, before the mount.
MountDataVolume(mode) ==
    (IF setup.encrypted THEN <<Work("open", "data", Nothing), Work("resolve", "data", Nothing)>>
                        ELSE <<>>) \o Mount("data", mode)

-----------------------------------------------------------------------------
\* The phases

\* verify_ext4_identity and verify_recovery_fstab
ReadRecoveryRoot == <<Read("rootB")>>
\* validate_raspberry_pi_boot_filesystem with its cmdline.txt and config.txt
ReadPiBoot == <<Read("bootfs")>>
\* validate_raspberry_pi_autoboot
ReadAutoboot == <<Read("autoboot")>>
\* verify_installed_audit
ReadAudit == <<Read("audit")>>

WriteRootSlots ==
    IF setup.platform = "uefi" THEN <<Stream("rootA"), Stream("rootB")>> ELSE <<Stream("rootA")>>

VerifyRootSlotsWork ==
    IF setup.platform = "uefi"
    THEN <<Digest("rootA"), Digest("rootB")>> \o MountRecoveryRoot \o ReadRecoveryRoot \o Finish
    ELSE <<Digest("rootA")>>

\* verify_installed_uefi_recovery_floor
ReadUefiBoot == <<Read("loader"), Read("ukiA"), Read("ukiB"), Read("loaderConf")>>

InstallUefiBootArtifact ==
    MountBootPartitionA("rw")
        \o <<Write("loader"), Read("loader"), Write("ukiA"), Write("ukiB"), Write("loaderConf"),
             Sync>> \o Finish
        \o MountBootPartitionA("ro") \o ReadUefiBoot \o Finish

InstallRaspberryPiBootArtifact ==
    <<Stream("bootfs"), Digest("bootfs")>>
        \o MountBootPartitionA("ro") \o ReadPiBoot \o Finish
        \o MountRaspberryPiSelector \o <<Write("autoboot")>> \o ReadAutoboot \o <<Sync>> \o Finish

SeededFiles ==
    <<"machineId", "deviceId">> \o (IF setup.answers THEN <<"answers">> ELSE <<>>)
        \o <<"hardware", "seed">>
SeedInstalledSystem ==
    MountDataVolume("rw") \o [i \in 1..Len(SeededFiles) |-> Write(SeededFiles[i])] \o <<Sync>> \o Finish

\* verify_installed_seed
ReadSeed == [i \in 1..Len(SeededFiles) |-> Read(SeededFiles[i])]
VerifySystemWork ==
    MountDataVolume("ro") \o ReadSeed \o Finish
        \o MountRootSlotA \o <<Read("rootA")>> \o Finish
        \o <<Work("handoff", Nothing, Nothing)>>
        \o MountDataVolume("rw") \o <<Write("audit"), Sync>> \o Finish
        \o MountDataVolume("ro") \o ReadAudit \o Finish

Executor ==
    WriteRootSlots \o VerifyRootSlotsWork
        \o (IF setup.platform = "uefi" THEN InstallUefiBootArtifact
                                       ELSE InstallRaspberryPiBootArtifact)
        \o SeedInstalledSystem \o VerifySystemWork

-----------------------------------------------------------------------------
\* The audit log handed over.  An event has an id, an action and an actor.

Event(id, action, actor) == [id |-> id, action |-> action, actor |-> actor]
Terminal ==
    (IF setup.encrypted THEN <<Event("r", "install.recovery_key", "me")>> ELSE <<>>)
        \o <<Event("a", "install.apply", "me")>>

\* parse_validated_audit: whole records of this device, no id twice
ParseValidatedAudit(log) ==
    /\ ~log.torn /\ ~log.foreign
    /\ \A i, j \in 1..Len(log.events) : log.events[i].id = log.events[j].id => i = j

\* append_audit_event_once; Nothing when the id stands for another event
AppendAuditEventOnce(events, event) ==
    IF events = Nothing THEN Nothing
    ELSE IF \E i \in 1..Len(events) : events[i].id = event.id
    THEN IF Contains(events, event) THEN events ELSE Nothing
    ELSE Append(events, event)

RequireInstallAuditEvents(events) ==
    /\ \E i \in 1..Len(events) : events[i].action = "install.plan" /\ events[i].actor = "me"
    /\ \A i \in 1..Len(Terminal) : Contains(events, Terminal[i])

\* build_installed_audit_handoff; Nothing when it is refused
BuildHandoff ==
    LET events == FoldLeft(AppendAuditEventOnce, setup.log.events, Terminal)
    IN IF /\ ParseValidatedAudit(setup.log)
          /\ events # Nothing /\ RequireInstallAuditEvents(events)
       THEN events ELSE Nothing

-----------------------------------------------------------------------------
\* The steps

Released == [part |-> Nothing, mounted |-> FALSE, dir |-> FALSE, mapped |-> FALSE, attempts |-> 0]

Fresh ==
    /\ script = Executor
    /\ guard = Released
    /\ media = [a \in Artifacts |-> "blank"] /\ cache = {}
    /\ handoff = Nothing /\ outcome = "running" /\ compared = {}

VolumesStart ==
    /\ token = 1
    /\ dirs = {} /\ mounts = {} /\ mapping = Nothing
    /\ Fresh
    /\ stuck = FALSE /\ tries = 1 /\ upsets = 0
VolumesInit ==
    /\ setup \in [platform : {"uefi", "pi"}, encrypted : BOOLEAN, answers : BOOLEAN, log : Logs]
    /\ VolumesStart

Doing(do) == outcome = "running" /\ script # <<>> /\ Head(script).do = do
Advance == script' = Tail(script) /\ UNCHANGED outcome
Error == script' = <<>> /\ outcome' = "unwinding"
Upset == upsets < MaxUpsets /\ upsets' = upsets + 1
Part == Head(script).part
What == Head(script).what

\* create_private_directory refuses a directory that is there already.
Directory ==
    /\ Doing("directory")
    /\ IF <<Part, token>> \in dirs
       THEN Error /\ UNCHANGED <<guard, dirs>>
       ELSE /\ dirs' = dirs \cup {<<Part, token>>}
            /\ guard' = [guard EXCEPT !.part = Part, !.dir = TRUE]
            /\ Advance
    /\ UNCHANGED <<setup, token, mounts, mapping, content, handoff, compared, stuck, tries, upsets>>

\* How often dropping what is held tries to unmount: the data volume's own
\* destructor, and that of the filesystem in it.
DropAttempts(part) == IF part = "data" THEN 2 ELSE 1

DoMount ==
    /\ Doing("mount")
    /\ mounts' = mounts \cup {Part}
    /\ guard' = [guard EXCEPT !.mounted = TRUE, !.attempts = DropAttempts(Part)]
    /\ Advance
    /\ UNCHANGED <<setup, token, dirs, mapping, content, handoff, compared, stuck, tries, upsets>>

\* open_luks_mapping
OpenMapping ==
    /\ Doing("open")
    /\ IF mapping # Nothing
       THEN Error /\ UNCHANGED <<guard, mapping>>
       ELSE mapping' = token /\ guard' = [guard EXCEPT !.mapped = TRUE] /\ Advance
    /\ UNCHANGED <<setup, token, dirs, mounts, content, handoff, compared, stuck, tries, upsets>>

ResolveMapping ==
    /\ Doing("resolve")
    /\ Advance
    /\ UNCHANGED <<setup, token, guard, live, content, handoff, compared, stuck, tries, upsets>>

WriteFile ==
    /\ Doing("write")
    /\ cache' = cache \cup {What}
    /\ Advance
    /\ UNCHANGED <<setup, token, guard, live, media, handoff, compared, stuck, tries, upsets>>

\* What is sent reaches the disk, or something else does.
Reaches(sent) ==
    \/ media' = [a \in Artifacts |-> IF a \in sent THEN "good" ELSE media[a]] /\ UNCHANGED upsets
    \/ /\ Upset
       /\ \E bad \in sent :
            media' = [a \in Artifacts |->
                        IF a = bad THEN "bad" ELSE IF a \in sent THEN "good" ELSE media[a]]
Unsent == {a \in cache : media[a] = "blank"}

StreamPartition ==
    /\ Doing("stream")
    /\ Reaches({What})
    /\ Advance
    /\ UNCHANGED <<setup, token, guard, live, cache, handoff, compared, stuck, tries>>

SyncFilesystem ==
    /\ Doing("sync")
    /\ Reaches(Unsent)
    /\ Advance
    /\ UNCHANGED <<setup, token, guard, live, cache, handoff, compared, stuck, tries>>

\* A read through the mount finds what was written through it.
ReadBack ==
    /\ Doing("read") \/ Doing("digest")
    /\ LET direct == Head(script).do = "digest" \/ What \notin cache
       IN /\ IF direct => media[What] = "good" THEN Advance ELSE Error
          /\ compared' = IF direct THEN compared \cup {What} ELSE compared
    /\ UNCHANGED <<setup, token, guard, live, content, handoff, stuck, tries, upsets>>

HandOver ==
    /\ Doing("handoff")
    /\ handoff' = BuildHandoff
    /\ IF BuildHandoff = Nothing THEN Error ELSE Advance
    /\ UNCHANGED <<setup, token, guard, live, content, compared, stuck, tries, upsets>>

-----------------------------------------------------------------------------
\* Release: finish() on the way, the destructors after an error

Unmounted ==
    /\ mounts' = mounts \ {guard.part}
    /\ guard' = [guard EXCEPT !.mounted = FALSE]
    /\ cache' = {}

\* The data volume that could not be unmounted forgets its mapping, which is
\* never closed under a mounted filesystem.
ForgetMapping(g) == [g EXCEPT !.mapped = FALSE]

FinishUnmount ==
    /\ Doing("unmount")
    /\ \/ Unmounted /\ Reaches(Unsent) /\ Advance /\ UNCHANGED stuck
       \/ /\ Upset /\ Error
          /\ guard' = ForgetMapping(guard)
          /\ stuck' = TRUE
          /\ UNCHANGED <<mounts, content>>
    /\ UNCHANGED <<setup, token, dirs, mapping, handoff, compared, tries>>

\* The directory's removal may fail unnoticed.
RemoveDirectory ==
    /\ \/ Doing("rmdir") /\ Advance
       \/ /\ outcome = "unwinding" /\ ~guard.mounted /\ guard.dir
          /\ UNCHANGED <<script, outcome>>
    /\ guard' = [guard EXCEPT !.dir = FALSE]
    /\ \/ dirs' = dirs \ {<<guard.part, token>>} /\ UNCHANGED <<stuck, upsets>>
       \/ Upset /\ stuck' = TRUE /\ UNCHANGED dirs
    /\ UNCHANGED <<setup, token, mounts, mapping, content, handoff, compared, tries>>

\* finish() reports a mapping that did not close, and its destructor tries again.
FinishClose ==
    /\ Doing("close")
    /\ \/ guard' = Released /\ mapping' = (IF guard.mapped THEN Nothing ELSE mapping)
          /\ Advance /\ UNCHANGED upsets
       \/ guard.mapped /\ Upset /\ Error /\ UNCHANGED <<guard, mapping>>
    /\ UNCHANGED <<setup, token, dirs, mounts, content, handoff, compared, stuck, tries>>

\* A destructor's unmount; after its last try mount and directory stay.
DropUnmount ==
    /\ outcome = "unwinding" /\ guard.mounted
    /\ \/ Unmounted /\ Reaches(Unsent) /\ UNCHANGED stuck
       \/ /\ Upset
          /\ guard' = IF guard.attempts > 1
                      THEN ForgetMapping([guard EXCEPT !.attempts = @ - 1])
                      ELSE [ForgetMapping(guard) EXCEPT !.mounted = FALSE, !.dir = FALSE]
          /\ stuck' = TRUE
          /\ UNCHANGED <<mounts, content>>
    /\ UNCHANGED <<setup, token, script, dirs, mapping, handoff, outcome, compared, tries>>

\* Mutant: the mapping's destructor runs before the unmount.
DropMappingFirst ==
    /\ outcome = "unwinding" /\ guard.mapped
    /\ guard' = [guard EXCEPT !.mapped = FALSE]
    /\ mapping' = Nothing
    /\ UNCHANGED <<setup, token, script, dirs, mounts, content, handoff, outcome, compared, stuck, tries, upsets>>

DropMapping ==
    /\ outcome = "unwinding" /\ ~guard.mounted /\ ~guard.dir /\ guard.mapped
    /\ guard' = [guard EXCEPT !.mapped = FALSE]
    /\ \/ mapping' = Nothing /\ UNCHANGED <<stuck, upsets>>
       \/ Upset /\ stuck' = TRUE /\ UNCHANGED mapping
    /\ UNCHANGED <<setup, token, script, dirs, mounts, content, handoff, outcome, compared, tries>>

Unwound ==
    /\ outcome = "unwinding" /\ ~guard.mounted /\ ~guard.dir /\ ~guard.mapped
    /\ outcome' = "failed" /\ guard' = Released
    /\ UNCHANGED <<setup, token, script, live, content, handoff, compared, stuck, tries, upsets>>

\* Any other step may return an error before it did anything.
StepFails ==
    /\ outcome = "running" /\ script # <<>>
    /\ Head(script).do \notin {"unmount", "rmdir", "close"}
    /\ Upset /\ Error
    /\ UNCHANGED <<setup, token, guard, live, content, handoff, compared, stuck, tries>>

Succeed ==
    /\ outcome = "running" /\ script = <<>>
    /\ outcome' = "succeeded"
    /\ UNCHANGED <<setup, token, script, guard, live, content, handoff, compared, stuck, tries,
                   upsets>>

\* Another plan of the same disk, whose token may be the same.  A mount that
\* was left behind protects the disk from it, and a mapping keeps the kernel
\* from taking the new table.
Retry(t) ==
    /\ outcome = "failed" /\ tries < MaxTries
    /\ mounts = {} /\ mapping = Nothing
    /\ tries' = tries + 1
    /\ token' = t
    /\ script' = Executor /\ guard' = Released
    /\ media' = [a \in Artifacts |-> "blank"] /\ cache' = {}
    /\ handoff' = Nothing /\ outcome' = "running" /\ compared' = {}
    /\ UNCHANGED <<setup, live, stuck, upsets>>

VolumesNext ==
    \/ Directory \/ DoMount \/ OpenMapping \/ ResolveMapping
    \/ WriteFile \/ StreamPartition \/ SyncFilesystem \/ ReadBack \/ HandOver
    \/ FinishUnmount \/ RemoveDirectory \/ FinishClose
    \/ DropUnmount \/ DropMapping \/ Unwound
    \/ StepFails \/ Succeed
    \/ \E t \in {token, token + 1} : Retry(t)

VolumesSpec == VolumesInit /\ [][VolumesNext]_volumeVars

-----------------------------------------------------------------------------
\* Properties

\* When the executor has returned, whichever step failed, the live system
\* holds nothing of the new disk any more unless a release itself failed; and
\* the LUKS mapping is never closed under the filesystem mounted from it
\* (finish and Drop of MountedEsp, MountedFilesystem, MountedData and
\* OpenedLuksMapping).
VolumesReleased ==
    /\ outcome \in {"failed", "succeeded"} /\ ~stuck =>
        dirs = {} /\ mounts = {} /\ mapping = Nothing
    /\ setup.encrypted /\ "data" \in mounts => mapping # Nothing

Installed ==
    (IF setup.platform = "uefi" THEN {"rootA", "rootB", "loader", "ukiA", "ukiB", "loaderConf"}
                                ELSE {"rootA", "bootfs", "autoboot"})
        \cup Range(SeededFiles) \cup {"audit"}

\* A success means that everything installed was compared with what the disk
\* keeps, not with what was sent to it, and is intact; the one exception is
\* the Raspberry Pi's autoboot.txt, read back only through the mount that
\* wrote it.  The installed audit log is the live one with each terminal event
\* exactly once (the digests with direct reads and the read-only remounts of
\* verify_written_root_slots, install_uefi_boot_artifact and
\* verify_installed_system; build_installed_audit_handoff).
SucceededWasReadBack ==
    outcome = "succeeded" =>
        /\ \A a \in Installed \ {"autoboot"} : a \in compared /\ media[a] = "good"
        /\ IsPrefix(setup.log.events, handoff)
        /\ \A i \in 1..Len(Terminal) :
            Cardinality({j \in 1..Len(handoff) : handoff[j].id = Terminal[i].id}) = 1

\* The executor's work on the new disk is released when it ends and was read
\* back when it succeeded (execute_install).
DiskWorkSound == VolumesReleased /\ SucceededWasReadBack
=============================================================================
