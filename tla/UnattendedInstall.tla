------------------------- MODULE UnattendedInstall -------------------------
(***************************************************************************)
(* The clients that drive the installer without a person: punarctl install *)
(* unattended, which acts on a signed answer medium and keeps the keys of  *)
(* the new disk on it, and the two debug commands that exercise            *)
(* install.apply and its refusals.  The daemon they talk to is Installer;  *)
(* a client learns of it only what a call, the disclosure channel or       *)
(* install.status says.                                                    *)
(***************************************************************************)
EXTENDS Installer

CONSTANT MaxClients         \* bound: client processes started

VARIABLES
    client,         \* the running client
    medium,         \* PUNAR_ANSWR: what it authorizes, and custody.json
    mounted,        \* the medium is mounted in the private directory
    ran,            \* history: the kinds of clients started
    clients

clientVars == <<client, medium, mounted, ran, clients>>
installVars == vars

Kinds == {"unattended", "apply_proof", "refusal_proof"}
NoClient == [pc |-> "idle", kind |-> None, token |-> None, key |-> 0, seen |-> None]
Personal(table) == [table |-> table, mode |-> "personal"]
NoCustody == 0

ClientInit ==
    /\ Init
    /\ client = NoClient
    /\ medium \in [answers : {Personal("blank"), Personal("punar")},
                   file : {NoCustody}, durable : {NoCustody}]
    /\ mounted = FALSE /\ ran = {} /\ clients = 0

ClientAt(pc) == client.pc = pc
ClientGoto(pc) == client' = [client EXCEPT !.pc = pc]
OnMedium == client.kind = "unattended"
\* The call of this client is answered once the daemon has left it.
Answered == At("idle")
Succeeded == status.state = "succeeded" /\ status.token = client.token

-----------------------------------------------------------------------------
\* Before the plan

StartClient(kind) ==
    /\ ClientAt("idle") /\ clients < MaxClients
    /\ clients' = clients + 1
    /\ client' = [NoClient EXCEPT !.pc = IF kind = "unattended" THEN "mount" ELSE "targets",
                                  !.kind = kind]
    /\ ran' = ran \cup {kind}
    /\ UNCHANGED <<installVars, medium, mounted>>

\* InstallAnswersMount::open: the directory of a client that did not unmount
\* is not empty.
MountAnswers ==
    /\ ClientAt("mount")
    /\ IF mounted THEN ClientGoto("fail") /\ UNCHANGED mounted
       ELSE ClientGoto("read") /\ mounted' = TRUE
    /\ UNCHANGED <<installVars, medium, ran, clients>>

\* answers.json, its signature and the OOBE answers it is bound to
ReadAnswers ==
    /\ ClientAt("read")
    /\ client' = [client EXCEPT !.pc = "targets", !.token = medium.answers]
    /\ UNCHANGED <<installVars, medium, mounted, ran, clients>>

\* installer_targets_when_ready, and the one disk the client accepts
FindTarget ==
    /\ ClientAt("targets")
    /\ ClientGoto("plan")
    /\ UNCHANGED <<installVars, medium, mounted, ran, clients>>

\* install.plan.  What the medium authorizes has to be the plan the daemon
\* computes now; a debug command takes the plan it is given.
PlanInstallation ==
    /\ ClientAt("plan")
    /\ Plan("personal")
    /\ LET token == Personal(disk.table)
       IN IF faults' # faults \/ (OnMedium /\ token # client.token)
          THEN ClientGoto("fail")
          ELSE client' = [client EXCEPT !.pc = IF client.kind = "refusal_proof"
                                               THEN "wrong" ELSE "apply",
                                        !.token = token, !.seen = disk]
    /\ UNCHANGED <<medium, mounted, ran, clients>>

-----------------------------------------------------------------------------
\* install.apply on a thread of its own, and its disclosure

\* One call at a time: a second one is refused.
ClientApply ==
    /\ ClientAt("apply")
    /\ IF At("idle") THEN ApplyBegin(client.token, OnMedium) /\ ClientGoto("disclosure")
       ELSE ClientGoto("fail") /\ UNCHANGED installVars
    /\ UNCHANGED <<medium, mounted, ran, clients>>

\* read_installer_proof_disclosure_line: the lines come when the gate has been
\* armed; an answered call, a failed status or the deadline end the wait.
ReadDisclosure ==
    /\ ClientAt("disclosure")
    /\ \/ /\ gate.state = "personal" /\ gate.token = client.token
          /\ client' = [client EXCEPT !.pc = "checkpoint", !.key = gate.key]
          /\ UNCHANGED installVars
       \/ /\ Answered \/ status.state = "failed"
          /\ ClientGoto("fail")
          /\ UNCHANGED installVars
       \/ /\ Fault /\ ClientGoto("fail")
          /\ UNCHANGED <<platform, disk, memory, given, liveAudit, custody, starts>>
    /\ UNCHANGED <<medium, mounted, ran, clients>>

\* A hundred looks at install.status for the checkpoint of this plan
PollCheckpoint ==
    /\ ClientAt("checkpoint")
    /\ \/ /\ status.state = "awaiting"
          /\ OnMedium => status.token = client.token
          /\ ClientGoto(IF OnMedium THEN "custody" ELSE "ack")
          /\ UNCHANGED installVars
       \/ /\ status.state = "failed" \/ Answered
          /\ ClientGoto("fail")
          /\ UNCHANGED installVars
       \/ /\ Fault /\ ClientGoto("fail")
          /\ UNCHANGED <<platform, disk, memory, given, liveAudit, custody, starts>>
    /\ UNCHANGED <<medium, mounted, ran, clients>>

-----------------------------------------------------------------------------
\* write_unattended_custody

\* An existing record is never overwritten.
CheckCustody ==
    /\ ClientAt("custody")
    /\ ClientGoto(IF medium.file # NoCustody THEN "fail" ELSE "rename")
    /\ UNCHANGED <<installVars, medium, mounted, ran, clients>>

\* The temporary file, written and synced, takes the name.
RenameCustody ==
    /\ ClientAt("rename")
    /\ medium' = [medium EXCEPT !.file = client.key]
    /\ ClientGoto("sync")
    /\ UNCHANGED <<installVars, mounted, ran, clients>>

\* Mutant: the record is renamed into place and not synced.
SkipSync ==
    /\ ClientAt("sync")
    /\ ClientGoto("reopen")
    /\ UNCHANGED <<installVars, medium, mounted, ran, clients>>

SyncCustody ==
    /\ ClientAt("sync")
    /\ medium' = [medium EXCEPT !.durable = medium.file]
    /\ ClientGoto("reopen")
    /\ UNCHANGED <<installVars, mounted, ran, clients>>

ReopenCustody ==
    /\ ClientAt("reopen")
    /\ ClientGoto(IF medium.file = client.key THEN "ack" ELSE "fail")
    /\ UNCHANGED <<installVars, medium, mounted, ran, clients>>

\* install.recovery_ack with the groups the challenge asks for
ClientAck ==
    /\ ClientAt("ack")
    /\ IF gate.state = "personal" /\ gate.token = client.token
       THEN AcknowledgePersonalRecovery(client.token) /\ ClientGoto("join")
       ELSE ClientGoto("fail") /\ UNCHANGED installVars
    /\ UNCHANGED <<medium, mounted, ran, clients>>

\* The answer of install.apply, or its deadline
JoinApply ==
    /\ ClientAt("join")
    /\ \/ /\ Answered
          /\ ClientGoto(IF Succeeded THEN "ok" ELSE "fail")
          /\ UNCHANGED installVars
       \/ /\ Fault /\ ClientGoto("fail")
          /\ UNCHANGED <<platform, disk, memory, given, liveAudit, custody, starts>>
    /\ UNCHANGED <<medium, mounted, ran, clients>>

-----------------------------------------------------------------------------
\* The refusals (run_installer_refusal_proof)

\* A token the daemon never produced
WrongToken == [table |-> "torn", mode |-> "none"]
ApplyWrongToken ==
    /\ ClientAt("wrong")
    /\ IF At("idle") THEN ApplyBegin(WrongToken, FALSE) /\ ClientGoto("verdict")
       ELSE ClientGoto("fail") /\ UNCHANGED installVars
    /\ UNCHANGED <<medium, mounted, ran, clients>>

\* The disk is as it was and the installer idle.
CheckRefusal ==
    /\ ClientAt("verdict") /\ Answered
    /\ ClientGoto(IF disk = client.seen /\ status = IdleStatus THEN "ok" ELSE "fail")
    /\ UNCHANGED <<installVars, medium, mounted, ran, clients>>

-----------------------------------------------------------------------------
\* The end of a client

\* Dropping InstallAnswersMount; an unmount that fails leaves it mounted.
FinishClient ==
    /\ client.pc \in {"ok", "fail"}
    /\ client' = NoClient
    /\ \/ mounted' = (mounted /\ ~OnMedium) /\ UNCHANGED installVars
       \/ /\ OnMedium /\ mounted /\ Fault /\ UNCHANGED mounted
          /\ UNCHANGED <<platform, disk, memory, given, liveAudit, custody, starts>>
    /\ UNCHANGED <<medium, ran, clients>>

\* Any call, read or write of the client may fail.
ClientFails ==
    /\ client.pc \notin {"idle", "ok", "fail", "verdict"}
    /\ Fault
    /\ ClientGoto("fail")
    /\ UNCHANGED <<platform, disk, memory, given, liveAudit, custody, starts,
                   medium, mounted, ran, clients>>

\* The client is killed: nothing unmounts the medium and nobody answers the gate.
KillClient ==
    /\ ~ClientAt("idle")
    /\ Fault
    /\ client' = NoClient
    /\ UNCHANGED <<platform, disk, memory, given, liveAudit, custody, starts,
                   medium, mounted, ran, clients>>

\* Power is lost: the live system starts again from nothing, and of the medium
\* only what was synced is sure to be there.
PowerLoss ==
    /\ Fault
    /\ status' = IdleStatus /\ plans' = <<>> /\ gate' = IdleGate
    /\ seedDigest' = None /\ call' = IdleCall
    /\ given' = {} /\ liveAudit' = {}
    /\ client' = NoClient /\ mounted' = FALSE
    /\ \E kept \in {medium.file, medium.durable} :
        medium' = [medium EXCEPT !.file = kept, !.durable = kept]
    /\ UNCHANGED <<platform, disk, custody, starts, ran, clients>>

-----------------------------------------------------------------------------
ClientStep == \/ MountAnswers \/ ReadAnswers \/ FindTarget \/ PlanInstallation
              \/ ClientApply \/ ReadDisclosure \/ PollCheckpoint
              \/ CheckCustody \/ RenameCustody \/ SyncCustody \/ ReopenCustody
              \/ ClientAck \/ JoinApply \/ ApplyWrongToken \/ CheckRefusal \/ FinishClient
Daemon == Step \/ Fails \/ Restart \/ DiskChanges
UnattendedNext ==
    \/ \E k \in Kinds : StartClient(k)
    \/ ClientStep \/ ClientFails \/ KillClient \/ PowerLoss
    \/ Daemon /\ UNCHANGED clientVars

unattendedVars == <<installVars, clientVars>>
UnattendedSpec == ClientInit /\ [][UnattendedNext]_unattendedVars

-----------------------------------------------------------------------------
\* Once content goes onto a disk that an unattended installation encrypted, the
\* record with the key of that very disk is on the answer medium for good:
\* through retries, killed clients and a loss of power
\* (write_unattended_custody before install.recovery_ack).
KeyStaysOnMedium ==
    /\ disk.encrypted /\ (\E s \in {"A", "B"} : disk.roots[s] # "blank")
    /\ "unattended" \in ran /\ "apply_proof" \notin ran
    => medium.durable = disk.key

\* Nobody is left with an encrypted disk and no key: content goes onto the disk
\* only after custody of its key, and an unattended installation keeps the key
\* on its medium (install.recovery_ack, write_unattended_custody).
RecoveryKeyKept == CustodyBeforeContent /\ KeyStaysOnMedium
=============================================================================
