---------------------------- MODULE SystemUpdate ----------------------------
(***************************************************************************)
(* System-image updates as punard serves them: update.check and            *)
(* update.apply (server.rs, update_check.rs) over a signed channel that     *)
(* moves on while they run, and the transaction of the platform the device  *)
(* is, UefiUpdate or PiUpdate.  All four update methods hold update_lock.   *)
(***************************************************************************)
EXTENDS Integers, Sequences, FiniteSets

CONSTANTS
    Versions, Factory, Sound, Torn, None,
    Tries, EspRoom, MaxFaults, MaxRollbacks,
    Platforms,          \* the platforms to consider: "uefi", "pi"
    Publications        \* what the channel publishes, in order: a head, halted or not

VARIABLES
    platform,           \* is_pi: read from the device tree, fixed by the hardware
    published,          \* the publication the repository serves
    cached,             \* channel.json and its signature in the verified cache
    request,            \* the update.check or update.apply that holds update_lock
    \* UefiUpdate and PiUpdate
    root, pending, boot, call, faults, rollbacks,
    blessed, counted, recovery, preferred, overBlessed,
    bootfs, normal, previous, audited, good, astray

uefiOnly == <<blessed, counted, recovery, preferred, overBlessed>>
piOnly == <<bootfs, normal, previous, audited, good, astray>>
shared == <<root, pending, boot, call, faults, rollbacks>>
channel == <<published, cached>>
vars == <<platform, channel, request, shared, uefiOnly, piOnly>>

ASSUME UpdateAssumption ==
    /\ Versions \subseteq Nat /\ None \notin Versions /\ Torn \notin Versions
    /\ \A S \in SUBSET Versions : S # {} => \E v \in S : \A w \in S : w <= v   \* a newest
    /\ None \notin {"A", "B"}
    /\ None \notin [slot : {"A", "B"}, left : 0 .. Tries] \cup [version : Versions, slot : {"A", "B"}]
    /\ Factory \in Sound /\ Sound \subseteq Versions
    /\ {Tries, EspRoom} \subseteq Nat \ {0} /\ {MaxFaults, MaxRollbacks} \subseteq Nat
    /\ Platforms \subseteq {"uefi", "pi"}
    /\ Publications \in Seq([head : Versions, halted : BOOLEAN]) /\ Publications # <<>>

Uefi == INSTANCE UefiUpdate
Pi == INSTANCE PiUpdate

NoRequest == [pc |-> "idle", version |-> Factory, downgrade |-> FALSE, doc |-> 0, since |-> 0]

AbsentUefi == /\ blessed = None /\ counted = None /\ recovery = None
              /\ preferred = None /\ overBlessed = FALSE
AbsentPi == /\ bootfs = None /\ normal = None /\ previous = None
            /\ audited = None /\ good = None /\ astray = FALSE

Init ==
    /\ platform \in Platforms
    /\ published = 1
    /\ cached = [doc |-> 0, sig |-> 0]
    /\ request = NoRequest
    /\ \/ platform = "uefi" /\ Uefi!Init /\ AbsentPi
       \/ platform = "pi" /\ Pi!Init /\ AbsentUefi

Unlocked == boot.up /\ call.pc = "idle" /\ request.pc = "idle"
At(pc) == request.pc = pc
Goto(pc) == request' = [request EXCEPT !.pc = pc]
Return == request' = NoRequest
device == <<platform, shared, uefiOnly, piOnly>>

\* The release team publishes a new head or halts the channel.
Publish ==
    /\ published < Len(Publications)
    /\ published' = published + 1
    /\ UNCHANGED <<cached, request, device>>

-----------------------------------------------------------------------------
\* update.check and the first half of update.apply

\* An apply refreshes the head whatever the cache holds.
ApplyBegin(v, downgrade) ==
    /\ Unlocked
    /\ request' = [NoRequest EXCEPT !.pc = "document", !.version = v, !.downgrade = downgrade,
                                    !.since = published]
    /\ UNCHANGED <<channel, device>>

\* A check that is forced or finds no fresh cache; a fresh one changes nothing.
CheckBegin ==
    /\ Unlocked
    /\ request' = [NoRequest EXCEPT !.pc = "document", !.version = 0]
    /\ UNCHANGED <<channel, device>>

IsApply == request.version # 0

\* fetch_fresh: two requests, and the channel may move in between.
FetchDocument ==
    /\ At("document")
    /\ request' = [request EXCEPT !.pc = "signature", !.doc = published]
    /\ UNCHANGED <<channel, device>>

FetchSignature ==
    /\ At("signature")
    /\ request' = IF published = request.doc
                  THEN [request EXCEPT !.pc = "cacheSignature"]
                  ELSE NoRequest
    /\ UNCHANGED <<channel, device>>

CacheSignature ==
    /\ At("cacheSignature")
    /\ cached' = [cached EXCEPT !.sig = request.doc]
    /\ Goto("cacheDocument")
    /\ UNCHANGED <<published, device>>

CacheDocument ==
    /\ At("cacheDocument")
    /\ cached' = [cached EXCEPT !.doc = request.doc]
    /\ request' = IF IsApply THEN [request EXCEPT !.pc = "prepare", !.doc = 0] ELSE NoRequest
    /\ UNCHANGED <<published, device>>

\* The network, the repository or the disk fails, or the platform refuses.
RequestFails ==
    /\ ~At("idle")
    /\ Return
    /\ UNCHANGED <<channel, device>>

\* prepare_release on the cached pair.
Running == root[boot.slot]
Latest == Publications[cached.doc]
Admitted ==
    /\ cached.doc = cached.sig
    /\ Latest.head = request.version
    /\ ~Latest.halted
    /\ request.downgrade \/ Latest.head > Running

\* The transaction of the platform, which starts if it does not refuse.
StageBegin(v) == \/ platform = "uefi" /\ Uefi!StageBegin(v) /\ UNCHANGED piOnly
                 \/ platform = "pi" /\ Pi!StageBegin(v) /\ UNCHANGED uefiOnly

Stage ==
    /\ At("prepare")
    /\ Admitted
    /\ Return
    /\ StageBegin(request.version)
    /\ UNCHANGED <<platform, channel>>

-----------------------------------------------------------------------------
\* update.status, which takes no lock and reads what is on disk.

\* observe_slot: the kernel command line, or the firmware's evidence.
ObserveSlot == [slot |-> boot.slot, tryboot |-> platform = "pi" /\ boot.tryboot]

\* read_pending_pi and read_pending_uefi: both records name two slots.
PendingRead == IF pending = None THEN {}
               ELSE {[version |-> pending.version, candidate |-> pending.slot,
                      previous |-> CHOOSE s \in {"A", "B"} : s # pending.slot]}

\* status: the staged release, and where a rollback would go.
Status == [slot |-> ObserveSlot.slot,
           unproven |-> ObserveSlot.tryboot,
           desired |-> {[version |-> p.version, slot |-> p.candidate] : p \in PendingRead},
           rollback |-> {p.previous : p \in PendingRead}]

-----------------------------------------------------------------------------
\* The rest is the platform's.

OnUefi(A) == platform = "uefi" /\ A /\ UNCHANGED <<platform, channel, piOnly>>
OnPi(A) == platform = "pi" /\ A /\ UNCHANGED <<platform, channel, uefiOnly>>

UefiOperation == \/ Uefi!Step \/ Uefi!Fail \/ (Unlocked /\ Uefi!Rollback)
UefiMachine == Uefi!PowerOn \/ Uefi!Bless \/ Uefi!PickRecovery \/ (Unlocked /\ Uefi!Reboot)
PiOperation == \/ Pi!Step \/ Pi!Fail
               \/ (Unlocked /\ (Pi!Rollback \/ Pi!Reconcile \/ Pi!ReconcileRefused))
PiMachine == Pi!PowerOn \/ Pi!HealthGate \/ (Unlocked /\ (Pi!Tryboot \/ Pi!Reboot))

Operation == (OnUefi(UefiOperation) \/ OnPi(PiOperation)) /\ UNCHANGED request
Machine == (OnUefi(UefiMachine) \/ OnPi(PiMachine)) /\ UNCHANGED request
\* A loss of power takes the request with it.
PowerOff == (OnUefi(Uefi!PowerOff) \/ OnPi(Pi!PowerOff)) /\ Return

\* A release the channel never names is refused like one it does not name now.
Heads == {Publications[i].head : i \in 1 .. Len(Publications)}

Requests ==
    \/ FetchDocument \/ FetchSignature \/ CacheSignature \/ CacheDocument
    \/ Stage
Next ==
    \/ \E v \in Heads, d \in BOOLEAN : ApplyBegin(v, d)
    \/ CheckBegin \/ Requests \/ RequestFails \/ Publish
    \/ Operation \/ Machine \/ PowerOff

Spec == Init /\ [][Next]_vars

\* The machine and the operations under way go on by themselves, and the
\* restarts and the health service of a Raspberry Pi get the lock in the end.
Alone(A) == A /\ UNCHANGED request
FairSpec ==
    /\ Spec
    /\ WF_vars(Requests \/ RequestFails)
    /\ WF_vars(Alone(OnUefi(Uefi!Step))) /\ WF_vars(Alone(OnUefi(Uefi!PowerOn)))
    /\ WF_vars(Alone(OnUefi(Uefi!Bless)))
    /\ WF_vars(Alone(OnPi(Pi!Step))) /\ WF_vars(Alone(OnPi(Pi!PowerOn)))
    /\ WF_vars(Alone(OnPi(Pi!HealthGate)))
    /\ SF_vars(Alone(OnPi(Unlocked /\ (Pi!Reconcile \/ Pi!ReconcileRefused))))
    /\ SF_vars(Alone(OnPi(Unlocked /\ Pi!Reboot)))

-----------------------------------------------------------------------------
(* Properties *)

\* Every variable, the platform's included, has its type.
TypeOK ==
    /\ platform \in Platforms
    /\ published \in 1 .. Len(Publications)
    /\ cached \in [doc : 0 .. Len(Publications), sig : 0 .. Len(Publications)]
    /\ request \in [pc : {"idle", "document", "signature", "cacheSignature", "cacheDocument",
                          "prepare"},
                    version : Versions \cup {0}, downgrade : BOOLEAN,
                    doc : 0 .. Len(Publications), since : 0 .. Len(Publications)]
    /\ IF platform = "uefi" THEN Uefi!TypeOK ELSE Pi!TypeOK

\* The factory recovery entry never points at an overwritten slot B.
RecoveryIntact == platform = "uefi" => Uefi!RecoveryIntact

\* A blessed UKI names a slot that holds its release, as long as no release
\* is staged over one that has a blessed UKI.
BlessedMatchRoots == platform = "uefi" => Uefi!BlessedMatchRoots


\* Whenever update.status is asked, on either platform and wherever an
\* operation was cut short: the slot it says a release is staged in holds that
\* release whole, with a boot artifact for it, the slot it names for going
\* back holds a whole release, and a system on its one trial is the staged one.
StatusIsTrue ==
    /\ \A d \in Status.desired :
        /\ root[d.slot] = d.version
        /\ IF platform = "uefi" THEN Uefi!PendingIsComplete ELSE bootfs[d.slot] = d.version
    /\ \A s \in Status.rollback : root[s] # Torn
    /\ boot.up /\ Status.unproven /\ Status.desired # {} =>
          \E d \in Status.desired : d.slot = Status.slot

\* The ordinary slot of a Raspberry Pi holds a whole release that was
\* installed there or passed its health gate, unless a rollback was asked for
\* onto a slot that had been written to since.
NormalIsGood == platform = "pi" => Pi!NormalIsGood

\* A UEFI machine that is off comes back up by itself, whatever was staged:
\* boot counting gives a bad release up and a blessed one is behind it.
ComesBack == platform = "uefi" /\ ~boot.up ~> boot.up \/ overBlessed

\* Whatever the firmware may start without a trial is a whole release: the
\* factory recovery entry, a blessed UKI, the ordinary slot of a Raspberry Pi
\* (clean_slot_entries, commit_recovery, the selector of pi_update).
SlotsSound == RecoveryIntact /\ BlessedMatchRoots /\ NormalIsGood

-----------------------------------------------------------------------------
\* An instance: a channel of three releases that halts the second and moves
\* on to the third.

BothPlatforms == {"uefi", "pi"}
Channel == << [head |-> 2, halted |-> FALSE], [head |-> 2, halted |-> TRUE],
              [head |-> 3, halted |-> FALSE] >>
=============================================================================
