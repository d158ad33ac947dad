------------------------ MODULE SystemUpdate_proofs ------------------------
(***************************************************************************)
(* What the firmware may start without a trial is a whole release          *)
(* (SlotsSound), and update.status says what is on the disk (StatusIsTrue), *)
(* on either platform, wherever a write fails or the power goes.            *)
(*                                                                         *)
(* Neither is inductive.  UefiSafe and PiSafe say in addition where the     *)
(* operation that holds update_lock is: it writes only to the slot the      *)
(* machine does not run from, and what it has written follows from how far  *)
(* it has come.                                                            *)
(***************************************************************************)
EXTENDS SystemUpdate, TLAPS

-----------------------------------------------------------------------------
(* UEFI *)

UStaging == {"retire", "write", "verify", "uki", "pending", "loader"}
Undecided == UStaging \ {"loader"}

\* The machine runs the release of its slot, an operation needs it up, and a
\* stage works on the other slot.
UefiPlace ==
    /\ ~boot.up => call.pc = "idle"
    /\ boot.up => root[boot.slot] = boot.version
    /\ call.pc \in UStaging => call.slot # boot.slot
    /\ call.pc \in Undecided => pending = None

\* The UKI of a release that counts, or the blessed one, names this slot.
UkiNames(v, s) == IF counted[v] # None THEN counted[v].slot = s ELSE blessed[v] = s

\* How far a stage has come.
UefiProgress ==
    /\ call.pc \in UStaging \ {"retire"} /\ call.slot = "B" => ~recovery
    /\ call.pc \in {"uki", "pending", "loader"} => root[call.slot] = call.version
    /\ call.pc = "pending" => UkiNames(call.version, call.slot)

\* As long as no release was staged over a blessed one: a stage has no
\* blessed UKI under it, a release on its trial is not staged over or beside,
\* and a UKI that is blessed and counted at once names two slots.
UefiTrials ==
    /\ boot.up /\ boot.entry = "counted" => counted[boot.version] # None
    /\ overBlessed \/
        /\ \A v \in Versions : blessed[v] # None => root[blessed[v]] = v
        /\ call.pc \in UStaging => \A v \in Versions : blessed[v] # call.slot
        /\ boot.up /\ boot.entry = "counted" =>
            counted[boot.version].slot = boot.slot /\ call.pc \notin UStaging
        /\ \A v \in Versions : blessed[v] # None /\ counted[v] # None => counted[v].slot # blessed[v]

\* A pending record names a release that is there, its UKI, and a whole
\* release to go back to.
UefiPending ==
    pending # None =>
        /\ root[pending.slot] = pending.version
        /\ UkiNames(pending.version, pending.slot)
        /\ \A s \in {"A", "B"} : s # pending.slot => root[s] # Torn

UefiSafe ==
    /\ Uefi!TypeOK
    /\ \E v \in Versions : blessed[v] # None
    /\ recovery => root["B"] = Factory
    /\ UefiPlace /\ UefiProgress /\ UefiTrials /\ UefiPending

-----------------------------------------------------------------------------
(* Raspberry Pi *)

PStaging == {"root", "verifyRoot", "verifyBoot", "pending"}
Blessing == {"backup", "commit"}

\* An operation needs the machine up, on a whole release; a stage works on the
\* other slot and from the ordinary one, a rollback without a pending record.
PiPlace ==
    /\ ~boot.up => call.pc = "idle"
    /\ boot.up => root[boot.slot] # Torn
    /\ call.pc \in PStaging =>
        call.slot # boot.slot /\ normal = boot.slot /\ pending = None /\ ~boot.tryboot
    /\ call.pc \in {"keep", "swap"} => pending = None
    /\ boot.report => root[boot.slot] \in Sound

\* How far an operation has come.
PiProgress ==
    /\ call.pc \in PStaging \ {"root"} => call.slot \notin good
    /\ call.pc \in {"verifyBoot", "pending"} => root[call.slot] = call.version
    /\ call.pc = "pending" => bootfs[call.slot] = call.version
    /\ call.pc \in Blessing =>
        /\ root[call.slot] \in Sound /\ bootfs[call.slot] = root[call.slot]
        /\ boot.tryboot

\* A slot counts as good only with a whole release that passed.
PiGood ==
    /\ \A s \in good : root[s] \in Sound /\ bootfs[s] = root[s]
    /\ astray \/ normal \in good

\* A pending record names a release that is there and a whole one to go back
\* to, and the one trial is a trial of it.
PiPending ==
    /\ pending # None =>
        /\ root[pending.slot] = pending.version /\ bootfs[pending.slot] = pending.version
        /\ \A s \in {"A", "B"} : s # pending.slot => root[s] # Torn
        /\ boot.up /\ boot.tryboot => boot.slot = pending.slot
        /\ boot.up /\ boot.restart => normal # pending.slot
    /\ boot.restart => ~boot.tryboot

PiSafe == Pi!TypeOK /\ PiPlace /\ PiProgress /\ PiGood /\ PiPending

\* What an apply is staging is a release.
RequestSafe ==
    /\ published \in 1 .. Len(Publications)
    /\ cached \in [doc : 0 .. Len(Publications), sig : 0 .. Len(Publications)]
    /\ request \in [pc : {"idle", "document", "signature", "cacheSignature", "cacheDocument",
                          "prepare"},
                    version : Versions \cup {0}, downgrade : BOOLEAN,
                    doc : 0 .. Len(Publications), since : 0 .. Len(Publications)]
    /\ request.pc = "prepare" => request.version # 0

UpdateSafe ==
    /\ platform \in Platforms
    /\ RequestSafe
    /\ platform = "uefi" => UefiSafe
    /\ platform = "pi" => PiSafe

-----------------------------------------------------------------------------
(* A step on UEFI keeps UefiSafe.                                          *)

LEMMA OtherSlot ==
    ASSUME NEW s \in {"A", "B"}
    PROVE  /\ Uefi!Other(s) \in {"A", "B"} /\ Uefi!Other(s) # s
           /\ Pi!Inactive(s) \in {"A", "B"} /\ Pi!Inactive(s) # s
BY DEF Uefi!Other, Uefi!Slots, Pi!Inactive, Pi!Slots

LEMMA UefiStageBegin ==
    ASSUME UefiSafe, NEW v \in Versions, Uefi!StageBegin(v)
    PROVE  UefiSafe'
<1> USE UpdateAssumption, OtherSlot DEF UefiSafe, Uefi!StageBegin, Uefi!InactiveSlot,
       Uefi!ActiveSlot, Uefi!KnownUkiVersions, Uefi!At, Uefi!Goto, Uefi!slots, Uefi!bounds
<1>1. Uefi!TypeOK'
    BY DEF Uefi!TypeOK, Uefi!Slots, Uefi!Content
<1>2. (\E w \in Versions : blessed[w] # None)'
    OBVIOUS
<1>3. (recovery => root["B"] = Factory)'
    BY DEF UefiProgress, UStaging, Uefi!TypeOK, Uefi!Slots
<1>4. UefiPlace'
    BY DEF UefiPlace, UStaging, Undecided, Uefi!TypeOK, Uefi!Slots
<1>5. UefiProgress'
    BY DEF UefiProgress, UkiNames, UStaging, UefiPlace, Uefi!TypeOK, Uefi!Slots
<1>6. UefiTrials'
    BY DEF UefiTrials, UStaging, UefiPlace, Uefi!TypeOK, Uefi!Slots
<1>7. UefiPending'
    BY DEF UefiPending, UkiNames, UStaging, Undecided, UefiPlace, UefiProgress, Uefi!TypeOK, Uefi!Slots
<1> QED
    BY <1>1, <1>2, <1>3, <1>4, <1>5, <1>6, <1>7

LEMMA UefiRetire ==
    ASSUME UefiSafe, Uefi!Retire
    PROVE  UefiSafe'
<1> USE UpdateAssumption, OtherSlot DEF UefiSafe, Uefi!Retire, Uefi!RecoveryUkiPaths, Uefi!At,
       Uefi!Goto, Uefi!slots, Uefi!bounds, Uefi!Return, Uefi!Idle
<1>1. Uefi!TypeOK'
    <2>1. UNCHANGED <<root, blessed, counted, preferred, pending, boot, overBlessed, faults, rollbacks>>
        OBVIOUS
    <2>2. recovery' \in BOOLEAN
        BY Zenon DEF Uefi!TypeOK
    <2>3. call' = [call EXCEPT !.pc = "write"] \/ call' = Uefi!Idle
        OBVIOUS
    <2>4. CASE call' = [call EXCEPT !.pc = "write"]
        BY <2>1, <2>2, <2>4, Zenon DEF Uefi!TypeOK, Uefi!Slots
    <2>5. CASE call' = Uefi!Idle
        BY <2>1, <2>2, <2>5 DEF Uefi!TypeOK, Uefi!Slots
    <2> QED
        BY <2>3, <2>4, <2>5
<1>2. (\E w \in Versions : blessed[w] # None)'
    OBVIOUS
<1>3. (recovery => root["B"] = Factory)'
    BY Zenon DEF UefiProgress, UStaging, Uefi!TypeOK, Uefi!Slots
<1>4. UefiPlace'
    BY DEF UefiPlace, UStaging, Undecided, Uefi!TypeOK, Uefi!Slots
<1>5. UefiProgress'
    BY DEF UefiProgress, UkiNames, UStaging, UefiPlace, Uefi!TypeOK, Uefi!Slots
<1>6. UefiTrials'
    BY DEF UefiTrials, UStaging, UefiPlace, Uefi!TypeOK, Uefi!Slots
<1>7. UefiPending'
    BY DEF UefiPending, UkiNames, UStaging, Undecided, UefiPlace, UefiProgress, Uefi!TypeOK, Uefi!Slots
<1> QED
    BY <1>1, <1>2, <1>3, <1>4, <1>5, <1>6, <1>7

LEMMA UefiOpenRoot ==
    ASSUME UefiSafe, Uefi!OpenRoot
    PROVE  UefiSafe'
<1> USE UpdateAssumption, OtherSlot DEF UefiSafe, Uefi!OpenRoot, Uefi!At, Uefi!Goto, Uefi!slots,
       Uefi!bounds
<1>1. Uefi!TypeOK'
    BY Zenon DEF Uefi!TypeOK, Uefi!Slots, Uefi!Content
<1>2. (\E w \in Versions : blessed[w] # None)'
    OBVIOUS
<1>3. (recovery => root["B"] = Factory)'
    BY DEF UefiProgress, UStaging, Uefi!TypeOK, Uefi!Slots
<1>4. UefiPlace'
    BY DEF UefiPlace, UStaging, Undecided, Uefi!TypeOK, Uefi!Slots
<1>5. UefiProgress'
    BY DEF UefiProgress, UkiNames, UStaging, UefiPlace, Uefi!TypeOK, Uefi!Slots
<1>6. UefiTrials'
    BY DEF UefiTrials, UStaging, UefiPlace, Uefi!TypeOK, Uefi!Slots
<1>7. UefiPending'
    BY DEF UefiPending, UkiNames, UStaging, Undecided, UefiPlace, UefiProgress, Uefi!TypeOK, Uefi!Slots
<1> QED
    BY <1>1, <1>2, <1>3, <1>4, <1>5, <1>6, <1>7

LEMMA UefiWriteRoot ==
    ASSUME UefiSafe, Uefi!WriteRoot
    PROVE  UefiSafe'
<1> USE UpdateAssumption, OtherSlot DEF UefiSafe, Uefi!WriteRoot, Uefi!At, Uefi!Goto, Uefi!slots,
       Uefi!bounds
<1>1. Uefi!TypeOK'
    BY Zenon DEF Uefi!TypeOK, Uefi!Slots, Uefi!Content
<1>2. (\E w \in Versions : blessed[w] # None)'
    OBVIOUS
<1>3. (recovery => root["B"] = Factory)'
    BY DEF UefiProgress, UStaging, Uefi!TypeOK, Uefi!Slots
<1>4. UefiPlace'
    BY DEF UefiPlace, UStaging, Undecided, Uefi!TypeOK, Uefi!Slots
<1>5. UefiProgress'
    BY DEF UefiProgress, UkiNames, UStaging, UefiPlace, Uefi!TypeOK, Uefi!Slots
<1>6. UefiTrials'
    BY DEF UefiTrials, UStaging, UefiPlace, Uefi!TypeOK, Uefi!Slots
<1>7. UefiPending'
    BY DEF UefiPending, UkiNames, UStaging, Undecided, UefiPlace, UefiProgress, Uefi!TypeOK, Uefi!Slots
<1> QED
    BY <1>1, <1>2, <1>3, <1>4, <1>5, <1>6, <1>7

LEMMA UefiCopyUki ==
    ASSUME UefiSafe, Uefi!CopyUki
    PROVE  UefiSafe'
<1> USE UpdateAssumption, OtherSlot DEF UefiSafe, Uefi!CopyUki, Uefi!CopiedUki, Uefi!At, Uefi!Goto,
       Uefi!slots, Uefi!bounds, Uefi!Return, Uefi!Idle
<1> DEFINE uki == [slot |-> call.slot, left |-> Tries]
<1>a. /\ UNCHANGED <<root, blessed, recovery, preferred, pending, boot, overBlessed, faults, rollbacks>>
      /\ call.pc = "uki"
    OBVIOUS
<1>b. \/ counted' = [counted EXCEPT ![call.version] = uki] /\ call' = [call EXCEPT !.pc = "pending"]
      \/ counted' = counted /\ call' = Uefi!Idle
    OBVIOUS
<1>c. call.version \in Versions /\ uki \in [slot : {"A", "B"}, left : 0 .. Tries] /\ uki # None
    BY DEF Uefi!TypeOK, Uefi!Slots
<1> HIDE DEF Uefi!CopyUki, uki
<1>1. Uefi!TypeOK'
    <2>1. CASE counted' = [counted EXCEPT ![call.version] = uki] /\ call' = [call EXCEPT !.pc = "pending"]
        BY <1>a, <1>c, <2>1, Zenon DEF uki, Uefi!TypeOK, Uefi!Slots, Uefi!Content
    <2>2. CASE counted' = counted /\ call' = Uefi!Idle
        BY <1>a, <2>2 DEF Uefi!TypeOK, Uefi!Slots, Uefi!Content
    <2> QED
        BY <1>b, <2>1, <2>2
<1>2. (\E w \in Versions : blessed[w] # None)'
    BY <1>a
<1>3. (recovery => root["B"] = Factory)'
    BY <1>a
<1>4. UefiPlace'
    <2>1. CASE counted' = [counted EXCEPT ![call.version] = uki] /\ call' = [call EXCEPT !.pc = "pending"]
        BY <1>a, <1>c, <2>1 DEF uki, UefiPlace, UStaging, Undecided, Uefi!TypeOK, Uefi!Slots
    <2>2. CASE counted' = counted /\ call' = Uefi!Idle
        BY <1>a, <2>2 DEF UefiPlace, UStaging, Undecided, Uefi!TypeOK, Uefi!Slots
    <2> QED
        BY <1>b, <2>1, <2>2
<1>5. UefiProgress'
    <2>1. CASE counted' = [counted EXCEPT ![call.version] = uki] /\ call' = [call EXCEPT !.pc = "pending"]
        BY <1>a, <1>c, <2>1 DEF uki, UefiProgress, UkiNames, UStaging, UefiPlace, Uefi!TypeOK, Uefi!Slots
    <2>2. CASE counted' = counted /\ call' = Uefi!Idle
        BY <1>a, <2>2 DEF UefiProgress, UkiNames, UStaging, UefiPlace, Uefi!TypeOK, Uefi!Slots
    <2> QED
        BY <1>b, <2>1, <2>2
<1>6. UefiTrials'
    <2>1. CASE counted' = [counted EXCEPT ![call.version] = uki] /\ call' = [call EXCEPT !.pc = "pending"]
        BY <1>a, <1>c, <2>1 DEF uki, UefiTrials, UStaging, UefiPlace, Uefi!TypeOK, Uefi!Slots
    <2>2. CASE counted' = counted /\ call' = Uefi!Idle
        BY <1>a, <2>2 DEF UefiTrials, UStaging, UefiPlace, Uefi!TypeOK, Uefi!Slots
    <2> QED
        BY <1>b, <2>1, <2>2
<1>7. UefiPending'
    BY <1>a, UefiPlace DEF UefiPlace, UefiPending, UStaging, Undecided
<1> QED
    BY <1>1, <1>2, <1>3, <1>4, <1>5, <1>6, <1>7

LEMMA UefiWritePending ==
    ASSUME UefiSafe, Uefi!WritePending
    PROVE  UefiSafe'
<1> USE UpdateAssumption, OtherSlot DEF UefiSafe, Uefi!WritePending, Uefi!At, Uefi!Goto, Uefi!slots,
       Uefi!bounds
<1>1. Uefi!TypeOK'
    BY Zenon DEF Uefi!TypeOK, Uefi!Slots, Uefi!Content
<1>2. (\E w \in Versions : blessed[w] # None)'
    OBVIOUS
<1>3. (recovery => root["B"] = Factory)'
    BY DEF UefiProgress, UStaging, Uefi!TypeOK, Uefi!Slots
<1>4. UefiPlace'
    BY DEF UefiPlace, UStaging, Undecided, Uefi!TypeOK, Uefi!Slots
<1>5. UefiProgress'
    BY DEF UefiProgress, UkiNames, UStaging, UefiPlace, Uefi!TypeOK, Uefi!Slots
<1>6. UefiTrials'
    BY DEF UefiTrials, UStaging, UefiPlace, Uefi!TypeOK, Uefi!Slots
<1>7. UefiPending'
    BY DEF UefiPending, UkiNames, UStaging, Undecided, UefiPlace, UefiProgress, Uefi!TypeOK, Uefi!Slots
<1> QED
    BY <1>1, <1>2, <1>3, <1>4, <1>5, <1>6, <1>7

LEMMA UefiWriteLoader ==
    ASSUME UefiSafe, Uefi!WriteLoader
    PROVE  UefiSafe'
<1> USE UpdateAssumption, OtherSlot DEF UefiSafe, Uefi!WriteLoader, Uefi!At, Uefi!Goto, Uefi!slots,
       Uefi!bounds, Uefi!Return, Uefi!Idle
<1>1. Uefi!TypeOK'
    BY DEF Uefi!TypeOK, Uefi!Slots, Uefi!Content
<1>2. (\E w \in Versions : blessed[w] # None)'
    OBVIOUS
<1>3. (recovery => root["B"] = Factory)'
    BY DEF UefiProgress, UStaging, Uefi!TypeOK, Uefi!Slots
<1>4. UefiPlace'
    BY DEF UefiPlace, UStaging, Undecided, Uefi!TypeOK, Uefi!Slots
<1>5. UefiProgress'
    BY DEF UefiProgress, UkiNames, UStaging, UefiPlace, Uefi!TypeOK, Uefi!Slots
<1>6. UefiTrials'
    BY DEF UefiTrials, UStaging, UefiPlace, Uefi!TypeOK, Uefi!Slots
<1>7. UefiPending'
    BY DEF UefiPending, UkiNames, UStaging, Undecided, UefiPlace, UefiProgress, Uefi!TypeOK, Uefi!Slots
<1> QED
    BY <1>1, <1>2, <1>3, <1>4, <1>5, <1>6, <1>7

LEMMA UefiForget ==
    ASSUME UefiSafe, Uefi!ForgetPending
    PROVE  UefiSafe'
<1> USE UpdateAssumption, OtherSlot DEF UefiSafe, Uefi!ForgetPending, Uefi!At, Uefi!Goto,
       Uefi!slots, Uefi!bounds, Uefi!Return, Uefi!Idle
<1>1. Uefi!TypeOK'
    BY DEF Uefi!TypeOK, Uefi!Slots, Uefi!Content
<1>2. (\E w \in Versions : blessed[w] # None)'
    OBVIOUS
<1>3. (recovery => root["B"] = Factory)'
    BY DEF UefiProgress, UStaging, Uefi!TypeOK, Uefi!Slots
<1>4. UefiPlace'
    BY DEF UefiPlace, UStaging, Undecided, Uefi!TypeOK, Uefi!Slots
<1>5. UefiProgress'
    BY DEF UefiProgress, UkiNames, UStaging, UefiPlace, Uefi!TypeOK, Uefi!Slots
<1>6. UefiTrials'
    BY DEF UefiTrials, UStaging, UefiPlace, Uefi!TypeOK, Uefi!Slots
<1>7. UefiPending'
    BY DEF UefiPending, UkiNames, UStaging, Undecided, UefiPlace, UefiProgress, Uefi!TypeOK, Uefi!Slots
<1> QED
    BY <1>1, <1>2, <1>3, <1>4, <1>5, <1>6, <1>7

LEMMA UefiFail ==
    ASSUME UefiSafe, Uefi!Fail
    PROVE  UefiSafe'
<1> USE UpdateAssumption, OtherSlot DEF UefiSafe, Uefi!Fail, Uefi!Fault, Uefi!At, Uefi!Goto,
       Uefi!slots, Uefi!bounds, Uefi!Return, Uefi!Idle
<1>1. Uefi!TypeOK'
    BY DEF Uefi!TypeOK, Uefi!Slots, Uefi!Content
<1>2. (\E w \in Versions : blessed[w] # None)'
    OBVIOUS
<1>3. (recovery => root["B"] = Factory)'
    BY DEF UefiProgress, UStaging, Uefi!TypeOK, Uefi!Slots
<1>4. UefiPlace'
    BY DEF UefiPlace, UStaging, Undecided, Uefi!TypeOK, Uefi!Slots
<1>5. UefiProgress'
    BY DEF UefiProgress, UkiNames, UStaging, UefiPlace, Uefi!TypeOK, Uefi!Slots
<1>6. UefiTrials'
    BY DEF UefiTrials, UStaging, UefiPlace, Uefi!TypeOK, Uefi!Slots
<1>7. UefiPending'
    BY DEF UefiPending, UkiNames, UStaging, Undecided, UefiPlace, UefiProgress, Uefi!TypeOK, Uefi!Slots
<1> QED
    BY <1>1, <1>2, <1>3, <1>4, <1>5, <1>6, <1>7

LEMMA UefiRollback ==
    ASSUME UefiSafe, Uefi!Rollback
    PROVE  UefiSafe'
<1> USE UpdateAssumption, OtherSlot DEF UefiSafe, Uefi!Rollback, Uefi!KnownUkiVersions, Uefi!At,
       Uefi!Goto, Uefi!slots, Uefi!bounds, Uefi!Return, Uefi!Idle
<1>1. Uefi!TypeOK'
    <2>1. UNCHANGED <<root, blessed, counted, recovery, pending, boot, overBlessed, faults>>
        OBVIOUS
    <2>2. preferred' \in Versions /\ call' = [Uefi!Idle EXCEPT !.pc = "forget"]
        OBVIOUS
    <2>3. rollbacks' \in 0 .. MaxRollbacks
        BY DEF Uefi!TypeOK
    <2> QED
        BY <2>1, <2>2, <2>3, Zenon DEF Uefi!TypeOK, Uefi!Slots
<1>2. (\E w \in Versions : blessed[w] # None)'
    OBVIOUS
<1>3. (recovery => root["B"] = Factory)'
    BY DEF UefiProgress, UStaging, Uefi!TypeOK, Uefi!Slots
<1>4. UefiPlace'
    BY DEF UefiPlace, UStaging, Undecided, Uefi!TypeOK, Uefi!Slots
<1>5. UefiProgress'
    BY DEF UefiProgress, UkiNames, UStaging, UefiPlace, Uefi!TypeOK, Uefi!Slots
<1>6. UefiTrials'
    BY DEF UefiTrials, UStaging, UefiPlace, Uefi!TypeOK, Uefi!Slots
<1>7. UefiPending'
    BY DEF UefiPending, UkiNames, UStaging, Undecided, UefiPlace, UefiProgress, Uefi!TypeOK, Uefi!Slots
<1> QED
    BY <1>1, <1>2, <1>3, <1>4, <1>5, <1>6, <1>7

LEMMA UefiReboot ==
    ASSUME UefiSafe, Uefi!Reboot
    PROVE  UefiSafe'
<1> USE UpdateAssumption, OtherSlot DEF UefiSafe, Uefi!Reboot, Uefi!Off, Uefi!At, Uefi!Goto,
       Uefi!slots, Uefi!bounds, Uefi!Return, Uefi!Idle
<1>1. Uefi!TypeOK'
    BY DEF Uefi!TypeOK, Uefi!Slots, Uefi!Content
<1>2. (\E w \in Versions : blessed[w] # None)'
    OBVIOUS
<1>3. (recovery => root["B"] = Factory)'
    BY DEF UefiProgress, UStaging, Uefi!TypeOK, Uefi!Slots
<1>4. UefiPlace'
    BY DEF UefiPlace, UStaging, Undecided, Uefi!TypeOK, Uefi!Slots
<1>5. UefiProgress'
    BY DEF UefiProgress, UkiNames, UStaging, UefiPlace, Uefi!TypeOK, Uefi!Slots
<1>6. UefiTrials'
    BY DEF UefiTrials, UStaging, UefiPlace, Uefi!TypeOK, Uefi!Slots
<1>7. UefiPending'
    BY DEF UefiPending, UkiNames, UStaging, Undecided, UefiPlace, UefiProgress, Uefi!TypeOK, Uefi!Slots
<1> QED
    BY <1>1, <1>2, <1>3, <1>4, <1>5, <1>6, <1>7

LEMMA UefiPowerOff ==
    ASSUME UefiSafe, Uefi!PowerOff
    PROVE  UefiSafe'
<1> USE UpdateAssumption, OtherSlot DEF UefiSafe, Uefi!PowerOff, Uefi!Off, Uefi!Fault, Uefi!At,
       Uefi!Goto, Uefi!slots, Uefi!bounds, Uefi!Return, Uefi!Idle
<1>1. Uefi!TypeOK'
    BY DEF Uefi!TypeOK, Uefi!Slots, Uefi!Content
<1>2. (\E w \in Versions : blessed[w] # None)'
    OBVIOUS
<1>3. (recovery => root["B"] = Factory)'
    BY DEF UefiProgress, UStaging, Uefi!TypeOK, Uefi!Slots
<1>4. UefiPlace'
    BY DEF UefiPlace, UStaging, Undecided, Uefi!TypeOK, Uefi!Slots
<1>5. UefiProgress'
    BY DEF UefiProgress, UkiNames, UStaging, UefiPlace, Uefi!TypeOK, Uefi!Slots
<1>6. UefiTrials'
    BY DEF UefiTrials, UStaging, UefiPlace, Uefi!TypeOK, Uefi!Slots
<1>7. UefiPending'
    BY DEF UefiPending, UkiNames, UStaging, Undecided, UefiPlace, UefiProgress, Uefi!TypeOK, Uefi!Slots
<1> QED
    BY <1>1, <1>2, <1>3, <1>4, <1>5, <1>6, <1>7

LEMMA UefiBless ==
    ASSUME UefiSafe, Uefi!Bless
    PROVE  UefiSafe'
<1> USE UpdateAssumption, OtherSlot DEF UefiSafe, Uefi!Bless, Uefi!At, Uefi!Goto, Uefi!slots,
       Uefi!bounds
<1>1. Uefi!TypeOK'
    BY Zenon DEF Uefi!TypeOK, Uefi!Slots, Uefi!Content
<1>2. (\E w \in Versions : blessed[w] # None)'
    BY DEF Uefi!TypeOK, Uefi!Slots
<1>3. (recovery => root["B"] = Factory)'
    BY DEF UefiProgress, UStaging, Uefi!TypeOK, Uefi!Slots
<1>4. UefiPlace'
    BY DEF UefiPlace, UStaging, Undecided, Uefi!TypeOK, Uefi!Slots
<1>5. UefiProgress'
    BY DEF UefiProgress, UkiNames, UStaging, UefiPlace, Uefi!TypeOK, Uefi!Slots
<1>6. UefiTrials'
    BY DEF UefiTrials, UStaging, UefiPlace, Uefi!TypeOK, Uefi!Slots
<1>7. UefiPending'
    <2>1. pending' = pending /\ root' = root
        OBVIOUS
    <2>2. ASSUME pending # None
          PROVE  UkiNames(pending.version, pending.slot)'
        <3> DEFINE p == pending.version
        <3>1. p \in Versions /\ pending.slot \in {"A", "B"} /\ UkiNames(p, pending.slot)
            BY <2>2 DEF UefiPending, Uefi!TypeOK, Uefi!Slots
        <3>2. boot.version \in Versions
            BY DEF Uefi!TypeOK
        <3> HIDE DEF p
        <3> DEFINE Names == IF counted'[p] # None THEN counted'[p].slot = pending.slot
                            ELSE blessed'[p] = pending.slot
        <3>3. p = boot.version => Names
            BY <3>1, <3>2 DEF UkiNames, Uefi!TypeOK, Uefi!Slots
        <3>4. p # boot.version => Names
            BY <3>1, <3>2 DEF UkiNames, Uefi!TypeOK
        <3>5. Names
            BY <3>3, <3>4
        <3> QED
            BY <2>1, <3>5 DEF p, UkiNames
    <2> QED
        BY <2>1, <2>2 DEF UefiPending
<1> QED
    BY <1>1, <1>2, <1>3, <1>4, <1>5, <1>6, <1>7

\* systemd-boot finds an entry to start.
LEMMA SelectedIsRelease ==
    ASSUME UefiSafe
    PROVE  Uefi!Selected \in Versions
<1> DEFINE S == {v \in Versions : Uefi!Offered(v)}
<1>1. S # {} /\ S \in SUBSET Versions
    BY DEF UefiSafe, Uefi!Offered
<1>2. \E v \in S : \A w \in S : w <= v
    BY <1>1, UpdateAssumption, Zenon
<1>3. Uefi!Maximum(S) \in S
    BY <1>2 DEF Uefi!Maximum
<1> QED
    BY <1>3 DEF Uefi!Selected, UefiSafe, Uefi!TypeOK

\* A start, which may have used up one of the tries of its entry.
LEMMA UefiBoot ==
    ASSUME UefiSafe, ~boot.up,
           NEW v \in Versions, NEW s \in {"A", "B"}, NEW entry \in {"blessed", "counted", "recovery"},
           Uefi!Boot(v, s, entry),
           entry = "counted" => counted[v] # None /\ counted[v].slot = s,
           UNCHANGED <<root, blessed, recovery, preferred, pending, call, overBlessed, faults, rollbacks>>,
           counted' \in [Versions -> [slot : {"A", "B"}, left : 0 .. Tries] \cup {None}],
           \A w \in Versions : /\ counted'[w] = None <=> counted[w] = None
                               /\ counted[w] # None => counted'[w].slot = counted[w].slot
    PROVE  UefiSafe'
<1> USE UpdateAssumption, OtherSlot DEF UefiSafe
<1>a. call.pc = "idle"
    BY DEF UefiPlace
<1>b. /\ boot' \in [up : BOOLEAN, slot : {"A", "B"}, version : Versions,
                    entry : {"blessed", "counted", "recovery"}]
      /\ boot'.up => root[s] = v /\ boot' = [up |-> TRUE, slot |-> s, version |-> v, entry |-> entry]
    <2>1. CASE root[s] = v /\ boot' = [up |-> TRUE, slot |-> s, version |-> v, entry |-> entry]
        BY <2>1
    <2>2. CASE boot' = [boot EXCEPT !.slot = Uefi!Other(@)]
        <3>1. boot \in [up : BOOLEAN, slot : {"A", "B"}, version : Versions,
                        entry : {"blessed", "counted", "recovery"}]
            BY DEF Uefi!TypeOK, Uefi!Slots
        <3>2. Uefi!Other(boot.slot) \in {"A", "B"}
            BY <3>1
        <3> QED
            BY <2>2, <3>1, <3>2, Zenon
    <2> QED
        BY <2>1, <2>2 DEF Uefi!Boot, Uefi!ComesUp
<1>1. Uefi!TypeOK'
    BY <1>b DEF Uefi!TypeOK, Uefi!Slots, Uefi!Content
<1>2. (\E w \in Versions : blessed[w] # None)'
    OBVIOUS
<1>3. (recovery => root["B"] = Factory)'
    OBVIOUS
<1>4. UefiPlace'
    BY <1>a, <1>b DEF UefiPlace, UStaging, Undecided, Uefi!TypeOK
<1>5. UefiProgress'
    BY <1>a DEF UefiProgress, UStaging
<1>6. UefiTrials'
    BY <1>a, <1>b DEF UefiTrials, UStaging, Uefi!TypeOK
<1>7. UefiPending'
    BY Zenon DEF UefiPending, UkiNames, Uefi!TypeOK
<1> QED
    BY <1>1, <1>2, <1>3, <1>4, <1>5, <1>6, <1>7

LEMMA UefiPowerOn ==
    ASSUME UefiSafe, Uefi!PowerOn
    PROVE  UefiSafe'
<1> DEFINE v == Uefi!Selected
<1>1. /\ v \in Versions /\ ~boot.up
      /\ UNCHANGED <<root, blessed, recovery, preferred, pending, call, overBlessed, faults, rollbacks>>
    BY SelectedIsRelease DEF Uefi!PowerOn, Uefi!bounds
<1>2. CASE blessed[v] # None /\ Uefi!Boot(v, blessed[v], "blessed") /\ UNCHANGED counted
    <2>1. blessed[v] \in {"A", "B"} /\ counted \in [Versions -> [slot : {"A", "B"}, left : 0 .. Tries] \cup {None}]
        BY <1>1, <1>2 DEF UefiSafe, Uefi!TypeOK, Uefi!Slots
    <2> HIDE DEF v
    <2> QED
        BY <1>1, <1>2, <2>1, UefiBoot
<1>3. CASE /\ counted[v] # None /\ counted[v].left > 0
           /\ counted' = [counted EXCEPT ![v].left = @ - 1]
           /\ Uefi!Boot(v, counted[v].slot, "counted")
    <2> HIDE DEF v
    <2>1. /\ counted \in [Versions -> [slot : {"A", "B"}, left : 0 .. Tries] \cup {None}]
          /\ Tries \in Nat
        BY UpdateAssumption DEF UefiSafe, Uefi!TypeOK, Uefi!Slots
    <2>2. /\ counted[v].slot \in {"A", "B"}
          /\ counted[v] \in [slot : {"A", "B"}, left : 0 .. Tries]
          /\ [counted[v] EXCEPT !.left = @ - 1] \in [slot : {"A", "B"}, left : 0 .. Tries]
          /\ [counted[v] EXCEPT !.left = @ - 1].slot = counted[v].slot
        BY <1>1, <1>3, <2>1
    <2>3. [counted[v] EXCEPT !.left = @ - 1] # None
        BY <2>2, UpdateAssumption, Zenon
    <2>4. counted' = [counted EXCEPT ![v] = [counted[v] EXCEPT !.left = @ - 1]]
        BY <1>3
    <2>5. /\ counted' \in [Versions -> [slot : {"A", "B"}, left : 0 .. Tries] \cup {None}]
          /\ \A w \in Versions : /\ counted'[w] = None <=> counted[w] = None
                                 /\ counted[w] # None => counted'[w].slot = counted[w].slot
        BY <1>1, <1>3, <2>1, <2>2, <2>3, <2>4
    <2> QED
        BY <1>1, <1>3, <2>2, <2>5, UefiBoot
<1> QED
    BY <1>2, <1>3 DEF Uefi!PowerOn

LEMMA UefiPickRecovery ==
    ASSUME UefiSafe, Uefi!PickRecovery
    PROVE  UefiSafe'
<1>1. /\ ~boot.up /\ Uefi!Boot(Factory, "B", "recovery") /\ UNCHANGED counted
      /\ UNCHANGED <<root, blessed, recovery, preferred, pending, call, overBlessed, faults, rollbacks>>
    BY DEF Uefi!PickRecovery, Uefi!slots, Uefi!bounds
<1>2. Factory \in Versions /\ counted \in [Versions -> [slot : {"A", "B"}, left : 0 .. Tries] \cup {None}]
    BY UpdateAssumption DEF UefiSafe, Uefi!TypeOK, Uefi!Slots
<1> QED
    BY <1>1, <1>2, UefiBoot

-----------------------------------------------------------------------------
(* A step on a Raspberry Pi keeps PiSafe.                                  *)

PiCall == [pc : {"idle", "root", "verifyRoot", "verifyBoot", "pending", "backup", "commit", "audit",
                 "finalize", "keep", "swap"},
           version : Versions, slot : {"A", "B"}]
PiBoot == [up : BOOLEAN, slot : {"A", "B"}, tryboot : BOOLEAN, gate : {"wait", "call", "done"},
           report : BOOLEAN, restart : BOOLEAN]

LEMMA PiStageBegin ==
    ASSUME PiSafe, NEW v \in Versions, Pi!StageBegin(v)
    PROVE  PiSafe'
<1> USE UpdateAssumption, OtherSlot DEF PiSafe, Pi!StageBegin, Pi!Observation, Pi!VerifySelector,
       Pi!At, Pi!Goto, Pi!disk, Pi!selector, Pi!bounds
<1>1. Pi!TypeOK'
    BY DEF Pi!TypeOK, Pi!Slots, Pi!Content
<1>2. PiPlace'
    BY DEF PiPlace, PStaging, Pi!TypeOK, Pi!Slots
<1>3. PiProgress'
    BY DEF PiProgress, PiPlace, PStaging, Blessing, Pi!TypeOK, Pi!Slots
<1>4. PiGood'
    BY DEF PiGood, PiPlace, PiProgress, PStaging, Blessing, Pi!TypeOK, Pi!Slots
<1>5. PiPending'
    BY DEF PiPending, PiPlace, PiProgress, PStaging, Blessing, Pi!TypeOK, Pi!Slots
<1> QED
    BY <1>1, <1>2, <1>3, <1>4, <1>5

LEMMA PiOpenRoot ==
    ASSUME PiSafe, Pi!OpenRoot
    PROVE  PiSafe'
<1> USE UpdateAssumption, OtherSlot DEF PiSafe, Pi!OpenRoot, Pi!At, Pi!Goto, Pi!disk, Pi!selector,
       Pi!bounds
<1>1. Pi!TypeOK'
    <2>1. /\ root' \in [{"A", "B"} -> Pi!Content] /\ bootfs' \in [{"A", "B"} -> Pi!Content]
          /\ good' \subseteq {"A", "B"}
        BY DEF Pi!TypeOK, Pi!Slots, Pi!Content
    <2>2. call' \in PiCall
        BY DEF Pi!TypeOK, Pi!Slots, PiCall
    <2> QED
        BY <2>1, <2>2 DEF Pi!TypeOK, Pi!Slots, PiCall
<1>2. PiPlace'
    BY DEF PiPlace, PStaging, Pi!TypeOK, Pi!Slots
<1>3. PiProgress'
    BY DEF PiProgress, PiPlace, PStaging, Blessing, Pi!TypeOK, Pi!Slots
<1>4. PiGood'
    BY DEF PiGood, PiPlace, PiProgress, PStaging, Blessing, Pi!TypeOK, Pi!Slots
<1>5. PiPending'
    BY DEF PiPending, PiPlace, PiProgress, PStaging, Blessing, Pi!TypeOK, Pi!Slots
<1> QED
    BY <1>1, <1>2, <1>3, <1>4, <1>5

LEMMA PiWriteRoot ==
    ASSUME PiSafe, Pi!WriteRoot
    PROVE  PiSafe'
<1> USE UpdateAssumption, OtherSlot DEF PiSafe, Pi!WriteRoot, Pi!At, Pi!Goto, Pi!disk, Pi!selector,
       Pi!bounds
<1>1. Pi!TypeOK'
    <2>1. /\ root' \in [{"A", "B"} -> Pi!Content] /\ bootfs' \in [{"A", "B"} -> Pi!Content]
          /\ good' \subseteq {"A", "B"}
        BY DEF Pi!TypeOK, Pi!Slots, Pi!Content
    <2>2. call' \in PiCall
        BY Zenon DEF Pi!TypeOK, Pi!Slots, PiCall
    <2> QED
        BY <2>1, <2>2 DEF Pi!TypeOK, Pi!Slots, PiCall
<1>2. PiPlace'
    BY DEF PiPlace, PStaging, Pi!TypeOK, Pi!Slots
<1>3. PiProgress'
    BY DEF PiProgress, PiPlace, PStaging, Blessing, Pi!TypeOK, Pi!Slots
<1>4. PiGood'
    BY DEF PiGood, PiPlace, PiProgress, PStaging, Blessing, Pi!TypeOK, Pi!Slots
<1>5. PiPending'
    BY DEF PiPending, PiPlace, PiProgress, PStaging, Blessing, Pi!TypeOK, Pi!Slots
<1> QED
    BY <1>1, <1>2, <1>3, <1>4, <1>5

LEMMA PiWriteBoot ==
    ASSUME PiSafe, Pi!WriteBoot
    PROVE  PiSafe'
<1> USE UpdateAssumption, OtherSlot DEF PiSafe, Pi!WriteBoot, Pi!VerifySelector, Pi!At, Pi!Goto,
       Pi!disk, Pi!selector, Pi!bounds, Pi!Return, Pi!Idle
<1>1. Pi!TypeOK'
    <2>1. /\ root' \in [{"A", "B"} -> Pi!Content] /\ bootfs' \in [{"A", "B"} -> Pi!Content]
          /\ good' \subseteq {"A", "B"}
        BY Zenon DEF Pi!TypeOK, Pi!Slots, Pi!Content
    <2>2. call' \in PiCall
        <3>1. call \in PiCall
            BY DEF Pi!TypeOK, Pi!Slots, PiCall
        <3>2. call' = [call EXCEPT !.pc = "pending"] \/ call' = [pc |-> "idle", version |-> Factory, slot |-> "A"]
            OBVIOUS
        <3> QED
            BY <3>1, <3>2 DEF PiCall
    <2> QED
        BY <2>1, <2>2 DEF Pi!TypeOK, Pi!Slots, PiCall
<1>2. PiPlace'
    BY DEF PiPlace, PStaging, Pi!TypeOK, Pi!Slots
<1>3. PiProgress'
    BY DEF PiProgress, PiPlace, PStaging, Blessing, Pi!TypeOK, Pi!Slots
<1>4. PiGood'
    BY DEF PiGood, PiPlace, PiProgress, PStaging, Blessing, Pi!TypeOK, Pi!Slots
<1>5. PiPending'
    BY DEF PiPending, PiPlace, PiProgress, PStaging, Blessing, Pi!TypeOK, Pi!Slots
<1> QED
    BY <1>1, <1>2, <1>3, <1>4, <1>5

LEMMA PiWritePending ==
    ASSUME PiSafe, Pi!WritePending
    PROVE  PiSafe'
<1> USE UpdateAssumption, OtherSlot DEF PiSafe, Pi!WritePending, Pi!At, Pi!Goto, Pi!disk,
       Pi!selector, Pi!bounds, Pi!Return, Pi!Idle
<1>1. Pi!TypeOK'
    BY Zenon DEF Pi!TypeOK, Pi!Slots, Pi!Content
<1>2. PiPlace'
    BY DEF PiPlace, PStaging, Pi!TypeOK, Pi!Slots
<1>3. PiProgress'
    BY DEF PiProgress, PiPlace, PStaging, Blessing, Pi!TypeOK, Pi!Slots
<1>4. PiGood'
    BY DEF PiGood, PiPlace, PiProgress, PStaging, Blessing, Pi!TypeOK, Pi!Slots
<1>5. PiPending'
    BY DEF PiPending, PiPlace, PiProgress, PStaging, Blessing, Pi!TypeOK, Pi!Slots
<1> QED
    BY <1>1, <1>2, <1>3, <1>4, <1>5

LEMMA PiReconcile ==
    ASSUME PiSafe, Pi!Reconcile
    PROVE  PiSafe'
<1> USE UpdateAssumption, OtherSlot DEF PiSafe, Pi!Reconcile, Pi!Outcome, Pi!CanBless,
       Pi!BlessedCandidate, Pi!ValidateRunningCandidate, Pi!ValidateRunningRoot,
       Pi!ValidateHealthReport, Pi!RootVersion, Pi!At, Pi!Goto, Pi!disk, Pi!selector, Pi!bounds
<1>a. /\ UNCHANGED <<root, bootfs, good, normal, previous, pending, audited, astray, faults, rollbacks>>
      /\ boot.up /\ pending # None
      /\ call'.pc \in {"audit", "backup"} /\ call'.slot = pending.slot
      /\ boot' = [boot EXCEPT !.gate = IF @ = "call" THEN "done" ELSE @]
    OBVIOUS
<1>b. pending.version \in Versions /\ pending.slot \in {"A", "B"} /\ boot \in PiBoot
    BY <1>a DEF Pi!TypeOK, Pi!Slots, PiBoot
<1>c. call' \in PiCall
    BY <1>b DEF PiCall
<1>d. call'.pc = "backup" =>
        /\ boot.tryboot /\ boot.slot = pending.slot /\ boot.report
        /\ root[pending.slot] = pending.version /\ bootfs[pending.slot] = pending.version
    OBVIOUS
<1>e. /\ boot' \in PiBoot
      /\ \A f \in {"up", "slot", "tryboot", "report", "restart"} : boot'[f] = boot[f]
    BY <1>a, <1>b, Zenon DEF PiBoot
<1> HIDE DEF Pi!Reconcile
<1>1. Pi!TypeOK'
    BY <1>a, <1>b, <1>c, <1>d, <1>e DEF Pi!TypeOK, Pi!Slots, PiCall, PiBoot
<1>2. PiPlace'
    BY <1>a, <1>b, <1>c, <1>d, <1>e DEF PiPlace, PStaging, Pi!TypeOK, Pi!Slots
<1>3. PiProgress'
    BY <1>a, <1>b, <1>c, <1>d, <1>e DEF PiProgress, PiPlace, PStaging, Blessing, Pi!TypeOK, Pi!Slots
<1>4. PiGood'
    BY <1>a, <1>b, <1>c, <1>d, <1>e DEF PiGood
<1>5. PiPending'
    BY <1>a, <1>b, <1>c, <1>d, <1>e DEF PiPending, PiPlace, Pi!TypeOK, Pi!Slots
<1> QED
    BY <1>1, <1>2, <1>3, <1>4, <1>5

LEMMA PiReconcileRefused ==
    ASSUME PiSafe, Pi!ReconcileRefused
    PROVE  PiSafe'
<1> USE UpdateAssumption, OtherSlot DEF PiSafe, Pi!ReconcileRefused, Pi!At, Pi!Goto, Pi!disk,
       Pi!selector, Pi!bounds
<1>1. Pi!TypeOK'
    BY Zenon DEF Pi!TypeOK, Pi!Slots, Pi!Content
<1>2. PiPlace'
    BY DEF PiPlace, PStaging, Pi!TypeOK, Pi!Slots
<1>3. PiProgress'
    BY DEF PiProgress, PiPlace, PStaging, Blessing, Pi!TypeOK, Pi!Slots
<1>4. PiGood'
    BY DEF PiGood, PiPlace, PiProgress, PStaging, Blessing, Pi!TypeOK, Pi!Slots
<1>5. PiPending'
    BY DEF PiPending, PiPlace, PiProgress, PStaging, Blessing, Pi!TypeOK, Pi!Slots
<1> QED
    BY <1>1, <1>2, <1>3, <1>4, <1>5

LEMMA PiBackupSelector ==
    ASSUME PiSafe, Pi!BackupSelector
    PROVE  PiSafe'
<1> USE UpdateAssumption, OtherSlot DEF PiSafe, Pi!BackupSelector, Pi!At, Pi!Goto, Pi!disk,
       Pi!selector, Pi!bounds
<1>1. Pi!TypeOK'
    BY Zenon DEF Pi!TypeOK, Pi!Slots, Pi!Content
<1>2. PiPlace'
    BY DEF PiPlace, PStaging, Pi!TypeOK, Pi!Slots
<1>3. PiProgress'
    BY DEF PiProgress, PiPlace, PStaging, Blessing, Pi!TypeOK, Pi!Slots
<1>4. PiGood'
    BY DEF PiGood, PiPlace, PiProgress, PStaging, Blessing, Pi!TypeOK, Pi!Slots
<1>5. PiPending'
    BY DEF PiPending, PiPlace, PiProgress, PStaging, Blessing, Pi!TypeOK, Pi!Slots
<1> QED
    BY <1>1, <1>2, <1>3, <1>4, <1>5

LEMMA PiCommitSelector ==
    ASSUME PiSafe, Pi!CommitSelector
    PROVE  PiSafe'
<1> USE UpdateAssumption, OtherSlot DEF PiSafe, Pi!CommitSelector, Pi!At, Pi!Goto, Pi!disk,
       Pi!selector, Pi!bounds
<1>1. Pi!TypeOK'
    <2>1. /\ root' \in [{"A", "B"} -> Pi!Content] /\ bootfs' \in [{"A", "B"} -> Pi!Content]
          /\ good' \subseteq {"A", "B"}
        BY DEF Pi!TypeOK, Pi!Slots, Pi!Content
    <2>2. call' \in PiCall
        BY Zenon DEF Pi!TypeOK, Pi!Slots, PiCall
    <2> QED
        BY <2>1, <2>2 DEF Pi!TypeOK, Pi!Slots, PiCall
<1>2. PiPlace'
    BY DEF PiPlace, PStaging, Pi!TypeOK, Pi!Slots
<1>3. PiProgress'
    BY DEF PiProgress, PiPlace, PStaging, Blessing, Pi!TypeOK, Pi!Slots
<1>4. PiGood'
    BY DEF PiGood, PiPlace, PiProgress, PStaging, Blessing, Pi!TypeOK, Pi!Slots
<1>5. PiPending'
    BY DEF PiPending, PiPlace, PiProgress, PStaging, Blessing, Pi!TypeOK, Pi!Slots
<1> QED
    BY <1>1, <1>2, <1>3, <1>4, <1>5

LEMMA PiAuditOutcome ==
    ASSUME PiSafe, Pi!AuditOutcome
    PROVE  PiSafe'
<1> USE UpdateAssumption, OtherSlot DEF PiSafe, Pi!AuditOutcome, Pi!At, Pi!Goto, Pi!disk,
       Pi!selector, Pi!bounds
<1>1. Pi!TypeOK'
    <2>1. /\ root' \in [{"A", "B"} -> Pi!Content] /\ bootfs' \in [{"A", "B"} -> Pi!Content]
          /\ good' \subseteq {"A", "B"}
        BY DEF Pi!TypeOK, Pi!Slots, Pi!Content
    <2>2. call' \in PiCall
        BY Zenon DEF Pi!TypeOK, Pi!Slots, PiCall
    <2> QED
        BY <2>1, <2>2 DEF Pi!TypeOK, Pi!Slots, PiCall
<1>2. PiPlace'
    BY DEF PiPlace, PStaging, Pi!TypeOK, Pi!Slots
<1>3. PiProgress'
    BY DEF PiProgress, PiPlace, PStaging, Blessing, Pi!TypeOK, Pi!Slots
<1>4. PiGood'
    BY DEF PiGood, PiPlace, PiProgress, PStaging, Blessing, Pi!TypeOK, Pi!Slots
<1>5. PiPending'
    BY DEF PiPending, PiPlace, PiProgress, PStaging, Blessing, Pi!TypeOK, Pi!Slots
<1> QED
    BY <1>1, <1>2, <1>3, <1>4, <1>5

LEMMA PiFinalize ==
    ASSUME PiSafe, Pi!FinalizePending
    PROVE  PiSafe'
<1> USE UpdateAssumption, OtherSlot DEF PiSafe, Pi!FinalizePending, Pi!At, Pi!Goto, Pi!disk,
       Pi!selector, Pi!bounds, Pi!Return, Pi!Idle
<1>1. Pi!TypeOK'
    BY DEF Pi!TypeOK, Pi!Slots, Pi!Content
<1>2. PiPlace'
    BY DEF PiPlace, PStaging, Pi!TypeOK, Pi!Slots
<1>3. PiProgress'
    BY DEF PiProgress, PiPlace, PStaging, Blessing, Pi!TypeOK, Pi!Slots
<1>4. PiGood'
    BY DEF PiGood, PiPlace, PiProgress, PStaging, Blessing, Pi!TypeOK, Pi!Slots
<1>5. PiPending'
    BY DEF PiPending, PiPlace, PiProgress, PStaging, Blessing, Pi!TypeOK, Pi!Slots
<1> QED
    BY <1>1, <1>2, <1>3, <1>4, <1>5

LEMMA PiRollback ==
    ASSUME PiSafe, Pi!Rollback
    PROVE  PiSafe'
<1> USE UpdateAssumption, OtherSlot DEF PiSafe, Pi!Rollback, Pi!At, Pi!Goto, Pi!disk, Pi!selector,
       Pi!bounds, Pi!Return, Pi!Idle
<1>1. Pi!TypeOK'
    <2>1. /\ root' \in [{"A", "B"} -> Pi!Content] /\ bootfs' \in [{"A", "B"} -> Pi!Content]
          /\ good' \subseteq {"A", "B"}
        BY DEF Pi!TypeOK, Pi!Slots, Pi!Content
    <2>2. call' \in PiCall
        BY Zenon DEF Pi!TypeOK, Pi!Slots, PiCall
    <2>3. rollbacks' \in 0 .. MaxRollbacks
        BY DEF Pi!TypeOK
    <2>4. UNCHANGED <<root, bootfs, good, normal, previous, pending, boot, audited, astray, faults>>
        OBVIOUS
    <2> HIDE DEF Pi!Rollback
    <2> QED
        BY <2>2, <2>3, <2>4 DEF Pi!TypeOK, Pi!Slots, PiCall
<1>2. PiPlace'
    BY DEF PiPlace, PStaging, Pi!TypeOK, Pi!Slots
<1>3. PiProgress'
    BY DEF PiProgress, PiPlace, PStaging, Blessing, Pi!TypeOK, Pi!Slots
<1>4. PiGood'
    BY DEF PiGood, PiPlace, PiProgress, PStaging, Blessing, Pi!TypeOK, Pi!Slots
<1>5. PiPending'
    BY DEF PiPending, PiPlace, PiProgress, PStaging, Blessing, Pi!TypeOK, Pi!Slots
<1> QED
    BY <1>1, <1>2, <1>3, <1>4, <1>5

LEMMA PiKeepSelector ==
    ASSUME PiSafe, Pi!KeepSelector
    PROVE  PiSafe'
<1> USE UpdateAssumption, OtherSlot DEF PiSafe, Pi!KeepSelector, Pi!At, Pi!Goto, Pi!disk,
       Pi!selector, Pi!bounds
<1>1. Pi!TypeOK'
    <2>1. call' \in PiCall
        BY DEF Pi!TypeOK, Pi!Slots, PiCall
    <2>2. /\ previous' = normal
          /\ UNCHANGED <<root, bootfs, good, normal, pending, boot, audited, astray, faults, rollbacks>>
        OBVIOUS
    <2> HIDE DEF Pi!KeepSelector
    <2> QED
        BY <2>1, <2>2 DEF Pi!TypeOK, Pi!Slots, PiCall
<1>2. PiPlace'
    BY DEF PiPlace, PStaging, Pi!TypeOK, Pi!Slots
<1>3. PiProgress'
    BY DEF PiProgress, PiPlace, PStaging, Blessing, Pi!TypeOK, Pi!Slots
<1>4. PiGood'
    BY DEF PiGood, PiPlace, PiProgress, PStaging, Blessing, Pi!TypeOK, Pi!Slots
<1>5. PiPending'
    BY DEF PiPending, PiPlace, PiProgress, PStaging, Blessing, Pi!TypeOK, Pi!Slots
<1> QED
    BY <1>1, <1>2, <1>3, <1>4, <1>5

LEMMA PiSwapSelector ==
    ASSUME PiSafe, Pi!SwapSelector
    PROVE  PiSafe'
<1> USE UpdateAssumption, OtherSlot DEF PiSafe, Pi!SwapSelector, Pi!At, Pi!Goto, Pi!disk,
       Pi!selector, Pi!bounds, Pi!Return, Pi!Idle
<1>1. Pi!TypeOK'
    BY DEF Pi!TypeOK, Pi!Slots, Pi!Content
<1>2. PiPlace'
    BY Zenon DEF PiPlace, PStaging, Pi!TypeOK, Pi!Slots
<1>3. PiProgress'
    BY DEF PiProgress, PiPlace, PStaging, Blessing, Pi!TypeOK, Pi!Slots
<1>4. PiGood'
    BY DEF PiGood, PiPlace, PiProgress, PStaging, Blessing, Pi!TypeOK, Pi!Slots
<1>5. PiPending'
    BY Zenon DEF PiPending, PiPlace, PiProgress, PStaging, Blessing, Pi!TypeOK, Pi!Slots
<1> QED
    BY <1>1, <1>2, <1>3, <1>4, <1>5

LEMMA PiFail ==
    ASSUME PiSafe, Pi!Fail
    PROVE  PiSafe'
<1> USE UpdateAssumption, OtherSlot DEF PiSafe, Pi!Fail, Pi!Fault, Pi!At, Pi!Goto, Pi!disk,
       Pi!selector, Pi!bounds, Pi!Return, Pi!Idle
<1>1. Pi!TypeOK'
    BY DEF Pi!TypeOK, Pi!Slots, Pi!Content
<1>2. PiPlace'
    BY DEF PiPlace, PStaging, Pi!TypeOK, Pi!Slots
<1>3. PiProgress'
    BY Zenon DEF PiProgress, PiPlace, PStaging, Blessing, Pi!TypeOK, Pi!Slots
<1>4. PiGood'
    BY DEF PiGood, PiPlace, PiProgress, PStaging, Blessing, Pi!TypeOK, Pi!Slots
<1>5. PiPending'
    BY Zenon DEF PiPending, PiPlace, PiProgress, PStaging, Blessing, Pi!TypeOK, Pi!Slots
<1> QED
    BY <1>1, <1>2, <1>3, <1>4, <1>5

LEMMA PiPowerOff ==
    ASSUME PiSafe, Pi!PowerOff
    PROVE  PiSafe'
<1> USE UpdateAssumption, OtherSlot DEF PiSafe, Pi!PowerOff, Pi!Fault, Pi!Off, Pi!At, Pi!Goto,
       Pi!disk, Pi!selector, Pi!bounds, Pi!Return, Pi!Idle
<1>1. Pi!TypeOK'
    BY DEF Pi!TypeOK, Pi!Slots, Pi!Content
<1>2. PiPlace'
    BY DEF PiPlace, PStaging, Pi!TypeOK, Pi!Slots
<1>3. PiProgress'
    BY DEF PiProgress, PiPlace, PStaging, Blessing, Pi!TypeOK, Pi!Slots
<1>4. PiGood'
    BY Zenon DEF PiGood, PiPlace, PiProgress, PStaging, Blessing, Pi!TypeOK, Pi!Slots
<1>5. PiPending'
    BY Zenon DEF PiPending, PiPlace, PiProgress, PStaging, Blessing, Pi!TypeOK, Pi!Slots
<1> QED
    BY <1>1, <1>2, <1>3, <1>4, <1>5

LEMMA PiPowerOn ==
    ASSUME PiSafe, Pi!PowerOn
    PROVE  PiSafe'
<1> USE UpdateAssumption, OtherSlot DEF PiSafe, Pi!PowerOn, Pi!Booted, Pi!Whole, Pi!Off, Pi!At,
       Pi!Goto, Pi!disk, Pi!selector, Pi!bounds
<1>a. /\ UNCHANGED <<root, bootfs, good, normal, previous, pending, audited, astray, call, faults, rollbacks>>
      /\ ~boot.up /\ call.pc = "idle"
    BY DEF PiPlace
<1>b. normal \in {"A", "B"} /\ boot \in PiBoot
    BY DEF Pi!TypeOK, Pi!Slots, PiBoot
<1>c. /\ boot' \in PiBoot
      /\ boot'.up => boot'.slot = normal /\ root[normal] # Torn /\ ~boot'.tryboot
      /\ boot' # boot => ~boot'.report /\ ~boot'.restart
    <2>1. CASE Pi!Whole(normal)
        <3> DEFINE g == IF pending # None THEN "wait" ELSE "done"
        <3>1. boot' = [up |-> TRUE, slot |-> normal, tryboot |-> FALSE,
                       gate |-> g, report |-> FALSE, restart |-> FALSE]
            BY <2>1, Zenon
        <3>2. g \in {"wait", "call", "done"}
            OBVIOUS
        <3> HIDE DEF g, Pi!PowerOn
        <3> QED
            BY <1>b, <2>1, <3>1, <3>2 DEF PiBoot
    <2>2. CASE boot' = boot
        BY <1>a, <1>b, <2>2
    <2> QED
        BY <2>1, <2>2
<1> HIDE DEF Pi!PowerOn
<1>1. Pi!TypeOK'
    BY <1>a, <1>b, <1>c DEF Pi!TypeOK, Pi!Slots, PiCall, PiBoot
<1>2. PiPlace'
    BY <1>a, <1>b, <1>c DEF PiPlace, PStaging, Pi!TypeOK, Pi!Slots
<1>3. PiProgress'
    BY <1>a, <1>b, <1>c DEF PiProgress, PiPlace, PStaging, Blessing, Pi!TypeOK, Pi!Slots
<1>4. PiGood'
    BY <1>a, <1>b, <1>c, Zenon DEF PiGood
<1>5. PiPending'
    BY <1>a, <1>b, <1>c DEF PiPending, PiPlace, Pi!TypeOK, Pi!Slots
<1> QED
    BY <1>1, <1>2, <1>3, <1>4, <1>5

LEMMA PiTryboot ==
    ASSUME PiSafe, Pi!Tryboot
    PROVE  PiSafe'
<1> USE UpdateAssumption, OtherSlot DEF PiSafe, Pi!Tryboot, Pi!Booted, Pi!Whole, Pi!Off, Pi!At,
       Pi!Goto, Pi!disk, Pi!selector, Pi!bounds
<1>a. /\ UNCHANGED <<root, bootfs, good, normal, previous, pending, audited, astray, call, faults, rollbacks>>
      /\ boot.up /\ boot.restart /\ call.pc = "idle"
    OBVIOUS
<1>b. normal \in {"A", "B"} /\ Pi!Inactive(normal) \in {"A", "B"} /\ Pi!Inactive(normal) # normal
    BY DEF Pi!TypeOK, Pi!Slots
<1>c. /\ boot' \in PiBoot
      /\ boot'.up /\ ~boot'.report /\ ~boot'.restart
      /\ \/ boot'.slot = normal /\ root[normal] # Torn /\ ~boot'.tryboot
         \/ boot'.slot # normal /\ root[boot'.slot] # Torn /\ boot'.tryboot
    <2>1. ASSUME NEW s \in {"A", "B"}, NEW try \in BOOLEAN, Pi!Booted(s, try)
          PROVE  /\ boot' \in PiBoot /\ boot'.up /\ ~boot'.report /\ ~boot'.restart
                 /\ boot'.slot = s /\ (boot'.tryboot <=> try)
        BY <2>1 DEF PiBoot
    <2> HIDE DEF Pi!Booted
    <2>2. CASE Pi!Whole(Pi!Inactive(normal)) /\ Pi!Booted(Pi!Inactive(normal), TRUE)
        BY <1>b, <2>1, <2>2
    <2>3. CASE Pi!Whole(normal) /\ Pi!Booted(normal, FALSE)
        BY <1>b, <2>1, <2>3
    <2> QED
        BY <2>2, <2>3
<1> HIDE DEF Pi!Tryboot
<1>1. Pi!TypeOK'
    BY <1>a, <1>b, <1>c DEF Pi!TypeOK, Pi!Slots, PiCall, PiBoot
<1>2. PiPlace'
    BY <1>a, <1>b, <1>c DEF PiPlace, PStaging, Pi!TypeOK, Pi!Slots
<1>3. PiProgress'
    BY <1>a, <1>b, <1>c DEF PiProgress, PiPlace, PStaging, Blessing, Pi!TypeOK, Pi!Slots
<1>4. PiGood'
    BY <1>a, <1>b, <1>c DEF PiGood
<1>5. PiPending'
    <2>1. pending # None => pending.slot \in {"A", "B"} /\ normal # pending.slot
        BY <1>a DEF PiPending, Pi!TypeOK, Pi!Slots
    <2>2. boot'.slot \in {"A", "B"}
        BY <1>c DEF PiBoot
    <2> QED
        BY <1>a, <1>b, <1>c, <2>1, <2>2 DEF PiPending
<1> QED
    BY <1>1, <1>2, <1>3, <1>4, <1>5

LEMMA PiReboot ==
    ASSUME PiSafe, Pi!Reboot
    PROVE  PiSafe'
<1> USE UpdateAssumption, OtherSlot DEF PiSafe, Pi!Reboot, Pi!Off, Pi!At, Pi!Goto, Pi!disk,
       Pi!selector, Pi!bounds
<1>1. Pi!TypeOK'
    BY DEF Pi!TypeOK, Pi!Slots, Pi!Content
<1>2. PiPlace'
    BY DEF PiPlace, PStaging, Pi!TypeOK, Pi!Slots
<1>3. PiProgress'
    BY DEF PiProgress, PiPlace, PStaging, Blessing, Pi!TypeOK, Pi!Slots
<1>4. PiGood'
    BY DEF PiGood, PiPlace, PiProgress, PStaging, Blessing, Pi!TypeOK, Pi!Slots
<1>5. PiPending'
    BY DEF PiPending, PiPlace, PiProgress, PStaging, Blessing, Pi!TypeOK, Pi!Slots
<1> QED
    BY <1>1, <1>2, <1>3, <1>4, <1>5

LEMMA PiHealthGate ==
    ASSUME PiSafe, Pi!HealthGate
    PROVE  PiSafe'
<1> USE UpdateAssumption, OtherSlot DEF PiSafe, Pi!HealthGate, Pi!FallbackObserved, Pi!Fault, Pi!At,
       Pi!Goto, Pi!disk, Pi!selector, Pi!bounds
<1>a. UNCHANGED <<root, bootfs, good, normal, previous, pending, audited, astray, call, rollbacks>>
    OBVIOUS
<1>b. faults' \in 0 .. MaxFaults
    BY DEF Pi!TypeOK
<1>c. boot \in PiBoot
    BY DEF Pi!TypeOK, Pi!Slots, PiBoot
<1>d. /\ boot' \in PiBoot
      /\ \A f \in {"up", "slot", "tryboot", "restart"} : boot'[f] = boot[f]
      /\ boot'.report => boot.report \/ root[boot.slot] \in Sound
    <2>1. \/ boot' = [boot EXCEPT !.gate = "call"]
          \/ boot' = [boot EXCEPT !.gate = "done"]
          \/ /\ root[boot.slot] \in Sound
             /\ \E g \in {"call", "done"} : boot' = [boot EXCEPT !.gate = g, !.report = TRUE]
        BY Zenon
    <2> HIDE DEF Pi!HealthGate
    <2>2. ASSUME NEW g \in {"call", "done"}, boot' = [boot EXCEPT !.gate = g]
          PROVE  /\ boot' \in PiBoot /\ boot'.report = boot.report
                 /\ \A f \in {"up", "slot", "tryboot", "restart"} : boot'[f] = boot[f]
        BY <1>c, <2>2, Zenon DEF PiBoot
    <2>3. ASSUME NEW g \in {"call", "done"}, root[boot.slot] \in Sound,
                 boot' = [boot EXCEPT !.gate = g, !.report = TRUE]
          PROVE  /\ boot' \in PiBoot
                 /\ \A f \in {"up", "slot", "tryboot", "restart"} : boot'[f] = boot[f]
        BY <1>c, <2>3, Zenon DEF PiBoot
    <2> QED
        BY <2>1, <2>2, <2>3
<1> HIDE DEF Pi!HealthGate
<1>1. Pi!TypeOK'
    BY <1>a, <1>b, <1>c, <1>d DEF Pi!TypeOK, Pi!Slots, PiCall, PiBoot
<1>2. PiPlace'
    BY <1>a, <1>b, <1>c, <1>d DEF PiPlace, PStaging, Pi!TypeOK, Pi!Slots
<1>3. PiProgress'
    BY <1>a, <1>b, <1>c, <1>d DEF PiProgress, PiPlace, PStaging, Blessing, Pi!TypeOK, Pi!Slots
<1>4. PiGood'
    BY <1>a, <1>b, <1>c, <1>d DEF PiGood
<1>5. PiPending'
    BY <1>a, <1>b, <1>c, <1>d DEF PiPending, PiPlace, Pi!TypeOK, Pi!Slots
<1> QED
    BY <1>1, <1>2, <1>3, <1>4, <1>5

-----------------------------------------------------------------------------
(* The daemon's requests, over either platform *)

LEMMA UefiUnchanged ==
    ASSUME UefiSafe, UNCHANGED <<shared, uefiOnly>>
    PROVE  UefiSafe'
<1> USE DEF shared, uefiOnly
<1>1. Uefi!TypeOK'
    BY DEF UefiSafe, Uefi!TypeOK, Uefi!Content
<1>2. UefiPlace' /\ UefiProgress'
    BY DEF UefiSafe, UefiPlace, UefiProgress, UkiNames
<1>3. UefiTrials' /\ UefiPending'
    BY DEF UefiSafe, UefiTrials, UefiPending, UkiNames
<1> QED
    BY <1>1, <1>2, <1>3 DEF UefiSafe

LEMMA PiUnchanged ==
    ASSUME PiSafe, UNCHANGED <<shared, piOnly>>
    PROVE  PiSafe'
<1> USE DEF shared, piOnly
<1>1. Pi!TypeOK'
    BY DEF PiSafe, Pi!TypeOK, Pi!Content
<1>2. PiPlace' /\ PiProgress'
    BY DEF PiSafe, PiPlace, PiProgress
<1>3. PiGood' /\ PiPending'
    BY DEF PiSafe, PiGood, PiPending
<1> QED
    BY <1>1, <1>2, <1>3 DEF PiSafe

LEMMA ChannelTyped ==
    /\ Len(Publications) \in Nat /\ 1 \in 1 .. Len(Publications)
    /\ Heads \subseteq Versions
<1>1. Len(Publications) \in Nat /\ Len(Publications) # 0
    BY UpdateAssumption
<1>2. 1 \in 1 .. Len(Publications)
    BY <1>1
<1>3. ASSUME NEW i \in 1 .. Len(Publications) PROVE Publications[i].head \in Versions
    <2> DEFINE P == [head : Versions, halted : BOOLEAN]
    <2>1. Publications \in Seq(P)
        BY UpdateAssumption
    <2>2. \A p \in P : p.head \in Versions
        OBVIOUS
    <2> HIDE DEF P
    <2>3. Publications[i] \in P
        BY <2>1
    <2> QED
        BY <2>2, <2>3
<1> QED
    BY <1>1, <1>2, <1>3 DEF Heads

LEMMA IdleTyped ==
    NoRequest \in [pc : {"idle", "document", "signature", "cacheSignature", "cacheDocument",
                         "prepare"},
                   version : Versions \cup {0}, downgrade : BOOLEAN,
                   doc : 0 .. Len(Publications), since : 0 .. Len(Publications)]
    BY ChannelTyped, UpdateAssumption DEF NoRequest

\* A step of the requests themselves, which leaves the device alone.
LEMMA RequestSteps ==
    ASSUME RequestSafe,
           \/ \E v \in Heads, d \in BOOLEAN : ApplyBegin(v, d)
           \/ CheckBegin \/ FetchDocument \/ FetchSignature \/ CacheSignature \/ CacheDocument
           \/ RequestFails \/ Publish
    PROVE  RequestSafe' /\ UNCHANGED device
<1> USE ChannelTyped, IdleTyped, UpdateAssumption DEF RequestSafe, channel, At, Goto, Return
<1>1. ASSUME NEW v \in Heads, NEW d \in BOOLEAN, ApplyBegin(v, d)
      PROVE  RequestSafe' /\ UNCHANGED device
    <2>1. request' = [pc |-> "document", version |-> v, downgrade |-> d, doc |-> 0, since |-> published]
        BY <1>1, Zenon DEF ApplyBegin, NoRequest
    <2>2. v \in Versions /\ published \in 0 .. Len(Publications)
        OBVIOUS
    <2>3. request' \in [pc : {"idle", "document", "signature", "cacheSignature", "cacheDocument",
                              "prepare"},
                        version : Versions \cup {0}, downgrade : BOOLEAN,
                        doc : 0 .. Len(Publications), since : 0 .. Len(Publications)]
        BY <2>1, <2>2
    <2> QED
        BY <1>1, <2>1, <2>3, Zenon DEF ApplyBegin
<1>2. CASE CheckBegin
    <2>1. request' = [pc |-> "document", version |-> 0, downgrade |-> FALSE, doc |-> 0, since |-> 0]
        BY <1>2, Zenon DEF CheckBegin, NoRequest
    <2> QED
        BY <1>2, <2>1, Zenon DEF CheckBegin
<1>3. CASE FetchDocument
    <2>1. published \in 0 .. Len(Publications)
        OBVIOUS
    <2> QED
        BY <1>3, <2>1, Zenon DEF FetchDocument
<1>4. CASE FetchSignature
    <2>1. CASE published = request.doc
        BY <1>4, <2>1, Zenon DEF FetchSignature
    <2>2. CASE published # request.doc
        BY <1>4, <2>2 DEF FetchSignature, NoRequest
    <2> QED
        BY <2>1, <2>2
<1>5. CASE CacheSignature
    <2>1. /\ request' = [request EXCEPT !.pc = "cacheDocument"]
          /\ cached' = [cached EXCEPT !.sig = request.doc] /\ UNCHANGED <<published, device>>
        BY <1>5 DEF CacheSignature
    <2>2. request.doc \in 0 .. Len(Publications)
        OBVIOUS
    <2>3. cached' \in [doc : 0 .. Len(Publications), sig : 0 .. Len(Publications)]
        BY <2>1, <2>2
    <2>4. /\ request' \in [pc : {"idle", "document", "signature", "cacheSignature",
                                 "cacheDocument", "prepare"},
                           version : Versions \cup {0}, downgrade : BOOLEAN,
                           doc : 0 .. Len(Publications), since : 0 .. Len(Publications)]
          /\ request'.pc = "cacheDocument"
        BY <2>1
    <2> QED
        BY <2>1, <2>3, <2>4
<1>6. CASE CacheDocument
    <2>1. CASE IsApply
        <3>1. request' = [request EXCEPT !.pc = "prepare", !.doc = 0]
            BY <1>6, <2>1 DEF CacheDocument
        <3>2. request' \in [pc : {"idle", "document", "signature", "cacheSignature",
                                  "cacheDocument", "prepare"},
                            version : Versions \cup {0}, downgrade : BOOLEAN,
                            doc : 0 .. Len(Publications), since : 0 .. Len(Publications)]
            <4>1. 0 \in 0 .. Len(Publications) /\ "prepare" \in {"idle", "document", "signature",
                    "cacheSignature", "cacheDocument", "prepare"}
                OBVIOUS
            <4>2. [request EXCEPT !.pc = "prepare"] \in
                        [pc : {"idle", "document", "signature", "cacheSignature",
                               "cacheDocument", "prepare"},
                         version : Versions \cup {0}, downgrade : BOOLEAN,
                         doc : 0 .. Len(Publications), since : 0 .. Len(Publications)]
                BY <4>1, Zenon
            <4>3. request' = [[request EXCEPT !.pc = "prepare"] EXCEPT !.doc = 0]
                BY <3>1
            <4> QED
                BY <4>1, <4>2, <4>3, Zenon
        <3>3. request'.version # 0
            BY <2>1, <3>1 DEF IsApply
        <3>4. /\ cached' \in [doc : 0 .. Len(Publications), sig : 0 .. Len(Publications)]
              /\ UNCHANGED <<published, device>>
            BY <1>6, Zenon DEF CacheDocument
        <3> QED
            BY <3>2, <3>3, <3>4
    <2>2. CASE ~IsApply
        BY <1>6, <2>2, Zenon DEF CacheDocument, NoRequest
    <2> QED
        BY <2>1, <2>2
<1>7. CASE RequestFails
    BY <1>7, Zenon DEF RequestFails, NoRequest
<1>8. CASE Publish
    BY <1>8 DEF Publish
<1> QED
    BY <1>1, <1>2, <1>3, <1>4, <1>5, <1>6, <1>7, <1>8

LEMMA RequestEnds ==
    ASSUME RequestSafe, UNCHANGED channel, Return \/ UNCHANGED request
    PROVE  RequestSafe'
    BY IdleTyped DEF RequestSafe, channel, Return, NoRequest

\* A step of the platform, with the request it belongs to.
LEMMA UefiSteps ==
    ASSUME UefiSafe, UefiOperation \/ UefiMachine \/ Uefi!PowerOff
    PROVE  UefiSafe'
    BY UefiRetire, UefiOpenRoot, UefiWriteRoot, UefiCopyUki, UefiWritePending, UefiWriteLoader,
       UefiForget, UefiFail, UefiRollback, UefiPowerOn, UefiBless, UefiPickRecovery, UefiReboot,
       UefiPowerOff, Zenon
    DEF UefiOperation, UefiMachine, Uefi!Step

LEMMA PiSteps ==
    ASSUME PiSafe, PiOperation \/ PiMachine \/ Pi!PowerOff
    PROVE  PiSafe'
    BY PiOpenRoot, PiWriteRoot, PiWriteBoot, PiWritePending, PiBackupSelector, PiCommitSelector,
       PiAuditOutcome, PiFinalize, PiKeepSelector, PiSwapSelector, PiFail, PiRollback, PiReconcile,
       PiReconcileRefused, PiPowerOn, PiHealthGate, PiTryboot, PiReboot, PiPowerOff, Zenon
    DEF PiOperation, PiMachine, Pi!Step

LEMMA UpdateInit ==
    Init => UpdateSafe
<1> SUFFICES ASSUME Init PROVE UpdateSafe
    OBVIOUS
<1> USE UpdateAssumption, ChannelTyped, IdleTyped
<1>1. platform \in Platforms /\ RequestSafe
    BY DEF Init, RequestSafe, NoRequest
<1>2. ASSUME platform = "uefi" PROVE UefiSafe
    <2> USE <1>2
    <2>1. Uefi!Init
        BY DEF Init
    <2> USE <2>1 DEF Uefi!Init, Uefi!Off, Uefi!Idle, Uefi!Slots
    <2>2. Uefi!TypeOK
        <3>1. Factory \in Versions
            OBVIOUS
        <3>2. /\ root \in [{"A", "B"} -> Versions \cup {Torn}]
              /\ blessed \in [Versions -> {"A", "B"} \cup {None}]
            BY <3>1
        <3>3. counted \in [Versions -> [slot : {"A", "B"}, left : 0 .. Tries] \cup {None}]
            OBVIOUS
        <3>4. /\ boot = [up |-> TRUE, slot |-> "A", version |-> Factory, entry |-> "blessed"]
              /\ call = [pc |-> "idle", version |-> Factory, slot |-> "A"]
            OBVIOUS
        <3>5. /\ boot \in [up : BOOLEAN, slot : {"A", "B"}, version : Versions,
                           entry : {"blessed", "counted", "recovery"}]
              /\ call \in [pc : {"idle", "retire", "write", "verify", "uki", "pending", "loader",
                                 "forget"},
                           version : Versions, slot : {"A", "B"}]
            <4> HIDE <2>1
            <4> QED
                BY <3>1, <3>4
        <3>6. 0 \in 0 .. MaxFaults /\ 0 \in 0 .. MaxRollbacks
            OBVIOUS
        <3> QED
            BY <3>1, <3>2, <3>3, <3>5, <3>6 DEF Uefi!TypeOK, Uefi!Content
    <2>3. blessed[Factory] # None /\ root["B"] = Factory
        OBVIOUS
    <2>4. UefiPlace /\ UefiProgress
        BY DEF UefiPlace, UefiProgress, UStaging, Undecided
    <2>5. UefiTrials
        BY DEF UefiTrials, UStaging
    <2> QED
        BY <2>2, <2>3, <2>4, <2>5 DEF UefiSafe, UefiPending
<1>3. ASSUME platform = "pi" PROVE PiSafe
    <2> USE <1>3
    <2>1. Pi!Init
        BY DEF Init
    <2> USE <2>1 DEF Pi!Init, Pi!Off, Pi!Idle, Pi!Slots
    <2>2. Pi!TypeOK
        <3>1. Factory \in Versions
            OBVIOUS
        <3>2. /\ root \in [{"A", "B"} -> Versions \cup {Torn}]
              /\ bootfs \in [{"A", "B"} -> Versions \cup {Torn}]
            BY <3>1
        <3>4. /\ boot = [up |-> TRUE, slot |-> "A", tryboot |-> FALSE,
                         gate |-> "done", report |-> FALSE, restart |-> FALSE]
              /\ call = [pc |-> "idle", version |-> Factory, slot |-> "A"]
            OBVIOUS
        <3>5. boot \in PiBoot /\ call \in PiCall
            <4> HIDE <2>1
            <4> QED
                BY <3>1, <3>4 DEF PiBoot, PiCall
        <3>6. 0 \in 0 .. MaxFaults /\ 0 \in 0 .. MaxRollbacks
            OBVIOUS
        <3> QED
            BY <3>1, <3>2, <3>5, <3>6 DEF Pi!TypeOK, Pi!Content, PiBoot, PiCall
    <2>3. PiPlace /\ PiProgress
        BY DEF PiPlace, PiProgress, PStaging, Blessing
    <2>4. PiGood /\ PiPending
        BY DEF PiGood, PiPending
    <2> QED
        BY <2>2, <2>3, <2>4 DEF PiSafe
<1> QED
    BY <1>1, <1>2, <1>3 DEF UpdateSafe

LEMMA UpdateStep ==
    UpdateSafe /\ [Next]_vars => UpdateSafe'
<1> SUFFICES ASSUME UpdateSafe, [Next]_vars PROVE UpdateSafe'
    OBVIOUS
<1> USE DEF UpdateSafe
<1>1. ASSUME RequestSafe', UNCHANGED device
      PROVE  UpdateSafe'
    BY <1>1, UefiUnchanged, PiUnchanged, Zenon DEF device
<1>2. ASSUME UNCHANGED <<platform, channel>>, Return \/ UNCHANGED request,
             platform = "uefi" => UefiSafe', platform = "pi" => PiSafe'
      PROVE  UpdateSafe'
    BY <1>2, RequestEnds, Zenon
<1>3. CASE \/ \E v \in Heads, d \in BOOLEAN : ApplyBegin(v, d)
           \/ CheckBegin \/ FetchDocument \/ FetchSignature \/ CacheSignature \/ CacheDocument
           \/ RequestFails \/ Publish
    BY <1>1, <1>3, RequestSteps, Zenon
<1>4. CASE Stage
    <2>1. request.version \in Versions
        BY <1>4 DEF Stage, At, RequestSafe
    <2>2. "uefi" # "pi"
        OBVIOUS
    <2>3. CASE platform = "uefi"
        BY <1>2, <1>4, <2>1, <2>2, <2>3, UefiStageBegin, Zenon DEF Stage, StageBegin
    <2>4. CASE platform = "pi"
        BY <1>2, <1>4, <2>1, <2>2, <2>4, PiStageBegin, Zenon DEF Stage, StageBegin
    <2> QED
        BY <1>4, <2>3, <2>4 DEF Stage, StageBegin
<1>5. CASE Operation \/ Machine \/ PowerOff
    <2>2. "uefi" # "pi"
        OBVIOUS
    <2>3. CASE platform = "uefi"
        BY <1>2, <1>5, <2>2, <2>3, UefiSteps, Zenon DEF Operation, Machine, PowerOff, OnUefi, OnPi
    <2>4. CASE platform = "pi"
        BY <1>2, <1>5, <2>2, <2>4, PiSteps, Zenon DEF Operation, Machine, PowerOff, OnUefi, OnPi
    <2> QED
        BY <1>5, <2>3, <2>4, Zenon DEF Operation, Machine, PowerOff, OnUefi, OnPi
<1>6. CASE UNCHANGED vars
    BY <1>1, <1>6 DEF vars, device, channel, RequestSafe
<1> QED
    BY <1>3, <1>4, <1>5, <1>6 DEF Next, Requests

LEMMA UpdateInvariant == Spec => []UpdateSafe
    BY UpdateInit, UpdateStep, PTL DEF Spec

-----------------------------------------------------------------------------
(* What follows *)

\* Whatever the firmware may start without a trial is a whole release, for
\* every channel, any number of releases, tries, failed writes, losses of
\* power and rollbacks (clean_slot_entries, commit_recovery, the selector of
\* pi_update).
THEOREM SlotsAlwaysSound == Spec => []SlotsSound
<1>1. UpdateSafe => SlotsSound
    <2> SUFFICES ASSUME UpdateSafe PROVE SlotsSound
        OBVIOUS
    <2>1. RecoveryIntact
        BY DEF RecoveryIntact, Uefi!RecoveryIntact, UpdateSafe, UefiSafe
    <2>2. BlessedMatchRoots
        BY DEF BlessedMatchRoots, Uefi!BlessedMatchRoots, Uefi!UkisMatchRoots,
               Uefi!KnownUkiVersions, UpdateSafe, UefiSafe, UefiTrials
    <2>3. NormalIsGood
        BY UpdateAssumption DEF NormalIsGood, Pi!NormalIsGood, Pi!Whole, UpdateSafe, PiSafe, PiGood
    <2> QED
        BY <2>1, <2>2, <2>3 DEF SlotsSound
<1> QED
    BY <1>1, UpdateInvariant, PTL

\* What update.status says is true of the disk whenever it is asked, on
\* either platform and wherever an operation was cut short
\* (read_pending_uefi, read_pending_pi, observe_slot).
THEOREM StatusAlwaysTrue == Spec => []StatusIsTrue
<1>1. UpdateSafe => StatusIsTrue
    <2> SUFFICES ASSUME UpdateSafe PROVE StatusIsTrue
        OBVIOUS
    <2> DEFINE back == CHOOSE s \in {"A", "B"} : s # pending.slot
    <2>1. CASE pending = None
        <3>1. PendingRead = {}
            BY <2>1 DEF PendingRead
        <3>2. Status.desired = {} /\ Status.rollback = {}
            BY <3>1 DEF Status
        <3> QED
            BY <3>2 DEF StatusIsTrue
    <2>2. CASE pending # None
        <3> DEFINE rec == [version |-> pending.version, candidate |-> pending.slot, previous |-> back]
        <3>1. PendingRead = {rec}
            BY <2>2 DEF PendingRead
        <3>2. Status.desired = {[version |-> pending.version, slot |-> pending.slot]}
            BY <3>1 DEF Status
        <3>3. Status.rollback = {back}
            <4>1. Status.rollback = {p.previous : p \in PendingRead}
                BY DEF Status
            <4>2. rec.previous = back
                OBVIOUS
            <4> HIDE DEF rec, back
            <4> QED
                BY <3>1, <4>1, <4>2, Zenon
        <3>4. Status.slot = boot.slot /\ (Status.unproven <=> platform = "pi" /\ boot.tryboot)
            BY DEF Status, ObserveSlot
        <3>5. back \in {"A", "B"} /\ back # pending.slot
            OBVIOUS
        <3> HIDE DEF back
        <3>6. platform = "uefi" \/ platform = "pi"
            BY UpdateAssumption DEF UpdateSafe
        <3>7. root[pending.slot] = pending.version /\ root[back] # Torn
            BY <2>2, <3>5, <3>6 DEF UpdateSafe, UefiSafe, UefiPending, PiSafe, PiPending
        <3>8. platform = "uefi" => Uefi!PendingIsComplete
            BY <2>2, <3>7 DEF UpdateSafe, UefiSafe, UefiPending, UkiNames, Uefi!PendingIsComplete
        <3>9. platform = "pi" => bootfs[pending.slot] = pending.version
            BY <2>2 DEF UpdateSafe, PiSafe, PiPending
        <3>10. boot.up /\ platform = "pi" /\ boot.tryboot => boot.slot = pending.slot
            BY <2>2 DEF UpdateSafe, PiSafe, PiPending
        <3> QED
            BY <3>2, <3>3, <3>4, <3>6, <3>7, <3>8, <3>9, <3>10 DEF StatusIsTrue
    <2> QED
        BY <2>1, <2>2
<1> QED
    BY <1>1, UpdateInvariant, PTL
=============================================================================
