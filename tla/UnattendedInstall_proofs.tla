---------------------- MODULE UnattendedInstall_proofs ----------------------
(***************************************************************************)
(* Success is published only over a complete disk (SucceededIsComplete),   *)
(* and content goes onto an encrypted disk only after custody of its key   *)
(* (RecoveryKeyKept), for any number of plans, transactions, clients and   *)
(* faults, whoever drives the installer.                                   *)
(*                                                                         *)
(* Neither is inductive.  Fits says what the disk holds from how far the   *)
(* apply thread has come, ArmedForStatus whose key the gate holds.  The    *)
(* custody argument, Held, is made once for any set K of keys somebody     *)
(* has: K is what people and organizations confirmed, and again what the   *)
(* answer medium keeps.                                                    *)
(***************************************************************************)
EXTENDS UnattendedInstall, TLAPS

\* The steps of the apply thread.
Early == {"release", "layout", "repart", "table", "enroll", "enrolled", "disclose", "escrow"}
Armed == {"await", "wait", "attempt"}
KeyHeld == {"resume", "format", "formatted", "write", "stream"}
Bootable == {"booted", "seed", "document", "seeded", "installed", "complete"}
ReadBack == {"reread ok", "boot"} \cup Bootable
Working == Early \cup Armed \cup KeyHeld \cup {"written", "reread"} \cup ReadBack
Asking == {"preflight", "authorize", "start"}
Pcs == {"idle", "fail", "cancel"} \cup Asking \cup Working

Recovering == {"enroll", "enrolled", "disclose", "escrow"} \cup Armed
Enrolled == Recovering \ {"enroll"}
Blanked == {"repart", "table", "resume"} \cup Recovering
LaidOut == Working \ {"release", "layout", "repart"}

Actors == {"human", "service"}
Events == {"plan", "recovery", "apply"} \X Actors
Disks == [table : Tables, encrypted : BOOLEAN, key : Nat,
          roots : [{"A", "B"} -> {"blank", "torn", "release", "corrupt"}], boot : BOOLEAN,
          files : BOOLEAN, seed : {None, "unattended", "human"} \cup Modes,
          audit : SUBSET Events]
Statuses == [state : {"idle", "running", "awaiting", "failed", "succeeded"},
             phase : Nat \cup {None}, token : Tokens \cup {None}, written : Nat]
Gates == [state : {"idle", "personal", "organization", "confirmed"},
          token : Tokens \cup {None}, key : Nat]
Calls == [pc : Pcs, token : Tokens \cup {None}, unattended : BOOLEAN]

InstallTypeOK ==
    /\ platform \in {"uefi", "pi"} /\ disk \in Disks /\ status \in Statuses
    /\ gate \in Gates /\ call \in Calls
    /\ given \subseteq Tokens /\ liveAudit \subseteq Events /\ starts \in Nat

Blank == \A s \in {"A", "B"} : disk.roots[s] = "blank"
Released == \A s \in Range(RootSlots) : disk.roots[s] = "release"
Told(a) == /\ {<<"plan", a>>, <<"apply", a>>} \subseteq disk.audit
           /\ disk.encrypted => <<"recovery", a>> \in disk.audit
Complete == /\ Released /\ disk.boot /\ disk.files /\ disk.seed # None
            /\ \E a \in Actors : Told(a)

\* What is true when the apply thread is at pc.
Fits(pc) ==
    /\ pc \in Working => Active /\ status.token = call.token /\ starts # 0
    /\ pc \in Working \cup Asking => call.token \in Tokens
    /\ pc \in Blanked => Blank
    /\ pc \in LaidOut /\ disk.encrypted => Mode # "none"
    /\ pc \in Recovering => Mode # "none"
    /\ pc \in Enrolled => disk.key # 0
    /\ pc \in ReadBack => Released
    /\ pc \in Bootable => disk.boot
    /\ pc = "complete" => Complete
    /\ pc \in Armed => gate.key = disk.key
    /\ pc \in Working \ Armed => gate.state = "idle"
    /\ gate.state # "idle" => Active \/ pc = "cancel"

\* A gate that is armed is armed for the transaction of the status.
ArmedForStatus == gate.state # "idle" => gate.key # 0 /\ gate.token = status.token

InstallSafe == /\ InstallTypeOK /\ Fits(call.pc) /\ ArmedForStatus
               /\ status.state = "succeeded" => Complete

\* Whoever holds the keys of K holds the key of a disk with content.
Held(K) == /\ disk.encrypted /\ ~Blank => disk.key \in K
           /\ call.pc \in KeyHeld /\ disk.encrypted => disk.key \in K
           /\ gate.state = "confirmed" => gate.key \in K

\* No transaction is under way that could still arm the gate, and a gate that
\* is armed holds k.
Quiet(k) == /\ call.pc \notin Early
            /\ call.pc \in Asking => Active
            /\ gate.state = "personal" => gate.key = k

\* No organization is asked to keep a key.
NoEscrow == /\ call.pc # "idle" => Mode # "organization"
            /\ call.pc \notin {"escrow", "attempt"}

\* What a step of the daemon leaves as it was.
Carries(K, k) == /\ InstallSafe' /\ Held(K)'
                 /\ Quiet(k) => Quiet(k)'
                 /\ NoEscrow => NoEscrow'

-----------------------------------------------------------------------------
LEMMA SameDisk ==
    ASSUME platform' = platform, disk' = disk
    PROVE  Blank' = Blank /\ Released' = Released /\ Complete' = Complete
<1>1. Released' = Released
    BY DEF Released, RootSlots
<1>2. Blank' = Blank
    BY DEF Blank
<1>3. Complete' = Complete
    BY <1>1 DEF Complete, Told
<1> QED
    BY <1>1, <1>2, <1>3

\* The disk changes under a transaction; no success is published.
LEMMA SameRoots ==
    ASSUME platform' = platform, disk'.roots = disk.roots
    PROVE  Blank' = Blank /\ Released' = Released
BY DEF Released, RootSlots, Blank

LEMMA Went ==
    ASSUME call \in Calls, NEW pc \in Pcs, Goto(pc)
    PROVE  /\ call' \in Calls /\ call'.pc = pc /\ call'.token = call.token
           /\ call'.unattended = call.unattended
BY DEF Goto, Calls

LEMMA Left ==
    ASSUME Return
    PROVE  call' \in Calls /\ call'.pc = "idle"
BY DEF Return, IdleCall, Calls, Pcs

\* The apply thread goes on to pc, and nothing but the phase is written.
LEMMA Walks ==
    ASSUME InstallSafe, NEW K, Held(K), NEW k, NEW pc \in Pcs,
           call' \in Calls, call'.pc = pc, call'.token = call.token,
           call'.unattended = call.unattended,
           UNCHANGED <<platform, disk, gate, given, starts>>, liveAudit' \subseteq Events,
           status' \in Statuses, status'.state = status.state, status'.token = status.token,
           Fits(pc),
           pc \in KeyHeld /\ disk.encrypted => disk.key \in K,
           Quiet(k) => pc \notin Early /\ (pc \in Asking => Active),
           NoEscrow => pc \notin {"escrow", "attempt"} /\ call.pc # "idle"
    PROVE  Carries(K, k)
<1>1. Blank' = Blank /\ Released' = Released /\ Complete' = Complete
    BY SameDisk
<1>2. Active' = Active
    BY DEF Active
<1>3. disk' = disk /\ gate' = gate /\ starts' = starts
    OBVIOUS
<1>4. InstallTypeOK'
    BY DEF InstallSafe, InstallTypeOK
<1>5. Fits(call.pc)'
    BY <1>1, <1>2, <1>3 DEF Fits, Mode
<1>6. ArmedForStatus' /\ (status.state = "succeeded" => Complete)'
    BY <1>1, <1>3 DEF InstallSafe, ArmedForStatus
<1>7. Held(K)'
    BY <1>1, <1>3 DEF Held
<1>8. Quiet(k) => Quiet(k)'
    BY <1>2, <1>3 DEF Quiet
<1>9. NoEscrow => NoEscrow'
    BY DEF NoEscrow, Mode
<1> QED
    BY <1>4, <1>5, <1>6, <1>7, <1>8, <1>9 DEF Carries, InstallSafe

\* Nothing the invariants speak of changes.
LEMMA Elsewhere ==
    ASSUME InstallSafe, NEW K, Held(K), NEW k, given' \subseteq Tokens, liveAudit' \subseteq Events,
           UNCHANGED <<platform, disk, status, gate, call, starts>>
    PROVE  Carries(K, k)
<1>1. Blank' = Blank /\ Released' = Released /\ Complete' = Complete
    BY SameDisk
<1>2. Active' = Active
    BY DEF Active
<1>3. disk' = disk /\ gate' = gate /\ starts' = starts /\ call' = call /\ status' = status
    OBVIOUS
<1>4. InstallTypeOK'
    BY DEF InstallSafe, InstallTypeOK
<1>5. Fits(call.pc)'
    BY <1>1, <1>2, <1>3 DEF InstallSafe, Fits, Mode
<1>6. ArmedForStatus' /\ (status.state = "succeeded" => Complete)'
    BY <1>1, <1>3 DEF InstallSafe, ArmedForStatus
<1>7. Held(K)'
    BY <1>1, <1>3 DEF Held
<1>8. (Quiet(k) => Quiet(k)') /\ (NoEscrow => NoEscrow')
    BY <1>2, <1>3 DEF Quiet, NoEscrow, Mode
<1> QED
    BY <1>4, <1>5, <1>6, <1>7, <1>8 DEF Carries, InstallSafe

-----------------------------------------------------------------------------
(* The steps of the daemon *)

\* The apply thread writes to the disk.
LEMMA Writes ==
    ASSUME InstallSafe, NEW K, Held(K), NEW k, NEW pc \in Working \ Armed, call.pc \in Working \ Armed,
           call' \in Calls, call'.pc = pc, call'.token = call.token,
           call'.unattended = call.unattended,
           UNCHANGED <<platform, gate, given, liveAudit, starts>>, disk' \in Disks,
           status' \in Statuses, status'.state = status.state, status'.token = status.token,
           pc \in Blanked => Blank',
           pc \in LaidOut /\ disk'.encrypted => Mode # "none",
           pc \in Recovering => Mode # "none" /\ (pc \in Enrolled => disk'.key # 0),
           pc \in ReadBack => Released', pc \in Bootable => disk'.boot, pc = "complete" => Complete',
           disk'.encrypted /\ ~Blank' => disk'.key \in K,
           pc \in KeyHeld /\ disk'.encrypted => disk'.key \in K,
           pc \in Early => call.pc \in Early, pc # "escrow"
    PROVE  Carries(K, k)
<1>1. Active' = Active /\ Active /\ gate.state = "idle" /\ status.token = call.token
      /\ call.token \in Tokens /\ starts # 0
    BY DEF InstallSafe, Fits, Active
<1>2. gate' = gate /\ starts' = starts /\ status'.state # "succeeded"
    BY <1>1 DEF Active
<1>3. InstallTypeOK'
    BY DEF InstallSafe, InstallTypeOK
<1>4. Fits(call.pc)'
    <2>1. Mode' = Mode /\ status'.token = call'.token /\ call'.token \in Tokens /\ gate'.state = "idle"
        BY <1>1, <1>2 DEF Mode
    <2>2. pc \in LaidOut /\ disk'.encrypted => Mode' # "none"
        BY <2>1
    <2>3. pc \in Enrolled => pc \in Recovering /\ disk'.key # 0
        BY DEF Enrolled
    <2> HIDE DEF Mode
    <2> QED
        BY <1>1, <1>2, <2>1, <2>2, <2>3 DEF Fits
<1>5. ArmedForStatus'
    BY <1>1, <1>2 DEF ArmedForStatus
<1>6. Held(K)'
    BY <1>1, <1>2 DEF Held
<1>7. Quiet(k) => Quiet(k)'
    BY <1>1, <1>2 DEF Quiet
<1>8. NoEscrow => NoEscrow'
    BY Zenon DEF NoEscrow, Mode, Armed, Working, Early, KeyHeld, ReadBack, Bootable
<1> QED
    BY <1>2, <1>3, <1>4, <1>5, <1>6, <1>7, <1>8 DEF Carries, InstallSafe

\* The gate or the status turns at the recovery checkpoint.
LEMMA Turns ==
    ASSUME InstallSafe, NEW K, NEW L, Held(K), K \subseteq L, NEW k,
           NEW pc \in LaidOut \ ReadBack, call.pc \in LaidOut,
           call' \in Calls, call'.pc = pc, call'.token = call.token,
           call'.unattended = call.unattended,
           UNCHANGED <<platform, disk, given, liveAudit, starts>>,
           status' \in Statuses, Active', status'.token = status.token, gate' \in Gates,
           pc \in Blanked => call.pc \in Blanked, pc \in Recovering => call.pc \in Recovering,
           pc \in Enrolled => call.pc \in Enrolled,
           pc \in Armed => gate'.key = disk.key, pc \notin Armed => gate'.state = "idle",
           gate'.state # "idle" => gate'.key # 0 /\ gate'.token = status.token,
           gate'.state = "confirmed" => gate'.key \in L,
           pc \in KeyHeld /\ disk.encrypted => disk.key \in L,
           Quiet(k) => pc \notin Early /\ (gate'.state = "personal" => gate'.key = k),
           NoEscrow => pc \notin {"escrow", "attempt"}
    PROVE  Carries(L, k)
<1>1. Blank' = Blank /\ disk' = disk /\ starts' = starts
    BY SameDisk
<1>2. /\ call.pc \in Working /\ pc \in Working /\ pc \notin Bootable /\ pc # "complete"
      /\ pc \notin Asking /\ call.pc # "idle"
    BY Zenon DEF LaidOut, Working, ReadBack, Bootable, Early, Armed, KeyHeld, Asking
<1>3. status'.state # "succeeded"
    BY DEF Active
<1>4. InstallTypeOK'
    BY DEF InstallSafe, InstallTypeOK
<1>5. Fits(call.pc)'
    BY <1>1, <1>2 DEF InstallSafe, Fits, Mode
<1>6. ArmedForStatus'
    BY DEF ArmedForStatus
<1>7. Held(L)'
    BY <1>1 DEF Held
<1>8. (Quiet(k) => Quiet(k)') /\ (NoEscrow => NoEscrow')
    BY <1>2 DEF Quiet, NoEscrow, Mode
<1> QED
    BY <1>3, <1>4, <1>5, <1>6, <1>7, <1>8 DEF Carries, InstallSafe

\* The call ends.
LEMMA Returns ==
    ASSUME InstallSafe, NEW K, Held(K), NEW k, Return, UNCHANGED <<platform, disk, starts>>,
           given' \subseteq Tokens, liveAudit' \subseteq Events,
           status' \in Statuses, status'.state = "succeeded" => Complete, gate' \in Gates,
           gate'.state # "idle" => gate' = gate /\ status'.token = status.token /\ Active'
    PROVE  Carries(K, k)
<1>1. Blank' = Blank /\ Complete' = Complete /\ disk' = disk /\ starts' = starts
    BY SameDisk
<1>2. call' \in Calls /\ call'.pc = "idle"
    BY Left
<1>3. "idle" \notin Working \cup Blanked \cup LaidOut \cup Recovering \cup Enrolled \cup ReadBack
                     \cup Bootable \cup Armed \cup Early \cup Asking \cup KeyHeld
    BY DEF Early, Armed, KeyHeld, Bootable, ReadBack, Working, Asking, Pcs, Recovering, Enrolled, Blanked, LaidOut
<1>4. InstallTypeOK'
    BY <1>2 DEF InstallSafe, InstallTypeOK
<1>5. Fits(call.pc)'
    BY <1>2, <1>3 DEF Fits
<1>6. ArmedForStatus' /\ (status.state = "succeeded" => Complete)'
    BY <1>1 DEF InstallSafe, ArmedForStatus
<1>7. Held(K)'
    BY <1>1, <1>2, <1>3 DEF Held
<1>8. (Quiet(k) => Quiet(k)') /\ NoEscrow'
    BY <1>2, <1>3 DEF Quiet, NoEscrow
<1> QED
    BY <1>4, <1>5, <1>6, <1>7, <1>8 DEF Carries, InstallSafe


LEMMA StepPreflight ==
    ASSUME InstallSafe, NEW K, Held(K), NEW k, Preflight
    PROVE  Carries(K, k)
<1>1. PICK pc \in {"authorize", "start", "fail"} : Goto(pc)
    BY DEF Preflight
<1>2. call.pc = "preflight" /\ UNCHANGED <<platform, disk, status, gate, given, starts>>
    BY DEF Preflight, At, bounds
<1>3. InstallTypeOK /\ liveAudit' \subseteq Events
    BY DEF InstallSafe, InstallTypeOK, Preflight
<1>4. /\ pc \in Pcs /\ call' \in Calls /\ call'.pc = pc /\ call'.token = call.token
      /\ call'.unattended = call.unattended
    BY <1>1, <1>3, Went, Zenon DEF InstallTypeOK, Early, Armed, KeyHeld, Bootable, ReadBack, Working, Asking, Pcs, Recovering, Enrolled, Blanked, LaidOut
<1>5. Fits(pc)
    BY <1>1, <1>2, Zenon DEF InstallSafe, Fits, Early, Armed, KeyHeld, Bootable, ReadBack, Working, Asking, Pcs, Recovering, Enrolled, Blanked, LaidOut
<1>6. /\ pc \in KeyHeld /\ disk.encrypted => disk.key \in K
      /\ Quiet(k) => pc \notin Early /\ (pc \in Asking => Active)
      /\ NoEscrow => pc \notin {"escrow", "attempt"} /\ call.pc # "idle"
    BY <1>1, <1>2, <1>3 DEF Quiet, NoEscrow, Held, Early, Armed, KeyHeld, Bootable, ReadBack, Working, Asking, Pcs, Recovering, Enrolled, Blanked, LaidOut
<1> QED
    BY <1>2, <1>3, <1>4, <1>5, <1>6, Walks DEF InstallTypeOK


LEMMA StepAuthorize ==
    ASSUME InstallSafe, NEW K, Held(K), NEW k, Authorize
    PROVE  Carries(K, k)
<1>1. PICK pc \in {"start"} : Goto(pc)
    BY DEF Authorize
<1>2. call.pc = "authorize" /\ UNCHANGED <<platform, disk, status, gate, given, starts>>
    BY DEF Authorize, At, bounds
<1>3. InstallTypeOK /\ liveAudit' \subseteq Events
    BY DEF InstallSafe, InstallTypeOK, Authorize, Events, Actors, Actor
<1>4. /\ pc \in Pcs /\ call' \in Calls /\ call'.pc = pc /\ call'.token = call.token
      /\ call'.unattended = call.unattended
    BY <1>1, <1>3, Went, Zenon DEF InstallTypeOK, Early, Armed, KeyHeld, Bootable, ReadBack, Working, Asking, Pcs, Recovering, Enrolled, Blanked, LaidOut
<1>5. Fits(pc)
    BY <1>1, <1>2 DEF InstallSafe, Fits, Early, Armed, KeyHeld, Bootable, ReadBack, Working, Asking, Pcs, Recovering, Enrolled, Blanked, LaidOut
<1>6. /\ pc \in KeyHeld /\ disk.encrypted => disk.key \in K
      /\ Quiet(k) => pc \notin Early /\ (pc \in Asking => Active)
      /\ NoEscrow => pc \notin {"escrow", "attempt"} /\ call.pc # "idle"
    BY <1>1, <1>2, <1>3 DEF Quiet, NoEscrow, Held, Early, Armed, KeyHeld, Bootable, ReadBack, Working, Asking, Pcs, Recovering, Enrolled, Blanked, LaidOut
<1> QED
    BY <1>2, <1>3, <1>4, <1>5, <1>6, Walks DEF InstallTypeOK


\* A phase is entered: only the status changes besides.
LEMMA Enters ==
    ASSUME InstallSafe, NEW K, Held(K), NEW k, NEW old \in Pcs, NEW pc \in Pcs, NEW phase \in Nat,
           EnterPhase(old, phase, pc), Fits(pc),
           pc \in KeyHeld /\ disk.encrypted => disk.key \in K,
           Quiet(k) => pc \notin Early, pc \notin Asking \cup {"escrow", "attempt"}, old # "idle"
    PROVE  Carries(K, k)
<1>1. /\ call.pc = old /\ Goto(pc) /\ status' = [status EXCEPT !.phase = phase]
      /\ UNCHANGED <<platform, disk, gate, given, starts, liveAudit>>
    BY DEF EnterPhase, At, bounds
<1>2. InstallTypeOK
    BY DEF InstallSafe
<1>3. status' \in Statuses /\ status'.state = status.state /\ status'.token = status.token
    BY <1>1, <1>2 DEF InstallTypeOK, Statuses
<1>4. /\ call' \in Calls /\ call'.pc = pc /\ call'.token = call.token
      /\ call'.unattended = call.unattended
    BY <1>1, <1>2, Went DEF InstallTypeOK
<1> QED
    BY <1>1, <1>2, <1>3, <1>4, Walks DEF InstallTypeOK

LEMMA StepEnter ==
    ASSUME InstallSafe, NEW K, Held(K), NEW k, Enter
    PROVE  Carries(K, k)
<1>1. CASE EnterPhase("release", Partition, "layout")
    <2>1. call.pc = "release" /\ {"release", "layout"} \subseteq Pcs /\ Partition \in Nat
        BY <1>1 DEF EnterPhase, At, Early, Armed, KeyHeld, Bootable, ReadBack, Working, Asking, Pcs, Recovering, Enrolled, Blanked, LaidOut, Partition
    <2>2. /\ Fits("layout")
          /\ "layout" \in KeyHeld /\ disk.encrypted => disk.key \in K
          /\ Quiet(k) => "layout" \notin Early
          /\ "layout" \notin Asking \cup {"escrow", "attempt"}
        BY <2>1 DEF InstallSafe, Held, Quiet, Fits, Early, Armed, KeyHeld, Bootable, ReadBack, Working, Asking, Pcs, Recovering, Enrolled, Blanked, LaidOut
    <2> QED
        BY <1>1, <2>1, <2>2, Enters
<1>2. CASE EnterPhase("table", Encrypt, IF Mode = "none" THEN "format" ELSE "enroll")
    <2> DEFINE pc == IF Mode = "none" THEN "format" ELSE "enroll"
    <2>1. call.pc = "table" /\ {"table", pc} \subseteq Pcs /\ Encrypt \in Nat
        BY <1>2 DEF EnterPhase, At, Early, Armed, KeyHeld, Bootable, ReadBack, Working, Asking, Pcs, Recovering, Enrolled, Blanked, LaidOut, Encrypt
    <2>2. /\ Fits(pc)
          /\ pc \in KeyHeld /\ disk.encrypted => disk.key \in K
          /\ Quiet(k) => pc \notin Early
          /\ pc \notin Asking \cup {"escrow", "attempt"}
        <3>1. CASE Mode = "none"
            BY <2>1, <3>1 DEF InstallSafe, Held, Quiet, Fits, Early, Armed, KeyHeld, Bootable, ReadBack, Working, Asking, Pcs, Recovering, Enrolled, Blanked, LaidOut
        <3>2. CASE Mode # "none"
            BY <2>1, <3>2 DEF InstallSafe, Held, Quiet, Fits, Early, Armed, KeyHeld, Bootable, ReadBack, Working, Asking, Pcs, Recovering, Enrolled, Blanked, LaidOut
        <3> QED
            BY <3>1, <3>2
    <2> QED
        BY <1>2, <2>1, <2>2, Enters
<1>3. CASE EnterPhase("format", Format, "formatted")
    <2>1. call.pc = "format" /\ {"format", "formatted"} \subseteq Pcs /\ Format \in Nat
        BY <1>3 DEF EnterPhase, At, Early, Armed, KeyHeld, Bootable, ReadBack, Working, Asking, Pcs, Recovering, Enrolled, Blanked, LaidOut, Format
    <2>2. /\ Fits("formatted")
          /\ "formatted" \in KeyHeld /\ disk.encrypted => disk.key \in K
          /\ Quiet(k) => "formatted" \notin Early
          /\ "formatted" \notin Asking \cup {"escrow", "attempt"}
        BY <2>1 DEF InstallSafe, Held, Quiet, Fits, Early, Armed, KeyHeld, Bootable, ReadBack, Working, Asking, Pcs, Recovering, Enrolled, Blanked, LaidOut
    <2> QED
        BY <1>3, <2>1, <2>2, Enters
<1>4. CASE EnterPhase("formatted", WriteSlotA, "write")
    <2>1. call.pc = "formatted" /\ {"formatted", "write"} \subseteq Pcs /\ WriteSlotA \in Nat
        BY <1>4 DEF EnterPhase, At, Early, Armed, KeyHeld, Bootable, ReadBack, Working, Asking, Pcs, Recovering, Enrolled, Blanked, LaidOut, WriteSlotA
    <2>2. /\ Fits("write")
          /\ "write" \in KeyHeld /\ disk.encrypted => disk.key \in K
          /\ Quiet(k) => "write" \notin Early
          /\ "write" \notin Asking \cup {"escrow", "attempt"}
        BY <2>1 DEF InstallSafe, Held, Quiet, Fits, Early, Armed, KeyHeld, Bootable, ReadBack, Working, Asking, Pcs, Recovering, Enrolled, Blanked, LaidOut
    <2> QED
        BY <1>4, <2>1, <2>2, Enters
<1>5. CASE EnterPhase("written", ReRead, "reread")
    <2>1. call.pc = "written" /\ {"written", "reread"} \subseteq Pcs /\ ReRead \in Nat
        BY <1>5 DEF EnterPhase, At, Early, Armed, KeyHeld, Bootable, ReadBack, Working, Asking, Pcs, Recovering, Enrolled, Blanked, LaidOut, ReRead
    <2>2. /\ Fits("reread")
          /\ "reread" \in KeyHeld /\ disk.encrypted => disk.key \in K
          /\ Quiet(k) => "reread" \notin Early
          /\ "reread" \notin Asking \cup {"escrow", "attempt"}
        BY <2>1 DEF InstallSafe, Held, Quiet, Fits, Early, Armed, KeyHeld, Bootable, ReadBack, Working, Asking, Pcs, Recovering, Enrolled, Blanked, LaidOut
    <2> QED
        BY <1>5, <2>1, <2>2, Enters
<1>6. CASE EnterPhase("reread ok", Boot, "boot")
    <2>1. call.pc = "reread ok" /\ {"reread ok", "boot"} \subseteq Pcs /\ Boot \in Nat
        BY <1>6, Zenon DEF EnterPhase, At, Early, Armed, KeyHeld, Bootable, ReadBack, Working, Asking, Pcs, Recovering, Enrolled, Blanked, LaidOut, Boot
    <2>2. /\ Fits("boot")
          /\ "boot" \in KeyHeld /\ disk.encrypted => disk.key \in K
          /\ Quiet(k) => "boot" \notin Early
          /\ "boot" \notin Asking \cup {"escrow", "attempt"}
        BY <2>1, Zenon DEF InstallSafe, Held, Quiet, Fits, Early, Armed, KeyHeld, Bootable, ReadBack, Working, Asking, Pcs, Recovering, Enrolled, Blanked, LaidOut
    <2> QED
        BY <1>6, <2>1, <2>2, Enters, Zenon
<1>7. CASE EnterPhase("booted", Seed, "seed")
    <2>1. call.pc = "booted" /\ {"booted", "seed"} \subseteq Pcs /\ Seed \in Nat
        BY <1>7 DEF EnterPhase, At, Early, Armed, KeyHeld, Bootable, ReadBack, Working, Asking, Pcs, Recovering, Enrolled, Blanked, LaidOut, Seed
    <2>2. /\ Fits("seed")
          /\ "seed" \in KeyHeld /\ disk.encrypted => disk.key \in K
          /\ Quiet(k) => "seed" \notin Early
          /\ "seed" \notin Asking \cup {"escrow", "attempt"}
        BY <2>1 DEF InstallSafe, Held, Quiet, Fits, Early, Armed, KeyHeld, Bootable, ReadBack, Working, Asking, Pcs, Recovering, Enrolled, Blanked, LaidOut
    <2> QED
        BY <1>7, <2>1, <2>2, Enters
<1>8. CASE EnterPhase("seeded", VerifyInstalled, "installed")
    <2>1. call.pc = "seeded" /\ {"seeded", "installed"} \subseteq Pcs /\ VerifyInstalled \in Nat
        BY <1>8 DEF EnterPhase, At, Early, Armed, KeyHeld, Bootable, ReadBack, Working, Asking, Pcs, Recovering, Enrolled, Blanked, LaidOut, VerifyInstalled
    <2>2. /\ Fits("installed")
          /\ "installed" \in KeyHeld /\ disk.encrypted => disk.key \in K
          /\ Quiet(k) => "installed" \notin Early
          /\ "installed" \notin Asking \cup {"escrow", "attempt"}
        BY <2>1 DEF InstallSafe, Held, Quiet, Fits, Early, Armed, KeyHeld, Bootable, ReadBack, Working, Asking, Pcs, Recovering, Enrolled, Blanked, LaidOut
    <2> QED
        BY <1>8, <2>1, <2>2, Enters
<1> QED
    BY <1>1, <1>2, <1>3, <1>4, <1>5, <1>6, <1>7, <1>8, Zenon DEF Enter

LEMMA StepAuditEnrolment ==
    ASSUME InstallSafe, NEW K, Held(K), NEW k, AuditEnrolment
    PROVE  Carries(K, k)
<1>1. PICK pc \in {"disclose", "escrow"} : Goto(pc) /\ (Mode = "personal" => pc = "disclose")
    BY DEF AuditEnrolment
<1>2. call.pc = "enrolled" /\ UNCHANGED <<platform, disk, status, gate, given, starts>>
    BY DEF AuditEnrolment, At, bounds
<1>3. InstallTypeOK /\ liveAudit' \subseteq Events
    BY DEF InstallSafe, InstallTypeOK, AuditEnrolment, Events, Actors, Actor
<1>4. /\ pc \in Pcs /\ call' \in Calls /\ call'.pc = pc /\ call'.token = call.token
      /\ call'.unattended = call.unattended
    BY <1>1, <1>3, Went, Zenon DEF InstallTypeOK, Early, Armed, KeyHeld, Bootable, ReadBack, Working, Asking, Pcs, Recovering, Enrolled, Blanked, LaidOut
<1>5. Fits(pc)
    BY <1>1, <1>2, Zenon DEF InstallSafe, Fits, Early, Armed, KeyHeld, Bootable, ReadBack, Working, Asking, Pcs, Recovering, Enrolled, Blanked, LaidOut
<1>6. /\ pc \in KeyHeld /\ disk.encrypted => disk.key \in K
      /\ Quiet(k) => pc \notin Early /\ (pc \in Asking => Active)
      /\ NoEscrow => pc \notin {"escrow", "attempt"} /\ call.pc # "idle"
    BY <1>1, <1>2, <1>3 DEF InstallSafe, Fits, Tokens, Modes, Mode, Quiet, NoEscrow, Held, Early, Armed, KeyHeld, Bootable, ReadBack, Working, Asking, Pcs, Recovering, Enrolled, Blanked, LaidOut
<1> QED
    BY <1>2, <1>3, <1>4, <1>5, <1>6, Walks DEF InstallTypeOK


LEMMA StepVerifyWritten ==
    ASSUME InstallSafe, NEW K, Held(K), NEW k, VerifyWrittenRootSlots
    PROVE  Carries(K, k)
<1>1. PICK pc \in {"reread ok", "fail"} : Goto(pc) /\ (pc = "reread ok" => Released)
    BY Zenon DEF Released, VerifyWrittenRootSlots
<1>2. call.pc = "reread" /\ UNCHANGED <<platform, disk, status, gate, given, starts>>
    BY Zenon DEF VerifyWrittenRootSlots, At, bounds
<1>3. InstallTypeOK /\ liveAudit' \subseteq Events
    BY Zenon DEF InstallSafe, InstallTypeOK, VerifyWrittenRootSlots
<1>4. /\ pc \in Pcs /\ call' \in Calls /\ call'.pc = pc /\ call'.token = call.token
      /\ call'.unattended = call.unattended
    BY <1>1, <1>3, Went, Zenon DEF InstallTypeOK, Early, Armed, KeyHeld, Bootable, ReadBack, Working, Asking, Pcs, Recovering, Enrolled, Blanked, LaidOut
<1>5. Fits(pc)
    BY <1>1, <1>2, Zenon DEF InstallSafe, Fits, Early, Armed, KeyHeld, Bootable, ReadBack, Working, Asking, Pcs, Recovering, Enrolled, Blanked, LaidOut
<1>6. /\ pc \in KeyHeld /\ disk.encrypted => disk.key \in K
      /\ Quiet(k) => pc \notin Early /\ (pc \in Asking => Active)
      /\ NoEscrow => pc \notin {"escrow", "attempt"} /\ call.pc # "idle"
    BY <1>1, <1>2, <1>3, Zenon DEF Quiet, NoEscrow, Held, Early, Armed, KeyHeld, Bootable, ReadBack, Working, Asking, Pcs, Recovering, Enrolled, Blanked, LaidOut
<1> QED
    BY <1>2, <1>3, <1>4, <1>5, <1>6, Walks, Zenon DEF InstallTypeOK


LEMMA StepFails ==
    ASSUME InstallSafe, NEW K, Held(K), NEW k, Fails
    PROVE  Carries(K, k)
<1>1. /\ Goto("fail") /\ call.pc \notin {"idle", "cancel"}
      /\ UNCHANGED <<platform, disk, status, gate, given, starts, liveAudit>>
    BY DEF Fails
<1>2. InstallTypeOK /\ "fail" \in Pcs
    BY DEF InstallSafe, Pcs
<1>3. /\ call' \in Calls /\ call'.pc = "fail" /\ call'.token = call.token
      /\ call'.unattended = call.unattended
    BY <1>1, <1>2, Went DEF InstallTypeOK
<1>4. Fits("fail") /\ "fail" \notin KeyHeld \cup Early \cup Asking
    BY <1>1, Zenon DEF InstallSafe, Fits, Early, Armed, KeyHeld, Bootable, ReadBack, Working, Asking, Pcs, Recovering, Enrolled, Blanked, LaidOut
<1> QED
    BY <1>1, <1>2, <1>3, <1>4, Walks DEF InstallTypeOK

LEMMA StepBegin ==
    ASSUME InstallSafe, NEW K, Held(K), NEW k, NEW token \in Tokens, NEW unattended \in BOOLEAN,
           ApplyBegin(token, unattended)
    PROVE  /\ InstallSafe' /\ Held(K)' /\ (token.mode # "organization" => NoEscrow')
<1>1. /\ call' \in Calls /\ call'.pc = "preflight" /\ call'.token = token /\ call.pc = "idle"
      /\ UNCHANGED <<platform, disk, status, gate, given, starts, liveAudit>>
    BY DEF ApplyBegin, At, Calls, Pcs, Asking, bounds
<1>2. Blank' = Blank /\ Complete' = Complete /\ disk' = disk /\ gate' = gate /\ Active' = Active
    BY <1>1, SameDisk DEF Active
<1>3. "preflight" \notin Working \cup Blanked \cup LaidOut \cup Recovering \cup Enrolled \cup ReadBack
                          \cup Bootable \cup Armed \cup KeyHeld
    BY DEF Early, Armed, KeyHeld, Bootable, ReadBack, Working, Asking, Pcs, Recovering, Enrolled, Blanked, LaidOut
<1>4. InstallTypeOK'
    BY <1>1 DEF InstallSafe, InstallTypeOK
<1>5. Fits(call.pc)'
    BY <1>1, <1>2, <1>3 DEF InstallSafe, Fits
<1>6. ArmedForStatus' /\ (status.state = "succeeded" => Complete)'
    BY <1>1, <1>2 DEF InstallSafe, ArmedForStatus
<1>7. Held(K)' /\ (token.mode # "organization" => NoEscrow')
    BY <1>1, <1>2, <1>3 DEF Held, NoEscrow, Mode
<1> QED
    BY <1>4, <1>5, <1>6, <1>7 DEF InstallSafe

LEMMA StepStart ==
    ASSUME InstallSafe, NEW K, Held(K), NEW k, StartTransactionStatus
    PROVE  Carries(K, k)
<1>1. /\ call.pc = "start" /\ InstallTypeOK
      /\ UNCHANGED <<platform, disk, gate, given, liveAudit>>
    BY DEF StartTransactionStatus, At, InstallSafe
<1>2. CASE Goto("fail") /\ UNCHANGED <<status, starts>>
    <2>1. "fail" \in Pcs /\ Fits("fail") /\ "fail" \notin KeyHeld \cup Early \cup Asking
        BY <1>1 DEF InstallSafe, Fits, Early, Armed, KeyHeld, Bootable, ReadBack, Working, Asking, Pcs, Recovering, Enrolled, Blanked, LaidOut
    <2>2. /\ call' \in Calls /\ call'.pc = "fail" /\ call'.token = call.token
          /\ call'.unattended = call.unattended
        BY <1>1, <1>2, <2>1, Went DEF InstallTypeOK
    <2> QED
        BY <1>1, <1>2, <2>1, <2>2, Walks DEF InstallTypeOK
<1>3. CASE /\ ~Active /\ Goto("release") /\ starts' = starts + 1
           /\ status' = [state |-> "running", phase |-> VerifyRelease, token |-> call.token, written |-> 0]
    <2>1. "release" \in Pcs
        BY DEF Early, Armed, KeyHeld, Bootable, ReadBack, Working, Asking, Pcs, Recovering, Enrolled, Blanked, LaidOut
    <2>2. /\ call' \in Calls /\ call'.pc = "release" /\ call'.token = call.token
          /\ call'.unattended = call.unattended
        BY <1>1, <1>3, <2>1, Went DEF InstallTypeOK
    <2>3. /\ status' \in Statuses /\ status'.state = "running" /\ status'.token = call.token
          /\ call.token \in Tokens
        BY <1>1, <1>3 DEF InstallSafe, Fits, Asking, Statuses, VerifyRelease
    <2>4. gate.state = "idle"
        BY <1>1, <1>3 DEF InstallSafe, Fits
    <2>5. starts' \in Nat /\ starts' # 0
        BY <1>1, <1>3 DEF InstallTypeOK
    <2>6. Blank' = Blank /\ disk' = disk /\ gate' = gate
        BY <1>1, SameDisk
    <2>7. InstallTypeOK'
        BY <1>1, <2>2, <2>3, <2>5 DEF InstallTypeOK
    <2>8. /\ Active' /\ "release" \notin Blanked \cup LaidOut \cup Recovering \cup Enrolled \cup ReadBack
          /\ "release" \notin Bootable \cup Armed \cup KeyHeld /\ "release" \in Working
        BY <2>3 DEF Active, Early, Armed, KeyHeld, Bootable, ReadBack, Working, Asking, Pcs, Recovering, Enrolled, Blanked, LaidOut
    <2>9. Fits(call.pc)'
        BY <1>3, <2>2, <2>3, <2>4, <2>5, <2>6, <2>8 DEF Fits
    <2>10. ArmedForStatus' /\ ~Quiet(k)
        BY <1>1, <1>3, <2>4, <2>6 DEF ArmedForStatus, Quiet, Asking
    <2>11. Held(K)' /\ (NoEscrow => NoEscrow')
        BY <1>1, <2>2, <2>4, <2>6, <2>8 DEF Held, NoEscrow, Mode
    <2> QED
        BY <2>3, <2>7, <2>9, <2>10, <2>11 DEF Carries, InstallSafe
<1> QED
    BY <1>2, <1>3 DEF StartTransactionStatus

-----------------------------------------------------------------------------
\* The disk

LEMMA StepLayout ==
    ASSUME InstallSafe, NEW K, Held(K), NEW k, PrepareDiskLayout
    PROVE  Carries(K, k)
<1>1. /\ call.pc = "layout" /\ InstallTypeOK
      /\ UNCHANGED <<platform, status, gate, given, starts, liveAudit>>
    BY DEF PrepareDiskLayout, At, InstallSafe, bounds
<1>2. CASE Goto("fail") /\ UNCHANGED disk
    <2>1. "fail" \in Pcs /\ Fits("fail") /\ "fail" \notin KeyHeld \cup Early \cup Asking
        BY <1>1 DEF InstallSafe, Fits, Early, Armed, KeyHeld, Bootable, ReadBack, Working, Asking, Pcs, Recovering, Enrolled, Blanked, LaidOut
    <2>2. /\ call' \in Calls /\ call'.pc = "fail" /\ call'.token = call.token
          /\ call'.unattended = call.unattended
        BY <1>1, <1>2, <2>1, Went DEF InstallTypeOK
    <2> QED
        BY <1>1, <1>2, <2>1, <2>2, Walks DEF InstallTypeOK
<1>3. CASE disk' = Bare("torn") /\ Goto("repart")
    <2>1. disk' \in Disks /\ disk'.encrypted = FALSE /\ disk'.roots = [s \in {"A", "B"} |-> "blank"]
        BY <1>3 DEF Bare, Disks, Tables
    <2>2. Blank'
        BY <2>1 DEF Blank
    <2>3. /\ "repart" \in Working \ Armed /\ call.pc \in Working \ Armed /\ "repart" \in Pcs
          /\ "repart" \notin LaidOut \cup Recovering \cup Enrolled \cup ReadBack \cup Bootable \cup KeyHeld
          /\ call.pc \in Early
        BY <1>1 DEF Early, Armed, KeyHeld, Bootable, ReadBack, Working, Asking, Pcs, Recovering, Enrolled, Blanked, LaidOut
    <2>4. /\ call' \in Calls /\ call'.pc = "repart" /\ call'.token = call.token
          /\ call'.unattended = call.unattended
        BY <1>1, <1>3, <2>3, Went DEF InstallTypeOK
    <2> QED
        BY <1>1, <2>1, <2>2, <2>3, <2>4, Writes DEF InstallTypeOK
<1> QED
    BY <1>2, <1>3 DEF PrepareDiskLayout

LEMMA StepRepart ==
    ASSUME InstallSafe, NEW K, Held(K), NEW k, Repart
    PROVE  Carries(K, k)
<1>1. /\ call.pc = "repart" /\ InstallTypeOK /\ Goto("table")
      /\ disk' = [[disk EXCEPT !.table = "punar"] EXCEPT !.encrypted = (Mode # "none")]
      /\ UNCHANGED <<platform, status, gate, given, starts, liveAudit>>
    BY DEF Repart, At, InstallSafe, bounds
<1>2. /\ disk' \in Disks /\ disk'.roots = disk.roots /\ (disk'.encrypted => Mode # "none")
    BY <1>1, Zenon DEF InstallTypeOK, Disks, Tables
<1>3. Blank' = Blank
    BY <1>1, <1>2, SameRoots
<1>4. /\ "table" \in Working \ Armed /\ call.pc \in Working \ Armed /\ "table" \in Pcs
      /\ "table" \notin Recovering \cup Enrolled \cup ReadBack \cup Bootable \cup KeyHeld
      /\ call.pc \in Early \cap Blanked
    BY <1>1 DEF Early, Armed, KeyHeld, Bootable, ReadBack, Working, Asking, Pcs, Recovering, Enrolled, Blanked, LaidOut
<1>5. Blank
    BY <1>4 DEF InstallSafe, Fits
<1>6. /\ call' \in Calls /\ call'.pc = "table" /\ call'.token = call.token
      /\ call'.unattended = call.unattended
    BY <1>1, <1>4, Went DEF InstallTypeOK
<1> QED
    BY <1>1, <1>2, <1>3, <1>4, <1>5, <1>6, Writes DEF InstallTypeOK

LEMMA StepEnroll ==
    ASSUME InstallSafe, NEW K, Held(K), NEW k, EnrollRecoveryKey
    PROVE  Carries(K, k)
<1>1. /\ call.pc = "enroll" /\ InstallTypeOK /\ Goto("enrolled")
      /\ disk' = [disk EXCEPT !.key = starts]
      /\ UNCHANGED <<platform, status, gate, given, starts, liveAudit>>
    BY DEF EnrollRecoveryKey, At, InstallSafe, bounds
<1>2. /\ disk' \in Disks /\ disk'.roots = disk.roots /\ disk'.key = starts
    BY <1>1 DEF InstallTypeOK, Disks
<1>3. Blank' = Blank
    BY <1>1, <1>2, SameRoots
<1>4. /\ "enrolled" \in Working \ Armed /\ call.pc \in Working \ Armed /\ "enrolled" \in Pcs
      /\ "enrolled" \notin ReadBack \cup Bootable \cup KeyHeld
      /\ call.pc \in Early \cap Blanked \cap Recovering
    BY <1>1 DEF Early, Armed, KeyHeld, Bootable, ReadBack, Working, Asking, Pcs, Recovering, Enrolled, Blanked, LaidOut
<1>5. Blank /\ Mode # "none" /\ starts # 0
    BY <1>4 DEF InstallSafe, Fits
<1>6. /\ call' \in Calls /\ call'.pc = "enrolled" /\ call'.token = call.token
      /\ call'.unattended = call.unattended
    BY <1>1, <1>4, Went DEF InstallTypeOK
<1> QED
    BY <1>1, <1>2, <1>3, <1>4, <1>5, <1>6, Writes DEF InstallTypeOK

LEMMA StepOpenRoot ==
    ASSUME InstallSafe, NEW K, Held(K), NEW k, OpenRootSlot
    PROVE  Carries(K, k)
<1>1. /\ call.pc = "write" /\ InstallTypeOK /\ Goto("stream")
      /\ disk' = [disk EXCEPT !.roots = [disk.roots EXCEPT ![Slot] = "torn"]]
      /\ UNCHANGED <<platform, status, gate, given, starts, liveAudit>>
    BY DEF OpenRootSlot, At, InstallSafe, bounds
<1>2. /\ disk' \in Disks /\ disk'.encrypted = disk.encrypted /\ disk'.key = disk.key
    BY <1>1 DEF InstallTypeOK, Disks
<1>3. /\ "stream" \in Working \ Armed /\ call.pc \in Working \ Armed /\ "stream" \in Pcs
      /\ "stream" \notin Blanked \cup Recovering \cup Enrolled \cup ReadBack \cup Bootable \cup Early
      /\ call.pc \in KeyHeld \cap LaidOut
    BY <1>1 DEF Early, Armed, KeyHeld, Bootable, ReadBack, Working, Asking, Pcs, Recovering, Enrolled, Blanked, LaidOut
<1>4. (disk.encrypted => Mode # "none") /\ (disk.encrypted => disk.key \in K)
    BY <1>3 DEF InstallSafe, Fits, Held
<1>5. /\ call' \in Calls /\ call'.pc = "stream" /\ call'.token = call.token
      /\ call'.unattended = call.unattended
    BY <1>1, <1>3, Went DEF InstallTypeOK
<1> QED
    BY <1>1, <1>2, <1>3, <1>4, <1>5, Writes DEF InstallTypeOK

LEMMA StepWriteRoot ==
    ASSUME InstallSafe, NEW K, Held(K), NEW k, WriteRootSlot
    PROVE  Carries(K, k)
<1>1. /\ call.pc = "stream" /\ InstallTypeOK /\ status' = [status EXCEPT !.written = status.written + 1]
      /\ UNCHANGED <<platform, gate, given, starts, liveAudit>>
    BY DEF WriteRootSlot, At, InstallSafe
<1>2. PICK pc \in {"written", "write"} : Goto(pc)
    BY DEF WriteRootSlot
<1>3. PICK c \in {"release", "corrupt"} : disk' = [disk EXCEPT !.roots = [disk.roots EXCEPT ![Slot] = c]]
    BY DEF WriteRootSlot
<1>4. /\ disk' \in Disks /\ disk'.encrypted = disk.encrypted /\ disk'.key = disk.key
    BY <1>1, <1>3 DEF InstallTypeOK, Disks
<1>5. status' \in Statuses /\ status'.state = status.state /\ status'.token = status.token
    BY <1>1 DEF InstallTypeOK, Statuses
<1>6. /\ pc \in Working \ Armed /\ call.pc \in Working \ Armed /\ pc \in Pcs
      /\ pc \notin Blanked \cup Recovering \cup Enrolled \cup ReadBack \cup Bootable \cup Early
      /\ call.pc \in KeyHeld \cap LaidOut /\ pc # "complete" /\ pc # "escrow"
    BY <1>1, Zenon DEF Early, Armed, KeyHeld, Bootable, ReadBack, Working, Asking, Pcs, Recovering, Enrolled, Blanked, LaidOut
<1>7. (disk.encrypted => Mode # "none") /\ (disk.encrypted => disk.key \in K)
    BY <1>6 DEF InstallSafe, Fits, Held
<1>8. /\ call' \in Calls /\ call'.pc = pc /\ call'.token = call.token
      /\ call'.unattended = call.unattended
    BY <1>1, <1>2, <1>6, Went DEF InstallTypeOK
<1> QED
    BY <1>1, <1>4, <1>5, <1>6, <1>7, <1>8, Writes DEF InstallTypeOK

LEMMA StepBoot ==
    ASSUME InstallSafe, NEW K, Held(K), NEW k, InstallBootArtifact
    PROVE  Carries(K, k)
<1>1. /\ call.pc = "boot" /\ InstallTypeOK /\ Goto("booted")
      /\ disk' = [disk EXCEPT !.boot = TRUE]
      /\ UNCHANGED <<platform, status, gate, given, starts, liveAudit>>
    BY DEF InstallBootArtifact, At, InstallSafe, bounds
<1>2. /\ disk' \in Disks /\ disk'.roots = disk.roots /\ disk'.encrypted = disk.encrypted
      /\ disk'.key = disk.key /\ disk'.boot
    BY <1>1, Zenon DEF InstallTypeOK, Disks
<1>3. Blank' = Blank /\ Released' = Released
    BY <1>1, <1>2, SameRoots
<1>4. /\ "booted" \in Working \ Armed /\ call.pc \in Working \ Armed /\ "booted" \in Pcs
      /\ "booted" \notin Blanked \cup Recovering \cup Enrolled \cup KeyHeld \cup Early
      /\ call.pc \in ReadBack \cap LaidOut
    BY <1>1 DEF Early, Armed, KeyHeld, Bootable, ReadBack, Working, Asking, Pcs, Recovering, Enrolled, Blanked, LaidOut
<1>5. /\ Released /\ (disk.encrypted => Mode # "none") /\ (call.pc \in Bootable => disk.boot)
      /\ (disk.encrypted /\ ~Blank => disk.key \in K)
    BY <1>4 DEF InstallSafe, Fits, Held
<1>6. /\ call' \in Calls /\ call'.pc = "booted" /\ call'.token = call.token
      /\ call'.unattended = call.unattended
    BY <1>1, <1>4, Went DEF InstallTypeOK
<1> QED
    BY <1>1, <1>2, <1>3, <1>4, <1>5, <1>6, Writes, Zenon DEF InstallTypeOK

LEMMA StepSeedFiles ==
    ASSUME InstallSafe, NEW K, Held(K), NEW k, SeedFiles
    PROVE  Carries(K, k)
<1>1. /\ call.pc = "seed" /\ InstallTypeOK /\ Goto("document")
      /\ disk' = [disk EXCEPT !.files = TRUE]
      /\ UNCHANGED <<platform, status, gate, given, starts, liveAudit>>
    BY DEF SeedFiles, At, InstallSafe, bounds
<1>2. /\ disk' \in Disks /\ disk'.roots = disk.roots /\ disk'.encrypted = disk.encrypted
      /\ disk'.key = disk.key /\ disk'.boot = disk.boot
    BY <1>1, Zenon DEF InstallTypeOK, Disks
<1>3. Blank' = Blank /\ Released' = Released
    BY <1>1, <1>2, SameRoots
<1>4. /\ "document" \in Working \ Armed /\ call.pc \in Working \ Armed /\ "document" \in Pcs
      /\ "document" \notin Blanked \cup Recovering \cup Enrolled \cup KeyHeld \cup Early
      /\ call.pc \in ReadBack \cap LaidOut /\ call.pc \in Bootable
    BY <1>1 DEF Early, Armed, KeyHeld, Bootable, ReadBack, Working, Asking, Pcs, Recovering, Enrolled, Blanked, LaidOut
<1>5. /\ Released /\ (disk.encrypted => Mode # "none") /\ (call.pc \in Bootable => disk.boot)
      /\ (disk.encrypted /\ ~Blank => disk.key \in K)
    BY <1>4 DEF InstallSafe, Fits, Held
<1>6. /\ call' \in Calls /\ call'.pc = "document" /\ call'.token = call.token
      /\ call'.unattended = call.unattended
    BY <1>1, <1>4, Went DEF InstallTypeOK
<1> QED
    BY <1>1, <1>2, <1>3, <1>4, <1>5, <1>6, Writes, Zenon DEF InstallTypeOK

LEMMA StepSeedDocument ==
    ASSUME InstallSafe, NEW K, Held(K), NEW k, SeedDocument
    PROVE  Carries(K, k)
<1>1. /\ call.pc = "document" /\ InstallTypeOK /\ Goto("seeded")
      /\ disk' = [disk EXCEPT !.seed = Acknowledgement]
      /\ UNCHANGED <<platform, status, gate, given, starts, liveAudit>>
    BY DEF SeedDocument, At, InstallSafe, bounds
<1>2. /\ disk' \in Disks /\ disk'.roots = disk.roots /\ disk'.encrypted = disk.encrypted
      /\ disk'.key = disk.key /\ disk'.boot = disk.boot
    <2>1. call.token \in Tokens
        BY <1>1 DEF InstallSafe, Fits, Working, ReadBack, Bootable
    <2>2. Acknowledgement \in {"unattended", "human"} \cup Modes
        BY <2>1 DEF Acknowledgement, Mode, Tokens
    <2> QED
        BY <1>1, <2>2 DEF InstallTypeOK, Disks
<1>3. Blank' = Blank /\ Released' = Released
    BY <1>1, <1>2, SameRoots
<1>4. /\ "seeded" \in Working \ Armed /\ call.pc \in Working \ Armed /\ "seeded" \in Pcs
      /\ "seeded" \notin Blanked \cup Recovering \cup Enrolled \cup KeyHeld \cup Early
      /\ call.pc \in ReadBack \cap LaidOut /\ call.pc \in Bootable
    BY <1>1 DEF Early, Armed, KeyHeld, Bootable, ReadBack, Working, Asking, Pcs, Recovering, Enrolled, Blanked, LaidOut
<1>5. /\ Released /\ (disk.encrypted => Mode # "none") /\ (call.pc \in Bootable => disk.boot)
      /\ (disk.encrypted /\ ~Blank => disk.key \in K)
    BY <1>4 DEF InstallSafe, Fits, Held
<1>6. /\ call' \in Calls /\ call'.pc = "seeded" /\ call'.token = call.token
      /\ call'.unattended = call.unattended
    BY <1>1, <1>4, Went DEF InstallTypeOK
<1> QED
    BY <1>1, <1>2, <1>3, <1>4, <1>5, <1>6, Writes DEF InstallTypeOK

LEMMA StepVerifyInstalled ==
    ASSUME InstallSafe, NEW K, Held(K), NEW k, VerifyInstalledSystem
    PROVE  Carries(K, k)
<1>1. /\ call.pc = "installed" /\ InstallTypeOK
      /\ UNCHANGED <<platform, status, gate, given, starts, liveAudit>>
    BY DEF VerifyInstalledSystem, At, InstallSafe, bounds
<1>2. CASE Goto("fail") /\ UNCHANGED disk
    <2>1. "fail" \in Pcs /\ Fits("fail") /\ "fail" \notin KeyHeld \cup Early \cup Asking
        BY <1>1 DEF InstallSafe, Fits, Early, Armed, KeyHeld, Bootable, ReadBack, Working, Asking, Pcs, Recovering, Enrolled, Blanked, LaidOut
    <2>2. /\ call' \in Calls /\ call'.pc = "fail" /\ call'.token = call.token
          /\ call'.unattended = call.unattended
        BY <1>1, <1>2, <2>1, Went DEF InstallTypeOK
    <2> QED
        BY <1>1, <1>2, <2>1, <2>2, Walks DEF InstallTypeOK
<1>3. CASE /\ seedDigest # None /\ disk.seed = seedDigest /\ disk.files
           /\ <<"plan", Actor>> \in liveAudit
           /\ disk' = [disk EXCEPT !.audit = Handoff] /\ Goto("complete")
    <2>1. /\ "complete" \in Working \ Armed /\ call.pc \in Working \ Armed /\ "complete" \in Pcs
          /\ "complete" \notin Blanked \cup Recovering \cup Enrolled \cup KeyHeld \cup Early
          /\ call.pc \in ReadBack \cap LaidOut \cap Bootable
        BY <1>1 DEF Early, Armed, KeyHeld, Bootable, ReadBack, Working, Asking, Pcs, Recovering, Enrolled, Blanked, LaidOut
    <2>2. /\ Released /\ disk.boot /\ (disk.encrypted => Mode # "none")
          /\ (disk.encrypted /\ ~Blank => disk.key \in K)
        BY <2>1 DEF InstallSafe, Fits, Held
    <2>3. Actor \in Actors
        BY DEF Actor, Actors
    <2>4. Handoff \subseteq Events
        BY <1>1, <2>3 DEF Handoff, InstallTypeOK, Events
    <2>5. /\ <<"plan", Actor>> \in Handoff /\ <<"apply", Actor>> \in Handoff
          /\ Mode # "none" => <<"recovery", Actor>> \in Handoff
        BY <1>3 DEF Handoff
    <2>6. /\ disk' \in Disks /\ disk'.roots = disk.roots /\ disk'.encrypted = disk.encrypted
          /\ disk'.key = disk.key /\ disk'.boot = disk.boot /\ disk'.files = disk.files
          /\ disk'.seed = disk.seed /\ disk'.audit = Handoff
        BY <1>1, <1>3, <2>4, Zenon DEF InstallTypeOK, Disks
    <2>7. Blank' = Blank /\ Released' = Released
        BY <1>1, <2>6, SameRoots
    <2>8. Complete'
        <3> DEFINE h == Handoff
        <3>1. PICK a \in Actors : a = Actor
            BY <2>3
        <3>2. /\ <<"plan", a>> \in h /\ <<"apply", a>> \in h
              /\ Mode # "none" => <<"recovery", a>> \in h
            BY <2>5, <3>1
        <3>3. disk'.audit = h
            BY <2>6
        <3> HIDE DEF h
        <3>4. Told(a)'
            BY <2>2, <2>6, <3>2, <3>3 DEF Told
        <3> QED
            BY <1>3, <2>2, <2>6, <2>7, <3>4 DEF Complete
    <2>9. /\ call' \in Calls /\ call'.pc = "complete" /\ call'.token = call.token
          /\ call'.unattended = call.unattended
        BY <1>1, <1>3, <2>1, Went DEF InstallTypeOK
    <2> HIDE DEF Handoff
    <2> QED
        BY <1>1, <2>1, <2>2, <2>6, <2>7, <2>8, <2>9, Writes DEF InstallTypeOK
<1> QED
    BY <1>2, <1>3 DEF VerifyInstalledSystem

LEMMA StepComplete ==
    ASSUME InstallSafe, NEW K, Held(K), NEW k, CompleteTransactionStatus
    PROVE  Carries(K, k)
<1>1. /\ call.pc = "complete" /\ InstallTypeOK /\ Return
      /\ status' = [[status EXCEPT !.state = "succeeded"] EXCEPT !.phase = None]
      /\ UNCHANGED <<platform, disk, gate, given, starts, liveAudit>>
    BY DEF CompleteTransactionStatus, At, InstallSafe, bounds
<1>2. status' \in Statuses
    BY <1>1, Zenon DEF InstallTypeOK, Statuses
<1>3. Complete /\ gate.state = "idle"
    BY <1>1 DEF InstallSafe, Fits, Early, Armed, KeyHeld, Bootable, ReadBack, Working, Asking, Pcs, Recovering, Enrolled, Blanked, LaidOut
<1> QED
    BY <1>1, <1>2, <1>3, Returns DEF InstallTypeOK

-----------------------------------------------------------------------------
\* The recovery checkpoint

LEMMA StepBeginPersonal ==
    ASSUME InstallSafe, NEW K, Held(K), NEW k, BeginPersonalRecovery
    PROVE  Carries(K, k)
<1>1. /\ call.pc = "disclose" /\ InstallTypeOK
      /\ UNCHANGED <<platform, disk, status, given, starts, liveAudit>>
    BY DEF BeginPersonalRecovery, At, InstallSafe, bounds
<1>2. CASE Goto("fail") /\ UNCHANGED gate
    <2>1. "fail" \in Pcs /\ Fits("fail") /\ "fail" \notin KeyHeld \cup Early \cup Asking
        BY <1>1 DEF InstallSafe, Fits, Early, Armed, KeyHeld, Bootable, ReadBack, Working, Asking, Pcs, Recovering, Enrolled, Blanked, LaidOut
    <2>2. /\ call' \in Calls /\ call'.pc = "fail" /\ call'.token = call.token
          /\ call'.unattended = call.unattended
        BY <1>1, <1>2, <2>1, Went DEF InstallTypeOK
    <2> QED
        BY <1>1, <1>2, <2>1, <2>2, Walks DEF InstallTypeOK
<1>3. CASE Arm("personal") /\ Goto("await")
    <2>1. /\ "await" \in LaidOut \ ReadBack /\ call.pc \in LaidOut \cap Blanked /\ "await" \in Pcs
          /\ "await" \notin KeyHeld \cup Early /\ "await" \in Armed
          /\ call.pc \in Recovering \cap Enrolled \cap Early \cap Working
        BY <1>1 DEF Early, Armed, KeyHeld, Bootable, ReadBack, Working, Asking, Pcs, Recovering, Enrolled, Blanked, LaidOut
    <2>2. Active /\ Active' = Active /\ status.token = call.token /\ disk.key # 0 /\ ~Quiet(k)
        BY <1>1, <2>1, Zenon DEF InstallSafe, Fits, Quiet, Active
    <2>3. /\ gate' \in Gates /\ gate'.state = "personal" /\ gate'.token = call.token
          /\ gate'.key = disk.key
        BY <1>1, <1>3 DEF Arm, Gates, InstallTypeOK, Calls, Disks
    <2>4. /\ call' \in Calls /\ call'.pc = "await" /\ call'.token = call.token
          /\ call'.unattended = call.unattended
        BY <1>1, <1>3, <2>1, Went DEF InstallTypeOK
    <2> QED
        BY <1>1, <2>1, <2>2, <2>3, <2>4, Turns, Zenon DEF InstallTypeOK
<1> QED
    BY <1>2, <1>3 DEF BeginPersonalRecovery

LEMMA StepBeginOrganization ==
    ASSUME InstallSafe, NEW K, Held(K), NEW k, BeginOrganizationRecovery
    PROVE  Carries(K, k)
<1>1. /\ call.pc = "escrow" /\ InstallTypeOK
      /\ UNCHANGED <<platform, disk, given, starts, liveAudit>>
    BY DEF BeginOrganizationRecovery, At, InstallSafe, bounds
<1>2. CASE Goto("fail") /\ UNCHANGED <<status, gate>>
    <2>1. "fail" \in Pcs /\ Fits("fail") /\ "fail" \notin KeyHeld \cup Early \cup Asking
        BY <1>1 DEF InstallSafe, Fits, Early, Armed, KeyHeld, Bootable, ReadBack, Working, Asking, Pcs, Recovering, Enrolled, Blanked, LaidOut
    <2>2. /\ call' \in Calls /\ call'.pc = "fail" /\ call'.token = call.token
          /\ call'.unattended = call.unattended
        BY <1>1, <1>2, <2>1, Went DEF InstallTypeOK
    <2> QED
        BY <1>1, <1>2, <2>1, <2>2, Walks DEF InstallTypeOK
<1>3. CASE Await /\ Arm("organization") /\ Goto("attempt")
    <2>1. /\ "attempt" \in LaidOut \ ReadBack /\ call.pc \in LaidOut \cap Blanked /\ "attempt" \in Pcs
          /\ "attempt" \notin KeyHeld \cup Early /\ "attempt" \in Armed
          /\ call.pc \in Recovering \cap Enrolled \cap Early \cap Working
        BY <1>1 DEF Early, Armed, KeyHeld, Bootable, ReadBack, Working, Asking, Pcs, Recovering, Enrolled, Blanked, LaidOut
    <2>2. status.token = call.token /\ disk.key # 0 /\ ~Quiet(k) /\ ~NoEscrow
        BY <1>1, <2>1 DEF InstallSafe, Fits, Quiet, NoEscrow
    <2>3. /\ gate' \in Gates /\ gate'.state = "organization" /\ gate'.token = call.token
          /\ gate'.key = disk.key
        BY <1>1, <1>3 DEF Arm, Gates, InstallTypeOK, Calls, Disks
    <2>4. status' \in Statuses /\ status'.token = status.token /\ Active'
        BY <1>1, <1>3 DEF Await, Active, InstallTypeOK, Statuses
    <2>5. /\ call' \in Calls /\ call'.pc = "attempt" /\ call'.token = call.token
          /\ call'.unattended = call.unattended
        BY <1>1, <1>3, <2>1, Went DEF InstallTypeOK
    <2> QED
        BY <1>1, <2>1, <2>2, <2>3, <2>4, <2>5, Turns DEF InstallTypeOK
<1> QED
    BY <1>2, <1>3 DEF BeginOrganizationRecovery

LEMMA StepAwait ==
    ASSUME InstallSafe, NEW K, Held(K), NEW k, AwaitRecoveryStatus
    PROVE  Carries(K, k)
<1>1. /\ call.pc = "await" /\ InstallTypeOK /\ Await /\ Goto("wait")
      /\ UNCHANGED <<platform, disk, gate, given, starts, liveAudit>>
    BY DEF AwaitRecoveryStatus, At, InstallSafe, bounds
<1>2. /\ "wait" \in LaidOut \ ReadBack /\ call.pc \in LaidOut \cap Blanked /\ "wait" \in Pcs
      /\ "wait" \notin KeyHeld \cup Early /\ "wait" \in Armed
      /\ call.pc \in Recovering \cap Enrolled \cap Armed
    BY <1>1 DEF Early, Armed, KeyHeld, Bootable, ReadBack, Working, Asking, Pcs, Recovering, Enrolled, Blanked, LaidOut
<1>3. status' \in Statuses /\ status'.token = status.token /\ Active'
    BY <1>1 DEF Await, Active, InstallTypeOK, Statuses
<1>4. /\ gate' = gate /\ gate.key = disk.key
      /\ gate.state # "idle" => gate.key # 0 /\ gate.token = status.token
      /\ gate.state = "confirmed" => gate.key \in K
      /\ Quiet(k) => (gate.state = "personal" => gate.key = k)
    BY <1>1, <1>2 DEF InstallSafe, Fits, ArmedForStatus, Held, Quiet
<1>5. /\ call' \in Calls /\ call'.pc = "wait" /\ call'.token = call.token
      /\ call'.unattended = call.unattended
    BY <1>1, <1>2, Went DEF InstallTypeOK
<1> QED
    BY <1>1, <1>2, <1>3, <1>4, <1>5, Turns, Zenon DEF InstallTypeOK

LEMMA StepWait ==
    ASSUME InstallSafe, NEW K, Held(K), NEW k, WaitForPersonalRecovery
    PROVE  Carries(K, k)
<1>1. /\ call.pc = "wait" /\ InstallTypeOK /\ gate.state = "confirmed" /\ gate' = IdleGate
      /\ Goto("resume") /\ UNCHANGED <<platform, disk, status, given, starts, liveAudit>>
    BY DEF WaitForPersonalRecovery, At, InstallSafe, bounds
<1>2. /\ "resume" \in LaidOut \ ReadBack /\ call.pc \in LaidOut \cap Blanked \cap Working /\ "resume" \in Pcs
      /\ "resume" \notin Early \cup Armed \cup Recovering \cup Enrolled /\ call.pc \in Armed
    BY <1>1 DEF Early, Armed, KeyHeld, Bootable, ReadBack, Working, Asking, Pcs, Recovering, Enrolled, Blanked, LaidOut
<1>3. Active /\ Active' = Active /\ disk.key \in K
    BY <1>1, <1>2 DEF InstallSafe, Fits, Held, Active
<1>4. gate' \in Gates /\ gate'.state = "idle"
    BY <1>1 DEF IdleGate, Gates
<1>5. /\ call' \in Calls /\ call'.pc = "resume" /\ call'.token = call.token
      /\ call'.unattended = call.unattended
    BY <1>1, <1>2, Went DEF InstallTypeOK
<1> QED
    BY <1>1, <1>2, <1>3, <1>4, <1>5, Turns, Zenon DEF InstallTypeOK

LEMMA StepResume ==
    ASSUME InstallSafe, NEW K, Held(K), NEW k, ResumeRecoveryStatus
    PROVE  Carries(K, k)
<1>1. /\ call.pc = "resume" /\ InstallTypeOK /\ Resume /\ Goto("format")
      /\ UNCHANGED <<platform, disk, gate, given, starts, liveAudit>>
    BY DEF ResumeRecoveryStatus, At, InstallSafe, bounds
<1>2. /\ "format" \in LaidOut \ ReadBack /\ call.pc \in LaidOut \cap KeyHeld /\ "format" \in Pcs
      /\ "format" \notin Early \cup Armed \cup Recovering \cup Enrolled \cup Blanked
      /\ call.pc \in Working \ Armed
    BY <1>1 DEF Early, Armed, KeyHeld, Bootable, ReadBack, Working, Asking, Pcs, Recovering, Enrolled, Blanked, LaidOut
<1>3. status' \in Statuses /\ status'.token = status.token /\ Active'
    BY <1>1 DEF Resume, Active, InstallTypeOK, Statuses
<1>4. gate.state = "idle" /\ gate' = gate /\ (disk.encrypted => disk.key \in K)
    BY <1>1, <1>2 DEF InstallSafe, Fits, Held
<1>5. /\ call' \in Calls /\ call'.pc = "format" /\ call'.token = call.token
      /\ call'.unattended = call.unattended
    BY <1>1, <1>2, Went DEF InstallTypeOK
<1> QED
    BY <1>1, <1>2, <1>3, <1>4, <1>5, Turns, Zenon DEF InstallTypeOK

\* The organization holds the key from here on.
LEMMA StepAttempt ==
    ASSUME InstallSafe, NEW K, Held(K), NEW k, AttemptOrganizationRecovery
    PROVE  ~NoEscrow /\ \A g : g = gate.key => Carries(K \cup {g}, k)
<1>1. /\ call.pc = "attempt" /\ InstallTypeOK /\ Resume /\ gate' = IdleGate
      /\ Goto("format") /\ UNCHANGED <<platform, disk, given, starts, liveAudit>>
    BY DEF AttemptOrganizationRecovery, At, InstallSafe, bounds
<1>2. /\ "format" \in LaidOut \ ReadBack /\ call.pc \in LaidOut /\ "format" \in Pcs
      /\ "format" \notin Early \cup Armed \cup Recovering \cup Enrolled \cup Blanked
      /\ call.pc \in Armed
    BY <1>1 DEF Early, Armed, KeyHeld, Bootable, ReadBack, Working, Asking, Pcs, Recovering, Enrolled, Blanked, LaidOut
<1>3. status' \in Statuses /\ status'.token = status.token /\ Active'
    BY <1>1 DEF Resume, Active, InstallTypeOK, Statuses
<1>4. gate' \in Gates /\ gate'.state = "idle" /\ gate.key = disk.key /\ ~NoEscrow
    BY <1>1, <1>2 DEF IdleGate, Gates, InstallSafe, Fits, NoEscrow
<1>5. /\ call' \in Calls /\ call'.pc = "format" /\ call'.token = call.token
      /\ call'.unattended = call.unattended
    BY <1>1, <1>2, Went DEF InstallTypeOK
<1>6. ASSUME NEW g, g = gate.key PROVE Carries(K \cup {g}, k)
    <2>1. disk.key \in K \cup {g} /\ K \subseteq K \cup {g}
        BY <1>4, <1>6
    <2> QED
        BY <1>1, <1>2, <1>3, <1>4, <1>5, <2>1, Turns, Zenon DEF InstallTypeOK
<1> QED
    BY <1>4, <1>6

\* A person holds the key from here on.
LEMMA StepAcknowledge ==
    ASSUME InstallSafe, NEW K, Held(K), NEW k, NEW token, AcknowledgePersonalRecovery(token),
           NEW g, g = gate.key
    PROVE  Carries(K \cup {g}, k)
<1>1. /\ gate.state = "personal" /\ gate' = [gate EXCEPT !.state = "confirmed"]
      /\ UNCHANGED <<platform, disk, status, call, given, starts, liveAudit>>
    BY DEF AcknowledgePersonalRecovery, bounds
<1>2. /\ gate' \in Gates /\ gate'.state = "confirmed" /\ gate'.token = gate.token
      /\ gate'.key = gate.key /\ disk' = disk /\ call' = call /\ status' = status /\ starts' = starts
    BY <1>1 DEF InstallSafe, InstallTypeOK, Gates
<1>3. Blank' = Blank /\ Released' = Released /\ Complete' = Complete /\ Active' = Active
    BY <1>1, SameDisk DEF Active
<1>4. InstallTypeOK'
    BY <1>1, <1>2 DEF InstallSafe, InstallTypeOK
<1>5. Fits(call.pc)'
    BY <1>1, <1>2, <1>3 DEF InstallSafe, Fits, Mode
<1>6. ArmedForStatus' /\ (status.state = "succeeded" => Complete)'
    BY <1>1, <1>2, <1>3 DEF InstallSafe, ArmedForStatus
<1>7. Held(K \cup {g})'
    BY <1>2, <1>3 DEF Held
<1>8. (Quiet(k) => Quiet(k)') /\ (NoEscrow => NoEscrow')
    BY <1>2, <1>3 DEF Quiet, NoEscrow, Mode
<1> QED
    BY <1>4, <1>5, <1>6, <1>7, <1>8 DEF Carries, InstallSafe

-----------------------------------------------------------------------------
\* Failure

LEMMA StepFail ==
    ASSUME InstallSafe, NEW K, Held(K), NEW k, FailTransactionStatus
    PROVE  Carries(K, k)
<1>1. /\ call.pc = "fail" /\ InstallTypeOK
      /\ UNCHANGED <<platform, disk, gate, given, starts, liveAudit>>
    BY DEF FailTransactionStatus, At, InstallSafe, bounds
<1>2. gate.state # "idle" => Active
    BY <1>1 DEF InstallSafe, Fits
<1>3. CASE Return /\ UNCHANGED status
    <2>1. Active' = Active
        BY <1>3 DEF Active
    <2> QED
        BY <1>1, <1>2, <1>3, <2>1, Returns DEF InstallSafe, InstallTypeOK
<1>4. CASE status' = [status EXCEPT !.state = "failed"] /\ Goto("cancel")
    <2>1. "cancel" \in Pcs /\ "cancel" \notin Working \cup Asking \cup Early \cup KeyHeld
          /\ "cancel" \notin Blanked \cup LaidOut \cup Recovering \cup Enrolled \cup ReadBack \cup Bootable \cup Armed
        BY DEF Early, Armed, KeyHeld, Bootable, ReadBack, Working, Asking, Pcs, Recovering, Enrolled, Blanked, LaidOut
    <2>2. /\ call' \in Calls /\ call'.pc = "cancel" /\ call'.token = call.token
          /\ call'.unattended = call.unattended
        BY <1>1, <1>4, <2>1, Went DEF InstallTypeOK
    <2>3. status' \in Statuses /\ status'.state = "failed" /\ status'.token = status.token
        BY <1>1, <1>4 DEF InstallTypeOK, Statuses
    <2>4. Blank' = Blank /\ disk' = disk /\ gate' = gate
        BY <1>1, SameDisk
    <2>5. InstallTypeOK'
        BY <1>1, <2>2, <2>3 DEF InstallTypeOK
    <2>6. Fits(call.pc)'
        BY <2>1, <2>2 DEF Fits
    <2>7. ArmedForStatus' /\ Held(K)'
        BY <2>1, <2>2, <2>3, <2>4 DEF InstallSafe, ArmedForStatus, Held
    <2>8. (Quiet(k) => Quiet(k)') /\ (NoEscrow => NoEscrow')
        BY <1>1, <2>1, <2>2, <2>4 DEF Quiet, NoEscrow, Mode
    <2> QED
        BY <2>3, <2>5, <2>6, <2>7, <2>8, Zenon DEF Carries, InstallSafe
<1> QED
    BY <1>3, <1>4 DEF FailTransactionStatus

LEMMA StepCancel ==
    ASSUME InstallSafe, NEW K, Held(K), NEW k, CancelRecovery
    PROVE  Carries(K, k)
<1>1. /\ InstallTypeOK /\ Return /\ gate' = IF gate.token = status.token THEN IdleGate ELSE gate
      /\ UNCHANGED <<platform, disk, status, given, starts, liveAudit>>
    BY DEF CancelRecovery, InstallSafe, bounds
<1>2. IdleGate \in Gates /\ IdleGate.state = "idle"
    BY DEF IdleGate, Gates
<1>3. gate' \in Gates /\ gate'.state = "idle"
    BY <1>1, <1>2 DEF InstallSafe, ArmedForStatus, InstallTypeOK
<1> QED
    BY <1>1, <1>3, Returns, Zenon DEF InstallSafe, InstallTypeOK

LEMMA StepRestart ==
    ASSUME InstallSafe, NEW K, Held(K), NEW k, status' = IdleStatus, gate' = IdleGate, Return,
           given' \subseteq Tokens, liveAudit' \subseteq Events, UNCHANGED <<platform, disk, starts>>
    PROVE  Carries(K, k)
<1>1. gate' \in Gates /\ gate'.state = "idle"
    BY DEF IdleGate, Gates
<1>2. status' \in Statuses /\ status'.state # "succeeded"
    BY DEF IdleStatus, Statuses
<1> QED
    BY <1>1, <1>2, Returns

LEMMA StepDiskChanges ==
    ASSUME InstallSafe, NEW K, Held(K), NEW k, DiskChanges
    PROVE  Carries(K, k)
<1>1. /\ call.pc \in {"idle", "preflight", "authorize", "start", "release", "layout"}
      /\ status.state # "succeeded" /\ disk' = Bare("other")
      /\ call' = call /\ gate' = gate /\ status' = status /\ starts' = starts
      /\ UNCHANGED <<platform, given, liveAudit>>
    BY DEF DiskChanges, memory
<1>2. disk' \in Disks /\ disk'.encrypted = FALSE
    BY <1>1 DEF Bare, Disks, Tables
<1>3. call.pc \notin Blanked \cup LaidOut \cup Recovering \cup Enrolled \cup ReadBack \cup Bootable
                     \cup Armed \cup KeyHeld /\ call.pc # "complete"
    BY <1>1, Zenon DEF Early, Armed, KeyHeld, Bootable, ReadBack, Working, Asking, Pcs, Recovering, Enrolled, Blanked, LaidOut
<1>4. InstallTypeOK' /\ Active' = Active
    BY <1>1, <1>2 DEF InstallSafe, InstallTypeOK, Active
<1>5. Fits(call.pc)'
    BY <1>1, <1>3, <1>4 DEF InstallSafe, Fits
<1>6. ArmedForStatus'
    BY <1>1 DEF InstallSafe, ArmedForStatus
<1>7. Held(K)'
    BY <1>1, <1>2 DEF Held
<1>8. (Quiet(k) => Quiet(k)') /\ (NoEscrow => NoEscrow')
    BY <1>1, <1>4 DEF Quiet, NoEscrow, Mode
<1> QED
    BY <1>1, <1>4, <1>5, <1>6, <1>7, <1>8 DEF Carries, InstallSafe

LEMMA StepPlan ==
    ASSUME InstallSafe, NEW K, Held(K), NEW k, NEW m \in Modes, Plan(m)
    PROVE  Carries(K, k) /\ custody' = custody
<1>1. UNCHANGED <<platform, disk, status, gate, call, starts, custody>>
    BY DEF Plan
<1>2. liveAudit' \subseteq Events
    BY DEF Plan, Events, Actors, InstallSafe, InstallTypeOK
<1>3. [table |-> disk.table, mode |-> m] \in Tokens
    BY DEF InstallSafe, InstallTypeOK, Disks, Tokens
<1>4. given' \subseteq Tokens
    BY <1>3 DEF Plan, InstallSafe, InstallTypeOK
<1> QED
    BY <1>1, <1>2, <1>4, Elsewhere

-----------------------------------------------------------------------------
(* The installer, whoever calls it *)

LEMMA InstallInitSafe ==
    ASSUME Init
    PROVE  InstallSafe /\ NoEscrow /\ \A K : Held(K)
<1>1. disk \in Disks /\ disk.encrypted = FALSE
    <2>1. ASSUME NEW t \in Tables PROVE Bare(t) \in Disks /\ Bare(t).encrypted = FALSE
        BY DEF Bare, Disks
    <2> QED
        BY <2>1, Zenon DEF Init, Tables
<1>2. /\ status \in Statuses /\ status.state = "idle" /\ gate \in Gates /\ gate.state = "idle"
      /\ call \in Calls /\ call.pc = "idle"
    BY DEF Init, IdleStatus, IdleGate, IdleCall, Statuses, Gates, Calls, Pcs
<1>3. InstallTypeOK
    BY <1>1, <1>2 DEF Init, InstallTypeOK
<1>4. Fits(call.pc) /\ ArmedForStatus
    BY <1>2 DEF Fits, ArmedForStatus, Early, Armed, KeyHeld, Bootable, ReadBack, Working, Asking, Pcs, Recovering, Enrolled, Blanked, LaidOut
<1>5. NoEscrow /\ \A K : Held(K)
    BY <1>1, <1>2 DEF NoEscrow, Held
<1> QED
    BY <1>2, <1>3, <1>4, <1>5 DEF InstallSafe

\* A step of the apply thread, but for the escrow of a key.
LEMMA ThreadCarries ==
    ASSUME InstallSafe, NEW K, Held(K), NEW k, Step, ~AttemptOrganizationRecovery
    PROVE  Carries(K, k) /\ custody' = custody
<1>1. Carries(K, k)
    BY StepPreflight, StepAuthorize, StepStart, StepEnter, StepLayout, StepRepart, StepEnroll,
       StepAuditEnrolment, StepBeginPersonal, StepAwait, StepWait, StepResume,
       StepBeginOrganization, StepOpenRoot, StepWriteRoot, StepVerifyWritten, StepBoot,
       StepSeedFiles, StepSeedDocument, StepVerifyInstalled, StepComplete, StepFail, StepCancel, Zenon
    DEF Step
<1>2. custody' = custody
    BY Zenon DEF Step, Preflight, Authorize, StartTransactionStatus, Enter, EnterPhase,
       PrepareDiskLayout, Repart, EnrollRecoveryKey, AuditEnrolment, BeginPersonalRecovery,
       AwaitRecoveryStatus, WaitForPersonalRecovery, ResumeRecoveryStatus,
       BeginOrganizationRecovery, OpenRootSlot, WriteRootSlot, VerifyWrittenRootSlots,
       InstallBootArtifact, SeedFiles, SeedDocument, VerifyInstalledSystem,
       CompleteTransactionStatus, FailTransactionStatus, CancelRecovery
<1> QED
    BY <1>1, <1>2

\* A step of the daemon that nobody asked for.
LEMMA UpsetCarries ==
    ASSUME InstallSafe, NEW K, Held(K), NEW k, Fails \/ Restart \/ DiskChanges
    PROVE  Carries(K, k) /\ custody' = custody
<1>1. CASE Fails
    BY <1>1, StepFails DEF Fails
<1>2. CASE Restart
    <2>1. /\ status' = IdleStatus /\ gate' = IdleGate /\ Return
          /\ UNCHANGED <<platform, disk, given, liveAudit, custody, starts>>
        BY <1>2 DEF Restart
    <2> QED
        BY <2>1, StepRestart DEF InstallSafe, InstallTypeOK
<1>3. CASE DiskChanges
    BY <1>3, StepDiskChanges DEF DiskChanges
<1> QED
    BY <1>1, <1>2, <1>3

LEMMA HeldByCustody ==
    ASSUME NEW L, Held(L)', L \subseteq custody'
    PROVE  Held(custody)'
BY DEF Held

LEMMA ThreadSafe ==
    ASSUME InstallSafe, Held(custody), Step
    PROVE  InstallSafe' /\ Held(custody)'
<1>1. PICK K : K = custody
    OBVIOUS
<1>2. Held(K)
    BY <1>1 DEF Held
<1>3. CASE AttemptOrganizationRecovery
    <2>1. PICK g : g = gate.key
        OBVIOUS
    <2>2. Carries(K \cup {g}, 0)
        BY <1>2, <1>3, <2>1, StepAttempt
    <2>3. custody' = custody \cup {gate.key}
        BY <1>3 DEF AttemptOrganizationRecovery
    <2> QED
        BY <1>1, <2>1, <2>2, <2>3, HeldByCustody DEF Carries
<1>4. CASE ~AttemptOrganizationRecovery
    BY <1>1, <1>2, <1>4, ThreadCarries, HeldByCustody DEF Carries
<1> QED
    BY <1>3, <1>4

LEMMA AcknowledgeSafe ==
    ASSUME InstallSafe, Held(custody), NEW token, AcknowledgePersonalRecovery(token)
    PROVE  InstallSafe' /\ Held(custody)'
<1>1. PICK K : K = custody
    OBVIOUS
<1>2. PICK g : g = gate.key
    OBVIOUS
<1>3. Held(K)
    BY <1>1 DEF Held
<1>4. Carries(K \cup {g}, 0)
    BY <1>2, <1>3, StepAcknowledge
<1>5. custody' = custody \cup {gate.key}
    BY DEF AcknowledgePersonalRecovery
<1> QED
    BY <1>1, <1>2, <1>4, <1>5, HeldByCustody DEF Carries

LEMMA InstallStepSafe ==
    InstallSafe /\ Held(custody) /\ [Next]_vars => InstallSafe' /\ Held(custody)'
<1> SUFFICES ASSUME InstallSafe, Held(custody), [Next]_vars
             PROVE  InstallSafe' /\ Held(custody)'
    OBVIOUS
<1>1. PICK K : K = custody
    OBVIOUS
<1>2. Held(K)
    BY <1>1 DEF Held
<1>3. ASSUME Carries(K, 0), custody \subseteq custody' PROVE InstallSafe' /\ Held(custody)'
    BY <1>1, <1>3, HeldByCustody DEF Carries
<1>4. CASE \E m \in Modes : Plan(m)
    BY <1>2, <1>3, <1>4, StepPlan
<1>5. CASE Apply
    <2>1. PICK t \in given, u \in BOOLEAN : ApplyBegin(t, u)
        BY <1>5 DEF Apply
    <2>2. t \in Tokens /\ custody' = custody
        BY <2>1 DEF InstallSafe, InstallTypeOK, ApplyBegin
    <2> QED
        BY <1>1, <1>2, <2>1, <2>2, StepBegin, HeldByCustody
<1>6. CASE Step
    BY <1>6, ThreadSafe
<1>7. CASE Acknowledge
    BY <1>7, AcknowledgeSafe DEF Acknowledge
<1>8. CASE AttemptAgain
    <2>1. /\ UNCHANGED <<platform, disk, status, gate, call, starts, given, liveAudit>>
          /\ custody \subseteq custody'
        BY <1>8 DEF AttemptAgain, memory, bounds
    <2>2. given' \subseteq Tokens /\ liveAudit' \subseteq Events
        BY <2>1 DEF InstallSafe, InstallTypeOK
    <2> QED
        BY <1>2, <1>3, <2>1, <2>2, Elsewhere
<1>9. CASE Fails \/ Restart \/ DiskChanges
    BY <1>2, <1>3, <1>9, UpsetCarries
<1>10. CASE UNCHANGED vars
    <2>1. UNCHANGED <<platform, disk, status, gate, call, starts, given, liveAudit, custody>>
        BY <1>10 DEF vars, memory, bounds
    <2>2. given' \subseteq Tokens /\ liveAudit' \subseteq Events
        BY <2>1 DEF InstallSafe, InstallTypeOK
    <2> QED
        BY <1>2, <1>3, <2>1, <2>2, Elsewhere
<1> QED
    BY <1>4, <1>5, <1>6, <1>7, <1>8, <1>9, <1>10 DEF Next

LEMMA SafeMeans ==
    /\ InstallSafe => SucceededIsComplete
    /\ Held(custody) => CustodyBeforeContent
<1>1. InstallSafe => SucceededIsComplete
    BY DEF InstallSafe, SucceededIsComplete, Complete, Released, Told, Actors
<1>2. Held(custody) => CustodyBeforeContent
    BY DEF Held, CustodyBeforeContent, Blank
<1> QED
    BY <1>1, <1>2

\* Whoever calls it, and however often it fails or is started again, the
\* installer publishes success only over a complete disk, and writes content to
\* an encrypted disk only after its key is in somebody's hands
\* (verify_installed_system, wait_for_personal_recovery).
THEOREM SuccessIsComplete == Spec => []SucceededIsComplete /\ []CustodyBeforeContent
<1>1. Init => InstallSafe /\ Held(custody)
    BY InstallInitSafe
<1> QED
    BY <1>1, InstallStepSafe, SafeMeans, PTL DEF Spec

-----------------------------------------------------------------------------
(* The clients that install without a person *)

ClientPcs == {"idle", "mount", "read", "targets", "plan", "apply", "disclosure", "checkpoint",
              "custody", "rename", "sync", "reopen", "ack", "join", "wrong", "verdict", "ok", "fail"}
Acking == {"checkpoint", "custody", "rename", "sync", "reopen", "ack"}
Refusing == {"targets", "plan", "wrong", "verdict", "ok", "fail"}
PersonalTokens == [table : Tables, mode : {"personal"}]
Clients == [pc : ClientPcs, kind : Kinds \cup {None}, token : PersonalTokens \cup {None},
            key : Nat, seen : Disks \cup {None}]
Media == [answers : PersonalTokens, file : Nat, durable : Nat]

\* How far client c has come with the record on its medium m.
ClientFits(c, m) ==
    /\ c.pc # "idle" => c.kind \in ran
    /\ c.pc # "idle" /\ c.kind = "refusal_proof" => c.pc \in Refusing
    /\ c.pc = "apply" => c.token \in PersonalTokens
    /\ c.pc \in Acking => c.key # 0
    /\ c.pc = "rename" => m.file = 0
    /\ c.pc = "sync" => m.file = c.key
    /\ c.pc = "reopen" => m.file = c.key /\ m.durable = c.key
    /\ c.pc = "ack" /\ "apply_proof" \notin ran => m.file = c.key /\ m.durable = c.key

\* What the medium keeps.
Kept(m) == {m.durable} \ {0}

MediumSafe ==
    /\ client \in Clients /\ medium \in Media /\ ran \subseteq Kinds
    /\ NoEscrow
    /\ medium.durable # 0 => medium.file = medium.durable
    /\ ClientFits(client, medium)
    /\ client.pc \in Acking => Quiet(client.key)
    /\ "apply_proof" \notin ran => Held(Kept(medium))

UnattendedSafe == InstallSafe /\ Held(custody) /\ MediumSafe

\* The client goes on; of the daemon nothing changes but the count of faults.
LEMMA ClientMoves ==
    ASSUME UnattendedSafe, NEW c \in Clients, client' = c, medium' = medium, ran' = ran,
           UNCHANGED <<platform, disk, status, gate, call, starts, custody>>,
           given' \subseteq Tokens, liveAudit' \subseteq Events,
           ClientFits(c, medium), c.pc \in Acking => Quiet(c.key)
    PROVE  UnattendedSafe'
<1>1. PICK K : K = custody
    OBVIOUS
<1>2. Held(K) /\ InstallSafe
    BY <1>1, Zenon DEF Held, UnattendedSafe
<1>3. \A k : Carries(K, k)
    BY <1>2, Elsewhere
<1>4. Held(custody)'
    BY <1>1, <1>3, HeldByCustody DEF Carries
<1>5. PICK M : M = Kept(medium)
    OBVIOUS
<1>6. "apply_proof" \notin ran => Held(M)'
    <2>1. ASSUME "apply_proof" \notin ran PROVE Held(M)'
        <3>1. Held(M)
            BY <1>5, <2>1, Zenon DEF UnattendedSafe, MediumSafe, Held
        <3> QED
            BY <1>2, <3>1, Elsewhere DEF Carries
    <2> QED
        BY <2>1
<1>7. "apply_proof" \notin ran' => Held(Kept(medium))'
    BY <1>5, <1>6 DEF Held, Kept
<1>8. c.pc \in Acking => Quiet(c.key)'
    BY <1>3 DEF Carries
<1>9. ClientFits(client, medium)'
    BY DEF ClientFits
<1>10. MediumSafe'
    BY <1>3, <1>7, <1>8, <1>9 DEF UnattendedSafe, MediumSafe, Carries
<1> QED
    BY <1>3, <1>4, <1>10 DEF UnattendedSafe, Carries

\* ... to a step with no duties of its own.
LEMMA ClientEnds ==
    ASSUME UnattendedSafe, NEW pc \in {"ok", "fail", "join", "plan", "targets", "read", "wrong", "verdict",
                                       "disclosure"},
           ClientGoto(pc), client.pc # "idle",
           client.kind = "refusal_proof" => pc \in Refusing,
           medium' = medium, ran' = ran,
           UNCHANGED <<platform, disk, status, gate, call, starts, custody>>,
           given' \subseteq Tokens, liveAudit' \subseteq Events
    PROVE  UnattendedSafe'
<1> DEFINE c == [client EXCEPT !.pc = pc]
<1>1. c \in Clients /\ client' = c /\ c.pc = pc /\ c.kind = client.kind
    BY DEF ClientGoto, UnattendedSafe, MediumSafe, Clients, ClientPcs
<1> HIDE DEF c
<1>2. pc \notin Acking /\ pc \notin {"idle", "apply", "rename", "sync", "reopen", "ack"}
    BY DEF Acking
<1>3. ClientFits(c, medium)
    BY <1>1, <1>2 DEF ClientFits, UnattendedSafe, MediumSafe
<1> QED
    BY <1>1, <1>2, <1>3, ClientMoves

\* Nothing of the daemon changes but the count of faults.
LEMMA DaemonStays ==
    ASSUME UnattendedSafe,
           \/ UNCHANGED installVars
           \/ UNCHANGED <<platform, disk, memory, given, liveAudit, custody, starts>>
    PROVE  /\ UNCHANGED <<platform, disk, status, gate, call, starts, custody>>
           /\ given' \subseteq Tokens /\ liveAudit' \subseteq Events
BY DEF UnattendedSafe, InstallSafe, InstallTypeOK, installVars, vars, memory, bounds

LEMMA SafeStartClient ==
    ASSUME UnattendedSafe, NEW kind \in Kinds, StartClient(kind)
    PROVE  UnattendedSafe'
<1> DEFINE pc == IF kind = "unattended" THEN "mount" ELSE "targets"
           c == [pc |-> pc, kind |-> kind, token |-> None, key |-> 0, seen |-> None]
<1>1. /\ client' = c /\ ran' = ran \cup {kind} /\ medium' = medium /\ UNCHANGED installVars
    BY Zenon DEF StartClient, NoClient
<1>2. c \in Clients /\ c.kind = kind /\ c.pc = pc /\ c.pc \in {"mount", "targets"}
    BY DEF Clients, ClientPcs
<1>3. kind = "refusal_proof" => pc = "targets"
    OBVIOUS
<1> HIDE DEF c, pc
<1>4. /\ UNCHANGED <<platform, disk, status, gate, call, starts, custody>>
      /\ given' \subseteq Tokens /\ liveAudit' \subseteq Events
    BY <1>1, DaemonStays
<1>5. PICK K : K = custody
    OBVIOUS
<1>6. Held(K) /\ InstallSafe
    BY <1>5, Zenon DEF Held, UnattendedSafe
<1>7. Carries(K, 0)
    BY <1>4, <1>6, Elsewhere
<1>8. Held(custody)'
    BY <1>4, <1>5, <1>7, HeldByCustody DEF Carries
<1>9. ASSUME "apply_proof" \notin ran' PROVE Held(Kept(medium))'
    <2>1. PICK M : M = Kept(medium)
        OBVIOUS
    <2>2. Held(M)
        BY <1>1, <1>9, <2>1 DEF UnattendedSafe, MediumSafe, Held
    <2>3. Held(M)'
        BY <1>4, <1>6, <2>2, Elsewhere DEF Carries
    <2> QED
        BY <1>1, <2>1, <2>3 DEF Held, Kept
<1>10. ClientFits(client, medium)' /\ client'.pc \notin Acking
    BY <1>1, <1>2, <1>3 DEF ClientFits, Acking, Refusing
<1>11. MediumSafe'
    BY <1>1, <1>2, <1>7, <1>9, <1>10 DEF UnattendedSafe, MediumSafe, Carries
<1> QED
    BY <1>7, <1>8, <1>11 DEF UnattendedSafe, Carries

LEMMA SafeMount ==
    ASSUME UnattendedSafe, MountAnswers \/ FindTarget \/ CheckRefusal \/ JoinApply
    PROVE  UnattendedSafe'
<1>1. /\ medium' = medium /\ ran' = ran
      /\ \/ UNCHANGED installVars
         \/ UNCHANGED <<platform, disk, memory, given, liveAudit, custody, starts>>
    BY DEF MountAnswers, FindTarget, CheckRefusal, JoinApply
<1>2. PICK pc \in {"fail", "read", "plan", "ok"} :
        /\ ClientGoto(pc) /\ client.pc \in {"mount", "targets", "verdict", "join"}
        /\ client.pc = "mount" \/ pc # "read"
    BY DEF MountAnswers, FindTarget, CheckRefusal, JoinApply, ClientAt
<1>3. client.kind = "refusal_proof" => pc \in Refusing
    BY <1>2 DEF UnattendedSafe, MediumSafe, ClientFits, Refusing
<1> QED
    BY <1>1, <1>2, <1>3, DaemonStays, ClientEnds

LEMMA SafeFails ==
    ASSUME UnattendedSafe, ClientFails
    PROVE  UnattendedSafe'
<1>1. /\ medium' = medium /\ ran' = ran /\ ClientGoto("fail") /\ client.pc # "idle"
      /\ UNCHANGED <<platform, disk, memory, given, liveAudit, custody, starts>>
    BY DEF ClientFails
<1> QED
    BY <1>1, DaemonStays, ClientEnds DEF Refusing

\* The client is gone.
LEMMA SafeGone ==
    ASSUME UnattendedSafe, KillClient \/ FinishClient
    PROVE  UnattendedSafe'
<1>1. /\ medium' = medium /\ ran' = ran /\ client' = NoClient
      /\ \/ UNCHANGED installVars
         \/ UNCHANGED <<platform, disk, memory, given, liveAudit, custody, starts>>
    BY DEF KillClient, FinishClient
<1>2. NoClient \in Clients /\ NoClient.pc = "idle" /\ "idle" \notin Acking
    BY DEF NoClient, Clients, ClientPcs, Acking
<1>3. ClientFits(NoClient, medium)
    BY <1>2 DEF ClientFits
<1> QED
    BY <1>1, <1>2, <1>3, DaemonStays, ClientMoves

LEMMA SafeRead ==
    ASSUME UnattendedSafe, ReadAnswers
    PROVE  UnattendedSafe'
<1> DEFINE c == [[client EXCEPT !.pc = "targets"] EXCEPT !.token = medium.answers]
<1>1. /\ client' = c /\ client.pc = "read" /\ medium' = medium /\ ran' = ran /\ UNCHANGED installVars
    BY DEF ReadAnswers, ClientAt
<1>2. medium.answers \in PersonalTokens /\ client \in Clients
    BY DEF UnattendedSafe, MediumSafe, Media
<1>3. c \in Clients /\ c.pc = "targets" /\ c.kind = client.kind
    BY <1>2, Zenon DEF Clients, ClientPcs
<1> HIDE DEF c
<1>4. ClientFits(c, medium) /\ c.pc \notin Acking
    BY <1>1, <1>3 DEF ClientFits, Acking, Refusing, UnattendedSafe, MediumSafe
<1> QED
    BY <1>1, <1>3, <1>4, DaemonStays, ClientMoves

LEMMA SafePlan ==
    ASSUME UnattendedSafe, PlanInstallation
    PROVE  UnattendedSafe'
<1> DEFINE token == Personal(disk.table)
<1>1. /\ client.pc = "plan" /\ Plan("personal") /\ medium' = medium /\ ran' = ran
    BY DEF PlanInstallation, ClientAt
<1>2. disk \in Disks /\ client \in Clients
    BY DEF UnattendedSafe, InstallSafe, InstallTypeOK, MediumSafe
<1>3. token \in PersonalTokens /\ token \in Tokens
    BY <1>2 DEF Personal, PersonalTokens, Disks, Tokens, Modes
<1>4. UNCHANGED <<platform, disk, status, gate, call, starts, custody>>
    BY <1>1 DEF Plan
<1>5. liveAudit' \subseteq Events /\ given' \subseteq Tokens
    BY <1>1, <1>3 DEF Plan, Personal, Events, Actors, UnattendedSafe, InstallSafe, InstallTypeOK
<1>6. CASE ClientGoto("fail")
    BY <1>1, <1>4, <1>5, <1>6, ClientEnds DEF Refusing
<1>7. CASE ~ClientGoto("fail")
    <2> DEFINE pc == IF client.kind = "refusal_proof" THEN "wrong" ELSE "apply"
               c == [[[client EXCEPT !.pc = pc] EXCEPT !.token = token] EXCEPT !.seen = disk]
    <2>1. client' = c
        BY <1>7 DEF PlanInstallation
    <2> HIDE DEF token
    <2>2. c \in Clients /\ c.pc = pc /\ c.kind = client.kind /\ c.token = token
        BY <1>2, <1>3, Zenon DEF Clients, ClientPcs
    <2>3. pc \in {"wrong", "apply"} /\ (client.kind = "refusal_proof" => pc = "wrong")
        OBVIOUS
    <2> HIDE DEF c, pc
    <2>4. ClientFits(c, medium) /\ c.pc \notin Acking
        BY <1>1, <1>3, <2>2, <2>3 DEF ClientFits, Acking, Refusing, UnattendedSafe, MediumSafe
    <2> QED
        BY <1>1, <1>4, <1>5, <2>1, <2>2, <2>4, ClientMoves
<1> QED
    BY <1>6, <1>7

\* The call of a client.
LEMMA SafeApply ==
    ASSUME UnattendedSafe, ClientApply \/ ApplyWrongToken
    PROVE  UnattendedSafe'
<1>1. medium' = medium /\ ran' = ran
    BY Zenon DEF ClientApply, ApplyWrongToken
<1>2. CASE ClientGoto("fail") /\ UNCHANGED installVars /\ client.pc # "idle"
    BY <1>1, <1>2, DaemonStays, ClientEnds DEF Refusing
<1>3. ASSUME NEW t \in Tokens, t.mode # "organization", NEW u \in BOOLEAN, ApplyBegin(t, u),
             NEW pc \in {"disclosure", "verdict"}, ClientGoto(pc), client.pc # "idle",
             client.kind = "refusal_proof" => pc = "verdict"
      PROVE  UnattendedSafe'
    <2> DEFINE c == [client EXCEPT !.pc = pc]
    <2>1. c \in Clients /\ client' = c /\ c.pc = pc /\ c.kind = client.kind
        BY <1>3 DEF ClientGoto, UnattendedSafe, MediumSafe, Clients, ClientPcs
    <2> HIDE DEF c
    <2>2. PICK K : K = custody
        OBVIOUS
    <2>3. InstallSafe /\ Held(K) /\ custody' = custody
        BY <1>3, <2>2 DEF UnattendedSafe, Held, ApplyBegin
    <2>4. InstallSafe' /\ Held(K)' /\ NoEscrow'
        BY <1>3, <2>3, StepBegin
    <2>5. Held(custody)'
        BY <2>2, <2>3, <2>4, HeldByCustody
    <2>6. ASSUME "apply_proof" \notin ran' PROVE Held(Kept(medium))'
        <3>1. PICK M : M = Kept(medium)
            OBVIOUS
        <3>2. Held(M)
            BY <1>1, <2>6, <3>1, Zenon DEF UnattendedSafe, MediumSafe, Held
        <3>3. Held(M)'
            BY <1>3, <2>3, <3>2, StepBegin
        <3> QED
            BY <1>1, <3>1, <3>3 DEF Held, Kept
    <2>7. ClientFits(client, medium)' /\ client'.pc \notin Acking
        BY <1>1, <1>3, <2>1 DEF ClientFits, Acking, Refusing, UnattendedSafe, MediumSafe
    <2>8. MediumSafe'
        BY <1>1, <2>1, <2>4, <2>6, <2>7 DEF UnattendedSafe, MediumSafe
    <2> QED
        BY <2>4, <2>5, <2>8 DEF UnattendedSafe
<1>4. CASE ClientApply
    <2>1. client.pc = "apply" /\ client.token \in PersonalTokens /\ client.kind # "refusal_proof"
        BY <1>4 DEF ClientApply, ClientAt, UnattendedSafe, MediumSafe, ClientFits, Refusing
    <2>2. client.token \in Tokens /\ client.token.mode # "organization" /\ OnMedium \in BOOLEAN
        BY <2>1 DEF PersonalTokens, Tokens, Modes, OnMedium
    <2>3. \/ ClientGoto("fail") /\ UNCHANGED installVars
          \/ ApplyBegin(client.token, OnMedium) /\ ClientGoto("disclosure")
        BY <1>4 DEF ClientApply
    <2> QED
        BY <1>2, <1>3, <2>1, <2>2, <2>3
<1>5. CASE ApplyWrongToken
    <2>1. WrongToken \in Tokens /\ WrongToken.mode # "organization" /\ FALSE \in BOOLEAN
        BY DEF WrongToken, Tokens, Tables, Modes
    <2>2. /\ client.pc # "idle"
          /\ \/ ClientGoto("fail") /\ UNCHANGED installVars
             \/ ApplyBegin(WrongToken, FALSE) /\ ClientGoto("verdict")
        BY <1>5, Zenon DEF ApplyWrongToken, ClientAt
    <2> QED
        BY <1>2, <1>3, <2>1, <2>2, Zenon
<1> QED
    BY <1>4, <1>5

\* The key the client learns is the one in the gate, and no other transaction
\* can replace it before this one is over.
LEMMA SafeDisclosure ==
    ASSUME UnattendedSafe, ReadDisclosure
    PROVE  UnattendedSafe'
<1>1. client.pc = "disclosure" /\ medium' = medium /\ ran' = ran
    BY DEF ReadDisclosure, ClientAt
<1>2. CASE /\ ClientGoto("fail")
           /\ \/ UNCHANGED installVars
              \/ UNCHANGED <<platform, disk, memory, given, liveAudit, custody, starts>>
    BY <1>1, <1>2, DaemonStays, ClientEnds DEF Refusing
<1>3. CASE /\ gate.state = "personal"
           /\ client' = [client EXCEPT !.pc = "checkpoint", !.key = gate.key]
           /\ UNCHANGED installVars
    <2> DEFINE c == [[client EXCEPT !.pc = "checkpoint"] EXCEPT !.key = gate.key]
    <2>1. gate.key \in Nat /\ client \in Clients /\ gate.key # 0
        BY <1>3 DEF UnattendedSafe, InstallSafe, InstallTypeOK, ArmedForStatus, Gates, MediumSafe
    <2>2. client' = c /\ c \in Clients /\ c.pc = "checkpoint" /\ c.key = gate.key /\ c.kind = client.kind
        BY <1>3, <2>1, Zenon DEF Clients, ClientPcs
    <2> HIDE DEF c
    <2>3. ClientFits(c, medium)
        BY <1>1, <2>1, <2>2 DEF ClientFits, UnattendedSafe, MediumSafe, Refusing
    <2>4. Quiet(gate.key)
        BY <1>3, Zenon DEF UnattendedSafe, InstallSafe, Fits, Quiet, Early, Armed, KeyHeld, Bootable, ReadBack, Working, Asking, Pcs, Recovering, Enrolled, Blanked, LaidOut
    <2> QED
        BY <1>1, <1>3, <2>2, <2>3, <2>4, DaemonStays, ClientMoves
<1> QED
    BY <1>2, <1>3 DEF ReadDisclosure

\* From one step of the record to the next.
LEMMA ClientRecords ==
    ASSUME UnattendedSafe, NEW pc \in Acking, ClientGoto(pc), client.pc \in Acking,
           medium' = medium, ran' = ran, UNCHANGED installVars,
           pc = "rename" => medium.file = 0,
           pc \in {"sync", "reopen"} => FALSE,
           pc = "ack" /\ "apply_proof" \notin ran => medium.file = client.key /\ medium.durable = client.key
    PROVE  UnattendedSafe'
<1> DEFINE c == [client EXCEPT !.pc = pc]
<1>1. c \in Clients /\ client' = c /\ c.pc = pc /\ c.kind = client.kind /\ c.key = client.key
    BY DEF ClientGoto, UnattendedSafe, MediumSafe, Clients, ClientPcs, Acking
<1> HIDE DEF c
<1>2. ClientFits(c, medium) /\ Quiet(c.key)
    BY <1>1 DEF ClientFits, UnattendedSafe, MediumSafe, Acking, Refusing
<1> QED
    BY <1>1, <1>2, DaemonStays, ClientMoves, Zenon

LEMMA SafePoll ==
    ASSUME UnattendedSafe, PollCheckpoint
    PROVE  UnattendedSafe'
<1>1. client.pc = "checkpoint" /\ medium' = medium /\ ran' = ran
    BY DEF PollCheckpoint, ClientAt
<1>2. CASE /\ ClientGoto("fail")
           /\ \/ UNCHANGED installVars
              \/ UNCHANGED <<platform, disk, memory, given, liveAudit, custody, starts>>
    BY <1>1, <1>2, DaemonStays, ClientEnds DEF Refusing
<1>3. CASE ClientGoto(IF OnMedium THEN "custody" ELSE "ack") /\ UNCHANGED installVars
    <2>1. client.kind \in ran /\ ran \subseteq Kinds /\ client.kind # "refusal_proof"
        BY <1>1 DEF UnattendedSafe, MediumSafe, ClientFits, Refusing
    <2>2. OnMedium \/ "apply_proof" \in ran
        BY <2>1, Zenon DEF OnMedium, Kinds
    <2>3. CASE OnMedium
        BY <1>1, <1>3, <2>3, ClientRecords DEF Acking
    <2>4. CASE ~OnMedium
        BY <1>1, <1>3, <2>2, <2>4, ClientRecords DEF Acking
    <2> QED
        BY <2>3, <2>4
<1> QED
    BY <1>2, <1>3, Zenon DEF PollCheckpoint

LEMMA SafeCheckCustody ==
    ASSUME UnattendedSafe, CheckCustody \/ ReopenCustody
    PROVE  UnattendedSafe'
<1>1. /\ client.pc \in {"custody", "reopen"} /\ medium' = medium /\ ran' = ran /\ UNCHANGED installVars
    BY DEF CheckCustody, ReopenCustody, ClientAt
<1>2. CASE ClientGoto("fail")
    BY <1>1, <1>2, DaemonStays, ClientEnds DEF Refusing
<1>3. CASE ClientGoto("rename") /\ medium.file = 0
    BY <1>1, <1>3, ClientRecords DEF Acking
<1>4. CASE ClientGoto("ack") /\ client.pc = "reopen"
    <2>1. medium.file = client.key /\ medium.durable = client.key
        BY <1>4 DEF UnattendedSafe, MediumSafe, ClientFits
    <2> QED
        BY <1>1, <1>4, <2>1, ClientRecords DEF Acking
<1> QED
    BY <1>2, <1>3, <1>4 DEF CheckCustody, ReopenCustody, ClientAt, NoCustody

\* The record is written: what the medium keeps is not touched while nothing
\* was kept, and otherwise stays.
LEMMA ClientWrites ==
    ASSUME UnattendedSafe, NEW pc \in {"sync", "reopen"}, ClientGoto(pc), client.pc \in Acking,
           NEW m \in Media, medium' = m, ran' = ran, UNCHANGED installVars,
           m.file = client.key, pc = "reopen" => m.durable = client.key,
           m.durable # 0 => m.file = m.durable,
           medium.durable # 0 => m.durable = medium.durable
    PROVE  UnattendedSafe'
<1> DEFINE c == [client EXCEPT !.pc = pc]
<1>1. c \in Clients /\ client' = c /\ c.pc = pc /\ c.kind = client.kind /\ c.key = client.key
    BY DEF ClientGoto, UnattendedSafe, MediumSafe, Clients, ClientPcs
<1> HIDE DEF c
<1>2. /\ UNCHANGED <<platform, disk, status, gate, call, starts, custody>>
      /\ given' \subseteq Tokens /\ liveAudit' \subseteq Events
    BY DaemonStays
<1>3. PICK K : K = custody
    OBVIOUS
<1>4. Held(K) /\ InstallSafe
    BY <1>3 DEF Held, UnattendedSafe
<1>5. \A k : Carries(K, k)
    BY <1>2, <1>4, Elsewhere
<1>6. Held(custody)'
    BY <1>2, <1>3, <1>5, HeldByCustody DEF Carries
<1>7. ASSUME "apply_proof" \notin ran' PROVE Held(Kept(medium))'
    <2>1. PICK M : M = Kept(medium)
        OBVIOUS
    <2>2. Held(M)
        BY <1>7, <2>1, Zenon DEF UnattendedSafe, MediumSafe, Held
    <2>3. Held(M)'
        BY <1>2, <1>4, <2>2, Elsewhere DEF Carries
    <2>4. M \subseteq Kept(medium')
        BY <2>1 DEF Kept
    <2> QED
        BY <2>3, <2>4 DEF Held
<1>8. Quiet(client.key)'
    <2>1. PICK k : k = client.key
        OBVIOUS
    <2>2. Quiet(k)
        BY <2>1 DEF UnattendedSafe, MediumSafe, Quiet
    <2>3. Quiet(k)' /\ client'.key = k
        BY <1>1, <1>5, <2>1, <2>2 DEF Carries
    <2> QED
        BY <2>3 DEF Quiet
<1>9. ClientFits(client, medium)'
    BY <1>1 DEF ClientFits, UnattendedSafe, MediumSafe, Acking, Refusing
<1>10. MediumSafe'
    BY <1>1, <1>5, <1>7, <1>8, <1>9 DEF UnattendedSafe, MediumSafe, Carries
<1> QED
    BY <1>5, <1>6, <1>10 DEF UnattendedSafe, Carries

LEMMA SafeRecord ==
    ASSUME UnattendedSafe, RenameCustody \/ SyncCustody
    PROVE  UnattendedSafe'
<1>1. medium \in Media /\ client \in Clients /\ (medium.durable # 0 => medium.file = medium.durable)
    BY DEF UnattendedSafe, MediumSafe
<1>2. CASE RenameCustody
    <2> DEFINE m == [medium EXCEPT !.file = client.key]
    <2>1. /\ medium' = m /\ client.pc = "rename" /\ ClientGoto("sync") /\ ran' = ran /\ UNCHANGED installVars
        BY <1>2 DEF RenameCustody, ClientAt
    <2>2. medium.file = 0 /\ client.key \in Nat
        BY <1>1, <2>1 DEF UnattendedSafe, MediumSafe, ClientFits, Clients
    <2>3. m \in Media /\ m.file = client.key /\ m.durable = medium.durable
        BY <1>1, <2>2 DEF Media
    <2> HIDE DEF m
    <2>4. medium.durable = 0
        BY <1>1, <2>2
    <2> QED
        BY <2>1, <2>3, <2>4, ClientWrites DEF Acking
<1>3. CASE SyncCustody
    <2> DEFINE m == [medium EXCEPT !.durable = medium.file]
    <2>1. /\ medium' = m /\ client.pc = "sync" /\ ClientGoto("reopen") /\ ran' = ran /\ UNCHANGED installVars
        BY <1>3 DEF SyncCustody, ClientAt
    <2>2. medium.file = client.key
        BY <2>1 DEF UnattendedSafe, MediumSafe, ClientFits
    <2>3. m \in Media /\ m.file = medium.file /\ m.durable = medium.file
        BY <1>1 DEF Media
    <2> HIDE DEF m
    <2> QED
        BY <1>1, <2>1, <2>2, <2>3, ClientWrites DEF Acking
<1> QED
    BY <1>2, <1>3

\* The client confirms a key that its medium keeps.
LEMMA SafeClientAck ==
    ASSUME UnattendedSafe, ClientAck
    PROVE  UnattendedSafe'
<1>1. client.pc = "ack" /\ medium' = medium /\ ran' = ran
    BY DEF ClientAck, ClientAt
<1>2. CASE ClientGoto("fail") /\ UNCHANGED installVars
    BY <1>1, <1>2, DaemonStays, ClientEnds DEF Refusing
<1>3. CASE /\ gate.state = "personal" /\ AcknowledgePersonalRecovery(client.token)
           /\ ClientGoto("join")
    <2> DEFINE c == [client EXCEPT !.pc = "join"]
    <2>1. c \in Clients /\ client' = c /\ c.pc = "join" /\ c.kind = client.kind
        BY <1>3 DEF ClientGoto, UnattendedSafe, MediumSafe, Clients, ClientPcs
    <2> HIDE DEF c
    <2>2. InstallSafe' /\ Held(custody)'
        BY <1>3, AcknowledgeSafe DEF UnattendedSafe
    <2>3. PICK g : g = gate.key
        OBVIOUS
    <2>4. g = client.key /\ g # 0 /\ client.kind # "refusal_proof"
        BY <1>1, <1>3, <2>3 DEF UnattendedSafe, MediumSafe, ClientFits, Acking, Quiet, Refusing
    <2>5. ASSUME "apply_proof" \notin ran' PROVE Held(Kept(medium))'
        <3>1. PICK M : M = Kept(medium)
            OBVIOUS
        <3>2. Held(M) /\ InstallSafe
            BY <1>1, <2>5, <3>1, Zenon DEF UnattendedSafe, MediumSafe, Held
        <3>3. M \cup {g} = M
            BY <1>1, <2>4, <2>5, <3>1 DEF UnattendedSafe, MediumSafe, ClientFits, Kept
        <3>4. Carries(M \cup {g}, 0)
            BY <1>3, <2>3, <3>2, StepAcknowledge
        <3>5. Held(M \cup {g})'
            BY <3>4 DEF Carries
        <3> QED
            BY <1>1, <3>1, <3>3, <3>5 DEF Held, Kept
    <2>6. NoEscrow'
        <3>1. call' = call /\ NoEscrow
            BY <1>3 DEF AcknowledgePersonalRecovery, UnattendedSafe, MediumSafe
        <3> QED
            BY <3>1 DEF NoEscrow, Mode
    <2>7. ClientFits(client, medium)' /\ client'.pc \notin Acking
        BY <1>1, <2>1, <2>4 DEF ClientFits, Acking, UnattendedSafe, MediumSafe
    <2>8. MediumSafe'
        BY <1>1, <2>1, <2>5, <2>6, <2>7 DEF UnattendedSafe, MediumSafe
    <2> QED
        BY <2>2, <2>8 DEF UnattendedSafe
<1> QED
    BY <1>2, <1>3 DEF ClientAck

\* Power is lost: the medium has what it keeps.
LEMMA SafePowerLoss ==
    ASSUME UnattendedSafe, PowerLoss
    PROVE  UnattendedSafe'
<1>1. /\ status' = IdleStatus /\ gate' = IdleGate /\ Return /\ given' = {} /\ liveAudit' = {}
      /\ client' = NoClient /\ ran' = ran /\ UNCHANGED <<platform, disk, custody, starts>>
    BY DEF PowerLoss, Return
<1>2. PICK kept \in {medium.file, medium.durable} :
        medium' = [[medium EXCEPT !.file = kept] EXCEPT !.durable = kept]
    BY Zenon DEF PowerLoss
<1>3. /\ medium \in Media /\ (medium.durable # 0 => medium.file = medium.durable)
      /\ medium' \in Media /\ medium'.file = kept /\ medium'.durable = kept
    BY <1>2, Zenon DEF UnattendedSafe, MediumSafe, Media
<1>4. PICK K : K = custody
    OBVIOUS
<1>5. Held(K) /\ InstallSafe
    BY <1>4 DEF Held, UnattendedSafe
<1>6. Carries(K, 0)
    BY <1>1, <1>5, StepRestart
<1>7. Held(custody)'
    BY <1>1, <1>4, <1>6, HeldByCustody DEF Carries
<1>8. ASSUME "apply_proof" \notin ran' PROVE Held(Kept(medium))'
    <2>1. PICK M : M = Kept(medium)
        OBVIOUS
    <2>2. Held(M)
        BY <1>1, <1>8, <2>1, Zenon DEF UnattendedSafe, MediumSafe, Held
    <2>3. Held(M)'
        BY <1>1, <1>5, <2>2, StepRestart DEF Carries
    <2>4. M \subseteq Kept(medium')
        BY <1>3, <2>1 DEF Kept
    <2> QED
        BY <2>3, <2>4 DEF Held
<1>9. NoClient \in Clients /\ NoClient.pc = "idle" /\ "idle" \notin Acking
    BY DEF NoClient, Clients, ClientPcs, Acking
<1>10. ClientFits(client, medium)' /\ client'.pc \notin Acking
    BY <1>1, <1>9 DEF ClientFits
<1>11. NoEscrow'
    BY <1>1, Left DEF NoEscrow
<1>12. MediumSafe'
    BY <1>1, <1>3, <1>8, <1>9, <1>10, <1>11 DEF UnattendedSafe, MediumSafe
<1> QED
    BY <1>6, <1>7, <1>12 DEF UnattendedSafe, Carries

\* A step of the daemon while its client stands still.
LEMMA SafeDaemon ==
    ASSUME UnattendedSafe, Daemon, UNCHANGED clientVars
    PROVE  UnattendedSafe'
<1>1. client' = client /\ medium' = medium /\ ran' = ran /\ InstallSafe /\ NoEscrow
    BY DEF clientVars, UnattendedSafe, MediumSafe
<1>2. ~AttemptOrganizationRecovery
    BY <1>1 DEF NoEscrow, AttemptOrganizationRecovery, At
<1>3. ASSUME NEW K, Held(K), NEW k PROVE Carries(K, k) /\ custody' = custody
    BY <1>1, <1>2, <1>3, ThreadCarries, UpsetCarries DEF Daemon
<1>4. PICK K : K = custody
    OBVIOUS
<1>5. Held(K)
    BY <1>4 DEF Held, UnattendedSafe
<1>6. Held(custody)' /\ InstallSafe' /\ NoEscrow'
    BY <1>1, <1>3, <1>4, <1>5, HeldByCustody DEF Carries
<1>7. ASSUME "apply_proof" \notin ran' PROVE Held(Kept(medium))'
    <2>1. PICK M : M = Kept(medium)
        OBVIOUS
    <2>2. Held(M)
        BY <1>1, <1>7, <2>1, Zenon DEF UnattendedSafe, MediumSafe, Held
    <2>3. Held(M)'
        BY <1>3, <2>2 DEF Carries
    <2> QED
        BY <1>1, <2>1, <2>3 DEF Held, Kept
<1>8. ASSUME client'.pc \in Acking PROVE Quiet(client.key)'
    <2>1. PICK k : k = client.key
        OBVIOUS
    <2>2. Quiet(k)
        BY <1>1, <1>8, <2>1 DEF UnattendedSafe, MediumSafe, Quiet
    <2>3. Quiet(k)'
        BY <1>3, <1>5, <2>2 DEF Carries
    <2> QED
        BY <1>1, <2>1, <2>3 DEF Quiet
<1>9. MediumSafe'
    BY <1>1, <1>6, <1>7, <1>8 DEF UnattendedSafe, MediumSafe, ClientFits
<1> QED
    BY <1>6, <1>9 DEF UnattendedSafe

LEMMA UnattendedStepSafe ==
    UnattendedSafe /\ [UnattendedNext]_unattendedVars => UnattendedSafe'
<1> SUFFICES ASSUME UnattendedSafe, [UnattendedNext]_unattendedVars PROVE UnattendedSafe'
    OBVIOUS
<1>1. CASE UnattendedNext
    BY <1>1, SafeStartClient, SafeMount, SafeRead, SafePlan, SafeApply, SafeDisclosure, SafePoll,
       SafeCheckCustody, SafeRecord, SafeClientAck, SafeGone, SafeFails, SafePowerLoss, SafeDaemon, Zenon
    DEF UnattendedNext, ClientStep
<1>2. CASE UNCHANGED unattendedVars
    <2>1. client' = client /\ medium' = medium /\ ran' = ran /\ UNCHANGED installVars
        BY <1>2 DEF unattendedVars, clientVars, installVars
    <2> QED
        BY <2>1, DaemonStays, ClientMoves, Zenon DEF UnattendedSafe, MediumSafe
<1> QED
    BY <1>1, <1>2

LEMMA UnattendedInitSafe == ClientInit => UnattendedSafe
<1> SUFFICES ASSUME ClientInit PROVE UnattendedSafe
    OBVIOUS
<1>1. InstallSafe /\ NoEscrow /\ \A K : Held(K)
    BY InstallInitSafe DEF ClientInit
<1>2. medium \in Media /\ medium.file = 0 /\ medium.durable = 0
    BY DEF ClientInit, Media, NoCustody, Personal, PersonalTokens, Tables
<1>3. client \in Clients /\ client.pc = "idle" /\ "idle" \notin Acking
    BY DEF ClientInit, NoClient, Clients, ClientPcs, Acking
<1>4. ClientFits(client, medium) /\ ran \subseteq Kinds
    BY <1>3 DEF ClientFits, ClientInit
<1> QED
    BY <1>1, <1>2, <1>3, <1>4 DEF UnattendedSafe, MediumSafe

\* Nobody is left with an encrypted disk and no key: content goes onto it only
\* after custody of its key, and the record of an unattended installation is on
\* its medium for good, through retries, killed clients and losses of power
\* (install.recovery_ack, write_unattended_custody).
THEOREM KeyIsKept == UnattendedSpec => []RecoveryKeyKept
<1>1. UnattendedSafe => RecoveryKeyKept
    <2>1. UnattendedSafe => CustodyBeforeContent
        BY SafeMeans DEF UnattendedSafe
    <2>2. UnattendedSafe => KeyStaysOnMedium
        BY Zenon DEF UnattendedSafe, MediumSafe, KeyStaysOnMedium, Held, Kept, Blank
    <2> QED
        BY <2>1, <2>2 DEF RecoveryKeyKept
<1> QED
    BY <1>1, UnattendedInitSafe, UnattendedStepSafe, PTL DEF UnattendedSpec

=============================================================================
