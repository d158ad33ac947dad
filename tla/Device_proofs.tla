--------------------------- MODULE Device_proofs ---------------------------
(***************************************************************************)
(* What the device is.                                                     *)
(*                                                                         *)
(* Between transitions it is enrolled or it is not (AllOrNothing), by the  *)
(* invariant EnrollSafe: a transition owns enroll_in_progress, what it has *)
(* written so far follows from where it is, and between transitions the    *)
(* device is settled.                                                      *)
(*                                                                         *)
(* Its id and its seeds are decided once (SeededOnce), by the invariant    *)
(* StartSafe: from the moment a start has loaded the stores, its defaults  *)
(* in memory are those of the file.                                        *)
(***************************************************************************)
EXTENDS Enrollment, Startup, TLAPS

-----------------------------------------------------------------------------
(* Enrollment.                                                             *)


StartPcs == {"register", "fetch", "policy", "browser", "token", "enrollment", "flip"}
StopPcs == {"unpolicy", "unenrollment", "untoken", "clear"}
SyncPcs == {"credential", "compliance", "inventory", "send", "persist"}
Transits(c) == c.pc \in StartPcs \cup StopPcs

EnrollTypeOK ==
    /\ {enrollment, enrollmentFile} \subseteq EnrollmentRecord \cup {None}
    /\ {token, tokenFile, cpToken} \subseteq Tokens \cup {None}
    /\ inventory \in Inventories
    /\ enrollInProgress \in BOOLEAN
    /\ calls \in [Threads -> CallState]
    /\ crashes \in Nat

SoundCall(c) ==
    /\ c.pc \in StartPcs => c.org \in Orgs
    /\ c.pc \in StartPcs \ {"register"} => c.token # None
    /\ c.pc \in SyncPcs => c.enr # None
    /\ Transits(c) => c.task = "transition"

OneTransition ==
    /\ \A t \in Threads : calls[t].task = "transition" => enrollInProgress
    /\ \A t, u \in Threads : calls[t].task = "transition" /\ calls[u].task = "transition" => t = u

\* What a transition that has come as far as c has done.
Stage(c) ==
    /\ Transits(c) => enrollment = None
    /\ c.pc \in StartPcs => token = None /\ orgLayers = {}
    /\ c.pc \in StartPcs \ {"enrollment", "flip"} => tokenFile = None
    /\ c.pc \in StartPcs \ {"flip"} => enrollmentFile = None
    /\ c.pc \in StartPcs \ {"register"} => c.token = cpToken
    /\ c.pc \in {"register", "fetch"} => policyDir = {}
    /\ c.pc = "policy" => c.todo \subseteq PolicyFiles[c.org] /\ policyDir = PolicyFiles[c.org] \ c.todo
    /\ c.pc \in {"browser", "token", "enrollment", "flip"} => policyDir = PolicyFiles[c.org]
    /\ c.pc \in {"token", "enrollment", "flip"} => browser = PolicyFiles[c.org]
    /\ c.pc \in {"enrollment", "flip"} => tokenFile = c.token
    /\ c.pc = "flip" => enrollmentFile = [token |-> c.token, policyFiles |-> PolicyFiles[c.org],
                                          hash |-> None, result |-> None]
    /\ c.pc = "unpolicy" => policyDir = c.todo
    /\ c.pc \in StopPcs \ {"unpolicy"} => policyDir = {}
    /\ c.pc \in {"untoken", "clear"} => enrollmentFile = None
    /\ c.pc = "clear" => tokenFile = None

EnrollSafe ==
    /\ EnrollTypeOK
    /\ \A t \in Threads : SoundCall(calls[t])
    /\ OneTransition
    /\ crashes = 0 => /\ \A t \in Threads : Stage(calls[t])
                      /\ (\A t \in Threads : ~Transits(calls[t])) => Settled

\* Everything Stage says is about a transition.
LEMMA OutsideTransition ==
    ASSUME NEW c, ~Transits(c)
    PROVE  Stage(c) /\ Stage(c)'
BY Zenon DEF Stage, Transits, StartPcs, StopPcs

\* One thread moves on to c, and leaves behind what c says it has done.
LEMMA OneMoves ==
    ASSUME EnrollSafe, NEW t \in Threads, NEW c \in CallState, SoundCall(c),
           calls' = [calls EXCEPT ![t] = c], EnrollTypeOK', crashes' = crashes,
           c.task = "transition" => calls[t].task = "transition" \/ ~enrollInProgress,
           c.task = "transition" => enrollInProgress',
           calls[t].task = "transition" \/ (enrollInProgress => enrollInProgress'),
           crashes = 0 =>
               /\ \A u \in Threads : u # t => Stage(calls[u])'
               /\ Stage(c)'
               /\ ~Transits(c) /\ (\A u \in Threads : u # t => ~Transits(calls[u])) => Settled'
    PROVE  EnrollSafe'
<1>1. calls'[t] = c /\ \A u \in Threads : u # t => calls'[u] = calls[u]
    BY DEF EnrollSafe, EnrollTypeOK
<1>2. \A u \in Threads : SoundCall(calls'[u])
    BY <1>1, Zenon DEF EnrollSafe
<1>3. OneTransition'
    BY <1>1 DEF EnrollSafe, OneTransition
<1>4. ASSUME crashes' = 0
      PROVE  /\ \A u \in Threads : Stage(calls[u])'
             /\ (\A u \in Threads : ~Transits(calls'[u])) => Settled'
    <2>1. ASSUME NEW u \in Threads
          PROVE  Stage(calls[u])'
        <3>1. CASE u # t
            BY <1>4, <3>1
        <3>2. CASE u = t
            <4>1. Stage(c)' /\ calls'[u] = c
                BY <1>1, <1>4, <3>2
            <4> QED
                BY ONLY <4>1 DEF Stage, Transits
        <3> QED
            BY <3>1, <3>2
    <2>2. (\A u \in Threads : ~Transits(calls'[u])) => Settled'
        BY <1>1, <1>4, Zenon
    <2> QED
        BY <2>1, <2>2
<1> QED
    BY <1>2, <1>3, <1>4 DEF EnrollSafe

LEMMA CallFacts ==
    ASSUME EnrollSafe, NEW t \in Threads
    PROVE  /\ calls[t] \in CallState /\ SoundCall(calls[t])
           /\ calls[t].task = "transition" =>
                enrollInProgress /\ \A u \in Threads : u # t => ~Transits(calls[u])
           /\ crashes = 0 => Stage(calls[t])
BY DEF EnrollSafe, EnrollTypeOK, OneTransition, SoundCall

LEMMA IdleIsSound == Idle \in CallState /\ SoundCall(Idle) /\ ~Transits(Idle) /\ Idle.task = "none"
<1>1. /\ Idle \in CallState /\ Idle.pc = "idle" /\ Idle.task = "none"
    BY DEF Idle, CallState
<1> QED
    BY <1>1 DEF SoundCall, Transits, StartPcs, StopPcs, SyncPcs

\* A pass goes on, whatever transition runs beside it.
LEMMA QuietMoves ==
    ASSUME EnrollSafe, NEW t \in Threads, ~Transits(calls[t]),
           NEW c \in CallState, SoundCall(c), ~Transits(c), calls' = [calls EXCEPT ![t] = c],
           \/ c.task = calls[t].task /\ enrollInProgress' = enrollInProgress
           \/ c.task = "reconcile" /\ enrollInProgress' = enrollInProgress
           \/ c.task = "none" /\ enrollInProgress' = (enrollInProgress /\ calls[t].task # "transition"),
           UNCHANGED <<enrollment, enrollmentFile, token, tokenFile, policyDir, orgLayers, browser,
                       cpToken, inventory, crashes>>
    PROVE  EnrollSafe'
<1>1. EnrollTypeOK'
    BY Zenon DEF EnrollSafe, EnrollTypeOK
<1>2. calls'[t] = c /\ \A u \in Threads : u # t => calls'[u] = calls[u]
    BY DEF EnrollSafe, EnrollTypeOK
<1>3. Stage(c)'
    BY OutsideTransition
<1>4. ASSUME crashes = 0, NEW u \in Threads, u # t
      PROVE  Stage(calls[u])'
    <2>1. Stage(calls[u]) /\ calls'[u] = calls[u]
        BY <1>2, <1>4 DEF EnrollSafe
    <2> QED
        BY ONLY <2>1, UNCHANGED <<enrollment, enrollmentFile, token, tokenFile, policyDir, orgLayers,
                                  browser, cpToken>> DEF Stage, Transits
<1>5. ASSUME crashes = 0, \A u \in Threads : u # t => ~Transits(calls[u])
      PROVE  Settled'
    <2>1. Settled
        BY <1>5 DEF EnrollSafe
    <2> QED
        BY <2>1 DEF Settled
<1>6. calls[t].task = "transition" => enrollInProgress
    BY CallFacts
<1>7. enrollInProgress \in BOOLEAN
    BY DEF EnrollSafe, EnrollTypeOK
<1>8. c.task = "transition" => calls[t].task = "transition" /\ enrollInProgress'
    BY <1>6, <1>7
<1>9. calls[t].task = "transition" \/ (enrollInProgress => enrollInProgress')
    BY <1>7
<1>10. crashes = 0 =>
        /\ \A u \in Threads : u # t => Stage(calls[u])'
        /\ Stage(c)'
        /\ ~Transits(c) /\ (\A u \in Threads : u # t => ~Transits(calls[u])) => Settled'
    BY <1>3, <1>4, <1>5
<1> QED
    BY <1>1, <1>8, <1>9, <1>10, OneMoves, Zenon

\* A transition goes on: no other thread is in one.
LEMMA TransitionMoves ==
    ASSUME EnrollSafe, NEW t \in Threads, Transits(calls[t]),
           NEW c \in CallState, SoundCall(c), calls' = [calls EXCEPT ![t] = c],
           EnrollTypeOK', crashes' = crashes,
           c.task = "none" \/ (c.task = "transition" /\ enrollInProgress' = enrollInProgress),
           crashes = 0 => Stage(c)' /\ (~Transits(c) => Settled')
    PROVE  EnrollSafe'
<1>1. /\ calls[t].task = "transition" /\ enrollInProgress
      /\ \A u \in Threads : u # t => ~Transits(calls[u])
    BY CallFacts DEF SoundCall
<1>2. ASSUME NEW u \in Threads, u # t
      PROVE  Stage(calls[u])'
    <2>1. calls'[u] = calls[u] /\ ~Transits(calls[u])
        BY <1>1, <1>2 DEF EnrollSafe, EnrollTypeOK
    <2> QED
        BY <2>1, Zenon DEF Stage, Transits, StartPcs, StopPcs
<1>3. c.task = "transition" => enrollInProgress'
    <2>1. c.task = "transition" => enrollInProgress' = enrollInProgress
        OBVIOUS
    <2> QED
        BY <1>1, <2>1, Zenon
<1>4. crashes = 0 =>
        /\ \A u \in Threads : u # t => Stage(calls[u])'
        /\ Stage(c)'
        /\ ~Transits(c) /\ (\A u \in Threads : u # t => ~Transits(calls[u])) => Settled'
    BY <1>2
<1> QED
    BY <1>1, <1>3, <1>4, OneMoves, Zenon

\* A transition that is given up leaves nothing behind.
LEMMA TransitionEnds ==
    ASSUME EnrollSafe, NEW t \in Threads, Transits(calls[t]), Done(t),
           {enrollment', enrollmentFile'} \subseteq EnrollmentRecord \cup {None},
           {token', tokenFile', cpToken'} \subseteq Tokens \cup {None},
           UNCHANGED <<inventory, crashes>>, crashes = 0 => Settled'
    PROVE  EnrollSafe'
<1>1. PICK c : c = Idle
    OBVIOUS
<1>2. c \in CallState /\ SoundCall(c) /\ ~Transits(c) /\ c.task = "none"
    BY <1>1, IdleIsSound
<1>3. calls' = [calls EXCEPT ![t] = c]
    BY <1>1 DEF Done
<1>4. EnrollTypeOK'
    BY <1>2, <1>3 DEF Done, EnrollSafe, EnrollTypeOK
<1>5. Stage(c)'
    BY <1>2, OutsideTransition
<1> QED
    BY <1>2, <1>3, <1>4, <1>5, TransitionMoves, Zenon

LEMMA SafeRegister ==
    ASSUME EnrollSafe, NEW t \in Threads, Register(t)
    PROVE  EnrollSafe'
<1> DEFINE issued == IF cpToken = None THEN 1 ELSE cpToken + 1
<1>1. calls[t].pc = "register" /\ Transits(calls[t])
    BY DEF Register, At, Transits, StartPcs
<1>2. /\ calls[t] \in CallState /\ SoundCall(calls[t]) /\ calls[t].org \in Orgs
      /\ calls[t].task = "transition" /\ (crashes = 0 => Stage(calls[t]))
    BY <1>1, CallFacts DEF SoundCall, StartPcs
<1>3. UNCHANGED <<enrollment, enrollmentFile, token, tokenFile, policyDir, orgLayers, browser,
                  inventory, crashes>>
    BY DEF Register, memory, files, world
<1>4. /\ {enrollment', enrollmentFile'} \subseteq EnrollmentRecord \cup {None}
      /\ {token', tokenFile', cpToken'} \subseteq Tokens \cup {None}
    BY <1>3 DEF Register, EnrollSafe, EnrollTypeOK
<1>5. CASE Done(t)
    <2>1. crashes = 0 => Settled'
        BY <1>1, <1>2, <1>3 DEF Stage, Transits, StartPcs, Settled
    <2> QED
        BY <1>1, <1>3, <1>4, <1>5, <2>1, TransitionEnds
<1>6. CASE /\ calls' = [calls EXCEPT ![t].pc = "fetch", ![t].token = issued]
           /\ issued \in Tokens /\ cpToken' = issued /\ UNCHANGED enrollInProgress
    <2> HIDE DEF issued
    <2>1. PICK c : c = [calls[t] EXCEPT !.pc = "fetch", !.token = issued]
        OBVIOUS
    <2>2. /\ c \in CallState /\ c.pc = "fetch" /\ c.token = issued /\ c.org = calls[t].org
          /\ c.task = "transition"
        BY <1>2, <1>6, <2>1, Zenon DEF CallState
    <2>3. calls' = [calls EXCEPT ![t] = c]
        BY <1>6, <2>1, Zenon
    <2>4. c.token # None
        BY <1>6, <2>2, ConstantsAssumption
    <2>5. SoundCall(c) /\ Transits(c)
        BY <1>2, <2>2, <2>4 DEF SoundCall, Transits, StartPcs, StopPcs, SyncPcs
    <2>6. EnrollTypeOK'
        BY <1>3, <1>4, <1>6, <2>2, <2>3, Zenon DEF EnrollSafe, EnrollTypeOK
    <2>7. crashes = 0 => Stage(c)'
        BY <1>1, <1>2, <1>3, <1>6, <2>2 DEF Stage, Transits, StartPcs, StopPcs
    <2> QED
        BY <1>1, <1>3, <1>6, <2>2, <2>3, <2>5, <2>6, <2>7, TransitionMoves, Zenon
<1> QED
    BY <1>5, <1>6 DEF Register

LEMMA SafeFetch ==
    ASSUME EnrollSafe, NEW t \in Threads, Fetch(t)
    PROVE  EnrollSafe'
<1>1. calls[t].pc = "fetch" /\ Transits(calls[t])
    BY DEF Fetch, At, Transits, StartPcs
<1>2. /\ calls[t] \in CallState /\ calls[t].org \in Orgs /\ calls[t].token # None
      /\ calls[t].task = "transition" /\ (crashes = 0 => Stage(calls[t]))
    BY <1>1, CallFacts DEF SoundCall, StartPcs
<1>3. UNCHANGED <<enrollment, enrollmentFile, token, tokenFile, policyDir, orgLayers, browser,
                  cpToken, inventory, crashes>>
    BY DEF Fetch, memory, files, world, controlPlane
<1>4. /\ {enrollment', enrollmentFile'} \subseteq EnrollmentRecord \cup {None}
      /\ {token', tokenFile', cpToken'} \subseteq Tokens \cup {None}
    BY <1>3 DEF EnrollSafe, EnrollTypeOK
<1>5. CASE Done(t)
    <2>1. crashes = 0 => Settled'
        BY <1>1, <1>2, <1>3 DEF Stage, Transits, StartPcs, Settled
    <2> QED
        BY <1>1, <1>3, <1>4, <1>5, <2>1, TransitionEnds
<1>6. CASE /\ calls' = [calls EXCEPT ![t].pc = "policy", ![t].todo = PolicyFiles[calls[t].org]]
           /\ UNCHANGED enrollInProgress
    <2>1. PICK c : c = [calls[t] EXCEPT !.pc = "policy", !.todo = PolicyFiles[calls[t].org]]
        OBVIOUS
    <2>2. PolicyFiles[calls[t].org] \in SUBSET AllPolicyFiles
        BY <1>2, ConstantsAssumption
    <2>3. /\ c \in CallState /\ c.pc = "policy" /\ c.token = calls[t].token /\ c.org = calls[t].org
          /\ c.task = "transition" /\ c.todo = PolicyFiles[c.org]
        BY <1>2, <2>1, <2>2, Zenon DEF CallState
    <2>4. calls' = [calls EXCEPT ![t] = c]
        BY <1>6, <2>1, Zenon
    <2>5. SoundCall(c) /\ Transits(c)
        BY <1>2, <2>3 DEF SoundCall, Transits, StartPcs, StopPcs, SyncPcs
    <2>6. EnrollTypeOK'
        BY <1>3, <1>4, <1>6, <2>3, <2>4, Zenon DEF EnrollSafe, EnrollTypeOK
    <2>7. crashes = 0 => Stage(c)'
        BY <1>1, <1>2, <1>3, <1>6, <2>3 DEF Stage, Transits, StartPcs, StopPcs
    <2> QED
        BY <1>1, <1>3, <1>6, <2>3, <2>4, <2>5, <2>6, <2>7, TransitionMoves, Zenon
<1> QED
    BY <1>5, <1>6 DEF Fetch

\* Without failing unlinks a roll-back removes what it is asked to.
LEMMA RollBacks ==
    ASSUME "unlink" \notin Faults
    PROVE  /\ \A dir, gone, new : new \in Unlinked(dir, gone) => new = dir \ gone
           /\ \A file, new : new \in Removed(file) => new = None
BY DEF Unlinked, Removed

LEMMA SafeWritePolicy ==
    ASSUME "unlink" \notin Faults, EnrollSafe, NEW t \in Threads, WritePolicy(t)
    PROVE  EnrollSafe'
<1>1. calls[t].pc = "policy" /\ Transits(calls[t])
    BY DEF WritePolicy, At, Transits, StartPcs, StopPcs
<1>2. /\ calls[t] \in CallState /\ calls[t].org \in Orgs /\ calls[t].token # None
      /\ calls[t].task = "transition" /\ (crashes = 0 => Stage(calls[t]))
    BY <1>1, CallFacts DEF SoundCall, StartPcs, StopPcs
<1>3. UNCHANGED <<enrollment, enrollmentFile, token, tokenFile, orgLayers, browser, cpToken, inventory, crashes>>
    BY DEF WritePolicy, memory, world, controlPlane
<1>4. /\ {enrollment', enrollmentFile'} \subseteq EnrollmentRecord \cup {None}
      /\ {token', tokenFile', cpToken'} \subseteq Tokens \cup {None}
    BY <1>3 DEF EnrollSafe, EnrollTypeOK
<1>5. CASE policyDir' \in Unlinked(policyDir, PolicyFiles[calls[t].org]) /\ Done(t)
    <2>1. policyDir' = policyDir \ PolicyFiles[calls[t].org]
        BY <1>5, RollBacks
    <2>2. crashes = 0 => Settled'
        BY <1>1, <1>2, <1>3, <2>1 DEF Stage, Transits, StartPcs, Settled
    <2> QED
        BY <1>1, <1>3, <1>4, <1>5, <2>2, TransitionEnds
<1>6. ASSUME NEW f \in calls[t].todo, policyDir' = policyDir \cup {f},
             calls' = [calls EXCEPT ![t].todo = @ \ {f},
                           ![t].pc = IF calls[t].todo = {f} THEN "browser" ELSE "policy"],
             UNCHANGED enrollInProgress
      PROVE  EnrollSafe'
    <2>1. PICK next : next = IF calls[t].todo = {f} THEN "browser" ELSE "policy"
        OBVIOUS
    <2>2. PICK c : c = [calls[t] EXCEPT !.todo = @ \ {f}, !.pc = next]
        OBVIOUS
    <2>3. next \in {"browser", "policy"} /\ (next = "browser" => calls[t].todo = {f})
        BY <2>1
    <2>4. /\ c \in CallState /\ c.pc = next /\ c.token = calls[t].token /\ c.org = calls[t].org
          /\ c.task = "transition" /\ c.todo = calls[t].todo \ {f}
        BY <1>2, <2>2, <2>3, Zenon DEF CallState
    <2>5. calls' = [calls EXCEPT ![t] = c]
        BY <1>6, <2>1, <2>2, Zenon
    <2>6. SoundCall(c) /\ Transits(c)
        BY <1>2, <2>3, <2>4 DEF SoundCall, Transits, StartPcs, StopPcs, SyncPcs
    <2>7. EnrollTypeOK'
        BY <1>3, <1>4, <1>6, <2>4, <2>5, Zenon DEF EnrollSafe, EnrollTypeOK
    <2>8. crashes = 0 => Stage(c)'
        <3>1. SUFFICES ASSUME crashes = 0
                       PROVE  Stage(c)'
            OBVIOUS
        <3>2. calls[t].todo \subseteq PolicyFiles[c.org] /\ policyDir = PolicyFiles[c.org] \ calls[t].todo
            BY <1>1, <1>2, <2>4, <3>1 DEF Stage
        <3>3. policyDir' = PolicyFiles[c.org] \ c.todo /\ c.todo \subseteq PolicyFiles[c.org]
            BY <1>6, <2>4, <3>2
        <3>4. c.pc = "browser" => policyDir' = PolicyFiles[c.org]
            BY <2>3, <2>4, <3>3
        <3> QED
            BY <1>1, <1>2, <1>3, <2>3, <2>4, <3>1, <3>3, <3>4 DEF Stage, Transits, StartPcs, StopPcs
    <2> QED
        BY <1>1, <1>3, <1>6, <2>4, <2>5, <2>6, <2>7, <2>8, TransitionMoves
<1> QED
    BY <1>5, <1>6, Zenon DEF WritePolicy

LEMMA SafeRenderBrowser ==
    ASSUME "unlink" \notin Faults, EnrollSafe, NEW t \in Threads, RenderBrowser(t)
    PROVE  EnrollSafe'
<1>1. calls[t].pc = "browser" /\ Transits(calls[t])
    BY DEF RenderBrowser, At, Transits, StartPcs, StopPcs
<1>2. /\ calls[t] \in CallState /\ calls[t].org \in Orgs /\ calls[t].token # None
      /\ calls[t].task = "transition" /\ (crashes = 0 => Stage(calls[t]))
    BY <1>1, CallFacts DEF SoundCall, StartPcs, StopPcs
<1>3. UNCHANGED <<enrollment, enrollmentFile, token, tokenFile, orgLayers, cpToken, inventory, crashes>>
    BY DEF RenderBrowser, memory, world, controlPlane
<1>4. CASE Done(t) /\ policyDir' \in Unlinked(policyDir, PolicyFiles[calls[t].org])
    <2>1. policyDir' = policyDir \ PolicyFiles[calls[t].org]
        BY <1>4, RollBacks
    <2>2. /\ {enrollment', enrollmentFile'} \subseteq EnrollmentRecord \cup {None}
          /\ {token', tokenFile', cpToken'} \subseteq Tokens \cup {None}
        BY <1>3, <1>4, <2>1 DEF EnrollSafe, EnrollTypeOK
    <2>3. crashes = 0 => Settled'
        BY <1>1, <1>2, <1>3, <1>4, <2>1 DEF Stage, Transits, StartPcs, Settled
    <2> QED
        BY <1>1, <1>3, <1>4, <2>2, <2>3, TransitionEnds
<1>5. CASE browser' = PolicyFiles[calls[t].org] /\ UNCHANGED policyDir /\ Goto(t, "token") /\ UNCHANGED enrollInProgress
    <2>1. PICK c : c = [calls[t] EXCEPT !.pc = "token"]
        BY Zenon
    <2>2. /\ c \in CallState /\ c.pc = "token" /\ c.token = calls[t].token /\ c.org = calls[t].org
          /\ c.task = "transition"
        BY <1>2, <2>1 DEF CallState
    <2>3. calls' = [calls EXCEPT ![t] = c]
        BY <1>5, <2>1 DEF Goto
    <2>4. SoundCall(c) /\ Transits(c)
        BY <1>2, <2>2 DEF SoundCall, Transits, StartPcs, StopPcs, SyncPcs
    <2>6. EnrollTypeOK'
        BY <1>2, <1>3, <1>5, <2>2, <2>3 DEF EnrollSafe, EnrollTypeOK
    <2>7. crashes = 0 => Stage(c)'
        BY <1>1, <1>2, <1>3, <1>5, <2>2 DEF Stage, Transits, StartPcs, StopPcs
    <2> QED
        BY <1>1, <1>3, <1>5, <2>2, <2>3, <2>4, <2>6, <2>7, TransitionMoves, Zenon
<1> QED
    BY <1>4, <1>5 DEF RenderBrowser

LEMMA SafeSaveToken ==
    ASSUME "unlink" \notin Faults, EnrollSafe, NEW t \in Threads, SaveToken(t)
    PROVE  EnrollSafe'
<1>1. calls[t].pc = "token" /\ Transits(calls[t])
    BY DEF SaveToken, At, Transits, StartPcs, StopPcs
<1>2. /\ calls[t] \in CallState /\ calls[t].org \in Orgs /\ calls[t].token # None
      /\ calls[t].task = "transition" /\ (crashes = 0 => Stage(calls[t]))
    BY <1>1, CallFacts DEF SoundCall, StartPcs, StopPcs
<1>3. UNCHANGED <<enrollment, enrollmentFile, token, orgLayers, cpToken, inventory, crashes>>
    BY DEF SaveToken, memory, world, controlPlane
<1>4. CASE Done(t) /\ policyDir' \in Unlinked(policyDir, PolicyFiles[calls[t].org]) /\ UNCHANGED tokenFile
    <2>1. policyDir' = policyDir \ PolicyFiles[calls[t].org]
        BY <1>4, RollBacks
    <2>2. /\ {enrollment', enrollmentFile'} \subseteq EnrollmentRecord \cup {None}
          /\ {token', tokenFile', cpToken'} \subseteq Tokens \cup {None}
        BY <1>3, <1>4, <2>1 DEF EnrollSafe, EnrollTypeOK
    <2>3. crashes = 0 => Settled'
        BY <1>1, <1>2, <1>3, <1>4, <2>1 DEF Stage, Transits, StartPcs, Settled
    <2> QED
        BY <1>1, <1>3, <1>4, <2>2, <2>3, TransitionEnds
<1>5. CASE tokenFile' = calls[t].token /\ UNCHANGED <<policyDir, browser>> /\ Goto(t, "enrollment") /\ UNCHANGED enrollInProgress
    <2>1. PICK c : c = [calls[t] EXCEPT !.pc = "enrollment"]
        BY Zenon
    <2>2. /\ c \in CallState /\ c.pc = "enrollment" /\ c.token = calls[t].token /\ c.org = calls[t].org
          /\ c.task = "transition"
        BY <1>2, <2>1 DEF CallState
    <2>3. calls' = [calls EXCEPT ![t] = c]
        BY <1>5, <2>1 DEF Goto
    <2>4. SoundCall(c) /\ Transits(c)
        BY <1>2, <2>2 DEF SoundCall, Transits, StartPcs, StopPcs, SyncPcs
    <2>6. EnrollTypeOK'
        BY <1>2, <1>3, <1>5, <2>2, <2>3 DEF EnrollSafe, EnrollTypeOK, CallState
    <2>7. crashes = 0 => Stage(c)'
        BY <1>1, <1>2, <1>3, <1>5, <2>2 DEF Stage, Transits, StartPcs, StopPcs, CallState
    <2> QED
        BY <1>1, <1>3, <1>5, <2>2, <2>3, <2>4, <2>6, <2>7, TransitionMoves, Zenon
<1> QED
    BY <1>4, <1>5, Zenon DEF SaveToken

LEMMA NewIsRecord ==
    ASSUME NEW t \in Threads, calls[t] \in CallState, calls[t].org \in Orgs, calls[t].token # None
    PROVE  NewEnrollment(t) \in EnrollmentRecord
<1>1. PolicyFiles[calls[t].org] \in SUBSET AllPolicyFiles
    BY ConstantsAssumption
<1>2. calls[t].token \in Tokens
    BY DEF CallState
<1> QED
    BY <1>1, <1>2 DEF NewEnrollment, EnrollmentRecord

LEMMA SafeSaveEnrollment ==
    ASSUME "unlink" \notin Faults, EnrollSafe, NEW t \in Threads, SaveEnrollment(t)
    PROVE  EnrollSafe'
<1>1. calls[t].pc = "enrollment" /\ Transits(calls[t])
    BY DEF SaveEnrollment, At, Transits, StartPcs, StopPcs
<1>2. /\ calls[t] \in CallState /\ calls[t].org \in Orgs /\ calls[t].token # None
      /\ calls[t].task = "transition" /\ (crashes = 0 => Stage(calls[t]))
    BY <1>1, CallFacts DEF SoundCall, StartPcs, StopPcs
<1>3. UNCHANGED <<enrollment, token, orgLayers, cpToken, inventory, crashes>>
    BY DEF SaveEnrollment, memory, world, controlPlane
<1>4. CASE Done(t) /\ policyDir' \in Unlinked(policyDir, PolicyFiles[calls[t].org])
           /\ tokenFile' \in Removed(tokenFile) /\ UNCHANGED enrollmentFile
    <2>1. policyDir' = policyDir \ PolicyFiles[calls[t].org] /\ tokenFile' = None
        BY <1>4, RollBacks
    <2>2. /\ {enrollment', enrollmentFile'} \subseteq EnrollmentRecord \cup {None}
          /\ {token', tokenFile', cpToken'} \subseteq Tokens \cup {None}
        BY <1>3, <1>4, <2>1 DEF EnrollSafe, EnrollTypeOK
    <2>3. crashes = 0 => Settled'
        BY <1>1, <1>2, <1>3, <1>4, <2>1 DEF Stage, Transits, StartPcs, Settled
    <2> QED
        BY <1>1, <1>3, <1>4, <2>2, <2>3, TransitionEnds
<1>5. CASE enrollmentFile' = NewEnrollment(t) /\ UNCHANGED <<tokenFile, policyDir, browser>> /\ Goto(t, "flip") /\ UNCHANGED enrollInProgress
    <2>1. PICK c : c = [calls[t] EXCEPT !.pc = "flip"]
        BY Zenon
    <2>2. /\ c \in CallState /\ c.pc = "flip" /\ c.token = calls[t].token /\ c.org = calls[t].org
          /\ c.task = "transition"
        BY <1>2, <2>1 DEF CallState
    <2>3. calls' = [calls EXCEPT ![t] = c]
        BY <1>5, <2>1 DEF Goto
    <2>4. SoundCall(c) /\ Transits(c)
        BY <1>2, <2>2 DEF SoundCall, Transits, StartPcs, StopPcs, SyncPcs
    <2>5. /\ NewEnrollment(t) \in EnrollmentRecord
          /\ NewEnrollment(t) = [token |-> c.token, policyFiles |-> PolicyFiles[c.org],
                                 hash |-> None, result |-> None]
        BY <1>2, <2>2, NewIsRecord DEF NewEnrollment
    <2>6. EnrollTypeOK'
        BY <1>2, <1>3, <1>5, <2>2, <2>3, <2>5 DEF EnrollSafe, EnrollTypeOK
    <2>7. crashes = 0 => Stage(c)'
        BY <1>1, <1>2, <1>3, <1>5, <2>2, <2>5 DEF Stage, Transits, StartPcs, StopPcs
    <2> QED
        BY <1>1, <1>3, <1>5, <2>2, <2>3, <2>4, <2>6, <2>7, TransitionMoves, Zenon
<1> QED
    BY <1>4, <1>5 DEF SaveEnrollment

LEMMA SafeFlip ==
    ASSUME EnrollSafe, NEW t \in Threads, Flip(t)
    PROVE  EnrollSafe'
<1>1. calls[t].pc = "flip" /\ Transits(calls[t])
    BY DEF Flip, At, Transits, StartPcs
<1>2. /\ calls[t] \in CallState /\ calls[t].org \in Orgs /\ calls[t].token # None
      /\ calls[t].task = "transition" /\ (crashes = 0 => Stage(calls[t]))
    BY <1>1, CallFacts DEF SoundCall, StartPcs
<1>3. UNCHANGED <<enrollmentFile, tokenFile, policyDir, browser, cpToken, inventory, crashes,
                  enrollInProgress>>
    BY DEF Flip, files, controlPlane, world
<1>4. /\ token' = calls[t].token /\ orgLayers' = PolicyFiles[calls[t].org]
      /\ enrollment' = NewEnrollment(t) /\ NewEnrollment(t) \in EnrollmentRecord
    BY <1>2, NewIsRecord DEF Flip
<1>5. PICK c : c = [Idle EXCEPT !.pc = "sync", !.task = "transition"]
    OBVIOUS
<1>6. c \in CallState /\ c.pc = "sync" /\ c.task = "transition"
    BY <1>5, IdleIsSound, Zenon DEF CallState
<1>7. calls' = [calls EXCEPT ![t] = c]
    BY <1>5 DEF Flip
<1>8. SoundCall(c) /\ ~Transits(c)
    BY <1>6 DEF SoundCall, Transits, StartPcs, StopPcs, SyncPcs
<1>9. EnrollTypeOK'
    <2>1. token' \in Tokens
        BY <1>2, <1>4 DEF CallState
    <2> QED
        BY <1>3, <1>4, <1>6, <1>7, <2>1 DEF EnrollSafe, EnrollTypeOK
<1>10. crashes = 0 => Settled'
    <2>1. NewEnrollment(t).token = calls[t].token /\ NewEnrollment(t).policyFiles = PolicyFiles[calls[t].org]
        BY DEF NewEnrollment
    <2>2. NewEnrollment(t) # None
        BY <1>4, ConstantsAssumption
    <2>3. crashes = 0 => enrollmentFile = NewEnrollment(t)
        BY <1>1, <1>2 DEF Stage, NewEnrollment
    <2> QED
        BY <1>1, <1>2, <1>3, <1>4, <2>1, <2>2, <2>3 DEF Stage, StartPcs, Settled
<1>11. Stage(c)'
    BY <1>8, OutsideTransition
<1> QED
    BY <1>1, <1>3, <1>6, <1>7, <1>8, <1>9, <1>10, <1>11, TransitionMoves, Zenon

LEMMA SafeRemoveEnrollment ==
    ASSUME "unlink" \notin Faults, EnrollSafe, NEW t \in Threads, RemoveEnrollment(t)
    PROVE  EnrollSafe'
<1>1. calls[t].pc = "unenrollment" /\ Transits(calls[t])
    BY DEF RemoveEnrollment, At, Transits, StartPcs, StopPcs
<1>2. /\ calls[t] \in CallState 
      /\ calls[t].task = "transition" /\ (crashes = 0 => Stage(calls[t]))
    BY <1>1, CallFacts DEF SoundCall, StartPcs, StopPcs
<1>3. UNCHANGED <<enrollment, token, tokenFile, policyDir, orgLayers, browser, cpToken, inventory, crashes>>
    BY DEF RemoveEnrollment, memory, world, controlPlane
<1>4. enrollmentFile' = None
    BY RollBacks DEF RemoveEnrollment
<1>5. /\ {enrollment', enrollmentFile'} \subseteq EnrollmentRecord \cup {None}
      /\ {token', tokenFile', cpToken'} \subseteq Tokens \cup {None}
    BY <1>3, <1>4 DEF EnrollSafe, EnrollTypeOK
<1>6. PICK c : c = [calls[t] EXCEPT !.pc = "untoken"]
    BY Zenon
<1>7. c \in CallState /\ c.pc = "untoken" /\ c.task = "transition"
    BY <1>2, <1>6 DEF CallState
<1>8. calls' = [calls EXCEPT ![t] = c] /\ enrollInProgress' = enrollInProgress
    BY <1>6 DEF RemoveEnrollment, Goto
<1>9. SoundCall(c) /\ Transits(c)
    BY <1>7 DEF SoundCall, Transits, StartPcs, StopPcs, SyncPcs
<1>10. EnrollTypeOK'
    BY <1>3, <1>5, <1>7, <1>8 DEF EnrollSafe, EnrollTypeOK
<1>11. crashes = 0 => Stage(c)'
    BY <1>1, <1>2, <1>3, <1>4, <1>7 DEF Stage, Transits, StartPcs, StopPcs
<1> QED
    BY <1>1, <1>3, <1>7, <1>8, <1>9, <1>10, <1>11, TransitionMoves, Zenon

LEMMA SafeRemoveToken ==
    ASSUME "unlink" \notin Faults, EnrollSafe, NEW t \in Threads, RemoveToken(t)
    PROVE  EnrollSafe'
<1>1. calls[t].pc = "untoken" /\ Transits(calls[t])
    BY DEF RemoveToken, At, Transits, StartPcs, StopPcs
<1>2. /\ calls[t] \in CallState 
      /\ calls[t].task = "transition" /\ (crashes = 0 => Stage(calls[t]))
    BY <1>1, CallFacts DEF SoundCall, StartPcs, StopPcs
<1>3. UNCHANGED <<enrollment, enrollmentFile, token, policyDir, orgLayers, browser, cpToken, inventory, crashes>>
    BY DEF RemoveToken, memory, world, controlPlane
<1>4. tokenFile' = None
    BY RollBacks DEF RemoveToken
<1>5. /\ {enrollment', enrollmentFile'} \subseteq EnrollmentRecord \cup {None}
      /\ {token', tokenFile', cpToken'} \subseteq Tokens \cup {None}
    BY <1>3, <1>4 DEF EnrollSafe, EnrollTypeOK
<1>6. PICK c : c = [calls[t] EXCEPT !.pc = "clear"]
    BY Zenon
<1>7. c \in CallState /\ c.pc = "clear" /\ c.task = "transition"
    BY <1>2, <1>6 DEF CallState
<1>8. calls' = [calls EXCEPT ![t] = c] /\ enrollInProgress' = enrollInProgress
    BY <1>6 DEF RemoveToken, Goto
<1>9. SoundCall(c) /\ Transits(c)
    BY <1>7 DEF SoundCall, Transits, StartPcs, StopPcs, SyncPcs
<1>10. EnrollTypeOK'
    BY <1>3, <1>5, <1>7, <1>8 DEF EnrollSafe, EnrollTypeOK
<1>11. crashes = 0 => Stage(c)'
    BY <1>1, <1>2, <1>3, <1>4, <1>7 DEF Stage, Transits, StartPcs, StopPcs
<1> QED
    BY <1>1, <1>3, <1>7, <1>8, <1>9, <1>10, <1>11, TransitionMoves, Zenon

LEMMA SafeRemovePolicy ==
    ASSUME "unlink" \notin Faults, EnrollSafe, NEW t \in Threads, RemovePolicy(t)
    PROVE  EnrollSafe'
<1>1. calls[t].pc = "unpolicy" /\ Transits(calls[t])
    BY DEF RemovePolicy, At, Transits, StartPcs, StopPcs
<1>2. /\ calls[t] \in CallState 
      /\ calls[t].task = "transition" /\ (crashes = 0 => Stage(calls[t]))
    BY <1>1, CallFacts DEF SoundCall, StartPcs, StopPcs
<1>3. UNCHANGED <<enrollment, enrollmentFile, token, tokenFile, orgLayers, browser, cpToken, inventory, crashes>>
    BY DEF RemovePolicy, memory, world, controlPlane
<1>4. PICK f \in calls[t].todo :
        /\ policyDir' \in Unlinked(policyDir, {f})
        /\ calls' = [calls EXCEPT ![t].todo = @ \ {f},
                        ![t].pc = IF calls[t].todo = {f} THEN "unenrollment" ELSE "unpolicy"]
    BY Zenon DEF RemovePolicy
<1>5. policyDir' = policyDir \ {f} /\ enrollInProgress' = enrollInProgress
    BY <1>4, RollBacks DEF RemovePolicy
<1>6. PICK next : next = IF calls[t].todo = {f} THEN "unenrollment" ELSE "unpolicy"
    OBVIOUS
<1>7. PICK c : c = [calls[t] EXCEPT !.todo = @ \ {f}, !.pc = next]
    OBVIOUS
<1>8. next \in {"unenrollment", "unpolicy"} /\ (next = "unenrollment" => calls[t].todo = {f})
    BY <1>6
<1>9. c \in CallState /\ c.pc = next /\ c.task = "transition" /\ c.todo = calls[t].todo \ {f}
    BY <1>2, <1>7, <1>8, Zenon DEF CallState
<1>10. calls' = [calls EXCEPT ![t] = c]
    BY <1>4, <1>6, <1>7, Zenon
<1>11. SoundCall(c) /\ Transits(c)
    BY <1>8, <1>9 DEF SoundCall, Transits, StartPcs, StopPcs, SyncPcs
<1>12. EnrollTypeOK'
    BY <1>3, <1>5, <1>9, <1>10 DEF EnrollSafe, EnrollTypeOK
<1>13. crashes = 0 => Stage(c)'
    <2>1. crashes = 0 => policyDir' = c.todo /\ (next = "unenrollment" => policyDir' = {})
        BY <1>1, <1>2, <1>5, <1>8, <1>9 DEF Stage
    <2> QED
        BY <1>1, <1>2, <1>3, <1>8, <1>9, <2>1 DEF Stage, Transits, StartPcs, StopPcs
<1> QED
    BY <1>1, <1>3, <1>5, <1>9, <1>10, <1>11, <1>12, <1>13, TransitionMoves, Zenon

LEMMA SafeClear ==
    ASSUME EnrollSafe, NEW t \in Threads, Clear(t)
    PROVE  EnrollSafe'
<1>1. calls[t].pc = "clear" /\ Transits(calls[t])
    BY DEF Clear, At, Transits, StopPcs
<1>2. calls[t] \in CallState /\ (crashes = 0 => Stage(calls[t]))
    BY CallFacts
<1>3. UNCHANGED <<enrollment, enrollmentFile, tokenFile, policyDir, cpToken, inventory, crashes,
                  enrollInProgress>>
    BY DEF Clear, controlPlane, world
<1>4. token' = None /\ orgLayers' = {}
    BY DEF Clear
<1>5. PICK c : c = [Idle EXCEPT !.pc = "sync", !.task = "transition"]
    OBVIOUS
<1>6. c \in CallState /\ c.pc = "sync" /\ c.task = "transition"
    BY <1>5, IdleIsSound, Zenon DEF CallState
<1>7. calls' = [calls EXCEPT ![t] = c]
    BY <1>5 DEF Clear
<1>8. SoundCall(c) /\ ~Transits(c)
    BY <1>6 DEF SoundCall, Transits, StartPcs, StopPcs, SyncPcs
<1>9. EnrollTypeOK'
    BY <1>3, <1>4, <1>6, <1>7 DEF EnrollSafe, EnrollTypeOK
<1>10. crashes = 0 => Settled'
    BY <1>1, <1>2, <1>3, <1>4 DEF Stage, Transits, StopPcs, Settled
<1>11. Stage(c)'
    BY <1>8, OutsideTransition
<1> QED
    BY <1>1, <1>3, <1>6, <1>7, <1>8, <1>9, <1>10, <1>11, TransitionMoves, Zenon

\* With enroll_in_progress free nobody is in a transition.
LEMMA NobodyTransits ==
    ASSUME EnrollSafe, ~enrollInProgress
    PROVE  /\ \A u \in Threads : ~Transits(calls[u]) /\ calls[u].task # "transition"
           /\ crashes = 0 => Settled
<1>1. \A u \in Threads : calls[u].task # "transition"
    BY DEF EnrollSafe, OneTransition
<1>2. \A u \in Threads : ~Transits(calls[u])
    BY <1>1, CallFacts DEF SoundCall
<1> QED
    BY <1>1, <1>2 DEF EnrollSafe

LEMMA SafeEnrollStart ==
    ASSUME EnrollSafe, NEW t \in Threads, NEW o \in Orgs, EnrollStart(t, o)
    PROVE  EnrollSafe'
<1>1. ~enrollInProgress /\ enrollInProgress' = TRUE /\ enrollment = None
    BY DEF EnrollStart, Acquire
<1>2. UNCHANGED <<enrollment, enrollmentFile, token, tokenFile, policyDir, orgLayers, browser,
                  cpToken, inventory, crashes>>
    BY DEF EnrollStart, memory, files, controlPlane, world
<1>3. PICK c : c = [Idle EXCEPT !.pc = "register", !.task = "transition", !.org = o]
    OBVIOUS
<1>4. c \in CallState /\ c.pc = "register" /\ c.task = "transition" /\ c.org = o
    BY <1>3, IdleIsSound, Zenon DEF CallState
<1>5. calls' = [calls EXCEPT ![t] = c]
    BY <1>3 DEF EnrollStart, Begin
<1>6. SoundCall(c) /\ Transits(c)
    BY <1>4 DEF SoundCall, Transits, StartPcs, StopPcs, SyncPcs
<1>7. EnrollTypeOK'
    BY <1>1, <1>2, <1>4, <1>5 DEF EnrollSafe, EnrollTypeOK
<1>8. crashes = 0 => Stage(c)'
    <2>1. crashes = 0 => Settled
        BY <1>1, NobodyTransits
    <2> QED
        BY <1>1, <1>2, <1>4, <2>1 DEF Settled, Stage, Transits, StartPcs, StopPcs
<1>9. ASSUME NEW u \in Threads, u # t
      PROVE  Stage(calls[u])'
    <2>1. calls'[u] = calls[u] /\ ~Transits(calls[u])
        BY <1>1, <1>5, <1>9, NobodyTransits DEF EnrollSafe, EnrollTypeOK
    <2> QED
        BY <2>1, Zenon DEF Stage, Transits, StartPcs, StopPcs
<1>10. crashes = 0 =>
        /\ \A u \in Threads : u # t => Stage(calls[u])'
        /\ Stage(c)'
        /\ ~Transits(c) /\ (\A u \in Threads : u # t => ~Transits(calls[u])) => Settled'
    BY <1>6, <1>8, <1>9
<1> QED
    BY <1>1, <1>2, <1>4, <1>5, <1>6, <1>7, <1>10, OneMoves, Zenon

LEMMA SafeEnrollStop ==
    ASSUME EnrollSafe, NEW t \in Threads, EnrollStop(t)
    PROVE  EnrollSafe'
<1>1. ~enrollInProgress /\ enrollInProgress' = TRUE /\ enrollment # None /\ enrollment' = None
    BY DEF EnrollStop, Acquire
<1>2. UNCHANGED <<enrollmentFile, token, tokenFile, policyDir, orgLayers, browser, cpToken,
                  inventory, crashes>>
    BY DEF EnrollStop, files, controlPlane, world
<1>3. PICK c : c = [Idle EXCEPT !.pc = "unpolicy", !.task = "transition",
                                !.todo = enrollment.policyFiles]
    OBVIOUS
<1>4. enrollment.policyFiles \in SUBSET AllPolicyFiles
    BY <1>1 DEF EnrollSafe, EnrollTypeOK, EnrollmentRecord
<1>5. /\ c \in CallState /\ c.pc = "unpolicy" /\ c.task = "transition"
      /\ c.todo = enrollment.policyFiles
    BY <1>3, <1>4, IdleIsSound, Zenon DEF CallState
<1>6. calls' = [calls EXCEPT ![t] = c]
    BY <1>3 DEF EnrollStop, Begin
<1>7. SoundCall(c) /\ Transits(c)
    BY <1>5 DEF SoundCall, Transits, StartPcs, StopPcs, SyncPcs
<1>8. EnrollTypeOK'
    BY <1>1, <1>2, <1>5, <1>6 DEF EnrollSafe, EnrollTypeOK
<1>9. crashes = 0 => Stage(c)'
    <2>1. crashes = 0 => policyDir' = c.todo
        BY <1>1, <1>2, <1>5, NobodyTransits DEF Settled
    <2> QED
        BY <1>1, <1>5, <2>1 DEF Stage, Transits, StartPcs, StopPcs
<1>10. ASSUME NEW u \in Threads, u # t
       PROVE  Stage(calls[u])'
    <2>1. calls'[u] = calls[u] /\ ~Transits(calls[u])
        BY <1>1, <1>6, <1>10, NobodyTransits DEF EnrollSafe, EnrollTypeOK
    <2> QED
        BY <2>1, Zenon DEF Stage, Transits, StartPcs, StopPcs
<1>11. crashes = 0 =>
        /\ \A u \in Threads : u # t => Stage(calls[u])'
        /\ Stage(c)'
        /\ ~Transits(c) /\ (\A u \in Threads : u # t => ~Transits(calls[u])) => Settled'
    BY <1>7, <1>9, <1>10
<1> QED
    BY <1>1, <1>2, <1>5, <1>6, <1>7, <1>8, <1>11, OneMoves, Zenon

\* The sync hook up to its record.
LEMMA SafeSync ==
    ASSUME EnrollSafe, NEW t \in Threads,
           Reconcile(t) \/ Sync(t) \/ Credential(t) \/ Compliance(t) \/ Inventory(t) \/ Send(t)
    PROVE  EnrollSafe'
<1> DEFINE Same == UNCHANGED <<enrollment, enrollmentFile, token, tokenFile, policyDir, orgLayers,
                               browser, cpToken, inventory, crashes>>
<1>1. calls[t] \in CallState /\ SoundCall(calls[t])
    BY CallFacts
<1>2. Same
    BY Zenon DEF Reconcile, Sync, Credential, Compliance, Inventory, Send, memory, files, controlPlane, world
<1>3. /\ token \in Tokens \cup {None} /\ enrollment \in EnrollmentRecord \cup {None}
      /\ inventory \in Inventories
    BY DEF EnrollSafe, EnrollTypeOK
<1>4. calls[t].pc \in {"idle", "sync"} \cup SyncPcs /\ ~Transits(calls[t])
    BY Zenon DEF Reconcile, Begin, Sync, Credential, Compliance, Inventory, Send, At, SyncPcs, Transits,
           StartPcs, StopPcs
<1>5. calls[t].pc \in SyncPcs => calls[t].enr \in EnrollmentRecord /\ calls[t].enr.hash \in Inventories \cup {None}
    BY <1>1 DEF SoundCall, CallState, EnrollmentRecord
\* A step to c within the hook.
<1>6. ASSUME NEW c \in CallState, c.pc \in {"sync"} \cup SyncPcs, c.pc \in SyncPcs => c.enr # None,
             calls' = [calls EXCEPT ![t] = c], UNCHANGED enrollInProgress,
             c.task \in {calls[t].task, "reconcile"}
      PROVE  EnrollSafe'
    <2>1. SoundCall(c) /\ ~Transits(c)
        BY <1>6 DEF SoundCall, Transits, StartPcs, StopPcs, SyncPcs
    <2> QED
        BY <1>2, <1>4, <1>6, <2>1, QuietMoves, Zenon
<1>7. CASE Reconcile(t)
    <2>1. PICK c : c = [Idle EXCEPT !.pc = "sync", !.task = "reconcile"]
        OBVIOUS
    <2>2. c \in CallState /\ c.pc = "sync" /\ c.task = "reconcile"
        BY <2>1, IdleIsSound, Zenon DEF CallState
    <2>3. calls' = [calls EXCEPT ![t] = c] /\ UNCHANGED enrollInProgress
        BY <1>7, <2>1 DEF Reconcile, Begin
    <2> QED
        BY <1>6, <2>2, <2>3, Zenon DEF SyncPcs
<1>8. CASE Sync(t)
    <2>1. CASE Done(t)
        <3>1. PICK c : c = Idle
            OBVIOUS
        <3>2. c \in CallState /\ SoundCall(c) /\ ~Transits(c) /\ c.task = "none"
            BY <3>1, IdleIsSound
        <3>3. /\ calls' = [calls EXCEPT ![t] = c]
              /\ enrollInProgress' = (enrollInProgress /\ calls[t].task # "transition")
            BY <2>1, <3>1 DEF Done
        <3> QED
            BY <1>2, <1>4, <3>2, <3>3, QuietMoves, Zenon
    <2>2. CASE /\ enrollment # None /\ UNCHANGED enrollInProgress
               /\ calls' = [calls EXCEPT ![t].pc = "credential", ![t].enr = enrollment]
        <3>1. PICK c : c = [calls[t] EXCEPT !.pc = "credential", !.enr = enrollment]
            OBVIOUS
        <3>2. c \in CallState /\ c.pc = "credential" /\ c.task = calls[t].task /\ c.enr = enrollment
            BY <1>1, <1>3, <3>1, Zenon DEF CallState
        <3>3. calls' = [calls EXCEPT ![t] = c]
            BY <2>2, <3>1, Zenon
        <3> QED
            BY <1>6, <2>2, <3>2, <3>3, Zenon DEF SyncPcs
    <2> QED
        BY <1>8, <2>1, <2>2 DEF Sync
<1>9. CASE Credential(t)
    <2>1. PICK c : c = [calls[t] EXCEPT !.pc = "compliance", !.token = token]
        OBVIOUS
    <2>2. c \in CallState /\ c.pc = "compliance" /\ c.task = calls[t].task /\ c.enr = calls[t].enr
        BY <1>1, <1>3, <2>1, Zenon DEF CallState
    <2>3. calls' = [calls EXCEPT ![t] = c] /\ UNCHANGED enrollInProgress /\ calls[t].pc = "credential"
        BY <1>9, <2>1, Zenon DEF Credential, At
    <2> QED
        BY <1>1, <1>6, <2>2, <2>3, Zenon DEF SyncPcs, SoundCall
<1>10. CASE Compliance(t)
    <2>1. PICK ok \in BOOLEAN : calls' = [calls EXCEPT ![t].pc = "inventory", ![t].ok = ok]
        BY <1>10, Zenon DEF Compliance, Outcomes, Accepted
    <2>2. PICK c : c = [calls[t] EXCEPT !.pc = "inventory", !.ok = ok]
        OBVIOUS
    <2>3. c \in CallState /\ c.pc = "inventory" /\ c.task = calls[t].task /\ c.enr = calls[t].enr
        BY <1>1, <2>2, Zenon DEF CallState
    <2>4. calls' = [calls EXCEPT ![t] = c] /\ UNCHANGED enrollInProgress /\ calls[t].pc = "compliance"
        BY <1>10, <2>1, <2>2, Zenon DEF Compliance, At
    <2> QED
        BY <1>1, <1>6, <2>3, <2>4, Zenon DEF SyncPcs, SoundCall
<1>11. CASE Inventory(t)
    <2>1. PICK next \in {"send", "persist"} :
            calls' = [calls EXCEPT ![t].pc = next, ![t].hash = inventory]
        BY <1>11, Zenon DEF Inventory
    <2>2. PICK c : c = [calls[t] EXCEPT !.pc = next, !.hash = inventory]
        OBVIOUS
    <2>3. c \in CallState /\ c.pc = next /\ c.task = calls[t].task /\ c.enr = calls[t].enr
        BY <1>1, <1>3, <2>1, <2>2, Zenon DEF CallState
    <2>4. calls' = [calls EXCEPT ![t] = c] /\ UNCHANGED enrollInProgress /\ calls[t].pc = "inventory"
        BY <1>11, <2>1, <2>2, Zenon DEF Inventory, At
    <2> QED
        BY <1>1, <1>6, <2>1, <2>3, <2>4, Zenon DEF SyncPcs, SoundCall
<1>12. CASE Send(t)
    <2>1. calls[t].pc = "send" /\ UNCHANGED enrollInProgress
        BY <1>12 DEF Send, At
    <2>2. CASE Goto(t, "persist")
        <3>1. PICK c : c = [calls[t] EXCEPT !.pc = "persist"]
            BY Zenon
        <3>2. c \in CallState /\ c.pc = "persist" /\ c.task = calls[t].task /\ c.enr = calls[t].enr
            BY <1>1, <3>1 DEF CallState
        <3>3. calls' = [calls EXCEPT ![t] = c]
            BY <2>2, <3>1 DEF Goto
        <3> QED
            BY <1>1, <1>6, <2>1, <3>2, <3>3, Zenon DEF SyncPcs, SoundCall
    <2>3. CASE calls' = [calls EXCEPT ![t].pc = "persist", ![t].ok = FALSE, ![t].hash = calls[t].enr.hash]
        <3>1. PICK c : c = [calls[t] EXCEPT !.pc = "persist", !.ok = FALSE, !.hash = calls[t].enr.hash]
            OBVIOUS
        <3>2. calls[t].enr.hash \in Inventories \cup {None}
            BY <1>5, <2>1 DEF SyncPcs
        <3>3. c \in CallState /\ c.pc = "persist" /\ c.task = calls[t].task /\ c.enr = calls[t].enr
            BY <1>1, <3>1, <3>2, Zenon DEF CallState
        <3>4. calls' = [calls EXCEPT ![t] = c]
            BY <2>3, <3>1, Zenon
        <3> QED
            BY <1>1, <1>6, <2>1, <3>3, <3>4, Zenon DEF SyncPcs, SoundCall
    <2> QED
        BY <1>12, <2>2, <2>3, Zenon DEF Send
<1> QED
    BY <1>7, <1>8, <1>9, <1>10, <1>11, <1>12

\* The record of a pass: with an enrollment in memory there is no transition,
\* and the outcome changes neither its token nor its files.
LEMMA SafeRecord ==
    ASSUME EnrollSafe, NEW t \in Threads, Record(t)
    PROVE  EnrollSafe'
<1>1. calls[t] \in CallState /\ calls[t].pc = "persist" /\ ~Transits(calls[t])
    BY CallFacts DEF Record, At, Transits, StartPcs, StopPcs
<1>2. UNCHANGED <<token, tokenFile, policyDir, orgLayers, browser, cpToken, inventory, crashes>>
    BY DEF Record, controlPlane, world
<1>3. PICK c : c = Idle
    OBVIOUS
<1>4. c \in CallState /\ SoundCall(c) /\ ~Transits(c) /\ c.task = "none"
    BY <1>3, IdleIsSound
<1>5. /\ calls' = [calls EXCEPT ![t] = c]
      /\ enrollInProgress' = (enrollInProgress /\ calls[t].task # "transition")
    BY <1>3 DEF Record, Done
<1>6. CASE enrollment = None
    <2>1. UNCHANGED <<enrollment, enrollmentFile>>
        BY <1>6 DEF Record, Persist
    <2> QED
        BY <1>1, <1>2, <1>4, <1>5, <2>1, QuietMoves, Zenon
<1>7. CASE enrollment # None
    <2>1. PICK new : new = Outcome(enrollment, t)
        OBVIOUS
    <2>2. enrollment' = new /\ enrollmentFile' \in {new, enrollmentFile}
        BY <1>7, <2>1 DEF Record, Persist, Saved
    <2>3. enrollment \in EnrollmentRecord
        BY <1>7 DEF EnrollSafe, EnrollTypeOK
    <2>4. Synced(t) \in {None, "success", "unreachable"} /\ calls[t].hash \in Inventories \cup {None}
        BY <1>1 DEF Synced, CallState
    <2>5. /\ new \in EnrollmentRecord /\ new.token = enrollment.token
          /\ new.policyFiles = enrollment.policyFiles
        BY <2>1, <2>3, <2>4, Zenon DEF Outcome, EnrollmentRecord
    <2>6. new # None
        BY <2>5, ConstantsAssumption
    <2>7. EnrollTypeOK'
        <3>1. {enrollment', enrollmentFile'} \subseteq EnrollmentRecord \cup {None}
            BY <2>2, <2>5 DEF EnrollSafe, EnrollTypeOK
        <3>2. calls' \in [Threads -> CallState] /\ enrollInProgress' \in BOOLEAN
            BY <1>4, <1>5 DEF EnrollSafe, EnrollTypeOK
        <3> QED
            BY <1>2, <3>1, <3>2 DEF EnrollSafe, EnrollTypeOK
    <2>8. ASSUME crashes = 0, NEW u \in Threads
          PROVE  ~Transits(calls[u])
        BY <1>7, <2>8, CallFacts DEF Stage
    <2>9. ASSUME crashes = 0, NEW u \in Threads, u # t
          PROVE  Stage(calls[u])'
        <3>1. calls'[u] = calls[u] /\ ~Transits(calls[u])
            BY <1>5, <2>8, <2>9 DEF EnrollSafe, EnrollTypeOK
        <3> QED
            BY <3>1, Zenon DEF Stage, Transits, StartPcs, StopPcs
    <2>10. crashes = 0 => Settled'
        <3>1. crashes = 0 => Settled
            BY <2>8 DEF EnrollSafe
        <3> QED
            BY <1>2, <1>7, <2>2, <2>5, <2>6, <3>1 DEF Settled
    <2>11. crashes = 0 =>
            /\ \A u \in Threads : u # t => Stage(calls[u])'
            /\ Stage(c)'
            /\ ~Transits(c) /\ (\A u \in Threads : u # t => ~Transits(calls[u])) => Settled'
        BY <1>4, <2>9, <2>10, OutsideTransition
    <2>12. calls[t].task = "transition" \/ (enrollInProgress => enrollInProgress')
        BY <1>5, Zenon
    <2> QED
        BY <1>2, <1>4, <1>5, <2>7, <2>11, <2>12, OneMoves, Zenon
<1> QED
    BY <1>6, <1>7

\* Nothing of the device's own changes.
LEMMA SafeElsewhere ==
    ASSUME EnrollSafe, inventory' \in Inventories,
           UNCHANGED <<enrollment, enrollmentFile, token, tokenFile, policyDir, orgLayers, browser,
                       cpToken, crashes, calls, enrollInProgress>>
    PROVE  EnrollSafe'
<1>1. EnrollTypeOK' /\ OneTransition'
    BY DEF EnrollSafe, EnrollTypeOK, OneTransition
<1>2. ASSUME NEW t \in Threads PROVE SoundCall(calls[t])'
    <2>1. SoundCall(calls[t]) /\ calls'[t] = calls[t]
        BY DEF EnrollSafe
    <2> QED
        BY <2>1 DEF SoundCall, Transits
<1>3. ASSUME NEW t \in Threads, Stage(calls[t])
      PROVE  Stage(calls[t])'
    BY <1>3 DEF Stage, Transits
<1>4. Settled => Settled'
    BY DEF Settled
<1>5. \A t \in Threads : Transits(calls[t])' = Transits(calls[t])
    BY DEF Transits
<1> QED
    BY <1>1, <1>2, <1>3, <1>4, <1>5 DEF EnrollSafe

LEMMA SafeRestart ==
    ASSUME EnrollSafe, Restart
    PROVE  EnrollSafe'
<1> DEFINE boot == [Idle EXCEPT !.pc = "sync", !.task = "reconcile"]
<1>1. boot \in CallState /\ boot.pc = "sync" /\ boot.task = "reconcile"
    BY IdleIsSound, Zenon DEF CallState
<1>2. SoundCall(boot)
    BY <1>1 DEF SoundCall, Transits, StartPcs, StopPcs, SyncPcs
<1>3. \A t \in Threads : calls'[t] \in {boot, Idle}
    BY DEF Restart
<1>4. calls' \in [Threads -> CallState]
    BY <1>1, IdleIsSound DEF Restart
<1> HIDE DEF boot
<1>5. EnrollTypeOK' /\ crashes' # 0
    <2>1. crashes' \in Nat /\ crashes' # 0
        BY DEF Restart, EnrollSafe, EnrollTypeOK
    <2>2. /\ enrollment' = enrollmentFile /\ token' = tokenFile /\ enrollInProgress' = FALSE
          /\ UNCHANGED <<enrollmentFile, tokenFile, cpToken, inventory>>
        BY DEF Restart, LoadEnrollment, LoadDeviceToken, controlPlane
    <2> QED
        BY <1>4, <2>1, <2>2, Zenon DEF EnrollSafe, EnrollTypeOK
<1>6. \A t \in Threads : SoundCall(calls'[t]) /\ calls'[t].task # "transition"
    BY <1>1, <1>2, <1>3, IdleIsSound
<1>7. OneTransition'
    BY <1>6 DEF OneTransition
<1> QED
    BY <1>5, <1>6, <1>7, Zenon DEF EnrollSafe

LEMMA InitEnrollSafe ==
    ASSUME Init
    PROVE  EnrollSafe
<1>1. \A t \in Threads : calls[t] = Idle
    BY DEF Init
<1>2. EnrollTypeOK
    BY IdleIsSound, Zenon DEF Init, EnrollTypeOK
<1>3. \A t \in Threads : SoundCall(calls[t]) /\ ~Transits(calls[t]) /\ calls[t].task # "transition"
    BY <1>1, IdleIsSound
<1>4. \A t \in Threads : Stage(calls[t])
    BY <1>3, OutsideTransition
<1>5. OneTransition /\ Settled
    BY <1>3 DEF OneTransition, Settled, Init
<1> QED
    BY <1>2, <1>3, <1>4, <1>5 DEF EnrollSafe

LEMMA StepEnrollSafe ==
    ASSUME "unlink" \notin Faults, EnrollSafe, [Next]_vars
    PROVE  EnrollSafe'
<1>1. inventory \in Inventories
    BY DEF EnrollSafe, EnrollTypeOK
<1>2. CASE UNCHANGED vars
    BY <1>1, <1>2, SafeElsewhere DEF vars
<1>3. CASE (\E i \in Inventories : ChangeInventory(i)) \/ GoDown \/ ComeUp
    BY <1>1, <1>3, SafeElsewhere DEF ChangeInventory, GoDown, ComeUp, memory, files, controlPlane
<1>4. ASSUME NEW t \in Threads, Step(t)
      PROVE  EnrollSafe'
    BY <1>4, SafeRegister, SafeFetch, SafeWritePolicy, SafeRenderBrowser, SafeSaveToken,
       SafeSaveEnrollment, SafeFlip, SafeRemovePolicy, SafeRemoveEnrollment, SafeRemoveToken,
       SafeClear, SafeSync, SafeRecord DEF Step
<1>5. ASSUME NEW t \in Threads, (\E o \in Orgs : EnrollStart(t, o)) \/ EnrollStop(t) \/ Reconcile(t)
      PROVE  EnrollSafe'
    BY <1>5, SafeEnrollStart, SafeEnrollStop, SafeSync
<1> QED
    BY <1>2, <1>3, <1>4, <1>5, SafeRestart DEF Next

UnlinksWork == "unlink" \notin Faults
EnrollInv == UnlinksWork /\ EnrollSafe

\* Where an unlink does what it says: for any number of threads, organizations
\* and registrations, with writes that fail, answers that are lost and outages,
\* the device is enrolled or not whenever no transition runs and punard was not
\* killed (handle_enroll_start, handle_enroll_stop, sync_if_enrolled).
THEOREM EnrolledOrNot == UnlinksWork /\ Spec => []AllOrNothing
<1>1. UnlinksWork /\ Init => EnrollInv
    BY InitEnrollSafe DEF EnrollInv
<1>2. EnrollInv /\ [Next]_vars => EnrollInv'
    BY StepEnrollSafe DEF EnrollInv, UnlinksWork
<1>3. EnrollInv => AllOrNothing
    BY NobodyTransits DEF AllOrNothing, EnrollInv
<1> QED
    BY <1>1, <1>2, <1>3, PTL DEF Spec

-----------------------------------------------------------------------------
(* The start of punard.                                                    *)

StartTypeOK ==
    /\ desired \in {Absent} \cup [Capabilities -> States]
    /\ observed \in [Capabilities -> States]
    /\ defaultsFile \in {Absent} \cup Stores
    /\ preferencesFile \in {Absent} \cup Stores
    /\ idFile \in {Absent} \cup Ids
    /\ run \in [step : {"stopped", "stores", "migrate", "carry", "seed", "serving"},
                prefs : Stores, defaults : Stores, todo : SUBSET Capabilities,
                id : Ids \cup {Absent}]

MemoryIsFile ==
    /\ run.step \in {"migrate", "carry", "seed", "serving"} => run.defaults = Contents(defaultsFile)
    /\ run.step = "carry" => desired # Absent

StartSafe == StartTypeOK /\ MemoryIsFile

\* What SeededOnce asks of one step.
Kept ==
    /\ idFile # Absent => idFile' = idFile
    /\ \A c \in DOMAIN Contents(defaultsFile) :
         /\ c \in DOMAIN Contents(defaultsFile')
         /\ defaultsFile'[c] = defaultsFile[c]

LEMMA StoreFacts ==
    /\ Nothing \in Stores /\ DOMAIN Nothing = {}
    /\ [Capabilities -> States] \subseteq Stores
    /\ \A f \in Stores : DOMAIN f \subseteq Capabilities /\ f # Absent
<1>1. Nothing \in [{} -> States] /\ DOMAIN Nothing = {}
    BY DEF Nothing
<1>2. {} \in SUBSET Capabilities /\ Capabilities \in SUBSET Capabilities
    OBVIOUS
<1>3. \A f \in Stores : DOMAIN f \subseteq Capabilities
    BY DEF Stores
<1> QED
    BY <1>1, <1>2, <1>3, StartAssumption DEF Stores

LEMMA PutFacts ==
    ASSUME NEW f \in Stores, NEW c \in Capabilities, NEW v \in States
    PROVE  /\ Put(f, c, v) \in Stores
           /\ DOMAIN Put(f, c, v) = DOMAIN f \cup {c}
           /\ \A x \in DOMAIN f : x # c => Put(f, c, v)[x] = f[x]
<1>1. PICK D \in SUBSET Capabilities : f \in [D -> States]
    BY DEF Stores
<1>2. D \cup {c} \in SUBSET Capabilities
    OBVIOUS
<1>3. Put(f, c, v) \in [D \cup {c} -> States]
    BY <1>1 DEF Put
<1> QED
    BY <1>1, <1>2, <1>3 DEF Stores, Put

LEMMA ContentsTyped ==
    ASSUME NEW file \in {Absent} \cup Stores
    PROVE  Contents(file) \in Stores
    BY StoreFacts DEF Contents

LEMMA StoppedTyped ==
    Stopped \in [step : {"stopped", "stores", "migrate", "carry", "seed", "serving"},
                 prefs : Stores, defaults : Stores, todo : SUBSET Capabilities,
                 id : Ids \cup {Absent}]
    BY StoreFacts DEF Stopped

LEMMA StartInitSafe == StartInit => StartSafe
    BY StoppedTyped DEF StartInit, StartSafe, StartTypeOK, MemoryIsFile, Stopped

\* A step that leaves the files alone and, past the loading, the defaults too.
LEMMA FilesKept ==
    ASSUME StartSafe, UNCHANGED <<desired, observed, defaultsFile, idFile>>,
           preferencesFile' \in {Absent} \cup Stores,
           run' \in [step : {"stopped", "stores", "migrate", "carry", "seed", "serving"},
                     prefs : Stores, defaults : Stores, todo : SUBSET Capabilities,
                     id : Ids \cup {Absent}],
           run'.step \in {"stopped", "stores"} \/ run'.defaults = Contents(defaultsFile),
           run'.step = "carry" => desired # Absent
    PROVE  StartSafe' /\ Kept
    BY StoreFacts DEF StartSafe, StartTypeOK, MemoryIsFile, Kept, Contents

\* A seed is written only where there is none.
LEMMA SeedKept ==
    ASSUME StartSafe, NEW c \in Capabilities, NEW v \in States,
           run.step \in {"carry", "seed"}, c \notin DOMAIN run.defaults,
           SeedDefault(c, v), UNCHANGED observed
    PROVE  StartSafe' /\ Kept
<1>1. run.defaults \in Stores /\ run.defaults = Contents(defaultsFile)
    BY DEF StartSafe, StartTypeOK, MemoryIsFile
<1> DEFINE new == Put(run.defaults, c, v)
<1>2. new \in Stores /\ new # Absent /\ DOMAIN new = DOMAIN run.defaults \cup {c}
    BY <1>1, PutFacts, StoreFacts
<1>3. \A x \in DOMAIN run.defaults : new[x] = run.defaults[x]
    BY <1>1, PutFacts
<1>4. /\ run' \in [step : {"stopped", "stores", "migrate", "carry", "seed", "serving"},
                   prefs : Stores, defaults : Stores, todo : SUBSET Capabilities,
                   id : Ids \cup {Absent}]
      /\ run'.defaults = new /\ run'.step = run.step
    <2>1. run' = [run EXCEPT !.defaults = new, !.todo = @ \ {c}]
        BY DEF SeedDefault
    <2>2. run.todo \ {c} \in SUBSET Capabilities
        BY DEF StartSafe, StartTypeOK
    <2> HIDE DEF new
    <2> QED
        BY <1>2, <2>1, <2>2 DEF StartSafe, StartTypeOK
<1>5. defaultsFile' = new /\ UNCHANGED <<desired, preferencesFile, idFile>>
    BY DEF SeedDefault
<1> HIDE DEF new
<1>6. Contents(defaultsFile') = new
    BY <1>2, <1>5 DEF Contents
<1>7. StartSafe'
    BY <1>2, <1>4, <1>5, <1>6 DEF StartSafe, StartTypeOK, MemoryIsFile
<1>8. ASSUME NEW x \in DOMAIN Contents(defaultsFile)
      PROVE  defaultsFile # Absent /\ new[x] = defaultsFile[x]
    BY <1>1, <1>3, StoreFacts DEF Contents
<1> QED
    BY <1>1, <1>2, <1>5, <1>6, <1>7, <1>8 DEF Kept

LEMMA StartStep == StartSafe /\ [StartNext]_startVars => StartSafe' /\ [Kept]_startVars
<1> SUFFICES ASSUME StartSafe, [StartNext]_startVars PROVE StartSafe' /\ Kept
    OBVIOUS
<1> DEFINE Runs == [step : {"stopped", "stores", "migrate", "carry", "seed", "serving"},
                    prefs : Stores, defaults : Stores, todo : SUBSET Capabilities,
                    id : Ids \cup {Absent}]
<1> USE DEF startFiles, startWorld, StartAt, StartGoto, Fine
<1>t. /\ run \in Runs /\ Stopped \in Runs /\ Stopped.step = "stopped"
      /\ desired \in {Absent} \cup [Capabilities -> States]
      /\ observed \in [Capabilities -> States]
      /\ preferencesFile \in {Absent} \cup Stores /\ defaultsFile \in {Absent} \cup Stores
    BY StoppedTyped DEF StartSafe, StartTypeOK, Stopped
<1>f. ASSUME UNCHANGED <<desired, observed, defaultsFile, idFile>>,
             preferencesFile' \in {Absent} \cup Stores, run' \in Runs,
             run'.step \in {"stopped", "stores"} \/ run'.defaults = Contents(defaultsFile),
             run'.step = "carry" => desired # Absent
      PROVE  StartSafe' /\ Kept
    BY <1>f, FilesKept
<1>m. /\ run.step \in {"migrate", "carry", "seed", "serving"} => run.defaults = Contents(defaultsFile)
      /\ run.step = "carry" => desired # Absent
    BY DEF StartSafe, MemoryIsFile
<1> HIDE DEF Runs
<1>g. ASSUME GiveUp, UNCHANGED <<desired, observed, preferencesFile, defaultsFile, idFile>>
      PROVE  StartSafe' /\ Kept
    BY <1>f, <1>g, <1>t DEF GiveUp
<1>k. ASSUME NEW c \in Capabilities, Keep(c), UNCHANGED observed,
             run.step \in {"carry", "seed"}
      PROVE  StartSafe' /\ Kept
    <2>1. run' \in Runs /\ run'.defaults = run.defaults /\ run'.step = run.step
        BY <1>t, <1>k DEF Keep, Runs
    <2> QED
        BY <1>f, <1>k, <1>m, <1>t, <2>1 DEF Keep
<1>1. CASE DeviceId
    <2>1. CASE GiveUp /\ UNCHANGED idFile
        BY <1>1, <1>g, <2>1 DEF DeviceId
    <2>2. ASSUME NEW i \in IF idFile = Absent THEN Ids ELSE {idFile},
                 idFile' = i, run' = [Stopped EXCEPT !.step = "stores", !.id = i]
          PROVE  StartSafe' /\ Kept
        <3>1. i \in Ids /\ (idFile # Absent => idFile' = idFile)
            BY <2>2 DEF StartSafe, StartTypeOK
        <3>2. run' \in Runs /\ run'.step = "stores"
            BY <1>t, <2>2, <3>1 DEF Runs
        <3>3. UNCHANGED <<desired, observed, preferencesFile, defaultsFile>>
            BY <1>1 DEF DeviceId
        <3>4. idFile' \in {Absent} \cup Ids
            BY <2>2, <3>1
        <3>5. StartSafe'
            BY <1>t, <3>2, <3>3, <3>4 DEF StartSafe, StartTypeOK, MemoryIsFile, Runs
        <3>6. Kept
            BY <3>1, <3>3 DEF Kept, Contents
        <3> QED
            BY <3>5, <3>6
    <2> QED
        BY <1>1, <2>1, <2>2 DEF DeviceId
<1>2. CASE LoadStores
    <2>1. Contents(preferencesFile) \in Stores /\ Contents(defaultsFile) \in Stores
        BY <1>t, ContentsTyped
    <2>2. run' \in Runs /\ run'.defaults = Contents(defaultsFile) /\ run'.step = "migrate"
        BY <1>2, <1>t, <2>1 DEF LoadStores, Runs
    <2> QED
        BY <1>2, <1>f, <1>t, <2>2 DEF LoadStores
<1>3. CASE BeginMigration
    <2>1. (IF Migrates THEN DOMAIN desired ELSE Seeded) \in SUBSET Capabilities
        BY <1>t DEF Migrates, Seeded
    <2>2. /\ run' \in Runs /\ run'.defaults = run.defaults
          /\ run'.step = "carry" => desired # Absent
        BY <1>3, <1>t, <2>1 DEF BeginMigration, Migrates, Runs
    <2> QED
        BY <1>3, <1>f, <1>m, <1>t, <2>2 DEF BeginMigration
<1>4. CASE FinishMigration
    <2>1. CASE desired' = Absent /\ run' = [run EXCEPT !.step = "seed", !.todo = Seeded]
        <3>1. Seeded \in SUBSET Capabilities
            BY DEF Seeded
        <3>2. run' \in Runs /\ run'.defaults = run.defaults /\ run'.step = "seed"
            BY <1>t, <2>1, <3>1 DEF Runs
        <3> QED
            BY <1>4, <1>m, <1>t, <2>1, <3>2, StoreFacts
            DEF FinishMigration, StartSafe, StartTypeOK, MemoryIsFile, Kept, Contents, Runs
    <2>2. CASE GiveUp /\ UNCHANGED desired
        BY <1>4, <1>g, <2>2 DEF FinishMigration
    <2> QED
        BY <1>4, <2>1, <2>2 DEF FinishMigration
<1>5. CASE Serve
    <2>1. run' \in Runs /\ run'.defaults = run.defaults /\ run'.step = "serving"
        BY <1>5, <1>t DEF Serve, Runs
    <2> QED
        BY <1>5, <1>f, <1>m, <1>t, <2>1 DEF Serve
<1>6. CASE Crash
    BY <1>6, <1>g DEF Crash
<1>7. ASSUME NEW c \in Capabilities, Carry(c)
      PROVE  StartSafe' /\ Kept
    <2>1. CASE GiveUp /\ UNCHANGED startFiles
        BY <1>7, <1>g, <2>1 DEF Carry
    <2>2. CASE Keep(c)
        BY <1>7, <1>k, <2>2 DEF Carry
    <2>3. ASSUME Compiled[c] # Absent, Compiled[c] # desired[c], CarryPreference(c, desired[c])
          PROVE  StartSafe' /\ Kept
        <3>1. desired[c] \in States
            BY <1>7, <1>m, <1>t DEF Carry
        <3>2. Put(run.prefs, c, desired[c]) \in Stores
            BY <1>t, <3>1, PutFacts DEF Runs
        <3>3. run' \in Runs /\ run'.defaults = run.defaults /\ run'.step = run.step
            BY <1>t, <2>3, <3>2 DEF CarryPreference, Runs
        <3> QED
            BY <1>7, <1>f, <1>m, <1>t, <2>3, <3>2, <3>3 DEF Carry, CarryPreference
    <2>4. ASSUME c \notin DOMAIN run.defaults, SeedDefault(c, desired[c])
          PROVE  StartSafe' /\ Kept
        <3>1. desired[c] \in States
            BY <1>7, <1>m, <1>t DEF Carry
        <3> QED
            BY <1>7, <2>4, <3>1, SeedKept DEF Carry
    <2> QED
        BY <1>7, <2>1, <2>2, <2>3, <2>4 DEF Carry
<1>8. ASSUME NEW c \in Capabilities, Seed(c)
      PROVE  StartSafe' /\ Kept
    <2>1. CASE GiveUp /\ UNCHANGED startFiles
        BY <1>8, <1>g, <2>1 DEF Seed
    <2>2. CASE Keep(c)
        BY <1>8, <1>k, <2>2 DEF Seed
    <2>3. ASSUME c \notin DOMAIN run.defaults, SeedDefault(c, observed[c])
          PROVE  StartSafe' /\ Kept
        <3>1. observed[c] \in States
            BY <1>t
        <3> QED
            BY <1>8, <2>3, <3>1, SeedKept DEF Seed
    <2> QED
        BY <1>8, <2>1, <2>2, <2>3 DEF Seed
<1>9. ASSUME NEW c \in Capabilities, NEW v \in States, AdminChanges(c, v)
      PROVE  StartSafe' /\ Kept
    <2>1. observed' \in [Capabilities -> States]
        BY <1>9, <1>t DEF AdminChanges
    <2> QED
        BY <1>9, <2>1, StoreFacts
        DEF AdminChanges, StartSafe, StartTypeOK, MemoryIsFile, Kept, Contents
<1>10. CASE UNCHANGED startVars
    <2>1. UNCHANGED <<desired, observed, defaultsFile, idFile, preferencesFile, run>>
        BY <1>10 DEF startVars
    <2>2. StartSafe'
        BY <2>1 DEF StartSafe, StartTypeOK, MemoryIsFile, Contents
    <2> QED
        BY <2>1, <2>2 DEF Kept, Contents
<1> QED
    BY <1>1, <1>2, <1>3, <1>4, <1>5, <1>6, <1>7, <1>8, <1>9, <1>10 DEF StartNext

\* A device id and a seed that reached the disk are never replaced, for any
\* registry of capabilities, any recorded values and any number of failed
\* writes, crashes and restarts (load_or_create_device_id,
\* OsDefaultsStore::seed, migrate_m3_store).
THEOREM IdentityIsKept == StartSpec => SeededOnce
<1>1. StartSafe /\ [StartNext]_startVars => [Kept]_startVars
    BY StartStep
<1>2. StartSafe /\ [StartNext]_startVars => StartSafe'
    BY StartStep
<1> QED
    BY <1>1, <1>2, StartInitSafe, PTL DEF StartSpec, SeededOnce, Kept
=============================================================================
