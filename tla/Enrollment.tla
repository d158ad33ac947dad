----------------------------- MODULE Enrollment -----------------------------
(***************************************************************************)
(* Enrollment in an organization: enroll.start, enroll.stop and the sync   *)
(* hook of the reconcile pass, over punard's private files (policy.d, the  *)
(* device token, enrollment.json, the rendered browser policy), with the   *)
(* control plane they talk to.                                             *)
(*                                                                         *)
(* A transition holds enroll_in_progress and no other lock; the sync hook  *)
(* of a concurrent pass takes neither.  A step is one file operation, one  *)
(* call to the control plane, or one critical section.                     *)
(***************************************************************************)
EXTENDS Integers, FiniteSets

CONSTANTS
    Orgs,
    PolicyFiles,               \* [organization -> the policy.d files it serves]
    Inventories,
    Threads,
    Boot,                      \* the thread that runs the boot reconcile
    Faults,                    \* which of "write", "unlink", "refused", "lost" occur
    MaxRegistrations, MaxChanges, MaxOutages, MaxCrashes,    \* bounds
    None

VARIABLES
    enrollment, enrollmentFile,          \* in memory; enrollment.json: the token stands for
                                         \* the enrollment it was issued for (enrolled_at)
    token, tokenFile,                    \* in memory; device-token
    policyDir, orgLayers,                \* policy.d; the layers loaded from it
    browser,                             \* the files the browser policy was rendered from
    pendingCompliance, pendingInventory,
    inventory,                           \* what inventory_body would say now
    enrollInProgress,
    calls,                               \* what each thread is doing
    cpToken,                             \* control plane: the token it accepts
    received,                            \* control plane: the last inventory per token
    up,                                  \* the control plane can be reached
    changes, outages, crashes

vars == <<enrollment, enrollmentFile, token, tokenFile, policyDir, orgLayers, browser,
          pendingCompliance, pendingInventory, inventory, enrollInProgress, calls, cpToken,
          received, up, changes, outages, crashes>>

files == <<enrollmentFile, tokenFile, policyDir, browser>>
memory == <<enrollment, token, orgLayers, pendingCompliance, pendingInventory>>
controlPlane == <<cpToken, received>>
world == <<inventory, up, changes, outages, crashes>>

Tokens == 1 .. MaxRegistrations
AllPolicyFiles == UNION {PolicyFiles[o] : o \in Orgs}

\* What is kept of an EnrollmentState, and what a thread holds.
EnrollmentRecord == [token : Tokens, policyFiles : SUBSET AllPolicyFiles,
                     hash : Inventories \cup {None}, result : {None, "success", "unreachable"}]
CallState ==
    [pc : {"idle", "register", "fetch", "policy", "browser", "token", "enrollment", "flip",
           "unpolicy", "unenrollment", "untoken", "clear",
           "sync", "credential", "compliance", "inventory", "send", "persist"},
     task : {"none", "transition", "reconcile"}, org : Orgs \cup {None},
     todo : SUBSET AllPolicyFiles, enr : EnrollmentRecord \cup {None},
     token : Tokens \cup {None}, ok : BOOLEAN, hash : Inventories \cup {None}]

ASSUME ConstantsAssumption ==
    /\ PolicyFiles \in [Orgs -> SUBSET AllPolicyFiles]
    /\ \A o \in Orgs : PolicyFiles[o] # {}
    /\ Boot \in Threads
    /\ Faults \subseteq {"write", "unlink", "refused", "lost"}
    /\ {MaxRegistrations, MaxChanges, MaxOutages, MaxCrashes} \subseteq Nat
    /\ None \notin Inventories /\ None \notin Tokens /\ None \notin EnrollmentRecord

-----------------------------------------------------------------------------
\* Threads.

Idle == [pc |-> "idle", task |-> "none", org |-> None, todo |-> {}, enr |-> None,
         token |-> None, ok |-> FALSE, hash |-> None]

At(t, pc) == calls[t].pc = pc
Goto(t, pc) == calls' = [calls EXCEPT ![t].pc = pc]
\* The handler returns, and a transition's EnrollGuard is dropped.
Done(t) ==
    /\ calls' = [calls EXCEPT ![t] = Idle]
    /\ enrollInProgress' = (enrollInProgress /\ calls[t].task # "transition")

Begin(t, call) ==
    /\ At(t, "idle")
    /\ calls' = [calls EXCEPT ![t] = call]

\* EnrollGuard::acquire
Acquire == ~enrollInProgress /\ enrollInProgress' = TRUE

\* What is left of a set of files after an unlink of each, errors ignored.
Unlinked(dir, gone) ==
    {dir \ gone} \cup (IF "unlink" \in Faults THEN {dir \ s : s \in SUBSET gone} ELSE {})
Removed(file) == {None} \cup (IF "unlink" \in Faults THEN {file} ELSE {})
Cleared(rendered) == {{}} \cup (IF "write" \in Faults THEN {rendered} ELSE {})

Init ==
    /\ enrollment = None /\ enrollmentFile = None
    /\ token = None /\ tokenFile = None
    /\ policyDir = {} /\ orgLayers = {} /\ browser = {}
    /\ pendingCompliance = FALSE /\ pendingInventory = FALSE
    /\ inventory \in Inventories
    /\ enrollInProgress = FALSE
    /\ calls = [t \in Threads |-> Idle]
    /\ cpToken = None
    /\ received = [n \in Tokens |-> None]
    /\ up = TRUE
    /\ changes = 0 /\ outages = 0 /\ crashes = 0

-----------------------------------------------------------------------------
\* enroll.start

EnrollStart(t, o) ==
    /\ Begin(t, [Idle EXCEPT !.pc = "register", !.task = "transition", !.org = o])
    /\ Acquire
    /\ enrollment = None
    /\ UNCHANGED <<memory, files, controlPlane, world>>

\* org.discover and enroll.register: the control plane rotates the token it
\* accepts from this device, also when the answer is lost.
Register(t) ==
    LET issued == IF cpToken = None THEN 1 ELSE cpToken + 1
    IN  /\ At(t, "register")
        /\ \/ /\ up /\ issued \in Tokens
              /\ cpToken' = issued
              /\ \/ /\ calls' = [calls EXCEPT ![t].pc = "fetch", ![t].token = issued]
                    /\ UNCHANGED enrollInProgress
                 \/ "lost" \in Faults /\ Done(t)
           \/ /\ ~up \/ issued \notin Tokens
              /\ Done(t)
              /\ UNCHANGED cpToken
        /\ UNCHANGED <<memory, files, received, world>>

\* policy.fetch and the validation of what it serves, in a staging directory.
Fetch(t) ==
    /\ At(t, "fetch")
    /\ \/ /\ up
          /\ calls' = [calls EXCEPT ![t].pc = "policy", ![t].todo = PolicyFiles[calls[t].org]]
          /\ UNCHANGED enrollInProgress
       \/ /\ ~up \/ "refused" \in Faults
          /\ Done(t)
    /\ UNCHANGED <<memory, files, controlPlane, world>>

\* Each validated file is renamed into policy.d; when one fails they are all
\* removed again.
WritePolicy(t) ==
    /\ At(t, "policy")
    /\ \/ \E f \in calls[t].todo :
            /\ policyDir' = policyDir \cup {f}
            /\ calls' = [calls EXCEPT ![t].todo = @ \ {f},
                            ![t].pc = IF calls[t].todo = {f} THEN "browser" ELSE "policy"]
            /\ UNCHANGED enrollInProgress
       \/ /\ "write" \in Faults
          /\ policyDir' \in Unlinked(policyDir, PolicyFiles[calls[t].org])
          /\ Done(t)
    /\ UNCHANGED <<memory, enrollmentFile, tokenFile, browser, controlPlane, world>>

RenderBrowser(t) ==
    /\ At(t, "browser")
    /\ \/ /\ browser' = PolicyFiles[calls[t].org]
          /\ Goto(t, "token")
          /\ UNCHANGED <<policyDir, enrollInProgress>>
       \/ /\ "write" \in Faults
          /\ policyDir' \in Unlinked(policyDir, PolicyFiles[calls[t].org])
          /\ Done(t)
          /\ UNCHANGED browser
    /\ UNCHANGED <<memory, enrollmentFile, tokenFile, controlPlane, world>>

SaveToken(t) ==
    /\ At(t, "token")
    /\ \/ /\ tokenFile' = calls[t].token
          /\ Goto(t, "enrollment")
          /\ UNCHANGED <<policyDir, browser, enrollInProgress>>
       \/ /\ "write" \in Faults
          /\ policyDir' \in Unlinked(policyDir, PolicyFiles[calls[t].org])
          /\ browser' \in Cleared(browser)
          /\ Done(t)
          /\ UNCHANGED tokenFile
    /\ UNCHANGED <<memory, enrollmentFile, controlPlane, world>>

NewEnrollment(t) == [token |-> calls[t].token, policyFiles |-> PolicyFiles[calls[t].org],
                     hash |-> None, result |-> None]

SaveEnrollment(t) ==
    /\ At(t, "enrollment")
    /\ \/ /\ enrollmentFile' = NewEnrollment(t)
          /\ Goto(t, "flip")
          /\ UNCHANGED <<tokenFile, policyDir, browser, enrollInProgress>>
       \/ /\ "write" \in Faults
          /\ policyDir' \in Unlinked(policyDir, PolicyFiles[calls[t].org])
          /\ tokenFile' \in Removed(tokenFile)
          /\ browser' \in Cleared(browser)
          /\ Done(t)
          /\ UNCHANGED enrollmentFile
    /\ UNCHANGED <<memory, controlPlane, world>>

\* The in-memory state flips, and one full pass follows.
Flip(t) ==
    /\ At(t, "flip")
    /\ token' = calls[t].token
    /\ enrollment' = NewEnrollment(t)
    /\ orgLayers' = PolicyFiles[calls[t].org]
    /\ calls' = [calls EXCEPT ![t] = [Idle EXCEPT !.pc = "sync", !.task = "transition"]]
    /\ UNCHANGED <<pendingCompliance, pendingInventory, files, enrollInProgress, controlPlane, world>>

-----------------------------------------------------------------------------
\* enroll.stop

EnrollStop(t) ==
    /\ enrollment # None
    /\ Begin(t, [Idle EXCEPT !.pc = "unpolicy", !.task = "transition",
                             !.todo = enrollment.policyFiles])
    /\ Acquire
    /\ enrollment' = None
    /\ UNCHANGED <<token, orgLayers, pendingCompliance, pendingInventory, files, controlPlane,
                   world>>

\* Exactly the files this enrollment wrote, one by one; errors are logged.
RemovePolicy(t) ==
    /\ At(t, "unpolicy")
    /\ \E f \in calls[t].todo :
        /\ policyDir' \in Unlinked(policyDir, {f})
        /\ calls' = [calls EXCEPT ![t].todo = @ \ {f},
                        ![t].pc = IF calls[t].todo = {f} THEN "unenrollment" ELSE "unpolicy"]
    /\ UNCHANGED <<memory, enrollmentFile, tokenFile, browser, enrollInProgress, controlPlane,
                   world>>

RemoveEnrollment(t) ==
    /\ At(t, "unenrollment")
    /\ enrollmentFile' \in Removed(enrollmentFile)
    /\ Goto(t, "untoken")
    /\ UNCHANGED <<memory, tokenFile, policyDir, browser, enrollInProgress, controlPlane,
                   world>>

RemoveToken(t) ==
    /\ At(t, "untoken")
    /\ tokenFile' \in Removed(tokenFile)
    /\ Goto(t, "clear")
    /\ UNCHANGED <<memory, enrollmentFile, policyDir, browser, enrollInProgress, controlPlane,
                   world>>

\* The rest of memory, and the pass whose sync hook finds no enrollment.
Clear(t) ==
    /\ At(t, "clear")
    /\ token' = None
    /\ orgLayers' = {}
    /\ browser' \in Cleared(browser)
    /\ pendingCompliance' = FALSE /\ pendingInventory' = FALSE
    /\ calls' = [calls EXCEPT ![t] = [Idle EXCEPT !.pc = "sync", !.task = "transition"]]
    /\ UNCHANGED <<enrollment, enrollmentFile, tokenFile, policyDir, enrollInProgress,
                   controlPlane, world>>

-----------------------------------------------------------------------------
\* sync_if_enrolled, at the end of every pass

Reconcile(t) ==
    /\ Begin(t, [Idle EXCEPT !.pc = "sync", !.task = "reconcile"])
    /\ UNCHANGED <<memory, files, enrollInProgress, controlPlane, world>>

Sync(t) ==
    /\ At(t, "sync")
    /\ \/ enrollment = None /\ Done(t)
       \/ /\ enrollment # None
          /\ calls' = [calls EXCEPT ![t].pc = "credential", ![t].enr = enrollment]
          /\ UNCHANGED enrollInProgress
    /\ UNCHANGED <<memory, files, controlPlane, world>>

Credential(t) ==
    /\ At(t, "credential")
    /\ calls' = [calls EXCEPT ![t].pc = "compliance", ![t].token = token]
    /\ UNCHANGED <<memory, files, enrollInProgress, controlPlane, world>>

\* A report with token n reaches the control plane, and is accepted.
Accepted(n) == up /\ n # None /\ n = cpToken

\* ControlPlaneClient::call, as its caller sees it: an answer that is lost, late
\* or malformed is the same as none.
Outcomes(accepted) == {accepted} \cup (IF "lost" \in Faults THEN {FALSE} ELSE {})

Compliance(t) ==
    /\ At(t, "compliance")
    /\ \E ok \in Outcomes(Accepted(calls[t].token)) :
        /\ pendingCompliance' = ~ok
        /\ calls' = [calls EXCEPT ![t].pc = "inventory", ![t].ok = ok]
    /\ UNCHANGED <<enrollment, token, orgLayers, pendingInventory, files, enrollInProgress,
                   controlPlane, world>>

\* The hash gate: what the enrollment read at the start of the hook says was
\* sent, against what the inventory is now.
Inventory(t) ==
    LET must_send == calls[t].enr.hash # inventory \/ pendingInventory
    IN  /\ At(t, "inventory")
        /\ calls' = [calls EXCEPT ![t].pc = IF must_send THEN "send" ELSE "persist",
                                  ![t].hash = inventory]
        /\ pendingInventory' = (pendingInventory /\ must_send)
        /\ UNCHANGED <<enrollment, token, orgLayers, pendingCompliance, files,
                       enrollInProgress, controlPlane, world>>

Send(t) ==
    LET n == calls[t].token
    IN  /\ At(t, "send")
        /\ received' = IF Accepted(n) THEN [received EXCEPT ![n] = calls[t].hash] ELSE received
        /\ \/ /\ TRUE \in Outcomes(Accepted(n))
              /\ pendingInventory' = FALSE
              /\ Goto(t, "persist")
           \/ /\ FALSE \in Outcomes(Accepted(n))
              /\ pendingInventory' = TRUE
              /\ calls' = [calls EXCEPT ![t].pc = "persist", ![t].ok = FALSE,
                                        ![t].hash = calls[t].enr.hash]
        /\ UNCHANGED <<enrollment, token, orgLayers, pendingCompliance, files,
                       enrollInProgress, cpToken, world>>

Synced(t) == IF calls[t].ok THEN "success" ELSE "unreachable"

\* Mutant: the hash is stored whether the report arrived or not.
OutcomeKeepsNewHash(enr, t) == [enr EXCEPT !.result = Synced(t), !.hash = inventory]
Outcome(enr, t) == [enr EXCEPT !.result = Synced(t), !.hash = calls[t].hash]

\* save_enrollment: write_atomic leaves the new file, or the old one.
Saved(new, old) == {new} \cup (IF "write" \in Faults THEN {old} ELSE {})

\* Mutant: the enrollment read at the start of the hook is written back.
PersistBlindly(t) ==
    /\ enrollment' = Outcome(calls[t].enr, t)
    /\ enrollmentFile' = enrollment'

\* The outcome goes into the enrollment there is now, if there is one; the
\* lock is held while it is saved.
Persist(t) ==
    IF enrollment = None
    THEN UNCHANGED <<enrollment, enrollmentFile>>
    ELSE /\ enrollment' = Outcome(enrollment, t)
         /\ enrollmentFile' \in Saved(enrollment', enrollmentFile)

Record(t) ==
    /\ At(t, "persist")
    /\ Persist(t)
    /\ Done(t)
    /\ UNCHANGED <<token, orgLayers, pendingCompliance, pendingInventory, tokenFile, policyDir,
                   browser, controlPlane, world>>

-----------------------------------------------------------------------------
\* The world: the device changes, the control plane comes and goes, punard
\* is killed and starts again from its files.

ChangeInventory(i) ==
    /\ changes < MaxChanges /\ i # inventory
    /\ inventory' = i /\ changes' = changes + 1
    /\ UNCHANGED <<memory, files, enrollInProgress, calls, controlPlane, up, outages,
                   crashes>>

GoDown ==
    /\ up /\ outages < MaxOutages
    /\ up' = FALSE /\ outages' = outages + 1
    /\ UNCHANGED <<memory, files, enrollInProgress, calls, controlPlane, inventory,
                   changes, crashes>>

ComeUp ==
    /\ ~up /\ up' = TRUE
    /\ UNCHANGED <<memory, files, enrollInProgress, calls, controlPlane, inventory,
                   changes, outages, crashes>>

LoadEnrollment == enrollmentFile
LoadDeviceToken == tokenFile
Restart ==
    /\ crashes < MaxCrashes
    /\ crashes' = crashes + 1
    /\ enrollment' = LoadEnrollment
    /\ token' = LoadDeviceToken
    /\ orgLayers' = policyDir
    /\ browser' = policyDir
    /\ pendingCompliance' = FALSE /\ pendingInventory' = FALSE
    /\ enrollInProgress' = FALSE
    /\ calls' = [t \in Threads |-> IF t = Boot THEN [Idle EXCEPT !.pc = "sync",
                                                                !.task = "reconcile"] ELSE Idle]
    /\ UNCHANGED <<enrollmentFile, tokenFile, policyDir, controlPlane, inventory, up,
                   changes, outages>>

Step(t) ==
    \/ Register(t) \/ Fetch(t) \/ WritePolicy(t) \/ RenderBrowser(t) \/ SaveToken(t)
    \/ SaveEnrollment(t) \/ Flip(t)
    \/ RemovePolicy(t) \/ RemoveEnrollment(t) \/ RemoveToken(t) \/ Clear(t)
    \/ Sync(t) \/ Credential(t) \/ Compliance(t) \/ Inventory(t) \/ Send(t) \/ Record(t)

Next ==
    \/ \E t \in Threads :
        \/ \E o \in Orgs : EnrollStart(t, o)
        \/ EnrollStop(t)
        \/ Reconcile(t)
        \/ Step(t)
    \/ \E i \in Inventories : ChangeInventory(i)
    \/ GoDown \/ ComeUp \/ Restart

Spec == Init /\ [][Next]_vars

-----------------------------------------------------------------------------
Settled ==
    IF enrollment = None
    THEN /\ enrollmentFile = None /\ tokenFile = None /\ policyDir = {}
         /\ token = None /\ orgLayers = {}
    ELSE /\ enrollmentFile # None
         /\ enrollment.token = enrollmentFile.token
         /\ enrollment.token = token /\ enrollment.token = tokenFile
         /\ enrollment.token = cpToken
         /\ policyDir = enrollment.policyFiles /\ orgLayers = policyDir /\ browser = policyDir

\* Between transitions the device is enrolled or it is not: memory, the
\* three stores, the loaded layers and the control plane's token agree, or
\* there is nothing at all (handle_enroll_start's roll-backs,
\* handle_enroll_stop, and sync_if_enrolled beside them).  A punard that is
\* killed in the middle of a transition leaves what it had written.
AllOrNothing == crashes = 0 /\ ~enrollInProgress => Settled
=============================================================================
