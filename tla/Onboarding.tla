----------------------------- MODULE Onboarding -----------------------------
(***************************************************************************)
(* The first account of a device and the recovery of its password          *)
(* (punar-onboard).  systemd starts one root process per connection; each  *)
(* first materializes the stored identity into /run, then serves one       *)
(* request: create the account, as a journalled transaction that is rolled *)
(* back when a step fails, or redeem the recovery code.  The same          *)
(* materialization runs at boot, before the greeter.  A process may be     *)
(* killed and the machine may stop between any two steps; /run is lost     *)
(* with the machine.                                                       *)
(***************************************************************************)
EXTENDS Naturals, FiniteSets

CONSTANTS
    NoValue, Old, \* no home directory; one that was there before
    Accounts,     \* account ids create_first_account may draw
    Dialogs,      \* connections served by a process each
    MaxAttempts,  \* RECOVERY_MAX_ATTEMPTS
    MaxOthers,    \* bound on requests other than valid creations
    MaxSetbacks   \* bound on failed steps, killed processes and restarts

BootUnit == "boot" \* punar-identity-materialize.service

Processes == Dialogs \cup {BootUnit}

VARIABLES
    marker, journal, \* completed.json, transaction.json: NoValue or an account
    dirs,            \* accounts/: "none", "stage" or "placed"
    home, homeStages, \* /home/<user>, and the staged homes
    device,          \* device.json exists
    hostname,        \* "original" or "chosen"
    stored,          \* resets of the stored password hash, per account
    recovery,        \* recovery.json, per account
    userdb,          \* /run/userdb: NoValue or the account and its password
    projection,      \* what the greeter reads: "open" or "complete"
    token,           \* the first-session token: NoValue or an account
    ready,           \* the greeter may start: "no", "yes", "failed"
    procs,           \* what each process is doing
    damaged,         \* history: a removal failed and was ignored
    unsynced,        \* history: the marker was renamed into place, and then failed
    judged,          \* history: codes compared, per account
    others, setbacks

\* validate_account and the frame's checks accept a request or they do not.
Requests == {"create", "redeem", "invalid"}

onboardVars == <<marker, journal, dirs, home, homeStages, device, hostname, stored,
                 recovery, userdb, projection, token, ready, procs, damaged,
                 unsynced, judged, others, setbacks>>

Disk == <<marker, journal, dirs, home, homeStages, device, hostname, stored, recovery>>
Run  == <<userdb, projection, token, ready>>
Rest == <<damaged, unsynced, judged, others>>

NoProcess == [op |-> "none", step |-> "idle", acct |-> NoValue, then |-> "idle", seen |-> 0]

Fresh == [attempts |-> 0, used |-> FALSE]

OnboardInit(homes) ==
    /\ marker = NoValue /\ journal = NoValue
    /\ dirs = [a \in Accounts |-> "none"]
    /\ home \in homes /\ homeStages = {}
    /\ device = FALSE /\ hostname = "original"
    /\ stored = [a \in Accounts |-> 0]
    /\ recovery = [a \in Accounts |-> Fresh]
    /\ userdb = NoValue /\ projection = "open" /\ token = NoValue
    /\ ready = "yes"
    /\ procs = [p \in Processes |-> NoProcess]
    /\ damaged = FALSE /\ unsynced = FALSE
    /\ judged = [a \in Accounts |-> 0]
    /\ others = 0 /\ setbacks = 0

Fault == setbacks < MaxSetbacks /\ setbacks' = setbacks + 1

\* A removal whose failure is ignored, and one that worked.
Ignored == Fault /\ damaged' = TRUE

Kept == UNCHANGED <<damaged, setbacks>>

Go(p, step) == procs' = [procs EXCEPT ![p].step = step]

End(p) == procs' = [procs EXCEPT ![p] = NoProcess]

Quiet == \A p \in Processes : procs[p].step = "idle"

(***************************************************************************)
(* session: a connection of the greeter, once the boot unit has succeeded. *)
(***************************************************************************)
Connect(p, op) ==
    /\ ready = "yes" /\ p # BootUnit
    /\ procs[p].step = "idle"
    /\ op # "create" => others < MaxOthers
    /\ others' = IF op = "create" THEN others ELSE others + 1
    /\ procs' = [procs EXCEPT ![p] = [op |-> op, step |-> "materialize",
                                      acct |-> NoValue, then |-> "idle", seen |-> 0]]
    /\ UNCHANGED <<Disk, Run, damaged, unsynced, judged, setbacks>>

(***************************************************************************)
(* materialize: an unfinished transaction is rolled back, a finished one's *)
(* journal is dropped, then /run is rebuilt from what is stored.           *)
(***************************************************************************)
Materialize(p) ==
    /\ procs[p].step = "materialize"
    /\ IF journal # NoValue /\ marker = NoValue
       THEN /\ procs' = [procs EXCEPT ![p] = [@ EXCEPT !.step = "rbDir", !.acct = journal,
                                                      !.then = "rebuild"]]
            /\ UNCHANGED journal /\ Kept
       ELSE /\ Go(p, "rebuild")
            /\ \/ journal' = NoValue /\ Kept
               \/ journal # NoValue /\ Ignored /\ UNCHANGED journal
    /\ UNCHANGED <<marker, dirs, home, homeStages, device, hostname, stored, recovery,
                   Run, unsynced, judged, others>>

Failed(p) == /\ End(p)
             /\ ready' = IF p = BootUnit THEN "failed" ELSE ready

\* After materialize: the boot unit is done, a session reads its request.
Served(p) == CASE procs[p].op = "boot"    -> "up"
               [] procs[p].op = "create"  -> "recover"
               [] procs[p].op = "redeem"  -> "find"
               [] procs[p].op = "invalid" -> "refused"

Rebuild(p) ==
    /\ procs[p].step = "rebuild"
    /\ \/ /\ marker = NoValue
          /\ projection' = "open"
          /\ Go(p, Served(p))
          /\ UNCHANGED <<ready, setbacks>>
       \/ /\ marker # NoValue
          /\ IF dirs[marker] = "placed" /\ device
             THEN /\ procs' = [procs EXCEPT ![p] = [@ EXCEPT !.step = "runtime", !.acct = marker,
                                                            !.then = Served(p)]]
                  /\ UNCHANGED ready
             ELSE Failed(p)
          /\ UNCHANGED <<projection, setbacks>>
       \/ Fault /\ Failed(p) /\ UNCHANGED projection
    /\ UNCHANGED <<Disk, userdb, token, Rest>>

\* A failed step ends a materialization, and rolls a creation back.
StepFails(p) ==
    /\ Fault
    /\ IF procs[p].op = "create" /\ procs[p].then # Served(p)
       THEN /\ procs' = [procs EXCEPT ![p] = [@ EXCEPT !.step = "rbDir", !.then = "refused"]]
            /\ UNCHANGED ready
       ELSE Failed(p)

(***************************************************************************)
(* materialize_account: the user, its password and its groups in /run, and *)
(* last what the greeter reads.                                            *)
(***************************************************************************)
MaterializeAccount(p) ==
    LET a == procs[p].acct IN
    /\ procs[p].step = "runtime"
    /\ \/ /\ userdb' = [acct |-> a, password |-> stored[a]]
          /\ Go(p, "project") /\ UNCHANGED <<ready, setbacks>>
       \/ StepFails(p) /\ userdb' \in {userdb, [acct |-> a, password |-> stored[a]]}
    /\ UNCHANGED <<Disk, projection, token, Rest>>

Project(p) ==
    /\ procs[p].step = "project"
    /\ projection' = "complete"
    /\ Go(p, procs[p].then)
    /\ UNCHANGED <<Disk, userdb, token, ready, Rest, setbacks>>

BootDone ==
    /\ procs[BootUnit].step = "up"
    /\ End(BootUnit) /\ ready' = "yes"
    /\ UNCHANGED <<Disk, userdb, projection, token, Rest, setbacks>>

(***************************************************************************)
(* create_first_account.  An unfinished transaction found here is rolled   *)
(* back as well; then an existing account, or a user of that name, refuses *)
(* the request before anything is written.                                 *)
(***************************************************************************)
Recover(p) ==
    /\ procs[p].step = "recover"
    /\ IF journal # NoValue
       THEN procs' = [procs EXCEPT ![p] = [@ EXCEPT !.step = "rbDir", !.acct = journal,
                                                    !.then = "check"]]
       ELSE Go(p, "check")
    /\ UNCHANGED <<Disk, Run, Rest, setbacks>>

Check(p) ==
    /\ procs[p].step = "check"
    /\ \/ /\ marker # NoValue \/ userdb # NoValue
          /\ Go(p, "refused") /\ UNCHANGED setbacks
       \/ Fault /\ Go(p, "refused") \* no id free, no admission group, hashing
       \/ /\ marker = NoValue /\ userdb = NoValue
          /\ \E a \in Accounts :
                /\ dirs[a] = "none" /\ a \notin homeStages
                /\ procs' = [procs EXCEPT ![p] = [@ EXCEPT !.step = "journal", !.acct = a,
                                                            !.then = "refused"]]
          /\ UNCHANGED setbacks
    /\ UNCHANGED <<Disk, Run, Rest>>

WriteJournal(p) ==
    /\ procs[p].step = "journal"
    /\ \/ journal' = procs[p].acct /\ Go(p, "stage") /\ UNCHANGED setbacks
       \/ Fault /\ Go(p, "refused") /\ UNCHANGED journal
    /\ UNCHANGED <<marker, dirs, home, homeStages, device, hostname, stored, recovery,
                   Run, Rest>>

\* commit_account: the records in a staged directory, the staged home, both
\* renamed into place.  A home of that name fails the transaction.
StageAccount(p) ==
    LET a == procs[p].acct IN
    /\ procs[p].step = "stage"
    /\ \/ /\ home = NoValue
          /\ dirs' = [dirs EXCEPT ![a] = "stage"]
          /\ stored' = [stored EXCEPT ![a] = 0]
          /\ recovery' = [recovery EXCEPT ![a] = Fresh]
          /\ judged' = [judged EXCEPT ![a] = 0]
          /\ Go(p, "stageHome") /\ UNCHANGED <<ready, setbacks>>
       \/ /\ home # NoValue
          /\ procs' = [procs EXCEPT ![p] = [@ EXCEPT !.step = "rbDir", !.then = "refused"]]
          /\ UNCHANGED <<dirs, stored, recovery, judged, ready, setbacks>>
       \/ StepFails(p) /\ UNCHANGED <<dirs, stored, recovery, judged>>
    /\ UNCHANGED <<marker, journal, home, homeStages, device, hostname,
                   userdb, projection, token, damaged, unsynced, others>>

\* A variant that commits before the account is materialized.
MarkerFirst(p) ==
    /\ procs[p].step = "stageHome"
    /\ marker' = procs[p].acct
    /\ Go(p, "placeDir")
    /\ homeStages' = homeStages \cup {procs[p].acct}
    /\ UNCHANGED <<journal, dirs, home, device, hostname, stored, recovery,
                   Run, Rest, setbacks>>

\* system_create_home: the directory is there even when filling it fails.
CreateHome(a) == homeStages' = homeStages \cup {a}

StageHome(p) ==
    /\ procs[p].step = "stageHome"
    /\ CreateHome(procs[p].acct)
    /\ \/ Go(p, "placeDir") /\ UNCHANGED <<ready, setbacks>>
       \/ StepFails(p)
    /\ UNCHANGED <<marker, journal, dirs, home, device, hostname, stored, recovery,
                   userdb, projection, token, Rest>>

PlaceAccount(p) ==
    /\ procs[p].step = "placeDir"
    /\ \/ /\ dirs' = [dirs EXCEPT ![procs[p].acct] = "placed"]
          /\ Go(p, "placeHome") /\ UNCHANGED <<ready, setbacks>>
       \/ StepFails(p) /\ UNCHANGED dirs
    /\ UNCHANGED <<marker, journal, home, homeStages, device, hostname, stored, recovery,
                   userdb, projection, token, Rest>>

PlaceHome(p) ==
    /\ procs[p].step = "placeHome"
    /\ \/ /\ procs[p].acct \in homeStages
          /\ home' = procs[p].acct
          /\ homeStages' = homeStages \ {procs[p].acct}
          /\ Go(p, "device") /\ UNCHANGED <<ready, setbacks>>
       \/ StepFails(p) /\ UNCHANGED <<home, homeStages>>
    /\ UNCHANGED <<marker, journal, dirs, device, hostname, stored, recovery,
                   userdb, projection, token, Rest>>

WriteDevice(p) ==
    /\ procs[p].step = "device"
    /\ \/ device' = TRUE /\ Go(p, "hostname") /\ UNCHANGED <<ready, setbacks>>
       \/ StepFails(p) /\ UNCHANGED device
    /\ UNCHANGED <<marker, journal, dirs, home, homeStages, hostname, stored, recovery,
                   userdb, projection, token, Rest>>

\* punarctl capabilities set system.hostname: it may fail having done it.
SetHostname(p) ==
    /\ procs[p].step = "hostname"
    /\ \/ /\ hostname' = "chosen"
          /\ procs' = [procs EXCEPT ![p] = [@ EXCEPT !.step = "runtime", !.then = "token"]]
          /\ UNCHANGED <<ready, setbacks>>
       \/ StepFails(p) /\ hostname' \in {hostname, "chosen"}
    /\ UNCHANGED <<marker, journal, dirs, home, homeStages, device, stored, recovery,
                   userdb, projection, token, Rest>>

CreateToken(p) ==
    /\ procs[p].step = "token"
    /\ \/ token' = procs[p].acct /\ Go(p, "marker") /\ UNCHANGED <<ready, setbacks>>
       \/ StepFails(p) /\ UNCHANGED token
    /\ UNCHANGED <<Disk, userdb, projection, Rest>>

\* The commit point.  The write may fail before its rename, or after it.
WriteMarker(p) ==
    /\ procs[p].step = "marker"
    /\ \/ marker' = procs[p].acct /\ Go(p, "unjournal") /\ UNCHANGED <<ready, setbacks, unsynced>>
       \/ StepFails(p) /\ UNCHANGED <<marker, unsynced>>
       \/ StepFails(p) /\ marker' = procs[p].acct /\ unsynced' = TRUE
    /\ UNCHANGED <<journal, dirs, home, homeStages, device, hostname, stored, recovery,
                   userdb, projection, token, damaged, judged, others>>

DropJournal(p) ==
    /\ procs[p].step = "unjournal"
    /\ \/ journal' = NoValue /\ UNCHANGED setbacks
       \/ Fault /\ UNCHANGED journal
    /\ Go(p, "created")
    /\ UNCHANGED <<marker, dirs, home, homeStages, device, hostname, stored, recovery,
                   Run, Rest>>

(***************************************************************************)
(* rollback, step by step; the outcome of every removal is ignored.        *)
(***************************************************************************)
RollBackDir(p) ==
    /\ procs[p].step = "rbDir"
    /\ \/ dirs' = [dirs EXCEPT ![procs[p].acct] = IF @ = "placed" THEN "none" ELSE @] /\ Kept
       \/ Ignored /\ UNCHANGED dirs
    /\ Go(p, "rbHome")
    /\ UNCHANGED <<marker, journal, home, homeStages, device, hostname, stored, recovery,
                   Run, unsynced, judged, others>>

\* /home/<user> is deleted, whoever it belonged to.
RollBackHome(p) ==
    /\ procs[p].step = "rbHome"
    /\ \/ home' = NoValue /\ Kept
       \/ Ignored /\ UNCHANGED home
    /\ Go(p, "rbRest")
    /\ UNCHANGED <<marker, journal, dirs, homeStages, device, hostname, stored, recovery,
                   Run, unsynced, judged, others>>

\* The staged directories, device.json, the token.
RollBackRest(p) ==
    LET a == procs[p].acct IN
    /\ procs[p].step = "rbRest"
    /\ dirs' = [dirs EXCEPT ![a] = IF @ = "stage" THEN "none" ELSE @]
    /\ homeStages' = homeStages \ {a}
    /\ device' = FALSE
    /\ token' = NoValue
    /\ Go(p, "rbMarker")
    /\ UNCHANGED <<marker, journal, home, hostname, stored, recovery,
                   userdb, projection, ready, Rest, setbacks>>

RollBackMarker(p) ==
    /\ procs[p].step = "rbMarker"
    /\ marker' = NoValue
    /\ Go(p, "rbRuntime")
    /\ UNCHANGED <<journal, dirs, home, homeStages, device, hostname, stored, recovery,
                   Run, Rest, setbacks>>

\* A variant that leaves /run alone.
RollBackDiskOnly(p) ==
    /\ procs[p].step = "rbRuntime"
    /\ projection' = "open"
    /\ Go(p, "rbHost")
    /\ UNCHANGED <<Disk, userdb, token, ready, Rest, setbacks>>

\* runtime_paths_for: every name the transaction may have put in /run.
RollBackRuntime(p) ==
    /\ procs[p].step = "rbRuntime"
    /\ \/ userdb' = NoValue /\ Kept
       \/ Ignored /\ UNCHANGED userdb
    /\ projection' = "open"
    /\ Go(p, "rbHost")
    /\ UNCHANGED <<Disk, token, ready, unsynced, judged, others>>

RollBackHostname(p) ==
    /\ procs[p].step = "rbHost"
    /\ \/ hostname' = "original" /\ Kept
       \/ Ignored /\ UNCHANGED hostname
    /\ Go(p, "rbJournal")
    /\ UNCHANGED <<marker, journal, dirs, home, homeStages, device, stored, recovery,
                   Run, unsynced, judged, others>>

RollBackJournal(p) ==
    /\ procs[p].step = "rbJournal"
    /\ journal' = NoValue
    /\ Go(p, procs[p].then)
    /\ UNCHANGED <<marker, dirs, home, homeStages, device, hostname, stored, recovery,
                   Run, Rest, setbacks>>

(***************************************************************************)
(* redeem_recovery: the attempt is written down before the code is judged, *)
(* the code is written down as used before the password changes, and the   *)
(* change is then made live in /run.  The session works on the record it   *)
(* read.                                                                   *)
(***************************************************************************)
\* find_recovery_record: the first directory with a record of that name.
Records == {a \in Accounts : dirs[a] # "none"}

FindRecord(p) ==
    /\ procs[p].step = "find"
    /\ \/ \E a \in Records :
             IF recovery[a].used \/ recovery[a].attempts >= MaxAttempts
                THEN Go(p, "refused")
                ELSE procs' = [procs EXCEPT ![p] = [@ EXCEPT !.step = "spend", !.acct = a,
                                                            !.seen = recovery[a].attempts]]
       \/ Records = {} /\ Go(p, "refused")
    /\ UNCHANGED <<Disk, Run, Rest, setbacks>>

SpendAttempt(p) ==
    /\ procs[p].step = "spend"
    /\ \/ /\ recovery' = [recovery EXCEPT ![procs[p].acct].attempts = procs[p].seen + 1]
          /\ Go(p, "judge") /\ UNCHANGED setbacks
       \/ Fault /\ Go(p, "refused") /\ UNCHANGED recovery
    /\ UNCHANGED <<marker, journal, dirs, home, homeStages, device, hostname, stored,
                   Run, Rest>>

JudgeCode(p) ==
    /\ procs[p].step = "judge"
    /\ judged' = [judged EXCEPT ![procs[p].acct] = @ + 1]
    /\ \/ Go(p, "use")
       \/ Go(p, "refused")
    /\ UNCHANGED <<Disk, Run, damaged, unsynced, others, setbacks>>

UseCode(p) ==
    /\ procs[p].step = "use"
    /\ \/ /\ recovery' = [recovery EXCEPT ![procs[p].acct].used = TRUE]
          /\ Go(p, "password") /\ UNCHANGED setbacks
       \/ Fault /\ Go(p, "refused") /\ UNCHANGED recovery
    /\ UNCHANGED <<marker, journal, dirs, home, homeStages, device, hostname, stored,
                   Run, Rest>>

SetPassword(p) ==
    /\ procs[p].step = "password"
    /\ \/ /\ stored' = [stored EXCEPT ![procs[p].acct] = @ + 1]
          /\ Go(p, "live") /\ UNCHANGED setbacks
       \/ Fault /\ Go(p, "refused") /\ UNCHANGED stored
    /\ UNCHANGED <<marker, journal, dirs, home, homeStages, device, hostname, recovery,
                   Run, Rest>>

MakeLive(p) ==
    LET a == procs[p].acct IN
    /\ procs[p].step = "live"
    /\ \/ /\ userdb' = [acct |-> a, password |-> stored[a]]
          /\ Go(p, "redeemed") /\ UNCHANGED setbacks
       \/ Fault /\ Go(p, "refused") /\ UNCHANGED userdb
    /\ UNCHANGED <<Disk, projection, token, ready, Rest>>

\* The answer, which may be lost; a chosen timezone is applied best-effort.
Answer(p) ==
    /\ procs[p].step \in {"created", "refused"} /\ procs[p].op # "redeem"
    /\ End(p)
    /\ UNCHANGED <<Disk, Run, Rest, setbacks>>

AnswerRedeem(p) ==
    /\ procs[p].step \in {"redeemed", "refused"} /\ procs[p].op = "redeem"
    /\ End(p)
    /\ UNCHANGED <<Disk, Run, Rest, setbacks>>

\* consume_first_login: PAM takes the token of a session after creation.
FirstLogin ==
    /\ token # NoValue /\ ready = "yes"
    /\ token' = NoValue
    /\ UNCHANGED <<Disk, userdb, projection, ready, procs, Rest, setbacks>>

Killed(p) ==
    /\ procs[p].step # "idle" /\ Fault
    /\ Failed(p)
    /\ UNCHANGED <<Disk, userdb, projection, token, Rest>>

\* A machine whose boot unit failed has no greeter, and is started again.
Reboot ==
    /\ IF ready = "failed" THEN UNCHANGED setbacks ELSE Fault
    /\ procs' = [p \in Processes |-> IF p = BootUnit THEN [NoProcess EXCEPT !.op = "boot",
                                                          !.step = "materialize"] ELSE NoProcess]
    /\ userdb' = NoValue /\ projection' = "open" /\ token' = NoValue /\ ready' = "no"
    /\ UNCHANGED <<Disk, Rest>>

OnboardStep(p) ==
    \/ Materialize(p) \/ Rebuild(p) \/ MaterializeAccount(p) \/ Project(p)
    \/ Recover(p) \/ Check(p) \/ WriteJournal(p) \/ StageAccount(p) \/ StageHome(p)
    \/ PlaceAccount(p) \/ PlaceHome(p) \/ WriteDevice(p) \/ SetHostname(p)
    \/ CreateToken(p) \/ WriteMarker(p) \/ DropJournal(p)
    \/ RollBackDir(p) \/ RollBackHome(p) \/ RollBackRest(p) \/ RollBackMarker(p)
    \/ RollBackRuntime(p) \/ RollBackHostname(p) \/ RollBackJournal(p)
    \/ FindRecord(p) \/ SpendAttempt(p) \/ JudgeCode(p) \/ UseCode(p)
    \/ SetPassword(p) \/ MakeLive(p) \/ Answer(p) \/ AnswerRedeem(p)

OnboardNext ==
    \/ \E p \in Processes :
          OnboardStep(p) \/ Killed(p) \/ (\E op \in Requests : Connect(p, op))
    \/ BootDone \/ FirstLogin \/ Reboot

(***************************************************************************)
(* The completion marker stands for a whole account: its records, home and *)
(* device name are in place, so the boot that follows can materialize it   *)
(* and the greeter starts.  No failed step, killed process or restart in   *)
(* the transaction, its rollback or the recovery at boot leaves a marker   *)
(* without its account.                                                    *)
(***************************************************************************)
NeverHalfCreated ==
    marker # NoValue /\ ~unsynced /\ ~damaged =>
        dirs[marker] = "placed" /\ home = marker /\ device

(***************************************************************************)
(* A refused creation, or one whose machine stopped and came back, leaves  *)
(* nothing behind: no account, home, name, user in /run, token or marker.  *)
(***************************************************************************)
NothingLeft ==
    /\ \A a \in Accounts : dirs[a] = "none"
    /\ home = NoValue /\ homeStages = {} /\ ~device
    /\ hostname = "original" /\ userdb = NoValue /\ token = NoValue /\ projection = "open"

FailureLeavesNothing ==
    /\ ready = "yes" /\ marker = NoValue /\ journal = NoValue /\ ~damaged
    /\ \A p \in Processes : procs[p].step \in {"idle", "refused"}
    => NothingLeft

(***************************************************************************)
(* Every code that is judged was first counted against the record, through *)
(* any kill, restart or failed write, and a stored password that was reset *)
(* stands beside a used code, never a live one.                            *)
(***************************************************************************)
AttemptsAreCounted ==
    \A a \in Accounts : dirs[a] = "placed" =>
        /\ judged[a] <= recovery[a].attempts
        /\ recovery[a].attempts <= MaxAttempts
        /\ stored[a] > 0 => recovery[a].used
        /\ stored[a] <= 1

(***************************************************************************)
(* A success that is answered is live: the new account, or the new         *)
(* password, is what the next sign-in is checked against.                  *)
(***************************************************************************)
SuccessIsLive ==
    \A p \in Processes :
        procs[p].step \in {"created", "redeemed"} =>
            /\ userdb # NoValue
            /\ userdb.acct = procs[p].acct /\ userdb.password = stored[procs[p].acct]

(***************************************************************************)
(* An account is there whole or not at all, and its recovery code is spent *)
(* as it says (punar-onboardd, across every kill and restart).             *)
(***************************************************************************)
AccountsSound ==
    NeverHalfCreated /\ FailureLeavesNothing /\ AttemptsAreCounted /\ SuccessIsLive
=============================================================================
