------------------------------- MODULE WebApps -------------------------------
(***************************************************************************)
(* Installed web applications and browser contexts of one user.  punard    *)
(* keeps the records (webapps.rs): one file per application and context,   *)
(* icon bytes in files named after their digest, shared by applications    *)
(* with one icon.  Changes hold webapp_mutation; reads do not.  punarctl   *)
(* (webapps.rs) asks for a change over the socket and then rebuilds what   *)
(* it derives in the user's home: launchers, browser profiles, the active  *)
(* context.  Several punarctl commands may run at once; the daemon may     *)
(* stop in the middle of a change and a command may be interrupted.        *)
(***************************************************************************)
EXTENDS ApplicationPolicy

CONSTANTS
    Icons,        \* digests of icon images
    UserContexts, \* contexts a person may create
    Commands,     \* running punarctl processes
    MaxWebCalls,  \* bound on commands started
    MaxWebFaults  \* bound on failed writes, interruptions and restarts

Personal == "personal"
Org == "org"

Contexts == UserContexts \cup {Personal, Org}

VARIABLES
    records,   \* apps/<id>.json: None or the application's identity and icon
    blobs,     \* icons/<digest>.png that exist
    contexts,  \* contexts/<id>.json that exist
    webRules,  \* the organisation's layers; None when not enrolled
    webLock,   \* webapp_mutation
    webJobs,   \* what each command is doing
    launchers, \* ~/.local/share/applications: the icon of each launcher
    profiles,  \* browser profile directories
    active,    \* the active context in ~/.local/state
    synced,    \* history: a sync finished with nothing else going on since its list
    webCalls, webFaults

webDaemon == <<records, blobs, contexts>>
webHome   == <<launchers, profiles, active>>
webVars   == <<webDaemon, webHome, webRules, webLock, webJobs, synced, webCalls, webFaults>>

WebIdle == [step |-> "idle"]

\* One command: the application and record it is about, the context to purge,
\* the lists it read, whether it ran alone, and what follows the daemon call.
WebJob(step, id, rec, then) ==
    [step |-> step, id |-> id, rec |-> rec, purge |-> None,
     ids |-> {}, known |-> {}, alone |-> FALSE, then |-> then]

WebInit(rules) ==
    /\ records = [id \in WebIds |-> None]
    /\ blobs = {}
    /\ contexts = {Personal}
    /\ webRules = rules
    /\ webLock = None
    /\ webJobs = [c \in Commands |-> WebIdle]
    /\ launchers = [id \in WebIds |-> None]
    /\ profiles = {}
    /\ active = Personal
    /\ synced = FALSE
    /\ webCalls = 0 /\ webFaults = 0

WebFault == webFaults < MaxWebFaults /\ webFaults' = webFaults + 1

WebStep(c, step) == webJobs' = [webJobs EXCEPT ![c].step = step]

Alone(c) == \A other \in Commands \ {c} : webJobs[other].step = "idle"

\* History: a change of the records or of the enrolment outdates what a sync
\* built, and a command that starts, or a new policy, outdates a list read.
Disturbed == synced' = FALSE

Interrupted(jobs) ==
    [c \in Commands |-> IF jobs[c].step = "idle" THEN jobs[c]
                        ELSE [jobs[c] EXCEPT !.alone = FALSE]]

\* webapps.list: the org context exists exactly while the device is enrolled.
Known == contexts \cup (IF webRules = None THEN {} ELSE {Org})

Installed == {id \in WebIds : records[id] # None}

Identity(rec) == <<rec.origin, rec.context>>

(***************************************************************************)
(* webapp_install_policy, before the lock: the ladder's word on this       *)
(* application and origin.  A required application is installed as managed.*)
(***************************************************************************)
WebGate(id, origin, action) ==
    IF webRules = None THEN Verdict(TRUE, "personal")
    ELSE EvaluateWebapp(webRules, id, origin, action)

RequiredRecord(id, icon) ==
    [origin |-> RequiredOrigin(webRules, id), context |-> Org, icon |-> icon, managed |-> FALSE]

StartCommand(c, job) ==
    /\ webJobs[c].step = "idle"
    /\ webCalls < MaxWebCalls
    /\ webCalls' = webCalls + 1
    /\ webJobs' = [Interrupted(webJobs) EXCEPT ![c] = job]
    /\ Disturbed
    /\ UNCHANGED <<webDaemon, webHome, webRules, webLock, webFaults>>

\* punarctl web-apps install: the manifest goes to the daemon, then sync.
CommandInstall(c) ==
    \E id \in WebIds, origin \in Origins, context \in Contexts, icon \in Icons :
        StartCommand(c, WebJob("ask", id,
            [origin |-> origin, context |-> context, icon |-> icon, managed |-> FALSE], "place"))

\* punarctl web-apps uninstall, with or without --purge-data.
CommandUninstall(c) ==
    \E id \in WebIds, purge \in BOOLEAN :
        StartCommand(c, [WebJob("askLeave", id, None, "displace")
                           EXCEPT !.purge = IF purge THEN "asked" ELSE None])

CommandSync(c) == StartCommand(c, WebJob("list", None, None, "sync"))

\* punarctl web-apps context create / delete [--purge-data] / use, and launch.
CommandContext(c) ==
    \E context \in UserContexts, step \in {"create", "delete", "use", "open"} :
        StartCommand(c, [WebJob(step, None, None, "end") EXCEPT !.known = {context}])

\* handle_webapps_install and handle_webapps_uninstall before the lock: the
\* ladder is asked, and the record to remove looked up.  The org context is
\* there while the device is enrolled.
AdmitInstall(c) ==
    LET job == webJobs[c]
        verdict == WebGate(job.id, job.rec.origin, "install") IN
    /\ job.step = "ask"
    /\ webJobs' = [webJobs EXCEPT ![c] =
          IF verdict.allowed /\ (job.rec.context = Org => webRules # None)
          THEN [@ EXCEPT !.step = "enter", !.rec.managed = (verdict.reason = "required_web_app")]
          ELSE WebIdle]
    /\ UNCHANGED <<webDaemon, webHome, webRules, webLock, synced, webCalls, webFaults>>

AdmitUninstall(c) ==
    LET id == webJobs[c].id IN
    /\ webJobs[c].step = "askLeave"
    /\ webJobs' = [webJobs EXCEPT ![c] =
          IF records[id] # None THEN IF WebGate(id, records[id].origin, "remove").allowed
                                     THEN [@ EXCEPT !.step = "leave"] ELSE WebIdle
                                ELSE WebIdle]
    /\ UNCHANGED <<webDaemon, webHome, webRules, webLock, synced, webCalls, webFaults>>

(***************************************************************************)
(* WebAppManager::install under the lock: the context must exist, an       *)
(* existing application is kept unless a managed request names the very    *)
(* same identity; icon bytes first, then the record, then the old icon if  *)
(* no application shows it any more.                                       *)
(***************************************************************************)
EnterInstall(c) ==
    LET job == webJobs[c] IN
    /\ job.step = "enter"
    /\ webLock = None
    /\ IF \/ job.rec.context \notin contexts /\ job.rec.context # Org
          \/ /\ records[job.id] # None
             /\ \/ ~job.rec.managed
                \/ Identity(records[job.id]) # Identity(job.rec)
       THEN webJobs' = [webJobs EXCEPT ![c] = WebIdle] /\ UNCHANGED webLock
       ELSE WebStep(c, "blob") /\ webLock' = c
    /\ UNCHANGED <<webDaemon, webHome, webRules, synced, webCalls, webFaults>>

WriteBlob(c) ==
    /\ webJobs[c].step = "blob"
    /\ blobs' = blobs \cup {webJobs[c].rec.icon}
    /\ WebStep(c, "record")
    /\ UNCHANGED <<records, contexts, webHome, webRules, webLock, synced, webCalls, webFaults>>

\* The step keeps the icon the record showed before, to be swept.
WriteRecord(c) ==
    LET job == webJobs[c]
        before == records[job.id] IN
    /\ job.step = "record"
    /\ records' = [records EXCEPT ![job.id] = job.rec]
    /\ Disturbed
    /\ webJobs' = [webJobs EXCEPT ![c] =
          [@ EXCEPT !.step = "sweep",
                    !.known = IF before = None THEN {} ELSE {before.icon} \ {job.rec.icon}]]
    /\ UNCHANGED <<blobs, contexts, webHome, webRules, webLock, webCalls, webFaults>>

IconsShown == {records[id].icon : id \in Installed}

\* A variant that deletes the icon without looking for other users of it.
SweepSharedIcons(c) ==
    /\ webJobs[c].step = "sweep"
    /\ blobs' = blobs \ webJobs[c].known
    /\ WebStep(c, "sweepContext")
    /\ UNCHANGED <<records, contexts, webHome, webRules, webLock, synced, webCalls, webFaults>>

\* Icons named by the step that no application shows are deleted; the purge
\* of an uninstall then takes the context, unless an application uses it.
SweepIcons(c) ==
    /\ webJobs[c].step = "sweep"
    /\ blobs' = blobs \ (webJobs[c].known \ IconsShown)
    /\ WebStep(c, "sweepContext")
    /\ UNCHANGED <<records, contexts, webHome, webRules, webLock, synced, webCalls, webFaults>>

SweepContext(c) ==
    LET job == webJobs[c]
        purged == job.purge \in Contexts \ {Personal}
                    /\ \A id \in Installed : records[id].context # job.purge
    IN  /\ job.step = "sweepContext"
        /\ contexts' = IF purged THEN contexts \ {job.purge} ELSE contexts
        /\ webJobs' = [webJobs EXCEPT ![c] =
              [@ EXCEPT !.step = job.then, !.known = {},
                        !.purge = IF purged THEN job.purge ELSE None]]
        /\ webLock' = None
        /\ IF purged THEN Disturbed ELSE UNCHANGED synced
        /\ UNCHANGED <<records, blobs, webHome, webRules, webCalls, webFaults>>

\* WebAppManager::uninstall: the record goes first, then its icon.
EnterUninstall(c) ==
    LET job == webJobs[c] IN
    /\ job.step = "leave"
    /\ webLock = None
    /\ IF records[job.id] = None
       THEN /\ webJobs' = [webJobs EXCEPT ![c] = WebIdle]
            /\ UNCHANGED <<records, webLock, synced>>
       ELSE /\ records' = [records EXCEPT ![job.id] = None]
            /\ Disturbed
            /\ webLock' = c
            /\ webJobs' = [webJobs EXCEPT ![c] =
                  [@ EXCEPT !.step = "sweep", !.known = {records[job.id].icon},
                            !.purge = IF @ = "asked" THEN records[job.id].context ELSE None]]
    /\ UNCHANGED <<blobs, contexts, webHome, webRules, webCalls, webFaults>>

\* materialize: launcher, icon and profile of an application just installed.
PlaceLauncher(c) ==
    LET job == webJobs[c] IN
    /\ job.step = "place"
    /\ launchers' = [launchers EXCEPT ![job.id] = job.rec.icon]
    /\ profiles' = profiles \cup {job.rec.context}
    /\ WebStep(c, "list")
    /\ UNCHANGED <<webDaemon, active, webRules, webLock, synced, webCalls, webFaults>>

\* remove_app_artifacts, and remove_profile when the daemon purged the context.
RemoveArtifacts(c) ==
    LET job == webJobs[c] IN
    /\ job.step = "displace"
    /\ launchers' = [launchers EXCEPT ![job.id] = None]
    /\ profiles' = profiles \ {job.purge}
    /\ WebStep(c, "list")
    /\ UNCHANGED <<webDaemon, active, webRules, webLock, synced, webCalls, webFaults>>

(***************************************************************************)
(* sync.  First list: every effective required application that is not     *)
(* already managed under that identity is installed, one call each; an     *)
(* install that is refused ends the command.                               *)
(***************************************************************************)
Missing ==
    IF webRules = None THEN {}
    ELSE {id \in EffectiveRequired(webRules) :
             \/ records[id] = None
             \/ ~records[id].managed
             \/ Identity(records[id]) # <<RequiredOrigin(webRules, id), Org>>}

SyncList(c) ==
    /\ webJobs[c].step = "list"
    /\ \/ \E id \in Missing, icon \in Icons :
             webJobs' = [webJobs EXCEPT ![c] = WebJob("ask", id, RequiredRecord(id, icon), "place")]
       \/ /\ Missing = {}
          /\ webJobs' = [webJobs EXCEPT ![c] =
                [WebJob("fetch", None, None, "end")
                   EXCEPT !.ids = Installed, !.known = Known, !.alone = Alone(c)]]
    /\ UNCHANGED <<webDaemon, webHome, webRules, webLock, synced, webCalls, webFaults>>

\* artifacts_for: an application answers with its icon's bytes or not at all.
Fetchable(id) == IF records[id] = None THEN FALSE ELSE records[id].icon \in blobs

\* The second list is read again for each application, with its artifacts;
\* an application gone by then, or its icon, ends the command.
SyncFetch(c) ==
    LET job == webJobs[c] IN
    /\ job.step = "fetch"
    /\ \E id \in {i \in job.ids : launchers[i] = None \/ records[i] = None
                                    \/ launchers[i] # records[i].icon} :
          IF Fetchable(id)
          THEN /\ launchers' = [launchers EXCEPT ![id] = records[id].icon]
               /\ profiles' = profiles \cup {records[id].context}
               /\ UNCHANGED webJobs
          ELSE /\ webJobs' = [webJobs EXCEPT ![c] = WebIdle]
               /\ UNCHANGED <<launchers, profiles>>
    /\ UNCHANGED <<webDaemon, active, webRules, webLock, synced, webCalls, webFaults>>

\* clean_stale_artifacts: launchers of applications outside the list go.
SyncClean(c) ==
    LET job == webJobs[c] IN
    /\ job.step = "fetch"
    /\ \A id \in job.ids : records[id] # None /\ launchers[id] = records[id].icon
    /\ launchers' = [id \in WebIds |-> IF id \in job.ids THEN launchers[id] ELSE None]
    /\ WebStep(c, "settle")
    /\ UNCHANGED <<webDaemon, profiles, active, webRules, webLock, synced, webCalls, webFaults>>

\* Profiles of the listed contexts; repaired_active_state falls back to the
\* personal context when the active one is not on the list.
SyncSettle(c) ==
    LET job == webJobs[c] IN
    /\ job.step = "settle"
    /\ profiles' = profiles \cup job.known
    /\ active' = IF active \in job.known THEN active ELSE Personal
    /\ synced' = (job.alone /\ Alone(c))
    /\ webJobs' = [webJobs EXCEPT ![c] = WebIdle]
    /\ UNCHANGED <<webDaemon, launchers, webRules, webLock, webCalls, webFaults>>

\* context_create refuses a context that exists, context_delete one in use.
IsNew(context) == context \notin contexts
IsUnused(context) == /\ context \in contexts
                     /\ \A id \in Installed : records[id].context # context

\* context_create under the lock, then the profile.
ContextCreate(c, context) ==
    /\ webJobs[c].step = "create" /\ context \in webJobs[c].known
    /\ webLock = None /\ IsNew(context)
    /\ contexts' = contexts \cup {context}
    /\ profiles' = profiles \cup {context}
    /\ Disturbed
    /\ webJobs' = [webJobs EXCEPT ![c] = WebIdle]
    /\ UNCHANGED <<records, blobs, launchers, active, webRules, webLock, webCalls, webFaults>>

\* context_delete under the lock refuses a context in use; the command then
\* deletes the profile if asked to, and repairs the active context.
ContextDelete(c, context) ==
    /\ webJobs[c].step = "delete" /\ context \in webJobs[c].known
    /\ webLock = None /\ IsUnused(context)
    /\ contexts' = contexts \ {context}
    /\ Disturbed
    /\ \E gone \in {{}, {context}} :
          webJobs' = [webJobs EXCEPT ![c] =
              [WebJob("repair", None, None, "end") EXCEPT !.ids = gone]]
    /\ UNCHANGED <<records, blobs, webHome, webRules, webLock, webCalls, webFaults>>

RepairActive(c) ==
    /\ webJobs[c].step = "repair"
    /\ profiles' = profiles \ webJobs[c].ids
    /\ active' = IF active \in Known THEN active ELSE Personal
    /\ webJobs' = [webJobs EXCEPT ![c] = WebIdle]
    /\ UNCHANGED <<webDaemon, launchers, webRules, webLock, synced, webCalls, webFaults>>

\* context use lists the contexts and then writes the file.
ContextUse(c, context) ==
    /\ webJobs[c].step \in {"use", "using"} /\ context \in webJobs[c].known
    /\ \/ /\ webJobs[c].step = "use" /\ context \in Known
          /\ WebStep(c, "using")
          /\ UNCHANGED active
       \/ /\ webJobs[c].step = "using"
          /\ active' = context
          /\ webJobs' = [webJobs EXCEPT ![c] = WebIdle]
    /\ synced' = FALSE
    /\ UNCHANGED <<webDaemon, launchers, profiles, webRules, webLock, webCalls, webFaults>>

\* launch and browse: a listed context, its profile, then Chromium.
OpenBrowser(c, context) ==
    /\ webJobs[c].step = "open" /\ context \in webJobs[c].known
    /\ context \in Known
    /\ profiles' = profiles \cup {context}
    /\ webJobs' = [webJobs EXCEPT ![c] = WebIdle]
    /\ UNCHANGED <<webDaemon, launchers, active, webRules, webLock, synced, webCalls, webFaults>>

(***************************************************************************)
(* A command ends early: a call refused or failed, a write that failed, or *)
(* the person interrupted it.  If its call was inside the daemon, the      *)
(* daemon finishes that call all the same, unless it stopped too.          *)
(***************************************************************************)
CommandDies(c) ==
    /\ webJobs[c].step \notin {"idle", "blob", "record", "sweep", "sweepContext"}
    /\ WebFault
    /\ webJobs' = [webJobs EXCEPT ![c] = WebIdle]
    /\ UNCHANGED <<webDaemon, webHome, webRules, webLock, synced, webCalls>>

\* A call refused by the daemon (a context that exists, is missing or in use).
CommandRefused(c) ==
    /\ webJobs[c].step \in {"create", "delete", "use", "open"}
    /\ webJobs' = [webJobs EXCEPT ![c] = WebIdle]
    /\ UNCHANGED <<webDaemon, webHome, webRules, webLock, synced, webCalls, webFaults>>

\* punard stops or a write of its fails in the middle of a change.
WebCrash ==
    /\ WebFault
    /\ webLock # None
    /\ webLock' = None
    /\ webJobs' = [webJobs EXCEPT ![webLock] = WebIdle]
    /\ UNCHANGED <<webDaemon, webHome, webRules, synced, webCalls>>

\* Enrolment, unenrolment or a new policy document.
WebRulesChange(rules) ==
    /\ webRules' = rules /\ rules # webRules
    /\ webJobs' = Interrupted(webJobs)
    /\ Disturbed
    /\ UNCHANGED <<webDaemon, webHome, webLock, webCalls, webFaults>>

WebNext ==
    \/ \E c \in Commands :
          \/ CommandInstall(c) \/ CommandUninstall(c) \/ CommandSync(c) \/ CommandContext(c)
          \/ AdmitInstall(c) \/ AdmitUninstall(c) \/ EnterInstall(c) \/ WriteBlob(c) \/ WriteRecord(c)
          \/ EnterUninstall(c) \/ SweepIcons(c) \/ SweepContext(c)
          \/ PlaceLauncher(c) \/ RemoveArtifacts(c)
          \/ SyncList(c) \/ SyncFetch(c) \/ SyncClean(c) \/ SyncSettle(c)
          \/ RepairActive(c) \/ CommandDies(c) \/ CommandRefused(c)
          \/ \E context \in UserContexts :
                \/ ContextCreate(c, context) \/ ContextDelete(c, context)
                \/ ContextUse(c, context) \/ OpenBrowser(c, context)
    \/ WebCrash

(***************************************************************************)
(* The two readers of the documents agree: the browser is never told to    *)
(* install what it is told to block, and an origin it blocks is refused by *)
(* punard's own gate for every application, however the documents are      *)
(* ranked (render_effective_browser_policy and evaluate_webapp_policy).    *)
(***************************************************************************)
BrowserAgreesWithGate ==
    webRules # None /\ HasBrowserOpinion(webRules) =>
        LET rendered == RenderedPolicy(webRules, << >>) IN
        /\ \A app \in rendered.forced : app[2] \notin rendered.blocked
        /\ \A origin \in rendered.blocked, id \in WebIds :
              ~EvaluateWebapp(webRules, id, origin, "install").allowed

(***************************************************************************)
(* Every record resolves: its icon file exists, and its context has a      *)
(* record or is the organisation's.  Icons are shared, contexts are purged *)
(* and deleted by other commands, and the daemon stops between the writes. *)
(***************************************************************************)
RecordsResolve ==
    \A id \in Installed :
        /\ records[id].icon \in blobs
        /\ records[id].context \in contexts \cup {Org}

(***************************************************************************)
(* After a sync that ran alone, what the user's home holds is what the     *)
(* records say, whatever earlier commands left half-done: a launcher with  *)
(* the right icon for every application and no other, and an active        *)
(* context that exists (sync, repaired_active_state).                      *)
(***************************************************************************)
HomeMatchesRecords ==
    synced => /\ \A id \in WebIds :
                    launchers[id] = IF records[id] = None THEN None ELSE records[id].icon
              /\ active \in Known
              /\ Known \subseteq profiles

(***************************************************************************)
(* The records of web applications, the user's home and the browser's      *)
(* policy agree with one another (punard's webapps.rs, punarctl's sync and *)
(* the rendered policy).                                                   *)
(***************************************************************************)
WebAppsAgree == RecordsResolve /\ HomeMatchesRecords /\ BrowserAgreesWithGate
=============================================================================
