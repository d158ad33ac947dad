---------------------------- MODULE Applications ----------------------------
(***************************************************************************)
(* The curated desktop applications (punard: apps.rs and the apps.*        *)
(* handlers of server.rs).  A catalogue, part of the OS image, pins one    *)
(* version of every application.  Flatpaks are driven through the flatpak  *)
(* tool and observed afterwards.  A vendor package is downloaded, checked, *)
(* unpacked in a staging directory, renamed to a directory named after its *)
(* digest, and made current by swapping a symbolic link; its launcher and  *)
(* the index of URI handlers are derived from what is installed.  Requests *)
(* of several connections take app_mutation in turn; the daemon may stop   *)
(* between any two of these steps, and any step may fail.                  *)
(***************************************************************************)
EXTENDS ApplicationPolicy

CONSTANTS
    Flatpaks, VendorDebs, \* catalogue ids by the source select_source picks
    HostAccess,           \* Flatpaks whose metadata reaches outside the sandbox
    Digests,              \* versions a catalogue may pin
    AppThreads,           \* connections asking for changes
    MaxAppCalls,          \* bound on requests
    MaxAppFaults          \* bound on failed steps and restarts

ASSUME CatalogAssumption == /\ Flatpaks \cap VendorDebs = {}
                            /\ CatalogIds = Flatpaks \cup VendorDebs

VARIABLES
    pins,      \* the version the loaded catalogue pins, per application
    deployed,  \* the commit flatpak reports, per Flatpak
    store,     \* state of every version directory of a vendor application
    current,   \* where the vendor application's "current" link points
    entries,   \* vendor applications with a launcher file
    handlers,  \* vendor applications registered as URI handlers
    appRules,  \* the organisation's layers; None on a personal device
    appLock,   \* app_mutation
    appJobs,   \* what each connection is doing
    wiped,     \* history: vendor applications whose removal was cut short
    owed,      \* history: applications whose last change failed half-way
    appCalls, appFaults

appVars == <<pins, deployed, store, current, entries, handlers, appRules,
             appLock, appJobs, wiped, owed, appCalls, appFaults>>

AppIdle == [step |-> "idle"]

AppJob(op, app, ack) == [op |-> op, app |-> app, todo |-> {app} \ {None},
                        ack |-> ack, genuine |-> FALSE, step |-> "queued"]

(***************************************************************************)
(* A version directory is whole (as unpacked and checked), torn (partly    *)
(* deleted, its install.json still there), bare (partly deleted, without   *)
(* it), or absent; foreign is a tree that is not the pinned package.       *)
(***************************************************************************)
DirStates == {"absent", "whole", "torn", "bare", "foreign"}

\* What an unfinished deletion may leave of a directory.
Partly(state) == CASE state \in {"whole", "torn", "foreign"} -> {"torn", "bare"}
                   [] state = "bare"              -> {"bare"}
                   [] state = "absent"            -> {}

\* installed_vendor_digest: what install.json, read through current, says.
InstalledDigest(a) ==
    IF current[a] # None /\ store[a][current[a]] \in {"whole", "torn", "foreign"}
    THEN current[a] ELSE None

InstalledDebs == {a \in VendorDebs : InstalledDigest(a) # None}

InstalledVersion(a) == IF a \in Flatpaks THEN deployed[a] ELSE InstalledDigest(a)

AppsInit(rules) ==
    /\ pins = [a \in CatalogIds |-> CHOOSE d \in Digests : TRUE]
    /\ deployed = [a \in Flatpaks |-> None]
    /\ store = [a \in VendorDebs |-> [d \in Digests |-> "absent"]]
    /\ current = [a \in VendorDebs |-> None]
    /\ entries = {} /\ handlers = {}
    /\ appRules = rules
    /\ appLock = None
    /\ appJobs = [t \in AppThreads |-> AppIdle]
    /\ wiped = {} /\ owed = {}
    /\ appCalls = 0 /\ appFaults = 0

AppFault == appFaults < MaxAppFaults /\ appFaults' = appFaults + 1

NoFault == UNCHANGED appFaults

GoTo(t, step) == appJobs' = [appJobs EXCEPT ![t].step = step]

Files == <<store, current, entries, handlers, wiped>>

(***************************************************************************)
(* app_mutation_authorized, before the lock is asked for: on an enrolled   *)
(* device the ladder decides, on a personal one a person may do anything.  *)
(* Updates are judged as installations.  (An agent is always refused.)     *)
(***************************************************************************)
MayChange(a, op) ==
    appRules # None =>
        EvaluateApplication(appRules, a, IF op = "remove" THEN "remove" ELSE "install").allowed

\* The person acknowledges host access in the request; an update implies it.
AskChange(t, op, a, ack) ==
    /\ appJobs[t].step = "idle"
    /\ appCalls < MaxAppCalls
    /\ MayChange(a, op)
    /\ appJobs' = [appJobs EXCEPT ![t] = AppJob(op, a, ack \/ op = "update")]
    /\ appCalls' = appCalls + 1
    /\ UNCHANGED <<pins, deployed, Files, appRules, appLock, owed, appFaults>>

\* handle_apps_update with --all: authorized per application, under the lock.
AskUpdateAll(t) ==
    /\ appJobs[t].step = "idle"
    /\ appCalls < MaxAppCalls
    /\ appJobs' = [appJobs EXCEPT ![t] = AppJob("updateAll", None, TRUE)]
    /\ appCalls' = appCalls + 1
    /\ UNCHANGED <<pins, deployed, Files, appRules, appLock, owed, appFaults>>

\* update_candidates: the installed native applications.
Candidates == {a \in CatalogIds : InstalledVersion(a) # None}

TakeLock(t) ==
    /\ appJobs[t].step = "queued"
    /\ appLock = None
    /\ appLock' = t
    /\ appJobs' = [appJobs EXCEPT ![t] =
           IF @.op = "updateAll" THEN [@ EXCEPT !.todo = Candidates, !.step = "next"]
                                 ELSE [@ EXCEPT !.step = "next"]]
    /\ UNCHANGED <<pins, deployed, Files, appRules, owed, appCalls, appFaults>>

(***************************************************************************)
(* The start of one application's change, under the lock.  An update of an *)
(* application that is gone or current does nothing; an installation of    *)
(* the pinned version only repairs the derived files; the rest goes to the *)
(* backend.  The loop of an update of all skips what policy now denies.    *)
(***************************************************************************)
NextApp(t) ==
    /\ appJobs[t].step = "next"
    /\ \/ /\ appJobs[t].todo = {}
          /\ GoTo(t, "release")
       \/ \E a \in appJobs[t].todo :
            LET op == appJobs[t].op
                skip == \/ op \in {"update", "updateAll"}
                           /\ (~MayChange(a, op) \/ InstalledVersion(a) \in {None, pins[a]})
                        \/ op = "remove" /\ a \in Flatpaks /\ deployed[a] = None
                step == CASE skip -> "next"
                          [] op = "remove" -> IF a \in Flatpaks THEN "uninstall" ELSE "wipe"
                          [] a \in Flatpaks -> "inspect"
                          [] op = "install" /\ InstalledDigest(a) = pins[a] -> "repair"
                          [] OTHER -> "stage"
            IN  appJobs' = [appJobs EXCEPT ![t] = [@ EXCEPT !.app = a, !.step = step,
                                                           !.todo = @ \ {a}]]
    /\ UNCHANGED <<pins, deployed, Files, appRules, appLock, owed, appCalls, appFaults>>

(***************************************************************************)
(* A step that fails ends the change of this application; the result is    *)
(* audited, a single request answers the error, an update of all goes on.  *)
(***************************************************************************)
FailApp(t) ==
    /\ AppFault
    /\ GoTo(t, "next")
    /\ owed' = owed \cup ({appJobs[t].app} \cap VendorDebs)

\* inspect_flatpak: the signed metadata of the pinned commit must be the one
\* the catalogue and the person saw, and host access acknowledged; at the
\* pinned commit already, there is nothing to do.
InspectFlatpak(t) ==
    LET a == appJobs[t].app IN
    /\ appJobs[t].step = "inspect"
    /\ \/ /\ a \in HostAccess => appJobs[t].ack
          /\ GoTo(t, IF deployed[a] = pins[a] THEN "next" ELSE "deploy")
          /\ NoFault
       \/ /\ a \in HostAccess /\ ~appJobs[t].ack
          /\ GoTo(t, "next")
          /\ NoFault
       \/ AppFault /\ GoTo(t, "next")
    /\ UNCHANGED <<pins, deployed, Files, appRules, appLock, owed, appCalls>>

\* flatpak install --commit, then flatpak list: a tool that fails or is
\* killed at its timeout may have done its work or not.
DeployFlatpak(t) ==
    LET a == appJobs[t].app
        done == [deployed EXCEPT ![a] = pins[a]] IN
    /\ appJobs[t].step = "deploy"
    /\ \/ deployed' = done /\ NoFault
       \/ deployed' \in {deployed, done} /\ AppFault
    /\ GoTo(t, "next")
    /\ UNCHANGED <<pins, Files, appRules, appLock, owed, appCalls>>

UninstallFlatpak(t) ==
    LET done == [deployed EXCEPT ![appJobs[t].app] = None] IN
    /\ appJobs[t].step = "uninstall"
    /\ \/ deployed' = done /\ NoFault
       \/ deployed' \in {deployed, done} /\ AppFault
    /\ GoTo(t, "next")
    /\ UNCHANGED <<pins, Files, appRules, appLock, owed, appCalls>>

(***************************************************************************)
(* A downloaded package, by the first check it fails.                      *)
(***************************************************************************)
Packages == {"good", "size", "digest", "members", "control", "tree", "executable"}

\* Exact size and digest of the download.
DigestChecks(package) == package \notin {"size", "digest"}

\* The archive's members, its control document, the unpacked tree.
ArchiveChecks(package) == package \notin {"members", "control", "tree", "executable"}

\* Download into a fresh staging directory, check, unpack, check again, write
\* install.json.  Nothing outside the staging directory changes.
StagePackage(t) ==
    /\ appJobs[t].step = "stage"
    /\ \E package \in Packages :
          IF DigestChecks(package) /\ ArchiveChecks(package)
          THEN /\ appJobs' = [appJobs EXCEPT ![t] =
                     [@ EXCEPT !.step = "clear", !.genuine = (package = "good")]]
               /\ NoFault /\ UNCHANGED owed
          ELSE FailApp(t)
    /\ UNCHANGED <<pins, deployed, Files, appRules, appLock, appCalls>>

\* A version directory of that digest left by an earlier attempt is deleted;
\* a deletion that fails, or is interrupted, leaves part of it.
ClearVersion(t) ==
    LET a == appJobs[t].app IN
    /\ appJobs[t].step = "clear"
    /\ \/ /\ store' = [store EXCEPT ![a][pins[a]] = "absent"]
          /\ GoTo(t, "publish") /\ NoFault /\ UNCHANGED owed
       \/ /\ \E left \in Partly(store[a][pins[a]]) :
                store' = [store EXCEPT ![a][pins[a]] = left]
          /\ FailApp(t)
    /\ UNCHANGED <<pins, deployed, current, entries, handlers, wiped, appRules, appLock, appCalls>>

\* The unpacked tree is renamed to its digest.
PublishVersion(t) ==
    LET a == appJobs[t].app IN
    /\ appJobs[t].step = "publish"
    /\ \/ /\ store' = [store EXCEPT ![a][pins[a]] =
                                IF appJobs[t].genuine THEN "whole" ELSE "foreign"]
          /\ GoTo(t, "switch") /\ NoFault /\ UNCHANGED owed
       \/ FailApp(t) /\ UNCHANGED store
    /\ UNCHANGED <<pins, deployed, current, entries, handlers, wiped, appRules, appLock, appCalls>>

\* A link to the new version replaces "current" in one rename.
SwitchCurrent(t) ==
    LET a == appJobs[t].app IN
    /\ appJobs[t].step = "switch"
    /\ \/ /\ current' = [current EXCEPT ![a] = pins[a]]
          /\ GoTo(t, "entry") /\ NoFault /\ UNCHANGED owed
       \/ FailApp(t) /\ UNCHANGED current
    /\ UNCHANGED <<pins, deployed, store, entries, handlers, wiped, appRules, appLock, appCalls>>

\* write_vendor_desktop_integration: needs the icon of the current version.
WriteEntry(t) ==
    LET a == appJobs[t].app IN
    /\ appJobs[t].step \in {"entry", "repair"}
    /\ \/ /\ InstalledDigest(a) # None
          /\ entries' = entries \cup {a}
          /\ GoTo(t, IF appJobs[t].step = "entry" THEN "prune" ELSE "index")
          /\ NoFault /\ UNCHANGED owed
       \/ FailApp(t) /\ UNCHANGED entries
    /\ UNCHANGED <<pins, deployed, store, current, handlers, wiped, appRules, appLock, appCalls>>

\* Every other version directory is deleted.
PruneVersions(t) ==
    LET a == appJobs[t].app IN
    /\ appJobs[t].step = "prune"
    /\ \/ /\ store' = [store EXCEPT ![a] =
                 [d \in Digests |-> IF d = pins[a] THEN @[d] ELSE "absent"]]
          /\ GoTo(t, "index") /\ NoFault /\ UNCHANGED owed
       \/ /\ \E d \in Digests \ {pins[a]} : \E left \in Partly(store[a][d]) :
                store' = [store EXCEPT ![a][d] = left]
          /\ FailApp(t)
    /\ UNCHANGED <<pins, deployed, current, entries, handlers, wiped, appRules, appLock, appCalls>>

(***************************************************************************)
(* remove_vendor_deb deletes the application's directory in whatever order *)
(* remove_dir_all walks it: WipePart is any point half-way, from which it  *)
(* goes on, fails, or is interrupted.                                      *)
(***************************************************************************)
WipePart(t) ==
    LET a == appJobs[t].app IN
    /\ appJobs[t].step = "wipe"
    /\ \E link \in {current[a], None} : current' = [current EXCEPT ![a] = link]
    /\ \E left \in [Digests -> DirStates] :
          /\ \A d \in Digests : left[d] \in {store[a][d], "absent"} \cup Partly(store[a][d])
          /\ store' = [store EXCEPT ![a] = left]
    /\ wiped' = IF current[a] = None THEN wiped ELSE wiped \cup {a}
    /\ \/ GoTo(t, "wiping") /\ NoFault /\ UNCHANGED owed
       \/ FailApp(t)
    /\ UNCHANGED <<pins, deployed, entries, handlers, appRules, appLock, appCalls>>

WipeAll(t) ==
    LET a == appJobs[t].app IN
    /\ appJobs[t].step = "wiping"
    /\ store' = [store EXCEPT ![a] = [d \in Digests |-> "absent"]]
    /\ current' = [current EXCEPT ![a] = None]
    /\ wiped' = wiped \ {a}
    /\ GoTo(t, "unentry")
    /\ UNCHANGED <<pins, deployed, entries, handlers, appRules, appLock, owed, appCalls, appFaults>>

DropEntry(t) ==
    /\ appJobs[t].step = "unentry"
    /\ \/ /\ entries' = entries \ {appJobs[t].app}
          /\ GoTo(t, "index") /\ NoFault /\ UNCHANGED owed
       \/ FailApp(t) /\ UNCHANGED entries
    /\ UNCHANGED <<pins, deployed, store, current, handlers, wiped, appRules, appLock, appCalls>>

\* A variant that only ever adds to the index.
RefreshAdding(t) ==
    /\ appJobs[t].step = "index"
    /\ \/ /\ handlers' = handlers \cup InstalledDebs
          /\ owed' = owed \ {appJobs[t].app}
          /\ GoTo(t, "next") /\ NoFault
       \/ FailApp(t) /\ UNCHANGED handlers
    /\ UNCHANGED <<pins, deployed, store, current, entries, wiped, appRules, appLock, appCalls>>

\* refresh_vendor_desktop_indexes: from what is installed, every time.
RefreshIndexes(t) ==
    /\ appJobs[t].step = "index"
    /\ \/ /\ handlers' = InstalledDebs
          /\ owed' = owed \ {appJobs[t].app}
          /\ GoTo(t, "next") /\ NoFault
       \/ FailApp(t) /\ UNCHANGED handlers
    /\ UNCHANGED <<pins, deployed, store, current, entries, wiped, appRules, appLock, appCalls>>

Release(t) ==
    /\ appJobs[t].step = "release"
    /\ appLock' = None
    /\ appJobs' = [appJobs EXCEPT ![t] = AppIdle]
    /\ UNCHANGED <<pins, deployed, Files, appRules, owed, appCalls, appFaults>>

(***************************************************************************)
(* The daemon stops, perhaps into another OS image with its own catalogue, *)
(* and starts again: reconcile_vendor_desktop_integration writes the       *)
(* launcher of everything installed and rebuilds the index.  A failure is  *)
(* logged and the daemon serves all the same.                              *)
(***************************************************************************)
RestartDaemon ==
    /\ AppFault
    /\ pins' \in [CatalogIds -> Digests]
    /\ appLock' = None
    /\ appJobs' = [t \in AppThreads |-> AppIdle]
    /\ \/ /\ entries' = entries \cup InstalledDebs
          /\ handlers' = InstalledDebs
          /\ owed' = {}
       \/ /\ owed' = VendorDebs
          /\ UNCHANGED <<entries, handlers>>
    /\ UNCHANGED <<deployed, store, current, wiped, appRules, appCalls>>

\* The organisation's documents change under a waiting request.
ChangeRules(rules) ==
    /\ appRules # None /\ rules # appRules
    /\ appRules' = rules
    /\ UNCHANGED <<pins, deployed, Files, appLock, appJobs, owed, appCalls, appFaults>>

AppStep(t) ==
    \/ AskUpdateAll(t) \/ TakeLock(t) \/ NextApp(t)
    \/ InspectFlatpak(t) \/ DeployFlatpak(t) \/ UninstallFlatpak(t) \/ StagePackage(t) \/ ClearVersion(t)
    \/ PublishVersion(t) \/ SwitchCurrent(t) \/ WriteEntry(t) \/ PruneVersions(t)
    \/ WipePart(t) \/ WipeAll(t) \/ DropEntry(t) \/ RefreshIndexes(t) \/ Release(t)
    \/ \E op \in {"install", "remove", "update"}, a \in CatalogIds, ack \in BOOLEAN :
          AskChange(t, op, a, ack)

(***************************************************************************)
(* What install.json reports as installed is a whole, checked tree: no     *)
(* interrupted installation, update or clean-up leaves a damaged version   *)
(* current.  The exception is the application whose removal was itself cut *)
(* short (remove_dir_all of a directory that is still current).            *)
(***************************************************************************)
InstalledIsWhole ==
    \A a \in InstalledDebs \ wiped : store[a][InstalledDigest(a)] = "whole"

(***************************************************************************)
(* Between changes, an application whose last change did not fail is a     *)
(* registered URI handler exactly while it is installed, and has its       *)
(* launcher (refresh_vendor_desktop_indexes, and the repair at startup).   *)
(***************************************************************************)
HandlersMatch ==
    appLock = None =>
        \A a \in VendorDebs \ owed :
            /\ a \in handlers <=> a \in InstalledDebs
            /\ a \in InstalledDebs => a \in entries

(***************************************************************************)
(* An application that is reported installed works, and the desktop offers *)
(* exactly the applications that are (AppManager, at rest and across every *)
(* interruption).                                                          *)
(***************************************************************************)
AppsAgree == InstalledIsWhole /\ HandlersMatch
=============================================================================
