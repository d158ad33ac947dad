------------------------------ MODULE Startup ------------------------------
(***************************************************************************)
(* How punard starts (Daemon::new): the device id, the three layer stores  *)
(* and the one-shot migration of the earlier desired.json, the first       *)
(* observation of the capabilities that have no compiled default, and the  *)
(* socket.                                                                 *)
(*                                                                         *)
(* A step is one file operation.  The machine may lose power or the        *)
(* process may be killed between any two, a write may fail and end the     *)
(* start, and the supervisor starts the daemon again.  write_atomic leaves *)
(* the old file or the new one.                                            *)
(***************************************************************************)
EXTENDS Integers, FiniteSets

CONSTANTS
    Capabilities,         \* the registry
    Compiled,             \* [capability -> its compiled default, or Absent]
    States,               \* what a capability may be set to
    Ids,                  \* device ids that random_alnum may draw
    MaxFaults, MaxAdminChanges, \* bounds
    Absent

VARIABLES
    desired,              \* desired.json: [recorded capability -> value], or Absent
    recorded,             \* history: what it held
    preferencesFile,      \* preferences.json, or Absent
    defaultsFile,         \* os-defaults.json, or Absent
    idFile,               \* device-id, or Absent
    observed,             \* [capability -> what a backend reports]
    run,                  \* the start under way
    faults, adminChanges

\* A layer store: values of some of the capabilities.
Stores == UNION {[D -> States] : D \in SUBSET Capabilities}

ASSUME StartAssumption ==
    /\ Compiled \in [Capabilities -> States \cup {Absent}]
    /\ Absent \notin Stores \cup States \cup Ids
    /\ MaxFaults \in Nat

startVars == <<desired, recorded, preferencesFile, defaultsFile, idFile, observed, run, faults, adminChanges>>
startFiles == <<desired, preferencesFile, defaultsFile, idFile>>
startWorld == <<recorded, observed, adminChanges>>

Nothing == [x \in {} |-> Absent]
Stopped == [step |-> "stopped", prefs |-> Nothing, defaults |-> Nothing, todo |-> {}, id |-> Absent]
Seeded == {c \in Capabilities : Compiled[c] = Absent}
Put(f, c, v) == [x \in DOMAIN f \cup {c} |-> IF x = c THEN v ELSE f[x]]
Contents(file) == IF file = Absent THEN Nothing ELSE file

StartInit ==
    /\ desired \in {Absent} \cup [Capabilities -> States]
    /\ recorded = desired
    /\ preferencesFile = Absent /\ defaultsFile = Absent /\ idFile = Absent
    /\ observed \in [Capabilities -> States]
    /\ run = Stopped
    /\ faults = 0 /\ adminChanges = 0

StartAt(step) == run.step = step
StartGoto(step) == run' = [run EXCEPT !.step = step]
Fault == faults < MaxFaults /\ faults' = faults + 1
Fine == UNCHANGED faults
\* An error ends Daemon::new, and with it the process.
GiveUp == Fault /\ run' = Stopped

-----------------------------------------------------------------------------
\* load_or_create_device_id
DeviceId ==
    /\ StartAt("stopped")
    /\ \/ /\ Fine
          /\ \E id \in IF idFile = Absent THEN Ids ELSE {idFile} :
                /\ idFile' = id
                /\ run' = [Stopped EXCEPT !.step = "stores", !.id = id]
       \/ GiveUp /\ UNCHANGED idFile
    /\ UNCHANGED <<desired, preferencesFile, defaultsFile, startWorld>>

\* OsDefaultsStore::load and PreferencesStore::load: a missing file is empty.
LoadStores ==
    /\ StartAt("stores") /\ Fine
    /\ run' = [run EXCEPT !.step = "migrate", !.prefs = Contents(preferencesFile),
                          !.defaults = Contents(defaultsFile)]
    /\ UNCHANGED <<startFiles, startWorld>>

\* migrate_m3_store: its trigger.
Migrates == preferencesFile = Absent /\ desired # Absent
BeginMigration ==
    /\ StartAt("migrate") /\ Fine
    /\ run' = [run EXCEPT !.step = IF Migrates THEN "carry" ELSE "seed",
                          !.todo = IF Migrates THEN DOMAIN desired ELSE Seeded]
    /\ UNCHANGED <<startFiles, startWorld>>

\* PreferencesStore::set, OsDefaultsStore::seed: memory, then the file.
CarryPreference(c, v) ==
    /\ preferencesFile' = Put(run.prefs, c, v)
    /\ run' = [run EXCEPT !.prefs = Put(run.prefs, c, v), !.todo = @ \ {c}]
    /\ UNCHANGED <<desired, defaultsFile, idFile>>
SeedDefault(c, v) ==
    /\ defaultsFile' = Put(run.defaults, c, v)
    /\ run' = [run EXCEPT !.defaults = Put(run.defaults, c, v), !.todo = @ \ {c}]
    /\ UNCHANGED <<desired, preferencesFile, idFile>>
Keep(c) == run' = [run EXCEPT !.todo = @ \ {c}] /\ UNCHANGED startFiles

\* One recorded value: the compiled default is dropped, another value of such
\* a capability is a preference, and any other becomes the seed, unless there
\* is one.
Carry(c) ==
    /\ StartAt("carry") /\ c \in run.todo
    /\ \/ /\ Fine
          /\ CASE Compiled[c] = desired[c] -> Keep(c)
               [] Compiled[c] # Absent /\ Compiled[c] # desired[c] -> CarryPreference(c, desired[c])
               [] OTHER -> IF c \in DOMAIN run.defaults THEN Keep(c) ELSE SeedDefault(c, desired[c])
       \/ GiveUp /\ UNCHANGED startFiles
    /\ UNCHANGED startWorld

\* desired.json becomes desired.json.pre-m4, which nobody reads.
FinishMigration ==
    /\ StartAt("carry") /\ run.todo = {}
    /\ \/ Fine /\ desired' = Absent /\ run' = [run EXCEPT !.step = "seed", !.todo = Seeded]
       \/ GiveUp /\ UNCHANGED desired
    /\ UNCHANGED <<preferencesFile, defaultsFile, idFile, startWorld>>

\* Mutant: every start takes what it observes.
SeedAlways(c) ==
    /\ StartAt("seed") /\ c \in run.todo
    /\ Fine /\ SeedDefault(c, observed[c])
    /\ UNCHANGED startWorld

\* First observation of a capability without a compiled default.
Seed(c) ==
    /\ StartAt("seed") /\ c \in run.todo
    /\ \/ Fine /\ (IF c \in DOMAIN run.defaults THEN Keep(c) ELSE SeedDefault(c, observed[c]))
       \/ GiveUp /\ UNCHANGED startFiles
    /\ UNCHANGED startWorld

\* The document is computed and the socket opens.
Serve ==
    /\ StartAt("seed") /\ run.todo = {}
    /\ Fine /\ StartGoto("serving")
    /\ UNCHANGED <<startFiles, startWorld>>

Crash ==
    /\ ~StartAt("stopped") /\ GiveUp
    /\ UNCHANGED <<startFiles, startWorld>>

\* Somebody sets the machine up differently.
AdminChanges(c, v) ==
    /\ adminChanges < MaxAdminChanges /\ v # observed[c]
    /\ observed' = [observed EXCEPT ![c] = v] /\ adminChanges' = adminChanges + 1
    /\ UNCHANGED <<startFiles, recorded, run, faults>>

StartNext ==
    \/ DeviceId \/ LoadStores \/ BeginMigration \/ FinishMigration \/ Serve \/ Crash
    \/ \E c \in Capabilities : Carry(c) \/ Seed(c)
    \/ \E c \in Capabilities, v \in States : AdminChanges(c, v)

StartSpec == StartInit /\ [][StartNext]_startVars

-----------------------------------------------------------------------------
\* Who the device is and what its open-valued defaults are is decided once:
\* a device id and a seed that reached the disk are never replaced, whatever
\* the machine is set to and however often the daemon is started again
\* (load_or_create_device_id, OsDefaultsStore::seed).
SeededOnce ==
    [][/\ idFile # Absent => idFile' = idFile
       /\ \A c \in DOMAIN Contents(defaultsFile) :
            /\ c \in DOMAIN Contents(defaultsFile')
            /\ defaultsFile'[c] = defaultsFile[c]]_startVars
=============================================================================
