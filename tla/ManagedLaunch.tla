---------------------------- MODULE ManagedLaunch ---------------------------
(***************************************************************************)
(* The managed launch of an agent: the launcher (punar-env agent), the     *)
(* gate it starts in the session's scope, agentd's registry and netd's     *)
(* barrier.  The gate registers itself, asks netd for its rule, publishes  *)
(* a proof, waits for the launcher's release and only then becomes the     *)
(* adapter.  Each of the two waits gives up after GATE_WAIT.               *)
(***************************************************************************)
EXTENDS NetworkDaemon

VARIABLES
    launcher,       \* op_agent of each session
    gate,           \* run_agent_gate, then the adapter it becomes
    files,          \* gate.ready.json and gate.release.json of each session
    moved           \* the sessions whose project directory was replaced

launchVars == <<launcher, gate, files, moved>>
vars == <<netdVars, launchVars>>

GateLives == {"starting", "asking", "holding", "adapter"}

LaunchInit ==
    /\ launcher = [s \in Sessions |-> "idle"]
    /\ gate = [s \in Sessions |-> "none"]
    /\ files = [s \in Sessions |-> {}]
    /\ moved = {}

Init == NetdInit /\ LaunchInit

elsewhere == <<documents, purged, kernel, attempts, runtime, calls, moved>>

(* validate_project_mount: the project directory is where it was, owned by  *)
(* its user and no link.                                                   *)
MountSound(s) == s \notin moved

Moves(s, to) == gate' = [gate EXCEPT ![s] = to]
Leaves(s, to) == launcher' = [launcher EXCEPT ![s] = to]

(* agents.register: the record, and the doorbell for netd.                 *)
Register(s) == active' = active \cup {s} /\ doorbell' = TRUE

(* agents.end: a client ignores its failure.                               *)
End(s) ==
    \/ /\ active' = active \ {s}
       /\ doorbell' = (doorbell \/ s \in active)
       /\ UNCHANGED faults
    \/ CallFails /\ UNCHANGED <<active, doorbell>>

(* op_agent up to the spawn of systemd-run: the private directories, the    *)
(* specification of the gate, the scope with the gate in it.               *)
Launch(s) ==
    /\ launcher[s] = "idle" /\ MountSound(s)
    /\ Leaves(s, "waiting")
    /\ Moves(s, "starting")
    /\ alive' = alive \cup {s}
    /\ UNCHANGED <<active, doorbell, jobs, faults, files, elsewhere>>

(* require_gate_process: the gate runs in the scope of its own session.     *)
GateProcess(s) == gate[s] = "starting" /\ s \in alive

(* run_agent_gate: require_gate_process, read_gate_spec, the mount, and     *)
(* agents.register.  A refusal, or an answer lost after agentd has          *)
(* registered, makes the gate exit without an end.                         *)
GateRegisters(s) ==
    /\ GateProcess(s)
    /\ \/ /\ MountSound(s) /\ Register(s)
          /\ Moves(s, "asking")
          /\ UNCHANGED <<alive, faults>>
       \/ /\ ~MountSound(s)
          /\ Moves(s, "gone")
          /\ alive' = alive \ {s}
          /\ UNCHANGED <<active, doorbell, faults>>
       \/ /\ MountSound(s) /\ CallFails
          /\ Moves(s, "gone")
          /\ alive' = alive \ {s}
          /\ \/ Register(s)
             \/ UNCHANGED <<active, doorbell>>
    /\ UNCHANGED <<jobs, launcher, files, elsewhere>>

(* The gate's request reaches netd.                                        *)
GateAsks(s) ==
    /\ gate[s] = "asking"
    /\ BeginReady(s)
    /\ UNCHANGED launchVars

GateWithdraws(s) ==
    /\ End(s)
    /\ Moves(s, "gone")
    /\ alive' = alive \ {s}
    /\ files' = [files EXCEPT ![s] = @ \ {"ready"}]

(* netd answered: the proof is published, or the gate ends its session.     *)
GateAnswered(s) ==
    /\ gate[s] = "asking"
    /\ jobs[s].step \in {"proved", "refused"}
    /\ \/ /\ jobs[s].step = "proved"
          /\ Moves(s, "holding")
          /\ files' = [files EXCEPT ![s] = @ \cup {"ready"}]
          /\ UNCHANGED <<active, alive, doorbell, faults>>
       \/ jobs[s].step = "refused" /\ GateWithdraws(s)
    /\ jobs' = [jobs EXCEPT ![s] = NoJob]
    /\ UNCHANGED <<launcher, elsewhere>>

(* The client of netd gives up, or the proof cannot be written.  The job in *)
(* netd goes on.                                                           *)
GateGivesUp(s) ==
    /\ gate[s] = "asking"
    /\ GateWithdraws(s)
    /\ UNCHANGED <<jobs, launcher, elsewhere>>

(* wait_for_gate_release with the exact release, the mount validated again, *)
(* and the exec of the sandbox; a mount that changed ends the session.      *)
GateReleased(s) ==
    /\ gate[s] = "holding" /\ "release" \in files[s]
    /\ \/ /\ MountSound(s)
          /\ Moves(s, "adapter")
          /\ UNCHANGED <<active, alive, doorbell, faults, files>>
       \/ ~MountSound(s) /\ GateWithdraws(s)
    /\ UNCHANGED <<jobs, launcher, elsewhere>>

(* wait_for_gate_release at its deadline.                                  *)
GateTimesOut(s) ==
    /\ gate[s] = "holding" /\ "release" \notin files[s]
    /\ GateWithdraws(s)
    /\ UNCHANGED <<jobs, launcher, elsewhere>>

(* wait_for_gate_ready with a proof on disk.  The process it names must     *)
(* still be the gate in its scope; then release_gate, which may fail.       *)
SeesProof(s) ==
    /\ launcher[s] = "waiting" /\ "ready" \in files[s]
    /\ \/ /\ gate[s] = "holding"
          /\ files' = [files EXCEPT ![s] = @ \cup {"release"}]
          /\ Leaves(s, "running")
          /\ UNCHANGED faults
       \/ /\ gate[s] # "holding"
          /\ Leaves(s, "aborting")
          /\ UNCHANGED <<files, faults>>
       \/ /\ CallFails
          /\ Leaves(s, "aborting")
          /\ UNCHANGED files
    /\ UNCHANGED <<active, alive, doorbell, jobs, gate, elsewhere>>

(* wait_for_gate_ready without one: the child exited, or the deadline.      *)
LosesPatience(s) ==
    /\ launcher[s] = "waiting" /\ "ready" \notin files[s]
    /\ Leaves(s, "aborting")
    /\ UNCHANGED <<netdVars, gate, files, moved>>

(* abort_scope: the scope is stopped and the child waited for.             *)
StopScope(s) ==
    /\ launcher[s] = "aborting" /\ gate[s] \in GateLives
    /\ Moves(s, "gone")
    /\ alive' = alive \ {s}
    /\ UNCHANGED <<active, doorbell, jobs, faults, launcher, files, elsewhere>>

(* abort_scope and op_agent after child.wait: the session is ended and the  *)
(* private directories removed.                                            *)
Concludes(s) ==
    /\ launcher[s] \in {"aborting", "running"} /\ gate[s] = "gone"
    /\ End(s)
    /\ Leaves(s, "done")
    /\ files' = [files EXCEPT ![s] = {}]
    /\ UNCHANGED <<alive, jobs, gate, elsewhere>>

(* The adapter exits, or the user stops it.                                *)
AdapterExits(s) ==
    /\ gate[s] = "adapter"
    /\ Moves(s, "gone")
    /\ alive' = alive \ {s}
    /\ UNCHANGED <<active, doorbell, jobs, faults, launcher, files, elsewhere>>

(* The launcher is killed: nobody waits, nobody cleans up.                 *)
LauncherKilled(s) ==
    /\ launcher[s] \in {"waiting", "running", "aborting"} /\ CallFails
    /\ Leaves(s, "killed")
    /\ UNCHANGED <<active, alive, doorbell, jobs, gate, files, elsewhere>>

(* agentd's reaper: a registered process that is gone ends its session.     *)
Reap(s) ==
    /\ s \in active \ alive
    /\ active' = active \ {s}
    /\ doorbell' = TRUE
    /\ UNCHANGED <<alive, jobs, faults, launcher, gate, files, elsewhere>>

(* Replace(s): the project directory is moved away or replaced by a link.   *)
Replace(s) ==
    /\ MountSound(s) /\ launcher[s] # "done"
    /\ moved' = moved \cup {s}
    /\ UNCHANGED <<netdVars, launcher, gate, files>>

(* The user purges the ledger of a session; its owner edits its documents.  *)
Purge(s) ==
    /\ s \in active \ purged
    /\ purged' = purged \cup {s}
    /\ UNCHANGED <<active, alive, documents, doorbell, kernel, attempts, runtime, jobs,
                   budgetVars, launchVars>>
Rename(s) ==
    /\ documents[s] # "renamed"
    /\ documents' = [documents EXCEPT ![s] = "renamed"]
    /\ UNCHANGED <<active, alive, purged, doorbell, kernel, attempts, runtime, jobs,
                   budgetVars, launchVars>>

SessionStep(s) ==
    \/ GateRegisters(s) \/ GateAsks(s) \/ GateAnswered(s) \/ GateGivesUp(s)
    \/ GateReleased(s) \/ GateTimesOut(s)
    \/ SeesProof(s) \/ LosesPatience(s) \/ StopScope(s) \/ Concludes(s)
    \/ Reap(s)

UserStep(s) ==
    \/ Launch(s) \/ AdapterExits(s) \/ LauncherKilled(s) \/ Purge(s) \/ Rename(s)
    \/ Replace(s)

Next ==
    \/ NetdNext /\ UNCHANGED launchVars
    \/ \E s \in Sessions : SessionStep(s) \/ UserStep(s)

Spec == Init /\ [][Next]_vars

-----------------------------------------------------------------------------
(* While an adapter runs and the table exists, the table has the rule of   *)
(* its session: no reconcile of another thread, no restart and no failed   *)
(* transaction drops a running session (runtime.rs, session_ready and      *)
(* reconcile under one mutex).                                             *)
RunningIsGoverned ==
    \A s \in Sessions : gate[s] = "adapter" /\ kernel.table => s \in Governed

(* A launch that was abandoned never runs its adapter, whichever of the    *)
(* launcher's and the gate's deadlines fires first (session.rs, "A timeout *)
(* never releases adapter code").                                          *)
AbandonedNeverRuns ==
    \A s \in Sessions :
        gate[s] = "adapter" => launcher[s] \in {"running", "killed"} /\ "release" \in files[s]

(* The refusals the daemon shows are never more than the packets the kernel *)
(* refused, across reconciles, rejected transactions, nft deadlines and    *)
(* restarts (runtime.rs, "a rejected transaction must not double-count on  *)
(* the next reconcile").                                                   *)
NoOvercount == \A s \in Sessions : runtime.carry[s] + Hits(s) <= attempts[s]

(* Enforcement is reported available only when the table the kernel holds  *)
(* is the one the daemon believes it installed, unless somebody removed    *)
(* the table behind its back (enforcement_status).                         *)
StatusHonest ==
    MutexFree /\ ~runtime.error /\ kernel.table => Governed = runtime.installed

(* Adapter code runs only under the rules of its session and only when its  *)
(* launcher let it (session.rs and netd's runtime.rs together).            *)
LaunchesGoverned == RunningIsGoverned /\ AbandonedNeverRuns

(* What netd reports is true: refusals that happened, and enforcement that  *)
(* is in place (network.status, network.list).                             *)
ReportsAreTrue == NoOvercount /\ StatusHonest

-----------------------------------------------------------------------------
(* For TLC, in four parts *)

\* What a behaviour is about: two launches racing one another and the daemon,
\* the traffic of one session, what its user edits and purges, or the rules of
\* one pair of documents.
VARIABLES lens, doc

MCInit ==
    /\ Init
    /\ \/ lens \in {"race", "traffic", "edits"} /\ doc = [readable |-> FALSE]
       \/ /\ lens = "rules"
          /\ doc \in Documents
          /\ ~Compiles(doc) =>
               doc.manifest = [z \in Zones |-> "allow"] /\ doc.policy = doc.manifest

\* The edits made so far; one per behaviour is enough to meet each.
Edits ==
    {e \in {"purge", "rename", "move"} :
        CASE e = "purge" -> purged # {}
          [] e = "rename" -> \E s \in Sessions : documents[s] = "renamed"
          [] e = "move" -> moved # {}}
First == CHOOSE s \in Sessions : TRUE
MCNext ==
    /\ Next
    /\ lens # "rules"
    /\ lens = "race" =>
        /\ attempts' = attempts /\ calls' = calls
        /\ faults' # faults => kernel'.table /\ UNCHANGED launchVars
    /\ lens # "race" => \A s \in Sessions \ {First} : launcher'[s] = "idle"
    /\ lens # "edits" => documents' = documents /\ purged' = purged /\ moved' = moved /\ runtime'.flows = {}
    /\ lens = "edits" => faults' = faults /\ Cardinality(Edits') <= 1
    /\ UNCHANGED <<lens, doc>>

mcVars == <<vars, lens, doc>>
MCSpec == MCInit /\ [][MCNext]_mcVars

(* The chain netd renders gives every address the verdict its zone's       *)
(* effective decision asks for: allowed only where whatever speaks says    *)
(* allow, refused where both documents are silent, closed for every zone   *)
(* when the documents cannot be used or a blocked zone has no addresses,   *)
(* and open to loopback unless a zone claims it (policy.rs, runtime.rs,    *)
(* nft.rs).                                                                *)
RulesMeanPolicy ==
    lens = "rules" =>
        \A members \in Memberships : \A a \in Addresses :
            KernelVerdict(SessionChain(Bound(doc, members), members), a)
                = (IF MayReach(doc, members, a) THEN "accept" ELSE "reject")
=============================================================================
