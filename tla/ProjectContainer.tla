-------------------------- MODULE ProjectContainer --------------------------
(***************************************************************************)
(* punar-env on one project: init, up, shell, status and destroy, which    *)
(* drive one podman container through several podman calls each, and what  *)
(* `agent` prepares before it launches anything (the adapter, the          *)
(* executable, the private directories and the mounts of the sandbox).     *)
(* Two commands may run at once, the user may use podman and an editor     *)
(* between any two of their calls, and any podman call may fail.           *)
(***************************************************************************)
EXTENDS Naturals, Sequences, FiniteSets

CONSTANTS
    EnvCommands,       \* invocations of punar-env
    MaxBoxes,       \* bound on the containers ever created under the name
    MaxEdits,       \* bound on the user's edits of the manifest
    MaxPodmanFaults \* bound on the podman calls that fail for another reason

VARIABLES
    present,        \* which of ACCEPTED_FILENAMES the directory has
    document,       \* what the manifest says
    host,           \* the machine: the tools, the account, the adapters
    image,          \* is the base image loaded
    box,            \* the container punar-env-<project>, as podman knows it
    cmd,            \* the commands
    podmanFaults, edits

envVars == <<present, document, host, image, box, cmd, podmanFaults, edits>>

Canonical == "punar-env.yaml"
Grades == {"read_write", "read", "deny"}
Required == {"apiVersion", "kind", "project", "environment", "toolchains", "services", "ai",
             "permissions"}

-----------------------------------------------------------------------------
(* The manifest.  A section is sound, absent, of the wrong shape (not a     *)
(* mapping, an unusable name, an unknown value), or empty; an unknown field *)
(* is only a warning.                                                      *)
States == {"sound", "absent", "wrong", "empty"}

(* resolve: none, exactly one, or a conflict.                              *)
Resolve(names) ==
    CASE Cardinality(names) = 0 -> "missing"
      [] Cardinality(names) = 1 -> "found"
      [] OTHER -> "conflict"

(* The three grant maps: an entry with a value outside the map's own list   *)
(* ("request" in the network map) spoils the document.                     *)
BuildPermissions(d) ==
    /\ d.sections["permissions"] = "sound"
    /\ d.grade \in Grades \cup {"unstated"}
    /\ d.network \in {"allow", "deny"}

(* parse_str: every section is built, problems are collected, and one is    *)
(* enough to refuse the document.                                          *)
Problems(d) ==
    {s \in Required \ {"permissions"} : d.sections[s] # "sound"}
        \cup (IF BuildPermissions(d) THEN {} ELSE {"permissions"})

LoadManifest == Resolve(present) = "found" /\ Problems(document) = {}

(* project_grade: a manifest that does not name the zone grants nothing.    *)
ProjectGrade(d) == IF d.grade = "unstated" THEN "deny" ELSE d.grade

Sound == [s \in Required |-> "sound"]
Scaffold == [sections |-> Sound, grade |-> "read_write", network |-> "allow"]
DocumentsSeen ==
    [sections : {Sound}, grade : Grades \cup {"unstated"}, network : {"allow"}]
        \cup {[Scaffold EXCEPT !.sections["toolchains"] = w] : w \in States}
        \cup {[Scaffold EXCEPT !.network = "request"]}

-----------------------------------------------------------------------------
(* What `agent` needs of the machine.                                      *)

(* validate_trusted_executable: the path is canonical, the file regular,    *)
(* executable, and it and every directory above it root's and closed.       *)
Part(owner, shared) == [direct |-> TRUE, owner |-> owner, shared |-> shared]
TrustedExecutable(tool) ==
    /\ tool.canonical /\ tool.executable
    /\ \A i \in DOMAIN tool.chain :
         LET part == tool.chain[i]
         IN  part.direct /\ part.owner = "root" /\ ~part.shared

(* require_launch_tools: each of the five tools of the launch chain.        *)
RequireLaunchTools(h) == \A t \in DOMAIN h.tools : TrustedExecutable(h.tools[t])

(* require_private_runtime and validated_home_destination.                 *)
PrivateRuntime(h) == h.runtime.direct /\ h.runtime.owner = "user" /\ ~h.runtime.shared
HomeDestination(h) == h.home = "/home/user"

(* SessionIsolation::prepare: the directories of the session are created     *)
(* fresh; what was made is removed again when one cannot be.               *)
PrepareIsolation(h) ==
    /\ TrustedExecutable(h.tools["bwrap"])
    /\ PrivateRuntime(h)
    /\ HomeDestination(h)

(* AgentDefinition::validate and load_all: one unusable file hides all.     *)
ValidDefinition(d) ==
    /\ d.method \in {"managed", "unstated"}
    /\ d.command # <<>> /\ "" \notin {d.command[i] : i \in DOMAIN d.command}
    /\ "" \notin d.signature
FindAdapter(h, name) ==
    /\ \A d \in h.adapters : ValidDefinition(d)
    /\ \E d \in h.adapters : d.name = name

(* resolve_command: an absolute path or a bare name on PATH; a system       *)
(* executable keeps its place, any other is shown alone and read-only.      *)
ResolveCommand(d) ==
    [private |-> d.command[1] = "~/bin/agent", arguments |-> Tail(d.command)]

Mount(source, target, writable) == [source |-> source, target |-> target, writable |-> writable]

BubblewrapReadOnly(grade, command) ==
    {Mount("/usr", "/usr", FALSE), Mount("/etc", "/etc", FALSE),
     Mount("session runtime", "/run/user", TRUE),
     Mount("session home", "/home/user", TRUE), Mount("tmpfs", "/tmp", TRUE)}
    \cup (IF command.private THEN {Mount("agent", "/run/punar-agent-bin", FALSE)} ELSE {})
    \cup {Mount("project", "/workspace", grade = "read_write")}

(* bubblewrap_argv: the mounts.  A project that is denied is an empty       *)
(* directory at /workspace.                                                *)
BubblewrapArgv(grade, command) ==
    {Mount("/usr", "/usr", FALSE), Mount("/etc", "/etc", FALSE),
     Mount("session runtime", "/run/user", TRUE),
     Mount("session home", "/home/user", TRUE), Mount("tmpfs", "/tmp", TRUE)}
    \cup (IF command.private THEN {Mount("agent", "/run/punar-agent-bin", FALSE)} ELSE {})
    \cup (IF grade = "deny" THEN {Mount("empty", "/workspace", FALSE)}
                            ELSE {Mount("project", "/workspace", grade = "read_write")})

(* validate_gate_spec_contents: the last "--" has a command behind it, and   *)
(* no argument names a control socket.                                     *)
GateAccepts(command) ==
    LET argv == <<"--", "env", "--", "agent">> \o command.arguments
        last == CHOOSE i \in DOMAIN argv :
                  argv[i] = "--" /\ \A j \in DOMAIN argv : argv[j] = "--" => j <= i
    IN  last < Len(argv) /\ "/run/punard/punard.sock" \notin {argv[i] : i \in DOMAIN argv}

(* authority::summary: the rows shown with the launch, one per entry of the  *)
(* manifest.                                                               *)
AuthorityRows(d) ==
    (IF d.grade = "unstated" THEN {} ELSE {[zone |-> "filesystem.project", decision |-> d.grade]})
        \cup {[zone |-> "network.internet", decision |-> d.network]}

Definition(command) ==
    [name |-> "claude", method |-> "managed", command |-> command, signature |-> {"claude"}]
RootTool == [canonical |-> TRUE, executable |-> TRUE, chain |-> <<Part("root", FALSE)>>]
Tools == {"bwrap", "systemd-run", "systemctl", "punar-env", "env"}
GoodHost ==
    [root |-> FALSE, tools |-> [t \in Tools |-> RootTool],
     runtime |-> Part("user", FALSE), home |-> "/home/user",
     adapters |-> {Definition(<<"/usr/bin/claude", "--plain">>)}]
Hosts ==
    {GoodHost, [GoodHost EXCEPT !.root = TRUE],
     [GoodHost EXCEPT !.tools["env"].chain = <<Part("root", TRUE), Part("root", FALSE)>>],
     [GoodHost EXCEPT !.runtime.shared = TRUE],
     [GoodHost EXCEPT !.adapters = {Definition(<<"~/bin/agent">>)}],
     [GoodHost EXCEPT !.adapters = {Definition(<<"/usr/bin/claude", "--">>)}],
     [GoodHost EXCEPT !.adapters = @ \cup {Definition(<<>>)}]}

-----------------------------------------------------------------------------
Idle == [op |-> "none", step |-> "idle", doc |-> Scaffold, seen |-> "none", managed |-> FALSE,
         stood |-> 0, said |-> "nothing", mounts |-> {}, rows |-> {}]
NoBox == [state |-> "none", ours |-> FALSE, mount |-> "deny", id |-> 0]

EnvInit ==
    /\ present \in {{}, {Canonical}, {"punar-env.yml"}, {Canonical, "punar-env.yml"}}
    /\ document = Scaffold
    /\ host \in Hosts
    /\ image \in BOOLEAN
    /\ box = NoBox
    /\ cmd = [c \in EnvCommands |-> Idle]
    /\ podmanFaults = 0 /\ edits = 0

rest == <<present, document, host, edits>>

Says(c, what) == cmd' = [cmd EXCEPT ![c].step = "done", ![c].said = what]
GoesTo(c, step) == cmd' = [cmd EXCEPT ![c].step = step]

(* A podman call that fails although nothing is in its way.                 *)
PodmanFails == podmanFaults < MaxPodmanFaults /\ podmanFaults' = podmanFaults + 1

(* run: refuse_root, project_dir, load_manifest, and the operation.         *)
Start(c, op) ==
    /\ cmd[c].step = "idle" /\ op \in {"up", "shell", "status", "destroy", "agent"}
    /\ cmd' = [cmd EXCEPT ![c] =
         IF host.root \/ ~LoadManifest
         THEN [Idle EXCEPT !.op = op, !.step = "done", !.said = "refused"]
         ELSE [Idle EXCEPT !.op = op, !.doc = document,
                           !.stood = IF box.ours THEN 0 ELSE box.id,
                           !.step = CASE op = "up" -> "image"
                                      [] op = "agent" -> "prepare"
                                      [] OTHER -> "observe"]]
    /\ UNCHANGED <<image, box, podmanFaults, rest>>

(* op_init: a manifest that is there is only reported.                     *)
OpInit(c) ==
    /\ cmd[c].step = "idle" /\ ~host.root
    /\ \/ /\ Resolve(present) = "missing"
          /\ present' = {Canonical} /\ document' = Scaffold
          /\ cmd' = [cmd EXCEPT ![c] = [Idle EXCEPT !.op = "init", !.step = "done", !.said = "initialized"]]
       \/ /\ Resolve(present) # "missing"
          /\ cmd' = [cmd EXCEPT ![c] = [Idle EXCEPT !.op = "init", !.step = "done",
                       !.said = IF LoadManifest THEN "already" ELSE "refused"]]
          /\ UNCHANGED <<present, document>>
    /\ UNCHANGED <<image, box, podmanFaults, host, edits>>

(* ensure_image: image exists, else load; never a pull.                    *)
EnsureImage(c) ==
    /\ cmd[c].step = "image"
    /\ \/ image' = TRUE /\ GoesTo(c, "observe") /\ UNCHANGED podmanFaults
       \/ ~image /\ PodmanFails /\ Says(c, "failed") /\ UNCHANGED image
    /\ UNCHANGED <<box, rest>>

(* observe: an inspect that fails, for whatever reason, is "not created".   *)
ObserveContainer(c) ==
    /\ cmd[c].step = "observe"
    /\ \/ /\ cmd' = [cmd EXCEPT ![c].step = "act", ![c].seen = box.state,
                                ![c].managed = (box.state = "none" \/ box.ours)]
          /\ UNCHANGED podmanFaults
       \/ /\ PodmanFails
          /\ cmd' = [cmd EXCEPT ![c].step = "act", ![c].seen = "none", ![c].managed = TRUE]
    /\ UNCHANGED <<image, box, rest>>

Conflict(c) == cmd[c].seen # "none" /\ ~cmd[c].managed

(* podman run: refused while a container has the name.                     *)
RunContainer(c) ==
    IF box.state = "none" /\ box.id < MaxBoxes
    THEN /\ box' = [state |-> "running", ours |-> TRUE, mount |-> ProjectGrade(cmd[c].doc),
                    id |-> box.id + 1]
         /\ Says(c, "created")
    ELSE Says(c, "failed") /\ UNCHANGED box

(* op_up after observe: already up, start what is stopped, or create.       *)
OpUp(c) ==
    /\ cmd[c].step = "act" /\ cmd[c].op = "up"
    /\ \/ Conflict(c) /\ Says(c, "conflict") /\ UNCHANGED <<box, podmanFaults>>
       \/ ~Conflict(c) /\ cmd[c].seen = "running" /\ Says(c, "already up") /\ UNCHANGED <<box, podmanFaults>>
       \/ /\ ~Conflict(c) /\ cmd[c].seen = "stopped"
          /\ IF box.state = "none"
             THEN Says(c, "failed") /\ UNCHANGED box
             ELSE Says(c, "started") /\ box' = [box EXCEPT !.state = "running"]
          /\ UNCHANGED podmanFaults
       \/ ~Conflict(c) /\ cmd[c].seen = "none" /\ RunContainer(c) /\ UNCHANGED podmanFaults
       \/ ~Conflict(c) /\ cmd[c].seen # "running" /\ PodmanFails /\ Says(c, "failed") /\ UNCHANGED box
    /\ UNCHANGED <<image, rest>>

(* op_shell after require_running: podman exec, which needs it running.     *)
OpShell(c) ==
    /\ cmd[c].step = "act" /\ cmd[c].op = "shell"
    /\ Says(c, IF Conflict(c) THEN "conflict"
               ELSE IF cmd[c].seen # "running" THEN "not up"
               ELSE IF box.state = "running" THEN "shell" ELSE "failed")
    /\ UNCHANGED <<image, box, podmanFaults, rest>>

(* status: container_state_of and the labels of render, which are read off  *)
(* the manifest, not off the container.                                    *)
OpStatus(c) ==
    /\ cmd[c].step = "act" /\ cmd[c].op = "status"
    /\ Says(c, IF Conflict(c) THEN "conflict"
               ELSE IF cmd[c].seen = "none" THEN "declared"
               ELSE IF ProjectGrade(cmd[c].doc) = "deny" THEN "applied (no mount)"
               ELSE "applied (bind mount)")
    /\ UNCHANGED <<image, box, podmanFaults, rest>>

(* op_destroy after observe: podman rm -f of a container it manages.        *)
OpDestroy(c) ==
    /\ cmd[c].step = "act" /\ cmd[c].op = "destroy"
    /\ \/ cmd[c].seen = "none" /\ Says(c, "nothing to destroy") /\ UNCHANGED <<box, podmanFaults>>
       \/ Conflict(c) /\ Says(c, "conflict") /\ UNCHANGED <<box, podmanFaults>>
       \/ /\ cmd[c].seen # "none" /\ ~Conflict(c)
          /\ \/ /\ box' = [NoBox EXCEPT !.id = box.id]
                /\ Says(c, "destroyed") /\ UNCHANGED podmanFaults
             \/ PodmanFails /\ Says(c, "failed") /\ UNCHANGED box
    /\ UNCHANGED <<image, rest>>

(* op_agent up to the gate: the adapter, the tools, the private directories, *)
(* the mounts and the handoff the gate reads.                              *)
OpAgent(c) ==
    /\ cmd[c].step = "prepare"
    /\ IF FindAdapter(host, "claude") /\ RequireLaunchTools(host) /\ PrepareIsolation(host)
       THEN LET adapter == CHOOSE d \in host.adapters : d.name = "claude"
                command == ResolveCommand(adapter)
            IN  IF GateAccepts(command)
                THEN cmd' = [cmd EXCEPT ![c].step = "done", ![c].said = "launched",
                               ![c].rows = AuthorityRows(cmd[c].doc),
                               ![c].mounts = BubblewrapArgv(ProjectGrade(cmd[c].doc), command)]
                ELSE Says(c, "refused")
       ELSE Says(c, "refused")
    /\ UNCHANGED <<image, box, podmanFaults, rest>>

(* The user and podman by themselves: a container of that name made by      *)
(* hand, one removed or stopped, a manifest edited, added or taken away.    *)
ByHand ==
    /\ \/ box.state = "none" /\ box.id < MaxBoxes
          /\ box' = [state |-> "running", ours |-> FALSE, mount |-> "deny", id |-> box.id + 1]
       \/ box.state # "none" /\ box' = [NoBox EXCEPT !.id = box.id]
       \/ box.state = "running" /\ box' = [box EXCEPT !.state = "stopped"]
    /\ UNCHANGED <<image, cmd, podmanFaults, rest>>
EditManifest ==
    /\ edits < MaxEdits /\ edits' = edits + 1
    /\ \/ document' \in DocumentsSeen /\ UNCHANGED present
       \/ present' \in SUBSET {Canonical, "punar-env.yml"} /\ UNCHANGED document
    /\ UNCHANGED <<host, image, box, cmd, podmanFaults>>

CommandStep(c) ==
    \/ \E op \in {"up", "shell", "status", "destroy", "agent"} : Start(c, op)
    \/ OpInit(c) \/ EnsureImage(c) \/ ObserveContainer(c)
    \/ OpUp(c) \/ OpShell(c) \/ OpStatus(c) \/ OpDestroy(c) \/ OpAgent(c)

EnvNext == (\E c \in EnvCommands : CommandStep(c)) \/ ByHand \/ EditManifest
EnvSpec == EnvInit /\ [][EnvNext]_envVars

-----------------------------------------------------------------------------

(* What an agent can write outside its own session is the project, and only *)
(* when the grant shown with its launch is read_write; a project that is   *)
(* denied, or that the launch shows no row for, is not there at all        *)
(* (isolation.rs, "the declared project is the only host-owned writable    *)
(* tree").                                                                 *)
SandboxIsTheGrant ==
    \A c \in EnvCommands : cmd[c].said = "launched" =>
        LET shown == {r.decision : r \in {q \in cmd[c].rows : q.zone = "filesystem.project"}}
            outside == {m \in cmd[c].mounts :
                          m.source \notin {"session home", "session runtime", "tmpfs"}}
        IN  /\ {m.source : m \in {n \in outside : n.writable}}
                 = (IF shown = {"read_write"} THEN {"project"} ELSE {})
            /\ (\E m \in outside : m.source = "project") <=> shown \cap {"read_write", "read"} # {}

=============================================================================
