------------------------------ MODULE MCDesktop ------------------------------
(***************************************************************************)
(* What runs on the desktop, for TLC: applications, web applications, the  *)
(* container of a project, the view of the connections and the rules that  *)
(* recognise an agent.  They share no state: the lens chooses the one that *)
(* moves.                                                                  *)
(***************************************************************************)
EXTENDS Applications, WebApps, ProjectContainer, NetworkView, Signatures, TLC
CONSTANTS f, v, w1, w2, o1, o2, c1, c2, i1, i2, e1, e2
VARIABLES
    lens,       \* the component that moves
    probe       \* a process and the rule files it is matched against
Quiet == [id \in WebIds |-> None]
Opinion(required, denied, web, deniedOrigins, allow) ==
    [rank |-> 1, required |-> required, denied |-> denied, webApps |-> web,
     deniedOrigins |-> deniedOrigins, allowUserInstall |-> allow]
Requires == <<Opinion({v}, {f}, [Quiet EXCEPT ![w1] = o1], {}, TRUE)>>
Denies == <<Opinion({}, {v}, Quiet, {o1}, FALSE)>>
RuleSets == {Requires, Denies}
\* Ladders of two documents over both origins, and of three over one.
Documents(origins) ==
    {layer \in {[rank |-> rank, required |-> {}, denied |-> {}, webApps |-> web,
                 deniedOrigins |-> out, allowUserInstall |-> None] :
                    rank \in 1..3, web \in [WebIds -> origins \cup {None}], out \in SUBSET origins} :
        Accepted(layer)}
Ladders == (Documents({o1, o2}) \X Documents({o1, o2}))
              \cup (Documents({o1}) \X Documents({o1}) \X Documents({o1}))

\* One command is enough to meet every machine and every manifest; two meet
\* on a sound one, where the user's podman and editor come between.
EnvScenario ==
    /\ podmanFaults' + edits' <= 1
    /\ podmanFaults' + edits' = 1 => box'.id <= 1
    /\ host # GoodHost => box' = NoBox /\ edits' = 0 /\ podmanFaults' = 0
    /\ (host # GoodHost \/ present # {Canonical} \/ document' # Scaffold) =>
         Cardinality({c \in EnvCommands : cmd'[c].step \notin {"idle", "done"}}) <= 1
    /\ \A c \in EnvCommands : cmd'[c].op = "agent" => box' = NoBox
EnvQuiet == present = {} /\ host = GoodHost /\ image = FALSE
ViewQuiet == live = {} /\ procs = [p \in Pids |-> Outside]

File(readable, globs, provenance) ==
    [readable |-> readable, globs |-> globs, provenance |-> provenance]
AdapterFile(readable, globs) == [readable |-> readable, rule |-> [comm |-> {"claude"}, globs |-> globs]]
Process(comm, text, directory, name, home) ==
    [comm |-> comm, text |-> text, path |-> [directory |-> directory, name |-> name], home |-> home]
GlobProbes ==
    {[adapter |-> AdapterFile(TRUE, {pattern}), suspected |-> File(TRUE, {}, {}),
      entry |-> Process("sh", text, "/usr", "tool", "none")] : pattern \in Patterns, text \in Texts}
RuleProbes ==
    {[adapter |-> AdapterFile(readable, {}),
      suspected |-> File(sound, {<<Star>>} \ {named}, {[require |-> require, prefixes |-> prefixes, tokens |-> tokens]}),
      entry |-> Process(comm, <<>>, directory, name, home)] :
        readable \in BOOLEAN, sound \in BOOLEAN, named \in {<<Star>>, <<>>}, comm \in {"claude", "sh"},
        require \in {"both", "path", "absent"}, prefixes \in {{}, {"/tmp"}, {"home"}},
        tokens \in {{}, {"agent"}}, directory \in {"/tmp", "/home/me", "/usr"},
        name \in {"agent", "tool"}, home \in {"none", "/home/me"}}

MCInit == /\ lens \in {"apps", "life", "race", "rules", "env", "sockets", "denials", "signatures"}
          /\ AppsInit(None)
          /\ \E rules \in CASE lens = "race" -> {Requires}
                              [] lens = "rules" -> Ladders
                              [] OTHER -> {None} : WebInit(rules)
          /\ EnvInit /\ (lens # "env" => EnvQuiet)
          /\ ViewInit /\ (lens \notin {"sockets", "denials"} => ViewQuiet)
          /\ IF lens = "signatures" THEN probe \in GlobProbes \/ probe \in RuleProbes
                                    ELSE probe = None
OneOrigin == \A c \in Commands : webJobs'[c] # WebIdle /\ webJobs'[c].rec # None =>
                                    webJobs'[c].rec.origin = o1
OneCommand == lens = "life" => \A c \in Commands \ {c1} : webJobs'[c] = WebIdle
MCNext == /\ UNCHANGED <<lens, probe>>
          /\ \/ /\ lens = "apps"
                /\ \/ \E t \in AppThreads : AppStep(t)
                   \/ RestartDaemon
                   \/ \E rules \in RuleSets : ChangeRules(rules)
                /\ UNCHANGED <<webVars, envVars, viewVars>>
             \/ /\ lens \in {"life", "race"}
                /\ \/ WebNext /\ OneCommand /\ OneOrigin
                   \/ /\ lens = "life"
                      /\ \E rules \in RuleSets \cup {None} : WebRulesChange(rules)
                /\ UNCHANGED <<appVars, envVars, viewVars>>
             \/ lens = "env" /\ EnvNext /\ EnvScenario /\ UNCHANGED <<appVars, webVars, viewVars>>
             \/ /\ ViewNext
                /\ \/ lens = "sockets" /\ pass.count = 0 /\ UNCHANGED <<relay, refused, restarts>>
                   \/ lens = "denials" /\ used' = 0 /\ UNCHANGED procs
                /\ UNCHANGED <<appVars, webVars, envVars>>
\* The two icons are alike, and so are the two commands; no lens moves both.
Symmetry == {p \in Permutations({i1, i2, e1, e2}) :
                /\ {p[i1], p[i2]} = {i1, i2}
                /\ p[i1] = i2 <=> p[e1] = e2}
Spec == MCInit /\ [][MCNext]_<<lens, probe, appVars, webVars, envVars, viewVars>>

\* The rules of every probe mean what they say (Signatures).
SignaturesMean == probe # None => RulesMeanWhatTheySay(probe)
=============================================================================
