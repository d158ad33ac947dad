--------------------------- MODULE ClientCommands ---------------------------
(***************************************************************************)
(* The commands of punarctl that take more than one step: a prompt, a look *)
(* at the daemon before the call that changes something, or a wait.  The   *)
(* daemons appear as what the commands ask them for; they change on their  *)
(* own between two calls of a command.                                     *)
(***************************************************************************)
EXTENDS Integers, FiniteSets

CONSTANTS
    Digests,        \* package digests the application source offers in turn
    GrantIds,       \* privilege grants of the user
    MaxCommands, MaxChanges,        \* bounds
    Nothing

EXIT_ERROR == 1
EXIT_USAGE == 2
EXIT_DENIED == 3
EXIT_APPROVAL_REQUIRED == 4
EXIT_UNREACHABLE == 5

VARIABLES
    approval,       \* the approval the user may wait for
    event,          \* the inotify watch has seen approvals.json change
    offered,        \* the digest the source verifies now
    installed,
    grants,
    cmd,            \* the running command, or the one that ended last
    shown,          \* history: digests the user was shown or named
    commands, changes

daemonVars == <<approval, offered, installed, grants>>
commandVars == <<daemonVars, event, cmd, shown, commands, changes>>

ASSUME CommandAssumption == Nothing \notin Digests /\ MaxCommands \in Nat /\ MaxChanges \in Nat

Prompted == {"enroll_stop", "app_remove", "app_update", "purge"}
Plain == {"set", "request", "get", "validate", "apply"}
Names == Prompted \cup Plain \cup {"wait", "install", "revoke", "inspect", "ledger"}
Idle == [name |-> Nothing, pc |-> "done", saw |-> Nothing, exit |-> 0, watch |-> FALSE]

CommandInit ==
    /\ approval = "pending" /\ event = FALSE
    /\ offered \in Digests /\ installed = Nothing
    /\ grants \in SUBSET GrantIds
    /\ cmd = Idle /\ shown = {} /\ commands = 0 /\ changes = 0

CmdAt(name, pc) == cmd.name = name /\ cmd.pc = pc
Then(pc) == cmd' = [cmd EXCEPT !.pc = pc]
Exit(code) == cmd' = [cmd EXCEPT !.pc = "done", !.exit = code]

\* call_with_timeout and CallError::exit_code: an answer with its exit code, or
\* none in time, whatever the daemon did.
ServerErrors == {EXIT_ERROR, EXIT_DENIED, EXIT_APPROVAL_REQUIRED}
CallFails == \E code \in ServerErrors \cup {EXIT_UNREACHABLE} : Exit(code)
\* A call that only reads never asks for an approval.
ReadFails == \E code \in {EXIT_ERROR, EXIT_DENIED, EXIT_UNREACHABLE} : Exit(code)

-----------------------------------------------------------------------------
\* main: the checks of the arguments, then the prompt if there is a terminal

Start(name) ==
    /\ cmd.pc = "done" /\ commands < MaxCommands
    /\ commands' = commands + 1
    /\ cmd' = [Idle EXCEPT !.name = name,
                           !.pc = IF name \in Prompted THEN "prompt"
                                  ELSE IF name \in Plain THEN "call" ELSE "look"]
    /\ event' = FALSE
    /\ UNCHANGED <<daemonVars, shown, changes>>

Same == UNCHANGED <<daemonVars, event, shown, commands, changes>>

\* A reason or a duration that the daemon would refuse; a purge without a scope
UsageError ==
    /\ CmdAt("request", "call") \/ CmdAt("purge", "prompt")
    /\ Exit(EXIT_USAGE)
    /\ Same
\* token_from_stdin
NoToken == CmdAt("validate", "call") /\ Exit(EXIT_USAGE) /\ Same

\* Anything but "yes" ends the command with nothing done.
Prompt ==
    /\ cmd.pc = "prompt"
    /\ Then("call") \/ Exit(EXIT_ERROR)
    /\ Same

-----------------------------------------------------------------------------
\* One call, its answer rendered.  What these calls do is the business of the
\* daemons' own modules.

Rpc == Exit(0) \/ CallFails
EnrollStop == CmdAt("enroll_stop", "call") /\ Rpc /\ Same
AppRemove == CmdAt("app_remove", "call") /\ Rpc /\ Same
\* One application that failed makes a failure of the command.
AppUpdate == CmdAt("app_update", "call") /\ (Rpc \/ Exit(EXIT_ERROR)) /\ Same
Purge == CmdAt("purge", "call") /\ Rpc /\ Same
PrivilegeRequest == CmdAt("request", "call") /\ Rpc /\ Same
SecretsValidate == CmdAt("validate", "call") /\ Rpc /\ Same
\* An answer without a value is an error, not an empty credential.
SecretsGet == CmdAt("get", "call") /\ (Rpc \/ Exit(EXIT_ERROR)) /\ Same
\* An overridden setting is explained with a second call, which may fail.
CapabilitiesSet == CmdAt("set", "call") /\ (Rpc \/ Then("explain")) /\ Same
ExplainOverride == CmdAt("set", "explain") /\ Exit(0) /\ Same

\* With --reboot the device restarts only after the transaction; its selection
\* is durable if the restart fails.
UpdateMutation == CmdAt("apply", "call") /\ (Then("restart") \/ Rpc) /\ Same
RestartAfterUpdate == CmdAt("apply", "restart") /\ (Exit(0) \/ Exit(EXIT_ERROR)) /\ Same

\* agents inspect, privacy ledger: a list, then what each session accessed; a
\* session that cannot be read is left out.
AgentsInspect == CmdAt("inspect", "look") /\ (Then("access") \/ ReadFails) /\ Same
PrivacyLedger == CmdAt("ledger", "look") /\ (Then("access") \/ ReadFails) /\ Same
CollectLedgers == cmd.pc = "access" /\ Exit(0) /\ Same

OneCall == \/ EnrollStop \/ AppRemove \/ AppUpdate \/ Purge \/ PrivilegeRequest
           \/ SecretsValidate \/ SecretsGet \/ CapabilitiesSet \/ ExplainOverride
           \/ UpdateMutation \/ RestartAfterUpdate
           \/ AgentsInspect \/ PrivacyLedger \/ CollectLedgers

-----------------------------------------------------------------------------
\* app install

\* inspect_app; a digest the user named has to be the one the source has now.
InspectApp ==
    /\ CmdAt("install", "look")
    /\ \/ /\ cmd' = [cmd EXCEPT !.pc = "prompt install", !.saw = offered]
          /\ shown' = shown \cup {offered}
       \/ \E named \in Digests :
            /\ shown' = shown \cup {named}
            /\ IF named = offered
               THEN cmd' = [cmd EXCEPT !.pc = "prompt install", !.saw = named]
               ELSE Exit(EXIT_ERROR)
       \/ ReadFails /\ UNCHANGED shown
    /\ UNCHANGED <<daemonVars, event, commands, changes>>

PromptInstall ==
    /\ CmdAt("install", "prompt install")
    /\ Then("call") \/ Exit(EXIT_ERROR)
    /\ Same

\* Mutant: the daemon is asked for the application, not for the digest shown.
CallInstallLatest ==
    /\ CmdAt("install", "call")
    /\ \/ installed' = offered /\ (Exit(0) \/ Exit(EXIT_UNREACHABLE))
       \/ CallFails /\ UNCHANGED installed
    /\ UNCHANGED <<approval, offered, grants, event, shown, commands, changes>>

\* apps.install with the digest that was shown; the daemon verifies the package
\* against it once more.
CallInstall ==
    /\ CmdAt("install", "call")
    /\ \/ /\ offered = cmd.saw
          /\ installed' = cmd.saw
          /\ Exit(0) \/ Exit(EXIT_UNREACHABLE)
       \/ CallFails /\ UNCHANGED installed
    /\ UNCHANGED <<approval, offered, grants, event, shown, commands, changes>>

-----------------------------------------------------------------------------
\* privilege revoke without a grant: only if there is exactly one

LookAtGrants ==
    /\ CmdAt("revoke", "look")
    /\ \/ /\ Cardinality(grants) = 1
          /\ cmd' = [cmd EXCEPT !.pc = "call", !.saw = CHOOSE g \in grants : TRUE]
       \/ Cardinality(grants) # 1 /\ Exit(EXIT_USAGE)
       \/ ReadFails
    /\ Same

CallRevoke ==
    /\ CmdAt("revoke", "call")
    /\ \/ /\ cmd.saw \in grants
          /\ grants' = grants \ {cmd.saw}
          /\ Exit(0) \/ Exit(EXIT_UNREACHABLE)
       \/ CallFails /\ UNCHANGED grants
    /\ UNCHANGED <<approval, offered, installed, event, shown, commands, changes>>

-----------------------------------------------------------------------------
\* approvals wait

\* wait_exit
WaitExit(status) ==
    IF status = "approved" THEN 0 ELSE IF status = "denied" THEN EXIT_DENIED ELSE EXIT_ERROR

\* approvals.get at the start: a decided approval is told at once.
FirstGet ==
    /\ CmdAt("wait", "look")
    /\ \/ IF approval = "pending" THEN Then("watch") ELSE Exit(WaitExit(approval))
       \/ ReadFails
    /\ Same

\* DirWatch::on; without a watch the loop asks again now and then.
WatchSummary ==
    /\ CmdAt("wait", "watch")
    /\ \E on \in BOOLEAN : cmd' = [cmd EXCEPT !.pc = "loop", !.watch = on]
    /\ Same

\* DirWatch::wait has drained a queue with the summary's name in it, or there is
\* no watch and the recheck is due.
Woken == event \/ ~cmd.watch

\* The answer always comes from approvals.get.
Wake ==
    /\ CmdAt("wait", "loop")
    /\ Woken
    /\ event' = FALSE
    /\ \/ IF approval = "pending" THEN UNCHANGED cmd ELSE Exit(WaitExit(approval))
       \/ ReadFails
    /\ UNCHANGED <<daemonVars, shown, commands, changes>>

\* min(--timeout, expires_at) is over: one last look.
BudgetEnds ==
    /\ CmdAt("wait", "loop")
    /\ \/ IF approval = "pending" THEN Exit(EXIT_APPROVAL_REQUIRED)
          ELSE Exit(WaitExit(approval))
       \/ ReadFails
    /\ Same

-----------------------------------------------------------------------------
\* What the daemons do meanwhile

\* The approval is resolved or lapses; its summary file is rewritten, if it can be.
Resolve(status) ==
    /\ approval = "pending"
    /\ approval' = status
    /\ event' \in {event, cmd.watch \/ event}
    /\ UNCHANGED <<offered, installed, grants, cmd, shown, commands, changes>>

Change ==
    /\ changes < MaxChanges /\ changes' = changes + 1
    /\ \/ offered' \in Digests /\ UNCHANGED grants
       \/ grants' \in SUBSET GrantIds /\ UNCHANGED offered
    /\ UNCHANGED <<approval, installed, event, cmd, shown, commands>>

CommandStep == \/ UsageError \/ NoToken \/ Prompt \/ OneCall
               \/ InspectApp \/ PromptInstall \/ CallInstall \/ LookAtGrants \/ CallRevoke
               \/ FirstGet \/ WatchSummary \/ Wake \/ BudgetEnds
CommandNext == \/ \E n \in Names : Start(n)
               \/ CommandStep
               \/ \E s \in {"approved", "denied", "expired"} : Resolve(s)
               \/ Change

-----------------------------------------------------------------------------
\* What is installed has the digest its user was shown or named, though the
\* source offers another one by the time of the call
\* (app_install, confirm_metadata_sha256).
InstalledWasShown == installed # Nothing => installed \in shown
=============================================================================
