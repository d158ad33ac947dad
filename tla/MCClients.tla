------------------------------ MODULE MCClients ------------------------------
(***************************************************************************)
(* The client side and the release repository for TLC.  Lens "vendor":     *)
(* three launches of one application, so that two may start together and a *)
(* third meet what they left; one supervisor killed, one refusal.  Lens    *)
(* "commands": three commands of a user, two changes of what the daemons   *)
(* offer.  Lens "update": one connection that checks and applies, a        *)
(* release rebuilt under its version, one channel change, one fault.       *)
(***************************************************************************)
EXTENDS VendorSession, ClientCommands, UpdateCheck

VARIABLE lens

clientsVars == <<lens, vendorVars, commandVars, vars>>

Pub(ch, v, halted, min, rollout, build) ==
    [channel |-> ch, current |-> v, halted |-> halted, min_supported |-> min,
     rollout_bps |-> rollout, build |-> build]
MCPublications ==
    << Pub("stable", 2, FALSE, 1, 2, 1), Pub("dev", 3, FALSE, 2, 4, 3),
       Pub("stable", 2, FALSE, 1, 4, 2) >>
Build(ch, v, from, valid) == [channel |-> ch, version |-> v, min_from |-> from, valid |-> valid]
MCBuilds == << Build("stable", 2, 1, TRUE), Build("stable", 2, 1, TRUE), Build("dev", 3, 2, TRUE) >>
MCBuckets == [v \in {2, 3} |-> 1]

MCInit == /\ lens \in {"vendor", "commands", "update"}
          /\ VendorInit
          /\ CommandInit
          /\ Init
          /\ lens # "commands" => offered = (CHOOSE d \in Digests : TRUE) /\ grants = {}
          /\ lens # "update" => running = 1 /\ source = "https"

VendorOnly == lens = "vendor" /\ UNCHANGED <<lens, commandVars, vars>>
CommandsOnly == lens = "commands" /\ UNCHANGED <<lens, vendorVars, vars>>
UpdateOnly == lens = "update" /\ UNCHANGED <<lens, vendorVars, commandVars>>
MCNext == \/ VendorOnly /\ VendorNext
          \/ CommandsOnly /\ CommandNext
          \/ UpdateOnly /\ Next

\* Somebody goes on asking without force; operations under way go on.
Checking(c) == UpdateOnly /\ (Step(c) \/ NoSuchChannel(c))
Somebody(c) == UpdateOnly /\ AskCheck(c, FALSE)
Aging == UpdateOnly /\ Ages
MCSpec == /\ MCInit /\ [][MCNext]_clientsVars
          /\ \A c \in Callers : WF_clientsVars(Checking(c)) /\ SF_clientsVars(Somebody(c))
          /\ WF_clientsVars(Aging)

\* A release or an application reaches the machine only as it was shown and
\* checked (app_install, prepare_release, update.check against update.apply).
InstallsWhatWasChecked == InstalledWasShown /\ PreparedIsOneBuild /\ AdmissionsAgree
=============================================================================
