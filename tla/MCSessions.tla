---------------------------- MODULE MCSessions ----------------------------
(***************************************************************************)
(* Who and what uses the machine, for TLC.  Lenses "sessions" and "cards": *)
(* one session, one unknown executable and one pid that is reused, on two  *)
(* threads; a behaviour starts managed, known and ordinary processes, or   *)
(* the unknown one, and time matters to cards only.  Threads are alike, so *)
(* a request is taken by Main when it is idle.  Lens "onboard": the first  *)
(* account and its recovery.  Lenses "tickets" and "login": tickets, and   *)
(* the greeter's dialog.                                                   *)
(***************************************************************************)
EXTENDS AgentRegistry, Onboarding, SignIn

CONSTANTS
    Overlap,    \* bound: connections to punar-onboardd served at a time
    CardEvents, \* bound: processes, restarts and instants of a card together
    Homes       \* what /home/<user> may be at first

VARIABLE lens
sessionsVars == <<lens, vars, onboardVars, signInVars>>

MCInit ==
    /\ lens \in {"sessions", "cards", "onboard", "tickets", "login"}
    /\ Init /\ OnboardInit(Homes) /\ SignInInit

Agents(l) == lens = l /\ UNCHANGED <<lens, onboardVars, signInVars>>
Account == lens = "onboard" /\ UNCHANGED <<lens, vars, signInVars>>
Greeter == lens \in {"tickets", "login"} /\ UNCHANGED <<lens, vars, onboardVars>>
Busy == {p \in Dialogs : procs[p].step # "idle"}
MainFirst == \A t \in Threads \ {Main} : call[t] = Idle /\ call'[t] # Idle => call[Main] # Idle

MCNext ==
    \/ /\ Agents("sessions") /\ Next /\ MainFirst
       /\ now' = now /\ \A p \in Pids : proc'[p] # None => proc'[p].kind.is # "suspect"
    \/ /\ Agents("cards") /\ Next /\ MainFirst
       /\ \A p \in Pids : proc'[p] # None => proc'[p].kind.is = "suspect"
       /\ faults' = 0 /\ births' + restarts' + now' <= CardEvents
       /\ \A t \in Threads : Scanning(t, "reconcile") /\ call'[t] = Idle => \A r \in drows' : ~r.cleared
       /\ drows' = drows \/ \E t \in Threads : call'[t] # call[t]
    \/ Account /\ OnboardNext /\ Cardinality(Busy') <= Overlap
    \/ Greeter /\ SignInNext /\ (lens = "tickets" <=> UNCHANGED login)

\* Threads run and the scan timer keeps firing; an onboarding step under way
\* goes on, a failed boot is tried again, and the person keeps asking.
Answering(t) == Agents("cards") /\ (RegisterInsert(t) \/ EndMark(t) \/ ScanStep(t))
Timer == Agents("cards") /\ \E t \in Threads : HandleScan(t)
Onboards(p) == Account /\ OnboardStep(p) /\ Cardinality(Busy') <= Overlap
Booting == Account /\ BootDone
Rebooting == Account /\ ready = "failed" /\ Reboot
Asking == Account /\ (\E p \in Dialogs : Connect(p, "create")) /\ Cardinality(Busy') <= Overlap
MCSpec ==
    /\ MCInit /\ [][MCNext]_sessionsVars
    /\ \A t \in Threads : WF_sessionsVars(Answering(t))
    /\ WF_sessionsVars(Timer)
    /\ \A p \in Processes : WF_sessionsVars(Onboards(p))
    /\ WF_sessionsVars(Booting) /\ WF_sessionsVars(Rebooting) /\ WF_sessionsVars(Asking)

(* Once processes stop coming and going the cards tell the truth: an        *)
(* unknown agent that runs has a card that is live or filed, and one that   *)
(* is gone has no live card, however stale the sightings applied on the way. *)
CardsConverge == lens = "cards" => <>[]CardsTell

(* A person who keeps trying gets an account, unless a removal failed and   *)
(* was ignored: no failed attempt leaves a state that refuses every later   *)
(* one (punar-onboardd, create_account).                                    *)
OnboardingCompletes == lens = "onboard" ~> (marker # NoValue \/ damaged)

(* What may happen once happens once: the end of a session is recorded and  *)
(* audited once, and a confirmation pays for one change (agentd's end and   *)
(* reap, punar-auth's tickets).                                             *)
AtMostOnce == EndsOnce /\ OneConfirmationOneChange
=============================================================================
