---------------------------- MODULE MCApprovals ----------------------------
(***************************************************************************)
(* Small instances of Approvals.  Lens "faults": one approval and every    *)
(* fault.  Lens "calm": two approvals in a store with room for one, clean  *)
(* restarts and no fault.  Lens "crash": crashes alone.                    *)
(***************************************************************************)
EXTENDS Approvals, TLC

CONSTANTS alice, fw, tz, agt, a1, a2, g1, g2

MCUsers == {alice}
MCSessions == {agt}
MCCapabilities == {fw, tz}
\* The firewall is behind an approval for agents, the time zone is not.
MCRuling == [c \in MCCapabilities |-> IF c = fw THEN "approval_required" ELSE "allow"]

\* The credential broker's request on behalf of a session, asking for
\* more time than the ceiling, and a root caller's privilege_request answered
\* by somebody other than its beneficiary, asking for less than the floor.
MCCreateCalls ==
    {[kind |-> "credential_request", capability |-> tz, requester |-> agt,
      user |-> alice, uid |-> alice, minutes |-> 0, runnable |-> FALSE, ttl |-> 5],
     [kind |-> "privilege_request", capability |-> tz, requester |-> Root,
      user |-> alice, uid |-> Root, minutes |-> 2, runnable |-> TRUE, ttl |-> 0]}

MCDurations == {3}

CalmIds == {a1, a2}
VARIABLE lens
mcVars == <<lens, vars>>

Calm == INSTANCE Approvals WITH
    Ids <- CalmIds, Faults <- {"restart"}, MaxTime <- 4, LastRequest <- 1,
    MAX_PENDING_APPROVALS <- 1, MAX_APPROVAL_RECORDS <- 1

MCInit == (lens = "faults" /\ Init) \/ (lens = "calm" /\ Calm!Init)
CalmStep(A) == lens = "calm" /\ A /\ UNCHANGED lens
\* Identifiers are drawn at random and differ in nothing: taken in order.
InOrder == /\ a2 \in raised' => a1 \in raised'
           /\ minted'[g2] # None => minted'[g1] # None
MCNext == \/ lens = "faults" /\ Next /\ UNCHANGED lens /\ InOrder
          \/ CalmStep(Calm!Next) /\ InOrder
\* The reconcile timer runs a sweep forever, a restarted daemon comes back, a
\* handler that holds the mutex finishes, and time passes.
MCSpec == /\ MCInit /\ [][MCNext]_mcVars
          /\ WF_mcVars(CalmStep(Calm!SweepOnly)) /\ WF_mcVars(CalmStep(Calm!PersistResolution))
          /\ WF_mcVars(CalmStep(Calm!Restart)) /\ WF_mcVars(CalmStep(Calm!Tick))

CrashSpec == lens = "crash" /\ Init /\ [][Next /\ UNCHANGED lens]_mcVars

-----------------------------------------------------------------------------
\* While no write fails and the daemon stops only between requests, a request
\* is carried out at most once, a live grant has a recorded decision, every
\* lapse is audited once, what was handed back stays gone, and the stores stay
\* within their bounds (m9.rs resolve_and_execute, sweep; approvals.rs put).
CalmIsExact == lens = "calm" => Calm!Exact

\* Once nobody asks any more, every question is closed, by an answer or by
\* expiry, and every grant is gone from disk: none outlives its window for
\* good (the sweep of every reconcile, and of every listing).
EverythingLapses ==
    <>[](lens = "calm" =>
            /\ \A i \in CalmIds : files[i] # None => IsTerminal(files[i])
            /\ \A g \in GrantIds : grantFiles[g] = None)
=============================================================================
