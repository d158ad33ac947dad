------------------------- MODULE ApprovalLifecycle -------------------------
(***************************************************************************)
(* What punard promises about an approval, without saying how it stores    *)
(* one: a question is put once, it is open until it is answered or lapses, *)
(* an answer is final, a yes is spent at most once, and a record that has  *)
(* been evicted does not come back.  Approvals.tla implements this         *)
(* (theorem Implementation); the credential broker is modelled             *)
(* against it.                                                             *)
(***************************************************************************)
CONSTANT Ids

VARIABLE stage

Stages == {"unasked", "pending", "approved", "denied", "expired", "consumed", "gone"}

\* The moves one approval can make in one step of the service.  A record may
\* lapse or be answered and be evicted by the same call.
Moves ==
    {"unasked"} \X {"pending", "gone"}
    \cup {"pending"} \X {"approved", "denied", "expired", "gone"}
    \cup {"approved"} \X {"consumed", "gone"}
    \cup {"denied", "expired", "consumed"} \X {"gone"}

LifecycleInit == stage = [i \in Ids |-> "unasked"]

\* One call may move several approvals: a sweep lapses all that are due.
LifecycleStep ==
    /\ stage' \in [Ids -> Stages]
    /\ \A i \in Ids : stage'[i] = stage[i] \/ <<stage[i], stage'[i]>> \in Moves

LifecycleSpec == LifecycleInit /\ [][LifecycleStep]_stage
=============================================================================
