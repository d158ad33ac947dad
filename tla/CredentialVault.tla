-------------------------- MODULE CredentialVault --------------------------
(***************************************************************************)
(* What the credential broker promises, without saying how: a token comes  *)
(* into being once, on a permit that has not been used before; it is       *)
(* called valid only while it lives; and a token that is gone, because it  *)
(* was revoked, found expired, withdrawn or lost in a restart, does not    *)
(* come back.                                                              *)
(***************************************************************************)
CONSTANTS Tokens, Permits, StandingPermit, Unset

VARIABLES
    life,       \* [Tokens -> {"unborn", "live", "dead"}]
    basis,      \* [Tokens -> the permit it was issued on]
    answer      \* the last verdict a bearer was given: [token, verdict]

vaultVars == <<life, basis, answer>>

VaultInit ==
    /\ life = [t \in Tokens |-> "unborn"]
    /\ basis = [t \in Tokens |-> Unset]
    /\ answer = Unset

\* A policy of "allow" is a standing permit; a person's yes is a permit for
\* one token.  Making room may end the life of other tokens.
Issue(t, p, S) ==
    /\ life[t] = "unborn"
    /\ \A u \in S : life[u] = "live"
    /\ p = StandingPermit \/ \A u \in Tokens : basis[u] # p
    /\ life' = [u \in Tokens |-> IF u = t THEN "live" ELSE IF u \in S THEN "dead" ELSE life[u]]
    /\ basis' = [basis EXCEPT ![t] = p]
    /\ UNCHANGED answer

Withdraw(S) ==
    /\ \A t \in S : life[t] = "live"
    /\ life' = [t \in Tokens |-> IF t \in S THEN "dead" ELSE life[t]]
    /\ UNCHANGED <<basis, answer>>

Tell(t, verdict) ==
    /\ answer' = [token |-> t, verdict |-> verdict]
    /\ \/ verdict = "valid" /\ life[t] = "live" /\ UNCHANGED life
       \/ verdict = "expired" /\ life[t] = "live" /\ life' = [life EXCEPT ![t] = "dead"]
       \/ verdict = "unknown" /\ UNCHANGED life
    /\ UNCHANGED basis

VaultNext ==
    \/ \E S \in SUBSET Tokens : Withdraw(S)
    \/ \E t \in Tokens, p \in Permits \cup {StandingPermit}, S \in SUBSET Tokens : Issue(t, p, S)
    \/ \E t \in Tokens, v \in {"valid", "expired", "unknown"} : Tell(t, v)

VaultSpec == VaultInit /\ [][VaultNext]_vaultVars
=============================================================================
