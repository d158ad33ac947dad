------------------------------ MODULE Secrets ------------------------------
(***************************************************************************)
(* punar-secrets, the credential broker (crates/punar-secrets), beside the *)
(* approval service of punard it depends on (ApprovalLifecycle).           *)
(*                                                                         *)
(* One thread serves each connection.  A credential.request is as many     *)
(* steps as it takes locks and makes calls: the policy decision, the list  *)
(* of candidate approvals, one approvals.consume per candidate,            *)
(* approvals.create, the token store, the audit trail, and the withdrawal  *)
(* of a token that could not be recorded.  credential.validate and         *)
(* credential.revoke each take the token-store lock once.                  *)
(*                                                                         *)
(* A call to punard can fail before it has an effect, or after it (the     *)
(* answer is lost or late); the broker cannot tell the two apart.  The     *)
(* token store is in memory and a restart empties it.  The wall clock may  *)
(* be set back.                                                            *)
(***************************************************************************)
EXTENDS ApprovalLifecycle, Integers, FiniteSets, Sequences, Functions

CONSTANTS
    Handlers,
    Requesters,         \* requester ids: accounts and agent sessions
    Classes,            \* the catalogue's class ids
    Catalog,            \* [Classes -> [default_ttl, max_ttl]]
    TTL_MIN_SECS,
    Defaults,           \* the AI defaults: [Classes -> a grant or "unstated"]
    OrgDirs,            \* contents the organisation's policy directory may have
    Tokens,             \* token values (256 random bits in the code)
    MAX_LIVE_TOKENS,
    MAX_PENDING_PER_REQUESTER,
    Unset,
    Ttls,               \* lifetimes asked for; Unset asks for the default
    MaxTime,            \* bound: the clock stops here
    MaxSetBacks,        \* bound: how often the clock is set back
    MaxBrokerFaults     \* bound: lost answers, failed writes and restarts

\* What the code keeps in memory of a request and of a token, the documents
\* it reads, and what a token is accounted to.
PolicyDocument == [rank : Nat, readable : BOOLEAN, envelope : BOOLEAN,
                   says : [Classes -> {"allow", "request", "deny", "unstated"}]]
Question == [who : Requesters, class : Classes]
RequestState == [step : {"list", "consume", "create", "issue", "record", "withdraw"},
         who : Requesters, class : Classes, ttl : Ttls, permit : Ids \cup {"policy"},
         todo : Seq(Ids), token : Tokens \cup {Unset}]
IssuedRecord == [class : Classes, expires : Nat]
Warrant == [who : Requesters, class : Classes, permit : Ids \cup {"policy"}, under : OrgDirs]

ASSUME SecretsAssumption ==
    /\ \A S \in SUBSET Ids : Cardinality(S) \in Nat    \* Ids is finite
    /\ "policy" \notin Ids
    /\ Unset \notin Ids \cup Tokens \cup Nat \cup Question \cup RequestState \cup IssuedRecord \cup Warrant
    /\ Defaults \in [Classes -> {"allow", "request", "deny", "unstated"}]
    /\ OrgDirs \subseteq Seq(PolicyDocument)
    /\ Catalog \in [Classes -> [default_ttl : Nat, max_ttl : Nat]]
    /\ TTL_MIN_SECS \in Nat
    /\ Ttls \subseteq Nat \cup {Unset}

VARIABLES
    asked,          \* [Ids -> what the approval is about]
    lapsed,         \* approvals whose expires_at has passed
    policy,         \* the documents the broker loaded when it started
    entries,        \* the token store: [Tokens -> IssuedRecord or Unset]
    request,        \* [Handlers -> the request being served, or Unset]
    clock, setBacks, brokerFaults,
    issued,         \* tokens ever made
    warrant,        \* [Tokens -> who, what and on which permit]
    recorded,       \* tokens with an "issued" event in the audit trail
    handed,         \* tokens whose value a requester was given
    verdict         \* the last answer of credential.validate

punardVars == <<stage, asked, lapsed>>
ghostVars == <<issued, warrant, recorded, handed, verdict>>
timeVars == <<clock, setBacks>>
secretsVars == <<punardVars, policy, entries, request, timeVars, brokerFaults, ghostVars>>

-----------------------------------------------------------------------------
(* Policy (policy.rs) and catalogue (classes.rs).                          *)

OsSecureDefaultRank == 6

\* load: the defaults come before the documents of the organisation.
Documents(dir) ==
    <<[rank |-> OsSecureDefaultRank, readable |-> TRUE, envelope |-> TRUE, says |-> Defaults]>> \o dir

\* An organisation document without a provenance envelope is no layer.
Layers(dir) == {i \in DOMAIN Documents(dir) : Documents(dir)[i].envelope}
Stating(dir, c) == {i \in Layers(dir) : Documents(dir)[i].says[c] # "unstated"}

\* resolve: the strongest rung, and the first of equals.
Stronger(dir, i, j) ==
    \/ Documents(dir)[i].rank < Documents(dir)[j].rank
    \/ Documents(dir)[i].rank = Documents(dir)[j].rank /\ i <= j
StrongestOf(dir, c) == CHOOSE i \in Stating(dir, c) : \A j \in Stating(dir, c) : Stronger(dir, i, j)

\* credential_decision: a layer that cannot be read or parsed breaks every
\* decision, and it fails closed too when no layer names the credential.
CredentialDecision(dir, c) ==
    IF (\E i \in Layers(dir) : ~Documents(dir)[i].readable) \/ Stating(dir, c) = {}
    THEN "deny"
    ELSE Documents(dir)[StrongestOf(dir, c)].says[c]

\* effective_ttl clamps to the class's window; a class whose maximum is zero
\* is never issued.
EffectiveTtl(c, ttl) ==
    LET most == Catalog[c].max_ttl
        least == IF TTL_MIN_SECS < most THEN TTL_MIN_SECS ELSE most
        wanted == IF ttl = Unset THEN Catalog[c].default_ttl ELSE ttl
    IN  IF wanted < least THEN least ELSE IF wanted > most THEN most ELSE wanted

Issuable(c) == Catalog[c].max_ttl > 0

-----------------------------------------------------------------------------
SecretsInit ==
    /\ LifecycleInit
    /\ asked = [i \in Ids |-> Unset]
    /\ lapsed = {}
    /\ policy \in OrgDirs
    /\ entries = [t \in Tokens |-> Unset]
    /\ request = [h \in Handlers |-> Unset]
    /\ clock = 0 /\ setBacks = 0 /\ brokerFaults = 0
    /\ issued = {} /\ recorded = {} /\ handed = {}
    /\ warrant = [t \in Tokens |-> Unset]
    /\ verdict = Unset

Finish(h) == request' = [request EXCEPT ![h] = Unset]
Go(h, step) == request' = [request EXCEPT ![h].step = step]

\* Something outside the broker's control goes wrong.
BrokerFault ==
    /\ brokerFaults < MaxBrokerFaults
    /\ brokerFaults' = brokerFaults + 1

\* handle_request: the requester is the peer's agent session or account.
\* "deny" is audited and refused on the spot.
CredentialRequest(h, who, c, ttl) ==
    /\ request[h] = Unset
    /\ \E step \in {"issue", "list"} :
          /\ CredentialDecision(policy, c) = IF step = "issue" THEN "allow" ELSE "request"
          /\ request' = [request EXCEPT ![h] =
                [step |-> step, who |-> who, class |-> c, ttl |-> ttl, permit |-> "policy",
                 todo |-> <<>>, token |-> Unset]]
    /\ UNCHANGED <<punardVars, policy, entries, timeVars, brokerFaults, ghostVars>>

\* A call to punard that fails without an effect: upstream_failure audits and
\* refuses.
PunardUnreachable(h) ==
    /\ request[h] # Unset
    /\ request[h].step \in {"list", "consume", "create"}
    /\ BrokerFault
    /\ Finish(h)
    /\ UNCHANGED <<punardVars, policy, entries, timeVars, ghostVars>>

\* candidates: approved, unspent approvals for this class and requester.
Candidate(i, call) ==
    /\ stage[i] = "approved"
    /\ asked[i].who = call.who
    /\ asked[i].class = call.class

\* approvals.list names its records in no particular order.
Orders(S) == Bijection(1 .. Cardinality(S), S)

ListCandidates(h) ==
    /\ request[h] # Unset
    /\ request[h].step = "list"
    /\ \E order \in Orders({i \in Ids : Candidate(i, request[h])}) :
        request' = [request EXCEPT ![h].todo = order, ![h].step = "consume"]
    /\ UNCHANGED <<punardVars, policy, entries, timeVars, brokerFaults, ghostVars>>

\* Mutant: any answer to approvals.consume counts as a yes.
UsableAlways(i) == TRUE

\* approvals.consume succeeds (punard's MayConsume).
Usable(i) == stage[i] = "approved" /\ i \notin lapsed

\* The loop over the candidates: the first approval that can be spent is,
\* a refused one is passed over, and an error after the effect burns the
\* approval and refuses the request.
ConsumeNext(h) ==
    /\ request[h] # Unset
    /\ request[h].step = "consume"
    /\ IF request[h].todo = <<>>
       THEN Go(h, "create") /\ UNCHANGED <<stage, brokerFaults>>
       ELSE LET i == Head(request[h].todo)
            IN  \/ /\ Usable(i)
                   /\ stage' = [stage EXCEPT ![i] = "consumed"]
                   /\ request' = [request EXCEPT ![h].permit = i, ![h].step = "issue"]
                   /\ UNCHANGED brokerFaults
                \/ /\ Usable(i)
                   /\ stage' = [stage EXCEPT ![i] = "consumed"]
                   /\ BrokerFault
                   /\ Finish(h)
                \/ /\ ~Usable(i)
                   /\ request' = [request EXCEPT ![h].todo = Tail(@)]
                   /\ UNCHANGED <<stage, brokerFaults>>
    /\ UNCHANGED <<asked, lapsed, policy, entries, timeVars, ghostVars>>

OpenFor(who) == {i \in Ids : stage[i] = "pending" /\ i \notin lapsed /\ asked[i].who = who}

\* approvals.create: punard refuses a flood, records the question otherwise.
\* Either way nothing is issued, and whether the answer arrives changes only
\* what the requester is told.
CreateApprovalFor(h) ==
    /\ request[h] # Unset
    /\ request[h].step = "create"
    /\ LET who == request[h].who
       IN  \/ /\ Cardinality(OpenFor(who)) < MAX_PENDING_PER_REQUESTER
              /\ \E i \in Ids :
                    /\ stage[i] = "unasked"
                    /\ stage' = [stage EXCEPT ![i] = "pending"]
                    /\ asked' = [asked EXCEPT ![i] = [who |-> who, class |-> request[h].class]]
           \/ /\ \/ Cardinality(OpenFor(who)) >= MAX_PENDING_PER_REQUESTER
                 \/ \A i \in Ids : stage[i] # "unasked"
              /\ UNCHANGED <<stage, asked>>
    /\ Finish(h)
    /\ UNCHANGED <<lapsed, policy, entries, timeVars, brokerFaults, ghostVars>>

-----------------------------------------------------------------------------
(* The token store (store.rs) and issue (server.rs).                       *)

IsExpired(e) == clock >= e.expires
InStore(es) == {t \in Tokens : es[t] # Unset}
DropExpired(es) == [t \in Tokens |-> IF es[t] # Unset /\ IsExpired(es[t]) THEN Unset ELSE es[t]]

\* A full store forgets its expired entries before it refuses.
Room == IF Cardinality(InStore(entries)) >= MAX_LIVE_TOKENS THEN DropExpired(entries) ELSE entries

IssueToken(h) ==
    /\ request[h] # Unset
    /\ request[h].step = "issue"
    /\ LET call == request[h]
           ttl == EffectiveTtl(call.class, call.ttl)
       IN  \/ /\ ~Issuable(call.class) \/ ttl = 0
              /\ Finish(h)
              /\ UNCHANGED <<entries, issued, warrant, brokerFaults>>
           \/ /\ Issuable(call.class) /\ ttl # 0
              /\ Cardinality(InStore(Room)) >= MAX_LIVE_TOKENS
              /\ entries' = Room
              /\ Finish(h)
              /\ UNCHANGED <<issued, warrant, brokerFaults>>
           \/ /\ Issuable(call.class) /\ ttl # 0
              /\ Cardinality(InStore(Room)) < MAX_LIVE_TOKENS
              /\ \/ /\ \E t \in Tokens \ issued :
                        /\ entries' = [Room EXCEPT ![t] =
                                [class |-> call.class, expires |-> clock + ttl]]
                        /\ issued' = issued \cup {t}
                        /\ warrant' = [warrant EXCEPT ![t] =
                                [who |-> call.who, class |-> call.class,
                                 permit |-> call.permit, under |-> policy]]
                        /\ request' = [request EXCEPT ![h].token = t, ![h].step = "record"]
                    /\ UNCHANGED brokerFaults
                 \/ \* the kernel gave no random bytes
                    /\ BrokerFault
                    /\ entries' = Room
                    /\ Finish(h)
                    /\ UNCHANGED <<issued, warrant>>
    /\ UNCHANGED <<punardVars, policy, timeVars, recorded, handed, verdict>>

\* Mutant: a failed append is logged and the token handed out all the same.
RecordAnyway(h) ==
    /\ request[h] # Unset
    /\ request[h].step = "record"
    /\ handed' = handed \cup {request[h].token}
    /\ Finish(h)
    /\ \/ recorded' = recorded \cup {request[h].token} /\ UNCHANGED brokerFaults
       \/ BrokerFault /\ UNCHANGED recorded
    /\ UNCHANGED <<punardVars, policy, entries, timeVars, issued, warrant, verdict>>

\* try_audit: the value is returned only when the event is on disk.
RecordIssue(h) ==
    /\ request[h] # Unset
    /\ request[h].step = "record"
    /\ \/ /\ recorded' = recorded \cup {request[h].token}
          /\ handed' = handed \cup {request[h].token}
          /\ Finish(h)
          /\ UNCHANGED brokerFaults
       \/ /\ BrokerFault
          /\ Go(h, "withdraw")
          /\ UNCHANGED <<recorded, handed>>
    /\ UNCHANGED <<punardVars, policy, entries, timeVars, issued, warrant, verdict>>

WithdrawUnrecorded(h) ==
    /\ request[h] # Unset
    /\ request[h].step = "withdraw"
    /\ entries' = [entries EXCEPT ![request[h].token] = Unset]
    /\ Finish(h)
    /\ UNCHANGED <<punardVars, policy, timeVars, brokerFaults, ghostVars>>

\* TokenStore::present: a value presented for another class is unknown.
Presented(t, c) ==
    LET e == entries[t]
    IN  IF e = Unset \/ (c # Unset /\ c # e.class) THEN "unknown"
        ELSE IF IsExpired(e) THEN "expired" ELSE "valid"

\* credential.validate: an expired entry is told once and forgotten.
Present(t, c) ==
    /\ t \in handed
    /\ verdict' = [token |-> t, verdict |-> Presented(t, c)]
    /\ entries' = IF Presented(t, c) = "expired" THEN [entries EXCEPT ![t] = Unset] ELSE entries
    /\ UNCHANGED <<punardVars, policy, request, timeVars, brokerFaults,
                   issued, warrant, recorded, handed>>

\* credential.revoke
Revoke(t) ==
    /\ t \in handed
    /\ entries[t] # Unset
    /\ entries' = [entries EXCEPT ![t] = Unset]
    /\ UNCHANGED <<punardVars, policy, request, timeVars, brokerFaults, ghostVars>>

-----------------------------------------------------------------------------
(* The surroundings.                                                       *)

\* A person answers, or the question lapses, or a record is evicted.
PunardMoves(i) ==
    /\ \/ stage[i] = "pending" /\ i \notin lapsed
          /\ stage' \in {[stage EXCEPT ![i] = "approved"], [stage EXCEPT ![i] = "denied"]}
          /\ UNCHANGED lapsed
       \/ stage[i] \in {"pending", "approved"} /\ i \notin lapsed
          /\ lapsed' = lapsed \cup {i}
          /\ stage' = IF stage[i] = "pending" THEN [stage EXCEPT ![i] = "expired"] ELSE stage
       \/ stage[i] \in {"denied", "expired", "consumed"}
          /\ stage' = [stage EXCEPT ![i] = "gone"]
          /\ UNCHANGED lapsed
    /\ UNCHANGED <<asked, policy, entries, request, timeVars, brokerFaults, ghostVars>>

\* The broker stops, wherever its threads are, and starts: tokens and
\* requests are lost, and the policy is read again, only now, whatever has
\* become of it since.
BrokerRestart ==
    /\ BrokerFault
    /\ entries' = [t \in Tokens |-> Unset]
    /\ request' = [h \in Handlers |-> Unset]
    /\ policy' \in OrgDirs
    /\ UNCHANGED <<punardVars, timeVars, ghostVars>>

ClockMoves ==
    /\ \/ clock < MaxTime /\ clock' = clock + 1 /\ UNCHANGED setBacks
       \/ clock > 0 /\ setBacks < MaxSetBacks /\ clock' = 0 /\ setBacks' = setBacks + 1
    /\ UNCHANGED <<punardVars, policy, entries, request, brokerFaults, ghostVars>>

SecretsNext ==
    \/ \E h \in Handlers :
        \/ \E w \in Requesters, c \in Classes, ttl \in Ttls : CredentialRequest(h, w, c, ttl)
        \/ PunardUnreachable(h)
        \/ ListCandidates(h)
        \/ ConsumeNext(h)
        \/ CreateApprovalFor(h)
        \/ IssueToken(h)
        \/ RecordIssue(h)
        \/ WithdrawUnrecorded(h)
    \/ \E t \in Tokens, c \in Classes \cup {Unset} : Present(t, c)
    \/ \E t \in Tokens : Revoke(t)
    \/ \E i \in Ids : PunardMoves(i)
    \/ BrokerRestart
    \/ ClockMoves

SecretsSpec == SecretsInit /\ [][SecretsNext]_secretsVars

-----------------------------------------------------------------------------
(* Properties.                                                             *)

Vault == INSTANCE CredentialVault WITH
    Permits <- Ids,
    StandingPermit <- "policy",
    life <- [t \in Tokens |-> IF entries[t] # Unset THEN "live"
                              ELSE IF t \in issued THEN "dead" ELSE "unborn"],
    basis <- [t \in Tokens |-> IF t \in issued THEN warrant[t].permit ELSE Unset],
    answer <- verdict

\* The broker implements CredentialVault: two requests racing for one yes, a
\* lost answer of punard, a restart or a clock set back never make two tokens
\* of one approval and never bring back a token once it was called expired or
\* was revoked (gated_request, TokenStore::issue, present, revoke).
ImplementsVault == Vault!VaultSpec

\* A token whose value was handed out has its "issued" event in the trail,
\* and one that could not be recorded is in nobody's hands and, once its
\* request is over, not in the store (issue, try_audit).
HandedIsRecorded ==
    /\ handed \subseteq recorded
    /\ \A t \in issued \ recorded :
        entries[t] # Unset =>
            \E h \in Handlers : request[h] # Unset /\ request[h].token = t

\* The requester's own approved question about that very class, or documents
\* none of which is unreadable and whose strongest word on it is "allow".
Allowed(dir, c) ==
    LET said == {Documents(dir)[i] : i \in Layers(dir)}
    IN  /\ \A d \in said : d.readable
        /\ \E d \in said :
            /\ d.says[c] = "allow"
            /\ \A e \in said : e.says[c] # "unstated" => e.rank >= d.rank
Yes(permit, who, c, dir) ==
    \/ /\ permit \in Ids
       /\ asked[permit] = [who |-> who, class |-> c]
       /\ stage[permit] \in {"consumed", "gone"}
    \/ permit = "policy" /\ Allowed(dir, c)

\* Every token goes back to a yes to the request it was made for
\* (credential_decision, candidates, consume).
TokenHasYes ==
    \A t \in issued : Yes(warrant[t].permit, warrant[t].who, warrant[t].class, warrant[t].under)

\* Every credential is accounted for: behind it stands a yes to that very
\* request, and in front of it its record (gated_request, issue).
TokensAccounted == TokenHasYes /\ HandedIsRecorded
=============================================================================
