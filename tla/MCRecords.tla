----------------------------- MODULE MCRecords -----------------------------
(***************************************************************************)
(* The ledger and the credential broker, for TLC.  A behaviour of the      *)
(* ledger is about one principal, a session or a detection, and either has *)
(* several calls at once or one after the other with crashes and write     *)
(* errors; or it is about two writers of the trail and no reader.  A       *)
(* behaviour of the broker has requests racing one another, or one request *)
(* at a time with the clock, the policy and the approvals lapsing under    *)
(* it.  Threads are alike, and so are handlers: the first takes a call     *)
(* when all are idle.                                                      *)
(***************************************************************************)
EXTENDS AgentLedger, Secrets

CONSTANTS
    MaxCalls,       \* bound: calls served, when they run concurrently
    MaxCallsAlone,  \* bound: calls served, when they do not
    github, aws, user, a2

VARIABLES calls, lens, who

ledgerLenses == {"threads", "crashes", "trail"}
brokerLenses == {"race", "time"}
mcvars == <<vars, secretsVars, calls, lens, who>>

MCClasses == {github, aws}
MCCatalog == (github :> [default_ttl |-> 1, max_ttl |-> 1]) @@ (aws :> [default_ttl |-> 1, max_ttl |-> 1])
MCDefaults == (github :> "allow") @@ (aws :> "request")
Says(g, a) == (github :> g) @@ (aws :> a)
Doc(rank, envelope, readable, says) ==
    [rank |-> rank, envelope |-> envelope, readable |-> readable, says |-> says]
MCOrgDirs ==
    {<<>>,
     <<Doc(2, TRUE, FALSE, Says("unstated", "unstated"))>>,
     <<Doc(3, TRUE, TRUE, Says("allow", "unstated")), Doc(2, TRUE, TRUE, Says("deny", "request")),
       Doc(2, FALSE, TRUE, Says("allow", "allow"))>>}
MCTtls == {9}

NoneWho == CHOOSE s \in Principals : TRUE
MCInit ==
    /\ Init /\ calls = 0 /\ SecretsInit
    /\ lens \in ledgerLenses \cup brokerLenses /\ who \in Principals
    /\ lens \notin {"threads", "crashes"} => who = NoneWho
    /\ lens # "time" => policy = <<>>

First == CHOOSE t \in Threads : TRUE

Busies(c) == {t \in Threads : c[t] # Idle}

(* The second writer, and events beyond the second, are for the trail only. *)
Alone == \A w \in Writers : writer'[w] # writer[w] => w = CHOOSE v \in Writers : TRUE

LedgerNext ==
    /\ Next
    /\ UNCHANGED secretsVars
    /\ calls' = calls + Cardinality(Busies(call') \ Busies(call))
    /\ \A s \in Principals \ {who} : reg'[s] = "none"
    /\ appended' # appended => Last(appended').s = who /\ (Last(appended').cred <=> lens # "trail")
    /\ \A t \in Busies(call') \ Busies(call) : t = First \/ call[First] # Idle
    /\ CASE lens = "threads" -> /\ calls' <= MaxCalls - (IF who \in Detections THEN 1 ELSE 0) /\ crashes' = 0 /\ faults' = 0
                                /\ calls' + Len(appended') <= MaxCalls + Cap /\ Alone
         [] lens = "crashes" -> /\ calls' <= MaxCallsAlone /\ Cardinality(Busies(call')) <= 1 /\ crashes' + faults' <= 1
                                /\ Len(appended') <= Cap + 1 /\ Alone
         [] lens = "trail"   -> UNCHANGED ledger

FirstHandler == CHOOSE h \in Handlers : TRUE
OneAtATime == \E h \in Handlers : \A g \in Handlers \ {h} : request[g] = Unset
BrokerNext ==
    /\ SecretsNext
    /\ \A h \in Handlers \ {FirstHandler} :
        request[h] = Unset /\ request'[h] # Unset => request[FirstHandler] # Unset
    /\ lens = "race" =>
        /\ clock' = clock /\ policy' = policy /\ verdict' = verdict /\ lapsed' = lapsed
        /\ \A h \in Handlers : request'[h] # Unset => request'[h].class = aws
    /\ lens = "time" =>
        /\ OneAtATime'
        /\ \A h \in Handlers : request'[h] # Unset => request'[h].who = user
        /\ stage'[a2] = "unasked"
    /\ UNCHANGED <<vars, calls>>

MCNext ==
    /\ \/ lens \in ledgerLenses /\ LedgerNext
       \/ lens \in brokerLenses /\ BrokerNext
    /\ UNCHANGED <<lens, who>>

MCSpec == MCInit /\ [][MCNext]_mcvars
=============================================================================
