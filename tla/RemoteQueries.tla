---------------------------- MODULE RemoteQueries ----------------------------
(***************************************************************************)
(* An administrator's questions about a device.  admin.ai_query puts one   *)
(* in the control plane's queue; the device pulls the oldest pending ones  *)
(* at the end of a reconcile pass; punar-agentd decides each against the   *)
(* grant in enrollment.json, writes its local record, and punard posts the *)
(* answer back.  Enrollment appears by the state it shares with this path: *)
(* the registration's token, the grant file and the in-memory pair.        *)
(***************************************************************************)
EXTENDS Integers, Sequences, FiniteSets, Functions, FiniteSetTheorems, SequenceTheorems, TLAPS

CONSTANTS
    AskedScopes, Askers,
    AskerScopes,               \* [administrator -> the scopes of their role]
    Drains,                    \* passes that may overlap
    Cap,                       \* MAX_QUERIES_PER_SYNC
    LogMax,                    \* QUERY_LOG_MAX_RECORDS
    MaxAsked, MaxMalformed, MaxGrants, MaxDisconnects          \* bounds

VARIABLES
    queue,                     \* control plane: queries.json
    lastToken,                 \* control plane: the token it accepts, 0 before any
    granted,                   \* history: the grant each registration was saved with
    enrolled, heldToken,       \* punard's memory
    grantFile,                 \* enrollment.json: NoGrant, or a set of scopes
    transition,                \* how far enroll.start or enroll.stop has come
    drains,
    log,                       \* agentd: queries.jsonl, as query numbers
    reachable, agentd, disconnects \* the control plane, and agentd, can be reached

queriesVars == <<queue, lastToken, granted, enrolled, heldToken, grantFile, transition, drains, log,
          reachable, agentd, disconnects>>
grantVars == <<granted, enrolled, heldToken, grantFile, transition>>
links == <<reachable, agentd, disconnects>>

GrantTokens == 1 .. MaxGrants
Queries == 1 .. MaxAsked
\* What read_org_granted_scopes makes of a missing file: nothing is granted.
NoGrant == {}

ASSUME QueriesAssumption ==
    /\ AskerScopes \in [Askers -> SUBSET AskedScopes]
    /\ {Cap, LogMax, MaxAsked, MaxGrants} \subseteq Nat \ {0}
    /\ {MaxMalformed, MaxDisconnects} \subseteq Nat

NoDrain == [pc |-> "idle", token |-> 0, todo |-> <<>>, allow |-> FALSE, seen |-> <<>>]

DrainAt(t, pc) == drains[t].pc = pc
DrainDone(t) == drains' = [drains EXCEPT ![t] = NoDrain]
\* The drain goes on with the next query it pulled.
NextQuery(t) ==
    IF Len(drains[t].todo) = 1 THEN DrainDone(t)
    ELSE drains' = [drains EXCEPT ![t] = [NoDrain EXCEPT !.pc = "decide", !.token = drains[t].token,
                                                    !.todo = Tail(drains[t].todo)]]

QueriesInit ==
    /\ queue = <<>> /\ lastToken = 0
    /\ granted = [n \in GrantTokens |-> NoGrant]
    /\ enrolled = FALSE /\ heldToken = 0 /\ grantFile = NoGrant /\ transition = "none"
    /\ drains = [t \in Drains |-> NoDrain]
    /\ log = <<>>
    /\ reachable = TRUE /\ agentd = TRUE /\ disconnects = 0

-----------------------------------------------------------------------------
\* The administrator.

Malformed == Cardinality({q \in DOMAIN queue : ~queue[q].wellFormed})

\* admin.ai_query: the role's scopes, then the queue.  The narrowing session
\* id is taken as it comes, so a question may be one the device cannot read.
AskQuery(a, s, wf) ==
    /\ Len(queue) < MaxAsked
    /\ s \in AskerScopes[a]
    /\ lastToken # 0
    /\ wf \/ Malformed < MaxMalformed
    /\ queue' = Append(queue, [scope |-> s, wellFormed |-> wf, status |-> "pending", by |-> 0])
    /\ UNCHANGED <<lastToken, grantVars, drains, log, links>>

-----------------------------------------------------------------------------
\* Enrollment, as far as this path sees it.

RegisterGrant ==
    /\ transition = "none" /\ ~enrolled /\ lastToken < MaxGrants /\ reachable
    /\ lastToken' = lastToken + 1
    /\ transition' = "registered"
    /\ UNCHANGED <<queue, granted, enrolled, heldToken, grantFile, drains, log, links>>

GiveUp ==
    /\ transition = "registered"
    /\ transition' = "none"
    /\ UNCHANGED <<queue, lastToken, granted, enrolled, heldToken, grantFile, drains, log,
                   links>>

SaveGrant(g) ==
    /\ transition = "registered"
    /\ grantFile' = g
    /\ granted' = [granted EXCEPT ![lastToken] = g]
    /\ transition' = "saved"
    /\ UNCHANGED <<queue, lastToken, enrolled, heldToken, drains, log, links>>

FlipGrant ==
    /\ transition = "saved"
    /\ heldToken' = lastToken /\ enrolled' = TRUE
    /\ transition' = "none"
    /\ UNCHANGED <<queue, lastToken, granted, grantFile, drains, log, links>>

Leave ==
    /\ transition = "none" /\ enrolled
    /\ enrolled' = FALSE
    /\ transition' = "leaving"
    /\ UNCHANGED <<queue, lastToken, granted, heldToken, grantFile, drains, log, links>>

RemoveGrant ==
    /\ transition = "leaving"
    /\ grantFile' = NoGrant
    /\ transition' = "removed"
    /\ UNCHANGED <<queue, lastToken, granted, enrolled, heldToken, drains, log, links>>

DropToken ==
    /\ transition = "removed"
    /\ heldToken' = 0
    /\ transition' = "none"
    /\ UNCHANGED <<queue, lastToken, granted, enrolled, grantFile, drains, log, links>>

-----------------------------------------------------------------------------
\* The pull, at the end of a pass.

DrainBegins(t) ==
    /\ DrainAt(t, "idle")
    /\ drains' = IF enrolled THEN [drains EXCEPT ![t].pc = "pull", ![t].token = heldToken] ELSE drains
    /\ UNCHANGED <<queue, lastToken, grantVars, log, links>>

\* Mutant: any token this device was ever issued is taken.
AnyToken(n) == reachable /\ n # 0
\* require_token: the token of the last registration.
TokenAccepted(n) == reachable /\ n # 0 /\ n = lastToken

\* pending_for_device: the oldest ones, capped; delivery does not consume.
Pending == {q \in DOMAIN queue : queue[q].status = "pending"}
OldestPending == {q \in Pending : Cardinality({p \in Pending : p < q}) < Cap}
Ascending(s) == \A i, j \in DOMAIN s : i < j => s[i] < s[j]

Pull(t) ==
    /\ DrainAt(t, "pull")
    /\ IF TokenAccepted(drains[t].token) /\ OldestPending # {}
       THEN \E todo \in Bijection(1 .. Cardinality(OldestPending), OldestPending) :
                /\ Ascending(todo)
                /\ drains' = [drains EXCEPT ![t].pc = "decide", ![t].todo = todo]
       ELSE DrainDone(t)
    /\ UNCHANGED <<queue, lastToken, grantVars, log, links>>

\* PendingQuery::validate: the shape of a fetched question.
WellFormed(q) == queue[q].wellFormed

\* authorize: the scope asked for, within what the local file grants.
Authorize(q) == queue[q].scope \in grantFile

\* query.answer at agentd: the grant is read from the file, and the record
\* is appended before the answer leaves.  A write of the log that fails is
\* reported and no more.
Decide(t) ==
    LET q == Head(drains[t].todo)
    IN  /\ DrainAt(t, "decide")
        /\ agentd /\ WellFormed(q)
        /\ \/ /\ log' = Append(log, q)
              /\ drains' = [drains EXCEPT ![t].pc = "prune",
                                        ![t].allow = Authorize(q)]
           \/ /\ drains' = [drains EXCEPT ![t].pc = "post",
                                        ![t].allow = Authorize(q)]
              /\ UNCHANGED log
        /\ UNCHANGED <<queue, lastToken, grantVars, links>>

\* Mutant: the drain stops at a query that is not decided.
SkipStops(t) ==
    /\ DrainAt(t, "decide")
    /\ ~agentd \/ ~WellFormed(Head(drains[t].todo))
    /\ DrainDone(t)
    /\ UNCHANGED <<queue, lastToken, grantVars, log, links>>

\* An error frame, or no answer: the query stays pending.
Skip(t) ==
    /\ DrainAt(t, "decide")
    /\ ~agentd \/ ~WellFormed(Head(drains[t].todo))
    /\ NextQuery(t)
    /\ UNCHANGED <<queue, lastToken, grantVars, log, links>>

\* The bound of the log: the oldest records leave.
Keep(records) == SubSeq(records, Len(records) - LogMax + 1, Len(records))

\* QueryLog::prune reads the whole log, and rewrites it if something leaves.
PruneRead(t) ==
    /\ DrainAt(t, "prune")
    /\ drains' = IF Len(log) > LogMax
                THEN [drains EXCEPT ![t].pc = "rewrite", ![t].seen = log]
                ELSE [drains EXCEPT ![t].pc = "post"]
    /\ UNCHANGED <<queue, lastToken, grantVars, log, links>>

PruneWrite(t) ==
    /\ DrainAt(t, "rewrite")
    /\ \/ log' = Keep(drains[t].seen)
       \/ UNCHANGED log
    /\ drains' = [drains EXCEPT ![t].pc = "post", ![t].seen = <<>>]
    /\ UNCHANGED <<queue, lastToken, grantVars, links>>

Answered(e, t) == [e EXCEPT !.status = IF drains[t].allow THEN "answered" ELSE "refused",
                            !.by = drains[t].token]

\* queries.answer: record_answer stores it whatever the entry's status is.
Post(t) ==
    LET q == Head(drains[t].todo)
    IN  /\ DrainAt(t, "post")
        /\ queue' = IF TokenAccepted(drains[t].token) THEN [queue EXCEPT ![q] = Answered(@, t)]
                    ELSE queue
        /\ NextQuery(t)
        /\ UNCHANGED <<lastToken, grantVars, log, links>>

-----------------------------------------------------------------------------
\* Outages.

Disconnects ==
    /\ disconnects < MaxDisconnects /\ disconnects' = disconnects + 1
    /\ \/ reachable /\ reachable' = FALSE /\ UNCHANGED agentd
       \/ agentd /\ agentd' = FALSE /\ UNCHANGED reachable
    /\ UNCHANGED <<queue, lastToken, grantVars, drains, log>>

Reconnects ==
    /\ ~reachable \/ ~agentd
    /\ reachable' = TRUE /\ agentd' = TRUE
    /\ UNCHANGED <<queue, lastToken, grantVars, drains, log, disconnects>>

DrainStep(t) == Pull(t) \/ Decide(t) \/ Skip(t) \/ PruneRead(t) \/ PruneWrite(t) \/ Post(t)

QueriesNext ==
    \/ \E a \in Askers, s \in AskedScopes, wf \in BOOLEAN : AskQuery(a, s, wf)
    \/ RegisterGrant \/ GiveUp \/ FlipGrant \/ Leave \/ RemoveGrant \/ DropToken
    \/ \E g \in SUBSET AskedScopes : SaveGrant(g)
    \/ \E t \in Drains : DrainBegins(t) \/ DrainStep(t)
    \/ Disconnects \/ Reconnects

QueriesSpec == QueriesInit /\ [][QueriesNext]_queriesVars

-----------------------------------------------------------------------------
\* An answer the control plane holds is within the grant of the enrollment
\* whose token carried it, also when the device left or enrolled again while
\* the question was being decided (authorize over read_org_granted_scopes,
\* register's rotation of the token).
AnswersWithinGrant ==
    \A q \in DOMAIN queue :
        queue[q].status = "answered" => queue[q].scope \in granted[queue[q].by]

Waiting(q) ==
    q \in DOMAIN queue /\ queue[q].wellFormed /\ queue[q].status = "pending"

-----------------------------------------------------------------------------
(* An answer the control plane holds is within the grant of the enrollment *)
(* whose token carried it, by the invariant GrantSafe.                     *)

QueryEntry == [scope : AskedScopes, wellFormed : BOOLEAN,
               status : {"pending", "answered", "refused"}, by : Nat]
DrainState == [pc : {"idle", "pull", "decide", "prune", "rewrite", "post"}, token : Nat,
               todo : Seq(Nat), allow : BOOLEAN, seen : Seq(Nat)]

QueriesTypeOK ==
    /\ queue \in Seq(QueryEntry)
    /\ lastToken \in 0 .. MaxGrants
    /\ granted \in [GrantTokens -> SUBSET AskedScopes]
    /\ enrolled \in BOOLEAN
    /\ heldToken \in Nat
    /\ grantFile \in SUBSET AskedScopes
    /\ transition \in {"none", "registered", "saved", "leaving", "removed"}
    /\ drains \in [Drains -> DrainState]
    /\ log \in Seq(Nat)

\* A token is one of those issued so far; the last one is in use only from
\* when its grant is saved, and only its grant is ever in the file.
TokensInOrder ==
    /\ heldToken <= lastToken
    /\ \A t \in Drains : drains[t].token <= lastToken
    /\ \A q \in DOMAIN queue : queue[q].by <= lastToken
    /\ enrolled => heldToken = lastToken /\ transition = "none"
    /\ transition = "registered" =>
        /\ \A t \in Drains : drains[t].token # lastToken
        /\ \A q \in DOMAIN queue : queue[q].by # lastToken
    /\ transition \in {"registered", "saved"} => lastToken # 0
GrantIsTheLast ==
    /\ transition \in {"registered", "removed"} \/ (transition = "none" /\ ~enrolled) => grantFile = NoGrant
    /\ grantFile # NoGrant => lastToken # 0 /\ grantFile \subseteq granted[lastToken]

\* A drain past its pull works on questions of the queue, and a yes it
\* carries for the last token is within that token's grant.
DrainsSound ==
    \A t \in Drains :
        /\ drains[t].pc \notin {"idle", "pull"} =>
            /\ drains[t].todo # <<>>
            /\ \A k \in DOMAIN drains[t].todo : drains[t].todo[k] \in DOMAIN queue
        /\ drains[t].pc = "rewrite" => Len(drains[t].seen) > LogMax
        /\ /\ drains[t].pc \in {"prune", "rewrite", "post"} /\ drains[t].allow
           /\ drains[t].token = lastToken
           => queue[drains[t].todo[1]].scope \in granted[lastToken]

GrantSafe == QueriesTypeOK /\ TokensInOrder /\ GrantIsTheLast /\ DrainsSound /\ AnswersWithinGrant

\* What GrantSafe asks of one drain, whatever drain it is.
SoundDrain(d) ==
    /\ d \in DrainState
    /\ d.token <= lastToken
    /\ transition = "registered" => d.token # lastToken
    /\ d.pc \notin {"idle", "pull"} =>
        d.todo # <<>> /\ \A k \in DOMAIN d.todo : d.todo[k] \in DOMAIN queue
    /\ d.pc = "rewrite" => Len(d.seen) > LogMax
    /\ d.pc \in {"prune", "rewrite", "post"} /\ d.allow /\ d.token = lastToken =>
        queue[d.todo[1]].scope \in granted[lastToken]

LEMMA DrainsAreSound ==
    ASSUME GrantSafe, NEW t \in Drains
    PROVE  SoundDrain(drains[t])
BY DEF GrantSafe, QueriesTypeOK, TokensInOrder, DrainsSound, SoundDrain

LEMMA NoDrainIsSound ==
    ASSUME GrantSafe
    PROVE  SoundDrain(NoDrain)
<1>1. NoDrain \in DrainState
    BY DEF NoDrain, DrainState
<1> QED
    BY <1>1 DEF NoDrain, SoundDrain, GrantSafe, QueriesTypeOK, TokensInOrder

\* A drain that moves to a sound state, and does nothing else.
LEMMA GrantSafeDrain ==
    ASSUME GrantSafe, NEW t \in Drains, NEW d, SoundDrain(d), drains' = [drains EXCEPT ![t] = d],
           log' \in Seq(Nat), UNCHANGED <<queue, lastToken, grantVars>>
    PROVE  GrantSafe'
<1> USE DEF GrantSafe, grantVars
<1>1. drains'[t] = d /\ \A u \in Drains \ {t} : drains'[u] = drains[u]
    BY DEF QueriesTypeOK
<1>2. QueriesTypeOK'
    BY DEF QueriesTypeOK, SoundDrain
<1>3. TokensInOrder'
    BY <1>1 DEF TokensInOrder, SoundDrain
<1>4. GrantIsTheLast' /\ AnswersWithinGrant'
    BY DEF GrantIsTheLast, AnswersWithinGrant
<1>5. DrainsSound'
    BY <1>1 DEF DrainsSound, SoundDrain
<1> QED
    BY <1>2, <1>3, <1>4, <1>5

LEMMA TailFacts ==
    ASSUME NEW s \in Seq(Nat), s # <<>>, Len(s) # 1
    PROVE  /\ Tail(s) \in Seq(Nat) /\ Tail(s) # <<>>
           /\ \A k \in DOMAIN Tail(s) : k + 1 \in DOMAIN s /\ Tail(s)[k] = s[k + 1]
<1>1. Len(s) \in Nat /\ Len(s) # 0 /\ DOMAIN s = 1 .. Len(s)
    BY EmptySeq, LenProperties
<1>2. /\ Tail(s) \in Seq(Nat) /\ Len(Tail(s)) = Len(s) - 1
      /\ \A i \in 1 .. Len(Tail(s)) : Tail(s)[i] = s[i + 1]
    BY HeadTailProperties
<1>3. DOMAIN Tail(s) = 1 .. Len(Tail(s))
    BY <1>2, LenProperties
<1>4. Tail(s) # <<>>
    <2>1. Len(Tail(s)) # 0
        BY <1>1, <1>2
    <2>2. Len(<<>>) = 0
        BY EmptySeq
    <2> QED
        BY <2>1, <2>2, Zenon
<1> QED
    BY <1>1, <1>2, <1>3, <1>4

\* What the drain goes on with after a question is sound.
LEMMA NextIsSound ==
    ASSUME GrantSafe, NEW t \in Drains, drains[t].pc \notin {"idle", "pull"}, NextQuery(t)
    PROVE  \E d : SoundDrain(d) /\ drains' = [drains EXCEPT ![t] = d]
<1> DEFINE s == drains[t].todo
           d == [NoDrain EXCEPT !.pc = "decide", !.token = drains[t].token, !.todo = Tail(s)]
<1>1. SoundDrain(drains[t])
    BY DrainsAreSound
<1>2. s \in Seq(Nat) /\ s # <<>> /\ drains[t].token \in Nat
    BY <1>1 DEF SoundDrain, DrainState
<1>3. CASE Len(s) = 1
    BY <1>3, NoDrainIsSound DEF NextQuery, DrainDone
<1>4. CASE Len(s) # 1
    <2>1. /\ Tail(s) \in Seq(Nat) /\ Tail(s) # <<>>
          /\ \A k \in DOMAIN Tail(s) : k + 1 \in DOMAIN s /\ Tail(s)[k] = s[k + 1]
        BY <1>2, <1>4, TailFacts
    <2> HIDE DEF s
    <2>2. /\ d \in DrainState /\ d.pc = "decide" /\ d.token = drains[t].token /\ d.todo = Tail(s)
        <3>1. NoDrain \in DrainState
            BY NoDrainIsSound DEF SoundDrain
        <3> QED
            BY <1>2, <2>1, <3>1 DEF DrainState
    <2>3. drains' = [drains EXCEPT ![t] = d]
        BY <1>4 DEF NextQuery, s
    <2>4. \A k \in DOMAIN Tail(s) : Tail(s)[k] \in DOMAIN queue
        BY <1>1, <2>1 DEF SoundDrain, s
    <2> HIDE DEF d
    <2>5. SoundDrain(d)
        BY <1>1, <2>1, <2>2, <2>4 DEF SoundDrain
    <2> QED
        BY <2>3, <2>5
<1> QED
    BY <1>3, <1>4

LEMMA GrantSafeBegin ==
    ASSUME GrantSafe, NEW t \in Drains, DrainBegins(t)
    PROVE  GrantSafe'
<1> DEFINE d == [drains[t] EXCEPT !.pc = "pull", !.token = heldToken]
<1>1. UNCHANGED <<queue, lastToken, grantVars, log>> /\ log' \in Seq(Nat)
    BY DEF DrainBegins, GrantSafe, QueriesTypeOK
<1>2. SoundDrain(drains[t])
    BY DrainsAreSound
<1>3. CASE enrolled
    <2>1. d \in DrainState /\ d.pc = "pull" /\ d.token = heldToken
        BY <1>2 DEF SoundDrain, DrainState, GrantSafe, QueriesTypeOK
    <2>2. drains' = [drains EXCEPT ![t] = d]
        BY <1>3 DEF DrainBegins
    <2> HIDE DEF d
    <2>3. SoundDrain(d)
        BY <1>3, <2>1 DEF SoundDrain, GrantSafe, TokensInOrder, QueriesTypeOK
    <2> QED
        BY <1>1, <2>2, <2>3, GrantSafeDrain
<1>4. CASE ~enrolled
    <2>1. drains' = [drains EXCEPT ![t] = drains[t]]
        BY <1>4 DEF DrainBegins, GrantSafe, QueriesTypeOK
    <2> QED
        BY <1>1, <1>2, <2>1, GrantSafeDrain
<1> QED
    BY <1>3, <1>4

LEMMA GrantSafePull ==
    ASSUME GrantSafe, NEW t \in Drains, Pull(t)
    PROVE  GrantSafe'
<1>1. UNCHANGED <<queue, lastToken, grantVars, log>> /\ log' \in Seq(Nat)
    BY DEF Pull, GrantSafe, QueriesTypeOK
<1>2. SoundDrain(drains[t])
    BY DrainsAreSound
<1>3. CASE DrainDone(t)
    BY <1>1, <1>3, NoDrainIsSound, GrantSafeDrain DEF DrainDone
<1>4. ASSUME NEW todo \in Bijection(1 .. Cardinality(OldestPending), OldestPending), OldestPending # {},
             drains' = [drains EXCEPT ![t].pc = "decide", ![t].todo = todo]
      PROVE  GrantSafe'
    <2> DEFINE d == [drains[t] EXCEPT !.pc = "decide", !.todo = todo]
    <2>1. OldestPending \subseteq DOMAIN queue /\ DOMAIN queue = 1 .. Len(queue) /\ Len(queue) \in Nat
        BY DEF OldestPending, Pending, GrantSafe, QueriesTypeOK
    <2>2. IsFiniteSet(OldestPending)
        <3>1. IsFiniteSet(1 .. Len(queue))
            BY <2>1, FS_Interval
        <3> QED
            BY <2>1, <3>1, FS_Subset
    <2>3. Cardinality(OldestPending) \in Nat /\ Cardinality(OldestPending) # 0
        BY <1>4, <2>2, FS_CardinalityType, FS_EmptySet
    <2>4. todo \in [1 .. Cardinality(OldestPending) -> OldestPending]
        BY DEF Bijection, Injection
    <2>5. todo \in Seq(Nat) /\ todo # <<>> /\ \A k \in DOMAIN todo : todo[k] \in DOMAIN queue
        BY <2>1, <2>3, <2>4
    <2>6. d \in DrainState /\ d.pc = "decide" /\ d.token = drains[t].token /\ d.todo = todo
        BY <1>2, <2>5 DEF SoundDrain, DrainState
    <2>7. drains' = [drains EXCEPT ![t] = d]
        BY <1>4
    <2> HIDE DEF d
    <2>8. SoundDrain(d)
        BY <1>2, <2>5, <2>6 DEF SoundDrain
    <2> QED
        BY <1>1, <2>7, <2>8, GrantSafeDrain
<1> QED
    BY <1>3, <1>4 DEF Pull

LEMMA GrantSafeDecide ==
    ASSUME GrantSafe, NEW t \in Drains, Decide(t)
    PROVE  GrantSafe'
<1> DEFINE q == drains[t].todo[1]
<1>1. SoundDrain(drains[t]) /\ drains[t].pc = "decide"
    BY DrainsAreSound DEF Decide, DrainAt
<1>2. drains[t].todo \in Seq(Nat) /\ drains[t].todo # <<>>
    BY <1>1 DEF SoundDrain, DrainState
<1>3. q = Head(drains[t].todo) /\ 1 \in DOMAIN drains[t].todo
    BY <1>2
<1>4. q \in DOMAIN queue /\ q \in Nat
    BY <1>1, <1>2, <1>3 DEF SoundDrain
<1>5. Authorize(q) \in BOOLEAN /\ (Authorize(q) => lastToken # 0 /\ queue[q].scope \in granted[lastToken])
    BY DEF Authorize, GrantSafe, GrantIsTheLast, NoGrant
<1>6. UNCHANGED <<queue, lastToken, grantVars>>
    BY DEF Decide
<1>7. PICK next \in {"prune", "post"} :
        /\ drains' = [drains EXCEPT ![t].pc = next, ![t].allow = Authorize(q)]
        /\ log' = Append(log, q) \/ log' = log
    BY <1>3 DEF Decide
<1> HIDE DEF q
<1>8. log' \in Seq(Nat)
    <2>1. log \in Seq(Nat)
        BY DEF GrantSafe, QueriesTypeOK
    <2>2. Append(log, q) \in Seq(Nat)
        BY <1>4, <2>1, AppendProperties
    <2> QED
        BY <1>7, <2>1, <2>2
<1> DEFINE d == [drains[t] EXCEPT !.pc = next, !.allow = Authorize(q)]
<1>9. /\ d \in DrainState /\ d.pc = next /\ d.token = drains[t].token /\ d.todo = drains[t].todo
      /\ d.allow = Authorize(q)
    BY <1>1, <1>5 DEF SoundDrain, DrainState
<1>10. drains' = [drains EXCEPT ![t] = d]
    BY <1>7
<1> HIDE DEF d
<1>11. SoundDrain(d)
    BY <1>1, <1>5, <1>9 DEF SoundDrain, q
<1> QED
    BY <1>6, <1>8, <1>10, <1>11, GrantSafeDrain

LEMMA GrantSafeSkip ==
    ASSUME GrantSafe, NEW t \in Drains, Skip(t)
    PROVE  GrantSafe'
<1>1. UNCHANGED <<queue, lastToken, grantVars, log>> /\ log' \in Seq(Nat)
    BY DEF Skip, GrantSafe, QueriesTypeOK
<1>2. PICK d : SoundDrain(d) /\ drains' = [drains EXCEPT ![t] = d]
    BY NextIsSound DEF Skip, DrainAt
<1> QED
    BY <1>1, <1>2, GrantSafeDrain

LEMMA GrantSafePruneRead ==
    ASSUME GrantSafe, NEW t \in Drains, PruneRead(t)
    PROVE  GrantSafe'
<1>1. UNCHANGED <<queue, lastToken, grantVars, log>> /\ log' \in Seq(Nat)
    BY DEF PruneRead, GrantSafe, QueriesTypeOK
<1>2. SoundDrain(drains[t]) /\ drains[t].pc = "prune"
    BY DrainsAreSound DEF PruneRead, DrainAt
<1>3. CASE Len(log) > LogMax
    <2> DEFINE d == [drains[t] EXCEPT !.pc = "rewrite", !.seen = log]
    <2>1. /\ d \in DrainState /\ d.pc = "rewrite" /\ d.token = drains[t].token /\ d.todo = drains[t].todo
          /\ d.allow = drains[t].allow /\ d.seen = log
        BY <1>1, <1>2 DEF SoundDrain, DrainState
    <2>2. drains' = [drains EXCEPT ![t] = d]
        BY <1>3 DEF PruneRead
    <2> HIDE DEF d
    <2>3. SoundDrain(d)
        BY <1>2, <1>3, <2>1 DEF SoundDrain
    <2> QED
        BY <1>1, <2>2, <2>3, GrantSafeDrain
<1>4. CASE ~(Len(log) > LogMax)
    <2> DEFINE d == [drains[t] EXCEPT !.pc = "post"]
    <2>1. /\ d \in DrainState /\ d.pc = "post" /\ d.token = drains[t].token /\ d.todo = drains[t].todo
          /\ d.allow = drains[t].allow
        BY <1>2 DEF SoundDrain, DrainState
    <2>2. drains' = [drains EXCEPT ![t] = d]
        BY <1>4 DEF PruneRead
    <2> HIDE DEF d
    <2>3. SoundDrain(d)
        BY <1>2, <2>1 DEF SoundDrain
    <2> QED
        BY <1>1, <2>2, <2>3, GrantSafeDrain
<1> QED
    BY <1>3, <1>4

LEMMA GrantSafePruneWrite ==
    ASSUME GrantSafe, NEW t \in Drains, PruneWrite(t)
    PROVE  GrantSafe'
<1> DEFINE d == [drains[t] EXCEPT !.pc = "post", !.seen = <<>>]
           seen == drains[t].seen
<1>1. SoundDrain(drains[t]) /\ drains[t].pc = "rewrite"
    BY DrainsAreSound DEF PruneWrite, DrainAt
<1>2. seen \in Seq(Nat) /\ Len(seen) > LogMax
    BY <1>1 DEF SoundDrain, DrainState
<1>3. Keep(seen) \in Seq(Nat)
    <2> HIDE DEF seen
    <2>1. Len(seen) \in Nat /\ LogMax \in Nat /\ seen \in [1 .. Len(seen) -> Nat]
        BY <1>2, QueriesAssumption, LenProperties
    <2>2. /\ Len(seen) - LogMax + 1 \in Int /\ Len(seen) \in Int
          /\ \A i \in Len(seen) - LogMax + 1 .. Len(seen) : seen[i] \in Nat
        BY <1>2, <2>1
    <2> QED
        BY <2>2, SubSeqProperties DEF Keep
<1>4. log' \in Seq(Nat) /\ UNCHANGED <<queue, lastToken, grantVars>>
    BY <1>3 DEF PruneWrite, GrantSafe, QueriesTypeOK
<1>5. /\ d \in DrainState /\ d.pc = "post" /\ d.token = drains[t].token /\ d.todo = drains[t].todo
      /\ d.allow = drains[t].allow
    <2>1. <<>> \in Seq(Nat)
        BY EmptySeq
    <2> QED
        BY <1>1, <2>1 DEF SoundDrain, DrainState
<1>6. drains' = [drains EXCEPT ![t] = d]
    BY DEF PruneWrite
<1> HIDE DEF d
<1>7. SoundDrain(d)
    BY <1>1, <1>5 DEF SoundDrain
<1> QED
    BY <1>4, <1>6, <1>7, GrantSafeDrain

\* The post: the answer is stored under the token that carried it.
LEMMA GrantSafePost ==
    ASSUME GrantSafe, NEW t \in Drains, Post(t)
    PROVE  GrantSafe'
<1> DEFINE q == drains[t].todo[1]
<1>1. SoundDrain(drains[t]) /\ drains[t].pc = "post"
    BY DrainsAreSound DEF Post, DrainAt
<1>2. drains[t].todo \in Seq(Nat) /\ drains[t].todo # <<>>
    BY <1>1 DEF SoundDrain, DrainState
<1>3. q = Head(drains[t].todo) /\ 1 \in DOMAIN drains[t].todo
    BY <1>2
<1>4. q \in DOMAIN queue /\ q \in Nat
    BY <1>1, <1>2, <1>3 DEF SoundDrain
<1>5. PICK d : SoundDrain(d) /\ drains' = [drains EXCEPT ![t] = d]
    BY <1>1, NextIsSound DEF Post
<1>6. UNCHANGED <<lastToken, grantVars, log>> /\ log' \in Seq(Nat)
    BY DEF Post, GrantSafe, QueriesTypeOK
<1>7. queue \in Seq(QueryEntry) /\ DOMAIN queue = 1 .. Len(queue)
    BY LenProperties DEF GrantSafe, QueriesTypeOK
<1>8. CASE TokenAccepted(drains[t].token)
    <2> DEFINE e == Answered(queue[q], t)
    <2>1. queue[q] \in QueryEntry
        BY <1>4, <1>7
    <2>2. /\ e \in QueryEntry /\ e.scope = queue[q].scope /\ e.by = drains[t].token
          /\ e.status = "answered" => drains[t].allow
        BY <1>1, <2>1 DEF Answered, QueryEntry, SoundDrain, DrainState
    <2>3. queue' = [queue EXCEPT ![q] = e]
        BY <1>3, <1>8 DEF Post
    <2> HIDE DEF e, q
    <2>4. /\ queue' \in Seq(QueryEntry) /\ DOMAIN queue' = DOMAIN queue
          /\ queue'[q] = e /\ \A p \in DOMAIN queue : p # q => queue'[p] = queue[p]
        BY <1>4, <1>7, <2>2, <2>3
    <2>5. drains[t].token = lastToken
        BY <1>8 DEF TokenAccepted
    <2>6. \A p \in DOMAIN queue : queue'[p].scope = queue[p].scope
        BY <2>2, <2>4
    <2>7. \A u \in Drains : drains'[u] \in DrainState /\ SoundDrain(drains'[u])
        BY <1>5, DrainsAreSound DEF SoundDrain, GrantSafe, QueriesTypeOK
    <2>8. QueriesTypeOK'
        BY <1>5, <1>6, <2>4 DEF QueriesTypeOK, GrantSafe, SoundDrain, grantVars
    <2>9. TokensInOrder'
        BY <1>1, <1>6, <2>2, <2>4, <2>5, <2>7 DEF TokensInOrder, GrantSafe, SoundDrain, grantVars
    <2>10. GrantIsTheLast'
        BY <1>6 DEF GrantIsTheLast, GrantSafe, grantVars
    <2>11. DrainsSound'
        <3>1. SUFFICES ASSUME NEW u \in Drains
                       PROVE  /\ drains'[u].pc \notin {"idle", "pull"} =>
                                    /\ drains'[u].todo # <<>>
                                    /\ \A k \in DOMAIN drains'[u].todo : drains'[u].todo[k] \in DOMAIN queue
                              /\ drains'[u].pc = "rewrite" => Len(drains'[u].seen) > LogMax
                              /\ /\ drains'[u].pc \in {"prune", "rewrite", "post"} /\ drains'[u].allow
                                 /\ drains'[u].token = lastToken
                                 => queue'[drains'[u].todo[1]].scope \in granted[lastToken]
            BY <1>6, <2>4, Zenon DEF DrainsSound, grantVars
        <3>2. drains'[u].pc \notin {"idle", "pull"} => drains'[u].todo[1] \in DOMAIN queue
            BY <2>7 DEF SoundDrain, DrainState
        <3> QED
            BY <2>6, <2>7, <3>2 DEF SoundDrain
    <2>12. AnswersWithinGrant'
        <3>1. e.status = "answered" => e.scope \in granted[e.by]
            BY <1>1, <2>2, <2>5 DEF SoundDrain, q
        <3>2. granted' = granted
            BY <1>6 DEF grantVars
        <3> QED
            BY <2>4, <3>1, <3>2 DEF AnswersWithinGrant, GrantSafe
    <2> QED
        BY <2>8, <2>9, <2>10, <2>11, <2>12 DEF GrantSafe
<1>9. CASE ~TokenAccepted(drains[t].token)
    <2>1. UNCHANGED queue
        BY <1>9 DEF Post
    <2> QED
        BY <1>5, <1>6, <2>1, GrantSafeDrain
<1> QED
    BY <1>8, <1>9

\* A new question is the last of the queue, and pending.
LEMMA GrantSafeAsk ==
    ASSUME GrantSafe, NEW a \in Askers, NEW s \in AskedScopes, NEW wf \in BOOLEAN, AskQuery(a, s, wf)
    PROVE  GrantSafe'
<1> DEFINE e == [scope |-> s, wellFormed |-> wf, status |-> "pending", by |-> 0]
<1>1. e \in QueryEntry /\ e.status = "pending" /\ e.by = 0
    BY DEF QueryEntry
<1>2. queue' = Append(queue, e) /\ UNCHANGED <<lastToken, grantVars, drains, log>> /\ lastToken # 0
    BY DEF AskQuery
<1>3. queue \in Seq(QueryEntry) /\ DOMAIN queue = 1 .. Len(queue) /\ Len(queue) \in Nat
    BY LenProperties DEF GrantSafe, QueriesTypeOK
<1> HIDE DEF e
<1>4. /\ queue' \in Seq(QueryEntry) /\ DOMAIN queue' = DOMAIN queue \cup {Len(queue) + 1}
      /\ queue'[Len(queue) + 1] = e /\ \A p \in DOMAIN queue : queue'[p] = queue[p]
    BY <1>1, <1>2, <1>3
<1>5. QueriesTypeOK'
    BY <1>2, <1>4 DEF QueriesTypeOK, GrantSafe, grantVars
<1>6. TokensInOrder'
    BY <1>1, <1>2, <1>4 DEF TokensInOrder, QueriesTypeOK, GrantSafe, grantVars
<1>7. GrantIsTheLast'
    BY <1>2 DEF GrantIsTheLast, GrantSafe, grantVars
<1>8. DrainsSound'
    <2>1. \A u \in Drains : drains[u].pc \notin {"idle", "pull"} => drains[u].todo[1] \in DOMAIN queue
        <3> TAKE u \in Drains
        <3>1. SoundDrain(drains[u])
            BY DrainsAreSound
        <3> QED
            BY <3>1 DEF SoundDrain, DrainState
    <2> QED
        BY <1>2, <1>4, <2>1 DEF DrainsSound, GrantSafe, grantVars
<1>9. AnswersWithinGrant'
    BY <1>1, <1>2, <1>4 DEF AnswersWithinGrant, GrantSafe, grantVars
<1> QED
    BY <1>5, <1>6, <1>7, <1>8, <1>9 DEF GrantSafe

\* The steps of enrollment: they touch no question and no drain.
LEMMA GrantSafeEnrollment ==
    ASSUME GrantSafe,
           \/ RegisterGrant \/ GiveUp \/ FlipGrant \/ Leave \/ RemoveGrant \/ DropToken
           \/ \E g \in SUBSET AskedScopes : SaveGrant(g)
    PROVE  GrantSafe'
<1>1. QueriesTypeOK /\ TokensInOrder /\ GrantIsTheLast /\ DrainsSound /\ AnswersWithinGrant
    BY DEF GrantSafe
<1>2. lastToken \in Nat /\ MaxGrants \in Nat /\ heldToken \in Nat /\ \A t \in Drains : drains[t].token \in Nat
    BY <1>1, QueriesAssumption DEF QueriesTypeOK, DrainState
<1>3. \A q \in DOMAIN queue : queue[q] \in QueryEntry /\ queue[q].by \in Nat
    <2>1. \A q \in DOMAIN queue : queue[q] \in QueryEntry
        BY <1>1 DEF QueriesTypeOK
    <2> QED
        BY <2>1 DEF QueryEntry
<1> USE DEF GrantSafe
<1>4. CASE RegisterGrant
    <2>1. QueriesTypeOK' /\ GrantIsTheLast'
        BY <1>1, <1>2, <1>4 DEF RegisterGrant, QueriesTypeOK, GrantIsTheLast
    <2>2. TokensInOrder'
        BY <1>1, <1>2, <1>3, <1>4 DEF RegisterGrant, TokensInOrder
    <2>3. DrainsSound'
        BY <1>1, <1>2, <1>4 DEF RegisterGrant, TokensInOrder, DrainsSound
    <2>4. AnswersWithinGrant'
        BY <1>1, <1>4 DEF RegisterGrant, AnswersWithinGrant
    <2> QED
        BY <2>1, <2>2, <2>3, <2>4
<1>5. CASE GiveUp
    <2>1. QueriesTypeOK' /\ GrantIsTheLast'
        BY <1>1, <1>5 DEF GiveUp, QueriesTypeOK, GrantIsTheLast
    <2>2. TokensInOrder'
        BY <1>1, <1>5 DEF GiveUp, TokensInOrder
    <2>3. DrainsSound' /\ AnswersWithinGrant'
        BY <1>1, <1>5 DEF GiveUp, DrainsSound, AnswersWithinGrant
    <2> QED
        BY <2>1, <2>2, <2>3
<1>6. CASE FlipGrant
    <2>1. QueriesTypeOK' /\ GrantIsTheLast'
        BY <1>1, <1>2, <1>6 DEF FlipGrant, QueriesTypeOK, GrantIsTheLast
    <2>2. TokensInOrder'
        BY <1>1, <1>2, <1>6 DEF FlipGrant, TokensInOrder
    <2>3. DrainsSound' /\ AnswersWithinGrant'
        BY <1>1, <1>6 DEF FlipGrant, DrainsSound, AnswersWithinGrant
    <2> QED
        BY <2>1, <2>2, <2>3
<1>7. CASE Leave
    <2>1. QueriesTypeOK' /\ GrantIsTheLast'
        BY <1>1, <1>7 DEF Leave, QueriesTypeOK, GrantIsTheLast
    <2>2. TokensInOrder'
        BY <1>1, <1>7 DEF Leave, TokensInOrder
    <2>3. DrainsSound' /\ AnswersWithinGrant'
        BY <1>1, <1>7 DEF Leave, DrainsSound, AnswersWithinGrant
    <2> QED
        BY <2>1, <2>2, <2>3
<1>8. CASE RemoveGrant
    <2>1. QueriesTypeOK' /\ GrantIsTheLast'
        BY <1>1, <1>8 DEF RemoveGrant, NoGrant, QueriesTypeOK, GrantIsTheLast
    <2>2. TokensInOrder'
        BY <1>1, <1>8 DEF RemoveGrant, TokensInOrder
    <2>3. DrainsSound' /\ AnswersWithinGrant'
        BY <1>1, <1>8 DEF RemoveGrant, DrainsSound, AnswersWithinGrant
    <2> QED
        BY <2>1, <2>2, <2>3
<1>9. CASE DropToken
    <2>1. QueriesTypeOK' /\ GrantIsTheLast'
        BY <1>1, <1>2, <1>9 DEF DropToken, QueriesTypeOK, GrantIsTheLast
    <2>2. TokensInOrder'
        BY <1>1, <1>2, <1>9 DEF DropToken, TokensInOrder
    <2>3. DrainsSound' /\ AnswersWithinGrant'
        BY <1>1, <1>9 DEF DropToken, DrainsSound, AnswersWithinGrant
    <2> QED
        BY <2>1, <2>2, <2>3
<1>10. ASSUME NEW g \in SUBSET AskedScopes, SaveGrant(g)
       PROVE  GrantSafe'
    <2>1. lastToken \in GrantTokens
        BY <1>1, <1>10, QueriesAssumption DEF SaveGrant, TokensInOrder, QueriesTypeOK, GrantTokens
    <2>2. granted'[lastToken] = g /\ \A n \in GrantTokens \ {lastToken} : granted'[n] = granted[n]
        BY <1>1, <1>10, <2>1 DEF SaveGrant, QueriesTypeOK
    <2>3. QueriesTypeOK' /\ GrantIsTheLast'
        <3>1. QueriesTypeOK'
            BY <1>1, <1>10, <2>1 DEF SaveGrant, QueriesTypeOK
        <3>2. GrantIsTheLast'
            BY <1>1, <1>10, <2>2 DEF SaveGrant, TokensInOrder, GrantIsTheLast
        <3> QED
            BY <3>1, <3>2
    <2>4. TokensInOrder'
        BY <1>1, <1>10 DEF SaveGrant, TokensInOrder
    <2>5. DrainsSound'
        BY <1>1, <1>10 DEF SaveGrant, TokensInOrder, DrainsSound
    <2>6. AnswersWithinGrant'
        <3>1. \A q \in DOMAIN queue : queue[q].by # lastToken
            BY <1>1, <1>10 DEF SaveGrant, TokensInOrder
        <3>2. \A n : n # lastToken => granted'[n] = granted[n]
            BY <1>1, <1>10, <2>1 DEF SaveGrant, QueriesTypeOK
        <3> QED
            BY <1>1, <1>10, <3>1, <3>2 DEF SaveGrant, AnswersWithinGrant
    <2> QED
        BY <2>3, <2>4, <2>5, <2>6
<1> QED
    BY <1>4, <1>5, <1>6, <1>7, <1>8, <1>9, <1>10

LEMMA InitGrantSafe ==
    ASSUME QueriesInit
    PROVE  GrantSafe
<1>1. NoDrain \in DrainState /\ NoDrain.pc = "idle" /\ NoDrain.token = 0
    BY DEF NoDrain, DrainState
<1> HIDE DEF NoDrain
<1>2. \A t \in Drains : drains[t] = NoDrain
    BY DEF QueriesInit
<1>3. queue = <<>> /\ <<>> \in Seq(QueryEntry) /\ log = <<>> /\ <<>> \in Seq(Nat) /\ DOMAIN queue = {}
    BY EmptySeq DEF QueriesInit
<1>4. QueriesTypeOK
    <2>1. MaxGrants \in Nat
        BY QueriesAssumption
    <2>2. granted \in [GrantTokens -> SUBSET AskedScopes] /\ grantFile \in SUBSET AskedScopes
        BY DEF QueriesInit, NoGrant
    <2>3. drains \in [Drains -> DrainState]
        BY <1>1 DEF QueriesInit
    <2>4. lastToken = 0 /\ heldToken = 0 /\ enrolled \in BOOLEAN /\ transition = "none"
        BY DEF QueriesInit
    <2> QED
        BY <1>1, <1>3, <2>1, <2>2, <2>3, <2>4 DEF QueriesTypeOK
<1>5. TokensInOrder /\ GrantIsTheLast /\ DrainsSound /\ AnswersWithinGrant
    BY <1>1, <1>2, <1>3 DEF QueriesInit, TokensInOrder, GrantIsTheLast, DrainsSound, AnswersWithinGrant
<1> QED
    BY <1>4, <1>5 DEF GrantSafe

LEMMA StepGrantSafe ==
    ASSUME GrantSafe, [QueriesNext]_queriesVars
    PROVE  GrantSafe'
<1>1. CASE UNCHANGED <<queue, lastToken, grantVars, drains, log>>
    BY <1>1 DEF GrantSafe, QueriesTypeOK, TokensInOrder, GrantIsTheLast, DrainsSound, AnswersWithinGrant, grantVars
<1>2. CASE UNCHANGED queriesVars
    BY <1>1, <1>2 DEF queriesVars, grantVars
<1>3. CASE Disconnects \/ Reconnects
    BY <1>1, <1>3 DEF Disconnects, Reconnects
<1>4. ASSUME NEW t \in Drains, DrainBegins(t) \/ DrainStep(t)
      PROVE  GrantSafe'
    BY <1>4, GrantSafeBegin, GrantSafePull, GrantSafeDecide, GrantSafeSkip, GrantSafePruneRead,
       GrantSafePruneWrite, GrantSafePost DEF DrainStep
<1> QED
    BY <1>2, <1>3, <1>4, GrantSafeAsk, GrantSafeEnrollment DEF QueriesNext

\* For any number of passes that overlap, questions and enrollments: an
\* answer the control plane holds is within the grant of the enrollment whose
\* token carried it (authorize, register's rotation of the token).
THEOREM AnswersAreGranted == QueriesSpec => []AnswersWithinGrant
<1>1. GrantSafe => AnswersWithinGrant
    BY DEF GrantSafe
<1> QED
    BY <1>1, InitGrantSafe, StepGrantSafe, PTL DEF QueriesSpec

=============================================================================
