--------------------------- MODULE Secrets_proofs ---------------------------
(***************************************************************************)
(* Proofs about the credential broker, for any number of requests, tokens, *)
(* classes and approvals and for every policy directory: every credential  *)
(* is accounted for (TokensAccounted), and the broker implements           *)
(* CredentialVault (ImplementsVault).  Both rest on the invariant Safe,    *)
(* which says what a request in flight holds: candidates that were asked   *)
(* for it, a permit nobody else has, a token nobody else has.              *)
(***************************************************************************)
EXTENDS Secrets, TLAPS, WellFoundedInduction

Doing(h, steps) == request[h] # Unset /\ request[h].step \in steps
Holding == {"record", "withdraw"}

SecretsTypeOK ==
    /\ stage \in [Ids -> Stages]
    /\ asked \in [Ids -> Question \cup {Unset}]
    /\ lapsed \subseteq Ids
    /\ policy \in OrgDirs
    /\ entries \in [Tokens -> IssuedRecord \cup {Unset}]
    /\ request \in [Handlers -> RequestState \cup {Unset}]
    /\ clock \in Nat
    /\ issued \subseteq Tokens
    /\ recorded \subseteq issued
    /\ handed \subseteq recorded
    /\ warrant \in [Tokens -> Warrant \cup {Unset}]
    /\ \A t \in issued : warrant[t] # Unset

\* A question that was put is known, and the candidates a request works
\* through were put by its requester about its class.
QuestionsKnown ==
    /\ \A i \in Ids : stage[i] # "unasked" => asked[i] \in Question
    /\ \A h \in Handlers : Doing(h, {"consume"}) =>
        \A k \in DOMAIN request[h].todo :
            /\ stage[request[h].todo[k]] # "unasked"
            /\ asked[request[h].todo[k]] = [who |-> request[h].who, class |-> request[h].class]

\* A request about to issue has its yes, under the policy now in force.
RequestHasYes ==
    \A h \in Handlers : Doing(h, {"issue"}) =>
        Yes(request[h].permit, request[h].who, request[h].class, policy)

\* An approval is the permit of at most one token or request.
PermitsApart ==
    /\ \A t, u \in issued :
        t # u /\ warrant[t].permit = warrant[u].permit => warrant[t].permit = "policy"
    /\ \A h \in Handlers, t \in issued :
        Doing(h, {"issue"}) /\ request[h].permit = warrant[t].permit => request[h].permit = "policy"
    /\ \A g, h \in Handlers :
        g # h /\ Doing(g, {"issue"}) /\ Doing(h, {"issue"}) /\ request[g].permit = request[h].permit
        => request[g].permit = "policy"

\* A token that is not yet recorded is with exactly one request.
TokensApart ==
    /\ \A t \in Tokens : entries[t] # Unset => t \in issued
    /\ \A h \in Handlers : Doing(h, Holding) => request[h].token \in issued \ recorded
    /\ \A g, h \in Handlers :
        g # h /\ Doing(g, Holding) /\ Doing(h, Holding) => request[g].token # request[h].token
    /\ \A t \in issued \ recorded :
        entries[t] # Unset => \E h \in Handlers : Doing(h, Holding) /\ request[h].token = t

Safe ==
    /\ SecretsTypeOK
    /\ QuestionsKnown
    /\ RequestHasYes
    /\ TokenHasYes
    /\ PermitsApart
    /\ TokensApart

-----------------------------------------------------------------------------
(* Operators.                                                              *)

\* A non-empty set of naturals has a least element.
LEMMA LeastNatural ==
    ASSUME NEW T, T \subseteq Nat, T # {}
    PROVE  \E x \in T : \A y \in T : x <= y
<1>1. PICK x \in T : \A y \in T : ~(<<y, x>> \in OpToRel(<, Nat))
    BY NatLessThanWellFounded, WFMin, Zenon
<1>2. \A y \in T : x <= y
    <2>1. \A y \in T : ~(y < x)
        BY <1>1, Zenon DEF OpToRel
    <2> QED
        BY <2>1
<1> QED
    BY <1>2

\* The documents of a directory, the defaults included, are documents.
LEMMA DocumentsAreTyped ==
    ASSUME NEW dir \in OrgDirs
    PROVE  Documents(dir) \in Seq(PolicyDocument)
<1>1. dir \in Seq(PolicyDocument)
    BY SecretsAssumption
<1>2. [rank |-> OsSecureDefaultRank, readable |-> TRUE, envelope |-> TRUE, says |-> Defaults] \in PolicyDocument
    BY SecretsAssumption DEF PolicyDocument, OsSecureDefaultRank
<1> QED
    BY <1>1, <1>2 DEF Documents

\* A layer has a place and a rank.
LEMMA LayersAreRanked ==
    ASSUME NEW dir \in OrgDirs, NEW i \in Layers(dir)
    PROVE  i \in Nat /\ Documents(dir)[i].rank \in Nat
<1> DEFINE D == Documents(dir)
<1>1. D \in Seq(PolicyDocument)
    BY DocumentsAreTyped
<1>2. i \in DOMAIN D
    BY DEF Layers
<1> HIDE DEF D
<1>3. i \in Nat /\ D[i] \in PolicyDocument
    BY <1>1, <1>2
<1>4. D[i].rank \in Nat
    BY <1>3 DEF PolicyDocument
<1> QED
    BY <1>3, <1>4 DEF D

\* Among the layers that state a class there is one that resolve picks.
LEMMA StrongestExists ==
    ASSUME NEW dir \in OrgDirs, NEW c \in Classes, Stating(dir, c) # {}
    PROVE  /\ StrongestOf(dir, c) \in Stating(dir, c)
           /\ \A j \in Stating(dir, c) : Stronger(dir, StrongestOf(dir, c), j)
<1> DEFINE D == Documents(dir)
           S == Stating(dir, c)
           ranks == {D[i].rank : i \in S}
<1>1. /\ S \subseteq Nat
      /\ \A i \in S : D[i].rank \in Nat
    BY LayersAreRanked DEF Stating
<1>2. PICK r \in ranks : \A q \in ranks : r <= q
    BY <1>1, LeastNatural, Zenon
<1> DEFINE firsts == {i \in S : D[i].rank = r}
<1>3. PICK i \in firsts : \A j \in firsts : i <= j
    BY <1>1, LeastNatural, Zenon
<1>4. \A j \in S : Stronger(dir, i, j)
    <2> TAKE j \in S
    <2>1. D[i].rank <= D[j].rank /\ D[i].rank \in Nat /\ D[j].rank \in Nat
        BY <1>1, <1>2, <1>3
    <2>2. D[i].rank = D[j].rank => i <= j
        BY <1>3
    <2> QED
        BY <2>1, <2>2 DEF Stronger
<1> QED
    BY <1>3, <1>4 DEF StrongestOf

\* A decision to allow comes from readable documents whose strongest says so.
LEMMA AllowMeansAllowed ==
    ASSUME NEW dir \in OrgDirs, NEW c \in Classes, CredentialDecision(dir, c) = "allow"
    PROVE  Allowed(dir, c)
<1> DEFINE D == Documents(dir)
           s == StrongestOf(dir, c)
<1>1. /\ \A i \in Layers(dir) : D[i].readable
      /\ Stating(dir, c) # {}
      /\ D[s].says[c] = "allow"
    BY DEF CredentialDecision
<1>2. s \in Stating(dir, c) /\ \A j \in Stating(dir, c) : Stronger(dir, s, j)
    BY <1>1, StrongestExists, Zenon
<1>3. \A j \in Layers(dir) : D[j].rank \in Nat
    BY LayersAreRanked
<1>4. s \in Layers(dir)
    BY <1>2 DEF Stating
<1>5. \A j \in Layers(dir) : D[j].says[c] # "unstated" => D[j].rank >= D[s].rank
    BY <1>2, <1>3, <1>4 DEF Stating, Stronger
<1> QED
    BY <1>1, <1>4, <1>5 DEF Allowed

\* A clamped lifetime is a natural number.
LEMMA TtlIsNatural ==
    ASSUME NEW c \in Classes, NEW ttl \in Ttls
    PROVE  EffectiveTtl(c, ttl) \in Nat
BY SecretsAssumption DEF EffectiveTtl

\* What punard lists are candidates, in some order.
LEMMA ListedAreCandidates ==
    ASSUME NEW S, S \subseteq Ids, NEW order \in Orders(S)
    PROVE  /\ order \in Seq(Ids)
           /\ \A k \in DOMAIN order : order[k] \in S
<1>1. Cardinality(S) \in Nat
    BY SecretsAssumption
<1>2. order \in [1..Cardinality(S) -> S]
    BY DEF Orders, Bijection, Injection
<1> QED
    BY <1>1, <1>2

-----------------------------------------------------------------------------
(* Safe is inductive.                                                      *)

\* What no step does to an approval: an answered question is not put again
\* and a spent approval is not approved again.
QuestionsKept ==
    \A i \in Ids :
        /\ stage[i] # "unasked" => stage'[i] # "unasked" /\ asked'[i] = asked[i]
        /\ stage[i] \in {"consumed", "gone"} => stage'[i] \in {"consumed", "gone"}

\* One request moves on, and the others stay where they are.
LEMMA OthersStay ==
    ASSUME SecretsTypeOK, NEW h \in Handlers, NEW new, request' = [request EXCEPT ![h] = new]
    PROVE  /\ request'[h] = new
           /\ \A g \in Handlers \ {h} : request'[g] = request[g]
BY DEF SecretsTypeOK

\* What a request, a token or a warrant rests on still holds after a step
\* that takes one request to where it has no candidates and no permit.
LEMMA ConsentKept ==
    ASSUME Safe, QuestionsKept, NEW h \in Handlers, NEW new,
           request' = [request EXCEPT ![h] = new],
           new = Unset \/ new.step \notin {"consume", "issue"},
           \A i \in Ids : stage'[i] # "unasked" => asked'[i] \in Question,
           UNCHANGED <<policy, issued, warrant>>
    PROVE  QuestionsKnown' /\ RequestHasYes' /\ TokenHasYes' /\ PermitsApart'
<1>1. SecretsTypeOK /\ QuestionsKnown /\ RequestHasYes /\ TokenHasYes /\ PermitsApart
    BY Zenon DEF Safe
<1>2. request'[h] = new /\ \A g \in Handlers \ {h} : request'[g] = request[g]
    BY <1>1, OthersStay, Zenon
<1>3. ASSUME NEW step \in {"consume", "issue"}, NEW g \in Handlers, Doing(g, {step})'
      PROVE  Doing(g, {step}) /\ request'[g] = request[g]
    <2>1. g # h
        BY <1>2, <1>3, Zenon DEF Doing
    <2> QED
        BY <1>2, <1>3, <2>1, Zenon DEF Doing
<1>4. QuestionsKnown'
    <2> SUFFICES ASSUME NEW g \in Handlers, Doing(g, {"consume"})', NEW k \in DOMAIN request'[g].todo
                 PROVE  /\ stage'[request'[g].todo[k]] # "unasked"
                        /\ asked'[request'[g].todo[k]] =
                                [who |-> request'[g].who, class |-> request'[g].class]
        BY Zenon DEF QuestionsKnown
    <2>1. Doing(g, {"consume"}) /\ request'[g] = request[g]
        BY <1>3, Zenon
    <2>2. request[g].todo[k] \in Ids
        BY <1>1, <2>1 DEF SecretsTypeOK, RequestState, Doing
    <2>3. /\ stage[request[g].todo[k]] # "unasked"
          /\ asked[request[g].todo[k]] = [who |-> request[g].who, class |-> request[g].class]
        BY <1>1, <2>1, Zenon DEF QuestionsKnown
    <2> QED
        BY <2>1, <2>2, <2>3, Zenon DEF QuestionsKept
<1>5. RequestHasYes'
    BY <1>1, <1>3 DEF RequestHasYes, Yes, QuestionsKept
<1>6. TokenHasYes'
    BY <1>1 DEF TokenHasYes, Yes, QuestionsKept
<1>7. PermitsApart'
    BY <1>1, <1>3 DEF PermitsApart
<1> QED
    BY <1>4, <1>5, <1>6, <1>7

LEMMA InitSafe == SecretsInit => Safe
<1> SUFFICES ASSUME SecretsInit
             PROVE  Safe
    OBVIOUS
<1> USE DEF SecretsInit, LifecycleInit
<1>1. SecretsTypeOK
    BY DEF SecretsTypeOK, Stages
<1>2. QuestionsKnown /\ RequestHasYes /\ TokenHasYes /\ PermitsApart /\ TokensApart
    BY DEF QuestionsKnown, RequestHasYes, TokenHasYes, PermitsApart, TokensApart, Doing
<1> QED
    BY <1>1, <1>2 DEF Safe

LEMMA SafeRequest ==
    ASSUME Safe, NEW h \in Handlers, NEW w \in Requesters, NEW c \in Classes, NEW ttl \in Ttls,
           CredentialRequest(h, w, c, ttl)
    PROVE  Safe'
<1> USE DEF Safe, CredentialRequest, punardVars, timeVars, ghostVars
<1>1. PICK step \in {"issue", "list"} :
        /\ CredentialDecision(policy, c) = IF step = "issue" THEN "allow" ELSE "request"
        /\ request' = [request EXCEPT ![h] =
                [step |-> step, who |-> w, class |-> c, ttl |-> ttl, permit |-> "policy",
                 todo |-> <<>>, token |-> Unset]]
    BY Zenon
<1> DEFINE new == [step |-> step, who |-> w, class |-> c, ttl |-> ttl, permit |-> "policy",
                   todo |-> <<>>, token |-> Unset]
<1>2. new \in RequestState
    BY DEF RequestState
<1>3. SecretsTypeOK'
    BY <1>1, <1>2 DEF SecretsTypeOK
<1>4. /\ request'[h] = new /\ new # Unset
      /\ \A g \in Handlers \ {h} : request'[g] = request[g]
    BY <1>1, <1>2, SecretsAssumption DEF SecretsTypeOK
<1>5. step = "issue" => Allowed(policy, c)
    BY <1>1, AllowMeansAllowed DEF SecretsTypeOK
<1>6. QuestionsKnown'
    BY <1>1, <1>4 DEF QuestionsKnown, Doing
<1>7. RequestHasYes'
    BY <1>1, <1>4, <1>5 DEF RequestHasYes, Doing, Yes
<1>8. TokenHasYes'
    BY DEF TokenHasYes, Yes
<1>9. PermitsApart'
    BY <1>1, <1>4 DEF PermitsApart, Doing
<1>10. TokensApart'
    BY <1>1, <1>4 DEF TokensApart, Doing, Holding
<1> QED
    BY <1>3, <1>6, <1>7, <1>8, <1>9, <1>10

\* A request that ends, whatever it held, as long as it leaves no token
\* behind in the store.
LEMMA SafeEnd ==
    ASSUME Safe, NEW h \in Handlers, request[h] # Unset, Finish(h), QuestionsKept,
           Doing(h, Holding) => entries'[request[h].token] = Unset,
           stage' \in [Ids -> Stages], asked' \in [Ids -> Question \cup {Unset}], lapsed' \subseteq Ids,
           \A i \in Ids : stage'[i] # "unasked" => asked'[i] \in Question,
           entries' \in [Tokens -> IssuedRecord \cup {Unset}],
           \A t \in Tokens : entries[t] = Unset => entries'[t] = Unset,
           UNCHANGED <<policy, timeVars, ghostVars>>
    PROVE  Safe'
<1> USE DEF Safe, Finish, timeVars, ghostVars
<1>1. SecretsTypeOK'
    BY DEF SecretsTypeOK
<1>2. request'[h] = Unset /\ \A g \in Handlers \ {h} : request'[g] = request[g]
    BY OthersStay, Zenon
<1>3. QuestionsKnown' /\ RequestHasYes' /\ TokenHasYes' /\ PermitsApart'
    BY ConsentKept, Zenon
<1>4. TokensApart'
    BY <1>2 DEF TokensApart, Doing, SecretsTypeOK
<1> QED
    BY <1>1, <1>3, <1>4, Zenon

LEMMA SafeUnreachable ==
    ASSUME Safe, NEW h \in Handlers, PunardUnreachable(h)
    PROVE  Safe'
BY SafeEnd DEF Safe, SecretsTypeOK, QuestionsKnown, PunardUnreachable, Doing, Holding, QuestionsKept, punardVars

LEMMA SafeList ==
    ASSUME Safe, NEW h \in Handlers, ListCandidates(h)
    PROVE  Safe'
<1> USE DEF Safe, punardVars, timeVars, ghostVars
<1> DEFINE S == {i \in Ids : Candidate(i, request[h])}
<1>1. PICK order \in Orders(S) :
        request' = [request EXCEPT ![h].todo = order, ![h].step = "consume"]
    BY Zenon DEF ListCandidates
<1>2. order \in Seq(Ids) /\ \A k \in DOMAIN order : order[k] \in S
    BY ListedAreCandidates, S \subseteq Ids
<1>3. request[h] \in RequestState /\ request[h] # Unset /\ UNCHANGED <<punardVars, policy, entries, timeVars, ghostVars>>
    BY DEF ListCandidates, SecretsTypeOK
<1> DEFINE new == [request[h] EXCEPT !.todo = order, !.step = "consume"]
<1>a. new \in RequestState
    BY <1>2, <1>3, Zenon DEF RequestState
<1>4. new \in RequestState /\ new # Unset
    BY <1>a, SecretsAssumption
<1>5. /\ request' = [request EXCEPT ![h] = new]
      /\ request'[h] = new
      /\ \A g \in Handlers \ {h} : request'[g] = request[g]
    BY <1>1, Zenon DEF SecretsTypeOK
<1>6. new.step = "consume" /\ new.todo = order /\ new.who = request[h].who /\ new.class = request[h].class
    BY <1>3 DEF RequestState
<1> HIDE DEF new
<1>7. SecretsTypeOK'
    BY <1>3, <1>4, <1>5 DEF SecretsTypeOK
<1>8. \A i \in S : stage[i] # "unasked" /\ asked[i] = [who |-> request[h].who, class |-> request[h].class]
    BY Zenon DEF Candidate, QuestionsKnown, Question
<1>9. QuestionsKnown'
    BY <1>2, <1>3, <1>4, <1>5, <1>6, <1>8 DEF QuestionsKnown, Doing
<1>10. RequestHasYes'
    BY <1>3, <1>5, <1>6 DEF RequestHasYes, Doing, Yes
<1>11. TokenHasYes'
    BY <1>3 DEF TokenHasYes, Yes
<1>12. PermitsApart'
    BY <1>3, <1>5, <1>6 DEF PermitsApart, Doing
<1>13. TokensApart'
    <2>1. ~Doing(h, Holding)
        BY DEF ListCandidates, Doing, Holding
    <2> QED
        BY <1>3, <1>5, <1>6, <2>1 DEF TokensApart, Doing, Holding
<1> QED
    BY <1>7, <1>9, <1>10, <1>11, <1>12, <1>13

LEMMA SafeConsume ==
    ASSUME Safe, NEW h \in Handlers, ConsumeNext(h)
    PROVE  Safe'
<1> USE DEF Safe, punardVars, timeVars, ghostVars
<1>1. /\ request[h] \in RequestState /\ request[h] # Unset /\ Doing(h, {"consume"}) /\ ~Doing(h, Holding)
      /\ UNCHANGED <<asked, lapsed, policy, entries, timeVars, ghostVars>>
    BY DEF ConsumeNext, SecretsTypeOK, Doing, Holding
<1>2. CASE request[h].todo = <<>>
    <2> DEFINE new == [request[h] EXCEPT !.step = "create"]
    <2>a. new \in RequestState /\ new.step = "create"
        BY <1>1 DEF RequestState
    <2>1. /\ new \in RequestState /\ new # Unset /\ new.step = "create"
        BY <2>a, SecretsAssumption
    <2>2. request' = [request EXCEPT ![h] = new] /\ UNCHANGED stage
        BY <1>2 DEF ConsumeNext, Go
    <2> HIDE DEF new
    <2>3. /\ request'[h] = new
          /\ \A g \in Handlers \ {h} : request'[g] = request[g]
        BY <2>2, OthersStay, Zenon
    <2>4. SecretsTypeOK'
        BY <1>1, <2>1, <2>2 DEF SecretsTypeOK
    <2>5. QuestionsKept /\ \A i \in Ids : stage'[i] # "unasked" => asked'[i] \in Question
        BY <1>1, <2>2 DEF QuestionsKept, QuestionsKnown
    <2>6. QuestionsKnown' /\ RequestHasYes' /\ TokenHasYes' /\ PermitsApart'
        BY <1>1, <2>1, <2>2, <2>5, ConsentKept, Zenon
    <2>7. TokensApart'
        BY <1>1, <2>1, <2>3 DEF TokensApart, Doing, Holding
    <2> QED
        BY <2>4, <2>6, <2>7, Zenon
<1>3. CASE request[h].todo # <<>>
    <2> DEFINE i == Head(request[h].todo)
    <2>1. /\ i \in Ids /\ stage[i] # "unasked"
          /\ asked[i] = [who |-> request[h].who, class |-> request[h].class]
          /\ Tail(request[h].todo) \in Seq(Ids)
          /\ \A k \in DOMAIN Tail(request[h].todo) :
                k + 1 \in DOMAIN request[h].todo /\ Tail(request[h].todo)[k] = request[h].todo[k + 1]
        <3>1. request[h].todo \in Seq(Ids)
            BY <1>1 DEF RequestState
        <3>2. i = request[h].todo[1] /\ 1 \in DOMAIN request[h].todo
            BY <1>3, <3>1
        <3>3. i \in Ids
            BY <3>1, <3>2
        <3>4. stage[i] # "unasked" /\ asked[i] = [who |-> request[h].who, class |-> request[h].class]
            BY <1>1, <3>2 DEF QuestionsKnown
        <3>5. Tail(request[h].todo) \in Seq(Ids)
            BY <1>3, <3>1
        <3>6. \A k \in DOMAIN Tail(request[h].todo) :
                k + 1 \in DOMAIN request[h].todo /\ Tail(request[h].todo)[k] = request[h].todo[k + 1]
            BY <1>3, <3>1
        <3> QED
            BY <3>3, <3>4, <3>5, <3>6
    <2> HIDE DEF i
    <2>2. \/ /\ Usable(i)
             /\ stage' = [stage EXCEPT ![i] = "consumed"]
             /\ request' = [request EXCEPT ![h].permit = i, ![h].step = "issue"]
          \/ /\ Usable(i)
             /\ stage' = [stage EXCEPT ![i] = "consumed"]
             /\ Finish(h)
          \/ /\ ~Usable(i)
             /\ request' = [request EXCEPT ![h].todo = Tail(@)]
             /\ UNCHANGED stage
        BY <1>3 DEF ConsumeNext, i
    <2>3. ASSUME Usable(i), stage' = [stage EXCEPT ![i] = "consumed"]
          PROVE  /\ QuestionsKept /\ stage' \in [Ids -> Stages]
                 /\ \A j \in Ids : stage'[j] # "unasked" => asked'[j] \in Question
        BY <1>1, <2>1, <2>3 DEF QuestionsKept, SecretsTypeOK, Stages, QuestionsKnown, Usable
    <2>4. CASE /\ Usable(i)
               /\ stage' = [stage EXCEPT ![i] = "consumed"]
               /\ request' = [request EXCEPT ![h].permit = i, ![h].step = "issue"]
        <3> DEFINE new == [request[h] EXCEPT !.permit = i, !.step = "issue"]
        <3>a. /\ new \in RequestState
              /\ new.step = "issue" /\ new.permit = i /\ new.who = request[h].who /\ new.class = request[h].class
            BY <1>1, <2>1, Zenon DEF RequestState
        <3>1. new # Unset
            BY <3>a, SecretsAssumption
        <3>b. /\ QuestionsKept /\ stage' \in [Ids -> Stages]
              /\ \A j \in Ids : stage'[j] # "unasked" => asked'[j] \in Question
            BY <2>3, <2>4
        <3>2. request' = [request EXCEPT ![h] = new]
            BY <2>4, Zenon
        <3> HIDE DEF new
        <3>3. /\ request'[h] = new
              /\ \A g \in Handlers \ {h} : request'[g] = request[g]
            BY <3>2 DEF SecretsTypeOK
        <3>4. SecretsTypeOK'
            BY <1>1, <3>a, <3>b, <3>2 DEF SecretsTypeOK
        <3>5. QuestionsKnown'
            BY <1>1, <2>3, <2>4, <3>a, <3>1, <3>3, SecretsAssumption
            DEF QuestionsKnown, Doing, QuestionsKept, SecretsTypeOK, RequestState
        <3>6. stage'[i] = "consumed"
            BY <2>1, <2>4 DEF SecretsTypeOK
        <3>7. RequestHasYes'
            <4> SUFFICES ASSUME NEW g \in Handlers, Doing(g, {"issue"})'
                         PROVE  Yes(request[g].permit, request[g].who, request[g].class, policy)'
                BY DEF RequestHasYes
            <4>1. CASE g = h
                BY <1>1, <2>1, <3>a, <3>3, <3>6, <4>1 DEF Yes
            <4>2. CASE g # h
                BY <1>1, <3>b, <3>3, <4>2 DEF RequestHasYes, Doing, Yes, QuestionsKept
            <4> QED
                BY <4>1, <4>2
        <3>8. TokenHasYes'
            BY <1>1, <2>3, <2>4 DEF TokenHasYes, Yes, QuestionsKept
        <3>9. PermitsApart'
            <4>1. \A t \in issued : warrant[t].permit # i
                BY <2>1, <2>4, SecretsAssumption, Zenon DEF TokenHasYes, Yes, Usable
            <4>2. \A g \in Handlers : Doing(g, {"issue"}) => request[g].permit # i
                BY <2>1, <2>4, SecretsAssumption, Zenon DEF RequestHasYes, Yes, Usable
            <4> QED
                BY <1>1, <3>a, <3>1, <3>3, <4>1, <4>2 DEF PermitsApart, Doing
        <3>10. TokensApart'
            BY <1>1, <3>a, <3>1, <3>3 DEF TokensApart, Doing, Holding
        <3> QED
            BY <3>4, <3>5, <3>7, <3>8, <3>9, <3>10
    <2>5. CASE /\ Usable(i)
               /\ stage' = [stage EXCEPT ![i] = "consumed"]
               /\ Finish(h)
        BY <1>1, <2>3, <2>5, SafeEnd DEF SecretsTypeOK
    <2>6. CASE /\ ~Usable(i)
               /\ request' = [request EXCEPT ![h].todo = Tail(@)]
               /\ UNCHANGED stage
        <3> DEFINE new == [request[h] EXCEPT !.todo = Tail(@)]
        <3>a. /\ new \in RequestState
              /\ new.step = "consume" /\ new.todo = Tail(request[h].todo)
              /\ new.who = request[h].who /\ new.class = request[h].class
            BY <1>1, <2>1, Zenon DEF RequestState, Doing
        <3>1. new # Unset
            BY <3>a, SecretsAssumption, Zenon
        <3>2. request' = [request EXCEPT ![h] = new]
            BY <2>6
        <3> HIDE DEF new
        <3>3. /\ request'[h] = new
              /\ \A g \in Handlers \ {h} : request'[g] = request[g]
            BY <3>2 DEF SecretsTypeOK
        <3>4. SecretsTypeOK'
            BY <1>1, <2>6, <3>a, <3>1, <3>2, Zenon DEF SecretsTypeOK
        <3>5. QuestionsKnown'
            BY <1>1, <2>1, <2>6, <3>a, <3>1, <3>3 DEF QuestionsKnown, Doing
        <3>6. RequestHasYes'
            BY <1>1, <2>6, <3>a, <3>1, <3>3 DEF RequestHasYes, Doing, Yes
        <3>9. TokenHasYes'
            BY <1>1, <2>6 DEF TokenHasYes, Yes
        <3>7. PermitsApart'
            BY <1>1, <3>a, <3>1, <3>3 DEF PermitsApart, Doing
        <3>8. TokensApart'
            BY <1>1, <3>a, <3>1, <3>3 DEF TokensApart, Doing, Holding
        <3> QED
            BY <3>4, <3>5, <3>6, <3>7, <3>8, <3>9, Zenon
    <2> QED
        BY <2>2, <2>4, <2>5, <2>6
<1> QED
    BY <1>2, <1>3

LEMMA SafeCreate ==
    ASSUME Safe, NEW h \in Handlers, CreateApprovalFor(h)
    PROVE  Safe'
<1> USE DEF Safe, punardVars
<1>1. /\ request[h] \in RequestState /\ request[h] # Unset /\ ~Doing(h, Holding) /\ Finish(h)
      /\ UNCHANGED <<lapsed, policy, entries, timeVars, ghostVars>>
    BY DEF CreateApprovalFor, SecretsTypeOK, Doing, Holding
<1>2. \/ \E i \in Ids :
            /\ stage[i] = "unasked"
            /\ stage' = [stage EXCEPT ![i] = "pending"]
            /\ asked' = [asked EXCEPT ![i] = [who |-> request[h].who, class |-> request[h].class]]
      \/ UNCHANGED <<stage, asked>>
    BY DEF CreateApprovalFor
<1>3. [who |-> request[h].who, class |-> request[h].class] \in Question
    BY <1>1 DEF RequestState, Question
<1>4. /\ QuestionsKept /\ stage' \in [Ids -> Stages] /\ asked' \in [Ids -> Question \cup {Unset}]
      /\ \A i \in Ids : stage'[i] # "unasked" => asked'[i] \in Question
    BY <1>2, <1>3 DEF SecretsTypeOK, Stages, QuestionsKept, QuestionsKnown
<1> QED
    BY <1>1, <1>4, SafeEnd DEF SecretsTypeOK

\* Making room in the store only takes entries out.
LEMMA RoomOnlyDrops ==
    ASSUME SecretsTypeOK
    PROVE  /\ Room \in [Tokens -> IssuedRecord \cup {Unset}]
           /\ \A t \in Tokens : Room[t] = entries[t] \/ Room[t] = Unset
BY DEF SecretsTypeOK, Room, DropExpired

LEMMA SafeIssue ==
    ASSUME Safe, NEW h \in Handlers, IssueToken(h)
    PROVE  Safe'
<1> USE DEF Safe, punardVars, timeVars
<1> DEFINE call == request[h]
           ttl == EffectiveTtl(call.class, call.ttl)
<1>1. /\ call \in RequestState /\ call # Unset /\ Doing(h, {"issue"}) /\ ~Doing(h, Holding)
      /\ UNCHANGED <<stage, asked, lapsed, policy, clock, setBacks, recorded, handed, verdict>>
    BY DEF IssueToken, SecretsTypeOK, Doing, Holding
<1>2. \/ /\ Finish(h) /\ (entries' = entries \/ entries' = Room)
         /\ UNCHANGED <<issued, warrant>>
      \/ \E t \in Tokens \ issued :
            /\ entries' = [Room EXCEPT ![t] = [class |-> call.class, expires |-> clock + ttl]]
            /\ issued' = issued \cup {t}
            /\ warrant' = [warrant EXCEPT ![t] =
                    [who |-> call.who, class |-> call.class, permit |-> call.permit, under |-> policy]]
            /\ request' = [request EXCEPT ![h].token = t, ![h].step = "record"]
    BY Zenon DEF IssueToken
<1>3. CASE /\ Finish(h) /\ (entries' = entries \/ entries' = Room)
           /\ UNCHANGED <<issued, warrant>>
    <2>1. QuestionsKept
        BY <1>1 DEF QuestionsKept
    <2>2. /\ entries' \in [Tokens -> IssuedRecord \cup {Unset}]
          /\ \A t \in Tokens : entries[t] = Unset => entries'[t] = Unset
        BY <1>3, RoomOnlyDrops DEF SecretsTypeOK
    <2> QED
        BY <1>1, <1>3, <2>1, <2>2, SafeEnd, Zenon DEF SecretsTypeOK, QuestionsKnown, ghostVars
<1>4. ASSUME NEW t \in Tokens \ issued,
             entries' = [Room EXCEPT ![t] = [class |-> call.class, expires |-> clock + ttl]],
             issued' = issued \cup {t},
             warrant' = [warrant EXCEPT ![t] =
                [who |-> call.who, class |-> call.class, permit |-> call.permit, under |-> policy]],
             request' = [request EXCEPT ![h].token = t, ![h].step = "record"]
      PROVE  Safe'
    <2> DEFINE new == [call EXCEPT !.token = t, !.step = "record"]
               paper == [who |-> call.who, class |-> call.class, permit |-> call.permit, under |-> policy]
               rec == [class |-> call.class, expires |-> clock + ttl]
    <2>1. new \in RequestState /\ new.step = "record" /\ new.token = t
        BY <1>1, Zenon DEF RequestState
    <2>2. /\ paper \in Warrant /\ paper.permit = call.permit /\ paper.who = call.who
          /\ paper.class = call.class /\ paper.under = policy
        BY <1>1, Zenon DEF RequestState, Warrant, SecretsTypeOK
    <2>3. rec \in IssuedRecord
        <3>1. call.class \in Classes /\ call.ttl \in Ttls
            BY <1>1 DEF RequestState
        <3>2. ttl \in Nat
            BY <3>1, TtlIsNatural
        <3> QED
            BY <3>1, <3>2 DEF IssuedRecord, SecretsTypeOK
    <2>4. new # Unset /\ paper # Unset /\ rec # Unset
        BY <2>1, <2>2, <2>3, SecretsAssumption
    <2>5. request' = [request EXCEPT ![h] = new] /\ warrant' = [warrant EXCEPT ![t] = paper]
          /\ entries' = [Room EXCEPT ![t] = rec]
        BY <1>4, Zenon
    <2> HIDE DEF new, paper, rec
    <2>6. /\ request'[h] = new
          /\ \A g \in Handlers \ {h} : request'[g] = request[g]
          /\ warrant'[t] = paper
          /\ \A u \in issued : warrant'[u] = warrant[u]
        BY <2>5, <1>4 DEF SecretsTypeOK
    <2>7. /\ entries'[t] # Unset
          /\ \A u \in Tokens \ {t} : entries'[u] = entries[u] \/ entries'[u] = Unset
        BY <2>4, <2>5, <1>4, RoomOnlyDrops
    <2>8. SecretsTypeOK'
        BY <1>1, <1>4, <2>1, <2>2, <2>3, <2>4, <2>5, <2>6, RoomOnlyDrops DEF SecretsTypeOK
    <2>9. QuestionsKnown'
        BY <1>1, <2>1, <2>6 DEF QuestionsKnown, Doing
    <2>10. RequestHasYes'
        BY <1>1, <2>1, <2>6 DEF RequestHasYes, Doing, Yes
    <2>11. TokenHasYes'
        BY <1>1, <1>4, <2>2, <2>6 DEF TokenHasYes, RequestHasYes, Yes
    <2>12. PermitsApart'
        <3>1. \A u \in issued : call.permit = warrant[u].permit => call.permit = "policy"
            BY <1>1, Zenon DEF PermitsApart
        <3>2. \A g \in Handlers \ {h} :
                Doing(g, {"issue"}) /\ request[g].permit = call.permit => call.permit = "policy"
            BY <1>1 DEF PermitsApart
        <3>3. \A u, v \in issued' :
                u # v /\ warrant'[u].permit = warrant'[v].permit => warrant'[u].permit = "policy"
            BY <1>4, <2>2, <2>6, <3>1 DEF PermitsApart
        <3>4. \A g \in Handlers, u \in issued' :
                Doing(g, {"issue"})' /\ request'[g].permit = warrant'[u].permit => request'[g].permit = "policy"
            <4>1. \A g \in Handlers : Doing(g, {"issue"})' =>
                    g # h /\ Doing(g, {"issue"}) /\ request'[g].permit = request[g].permit
                BY <2>1, <2>6 DEF Doing
            <4>2. \A g \in Handlers : Doing(g, {"issue"})' /\ request'[g].permit = warrant'[t].permit =>
                    request'[g].permit = "policy"
                BY <2>2, <2>6, <3>2, <4>1
            <4>3. \A g \in Handlers, u \in issued :
                    Doing(g, {"issue"})' /\ request'[g].permit = warrant'[u].permit => request'[g].permit = "policy"
                BY <2>6, <4>1 DEF PermitsApart
            <4> QED
                BY <1>4, <4>2, <4>3, Zenon
        <3>5. \A g, k \in Handlers :
                g # k /\ Doing(g, {"issue"})' /\ Doing(k, {"issue"})' /\ request'[g].permit = request'[k].permit
                => request'[g].permit = "policy"
            BY <2>1, <2>6 DEF PermitsApart, Doing
        <3> QED
            BY <3>3, <3>4, <3>5, Zenon DEF PermitsApart
    <2>13. TokensApart'
        <3>1. t \notin recorded /\ \A g \in Handlers : Doing(g, Holding) => request[g].token # t
            BY <1>4 DEF TokensApart, SecretsTypeOK
        <3>2. \A u \in Tokens : entries'[u] # Unset => u \in issued'
            BY <1>4, <2>7 DEF TokensApart
        <3>3. \A g \in Handlers : Doing(g, Holding)' => request'[g].token \in issued' \ recorded'
            <4>1. request'[h].token \in issued' \ recorded'
                BY <1>1, <1>4, <2>1, <2>6, <3>1
            <4>2. \A g \in Handlers \ {h} : Doing(g, Holding)' =>
                    Doing(g, Holding) /\ request'[g].token = request[g].token
                BY <2>6 DEF Doing
            <4>3. issued \subseteq issued' /\ recorded' = recorded
                BY <1>1, <1>4
            <4> QED
                BY <4>1, <4>2, <4>3 DEF TokensApart
        <3>4. \A g, k \in Handlers :
                g # k /\ Doing(g, Holding)' /\ Doing(k, Holding)' => request'[g].token # request'[k].token
            <4>1. \A g \in Handlers \ {h} : Doing(g, Holding)' =>
                    Doing(g, Holding) /\ request'[g].token = request[g].token /\ request'[g].token # t
                BY <2>6, <3>1 DEF Doing
            <4> QED
                BY <2>1, <2>6, <4>1 DEF TokensApart
        <3>5. Doing(h, Holding)' /\ request'[h].token = t
            BY <2>1, <2>4, <2>6 DEF Doing, Holding
        <3>6. \A g \in Handlers : Doing(g, Holding) => Doing(g, Holding)' /\ request'[g].token = request[g].token
            BY <1>1, <2>6 DEF Doing
        <3>7. \A u \in issued' \ recorded' :
                entries'[u] # Unset => \E g \in Handlers : Doing(g, Holding)' /\ request'[g].token = u
            <4> SUFFICES ASSUME NEW u \in issued' \ recorded', entries'[u] # Unset
                         PROVE  \E g \in Handlers : Doing(g, Holding)' /\ request'[g].token = u
                OBVIOUS
            <4>1. CASE u = t
                BY <3>5, <4>1
            <4>2. CASE u # t
                <5>1. u \in issued \ recorded /\ entries[u] # Unset
                    BY <1>1, <1>4, <2>7, <4>2 DEF SecretsTypeOK
                <5> QED
                    BY <3>6, <5>1 DEF TokensApart
            <4> QED
                BY <4>1, <4>2
        <3> QED
            BY <3>2, <3>3, <3>4, <3>7, Zenon DEF TokensApart
    <2> QED
        BY <2>8, <2>9, <2>10, <2>11, <2>12, <2>13
<1> QED
    BY <1>2, <1>3, <1>4, Zenon

LEMMA SafeRecord ==
    ASSUME Safe, NEW h \in Handlers, RecordIssue(h)
    PROVE  Safe'
<1> USE DEF Safe
<1> DEFINE t == request[h].token
<1>1. /\ request[h] \in RequestState /\ request[h] # Unset /\ Doing(h, Holding)
      /\ UNCHANGED <<stage, asked, lapsed, policy, entries, clock, issued, warrant>>
    BY DEF RecordIssue, SecretsTypeOK, Doing, Holding, punardVars, timeVars
<1>2. t \in issued \ recorded
    BY <1>1, Zenon DEF TokensApart
<1>k. QuestionsKept /\ \A i \in Ids : stage'[i] # "unasked" => asked'[i] \in Question
    BY <1>1, Zenon DEF QuestionsKept, QuestionsKnown
<1>3. CASE /\ recorded' = recorded \cup {t} /\ handed' = handed \cup {t}
           /\ Finish(h)
    <2>1. /\ request'[h] = Unset
          /\ \A g \in Handlers \ {h} : request'[g] = request[g]
        BY <1>3 DEF SecretsTypeOK, Finish
    <2>2. SecretsTypeOK'
        BY <1>1, <1>2, <1>3 DEF SecretsTypeOK, Finish
    <2>3. QuestionsKnown' /\ RequestHasYes' /\ TokenHasYes' /\ PermitsApart'
        BY <1>1, <1>3, <1>k, ConsentKept, Zenon DEF Finish
    <2>5. \A g \in Handlers : Doing(g, Holding)' =>
            g # h /\ Doing(g, Holding) /\ request'[g].token = request[g].token
        BY <2>1 DEF Doing
    <2>6. \A g \in Handlers \ {h} : Doing(g, Holding) =>
            Doing(g, Holding)' /\ request'[g].token = request[g].token /\ request[g].token # t
        BY <1>1, <2>1 DEF Doing, TokensApart
    <2>7. TokensApart'
        <3>1. \A g \in Handlers : Doing(g, Holding)' => request'[g].token \in issued' \ recorded'
            BY <1>1, <1>3, <2>5, <2>6, Zenon DEF TokensApart
        <3>2. \A g, k \in Handlers :
                g # k /\ Doing(g, Holding)' /\ Doing(k, Holding)' => request'[g].token # request'[k].token
            BY <2>5, Zenon DEF TokensApart
        <3>3. \A u \in issued' \ recorded' : entries'[u] # Unset =>
                \E g \in Handlers : Doing(g, Holding)' /\ request'[g].token = u
            <4> SUFFICES ASSUME NEW u \in issued \ recorded, u # t, entries[u] # Unset
                         PROVE  \E g \in Handlers : Doing(g, Holding)' /\ request'[g].token = u
                BY <1>1, <1>3
            <4>1. PICK g \in Handlers : Doing(g, Holding) /\ request[g].token = u
                BY Zenon DEF TokensApart
            <4> QED
                BY <2>6, <4>1, Zenon
        <3>4. \A u \in Tokens : entries'[u] # Unset => u \in issued'
            BY <1>1 DEF TokensApart
        <3> QED
            BY <3>1, <3>2, <3>3, <3>4, Zenon DEF TokensApart
    <2> QED
        BY <2>2, <2>3, <2>7, Zenon
<1>4. CASE Go(h, "withdraw") /\ UNCHANGED <<recorded, handed>>
    <2> DEFINE new == [request[h] EXCEPT !.step = "withdraw"]
    <2>1. new \in RequestState /\ new.step = "withdraw" /\ new.token = t
        BY <1>1 DEF RequestState
    <2>2. new # Unset
        BY <2>1, SecretsAssumption
    <2>3. request' = [request EXCEPT ![h] = new]
        BY <1>4 DEF Go
    <2> HIDE DEF new
    <2>4. /\ request'[h] = new
          /\ \A g \in Handlers \ {h} : request'[g] = request[g]
        BY <2>3 DEF SecretsTypeOK
    <2>5. SecretsTypeOK'
        BY <1>1, <1>4, <2>1, <2>3 DEF SecretsTypeOK
    <2>6. QuestionsKnown' /\ RequestHasYes' /\ TokenHasYes' /\ PermitsApart'
        BY <1>1, <1>k, <2>1, <2>3, ConsentKept, Zenon
    <2>8. \A g \in Handlers : /\ Doing(g, Holding)' <=> Doing(g, Holding)
                              /\ Doing(g, Holding) => request'[g].token = request[g].token
        BY <1>1, <2>1, <2>2, <2>4 DEF Doing, Holding
    <2>9. TokensApart'
        <3>1. \A u \in Tokens : entries'[u] # Unset => u \in issued'
            BY <1>1, Zenon DEF TokensApart
        <3>2. \A g \in Handlers : Doing(g, Holding)' => request'[g].token \in issued' \ recorded'
            BY <1>1, <1>4, <2>8, Zenon DEF TokensApart
        <3>3. \A g, k \in Handlers :
                g # k /\ Doing(g, Holding)' /\ Doing(k, Holding)' => request'[g].token # request'[k].token
            BY <2>8, Zenon DEF TokensApart
        <3>4. \A u \in issued' \ recorded' : entries'[u] # Unset =>
                \E g \in Handlers : Doing(g, Holding)' /\ request'[g].token = u
            <4> SUFFICES ASSUME NEW u \in issued \ recorded, entries[u] # Unset
                         PROVE  \E g \in Handlers : Doing(g, Holding)' /\ request'[g].token = u
                BY <1>1, <1>4, Zenon
            <4>1. PICK g \in Handlers : Doing(g, Holding) /\ request[g].token = u
                BY Zenon DEF TokensApart
            <4> QED
                BY <2>8, <4>1, Zenon
        <3> QED
            BY <3>1, <3>2, <3>3, <3>4, Zenon DEF TokensApart
    <2> QED
        BY <2>5, <2>6, <2>9, Zenon
<1> QED
    BY <1>3, <1>4, Zenon DEF RecordIssue

LEMMA SafeWithdraw ==
    ASSUME Safe, NEW h \in Handlers, WithdrawUnrecorded(h)
    PROVE  Safe'
<1>1. Doing(h, Holding) /\ request[h] # Unset /\ Finish(h)
    BY DEF WithdrawUnrecorded, Doing, Holding
<1>2. request[h].token \in Tokens
    BY <1>1 DEF Safe, TokensApart, SecretsTypeOK
<1>3. /\ entries' \in [Tokens -> IssuedRecord \cup {Unset}]
      /\ entries'[request[h].token] = Unset
      /\ \A t \in Tokens : entries[t] = Unset => entries'[t] = Unset
    BY <1>2 DEF WithdrawUnrecorded, Safe, SecretsTypeOK
<1> QED
    BY <1>1, <1>3, SafeEnd, Zenon DEF WithdrawUnrecorded, Safe, SecretsTypeOK, QuestionsKnown, QuestionsKept, punardVars

\* Steps in which no request moves.
LEMMA SafeAside ==
    ASSUME Safe, QuestionsKept, UNCHANGED <<request, asked, policy, issued, warrant, recorded, handed>>,
           stage' \in [Ids -> Stages], lapsed' \subseteq Ids, clock' \in Nat,
           \A i \in Ids : stage[i] = "unasked" => stage'[i] = "unasked",
           entries' \in [Tokens -> IssuedRecord \cup {Unset}],
           \A t \in Tokens : entries[t] = Unset => entries'[t] = Unset
    PROVE  Safe'
<1> USE DEF Safe
<1>1. SecretsTypeOK'
    BY DEF SecretsTypeOK
<1>2. QuestionsKnown'
    <2>1. \A i \in Ids : stage'[i] # "unasked" => asked'[i] \in Question
        BY Zenon DEF QuestionsKnown
    <2> SUFFICES ASSUME NEW g \in Handlers, Doing(g, {"consume"}), NEW k \in DOMAIN request[g].todo
                 PROVE  /\ stage'[request[g].todo[k]] # "unasked"
                        /\ asked'[request[g].todo[k]] = [who |-> request[g].who, class |-> request[g].class]
        BY <2>1, Zenon DEF QuestionsKnown, Doing
    <2>2. request[g].todo[k] \in Ids
        BY DEF Doing, SecretsTypeOK, RequestState
    <2>3. /\ stage[request[g].todo[k]] # "unasked"
          /\ asked[request[g].todo[k]] = [who |-> request[g].who, class |-> request[g].class]
        BY Zenon DEF QuestionsKnown
    <2> QED
        BY <2>2, <2>3, Zenon DEF QuestionsKept
<1>3. RequestHasYes'
    BY DEF RequestHasYes, Yes, QuestionsKept, Doing
<1>6. TokenHasYes'
    BY DEF TokenHasYes, Yes, QuestionsKept
<1>4. PermitsApart'
    BY Zenon DEF PermitsApart, Doing
<1>5. TokensApart'
    BY DEF TokensApart, Doing, SecretsTypeOK
<1> QED
    BY <1>1, <1>2, <1>3, <1>4, <1>5, <1>6, Zenon

LEMMA SafeSurroundings ==
    ASSUME Safe,
           \/ \E t \in Tokens, c \in Classes \cup {Unset} : Present(t, c)
           \/ \E t \in Tokens : Revoke(t)
           \/ \E i \in Ids : PunardMoves(i)
           \/ ClockMoves
    PROVE  Safe'
<1> USE DEF Safe, punardVars, timeVars, ghostVars
<1>1. ASSUME NEW t \in Tokens, NEW c \in Classes \cup {Unset}, Present(t, c)
      PROVE  Safe'
    <2>1. /\ entries' \in [Tokens -> IssuedRecord \cup {Unset}]
          /\ \A u \in Tokens : entries[u] = Unset => entries'[u] = Unset
        BY <1>1 DEF Present, SecretsTypeOK
    <2> QED
        BY <1>1, <2>1, SafeAside, Zenon DEF Present, SecretsTypeOK, QuestionsKept
<1>2. ASSUME NEW t \in Tokens, Revoke(t)
      PROVE  Safe'
    <2>1. /\ entries' \in [Tokens -> IssuedRecord \cup {Unset}]
          /\ \A u \in Tokens : entries[u] = Unset => entries'[u] = Unset
        BY <1>2 DEF Revoke, SecretsTypeOK
    <2> QED
        BY <1>2, <2>1, SafeAside, Zenon DEF Revoke, SecretsTypeOK, QuestionsKept
<1>3. ASSUME NEW i \in Ids, PunardMoves(i)
      PROVE  Safe'
    <2>1. \/ stage' = stage
          \/ \E s \in {"approved", "denied", "expired", "gone"} :
                /\ stage[i] \in {"pending", "denied", "expired", "consumed"}
                /\ stage[i] = "consumed" => s = "gone"
                /\ stage' = [stage EXCEPT ![i] = s]
        BY <1>3 DEF PunardMoves
    <2>2. /\ stage' \in [Ids -> Stages]
          /\ \A j \in Ids : stage[j] = "unasked" => stage'[j] = "unasked"
        BY <2>1 DEF SecretsTypeOK, Stages
    <2>3. asked' = asked /\ lapsed' \subseteq Ids
        BY <1>3 DEF PunardMoves, SecretsTypeOK
    <2>4. QuestionsKept
        BY <2>1, <2>3 DEF SecretsTypeOK, QuestionsKept
    <2> QED
        BY <1>3, <2>2, <2>3, <2>4, SafeAside, Zenon DEF PunardMoves, SecretsTypeOK
<1>4. ASSUME ClockMoves
      PROVE  Safe'
    <2>1. clock' \in Nat
        BY <1>4 DEF ClockMoves, SecretsTypeOK
    <2> QED
        BY <1>4, <2>1, SafeAside, Zenon DEF ClockMoves, SecretsTypeOK, QuestionsKept
<1> QED
    BY <1>1, <1>2, <1>3, <1>4

LEMMA SafeRestart ==
    ASSUME Safe, BrokerRestart
    PROVE  Safe'
<1>a. /\ request' = [h \in Handlers |-> Unset] /\ entries' = [t \in Tokens |-> Unset]
      /\ policy' \in OrgDirs
      /\ UNCHANGED <<stage, asked, lapsed, clock, issued, recorded, handed, warrant>>
    BY Zenon DEF BrokerRestart, punardVars, timeVars, ghostVars
<1>b. (\A h \in Handlers : request'[h] = Unset) /\ (\A t \in Tokens : entries'[t] = Unset)
    BY <1>a, Zenon
<1>1. SecretsTypeOK'
    BY <1>a DEF Safe, SecretsTypeOK
<1>2. QuestionsKnown'
    BY <1>a, <1>b, Zenon DEF Safe, QuestionsKnown, Doing
<1>3. RequestHasYes'
    BY <1>b, Zenon DEF RequestHasYes, Doing
<1>4. TokenHasYes'
    BY <1>a, Zenon DEF Safe, TokenHasYes, Yes
<1>5. PermitsApart'
    BY <1>a, <1>b, Zenon DEF Safe, PermitsApart, Doing
<1>6. TokensApart'
    <2>1. issued' \subseteq Tokens
        BY <1>1, Zenon DEF SecretsTypeOK
    <2> QED
        BY <1>b, <2>1, Zenon DEF TokensApart, Doing
<1> QED
    BY <1>1, <1>2, <1>3, <1>4, <1>5, <1>6, Zenon DEF Safe

LEMMA StepSafe == Safe /\ [SecretsNext]_secretsVars => Safe'
<1> SUFFICES ASSUME Safe, [SecretsNext]_secretsVars
             PROVE  Safe'
    OBVIOUS
<1>1. CASE UNCHANGED secretsVars
    <2>1. /\ UNCHANGED <<request, asked, policy, issued, warrant, recorded, handed>>
          /\ UNCHANGED <<stage, lapsed, clock, entries>>
        BY <1>1, Zenon DEF secretsVars, punardVars, timeVars, ghostVars
    <2>2. SecretsTypeOK
        BY Zenon DEF Safe
    <2> QED
        BY <2>1, <2>2, SafeAside DEF QuestionsKept, SecretsTypeOK
<1>2. CASE SecretsNext
    BY <1>2, SafeRequest, SafeUnreachable, SafeList, SafeConsume, SafeCreate, SafeIssue, SafeRecord,
       SafeWithdraw, SafeSurroundings, SafeRestart, Zenon DEF SecretsNext
<1> QED
    BY <1>1, <1>2

LEMMA AlwaysSafe == SecretsSpec => []Safe
BY InitSafe, StepSafe, PTL DEF SecretsSpec

\* Every credential the broker ever made goes back to a yes to the request it
\* was made for, and every one it handed out is in the audit trail, however
\* requests race and whatever is lost or restarted in between
\* (credential_decision, gated_request, issue, try_audit).
THEOREM Accounted == SecretsSpec => []TokensAccounted
<1>1. Safe => TokensAccounted
    BY DEF Safe, TokensAccounted, HandedIsRecorded, TokensApart, SecretsTypeOK, Doing
<1> QED
    BY <1>1, AlwaysSafe, PTL

-----------------------------------------------------------------------------
(* The broker implements the vault.                                        *)

\* The refinement mapping, named.
Life == [t \in Tokens |-> IF entries[t] # Unset THEN "live"
                          ELSE IF t \in issued THEN "dead" ELSE "unborn"]
Basis == [t \in Tokens |-> IF t \in issued THEN warrant[t].permit ELSE Unset]

\* Every step that makes no token and tells no verdict takes some tokens out
\* of the store, most often none.
LEMMA DropIsWithdraw ==
    ASSUME Safe, UNCHANGED <<issued, warrant, verdict>>,
           \A t \in Tokens : entries'[t] = entries[t] \/ entries'[t] = Unset
    PROVE  Vault!VaultNext
<1>0. PICK S \in SUBSET Tokens : S = {t \in Tokens : entries[t] # Unset /\ entries'[t] = Unset}
    BY Zenon
<1>1. \A t \in S : Life[t] = "live"
    BY <1>0 DEF Life
<1>2. Life' = [t \in Tokens |-> IF t \in S THEN "dead" ELSE Life[t]]
    <2> SUFFICES ASSUME NEW t \in Tokens
                 PROVE  Life'[t] = IF t \in S THEN "dead" ELSE Life[t]
        BY DEF Life
    <2>1. entries[t] # Unset => t \in issued
        BY DEF Safe, TokensApart
    <2> QED
        BY <1>0, <2>1 DEF Life
<1>3. Basis' = Basis
    BY DEF Basis
<1>4. Vault!Withdraw(S)
    BY <1>1, <1>2, <1>3 DEF Vault!Withdraw, Life, Basis
<1> QED
    BY <1>4, Zenon DEF Vault!VaultNext

LEMMA IssueIsIssue ==
    ASSUME Safe, NEW h \in Handlers, IssueToken(h)
    PROVE  Vault!VaultNext
<1> DEFINE call == request[h]
           rec == [class |-> call.class, expires |-> clock + EffectiveTtl(call.class, call.ttl)]
           paper == [who |-> call.who, class |-> call.class, permit |-> call.permit, under |-> policy]
<1>1. /\ call \in RequestState /\ Doing(h, {"issue"}) /\ UNCHANGED verdict
      /\ SecretsTypeOK
    BY DEF IssueToken, Safe, SecretsTypeOK, Doing
<1>2. \/ (entries' = entries \/ entries' = Room) /\ UNCHANGED <<issued, warrant>>
      \/ \E t \in Tokens \ issued :
            /\ entries' = [Room EXCEPT ![t] = rec]
            /\ issued' = issued \cup {t}
            /\ warrant' = [warrant EXCEPT ![t] = paper]
    BY Zenon DEF IssueToken
<1>3. CASE (entries' = entries \/ entries' = Room) /\ UNCHANGED <<issued, warrant>>
    BY <1>1, <1>3, RoomOnlyDrops, DropIsWithdraw
<1>4. ASSUME NEW t \in Tokens \ issued,
             entries' = [Room EXCEPT ![t] = rec],
             issued' = issued \cup {t},
             warrant' = [warrant EXCEPT ![t] = paper]
      PROVE  Vault!VaultNext
    <2>0. PICK S \in SUBSET Tokens : S = {u \in Tokens \ {t} : entries[u] # Unset /\ entries'[u] = Unset}
        BY Zenon
    <2>p. PICK p \in Ids \cup {"policy"} : p = call.permit
        BY <1>1 DEF RequestState
    <2>1. rec \in IssuedRecord
        <3>1. call.class \in Classes /\ call.ttl \in Ttls
            BY <1>1 DEF RequestState
        <3>2. EffectiveTtl(call.class, call.ttl) \in Nat
            BY <3>1, TtlIsNatural
        <3> QED
            BY <1>1, <3>1, <3>2 DEF IssuedRecord, SecretsTypeOK
    <2>2. rec # Unset /\ paper.permit = p /\ p \in Ids \cup {"policy"}
        BY <2>1, <2>p, SecretsAssumption
    <2> HIDE DEF rec, paper
    <2>3. /\ entries'[t] # Unset
          /\ \A u \in Tokens \ {t} : entries'[u] = entries[u] \/ entries'[u] = Unset
        BY <1>1, <1>4, <2>2, RoomOnlyDrops
    <2>4. \A u \in Tokens : entries[u] # Unset => u \in issued
        BY Zenon DEF Safe, TokensApart
    <2>5. Life[t] = "unborn" /\ \A u \in S : Life[u] = "live"
        BY <1>4, <2>0, <2>4 DEF Life
    <2>6. Life' = [u \in Tokens |-> IF u = t THEN "live" ELSE IF u \in S THEN "dead" ELSE Life[u]]
        <3> SUFFICES ASSUME NEW u \in Tokens
                     PROVE  Life'[u] = IF u = t THEN "live" ELSE IF u \in S THEN "dead" ELSE Life[u]
            BY DEF Life
        <3>1. CASE u = t
            BY <2>3, <3>1 DEF Life
        <3>2. CASE u # t
            BY <1>4, <2>0, <2>3, <2>4, <3>2 DEF Life
        <3> QED
            BY <3>1, <3>2
    <2>7. p = "policy" \/ \A u \in Tokens : Basis[u] # p
        <3>1. \A u \in issued : p = warrant[u].permit => p = "policy"
            BY <1>1, <2>p, Zenon DEF Safe, PermitsApart
        <3>2. p # "policy" => p # Unset
            BY <2>2, SecretsAssumption
        <3> QED
            BY <3>1, <3>2 DEF Basis
    <2>8. Basis' = [Basis EXCEPT ![t] = p]
        <3>1. warrant'[t] = paper /\ \A u \in Tokens \ {t} : warrant'[u] = warrant[u]
            BY <1>1, <1>4 DEF SecretsTypeOK
        <3>2. ASSUME NEW u \in Tokens PROVE Basis'[u] = IF u = t THEN p ELSE Basis[u]
            BY <1>4, <2>2, <3>1 DEF Basis
        <3> QED
            BY <3>2, Zenon DEF Basis
    <2>9. Vault!Issue(t, p, S)
        BY <1>1, <2>5, <2>6, <2>7, <2>8, Zenon DEF Vault!Issue, Life, Basis
    <2> QED
        BY <2>9, t \in Tokens, Zenon DEF Vault!VaultNext
<1> QED
    BY <1>2, <1>3, <1>4

LEMMA PresentIsTell ==
    ASSUME Safe, NEW t \in Tokens, NEW c \in Classes \cup {Unset}, Present(t, c)
    PROVE  Vault!VaultNext
<1>0. PICK v : v = Presented(t, c)
    OBVIOUS
<1>1. /\ v \in {"valid", "expired", "unknown"}
      /\ v # "unknown" => entries[t] # Unset
    BY <1>0 DEF Presented
<1>2. /\ verdict' = [token |-> t, verdict |-> v] /\ UNCHANGED <<issued, warrant>>
      /\ entries' = IF v = "expired" THEN [entries EXCEPT ![t] = Unset] ELSE entries
    BY <1>0 DEF Present
<1>3. Basis' = Basis
    BY <1>2 DEF Basis
<1>4. v # "expired" => Life' = Life
    BY <1>2 DEF Life
<1>5. v = "expired" => Life' = [Life EXCEPT ![t] = "dead"]
    <2> SUFFICES ASSUME v = "expired", NEW u \in Tokens
                 PROVE  Life'[u] = IF u = t THEN "dead" ELSE Life[u]
        BY Zenon DEF Life
    <2>1. t \in issued
        BY <1>1 DEF Safe, TokensApart
    <2> QED
        BY <1>2, <2>1 DEF Life, Safe, SecretsTypeOK
<1>6. v # "unknown" => Life[t] = "live"
    BY <1>1 DEF Life
<1>7. Vault!Tell(t, v)
    BY <1>1, <1>2, <1>3, <1>4, <1>5, <1>6, Zenon DEF Vault!Tell, Life, Basis
<1> QED
    BY <1>1, <1>7, Zenon DEF Vault!VaultNext

LEMMA StepIsVaultStep ==
    Safe /\ [SecretsNext]_secretsVars => [Vault!VaultNext]_Vault!vaultVars
<1> SUFFICES ASSUME Safe, [SecretsNext]_secretsVars
             PROVE  [Vault!VaultNext]_Vault!vaultVars
    OBVIOUS
<1>1. CASE UNCHANGED secretsVars
    BY <1>1, DropIsWithdraw DEF secretsVars, ghostVars
<1>2. ASSUME NEW h \in Handlers, WithdrawUnrecorded(h)
      PROVE  Vault!VaultNext
    BY <1>2, DropIsWithdraw DEF WithdrawUnrecorded, ghostVars, Safe, SecretsTypeOK
<1>3. ASSUME NEW t \in Tokens, Revoke(t)
      PROVE  Vault!VaultNext
    BY <1>3, DropIsWithdraw DEF Revoke, ghostVars, Safe, SecretsTypeOK
<1>4. ASSUME BrokerRestart
      PROVE  Vault!VaultNext
    BY <1>4, DropIsWithdraw DEF BrokerRestart, ghostVars
<1>5. ASSUME UNCHANGED <<entries, issued, warrant, verdict>>
      PROVE  Vault!VaultNext
    BY <1>5, DropIsWithdraw
<1>6. ASSUME NEW h \in Handlers,
             \/ \E w \in Requesters, c \in Classes, ttl \in Ttls : CredentialRequest(h, w, c, ttl)
             \/ PunardUnreachable(h) \/ ListCandidates(h) \/ ConsumeNext(h)
             \/ CreateApprovalFor(h) \/ RecordIssue(h)
      PROVE  Vault!VaultNext
    BY <1>5, <1>6 DEF CredentialRequest, PunardUnreachable, ListCandidates, ConsumeNext,
                      CreateApprovalFor, RecordIssue, ghostVars
<1>7. ASSUME (\E i \in Ids : PunardMoves(i)) \/ ClockMoves
      PROVE  Vault!VaultNext
    BY <1>5, <1>7 DEF PunardMoves, ClockMoves, ghostVars
<1>8. CASE SecretsNext
    BY <1>2, <1>3, <1>4, <1>6, <1>7, <1>8, IssueIsIssue, PresentIsTell, Zenon DEF SecretsNext
<1> QED
    BY <1>1, <1>8

\* The broker implements the vault: a token is made once and on a permit of
\* its own, is called valid only while it is in the store, and does not come
\* back (gated_request, TokenStore::issue, present, revoke).
THEOREM BrokerIsVault == SecretsSpec => ImplementsVault
<1>1. SecretsInit => Vault!VaultInit
    BY DEF SecretsInit, Vault!VaultInit
<1> QED
    BY <1>1, AlwaysSafe, StepIsVaultStep, PTL DEF SecretsSpec, ImplementsVault, Vault!VaultSpec
=============================================================================
