------------------------------- MODULE SignIn -------------------------------
(***************************************************************************)
(* Confirming a password.  punar-greet talks to greetd on behalf of the    *)
(* greeter; punar-auth's service confirms a signed-in account's password,  *)
(* one process per connection, and for an administrative purpose leaves a  *)
(* ticket, a file, that punard's threads spend on one change of policy     *)
(* within TICKET_MAX_AGE of it by the wall clock.  The clock may be set.   *)
(***************************************************************************)
EXTENDS Naturals, FiniteSets

CONSTANTS
    Uids,         \* accounts of people
    Tickets,      \* names mint_ticket may draw
    Calls,        \* threads of punard serving policy.set
    TicketMaxAge, \* TICKET_MAX_AGE_SECS
    MaxClock,     \* the wall clock reads 0 .. MaxClock
    MaxMessages   \* MAX_AUTH_MESSAGES

VARIABLES
    wallClock,
    tickets,   \* files: ticket names to [uid, at]
    confirmed, \* history: tickets to the account whose password was right
    calls,     \* punard's threads
    authorised,\* history: (thread's) changes let through: {[ticket, uid, n]}
    login      \* the greeter's dialog with greetd

signInVars == <<wallClock, tickets, confirmed, calls, authorised, login>>

NoCall == [step |-> "idle"]

NoLogin == [step |-> "idle", messages |-> 0, sent |-> FALSE, secret |-> FALSE]

SignInInit ==
    /\ wallClock = 0
    /\ tickets = <<>> /\ confirmed = <<>>
    /\ calls = [c \in Calls |-> NoCall]
    /\ authorised = {}
    /\ login = NoLogin

\* Without(f, X): f with the keys of X removed.
Without(f, X) == [k \in DOMAIN f \ X |-> f[k]]

With(f, k, v) == [x \in DOMAIN f \cup {k} |-> IF x = k THEN v ELSE f[x]]

SetClock == /\ wallClock' \in (0 .. MaxClock) \ {wallClock}
            /\ UNCHANGED <<tickets, confirmed, calls, authorised, login>>

\* A date in the future counts as expired, here and in punard.
Expired(at, now) == at > now \/ now - at > TicketMaxAge

\* sweep_expired, in the account's own directory.
Swept(uid) == {t \in DOMAIN tickets : tickets[t].uid = uid /\ Expired(tickets[t].at, wallClock)}

(***************************************************************************)
(* session: decide, then mint_ticket for an administrative purpose.  A     *)
(* wrong password, an unavailable service and an unlock change nothing.    *)
(***************************************************************************)
Verify(uid) ==
    /\ \/ tickets' = Without(tickets, Swept(uid)) /\ UNCHANGED confirmed \* minting failed
       \/ \E t \in Tickets \ DOMAIN confirmed :
             /\ tickets' = With(Without(tickets, Swept(uid)), t, [uid |-> uid, at |-> wallClock])
             /\ confirmed' = With(confirmed, t, uid)
    /\ UNCHANGED <<wallClock, calls, authorised, login>>

(***************************************************************************)
(* policy.set of an account other than root, up to the confirmation: the   *)
(* ticket is looked up under the caller's account, removed, and only then  *)
(* judged by its age.  The time was read when the handler called.          *)
(***************************************************************************)
Consume(c, uid, t) ==
    /\ calls[c].step = "idle"
    /\ t \in DOMAIN confirmed
    /\ calls' = [calls EXCEPT ![c] =
                    IF t \in DOMAIN tickets /\ tickets[t].uid = uid
                    THEN [step |-> "found", uid |-> uid, ticket |-> t,
                          at |-> tickets[t].at, now |-> wallClock]
                    ELSE NoCall]
    /\ UNCHANGED <<wallClock, tickets, confirmed, authorised, login>>

\* A variant that takes the ticket's word for it and removes it as a courtesy.
RemoveLoosely(c) ==
    /\ calls[c].step = "found"
    /\ tickets' = Without(tickets, {calls[c].ticket})
    /\ calls' = [calls EXCEPT ![c] = NoCall]
    /\ authorised' =
          IF Expired(calls[c].at, calls[c].now) THEN authorised
          ELSE authorised \cup {[ticket |-> calls[c].ticket, uid |-> calls[c].uid, by |-> c]}
    /\ UNCHANGED <<wallClock, confirmed, login>>

SpendTicket(c) ==
    /\ calls[c].step = "found"
    /\ tickets' = Without(tickets, {calls[c].ticket})
    /\ calls' = [calls EXCEPT ![c] = NoCall]
    /\ authorised' =
          IF calls[c].ticket \notin DOMAIN tickets \/ Expired(calls[c].at, calls[c].now)
          THEN authorised
          ELSE authorised \cup {[ticket |-> calls[c].ticket, uid |-> calls[c].uid, by |-> c]}
    /\ UNCHANGED <<wallClock, confirmed, login>>

(***************************************************************************)
(* start_session of punar-greet, the greeter's side of a dialog with       *)
(* greetd, whose next message is any: the first session has no password to *)
(* offer, a later one offers it once; information is acknowledged.         *)
(***************************************************************************)
StartLogin(withSecret) ==
    /\ login.step = "idle"
    /\ login' = [NoLogin EXCEPT !.step = "asked", !.secret = withSecret]
    /\ UNCHANGED <<wallClock, tickets, confirmed, calls, authorised>>

GreetdSays(message) ==
    /\ login.step = "asked"
    /\ LET end(how) == login' = [NoLogin EXCEPT !.step = how]
           ask(sent) == login' = [login EXCEPT !.messages = @ + 1, !.sent = sent,
                                              !.secret = @ /\ ~sent] IN
       CASE message = "success" -> login' = [login EXCEPT !.step = "starting"]
         [] message = "error"   -> end("refused")
         [] login.messages = MaxMessages -> end("refused")
         [] message = "info"    -> ask(login.sent)
         [] message = "secret"  ->
               IF ~login.sent /\ login.secret THEN ask(TRUE) ELSE end("refused")
    /\ UNCHANGED <<wallClock, tickets, confirmed, calls, authorised>>

SessionStarts ==
    /\ login.step = "starting"
    /\ \E how \in {"in", "refused"} : login' = [NoLogin EXCEPT !.step = how]
    /\ UNCHANGED <<wallClock, tickets, confirmed, calls, authorised>>

LoginOver ==
    /\ login.step \in {"in", "refused"}
    /\ login' = NoLogin
    /\ UNCHANGED <<wallClock, tickets, confirmed, calls, authorised>>

SignInNext ==
    \/ SetClock
    \/ \E u \in Uids : Verify(u)
    \/ \E c \in Calls : SpendTicket(c) \/ (\E u \in Uids, t \in Tickets : Consume(c, u, t))
    \/ \E b \in BOOLEAN : StartLogin(b)
    \/ \E m \in {"success", "error", "info", "secret"} : GreetdSays(m)
    \/ SessionStarts \/ LoginOver

(***************************************************************************)
(* One confirmation, one change: however punard's threads and the sweep of *)
(* later confirmations interleave, and however the clock is set, a ticket  *)
(* lets one change through, of the account whose password was confirmed.   *)
(***************************************************************************)
OneConfirmationOneChange ==
    \A x, y \in authorised :
        /\ x.uid = confirmed[x.ticket]
        /\ x.ticket = y.ticket => x = y
=============================================================================
