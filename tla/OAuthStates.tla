------------------------------ MODULE OAuthStates ------------------------------
(***************************************************************************)
(* The channel OAuth flow (api/routes/channel-oauth.ts) and the table it   *)
(* keeps its flows in (api/drizzle-oauth-state-repository.ts).             *)
(*                                                                         *)
(* Initiate stores a "pending" row under a fresh state.  The provider      *)
(* redirects the popup to the callback, which consumes the pending row,    *)
(* exchanges the code for a token and stores the row again as              *)
(* "completed".  The frontend polls until it gets the token, which         *)
(* consumes the completed row.  Both kinds of consumption are a SELECT     *)
(* followed by a DELETE by state, with no transaction and no condition on  *)
(* what the SELECT has seen.                                               *)
(*                                                                         *)
(* Each callback and each poll is one request, with an identity of its     *)
(* own; the token an exchange obtains is named by its callback.  Time is   *)
(* the expiry flag of a row: reading the clock and the SELECT are one step, *)
(* for a row that expires between them might as well expire just after.    *)
(***************************************************************************)
EXTENDS Naturals, FiniteSets

CONSTANTS
  States,      \* OAuth state parameters (randomUUID)
  Users,
  Callbacks,   \* callback requests: the provider's redirect, reloads of it
  Polls,       \* poll requests
  NoUser, NoRow, NoToken

ASSUME NothingAssumption ==
  /\ NoUser \notin Users
  /\ NoToken \notin Callbacks

Row == [status : {"pending", "completed"}, user : Users,
        token : Callbacks \cup {NoToken}, expired : BOOLEAN]

ASSUME NoRowAssumption == NoRow \notin Row

VARIABLES
  rows,      \* the oauth_states table
  owner,     \* the user that initiated a state (history)
  lapsed,    \* tokens whose row has expired (history)
  callback,  \* the callback requests
  poll       \* the poll requests

vars == <<rows, owner, lapsed, callback, poll>>

CallbackPCs == {"start", "consume", "exchange", "complete", "error", "success"}
PollPCs == {"start", "consume", "pending", "completed"}

\* `row` is the row a request has read; `purge` is a purgeExpired it has
\* fired and not awaited.
CallbackRequest ==
  [pc : CallbackPCs, state : States, row : Row \cup {NoRow}, purge : BOOLEAN]
PollRequest ==
  [pc : PollPCs, state : States, user : Users, row : Row \cup {NoRow}]

-----------------------------------------------------------------------------
Init ==
  /\ rows = [s \in States |-> NoRow]
  /\ owner = [s \in States |-> NoUser]
  /\ lapsed = {}
  /\ callback \in [Callbacks -> [pc : {"start"}, state : States,
                                 row : {NoRow}, purge : {FALSE}]]
  /\ poll \in [Polls -> [pc : {"start"}, state : States, user : Users,
                         row : {NoRow}]]

Delete(s) == rows' = [rows EXCEPT ![s] = NoRow]

Pending(s) == rows[s] # NoRow /\ rows[s].status = "pending"
Completed(s) == rows[s] # NoRow /\ rows[s].status = "completed"

\* POST /initiate.
Initiate(s, u) ==
  /\ owner[s] = NoUser
  /\ owner' = [owner EXCEPT ![s] = u]
  /\ rows' = [rows EXCEPT ![s] =
       [status |-> "pending", user |-> u, token |-> NoToken,
        expired |-> FALSE]]
  /\ UNCHANGED <<lapsed, callback, poll>>

\* expiresAt passes: 10 minutes for a pending row, 5 for a completed one.
Expire(s) ==
  /\ rows[s] # NoRow
  /\ ~rows[s].expired
  /\ rows' = [rows EXCEPT ![s].expired = TRUE]
  /\ lapsed' = lapsed \cup ({rows[s].token} \ {NoToken})
  /\ UNCHANGED <<owner, callback, poll>>

\* GET /callback, consumePending: the SELECT.  A redirect that carries an
\* error, or no code or state, never gets this far.
CallbackRead(k) ==
  LET s == callback[k].state
  IN /\ callback[k].pc = "start"
     /\ callback' = [callback EXCEPT
          ![k].pc = IF Pending(s) THEN "consume" ELSE "error",
          ![k].row = IF Pending(s) THEN rows[s] ELSE NoRow]
     /\ UNCHANGED <<rows, owner, lapsed, poll>>

\* consumePending: the DELETE, whatever the row is by now.  An expired row is
\* deleted too, and refused.  One request in a hundred purges.
CallbackConsume(k) ==
  /\ callback[k].pc = "consume"
  /\ Delete(callback[k].state)
  /\ IF callback[k].row.expired
     THEN callback' = [callback EXCEPT ![k].pc = "error"]
     ELSE \E b \in BOOLEAN :
            callback' = [callback EXCEPT ![k].pc = "exchange", ![k].purge = b]
  /\ UNCHANGED <<owner, lapsed, poll>>

\* The provider's token endpoint answers; or the provider is no longer
\* configured, refuses, times out, or sends no token.
CallbackExchange(k) ==
  /\ callback[k].pc = "exchange"
  /\ \E next \in {"complete", "error"} :
       callback' = [callback EXCEPT ![k].pc = next]
  /\ UNCHANGED <<rows, owner, lapsed, poll>>

\* Mutant: the upsert leaves the status to its default.
StoredPending(k) ==
  LET old == rows[callback[k].state]
  IN IF old = NoRow
     THEN [status |-> "pending", user |-> callback[k].row.user,
           token |-> k, expired |-> FALSE]
     ELSE [old EXCEPT !.token = k, !.user = callback[k].row.user]

\* Mutant: the row is stored without the user of the flow.
StoredWithoutUser(k) ==
  LET old == rows[callback[k].state]
  IN [status |-> "completed", user |-> NoUser, token |-> k,
      expired |-> old # NoRow /\ old.expired]

\* The row completeWithToken leaves: a fresh one, or the one already there
\* with the token, the status and the user replaced and the expiry kept.
Stored(k) ==
  LET old == rows[callback[k].state]
  IN [status |-> "completed", user |-> callback[k].row.user, token |-> k,
      expired |-> old # NoRow /\ old.expired]

\* completeWithToken; the statement may fail.
CallbackComplete(k) ==
  /\ callback[k].pc = "complete"
  /\ \/ /\ rows' = [rows EXCEPT ![callback[k].state] = Stored(k)]
        /\ lapsed' = lapsed \cup (IF Stored(k).expired THEN {k} ELSE {})
        /\ callback' = [callback EXCEPT ![k].pc = "success"]
     \/ /\ callback' = [callback EXCEPT ![k].pc = "error"]
        /\ UNCHANGED <<rows, lapsed>>
  /\ UNCHANGED <<owner, poll>>

\* Mutant: the purge drops every completed row.
PurgeCompleted(k) ==
  /\ callback[k].purge
  /\ rows' = [s \in States |-> IF Completed(s) THEN NoRow ELSE rows[s]]
  /\ callback' = [callback EXCEPT ![k].purge = FALSE]
  /\ UNCHANGED <<owner, lapsed, poll>>

\* purgeExpired runs beside the callback that fired it, or after it.
Purge(k) ==
  /\ callback[k].purge
  /\ rows' = [s \in States |->
       IF rows[s] # NoRow /\ rows[s].expired THEN NoRow ELSE rows[s]]
  /\ callback' = [callback EXCEPT ![k].purge = FALSE]
  /\ UNCHANGED <<owner, lapsed, poll>>

\* Mutant: the owner is not compared.
OwnCompletedOfAnyone(q) == Completed(poll[q].state)

\* The poll's SELECT finds a completed row of its own user.
OwnCompleted(q) ==
  LET s == poll[q].state
  IN Completed(s) /\ rows[s].user = poll[q].user

\* GET /poll, consumeCompleted: the SELECT and the ownership check.
PollRead(q) ==
  /\ poll[q].pc = "start"
  /\ poll' = [poll EXCEPT
       ![q].pc = IF OwnCompleted(q) THEN "consume" ELSE "pending",
       ![q].row = IF OwnCompleted(q) THEN rows[poll[q].state] ELSE NoRow]
  /\ UNCHANGED <<rows, owner, lapsed, callback>>

\* Mutant: the row is kept for the next poll.
PollConsumeKeeping(q) ==
  /\ poll[q].pc = "consume"
  /\ poll' = [poll EXCEPT
       ![q].pc = IF poll[q].row.expired THEN "pending" ELSE "completed"]
  /\ UNCHANGED <<rows, owner, lapsed, callback>>

\* consumeCompleted: the DELETE; the answer carries the token unless the row
\* had expired.
PollConsume(q) ==
  /\ poll[q].pc = "consume"
  /\ Delete(poll[q].state)
  /\ poll' = [poll EXCEPT
       ![q].pc = IF poll[q].row.expired THEN "pending" ELSE "completed"]
  /\ UNCHANGED <<owner, lapsed, callback>>

Next ==
  \/ \E s \in States : Expire(s) \/ \E u \in Users : Initiate(s, u)
  \/ \E k \in Callbacks :
       \/ CallbackRead(k)
       \/ CallbackConsume(k)
       \/ CallbackExchange(k)
       \/ CallbackComplete(k)
       \/ Purge(k)
  \/ \E q \in Polls : PollRead(q) \/ PollConsume(q)

Spec == Init /\ [][Next]_vars

-----------------------------------------------------------------------------
(* Properties.                                                             *)

\* Every variable keeps its type; a request holds a row while it needs one.
TypeOK ==
  /\ rows \in [States -> Row \cup {NoRow}]
  /\ owner \in [States -> Users \cup {NoUser}]
  /\ lapsed \subseteq Callbacks
  /\ callback \in [Callbacks -> CallbackRequest]
  /\ poll \in [Polls -> PollRequest]

\* The token a poll has answered.
Answered(q) == IF poll[q].pc = "completed" THEN poll[q].row.token ELSE NoToken

\* A token only ever reaches the user that initiated the flow, and only the
\* flow its code was exchanged for.
TokenReachesItsOwner ==
  \A q \in Polls :
    Answered(q) # NoToken =>
      /\ poll[q].user = owner[poll[q].state]
      /\ callback[Answered(q)].state = poll[q].state

\* A token that a poll has answered is not in the table any more: a poll
\* that starts later cannot get it, whatever requests overlap.
AnsweredIsNotStored ==
  \A q \in Polls, s \in States :
    rows[s] # NoRow /\ rows[s].token # NoToken => rows[s].token # Answered(q)

\* A state is pending at most once: nothing a callback, a poll or a purge
\* does reopens it to another redirect.
ConsumedStaysConsumed ==
  [][\A s \in States : owner[s] # NoUser /\ Pending(s)' => Pending(s)]_vars

Alone(k) ==
  \A j \in Callbacks \ {k} :
    callback[j].state # callback[k].state \/ callback[j].pc = "start"

\* Unless the redirect is repeated or the row expires, the token of a
\* successful callback waits for its owner: it is in the table or in the
\* hands of one of the owner's polls.
TokenWaits ==
  \A k \in Callbacks :
    (callback[k].pc = "success" /\ Alone(k) /\ k \notin lapsed) =>
      LET s == callback[k].state
      IN \/ Completed(s) /\ rows[s].token = k
         \/ \E q \in Polls :
              /\ Answered(q) = k
              /\ poll[q].user = owner[s]

\* "The token is returned exactly once (consumed on read)"
\* (channel-oauth.ts): no two polls are answered with the same token.
TokenReturnedOnce ==
  \A p, q \in Polls :
    p # q /\ Answered(p) # NoToken => Answered(p) # Answered(q)
=============================================================================
