-------------------------- MODULE OAuthStatesProofs --------------------------
(* Theorems about OAuthStates, for every set of states, users, callbacks    *)
(* and polls.                                                               *)
EXTENDS OAuthStates, TLAPS

(***************************************************************************)
(* The inductive invariant: where a row, a callback or a poll has come by  *)
(* what it holds.  A token is named by the callback that obtained it, so    *)
(* "the flow of a token" is the state of that callback.                     *)
(***************************************************************************)

\* A token belongs to a callback that has succeeded, for the state s.
TokenOf(k, s) ==
  /\ k \in Callbacks
  /\ callback[k].pc = "success"
  /\ callback[k].state = s

\* A row is the one its owner's flow has stored: without a token while it is
\* pending, with one of this flow's when it is completed.
RowBelongs(r, s) ==
  /\ r.user = owner[s]
  /\ r.status = "completed" <=> r.token # NoToken
  /\ r.token # NoToken =>
       /\ TokenOf(r.token, s)
       /\ r.expired => r.token \in lapsed

RowsBelong == \A s \in States : rows[s] # NoRow => RowBelongs(rows[s], s)

\* What a callback has read is the pending row of its flow.
CallbackHolds(k) ==
  LET c == callback[k] IN
  /\ c.pc \in {"consume", "exchange", "complete"} =>
       c.row # NoRow /\ c.row.user = owner[c.state]
  /\ c.pc \notin {"start", "error"} => owner[c.state] # NoUser

\* What a poll has read is a completed row of its user's flow.
PollHolds(q) ==
  LET p == poll[q] IN
  p.pc \in {"consume", "completed"} =>
    /\ p.row # NoRow
    /\ p.user = owner[p.state]
    /\ p.row.token # NoToken
    /\ RowBelongs(p.row, p.state)

IInv ==
  /\ TypeOK
  /\ RowsBelong
  /\ \A k \in Callbacks : CallbackHolds(k)
  /\ \A q \in Polls : PollHolds(q)
  /\ AnsweredIsNotStored
  /\ TokenWaits

(***************************************************************************)
(* Types.                                                                  *)
(***************************************************************************)

LEMMA StoredType ==
  ASSUME TypeOK, NEW k \in Callbacks, callback[k].row # NoRow
  PROVE  Stored(k) \in Row
<1>1. callback[k].row \in Row
  BY DEF TypeOK, CallbackRequest
<1>2. callback[k].row.user \in Users
  BY <1>1 DEF Row
<1>3. (rows[callback[k].state] # NoRow /\ rows[callback[k].state].expired)
        \in BOOLEAN
  OBVIOUS
<1>4. QED BY <1>2, <1>3 DEF Stored, Row

LEMMA InitTypes == Init => TypeOK
<1> SUFFICES ASSUME Init PROVE TypeOK
  OBVIOUS
<1>1. callback \in [Callbacks -> CallbackRequest]
  BY DEF Init, CallbackRequest, CallbackPCs
<1>2. poll \in [Polls -> PollRequest]
  BY DEF Init, PollRequest, PollPCs
<1>3. QED BY <1>1, <1>2 DEF Init, TypeOK

LEMMA StepTypes ==
  ASSUME TypeOK, \A k \in Callbacks : CallbackHolds(k), [Next]_vars
  PROVE  TypeOK'
<1> USE DEF TypeOK
<1>1. ASSUME NEW s \in States, Expire(s) PROVE TypeOK'
  <2>1. rows[s] \in Row
    BY <1>1 DEF Expire
  <2>2. [rows[s] EXCEPT !.expired = TRUE] \in Row
    BY <2>1 DEF Row
  <2>3. rows[s].token \in Callbacks \cup {NoToken}
    BY <2>1 DEF Row
  <2>4. QED BY <1>1, <2>2, <2>3 DEF Expire
<1>2. ASSUME NEW s \in States, NEW u \in Users, Initiate(s, u) PROVE TypeOK'
  <2>1. [status |-> "pending", user |-> u, token |-> NoToken,
         expired |-> FALSE] \in Row
    BY DEF Row
  <2>2. QED BY <1>2, <2>1 DEF Initiate
<1>3. ASSUME NEW k \in Callbacks, CallbackRead(k) PROVE TypeOK'
  <2> DEFINE s == callback[k].state
             c == [callback[k] EXCEPT
                     !.pc = IF Pending(s) THEN "consume" ELSE "error",
                     !.row = IF Pending(s) THEN rows[s] ELSE NoRow]
  <2>1. c \in CallbackRequest
    BY DEF CallbackRequest, CallbackPCs, Pending
  <2>2. callback' = [callback EXCEPT ![k] = c]
    BY <1>3 DEF CallbackRead
  <2> HIDE DEF c
  <2>3. QED BY <1>3, <2>1, <2>2 DEF CallbackRead
<1>4. ASSUME NEW k \in Callbacks, CallbackConsume(k) PROVE TypeOK'
  BY <1>4 DEF CallbackConsume, Delete, CallbackRequest, CallbackPCs
<1>5. ASSUME NEW k \in Callbacks, CallbackExchange(k) PROVE TypeOK'
  BY <1>5 DEF CallbackExchange, CallbackRequest, CallbackPCs
<1>6. ASSUME NEW k \in Callbacks, CallbackComplete(k) PROVE TypeOK'
  <2>1. callback[k].row # NoRow
    BY <1>6 DEF CallbackComplete, CallbackHolds
  <2>2. QED BY <1>6, <2>1, StoredType
       DEF CallbackComplete, CallbackRequest, CallbackPCs
<1>7. ASSUME NEW k \in Callbacks, Purge(k) PROVE TypeOK'
  BY <1>7 DEF Purge, CallbackRequest, CallbackPCs
<1>8. ASSUME NEW q \in Polls, PollRead(q) PROVE TypeOK'
  <2> DEFINE p == [poll[q] EXCEPT
                     !.pc = IF OwnCompleted(q) THEN "consume" ELSE "pending",
                     !.row = IF OwnCompleted(q) THEN rows[poll[q].state]
                             ELSE NoRow]
  <2>1. p \in PollRequest
    BY DEF PollRequest, PollPCs, OwnCompleted, Completed
  <2>2. poll' = [poll EXCEPT ![q] = p]
    BY <1>8 DEF PollRead
  <2> HIDE DEF p
  <2>3. QED BY <1>8, <2>1, <2>2 DEF PollRead
<1>9. ASSUME NEW q \in Polls, PollConsume(q) PROVE TypeOK'
  BY <1>9 DEF PollConsume, Delete, PollRequest, PollPCs
<1>10. CASE UNCHANGED vars
  BY <1>10 DEF vars
<1>11. QED
  BY <1>1, <1>2, <1>3, <1>4, <1>5, <1>6, <1>7, <1>8, <1>9, <1>10 DEF Next

(***************************************************************************)
(* What no step undoes.                                                    *)
(***************************************************************************)

\* A flow keeps its owner, a request its state, a token its success; the
\* tokens that have expired stay expired, and a callback that has started
\* does not start again.
LEMMA StepIsMonotone ==
  ASSUME TypeOK, [Next]_vars
  PROVE  /\ \A s \in States : owner[s] # NoUser => owner'[s] = owner[s]
         /\ lapsed \subseteq lapsed'
         /\ \A k \in Callbacks :
              /\ callback'[k].state = callback[k].state
              /\ callback[k].pc = "success" => callback'[k].pc = "success"
              /\ callback'[k].pc = "start" => callback[k].pc = "start"
         /\ \A q \in Polls :
              /\ poll'[q].state = poll[q].state
              /\ poll'[q].user = poll[q].user
<1> USE DEF TypeOK, CallbackRequest, PollRequest
<1>1. ASSUME NEW s \in States, Expire(s) \/ \E u \in Users : Initiate(s, u)
      PROVE  /\ \A t \in States : owner[t] # NoUser => owner'[t] = owner[t]
             /\ lapsed \subseteq lapsed'
             /\ UNCHANGED <<callback, poll>>
  BY <1>1 DEF Expire, Initiate
<1>2. ASSUME NEW k \in Callbacks,
             \/ CallbackRead(k)
             \/ CallbackConsume(k)
             \/ CallbackExchange(k)
             \/ CallbackComplete(k)
             \/ Purge(k)
      PROVE  /\ UNCHANGED <<owner, poll>>
             /\ lapsed \subseteq lapsed'
             /\ \A j \in Callbacks :
                  /\ callback'[j].state = callback[j].state
                  /\ callback[j].pc = "success" => callback'[j].pc = "success"
                  /\ callback'[j].pc = "start" => callback[j].pc = "start"
  <2>1. CASE CallbackRead(k)
    BY <2>1 DEF CallbackRead
  <2>2. CASE CallbackConsume(k)
    BY <2>2 DEF CallbackConsume
  <2>3. CASE CallbackExchange(k)
    BY <2>3 DEF CallbackExchange
  <2>4. CASE CallbackComplete(k)
    BY <2>4 DEF CallbackComplete
  <2>5. CASE Purge(k)
    BY <2>5 DEF Purge
  <2>6. QED BY <1>2, <2>1, <2>2, <2>3, <2>4, <2>5
<1>3. ASSUME NEW q \in Polls, PollRead(q) \/ PollConsume(q)
      PROVE  /\ UNCHANGED <<owner, lapsed, callback>>
             /\ \A p \in Polls : /\ poll'[p].state = poll[p].state
                                /\ poll'[p].user = poll[p].user
  BY <1>3 DEF PollRead, PollConsume
<1>4. CASE UNCHANGED vars
  BY <1>4 DEF vars
<1>5. QED BY <1>1, <1>2, <1>3, <1>4 DEF Next

\* ... so a row that belongs to its flow goes on doing so, in the table or in
\* the hands of a request, and a request knows what it knew.
LEMMA RowStillBelongs ==
  ASSUME TypeOK, [Next]_vars, NEW s \in States, NEW r \in Row, RowBelongs(r, s)
  PROVE  RowBelongs(r, s)'
<1>1. owner'[s] = owner[s]
  BY StepIsMonotone, NothingAssumption DEF RowBelongs, Row
<1>2. r.token # NoToken => TokenOf(r.token, s)'
  BY StepIsMonotone DEF RowBelongs, TokenOf
<1>3. r.token # NoToken /\ r.expired => r.token \in lapsed'
  BY StepIsMonotone DEF RowBelongs
<1>4. QED BY <1>1, <1>2, <1>3 DEF RowBelongs

LEMMA CallbackStillHolds ==
  ASSUME TypeOK, [Next]_vars,
         NEW k \in Callbacks, CallbackHolds(k), callback'[k] = callback[k]
  PROVE  CallbackHolds(k)'
<1>1. callback[k].state \in States
  BY DEF TypeOK, CallbackRequest
<1>2. QED BY <1>1, StepIsMonotone DEF CallbackHolds

LEMMA PollStillHolds ==
  ASSUME TypeOK, [Next]_vars,
         NEW q \in Polls, PollHolds(q), poll'[q] = poll[q]
  PROVE  PollHolds(q)'
<1>1. /\ poll[q].state \in States
      /\ poll[q].row # NoRow => poll[q].row \in Row
      /\ poll[q].user \in Users
  BY DEF TypeOK, PollRequest
<1>2. SUFFICES ASSUME poll[q].pc \in {"consume", "completed"}
               PROVE  /\ poll[q].row # NoRow
                      /\ poll[q].user = owner'[poll[q].state]
                      /\ poll[q].row.token # NoToken
                      /\ RowBelongs(poll[q].row, poll[q].state)'
  BY DEF PollHolds
<1>3. QED
  BY <1>1, <1>2, StepIsMonotone, RowStillBelongs, NothingAssumption
     DEF PollHolds

LEMMA AloneBefore ==
  ASSUME TypeOK, [Next]_vars, NEW k \in Callbacks, Alone(k)'
  PROVE  Alone(k)
BY StepIsMonotone DEF Alone

\* All tokens of the flow of a callback that is alone are its own.
LEMMA AloneHasTheOnlyToken ==
  ASSUME NEW k \in Callbacks, Alone(k),
         NEW r \in Row, RowBelongs(r, callback[k].state), r.token # NoToken
  PROVE  r.token = k
BY DEF Alone, RowBelongs, TokenOf

\* A token that waits in the table, or has been answered, does so after a step
\* that leaves its row or its poll alone.
Waits(k) ==
  LET s == callback[k].state
  IN \/ Completed(s) /\ rows[s].token = k
     \/ \E q \in Polls : Answered(q) = k /\ poll[q].user = owner[s]

LEMMA AnswerStays ==
  ASSUME IInv, [Next]_vars, NEW k \in Callbacks, callback[k].pc = "success",
         NEW q \in Polls, Answered(q) = k, poll[q].user = owner[callback[k].state]
  PROVE  Waits(k)'
<1>1. poll[q].pc = "completed"
  BY NothingAssumption DEF Answered
<1>2. poll'[q] = poll[q]
  <2>1. ASSUME NEW p \in Polls, PollRead(p) PROVE poll'[q] = poll[q]
    BY <1>1, <2>1 DEF PollRead, IInv, TypeOK
  <2>2. ASSUME NEW p \in Polls, PollConsume(p) PROVE poll'[q] = poll[q]
    BY <1>1, <2>2 DEF PollConsume, IInv, TypeOK
  <2>3. QED
    BY <2>1, <2>2 DEF Next, vars, Expire, Initiate, CallbackRead,
       CallbackConsume, CallbackExchange, CallbackComplete, Purge
<1>3. callback[k].state \in States /\ owner[callback[k].state] # NoUser
  BY DEF IInv, CallbackHolds, TypeOK, CallbackRequest
<1>4. Answered(q)' = k /\ poll'[q].user = owner'[callback'[k].state]
  BY <1>1, <1>2, <1>3, StepIsMonotone DEF Answered, IInv
<1>5. QED BY <1>4 DEF Waits

LEMMA WaitsUnlessRowChanges ==
  ASSUME IInv, [Next]_vars, NEW k \in Callbacks, callback[k].pc = "success",
         Waits(k), rows'[callback[k].state] = rows[callback[k].state]
  PROVE  Waits(k)'
<1>1. CASE \E q \in Polls :
             Answered(q) = k /\ poll[q].user = owner[callback[k].state]
  BY <1>1, AnswerStays
<1>2. CASE Completed(callback[k].state) /\ rows[callback[k].state].token = k
  BY <1>2, StepIsMonotone DEF Waits, Completed, IInv
<1>3. QED BY <1>1, <1>2 DEF Waits

\* What remains to be shown of a step, the rows and requests it leaves alone
\* being as good as they were.
LEMMA StepPreserves ==
  ASSUME IInv, [Next]_vars,
         \A s \in States :
           rows'[s] = rows[s] \/ (rows'[s] # NoRow => RowBelongs(rows[s], s)'),
         \A k \in Callbacks : callback'[k] = callback[k] \/ CallbackHolds(k)',
         \A q \in Polls : poll'[q] = poll[q] \/ PollHolds(q)',
         AnsweredIsNotStored',
         \A k \in Callbacks :
           callback'[k].pc = "success" /\ Alone(k) /\ k \notin lapsed'
             => \/ Waits(k)'
                \/ /\ callback[k].pc = "success"
                   /\ rows'[callback[k].state] = rows[callback[k].state]
  PROVE  IInv'
<1>1. TypeOK'
  BY StepTypes DEF IInv
<1>2. RowsBelong'
  BY RowStillBelongs DEF IInv, RowsBelong, TypeOK
<1>3. (\A k \in Callbacks : CallbackHolds(k))'
  BY CallbackStillHolds DEF IInv
<1>4. (\A q \in Polls : PollHolds(q))'
  BY PollStillHolds DEF IInv
<1>5. TokenWaits'
  <2> SUFFICES ASSUME NEW k \in Callbacks, callback'[k].pc = "success",
                      Alone(k)', k \notin lapsed'
               PROVE  Waits(k)'
    BY DEF TokenWaits, Waits
  <2>1. Alone(k) /\ k \notin lapsed
    BY AloneBefore, StepIsMonotone DEF IInv
  <2>2. callback[k].pc = "success" => Waits(k)
    BY <2>1 DEF IInv, TokenWaits, Waits
  <2>3. QED BY <2>1, <2>2, WaitsUnlessRowChanges
<1>6. QED BY <1>1, <1>2, <1>3, <1>4, <1>5 DEF IInv

(***************************************************************************)
(* The steps.                                                              *)
(***************************************************************************)

\* A step that changes neither the table nor a poll.
LEMMA QuietStepPreserves ==
  ASSUME IInv, [Next]_vars, UNCHANGED <<rows, poll>>,
         \A k \in Callbacks :
           /\ callback'[k] = callback[k] \/ CallbackHolds(k)'
           /\ callback'[k].pc = "success" => callback[k].pc = "success"
  PROVE  IInv'
<1>1. AnsweredIsNotStored'
  BY DEF IInv, AnsweredIsNotStored, Answered
<1>2. QED BY <1>1, StepPreserves

LEMMA ExpirePreserves ==
  ASSUME IInv, NEW s \in States, Expire(s)
  PROVE  IInv'
<1> USE DEF IInv
<1>0. [Next]_vars
  BY DEF Next
<1>1. /\ rows[s] \in Row
      /\ RowBelongs(rows[s], s)
      /\ rows'[s] = [rows[s] EXCEPT !.expired = TRUE]
      /\ \A t \in States \ {s} : rows'[t] = rows[t]
      /\ lapsed' = lapsed \cup ({rows[s].token} \ {NoToken})
      /\ UNCHANGED <<owner, callback, poll>>
  BY DEF Expire, TypeOK, RowsBelong
<1>2. /\ rows'[s].user = rows[s].user /\ rows'[s].status = rows[s].status
      /\ rows'[s].token = rows[s].token
  BY <1>1 DEF Row
<1>3. RowBelongs(rows[s], s)'
  BY <1>1, <1>2 DEF RowBelongs, TokenOf
<1>4. AnsweredIsNotStored'
  <2> SUFFICES ASSUME NEW q \in Polls, NEW t \in States,
                      rows'[t] # NoRow, rows'[t].token # NoToken
               PROVE  rows'[t].token # Answered(q)
    BY <1>1 DEF AnsweredIsNotStored, Answered
  <2>1. rows[t] # NoRow /\ rows[t].token = rows'[t].token
    BY <1>1, <1>2, NoRowAssumption
  <2>2. QED BY <2>1 DEF AnsweredIsNotStored
<1>5. ASSUME NEW k \in Callbacks, callback'[k].pc = "success",
             Alone(k), k \notin lapsed'
      PROVE  \/ Waits(k)'
             \/ /\ callback[k].pc = "success"
                /\ rows'[callback[k].state] = rows[callback[k].state]
  <2>1. callback[k].pc = "success" /\ callback[k].state \in States
    BY <1>1, <1>5 DEF TypeOK, CallbackRequest
  <2>2. CASE callback[k].state # s
    BY <1>1, <2>1, <2>2
  <2>3. CASE callback[k].state = s
    <3>1. k \notin lapsed /\ rows[s].token # k
      BY <1>1, <1>5, NothingAssumption
    <3>2. PICK q \in Polls : Answered(q) = k /\ poll[q].user = owner[s]
      BY <1>5, <2>1, <2>3, <3>1 DEF TokenWaits
    <3>3. QED BY <1>0, <2>1, <2>3, <3>2, AnswerStays
  <2>4. QED BY <2>2, <2>3
<1>6. QED BY <1>0, <1>1, <1>3, <1>4, <1>5, StepPreserves

\* A fresh state has no row, and no token of its own anywhere.
LEMMA InitiatePreserves ==
  ASSUME IInv, NEW s \in States, NEW u \in Users, Initiate(s, u)
  PROVE  IInv'
<1> USE DEF IInv
<1>0. [Next]_vars
  BY DEF Next
<1>1. /\ owner[s] = NoUser
      /\ owner'[s] = u
      /\ rows'[s] = [status |-> "pending", user |-> u, token |-> NoToken,
                     expired |-> FALSE]
      /\ \A t \in States \ {s} : rows'[t] = rows[t]
      /\ UNCHANGED <<lapsed, callback, poll>>
  BY DEF Initiate, TypeOK
<1>2. RowBelongs(rows[s], s)'
  BY <1>1 DEF RowBelongs
<1>3. AnsweredIsNotStored'
  BY <1>1 DEF AnsweredIsNotStored, Answered
<1>4. \A k \in Callbacks : callback[k].pc = "success" => callback[k].state # s
  BY <1>1 DEF CallbackHolds
<1>5. \A k \in Callbacks : callback[k].state \in States
  BY DEF TypeOK, CallbackRequest
<1>6. QED BY <1>0, <1>1, <1>2, <1>3, <1>4, <1>5, StepPreserves

LEMMA CallbackReadPreserves ==
  ASSUME IInv, NEW k \in Callbacks, CallbackRead(k)
  PROVE  IInv'
<1> USE DEF IInv
<1> DEFINE s == callback[k].state
<1>0. [Next]_vars
  BY DEF Next
<1>1. /\ callback'[k].pc = IF Pending(s) THEN "consume" ELSE "error"
      /\ callback'[k].row = IF Pending(s) THEN rows[s] ELSE NoRow
      /\ callback'[k].state = s
      /\ \A j \in Callbacks \ {k} : callback'[j] = callback[j]
      /\ UNCHANGED <<rows, owner, lapsed, poll>>
  BY DEF CallbackRead, TypeOK, CallbackRequest
<1>2. s \in States
  BY DEF TypeOK, CallbackRequest
<1>3. Pending(s) => /\ rows[s] # NoRow
                    /\ rows[s].user = owner[s]
                    /\ owner[s] # NoUser
  BY <1>2, NothingAssumption DEF Pending, RowsBelong, RowBelongs, TypeOK, Row
<1>4. CallbackHolds(k)'
  BY <1>1, <1>3 DEF CallbackHolds
<1>5. QED BY <1>0, <1>1, <1>4, QuietStepPreserves

LEMMA CallbackExchangePreserves ==
  ASSUME IInv, NEW k \in Callbacks, CallbackExchange(k)
  PROVE  IInv'
<1> USE DEF IInv
<1>0. [Next]_vars
  BY DEF Next
<1>1. /\ callback[k].pc = "exchange"
      /\ callback'[k].pc \in {"complete", "error"}
      /\ callback'[k].row = callback[k].row
      /\ callback'[k].state = callback[k].state
      /\ \A j \in Callbacks \ {k} : callback'[j] = callback[j]
      /\ UNCHANGED <<rows, owner, lapsed, poll>>
  BY DEF CallbackExchange, TypeOK, CallbackRequest
<1>2. CallbackHolds(k)'
  BY <1>1 DEF CallbackHolds
<1>3. QED BY <1>0, <1>1, <1>2, QuietStepPreserves

\* The DELETE of a callback: only callbacks that are not alone lose a row.
LEMMA CallbackConsumePreserves ==
  ASSUME IInv, NEW k \in Callbacks, CallbackConsume(k)
  PROVE  IInv'
<1> USE DEF IInv
<1> DEFINE s == callback[k].state
<1>0. [Next]_vars
  BY DEF Next
<1>1. /\ callback[k].pc = "consume"
      /\ callback'[k].pc \in {"exchange", "error"}
      /\ callback'[k].row = callback[k].row
      /\ callback'[k].state = s
      /\ \A j \in Callbacks \ {k} : callback'[j] = callback[j]
      /\ UNCHANGED <<owner, lapsed, poll>>
  BY DEF CallbackConsume, TypeOK, CallbackRequest
<1>2. /\ s \in States
      /\ rows'[s] = NoRow
      /\ \A t \in States \ {s} : rows'[t] = rows[t]
  BY DEF CallbackConsume, Delete, TypeOK, CallbackRequest
<1>3. CallbackHolds(k)'
  BY <1>1 DEF CallbackHolds
<1>4. AnsweredIsNotStored'
  BY <1>1, <1>2 DEF AnsweredIsNotStored, Answered
<1>5. ASSUME NEW j \in Callbacks, callback'[j].pc = "success", Alone(j)
      PROVE  /\ callback[j].pc = "success"
             /\ rows'[callback[j].state] = rows[callback[j].state]
  BY <1>1, <1>2, <1>5 DEF Alone, TypeOK, CallbackRequest
<1>6. QED BY <1>0, <1>1, <1>2, <1>3, <1>4, <1>5, StepPreserves

\* The statement of completeWithToken succeeds: the token is in the table.
LEMMA CallbackCompletePreserves ==
  ASSUME IInv, NEW k \in Callbacks, CallbackComplete(k)
  PROVE  IInv'
<1> USE DEF IInv
<1> DEFINE s == callback[k].state
           old == rows[s]
           new == Stored(k)
<1>0. [Next]_vars
  BY DEF Next
<1>1. /\ callback[k].pc = "complete"
      /\ s \in States
      /\ callback[k].row # NoRow
      /\ callback[k].row.user = owner[s]
      /\ owner[s] # NoUser
      /\ UNCHANGED <<owner, poll>>
  BY DEF CallbackComplete, TypeOK, CallbackRequest, CallbackHolds
<1>2. CASE callback' = [callback EXCEPT ![k].pc = "error"]
           /\ UNCHANGED <<rows, lapsed>>
  <2>1. /\ callback'[k].pc = "error"
        /\ \A j \in Callbacks \ {k} : callback'[j] = callback[j]
    BY <1>2 DEF TypeOK, CallbackRequest
  <2>2. CallbackHolds(k)'
    BY <2>1 DEF CallbackHolds
  <2>3. QED BY <1>0, <1>1, <1>2, <2>1, <2>2, QuietStepPreserves
<1>3. CASE /\ rows' = [rows EXCEPT ![s] = new]
           /\ lapsed' = lapsed \cup (IF new.expired THEN {k} ELSE {})
           /\ callback' = [callback EXCEPT ![k].pc = "success"]
  <2>1. /\ callback'[k].pc = "success"
        /\ callback'[k].state = s
        /\ callback'[k].row = callback[k].row
        /\ \A j \in Callbacks \ {k} : callback'[j] = callback[j]
    BY <1>3 DEF TypeOK, CallbackRequest
  <2>2. rows'[s] = new /\ \A t \in States \ {s} : rows'[t] = rows[t]
    BY <1>1, <1>3 DEF TypeOK
  <2>3. /\ new.user = owner[s] /\ new.token = k /\ new.status = "completed"
        /\ new \in Row
    BY <1>1, StoredType DEF Stored
  <2>4. new # NoRow /\ k # NoToken
    BY <2>3, NoRowAssumption, NothingAssumption
  <2> HIDE DEF new
  <2>5. RowBelongs(rows[s], s)'
    BY <1>1, <1>3, <2>1, <2>2, <2>3, <2>4 DEF RowBelongs, TokenOf
  <2>6. CallbackHolds(k)'
    BY <1>1, <2>1 DEF CallbackHolds
  <2>7. \A q \in Polls : Answered(q) # k
    BY <1>1, NothingAssumption DEF Answered, PollHolds, RowBelongs, TokenOf
  <2>8. AnsweredIsNotStored'
    <3> SUFFICES ASSUME NEW q \in Polls, NEW t \in States,
                        rows'[t] # NoRow, rows'[t].token # NoToken
                 PROVE  rows'[t].token # Answered(q)
      BY <1>1 DEF AnsweredIsNotStored, Answered
    <3>1. CASE t = s
      BY <2>2, <2>3, <2>7, <3>1
    <3>2. CASE t # s
      BY <2>2, <3>2 DEF AnsweredIsNotStored
    <3>3. QED BY <3>1, <3>2
  <2>9. Waits(k)'
    BY <1>1, <2>1, <2>2, <2>3, <2>4 DEF Waits, Completed
  <2>10. ASSUME NEW j \in Callbacks \ {k}, callback'[j].pc = "success", Alone(j)
         PROVE  /\ callback[j].pc = "success"
                /\ rows'[callback[j].state] = rows[callback[j].state]
    BY <1>1, <2>1, <2>2, <2>10 DEF Alone, TypeOK, CallbackRequest
  <2>11. QED
    BY <1>0, <1>1, <2>1, <2>2, <2>5, <2>6, <2>8, <2>9, <2>10, StepPreserves
<1>4. QED BY <1>2, <1>3 DEF CallbackComplete

\* The purge takes rows whose tokens have expired, and no others.
LEMMA PurgePreserves ==
  ASSUME IInv, NEW k \in Callbacks, Purge(k)
  PROVE  IInv'
<1> USE DEF IInv
<1>0. [Next]_vars
  BY DEF Next
<1>1. /\ callback'[k].pc = callback[k].pc
      /\ callback'[k].row = callback[k].row
      /\ callback'[k].state = callback[k].state
      /\ \A j \in Callbacks \ {k} : callback'[j] = callback[j]
      /\ UNCHANGED <<owner, lapsed, poll>>
  BY DEF Purge, TypeOK, CallbackRequest
<1>2. \A s \in States :
        /\ rows[s] # NoRow /\ rows[s].expired => rows'[s] = NoRow
        /\ ~(rows[s] # NoRow /\ rows[s].expired) => rows'[s] = rows[s]
  BY DEF Purge
<1>3. CallbackHolds(k)'
  BY <1>1 DEF CallbackHolds
<1>4. AnsweredIsNotStored'
  <2> SUFFICES ASSUME NEW q \in Polls, NEW t \in States,
                      rows'[t] # NoRow, rows'[t].token # NoToken
               PROVE  rows'[t].token # Answered(q)
    BY <1>1 DEF AnsweredIsNotStored, Answered
  <2>1. QED BY <1>2 DEF AnsweredIsNotStored
<1>5. ASSUME NEW j \in Callbacks, callback'[j].pc = "success",
             Alone(j), j \notin lapsed'
      PROVE  \/ Waits(j)'
             \/ /\ callback[j].pc = "success"
                /\ rows'[callback[j].state] = rows[callback[j].state]
  <2> DEFINE s == callback[j].state
  <2>1. callback[j].pc = "success" /\ s \in States /\ j \notin lapsed
    BY <1>1, <1>5 DEF TypeOK, CallbackRequest
  <2>2. CASE rows[s] # NoRow /\ rows[s].expired
    <3>1. rows[s].token # j
      BY <2>1, <2>2, NothingAssumption DEF RowsBelong, RowBelongs
    <3>2. PICK q \in Polls : Answered(q) = j /\ poll[q].user = owner[s]
      BY <1>5, <2>1, <3>1 DEF TokenWaits
    <3>3. QED BY <1>0, <2>1, <3>2, AnswerStays
  <2>3. CASE ~(rows[s] # NoRow /\ rows[s].expired)
    BY <1>2, <2>1, <2>3
  <2>4. QED BY <2>2, <2>3
<1>6. QED BY <1>0, <1>1, <1>2, <1>3, <1>4, <1>5, StepPreserves

LEMMA PollReadPreserves ==
  ASSUME IInv, NEW q \in Polls, PollRead(q)
  PROVE  IInv'
<1> USE DEF IInv
<1> DEFINE s == poll[q].state
<1>0. [Next]_vars
  BY DEF Next
<1>1. /\ poll[q].pc = "start"
      /\ poll'[q].pc = IF OwnCompleted(q) THEN "consume" ELSE "pending"
      /\ OwnCompleted(q) => poll'[q].row = rows[s]
      /\ poll'[q].state = s
      /\ poll'[q].user = poll[q].user
      /\ \A p \in Polls \ {q} : poll'[p] = poll[p]
      /\ UNCHANGED <<rows, owner, lapsed, callback>>
  BY DEF PollRead, TypeOK, PollRequest
<1>2. s \in States
  BY DEF TypeOK, PollRequest
<1>3. OwnCompleted(q) =>
        /\ rows[s] # NoRow
        /\ RowBelongs(rows[s], s)'
        /\ rows[s].token # NoToken
        /\ poll[q].user = owner[s]
  BY <1>1, <1>2
     DEF OwnCompleted, Completed, RowsBelong, RowBelongs, TokenOf
<1>4. PollHolds(q)'
  <2>1. CASE OwnCompleted(q)
    BY <1>1, <1>3, <2>1 DEF PollHolds, RowBelongs, TokenOf
  <2>2. CASE ~OwnCompleted(q)
    BY <1>1, <2>2 DEF PollHolds
  <2>3. QED BY <2>1, <2>2
<1>5. \A p \in Polls : Answered(p)' = Answered(p)
  BY <1>1 DEF Answered
<1>6. AnsweredIsNotStored'
  BY <1>1, <1>5 DEF AnsweredIsNotStored
<1>7. QED BY <1>0, <1>1, <1>4, <1>6, StepPreserves

\* The DELETE of a poll: the token it takes out of the table is the one it has
\* read, or another of the same flow.
LEMMA PollConsumePreserves ==
  ASSUME IInv, NEW q \in Polls, PollConsume(q)
  PROVE  IInv'
<1> USE DEF IInv
<1> DEFINE s == poll[q].state
           r == poll[q].row
<1>0. [Next]_vars
  BY DEF Next
<1>1. /\ poll'[q].pc = IF r.expired THEN "pending" ELSE "completed"
      /\ poll'[q].row = r
      /\ poll'[q].state = s
      /\ poll'[q].user = poll[q].user
      /\ \A p \in Polls \ {q} : poll'[p] = poll[p]
      /\ UNCHANGED <<owner, lapsed, callback>>
  BY DEF PollConsume, TypeOK, PollRequest
<1>2. /\ s \in States
      /\ rows'[s] = NoRow
      /\ \A t \in States \ {s} : rows'[t] = rows[t]
  BY DEF PollConsume, Delete, TypeOK, PollRequest
<1>3. /\ r # NoRow
      /\ r \in Row
      /\ poll[q].user = owner[s]
      /\ r.token # NoToken
      /\ RowBelongs(r, s)
  BY DEF PollConsume, PollHolds, TypeOK, PollRequest
<1>4. PollHolds(q)'
  BY <1>1, <1>3 DEF PollHolds, RowBelongs, TokenOf
<1>5. Answered(q)' \in {r.token, NoToken}
  BY <1>1 DEF Answered
<1>6. AnsweredIsNotStored'
  <2> SUFFICES ASSUME NEW p \in Polls, NEW t \in States,
                      rows'[t] # NoRow, rows'[t].token # NoToken
               PROVE  rows'[t].token # Answered(p)'
    BY DEF AnsweredIsNotStored
  <2>1. t # s /\ rows'[t] = rows[t]
    BY <1>2
  <2>2. CASE p = q
    <3>1. TokenOf(rows[t].token, t)
      BY <2>1 DEF RowsBelong, RowBelongs
    <3>2. TokenOf(r.token, s)
      BY <1>3 DEF RowBelongs
    <3>3. rows[t].token # r.token
      BY <2>1, <3>1, <3>2 DEF TokenOf
    <3>4. QED BY <1>5, <2>1, <2>2, <3>3
  <2>3. CASE p # q
    BY <1>1, <2>1, <2>3 DEF AnsweredIsNotStored, Answered
  <2>4. QED BY <2>2, <2>3
<1>7. ASSUME NEW k \in Callbacks, callback'[k].pc = "success",
             Alone(k), k \notin lapsed'
      PROVE  \/ Waits(k)'
             \/ /\ callback[k].pc = "success"
                /\ rows'[callback[k].state] = rows[callback[k].state]
  <2>1. CASE callback[k].state = s
    <3>1. r.token = k
      BY <1>3, <1>7, <2>1, AloneHasTheOnlyToken
    <3>2. ~r.expired
      BY <1>1, <1>3, <1>7, <3>1 DEF RowBelongs
    <3>3. Answered(q)' = k /\ poll'[q].user = owner[s]
      BY <1>1, <1>3, <3>1, <3>2 DEF Answered
    <3>4. QED BY <1>1, <2>1, <3>3 DEF Waits
  <2>2. CASE callback[k].state # s
    BY <1>1, <1>2, <1>7, <2>2 DEF TypeOK, CallbackRequest
  <2>3. QED BY <2>1, <2>2
<1>8. QED BY <1>0, <1>1, <1>2, <1>4, <1>6, <1>7, StepPreserves

(***************************************************************************)
(* The theorems.                                                           *)
(***************************************************************************)

LEMMA InitEstablishes == Init => IInv
<1> SUFFICES ASSUME Init PROVE IInv
  OBVIOUS
<1>1. TypeOK
  BY InitTypes
<1>2. RowsBelong /\ AnsweredIsNotStored
  BY DEF Init, RowsBelong, AnsweredIsNotStored
<1>3. \A k \in Callbacks : callback[k].pc = "start"
  BY DEF Init
<1>4. \A q \in Polls : poll[q].pc = "start"
  BY DEF Init
<1>5. QED
  BY <1>1, <1>2, <1>3, <1>4 DEF IInv, CallbackHolds, PollHolds, TokenWaits

\* The inductive invariant holds, however callbacks, reloads of them, polls,
\* expiries and purges interleave.
THEOREM IInvHolds == Spec => []IInv
<1>1. IInv /\ [Next]_vars => IInv'
  <2> SUFFICES ASSUME IInv, [Next]_vars PROVE IInv'
    OBVIOUS
  <2>1. CASE UNCHANGED vars
    BY <2>1, QuietStepPreserves DEF vars
  <2>2. CASE Next
    BY <2>2, ExpirePreserves, InitiatePreserves, CallbackReadPreserves,
       CallbackConsumePreserves, CallbackExchangePreserves,
       CallbackCompletePreserves, PurgePreserves, PollReadPreserves,
       PollConsumePreserves DEF Next
  <2>3. QED BY <2>1, <2>2
<1>2. QED BY <1>1, InitEstablishes, PTL DEF Spec

\* Every variable keeps its type.
THEOREM TypeCorrect == Spec => []TypeOK
<1>1. IInv => TypeOK
  BY DEF IInv
<1>2. QED BY <1>1, IInvHolds, PTL

\* Consuming a row by two statements outside a transaction never hands a token
\* to another user or another flow (channel-oauth.ts, GET /poll).
THEOREM TokensReachTheirOwners == Spec => []TokenReachesItsOwner
<1>1. IInv => TokenReachesItsOwner
  <2> SUFFICES ASSUME IInv, NEW q \in Polls, Answered(q) # NoToken
               PROVE  /\ poll[q].user = owner[poll[q].state]
                      /\ callback[Answered(q)].state = poll[q].state
    BY DEF TokenReachesItsOwner
  <2>1. poll[q].pc = "completed" /\ Answered(q) = poll[q].row.token
    BY DEF Answered
  <2>2. QED BY <2>1 DEF IInv, PollHolds, RowBelongs, TokenOf
<1>2. QED BY <1>1, IInvHolds, PTL

\* A token that a poll has answered is gone from the table.
THEOREM AnsweredTokensAreGone == Spec => []AnsweredIsNotStored
<1>1. IInv => AnsweredIsNotStored
  BY DEF IInv
<1>2. QED BY <1>1, IInvHolds, PTL

\* Without a repeated redirect or an expiry no token is lost.
THEOREM TokensWait == Spec => []TokenWaits
<1>1. IInv => TokenWaits
  BY DEF IInv
<1>2. QED BY <1>1, IInvHolds, PTL

\* A consumed state is never pending again: completeWithToken stores it as
\* completed, and the other statements only remove rows.
THEOREM ConsumedStays == Spec => ConsumedStaysConsumed
<1> DEFINE Stays == \A s \in States : owner[s] # NoUser /\ Pending(s)' => Pending(s)
<1>1. IInv /\ [Next]_vars => [Stays]_vars
  <2> SUFFICES ASSUME IInv, Next, NEW s \in States, owner[s] # NoUser, Pending(s)'
               PROVE  Pending(s)
    OBVIOUS
  <2> USE DEF IInv, TypeOK
  <2>1. ASSUME NEW t \in States, Expire(t) PROVE Pending(s)
    BY <2>1 DEF Expire, Pending, Row
  <2>2. ASSUME NEW t \in States, NEW u \in Users, Initiate(t, u) PROVE Pending(s)
    BY <2>2 DEF Initiate, Pending
  <2>3. ASSUME NEW k \in Callbacks, CallbackConsume(k) PROVE Pending(s)
    BY <2>3 DEF CallbackConsume, Delete, Pending, CallbackRequest
  <2>4. ASSUME NEW k \in Callbacks, CallbackComplete(k) PROVE Pending(s)
    BY <2>4 DEF CallbackComplete, Stored, Pending, CallbackRequest
  <2>5. ASSUME NEW k \in Callbacks, Purge(k) PROVE Pending(s)
    BY <2>5 DEF Purge, Pending
  <2>6. ASSUME NEW q \in Polls, PollConsume(q) PROVE Pending(s)
    BY <2>6 DEF PollConsume, Delete, Pending, PollRequest
  <2>7. ASSUME rows' = rows PROVE Pending(s)
    BY <2>7 DEF Pending
  <2>8. QED
    BY <2>1, <2>2, <2>3, <2>4, <2>5, <2>6, <2>7
       DEF Next, CallbackRead, CallbackExchange, PollRead
<1>2. QED BY <1>1, IInvHolds, PTL DEF Spec, ConsumedStaysConsumed
=============================================================================
