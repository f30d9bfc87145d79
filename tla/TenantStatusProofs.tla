-------------------------- MODULE TenantStatusProofs --------------------------
(* Theorems about TenantStatus, for every set of tenants and procedures and  *)
(* every bound on balances and requests.                                     *)
EXTENDS TenantStatus, TLAPS

(***************************************************************************)
(* The inductive invariant: what a procedure may rely on between its reads *)
(* and its writes.                                                         *)
(***************************************************************************)

\* A procedure that writes for one tenant has one.
Targeting == {"bots", "balance", "debit", "topup", "cards", "ban"}

HasTarget(h) ==
  pc[h] \in Targeting \/ (pc[h] = "write" /\ kind[h] # "expire") =>
    at[h] \in Tenants

\* No procedure goes on for a tenant it has read to be banned.
SeenUnbanned(h) == pc[h] = "write" /\ kind[h] # "expire" => seen[h] # "banned"

\* Only the sweep of grace periods selects them.
SweepsExpired(h) == pc[h] = "select" => kind[h] = "expire"

\* What the steps of a ban have taken away stays away, unless the tenant acts:
\* the other procedures take away too, and give nothing back.
Cleared(h) ==
  LET t == at[h] IN
  ~disturbed[h] =>
    /\ pc[h] \in {"balance", "debit", "topup", "cards", "ban"} => ~bots[t]
    /\ pc[h] = "debit" => balance[t] <= refund[h]
    /\ pc[h] \in {"topup", "cards", "ban"} => balance[t] = 0
    /\ pc[h] \in {"cards", "ban"} => ~topup[t]
    /\ pc[h] = "ban" => ~cards[t]

Knows(h) == HasTarget(h) /\ SeenUnbanned(h) /\ SweepsExpired(h) /\ Cleared(h)

IInv ==
  /\ TypeOK
  /\ RowAgrees
  /\ \A h \in Handlers : Knows(h)

(***************************************************************************)
(* The locals of the procedures.                                           *)
(***************************************************************************)

AllKinds == SingleKinds \cup BulkKinds \cup {"expire"}

LocalTypes ==
  /\ pc \in [Handlers -> PCs]
  /\ kind \in [Handlers -> AllKinds]
  /\ todo \in [Handlers -> SUBSET Tenants]
  /\ at \in [Handlers -> Tenants \cup {NoTenant}]
  /\ seen \in [Handlers -> Statuses]
  /\ refund \in [Handlers -> Nat]
  /\ disturbed \in [Handlers -> BOOLEAN]

\* Procedure h is where it was, with what it knew.
Unmoved(h) ==
  /\ pc'[h] = pc[h]
  /\ kind'[h] = kind[h]
  /\ todo'[h] = todo[h]
  /\ at'[h] = at[h]
  /\ seen'[h] = seen[h]
  /\ refund'[h] = refund[h]
  /\ disturbed'[h] = disturbed[h]

OthersUnmoved(h) == \A g \in Handlers \ {h} : Unmoved(g)

LEMMA DoneLocals ==
  ASSUME LocalTypes, NEW h \in Handlers, Done(h)
  PROVE  LocalTypes' /\ pc'[h] = "idle" /\ OthersUnmoved(h)
<1> USE DEF Done, LocalTypes
<1>1. OthersUnmoved(h)
  BY DEF OthersUnmoved, Unmoved
<1>2. LocalTypes'
  BY DEF PCs, AllKinds, SingleKinds, Statuses
<1>3. QED BY <1>1, <1>2

LEMMA GotoLocals ==
  ASSUME LocalTypes, NEW h \in Handlers, NEW l \in PCs, Goto(h, l)
  PROVE  /\ LocalTypes' /\ OthersUnmoved(h)
         /\ pc'[h] = l
         /\ UNCHANGED locals
BY DEF Goto, locals, LocalTypes, OthersUnmoved, Unmoved

LEMMA NextTenantLocals ==
  ASSUME LocalTypes, NEW h \in Handlers, NEW t \in Tenants,
         NEW l \in {"check", "write"}, NextTenant(h, t, l)
  PROVE  /\ LocalTypes' /\ OthersUnmoved(h)
         /\ \/ pc'[h] = "idle"
            \/ pc'[h] = l /\ kind'[h] = kind[h]
<1>1. CASE Done(h)
  BY <1>1, DoneLocals
<1>2. CASE ~Done(h)
  <2>1. /\ pc' = [pc EXCEPT ![h] = l]
        /\ todo' = [todo EXCEPT ![h] = @ \ {t}]
        /\ at' = [at EXCEPT ![h] = NoTenant]
        /\ seen' = [seen EXCEPT ![h] = "active"]
        /\ UNCHANGED <<kind, refund, disturbed>>
    BY <1>2 DEF NextTenant
  <2>2. OthersUnmoved(h)
    BY <2>1 DEF LocalTypes, OthersUnmoved, Unmoved
  <2>3. LocalTypes'
    BY <2>1 DEF LocalTypes, PCs, Statuses
  <2>4. QED BY <2>1, <2>2, <2>3 DEF LocalTypes
<1>3. QED BY <1>1, <1>2

(***************************************************************************)
(* The row and the account.                                                *)
(***************************************************************************)

AccountTypes ==
  /\ bots \in [Tenants -> BOOLEAN]
  /\ balance \in [Tenants -> Nat]
  /\ topup \in [Tenants -> BOOLEAN]
  /\ cards \in [Tenants -> BOOLEAN]

LEMMA TypeParts ==
  TypeOK <=> /\ row \in [Tenants -> StatusRow]
             /\ AccountTypes /\ LocalTypes
             /\ started \in Nat
BY DEF TypeOK, AccountTypes, LocalTypes, AllKinds

\* The columns of one row agree.
RowFine(r) ==
  /\ r \in StatusRow
  /\ r.deadline = "none" <=> r.status # "grace_period"
  /\ r.status = "banned" => r.erase

RowsFine ==
  row \in [Tenants -> StatusRow] /\ \A t \in Tenants : RowFine(row[t])

LEMMA RowsFineMeans ==
  RowsFine <=> row \in [Tenants -> StatusRow] /\ RowAgrees
BY DEF RowsFine, RowFine, RowAgrees

\* Every statement of the store leaves a row whose columns agree.
LEMMA StatementsAgree ==
  ASSUME NEW r, RowFine(r)
  PROVE  /\ RowFine(Suspended(r))
         /\ RowFine(Reactivated(r))
         /\ RowFine(Banned(r))
         /\ RowFine(InGrace(r))
         /\ r.deadline = "ahead" => RowFine([r EXCEPT !.deadline = "past"])
BY DEF RowFine, StatusRow, Statuses, Suspended, Reactivated, Banned, InGrace

LEMMA RowUpdate ==
  ASSUME RowsFine, NEW t, NEW r, RowFine(r), row' = [row EXCEPT ![t] = r]
  PROVE  RowsFine'
BY DEF RowsFine, RowFine

\* Nothing is given to a tenant.
NothingGiven ==
  \A t \in Tenants :
    /\ bots'[t] => bots[t]
    /\ balance'[t] <= balance[t]
    /\ topup'[t] => topup[t]
    /\ cards'[t] => cards[t]

\* ... so what another procedure has seen to be gone is still gone.
LEMMA OthersStillKnow ==
  ASSUME LocalTypes, AccountTypes, AccountTypes', NothingGiven,
         NEW h \in Handlers, Unmoved(h), Knows(h)
  PROVE  Knows(h)'
<1>1. HasTarget(h)' /\ SeenUnbanned(h)' /\ SweepsExpired(h)'
  BY DEF Unmoved, Knows, HasTarget, SeenUnbanned, SweepsExpired
<1>2. CASE pc[h] \in Targeting
  <2> DEFINE t == at[h]
  <2>1. t \in Tenants
    BY <1>2 DEF Knows, HasTarget
  <2>2. /\ bots'[t] => bots[t]
        /\ topup'[t] => topup[t]
        /\ cards'[t] => cards[t]
    BY <2>1 DEF NothingGiven
  <2>3. /\ balance[t] = 0 => balance'[t] = 0
        /\ balance[t] <= refund[h] => balance'[t] <= refund[h]
    BY <2>1 DEF NothingGiven, AccountTypes, LocalTypes
  <2>4. Cleared(h)'
    BY <2>2, <2>3 DEF Unmoved, Knows, Cleared
  <2>5. QED BY <1>1, <2>4 DEF Knows
<1>3. CASE pc[h] \notin Targeting
  BY <1>1, <1>3 DEF Unmoved, Knows, Cleared, Targeting
<1>4. QED BY <1>2, <1>3
(***************************************************************************)
(* The steps of a procedure.                                               *)
(***************************************************************************)

LEMMA Parts ==
  ASSUME IInv
  PROVE  /\ RowsFine /\ AccountTypes /\ LocalTypes /\ started \in Nat
         /\ \A h \in Handlers : Knows(h)
BY TypeParts, RowsFineMeans DEF IInv

\* What remains to be shown of a procedure's step.
LEMMA StepPreserves ==
  ASSUME IInv, NEW h \in Handlers,
         started' \in Nat, AccountTypes', NothingGiven, RowsFine',
         LocalTypes', OthersUnmoved(h), Knows(h)'
  PROVE  IInv'
<1>1. \A g \in Handlers \ {h} : Knows(g)'
  BY Parts, OthersStillKnow DEF OthersUnmoved
<1>2. TypeOK'
  BY TypeParts DEF RowsFine, TypeOK, AccountTypes, LocalTypes, AllKinds
<1>3. RowAgrees'
  BY DEF RowsFine, RowFine, RowAgrees
<1>4. QED BY <1>1, <1>2, <1>3 DEF IInv

LEMMA AccountUntouched ==
  ASSUME AccountTypes, UNCHANGED account
  PROVE  AccountTypes' /\ NothingGiven
BY DEF AccountTypes, NothingGiven, account

LEMMA RowUntouched ==
  ASSUME RowsFine, UNCHANGED row
  PROVE  RowsFine'
BY DEF RowsFine, RowFine

\* A procedure that has answered, or looks for its next tenant, relies on
\* nothing.
LEMMA KnowsNothing ==
  ASSUME NEW h \in Handlers,
         \/ pc'[h] \in {"idle", "check"}
         \/ pc'[h] \in {"select", "write"} /\ kind'[h] = "expire"
  PROVE  Knows(h)'
BY DEF Knows, HasTarget, SeenUnbanned, SweepsExpired, Cleared, Targeting

LEMMA BeginPreserves ==
  ASSUME IInv, NEW h \in Handlers, Begin(h)
  PROVE  IInv'
<1>1. PICK k \in Kinds \ {"grace"}, ts \in SUBSET Tenants :
        /\ kind' = [kind EXCEPT ![h] = k]
        /\ todo' = [todo EXCEPT ![h] = ts]
        /\ pc' = [pc EXCEPT ![h] = IF k = "expire" THEN "select" ELSE "check"]
  BY DEF Begin
<1>2. k \in AllKinds
  BY TypeAssumption DEF AllKinds
<1>3. /\ started' = started + 1
      /\ UNCHANGED <<row, account, at, seen, refund, disturbed>>
  BY DEF Begin
<1>4. /\ LocalTypes'
      /\ \/ pc'[h] = "check"
         \/ pc'[h] = "select" /\ kind'[h] = "expire"
  BY <1>1, <1>2, <1>3, Parts DEF LocalTypes, PCs
<1>5. OthersUnmoved(h)
  BY <1>1, <1>3, Parts DEF LocalTypes, OthersUnmoved, Unmoved
<1>6. QED
  BY <1>3, <1>4, <1>5, Parts, AccountUntouched, RowUntouched, KnowsNothing,
     StepPreserves

LEMMA CheckPreserves ==
  ASSUME IInv, NEW h \in Handlers, Check(h)
  PROVE  IInv'
<1>1. UNCHANGED <<row, account, started>> /\ LocalTypes /\ RowsFine
  BY Parts DEF Check
<1>2. PICK t \in Tenants :
        \/ NextTenant(h, t, "check")
        \/ /\ row[t].status \notin Refused(kind[h])
           /\ at' = [at EXCEPT ![h] = t]
           /\ seen' = [seen EXCEPT ![h] = row[t].status]
           /\ disturbed' = [disturbed EXCEPT ![h] = FALSE]
           /\ pc' = [pc EXCEPT ![h] =
                IF kind[h] = "ban" THEN "bots" ELSE "write"]
           /\ UNCHANGED <<kind, todo, refund>>
  BY <1>1 DEF Check, LocalTypes
<1>3. CASE NextTenant(h, t, "check")
  BY <1>1, <1>3, Parts, NextTenantLocals, AccountUntouched, RowUntouched,
     KnowsNothing, StepPreserves
<1>4. CASE ~NextTenant(h, t, "check")
  <2>1. /\ row[t].status \in Statuses
        /\ row[t].status # "banned"
    BY <1>1, <1>2, <1>4 DEF Refused, RowsFine, StatusRow
  <2> DEFINE l == IF kind[h] = "ban" THEN "bots" ELSE "write"
  <2>2. LocalTypes' /\ OthersUnmoved(h)
    <3>1. /\ at' = [at EXCEPT ![h] = t]
          /\ seen' = [seen EXCEPT ![h] = row[t].status]
          /\ disturbed' = [disturbed EXCEPT ![h] = FALSE]
          /\ pc' = [pc EXCEPT ![h] = l]
          /\ UNCHANGED <<kind, todo, refund>>
      BY <1>2, <1>4
    <3>2. l \in PCs
      BY DEF PCs
    <3> HIDE DEF l
    <3>3. LocalTypes'
      BY <1>1, <2>1, <3>1, <3>2 DEF LocalTypes
    <3>4. OthersUnmoved(h)
      BY <1>1, <3>1 DEF LocalTypes, OthersUnmoved, Unmoved
    <3>5. QED BY <3>3, <3>4
  <2>3. /\ pc'[h] \in {"bots", "write"}
        /\ at'[h] = t
        /\ seen'[h] # "banned"
    BY <1>1, <1>2, <1>4, <2>1 DEF LocalTypes
  <2>4. Knows(h)'
    BY <2>3 DEF Knows, HasTarget, SeenUnbanned, SweepsExpired, Cleared
  <2>5. QED
    BY <1>1, <2>2, <2>4, Parts, AccountUntouched, RowUntouched, StepPreserves
<1>5. QED BY <1>3, <1>4

LEMMA WriteStatusPreserves ==
  ASSUME IInv, NEW h \in Handlers, WriteStatus(h)
  PROVE  IInv'
<1>1. /\ pc[h] = "write" /\ kind[h] # "expire"
      /\ UNCHANGED <<account, started>>
      /\ LocalTypes /\ RowsFine
  BY Parts DEF WriteStatus
<1>2. at[h] \in Tenants
  BY <1>1, Parts DEF Knows, HasTarget
<1>3. RowsFine'
  <2> DEFINE r == IF kind[h] \in {"suspend", "bulkSuspend"}
                  THEN Suspended(row[at[h]]) ELSE Reactivated(row[at[h]])
  <2>1. RowFine(r)
    BY <1>1, <1>2, StatementsAgree DEF RowsFine
  <2>2. row' = [row EXCEPT ![at[h]] = r]
    BY DEF WriteStatus
  <2> HIDE DEF r
  <2>3. QED BY <1>1, <2>1, <2>2, RowUpdate
<1>4. CASE kind[h] = "suspend"
  <2>1. Goto(h, "bots") /\ "bots" \in PCs
    BY <1>4 DEF WriteStatus, PCs
  <2>2. LocalTypes' /\ OthersUnmoved(h) /\ pc'[h] = "bots" /\ UNCHANGED locals
    BY <1>1, <2>1, GotoLocals
  <2>3. Knows(h)'
    BY <1>2, <2>2 DEF Knows, HasTarget, SeenUnbanned, SweepsExpired,
                         Cleared, locals
  <2>4. QED BY <1>1, <1>3, <2>2, <2>3, Parts, AccountUntouched, StepPreserves
<1>5. CASE kind[h] # "suspend"
  <2>1. NextTenant(h, at[h], "check")
    BY <1>5 DEF WriteStatus
  <2>2. LocalTypes' /\ OthersUnmoved(h) /\ pc'[h] \in {"idle", "check"}
    BY <1>1, <1>2, <2>1, NextTenantLocals
  <2>3. QED
    BY <1>1, <1>3, <2>2, Parts, AccountUntouched, KnowsNothing, StepPreserves
<1>6. QED BY <1>4, <1>5

LEMMA SuspendBotsPreserves ==
  ASSUME IInv, NEW h \in Handlers, SuspendBots(h)
  PROVE  IInv'
<1> DEFINE t == at[h]
<1>1. /\ pc[h] = "bots"
      /\ bots' = [bots EXCEPT ![t] = FALSE]
      /\ UNCHANGED <<row, balance, topup, cards, started>>
      /\ LocalTypes /\ RowsFine /\ AccountTypes
  BY Parts DEF SuspendBots
<1>2. t \in Tenants
  BY <1>1, Parts DEF Knows, HasTarget, Targeting
<1>3. AccountTypes' /\ NothingGiven /\ ~bots'[t]
  BY <1>1, <1>2 DEF AccountTypes, NothingGiven
<1>4. CASE kind[h] = "suspend"
  BY <1>1, <1>3, <1>4, Parts, DoneLocals, RowUntouched, KnowsNothing,
     StepPreserves DEF SuspendBots
<1>5. CASE kind[h] # "suspend"
  <2>1. Goto(h, "balance") /\ "balance" \in PCs
    BY <1>5 DEF SuspendBots, PCs
  <2>2. /\ LocalTypes' /\ OthersUnmoved(h)
        /\ pc'[h] = "balance" /\ UNCHANGED locals
    BY <1>1, <2>1, GotoLocals
  <2>3. Knows(h)'
    BY <1>2, <1>3, <2>2 DEF Knows, HasTarget, SeenUnbanned, SweepsExpired,
                         Cleared, locals
  <2>4. QED BY <1>1, <1>3, <2>2, <2>3, Parts, RowUntouched, StepPreserves
<1>6. QED BY <1>4, <1>5

LEMMA ReadBalancePreserves ==
  ASSUME IInv, NEW h \in Handlers, ReadBalance(h)
  PROVE  IInv'
<1> DEFINE t == at[h]
<1>1. /\ pc[h] = "balance"
      /\ refund' = [refund EXCEPT ![h] = balance[t]]
      /\ pc' = [pc EXCEPT ![h] = IF balance[t] > 0 THEN "debit" ELSE "topup"]
      /\ UNCHANGED <<row, account, kind, todo, at, seen, disturbed, started>>
      /\ LocalTypes /\ AccountTypes
      /\ Knows(h)
  BY Parts DEF ReadBalance
<1>2. t \in Tenants /\ balance[t] \in Nat
  BY <1>1 DEF Knows, HasTarget, Targeting, AccountTypes
<1>3. LocalTypes' /\ OthersUnmoved(h)
  BY <1>1, <1>2 DEF LocalTypes, PCs, OthersUnmoved, Unmoved
<1>4. /\ pc'[h] = IF balance[t] > 0 THEN "debit" ELSE "topup"
      /\ refund'[h] = balance[t] /\ at'[h] = t /\ disturbed'[h] = disturbed[h]
      /\ UNCHANGED <<bots, balance>>
  BY <1>1 DEF LocalTypes, account
<1>5. Knows(h)'
  BY <1>1, <1>2, <1>4 DEF Knows, HasTarget, SeenUnbanned, SweepsExpired, Cleared
<1>6. QED
  BY <1>1, <1>3, <1>5, Parts, AccountUntouched, RowUntouched, StepPreserves

LEMMA RefundPreserves ==
  ASSUME IInv, NEW h \in Handlers, Refund(h)
  PROVE  IInv'
<1> DEFINE t == at[h]
<1>1. /\ pc[h] = "debit"
      /\ refund[h] <= balance[t]
      /\ balance' = [balance EXCEPT ![t] = @ - refund[h]]
      /\ Goto(h, "topup")
      /\ UNCHANGED <<row, bots, topup, cards, started>>
      /\ LocalTypes /\ AccountTypes
      /\ Knows(h)
  BY Parts DEF Refund
<1>2. t \in Tenants /\ balance[t] \in Nat /\ refund[h] \in Nat
  BY <1>1 DEF Knows, HasTarget, Targeting, AccountTypes, LocalTypes
<1>3. /\ balance'[t] = balance[t] - refund[h]
      /\ balance'[t] \in Nat /\ balance'[t] <= balance[t]
      /\ \A u \in Tenants \ {t} : balance'[u] = balance[u]
      /\ balance' \in [Tenants -> Nat]
  BY <1>1, <1>2 DEF AccountTypes
<1>4. AccountTypes' /\ NothingGiven
  BY <1>1, <1>3 DEF AccountTypes, NothingGiven
<1>5. /\ LocalTypes' /\ OthersUnmoved(h)
      /\ pc'[h] = "topup" /\ UNCHANGED locals
  BY <1>1, GotoLocals DEF PCs
<1>6. ~disturbed[h] => balance'[t] = 0 /\ ~bots[t]
  BY <1>1, <1>2, <1>3 DEF Knows, Cleared
<1>7. Knows(h)'
  BY <1>1, <1>2, <1>5, <1>6
     DEF Knows, HasTarget, SeenUnbanned, SweepsExpired,
                         Cleared, locals
<1>8. QED BY <1>1, <1>4, <1>5, <1>7, Parts, RowUntouched, StepPreserves

LEMMA DisableTopupPreserves ==
  ASSUME IInv, NEW h \in Handlers, DisableTopup(h)
  PROVE  IInv'
<1> DEFINE t == at[h]
<1>1. /\ pc[h] = "topup"
      /\ topup' = [topup EXCEPT ![t] = FALSE]
      /\ Goto(h, "cards")
      /\ UNCHANGED <<row, bots, balance, cards, started>>
      /\ LocalTypes /\ AccountTypes
      /\ Knows(h)
  BY Parts DEF DisableTopup
<1>2. t \in Tenants
  BY <1>1 DEF Knows, HasTarget, Targeting
<1>3. AccountTypes' /\ NothingGiven /\ ~topup'[t]
  BY <1>1, <1>2 DEF AccountTypes, NothingGiven
<1>4. /\ LocalTypes' /\ OthersUnmoved(h)
      /\ pc'[h] = "cards" /\ UNCHANGED locals
  BY <1>1, GotoLocals DEF PCs
<1>5. Knows(h)'
  BY <1>1, <1>2, <1>3, <1>4
     DEF Knows, HasTarget, SeenUnbanned, SweepsExpired,
                         Cleared, locals
<1>6. QED BY <1>1, <1>3, <1>4, <1>5, Parts, RowUntouched, StepPreserves

LEMMA DetachCardsPreserves ==
  ASSUME IInv, NEW h \in Handlers, DetachCards(h)
  PROVE  IInv'
<1> DEFINE t == at[h]
<1>1. /\ pc[h] = "cards"
      /\ cards' = [cards EXCEPT ![t] = FALSE]
      /\ Goto(h, "ban")
      /\ UNCHANGED <<row, bots, balance, topup, started>>
      /\ LocalTypes /\ AccountTypes
      /\ Knows(h)
  BY Parts DEF DetachCards
<1>2. t \in Tenants
  BY <1>1 DEF Knows, HasTarget, Targeting
<1>3. AccountTypes' /\ NothingGiven /\ ~cards'[t]
  BY <1>1, <1>2 DEF AccountTypes, NothingGiven
<1>4. /\ LocalTypes' /\ OthersUnmoved(h)
      /\ pc'[h] = "ban" /\ UNCHANGED locals
  BY <1>1, GotoLocals DEF PCs
<1>5. Knows(h)'
  BY <1>1, <1>2, <1>3, <1>4
     DEF Knows, HasTarget, SeenUnbanned, SweepsExpired,
                         Cleared, locals
<1>6. QED BY <1>1, <1>3, <1>4, <1>5, Parts, RowUntouched, StepPreserves
LEMMA BanPreserves ==
  ASSUME IInv, NEW h \in Handlers, Ban(h)
  PROVE  IInv'
<1>1. /\ pc[h] = "ban"
      /\ Done(h)
      /\ UNCHANGED <<account, started>>
      /\ LocalTypes /\ RowsFine
      /\ Knows(h)
  BY Parts DEF Ban
<1>2. at[h] \in Tenants
  BY <1>1 DEF Knows, HasTarget, Targeting
<1>3. RowsFine'
  <2> DEFINE r == Banned(row[at[h]])
  <2>1. RowFine(r)
    BY <1>1, <1>2, StatementsAgree DEF RowsFine
  <2>2. row' = [row EXCEPT ![at[h]] = r]
    BY DEF Ban
  <2> HIDE DEF r
  <2>3. QED BY <1>1, <2>1, <2>2, RowUpdate
<1>4. QED
  BY <1>1, <1>3, Parts, DoneLocals, AccountUntouched, KnowsNothing,
     StepPreserves

LEMMA SelectExpiredPreserves ==
  ASSUME IInv, NEW h \in Handlers, SelectExpired(h)
  PROVE  IInv'
<1>1. /\ pc[h] = "select"
      /\ UNCHANGED <<row, account, started>>
      /\ LocalTypes
      /\ Knows(h)
  BY Parts DEF SelectExpired
<1>2. CASE Due = {}
  BY <1>1, <1>2, Parts, DoneLocals, AccountUntouched, RowUntouched,
     KnowsNothing, StepPreserves DEF SelectExpired
<1>3. CASE Due # {}
  <2>1. /\ todo' = [todo EXCEPT ![h] = Due]
        /\ pc' = [pc EXCEPT ![h] = "write"]
        /\ UNCHANGED <<kind, at, seen, refund, disturbed>>
    BY <1>3 DEF SelectExpired
  <2>2. Due \subseteq Tenants
    BY DEF Due
  <2>3. LocalTypes' /\ OthersUnmoved(h) /\ pc'[h] = "write"
    BY <1>1, <2>1, <2>2 DEF LocalTypes, PCs, OthersUnmoved, Unmoved
  <2>4. kind[h] = "expire"
    BY <1>1 DEF Knows, SweepsExpired
  <2>5. QED
    BY <1>1, <2>1, <2>3, <2>4, Parts, AccountUntouched, RowUntouched,
       KnowsNothing, StepPreserves
<1>4. QED BY <1>2, <1>3

LEMMA SuspendExpiredPreserves ==
  ASSUME IInv, NEW h \in Handlers, SuspendExpired(h)
  PROVE  IInv'
<1>1. /\ kind[h] = "expire"
      /\ UNCHANGED <<account, started>>
      /\ LocalTypes /\ RowsFine
  BY Parts DEF SuspendExpired
<1>2. PICK t \in Tenants :
        /\ row' = [row EXCEPT ![t] = Suspended(@)]
        /\ NextTenant(h, t, "write")
  BY <1>1 DEF SuspendExpired, LocalTypes
<1>3. RowsFine'
  <2> DEFINE r == Suspended(row[t])
  <2>1. RowFine(r)
    BY <1>1, StatementsAgree DEF RowsFine
  <2>2. row' = [row EXCEPT ![t] = r]
    BY <1>2
  <2> HIDE DEF r
  <2>3. QED BY <1>1, <2>1, <2>2, RowUpdate
<1>4. /\ LocalTypes' /\ OthersUnmoved(h)
      /\ pc'[h] = "idle" \/ (pc'[h] = "write" /\ kind'[h] = "expire")
  BY <1>1, <1>2, NextTenantLocals
<1>5. QED
  BY <1>1, <1>3, <1>4, Parts, AccountUntouched, KnowsNothing, StepPreserves

LEMMA ThrowPreserves ==
  ASSUME IInv, NEW h \in Handlers, Throw(h)
  PROVE  IInv'
<1>1. UNCHANGED <<row, account, started>> /\ LocalTypes
  BY Parts DEF Throw
<1>2. CASE Done(h)
  BY <1>1, <1>2, Parts, DoneLocals, AccountUntouched, RowUntouched,
     KnowsNothing, StepPreserves
<1>3. CASE ~Done(h)
  <2>1. PICK t \in Tenants : NextTenant(h, t, "check")
    BY <1>1, <1>3 DEF Throw, LocalTypes
  <2>2. LocalTypes' /\ OthersUnmoved(h) /\ pc'[h] \in {"idle", "check"}
    BY <1>1, <2>1, NextTenantLocals
  <2>3. QED
    BY <1>1, <2>2, Parts, AccountUntouched, RowUntouched, KnowsNothing,
       StepPreserves
<1>4. QED BY <1>2, <1>3

(***************************************************************************)
(* The steps of everybody else.                                            *)
(***************************************************************************)

LEMMA RowStepPreserves ==
  ASSUME IInv, RowsFine', UNCHANGED <<account, pc, locals, started>>
  PROVE  IInv'
<1>1. \A h \in Handlers : Knows(h)'
  BY DEF IInv, Knows, HasTarget, SeenUnbanned, Cleared, SweepsExpired,
         account, locals
<1>2. TypeOK' /\ RowAgrees'
  BY DEF IInv, TypeOK, RowsFine, RowFine, RowAgrees, account, locals
<1>3. QED BY <1>1, <1>2 DEF IInv

LEMMA SetGracePeriodPreserves ==
  ASSUME IInv, NEW t \in Tenants, SetGracePeriod(t)
  PROVE  IInv'
<1> DEFINE r == InGrace(row[t])
<1>1. RowFine(r)
  BY Parts, StatementsAgree DEF RowsFine
<1>2. row' = [row EXCEPT ![t] = r]
  BY DEF SetGracePeriod
<1> HIDE DEF r
<1>3. QED BY <1>1, <1>2, Parts, RowUpdate, RowStepPreserves DEF SetGracePeriod

LEMMA GraceRunsOutPreserves ==
  ASSUME IInv, NEW t \in Tenants, GraceRunsOut(t)
  PROVE  IInv'
<1> DEFINE r == [row[t] EXCEPT !.deadline = "past"]
<1>1. RowFine(r)
  BY Parts, StatementsAgree DEF RowsFine, GraceRunsOut
<1>2. row' = [row EXCEPT ![t] = r]
  BY DEF GraceRunsOut
<1> HIDE DEF r
<1>3. QED BY <1>1, <1>2, Parts, RowUpdate, RowStepPreserves DEF GraceRunsOut

\* What a tenant takes back is held against no ban: the ban is disturbed.
LEMMA TenantActsPreserves ==
  ASSUME IInv, NEW t \in Tenants, TenantActs(t)
  PROVE  IInv'
<1>1. /\ UNCHANGED <<row, pc, kind, todo, at, seen, refund, started>>
      /\ disturbed' = [h \in Handlers |-> disturbed[h] \/ at[h] = t]
      /\ AccountTypes /\ LocalTypes /\ RowsFine
  BY Parts DEF TenantActs
<1>2. /\ AccountTypes'
      /\ \A u \in Tenants \ {t} :
           /\ bots'[u] = bots[u] /\ balance'[u] = balance[u]
           /\ topup'[u] = topup[u] /\ cards'[u] = cards[u]
  <2>1. MaxBalance \in Nat
    BY TypeAssumption
  <2>2. CASE /\ bots' = [bots EXCEPT ![t] = TRUE]
             /\ UNCHANGED <<balance, topup, cards>>
    BY <1>1, <2>2 DEF AccountTypes
  <2>3. CASE /\ \E b \in 0..MaxBalance : balance' = [balance EXCEPT ![t] = b]
             /\ UNCHANGED <<bots, topup, cards>>
    BY <1>1, <2>1, <2>3 DEF AccountTypes
  <2>4. CASE /\ topup' = [topup EXCEPT ![t] = TRUE]
             /\ UNCHANGED <<bots, balance, cards>>
    BY <1>1, <2>4 DEF AccountTypes
  <2>5. CASE /\ cards' = [cards EXCEPT ![t] = TRUE]
             /\ UNCHANGED <<bots, balance, topup>>
    BY <1>1, <2>5 DEF AccountTypes
  <2>6. QED BY <2>2, <2>3, <2>4, <2>5 DEF TenantActs
<1>3. LocalTypes'
  BY <1>1 DEF LocalTypes
<1>4. ASSUME NEW h \in Handlers
      PROVE  Knows(h)'
  <2>1. Knows(h)
    BY Parts
  <2>2. disturbed'[h] = (disturbed[h] \/ at[h] = t)
    BY <1>1
  <2>3. HasTarget(h)' /\ SeenUnbanned(h)' /\ SweepsExpired(h)'
    BY <1>1, <2>1 DEF Knows, HasTarget, SeenUnbanned, SweepsExpired
  <2>4. CASE pc[h] \in Targeting /\ at[h] # t
    <3>1. at[h] \in Tenants \ {t}
      BY <2>1, <2>4 DEF Knows, HasTarget
    <3>2. Cleared(h)'
      BY <1>1, <1>2, <2>1, <2>2, <2>4, <3>1 DEF Knows, Cleared
    <3>3. QED BY <2>3, <3>2 DEF Knows
  <2>5. CASE at[h] = t
    BY <1>1, <2>2, <2>3, <2>5 DEF Knows, Cleared
  <2>6. CASE pc[h] \notin Targeting
    BY <1>1, <2>3, <2>6 DEF Knows, Cleared, Targeting
  <2>7. QED BY <2>4, <2>5, <2>6
<1>5. TypeOK' /\ RowAgrees'
  BY <1>1, <1>2, <1>3, TypeParts, Parts
     DEF IInv, TypeOK, AccountTypes, LocalTypes, AllKinds, RowAgrees
<1>6. QED BY <1>4, <1>5 DEF IInv

(***************************************************************************)
(* The theorems.                                                           *)
(***************************************************************************)

LEMMA InitEstablishes == Init => IInv
<1> SUFFICES ASSUME Init PROVE IInv
  OBVIOUS
<1>1. ActiveRow \in StatusRow
  BY DEF ActiveRow, StatusRow, Statuses
<1>2. TypeOK
  BY <1>1 DEF Init, TypeOK, PCs, SingleKinds, Statuses
<1>3. RowAgrees
  BY DEF Init, RowAgrees, ActiveRow
<1>4. \A h \in Handlers : Knows(h)
  BY DEF Init, Knows, HasTarget, SeenUnbanned, SweepsExpired, Cleared, Targeting
<1>5. QED BY <1>2, <1>3, <1>4 DEF IInv

LEMMA NextPreserves == IInv /\ [Next]_vars => IInv'
<1> SUFFICES ASSUME IInv, [Next]_vars PROVE IInv'
  OBVIOUS
<1>1. ASSUME NEW h \in Handlers, Procedure(h) PROVE IInv'
  BY <1>1, BeginPreserves, CheckPreserves, WriteStatusPreserves,
     SuspendBotsPreserves, ReadBalancePreserves, RefundPreserves,
     DisableTopupPreserves, DetachCardsPreserves, BanPreserves,
     SelectExpiredPreserves, SuspendExpiredPreserves, ThrowPreserves
     DEF Procedure
<1>2. ASSUME NEW t \in Tenants, SetGracePeriod(t) \/ GraceRunsOut(t) PROVE IInv'
  BY <1>2, SetGracePeriodPreserves, GraceRunsOutPreserves
<1>3. ASSUME NEW t \in Spenders, TenantActs(t) PROVE IInv'
  BY <1>3, TenantActsPreserves, TypeAssumption
<1>4. CASE UNCHANGED vars
  BY <1>4, Parts, RowUntouched, RowStepPreserves DEF vars
<1>5. QED BY <1>1, <1>2, <1>3, <1>4 DEF Next

\* The inductive invariant holds, however procedures overlap, throw or die.
THEOREM IInvHolds == Spec => []IInv
BY InitEstablishes, NextPreserves, PTL DEF Spec

\* Every variable keeps its type.
THEOREM TypeCorrect == Spec => []TypeOK
<1>1. IInv => TypeOK
  BY DEF IInv
<1>2. QED BY <1>1, IInvHolds, PTL

\* The columns of a status row agree, whichever procedure writes it last
\* (tenant-status-store.ts).
THEOREM RowsAgree == Spec => []RowAgrees
<1>1. IInv => RowAgrees
  BY DEF IInv
<1>2. QED BY <1>1, IInvHolds, PTL
\* A procedure that starts after a ban does not lift it: it would read
\* "banned" and be refused.
THEOREM BansAreLiftedByOverlaps == Spec => OnlyOverlapsLiftBans
<1> DEFINE Overlaps(t) ==
      \/ row'[t].status = "grace_period"
      \/ \E h \in Handlers :
           /\ pc[h] = "write"
           /\ \/ at[h] = t /\ seen[h] # "banned"
              \/ kind[h] = "expire" /\ t \in todo[h]
      A == \A t \in Tenants :
             row[t].status = "banned" /\ row'[t].status # "banned"
               => Overlaps(t)
<1>1. IInv /\ [Next]_vars => [A]_vars
  <2> SUFFICES ASSUME IInv, Next, NEW t \in Tenants,
                      row[t].status = "banned", row'[t].status # "banned"
               PROVE  Overlaps(t)
    OBVIOUS
  <2>1. LocalTypes /\ RowsFine /\ RowFine(row[t])
    BY Parts DEF RowsFine
  <2>2. ASSUME NEW h \in Handlers, WriteStatus(h) PROVE Overlaps(t)
    <3>1. at[h] = t
      BY <2>1, <2>2 DEF WriteStatus, RowsFine
    <3>2. pc[h] = "write" /\ kind[h] # "expire" /\ seen[h] # "banned"
      BY <2>2, Parts DEF WriteStatus, Knows, SeenUnbanned
    <3>3. QED BY <3>1, <3>2
  <2>3. ASSUME NEW h \in Handlers, SuspendExpired(h) PROVE Overlaps(t)
    <3>1. PICK u \in todo[h] : row' = [row EXCEPT ![u] = Suspended(@)]
      BY <2>3 DEF SuspendExpired
    <3>2. u = t
      BY <2>1, <3>1 DEF RowsFine
    <3>3. QED BY <2>3, <3>1, <3>2 DEF SuspendExpired
  <2>4. ASSUME NEW h \in Handlers, Ban(h) PROVE FALSE
    <3>1. row' = [row EXCEPT ![at[h]] = Banned(row[at[h]])]
      BY <2>4 DEF Ban
    <3>2. at[h] = t => row'[t] = Banned(row[t])
      BY <2>1, <3>1 DEF RowsFine
    <3>3. at[h] # t => row'[t] = row[t]
      BY <2>1, <3>1 DEF RowsFine
    <3>4. QED BY <2>1, <3>2, <3>3 DEF Banned, RowFine, StatusRow
  <2>5. ASSUME NEW u \in Tenants, SetGracePeriod(u) PROVE Overlaps(t)
    <3>1. row' = [row EXCEPT ![u] = InGrace(row[u])]
      BY <2>5 DEF SetGracePeriod
    <3>2. u = t /\ row'[t] = InGrace(row[t])
      BY <2>1, <3>1 DEF RowsFine
    <3>3. QED BY <2>1, <3>2 DEF InGrace, RowFine, StatusRow
  <2>6. ASSUME NEW u \in Tenants, GraceRunsOut(u) PROVE FALSE
    BY <2>1, <2>6 DEF GraceRunsOut, RowsFine, StatusRow
  <2>7. ASSUME row' = row PROVE FALSE
    BY <2>7
  <2>8. QED
    BY <2>2, <2>3, <2>4, <2>5, <2>6, <2>7
       DEF Next, Procedure, Begin, Check, SuspendBots, ReadBalance, Refund,
           DisableTopup, DetachCards, SelectExpired, Throw, TenantActs
<1>2. QED BY <1>1, IInvHolds, PTL DEF Spec, OnlyOverlapsLiftBans

\* A ban that its tenant has not disturbed leaves nothing running, nothing to
\* spend and nothing to charge, also when other bans of the same tenant run
\* beside it (banTenant of trpc/routers/admin.ts).
THEOREM BansLeaveNothing == Spec => BanLeavesNothing
<1> DEFINE A == \A h \in Handlers :
      (pc[h] = "ban" /\ pc'[h] # "ban" /\ row' # row /\ ~disturbed[h]) =>
        /\ row'[at[h]].status = "banned"
        /\ ~bots[at[h]]
        /\ balance[at[h]] = 0
        /\ ~topup[at[h]]
        /\ ~cards[at[h]]
<1>1. IInv /\ [Next]_vars => [A]_vars
  <2> SUFFICES ASSUME IInv, Next, NEW h \in Handlers, pc[h] = "ban",
                      pc'[h] # "ban", row' # row, ~disturbed[h]
               PROVE  /\ row'[at[h]].status = "banned"
                      /\ ~bots[at[h]]
                      /\ balance[at[h]] = 0
                      /\ ~topup[at[h]]
                      /\ ~cards[at[h]]
    OBVIOUS
  <2>1. LocalTypes /\ RowsFine /\ Knows(h)
    BY Parts
  <2>2. Ban(h)
    <3>1. ASSUME NEW g \in Handlers \ {h}, Procedure(g) PROVE pc'[h] = pc[h]
      <4>1. CASE Done(g)
        BY <2>1, <4>1 DEF Done, LocalTypes
      <4>2. CASE \E l : Goto(g, l)
        BY <2>1, <4>2 DEF Goto, LocalTypes
      <4>3. CASE \E t, l : NextTenant(g, t, l)
        BY <2>1, <4>3 DEF NextTenant, Done, LocalTypes
      <4>4. CASE Begin(g) \/ Check(g) \/ ReadBalance(g) \/ SelectExpired(g)
        BY <2>1, <4>4 DEF Begin, Check, ReadBalance, SelectExpired,
           NextTenant, Done, LocalTypes
      <4>5. QED
        BY <3>1, <4>1, <4>2, <4>3, <4>4 DEF Procedure, WriteStatus,
           SuspendBots, Refund, DisableTopup, DetachCards, Ban,
           SuspendExpired, Throw
    <3>2. Procedure(h)
      BY <3>1 DEF Next, SetGracePeriod, GraceRunsOut, TenantActs
    <3>3. QED
      BY <3>2 DEF Procedure, Begin, Check, WriteStatus, SuspendBots,
         ReadBalance, Refund, DisableTopup, DetachCards, SelectExpired,
         SuspendExpired, Throw
  <2>3. at[h] \in Tenants
    BY <2>1 DEF Knows, HasTarget, Targeting
  <2>4. row'[at[h]] = Banned(row[at[h]])
    BY <2>1, <2>2, <2>3 DEF Ban, RowsFine
  <2>5. row'[at[h]].status = "banned"
    BY <2>1, <2>3, <2>4 DEF Banned, RowsFine, StatusRow
  <2>6. QED BY <2>1, <2>5 DEF Knows, Cleared
<1>2. QED BY <1>1, IInvHolds, PTL DEF Spec, BanLeavesNothing
=============================================================================
