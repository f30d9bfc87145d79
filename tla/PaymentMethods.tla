---------------------------- MODULE PaymentMethods ----------------------------
(***************************************************************************)
(* The cards of an account and what is charged to them (trpc/routers/      *)
(* billing.ts, api/routes/billing.ts): a card may be removed unless it is  *)
(* the last of an account with a hold or a debt, and automatic top-ups are *)
(* switched on only with a card on file.                                   *)
(*                                                                         *)
(* Both are checked against what was read in earlier calls, and the REST   *)
(* route checks nothing.  Accounts do not touch each other: this is one.   *)
(* Amounts, thresholds and intervals of top-ups are abstracted, and which  *)
(* of the two kinds of top-up is on.                                       *)
(***************************************************************************)
EXTENDS ServerLoad, FiniteSets

CONSTANTS
  Cards,        \* bound: cards
  CardSlots     \* slots of concurrent calls

ASSUME CardsAssumption == Cards # {}

VARIABLES
  account,      \* its cards at Stripe, its hold and its balance
  call          \* removals, and calls that switch top-ups on

methodVars == <<account, call>>

CallStages == {"idle", "methods", "balance", "detach", "topup"}

\* A removal keeps its card and the hold it has read.  History: `seen`, what
\* has happened to the account since the call began.
NoCall(card) == [at |-> "idle", card |-> card, hold |-> FALSE, seen |-> {}]

Idle(k) == [call EXCEPT ![k] = NoCall(CHOOSE c \in Cards : TRUE)]

MethodInit ==
  /\ account = [cards |-> {}, hold |-> FALSE, owes |-> FALSE, topup |-> FALSE]
  /\ call = [k \in CardSlots |-> NoCall(CHOOSE c \in Cards : TRUE)]

MethodTypeOK ==
  /\ account \in [cards : SUBSET Cards, hold : BOOLEAN, owes : BOOLEAN, topup : BOOLEAN]
  /\ call \in [CardSlots -> [at : CallStages, card : Cards, hold : BOOLEAN,
                             seen : SUBSET {"detached", "debt"}]]

\* The calls have all seen this happen, those under way.
Seen(calls, what) ==
  [k \in CardSlots |->
     IF calls[k].at = "idle" THEN calls[k]
     ELSE [calls[k] EXCEPT !.seen = @ \cup {what}]]

Indebted(a) == a.hold \/ a.owes

-----------------------------------------------------------------------------
(* What happens at Stripe and in the ledger.                               *)

\* A card is added with the client secret of POST /setup-intent.
AddCard ==
  /\ Begin("card")
  /\ \E c \in Cards \ account.cards : account' = [account EXCEPT !.cards = @ \cup {c}]
  /\ UNCHANGED call

\* The balance becomes negative or is settled; a hold is put on or lifted.
Debt ==
  /\ Begin("debt")
  /\ \/ account' = [account EXCEPT !.owes = TRUE] /\ call' = Seen(call, "debt")
     \/ account' = [account EXCEPT !.hold = TRUE] /\ call' = Seen(call, "debt")
     \/ account' = [account EXCEPT !.owes = FALSE] /\ UNCHANGED call
     \/ account' = [account EXCEPT !.hold = FALSE] /\ UNCHANGED call

-----------------------------------------------------------------------------
(* removePaymentMethod.                                                    *)

\* tenantRepo.getByTenant.
BeginRemoval(k) ==
  \E c \in account.cards :
    /\ call[k].at = "idle"
    /\ Begin("cardCall")
    /\ call' = [call EXCEPT ![k] =
         [at |-> "methods", card |-> c, hold |-> account.hold, seen |-> {}]]
    /\ UNCHANGED account

\* Mutant: the balance is looked at only when no card is left.
SeemsLastTooLate == Cardinality(account.cards) <= 0

SeemsLast == Cardinality(account.cards) <= 1

\* listPaymentMethods.
ListMethods(k) ==
  /\ call[k].at = "methods"
  /\ call' = [call EXCEPT ![k].at = IF SeemsLast THEN "balance" ELSE "detach"]
  /\ UNCHANGED account

\* creditLedger.balance: refused with a hold or a debt.
ReadBalance(k) ==
  /\ call[k].at = "balance"
  /\ call' = IF call[k].hold \/ account.owes THEN Idle(k)
             ELSE [call EXCEPT ![k].at = "detach"]
  /\ UNCHANGED account

\* processor.detachPaymentMethod.
Detach(k) ==
  /\ call[k].at = "detach"
  /\ call[k].card \in account.cards
  /\ account' = [account EXCEPT !.cards = @ \ {call[k].card}]
  /\ call' = Seen(Idle(k), "detached")

\* A call throws; so does detaching a card that is gone.
CallFails(k) ==
  /\ call[k].at # "idle"
  /\ call' = Idle(k)
  /\ UNCHANGED account

\* DELETE /payment-methods/:id, which checks nothing; so may the customer in a
\* session of the portal.
DetachByRoute ==
  \E c \in account.cards :
    /\ Begin("cardCall")
    /\ account' = [account EXCEPT !.cards = @ \ {c}]
    /\ call' = Seen(call, "detached")

-----------------------------------------------------------------------------
(* updateAutoTopupSettings.                                                *)

\* The methods are listed: there is one.
BeginTopUp(k) ==
  /\ call[k].at = "idle"
  /\ account.cards # {}
  /\ Begin("cardCall")
  /\ call' = [call EXCEPT ![k].at = "topup"]
  /\ UNCHANGED account

\* The upsert.
SaveTopUp(k) ==
  /\ call[k].at = "topup"
  /\ account' = [account EXCEPT !.topup = TRUE]
  /\ call' = Idle(k)

\* Switching off needs no card.
TopUpOff ==
  /\ account.topup
  /\ account' = [account EXCEPT !.topup = FALSE]
  /\ UNCHANGED call

-----------------------------------------------------------------------------
\* What is left when the process ends: the account.
CardCallsCutOff ==
  /\ call' = [k \in CardSlots |-> NoCall(CHOOSE c \in Cards : TRUE)]
  /\ UNCHANGED account

MethodRequests ==
  \/ DetachByRoute
  \/ \E k \in CardSlots : BeginRemoval(k) \/ BeginTopUp(k)

MethodEvents ==
  \/ /\ \/ TopUpOff
        \/ \E k \in CardSlots :
             ListMethods(k) \/ ReadBalance(k) \/ Detach(k) \/ CallFails(k) \/ SaveTopUp(k)
     /\ UNCHANGED budget
  \/ AddCard
  \/ Debt

-----------------------------------------------------------------------------
(* Properties.                                                             *)

\* "prevent removing the last payment method when there's an active billing
\* hold or an outstanding balance" (trpc/routers/billing.ts): a removal takes
\* the last card of an account with a debt only if the debt or another removal
\* has come in between its own calls.  Likewise a top-up is switched on without
\* a card only if the card went in between.
LastCardStays ==
  [][\A k \in CardSlots :
       /\ (call[k].at = "detach" /\ account'.cards = account.cards \ {call[k].card}
             /\ account.cards = {call[k].card} /\ call'[k].at = "idle" /\ Indebted(account))
            => call[k].seen # {}
       /\ (call[k].at = "topup" /\ account'.topup /\ ~account.topup /\ call'[k].at = "idle")
            => (account.cards # {} \/ "detached" \in call[k].seen)]_methodVars
=============================================================================
