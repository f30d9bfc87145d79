------------------------------- MODULE Payments -------------------------------
(***************************************************************************)
(* Purchases of credits (api/routes/billing.ts, trpc/routers/billing.ts):  *)
(* the checkout with Stripe or with the crypto key server, and the         *)
(* webhooks by which each of them reports the payment until it is          *)
(* acknowledged.                                                           *)
(*                                                                         *)
(* A webhook that fails to verify puts its sender into a backoff           *)
(* (SigPenaltyRepository, in the database), in which all calls of it are   *)
(* answered 429.  Stripe's handler treats every error like that, the crypto*)
(* handler only a wrong secret.  What a webhook credits, and that it does  *)
(* so once, is platform-core's.  The allowlist of addresses is taken to    *)
(* hold the key server's.                                                  *)
(***************************************************************************)
EXTENDS ServerLoad

CONSTANT
  PaymentIds    \* bound: purchases, numbered

ASSUME PaymentAssumption == PaymentIds \subseteq Nat \ {0}

VARIABLES
  payment,      \* the purchases, and the webhook call each has under way
  penalty       \* SigPenaltyRepository, of each sender

payVars == <<payment, penalty>>

Senders == {"stripe", "crypto"}

CheckingOut == {"creating", "recording"}

\* Stages of a webhook call; a payment that is "due" is to be reported (again).
Calling == {"asked", "handling", "clearing", "failing"}

PaymentStages ==
  {"none", "open", "given up", "due", "acknowledged"} \cup CheckingOut \cup Calling

\* `known`: the charge is in cryptoChargeRepo.  `handled`: a webhook has
\* credited the payment.
NoPayment == [by |-> "stripe", at |-> "none", known |-> FALSE, handled |-> FALSE]

PayInit ==
  /\ payment = [p \in PaymentIds |-> NoPayment]
  /\ penalty = [s \in Senders |-> [failed |-> FALSE, blocked |-> FALSE]]

PayTypeOK ==
  /\ payment \in [PaymentIds -> [by : Senders, at : PaymentStages, known : BOOLEAN,
                                 handled : BOOLEAN]]
  /\ penalty \in [Senders -> [failed : BOOLEAN, blocked : BOOLEAN]]

Move(p, at) == payment' = [payment EXCEPT ![p].at = at]

By(p, s) == payment[p].by = s

-----------------------------------------------------------------------------
(* Checkout.                                                               *)

BeginCheckout ==
  \E p \in PaymentIds, s \in Senders :
    /\ payment[p] = NoPayment
    /\ \A q \in PaymentIds : payment[q] = NoPayment => p <= q
    /\ Begin("payment")
    /\ payment' = [payment EXCEPT ![p].by = s, ![p].at = "creating"]
    /\ UNCHANGED penalty

\* createCheckoutSession: its answer is what the buyer pays with.
CreateSession(p) ==
  /\ payment[p].at = "creating"
  /\ By(p, "stripe")
  /\ Move(p, "open")
  /\ UNCHANGED penalty

\* Mutant: the buyer is given the address before the charge is stored.
AfterCreateChargeOpen == "open"

AfterCreateCharge == "recording"

\* createCharge of the key server.
CreateCharge(p) ==
  /\ payment[p].at = "creating"
  /\ By(p, "crypto")
  /\ Move(p, AfterCreateCharge)
  /\ UNCHANGED penalty

\* createStablecoinCharge, and the answer with the address to pay to.
RecordCharge(p) ==
  /\ payment[p].at = "recording"
  /\ payment' = [payment EXCEPT ![p].known = TRUE, ![p].at = "open"]
  /\ UNCHANGED penalty

\* One of the calls throws: the buyer is given nothing to pay with.
CheckoutFails(p) ==
  /\ payment[p].at \in CheckingOut
  /\ Move(p, "given up")
  /\ UNCHANGED penalty

\* The buyer pays, and the sender has something to report.
Pay(p) ==
  /\ payment[p].at = "open"
  /\ Move(p, "due")
  /\ UNCHANGED penalty

-----------------------------------------------------------------------------
(* The webhooks.                                                           *)

\* The sender reports the payment, for the first time or once more.
Report(p) ==
  /\ payment[p].at = "due"
  /\ Move(p, "asked")
  /\ UNCHANGED <<penalty, budget>>

\* Mutant: a sender that has failed is refused until it succeeds.
BlockedUntilSuccess(s) == penalty[s].failed

\* now < penalty.blockedUntil
Blocked(s) == penalty[s].blocked

\* In backoff: 429.
Refuse(p) ==
  /\ payment[p].at = "asked"
  /\ Blocked(payment[p].by)
  /\ Move(p, "due")
  /\ UNCHANGED <<penalty, budget>>

\* Stripe's call is verified as it is handled.
AdmitStripe(p) ==
  /\ payment[p].at = "asked"
  /\ By(p, "stripe")
  /\ ~Blocked("stripe")
  /\ Move(p, "handling")
  /\ UNCHANGED <<penalty, budget>>

\* The key server's call has the secret, or has it wrong (a fault: the secret
\* is being exchanged).
AdmitCrypto(p) ==
  /\ payment[p].at = "asked"
  /\ By(p, "crypto")
  /\ ~Blocked("crypto")
  /\ \/ Move(p, "clearing") /\ UNCHANGED budget
     \/ Move(p, "failing") /\ Begin("fault")
  /\ UNCHANGED penalty

\* processor.handleWebhook credits the payment, or throws: the signature does
\* not verify, or anything else fails.
HandleStripe(p) ==
  /\ payment[p].at = "handling"
  /\ By(p, "stripe")
  /\ \/ /\ payment' = [payment EXCEPT ![p].handled = TRUE, ![p].at = "clearing"]
        /\ UNCHANGED budget
     \/ /\ Begin("fault")
        /\ Move(p, "failing")
  /\ UNCHANGED penalty

\* handleKeyServerWebhook credits a charge it knows; the call is acknowledged
\* whether it did or not.  If it throws, the answer is 500.
HandleCrypto(p) ==
  /\ payment[p].at = "handling"
  /\ By(p, "crypto")
  /\ \/ /\ payment' = [payment EXCEPT ![p].handled = @ \/ payment[p].known,
                         ![p].at = "acknowledged"]
        /\ UNCHANGED budget
     \/ /\ Begin("fault")
        /\ Move(p, "due")
  /\ UNCHANGED penalty

\* sigPenaltyRepo.clear, after Stripe's call is handled and before the key
\* server's is; if it throws, Stripe's call counts as failed.
Clear(p) ==
  LET s == payment[p].by IN
  /\ payment[p].at = "clearing"
  /\ \/ /\ penalty' = [penalty EXCEPT ![s] = [failed |-> FALSE, blocked |-> FALSE]]
        /\ Move(p, IF s = "stripe" THEN "acknowledged" ELSE "handling")
        /\ UNCHANGED budget
     \/ /\ Begin("fault")
        /\ Move(p, IF s = "stripe" THEN "failing" ELSE "handling")
        /\ UNCHANGED penalty

\* recordFailure; it may throw.  The answer is 400, 401 or 500.
Fail(p) ==
  /\ payment[p].at = "failing"
  /\ \/ /\ penalty' = [penalty EXCEPT ![payment[p].by] = [failed |-> TRUE, blocked |-> TRUE]]
        /\ UNCHANGED budget
     \/ Begin("fault") /\ UNCHANGED penalty
  /\ Move(p, "due")

\* The backoff of a sender is over.
Unblock(s) ==
  /\ penalty[s].blocked
  /\ penalty' = [penalty EXCEPT ![s].blocked = FALSE]
  /\ UNCHANGED <<payment, budget>>

\* A webhook call, one step after it was admitted or refused.
Webhook(p) ==
  \/ Refuse(p)
  \/ AdmitStripe(p)
  \/ AdmitCrypto(p)
  \/ HandleStripe(p)
  \/ HandleCrypto(p)
  \/ Clear(p)
  \/ Fail(p)

\* What is left when the process ends: the database.  The sender sees no
\* answer, and the buyer nothing to pay with.
PaymentsCutOff ==
  /\ payment' = [p \in PaymentIds |-> [payment[p] EXCEPT !.at =
       IF @ \in Calling THEN "due" ELSE IF @ \in CheckingOut THEN "given up" ELSE @]]
  /\ UNCHANGED penalty

PayEvents ==
  \E p \in PaymentIds :
    \/ (CreateSession(p) \/ CreateCharge(p) \/ RecordCharge(p) \/ CheckoutFails(p) \/ Pay(p))
         /\ UNCHANGED budget
    \/ Webhook(p)

-----------------------------------------------------------------------------
(* Properties.                                                             *)

\* A payment is acknowledged, and so never reported again, only when it was
\* credited: the crypto webhook acknowledges whatever comes of it, and a
\* charge it does not know is one nobody could pay.
AcknowledgedIsHandled ==
  \A p \in PaymentIds : payment[p].at = "acknowledged" => payment[p].handled

\* However often its report fails, is refused for the failures of others, or
\* is cut off by a crash, a payment that keeps being reported gets through: in
\* the end none is due.
PaymentsGetThrough ==
  <>[](\A p \in PaymentIds : payment[p].at \notin {"due"} \cup Calling)
=============================================================================
