----------------------------- MODULE TenantLedger -----------------------------
(***************************************************************************)
(* The double-entry ledger of the tenants, as the code in src/ uses it     *)
(* (ILedger of platform-core; tables of drizzle migrations 0072 and 0074), *)
(* and the requests of one server process that work on it.                 *)
(*                                                                         *)
(* A credit or debit is one transaction: it opens the tenant's account and *)
(* its balance row if they are missing, posts an entry with its lines and  *)
(* moves the balance; a debit of more than there is throws.  The entries   *)
(* of a tenant are exchangeable and therefore counted: `fresh` ones, and   *)
(* `copied` ones, which the archive already holds.  Amounts are 1.         *)
(***************************************************************************)
EXTENDS Naturals, FiniteSets

\* Requests are about a bulk grant or about a deletion.
Kind == {"grant", "deletion"}

CONSTANTS
  Tenants,
  Handlers,     \* slots of concurrent requests, numbered
  Ids,          \* bulk grants, and deletion requests, numbered as they come
  Loads,        \* bound: how many requests of each kind come together
  MaxFaults     \* bound: calls that throw, and crashes

ASSUME LedgerAssumption ==
  /\ Handlers \subseteq Nat
  /\ Ids \subseteq Nat \ {0}
  /\ Loads \subseteq [Kind -> Nat]
  /\ MaxFaults \in Nat

VARIABLES
  ledger,       \* the tables of a tenant's ledger
  req,          \* what a request is doing
  started,      \* requests started, of each kind
  faults        \* calls that have thrown, and crashes

baseVars == <<ledger, req, started, faults>>

\* `lined`: some live entry has lines.  History: `window`, an archive has
\* copied the entries and not yet deleted them; `late`, entries posted in a
\* window; `lost`, entries deleted without a copy; `touched`, posted to since
\* the last erasure began.
Ledger == [account : BOOLEAN, row : BOOLEAN, cents : Nat, fresh : Nat,
           copied : Nat, lined : BOOLEAN, window : BOOLEAN, late : Nat,
           lost : Nat, touched : BOOLEAN]

PCs == {"idle", "credit", "record", "debit", "mark", "create",
        "cancel"}

NoId == 0

Local == [at : PCs, id : Ids \cup {NoId}, todo : SUBSET Tenants,
          done : SUBSET Tenants, failed : BOOLEAN, user : BOOLEAN]

Idle == [at |-> "idle", id |-> NoId, todo |-> {}, done |-> {},
         failed |-> FALSE, user |-> FALSE]

BaseInit ==
  /\ ledger = [t \in Tenants |->
       [account |-> TRUE, row |-> TRUE, cents |-> 0, fresh |-> 1, copied |-> 0,
        lined |-> TRUE, window |-> FALSE, late |-> 0, lost |-> 0,
        touched |-> FALSE]]
  /\ req = [h \in Handlers |-> Idle]
  /\ started = [k \in Kind |-> 0]
  /\ faults = 0

BaseTypeOK ==
  /\ ledger \in [Tenants -> Ledger]
  /\ req \in [Handlers -> Local]
  /\ started \in [Kind -> Nat]
  /\ faults \in 0..MaxFaults

\* The next id: a new one is not among those in use.
Fresh(used) == {i \in Ids \ used : \A j \in Ids \ used : i <= j}

-----------------------------------------------------------------------------
\* The entry and its lines of one posting, the balance being `cents` after it.
Posted(l, cents) ==
  [l EXCEPT !.account = TRUE, !.row = TRUE, !.cents = cents,
            !.fresh = @ + 1, !.lined = TRUE, !.touched = TRUE,
            !.late = IF l.window THEN @ + 1 ELSE @]

Credit(t) ==
  ledger' = [ledger EXCEPT ![t] = Posted(@, @.cents + 1)]

\* Mutant: debits go through without funds.
DebitAnyway(t) ==
  ledger' = [ledger EXCEPT ![t] = Posted(@, @.cents - 1)]

Debit(t) ==
  /\ ledger[t].cents > 0
  /\ ledger' = [ledger EXCEPT ![t] = Posted(@, @.cents - 1)]

\* The tenant spends a credit.
Spend(t) ==
  /\ Debit(t)
  /\ UNCHANGED <<req, started, faults>>

-----------------------------------------------------------------------------
\* A request takes the first free slot.
Begin(kind, h, l) ==
  /\ req[h] = Idle
  /\ \A k \in Handlers : req[k] = Idle => h <= k
  /\ started' = [started EXCEPT ![kind] = @ + 1]
  /\ \E load \in Loads : \A k \in Kind : started'[k] <= load[k]
  /\ req' = [req EXCEPT ![h] = l]

Continue(h, l) ==
  /\ req' = [req EXCEPT ![h] = l]
  /\ UNCHANGED started

Answer(h) == Continue(h, Idle)

Fault ==
  /\ faults < MaxFaults
  /\ faults' = faults + 1
=============================================================================
