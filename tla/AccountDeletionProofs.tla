------------------------ MODULE AccountDeletionProofs ------------------------
(* Deletion of accounts, for every set of tenants and requests, every load  *)
(* and every number of faults: who is kept, what the archive may lose, and  *)
(* what a completed request leaves behind.                                  *)
EXTENDS AccountLedgerProofs

(***************************************************************************)
(* A step is one of the sweep, a crash, or one beside the sweep, which     *)
(* posts to some ledger, or writes rows of some tenant, and completes no   *)
(* request.                                                                *)
(***************************************************************************)

Writings == {{}, {"records"}, {"objects", "snapshots"}}

CompletesNone ==
  \A r \in Ids :
    deletion'[r].status = "completed" => deletion[r].status = "completed"

Beside ==
  /\ UNCHANGED sweep
  /\ UNCHANGED ledger \/ \E t \in Tenants : Posts(t)
  /\ \/ UNCHANGED <<rows, noteVars>>
     \/ \E t \in Tenants, ks \in Writings : Write(t, ks)
  /\ CompletesNone

LEMMA GrantsPost ==
  ASSUME TInv, GrantNext
  PROVE  UNCHANGED ledger \/ \E t \in Tenants : Posts(t)
<1> USE DEF TInv
<1>1. ASSUME NEW h \in Handlers, CreditNext(h)
      PROVE  UNCHANGED ledger \/ \E t \in Tenants : Posts(t)
  <2>1. PICK t \in req[h].todo : Posts(t) \/ UNCHANGED ledger
    BY <1>1, CreditNextDoes
  <2>2. t \in Tenants
    BY <2>1 DEF TypeOK, BaseTypeOK, Local
  <2>3. QED BY <2>1, <2>2
<1>2. ASSUME NEW h \in Handlers, DebitNext(h)
      PROVE  UNCHANGED ledger \/ \E t \in Tenants : Posts(t)
  <2>1. PICK t \in req[h].todo : Posts(t) \/ UNCHANGED ledger
    BY <1>2, DebitNextDoes
  <2>2. t \in Tenants
    BY <2>1 DEF TypeOK, BaseTypeOK, Local
  <2>3. QED BY <2>1, <2>2
<1>3. ASSUME NEW h \in Handlers,
             BeginGrant(h) \/ RecordGrant(h) \/ BeginUndo(h) \/ MarkUndone(h)
      PROVE  UNCHANGED ledger
  BY <1>3, BeginGrantDoes, RecordGrantDoes, BeginUndoDoes, MarkUndoneDoes
<1>4. ASSUME NEW t \in Tenants, Spend(t)
      PROVE  Posts(t)
  BY <1>4, DebitPosts DEF Spend, TypeOK, BaseTypeOK
<1>5. QED BY <1>1, <1>2, <1>3, <1>4 DEF GrantNext

LEMMA FilingIsBeside ==
  ASSUME TInv, NEW h \in Handlers,
         \/ BeginRequest(h) \/ Refuse(h) \/ Create(h) \/ BeginCancel(h) \/ Cancel(h)
  PROVE  Beside /\ KeepsFiled
<1> USE DEF TInv
<1>1. CASE BeginRequest(h) \/ Refuse(h) \/ BeginCancel(h)
  <2>1. UNCHANGED ledger /\ UNCHANGED deletionVars
    BY <1>1, BeginRequestDoes, RefuseDoes, BeginCancelDoes
  <2>2. QED BY <2>1 DEF deletionVars, Beside, CompletesNone, KeepsFiled
<1>2. CASE Create(h)
  <2>1. PICK r \in Ids, t \in Tenants, ks \in {{}, {"records"}} :
           /\ deletion[r].status = "none"
           /\ deletion' = [deletion EXCEPT ![r] =
                [tenant |-> t, status |-> "pending", due |-> FALSE]]
           /\ Write(t, ks)
           /\ UNCHANGED <<ledger, sweep>>
    BY <1>2, CreateDoes
  <2>2. CompletesNone /\ KeepsFiled
    BY <2>1 DEF TypeOK, DeletionTypeOK, CompletesNone, KeepsFiled
  <2>3. ks \in Writings
    BY DEF Writings
  <2>4. QED BY <2>1, <2>2, <2>3 DEF Beside
<1>3. CASE Cancel(h)
  <2>1. PICK r \in Ids, ks \in {{}, {"records"}} :
           LET t == deletion[r].tenant IN
           /\ \/ /\ deletion[r].status = "pending"
                 /\ deletion' = [deletion EXCEPT ![r].status = "cancelled"]
              \/ UNCHANGED deletion
           /\ Write(t, ks)
           /\ UNCHANGED <<ledger, sweep>>
    BY <1>3, CancelDoes
  <2>2. deletion[r].tenant \in Tenants
    BY DEF TypeOK, DeletionTypeOK
  <2>3. CompletesNone /\ KeepsFiled
    BY <2>1 DEF TypeOK, DeletionTypeOK, CompletesNone, KeepsFiled
  <2>4. ks \in Writings
    BY DEF Writings
  <2>5. QED BY <2>1, <2>2, <2>3, <2>4 DEF Beside
<1>4. QED BY <1>1, <1>2, <1>3

LEMMA TimeIsBeside ==
  ASSUME TInv,
         \/ \E r \in Ids : GraceEnds(r)
         \/ \E t \in Deletable : TenantActs(t)
  PROVE  Beside /\ KeepsFiled
<1>1. ASSUME NEW r \in Ids, GraceEnds(r)
      PROVE  Beside /\ KeepsFiled
  <2>1. /\ deletion' = [deletion EXCEPT ![r].due = TRUE]
        /\ UNCHANGED <<ledger, rows, sweep, noteVars>>
    BY <1>1 DEF GraceEnds, baseVars
  <2>2. CompletesNone /\ KeepsFiled
    BY <2>1 DEF TInv, TypeOK, DeletionTypeOK, CompletesNone, KeepsFiled
  <2>3. QED BY <2>1, <2>2 DEF Beside
<1>2. ASSUME NEW t \in Deletable, TenantActs(t)
      PROVE  Beside /\ KeepsFiled
  <2>1. PICK ks \in {{"records"}, {"objects", "snapshots"}} : Write(t, ks)
    BY <1>2 DEF TenantActs
  <2>2. UNCHANGED <<ledger, deletion, sweep>>
    BY <1>2 DEF TenantActs, baseVars
  <2>3. t \in Tenants /\ ks \in Writings
    BY DeletionAssumption DEF Writings
  <2>4. QED BY <2>1, <2>2, <2>3 DEF Beside, CompletesNone, KeepsFiled
<1>3. QED BY <1>1, <1>2

\* What a step of the sweep leaves of the requests.
LEMMA SweepKeepsFiled ==
  ASSUME TInv, SweepStep
  PROVE  /\ KeepsFiled
         /\ UNCHANGED deletion \/ Complete
<1>1. CASE Complete
  <2>1. /\ sweep.id \in Ids
        /\ deletion' = [deletion EXCEPT ![sweep.id] =
             [deletion[sweep.id] EXCEPT !.status = "completed"]]
    BY <1>1, CompleteDoes
  <2>2. KeepsFiled
    BY <2>1 DEF TInv, TypeOK, DeletionTypeOK, KeepsFiled
  <2>3. QED BY <1>1, <2>2
<1>2. CASE ~Complete
  <2>1. UNCHANGED deletion
    BY <1>2 DEF SweepStep, FindExpired, NextRun, EraseCustomer, EraseTable,
       Erase, EraseBalances, CopyEntries, EraseLines, EraseEntries,
       EraseAccounts, ListObjects, ListThrows, EraseObjects, StepThrows,
       CompleteThrows, rowsOnly, ledgerOnly
  <2>2. QED BY <2>1 DEF KeepsFiled
<1>3. QED BY <1>1, <1>2

LEMMA StepsSplit ==
  ASSUME TInv, [Next]_vars
  PROVE  /\ Beside \/ SweepStep \/ Crash
         /\ KeepsFiled
<1>1. CASE GrantNext /\ UNCHANGED deletionVars
  BY <1>1, GrantsPost DEF deletionVars, Beside, CompletesNone, KeepsFiled
<1>2. CASE DeletionNext
  BY <1>2, FilingIsBeside, TimeIsBeside, SweepKeepsFiled DEF DeletionNext
<1>3. CASE Crash
  BY <1>3, CrashDoes DEF KeepsFiled
<1>4. CASE UNCHANGED vars
  BY <1>4 DEF vars, baseVars, deletionVars, Beside, CompletesNone, KeepsFiled
<1>5. QED BY <1>1, <1>2, <1>3, <1>4 DEF Next

\* A run stays about its tenant.
LEMMA TargetStays ==
  ASSUME TInv, KeepsFiled, sweep.at > 0, sweep'.id = sweep.id
  PROVE  Target' = Target
BY DEF TInv, SweepOK, Filed, KeepsFiled, Target

(***************************************************************************)
(* Who cancelled in time is kept.  As it stands this is not inductive: the *)
(* sweep selects whatever is pending, so a kept tenant must have nothing   *)
(* pending.                                                                *)
(***************************************************************************)

Kept(t) == Pending(t) = {} /\ ~Selected(t)

KInv == \A t \in kept : Kept(t)

\* Nobody is kept who was not, nothing is filed for whom is kept, and the
\* sweep selects what is pending.
LEMMA KeptStay ==
  ASSUME KInv, kept' \subseteq kept,
         \A t \in kept' : Pending(t)' \subseteq Pending(t),
         \A t \in kept' : Selected(t)' => Selected(t) \/ Pending(t) # {}
  PROVE  KInv'
BY DEF KInv, Kept

\* What is selected and pending follows from the requests and the sweep.
LEMMA SameSelection ==
  ASSUME UNCHANGED <<deletion, sweep>>
  PROVE  \A t : Pending(t)' = Pending(t) /\ (Selected(t)' <=> Selected(t))
BY DEF Pending, Selected, Erasing

\* What goes on in the sweep selects nothing new.
LEMMA SelectionShrinks ==
  ASSUME TInv, KeepsFiled, sweep'.queue \subseteq sweep.queue,
         \/ sweep'.at = 0
         \/ sweep.at > 0 /\ sweep'.id = sweep.id
         \/ sweep'.id \in sweep.queue
  PROVE  \A t : Selected(t)' => Selected(t)
BY DEF TInv, SweepOK, Filed, KeepsFiled, Selected, Erasing

LEMMA FilingKeeps ==
  ASSUME TInv, KInv, NEW h \in Handlers, Create(h) \/ Cancel(h)
  PROVE  KInv'
<1> USE DEF TInv
<1>1. CASE Create(h)
  <2>1. PICK r \in Ids, t \in Tenants :
           /\ deletion[r].status = "none"
           /\ deletion' = [deletion EXCEPT ![r] =
                [tenant |-> t, status |-> "pending", due |-> FALSE]]
           /\ kept' = kept \ {t}
           /\ UNCHANGED sweep
    BY <1>1, CreateDoes
  <2>2. ASSUME NEW u \in kept'
        PROVE  Pending(u)' \subseteq Pending(u)
    <3>1. u # t /\ deletion'[r].tenant = t
      BY <2>1 DEF TypeOK, DeletionTypeOK
    <3>2. \A i \in Ids \ {r} : deletion'[i] = deletion[i]
      BY <2>1 DEF TypeOK, DeletionTypeOK
    <3>3. QED BY <3>1, <3>2 DEF Pending
  <2>3. KeepsFiled
    BY <1>1, FilingIsBeside
  <2>4. \A u : Selected(u)' => Selected(u)
    BY <2>1, <2>3, SelectionShrinks DEF Selected, Erasing, SweepOK, Filed,
       KeepsFiled
  <2>5. QED BY <2>1, <2>2, <2>4, KeptStay
<1>2. CASE Cancel(h)
  <2>1. PICK r \in Ids :
           LET t == deletion[r].tenant IN
           /\ \/ /\ deletion[r].status = "pending"
                 /\ deletion' = [deletion EXCEPT ![r].status = "cancelled"]
                 /\ kept' = IF Pending(t) = {r} /\ ~Selected(t)
                            THEN kept \cup {t} ELSE kept
              \/ UNCHANGED <<deletion, kept>>
           /\ UNCHANGED sweep
    BY <1>2, CancelDoes
  <2> DEFINE t == deletion[r].tenant
  <2>2. CASE UNCHANGED <<deletion, kept>>
    BY <2>1, <2>2, SameSelection, KeptStay
  <2>3. CASE /\ deletion' = [deletion EXCEPT ![r].status = "cancelled"]
             /\ kept' = IF Pending(t) = {r} /\ ~Selected(t)
                        THEN kept \cup {t} ELSE kept
    <3>1. /\ deletion'[r].status = "cancelled"
          /\ \A i \in Ids : deletion'[i].tenant = deletion[i].tenant
          /\ \A i \in Ids \ {r} : deletion'[i] = deletion[i]
      BY <2>3 DEF TypeOK, DeletionTypeOK
    <3>2. \A u : Pending(u)' = Pending(u) \ {r}
      BY <3>1 DEF Pending
    <3>3. \A u : Selected(u)' => Selected(u)
      BY <2>1, <3>1 DEF Selected, Erasing, SweepOK, Filed, DeletionTypeOK, TypeOK
    <3>4. ASSUME NEW u \in kept' PROVE Kept(u)'
      <4>1. CASE u \in kept
        BY <3>2, <3>3, <4>1 DEF KInv, Kept
      <4>2. CASE Pending(u) = {r} /\ ~Selected(u)
        BY <3>2, <3>3, <4>2 DEF Kept
      <4>3. QED BY <2>3, <3>4, <4>1, <4>2
    <3>5. QED BY <3>4 DEF KInv
  <2>4. QED BY <2>1, <2>2, <2>3
<1>3. QED BY <1>1, <1>2

LEMMA SweepKeeps ==
  ASSUME TInv, KInv, SweepStep
  PROVE  KInv'
<1>1. KeepsFiled /\ (UNCHANGED deletion \/ Complete)
  BY SweepKeepsFiled
<1>2. CASE FindExpired
  <2>1. /\ sweep'.at = 0 /\ sweep'.queue = {r \in Ids : Due(r)}
        /\ UNCHANGED <<deletion, kept>>
    BY <1>2, FindExpiredDoes
  <2>2. \A t : Selected(t)' => Pending(t) # {}
    BY <2>1 DEF Selected, Erasing, Due, Pending
  <2>3. QED BY <2>1, <2>2, KeptStay DEF Pending
<1>3. CASE NextRun
  <2>1. PICK r \in sweep.queue :
           /\ sweep'.id = r /\ sweep'.queue = sweep.queue \ {r}
           /\ UNCHANGED <<deletion, kept>>
    BY <1>3, NextRunDoes
  <2>2. \A t : Selected(t)' => Selected(t)
    BY <1>1, <2>1, SelectionShrinks
  <2>3. QED BY <2>1, <2>2, KeptStay DEF Pending
<1>4. CASE Complete
  <2>1. /\ sweep.id \in Ids
        /\ deletion' = [deletion EXCEPT ![sweep.id] =
             [deletion[sweep.id] EXCEPT !.status = "completed"]]
        /\ sweep'.at = 0 /\ sweep'.queue = sweep.queue
        /\ UNCHANGED kept
    BY <1>4, CompleteDoes
  <2>2. \A t : Pending(t)' \subseteq Pending(t)
    BY <2>1 DEF TInv, TypeOK, DeletionTypeOK, Pending
  <2>3. \A t : Selected(t)' => Selected(t)
    BY <1>1, <2>1, SelectionShrinks
  <2>4. QED BY <2>1, <2>2, <2>3, KeptStay
<1>5. CASE ListThrows \/ CompleteThrows
  <2>1. /\ sweep'.at = 0 /\ sweep'.queue = sweep.queue
        /\ UNCHANGED <<deletion, kept>>
    BY <1>5, RunThrowsDoes DEF rowsOnly
  <2>2. \A t : Selected(t)' => Selected(t)
    BY <1>1, <2>1, SelectionShrinks
  <2>3. QED BY <2>1, <2>2, KeptStay DEF Pending
<1>6. CASE \/ EraseCustomer \/ EraseTable \/ EraseBalances \/ CopyEntries
           \/ EraseLines \/ EraseEntries \/ EraseAccounts \/ ListObjects
           \/ EraseObjects \/ StepThrows
  <2>1. /\ sweep.at > 0 /\ sweep'.id = sweep.id /\ sweep'.queue = sweep.queue
        /\ UNCHANGED <<deletion, kept>>
    <3>1. CASE EraseCustomer \/ EraseTable \/ ListObjects \/ EraseObjects
      BY <3>1, EraseCustomerDoes, EraseTableDoes, ListObjectsDoes,
         EraseObjectsDoes DEF GoesOn, rowsOnly
    <3>2. CASE EraseBalances \/ CopyEntries \/ EraseLines
      BY <3>2, EraseBalancesDoes, CopyEntriesDoes, EraseLinesDoes
         DEF GoesOn, ledgerOnly
    <3>3. CASE EraseEntries \/ EraseAccounts \/ StepThrows
      BY <3>3, EraseEntriesDoes, EraseAccountsDoes, StepThrowsDoes
         DEF GoesOn, ledgerOnly
    <3>4. QED BY <1>6, <3>1, <3>2, <3>3
  <2>2. \A t : Selected(t)' => Selected(t)
    BY <1>1, <2>1, SelectionShrinks
  <2>3. QED BY <2>1, <2>2, KeptStay DEF Pending
<1>7. QED BY <1>2, <1>3, <1>4, <1>5, <1>6 DEF SweepStep

LEMMA NextKeeps ==
  ASSUME TInv, KInv, [Next]_vars
  PROVE  KInv'
<1>1. CASE UNCHANGED <<deletion, sweep, kept>>
  BY <1>1, SameSelection, KeptStay
<1>2. ASSUME NEW h \in Handlers, BeginRequest(h) \/ Refuse(h) \/ BeginCancel(h)
      PROVE  KInv'
  BY <1>1, <1>2, BeginRequestDoes, RefuseDoes, BeginCancelDoes
     DEF TInv, deletionVars
<1>3. ASSUME NEW r \in Ids, GraceEnds(r)
      PROVE  KInv'
  <2>1. /\ \A i \in Ids : deletion'[i].tenant = deletion[i].tenant
        /\ \A i \in Ids : deletion'[i].status = deletion[i].status
        /\ UNCHANGED <<sweep, kept>>
    BY <1>3 DEF GraceEnds, TInv, TypeOK, DeletionTypeOK
  <2>2. \A t : Pending(t)' = Pending(t)
    BY <2>1 DEF Pending
  <2>3. \A t : Selected(t)' => Selected(t)
    BY <2>1 DEF TInv, SweepOK, Filed, Selected, Erasing
  <2>4. QED BY <2>1, <2>2, <2>3, KeptStay
<1>4. ASSUME NEW t \in Deletable, TenantActs(t)
      PROVE  KInv'
  BY <1>1, <1>4 DEF TenantActs
<1>5. CASE Crash
  <2>1. sweep' = NoSweep /\ UNCHANGED <<deletion, kept>>
    BY <1>5, CrashDoes
  <2>2. \A t : ~Selected(t)'
    BY <2>1 DEF Selected, Erasing, NoSweep
  <2>3. QED BY <2>1, <2>2, KeptStay DEF Pending
<1>6. CASE DeletionNext
  BY <1>2, <1>3, <1>4, <1>6, FilingKeeps, SweepKeeps DEF DeletionNext
<1>7. QED
  BY <1>1, <1>5, <1>6 DEF Next, vars, deletionVars

\* A tenant whose only pending request was cancelled while the sweep had
\* selected none of its requests is not erased, until a new one is filed.
THEOREM CancelledInTimeAreKept == Spec => []CancelledInTimeIsKept
<1>1. Init => KInv
  BY DEF Init, DeletionInit, KInv
<1>2. TInv /\ KInv /\ [Next]_vars => KInv'
  BY NextKeeps
<1>3. KInv => CancelledInTimeIsKept
  BY DEF KInv, Kept, CancelledInTimeIsKept
<1>4. QED BY <1>1, <1>2, <1>3, TypedAndFiled, PTL DEF Spec

(***************************************************************************)
(* What the archive may lose.  While it is between its INSERT and its last *)
(* DELETE, every entry that is not in the archive is a late one.           *)
(***************************************************************************)

LateOK(l) == l.lost <= l.late /\ (l.window => l.lost + l.fresh <= l.late)

\* Between the two statements the ledger's window is open.
ArchiveOK == sweep.at \in {5, 6} => ledger[Target].window

LInv == (\A t \in Tenants : LateOK(ledger[t])) /\ ArchiveOK

LEMMA PostedLate ==
  ASSUME NEW l \in Ledger, NEW c \in Nat, LateOK(l)
  PROVE  LateOK(Posted(l, c))
<1>1. /\ Posted(l, c).fresh = l.fresh + 1
      /\ Posted(l, c).window = l.window
      /\ Posted(l, c).late = IF l.window THEN l.late + 1 ELSE l.late
      /\ Posted(l, c).lost = l.lost
  BY PostedFields
<1>2. l.fresh \in Nat /\ l.late \in Nat /\ l.lost \in Nat
  BY DEF Ledger
<1>3. QED BY <1>1, <1>2 DEF LateOK

LEMMA SameLate ==
  ASSUME NEW l \in Ledger, LateOK(l)
  PROVE  /\ LateOK([l EXCEPT !.window = FALSE])
         /\ LateOK([l EXCEPT !.touched = FALSE])
BY DEF Ledger, LateOK

LEMMA BesideLate ==
  ASSUME TInv, LInv, Beside, KeepsFiled
  PROVE  LInv'
<1>1. sweep.at > 0 => Target' = Target /\ Target \in Tenants
  BY TargetStays, RunHasTarget DEF Beside
<1>2. ledger \in [Tenants -> Ledger] /\ sweep \in SweepType
  BY SweepTyped DEF TInv, TypeOK, BaseTypeOK
<1>3. CASE UNCHANGED ledger
  BY <1>1, <1>2, <1>3 DEF Beside, LInv, ArchiveOK, SweepType
<1>4. ASSUME NEW t \in Tenants, Posts(t)
      PROVE  LInv'
  <2>1. PICK c \in Nat :
          /\ ledger'[t] = Posted(ledger[t], c)
          /\ \A u \in Tenants \ {t} : ledger'[u] = ledger[u]
    BY <1>2, <1>4, PostsEffect
  <2>2. ledger'[t].window = ledger[t].window
    BY <1>2, <2>1, PostedFields
  <2>3. LateOK(ledger'[t])
    BY <1>2, <2>1, PostedLate DEF LInv
  <2>4. \A u \in Tenants : LateOK(ledger'[u])
    BY <2>1, <2>3 DEF LInv
  <2>5. \A u \in Tenants : ledger'[u].window = ledger[u].window
    BY <2>1, <2>2
  <2>6. ArchiveOK'
    BY <1>1, <1>2, <2>5 DEF Beside, LInv, ArchiveOK, SweepType
  <2>7. QED BY <2>4, <2>6 DEF LInv
<1>5. QED BY <1>3, <1>4 DEF Beside

\* A step of a run that makes l of the ledger of its tenant.
LEMMA RewriteLate ==
  ASSUME TInv, LInv, KeepsFiled, sweep.at > 0, NEW l, Rewrites(l), LateOK(l),
         sweep'.id = sweep.id, sweep'.at \in {5, 6} => l.window
  PROVE  LInv'
<1>1. Target' = Target /\ Target \in Tenants
  BY TargetStays, RunHasTarget
<1>2. QED BY <1>1 DEF LInv, ArchiveOK, Rewrites

LEMMA SweepLate ==
  ASSUME TInv, LInv, SweepStep
  PROVE  LInv'
<1>1. KeepsFiled
  BY SweepKeepsFiled
<1>2. ledger \in [Tenants -> Ledger] /\ sweep \in SweepType
  BY SweepTyped DEF TInv, TypeOK, BaseTypeOK
<1> DEFINE l == ledger[Target]
<1>3. sweep.at > 0 => l \in Ledger /\ LateOK(l)
  BY <1>2, RunHasTarget DEF LInv
<1>4. CASE FindExpired \/ ListThrows \/ CompleteThrows \/ Complete
  <2>1. sweep'.at = 0 /\ UNCHANGED ledger
    BY <1>4, FindExpiredDoes, RunThrowsDoes, CompleteDoes DEF baseVars, rowsOnly
  <2>2. QED BY <2>1 DEF LInv, ArchiveOK
<1>5. CASE NextRun
  <2>1. PICK t \in Tenants :
           /\ sweep'.at = 1
           /\ ledger'[t] = [ledger[t] EXCEPT !.touched = FALSE]
           /\ \A u \in Tenants \ {t} : ledger'[u] = ledger[u]
    BY <1>5, NextRunDoes
  <2>2. \A u \in Tenants : LateOK(ledger'[u])
    BY <1>2, <2>1, SameLate DEF LInv
  <2>3. QED BY <2>1, <2>2 DEF LInv, ArchiveOK
<1>6. CASE EraseCustomer \/ EraseTable \/ ListObjects \/ EraseObjects
  <2>1. UNCHANGED ledger /\ sweep'.at \notin {5, 6}
    BY <1>6, EraseCustomerDoes, EraseTableDoes, ListObjectsDoes,
       EraseObjectsDoes DEF GoesOn, rowsOnly
  <2>2. QED BY <2>1 DEF LInv, ArchiveOK
<1>7. CASE EraseBalances
  <2> DEFINE m == [l EXCEPT !.row = FALSE, !.cents = 0]
  <2>1. sweep.at = 3 /\ sweep'.at = 4 /\ sweep'.id = sweep.id /\ Rewrites(m)
    BY <1>7, EraseBalancesDoes DEF GoesOn
  <2>2. LateOK(m)
    <3> HIDE DEF l
    <3>1. QED BY <1>3, <2>1 DEF LateOK, Ledger
  <2> HIDE DEF m
  <2>3. QED BY <1>1, <2>1, <2>2, RewriteLate
<1>8. CASE CopyEntries
  <2> DEFINE m == [l EXCEPT !.copied = @ + l.fresh, !.fresh = 0,
                     !.window = TRUE]
  <2>1. sweep.at = 4
    BY <1>8, CopyEntriesDoes
  <2>2. CASE Rewrites(m) /\ GoesOn(5)
    <3>1. l.copied + l.fresh \in Nat /\ m.window
      BY <1>3, <2>1 DEF Ledger
    <3>2. LateOK(m)
      <4> HIDE DEF l
      <4>1. QED BY <1>3, <2>1, <3>1 DEF LateOK, Ledger
    <3> HIDE DEF m
    <3>3. QED BY <1>1, <2>1, <2>2, <3>1, <3>2, RewriteLate DEF GoesOn
  <2>3. CASE GoesOn(7) /\ UNCHANGED ledger
    BY <2>3 DEF GoesOn, LInv, ArchiveOK
  <2>4. QED BY <1>8, <2>2, <2>3, CopyEntriesDoes
<1>9. CASE EraseLines
  <2> DEFINE m == [l EXCEPT !.lined = FALSE]
  <2>1. sweep.at = 5 /\ sweep'.at = 6 /\ sweep'.id = sweep.id /\ Rewrites(m)
    BY <1>9, EraseLinesDoes DEF GoesOn
  <2>2. LateOK(m) /\ m.window
    <3>1. l.window
      BY <2>1 DEF LInv, ArchiveOK
    <3> HIDE DEF l
    <3>2. QED BY <1>3, <2>1, <3>1 DEF LateOK, Ledger
  <2> HIDE DEF m
  <2>3. QED BY <1>1, <2>1, <2>2, RewriteLate
<1>10. CASE EraseEntries
  <2> DEFINE m == [l EXCEPT !.lost = @ + l.fresh, !.copied = 0, !.fresh = 0,
                     !.window = FALSE]
             n == [l EXCEPT !.window = FALSE]
  <2>1. /\ sweep.at = 6 /\ sweep'.at = 7 /\ sweep'.id = sweep.id
        /\ Rewrites(m) \/ Rewrites(n)
    BY <1>10, EraseEntriesDoes DEF GoesOn
  <2>2. LateOK(m) /\ LateOK(n)
    <3>1. l.window
      BY <2>1 DEF LInv, ArchiveOK
    <3> HIDE DEF l
    <3>2. QED BY <1>3, <2>1, <3>1 DEF LateOK, Ledger
  <2> HIDE DEF m, n
  <2>3. QED BY <1>1, <2>1, <2>2, RewriteLate
<1>11. CASE EraseAccounts
  <2> DEFINE m == [l EXCEPT !.account = FALSE]
  <2>1. /\ sweep.at = 7 /\ sweep'.at = 8 /\ sweep'.id = sweep.id
        /\ Rewrites(m) \/ UNCHANGED ledger
    BY <1>11, EraseAccountsDoes DEF GoesOn
  <2>2. LateOK(m)
    <3> HIDE DEF l
    <3>1. QED BY <1>3, <2>1 DEF LateOK, Ledger
  <2> HIDE DEF m
  <2>3. CASE Rewrites(m)
    BY <1>1, <2>1, <2>2, <2>3, RewriteLate
  <2>4. CASE UNCHANGED ledger
    BY <2>1, <2>4 DEF LInv, ArchiveOK
  <2>5. QED BY <2>1, <2>3, <2>4
<1>12. CASE StepThrows
  <2> DEFINE m == [l EXCEPT !.window = FALSE]
  <2>1. /\ sweep.at > 0 /\ sweep'.at \notin {5, 6} /\ sweep'.id = sweep.id
        /\ Rewrites(m)
    BY <1>12, StepThrowsDoes DEF GoesOn
  <2>2. LateOK(m)
    <3> HIDE DEF l
    <3>1. QED BY <1>3, <2>1 DEF LateOK, Ledger
  <2> HIDE DEF m
  <2>3. QED BY <1>1, <2>1, <2>2, RewriteLate
<1>13. QED
  BY <1>4, <1>5, <1>6, <1>7, <1>8, <1>9, <1>10, <1>11, <1>12 DEF SweepStep

LEMMA NextLate ==
  ASSUME TInv, LInv, [Next]_vars
  PROVE  LInv'
<1>1. CASE Crash
  <2>1. /\ sweep' = NoSweep
        /\ \A t \in Tenants : ledger'[t] = [ledger[t] EXCEPT !.window = FALSE]
    BY <1>1, CrashDoes
  <2>2. \A t \in Tenants : LateOK(ledger'[t])
    BY <2>1, SameLate DEF TInv, TypeOK, BaseTypeOK, LInv
  <2>3. QED BY <2>1, <2>2 DEF LInv, ArchiveOK, NoSweep
<1>2. QED BY <1>1, StepsSplit, BesideLate, SweepLate

\* However postings, failures and crashes fall into an archive, an entry
\* leaves the books without a copy only if it was posted between the
\* archive's INSERT and its last DELETE.
THEOREM OnlyLateOnesAreLost == Spec => []OnlyLateEntriesAreLost
<1>1. Init => LInv
  <2>1. Init => \A t \in Tenants : LateOK(ledger[t])
    BY DEF Init, BaseInit, LateOK
  <2>2. QED BY <2>1 DEF Init, DeletionInit, NoSweep, LInv, ArchiveOK
<1>2. TInv /\ LInv /\ [Next]_vars => LInv'
  BY NextLate
<1>3. LInv => OnlyLateEntriesAreLost
  BY DEF LInv, LateOK, OnlyLateEntriesAreLost
<1>4. QED BY <1>1, <1>2, <1>3, TypedAndFiled, PTL DEF Spec

(***************************************************************************)
(* What a completed request leaves behind.  Two facts hold of every        *)
(* tenant, whatever is under way: the mapping is not lost before the       *)
(* customer, nor the snapshot rows before the objects they name.  The      *)
(* others are about the tenant of the run under way, and grow with it:     *)
(* what its steps so far should have erased is gone, or excused.           *)
(***************************************************************************)

\* Why something of a tenant may stay.
Excused ==
  [t \in Tenants |-> written[t] \cup earlier[t] \cup
                       (IF Erasing(t) THEN errors ELSE {})]

\* A step of the run under way that notes nothing.
LEMMA SameExcuses ==
  ASSUME TInv, KeepsFiled, sweep.at > 0, sweep'.at > 0, sweep'.id = sweep.id,
         UNCHANGED noteVars
  PROVE  Excused' = Excused
BY DEF TInv, SweepOK, Filed, KeepsFiled, Excused, Erasing, noteVars

\* A step of the run under way that notes a failure.
LEMMA NotedExcuses ==
  ASSUME TInv, KeepsFiled, sweep.at > 0, sweep'.at > 0, sweep'.id = sweep.id,
         NEW part \in Parts, Note(part)
  PROVE  /\ Excused'[Target] = Excused[Target] \cup {part}
         /\ \A t \in Tenants \ {Target} : Excused'[t] = Excused[t]
<1>1. Target \in Tenants /\ \A t \in Tenants : Erasing(t) <=> t = Target
  BY RunHasTarget DEF Erasing, Target
<1>2. \A t \in Tenants : Erasing(t)' <=> Erasing(t)
  BY DEF TInv, SweepOK, Filed, KeepsFiled, Erasing
<1>3. errors' = errors \cup {part} /\ UNCHANGED <<written, earlier>>
  BY NoteEffect DEF TInv, TypeOK
<1>4. QED BY <1>1, <1>2, <1>3 DEF Excused

\* Between runs: of what is named elsewhere, no excuse is lost.
LEMMA NamedExcuses ==
  ASSUME TInv, FindExpired \/ NextRun \/ Complete \/ ListThrows \/ CompleteThrows
                 \/ Crash
  PROVE  \A t \in Tenants : Excused[t] \cap Named \subseteq Excused'[t]
<1>1. DeletionTypeOK
  BY DEF TInv, TypeOK
<1>2. CASE FindExpired
  BY <1>2, FindExpiredDoes DEF Excused, Erasing, noteVars
<1>3. CASE NextRun
  <2>1. PICK u \in Tenants :
          /\ sweep.at = 0 /\ UNCHANGED earlier
          /\ written'[u] = written[u] \cap Named
          /\ \A t \in Tenants \ {u} : written'[t] = written[t]
    BY <1>3, NextRunDoes
  <2>2. QED BY <2>1 DEF Excused, Erasing
<1>4. ASSUME sweep.at > 0, ForgetErrors
      PROVE  \A t \in Tenants : Excused[t] \cap Named \subseteq Excused'[t]
  <2>1. Target \in Tenants /\ \A t \in Tenants : Erasing(t) <=> t = Target
    BY <1>4, RunHasTarget DEF Erasing, Target
  <2>2. /\ UNCHANGED written
        /\ earlier'[Target] = earlier[Target] \cup (errors \cap Named)
        /\ \A t \in Tenants \ {Target} : earlier'[t] = earlier[t]
    BY <1>1, <1>4, <2>1, ForgetEffect
  <2>3. QED BY <2>1, <2>2 DEF Excused
<1>5. CASE Complete \/ ListThrows \/ CompleteThrows
  BY <1>4, <1>5, CompleteDoes, RunThrowsDoes
<1>6. CASE Crash
  <2>1. CASE sweep.at > 0
    BY <1>4, <1>6, <2>1, CrashDoes
  <2>2. CASE ~(sweep.at > 0)
    BY <1>6, <2>2, CrashDoes DEF Excused, Erasing, noteVars
  <2>3. QED BY <2>1, <2>2
<1>7. QED BY <1>2, <1>3, <1>5, <1>6

\* kind is gone of tenant t, or its staying is excused.
Gone(t, kind) == kind \in rows[t] => kind \in Excused[t]

NamesOK(t) ==
  /\ "mapping" \notin rows[t] => Gone(t, "customer")
  /\ "snapshots" \notin rows[t] => Gone(t, "objects")

EntriesGone(t) ==
  \/ ledger[t].fresh = 0 /\ ledger[t].copied = 0
  \/ "entries" \in Excused[t]
  \/ ledger[t].touched

AccountsGone(t) ==
  \/ ~ledger[t].account /\ ~ledger[t].row
  \/ "accounts" \in Excused[t]
  \/ ledger[t].touched

RunOK ==
  /\ sweep.at >= 2 => Gone(Target, "customer")
  /\ sweep.at >= 3 => Gone(Target, "records")
  /\ sweep.at >= 7 => EntriesGone(Target)
  /\ sweep.at >= 8 => AccountsGone(Target)
  /\ (sweep.at = 9 /\ ~sweep.found) \/ sweep.at >= 10 => Gone(Target, "objects")
  /\ sweep.at >= 11 => Gone(Target, "snapshots")
  /\ sweep.at >= 12 => Gone(Target, "mapping")

CInv == (\A t \in Tenants : NamesOK(t)) /\ RunOK

LEMMA BesideClears ==
  ASSUME TInv, CInv, Beside, KeepsFiled
  PROVE  CInv'
<1>1. sweep.at > 0 => Target' = Target /\ Target \in Tenants /\ Erasing(Target)
  BY TargetStays, RunHasTarget DEF Beside
<1>2. /\ ledger \in [Tenants -> Ledger] /\ sweep \in SweepType
      /\ DeletionTypeOK
  BY SweepTyped DEF TInv, TypeOK, BaseTypeOK
\* What is written of a tenant in a run is excused.
<1>3. /\ \A t \in Tenants : NamesOK(t)'
      /\ \A t \in Tenants : Excused[t] \subseteq Excused'[t]
      /\ \A t \in Tenants, k \in Kinds :
           Erasing(t) /\ Gone(t, k) => Gone(t, k)'
  <2>0. \A t \in Tenants : Erasing(t)' <=> Erasing(t)
    BY DEF Beside, TInv, SweepOK, Filed, KeepsFiled, Erasing
  <2>1. CASE UNCHANGED <<rows, noteVars>>
    <3>1. Excused' = Excused
      BY <2>0, <2>1 DEF Excused, noteVars
    <3>2. QED BY <2>1, <3>1 DEF CInv, NamesOK, Gone
  <2>2. ASSUME NEW t \in Tenants, NEW ks \in Writings, Write(t, ks)
        PROVE  <1>3!1 /\ <1>3!2 /\ <1>3!3
    <3>1. ks \in SUBSET Kinds
      BY DEF Writings, Kinds
    <3>2. /\ rows'[t] = rows[t] \cup ks
          /\ Excused'[t] = IF Erasing(t) THEN Excused[t] \cup ks ELSE Excused[t]
          /\ \A u \in Tenants \ {t} :
               rows'[u] = rows[u] /\ Excused'[u] = Excused[u]
      BY <1>2, <2>0, <2>2, <3>1, WriteEffect DEF Excused
    <3>3. NamesOK(t)'
      <4>1. /\ "customer" \notin ks
            /\ "objects" \in ks => "snapshots" \in ks
        BY DEF Writings
      <4>2. Excused[t] \subseteq Excused'[t]
        BY <3>2
      <4>3. NamesOK(t)
        BY DEF CInv
      <4>4. QED BY <3>2, <4>1, <4>2, <4>3 DEF NamesOK, Gone
    <3>4. \A u \in Tenants \ {t} : NamesOK(u)'
      BY <3>2 DEF CInv, NamesOK, Gone
    <3>5. \A u \in Tenants : Excused[u] \subseteq Excused'[u]
      BY <3>2
    <3>6. \A u \in Tenants, k \in Kinds : Erasing(u) /\ Gone(u, k) => Gone(u, k)'
      BY <3>2 DEF Gone
    <3>7. QED BY <3>3, <3>4, <3>5, <3>6
  <2>3. QED BY <2>1, <2>2 DEF Beside
<1>4. ASSUME NEW t \in Tenants
      PROVE  /\ EntriesGone(t) => EntriesGone(t)'
             /\ AccountsGone(t) => AccountsGone(t)'
  <2>1. ledger'[t] = ledger[t] \/ ledger'[t].touched
    <3>1. ASSUME NEW u \in Tenants, Posts(u)
          PROVE  ledger'[t] = ledger[t] \/ ledger'[t].touched
      BY <1>2, <3>1, PostsEffect, PostedFields
    <3>2. QED BY <3>1 DEF Beside
  <2>2. QED BY <1>3, <2>1 DEF EntriesGone, AccountsGone
<1>5. CASE sweep.at > 0
  <2>1. /\ EntriesGone(Target) => EntriesGone(Target)'
        /\ AccountsGone(Target) => AccountsGone(Target)'
        /\ \A k \in Kinds : Gone(Target, k) => Gone(Target, k)'
    BY <1>1, <1>3, <1>4, <1>5 DEF EntriesGone, AccountsGone, Gone
  <2>2. RunOK'
    BY <1>1, <1>5, <2>1 DEF CInv, RunOK, Beside, Kinds
  <2>3. QED BY <1>3, <2>2 DEF CInv
<1>6. CASE sweep.at = 0
  BY <1>3, <1>6 DEF CInv, RunOK, Beside
<1>7. QED BY <1>2, <1>5, <1>6 DEF SweepType

\* No run is under way any more, or one has just begun: nothing is due yet.
LEMMA IdleClears ==
  ASSUME CInv, UNCHANGED rows, sweep'.at \in {0, 1},
         \A t \in Tenants : Excused[t] \cap Named \subseteq Excused'[t]
  PROVE  CInv'
BY DEF CInv, NamesOK, Gone, RunOK, Named

\* A step of a run from its step number at to its step number n: what was
\* due stays done, and what becomes due is done.
LEMMA RunClears ==
  ASSUME TInv, CInv, KeepsFiled, sweep.at > 0, NEW n \in 1..12, GoesOn(n),
         \A t \in Tenants \ {Target} :
           rows'[t] = rows[t] /\ Excused'[t] = Excused[t],
         rows'[Target] \subseteq rows[Target],
         Excused[Target] \subseteq Excused'[Target],
         NamesOK(Target)',
         EntriesGone(Target) => EntriesGone(Target)',
         AccountsGone(Target) => AccountsGone(Target)',
         sweep.at < 2 /\ n >= 2 => Gone(Target, "customer")',
         sweep.at < 3 /\ n >= 3 => Gone(Target, "records")',
         sweep.at < 7 /\ n >= 7 => EntriesGone(Target)',
         sweep.at < 8 /\ n >= 8 => AccountsGone(Target)',
         n = 9 /\ ~sweep'.found => Gone(Target, "objects")',
         sweep.at < 10 /\ n >= 10 => Gone(Target, "objects")',
         sweep.at < 11 /\ n >= 11 => Gone(Target, "snapshots")',
         sweep.at < 12 /\ n >= 12 => Gone(Target, "mapping")'
  PROVE  CInv'
<1>1. Target' = Target /\ Target \in Tenants
  BY TargetStays, RunHasTarget DEF GoesOn
<1>2. \A k : Gone(Target, k) => Gone(Target, k)'
  BY <1>1 DEF Gone
<1>3. \A t \in Tenants : NamesOK(t)'
  BY <1>1 DEF CInv, NamesOK, Gone
<1>4. sweep.at \in 0..12 /\ sweep'.at = n
  BY SweepTyped DEF TInv, TypeOK, SweepType, GoesOn
<1>5. RunOK'
  BY <1>1, <1>2, <1>4 DEF CInv, RunOK
<1>6. QED BY <1>3, <1>5 DEF CInv

\* A step that erases rows: customer, records, objects, snapshots, mapping.
LEMMA RowsClear ==
  ASSUME TInv, CInv,
         EraseCustomer \/ EraseTable \/ EraseObjects \/ ListObjects
  PROVE  CInv'
<1>1. KeepsFiled
  BY SweepKeepsFiled DEF SweepStep
<1>2. sweep.at > 0 /\ sweep'.id = sweep.id => Target' = Target
  BY <1>1, TargetStays
<1>3. sweep.at > 0 => NamesOK(Target)
  BY RunHasTarget DEF CInv
<1>3a. /\ sweep.at > 0 /\ sweep'.at > 0 /\ sweep'.id = sweep.id
      /\ UNCHANGED noteVars
      => Excused' = Excused
  BY <1>1, SameExcuses
<1>4. CASE EraseCustomer
  <2>1. /\ sweep.at = 1 /\ GoesOn(2)
        /\ \A t \in Tenants \ {Target} : rows'[t] = rows[t]
        /\ \/ rows'[Target] = rows[Target] \ {"customer"}
           \/ rows' = rows /\ "mapping" \notin rows[Target]
        /\ UNCHANGED <<ledger, noteVars>>
    BY <1>4, EraseCustomerDoes DEF rowsOnly
  <2>2. Target' = Target /\ NamesOK(Target) /\ Excused' = Excused
    BY <1>2, <1>3, <1>3a, <2>1 DEF GoesOn
  <2>3. Gone(Target, "customer")' /\ NamesOK(Target)'
    BY <2>1, <2>2 DEF Gone, NamesOK
  <2>4. /\ EntriesGone(Target) => EntriesGone(Target)'
        /\ AccountsGone(Target) => AccountsGone(Target)'
    BY <2>1, <2>2 DEF EntriesGone, AccountsGone
  <2>5. rows'[Target] \subseteq rows[Target]
    BY <2>1
  <2>6. QED BY <1>1, <2>1, <2>2, <2>3, <2>4, <2>5, RunClears
<1>5. CASE EraseTable
  <2>1. /\ \/ sweep.at = 2 /\ Step = "records"
           \/ sweep.at = 10 /\ Step = "snapshots"
           \/ sweep.at = 11 /\ Step = "mapping"
        /\ rows'[Target] = rows[Target] \ {Step}
        /\ \A t \in Tenants \ {Target} : rows'[t] = rows[t]
        /\ GoesOn(sweep.at + 1)
        /\ UNCHANGED <<ledger, noteVars>>
    BY <1>5, EraseTableDoes DEF rowsOnly
  <2>2. Target' = Target /\ NamesOK(Target) /\ Excused' = Excused
    BY <1>2, <1>3, <1>3a, <2>1 DEF GoesOn
  <2>3. /\ sweep.at = 2 => Gone(Target, "records")'
        /\ sweep.at = 10 => Gone(Target, "snapshots")'
        /\ sweep.at = 11 => Gone(Target, "mapping")'
    BY <2>1, <2>2 DEF Gone
  <2>4. NamesOK(Target)'
    BY <2>1, <2>2 DEF CInv, RunOK, Gone, NamesOK
  <2>5. /\ EntriesGone(Target) => EntriesGone(Target)'
        /\ AccountsGone(Target) => AccountsGone(Target)'
    BY <2>1, <2>2 DEF EntriesGone, AccountsGone
  <2>6. rows'[Target] \subseteq rows[Target]
    BY <2>1
  <2>7. CASE sweep.at = 2
    BY <1>1, <2>1, <2>2, <2>3, <2>4, <2>5, <2>6, <2>7, RunClears
  <2>8. CASE sweep.at = 10
    BY <1>1, <2>1, <2>2, <2>3, <2>4, <2>5, <2>6, <2>8, RunClears
  <2>9. CASE sweep.at = 11
    BY <1>1, <2>1, <2>2, <2>3, <2>4, <2>5, <2>6, <2>9, RunClears
  <2>10. QED BY <2>1, <2>7, <2>8, <2>9
<1>6. CASE ListObjects
  <2>1. /\ sweep.at = 8 /\ GoesOn(9)
        /\ sweep'.found <=> "snapshots" \in rows[Target]
        /\ UNCHANGED <<ledger, rows, noteVars>>
    BY <1>6, ListObjectsDoes DEF rowsOnly
  <2>2. Target' = Target /\ NamesOK(Target) /\ Excused' = Excused
    BY <1>2, <1>3, <1>3a, <2>1 DEF GoesOn
  <2>3. NamesOK(Target)' /\ (~sweep'.found => Gone(Target, "objects")')
    BY <2>1, <2>2 DEF Gone, NamesOK
  <2>4. /\ EntriesGone(Target) => EntriesGone(Target)'
        /\ AccountsGone(Target) => AccountsGone(Target)'
    BY <2>1, <2>2 DEF EntriesGone, AccountsGone
  <2>5. QED BY <1>1, <2>1, <2>2, <2>3, <2>4, RunClears
<1>7. CASE EraseObjects
  <2>1. /\ sweep.at = 9 /\ GoesOn(10)
        /\ \A t \in Tenants \ {Target} : rows'[t] = rows[t]
        /\ \/ rows'[Target] = rows[Target] \ {"objects"}
           \/ rows' = rows /\ ~sweep.found
        /\ UNCHANGED <<ledger, noteVars>>
    BY <1>7, EraseObjectsDoes DEF rowsOnly
  <2>2. Target' = Target /\ NamesOK(Target) /\ Excused' = Excused
    BY <1>2, <1>3, <1>3a, <2>1 DEF GoesOn
  <2>3. Gone(Target, "objects")' /\ NamesOK(Target)'
    BY <2>1, <2>2 DEF CInv, RunOK, Gone, NamesOK
  <2>4. /\ EntriesGone(Target) => EntriesGone(Target)'
        /\ AccountsGone(Target) => AccountsGone(Target)'
    BY <2>1, <2>2 DEF EntriesGone, AccountsGone
  <2>5. rows'[Target] \subseteq rows[Target]
    BY <2>1
  <2>6. QED BY <1>1, <2>1, <2>2, <2>3, <2>4, <2>5, RunClears
<1>8. QED BY <1>4, <1>5, <1>6, <1>7

\* A step that works on the ledger of its tenant, and erases no rows.
LEMMA LedgerClears ==
  ASSUME TInv, CInv,
         \/ EraseBalances \/ CopyEntries \/ EraseLines \/ EraseEntries
         \/ EraseAccounts
  PROVE  CInv'
<1>1. KeepsFiled
  BY SweepKeepsFiled DEF SweepStep
<1>2. sweep.at > 0 /\ sweep'.id = sweep.id => Target' = Target
  BY <1>1, TargetStays
<1>3. sweep.at > 0 => NamesOK(Target) /\ Target \in Tenants
  BY RunHasTarget DEF CInv
<1>4. ledger \in [Tenants -> Ledger] /\ DeletionTypeOK
  BY DEF TInv, TypeOK, BaseTypeOK
<1> DEFINE l == ledger[Target]
<1>5. sweep.at > 0 => l \in Ledger
  BY <1>3, <1>4
\* Rows stay, and notes are only added: the names stay in order.
<1>6. ASSUME sweep.at > 0, sweep'.at > 0, sweep'.id = sweep.id, UNCHANGED rows,
             UNCHANGED noteVars \/ \E part \in Parts : Note(part)
      PROVE  /\ UNCHANGED noteVars => Excused' = Excused
             /\ \A part \in Parts : Note(part) => part \in Excused'[Target]
             /\ \A t \in Tenants \ {Target} :
                  rows'[t] = rows[t] /\ Excused'[t] = Excused[t]
             /\ rows'[Target] \subseteq rows[Target]
             /\ Excused[Target] \subseteq Excused'[Target]
             /\ NamesOK(Target)'
  <2>1. UNCHANGED noteVars => Excused' = Excused
    BY <1>1, <1>6, SameExcuses
  <2>2. \A part \in Parts :
          Note(part) =>
            /\ Excused'[Target] = Excused[Target] \cup {part}
            /\ \A t \in Tenants \ {Target} : Excused'[t] = Excused[t]
    BY <1>1, <1>6, NotedExcuses
  <2>3. /\ Excused[Target] \subseteq Excused'[Target]
        /\ \A t \in Tenants \ {Target} : Excused'[t] = Excused[t]
    BY <1>6, <2>1, <2>2
  <2>4. QED BY <1>2, <1>3, <1>6, <2>1, <2>2, <2>3 DEF NamesOK, Gone
<1>7. CASE EraseBalances
  <2>1. /\ sweep.at = 3 /\ GoesOn(4)
        /\ UNCHANGED <<rows, noteVars>>
    BY <1>7, EraseBalancesDoes DEF ledgerOnly
  <2> DEFINE m == [l EXCEPT !.row = FALSE, !.cents = 0]
  <2>2. Rewrites(m)
    BY <1>7, EraseBalancesDoes
  <2>3. /\ m.fresh = l.fresh /\ m.copied = l.copied /\ m.touched = l.touched
        /\ m.account = l.account /\ ~m.row
    BY <1>5, <2>1 DEF Ledger
  <2> HIDE DEF m
  <2>4. /\ EntriesGone(Target) => EntriesGone(Target)'
        /\ AccountsGone(Target) => AccountsGone(Target)'
    BY <1>2, <1>6, <2>1, <2>2, <2>3 DEF EntriesGone, AccountsGone, Rewrites, GoesOn
  <2>5. QED BY <1>1, <1>6, <2>1, <2>4, RunClears DEF GoesOn
<1>8. CASE CopyEntries
  <2>1. sweep.at = 4 /\ UNCHANGED rows
    BY <1>8, CopyEntriesDoes DEF ledgerOnly
  <2> DEFINE m == [l EXCEPT !.copied = @ + l.fresh, !.fresh = 0,
                     !.window = TRUE]
  <2>2. CASE GoesOn(5) /\ UNCHANGED noteVars /\ Rewrites(m)
    <3>1. /\ m.fresh = 0 /\ m.copied = l.copied + l.fresh
          /\ m.touched = l.touched /\ m.account = l.account /\ m.row = l.row
      BY <1>5, <2>1 DEF Ledger
    <3>2. l.fresh = 0 /\ l.copied = 0 => l.copied + l.fresh = 0
      OBVIOUS
    <3> HIDE DEF m
    <3>3. /\ EntriesGone(Target) => EntriesGone(Target)'
          /\ AccountsGone(Target) => AccountsGone(Target)'
      BY <1>2, <1>6, <2>1, <2>2, <3>1, <3>2
         DEF EntriesGone, AccountsGone, Rewrites, GoesOn
    <3>4. QED BY <1>1, <1>6, <2>1, <2>2, <3>3, RunClears DEF GoesOn
  <2>3. CASE GoesOn(7) /\ Note("entries") /\ UNCHANGED ledger
    <3>1. "entries" \in Excused'[Target]
      BY <1>6, <2>1, <2>3, PlanParts DEF GoesOn
    <3>2. /\ EntriesGone(Target)'
          /\ AccountsGone(Target) => AccountsGone(Target)'
      BY <1>2, <1>6, <2>1, <2>3, <3>1, PlanParts
         DEF EntriesGone, AccountsGone, GoesOn
    <3>3. QED BY <1>1, <1>6, <2>1, <2>3, <3>2, PlanParts, RunClears DEF GoesOn
  <2>4. QED BY <1>8, <2>2, <2>3, CopyEntriesDoes
<1>9. CASE EraseLines
  <2>1. /\ sweep.at = 5 /\ GoesOn(6)
        /\ UNCHANGED <<rows, noteVars>>
    BY <1>9, EraseLinesDoes DEF ledgerOnly
  <2>2. Rewrites([l EXCEPT !.lined = FALSE])
    BY <1>9, EraseLinesDoes
  <2>3. /\ EntriesGone(Target) => EntriesGone(Target)'
        /\ AccountsGone(Target) => AccountsGone(Target)'
    BY <1>2, <1>5, <1>6, <2>1, <2>2 DEF EntriesGone, AccountsGone, Rewrites, GoesOn,
       Ledger
  <2>4. QED BY <1>1, <1>6, <2>1, <2>3, RunClears DEF GoesOn
<1>10. CASE EraseEntries
  <2>1. sweep.at = 6 /\ GoesOn(7) /\ UNCHANGED rows
    BY <1>10, EraseEntriesDoes DEF ledgerOnly
  <2> DEFINE m == [l EXCEPT !.lost = @ + l.fresh, !.copied = 0, !.fresh = 0,
                     !.window = FALSE]
  <2>2. CASE Rewrites(m) /\ UNCHANGED noteVars
    <3>1. /\ m.fresh = 0 /\ m.copied = 0
          /\ m.touched = l.touched /\ m.account = l.account /\ m.row = l.row
      BY <1>5, <2>1 DEF Ledger
    <3> HIDE DEF m
    <3>2. /\ EntriesGone(Target)'
          /\ AccountsGone(Target) => AccountsGone(Target)'
      BY <1>2, <1>6, <2>1, <2>2, <3>1 DEF EntriesGone, AccountsGone, Rewrites, GoesOn
    <3>3. QED BY <1>1, <1>6, <2>1, <2>2, <3>2, RunClears DEF GoesOn
  <2>3. CASE Note("entries") /\ Rewrites([l EXCEPT !.window = FALSE])
    <3>1. "entries" \in Excused'[Target] /\ Excused[Target] \subseteq Excused'[Target]
      BY <1>6, <2>1, <2>3, PlanParts DEF GoesOn
    <3>2. /\ EntriesGone(Target)'
          /\ AccountsGone(Target) => AccountsGone(Target)'
      BY <1>2, <1>5, <2>1, <2>3, <3>1
         DEF EntriesGone, AccountsGone, Rewrites, GoesOn, Ledger
    <3>3. QED BY <1>1, <1>6, <2>1, <2>3, <3>2, PlanParts, RunClears DEF GoesOn
  <2>4. QED BY <1>10, <2>2, <2>3, EraseEntriesDoes
<1>11. CASE EraseAccounts
  <2>1. sweep.at = 7 /\ GoesOn(8) /\ UNCHANGED rows
    BY <1>11, EraseAccountsDoes DEF ledgerOnly
  <2>2. CASE /\ Rewrites([l EXCEPT !.account = FALSE]) /\ ~l.row
             /\ UNCHANGED noteVars
    <3>1. /\ AccountsGone(Target)'
          /\ EntriesGone(Target) => EntriesGone(Target)'
      BY <1>2, <1>5, <1>6, <2>1, <2>2 DEF EntriesGone, AccountsGone, Rewrites, GoesOn,
         Ledger
    <3>2. QED BY <1>1, <1>6, <2>1, <2>2, <3>1, RunClears DEF GoesOn
  <2>3. CASE Note("accounts") /\ UNCHANGED ledger
    <3>1. /\ "accounts" \in Excused'[Target]
          /\ Excused[Target] \subseteq Excused'[Target]
      BY <1>6, <2>1, <2>3, PlanParts DEF GoesOn
    <3>2. /\ AccountsGone(Target)'
          /\ EntriesGone(Target) => EntriesGone(Target)'
      BY <1>2, <2>1, <2>3, <3>1 DEF EntriesGone, AccountsGone, GoesOn
    <3>3. QED BY <1>1, <1>6, <2>1, <2>3, <3>2, PlanParts, RunClears DEF GoesOn
  <2>4. QED BY <1>11, <2>2, <2>3, EraseAccountsDoes
<1>12. QED BY <1>7, <1>8, <1>9, <1>10, <1>11

\* A statement that throws is noted: what it should have erased is excused.
LEMMA ThrowClears ==
  ASSUME TInv, CInv, StepThrows
  PROVE  CInv'
<1>1. KeepsFiled
  BY SweepKeepsFiled DEF SweepStep
<1>2. /\ sweep.at \in (1..7) \cup (9..11)
      /\ \/ sweep.at \in 4..6 /\ Note("entries") /\ GoesOn(7)
         \/ /\ sweep.at \notin 4..6 /\ Note(Step) /\ Step \in Parts
            /\ GoesOn(sweep.at + 1)
      /\ Rewrites([ledger[Target] EXCEPT !.window = FALSE])
      /\ UNCHANGED rows
  BY StepThrowsDoes DEF ledgerOnly
<1>3. /\ Target' = Target /\ Target \in Tenants /\ NamesOK(Target)
      /\ ledger[Target] \in Ledger /\ DeletionTypeOK
  BY <1>1, <1>2, TargetStays, RunHasTarget
     DEF GoesOn, CInv, TInv, TypeOK, BaseTypeOK
<1>4. PICK part \in Parts :
        /\ Excused'[Target] = Excused[Target] \cup {part}
        /\ \A t \in Tenants \ {Target} : Excused'[t] = Excused[t]
        /\ part = IF sweep.at \in 4..6 THEN "entries" ELSE Step
  <2>1. PICK part \in Parts :
           /\ Note(part)
           /\ part = IF sweep.at \in 4..6 THEN "entries" ELSE Step
    BY <1>2, PlanParts
  <2>2. sweep.at > 0 /\ sweep'.at > 0 /\ sweep'.id = sweep.id
    BY <1>2 DEF GoesOn
  <2>3. /\ Excused'[Target] = Excused[Target] \cup {part}
        /\ \A t \in Tenants \ {Target} : Excused'[t] = Excused[t]
    BY <1>1, <2>1, <2>2, NotedExcuses
  <2>4. QED BY <2>1, <2>3
<1>5. NamesOK(Target)' /\ rows'[Target] \subseteq rows[Target]
  BY <1>2, <1>3, <1>4 DEF NamesOK, Gone
<1>6. /\ EntriesGone(Target) => EntriesGone(Target)'
      /\ AccountsGone(Target) => AccountsGone(Target)'
  BY <1>2, <1>3, <1>4 DEF EntriesGone, AccountsGone, Rewrites, Ledger
<1>7. /\ part = "entries" => EntriesGone(Target)'
      /\ part = "accounts" => AccountsGone(Target)'
      /\ part \in Kinds => Gone(Target, part)'
  BY <1>3, <1>4 DEF EntriesGone, AccountsGone, Gone
<1>8. CASE sweep.at \in 4..6
  BY <1>1, <1>2, <1>4, <1>5, <1>6, <1>7, <1>8, RunClears
<1>9. CASE sweep.at \in (1..3) \cup {7} \cup (9..11)
  <2>1. /\ GoesOn(sweep.at + 1) /\ part = Step
        /\ sweep.at \in 0..Len(Plan)
    BY <1>2, <1>4, <1>9, PlanSteps
  <2>2. /\ sweep.at = 1 => Gone(Target, "customer")'
        /\ sweep.at = 2 => Gone(Target, "records")'
        /\ sweep.at = 7 => AccountsGone(Target)'
        /\ sweep.at = 9 => Gone(Target, "objects")'
        /\ sweep.at = 10 => Gone(Target, "snapshots")'
        /\ sweep.at = 11 => Gone(Target, "mapping")'
    BY <1>3, <1>4, <1>7, <2>1, StepNumbers DEF Gone
  <2>3. QED BY <1>1, <1>2, <1>4, <1>5, <1>6, <1>9, <2>1, <2>2, RunClears
<1>10. QED BY <1>2, <1>8, <1>9

LEMMA NextClears ==
  ASSUME TInv, CInv, [Next]_vars
  PROVE  CInv'
<1>1. CASE Beside
  BY <1>1, StepsSplit, BesideClears
<1>2. CASE Crash
  <2>1. sweep'.at = 0 /\ UNCHANGED rows
    BY <1>2, CrashDoes DEF NoSweep
  <2>2. QED BY <1>2, <2>1, NamedExcuses, IdleClears
<1>3. CASE FindExpired \/ ListThrows \/ CompleteThrows \/ Complete
  <2>1. sweep'.at = 0 /\ UNCHANGED rows
    BY <1>3, FindExpiredDoes, RunThrowsDoes, CompleteDoes
  <2>2. QED BY <1>3, <2>1, NamedExcuses, IdleClears
<1>4. CASE NextRun
  <2>1. sweep'.at = 1 /\ UNCHANGED rows
    BY <1>4, NextRunDoes
  <2>2. QED BY <1>4, <2>1, NamedExcuses, IdleClears
<1>5. CASE SweepStep
  BY <1>3, <1>4, <1>5, RowsClear, LedgerClears, ThrowClears DEF SweepStep
<1>6. QED BY <1>1, <1>2, <1>5, StepsSplit

\* Only the last step of a run completes a request, that of the run.
LEMMA OnlyCompleteCompletes ==
  ASSUME TInv, [Next]_vars, NEW r \in Ids,
         deletion[r].status # "completed", deletion'[r].status = "completed"
  PROVE  Complete /\ r = sweep.id
<1>1. ~Beside
  BY DEF Beside, CompletesNone
<1>2. ~Crash
  BY CrashDoes
<1>3. SweepStep
  BY <1>1, <1>2, StepsSplit
<1>4. Complete
  BY <1>3, SweepKeepsFiled
<1>5. QED BY <1>4, CompleteDoes DEF TInv, TypeOK, DeletionTypeOK

\* When it does, all that is left of its tenant is excused.
LEMMA LeftIsExcused ==
  ASSUME TInv, CInv, sweep.at = 12
  PROVE  Left(Target) \subseteq errors \cup written[Target] \cup earlier[Target]
           \cup (IF ledger[Target].touched THEN {"accounts", "entries"} ELSE {})
<1>1. /\ Target \in Tenants /\ rows[Target] \subseteq Kinds
      /\ ledger[Target] \in Ledger
  BY RunHasTarget DEF TInv, TypeOK, BaseTypeOK, DeletionTypeOK
<1>2. /\ \A k \in Kinds : Gone(Target, k)
      /\ EntriesGone(Target) /\ AccountsGone(Target)
  BY DEF CInv, RunOK, Kinds
<1>3. rows[Target] \subseteq Excused[Target]
  BY <1>1, <1>2 DEF Gone
<1>4. ledger[Target].fresh + ledger[Target].copied > 0 =>
        ~(ledger[Target].fresh = 0 /\ ledger[Target].copied = 0)
  BY <1>1 DEF Ledger
<1>5. Excused[Target] \subseteq errors \cup written[Target] \cup earlier[Target]
  BY <1>1 DEF Excused
<1>6. QED BY <1>2, <1>3, <1>4, <1>5 DEF Left, EntriesGone, AccountsGone

\* Whatever throws, whatever was cut short before, and whoever goes on working
\* or posting meanwhile, what is left of a tenant when its request is completed
\* is what this run failed to erase, what was written while it went on, or was
\* posted since it began; of earlier runs, only the customer and the objects
\* they failed to erase, or that came while they went on, whose names are gone.
THEOREM OnlyFailuresStay == Spec => OnlyFailuresAreLeft
<1>1. Init => CInv
  BY DEF Init, DeletionInit, NoSweep, CInv, NamesOK, RunOK, Kinds
<1>2. TInv /\ CInv /\ [Next]_vars => CInv'
  BY NextClears
<1> DEFINE OnlyFailures ==
      \A r \in Ids :
        (deletion[r].status # "completed" /\ deletion'[r].status = "completed") =>
          LET t == deletion[r].tenant
          IN Left(t) \subseteq errors \cup written[t] \cup earlier[t] \cup
               (IF ledger[t].touched THEN {"accounts", "entries"} ELSE {})
<1>3. ASSUME TInv, CInv, [Next]_vars PROVE OnlyFailures
  <2>1. ASSUME NEW r \in Ids, deletion[r].status # "completed",
               deletion'[r].status = "completed", NEW t, t = deletion[r].tenant
        PROVE  Left(t) \subseteq errors \cup written[t] \cup earlier[t] \cup
                 (IF ledger[t].touched THEN {"accounts", "entries"} ELSE {})
    <3>1. sweep.at = 12 /\ t = Target
      BY <1>3, <2>1, OnlyCompleteCompletes, CompleteDoes DEF Target
    <3>2. QED BY <1>3, <3>1, LeftIsExcused
  <2>2. QED BY <2>1
<1>4. TInv /\ CInv /\ [Next]_vars => [OnlyFailures]_<<baseVars, deletionVars>>
  BY <1>3
<1> HIDE DEF OnlyFailures
<1>5. Spec => [][OnlyFailures]_<<baseVars, deletionVars>>
  BY <1>1, <1>2, <1>4, TypedAndFiled, PTL DEF Spec
<1>6. QED BY <1>5 DEF OnlyFailuresAreLeft, OnlyFailures
=============================================================================
