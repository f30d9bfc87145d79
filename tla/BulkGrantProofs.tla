--------------------------- MODULE BulkGrantProofs ---------------------------
(* That bulk grants keep their promise (UndoableGrant), however the steps   *)
(* of a grant, of its undos, of spending, of deletion and of crashes        *)
(* interleave and fail, for every instance of AccountLedger.                *)
EXTENDS AccountLedgerProofs

(***************************************************************************)
(* The inductive invariant.                                                *)
(***************************************************************************)

Granting(h) == req[h].at \in {"credit", "record"}
Undo(h) == req[h].at \in {"debit", "mark"}

\* A grant under way is the only one of its id, has stored no record yet and
\* remembers whom it has credited.
GrantLocal(h) ==
  LET l == req[h] IN
  Granting(h) =>
    /\ l.id \in issued /\ ~grant[l.id].stored
    /\ given[l.id] = l.done
    /\ l.done \cap l.todo = {}
    /\ \A k \in Handlers : Granting(k) /\ req[k].id = l.id => k = h

\* An undo works on a stored record, and has debited everybody it has passed
\* unless one of its debits has failed.
UndoLocal(h) ==
  LET l == req[h] IN
  Undo(h) =>
    /\ grant[l.id].stored
    /\ l.todo \subseteq grant[l.id].tenants
    /\ l.at = "mark" => l.todo = {}
    /\ ~l.failed =>
         \A t \in grant[l.id].tenants \ l.todo : taken[l.id][t] > 0

\* A record names those who were credited; nobody is debited before there is
\* one, or who was not credited, and all of them are when it counts as undone.
RowOK(g) ==
  /\ g \notin issued => given[g] = {} /\ ~grant[g].stored
  /\ grant[g].stored => grant[g].tenants = given[g]
  /\ grant[g].undone => grant[g].stored /\ \A t \in given[g] : taken[g][t] > 0
  /\ \A t \in Tenants : taken[g][t] > 0 => grant[g].stored /\ t \in given[g]

\* Of a grant that is not unclean there is one undo at a time and, once it was
\* begun, no other that debits again what it has debited.
CleanOK(g) ==
  g \notin unclean =>
    /\ \A h, k \in Handlers :
         Undo(h) /\ req[h].id = g /\ Undo(k) /\ req[k].id = g => h = k
    /\ \A t \in Tenants : taken[g][t] <= 1
    /\ \A h \in Handlers :
         Undo(h) /\ req[h].id = g =>
           ~grant[g].undone /\ \A t \in req[h].todo : taken[g][t] = 0
    /\ ~grant[g].undone /\ (\A h \in Handlers : ~(Undo(h) /\ req[h].id = g)) =>
         \A t \in Tenants : taken[g][t] = 0

GInv ==
  /\ \A h \in Handlers : GrantLocal(h) /\ UndoLocal(h)
  /\ \A g \in Ids : RowOK(g) /\ CleanOK(g)

(***************************************************************************)
(* Steps that are not about grants.                                        *)
(***************************************************************************)

\* No request begins, continues or ends a grant or an undo.
Apart ==
  \A h \in Handlers :
    \/ req'[h] = req[h]
    \/ ~Granting(h) /\ ~Undo(h) /\ ~Granting(h)' /\ ~Undo(h)'

LEMMA ApartKeeps ==
  ASSUME GInv, Apart, UNCHANGED grantVars
  PROVE  GInv'
<1>1. \A h \in Handlers : GrantLocal(h)'
  BY DEF GInv, Apart, grantVars, GrantLocal, Granting
<1>2. \A h \in Handlers : UndoLocal(h)'
  BY DEF GInv, Apart, grantVars, UndoLocal, Undo
<1>3. \A g \in Ids : RowOK(g)'
  BY DEF GInv, grantVars, RowOK
<1>4. \A h \in Handlers : (Undo(h)' <=> Undo(h))
        /\ (Undo(h) => req'[h] = req[h])
  BY DEF Apart, Undo
<1>5. ASSUME NEW g \in Ids PROVE CleanOK(g)'
  <2>1. CleanOK(g)
    BY DEF GInv
  <2>2. QED BY <1>4, <2>1 DEF grantVars, CleanOK
<1>6. QED BY <1>1, <1>2, <1>3, <1>5 DEF GInv

LEMMA DeletionIsApart ==
  ASSUME TInv, DeletionNext
  PROVE  Apart
<1>1. ASSUME NEW h \in Handlers, BeginRequest(h) \/ BeginCancel(h) PROVE Apart
  <2>1. Moves(h, req'[h]) /\ req[h] = Idle /\ req'[h].at \in {"create", "cancel"}
    BY <1>1, BeginRequestDoes, BeginCancelDoes DEF TInv
  <2>2. QED BY <2>1, IdleType DEF Apart, Moves, Granting, Undo
<1>2. ASSUME NEW h \in Handlers, Refuse(h) \/ Create(h) \/ Cancel(h) PROVE Apart
  <2>1. Moves(h, Idle) /\ req[h].at \in {"create", "cancel"}
    BY <1>2, RefuseDoes, CreateDoes, CancelDoes DEF TInv
  <2>2. QED BY <2>1, IdleType DEF Apart, Moves, Granting, Undo
<1>3. CASE \/ \E r \in Ids : GraceEnds(r)
           \/ \E t \in Deletable : TenantActs(t)
           \/ SweepStep
  <2>1. req' = req
    BY <1>3 DEF GraceEnds, TenantActs, SweepStep, FindExpired, NextRun,
       EraseCustomer, EraseTable, Erase, EraseBalances, CopyEntries, EraseLines,
       EraseEntries, EraseAccounts, ListObjects, ListThrows, EraseObjects,
       StepThrows, Complete, CompleteThrows, baseVars, ledgerOnly, rowsOnly
  <2>2. QED BY <2>1 DEF Apart
<1>4. QED BY <1>1, <1>2, <1>3 DEF DeletionNext

LEMMA SpendIsApart ==
  ASSUME NEW t \in Tenants, Spend(t)
  PROVE  Apart
BY DEF Spend, Apart

(***************************************************************************)
(* The steps of a grant.                                                   *)
(***************************************************************************)

LEMMA BeginGrantKeeps ==
  ASSUME TInv, GInv, NEW h \in Handlers, BeginGrant(h)
  PROVE  GInv'
<1>1. PICK g \in Ids \ issued, ts \in SUBSET Tenants :
        /\ req[h] = Idle
        /\ Moves(h, req'[h])
        /\ req'[h].at = "credit" /\ req'[h].id = g
        /\ req'[h].todo = ts /\ req'[h].done = {}
        /\ issued' = issued \cup {g}
        /\ UNCHANGED <<grant, given, taken, unclean>>
  BY BeginGrantDoes DEF TInv
<1>2. /\ \A k \in Handlers \ {h} : req'[k] = req[k]
      /\ ~Undo(h) /\ ~Granting(h) /\ ~Undo(h)' /\ Granting(h)'
  BY <1>1, IdleType DEF Moves, Undo, Granting
<1>3. \A k \in Handlers \ {h} :
        (Undo(k)' <=> Undo(k)) /\ (Granting(k)' <=> Granting(k))
  BY <1>2 DEF Undo, Granting
<1>4. \A k \in Handlers : Granting(k) => req[k].id # g
  BY <1>1 DEF GInv, GrantLocal
<1>5. given[g] = {} /\ ~grant[g].stored
  BY <1>1 DEF GInv, RowOK
<1>6. GrantLocal(h)'
  BY <1>1, <1>2, <1>3, <1>4, <1>5 DEF GrantLocal
<1>7. \A k \in Handlers \ {h} : GrantLocal(k)' /\ UndoLocal(k)'
  BY <1>1, <1>2, <1>3, <1>4 DEF GInv, GrantLocal, UndoLocal
<1>8. UndoLocal(h)'
  BY <1>2 DEF UndoLocal
<1>9. \A i \in Ids : RowOK(i)'
  BY <1>1 DEF GInv, RowOK
<1>10. ASSUME NEW i \in Ids PROVE CleanOK(i)'
  <2>1. CleanOK(i)
    BY DEF GInv
  <2>2. QED BY <1>1, <1>2, <1>3, <2>1 DEF CleanOK
<1>11. QED BY <1>6, <1>7, <1>8, <1>9, <1>10 DEF GInv

LEMMA CreditNextKeeps ==
  ASSUME TInv, GInv, NEW h \in Handlers, CreditNext(h)
  PROVE  GInv'
<1> DEFINE g == req[h].id
<1>1. PICK t \in req[h].todo :
        /\ req[h].at = "credit"
        /\ Moves(h, req'[h])
        /\ req'[h].at \in {"credit", "record"} /\ req'[h].id = req[h].id
        /\ req'[h].todo = req[h].todo \ {t}
        /\ \/ /\ given' = [given EXCEPT ![req[h].id] = @ \cup {t}]
              /\ req'[h].done = req[h].done \cup {t}
           \/ req'[h].done = req[h].done /\ UNCHANGED given
        /\ UNCHANGED <<issued, grant, taken, unclean>>
  BY CreditNextDoes DEF TInv
<1>2. /\ \A k \in Handlers \ {h} : req'[k] = req[k]
      /\ ~Undo(h) /\ Granting(h) /\ ~Undo(h)' /\ Granting(h)'
  BY <1>1 DEF Moves, Undo, Granting
<1>3. \A k \in Handlers \ {h} :
        (Undo(k)' <=> Undo(k)) /\ (Granting(k)' <=> Granting(k))
  BY <1>2 DEF Undo, Granting
<1>4. /\ g \in issued /\ g \in Ids /\ ~grant[g].stored
      /\ given[g] = req[h].done /\ req[h].done \cap req[h].todo = {}
      /\ \A k \in Handlers \ {h} : Granting(k) => req[k].id # g
  BY <1>1, <1>2 DEF GInv, GrantLocal, TInv, LocalOK
<1>5. /\ given'[g] = req'[h].done
      /\ \A i \in Ids \ {g} : given'[i] = given[i]
  BY <1>1, <1>4 DEF TInv, TypeOK, GrantTypeOK
<1>6. GrantLocal(h)'
  BY <1>1, <1>2, <1>3, <1>4, <1>5 DEF GrantLocal
<1>7. ASSUME NEW k \in Handlers \ {h} PROVE GrantLocal(k)' /\ UndoLocal(k)'
  <2>1. GrantLocal(k)'
    <3>1. Granting(k) => req[k].id \in Ids \ {g}
      BY <1>4 DEF TInv, LocalOK, Granting
    <3>2. QED
      BY <1>1, <1>2, <1>3, <1>4, <1>5, <3>1 DEF GInv, GrantLocal
  <2>2. UndoLocal(k)'
    BY <1>1, <1>2, <1>3 DEF GInv, UndoLocal
  <2>3. QED BY <2>1, <2>2
<1>8. UndoLocal(h)'
  BY <1>2 DEF UndoLocal
<1>9. ASSUME NEW i \in Ids PROVE RowOK(i)'
  <2>1. RowOK(i)
    BY DEF GInv
  <2>2. CASE i = g
    BY <1>1, <1>4, <2>1, <2>2 DEF RowOK
  <2>3. CASE i # g
    BY <1>1, <1>5, <2>1, <2>3 DEF RowOK
  <2>4. QED BY <2>2, <2>3
<1>10. ASSUME NEW i \in Ids PROVE CleanOK(i)'
  <2>1. CleanOK(i)
    BY DEF GInv
  <2>2. QED BY <1>1, <1>2, <1>3, <2>1 DEF CleanOK
<1>11. QED BY <1>6, <1>7, <1>8, <1>9, <1>10 DEF GInv

LEMMA RecordGrantKeeps ==
  ASSUME TInv, GInv, NEW h \in Handlers, RecordGrant(h)
  PROVE  GInv'
<1> DEFINE g == req[h].id
<1>1. /\ req[h].at = "record" /\ Moves(h, Idle)
      /\ \/ grant' = [grant EXCEPT ![g] = Recorded(req[h])]
         \/ UNCHANGED grant
      /\ UNCHANGED <<issued, given, taken, unclean>>
  BY RecordGrantDoes DEF TInv
<1>2. /\ \A k \in Handlers \ {h} : req'[k] = req[k]
      /\ ~Undo(h) /\ Granting(h) /\ ~Undo(h)' /\ ~Granting(h)'
  BY <1>1, IdleType DEF Moves, Undo, Granting
<1>3. \A k \in Handlers \ {h} :
        (Undo(k)' <=> Undo(k)) /\ (Granting(k)' <=> Granting(k))
  BY <1>2 DEF Undo, Granting
<1>4. /\ g \in issued /\ g \in Ids /\ ~grant[g].stored
      /\ given[g] = req[h].done
      /\ \A k \in Handlers \ {h} : Granting(k) => req[k].id # g
  BY <1>1, <1>2 DEF GInv, GrantLocal, TInv, LocalOK
<1>5. /\ \A i \in Ids \ {g} : grant'[i] = grant[i]
      /\ \/ grant'[g] = grant[g]
         \/ /\ grant'[g].stored /\ ~grant'[g].undone
            /\ grant'[g].tenants = given[g]
  BY <1>1, <1>4 DEF TInv, TypeOK, GrantTypeOK, Recorded
<1>6. GrantLocal(h)' /\ UndoLocal(h)'
  BY <1>2 DEF GrantLocal, UndoLocal
<1>7. ASSUME NEW k \in Handlers \ {h} PROVE GrantLocal(k)' /\ UndoLocal(k)'
  <2>1. Granting(k) \/ Undo(k) => req[k].id \in Ids \ {g}
    BY <1>4 DEF TInv, LocalOK, Granting, Undo, GInv, UndoLocal
  <2>2. GrantLocal(k)'
    BY <1>1, <1>2, <1>3, <1>5, <2>1 DEF GInv, GrantLocal
  <2>3. UndoLocal(k)'
    BY <1>1, <1>2, <1>3, <1>5, <2>1 DEF GInv, UndoLocal
  <2>4. QED BY <2>2, <2>3
<1>8. ASSUME NEW i \in Ids PROVE RowOK(i)'
  <2>1. RowOK(i)
    BY DEF GInv
  <2>2. CASE i = g
    BY <1>1, <1>4, <1>5, <2>1, <2>2 DEF RowOK
  <2>3. CASE i # g
    BY <1>1, <1>5, <2>1, <2>3 DEF RowOK
  <2>4. QED BY <2>2, <2>3
<1>9. ASSUME NEW i \in Ids PROVE CleanOK(i)'
  <2>1. CleanOK(i) /\ RowOK(i)
    BY DEF GInv
  <2>2. \A k \in Handlers : (Undo(k)' <=> Undo(k)) /\ (Undo(k) => req'[k] = req[k])
    BY <1>2, <1>3
  <2>3. CASE i # g
    BY <1>1, <1>5, <2>1, <2>2, <2>3 DEF CleanOK
  <2>4. CASE i = g
    <3>1. \A t \in Tenants : taken[g][t] = 0
      BY <1>4, <2>1, <2>4 DEF RowOK, TInv, TypeOK, GrantTypeOK
    <3>2. \A k \in Handlers : ~(Undo(k) /\ req[k].id = g)
      BY <1>4 DEF GInv, UndoLocal
    <3>3. QED BY <1>1, <2>2, <2>4, <3>1, <3>2 DEF CleanOK
  <2>5. QED BY <2>3, <2>4
<1>10. QED BY <1>6, <1>7, <1>8, <1>9 DEF GInv

LEMMA BeginUndoKeeps ==
  ASSUME TInv, GInv, NEW h \in Handlers, BeginUndo(h)
  PROVE  GInv'
<1>1. PICK g \in Ids :
        /\ grant[g].stored /\ ~grant[g].undone
        /\ req[h] = Idle
        /\ Moves(h, req'[h])
        /\ req'[h].at \in {"debit", "mark"} /\ req'[h].id = g
        /\ req'[h].at = "mark" => grant[g].tenants = {}
        /\ req'[h].todo = grant[g].tenants /\ ~req'[h].failed
        /\ unclean' = IF Undoing(g) THEN unclean \cup {g} ELSE unclean
        /\ UNCHANGED <<issued, grant, given, taken>>
  BY BeginUndoDoes DEF TInv
<1>2. /\ \A k \in Handlers \ {h} : req'[k] = req[k]
      /\ ~Undo(h) /\ ~Granting(h) /\ Undo(h)' /\ ~Granting(h)'
  BY <1>1, IdleType DEF Moves, Undo, Granting
<1>3. \A k \in Handlers \ {h} :
        (Undo(k)' <=> Undo(k)) /\ (Granting(k)' <=> Granting(k))
  BY <1>2 DEF Undo, Granting
<1>4. GrantLocal(h)' /\ UndoLocal(h)'
  BY <1>1, <1>2 DEF GrantLocal, UndoLocal
<1>5. \A k \in Handlers \ {h} : GrantLocal(k)' /\ UndoLocal(k)'
  BY <1>1, <1>2, <1>3 DEF GInv, GrantLocal, UndoLocal
<1>6. \A i \in Ids : RowOK(i)'
  BY <1>1 DEF GInv, RowOK
<1>7. ASSUME NEW i \in Ids PROVE CleanOK(i)'
  <2>1. CleanOK(i)
    BY DEF GInv
  <2>2. CASE i # g
    BY <1>1, <1>2, <1>3, <2>1, <2>2 DEF CleanOK
  <2>3. CASE i = g
    <3>1. SUFFICES ASSUME g \notin unclean'
                   PROVE  CleanOK(g)'
      BY <2>3 DEF CleanOK
    <3>2. ~Undoing(g) /\ g \notin unclean
      BY <1>1, <3>1
    <3>3. \A k \in Handlers : ~(Undo(k) /\ req[k].id = g)
      BY <3>2 DEF Undoing, Undo
    <3>4. \A t \in Tenants : taken[g][t] = 0
      BY <1>1, <2>1, <2>3, <3>2, <3>3 DEF CleanOK
    <3>5. \A t \in Tenants : taken'[g][t] = 0
      BY <1>1, <3>4
    <3>6. grant[g].tenants \subseteq Tenants
      BY DEF TInv, TypeOK, GrantTypeOK, GrantRow
    <3>7. QED BY <1>1, <1>2, <1>3, <3>3, <3>5, <3>6 DEF CleanOK
  <2>4. QED BY <2>2, <2>3
<1>8. QED BY <1>4, <1>5, <1>6, <1>7 DEF GInv

LEMMA DebitNextKeeps ==
  ASSUME TInv, GInv, NEW h \in Handlers, DebitNext(h)
  PROVE  GInv'
<1> DEFINE g == req[h].id
<1>1. PICK t \in req[h].todo :
        /\ req[h].at = "debit"
        /\ Moves(h, req'[h])
        /\ req'[h].at \in {"debit", "mark"} /\ req'[h].id = req[h].id
        /\ req'[h].todo = req[h].todo \ {t}
        /\ req'[h].at = "mark" => req[h].todo = {t}
        /\ \/ /\ taken' = [taken EXCEPT ![req[h].id][t] = @ + 1]
              /\ req'[h].failed = req[h].failed
           \/ req'[h].failed /\ UNCHANGED taken
        /\ UNCHANGED <<issued, grant, given, unclean>>
  BY DebitNextDoes DEF TInv
<1>2. /\ \A k \in Handlers \ {h} : req'[k] = req[k]
      /\ Undo(h) /\ ~Granting(h) /\ Undo(h)' /\ ~Granting(h)'
  BY <1>1 DEF Moves, Undo, Granting
<1>3. \A k \in Handlers \ {h} :
        (Undo(k)' <=> Undo(k)) /\ (Granting(k)' <=> Granting(k))
  BY <1>2 DEF Undo, Granting
<1>4. /\ g \in Ids /\ t \in Tenants /\ grant[g].stored
      /\ req[h].todo \subseteq grant[g].tenants /\ grant[g].tenants = given[g]
      /\ taken \in [Ids -> [Tenants -> Nat]] /\ given[g] \subseteq Tenants
  BY <1>1, <1>2 DEF GInv, UndoLocal, RowOK, TInv, LocalOK, TypeOK, BaseTypeOK,
     Local, GrantTypeOK
<1>5. /\ taken' \in [Ids -> [Tenants -> Nat]]
      /\ taken'[g][t] = taken[g][t] + 1 \/ taken' = taken
      /\ \A u \in Tenants \ {t} : taken'[g][u] = taken[g][u]
      /\ \A j \in Ids \ {g} : taken'[j] = taken[j]
      /\ ~req'[h].failed =>
           ~req[h].failed /\ taken'[g][t] = taken[g][t] + 1
  BY <1>1, <1>4, TakenEffect
<1>6. \A i \in Ids, u \in Tenants : taken'[i][u] >= taken[i][u]
  <2>1. \A i \in Ids, u \in Tenants : taken[i][u] \in Nat
    BY <1>4
  <2>2. QED BY <1>5, <2>1
<1>7. GrantLocal(h)' /\ UndoLocal(h)'
  <2>1. GrantLocal(h)'
    BY <1>2 DEF GrantLocal
  <2>2. req'[h].todo \subseteq grant[g].tenants
        /\ (req'[h].at = "mark" => req'[h].todo = {})
    BY <1>1, <1>4
  <2>3. ASSUME ~req'[h].failed, NEW u \in grant[g].tenants \ req'[h].todo
        PROVE  taken'[g][u] > 0
    <3>1. u \in Tenants /\ ~req[h].failed /\ taken'[g][t] = taken[g][t] + 1
      BY <1>4, <1>5, <2>3 DEF TInv, TypeOK, GrantTypeOK
    <3>2. CASE u = t
      BY <1>4, <3>1, <3>2
    <3>3. CASE u # t
      <4>1. taken[g][u] > 0
        BY <1>1, <1>2, <2>3, <3>1, <3>3 DEF GInv, UndoLocal
      <4>2. QED BY <1>5, <3>1, <3>3, <4>1
    <3>4. QED BY <3>2, <3>3
  <2>4. UndoLocal(h)'
    BY <1>1, <1>4, <2>2, <2>3 DEF UndoLocal
  <2>5. QED BY <2>1, <2>4
<1>8. ASSUME NEW k \in Handlers \ {h} PROVE GrantLocal(k)' /\ UndoLocal(k)'
  <2>1. GrantLocal(k)'
    BY <1>1, <1>2, <1>3 DEF GInv, GrantLocal
  <2>2. UndoLocal(k)'
    <3>1. ASSUME Undo(k), ~req[k].failed,
                 NEW u \in grant[req[k].id].tenants \ req[k].todo
          PROVE  taken'[req[k].id][u] > 0
      <4>1. req[k].id \in Ids
        BY <3>1 DEF TInv, LocalOK, Undo
      <4>2. u \in Tenants /\ taken[req[k].id][u] > 0
        BY <3>1, <4>1
           DEF GInv, UndoLocal, TInv, TypeOK, GrantTypeOK, GrantRow
      <4>3. taken[req[k].id][u] \in Nat /\ taken'[req[k].id][u] \in Nat
        BY <1>4, <1>5, <4>1, <4>2
      <4>4. QED BY <1>6, <4>1, <4>2, <4>3
    <3>2. QED BY <1>1, <1>2, <1>3, <3>1 DEF GInv, UndoLocal
  <2>3. QED BY <2>1, <2>2
<1>9. ASSUME NEW i \in Ids PROVE RowOK(i)'
  <2>1. RowOK(i)
    BY DEF GInv
  <2>2. given[i] \subseteq Tenants
    BY DEF TInv, TypeOK, GrantTypeOK
  <2>3. \A u \in Tenants : taken[i][u] \in Nat /\ taken'[i][u] \in Nat
    BY <1>4, <1>5
  <2>4. CASE i = g
    <3>1. \A u \in Tenants : taken'[i][u] > 0 => grant[g].stored /\ u \in given[g]
      BY <1>1, <1>4, <1>5, <2>1, <2>4 DEF RowOK
    <3>2. QED BY <1>1, <1>4, <1>6, <2>1, <2>2, <2>3, <2>4, <3>1 DEF RowOK
  <2>5. CASE i # g
    BY <1>1, <1>5, <2>1, <2>5 DEF RowOK
  <2>6. QED BY <2>4, <2>5
<1>10. ASSUME NEW i \in Ids PROVE CleanOK(i)'
  <2>1. CleanOK(i)
    BY DEF GInv
  <2>2. \A k \in Handlers : (Undo(k)' <=> Undo(k)) /\ (Undo(k) => req'[k].id = req[k].id)
    BY <1>1, <1>2, <1>3
  <2>3. CASE i # g
    <3>1. \A k \in Handlers : Undo(k) /\ req[k].id = i => req'[k] = req[k]
      BY <1>2, <2>3
    <3>2. QED BY <1>1, <1>5, <2>1, <2>2, <2>3, <3>1 DEF CleanOK
  <2>4. CASE i = g
    <3>1. SUFFICES ASSUME g \notin unclean
                   PROVE  CleanOK(g)'
      BY <1>1, <2>4 DEF CleanOK
    <3>2. /\ \A k \in Handlers : Undo(k) /\ req[k].id = g => k = h
          /\ ~grant[g].undone
          /\ taken[g][t] = 0
          /\ \A u \in req[h].todo : taken[g][u] = 0
          /\ \A u \in Tenants : taken[g][u] <= 1
      BY <1>2, <2>1, <2>4, <3>1 DEF CleanOK
    <3>3. \A u \in Tenants : taken'[g][u] <= 1
      BY <1>5, <3>2
    <3>4. \A u \in req'[h].todo : taken'[g][u] = 0
      <4>1. \A u \in req'[h].todo : u \in Tenants \ {t} /\ u \in req[h].todo
        BY <1>1, <1>4 DEF TInv, TypeOK, GrantTypeOK, GrantRow
      <4>2. QED BY <1>5, <3>2, <4>1
    <3>5. QED
      BY <1>1, <1>2, <2>2, <2>4, <3>2, <3>3, <3>4 DEF CleanOK
  <2>5. QED BY <2>3, <2>4
<1>11. QED BY <1>7, <1>8, <1>9, <1>10 DEF GInv

LEMMA MarkUndoneKeeps ==
  ASSUME TInv, GInv, NEW h \in Handlers, MarkUndone(h)
  PROVE  GInv'
<1> DEFINE g == req[h].id
<1>1. /\ req[h].at = "mark" /\ Moves(h, Idle)
      /\ \/ /\ ~req[h].failed
            /\ grant' = [grant EXCEPT ![g] = Marked(g)]
            /\ UNCHANGED unclean
         \/ unclean' = unclean \cup {g} /\ UNCHANGED grant
      /\ UNCHANGED <<issued, given, taken>>
  BY MarkUndoneDoes DEF TInv
<1>2. /\ \A k \in Handlers \ {h} : req'[k] = req[k]
      /\ Undo(h) /\ ~Granting(h) /\ ~Undo(h)' /\ ~Granting(h)'
  BY <1>1, IdleType DEF Moves, Undo, Granting
<1>3. \A k \in Handlers \ {h} :
        (Undo(k)' <=> Undo(k)) /\ (Granting(k)' <=> Granting(k))
  BY <1>2 DEF Undo, Granting
<1>4. /\ g \in Ids /\ grant[g].stored /\ grant[g].tenants = given[g]
      /\ ~req[h].failed => \A t \in given[g] : taken[g][t] > 0
  BY <1>1, <1>2 DEF GInv, UndoLocal, RowOK, TInv, LocalOK
<1>5. /\ \A i \in Ids \ {g} : grant'[i] = grant[i]
      /\ \A i \in Ids : grant'[i].stored = grant[i].stored
                        /\ grant'[i].tenants = grant[i].tenants
      /\ grant'[g] = grant[g] \/ (grant'[g].undone /\ ~req[h].failed)
  BY <1>1, <1>4, MarkedRow DEF TInv, TypeOK, GrantTypeOK
<1>6. GrantLocal(h)' /\ UndoLocal(h)'
  BY <1>2 DEF GrantLocal, UndoLocal
<1>7. ASSUME NEW k \in Handlers \ {h} PROVE GrantLocal(k)' /\ UndoLocal(k)'
  <2>1. Granting(k) \/ Undo(k) => req[k].id \in Ids
    BY DEF TInv, LocalOK, Granting, Undo
  <2>2. GrantLocal(k)'
    BY <1>1, <1>2, <1>3, <1>5, <2>1 DEF GInv, GrantLocal
  <2>3. UndoLocal(k)'
    BY <1>1, <1>2, <1>3, <1>5, <2>1 DEF GInv, UndoLocal
  <2>4. QED BY <2>2, <2>3
<1>8. ASSUME NEW i \in Ids PROVE RowOK(i)'
  <2>1. RowOK(i)
    BY DEF GInv
  <2>2. CASE i = g
    BY <1>1, <1>4, <1>5, <2>1, <2>2 DEF RowOK
  <2>3. CASE i # g
    BY <1>1, <1>5, <2>1, <2>3 DEF RowOK
  <2>4. QED BY <2>2, <2>3
<1>9. ASSUME NEW i \in Ids PROVE CleanOK(i)'
  <2>1. CleanOK(i)
    BY DEF GInv
  <2>2. CASE i # g
    BY <1>1, <1>2, <1>3, <1>5, <2>1, <2>2 DEF CleanOK
  <2>3. CASE i = g /\ g \notin unclean'
    <3>1. g \notin unclean /\ grant'[g].undone
      BY <1>1, <1>4, <2>3, MarkedRow DEF TInv, TypeOK, GrantTypeOK
    <3>2. \A k \in Handlers : ~(Undo(k)' /\ req'[k].id = g)
      BY <1>2, <1>3, <2>1, <2>3, <3>1 DEF CleanOK
    <3>3. QED BY <1>1, <2>1, <2>3, <3>1, <3>2 DEF CleanOK
  <2>4. CASE i = g /\ g \in unclean'
    BY <2>4 DEF CleanOK
  <2>5. QED BY <2>2, <2>3, <2>4
<1>10. QED BY <1>6, <1>7, <1>8, <1>9 DEF GInv

\* A crash leaves the undos it cuts off unclean.
LEMMA CrashKeeps ==
  ASSUME TInv, GInv, Crash
  PROVE  GInv'
<1>1. /\ \A h \in Handlers : req'[h] = Idle
      /\ unclean' = unclean \cup {g \in Ids : Undoing(g)}
      /\ UNCHANGED <<issued, grant, given, taken>>
  BY CrashDoes
<1>2. \A h \in Handlers : ~Undo(h)' /\ ~Granting(h)'
  BY <1>1, IdleType DEF Undo, Granting
<1>3. \A h \in Handlers : GrantLocal(h)' /\ UndoLocal(h)'
  BY <1>2 DEF GrantLocal, UndoLocal
<1>4. \A i \in Ids : RowOK(i)'
  BY <1>1 DEF GInv, RowOK
<1>5. ASSUME NEW i \in Ids PROVE CleanOK(i)'
  <2>1. CleanOK(i)
    BY DEF GInv
  <2>2. i \notin unclean' =>
          i \notin unclean /\ \A h \in Handlers : ~(Undo(h) /\ req[h].id = i)
    BY <1>1 DEF Undoing, Undo
  <2>3. QED BY <1>1, <1>2, <2>1, <2>2 DEF CleanOK
<1>6. QED BY <1>3, <1>4, <1>5 DEF GInv

LEMMA InitGrants ==
  ASSUME Init
  PROVE  GInv
<1>1. \A h \in Handlers : ~Undo(h) /\ ~Granting(h)
  BY IdleType DEF Init, BaseInit, Undo, Granting
<1>2. \A g \in Ids : /\ grant[g] = NoGrant /\ given[g] = {}
                     /\ \A t \in Tenants : taken[g][t] = 0
  BY DEF Init, GrantInit
<1>3. \A g \in Ids : RowOK(g) /\ CleanOK(g)
  BY <1>1, <1>2 DEF RowOK, CleanOK, NoGrant
<1>4. QED BY <1>1, <1>3 DEF GInv, GrantLocal, UndoLocal

LEMMA NextKeepsGrants ==
  ASSUME TInv, GInv, [Next]_vars
  PROVE  GInv'
<1>1. CASE GrantNext
  BY <1>1, BeginGrantKeeps, CreditNextKeeps, RecordGrantKeeps, BeginUndoKeeps,
     DebitNextKeeps, MarkUndoneKeeps, SpendIsApart, ApartKeeps DEF GrantNext
<1>2. CASE DeletionNext /\ UNCHANGED grantVars
  BY <1>2, DeletionIsApart, ApartKeeps
<1>3. CASE Crash
  BY <1>3, CrashKeeps
<1>4. CASE UNCHANGED vars
  <2>1. Apart /\ UNCHANGED grantVars
    BY <1>4 DEF vars, baseVars, grantVars, Apart
  <2>2. QED BY <2>1, ApartKeeps
<1>5. QED BY <1>1, <1>2, <1>3, <1>4 DEF Next

\* The inductive invariant holds: records name whom they credited, and an undo
\* under way has debited whom it has passed.
THEOREM GrantsAreSound == Spec => []GInv
<1>1. Init => GInv
  BY InitGrants
<1>2. TInv /\ GInv /\ [Next]_vars => GInv'
  BY NextKeepsGrants
<1>3. QED BY <1>1, <1>2, TypedAndFiled, PTL DEF Spec

\* Nobody is debited twice for one grant unless undos of it overlapped, or one
\* failed halfway or was cut off.
THEOREM UndosDebitOnce == Spec => []UndoneOnce
<1>1. TInv /\ GInv => UndoneOnce
  BY DEF GInv, CleanOK, UndoneOnce, TInv, TypeOK, GrantTypeOK
<1>2. QED BY <1>1, GrantsAreSound, TypedAndFiled, PTL

(***************************************************************************)
(* The refinement.  What UndoableGrant sees of the state:                  *)
(***************************************************************************)

St == [g \in Ids |-> Stage(g)]
Tk == [g \in Ids |-> {t \in Tenants : taken[g][t] > 0}]

BeingGranted(g) == \E h \in Handlers : Granting(h) /\ req[h].id = g

\* The conditions of Stage exclude each other.
LEMMA StageIs ==
  ASSUME GInv, NEW g \in Ids
  PROVE  /\ Stage(g) = "undone" <=> grant[g].undone
         /\ Stage(g) = "recorded" <=> grant[g].stored /\ ~grant[g].undone
         /\ Stage(g) = "granting" <=> BeingGranted(g)
         /\ Stage(g) = "new" <=> g \notin issued
         /\ Stage(g) = "abandoned" <=>
              g \in issued /\ ~grant[g].stored /\ ~BeingGranted(g)
         /\ Stage(g) \in {"undone", "recorded", "granting", "new", "abandoned"}
<1>1. RowOK(g) /\ (BeingGranted(g) => g \in issued /\ ~grant[g].stored)
  BY DEF GInv, GrantLocal, BeingGranted
<1>2. BeingGranted(g) <=>
        \E h \in Handlers : req[h].at \in {"credit", "record"} /\ req[h].id = g
  BY DEF BeingGranted, Granting
<1>3. QED BY <1>1, <1>2 DEF Stage, RowOK

LEMMA StageIsNext ==
  ASSUME GInv', NEW g \in Ids
  PROVE  /\ Stage(g)' = "undone" <=> grant'[g].undone
         /\ Stage(g)' = "recorded" <=> grant'[g].stored /\ ~grant'[g].undone
         /\ Stage(g)' = "granting" <=> BeingGranted(g)'
         /\ Stage(g)' = "new" <=> g \notin issued'
         /\ Stage(g)' = "abandoned" <=>
              g \in issued' /\ ~grant'[g].stored /\ ~BeingGranted(g)'
         /\ Stage(g)' \in {"undone", "recorded", "granting", "new", "abandoned"}
<1>1. RowOK(g)' /\ (BeingGranted(g)' => g \in issued' /\ ~grant'[g].stored)
  BY DEF GInv, GrantLocal, BeingGranted
<1>2. BeingGranted(g)' <=>
        \E h \in Handlers : req'[h].at \in {"credit", "record"} /\ req'[h].id = g
  BY DEF BeingGranted, Granting
<1>3. QED BY <1>1, <1>2 DEF Stage, RowOK

LEMMA StageStays ==
  ASSUME GInv, GInv', NEW g \in Ids,
         grant'[g].stored <=> grant[g].stored,
         grant'[g].undone <=> grant[g].undone,
         g \in issued' <=> g \in issued,
         BeingGranted(g)' <=> BeingGranted(g)
  PROVE  Stage(g)' = Stage(g)
BY StageIs, StageIsNext

LEMMA InitPromised == Init => Promise!Init
<1> SUFFICES ASSUME Init PROVE Promise!Init
  OBVIOUS
<1>1. GInv
  BY InitGrants
<1>2. issued = {} /\ given = [g \in Ids |-> {}]
      /\ \A g \in Ids, t \in Tenants : taken[g][t] = 0
  BY DEF Init, GrantInit
<1>3. \A g \in Ids : Stage(g) = "new"
  BY <1>1, <1>2, StageIs
<1>4. [g \in Ids |-> Stage(g)] = [g \in Ids |-> "new"]
  BY <1>3
<1>5. [g \in Ids |-> {t \in Tenants : taken[g][t] > 0}] = [g \in Ids |-> {}]
  BY <1>2
<1>6. QED BY <1>2, <1>4, <1>5 DEF Promise!Init

\* A step that is not about a grant looks like none.
LEMMA ApartIsStutter ==
  ASSUME GInv, GInv', Apart, UNCHANGED grantVars
  PROVE  St' = St /\ given' = given /\ Tk' = Tk
<1>1. UNCHANGED <<issued, grant, given, taken>>
  BY DEF grantVars
<1>2. \A g \in Ids : BeingGranted(g)' <=> BeingGranted(g)
  BY DEF Apart, BeingGranted, Granting
<1>3. \A g \in Ids : Stage(g)' = Stage(g)
  BY <1>1, <1>2, StageStays
<1>4. QED BY <1>1, <1>3 DEF St, Tk

LEMMA BeginGrantIsStart ==
  ASSUME TInv, GInv, GInv', NEW h \in Handlers, BeginGrant(h)
  PROVE  \E g \in Ids : /\ St[g] = "new" /\ St' = [St EXCEPT ![g] = "granting"]
                        /\ given' = given /\ Tk' = Tk
<1>1. PICK g \in Ids \ issued, ts \in SUBSET Tenants :
        /\ req[h] = Idle
        /\ Moves(h, req'[h])
        /\ req'[h].at = "credit" /\ req'[h].id = g
        /\ issued' = issued \cup {g}
        /\ UNCHANGED <<grant, given, taken>>
  BY BeginGrantDoes DEF TInv
<1>2. ~Granting(h) /\ \A k \in Handlers \ {h} : req'[k] = req[k]
  BY <1>1, IdleType DEF Moves, Granting
<1>3. BeingGranted(g)' /\ Granting(h)'
  BY <1>1 DEF BeingGranted, Granting
<1>4. ASSUME NEW i \in Ids, i # g PROVE Stage(i)' = Stage(i)
  <2>1. BeingGranted(i)' <=> BeingGranted(i)
    BY <1>1, <1>2, <1>4 DEF BeingGranted, Granting
  <2>2. QED BY <1>1, <1>4, <2>1, StageStays
<1>5. Stage(g) = "new" /\ Stage(g)' = "granting"
  BY <1>1, <1>3, StageIs, StageIsNext
<1>6. QED BY <1>1, <1>4, <1>5 DEF St, Tk

LEMMA CreditIsGive ==
  ASSUME TInv, GInv, GInv', NEW h \in Handlers, CreditNext(h)
  PROVE  /\ St' = St /\ Tk' = Tk
         /\ \/ \E g \in Ids, t \in Tenants :
                 /\ St[g] = "granting" /\ t \notin given[g]
                 /\ given' = [given EXCEPT ![g] = @ \cup {t}]
            \/ given' = given
<1> DEFINE g == req[h].id
<1>1. PICK t \in req[h].todo :
        /\ req[h].at = "credit"
        /\ Moves(h, req'[h])
        /\ req'[h].at \in {"credit", "record"} /\ req'[h].id = g
        /\ \/ given' = [given EXCEPT ![g] = @ \cup {t}]
           \/ UNCHANGED given
        /\ UNCHANGED <<issued, grant, taken>>
  BY CreditNextDoes DEF TInv
<1>2. /\ \A k \in Handlers \ {h} : req'[k] = req[k]
      /\ Granting(h) /\ Granting(h)'
  BY <1>1 DEF Moves, Granting
<1>3. g \in Ids /\ t \in Tenants /\ t \notin given[g]
  BY <1>1, <1>2
     DEF TInv, LocalOK, TypeOK, BaseTypeOK, Local, GInv, GrantLocal
<1>4. \A i \in Ids : BeingGranted(i)' <=> BeingGranted(i)
  BY <1>1, <1>2 DEF BeingGranted, Granting
<1>5. \A i \in Ids : Stage(i)' = Stage(i)
  BY <1>1, <1>4, StageStays
<1>6. Stage(g) = "granting"
  BY <1>2, <1>3, StageIs DEF BeingGranted
<1>7. QED BY <1>1, <1>3, <1>5, <1>6 DEF St, Tk

LEMMA RecordIsRecord ==
  ASSUME TInv, GInv, GInv', NEW h \in Handlers, RecordGrant(h)
  PROVE  /\ given' = given /\ Tk' = Tk
         /\ \E g \in Ids :
              /\ St[g] = "granting"
              /\ \/ St' = [St EXCEPT ![g] = "recorded"]
                 \/ St' = [i \in Ids |-> IF i \in {g} THEN "abandoned" ELSE St[i]]
<1>0. PICK g \in Ids : g = req[h].id /\ req[h].at = "record"
  BY RecordGrantDoes DEF TInv, LocalOK
<1>1. /\ req[h].at = "record" /\ Moves(h, Idle)
      /\ \/ grant' = [grant EXCEPT ![g] = Recorded(req[h])]
         \/ UNCHANGED grant
      /\ UNCHANGED <<issued, given, taken>>
  BY <1>0, RecordGrantDoes DEF TInv
<1>2. /\ \A k \in Handlers \ {h} : req'[k] = req[k]
      /\ Granting(h) /\ ~Granting(h)'
  BY <1>1, IdleType DEF Moves, Granting
<1>3. /\ g \in Ids /\ g \in issued /\ ~grant[g].stored
      /\ \A k \in Handlers \ {h} : Granting(k) => req[k].id # g
  BY <1>0, <1>1, <1>2 DEF GInv, GrantLocal
<1>4. ~BeingGranted(g)'
  BY <1>0, <1>2, <1>3 DEF BeingGranted, Granting
<1>5. ASSUME NEW i \in Ids, i # g PROVE Stage(i)' = Stage(i)
  <2>1. BeingGranted(i)' <=> BeingGranted(i)
    BY <1>0, <1>2, <1>5 DEF BeingGranted, Granting
  <2>2. grant'[i] = grant[i]
    BY <1>1, <1>5 DEF TInv, TypeOK, GrantTypeOK
  <2>3. QED BY <1>1, <2>1, <2>2, StageStays
<1>6. Stage(g) = "granting"
  BY <1>0, <1>2, <1>3, StageIs DEF BeingGranted
<1>7. Stage(g)' = "recorded" \/ Stage(g)' = "abandoned"
  <2>1. CASE grant' = grant
    BY <1>1, <1>3, <1>4, <2>1, StageIsNext
  <2>2. CASE grant' = [grant EXCEPT ![g] = Recorded(req[h])]
    <3>1. grant'[g].stored /\ ~grant'[g].undone
      BY <1>3, <2>2 DEF TInv, TypeOK, GrantTypeOK, Recorded
    <3>2. QED BY <1>3, <3>1, StageIsNext
  <2>3. QED BY <1>1, <2>1, <2>2
<1>8. \/ St' = [St EXCEPT ![g] = "recorded"]
      \/ St' = [i \in Ids |-> IF i \in {g} THEN "abandoned" ELSE St[i]]
  BY <1>3, <1>5, <1>7 DEF St
<1>9. St[g] = "granting" /\ given' = given /\ Tk' = Tk
  BY <1>1, <1>3, <1>6 DEF St, Tk
<1>10. QED BY <1>3, <1>8, <1>9

LEMMA BeginUndoIsStutter ==
  ASSUME TInv, GInv, GInv', NEW h \in Handlers, BeginUndo(h)
  PROVE  St' = St /\ given' = given /\ Tk' = Tk
<1>1. /\ req[h] = Idle /\ Moves(h, req'[h])
      /\ req'[h].at \in {"debit", "mark"}
      /\ UNCHANGED <<issued, grant, given, taken>>
  BY BeginUndoDoes DEF TInv
<1>2. \A g \in Ids : BeingGranted(g)' <=> BeingGranted(g)
  BY <1>1, IdleType DEF Moves, BeingGranted, Granting
<1>3. \A g \in Ids : Stage(g)' = Stage(g)
  BY <1>1, <1>2, StageStays
<1>4. QED BY <1>1, <1>3 DEF St, Tk

LEMMA DebitIsTake ==
  ASSUME TInv, GInv, GInv', NEW h \in Handlers, DebitNext(h)
  PROVE  /\ St' = St /\ given' = given
         /\ \/ Tk' = Tk
            \/ \E g \in Ids, t \in Tenants :
                 /\ St[g] \in {"recorded", "undone"}
                 /\ St[g] = "undone" => t \in Tk[g]
                 /\ t \in given[g]
                 /\ Tk' = [Tk EXCEPT ![g] = @ \cup {t}]
<1> DEFINE g == req[h].id
<1>1. PICK t \in req[h].todo :
        /\ req[h].at = "debit"
        /\ Moves(h, req'[h])
        /\ req'[h].at \in {"debit", "mark"} /\ req'[h].id = req[h].id
        /\ \/ taken' = [taken EXCEPT ![req[h].id][t] = @ + 1]
           \/ UNCHANGED taken
        /\ UNCHANGED <<issued, grant, given>>
  BY DebitNextDoes DEF TInv
<1>2. /\ g \in Ids /\ t \in Tenants /\ grant[g].stored /\ t \in given[g]
      /\ taken \in [Ids -> [Tenants -> Nat]]
      /\ grant[g].undone => taken[g][t] > 0
  BY <1>1 DEF Undo, GInv, UndoLocal, RowOK, TInv, LocalOK, TypeOK, BaseTypeOK,
     Local, GrantTypeOK
<1>3. \A i \in Ids : BeingGranted(i)' <=> BeingGranted(i)
  BY <1>1 DEF Moves, BeingGranted, Granting
<1>4. \A i \in Ids : Stage(i)' = Stage(i)
  BY <1>1, <1>3, StageStays
<1>5. St' = St /\ given' = given
  BY <1>1, <1>4 DEF St
<1>6. CASE taken' = taken
  BY <1>5, <1>6 DEF Tk
<1>7. CASE taken' = [taken EXCEPT ![g][t] = @ + 1]
  <2>1. /\ taken'[g][t] = taken[g][t] + 1
        /\ \A u \in Tenants \ {t} : taken'[g][u] = taken[g][u]
        /\ \A j \in Ids \ {g} : taken'[j] = taken[j]
    BY <1>2, <1>7, TakenEffect
  <2>2. taken'[g][t] > 0
    BY <1>2, <2>1
  <2>3. {u \in Tenants : taken'[g][u] > 0}
          = {u \in Tenants : taken[g][u] > 0} \cup {t}
    BY <1>2, <2>1, <2>2
  <2>4. Tk' = [Tk EXCEPT ![g] = @ \cup {t}]
    BY <1>2, <2>1, <2>3 DEF Tk
  <2>5. St[g] \in {"recorded", "undone"} /\ (St[g] = "undone" => t \in Tk[g])
    BY <1>2, StageIs DEF St, Tk
  <2>6. QED BY <1>2, <1>5, <2>4, <2>5
<1>8. QED BY <1>1, <1>6, <1>7

LEMMA MarkIsFinish ==
  ASSUME TInv, GInv, GInv', NEW h \in Handlers, MarkUndone(h)
  PROVE  /\ given' = given /\ Tk' = Tk
         /\ \/ St' = St
            \/ \E g \in Ids : /\ St[g] = "recorded" /\ Tk[g] = given[g]
                              /\ St' = [St EXCEPT ![g] = "undone"]
<1>0. PICK g \in Ids : g = req[h].id /\ req[h].at = "mark"
  BY MarkUndoneDoes DEF TInv, LocalOK
<1>1. /\ req[h].at = "mark" /\ Moves(h, Idle)
      /\ \/ /\ ~req[h].failed
            /\ grant' = [grant EXCEPT ![g] = Marked(g)]
         \/ UNCHANGED grant
      /\ UNCHANGED <<issued, given, taken>>
  BY <1>0, MarkUndoneDoes DEF TInv
<1>2. /\ g \in Ids /\ grant[g].stored /\ grant[g].tenants = given[g]
      /\ ~req[h].failed => \A t \in given[g] : taken[g][t] > 0
      /\ \A t \in Tenants : taken[g][t] > 0 => t \in given[g]
      /\ given[g] \subseteq Tenants
  BY <1>0, <1>1 DEF Undo, GInv, UndoLocal, RowOK, TInv, TypeOK, GrantTypeOK
<1>3. \A i \in Ids : BeingGranted(i)' <=> BeingGranted(i)
  BY <1>1, IdleType DEF Moves, BeingGranted, Granting
<1>4. given' = given /\ Tk' = Tk
  BY <1>1 DEF Tk
<1>5. CASE grant' = grant
  <2>1. \A i \in Ids : Stage(i)' = Stage(i)
    BY <1>1, <1>3, <1>5, StageStays
  <2>2. QED BY <1>4, <2>1 DEF St
<1>6. CASE ~req[h].failed /\ grant' = [grant EXCEPT ![g] = Marked(g)]
  <2>1. /\ grant'[g].undone /\ grant'[g].stored
        /\ \A i \in Ids \ {g} : grant'[i] = grant[i]
    BY <1>2, <1>6, MarkedRow DEF TInv, TypeOK, GrantTypeOK
  <2>2. \A i \in Ids \ {g} : Stage(i)' = Stage(i)
    BY <1>1, <1>3, <2>1, StageStays
  <2>3. Stage(g)' = "undone" /\ Stage(g) \in {"recorded", "undone"}
    BY <1>2, <2>1, StageIs, StageIsNext
  <2>4. Tk[g] = given[g]
    BY <1>2, <1>6 DEF Tk
  <2>5. CASE Stage(g) = "undone"
    BY <1>4, <2>2, <2>3, <2>5 DEF St
  <2>6. CASE Stage(g) = "recorded"
    BY <1>2, <1>4, <2>2, <2>3, <2>4, <2>6 DEF St
  <2>7. QED BY <2>3, <2>5, <2>6
<1>7. QED BY <1>1, <1>5, <1>6

\* A crash abandons all that were being granted.
LEMMA CrashIsAbandon ==
  ASSUME TInv, GInv, GInv', Crash
  PROVE  /\ given' = given /\ Tk' = Tk
         /\ \E gs \in SUBSET Ids :
              /\ \A g \in gs : St[g] = "granting"
              /\ St' = [g \in Ids |-> IF g \in gs THEN "abandoned" ELSE St[g]]
<1> DEFINE gs == {g \in Ids : BeingGranted(g)}
<1>1. /\ \A h \in Handlers : req'[h] = Idle
      /\ UNCHANGED <<issued, grant, given, taken>>
  BY CrashDoes
<1>2. \A g \in Ids : ~BeingGranted(g)'
  BY <1>1, IdleType DEF BeingGranted, Granting
<1>3. \A g \in gs : Stage(g) = "granting" /\ Stage(g)' = "abandoned"
  BY <1>1, <1>2, StageIs, StageIsNext
<1>4. \A g \in Ids \ gs : Stage(g)' = Stage(g)
  BY <1>1, <1>2, StageStays
<1>5. QED BY <1>1, <1>3, <1>4 DEF St, Tk

LEMMA StutterIsPromised ==
  ASSUME St' = St, given' = given, Tk' = Tk
  PROVE  [Promise!Next]_(Promise!vars)
BY DEF St, Tk, Promise!vars

LEMMA NextPromised ==
  ASSUME TInv, GInv, GInv', [Next]_vars
  PROVE  [Promise!Next]_(Promise!vars)
<1>1. ASSUME NEW h \in Handlers, BeginGrant(h) PROVE [Promise!Next]_(Promise!vars)
  <2>1. PICK g \in Ids : /\ St[g] = "new" /\ St' = [St EXCEPT ![g] = "granting"]
                         /\ given' = given /\ Tk' = Tk
    BY <1>1, BeginGrantIsStart
  <2>2. Promise!Start(g)
    BY <2>1 DEF St, Tk, Promise!Start, Promise!Move
  <2>3. QED BY <2>2 DEF Promise!Next
<1>2. ASSUME NEW h \in Handlers, CreditNext(h) PROVE [Promise!Next]_(Promise!vars)
  <2>1. St' = St /\ Tk' = Tk
    BY <1>2, CreditIsGive
  <2>2. CASE given' = given
    BY <2>1, <2>2, StutterIsPromised
  <2>3. CASE \E g \in Ids, t \in Tenants :
               /\ St[g] = "granting" /\ t \notin given[g]
               /\ given' = [given EXCEPT ![g] = @ \cup {t}]
    <3>1. PICK g \in Ids, t \in Tenants :
               /\ St[g] = "granting" /\ t \notin given[g]
               /\ given' = [given EXCEPT ![g] = @ \cup {t}]
      BY <2>3
    <3>2. Promise!Give(g, t)
      BY <2>1, <3>1 DEF St, Tk, Promise!Give
    <3>3. QED BY <3>2 DEF Promise!Next
  <2>4. QED BY <1>2, <2>2, <2>3, CreditIsGive
<1>3. ASSUME NEW h \in Handlers, RecordGrant(h) PROVE [Promise!Next]_(Promise!vars)
  <2>1. PICK g \in Ids :
          /\ given' = given /\ Tk' = Tk
          /\ St[g] = "granting"
          /\ \/ St' = [St EXCEPT ![g] = "recorded"]
             \/ St' = [i \in Ids |-> IF i \in {g} THEN "abandoned" ELSE St[i]]
    BY <1>3, RecordIsRecord
  <2>2. CASE St' = [St EXCEPT ![g] = "recorded"]
    <3>1. Promise!Record(g)
      BY <2>1, <2>2 DEF St, Tk, Promise!Record, Promise!Move
    <3>2. QED BY <3>1 DEF Promise!Next
  <2>3. CASE St' = [i \in Ids |-> IF i \in {g} THEN "abandoned" ELSE St[i]]
    <3>1. Promise!Abandon({g})
      BY <2>1, <2>3 DEF St, Tk, Promise!Abandon
    <3>2. QED BY <3>1 DEF Promise!Next
  <2>4. QED BY <2>1, <2>2, <2>3
<1>4. ASSUME NEW h \in Handlers, BeginUndo(h) PROVE [Promise!Next]_(Promise!vars)
  BY <1>4, BeginUndoIsStutter, StutterIsPromised
<1>5. ASSUME NEW h \in Handlers, DebitNext(h) PROVE [Promise!Next]_(Promise!vars)
  <2>1. St' = St /\ given' = given
    BY <1>5, DebitIsTake
  <2>2. CASE Tk' = Tk
    BY <2>1, <2>2, StutterIsPromised
  <2>3. CASE \E g \in Ids, t \in Tenants :
               /\ St[g] \in {"recorded", "undone"}
               /\ St[g] = "undone" => t \in Tk[g]
               /\ t \in given[g]
               /\ Tk' = [Tk EXCEPT ![g] = @ \cup {t}]
    <3>1. PICK g \in Ids, t \in Tenants :
               /\ St[g] \in {"recorded", "undone"}
               /\ St[g] = "undone" => t \in Tk[g]
               /\ t \in given[g]
               /\ Tk' = [Tk EXCEPT ![g] = @ \cup {t}]
      BY <2>3
    <3>2. CASE t \in Tk[g]
      <4>1. Tk' = Tk
        BY <3>1, <3>2 DEF Tk
      <4>2. QED BY <2>1, <4>1, StutterIsPromised
    <3>3. CASE t \notin Tk[g]
      <4>1. St[g] = "recorded" /\ t \in given[g] \ Tk[g]
        BY <3>1, <3>3
      <4>2. Promise!Take(g, t)
        BY <2>1, <3>1, <4>1 DEF St, Tk, Promise!Take
      <4>3. QED BY <4>2 DEF Promise!Next
    <3>4. QED BY <3>2, <3>3
  <2>4. QED BY <1>5, <2>2, <2>3, DebitIsTake
<1>6. ASSUME NEW h \in Handlers, MarkUndone(h) PROVE [Promise!Next]_(Promise!vars)
  <2>1. given' = given /\ Tk' = Tk
    BY <1>6, MarkIsFinish
  <2>2. CASE St' = St
    BY <2>1, <2>2, StutterIsPromised
  <2>3. CASE \E g \in Ids : /\ St[g] = "recorded" /\ Tk[g] = given[g]
                            /\ St' = [St EXCEPT ![g] = "undone"]
    <3>1. PICK g \in Ids : /\ St[g] = "recorded" /\ Tk[g] = given[g]
                           /\ St' = [St EXCEPT ![g] = "undone"]
      BY <2>3
    <3>2. Promise!Finish(g)
      BY <2>1, <3>1 DEF St, Tk, Promise!Finish, Promise!Move
    <3>3. QED BY <3>2 DEF Promise!Next
  <2>4. QED BY <1>6, <2>2, <2>3, MarkIsFinish
<1>7. CASE \/ \E t \in Tenants : Spend(t) /\ UNCHANGED grantVars
           \/ DeletionNext /\ UNCHANGED grantVars
  BY <1>7, SpendIsApart, DeletionIsApart, ApartIsStutter, StutterIsPromised
<1>8. CASE Crash
  <2>1. PICK gs \in SUBSET Ids :
          /\ given' = given /\ Tk' = Tk
          /\ \A g \in gs : St[g] = "granting"
          /\ St' = [g \in Ids |-> IF g \in gs THEN "abandoned" ELSE St[g]]
    BY <1>8, CrashIsAbandon
  <2>2. CASE gs = {}
    <3>1. St' = St
      BY <2>1, <2>2 DEF St
    <3>2. QED BY <2>1, <3>1, StutterIsPromised
  <2>3. CASE gs # {}
    <3>1. Promise!Abandon(gs)
      BY <2>1, <2>3 DEF St, Tk, Promise!Abandon
    <3>2. QED BY <3>1 DEF Promise!Next
  <2>4. QED BY <2>2, <2>3
<1>9. CASE UNCHANGED vars
  <2>1. Apart /\ UNCHANGED grantVars
    BY <1>9 DEF vars, baseVars, grantVars, Apart
  <2>2. QED BY <2>1, ApartIsStutter, StutterIsPromised
<1>10. QED
  BY <1>1, <1>2, <1>3, <1>4, <1>5, <1>6, <1>7, <1>8, <1>9 DEF Next, GrantNext

\* However credits, debits, the record and its mark fail, overlap or are cut
\* off by a crash, and whatever is deleted meanwhile, a bulk grant keeps its
\* promise: every behaviour of the ledger is one of UndoableGrant.
THEOREM GrantsKeepTheirPromise == Spec => GrantKeepsPromise
<1>1. Init => Promise!Init
  BY InitPromised
<1>2. TInv /\ GInv /\ GInv' /\ [Next]_vars => [Promise!Next]_(Promise!vars)
  BY NextPromised
<1>3. QED
  BY <1>1, <1>2, TypedAndFiled, GrantsAreSound, PTL
     DEF Spec, GrantKeepsPromise, Promise!Spec
=============================================================================
