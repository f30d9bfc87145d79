------------------------- MODULE AccountLedgerProofs -------------------------
(* The types of AccountLedger, for every set of tenants, requests and ids,  *)
(* every load and every number of faults; and what its steps do, in the     *)
(* form the proofs about grants and about deletion use.                     *)
EXTENDS AccountLedger, TLAPS

(***************************************************************************)
(* A request that is about an id has one, and so has a run of the sweep;   *)
(* what the sweep has selected has been filed.                             *)
(***************************************************************************)

LocalOK(h) ==
  req[h].at \in {"credit", "record", "debit", "mark", "cancel"} =>
    req[h].id \in Ids

Filed(r) == r \in Ids /\ deletion[r].status # "none"

SweepOK ==
  /\ sweep.at > 0 => Filed(sweep.id)
  /\ \A r \in sweep.queue : Filed(r)

TInv == TypeOK /\ (\A h \in Handlers : LocalOK(h)) /\ SweepOK

(***************************************************************************)
(* The ledger and the slots of requests.                                   *)
(***************************************************************************)

\* An entry of tenant t is posted.
Posts(t) ==
  \E c \in Nat : ledger' = [ledger EXCEPT ![t] = Posted(ledger[t], c)]

LEMMA PostedFields ==
  ASSUME NEW l \in Ledger, NEW c \in Nat
  PROVE  /\ Posted(l, c) \in Ledger
         /\ Posted(l, c).fresh = l.fresh + 1
         /\ Posted(l, c).lined
         /\ Posted(l, c).window = l.window
         /\ Posted(l, c).late = IF l.window THEN l.late + 1 ELSE l.late
         /\ Posted(l, c).lost = l.lost
         /\ Posted(l, c).touched
<1> DEFINE late == IF l.window THEN l.late + 1 ELSE l.late
<1>1. l.fresh + 1 \in Nat /\ late \in Nat
  BY DEF Ledger
<1>2. Posted(l, c) = [l EXCEPT !.account = TRUE, !.row = TRUE, !.cents = c,
        !.fresh = l.fresh + 1, !.lined = TRUE, !.touched = TRUE, !.late = late]
  BY DEF Posted
<1> HIDE DEF late
<1>3. Posted(l, c) \in Ledger
  BY <1>1, <1>2 DEF Ledger
<1>4. /\ Posted(l, c).fresh = l.fresh + 1
      /\ Posted(l, c).lined
      /\ Posted(l, c).window = l.window
      /\ Posted(l, c).late = late
      /\ Posted(l, c).lost = l.lost
      /\ Posted(l, c).touched
  BY <1>2 DEF Ledger
<1>5. QED BY <1>3, <1>4 DEF late

LEMMA LedgerChanges ==
  ASSUME NEW l \in Ledger, NEW a \in Nat, NEW b \in Nat
  PROVE  /\ [l EXCEPT !.account = FALSE] \in Ledger
         /\ [l EXCEPT !.lined = FALSE] \in Ledger
         /\ [l EXCEPT !.window = FALSE] \in Ledger
         /\ [l EXCEPT !.touched = FALSE] \in Ledger
         /\ [l EXCEPT !.row = FALSE, !.cents = 0] \in Ledger
         /\ [l EXCEPT !.copied = a, !.fresh = b, !.window = TRUE] \in Ledger
         /\ [l EXCEPT !.lost = a, !.copied = b, !.fresh = b, !.window = FALSE]
              \in Ledger
BY DEF Ledger

LEMMA PostsEffect ==
  ASSUME ledger \in [Tenants -> Ledger], NEW t \in Tenants, Posts(t)
  PROVE  /\ ledger' \in [Tenants -> Ledger]
         /\ \A u \in Tenants \ {t} : ledger'[u] = ledger[u]
         /\ \E c \in Nat : ledger'[t] = Posted(ledger[t], c)
<1>1. PICK c \in Nat : ledger' = [ledger EXCEPT ![t] = Posted(ledger[t], c)]
  BY DEF Posts
<1>2. Posted(ledger[t], c) \in Ledger
  BY PostedFields
<1>3. QED BY <1>1, <1>2

LEMMA CreditPosts ==
  ASSUME ledger \in [Tenants -> Ledger], NEW t \in Tenants, Credit(t)
  PROVE  Posts(t)
<1>1. ledger[t].cents + 1 \in Nat
  BY DEF Ledger
<1>2. QED BY <1>1 DEF Credit, Posts

LEMMA DebitPosts ==
  ASSUME ledger \in [Tenants -> Ledger], NEW t \in Tenants, Debit(t)
  PROVE  Posts(t)
<1>1. ledger[t].cents - 1 \in Nat
  BY DEF Ledger, Debit
<1>2. QED BY <1>1 DEF Debit, Posts

LEMMA IdleType == Idle \in Local /\ Idle.at = "idle"
BY DEF Idle, Local, PCs

\* Only request h moves, to l.
Moves(h, l) ==
  /\ req' \in [Handlers -> Local]
  /\ req'[h] = l
  /\ \A k \in Handlers \ {h} : req'[k] = req[k]

LEMMA BeginMoves ==
  ASSUME BaseTypeOK, NEW h \in Handlers, NEW k \in Kind, NEW l \in Local,
         Begin(k, h, l)
  PROVE  Moves(h, l) /\ req[h] = Idle /\ started' \in [Kind -> Nat]
BY DEF BaseTypeOK, Begin, Moves

LEMMA ContinueMoves ==
  ASSUME BaseTypeOK, NEW h \in Handlers, NEW l \in Local, Continue(h, l)
  PROVE  Moves(h, l) /\ started' = started
BY DEF BaseTypeOK, Continue, Moves

LEMMA AnswerMoves ==
  ASSUME BaseTypeOK, NEW h \in Handlers, Answer(h)
  PROVE  Moves(h, Idle) /\ started' = started
BY ContinueMoves, IdleType DEF Answer

LEMMA FaultType ==
  ASSUME faults \in 0..MaxFaults, Fault
  PROVE  faults' \in 0..MaxFaults
BY LedgerAssumption DEF Fault

(***************************************************************************)
(* What the steps of a grant do.                                           *)
(***************************************************************************)

LEMMA BeginGrantDoes ==
  ASSUME TypeOK, NEW h \in Handlers, BeginGrant(h)
  PROVE  \E g \in Ids \ issued, ts \in SUBSET Tenants :
           /\ req[h] = Idle
           /\ Moves(h, req'[h])
           /\ req'[h].at = "credit" /\ req'[h].id = g
           /\ req'[h].todo = ts /\ req'[h].done = {}
           /\ started' \in [Kind -> Nat]
           /\ issued' = issued \cup {g}
           /\ UNCHANGED <<ledger, faults, grant, given, taken, unclean>>
<1>1. PICK g \in Fresh(issued), ts \in Batches :
        /\ Begin("grant", h, [Idle EXCEPT !.at = "credit", !.id = g, !.todo = ts])
        /\ issued' = issued \cup {g}
        /\ UNCHANGED <<ledger, faults, grant, given, taken, unclean>>
  BY DEF BeginGrant
<1>2. g \in Ids \ issued /\ ts \in SUBSET Tenants /\ "grant" \in Kind
  BY BatchAssumption DEF Fresh, Kind
<1> DEFINE l == [Idle EXCEPT !.at = "credit", !.id = g, !.todo = ts]
<1>3. /\ l \in Local /\ l.at = "credit" /\ l.id = g
      /\ l.todo = ts /\ l.done = {}
  BY <1>2 DEF Local, PCs, Idle
<1>4. Begin("grant", h, l)
  BY <1>1
<1> HIDE DEF l
<1>5. Moves(h, l) /\ req[h] = Idle /\ started' \in [Kind -> Nat]
  BY <1>2, <1>3, <1>4, BeginMoves DEF TypeOK
<1>6. req'[h] = l
  BY <1>5 DEF Moves
<1>7. QED BY <1>1, <1>2, <1>3, <1>5, <1>6

\* One round of bulkGrant's loop: t is credited, or its error noted.
LEMMA CreditNextDoes ==
  ASSUME TypeOK, NEW h \in Handlers, CreditNext(h)
  PROVE  \E t \in req[h].todo :
           /\ req[h].at = "credit"
           /\ Moves(h, req'[h])
           /\ req'[h].at \in {"credit", "record"} /\ req'[h].id = req[h].id
           /\ req'[h].todo = req[h].todo \ {t}
           /\ \/ /\ Posts(t)
                 /\ given' = [given EXCEPT ![req[h].id] = @ \cup {t}]
                 /\ req'[h].done = req[h].done \cup {t}
              \/ req'[h].done = req[h].done /\ UNCHANGED <<ledger, given>>
           /\ faults' \in 0..MaxFaults
           /\ UNCHANGED <<started, issued, grant, taken, unclean>>
<1> DEFINE l == req[h]
           rest(t) == [l EXCEPT !.todo = @ \ {t},
                                !.at = IF l.todo = {t} THEN "record" ELSE @]
<1>1. PICK t \in l.todo :
        \/ /\ Credit(t)
           /\ given' = [given EXCEPT ![l.id] = @ \cup {t}]
           /\ Continue(h, [rest(t) EXCEPT !.done = @ \cup {t}])
           /\ UNCHANGED faults
        \/ /\ Fault
           /\ Continue(h, rest(t))
           /\ UNCHANGED <<ledger, given>>
  BY DEF CreditNext
<1>2. l \in Local /\ l.at = "credit" /\ t \in Tenants
      /\ UNCHANGED <<issued, grant, taken, unclean>>
  BY <1>1 DEF CreditNext, TypeOK, BaseTypeOK, Local
<1> DEFINE m == rest(t)
           n == [rest(t) EXCEPT !.done = @ \cup {t}]
<1>3. /\ m \in Local /\ m.at \in {"credit", "record"} /\ m.id = l.id
      /\ m.todo = l.todo \ {t} /\ m.done = l.done
  BY <1>2 DEF Local, PCs
<1>4. /\ n \in Local /\ n.at \in {"credit", "record"} /\ n.id = l.id
      /\ n.todo = l.todo \ {t} /\ n.done = l.done \cup {t}
  BY <1>2 DEF Local, PCs
<1>5. CASE Continue(h, n) /\ Credit(t) /\ UNCHANGED faults
           /\ given' = [given EXCEPT ![l.id] = @ \cup {t}]
  <2> HIDE DEF m, n
  <2>1. Moves(h, n) /\ started' = started
    BY <1>4, <1>5, ContinueMoves DEF TypeOK
  <2>2. req'[h] = n
    BY <2>1 DEF Moves
  <2>3. Posts(t) /\ faults' \in 0..MaxFaults
    BY <1>2, <1>5, CreditPosts DEF TypeOK, BaseTypeOK
  <2>4. QED BY <1>2, <1>4, <1>5, <2>1, <2>2, <2>3
<1>6. CASE Continue(h, m) /\ Fault /\ UNCHANGED <<ledger, given>>
  <2> HIDE DEF m, n
  <2>1. Moves(h, m) /\ started' = started
    BY <1>3, <1>6, ContinueMoves DEF TypeOK
  <2>2. req'[h] = m
    BY <2>1 DEF Moves
  <2>3. faults' \in 0..MaxFaults
    BY <1>6, FaultType DEF TypeOK, BaseTypeOK
  <2>4. QED BY <1>2, <1>3, <1>6, <2>1, <2>2, <2>3
<1>7. QED BY <1>1, <1>5, <1>6

LEMMA RecordGrantDoes ==
  ASSUME TypeOK, NEW h \in Handlers, RecordGrant(h)
  PROVE  /\ req[h].at = "record" /\ Moves(h, Idle)
         /\ \/ grant' = [grant EXCEPT ![req[h].id] = Recorded(req[h])]
            \/ UNCHANGED grant
         /\ faults' \in 0..MaxFaults
         /\ UNCHANGED <<ledger, started, issued, given, taken, unclean>>
BY AnswerMoves, FaultType DEF RecordGrant, TypeOK, BaseTypeOK

LEMMA BeginUndoDoes ==
  ASSUME TypeOK, NEW h \in Handlers, BeginUndo(h)
  PROVE  \E g \in Ids :
           /\ grant[g].stored /\ ~grant[g].undone
           /\ req[h] = Idle
           /\ Moves(h, req'[h])
           /\ req'[h].at \in {"debit", "mark"} /\ req'[h].id = g
           /\ req'[h].at = "mark" => grant[g].tenants = {}
           /\ req'[h].todo = grant[g].tenants /\ ~req'[h].failed
           /\ started' \in [Kind -> Nat]
           /\ unclean' = IF Undoing(g) THEN unclean \cup {g} ELSE unclean
           /\ UNCHANGED <<ledger, faults, issued, grant, given, taken>>
<1>1. PICK g \in Ids :
        /\ grant[g].stored
        /\ ~grant[g].undone
        /\ Begin("grant", h, [Idle EXCEPT !.id = g, !.todo = grant[g].tenants,
             !.at = IF grant[g].tenants = {} THEN "mark" ELSE "debit"])
        /\ unclean' = IF Undoing(g) THEN unclean \cup {g} ELSE unclean
        /\ UNCHANGED <<ledger, faults, issued, grant, given, taken>>
  BY DEF BeginUndo
<1> DEFINE l == [Idle EXCEPT !.id = g, !.todo = grant[g].tenants,
                   !.at = IF grant[g].tenants = {} THEN "mark" ELSE "debit"]
<1>2. grant[g].tenants \in SUBSET Tenants /\ "grant" \in Kind
  BY DEF TypeOK, GrantTypeOK, GrantRow, Kind
<1>3. /\ l \in Local /\ l.at \in {"debit", "mark"} /\ l.id = g
      /\ l.at = "mark" => grant[g].tenants = {}
      /\ l.todo = grant[g].tenants /\ ~l.failed
  BY <1>2 DEF Local, PCs, Idle
<1>4. Begin("grant", h, l)
  BY <1>1
<1> HIDE DEF l
<1>5. Moves(h, l) /\ req[h] = Idle /\ started' \in [Kind -> Nat]
  BY <1>2, <1>3, <1>4, BeginMoves DEF TypeOK
<1>6. req'[h] = l
  BY <1>5 DEF Moves
<1>7. QED BY <1>1, <1>3, <1>5, <1>6

LEMMA TakenEffect ==
  ASSUME taken \in [Ids -> [Tenants -> Nat]], NEW i \in Ids, NEW t \in Tenants,
         taken' = [taken EXCEPT ![i][t] = @ + 1]
  PROVE  /\ taken' \in [Ids -> [Tenants -> Nat]]
         /\ taken'[i][t] = taken[i][t] + 1
         /\ \A u \in Tenants \ {t} : taken'[i][u] = taken[i][u]
         /\ \A j \in Ids \ {i} : taken'[j] = taken[j]
<1> DEFINE c == [taken[i] EXCEPT ![t] = @ + 1]
<1>1. /\ c \in [Tenants -> Nat] /\ c[t] = taken[i][t] + 1
      /\ \A u \in Tenants \ {t} : c[u] = taken[i][u]
  OBVIOUS
<1>2. taken' = [taken EXCEPT ![i] = c]
  OBVIOUS
<1> HIDE DEF c
<1>3. QED BY <1>1, <1>2

LEMMA MarkedRow ==
  ASSUME NEW g \in Ids, grant[g] \in GrantRow
  PROVE  /\ Marked(g) \in GrantRow
         /\ Marked(g).undone /\ Marked(g).stored = grant[g].stored
         /\ Marked(g).tenants = grant[g].tenants
<1>1. Marked(g) \in GrantRow
  BY DEF Marked, GrantRow
<1>2. /\ Marked(g).undone /\ Marked(g).stored = grant[g].stored
      /\ Marked(g).tenants = grant[g].tenants
  BY DEF Marked, GrantRow
<1>3. QED BY <1>1, <1>2

\* One round of undoGrant's loop: t is debited, or its error noted.
LEMMA DebitNextDoes ==
  ASSUME TypeOK, NEW h \in Handlers, DebitNext(h)
  PROVE  \E t \in req[h].todo :
           /\ req[h].at = "debit"
           /\ Moves(h, req'[h])
           /\ req'[h].at \in {"debit", "mark"} /\ req'[h].id = req[h].id
           /\ req'[h].todo = req[h].todo \ {t}
           /\ req'[h].at = "mark" => req[h].todo = {t}
           /\ \/ /\ Posts(t)
                 /\ taken' = [taken EXCEPT ![req[h].id][t] = @ + 1]
                 /\ req'[h].failed = req[h].failed
              \/ req'[h].failed /\ UNCHANGED <<ledger, taken>>
           /\ faults' \in 0..MaxFaults
           /\ UNCHANGED <<started, issued, grant, given, unclean>>
<1> DEFINE l == req[h]
           rest(t) == [l EXCEPT !.todo = @ \ {t},
                                !.at = IF l.todo = {t} THEN "mark" ELSE @]
<1>1. PICK t \in l.todo :
        \/ /\ Debit(t)
           /\ taken' = [taken EXCEPT ![l.id][t] = @ + 1]
           /\ Continue(h, rest(t))
           /\ UNCHANGED faults
        \/ /\ \/ ledger[t].cents = 0 /\ UNCHANGED faults
              \/ Fault
           /\ Continue(h, [rest(t) EXCEPT !.failed = TRUE])
           /\ UNCHANGED <<ledger, taken>>
  BY DEF DebitNext
<1>2. l \in Local /\ l.at = "debit" /\ t \in Tenants
      /\ UNCHANGED <<issued, grant, given, unclean>>
  BY <1>1 DEF DebitNext, TypeOK, BaseTypeOK, Local
<1> DEFINE m == rest(t)
           n == [rest(t) EXCEPT !.failed = TRUE]
<1>3. /\ m \in Local /\ m.at \in {"debit", "mark"} /\ m.id = l.id
      /\ m.todo = l.todo \ {t} /\ m.failed = l.failed
      /\ m.at = "mark" => l.todo = {t}
  BY <1>2 DEF Local, PCs
<1>4. /\ n \in Local /\ n.at \in {"debit", "mark"} /\ n.id = l.id
      /\ n.todo = l.todo \ {t} /\ n.failed
      /\ n.at = "mark" => l.todo = {t}
  BY <1>2 DEF Local, PCs
<1>5. CASE Continue(h, m) /\ Debit(t) /\ UNCHANGED faults
           /\ taken' = [taken EXCEPT ![l.id][t] = @ + 1]
  <2> HIDE DEF m, n
  <2>1. Moves(h, m) /\ started' = started
    BY <1>3, <1>5, ContinueMoves DEF TypeOK
  <2>2. req'[h] = m
    BY <2>1 DEF Moves
  <2>3. Posts(t) /\ faults' \in 0..MaxFaults
    BY <1>2, <1>5, DebitPosts DEF TypeOK, BaseTypeOK
  <2>4. QED BY <1>2, <1>3, <1>5, <2>1, <2>2, <2>3
<1>6. CASE Continue(h, n) /\ (faults' = faults \/ Fault)
           /\ UNCHANGED <<ledger, taken>>
  <2> HIDE DEF m, n
  <2>1. Moves(h, n) /\ started' = started
    BY <1>4, <1>6, ContinueMoves DEF TypeOK
  <2>2. req'[h] = n
    BY <2>1 DEF Moves
  <2>3. faults' \in 0..MaxFaults
    BY <1>6, FaultType DEF TypeOK, BaseTypeOK
  <2>4. QED BY <1>2, <1>4, <1>6, <2>1, <2>2, <2>3
<1>7. QED BY <1>1, <1>5, <1>6

LEMMA MarkUndoneDoes ==
  ASSUME TypeOK, NEW h \in Handlers, MarkUndone(h)
  PROVE  /\ req[h].at = "mark" /\ Moves(h, Idle)
         /\ \/ /\ ~req[h].failed
               /\ grant' = [grant EXCEPT ![req[h].id] = Marked(req[h].id)]
               /\ UNCHANGED unclean
            \/ unclean' = unclean \cup {req[h].id} /\ UNCHANGED grant
         /\ faults' \in 0..MaxFaults
         /\ UNCHANGED <<ledger, started, issued, given, taken>>
BY AnswerMoves, FaultType DEF MarkUndone, TypeOK, BaseTypeOK

(***************************************************************************)
(* What filing and cancelling do.                                          *)
(***************************************************************************)

LEMMA BeginRequestDoes ==
  ASSUME TypeOK, NEW h \in Handlers, BeginRequest(h)
  PROVE  /\ Moves(h, req'[h]) /\ req[h] = Idle /\ req'[h].at = "create"
         /\ started' \in [Kind -> Nat]
         /\ UNCHANGED <<ledger, faults, deletionVars>>
<1>1. PICK t \in Deletable, u \in BOOLEAN :
        /\ Begin("deletion", h,
                 [Idle EXCEPT !.at = "create", !.todo = {t}, !.user = u])
        /\ UNCHANGED <<ledger, faults, deletionVars>>
  BY DEF BeginRequest
<1> DEFINE l == [Idle EXCEPT !.at = "create", !.todo = {t}, !.user = u]
<1>2. l \in Local /\ l.at = "create" /\ "deletion" \in Kind
  BY DeletionAssumption DEF Local, PCs, Idle, Kind
<1>3. Begin("deletion", h, l)
  BY <1>1
<1> HIDE DEF l
<1>4. Moves(h, l) /\ req[h] = Idle /\ started' \in [Kind -> Nat]
  BY <1>2, <1>3, BeginMoves DEF TypeOK
<1>5. QED BY <1>1, <1>2, <1>4 DEF Moves

LEMMA RefuseDoes ==
  ASSUME TypeOK, NEW h \in Handlers, Refuse(h)
  PROVE  /\ req[h].at \in {"create", "cancel"} /\ Moves(h, Idle)
         /\ UNCHANGED <<ledger, faults, started, deletionVars>>
BY AnswerMoves DEF Refuse, TypeOK

\* What is noted of failures keeps its type.
NotesType ==
  /\ errors \subseteq Parts
  /\ written \in [Tenants -> SUBSET Kinds]
  /\ earlier \in [Tenants -> SUBSET Named]

\* Writes to what there is of tenant t.
LEMMA WriteEffect ==
  ASSUME DeletionTypeOK, NEW t \in Tenants, NEW ks \in SUBSET Kinds, Write(t, ks)
  PROVE  /\ rows' \in [Tenants -> SUBSET Kinds]
         /\ NotesType' /\ UNCHANGED <<errors, earlier>>
         /\ rows'[t] = rows[t] \cup ks
         /\ written'[t] = IF Erasing(t) THEN written[t] \cup ks ELSE written[t]
         /\ \A u \in Tenants \ {t} :
              rows'[u] = rows[u] /\ written'[u] = written[u]
BY DEF DeletionTypeOK, NotesType, Write

LEMMA CreateDoes ==
  ASSUME TypeOK, NEW h \in Handlers, Create(h)
  PROVE  \E r \in Ids, t \in Tenants, ks \in {{}, {"records"}} :
           /\ req[h].at = "create" /\ Moves(h, Idle)
           /\ deletion[r].status = "none"
           /\ deletion' = [deletion EXCEPT ![r] =
                [tenant |-> t, status |-> "pending", due |-> FALSE]]
           /\ kept' = kept \ {t}
           /\ Write(t, ks)
           /\ UNCHANGED <<ledger, faults, started, sweep>>
<1>1. PICK r \in Fresh({i \in Ids : deletion[i].status # "none"}),
           t \in req[h].todo :
        /\ deletion' = [deletion EXCEPT ![r] =
             [tenant |-> t, status |-> "pending", due |-> FALSE]]
        /\ kept' = kept \ {t}
        /\ Write(t, IF req[h].user THEN {"records"} ELSE {})
  BY DEF Create
<1>2. r \in Ids /\ deletion[r].status = "none" /\ t \in Tenants
  BY <1>1 DEF Fresh, TypeOK, BaseTypeOK, Local
<1>3. PICK ks \in {{}, {"records"}} : Write(t, ks)
  BY <1>1
<1>4. /\ req[h].at = "create" /\ Moves(h, Idle)
      /\ UNCHANGED <<ledger, faults, started, sweep>>
  BY AnswerMoves DEF Create, TypeOK
<1>5. QED BY <1>1, <1>2, <1>3, <1>4

LEMMA BeginCancelDoes ==
  ASSUME TypeOK, NEW h \in Handlers, BeginCancel(h)
  PROVE  /\ Moves(h, req'[h]) /\ req[h] = Idle
         /\ req'[h].at = "cancel" /\ req'[h].id \in Ids
         /\ started' \in [Kind -> Nat]
         /\ UNCHANGED <<ledger, faults, deletionVars>>
<1>1. PICK r \in Ids, u \in BOOLEAN :
        /\ Begin("deletion", h, [Idle EXCEPT !.at = "cancel", !.id = r,
                   !.todo = {deletion[r].tenant}, !.user = u])
        /\ UNCHANGED <<ledger, faults, deletionVars>>
  BY DEF BeginCancel
<1> DEFINE l == [Idle EXCEPT !.at = "cancel", !.id = r,
                   !.todo = {deletion[r].tenant}, !.user = u]
<1>2. deletion[r].tenant \in Tenants /\ "deletion" \in Kind
  BY DEF TypeOK, DeletionTypeOK, Kind
<1>3. l \in Local /\ l.at = "cancel" /\ l.id = r
  BY <1>2 DEF Local, PCs, Idle
<1>4. Begin("deletion", h, l)
  BY <1>1
<1> HIDE DEF l
<1>5. Moves(h, l) /\ req[h] = Idle /\ started' \in [Kind -> Nat]
  BY <1>2, <1>3, <1>4, BeginMoves DEF TypeOK
<1>6. QED BY <1>1, <1>3, <1>5 DEF Moves

LEMMA CancelDoes ==
  ASSUME TypeOK, NEW h \in Handlers, LocalOK(h), Cancel(h)
  PROVE  \E r \in Ids, ks \in {{}, {"records"}} :
           LET t == deletion[r].tenant IN
           /\ req[h].at = "cancel" /\ Moves(h, Idle)
           /\ \/ /\ deletion[r].status = "pending"
                 /\ deletion' = [deletion EXCEPT ![r].status = "cancelled"]
                 /\ kept' = IF Pending(t) = {r} /\ ~Selected(t)
                            THEN kept \cup {t} ELSE kept
              \/ UNCHANGED <<deletion, kept>>
           /\ Write(t, ks)
           /\ UNCHANGED <<ledger, faults, started, sweep>>
<1> DEFINE r == req[h].id
           t == deletion[r].tenant
<1>1. /\ req[h].at = "cancel"
      /\ \/ /\ deletion[r].status = "pending"
            /\ deletion' = [deletion EXCEPT ![r].status = "cancelled"]
            /\ kept' = IF Pending(t) = {r} /\ ~Selected(t)
                       THEN kept \cup {t} ELSE kept
         \/ UNCHANGED <<deletion, kept>>
      /\ Write(t, IF req[h].user THEN {"records"} ELSE {})
      /\ UNCHANGED <<ledger, faults, sweep>>
  BY DEF Cancel
<1>2. r \in Ids
  BY <1>1 DEF LocalOK
<1>3. PICK ks \in {{}, {"records"}} : Write(t, ks)
  BY <1>1
<1>4. Moves(h, Idle) /\ UNCHANGED started
  BY AnswerMoves DEF Cancel, TypeOK
<1>5. QED BY <1>1, <1>2, <1>3, <1>4

(***************************************************************************)
(* Where a run of the sweep is.                                            *)
(***************************************************************************)

LEMMA PlanSteps ==
  /\ Len(Plan) = 12
  /\ Plan[1] = "customer" /\ Plan[2] = "records" /\ Plan[3] = "balances"
  /\ Plan[4] = "insert" /\ Plan[5] = "lines" /\ Plan[6] = "entries"
  /\ Plan[7] = "accounts" /\ Plan[8] = "list" /\ Plan[9] = "objects"
  /\ Plan[10] = "snapshots" /\ Plan[11] = "mapping" /\ Plan[12] = "complete"
BY DEF Plan

LEMMA PlanParts ==
  /\ \A i \in 1..12 : Plan[i] \in Parts
  /\ "entries" \in Parts /\ "accounts" \in Parts /\ Kinds \subseteq Parts
<1>1. DOMAIN Plan = 1..12
  BY DEF Plan
<1>2. \A i \in 1..12 : Plan[i] \in Parts
  BY <1>1 DEF Parts
<1>3. QED BY <1>2, PlanSteps DEF Kinds

LEMMA StepNumbers ==
  ASSUME sweep.at \in 0..Len(Plan)
  PROVE  /\ Step = "none" <=> sweep.at = 0
         /\ Step = "customer" <=> sweep.at = 1
         /\ Step = "records" <=> sweep.at = 2
         /\ Step = "balances" <=> sweep.at = 3
         /\ Step = "insert" <=> sweep.at = 4
         /\ Step = "lines" <=> sweep.at = 5
         /\ Step = "entries" <=> sweep.at = 6
         /\ Step = "accounts" <=> sweep.at = 7
         /\ Step = "list" <=> sweep.at = 8
         /\ Step = "objects" <=> sweep.at = 9
         /\ Step = "snapshots" <=> sweep.at = 10
         /\ Step = "mapping" <=> sweep.at = 11
         /\ Step = "complete" <=> sweep.at = 12
<1>1. sweep.at \in 0..12
  BY PlanSteps
<1>2. CASE sweep.at = 0
  BY <1>2 DEF Step
<1>3. CASE sweep.at \in 1..6
  BY <1>3, PlanSteps DEF Step
<1>4. CASE sweep.at \in 7..12
  BY <1>4, PlanSteps DEF Step
<1>5. QED BY <1>1, <1>2, <1>3, <1>4

SweepType == [queue : SUBSET Ids, id : Ids \cup {NoId}, at : 0..12,
              found : BOOLEAN]

LEMMA SweepTyped == DeletionTypeOK => sweep \in SweepType
BY PlanSteps DEF DeletionTypeOK, SweepType

\* The run goes on at step n.
GoesOn(n) ==
  /\ sweep' \in SweepType
  /\ sweep'.at = n /\ sweep'.id = sweep.id /\ sweep'.queue = sweep.queue

LEMMA AdvanceGoesOn ==
  ASSUME sweep \in SweepType, sweep.at < 12, Advance
  PROVE  GoesOn(sweep.at + 1) /\ sweep'.found = sweep.found
BY DEF Advance, GoesOn, SweepType

LEMMA EndRunEnds ==
  ASSUME sweep \in SweepType, EndRun
  PROVE  sweep' \in SweepType /\ sweep'.at = 0 /\ sweep'.queue = sweep.queue
<1>1. 0 \in 0..12
  OBVIOUS
<1>2. sweep' = [sweep EXCEPT !.id = NoId, !.at = 0, !.found = FALSE]
  BY DEF EndRun
<1>3. sweep' \in SweepType
  BY <1>1, <1>2 DEF SweepType
<1>4. sweep'.at = 0 /\ sweep'.queue = sweep.queue
  BY <1>1, <1>2 DEF SweepType
<1>5. QED BY <1>3, <1>4

LEMMA RunHasTarget ==
  ASSUME TInv, sweep.at > 0
  PROVE  Target \in Tenants /\ sweep.id \in Ids /\ Erasing(Target)
BY DEF TInv, SweepOK, Filed, Target, TypeOK, DeletionTypeOK, Erasing

\* Only Target's ledger changes, and it becomes l.
Rewrites(l) ==
  /\ ledger' \in [Tenants -> Ledger]
  /\ ledger'[Target] = l
  /\ \A t \in Tenants \ {Target} : ledger'[t] = ledger[t]

LEMMA RewriteEffect ==
  ASSUME BaseTypeOK, NEW l \in Ledger, Target \in Tenants,
         ledger' = [ledger EXCEPT ![Target] = l]
  PROVE  Rewrites(l)
BY DEF BaseTypeOK, Rewrites

LEMMA NoteEffect ==
  ASSUME DeletionTypeOK, NEW part \in Parts, Note(part)
  PROVE  /\ NotesType'
         /\ errors' = errors \cup {part}
         /\ UNCHANGED <<written, earlier>>
BY DEF DeletionTypeOK, NotesType, Note

\* The errors of a run are gone with it.
LEMMA ForgetEffect ==
  ASSUME DeletionTypeOK, Target \in Tenants, ForgetErrors
  PROVE  /\ NotesType' /\ errors' = {} /\ UNCHANGED written
         /\ earlier'[Target] = earlier[Target] \cup (errors \cap Named)
         /\ \A t \in Tenants \ {Target} : earlier'[t] = earlier[t]
BY DEF DeletionTypeOK, NotesType, ForgetErrors

LEMMA EraseDoes ==
  ASSUME TInv, sweep.at \in 1..11, NEW kind \in Kinds, Erase(kind)
  PROVE  /\ rows' \in [Tenants -> SUBSET Kinds]
         /\ rows'[Target] = rows[Target] \ {kind}
         /\ \A t \in Tenants \ {Target} : rows'[t] = rows[t]
         /\ GoesOn(sweep.at + 1) /\ sweep'.found = sweep.found
         /\ UNCHANGED <<rowsOnly, noteVars, faults>>
<1>1. Target \in Tenants /\ DeletionTypeOK
  BY RunHasTarget DEF TInv, TypeOK
<1>2. /\ rows' = [rows EXCEPT ![Target] = @ \ {kind}]
      /\ Advance
      /\ UNCHANGED <<rowsOnly, noteVars, faults>>
  BY DEF Erase
<1>3. GoesOn(sweep.at + 1) /\ sweep'.found = sweep.found
  BY <1>1, <1>2, SweepTyped, AdvanceGoesOn
<1>4. QED BY <1>1, <1>2, <1>3 DEF DeletionTypeOK

(***************************************************************************)
(* What the steps of a run do.                                             *)
(***************************************************************************)

LEMMA EraseTableDoes ==
  ASSUME TInv, EraseTable
  PROVE  /\ \/ sweep.at = 2 /\ Step = "records"
            \/ sweep.at = 10 /\ Step = "snapshots"
            \/ sweep.at = 11 /\ Step = "mapping"
         /\ rows' \in [Tenants -> SUBSET Kinds]
         /\ rows'[Target] = rows[Target] \ {Step}
         /\ \A t \in Tenants \ {Target} : rows'[t] = rows[t]
         /\ GoesOn(sweep.at + 1)
         /\ UNCHANGED <<rowsOnly, noteVars, faults>>
<1>1. sweep.at \in 0..Len(Plan)
  BY DEF TInv, TypeOK, DeletionTypeOK
<1>2. Step \in {"records", "snapshots", "mapping"} /\ Erase(Step)
  BY DEF EraseTable
<1>3. \/ sweep.at = 2 /\ Step = "records"
      \/ sweep.at = 10 /\ Step = "snapshots"
      \/ sweep.at = 11 /\ Step = "mapping"
  BY <1>1, <1>2, StepNumbers
<1>4. sweep.at \in 1..11 /\ Step \in Kinds
  BY <1>2, <1>3 DEF Kinds
<1>5. QED BY <1>2, <1>3, <1>4, EraseDoes

\* The customer is erased, or nothing leads to it.
LEMMA EraseCustomerDoes ==
  ASSUME TInv, EraseCustomer
  PROVE  /\ sweep.at = 1
         /\ GoesOn(2)
         /\ rows' \in [Tenants -> SUBSET Kinds]
         /\ \A t \in Tenants \ {Target} : rows'[t] = rows[t]
         /\ \/ rows'[Target] = rows[Target] \ {"customer"}
            \/ rows' = rows /\ "mapping" \notin rows[Target]
         /\ UNCHANGED <<rowsOnly, noteVars, faults>>
<1>1. sweep.at = 1 /\ sweep \in SweepType /\ rows \in [Tenants -> SUBSET Kinds]
  BY StepNumbers, SweepTyped DEF TInv, TypeOK, DeletionTypeOK, EraseCustomer
<1>2. CASE "mapping" \in rows[Target]
  <2>1. Erase("customer") /\ "customer" \in Kinds
    BY <1>2 DEF EraseCustomer, Kinds
  <2>2. QED BY <1>1, <2>1, EraseDoes
<1>3. CASE "mapping" \notin rows[Target]
  <2>1. Advance /\ UNCHANGED <<rowsOnly, rows, noteVars, faults>>
    BY <1>3 DEF EraseCustomer
  <2>2. QED BY <1>1, <1>3, <2>1, AdvanceGoesOn
<1>4. QED BY <1>2, <1>3

LEMMA ListObjectsDoes ==
  ASSUME TInv, ListObjects
  PROVE  /\ sweep.at = 8
         /\ GoesOn(9) /\ (sweep'.found <=> "snapshots" \in rows[Target])
         /\ UNCHANGED <<rowsOnly, rows, noteVars, faults>>
<1>1. sweep.at = 8 /\ sweep \in SweepType
  BY StepNumbers, SweepTyped DEF TInv, TypeOK, DeletionTypeOK, ListObjects
<1> DEFINE b == "snapshots" \in rows[Target]
<1>2. /\ sweep' = [sweep EXCEPT !.at = 9, !.found = b] /\ b \in BOOLEAN
      /\ UNCHANGED <<rowsOnly, rows, noteVars, faults>>
  BY <1>1 DEF ListObjects
<1> HIDE DEF b
<1>3. 9 \in 0..12
  OBVIOUS
<1>4. sweep' \in SweepType /\ (sweep'.found <=> b)
  BY <1>1, <1>2, <1>3 DEF SweepType
<1>5. sweep'.at = 9 /\ sweep'.id = sweep.id /\ sweep'.queue = sweep.queue
  BY <1>1, <1>2 DEF SweepType
<1>6. QED BY <1>1, <1>2, <1>4, <1>5 DEF GoesOn, b

\* The objects are erased, or the list has named none.
LEMMA EraseObjectsDoes ==
  ASSUME TInv, EraseObjects
  PROVE  /\ sweep.at = 9
         /\ GoesOn(10)
         /\ rows' \in [Tenants -> SUBSET Kinds]
         /\ \A t \in Tenants \ {Target} : rows'[t] = rows[t]
         /\ \/ rows'[Target] = rows[Target] \ {"objects"}
            \/ rows' = rows /\ ~sweep.found
         /\ UNCHANGED <<rowsOnly, noteVars, faults>>
<1>1. sweep.at = 9 /\ sweep \in SweepType /\ rows \in [Tenants -> SUBSET Kinds]
  BY StepNumbers, SweepTyped DEF TInv, TypeOK, DeletionTypeOK, EraseObjects
<1>2. CASE sweep.found
  <2>1. Erase("objects") /\ "objects" \in Kinds
    BY <1>2 DEF EraseObjects, Kinds
  <2>2. QED BY <1>1, <2>1, EraseDoes
<1>3. CASE ~sweep.found
  <2>1. Advance /\ UNCHANGED <<rowsOnly, rows, noteVars, faults>>
    BY <1>3 DEF EraseObjects
  <2>2. QED BY <1>1, <1>3, <2>1, AdvanceGoesOn
<1>4. QED BY <1>2, <1>3

LEMMA EraseBalancesDoes ==
  ASSUME TInv, EraseBalances
  PROVE  /\ sweep.at = 3 /\ GoesOn(4)
         /\ Rewrites([ledger[Target] EXCEPT !.row = FALSE, !.cents = 0])
         /\ UNCHANGED <<ledgerOnly, noteVars, faults>>
<1>1. sweep.at = 3 /\ sweep \in SweepType
  BY StepNumbers, SweepTyped DEF TInv, TypeOK, DeletionTypeOK, EraseBalances
<1> DEFINE l == [ledger[Target] EXCEPT !.row = FALSE, !.cents = 0]
<1>2. Target \in Tenants /\ BaseTypeOK /\ ledger[Target] \in Ledger
  BY <1>1, RunHasTarget DEF TInv, TypeOK, BaseTypeOK
<1>3. l \in Ledger
  BY <1>2, LedgerChanges
<1>4. ledger' = [ledger EXCEPT ![Target] = l]
  BY <1>2 DEF EraseBalances, BaseTypeOK
<1> HIDE DEF l
<1>5. Rewrites(l)
  BY <1>2, <1>3, <1>4, RewriteEffect
<1>6. GoesOn(4) /\ UNCHANGED <<ledgerOnly, noteVars, faults>>
  BY <1>1, AdvanceGoesOn DEF EraseBalances
<1>7. QED BY <1>1, <1>5, <1>6 DEF l

\* The entries are copied, or the archive refuses them and is left.
LEMMA CopyEntriesDoes ==
  ASSUME TInv, CopyEntries
  PROVE  /\ sweep.at = 4
         /\ \/ /\ GoesOn(5)
               /\ Rewrites([ledger[Target] EXCEPT
                    !.copied = @ + ledger[Target].fresh, !.fresh = 0,
                    !.window = TRUE])
               /\ UNCHANGED noteVars
            \/ /\ GoesOn(7) /\ Note("entries")
               /\ UNCHANGED ledger
         /\ UNCHANGED <<ledgerOnly, faults>>
<1>1. sweep.at = 4 /\ sweep \in SweepType
  BY StepNumbers, SweepTyped DEF TInv, TypeOK, DeletionTypeOK, CopyEntries
<1> DEFINE l == [ledger[Target] EXCEPT
                   !.copied = @ + ledger[Target].fresh, !.fresh = 0,
                   !.window = TRUE]
<1>2. Target \in Tenants /\ BaseTypeOK /\ ledger[Target] \in Ledger
  BY <1>1, RunHasTarget DEF TInv, TypeOK, BaseTypeOK
<1>3. l \in Ledger
  <2>1. ledger[Target].copied + ledger[Target].fresh \in Nat /\ 0 \in Nat
    BY <1>2 DEF Ledger
  <2>2. QED BY <1>2, <2>1, LedgerChanges
<1>4. CASE ledger[Target].copied = 0
  <2>1. ledger' = [ledger EXCEPT ![Target] = l]
    BY <1>2, <1>4 DEF CopyEntries, BaseTypeOK
  <2>2. Advance /\ UNCHANGED <<ledgerOnly, faults, noteVars>>
    BY <1>4 DEF CopyEntries
  <2> HIDE DEF l
  <2>3. Rewrites(l)
    BY <1>2, <1>3, <2>1, RewriteEffect
  <2>4. QED BY <1>1, <2>2, <2>3, AdvanceGoesOn DEF l
<1>5. CASE ledger[Target].copied # 0
  <2>1. /\ Note("entries") /\ sweep' = [sweep EXCEPT !.at = AfterArchiveFails]
        /\ UNCHANGED <<ledger, ledgerOnly, faults>>
    BY <1>5 DEF CopyEntries
  <2>2. GoesOn(7)
    BY <1>1, <2>1 DEF GoesOn, SweepType, AfterArchiveFails
  <2>3. QED BY <1>1, <2>1, <2>2
<1>6. QED BY <1>4, <1>5

LEMMA EraseLinesDoes ==
  ASSUME TInv, EraseLines
  PROVE  /\ sweep.at = 5 /\ GoesOn(6)
         /\ Rewrites([ledger[Target] EXCEPT !.lined = FALSE])
         /\ UNCHANGED <<ledgerOnly, noteVars, faults>>
<1>1. sweep.at = 5 /\ sweep \in SweepType
  BY StepNumbers, SweepTyped DEF TInv, TypeOK, DeletionTypeOK, EraseLines
<1> DEFINE l == [ledger[Target] EXCEPT !.lined = FALSE]
<1>2. Target \in Tenants /\ BaseTypeOK /\ ledger[Target] \in Ledger
  BY <1>1, RunHasTarget DEF TInv, TypeOK, BaseTypeOK
<1>3. l \in Ledger
  BY <1>2, LedgerChanges
<1>4. ledger' = [ledger EXCEPT ![Target] = l]
  BY <1>2 DEF EraseLines, BaseTypeOK
<1> HIDE DEF l
<1>5. Rewrites(l)
  BY <1>2, <1>3, <1>4, RewriteEffect
<1>6. GoesOn(6) /\ UNCHANGED <<ledgerOnly, noteVars, faults>>
  BY <1>1, AdvanceGoesOn DEF EraseLines
<1>7. QED BY <1>1, <1>5, <1>6 DEF l

\* The entries are deleted, or lines keep them.
LEMMA EraseEntriesDoes ==
  ASSUME TInv, EraseEntries
  PROVE  /\ sweep.at = 6 /\ GoesOn(7)
         /\ \/ /\ Rewrites([ledger[Target] EXCEPT
                    !.lost = @ + ledger[Target].fresh,
                    !.copied = 0, !.fresh = 0, !.window = FALSE])
               /\ UNCHANGED noteVars
            \/ /\ Rewrites([ledger[Target] EXCEPT !.window = FALSE])
               /\ Note("entries")
         /\ UNCHANGED <<ledgerOnly, faults>>
<1>1. sweep.at = 6 /\ sweep \in SweepType
  BY StepNumbers, SweepTyped DEF TInv, TypeOK, DeletionTypeOK, EraseEntries
<1> DEFINE l == [ledger[Target] EXCEPT
                   !.lost = @ + ledger[Target].fresh,
                   !.copied = 0, !.fresh = 0, !.window = FALSE]
           m == [ledger[Target] EXCEPT !.window = FALSE]
<1>2. Target \in Tenants /\ BaseTypeOK /\ ledger[Target] \in Ledger
  BY <1>1, RunHasTarget DEF TInv, TypeOK, BaseTypeOK
<1>3. l \in Ledger /\ m \in Ledger
  <2>1. ledger[Target].lost + ledger[Target].fresh \in Nat /\ 0 \in Nat
    BY <1>2 DEF Ledger
  <2>2. QED BY <1>2, <2>1, LedgerChanges
<1>4. GoesOn(7) /\ UNCHANGED <<ledgerOnly, faults>>
  BY <1>1, AdvanceGoesOn DEF EraseEntries
<1>5. CASE ~ledger[Target].lined
  <2>1. ledger' = [ledger EXCEPT ![Target] = l] /\ UNCHANGED noteVars
    BY <1>2, <1>5 DEF EraseEntries, BaseTypeOK
  <2> HIDE DEF l
  <2>2. Rewrites(l)
    BY <1>2, <1>3, <2>1, RewriteEffect
  <2>3. QED BY <1>1, <1>4, <2>1, <2>2 DEF l
<1>6. CASE ledger[Target].lined
  <2>1. ledger' = [ledger EXCEPT ![Target] = m] /\ Note("entries")
    BY <1>2, <1>6 DEF EraseEntries, BaseTypeOK
  <2> HIDE DEF m
  <2>2. Rewrites(m)
    BY <1>2, <1>3, <2>1, RewriteEffect
  <2>3. QED BY <1>1, <1>4, <2>1, <2>2 DEF m
<1>7. QED BY <1>5, <1>6

\* The accounts are deleted, or a balance row or lines keep them.
LEMMA EraseAccountsDoes ==
  ASSUME TInv, EraseAccounts
  PROVE  /\ sweep.at = 7 /\ GoesOn(8)
         /\ \/ /\ Rewrites([ledger[Target] EXCEPT !.account = FALSE])
               /\ ~ledger[Target].row
               /\ UNCHANGED noteVars
            \/ Note("accounts") /\ ledger' = ledger
         /\ UNCHANGED <<ledgerOnly, faults>>
<1>1. sweep.at = 7 /\ sweep \in SweepType
  BY StepNumbers, SweepTyped DEF TInv, TypeOK, DeletionTypeOK, EraseAccounts
<1> DEFINE l == [ledger[Target] EXCEPT !.account = FALSE]
<1>2. Target \in Tenants /\ BaseTypeOK /\ ledger[Target] \in Ledger
  BY <1>1, RunHasTarget DEF TInv, TypeOK, BaseTypeOK
<1>3. l \in Ledger
  BY <1>2, LedgerChanges
<1>4. GoesOn(8) /\ UNCHANGED <<ledgerOnly, faults>>
  BY <1>1, AdvanceGoesOn DEF EraseAccounts
<1>5. CASE ~ledger[Target].row /\ ~ledger[Target].lined
  <2>1. ledger' = [ledger EXCEPT ![Target] = l] /\ UNCHANGED noteVars
    BY <1>2, <1>5 DEF EraseAccounts, BaseTypeOK
  <2> HIDE DEF l
  <2>2. Rewrites(l)
    BY <1>2, <1>3, <2>1, RewriteEffect
  <2>3. QED BY <1>1, <1>4, <1>5, <2>1, <2>2 DEF l
<1>6. CASE ~(~ledger[Target].row /\ ~ledger[Target].lined)
  BY <1>1, <1>4, <1>6 DEF EraseAccounts
<1>7. QED BY <1>5, <1>6

\* A statement that throws is noted, and excuses what it would have erased.
LEMMA StepThrowsDoes ==
  ASSUME TInv, StepThrows
  PROVE  /\ sweep.at \in (1..7) \cup (9..11)
         /\ \/ /\ sweep.at \in 4..6 /\ Note("entries") /\ GoesOn(7)
            \/ /\ sweep.at \notin 4..6 /\ Note(Step) /\ Step \in Parts
               /\ GoesOn(sweep.at + 1)
         /\ Rewrites([ledger[Target] EXCEPT !.window = FALSE])
         /\ faults' \in 0..MaxFaults
         /\ UNCHANGED ledgerOnly
<1>1. sweep \in SweepType /\ sweep.at \in 0..Len(Plan) /\ BaseTypeOK
  BY SweepTyped DEF TInv, TypeOK, DeletionTypeOK
<1>2. sweep.at \in (1..7) \cup (9..11)
  BY <1>1, StepNumbers DEF StepThrows, SweepType
<1> DEFINE l == [ledger[Target] EXCEPT !.window = FALSE]
<1>3. Target \in Tenants /\ l \in Ledger
  <2>1. Target \in Tenants /\ ledger[Target] \in Ledger
    BY <1>1, <1>2, RunHasTarget DEF BaseTypeOK
  <2>2. QED BY <2>1, LedgerChanges
<1>4. /\ ledger' = [ledger EXCEPT ![Target] = l]
      /\ UNCHANGED ledgerOnly /\ faults' \in 0..MaxFaults
  BY <1>1, <1>3, FaultType DEF StepThrows, BaseTypeOK
<1>5. Rewrites(l)
  <2> HIDE DEF l
  <2>1. QED BY <1>1, <1>3, <1>4, RewriteEffect
<1>6. Step \in {"insert", "lines", "entries"} <=> sweep.at \in 4..6
  BY <1>1, StepNumbers DEF SweepType
<1>7. CASE sweep.at \in 4..6
  <2>1. Note("entries") /\ sweep' = [sweep EXCEPT !.at = AfterArchiveFails]
    BY <1>6, <1>7 DEF StepThrows
  <2>2. GoesOn(7)
    BY <1>1, <2>1 DEF GoesOn, SweepType, AfterArchiveFails
  <2>3. QED BY <1>2, <1>4, <1>5, <1>7, <2>1, <2>2
<1>8. CASE sweep.at \notin 4..6
  <2>1. Note(Step) /\ sweep' = [sweep EXCEPT !.at = @ + 1]
    BY <1>6, <1>8 DEF StepThrows
  <2>2. GoesOn(sweep.at + 1)
    BY <1>1, <1>2, <2>1 DEF GoesOn, SweepType
  <2>3. Step \in Parts
    BY <1>2, PlanParts DEF Step
  <2>4. QED BY <1>2, <1>4, <1>5, <1>8, <2>1, <2>2, <2>3
<1>9. QED BY <1>7, <1>8

LEMMA FindExpiredDoes ==
  ASSUME TInv, FindExpired
  PROVE  /\ sweep' \in SweepType /\ sweep.at = 0 /\ sweep'.at = 0
         /\ sweep'.queue = {r \in Ids : Due(r)}
         /\ UNCHANGED <<baseVars, rows, deletion, noteVars, kept>>
<1>1. sweep' = [NoSweep EXCEPT !.queue = {r \in Ids : Due(r)}]
  BY DEF FindExpired
<1>2. 0 \in 0..12 /\ {r \in Ids : Due(r)} \in SUBSET Ids
  OBVIOUS
<1>3. sweep' \in SweepType
  BY <1>1, <1>2 DEF NoSweep, SweepType
<1>4. sweep'.at = 0 /\ sweep'.queue = {r \in Ids : Due(r)}
  BY <1>1 DEF NoSweep
<1>5. QED BY <1>3, <1>4 DEF FindExpired, NoSweep

\* A run begins: nothing has been posted to its tenant since.
LEMMA NextRunDoes ==
  ASSUME TInv, NextRun
  PROVE  \E r \in sweep.queue :
           LET t == deletion[r].tenant IN
           /\ sweep.at = 0 /\ Filed(r) /\ t \in Tenants
           /\ sweep' \in SweepType /\ sweep'.at = 1 /\ sweep'.id = r
           /\ sweep'.queue = sweep.queue \ {r}
           /\ ledger' \in [Tenants -> Ledger]
           /\ ledger'[t] = [ledger[t] EXCEPT !.touched = FALSE]
           /\ \A u \in Tenants \ {t} : ledger'[u] = ledger[u]
           /\ NotesType'
           /\ written'[t] = written[t] \cap Named
           /\ \A u \in Tenants \ {t} : written'[u] = written[u]
           /\ UNCHANGED <<req, started, faults, rows, deletion, errors, earlier,
                          kept>>
<1>1. PICK r \in sweep.queue :
        LET t == deletion[r].tenant IN
        /\ sweep' = [queue |-> sweep.queue \ {r}, id |-> r, at |-> 1,
                     found |-> FALSE]
        /\ ledger' = [ledger EXCEPT ![t].touched = FALSE]
        /\ written' = [written EXCEPT ![t] = @ \cap Named]
  BY DEF NextRun
<1> DEFINE t == deletion[r].tenant
           l == [ledger[t] EXCEPT !.touched = FALSE]
<1>2. Filed(r) /\ t \in Tenants /\ ledger \in [Tenants -> Ledger]
      /\ sweep \in SweepType
  BY SweepTyped
     DEF TInv, SweepOK, Filed, TypeOK, BaseTypeOK, DeletionTypeOK
<1>3. l \in Ledger
  BY <1>2, LedgerChanges
<1>4. ledger' = [ledger EXCEPT ![t] = l]
  BY <1>1, <1>2
<1>5. /\ sweep' \in SweepType /\ sweep'.at = 1 /\ sweep'.id = r
      /\ sweep'.queue = sweep.queue \ {r}
  BY <1>1, <1>2 DEF SweepType, Filed
<1>6. /\ sweep.at = 0
      /\ UNCHANGED <<req, started, faults, rows, deletion, errors, earlier, kept>>
  BY DEF NextRun
<1>8. /\ NotesType'
      /\ written'[t] = written[t] \cap Named
      /\ \A u \in Tenants \ {t} : written'[u] = written[u]
  BY <1>1, <1>2, <1>6 DEF TInv, TypeOK, DeletionTypeOK, NotesType
<1> HIDE DEF l
<1>7. /\ ledger' \in [Tenants -> Ledger]
      /\ ledger'[t] = l
      /\ \A u \in Tenants \ {t} : ledger'[u] = ledger[u]
  BY <1>2, <1>3, <1>4
<1>9. QED BY <1>2, <1>5, <1>6, <1>7, <1>8 DEF l

\* A run that throws at its list or at its end leaves its request as it is.
LEMMA RunThrowsDoes ==
  ASSUME TInv, ListThrows \/ CompleteThrows
  PROVE  /\ sweep.at \in {8, 12}
         /\ sweep' \in SweepType /\ sweep'.at = 0 /\ sweep'.queue = sweep.queue
         /\ faults' \in 0..MaxFaults
         /\ ForgetErrors
         /\ UNCHANGED <<rowsOnly, rows>>
<1>1. EndRun /\ Fault /\ UNCHANGED <<rowsOnly, rows>>
  BY DEF ListThrows, CompleteThrows
<1>2. /\ sweep \in SweepType /\ faults \in 0..MaxFaults
      /\ sweep.at \in 0..Len(Plan)
  BY SweepTyped DEF TInv, TypeOK, BaseTypeOK, DeletionTypeOK
<1>3. sweep.at \in {8, 12}
  BY <1>2, StepNumbers DEF ListThrows, CompleteThrows
<1>4. QED BY <1>1, <1>2, <1>3, EndRunEnds, FaultType DEF EndRun

LEMMA CompleteDoes ==
  ASSUME TInv, Complete
  PROVE  /\ sweep.at = 12 /\ sweep.id \in Ids
         /\ deletion' = [deletion EXCEPT ![sweep.id] =
              [deletion[sweep.id] EXCEPT !.status = "completed"]]
         /\ sweep' \in SweepType /\ sweep'.at = 0 /\ sweep'.queue = sweep.queue
         /\ ForgetErrors
         /\ UNCHANGED <<baseVars, rows, kept>>
<1>1. sweep.at = 12 /\ sweep \in SweepType
  BY StepNumbers, SweepTyped DEF TInv, TypeOK, DeletionTypeOK, Complete
<1>2. QED BY <1>1, RunHasTarget, EndRunEnds DEF Complete, Completed, EndRun

LEMMA CrashDoes ==
  ASSUME TInv, Crash
  PROVE  /\ req' \in [Handlers -> Local]
         /\ \A h \in Handlers : req'[h] = Idle
         /\ sweep' = NoSweep /\ sweep' \in SweepType
         /\ ledger' \in [Tenants -> Ledger]
         /\ \A t \in Tenants : ledger'[t] = [ledger[t] EXCEPT !.window = FALSE]
         /\ faults' \in 0..MaxFaults
         /\ unclean' = unclean \cup {g \in Ids : Undoing(g)}
         /\ IF sweep.at > 0 THEN ForgetErrors ELSE UNCHANGED noteVars
         /\ UNCHANGED <<started, issued, grant, given, taken,
                        rows, deletion, kept>>
<1>1. sweep' = NoSweep /\ sweep' \in SweepType
  BY DEF Crash, SweepCutOff, NoSweep, SweepType
<1>2. \A t \in Tenants : [ledger[t] EXCEPT !.window = FALSE] \in Ledger
  BY LedgerChanges DEF TInv, TypeOK, BaseTypeOK
<1>3. QED
  BY <1>1, <1>2, IdleType, FaultType
     DEF Crash, SweepCutOff, GrantsCutOff, TInv, TypeOK, BaseTypeOK

(***************************************************************************)
(* Types, through every step.                                              *)
(***************************************************************************)

\* A request for deletion that was filed stays, about the same tenant.
KeepsFiled ==
  \A r \in Ids :
    deletion[r].status # "none" =>
      deletion'[r].status # "none" /\ deletion'[r].tenant = deletion[r].tenant

LEMMA SweepStays ==
  ASSUME TInv, KeepsFiled, sweep'.queue = sweep.queue,
         sweep'.at = 0 \/ (sweep.at > 0 /\ sweep'.id = sweep.id) \/ sweep' = sweep
  PROVE  SweepOK'
BY DEF TInv, KeepsFiled, SweepOK, Filed

\* What a request is about, when request h goes on as l.
LEMMA LocalsStay ==
  ASSUME TInv, NEW h \in Handlers, NEW l, Moves(h, l),
         l.at \in {"credit", "record", "debit", "mark", "cancel"} => l.id \in Ids
  PROVE  \A k \in Handlers : LocalOK(k)'
BY DEF TInv, Moves, LocalOK

LEMMA GrantKeepsTypes ==
  ASSUME TInv, GrantNext, UNCHANGED deletionVars
  PROVE  TInv'
<1> USE DEF TInv
<1>1. DeletionTypeOK' /\ SweepOK'
  BY DEF TypeOK, DeletionTypeOK, deletionVars, noteVars, SweepOK, Filed
<1>2. ASSUME NEW h \in Handlers, BeginGrant(h) PROVE TInv'
  <2>1. PICK g \in Ids \ issued, ts \in SUBSET Tenants :
          /\ Moves(h, req'[h])
          /\ req'[h].id = g
          /\ started' \in [Kind -> Nat]
          /\ issued' = issued \cup {g}
          /\ UNCHANGED <<ledger, faults, grant, given, taken, unclean>>
    BY <1>2, BeginGrantDoes
  <2>2. TypeOK'
    BY <1>1, <2>1 DEF TypeOK, BaseTypeOK, GrantTypeOK, Moves
  <2>3. QED BY <1>1, <2>1, <2>2, LocalsStay
<1>3. ASSUME NEW h \in Handlers, CreditNext(h) PROVE TInv'
  <2>1. PICK t \in req[h].todo :
           /\ req[h].at = "credit"
           /\ Moves(h, req'[h])
           /\ req'[h].at \in {"credit", "record"} /\ req'[h].id = req[h].id
           /\ \/ /\ Posts(t)
                 /\ given' = [given EXCEPT ![req[h].id] = @ \cup {t}]
              \/ UNCHANGED <<ledger, given>>
           /\ faults' \in 0..MaxFaults
           /\ UNCHANGED <<started, issued, grant, taken, unclean>>
    BY <1>3, CreditNextDoes
  <2>2. t \in Tenants /\ req[h].id \in Ids
    BY <2>1 DEF TypeOK, BaseTypeOK, Local, LocalOK
  <2>3. ledger' \in [Tenants -> Ledger] /\ given' \in [Ids -> SUBSET Tenants]
    BY <2>1, <2>2, PostsEffect DEF TypeOK, BaseTypeOK, GrantTypeOK
  <2>4. TypeOK'
    BY <1>1, <2>1, <2>3 DEF TypeOK, BaseTypeOK, GrantTypeOK, Moves
  <2>5. QED BY <1>1, <2>1, <2>2, <2>4, LocalsStay
<1>4. ASSUME NEW h \in Handlers, RecordGrant(h) PROVE TInv'
  <2>1. /\ req[h].at = "record" /\ Moves(h, Idle)
        /\ \/ grant' = [grant EXCEPT ![req[h].id] = Recorded(req[h])]
           \/ UNCHANGED grant
        /\ faults' \in 0..MaxFaults
        /\ UNCHANGED <<ledger, started, issued, given, taken, unclean>>
    BY <1>4, RecordGrantDoes
  <2>2. Recorded(req[h]) \in GrantRow
    BY DEF TypeOK, BaseTypeOK, Local, Recorded, GrantRow
  <2>3. TypeOK'
    BY <1>1, <2>1, <2>2 DEF TypeOK, BaseTypeOK, GrantTypeOK, Moves
  <2>4. QED BY <1>1, <2>1, <2>3, LocalsStay, IdleType
<1>5. ASSUME NEW h \in Handlers, BeginUndo(h) PROVE TInv'
  <2>1. PICK g \in Ids :
           /\ Moves(h, req'[h])
           /\ req'[h].id = g
           /\ started' \in [Kind -> Nat]
           /\ unclean' = IF Undoing(g) THEN unclean \cup {g} ELSE unclean
           /\ UNCHANGED <<ledger, faults, issued, grant, given, taken>>
    BY <1>5, BeginUndoDoes
  <2>2. TypeOK'
    BY <1>1, <2>1 DEF TypeOK, BaseTypeOK, GrantTypeOK, Moves
  <2>3. QED BY <1>1, <2>1, <2>2, LocalsStay
<1>6. ASSUME NEW h \in Handlers, DebitNext(h) PROVE TInv'
  <2>1. PICK t \in req[h].todo :
           /\ req[h].at = "debit"
           /\ Moves(h, req'[h])
           /\ req'[h].id = req[h].id
           /\ \/ /\ Posts(t)
                 /\ taken' = [taken EXCEPT ![req[h].id][t] = @ + 1]
              \/ UNCHANGED <<ledger, taken>>
           /\ faults' \in 0..MaxFaults
           /\ UNCHANGED <<started, issued, grant, given, unclean>>
    BY <1>6, DebitNextDoes
  <2>2. t \in Tenants /\ req[h].id \in Ids
    BY <2>1 DEF TypeOK, BaseTypeOK, Local, LocalOK
  <2>3. ledger' \in [Tenants -> Ledger]
    BY <2>1, <2>2, PostsEffect DEF TypeOK, BaseTypeOK
  <2>4. taken' \in [Ids -> [Tenants -> Nat]]
    BY <2>1, <2>2, TakenEffect DEF TypeOK, GrantTypeOK
  <2>5. TypeOK'
    BY <1>1, <2>1, <2>3, <2>4 DEF TypeOK, BaseTypeOK, GrantTypeOK, Moves
  <2>6. QED BY <1>1, <2>1, <2>2, <2>5, LocalsStay
<1>7. ASSUME NEW h \in Handlers, MarkUndone(h) PROVE TInv'
  <2>1. /\ req[h].at = "mark" /\ Moves(h, Idle)
        /\ \/ /\ grant' = [grant EXCEPT ![req[h].id] = Marked(req[h].id)]
              /\ UNCHANGED unclean
           \/ unclean' = unclean \cup {req[h].id} /\ UNCHANGED grant
        /\ faults' \in 0..MaxFaults
        /\ UNCHANGED <<ledger, started, issued, given, taken>>
    BY <1>7, MarkUndoneDoes
  <2>2. req[h].id \in Ids /\ Marked(req[h].id) \in GrantRow
    BY <2>1, MarkedRow DEF TypeOK, GrantTypeOK, LocalOK
  <2>3. grant' \in [Ids -> GrantRow] /\ unclean' \subseteq Ids
    BY <2>1, <2>2 DEF TypeOK, GrantTypeOK
  <2>4. TypeOK'
    BY <1>1, <2>1, <2>3 DEF TypeOK, BaseTypeOK, GrantTypeOK, Moves
  <2>5. QED BY <1>1, <2>1, <2>4, LocalsStay, IdleType
<1>8. ASSUME NEW t \in Tenants, Spend(t), UNCHANGED grantVars PROVE TInv'
  <2>1. ledger' \in [Tenants -> Ledger]
    BY <1>8, DebitPosts, PostsEffect DEF Spend, TypeOK, BaseTypeOK
  <2>2. TypeOK'
    BY <1>1, <1>8, <2>1 DEF Spend, TypeOK, BaseTypeOK, GrantTypeOK, grantVars
  <2>3. QED BY <1>1, <1>8, <2>2 DEF Spend, LocalOK
<1>9. QED
  BY <1>2, <1>3, <1>4, <1>5, <1>6, <1>7, <1>8 DEF GrantNext

DeletionRow == [tenant : Tenants, status : Statuses, due : BOOLEAN]

\* One request for deletion changes its status, or its grace period ends.
LEMMA RowMoves ==
  ASSUME DeletionTypeOK, NEW r \in Ids, deletion[r].status # "none",
         NEW d \in DeletionRow, d.status # "none",
         d.tenant = deletion[r].tenant,
         deletion' = [deletion EXCEPT ![r] = d]
  PROVE  deletion' \in [Ids -> DeletionRow] /\ KeepsFiled
BY DEF DeletionTypeOK, DeletionRow, KeepsFiled

LEMMA RowChange ==
  ASSUME NEW d \in DeletionRow, NEW s \in Statuses
  PROVE  /\ [d EXCEPT !.status = s] \in DeletionRow
         /\ [d EXCEPT !.status = s].status = s
         /\ [d EXCEPT !.status = s].tenant = d.tenant
         /\ [d EXCEPT !.due = TRUE] \in DeletionRow
         /\ [d EXCEPT !.due = TRUE].status = d.status
         /\ [d EXCEPT !.due = TRUE].tenant = d.tenant
<1>1. [d EXCEPT !.status = s] \in DeletionRow
  BY DEF DeletionRow
<1>2. [d EXCEPT !.due = TRUE] \in DeletionRow
  BY DEF DeletionRow
<1>3. QED BY <1>1, <1>2 DEF DeletionRow

LEMMA FilingKeepsTypes ==
  ASSUME TInv, UNCHANGED grantVars,
         NEW h \in Handlers,
         \/ BeginRequest(h) \/ Refuse(h) \/ Create(h) \/ BeginCancel(h) \/ Cancel(h)
  PROVE  TInv'
<1> USE DEF TInv
<1>1. GrantTypeOK'
  BY DEF TypeOK, GrantTypeOK, grantVars
<1>2. CASE BeginRequest(h)
  <2>1. /\ Moves(h, req'[h]) /\ req'[h].at = "create"
        /\ started' \in [Kind -> Nat]
        /\ UNCHANGED <<ledger, faults, deletionVars>>
    BY <1>2, BeginRequestDoes
  <2>2. TypeOK' /\ SweepOK'
    BY <1>1, <2>1 DEF TypeOK, BaseTypeOK, DeletionTypeOK, deletionVars, noteVars, Moves,
       SweepOK, Filed
  <2>3. QED BY <2>1, <2>2, LocalsStay
<1>3. CASE Refuse(h)
  <2>1. Moves(h, Idle) /\ UNCHANGED <<ledger, faults, started, deletionVars>>
    BY <1>3, RefuseDoes
  <2>2. TypeOK' /\ SweepOK'
    BY <1>1, <2>1 DEF TypeOK, BaseTypeOK, DeletionTypeOK, deletionVars, noteVars, Moves,
       SweepOK, Filed
  <2>3. QED BY <2>1, <2>2, LocalsStay, IdleType
<1>4. CASE BeginCancel(h)
  <2>1. /\ Moves(h, req'[h]) /\ req'[h].at = "cancel" /\ req'[h].id \in Ids
        /\ started' \in [Kind -> Nat]
        /\ UNCHANGED <<ledger, faults, deletionVars>>
    BY <1>4, BeginCancelDoes
  <2>2. TypeOK' /\ SweepOK'
    BY <1>1, <2>1 DEF TypeOK, BaseTypeOK, DeletionTypeOK, deletionVars, noteVars, Moves,
       SweepOK, Filed
  <2>3. QED BY <2>1, <2>2, LocalsStay
<1>5. CASE Create(h)
  <2>1. PICK r \in Ids, t \in Tenants, ks \in {{}, {"records"}} :
           /\ Moves(h, Idle)
           /\ deletion[r].status = "none"
           /\ deletion' = [deletion EXCEPT ![r] =
                [tenant |-> t, status |-> "pending", due |-> FALSE]]
           /\ kept' = kept \ {t}
           /\ Write(t, ks)
           /\ UNCHANGED <<ledger, faults, started, sweep>>
    BY <1>5, CreateDoes
  <2>2. deletion' \in [Ids -> DeletionRow] /\ KeepsFiled
    BY <2>1 DEF TypeOK, DeletionTypeOK, DeletionRow, Statuses, KeepsFiled
  <2>3. ks \in SUBSET Kinds
    BY DEF Kinds
  <2>4. rows' \in [Tenants -> SUBSET Kinds] /\ NotesType'
    BY <2>1, <2>3, WriteEffect DEF TypeOK
  <2>5. DeletionTypeOK'
    BY <2>1, <2>2, <2>4 DEF TypeOK, DeletionTypeOK, NotesType, DeletionRow
  <2>6. TypeOK'
    BY <1>1, <2>1, <2>5 DEF TypeOK, BaseTypeOK, Moves
  <2>7. QED BY <2>1, <2>2, <2>6, SweepStays, LocalsStay, IdleType
<1>6. CASE Cancel(h)
  <2>1. PICK r \in Ids, ks \in {{}, {"records"}} :
           LET t == deletion[r].tenant IN
           /\ Moves(h, Idle)
           /\ \/ /\ deletion[r].status = "pending"
                 /\ deletion' = [deletion EXCEPT ![r].status = "cancelled"]
                 /\ kept' = IF Pending(t) = {r} /\ ~Selected(t)
                            THEN kept \cup {t} ELSE kept
              \/ UNCHANGED <<deletion, kept>>
           /\ Write(t, ks)
           /\ UNCHANGED <<ledger, faults, started, sweep>>
    BY <1>6, CancelDoes
  <2>2. deletion[r] \in DeletionRow /\ deletion[r].tenant \in Tenants
    BY DEF TypeOK, DeletionTypeOK, DeletionRow
  <2>3. deletion' \in [Ids -> DeletionRow] /\ KeepsFiled
    <3> DEFINE d == [deletion[r] EXCEPT !.status = "cancelled"]
    <3>1. CASE deletion' = deletion
      BY <3>1 DEF TypeOK, DeletionTypeOK, DeletionRow, KeepsFiled
    <3>2. CASE /\ deletion[r].status = "pending"
               /\ deletion' = [deletion EXCEPT ![r] = d]
      <4>1. "cancelled" \in Statuses
        BY DEF Statuses
      <4>2. d \in DeletionRow /\ d.status # "none" /\ d.tenant = deletion[r].tenant
        BY <2>2, <4>1, RowChange
      <4> HIDE DEF d
      <4>3. QED BY <3>2, <4>2, RowMoves DEF TypeOK
    <3>3. QED BY <2>1, <3>1, <3>2
  <2>4. ks \in SUBSET Kinds
    BY DEF Kinds
  <2>5. rows' \in [Tenants -> SUBSET Kinds] /\ NotesType'
    BY <2>1, <2>2, <2>4, WriteEffect DEF TypeOK
  <2>6. kept' \subseteq Tenants
    BY <2>1, <2>2 DEF TypeOK, DeletionTypeOK
  <2>7. DeletionTypeOK'
    BY <2>1, <2>3, <2>5, <2>6 DEF TypeOK, DeletionTypeOK, NotesType, DeletionRow
  <2>8. TypeOK'
    BY <1>1, <2>1, <2>7 DEF TypeOK, BaseTypeOK, Moves
  <2>9. QED BY <2>1, <2>3, <2>8, SweepStays, LocalsStay, IdleType
<1>7. QED BY <1>2, <1>3, <1>4, <1>5, <1>6

LEMMA TimeKeepsTypes ==
  ASSUME TInv, UNCHANGED grantVars,
         \/ \E r \in Ids : GraceEnds(r)
         \/ \E t \in Deletable : TenantActs(t)
  PROVE  TInv'
<1> USE DEF TInv
<1>1. GrantTypeOK'
  BY DEF TypeOK, GrantTypeOK, grantVars
<1>2. ASSUME NEW r \in Ids, GraceEnds(r) PROVE TInv'
  <2> DEFINE d == [deletion[r] EXCEPT !.due = TRUE]
  <2>1. /\ deletion[r].status = "pending"
        /\ deletion' = [deletion EXCEPT ![r] = d]
        /\ UNCHANGED <<baseVars, rows, sweep, noteVars, kept>>
    BY <1>2 DEF GraceEnds
  <2>2. deletion[r] \in DeletionRow
    BY DEF TypeOK, DeletionTypeOK, DeletionRow
  <2>3. d \in DeletionRow /\ d.status = "pending" /\ d.tenant = deletion[r].tenant
    BY <2>1, <2>2, RowChange DEF Statuses
  <2> HIDE DEF d
  <2>4. deletion' \in [Ids -> DeletionRow] /\ KeepsFiled
    BY <2>1, <2>3, RowMoves DEF TypeOK
  <2>5. TypeOK'
    BY <1>1, <2>1, <2>4 DEF TypeOK, BaseTypeOK, DeletionTypeOK, DeletionRow, baseVars,
       noteVars
  <2>6. QED BY <2>1, <2>4, <2>5, SweepStays DEF LocalOK, baseVars
<1>3. ASSUME NEW t \in Deletable, TenantActs(t) PROVE TInv'
  <2>1. PICK ks \in {{"records"}, {"objects", "snapshots"}} : Write(t, ks)
    BY <1>3 DEF TenantActs
  <2>2. ks \in SUBSET Kinds /\ t \in Tenants
    BY DeletionAssumption DEF Kinds
  <2>3. rows' \in [Tenants -> SUBSET Kinds] /\ NotesType'
    BY <2>1, <2>2, WriteEffect DEF TypeOK
  <2>4. UNCHANGED <<baseVars, deletion, sweep, kept>>
    BY <1>3 DEF TenantActs
  <2>5. TypeOK'
    BY <1>1, <2>3, <2>4 DEF TypeOK, BaseTypeOK, DeletionTypeOK, NotesType,
       baseVars
  <2>6. QED BY <2>4, <2>5 DEF LocalOK, SweepOK, Filed, baseVars
<1>4. QED BY <1>2, <1>3

\* Steps of the sweep, but for the one that completes a request: they leave
\* the requests for deletion as they are.
LEMMA RunKeepsTypes ==
  ASSUME TInv, UNCHANGED grantVars,
         UNCHANGED <<req, started, deletion, kept>>,
         ledger' \in [Tenants -> Ledger], faults' \in 0..MaxFaults,
         rows' \in [Tenants -> SUBSET Kinds],
         NotesType',
         sweep' \in SweepType, SweepOK'
  PROVE  TInv'
<1>1. Len(Plan) = 12
  BY PlanSteps
<1>2. DeletionTypeOK'
  BY <1>1 DEF TInv, TypeOK, DeletionTypeOK, NotesType, SweepType
<1>3. TypeOK'
  BY <1>2 DEF TInv, TypeOK, BaseTypeOK, GrantTypeOK, grantVars
<1>4. QED BY <1>3 DEF TInv, LocalOK

\* The run under way goes on, or is over.
LEMMA RunSweepOK ==
  ASSUME TInv, UNCHANGED deletion, sweep'.queue = sweep.queue,
         sweep'.at = 0 \/ (sweep.at > 0 /\ sweep'.id = sweep.id)
  PROVE  SweepOK'
BY SweepStays DEF KeepsFiled

LEMMA SweepKeepsTypes ==
  ASSUME TInv, UNCHANGED grantVars, SweepStep
  PROVE  TInv'
<1>1. /\ ledger \in [Tenants -> Ledger] /\ faults \in 0..MaxFaults
      /\ rows \in [Tenants -> SUBSET Kinds]
      /\ NotesType /\ (UNCHANGED noteVars => NotesType')
      /\ sweep \in SweepType /\ DeletionTypeOK
  BY SweepTyped DEF TInv, TypeOK, BaseTypeOK, DeletionTypeOK, NotesType, noteVars
<1>2. CASE FindExpired
  <2>1. /\ sweep' \in SweepType /\ sweep'.at = 0
        /\ sweep'.queue = {r \in Ids : Due(r)}
        /\ UNCHANGED <<baseVars, rows, deletion, noteVars, kept>>
    BY <1>2, FindExpiredDoes
  <2>2. SweepOK'
    BY <2>1 DEF SweepOK, Filed, Due
  <2>3. QED BY <1>1, <2>1, <2>2, RunKeepsTypes DEF baseVars
<1>3. CASE NextRun
  <2>1. PICK r \in sweep.queue :
           /\ Filed(r)
           /\ sweep' \in SweepType /\ sweep'.at = 1 /\ sweep'.id = r
           /\ sweep'.queue = sweep.queue \ {r}
           /\ ledger' \in [Tenants -> Ledger]
           /\ NotesType'
           /\ UNCHANGED <<req, started, faults, rows, deletion, kept>>
    BY <1>3, NextRunDoes
  <2>2. SweepOK'
    BY <2>1 DEF TInv, SweepOK, Filed
  <2>3. QED BY <1>1, <2>1, <2>2, RunKeepsTypes
<1>4. CASE ListThrows \/ CompleteThrows
  <2>1. /\ sweep' \in SweepType /\ sweep'.at = 0 /\ sweep'.queue = sweep.queue
        /\ faults' \in 0..MaxFaults
        /\ NotesType'
        /\ UNCHANGED <<ledger, req, started, deletion, kept, rows>>
    BY <1>1, <1>4, RunThrowsDoes, RunHasTarget, ForgetEffect DEF rowsOnly
  <2>2. QED BY <1>1, <2>1, RunKeepsTypes, RunSweepOK
<1>5. CASE EraseTable \/ EraseCustomer \/ EraseObjects \/ ListObjects
  <2>1. /\ sweep.at > 0 /\ sweep' \in SweepType
        /\ sweep'.id = sweep.id /\ sweep'.queue = sweep.queue
        /\ rows' \in [Tenants -> SUBSET Kinds]
        /\ UNCHANGED <<ledger, req, started, deletion, kept, noteVars, faults>>
    BY <1>1, <1>5, EraseTableDoes, EraseCustomerDoes, EraseObjectsDoes,
       ListObjectsDoes DEF GoesOn, rowsOnly
  <2>2. QED BY <1>1, <2>1, RunKeepsTypes, RunSweepOK
<1>6. CASE EraseBalances \/ EraseLines
  <2>1. /\ sweep.at > 0 /\ sweep' \in SweepType
        /\ sweep'.id = sweep.id /\ sweep'.queue = sweep.queue
        /\ ledger' \in [Tenants -> Ledger]
        /\ UNCHANGED <<req, started, rows, deletion, kept, noteVars, faults>>
    BY <1>6, EraseBalancesDoes, EraseLinesDoes DEF GoesOn, ledgerOnly, Rewrites
  <2>2. QED BY <1>1, <2>1, RunKeepsTypes, RunSweepOK
<1>7. CASE CopyEntries \/ EraseEntries \/ EraseAccounts \/ StepThrows
  <2>1. sweep.at > 0
    BY <1>7, CopyEntriesDoes, EraseEntriesDoes, EraseAccountsDoes, StepThrowsDoes
  <2>2. /\ sweep' \in SweepType
        /\ sweep'.id = sweep.id /\ sweep'.queue = sweep.queue
        /\ ledger' = ledger \/ ledger' \in [Tenants -> Ledger]
        /\ UNCHANGED noteVars \/ \E part \in Parts : Note(part)
        /\ faults' \in 0..MaxFaults
        /\ UNCHANGED <<req, started, rows, deletion, kept>>
    BY <1>1, <1>7, CopyEntriesDoes, EraseEntriesDoes, EraseAccountsDoes,
       StepThrowsDoes, PlanParts DEF GoesOn, ledgerOnly, Rewrites
  <2>3. NotesType'
    BY <1>1, <2>2, NoteEffect
  <2>4. QED BY <1>1, <2>1, <2>2, <2>3, RunKeepsTypes, RunSweepOK
<1>8. CASE Complete
  <2> DEFINE d == [deletion[sweep.id] EXCEPT !.status = "completed"]
  <2>1. /\ sweep.at = 12 /\ sweep.id \in Ids
        /\ deletion' = [deletion EXCEPT ![sweep.id] = d]
        /\ sweep' \in SweepType /\ sweep'.at = 0 /\ sweep'.queue = sweep.queue
        /\ NotesType'
        /\ UNCHANGED <<baseVars, rows, kept>>
    BY <1>1, <1>8, CompleteDoes, RunHasTarget, ForgetEffect
  <2>2. deletion[sweep.id] \in DeletionRow /\ deletion[sweep.id].status # "none"
    BY <2>1 DEF TInv, TypeOK, DeletionTypeOK, DeletionRow, SweepOK, Filed
  <2>3. /\ d \in DeletionRow /\ d.status = "completed"
        /\ d.tenant = deletion[sweep.id].tenant
    BY <2>2, RowChange DEF Statuses
  <2> HIDE DEF d
  <2>4. deletion' \in [Ids -> DeletionRow] /\ KeepsFiled
    BY <1>1, <2>1, <2>2, <2>3, RowMoves
  <2>5. SweepOK'
    BY <2>1, <2>4, SweepStays
  <2>6. DeletionTypeOK'
    BY <1>1, <2>1, <2>4, PlanSteps DEF DeletionTypeOK, NotesType, DeletionRow,
       SweepType
  <2>7. TypeOK'
    BY <2>1, <2>6 DEF TInv, TypeOK, BaseTypeOK, GrantTypeOK, grantVars, baseVars
  <2>8. QED BY <2>1, <2>5, <2>7 DEF TInv, LocalOK, baseVars
<1>9. QED
  BY <1>2, <1>3, <1>4, <1>5, <1>6, <1>7, <1>8 DEF SweepStep

LEMMA CrashKeepsTypes ==
  ASSUME TInv, Crash
  PROVE  TInv'
<1>1. /\ req' \in [Handlers -> Local]
      /\ \A h \in Handlers : req'[h] = Idle
      /\ sweep' = NoSweep /\ sweep' \in SweepType
      /\ ledger' \in [Tenants -> Ledger]
      /\ faults' \in 0..MaxFaults
      /\ unclean' = unclean \cup {g \in Ids : Undoing(g)}
      /\ NotesType'
      /\ UNCHANGED <<started, issued, grant, given, taken,
                     rows, deletion, kept>>
  BY CrashDoes, RunHasTarget, ForgetEffect
     DEF TInv, TypeOK, DeletionTypeOK, NotesType, noteVars
<1>2. SweepOK'
  BY <1>1 DEF SweepOK, NoSweep
<1>3. DeletionTypeOK'
  BY <1>1, PlanSteps DEF TInv, TypeOK, DeletionTypeOK, NotesType, SweepType
<1>4. TypeOK'
  BY <1>1, <1>3 DEF TInv, TypeOK, BaseTypeOK, GrantTypeOK
<1>5. QED BY <1>1, <1>2, <1>4, IdleType DEF TInv, LocalOK

(***************************************************************************)
(* The theorem.                                                            *)
(***************************************************************************)

LEMMA InitTyped ==
  ASSUME Init
  PROVE  TInv
<1>1. BaseTypeOK
  <2>1. 0 \in 0..MaxFaults
    BY LedgerAssumption
  <2>2. [account |-> TRUE, row |-> TRUE, cents |-> 0, fresh |-> 1, copied |-> 0,
         lined |-> TRUE, window |-> FALSE, late |-> 0, lost |-> 0,
         touched |-> FALSE] \in Ledger
    BY DEF Ledger
  <2>3. QED BY <2>1, <2>2, IdleType DEF Init, BaseInit, BaseTypeOK
<1>2. GrantTypeOK
  BY DEF Init, GrantInit, GrantTypeOK, GrantRow, NoGrant
<1>3. DeletionTypeOK
  <2>1. (CHOOSE t \in Tenants : TRUE) \in Tenants
    BY DeletionAssumption
  <2> DEFINE c == CHOOSE t \in Tenants : TRUE
  <2>2. /\ deletion = [r \in Ids |->
             [tenant |-> c, status |-> "none", due |-> FALSE]]
        /\ rows = [t \in Tenants |-> Kinds] /\ sweep = NoSweep
        /\ errors = {} /\ written = [t \in Tenants |-> {}]
        /\ earlier = [t \in Tenants |-> {}] /\ kept = {}
    BY DEF Init, DeletionInit
  <2> HIDE DEF c
  <2>3. c \in Tenants
    BY <2>1 DEF c
  <2>4. deletion \in [Ids -> DeletionRow]
    BY <2>2, <2>3 DEF DeletionRow, Statuses
  <2>5. sweep \in SweepType
    BY <2>2 DEF NoSweep, SweepType
  <2>6. QED BY <2>2, <2>4, <2>5, PlanSteps DEF DeletionTypeOK, DeletionRow, SweepType
<1>4. \A h \in Handlers : LocalOK(h)
  BY IdleType DEF Init, BaseInit, LocalOK
<1>5. SweepOK
  BY DEF Init, DeletionInit, SweepOK, NoSweep
<1>6. QED BY <1>1, <1>2, <1>3, <1>4, <1>5 DEF TInv, TypeOK

LEMMA NextKeepsTypes ==
  ASSUME TInv, [Next]_vars
  PROVE  TInv'
<1>1. CASE GrantNext /\ UNCHANGED deletionVars
  BY <1>1, GrantKeepsTypes
<1>2. CASE DeletionNext /\ UNCHANGED grantVars
  BY <1>2, FilingKeepsTypes, TimeKeepsTypes, SweepKeepsTypes DEF DeletionNext
<1>3. CASE Crash
  BY <1>3, CrashKeepsTypes
<1>4. CASE UNCHANGED vars
  BY <1>4 DEF vars, baseVars, grantVars, deletionVars, noteVars, TInv, TypeOK, BaseTypeOK,
     GrantTypeOK, DeletionTypeOK, LocalOK, SweepOK, Filed
<1>5. QED BY <1>1, <1>2, <1>3, <1>4 DEF Next

\* Types, and whatever a request or a run is about has been issued or filed.
THEOREM TypedAndFiled == Spec => []TInv
<1>1. Init => TInv
  BY InitTyped
<1>2. TInv /\ [Next]_vars => TInv'
  BY NextKeepsTypes
<1>3. QED BY <1>1, <1>2, PTL DEF Spec

\* Every variable keeps its type: in particular no balance is negative, and a
\* run of the sweep never leaves its plan, wherever its statements throw.
THEOREM TypeCorrect == Spec => []TypeOK
BY TypedAndFiled, PTL DEF TInv
=============================================================================
