------------------------- MODULE OrgMembershipProofs -------------------------
(* Theorems about OrgMembership, for every set of users and of concurrent   *)
(* requests and every bound on requests.                                    *)
EXTENDS OrgMembership, TLAPS

(***************************************************************************)
(* The inductive invariant.  A request that is not stale has read the      *)
(* organisation as it still is, so what it has found out holds; a stale    *)
(* one that writes leaves "overlap" behind.                                *)
(***************************************************************************)

AllNone == \A u \in Users : role[u] = "none"

\* The places a request passes are those of its kind.
Shape(h) ==
  LET k == req[h].kind IN
  /\ pc[h] = "gate" => k \notin {"personal", "create", "rest"}
  /\ pc[h] = "insert" => k \in {"personal", "create", "rest"}
  /\ pc[h] = "addOwner" => k \in {"personal", "create"}
  /\ pc[h] = "compensate" => k = "create"
  /\ pc[h] \in {"demote", "own"} => k = "transfer"
  /\ pc[h] = "count" => k = "remove"
  /\ pc[h] = "member" => k \in {"changeRole", "remove", "transfer"}
  /\ pc[h] = "invite" => k = "revoke"
  /\ pc[h] = "auth" => k \in {"changeRole", "remove", "invite", "revoke"}
  /\ pc[h] = "org" => k \in {"changeRole", "remove", "transfer", "delete"}
  /\ pc[h] = "write" =>
       k \in {"changeRole", "remove", "transfer", "delete", "invite", "revoke"}
  /\ k = "personal" => personal /\ req[h].actor = Founder
  /\ k \in {"create", "rest"} => ~personal
  /\ pc[h] \in {"idle", "gate", "insert"} => ~stale[h]

\* What a request that is not stale has found out.
Knows(h) ==
  LET k == req[h].kind
      actor == req[h].actor
      target == req[h].target
  IN
  ~stale[h] =>
    /\ (pc[h] \in {"org", "member", "count", "write"} /\ k \in {"changeRole", "remove"})
         => Administers(actor)
    /\ (pc[h] \in {"member", "count", "write"} /\ k \in {"changeRole", "remove"})
         => owner # NoUser /\ owner # target
    /\ pc[h] \in {"invite", "write"} /\ k \in {"invite", "revoke"}
         => Administers(actor)
    /\ pc[h] \in {"member", "write", "demote", "own"} /\ k \in {"transfer", "delete"}
         => owner = actor
    /\ pc[h] = "write" /\ k = "transfer" => role[target] # "none"
    /\ pc[h] = "demote" => role[target] = "owner"
    /\ pc[h] = "own" => Administers(target) /\ role[actor] # "owner"
    /\ pc[h] \in {"addOwner", "compensate"} =>
         /\ owner # NoUser
         /\ k = "create" => owner = actor /\ AllNone /\ invites = {}

\* Without overlaps: an organisation that is gone has left nothing, one that
\* has members is administered by its owner, and one that has none is as its
\* creation has left it.
Populated ==
  "overlap" \notin faults =>
    /\ owner = NoUser => AllNone
    /\ AllNone => invites = {}
    /\ owner # NoUser => Administers(owner) \/ AllNone
    /\ owner # NoUser /\ AllNone /\ personal => owner = Founder

\* Owner rows, also while ownership moves.
OwnerRows ==
  faults = {} =>
    \A u \in Users :
      role[u] = "owner" =>
        \/ u = owner
        \/ personal /\ u = Founder
        \/ \E h \in Handlers : pc[h] \in {"demote", "own"} /\ req[h].target = u

\* The one creation of a team.
Creating(h) == pc[h] = "insert" /\ req[h].kind \in {"create", "rest"}

Unborn == ~personal /\ (~asked \/ \E h \in Handlers : Creating(h))

BornOnce ==
  /\ \A g, h \in Handlers : Creating(g) /\ Creating(h) => asked /\ g = h
  /\ Unborn =>
       /\ owner = NoUser /\ AllNone /\ invites = {}
       /\ \A h \in Handlers : pc[h] \in {"idle", "gate"} \/ Creating(h)

IInv ==
  /\ TypeOK
  /\ Populated
  /\ OwnerRows
  /\ BornOnce
  /\ \A h \in Handlers : Shape(h) /\ Knows(h)

(***************************************************************************)
(* Requests and the moves they share.                                      *)
(***************************************************************************)

LEMMA RequestFields ==
  ASSUME NEW r \in Request
  PROVE  /\ r.actor \in Users
         /\ r.kind \in {"personal", "create", "rest", "delete", "remove",
                       "transfer", "changeRole", "invite", "revoke"}
         /\ r.kind \in {"remove", "transfer", "changeRole", "invite", "revoke"}
              => r.target \in Users
         /\ r.kind \in {"changeRole", "invite", "revoke"} => r.to \in Grantable
         /\ r \in CreateRequest <=> r.kind \in {"personal", "create", "rest"}
BY DEF Request, CreateRequest

LEMMA NoRequestType == NoRequest \in Request /\ NoRequest.kind = "delete"
BY UserAssumption DEF NoRequest, Request

\* Request h is where it was, and so is what it asks.
Unmoved(h) == pc'[h] = pc[h] /\ req'[h] = req[h] /\ UNCHANGED personal

\* A request that does not move knows what it knew, or is stale by now.
LEMMA UnmovedStillKnows ==
  ASSUME NEW h \in Handlers, Unmoved(h), Shape(h), Knows(h),
         stale[h] => stale'[h],
         stale'[h] \in BOOLEAN, stale[h] \in BOOLEAN,
         Reading(h) /\ org' # org => stale'[h],
         ~Reading(h) => stale'[h] = stale[h]
  PROVE  Shape(h)' /\ Knows(h)'
<1>1. Shape(h)'
  BY DEF Unmoved, Shape, Reading
<1>2. CASE ~Reading(h)
  BY <1>1, <1>2 DEF Unmoved, Knows, Reading
<1>3. CASE Reading(h) /\ org' = org
  BY <1>1, <1>3 DEF Unmoved, Knows, org, Administers, AllNone
<1>4. CASE Reading(h) /\ org' # org
  BY <1>1, <1>4 DEF Knows
<1>5. QED BY <1>1, <1>2, <1>3, <1>4

\* What remains to be shown when request h has read and goes on at l: reading
\* changes nothing, and there is an organisation to read.
LEMMA GotoPreserves ==
  ASSUME IInv, NEW h \in Handlers, NEW l \in PCs, Goto(h, l),
         pc[h] \notin {"idle", "insert", "demote", "own"}, l # "insert", ~Unborn,
         Shape(h)', Knows(h)'
  PROVE  IInv'
<1>1. /\ pc'[h] = l
      /\ \A g \in Handlers \ {h} : pc'[g] = pc[g]
      /\ UNCHANGED <<org, personal, asked, req, stale, faults, started>>
  BY DEF Goto, IInv, TypeOK
<1>2. TypeOK'
  BY <1>1 DEF Goto, IInv, TypeOK, org
<1>3. Populated'
  BY <1>1 DEF IInv, Populated, org, AllNone, Administers
<1>4. OwnerRows'
  BY <1>1 DEF IInv, OwnerRows, org
<1>5. \A g \in Handlers : Creating(g)' <=> Creating(g)
  BY <1>1 DEF Creating
<1>6. BornOnce'
  BY <1>1, <1>5 DEF IInv, BornOnce, Unborn
<1>7. ASSUME NEW g \in Handlers \ {h} PROVE Shape(g)' /\ Knows(g)'
  BY <1>1, UnmovedStillKnows DEF IInv, TypeOK, Unmoved
<1>8. QED BY <1>2, <1>3, <1>4, <1>6, <1>7 DEF IInv

\* A request that stops leaves the organisation as it is, "torn" if it was
\* halfway.
LEMMA QuitPreserves ==
  ASSUME IInv, NEW h \in Handlers, pc[h] # "idle", Quit(h)
  PROVE  IInv'
<1>1. /\ pc'[h] = "idle"
      /\ req'[h] = NoRequest
      /\ stale'[h] = FALSE
      /\ \A g \in Handlers \ {h} :
           pc'[g] = pc[g] /\ req'[g] = req[g] /\ stale'[g] = stale[g]
      /\ UNCHANGED <<org, personal, asked, started>>
      /\ faults' = IF pc[h] \in {"demote", "own", "addOwner", "compensate"}
                   THEN faults \cup {"torn"} ELSE faults
  BY DEF Quit, IInv, TypeOK
<1>2. TypeOK'
  BY <1>1, NoRequestType DEF Quit, IInv, TypeOK, PCs, org
<1>3. Populated'
  BY <1>1 DEF IInv, Populated, org, AllNone, Administers
<1>4. OwnerRows'
  <2> SUFFICES ASSUME faults' = {} PROVE OwnerRows'
    BY DEF OwnerRows
  <2>1. faults = {} /\ pc[h] \notin {"demote", "own"}
    BY <1>1
  <2>2. QED BY <1>1, <2>1 DEF IInv, OwnerRows, org
<1>5. /\ ~Creating(h)'
      /\ \A g \in Handlers \ {h} : Creating(g)' <=> Creating(g)
  BY <1>1 DEF Creating
<1>6. BornOnce'
  BY <1>1, <1>5 DEF IInv, BornOnce, Unborn, AllNone, org
<1>7. Shape(h)' /\ Knows(h)'
  BY <1>1, NoRequestType DEF Shape, Knows
<1>8. ASSUME NEW g \in Handlers \ {h} PROVE Shape(g)' /\ Knows(g)'
  BY <1>1, UnmovedStillKnows DEF IInv, TypeOK, Unmoved
<1>9. QED BY <1>2, <1>3, <1>4, <1>6, <1>7, <1>8 DEF IInv

\* What a write does beside changing the organisation.
LEMMA CommitLocals ==
  ASSUME TypeOK, NEW h \in Handlers, NEW l \in PCs, Commit(h, l)
  PROVE  /\ pc' \in [Handlers -> PCs] /\ req' \in [Handlers -> Request]
         /\ stale' \in [Handlers -> BOOLEAN]
         /\ faults' \subseteq {"overlap", "torn"} /\ faults \subseteq faults'
         /\ pc'[h] = l
         /\ req'[h] = IF l = "idle" THEN NoRequest ELSE req[h]
         /\ stale'[h] = (stale[h] /\ l # "idle")
         /\ stale[h] => "overlap" \in faults'
         /\ ~stale[h] => faults' = faults
         /\ UNCHANGED <<personal, asked, started>>
         /\ \A g \in Handlers \ {h} :
              /\ Unmoved(g)
              /\ stale'[g] = (stale[g] \/ (Reading(g) /\ org' # org))
<1>1. /\ pc' = [pc EXCEPT ![h] = l]
      /\ req' = IF l = "idle" THEN [req EXCEPT ![h] = NoRequest] ELSE req
      /\ faults' = IF stale[h] THEN faults \cup {"overlap"} ELSE faults
      /\ UNCHANGED <<personal, asked, started>>
      /\ stale' = [g \in Handlers |->
           IF g = h THEN stale[h] /\ pc'[h] # "idle"
           ELSE stale[g] \/ (Reading(g) /\ org' # org)]
  BY DEF Commit, Outdate
<1>2. /\ pc' \in [Handlers -> PCs] /\ pc'[h] = l
      /\ \A g \in Handlers \ {h} : pc'[g] = pc[g]
  BY <1>1 DEF TypeOK
<1>3. /\ req' \in [Handlers -> Request]
      /\ req'[h] = IF l = "idle" THEN NoRequest ELSE req[h]
      /\ \A g \in Handlers \ {h} : req'[g] = req[g]
  BY <1>1, NoRequestType DEF TypeOK
<1>4. stale' \in [Handlers -> BOOLEAN]
  BY <1>1 DEF TypeOK
<1>5. QED BY <1>1, <1>2, <1>3, <1>4 DEF TypeOK, Unmoved

\* What remains to be shown of a write.
LEMMA CommitPreserves ==
  ASSUME IInv, NEW h \in Handlers, NEW l \in PCs, Commit(h, l),
         l # "insert", Creating(h) \/ ~Unborn,
         owner' \in Users \cup {NoUser}, role' \in [Users -> Roles],
         invites' \subseteq Invite,
         ~stale[h] => Populated' /\ OwnerRows',
         Shape(h)', Knows(h)'
  PROVE  IInv'
<1> USE DEF IInv
<1>1. TypeOK'
  BY CommitLocals DEF TypeOK
<1>2. Populated' /\ OwnerRows'
  <2>1. CASE stale[h]
    BY <2>1, CommitLocals DEF Populated, OwnerRows
  <2>2. QED BY <2>1
<1>3. \A g \in Handlers : ~Creating(g)'
  <2>1. \A g \in Handlers : Creating(g) => g = h
    BY DEF BornOnce, Unborn, Creating, Shape
  <2>2. QED BY <2>1, CommitLocals DEF Creating, Unmoved
<1>4. personal \/ asked
  BY DEF BornOnce, Unborn
<1>5. BornOnce'
  BY <1>3, <1>4, CommitLocals DEF BornOnce, Unborn
<1>6. ASSUME NEW g \in Handlers \ {h} PROVE Shape(g)' /\ Knows(g)'
  <2>1. stale[g] \in BOOLEAN /\ stale'[g] \in BOOLEAN
    BY <1>1 DEF TypeOK
  <2>2. Unmoved(g) /\ stale'[g] = (stale[g] \/ (Reading(g) /\ org' # org))
    BY CommitLocals
  <2>3. QED BY <2>1, <2>2, UnmovedStillKnows
<1>7. QED BY <1>1, <1>2, <1>5, <1>6
(***************************************************************************)
(* Reading steps.                                                          *)
(***************************************************************************)

LEMMA GotoLocals ==
  ASSUME TypeOK, NEW h \in Handlers, NEW l \in PCs, Goto(h, l)
  PROVE  pc'[h] = l /\ UNCHANGED <<owner, role, invites, personal, req, stale>>
BY DEF Goto, TypeOK, org

\* A request that is beyond its first check has an organisation to look at.
LEMMA BeyondGate ==
  ASSUME IInv, NEW h \in Handlers, pc[h] \notin {"idle", "gate", "insert"}
  PROVE  ~Unborn
BY DEF IInv, BornOnce, Creating

LEMMA GatePreserves ==
  ASSUME IInv, NEW h \in Handlers, Gate(h)
  PROVE  IInv'
<1>1. pc[h] = "gate" /\ Shape(h) /\ req[h] \in Request
  BY DEF Gate, IInv, TypeOK
<1>2. CASE Quit(h)
  BY <1>1, <1>2, QuitPreserves
<1>3. CASE ~Quit(h)
  <2> DEFINE l == IF req[h].kind \in {"transfer", "delete"} THEN "org" ELSE "auth"
  <2>1. Goto(h, l) /\ role[req[h].actor] # "none" /\ l \in PCs
    BY <1>3 DEF Gate, PCs
  <2>2. ~Unborn
    BY <1>1, <2>1, RequestFields DEF IInv, BornOnce, AllNone
  <2>3. TypeOK /\ l \in {"org", "auth"}
    BY DEF IInv
  <2> HIDE DEF l
  <2>4. pc'[h] = l /\ UNCHANGED <<owner, role, invites, personal, req, stale>>
    BY <2>1, <2>3, GotoLocals
  <2>5. Shape(h)' /\ Knows(h)'
    <3>1. Shape(h)'
      BY <1>1, <2>4, RequestFields DEF Shape, l
    <3>2. Knows(h)'
      BY <1>1, <2>4 DEF Shape, Knows, l
    <3>3. QED BY <3>1, <3>2
  <2>6. QED BY <1>1, <2>1, <2>2, <2>3, <2>5, GotoPreserves
<1>4. QED BY <1>2, <1>3
LEMMA AuthorizePreserves ==
  ASSUME IInv, NEW h \in Handlers, Authorize(h)
  PROVE  IInv'
<1>1. pc[h] = "auth" /\ Shape(h) /\ Knows(h) /\ req[h] \in Request
  BY DEF Authorize, IInv, TypeOK
<1>2. CASE Quit(h)
  BY <1>1, <1>2, QuitPreserves
<1>3. CASE ~Quit(h)
  <2> DEFINE l == AfterAuthorize(h)
  <2>1. Goto(h, l) /\ TypeOK /\ Administers(req[h].actor)
    BY <1>1, <1>3 DEF Authorize, IInv
  <2>2. l \in {"write", "invite", "org"}
    BY <1>1 DEF Shape, AfterAuthorize
  <2> HIDE DEF l
  <2>3. l \in PCs /\ ~Unborn
    BY <1>1, <2>2, BeyondGate DEF PCs
  <2>4. pc'[h] = l /\ UNCHANGED <<owner, role, invites, personal, req, stale>>
    BY <2>1, <2>3, GotoLocals
  <2>5. Shape(h)'
    BY <1>1, <2>2, <2>4 DEF Shape, l, AfterAuthorize
  <2>6. Knows(h)'
    BY <1>1, <2>1, <2>2, <2>4 DEF Shape, Knows, Administers, l, AfterAuthorize
  <2>7. QED BY <1>1, <2>1, <2>2, <2>3, <2>5, <2>6, GotoPreserves
<1>4. QED BY <1>2, <1>3

LEMMA LoadOrgPreserves ==
  ASSUME IInv, NEW h \in Handlers, LoadOrg(h)
  PROVE  IInv'
<1>1. pc[h] = "org" /\ Shape(h) /\ Knows(h) /\ req[h] \in Request
  BY DEF LoadOrg, IInv, TypeOK
<1>2. CASE Quit(h)
  BY <1>1, <1>2, QuitPreserves
<1>3. CASE ~Quit(h)
  <2> DEFINE l == IF req[h].kind = "delete" THEN "write" ELSE "member"
  <2>1. /\ Goto(h, l) /\ TypeOK
        /\ owner # NoUser
        /\ req[h].kind \in {"changeRole", "remove"} => owner # req[h].target
        /\ req[h].kind \in {"transfer", "delete"} => owner = req[h].actor
    BY <1>1, <1>3 DEF LoadOrg, IInv
  <2>2. l \in {"write", "member"}
    BY <1>1 DEF Shape, AfterAuthorize
  <2> HIDE DEF l
  <2>3. l \in PCs /\ ~Unborn
    BY <1>1, <2>2, BeyondGate DEF PCs
  <2>4. pc'[h] = l /\ UNCHANGED <<owner, role, invites, personal, req, stale>>
    BY <2>1, <2>3, GotoLocals
  <2>5. Shape(h)'
    BY <1>1, <2>2, <2>4 DEF Shape, l, AfterAuthorize
  <2>6. Knows(h)'
    BY <1>1, <2>1, <2>2, <2>4 DEF Shape, Knows, Administers, l, AfterAuthorize
  <2>7. QED BY <1>1, <2>1, <2>2, <2>3, <2>5, <2>6, GotoPreserves
<1>4. QED BY <1>2, <1>3

LEMMA FindMemberPreserves ==
  ASSUME IInv, NEW h \in Handlers, FindMember(h)
  PROVE  IInv'
<1>1. pc[h] = "member" /\ Shape(h) /\ Knows(h) /\ req[h] \in Request
  BY DEF FindMember, IInv, TypeOK
<1>2. CASE Quit(h)
  BY <1>1, <1>2, QuitPreserves
<1>3. CASE ~Quit(h)
  <2> DEFINE l == IF req[h].kind = "remove" /\ role[req[h].target] = "admin"
                  THEN "count" ELSE "write"
  <2>1. Goto(h, l) /\ TypeOK /\ role[req[h].target] # "none"
    BY <1>1, <1>3 DEF FindMember, IInv, Shape
  <2>2. l \in {"count", "write"}
    BY <1>1 DEF Shape, AfterAuthorize
  <2> HIDE DEF l
  <2>3. l \in PCs /\ ~Unborn
    BY <1>1, <2>2, BeyondGate DEF PCs
  <2>4. pc'[h] = l /\ UNCHANGED <<owner, role, invites, personal, req, stale>>
    BY <2>1, <2>3, GotoLocals
  <2>5. Shape(h)'
    BY <1>1, <2>2, <2>4 DEF Shape, l, AfterAuthorize
  <2>6. Knows(h)'
    BY <1>1, <2>1, <2>2, <2>4 DEF Shape, Knows, Administers, l, AfterAuthorize
  <2>7. QED BY <1>1, <2>1, <2>2, <2>3, <2>5, <2>6, GotoPreserves
<1>4. QED BY <1>2, <1>3

LEMMA CountAdminsPreserves ==
  ASSUME IInv, NEW h \in Handlers, CountAdmins(h)
  PROVE  IInv'
<1>1. pc[h] = "count" /\ Shape(h) /\ Knows(h) /\ req[h] \in Request
  BY DEF CountAdmins, IInv, TypeOK
<1>2. CASE Quit(h)
  BY <1>1, <1>2, QuitPreserves
<1>3. CASE ~Quit(h)
  <2> DEFINE l == "write"
  <2>1. Goto(h, l) /\ TypeOK
    BY <1>1, <1>3 DEF CountAdmins, IInv
  <2>2. l \in {"write"}
    BY <1>1 DEF Shape, AfterAuthorize
  <2> HIDE DEF l
  <2>3. l \in PCs /\ ~Unborn
    BY <1>1, <2>2, BeyondGate DEF PCs
  <2>4. pc'[h] = l /\ UNCHANGED <<owner, role, invites, personal, req, stale>>
    BY <2>1, <2>3, GotoLocals
  <2>5. Shape(h)'
    BY <1>1, <2>2, <2>4 DEF Shape, l, AfterAuthorize
  <2>6. Knows(h)'
    BY <1>1, <2>1, <2>2, <2>4 DEF Shape, Knows, Administers, l, AfterAuthorize
  <2>7. QED BY <1>1, <2>1, <2>2, <2>3, <2>5, <2>6, GotoPreserves
<1>4. QED BY <1>2, <1>3

LEMMA FindInvitePreserves ==
  ASSUME IInv, NEW h \in Handlers, FindInvite(h)
  PROVE  IInv'
<1>1. pc[h] = "invite" /\ Shape(h) /\ Knows(h) /\ req[h] \in Request
  BY DEF FindInvite, IInv, TypeOK
<1>2. CASE Quit(h)
  BY <1>1, <1>2, QuitPreserves
<1>3. CASE ~Quit(h)
  <2> DEFINE l == "write"
  <2>1. Goto(h, l) /\ TypeOK
    BY <1>1, <1>3 DEF FindInvite, IInv
  <2>2. l \in {"write"}
    BY <1>1 DEF Shape, AfterAuthorize
  <2> HIDE DEF l
  <2>3. l \in PCs /\ ~Unborn
    BY <1>1, <2>2, BeyondGate DEF PCs
  <2>4. pc'[h] = l /\ UNCHANGED <<owner, role, invites, personal, req, stale>>
    BY <2>1, <2>3, GotoLocals
  <2>5. Shape(h)'
    BY <1>1, <2>2, <2>4 DEF Shape, l, AfterAuthorize
  <2>6. Knows(h)'
    BY <1>1, <2>1, <2>2, <2>4 DEF Shape, Knows, Administers, l, AfterAuthorize
  <2>7. QED BY <1>1, <2>1, <2>2, <2>3, <2>5, <2>6, GotoPreserves
<1>4. QED BY <1>2, <1>3

LEMMA AddOwnerFailsPreserves ==
  ASSUME IInv, NEW h \in Handlers, AddOwnerFails(h)
  PROVE  IInv'
<1>1. /\ pc[h] = "addOwner" /\ req[h].kind = "create"
      /\ Goto(h, "compensate") /\ TypeOK
      /\ Shape(h) /\ Knows(h)
  BY DEF AddOwnerFails, IInv
<1>2. "compensate" \in PCs /\ ~Unborn
  BY <1>1, BeyondGate DEF PCs
<1>3. /\ pc'[h] = "compensate"
      /\ UNCHANGED <<owner, role, invites, personal, req, stale>>
  BY <1>1, <1>2, GotoLocals
<1>4. Shape(h)' /\ Knows(h)'
  BY <1>1, <1>3 DEF Shape, Knows, AllNone
<1>5. QED BY <1>1, <1>2, <1>4, GotoPreserves

LEMMA ThrowPreserves ==
  ASSUME IInv, NEW h \in Handlers, Throw(h)
  PROVE  IInv'
BY QuitPreserves DEF Throw

(***************************************************************************)
(* Requests arrive, and invites are accepted.                              *)
(***************************************************************************)

LEMMA BeginPreserves ==
  ASSUME IInv, NEW h \in Handlers, Begin(h)
  PROVE  IInv'
<1> USE DEF IInv
<1>1. PICK r \in Request :
        /\ r.kind = "personal" => personal /\ r.actor = Founder
        /\ r.kind \in {"create", "rest"} => ~personal /\ ~asked
        /\ asked' = (asked \/ r.kind \in {"create", "rest"})
        /\ req' = [req EXCEPT ![h] = r]
        /\ pc' = [pc EXCEPT ![h] =
             IF r \in CreateRequest THEN "insert" ELSE "gate"]
  BY DEF Begin
<1>2. /\ pc[h] = "idle" /\ started' = started + 1
      /\ UNCHANGED <<org, personal, stale, faults>>
  BY DEF Begin
<1>3. /\ req'[h] = r /\ \A g \in Handlers \ {h} : req'[g] = req[g]
      /\ pc'[h] = IF r \in CreateRequest THEN "insert" ELSE "gate"
      /\ \A g \in Handlers \ {h} : pc'[g] = pc[g]
  BY <1>1 DEF TypeOK
<1>4. TypeOK'
  BY <1>1, <1>2 DEF TypeOK, PCs, org
<1>5. Populated' /\ OwnerRows'
  <2>1. Populated'
    BY <1>2 DEF Populated, org, AllNone, Administers
  <2>2. OwnerRows'
    BY <1>2, <1>3 DEF OwnerRows, org
  <2>3. QED BY <2>1, <2>2
<1>6. BornOnce'
  <2>1. \A g \in Handlers \ {h} : Creating(g)' <=> Creating(g)
    BY <1>3 DEF Creating
  <2>2. ~Creating(h)
    BY <1>2 DEF Creating
  <2>3. CASE r.kind \in {"create", "rest"}
    <3>1. ~personal /\ ~asked /\ asked'
      BY <1>1, <2>3
    <3>2. Unborn
      BY <3>1 DEF Unborn
    <3>3. \A g \in Handlers : ~Creating(g)
      BY <3>1 DEF BornOnce
    <3>4. Creating(h)'
      BY <1>3, <2>3, RequestFields DEF Creating
    <3>5. QED
      BY <1>2, <1>3, <2>1, <3>1, <3>2, <3>3, <3>4
         DEF BornOnce, Creating, AllNone, org
  <2>4. CASE r.kind \notin {"create", "rest"}
    <3>1. ~Creating(h)' /\ asked' = asked
      BY <1>1, <1>3, <2>4 DEF Creating, TypeOK
    <3>2. Unborn' => Unborn
      BY <1>2, <2>1, <3>1 DEF Unborn
    <3>3. Unborn' => pc'[h] \in {"idle", "gate"}
      <4>1. CASE r.kind = "personal"
        BY <1>1, <1>2, <4>1 DEF Unborn
      <4>2. CASE r.kind # "personal"
        BY <1>3, <2>4, <4>2, RequestFields
      <4>3. QED BY <4>1, <4>2
    <3>4. QED
      BY <1>2, <1>3, <2>1, <2>2, <3>1, <3>2, <3>3 DEF BornOnce, AllNone, org
  <2>5. QED BY <2>3, <2>4
<1>7. Shape(h)'
  BY <1>1, <1>2, <1>3, RequestFields DEF Shape
<1>8. Knows(h)'
  BY <1>3 DEF Knows
<1>9. ASSUME NEW g \in Handlers \ {h} PROVE Shape(g)' /\ Knows(g)'
  BY <1>2, <1>3, UnmovedStillKnows DEF TypeOK, Unmoved
<1>10. QED BY <1>4, <1>5, <1>6, <1>7, <1>8, <1>9

LEMMA JoinPreserves ==
  ASSUME IInv, NEW i \in Invite, Join(i)
  PROVE  IInv'
<1> USE DEF IInv
<1>1. /\ i \in invites
      /\ role[i.user] = "none"
      /\ role' = [role EXCEPT ![i.user] = i.role]
      /\ invites' = invites \ {i}
      /\ stale' = [g \in Handlers |-> stale[g] \/ Reading(g)]
      /\ UNCHANGED <<owner, personal, asked, pc, req, faults, started>>
  BY DEF Join
<1>2. i.user \in Users /\ i.role \in Grantable
  BY DEF Invite
<1>3. TypeOK'
  BY <1>1, <1>2 DEF TypeOK, Roles
<1>4. /\ role'[i.user] = i.role
      /\ \A u \in Users \ {i.user} : role'[u] = role[u]
  BY <1>1, <1>2 DEF TypeOK
<1>5. i.role \notin {"none", "owner"}
  BY <1>2 DEF Grantable
<1>6. Populated'
  BY <1>1, <1>2, <1>4, <1>5 DEF Populated, AllNone, Administers, TypeOK
<1>7. OwnerRows'
  BY <1>1, <1>2, <1>4, <1>5 DEF OwnerRows
<1>8. ~Unborn
  BY <1>1 DEF BornOnce
<1>9. BornOnce'
  BY <1>1, <1>8 DEF BornOnce, Unborn, Creating
<1>10. ASSUME NEW g \in Handlers PROVE Shape(g)' /\ Knows(g)'
  BY <1>1, UnmovedStillKnows DEF TypeOK, Unmoved
<1>11. QED BY <1>3, <1>6, <1>7, <1>9, <1>10
(***************************************************************************)
(* Writes.                                                                 *)
(***************************************************************************)

LEMMA SetRoleEffect ==
  ASSUME role \in [Users -> Roles], NEW u \in Users, NEW r \in Roles, r # "none",
         SetRole(u, r)
  PROVE  /\ role' \in [Users -> Roles]
         /\ role'[u] = IF role[u] = "none" THEN "none" ELSE r
         /\ \A v \in Users \ {u} : role'[v] = role[v]
         /\ AllNone' <=> AllNone
BY DEF SetRole, Roles, AllNone

\* A request that has answered has nothing left to show.
LEMMA LastWritePreserves ==
  ASSUME IInv, NEW h \in Handlers, Commit(h, "idle"),
         Creating(h) \/ ~Unborn,
         owner' \in Users \cup {NoUser}, role' \in [Users -> Roles],
         invites' \subseteq Invite,
         ~stale[h] => Populated' /\ OwnerRows'
  PROVE  IInv'
<1>1. "idle" \in PCs /\ TypeOK
  BY DEF PCs, IInv
<1>2. Shape(h)' /\ Knows(h)'
  BY <1>1, CommitLocals, NoRequestType DEF Shape, Knows
<1>3. QED BY <1>1, <1>2, CommitPreserves

\* The owner rows are the owner's, or excused, after a step that adds none.
LEMMA NoOwnerRowAdded ==
  ASSUME IInv, NEW h \in Handlers, NEW l \in PCs, Commit(h, l), ~stale[h],
         pc[h] \in {"demote", "own"} =>
           pc'[h] \in {"demote", "own"} /\ req'[h] = req[h],
         owner' = owner,
         \A u \in Users : role'[u] = "owner" => role[u] = "owner"
  PROVE  OwnerRows'
<1>1. SUFFICES ASSUME faults' = {}, NEW u \in Users, role'[u] = "owner"
               PROVE  \/ u = owner
                      \/ personal /\ u = Founder
                      \/ \E g \in Handlers :
                           pc'[g] \in {"demote", "own"} /\ req'[g].target = u
  BY CommitLocals DEF OwnerRows, IInv
<1>2. faults = {} /\ role[u] = "owner"
  BY <1>1, CommitLocals DEF IInv
<1>3. CASE \E g \in Handlers : pc[g] \in {"demote", "own"} /\ req[g].target = u
  BY <1>3, CommitLocals DEF IInv, Unmoved
<1>4. QED BY <1>2, <1>3 DEF IInv, OwnerRows

LEMMA ChangeRolePreserves ==
  ASSUME IInv, NEW h \in Handlers, ChangeRole(h)
  PROVE  IInv'
<1> DEFINE u == req[h].target
<1>1. /\ pc[h] = "write" /\ req[h].kind = "changeRole"
      /\ SetRole(u, req[h].to)
      /\ UNCHANGED <<owner, invites>>
      /\ Commit(h, "idle")
      /\ TypeOK /\ Knows(h) /\ Populated
  BY DEF ChangeRole, Writing, IInv
<1>2. /\ u \in Users /\ req[h].to \in Grantable /\ role \in [Users -> Roles]
      /\ invites \subseteq Invite /\ owner \in Users \cup {NoUser}
  BY <1>1, RequestFields DEF TypeOK
<1>3. req[h].to \in Roles /\ req[h].to \notin {"none", "owner"}
  BY <1>2 DEF Roles, Grantable
<1>4. /\ role' \in [Users -> Roles]
      /\ role'[u] = IF role[u] = "none" THEN "none" ELSE req[h].to
      /\ \A v \in Users \ {u} : role'[v] = role[v]
      /\ AllNone' <=> AllNone
  BY <1>1, <1>2, <1>3, SetRoleEffect
<1>5. ASSUME ~stale[h] PROVE Populated' /\ OwnerRows'
  <2>1. faults' = faults /\ owner # NoUser /\ owner # u
    BY <1>1, <1>5, CommitLocals DEF Knows, PCs
  <2>2. owner \in Users \ {u} /\ role'[owner] = role[owner]
    BY <1>2, <1>4, <2>1
  <2>3. Populated'
    BY <1>1, <1>4, <2>1, <2>2, CommitLocals DEF Populated, Administers, PCs
  <2>4. OwnerRows'
    BY <1>1, <1>3, <1>4, <1>5, NoOwnerRowAdded DEF PCs
  <2>5. QED BY <2>3, <2>4
<1>6. QED BY <1>1, <1>2, <1>4, <1>5, BeyondGate, LastWritePreserves

LEMMA RemoveMemberPreserves ==
  ASSUME IInv, NEW h \in Handlers, RemoveMember(h)
  PROVE  IInv'
<1> DEFINE u == req[h].target
<1>1. /\ pc[h] = "write" /\ req[h].kind = "remove"
      /\ role' = [role EXCEPT ![u] = "none"]
      /\ UNCHANGED <<owner, invites>>
      /\ Commit(h, "idle")
      /\ TypeOK /\ Knows(h) /\ Populated
  BY DEF RemoveMember, Writing, IInv
<1>2. /\ u \in Users /\ role \in [Users -> Roles]
      /\ invites \subseteq Invite /\ owner \in Users \cup {NoUser}
  BY <1>1, RequestFields DEF TypeOK
<1>3. /\ role' \in [Users -> Roles]
      /\ role'[u] = "none"
      /\ \A v \in Users \ {u} : role'[v] = role[v]
  BY <1>1, <1>2 DEF Roles
<1>4. ASSUME ~stale[h] PROVE Populated' /\ OwnerRows'
  <2>1. faults' = faults /\ owner # NoUser /\ owner # u
    BY <1>1, <1>4, CommitLocals DEF Knows, PCs
  <2>2. owner \in Users \ {u} /\ role'[owner] = role[owner]
    BY <1>2, <1>3, <2>1
  <2>3. AllNone => AllNone'
    BY <1>3 DEF AllNone
  <2>4. Administers(owner) => ~AllNone'
    BY <2>2 DEF Administers, AllNone
  <2>5. Populated'
    BY <1>1, <2>1, <2>2, <2>3, <2>4, CommitLocals
       DEF Populated, Administers, PCs
  <2>6. OwnerRows'
    BY <1>1, <1>3, <1>4, NoOwnerRowAdded DEF PCs
  <2>7. QED BY <2>5, <2>6
<1>5. QED BY <1>1, <1>2, <1>3, <1>4, BeyondGate, LastWritePreserves

\* transferOwnership: from here to SetOwner the target and the actor both hold
\* an owner row, or the actor is an administrator already.
LEMMA PromotePreserves ==
  ASSUME IInv, NEW h \in Handlers, Promote(h)
  PROVE  IInv'
<1> DEFINE u == req[h].target
<1>1. /\ pc[h] = "write" /\ req[h].kind = "transfer"
      /\ SetRole(u, "owner")
      /\ UNCHANGED <<owner, invites>>
      /\ Commit(h, "demote") /\ "demote" \in PCs
      /\ TypeOK /\ Knows(h) /\ Shape(h) /\ Populated /\ OwnerRows
  BY DEF Promote, Writing, IInv, PCs
<1>2. /\ u \in Users /\ role \in [Users -> Roles] /\ "owner" \in Roles
      /\ invites \subseteq Invite /\ owner \in Users \cup {NoUser}
  BY <1>1, RequestFields DEF TypeOK, Roles
<1>3. /\ role' \in [Users -> Roles]
      /\ role'[u] = IF role[u] = "none" THEN "none" ELSE "owner"
      /\ \A v \in Users \ {u} : role'[v] = role[v]
      /\ AllNone' <=> AllNone
  BY <1>1, <1>2, SetRoleEffect
<1>4. /\ pc'[h] = "demote" /\ req'[h] = req[h] /\ stale'[h] = stale[h]
      /\ UNCHANGED personal
      /\ \A g \in Handlers \ {h} : pc'[g] = pc[g] /\ req'[g] = req[g]
  BY <1>1, CommitLocals DEF TypeOK, Unmoved
<1>5. Shape(h)' /\ Knows(h)'
  BY <1>1, <1>3, <1>4 DEF Shape, Knows
<1>6. ASSUME ~stale[h] PROVE Populated' /\ OwnerRows'
  <2>1. faults' = faults
    BY <1>1, <1>6, CommitLocals
  <2>2. ASSUME owner # NoUser PROVE Administers(owner) => Administers(owner)'
    <3>1. owner \in Users
      BY <1>2, <2>2
    <3>2. QED BY <1>1, <1>3, <3>1 DEF Administers
  <2>3. Populated'
    BY <1>1, <1>3, <1>4, <2>1, <2>2 DEF Populated
  <2>4. OwnerRows'
    BY <1>1, <1>3, <1>4, <2>1 DEF OwnerRows
  <2>5. QED BY <2>3, <2>4
<1>7. QED BY <1>1, <1>2, <1>3, <1>5, <1>6, BeyondGate, CommitPreserves

LEMMA DemotePreserves ==
  ASSUME IInv, NEW h \in Handlers, Demote(h)
  PROVE  IInv'
<1> DEFINE a == req[h].actor
           u == req[h].target
<1>1. /\ pc[h] = "demote" /\ req[h].kind = "transfer"
      /\ SetRole(a, "admin")
      /\ UNCHANGED <<owner, invites>>
      /\ Commit(h, "own") /\ "own" \in PCs
      /\ TypeOK /\ Knows(h) /\ Shape(h) /\ Populated /\ OwnerRows
  BY DEF Demote, Shape, IInv, PCs
<1>2. /\ a \in Users /\ u \in Users
      /\ role \in [Users -> Roles] /\ "admin" \in Roles
      /\ invites \subseteq Invite /\ owner \in Users \cup {NoUser}
  BY <1>1, RequestFields DEF TypeOK, Roles, Grantable
<1>3. /\ role' \in [Users -> Roles]
      /\ role'[a] = IF role[a] = "none" THEN "none" ELSE "admin"
      /\ \A v \in Users \ {a} : role'[v] = role[v]
      /\ AllNone' <=> AllNone
  BY <1>1, <1>2, SetRoleEffect
<1>4. /\ pc'[h] = "own" /\ req'[h] = req[h] /\ stale'[h] = stale[h]
      /\ UNCHANGED personal
  BY <1>1, CommitLocals DEF TypeOK
<1>5. Shape(h)' /\ Knows(h)'
  BY <1>1, <1>2, <1>3, <1>4 DEF Shape, Knows, Administers
<1>6. ASSUME ~stale[h] PROVE Populated' /\ OwnerRows'
  <2>1. faults' = faults /\ owner = a
    BY <1>1, <1>6, CommitLocals DEF Knows
  <2>2. Populated'
    BY <1>1, <1>2, <1>3, <1>4, <2>1 DEF Populated, Administers
  <2>3. OwnerRows'
    BY <1>1, <1>3, <1>4, <1>6, NoOwnerRowAdded
  <2>4. QED BY <2>2, <2>3
<1>7. QED BY <1>1, <1>2, <1>3, <1>5, <1>6, BeyondGate, CommitPreserves

LEMMA SetOwnerPreserves ==
  ASSUME IInv, NEW h \in Handlers, SetOwner(h)
  PROVE  IInv'
<1> DEFINE a == req[h].actor
           u == req[h].target
<1>1. /\ pc[h] = "own" /\ req[h].kind = "transfer"
      /\ owner' = IF owner = NoUser THEN NoUser ELSE u
      /\ UNCHANGED <<role, invites>>
      /\ Commit(h, "idle") /\ "idle" \in PCs
      /\ TypeOK /\ Knows(h) /\ Populated /\ OwnerRows
  BY DEF SetOwner, Shape, IInv, PCs
<1>2. /\ a \in Users /\ u \in Users
      /\ role' \in [Users -> Roles]
      /\ invites' \subseteq Invite /\ owner' \in Users \cup {NoUser}
  BY <1>1, RequestFields DEF TypeOK
<1>3. ASSUME ~stale[h] PROVE Populated' /\ OwnerRows'
  <2>1. /\ faults' = faults /\ UNCHANGED personal
        /\ \A g \in Handlers \ {h} : pc'[g] = pc[g] /\ req'[g] = req[g]
    BY <1>1, <1>3, CommitLocals DEF Unmoved
  <2>2. owner = a /\ Administers(u) /\ role[a] # "owner"
    BY <1>1, <1>3 DEF Knows
  <2>3. owner' = u
    BY <1>1, <1>2, <2>2, UserAssumption
  <2>4. ~AllNone'
    BY <1>1, <1>2, <2>2 DEF AllNone, Administers
  <2>5. Populated'
    BY <1>1, <1>2, <2>2, <2>3, <2>4, UserAssumption
       DEF Populated, Administers
  <2>6. OwnerRows'
    BY <1>1, <2>1, <2>2, <2>3 DEF OwnerRows
  <2>7. QED BY <2>5, <2>6
<1>4. QED BY <1>1, <1>2, <1>3, BeyondGate, LastWritePreserves

LEMMA DeleteOrgPreserves ==
  ASSUME IInv, NEW h \in Handlers, DeleteOrg(h)
  PROVE  IInv'
<1>1. /\ pc[h] = "write" /\ req[h].kind = "delete"
      /\ owner' = NoUser
      /\ role' = [u \in Users |-> "none"]
      /\ invites' = {}
      /\ Commit(h, "idle")
  BY DEF DeleteOrg, Writing
<1>2. role' \in [Users -> Roles] /\ AllNone'
  BY <1>1 DEF Roles, AllNone
<1>3. Populated' /\ OwnerRows'
  BY <1>1, <1>2 DEF Populated, OwnerRows, AllNone
<1>4. QED BY <1>1, <1>2, <1>3, BeyondGate, LastWritePreserves

\* Who invites has a member row, so the organisation is not an empty one.
LEMMA InviteMemberPreserves ==
  ASSUME IInv, NEW h \in Handlers, InviteMember(h)
  PROVE  IInv'
<1>1. /\ pc[h] = "write" /\ req[h].kind = "invite"
      /\ invites' = invites \cup {RequestedInvite(h)}
      /\ UNCHANGED <<owner, role>>
      /\ Commit(h, "idle") /\ "idle" \in PCs
      /\ TypeOK /\ Knows(h) /\ Populated
  BY DEF InviteMember, Writing, IInv, PCs
<1>2. req[h].actor \in Users /\ RequestedInvite(h) \in Invite
  BY <1>1, RequestFields DEF TypeOK, RequestedInvite, Invite
<1>3. ASSUME ~stale[h] PROVE Populated' /\ OwnerRows'
  <2>1. Administers(req[h].actor) /\ faults' = faults /\ UNCHANGED personal
    BY <1>1, <1>3, CommitLocals DEF Knows
  <2>2. ~AllNone
    BY <1>2, <2>1 DEF AllNone, Administers
  <2>3. Populated'
    BY <1>1, <2>1, <2>2 DEF Populated, AllNone, Administers
  <2>4. OwnerRows'
    BY <1>1, <1>3, NoOwnerRowAdded
  <2>5. QED BY <2>3, <2>4
<1>4. QED BY <1>1, <1>2, <1>3, BeyondGate, LastWritePreserves DEF TypeOK

LEMMA RevokeInvitePreserves ==
  ASSUME IInv, NEW h \in Handlers, RevokeInvite(h)
  PROVE  IInv'
<1>1. /\ pc[h] = "write" /\ req[h].kind = "revoke"
      /\ invites' = invites \ {RequestedInvite(h)}
      /\ UNCHANGED <<owner, role>>
      /\ Commit(h, "idle") /\ "idle" \in PCs
      /\ TypeOK /\ Populated
  BY DEF RevokeInvite, Writing, IInv, PCs
<1>2. ASSUME ~stale[h] PROVE Populated' /\ OwnerRows'
  <2>1. faults' = faults /\ UNCHANGED personal
    BY <1>1, <1>2, CommitLocals
  <2>2. Populated'
    BY <1>1, <2>1 DEF Populated, AllNone, Administers
  <2>3. OwnerRows'
    BY <1>1, <1>2, NoOwnerRowAdded
  <2>4. QED BY <2>2, <2>3
<1>3. QED BY <1>1, <1>2, BeyondGate, LastWritePreserves DEF TypeOK

\* A team is inserted once, into nothing; a personal org wherever it is
\* missing.
LEMMA InsertOrgPreserves ==
  ASSUME IInv, NEW h \in Handlers, InsertOrg(h)
  PROVE  IInv'
<1> DEFINE a == req[h].actor
           l == IF req[h].kind = "rest" THEN "idle" ELSE "addOwner"
<1>1. /\ pc[h] = "insert"
      /\ owner' = IF owner = NoUser THEN a ELSE owner
      /\ UNCHANGED <<role, invites>>
      /\ Commit(h, l) /\ l \in PCs
      /\ TypeOK /\ Shape(h) /\ Populated /\ OwnerRows /\ BornOnce
  BY DEF InsertOrg, IInv, PCs
<1>2. /\ a \in Users /\ owner' \in Users /\ owner' # NoUser
      /\ role' \in [Users -> Roles] /\ invites' \subseteq Invite
  BY <1>1, RequestFields, UserAssumption DEF TypeOK
<1>3. ~stale[h] /\ l \in {"idle", "addOwner"}
  BY <1>1 DEF Shape
<1>4. /\ pc'[h] = l /\ faults' = faults /\ UNCHANGED personal
      /\ req'[h] = IF l = "idle" THEN NoRequest ELSE req[h]
      /\ \A g \in Handlers \ {h} : pc'[g] = pc[g] /\ req'[g] = req[g]
  BY <1>1, <1>3, CommitLocals DEF Unmoved
<1>5. CASE req[h].kind \in {"create", "rest"}
  <2>1. Creating(h) /\ Unborn
    BY <1>1, <1>5 DEF Creating, Shape, Unborn
  <2>2. owner = NoUser /\ AllNone /\ invites = {} /\ ~personal
    BY <1>1, <2>1 DEF BornOnce, Unborn
  <2>3. owner' = a /\ AllNone' /\ invites' = {}
    BY <1>1, <2>2 DEF AllNone
  <2>4. Populated' /\ OwnerRows'
    BY <1>2, <1>4, <2>2, <2>3 DEF Populated, OwnerRows, AllNone
  <2>5. Shape(h)'
    BY <1>1, <1>3, <1>4, <1>5, NoRequestType, CommitLocals DEF Shape
  <2>6. Knows(h)'
    BY <1>2, <1>3, <1>4, <1>5, <2>3, NoRequestType DEF Knows
  <2> HIDE DEF l
  <2>7. QED BY <1>1, <1>2, <1>3, <2>1, <2>4, <2>5, <2>6, CommitPreserves
<1>6. CASE req[h].kind = "personal"
  <2>1. personal /\ a = Founder /\ l = "addOwner" /\ ~Unborn
    BY <1>1, <1>6 DEF Shape, Unborn
  <2>2. AllNone' <=> AllNone
    BY <1>1 DEF AllNone
  <2>3. Populated'
    BY <1>1, <1>2, <1>4, <2>1, <2>2 DEF Populated, Administers
  <2>4. OwnerRows'
    <3>1. SUFFICES ASSUME faults' = {}, NEW u \in Users, role'[u] = "owner"
                   PROVE  \/ u = owner'
                          \/ personal' /\ u = Founder
                          \/ \E g \in Handlers :
                               pc'[g] \in {"demote", "own"} /\ req'[g].target = u
      BY DEF OwnerRows
    <3>2. faults = {} /\ role[u] = "owner" /\ owner # NoUser
      BY <1>1, <1>4, <3>1 DEF Populated, AllNone
    <3>3. QED BY <1>1, <1>4, <2>1, <3>1, <3>2 DEF OwnerRows
  <2>5. Shape(h)'
    BY <1>1, <1>3, <1>4, <1>6, <2>1 DEF Shape
  <2>6. Knows(h)'
    BY <1>2, <1>3, <1>4, <1>6, <2>1 DEF Knows
  <2> HIDE DEF l
  <2>7. QED BY <1>1, <1>2, <1>3, <2>1, <2>3, <2>4, <2>5, <2>6, CommitPreserves
<1>7. QED BY <1>1, <1>5, <1>6 DEF Shape

LEMMA AddOwnerPreserves ==
  ASSUME IInv, NEW h \in Handlers, AddOwner(h)
  PROVE  IInv'
<1> DEFINE a == req[h].actor
<1>1. /\ pc[h] = "addOwner" /\ req[h].kind \in {"personal", "create"}
      /\ role' = IF role[a] = "none" THEN [role EXCEPT ![a] = "owner"] ELSE role
      /\ UNCHANGED <<owner, invites>>
      /\ Commit(h, "idle") /\ "idle" \in PCs
      /\ TypeOK /\ Shape(h) /\ Knows(h) /\ Populated /\ OwnerRows
  BY DEF AddOwner, Shape, IInv, PCs
<1>2. /\ a \in Users /\ role \in [Users -> Roles]
      /\ invites' \subseteq Invite /\ owner' \in Users \cup {NoUser}
  BY <1>1, RequestFields DEF TypeOK
<1>3. /\ role' \in [Users -> Roles]
      /\ role'[a] # "none"
      /\ role'[a] = "owner" \/ role'[a] = role[a]
      /\ role[a] = "none" => role'[a] = "owner"
      /\ \A u \in Users \ {a} : role'[u] = role[u]
  BY <1>1, <1>2 DEF Roles
<1>4. ASSUME ~stale[h] PROVE Populated' /\ OwnerRows'
  <2>1. /\ faults' = faults /\ UNCHANGED personal
        /\ \A g \in Handlers \ {h} : pc'[g] = pc[g] /\ req'[g] = req[g]
    BY <1>1, <1>4, CommitLocals DEF Unmoved
  <2>2. owner # NoUser /\ owner \in Users /\ ~AllNone'
    BY <1>1, <1>2, <1>3, <1>4 DEF Knows, AllNone
  <2>3. a = owner \/ (personal /\ a = Founder)
    BY <1>1, <1>4 DEF Knows, Shape
  <2>4. "overlap" \notin faults => Administers(owner)'
    <3>1. CASE "overlap" \notin faults /\ AllNone
      <4>1. owner = a
        BY <1>1, <2>2, <2>3, <3>1 DEF Populated
      <4>2. QED BY <1>1, <1>2, <1>3, <3>1, <4>1 DEF Administers, AllNone
    <3>2. CASE "overlap" \notin faults /\ Administers(owner)
      BY <1>1, <1>3, <2>2, <3>2 DEF Administers
    <3>3. QED BY <1>1, <2>2, <3>1, <3>2 DEF Populated
  <2>5. Populated'
    BY <1>1, <2>1, <2>2, <2>4 DEF Populated
  <2>6. OwnerRows'
    BY <1>1, <1>3, <2>1, <2>3 DEF OwnerRows
  <2>7. QED BY <2>5, <2>6
<1>5. QED BY <1>1, <1>2, <1>3, <1>4, BeyondGate, LastWritePreserves

LEMMA CompensatePreserves ==
  ASSUME IInv, NEW h \in Handlers, Compensate(h)
  PROVE  IInv'
<1>1. /\ pc[h] = "compensate" /\ req[h].kind = "create"
      /\ owner' = NoUser
      /\ UNCHANGED <<role, invites>>
      /\ Commit(h, "idle")
      /\ TypeOK /\ Knows(h)
  BY DEF Compensate, Shape, IInv
<1>2. ASSUME ~stale[h] PROVE Populated' /\ OwnerRows'
  <2>1. AllNone' /\ invites' = {}
    BY <1>1, <1>2 DEF Knows, AllNone
  <2>2. QED BY <1>1, <2>1 DEF Populated, OwnerRows, AllNone
<1>3. QED BY <1>1, <1>2, BeyondGate, LastWritePreserves DEF TypeOK

(***************************************************************************)
(* The theorems.                                                           *)
(***************************************************************************)

\* An organisation that is there has its owner's row, one that is not has
\* nothing, and nobody is at work.
LEMMA InitEstablishes ==
  ASSUME Init
  PROVE  IInv
<1>1. TypeOK
  BY NoRequestType DEF Init, TypeOK, PCs
<1>2. Populated
  BY <1>1 DEF Init, Populated, AllNone, Administers, TypeOK
<1>3. OwnerRows
  BY DEF Init, OwnerRows
<1>4. BornOnce
  BY DEF Init, BornOnce, Unborn, Creating, AllNone
<1>5. ASSUME NEW h \in Handlers PROVE Shape(h) /\ Knows(h)
  BY NoRequestType DEF Init, Shape, Knows
<1>6. QED BY <1>1, <1>2, <1>3, <1>4, <1>5 DEF IInv

LEMMA NextPreserves ==
  ASSUME IInv, [Next]_vars
  PROVE  IInv'
<1>1. ASSUME NEW h \in Handlers, Handle(h) PROVE IInv'
  BY <1>1, BeginPreserves, GatePreserves, AuthorizePreserves,
     LoadOrgPreserves, FindMemberPreserves, CountAdminsPreserves,
     ChangeRolePreserves, RemoveMemberPreserves, PromotePreserves,
     DemotePreserves, SetOwnerPreserves, DeleteOrgPreserves,
     InviteMemberPreserves, FindInvitePreserves, RevokeInvitePreserves,
     InsertOrgPreserves, AddOwnerPreserves, AddOwnerFailsPreserves,
     CompensatePreserves, ThrowPreserves DEF Handle
<1>2. ASSUME NEW i \in Invite, Join(i) PROVE IInv'
  BY <1>2, JoinPreserves
<1>3. CASE UNCHANGED vars
  BY <1>3 DEF vars, org, IInv, TypeOK, Populated, OwnerRows, BornOnce, Unborn,
     Creating, AllNone, Administers, Shape, Knows
<1>4. QED BY <1>1, <1>2, <1>3 DEF Next

\* The inductive invariant holds: what a request that is not stale has read is
\* so when it writes, and only the stale and the torn leave the member rows,
\* the invites and the tenant row at odds.
THEOREM IInvHolds == Spec => []IInv
<1>1. Init => IInv
  BY InitEstablishes
<1>2. IInv /\ [Next]_vars => IInv'
  BY NextPreserves
<1>3. QED BY <1>1, <1>2, PTL DEF Spec

\* Every variable keeps its type.
THEOREM TypeCorrect == Spec => []TypeOK
BY IInvHolds, PTL DEF IInv

\* However requests fail between their writes, the owner of an organisation
\* that has members administers it (transferOwnership promotes before it
\* demotes, and moves the tenant row last).
THEOREM OwnersAdminister == Spec => []OwnerAdministers
<1>1. IInv => OwnerAdministers
  BY DEF IInv, Populated, AllNone, OwnerAdministers
<1>2. QED BY <1>1, IInvHolds, PTL

\* Of a deleted organisation neither member rows nor invites are left
\* (deleteOrg, and createOrg's compensation).
THEOREM DeletedAreEmpty == Spec => []DeletedIsEmpty
<1>1. IInv => DeletedIsEmpty
  BY DEF IInv, Populated, AllNone, DeletedIsEmpty
<1>2. QED BY <1>1, IInvHolds, PTL

\* Between transfers the owner rows are the owner's, the founder of a personal
\* org excepted.
THEOREM OwnerRowsAreOwners == Spec => []OneOwnerRow
<1>1. IInv => OneOwnerRow
  BY DEF IInv, OwnerRows, OneOwnerRow
<1>2. QED BY <1>1, IInvHolds, PTL

\* A member row changes through an accepted invite, or on behalf of somebody
\* who still administers the organisation when it is written, or by a request
\* that overlaps the change that took those rights away.
LEMMA RoleChangesAreAuthorized ==
  ASSUME IInv, Next, NEW u \in Users, role'[u] # role[u]
  PROVE  \/ [user |-> u, role |-> role'[u]] \in invites \ invites'
         \/ \E h \in Handlers :
              /\ pc'[h] # pc[h]
              /\ \/ stale[h]
                 \/ Administers(req[h].actor)
                 \/ owner = req[h].actor
                 \/ pc[h] = "addOwner" /\ u = req[h].actor
<1>1. CASE \E i \in Invite : Join(i)
  <2>1. PICK i \in Invite : Join(i)
    BY <1>1
  <2>2. i = [user |-> i.user, role |-> i.role]
    BY DEF Invite
  <2>3. u = i.user /\ role'[u] = i.role
    BY <2>1 DEF Join, IInv, TypeOK
  <2>4. QED BY <2>1, <2>2, <2>3 DEF Join
<1>2. ASSUME NEW h \in Handlers, Handle(h)
      PROVE  /\ pc'[h] # pc[h]
             /\ \/ stale[h]
                \/ Administers(req[h].actor)
                \/ owner = req[h].actor
                \/ pc[h] = "addOwner" /\ u = req[h].actor
  <2>1. Knows(h) /\ Shape(h) /\ TypeOK
    BY DEF IInv
  <2>2. CASE \/ ChangeRole(h) \/ RemoveMember(h) \/ Promote(h)
             \/ Demote(h) \/ DeleteOrg(h)
    <3>1. pc[h] \in {"write", "demote"} /\ pc'[h] # pc[h]
      BY <2>1, <2>2 DEF ChangeRole, RemoveMember, Promote, Demote, DeleteOrg,
         Writing, Commit, TypeOK
    <3>2. /\ pc[h] = "write" =>
               req[h].kind \in {"changeRole", "remove", "transfer", "delete"}
          /\ pc[h] = "demote" => req[h].kind = "transfer"
      BY <2>1, <2>2 DEF ChangeRole, RemoveMember, Promote, Demote, DeleteOrg,
         Writing, Shape
    <3>3. QED BY <2>1, <3>1, <3>2 DEF Knows
  <2>3. CASE AddOwner(h)
    <3>1. pc[h] = "addOwner" /\ pc'[h] = "idle"
      BY <2>1, <2>3 DEF AddOwner, Commit, TypeOK
    <3>2. u = req[h].actor
      BY <2>1, <2>3 DEF AddOwner, TypeOK
    <3>3. QED BY <3>1, <3>2
  <2>4. CASE \/ Begin(h) \/ Gate(h) \/ Authorize(h) \/ LoadOrg(h)
             \/ FindMember(h) \/ CountAdmins(h) \/ FindInvite(h)
             \/ AddOwnerFails(h) \/ Throw(h) \/ SetOwner(h)
             \/ InviteMember(h) \/ RevokeInvite(h) \/ InsertOrg(h)
             \/ Compensate(h)
    <3>1. role' = role
      BY <2>4 DEF Begin, Gate, Authorize, LoadOrg, FindMember, CountAdmins,
         FindInvite, AddOwnerFails, Throw, SetOwner, InviteMember,
         RevokeInvite, InsertOrg, Compensate, Goto, Quit, org
    <3>2. QED BY <3>1
  <2>5. QED BY <1>2, <2>2, <2>3, <2>4 DEF Handle
<1>3. CASE \E h \in Handlers : Handle(h)
  BY <1>2, <1>3
<1>4. QED BY <1>1, <1>3 DEF Next

\* The same of every step: after the checks of requireAdminOrOwner and of
\* transferOwnership, no role is given or taken for anybody else.
THEOREM RolesAreChangedByAdministrators == Spec => OnlyAdministratorsChangeRoles
<1> DEFINE Authorized ==
      \A u \in Users :
        role'[u] # role[u] =>
          \/ [user |-> u, role |-> role'[u]] \in invites \ invites'
          \/ \E h \in Handlers :
               /\ pc'[h] # pc[h]
               /\ \/ stale[h]
                  \/ Administers(req[h].actor)
                  \/ owner = req[h].actor
                  \/ pc[h] = "addOwner" /\ u = req[h].actor
<1>1. IInv /\ [Next]_vars => [Authorized]_vars
  BY RoleChangesAreAuthorized
<1>2. QED BY <1>1, IInvHolds, PTL DEF Spec, OnlyAdministratorsChangeRoles

=============================================================================
