---------------------------- MODULE OrgMembership ----------------------------
(***************************************************************************)
(* One organisation: its tenant row with the owner, its member rows and    *)
(* its invites, and the operations of OrgService (org/org-service.ts) as   *)
(* trpc/routers/org.ts and api/routes/orgs.ts call them.                   *)
(*                                                                         *)
(* The organisation is a team, created once under a random id, or the      *)
(* personal org of its founder, whose id is the founder's and which is     *)
(* created again whenever it is opened and missing.  The owner is kept     *)
(* twice, in tenants.ownerId and in the role of a member row, and the two  *)
(* tables share no transaction and no foreign key.  Every operation reads  *)
(* one row per await, decides, and then writes unconditionally; an UPDATE  *)
(* of a row that is gone changes nothing.                                  *)
(*                                                                         *)
(* Abstracted: names, slugs and the billing e-mail (a taken slug refuses a *)
(* creation before it changes anything); an invite is the user it is sent  *)
(* to and the role it gives; ensurePersonalTenant's insert and re-read are *)
(* one step.                                                               *)
(***************************************************************************)
EXTENDS Naturals, FiniteSets

CONSTANTS
  Users,
  Founder,      \* the user whose personal org this may be, or the first owner
  Handlers,     \* concurrent requests
  NoUser,
  MaxRequests   \* bound: requests started

ASSUME UserAssumption ==
  /\ Founder \in Users
  /\ NoUser \notin Users
  /\ MaxRequests \in Nat

VARIABLES
  owner,     \* tenants.ownerId, NoUser while there is no tenant row
  role,      \* organization_members: the role of each user's row
  invites,   \* organization_invites
  personal,  \* is this the founder's personal org
  asked,     \* has the team's one creation been requested
  pc, req,   \* where a request is, and what it asks
  stale,     \* has the organisation changed since the request first read it
  faults,    \* what has gone wrong so far (history): "overlap", a stale
             \* request has written; "torn", a request stopped between writes
  started    \* requests started

org == <<owner, role, invites>>
vars == <<org, personal, asked, pc, req, stale, faults, started>>

Grantable == {"admin", "member"}
Roles == Grantable \cup {"owner", "none"}

Invite == [user : Users, role : Grantable]
CreateRequest == [kind : {"personal", "create", "rest"}, actor : Users]
Request ==
  CreateRequest
  \cup [kind : {"delete"}, actor : Users]
  \cup [kind : {"remove", "transfer"}, actor : Users, target : Users]
  \cup [kind : {"changeRole", "invite", "revoke"}, actor : Users,
        target : Users, to : Grantable]
NoRequest == [kind |-> "delete", actor |-> Founder]

PCs == {"idle", "gate", "auth", "org", "member", "count", "invite", "write",
        "demote", "own", "insert", "addOwner", "compensate"}

Administers(u) == role[u] \in {"admin", "owner"}

-----------------------------------------------------------------------------
\* The organisation is not there yet, or has an owner, by now perhaps another
\* than its founder, and some members.
Init ==
  /\ personal \in BOOLEAN
  /\ owner \in Users \cup {NoUser}
  /\ asked = (owner # NoUser)
  /\ role \in [Users -> Roles]
  /\ \A u \in Users :
       IF owner = NoUser THEN role[u] = "none" ELSE role[u] = "owner" <=> u = owner
  /\ invites = {}
  /\ pc = [h \in Handlers |-> "idle"]
  /\ req = [h \in Handlers |-> NoRequest]
  /\ stale = [h \in Handlers |-> FALSE]
  /\ faults = {}
  /\ started = 0

Reading(h) == pc[h] \notin {"idle", "gate", "insert"}

\* A write: the other requests' reads are out of date.
Outdate(h) ==
  stale' = [g \in Handlers |->
    IF g = h THEN stale[h] /\ pc'[h] # "idle"
    ELSE stale[g] \/ (Reading(g) /\ org' # org)]

\* Request h has read, and goes on at l.
Goto(h, l) ==
  /\ pc' = [pc EXCEPT ![h] = l]
  /\ UNCHANGED <<org, personal, asked, req, stale, faults, started>>

\* Request h stops, at a refusal or an error.
Quit(h) ==
  /\ pc' = [pc EXCEPT ![h] = "idle"]
  /\ req' = [req EXCEPT ![h] = NoRequest]
  /\ stale' = [stale EXCEPT ![h] = FALSE]
  /\ faults' = IF pc[h] \in {"demote", "own", "addOwner", "compensate"}
               THEN faults \cup {"torn"} ELSE faults
  /\ UNCHANGED <<org, personal, asked, started>>

\* Request h has written, and goes on at l.
Commit(h, l) ==
  /\ pc' = [pc EXCEPT ![h] = l]
  /\ req' = IF l = "idle" THEN [req EXCEPT ![h] = NoRequest] ELSE req
  /\ Outdate(h)
  /\ faults' = IF stale[h] THEN faults \cup {"overlap"} ELSE faults
  /\ UNCHANGED <<personal, asked, started>>

\* UPDATE organization_members: nothing if the row is gone.
SetRole(u, r) ==
  role' = IF role[u] = "none" THEN role ELSE [role EXCEPT ![u] = r]

Begin(h) ==
  /\ pc[h] = "idle"
  /\ started < MaxRequests
  /\ \E r \in Request :
       /\ r.kind = "personal" => personal /\ r.actor = Founder
       /\ r.kind \in {"create", "rest"} => ~personal /\ ~asked
       /\ asked' = (asked \/ r.kind \in {"create", "rest"})
       /\ req' = [req EXCEPT ![h] = r]
       /\ pc' = [pc EXCEPT ![h] =
            IF r \in CreateRequest THEN "insert" ELSE "gate"]
  /\ started' = started + 1
  /\ UNCHANGED <<org, personal, stale, faults>>

\* orgMemberProcedure: any member passes.
Gate(h) ==
  /\ pc[h] = "gate"
  /\ IF role[req[h].actor] = "none" THEN Quit(h)
     ELSE Goto(h, IF req[h].kind \in {"transfer", "delete"}
                  THEN "org" ELSE "auth")

AfterAuthorize(h) ==
  CASE req[h].kind = "invite" -> "write"
    [] req[h].kind = "revoke" -> "invite"
    [] OTHER -> "org"

\* Mutant: any member may act.
AuthorizeMember(h) ==
  /\ pc[h] = "auth"
  /\ IF role[req[h].actor] = "none" THEN Quit(h) ELSE Goto(h, AfterAuthorize(h))

\* requireAdminOrOwner.
Authorize(h) ==
  /\ pc[h] = "auth"
  /\ IF ~Administers(req[h].actor) THEN Quit(h) ELSE Goto(h, AfterAuthorize(h))

\* Mutant: the owner may be removed and demoted.
LoadOrgUnguarded(h) ==
  /\ pc[h] = "org"
  /\ IF \/ owner = NoUser
        \/ (req[h].kind \in {"transfer", "delete"} /\ owner # req[h].actor)
     THEN Quit(h)
     ELSE Goto(h, IF req[h].kind = "delete" THEN "write" ELSE "member")

\* requireOrg, and what each operation asks of the owner: the owner cannot be
\* removed or given another role, only the owner transfers and deletes.
LoadOrg(h) ==
  /\ pc[h] = "org"
  /\ IF \/ owner = NoUser
        \/ req[h].kind \in {"changeRole", "remove"} /\ owner = req[h].target
        \/ req[h].kind \in {"transfer", "delete"} /\ owner # req[h].actor
     THEN Quit(h)
     ELSE Goto(h, IF req[h].kind = "delete" THEN "write" ELSE "member")

\* findMember of the target.
FindMember(h) ==
  /\ pc[h] = "member"
  /\ IF role[req[h].target] = "none" THEN Quit(h)
     ELSE Goto(h, IF req[h].kind = "remove" /\ role[req[h].target] = "admin"
                  THEN "count" ELSE "write")

\* "Cannot remove the last admin".
CountAdmins(h) ==
  /\ pc[h] = "count"
  /\ IF Cardinality({u \in Users : Administers(u)}) <= 1
     THEN Quit(h) ELSE Goto(h, "write")

Writing(h, k) == pc[h] = "write" /\ req[h].kind = k

ChangeRole(h) ==
  /\ Writing(h, "changeRole")
  /\ SetRole(req[h].target, req[h].to)
  /\ UNCHANGED <<owner, invites>>
  /\ Commit(h, "idle")

RemoveMember(h) ==
  /\ Writing(h, "remove")
  /\ role' = [role EXCEPT ![req[h].target] = "none"]
  /\ UNCHANGED <<owner, invites>>
  /\ Commit(h, "idle")

\* transferOwnership: the target's row, the actor's row, the tenant row.
Promote(h) ==
  /\ Writing(h, "transfer")
  /\ SetRole(req[h].target, "owner")
  /\ UNCHANGED <<owner, invites>>
  /\ Commit(h, "demote")

\* Mutant: the former owner keeps its row.
DemoteNobody(h) ==
  /\ pc[h] = "demote"
  /\ UNCHANGED org
  /\ Commit(h, "own")

Demote(h) ==
  /\ pc[h] = "demote"
  /\ SetRole(req[h].actor, "admin")
  /\ UNCHANGED <<owner, invites>>
  /\ Commit(h, "own")

SetOwner(h) ==
  /\ pc[h] = "own"
  /\ owner' = IF owner = NoUser THEN NoUser ELSE req[h].target
  /\ UNCHANGED <<role, invites>>
  /\ Commit(h, "idle")

\* Mutant: the invites are left to expire.
DeleteOrgKeepingInvites(h) ==
  /\ Writing(h, "delete")
  /\ owner' = NoUser
  /\ role' = [u \in Users |-> "none"]
  /\ UNCHANGED invites
  /\ Commit(h, "idle")

\* deleteOrg: one transaction.
DeleteOrg(h) ==
  /\ Writing(h, "delete")
  /\ owner' = NoUser
  /\ role' = [u \in Users |-> "none"]
  /\ invites' = {}
  /\ Commit(h, "idle")

RequestedInvite(h) == [user |-> req[h].target, role |-> req[h].to]

\* Mutant: the invite carries the inviter's role.
InviteMemberAsActor(h) ==
  /\ Writing(h, "invite")
  /\ invites' = invites \cup {[RequestedInvite(h) EXCEPT !.role = role[req[h].actor]]}
  /\ UNCHANGED <<owner, role>>
  /\ Commit(h, "idle")

InviteMember(h) ==
  /\ Writing(h, "invite")
  /\ invites' = invites \cup {RequestedInvite(h)}
  /\ UNCHANGED <<owner, role>>
  /\ Commit(h, "idle")

FindInvite(h) ==
  /\ pc[h] = "invite"
  /\ IF RequestedInvite(h) \in invites THEN Goto(h, "write") ELSE Quit(h)

RevokeInvite(h) ==
  /\ Writing(h, "revoke")
  /\ invites' = invites \ {RequestedInvite(h)}
  /\ UNCHANGED <<owner, role>>
  /\ Commit(h, "idle")

\* The tenant row: inserted for a team, and if missing for a personal org.
\* POST /api/orgs stops here: it adds no member row.
InsertOrg(h) ==
  /\ pc[h] = "insert"
  /\ owner' = IF owner = NoUser THEN req[h].actor ELSE owner
  /\ UNCHANGED <<role, invites>>
  /\ Commit(h, IF req[h].kind = "rest" THEN "idle" ELSE "addOwner")

\* addMember as owner, ON CONFLICT DO NOTHING.
AddOwner(h) ==
  /\ pc[h] = "addOwner"
  /\ role' = IF role[req[h].actor] = "none"
             THEN [role EXCEPT ![req[h].actor] = "owner"] ELSE role
  /\ UNCHANGED <<owner, invites>>
  /\ Commit(h, "idle")

\* addMember fails in createOrg: the tenant row is deleted again.
AddOwnerFails(h) ==
  /\ pc[h] = "addOwner"
  /\ req[h].kind = "create"
  /\ Goto(h, "compensate")

Compensate(h) ==
  /\ pc[h] = "compensate"
  /\ owner' = NoUser
  /\ UNCHANGED <<role, invites>>
  /\ Commit(h, "idle")

\* A call throws, the compensation fails, or the process dies.
Throw(h) ==
  /\ pc[h] # "idle"
  /\ Quit(h)

\* An invite is accepted: a member row with its role.
Join(i) ==
  /\ i \in invites
  /\ role[i.user] = "none"
  /\ role' = [role EXCEPT ![i.user] = i.role]
  /\ invites' = invites \ {i}
  /\ stale' = [g \in Handlers |-> stale[g] \/ Reading(g)]
  /\ UNCHANGED <<owner, personal, asked, pc, req, faults, started>>

Handle(h) ==
  \/ Begin(h)
  \/ Gate(h)
  \/ Authorize(h)
  \/ LoadOrg(h)
  \/ FindMember(h)
  \/ CountAdmins(h)
  \/ ChangeRole(h)
  \/ RemoveMember(h)
  \/ Promote(h)
  \/ Demote(h)
  \/ SetOwner(h)
  \/ DeleteOrg(h)
  \/ InviteMember(h)
  \/ FindInvite(h)
  \/ RevokeInvite(h)
  \/ InsertOrg(h)
  \/ AddOwner(h)
  \/ AddOwnerFails(h)
  \/ Compensate(h)
  \/ Throw(h)

Next == (\E h \in Handlers : Handle(h)) \/ (\E i \in Invite : Join(i))

Spec == Init /\ [][Next]_vars

-----------------------------------------------------------------------------
(* Properties.  A request is stale once the organisation has changed since *)
(* it first read it.                                                       *)

\* Every variable keeps its type.
TypeOK ==
  /\ owner \in Users \cup {NoUser}
  /\ role \in [Users -> Roles]
  /\ invites \subseteq Invite
  /\ personal \in BOOLEAN
  /\ asked \in BOOLEAN
  /\ pc \in [Handlers -> PCs]
  /\ req \in [Handlers -> Request]
  /\ stale \in [Handlers -> BOOLEAN]
  /\ faults \subseteq {"overlap", "torn"}
  /\ started \in Nat

\* However requests fail between their writes, the owner can administer the
\* organisation, unless nobody can (its creation failed, or made no member
\* row): only a request that overlaps another takes the owner's rights away.
OwnerAdministers ==
  "overlap" \notin faults /\ owner # NoUser =>
    Administers(owner) \/ \A u \in Users : role[u] = "none"

\* Of a deleted organisation nothing is left, neither a member nor an invite
\* that would make one, unless a request overlaps the deletion.
DeletedIsEmpty ==
  "overlap" \notin faults /\ owner = NoUser =>
    invites = {} /\ \A u \in Users : role[u] = "none"

\* Unless requests overlap or stop halfway, the owner rows are the owner's: the
\* one exception is the founder of a personal org, whom opening it makes an
\* owner again after the org was transferred and the founder removed.
OneOwnerRow ==
  faults = {} /\ (\A h \in Handlers : pc[h] \notin {"demote", "own"}) =>
    \A u \in Users :
      role[u] = "owner" => u = owner \/ (personal /\ u = Founder)

\* A member row changes on behalf of somebody who administers the organisation
\* at that moment: who was demoted, removed or has handed over ownership can
\* finish what overlaps that, and start nothing new.
OnlyAdministratorsChangeRoles ==
  [][\A u \in Users :
       role'[u] # role[u] =>
         \/ [user |-> u, role |-> role'[u]] \in invites \ invites'
         \/ \E h \in Handlers :
              /\ pc'[h] # pc[h]
              /\ \/ stale[h]
                 \/ Administers(req[h].actor)
                 \/ owner = req[h].actor
                 \/ pc[h] = "addOwner" /\ u = req[h].actor]_vars

\* "Cannot change the owner's role. Use transfer ownership instead."
\* (org-service.ts): a role change is never applied to the owner.
OwnerKeepsRole ==
  [][\A h \in Handlers :
       Writing(h, "changeRole") /\ pc'[h] # "write" /\ role' # role
         => req[h].target # owner]_vars
=============================================================================
