-------------------------------- MODULE SignUp --------------------------------
(***************************************************************************)
(* What a new user gets: the credit for signing up and a workspace, from   *)
(* the hook onUserCreated (index.ts), and the credit once more from the    *)
(* link in the email (api/routes/verify-email.ts).                         *)
(*                                                                         *)
(* grantSignupCredits of platform-core grants a user once; verifyToken     *)
(* takes a token once.  Each step may throw, which is logged and passed    *)
(* over.  The welcome email is abstracted.                                 *)
(***************************************************************************)
EXTENDS ServerLoad

CONSTANTS
  NewUsers      \* bound: users that sign up

VARIABLES
  newcomer      \* the users' accounts, and what is being done for them

signupVars == <<newcomer>>

\* `hook`, `link`: what the hook and the request still have to do.
\* History: `missed`, the grants that failed or were cut off.
Nobody == [created |-> FALSE, verified |-> FALSE, credited |-> FALSE, workspace |-> FALSE,
           hook |-> "idle", link |-> "idle", missed |-> {}]

SignUpInit == newcomer = [u \in NewUsers |-> Nobody]

SignUpTypeOK ==
  newcomer \in [NewUsers -> [created : BOOLEAN, verified : BOOLEAN, credited : BOOLEAN,
    workspace : BOOLEAN, hook : {"idle", "credit", "workspace"}, link : {"idle", "credit"},
    missed : SUBSET {"hook", "link"}]]

-----------------------------------------------------------------------------
CreateUser(u) ==
  /\ ~newcomer[u].created
  /\ Begin("signup")
  /\ newcomer' = [newcomer EXCEPT ![u].created = TRUE, ![u].hook = "credit"]

\* onUserCreated: first the credit,
HookCredit(u) ==
  /\ newcomer[u].hook = "credit"
  /\ \E granted \in BOOLEAN :
       newcomer' = [newcomer EXCEPT
         ![u].hook = "workspace",
         ![u].credited = @ \/ granted,
         ![u].missed = IF granted THEN @ ELSE @ \cup {"hook"}]

\* then the workspace, getOrCreatePersonalOrg.
HookWorkspace(u) ==
  /\ newcomer[u].hook = "workspace"
  /\ \E made \in BOOLEAN :
       newcomer' = [newcomer EXCEPT ![u].hook = "idle", ![u].workspace = @ \/ made]

\* GET /verify: the token is good once.
Verify(u) ==
  /\ newcomer[u].created
  /\ ~newcomer[u].verified
  /\ Begin("signup")
  /\ newcomer' = [newcomer EXCEPT ![u].verified = TRUE, ![u].link = "credit"]

\* Mutant: whoever has verified the address is taken to have the credit.
LinkGrantsNever(granted) == FALSE

LinkGrants(granted) == granted

\* The credit, if the hook has not granted it.
LinkCredit(u) ==
  /\ newcomer[u].link = "credit"
  /\ \E granted \in BOOLEAN :
       newcomer' = [newcomer EXCEPT
         ![u].link = "idle",
         ![u].credited = @ \/ LinkGrants(granted),
         ![u].missed = IF granted THEN @ ELSE @ \cup {"link"}]

SignUpRequests == \E u \in NewUsers : CreateUser(u) \/ Verify(u)

SignUpEvents ==
  /\ \E u \in NewUsers : HookCredit(u) \/ HookWorkspace(u) \/ LinkCredit(u)
  /\ UNCHANGED budget

\* What is left when the process ends: accounts, credits and workspaces.
SignUpCutOff ==
  newcomer' = [u \in NewUsers |->
    [newcomer[u] EXCEPT
      !.hook = "idle", !.link = "idle",
      !.missed = @ \cup (IF newcomer[u].hook = "credit" THEN {"hook"} ELSE {})
                   \cup (IF newcomer[u].link = "credit" THEN {"link"} ELSE {})]]

-----------------------------------------------------------------------------
(* Properties.                                                             *)

\* Of the two grants one is enough: who has verified the address and has no
\* credit has missed both, and nothing makes up for it.
VerifiedIsCredited ==
  \A u \in NewUsers :
    LET user == newcomer[u] IN
    (user.verified /\ ~user.credited /\ user.hook # "credit" /\ user.link = "idle")
      => user.missed = {"hook", "link"}
=============================================================================
