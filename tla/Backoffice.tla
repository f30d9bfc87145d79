------------------------------- MODULE Backoffice -------------------------------
(***************************************************************************)
(* Requests that are served by one process but share nothing else: changes *)
(* of rows, calls that are forwarded to a daemon, procedures that check    *)
(* before they act, streams of logs, and signing up.                       *)
(***************************************************************************)
EXTENDS RowChanges, DaemonCalls, StaleChecks, LogStream, SignUp

deskVars == <<adminVars, daemonVars, checkVars, logVars, signupVars>>

DeskInit ==
  /\ AdminInit
  /\ DaemonInit
  /\ ChecksInit
  /\ LogInit
  /\ SignUpInit

DeskTypeOK ==
  /\ AdminTypeOK
  /\ DaemonTypeOK
  /\ ChecksTypeOK
  /\ LogTypeOK
  /\ SignUpTypeOK

DeskRequests ==
  \/ AdminRequests /\ UNCHANGED <<daemonVars, checkVars, logVars, signupVars>>
  \/ DaemonRequests /\ UNCHANGED <<adminVars, checkVars, logVars, signupVars>>
  \/ ChecksRequests /\ UNCHANGED <<adminVars, daemonVars, logVars, signupVars>>
  \/ LogRequests /\ UNCHANGED <<adminVars, daemonVars, checkVars, signupVars>>
  \/ SignUpRequests /\ UNCHANGED <<adminVars, daemonVars, checkVars, logVars>>

DeskEvents ==
  \/ AdminEvents /\ UNCHANGED <<daemonVars, checkVars, logVars, signupVars>>
  \/ DaemonEvents /\ UNCHANGED <<adminVars, checkVars, logVars, signupVars>>
  \/ ChecksEvents /\ UNCHANGED <<adminVars, daemonVars, logVars, signupVars>>
  \/ LogEvents /\ UNCHANGED <<adminVars, daemonVars, checkVars, signupVars>>
  \/ SignUpEvents /\ UNCHANGED <<adminVars, daemonVars, checkVars, logVars>>

\* What is left when the process ends.
DeskCutOff ==
  /\ AdminCutOff
  /\ RelaysCutOff
  /\ ChecksCutOff
  /\ LogCutOff
  /\ SignUpCutOff

\* Nothing is under way.
DeskIdle ==
  /\ \A i \in AdminCalls : admin[i] = NoCallYet \/ admin[i].answer # "none"
  /\ Relaying = {}
  /\ \A k \in CheckSlots : check[k] = NoCheck
  /\ tail.at # "open"
  /\ \A u \in NewUsers : newcomer[u].link = "idle"

-----------------------------------------------------------------------------
(* Properties.                                                             *)

\* The daemon hears what it is told, and what the container says is heard.
DaemonIsInTouch == ConfigReachesDaemon /\ LogsArriveWhole
=============================================================================
