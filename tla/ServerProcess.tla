----------------------------- MODULE ServerProcess -----------------------------
(***************************************************************************)
(* The server process (index.ts): chat streams, node websockets, setups of *)
(* plugins, requests on bots, webhooks, calls on payment methods, the      *)
(* procedures of the back office and the daily jobs live in it, it may     *)
(* crash at any time, it is shut down gracefully or by force, and it is    *)
(* started again with an empty memory and the same database.               *)
(***************************************************************************)
EXTENDS ChatStreams, NodeConnections, SetupSessions, BotFleet, Payments,
        PaymentMethods, Backoffice, DailyJobs

VARIABLES
  server        \* the process

requestVars == <<chatVars, nodeVars, setupVars, fleetVars, payVars, methodVars, deskVars>>

parts == <<requestVars, jobVars>>

vars == <<budget, parts, server>>

Init ==
  /\ LoadInit
  /\ ChatInit
  /\ NodeInit
  /\ SetupInit
  /\ FleetInit
  /\ PayInit
  /\ MethodInit
  /\ DeskInit
  /\ JobsInit
  /\ server = "up"

\* Every variable keeps its type.
TypeOK ==
  /\ LoadTypeOK
  /\ ChatTypeOK
  /\ NodeTypeOK
  /\ SetupTypeOK
  /\ FleetTypeOK
  /\ PayTypeOK
  /\ MethodTypeOK
  /\ DeskTypeOK
  /\ JobsTypeOK
  /\ server \in {"up", "closing", "down"}

\* A step of one part leaves the others alone.
others(local) == UNCHANGED <<server, local>>

notChat ==
  <<nodeVars, setupVars, fleetVars, payVars, methodVars, deskVars, jobVars>>
notNode ==
  <<chatVars, setupVars, fleetVars, payVars, methodVars, deskVars, jobVars>>
notSetup ==
  <<chatVars, nodeVars, fleetVars, payVars, methodVars, deskVars, jobVars>>
notFleet ==
  <<chatVars, nodeVars, setupVars, payVars, methodVars, deskVars, jobVars>>
notPay ==
  <<chatVars, nodeVars, setupVars, fleetVars, methodVars, deskVars, jobVars>>
notMethod ==
  <<chatVars, nodeVars, setupVars, fleetVars, payVars, deskVars, jobVars>>
notDesk ==
  <<chatVars, nodeVars, setupVars, fleetVars, payVars, methodVars, jobVars>>

-----------------------------------------------------------------------------
\* New connections and requests are taken while the process is up.
Requests ==
  /\ server = "up"
  /\ \/ (OpenStream \/ Post) /\ others(notChat)
     \/ Upgrade /\ others(notNode)
     \/ SetupRequests /\ others(notSetup)
     \/ FleetRequests /\ others(notFleet)
     \/ (BeginCheckout \/ \E p \in PaymentIds : Report(p)) /\ others(notPay)
     \/ MethodRequests /\ others(notMethod)
     \/ DeskRequests /\ others(notDesk)

\* What was begun goes on until the process ends.
Events ==
  /\ server # "down"
  /\ \/ ChatEvents /\ others(notChat)
     \/ NodeEvents /\ others(notNode)
     \/ SetupEvents /\ others(notSetup)
     \/ FleetEvents /\ others(notFleet)
     \/ PayEvents /\ others(notPay)
     \/ MethodEvents /\ others(notMethod)
     \/ DeskEvents /\ others(notDesk)

\* The cleanup of setups runs on a timer, which a shutdown clears.
Sweep(i) ==
  /\ server = "up"
  /\ Cleanup(i)
  /\ UNCHANGED budget
  /\ others(notSetup)

\* So do the daily jobs.
Daily(j) ==
  /\ server = "up"
  /\ RunJob(j)
  /\ UNCHANGED budget
  /\ others(requestVars)

\* Time passes whether the process is there or not.
PassTime ==
  /\ Tick(server = "up")
  /\ others(requestVars)

Backoff(s) ==
  /\ Unblock(s)
  /\ others(notPay)

-----------------------------------------------------------------------------
Ended ==
  /\ server' = "down"
  /\ ChatsCutOff
  /\ NodesCutOff
  /\ SetupsCutOff
  /\ FleetCutOff
  /\ PaymentsCutOff
  /\ CardCallsCutOff
  /\ DeskCutOff
  /\ JobsCutOff

\* uncaughtExceptionHandler exits; so does a kill.
Crash ==
  /\ server # "down"
  /\ Begin("crash")
  /\ Ended

\* SIGTERM or SIGINT: timers are cleared, and no connection is taken any more.
Shutdown ==
  /\ server = "up"
  /\ Begin("crash")
  /\ server' = "closing"
  /\ JobsCutOff
  /\ UNCHANGED requestVars

\* Both servers have closed: no connection is left.
Closable ==
  /\ \A c \in Streams : stream[c].at \notin {"open", "ending"}
  /\ \A w \in Sockets : socket[w].at \in {"unused", "closed"}
  /\ \A i \in Setups : session[i].req = "idle"
  /\ \A k \in SaveSlots : save[k] = NoSetup
  /\ \A h \in FleetSlots : task[h] = NoTask
  /\ \A p \in PaymentIds : payment[p].at \notin CheckingOut \cup Calling
  /\ \A k \in CardSlots : call[k].at = "idle"
  /\ DeskIdle

Close ==
  /\ server = "closing"
  /\ Closable
  /\ Ended
  /\ UNCHANGED budget

\* The timer of ten seconds, which nothing stops.
TimedOut == server = "closing"

ForceExit ==
  /\ TimedOut
  /\ Ended
  /\ UNCHANGED budget

\* The container is started again.
Restart ==
  /\ server = "down"
  /\ server' = "up"
  /\ JobsStart
  /\ UNCHANGED <<budget, requestVars>>

Next ==
  \/ Requests
  \/ Events
  \/ \E i \in Setups : Sweep(i)
  \/ \E j \in Jobs : Daily(j)
  \/ PassTime
  \/ \E s \in Senders : Backoff(s)
  \/ Crash
  \/ Shutdown
  \/ Close
  \/ ForceExit
  \/ Restart

\* The backend answers or fails, the timers run, a payment is reported until
\* it is acknowledged, and the container is restarted.
Fairness ==
  /\ WF_vars(\E m \in Messages :
               Answer(m) /\ server # "down" /\ UNCHANGED budget /\ others(notChat))
  /\ WF_vars(\E i \in Setups : Sweep(i))
  /\ WF_vars(\E p \in PaymentIds : Report(p) /\ server = "up" /\ others(notPay))
  /\ WF_vars(\E p \in PaymentIds : Webhook(p) /\ server # "down" /\ others(notPay))
  /\ WF_vars(\E s \in Senders : Backoff(s))
  /\ WF_vars(ForceExit)
  /\ WF_vars(Restart)

Spec == Init /\ [][Next]_vars /\ Fairness

-----------------------------------------------------------------------------
\* What is checked before it is acted upon holds then, but for what has come in
\* between: for the last card of an account (PaymentMethods), and for logins,
\* subscriptions, storage, nodes and snapshots (StaleChecks).
ChecksFailOnlyWhenOvertaken ==
  /\ LastCardStays
  /\ [][ChecksHold']_checkVars

\* What was not done has a reason: a day without its job (DailyJobs), and a
\* verified user without credit (SignUp).
OmissionsHaveReasons == DayIsCovered /\ VerifiedIsCredited

=============================================================================
