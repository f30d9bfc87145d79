-------------------------- MODULE ServerProcessProofs --------------------------
(* Theorems about the parts of the server process, for every number of chats, *)
(* streams, sockets, setups, bots, payments and calls, every length of a log  *)
(* and every load: what holds of each of them in spite of crashes, shutdowns, *)
(* forced exits and restarts.                                                 *)
EXTENDS ServerProcess, TLAPS, FiniteSetTheorems, WellFoundedInduction

(***************************************************************************)
(* What a step of the process is for a part: a step of the part, its being *)
(* cut off, or nothing.                                                    *)
(***************************************************************************)

ChatStep ==
  \/ OpenStream
  \/ Post
  \/ \E m \in Messages : Answer(m)
  \/ \E c \in Streams : Disconnect(c) \/ ReadToEnd(c)
  \/ ChatsCutOff
  \/ UNCHANGED chatVars

NodeStep ==
  \/ Upgrade
  \/ \E w \in Sockets : Accept(w) \/ Reject(w) \/ Break(w) \/ Failed(w) \/ Closed(w)
  \/ NodesCutOff
  \/ UNCHANGED nodeVars

SetupStep ==
  \/ SetupRequests
  \/ SetupEvents
  \/ \E i \in Setups : Cleanup(i)
  \/ SetupsCutOff
  \/ UNCHANGED setupVars

FleetStep ==
  \/ FleetRequests
  \/ FleetEvents
  \/ FleetCutOff
  \/ UNCHANGED fleetVars

PayStep ==
  \/ BeginCheckout
  \/ \E p \in PaymentIds : Report(p)
  \/ PayEvents
  \/ \E s \in Senders : Unblock(s)
  \/ PaymentsCutOff
  \/ UNCHANGED payVars

MethodStep ==
  \/ MethodRequests
  \/ MethodEvents
  \/ CardCallsCutOff
  \/ UNCHANGED methodVars

\* A step of the process is one for every part.
LEMMA PartSteps ==
  ASSUME [Next]_vars
  PROVE  ChatStep /\ NodeStep /\ SetupStep /\ FleetStep /\ PayStep /\ MethodStep
<1> USE DEF others, requestVars
<1>1. CASE Requests
  <2>1. CASE (OpenStream \/ Post) /\ others(notChat)
    BY <2>1 DEF notChat, ChatStep, NodeStep, SetupStep, FleetStep, PayStep, MethodStep
  <2>2. CASE Upgrade /\ others(notNode)
    BY <2>2 DEF notNode, ChatStep, NodeStep, SetupStep, FleetStep, PayStep, MethodStep
  <2>3. CASE SetupRequests /\ others(notSetup)
    BY <2>3 DEF notSetup, ChatStep, NodeStep, SetupStep, FleetStep, PayStep, MethodStep
  <2>4. CASE FleetRequests /\ others(notFleet)
    BY <2>4 DEF notFleet, ChatStep, NodeStep, SetupStep, FleetStep, PayStep, MethodStep
  <2>5. CASE (BeginCheckout \/ \E p \in PaymentIds : Report(p)) /\ others(notPay)
    BY <2>5 DEF notPay, ChatStep, NodeStep, SetupStep, FleetStep, PayStep, MethodStep
  <2>6. CASE MethodRequests /\ others(notMethod)
    BY <2>6 DEF notMethod, ChatStep, NodeStep, SetupStep, FleetStep, PayStep, MethodStep
  <2>7. CASE DeskRequests /\ others(notDesk)
    BY <2>7 DEF notDesk, ChatStep, NodeStep, SetupStep, FleetStep, PayStep, MethodStep
  <2>8. QED
    BY <1>1, <2>1, <2>2, <2>3, <2>4, <2>5, <2>6, <2>7 DEF Requests
<1>2. CASE Events
  <2>1. CASE ChatEvents /\ others(notChat)
    BY <2>1
       DEF notChat, ChatEvents, ChatStep, NodeStep, SetupStep, FleetStep, PayStep, MethodStep
  <2>2. CASE NodeEvents /\ others(notNode)
    BY <2>2
       DEF notNode, NodeEvents, ChatStep, NodeStep, SetupStep, FleetStep, PayStep, MethodStep
  <2>3. CASE SetupEvents /\ others(notSetup)
    BY <2>3 DEF notSetup, ChatStep, NodeStep, SetupStep, FleetStep, PayStep, MethodStep
  <2>4. CASE FleetEvents /\ others(notFleet)
    BY <2>4 DEF notFleet, ChatStep, NodeStep, SetupStep, FleetStep, PayStep, MethodStep
  <2>5. CASE PayEvents /\ others(notPay)
    BY <2>5 DEF notPay, ChatStep, NodeStep, SetupStep, FleetStep, PayStep, MethodStep
  <2>6. CASE MethodEvents /\ others(notMethod)
    BY <2>6 DEF notMethod, ChatStep, NodeStep, SetupStep, FleetStep, PayStep, MethodStep
  <2>7. CASE DeskEvents /\ others(notDesk)
    BY <2>7 DEF notDesk, ChatStep, NodeStep, SetupStep, FleetStep, PayStep, MethodStep
  <2>8. QED
    BY <1>2, <2>1, <2>2, <2>3, <2>4, <2>5, <2>6, <2>7 DEF Events
<1>3. CASE \E i \in Setups : Sweep(i)
  BY <1>3 DEF Sweep, notSetup, ChatStep, NodeStep, SetupStep, FleetStep, PayStep, MethodStep
<1>4. CASE (\E j \in Jobs : Daily(j)) \/ PassTime \/ Shutdown \/ Restart
  BY <1>4 DEF Daily, PassTime, Shutdown, Restart, ChatStep, NodeStep, SetupStep,
     FleetStep, PayStep, MethodStep
<1>5. CASE \E s \in Senders : Backoff(s)
  BY <1>5 DEF Backoff, notPay, ChatStep, NodeStep, SetupStep, FleetStep, PayStep, MethodStep
<1>6. CASE Crash \/ Close \/ ForceExit
  BY <1>6 DEF Crash, Close, ForceExit, Ended, ChatStep, NodeStep, SetupStep,
     FleetStep, PayStep, MethodStep
<1>7. CASE UNCHANGED vars
  BY <1>7 DEF vars, parts, ChatStep, NodeStep, SetupStep, FleetStep, PayStep, MethodStep
<1>8. QED
  BY <1>1, <1>2, <1>3, <1>4, <1>5, <1>6, <1>7 DEF Next

(***************************************************************************)
(* Chat streams.  An answer under way whose session has kept its owner is  *)
(* for that owner, and nothing is heard before it is answered.             *)
(***************************************************************************)

StreamRow == [at : StreamStates, chat : Chats, user : Users, heard : SUBSET Messages]

MessageRow == [at : MessageStates, chat : Chats, user : Users, orphan : BOOLEAN]

OwnerAwaitsAnswer ==
  \A m \in Messages :
    message[m].at = "processing" /\ ~message[m].orphan =>
      owner[message[m].chat] = message[m].user

HeardIsAnswered ==
  \A c \in Streams : \A m \in stream[c].heard : message[m].at = "answered"

ChatInv ==
  /\ ChatTypeOK
  /\ OwnerHoldsOpenStreams
  /\ OwnerAwaitsAnswer
  /\ HeardIsAnswered
  /\ AnswerReachesAsker

LEMMA InitChats == ChatInit => ChatInv
<1> SUFFICES ASSUME ChatInit PROVE ChatInv
  OBVIOUS
<1>1. (CHOOSE s \in Chats : TRUE) \in Chats /\ (CHOOSE u \in Users : TRUE) \in Users
  BY ChatAssumption
<1>2. ChatTypeOK
  BY <1>1 DEF ChatInit, ChatTypeOK, NoStream, NoMessage, StreamStates, MessageStates
<1>3. QED
  BY <1>2 DEF ChatInit, ChatInv, OwnerHoldsOpenStreams, OwnerAwaitsAnswer,
     HeardIsAnswered, AnswerReachesAsker, NoStream, NoMessage

\* A session that is claimed has listeners and awaited answers of its claimant
\* only.
LEMMA ClaimedIsOnes ==
  ASSUME ChatInv, NEW s \in Chats, NEW u \in Users, Claim(s, u)
  PROVE  /\ owner' \in [Chats -> Users \cup {NoOwner}]
         /\ owner'[s] = u
         /\ \A t \in Chats : t # s => owner'[t] = owner[t]
         /\ \A c \in ListBySession(s) : stream[c].user = u
         /\ \A t \in Chats, v \in Users : owner[t] = v => owner'[t] = v
BY ChatAssumption DEF Claim, ChatInv, ChatTypeOK, ListBySession, OwnerHoldsOpenStreams

\* What is emitted ends the streams of its session.
LEMMA EmittedEnds ==
  ASSUME ChatTypeOK, NEW s \in Chats, NEW m \in Messages
  PROVE  /\ Emitted(m, s) \in [Streams -> StreamRow]
         /\ \A c \in Streams :
              \/ Emitted(m, s)[c] = stream[c]
              \/ /\ c \in ListBySession(s)
                 /\ Emitted(m, s)[c].at = "ending"
                 /\ Emitted(m, s)[c].user = stream[c].user
                 /\ Emitted(m, s)[c].heard = stream[c].heard \cup {m}
BY DEF Emitted, ChatTypeOK, StreamRow, StreamStates

LEMMA OpenStreamKeeps == ChatInv /\ OpenStream => ChatInv'
<1> SUFFICES ASSUME ChatInv, NEW c \in Streams, NEW s \in Chats, NEW u \in Users,
                    Claim(s, u), message' = message,
                    stream' = [stream EXCEPT ![c] =
                      [at |-> "open", chat |-> s, user |-> u, heard |-> {}]]
             PROVE  ChatInv'
  BY DEF OpenStream, First
<1>1. ChatTypeOK'
  BY ClaimedIsOnes DEF ChatInv, ChatTypeOK, StreamStates
<1>2. QED
  BY <1>1, ClaimedIsOnes DEF ChatInv, ChatTypeOK, OwnerHoldsOpenStreams,
     OwnerAwaitsAnswer, HeardIsAnswered, AnswerReachesAsker

LEMMA PostKeeps == ChatInv /\ Post => ChatInv'
<1> SUFFICES ASSUME ChatInv, Post PROVE ChatInv'
  OBVIOUS
<1>0. PICK m \in Messages, s \in Chats, u \in Users, at \in {"processing", "answered"} :
        /\ message[m].at = "unused"
        /\ Claim(s, u)
        /\ message' = [message EXCEPT ![m] =
             [at |-> at, chat |-> s, user |-> u, orphan |-> FALSE]]
        /\ stream' = IF at = "answered" THEN Emitted(m, s) ELSE stream
  <2>1. \A m \in First({n \in Messages : message[n].at = "unused"}) :
          m \in Messages /\ message[m].at = "unused"
    BY DEF First
  <2>2. QED BY <2>1, Zenon DEF Post
<1> USE <1>0
<1> USE DEF ChatInv
<1>1. ChatTypeOK'
  BY ClaimedIsOnes, EmittedEnds DEF ChatTypeOK, MessageStates, StreamRow
<1>2. \A c \in Streams : m \notin stream[c].heard
  BY DEF HeardIsAnswered
<1>3. \A c \in Streams :
        \/ stream'[c] = stream[c]
        \/ /\ at = "answered" /\ stream'[c].at = "ending"
           /\ stream'[c].user = u /\ stream[c].user = u
           /\ stream'[c].heard = stream[c].heard \cup {m}
  BY EmittedEnds, ClaimedIsOnes
<1>4. OwnerHoldsOpenStreams'
  BY <1>3, ClaimedIsOnes DEF ChatTypeOK, OwnerHoldsOpenStreams
<1>5. OwnerAwaitsAnswer'
  BY ClaimedIsOnes DEF ChatTypeOK, OwnerAwaitsAnswer
<1>6. /\ message'[m].at = at /\ message'[m].user = u
      /\ \A n \in Messages \ {m} : message'[n] = message[n]
  BY DEF ChatTypeOK
<1>7. \A c \in Streams : stream[c].heard \subseteq Messages
  BY DEF ChatTypeOK
<1>8. \A c \in Streams : \A n \in stream[c].heard : message'[n] = message[n]
  BY <1>2, <1>6, <1>7
<1>9. HeardIsAnswered'
  BY <1>3, <1>6, <1>8 DEF HeardIsAnswered
<1>10. AnswerReachesAsker'
  BY <1>3, <1>6, <1>8 DEF AnswerReachesAsker
<1>11. QED BY <1>1, <1>4, <1>5, <1>9, <1>10

LEMMA AnswerKeeps ==
  ASSUME ChatInv, NEW m \in Messages, Answer(m)
  PROVE  ChatInv'
<1> USE DEF ChatInv
<1> DEFINE s == message[m].chat
<1>1. /\ s \in Chats /\ message[m].at = "processing" /\ owner' = owner
      /\ stream' = Emitted(m, s)
      /\ message' = [message EXCEPT ![m].at = "answered"]
  BY DEF Answer, ChatTypeOK
<1> HIDE DEF s
<1>2. ChatTypeOK'
  <2>1. stream' \in [Streams -> StreamRow]
    BY <1>1, EmittedEnds
  <2>2. message' \in [Messages -> MessageRow]
    BY <1>1 DEF ChatTypeOK, MessageRow, MessageStates
  <2>3. QED BY <1>1, <2>1, <2>2 DEF ChatTypeOK, StreamRow, MessageRow
<1>3. \A c \in Streams :
        \/ stream'[c] = stream[c]
        \/ /\ c \in ListBySession(s)
           /\ stream'[c].at = "ending"
           /\ stream'[c].user = stream[c].user
           /\ stream'[c].heard = stream[c].heard \cup {m}
  BY <1>1, EmittedEnds
<1>4. /\ message'[m].at = "answered" /\ message'[m].user = message[m].user
      /\ message'[m].orphan = message[m].orphan
      /\ \A n \in Messages \ {m} : message'[n] = message[n]
  BY <1>1 DEF ChatTypeOK
<1>5. OwnerHoldsOpenStreams'
  BY <1>1, <1>3 DEF OwnerHoldsOpenStreams
<1>6. OwnerAwaitsAnswer'
  BY <1>1, <1>4 DEF OwnerAwaitsAnswer
<1>7. \A c \in ListBySession(s) :
        message[m].user = stream[c].user \/ message[m].orphan
  BY <1>1 DEF s, ListBySession, OwnerHoldsOpenStreams, OwnerAwaitsAnswer
<1>8. \A c \in Streams : stream[c].heard \subseteq Messages
  BY DEF ChatTypeOK
<1>9. HeardIsAnswered'
  BY <1>3, <1>4, <1>8 DEF HeardIsAnswered
<1>10. AnswerReachesAsker'
  BY <1>3, <1>4, <1>7, <1>8 DEF AnswerReachesAsker
<1>11. QED BY <1>2, <1>5, <1>6, <1>9, <1>10

\* The last listener takes the ownership along: answers under way are orphans.
LEMMA DisconnectKeeps ==
  ASSUME ChatInv, NEW c \in Streams, Disconnect(c)
  PROVE  ChatInv'
<1> USE DEF ChatInv
<1>1. stream' = [stream EXCEPT ![c].at = "gone"]
  BY DEF Disconnect
<1>2. CASE ~OwnerLeaves(c)
  <2>1. owner' = owner /\ message' = message
    BY <1>2 DEF Disconnect
  <2>2. QED
    BY <1>1, <2>1 DEF ChatTypeOK, StreamStates, OwnerHoldsOpenStreams,
       OwnerAwaitsAnswer, HeardIsAnswered, AnswerReachesAsker
<1>3. CASE OwnerLeaves(c)
  <2> DEFINE s == stream[c].chat
  <2>1. s \in Chats /\ ClearOwner(s)
    BY <1>3 DEF Disconnect, ChatTypeOK
  <2>2. \A d \in Streams : stream'[d].at = "open" =>
          stream'[d] = stream[d] /\ stream[d].chat # s
    BY <1>1, <1>3 DEF OwnerLeaves, ListBySession, ChatTypeOK
  <2> HIDE DEF s
  <2>3. owner' = [owner EXCEPT ![s] = NoOwner]
    BY <2>1 DEF ClearOwner
  <2>4. \A m \in Messages :
          /\ message'[m] \in MessageRow
          /\ message'[m].at = message[m].at /\ message'[m].chat = message[m].chat
          /\ message'[m].user = message[m].user
          /\ message[m].orphan => message'[m].orphan
          /\ message[m].at = "processing" /\ message[m].chat = s => message'[m].orphan
    BY <2>1 DEF ClearOwner, ChatTypeOK, MessageRow
  <2>5. message' \in [Messages -> MessageRow]
    BY <2>1, <2>4 DEF ClearOwner
  <2>6. ChatTypeOK'
    BY <1>1, <2>1, <2>3, <2>5 DEF ChatTypeOK, MessageRow, StreamStates
  <2>7. OwnerHoldsOpenStreams'
    BY <2>1, <2>2, <2>3 DEF OwnerHoldsOpenStreams, ChatTypeOK
  <2>8. OwnerAwaitsAnswer'
    BY <2>1, <2>3, <2>4 DEF OwnerAwaitsAnswer, ChatTypeOK
  <2>9. \A d \in Streams :
          /\ stream'[d].heard = stream[d].heard /\ stream'[d].user = stream[d].user
          /\ stream[d].heard \subseteq Messages
    BY <1>1 DEF ChatTypeOK
  <2>10. HeardIsAnswered' /\ AnswerReachesAsker'
    BY <2>4, <2>9 DEF HeardIsAnswered, AnswerReachesAsker
  <2>11. QED BY <2>6, <2>7, <2>8, <2>10
<1>4. QED BY <1>2, <1>3

LEMMA CutOffKeepsChats ==
  ASSUME ChatInv, ChatsCutOff
  PROVE  ChatInv'
<1> USE DEF ChatInv
<1>1. ChatTypeOK'
  BY DEF ChatsCutOff, ChatTypeOK, StreamStates, MessageStates
<1>2. \A c \in Streams :
        /\ stream'[c].at # "open"
        /\ stream'[c].heard = stream[c].heard /\ stream'[c].user = stream[c].user
        /\ stream[c].heard \subseteq Messages
  BY DEF ChatsCutOff, ChatTypeOK
<1>3. \A m \in Messages :
        /\ message'[m].at # "processing"
        /\ message[m].at = "answered" => message'[m].at = "answered"
        /\ message'[m].user = message[m].user /\ message'[m].orphan = message[m].orphan
  BY DEF ChatsCutOff, ChatTypeOK
<1>4. QED
  BY <1>1, <1>2, <1>3 DEF OwnerHoldsOpenStreams, OwnerAwaitsAnswer,
     HeardIsAnswered, AnswerReachesAsker

LEMMA ChatStepKeeps == ChatInv /\ ChatStep => ChatInv'
<1>1. ASSUME ChatInv, NEW c \in Streams, ReadToEnd(c) PROVE ChatInv'
  BY <1>1 DEF ReadToEnd, ChatInv, ChatTypeOK, StreamStates, OwnerHoldsOpenStreams,
     OwnerAwaitsAnswer, HeardIsAnswered, AnswerReachesAsker
<1>2. ChatInv /\ UNCHANGED chatVars => ChatInv'
  BY DEF chatVars, ChatInv, ChatTypeOK, OwnerHoldsOpenStreams, OwnerAwaitsAnswer,
     HeardIsAnswered, AnswerReachesAsker
<1>3. QED
  BY <1>1, <1>2, OpenStreamKeeps, PostKeeps, AnswerKeeps, DisconnectKeeps,
     CutOffKeepsChats DEF ChatStep

\* The inductive invariant of chat.
THEOREM ChatsAreSound == Spec => []ChatInv
<1>1. Init => ChatInv
  BY InitChats DEF Init
<1>2. ChatInv /\ [Next]_vars => ChatInv'
  BY PartSteps, ChatStepKeeps
<1>3. QED BY <1>1, <1>2, PTL DEF Spec

\* While one user listens, nobody else gets hold of the session, however
\* streams end and whoever tries (chat-stream-registry.ts).
THEOREM ListenersOwnTheirSession == Spec => []OwnerHoldsOpenStreams
BY ChatsAreSound, PTL DEF ChatInv

\* An answer reaches another user only if its session had lost its owner by a
\* disconnect meanwhile (routes/chat.ts).
THEOREM AnswersReachTheirAskers == Spec => []AnswerReachesAsker
BY ChatsAreSound, PTL DEF ChatInv

(***************************************************************************)
(* Node connections.  Unless a node has connected again too early, it has  *)
(* one connection that is not closed yet.                                  *)
(***************************************************************************)

OneConnection ==
  \A v, w \in Sockets :
    /\ socket[v].node = socket[w].node /\ socket[v].node \notin overlap
    /\ socket[v].at \in {"open", "broken"} /\ socket[w].at \in {"open", "broken"}
    => v = w

NodeInv == NodeTypeOK /\ OneConnection /\ ConnectedIsRegistered

LEMMA InitNodes == NodeInit => NodeInv
<1> SUFFICES ASSUME NodeInit PROVE NodeInv
  OBVIOUS
<1>1. (CHOOSE n \in Nodes : TRUE) \in Nodes
  BY SocketAssumption
<1>2. QED
  BY <1>1 DEF NodeInit, NodeInv, NodeTypeOK, OneConnection, ConnectedIsRegistered,
     SocketStates, NoSocket

LEMMA NodeStepKeeps ==
  ASSUME NodeInv, NodeStep
  PROVE  NodeInv'
<1> USE DEF NodeInv
<1>1. CASE Upgrade
  <2>1. PICK w \in Sockets, n \in Nodes :
          /\ socket' = [socket EXCEPT ![w] = [at |-> "checking", node |-> n]]
          /\ registry' = registry /\ overlap' = overlap
    BY <1>1 DEF Upgrade
  <2>2. QED
    BY <2>1 DEF NodeTypeOK, SocketStates, OneConnection, ConnectedIsRegistered
<1>2. ASSUME NEW w \in Sockets, Accept(w) PROVE NodeInv'
  <2> DEFINE n == socket[w].node
  <2>1. /\ n \in Nodes
        /\ socket' = [socket EXCEPT ![w].at = "open"]
        /\ registry' = [registry EXCEPT ![n] = w]
        /\ overlap' = IF Live(n) = {} THEN overlap ELSE overlap \cup {n}
    BY <1>2 DEF Accept, NodeTypeOK
  <2>2. NodeTypeOK'
    BY <2>1 DEF NodeTypeOK, SocketStates
  <2>3. \A v \in Sockets \ {w} : socket'[v] = socket[v]
    BY <2>1 DEF NodeTypeOK
  <2>4. socket'[w].at = "open" /\ socket'[w].node = n
    BY <2>1 DEF NodeTypeOK
  <2>5. n \notin overlap' => Live(n) = {} /\ overlap' = overlap
    BY <2>1
  <2>6. overlap \subseteq overlap'
    BY <2>1
  <2>7. \A v \in Sockets : Live(n) = {} /\ socket[v].node = n =>
          socket[v].at \notin {"open", "broken"}
    BY DEF Live
  <2>8. /\ registry'[n] = w
        /\ \A m \in Nodes \ {n} : registry'[m] = registry[m]
    BY <2>1 DEF NodeTypeOK
  <2> HIDE DEF n
  <2>9. OneConnection'
    BY <2>3, <2>4, <2>5, <2>6, <2>7 DEF OneConnection
  <2>10. ConnectedIsRegistered'
    <3> SUFFICES ASSUME NEW v \in Sockets, socket'[v].at = "open",
                        socket'[v].node \notin overlap'
                 PROVE  registry'[socket'[v].node] = v
      BY DEF ConnectedIsRegistered
    <3>1. CASE v = w
      BY <2>4, <2>8, <3>1
    <3>2. CASE v # w
      BY <2>3, <2>5, <2>6, <2>7, <2>8, <3>2 DEF ConnectedIsRegistered, NodeTypeOK
    <3>3. QED BY <3>1, <3>2
  <2>11. QED BY <2>2, <2>9, <2>10
<1>3. ASSUME NEW w \in Sockets, Reject(w) \/ Break(w) PROVE NodeInv'
  <2>1. PICK at \in {"broken", "closed"} :
          /\ socket' = [socket EXCEPT ![w].at = at]
          /\ at = "broken" => socket[w].at = "open"
          /\ registry' = registry /\ overlap' = overlap
    BY <1>3 DEF Reject, Break, Refused
  <2>2. NodeTypeOK'
    BY <2>1 DEF NodeTypeOK, SocketStates
  <2>3. \A v \in Sockets :
          /\ socket'[v].node = socket[v].node
          /\ socket'[v].at = "open" => socket[v].at = "open"
          /\ socket'[v].at = "broken" => socket[v].at \in {"open", "broken"}
    BY <2>1 DEF NodeTypeOK
  <2>4. QED
    BY <2>1, <2>2, <2>3 DEF OneConnection, ConnectedIsRegistered
<1>4. ASSUME NEW w \in Sockets, Failed(w) \/ Closed(w) PROVE NodeInv'
  <2> DEFINE n == socket[w].node
  <2>1. n \in Nodes /\ socket[w].at = "broken"
    BY <1>4 DEF Failed, Closed, NodeTypeOK
  <2>2. registry' = [registry EXCEPT ![n] = NoSocket]
    BY <1>4 DEF Failed, Closed, Forgotten
  <2>3. \A v \in Sockets :
          /\ socket'[v].node = socket[v].node
          /\ socket'[v].at # "closed" => socket'[v] = socket[v]
    BY <1>4 DEF Failed, Closed, NodeTypeOK
  <2>4. \/ overlap' = overlap
        \/ /\ overlap' = overlap \ {n} /\ socket'[w].at = "closed"
           /\ \A v \in Sockets \ {w} :
                socket[v].node = n => socket[v].at \notin {"open", "broken"}
    BY <1>4 DEF Failed, Closed, Live, NodeTypeOK
  <2>5. NodeTypeOK'
    BY <1>4, <2>2, <2>4 DEF Failed, Closed, NodeTypeOK, SocketStates
  <2> HIDE DEF n
  <2>6. OneConnection'
    BY <2>3, <2>4 DEF OneConnection
  <2>7. \A v \in Sockets :
          socket'[v].at = "open" /\ socket'[v].node \notin overlap' =>
            socket[v] = socket'[v] /\ socket[v].node # n /\ socket[v].node \notin overlap
    BY <2>1, <2>3, <2>4 DEF OneConnection, n
  <2>8. ConnectedIsRegistered'
    BY <2>2, <2>7 DEF ConnectedIsRegistered, NodeTypeOK
  <2>9. QED BY <2>5, <2>6, <2>8
<1>5. CASE NodesCutOff
  BY <1>5 DEF NodesCutOff, NodeTypeOK, SocketStates, OneConnection,
     ConnectedIsRegistered
<1>6. CASE UNCHANGED nodeVars
  BY <1>6 DEF nodeVars, NodeTypeOK, OneConnection, ConnectedIsRegistered
<1>7. QED BY <1>1, <1>2, <1>3, <1>4, <1>5, <1>6 DEF NodeStep

\* The inductive invariant of the connections.
THEOREM NodesAreSound == Spec => []NodeInv
<1>1. Init => NodeInv
  BY InitNodes DEF Init
<1>2. NodeInv /\ [Next]_vars => NodeInv'
  BY PartSteps, NodeStepKeeps
<1>3. QED BY <1>1, <1>2, PTL DEF Spec

\* A node with an open connection is registered with it, unless it connected
\* again before the server had closed its older connection (index.ts).
THEOREM ConnectedAreRegistered == Spec => []ConnectedIsRegistered
BY NodesAreSound, PTL DEF NodeInv

(***************************************************************************)
(* Setups of plugins.  What is being saved for a setup that is rolled back *)
(* has been overtaken.                                                     *)
(***************************************************************************)

SessionRow ==
  [chat : Chats, status : Statuses, errors : 0..MaxErrors, stale : BOOLEAN,
   req : {"idle", "insert", "inject", "undo"}, raced : BOOLEAN]

OvertakenSave ==
  \A k \in SaveSlots :
    save[k] # NoSetup /\ session[save[k]].status = "rolled_back" =>
      session[save[k]].raced

SetupInv == SetupTypeOK /\ OvertakenSave /\ RolledBackIsUnconfigured

LEMMA InitSetups == SetupInit => SetupInv
<1> SUFFICES ASSUME SetupInit PROVE SetupInv
  OBVIOUS
<1>1. NoSession \in SessionRow
  <2>1. (CHOOSE s \in Chats : TRUE) \in Chats
    BY ChatAssumption
  <2>2. 0 \in 0..MaxErrors
    BY DEF MaxErrors
  <2>3. QED BY <2>1, <2>2 DEF NoSession, SessionRow, Statuses
<1>2. SetupTypeOK
  BY <1>1 DEF SetupInit, SetupTypeOK, SessionRow
<1>3. QED
  BY <1>2 DEF SetupInit, SetupInv, OvertakenSave, RolledBackIsUnconfigured

\* A step that gives one session a row r keeps the invariant if r is not rolled
\* back more than the session was, or what is saved is marked.
LEMMA SessionKeeps ==
  ASSUME SetupInv, NEW i \in Setups, NEW r \in SessionRow,
         session' = [session EXCEPT ![i] = r],
         save' = save, config' \subseteq config,
         \/ r.status # "rolled_back"
         \/ session[i].status = "rolled_back" /\ r.raced = session[i].raced
         \/ (Saving(i) \/ i \in config') => r.raced
  PROVE  SetupInv'
<1> USE DEF SetupInv
<1>1. SetupTypeOK'
  BY DEF SetupTypeOK, SessionRow
<1>2. session'[i] = r /\ \A j \in Setups \ {i} : session'[j] = session[j]
  BY DEF SetupTypeOK
<1>3. OvertakenSave'
  BY <1>2 DEF OvertakenSave, Saving, SetupTypeOK
<1>4. RolledBackIsUnconfigured'
  BY <1>2 DEF RolledBackIsUnconfigured, SetupTypeOK
<1>5. QED BY <1>1, <1>3, <1>4

LEMMA RolledBackRow ==
  ASSUME SetupTypeOK, NEW i \in Setups
  PROVE  /\ RolledBack(i) \in SessionRow
         /\ RolledBack(i).status = "rolled_back"
         /\ Saving(i) => RolledBack(i).raced
         /\ session[i].req = "undo" /\ i \in config => RolledBack(i).raced
BY DEF RolledBack, SetupTypeOK, SessionRow, Statuses, Saving

LEMMA RollBackKeeps ==
  ASSUME SetupInv, NEW i \in Setups, RollBack(i), save' = save
  PROVE  SetupInv'
<1>1. config' = config \ {i}
  BY DEF RollBack
<1>2. CASE Unique(i, "rolled_back")
  BY <1>1, <1>2, RolledBackRow, SessionKeeps DEF RollBack, SetupInv
<1>3. CASE ~Unique(i, "rolled_back")
  BY <1>1, <1>3 DEF RollBack, SetupInv, SetupTypeOK, OvertakenSave,
     RolledBackIsUnconfigured
<1>4. QED BY <1>2, <1>3

LEMMA SetupStepKeeps ==
  ASSUME SetupInv, SetupStep
  PROVE  SetupInv'
<1>0. \A i \in Setups : session[i] \in SessionRow
  BY DEF SetupInv, SetupTypeOK, SessionRow
<1>1. ASSUME BeginSetup PROVE SetupInv'
  <2>1. PICK i \in Setups, s \in Chats :
          /\ session' = [session EXCEPT ![i].chat = s, ![i].req = "insert"]
          /\ session[i] = NoSession
          /\ save' = save /\ config' = config
    BY <1>1 DEF BeginSetup
  <2> DEFINE r == [session[i] EXCEPT !.chat = s, !.req = "insert"]
  <2>2. r \in SessionRow /\ r.status = "none"
    <3>1. r \in SessionRow /\ r.status = session[i].status
      BY <1>0 DEF SessionRow
    <3>2. QED BY <2>1, <3>1 DEF NoSession
  <2>3. session' = [session EXCEPT ![i] = r]
    BY <2>1 DEF SetupInv, SetupTypeOK
  <2>4. QED BY <2>1, <2>2, <2>3, SessionKeeps
<1>2. ASSUME NEW i \in Setups, Insert(i) \/ Inject(i) \/ GoStale(i) PROVE SetupInv'
  <2>1. PICK r \in SessionRow :
          /\ session' = [session EXCEPT ![i] = r]
          /\ r.status = "rolled_back" =>
               session[i].status = "rolled_back" /\ r.raced = session[i].raced
    <3>1. CASE Insert(i)
      <4> DEFINE r == IF Unique(i, "in_progress")
                      THEN [session[i] EXCEPT !.status = "in_progress", !.req = "inject"]
                      ELSE [session[i] EXCEPT !.req = "idle"]
      <4>1. session' = [session EXCEPT ![i] = r]
        BY <3>1 DEF Insert, SetupInv, SetupTypeOK
      <4>2. r \in SessionRow
        BY <1>0 DEF SessionRow, Statuses
      <4>3. r.status = "rolled_back" =>
              session[i].status = "rolled_back" /\ r.raced = session[i].raced
        BY <1>0 DEF SessionRow
      <4>4. QED BY <4>1, <4>2, <4>3
    <3>2. CASE Inject(i)
      <4>1. PICK next \in {"idle", "undo"} : session' = [session EXCEPT ![i].req = next]
        BY <3>2 DEF Inject
      <4> DEFINE r == [session[i] EXCEPT !.req = next]
      <4>2. session' = [session EXCEPT ![i] = r]
        BY <4>1 DEF SetupInv, SetupTypeOK
      <4>3. r \in SessionRow /\ r.status = session[i].status /\ r.raced = session[i].raced
        BY <1>0 DEF SessionRow
      <4>4. QED BY <4>2, <4>3
    <3>3. CASE GoStale(i)
      <4> DEFINE r == [session[i] EXCEPT !.stale = TRUE]
      <4>1. session' = [session EXCEPT ![i] = r]
        BY <3>3 DEF GoStale, SetupInv, SetupTypeOK
      <4>2. r \in SessionRow /\ r.status = session[i].status /\ r.raced = session[i].raced
        BY <1>0 DEF SessionRow
      <4>3. QED BY <4>1, <4>2
    <3>4. QED BY <1>2, <3>1, <3>2, <3>3
  <2>2. save' = save /\ config' = config
    BY <1>2 DEF Insert, Inject, GoStale
  <2>3. QED BY <2>1, <2>2, SessionKeeps
<1>3. ASSUME NEW i \in Setups, UndoInsert(i) PROVE SetupInv'
  <2> DEFINE b == IF Unique(i, "rolled_back") THEN RolledBack(i) ELSE session[i]
             r == [b EXCEPT !.req = "idle"]
  <2>1. b \in SessionRow
    BY <1>0, RolledBackRow DEF SetupInv
  <2>2. r \in SessionRow /\ r.status = b.status /\ r.raced = b.raced
    BY <2>1 DEF SessionRow
  <2>3. /\ session' = [session EXCEPT ![i] = r]
        /\ save' = save /\ config' = config /\ session[i].req = "undo"
    BY <1>3 DEF UndoInsert, SetupInv, SetupTypeOK
  <2>4. \/ r.status = session[i].status /\ r.raced = session[i].raced
        \/ (Saving(i) \/ i \in config') => r.raced
    BY <2>2, <2>3, RolledBackRow DEF SetupInv
  <2> HIDE DEF r, b
  <2>5. QED BY <2>2, <2>3, <2>4, SessionKeeps
<1>4. ASSUME NEW i \in Setups, Rollback(i) \/ Cleanup(i) PROVE SetupInv'
  BY <1>4, RollBackKeeps DEF Rollback, Cleanup
<1>5. ASSUME NEW i \in Setups, Complete(i) PROVE SetupInv'
  <2> DEFINE r == [session[i] EXCEPT !.status = "complete"]
  <2>1. r \in SessionRow /\ r.status # "rolled_back"
    BY <1>0 DEF SessionRow, Statuses
  <2>2. session' = [session EXCEPT ![i] = r] /\ save' = save /\ config' = config
    BY <1>5 DEF Complete, SetupInv, SetupTypeOK
  <2>3. QED BY <2>1, <2>2, SessionKeeps
<1>6. ASSUME NEW i \in Setups, RecordError(i) PROVE SetupInv'
  <2> DEFINE n == session[i].errors + 1
             third == n = MaxErrors /\ Unique(i, "rolled_back")
             b == IF third THEN RolledBack(i) ELSE session[i]
             r == [b EXCEPT !.errors = n]
  <2>1. b \in SessionRow
    BY <1>0, RolledBackRow DEF SetupInv
  <2>2. n \in 0..MaxErrors
    BY <1>0, <1>6 DEF SessionRow, RecordError, MaxErrors
  <2>3. r \in SessionRow /\ r.status = b.status /\ r.raced = b.raced
    BY <2>1, <2>2 DEF SessionRow
  <2>4. /\ session' = [session EXCEPT ![i] = r] /\ save' = save
        /\ config' = IF n = MaxErrors THEN config \ {i} ELSE config
    BY <1>6 DEF RecordError, SetupInv, SetupTypeOK
  <2>5. third /\ (Saving(i) \/ i \in config') => r.raced
    BY <2>3, <2>4, RolledBackRow DEF SetupInv
  <2>6. ~third => r.status = session[i].status /\ r.raced = session[i].raced
    BY <2>3
  <2>7. config' \subseteq config
    BY <2>4
  <2> HIDE DEF r, b, third
  <2>8. QED BY <2>3, <2>4, <2>5, <2>6, <2>7, SessionKeeps
<1>7. ASSUME NEW k \in SaveSlots, BeginSave(k) PROVE SetupInv'
  <2>1. PICK i \in Setups :
          /\ session[i].status = "in_progress"
          /\ save' = [save EXCEPT ![k] = i]
          /\ session' = session /\ config' = config
    BY <1>7 DEF BeginSave, Savable
  <2>2. QED
    BY <2>1 DEF SetupInv, SetupTypeOK, OvertakenSave, RolledBackIsUnconfigured
<1>8. ASSUME NEW k \in SaveSlots, FinishSave(k) PROVE SetupInv'
  <2> DEFINE i == save[k]
  <2>1. i \in Setups /\ save' = [save EXCEPT ![k] = NoSetup] /\ config' = config \cup {i}
    BY <1>8 DEF FinishSave, SetupInv, SetupTypeOK
  <2>2. PICK n \in {0, session[i].errors} : session' = [session EXCEPT ![i].errors = n]
    BY <1>8 DEF FinishSave
  <2>3. session[i].status = "rolled_back" => session[i].raced
    BY <1>8 DEF FinishSave, SetupInv, OvertakenSave
  <2> HIDE DEF i
  <2>4. n \in 0..MaxErrors
    BY <1>0, <2>1 DEF SessionRow, MaxErrors
  <2>5. SetupTypeOK'
    BY <2>1, <2>2, <2>4 DEF SetupInv, SetupTypeOK
  <2>6. \A j \in Setups :
          session'[j].status = session[j].status /\ session'[j].raced = session[j].raced
    BY <2>1, <2>2 DEF SetupInv, SetupTypeOK
  <2>7. QED
    BY <2>1, <2>3, <2>5, <2>6 DEF SetupInv, SetupTypeOK, OvertakenSave,
       RolledBackIsUnconfigured
<1>9. ASSUME NEW k \in SaveSlots, SaveThrows(k) PROVE SetupInv'
  BY <1>9 DEF SaveThrows, SetupInv, SetupTypeOK, OvertakenSave,
     RolledBackIsUnconfigured
<1>10. CASE SetupsCutOff
  BY <1>10 DEF SetupsCutOff, SetupInv, SetupTypeOK, OvertakenSave,
     RolledBackIsUnconfigured
<1>11. CASE UNCHANGED setupVars
  BY <1>11 DEF setupVars, SetupInv, SetupTypeOK, OvertakenSave,
     RolledBackIsUnconfigured
<1>12. QED
  BY <1>1, <1>2, <1>3, <1>4, <1>5, <1>6, <1>7, <1>8, <1>9, <1>10, <1>11
     DEF SetupStep, SetupRequests, SetupEvents

\* The inductive invariant of the setups.
THEOREM SetupsAreSound == Spec => []SetupInv
<1>1. Init => SetupInv
  BY InitSetups DEF Init
<1>2. SetupInv /\ [Next]_vars => SetupInv'
  BY PartSteps, SetupStepKeeps
<1>3. QED BY <1>1, <1>2, PTL DEF Spec

\* A setup that was rolled back leaves no configuration, unless a save of it
\* was overtaken, or was done before the request that had started it failed
\* (routes/setup.ts).
THEOREM RolledBackAreUnconfigured == Spec => []RolledBackIsUnconfigured
BY SetupsAreSound, PTL DEF SetupInv

(***************************************************************************)
(* Payments.  A charge that somebody could pay is in the table of charges, *)
(* and Stripe's call is cleared and acknowledged after it was handled.     *)
(***************************************************************************)

PaymentRow == [by : Senders, at : PaymentStages, known : BOOLEAN, handled : BOOLEAN]

\* What can be said of a purchase.
PaymentOK(r) ==
  /\ r.by = "crypto" /\ r.at \in {"open", "due", "acknowledged"} \cup Calling => r.known
  /\ r.by = "stripe" /\ r.at = "clearing" => r.handled
  /\ r.at = "acknowledged" => r.handled

PayInv == PayTypeOK /\ \A p \in PaymentIds : PaymentOK(payment[p])

LEMMA InitPayments == PayInit => PayInv
BY DEF PayInit, PayInv, PayTypeOK, PaymentOK, NoPayment, Senders, PaymentStages,
   Calling, CheckingOut

\* A step that changes one purchase to a row of which the same can be said.
LEMMA PaymentKeeps ==
  ASSUME PayInv, NEW p \in PaymentIds, NEW r \in PaymentRow, PaymentOK(r),
         payment' = [payment EXCEPT ![p] = r],
         penalty' \in [Senders -> [failed : BOOLEAN, blocked : BOOLEAN]]
  PROVE  PayInv'
BY DEF PayInv, PayTypeOK, PaymentRow

\* Going to another stage: the type, and the other fields.
LEMMA MoveDoes ==
  ASSUME PayInv, NEW p \in PaymentIds, NEW at \in PaymentStages, Move(p, at)
  PROVE  \E r \in PaymentRow :
           /\ payment' = [payment EXCEPT ![p] = r]
           /\ r.at = at /\ r.by = payment[p].by
           /\ r.known = payment[p].known /\ r.handled = payment[p].handled
<1> DEFINE r == [payment[p] EXCEPT !.at = at]
<1>1. payment[p] \in PaymentRow
  BY DEF PayInv, PayTypeOK, PaymentRow
<1>2. /\ r \in PaymentRow /\ r.at = at /\ r.by = payment[p].by
      /\ r.known = payment[p].known /\ r.handled = payment[p].handled
  BY <1>1 DEF PaymentRow
<1>3. payment' = [payment EXCEPT ![p] = r]
  BY DEF Move, PayInv, PayTypeOK
<1>4. QED BY <1>2, <1>3

\* Such a step keeps the invariant where the stage asks for nothing new.
LEMMA MoveKeeps ==
  ASSUME PayInv, NEW p \in PaymentIds, NEW at \in PaymentStages, Move(p, at),
         penalty' \in [Senders -> [failed : BOOLEAN, blocked : BOOLEAN]],
         payment[p].by = "crypto" /\ at \in {"open", "due", "acknowledged"} \cup Calling
           => payment[p].known,
         payment[p].by = "stripe" /\ at = "clearing" => payment[p].handled,
         at = "acknowledged" => payment[p].handled
  PROVE  PayInv'
<1>1. PICK r \in PaymentRow :
        /\ payment' = [payment EXCEPT ![p] = r]
        /\ r.at = at /\ r.by = payment[p].by
        /\ r.known = payment[p].known /\ r.handled = payment[p].handled
  BY MoveDoes
<1>2. QED BY <1>1, PaymentKeeps DEF PaymentOK

LEMMA CheckoutKeeps ==
  ASSUME PayInv, NEW p \in PaymentIds,
         \/ CreateSession(p) \/ CreateCharge(p) \/ RecordCharge(p)
         \/ CheckoutFails(p) \/ Pay(p)
  PROVE  PayInv'
<1>1. /\ penalty' = penalty
      /\ penalty \in [Senders -> [failed : BOOLEAN, blocked : BOOLEAN]]
      /\ PaymentOK(payment[p]) /\ payment[p] \in PaymentRow
  BY DEF PayInv, PayTypeOK, PaymentRow, CreateSession, CreateCharge, RecordCharge,
     CheckoutFails, Pay
<1>2. CASE CreateSession(p) \/ CreateCharge(p) \/ CheckoutFails(p) \/ Pay(p)
  <2>1. PICK at \in {"open", "recording", "given up", "due"} :
          /\ Move(p, at)
          /\ at = "open" => payment[p].by = "stripe"
          /\ at = "due" => payment[p].at = "open"
    BY <1>2 DEF CreateSession, CreateCharge, CheckoutFails, Pay, AfterCreateCharge, By
  <2>2. at \in PaymentStages
    BY DEF PaymentStages, CheckingOut
  <2>3. QED
    BY <1>1, <2>1, <2>2, MoveKeeps DEF PaymentOK, Calling
<1>3. CASE RecordCharge(p)
  <2> DEFINE r == [payment[p] EXCEPT !.known = TRUE, !.at = "open"]
  <2>1. r \in PaymentRow /\ r.at = "open" /\ r.known
    BY <1>1 DEF PaymentRow, PaymentStages
  <2>2. payment' = [payment EXCEPT ![p] = r]
    BY <1>3 DEF RecordCharge, PayInv, PayTypeOK
  <2> HIDE DEF r
  <2>3. QED BY <1>1, <2>1, <2>2, PaymentKeeps DEF PaymentOK
<1>4. QED BY <1>2, <1>3

LEMMA WebhookKeeps ==
  ASSUME PayInv, NEW p \in PaymentIds, Report(p) \/ Webhook(p)
  PROVE  PayInv'
<1>1. PaymentOK(payment[p]) /\ payment[p] \in PaymentRow
  BY DEF PayInv, PayTypeOK, PaymentRow
<1>2. penalty' \in [Senders -> [failed : BOOLEAN, blocked : BOOLEAN]]
  <2>1. \/ penalty' = penalty
        \/ \E v \in [failed : BOOLEAN, blocked : BOOLEAN] :
             penalty' = [penalty EXCEPT ![payment[p].by] = v]
    <3>1. CASE Clear(p) \/ Fail(p)
      BY <3>1 DEF Clear, Fail
    <3>2. CASE ~(Clear(p) \/ Fail(p))
      BY <3>2 DEF Report, Webhook, Refuse, AdmitStripe, AdmitCrypto, HandleStripe,
         HandleCrypto
    <3>3. QED BY <3>1, <3>2
  <2>2. QED BY <2>1 DEF PayInv, PayTypeOK
<1>3. payment[p].at \in {"due"} \cup Calling
  BY DEF Report, Webhook, Refuse, AdmitStripe, AdmitCrypto, HandleStripe,
     HandleCrypto, Clear, Fail, Calling
<1>4. payment[p].by = "crypto" => payment[p].known
  BY <1>1, <1>3 DEF PaymentOK
<1>5. CASE \E at \in {"asked", "due", "handling", "failing"} : Move(p, at)
  <2>1. {"asked", "due", "handling", "failing"} \subseteq PaymentStages
    BY DEF PaymentStages, Calling
  <2>2. QED BY <1>2, <1>4, <1>5, <2>1, MoveKeeps
<1>6. CASE AdmitCrypto(p) /\ Move(p, "clearing")
  BY <1>2, <1>4, <1>6, MoveKeeps DEF AdmitCrypto, By, PaymentStages, Calling
<1>7. CASE HandleStripe(p) \/ HandleCrypto(p)
  <2> DEFINE s == [payment[p] EXCEPT !.handled = TRUE, !.at = "clearing"]
             c == [payment[p] EXCEPT !.handled = @ \/ payment[p].known,
                                     !.at = "acknowledged"]
  <2>1. \/ \E at \in {"due", "failing"} : Move(p, at)
        \/ payment[p].by = "stripe" /\ payment' = [payment EXCEPT ![p] = s]
        \/ payment[p].by = "crypto" /\ payment' = [payment EXCEPT ![p] = c]
    BY <1>7 DEF HandleStripe, HandleCrypto, By, PayInv, PayTypeOK
  <2>2. s \in PaymentRow /\ s.handled /\ s.by = payment[p].by
    BY <1>1 DEF PaymentRow, PaymentStages, Calling
  <2>3. /\ c \in PaymentRow /\ c.by = payment[p].by /\ c.known = payment[p].known
        /\ payment[p].known => c.handled
        /\ c.at = "acknowledged"
    BY <1>1 DEF PaymentRow, PaymentStages
  <2>4. payment[p].by = "stripe" => PaymentOK(s)
    BY <2>2 DEF PaymentOK
  <2>5. payment[p].by = "crypto" => PaymentOK(c)
    BY <1>4, <2>3 DEF PaymentOK
  <2> HIDE DEF s, c
  <2>6. QED
    BY <1>2, <1>5, <2>1, <2>2, <2>3, <2>4, <2>5, PaymentKeeps
<1>8. CASE Clear(p)
  <2>1. \/ \E at \in {"handling", "failing"} : Move(p, at)
        \/ payment[p].by = "stripe" /\ payment[p].at = "clearing" /\ Move(p, "acknowledged")
    BY <1>8 DEF Clear
  <2>2. QED
    BY <1>1, <1>2, <1>5, <2>1, MoveKeeps DEF PaymentOK, PaymentStages
<1>9. QED
  <2>1. CASE Report(p) \/ Refuse(p) \/ AdmitStripe(p) \/ Fail(p)
    BY <1>5, <2>1 DEF Report, Refuse, AdmitStripe, Fail
  <2>2. CASE AdmitCrypto(p)
    BY <1>5, <1>6, <2>2 DEF AdmitCrypto
  <2>3. QED BY <1>7, <1>8, <2>1, <2>2 DEF Webhook

LEMMA PayStepKeeps ==
  ASSUME PayInv, PayStep
  PROVE  PayInv'
<1>1. CASE BeginCheckout
  <2>1. PICK p \in PaymentIds, s \in Senders :
          /\ payment' = [payment EXCEPT ![p].by = s, ![p].at = "creating"]
          /\ penalty' = penalty
    BY <1>1 DEF BeginCheckout
  <2> DEFINE r == [payment[p] EXCEPT !.by = s, !.at = "creating"]
  <2>2. r \in PaymentRow /\ r.at = "creating"
    BY DEF PayInv, PayTypeOK, PaymentRow, PaymentStages, CheckingOut
  <2>3. payment' = [payment EXCEPT ![p] = r]
    BY <2>1 DEF PayInv, PayTypeOK
  <2>4. PaymentOK(r)
    BY <2>2 DEF PaymentOK, Calling
  <2> HIDE DEF r
  <2>5. QED BY <2>1, <2>2, <2>3, <2>4, PaymentKeeps DEF PayInv, PayTypeOK
<1>2. CASE \E s \in Senders : Unblock(s)
  <2>1. PICK s \in Senders :
          penalty' = [penalty EXCEPT ![s].blocked = FALSE] /\ payment' = payment
    BY <1>2 DEF Unblock
  <2>2. penalty' \in [Senders -> [failed : BOOLEAN, blocked : BOOLEAN]]
    BY <2>1 DEF PayInv, PayTypeOK
  <2>3. QED BY <2>1, <2>2 DEF PayInv, PayTypeOK
<1>3. CASE PaymentsCutOff
  <2> DEFINE at(p) == IF payment[p].at \in Calling THEN "due"
                      ELSE IF payment[p].at \in CheckingOut THEN "given up"
                      ELSE payment[p].at
             r(p) == [payment[p] EXCEPT !.at = at(p)]
  <2>1. payment' = [p \in PaymentIds |-> r(p)] /\ penalty' = penalty
    BY <1>3 DEF PaymentsCutOff
  <2>2. \A p \in PaymentIds : payment[p] \in PaymentRow /\ PaymentOK(payment[p])
    BY DEF PayInv, PayTypeOK, PaymentRow
  <2>3. \A p \in PaymentIds : at(p) \in PaymentStages
    BY <2>2 DEF PaymentRow, PaymentStages
  <2>4. \A p \in PaymentIds :
          /\ r(p) \in PaymentRow /\ r(p).at = at(p) /\ r(p).by = payment[p].by
          /\ r(p).known = payment[p].known /\ r(p).handled = payment[p].handled
    BY <2>2, <2>3 DEF PaymentRow
  <2>5. \A p \in PaymentIds :
          /\ at(p) \notin Calling
          /\ at(p) = "due" => payment[p].at \in {"due"} \cup Calling
          /\ at(p) \in {"open", "acknowledged"} => payment[p].at = at(p)
    BY DEF Calling
  <2> HIDE DEF at, r
  <2>6. \A p \in PaymentIds : PaymentOK(r(p))
    BY <2>2, <2>4, <2>5 DEF PaymentOK, Calling
  <2>7. payment' \in [PaymentIds -> PaymentRow]
    BY <2>1, <2>4
  <2>8. \A p \in PaymentIds : PaymentOK(payment'[p])
    BY <2>1, <2>6
  <2>9. QED BY <2>1, <2>7, <2>8 DEF PayInv, PayTypeOK, PaymentRow
<1>4. CASE UNCHANGED payVars
  BY <1>4 DEF payVars, PayInv, PayTypeOK
<1>5. QED
  BY <1>1, <1>2, <1>3, <1>4, CheckoutKeeps, WebhookKeeps DEF PayStep, PayEvents

\* The inductive invariant of the payments.
THEOREM PaymentsAreSound == Spec => []PayInv
<1>1. Init => PayInv
  BY InitPayments DEF Init
<1>2. PayInv /\ [Next]_vars => PayInv'
  BY PartSteps, PayStepKeeps
<1>3. QED BY <1>1, <1>2, PTL DEF Spec

\* What is acknowledged, and so never reported again, was credited, although
\* the crypto webhook acknowledges whatever comes of it (routes/billing.ts).
THEOREM AcknowledgedAreHandled == Spec => []AcknowledgedIsHandled
<1>1. PayInv => AcknowledgedIsHandled
  BY DEF PayInv, PaymentOK, AcknowledgedIsHandled
<1>2. QED BY <1>1, PaymentsAreSound, PTL

(***************************************************************************)
(* Bots.  A request is about a bot that was made; a key is revoked of a    *)
(* removed bot only, and whatever has become of such a bot, its key is     *)
(* valid only for a reason that is known.                                  *)
(***************************************************************************)

BotRow == [there : BOOLEAN, container : Containers, tier : Tiers, key : BOOLEAN]

TaskRow ==
  [at : TaskStates, bot : Bots \cup {NoBot}, tier : Tiers, running : BOOLEAN, was : Tiers]

TasksOK ==
  \A h \in FleetSlots :
    /\ task[h].at # "idle" => task[h].bot \in Bots /\ noted[task[h].bot] # {}
    /\ task[h].at = "revoke" => "removed" \in noted[task[h].bot]

ThereWasMade == \A b \in Bots : bot[b].there => noted[b] # {}

KeyedHasKey ==
  \A b \in Bots : "keyed" \in noted[b] /\ "removed" \notin noted[b] => bot[b].key

RemovedHasNoKey ==
  \A b \in Bots :
    "removed" \in noted[b] /\ bot[b].key =>
      noted[b] \cap {"unrevoked", "late"} # {} \/ Revoking(b)

FleetInv ==
  /\ FleetTypeOK
  /\ TasksOK
  /\ ThereWasMade
  /\ LostNeedsTwoFailures
  /\ KeyedHasKey
  /\ RemovedHasNoKey

LEMMA InitBots == FleetInit => FleetInv
BY DEF FleetInit, FleetInv, FleetTypeOK, Absent, NoTask, Containers, Tiers, TaskStates,
   TasksOK, ThereWasMade, LostNeedsTwoFailures, KeyedHasKey, RemovedHasNoKey

LEMMA NoTaskType == NoTask \in TaskRow /\ NoTask.at = "idle"
BY DEF NoTask, TaskRow, TaskStates, Tiers

\* A request in slot h makes its bot b the row r, notes n of it and goes on as t.
SlotStep(h, b, t, r, n) ==
  /\ task' = [task EXCEPT ![h] = t]
  /\ bot' = [bot EXCEPT ![b] = r]
  /\ noted' = [noted EXCEPT ![b] = n]
  /\ task[h].at # "idle" => task[h].bot = b
  /\ t.at # "idle" => t.bot = b
  /\ t.at = "revoke" => "removed" \in n
  /\ noted[b] \subseteq n /\ n # {}

\* What it owes to the bot: it is not lost silently, and the key goes with it.
SlotOwes(h, b, t, r, n) ==
  /\ ~r.there =>
       \/ n \cap {"removed", "failed"} # {}
       \/ t.at \in {"make", "remake"}
       \/ ~bot[b].there /\ noted[b] # {} /\ task[h].at \notin {"make", "remake"}
  /\ "keyed" \in n /\ "removed" \notin n => r.key
  /\ "removed" \in n /\ r.key =>
       \/ n \cap {"unrevoked", "late"} # {}
       \/ t.at = "revoke"
       \/ "removed" \in noted[b] /\ bot[b].key /\ task[h].at # "revoke"

LEMMA SlotKeeps ==
  ASSUME FleetInv, NEW h \in FleetSlots, NEW b \in Bots, NEW t \in TaskRow,
         NEW r \in BotRow, NEW n \in SUBSET Notes,
         SlotStep(h, b, t, r, n), SlotOwes(h, b, t, r, n)
  PROVE  FleetInv'
<1> USE DEF FleetInv
<1>1. FleetTypeOK'
  BY DEF SlotStep, FleetTypeOK, TaskRow, BotRow
<1>2. /\ task'[h] = t /\ \A g \in FleetSlots \ {h} : task'[g] = task[g]
      /\ bot'[b] = r /\ \A c \in Bots \ {b} : bot'[c] = bot[c]
      /\ noted'[b] = n /\ \A c \in Bots \ {b} : noted'[c] = noted[c]
  BY DEF SlotStep, FleetTypeOK
<1>3. TasksOK'
  BY <1>2 DEF SlotStep, TasksOK
<1>4. ThereWasMade'
  BY <1>2 DEF SlotStep, ThereWasMade
<1>5. KeyedHasKey'
  BY <1>2 DEF SlotOwes, KeyedHasKey
<1>6. \A c \in Bots : Changing(c) =>
        Changing(c)' \/ (c = b /\ task[h].at \in {"make", "remake"})
  BY <1>2 DEF SlotStep, Changing, Of
<1>7. \A c \in Bots : Revoking(c) =>
        Revoking(c)' \/ (c = b /\ task[h].at = "revoke")
  BY <1>2 DEF SlotStep, Revoking, Of
<1>8. /\ t.at \in {"make", "remake"} => Changing(b)'
      /\ t.at = "revoke" => Revoking(b)'
  BY <1>2 DEF SlotStep, Changing, Revoking, Of
<1>9. LostNeedsTwoFailures'
  <2> SUFFICES ASSUME NEW c \in Bots, noted'[c] # {}, ~bot'[c].there
               PROVE  noted'[c] \cap {"removed", "failed"} # {} \/ Changing(c)'
    BY DEF LostNeedsTwoFailures
  <2>1. CASE c # b
    BY <1>2, <1>6, <2>1 DEF LostNeedsTwoFailures
  <2>2. CASE c = b /\ ~bot[b].there /\ noted[b] # {} /\ task[h].at \notin {"make", "remake"}
    BY <1>2, <1>6, <2>2 DEF LostNeedsTwoFailures, SlotStep
  <2>3. CASE c = b /\ (n \cap {"removed", "failed"} # {} \/ t.at \in {"make", "remake"})
    BY <1>2, <1>8, <2>3
  <2>4. QED BY <1>2, <2>1, <2>2, <2>3 DEF SlotOwes
<1>10. RemovedHasNoKey'
  <2> SUFFICES ASSUME NEW c \in Bots, "removed" \in noted'[c], bot'[c].key
               PROVE  noted'[c] \cap {"unrevoked", "late"} # {} \/ Revoking(c)'
    BY DEF RemovedHasNoKey
  <2>1. CASE c # b
    BY <1>2, <1>7, <2>1 DEF RemovedHasNoKey
  <2>2. CASE c = b /\ "removed" \in noted[b] /\ bot[b].key /\ task[h].at # "revoke"
    BY <1>2, <1>7, <2>2 DEF RemovedHasNoKey, SlotStep
  <2>3. CASE c = b /\ (n \cap {"unrevoked", "late"} # {} \/ t.at = "revoke")
    BY <1>2, <1>8, <2>3
  <2>4. QED BY <1>2, <2>1, <2>2, <2>3 DEF SlotOwes
<1>11. QED BY <1>1, <1>3, <1>4, <1>5, <1>9, <1>10

\* Where neither the bot nor what is noted of it changes, except for its
\* container, and the request was about neither a change nor a revocation.
LEMMA SlotMovesOn ==
  ASSUME FleetInv, NEW h \in FleetSlots, NEW b \in Bots, NEW t \in TaskRow,
         NEW r \in BotRow, r.there = bot[b].there, r.key = bot[b].key, noted[b] # {},
         task' = [task EXCEPT ![h] = t], bot' = [bot EXCEPT ![b] = r], noted' = noted,
         task[h].at # "idle" => task[h].bot = b,
         t.at # "idle" => t.bot = b, t.at # "revoke",
         task[h].at \notin {"make", "remake", "revoke"}
  PROVE  FleetInv'
<1> DEFINE n == noted[b]
<1>1. n \in SUBSET Notes /\ noted' = [noted EXCEPT ![b] = n]
  BY DEF FleetInv, FleetTypeOK
<1>2. SlotStep(h, b, t, r, n)
  BY <1>1 DEF SlotStep
<1>3. SlotOwes(h, b, t, r, n)
  BY DEF SlotOwes, FleetInv, KeyedHasKey
<1>4. QED BY <1>1, <1>2, <1>3, SlotKeeps

\* What is known of a request under way.
LEMMA TaskKnown ==
  ASSUME FleetInv, NEW h \in FleetSlots
  PROVE  /\ task[h] \in TaskRow
         /\ task[h].at # "idle" =>
              /\ Of(h) \in Bots /\ noted[Of(h)] # {} /\ noted[Of(h)] \in SUBSET Notes
              /\ bot[Of(h)] \in BotRow
BY DEF FleetInv, FleetTypeOK, TaskRow, BotRow, TasksOK, Of

\* Going on to another place.
LEMMA GotoDoes ==
  ASSUME FleetInv, NEW h \in FleetSlots, NEW at \in TaskStates, Goto(h, at)
  PROVE  \E t \in TaskRow :
           task' = [task EXCEPT ![h] = t] /\ t.at = at /\ t.bot = Of(h)
<1> DEFINE t == [task[h] EXCEPT !.at = at]
<1>1. t \in TaskRow /\ t.at = at /\ t.bot = Of(h)
  BY TaskKnown DEF TaskRow, Of
<1>2. task' = [task EXCEPT ![h] = t]
  BY DEF Goto, FleetInv, FleetTypeOK
<1>3. QED BY <1>1, <1>2

\* A change of nothing, and one of a bot's container.
LEMMA SameRow ==
  ASSUME FleetInv, NEW b \in Bots
  PROVE  /\ bot = [bot EXCEPT ![b] = bot[b]]
         /\ noted = [noted EXCEPT ![b] = noted[b]]
         /\ bot[b] \in BotRow /\ noted[b] \in SUBSET Notes
BY DEF FleetInv, FleetTypeOK, BotRow

LEMMA ContainerRow ==
  ASSUME FleetInv, NEW b \in Bots, NEW x \in Containers,
         bot' = [bot EXCEPT ![b].container = x]
  PROVE  \E r \in BotRow :
           bot' = [bot EXCEPT ![b] = r] /\ r.there = bot[b].there /\ r.key = bot[b].key
<1> DEFINE r == [bot[b] EXCEPT !.container = x]
<1>1. r \in BotRow /\ r.there = bot[b].there /\ r.key = bot[b].key
  BY DEF FleetInv, FleetTypeOK, BotRow
<1>2. bot' = [bot EXCEPT ![b] = r]
  BY DEF FleetInv, FleetTypeOK
<1>3. QED BY <1>1, <1>2

LEMMA CreatedRow ==
  ASSUME FleetInv, NEW b \in Bots, NEW tier \in Tiers, Created(b, tier)
  PROVE  \E r \in BotRow :
           bot' = [bot EXCEPT ![b] = r] /\ r.there /\ r.key = bot[b].key
<1> DEFINE r == [bot[b] EXCEPT !.there = TRUE, !.container = "stopped", !.tier = tier]
<1>1. r \in BotRow /\ r.there /\ r.key = bot[b].key
  BY DEF FleetInv, FleetTypeOK, BotRow, Containers
<1>2. bot' = [bot EXCEPT ![b] = r]
  BY DEF Created, FleetInv, FleetTypeOK
<1>3. QED BY <1>1, <1>2

LEMMA RemovedRow ==
  ASSUME FleetInv, NEW b \in Bots, Removed(b)
  PROVE  \E r \in BotRow :
           bot' = [bot EXCEPT ![b] = r] /\ ~r.there /\ r.key = bot[b].key
<1> DEFINE r == [bot[b] EXCEPT !.there = FALSE, !.container = "none"]
<1>1. r \in BotRow /\ ~r.there /\ r.key = bot[b].key
  BY DEF FleetInv, FleetTypeOK, BotRow, Containers
<1>2. bot' = [bot EXCEPT ![b] = r]
  BY DEF Removed, FleetInv, FleetTypeOK
<1>3. QED BY <1>1, <1>2

LEMMA CreateBotKeeps ==
  ASSUME FleetInv, NEW h \in FleetSlots, CreateBot(h)
  PROVE  FleetInv'
<1>1. PICK b \in Bots, at \in {"start", "key"} :
        /\ task[h] = NoTask /\ noted[b] = {}
        /\ Created(b, "standard")
        /\ task' = [task EXCEPT ![h].at = at, ![h].bot = b]
        /\ Note(b, "made")
  BY DEF CreateBot, Free
<1> DEFINE t == [task[h] EXCEPT !.at = at, !.bot = b]
<1>2. PICK r \in BotRow :
        bot' = [bot EXCEPT ![b] = r] /\ r.there /\ r.key = bot[b].key
  BY <1>1, CreatedRow DEF Tiers
<1>3. t \in TaskRow /\ t.at = at /\ t.bot = b
  BY TaskKnown DEF TaskRow, TaskStates
<1>4. task' = [task EXCEPT ![h] = t] /\ noted' = [noted EXCEPT ![b] = {"made"}]
  BY <1>1 DEF FleetInv, FleetTypeOK, Note
<1>5. task[h].at = "idle"
  BY <1>1, NoTaskType
<1> HIDE DEF t
<1>6. SlotStep(h, b, t, r, {"made"}) /\ SlotOwes(h, b, t, r, {"made"})
  BY <1>1, <1>2, <1>3, <1>4, <1>5 DEF SlotStep, SlotOwes
<1>7. QED BY <1>2, <1>3, <1>6, SlotKeeps DEF Notes

LEMMA BeginCallKeeps ==
  ASSUME FleetInv, NEW h \in FleetSlots, BeginRemove(h) \/ BeginTier(h)
  PROVE  FleetInv'
<1>1. PICK b \in Bots :
        /\ task[h] = NoTask /\ bot[b].there
        /\ \E t \in TaskRow :
             /\ task' = [task EXCEPT ![h] = t] /\ t.at \in {"remove", "status"}
             /\ t.bot = b
        /\ bot' = bot /\ noted' = noted
  <2>1. CASE BeginRemove(h)
    <3>1. PICK b \in Bots :
            /\ task[h] = NoTask /\ bot[b].there
            /\ task' = [task EXCEPT ![h].at = "remove", ![h].bot = b]
            /\ bot' = bot /\ noted' = noted
      BY <2>1 DEF BeginRemove, Free
    <3> DEFINE t == [task[h] EXCEPT !.at = "remove", !.bot = b]
    <3>2. t \in TaskRow /\ t.at = "remove" /\ t.bot = b
      BY TaskKnown DEF TaskRow, TaskStates
    <3>3. task' = [task EXCEPT ![h] = t]
      BY <3>1 DEF FleetInv, FleetTypeOK
    <3>4. QED BY <3>1, <3>2, <3>3
  <2>2. CASE BeginTier(h)
    <3>1. PICK b \in Bots, tier \in Tiers :
            /\ task[h] = NoTask /\ bot[b].there
            /\ task' = [task EXCEPT ![h].at = "status", ![h].bot = b, ![h].tier = tier,
                          ![h].was = bot[b].tier]
            /\ bot' = bot /\ noted' = noted
      BY <2>2 DEF BeginTier, Free
    <3> DEFINE t == [task[h] EXCEPT !.at = "status", !.bot = b, !.tier = tier,
                       !.was = bot[b].tier]
    <3>2. bot[b].tier \in Tiers
      BY DEF FleetInv, FleetTypeOK
    <3>3. t \in TaskRow /\ t.at = "status" /\ t.bot = b
      BY <3>2, TaskKnown DEF TaskRow, TaskStates
    <3>4. task' = [task EXCEPT ![h] = t]
      BY <3>1 DEF FleetInv, FleetTypeOK
    <3>5. QED BY <3>1, <3>3, <3>4
  <2>3. QED BY <2>1, <2>2
<1>2. noted[b] # {} /\ task[h].at = "idle"
  BY <1>1, NoTaskType DEF FleetInv, ThereWasMade
<1>3. bot' = [bot EXCEPT ![b] = bot[b]] /\ bot[b] \in BotRow
  BY <1>1, SameRow
<1>4. PICK t \in TaskRow :
        task' = [task EXCEPT ![h] = t] /\ t.at \in {"remove", "status"} /\ t.bot = b
  BY <1>1
<1>5. QED BY <1>1, <1>2, <1>3, <1>4, SlotMovesOn

\* Steps that change no more than the container.
LEMMA QuietStepKeeps ==
  ASSUME FleetInv, NEW h \in FleetSlots,
         \/ StartNew(h) \/ TierFails(h) \/ ReadStatus(h) \/ StopForTier(h)
         \/ StartRestored(h)
  PROVE  FleetInv'
<1> DEFINE b == Of(h)
<1>1. task[h].at \in {"start", "status", "stop", "unmake", "restored"}
  BY DEF StartNew, TierFails, ReadStatus, StopForTier, StartRestored
<1>2. b \in Bots /\ noted[b] # {} /\ task[h].bot = b
  BY <1>1, TaskKnown DEF Of
<1>3. noted' = noted
  BY DEF StartNew, TierFails, ReadStatus, StopForTier, StartRestored
<1>4. PICK r \in BotRow :
        /\ bot' = [bot EXCEPT ![b] = r]
        /\ r.there = bot[b].there /\ r.key = bot[b].key
  <2>1. bot' = bot \/ \E x \in Containers : bot' = [bot EXCEPT ![b].container = x]
    <3>1. CASE StopForTier(h)
      <4> DEFINE x == IF bot[b].container = "running" THEN "stopped"
                      ELSE bot[b].container
      <4>1. x \in Containers
        BY <1>2 DEF FleetInv, FleetTypeOK, Containers
      <4>2. bot' = [bot EXCEPT ![b].container = x]
        BY <3>1, <1>2 DEF StopForTier, FleetInv, FleetTypeOK
      <4>3. QED BY <4>1, <4>2
    <3>2. CASE ~StopForTier(h)
      BY <3>2 DEF StartNew, TierFails, ReadStatus, StartRestored, Containers
    <3>3. QED BY <3>1, <3>2
  <2>2. CASE bot' = bot
    BY <1>2, <2>2, SameRow
  <2>3. QED BY <1>2, <2>1, <2>2, ContainerRow
<1>5. PICK t \in TaskRow :
        /\ task' = [task EXCEPT ![h] = t]
        /\ t.at # "revoke" /\ (t.at # "idle" => t.bot = b)
  <2>1. CASE StartNew(h) \/ StopForTier(h)
    <3>1. PICK at \in {"key", "unmake"} : Goto(h, at)
      BY <2>1 DEF StartNew, StopForTier
    <3>2. QED BY <3>1, GotoDoes DEF TaskStates
  <2>2. CASE TierFails(h) \/ StartRestored(h)
    BY <2>2, NoTaskType DEF TierFails, StartRestored, Done
  <2>3. CASE ReadStatus(h)
    <3>1. PICK run \in BOOLEAN, at \in {"stop", "unmake", "make"} :
            task' = [task EXCEPT ![h].running = run, ![h].at = at]
      <4>1. bot[b].container \in Containers
        BY <1>2 DEF FleetInv, FleetTypeOK
      <4>2. CASE bot[b].container = "running"
        BY <2>3, <4>2 DEF ReadStatus
      <4>3. CASE bot[b].container = "stopped"
        BY <2>3, <4>3 DEF ReadStatus
      <4>4. CASE bot[b].container = "none"
        BY <2>3, <4>4 DEF ReadStatus
      <4>5. QED BY <4>1, <4>2, <4>3, <4>4 DEF Containers
    <3> DEFINE t == [task[h] EXCEPT !.running = run, !.at = at]
    <3>2. task' = [task EXCEPT ![h] = t]
      BY <3>1 DEF FleetInv, FleetTypeOK
    <3>3. t \in TaskRow /\ t.at = at /\ t.bot = task[h].bot
      BY TaskKnown DEF TaskRow, TaskStates
    <3>4. QED BY <1>2, <3>2, <3>3
  <2>4. QED BY <2>1, <2>2, <2>3
<1> HIDE DEF b
<1>6. QED BY <1>1, <1>2, <1>3, <1>4, <1>5, SlotMovesOn

\* The key: made, and revoked.
LEMMA KeyStepKeeps ==
  ASSUME FleetInv, NEW h \in FleetSlots, MakeKey(h) \/ RevokeKey(h)
  PROVE  FleetInv'
<1> DEFINE b == Of(h)
<1>1. task[h].at \in {"key", "revoke"}
  BY DEF MakeKey, RevokeKey
<1>2. /\ b \in Bots /\ noted[b] # {} /\ task[h].bot = b
      /\ task[h].at = "revoke" => "removed" \in noted[b]
  BY <1>1, TaskKnown DEF Of, FleetInv, TasksOK
<1>3. task' = [task EXCEPT ![h] = NoTask]
  BY DEF MakeKey, RevokeKey, Done
<1>4. /\ noted = [noted EXCEPT ![b] = noted[b]] /\ bot = [bot EXCEPT ![b] = bot[b]]
      /\ bot[b] \in BotRow /\ noted[b] \in SUBSET Notes
  BY <1>2, SameRow
<1>5. PICK r \in BotRow, n \in SUBSET Notes :
        /\ bot' = [bot EXCEPT ![b] = r] /\ noted' = [noted EXCEPT ![b] = n]
        /\ r.there = bot[b].there /\ noted[b] \subseteq n
        /\ ("removed" \in n <=> "removed" \in noted[b])
        /\ \/ /\ task[h].at = "key" /\ r.key
              /\ "removed" \in n => "late" \in n
           \/ task[h].at = "key" /\ r.key = bot[b].key /\ n = noted[b]
           \/ task[h].at = "revoke" /\ (~r.key \/ "unrevoked" \in n)
  <2>1. CASE MakeKey(h)
    <3>1. CASE bot' = bot /\ noted' = noted
      BY <1>4, <2>1, <3>1 DEF MakeKey
    <3>2. CASE /\ bot' = [bot EXCEPT ![b].key = TRUE]
               /\ Note(b, IF "removed" \in noted[b] THEN "late" ELSE "keyed")
      <4> DEFINE r == [bot[b] EXCEPT !.key = TRUE]
                 n == noted[b] \cup {IF "removed" \in noted[b] THEN "late" ELSE "keyed"}
      <4>1. r \in BotRow /\ r.key /\ r.there = bot[b].there
        BY <1>4 DEF BotRow
      <4>2. n \in SUBSET Notes /\ ("removed" \in n <=> "removed" \in noted[b])
        BY <1>4 DEF Notes
      <4>3. bot' = [bot EXCEPT ![b] = r] /\ noted' = [noted EXCEPT ![b] = n]
        BY <3>2, <1>2 DEF Note, FleetInv, FleetTypeOK
      <4>4. "removed" \in n => "late" \in n
        OBVIOUS
      <4>5. task[h].at = "key" /\ noted[b] \subseteq n
        BY <2>1 DEF MakeKey
      <4> HIDE DEF r, n
      <4>6. QED BY <4>1, <4>2, <4>3, <4>4, <4>5
    <3>3. QED BY <2>1, <3>1, <3>2 DEF MakeKey
  <2>2. CASE RevokeKey(h)
    <3>1. CASE bot' = [bot EXCEPT ![b] = Revoked(b)] /\ noted' = noted
      <4> DEFINE r == Revoked(b)
      <4>1. r \in BotRow /\ ~r.key /\ r.there = bot[b].there
        BY <1>4 DEF BotRow, Revoked
      <4>2. QED BY <1>4, <2>2, <3>1, <4>1 DEF RevokeKey
    <3>2. CASE Note(b, "unrevoked") /\ bot' = bot
      <4> DEFINE n == noted[b] \cup {"unrevoked"}
      <4>1. n \in SUBSET Notes /\ ("removed" \in n <=> "removed" \in noted[b])
        BY <1>4 DEF Notes
      <4>2. noted' = [noted EXCEPT ![b] = n]
        BY <3>2, <1>2 DEF Note, FleetInv, FleetTypeOK
      <4>3. QED BY <1>4, <2>2, <3>2, <4>1, <4>2 DEF RevokeKey
    <3>3. QED BY <2>2, <3>1, <3>2 DEF RevokeKey
  <2>3. QED BY <2>1, <2>2
<1> HIDE DEF b
<1>6. SlotStep(h, b, NoTask, r, n)
  BY <1>2, <1>3, <1>5, NoTaskType DEF SlotStep
<1>7. SlotOwes(h, b, NoTask, r, n)
  <2>1. "keyed" \in noted[b] /\ "removed" \notin noted[b] => bot[b].key
    BY <1>2 DEF FleetInv, KeyedHasKey
  <2>2. QED BY <1>1, <1>2, <1>5, <2>1 DEF SlotOwes
<1>8. QED BY <1>2, <1>6, <1>7, NoTaskType, SlotKeeps

\* Removal by a user: from now on the key is to be revoked.
LEMMA RemoveBotKeeps ==
  ASSUME FleetInv, NEW h \in FleetSlots, RemoveBot(h)
  PROVE  FleetInv'
<1> DEFINE b == Of(h)
<1>1. b \in Bots /\ noted[b] # {} /\ task[h].bot = b /\ task[h].at = "remove"
  BY TaskKnown DEF RemoveBot, Of
<1>2. CASE AfterRemoveFails(h) /\ noted' = noted
  <2>1. /\ task' = [task EXCEPT ![h] = NoTask] /\ bot' = [bot EXCEPT ![b] = bot[b]]
        /\ bot[b] \in BotRow
    BY <1>1, <1>2, SameRow DEF AfterRemoveFails, Done
  <2>2. NoTask \in TaskRow /\ NoTask.at \notin {"revoke"} /\ NoTask.at = "idle"
    BY NoTaskType
  <2> HIDE DEF b
  <2>3. QED BY <1>1, <1>2, <2>1, <2>2, SlotMovesOn
<1>3. CASE Removed(b) /\ Note(b, "removed") /\ Goto(h, "revoke")
  <2> DEFINE n == noted[b] \cup {"removed"}
  <2>1. PICK r \in BotRow :
          bot' = [bot EXCEPT ![b] = r] /\ ~r.there /\ r.key = bot[b].key
    BY <1>1, <1>3, RemovedRow
  <2>2. PICK t \in TaskRow :
          task' = [task EXCEPT ![h] = t] /\ t.at = "revoke" /\ t.bot = b
    BY <1>3, GotoDoes DEF TaskStates
  <2>3. n \in SUBSET Notes /\ noted' = [noted EXCEPT ![b] = n]
    BY <1>1, <1>3 DEF Note, FleetInv, FleetTypeOK, Notes
  <2>4. "removed" \in n /\ noted[b] \subseteq n /\ n # {}
    OBVIOUS
  <2> HIDE DEF b, n
  <2>5. SlotStep(h, b, t, r, n) /\ SlotOwes(h, b, t, r, n)
    BY <1>1, <2>1, <2>2, <2>3, <2>4 DEF SlotStep, SlotOwes
  <2>6. QED BY <1>1, <2>3, <2>5, SlotKeeps
<1>4. QED BY <1>2, <1>3 DEF RemoveBot

\* A tier change holds what it has unmade until it is made again.
LEMMA ChangeStepKeeps ==
  ASSUME FleetInv, NEW h \in FleetSlots,
         Unmake(h) \/ Make(h) \/ StartAgain(h) \/ Remake(h)
  PROVE  FleetInv'
<1> DEFINE b == Of(h)
<1>1. /\ task[h].at \in {"unmake", "make", "startAgain", "remake"}
      /\ task[h].at = "startAgain" \/ task[h].at = "unmake" =>
           task[h].at \notin {"make", "remake"}
  BY DEF Unmake, Make, StartAgain, Remake
<1>2. b \in Bots /\ noted[b] # {} /\ task[h].bot = b /\ task[h].tier \in Tiers
  BY <1>1, TaskKnown DEF Of, TaskRow
<1>3. /\ noted = [noted EXCEPT ![b] = noted[b]] /\ bot = [bot EXCEPT ![b] = bot[b]]
      /\ bot[b] \in BotRow /\ noted[b] \in SUBSET Notes
  BY <1>2, SameRow
<1>4. PICK t \in TaskRow, r \in BotRow, n \in SUBSET Notes :
        /\ task' = [task EXCEPT ![h] = t] /\ bot' = [bot EXCEPT ![b] = r]
        /\ noted' = [noted EXCEPT ![b] = n]
        /\ t.at # "idle" => t.bot = b
        /\ t.at # "revoke" /\ r.key = bot[b].key
        /\ n = noted[b] \/ n = noted[b] \cup {"failed"}
        /\ r.there \/ t.at \in {"make", "remake"} \/ "failed" \in n
  <2>1. CASE Unmake(h)
    BY <1>2, <1>3, <2>1, GotoDoes, RemovedRow DEF Unmake, TaskStates
  <2>2. CASE Make(h)
    <3>1. CASE AfterMakeFails(h) /\ bot' = bot
      BY <1>3, <2>2, <3>1, GotoDoes DEF Make, AfterMakeFails, TaskStates
    <3>2. CASE /\ Created(b, task[h].tier)
               /\ IF task[h].running THEN Goto(h, "startAgain") ELSE Done(h)
      <4>1. PICK t \in TaskRow :
              /\ task' = [task EXCEPT ![h] = t]
              /\ t.at \in {"startAgain", "idle"} /\ (t.at # "idle" => t.bot = b)
        BY <3>2, GotoDoes, NoTaskType DEF Done, TaskStates
      <4>2. QED BY <1>2, <1>3, <2>2, <3>2, <4>1, CreatedRow DEF Make
    <3>3. QED BY <2>2, <3>1, <3>2 DEF Make
  <2>3. CASE StartAgain(h)
    <3>1. CASE AfterMakeFails(h) /\ bot' = bot
      <4>1. PICK t \in TaskRow :
              task' = [task EXCEPT ![h] = t] /\ t.at = "remake" /\ t.bot = b
        BY <3>1, GotoDoes DEF AfterMakeFails, TaskStates
      <4>2. bot' = [bot EXCEPT ![b] = bot[b]] /\ noted' = [noted EXCEPT ![b] = noted[b]]
        BY <1>3, <2>3, <3>1 DEF StartAgain
      <4>3. QED BY <1>3, <4>1, <4>2
    <3>2. CASE There(h) /\ bot' = [bot EXCEPT ![b].container = "running"] /\ Done(h)
      <4>1. PICK r \in BotRow :
              bot' = [bot EXCEPT ![b] = r] /\ r.there = bot[b].there /\ r.key = bot[b].key
        BY <1>2, <3>2, ContainerRow DEF Containers
      <4>2. r.there
        BY <3>2, <4>1 DEF There
      <4>3. QED BY <4>2, <1>3, <2>3, <3>2, <4>1, NoTaskType DEF StartAgain, Done
    <3>3. QED BY <2>3, <3>1, <3>2 DEF StartAgain
  <2>4. CASE Remake(h)
    <3>1. CASE Created(b, PreviousTier) /\ Goto(h, "restored") /\ noted' = noted
      BY <1>2, <1>3, <3>1, GotoDoes, CreatedRow DEF PreviousTier, TaskStates, Tiers
    <3>2. CASE Note(b, "failed") /\ Done(h) /\ bot' = bot
      <4> DEFINE n == noted[b] \cup {"failed"}
      <4>1. n \in SUBSET Notes /\ noted' = [noted EXCEPT ![b] = n]
        BY <1>3, <3>2 DEF Note, Notes
      <4>2. QED BY <1>3, <3>2, <4>1, NoTaskType DEF Done
    <3>3. QED BY <2>4, <3>1, <3>2 DEF Remake
  <2>5. QED BY <2>1, <2>2, <2>3, <2>4
<1> HIDE DEF b
<1>5. SlotStep(h, b, t, r, n)
  BY <1>2, <1>4 DEF SlotStep
<1>6. SlotOwes(h, b, t, r, n)
  <2>1. "keyed" \in noted[b] /\ "removed" \notin noted[b] => bot[b].key
    BY <1>2 DEF FleetInv, KeyedHasKey
  <2>2. QED BY <1>1, <1>4, <2>1 DEF SlotOwes
<1>7. QED BY <1>2, <1>5, <1>6, SlotKeeps

\* Control: the container comes and goes.
LEMMA ControlKeeps ==
  ASSUME FleetInv, NEW b \in Bots,
         \/ StartBot(b) \/ StopBot(b) \/ RestartBot(b) \/ UpdateImage(b)
         \/ ContainerVanishes(b)
  PROVE  FleetInv'
<1>1. /\ task' = task /\ noted' = noted
      /\ \E x \in Containers : bot' = [bot EXCEPT ![b].container = x]
  BY DEF StartBot, StopBot, RestartBot, UpdateImage, ContainerVanishes, Containers
<1>2. PICK r \in BotRow :
        bot' = [bot EXCEPT ![b] = r] /\ r.there = bot[b].there /\ r.key = bot[b].key
  BY <1>1, ContainerRow
<1>3. \A c \in Bots : bot'[c].there = bot[c].there /\ bot'[c].key = bot[c].key
  BY <1>2 DEF FleetInv, FleetTypeOK
<1>4. FleetTypeOK'
  BY <1>1, <1>2 DEF FleetInv, FleetTypeOK, BotRow
<1>5. \A c \in Bots : (Changing(c)' <=> Changing(c)) /\ (Revoking(c)' <=> Revoking(c))
  BY <1>1 DEF Changing, Revoking, Of
<1>6. QED
  BY <1>1, <1>3, <1>4, <1>5 DEF FleetInv, TasksOK, ThereWasMade,
     LostNeedsTwoFailures, KeyedHasKey, RemovedHasNoKey

LEMMA CutOffKeepsBots ==
  ASSUME FleetInv, FleetCutOff
  PROVE  FleetInv'
<1> USE DEF FleetInv
<1>1. bot' = bot /\ task' = [h \in FleetSlots |-> NoTask]
  BY DEF FleetCutOff
<1>2. \A b \in Bots :
        /\ noted'[b] \in SUBSET Notes /\ noted[b] \subseteq noted'[b]
        /\ Changing(b) => "failed" \in noted'[b]
        /\ Revoking(b) => "unrevoked" \in noted'[b]
        /\ "removed" \in noted'[b] <=> "removed" \in noted[b]
        /\ "keyed" \in noted'[b] <=> "keyed" \in noted[b]
  BY DEF FleetCutOff, FleetTypeOK, Notes
<1>3. noted' \in [Bots -> SUBSET Notes]
  BY <1>2 DEF FleetCutOff
<1>4. FleetTypeOK'
  BY <1>1, <1>3, NoTaskType DEF FleetTypeOK, TaskRow
<1>5. TasksOK'
  BY <1>1, NoTaskType DEF TasksOK
<1>6. ThereWasMade' /\ KeyedHasKey' /\ RemovedHasNoKey'
  BY <1>1, <1>2 DEF ThereWasMade, KeyedHasKey, RemovedHasNoKey
<1>7. LostNeedsTwoFailures'
  <2> SUFFICES ASSUME NEW b \in Bots, noted'[b] # {}, ~bot'[b].there
               PROVE  noted'[b] \cap {"removed", "failed"} # {}
    BY DEF LostNeedsTwoFailures
  <2>1. noted[b] # {} \/ Changing(b) \/ Revoking(b)
    BY DEF FleetCutOff
  <2>2. noted[b] # {}
    BY <2>1 DEF Changing, Revoking, Of, TasksOK
  <2>3. QED BY <1>1, <1>2, <2>2 DEF LostNeedsTwoFailures
<1>8. QED BY <1>4, <1>5, <1>6, <1>7

LEMMA FleetStepKeeps ==
  ASSUME FleetInv, FleetStep
  PROVE  FleetInv'
<1>1. CASE FleetRequests
  BY <1>1, CreateBotKeeps, BeginCallKeeps DEF FleetRequests
<1>2. CASE FleetEvents
  BY <1>2, QuietStepKeeps, KeyStepKeeps, RemoveBotKeeps, ChangeStepKeeps, ControlKeeps
     DEF FleetEvents
<1>3. CASE UNCHANGED fleetVars
  BY <1>3 DEF fleetVars, FleetInv, FleetTypeOK, TasksOK, ThereWasMade,
     LostNeedsTwoFailures, KeyedHasKey, RemovedHasNoKey, Changing, Revoking, Of
<1>4. QED BY <1>1, <1>2, <1>3, CutOffKeepsBots DEF FleetStep

\* The inductive invariant of the bots.
THEOREM BotsAreSound == Spec => []FleetInv
<1>1. Init => FleetInv
  BY InitBots DEF Init
<1>2. FleetInv /\ [Next]_vars => FleetInv'
  BY PartSteps, FleetStepKeeps
<1>3. QED BY <1>1, <1>2, PTL DEF Spec

\* However creations, removals, tier changes and the end of the process
\* overlap and fail, no bot is lost but to its user or to two failures, and the
\* keys go with the bots (trpc/routers/fleet.ts, fleet/fleet-remove.ts).
THEOREM BotsAndKeysLast == Spec => []BotsAndKeysSurvive
<1>1. FleetInv => BotsAndKeysSurvive
  BY DEF FleetInv, BotsAndKeysSurvive, KeysFollowBots, KeyedHasKey, RemovedHasNoKey
<1>2. QED BY <1>1, BotsAreSound, PTL

(***************************************************************************)
(* The back office.  Its parts share no variable, so a step of the process *)
(* is one of each of them, too.                                            *)
(***************************************************************************)

AdminStep == AdminRequests \/ AdminEvents \/ AdminCutOff \/ UNCHANGED adminVars

RelayStep == DaemonRequests \/ DaemonEvents \/ RelaysCutOff \/ UNCHANGED daemonVars

LogStep == LogRequests \/ LogEvents \/ LogCutOff \/ UNCHANGED logVars

CheckStep == ChecksRequests \/ ChecksEvents \/ ChecksCutOff \/ UNCHANGED checkVars

SignUpStep == SignUpRequests \/ SignUpEvents \/ SignUpCutOff \/ UNCHANGED signupVars

LEMMA DeskSteps ==
  ASSUME [Next]_vars
  PROVE  AdminStep /\ RelayStep /\ LogStep /\ CheckStep /\ SignUpStep
<1>1. DeskRequests \/ DeskEvents \/ DeskCutOff \/ UNCHANGED deskVars
  <2> USE DEF others, requestVars
  <2>1. CASE Requests
    BY <2>1 DEF Requests, notChat, notNode, notSetup, notFleet, notPay, notMethod
  <2>2. CASE Events
    BY <2>2 DEF Events, notChat, notNode, notSetup, notFleet, notPay, notMethod
  <2>3. CASE \E i \in Setups : Sweep(i)
    BY <2>3 DEF Sweep, notSetup
  <2>4. CASE (\E j \in Jobs : Daily(j)) \/ PassTime \/ Shutdown \/ Restart
    BY <2>4 DEF Daily, PassTime, Shutdown, Restart
  <2>5. CASE \E s \in Senders : Backoff(s)
    BY <2>5 DEF Backoff, notPay
  <2>6. CASE Crash \/ Close \/ ForceExit
    BY <2>6 DEF Crash, Close, ForceExit, Ended
  <2>7. CASE UNCHANGED vars
    BY <2>7 DEF vars, parts
  <2>8. QED BY <2>1, <2>2, <2>3, <2>4, <2>5, <2>6, <2>7 DEF Next
<1>2. QED
  BY <1>1 DEF DeskRequests, DeskEvents, DeskCutOff, deskVars, AdminStep, RelayStep, LogStep,
     CheckStep, SignUpStep

(***************************************************************************)
(* Changes of rows.  A call that awaits its store says nothing before it   *)
(* knows, and a call that was made after the answer of another finds the   *)
(* other's change settled, unless that floats.                             *)
(***************************************************************************)

Shapes == {Procedures[p] : p \in DOMAIN Procedures}

\* What the table of procedures says of each.
FineShape(s) ==
  /\ s.waits \in {"awaits", "passes", "floats"}
  /\ s.onSuccess \in {"none", "plain", "success"}
  /\ s.onFailure \in {"none", "failure"}
  /\ s.waits = "awaits" /\ s.finds => s.onSuccess # "success"
  /\ s.waits = "passes" => \E p \in PassOn : s = Procedures[p]
  /\ s.waits = "floats" => \E p \in LetFloat : s = Procedures[p]

Settled(c) == c.shape.waits = "floats" \/ c.change \notin {"none", "asked"}

CallMade(c) ==
  /\ c.shape \in Shapes
  /\ c.change # "none"
  /\ c.answer # "none" => Settled(c)
  /\ c.shape.waits = "awaits" =>
       /\ "success" \in {c.writing, c.entry} => c.change = "made"
       /\ "failure" \in {c.writing, c.entry} => c.change = "failed"
       /\ c.answer = "ok" => c.change = "made"
  /\ c.shape.waits = "passes" => (c.answer = "ok" => c.change \in {"made", "missed"})

Unmade(c) ==
  /\ c.shape = NoShape
  /\ c.change = "none" /\ c.answer = "none" /\ c.writing = "none" /\ c.entry = "none"

CallOK(c) == Unmade(c) \/ CallMade(c)

AfterSettled == \A i \in AdminCalls : \A j \in admin[i].after : Settled(admin[j])

AppliedIsMade == \A m \in DOMAIN applied : admin[applied[m]].change = "made"

InOrder ==
  \A i, j \in AdminCalls :
    j \in admin[i].after /\ Before(i, j) => admin[j].shape.waits = "floats"

AdminInv ==
  /\ AdminTypeOK
  /\ \A i \in AdminCalls : CallOK(admin[i])
  /\ AfterSettled
  /\ AppliedIsMade
  /\ InOrder

LEMMA ShapesAreFine ==
  /\ \A s \in Shapes : FineShape(s)
  /\ \A p \in PassOn : Procedures[p].waits = "passes"
  /\ \A p \in LetFloat : Procedures[p].waits = "floats"
BY DEF Shapes, FineShape, PassOn, LetFloat, Procedures, Shape, Audited, CreditsGrant, CreditsRefund, CreditsCorrection,
   UpdateGpuAllocation, UpdateGpuConfiguration, RatesCreateSell, RatesUpdateSell,
   RatesDeleteSell, RatesCreateProvider, RatesUpdateProvider, RatesDeleteProvider,
   NotesCreate, NotesUpdate, NotesDelete, TenantChangeRole, NotificationSend,
   NotificationSendCustom, AffiliateBlockFingerprint, ComplianceTriggerExport,
   RestoreFromSnapshot, ChangePlan, SetInferenceMode, UpdateSpendingLimits,
   UpdateBillingEmail, AffiliateRecordReferral, RecordReferralRoute, UpdateProfile,
   ChangePassword, StoreOrgKey, DeleteOrgKey, EnableAddon, DisableAddon,
   UpdateNotificationPreferences

CallRow ==
  [shape : Shapes \cup {NoShape},
   change : {"none", "asked", "made", "missed", "failed", "cut off"},
   answer : {"none", "ok", "error"},
   writing : Entries, entry : Entries, after : SUBSET AdminCalls]

LEMMA CallTypes ==
  ASSUME AdminTypeOK
  PROVE  /\ admin \in [AdminCalls -> CallRow]
         /\ applied \in Seq(AdminCalls)
         /\ \A i \in AdminCalls : admin[i] \in CallRow /\ admin[i].after \subseteq AdminCalls
         /\ \A m \in DOMAIN applied : applied[m] \in AdminCalls
<1>1. admin \in [AdminCalls -> CallRow] /\ applied \in Seq(AdminCalls)
  BY DEF AdminTypeOK, CallRow, Shapes
<1>2. \A i \in AdminCalls : admin[i] \in CallRow
  BY <1>1
<1>3. \A c \in CallRow : c.after \subseteq AdminCalls
  BY DEF CallRow
<1>4. \A m \in DOMAIN applied : applied[m] \in AdminCalls
  BY <1>1
<1>5. QED BY <1>1, <1>2, <1>3, <1>4

LEMMA TypesOfCalls ==
  ASSUME admin' \in [AdminCalls -> CallRow], applied' \in Seq(AdminCalls)
  PROVE  AdminTypeOK'
BY DEF AdminTypeOK, CallRow, Shapes

\* What appending does.
LEMMA AppendDoes ==
  ASSUME NEW S, NEW q \in Seq(S), NEW x \in S
  PROVE  /\ Append(q, x) \in Seq(S)
         /\ DOMAIN q \subseteq DOMAIN Append(q, x)
         /\ \A m \in DOMAIN q : Append(q, x)[m] = q[m]
         /\ \A m \in DOMAIN Append(q, x) \ DOMAIN q :
              Append(q, x)[m] = x /\ \A n \in DOMAIN Append(q, x) : ~(m < n)
         /\ \A m \in DOMAIN Append(q, x), n \in DOMAIN q : m < n => m \in DOMAIN q
OBVIOUS

LEMMA InitCalls == AdminInit => AdminInv
<1> SUFFICES ASSUME AdminInit PROVE AdminInv
  OBVIOUS
<1>1. AdminTypeOK
  BY DEF AdminInit, AdminTypeOK, NoCallYet, Entries
<1>2. applied = <<>> /\ \A i \in AdminCalls : admin[i] = NoCallYet
  BY DEF AdminInit
<1>3. DOMAIN applied = {} /\ \A i \in AdminCalls : admin[i].after = {}
  BY <1>2 DEF NoCallYet
<1>4. QED
  BY <1>1, <1>2, <1>3 DEF AdminInv, CallOK, Unmade, NoCallYet, AfterSettled,
     AppliedIsMade, InOrder

\* A call that was made before the step and goes on, without a change of its
\* row, or with one that is applied last.
LEMMA CallGoesOn ==
  ASSUME AdminInv, NEW i \in AdminCalls, NEW c \in CallRow,
         admin' = [admin EXCEPT ![i] = c],
         CallMade(c),
         c.shape = admin[i].shape, c.after = admin[i].after,
         admin[i].change \in {"none", "asked"} \/ c.change = admin[i].change,
         \/ applied' = applied
         \/ applied' = Append(applied, i) /\ admin[i].change = "asked" /\ c.change = "made"
  PROVE  AdminInv'
<1>1. /\ AdminTypeOK /\ AfterSettled /\ AppliedIsMade /\ InOrder
      /\ \A j \in AdminCalls : CallOK(admin[j])
  BY DEF AdminInv
<1>2. /\ admin \in [AdminCalls -> CallRow] /\ applied \in Seq(AdminCalls)
      /\ \A j \in AdminCalls : admin[j].after \subseteq AdminCalls
      /\ \A m \in DOMAIN applied : applied[m] \in AdminCalls
  BY <1>1, CallTypes
<1>3. /\ admin' \in [AdminCalls -> CallRow]
      /\ admin'[i] = c /\ \A j \in AdminCalls \ {i} : admin'[j] = admin[j]
  BY <1>2
<1>4. /\ applied' \in Seq(AdminCalls) /\ DOMAIN applied \subseteq DOMAIN applied'
      /\ \A m \in DOMAIN applied : applied'[m] = applied[m]
      /\ \A m \in DOMAIN applied' \ DOMAIN applied :
           /\ applied'[m] = i /\ admin[i].change = "asked" /\ c.change = "made"
      /\ \A m \in DOMAIN applied', n \in DOMAIN applied : m < n => m \in DOMAIN applied
  <2>1. CASE applied' = applied
    BY <1>2, <2>1
  <2>2. CASE applied' = Append(applied, i) /\ admin[i].change = "asked" /\ c.change = "made"
    BY <1>2, <2>2, AppendDoes
  <2>3. QED BY <2>1, <2>2
<1>5. AdminTypeOK'
  BY <1>3, <1>4, TypesOfCalls
<1>6. \A j \in AdminCalls : CallOK(admin[j])'
  BY <1>1, <1>3 DEF CallOK
<1>7. \A j \in AdminCalls :
        admin'[j].after = admin[j].after /\ admin'[j].shape = admin[j].shape
  BY <1>3
<1>8. \A j \in AdminCalls : Settled(admin[j]) => Settled(admin[j])'
  BY <1>3 DEF Settled, CallMade
<1>9. AfterSettled'
  BY <1>1, <1>2, <1>7, <1>8 DEF AfterSettled
<1>10. AppliedIsMade'
  <2> SUFFICES ASSUME NEW m \in DOMAIN applied' PROVE admin'[applied'[m]].change = "made"
    BY DEF AppliedIsMade
  <2>1. CASE m \in DOMAIN applied
    <3>1. applied[m] \in AdminCalls /\ admin[applied[m]].change = "made"
      BY <1>1, <1>2, <2>1 DEF AppliedIsMade
    <3>2. QED BY <1>3, <1>4, <2>1, <3>1
  <2>2. QED BY <1>3, <1>4, <2>1
<1>11. InOrder'
  <2> SUFFICES ASSUME NEW k \in AdminCalls, NEW j \in AdminCalls,
                      j \in admin[k].after, Before(k, j)'
               PROVE  admin[j].shape.waits = "floats"
    BY <1>7 DEF InOrder
  <2>1. PICK m \in DOMAIN applied', n \in DOMAIN applied' :
          m < n /\ applied'[m] = k /\ applied'[n] = j
    BY DEF Before
  <2>2. CASE n \in DOMAIN applied
    <3>1. m \in DOMAIN applied
      BY <1>4, <2>1, <2>2
    <3>2. Before(k, j)
      BY <1>4, <2>1, <2>2, <3>1 DEF Before
    <3>3. QED BY <1>1, <3>2 DEF InOrder
  <2>3. CASE n \notin DOMAIN applied
    <3>1. j = i /\ admin[j].change = "asked"
      BY <1>4, <2>1, <2>3
    <3>2. QED BY <1>1, <3>1 DEF AfterSettled, Settled
  <2>4. QED BY <2>2, <2>3
<1>12. QED BY <1>5, <1>6, <1>9, <1>10, <1>11 DEF AdminInv

\* What is known of a call that waits for its store.
LEMMA CallKnown ==
  ASSUME AdminInv, NEW i \in AdminCalls
  PROVE  /\ admin[i] \in CallRow
         /\ admin[i].change = "asked" \/ admin[i].writing # "none" =>
              CallMade(admin[i]) /\ FineShape(admin[i].shape)
<1>1. admin[i] \in CallRow
  BY DEF AdminInv, AdminTypeOK, CallRow, Shapes
<1>2. CallMade(admin[i]) => FineShape(admin[i].shape)
  BY ShapesAreFine DEF CallMade
<1>3. QED BY <1>1, <1>2 DEF AdminInv, CallOK, Unmade

LEMMA AskKeeps ==
  ASSUME AdminInv, NEW i \in AdminCalls, Ask(i)
  PROVE  AdminInv'
<1> USE DEF AdminInv
<1>1. PICK p \in Wired :
        LET shape == Procedures[p] IN
        /\ admin[i] = NoCallYet
        /\ admin' = [admin EXCEPT ![i] =
             [shape |-> shape, change |-> "asked", entry |-> "none",
              answer |-> IF shape.waits = "floats" THEN "ok" ELSE "none",
              writing |-> IF shape.waits = "awaits" THEN "none" ELSE shape.onSuccess,
              after |-> {j \in AdminCalls : admin[j].answer # "none"}]]
        /\ applied' = applied
  BY DEF Ask
<1> DEFINE s == Procedures[p]
           c == [shape |-> s, change |-> "asked", entry |-> "none",
                 answer |-> IF s.waits = "floats" THEN "ok" ELSE "none",
                 writing |-> IF s.waits = "awaits" THEN "none" ELSE s.onSuccess,
                 after |-> {j \in AdminCalls : admin[j].answer # "none"}]
<1>2. s \in Shapes
  BY WiredAssumption DEF Shapes
<1>3. FineShape(s)
  BY <1>2, ShapesAreFine
<1> HIDE DEF s
<1>4. c \in CallRow
  BY <1>2, <1>3 DEF CallRow, FineShape, Entries
<1>5. CallMade(c)
  BY <1>2, <1>3 DEF CallMade, FineShape, Settled
<1>6. /\ c.change = "asked" /\ c.shape = s
      /\ \A j \in c.after : j \in AdminCalls /\ admin[j].answer # "none"
  OBVIOUS
<1>7. admin' = [admin EXCEPT ![i] = c]
  BY <1>1 DEF s
<1> HIDE DEF c
<1>8. admin'[i] = c /\ \A j \in AdminCalls \ {i} : admin'[j] = admin[j]
  BY <1>7 DEF AdminTypeOK
<1>9. AdminTypeOK'
  BY <1>1, <1>4, <1>7 DEF AdminTypeOK, CallRow, Shapes
<1>10. \A j \in AdminCalls : CallOK(admin[j])'
  BY <1>5, <1>8 DEF CallOK, CallMade, Settled
<1>11. \A j \in AdminCalls : admin[j].answer # "none" => j # i /\ Settled(admin[j])
  BY <1>1 DEF CallOK, Unmade, CallMade, NoCallYet
<1>12. \A j \in AdminCalls : Settled(admin[j]) /\ j # i => Settled(admin[j])'
  BY <1>8 DEF Settled
<1>13. i \notin {applied[m] : m \in DOMAIN applied}
  BY <1>1 DEF AppliedIsMade, NoCallYet
<1>14. \A j \in AdminCalls : i \notin admin[j].after
  BY <1>1 DEF AfterSettled, Settled, NoCallYet, NoShape, Shape
<1>15. AfterSettled'
  <2> SUFFICES ASSUME NEW k \in AdminCalls, NEW j \in admin'[k].after
               PROVE  Settled(admin'[j])
    BY DEF AfterSettled
  <2>1. CASE k = i
    BY <1>6, <1>8, <1>11, <1>12, <2>1
  <2>2. CASE k # i
    <3>1. j \in admin[k].after /\ j \in AdminCalls /\ j # i
      BY <1>8, <1>14, <2>2, CallTypes
    <3>2. QED BY <1>12, <3>1 DEF AfterSettled
  <2>3. QED BY <2>1, <2>2
<1>16. AppliedIsMade'
  <2>1. \A m \in DOMAIN applied : applied[m] \in AdminCalls
    BY CallTypes
  <2>2. QED BY <1>1, <1>8, <1>13, <2>1 DEF AppliedIsMade
<1>17. InOrder'
  <2> SUFFICES ASSUME NEW k \in AdminCalls, NEW j \in AdminCalls,
                      j \in admin'[k].after, Before(k, j)'
               PROVE  admin'[j].shape.waits = "floats"
    BY DEF InOrder
  <2>1. k # i /\ j # i /\ Before(k, j)
    BY <1>1, <1>13 DEF Before
  <2>2. QED BY <1>8, <2>1 DEF InOrder
<1>18. QED BY <1>9, <1>10, <1>15, <1>16, <1>17

LEMMA AnswerCallKeeps ==
  ASSUME AdminInv, NEW i \in AdminCalls, Apply(i) \/ Miss(i) \/ Throw(i)
  PROVE  AdminInv'
<1> DEFINE s == admin[i].shape
<1>1. /\ admin[i] \in CallRow /\ admin[i].change = "asked"
      /\ CallMade(admin[i]) /\ FineShape(s)
  BY CallKnown DEF Apply, Miss, Throw
<1>2. PICK change \in {"made", "missed", "failed"}, answer \in {"none", "ok", "error"},
           writing \in Entries :
        /\ admin' = [admin EXCEPT ![i].change = change, ![i].answer = answer,
                                  ![i].writing = writing]
        /\ s.waits = "awaits" =>
             /\ writing = "success" => change = "made"
             /\ writing = "failure" => change = "failed"
             /\ answer = "ok" => change = "made"
        /\ s.waits = "passes" => (answer = "ok" => change \in {"made", "missed"})
        /\ \/ applied' = applied
           \/ applied' = Append(applied, i) /\ change = "made"
  <2>1. CASE Apply(i)
    BY <1>1, <2>1 DEF Apply, FineShape, Entries, CallRow
  <2>2. CASE Miss(i)
    BY <1>1, <2>2 DEF Miss, FineShape, Entries, CallRow
  <2>3. CASE Throw(i)
    BY <1>1, <2>3 DEF Throw, FineShape, Entries, CallRow, CallMade, Settled
  <2>4. QED BY <2>1, <2>2, <2>3
<1> DEFINE c == [admin[i] EXCEPT !.change = change, !.answer = answer, !.writing = writing]
<1>3. admin' = [admin EXCEPT ![i] = c]
  BY <1>2 DEF AdminInv, AdminTypeOK
<1>4. /\ c \in CallRow /\ c.shape = s /\ c.after = admin[i].after /\ c.change = change
      /\ c.answer = answer /\ c.writing = writing /\ c.entry = admin[i].entry
  BY <1>1 DEF CallRow
<1> HIDE DEF c
<1>5. s.waits = "awaits" => admin[i].entry \notin {"success", "failure"}
  BY <1>1 DEF CallMade
<1>6. CallMade(c)
  BY <1>1, <1>2, <1>4, <1>5 DEF CallMade, Settled
<1>7. QED BY <1>1, <1>2, <1>3, <1>4, <1>6, CallGoesOn

LEMMA WriteEntryKeeps ==
  ASSUME AdminInv, NEW i \in AdminCalls, WriteEntry(i)
  PROVE  AdminInv'
<1>1. PICK entry \in {admin[i].writing, "none"} :
        /\ admin' = [admin EXCEPT ![i].entry = entry, ![i].writing = "none"]
        /\ applied' = applied
  BY DEF WriteEntry
<1>2. admin[i] \in CallRow /\ CallMade(admin[i])
  BY CallKnown DEF WriteEntry
<1> DEFINE c == [admin[i] EXCEPT !.entry = entry, !.writing = "none"]
<1>3. admin' = [admin EXCEPT ![i] = c]
  BY <1>1 DEF AdminInv, AdminTypeOK
<1>4. /\ c \in CallRow /\ c.shape = admin[i].shape /\ c.after = admin[i].after
      /\ c.change = admin[i].change /\ c.answer = admin[i].answer
      /\ c.writing = "none" /\ c.entry \in {admin[i].writing, "none"}
  BY <1>2 DEF CallRow, Entries
<1> HIDE DEF c
<1>5. CallMade(c)
  BY <1>2, <1>4 DEF CallMade, Settled
<1>6. QED BY <1>1, <1>2, <1>3, <1>4, <1>5, CallGoesOn

LEMMA CutOffKeepsCalls ==
  ASSUME AdminInv, AdminCutOff
  PROVE  AdminInv'
<1> DEFINE c(i) == [admin[i] EXCEPT !.change = IF @ = "asked" THEN "cut off" ELSE @,
                                    !.writing = "none"]
<1>1. /\ AdminTypeOK /\ AfterSettled /\ AppliedIsMade /\ InOrder
      /\ \A j \in AdminCalls : CallOK(admin[j])
  BY DEF AdminInv
<1>2. /\ applied \in Seq(AdminCalls)
      /\ \A i \in AdminCalls : admin[i] \in CallRow /\ admin[i].after \subseteq AdminCalls
      /\ \A m \in DOMAIN applied : applied[m] \in AdminCalls
  BY <1>1, CallTypes
<1>3. applied' = applied /\ admin' = [i \in AdminCalls |-> c(i)]
  BY DEF AdminCutOff
<1>4. \A i \in AdminCalls :
        /\ c(i) \in CallRow /\ c(i).shape = admin[i].shape /\ c(i).after = admin[i].after
        /\ c(i).change = IF admin[i].change = "asked" THEN "cut off" ELSE admin[i].change
        /\ c(i).answer = admin[i].answer /\ c(i).entry = admin[i].entry
        /\ c(i).writing = "none"
  <2> SUFFICES ASSUME NEW i \in AdminCalls
      PROVE
        /\ c(i) \in CallRow /\ c(i).shape = admin[i].shape /\ c(i).after = admin[i].after
        /\ c(i).change = IF admin[i].change = "asked" THEN "cut off" ELSE admin[i].change
        /\ c(i).answer = admin[i].answer /\ c(i).entry = admin[i].entry
        /\ c(i).writing = "none"
    OBVIOUS
  <2>1. admin[i] \in CallRow
    BY <1>2
  <2>2. QED BY <2>1 DEF CallRow, Entries
<1> HIDE DEF c
<1>5. admin' \in [AdminCalls -> CallRow] /\ \A i \in AdminCalls : admin'[i] = c(i)
  BY <1>3, <1>4
<1>6. AdminTypeOK'
  BY <1>2, <1>3, <1>5, TypesOfCalls
<1>7. \A i \in AdminCalls : CallOK(admin[i]) => CallOK(c(i))
  BY <1>4 DEF CallOK, Unmade, CallMade, Settled
<1>8. \A i \in AdminCalls : CallOK(admin[i])'
  BY <1>1, <1>5, <1>7
<1>9. \A i \in AdminCalls : Settled(admin[i]) => Settled(admin[i])'
  BY <1>4, <1>5 DEF Settled
<1>10. AfterSettled'
  BY <1>1, <1>2, <1>4, <1>5, <1>9 DEF AfterSettled
<1>11. AppliedIsMade'
  BY <1>1, <1>2, <1>3, <1>4, <1>5 DEF AppliedIsMade
<1>12. InOrder'
  BY <1>1, <1>3, <1>4, <1>5 DEF InOrder, Before
<1>13. QED BY <1>6, <1>8, <1>10, <1>11, <1>12 DEF AdminInv

\* The inductive invariant of the changes of rows.
THEOREM CallsAreSound == Spec => []AdminInv
<1>1. Init => AdminInv
  BY InitCalls DEF Init, DeskInit
<1>2. AdminInv /\ [Next]_vars => AdminInv'
  <2> SUFFICES ASSUME AdminInv, AdminStep PROVE AdminInv'
    BY DeskSteps
  <2>1. CASE UNCHANGED adminVars
    <3>1. admin' = admin /\ applied' = applied
      BY <2>1 DEF adminVars
    <3>2. \A i \in AdminCalls : CallOK(admin[i])'
      BY <3>1 DEF AdminInv, CallOK
    <3>3. AfterSettled' /\ AppliedIsMade'
      BY <3>1 DEF AdminInv, AfterSettled, Settled, AppliedIsMade
    <3>4. InOrder'
      BY <3>1 DEF AdminInv, InOrder, Before
    <3>5. AdminTypeOK'
      BY <3>1 DEF AdminInv, AdminTypeOK
    <3>6. QED BY <3>2, <3>3, <3>4, <3>5 DEF AdminInv
  <2>2. QED
    BY <2>1, AskKeeps, AnswerCallKeeps, WriteEntryKeeps, CutOffKeepsCalls
       DEF AdminStep, AdminRequests, AdminEvents
<1>3. QED BY <1>1, <1>2, PTL DEF Spec

\* Entries of the audit log and answers mislead only where a procedure does not
\* await its store, and so do changes that overtake each other: for any wiring,
\* any number of overlapping calls, and whenever the process ends
\* (trpc/routers/admin.ts).
THEOREM AwaitedCallsDoNotMislead == Spec => []OnlyUnawaitedMislead
<1>1. AdminInv => OnlyUnawaitedMislead
  <2> SUFFICES ASSUME AdminInv, NEW i \in AdminCalls
               PROVE
      /\ ~Among(i, PassOn \cup LetFloat) =>
           /\ admin[i].entry = "success" => admin[i].change = "made"
           /\ admin[i].entry = "failure" => admin[i].change = "failed"
           /\ admin[i].answer = "ok" => admin[i].change = "made"
      /\ Among(i, PassOn) => (admin[i].answer = "ok" => admin[i].change \in {"made", "missed"})
      /\ \A j \in AdminCalls : (j \in admin[i].after /\ Before(i, j)) => Among(j, LetFloat)
    BY DEF OnlyUnawaitedMislead
  <2>1. \A j \in AdminCalls :
          Unmade(admin[j]) \/ (CallMade(admin[j]) /\ FineShape(admin[j].shape))
    BY ShapesAreFine DEF AdminInv, CallOK, CallMade
  <2>2. ~Among(i, PassOn \cup LetFloat) =>
          Unmade(admin[i]) \/ (admin[i].shape.waits = "awaits" /\ CallMade(admin[i]))
    BY <2>1 DEF FineShape, Among
  <2>3. Among(i, PassOn) => admin[i].shape.waits = "passes"
    BY ShapesAreFine DEF Among
  <2>4. ASSUME NEW j \in AdminCalls, j \in admin[i].after, Before(i, j)
        PROVE  Among(j, LetFloat)
    <3>1. admin[j].shape.waits = "floats"
      BY <2>4 DEF AdminInv, InOrder
    <3>2. ~Unmade(admin[j])
      BY <3>1 DEF Unmade, NoShape, Shape
    <3>3. QED BY <2>1, <3>1, <3>2 DEF FineShape, Among
  <2>5. QED BY <2>1, <2>2, <2>3, <2>4 DEF CallMade, Unmade
<1>2. QED BY <1>1, CallsAreSound, PTL

(***************************************************************************)
(* Calls to the daemon.  A call that is alone has the configuration that   *)
(* was stored last, whether a rollback deletes its row meanwhile or not,   *)
(* and as long as nothing has drifted the daemon has it too.               *)
(***************************************************************************)

RelayRow == [at : RelayStates, config : Configs \cup {NoConfig}, alone : BOOLEAN]

\* Call k is the only one under way, and forwards what was stored last.
AloneOK(k) ==
  relay[k] # NoRelay /\ relay[k].alone =>
    /\ \A j \in DaemonSlots : relay[j] # NoRelay => j = k
    /\ relay[k].at \in {"push", "forward", "saveInstall", "saveForward"} =>
         relay[k].config = latest

DaemonInv ==
  /\ DaemonTypeOK
  /\ \A k \in DaemonSlots : AloneOK(k)
  /\ stored \in {latest, NoConfig}
  /\ ~drifted => daemon.config = latest

LEMMA InitDaemon == DaemonInit => DaemonInv
<1> SUFFICES ASSUME DaemonInit PROVE DaemonInv
  OBVIOUS
<1>1. DaemonTypeOK
  BY DEF DaemonInit, DaemonTypeOK, NoRelay, RelayStates
<1>2. \A k \in DaemonSlots : relay[k] = NoRelay
  BY DEF DaemonInit
<1>3. daemon.config = latest /\ stored = latest
  BY DEF DaemonInit
<1>4. QED BY <1>1, <1>2, <1>3 DEF DaemonInv, AloneOK

LEMMA NoRelayType == NoRelay \in RelayRow /\ NoRelay.at = "idle"
BY DEF NoRelay, RelayRow, RelayStates

\* A call begins, and what is stored may change.
LEMMA EnterKeeps ==
  ASSUME DaemonInv, NEW k \in DaemonSlots, NEW at \in RelayStates,
         NEW x \in Configs \cup {NoConfig}, Enter(k, at, x), daemon' = daemon,
         \/ UNCHANGED <<rowVars, drifted>> /\ at \in {"install", "dependent"}
         \/ x \in Configs /\ \E setup \in BOOLEAN : Upsert(x, setup)
  PROVE  DaemonInv'
<1> USE DEF DaemonInv, rowVars, Upsert
<1>1. /\ relay' = [j \in DaemonSlots |->
           IF j = k THEN [at |-> at, config |-> x, alone |-> Relaying = {}]
           ELSE IF j \in Relaying THEN [relay[j] EXCEPT !.alone = FALSE] ELSE relay[j]]
      /\ Relaying \subseteq DaemonSlots
  BY DEF Enter, Relaying
<1>2. /\ relay'[k] = [at |-> at, config |-> x, alone |-> Relaying = {}]
      /\ \A j \in DaemonSlots \ {k} :
           /\ relay'[j] \in RelayRow
           /\ IF relay[j] # NoRelay THEN ~relay'[j].alone ELSE relay'[j] = NoRelay
  BY <1>1 DEF DaemonTypeOK, RelayRow, Relaying
<1>3. relay'[k] \in RelayRow
  BY <1>2 DEF RelayRow
<1>4. relay' \in [DaemonSlots -> RelayRow]
  BY <1>1, <1>2, <1>3
<1>5. DaemonTypeOK'
  BY <1>4 DEF DaemonTypeOK, RelayRow
<1>6. relay'[k].alone => \A j \in DaemonSlots \ {k} : relay'[j] = NoRelay
  <2>1. relay'[k].alone = (Relaying = {})
    BY <1>2
  <2>2. Relaying = {} => \A j \in DaemonSlots : relay[j] = NoRelay
    BY DEF Relaying
  <2>3. QED BY <1>2, <2>1, <2>2
<1>7. \A j \in DaemonSlots : AloneOK(j)'
  BY <1>2, <1>6 DEF AloneOK
<1>8. stored' \in {latest', NoConfig} /\ (~drifted' => daemon'.config = latest')
  OBVIOUS
<1>9. QED BY <1>5, <1>7, <1>8

\* A call goes on or ends.
LEMMA RelayMoves ==
  ASSUME DaemonInv, NEW k \in DaemonSlots, relay[k] # NoRelay, NEW r \in RelayRow,
         relay' = [relay EXCEPT ![k] = r], UNCHANGED rowVars,
         daemon' = daemon \/ daemon' = [daemon EXCEPT !.installed = TRUE],
         drifted' = drifted \/ drifted' = TRUE,
         \/ r = NoRelay
         \/ /\ r.alone = relay[k].alone
            /\ \/ r.at = "find"
               \/ r.config = latest
               \/ r.config = relay[k].config /\ relay[k].at = "saveInstall"
  PROVE  DaemonInv'
<1> USE DEF DaemonInv, rowVars
<1>1. DaemonTypeOK' /\ daemon'.config = daemon.config
  BY DEF DaemonTypeOK, RelayRow
<1>2. relay'[k] = r /\ \A j \in DaemonSlots \ {k} : relay'[j] = relay[j]
  BY DEF DaemonTypeOK
<1>3. \A j \in DaemonSlots : AloneOK(j)'
  BY <1>2 DEF AloneOK
<1>4. QED BY <1>1, <1>3

LEMMA ForwardKeeps ==
  ASSUME DaemonInv, NEW k \in DaemonSlots, Forward(k)
  PROVE  DaemonInv'
<1> USE DEF DaemonInv, rowVars
<1>1. /\ relay[k].at \in {"push", "forward", "saveForward"} /\ relay[k] # NoRelay
      /\ relay' = [relay EXCEPT ![k] = NoRelay] /\ UNCHANGED rowVars
      /\ relay[k] \in RelayRow
  BY DEF Forward, Leave, NoRelay, DaemonTypeOK, RelayRow
<1>2. /\ daemon' = daemon \/ daemon' = [daemon EXCEPT !.config = relay[k].config]
      /\ \/ drifted' = TRUE
         \/ /\ daemon' = [daemon EXCEPT !.config = relay[k].config]
            /\ drifted' = ~relay[k].alone
  BY DEF Forward, Put, NotPut, Told
<1>3. relay'[k] = NoRelay /\ \A j \in DaemonSlots \ {k} : relay'[j] = relay[j]
  BY <1>1 DEF DaemonTypeOK
<1>4. DaemonTypeOK'
  BY <1>1, <1>2, NoRelayType DEF DaemonTypeOK, RelayRow
<1>5. \A j \in DaemonSlots : AloneOK(j)'
  BY <1>1, <1>3 DEF AloneOK
<1>6. ~drifted' => daemon'.config = latest'
  BY <1>1, <1>2 DEF AloneOK, DaemonTypeOK
<1>7. QED BY <1>1, <1>4, <1>5, <1>6

LEMMA RelayStepKeeps ==
  ASSUME DaemonInv, RelayStep
  PROVE  DaemonInv'
<1>1. ASSUME NEW k \in DaemonSlots,
             InstallPlugin(k) \/ PutConfig(k) \/ SaveConfig(k) \/ SaveDependent(k)
      PROVE  DaemonInv'
  <2>1. CASE InstallPlugin(k)
    BY <2>1, EnterKeeps DEF InstallPlugin, RelayStates
  <2>2. CASE PutConfig(k)
    BY <2>2, EnterKeeps DEF PutConfig, RelayStates
  <2>3. CASE SaveConfig(k)
    BY <2>3, EnterKeeps DEF SaveConfig, RelayStates
  <2>4. CASE SaveDependent(k)
    BY <2>4, EnterKeeps DEF SaveDependent, RelayStates
  <2>5. QED BY <1>1, <2>1, <2>2, <2>3, <2>4
<1>2. ASSUME /\ UNCHANGED <<rowVars, relay, drifted>> /\ daemon'.config = daemon.config
             /\ DaemonTypeOK => DaemonTypeOK'
      PROVE  DaemonInv'
  BY <1>2 DEF DaemonInv, AloneOK, rowVars
<1>3. CASE EnablePlugin \/ DisablePlugin \/ SetCapabilities \/ SetAutoAccept
  BY <1>2, <1>3 DEF EnablePlugin, DisablePlugin, SetCapabilities, SetAutoAccept,
     DaemonTypeOK, DaemonInv, rowVars
<1>4. CASE SendFriendRequest \/ AcceptFriendRequest \/ RejectFriendRequest
  BY <1>2, <1>4 DEF SendFriendRequest, AcceptFriendRequest, RejectFriendRequest,
     Befriend, DaemonTypeOK, DaemonInv, rowVars
<1>5. ASSUME NEW k \in DaemonSlots,
             \/ DaemonInstalls(k) \/ InstallFails(k) \/ FindStored(k)
             \/ SaveInstalls(k) \/ FindForDependent(k)
      PROVE  DaemonInv'
  <2>1. /\ relay[k] # NoRelay /\ relay[k] \in RelayRow /\ UNCHANGED rowVars
        /\ relay[k].at \in {"install", "saveInstall", "find", "dependent"}
    BY <1>5 DEF DaemonInstalls, InstallFails, FindStored, SaveInstalls,
       FindForDependent, NoRelay,
       DaemonInv, DaemonTypeOK, RelayRow
  <2>2. /\ daemon' = daemon \/ daemon' = [daemon EXCEPT !.installed = TRUE]
        /\ drifted' = drifted \/ drifted' = TRUE
    BY <1>5 DEF DaemonInstalls, InstallFails, FindStored, SaveInstalls,
       FindForDependent, Installed,
       DaemonInv, DaemonTypeOK
  <2>3. CASE Leave(k)
    BY <2>1, <2>2, <2>3, NoRelayType, RelayMoves DEF Leave
  <2>4. CASE ~Leave(k)
    <3>1. PICK at \in {"find", "push", "saveForward"}, x \in Configs \cup {NoConfig} :
            /\ relay' = [relay EXCEPT ![k].at = at, ![k].config = x]
            /\ \/ at = "find"
               \/ x = latest
               \/ x = relay[k].config /\ relay[k].at = "saveInstall"
      BY <1>5, <2>1, <2>4 DEF DaemonInstalls, InstallFails, FindStored, SaveInstalls,
         FindForDependent, Proceed, RelayRow, DaemonInv, DaemonTypeOK
    <3> DEFINE r == [relay[k] EXCEPT !.at = at, !.config = x]
    <3>2. r \in RelayRow /\ r.at = at /\ r.config = x /\ r.alone = relay[k].alone
      BY <2>1 DEF RelayRow, RelayStates
    <3>3. relay' = [relay EXCEPT ![k] = r]
      BY <3>1 DEF DaemonInv, DaemonTypeOK
    <3> HIDE DEF r
    <3>4. QED BY <2>1, <2>2, <3>1, <3>2, <3>3, RelayMoves
  <2>5. QED BY <2>3, <2>4
<1>6. CASE RelaysCutOff
  <2>1. UNCHANGED rowVars /\ daemon' = daemon /\ drifted \in BOOLEAN
    BY <1>6 DEF RelaysCutOff, DaemonInv, DaemonTypeOK
  <2>2. drifted' \in BOOLEAN /\ (~drifted' => ~drifted)
    BY <1>6, <2>1 DEF RelaysCutOff
  <2>3. relay' \in [DaemonSlots -> RelayRow] /\ \A k \in DaemonSlots : relay'[k] = NoRelay
    BY <1>6, NoRelayType DEF RelaysCutOff
  <2>4. QED BY <2>1, <2>2, <2>3 DEF DaemonInv, DaemonTypeOK, AloneOK, RelayRow,
       rowVars
<1>7. CASE UNCHANGED daemonVars
  BY <1>7 DEF daemonVars, rowVars, DaemonInv, DaemonTypeOK, AloneOK
<1>8. CASE DeleteConfig
  BY <1>8 DEF DeleteConfig, DaemonInv, DaemonTypeOK, AloneOK
<1>9. QED
  BY <1>1, <1>3, <1>4, <1>5, <1>6, <1>7, <1>8, ForwardKeeps
     DEF RelayStep, DaemonRequests, DaemonEvents

\* The inductive invariant of the calls to the daemon.
THEOREM DaemonsAreSound == Spec => []DaemonInv
<1>1. Init => DaemonInv
  BY InitDaemon DEF Init, DeskInit
<1>2. DaemonInv /\ [Next]_vars => DaemonInv'
  BY DeskSteps, RelayStepKeeps
<1>3. QED BY <1>1, <1>2, PTL DEF Spec

\* With no call under way, a daemon that has the plugin has the configuration
\* that was stored last, and so has the row unless its setup was rolled back,
\* unless the last call failed, was cut off, overlapped with another, or was a
\* save of secrets only (api/routes/bot-plugin-proxy.ts, setup.ts).
THEOREM ConfigsReachTheDaemon == Spec => []ConfigReachesDaemon
<1>1. DaemonInv => ConfigReachesDaemon
  BY DEF DaemonInv, ConfigReachesDaemon
<1>2. QED BY <1>1, DaemonsAreSound, PTL

(***************************************************************************)
(* The stream of a log.  Division of its pieces into lines comes first.     *)
(***************************************************************************)

LEMMA ProductsGrow ==
  ASSUME NEW w \in Nat \ {0}, NEW p \in Int, NEW q \in Int, p < q
  PROVE  w * p + w <= w * q
<1>1. w * (p + 1) <= w * q
  OBVIOUS
<1>2. w * (p + 1) = w * p + w
  OBVIOUS
<1>3. QED BY <1>1, <1>2

LEMMA Division ==
  ASSUME NEW w \in Nat \ {0}, NEW a \in Nat
  PROVE  /\ a \div w \in Nat /\ a % w \in 0..(w - 1)
         /\ a = w * (a \div w) + (a % w)
<1>1. a \div w \in Int /\ a \div w >= 0
  OBVIOUS
<1>2. a % w \in Int /\ a % w >= 0 /\ a % w < w
  OBVIOUS
<1>3. a = w * (a \div w) + (a % w)
  OBVIOUS
<1>4. QED BY <1>1, <1>2, <1>3

LEMMA DivisionIsUnique ==
  ASSUME NEW w \in Nat \ {0}, NEW a \in Nat, NEW q \in Int, NEW r \in 0..(w - 1)
  PROVE  a = w * q + r => a \div w = q /\ a % w = r
<1> DEFINE p == a \div w
           s == a % w
<1>1. p \in Int /\ s \in 0..(w - 1) /\ a = w * p + s
  BY Division
<1> HIDE DEF p, s
<1>2. HAVE a = w * q + r
<1>3. ~(p < q)
  BY <1>1, <1>2, ProductsGrow
<1>4. ~(q < p)
  BY <1>1, <1>2, ProductsGrow
<1>5. p = q /\ s = r
  BY <1>1, <1>2, <1>3, <1>4
<1>6. QED BY <1>5 DEF p, s

LEMMA DivisionGrows ==
  ASSUME NEW w \in Nat \ {0}, NEW a \in Nat, NEW b \in Nat, a <= b
  PROVE  a \div w <= b \div w
<1> DEFINE p == a \div w
           q == b \div w
           r == a % w
           s == b % w
<1>1. /\ p \in Int /\ r \in 0..(w - 1) /\ a = w * p + r
      /\ q \in Int /\ s \in 0..(w - 1) /\ b = w * q + s
  BY Division
<1> HIDE DEF p, q, r, s
<1>2. ~(q < p)
  BY <1>1, ProductsGrow
<1>3. QED BY <1>1, <1>2 DEF p, q

\* n more pieces after a: what is held and the new ones make up the new lines.
LEMMA DivisionOfSum ==
  ASSUME NEW w \in Nat \ {0}, NEW a \in Nat, NEW n \in Nat
  PROVE  LET total == (a % w) + n IN
         /\ total \in Nat /\ total \div w \in Nat
         /\ (a + n) % w = total % w
         /\ (a + n) \div w = (a \div w) + (total \div w)
<1> DEFINE p == a \div w
           r == a % w
           t == r + n
           u == t \div w
           v == t % w
<1>1. p \in Nat /\ r \in 0..(w - 1) /\ a = w * p + r
  BY Division
<1> HIDE DEF p, r
<1>2. t \in Nat
  BY <1>1
<1>3. u \in Nat /\ v \in 0..(w - 1) /\ t = w * u + v
  BY <1>2, Division
<1>4. a + n = w * p + t
  BY <1>1
<1> HIDE DEF t, u, v
<1>5. w * (p + u) = w * p + w * u
  BY <1>1, <1>3
<1>6. a + n = w * (p + u) + v /\ p + u \in Int /\ a + n \in Nat
  BY <1>1, <1>2, <1>3, <1>4, <1>5
<1>7. (a + n) \div w = p + u /\ (a + n) % w = v
  BY <1>3, <1>6, DivisionIsUnique
<1>8. QED BY <1>2, <1>3, <1>7 DEF p, r, t, u, v

(***************************************************************************)
(* What is held are the pieces of the line that is not complete yet; it is *)
(* spoilt if a chunk has ended within its character.                       *)
(***************************************************************************)

CutIn(k) == \E p \in source.cuts : p \div Width = k /\ Splits(p)

LogInv ==
  /\ LogTypeOK
  /\ \A p \in source.cuts : p <= source.pieces
  /\ tail.held = source.pieces % Width
  /\ tail.spoilt <=> CutIn(source.pieces \div Width)
  /\ LogsArriveWhole

LineRow == [spoilt : BOOLEAN, whole : BOOLEAN]

\* Types and division, for the proofs below.
LEMMA LogKnown ==
  ASSUME LogInv
  PROVE  /\ Width \in Nat \ {0} /\ Lines \in Nat
         /\ source.pieces \in Nat /\ source.cuts \subseteq Nat
         /\ tail.held \in 0..(Width - 1) /\ tail.spoilt \in BOOLEAN
         /\ tail.sent \in Seq(LineRow)
         /\ source.pieces \div Width \in Nat /\ source.pieces % Width \in 0..(Width - 1)
<1>1. Width \in Nat \ {0} /\ Lines \in Nat
  BY LogAssumption
<1>2. /\ source.pieces \in Nat /\ source.cuts \subseteq Nat
      /\ tail.held \in 0..(Width - 1) /\ tail.spoilt \in BOOLEAN
      /\ tail.sent \in Seq(LineRow)
  BY DEF LogInv, LogTypeOK, LineRow
<1>3. QED BY <1>1, <1>2, Division

LEMMA InitLog == LogInit => LogInv
<1> SUFFICES ASSUME LogInit PROVE LogInv
  OBVIOUS
<1>1. Width \in Nat \ {0} /\ 0 \in 0..(Width - 1)
  BY LogAssumption
<1>2. 0 \div Width = 0 /\ 0 % Width = 0
  <2>1. 0 = Width * 0 + 0
    BY <1>1
  <2>2. QED BY <1>1, <2>1, DivisionIsUnique
<1>3. /\ tail.at = "unused" /\ tail.held = 0 /\ tail.spoilt = FALSE /\ tail.sent = <<>>
      /\ source.pieces = 0 /\ source.cuts = {}
  BY DEF LogInit
<1>4. LogTypeOK
  <2>1. <<>> \in Seq([spoilt : BOOLEAN, whole : BOOLEAN])
    OBVIOUS
  <2>2. QED BY <1>1, <2>1 DEF LogInit, LogTypeOK
<1>5. LogsArriveWhole
  BY <1>2, <1>3 DEF LogsArriveWhole
<1>6. QED BY <1>2, <1>3, <1>4, <1>5 DEF LogInv, CutIn

LEMMA LogDataKeeps ==
  ASSUME LogInv, LogData
  PROVE  LogInv'
<1>1. PICK n \in 1..(Lines * Width - source.pieces) :
        LET end == source.pieces + n
            total == tail.held + n
            complete == total \div Width IN
        /\ tail.at = "open"
        /\ source' = [pieces |-> end, cuts |-> source.cuts \cup {end}]
        /\ tail' = [tail EXCEPT
             !.held = total % Width,
             !.spoilt = Splits(end) \/ (complete = 0 /\ tail.spoilt),
             !.sent = tail.sent \o [i \in 1..complete |->
                              [spoilt |-> i = 1 /\ tail.spoilt, whole |-> TRUE]]]
  BY DEF LogData, Held
<1> DEFINE end == source.pieces + n
           total == tail.held + n
           d == total \div Width
           q == source.pieces \div Width
           new == [i \in 1..d |-> [spoilt |-> i = 1 /\ tail.spoilt, whole |-> TRUE]]
<1>2. /\ Width \in Nat \ {0} /\ source.pieces \in Nat /\ n \in Nat \ {0}
      /\ source.cuts \subseteq Nat /\ tail.spoilt \in BOOLEAN /\ tail.sent \in Seq(LineRow)
      /\ q \in Nat
  BY LogKnown
<1>3. tail.held = source.pieces % Width
  BY DEF LogInv
<1>4. /\ total \in Nat /\ d \in Nat /\ end \in Nat
      /\ end % Width = total % Width /\ end \div Width = q + d
      /\ end % Width \in 0..(Width - 1)
  <2>1. LET t == (source.pieces % Width) + n IN
        /\ t \in Nat /\ t \div Width \in Nat
        /\ (source.pieces + n) % Width = t % Width
        /\ (source.pieces + n) \div Width = (source.pieces \div Width) + (t \div Width)
    BY <1>2, DivisionOfSum
  <2>2. end \in Nat
    BY <1>2
  <2>3. end % Width \in 0..(Width - 1)
    BY <1>2, <2>2, Division
  <2>4. QED BY <1>3, <2>1, <2>2, <2>3
<1>5. /\ source'.pieces = end /\ source'.cuts = source.cuts \cup {end}
      /\ source' \in [pieces : Nat, cuts : SUBSET Nat]
  BY <1>1, <1>2, <1>4
<1>6. /\ tail'.at = "open" /\ tail'.held = end % Width /\ tail'.sent = tail.sent \o new
      /\ tail'.spoilt = (Splits(end) \/ (d = 0 /\ tail.spoilt))
  BY <1>1, <1>4 DEF LogInv, LogTypeOK
<1>7. new \in Seq(LineRow) /\ Len(new) = d
  <2>1. \A i \in 1..d : [spoilt |-> i = 1 /\ tail.spoilt, whole |-> TRUE] \in LineRow
    BY <1>2 DEF LineRow
  <2> HIDE DEF d
  <2>2. new \in [1..d -> LineRow]
    BY <2>1
  <2> HIDE DEF new
  <2>3. QED BY <1>4, <2>2
<1>8. \A i \in 1..d : new[i].whole = TRUE /\ (new[i].spoilt <=> i = 1 /\ tail.spoilt)
  OBVIOUS
<1> HIDE DEF end, total, d, q, new
<1>9. /\ \A p \in source.cuts : p \in Nat /\ p \div Width \in Nat /\ p \div Width <= q
      /\ \A p \in source'.cuts : p <= source'.pieces
  <2>1. \A p \in source.cuts : p \in Nat /\ p <= source.pieces
    BY <1>2 DEF LogInv
  <2>2. \A p \in source.cuts : p \div Width \in Nat /\ p \div Width <= q
    BY <1>2, <2>1, Division, DivisionGrows DEF q
  <2>3. source.pieces <= end
    BY <1>2 DEF end
  <2>4. \A p \in source.cuts \cup {end} : p <= end
    BY <1>2, <1>4, <2>1, <2>3
  <2>5. QED BY <1>5, <2>1, <2>2, <2>4
<1>10. \A k \in Nat : CutIn(k)' <=> CutIn(k) \/ (q + d = k /\ Splits(end))
  BY <1>4, <1>5 DEF CutIn, Splits
<1>11. \A k \in Nat : k > q => ~CutIn(k)
  BY <1>2, <1>9 DEF CutIn
<1>12. /\ Len(tail.sent) = q
       /\ \A i \in 1..q : tail.sent[i].whole /\ (tail.sent[i].spoilt <=> CutIn(i - 1))
  <2>1. Len(tail.sent) = q
    BY <1>1 DEF LogInv, LogsArriveWhole, q
  <2>2. DOMAIN tail.sent = 1..q
    BY <1>2, <2>1
  <2>3. QED BY <2>1, <2>2 DEF LogInv, LogsArriveWhole, CutIn, q
<1>13. tail.spoilt <=> CutIn(q)
  BY DEF LogInv, q
<1>14. /\ tail'.sent \in Seq(LineRow) /\ Len(tail'.sent) = q + d
       /\ \A i \in 1..q : tail'.sent[i] = tail.sent[i]
       /\ \A i \in 1..d : tail'.sent[q + i] = new[i]
  <2> DEFINE u == tail.sent
  <2>1. u \in Seq(LineRow) /\ new \in Seq(LineRow) /\ Len(u) = q
    BY <1>2, <1>7, <1>12
  <2> HIDE DEF u, LineRow
  <2>2. /\ u \o new \in Seq(LineRow) /\ Len(u \o new) = Len(u) + Len(new)
        /\ \A i \in 1..Len(u) : (u \o new)[i] = u[i]
        /\ \A i \in 1..Len(new) : (u \o new)[Len(u) + i] = new[i]
    BY ONLY <2>1
  <2>3. tail'.sent = u \o new
    BY <1>6 DEF u
  <2>4. QED BY <1>7, <2>1, <2>2, <2>3 DEF u
<1>15. \A i \in 1..(q + d) : tail'.sent[i].whole /\ (tail'.sent[i].spoilt <=> CutIn(i - 1)')
  <2> SUFFICES ASSUME NEW i \in 1..(q + d)
               PROVE  tail'.sent[i].whole /\ (tail'.sent[i].spoilt <=> CutIn(i - 1)')
    OBVIOUS
  <2>1. i - 1 \in Nat /\ i - 1 # q + d
    BY <1>2, <1>4
  <2>2. CutIn(i - 1)' <=> CutIn(i - 1)
    BY <1>10, <2>1
  <2>3. CASE i <= q
    <3>1. i \in 1..q
      BY <1>2, <1>4, <2>3
    <3>2. QED BY <1>12, <1>14, <2>2, <3>1
  <2>4. CASE i > q
    <3> DEFINE j == i - q
    <3>1. j \in 1..d /\ i = q + j
      BY <1>2, <1>4, <2>4
    <3>2. tail'.sent[i] = new[j]
      BY <1>14, <3>1
    <3>3. CASE j = 1
      <4>1. i - 1 = q
        BY <1>2, <3>1, <3>3
      <4>2. QED BY <1>8, <1>13, <2>2, <3>1, <3>2, <3>3, <4>1
    <3>4. CASE j # 1
      <4>1. i - 1 > q
        BY <1>2, <3>1, <3>4
      <4>2. QED BY <1>8, <1>11, <2>1, <2>2, <3>1, <3>2, <3>4, <4>1
    <3>5. QED BY <3>3, <3>4
  <2>5. QED BY <1>2, <2>3, <2>4
<1>16. ASSUME NEW k \in Nat, k = q + d
       PROVE  tail'.spoilt <=> CutIn(k)'
  <2>1. CutIn(k)' <=> CutIn(k) \/ Splits(end)
    BY <1>10, <1>16
  <2>2. CASE d = 0
    <3>1. k = q
      BY <1>2, <1>16, <2>2
    <3>2. QED BY <1>6, <1>13, <2>1, <2>2, <3>1
  <2>3. CASE d # 0
    <3>1. k > q
      BY <1>2, <1>4, <1>16, <2>3
    <3>2. ~CutIn(k)
      BY <1>11, <3>1
    <3>3. QED BY <1>6, <2>1, <2>3, <3>2
  <2>4. QED BY <2>2, <2>3
<1>17. source'.pieces \div Width = q + d
  BY <1>4, <1>5
<1>18. LogsArriveWhole'
  <2>1. DOMAIN tail'.sent = 1..(q + d)
    BY <1>14
  <2>2. Len(tail'.sent) = source'.pieces \div Width /\ tail'.at # "ended"
    BY <1>6, <1>14, <1>17
  <2>3. \A i \in DOMAIN tail'.sent :
          /\ tail'.sent[i].whole <=> i <= q + d
          /\ tail'.sent[i].spoilt <=> CutIn(i - 1)'
    <3> SUFFICES ASSUME NEW i \in DOMAIN tail'.sent
                 PROVE  /\ tail'.sent[i].whole <=> i <= q + d
                        /\ tail'.sent[i].spoilt <=> CutIn(i - 1)'
      OBVIOUS
    <3>1. i \in 1..(q + d)
      BY <2>1
    <3>2. i <= q + d
      BY <1>2, <1>4, <3>1
    <3>3. tail'.sent[i].whole /\ (tail'.sent[i].spoilt <=> CutIn(i - 1)')
      BY <1>15, <3>1
    <3>4. QED BY <3>2, <3>3
  <2>4. QED BY <1>17, <2>2, <2>3 DEF LogsArriveWhole, CutIn
<1>19. LogTypeOK'
  <2>1. tail'.spoilt \in BOOLEAN
    BY <1>2, <1>6 DEF Splits
  <2>2. tail' = [tail EXCEPT !.held = end % Width, !.spoilt = tail'.spoilt,
                             !.sent = tail'.sent]
    BY <1>1, <1>4, <1>6 DEF end, total, d, new
  <2>3. QED BY <1>4, <1>5, <1>14, <2>1, <2>2 DEF LogInv, LogTypeOK, LineRow
<1>20. tail'.spoilt <=> CutIn(source.pieces \div Width)'
  <2>1. q + d \in Nat
    BY <1>2, <1>4
  <2>2. PICK k \in Nat : k = q + d
    BY <2>1
  <2>3. QED BY <1>16, <1>17, <2>2 DEF CutIn
<1>21. QED BY <1>5, <1>6, <1>9, <1>18, <1>19, <1>20 DEF LogInv

\* The stream ends, in whatever way.
LEMMA LogEndKeeps ==
  ASSUME LogInv, LogEnd \/ LogError \/ LeaveLog \/ LogCutOff \/ OpenLog
  PROVE  LogInv'
<1> DEFINE q == source.pieces \div Width
           rest == source.pieces % Width
<1>1. source' = source
  BY DEF LogEnd, LogError, LeaveLog, LogCutOff, OpenLog
<1>2. /\ tail.held = rest /\ tail.sent \in Seq(LineRow) /\ tail.spoilt \in BOOLEAN
      /\ q \in Nat /\ rest \in 0..(Width - 1) /\ (tail.spoilt <=> CutIn(q))
  BY LogKnown DEF LogInv
<1>3. tail.at # "ended" =>
        /\ Len(tail.sent) = q
        /\ \A i \in DOMAIN tail.sent :
             (tail.sent[i].whole <=> i <= q) /\ (tail.sent[i].spoilt <=> CutIn(i - 1))
  BY DEF LogInv, LogsArriveWhole, CutIn
<1>4. /\ tail'.held = tail.held /\ tail'.spoilt = tail.spoilt
      /\ LogTypeOK' => LogInv' \/ ~LogsArriveWhole'
  <2>1. tail'.held = tail.held /\ tail'.spoilt = tail.spoilt
    BY DEF LogEnd, LogError, LeaveLog, LogCutOff, OpenLog, LogInv, LogTypeOK
  <2>2. QED BY <1>1, <2>1 DEF LogInv, CutIn
<1>5. CASE tail'.sent = tail.sent /\ (tail'.at = "ended" => tail.at = "ended" \/ rest = 0)
  <2>1. LogTypeOK'
    BY <1>1, <1>5 DEF LogEnd, LogError, LeaveLog, LogCutOff, OpenLog, LogInv, LogTypeOK
  <2>2. tail.at = "ended" => tail'.at = "ended"
    BY DEF LogEnd, LogError, LeaveLog, LogCutOff, OpenLog, LogInv, LogTypeOK
  <2>3. (tail'.at = "ended" /\ rest # 0) <=> (tail.at = "ended" /\ rest # 0)
    BY <1>5, <2>2
  <2>4. LogsArriveWhole'
    BY <1>1, <1>5, <2>3 DEF LogInv, LogsArriveWhole
  <2>5. QED BY <1>4, <2>1, <2>4
<1>6. CASE /\ tail.at = "open" /\ tail'.at = "ended" /\ rest # 0
           /\ tail'.sent = Append(tail.sent, [spoilt |-> tail.spoilt, whole |-> FALSE])
           /\ tail' = [tail EXCEPT !.at = "ended", !.sent = tail'.sent]
  <2> DEFINE row == [spoilt |-> tail.spoilt, whole |-> FALSE]
  <2>1. row \in LineRow /\ row.whole = FALSE /\ (row.spoilt <=> CutIn(q))
    BY <1>2 DEF LineRow
  <2> HIDE DEF row
  <2>2. /\ tail'.sent \in Seq(LineRow) /\ Len(tail'.sent) = q + 1
        /\ \A i \in 1..q : tail'.sent[i] = tail.sent[i]
        /\ tail'.sent[q + 1] = row
    BY <1>2, <1>3, <1>6, <2>1 DEF row
  <2>3. LogTypeOK'
    BY <1>1, <1>6, <2>2 DEF LogInv, LogTypeOK, LineRow
  <2>4. \A i \in 1..(q + 1) :
          (tail'.sent[i].whole <=> i <= q) /\ (tail'.sent[i].spoilt <=> CutIn(i - 1))
    <3> SUFFICES ASSUME NEW i \in 1..(q + 1)
        PROVE (tail'.sent[i].whole <=> i <= q) /\ (tail'.sent[i].spoilt <=> CutIn(i - 1))
      OBVIOUS
    <3>1. CASE i \in 1..q
      <4>1. i \in DOMAIN tail.sent
        BY <1>2, <1>3, <1>6, <3>1
      <4>2. QED BY <1>3, <1>6, <2>2, <3>1, <4>1
    <3>2. CASE i = q + 1
      <4>1. i - 1 = q /\ ~(i <= q)
        BY <1>2, <3>2
      <4>2. QED BY <2>1, <2>2, <3>2, <4>1
    <3>3. QED BY <1>2, <3>1, <3>2
  <2>5. DOMAIN tail'.sent = 1..(q + 1)
    BY <1>2, <2>2
  <2>6. LogsArriveWhole'
    BY <1>1, <1>6, <2>2, <2>4, <2>5 DEF LogsArriveWhole, CutIn
  <2>7. QED BY <1>4, <2>3, <2>6
<1>7. CASE LogEnd
  BY <1>2, <1>5, <1>6, <1>7 DEF LogEnd, LogInv, LogTypeOK
<1>8. CASE LogError \/ LeaveLog \/ LogCutOff \/ OpenLog
  BY <1>5, <1>8 DEF LogError, LeaveLog, LogCutOff, OpenLog, LogInv, LogTypeOK
<1>9. QED BY <1>7, <1>8

\* The inductive invariant of the stream of a log.
THEOREM LogsAreSound == Spec => []LogInv
<1>1. Init => LogInv
  BY InitLog DEF Init, DeskInit
<1>2. LogInv /\ [Next]_vars => LogInv'
  <2> SUFFICES ASSUME LogInv, LogStep PROVE LogInv'
    BY DeskSteps
  <2>1. CASE UNCHANGED logVars
    BY <2>1 DEF logVars, LogInv, LogTypeOK, LogsArriveWhole, CutIn
  <2>2. QED BY <2>1, LogDataKeeps, LogEndKeeps DEF LogStep, LogRequests, LogEvents
<1>3. QED BY <1>1, <1>2, PTL DEF Spec

\* The daemon has the configuration that is stored, and the lines of the log
\* arrive whole, once and in order: the property of the runs
\* (api/routes/bot-plugin-proxy.ts, routes/fleet.ts).
THEOREM ContainersAreInTouch == Spec => []DaemonIsInTouch
<1>1. ConfigReachesDaemon /\ LogInv => DaemonIsInTouch
  BY DEF DaemonIsInTouch, LogInv
<1>2. QED BY <1>1, ConfigsReachTheDaemon, LogsAreSound, PTL

(***************************************************************************)
(* Signing up.  Who is verified without credit has a grant ahead or has    *)
(* missed both.                                                            *)
(***************************************************************************)

UserRow ==
  [created : BOOLEAN, verified : BOOLEAN, credited : BOOLEAN, workspace : BOOLEAN,
   hook : {"idle", "credit", "workspace"}, link : {"idle", "credit"},
   missed : SUBSET {"hook", "link"}]

UserOK(user) ==
  /\ user.verified \/ user.hook # "idle" => user.created
  /\ user.created /\ ~user.credited =>
       /\ user.hook = "credit" \/ "hook" \in user.missed
       /\ user.verified => user.link = "credit" \/ "link" \in user.missed

SignUpInv == SignUpTypeOK /\ \A u \in NewUsers : UserOK(newcomer[u])

LEMMA InitSignUp == SignUpInit => SignUpInv
<1>1. Nobody \in UserRow /\ UserOK(Nobody)
  BY DEF Nobody, UserRow, UserOK
<1>2. QED BY <1>1 DEF SignUpInit, SignUpInv, SignUpTypeOK, UserRow

LEMMA SignUpKeeps ==
  ASSUME SignUpInv, SignUpStep
  PROVE  SignUpInv'
<1>1. newcomer \in [NewUsers -> UserRow] /\ \A u \in NewUsers : UserOK(newcomer[u])
  BY DEF SignUpInv, SignUpTypeOK, UserRow
<1>2. ASSUME newcomer' \in [NewUsers -> UserRow], \A u \in NewUsers : UserOK(newcomer'[u])
      PROVE  SignUpInv'
  BY <1>2 DEF SignUpInv, SignUpTypeOK, UserRow
<1>3. ASSUME NEW u \in NewUsers, NEW user \in UserRow, UserOK(user),
             newcomer' = [newcomer EXCEPT ![u] = user]
      PROVE  SignUpInv'
  BY <1>1, <1>2, <1>3
<1>4. ASSUME NEW u \in NewUsers,
             \/ CreateUser(u) \/ HookCredit(u) \/ HookWorkspace(u) \/ Verify(u)
             \/ LinkCredit(u)
      PROVE  SignUpInv'
  <2> DEFINE was == newcomer[u]
             user == newcomer'[u]
  <2>1. was \in UserRow /\ UserOK(was)
    BY <1>1
  <2>2. newcomer' = [newcomer EXCEPT ![u] = user]
    BY <1>1, <1>4 DEF CreateUser, HookCredit, HookWorkspace, Verify, LinkCredit
  <2>3. CASE CreateUser(u)
    <3>1. user = [was EXCEPT !.created = TRUE, !.hook = "credit"]
      BY <1>1, <2>3 DEF CreateUser
    <3> HIDE DEF was, user
    <3>2. user \in UserRow /\ UserOK(user)
      BY <2>1, <3>1, <2>3 DEF UserRow, UserOK, CreateUser, was
    <3>3. QED BY <1>3, <2>2, <3>2 DEF user
  <2>4. CASE HookCredit(u)
    <3>1. PICK granted \in BOOLEAN :
            user = [was EXCEPT !.hook = "workspace", !.credited = @ \/ granted,
                      !.missed = IF granted THEN @ ELSE @ \cup {"hook"}]
      BY <1>1, <2>4 DEF HookCredit
    <3>2. was.hook = "credit"
      BY <2>4 DEF HookCredit
    <3> HIDE DEF was, user
    <3>3. user \in UserRow /\ UserOK(user)
      BY <2>1, <3>1, <3>2 DEF UserRow, UserOK
    <3>4. QED BY <1>3, <2>2, <3>3 DEF user
  <2>5. CASE HookWorkspace(u)
    <3>1. PICK made \in BOOLEAN :
            user = [was EXCEPT !.hook = "idle", !.workspace = @ \/ made]
      BY <1>1, <2>5 DEF HookWorkspace
    <3>2. was.hook = "workspace"
      BY <2>5 DEF HookWorkspace
    <3> HIDE DEF was, user
    <3>3. user \in UserRow /\ UserOK(user)
      BY <2>1, <3>1, <3>2 DEF UserRow, UserOK
    <3>4. QED BY <1>3, <2>2, <3>3 DEF user
  <2>6. CASE Verify(u)
    <3>1. user = [was EXCEPT !.verified = TRUE, !.link = "credit"] /\ was.created
      BY <1>1, <2>6 DEF Verify
    <3> HIDE DEF was, user
    <3>2. user \in UserRow /\ UserOK(user)
      BY <2>1, <3>1 DEF UserRow, UserOK
    <3>3. QED BY <1>3, <2>2, <3>2 DEF user
  <2>7. CASE LinkCredit(u)
    <3>1. PICK granted \in BOOLEAN :
            user = [was EXCEPT !.link = "idle", !.credited = @ \/ granted,
                      !.missed = IF granted THEN @ ELSE @ \cup {"link"}]
      BY <1>1, <2>7 DEF LinkCredit, LinkGrants
    <3> HIDE DEF was, user
    <3>2. user \in UserRow /\ UserOK(user)
      BY <2>1, <3>1 DEF UserRow, UserOK
    <3>3. QED BY <1>3, <2>2, <3>2 DEF user
  <2>8. QED BY <1>4, <2>3, <2>4, <2>5, <2>6, <2>7
<1>5. CASE SignUpCutOff
  <2> DEFINE left(u) == [newcomer[u] EXCEPT
        !.hook = "idle", !.link = "idle",
        !.missed = @ \cup (IF newcomer[u].hook = "credit" THEN {"hook"} ELSE {})
                     \cup (IF newcomer[u].link = "credit" THEN {"link"} ELSE {})]
  <2>1. newcomer' = [u \in NewUsers |-> left(u)]
    BY <1>5 DEF SignUpCutOff
  <2>2. ASSUME NEW u \in NewUsers PROVE left(u) \in UserRow /\ UserOK(left(u))
    <3> DEFINE was == newcomer[u]
    <3>1. was \in UserRow /\ UserOK(was)
      BY <1>1
    <3>2. left(u) = [was EXCEPT !.hook = "idle", !.link = "idle",
            !.missed = @ \cup (IF was.hook = "credit" THEN {"hook"} ELSE {})
                         \cup (IF was.link = "credit" THEN {"link"} ELSE {})]
      OBVIOUS
    <3> DEFINE lost == (IF was.hook = "credit" THEN {"hook"} ELSE {})
                         \cup (IF was.link = "credit" THEN {"link"} ELSE {})
               missed == was.missed \cup lost
    <3>3. left(u) = [was EXCEPT !.hook = "idle", !.link = "idle", !.missed = missed]
      BY <3>1, <3>2 DEF UserRow
    <3> HIDE DEF was, left
    <3>4. /\ lost \subseteq {"hook", "link"}
          /\ was.hook = "credit" => "hook" \in lost
          /\ was.link = "credit" => "link" \in lost
      OBVIOUS
    <3> HIDE DEF lost
    <3>5. /\ missed \in SUBSET {"hook", "link"} /\ was.missed \subseteq missed
          /\ was.hook = "credit" => "hook" \in missed
          /\ was.link = "credit" => "link" \in missed
      BY <3>1, <3>4 DEF UserRow
    <3> HIDE DEF missed
    <3>6. QED BY <3>1, <3>3, <3>5 DEF UserRow, UserOK
  <2> HIDE DEF left
  <2>3. QED BY <1>2, <2>1, <2>2
<1>6. CASE UNCHANGED signupVars
  BY <1>1, <1>2, <1>6 DEF signupVars
<1>7. QED BY <1>4, <1>5, <1>6 DEF SignUpStep, SignUpRequests, SignUpEvents

\* The inductive invariant of signing up.
THEOREM SignUpsAreSound == Spec => []SignUpInv
<1>1. Init => SignUpInv
  BY InitSignUp DEF Init, DeskInit
<1>2. SignUpInv /\ [Next]_vars => SignUpInv'
  BY DeskSteps, SignUpKeeps
<1>3. QED BY <1>1, <1>2, PTL DEF Spec

\* Who has verified the address has the credit for signing up or has missed
\* both grants (index.ts, api/routes/verify-email.ts).
THEOREM VerifiedAreCredited == Spec => []VerifiedIsCredited
<1>1. SignUpInv => VerifiedIsCredited
  BY DEF SignUpInv, SignUpTypeOK, VerifiedIsCredited, UserOK
<1>2. QED BY <1>1, SignUpsAreSound, PTL

(***************************************************************************)
(* Payment methods.  What a call has checked holds as long as it has seen  *)
(* nothing come in between.                                                *)
(***************************************************************************)

CardCallRow ==
  [at : CallStages, card : Cards, hold : BOOLEAN, seen : SUBSET {"detached", "debt"}]

NotLast(cards, card) == \E other \in cards : other # card

CardCallOK(a, c) ==
  /\ c.at = "idle" => c.seen = {}
  /\ c.at \in {"methods", "balance", "detach"} /\ c.seen = {} =>
       /\ ~c.hold => ~a.hold
       /\ c.at = "detach" => ~Indebted(a) \/ NotLast(a.cards, c.card)
  /\ c.at = "topup" /\ "detached" \notin c.seen => a.cards # {}

MethodInv == MethodTypeOK /\ \A k \in CardSlots : CardCallOK(account, call[k])

LEMMA IdleCard ==
  /\ (CHOOSE c \in Cards : TRUE) \in Cards
  /\ \A c \in Cards : NoCall(c) \in CardCallRow /\ NoCall(c).at = "idle" /\ NoCall(c).seen = {}
  /\ \A k : Idle(k) = [call EXCEPT ![k] = NoCall(CHOOSE c \in Cards : TRUE)]
BY CardsAssumption DEF NoCall, CardCallRow, CallStages, Idle

LEMMA InitMethods == MethodInit => MethodInv
<1> SUFFICES ASSUME MethodInit PROVE MethodInv
  OBVIOUS
<1>1. call = [k \in CardSlots |-> NoCall(CHOOSE c \in Cards : TRUE)]
  BY DEF MethodInit
<1> DEFINE card == CHOOSE c \in Cards : TRUE
<1>2. card \in Cards
  BY IdleCard
<1> HIDE DEF card
<1>3. NoCall(card) \in CardCallRow /\ NoCall(card).at = "idle" /\ NoCall(card).seen = {}
  BY <1>2, IdleCard
<1>4. call \in [CardSlots -> CardCallRow] /\ \A k \in CardSlots : call[k] = NoCall(card)
  BY <1>1, <1>3 DEF card
<1>5. account \in [cards : SUBSET Cards, hold : BOOLEAN, owes : BOOLEAN, topup : BOOLEAN]
  BY DEF MethodInit
<1>6. \A k \in CardSlots : CardCallOK(account, call[k])
  BY <1>3, <1>4 DEF CardCallOK
<1>7. QED BY <1>4, <1>5, <1>6 DEF MethodInv, MethodTypeOK, CardCallRow

\* One call goes on or ends, and the account stays, or gets a top-up.
LEMMA CardCallMoves ==
  ASSUME MethodInv, NEW k \in CardSlots, NEW c \in CardCallRow,
         CardCallOK(account, c), call' = [call EXCEPT ![k] = c],
         account' = account \/ account' = [account EXCEPT !.topup = TRUE]
  PROVE  MethodInv'
<1>1. MethodTypeOK'
  BY DEF MethodInv, MethodTypeOK, CardCallRow
<1>2. /\ account'.cards = account.cards /\ account'.hold = account.hold
      /\ account'.owes = account.owes
  BY DEF MethodInv, MethodTypeOK
<1>3. call'[k] = c /\ \A j \in CardSlots \ {k} : call'[j] = call[j]
  BY DEF MethodInv, MethodTypeOK
<1>4. \A j \in CardSlots : CardCallOK(account', call'[j])
  BY <1>2, <1>3 DEF MethodInv, CardCallOK, Indebted
<1>5. QED BY <1>1, <1>4 DEF MethodInv

\* The account changes, and the calls under way have seen what matters to them.
LEMMA SeenKeeps ==
  ASSUME MethodInv, NEW what \in {"detached", "debt"}, NEW calls \in [CardSlots -> CardCallRow],
         \A k \in CardSlots : CardCallOK(account, calls[k]),
         call' = Seen(calls, what),
         account' \in [cards : SUBSET Cards, hold : BOOLEAN, owes : BOOLEAN, topup : BOOLEAN],
         what = "debt" => account'.cards = account.cards
  PROVE  MethodInv'
<1> DEFINE seen(k) == [calls[k] EXCEPT !.seen = @ \cup {what}]
<1>1. /\ call' = [k \in CardSlots |-> IF calls[k].at = "idle" THEN calls[k] ELSE seen(k)]
      /\ \A k \in CardSlots : calls[k] \in CardCallRow
  BY DEF Seen
<1>2. \A k \in CardSlots :
        /\ seen(k) \in CardCallRow /\ seen(k).at = calls[k].at
        /\ seen(k).seen = calls[k].seen \cup {what}
  BY <1>1 DEF CardCallRow
<1> HIDE DEF seen
<1>3. call' \in [CardSlots -> CardCallRow]
  BY <1>1, <1>2
<1>4. MethodTypeOK'
  BY <1>3 DEF MethodTypeOK, CardCallRow
<1>5. ASSUME NEW k \in CardSlots PROVE CardCallOK(account', call'[k])
  <2>1. call'[k] = IF calls[k].at = "idle" THEN calls[k] ELSE seen(k)
    BY <1>1
  <2>2. calls[k].at = "idle" => CardCallOK(account', call'[k])
    BY <2>1 DEF CardCallOK
  <2>3. ASSUME calls[k].at # "idle" PROVE CardCallOK(account', call'[k])
    <3>1. call'[k].at = calls[k].at /\ call'[k].seen = calls[k].seen \cup {what}
      BY <1>2, <2>1, <2>3
    <3>2. CASE what = "detached"
      BY <2>3, <3>1, <3>2 DEF CardCallOK
    <3>3. CASE what = "debt"
      BY <2>3, <3>1, <3>3 DEF CardCallOK
    <3>4. QED BY <3>2, <3>3
  <2>4. QED BY <2>2, <2>3
<1>6. QED BY <1>4, <1>5 DEF MethodInv

\* The account changes to the better.
LEMMA EasedKeeps ==
  ASSUME MethodInv, call' = call,
         account' \in [cards : SUBSET Cards, hold : BOOLEAN, owes : BOOLEAN, topup : BOOLEAN],
         account.cards \subseteq account'.cards,
         account'.hold => account.hold, account'.owes => account.owes
  PROVE  MethodInv'
<1>1. MethodTypeOK'
  BY DEF MethodInv, MethodTypeOK
<1>2. \A k \in CardSlots : CardCallOK(account', call'[k])
  BY DEF MethodInv, CardCallOK, Indebted, NotLast
<1>3. QED BY <1>1, <1>2 DEF MethodInv

\* What there is more than one of, there is another of.
LEMMA NotTheLast ==
  ASSUME NEW cards, NEW card, ~(Cardinality(cards) <= 1) \/ Cardinality(cards) > 1
  PROVE  NotLast(cards, card)
<1> SUFFICES ASSUME \A other \in cards : other = card PROVE FALSE
  BY DEF NotLast
<1>1. cards = {} \/ cards = {card}
  OBVIOUS
<1>2. Cardinality({}) = 0 /\ Cardinality({card}) = 1
  BY FS_EmptySet, FS_Singleton
<1>3. QED BY <1>1, <1>2

LEMMA MethodStepKeeps ==
  ASSUME MethodInv, MethodStep
  PROVE  MethodInv'
<1> DEFINE Account ==
      [cards : SUBSET Cards, hold : BOOLEAN, owes : BOOLEAN, topup : BOOLEAN]
<1>1. /\ account \in Account /\ call \in [CardSlots -> CardCallRow]
      /\ \A k \in CardSlots : call[k] \in CardCallRow /\ CardCallOK(account, call[k])
  BY DEF MethodInv, MethodTypeOK, CardCallRow
<1>2. CASE DetachByRoute
  BY <1>1, <1>2, SeenKeeps DEF DetachByRoute
<1>3. CASE AddCard \/ TopUpOff
  BY <1>1, <1>3, EasedKeeps DEF AddCard, TopUpOff
<1>4. CASE Debt
  <2>1. account' \in Account /\ account'.cards = account.cards
    BY <1>1, <1>4 DEF Debt
  <2>2. CASE call' = Seen(call, "debt")
    BY <1>1, <2>1, <2>2, SeenKeeps
  <2>3. CASE call' # Seen(call, "debt")
    BY <1>1, <1>4, <2>1, <2>3, EasedKeeps DEF Debt
  <2>4. QED BY <2>2, <2>3
<1>5. ASSUME NEW k \in CardSlots, call' = Idle(k),
             account' = account \/ account' = [account EXCEPT !.topup = TRUE]
      PROVE  MethodInv'
  <2> DEFINE card == CHOOSE c \in Cards : TRUE
  <2>1. card \in Cards /\ Idle(k) = [call EXCEPT ![k] = NoCall(card)]
    BY IdleCard
  <2> HIDE DEF card
  <2>2. NoCall(card) \in CardCallRow /\ CardCallOK(account, NoCall(card))
    BY <2>1, IdleCard DEF CardCallOK
  <2>3. QED BY <1>5, <2>1, <2>2, CardCallMoves
<1>6. ASSUME NEW k \in CardSlots, BeginRemoval(k) \/ BeginTopUp(k) \/ ListMethods(k) \/ ReadBalance(k)
      PROVE  MethodInv'
  <2> DEFINE c == call'[k]
  <2>1. call[k] \in CardCallRow /\ CardCallOK(account, call[k])
    BY <1>1
  <2>2. CASE BeginRemoval(k)
    <3>1. PICK card \in account.cards :
            call' = [call EXCEPT ![k] =
              [at |-> "methods", card |-> card, hold |-> account.hold, seen |-> {}]]
      BY <2>2 DEF BeginRemoval
    <3> DEFINE new == [at |-> "methods", card |-> card, hold |-> account.hold, seen |-> {}]
    <3>2. new \in CardCallRow /\ CardCallOK(account, new)
      BY <1>1 DEF CardCallRow, CallStages, CardCallOK
    <3>3. QED BY <2>2, <3>1, <3>2, CardCallMoves DEF BeginRemoval
  <2>3. CASE BeginTopUp(k)
    <3> DEFINE new == [call[k] EXCEPT !.at = "topup"]
    <3>1. new \in CardCallRow /\ CardCallOK(account, new)
      BY <2>1, <2>3 DEF CardCallRow, CallStages, CardCallOK, BeginTopUp
    <3>2. call' = [call EXCEPT ![k] = new]
      BY <1>1, <2>3 DEF BeginTopUp
    <3>3. QED BY <2>3, <3>1, <3>2, CardCallMoves DEF BeginTopUp
  <2>4. CASE ListMethods(k)
    <3> DEFINE new == [call[k] EXCEPT !.at = IF SeemsLast THEN "balance" ELSE "detach"]
    <3>1. ~SeemsLast => NotLast(account.cards, call[k].card)
      BY NotTheLast DEF SeemsLast
    <3>2. new \in CardCallRow /\ CardCallOK(account, new)
      BY <2>1, <2>4, <3>1 DEF CardCallRow, CallStages, CardCallOK, ListMethods
    <3>3. call' = [call EXCEPT ![k] = new]
      BY <1>1, <2>4 DEF ListMethods
    <3>4. QED BY <2>4, <3>2, <3>3, CardCallMoves DEF ListMethods
  <2>5. CASE ReadBalance(k)
    <3>1. CASE call[k].hold \/ account.owes
      BY <1>5, <2>5, <3>1 DEF ReadBalance
    <3>2. CASE ~(call[k].hold \/ account.owes)
      <4> DEFINE new == [call[k] EXCEPT !.at = "detach"]
      <4>1. new \in CardCallRow /\ CardCallOK(account, new)
        BY <2>1, <2>5, <3>2 DEF CardCallRow, CallStages, CardCallOK, ReadBalance, Indebted
      <4>2. call' = [call EXCEPT ![k] = new]
        BY <1>1, <2>5, <3>2 DEF ReadBalance
      <4>3. QED BY <2>5, <4>1, <4>2, CardCallMoves DEF ReadBalance
    <3>3. QED BY <3>1, <3>2
  <2>6. QED BY <1>6, <2>2, <2>3, <2>4, <2>5
<1>7. ASSUME NEW k \in CardSlots, Detach(k)
      PROVE  MethodInv'
  <2> DEFINE card == CHOOSE c \in Cards : TRUE
  <2>1. card \in Cards /\ Idle(k) = [call EXCEPT ![k] = NoCall(card)]
    BY IdleCard
  <2> HIDE DEF card
  <2>2. NoCall(card) \in CardCallRow /\ CardCallOK(account, NoCall(card))
    BY <2>1, IdleCard DEF CardCallOK
  <2>3. /\ Idle(k) \in [CardSlots -> CardCallRow]
        /\ \A j \in CardSlots : CardCallOK(account, Idle(k)[j])
    BY <1>1, <2>1, <2>2
  <2>4. call' = Seen(Idle(k), "detached") /\ account' \in Account
    BY <1>1, <1>7 DEF Detach
  <2>5. QED BY <2>3, <2>4, SeenKeeps
<1>8. ASSUME NEW k \in CardSlots, CallFails(k) \/ SaveTopUp(k)
      PROVE  MethodInv'
  BY <1>5, <1>8 DEF CallFails, SaveTopUp
<1>9. CASE CardCallsCutOff
  <2> DEFINE card == CHOOSE c \in Cards : TRUE
  <2>1. card \in Cards
    BY IdleCard
  <2>2. call' = [k \in CardSlots |-> NoCall(card)] /\ account' = account
    BY <1>9 DEF CardCallsCutOff
  <2> HIDE DEF card
  <2>3. NoCall(card) \in CardCallRow /\ CardCallOK(account, NoCall(card))
    BY <2>1, IdleCard DEF CardCallOK
  <2>4. call' \in [CardSlots -> CardCallRow] /\ \A k \in CardSlots : CardCallOK(account', call'[k])
    BY <2>2, <2>3
  <2>5. QED BY <1>1, <2>2, <2>4 DEF MethodInv, MethodTypeOK, CardCallRow
<1>10. CASE UNCHANGED methodVars
  BY <1>10 DEF methodVars, MethodInv, MethodTypeOK
<1>11. QED
  BY <1>2, <1>3, <1>4, <1>6, <1>7, <1>8, <1>9, <1>10
     DEF MethodStep, MethodRequests, MethodEvents

\* The inductive invariant of the payment methods.
THEOREM MethodsAreSound == Spec => []MethodInv
<1>1. Init => MethodInv
  BY InitMethods DEF Init
<1>2. MethodInv /\ [Next]_vars => MethodInv'
  BY PartSteps, MethodStepKeeps
<1>3. QED BY <1>1, <1>2, PTL DEF Spec

\* A removal takes the last card of an account with a debt, and a top-up is
\* switched on without one, only if something has come in between
\* (trpc/routers/billing.ts).
THEOREM LastCardsStay == Spec => LastCardStays
<1>1. MethodInv =>
        \A k \in CardSlots :
          /\ (call[k].at = "detach" /\ account'.cards = account.cards \ {call[k].card}
                /\ account.cards = {call[k].card} /\ call'[k].at = "idle" /\ Indebted(account))
               => call[k].seen # {}
          /\ (call[k].at = "topup" /\ account'.topup /\ ~account.topup /\ call'[k].at = "idle")
               => (account.cards # {} \/ "detached" \in call[k].seen)
  BY DEF MethodInv, CardCallOK, NotLast
<1>2. QED BY <1>1, MethodsAreSound, PTL DEF LastCardStays

(***************************************************************************)
(* Checks.  What a call has checked holds until something has raced it.    *)
(***************************************************************************)

CheckRow == [at : Steps, on : Logins \cup Nat, raced : BOOLEAN]

RowsRow ==
  [logins : SUBSET Logins, offered : Nat, paid : Nat,
   storage : Limits, used : 0..Max(Limits), squeezed : BOOLEAN,
   node : BOOLEAN, connected : BOOLEAN, placed : BOOLEAN,
   keeps : Limits, shots : SUBSET Shots, next : Nat, home : Shots \cup {0}]

\* What has been checked for a call that nothing has raced.
Undisturbed(r, c) ==
  /\ c.at = "unlink" => \E p \in r.logins : p # c.on
  /\ c.at = "upgrade" => r.paid = 0
  /\ c.at = "storage" => r.used <= c.on \/ r.storage <= c.on
  /\ c.at \in {"close", "node"} => ~r.placed
  /\ c.at \in Creating => c.on = r.keeps

CheckOK(r, c) ==
  /\ c.at = "storage" => c.on \in Limits
  /\ c.at \in Creating => c.on \in Limits
  /\ c.at = "restore" => c.on \in Shots
  /\ ~c.raced => Undisturbed(r, c)

UnlinkHolds == rows.logins = {} => "unlink" \in overtaken
UpgradeHolds == "upgrade" \notin overtaken => rows.offered + rows.paid <= 1
StorageHolds == rows.squeezed => "storage" \in overtaken
NodeHolds == (rows.placed /\ ~rows.node) => "node" \in overtaken
SnapshotHolds ==
  (Cardinality(rows.shots) > rows.keeps /\ \A k \in CheckSlots : check[k].at # "retention")
    => "snapshot" \in overtaken

ChecksInv ==
  /\ ChecksTypeOK
  /\ IsFiniteSet(rows.shots)
  /\ \A k \in CheckSlots : CheckOK(rows, check[k])
  /\ UnlinkHolds
  /\ UpgradeHolds
  /\ StorageHolds
  /\ NodeHolds
  /\ SnapshotHolds

\* The smallest and the largest limit.
LEMMA LimitsAre ==
  /\ Limits \subseteq Nat /\ Min(Limits) \in Limits /\ Max(Limits) \in Limits
  /\ \A n \in Limits : n <= Max(Limits)
<1>1. Limits \subseteq Nat
  BY ChecksAssumption
<1>2. PICK least \in Limits, most \in Limits : \A n \in Limits : least <= n /\ n <= most
  BY ChecksAssumption
<1>3. \E m \in Limits : \A n \in Limits : m <= n
  BY <1>2
<1>4. \E m \in Limits : \A n \in Limits : m >= n
  BY <1>1, <1>2
<1>5. Min(Limits) \in Limits
  BY <1>3 DEF Min
<1>6. Max(Limits) \in Limits /\ \A n \in Limits : Max(Limits) >= n
  BY <1>4 DEF Max
<1>7. QED BY <1>1, <1>5, <1>6

\* Of the numbers that fewer than n exceed there are no more than n.
LEMMA LatestAreFew ==
  ASSUME NEW S, S \subseteq Nat, IsFiniteSet(S), NEW n \in Nat \ {0}
  PROVE  LET newest == {s \in S : Cardinality({t \in S : t > s}) < n} IN
         IsFiniteSet(newest) /\ Cardinality(newest) <= n
<1> DEFINE newest == {s \in S : Cardinality({t \in S : t > s}) < n}
<1>1. newest \subseteq S /\ IsFiniteSet(newest)
  BY FS_Subset
<1>2. \A x \in newest : Cardinality({t \in S : t > x}) < n
  OBVIOUS
<1> HIDE DEF newest
<1>3. CASE newest = {}
  <2>1. Cardinality(newest) = 0
    BY <1>3, FS_EmptySet
  <2>2. QED BY <1>1, <2>1 DEF newest
<1>4. CASE newest # {}
  <2>1. newest \subseteq Nat
    BY <1>1
  <2>2. \E x \in newest : \A y \in newest : ~(<<y, x>> \in OpToRel(<, Nat))
    BY <1>4, <2>1, NatLessThanWellFounded, WFMin
  <2>3. PICK x \in newest : \A y \in newest : ~(<<y, x>> \in OpToRel(<, Nat))
    BY <2>2
  <2>4. \A y \in newest : ~(y < x)
    BY <2>1, <2>3 DEF OpToRel
  <2> DEFINE above == {t \in S : t > x}
  <2>5. above \subseteq S /\ IsFiniteSet(above) /\ Cardinality(above) < n
    BY <1>2, <2>3, FS_Subset
  <2>6. newest \ {x} \subseteq above
    BY <1>1, <2>1, <2>4
  <2> HIDE DEF above
  <2>7. /\ Cardinality(newest \ {x}) <= Cardinality(above)
        /\ Cardinality(above) \in Nat
    BY <2>5, <2>6, FS_Subset, FS_CardinalityType
  <2>8. Cardinality(newest \ {x}) = Cardinality(newest) - 1 /\ Cardinality(newest) \in Nat
    BY <1>1, <2>3, FS_RemoveElement, FS_CardinalityType
  <2>9. Cardinality(newest) <= n
    BY <2>5, <2>7, <2>8
  <2>10. QED BY <1>1, <2>9 DEF newest
<1>5. QED BY <1>3, <1>4

LEMMA ChecksTypes ==
  ASSUME ChecksInv
  PROVE  /\ rows \in RowsRow /\ check \in [CheckSlots -> CheckRow] /\ overtaken \subseteq Checked
         /\ \A k \in CheckSlots : check[k] \in CheckRow /\ CheckOK(rows, check[k])
BY DEF ChecksInv, ChecksTypeOK, RowsRow, CheckRow

LEMMA TypesOfChecks ==
  ASSUME rows' \in RowsRow, check' \in [CheckSlots -> CheckRow], overtaken' \subseteq Checked
  PROVE  ChecksTypeOK'
BY DEF ChecksTypeOK, RowsRow, CheckRow

LEMMA NoCheckType == NoCheck \in CheckRow /\ NoCheck.at = "idle" /\ \A r : CheckOK(r, NoCheck)
BY DEF NoCheck, CheckRow, Steps, CheckOK, Undisturbed, Creating

LEMMA InitChecks == ChecksInit => ChecksInv
<1> SUFFICES ASSUME ChecksInit PROVE ChecksInv
  OBVIOUS
<1> USE DEF ChecksInit
<1>1. Min(Limits) \in Limits /\ 0 \in 0..Max(Limits) /\ Min(Limits) \in Nat /\ Logins # {}
  <2>1. Min(Limits) \in Limits /\ Min(Limits) \in Nat /\ Max(Limits) \in Nat
    BY LimitsAre
  <2>2. QED BY <2>1, ChecksAssumption
<1>2. check \in [CheckSlots -> CheckRow] /\ \A k \in CheckSlots : check[k] = NoCheck
  BY NoCheckType
<1>3. ChecksTypeOK
  BY <1>1, <1>2 DEF ChecksTypeOK, CheckRow
<1>4. \A k \in CheckSlots : CheckOK(rows, check[k])
  BY <1>2, NoCheckType
<1>5. IsFiniteSet(rows.shots) /\ Cardinality(rows.shots) = 0
  BY FS_EmptySet
<1>6. UnlinkHolds /\ UpgradeHolds /\ StorageHolds /\ NodeHolds
  BY <1>1 DEF UnlinkHolds, UpgradeHolds, StorageHolds, NodeHolds
<1>7. SnapshotHolds
  BY <1>1, <1>5 DEF SnapshotHolds
<1>8. QED BY <1>3, <1>4, <1>5, <1>6, <1>7 DEF ChecksInv

\* A call begins, or goes on, with the rows as they are.
LEMMA CheckGoesOn ==
  ASSUME ChecksInv, NEW k \in CheckSlots, NEW c \in CheckRow, CheckOK(rows, c),
         check[k].at # "retention", check' = [check EXCEPT ![k] = c],
         rows' = rows, overtaken' = overtaken
  PROVE  ChecksInv'
<1>1. check' \in [CheckSlots -> CheckRow] /\ ChecksTypeOK'
  BY ChecksTypes, TypesOfChecks
<1>2. check'[k] = c /\ \A j \in CheckSlots \ {k} : check'[j] = check[j]
  BY ChecksTypes
<1>3. \A j \in CheckSlots : CheckOK(rows', check'[j])
  BY <1>2, ChecksTypes
<1>4. UnlinkHolds' /\ UpgradeHolds' /\ StorageHolds' /\ NodeHolds' /\ IsFiniteSet(rows'.shots)
  BY DEF ChecksInv, UnlinkHolds, UpgradeHolds, StorageHolds, NodeHolds
<1>5. SnapshotHolds'
  BY <1>2 DEF ChecksInv, SnapshotHolds
<1>6. QED BY <1>1, <1>3, <1>4, <1>5 DEF ChecksInv

LEMMA CheckBegins ==
  ASSUME ChecksInv, NEW k \in CheckSlots,
         \/ CheckUnlink(k) \/ CheckUpgrade(k) \/ CheckStorage(k) \/ CheckNode(k)
         \/ CheckSnapshot(k) \/ CheckDelete(k) \/ CheckRestore(k)
  PROVE  ChecksInv'
<1>1. /\ rows \in RowsRow /\ Limits \subseteq Nat
      /\ Logins \subseteq Logins \cup Nat /\ Shots \subseteq Nat
  BY ChecksTypes, LimitsAre, ChecksAssumption
<1>2. ASSUME NEW at \in Steps, NEW on \in Logins \cup Nat, NEW raced \in BOOLEAN,
             Starts(k, at, on, raced),
             CheckOK(rows, [at |-> at, on |-> on, raced |-> raced]),
             rows' = rows, overtaken' = overtaken
      PROVE  ChecksInv'
  <2> DEFINE c == [at |-> at, on |-> on, raced |-> raced]
  <2>1. c \in CheckRow
    BY DEF CheckRow
  <2>2. check[k].at # "retention" /\ check' = [check EXCEPT ![k] = c]
    BY <1>2 DEF Starts, NoCheck
  <2> HIDE DEF c
  <2>3. CheckOK(rows, c)
    BY <1>2 DEF c
  <2>4. QED BY <1>2, <2>1, <2>2, <2>3, CheckGoesOn
<1>3. CASE CheckUpgrade(k)
  <2>1. Starts(k, "upgrade", 0, FALSE) /\ rows.paid = 0 /\ rows' = rows /\ overtaken' = overtaken
    BY <1>3 DEF CheckUpgrade
  <2>2. CheckOK(rows, [at |-> "upgrade", on |-> 0, raced |-> FALSE])
    BY <2>1 DEF CheckOK, Undisturbed, Creating
  <2>3. "upgrade" \in Steps /\ 0 \in Logins \cup Nat
    BY DEF Steps
  <2>4. QED BY <1>2, <2>1, <2>2, <2>3
<1> USE DEF CheckOK, Undisturbed, Creating, Steps
<1>4. CASE CheckUnlink(k)
  <2>1. PICK p \in rows.logins : OthersLeft /\ Starts(k, "unlink", p, FALSE)
    BY <1>4 DEF CheckUnlink
  <2>2. \E q \in rows.logins : q # p
    BY <2>1, NotTheLast DEF OthersLeft, NotLast
  <2>3. p \in Logins
    BY <1>1, <2>1 DEF RowsRow
  <2>4. QED BY <1>2, <1>4, <2>1, <2>2, <2>3 DEF CheckUnlink
<1>5. CASE CheckStorage(k)
  <2>1. PICK limit \in Limits, known \in BOOLEAN :
          /\ (limit < rows.storage /\ known) => rows.used <= limit
          /\ Starts(k, "storage", limit, limit < rows.storage /\ ~known)
    BY <1>5 DEF CheckStorage
  <2> DEFINE raced == limit < rows.storage /\ ~known
  <2>2. raced \in BOOLEAN /\ limit \in Nat /\ rows.storage \in Nat
    BY <1>1 DEF RowsRow
  <2>3. ~raced => rows.used <= limit \/ rows.storage <= limit
    BY <2>1, <2>2
  <2>4. Starts(k, "storage", limit, raced)
    BY <2>1
  <2> HIDE DEF raced
  <2>5. CheckOK(rows, [at |-> "storage", on |-> limit, raced |-> raced])
    BY <2>3
  <2>6. QED BY <1>2, <1>5, <2>2, <2>4, <2>5 DEF CheckStorage
<1>6. CASE CheckNode(k)
  BY <1>2, <1>6 DEF CheckNode
<1>7. CASE CheckSnapshot(k)
  <2>1. rows.keeps \in Limits
    BY <1>1 DEF RowsRow
  <2>2. QED BY <1>1, <1>2, <1>7, <2>1 DEF CheckSnapshot
<1>8. CASE CheckDelete(k)
  <2>1. PICK s \in rows.shots : Starts(k, "delete", s, FALSE)
    BY <1>8 DEF CheckDelete
  <2>2. s \in Shots
    BY <1>1 DEF RowsRow
  <2>3. QED BY <1>1, <1>2, <1>8, <2>1, <2>2 DEF CheckDelete
<1>9. CASE CheckRestore(k)
  <2>1. PICK s \in rows.shots : Starts(k, "restore", s, FALSE)
    BY <1>9 DEF CheckRestore
  <2>2. s \in Shots
    BY <1>1 DEF RowsRow
  <2>3. QED BY <1>1, <1>2, <1>9, <2>1, <2>2 DEF CheckRestore
<1>10. QED BY <1>3, <1>4, <1>5, <1>6, <1>7, <1>8, <1>9

\* The rows change, and some calls are over; what others have checked is not
\* changed, or they are raced.
LEMMA RacedKeep ==
  ASSUME ChecksInv, NEW over \in SUBSET CheckSlots, NEW at,
         check' = [j \in CheckSlots |->
           IF j \in over THEN NoCheck
           ELSE [check[j] EXCEPT !.raced = @ \/ check[j].at \in at]],
         \A c \in CheckRow :
           CheckOK(rows, c) /\ ~c.raced /\ c.at \notin at => Undisturbed(rows', c)
  PROVE  /\ check' \in [CheckSlots -> CheckRow]
         /\ \A j \in CheckSlots : CheckOK(rows', check'[j])
         /\ \A j \in CheckSlots \ over : check'[j].at = check[j].at
<1> DEFINE c(j) == [check[j] EXCEPT !.raced = @ \/ check[j].at \in at]
<1>1. ASSUME NEW j \in CheckSlots
      PROVE  c(j) \in CheckRow /\ c(j).at = check[j].at /\ CheckOK(rows', c(j))
  <2> DEFINE was == check[j]
             raced == was.raced \/ was.at \in at
  <2>1. was \in CheckRow /\ CheckOK(rows, was)
    BY ChecksTypes
  <2>2. c(j) = [was EXCEPT !.raced = raced]
    BY <2>1 DEF CheckRow
  <2>3. raced \in BOOLEAN /\ (~raced => ~was.raced /\ was.at \notin at)
    BY <2>1 DEF CheckRow
  <2>4. ~raced => Undisturbed(rows', was)
    BY <2>1, <2>3
  <2> HIDE DEF was, c, raced
  <2>5. c(j) \in CheckRow /\ c(j).at = was.at /\ c(j).on = was.on /\ c(j).raced = raced
    BY <2>1, <2>2, <2>3 DEF CheckRow
  <2>6. CheckOK(rows', c(j))
    BY <2>1, <2>4, <2>5 DEF CheckOK, Undisturbed
  <2>7. QED BY <2>5, <2>6 DEF was
<1>2. check' = [j \in CheckSlots |-> IF j \in over THEN NoCheck ELSE c(j)]
  OBVIOUS
<1> HIDE DEF c
<1>3. QED BY <1>1, <1>2, NoCheckType

LEMMA ChecksEnd ==
  ASSUME ChecksInv, NEW k \in CheckSlots, NEW at, Ends(k, at),
         \A c \in CheckRow :
           CheckOK(rows, c) /\ ~c.raced /\ c.at \notin at => Undisturbed(rows', c)
  PROVE  /\ check' \in [CheckSlots -> CheckRow]
         /\ \A j \in CheckSlots : CheckOK(rows', check'[j])
         /\ check'[k] = NoCheck /\ \A j \in CheckSlots \ {k} : check'[j].at = check[j].at
<1> DEFINE over == {k}
<1>1. /\ over \in SUBSET CheckSlots
      /\ check' = [j \in CheckSlots |->
           IF j \in over THEN NoCheck
           ELSE [check[j] EXCEPT !.raced = @ \/ check[j].at \in at]]
  BY DEF Ends
<1> HIDE DEF over
<1>2. /\ check' \in [CheckSlots -> CheckRow]
      /\ \A j \in CheckSlots : CheckOK(rows', check'[j])
      /\ \A j \in CheckSlots \ over : check'[j].at = check[j].at
  BY <1>1, RacedKeep
<1>3. QED BY <1>1, <1>2 DEF over

LEMMA ChecksDisturbed ==
  ASSUME ChecksInv, NEW at, Disturbs(at),
         \A c \in CheckRow :
           CheckOK(rows, c) /\ ~c.raced /\ c.at \notin at => Undisturbed(rows', c)
  PROVE  /\ check' \in [CheckSlots -> CheckRow]
         /\ \A j \in CheckSlots : CheckOK(rows', check'[j]) /\ check'[j].at = check[j].at
<1> DEFINE over == {}
<1>1. /\ over \in SUBSET CheckSlots
      /\ check' = [j \in CheckSlots |->
           IF j \in over THEN NoCheck
           ELSE [check[j] EXCEPT !.raced = @ \/ check[j].at \in at]]
  BY DEF Disturbs
<1> HIDE DEF over
<1>2. /\ check' \in [CheckSlots -> CheckRow]
      /\ \A j \in CheckSlots : CheckOK(rows', check'[j])
      /\ \A j \in CheckSlots \ over : check'[j].at = check[j].at
  BY <1>1, RacedKeep
<1>3. QED BY <1>2 DEF over

\* What the tables of the step hold is left to show, but for snapshots that
\* nobody has added to.
LEMMA TablesMove ==
  ASSUME ChecksInv, rows' \in RowsRow, overtaken' \subseteq Checked,
         check' \in [CheckSlots -> CheckRow],
         \A j \in CheckSlots : CheckOK(rows', check'[j]),
         \A j \in CheckSlots : check[j].at = "retention" => check'[j].at = "retention",
         rows'.shots \subseteq rows.shots, rows'.keeps = rows.keeps,
         "snapshot" \in overtaken => "snapshot" \in overtaken',
         UnlinkHolds', UpgradeHolds', StorageHolds', NodeHolds'
  PROVE  ChecksInv'
<1>1. IsFiniteSet(rows.shots) /\ rows.keeps \in Nat /\ SnapshotHolds
  BY ChecksTypes, LimitsAre DEF ChecksInv, RowsRow
<1>2. /\ IsFiniteSet(rows'.shots) /\ Cardinality(rows'.shots) <= Cardinality(rows.shots)
      /\ Cardinality(rows'.shots) \in Nat /\ Cardinality(rows.shots) \in Nat
  BY <1>1, FS_Subset, FS_CardinalityType
<1>3. Cardinality(rows'.shots) > rows'.keeps => Cardinality(rows.shots) > rows.keeps
  BY <1>1, <1>2
<1>4. SnapshotHolds'
  BY <1>1, <1>3 DEF SnapshotHolds
<1>5. QED BY <1>2, <1>4, TypesOfChecks DEF ChecksInv

LEMMA UnlinkKeeps ==
  ASSUME ChecksInv, NEW k \in CheckSlots, Unlink(k)
  PROVE  ChecksInv'
<1>1. rows \in RowsRow /\ check[k] \in CheckRow /\ CheckOK(rows, check[k])
  BY ChecksTypes
<1>2. /\ rows' = [rows EXCEPT !.logins = rows.logins \ {check[k].on}]
      /\ rows' \in RowsRow /\ rows'.logins = rows.logins \ {check[k].on}
  BY <1>1 DEF Unlink, RowsRow
<1>3. /\ rows'.paid = rows.paid /\ rows'.used = rows.used /\ rows'.storage = rows.storage
      /\ rows'.placed = rows.placed /\ rows'.keeps = rows.keeps /\ rows'.shots = rows.shots
      /\ rows'.offered = rows.offered /\ rows'.squeezed = rows.squeezed
      /\ rows'.node = rows.node
  BY <1>1, <1>2 DEF RowsRow
<1>4. \A c \in CheckRow :
        CheckOK(rows, c) /\ ~c.raced /\ c.at \notin {"unlink"} => Undisturbed(rows', c)
  BY <1>3 DEF CheckOK, Undisturbed
<1>5. /\ check' \in [CheckSlots -> CheckRow]
      /\ \A j \in CheckSlots : CheckOK(rows', check'[j])
      /\ \A j \in CheckSlots \ {k} : check'[j].at = check[j].at
  BY <1>4, ChecksEnd DEF Unlink
<1>6. /\ overtaken' \subseteq Checked /\ overtaken \subseteq overtaken'
      /\ check[k].raced => "unlink" \in overtaken'
  BY ChecksTypes DEF Unlink, Overtakes, Checked
<1>7. UnlinkHolds'
  BY <1>1, <1>2, <1>6 DEF CheckOK, Undisturbed, UnlinkHolds, Unlink
<1>8. UpgradeHolds' /\ StorageHolds' /\ NodeHolds'
  BY <1>3, <1>6 DEF ChecksInv, UpgradeHolds, StorageHolds, NodeHolds
<1>9. QED BY <1>2, <1>3, <1>5, <1>6, <1>7, <1>8, TablesMove DEF Unlink

LEMMA OfferKeeps ==
  ASSUME ChecksInv, NEW k \in CheckSlots, OfferUpgrade(k)
  PROVE  ChecksInv'
<1>1. rows \in RowsRow /\ check[k] \in CheckRow /\ CheckOK(rows, check[k])
  BY ChecksTypes
<1>2. /\ rows' \in RowsRow
      /\ rows'.paid = rows.paid /\ rows'.used = rows.used /\ rows'.storage = rows.storage
      /\ rows'.placed = rows.placed /\ rows'.keeps = rows.keeps /\ rows'.shots = rows.shots
      /\ rows'.squeezed = rows.squeezed /\ rows'.node = rows.node
      /\ rows'.logins = rows.logins
  BY <1>1 DEF OfferUpgrade, RowsRow
<1>3. \A c \in CheckRow :
        CheckOK(rows, c) /\ ~c.raced /\ c.at \notin {} => Undisturbed(rows', c)
  BY <1>2 DEF CheckOK, Undisturbed
<1>4. /\ check' \in [CheckSlots -> CheckRow]
      /\ \A j \in CheckSlots : CheckOK(rows', check'[j])
      /\ \A j \in CheckSlots \ {k} : check'[j].at = check[j].at
  BY <1>3, ChecksEnd DEF OfferUpgrade
<1>5. overtaken' \subseteq Checked /\ overtaken \subseteq overtaken'
  BY ChecksTypes DEF OfferUpgrade, Overtakes, Checked
<1>6. UpgradeHolds'
  <2>1. rows.offered \in Nat /\ rows.paid \in Nat
    BY <1>1 DEF RowsRow
  <2>2. CASE rows' = rows
    BY <1>5, <2>2 DEF ChecksInv, UpgradeHolds
  <2>3. CASE /\ rows' = [rows EXCEPT !.offered = @ + 1]
             /\ Overtakes("upgrade", check[k].raced \/ rows.offered > 0)
    <3>1. rows'.offered = rows.offered + 1
      BY <1>1, <2>3 DEF RowsRow
    <3>2. "upgrade" \notin overtaken' => ~check[k].raced /\ rows.offered = 0
      BY <2>1, <2>3 DEF Overtakes
    <3>3. ~check[k].raced => rows.paid = 0
      BY <1>1 DEF OfferUpgrade, CheckOK, Undisturbed
    <3>4. QED BY <1>2, <2>1, <3>1, <3>2, <3>3 DEF UpgradeHolds
  <2>4. QED BY <2>2, <2>3 DEF OfferUpgrade
<1>7. UnlinkHolds' /\ StorageHolds' /\ NodeHolds'
  BY <1>2, <1>5 DEF ChecksInv, UnlinkHolds, StorageHolds, NodeHolds
<1>8. QED BY <1>2, <1>4, <1>5, <1>6, <1>7, TablesMove DEF OfferUpgrade

LEMMA SetStorageKeeps ==
  ASSUME ChecksInv, NEW k \in CheckSlots, SetStorage(k)
  PROVE  ChecksInv'
<1> DEFINE limit == check[k].on
           shrinks == limit < rows.storage
<1>1. /\ rows \in RowsRow /\ check[k] \in CheckRow /\ CheckOK(rows, check[k])
      /\ check[k].at = "storage"
  BY ChecksTypes DEF SetStorage
<1>2. limit \in Limits /\ limit \in Nat /\ rows.storage \in Nat /\ rows.used \in Int
  <2>1. limit \in Limits /\ rows.storage \in Limits
    BY <1>1 DEF CheckOK, RowsRow
  <2>2. rows.used \in Int
    BY <1>1 DEF RowsRow
  <2>3. QED BY <2>1, <2>2, LimitsAre
<1>3. /\ rows' = [rows EXCEPT !.storage = limit,
                              !.squeezed = @ \/ (shrinks /\ rows.used > limit)]
      /\ Overtakes("storage", check[k].raced)
      /\ Ends(k, IF limit > rows.storage THEN {"storage"} ELSE {})
  BY DEF SetStorage
<1> HIDE DEF limit, shrinks
<1>4. /\ rows' \in RowsRow /\ rows'.storage = limit
      /\ rows'.paid = rows.paid /\ rows'.used = rows.used
      /\ rows'.placed = rows.placed /\ rows'.keeps = rows.keeps /\ rows'.shots = rows.shots
      /\ rows'.offered = rows.offered /\ rows'.node = rows.node
      /\ rows'.logins = rows.logins
      /\ rows'.squeezed = (rows.squeezed \/ (shrinks /\ rows.used > limit))
  BY <1>1, <1>2, <1>3 DEF RowsRow
<1> DEFINE at == IF limit > rows.storage THEN {"storage"} ELSE {}
<1>5. ASSUME NEW c \in CheckRow, CheckOK(rows, c), ~c.raced, c.at \notin at
      PROVE  Undisturbed(rows', c)
  <2>1. Undisturbed(rows, c)
    BY <1>5 DEF CheckOK
  <2>2. CASE c.at = "storage"
    <3>1. c.on \in Nat /\ limit <= rows.storage
      <4>1. c.on \in Limits
        BY <1>5, <2>2 DEF CheckOK
      <4>2. ~(limit > rows.storage)
        BY <1>5, <2>2
      <4>3. c.on \in Nat
        BY <4>1, LimitsAre
      <4>4. QED BY <1>2, <4>2, <4>3
    <3>2. rows'.used <= c.on \/ rows'.storage <= c.on
      BY <1>2, <1>4, <2>1, <2>2, <3>1 DEF Undisturbed
    <3>3. QED BY <1>4, <2>1, <2>2, <3>2 DEF Undisturbed, Creating
  <2>3. CASE c.at # "storage"
    BY <1>4, <2>1, <2>3 DEF Undisturbed
  <2>4. QED BY <2>2, <2>3
<1>6. /\ check' \in [CheckSlots -> CheckRow]
      /\ \A j \in CheckSlots : CheckOK(rows', check'[j])
      /\ \A j \in CheckSlots \ {k} : check'[j].at = check[j].at
  <2>1. Ends(k, at)
    BY <1>3
  <2> HIDE DEF at
  <2>2. QED BY <1>5, <2>1, ChecksEnd
<1>7. /\ overtaken' \subseteq Checked /\ overtaken \subseteq overtaken'
      /\ check[k].raced => "storage" \in overtaken'
  BY <1>3, ChecksTypes DEF Overtakes, Checked
<1>8. StorageHolds'
  <2>1. shrinks /\ rows.used > limit => check[k].raced
    BY <1>1, <1>2 DEF CheckOK, Undisturbed, limit, shrinks
  <2>2. QED BY <1>4, <1>7, <2>1 DEF ChecksInv, StorageHolds
<1>9. UnlinkHolds' /\ UpgradeHolds' /\ NodeHolds'
  BY <1>4, <1>7 DEF ChecksInv, UnlinkHolds, UpgradeHolds, NodeHolds
<1>10. QED BY <1>1, <1>4, <1>6, <1>7, <1>8, <1>9, TablesMove

LEMMA CloseKeeps ==
  ASSUME ChecksInv, NEW k \in CheckSlots, CloseNode(k)
  PROVE  ChecksInv'
<1>1. rows \in RowsRow /\ check[k] \in CheckRow /\ CheckOK(rows, check[k])
  BY ChecksTypes
<1> DEFINE c == [check[k] EXCEPT !.at = "node"]
<1>2. rows' = [rows EXCEPT !.connected = FALSE] /\ rows' \in RowsRow
  BY <1>1 DEF CloseNode, RowsRow
<1>3. /\ rows'.paid = rows.paid /\ rows'.used = rows.used /\ rows'.storage = rows.storage
      /\ rows'.placed = rows.placed /\ rows'.keeps = rows.keeps /\ rows'.shots = rows.shots
      /\ rows'.offered = rows.offered /\ rows'.squeezed = rows.squeezed
      /\ rows'.node = rows.node /\ rows'.logins = rows.logins
  BY <1>1, <1>2 DEF RowsRow
<1>4. c \in CheckRow /\ c.at = "node" /\ c.on = check[k].on /\ c.raced = check[k].raced
  BY <1>1 DEF CheckRow, Steps
<1>5. check' = [check EXCEPT ![k] = c]
  BY ChecksTypes DEF CloseNode
<1>6. CheckOK(rows, c)
  BY <1>1, <1>4 DEF CloseNode, CheckOK, Undisturbed, Creating
<1> HIDE DEF c
<1>7. /\ check' \in [CheckSlots -> CheckRow]
      /\ check'[k] = c /\ \A j \in CheckSlots \ {k} : check'[j] = check[j]
  BY <1>4, <1>5, ChecksTypes
<1>8. \A d : CheckOK(rows, d) => CheckOK(rows', d)
  BY <1>3 DEF CheckOK, Undisturbed
<1>9. \A j \in CheckSlots : CheckOK(rows', check'[j])
  BY <1>6, <1>7, <1>8, ChecksTypes
<1>10. overtaken' = overtaken
  BY DEF CloseNode
<1>11. UnlinkHolds' /\ UpgradeHolds' /\ StorageHolds' /\ NodeHolds'
  BY <1>3, <1>10 DEF ChecksInv, UnlinkHolds, UpgradeHolds, StorageHolds, NodeHolds
<1>12. QED
  BY <1>2, <1>3, <1>7, <1>9, <1>10, <1>11, TablesMove, ChecksTypes DEF CloseNode

LEMMA DeleteNodeKeeps ==
  ASSUME ChecksInv, NEW k \in CheckSlots, DeleteNode(k)
  PROVE  ChecksInv'
<1>1. rows \in RowsRow /\ check[k] \in CheckRow /\ CheckOK(rows, check[k])
  BY ChecksTypes
<1>2. /\ rows' \in RowsRow
      /\ rows'.paid = rows.paid /\ rows'.used = rows.used /\ rows'.storage = rows.storage
      /\ rows'.placed = rows.placed /\ rows'.keeps = rows.keeps /\ rows'.shots = rows.shots
      /\ rows'.offered = rows.offered /\ rows'.squeezed = rows.squeezed
      /\ rows'.logins = rows.logins
  BY <1>1 DEF DeleteNode, RowsRow
<1>3. \A c \in CheckRow :
        CheckOK(rows, c) /\ ~c.raced /\ c.at \notin {} => Undisturbed(rows', c)
  BY <1>2 DEF CheckOK, Undisturbed
<1>4. /\ check' \in [CheckSlots -> CheckRow]
      /\ \A j \in CheckSlots : CheckOK(rows', check'[j])
      /\ \A j \in CheckSlots \ {k} : check'[j].at = check[j].at
  BY <1>3, ChecksEnd DEF DeleteNode
<1>5. overtaken' \subseteq Checked /\ overtaken \subseteq overtaken'
  BY ChecksTypes DEF DeleteNode, Overtakes, Checked
<1>6. NodeHolds'
  <2>1. CASE rows' = rows
    BY <1>5, <2>1 DEF ChecksInv, NodeHolds
  <2>2. CASE Overtakes("node", check[k].raced)
    <3>1. ~check[k].raced => ~rows.placed
      BY <1>1 DEF DeleteNode, CheckOK, Undisturbed
    <3>2. check[k].raced => "node" \in overtaken'
      BY <2>2 DEF Overtakes
    <3>3. QED BY <1>2, <3>1, <3>2 DEF NodeHolds
  <2>3. QED BY <2>1, <2>2 DEF DeleteNode
<1>7. UnlinkHolds' /\ UpgradeHolds' /\ StorageHolds'
  BY <1>2, <1>5 DEF ChecksInv, UnlinkHolds, UpgradeHolds, StorageHolds
<1>8. QED BY <1>2, <1>4, <1>5, <1>6, <1>7, TablesMove DEF DeleteNode

LEMMA DeleteOrRestoreKeeps ==
  ASSUME ChecksInv, NEW k \in CheckSlots, DeleteSnapshot(k) \/ RestoreSnapshot(k)
  PROVE  ChecksInv'
<1>1. rows \in RowsRow /\ check[k] \in CheckRow /\ CheckOK(rows, check[k])
  BY ChecksTypes
<1>2. /\ rows' \in RowsRow
      /\ rows'.paid = rows.paid /\ rows'.used = rows.used /\ rows'.storage = rows.storage
      /\ rows'.placed = rows.placed /\ rows'.keeps = rows.keeps
      /\ rows'.offered = rows.offered /\ rows'.squeezed = rows.squeezed
      /\ rows'.logins = rows.logins /\ rows'.node = rows.node
      /\ rows'.shots \subseteq rows.shots
  <2>1. CASE rows' = rows
    BY <1>1, <2>1
  <2>2. CASE rows' = [rows EXCEPT !.shots = rows.shots \ {check[k].on}]
    BY <1>1, <2>2 DEF RowsRow
  <2>3. CASE rows' = [rows EXCEPT !.home = check[k].on] /\ check[k].on \in rows.shots
    BY <1>1, <2>3 DEF RowsRow
  <2>4. QED BY <2>1, <2>2, <2>3 DEF DeleteSnapshot, RestoreSnapshot
<1>3. \A c \in CheckRow :
        CheckOK(rows, c) /\ ~c.raced /\ c.at \notin {} => Undisturbed(rows', c)
  BY <1>2 DEF CheckOK, Undisturbed
<1>4. /\ check' \in [CheckSlots -> CheckRow]
      /\ \A j \in CheckSlots : CheckOK(rows', check'[j])
      /\ \A j \in CheckSlots \ {k} : check'[j].at = check[j].at
  BY <1>3, ChecksEnd DEF DeleteSnapshot, RestoreSnapshot
<1>5. overtaken' = overtaken
  BY DEF DeleteSnapshot, RestoreSnapshot
<1>6. UnlinkHolds' /\ UpgradeHolds' /\ StorageHolds' /\ NodeHolds'
  BY <1>2, <1>5 DEF ChecksInv, UnlinkHolds, UpgradeHolds, StorageHolds, NodeHolds
<1>7. QED
  BY <1>2, <1>4, <1>5, <1>6, TablesMove, ChecksTypes DEF DeleteSnapshot, RestoreSnapshot

LEMMA CreateSnapshotKeeps ==
  ASSUME ChecksInv, NEW k \in CheckSlots, CreateSnapshot(k)
  PROVE  ChecksInv'
<1>1. /\ rows \in RowsRow /\ check[k] \in CheckRow /\ CheckOK(rows, check[k])
      /\ check[k].at = "snapshot" /\ overtaken' = overtaken
  BY ChecksTypes DEF CreateSnapshot
<1>2. CASE rows' = rows /\ Ends(k, {})
  <2>1. \A c \in CheckRow :
          CheckOK(rows, c) /\ ~c.raced /\ c.at \notin {} => Undisturbed(rows', c)
    BY <1>2 DEF CheckOK
  <2>2. /\ check' \in [CheckSlots -> CheckRow]
        /\ \A j \in CheckSlots : CheckOK(rows', check'[j])
        /\ \A j \in CheckSlots \ {k} : check'[j].at = check[j].at
    BY <1>2, <2>1, ChecksEnd
  <2>3. UnlinkHolds' /\ UpgradeHolds' /\ StorageHolds' /\ NodeHolds'
    BY <1>1, <1>2 DEF ChecksInv, UnlinkHolds, UpgradeHolds, StorageHolds, NodeHolds
  <2>4. QED BY <1>1, <1>2, <2>2, <2>3, TablesMove, ChecksTypes
<1>3. CASE /\ rows.next \in Shots
           /\ rows' = [rows EXCEPT !.shots = @ \cup {rows.next}, !.next = @ + 1]
           /\ check' = [check EXCEPT ![k].at = "retention"]
  <2> DEFINE c == [check[k] EXCEPT !.at = "retention"]
  <2>1. /\ rows' \in RowsRow
        /\ rows'.paid = rows.paid /\ rows'.used = rows.used /\ rows'.storage = rows.storage
        /\ rows'.placed = rows.placed /\ rows'.keeps = rows.keeps
        /\ rows'.offered = rows.offered /\ rows'.squeezed = rows.squeezed
        /\ rows'.logins = rows.logins /\ rows'.node = rows.node
        /\ rows'.shots = rows.shots \cup {rows.next}
    <3> DEFINE shots == rows.shots \cup {rows.next}
               next == rows.next + 1
    <3>1. shots \in SUBSET Shots /\ next \in Nat
      BY <1>1, <1>3 DEF RowsRow
    <3>2. rows' = [rows EXCEPT !.shots = shots, !.next = next]
      BY <1>1, <1>3 DEF RowsRow
    <3> HIDE DEF shots, next
    <3>3. /\ rows' \in RowsRow
          /\ rows'.paid = rows.paid /\ rows'.used = rows.used /\ rows'.storage = rows.storage
          /\ rows'.placed = rows.placed /\ rows'.keeps = rows.keeps
          /\ rows'.offered = rows.offered /\ rows'.squeezed = rows.squeezed
          /\ rows'.logins = rows.logins /\ rows'.node = rows.node
          /\ rows'.shots = shots
      BY <1>1, <3>1, <3>2 DEF RowsRow
    <3>4. QED BY <3>3 DEF shots
  <2>2. c \in CheckRow /\ c.at = "retention" /\ c.on = check[k].on /\ c.raced = check[k].raced
    BY <1>1 DEF CheckRow, Steps
  <2>3. check' = [check EXCEPT ![k] = c]
    BY <1>3, ChecksTypes
  <2>4. CheckOK(rows, c)
    BY <1>1, <2>2 DEF CheckOK, Undisturbed, Creating
  <2> HIDE DEF c
  <2>5. /\ check' \in [CheckSlots -> CheckRow]
        /\ check'[k] = c /\ \A j \in CheckSlots \ {k} : check'[j] = check[j]
    BY <2>2, <2>3, ChecksTypes
  <2>6. \A d : CheckOK(rows, d) => CheckOK(rows', d)
    BY <2>1 DEF CheckOK, Undisturbed
  <2>7. \A j \in CheckSlots : CheckOK(rows', check'[j])
    BY <2>4, <2>5, <2>6, ChecksTypes
  <2>8. UnlinkHolds' /\ UpgradeHolds' /\ StorageHolds' /\ NodeHolds'
    BY <1>1, <2>1 DEF ChecksInv, UnlinkHolds, UpgradeHolds, StorageHolds, NodeHolds
  <2>9. SnapshotHolds'
    BY <2>2, <2>5 DEF SnapshotHolds
  <2>10. IsFiniteSet(rows'.shots)
    BY <2>1, FS_AddElement DEF ChecksInv
  <2>11. ChecksTypeOK'
    BY <1>1, <2>1, <2>5, TypesOfChecks, ChecksTypes
  <2>12. QED BY <2>7, <2>8, <2>9, <2>10, <2>11 DEF ChecksInv
<1>4. QED BY <1>2, <1>3 DEF CreateSnapshot

LEMMA RetainKeeps ==
  ASSUME ChecksInv, NEW k \in CheckSlots, Retain(k)
  PROVE  ChecksInv'
<1> DEFINE n == check[k].on
<1>1. /\ rows \in RowsRow /\ check[k] \in CheckRow /\ CheckOK(rows, check[k])
      /\ check[k].at = "retention" /\ IsFiniteSet(rows.shots)
  BY ChecksTypes DEF Retain, ChecksInv
<1>2. n \in Limits /\ n \in Nat \ {0} /\ (~check[k].raced => n = rows.keeps)
  BY <1>1, ChecksAssumption DEF CheckOK, Undisturbed, Creating
<1>3. rows.shots \subseteq Nat /\ Latest(n) \subseteq rows.shots
  BY <1>1, ChecksAssumption DEF RowsRow, Latest
<1>4. IsFiniteSet(Latest(n)) /\ Cardinality(Latest(n)) <= n /\ Cardinality(Latest(n)) \in Nat
  BY <1>1, <1>2, <1>3, LatestAreFew, FS_CardinalityType DEF Latest
<1>5. /\ rows' \in RowsRow
      /\ rows'.paid = rows.paid /\ rows'.used = rows.used /\ rows'.storage = rows.storage
      /\ rows'.placed = rows.placed /\ rows'.keeps = rows.keeps
      /\ rows'.offered = rows.offered /\ rows'.squeezed = rows.squeezed
      /\ rows'.logins = rows.logins /\ rows'.node = rows.node
      /\ IsFiniteSet(rows'.shots)
  <2>1. CASE rows' = rows
    BY <1>1, <2>1
  <2>2. CASE rows' = [rows EXCEPT !.shots = Latest(n)]
    BY <1>1, <1>3, <1>4, <2>2 DEF RowsRow
  <2>3. QED BY <2>1, <2>2 DEF Retain
<1>6. \A c \in CheckRow :
        CheckOK(rows, c) /\ ~c.raced /\ c.at \notin {} => Undisturbed(rows', c)
  BY <1>5 DEF CheckOK, Undisturbed
<1>7. /\ check' \in [CheckSlots -> CheckRow]
      /\ \A j \in CheckSlots : CheckOK(rows', check'[j])
  BY <1>6, ChecksEnd DEF Retain
<1>8. overtaken' \subseteq Checked /\ overtaken \ {"snapshot"} \subseteq overtaken'
  BY ChecksTypes DEF Retain, Overtakes, Checked
<1>9. UnlinkHolds' /\ UpgradeHolds' /\ StorageHolds' /\ NodeHolds'
  BY <1>5, <1>8 DEF ChecksInv, UnlinkHolds, UpgradeHolds, StorageHolds, NodeHolds
<1>10. SnapshotHolds'
  <2>1. CASE "snapshot" \in overtaken'
    BY <2>1 DEF SnapshotHolds
  <2>2. CASE "snapshot" \notin overtaken'
    <3>1. rows' = [rows EXCEPT !.shots = Latest(n)] /\ ~check[k].raced
      BY <2>2 DEF Retain, Overtakes
    <3>2. rows'.shots = Latest(n)
      BY <1>1, <3>1 DEF RowsRow
    <3>3. ~(Cardinality(rows'.shots) > rows'.keeps)
      BY <1>2, <1>4, <1>5, <3>1, <3>2
    <3>4. QED BY <3>3 DEF SnapshotHolds
  <2>3. QED BY <2>1, <2>2
<1>11. QED BY <1>5, <1>7, <1>8, <1>9, <1>10, TypesOfChecks DEF ChecksInv

LEMMA DisturbanceKeeps ==
  ASSUME ChecksInv, PayUpgrade \/ ExpireUpgrade \/ UseStorage \/ PlaceBot \/ ChangeTier
  PROVE  ChecksInv'
<1>1. rows \in RowsRow /\ rows.offered \in Nat /\ rows.paid \in Nat /\ rows.used \in Int
  BY ChecksTypes DEF RowsRow
<1>2. ASSUME NEW at, Disturbs(at), rows' \in RowsRow, overtaken' = overtaken,
             rows'.logins = rows.logins, rows'.storage = rows.storage,
             rows'.keeps = rows.keeps, rows'.shots = rows.shots,
             rows'.squeezed = rows.squeezed, rows'.node = rows.node,
             UpgradeHolds', NodeHolds',
             rows'.paid = rows.paid \/ "upgrade" \in at,
             rows'.used <= rows.used \/ "storage" \in at,
             rows'.placed = rows.placed \/ {"close", "node"} \subseteq at
      PROVE  ChecksInv'
  <2>1. ASSUME NEW c \in CheckRow, CheckOK(rows, c), ~c.raced, c.at \notin at
        PROVE  Undisturbed(rows', c)
    <3>1. Undisturbed(rows, c)
      BY <2>1 DEF CheckOK
    <3>2. c.at = "storage" => rows'.used <= c.on \/ rows'.storage <= c.on
      <4>1. SUFFICES ASSUME c.at = "storage", rows.used <= c.on
                     PROVE  rows'.used <= c.on
        BY <1>2, <3>1 DEF Undisturbed
      <4>2. c.on \in Limits
        BY <2>1, <4>1 DEF CheckOK
      <4>3. c.on \in Nat
        BY <4>2, LimitsAre
      <4>4. rows'.used \in Int
        BY <1>2 DEF RowsRow
      <4>5. rows'.used <= rows.used
        BY <1>2, <2>1, <4>1
      <4>6. QED BY <1>1, <4>1, <4>3, <4>4, <4>5
    <3>3. QED BY <1>2, <2>1, <3>1, <3>2 DEF Undisturbed
  <2>2. /\ check' \in [CheckSlots -> CheckRow]
        /\ \A j \in CheckSlots : CheckOK(rows', check'[j]) /\ check'[j].at = check[j].at
    BY <1>2, <2>1, ChecksDisturbed
  <2>3. UnlinkHolds' /\ StorageHolds'
    BY <1>2 DEF ChecksInv, UnlinkHolds, StorageHolds
  <2>4. QED BY <1>2, <2>2, <2>3, TablesMove, ChecksTypes
<1>3. CASE PayUpgrade
  <2>1. /\ rows' = [rows EXCEPT !.offered = @ - 1, !.paid = @ + 1] /\ rows.offered > 0
        /\ overtaken' = overtaken /\ Disturbs({"upgrade"})
    BY <1>3 DEF PayUpgrade
  <2>2. /\ rows' \in RowsRow
        /\ rows'.offered = rows.offered - 1 /\ rows'.paid = rows.paid + 1
        /\ rows'.logins = rows.logins /\ rows'.storage = rows.storage
        /\ rows'.keeps = rows.keeps /\ rows'.shots = rows.shots /\ rows'.used = rows.used
        /\ rows'.squeezed = rows.squeezed /\ rows'.node = rows.node
        /\ rows'.placed = rows.placed
    <3> DEFINE offered == rows.offered - 1
               paid == rows.paid + 1
    <3>1. offered \in Nat /\ paid \in Nat
      BY <1>1, <2>1
    <3>2. rows' = [rows EXCEPT !.offered = offered, !.paid = paid]
      BY <1>1, <2>1 DEF RowsRow
    <3> HIDE DEF offered, paid
    <3>3. rows' \in RowsRow /\ rows'.offered = offered /\ rows'.paid = paid
      BY <1>1, <3>1, <3>2 DEF RowsRow
    <3>4. /\ rows'.logins = rows.logins /\ rows'.storage = rows.storage
          /\ rows'.keeps = rows.keeps /\ rows'.shots = rows.shots /\ rows'.used = rows.used
          /\ rows'.squeezed = rows.squeezed /\ rows'.node = rows.node
          /\ rows'.placed = rows.placed
      BY <1>1, <3>2 DEF RowsRow
    <3>5. QED BY <3>3, <3>4 DEF offered, paid
  <2>3. UpgradeHolds' /\ NodeHolds'
    BY <1>1, <2>1, <2>2 DEF ChecksInv, UpgradeHolds, NodeHolds
  <2>4. QED BY <1>1, <1>2, <2>1, <2>2, <2>3
<1>4. CASE ExpireUpgrade
  <2>1. /\ rows' = [rows EXCEPT !.offered = @ - 1] /\ rows.offered > 0
        /\ overtaken' = overtaken /\ Disturbs({})
    BY <1>4 DEF ExpireUpgrade
  <2>2. /\ rows' \in RowsRow
        /\ rows'.offered = rows.offered - 1 /\ rows'.paid = rows.paid
        /\ rows'.logins = rows.logins /\ rows'.storage = rows.storage
        /\ rows'.keeps = rows.keeps /\ rows'.shots = rows.shots /\ rows'.used = rows.used
        /\ rows'.squeezed = rows.squeezed /\ rows'.node = rows.node
        /\ rows'.placed = rows.placed
    BY <1>1, <2>1 DEF RowsRow
  <2>3. UpgradeHolds' /\ NodeHolds'
    BY <1>1, <2>1, <2>2 DEF ChecksInv, UpgradeHolds, NodeHolds
  <2>4. QED BY <1>1, <1>2, <2>1, <2>2, <2>3
<1>5. CASE UseStorage
  <2>1. PICK used \in 0..Max(Limits) :
          /\ rows' = [rows EXCEPT !.used = used] /\ overtaken' = overtaken
          /\ Disturbs(IF used > rows.used THEN {"storage"} ELSE {})
    BY <1>5 DEF UseStorage
  <2>2. /\ rows' \in RowsRow /\ rows'.used = used
        /\ rows'.offered = rows.offered /\ rows'.paid = rows.paid
        /\ rows'.logins = rows.logins /\ rows'.storage = rows.storage
        /\ rows'.keeps = rows.keeps /\ rows'.shots = rows.shots
        /\ rows'.squeezed = rows.squeezed /\ rows'.node = rows.node
        /\ rows'.placed = rows.placed
    BY <1>1, <2>1 DEF RowsRow
  <2>3. UpgradeHolds' /\ NodeHolds'
    BY <2>1, <2>2 DEF ChecksInv, UpgradeHolds, NodeHolds
  <2> DEFINE at == IF used > rows.used THEN {"storage"} ELSE {}
  <2>4. rows'.used <= rows.used \/ "storage" \in at
    BY <1>1, <2>2
  <2>5. Disturbs(at)
    BY <2>1
  <2> HIDE DEF at
  <2>6. QED BY <1>2, <2>1, <2>2, <2>3, <2>4, <2>5
<1>6. CASE PlaceBot
  <2>1. /\ rows' = [rows EXCEPT !.placed = ~@] /\ rows.node
        /\ overtaken' = overtaken /\ Disturbs({"close", "node"})
    BY <1>6 DEF PlaceBot
  <2>2. /\ rows' \in RowsRow
        /\ rows'.offered = rows.offered /\ rows'.paid = rows.paid
        /\ rows'.logins = rows.logins /\ rows'.storage = rows.storage
        /\ rows'.keeps = rows.keeps /\ rows'.shots = rows.shots /\ rows'.used = rows.used
        /\ rows'.squeezed = rows.squeezed /\ rows'.node = rows.node
    BY <1>1, <2>1 DEF RowsRow
  <2>3. UpgradeHolds' /\ NodeHolds'
    BY <2>1, <2>2 DEF ChecksInv, UpgradeHolds, NodeHolds
  <2> DEFINE at == {"close", "node"}
  <2>4. Disturbs(at) /\ {"close", "node"} \subseteq at
    BY <2>1
  <2> HIDE DEF at
  <2>5. rows'.used <= rows.used /\ rows'.paid = rows.paid /\ overtaken' = overtaken
    BY <1>1, <2>1, <2>2
  <2>6. QED BY <1>2, <2>2, <2>3, <2>4, <2>5
<1>7. CASE ChangeTier
  <2>1. PICK n \in Limits :
          /\ rows' = [rows EXCEPT !.keeps = n] /\ Disturbs(Creating)
          /\ overtaken' = overtaken \cup {"snapshot"}
    BY <1>7 DEF ChangeTier
  <2>2. /\ rows' \in RowsRow
        /\ rows'.offered = rows.offered /\ rows'.paid = rows.paid
        /\ rows'.logins = rows.logins /\ rows'.storage = rows.storage
        /\ rows'.shots = rows.shots /\ rows'.used = rows.used
        /\ rows'.squeezed = rows.squeezed /\ rows'.node = rows.node
        /\ rows'.placed = rows.placed
    BY <1>1, <2>1 DEF RowsRow
  <2>3. \A c \in CheckRow :
          CheckOK(rows, c) /\ ~c.raced /\ c.at \notin Creating => Undisturbed(rows', c)
    BY <2>2 DEF CheckOK, Undisturbed
  <2>4. /\ check' \in [CheckSlots -> CheckRow]
        /\ \A j \in CheckSlots : CheckOK(rows', check'[j])
    BY <2>1, <2>3, ChecksDisturbed
  <2>5. UnlinkHolds' /\ UpgradeHolds' /\ StorageHolds' /\ NodeHolds'
    BY <2>1, <2>2 DEF ChecksInv, UnlinkHolds, UpgradeHolds, StorageHolds, NodeHolds
  <2>6. SnapshotHolds' /\ overtaken' \subseteq Checked
    BY <2>1, ChecksTypes DEF SnapshotHolds, Checked
  <2>7. IsFiniteSet(rows'.shots)
    BY <2>2 DEF ChecksInv
  <2>8. QED BY <2>2, <2>4, <2>5, <2>6, <2>7, TypesOfChecks DEF ChecksInv
<1>8. QED BY <1>3, <1>4, <1>5, <1>6, <1>7

LEMMA CutOffKeepsChecks ==
  ASSUME ChecksInv, ChecksCutOff
  PROVE  ChecksInv'
<1>1. rows' = rows /\ check' = [k \in CheckSlots |-> NoCheck]
  BY DEF ChecksCutOff
<1>2. check' \in [CheckSlots -> CheckRow] /\ \A k \in CheckSlots : CheckOK(rows', check'[k])
  BY <1>1, NoCheckType
<1>3. /\ overtaken' \subseteq Checked /\ overtaken \subseteq overtaken'
      /\ (\E k \in CheckSlots : check[k].at = "retention") => "snapshot" \in overtaken'
  BY ChecksTypes DEF ChecksCutOff, Checked
<1>4. UnlinkHolds' /\ UpgradeHolds' /\ StorageHolds' /\ NodeHolds'
  BY <1>1, <1>3 DEF ChecksInv, UnlinkHolds, UpgradeHolds, StorageHolds, NodeHolds
<1>5. SnapshotHolds'
  BY <1>1, <1>3 DEF ChecksInv, SnapshotHolds
<1>6. IsFiniteSet(rows'.shots) /\ ChecksTypeOK'
  BY <1>1, <1>2, <1>3, ChecksTypes, TypesOfChecks DEF ChecksInv
<1>7. QED BY <1>2, <1>4, <1>5, <1>6 DEF ChecksInv

\* The inductive invariant of the checks.
THEOREM ChecksAreSound == Spec => []ChecksInv
<1>1. Init => ChecksInv
  BY InitChecks DEF Init, DeskInit
<1>2. ChecksInv /\ [Next]_vars => ChecksInv'
  <2> SUFFICES ASSUME ChecksInv, CheckStep PROVE ChecksInv'
    BY DeskSteps
  <2>1. CASE ChecksRequests
    BY <2>1, CheckBegins, DisturbanceKeeps DEF ChecksRequests
  <2>2. CASE ChecksEvents
    BY <2>2, UnlinkKeeps, OfferKeeps, SetStorageKeeps, CloseKeeps, DeleteNodeKeeps,
       CreateSnapshotKeeps, RetainKeeps, DeleteOrRestoreKeeps DEF ChecksEvents
  <2>3. CASE UNCHANGED checkVars
    <3>1. rows' = rows /\ check' = check /\ overtaken' = overtaken
      BY <2>3 DEF checkVars
    <3>2. ChecksTypeOK' /\ IsFiniteSet(rows'.shots)
      BY <3>1 DEF ChecksInv, ChecksTypeOK
    <3>3. \A k \in CheckSlots : CheckOK(rows', check'[k])
      BY <3>1 DEF ChecksInv
    <3>4. QED
      BY <3>1, <3>2, <3>3
         DEF ChecksInv, UnlinkHolds, UpgradeHolds, StorageHolds, NodeHolds, SnapshotHolds
  <2>4. QED BY <2>1, <2>2, <2>3, CutOffKeepsChecks DEF CheckStep
<1>3. QED BY <1>1, <1>2, PTL DEF Spec

\* Nobody is locked out, pays twice, is squeezed, loses the node or keeps more
\* snapshots than the tier allows, but for what has come in between
\* (trpc/routers/org.ts, fleet.ts, nodes.ts, api/routes/snapshots.ts).
THEOREM ChecksStayTrue == Spec => []ChecksHold
<1>1. ChecksInv => ChecksHold
  <2> SUFFICES ASSUME ChecksInv PROVE ChecksHold
    OBVIOUS
  <2>1. rows.offered \in Nat /\ rows.paid \in Nat
    BY ChecksTypes DEF RowsRow
  <2>2. rows.paid > 1 => "upgrade" \in overtaken
    BY <2>1 DEF ChecksInv, UpgradeHolds
  <2>3. QED
    BY <2>2 DEF ChecksHold, ChecksInv, UnlinkHolds, StorageHolds, NodeHolds, SnapshotHolds,
       Creating
<1>2. QED BY <1>1, ChecksAreSound, PTL

(***************************************************************************)
(* The daily jobs.  While the process is up, every day before the period   *)
(* that the next run is for is accounted for; while it is not, every day   *)
(* before today.                                                           *)
(***************************************************************************)

\* What a step is for the daily jobs, and for the process they are part of.
JobStep ==
  \/ server = "up" /\ server' = "up" /\ \E j \in Jobs : RunJob(j)
  \/ Tick(server = "up") /\ server' = server
  \/ JobsCutOff /\ server' # "up"
  \/ JobsStart /\ server # "up" /\ server' = "up"
  \/ UNCHANGED <<jobVars, server>>

LEMMA JobSteps ==
  ASSUME [Next]_vars
  PROVE  JobStep
<1> USE DEF others, JobStep
<1>1. CASE Requests
  BY <1>1 DEF Requests, notChat, notNode, notSetup, notFleet, notPay, notMethod, notDesk
<1>2. CASE Events
  BY <1>2 DEF Events, notChat, notNode, notSetup, notFleet, notPay, notMethod, notDesk
<1>3. CASE \E i \in Setups : Sweep(i)
  BY <1>3 DEF Sweep, notSetup
<1>4. CASE \E j \in Jobs : Daily(j)
  BY <1>4 DEF Daily
<1>5. CASE PassTime
  BY <1>5 DEF PassTime
<1>6. CASE Shutdown \/ Restart
  BY <1>6 DEF Shutdown, Restart
<1>7. CASE \E s \in Senders : Backoff(s)
  BY <1>7 DEF Backoff, notPay
<1>8. CASE Crash \/ Close \/ ForceExit
  BY <1>8 DEF Crash, Close, ForceExit, Ended
<1>9. CASE UNCHANGED vars
  BY <1>9 DEF vars, parts
<1>10. QED BY <1>1, <1>2, <1>3, <1>4, <1>5, <1>6, <1>7, <1>8, <1>9 DEF Next

\* Day d is covered, or there is a reason that it is not.
Accounted(j, d) == d \in covered[j] \/ \E e \in uncertain[j] : d < e /\ e <= d + Period[j]

JobsInv ==
  /\ JobsTypeOK
  /\ \A j \in Jobs :
       IF server = "up"
       THEN now <= due[j] /\ \A d \in 0..(due[j] \div Day - Period[j] - 1) : Accounted(j, d)
       ELSE \A d \in 0..(Today - 1) : Accounted(j, d)

\* p days later.
LEMMA DaysLater ==
  ASSUME NEW w \in Nat \ {0}, NEW a \in Nat, NEW p \in Nat
  PROVE  a + p * w \in Nat /\ (a + p * w) \div w = (a \div w) + p
<1> DEFINE q == a \div w
           r == a % w
<1>1. q \in Nat /\ r \in 0..(w - 1) /\ a = w * q + r
  BY Division
<1> HIDE DEF q, r
<1>2. p * w \in Nat
  OBVIOUS
<1>3. w * (q + p) = w * q + w * p /\ w * p = p * w
  BY <1>1
<1>4. a + p * w = w * (q + p) + r /\ a + p * w \in Nat /\ q + p \in Int
  BY <1>1, <1>2, <1>3
<1>5. (a + p * w) \div w = q + p
  BY <1>1, <1>4, DivisionIsUnique
<1>6. QED BY <1>4, <1>5 DEF q

\* A tick later it is the same day, or the next.
LEMMA TickLater ==
  ASSUME NEW w \in Nat \ {0}, NEW a \in Nat
  PROVE  (a + 1) \div w \in {a \div w, (a \div w) + 1}
<1> DEFINE q == a \div w
           r == a % w
<1>1. q \in Nat /\ r \in 0..(w - 1) /\ a = w * q + r
  BY Division
<1> HIDE DEF q, r
<1>2. CASE r + 1 \in 0..(w - 1)
  <2>1. a + 1 = w * q + (r + 1) /\ a + 1 \in Nat
    BY <1>1
  <2>2. (a + 1) \div w = q
    BY <1>1, <1>2, <2>1, DivisionIsUnique
  <2>3. QED BY <2>2 DEF q
<1>3. CASE r + 1 = w
  <2>1. w * (q + 1) = w * q + w
    BY <1>1
  <2>2. a + 1 = w * (q + 1) + 0 /\ a + 1 \in Nat /\ 0 \in 0..(w - 1) /\ q + 1 \in Int
    BY <1>1, <1>3, <2>1
  <2>3. (a + 1) \div w = q + 1
    BY <2>2, DivisionIsUnique
  <2>4. QED BY <2>3 DEF q
<1>4. QED BY <1>1, <1>2, <1>3

LEMMA JobsKnown ==
  ASSUME JobsTypeOK
  PROVE  /\ Day \in Nat \ {0} /\ now \in Nat /\ Today \in Nat
         /\ \A j \in Jobs : Period[j] \in Nat \ {0} /\ due[j] \in Nat /\ due[j] \div Day \in Nat
         /\ covered \in [Jobs -> SUBSET Int] /\ uncertain \in [Jobs -> SUBSET Nat]
<1>1. Day \in Nat \ {0} /\ \A j \in Jobs : Period[j] \in Nat \ {0}
  BY JobsAssumption
<1>2. now \in Nat /\ \A j \in Jobs : due[j] \in Nat
  BY DEF JobsTypeOK
<1>3. QED BY <1>1, <1>2, Division DEF JobsTypeOK, Today

LEMMA InitJobs == JobsInit /\ server = "up" => JobsInv
<1> SUFFICES ASSUME JobsInit, server = "up" PROVE JobsInv
  OBVIOUS
<1>1. Day \in Nat \ {0} /\ \A j \in Jobs : Period[j] \in Nat \ {0}
  BY JobsAssumption
<1>2. \A j \in Jobs :
        /\ 0 + Period[j] * Day \in Nat
        /\ (0 + Period[j] * Day) \div Day = (0 \div Day) + Period[j]
  BY <1>1, DaysLater
<1>3. 0 \div Day = 0
  <2>1. 0 = Day * 0 + 0 /\ 0 \in 0..(Day - 1)
    BY <1>1
  <2>2. QED BY <1>1, <2>1, DivisionIsUnique
<1>4. \A j \in Jobs : 0 + Period[j] * Day = Period[j] * Day
  BY <1>1
<1>5. \A j \in Jobs :
        due[j] \in Nat /\ due[j] = Period[j] * Day /\ due[j] \div Day = Period[j]
  BY <1>1, <1>2, <1>3, <1>4 DEF JobsInit
<1>6. JobsTypeOK
  BY <1>5 DEF JobsInit, JobsTypeOK
<1>7. \A j \in Jobs : now <= due[j] /\ 0..(due[j] \div Day - Period[j] - 1) = {}
  BY <1>1, <1>5 DEF JobsInit
<1>8. QED BY <1>6, <1>7 DEF JobsInv

\* What is accounted for stays so.
LEMMA AccountedStays ==
  ASSUME NEW j \in Jobs, covered[j] \subseteq covered'[j], uncertain[j] \subseteq uncertain'[j]
  PROVE  \A d : Accounted(j, d) => Accounted(j, d)'
BY DEF Accounted

\* Today accounts for the days of one period before it.
LEMMA TodayAccounts ==
  ASSUME NEW j \in Jobs, NEW d \in Nat, NEW day \in Nat, d < day,
         Period[j] \in Nat, day <= d + Period[j], day \in uncertain'[j]
  PROVE  Accounted(j, d)'
BY DEF Accounted

LEMMA RunJobKeeps ==
  ASSUME JobsInv, NEW i \in Jobs, RunJob(i), server = "up", server' = "up"
  PROVE  JobsInv'
<1>1. /\ Day \in Nat \ {0} /\ now \in Nat /\ Today \in Nat
      /\ \A j \in Jobs : Period[j] \in Nat \ {0} /\ due[j] \in Nat /\ due[j] \div Day \in Nat
      /\ covered \in [Jobs -> SUBSET Int] /\ uncertain \in [Jobs -> SUBSET Nat]
  BY JobsKnown DEF JobsInv
<1>2. /\ due[i] = now /\ now' = now /\ due' = [due EXCEPT ![i] = now + Period[i] * Day]
  BY DEF RunJob
<1>3. /\ now + Period[i] * Day \in Nat
      /\ (now + Period[i] * Day) \div Day = Today + Period[i]
      /\ now <= now + Period[i] * Day
  <2>1. /\ now + Period[i] * Day \in Nat
        /\ (now + Period[i] * Day) \div Day = Today + Period[i]
    BY <1>1, DaysLater DEF Today
  <2>2. Period[i] * Day \in Nat
    BY <1>1
  <2>3. QED BY <1>1, <2>1, <2>2
<1>4. /\ due'[i] = now + Period[i] * Day
      /\ due'[i] \div Day = Today + Period[i] /\ due' \in [Jobs -> Nat]
      /\ \A j \in Jobs \ {i} : due'[j] = due[j]
  BY <1>2, <1>3 DEF JobsInv, JobsTypeOK
<1>5. /\ covered' \in [Jobs -> SUBSET Int] /\ uncertain' \in [Jobs -> SUBSET Nat]
      /\ \A j \in Jobs : covered[j] \subseteq covered'[j] /\ uncertain[j] \subseteq uncertain'[j]
  <2>1. CASE covered' = [covered EXCEPT ![i] = @ \cup Spanned(i)] /\ uncertain' = uncertain
    <3>1. Spanned(i) \subseteq Int
      BY <1>1 DEF Spanned, TargetDate
    <3>2. QED BY <1>1, <2>1, <3>1
  <2>2. CASE uncertain' = [uncertain EXCEPT ![i] = @ \cup {Today}] /\ covered' = covered
    BY <1>1, <2>2
  <2>3. QED BY <2>1, <2>2 DEF RunJob
<1>6. JobsTypeOK'
  BY <1>1, <1>2, <1>4, <1>5 DEF JobsTypeOK
<1>7. \A j \in Jobs : \A d : Accounted(j, d) => Accounted(j, d)'
  BY <1>5, AccountedStays
<1>8. ASSUME NEW d \in 0..(Today - 1)
      PROVE  Accounted(i, d)'
  <2>1. CASE d <= Today - Period[i] - 1
    <3>1. d \in 0..(due[i] \div Day - Period[i] - 1)
      BY <1>1, <1>2, <2>1 DEF Today
    <3>2. QED BY <1>7, <3>1 DEF JobsInv
  <2>2. CASE d > Today - Period[i] - 1
    <3>1. d \in Nat /\ d < Today /\ Today <= d + Period[i]
      BY <1>1, <2>2
    <3>2. CASE covered' = [covered EXCEPT ![i] = @ \cup Spanned(i)]
      <4>1. d \in Spanned(i)
        BY <1>1, <3>1 DEF Spanned, TargetDate
      <4>2. QED BY <1>1, <3>2, <4>1 DEF Accounted
    <3>3. CASE uncertain' = [uncertain EXCEPT ![i] = @ \cup {Today}]
      <4>1. Today \in uncertain'[i]
        BY <1>1, <3>3
      <4>2. QED BY <1>1, <3>1, <4>1, TodayAccounts
    <3>4. QED BY <3>2, <3>3 DEF RunJob
  <2>3. QED BY <1>1, <2>1, <2>2
<1>9. ASSUME NEW j \in Jobs
      PROVE  /\ now' <= due'[j]
             /\ \A d \in 0..(due'[j] \div Day - Period[j] - 1) : Accounted(j, d)'
  <2>1. CASE j = i
    <3>1. due'[j] \div Day - Period[j] - 1 = Today - 1
      BY <1>1, <1>4, <2>1
    <3>2. QED BY <1>2, <1>3, <1>4, <1>8, <2>1, <3>1
  <2>2. CASE j # i
    BY <1>2, <1>4, <1>7, <2>2 DEF JobsInv
  <2>3. QED BY <2>1, <2>2
<1>10. QED BY <1>6, <1>9 DEF JobsInv

LEMMA TickKeeps ==
  ASSUME JobsInv, Tick(server = "up"), server' = server
  PROVE  JobsInv'
<1>1. /\ Day \in Nat \ {0} /\ now \in Nat /\ Today \in Nat
      /\ \A j \in Jobs : Period[j] \in Nat \ {0} /\ due[j] \in Nat /\ due[j] \div Day \in Nat
      /\ covered \in [Jobs -> SUBSET Int] /\ uncertain \in [Jobs -> SUBSET Nat]
  BY JobsKnown DEF JobsInv
<1>2. now' = now + 1 /\ due' = due /\ covered' = covered /\ now + 1 \in Nat
  BY <1>1 DEF Tick
<1> DEFINE next == (now + 1) \div Day
<1>3. next \in Nat /\ next \in {Today, Today + 1}
  BY <1>1, <1>2, Division, TickLater DEF Today
<1>4. Today' = next
  BY <1>2 DEF Today
<1> HIDE DEF next
<1>5. CASE server = "up"
  <2>1. uncertain' = uncertain /\ \A j \in Jobs : due[j] # now
    BY <1>5 DEF Tick
  <2>2. \A j \in Jobs : now' <= due'[j]
    BY <1>1, <1>2, <1>5, <2>1 DEF JobsInv
  <2>3. \A j \in Jobs : \A d : Accounted(j, d) => Accounted(j, d)'
    BY <1>2, <2>1, AccountedStays
  <2>4. JobsTypeOK'
    BY <1>2, <2>1 DEF JobsInv, JobsTypeOK
  <2>5. QED BY <1>2, <1>5, <2>2, <2>3, <2>4 DEF JobsInv
<1>6. CASE server # "up"
  <2>1. uncertain' = [j \in Jobs |-> uncertain[j] \cup {Today, next}]
    BY <1>6 DEF Tick, Doubt, next
  <2>2. \A j \in Jobs :
          uncertain'[j] \subseteq Nat /\ uncertain[j] \subseteq uncertain'[j] /\ next \in uncertain'[j]
    BY <1>1, <1>3, <2>1
  <2>3. JobsTypeOK'
    BY <1>2, <2>1, <2>2 DEF JobsInv, JobsTypeOK
  <2>4. ASSUME NEW j \in Jobs, NEW d \in 0..(next - 1)
        PROVE  Accounted(j, d)'
    <3>1. CASE d \in 0..(Today - 1)
      <4>1. Accounted(j, d)
        BY <1>6, <3>1 DEF JobsInv
      <4>2. QED BY <1>2, <2>2, <4>1, AccountedStays
    <3>2. CASE d \notin 0..(Today - 1)
      <4>1. d \in Nat /\ d < next /\ next <= d + Period[j]
        BY <1>1, <1>3, <2>4, <3>2
      <4>2. QED BY <1>1, <1>3, <2>2, <4>1, TodayAccounts
    <3>3. QED BY <3>1, <3>2
  <2>5. QED BY <1>4, <1>6, <2>3, <2>4 DEF JobsInv
<1>7. QED BY <1>5, <1>6

\* The process ends, or is about to.
LEMMA JobsEndKeeps ==
  ASSUME JobsInv, JobsCutOff, server' # "up"
  PROVE  JobsInv'
<1>1. /\ Day \in Nat \ {0} /\ now \in Nat /\ Today \in Nat
      /\ \A j \in Jobs : Period[j] \in Nat \ {0} /\ due[j] \in Nat /\ due[j] \div Day \in Nat
      /\ covered \in [Jobs -> SUBSET Int] /\ uncertain \in [Jobs -> SUBSET Nat]
  BY JobsKnown DEF JobsInv
<1>2. /\ now' = now /\ due' = due /\ covered' = covered /\ Today' = Today
      /\ uncertain' = [j \in Jobs |-> uncertain[j] \cup {Today}]
  BY DEF JobsCutOff, Doubt, Today
<1>3. \A j \in Jobs :
        uncertain'[j] \subseteq Nat /\ uncertain[j] \subseteq uncertain'[j] /\ Today \in uncertain'[j]
  BY <1>1, <1>2
<1>4. JobsTypeOK'
  BY <1>2, <1>3 DEF JobsInv, JobsTypeOK
<1>5. ASSUME NEW j \in Jobs, NEW d \in 0..(Today - 1)
      PROVE  Accounted(j, d)'
  <2> DEFINE run == due[j] \div Day
  <2>1. Accounted(j, d) => Accounted(j, d)'
    BY <1>2, <1>3, AccountedStays
  <2>2. CASE server # "up"
    BY <2>1, <2>2 DEF JobsInv
  <2>3. CASE server = "up"
    <3>1. run \in Nat /\ Today <= run
      BY <1>1, <2>3, DivisionGrows DEF JobsInv, Today
    <3>2. d \in 0..(run - Period[j] - 1) => Accounted(j, d)
      BY <2>3 DEF JobsInv
    <3> HIDE DEF run
    <3>3. CASE d \in 0..(run - Period[j] - 1)
      BY <2>1, <3>2, <3>3
    <3>4. CASE d \notin 0..(run - Period[j] - 1)
      <4>1. d \in Nat /\ d < Today /\ Today <= d + Period[j]
        BY <1>1, <3>1, <3>4
      <4>2. QED BY <1>1, <1>3, <4>1, TodayAccounts
    <3>5. QED BY <3>3, <3>4
  <2>4. QED BY <2>2, <2>3
<1>6. QED BY <1>2, <1>4, <1>5 DEF JobsInv

LEMMA JobsStartKeeps ==
  ASSUME JobsInv, JobsStart, server # "up", server' = "up"
  PROVE  JobsInv'
<1>1. /\ Day \in Nat \ {0} /\ now \in Nat /\ Today \in Nat
      /\ \A j \in Jobs : Period[j] \in Nat \ {0} /\ due[j] \in Nat /\ due[j] \div Day \in Nat
      /\ covered \in [Jobs -> SUBSET Int] /\ uncertain \in [Jobs -> SUBSET Nat]
  BY JobsKnown DEF JobsInv
<1>2. /\ now' = now /\ covered' = covered
      /\ due' = [j \in Jobs |-> now + Period[j] * Day]
      /\ uncertain' = [j \in Jobs |-> uncertain[j] \cup {Today}]
  BY DEF JobsStart, Doubt
<1>3. \A j \in Jobs :
        /\ due'[j] \in Nat /\ now <= due'[j]
        /\ due'[j] \div Day = Today + Period[j]
  <2> SUFFICES ASSUME NEW j \in Jobs
               PROVE  /\ due'[j] \in Nat /\ now <= due'[j]
                      /\ due'[j] \div Day = Today + Period[j]
    OBVIOUS
  <2>1. due'[j] = now + Period[j] * Day /\ Period[j] * Day \in Nat
    BY <1>1, <1>2
  <2>2. (now + Period[j] * Day) \div Day = Today + Period[j]
    BY <1>1, DaysLater DEF Today
  <2>3. QED BY <1>1, <2>1, <2>2
<1>4. \A j \in Jobs : uncertain'[j] \subseteq Nat /\ uncertain[j] \subseteq uncertain'[j]
  BY <1>1, <1>2
<1>5. JobsTypeOK'
  BY <1>1, <1>2, <1>3, <1>4 DEF JobsTypeOK
<1>6. ASSUME NEW j \in Jobs, NEW d \in 0..(due'[j] \div Day - Period[j] - 1)
      PROVE  Accounted(j, d)'
  <2>1. d \in 0..(Today - 1)
    BY <1>1, <1>3
  <2>2. Accounted(j, d)
    BY <2>1 DEF JobsInv
  <2>3. QED BY <1>2, <1>4, <2>2, AccountedStays
<1>7. QED BY <1>2, <1>3, <1>5, <1>6 DEF JobsInv

\* The inductive invariant of the daily jobs.
THEOREM JobsAreSound == Spec => []JobsInv
<1>1. Init => JobsInv
  BY InitJobs DEF Init
<1>2. JobsInv /\ [Next]_vars => JobsInv'
  <2> SUFFICES ASSUME JobsInv, JobStep PROVE JobsInv'
    BY JobSteps
  <2>1. CASE UNCHANGED <<jobVars, server>>
    BY <2>1 DEF jobVars, JobsInv, JobsTypeOK, Accounted, Today
  <2>2. QED BY <2>1, RunJobKeeps, TickKeeps, JobsEndKeeps, JobsStartKeeps DEF JobStep
<1>3. QED BY <1>1, <1>2, PTL DEF Spec

\* Every day is covered within the next period of a job, unless in that period
\* the process was started, ended or not there, or the job failed (index.ts).
THEOREM DaysAreCovered == Spec => []DayIsCovered
<1>1. JobsInv => DayIsCovered
  <2> SUFFICES ASSUME JobsInv, NEW j \in Jobs, NEW d \in 0..(Today - Period[j] - 1)
               PROVE  Accounted(j, d)
    BY DEF DayIsCovered, Accounted
  <2>1. /\ Day \in Nat \ {0} /\ now \in Nat /\ Today \in Nat
        /\ Period[j] \in Nat \ {0} /\ due[j] \in Nat /\ due[j] \div Day \in Nat
    BY JobsKnown DEF JobsInv
  <2>2. CASE server = "up"
    <3>1. Today <= due[j] \div Day
      BY <2>1, <2>2, DivisionGrows DEF JobsInv, Today
    <3>2. d \in 0..(due[j] \div Day - Period[j] - 1)
      BY <2>1, <3>1
    <3>3. QED BY <2>2, <3>2 DEF JobsInv
  <2>3. CASE server # "up"
    <3>1. d \in 0..(Today - 1)
      BY <2>1
    <3>2. QED BY <2>3, <3>1 DEF JobsInv
  <2>4. QED BY <2>2, <2>3
<1>2. QED BY <1>1, JobsAreSound, PTL

(***************************************************************************)
(* Types.  The load is counted by every step that begins something.        *)
(***************************************************************************)

LoadInv == LoadTypeOK /\ server \in {"up", "closing", "down"}

LEMMA BeginKeeps ==
  ASSUME LoadTypeOK
  PROVE  /\ \A kind : Begin(kind) => LoadTypeOK'
         /\ budget' = budget => LoadTypeOK'
<1>1. ASSUME NEW kind, Begin(kind) PROVE LoadTypeOK'
  <2>1. CASE kind \in Kinds
    <3>1. budget[kind] \in Nat /\ budget[kind] > 0
      BY <1>1, <2>1 DEF Begin, LoadTypeOK
    <3> DEFINE left == budget[kind] - 1
    <3>2. left \in Nat /\ budget' = [budget EXCEPT ![kind] = left]
      BY <1>1, <3>1 DEF Begin
    <3> HIDE DEF left
    <3>3. QED BY <3>2 DEF LoadTypeOK
  <2>2. CASE kind \notin Kinds
    BY <1>1, <2>2 DEF Begin, LoadTypeOK
  <2>3. QED BY <2>1, <2>2
<1>2. QED BY <1>1 DEF LoadTypeOK

LEMMA DeskRequestsBegin ==
  ASSUME LoadTypeOK, DeskRequests
  PROVE  LoadTypeOK'
<1>1. CASE AdminRequests
  BY <1>1, BeginKeeps DEF AdminRequests, Ask
<1>2. CASE DaemonRequests
  BY <1>2, BeginKeeps
     DEF DaemonRequests, InstallPlugin, PutConfig, SaveConfig, Enter, EnablePlugin,
         DisablePlugin, SendFriendRequest, AcceptFriendRequest, RejectFriendRequest,
         Befriend, SetCapabilities, SetAutoAccept, SaveDependent, DeleteConfig
<1>3. CASE ChecksRequests
  BY <1>3, BeginKeeps
     DEF ChecksRequests, CheckUnlink, CheckUpgrade, CheckStorage, CheckNode, CheckSnapshot,
         CheckDelete, CheckRestore, Starts, PayUpgrade, ExpireUpgrade, UseStorage, PlaceBot,
         ChangeTier, Disturbs
<1>4. CASE LogRequests
  BY <1>4, BeginKeeps DEF LogRequests, OpenLog
<1>5. CASE SignUpRequests
  BY <1>5, BeginKeeps DEF SignUpRequests, CreateUser, Verify
<1>6. QED BY <1>1, <1>2, <1>3, <1>4, <1>5 DEF DeskRequests

LEMMA RequestsBegin ==
  ASSUME LoadTypeOK, Requests
  PROVE  LoadTypeOK'
<1>1. CASE OpenStream \/ Post
  BY <1>1, BeginKeeps DEF OpenStream, Post
<1>2. CASE Upgrade
  BY <1>2, BeginKeeps DEF Upgrade
<1>3. CASE SetupRequests
  BY <1>3, BeginKeeps
     DEF SetupRequests, BeginSetup, Rollback, Complete, RecordError, BeginSave
<1>4. CASE FleetRequests
  BY <1>4, BeginKeeps DEF FleetRequests, CreateBot, BeginRemove, BeginTier
<1>5. CASE BeginCheckout \/ \E p \in PaymentIds : Report(p)
  BY <1>5, BeginKeeps DEF BeginCheckout, Report
<1>6. CASE MethodRequests
  BY <1>6, BeginKeeps DEF MethodRequests, DetachByRoute, BeginRemoval, BeginTopUp
<1>7. QED
  BY <1>1, <1>2, <1>3, <1>4, <1>5, <1>6, DeskRequestsBegin DEF Requests

LEMMA EventsBegin ==
  ASSUME LoadTypeOK, Events
  PROVE  LoadTypeOK'
<1>1. CASE ChatEvents \/ NodeEvents \/ SetupEvents \/ FleetEvents
  BY <1>1, BeginKeeps DEF ChatEvents, NodeEvents, SetupEvents, FleetEvents
<1>2. CASE PayEvents
  BY <1>2, BeginKeeps
     DEF PayEvents, Webhook, Refuse, AdmitStripe, AdmitCrypto, HandleStripe, HandleCrypto,
         Clear, Fail
<1>3. CASE MethodEvents
  BY <1>3, BeginKeeps DEF MethodEvents, AddCard, Debt
<1>4. CASE DeskEvents
  BY <1>4, BeginKeeps
     DEF DeskEvents, AdminEvents, DaemonEvents, ChecksEvents, LogEvents, SignUpEvents
<1>5. QED BY <1>1, <1>2, <1>3, <1>4 DEF Events

LEMMA LoadsAreSound == Spec => []LoadInv
<1>1. Init => LoadInv
  BY LoadAssumption DEF Init, LoadInit, LoadInv, LoadTypeOK
<1>2. LoadInv /\ [Next]_vars => LoadInv'
  <2> SUFFICES ASSUME LoadInv, [Next]_vars PROVE LoadInv'
    OBVIOUS
  <2> USE DEF LoadInv
  <2>1. CASE Requests
    BY <2>1, RequestsBegin DEF Requests, others
  <2>2. CASE Events
    BY <2>2, EventsBegin DEF Events, others
  <2>3. CASE (\E i \in Setups : Sweep(i)) \/ (\E j \in Jobs : Daily(j))
    BY <2>3, BeginKeeps DEF Sweep, Daily, others
  <2>4. CASE PassTime
    BY <2>4, BeginKeeps DEF PassTime, Tick, others
  <2>5. CASE \E s \in Senders : Backoff(s)
    BY <2>5, BeginKeeps DEF Backoff, Unblock, others
  <2>6. CASE Crash \/ Shutdown
    BY <2>6, BeginKeeps DEF Crash, Ended, Shutdown
  <2>7. CASE Close \/ ForceExit \/ Restart
    BY <2>7, BeginKeeps DEF Close, ForceExit, Ended, Restart
  <2>8. CASE UNCHANGED vars
    BY <2>8, BeginKeeps DEF vars, parts
  <2>9. QED BY <2>1, <2>2, <2>3, <2>4, <2>5, <2>6, <2>7, <2>8 DEF Next
<1>3. QED BY <1>1, <1>2, PTL DEF Spec

\* The types of all variables, of every part.
THEOREM TypesAreKept == Spec => []TypeOK
<1>1. /\ LoadInv /\ ChatInv /\ NodeInv /\ SetupInv /\ FleetInv /\ PayInv /\ MethodInv
      /\ AdminInv /\ DaemonInv /\ ChecksInv /\ LogInv /\ SignUpInv /\ JobsInv
      => TypeOK
  BY DEF TypeOK, DeskTypeOK, LoadInv, ChatInv, NodeInv, SetupInv, FleetInv, PayInv, MethodInv,
     AdminInv, DaemonInv, ChecksInv, LogInv, SignUpInv, JobsInv
<1>2. QED
  BY <1>1, LoadsAreSound, ChatsAreSound, NodesAreSound, SetupsAreSound, BotsAreSound,
     PaymentsAreSound, MethodsAreSound, CallsAreSound, DaemonsAreSound, ChecksAreSound,
     LogsAreSound, SignUpsAreSound, JobsAreSound, PTL

\* Days without their job and verified users without credit have a reason: the
\* property of the runs.
THEOREM ReasonsForOmissions == Spec => []OmissionsHaveReasons
<1>1. DayIsCovered /\ VerifiedIsCredited => OmissionsHaveReasons
  BY DEF OmissionsHaveReasons
<1>2. QED BY <1>1, DaysAreCovered, VerifiedAreCredited, PTL

\* What was checked holds when it is acted upon, but for what has come in
\* between: the property of the runs.
THEOREM ChecksFailWhenOvertaken == Spec => ChecksFailOnlyWhenOvertaken
BY LastCardsStay, ChecksStayTrue, PTL DEF ChecksFailOnlyWhenOvertaken

=============================================================================
