---------------------------- MODULE NodeConnections ----------------------------
(***************************************************************************)
(* The websockets of node agents (index.ts: the upgrade handler and        *)
(* acceptAndWireWebSocket) and the connection registry of platform-core,   *)
(* which keeps one socket per node.                                        *)
(*                                                                         *)
(* The upgrade awaits the check of the node's secret.  A socket's "close"  *)
(* and "error" name only the node: they remove whatever socket the         *)
(* registry has of it.  Heartbeats, results and registrations are passed   *)
(* to platform-core and change nothing here.                               *)
(***************************************************************************)
EXTENDS ServerLoad

CONSTANTS
  Nodes,
  Sockets       \* bound: connections, numbered

ASSUME SocketAssumption == Nodes # {} /\ Sockets \subseteq Nat \ {0}

VARIABLES
  registry,     \* ConnectionRegistry: the socket of a node
  socket,       \* the upgrades and connections
  overlap       \* nodes that have connected while an older connection of
                \* theirs was not closed yet (history)

nodeVars == <<registry, socket, overlap>>

NoSocket == 0

\* `broken`: the connection is down and its event is to come.
SocketStates == {"unused", "checking", "open", "broken", "closed"}

NodeInit ==
  /\ registry = [n \in Nodes |-> NoSocket]
  /\ socket = [w \in Sockets |-> [at |-> "unused", node |-> CHOOSE n \in Nodes : TRUE]]
  /\ overlap = {}

NodeTypeOK ==
  /\ registry \in [Nodes -> Sockets \cup {NoSocket}]
  /\ socket \in [Sockets -> [at : SocketStates, node : Nodes]]
  /\ overlap \subseteq Nodes

-----------------------------------------------------------------------------
\* A request to upgrade, whose secret is being checked.
Upgrade ==
  \E w \in Sockets, n \in Nodes :
    /\ socket[w].at = "unused"
    /\ \A v \in Sockets : socket[v].at = "unused" => w <= v
    /\ Begin("socket")
    /\ socket' = [socket EXCEPT ![w] = [at |-> "checking", node |-> n]]
    /\ UNCHANGED <<registry, overlap>>

\* Connections of a node that are not closed yet.
Live(n) == {w \in Sockets : socket[w].node = n /\ socket[w].at \in {"open", "broken"}}

\* acceptAndWireWebSocket: the newest connection is the node's.
Accept(w) ==
  LET n == socket[w].node IN
  /\ socket[w].at = "checking"
  /\ socket' = [socket EXCEPT ![w].at = "open"]
  /\ registry' = [registry EXCEPT ![n] = w]
  /\ overlap' = IF Live(n) = {} THEN overlap ELSE overlap \cup {n}

\* Mutant: a refused upgrade is closed like a connection.
RefusedIsClosed(w) == [registry EXCEPT ![socket[w].node] = NoSocket]

\* A refused upgrade has never been in the registry.
Refused(w) == registry

\* The secret is wrong, the path is another, or the check throws.
Reject(w) ==
  /\ socket[w].at = "checking"
  /\ socket' = [socket EXCEPT ![w].at = "closed"]
  /\ registry' = Refused(w)
  /\ UNCHANGED overlap

\* The agent or the network ends the connection.
Break(w) ==
  /\ socket[w].at = "open"
  /\ socket' = [socket EXCEPT ![w].at = "broken"]
  /\ UNCHANGED <<registry, overlap>>

\* registry.close(nodeId).
Forgotten(w) == [registry EXCEPT ![socket[w].node] = NoSocket]

\* The "error" event of a socket, which its "close" follows.
Failed(w) ==
  /\ socket[w].at = "broken"
  /\ registry' = Forgotten(w)
  /\ UNCHANGED <<socket, overlap>>

\* The "close" event of a socket.
Closed(w) ==
  LET n == socket[w].node IN
  /\ socket[w].at = "broken"
  /\ socket' = [socket EXCEPT ![w].at = "closed"]
  /\ registry' = Forgotten(w)
  /\ overlap' = IF Live(n) = {w} THEN overlap \ {n} ELSE overlap

\* What is left when the process ends: nothing.
NodesCutOff ==
  /\ registry' = [n \in Nodes |-> NoSocket]
  /\ socket' = [w \in Sockets |->
       IF socket[w].at = "unused" THEN socket[w] ELSE [socket[w] EXCEPT !.at = "closed"]]
  /\ overlap' = {}

NodeEvents ==
  \E w \in Sockets :
    /\ \/ Accept(w)
       \/ Reject(w)
       \/ Break(w)
       \/ Failed(w)
       \/ Closed(w)
    /\ UNCHANGED budget

-----------------------------------------------------------------------------
(* Properties.                                                             *)

\* A node with an open connection is in the registry with it, unless it has
\* connected again before its older connection was closed here: then the late
\* close of the older one removes the newer one.
ConnectedIsRegistered ==
  \A w \in Sockets :
    (socket[w].at = "open" /\ socket[w].node \notin overlap) =>
      registry[socket[w].node] = w
=============================================================================
