------------------------------ MODULE ChatStreams ------------------------------
(***************************************************************************)
(* Chat over server-sent events (api/routes/chat.ts with the registry of   *)
(* chat/chat-stream-registry.ts and the backends of chat/).                *)
(*                                                                         *)
(* GET /stream opens a stream on a chat session and POST / sends a message *)
(* to it; either claims the session for its user if nobody owns it.  The   *)
(* answer is produced in the background and pushed to the streams that are *)
(* open when it is there; its "done" ends them all.                        *)
(*                                                                         *)
(* Text and "done" of an answer are emitted without an await in between    *)
(* and are one step, and so are an error and its "done".  Abstracted: what *)
(* is said, and the index by session, which is kept with the writers.      *)
(***************************************************************************)
EXTENDS ServerLoad

CONSTANTS
  Users,
  Streams,      \* bound: connections, numbered
  Messages      \* bound: messages, numbered

\* No entry in sessionOwners; it is no user's id.
NoOwner == "nobody"

ASSUME ChatAssumption ==
  /\ Chats # {}
  /\ Users # {} /\ NoOwner \notin Users
  /\ Streams \subseteq Nat
  /\ Messages \subseteq Nat

VARIABLES
  owner,        \* ChatStreamRegistry.sessionOwners
  stream,       \* connections, and the writers of those that are "open"
  message       \* messages in the background

chatVars == <<owner, stream, message>>

\* An "ending" stream is closed and no longer in the registry, and its client
\* has not read it to the end.  `heard`: messages whose answer went to it.
StreamStates == {"unused", "open", "ending", "gone"}

\* History: `orphan`, the session has lost its owner since the message came.
MessageStates == {"unused", "processing", "answered", "lost"}

NoStream ==
  [at |-> "unused", chat |-> CHOOSE s \in Chats : TRUE,
   user |-> CHOOSE u \in Users : TRUE, heard |-> {}]

NoMessage ==
  [at |-> "unused", chat |-> CHOOSE s \in Chats : TRUE,
   user |-> CHOOSE u \in Users : TRUE, orphan |-> FALSE]

ChatInit ==
  /\ owner = [s \in Chats |-> NoOwner]
  /\ stream = [c \in Streams |-> NoStream]
  /\ message = [m \in Messages |-> NoMessage]

ChatTypeOK ==
  /\ owner \in [Chats -> Users \cup {NoOwner}]
  /\ stream \in [Streams -> [at : StreamStates, chat : Chats, user : Users,
                             heard : SUBSET Messages]]
  /\ message \in [Messages -> [at : MessageStates, chat : Chats, user : Users,
                               orphan : BOOLEAN]]

First(S) == {i \in S : \A j \in S : i <= j}

-----------------------------------------------------------------------------
(* The registry.                                                           *)

\* listBySession.
ListBySession(s) == {c \in Streams : stream[c].at = "open" /\ stream[c].chat = s}

\* Mutant: the owner is stored and not compared.
ClaimUnverified(s, u) ==
  owner' = [owner EXCEPT ![s] = IF @ = NoOwner THEN u ELSE @]

\* claimOrVerifyOwner, when it returns true.
Claim(s, u) ==
  /\ owner[s] \in {NoOwner, u}
  /\ owner' = [owner EXCEPT ![s] = u]

\* clearOwner.
ClearOwner(s) ==
  /\ owner' = [owner EXCEPT ![s] = NoOwner]
  /\ message' = [m \in Messages |->
       IF message[m].at = "processing" /\ message[m].chat = s
       THEN [message[m] EXCEPT !.orphan = TRUE] ELSE message[m]]

-----------------------------------------------------------------------------
(* The routes.                                                             *)

\* GET /stream; another user's session answers 403, and nothing changes.
OpenStream ==
  \E c \in First({d \in Streams : stream[d].at = "unused"}), s \in Chats, u \in Users :
    /\ Begin("stream")
    /\ Claim(s, u)
    /\ stream' = [stream EXCEPT ![c] =
         [at |-> "open", chat |-> s, user |-> u, heard |-> {}]]
    /\ UNCHANGED message

\* Mutant: an answer goes to the first stream of the session.
EmittedToFirst(m, s) ==
  [c \in Streams |->
     IF c \in First(ListBySession(s))
     THEN [stream[c] EXCEPT !.at = "ending", !.heard = @ \cup {m}] ELSE stream[c]]

\* emit of text, or an error, and then "done", to the streams that are open.
Emitted(m, s) ==
  [c \in Streams |->
     IF c \in ListBySession(s)
     THEN [stream[c] EXCEPT !.at = "ending", !.heard = @ \cup {m}] ELSE stream[c]]

\* POST /, once its body is there.  The answer comes later, or at once when
\* the daemon is not ready.
Post ==
  \E m \in First({n \in Messages : message[n].at = "unused"}), s \in Chats, u \in Users :
    /\ Begin("message")
    /\ Claim(s, u)
    /\ \E at \in {"processing", "answered"} :
         /\ message' = [message EXCEPT ![m] =
              [at |-> at, chat |-> s, user |-> u, orphan |-> FALSE]]
         /\ stream' = IF at = "answered" THEN Emitted(m, s) ELSE stream

\* The backend has its answer, or has failed.
Answer(m) ==
  /\ message[m].at = "processing"
  /\ message' = [message EXCEPT ![m].at = "answered"]
  /\ stream' = Emitted(m, message[m].chat)
  /\ UNCHANGED owner

\* Mutant: whoever leaves takes the ownership along.
OwnerLeavesAlways(c) == TRUE

\* No stream but c is open on its session.
OwnerLeaves(c) == ListBySession(stream[c].chat) \subseteq {c}

\* The client goes away before it has read the stream to the end.
Disconnect(c) ==
  /\ stream[c].at \in {"open", "ending"}
  /\ stream' = [stream EXCEPT ![c].at = "gone"]
  /\ IF OwnerLeaves(c) THEN ClearOwner(stream[c].chat)
     ELSE UNCHANGED <<owner, message>>

\* The client has read the stream to the end.
ReadToEnd(c) ==
  /\ stream[c].at = "ending"
  /\ stream' = [stream EXCEPT ![c].at = "gone"]
  /\ UNCHANGED <<owner, message>>

\* What is left when the process ends: nothing.
ChatsCutOff ==
  /\ owner' = [s \in Chats |-> NoOwner]
  /\ stream' = [c \in Streams |->
       IF stream[c].at \in {"open", "ending"}
       THEN [stream[c] EXCEPT !.at = "gone"] ELSE stream[c]]
  /\ message' = [m \in Messages |->
       IF message[m].at = "processing"
       THEN [message[m] EXCEPT !.at = "lost"] ELSE message[m]]

ChatEvents ==
  \/ \E m \in Messages : Answer(m) /\ UNCHANGED budget
  \/ \E c \in Streams : (Disconnect(c) \/ ReadToEnd(c)) /\ UNCHANGED budget

-----------------------------------------------------------------------------
(* Properties.                                                             *)

\* Every open stream belongs to the owner of its session: while one user
\* listens, nobody else can get hold of the session, however streams end.
OwnerHoldsOpenStreams ==
  \A c \in Streams :
    stream[c].at = "open" => owner[stream[c].chat] = stream[c].user

\* An answer goes to another user's stream only if its session had lost its
\* owner meanwhile, by a disconnect of the last stream.
AnswerReachesAsker ==
  \A c \in Streams : \A m \in stream[c].heard :
    message[m].user = stream[c].user \/ message[m].orphan

\* A stream on which an answer is due ends: it hears an answer's "done", or
\* its client or the process goes away.
StreamsEnd ==
  \A c \in Streams :
    (stream[c].at = "open"
       /\ \E m \in Messages : message[m].at = "processing"
                              /\ message[m].chat = stream[c].chat)
      ~> stream[c].at # "open"
=============================================================================
