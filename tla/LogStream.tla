------------------------------- MODULE LogStream -------------------------------
(***************************************************************************)
(* The stream of a bot's log (GET /fleet/bots/:id/logs/stream of           *)
(* api/routes/fleet.ts): chunks come from the container as they may be     *)
(* cut, and go to the client line by line.                                 *)
(*                                                                         *)
(* A line is Width pieces long, the last of which is its end; its first    *)
(* two pieces are the halves of one character.  Every chunk is decoded by  *)
(* itself, so that a character that two chunks share arrives as two others.*)
(* One stream; what it writes is queued for the client without limit.      *)
(***************************************************************************)
EXTENDS ServerLoad, Sequences

CONSTANTS
  Lines,        \* bound: lines that the container logs
  Width         \* bound: how finely a line is cut

ASSUME LogAssumption == Lines \in Nat /\ Width \in Nat \ {0, 1, 2}

VARIABLES
  tail,         \* the stream's state, its buffer and what it has sent
  source        \* how much the container has sent, and where chunks ended
                \* (history)

logVars == <<tail, source>>

LogInit ==
  /\ tail = [at |-> "unused", held |-> 0, spoilt |-> FALSE, sent |-> <<>>]
  /\ source = [pieces |-> 0, cuts |-> {}]

LogTypeOK ==
  /\ tail \in [at : {"unused", "open", "ended", "failed", "left"}, held : 0..(Width - 1),
               spoilt : BOOLEAN, sent : Seq([spoilt : BOOLEAN, whole : BOOLEAN])]
  /\ source \in [pieces : Nat, cuts : SUBSET Nat]

-----------------------------------------------------------------------------
OpenLog ==
  /\ tail.at = "unused"
  /\ Begin("log")
  /\ tail' = [tail EXCEPT !.at = "open"]
  /\ UNCHANGED source

\* Mutant: what comes after the last end of line is thrown away.
HeldNever(total) == 0

\* lines.pop(): what comes after the last end of line is kept.
Held(total) == total % Width

\* A chunk ends between the halves of a character.
Splits(position) == position % Width = 1

\* onData: the lines that are complete now, of which the first may have been
\* spoilt by this chunk's beginning, are sent.
LogData ==
  \E n \in 1..(Lines * Width - source.pieces) :
    LET end == source.pieces + n
        total == tail.held + n
        complete == total \div Width IN
    /\ tail.at = "open"
    /\ source' = [pieces |-> end, cuts |-> source.cuts \cup {end}]
    /\ tail' = [tail EXCEPT
         !.held = Held(total),
         !.spoilt = Splits(end) \/ (complete = 0 /\ @),
         !.sent = @ \o [i \in 1..complete |->
                          [spoilt |-> i = 1 /\ tail.spoilt, whole |-> TRUE]]]

\* onEnd: what is held is sent as a line, and the client is told.
LogEnd ==
  /\ tail.at = "open"
  /\ tail' = [tail EXCEPT
       !.at = "ended",
       !.sent = IF tail.held = 0 THEN @
                ELSE Append(@, [spoilt |-> tail.spoilt, whole |-> FALSE])]
  /\ UNCHANGED source

\* onError: the client is told, and what is held is lost.
LogError ==
  /\ tail.at = "open"
  /\ tail' = [tail EXCEPT !.at = "failed"]
  /\ UNCHANGED source

\* The client leaves, or a write to it fails: cleanup.
LeaveLog ==
  /\ tail.at = "open"
  /\ tail' = [tail EXCEPT !.at = "left"]
  /\ UNCHANGED source

LogRequests == OpenLog

LogEvents ==
  /\ LogData \/ LogEnd \/ LogError \/ LeaveLog
  /\ UNCHANGED budget

LogCutOff ==
  /\ tail' = [tail EXCEPT !.at = IF @ = "open" THEN "left" ELSE @]
  /\ UNCHANGED source

-----------------------------------------------------------------------------
(* Properties.                                                             *)

\* However the log is cut into chunks, every line that has come is sent once,
\* whole and in order; the beginning of another is sent when the container has
\* stopped; and a line is spoilt only if a chunk ended within its character.
LogsArriveWhole ==
  LET whole == source.pieces \div Width
      rest == source.pieces % Width IN
  /\ Len(tail.sent) = IF tail.at = "ended" /\ rest # 0 THEN whole + 1 ELSE whole
  /\ \A i \in DOMAIN tail.sent :
       /\ tail.sent[i].whole <=> i <= whole
       /\ tail.sent[i].spoilt <=>
            \E p \in source.cuts : p \div Width = i - 1 /\ Splits(p)
=============================================================================
