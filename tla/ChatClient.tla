----------------------------- MODULE ChatClient -----------------------------
(***************************************************************************)
(* chat/client.c: one loop around a poll of standard input and of the      *)
(* connection.  What poll has returned is looked at one after the other,   *)
(* while the world goes on: the server may close, or the connection may be *)
(* reset, between the poll and the write (`room').                         *)
(*                                                                         *)
(* Texts and keys are counted, not told apart: a read takes all there is,  *)
(* as long as there is not more than the 1023 bytes of ReadBuf.  poll fails*)
(* only for a signal, and none is caught here.                             *)
(***************************************************************************)
EXTENDS Integers

CONSTANTS
  MaxTexts,  \* bound: texts at the socket at one time
  MaxKeys    \* bound: lines typed and not read, at one time

ASSUME ChatClientAssumption == MaxTexts \in Nat \ {0} /\ MaxKeys \in Nat \ {0}

VARIABLES
  chatAt,  \* where main is
  fds,     \* the revents that poll set: "hup" POLLRDHUP, "in" POLLIN of the
           \* connection, "key" POLLIN of standard input
  room,    \* the connection: "open", "fin" closed by the server, "rst" reset,
           \* "dead" reset, and the next write gets SIGPIPE
  texts,   \* texts at the socket, not read
  keys,    \* lines typed, not read
  keysEnd, \* standard input: "open", "eof", "gone" (reads fail)
  old      \* history: texts at the socket that a poll without a hang-up found

chatVars == <<chatAt, fds, room, texts, keys, keysEnd, old>>

ChatInit ==
  /\ chatAt = "starting" /\ fds = {} /\ room = "open"
  /\ texts = 0 /\ keys = 0 /\ keysEnd = "open"
  /\ old = 0

-----------------------------------------------------------------------------
(* The loop.                                                               *)

\* connect, or one of the failures before the loop.
Connects ==
  /\ chatAt = "starting"
  /\ chatAt' \in {"poll", "failed"}
  /\ UNCHANGED <<fds, room, texts, keys, keysEnd, old>>

Ready ==
  {e \in {"hup", "in", "key"} :
     \/ e = "hup" /\ room # "open"
     \/ e = "in" /\ (texts > 0 \/ room # "open")
     \/ e = "key" /\ (keys > 0 \/ keysEnd # "open")}

Poll ==
  /\ chatAt = "poll" /\ Ready # {}
  /\ fds' = Ready
  /\ chatAt' = "socket"
  /\ old' = IF "hup" \in Ready THEN old ELSE texts
  /\ UNCHANGED <<room, texts, keys, keysEnd>>

\* Without a hang-up, "in" means that there is something to read.
ReadTexts == chatAt' = "keys" /\ texts' = 0 /\ old' = 0

PassSocket == chatAt' = "keys" /\ UNCHANGED <<texts, old>>

\* Faulty: an end of the connection is reported, and the loop goes on.
LookAtSocketNoBreak ==
  /\ chatAt = "socket"
  /\ IF "in" \in fds THEN ReadTexts ELSE PassSocket
  /\ UNCHANGED <<fds, room, keys, keysEnd>>

\* Faulty: the connection is looked at only when nothing was typed.
LookAtSocketUnlessKeys ==
  /\ chatAt = "socket"
  /\ CASE "key" \in fds -> PassSocket
       [] "key" \notin fds /\ "hup" \in fds -> chatAt' = "closed" /\ UNCHANGED <<texts, old>>
       [] "key" \notin fds /\ fds = {"in"} -> ReadTexts
  /\ UNCHANGED <<fds, room, keys, keysEnd>>

\* A hang-up ends main, whatever has come before it and was not read.
LookAtSocket ==
  /\ chatAt = "socket"
  /\ CASE "hup" \in fds -> chatAt' = "closed" /\ UNCHANGED <<texts, old>>
       [] "hup" \notin fds /\ "in" \in fds -> ReadTexts
       [] OTHER -> PassSocket
  /\ UNCHANGED <<fds, room, keys, keysEnd>>

\* write to the connection: the first one behind a reset only fails, and
\* nobody looks at it.
Writes ==
  /\ chatAt' = IF room = "dead" THEN "killed" ELSE "poll"
  /\ room' = IF room = "rst" THEN "dead" ELSE room

\* At the end of the input read returns 0 again and again, and 0 bytes are
\* written each time.
LookAtKeys ==
  /\ chatAt = "keys"
  /\ CASE "key" \in fds /\ keysEnd = "gone" -> chatAt' = "closed" /\ UNCHANGED <<keys, room>>
       [] "key" \in fds /\ keysEnd # "gone" -> keys' = 0 /\ Writes
       [] OTHER -> chatAt' = "poll" /\ UNCHANGED <<keys, room>>
  /\ UNCHANGED <<fds, texts, keysEnd, old>>

ChatStep == Connects \/ Poll \/ LookAtSocket \/ LookAtKeys

-----------------------------------------------------------------------------
(* The server and the user.                                                *)

TextComes ==
  /\ chatAt # "starting" /\ room = "open" /\ texts < MaxTexts
  /\ texts' = texts + 1
  /\ UNCHANGED <<chatAt, fds, room, keys, keysEnd, old>>

\* The server closes; it resets the connection when it has not read all, and
\* once it has closed, when something is written to it.
RoomEnds ==
  /\ chatAt # "starting"
  /\ \/ room = "open" /\ room' \in {"fin", "rst"}
     \/ room = "fin" /\ room' = "dead"
  /\ UNCHANGED <<chatAt, fds, texts, keys, keysEnd, old>>

LineTyped ==
  /\ keysEnd = "open" /\ keys < MaxKeys
  /\ keys' = keys + 1
  /\ UNCHANGED <<chatAt, fds, room, texts, keysEnd, old>>

\* The end of the input, or of the terminal.
KeysEnd ==
  /\ keysEnd = "open"
  /\ keysEnd' \in {"eof", "gone"}
  /\ keys' = IF keysEnd' = "gone" THEN 0 ELSE keys
  /\ UNCHANGED <<chatAt, fds, room, texts, old>>

ChatWorld == TextComes \/ RoomEnds \/ LineTyped \/ KeysEnd

ChatNext == ChatStep \/ ChatWorld

ChatSpec == ChatInit /\ [][ChatNext]_chatVars

-----------------------------------------------------------------------------
(* Properties.                                                             *)

Out == {"closed", "killed", "failed"}

\* A hang-up makes the client throw away what it has not read (line 61), but
\* nothing of it was there at an earlier poll: each round reads all it finds.
OnlyLastRoundLost == chatAt \in {"poll", "closed", "killed"} => old = 0

\* SIGPIPE can end the client only between a poll that still found the
\* connection whole and the write that follows it (line 92).
KilledUnaware == chatAt = "killed" => "hup" \notin fds

\* The client leaves with the server, or when it can not read what is typed, and
\* not at the end of its input.
LeavesWithServer == chatAt = "closed" => (room # "open" \/ keysEnd = "gone")

\* What is typed is written, however much comes from the server: a round looks
\* at both (lines 61, 84).
TypedIsWritten == keys > 0 ~> (keys = 0 \/ chatAt \in Out)

\* What comes is shown, however much is typed, and even when the input has ended
\* and standard input is always ready.
TextsShown == texts > 0 ~> (texts = 0 \/ chatAt \in Out)

\* The end of the server ends the client.
EndNoticed == room # "open" ~> chatAt \in Out

\* What is lost, and what ends the client, is the doing of the server's end.
ChatSafe == OnlyLastRoundLost /\ KilledUnaware /\ LeavesWithServer

\* Neither side of the loop starves the other.
ChatServes == TypedIsWritten /\ TextsShown /\ EndNoticed
=============================================================================
