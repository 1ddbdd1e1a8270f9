----------------------------- MODULE EchoClient -----------------------------
(***************************************************************************)
(* pthreadServer/client.c, one for each client of ThreadServer: it reads a *)
(* line from standard input, sends it, waits for what comes back, and only *)
(* then reads the next line.                                               *)
(*                                                                         *)
(* The end of standard input is not looked for: nothing is sent, and the   *)
(* client waits for a reply all the same.  `size = 0' (line 55) assigns:   *)
(* the end of the connection is taken for a reply and the loop goes on.  A *)
(* reset ends the loop.  SIGPIPE is handled.  A line is one unit, or one   *)
(* more than the server's buffer and the client's hold.                    *)
(***************************************************************************)
EXTENDS ThreadServer

VARIABLES
  user,      \* where each client is
  heard,     \* how many units of the replies each client has read
  finished,  \* history: clients whose input has ended
  long       \* history: clients that were given a line too long

clientVars == <<user, heard, finished, long>>

EchoInit ==
  /\ ThreadInit
  /\ user = [c \in Client |-> "off"]
  /\ heard = [c \in Client |-> 0]
  /\ finished = {} /\ long = {}

-----------------------------------------------------------------------------
UcConnect(c) ==
  /\ user[c] = "off" /\ Connect(c)
  /\ user' = [user EXCEPT ![c] = "stdin"]
  /\ UNCHANGED <<threadVars, heard, finished, long>>

UcType(c) ==
  /\ user[c] = "stdin"
  /\ \E n \in {1, BufLen + 1} :
       /\ sent[c] + n <= MaxSends[c]
       /\ sent' = [sent EXCEPT ![c] = @ + n]
       /\ long' = IF n > BufLen THEN long \union {c} ELSE long
  /\ user' = [user EXCEPT ![c] = "reply"]
  /\ UNCHANGED <<given, server, conn, backlog, file, taken, threadVars, heard, finished>>

\* The input has ended: read returns 0, and nothing is sent.
UcTypeEnd(c) ==
  /\ user[c] = "stdin"
  /\ user' = [user EXCEPT ![c] = "reply"]
  /\ finished' = finished \union {c}
  /\ UNCHANGED <<sockVars, threadVars, heard, long>>

Unheard(c) == echoed[c] - heard[c]

UcReply(c) ==
  /\ user[c] = "reply" /\ Unheard(c) > 0
  /\ heard' = [heard EXCEPT ![c] = @ + IF Unheard(c) < BufLen THEN Unheard(c) ELSE BufLen]
  /\ user' = [user EXCEPT ![c] = "stdin"]
  /\ UNCHANGED <<sockVars, threadVars, finished, long>>

\* The server has gone or has dropped the connection: the end, which is taken
\* for a reply, or an error, after which the client closes.
UcReplyNone(c) ==
  /\ user[c] = "reply" /\ Unheard(c) <= 0
  /\ server # "up" \/ c \in dropped
  /\ \/ user' = [user EXCEPT ![c] = "stdin"] /\ UNCHANGED conn
     \/ user' = [user EXCEPT ![c] = "done"] /\ conn' = [conn EXCEPT ![c] = "fin"]
  /\ UNCHANGED <<given, server, backlog, file, sent, taken, threadVars, heard, finished, long>>

\* The client is killed: a reset if a reply is left unread.
UcKilled(c) ==
  /\ user[c] \in {"stdin", "reply"}
  /\ IF Unheard(c) > 0 THEN Break(c) ELSE Part(c)
  /\ user' = [user EXCEPT ![c] = "done"]
  /\ UNCHANGED <<threadVars, heard, finished, long>>

-----------------------------------------------------------------------------
Server == TsMain /\ UNCHANGED clientVars
Thread(c) == HandleClient(c) /\ UNCHANGED clientVars
Hears(c) == UcReply(c) \/ UcReplyNone(c)
Types(c) == UcConnect(c) \/ UcType(c) \/ UcTypeEnd(c) \/ UcKilled(c)

EchoNext ==
  program = "echo" /\ (Server \/ \E c \in Client : Thread(c) \/ Hears(c) \/ Types(c))

EchoSpec == EchoInit /\ [][EchoNext]_<<sockVars, threadVars, clientVars>>

-----------------------------------------------------------------------------
(* Properties.                                                             *)

\* When a client asks for the next line, all that it has sent has come back:
\* what it prints behind "echo#" is the line typed before.  After a line that
\* does not fit the buffers it is not, nor when the connection has gone and
\* line 55 takes that for a reply.
ReplyBelongs ==
  \A c \in Client :
    user[c] = "stdin" =>
      \/ heard[c] = sent[c]
      \/ c \in long \union dropped \/ overtaken \/ server # "up"

\* Client and server do not wait for each other: a client that waits hears
\* something, unless its input had ended (line 43), the connection was given to
\* no thread or to the wrong one, or the server has no descriptor for it.
ReplyComes ==
  \A c \in Client :
    user[c] = "reply" ~>
      \/ user[c] # "reply" \/ c \in finished
      \/ c \in refused \/ overtaken \/ (Full /\ ~Accepted(c))

\* Each thread serves its own connection, what comes back to a client is its own,
\* and only a client that has left can bring the server down.
EchoSafe == ThreadTypeOK /\ TsOwn /\ EchoInOrder /\ KilledByFarewell /\ ReplyBelongs

\* Every client is served, by whichever program it is.
EchoServes == TsServes /\ ReplyComes
=============================================================================
