----------------------------- MODULE LineServer -----------------------------
(***************************************************************************)
(* The three servers that serve one client after the other, and their      *)
(* clients: UN (a UNIX-domain socket), 1V1 (the one-to-one server) and OOB *)
(* (the same with urgent data).                                            *)
(*                                                                         *)
(* UN ends with its first client.  1V1 and OOB fork; the child goes back   *)
(* to accept when its client has left, closes nothing, and exits when a    *)
(* read fails or accept does.  An OOB client sends each line with its last *)
(* byte urgent; the byte raises SIGURG in the server if the connection     *)
(* belongs to it (F_SETOWN, line 94), and the handler reads it.  Only the  *)
(* newest urgent byte of a connection can be read.  The handler does not   *)
(* look at what recv returns: after a failure it writes in front of its    *)
(* array (line 62).                                                        *)
(***************************************************************************)
EXTENDS Sockets

VARIABLES
  turn,      \* of the server: waiting in accept, before F_SETOWN, in read
  confd,     \* its connection
  idle,      \* clients past the end of their input that stay connected
  urgent,    \* of each client: its newest urgent byte
  sig,       \* SIGURG
  crowded,   \* history: an urgent byte came before the one before was read
  blind      \* history: a handler found no urgent byte

lineVars == <<turn, confd, idle, urgent, sig, crowded, blind>>

Lines == {"UN", "1V1", "OOB"}

\* "silent" raised no signal.
UrgentStates == {"none", "silent", "signalled"}

\* "again": it came once more while the handler had not read yet.
SigStates == {"no", "pending", "handling", "again"}

LineInit ==
  /\ SocketsInit
  /\ turn = "accept" /\ confd = None /\ idle = {}
  /\ urgent = [c \in Client |-> "none"]
  /\ sig = "no" /\ crowded = FALSE /\ blind = FALSE

-----------------------------------------------------------------------------
(* The clients.                                                            *)

UnConnect(c) == program = "UN" /\ Connect(c) /\ UNCHANGED lineVars
OneConnect(c) == program = "1V1" /\ Connect(c) /\ UNCHANGED lineVars
OobConnect(c) == program = "OOB" /\ Connect(c) /\ UNCHANGED lineVars

\* A line is read from standard input and written.
UnType(c) == program = "UN" /\ Say(c) /\ UNCHANGED lineVars
OneType(c) == program = "1V1" /\ c \notin idle /\ Say(c) /\ UNCHANGED lineVars

Owned(c) == turn = "read" /\ confd = c

\* OOB: send with MSG_OOB.
OobType(c) ==
  /\ program = "OOB" /\ c \notin idle
  /\ Say(c)
  /\ urgent' = [urgent EXCEPT ![c] = IF Owned(c) THEN "signalled" ELSE "silent"]
  /\ crowded' = (crowded \/ urgent[c] = "signalled")
  /\ sig' = CASE Owned(c) /\ sig = "no" -> "pending"
              [] Owned(c) /\ sig = "handling" -> "again"
              [] OTHER -> sig
  /\ UNCHANGED <<turn, confd, idle, blind>>

\* The input ends: UN's client leaves.
UnTypeEnd(c) ==
  /\ program = "UN"
  /\ Part(c)
  /\ UNCHANGED lineVars

\* The input ends: the clients of 1V1 and OOB look at read's result for an
\* error only, and go round for ever with their connection open.
OneTypeEnd(c) ==
  /\ program # "UN" /\ conn[c] = "on" /\ c \notin idle
  /\ idle' = idle \union {c}
  /\ UNCHANGED <<sockVars, turn, confd, urgent, sig, crowded, blind>>

\* A client is killed; its host may also be lost, which over TCP is a reset.
LineKilled(c) ==
  /\ Part(c) \/ (program # "UN" /\ Break(c))
  /\ UNCHANGED lineVars

LineUser(c) ==
  \/ UnConnect(c) \/ OneConnect(c) \/ OobConnect(c)
  \/ UnType(c) \/ OneType(c) \/ OobType(c)
  \/ UnTypeEnd(c) \/ OneTypeEnd(c) \/ LineKilled(c)

-----------------------------------------------------------------------------
(* The servers.                                                            *)

\* Main runs when no signal is to be delivered and no handler runs.
Runs(k) == server = "up" /\ program = k /\ sig = "no"

Keep == UNCHANGED <<idle, urgent, sig, crowded, blind>>

UnStart == program = "UN" /\ StartsOrFails /\ UNCHANGED lineVars
OneStart == program = "1V1" /\ StartsOrFails /\ UNCHANGED lineVars
OobStart == program = "OOB" /\ StartsOrFails /\ UNCHANGED lineVars

\* accept succeeds, the server goes to t; or there is no descriptor, it ends.
Accepting(t) ==
  /\ turn = "accept" /\ backlog # <<>>
  /\ \/ (\E f \in Fd : AcceptAs(f)) /\ confd' = Head(backlog) /\ turn' = t
     \/ /\ Full /\ server' = "ended"
        /\ UNCHANGED <<given, conn, backlog, file, sent, taken, confd, turn>>

UnAccept == Runs("UN") /\ Accepting("read") /\ Keep
OneAccept == Runs("1V1") /\ Accepting("read") /\ Keep
OobAccept == Runs("OOB") /\ Accepting("own") /\ Keep

\* fcntl(confd, F_SETOWN, getpid()): urgent bytes that are there raise nothing.
OobOwn ==
  /\ Runs("OOB") /\ turn = "own"
  /\ turn' = "read"
  /\ UNCHANGED <<sockVars, confd>> /\ Keep

\* A read that returns text, the end, an error; leave is what the end does.
Reading(leave) ==
  /\ turn = "read"
  /\ \/ Reads(confd) /\ UNCHANGED <<server, file, turn>>
     \/ ReadsEnd(confd) /\ leave /\ UNCHANGED file
     \/ ReadsError(confd) /\ server' = "ended" /\ UNCHANGED <<file, turn>>
  /\ UNCHANGED confd

Leaves == server' = "ended" /\ UNCHANGED turn
NextClient == turn' = "accept" /\ UNCHANGED server

UnRead == Runs("UN") /\ Reading(Leaves) /\ Keep

\* Faulty: the end does not leave the inner loop.
OneReadStays ==
  Runs("1V1") /\ Reading(UNCHANGED <<server, turn>>) /\ Keep

\* Faulty: the next client is taken after each read.
OneReadOnce ==
  /\ Runs("1V1") /\ turn = "read" /\ Reads(confd) /\ NextClient
  /\ UNCHANGED <<file, confd>> /\ Keep

OneRead == Runs("1V1") /\ Reading(NextClient) /\ Keep
OobRead == Runs("OOB") /\ Reading(NextClient) /\ Keep

\* SIGURG is delivered.
SigURGRun ==
  /\ server = "up" /\ sig = "pending"
  /\ sig' = "handling"
  /\ UNCHANGED <<sockVars, turn, confd, idle, urgent, crowded, blind>>

\* recv with MSG_OOB in the handler.
SigURGRead ==
  /\ server = "up" /\ sig \in {"handling", "again"}
  /\ IF urgent[confd] = "signalled"
     THEN urgent' = [urgent EXCEPT ![confd] = "none"] /\ UNCHANGED <<server, blind>>
     ELSE blind' = TRUE /\ server' \in {"up", "stray"} /\ UNCHANGED urgent
  /\ sig' = IF sig = "again" THEN "pending" ELSE "no"
  /\ UNCHANGED <<given, conn, backlog, file, sent, taken, turn, confd, idle, crowded>>

-----------------------------------------------------------------------------
LineMain ==
  \/ UnStart \/ UnAccept \/ UnRead
  \/ OneStart \/ OneAccept \/ OneRead
  \/ OobStart \/ OobAccept \/ OobOwn \/ OobRead
  \/ SigURGRun \/ SigURGRead

LineNext ==
  program \in Lines /\ (LineMain \/ \E c \in Client : LineUser(c))

LineSpec == LineInit /\ [][LineNext]_<<sockVars, lineVars>>

-----------------------------------------------------------------------------
(* Properties.                                                             *)

LineTypeOK ==
  /\ SocketsTypeOK
  /\ turn \in {"accept", "own", "read"}
  /\ confd \in Client \union {None} /\ idle \subseteq Client
  /\ urgent \in [Client -> UrgentStates] /\ sig \in SigStates
  /\ crowded \in BOOLEAN /\ blind \in BOOLEAN

\* One client after the other: when the server has turned to a client, those
\* accepted before have left and were heard to the last unit, although their
\* descriptors are still open.
HeardInTurn ==
  \A f, g \in Fd :
    (program \in Lines /\ f < g /\ file[g] # None) =>
      /\ file[f] # None /\ file[f] # confd
      /\ conn[file[f]] \in {"fin", "dead"} /\ Waiting(file[f]) = 0

\* A server that ends has heard its client out: UN's has left; in 1V1 and OOB
\* the connection was reset, or every client has left, one after the other, and
\* the descriptors nobody closes are used up.
LineEnds ==
  (program \in Lines /\ server = "ended") =>
    /\ confd # None /\ Waiting(confd) = 0
    /\ program = "UN" => conn[confd] = "fin"
    /\ program # "UN" /\ turn = "read" => conn[confd] = "dead"
    /\ program # "UN" /\ turn # "read" => Full /\ \A f \in Open : conn[file[f]] # "on"

\* A signal handler that finds no urgent byte (line 61 fails, line 62 writes in
\* front of the array) comes only of two bytes close together: the newer one was
\* read in place of the older, and its own signal is still to come.
BlindHandler ==
  (program \in Lines /\ (blind \/ server = "stray")) => crowded

\* When the clients accepted before have left, the next one gets its turn,
\* unless the server ends.  A client whose input has ended has not left (idle).
TurnComes ==
  \A c \in Client :
    (program \in Lines /\ backlog # <<>> /\ Head(backlog) = c
       /\ \A d \in Client : Accepted(d) => conn[d] # "on")
      ~> (Accepted(c) \/ server # "up")

\* An urgent byte that has raised a signal is read, also when its client leaves
\* at once: the handler runs before confd is given to the next connection.
UrgentRead ==
  \A c \in Client : urgent[c] = "signalled" ~> (urgent[c] # "signalled" \/ server # "up")

\* The servers of one client at a time turn to the next one, end and are
\* interrupted only as they should.
LineSafe == LineTypeOK /\ HeardInTurn /\ LineEnds /\ BlindHandler

\* Clients and urgent bytes have their turn.
LineServes == TurnComes /\ UrgentRead
=============================================================================
