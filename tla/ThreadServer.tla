---------------------------- MODULE ThreadServer ----------------------------
(***************************************************************************)
(* pthreadServer/tserver.c: a thread for every connection.                 *)
(*                                                                         *)
(* main writes the descriptor and the port of a new connection into arg, a *)
(* record on its own stack, creates a thread with the address of arg, and  *)
(* goes back to accept: the next connection is written into the same       *)
(* record.  The thread reads the record when it gets there (lines 48-50),  *)
(* which may be during or after that write.  Then it reads from the        *)
(* descriptor it has found and writes back what it has read.               *)
(*                                                                         *)
(* The result of pthread_create is not looked at (line 90), no descriptor  *)
(* is ever closed, and no thread is joined.  Len is not set before accept  *)
(* (line 80): accept fails, and drops the connection, when what it finds   *)
(* there is negative.                                                      *)
(***************************************************************************)
EXTENDS Sockets

VARIABLES
  place,     \* of main
  arg,       \* the record on main's stack
  refused,   \* clients pthread_create made no thread for
  dropped,   \* clients whose connection accept has dropped
  thread,    \* of each client: how far the thread made for it is
  own,       \* of each thread: its sock and its port
  chunk,     \* of each thread: its buf, units lo + 1 .. hi of client `of'
  echoed,    \* history: how many units came back to each client
  overtaken, \* history: arg was written before a thread had read it
  disorder   \* history: a unit was written back out of turn

threadVars == <<place, arg, refused, dropped, thread, own, chunk,
                echoed, overtaken, disorder>>

Places == {"accept", "sock", "port", "create"}
Strands == {"none", "born", "half", "read", "echo", "done"}
NoOne == [sock |-> NoFd, port |-> None]
Empty == [of |-> None, lo |-> 0, hi |-> 0]

ThreadInit ==
  /\ SocketsInit
  /\ place = "accept" /\ arg = NoOne
  /\ refused = {} /\ dropped = {}
  /\ thread = [c \in Client |-> "none"]
  /\ own = [c \in Client |-> NoOne]
  /\ chunk = [c \in Client |-> Empty]
  /\ echoed = [c \in Client |-> 0]
  /\ overtaken = FALSE /\ disorder = FALSE

-----------------------------------------------------------------------------
ThreadClient(c) ==
  (Connect(c) \/ Say(c) \/ Part(c) \/ Break(c)) /\ UNCHANGED threadVars

ThreadStartUp == StartsOrFails /\ UNCHANGED threadVars

(* main.                                                                   *)

\* The descriptor and client of the connection accepted last.
Newest(f) == file[f] # None /\ \A g \in Fd : g > f => file[g] = None

TsAccept ==
  /\ place = "accept"
  /\ \E f \in Fd : AcceptAs(f)
  /\ place' = "sock"
  /\ UNCHANGED <<arg, refused, dropped, thread, own, chunk, echoed, overtaken, disorder>>

\* accept fails for want of a descriptor; main tries again at once.
TsAcceptFails ==
  /\ server = "up" /\ place = "accept" /\ backlog # <<>> /\ Full
  /\ UNCHANGED <<sockVars, threadVars>>

\* accept fails because of Len.
TsAcceptDrops ==
  /\ server = "up" /\ place = "accept" /\ backlog # <<>> /\ ~Full
  /\ backlog' = Tail(backlog)
  /\ dropped' = dropped \union {Head(backlog)}
  /\ UNCHANGED <<given, server, conn, file, sent, taken, place, arg, refused, thread,
                 own, chunk, echoed, overtaken, disorder>>

TsFillSock ==
  /\ server = "up" /\ place = "sock"
  /\ \E f \in Fd : Newest(f) /\ arg' = [arg EXCEPT !.sock = f]
  /\ overtaken' = (overtaken \/ \E c \in Client : thread[c] \in {"born", "half"})
  /\ place' = "port"
  /\ UNCHANGED <<sockVars, refused, dropped, thread, own, chunk, echoed, disorder>>

TsFillPort ==
  /\ server = "up" /\ place = "port"
  /\ \E f \in Fd : Newest(f) /\ arg' = [arg EXCEPT !.port = file[f]]
  /\ place' = "create"
  /\ UNCHANGED <<sockVars, refused, dropped, thread, own, chunk, echoed, overtaken, disorder>>

TsCreate ==
  /\ server = "up" /\ place = "create"
  /\ \/ thread' = [thread EXCEPT ![arg.port] = "born"] /\ UNCHANGED refused
     \/ refused' = refused \union {arg.port} /\ UNCHANGED thread
  /\ place' = "accept"
  /\ UNCHANGED <<sockVars, arg, dropped, own, chunk, echoed, overtaken, disorder>>

-----------------------------------------------------------------------------
(* handleClient, in the thread made for client c.                          *)

TakeSock(c) ==
  /\ server = "up" /\ thread[c] = "born"
  /\ own' = [own EXCEPT ![c].sock = arg.sock]
  /\ thread' = [thread EXCEPT ![c] = "half"]
  /\ UNCHANGED <<sockVars, place, arg, refused, dropped, chunk, echoed, overtaken, disorder>>

TakePort(c) ==
  /\ server = "up" /\ thread[c] = "half"
  /\ own' = [own EXCEPT ![c].port = arg.port]
  /\ thread' = [thread EXCEPT ![c] = "read"]
  /\ UNCHANGED <<sockVars, place, arg, refused, dropped, chunk, echoed, overtaken, disorder>>

\* The client at the other end of the thread's descriptor.
Peer(c) == file[own[c].sock]

Piece(c) == [of |-> c, lo |-> taken[c], hi |-> taken[c] + ReadSize(c)]

\* Faulty: buf is static, the same for all threads.
TsReadStatic(c) ==
  /\ thread[c] = "read" /\ Reads(Peer(c))
  /\ chunk' = [d \in Client |-> Piece(Peer(c))]
  /\ thread' = [thread EXCEPT ![c] = "echo"]
  /\ UNCHANGED <<server, file, place, arg, refused, dropped, own, echoed, overtaken, disorder>>

TsRead(c) ==
  /\ thread[c] = "read" /\ Reads(Peer(c))
  /\ chunk' = [chunk EXCEPT ![c] = Piece(Peer(c))]
  /\ thread' = [thread EXCEPT ![c] = "echo"]
  /\ UNCHANGED <<server, file, place, arg, refused, dropped, own, echoed, overtaken, disorder>>

\* The end, and an error.
TsReadEnd(c) ==
  /\ thread[c] = "read"
  /\ ReadsEnd(Peer(c)) \/ ReadsError(Peer(c))
  /\ thread' = [thread EXCEPT ![c] = "done"]
  /\ UNCHANGED <<server, file, place, arg, refused, dropped, own, chunk, echoed,
                 overtaken, disorder>>

\* Faulty: the thread leaves after one reply.
TsWriteOnce(c) ==
  /\ thread[c] = "echo" /\ Writes(Peer(c))
  /\ thread' = [thread EXCEPT ![c] = "done"]
  /\ UNCHANGED <<place, arg, refused, dropped, own, chunk, echoed, overtaken, disorder>>

TsWrite(c) ==
  /\ thread[c] = "echo" /\ Writes(Peer(c))
  /\ echoed' = [echoed EXCEPT ![Peer(c)] = @ + chunk[c].hi - chunk[c].lo]
  /\ disorder' = (disorder \/ chunk[c].of # Peer(c) \/ chunk[c].lo # echoed[Peer(c)])
  /\ thread' = [thread EXCEPT ![c] = "read"]
  /\ UNCHANGED <<place, arg, refused, dropped, own, chunk, overtaken>>

-----------------------------------------------------------------------------
TsMain ==
  \/ ThreadStartUp \/ TsAccept \/ TsAcceptFails \/ TsAcceptDrops
  \/ TsFillSock \/ TsFillPort \/ TsCreate

HandleClient(c) ==
  TakeSock(c) \/ TakePort(c) \/ TsRead(c) \/ TsReadEnd(c) \/ TsWrite(c)

ThreadNext ==
  program = "pthread" /\ (TsMain \/ \E c \in Client : HandleClient(c) \/ ThreadClient(c))

ThreadSpec == ThreadInit /\ [][ThreadNext]_<<sockVars, threadVars>>

-----------------------------------------------------------------------------
(* Properties.                                                             *)

Record == [sock : Fd \union {NoFd}, port : Client \union {None}]

ThreadTypeOK ==
  /\ SocketsTypeOK
  /\ place \in Places
  /\ arg \in Record
  /\ refused \subseteq Client /\ dropped \subseteq Client
  /\ thread \in [Client -> Strands]
  /\ own \in [Client -> Record]
  /\ chunk \in [Client -> [of : Client \union {None}, lo : Nat, hi : Nat]]
  /\ echoed \in [Client -> Nat]
  /\ overtaken \in BOOLEAN /\ disorder \in BOOLEAN

\* Unless main has written arg for the next connection before a thread had
\* read it (line 89 against lines 48-50), a thread serves the connection it was
\* made for, under the port of that connection.  It never serves an earlier one.
TsOwn ==
  \A c \in Client :
    /\ thread[c] \in {"half", "read", "echo", "done"} =>
         \E f, g \in Fd : file[f] = c /\ own[c].sock = g /\ f <= g /\ (f = g \/ overtaken)
    /\ thread[c] \in {"read", "echo", "done"} => own[c].port = c \/ overtaken

\* Unless two threads were led to one connection, what a client sends comes
\* back to it and to nobody else, each unit once and in turn.
EchoInOrder == disorder => overtaken

\* SIGPIPE, which the server does not handle, kills it only when a client has
\* left and text of it is read twice (line 65): the first write to a connection
\* that is gone draws the reset, and an end that is read ends the thread.  With
\* two threads at one connection, one can write after the other has read its end.
KilledByFarewell ==
  (program = "pthread" /\ server = "killed") =>
    \E c \in Client : conn[c] = "dead" /\ (taken[c] >= 2 \/ overtaken)

\* Unless a thread was led astray, every client that has connected is served
\* to its last unit, or there was no thread or no descriptor for it (lines 82,
\* 90).
TsServes ==
  \A c \in Client :
    (program = "pthread" /\ conn[c] # "off" /\ Waiting(c) > 0) ~>
      \/ Waiting(c) = 0 \/ overtaken \/ server # "up"
      \/ c \in refused \union dropped \/ (Full /\ ~Accepted(c))
=============================================================================
