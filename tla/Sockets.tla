------------------------------ MODULE Sockets -------------------------------
(***************************************************************************)
(* What the small TCP servers of the repository have around them: clients  *)
(* that connect, send and leave, a listening socket, and the table of      *)
(* descriptors of the server.  None of it is code of the repository; it is *)
(* what that code relies on.                                               *)
(*                                                                         *)
(* A client sends units of text, numbered: it has sent units 1 .. sent[c], *)
(* and the server has read units 1 .. taken[c].  A read returns what is    *)
(* there, BufLen units at most.  After the last unit it returns 0 if the   *)
(* client has closed, and an error, once, if the connection was reset.  A  *)
(* write to a client that has closed is answered by a reset, and a write   *)
(* after that raises SIGPIPE.                                              *)
(***************************************************************************)
EXTENDS Integers, Sequences, FiniteSets

CONSTANTS
  Client,    \* clients, each connects once
  None,      \* no client
  Fd,        \* descriptors accept can return, least first
  BufLen,    \* units that fill the server's buffer
  MaxSends   \* bound: units each client sends

ASSUME SocketsAssumption ==
  /\ None \notin Client
  /\ Fd \subseteq Nat /\ IsFiniteSet(Fd)
  /\ BufLen \in Nat \ {0}
  /\ \A c \in Client : MaxSends[c] \in Nat

VARIABLES
  program,   \* which of the servers it is
  most,      \* the last descriptor it may open, RLIMIT_NOFILE
  server,    \* of the process: see ServerStates
  conn,      \* each client's end of its connection
  backlog,   \* connections not accepted yet
  file,      \* the client behind each descriptor of the server
  sent,      \* how many units each client has sent
  taken      \* how many of them the server has read

given == <<program, most>>
sockVars == <<given, server, conn, backlog, file, sent, taken>>

NoFd == -1

\* "echo" is pthreadServer's server with the clients of its client.c.
Programs == {"epoll", "libevent", "pthread", "echo", "UN", "1V1", "OOB"}

\* "failed" is a start that did not succeed, "ended" a return from main or an
\* exit, "killed" SIGPIPE, "stray" an access outside of what was allocated.
ServerStates == {"starting", "failed", "up", "ended", "killed", "stray"}

\* "fin" has closed, "rst" was reset, "dead" was reset and the error is gone.
ConnStates == {"off", "on", "fin", "rst", "dead"}

SocketsTypeOK ==
  /\ program \in Programs /\ most \in Fd
  /\ server \in ServerStates
  /\ conn \in [Client -> ConnStates]
  /\ backlog \in Seq(Client)
  /\ file \in [Fd -> Client \union {None}]
  /\ sent \in [Client -> Nat] /\ taken \in [Client -> Nat]
  /\ \A c \in Client : taken[c] <= sent[c] /\ sent[c] <= MaxSends[c]

SocketsInit ==
  /\ program \in Programs /\ most \in Fd
  /\ server = "starting"
  /\ conn = [c \in Client |-> "off"]
  /\ backlog = <<>>
  /\ file = [f \in Fd |-> None]
  /\ sent = [c \in Client |-> 0]
  /\ taken = [c \in Client |-> 0]

-----------------------------------------------------------------------------
(* Clients.                                                                *)

Connect(c) ==
  /\ server = "up" /\ conn[c] = "off"
  /\ conn' = [conn EXCEPT ![c] = "on"]
  /\ backlog' = Append(backlog, c)
  /\ UNCHANGED <<given, server, file, sent, taken>>

Say(c) ==
  /\ conn[c] = "on" /\ sent[c] < MaxSends[c]
  /\ sent' = [sent EXCEPT ![c] = @ + 1]
  /\ UNCHANGED <<given, server, conn, backlog, file, taken>>

Part(c) ==
  /\ conn[c] = "on"
  /\ conn' = [conn EXCEPT ![c] = "fin"]
  /\ UNCHANGED <<given, server, backlog, file, sent, taken>>

Break(c) ==
  /\ conn[c] = "on"
  /\ conn' = [conn EXCEPT ![c] = "rst"]
  /\ UNCHANGED <<given, server, backlog, file, sent, taken>>

-----------------------------------------------------------------------------
(* Calls of the server.  Each of them leaves something of sockVars to be   *)
(* said by its caller: what close and exit do is left to the caller too.   *)

Accepted(c) == \E f \in Fd : file[f] = c
Open == {f \in Fd : f <= most}
Full == \A f \in Open : file[f] # None
LowestFree(f) == f \in Open /\ file[f] = None /\ \A g \in Fd : g < f => file[g] # None

\* socket, setsockopt, bind, listen, and what else a server sets up.
StartsOrFails ==
  /\ server = "starting"
  /\ server' \in {"up", "failed"}
  /\ UNCHANGED <<given, conn, backlog, file, sent, taken>>

AcceptAs(f) ==
  /\ server = "up" /\ backlog # <<>> /\ LowestFree(f)
  /\ file' = [file EXCEPT ![f] = Head(backlog)]
  /\ backlog' = Tail(backlog)
  /\ UNCHANGED <<given, server, conn, sent, taken>>

Waiting(c) == sent[c] - taken[c]
ReadSize(c) == IF Waiting(c) < BufLen THEN Waiting(c) ELSE BufLen
Readable(c) == Waiting(c) > 0 \/ conn[c] \in {"fin", "rst", "dead"}

\* The three outcomes of a read from client c's connection.
Reads(c) ==
  /\ server = "up" /\ Waiting(c) > 0
  /\ taken' = [taken EXCEPT ![c] = @ + ReadSize(c)]
  /\ UNCHANGED <<given, conn, backlog, sent>>

ReadsEnd(c) ==
  /\ server = "up" /\ Waiting(c) = 0 /\ conn[c] \in {"fin", "dead"}
  /\ UNCHANGED <<given, conn, backlog, sent, taken>>

ReadsError(c) ==
  /\ server = "up" /\ Waiting(c) = 0 /\ conn[c] = "rst"
  /\ conn' = [conn EXCEPT ![c] = "dead"]
  /\ UNCHANGED <<given, backlog, sent, taken>>

\* A write to client c's connection.
Writes(c) ==
  /\ server = "up"
  /\ IF conn[c] = "dead"
     THEN server' = "killed" /\ UNCHANGED conn
     ELSE /\ conn' = [conn EXCEPT ![c] = IF @ = "on" THEN "on" ELSE "dead"]
          /\ UNCHANGED server
  /\ UNCHANGED <<given, backlog, file, sent, taken>>

-----------------------------------------------------------------------------
(* What the servers make of it.                                            *)

\* The servers that close a connection when its client has left; the others close
\* none.
Closing == {"epoll", "libevent"}

\* Where a client is.  Who has connected, does not wait and has no descriptor has
\* been seen out by a server that closes, and was dropped by accept in the others.
Situation(c) ==
  IF conn[c] = "off" THEN "away"
  ELSE IF \E i \in DOMAIN backlog : backlog[i] = c THEN "queued"
  ELSE IF Accepted(c) THEN "inside"
  ELSE IF program \in Closing THEN "left" ELSE "refused"

Door == INSTANCE FirstCome WITH
  queue <- backlog,
  place <- [c \in Client |-> Situation(c)],
  said  <- sent,
  heard <- taken

\* Clients are taken in the order in which they connected, what they send is read
\* once, in turn and a buffer at a time, and no connection is closed before its
\* client has left and everything of it was read: also by records that lead to the
\* wrong connection, or threads that were led astray.
FirstComeServed == Door!Spec
=============================================================================
