---------------------------- MODULE EventServer -----------------------------
(***************************************************************************)
(* libevent-server.cpp: one thread in event_base_dispatch, with an event,  *)
(* allocated on the heap, for every connection.                            *)
(*                                                                         *)
(* The loop collects the events that are ready and calls their functions   *)
(* one after the other; event_del also takes an event out of that round.   *)
(* onRead puts a 0 behind what it has read: with a full buffer that is one *)
(* place behind the array (line 36), which may go unnoticed or not.  bind  *)
(* is not checked (line 75): a server that did not get its port listens on *)
(* another one, which for its clients is a start that failed.              *)
(***************************************************************************)
EXTENDS Sockets

VARIABLES
  events,    \* descriptors an event is registered for
  active     \* what this round has still to call

eventVars == <<events, active>>

SvrFd == -1  \* the listening socket, none of Fd

EventInit == SocketsInit /\ events = {} /\ active = {}

-----------------------------------------------------------------------------
EventClient(c) ==
  (Connect(c) \/ Say(c) \/ Part(c) \/ Break(c)) /\ UNCHANGED eventVars

EventStartUp == StartsOrFails /\ UNCHANGED eventVars

\* event_base_dispatch.
EventDispatch ==
  /\ server = "up" /\ active = {}
  /\ active' = {f \in events : file[f] # None /\ Readable(file[f])}
               \union IF backlog # <<>> THEN {SvrFd} ELSE {}
  /\ active' # {}
  /\ UNCHANGED <<sockVars, events>>

Calling(f) == server = "up" /\ f \in active /\ active' = active \ {f}

\* A connection gets an event; when there is no descriptor the server exits.
OnAccept ==
  /\ Calling(SvrFd)
  /\ \/ \E f \in Fd : AcceptAs(f) /\ events' = events \union {f}
     \/ /\ Full /\ server' = "ended"
        /\ UNCHANGED <<given, conn, backlog, file, sent, taken, events>>

\* Faulty: an event that is not EV_PERSIST.
OnReadTextOnce(f) ==
  /\ Calling(f) /\ f \in events /\ Reads(file[f])
  /\ IF ReadSize(file[f]) = BufLen THEN server' \in {"up", "stray"}
                                   ELSE UNCHANGED server
  /\ events' = events \ {f}
  /\ UNCHANGED file

\* recv, and the 0 behind the text.
OnReadText(f) ==
  /\ Calling(f) /\ f \in events /\ Reads(file[f])
  /\ IF ReadSize(file[f]) = BufLen THEN server' \in {"up", "stray"}
                                   ELSE UNCHANGED server
  /\ UNCHANGED <<file, events>>

\* Faulty: the descriptor is closed, its event stays registered.
OnReadEndNoDel(f) ==
  /\ Calling(f) /\ f \in events
  /\ ReadsEnd(file[f]) \/ ReadsError(file[f])
  /\ file' = [file EXCEPT ![f] = None]
  /\ UNCHANGED <<server, events>>

\* Faulty: a client that has left is not read to its end.
OnReadEndAtOnce(f) ==
  /\ Calling(f) /\ f \in events /\ conn[file[f]] \in {"fin", "rst"}
  /\ events' = events \ {f}
  /\ file' = [file EXCEPT ![f] = None]
  /\ UNCHANGED <<given, server, conn, backlog, sent, taken>>

\* The end, and an error: event_del, delete, close.
OnReadEnd(f) ==
  /\ Calling(f) /\ f \in events
  /\ ReadsEnd(file[f]) \/ ReadsError(file[f])
  /\ events' = events \ {f}
  /\ file' = [file EXCEPT ![f] = None]
  /\ UNCHANGED server

EventStep ==
  \/ EventStartUp \/ EventDispatch \/ OnAccept
  \/ \E f \in Fd : OnReadText(f) \/ OnReadEnd(f)

EventNext ==
  program = "libevent" /\ (EventStep \/ \E c \in Client : EventClient(c))

EventSpec == EventInit /\ [][EventNext]_<<sockVars, eventVars>>

-----------------------------------------------------------------------------
(* Properties.                                                             *)

EventTypeOK ==
  /\ SocketsTypeOK
  /\ events \subseteq Fd
  /\ active \subseteq Fd \union {SvrFd}

\* Exactly the open connections have an event, whoever leaves while others
\* arrive and use its descriptor again in the same round; and only an event
\* that is registered is called.
EventPerConnection ==
  /\ program = "libevent" => \A f \in Fd : f \in events <=> file[f] # None
  /\ active \ {SvrFd} \subseteq events

\* The server exits only when every descriptor belongs to a client whose end
\* it has not seen yet (lines 49-51), and leaves its array only when a client
\* has filled it (line 36).
EventEnds ==
  program = "libevent" =>
    /\ server = "ended" => events = Open
    /\ server = "stray" => \E c \in Client : sent[c] >= BufLen

\* The callbacks keep events and connections together and end the loop for their
\* own reasons only.
EventSafe == EventTypeOK /\ EventPerConnection /\ EventEnds

\* What a client has sent is read to its last unit, a piece at a time, and the
\* connection of a client that leaves is given back.
EventServes ==
  \A c \in Client :
    /\ (program = "libevent" /\ Accepted(c) /\ Waiting(c) > 0)
         ~> (Waiting(c) = 0 \/ server # "up")
    /\ (program = "libevent" /\ Accepted(c) /\ conn[c] \in {"fin", "rst"})
         ~> (~Accepted(c) \/ server # "up")
=============================================================================
