---------------------------- MODULE EpollServer -----------------------------
(***************************************************************************)
(* epoll_server.c: one thread around epoll_wait, edge triggered.           *)
(*                                                                         *)
(* Each connection is given a record that holds its descriptor, and the    *)
(* events of the connection are to lead to that record (data.ptr).  main   *)
(* fills one struct epoll_event, ev, for every call of epoll_ctl: ev's     *)
(* pointer is the record allocated last.  After a read, the code writes    *)
(* the descriptor it has read from into the record ev points to, and       *)
(* registers that record for it (lines 170-172), whoever the record is of. *)
(* A record that is freed may be given out again; a use of a freed record  *)
(* ends the behaviour, with server = "stray".                              *)
(*                                                                         *)
(* epoll_wait returns at most one event per descriptor.  Their order, that *)
(* of their arrival, is any order here.  A descriptor is reported once per *)
(* arrival (edge) and when epoll_ctl finds it ready.                       *)
(***************************************************************************)
EXTENDS Sockets

CONSTANTS
  Rec,       \* where malloc can put a record
  Listener   \* the record of the listening socket

ASSUME EpollAssumption == Listener \notin Rec

VARIABLES
  live,      \* the records allocated
  recfd,     \* fd of each record
  last,      \* ev.data.ptr
  entry,     \* what is registered for each descriptor: record, EPOLLOUT
  edge,      \* descriptors epoll_wait will report
  evs,       \* events of this round not yet handled
  mixed,     \* history: one other than the last to connect was heard
  owes       \* history: clients heard since they were last written to

epollVars == <<live, recfd, last, entry, edge, evs, mixed, owes>>

NoEntry == [ptr |-> Listener, out |-> FALSE]
Event == [ptr : Rec \union {Listener}, in : BOOLEAN, out : BOOLEAN]

\* The listening socket has a record and is registered for EPOLLIN.
EpollInit ==
  /\ SocketsInit
  /\ live = {} /\ recfd = [r \in Rec |-> NoFd] /\ last = Listener
  /\ entry = [f \in Fd |-> NoEntry] /\ edge = {} /\ evs = {}
  /\ mixed = FALSE /\ owes = {}

-----------------------------------------------------------------------------
(* What clients do is an edge at the descriptor of their connection.       *)

EpollClient(c) ==
  /\ Connect(c) \/ Say(c) \/ Part(c) \/ Break(c)
  /\ edge' = edge \union {f \in Fd : file[f] = c}
  /\ UNCHANGED <<live, recfd, last, entry, evs, mixed, owes>>

-----------------------------------------------------------------------------
EpollStartUp == StartsOrFails /\ UNCHANGED epollVars

Reported(f) ==
  [ptr |-> entry[f].ptr, in |-> Readable(file[f]), out |-> entry[f].out]

Arrival == [ptr |-> Listener, in |-> TRUE, out |-> FALSE]

EpollWait ==
  /\ server = "up" /\ evs = {}
  /\ evs' = {Reported(f) : f \in {g \in edge : Readable(file[g]) \/ entry[g].out}}
            \union IF backlog # <<>> THEN {Arrival} ELSE {}
  /\ evs' # {}
  /\ edge' = {}
  /\ UNCHANGED <<sockVars, live, recfd, last, entry, mixed, owes>>

\* A record, in memory that may have been a record before.
Allocate(r, f) ==
  /\ r \notin live
  /\ live' = live \union {r} /\ recfd' = [recfd EXCEPT ![r] = f]

DelBuf(r) == live' = live \ {r}

Taking(e) == server = "up" /\ e \in evs /\ evs' = evs \ {e}

\* Faulty: the record allocated for the connection before is used again.
EpollAcceptNoAllocate(e) ==
  /\ Taking(e) /\ e.ptr = Listener
  /\ \E f \in Fd, r \in Rec :
       /\ AcceptAs(f)
       /\ IF last \in live THEN r = last ELSE r \notin live
       /\ live' = live \union {r} /\ recfd' = [recfd EXCEPT ![r] = f]
       /\ last' = r
       /\ entry' = [entry EXCEPT ![f] = [ptr |-> r, out |-> FALSE]]
       /\ edge' = IF Readable(Head(backlog)) THEN edge \union {f} ELSE edge
  /\ UNCHANGED <<mixed, owes>>

\* The listening socket: accept, Allocate, EPOLL_CTL_ADD.
EpollAccept(e) ==
  /\ Taking(e) /\ e.ptr = Listener
  /\ \E f \in Fd, r \in Rec :
       /\ AcceptAs(f) /\ Allocate(r, f)
       /\ last' = r
       /\ entry' = [entry EXCEPT ![f] = [ptr |-> r, out |-> FALSE]]
       /\ edge' = IF Readable(Head(backlog)) THEN edge \union {f} ELSE edge
  /\ UNCHANGED <<mixed, owes>>

\* accept fails for want of a descriptor.
EpollAcceptFails(e) ==
  /\ Taking(e) /\ e.ptr = Listener /\ Full
  /\ UNCHANGED <<sockVars, live, recfd, last, entry, edge, mixed, owes>>

\* The event leads to a record that was freed.
EpollFreed(e) ==
  /\ Taking(e) /\ e.ptr # Listener /\ e.ptr \notin live
  /\ server' = "stray"
  /\ UNCHANGED <<given, conn, backlog, file, sent, taken,
                 live, recfd, last, entry, edge, mixed, owes>>

\* What the event leads to: a descriptor, and the client behind it.
Leads(e, f) == e.ptr \in live /\ recfd[e.ptr] = f

\* Faulty: no epoll_ctl after a read.
EpollReadNoMod(e) ==
  /\ Taking(e) /\ e.in
  /\ \E f \in Fd :
       /\ Leads(e, f) /\ file[f] # None /\ Reads(file[f])
       /\ mixed' = (mixed \/ last # e.ptr)
       /\ IF last \in live
          THEN recfd' = [recfd EXCEPT ![last] = f] /\ UNCHANGED server
          ELSE server' = "stray" /\ UNCHANGED recfd
       /\ owes' = owes \union {file[f]}
  /\ UNCHANGED <<file, live, last, entry, edge>>

\* EPOLLIN: text.  ev's record is given the descriptor and registered for it,
\* and the descriptor, being writable, is reported again.
EpollRead(e) ==
  /\ Taking(e) /\ e.in
  /\ \E f \in Fd :
       /\ Leads(e, f) /\ file[f] # None /\ Reads(file[f])
       /\ mixed' = (mixed \/ last # e.ptr)
       /\ IF last \in live
          THEN /\ recfd' = [recfd EXCEPT ![last] = f]
               /\ entry' = [entry EXCEPT ![f] = [ptr |-> last, out |-> TRUE]]
               /\ edge' = edge \union {f}
               /\ UNCHANGED server
          ELSE server' = "stray" /\ UNCHANGED <<recfd, entry, edge>>
       /\ owes' = owes \union {file[f]}
  /\ UNCHANGED <<file, live, last>>

\* EPOLLIN: the end.  DelBuf frees the record, close also unregisters.
EpollQuit(e) ==
  /\ Taking(e) /\ e.in
  /\ \E f \in Fd :
       /\ Leads(e, f) /\ file[f] # None /\ ReadsEnd(file[f])
       /\ DelBuf(e.ptr)
       /\ file' = [file EXCEPT ![f] = None]
       /\ edge' = edge \ {f}
       /\ owes' = owes \ {file[f]}
  /\ UNCHANGED <<server, recfd, last, entry, mixed>>

\* EPOLLIN: read fails, because of a reset or because the record leads to a
\* descriptor that is closed; nothing is freed or closed.
EpollReadFails(e) ==
  /\ Taking(e) /\ e.in
  /\ \E f \in Fd :
       /\ Leads(e, f)
       /\ IF file[f] = None THEN UNCHANGED sockVars
          ELSE ReadsError(file[f]) /\ UNCHANGED <<server, file>>
  /\ UNCHANGED <<live, recfd, last, entry, edge, mixed, owes>>

\* EPOLLOUT without EPOLLIN: the page is written.
EpollWrite(e) ==
  /\ Taking(e) /\ ~e.in /\ e.out
  /\ \E f \in Fd :
       /\ Leads(e, f)
       /\ IF file[f] = None THEN UNCHANGED <<sockVars, owes>>
          ELSE Writes(file[f]) /\ owes' = owes \ {file[f]}
  /\ UNCHANGED <<live, recfd, last, entry, edge, mixed>>

-----------------------------------------------------------------------------
EpollStep ==
  \/ EpollStartUp \/ EpollWait
  \/ \E e \in Event :
       \/ EpollAccept(e) \/ EpollAcceptFails(e) \/ EpollFreed(e)
       \/ EpollRead(e) \/ EpollQuit(e) \/ EpollReadFails(e) \/ EpollWrite(e)

EpollNext ==
  program = "epoll" /\ (EpollStep \/ \E c \in Client : EpollClient(c))

EpollSpec == EpollInit /\ [][EpollNext]_<<sockVars, epollVars>>

-----------------------------------------------------------------------------
(* Properties.                                                             *)

EpollTypeOK ==
  /\ SocketsTypeOK
  /\ live \subseteq Rec
  /\ recfd \in [Rec -> Fd \union {NoFd}]
  /\ last \in Rec \union {Listener}
  /\ entry \in [Fd -> [ptr : Rec \union {Listener}, out : BOOLEAN]]
  /\ edge \subseteq Fd
  /\ evs \subseteq Event
  /\ mixed \in BOOLEAN
  /\ owes \subseteq Client

\* Until somebody other than the last to connect is heard, the events of each
\* connection lead to a record of its own that holds its descriptor, and no
\* freed record is used, however connections come, go and use descriptors and
\* records again.  Line 170 of epoll_server.c ends that.
OwnRecord ==
  (program = "epoll" /\ ~mixed) =>
    /\ server # "stray"
    /\ \A f \in Fd : file[f] # None =>
         /\ entry[f].ptr \in live
         /\ recfd[entry[f].ptr] = f

\* Until then what a client sends is read to its last unit, although each
\* arrival is reported once only and one read may leave some: EPOLL_CTL_MOD
\* (line 172) has the rest reported.
EpollHears ==
  \A c \in Client :
    (program = "epoll" /\ Accepted(c) /\ Waiting(c) > 0)
      ~> (Waiting(c) = 0 \/ mixed \/ server # "up")

\* Until then a client that leaves has its descriptor closed (line 162).
EpollCloses ==
  \A c \in Client :
    (program = "epoll" /\ Accepted(c) /\ conn[c] = "fin")
      ~> (~Accepted(c) \/ mixed \/ server # "up")

\* Until then a client that was heard is written to, although EPOLLIN is looked
\* at first (line 148) and its text may keep coming, or it has left.
EpollAnswers ==
  \A c \in Client :
    c \in owes ~> (c \notin owes \/ conn[c] # "on" \/ mixed \/ server # "up")

\* Until somebody other than the last to connect is heard, the loop keeps its
\* descriptors, records and events together.
EpollSafe == EpollTypeOK /\ OwnRecord

\* Until then every client is heard, answered and, when it leaves, forgotten.
EpollServes == EpollHears /\ EpollCloses /\ EpollAnswers
=============================================================================
