---------------------------- MODULE ServerProofs ----------------------------
(***************************************************************************)
(* Theorems about the small TCP servers, for any number of clients,        *)
(* descriptors and records, any buffer and any amount of text: what each   *)
(* of them keeps together, and that all of them implement FirstCome.tla.   *)
(***************************************************************************)
EXTENDS EpollServer, EventServer, EchoClient, LineServer, TLAPS

-----------------------------------------------------------------------------
(* The sockets.                                                            *)

LEMMA InitTypes == SocketsInit => SocketsTypeOK
BY SocketsAssumption DEF SocketsInit, SocketsTypeOK, ServerStates, ConnStates

LEMMA ClientTypes ==
  ASSUME SocketsTypeOK, NEW c \in Client, Connect(c) \/ Say(c) \/ Part(c) \/ Break(c)
  PROVE  SocketsTypeOK'
<1>1. CASE Connect(c)
  BY <1>1 DEF Connect, SocketsTypeOK, ConnStates, given
<1>2. CASE Say(c)
  BY <1>2, SocketsAssumption DEF Say, SocketsTypeOK, given
<1>3. CASE Part(c)
  BY <1>3 DEF Part, SocketsTypeOK, ConnStates, given
<1>4. CASE Break(c)
  BY <1>4 DEF Break, SocketsTypeOK, ConnStates, given
<1>. QED BY <1>1, <1>2, <1>3, <1>4

LEMMA StartTypes == SocketsTypeOK /\ StartsOrFails => SocketsTypeOK'
BY DEF StartsOrFails, SocketsTypeOK, ServerStates, given

LEMMA AcceptTypes ==
  ASSUME SocketsTypeOK, NEW f \in Fd, AcceptAs(f)
  PROVE  SocketsTypeOK' /\ Head(backlog) \in Client
BY DEF AcceptAs, SocketsTypeOK, given

LEMMA ReadTypes ==
  ASSUME SocketsTypeOK, NEW c \in Client, Reads(c) \/ ReadsEnd(c) \/ ReadsError(c),
         server' \in ServerStates, file' \in [Fd -> Client \union {None}]
  PROVE  SocketsTypeOK'
<1>1. CASE Reads(c)
  <2>1. Waiting(c) \in Nat /\ ReadSize(c) \in Nat /\ taken[c] + ReadSize(c) <= sent[c]
    BY SocketsAssumption DEF SocketsTypeOK, Waiting, ReadSize
  <2>2. /\ taken' \in [Client -> Nat] /\ taken'[c] = taken[c] + ReadSize(c)
        /\ \A d \in Client : d # c => taken'[d] = taken[d]
    BY <1>1, <2>1 DEF Reads, SocketsTypeOK
  <2>. QED BY <1>1, <2>1, <2>2 DEF Reads, SocketsTypeOK, given
<1>2. CASE ReadsEnd(c)
  BY <1>2 DEF ReadsEnd, SocketsTypeOK, given
<1>3. CASE ReadsError(c)
  BY <1>3 DEF ReadsError, SocketsTypeOK, ConnStates, given
<1>. QED BY <1>1, <1>2, <1>3

LEMMA WriteTypes ==
  ASSUME SocketsTypeOK, NEW c \in Client, Writes(c)
  PROVE  SocketsTypeOK'
<1>1. conn' \in [Client -> ConnStates] /\ server' \in ServerStates
  BY DEF Writes, SocketsTypeOK, ConnStates, ServerStates
<1>. QED BY <1>1 DEF Writes, SocketsTypeOK, given

\* A client that has connected is in the backlog or behind a descriptor, in one
\* place; one that has not is nowhere and has sent nothing.
Once ==
  /\ \A c \in Client : conn[c] = "off" =>
       /\ \A f \in Fd : file[f] # c
       /\ \A i \in DOMAIN backlog : backlog[i] # c
       /\ sent[c] = 0
  /\ \A i, j \in DOMAIN backlog : backlog[i] = backlog[j] => i = j
  /\ \A f \in Fd, i \in DOMAIN backlog : file[f] # backlog[i]
  /\ \A f, g \in Fd : file[f] = file[g] /\ file[f] # None => f = g

\* The descriptors of a server that closes none are used up from below.
NoGap == \A f, g \in Fd : f < g /\ file[g] # None => file[f] # None

LEMMA OnceInitial == SocketsInit => Once /\ NoGap
BY SocketsAssumption DEF SocketsInit, Once, NoGap

LEMMA OnceConnect ==
  ASSUME SocketsTypeOK, Once, NEW c \in Client, Connect(c)
  PROVE  Once'
<1>1. /\ backlog \in Seq(Client) /\ backlog' = Append(backlog, c) /\ file' = file /\ sent' = sent
      /\ conn[c] = "off" /\ conn'[c] = "on" /\ \A d \in Client : d # c => conn'[d] = conn[d]
  BY DEF Connect, SocketsTypeOK
<1>2. /\ DOMAIN backlog = 1 .. Len(backlog) /\ DOMAIN backlog' = 1 .. Len(backlog) + 1
      /\ Len(backlog) \in Nat
      /\ \A i \in DOMAIN backlog : backlog'[i] = backlog[i]
      /\ backlog'[Len(backlog) + 1] = c
  BY <1>1
<1>3. \A i \in DOMAIN backlog' : i \notin DOMAIN backlog => i = Len(backlog) + 1
  <2>1. \A n \in Nat : \A i \in 1 .. n + 1 : i \notin 1 .. n => i = n + 1
    OBVIOUS
  <2>. QED BY <1>2, <2>1
<1>4. \A f \in Fd : file[f] # c
  BY <1>1 DEF Once
<1>5. \A i \in DOMAIN backlog : backlog[i] # c
  BY <1>1 DEF Once
<1>6. \A i, j \in DOMAIN backlog' : backlog'[i] = backlog'[j] => i = j
  BY <1>2, <1>3, <1>5 DEF Once
<1>7. \A f \in Fd, i \in DOMAIN backlog' : file'[f] # backlog'[i]
  BY <1>1, <1>2, <1>3, <1>4 DEF Once
<1>8. ASSUME NEW d \in Client, conn'[d] = "off"
      PROVE  /\ \A f \in Fd : file'[f] # d
             /\ \A i \in DOMAIN backlog' : backlog'[i] # d
             /\ sent'[d] = 0
  BY <1>1, <1>2, <1>3, <1>8 DEF Once
<1>. QED BY <1>1, <1>6, <1>7, <1>8 DEF Once

\* What does not move a client, nor lets one that has not connected send.
LEMMA OnceSame ==
  ASSUME Once, UNCHANGED <<backlog, file>>,
         \A c \in Client : conn'[c] = "off" => conn[c] = "off" /\ sent'[c] = sent[c]
  PROVE  Once'
BY DEF Once

LEMMA OnceDrop ==
  ASSUME SocketsTypeOK, Once, backlog # <<>>, backlog' = Tail(backlog), UNCHANGED <<conn, sent>>,
         \A f \in Fd : file'[f] = file[f]
  PROVE  Once'
<1>1. /\ DOMAIN backlog = 1 .. Len(backlog) /\ DOMAIN backlog' = 1 .. Len(backlog) - 1
      /\ Len(backlog) \in Nat
      /\ \A i \in DOMAIN backlog' : i + 1 \in DOMAIN backlog /\ backlog'[i] = backlog[i + 1]
  BY DEF SocketsTypeOK
<1>2. \A i, j \in DOMAIN backlog' : backlog'[i] = backlog'[j] => i = j
  BY <1>1 DEF Once
<1>. QED BY <1>1, <1>2 DEF Once

LEMMA OnceTakes ==
  ASSUME SocketsTypeOK, Once, NEW f \in Fd, AcceptAs(f)
  PROVE  Once'
<1>. DEFINE c == Head(backlog)
<1>1. /\ backlog # <<>> /\ backlog' = Tail(backlog) /\ UNCHANGED <<conn, sent>>
      /\ c \in Client /\ c = backlog[1] /\ 1 \in DOMAIN backlog /\ c # None
      /\ file'[f] = c /\ \A g \in Fd : g # f => file'[g] = file[g]
  BY SocketsAssumption DEF AcceptAs, LowestFree, SocketsTypeOK
<1>2. /\ DOMAIN backlog = 1 .. Len(backlog) /\ DOMAIN backlog' = 1 .. Len(backlog) - 1
      /\ Len(backlog) \in Nat
      /\ \A i \in DOMAIN backlog' :
           i + 1 \in DOMAIN backlog /\ i + 1 # 1 /\ backlog'[i] = backlog[i + 1]
  BY <1>1 DEF SocketsTypeOK
<1>3. \A i \in DOMAIN backlog' : backlog'[i] # c
  BY <1>1, <1>2 DEF Once
<1>4. \A g \in Fd : file[g] # c
  BY <1>1 DEF Once
<1>5. \A i, j \in DOMAIN backlog' : backlog'[i] = backlog'[j] => i = j
  BY <1>2 DEF Once
<1>6. \A g \in Fd, i \in DOMAIN backlog' : file'[g] # backlog'[i]
  BY <1>1, <1>2, <1>3 DEF Once
<1>7. \A g, h \in Fd : file'[g] = file'[h] /\ file'[g] # None => g = h
  BY <1>1, <1>4 DEF Once
<1>8. \A d \in Client : conn'[d] = "off" =>
        /\ \A g \in Fd : file'[g] # d
        /\ \A i \in DOMAIN backlog' : backlog'[i] # d
        /\ sent'[d] = 0
  BY <1>1, <1>2 DEF Once
<1>. QED BY <1>5, <1>6, <1>7, <1>8 DEF Once

LEMMA OnceAccept ==
  ASSUME SocketsTypeOK, Once, NoGap, NEW f \in Fd, AcceptAs(f)
  PROVE  Once' /\ NoGap' /\ Newest(f)'
<1>. DEFINE c == Head(backlog)
<1>1. /\ c \in Client /\ c # None
      /\ file[f] = None /\ \A g \in Fd : g < f => file[g] # None
      /\ file'[f] = c /\ \A g \in Fd : g # f => file'[g] = file[g]
  BY SocketsAssumption DEF AcceptAs, LowestFree, SocketsTypeOK
<1>2. \A g \in Fd : g > f => file[g] = None
  BY <1>1, SocketsAssumption DEF NoGap
<1>3. Newest(f)'
  BY <1>1, <1>2, SocketsAssumption DEF Newest
<1>4. NoGap'
  BY <1>1, <1>2, SocketsAssumption DEF NoGap
<1>. QED BY <1>3, <1>4, OnceTakes

-----------------------------------------------------------------------------
(* libevent-server.cpp.                                                    *)

EventInv ==
  /\ EventTypeOK
  /\ \A f \in Fd : f \in events <=> file[f] # None
  /\ events \subseteq Open
  /\ active \ {SvrFd} \subseteq events
  /\ server = "ended" => events = Open
  /\ server = "stray" => \E c \in Client : sent[c] >= BufLen

LEMMA EventInitial == EventInit => EventInv
BY InitTypes DEF EventInit, EventInv, EventTypeOK, SocketsInit

\* Only Say changes what a client has sent.
LEMMA SentGrows ==
  ASSUME sent \in [Client -> Nat], NEW c \in Client,
         sent' = sent \/ sent' = [sent EXCEPT ![c] = @ + 1], NEW d \in Client
  PROVE  sent'[d] >= sent[d]
<1>1. sent[d] \in Nat /\ sent'[d] \in {sent[d], sent[d] + 1}
  OBVIOUS
<1>. QED BY <1>1

LEMMA EventStepInv ==
  EventInv /\ [EventNext]_<<sockVars, eventVars>> => EventInv'
<1>. SUFFICES ASSUME EventInv, [EventNext]_<<sockVars, eventVars>> PROVE EventInv'
  OBVIOUS
<1>. USE DEF EventInv, EventTypeOK
<1>1. ASSUME NEW c \in Client, EventClient(c) PROVE EventInv'
  <2>1. SocketsTypeOK'
    BY <1>1, ClientTypes DEF EventClient
  <2>2. UNCHANGED <<server, file, most, events, active>>
    BY <1>1 DEF EventClient, Connect, Say, Part, Break, given, eventVars
  <2>4. sent' = sent \/ sent' = [sent EXCEPT ![c] = @ + 1]
    BY <1>1 DEF EventClient, Connect, Say, Part, Break
  <2>5. \A d \in Client : sent'[d] >= sent[d]
    <3>1. sent \in [Client -> Nat]
      BY DEF SocketsTypeOK
    <3>. QED BY <2>4, <3>1, SentGrows
  <2>3. Open' = Open
    BY <2>2 DEF Open
  <2>. QED BY <2>1, <2>2, <2>3, <2>5, SocketsAssumption DEF SocketsTypeOK
<1>2. ASSUME EventStartUp PROVE EventInv'
  <2>1. SocketsTypeOK'
    BY <1>2, StartTypes DEF EventStartUp
  <2>. QED BY <1>2, <2>1 DEF EventStartUp, StartsOrFails, given, eventVars, Open
<1>3. ASSUME EventDispatch PROVE EventInv'
  BY <1>3 DEF EventDispatch, sockVars, given, Open, SocketsTypeOK
<1>4. ASSUME OnAccept PROVE EventInv'
  <2>1. CASE \E f \in Fd : AcceptAs(f) /\ events' = events \union {f}
    <3>1. PICK f \in Fd : AcceptAs(f) /\ events' = events \union {f}
      BY <2>1
    <3>2. SocketsTypeOK' /\ Head(backlog) \in Client
      BY <3>1, AcceptTypes
    <3>3. /\ server' = "up" /\ most' = most /\ file' = [file EXCEPT ![f] = Head(backlog)]
          /\ f \in Open
      BY <3>1 DEF AcceptAs, given, LowestFree
    <3>4. Open' = Open
      BY <3>3 DEF Open
    <3>5. active' = active \ {SvrFd}
      BY <1>4 DEF OnAccept, Calling
    <3>. QED BY <3>1, <3>2, <3>3, <3>4, <3>5, SocketsAssumption DEF SocketsTypeOK
  <2>2. CASE Full /\ server' = "ended" /\ UNCHANGED <<given, conn, backlog, file, sent, taken, events>>
    BY <1>4, <2>2 DEF OnAccept, Calling, Full, given, Open, SocketsTypeOK, ServerStates
  <2>. QED BY <1>4, <2>1, <2>2 DEF OnAccept
<1>5. ASSUME NEW f \in Fd, OnReadText(f) PROVE EventInv'
  <2>1. file[f] \in Client /\ Reads(file[f]) /\ server' \in {"up", "stray"}
    BY <1>5 DEF OnReadText, Calling, SocketsTypeOK, Reads
  <2>2. SocketsTypeOK'
    BY <1>5, <2>1, ReadTypes DEF OnReadText, SocketsTypeOK, ServerStates
  <2>3. server' = "stray" => sent[file[f]] >= BufLen
    BY <1>5, <2>1, SocketsAssumption
       DEF OnReadText, Calling, ReadSize, Waiting, SocketsTypeOK
  <2>. QED BY <1>5, <2>1, <2>2, <2>3 DEF OnReadText, Calling, Reads, given, Open
<1>6. ASSUME NEW f \in Fd, OnReadEnd(f) PROVE EventInv'
  <2>1. file[f] \in Client
    BY <1>6 DEF OnReadEnd, Calling, SocketsTypeOK
  <2>2. file' = [file EXCEPT ![f] = None] /\ server' = "up" /\ most' = most
    BY <1>6 DEF OnReadEnd, Calling, ReadsEnd, ReadsError, given
  <2>3. SocketsTypeOK'
    BY <1>6, <2>1, <2>2, ReadTypes DEF OnReadEnd, SocketsTypeOK, ServerStates
  <2>. QED BY <1>6, <2>1, <2>2, <2>3 DEF OnReadEnd, Calling, Open, SocketsTypeOK
<1>7. CASE UNCHANGED <<sockVars, eventVars>>
  BY <1>7 DEF sockVars, given, eventVars, Open, SocketsTypeOK
<1>. QED BY <1>1, <1>2, <1>3, <1>4, <1>5, <1>6, <1>7 DEF EventNext, EventStep

\* libevent-server.cpp: exactly the open connections have an event, whatever leaves
\* and arrives in one round (lines 22-34, 42-60); the loop exits only with every
\* descriptor in use, and leaves its array only when a client has filled it (lines
\* 36, 49-51).
THEOREM OneEventEach == EventSpec => []EventSafe
<1>1. EventInv => EventSafe
  BY DEF EventInv, EventSafe, EventPerConnection, EventEnds
<1>. QED BY <1>1, EventInitial, EventStepInv, PTL DEF EventSpec

-----------------------------------------------------------------------------
(* epoll_server.c.                                                         *)

\* Until it is mixed: the open descriptors and the live records belong together
\* one by one, only open descriptors are reported, and the events of a round lead
\* to live records, one event to each.
Paired ==
  /\ server # "stray"
  /\ \A f \in Fd : file[f] # None =>
       entry[f].ptr \in live /\ recfd[entry[f].ptr] = f
  /\ \A r \in live :
       recfd[r] \in Fd /\ file[recfd[r]] # None /\ entry[recfd[r]].ptr = r
  /\ \A f \in edge : file[f] # None
  /\ \A e \in evs : e.ptr # Listener => e.ptr \in live
  /\ \A d, e \in evs : d.ptr = e.ptr => d = e

EpollInv == EpollTypeOK /\ (~mixed => Paired)

LEMMA EpollInitial == EpollInit => EpollInv
<1>. SUFFICES ASSUME EpollInit PROVE EpollInv
  OBVIOUS
<1>1. EpollTypeOK
  BY InitTypes DEF EpollInit, EpollTypeOK, NoEntry
<1>2. Paired
  BY DEF EpollInit, Paired, SocketsInit
<1>. QED BY <1>1, <1>2 DEF EpollInv

LEMMA EpollStepInv ==
  EpollInv /\ [EpollNext]_<<sockVars, epollVars>> => EpollInv'
<1>. SUFFICES ASSUME EpollInv, [EpollNext]_<<sockVars, epollVars>> PROVE EpollInv'
  OBVIOUS
<1>. USE EpollAssumption DEF EpollInv
<1>1. ASSUME NEW c \in Client, EpollClient(c) PROVE EpollInv'
  <2>1. SocketsTypeOK'
    BY <1>1, ClientTypes DEF EpollClient, EpollTypeOK
  <2>2. UNCHANGED <<server, file>>
    BY <1>1 DEF EpollClient, Connect, Say, Part, Break
  <2>3. EpollTypeOK'
    BY <1>1, <2>1 DEF EpollClient, EpollTypeOK
  <2>4. ~mixed => Paired'
    BY <1>1, <2>2, SocketsAssumption DEF EpollClient, EpollTypeOK, Paired
  <2>. QED BY <1>1, <2>3, <2>4 DEF EpollClient
<1>2. ASSUME EpollStartUp PROVE EpollInv'
  <2>1. SocketsTypeOK'
    BY <1>2, StartTypes DEF EpollStartUp, EpollTypeOK
  <2>. QED BY <1>2, <2>1 DEF EpollStartUp, StartsOrFails, epollVars, EpollTypeOK, Paired
<1>3. ASSUME EpollWait PROVE EpollInv'
  <2>1. UNCHANGED <<sockVars, live, recfd, last, entry, mixed, owes>> /\ edge' = {}
    BY <1>3 DEF EpollWait
  <2>2. \A e \in evs' : e = Arrival \/ \E f \in edge : e = Reported(f)
    BY <1>3 DEF EpollWait
  <2>3. \A f \in Fd : Reported(f) \in Event /\ Reported(f).ptr = entry[f].ptr
    BY DEF Reported, Event, EpollTypeOK, Readable
  <2>4. Arrival \in Event /\ Arrival.ptr = Listener
    BY DEF Arrival, Event
  <2>5. EpollTypeOK'
    BY <2>1, <2>2, <2>3, <2>4 DEF EpollTypeOK, sockVars, given, SocketsTypeOK
  <2>6. ASSUME ~mixed PROVE Paired'
    <3>1. \A f \in edge : entry[f].ptr \in live /\ recfd[entry[f].ptr] = f
                         /\ entry[f].ptr # Listener
      BY <2>6 DEF Paired, EpollTypeOK
    <3>2. \A e \in evs' : e.ptr # Listener => e.ptr \in live
      BY <2>2, <2>3, <2>4, <3>1 DEF EpollTypeOK
    <3>3. ASSUME NEW d \in evs', NEW e \in evs', d.ptr = e.ptr PROVE d = e
      BY <2>2, <2>3, <2>4, <3>1, <3>3 DEF EpollTypeOK
    <3>. QED BY <2>1, <2>6, <3>2, <3>3 DEF Paired, sockVars
  <2>. QED BY <2>1, <2>5, <2>6
<1>4. ASSUME NEW e \in Event, EpollAccept(e) PROVE EpollInv'
  <2>1. PICK f \in Fd, r \in Rec :
          /\ AcceptAs(f) /\ Allocate(r, f)
          /\ last' = r
          /\ entry' = [entry EXCEPT ![f] = [ptr |-> r, out |-> FALSE]]
          /\ edge' \in {edge, edge \union {f}}
    BY <1>4 DEF EpollAccept
  <2>2. SocketsTypeOK' /\ Head(backlog) \in Client
    BY <2>1, AcceptTypes DEF EpollTypeOK
  <2>3. /\ file[f] = None /\ server' = server
        /\ file' = [file EXCEPT ![f] = Head(backlog)]
    BY <2>1 DEF AcceptAs, LowestFree
  <2>4. /\ r \notin live /\ live' = live \union {r}
        /\ recfd' = [recfd EXCEPT ![r] = f]
    BY <2>1 DEF Allocate
  <2>5. evs' \subseteq evs /\ UNCHANGED <<mixed, owes>>
    BY <1>4 DEF EpollAccept, Taking
  <2>6. EpollTypeOK'
    BY <2>1, <2>2, <2>4, <2>5 DEF EpollTypeOK
  <2>7. ASSUME ~mixed PROVE Paired'
    <3>1. /\ file'[f] = Head(backlog) /\ \A g \in Fd : g # f => file'[g] = file[g]
          /\ entry'[f].ptr = r /\ \A g \in Fd : g # f => entry'[g] = entry[g]
          /\ recfd'[r] = f /\ \A x \in live : recfd'[x] = recfd[x]
      BY <2>1, <2>3, <2>4 DEF EpollTypeOK, SocketsTypeOK
    <3>2. \A x \in live : recfd[x] # f
      BY <2>3, <2>7 DEF Paired
    <3>. QED BY <2>1, <2>2, <2>3, <2>4, <2>5, <2>7, <3>1, <3>2, SocketsAssumption
             DEF Paired, EpollTypeOK
  <2>. QED BY <2>5, <2>6, <2>7
<1>5. ASSUME NEW e \in Event, EpollAcceptFails(e) PROVE EpollInv'
  BY <1>5 DEF EpollAcceptFails, Taking, EpollTypeOK, SocketsTypeOK, Paired, sockVars, given
<1>6. ASSUME NEW e \in Event, EpollFreed(e) PROVE EpollInv'
  <2>1. mixed
    BY <1>6 DEF EpollFreed, Taking, Paired
  <2>. QED BY <1>6, <2>1 DEF EpollFreed, Taking, EpollTypeOK, SocketsTypeOK, ServerStates, given
<1>7. ASSUME NEW e \in Event, EpollRead(e) PROVE EpollInv'
  <2>1. PICK f \in Fd :
          /\ Leads(e, f) /\ file[f] # None /\ Reads(file[f])
          /\ mixed' = (mixed \/ last # e.ptr)
          /\ IF last \in live
             THEN /\ recfd' = [recfd EXCEPT ![last] = f]
                  /\ entry' = [entry EXCEPT ![f] = [ptr |-> last, out |-> TRUE]]
                  /\ edge' = edge \union {f}
                  /\ UNCHANGED server
             ELSE server' = "stray" /\ UNCHANGED <<recfd, entry, edge>>
          /\ owes' = owes \union {file[f]}
    BY <1>7 DEF EpollRead
  <2>2. /\ UNCHANGED <<file, live, last>> /\ evs' \subseteq evs
        /\ server' \in ServerStates /\ file[f] \in Client
    BY <1>7, <2>1 DEF EpollRead, Taking, EpollTypeOK, SocketsTypeOK, ServerStates
  <2>3. SocketsTypeOK'
    BY <2>1, <2>2, ReadTypes DEF EpollTypeOK, SocketsTypeOK
  <2>4. EpollTypeOK'
    <3>1. mixed' \in BOOLEAN
      BY <2>1, Zenon DEF EpollTypeOK
    <3>2. CASE last \in live
      <4>1. recfd' \in [Rec -> Fd \union {NoFd}]
        BY <2>1, <3>2 DEF EpollTypeOK
      <4>2. entry' \in [Fd -> [ptr : Rec \union {Listener}, out : BOOLEAN]]
        <5>1. [ptr |-> last, out |-> TRUE] \in [ptr : Rec \union {Listener}, out : BOOLEAN]
          BY DEF EpollTypeOK
        <5>. QED BY <2>1, <3>2, <5>1 DEF EpollTypeOK
      <4>3. edge' \subseteq Fd /\ owes' \subseteq Client
        BY <2>1, <2>2, <3>2 DEF EpollTypeOK
      <4>. QED BY <2>2, <2>3, <3>1, <4>1, <4>2, <4>3 DEF EpollTypeOK
    <3>3. CASE last \notin live
      BY <2>1, <2>2, <2>3, <3>1, <3>3 DEF EpollTypeOK
    <3>. QED BY <3>2, <3>3
  <2>5. ASSUME ~mixed' PROVE Paired'
    <3>1. ~mixed /\ last = e.ptr /\ Paired
      BY <2>1, <2>5
    <3>2. last \in live /\ recfd[last] = f /\ entry[f].ptr = last
      BY <2>1, <3>1 DEF Leads, Paired
    <3>3. recfd' = recfd /\ server' = server /\ edge' = edge \union {f}
      BY <2>1, <3>2 DEF EpollTypeOK
    <3>4. \A g \in Fd : entry'[g].ptr = entry[g].ptr
      BY <2>1, <3>2 DEF EpollTypeOK
    <3>. QED BY <2>1, <2>2, <3>1, <3>3, <3>4 DEF Paired, EpollTypeOK
  <2>. QED BY <2>4, <2>5
<1>8. ASSUME NEW e \in Event, EpollQuit(e) PROVE EpollInv'
  <2>1. PICK f \in Fd :
          /\ Leads(e, f) /\ file[f] # None /\ ReadsEnd(file[f])
          /\ DelBuf(e.ptr)
          /\ file' = [file EXCEPT ![f] = None]
          /\ edge' = edge \ {f}
          /\ owes' = owes \ {file[f]}
    BY <1>8 DEF EpollQuit
  <2>2. /\ UNCHANGED <<server, recfd, last, entry, mixed>> /\ live' = live \ {e.ptr}
        /\ e \in evs /\ evs' = evs \ {e}
    BY <1>8, <2>1 DEF EpollQuit, Taking, DelBuf
  <2>3. SocketsTypeOK'
    BY <2>1, <2>2, ReadTypes DEF EpollTypeOK, SocketsTypeOK
  <2>4. EpollTypeOK'
    BY <2>1, <2>2, <2>3 DEF EpollTypeOK
  <2>5. ASSUME ~mixed PROVE Paired'
    <3>1. /\ file'[f] = None /\ \A g \in Fd : g # f => file'[g] = file[g]
          /\ e.ptr \in live /\ recfd[e.ptr] = f
      BY <2>1 DEF EpollTypeOK, SocketsTypeOK, Leads
    <3>2. \A x \in live : x # e.ptr => recfd[x] # f
      BY <2>5, <3>1 DEF Paired
    <3>. QED BY <2>1, <2>2, <2>5, <3>1, <3>2 DEF Paired, EpollTypeOK
  <2>. QED BY <2>2, <2>4, <2>5
<1>9. ASSUME NEW e \in Event, EpollReadFails(e) PROVE EpollInv'
  <2>1. SocketsTypeOK' /\ UNCHANGED <<server, file>>
    <3>1. PICK f \in Fd :
            IF file[f] = None THEN UNCHANGED sockVars
            ELSE ReadsError(file[f]) /\ UNCHANGED <<server, file>>
      BY <1>9 DEF EpollReadFails
    <3>2. CASE file[f] = None
      BY <3>1, <3>2 DEF sockVars, given, SocketsTypeOK, EpollTypeOK
    <3>3. CASE file[f] # None
      BY <3>1, <3>3, ReadTypes DEF SocketsTypeOK, EpollTypeOK
    <3>. QED BY <3>2, <3>3
  <2>. QED BY <1>9, <2>1 DEF EpollReadFails, Taking, EpollTypeOK, Paired
<1>10. ASSUME NEW e \in Event, EpollWrite(e) PROVE EpollInv'
  <2>1. PICK f \in Fd :
          IF file[f] = None THEN UNCHANGED <<sockVars, owes>>
          ELSE Writes(file[f]) /\ owes' = owes \ {file[f]}
    BY <1>10 DEF EpollWrite
  <2>2. SocketsTypeOK' /\ file' = file /\ server' \in {server, "killed"} /\ owes' \subseteq owes
    <3>1. CASE file[f] = None
      BY <2>1, <3>1 DEF sockVars, given, SocketsTypeOK, EpollTypeOK
    <3>2. CASE file[f] # None
      BY <2>1, <3>2, WriteTypes DEF SocketsTypeOK, EpollTypeOK, Writes
    <3>. QED BY <3>1, <3>2
  <2>. QED BY <1>10, <2>2 DEF EpollWrite, Taking, EpollTypeOK, Paired
<1>11. CASE UNCHANGED <<sockVars, epollVars>>
  BY <1>11 DEF sockVars, given, epollVars, EpollTypeOK, SocketsTypeOK, Paired
<1>. QED
  BY <1>1, <1>2, <1>3, <1>4, <1>5, <1>6, <1>7, <1>8, <1>9, <1>10, <1>11 DEF EpollNext, EpollStep

\* epoll_server.c: until somebody other than the last to connect is heard, each
\* connection has a record of its own and no freed record is used, for any number
\* of connections and any reuse of descriptors and memory (lines 141-146, 159-172).
THEOREM RecordsApart == EpollSpec => []EpollSafe
<1>1. EpollInv => EpollSafe
  BY DEF EpollInv, Paired, EpollSafe, OwnRecord
<1>. QED BY <1>1, EpollInitial, EpollStepInv, PTL DEF EpollSpec

-----------------------------------------------------------------------------
(* pthreadServer/tserver.c.                                                *)

TsTypes ==
  /\ backlog \in Seq(Client) /\ file \in [Fd -> Client \union {None}]
  /\ place \in Places /\ arg \in Record
  /\ thread \in [Client -> Strands] /\ own \in [Client -> Record]
  /\ overtaken \in BOOLEAN

\* What main knows of arg: its sock is an open descriptor, the newest one while
\* main fills the record in.
Filled ==
  /\ arg.sock # NoFd => file[arg.sock] # None
  /\ place \in {"port", "create"} => arg.sock \in Fd /\ Newest(arg.sock)
  /\ place = "create" => arg.port = file[arg.sock]

Unread(c) == thread[c] \in {"born", "half"}

\* The thread made for c: arg is c's until it is written over, and what the thread
\* has read from it is of c, or of somebody who came later.
Led(c) ==
  /\ place = "port" /\ Unread(c) => overtaken
  /\ thread[c] # "none" => \E f \in Fd :
       /\ file[f] = c /\ arg.sock \in Fd /\ f <= arg.sock
       /\ Unread(c) => overtaken \/ (arg.sock = f /\ arg.port = c)
       /\ thread[c] # "born" =>
            /\ own[c].sock \in Fd /\ file[own[c].sock] # None
            /\ f <= own[c].sock /\ (own[c].sock = f \/ overtaken)
       /\ thread[c] \in {"read", "echo", "done"} => own[c].port = c \/ overtaken

TsInv == TsTypes /\ Filled /\ \A c \in Client : Led(c)

LEMMA ThreadInitial == ThreadInit => TsInv
<1>. SUFFICES ASSUME ThreadInit PROVE TsInv
  OBVIOUS
<1>1. NoFd \notin Fd
  BY SocketsAssumption DEF NoFd
<1>2. TsTypes
  <2>1. NoOne \in Record
    BY DEF NoOne, Record
  <2>2. backlog \in Seq(Client) /\ file \in [Fd -> Client \union {None}]
    BY DEF ThreadInit, SocketsInit
  <2>. QED BY <2>1, <2>2 DEF ThreadInit, TsTypes, Places, Strands
<1>3. Filled
  BY <1>1 DEF ThreadInit, Filled, NoOne
<1>4. ASSUME NEW c \in Client PROVE Led(c)
  BY DEF ThreadInit, Led, Unread
<1>. QED BY <1>2, <1>3, <1>4 DEF TsInv

\* Steps that leave main and its record alone, and take no thread further.
LEMMA TsSame ==
  ASSUME TsInv, UNCHANGED <<file, place, arg, thread, own, overtaken>>, backlog' \in Seq(Client)
  PROVE  TsInv'
BY DEF TsInv, TsTypes, Filled, Led, Unread, Newest

\* Steps of a thread that has read the record.
LEMMA TsGoesOn ==
  ASSUME TsInv, UNCHANGED <<file, place, arg, own, overtaken>>, backlog' = backlog,
         NEW c \in Client, thread[c] \in {"read", "echo"},
         NEW t \in {"read", "echo", "done"}, thread' = [thread EXCEPT ![c] = t]
  PROVE  TsInv'
<1>1. TsTypes' /\ Filled'
  BY DEF TsInv, TsTypes, Filled, Newest, Strands
<1>2. ASSUME NEW d \in Client PROVE Led(d)'
  <2>1. /\ thread'[d] # "none" => thread[d] # "none"
        /\ thread'[d] \in {"born", "half"} => thread'[d] = thread[d]
        /\ thread'[d] # "born" => thread[d] # "born" \/ thread[d] = "none"
        /\ thread'[d] \in {"read", "echo", "done"} => thread[d] \in {"read", "echo", "done"}
    BY DEF TsInv, TsTypes
  <2>2. Led(d)
    BY DEF TsInv
  <2>. QED BY <2>1, <2>2 DEF Led, Unread
<1>. QED BY <1>1, <1>2 DEF TsInv

TsStep ==
  \/ TsMain \/ \E c \in Client : HandleClient(c) \/ ThreadClient(c)
  \/ UNCHANGED <<sockVars, threadVars>>

LEMMA TsStepInv == TsInv /\ TsStep => TsInv'
<1>. SUFFICES ASSUME TsInv, TsStep PROVE TsInv'
  OBVIOUS
<1>. USE SocketsAssumption
<1>1. ASSUME NEW c \in Client, ThreadClient(c) PROVE TsInv'
  <2>1. backlog' \in Seq(Client)
    <3>1. backlog \in Seq(Client)
      BY DEF TsInv, TsTypes
    <3>2. CASE Connect(c)
      BY <3>1, <3>2 DEF Connect
    <3>3. CASE Say(c) \/ Part(c) \/ Break(c)
      BY <3>1, <3>3 DEF Say, Part, Break
    <3>. QED BY <1>1, <3>2, <3>3 DEF ThreadClient
  <2>. QED BY <1>1, <2>1, TsSame DEF ThreadClient, Connect, Say, Part, Break, threadVars
<1>2. ASSUME ThreadStartUp \/ TsAcceptFails \/ UNCHANGED <<sockVars, threadVars>> PROVE TsInv'
  <2>1. backlog' \in Seq(Client)
    BY <1>2 DEF ThreadStartUp, StartsOrFails, TsAcceptFails, sockVars, TsInv, TsTypes
  <2>. QED BY <1>2, <2>1, TsSame DEF ThreadStartUp, StartsOrFails, TsAcceptFails, threadVars, sockVars
<1>3. ASSUME TsAcceptDrops PROVE TsInv'
  <2>1. backlog' \in Seq(Client)
    BY <1>3 DEF TsAcceptDrops, TsInv, TsTypes
  <2>. QED BY <1>3, <2>1, TsSame DEF TsAcceptDrops
<1>4. ASSUME TsAccept PROVE TsInv'
  <2>1. PICK f \in Fd : AcceptAs(f)
    BY <1>4 DEF TsAccept
  <2>2. /\ file[f] = None /\ Head(backlog) \in Client /\ backlog' \in Seq(Client)
        /\ file' = [file EXCEPT ![f] = Head(backlog)]
    BY <2>1 DEF AcceptAs, LowestFree, TsInv, TsTypes
  <2>3. place' = "sock" /\ UNCHANGED <<arg, thread, own, overtaken>>
    BY <1>4 DEF TsAccept
  <2>4. /\ file' \in [Fd -> Client \union {None}] /\ file'[f] # None
        /\ \A g \in Fd : g # f => file'[g] = file[g]
    BY <2>2 DEF TsInv, TsTypes
  <2>5. TsTypes'
    BY <2>2, <2>3, <2>4 DEF TsInv, TsTypes, Places
  <2>6. Filled'
    BY <2>3, <2>4 DEF TsInv, TsTypes, Filled, Record
  <2>7. ASSUME NEW c \in Client PROVE Led(c)'
    <3>1. Led(c)
      BY DEF TsInv
    <3>. QED BY <2>2, <2>3, <2>4, <3>1 DEF Led, Unread
  <2>. QED BY <2>5, <2>6, <2>7 DEF TsInv
<1>5. ASSUME TsFillSock PROVE TsInv'
  <2>1. PICK f \in Fd : Newest(f) /\ arg' = [arg EXCEPT !.sock = f]
    BY <1>5 DEF TsFillSock
  <2>2. /\ UNCHANGED <<backlog, file, thread, own>> /\ place' = "port"
        /\ overtaken' = (overtaken \/ \E c \in Client : thread[c] \in {"born", "half"})
    BY <1>5 DEF TsFillSock, sockVars
  <2>3. arg' \in Record /\ arg'.sock = f /\ arg'.port = arg.port
    BY <2>1 DEF TsInv, TsTypes, Record
  <2>4. overtaken' \in BOOLEAN /\ (overtaken => overtaken')
    BY <2>2, Zenon DEF TsInv, TsTypes
  <2>5. ASSUME NEW c \in Client, Unread(c) PROVE overtaken'
    BY <2>2, <2>5, Zenon DEF Unread
  <2>6. TsTypes'
    BY <2>2, <2>3, <2>4 DEF TsInv, TsTypes, Places
  <2>7. Filled'
    BY <2>1, <2>2, <2>3 DEF TsInv, TsTypes, Filled, Newest
  <2>8. arg.sock \in Fd => arg.sock <= f
    BY <2>1 DEF Newest, TsInv, TsTypes, Filled, NoFd
  <2>9. ASSUME NEW c \in Client PROVE Led(c)'
    <3>1. Led(c) /\ f \in Nat
      BY DEF TsInv
    <3>2. arg.sock \in Fd => arg'.sock \in Fd /\ arg.sock <= arg'.sock
      BY <2>3, <2>8
    <3>3. ASSUME NEW g \in Fd, arg.sock \in Fd, g <= arg.sock PROVE g <= arg'.sock
      <4>1. g \in Nat /\ arg.sock \in Nat /\ arg'.sock \in Nat
        BY <3>2, <3>3
      <4>. QED BY <3>2, <3>3, <4>1
    <3>4. CASE overtaken'
      <4>1. overtaken = TRUE \/ overtaken = FALSE
        BY DEF TsInv, TsTypes
      <4>. QED BY <2>2, <3>1, <3>2, <3>4, <3>3, <4>1 DEF Led, Unread
    <3>5. CASE ~overtaken'
      <4>1. ~overtaken /\ ~Unread(c)
        BY <2>4, <2>5, <3>5
      <4>. QED BY <2>2, <3>1, <3>2, <3>3, <4>1 DEF Led, Unread
    <3>. QED BY <3>4, <3>5
  <2>. QED BY <2>6, <2>7, <2>9 DEF TsInv
<1>6. ASSUME TsFillPort PROVE TsInv'
  <2>1. PICK f \in Fd : Newest(f) /\ arg' = [arg EXCEPT !.port = file[f]]
    BY <1>6 DEF TsFillPort
  <2>2. UNCHANGED <<backlog, file, thread, own, overtaken>> /\ place = "port" /\ place' = "create"
    BY <1>6 DEF TsFillPort, sockVars
  <2>3. arg' \in Record /\ arg'.sock = arg.sock /\ arg'.port = file[f]
    BY <2>1 DEF TsInv, TsTypes, Record
  <2>4. arg.sock = f
    BY <2>1, <2>2 DEF TsInv, Filled, Newest
  <2>5. TsTypes' /\ Filled'
    BY <2>1, <2>2, <2>3, <2>4 DEF TsInv, TsTypes, Filled, Newest, Places
  <2>6. ASSUME NEW c \in Client PROVE Led(c)'
    <3>1. Led(c)
      BY DEF TsInv
    <3>. QED BY <2>2, <2>3, <3>1 DEF Led, Unread
  <2>. QED BY <2>5, <2>6 DEF TsInv
<1>7. ASSUME TsCreate PROVE TsInv'
  <2>1. UNCHANGED <<backlog, file, arg, own, overtaken>> /\ place = "create" /\ place' = "accept"
    BY <1>7 DEF TsCreate, sockVars
  <2>2. arg.sock \in Fd /\ file[arg.sock] = arg.port /\ arg.port \in Client
    BY <2>1 DEF TsInv, TsTypes, Filled, Newest
  <2>3. thread' = thread \/ thread' = [thread EXCEPT ![arg.port] = "born"]
    BY <1>7 DEF TsCreate
  <2>4. TsTypes' /\ Filled'
    BY <2>1, <2>3 DEF TsInv, TsTypes, Filled, Newest, Places, Strands
  <2>5. ASSUME NEW c \in Client PROVE Led(c)'
    <3>1. Led(c)
      BY DEF TsInv
    <3>2. CASE thread'[c] = thread[c]
      BY <2>1, <3>1, <3>2 DEF Led, Unread
    <3>3. CASE thread'[c] # thread[c]
      <4>1. c = arg.port /\ thread'[c] = "born"
        BY <2>3, <3>3 DEF TsInv, TsTypes
      <4>2. arg.sock <= arg.sock
        <5>1. arg.sock \in Nat
          BY <2>2
        <5>. QED BY <5>1
      <4>. QED BY <2>1, <2>2, <4>1, <4>2 DEF Led, Unread
    <3>. QED BY <3>2, <3>3
  <2>. QED BY <2>4, <2>5 DEF TsInv
<1>8. ASSUME NEW c \in Client, TakeSock(c) PROVE TsInv'
  <2>1. /\ UNCHANGED <<backlog, file, place, arg, overtaken>> /\ thread[c] = "born"
        /\ own' = [own EXCEPT ![c].sock = arg.sock]
        /\ thread' = [thread EXCEPT ![c] = "half"]
    BY <1>8 DEF TakeSock, sockVars
  <2>2. /\ own' \in [Client -> Record] /\ own'[c].sock = arg.sock
        /\ thread'[c] = "half"
        /\ \A d \in Client : d # c => own'[d] = own[d] /\ thread'[d] = thread[d]
    BY <2>1 DEF TsInv, TsTypes, Record
  <2>3. TsTypes' /\ Filled'
    BY <2>1, <2>2 DEF TsInv, TsTypes, Filled, Newest, Strands
  <2>4. ASSUME NEW d \in Client PROVE Led(d)'
    <3>1. Led(d)
      BY DEF TsInv
    <3>2. arg.sock \in Fd => file[arg.sock] # None
      BY DEF TsInv, Filled, NoFd
    <3>. QED BY <2>1, <2>2, <3>1, <3>2 DEF Led, Unread
  <2>. QED BY <2>3, <2>4 DEF TsInv
<1>9. ASSUME NEW c \in Client, TakePort(c) PROVE TsInv'
  <2>1. /\ UNCHANGED <<backlog, file, place, arg, overtaken>> /\ thread[c] = "half"
        /\ own' = [own EXCEPT ![c].port = arg.port]
        /\ thread' = [thread EXCEPT ![c] = "read"]
    BY <1>9 DEF TakePort, sockVars
  <2>2. /\ own' \in [Client -> Record] /\ own'[c].port = arg.port /\ own'[c].sock = own[c].sock
        /\ thread'[c] = "read"
        /\ \A d \in Client : d # c => own'[d] = own[d] /\ thread'[d] = thread[d]
    BY <2>1 DEF TsInv, TsTypes, Record
  <2>3. TsTypes' /\ Filled'
    BY <2>1, <2>2 DEF TsInv, TsTypes, Filled, Newest, Strands
  <2>4. ASSUME NEW d \in Client PROVE Led(d)'
    <3>1. Led(d)
      BY DEF TsInv
    <3>. QED BY <2>1, <2>2, <3>1 DEF Led, Unread
  <2>. QED BY <2>3, <2>4 DEF TsInv
<1>10. ASSUME NEW c \in Client, TsRead(c) \/ TsReadEnd(c) \/ TsWrite(c) PROVE TsInv'
  <2>1. CASE TsRead(c)
    BY <2>1, TsGoesOn DEF TsRead, Reads
  <2>2. CASE TsReadEnd(c)
    BY <2>2, TsGoesOn DEF TsReadEnd, ReadsEnd, ReadsError
  <2>3. CASE TsWrite(c)
    BY <2>3, TsGoesOn DEF TsWrite, Writes
  <2>. QED BY <1>10, <2>1, <2>2, <2>3
<1>. QED
  BY <1>1, <1>2, <1>3, <1>4, <1>5, <1>6, <1>7, <1>8, <1>9, <1>10
     DEF TsStep, TsMain, HandleClient

LEMMA OwnIsServed == TsInv => TsOwn
<1>. SUFFICES ASSUME TsInv PROVE TsOwn
  OBVIOUS
<1>1. ASSUME NEW c \in Client, thread[c] \in {"half", "read", "echo", "done"}
      PROVE  \E f, g \in Fd : file[f] = c /\ own[c].sock = g /\ f <= g /\ (f = g \/ overtaken)
  BY <1>1 DEF TsInv, Led
<1>2. ASSUME NEW c \in Client, thread[c] \in {"read", "echo", "done"}
      PROVE  own[c].port = c \/ overtaken
  BY <1>2 DEF TsInv, Led
<1>. QED BY <1>1, <1>2 DEF TsOwn

\* pthreadServer/tserver.c: a thread serves the connection it was made for unless
\* main has written its record before the thread had read it, and never an earlier
\* one (lines 48-50, 86-90).
THEOREM ThreadsServeTheirOwn == ThreadSpec => []TsOwn
<1>1. [ThreadNext]_<<sockVars, threadVars>> => TsStep
  BY DEF ThreadNext, TsStep
<1>. QED BY <1>1, OwnIsServed, ThreadInitial, TsStepInv, PTL DEF ThreadSpec

-----------------------------------------------------------------------------
(* The servers of one client at a time.                                    *)

\* A client that has left and was heard to its last unit.
Gone(c) == conn[c] \in {"fin", "dead"} /\ Waiting(c) = 0

\* The server's connection is the one accepted last; while it waits for the next
\* one, everybody behind an open descriptor is gone, and otherwise everybody but
\* its client.  UN accepts once, and no client of it is reset.
Turned ==
  /\ confd = None => \A f \in Fd : file[f] = None
  /\ confd # None => \E f \in Fd : file[f] = confd /\ Newest(f)
  /\ turn # "accept" => confd # None
  /\ turn = "accept" /\ confd # None => Gone(confd) /\ program # "UN"
  /\ \A f \in Fd : file[f] \notin {None, confd} => Gone(file[f])
  /\ program = "UN" => \A c \in Client : conn[c] \in {"off", "on", "fin"}

\* SIGURG comes while the server reads, for the newest byte of its connection.
Signals ==
  /\ sig # "no" => turn = "read"
  /\ sig \in {"pending", "handling"} => urgent[confd] = "signalled" \/ crowded
  /\ sig = "again" => crowded

\* How the server has ended: at the end of UN's client, after an error, or for
\* want of a descriptor while it waits for a client.
Ended ==
  server = "ended" =>
    /\ confd # None /\ Gone(confd)
    /\ program # "UN" /\ turn = "read" => conn[confd] = "dead"
    /\ program # "UN" /\ turn # "read" => turn = "accept" /\ Full

LineInv ==
  LineTypeOK /\ Once /\ NoGap /\ Turned /\ Signals /\ Ended /\ BlindHandler

LEMMA LineInitial == LineInit => LineInv
<1>. SUFFICES ASSUME LineInit PROVE LineInv
  OBVIOUS
<1>1. LineTypeOK
  BY InitTypes DEF LineInit, LineTypeOK, UrgentStates, SigStates
<1>2. Once /\ NoGap
  BY OnceInitial DEF LineInit
<1>. QED BY <1>1, <1>2
         DEF LineInit, SocketsInit, LineInv, Turned, Signals, Ended, BlindHandler

LEMMA LineImplies == LineInv => LineSafe
<1>. SUFFICES ASSUME LineInv PROVE LineSafe
  OBVIOUS
<1>. USE SocketsAssumption DEF LineInv
<1>1. HeardInTurn
  <2>. SUFFICES ASSUME NEW f \in Fd, NEW g \in Fd, f < g, file[g] # None
                PROVE  /\ file[f] # None /\ file[f] # confd
                       /\ conn[file[f]] \in {"fin", "dead"} /\ Waiting(file[f]) = 0
    BY DEF HeardInTurn
  <2>1. file[f] # None
    BY DEF NoGap
  <2>2. confd # None
    BY DEF Turned
  <2>3. PICK h \in Fd : file[h] = confd /\ Newest(h)
    BY <2>2 DEF Turned
  <2>4. g <= h
    BY <2>3 DEF Newest
  <2>5. file[f] # confd
    <3>1. f \in Nat /\ g \in Nat /\ h \in Nat
      OBVIOUS
    <3>2. f # h
      BY <2>4, <3>1
    <3>. QED BY <2>1, <2>3, <3>2 DEF Once
  <2>. QED BY <2>1, <2>5 DEF Turned, Gone
<1>2. LineEnds
  <2>. SUFFICES ASSUME program \in Lines, server = "ended"
                PROVE  /\ confd # None /\ Waiting(confd) = 0
                       /\ program = "UN" => conn[confd] = "fin"
                       /\ program # "UN" /\ turn = "read" => conn[confd] = "dead"
                       /\ program # "UN" /\ turn # "read" =>
                            Full /\ \A f \in Open : conn[file[f]] # "on"
    BY DEF LineEnds
  <2>1. confd # None /\ confd \in Client /\ Gone(confd)
    BY DEF Ended, LineTypeOK
  <2>2. CASE program = "UN"
    BY <2>1, <2>2 DEF Turned, Gone
  <2>3. CASE program # "UN" /\ turn = "read"
    BY <2>1, <2>3 DEF Ended, Gone
  <2>4. CASE program # "UN" /\ turn # "read"
    <3>1. turn = "accept" /\ Full
      BY <2>4 DEF Ended
    <3>2. \A f \in Open : f \in Fd /\ file[f] # None
      BY <3>1 DEF Full, Open
    <3>3. \A f \in Open : Gone(file[f])
      BY <2>1, <3>2 DEF Turned
    <3>4. \A f \in Open : conn[file[f]] # "on"
      BY <3>3 DEF Gone
    <3>. QED BY <2>1, <2>4, <3>1, <3>4 DEF Gone
  <2>. QED BY <2>2, <2>3, <2>4
<1>. QED BY <1>1, <1>2 DEF LineSafe

\* Steps that give the server no other connection and let nobody who is gone come
\* back.
LEMMA LineKeeps ==
  ASSUME LineInv, UNCHANGED <<given, server, file, turn, confd>>,
         \A c \in Client : Gone(c) => Gone(c)' /\ conn'[c] = conn[c],
         program = "UN" => \A c \in Client : conn'[c] \in {"off", "on", "fin"},
         LineTypeOK', Once', Signals', BlindHandler'
  PROVE  LineInv'
<1>. USE SocketsAssumption DEF LineInv
<1>1. /\ program' = program /\ most' = most
      /\ file \in [Fd -> Client \union {None}] /\ confd \in Client \union {None}
  BY DEF given, LineTypeOK, SocketsTypeOK
<1>2. Turned'
  BY <1>1 DEF Turned, Newest
<1>3. Full' = Full
  BY <1>1 DEF Full, Open
<1>4. Ended'
  BY <1>1, <1>3 DEF Ended
<1>. QED BY <1>2, <1>4 DEF NoGap

LEMMA LineUserInv ==
  ASSUME LineInv, program \in Lines, NEW c \in Client, LineUser(c)
  PROVE  LineInv'
<1>. USE SocketsAssumption DEF LineInv, LineTypeOK
<1>1. ASSUME Connect(c), UNCHANGED lineVars PROVE LineInv'
  <2>1. SocketsTypeOK' /\ Once'
    BY <1>1, ClientTypes, OnceConnect
  <2>2. /\ UNCHANGED <<given, server, file, sent, taken>> /\ conn[c] = "off" /\ conn'[c] = "on"
        /\ \A d \in Client : d # c => conn'[d] = conn[d]
    BY <1>1 DEF Connect, SocketsTypeOK
  <2>3. \A d \in Client : Gone(d) => Gone(d)' /\ conn'[d] = conn[d]
    BY <2>2 DEF Gone, Waiting
  <2>4. program = "UN" => \A d \in Client : conn'[d] \in {"off", "on", "fin"}
    BY <2>2 DEF Turned
  <2>5. LineTypeOK' /\ Signals' /\ BlindHandler'
    BY <1>1, <2>1, <2>2 DEF lineVars, Signals, BlindHandler, given
  <2>. QED BY <1>1, <2>1, <2>2, <2>3, <2>4, <2>5, LineKeeps DEF lineVars
<1>2. ASSUME Say(c), UNCHANGED <<turn, confd>>, LineTypeOK', Signals', BlindHandler' PROVE LineInv'
  <2>1. /\ UNCHANGED <<given, server, file, backlog, conn, taken>> /\ conn[c] = "on"
        /\ \A d \in Client : d # c => sent'[d] = sent[d]
    BY <1>2 DEF Say, SocketsTypeOK
  <2>2. Once'
    BY <2>1, OnceSame
  <2>3. \A d \in Client : Gone(d) => Gone(d)' /\ conn'[d] = conn[d]
    BY <2>1 DEF Gone, Waiting
  <2>4. program = "UN" => \A d \in Client : conn'[d] \in {"off", "on", "fin"}
    BY <2>1 DEF Turned
  <2>. QED BY <1>2, <2>1, <2>2, <2>3, <2>4, LineKeeps
<1>3. ASSUME Part(c) \/ (program # "UN" /\ Break(c)), UNCHANGED lineVars PROVE LineInv'
  <2>1. SocketsTypeOK'
    BY <1>3, ClientTypes
  <2>2. /\ UNCHANGED <<given, server, file, backlog, sent, taken>> /\ conn[c] = "on"
        /\ conn'[c] \in {"fin", "rst"} /\ (program = "UN" => conn'[c] = "fin")
        /\ \A d \in Client : d # c => conn'[d] = conn[d]
    BY <1>3 DEF Part, Break, SocketsTypeOK
  <2>3. Once'
    BY <2>2, OnceSame
  <2>4. \A d \in Client : Gone(d) => Gone(d)' /\ conn'[d] = conn[d]
    BY <2>2 DEF Gone, Waiting
  <2>5. program = "UN" => \A d \in Client : conn'[d] \in {"off", "on", "fin"}
    BY <2>2 DEF Turned
  <2>6. LineTypeOK' /\ Signals' /\ BlindHandler'
    BY <1>3, <2>1, <2>2 DEF lineVars, Signals, BlindHandler, given
  <2>. QED BY <1>3, <2>2, <2>3, <2>4, <2>5, <2>6, LineKeeps DEF lineVars
<1>4. CASE UnConnect(c) \/ OneConnect(c) \/ OobConnect(c)
  BY <1>1, <1>4 DEF UnConnect, OneConnect, OobConnect
<1>5. CASE UnType(c) \/ OneType(c)
  <2>1. Say(c) /\ UNCHANGED lineVars
    BY <1>5 DEF UnType, OneType
  <2>2. SocketsTypeOK'
    BY <2>1, ClientTypes
  <2>3. LineTypeOK' /\ Signals' /\ BlindHandler'
    BY <2>1, <2>2 DEF lineVars, Say, Signals, BlindHandler, given
  <2>. QED BY <1>2, <2>1, <2>3 DEF lineVars
<1>6. CASE OobType(c)
  <2>1. /\ Say(c) /\ UNCHANGED <<turn, confd, idle, blind>>
        /\ urgent' = [urgent EXCEPT ![c] = IF Owned(c) THEN "signalled" ELSE "silent"]
        /\ crowded' = (crowded \/ urgent[c] = "signalled")
        /\ sig' = CASE Owned(c) /\ sig = "no" -> "pending"
                    [] Owned(c) /\ sig = "handling" -> "again"
                    [] OTHER -> sig
    BY <1>6 DEF OobType
  <2>2. SocketsTypeOK' /\ server' = server /\ program' = program
    BY <2>1, ClientTypes DEF Say, given
  <2>3. crowded' \in BOOLEAN /\ (crowded => crowded') /\ (urgent[c] = "signalled" => crowded')
    BY <2>1, Zenon
  <2>4. urgent' \in [Client -> UrgentStates] /\ sig' \in SigStates
    BY <2>1 DEF UrgentStates, SigStates
  <2>5. LineTypeOK'
    BY <2>1, <2>2, <2>3, <2>4
  <2>6. BlindHandler'
    BY <2>1, <2>2, <2>3 DEF BlindHandler
  <2>7. CASE Owned(c)
    <3>1. turn' = "read" /\ confd' = c /\ urgent'[c] = "signalled"
      BY <2>1, <2>7 DEF Owned
    <3>2. sig' = "again" => crowded'
      <4>1. sig' = "again" => sig \in {"handling", "again"}
        BY <2>1, <2>7
      <4>2. sig = "handling" => urgent[c] = "signalled" \/ crowded
        BY <2>7 DEF Owned, Signals
      <4>3. sig = "again" => crowded
        BY DEF Signals
      <4>. QED BY <2>3, <4>1, <4>2, <4>3
    <3>3. Signals'
      BY <3>1, <3>2 DEF Signals
    <3>. QED BY <1>2, <2>1, <2>5, <2>6, <3>3
  <2>8. CASE ~Owned(c)
    <3>1. sig' = sig
      BY <2>1, <2>8
    <3>2. turn = "read" => confd # c /\ urgent'[confd] = urgent[confd]
      BY <2>1, <2>8 DEF Owned, Turned
    <3>3. Signals'
      BY <2>1, <2>3, <3>1, <3>2 DEF Signals
    <3>. QED BY <1>2, <2>1, <2>5, <2>6, <3>3
  <2>. QED BY <2>7, <2>8
<1>7. CASE UnTypeEnd(c) \/ LineKilled(c)
  BY <1>3, <1>7 DEF UnTypeEnd, LineKilled
<1>8. CASE OneTypeEnd(c)
  <2>1. UNCHANGED <<given, server, conn, backlog, file, sent, taken, turn, confd, urgent, sig, crowded, blind>>
    BY <1>8 DEF OneTypeEnd, sockVars
  <2>2. LineTypeOK'
    BY <1>8, <2>1 DEF OneTypeEnd, SocketsTypeOK, given
  <2>3. Once' /\ Signals' /\ BlindHandler'
    BY <2>1, OnceSame DEF Signals, BlindHandler, given
  <2>4. \A d \in Client : Gone(d) => Gone(d)' /\ conn'[d] = conn[d]
    BY <2>1 DEF Gone, Waiting
  <2>5. program = "UN" => \A d \in Client : conn'[d] \in {"off", "on", "fin"}
    BY <2>1 DEF Turned
  <2>. QED BY <2>1, <2>2, <2>3, <2>4, <2>5, LineKeeps
<1>. QED BY <1>4, <1>5, <1>6, <1>7, <1>8 DEF LineUser

LEMMA LineAccepts ==
  ASSUME LineInv, program \in Lines, server = "up", sig = "no",
         NEW t \in {"own", "read"}, Accepting(t), Keep
  PROVE  LineInv'
<1>. USE SocketsAssumption DEF LineInv, LineTypeOK
<1>1. turn = "accept" /\ backlog # <<>> /\ UNCHANGED <<idle, urgent, sig, crowded, blind>>
  BY DEF Accepting, Keep
<1>2. ASSUME NEW f \in Fd, AcceptAs(f), confd' = Head(backlog), turn' = t PROVE LineInv'
  <2>1. /\ SocketsTypeOK' /\ Head(backlog) \in Client
        /\ Once' /\ NoGap' /\ Newest(f)'
    BY <1>2, AcceptTypes, OnceAccept
  <2>2. /\ UNCHANGED <<given, server, conn, sent, taken>>
        /\ file[f] = None /\ file'[f] = Head(backlog) /\ \A g \in Fd : g # f => file'[g] = file[g]
    BY <1>2 DEF AcceptAs, LowestFree, SocketsTypeOK
  <2>3. LineTypeOK' /\ Signals' /\ BlindHandler'
    BY <1>1, <1>2, <2>1, <2>2 DEF Signals, BlindHandler, given
  <2>4. \A g \in Fd : file[g] # None => Gone(file[g])
    BY <1>1 DEF Turned
  <2>5. (\A g \in Fd : file[g] \notin {None, confd} => Gone(file[g]))'
    <3>1. \A g \in Fd : file'[g] \notin {None, confd'} => file[g] # None /\ file'[g] = file[g]
      BY <1>2, <2>2
    <3>. QED BY <2>2, <2>4, <3>1 DEF Gone, Waiting
  <2>6. program = "UN" => \A d \in Client : conn'[d] \in {"off", "on", "fin"}
    BY <2>2 DEF Turned
  <2>7. Turned'
    BY <1>2, <2>1, <2>2, <2>5, <2>6 DEF Turned, given
  <2>8. Ended'
    BY <2>2 DEF Ended
  <2>. QED BY <2>1, <2>3, <2>7, <2>8
<1>3. ASSUME Full, server' = "ended", UNCHANGED <<given, conn, backlog, file, sent, taken, confd, turn>>
      PROVE  LineInv'
  <2>1. most \in Open /\ most' = most /\ program' = program
    BY <1>3 DEF Open, SocketsTypeOK, given
  <2>2. confd # None
    BY <1>3, <2>1 DEF Full, Turned, Open
  <2>3. LineTypeOK' /\ Once' /\ NoGap'
    BY <1>1, <1>3, OnceSame DEF SocketsTypeOK, ServerStates, given, NoGap
  <2>4. Turned' /\ Signals'
    BY <1>1, <1>3, <2>1 DEF Turned, Signals, Newest, Gone, Waiting
  <2>5. Ended'
    BY <1>1, <1>3, <2>1, <2>2 DEF Ended, Turned, Gone, Waiting, Full, Open
  <2>6. BlindHandler'
    BY <1>1, <1>3, <2>1 DEF BlindHandler
  <2>. QED BY <2>3, <2>4, <2>5, <2>6
<1>. QED BY <1>2, <1>3 DEF Accepting

LEMMA LineReads ==
  ASSUME LineInv, program \in Lines, server = "up", sig = "no", Keep,
         (Reading(Leaves) /\ program = "UN") \/ (Reading(NextClient) /\ program # "UN")
  PROVE  LineInv'
<1>. USE SocketsAssumption DEF LineInv, LineTypeOK
<1>1. /\ turn = "read" /\ confd' = confd /\ confd \in Client
      /\ UNCHANGED <<idle, urgent, sig, crowded, blind>>
  BY DEF Reading, Keep, Turned
<1>2. Signals'
  BY <1>1 DEF Signals
<1>3. CASE Reads(confd) /\ UNCHANGED <<server, file, turn>>
  <2>1. /\ UNCHANGED <<given, conn, backlog, sent>> /\ Waiting(confd) > 0
        /\ \A d \in Client : d # confd => taken'[d] = taken[d]
    BY <1>3 DEF Reads, SocketsTypeOK
  <2>2. SocketsTypeOK'
    BY <1>1, <1>3, ReadTypes DEF SocketsTypeOK
  <2>3. LineTypeOK' /\ Once' /\ BlindHandler'
    BY <1>1, <1>3, <2>1, <2>2, OnceSame DEF BlindHandler, given
  <2>4. \A d \in Client : Gone(d) => Gone(d)' /\ conn'[d] = conn[d]
    BY <2>1 DEF Gone, Waiting
  <2>5. program = "UN" => \A d \in Client : conn'[d] \in {"off", "on", "fin"}
    BY <2>1 DEF Turned
  <2>. QED BY <1>1, <1>2, <1>3, <2>1, <2>3, <2>4, <2>5, LineKeeps
<1>4. ASSUME ReadsEnd(confd), UNCHANGED file,
             (Leaves /\ program = "UN") \/ (NextClient /\ program # "UN")
      PROVE  LineInv'
  <2>1. UNCHANGED <<given, conn, backlog, sent, taken>> /\ Gone(confd)
    BY <1>4 DEF ReadsEnd, Gone
  <2>2. /\ program' = program /\ most' = most
        /\ \/ program = "UN" /\ server' = "ended" /\ turn' = "read"
           \/ program # "UN" /\ server' = "up" /\ turn' = "accept"
    BY <1>1, <1>4, <2>1 DEF Leaves, NextClient, given
  <2>3. LineTypeOK' /\ Once' /\ NoGap' /\ BlindHandler'
    BY <1>1, <1>4, <2>1, <2>2, OnceSame
       DEF SocketsTypeOK, ServerStates, NoGap, BlindHandler, given
  <2>4. Turned' /\ Ended'
    BY <1>1, <1>4, <2>1, <2>2 DEF Turned, Ended, Newest, Gone, Waiting
  <2>5. Signals'
    BY <1>1 DEF Signals
  <2>. QED BY <2>3, <2>4, <2>5
<1>5. ASSUME ReadsError(confd), server' = "ended", UNCHANGED <<file, turn>> PROVE LineInv'
  <2>1. /\ UNCHANGED <<given, backlog, sent, taken>> /\ Waiting(confd) = 0
        /\ conn[confd] = "rst" /\ conn'[confd] = "dead"
        /\ \A d \in Client : d # confd => conn'[d] = conn[d]
    BY <1>1, <1>5 DEF ReadsError, SocketsTypeOK
  <2>2. program' = program /\ program # "UN"
    BY <1>1, <2>1 DEF Turned, given
  <2>3. SocketsTypeOK'
    BY <1>1, <1>5, ReadTypes DEF SocketsTypeOK, ServerStates
  <2>4. LineTypeOK' /\ Once' /\ NoGap' /\ BlindHandler'
    BY <1>1, <1>5, <2>1, <2>3, OnceSame DEF NoGap, BlindHandler
  <2>5. \A d \in Client : Gone(d) => Gone(d)'
    BY <2>1 DEF Gone, Waiting
  <2>6. Turned'
    BY <1>1, <1>5, <2>1, <2>2, <2>5 DEF Turned, Newest, SocketsTypeOK
  <2>7. Ended'
    BY <1>1, <1>5, <2>1, <2>2 DEF Ended, Gone, Waiting
  <2>. QED BY <1>2, <2>4, <2>6, <2>7
<1>. QED BY <1>3, <1>4, <1>5 DEF Reading

LEMMA LineStepInv ==
  LineInv /\ [LineNext]_<<sockVars, lineVars>> => LineInv'
<1>. SUFFICES ASSUME LineInv, [LineNext]_<<sockVars, lineVars>> PROVE LineInv'
  OBVIOUS
<1>. USE SocketsAssumption DEF LineInv, LineTypeOK
<1>1. CASE UNCHANGED <<sockVars, lineVars>>
  <2>1. LineTypeOK' /\ Once' /\ Signals' /\ BlindHandler'
    BY <1>1, OnceSame DEF sockVars, given, lineVars, SocketsTypeOK, Signals, BlindHandler
  <2>2. \A c \in Client : Gone(c) => Gone(c)' /\ conn'[c] = conn[c]
    BY <1>1 DEF sockVars, Gone, Waiting
  <2>3. program = "UN" => \A c \in Client : conn'[c] \in {"off", "on", "fin"}
    BY <1>1 DEF sockVars, Turned
  <2>. QED BY <1>1, <2>1, <2>2, <2>3, LineKeeps DEF sockVars, lineVars
<1>2. ASSUME program \in Lines, NEW c \in Client, LineUser(c) PROVE LineInv'
  BY <1>2, LineUserInv
<1>3. ASSUME StartsOrFails, UNCHANGED lineVars PROVE LineInv'
  <2>1. SocketsTypeOK' /\ UNCHANGED <<given, conn, backlog, file, sent, taken>>
    BY <1>3, StartTypes DEF StartsOrFails
  <2>2. server' \in {"up", "failed"} /\ program' = program
    BY <1>3, <2>1 DEF StartsOrFails, given
  <2>3. LineTypeOK' /\ Once' /\ NoGap' /\ Signals'
    BY <1>3, <2>1, OnceSame DEF lineVars, Signals, NoGap
  <2>4. Turned' /\ Ended' /\ BlindHandler'
    BY <1>3, <2>1, <2>2 DEF lineVars, Turned, Newest, Gone, Waiting, Ended, BlindHandler
  <2>. QED BY <2>3, <2>4
<1>4. CASE UnStart \/ OneStart \/ OobStart
  BY <1>3, <1>4 DEF UnStart, OneStart, OobStart
<1>5. CASE UnAccept \/ OneAccept \/ OobAccept
  BY <1>5, LineAccepts DEF UnAccept, OneAccept, OobAccept, Runs, Lines
<1>6. CASE UnRead \/ OneRead \/ OobRead
  BY <1>6, LineReads DEF UnRead, OneRead, OobRead, Runs, Lines
<1>7. CASE OobOwn
  <2>1. /\ UNCHANGED <<sockVars, confd, idle, urgent, sig, crowded, blind>>
        /\ turn = "own" /\ turn' = "read" /\ server = "up" /\ sig = "no"
    BY <1>7 DEF OobOwn, Keep, Runs
  <2>2. LineTypeOK' /\ Once' /\ NoGap' /\ BlindHandler'
    BY <2>1, OnceSame DEF sockVars, given, SocketsTypeOK, NoGap, BlindHandler
  <2>3. Turned' /\ Signals' /\ Ended'
    BY <2>1 DEF sockVars, given, Turned, Newest, Gone, Waiting, Signals, Ended
  <2>. QED BY <2>2, <2>3
<1>8. CASE SigURGRun
  <2>1. /\ UNCHANGED <<sockVars, turn, confd, idle, urgent, crowded, blind>>
        /\ sig = "pending" /\ sig' = "handling"
    BY <1>8 DEF SigURGRun
  <2>2. LineTypeOK' /\ Once' /\ Signals' /\ BlindHandler'
    BY <2>1, OnceSame DEF sockVars, given, SocketsTypeOK, SigStates, Signals, BlindHandler
  <2>3. \A c \in Client : Gone(c) => Gone(c)' /\ conn'[c] = conn[c]
    BY <2>1 DEF sockVars, Gone, Waiting
  <2>4. program = "UN" => \A c \in Client : conn'[c] \in {"off", "on", "fin"}
    BY <2>1 DEF sockVars, Turned
  <2>. QED BY <2>1, <2>2, <2>3, <2>4, LineKeeps DEF sockVars
<1>9. ASSUME SigURGRead, program \in Lines PROVE LineInv'
  <2>1. /\ UNCHANGED <<given, conn, backlog, file, sent, taken, turn, confd, idle, crowded>>
        /\ server = "up" /\ sig \in {"handling", "again"} /\ turn = "read" /\ confd \in Client
        /\ sig' = IF sig = "again" THEN "pending" ELSE "no"
    BY <1>9 DEF SigURGRead, Signals, Turned
  <2>2. \/ /\ urgent[confd] = "signalled" /\ UNCHANGED <<server, blind>>
           /\ urgent' = [urgent EXCEPT ![confd] = "none"]
        \/ /\ urgent[confd] # "signalled" /\ blind' = TRUE
           /\ server' \in {"up", "stray"} /\ urgent' = urgent
    BY <1>9 DEF SigURGRead
  <2>3. program' = program /\ most' = most /\ server' \in {"up", "stray"}
    BY <2>1, <2>2 DEF given
  <2>4. LineTypeOK' /\ Once' /\ NoGap'
    BY <2>1, <2>2, <2>3, OnceSame
       DEF SocketsTypeOK, ServerStates, UrgentStates, SigStates, NoGap
  <2>5. Turned' /\ Ended'
    BY <2>1, <2>3 DEF Turned, Newest, Gone, Waiting, Ended
  <2>6. Signals'
    BY <2>1 DEF Signals
  <2>7. BlindHandler'
    <3>1. CASE urgent[confd] = "signalled"
      BY <2>1, <2>2, <2>3, <3>1 DEF BlindHandler
    <3>2. CASE urgent[confd] # "signalled"
      <4>1. crowded' = TRUE
        BY <2>1, <3>2 DEF Signals
      <4>. QED BY <4>1 DEF BlindHandler
    <3>. QED BY <3>1, <3>2
  <2>. QED BY <2>4, <2>5, <2>6, <2>7
<1>. QED
  BY <1>1, <1>2, <1>4, <1>5, <1>6, <1>7, <1>8, <1>9 DEF LineNext, LineMain

\* UN, 1V1 and OOB: whoever was accepted before the server's client has left and
\* was heard to the last unit, the server ends only when its client was, and a
\* handler finds no urgent byte only after two of them came close together, for
\* any number of clients and descriptors and any interleaving of signals (UN's
\* server.c, lines 42-63; 1V1's, lines 55-89; OOB's, lines 57-64 and 72-112).
THEOREM OneAfterTheOther == LineSpec => []LineSafe
BY LineImplies, LineInitial, LineStepInv, PTL DEF LineSpec
-----------------------------------------------------------------------------
(* tserver.c again: what its threads write.                                *)

\* The thread made for c while no thread was led astray: between a read and its
\* write it holds what was read last, else all that was read has been written; a
\* connection is gone after a write to it or an error, and written to once more
\* only after another read.
Tidy(c) ==
  /\ thread[c] = "echo" =>
       chunk[c].of = c /\ chunk[c].lo = echoed[c] /\ chunk[c].hi = taken[c]
  /\ thread[c] # "echo" => echoed[c] = taken[c]
  /\ conn[c] = "dead" =>
       /\ thread[c] \in {"read", "echo", "done"}
       /\ thread[c] = "read" => taken[c] >= 1
       /\ thread[c] = "echo" => taken[c] >= 2

\* The connection main is at has no thread yet.
AtNew == place # "accept" => \A f \in Fd : Newest(f) => thread[file[f]] = "none"

EchoInv ==
  /\ ThreadTypeOK /\ TsInv /\ Once /\ NoGap /\ AtNew
  /\ \A c \in Client : thread[c] = "echo" => chunk[c].lo < chunk[c].hi
  /\ ~overtaken => ~disorder /\ \A c \in Client : Tidy(c)
  /\ KilledByFarewell

LEMMA EchoInitial == ThreadInit => EchoInv
<1>. SUFFICES ASSUME ThreadInit PROVE EchoInv
  OBVIOUS
<1>1. ThreadTypeOK
  <2>1. NoOne \in Record /\ Empty \in [of : Client \union {None}, lo : Nat, hi : Nat]
    BY DEF NoOne, Record, Empty
  <2>. QED BY <2>1, InitTypes DEF ThreadInit, ThreadTypeOK, Places, Strands
<1>2. TsInv /\ Once /\ NoGap
  BY ThreadInitial, OnceInitial DEF ThreadInit
<1>3. \A c \in Client : thread[c] # "echo"
  BY DEF ThreadInit
<1>4. \A c \in Client : Tidy(c)
  BY DEF ThreadInit, SocketsInit, Tidy
<1>5. ~disorder
  BY DEF ThreadInit
<1>. QED BY <1>1, <1>2, <1>3, <1>4, <1>5
         DEF ThreadInit, SocketsInit, EchoInv, AtNew, KilledByFarewell

\* Where a thread's descriptor leads.
LEMMA PeerIs ==
  ASSUME EchoInv, NEW c \in Client, thread[c] \in {"read", "echo"}
  PROVE  Peer(c) \in Client /\ (~overtaken => Peer(c) = c)
BY DEF EchoInv, TsInv, TsTypes, Led, Peer

\* Steps that concern neither main nor a thread: clients, and a start.
LEMMA EchoKeeps ==
  ASSUME EchoInv, UNCHANGED <<given, file, taken, threadVars>>, SocketsTypeOK', Once',
         server' = server \/ (server' # "killed" /\ server # "killed"),
         \A c \in Client : conn'[c] = "dead" => conn[c] = "dead",
         program = "echo" \/ \A c \in Client : conn[c] = "dead" => conn'[c] = "dead"
  PROVE  EchoInv'
<1>1. UNCHANGED <<place, arg, refused, dropped, thread, own, chunk, echoed, overtaken, disorder>>
  BY DEF threadVars
<1>2. ThreadTypeOK'
  BY <1>1 DEF EchoInv, ThreadTypeOK
<1>3. TsInv'
  BY <1>1, <1>2, TsSame DEF EchoInv, SocketsTypeOK
<1>4. NoGap' /\ AtNew'
  BY <1>1 DEF EchoInv, NoGap, AtNew, Newest
<1>5. ~overtaken => \A c \in Client : Tidy(c)'
  BY <1>1 DEF EchoInv, Tidy
<1>6. KilledByFarewell'
  BY <1>1 DEF EchoInv, KilledByFarewell, given
<1>. QED BY <1>1, <1>2, <1>3, <1>4, <1>5, <1>6 DEF EchoInv

LEMMA EchoMainInv == EchoInv /\ TsMain => EchoInv'
<1>. SUFFICES ASSUME EchoInv, TsMain PROVE EchoInv'
  OBVIOUS
<1>. USE SocketsAssumption
<1>1. TsInv' /\ SocketsTypeOK
  BY TsStepInv DEF EchoInv, TsStep, ThreadTypeOK
<1>2. CASE ThreadStartUp
  BY <1>1, <1>2, StartTypes, OnceSame, EchoKeeps DEF ThreadStartUp, StartsOrFails, EchoInv
<1>3. CASE TsAcceptFails
  <2>1. SocketsTypeOK' /\ Once'
    BY <1>1, <1>3, OnceSame DEF TsAcceptFails, sockVars, given, SocketsTypeOK, EchoInv
  <2>. QED BY <1>3, <2>1, EchoKeeps DEF TsAcceptFails, sockVars
<1>4. CASE TsAccept
  <2>1. PICK f \in Fd : AcceptAs(f)
    BY <1>4 DEF TsAccept
  <2>2. SocketsTypeOK' /\ Head(backlog) \in Client /\ Once' /\ NoGap' /\ Newest(f)'
    BY <1>1, <2>1, AcceptTypes, OnceAccept DEF EchoInv
  <2>3. /\ UNCHANGED <<given, server, conn, sent, taken, arg, refused, dropped, thread, own,
                       chunk, echoed, overtaken, disorder>>
        /\ place' = "sock" /\ backlog # <<>>
        /\ file[f] = None /\ file'[f] = Head(backlog) /\ \A g \in Fd : g # f => file'[g] = file[g]
    BY <1>1, <1>4, <2>1 DEF TsAccept, AcceptAs, LowestFree, SocketsTypeOK
  <2>4. ThreadTypeOK'
    BY <2>2, <2>3 DEF EchoInv, ThreadTypeOK, Places
  <2>5. thread[Head(backlog)] = "none"
    <3>1. Head(backlog) = backlog[1] /\ 1 \in DOMAIN backlog
      BY <1>1, <2>3 DEF SocketsTypeOK
    <3>2. \A g \in Fd : file[g] # Head(backlog)
      BY <3>1 DEF EchoInv, Once
    <3>3. Led(Head(backlog))
      BY <2>2 DEF EchoInv, TsInv
    <3>. QED BY <3>2, <3>3 DEF Led
  <2>6. ASSUME NEW g \in Fd, Newest(g)' PROVE g = f
    <3>1. f \in Nat /\ g \in Nat /\ file'[f] # None /\ file'[g] # None
      BY <2>2, <2>6 DEF Newest
    <3>2. ~(g > f) /\ ~(f > g)
      BY <2>2, <2>6, <3>1 DEF Newest
    <3>. QED BY <3>1, <3>2
  <2>7. AtNew'
    BY <2>3, <2>5, <2>6 DEF AtNew
  <2>8. KilledByFarewell'
    BY <2>3 DEF EchoInv, KilledByFarewell, given
  <2>9. ~overtaken => \A c \in Client : Tidy(c)'
    BY <2>3 DEF EchoInv, Tidy
  <2>. QED BY <1>1, <2>2, <2>3, <2>4, <2>7, <2>8, <2>9 DEF EchoInv
<1>5. CASE TsAcceptDrops
  <2>1. /\ UNCHANGED <<given, server, conn, file, sent, taken, place, arg, refused, thread, own,
                       chunk, echoed, overtaken, disorder>>
        /\ backlog # <<>> /\ backlog' = Tail(backlog)
        /\ dropped' = dropped \union {Head(backlog)}
    BY <1>5 DEF TsAcceptDrops
  <2>2. SocketsTypeOK' /\ Head(backlog) \in Client
    BY <1>1, <2>1 DEF SocketsTypeOK, given
  <2>3. Once'
    BY <1>1, <2>1, OnceDrop DEF EchoInv
  <2>4. ThreadTypeOK'
    BY <2>1, <2>2 DEF EchoInv, ThreadTypeOK
  <2>5. NoGap' /\ AtNew' /\ KilledByFarewell'
    BY <2>1 DEF EchoInv, NoGap, AtNew, Newest, KilledByFarewell, given
  <2>6. ~overtaken => \A c \in Client : Tidy(c)'
    BY <2>1 DEF EchoInv, Tidy
  <2>. QED BY <1>1, <2>1, <2>3, <2>4, <2>5, <2>6 DEF EchoInv
<1>6. CASE TsFillSock \/ TsFillPort
  <2>1. /\ UNCHANGED <<sockVars, refused, dropped, thread, own, chunk, echoed, disorder>>
        /\ place # "accept" /\ place' \in {"port", "create"}
    BY <1>6 DEF TsFillSock, TsFillPort
  <2>2. overtaken => overtaken'
    BY <1>6, Zenon DEF TsFillSock, TsFillPort
  <2>3. ThreadTypeOK'
    <3>1. SocketsTypeOK'
      BY <1>1, <2>1 DEF sockVars, given, SocketsTypeOK
    <3>2. place' \in Places /\ arg' \in Record /\ overtaken' \in BOOLEAN
      BY <1>1 DEF TsInv, TsTypes
    <3>. QED BY <2>1, <3>1, <3>2 DEF EchoInv, ThreadTypeOK
  <2>4. Once' /\ NoGap' /\ AtNew'
    BY <2>1, OnceSame DEF EchoInv, NoGap, AtNew, Newest, sockVars
  <2>5. KilledByFarewell'
    BY <2>1, <2>2 DEF EchoInv, KilledByFarewell, sockVars, given
  <2>6. ~overtaken' => ~overtaken /\ ~disorder' /\ \A c \in Client : Tidy(c)'
    BY <2>1, <2>2 DEF EchoInv, Tidy, sockVars
  <2>. QED BY <1>1, <2>1, <2>3, <2>4, <2>5, <2>6 DEF EchoInv
<1>7. CASE TsCreate
  <2>1. /\ UNCHANGED <<sockVars, arg, dropped, own, chunk, echoed, overtaken, disorder>>
        /\ place = "create" /\ place' = "accept"
    BY <1>7 DEF TsCreate
  <2>2. arg.port \in Client /\ thread[arg.port] = "none"
    BY <2>1 DEF EchoInv, TsInv, TsTypes, Filled, Newest, AtNew
  <2>3. \/ thread' = [thread EXCEPT ![arg.port] = "born"] /\ refused' = refused
        \/ thread' = thread /\ refused' = refused \union {arg.port}
    BY <1>7 DEF TsCreate
  <2>4. ThreadTypeOK'
    <3>1. SocketsTypeOK'
      BY <1>1, <2>1 DEF sockVars, given, SocketsTypeOK
    <3>2. place' \in Places /\ thread' \in [Client -> Strands] /\ refused' \subseteq Client
      BY <1>1, <2>2, <2>3 DEF TsInv, TsTypes, EchoInv, ThreadTypeOK
    <3>. QED BY <2>1, <3>1, <3>2 DEF EchoInv, ThreadTypeOK
  <2>5. Once' /\ NoGap' /\ AtNew' /\ KilledByFarewell'
    BY <2>1, OnceSame DEF EchoInv, NoGap, AtNew, KilledByFarewell, sockVars, given
  <2>6. ASSUME ~overtaken, NEW c \in Client PROVE Tidy(c)'
    <3>1. Tidy(c)
      BY <2>6 DEF EchoInv
    <3>2. thread'[c] = thread[c] \/ (thread[c] = "none" /\ thread'[c] = "born")
      BY <2>2, <2>3 DEF EchoInv, ThreadTypeOK
    <3>. QED BY <2>1, <3>1, <3>2 DEF Tidy, sockVars
  <2>7. \A c \in Client : thread'[c] = "echo" => thread[c] = "echo"
    BY <2>2, <2>3 DEF EchoInv, ThreadTypeOK
  <2>. QED BY <1>1, <2>1, <2>4, <2>5, <2>6, <2>7 DEF EchoInv
<1>. QED BY <1>2, <1>3, <1>4, <1>5, <1>6, <1>7 DEF TsMain

LEMMA EchoTakeInv ==
  ASSUME EchoInv, NEW c \in Client, TakeSock(c) \/ TakePort(c)
  PROVE  EchoInv'
<1>1. TsInv'
  BY TsStepInv DEF EchoInv, TsStep, HandleClient
<1>2. /\ UNCHANGED <<sockVars, place, arg, refused, dropped, chunk, echoed, overtaken, disorder>>
      /\ thread[c] \in {"born", "half"} /\ thread'[c] \in {"half", "read"}
      /\ \A d \in Client : d # c => thread'[d] = thread[d]
  BY DEF TakeSock, TakePort, EchoInv, ThreadTypeOK
<1>3. ThreadTypeOK'
  <2>1. SocketsTypeOK'
    BY <1>2 DEF sockVars, given, EchoInv, ThreadTypeOK, SocketsTypeOK
  <2>2. thread' \in [Client -> Strands] /\ own' \in [Client -> Record]
    BY <1>1 DEF TsInv, TsTypes
  <2>. QED BY <1>2, <2>1, <2>2 DEF EchoInv, ThreadTypeOK
<1>4. Once' /\ NoGap' /\ KilledByFarewell'
  BY <1>2, OnceSame DEF EchoInv, NoGap, KilledByFarewell, sockVars, given
<1>5. AtNew'
  BY <1>2 DEF EchoInv, AtNew, Newest, sockVars, ThreadTypeOK, SocketsTypeOK
<1>6. \A d \in Client : thread'[d] = "echo" => chunk'[d].lo < chunk'[d].hi
  BY <1>2 DEF EchoInv
<1>7. ASSUME ~overtaken, NEW d \in Client PROVE Tidy(d)'
  <2>1. Tidy(d)
    BY <1>7 DEF EchoInv
  <2>. QED BY <1>2, <2>1 DEF Tidy, sockVars
<1>. QED BY <1>1, <1>2, <1>3, <1>4, <1>5, <1>6, <1>7 DEF EchoInv

LEMMA EchoReadInv ==
  ASSUME EchoInv, NEW c \in Client, TsRead(c)
  PROVE  EchoInv'
<1>. USE SocketsAssumption
<1>. DEFINE p == Peer(c)
<1>1. TsInv' /\ SocketsTypeOK
  BY TsStepInv DEF EchoInv, TsStep, HandleClient, ThreadTypeOK
<1>2. /\ Reads(p) /\ UNCHANGED <<server, file, place, arg, refused, dropped, own, echoed,
                                  overtaken, disorder>>
      /\ thread[c] = "read" /\ thread' = [thread EXCEPT ![c] = "echo"]
      /\ chunk' = [chunk EXCEPT ![c] = Piece(p)]
  BY DEF TsRead
<1>3. p \in Client /\ (~overtaken => p = c)
  BY <1>2, PeerIs
<1>. HIDE DEF p
<1>4. ReadSize(p) \in Nat /\ ReadSize(p) > 0 /\ taken[p] \in Nat
  BY <1>1, <1>2, <1>3 DEF Reads, Waiting, ReadSize, SocketsTypeOK
<1>5. /\ UNCHANGED <<given, conn, backlog, sent>> /\ server = "up"
      /\ taken'[p] = taken[p] + ReadSize(p) /\ \A d \in Client : d # p => taken'[d] = taken[d]
  BY <1>1, <1>2, <1>3 DEF Reads, SocketsTypeOK
<1>6. /\ thread'[c] = "echo" /\ chunk'[c] = Piece(p)
      /\ \A d \in Client : d # c => thread'[d] = thread[d] /\ chunk'[d] = chunk[d]
  BY <1>2 DEF EchoInv, ThreadTypeOK
<1>7. Piece(p) = [of |-> p, lo |-> taken[p], hi |-> taken[p] + ReadSize(p)]
  BY DEF Piece
<1>8. ThreadTypeOK'
  <2>1. SocketsTypeOK'
    BY <1>1, <1>2, <1>3, ReadTypes DEF SocketsTypeOK
  <2>2. Piece(p) \in [of : Client \union {None}, lo : Nat, hi : Nat]
    BY <1>3, <1>4, <1>7
  <2>3. chunk' \in [Client -> [of : Client \union {None}, lo : Nat, hi : Nat]]
    BY <1>2, <2>2 DEF EchoInv, ThreadTypeOK
  <2>4. thread' \in [Client -> Strands]
    BY <1>1 DEF TsInv, TsTypes
  <2>. QED BY <1>2, <2>1, <2>3, <2>4 DEF EchoInv, ThreadTypeOK
<1>9. Once' /\ NoGap' /\ KilledByFarewell'
  BY <1>2, <1>5, OnceSame DEF EchoInv, NoGap, KilledByFarewell
<1>10. AtNew'
  BY <1>2, <1>6 DEF EchoInv, AtNew, Newest, ThreadTypeOK, SocketsTypeOK
<1>11. \A d \in Client : thread'[d] = "echo" => chunk'[d].lo < chunk'[d].hi
  BY <1>4, <1>6, <1>7 DEF EchoInv
<1>12. ASSUME ~overtaken, NEW d \in Client PROVE Tidy(d)'
  <2>1. Tidy(d)
    BY <1>12 DEF EchoInv
  <2>2. CASE d # c
    BY <1>2, <1>3, <1>5, <1>6, <1>12, <2>1, <2>2 DEF Tidy
  <2>3. CASE d = c
    <3>1. p = d
      BY <1>3, <1>12, <2>3
    <3>. QED BY <1>2, <1>4, <1>5, <1>6, <1>7, <2>1, <2>3, <3>1 DEF Tidy
  <2>. QED BY <2>2, <2>3
<1>. QED BY <1>1, <1>2, <1>8, <1>9, <1>10, <1>11, <1>12 DEF EchoInv

LEMMA EchoReadEndInv ==
  ASSUME EchoInv, NEW c \in Client, TsReadEnd(c)
  PROVE  EchoInv'
<1>. USE SocketsAssumption
<1>. DEFINE p == Peer(c)
<1>1. TsInv' /\ SocketsTypeOK
  BY TsStepInv DEF EchoInv, TsStep, HandleClient, ThreadTypeOK
<1>2. /\ ReadsEnd(p) \/ ReadsError(p)
      /\ UNCHANGED <<server, file, place, arg, refused, dropped, own, chunk, echoed,
                     overtaken, disorder>>
      /\ thread[c] = "read" /\ thread' = [thread EXCEPT ![c] = "done"]
  BY DEF TsReadEnd
<1>3. p \in Client /\ (~overtaken => p = c)
  BY <1>2, PeerIs
<1>. HIDE DEF p
<1>4. /\ UNCHANGED <<given, backlog, sent, taken>> /\ server = "up" /\ conn[p] # "off"
      /\ conn'[p] \in {"fin", "dead"} /\ \A d \in Client : d # p => conn'[d] = conn[d]
  BY <1>1, <1>2, <1>3 DEF ReadsEnd, ReadsError, SocketsTypeOK
<1>5. thread'[c] = "done" /\ \A d \in Client : d # c => thread'[d] = thread[d]
  BY <1>2 DEF EchoInv, ThreadTypeOK
<1>6. ThreadTypeOK'
  <2>1. SocketsTypeOK'
    BY <1>1, <1>2, <1>3, ReadTypes DEF SocketsTypeOK
  <2>2. thread' \in [Client -> Strands]
    BY <1>1 DEF TsInv, TsTypes
  <2>. QED BY <1>2, <2>1, <2>2 DEF EchoInv, ThreadTypeOK
<1>7. Once'
  BY <1>2, <1>4, OnceSame DEF EchoInv
<1>8. NoGap' /\ KilledByFarewell'
  BY <1>2, <1>4 DEF EchoInv, NoGap, KilledByFarewell
<1>9. AtNew'
  BY <1>2, <1>5 DEF EchoInv, AtNew, Newest, ThreadTypeOK, SocketsTypeOK
<1>10. \A d \in Client : thread'[d] = "echo" => chunk'[d].lo < chunk'[d].hi
  BY <1>2, <1>5 DEF EchoInv
<1>11. ASSUME ~overtaken, NEW d \in Client PROVE Tidy(d)'
  <2>1. Tidy(d) /\ p = c
    BY <1>3, <1>11 DEF EchoInv
  <2>. QED BY <1>2, <1>4, <1>5, <2>1 DEF Tidy
<1>. QED BY <1>1, <1>2, <1>6, <1>7, <1>8, <1>9, <1>10, <1>11 DEF EchoInv

LEMMA EchoWriteInv ==
  ASSUME EchoInv, NEW c \in Client, TsWrite(c)
  PROVE  EchoInv'
<1>. USE SocketsAssumption
<1>. DEFINE p == Peer(c)
<1>1. TsInv' /\ SocketsTypeOK
  BY TsStepInv DEF EchoInv, TsStep, HandleClient, ThreadTypeOK
<1>2. /\ Writes(p)
      /\ UNCHANGED <<place, arg, refused, dropped, own, chunk, overtaken>>
      /\ thread[c] = "echo" /\ thread' = [thread EXCEPT ![c] = "read"]
      /\ echoed' = [echoed EXCEPT ![p] = @ + chunk[c].hi - chunk[c].lo]
      /\ disorder' = (disorder \/ chunk[c].of # p \/ chunk[c].lo # echoed[p])
  BY DEF TsWrite
<1>3. p \in Client /\ (~overtaken => p = c)
  BY <1>2, PeerIs
<1>. HIDE DEF p
<1>4. /\ UNCHANGED <<given, backlog, file, sent, taken>> /\ server = "up"
      /\ \A d \in Client : d # p => conn'[d] = conn[d]
      /\ \A d \in Client : conn'[d] = "off" => conn[d] = "off"
      /\ server' = "up" \/ (server' = "killed" /\ conn[p] = "dead" /\ conn'[p] = "dead")
  BY <1>1, <1>2, <1>3 DEF Writes, SocketsTypeOK
<1>5. thread'[c] = "read" /\ \A d \in Client : d # c => thread'[d] = thread[d]
  BY <1>2 DEF EchoInv, ThreadTypeOK
<1>6. /\ chunk[c].lo \in Nat /\ chunk[c].hi \in Nat /\ chunk[c].lo < chunk[c].hi
      /\ echoed[p] \in Nat
  BY <1>2, <1>3 DEF EchoInv, ThreadTypeOK
<1>7. /\ echoed' \in [Client -> Nat] /\ echoed'[p] = echoed[p] + chunk[c].hi - chunk[c].lo
      /\ \A d \in Client : d # p => echoed'[d] = echoed[d]
  <2>. DEFINE n == echoed[p] + chunk[c].hi - chunk[c].lo
  <2>1. n \in Nat
    BY <1>6
  <2>2. echoed \in [Client -> Nat] /\ echoed' = [echoed EXCEPT ![p] = n]
    BY <1>2 DEF EchoInv, ThreadTypeOK
  <2>. HIDE DEF n
  <2>3. /\ echoed' \in [Client -> Nat] /\ echoed'[p] = n
        /\ \A d \in Client : d # p => echoed'[d] = echoed[d]
    BY <1>3, <2>1, <2>2
  <2>. QED BY <2>3 DEF n
<1>8. ThreadTypeOK'
  <2>1. SocketsTypeOK'
    BY <1>1, <1>2, <1>3, WriteTypes
  <2>2. thread' \in [Client -> Strands]
    BY <1>1 DEF TsInv, TsTypes
  <2>3. disorder' \in BOOLEAN
    BY <1>2, Zenon
  <2>. QED BY <1>2, <1>7, <2>1, <2>2, <2>3 DEF EchoInv, ThreadTypeOK
<1>9. Once' /\ NoGap'
  BY <1>4, OnceSame DEF EchoInv, NoGap
<1>10. AtNew'
  BY <1>2, <1>4, <1>5 DEF EchoInv, AtNew, Newest, ThreadTypeOK, SocketsTypeOK
<1>11. \A d \in Client : thread'[d] = "echo" => chunk'[d].lo < chunk'[d].hi
  BY <1>2, <1>5 DEF EchoInv
<1>12. KilledByFarewell'
  <2>. SUFFICES ASSUME server' = "killed"
                PROVE  conn'[p] = "dead" /\ (taken'[p] >= 2 \/ overtaken')
    BY <1>3 DEF KilledByFarewell
  <2>1. conn[p] = "dead" /\ conn'[p] = "dead"
    BY <1>4
  <2>2. CASE ~overtaken
    BY <1>2, <1>3, <1>4, <2>1, <2>2 DEF EchoInv, Tidy
  <2>. QED BY <1>2, <2>1, <2>2
<1>13. ASSUME ~overtaken, NEW d \in Client PROVE ~disorder' /\ Tidy(d)'
  <2>1. Tidy(d) /\ Tidy(c) /\ p = c /\ ~disorder /\ taken[c] \in Nat
    BY <1>1, <1>3, <1>13 DEF EchoInv, SocketsTypeOK
  <2>2. ~disorder'
    BY <1>2, <2>1 DEF Tidy
  <2>3. CASE d # c
    BY <1>2, <1>4, <1>5, <1>7, <2>1, <2>3 DEF Tidy
  <2>4. CASE d = c
    <3>1. chunk[c].lo = echoed[c] /\ chunk[c].hi = taken[c]
      BY <1>2, <2>1 DEF Tidy
    <3>2. echoed'[c] = taken[c] /\ taken[c] >= 1
      BY <1>6, <1>7, <2>1, <3>1
    <3>. QED BY <1>4, <1>5, <2>2, <2>4, <3>2 DEF Tidy
  <2>. QED BY <2>2, <2>3, <2>4
<1>14. ~overtaken => ~disorder'
  <2>1. ~overtaken => Tidy(c) /\ ~disorder
    BY DEF EchoInv
  <2>. QED BY <1>2, <1>3, <2>1 DEF Tidy
<1>. QED BY <1>1, <1>2, <1>8, <1>9, <1>10, <1>11, <1>12, <1>13, <1>14 DEF EchoInv

LEMMA EchoServerInv ==
  ASSUME EchoInv, TsMain \/ \E c \in Client : HandleClient(c)
  PROVE  EchoInv'
BY EchoMainInv, EchoTakeInv, EchoReadInv, EchoReadEndInv, EchoWriteInv DEF HandleClient

LEMMA ThreadStepInv ==
  EchoInv /\ [ThreadNext]_<<sockVars, threadVars>> => EchoInv'
<1>. SUFFICES ASSUME EchoInv, [ThreadNext]_<<sockVars, threadVars>> PROVE EchoInv'
  OBVIOUS
<1>1. SocketsTypeOK /\ Once
  BY DEF EchoInv, ThreadTypeOK
<1>2. ASSUME NEW c \in Client, ThreadClient(c) PROVE EchoInv'
  <2>1. UNCHANGED <<given, server, file, taken, threadVars>> /\ SocketsTypeOK'
    BY <1>1, <1>2, ClientTypes DEF ThreadClient, Connect, Say, Part, Break
  <2>2. CASE Connect(c)
    <3>1. \A d \in Client : conn'[d] = "dead" <=> conn[d] = "dead"
      BY <1>1, <2>2 DEF Connect, SocketsTypeOK
    <3>. QED BY <1>1, <2>1, <2>2, <3>1, OnceConnect, EchoKeeps
  <2>3. CASE Say(c) \/ Part(c) \/ Break(c)
    <3>1. /\ UNCHANGED <<backlog, file>> /\ conn[c] = "on"
          /\ conn'[c] \in {"on", "fin", "rst"}
          /\ \A d \in Client : d # c => conn'[d] = conn[d] /\ sent'[d] = sent[d]
      BY <1>1, <2>3 DEF Say, Part, Break, SocketsTypeOK
    <3>2. Once'
      BY <1>1, <3>1, OnceSame
    <3>3. \A d \in Client : conn'[d] = "dead" <=> conn[d] = "dead"
      BY <3>1
    <3>. QED BY <2>1, <3>2, <3>3, EchoKeeps
  <2>. QED BY <1>2, <2>2, <2>3 DEF ThreadClient
<1>3. CASE UNCHANGED <<sockVars, threadVars>>
  <2>1. SocketsTypeOK' /\ Once'
    BY <1>1, <1>3, OnceSame DEF sockVars, given, SocketsTypeOK
  <2>. QED BY <1>3, <2>1, EchoKeeps DEF sockVars
<1>. QED BY <1>2, <1>3, EchoServerInv DEF ThreadNext

\* pthreadServer/tserver.c: what a client sends comes back to it, each unit once
\* and in turn, unless main has written its record before a thread had read it; and
\* SIGPIPE kills the server only by the second write to a connection that is gone
\* (lines 48-75, 82-92).
THEOREM EchoesInOrder ==
  ThreadSpec => [](ThreadTypeOK /\ EchoInOrder /\ KilledByFarewell)
<1>1. EchoInv => ThreadTypeOK /\ EchoInOrder /\ KilledByFarewell
  BY DEF EchoInv, EchoInOrder
<1>. QED BY <1>1, EchoInitial, ThreadStepInv, PTL DEF ThreadSpec

-----------------------------------------------------------------------------
(* pthreadServer/client.c with it.                                         *)

\* What client c has heard is what it has sent, but for the unit whose reply it
\* waits for.
Answered(c) ==
  \/ /\ user[c] = "stdin" => heard[c] = sent[c]
     /\ user[c] = "reply" => sent[c] \in {heard[c], heard[c] + 1}
  \/ c \in long \union dropped \/ overtaken \/ server # "up"

UcInv ==
  /\ user \in [Client -> {"off", "stdin", "reply", "done"}] /\ heard \in [Client -> Nat]
  /\ finished \subseteq Client /\ long \subseteq Client
  /\ server = "starting" => \A c \in Client : user[c] = "off"
  /\ \A c \in Client :
       /\ user[c] = "off" <=> conn[c] = "off"
       /\ user[c] = "off" => heard[c] = 0
       /\ heard[c] <= echoed[c]
       /\ Answered(c)

LEMMA UcInitial == EchoInit => EchoInv /\ UcInv
<1>. SUFFICES ASSUME EchoInit PROVE UcInv
  BY EchoInitial DEF EchoInit
<1>. QED BY DEF EchoInit, ThreadInit, SocketsInit, UcInv, Answered

\* What main and the threads leave to the clients.
LEMMA ServerLeaves ==
  ASSUME EchoInv, TsMain \/ \E c \in Client : HandleClient(c)
  PROVE  /\ sent' = sent /\ dropped \subseteq dropped' /\ (overtaken => overtaken')
         /\ server \notin {"up", "starting"} => server' = server
         /\ server' = "starting" => server = "starting"
         /\ \A d \in Client : conn'[d] = "off" <=> conn[d] = "off"
         /\ \A d \in Client : echoed'[d] >= echoed[d]
<1>. USE SocketsAssumption
<1>0. /\ SocketsTypeOK /\ echoed \in [Client -> Nat]
      /\ \A d \in Client : echoed[d] \in Nat
  BY DEF EchoInv, ThreadTypeOK
<1>1. CASE ThreadStartUp \/ TsAcceptFails
  BY <1>0, <1>1 DEF ThreadStartUp, StartsOrFails, TsAcceptFails, sockVars, threadVars
<1>2. CASE TsAccept \/ TsAcceptDrops
  BY <1>0, <1>2 DEF TsAccept, AcceptAs, TsAcceptDrops
<1>3. CASE TsFillSock \/ TsFillPort \/ TsCreate
  <2>1. overtaken => overtaken'
    BY <1>3, Zenon DEF TsFillSock, TsFillPort, TsCreate
  <2>2. UNCHANGED <<sockVars, dropped, echoed>>
    BY <1>3 DEF TsFillSock, TsFillPort, TsCreate
  <2>. QED BY <1>0, <2>1, <2>2 DEF sockVars
<1>4. ASSUME NEW c \in Client, TakeSock(c) \/ TakePort(c)
      PROVE  UNCHANGED <<sent, dropped, overtaken, server, conn, echoed>>
  BY <1>4 DEF TakeSock, TakePort, sockVars
<1>5. ASSUME NEW c \in Client, TsRead(c)
      PROVE  UNCHANGED <<sent, dropped, overtaken, server, conn, echoed>>
  BY <1>5 DEF TsRead, Reads
<1>6. ASSUME NEW c \in Client, TsReadEnd(c)
      PROVE  /\ UNCHANGED <<sent, dropped, overtaken, server, echoed>>
             /\ \A d \in Client : conn'[d] = "off" <=> conn[d] = "off"
  <2>1. Peer(c) \in Client
    BY <1>6, PeerIs DEF TsReadEnd
  <2>. QED BY <1>0, <1>6, <2>1 DEF TsReadEnd, ReadsEnd, ReadsError, SocketsTypeOK
<1>7. ASSUME NEW c \in Client, TsWrite(c)
      PROVE  /\ UNCHANGED <<sent, dropped, overtaken>> /\ server = "up" /\ server' # "starting"
             /\ \A d \in Client : conn'[d] = "off" <=> conn[d] = "off"
             /\ \A d \in Client : echoed'[d] >= echoed[d]
  <2>. DEFINE p == Peer(c)
  <2>1. p \in Client /\ thread[c] = "echo"
    BY <1>7, PeerIs DEF TsWrite
  <2>2. conn[p] # "off"
    BY <2>1 DEF EchoInv, Once, TsInv, TsTypes, Led, Peer
  <2>. HIDE DEF p
  <2>3. Writes(p) /\ UNCHANGED <<dropped, overtaken>>
        /\ echoed' = [echoed EXCEPT ![p] = @ + chunk[c].hi - chunk[c].lo]
    BY <1>7 DEF TsWrite, p
  <2>4. \A d \in Client : conn'[d] = "off" <=> conn[d] = "off"
    BY <1>0, <2>1, <2>2, <2>3 DEF Writes, SocketsTypeOK
  <2>5. /\ chunk[c].lo \in Nat /\ chunk[c].hi \in Nat /\ chunk[c].lo < chunk[c].hi
    BY <2>1 DEF EchoInv, ThreadTypeOK
  <2>6. \A d \in Client : echoed'[d] \in {echoed[d], echoed[d] + chunk[c].hi - chunk[c].lo}
    BY <1>0, <2>1, <2>3
  <2>7. \A d \in Client : echoed'[d] >= echoed[d]
    <3>. TAKE d \in Client
    <3>. QED BY <1>0, <2>5, <2>6
  <2>. QED BY <2>3, <2>4, <2>7 DEF Writes
<1>8. CASE \E c \in Client : HandleClient(c)
  BY <1>0, <1>4, <1>5, <1>6, <1>7, <1>8 DEF HandleClient
<1>. QED BY <1>1, <1>2, <1>3, <1>8 DEF TsMain

LEMMA UcServed ==
  ASSUME EchoInv, UcInv, UNCHANGED clientVars,
         TsMain \/ \E c \in Client : HandleClient(c)
  PROVE  UcInv'
<1>1. UNCHANGED <<user, heard, finished, long>>
  BY DEF clientVars
<1>2. ASSUME NEW c \in Client PROVE Answered(c)'
  <2>1. CASE server = "starting"
    BY <1>1, <2>1 DEF UcInv, Answered
  <2>2. CASE server # "starting"
    <3>1. server # "up" => server' # "up"
      BY <2>2, ServerLeaves
    <3>. QED BY <1>1, <3>1, ServerLeaves DEF UcInv, Answered
  <2>. QED BY <2>1, <2>2
<1>3. ASSUME NEW c \in Client PROVE heard'[c] <= echoed'[c]
  <2>1. heard[c] \in Nat /\ echoed[c] \in Nat /\ echoed'[c] \in Nat
    BY EchoServerInv DEF UcInv, EchoInv, ThreadTypeOK
  <2>2. heard[c] <= echoed[c] /\ echoed'[c] >= echoed[c]
    BY ServerLeaves DEF UcInv
  <2>. QED BY <1>1, <2>1, <2>2
<1>. QED BY <1>1, <1>2, <1>3, ServerLeaves DEF UcInv

\* While no thread was led astray, no more comes back than was sent.
LEMMA NoMoreThanSent ==
  ASSUME EchoInv, ~overtaken, NEW c \in Client
  PROVE  echoed[c] <= sent[c]
<1>1. /\ Tidy(c) /\ taken[c] <= sent[c] /\ echoed[c] \in Nat /\ taken[c] \in Nat /\ sent[c] \in Nat
      /\ thread[c] = "echo" => chunk[c].lo < chunk[c].hi
  BY DEF EchoInv, ThreadTypeOK, SocketsTypeOK
<1>. QED BY <1>1 DEF Tidy

LEMMA UcClientInv ==
  ASSUME EchoInv, UcInv, program = "echo", NEW c \in Client, Hears(c) \/ Types(c)
  PROVE  EchoInv' /\ UcInv'
<1>. USE SocketsAssumption
<1>1. /\ SocketsTypeOK /\ Once /\ ThreadTypeOK
      /\ \A d \in Client : heard[d] \in Nat /\ sent[d] \in Nat /\ echoed[d] \in Nat
  BY DEF EchoInv, ThreadTypeOK, SocketsTypeOK, UcInv
<1>2. UNCHANGED <<given, server, file, taken, threadVars>>
  BY DEF Hears, Types, UcConnect, UcType, UcTypeEnd, UcReply, UcReplyNone, UcKilled,
         Connect, Part, Break, sockVars
<1>3. UNCHANGED <<dropped, echoed, overtaken>>
  BY <1>2 DEF threadVars
<1>4. CASE UcConnect(c)
  <2>1. /\ Connect(c) /\ user[c] = "off" /\ user' = [user EXCEPT ![c] = "stdin"]
        /\ UNCHANGED <<heard, finished, long>>
    BY <1>4 DEF UcConnect
  <2>2. /\ UNCHANGED sent /\ server = "up" /\ conn[c] = "off" /\ conn'[c] = "on"
        /\ \A d \in Client : d # c => conn'[d] = conn[d]
    BY <1>1, <2>1 DEF Connect, SocketsTypeOK
  <2>3. EchoInv'
    BY <1>1, <1>2, <2>1, <2>2, ClientTypes, OnceConnect, EchoKeeps
  <2>4. user' \in [Client -> {"off", "stdin", "reply", "done"}] /\ user'[c] = "stdin"
        /\ \A d \in Client : d # c => user'[d] = user[d]
    BY <2>1 DEF UcInv
  <2>5. heard[c] = 0 /\ sent[c] = 0
    BY <1>1, <2>1, <2>2 DEF UcInv, Once
  <2>6. ASSUME NEW d \in Client PROVE Answered(d)'
    BY <1>2, <1>3, <2>1, <2>2, <2>4, <2>5 DEF UcInv, Answered
  <2>7. UcInv'
    BY <1>2, <1>3, <2>1, <2>2, <2>4, <2>6 DEF UcInv
  <2>. QED BY <2>3, <2>7
<1>5. CASE UcType(c)
  <2>1. PICK n \in {1, BufLen + 1} :
          /\ sent[c] + n <= MaxSends[c] /\ sent' = [sent EXCEPT ![c] = @ + n]
          /\ long' = IF n > BufLen THEN long \union {c} ELSE long
    BY <1>5 DEF UcType
  <2>2. /\ user[c] = "stdin" /\ user' = [user EXCEPT ![c] = "reply"]
        /\ UNCHANGED <<conn, backlog, heard, finished>>
    BY <1>5 DEF UcType
  <2>3. /\ n \in Nat /\ n > 0 /\ sent' \in [Client -> Nat] /\ sent'[c] = sent[c] + n
        /\ \A d \in Client : d # c => sent'[d] = sent[d]
    BY <1>1, <2>1 DEF SocketsTypeOK
  <2>4. SocketsTypeOK'
    <3>1. \A d \in Client : taken[d] \in Nat /\ taken[d] <= sent'[d] /\ sent'[d] <= MaxSends[d]
      BY <1>1, <2>1, <2>3 DEF SocketsTypeOK
    <3>. QED BY <1>1, <1>2, <2>2, <2>3, <3>1 DEF SocketsTypeOK, given
  <2>5. Once'
    <3>1. conn[c] # "off"
      BY <2>2 DEF UcInv
    <3>. QED BY <1>1, <1>2, <2>2, <2>3, <3>1, OnceSame
  <2>6. EchoInv'
    BY <1>2, <2>2, <2>4, <2>5, EchoKeeps
  <2>7. user' \in [Client -> {"off", "stdin", "reply", "done"}] /\ user'[c] = "reply"
        /\ \A d \in Client : d # c => user'[d] = user[d]
    BY <2>2 DEF UcInv
  <2>8. long \subseteq long' /\ long' \subseteq Client /\ (n # 1 => c \in long')
    BY <2>1 DEF UcInv
  <2>9. ASSUME NEW d \in Client PROVE Answered(d)'
    <3>1. Answered(d)
      BY DEF UcInv
    <3>2. CASE d # c
      BY <1>2, <1>3, <2>2, <2>3, <2>7, <2>8, <3>1, <3>2 DEF Answered
    <3>3. CASE d = c /\ n = 1
      BY <1>1, <1>2, <1>3, <2>2, <2>3, <2>7, <2>8, <3>1, <3>3 DEF Answered
    <3>4. CASE d = c /\ n # 1
      BY <2>8, <3>4 DEF Answered
    <3>. QED BY <3>2, <3>3, <3>4
  <2>10. server = "starting" => \A d \in Client : user'[d] = "off"
    BY <2>2 DEF UcInv
  <2>11. UcInv'
    BY <1>2, <1>3, <2>2, <2>7, <2>8, <2>9, <2>10 DEF UcInv
  <2>. QED BY <2>6, <2>11
<1>6. CASE UcTypeEnd(c)
  <2>1. /\ user[c] = "stdin" /\ user' = [user EXCEPT ![c] = "reply"]
        /\ finished' = finished \union {c} /\ UNCHANGED <<sockVars, heard, long>>
    BY <1>6 DEF UcTypeEnd
  <2>2. EchoInv'
    <3>1. SocketsTypeOK' /\ Once'
      BY <1>1, <2>1, OnceSame DEF sockVars, given, SocketsTypeOK
    <3>. QED BY <1>2, <2>1, <3>1, EchoKeeps DEF sockVars
  <2>3. user' \in [Client -> {"off", "stdin", "reply", "done"}] /\ user'[c] = "reply"
        /\ \A d \in Client : d # c => user'[d] = user[d]
    BY <2>1 DEF UcInv
  <2>4. ASSUME NEW d \in Client PROVE Answered(d)'
    BY <1>2, <1>3, <2>1, <2>3 DEF UcInv, Answered, sockVars
  <2>5. UcInv'
    BY <1>2, <1>3, <2>1, <2>3, <2>4 DEF UcInv, sockVars
  <2>. QED BY <2>2, <2>5
<1>7. CASE UcReply(c)
  <2>. DEFINE m == IF Unheard(c) < BufLen THEN Unheard(c) ELSE BufLen
  <2>1. /\ user[c] = "reply" /\ Unheard(c) > 0 /\ user' = [user EXCEPT ![c] = "stdin"]
        /\ heard' = [heard EXCEPT ![c] = @ + m]
        /\ UNCHANGED <<sockVars, finished, long>>
    BY <1>7 DEF UcReply
  <2>2. m \in Nat /\ m > 0 /\ heard[c] + m <= echoed[c] /\ (Unheard(c) = 1 => m = 1)
    BY <1>1, <2>1 DEF Unheard
  <2>. HIDE DEF m
  <2>3. EchoInv'
    <3>1. SocketsTypeOK' /\ Once'
      BY <1>1, <2>1, OnceSame DEF sockVars, given, SocketsTypeOK
    <3>. QED BY <1>2, <2>1, <3>1, EchoKeeps DEF sockVars
  <2>4. /\ user' \in [Client -> {"off", "stdin", "reply", "done"}] /\ user'[c] = "stdin"
        /\ heard' \in [Client -> Nat] /\ heard'[c] = heard[c] + m
        /\ \A d \in Client : d # c => user'[d] = user[d] /\ heard'[d] = heard[d]
    BY <2>1, <2>2 DEF UcInv
  <2>5. ASSUME NEW d \in Client PROVE Answered(d)'
    <3>1. Answered(d)
      BY DEF UcInv
    <3>2. CASE d # c \/ d \in long \union dropped \/ overtaken \/ server # "up"
      BY <1>2, <1>3, <2>1, <2>4, <3>1, <3>2 DEF Answered, sockVars
    <3>3. CASE d = c /\ d \notin long \union dropped /\ ~overtaken /\ server = "up"
      <4>1. sent[c] \in {heard[c], heard[c] + 1}
        BY <2>1, <3>1, <3>3 DEF Answered
      <4>2. echoed[c] <= sent[c]
        BY <3>3, NoMoreThanSent
      <4>3. sent[c] = heard[c] + 1 /\ Unheard(c) = 1
        BY <1>1, <2>1, <4>1, <4>2 DEF Unheard
      <4>4. heard'[c] = sent'[c]
        BY <2>1, <2>2, <2>4, <4>3 DEF sockVars
      <4>. QED BY <2>4, <3>3, <4>4 DEF Answered
    <3>. QED BY <3>2, <3>3
  <2>6. ASSUME NEW d \in Client PROVE heard'[d] <= echoed'[d]
    BY <1>3, <2>2, <2>4 DEF UcInv
  <2>7. \A d \in Client :
          /\ user'[d] = "off" <=> conn'[d] = "off"
          /\ user'[d] = "off" => heard'[d] = 0
    BY <2>1, <2>4 DEF UcInv, sockVars
  <2>8. server' = "starting" => \A d \in Client : user'[d] = "off"
    BY <1>2, <2>1 DEF UcInv
  <2>9. finished' \subseteq Client /\ long' \subseteq Client
    BY <2>1 DEF UcInv
  <2>10. UcInv'
    BY <2>4, <2>5, <2>6, <2>7, <2>8, <2>9 DEF UcInv
  <2>. QED BY <2>3, <2>10
<1>8. CASE UcReplyNone(c) \/ UcKilled(c)
  <2>1. /\ UNCHANGED <<backlog, sent, heard, finished, long>>
        /\ user[c] \in {"stdin", "reply"}
        /\ \/ user' = [user EXCEPT ![c] = "stdin"] /\ conn' = conn /\ (server # "up" \/ c \in dropped)
           \/ /\ user' = [user EXCEPT ![c] = "done"]
              /\ conn' = [conn EXCEPT ![c] = "fin"] \/ conn' = [conn EXCEPT ![c] = "rst"]
    BY <1>8 DEF UcReplyNone, UcKilled, Part, Break
  <2>2. conn[c] # "off"
    BY <2>1 DEF UcInv
  <2>3. /\ conn' \in [Client -> ConnStates] /\ conn'[c] # "off"
        /\ conn'[c] = "dead" => conn[c] = "dead"
        /\ \A d \in Client : d # c => conn'[d] = conn[d]
    BY <1>1, <2>1, <2>2 DEF SocketsTypeOK, ConnStates
  <2>4. EchoInv'
    <3>1. SocketsTypeOK' /\ Once'
      BY <1>1, <1>2, <2>1, <2>3, OnceSame DEF SocketsTypeOK, given
    <3>. QED BY <1>2, <2>3, <3>1, EchoKeeps
  <2>5. /\ user' \in [Client -> {"off", "stdin", "reply", "done"}]
        /\ \/ user'[c] = "stdin" /\ (server # "up" \/ c \in dropped)
           \/ user'[c] = "done"
        /\ \A d \in Client : d # c => user'[d] = user[d]
    BY <2>1 DEF UcInv
  <2>6. ASSUME NEW d \in Client PROVE Answered(d)'
    BY <1>2, <1>3, <2>1, <2>5 DEF UcInv, Answered
  <2>7. \A d \in Client :
          /\ user'[d] = "off" <=> conn'[d] = "off"
          /\ user'[d] = "off" => heard'[d] = 0
    BY <2>1, <2>2, <2>3, <2>5 DEF UcInv
  <2>8. server' = "starting" => \A d \in Client : user'[d] = "off"
    BY <1>2, <2>1 DEF UcInv
  <2>9. /\ finished' \subseteq Client /\ long' \subseteq Client
        /\ heard' \in [Client -> Nat] /\ \A d \in Client : heard'[d] <= echoed'[d]
    BY <1>3, <2>1 DEF UcInv
  <2>10. UcInv'
    BY <2>5, <2>6, <2>7, <2>8, <2>9 DEF UcInv
  <2>. QED BY <2>4, <2>10
<1>. QED BY <1>4, <1>5, <1>6, <1>7, <1>8 DEF Hears, Types

LEMMA UcStepInv ==
  EchoInv /\ UcInv /\ [EchoNext]_<<sockVars, threadVars, clientVars>> => EchoInv' /\ UcInv'
<1>. SUFFICES ASSUME EchoInv, UcInv, [EchoNext]_<<sockVars, threadVars, clientVars>>
              PROVE  EchoInv' /\ UcInv'
  OBVIOUS
<1>1. CASE Server \/ \E c \in Client : Thread(c)
  BY <1>1, EchoServerInv, UcServed DEF Server, Thread
<1>2. ASSUME program = "echo", NEW c \in Client, Hears(c) \/ Types(c) PROVE EchoInv' /\ UcInv'
  BY <1>2, UcClientInv
<1>3. CASE UNCHANGED <<sockVars, threadVars, clientVars>>
  <2>1. SocketsTypeOK' /\ Once'
    BY <1>3, OnceSame DEF EchoInv, ThreadTypeOK, sockVars, given, SocketsTypeOK
  <2>2. EchoInv'
    BY <1>3, <2>1, EchoKeeps DEF sockVars
  <2>3. UcInv'
    BY <1>3 DEF sockVars, threadVars, clientVars, UcInv, Answered
  <2>. QED BY <2>2, <2>3
<1>. QED BY <1>1, <1>2, <1>3 DEF EchoNext

\* pthreadServer/tserver.c with client.c: each unit comes back to the client that
\* has sent it, once and in turn, and what a client prints behind "echo#" answers
\* the line typed before, but for the cases line 55 and the buffers leave open.
THEOREM RepliesBelong == EchoSpec => []EchoSafe
<1>1. EchoInv /\ UcInv => EchoSafe
  <2>1. UcInv => ReplyBelongs
    BY DEF UcInv, Answered, ReplyBelongs
  <2>. QED BY <2>1, OwnIsServed DEF EchoInv, EchoSafe, EchoInOrder
<1>. QED BY <1>1, UcInitial, UcStepInv, PTL DEF EchoSpec

-----------------------------------------------------------------------------
(* What they promise: FirstCome.tla, seen through Sockets.tla.             *)

\* Where the same clients have connected and wait and the same are accepted, all
\* are where they were.
LEMMA SituationSame ==
  ASSUME UNCHANGED <<program, backlog, file>>,
         \A c \in Client : conn'[c] = "off" <=> conn[c] = "off",
         NEW c \in Client
  PROVE  Situation(c)' = Situation(c)
<1>1. conn'[c] = "off" <=> conn[c] = "off"
  OBVIOUS
<1>. QED BY <1>1 DEF Situation, Accepted

LEMMA DoorSame ==
  ASSUME UNCHANGED <<program, backlog, file, sent, taken>>,
         \A c \in Client : conn'[c] = "off" <=> conn[c] = "off"
  PROVE  UNCHANGED Door!doorVars
<1>1. [c \in Client |-> Situation(c)'] = [c \in Client |-> Situation(c)]
  BY SituationSame
<1>. QED BY <1>1 DEF Door!doorVars

LEMMA DoorInitial == SocketsInit => Door!Init
<1>. SUFFICES ASSUME SocketsInit PROVE Door!Init
  OBVIOUS
<1>1. \A c \in Client : Situation(c) = "away"
  BY DEF SocketsInit, Situation
<1>. QED BY <1>1 DEF SocketsInit, Door!Init

\* connect: the client waits behind all others.
LEMMA Arrives ==
  ASSUME SocketsTypeOK, NEW c \in Client, Connect(c)
  PROVE  Door!Arrive(c)
<1>1. /\ backlog \in Seq(Client) /\ backlog' = Append(backlog, c)
      /\ UNCHANGED <<program, file, sent, taken>>
      /\ conn[c] = "off" /\ conn'[c] = "on" /\ \A d \in Client : d # c => conn'[d] = conn[d]
  BY DEF Connect, SocketsTypeOK, given
<1>2. /\ \E i \in DOMAIN backlog' : backlog'[i] = c
      /\ \A d \in Client : d # c =>
           ((\E i \in DOMAIN backlog' : backlog'[i] = d) <=> \E i \in DOMAIN backlog : backlog[i] = d)
  <2>1. /\ DOMAIN backlog = 1 .. Len(backlog) /\ DOMAIN backlog' = 1 .. Len(backlog) + 1
        /\ Len(backlog) \in Nat
        /\ \A i \in DOMAIN backlog : backlog'[i] = backlog[i]
        /\ backlog'[Len(backlog) + 1] = c
    BY <1>1
  <2>2. \A i \in DOMAIN backlog' : i \notin DOMAIN backlog => i = Len(backlog) + 1
    <3>1. \A n \in Nat : \A i \in 1 .. n + 1 : i \notin 1 .. n => i = n + 1
      OBVIOUS
    <3>. QED BY <2>1, <3>1
  <2>. QED BY <2>1, <2>2
<1>3. Situation(c) = "away" /\ Situation(c)' = "queued"
  BY <1>1, <1>2 DEF Situation
<1>4. \A d \in Client : d # c => Situation(d)' = Situation(d)
  BY <1>1, <1>2 DEF Situation, Accepted
<1>. QED BY <1>1, <1>3, <1>4 DEF Door!Arrive

\* The first of the backlog is in it once, and nowhere else.
LEMMA HeadGoes ==
  ASSUME SocketsTypeOK, Once, NEW c \in Client, backlog # <<>>, c = Head(backlog),
         backlog' = Tail(backlog)
  PROVE  /\ c # None /\ conn[c] # "off" /\ \A f \in Fd : file[f] # c
         /\ \A i \in DOMAIN backlog' : backlog'[i] # c
         /\ \A d \in Client : d # c =>
              ((\E i \in DOMAIN backlog' : backlog'[i] = d) <=> \E i \in DOMAIN backlog : backlog[i] = d)
<1>1. /\ c = backlog[1] /\ 1 \in DOMAIN backlog /\ c # None
      /\ \A i \in DOMAIN backlog' :
           i + 1 \in DOMAIN backlog /\ i + 1 # 1 /\ backlog'[i] = backlog[i + 1]
      /\ \A i \in DOMAIN backlog : i # 1 => i - 1 \in DOMAIN backlog' /\ backlog'[i - 1] = backlog[i]
  <2>1. /\ DOMAIN backlog = 1 .. Len(backlog) /\ DOMAIN backlog' = 1 .. Len(backlog) - 1
        /\ Len(backlog) \in Nat /\ Len(backlog) >= 1
        /\ \A i \in DOMAIN backlog' : i + 1 \in DOMAIN backlog /\ backlog'[i] = backlog[i + 1]
    BY DEF SocketsTypeOK
  <2>2. \A i \in DOMAIN backlog : i # 1 => i - 1 \in DOMAIN backlog' /\ (i - 1) + 1 = i
    BY <2>1
  <2>. QED BY <2>1, <2>2, SocketsAssumption DEF SocketsTypeOK
<1>2. /\ \A i \in DOMAIN backlog' : backlog'[i] # c
      /\ \A d \in Client : d # c =>
           ((\E i \in DOMAIN backlog' : backlog'[i] = d) <=> \E i \in DOMAIN backlog : backlog[i] = d)
  <2>1. \A i \in DOMAIN backlog' : backlog'[i] # c
    BY <1>1 DEF Once
  <2>2. ASSUME NEW d \in Client, d # c, NEW i \in DOMAIN backlog, backlog[i] = d
        PROVE  \E j \in DOMAIN backlog' : backlog'[j] = d
    <3>1. i # 1
      BY <1>1, <2>2
    <3>2. i - 1 \in DOMAIN backlog' /\ backlog'[i - 1] = d
      BY <1>1, <2>2, <3>1
    <3>. QED BY <3>2
  <2>3. ASSUME NEW d \in Client, NEW i \in DOMAIN backlog', backlog'[i] = d
        PROVE  \E j \in DOMAIN backlog : backlog[j] = d
    BY <1>1, <2>3
  <2>. QED BY <2>1, <2>2, <2>3
<1>3. conn[c] # "off" /\ \A f \in Fd : file[f] # c
  BY <1>1 DEF Once
<1>. QED BY <1>1, <1>2, <1>3

\* accept: the first of the backlog is behind a descriptor.
LEMMA Admits ==
  ASSUME SocketsTypeOK, Once, NEW f \in Fd, AcceptAs(f)
  PROVE  Door!Admit
<1>1. /\ backlog # <<>> /\ backlog' = Tail(backlog) /\ UNCHANGED <<program, conn, sent, taken>>
      /\ file[f] = None /\ file' = [file EXCEPT ![f] = Head(backlog)]
  BY DEF AcceptAs, LowestFree, given
<1>. PICK c \in Client : c = Head(backlog)
  BY <1>1 DEF SocketsTypeOK
<1>2. file'[f] = c /\ \A g \in Fd : g # f => file'[g] = file[g]
  BY <1>1 DEF SocketsTypeOK
<1>3. Accepted(c)' /\ \A d \in Client : d # c => (Accepted(d)' <=> Accepted(d))
  BY <1>1, <1>2, SocketsAssumption DEF Accepted
<1>4. Situation(c)' = "inside" /\ \A d \in Client : d # c => Situation(d)' = Situation(d)
  BY <1>1, <1>3, HeadGoes DEF Situation
<1>5. [d \in Client |-> Situation(d)']
        = [[d \in Client |-> Situation(d)] EXCEPT ![Head(backlog)] = "inside"]
  BY <1>4
<1>. QED BY <1>1, <1>5 DEF Door!Admit, Door!TakeNext

\* accept has dropped it.
LEMMA Refuses ==
  ASSUME SocketsTypeOK, Once, backlog # <<>>, backlog' = Tail(backlog), program \notin Closing,
         UNCHANGED <<program, conn, file, sent, taken>>
  PROVE  Door!Refuse
<1>. PICK c \in Client : c = Head(backlog)
  BY DEF SocketsTypeOK
<1>1. Situation(c)' = "refused" /\ \A d \in Client : d # c => Situation(d)' = Situation(d)
  BY HeadGoes DEF Situation, Accepted
<1>2. [d \in Client |-> Situation(d)']
        = [[d \in Client |-> Situation(d)] EXCEPT ![Head(backlog)] = "refused"]
  BY <1>1
<1>. QED BY <1>2 DEF Door!Refuse, Door!TakeNext

\* Units are sent: by one who has connected and was not seen out.
LEMMA Speaks ==
  ASSUME SocketsTypeOK, NEW c \in Client, conn[c] # "off",
         program \in Closing => Situation(c) # "left",
         NEW n \in Nat \ {0}, sent[c] + n <= MaxSends[c], sent' = [sent EXCEPT ![c] = @ + n],
         UNCHANGED <<program, backlog, file, conn, taken>>
  PROVE  Door!Speak(c)
<1>1. Situation(c) \in {"queued", "inside", "refused"}
  BY DEF Situation
<1>2. [d \in Client |-> Situation(d)'] = [d \in Client |-> Situation(d)]
  BY SituationSame
<1>3. sent[c] \in Nat /\ MaxSends[c] \in Nat
  BY SocketsAssumption DEF SocketsTypeOK
<1>4. sent[c] + n \in sent[c] + 1 .. MaxSends[c]
  BY <1>3
<1>. QED BY <1>1, <1>2, <1>4 DEF Door!Speak

\* A read that returns text, from a connection behind a descriptor.
LEMMA IsHeard ==
  ASSUME SocketsTypeOK, Once, NEW f \in Fd, file[f] # None, Reads(file[f]), file' = file
  PROVE  Door!Hear(file[f])
<1>. DEFINE c == file[f]
<1>1. /\ c \in Client /\ UNCHANGED <<program, backlog, conn, sent>>
      /\ taken' = [taken EXCEPT ![c] = @ + ReadSize(c)]
  BY DEF Reads, SocketsTypeOK, given
<1>2. Situation(c) = "inside"
  BY <1>1 DEF Situation, Accepted, Once
<1>3. [d \in Client |-> Situation(d)'] = [d \in Client |-> Situation(d)]
  BY <1>1, SituationSame
<1>4. /\ taken[c] + ReadSize(c) \in taken[c] + 1 .. sent[c]
      /\ taken[c] + ReadSize(c) <= taken[c] + BufLen
  BY <1>1, SocketsAssumption DEF Reads, ReadSize, Waiting, SocketsTypeOK
<1>. QED BY <1>1, <1>2, <1>3, <1>4 DEF Door!Hear

\* The end of a connection, or an error: libevent's server closes it.
LEMMA SeenOut ==
  ASSUME SocketsTypeOK, Once, program \in Closing, NEW f \in Fd, file[f] # None,
         ReadsEnd(file[f]) \/ ReadsError(file[f]), file' = [file EXCEPT ![f] = None]
  PROVE  Door!Leave(file[f]) /\ Once'
<1>. PICK c \in Client : c = file[f]
  BY DEF SocketsTypeOK
<1>1. /\ UNCHANGED <<program, backlog, sent, taken>>
      /\ taken[c] = sent[c] /\ conn[c] # "off" /\ conn'[c] # "off"
      /\ \A d \in Client : d # c => conn'[d] = conn[d]
      /\ file'[f] = None /\ \A g \in Fd : g # f => file'[g] = file[g]
  BY DEF ReadsEnd, ReadsError, Waiting, SocketsTypeOK, given
<1>2. /\ Accepted(c) /\ ~Accepted(c)' /\ \A i \in DOMAIN backlog : backlog[i] # c
      /\ \A d \in Client : d # c => (Accepted(d)' <=> Accepted(d))
  BY <1>1, SocketsAssumption DEF Accepted, Once
<1>3. /\ Situation(c) = "inside" /\ Situation(c)' = "left"
      /\ \A d \in Client : d # c => Situation(d)' = Situation(d)
  BY <1>1, <1>2 DEF Situation
<1>4. [d \in Client |-> Situation(d)'] = [[d \in Client |-> Situation(d)] EXCEPT ![c] = "left"]
  BY <1>3
<1>5. Door!Leave(c)
  BY <1>1, <1>3, <1>4 DEF Door!Leave
<1>6. Once'
  BY <1>1, SocketsAssumption DEF Once, SocketsTypeOK
<1>. QED BY <1>5, <1>6

\* What clients do.
LEMMA ClientDoor ==
  ASSUME SocketsTypeOK, NEW c \in Client, Connect(c) \/ Say(c) \/ Part(c) \/ Break(c),
         program \in Closing /\ conn[c] = "on" => Situation(c) # "left"
  PROVE  [Door!Next]_(Door!doorVars)
<1>1. CASE Connect(c)
  BY <1>1, Arrives DEF Door!Next
<1>2. CASE Say(c)
  <2>1. /\ sent[c] < MaxSends[c] /\ sent' = [sent EXCEPT ![c] = @ + 1]
        /\ conn[c] = "on" /\ UNCHANGED <<program, backlog, file, conn, taken>>
    BY <1>2, Zenon DEF Say, given
  <2>2. sent[c] \in Nat /\ MaxSends[c] \in Nat
    BY SocketsAssumption DEF SocketsTypeOK
  <2>3. sent[c] + 1 <= MaxSends[c]
    <3>1. \A i, j \in Nat : i < j => i + 1 <= j
      OBVIOUS
    <3>. QED BY <2>1, <2>2, <3>1, Zenon
  <2>4. conn[c] # "off" /\ (program \in Closing => Situation(c) # "left") /\ 1 \in Nat \ {0}
    BY <2>1
  <2>5. Door!Speak(c)
    BY <2>1, <2>3, <2>4, Speaks
  <2>. QED BY <2>5 DEF Door!Next
<1>3. CASE Part(c) \/ Break(c)
  <2>1. /\ UNCHANGED <<program, backlog, file, sent, taken>>
        /\ \A d \in Client : conn'[d] = "off" <=> conn[d] = "off"
    BY <1>3 DEF Part, Break, SocketsTypeOK, given
  <2>. QED BY <2>1, DoorSame
<1>. QED BY <1>1, <1>2, <1>3

\* The servers that close: each client has one place, and one that has neither left
\* nor been cut off was not seen out.
Welcome == Once /\ \A c \in Client : conn[c] = "on" => Situation(c) # "left"

LEMMA WelcomeInitial == SocketsInit => Welcome /\ Door!Init
<1>1. SocketsInit => \A c \in Client : Situation(c) = "away"
  BY DEF SocketsInit, Situation
<1>. QED BY <1>1, OnceInitial, DoorInitial DEF Welcome

LEMMA WelcomeClient ==
  ASSUME SocketsTypeOK, Welcome, NEW c \in Client, Connect(c) \/ Say(c) \/ Part(c) \/ Break(c)
  PROVE  Welcome' /\ [Door!Next]_(Door!doorVars)
<1>1. Once /\ [Door!Next]_(Door!doorVars)
  BY ClientDoor DEF Welcome
<1>2. CASE Connect(c)
  <2>1. Situation(c)' = "queued" /\ \A d \in Client : d # c => Situation(d)' = Situation(d)
    BY <1>2, Arrives DEF Door!Arrive
  <2>2. \A d \in Client : d # c => conn'[d] = conn[d]
    BY <1>2 DEF Connect
  <2>. QED BY <1>1, <1>2, <2>1, <2>2, OnceConnect DEF Welcome
<1>3. CASE Say(c) \/ Part(c) \/ Break(c)
  <2>1. /\ UNCHANGED <<program, backlog, file>> /\ conn[c] = "on"
        /\ conn'[c] \in {"on", "fin", "rst"}
        /\ \A d \in Client : d # c => conn'[d] = conn[d] /\ sent'[d] = sent[d]
    BY <1>3 DEF Say, Part, Break, SocketsTypeOK, given
  <2>2. Once'
    BY <1>1, <2>1, OnceSame
  <2>3. \A d \in Client : Situation(d)' = Situation(d)
    BY <2>1, SituationSame
  <2>. QED BY <1>1, <2>1, <2>2, <2>3 DEF Welcome
<1>. QED BY <1>2, <1>3

LEMMA WelcomeIdle ==
  ASSUME Welcome, UNCHANGED <<program, backlog, file, sent, taken>>,
         \A c \in Client : /\ conn'[c] = "off" <=> conn[c] = "off"
                           /\ conn'[c] = "on" => conn[c] = "on"
  PROVE  Welcome' /\ [Door!Next]_(Door!doorVars)
<1>1. \A c \in Client : conn'[c] = "off" <=> conn[c] = "off"
  OBVIOUS
<1>2. \A c \in Client : Situation(c)' = Situation(c)
  BY <1>1, SituationSame
<1>3. Once'
  BY <1>1, OnceSame DEF Welcome
<1>4. UNCHANGED Door!doorVars
  BY <1>1, DoorSame
<1>. QED BY <1>2, <1>3, <1>4 DEF Welcome

LEMMA WelcomeAccept ==
  ASSUME SocketsTypeOK, Welcome, NEW f \in Fd, AcceptAs(f)
  PROVE  Welcome' /\ [Door!Next]_(Door!doorVars)
<1>1. Door!Admit /\ Once'
  BY Admits, OnceTakes DEF Welcome
<1>2. \A c \in Client : Situation(c)' \in {"inside", Situation(c)}
  BY <1>1 DEF Door!Admit, Door!TakeNext
<1>3. conn' = conn
  BY DEF AcceptAs
<1>. QED BY <1>1, <1>2, <1>3 DEF Welcome, Door!Next

LEMMA WelcomeRead ==
  ASSUME SocketsTypeOK, Welcome, NEW f \in Fd, file[f] # None, Reads(file[f]), file' = file
  PROVE  Welcome' /\ [Door!Next]_(Door!doorVars)
<1>1. UNCHANGED <<program, conn, backlog, sent>>
  BY DEF Reads, given
<1>2. Door!Hear(file[f]) /\ file[f] \in Client
  BY IsHeard DEF SocketsTypeOK, Welcome
<1>3. \A c \in Client : Situation(c)' = Situation(c)
  BY <1>1, SituationSame
<1>4. Once'
  BY <1>1, OnceSame DEF Welcome
<1>. QED BY <1>1, <1>2, <1>3, <1>4 DEF Welcome, Door!Next

LEMMA WelcomeLeave ==
  ASSUME SocketsTypeOK, Welcome, program \in Closing, NEW f \in Fd, file[f] # None,
         ReadsEnd(file[f]) \/ ReadsError(file[f]), file' = [file EXCEPT ![f] = None]
  PROVE  Welcome' /\ [Door!Next]_(Door!doorVars)
<1>1. Door!Leave(file[f]) /\ Once' /\ file[f] \in Client
  BY SeenOut DEF SocketsTypeOK, Welcome
<1>2. \A c \in Client : c # file[f] => Situation(c)' = Situation(c)
  BY <1>1 DEF Door!Leave
<1>3. conn'[file[f]] # "on" /\ \A c \in Client : c # file[f] => conn'[c] = conn[c]
  BY <1>1 DEF ReadsEnd, ReadsError, SocketsTypeOK
<1>. QED BY <1>1, <1>2, <1>3 DEF Welcome, Door!Next

LEMMA EventDoor ==
  ASSUME EventInv, Welcome, [EventNext]_<<sockVars, eventVars>>
  PROVE  Welcome' /\ [Door!Next]_(Door!doorVars)
<1>1. SocketsTypeOK
  BY DEF EventInv, EventTypeOK
<1>2. ASSUME NEW c \in Client, EventClient(c) PROVE Welcome' /\ [Door!Next]_(Door!doorVars)
  BY <1>1, <1>2, WelcomeClient DEF EventClient
<1>3. ASSUME UNCHANGED <<program, conn, backlog, file, sent, taken>>
      PROVE  Welcome' /\ [Door!Next]_(Door!doorVars)
  <2>1. conn' = conn
    BY <1>3
  <2>. QED BY <1>3, <2>1, WelcomeIdle
<1>4. ASSUME NEW f \in Fd, AcceptAs(f) PROVE Welcome' /\ [Door!Next]_(Door!doorVars)
  BY <1>1, <1>4, WelcomeAccept
<1>5. ASSUME NEW f \in Fd, OnReadText(f) PROVE Welcome' /\ [Door!Next]_(Door!doorVars)
  BY <1>1, <1>5, WelcomeRead DEF OnReadText, EventInv
<1>6. ASSUME program = "libevent", NEW f \in Fd, OnReadEnd(f)
      PROVE  Welcome' /\ [Door!Next]_(Door!doorVars)
  <2>1. /\ ReadsEnd(file[f]) \/ ReadsError(file[f])
        /\ file' = [file EXCEPT ![f] = None] /\ file[f] # None /\ program \in Closing
    BY <1>6 DEF OnReadEnd, EventInv, Closing
  <2>. QED BY <1>1, <2>1, WelcomeLeave
<1>7. CASE EventStartUp \/ EventDispatch \/ UNCHANGED <<sockVars, eventVars>>
  BY <1>3, <1>7 DEF EventStartUp, StartsOrFails, EventDispatch, sockVars, given
<1>8. CASE OnAccept
  BY <1>3, <1>4, <1>8 DEF OnAccept, given
<1>. QED BY <1>2, <1>5, <1>6, <1>7, <1>8 DEF EventNext, EventStep

\* libevent-server.cpp: connections are accepted in the order in which they were
\* made, text is read once and in turn, and a connection is closed only when all of
\* it was read (lines 22-34, 42-60).
THEOREM EventFirstCome == EventSpec => FirstComeServed
<1>1. EventInit => EventInv /\ Welcome /\ Door!Init
  BY EventInitial, WelcomeInitial DEF EventInit
<1>2. EventInv /\ Welcome /\ [EventNext]_<<sockVars, eventVars>> =>
        EventInv' /\ Welcome' /\ [Door!Next]_(Door!doorVars)
  BY EventStepInv, EventDoor
<1>. QED BY <1>1, <1>2, PTL DEF EventSpec, FirstComeServed, Door!Spec

\* epoll_server.c: a record that leads to the wrong descriptor leads to an open
\* connection or to none, and closes it only at its end.
LEMMA EpollDoor ==
  ASSUME EpollInv, Welcome, [EpollNext]_<<sockVars, epollVars>>
  PROVE  Welcome' /\ [Door!Next]_(Door!doorVars)
<1>1. SocketsTypeOK
  BY DEF EpollInv, EpollTypeOK
<1>2. ASSUME NEW c \in Client, EpollClient(c) PROVE Welcome' /\ [Door!Next]_(Door!doorVars)
  BY <1>1, <1>2, WelcomeClient DEF EpollClient
<1>3. ASSUME UNCHANGED <<program, conn, backlog, file, sent, taken>>
      PROVE  Welcome' /\ [Door!Next]_(Door!doorVars)
  <2>1. conn' = conn
    BY <1>3
  <2>. QED BY <1>3, <2>1, WelcomeIdle
<1>4. ASSUME NEW e, EpollAccept(e) PROVE Welcome' /\ [Door!Next]_(Door!doorVars)
  <2>1. PICK f \in Fd : AcceptAs(f)
    BY <1>4 DEF EpollAccept
  <2>. QED BY <1>1, <2>1, WelcomeAccept
<1>5. ASSUME NEW e, EpollRead(e) PROVE Welcome' /\ [Door!Next]_(Door!doorVars)
  <2>1. PICK f \in Fd : file[f] # None /\ Reads(file[f])
    BY <1>5 DEF EpollRead
  <2>2. file' = file
    BY <1>5 DEF EpollRead
  <2>. QED BY <1>1, <2>1, <2>2, WelcomeRead
<1>6. ASSUME program = "epoll", NEW e, EpollQuit(e)
      PROVE  Welcome' /\ [Door!Next]_(Door!doorVars)
  <2>1. PICK f \in Fd : file[f] # None /\ ReadsEnd(file[f]) /\ file' = [file EXCEPT ![f] = None]
    BY <1>6 DEF EpollQuit
  <2>2. program \in Closing
    BY <1>6 DEF Closing
  <2>. QED BY <1>1, <2>1, <2>2, WelcomeLeave
<1>7. ASSUME NEW c \in Client, conn[c] # "off",
             conn' \in {conn, [conn EXCEPT ![c] = IF @ = "on" THEN "on" ELSE "dead"],
                        [conn EXCEPT ![c] = "dead"]},
             UNCHANGED <<program, backlog, file, sent, taken>>
      PROVE  Welcome' /\ [Door!Next]_(Door!doorVars)
  <2>1. \A d \in Client : /\ conn'[d] = "off" <=> conn[d] = "off"
                          /\ conn'[d] = "on" => conn[d] = "on"
    BY <1>1, <1>7 DEF SocketsTypeOK
  <2>. QED BY <1>7, <2>1, WelcomeIdle
<1>8. \A f \in Fd : file[f] # None => file[f] \in Client /\ conn[file[f]] # "off"
  BY <1>1 DEF SocketsTypeOK, Welcome, Once
<1>9. ASSUME NEW e, EpollReadFails(e) PROVE Welcome' /\ [Door!Next]_(Door!doorVars)
  <2>1. PICK f \in Fd : IF file[f] = None THEN UNCHANGED sockVars
                        ELSE ReadsError(file[f]) /\ UNCHANGED <<server, file>>
    BY <1>9 DEF EpollReadFails
  <2>2. CASE file[f] = None
    BY <1>3, <2>1, <2>2 DEF sockVars, given
  <2>3. CASE file[f] # None
    BY <1>7, <1>8, <2>1, <2>3 DEF ReadsError, given
  <2>. QED BY <2>2, <2>3
<1>10. ASSUME NEW e, EpollWrite(e) PROVE Welcome' /\ [Door!Next]_(Door!doorVars)
  <2>1. PICK f \in Fd : IF file[f] = None THEN UNCHANGED <<sockVars, owes>>
                        ELSE Writes(file[f])
    BY <1>10 DEF EpollWrite
  <2>2. CASE file[f] = None
    BY <1>3, <2>1, <2>2 DEF sockVars, given
  <2>3. CASE file[f] # None
    BY <1>7, <1>8, <2>1, <2>3 DEF Writes, given
  <2>. QED BY <2>2, <2>3
<1>11. CASE EpollStartUp \/ EpollWait \/ UNCHANGED <<sockVars, epollVars>>
  BY <1>3, <1>11 DEF EpollStartUp, StartsOrFails, EpollWait, sockVars, given
<1>12. ASSUME NEW e, EpollAcceptFails(e) \/ EpollFreed(e)
       PROVE  Welcome' /\ [Door!Next]_(Door!doorVars)
  BY <1>3, <1>12 DEF EpollAcceptFails, EpollFreed, sockVars, given
<1>. QED BY <1>2, <1>4, <1>5, <1>6, <1>9, <1>10, <1>11, <1>12 DEF EpollNext, EpollStep

\* epoll_server.c: the same, also when line 170 has led records astray: what is read
\* is some client's next text, and close hits one that has left and was heard to the
\* end (lines 123-163).
THEOREM EpollFirstCome == EpollSpec => FirstComeServed
<1>1. EpollInit => EpollInv /\ Welcome /\ Door!Init
  BY EpollInitial, WelcomeInitial DEF EpollInit
<1>2. EpollInv /\ Welcome /\ [EpollNext]_<<sockVars, epollVars>> =>
        EpollInv' /\ Welcome' /\ [Door!Next]_(Door!doorVars)
  BY EpollStepInv, EpollDoor
<1>. QED BY <1>1, <1>2, PTL DEF EpollSpec, FirstComeServed, Door!Spec

\* tserver.c, main and the threads: an accept that drops the connection refuses it.
LEMMA ThreadDoor ==
  ASSUME EchoInv, program \notin Closing, TsMain \/ \E c \in Client : HandleClient(c)
  PROVE  [Door!Next]_(Door!doorVars)
<1>1. SocketsTypeOK /\ Once
  BY DEF EchoInv, ThreadTypeOK
<1>2. \A d \in Client : conn'[d] = "off" <=> conn[d] = "off"
  BY ServerLeaves
<1>3. CASE TsAccept
  <2>1. PICK f \in Fd : AcceptAs(f)
    BY <1>3 DEF TsAccept
  <2>. QED BY <1>1, <2>1, Admits DEF Door!Next
<1>4. CASE TsAcceptDrops
  <2>1. /\ backlog # <<>> /\ backlog' = Tail(backlog)
        /\ UNCHANGED <<program, conn, file, sent, taken>>
    BY <1>4 DEF TsAcceptDrops, given
  <2>. QED BY <1>1, <2>1, Refuses DEF Door!Next
<1>5. ASSUME NEW c \in Client, TsRead(c) PROVE [Door!Next]_(Door!doorVars)
  <2>1. Peer(c) \in Client /\ own[c].sock \in Fd
    BY <1>5, PeerIs DEF TsRead, EchoInv, TsInv, Led
  <2>2. Reads(Peer(c)) /\ file' = file
    BY <1>5 DEF TsRead
  <2>3. Door!Hear(Peer(c))
    BY <1>1, <2>1, <2>2, IsHeard, SocketsAssumption DEF Peer
  <2>. QED BY <2>1, <2>3 DEF Door!Next
<1>6. CASE ThreadStartUp \/ TsAcceptFails \/ TsFillSock \/ TsFillPort \/ TsCreate
  BY <1>2, <1>6, DoorSame
     DEF ThreadStartUp, StartsOrFails, TsAcceptFails, TsFillSock, TsFillPort, TsCreate,
         sockVars, given
<1>7. ASSUME NEW c \in Client, TakeSock(c) \/ TakePort(c) PROVE [Door!Next]_(Door!doorVars)
  BY <1>2, <1>7, DoorSame DEF TakeSock, TakePort, sockVars, given
<1>8. ASSUME NEW c \in Client, TsReadEnd(c) PROVE [Door!Next]_(Door!doorVars)
  BY <1>2, <1>8, DoorSame DEF TsReadEnd, ReadsEnd, ReadsError, given
<1>9. ASSUME NEW c \in Client, TsWrite(c) PROVE [Door!Next]_(Door!doorVars)
  BY <1>2, <1>9, DoorSame DEF TsWrite, Writes, given
<1>. QED BY <1>3, <1>4, <1>5, <1>6, <1>7, <1>8, <1>9 DEF TsMain, HandleClient

\* pthreadServer/tserver.c: connections are accepted, or dropped, in the order in
\* which they were made, and text is read once and in turn, whichever thread reads
\* it (lines 48-75, 82-92).
THEOREM ThreadFirstCome == ThreadSpec => FirstComeServed
<1>1. ThreadInit => EchoInv /\ Door!Init
  BY EchoInitial, DoorInitial DEF ThreadInit
<1>2. ASSUME EchoInv, [ThreadNext]_<<sockVars, threadVars>>
      PROVE  EchoInv' /\ [Door!Next]_(Door!doorVars)
  <2>1. EchoInv'
    BY <1>2, ThreadStepInv
  <2>2. SocketsTypeOK
    BY <1>2 DEF EchoInv, ThreadTypeOK
  <2>3. CASE UNCHANGED <<sockVars, threadVars>>
    <3>1. UNCHANGED <<program, conn, backlog, file, sent, taken>>
      BY <2>3 DEF sockVars, given
    <3>. QED BY <2>1, <3>1, DoorSame
  <2>4. ASSUME program = "pthread", NEW c \in Client, ThreadClient(c)
        PROVE  [Door!Next]_(Door!doorVars)
    BY <2>2, <2>4, ClientDoor DEF ThreadClient, Closing
  <2>5. CASE program = "pthread" /\ (TsMain \/ \E c \in Client : HandleClient(c))
    BY <1>2, <2>1, <2>5, ThreadDoor DEF Closing
  <2>. QED BY <1>2, <2>1, <2>3, <2>4, <2>5 DEF ThreadNext
<1>. QED BY <1>1, <1>2, PTL DEF ThreadSpec, FirstComeServed, Door!Spec

\* The same with the clients of client.c, which stay when the server has gone.
THEOREM EchoFirstCome == EchoSpec => FirstComeServed
<1>1. EchoInit => EchoInv /\ UcInv /\ Door!Init
  BY UcInitial, DoorInitial DEF EchoInit, ThreadInit
<1>2. ASSUME EchoInv, UcInv, [EchoNext]_<<sockVars, threadVars, clientVars>>
      PROVE  EchoInv' /\ UcInv' /\ [Door!Next]_(Door!doorVars)
  <2>1. EchoInv' /\ UcInv'
    BY <1>2, UcStepInv
  <2>2. SocketsTypeOK
    BY <1>2 DEF EchoInv, ThreadTypeOK
  <2>3. CASE UNCHANGED <<sockVars, threadVars, clientVars>>
    <3>1. UNCHANGED <<program, conn, backlog, file, sent, taken>>
      BY <2>3 DEF sockVars, given
    <3>. QED BY <2>1, <3>1, DoorSame
  <2>4. CASE program = "echo" /\ (Server \/ \E c \in Client : Thread(c))
    <3>1. program \notin Closing /\ (TsMain \/ \E c \in Client : HandleClient(c))
      BY <2>4 DEF Closing, Server, Thread
    <3>. QED BY <1>2, <2>1, <3>1, ThreadDoor
  <2>5. ASSUME program = "echo", NEW c \in Client, UcConnect(c) \/ UcKilled(c)
        PROVE  [Door!Next]_(Door!doorVars)
    BY <2>2, <2>5, ClientDoor DEF UcConnect, UcKilled, Closing
  <2>6. ASSUME program = "echo", NEW c \in Client, UcType(c)
        PROVE  [Door!Next]_(Door!doorVars)
    <3>1. PICK n \in {1, BufLen + 1} :
            sent[c] + n <= MaxSends[c] /\ sent' = [sent EXCEPT ![c] = @ + n]
      BY <2>6 DEF UcType
    <3>2. n \in Nat \ {0}
      BY SocketsAssumption
    <3>3. UNCHANGED <<program, backlog, file, conn, taken>> /\ conn[c] # "off"
      BY <1>2, <2>6 DEF UcType, UcInv, given
    <3>4. Door!Speak(c)
      BY <2>2, <2>6, <3>1, <3>2, <3>3, Speaks DEF Closing
    <3>. QED BY <3>4 DEF Door!Next
  <2>7. ASSUME NEW c \in Client, UcTypeEnd(c) \/ UcReply(c) \/ UcReplyNone(c)
        PROVE  [Door!Next]_(Door!doorVars)
    <3>1. UNCHANGED <<program, backlog, file, sent, taken>>
      BY <2>7 DEF UcTypeEnd, UcReply, UcReplyNone, sockVars, given
    <3>2. \A d \in Client : conn'[d] = "off" <=> conn[d] = "off"
      <4>1. UcReplyNone(c) => conn[c] # "off" /\ conn' \in {conn, [conn EXCEPT ![c] = "fin"]}
        BY <1>2 DEF UcReplyNone, UcInv
      <4>. QED BY <2>2, <2>7, <4>1 DEF UcTypeEnd, UcReply, sockVars, SocketsTypeOK
    <3>. QED BY <3>1, <3>2, DoorSame
  <2>. QED BY <1>2, <2>1, <2>3, <2>4, <2>5, <2>6, <2>7 DEF EchoNext, Hears, Types
<1>. QED BY <1>1, <1>2, PTL DEF EchoSpec, FirstComeServed, Door!Spec

\* UN, 1V1 and OOB: one client after the other, in the order in which they have
\* connected, is read from, however signals interrupt the server; a client is left
\* with its descriptor open (UN's server.c, lines 42-63; 1V1's, lines 55-89; OOB's,
\* lines 57-64 and 72-112).
THEOREM LineFirstCome == LineSpec => FirstComeServed
<1>1. LineInit => LineInv /\ Door!Init
  BY LineInitial, DoorInitial DEF LineInit
<1>2. ASSUME LineInv, [LineNext]_<<sockVars, lineVars>>
      PROVE  LineInv' /\ [Door!Next]_(Door!doorVars)
  <2>1. LineInv'
    BY <1>2, LineStepInv
  <2>2. SocketsTypeOK /\ Once
    BY <1>2 DEF LineInv, LineTypeOK
  <2>3. CASE UNCHANGED <<sockVars, lineVars>>
    <3>1. UNCHANGED <<program, conn, backlog, file, sent, taken>>
      BY <2>3 DEF sockVars, given
    <3>. QED BY <2>1, <3>1, DoorSame
  <2>4. ASSUME program \in Lines, NEW c \in Client, LineUser(c)
        PROVE  [Door!Next]_(Door!doorVars)
    <3>1. program \notin Closing
      BY <2>4 DEF Closing, Lines
    <3>2. CASE OneTypeEnd(c)
      BY <3>2, DoorSame DEF OneTypeEnd, sockVars, given
    <3>3. CASE Connect(c) \/ Say(c) \/ Part(c) \/ Break(c)
      BY <2>2, <3>1, <3>3, ClientDoor
    <3>. QED BY <2>4, <3>2, <3>3
             DEF LineUser, UnConnect, OneConnect, OobConnect, UnType, OneType, OobType,
                 UnTypeEnd, LineKilled
  <2>5. ASSUME NEW t, Accepting(t) PROVE [Door!Next]_(Door!doorVars)
    <3>1. CASE \E f \in Fd : AcceptAs(f)
      <4>1. PICK f \in Fd : AcceptAs(f)
        BY <3>1
      <4>. QED BY <2>2, <4>1, Admits DEF Door!Next
    <3>2. CASE UNCHANGED <<given, conn, backlog, file, sent, taken>>
      BY <3>2, DoorSame DEF given
    <3>. QED BY <2>5, <3>1, <3>2 DEF Accepting
  <2>6. ASSUME Reading(Leaves) \/ Reading(NextClient) PROVE [Door!Next]_(Door!doorVars)
    <3>1. turn = "read" /\ (Reads(confd) \/ ReadsEnd(confd) \/ ReadsError(confd)) /\ file' = file
      BY <2>6 DEF Reading
    <3>2. PICK f \in Fd : file[f] = confd /\ confd # None /\ confd \in Client
      BY <1>2, <3>1 DEF LineInv, LineTypeOK, Turned
    <3>3. CASE Reads(confd)
      BY <2>2, <3>1, <3>2, <3>3, IsHeard DEF Door!Next
    <3>4. CASE ReadsEnd(confd)
      BY <3>1, <3>4, DoorSame DEF ReadsEnd, given
    <3>5. CASE ReadsError(confd)
      <4>1. \A d \in Client : conn'[d] = "off" <=> conn[d] = "off"
        BY <2>2, <3>2, <3>5 DEF ReadsError, SocketsTypeOK
      <4>. QED BY <3>1, <3>5, <4>1, DoorSame DEF ReadsError, given
    <3>. QED BY <3>1, <3>3, <3>4, <3>5
  <2>7. ASSUME UnStart \/ OneStart \/ OobStart \/ OobOwn \/ SigURGRun \/ SigURGRead
        PROVE  [Door!Next]_(Door!doorVars)
    <3>1. UNCHANGED <<program, conn, backlog, file, sent, taken>>
      BY <2>7 DEF UnStart, OneStart, OobStart, StartsOrFails, OobOwn, SigURGRun, SigURGRead,
                  sockVars, given
    <3>2. \A d \in Client : conn'[d] = "off" <=> conn[d] = "off"
      BY <3>1
    <3>. QED BY <3>1, <3>2, DoorSame
  <2>8. ASSUME LineMain PROVE [Door!Next]_(Door!doorVars)
    <3>1. CASE UnAccept \/ OneAccept \/ OobAccept
      BY <2>5, <3>1 DEF UnAccept, OneAccept, OobAccept
    <3>2. CASE UnRead \/ OneRead \/ OobRead
      BY <2>6, <3>2 DEF UnRead, OneRead, OobRead
    <3>. QED BY <2>7, <2>8, <3>1, <3>2 DEF LineMain
  <2>. QED BY <1>2, <2>1, <2>3, <2>4, <2>8 DEF LineNext
<1>. QED BY <1>1, <1>2, PTL DEF LineSpec, FirstComeServed, Door!Spec

=============================================================================
