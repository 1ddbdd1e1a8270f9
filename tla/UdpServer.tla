----------------------------- MODULE UdpServer -----------------------------
(***************************************************************************)
(* LinuxChat/server: the UDP chat server, over MessagePool.                *)
(*                                                                         *)
(* The producer thread (productRun) receives a datagram, edits the list of *)
(* users, puts the datagram into the pool and stores it in redis under the *)
(* next key, or, if it asks to LOAD, puts everything stored so far into    *)
(* the pool.  The consumer thread (consumRun) calls broadCast for ever.    *)
(* The two share the pool, and the map of users without any lock.          *)
(*                                                                         *)
(* A datagram is any message from any address: the network may lose,       *)
(* duplicate and reorder, and any client may say anything.  The messages   *)
(* whose cmd is QUIT are Quits and the ones whose msg is LOAD are Loads.   *)
(* A lost connection to redis ends the process at an assert: a behaviour   *)
(* that stutters from there on.                                            *)
(***************************************************************************)
EXTENDS MessagePool, FiniteSets

CONSTANTS
  Ip,             \* client addresses, as the numbers userlist is sorted by
  Port,           \* client ports
  NoPort,         \* no entry in the map
  Quits,          \* messages with cmd QUIT
  Loads,          \* messages with msg LOAD
  Blank,          \* the empty string
  KeyMax,         \* KEY_MAX, 512 in the code
  MaxDatagrams    \* bound: how often recvfrom returns

ASSUME UdpServerAssumption ==
  /\ Ip \subseteq Nat
  /\ NoPort \notin Port
  /\ Quits \subseteq Message
  /\ Loads \subseteq Message
  /\ Blank \in Message \ (Quits \union Loads)
  /\ KeyMax \in Nat \ {0}
  /\ MaxDatagrams \in Nat

VARIABLES
  userlist,       \* the port each registered address is reached at
  producer,       \* where productRun is
  msg,            \* its local msg
  iter,           \* its index into session
  session,        \* the keys stored, oldest first
  SessionCount,   \* the next key
  redis,          \* the message stored under each key
  consumer,       \* where consumRun is
  node,           \* what broadCast's iterator points to: an address and port
  linked,         \* is that node still in userlist?
  received,       \* how often recvfrom has returned
  stored,         \* history: the messages stored, oldest first
  served,         \* history: where messages have been sent to
  disturbed       \* history: a QUIT has been received or a send has failed

listVars == <<userlist, node, linked>>
logVars  == <<session, SessionCount, redis, stored>>

producerVars == <<userlist, producer, msg, iter, logVars, received>>
consumerVars == <<consumer, served>>

vars == <<poolVars, listVars, logVars, producer, msg, iter, received,
          consumerVars, disturbed>>

Address == [ip : Ip, port : Port]
NoNode  == [ip |-> 0, port |-> NoPort]
Users   == {a \in Ip : userlist[a] # NoPort}

Init ==
  /\ PoolInit
  /\ userlist = [a \in Ip |-> NoPort]
  /\ producer = "recv" /\ msg = Blank /\ iter = 1
  /\ session = <<>> /\ SessionCount = 0
  /\ redis = [k \in 0 .. KeyMax - 1 |-> None]
  /\ consumer = "begin" /\ node = NoNode /\ linked = FALSE
  /\ received = 0
  /\ stored = <<>> /\ served = {} /\ disturbed = FALSE
-----------------------------------------------------------------------------
(* The producer *)

\* userlist.erase: the node goes, also from under the consumer's iterator.
Erase(a) ==
  /\ userlist' = [userlist EXCEPT ![a] = NoPort]
  /\ linked' = (linked /\ node.ip # a)
  /\ UNCHANGED node

\* userlist.insert: an address already in the map keeps its port.  A new node
\* may be given the memory of the one the consumer still points to.
Insert(a, p) ==
  IF userlist[a] # NoPort
  THEN UNCHANGED listVars
  ELSE /\ userlist' = [userlist EXCEPT ![a] = p]
       /\ \/ UNCHANGED <<node, linked>>
          \/ /\ consumer # "begin" /\ ~linked
             /\ node' = [ip |-> a, port |-> p]
             /\ linked' = TRUE

\* RecvData up to the call of PutData, for message m from port p of address a.
Recv(a, p, m) ==
  /\ producer = "recv"
  /\ received < MaxDatagrams
  /\ received' = received + 1
  /\ msg' = m
  /\ IF m \in Quits THEN Erase(a) ELSE Insert(a, p)
  /\ PutCall(m)
  /\ producer' = "put"
  /\ disturbed' = (disturbed \/ m \in Quits)
  /\ UNCHANGED <<iter, logVars, consumerVars>>

\* recvfrom fails or returns nothing: RecvData returns false, productRun does
\* not look at that and goes on with the msg it has.
RecvFail ==
  /\ ~crashed
  /\ producer = "recv"
  /\ received < MaxDatagrams
  /\ received' = received + 1
  /\ producer' = "handle"
  /\ UNCHANGED <<poolVars, listVars, logVars, msg, iter, consumerVars,
                 disturbed>>

\* The steps of PutData, called from RecvData or from the LOAD loop.
PutStep ==
  /\ PutWait \/ PutPost \/ PutOutside
  /\ producer' = IF producer = "put" /\ putting' = "no" THEN "handle"
                                                        ELSE producer
  /\ UNCHANGED <<listVars, logVars, msg, iter, received, consumerVars,
                 disturbed>>

\* Faulty variant: the key is used again.
HandleSameKey ==
  /\ ~crashed
  /\ producer = "handle"
  /\ \/ /\ msg \in Loads
        /\ producer' = "load"
        /\ iter' = 1
        /\ UNCHANGED logVars
     \/ /\ msg \notin Loads
        /\ redis' = [redis EXCEPT ![SessionCount] = msg]
        /\ session' = Append(session, SessionCount)
        /\ stored' = Append(stored, msg)
        /\ producer' = "recv"
        /\ UNCHANGED <<iter, SessionCount>>
  /\ UNCHANGED <<poolVars, listVars, msg, received, consumerVars, disturbed>>

\* The rest of productRun: start to replay the history, or store the message.
Handle ==
  /\ ~crashed
  /\ producer = "handle"
  /\ \/ /\ msg \in Loads
        /\ producer' = "load"
        /\ iter' = 1
        /\ UNCHANGED logVars
     \/ /\ msg \notin Loads
        /\ redis' = [redis EXCEPT ![SessionCount] = msg]
        /\ SessionCount' = (SessionCount + 1) % KeyMax
        /\ session' = Append(session, SessionCount)
        /\ stored' = Append(stored, msg)
        /\ producer' = "recv"
        /\ UNCHANGED iter
  /\ UNCHANGED <<poolVars, listVars, msg, received, consumerVars, disturbed>>

\* The LOAD loop: fetch the message of the next key and put it.
LoadNext ==
  /\ producer = "load"
  /\ iter <= Len(session)
  /\ PutCall(redis[session[iter]])
  /\ iter' = iter + 1
  /\ UNCHANGED <<listVars, logVars, producer, msg, received, consumerVars,
                 disturbed>>

LoadDone ==
  /\ ~crashed
  /\ producer = "load"
  /\ iter > Len(session)
  /\ putting = "no"
  /\ producer' = "recv"
  /\ UNCHANGED <<poolVars, listVars, logVars, msg, iter, received,
                 consumerVars, disturbed>>
-----------------------------------------------------------------------------
(* The consumer *)

\* Faulty variant: it = begin() is taken for an entry of an empty list too.
BeginAnyway ==
  /\ consumer = "begin"
  /\ GetCall
  /\ consumer' = "get"
  /\ IF Users = {}
     THEN node' = NoNode /\ linked' = FALSE
     ELSE LET a == CHOOSE x \in Users : \A b \in Users : x <= b
          IN  node' = [ip |-> a, port |-> userlist[a]] /\ linked' = TRUE
  /\ UNCHANGED <<producerVars, served, disturbed>>

\* broadCast up to the call of GetData: the first user of the list.  With an
\* empty list it returns, having taken nothing from the pool.
Begin ==
  /\ consumer = "begin"
  /\ \E a \in Users :
       /\ \A b \in Users : a <= b
       /\ node' = [ip |-> a, port |-> userlist[a]]
  /\ linked' = TRUE
  /\ GetCall
  /\ consumer' = "get"
  /\ UNCHANGED <<producerVars, served, disturbed>>

\* The steps of GetData.
GetStep ==
  /\ GetWait \/ GetPost
  /\ consumer' = IF getting' = "no" THEN "send" ELSE consumer
  /\ UNCHANGED <<listVars, producerVars, served, disturbed>>

\* Faulty variant: the iterator is advanced to another user.
SendAdvancing ==
  /\ consumer = "send"
  /\ GetCall
  /\ served' = served \union {node}
  /\ consumer' = "get"
  /\ \/ UNCHANGED <<node, linked>>
     \/ \E a \in Users : /\ node' = [ip |-> a, port |-> userlist[a]]
                         /\ linked' = TRUE
  /\ UNCHANGED <<producerVars, disturbed>>

\* sendto succeeds; the iterator is not advanced, it != end() holds whatever
\* has become of the list, and GetData is called for the same user again.
Send ==
  /\ consumer = "send"
  /\ GetCall
  /\ served' = served \union {node}
  /\ consumer' = "get"
  /\ UNCHANGED <<listVars, producerVars, disturbed>>

\* Faulty variant: the thread ends (the exit commented out at line 160).
SendFailStops ==
  /\ ~crashed
  /\ consumer = "send"
  /\ consumer' = "stopped"
  /\ node' = NoNode
  /\ linked' = FALSE
  /\ disturbed' = TRUE
  /\ UNCHANGED <<poolVars, producerVars, served>>

\* sendto fails: the message is lost and broadCast returns.
SendFail ==
  /\ ~crashed
  /\ consumer = "send"
  /\ consumer' = "begin"
  /\ node' = NoNode
  /\ linked' = FALSE
  /\ disturbed' = TRUE
  /\ UNCHANGED <<poolVars, producerVars, served>>
-----------------------------------------------------------------------------
ProducerStep == PutStep \/ Handle \/ LoadNext \/ LoadDone
ConsumerStep == Begin \/ GetStep \/ Send

Next ==
  \/ \E a \in Ip, p \in Port, m \in Message : Recv(a, p, m)
  \/ RecvFail
  \/ PutStep
  \/ Handle
  \/ LoadNext
  \/ LoadDone
  \/ Begin
  \/ GetStep
  \/ Send
  \/ SendFail

Spec == Init /\ [][Next]_vars

\* Both threads run when they can.  No datagram need ever come.
FairSpec == Spec /\ WF_vars(ProducerStep) /\ WF_vars(ConsumerStep)
-----------------------------------------------------------------------------
(* Properties *)

ServerTypeOK ==
  /\ PoolTypeOK
  /\ userlist \in [Ip -> Port \union {NoPort}]
  /\ producer \in {"recv", "put", "handle", "load"}
  /\ msg \in Message
  /\ session \in Seq(0 .. KeyMax - 1)
  /\ iter \in 1 .. Len(session) + 1
  /\ SessionCount \in 0 .. KeyMax - 1
  /\ redis \in [0 .. KeyMax - 1 -> Message \union {None}]
  /\ consumer \in {"begin", "get", "send"}
  /\ node \in Address \union {NoNode}
  /\ linked \in BOOLEAN
  /\ received \in 0 .. MaxDatagrams
  /\ stored \in Seq(Message)
  /\ served \subseteq Address
  /\ disturbed \in BOOLEAN

\* The two threads use the pool as one thread that puts and one that gets, the
\* only use the two semaphores are enough for: PutData is called from two
\* places, never while a put is in progress.
UsesPool == PoolSpec

\* The two threads use the semaphores as the ring needs, and no slot is written
\* while it is read.
ServerSafe == ServerTypeOK /\ SlotsAccounted /\ NoSlotRace

\* What LOAD replays: for every key used so far, in order, the latest message
\* stored under it.  As long as the keys have not come round that is the
\* history itself; afterwards a message is replayed once for every use of its
\* key, and the messages it has overwritten are not.
ReplayIsLatest ==
  \A i \in 1 .. Len(session) :
    \E j \in i .. Len(stored) :
      /\ redis[session[i]] = stored[j]
      /\ j + KeyMax > Len(stored)
      /\ (j - i) % KeyMax = 0

\* The name broadCast promises more: as long as no user quits and no send
\* fails, every message goes to one and the same user, because the iterator is
\* never advanced (lines 153-162).
OneReceiver == ~disturbed => Cardinality(served) <= 1

\* The producer waits for a blank, there are no users, and the consumer is
\* between two calls of broadCast.
Wedged ==
  /\ putting = "waiting" /\ blank = 0
  /\ consumer = "begin" /\ Users = {}

\* Then neither can ever go on: only the producer adds users and only the
\* consumer, which takes messages for a user, makes room.
WedgedForever == [][Wedged => Wedged']_vars

\* A message put into the pool is taken from it, or the list of users is empty
\* at some moment after it was put.
PoolDrains == data > 0 ~> (data = 0 \/ Users = {} \/ crashed)

\* The producer gets back to recvfrom, or the list of users is empty at some
\* moment: a LOAD of a long history ends.
ProducerReturns ==
  producer # "recv" ~> (producer = "recv" \/ Users = {} \/ crashed)

\* Neither thread waits for ever while there are users.
ThreadsGoOn == PoolDrains /\ ProducerReturns
=============================================================================
