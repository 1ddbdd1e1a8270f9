-------------------------- MODULE UdpServerProofs --------------------------
(***************************************************************************)
(* The UDP chat server uses its pool as MessagePool requires, so that what *)
(* is proved about the pool holds in the server.  Then, about the server   *)
(* itself: its types, the one user broadCast serves, what LOAD replays,    *)
(* and that a server with a full pool and no users stays as it is.         *)
(***************************************************************************)
EXTENDS UdpServer, MessagePoolProofs, FiniteSetTheorems, Integers

\* What productRun puts is a message: the one it received, or the one stored
\* under a key it has used.
LogInv ==
  /\ msg \in Message
  /\ SessionCount \in 0 .. KeyMax - 1
  /\ session \in Seq(0 .. KeyMax - 1)
  /\ iter \in Nat \ {0}
  /\ DOMAIN redis = 0 .. KeyMax - 1
  /\ \A i \in 1 .. Len(session) : redis[session[i]] \in Message

\* At the start nothing is stored.
LEMMA LogInit == Init => LogInv
  BY UdpServerAssumption DEF Init, LogInv

\* Only productRun touches the log, and it stores only messages.
LEMMA LogStep ==
  ASSUME LogInv, [Next]_vars
  PROVE  LogInv'
<1> USE UdpServerAssumption DEF LogInv
<1>1. ASSUME NEW a \in Ip, NEW p \in Port, NEW m \in Message, Recv(a, p, m)
      PROVE  LogInv'
  BY <1>1 DEF Recv, logVars
<1>2. CASE Handle
  <2>1. CASE msg \in Loads
    BY <1>2, <2>1 DEF Handle, logVars
  <2>2. CASE msg \notin Loads
    <3>1. /\ redis' = [redis EXCEPT ![SessionCount] = msg]
          /\ SessionCount' = (SessionCount + 1) % KeyMax
          /\ session' = Append(session, SessionCount)
          /\ iter' = iter /\ msg' = msg
      BY <1>2, <2>2 DEF Handle
    <3>2. SessionCount' \in 0 .. KeyMax - 1
      BY <3>1
    <3>3. session' \in Seq(0 .. KeyMax - 1) /\ Len(session') = Len(session) + 1
      BY <3>1
    <3>4. ASSUME NEW i \in 1 .. Len(session')
          PROVE  redis'[session'[i]] \in Message
      <4>1. CASE i = Len(session) + 1
        <5>1. session'[i] = SessionCount
          BY <3>1, <4>1
        <5> QED
          BY <3>1, <5>1
      <4>2. CASE i \in 1 .. Len(session)
        <5>1. session'[i] = session[i] /\ session[i] \in 0 .. KeyMax - 1
          BY <3>1, <4>2
        <5>2. redis[session[i]] \in Message
          BY <4>2
        <5> QED
          BY <3>1, <5>1, <5>2
      <4> QED
        BY <3>3, <4>1, <4>2
    <3> QED
      BY <3>1, <3>2, <3>3, <3>4
  <2> QED
    BY <2>1, <2>2
<1>3. CASE LoadNext
  BY <1>3 DEF LoadNext, logVars
<1>4. CASE RecvFail \/ PutStep \/ LoadDone \/ Begin \/ GetStep \/ Send
             \/ SendFail \/ UNCHANGED vars
  BY <1>4 DEF RecvFail, PutStep, LoadDone, Begin, GetStep, Send, SendFail,
              vars, producerVars, logVars
<1> QED
  BY <1>1, <1>2, <1>3, <1>4 DEF Next

\* Every step of the server is a step of the pool or leaves it alone.
LEMMA PoolUse ==
  ASSUME LogInv, [Next]_vars
  PROVE  [PoolNext]_poolVars
<1>1. ASSUME NEW a \in Ip, NEW p \in Port, NEW m \in Message, Recv(a, p, m)
      PROVE  PoolNext
  BY <1>1 DEF Recv, PoolNext
<1>2. CASE LoadNext
  <2>1. iter \in 1 .. Len(session)
    BY <1>2 DEF LoadNext, LogInv
  <2>2. redis[session[iter]] \in Message
    BY <2>1 DEF LogInv
  <2> QED
    BY <1>2, <2>2 DEF LoadNext, PoolNext
<1>3. CASE PutStep \/ Begin \/ GetStep \/ Send
  BY <1>3 DEF PutStep, Begin, GetStep, Send, PoolNext
<1>4. CASE RecvFail \/ Handle \/ LoadDone \/ SendFail \/ UNCHANGED vars
  BY <1>4 DEF RecvFail, Handle, LoadDone, SendFail, vars
<1> QED
  BY <1>1, <1>2, <1>3, <1>4 DEF Next

\* productRun and consumRun use the pool as one thread that puts and one that
\* gets.
THEOREM ServerUsesPool == Spec => UsesPool
<1>1. Init => PoolInit
  BY DEF Init
<1>2. LogInv /\ [Next]_vars => LogInv'
  BY LogStep
<1>3. LogInv /\ [Next]_vars => [PoolNext]_poolVars
  BY PoolUse
<1> QED
  BY <1>1, <1>2, <1>3, LogInit, PTL DEF Spec, UsesPool, PoolSpec

\* In the server the pool is a bounded queue whose slots are never written and
\* read at once.
THEOREM ServerQueue == Spec => ImplementsBoundedQueue /\ []NoSlotRace
  BY ServerUsesPool, RingRefinement, NoRace, PTL DEF UsesPool

-----------------------------------------------------------------------------
(* The types of what the two threads keep.                                 *)

\* ServerTypeOK without the pool; the consumer is in GetData at "get" only, and past
\* its begin it has an address.
ThreadTypes ==
  /\ userlist \in [Ip -> Port \union {NoPort}]
  /\ producer \in {"recv", "put", "handle", "load"}
  /\ msg \in Message
  /\ session \in Seq(0 .. KeyMax - 1)
  /\ iter \in 1 .. Len(session) + 1
  /\ SessionCount \in 0 .. KeyMax - 1
  /\ redis \in [0 .. KeyMax - 1 -> Message \union {None}]
  /\ consumer \in {"begin", "get", "send"}
  /\ node \in Address \union {NoNode}
  /\ consumer # "begin" => node \in Address
  /\ consumer # "get" => getting = "no"
  /\ linked \in BOOLEAN
  /\ received \in 0 .. MaxDatagrams
  /\ stored \in Seq(Message)
  /\ served \subseteq Address
  /\ disturbed \in BOOLEAN

LEMMA ThreadTypesInit == Init => ThreadTypes
<1> SUFFICES ASSUME Init PROVE ThreadTypes
  OBVIOUS
<1>1. session = <<>> /\ session \in Seq(0 .. KeyMax - 1) /\ stored \in Seq(Message)
      /\ iter \in 1 .. Len(session) + 1
  BY DEF Init
<1>2. getting = "no"
  BY DEF Init, PoolInit
<1>3. Blank \in Message /\ 0 \in 0 .. KeyMax - 1 /\ 0 \in 0 .. MaxDatagrams
  BY UdpServerAssumption
<1>4. /\ userlist \in [Ip -> Port \union {NoPort}]
      /\ redis \in [0 .. KeyMax - 1 -> Message \union {None}]
  BY DEF Init
<1>5. /\ producer = "recv" /\ msg = Blank /\ SessionCount = 0 /\ consumer = "begin"
      /\ node = NoNode /\ linked = FALSE /\ received = 0 /\ served = {}
      /\ disturbed = FALSE
  BY DEF Init
<1> QED
  BY <1>1, <1>2, <1>3, <1>4, <1>5 DEF ThreadTypes

\* What RecvData does to the list and to the node the iterator points to.
LEMMA ListTypes ==
  ASSUME ThreadTypes, NEW a \in Ip, NEW p \in Port, Erase(a) \/ Insert(a, p)
  PROVE  /\ userlist' \in [Ip -> Port \union {NoPort}]
         /\ linked' \in BOOLEAN
         /\ node' = node \/ node' \in Address
<1>1. CASE Erase(a)
  BY <1>1 DEF Erase, ThreadTypes
<1>2. CASE Insert(a, p)
  <2>1. CASE userlist[a] # NoPort
    BY <1>2, <2>1 DEF Insert, ThreadTypes, listVars
  <2>2. CASE userlist[a] = NoPort
    <3>1. userlist' = [userlist EXCEPT ![a] = p]
      BY <1>2, <2>2 DEF Insert
    <3>2. \/ UNCHANGED <<node, linked>>
          \/ node' = [ip |-> a, port |-> p] /\ linked' = TRUE
      BY <1>2, <2>2 DEF Insert
    <3>3. linked' \in BOOLEAN
      BY <3>2, Zenon DEF ThreadTypes
    <3>4. node' = node \/ node' \in Address
      BY <3>2 DEF Address
    <3> QED
      BY <3>1, <3>3, <3>4 DEF ThreadTypes
  <2> QED
    BY <2>1, <2>2
<1> QED
  BY <1>1, <1>2

\* The steps of GetData are taken at "get" only.
LEMMA GetSteps ==
  ASSUME ThreadTypes, GetStep
  PROVE  /\ consumer = "get" /\ consumer' \in {"get", "send"}
         /\ consumer' # "get" => getting' = "no"
         /\ UNCHANGED <<listVars, producerVars, served, disturbed>>
         /\ UNCHANGED <<userlist, node, linked, producer, msg, iter, session, SessionCount,
                       redis, stored, received>>
<1>1. getting # "no"
  BY DEF GetStep, GetWait, GetPost
<1>2. consumer = "get"
  BY <1>1 DEF ThreadTypes
<1> QED
  BY <1>2 DEF GetStep, listVars, producerVars, logVars

LEMMA ThreadTypesStep == ThreadTypes /\ [Next]_vars => ThreadTypes'
<1> SUFFICES ASSUME ThreadTypes, [Next]_vars PROVE ThreadTypes'
  OBVIOUS
<1> USE UdpServerAssumption
<1>1. ASSUME NEW a \in Ip, NEW p \in Port, NEW m \in Message, Recv(a, p, m)
      PROVE  ThreadTypes'
  <2>1. Erase(a) \/ Insert(a, p)
    BY <1>1 DEF Recv
  <2>0. getting' = getting
    BY <1>1 DEF Recv, PutCall, getVars
  <2>2. /\ producer' = "put" /\ msg' = m /\ received' = received + 1
        /\ received < MaxDatagrams
        /\ UNCHANGED <<iter, session, SessionCount, redis, stored, consumer, served>>
    BY <1>1 DEF Recv, logVars, consumerVars
  <2>3. disturbed' \in BOOLEAN
    BY <1>1, Zenon DEF Recv, ThreadTypes
  <2> QED
    BY <2>0, <2>1, <2>2, <2>3, ListTypes DEF ThreadTypes
<1>2. CASE RecvFail
  BY <1>2 DEF RecvFail, poolVars, getVars, ThreadTypes, listVars, logVars, consumerVars
<1>3. CASE PutStep
  <2>1. getting' = getting
    BY <1>3 DEF PutStep, PutWait, PutPost, PutOutside, getVars
  <2> QED
    BY <1>3, <2>1 DEF PutStep, ThreadTypes, listVars, logVars, consumerVars
<1>4. CASE Handle
  <2>1. UNCHANGED <<userlist, node, linked, msg, received, consumer, served, disturbed, getting>>
    BY <1>4 DEF Handle, listVars, consumerVars, poolVars, getVars
  <2>2. CASE msg \in Loads
    BY <1>4, <2>1, <2>2 DEF Handle, ThreadTypes, logVars
  <2>3. CASE msg \notin Loads
    <3>1. /\ redis' = [redis EXCEPT ![SessionCount] = msg]
          /\ SessionCount' = (SessionCount + 1) % KeyMax
          /\ session' = Append(session, SessionCount)
          /\ stored' = Append(stored, msg)
          /\ producer' = "recv" /\ iter' = iter
      BY <1>4, <2>3 DEF Handle
    <3>2. SessionCount' \in 0 .. KeyMax - 1
      BY <3>1 DEF ThreadTypes
    <3>3. /\ session' \in Seq(0 .. KeyMax - 1) /\ Len(session') = Len(session) + 1
          /\ stored' \in Seq(Message)
      BY <3>1 DEF ThreadTypes
    <3>4. iter' \in 1 .. Len(session') + 1
      BY <3>1, <3>3 DEF ThreadTypes
    <3> QED
      BY <2>1, <3>1, <3>2, <3>3, <3>4 DEF ThreadTypes
  <2> QED
    BY <2>2, <2>3
<1>5. CASE LoadNext \/ LoadDone
  <2>1. getting' = getting
    BY <1>5 DEF LoadNext, LoadDone, PutCall, getVars, poolVars
  <2> QED
    BY <1>5, <2>1 DEF LoadNext, LoadDone, ThreadTypes, listVars, logVars, consumerVars
<1>6. CASE Begin
  <2>1. PICK a \in Users : node' = [ip |-> a, port |-> userlist[a]]
    BY <1>6 DEF Begin
  <2>2. node' \in Address
    BY <2>1 DEF Users, Address, ThreadTypes
  <2> QED
    BY <1>6, <2>2 DEF Begin, GetCall, ThreadTypes, producerVars, logVars
<1>7. CASE GetStep
  BY <1>7, GetSteps DEF ThreadTypes
<1>8. CASE Send
  BY <1>8 DEF Send, GetCall, ThreadTypes, listVars, logVars, producerVars
<1>9. CASE SendFail
  BY <1>9 DEF SendFail, poolVars, getVars, ThreadTypes, logVars, producerVars
<1>10. CASE UNCHANGED vars
  BY <1>10 DEF ThreadTypes, vars, poolVars, getVars, listVars, logVars, consumerVars
<1> QED
  BY <1>1, <1>2, <1>3, <1>4, <1>5, <1>6, <1>7, <1>8, <1>9, <1>10 DEF Next

\* Type correctness of the server, for any addresses and ports, any messages and
\* any number of keys (productRun, RecvData, broadCast, udpServerMain.cpp:16-60).
THEOREM ServerTypes == Spec => []ServerTypeOK
<1>1. PoolTypeOK /\ ThreadTypes => ServerTypeOK
  BY DEF ThreadTypes, ServerTypeOK
<1>2. Spec => []PoolTypeOK
  BY ServerUsesPool, PoolInvariance, PTL DEF UsesPool
<1> QED
  BY <1>1, <1>2, ThreadTypesInit, ThreadTypesStep, PTL DEF Spec

\* In the server, too, the semaphores account for the slots, and no slot is written
\* while it is read, though pool.cpp has no mutex.
THEOREM ServerIsSafe == Spec => []ServerSafe
  BY ServerTypes, ServerUsesPool, PoolInvariance, NoRace, PTL DEF UsesPool, ServerSafe

-----------------------------------------------------------------------------
(* broadCast sends to one user.                                            *)

\* Until a QUIT or a send that fails, the consumer goes to begin() once, and its
\* node stays in the list.
OneNode ==
  disturbed \/ IF consumer = "begin" THEN served = {} ELSE linked /\ served \subseteq {node}

LEMMA OneNodeStep == ThreadTypes /\ OneNode /\ [Next]_vars => OneNode'
<1> SUFFICES ASSUME ThreadTypes, OneNode, [Next]_vars, ~disturbed' PROVE OneNode'
  BY DEF OneNode
<1>1. ASSUME NEW a \in Ip, NEW p \in Port, NEW m \in Message, Recv(a, p, m)
      PROVE  OneNode'
  <2>1. ~disturbed /\ m \notin Quits
    BY <1>1, Zenon DEF Recv
  <2>2. Insert(a, p) /\ UNCHANGED <<consumer, served>>
    BY <1>1, <2>1 DEF Recv, consumerVars
  <2>3. CASE consumer = "begin"
    BY <2>1, <2>2, <2>3 DEF OneNode
  <2>4. CASE consumer # "begin"
    <3>1. linked
      BY <2>1, <2>4 DEF OneNode
    <3>2. UNCHANGED <<node, linked>>
      BY <2>2, <3>1 DEF Insert, listVars
    <3> QED
      BY <2>1, <2>2, <2>4, <3>2 DEF OneNode
  <2> QED
    BY <2>3, <2>4
<1>2. CASE RecvFail \/ PutStep \/ Handle \/ LoadNext \/ LoadDone \/ UNCHANGED vars
  BY <1>2 DEF RecvFail, PutStep, Handle, LoadNext, LoadDone, vars, listVars,
              consumerVars, OneNode
<1>3. CASE Begin
  BY <1>3 DEF Begin, OneNode
<1>4. CASE GetStep
  BY <1>4, GetSteps DEF OneNode
<1>5. CASE Send
  BY <1>5 DEF Send, listVars, OneNode
<1>6. CASE SendFail
  BY <1>6 DEF SendFail
<1> QED
  BY <1>1, <1>2, <1>3, <1>4, <1>5, <1>6 DEF Next

\* In spite of its name broadCast sends to one user only, as long as nobody quits
\* and no send fails, whoever else joins (udpServer.cpp:148-174).
THEOREM OnlyOneReceiver == Spec => []OneReceiver
<1>1. Init => OneNode
  BY DEF Init, OneNode
<1>2. OneNode => OneReceiver
  <2> SUFFICES ASSUME OneNode, ~disturbed PROVE Cardinality(served) <= 1
    BY DEF OneReceiver
  <2>1. served \subseteq {node}
    BY DEF OneNode
  <2>2. served = {} \/ served = {node}
    BY <2>1
  <2>3. Cardinality({}) = 0 /\ Cardinality({node}) = 1
    BY FS_EmptySet, FS_Singleton
  <2> QED
    BY <2>2, <2>3
<1> QED
  BY <1>1, <1>2, ThreadTypesInit, ThreadTypesStep, OneNodeStep, PTL DEF Spec

-----------------------------------------------------------------------------
(* What LOAD replays.                                                      *)

NextKey(k) == IF k + 1 = KeyMax THEN 0 ELSE k + 1

\* SessionCount = (SessionCount + 1) % KEY_MAX.
LEMMA KeyWraps ==
  ASSUME NEW k \in 0 .. KeyMax - 1
  PROVE  (k + 1) % KeyMax = NextKey(k)
<1>1. CASE k + 1 = KeyMax
  BY <1>1, UdpServerAssumption DEF NextKey
<1>2. CASE k + 1 < KeyMax
  BY <1>2, UdpServerAssumption DEF NextKey
<1> QED
  BY <1>1, <1>2, UdpServerAssumption

\* One round of the keys leaves the remainder as it is.
LEMMA Round ==
  ASSUME NEW d \in Nat, d % KeyMax = 0
  PROVE  (d + KeyMax) % KeyMax = 0
<1> USE UdpServerAssumption
<1> DEFINE p == d \div KeyMax
           q == (d + KeyMax) \div KeyMax
           r == (d + KeyMax) % KeyMax
<1>1. d = KeyMax * p /\ p \in Int
  OBVIOUS
<1>2. d + KeyMax = KeyMax * q + r /\ q \in Int /\ r \in 0 .. KeyMax - 1
  <2>1. d + KeyMax \in Nat
    OBVIOUS
  <2> QED
    BY <2>1
<1> HIDE DEF p, q, r
<1>3. KeyMax * ((p + 1) - q) = r
  <2>1. KeyMax * (p + 1) = KeyMax * q + r
    BY <1>1, <1>2
  <2>2. KeyMax * (p + 1) - KeyMax * q = KeyMax * ((p + 1) - q)
    BY <1>1, <1>2
  <2>3. KeyMax * (p + 1) \in Int /\ KeyMax * q \in Int
    BY <1>1, <1>2
  <2> QED
    BY <2>1, <2>2, <2>3, <1>2
<1>4. (p + 1) - q = 0
  <2>1. ASSUME NEW t \in Int, t >= 1 PROVE KeyMax * t >= KeyMax
    BY <2>1
  <2>2. ASSUME NEW t \in Int, t <= -1 PROVE KeyMax * t <= -KeyMax
    BY <2>2
  <2>3. CASE (p + 1) - q >= 1
    BY <2>3, <1>1, <1>2, <1>3, <2>1
  <2>4. CASE (p + 1) - q <= -1
    BY <2>4, <1>1, <1>2, <1>3, <2>2
  <2> QED
    BY <2>3, <2>4, <1>1, <1>2
<1> QED
  BY <1>3, <1>4 DEF r

\* The keys in session come round: the next one is that of KEY_MAX messages ago,
\* and none of those used since.
KeysCycle ==
  /\ Len(stored) = Len(session)
  /\ Len(session) < KeyMax => SessionCount = Len(session)
  /\ \A i \in 1 .. Len(session) :
       /\ i = 1 => session[i] = 0
       /\ i < Len(session) => session[i + 1] = NextKey(session[i])
       /\ i = Len(session) => SessionCount = NextKey(session[i])
       /\ Len(session) + 1 - i < KeyMax => session[i] # SessionCount
       /\ Len(session) + 1 - i = KeyMax => session[i] = SessionCount

\* ReplayIsLatest, and the message was stored under the same key.
Replayed ==
  \A i \in 1 .. Len(session) : \E j \in i .. Len(stored) :
    /\ redis[session[i]] = stored[j] /\ session[j] = session[i]
    /\ j + KeyMax > Len(stored) /\ (j - i) % KeyMax = 0

\* A message is stored.
Stores ==
  /\ redis' = [redis EXCEPT ![SessionCount] = msg]
  /\ SessionCount' = (SessionCount + 1) % KeyMax
  /\ session' = Append(session, SessionCount)
  /\ stored' = Append(stored, msg)

LEMMA StoreFacts ==
  ASSUME ThreadTypes, KeysCycle, Stores
  PROVE  /\ Len(session') = Len(session) + 1 /\ Len(stored') = Len(session')
         /\ session'[Len(session')] = SessionCount /\ stored'[Len(session')] = msg
         /\ \A i \in 1 .. Len(session) : session'[i] = session[i] /\ stored'[i] = stored[i]
         /\ SessionCount' = NextKey(SessionCount)
<1>1. session \in Seq(0 .. KeyMax - 1) /\ stored \in Seq(Message) /\ Len(stored) = Len(session)
  BY DEF ThreadTypes, KeysCycle
<1>2. SessionCount' = NextKey(SessionCount)
  BY KeyWraps DEF ThreadTypes, Stores
<1> QED
  BY <1>1, <1>2 DEF Stores

LEMMA KeysStep ==
  ASSUME ThreadTypes, KeysCycle, Stores
  PROVE  KeysCycle'
<1> USE UdpServerAssumption
<1> DEFINE n == Len(session)
<1>1. n \in Nat /\ SessionCount \in 0 .. KeyMax - 1
  BY DEF ThreadTypes
<1>2. \A i \in 1 .. n : session[i] \in 0 .. KeyMax - 1
  BY DEF ThreadTypes
<1>3. n + 1 < KeyMax => SessionCount' = n + 1
  BY <1>1, StoreFacts DEF KeysCycle, NextKey
<1>4. ASSUME NEW k \in 0 .. KeyMax - 1, NEW l \in 0 .. KeyMax - 1
      PROVE  (NextKey(k) = NextKey(l)) <=> (k = l)
  BY <1>4 DEF NextKey
<1>5. ASSUME NEW i \in 1 .. n + 1
      PROVE  /\ i = 1 => session'[i] = 0
             /\ i < n + 1 => session'[i + 1] = NextKey(session'[i])
             /\ i = n + 1 => SessionCount' = NextKey(session'[i])
             /\ n + 2 - i < KeyMax => session'[i] # SessionCount'
             /\ n + 2 - i = KeyMax => session'[i] = SessionCount'
  <2>1. i = 1 => session'[i] = 0
    BY <1>1, StoreFacts DEF KeysCycle
  <2>2. i < n + 1 => session'[i + 1] = NextKey(session'[i])
    <3>1. CASE i < n
      <4>1. i \in 1 .. n /\ i + 1 \in 1 .. n
        BY <1>1, <3>1
      <4> QED
        BY <1>1, <3>1, <4>1, StoreFacts DEF KeysCycle
    <3>2. CASE i = n
      <4>1. i \in 1 .. n
        BY <1>1, <3>2
      <4>2. session'[i] = session[i] /\ session'[i + 1] = SessionCount
        BY <1>1, <3>2, <4>1, StoreFacts
      <4> QED
        BY <1>1, <3>2, <4>1, <4>2 DEF KeysCycle
    <3> QED
      BY <1>1, <3>1, <3>2
  <2>3. i = n + 1 => SessionCount' = NextKey(session'[i])
    BY <1>1, StoreFacts
  <2>4. (n + 2 - i < KeyMax => session'[i] # SessionCount')
        /\ (n + 2 - i = KeyMax => session'[i] = SessionCount')
    <3>1. CASE i = n + 1
      <4>1. session'[i] = SessionCount /\ SessionCount' = NextKey(SessionCount)
        BY <1>1, <3>1, StoreFacts
      <4>2. n + 2 - i = 1
        BY <1>1, <3>1
      <4> QED
        BY <1>1, <4>1, <4>2 DEF NextKey
    <3>2. CASE i = 1 /\ i # n + 1
      <4>1. i \in 1 .. n /\ session'[i] = 0 /\ n + 2 - i = n + 1
        BY <1>1, <2>1, <3>2
      <4>2. n + 1 = KeyMax => SessionCount = n
        BY <1>1 DEF KeysCycle
      <4>3. n + 1 = KeyMax => SessionCount' = 0
        BY <1>1, <4>2, StoreFacts DEF NextKey
      <4> QED
        BY <1>1, <1>3, <4>1, <4>3
    <3>3. CASE i \in 2 .. n
      <4>1. i \in 1 .. n /\ i - 1 \in 1 .. n /\ i - 1 < n /\ (i - 1) + 1 = i
            /\ n + 2 - i = n + 1 - (i - 1)
        BY <1>1, <3>3
      <4>2. session[i] = NextKey(session[i - 1])
        BY <4>1 DEF KeysCycle
      <4>3. (n + 1 - (i - 1) < KeyMax => session[i - 1] # SessionCount)
            /\ (n + 1 - (i - 1) = KeyMax => session[i - 1] = SessionCount)
        BY <4>1 DEF KeysCycle
      <4>4. session'[i] = NextKey(session[i - 1])
            /\ SessionCount' = NextKey(SessionCount)
        BY <4>1, <4>2, StoreFacts
      <4>5. session[i - 1] \in 0 .. KeyMax - 1
        BY <1>2, <4>1
      <4>6. (session'[i] = SessionCount') <=> (session[i - 1] = SessionCount)
        BY <1>1, <1>4, <4>4, <4>5
      <4> QED
        BY <4>1, <4>3, <4>6
    <3> QED
      BY <1>1, <3>1, <3>2, <3>3
  <2> QED
    BY <2>1, <2>2, <2>3, <2>4
<1>6. Len(session') = n + 1 /\ Len(stored') = n + 1
  BY StoreFacts
<1>7. Len(session') + 1 = n + 2
  BY <1>1, <1>6
<1>8. ASSUME NEW i \in 1 .. Len(session')
      PROVE  /\ i = 1 => session'[i] = 0
             /\ i < Len(session') => session'[i + 1] = NextKey(session'[i])
             /\ i = Len(session') => SessionCount' = NextKey(session'[i])
             /\ Len(session') + 1 - i < KeyMax => session'[i] # SessionCount'
             /\ Len(session') + 1 - i = KeyMax => session'[i] = SessionCount'
  <2> HIDE DEF n
  <2>1. i \in 1 .. n + 1
    BY <1>6
  <2>2. (i = 1 => session'[i] = 0)
        /\ (i < n + 1 => session'[i + 1] = NextKey(session'[i]))
        /\ (i = n + 1 => SessionCount' = NextKey(session'[i]))
    BY <1>5, <2>1
  <2>3. (n + 2 - i < KeyMax => session'[i] # SessionCount')
        /\ (n + 2 - i = KeyMax => session'[i] = SessionCount')
    BY <1>5, <2>1
  <2>4. Len(session') + 1 - i = n + 2 - i
    BY <1>1, <1>6
  <2>5. (Len(session') + 1 - i < KeyMax => session'[i] # SessionCount')
        /\ (Len(session') + 1 - i = KeyMax => session'[i] = SessionCount')
    BY <2>3, <2>4
  <2> QED
    BY <1>6, <2>2, <2>5
<1>9. Len(stored') = Len(session')
      /\ (Len(session') < KeyMax => SessionCount' = Len(session'))
  BY <1>3, <1>6
<1> QED
  BY <1>8, <1>9 DEF KeysCycle, NextKey

LEMMA ReplayStep ==
  ASSUME ThreadTypes, KeysCycle, Replayed, Stores
  PROVE  Replayed'
<1> USE UdpServerAssumption
<1> DEFINE n == Len(session)
<1>1. n \in Nat /\ SessionCount \in 0 .. KeyMax - 1 /\ Len(stored) = n
  BY DEF ThreadTypes, KeysCycle
<1>2. redis'[SessionCount] = msg
      /\ \A k \in 0 .. KeyMax - 1 : k # SessionCount => redis'[k] = redis[k]
  BY <1>1 DEF ThreadTypes, Stores
<1>3. ASSUME NEW i \in 1 .. n + 1
      PROVE  \E j \in i .. n + 1 :
               /\ redis'[session'[i]] = stored'[j] /\ session'[j] = session'[i]
               /\ j + KeyMax > n + 1 /\ (j - i) % KeyMax = 0
  <2>1. CASE i = n + 1
    <3>1. n + 1 \in i .. n + 1 /\ (n + 1 - i) % KeyMax = 0
          /\ (n + 1) + KeyMax > n + 1
      BY <1>1, <2>1
    <3>2. session'[i] = SessionCount /\ session'[n + 1] = session'[i]
          /\ stored'[n + 1] = msg
      BY <2>1, StoreFacts
    <3>3. redis'[session'[i]] = stored'[n + 1]
      BY <1>2, <3>2
    <3> WITNESS n + 1 \in i .. n + 1
    <3> QED
      BY <3>1, <3>2, <3>3
  <2>2. CASE i \in 1 .. n
    <3>1. PICK j \in i .. n :
            /\ redis[session[i]] = stored[j] /\ session[j] = session[i]
            /\ j + KeyMax > n /\ (j - i) % KeyMax = 0
      BY <1>1, <2>2 DEF Replayed
    <3>2. session[i] \in 0 .. KeyMax - 1
      BY <2>2 DEF ThreadTypes
    <3>3. j \in 1 .. n
      BY <1>1, <2>2
    <3>4. CASE session[i] = SessionCount
      <4>1. n + 1 = j + KeyMax
        <5>1. n + 1 - j < KeyMax => session[j] # SessionCount
          BY <3>3 DEF KeysCycle
        <5>2. session[j] = SessionCount /\ j + KeyMax > n
          BY <3>1, <3>4
        <5> QED
          BY <1>1, <3>3, <5>1, <5>2
      <4>2. j - i \in Nat /\ (n + 1) - i = (j - i) + KeyMax
        BY <1>1, <2>2, <4>1
      <4>3. ((n + 1) - i) % KeyMax = 0
        BY <3>1, <4>2, Round
      <4> QED
        BY <1>1, <1>2, <2>2, <3>4, <4>3, StoreFacts
    <3>5. CASE session[i] # SessionCount
      <4>1. n + 1 # j + KeyMax
        BY <1>1, <3>1, <3>3, <3>5 DEF KeysCycle
      <4>2. j + KeyMax > n + 1
        BY <1>1, <3>1, <3>3, <4>1
      <4>3. /\ session'[i] = session[i] /\ session'[j] = session[j]
            /\ stored'[j] = stored[j]
        BY <2>2, <3>3, StoreFacts
      <4>4. redis'[session[i]] = redis[session[i]]
        BY <1>2, <3>2, <3>5
      <4>5. j \in i .. n + 1
        BY <1>1, <2>2, <3>3
      <4> WITNESS j \in i .. n + 1
      <4> QED
        BY <3>1, <4>2, <4>3, <4>4
    <3> QED
      BY <3>4, <3>5
  <2> QED
    BY <1>1, <2>1, <2>2
<1>4. Len(session') = n + 1 /\ Len(stored') = n + 1
  BY StoreFacts
<1> HIDE DEF n
<1> QED
  BY <1>3, <1>4 DEF Replayed

LEMMA ReplayInvStep ==
  ThreadTypes /\ KeysCycle /\ Replayed /\ [Next]_vars => KeysCycle' /\ Replayed'
<1> SUFFICES ASSUME ThreadTypes, KeysCycle, Replayed, [Next]_vars
             PROVE  KeysCycle' /\ Replayed'
  OBVIOUS
<1>1. UNCHANGED logVars \/ Stores
  BY DEF Next, Recv, RecvFail, PutStep, Handle, LoadNext, LoadDone, Begin, GetStep, Send,
         SendFail, producerVars, vars, logVars, Stores
<1>2. CASE UNCHANGED logVars
  BY <1>2 DEF logVars, KeysCycle, Replayed
<1> QED
  BY <1>1, <1>2, KeysStep, ReplayStep

\* For any number of keys, LOAD replays for every key used the latest message
\* stored under it (udpServerMain.cpp:31-47).
THEOREM ReplaysLatest == Spec => []ReplayIsLatest
<1>1. Init => KeysCycle /\ Replayed
  BY UdpServerAssumption DEF Init, KeysCycle, Replayed
<1>2. Replayed => ReplayIsLatest
  BY DEF Replayed, ReplayIsLatest
<1> QED
  BY <1>1, <1>2, ThreadTypesInit, ThreadTypesStep, ReplayInvStep, PTL DEF Spec

-----------------------------------------------------------------------------
(* Nobody gets the two threads going again.                                *)

\* While a put waits, the producer is in RecvData or in the LOAD loop; the
\* consumer is in a call of GetData at "get" only.
BothInCalls ==
  /\ putting # "no" => producer \in {"put", "load"}
  /\ consumer # "get" => getting = "no"

LEMMA InCallsStep == BothInCalls /\ [Next]_vars => BothInCalls'
<1> SUFFICES ASSUME BothInCalls, [Next]_vars PROVE BothInCalls'
  OBVIOUS
<1> USE DEF BothInCalls
<1>1. ASSUME NEW a \in Ip, NEW p \in Port, NEW m \in Message, Recv(a, p, m)
      PROVE  BothInCalls'
  BY <1>1 DEF Recv, PutCall, getVars, consumerVars
<1>2. CASE PutStep
  BY <1>2 DEF PutStep, PutWait, PutPost, PutOutside, getVars, putVars, consumerVars
<1>3. CASE LoadNext \/ LoadDone \/ Handle \/ RecvFail
  BY <1>3 DEF LoadNext, LoadDone, Handle, RecvFail, PutCall, getVars, putVars,
              poolVars, consumerVars
<1>4. CASE Begin \/ GetStep \/ Send \/ SendFail
  BY <1>4 DEF Begin, GetStep, Send, SendFail, GetCall, GetWait, GetPost, getVars,
              putVars, poolVars, consumerVars, producerVars
<1>5. CASE UNCHANGED vars
  BY <1>5 DEF vars, poolVars, getVars, putVars, consumerVars
<1> QED
  BY <1>1, <1>2, <1>3, <1>4, <1>5 DEF Next

LEMMA WedgedStep == BothInCalls /\ Wedged /\ [Next]_vars => Wedged'
<1> SUFFICES ASSUME BothInCalls, Wedged, [Next]_vars PROVE Wedged'
  OBVIOUS
<1> USE DEF BothInCalls, Wedged
<1>1. ASSUME NEW a \in Ip, NEW p \in Port, NEW m \in Message, Recv(a, p, m)
      PROVE  FALSE
  BY <1>1 DEF Recv
<1>2. ~PutStep
  BY DEF PutStep, PutWait, PutPost, PutOutside
<1>3. ~(Handle \/ LoadNext \/ LoadDone \/ RecvFail)
  BY DEF Handle, LoadNext, LoadDone, RecvFail, PutCall
<1>4. ~(GetStep \/ Send \/ SendFail)
  BY DEF GetStep, Send, SendFail, GetWait, GetPost
<1>5. ~Begin
  BY DEF Begin
<1>6. UNCHANGED vars
  BY <1>1, <1>2, <1>3, <1>4, <1>5 DEF Next
<1> QED
  BY <1>6 DEF vars, poolVars, putVars, consumerVars, listVars, Users

\* Once the producer waits for room and the consumer for users, nothing any
\* client sends brings the server back (MessagePool's PutData,
\* udpServer.cpp:142, and the empty loop of broadCast, lines 151-164).
THEOREM StaysWedged == Spec => WedgedForever
<1>1. Init => BothInCalls
  BY DEF Init, PoolInit, BothInCalls
<1>2. ASSUME BothInCalls, [Next]_vars PROVE [Wedged => Wedged']_vars
  BY <1>2, WedgedStep
<1> QED
  BY <1>1, <1>2, InCallsStep, PTL DEF Spec, WedgedForever
=============================================================================
