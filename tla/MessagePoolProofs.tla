------------------------- MODULE MessagePoolProofs -------------------------
(***************************************************************************)
(* Proofs about MessagePool, for any capacity, any messages and whatever   *)
(* size the vector was constructed with.                                   *)
(***************************************************************************)
EXTENDS MessagePool, SequenceTheorems, TLAPS

PInv == PoolTypeOK /\ SlotsAccounted

\* productStep %= _cap and consumStep %= _cap wrap at the end of the ring.
LEMMA Wrap ==
  ASSUME NEW x \in 0 .. Cap - 1
  PROVE  (x + 1) % Cap = IF x + 1 = Cap THEN 0 ELSE x + 1
<1>1. CASE x + 1 = Cap
  BY <1>1, MessagePoolAssumption
<1>2. CASE x + 1 < Cap
  BY <1>2, MessagePoolAssumption
<1> QED
  BY <1>1, <1>2, MessagePoolAssumption

\* The constructor establishes the invariant.
LEMMA PoolInitInv == PoolInit => PInv
<1> SUFFICES ASSUME PoolInit PROVE PInv
  OBVIOUS
<1>1. slot \in [0 .. Cap - 1 -> Message \union {None}]
  BY DEF PoolInit
<1>2. /\ productStep \in 0 .. Cap - 1 /\ consumStep \in 0 .. Cap - 1
      /\ blank \in 0 .. Cap /\ data \in 0 .. Cap
  BY MessagePoolAssumption DEF PoolInit
<1>3. SlotsAccounted
  BY MessagePoolAssumption DEF PoolInit, SlotsAccounted, Filled
<1> QED
  BY <1>1, <1>2, <1>3 DEF PoolInit, PInv, PoolTypeOK

\* Every step of a put and of a get keeps it.
LEMMA PoolStepInv ==
  ASSUME PInv, [PoolNext]_poolVars
  PROVE  PInv'
<1> USE MessagePoolAssumption DEF PInv, PoolTypeOK, SlotsAccounted, Filled
<1>1. ASSUME NEW m \in Message, PutCall(m) PROVE PInv'
  BY <1>1 DEF PutCall, getVars
<1>2. CASE PutWait
  BY <1>2 DEF PutWait, getVars
<1>3. CASE PutPost
  <2>1. productStep' = IF productStep + 1 = Cap THEN 0 ELSE productStep + 1
    BY <1>3, Wrap DEF PutPost
  <2>2. slot' \in [0 .. Cap - 1 -> Message \union {None}]
    BY <1>3 DEF PutPost
  <2> QED
    BY <1>3, <2>1, <2>2 DEF PutPost, getVars
<1>4. CASE PutOutside
  BY <1>4 DEF PutOutside, putVars, getVars
<1>5. CASE GetCall
  BY <1>5 DEF GetCall, putVars
<1>6. CASE GetWait
  BY <1>6 DEF GetWait, putVars
<1>7. CASE GetPost
  <2>1. consumStep' = IF consumStep + 1 = Cap THEN 0 ELSE consumStep + 1
    BY <1>7, Wrap DEF GetPost
  <2>2. outmsg' \in Message \union {None}
    BY <1>7 DEF GetPost
  <2>3. UNCHANGED <<vec, slot, productStep, inmsg, putting, data, crashed>>
    BY <1>7 DEF GetPost, putVars
  <2>4. /\ blank' = blank + 1 /\ getting = "reading" /\ getting' = "no"
        /\ Filled = data + 1 /\ Filled' = data
    BY <1>7, <2>3 DEF GetPost
  <2>5. SlotsAccounted'
    BY <2>1, <2>3, <2>4
  <2> QED
    BY <2>1, <2>2, <2>3, <2>4, <2>5
<1>8. CASE UNCHANGED poolVars
  BY <1>8 DEF poolVars
<1> QED
  BY <1>1, <1>2, <1>3, <1>4, <1>5, <1>6, <1>7, <1>8 DEF PoolNext

\* The semaphores account for every slot of the ring at every moment.
THEOREM PoolInvariance == PoolSpec => [](PoolTypeOK /\ SlotsAccounted)
<1>1. PInv /\ [PoolNext]_poolVars => PInv'
  BY PoolStepInv
<1> QED
  BY PoolInitInv, <1>1, PTL DEF PoolSpec, PInv

\* The two semaphores are enough: without a mutex the slot that is written is
\* never the slot that is read.
THEOREM NoRace == PoolSpec => []NoSlotRace
<1>1. PoolTypeOK /\ SlotsAccounted => NoSlotRace
  BY MessagePoolAssumption DEF PoolTypeOK, SlotsAccounted, NoSlotRace, Filled
<1> QED
  BY PoolInvariance, <1>1, PTL
-----------------------------------------------------------------------------
(* Refinement. *)

Content == [i \in 1 .. Filled |-> slot[Index(i)]]
Pending == IF putting = "no" THEN None ELSE inmsg

\* Appending to a sequence of n elements, element by element.
LEMMA AppendFacts ==
  ASSUME NEW S, NEW seq \in Seq(S), NEW elt \in S, NEW n \in Nat, Len(seq) = n
  PROVE  /\ Append(seq, elt) \in Seq(S)
         /\ Len(Append(seq, elt)) = n + 1
         /\ \A i \in 1 .. n + 1 :
              Append(seq, elt)[i] = IF i <= n THEN seq[i] ELSE elt
<1>1. /\ Append(seq, elt) \in Seq(S)
      /\ Len(Append(seq, elt)) = n + 1
      /\ \A i \in 1 .. n : Append(seq, elt)[i] = seq[i]
      /\ Append(seq, elt)[n + 1] = elt
  BY AppendProperties
<1>2. ASSUME NEW i \in 1 .. n + 1
      PROVE  Append(seq, elt)[i] = IF i <= n THEN seq[i] ELSE elt
  <2>1. CASE i <= n
    BY <1>1, <2>1
  <2>2. CASE ~ (i <= n)
    <3>1. i = n + 1
      BY <2>2
    <3> QED
      BY <1>1, <2>2, <3>1
  <2> QED
    BY <2>1, <2>2
<1> QED
  BY <1>1, <1>2

\* The content of the ring is a sequence of Filled messages.
LEMMA ContentSeq ==
  ASSUME PInv
  PROVE  /\ Filled \in Nat /\ Filled <= Cap
         /\ Content \in Seq(Message \union {None})
         /\ Len(Content) = Filled
         /\ DOMAIN Content = 1 .. Filled
<1> USE MessagePoolAssumption DEF PInv, PoolTypeOK, SlotsAccounted
<1>1. Filled \in Nat /\ Filled <= Cap
  BY DEF Filled
<1>2. \A i \in 1 .. Filled : Index(i) \in 0 .. Cap - 1
  BY <1>1 DEF Index
<1>3. \A i \in 1 .. Filled : slot[Index(i)] \in Message \union {None}
  BY <1>2
<1>4. Content \in [1 .. Filled -> Message \union {None}]
  BY <1>3 DEF Content
<1>5. Content \in Seq(Message \union {None})
  BY <1>1, <1>4
<1> QED
  BY <1>1, <1>4, <1>5

\* sem_post(&_data) of PutData appends the message to the content.
LEMMA PutAppends ==
  ASSUME PInv, PInv', PutPost
  PROVE  Content' = Append(Content, inmsg) /\ Len(Content) < Cap
<1> USE MessagePoolAssumption DEF PInv, PoolTypeOK, SlotsAccounted
<1>1. /\ Filled \in Nat /\ Filled < Cap /\ Filled' = Filled + 1
      /\ Content \in Seq(Message \union {None}) /\ Len(Content) = Filled
  BY ContentSeq DEF PutPost, Filled, getVars
<1>2. \A i \in 1 .. Filled + 1 : Index(i)' = Index(i)
  BY DEF PutPost, getVars, Index
<1>3. Index(Filled + 1) = productStep
  BY <1>1 DEF Index
<1>4. ASSUME NEW i \in 1 .. Filled
      PROVE  Index(i) \in 0 .. Cap - 1 /\ Index(i) # productStep
  BY <1>1 DEF Index
<1>5. slot'[productStep] = inmsg
      /\ \A j \in 0 .. Cap - 1 : j # productStep => slot'[j] = slot[j]
  BY DEF PutPost
<1>6. /\ Content' \in Seq(Message \union {None}) /\ Len(Content') = Filled + 1
      /\ \A i \in 1 .. Filled + 1 : Content'[i] = slot'[Index(i)]
  <2>1. Content' = [i \in 1 .. Filled + 1 |-> slot'[Index(i)]]
    BY <1>1, <1>2 DEF Content
  <2>2. \A i \in 1 .. Filled + 1 : slot'[Index(i)] \in Message \union {None}
    BY <1>1, <1>3, <1>4
  <2>3. Content' \in [1 .. Filled + 1 -> Message \union {None}]
    BY <2>1, <2>2
  <2> QED
    BY <1>1, <2>1, <2>3
<1>7. /\ Append(Content, inmsg) \in Seq(Message \union {None})
      /\ Len(Append(Content, inmsg)) = Filled + 1
      /\ \A i \in 1 .. Filled + 1 :
           Append(Content, inmsg)[i] = IF i <= Filled THEN Content[i] ELSE inmsg
  <2>1. inmsg \in Message \union {None}
    OBVIOUS
  <2> HIDE MessagePoolAssumption DEF PInv, PoolTypeOK, SlotsAccounted
  <2> QED
    BY <1>1, <2>1, AppendFacts
<1>8. ASSUME NEW i \in 1 .. Filled + 1
      PROVE  slot'[Index(i)] = IF i <= Filled THEN Content[i] ELSE inmsg
  <2>1. CASE i <= Filled
    BY <1>1, <1>4, <1>5, <2>1 DEF Content
  <2>2. CASE i = Filled + 1
    BY <1>1, <1>3, <1>5, <2>2
  <2> QED
    BY <1>1, <2>1, <2>2
<1>9. \A i \in 1 .. Len(Content') : Content'[i] = Append(Content, inmsg)[i]
  BY <1>6, <1>7, <1>8
<1> QED
  BY <1>1, <1>6, <1>7, <1>9, SeqEqual

\* GetData returns the first message of the content and leaves the rest.
LEMMA GetTakesHead ==
  ASSUME PInv, PInv', GetPost
  PROVE  /\ Content # <<>>
         /\ outmsg' = Head(Content)
         /\ Content' = Tail(Content)
<1> USE MessagePoolAssumption DEF PInv, PoolTypeOK, SlotsAccounted
<1>0. Filled = data + 1 /\ Filled' = data /\ data \in Nat
  BY DEF GetPost, Filled, putVars
<1>1. /\ Filled \in Nat /\ Filled >= 1 /\ Filled <= Cap /\ Filled' = Filled - 1
      /\ Content \in Seq(Message \union {None}) /\ Len(Content) = Filled
  BY <1>0, ContentSeq
<1>2. consumStep' = IF consumStep + 1 = Cap THEN 0 ELSE consumStep + 1
  BY Wrap DEF GetPost
<1>3. \A i \in 1 .. Filled - 1 : Index(i)' = Index(i + 1)
  BY <1>1, <1>2 DEF Index
<1>4. Content[1] = slot[consumStep]
  BY <1>1 DEF Content, Index
<1>5. Content' = [i \in 1 .. Filled - 1 |-> slot[Index(i + 1)]]
  BY <1>1, <1>3 DEF Content, GetPost, putVars
<1>6. Tail(Content) = [i \in 1 .. Filled - 1 |-> Content[i + 1]]
  BY <1>1
<1>7. \A i \in 1 .. Filled - 1 : Content[i + 1] = slot[Index(i + 1)]
  BY <1>1 DEF Content
<1>8. Content # <<>>
  BY <1>1
<1>9. Head(Content) = Content[1]
  BY <1>1, <1>8
<1>10. Content' = Tail(Content)
  BY <1>5, <1>6, <1>7
<1>11. outmsg' = slot[consumStep]
  BY DEF GetPost
<1> QED
  BY <1>4, <1>8, <1>9, <1>10, <1>11

\* Every step of the ring is a step of the queue or changes nothing in it.
LEMMA QueueStep ==
  ASSUME PInv, PInv', [PoolNext]_poolVars
  PROVE  [Queue!Next]_(Queue!queueVars)
<1> USE MessagePoolAssumption
<1> USE DEF Queue!queueVars, Queue!Next
<1>1. ASSUME NEW m \in Message, PutCall(m) PROVE Queue!Call(m)
  <2>1. Content' = Content
    BY <1>1 DEF PutCall, getVars, Content, Filled, Index
  <2>2. Pending = None /\ Pending' = m
    BY <1>1 DEF PutCall, Pending
  <2> QED
    BY <1>1, <2>1, <2>2
    DEF PutCall, getVars, Queue!Call, Content, Pending
<1>2. ASSUME PutWait \/ PutOutside \/ GetCall \/ GetWait \/ UNCHANGED poolVars
      PROVE  UNCHANGED <<Pending, Content, outmsg>>
  <2>1. Filled' = Filled
    <3>1. CASE GetWait
      <4>1. data' = data - 1 /\ getting = "waiting" /\ getting' = "reading"
            /\ data \in Nat
        BY <3>1 DEF GetWait, PInv, PoolTypeOK
      <4> QED
        BY <4>1 DEF Filled
    <3>2. CASE PutWait \/ PutOutside \/ GetCall \/ UNCHANGED poolVars
      BY <3>2 DEF PutWait, PutOutside, GetCall, poolVars, getVars, putVars,
                  Filled
    <3> QED
      BY <1>2, <3>1, <3>2
  <2>2. UNCHANGED <<consumStep, slot, outmsg, inmsg>>
    BY <1>2 DEF PutWait, PutOutside, GetCall, GetWait, poolVars, putVars,
                getVars
  <2>3. Content' = Content
    BY <2>1, <2>2 DEF Content, Index
  <2>4. Pending' = Pending
    BY <1>2, <2>2 DEF PutWait, PutOutside, GetCall, GetWait, poolVars,
                      putVars, Pending
  <2> QED
    BY <2>2, <2>3, <2>4
<1>3. CASE PutPost
  <2>1. Content' = Append(Content, inmsg) /\ Len(Content) < Cap
    BY <1>3, PutAppends
  <2>2. Pending = inmsg /\ inmsg # None /\ Pending' = None
        /\ outmsg' = outmsg
    BY <1>3 DEF PutPost, getVars, Pending, PInv, PoolTypeOK
  <2>3. Queue!Put
    BY <2>1, <2>2 DEF Queue!Put, Content, Pending
  <2> QED
    BY <2>3
<1>4. CASE GetPost
  <2>1. Content # <<>> /\ outmsg' = Head(Content) /\ Content' = Tail(Content)
    BY <1>4, GetTakesHead
  <2>2. Pending' = Pending
    BY <1>4 DEF GetPost, putVars, Pending
  <2>3. Queue!Get
    BY <2>1, <2>2 DEF Queue!Get, Content, Pending
  <2> QED
    BY <2>3
<1>5. UNCHANGED <<Pending, Content, outmsg>> => UNCHANGED Queue!queueVars
  BY DEF Pending, Content
<1> QED
  BY <1>1, <1>2, <1>3, <1>4, <1>5 DEF PoolNext

\* pool.cpp implements a bounded queue: with one thread putting and one
\* getting, messages leave in the order in which they entered, each once.
THEOREM RingRefinement == PoolSpec => ImplementsBoundedQueue
<1>1. PoolInit => Queue!Init
  <2> SUFFICES ASSUME PoolInit PROVE Queue!Init
    OBVIOUS
  <2>1. Filled = 0
    BY DEF PoolInit, Filled
  <2>2. Content = <<>>
    BY <2>1 DEF Content
  <2> QED
    BY <2>2 DEF PoolInit, Queue!Init, Content
<1>2. (PoolTypeOK /\ SlotsAccounted) /\ (PoolTypeOK /\ SlotsAccounted)'
        /\ [PoolNext]_poolVars
      => [Queue!Next]_(Queue!queueVars)
  BY QueueStep DEF PInv
<1> QED
  BY <1>1, <1>2, PoolInvariance, PTL
  DEF PoolSpec, ImplementsBoundedQueue, Queue!Spec
=============================================================================
