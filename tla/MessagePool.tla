---------------------------- MODULE MessagePool ----------------------------
(***************************************************************************)
(* LinuxChat/pool/pool.cpp: the ring buffer between the thread that        *)
(* receives chat messages and the thread that sends them on.  PutData      *)
(* takes a blank, writes a slot, advances productStep and adds a datum;    *)
(* GetData takes a datum, reads a slot, advances consumStep and gives the  *)
(* blank back.  There is no mutex: the two semaphores alone keep the two   *)
(* threads from touching the same slot, so a put and a get are two steps   *)
(* each, and the slot is being written, or read, in between.               *)
(*                                                                         *)
(* The member pool is declared before _cap (pool.h 20-21) and is therefore *)
(* constructed before it: the vector gets whatever _cap happened to hold   *)
(* as its size.  vec is that size, any member of VectorSize; a put at an   *)
(* index past it writes outside the vector, which ends the program here.   *)
(* _size is not modelled: nothing reads it.                                *)
(***************************************************************************)
EXTENDS Naturals, Sequences

CONSTANTS
  Message,      \* the messages
  Cap,          \* _cap, 1024 in the code
  VectorSize,   \* what _cap may hold before it is initialised
  None          \* no message

ASSUME MessagePoolAssumption ==
  /\ Cap \in Nat \ {0}
  /\ VectorSize \subseteq Nat
  /\ None \notin Message

VARIABLES
  slot,         \* the vector pool
  vec,          \* its real size
  productStep,
  consumStep,
  blank,        \* value of the semaphore _blank
  data,         \* value of the semaphore _data
  inmsg,        \* the parameter of PutData
  outmsg,       \* the parameter of GetData
  putting,      \* where the putting thread is
  getting,      \* where the getting thread is
  crashed       \* a write outside the vector has ended the program

poolVars == <<slot, vec, productStep, consumStep, blank, data, inmsg, outmsg,
              putting, getting, crashed>>

putVars == <<slot, productStep, inmsg, putting>>
getVars == <<consumStep, outmsg, getting>>

\* The constructor (lines 5-14 of pool.cpp).
PoolInit ==
  /\ vec \in VectorSize
  /\ slot = [i \in 0 .. Cap - 1 |-> None]
  /\ productStep = 0
  /\ consumStep = 0
  /\ blank = Cap
  /\ data = 0
  /\ inmsg = None
  /\ outmsg = None
  /\ putting = "no"
  /\ getting = "no"
  /\ crashed = FALSE

\* PutData is called with m.
PutCall(m) ==
  /\ ~crashed
  /\ putting = "no"
  /\ putting' = "waiting"
  /\ inmsg' = m
  /\ UNCHANGED <<slot, vec, productStep, blank, data, getVars, crashed>>

\* Faulty variant: sem_wait(&_blank) is missing.
PutWaitUnbounded ==
  /\ ~crashed
  /\ putting = "waiting"
  /\ putting' = "writing"
  /\ UNCHANGED <<slot, vec, productStep, inmsg, blank, data, getVars, crashed>>

\* sem_wait(&_blank) returns; from here on pool[productStep] is written.
PutWait ==
  /\ ~crashed
  /\ putting = "waiting"
  /\ blank > 0
  /\ blank' = blank - 1
  /\ putting' = "writing"
  /\ UNCHANGED <<slot, vec, productStep, inmsg, data, getVars, crashed>>

\* Faulty variant: the step is not advanced.
PutPostSameSlot ==
  /\ ~crashed
  /\ putting = "writing"
  /\ productStep < vec
  /\ slot' = [slot EXCEPT ![productStep] = inmsg]
  /\ data' = data + 1
  /\ putting' = "no"
  /\ UNCHANGED <<vec, productStep, inmsg, blank, getVars, crashed>>

\* The slot is written, the step advanced and sem_post(&_data) done.
PutPost ==
  /\ ~crashed
  /\ putting = "writing"
  /\ productStep < vec
  /\ slot' = [slot EXCEPT ![productStep] = inmsg]
  /\ productStep' = (productStep + 1) % Cap
  /\ data' = data + 1
  /\ putting' = "no"
  /\ UNCHANGED <<vec, inmsg, blank, getVars, crashed>>

\* pool[productStep] is not an element of the vector.
PutOutside ==
  /\ ~crashed
  /\ putting = "writing"
  /\ productStep >= vec
  /\ crashed' = TRUE
  /\ UNCHANGED <<vec, blank, data, putVars, getVars>>

\* sem_wait(&_data) returns; from here on pool[consumStep] is read.
GetWait ==
  /\ ~crashed
  /\ getting = "waiting"
  /\ data > 0
  /\ data' = data - 1
  /\ getting' = "reading"
  /\ UNCHANGED <<vec, consumStep, outmsg, blank, putVars, crashed>>

\* The slot is read, the step advanced and sem_post(&_blank) done.
GetPost ==
  /\ ~crashed
  /\ getting = "reading"
  /\ outmsg' = slot[consumStep]
  /\ consumStep' = (consumStep + 1) % Cap
  /\ blank' = blank + 1
  /\ getting' = "no"
  /\ UNCHANGED <<vec, data, putVars, crashed>>

\* GetData is called.
GetCall ==
  /\ ~crashed
  /\ getting = "no"
  /\ getting' = "waiting"
  /\ UNCHANGED <<vec, consumStep, outmsg, blank, data, putVars, crashed>>
-----------------------------------------------------------------------------
\* One thread that puts anything and one that gets.
PoolNext ==
  \/ \E m \in Message : PutCall(m)
  \/ PutWait
  \/ PutPost
  \/ PutOutside
  \/ GetCall
  \/ GetWait
  \/ GetPost

PoolSpec == PoolInit /\ [][PoolNext]_poolVars
-----------------------------------------------------------------------------
\* The messages in the ring: the ones a get may take, and the one being read.
Filled == data + (IF getting = "reading" THEN 1 ELSE 0)

\* The index of the i-th of them.
Index(i) == IF consumStep + i - 1 < Cap THEN consumStep + i - 1
                                        ELSE consumStep + i - 1 - Cap

PoolTypeOK ==
  /\ vec \in VectorSize
  /\ slot \in [0 .. Cap - 1 -> Message \union {None}]
  /\ productStep \in 0 .. Cap - 1
  /\ consumStep \in 0 .. Cap - 1
  /\ blank \in 0 .. Cap
  /\ data \in 0 .. Cap
  /\ inmsg \in IF putting = "no" THEN Message \union {None} ELSE Message
  /\ outmsg \in Message \union {None}
  /\ putting \in {"no", "waiting", "writing"}
  /\ getting \in {"no", "waiting", "reading"}
  /\ crashed \in BOOLEAN

\* The two semaphores account for every slot: a slot is blank, full, being
\* written or being read; and productStep is as far ahead of consumStep as
\* there are full slots.
SlotsAccounted ==
  /\ blank + Filled + (IF putting = "writing" THEN 1 ELSE 0) = Cap
  /\ productStep = IF consumStep + Filled < Cap THEN consumStep + Filled
                                                ELSE consumStep + Filled - Cap

\* The slot PutData writes is never the slot GetData reads.
NoSlotRace ==
  putting = "writing" /\ getting = "reading" => productStep # consumStep

\* The ring is a bounded queue.
Queue == INSTANCE BoundedQueue WITH
  Capacity <- Cap,
  pending  <- IF putting = "no" THEN None ELSE inmsg,
  queue    <- [i \in 1 .. Filled |-> slot[Index(i)]],
  taken    <- outmsg

\* Messages leave the ring in the order in which they entered it, each once,
\* and no more than _cap of them are in it.
ImplementsBoundedQueue == Queue!Spec
=============================================================================
