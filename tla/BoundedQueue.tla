---------------------------- MODULE BoundedQueue ----------------------------
(***************************************************************************)
(* What the ring buffer of the UDP chat promises the thread that puts and  *)
(* the thread that gets: a queue of at most Capacity messages, a put waits *)
(* while it is full, and the messages come out in the order in which they  *)
(* were put, each of them once.  MessagePool.tla implements it.            *)
(***************************************************************************)
EXTENDS Naturals, Sequences

CONSTANTS
  Message,    \* the messages
  Capacity,   \* how many messages the queue holds
  None        \* no message

VARIABLES
  pending,    \* the message of the put in progress, or None
  queue,      \* the messages put and not yet taken, oldest first
  taken       \* the message the last get returned, or None

queueVars == <<pending, queue, taken>>

Init ==
  /\ pending = None
  /\ queue = <<>>
  /\ taken = None

Call(m) ==
  /\ pending = None
  /\ pending' = m
  /\ UNCHANGED <<queue, taken>>

Put ==
  /\ pending # None
  /\ Len(queue) < Capacity
  /\ queue' = Append(queue, pending)
  /\ pending' = None
  /\ UNCHANGED taken

Get ==
  /\ queue # <<>>
  /\ taken' = Head(queue)
  /\ queue' = Tail(queue)
  /\ UNCHANGED pending

Next == (\E m \in Message : Call(m)) \/ Put \/ Get

Spec == Init /\ [][Next]_queueVars
=============================================================================
