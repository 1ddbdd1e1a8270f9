------------------------------ MODULE TaskPool ------------------------------
(***************************************************************************)
(* What a thread pool promises the program that uses it, with no worker,   *)
(* condition variable or counter in sight: tasks are numbered in the order *)
(* in which they are submitted, they are handed out in that order, each of *)
(* them once, at most Width of them are executing at any moment, and once  *)
(* the shutdown call has returned nothing is executing and nothing starts. *)
(* ThreadPool.tla is shown to implement this specification.                *)
(***************************************************************************)
EXTENDS Naturals, FiniteSets

CONSTANTS
  NTasks,     \* how many tasks may be submitted, a natural number
  Width       \* how many tasks may be executing at once, at least 1

VARIABLES
  submitted,  \* tasks 1 .. submitted have been handed to the pool
  started,    \* tasks 1 .. started have been handed to a worker
  executing,  \* the tasks being executed now
  phase       \* "open", then "closing" while shutdown runs, then "closed"

absVars == <<submitted, started, executing, phase>>

Init ==
  /\ submitted = 0
  /\ started = 0
  /\ executing = {}
  /\ phase = "open"

Submit ==
  /\ phase = "open"
  /\ submitted < NTasks
  /\ submitted' = submitted + 1
  /\ UNCHANGED <<started, executing, phase>>

\* The oldest task that nobody has taken yet is taken.
Start ==
  /\ phase # "closed"
  /\ started < submitted
  /\ Cardinality(executing) < Width
  /\ started' = started + 1
  /\ executing' = executing \union {started + 1}
  /\ UNCHANGED <<submitted, phase>>

\* A task ends; its worker may go on with the oldest waiting task only in a
\* later step.
Complete(k) ==
  /\ k \in executing
  /\ executing' = executing \ {k}
  /\ UNCHANGED <<submitted, started, phase>>

Close ==
  /\ phase = "open"
  /\ phase' = "closing"
  /\ UNCHANGED <<submitted, started, executing>>

\* Shutdown returns, possibly at once, and only when no task is executing.
Closed ==
  /\ phase # "closed"
  /\ executing = {}
  /\ phase' = "closed"
  /\ UNCHANGED <<submitted, started, executing>>

Next ==
  \/ Submit
  \/ Start
  \/ \E k \in executing : Complete(k)
  \/ Close
  \/ Closed

Spec == Init /\ [][Next]_absVars
=============================================================================
