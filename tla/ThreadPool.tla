----------------------------- MODULE ThreadPool -----------------------------
(***************************************************************************)
(* Thread_pool/thread_pool.c over Thread_pool/condition.c.                 *)
(*                                                                         *)
(* One program thread, the caller, initialises the pool, adds tasks with   *)
(* threadPool_addtask and may at any moment call threadPool_destroy.       *)
(* Worker threads run thread_routine.  Every access of the pool is made    *)
(* with pool->status.pmutex held, so an action is a critical section: from *)
(* taking the mutex to releasing it, or to the release inside              *)
(* condition_timewait / condition_wait.  (The one access without the       *)
(* mutex, the test of quit at the head of threadPool_destroy, is made by   *)
(* the only thread that writes quit.)  A waiter that is woken, by a        *)
(* signal, by its timeout or for no reason at all, has left the condition  *)
(* variable but still has to take the mutex: that gap is the pc "woken" or *)
(* "expired", and the whole program can run inside it.                     *)
(*                                                                         *)
(* Tasks are numbered in the order of submission; a task_t is its number,  *)
(* and the queue is the linked list the code keeps: first, last, next.     *)
(***************************************************************************)
EXTENDS Naturals, FiniteSets

CONSTANTS
  NTasks,         \* how many tasks the caller may add
  Threads,        \* identities of the workers pthread_create may start
  MaxThread,      \* pool->maxThread, the second argument of threadPool_init
  CreateMayFail   \* may pthread_create fail?

\* Each call of threadPool_addtask starts at most one thread, so NTasks
\* identities never run out.
ASSUME PoolAssumption ==
  /\ NTasks \in Nat
  /\ MaxThread \in Nat \ {0}
  /\ IsFiniteSet(Threads)
  /\ Cardinality(Threads) >= NTasks
  /\ CreateMayFail \in BOOLEAN

NULL == 0
Task == 1 .. NTasks

VARIABLES
  first,      \* pool->first
  last,       \* pool->last
  next,       \* task->next of every task_t
  count,      \* pool->count
  idle,       \* pool->idle
  quit,       \* pool->quit
  submitted,  \* tasks 1 .. submitted have been added
  freed,      \* the tasks whose task_t has been freed
  pc,         \* where each worker is
  task,       \* the local variable task of each worker
  timeout,    \* the local variable timeout of each worker
  caller,     \* where the caller is
  ghosts,     \* threads counted by pool->count that were never created
  unheard     \* history: a signal of threadPool_addtask has found none but
              \* workers whose wait had timed out

vars == <<first, last, next, count, idle, quit, submitted, freed, pc, task,
          timeout, caller, ghosts, unheard>>

listVars   == <<first, last, next>>
clientVars == <<submitted, quit, ghosts, unheard>>

WorkerPC == {"unborn", "top", "waiting", "woken", "expired", "running",
             "exited"}

Live     == {w \in Threads : pc[w] \notin {"unborn", "exited"}}
Waiting  == {w \in Threads : pc[w] = "waiting"}
InWait   == {w \in Threads : pc[w] \in {"waiting", "woken", "expired"}}
Running  == {w \in Threads : pc[w] = "running"}
-----------------------------------------------------------------------------
(* threadPool_init *)
Init ==
  /\ first = NULL /\ last = NULL
  /\ next = [k \in Task |-> NULL]
  /\ count = 0 /\ idle = 0 /\ quit = FALSE
  /\ submitted = 0 /\ freed = {}
  /\ pc = [w \in Threads |-> "unborn"]
  /\ task = [w \in Threads |-> NULL]
  /\ timeout = [w \in Threads |-> FALSE]
  /\ caller = "adding"
  /\ ghosts = 0 /\ unheard = FALSE
-----------------------------------------------------------------------------
(* thread_routine *)

\* Faulty variant of lines 44-60: the last thread leaves without condition_signal.
EndIterationSilent(w, f, late) ==
  /\ pc' = [pc EXCEPT ![w] = IF (quit /\ f = NULL) \/ late THEN "exited"
                                                           ELSE "top"]
  /\ count' = IF (quit /\ f = NULL) \/ late THEN count - 1 ELSE count
  /\ UNCHANGED caller

\* The end of an iteration (lines 44-62) for worker w, which finds the list
\* head f and whose wait timed out iff late: it leaves because the pool is
\* shutting down and drained, or because its wait timed out, or it goes round.
\* Only the first kind of exit signals, and only when it is the last thread;
\* the caller is then the only thread that can be waiting (NobodySleeps).
EndIteration(w, f, late) ==
  \/ /\ quit /\ f = NULL
     /\ pc' = [pc EXCEPT ![w] = "exited"]
     /\ count' = count - 1
     /\ caller' = IF count = 1 /\ caller = "waiting" THEN "woken" ELSE caller
  \/ /\ ~(quit /\ f = NULL)
     /\ late
     /\ pc' = [pc EXCEPT ![w] = "exited"]
     /\ count' = count - 1
     /\ UNCHANGED caller
  \/ /\ ~(quit /\ f = NULL)
     /\ ~late
     /\ pc' = [pc EXCEPT ![w] = "top"]
     /\ UNCHANGED <<count, caller>>

\* From line 33 on, with n threads idle besides w: take the first task and
\* release the mutex to run it, or end the iteration.
Proceed(w, n, late) ==
  /\ idle' = n
  /\ timeout' = [timeout EXCEPT ![w] = late]
  /\ \/ /\ first # NULL
        /\ task' = [task EXCEPT ![w] = first]
        /\ first' = next[first]
        /\ pc' = [pc EXCEPT ![w] = "running"]
        /\ UNCHANGED <<last, next, count, caller>>
     \/ /\ first = NULL
        /\ EndIteration(w, NULL, late)
        /\ UNCHANGED <<listVars, task>>
  /\ UNCHANGED <<clientVars, freed>>

\* Faulty variant: the while of line 17 does not look at pool->quit.
MustWaitIgnoringQuit == first = NULL

MustWait == first = NULL /\ ~quit

\* Lines 11-32 from the head of the loop: count this thread idle, and wait
\* or go on.
Enter(w) ==
  /\ pc[w] = "top"
  /\ \/ /\ MustWait
        /\ idle' = idle + 1
        /\ timeout' = [timeout EXCEPT ![w] = FALSE]
        /\ pc' = [pc EXCEPT ![w] = "waiting"]
        /\ UNCHANGED <<listVars, count, clientVars, freed, task, caller>>
     \/ /\ ~MustWait
        /\ Proceed(w, idle, FALSE)

\* condition_timewait returned 0 and the mutex is held again: the while of
\* line 17 tests its condition once more.
Resume(w) ==
  /\ pc[w] = "woken"
  /\ \/ /\ MustWait
        /\ pc' = [pc EXCEPT ![w] = "waiting"]
        /\ UNCHANGED <<listVars, count, idle, clientVars, freed, task,
                       timeout, caller>>
     \/ /\ ~MustWait
        /\ Proceed(w, idle - 1, FALSE)

\* condition_timewait returned ETIMEDOUT and the mutex is held again: the
\* worker leaves the loop without testing its condition (lines 26-31).
ResumeExpired(w) ==
  /\ pc[w] = "expired"
  /\ Proceed(w, idle - 1, TRUE)

\* Lines 39-41: the task returns, its task_t is freed, the mutex is taken.
Finish(w) ==
  /\ pc[w] = "running"
  /\ freed' = freed \union {task[w]}
  /\ task' = [task EXCEPT ![w] = NULL]
  /\ EndIteration(w, first, timeout[w])
  /\ UNCHANGED <<listVars, idle, clientVars, timeout>>
-----------------------------------------------------------------------------
(* pthread_cond_timedwait, pthread_cond_wait (external) *)

\* The two seconds of a wait pass.
Expire(w) ==
  /\ pc[w] = "waiting"
  /\ pc' = [pc EXCEPT ![w] = "expired"]
  /\ UNCHANGED <<listVars, count, idle, clientVars, freed, task, timeout,
                 caller>>

\* POSIX lets a wait return for no reason.
SpuriousWakeup(w) ==
  /\ pc[w] = "waiting"
  /\ pc' = [pc EXCEPT ![w] = "woken"]
  /\ UNCHANGED <<listVars, count, idle, clientVars, freed, task, timeout,
                 caller>>

SpuriousCallerWakeup ==
  /\ caller = "waiting"
  /\ caller' = "woken"
  /\ UNCHANGED <<listVars, count, idle, clientVars, freed, pc, task, timeout>>

\* condition_signal as threadPool_addtask uses it: one of the waiting workers,
\* if there is any, is woken; otherwise the signal is lost.
Signal ==
  \/ /\ Waiting # {}
     /\ \E w \in Waiting : pc' = [pc EXCEPT ![w] = "woken"]
  \/ /\ Waiting = {}
     /\ UNCHANGED pc
-----------------------------------------------------------------------------
(* threadPool_addtask and threadPool_destroy *)

\* Faulty variant: the new task goes to the head of the list.
LinkAtHead(k) ==
  /\ first' = k
  /\ next' = [next EXCEPT ![k] = first]
  /\ last' = IF first = NULL THEN k ELSE last

\* Lines 83-98: the new task_t is linked at the end of the list.
Link(k) ==
  /\ IF first = NULL
     THEN /\ first' = k
          /\ next' = [next EXCEPT ![k] = NULL]
     ELSE /\ next' = [next EXCEPT ![k] = NULL, ![last] = k]
          /\ UNCHANGED first
  /\ last' = k

\* Lines 106-111.  The result of pthread_create is not looked at.
CreateThread ==
  /\ count' = count + 1
  /\ \/ /\ \E w \in Threads :
             /\ pc[w] = "unborn"
             /\ pc' = [pc EXCEPT ![w] = "top"]
        /\ UNCHANGED ghosts
     \/ /\ CreateMayFail
        /\ ghosts' = ghosts + 1
        /\ UNCHANGED pc

AddTask ==
  /\ caller = "adding"
  /\ submitted < NTasks
  /\ submitted' = submitted + 1
  /\ Link(submitted + 1)
  /\ unheard' = (unheard \/ (idle > 0 /\ \A w \in InWait : pc[w] = "expired"))
  /\ \/ /\ idle > 0
        /\ Signal
        /\ UNCHANGED <<count, ghosts>>
     \/ /\ idle = 0
        /\ count < MaxThread
        /\ CreateThread
     \/ /\ idle = 0
        /\ count >= MaxThread
        /\ UNCHANGED <<count, ghosts, pc>>
  /\ UNCHANGED <<idle, quit, freed, task, timeout, caller>>

\* Faulty variant: condition_signal where line 130 has condition_broadcast.
DestroySignals ==
  /\ caller = "adding"
  /\ ~quit
  /\ quit' = TRUE
  /\ IF count > 0 /\ idle > 0 THEN Signal ELSE UNCHANGED pc
  /\ caller' = IF count > 0 THEN "waiting" ELSE "done"
  /\ UNCHANGED <<listVars, count, idle, submitted, freed, task, timeout,
                 ghosts, unheard>>

\* Lines 118-139 up to the first wait: condition_broadcast wakes every waiting
\* worker when some worker is counted idle.
Destroy ==
  /\ caller = "adding"
  /\ ~quit
  /\ quit' = TRUE
  /\ pc' = IF count > 0 /\ idle > 0
           THEN [w \in Threads |-> IF pc[w] = "waiting" THEN "woken"
                                                        ELSE pc[w]]
           ELSE pc
  /\ caller' = IF count > 0 THEN "waiting" ELSE "done"
  /\ UNCHANGED <<listVars, count, idle, submitted, freed, task, timeout,
                 ghosts, unheard>>

\* condition_wait returned: the while of line 133 tests pool->count again; at
\* zero the mutex and the condition variable are destroyed.
DestroyResume ==
  /\ caller = "woken"
  /\ caller' = IF count > 0 THEN "waiting" ELSE "done"
  /\ UNCHANGED <<listVars, count, idle, clientVars, freed, pc, task, timeout>>

\* The second call, commented out in main, returns at the test of quit.
DestroyAgain ==
  /\ caller = "done"
  /\ quit
  /\ UNCHANGED vars
-----------------------------------------------------------------------------
WorkerStep(w) == Enter(w) \/ Resume(w) \/ ResumeExpired(w) \/ Finish(w)

Next ==
  \/ \E w \in Threads :
       \/ Enter(w)
       \/ Resume(w)
       \/ ResumeExpired(w)
       \/ Finish(w)
       \/ Expire(w)
       \/ SpuriousWakeup(w)
  \/ SpuriousCallerWakeup
  \/ AddTask
  \/ Destroy
  \/ DestroyResume
  \/ DestroyAgain

Spec == Init /\ [][Next]_vars

\* A worker that can run runs, its tasks return (mytask sleeps a second), and
\* a caller that has been woken takes the mutex.  Nothing makes the caller add
\* tasks or call threadPool_destroy, nothing makes a wait time out or wake up
\* for no reason.
FairSpec ==
  /\ Spec
  /\ \A w \in Threads : WF_vars(WorkerStep(w))
  /\ WF_vars(DestroyResume)
-----------------------------------------------------------------------------
\* How many tasks have been handed to a worker: with one caller, the ones in
\* the list are the ones submitted last.
Started == IF first = NULL THEN submitted ELSE first - 1

Executing == {task[w] : w \in Running}
-----------------------------------------------------------------------------
(* Properties *)

TypeOK ==
  /\ first \in 0 .. NTasks
  /\ last \in 0 .. NTasks
  /\ next \in [Task -> 0 .. NTasks]
  /\ count \in Nat /\ idle \in Nat /\ ghosts \in Nat
  /\ quit \in BOOLEAN /\ unheard \in BOOLEAN
  /\ submitted \in 0 .. NTasks
  /\ freed \subseteq Task
  /\ pc \in [Threads -> WorkerPC]
  /\ task \in [Threads -> 0 .. NTasks]
  /\ timeout \in [Threads -> BOOLEAN]
  /\ caller \in {"adding", "waiting", "woken", "done"}

\* The counters that decide whether threadPool_addtask signals or starts a
\* thread and whether threadPool_destroy may return: idle is the number of
\* workers between pool->idle++ and pool->idle-- (the ones that no longer wait
\* included), count the number of threads that have not left plus the ones
\* pthread_create failed to start, and it never passes maxThread.
CountersExact ==
  /\ idle = Cardinality(InWait)
  /\ count = Cardinality(Live) + ghosts
  /\ count <= MaxThread

\* The list threadPool_addtask and the workers share is first, first + 1, ...,
\* submitted, properly ended, and last points at its end whenever first is not
\* NULL, so lines 91-98 lose no task; last is stale when the list is empty.
ListIntact ==
  first # NULL =>
    /\ last = submitted
    /\ first <= submitted
    /\ next[submitted] = NULL
    /\ \A k \in first .. submitted - 1 : next[k] = k + 1

\* A task that a worker executes (lines 36-40) is out of the list, belongs to
\* that worker alone and its task_t has not been freed; a task_t still linked
\* has not been freed either.
TasksOwned ==
  /\ \A v, w \in Running : task[v] = task[w] => v = w
  /\ \A w \in Running : task[w] \in (1 .. Started) \ freed
  /\ freed \subseteq 1 .. Started

\* After threadPool_destroy has set quit no worker sleeps on the condition
\* variable: the broadcast reached all of them and no one goes to sleep again,
\* whatever the counters said when destroy looked at them.
NobodySleeps == quit => Waiting = {}

\* When threadPool_destroy destroys the mutex and the condition variable no
\* worker is left that could still use them.
DestroySafe == caller = "done" => Live = {}

\* The shared state of the pool is consistent whenever the mutex is free, and
\* shutdown leaves nobody behind.
PoolSafe ==
  TypeOK /\ CountersExact /\ ListIntact /\ TasksOwned /\ NobodySleeps /\ DestroySafe

\* A thread pool is a TaskPool.
Abs == INSTANCE TaskPool WITH
  Width     <- MaxThread,
  started   <- Started,
  executing <- Executing,
  phase     <- CASE caller = "adding" -> "open"
                 [] caller = "done" -> "closed"
                 [] OTHER -> "closing"

\* Tasks start in the order of submission, each once, no more than maxThread
\* at a time, none is running when threadPool_destroy returns and none starts
\* afterwards.
ImplementsTaskPool == Abs!Spec

\* While a task is in the list there is a thread that will take it: what
\* lines 100-105 say threadPool_addtask takes care of.
Stranded == first # NULL /\ Live = {}
TaskHasWorker == ~Stranded

\* Only two things leave a task in the list with no thread: a pthread_create
\* that failed (line 109), or a signal (line 102) that found none but workers
\* whose wait had timed out and that run one task each before they leave.
StrandedBy == Stranded => ghosts > 0 \/ unheard

\* threadPool_destroy waits (line 135) for threads that no longer exist only if
\* one was never created, or if the last one left with a timeout (lines 55-60)
\* while there were tasks: every other last thread signals.
HungBy == caller = "waiting" /\ Live = {} => ghosts > 0 \/ first # NULL

\* threadPool_destroy returns only when every thread it counts was created and
\* every task added has been run, unless a signal found nobody.
DrainedOnDestroy ==
  caller = "done" => ghosts = 0 /\ (freed = 1 .. submitted \/ unheard)

\* Tasks are lost and shutdown hangs for these two reasons, and for no other
\* order of timeouts, wakeups, exits and calls.
LossesExplained == StrandedBy /\ HungBy /\ DrainedOnDestroy

\* Every task that was added is run to its end.
EveryTaskRuns == \A k \in Task : submitted >= k ~> k \in freed

\* threadPool_destroy, once called, returns: it waits for the threads that are
\* executing (line 132), and they end.
DestroyReturns == quit ~> caller = "done"

\* As long as there is a thread tasks are run, and as long as there is one
\* threadPool_destroy is on its way: what does not come to an end has ended
\* without any thread, as StrandedBy and HungBy have it.
PoolServes ==
  /\ <>[]Stranded \/ EveryTaskRuns
  /\ <>[](Live = {} /\ caller # "done") \/ DestroyReturns
=============================================================================
