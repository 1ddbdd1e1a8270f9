-------------------------- MODULE ThreadPoolProofs --------------------------
(***************************************************************************)
(* Proofs about ThreadPool, for any number of tasks, threads and any       *)
(* maxThread.  PoolSafe, which run pool checks, is the inductive           *)
(* invariant: the counters, the list and the ownership of the tasks are    *)
(* each needed to show that the others are preserved.  What may go wrong,  *)
(* and only by what, needs more: Staffed, Awaited and NoneDropped, each    *)
(* inductive on top of PoolSafe with no assumption on timeouts, on         *)
(* pthread_create or on the order in which workers run.                    *)
(***************************************************************************)
EXTENDS ThreadPool, FiniteSetTheorems, TLAPS

-----------------------------------------------------------------------------
(* Counting workers by where they are. *)

InLoop == WorkerPC \ {"unborn", "exited"}
InTimedWait == {"waiting", "woken", "expired"}

One(b) == IF b THEN 1 ELSE 0

\* Two finite sets that differ at most in w differ in size accordingly.
LEMMA DifferInOne ==
  ASSUME NEW S, NEW T, NEW w, IsFiniteSet(S), IsFiniteSet(T),
         S \ {w} = T \ {w}
  PROVE  /\ Cardinality(S) \in Nat
         /\ Cardinality(T) \in Nat
         /\ Cardinality(T) = Cardinality(S) + One(w \in T) - One(w \in S)
<1>1. Cardinality(S) \in Nat /\ Cardinality(T) \in Nat
  BY FS_CardinalityType
<1>2. CASE w \in T /\ w \notin S
  <2>1. T = S \union {w}
    BY <1>2
  <2>2. Cardinality(S \union {w}) = Cardinality(S) + 1
    BY <1>2, FS_AddElement
  <2> QED
    BY <1>1, <1>2, <2>1, <2>2 DEF One
<1>3. CASE w \notin T /\ w \in S
  <2>1. T = S \ {w}
    BY <1>3
  <2>2. Cardinality(S \ {w}) = Cardinality(S) - 1
    BY <1>3, FS_RemoveElement
  <2> QED
    BY <1>1, <1>3, <2>1, <2>2 DEF One
<1>4. CASE w \in T <=> w \in S
  <2>1. T = S
    BY <1>4
  <2> QED
    BY <1>1, <1>4, <2>1 DEF One
<1> QED
  BY <1>1, <1>2, <1>3, <1>4

\* What a move of worker w means for the two sets the counters count.
LEMMA MoveCounted ==
  ASSUME TypeOK, TypeOK', NEW w \in Threads,
         \A u \in Threads \ {w} : pc'[u] = pc[u]
  PROVE  /\ Cardinality(Live) \in Nat
         /\ Cardinality(InWait) \in Nat
         /\ Cardinality(Live') =
              Cardinality(Live) + One(pc'[w] \in InLoop) - One(pc[w] \in InLoop)
         /\ Cardinality(InWait') =
              Cardinality(InWait) + One(pc'[w] \in InTimedWait)
                                  - One(pc[w] \in InTimedWait)
<1>1. /\ IsFiniteSet(Live) /\ IsFiniteSet(InWait)
      /\ IsFiniteSet(Live') /\ IsFiniteSet(InWait')
  BY PoolAssumption, FS_Subset DEF Live, InWait
<1>2. Live \ {w} = Live' \ {w} /\ InWait \ {w} = InWait' \ {w}
  BY DEF Live, InWait, TypeOK
<1>3. /\ w \in Live <=> pc[w] \in InLoop
      /\ w \in InWait <=> pc[w] \in InTimedWait
      /\ w \in Live' <=> pc'[w] \in InLoop
      /\ w \in InWait' <=> pc'[w] \in InTimedWait
  BY DEF Live, InWait, TypeOK, InLoop, InTimedWait, WorkerPC
<1>4. /\ Cardinality(Live') =
           Cardinality(Live) + One(w \in Live') - One(w \in Live)
      /\ Cardinality(Live) \in Nat
  BY <1>1, <1>2, DifferInOne
<1>5. /\ Cardinality(InWait') =
           Cardinality(InWait) + One(w \in InWait') - One(w \in InWait)
      /\ Cardinality(InWait) \in Nat
  BY <1>1, <1>2, DifferInOne
<1> QED
  BY <1>3, <1>4, <1>5 DEF One
-----------------------------------------------------------------------------
(* What a worker can do, without the nesting of thread_routine. *)

\* It goes to sleep, or back to sleep.
Sleep(w) ==
  /\ pc[w] \in {"top", "woken"}
  /\ first = NULL /\ ~quit
  /\ pc' = [pc EXCEPT ![w] = "waiting"]
  /\ idle' = IF pc[w] = "top" THEN idle + 1 ELSE idle
  /\ timeout' \in [Threads -> BOOLEAN]
  /\ UNCHANGED <<listVars, count, clientVars, freed, task, caller>>

\* It takes the first task.
Take(w) ==
  /\ pc[w] \in {"top", "woken", "expired"}
  /\ first # NULL
  /\ pc' = [pc EXCEPT ![w] = "running"]
  /\ task' = [task EXCEPT ![w] = first]
  /\ first' = next[first]
  /\ idle' = IF pc[w] = "top" THEN idle ELSE idle - 1
  /\ timeout' \in [Threads -> BOOLEAN]
  /\ UNCHANGED <<last, next, count, clientVars, freed, caller>>

\* It ends an iteration, and leaves or goes round.
End(w) ==
  /\ \/ /\ pc[w] \in {"top", "woken", "expired"}
        /\ idle' = IF pc[w] = "top" THEN idle ELSE idle - 1
        /\ UNCHANGED <<freed, task>>
     \/ /\ pc[w] = "running"
        /\ freed' = freed \union {task[w]}
        /\ task' = [task EXCEPT ![w] = NULL]
        /\ UNCHANGED idle
  /\ \/ /\ pc' = [pc EXCEPT ![w] = "top"]
        /\ UNCHANGED <<count, caller>>
     \/ /\ pc' = [pc EXCEPT ![w] = "exited"]
        /\ count' = count - 1
        /\ caller' = caller \/ (caller = "waiting" /\ caller' = "woken")
  /\ timeout' \in [Threads -> BOOLEAN]
  /\ UNCHANGED <<listVars, clientVars>>

\* Every critical section of thread_routine is one of the three.
LEMMA WorkerCases ==
  ASSUME TypeOK, NEW w \in Threads, WorkerStep(w)
  PROVE  Sleep(w) \/ Take(w) \/ End(w)
<1> USE DEF TypeOK
<1>1. CASE Enter(w)
  BY <1>1 DEF Enter, Proceed, EndIteration, MustWait, Sleep, Take, End,
              listVars, clientVars
<1>2. CASE Resume(w)
  BY <1>2 DEF Resume, Proceed, EndIteration, MustWait, Sleep, Take, End,
              listVars, clientVars
<1>3. CASE ResumeExpired(w)
  BY <1>3 DEF ResumeExpired, Proceed, EndIteration, Sleep, Take, End,
              listVars, clientVars
<1>4. CASE Finish(w)
  BY <1>4 DEF Finish, EndIteration, End, listVars, clientVars
<1> QED
  BY <1>1, <1>2, <1>3, <1>4 DEF WorkerStep

\* The condition variable stops a wait.
Woken(w) ==
  /\ pc[w] = "waiting"
  /\ pc' = [pc EXCEPT ![w] = "woken"] \/ pc' = [pc EXCEPT ![w] = "expired"]
  /\ UNCHANGED <<listVars, count, idle, clientVars, freed, task, timeout,
                 caller>>

\* Every step of the program, worker by worker.
LEMMA StepCases ==
  ASSUME TypeOK, [Next]_vars
  PROVE  \/ \E w \in Threads : Sleep(w) \/ Take(w) \/ End(w) \/ Woken(w)
         \/ SpuriousCallerWakeup
         \/ AddTask
         \/ Destroy
         \/ DestroyResume
         \/ UNCHANGED vars
<1>1. ASSUME NEW w \in Threads, Expire(w) \/ SpuriousWakeup(w)
      PROVE  Woken(w)
  BY <1>1 DEF Expire, SpuriousWakeup, Woken
<1> QED
  BY <1>1, WorkerCases DEF Next, WorkerStep, DestroyAgain
-----------------------------------------------------------------------------
(* Initial states. *)

\* threadPool_init establishes the invariant.
LEMMA InitIInv == Init => PoolSafe
<1> SUFFICES ASSUME Init PROVE PoolSafe
  OBVIOUS
<1> USE DEF Init, NULL
<1>1. TypeOK
  <2>1. /\ next \in [Task -> 0 .. NTasks]
        /\ task \in [Threads -> 0 .. NTasks]
    BY PoolAssumption
  <2>2. /\ pc \in [Threads -> WorkerPC]
        /\ timeout \in [Threads -> BOOLEAN]
    BY DEF WorkerPC
  <2>3. freed \subseteq Task /\ quit \in BOOLEAN /\ unheard \in BOOLEAN
    OBVIOUS
  <2> QED
    BY <2>1, <2>2, <2>3, PoolAssumption DEF TypeOK
<1>2. Live = {} /\ InWait = {} /\ Waiting = {} /\ Running = {}
  BY DEF Live, InWait, Waiting, Running
<1>3. CountersExact
  BY <1>2, PoolAssumption, FS_EmptySet DEF CountersExact
<1> QED
  BY <1>1, <1>2, <1>3 DEF PoolSafe, ListIntact, TasksOwned, NobodySleeps,
                          DestroySafe
-----------------------------------------------------------------------------
(* Steps: type correctness. *)

\* A worker that waits is counted idle, one that has not left is counted.
LEMMA Counted ==
  ASSUME TypeOK, CountersExact, NEW w \in Threads
  PROVE  /\ pc[w] \in InTimedWait => idle - 1 \in Nat
         /\ pc[w] \in InLoop => count - 1 \in Nat
<1>1. IsFiniteSet(Live) /\ IsFiniteSet(InWait)
  BY PoolAssumption, FS_Subset DEF Live, InWait
<1>2. Cardinality(Live) \in Nat /\ Cardinality(InWait) \in Nat
  BY <1>1, FS_CardinalityType
<1>3. ASSUME pc[w] \in InTimedWait PROVE idle - 1 \in Nat
  <2>1. InWait # {}
    BY <1>3 DEF InWait, InTimedWait
  <2>2. Cardinality(InWait) # 0
    BY <1>1, <2>1, FS_EmptySet
  <2> QED
    BY <1>2, <2>2 DEF CountersExact
<1>4. ASSUME pc[w] \in InLoop PROVE count - 1 \in Nat
  <2>1. Live # {}
    BY <1>4 DEF Live, InLoop
  <2>2. Cardinality(Live) # 0
    BY <1>1, <2>1, FS_EmptySet
  <2> QED
    BY <1>2, <2>2 DEF CountersExact, TypeOK
<1> QED
  BY <1>3, <1>4

\* No step takes a counter below zero or a pointer out of the tasks.
LEMMA TypeStep ==
  ASSUME PoolSafe, [Next]_vars
  PROVE  TypeOK'
<1> USE DEF PoolSafe
<1>1. CASE UNCHANGED vars
  BY <1>1 DEF TypeOK, vars
<1>2. ASSUME NEW w \in Threads, Sleep(w) PROVE TypeOK'
  BY <1>2 DEF TypeOK, Sleep, listVars, clientVars, WorkerPC
<1>3. ASSUME NEW w \in Threads, Take(w) PROVE TypeOK'
  <2>1. first \in Task
    BY <1>3, PoolAssumption DEF Take, TypeOK, Task, NULL
  <2>2. first' \in 0 .. NTasks /\ task' \in [Threads -> 0 .. NTasks]
    BY <1>3, <2>1 DEF Take, TypeOK
  <2>3. pc' \in [Threads -> WorkerPC]
    BY <1>3 DEF Take, TypeOK, WorkerPC
  <2>4. idle' \in Nat
    BY <1>3, Counted DEF Take, TypeOK, InTimedWait
  <2> QED
    BY <1>3, <2>2, <2>3, <2>4 DEF Take, TypeOK, clientVars
<1>4. ASSUME NEW w \in Threads, End(w) PROVE TypeOK'
  <2>1. pc[w] \in InLoop
    BY <1>4 DEF End, InLoop, WorkerPC
  <2>2. pc' \in [Threads -> WorkerPC]
    BY <1>4 DEF End, TypeOK, WorkerPC
  <2>3. idle' \in Nat
    BY <1>4, Counted DEF End, TypeOK, InTimedWait
  <2>4. count' \in Nat
    BY <1>4, <2>1, Counted DEF End, TypeOK
  <2>5. caller' \in {"adding", "waiting", "woken", "done"}
    BY <1>4 DEF End, TypeOK
  <2>6. freed' \subseteq Task /\ task' \in [Threads -> 0 .. NTasks]
    <3>1. CASE pc[w] # "running"
      BY <1>4, <3>1 DEF End, TypeOK
    <3>2. CASE pc[w] = "running"
      <4>1. task[w] \in Task
        BY <3>2 DEF TasksOwned, Running, Task, Started, TypeOK
      <4> QED
        BY <1>4, <3>2, <4>1, PoolAssumption DEF End, TypeOK, NULL
    <3> QED
      BY <3>1, <3>2
  <2> QED
    BY <1>4, <2>2, <2>3, <2>4, <2>5, <2>6
    DEF End, TypeOK, listVars, clientVars
<1>5. ASSUME NEW w \in Threads, Woken(w) PROVE TypeOK'
  BY <1>5 DEF TypeOK, Woken, listVars, clientVars, WorkerPC
<1>6. CASE SpuriousCallerWakeup
  BY <1>6 DEF TypeOK, SpuriousCallerWakeup, listVars, clientVars
<1>7. CASE AddTask
  <2>1. submitted + 1 \in Task
    BY <1>7, PoolAssumption DEF AddTask, TypeOK, Task
  <2>2. first' \in 0 .. NTasks /\ last' \in 0 .. NTasks
    BY <1>7, <2>1, PoolAssumption DEF AddTask, Link, TypeOK, Task
  <2>3. next' \in [Task -> 0 .. NTasks]
    <3> DEFINE n == [next EXCEPT ![submitted + 1] = NULL]
    <3>1. n \in [Task -> 0 .. NTasks]
      <4>1. NULL \in 0 .. NTasks /\ next \in [Task -> 0 .. NTasks]
        BY PoolAssumption DEF TypeOK, NULL
      <4> QED
        BY <4>1
    <3>2. next' = n \/ next' = [n EXCEPT ![last] = submitted + 1]
      BY <1>7 DEF AddTask, Link
    <3> HIDE DEF n
    <3> QED
      BY <2>1, <3>1, <3>2 DEF Task
  <2>4. pc' \in [Threads -> WorkerPC]
    BY <1>7 DEF AddTask, Signal, CreateThread, TypeOK, WorkerPC
  <2>5. count' \in Nat /\ ghosts' \in Nat
    BY <1>7 DEF AddTask, CreateThread, TypeOK
  <2> QED
    BY <1>7, <2>1, <2>2, <2>3, <2>4, <2>5 DEF AddTask, TypeOK, Task
<1>8. CASE Destroy
  <2>1. pc' \in [Threads -> WorkerPC]
    BY <1>8 DEF Destroy, TypeOK, WorkerPC
  <2> QED
    BY <1>8, <2>1 DEF Destroy, TypeOK, listVars
<1>9. CASE DestroyResume
  BY <1>9 DEF TypeOK, DestroyResume, listVars, clientVars
<1> QED
  BY StepCases, <1>1, <1>2, <1>3, <1>4, <1>5, <1>6, <1>7, <1>8, <1>9
-----------------------------------------------------------------------------
(* Steps: the counters. *)

\* Every critical section moves idle and count with the threads they count.
LEMMA CountersStep ==
  ASSUME PoolSafe, [Next]_vars, TypeOK'
  PROVE  CountersExact'
<1> USE DEF PoolSafe
<1> USE DEF InLoop, InTimedWait, WorkerPC
<1>1. ASSUME UNCHANGED <<pc, count, idle, ghosts>> PROVE CountersExact'
  BY <1>1 DEF CountersExact, Live, InWait
<1>2. ASSUME NEW w \in Threads, Sleep(w) PROVE CountersExact'
  <2>1. pc'[w] = "waiting" /\ \A u \in Threads \ {w} : pc'[u] = pc[u]
    BY <1>2 DEF Sleep, TypeOK
  <2>2. /\ Cardinality(Live') = Cardinality(Live)
        /\ Cardinality(InWait) \in Nat
        /\ Cardinality(InWait') = Cardinality(InWait) + One(pc[w] = "top")
    BY <1>2, <2>1, MoveCounted DEF Sleep, One
  <2> QED
    BY <1>2, <2>2 DEF Sleep, CountersExact, clientVars, One
<1>3. ASSUME NEW w \in Threads, Take(w) PROVE CountersExact'
  <2>1. pc'[w] = "running" /\ \A u \in Threads \ {w} : pc'[u] = pc[u]
    BY <1>3 DEF Take, TypeOK
  <2>2. /\ Cardinality(Live') = Cardinality(Live)
        /\ Cardinality(InWait) \in Nat
        /\ Cardinality(InWait') = Cardinality(InWait) - One(pc[w] # "top")
    BY <1>3, <2>1, MoveCounted DEF Take, One
  <2> QED
    BY <1>3, <2>2 DEF Take, CountersExact, clientVars, One
<1>4. ASSUME NEW w \in Threads, End(w) PROVE CountersExact'
  <2>1. \A u \in Threads \ {w} : pc'[u] = pc[u]
    BY <1>4 DEF End, TypeOK
  <2>2. \/ pc'[w] = "top" /\ count' = count
        \/ pc'[w] = "exited" /\ count' = count - 1
    BY <1>4 DEF End, TypeOK
  <2>3. /\ Cardinality(Live) \in Nat
        /\ Cardinality(Live') = Cardinality(Live) - One(pc'[w] = "exited")
        /\ Cardinality(InWait) \in Nat
        /\ Cardinality(InWait') =
             Cardinality(InWait) - One(pc[w] \in InTimedWait)
    BY <1>4, <2>1, <2>2, MoveCounted DEF End, One
  <2> QED
    BY <1>4, <2>2, <2>3, PoolAssumption
    DEF End, CountersExact, clientVars, TypeOK, One
<1>5. ASSUME NEW w \in Threads, Woken(w) PROVE CountersExact'
  <2>1. /\ pc[w] = "waiting" /\ pc'[w] \in {"woken", "expired"}
        /\ \A u \in Threads \ {w} : pc'[u] = pc[u]
    BY <1>5 DEF Woken, TypeOK
  <2>2. /\ Cardinality(Live') = Cardinality(Live)
        /\ Cardinality(InWait') = Cardinality(InWait)
    BY <2>1, MoveCounted DEF One
  <2> QED
    BY <1>5, <2>2 DEF Woken, CountersExact, clientVars
<1>7. CASE AddTask
  <2>1. CASE UNCHANGED <<count, ghosts, pc>>
    BY <1>1, <1>7, <2>1 DEF AddTask
  <2>2. CASE idle > 0 /\ UNCHANGED <<count, ghosts>> /\ Signal
    <3>1. CASE UNCHANGED pc
      BY <1>1, <1>7, <2>2, <3>1 DEF AddTask
    <3>2. ASSUME NEW w \in Waiting, pc' = [pc EXCEPT ![w] = "woken"]
          PROVE  CountersExact'
      <4>1. /\ w \in Threads /\ pc[w] = "waiting" /\ pc'[w] = "woken"
            /\ \A u \in Threads \ {w} : pc'[u] = pc[u]
        BY <3>2 DEF Waiting, TypeOK
      <4>2. /\ Cardinality(Live') = Cardinality(Live)
            /\ Cardinality(InWait') = Cardinality(InWait)
        BY <4>1, MoveCounted DEF One
      <4> QED
        BY <1>7, <2>2, <4>2 DEF CountersExact, AddTask
    <3> QED
      BY <2>2, <3>1, <3>2 DEF Signal
  <2>3. CASE idle = 0 /\ count < MaxThread /\ CreateThread
    <3>1. CASE ghosts' = ghosts + 1 /\ UNCHANGED pc
      <4>1. Live' = Live /\ InWait' = InWait
        BY <3>1 DEF Live, InWait
      <4>2. IsFiniteSet(Live) /\ Cardinality(Live) \in Nat
        BY PoolAssumption, FS_Subset, FS_CardinalityType DEF Live
      <4>3. /\ count' = count + 1 /\ idle' = idle
            /\ count \in Nat /\ ghosts \in Nat
        BY <1>7, <2>3 DEF AddTask, CreateThread, TypeOK
      <4>4. count' <= MaxThread
        BY <2>3, <4>3, PoolAssumption
      <4> QED
        BY <3>1, <4>1, <4>2, <4>3, <4>4 DEF CountersExact
    <3>2. ASSUME NEW w \in Threads, pc[w] = "unborn",
                 pc' = [pc EXCEPT ![w] = "top"], UNCHANGED ghosts
          PROVE  CountersExact'
      <4>1. pc'[w] = "top" /\ \A u \in Threads \ {w} : pc'[u] = pc[u]
        BY <3>2 DEF TypeOK
      <4>2. /\ Cardinality(Live) \in Nat
            /\ Cardinality(Live') = Cardinality(Live) + 1
            /\ Cardinality(InWait') = Cardinality(InWait)
        BY <3>2, <4>1, MoveCounted DEF One
      <4>3. /\ count' = count + 1 /\ idle' = idle
            /\ count \in Nat /\ ghosts \in Nat
        BY <1>7, <2>3 DEF AddTask, CreateThread, TypeOK
      <4>4. count' <= MaxThread
        BY <2>3, <4>3, PoolAssumption
      <4> QED
        BY <3>2, <4>2, <4>3, <4>4 DEF CountersExact
    <3> QED
      BY <2>3, <3>1, <3>2 DEF CreateThread
  <2> QED
    BY <1>7, <2>1, <2>2, <2>3 DEF AddTask
<1>8. CASE Destroy
  <2>1. Live' = Live /\ InWait' = InWait
    BY <1>8 DEF Destroy, Live, InWait, TypeOK
  <2> QED
    BY <1>8, <2>1 DEF Destroy, CountersExact
<1>9. CASE SpuriousCallerWakeup \/ DestroyResume \/ UNCHANGED vars
  BY <1>1, <1>9
  DEF SpuriousCallerWakeup, DestroyResume, vars, clientVars
<1> QED
  BY StepCases, <1>2, <1>3, <1>4, <1>5, <1>7, <1>8, <1>9
-----------------------------------------------------------------------------
(* Steps: the list. *)

\* Taking the head (line 37) and linking at the tail (lines 91-98) keep the list.
LEMMA ListStep ==
  ASSUME PoolSafe, [Next]_vars, TypeOK'
  PROVE  ListIntact'
<1> USE DEF PoolSafe
<1>1. ASSUME UNCHANGED <<first, last, next, submitted>> PROVE ListIntact'
  BY <1>1 DEF ListIntact
<1>2. ASSUME NEW w \in Threads, Sleep(w) \/ End(w) \/ Woken(w)
      PROVE  ListIntact'
  BY <1>1, <1>2 DEF Sleep, End, Woken, listVars, clientVars
<1>3. ASSUME NEW w \in Threads, Take(w) PROVE ListIntact'
  <2>1. first \in Nat /\ submitted \in Nat /\ first <= submitted
    BY <1>3, PoolAssumption DEF Take, ListIntact, TypeOK
  <2>2. UNCHANGED <<last, next, submitted>> /\ first' = next[first]
    BY <1>3 DEF Take, clientVars
  <2>3. first # submitted => first' = first + 1
    BY <1>3, <2>1, <2>2 DEF Take, ListIntact
  <2>4. first = submitted => first' = NULL
    BY <1>3, <2>2 DEF Take, ListIntact
  <2> QED
    BY <1>3, <2>1, <2>2, <2>3, <2>4 DEF Take, ListIntact
<1>4. CASE AddTask
  <2> DEFINE k == submitted + 1
  <2>1. /\ k \in Task /\ submitted \in Nat /\ submitted' = k
        /\ first \in Nat /\ NULL # k
    BY <1>4, PoolAssumption DEF AddTask, TypeOK, Task, NULL
  <2>2. last' = k
    BY <1>4 DEF AddTask, Link
  <2>3. CASE first = NULL
    <3>1. first' = k /\ next' = [next EXCEPT ![k] = NULL]
      BY <1>4, <2>3 DEF AddTask, Link
    <3>2. next'[k] = NULL
      BY <2>1, <3>1 DEF TypeOK
    <3> QED
      BY <2>1, <2>2, <3>1, <3>2 DEF ListIntact
  <2>4. CASE first # NULL
    <3>1. first' = first /\ next' = [next EXCEPT ![k] = NULL, ![last] = k]
      BY <1>4, <2>4 DEF AddTask, Link
    <3>2. /\ last = submitted /\ first <= submitted /\ submitted \in Task
          /\ \A j \in first .. submitted - 1 : next[j] = j + 1
      BY <2>1, <2>4, PoolAssumption DEF ListIntact, TypeOK, Task, NULL
    <3>3. next'[k] = NULL /\ next'[submitted] = k
      BY <2>1, <3>1, <3>2 DEF TypeOK
    <3>4. ASSUME NEW j \in first .. submitted - 1
          PROVE  next'[j] = j + 1
      <4>1. j \in Task /\ j # k /\ j # last
        BY <2>1, <2>4, <3>2, PoolAssumption DEF TypeOK, Task, NULL
      <4>2. next'[j] = next[j]
        BY <2>1, <3>1, <4>1 DEF TypeOK
      <4> QED
        BY <3>2, <4>2
    <3>5. \A j \in first' .. submitted' - 1 : next'[j] = j + 1
      <4>1. submitted' - 1 = submitted
        BY <2>1
      <4>2. \A j \in first .. submitted : j = submitted \/ j \in first .. submitted - 1
        BY <2>1
      <4> QED
        BY <2>1, <3>1, <3>3, <3>4, <4>1, <4>2
    <3>6. first' <= submitted' /\ next'[submitted'] = NULL
      BY <2>1, <3>1, <3>2, <3>3
    <3> QED
      BY <2>1, <2>2, <3>5, <3>6 DEF ListIntact
  <2> QED
    BY <2>3, <2>4
<1>5. CASE Destroy \/ SpuriousCallerWakeup \/ DestroyResume \/ UNCHANGED vars
  BY <1>1, <1>5 DEF Destroy, SpuriousCallerWakeup, DestroyResume, vars,
                    listVars, clientVars
<1> QED
  BY StepCases, <1>2, <1>3, <1>4, <1>5
-----------------------------------------------------------------------------
(* Steps: who owns a task. *)

\* The head of the list is a task nobody has had before.
LEMMA OwnedStep ==
  ASSUME PoolSafe, [Next]_vars, TypeOK'
  PROVE  TasksOwned'
<1> USE DEF PoolSafe
<1>1. ASSUME UNCHANGED <<first, submitted, freed, task>>, Running' = Running
      PROVE  TasksOwned'
  BY <1>1 DEF TasksOwned, Started
<1>2. ASSUME NEW w \in Threads, Sleep(w) \/ Woken(w) PROVE TasksOwned'
  <2>1. Running' = Running
    BY <1>2 DEF Sleep, Woken, Running, TypeOK
  <2> QED
    BY <1>1, <1>2, <2>1 DEF Sleep, Woken, listVars, clientVars
<1>3. ASSUME NEW w \in Threads, Take(w) PROVE TasksOwned'
  <2>1. first \in Nat /\ submitted \in Nat /\ 1 <= first /\ first <= submitted
    BY <1>3, PoolAssumption DEF Take, ListIntact, TypeOK, NULL
  <2>2. UNCHANGED <<next, submitted, freed>> /\ first' = next[first]
    BY <1>3 DEF Take, clientVars
  <2>3. Started = first - 1 /\ Started' = first
    <3>1. first # submitted => first' = first + 1
      BY <1>3, <2>1, <2>2 DEF Take, ListIntact
    <3>2. first = submitted => first' = NULL
      BY <1>3, <2>2 DEF Take, ListIntact
    <3> QED
      BY <1>3, <2>1, <2>2, <3>1, <3>2 DEF Take, Started, NULL
  <2>4. Running' = Running \union {w} /\ w \notin Running
    BY <1>3 DEF Take, Running, TypeOK
  <2>5. task'[w] = first /\ \A u \in Running : task'[u] = task[u]
    BY <1>3, <2>4 DEF Take, Running, TypeOK
  <2>6. freed \subseteq 1 .. first - 1
        /\ \A u \in Running : task[u] \in (1 .. first - 1) \ freed
    BY <2>3 DEF TasksOwned
  <2>7. \A u \in Running' : task'[u] \in (1 .. first) \ freed
    BY <2>1, <2>4, <2>5, <2>6
  <2>8. \A u, v \in Running' : task'[u] = task'[v] => u = v
    BY <2>1, <2>4, <2>5, <2>6 DEF TasksOwned
  <2> QED
    BY <2>1, <2>2, <2>3, <2>6, <2>7, <2>8 DEF TasksOwned
<1>4. ASSUME NEW w \in Threads, End(w) PROVE TasksOwned'
  <2>1. Started' = Started
    BY <1>4 DEF End, Started, listVars, clientVars
  <2>2. CASE pc[w] # "running"
    <3>1. Running' = Running
      BY <1>4, <2>2 DEF End, Running, TypeOK
    <3> QED
      BY <1>1, <1>4, <2>2, <3>1 DEF End, listVars, clientVars
  <2>3. CASE pc[w] = "running"
    <3>1. Running' = Running \ {w} /\ w \in Running
      BY <1>4, <2>3 DEF End, Running, TypeOK
    <3>2. \A u \in Running' : task'[u] = task[u]
      BY <1>4, <2>3, <3>1 DEF End, Running, TypeOK
    <3>3. freed' = freed \union {task[w]}
      BY <1>4, <2>3 DEF End
    <3> QED
      BY <2>1, <3>1, <3>2, <3>3 DEF TasksOwned
  <2> QED
    BY <2>2, <2>3
<1>5. CASE AddTask
  <2>1. Started' = Started
    <3>1. submitted' = submitted + 1 /\ submitted \in Nat
      BY <1>5, PoolAssumption DEF AddTask, TypeOK
    <3>2. first' = IF first = NULL THEN submitted + 1 ELSE first
      BY <1>5 DEF AddTask, Link
    <3> QED
      BY <3>1, <3>2 DEF Started, NULL
  <2>2. Running' = Running
    BY <1>5 DEF AddTask, Signal, CreateThread, Waiting, Running, TypeOK
  <2> QED
    BY <1>5, <2>1, <2>2 DEF AddTask, TasksOwned
<1>6. CASE Destroy
  <2>1. Running' = Running
    BY <1>6 DEF Destroy, Running, TypeOK
  <2> QED
    BY <1>1, <1>6, <2>1 DEF Destroy, listVars
<1>7. CASE SpuriousCallerWakeup \/ DestroyResume \/ UNCHANGED vars
  BY <1>1, <1>7 DEF SpuriousCallerWakeup, DestroyResume, vars, listVars,
                    clientVars, Running
<1> QED
  BY StepCases, <1>2, <1>3, <1>4, <1>5, <1>6, <1>7
-----------------------------------------------------------------------------
(* Steps: the shutdown protocol. *)

\* The counters are what makes the tests of threadPool_destroy sound: at
\* idle = 0 nobody waits, at count = 0 nobody is left.
LEMMA EmptyCounts ==
  ASSUME TypeOK, CountersExact
  PROVE  /\ idle = 0 => Waiting = {}
         /\ count = 0 => Live = {} /\ Waiting = {}
<1>1. IsFiniteSet(Live) /\ IsFiniteSet(InWait)
  BY PoolAssumption, FS_Subset DEF Live, InWait
<1>2. Cardinality(Live) \in Nat /\ ghosts \in Nat
  BY <1>1, FS_CardinalityType DEF TypeOK
<1>3. idle = 0 => InWait = {}
  BY <1>1, FS_EmptySet DEF CountersExact
<1>4. count = 0 => Live = {}
  <2>1. count = 0 => Cardinality(Live) = 0
    BY <1>2 DEF CountersExact
  <2> QED
    BY <1>1, <2>1, FS_EmptySet
<1>5. Waiting \subseteq InWait /\ Waiting \subseteq Live
  BY DEF Waiting, InWait, Live
<1> QED
  BY <1>3, <1>4, <1>5

\* The broadcast of threadPool_destroy reaches every sleeper there is.
LEMMA SleepsStep ==
  ASSUME PoolSafe, [Next]_vars
  PROVE  NobodySleeps'
<1> USE DEF PoolSafe
<1>1. ASSUME Waiting' \subseteq Waiting, quit' = quit PROVE NobodySleeps'
  BY <1>1 DEF NobodySleeps
<1>2. ASSUME NEW w \in Threads, Sleep(w) PROVE NobodySleeps'
  BY <1>2 DEF Sleep, NobodySleeps, clientVars
<1>3. ASSUME NEW w \in Threads, Take(w) \/ End(w) \/ Woken(w)
      PROVE  NobodySleeps'
  <2>1. Waiting' \subseteq Waiting
    BY <1>3 DEF Take, End, Woken, Waiting, TypeOK
  <2> QED
    BY <1>1, <1>3, <2>1 DEF Take, End, Woken, clientVars
<1>4. CASE AddTask
  <2>1. Waiting' \subseteq Waiting
    BY <1>4 DEF AddTask, Signal, CreateThread, Waiting, TypeOK
  <2> QED
    BY <1>1, <1>4, <2>1 DEF AddTask
<1>5. CASE Destroy
  <2>1. CASE count > 0 /\ idle > 0
    <3>1. Waiting' = {}
      BY <1>5, <2>1 DEF Destroy, Waiting
    <3> QED
      BY <3>1 DEF NobodySleeps
  <2>2. CASE ~(count > 0 /\ idle > 0)
    <3>1. Waiting = {}
      BY <2>2, EmptyCounts DEF TypeOK
    <3>2. Waiting' = Waiting
      BY <1>5, <2>2 DEF Destroy, Waiting
    <3> QED
      BY <3>1, <3>2 DEF NobodySleeps
  <2> QED
    BY <2>1, <2>2
<1>6. CASE SpuriousCallerWakeup \/ DestroyResume \/ UNCHANGED vars
  BY <1>1, <1>6
  DEF SpuriousCallerWakeup, DestroyResume, vars, clientVars, Waiting
<1> QED
  BY StepCases, <1>2, <1>3, <1>4, <1>5, <1>6

\* threadPool_destroy is done only at count = 0, and no thread comes later.
LEMMA SafeStep ==
  ASSUME PoolSafe, [Next]_vars
  PROVE  DestroySafe'
<1> USE DEF PoolSafe
<1>1. ASSUME Live' \subseteq Live, caller' = "done" => caller = "done"
      PROVE  DestroySafe'
  BY <1>1 DEF DestroySafe
<1>2. ASSUME NEW w \in Threads, Sleep(w) \/ Take(w) \/ End(w) \/ Woken(w)
      PROVE  DestroySafe'
  <2>1. Live' \subseteq Live
    BY <1>2 DEF Sleep, Take, End, Woken, Live, TypeOK
  <2> QED
    BY <1>1, <1>2, <2>1 DEF Sleep, Take, End, Woken
<1>3. CASE AddTask
  BY <1>3 DEF AddTask, DestroySafe
<1>4. CASE Destroy
  <2>1. Live' = Live
    BY <1>4 DEF Destroy, Live, TypeOK
  <2>2. caller' = "done" => Live = {}
    BY <1>4, EmptyCounts DEF Destroy, TypeOK
  <2> QED
    BY <2>1, <2>2 DEF DestroySafe
<1>5. CASE DestroyResume
  <2>1. Live' = Live
    BY <1>5 DEF DestroyResume, Live
  <2>2. caller' = "done" => Live = {}
    BY <1>5, EmptyCounts DEF DestroyResume, TypeOK
  <2> QED
    BY <2>1, <2>2 DEF DestroySafe
<1>6. CASE SpuriousCallerWakeup \/ UNCHANGED vars
  BY <1>1, <1>6 DEF SpuriousCallerWakeup, vars, Live
<1> QED
  BY StepCases, <1>2, <1>3, <1>4, <1>5, <1>6
-----------------------------------------------------------------------------
(* The theorems. *)

\* PoolSafe holds in every reachable state of the thread pool: whatever the
\* threads do between the critical sections of thread_routine,
\* threadPool_addtask and threadPool_destroy.
THEOREM Invariance == Spec => []PoolSafe
<1>1. PoolSafe /\ [Next]_vars => PoolSafe'
  BY TypeStep, CountersStep, ListStep, OwnedStep, SleepsStep, SafeStep
  DEF PoolSafe
<1> QED
  BY InitIInv, <1>1, PTL DEF Spec

\* Every variable of the pool keeps its type, pool->count and pool->idle never
\* go below zero in particular.
THEOREM TypeCorrect == Spec => []TypeOK
<1>1. PoolSafe => TypeOK
  BY DEF PoolSafe
<1> QED
  BY Invariance, <1>1, PTL

\* pool->idle and pool->count are exact and count never passes maxThread, with
\* any number of threads joining and leaving on timeout.
THEOREM CountersAreExact == Spec => []CountersExact
<1>1. PoolSafe => CountersExact
  BY DEF PoolSafe
<1> QED
  BY Invariance, <1>1, PTL

\* threadPool_addtask and the workers keep the list well formed.
THEOREM ListIsIntact == Spec => []ListIntact
<1>1. PoolSafe => ListIntact
  BY DEF PoolSafe
<1> QED
  BY Invariance, <1>1, PTL

\* A task_t is executed by one worker and freed only after that.
THEOREM TasksAreOwned == Spec => []TasksOwned
<1>1. PoolSafe => TasksOwned
  BY DEF PoolSafe
<1> QED
  BY Invariance, <1>1, PTL

\* After threadPool_destroy has set quit nobody sleeps, and when it destroys
\* the mutex and the condition variable nobody is left to use them.
THEOREM ShutdownIsSafe == Spec => [](NobodySleeps /\ DestroySafe)
<1>1. PoolSafe => NobodySleeps /\ DestroySafe
  BY DEF PoolSafe
<1> QED
  BY Invariance, <1>1, PTL
-----------------------------------------------------------------------------
(* Refinement. *)

AbsPhase == CASE caller = "adding" -> "open"
              [] caller = "done" -> "closed"
              [] OTHER -> "closing"

\* While some worker is between tasks, fewer than maxThread tasks execute.
LEMMA RoomToStart ==
  ASSUME PoolSafe, NEW w \in Live, w \notin Running
  PROVE  Cardinality(Executing) < MaxThread
<1> USE DEF PoolSafe
<1>1. IsFiniteSet(Live) /\ IsFiniteSet(Running)
  BY PoolAssumption, FS_Subset DEF Live, Running
<1>2. Running \subseteq Live /\ Running # Live
  BY DEF Running, Live
<1>3. Cardinality(Running) < Cardinality(Live)
  <2>1. /\ Cardinality(Running) <= Cardinality(Live)
        /\ Cardinality(Live) # Cardinality(Running)
    BY <1>1, <1>2, FS_Subset
  <2> QED
    BY <1>1, <2>1, FS_CardinalityType
<1>4. Cardinality(Executing) <= Cardinality(Running)
  <2> DEFINE f == [u \in Running |-> task[u]]
  <2>1. f \in Surjection(Running, Executing)
    BY DEF Surjection, Executing
  <2> QED
    BY <1>1, <2>1, FS_Surjection
<1>5. IsFiniteSet(Executing)
  <2> DEFINE f == [u \in Running |-> task[u]]
  <2>1. f \in Surjection(Running, Executing)
    BY DEF Surjection, Executing
  <2> QED
    BY <1>1, <2>1, FS_Surjection
<1>6. Cardinality(Live) <= MaxThread
  BY <1>1, FS_CardinalityType, PoolAssumption DEF CountersExact, TypeOK
<1> QED
  BY <1>1, <1>3, <1>4, <1>5, <1>6, FS_CardinalityType, PoolAssumption

\* Every step is a step of TaskPool or leaves its variables unchanged.
LEMMA AbsStep ==
  ASSUME PoolSafe, PoolSafe', [Next]_vars
  PROVE  [Abs!Next]_(Abs!absVars)
<1> USE DEF PoolSafe
<1> USE DEF Abs!absVars, Abs!Next
<1>1. ASSUME UNCHANGED <<submitted, caller>>, Started' = Started,
             Executing' = Executing
      PROVE  UNCHANGED Abs!absVars
  BY <1>1
<1>2. ASSUME NEW w \in Threads, Sleep(w) \/ Woken(w)
      PROVE  UNCHANGED Abs!absVars
  <2>1. Running' = Running
    BY <1>2 DEF Sleep, Woken, Running, TypeOK
  <2>2. Executing' = Executing
    BY <1>2, <2>1 DEF Sleep, Woken, Executing
  <2>3. UNCHANGED <<first, submitted, caller>>
    BY <1>2 DEF Sleep, Woken, listVars, clientVars
  <2> QED
    BY <1>1, <2>2, <2>3 DEF Started
<1>3. ASSUME NEW w \in Threads, Take(w) PROVE Abs!Start
  <2>1. /\ first \in Nat /\ submitted \in Nat
        /\ 1 <= first /\ first <= submitted
    BY <1>3, PoolAssumption DEF Take, ListIntact, TypeOK, NULL
  <2>2. UNCHANGED <<next, submitted, caller>> /\ first' = next[first]
    BY <1>3 DEF Take, clientVars
  <2>3. Started = first - 1 /\ Started' = Started + 1 /\ Started < submitted
    <3>1. first # submitted => first' = first + 1
      BY <1>3, <2>1, <2>2 DEF Take, ListIntact
    <3>2. first = submitted => first' = NULL
      BY <1>3, <2>2 DEF Take, ListIntact
    <3> QED
      BY <1>3, <2>1, <2>2, <3>1, <3>2 DEF Take, Started, NULL
  <2>4. Running' = Running \union {w} /\ w \notin Running
    BY <1>3 DEF Take, Running, TypeOK
  <2>5. task'[w] = first /\ \A u \in Running : task'[u] = task[u]
    BY <1>3, <2>4 DEF Take, Running, TypeOK
  <2>6. Executing' = Executing \union {Started + 1}
    BY <2>1, <2>3, <2>4, <2>5 DEF Executing
  <2>7. w \in Live
    BY <1>3 DEF Take, Live
  <2>8. Cardinality(Executing) < MaxThread
    BY <2>4, <2>7, RoomToStart
  <2>9. AbsPhase # "closed" /\ UNCHANGED AbsPhase
    BY <2>2, <2>7 DEF DestroySafe, AbsPhase
  <2> QED
    BY <2>2, <2>3, <2>6, <2>8, <2>9
    DEF Abs!Start, AbsPhase, Cardinality, Abs!Cardinality
<1>4. ASSUME NEW w \in Threads, End(w)
      PROVE  [Abs!Next]_(Abs!absVars)
  <2>1. Started' = Started /\ submitted' = submitted
    BY <1>4 DEF End, Started, listVars, clientVars
  <2>2. UNCHANGED AbsPhase
    BY <1>4 DEF End, AbsPhase
  <2>3. CASE pc[w] # "running"
    <3>1. Running' = Running /\ task' = task
      BY <1>4, <2>3 DEF End, Running, TypeOK
    <3>2. Executing' = Executing
      BY <3>1 DEF Executing
    <3> QED
      BY <2>1, <2>2, <3>2 DEF AbsPhase
  <2>4. CASE pc[w] = "running"
    <3>1. Running' = Running \ {w} /\ w \in Running
      BY <1>4, <2>4 DEF End, Running, TypeOK
    <3>2. \A u \in Running' : task'[u] = task[u]
      BY <1>4, <2>4, <3>1 DEF End, Running, TypeOK
    <3>3. Executing' = Executing \ {task[w]} /\ task[w] \in Executing
      BY <3>1, <3>2 DEF Executing, TasksOwned
    <3>4. Abs!Complete(task[w])
      BY <2>1, <2>2, <3>3 DEF Abs!Complete, AbsPhase
    <3> QED
      BY <3>3, <3>4
  <2> QED
    BY <2>3, <2>4
<1>5. CASE AddTask
  <2>1. Started' = Started
    <3>1. submitted' = submitted + 1 /\ submitted \in Nat
      BY <1>5, PoolAssumption DEF AddTask, TypeOK
    <3>2. first' = IF first = NULL THEN submitted + 1 ELSE first
      BY <1>5 DEF AddTask, Link
    <3> QED
      BY <3>1, <3>2 DEF Started, NULL
  <2>2. Running' = Running
    BY <1>5 DEF AddTask, Signal, CreateThread, Waiting, Running, TypeOK
  <2>3. Executing' = Executing
    BY <1>5, <2>2 DEF AddTask, Executing
  <2>4. Abs!Submit
    BY <1>5, <2>1, <2>3 DEF AddTask, Abs!Submit
  <2> QED
    BY <2>4
<1>6. CASE Destroy
  <2>1. Running' = Running
    BY <1>6 DEF Destroy, Running, TypeOK
  <2>2. Started' = Started /\ Executing' = Executing /\ submitted' = submitted
    BY <1>6, <2>1 DEF Destroy, Executing, Started, listVars
  <2>3. CASE count > 0
    <3>1. Abs!Close
      BY <1>6, <2>2, <2>3 DEF Destroy, Abs!Close
    <3> QED
      BY <3>1
  <2>4. CASE ~(count > 0)
    <3>1. Running = {}
      BY <2>4, EmptyCounts DEF TypeOK, Running, Live
    <3>2. Abs!Closed
      BY <1>6, <2>2, <2>4, <3>1 DEF Destroy, Abs!Closed, Executing
    <3> QED
      BY <3>2
  <2> QED
    BY <2>3, <2>4
<1>7. CASE DestroyResume
  <2>1. Running' = Running /\ Started' = Started /\ submitted' = submitted
        /\ Executing' = Executing
    BY <1>7 DEF DestroyResume, Running, Started, Executing, listVars,
                clientVars
  <2>2. CASE count > 0
    BY <1>7, <2>1, <2>2 DEF DestroyResume
  <2>3. CASE ~(count > 0)
    <3>1. Running = {}
      BY <2>3, EmptyCounts DEF TypeOK, Running, Live
    <3>2. Abs!Closed
      BY <1>7, <2>1, <2>3, <3>1 DEF DestroyResume, Abs!Closed, Executing
    <3> QED
      BY <3>2
  <2> QED
    BY <2>2, <2>3
<1>8. CASE SpuriousCallerWakeup \/ UNCHANGED vars
  BY <1>8 DEF SpuriousCallerWakeup, vars, listVars, clientVars, Started,
              Executing, Running
<1>9. CASE \E w \in Threads : Sleep(w) \/ Take(w) \/ End(w) \/ Woken(w)
  BY <1>2, <1>3, <1>4, <1>9
<1> QED
  BY StepCases, <1>5, <1>6, <1>7, <1>8, <1>9

\* The thread pool implements TaskPool: tasks are started in the order of
\* submission, each once, at most maxThread at a time, none is executing when
\* threadPool_destroy returns and none starts after it has.
THEOREM Refinement == Spec => ImplementsTaskPool
<1>1. Init => Abs!Init
  <2> SUFFICES ASSUME Init PROVE Abs!Init
    OBVIOUS
  <2>1. Running = {}
    BY DEF Init, Running
  <2> QED
    BY <2>1 DEF Init, Abs!Init, Started, Executing, NULL
<1>2. PoolSafe /\ PoolSafe' /\ [Next]_vars => [Abs!Next]_(Abs!absVars)
  BY AbsStep
<1> QED
  BY <1>1, <1>2, Invariance, PTL DEF Spec, ImplementsTaskPool, Abs!Spec
-----------------------------------------------------------------------------
(* What becomes of tasks and of threadPool_destroy when threads are late or *)
(* missing.                                                                *)

\* A worker that will look at the list again, and one that is not about to
\* leave without having done so.
Ready(w) == pc[w] \in {"top", "woken"} \/ (pc[w] = "running" /\ timeout[w] = FALSE)
Staying(w) == Ready(w) \/ pc[w] \in {"waiting", "expired"}

\* Nothing has gone wrong that leaves a task behind.
Sound == ghosts = 0 /\ ~unheard

Staffed ==
  Sound => /\ first # NULL => \E w \in Threads : Ready(w)
           /\ count < MaxThread \/ \E w \in Threads : Staying(w)

\* What becomes of worker w at the end of a critical section.
Outcome(w) ==
  \/ /\ first = NULL /\ first' = first /\ pc'[w] = "waiting" /\ count' = count
  \/ /\ pc[w] # "expired"
     /\ pc'[w] = "running" /\ timeout'[w] = FALSE /\ count' = count
  \/ /\ pc[w] = "expired" /\ first # NULL /\ pc'[w] = "running" /\ count' = count
  \/ /\ first = NULL \/ ~Ready(w)
     /\ first' = first /\ pc'[w] = "exited" /\ count' = count - 1
  \/ /\ first' = first /\ pc'[w] = "top" /\ count' = count

LEMMA WorkerOutcome ==
  ASSUME TypeOK, NEW w \in Threads, WorkerStep(w)
  PROVE  /\ Outcome(w) /\ Sound' = Sound
         /\ \A u \in Threads \ {w} : pc'[u] = pc[u] /\ timeout'[u] = timeout[u]
<1>1. Sound' = Sound
  <2>1. ghosts' = ghosts /\ unheard' = unheard
    BY DEF WorkerStep, Enter, Resume, ResumeExpired, Finish, Proceed, clientVars
  <2> QED
    BY <2>1 DEF Sound
<1>2. \A u \in Threads \ {w} : pc'[u] = pc[u] /\ timeout'[u] = timeout[u]
  BY DEF WorkerStep, Enter, Resume, ResumeExpired, Finish, Proceed, EndIteration, TypeOK
<1>3. ASSUME NEW n, NEW late \in BOOLEAN, Proceed(w, n, late),
             pc[w] \in {"top", "woken"} => late = FALSE, pc[w] # "running"
      PROVE  Outcome(w)
  <2>1. CASE first # NULL
    <3>1. timeout'[w] = late /\ pc'[w] = "running" /\ count' = count
      BY <1>3, <2>1 DEF Proceed, TypeOK
    <3>2. pc[w] \in {"top", "woken", "expired"}
      BY <1>3 DEF WorkerStep, Enter, Resume, ResumeExpired, Finish
    <3> QED
      BY <1>3, <2>1, <3>1, <3>2 DEF Outcome
  <2>2. CASE first = NULL
    <3>1. EndIteration(w, NULL, late) /\ first' = first
      BY <1>3, <2>2 DEF Proceed, listVars
    <3>2. \/ pc'[w] = "exited" /\ count' = count - 1
          \/ pc'[w] = "top" /\ count' = count
      BY <3>1 DEF EndIteration, TypeOK
    <3> QED
      BY <2>2, <3>1, <3>2 DEF Outcome
  <2> QED
    BY <2>1, <2>2
<1>4. ASSUME (Enter(w) \/ Resume(w)) /\ MustWait PROVE Outcome(w)
  <2>1. first = NULL /\ first' = first /\ count' = count /\ pc'[w] = "waiting"
    BY <1>4 DEF Enter, Resume, MustWait, TypeOK, listVars
  <2> QED
    BY <2>1 DEF Outcome
<1>5. ASSUME (Enter(w) \/ Resume(w)) /\ ~MustWait PROVE Outcome(w)
  <2>1. PICK n : Proceed(w, n, FALSE)
    BY <1>5 DEF Enter, Resume
  <2>2. pc[w] # "running"
    BY <1>5 DEF Enter, Resume
  <2> QED
    BY <1>3, <2>1, <2>2
<1>6. ASSUME ResumeExpired(w) PROVE Outcome(w)
  <2>1. PICK n : Proceed(w, n, TRUE)
    BY <1>6 DEF ResumeExpired
  <2>2. pc[w] = "expired"
    BY <1>6 DEF ResumeExpired
  <2> QED
    BY <1>3, <2>1, <2>2
<1>7. ASSUME Finish(w) PROVE Outcome(w)
  <2>1. /\ pc[w] = "running" /\ first' = first /\ EndIteration(w, first, timeout[w])
        /\ timeout[w] \in BOOLEAN
    BY <1>7 DEF Finish, listVars, TypeOK
  <2>2. CASE quit /\ first = NULL
    BY <2>1, <2>2 DEF EndIteration, Outcome, TypeOK
  <2>3. CASE ~(quit /\ first = NULL) /\ timeout[w] = TRUE
    <3>1. ~Ready(w)
      BY <2>1, <2>3 DEF Ready
    <3>2. pc'[w] = "exited" /\ count' = count - 1
      BY <2>1, <2>3 DEF EndIteration, TypeOK
    <3> QED
      BY <2>1, <3>1, <3>2 DEF Outcome
  <2>4. CASE ~(quit /\ first = NULL) /\ timeout[w] = FALSE
    <3>1. pc'[w] = "top" /\ count' = count
      BY <2>1, <2>4 DEF EndIteration, TypeOK
    <3> QED
      BY <2>1, <3>1 DEF Outcome
  <2> QED
    BY <2>1, <2>2, <2>3, <2>4
<1> QED
  BY <1>1, <1>2, <1>4, <1>5, <1>6, <1>7 DEF WorkerStep

\* A worker that nothing is done to is as ready as it was.
LEMMA StaysReady ==
  ASSUME NEW u \in Threads, pc'[u] = pc[u], timeout'[u] = timeout[u]
  PROVE  (Ready(u) => Ready(u)') /\ (Staying(u) => Staying(u)')
BY DEF Ready, Staying

LEMMA StaffedWorker ==
  ASSUME TypeOK, CountersExact, Staffed, NEW w \in Threads, WorkerStep(w)
  PROVE  Staffed'
<1> SUFFICES ASSUME Sound
             PROVE  /\ first' # NULL => \E u \in Threads : Ready(u)'
                    /\ count' < MaxThread \/ \E u \in Threads : Staying(u)'
  BY WorkerOutcome DEF Staffed
<1>1. count \in Nat /\ count <= MaxThread /\ MaxThread \in Nat
  BY PoolAssumption DEF TypeOK, CountersExact
<1>2. \A u \in Threads \ {w} : (Ready(u) => Ready(u)') /\ (Staying(u) => Staying(u)')
  BY WorkerOutcome, StaysReady
<1>3. first' # NULL => \E u \in Threads : Ready(u)'
  BY <1>2, WorkerOutcome DEF Staffed, Outcome, Ready
<1>4. count' < MaxThread \/ \E u \in Threads : Staying(u)'
  <2>1. CASE pc'[w] = "exited"
    <3>1. count' = count - 1
      BY <2>1, WorkerOutcome DEF Outcome
    <3>2. count - 1 < MaxThread
      BY <1>1
    <3> QED
      BY <3>1, <3>2
  <2>2. CASE pc'[w] \in {"waiting", "top"} \/ (pc'[w] = "running" /\ timeout'[w] = FALSE)
    BY <2>2 DEF Staying, Ready
  <2>3. CASE pc[w] = "expired" /\ first # NULL
    <3>1. PICK u \in Threads : Ready(u)
      BY <2>3 DEF Staffed
    <3>2. u # w
      BY <2>3, <3>1 DEF Ready
    <3> QED
      BY <1>2, <3>1, <3>2 DEF Staying
  <2> QED
    BY <2>1, <2>2, <2>3, WorkerOutcome DEF Outcome
<1> QED
  BY <1>3, <1>4

\* A signal that is heard finds a worker that will look at the list, or one
\* that has been woken before.
LEMMA StaffedAdd ==
  ASSUME TypeOK, CountersExact, Staffed, AddTask
  PROVE  Staffed'
<1> SUFFICES ASSUME Sound'
             PROVE  /\ first' # NULL => \E u \in Threads : Ready(u)'
                    /\ count' < MaxThread \/ \E u \in Threads : Staying(u)'
  BY DEF Staffed
<1>0. Sound /\ (idle > 0 => \E w \in InWait : pc[w] # "expired")
  <2>1. ghosts' = ghosts \/ ghosts' = ghosts + 1
    BY DEF AddTask, CreateThread
  <2>2. ghosts = 0
    BY <2>1 DEF Sound, TypeOK
  <2> QED
    BY <2>2 DEF Sound, AddTask
<1>2. IsFiniteSet(InWait) /\ Cardinality(InWait) = idle /\ count <= MaxThread
  BY PoolAssumption, FS_Subset DEF InWait, CountersExact
<1>3. timeout' = timeout
  BY DEF AddTask
<1>4. CASE idle > 0
  <2>2. Signal /\ count' = count
    BY <1>4 DEF AddTask, CreateThread
  <2>3. PICK w \in Threads : pc'[w] = "woken"
    <3>1. CASE Waiting # {}
      BY <2>2, <3>1 DEF Signal, Waiting, TypeOK
    <3>2. CASE Waiting = {}
      BY <1>0, <1>4, <2>2, <3>2 DEF Signal, Waiting, InWait
    <3> QED
      BY <3>1, <3>2
  <2> QED
    BY <2>2, <2>3 DEF Ready, Staying
<1>5. CASE idle = 0 /\ count < MaxThread
  <2>1. CreateThread
    BY <1>5, PoolAssumption DEF AddTask, TypeOK
  <2>2. PICK w \in Threads : pc'[w] = "top"
    BY <2>1, <1>0 DEF CreateThread, Sound, TypeOK
  <2> QED
    BY <2>2 DEF Ready, Staying
<1>6. CASE idle = 0 /\ count >= MaxThread
  <2>1. count' = count /\ pc' = pc
    BY <1>6, PoolAssumption DEF AddTask, TypeOK
  <2>2. PICK w \in Threads : Staying(w)
    BY <1>0, <1>6, PoolAssumption DEF Staffed, TypeOK
  <2>3. InWait = {}
    BY <1>2, <1>6, FS_EmptySet
  <2>4. Ready(w)
    BY <2>2, <2>3 DEF Staying, InWait
  <2> QED
    BY <1>3, <2>1, <2>4 DEF Ready, Staying
<1> QED
  BY <1>4, <1>5, <1>6, PoolAssumption DEF AddTask, TypeOK

LEMMA StaffedOther ==
  ASSUME TypeOK, CountersExact, Staffed,
         \/ \E w \in Threads : Expire(w) \/ SpuriousWakeup(w)
         \/ SpuriousCallerWakeup \/ Destroy \/ DestroyResume \/ UNCHANGED vars
  PROVE  Staffed'
<1>1. /\ first' = first /\ count' = count /\ Sound' = Sound /\ timeout' = timeout
      /\ \A u \in Threads :
           pc'[u] = pc[u] \/ (pc[u] = "waiting" /\ pc'[u] \in {"woken", "expired"})
  BY DEF Expire, SpuriousWakeup, SpuriousCallerWakeup, Destroy, DestroyResume, vars,
         listVars, clientVars, TypeOK, Sound
<1>2. \A u \in Threads : (Ready(u) => Ready(u)') /\ (Staying(u) => Staying(u)')
  BY <1>1 DEF Ready, Staying
<1> QED
  BY <1>1, <1>2 DEF Staffed

LEMMA StaffedStep == PoolSafe /\ Staffed /\ [Next]_vars => Staffed'
<1> SUFFICES ASSUME PoolSafe, Staffed, [Next]_vars PROVE Staffed'
  OBVIOUS
<1>1. TypeOK /\ CountersExact
  BY DEF PoolSafe
<1>2. CASE \E w \in Threads : WorkerStep(w)
  BY <1>1, <1>2, StaffedWorker
<1> QED
  BY <1>1, <1>2, StaffedAdd, StaffedOther DEF Next, WorkerStep, DestroyAgain

LEMMA StaffedInit == Init => Staffed
  BY PoolAssumption DEF Init, Staffed, NULL

\* Whatever timeouts, wakeups and exits are in each other's way, a task is left
\* in the list with no thread only after a pthread_create has failed (line 109)
\* or a signal has found none but workers about to leave (line 102): for any
\* number of tasks and any maxThread lines 100-105 keep their word otherwise.
THEOREM TasksHaveWorkers == Spec => []StrandedBy
<1>1. PoolSafe /\ Staffed => StrandedBy
  BY DEF PoolSafe, TypeOK, Staffed, StrandedBy, Stranded, Sound, Ready, Live
<1> QED
  BY <1>1, StaffedInit, StaffedStep, Invariance, PTL DEF Spec

\* threadPool_destroy waits, with pool->count at zero, only beside a list that
\* is not empty: every other last thread signals.
Awaited ==
  /\ caller \in {"waiting", "woken", "done"} => quit
  /\ caller = "waiting" /\ count = 0 => first # NULL
  /\ caller = "done" => count = 0

LEMMA AwaitedStep == PoolSafe /\ Awaited /\ [Next]_vars => Awaited'
<1> SUFFICES ASSUME PoolSafe, Awaited, [Next]_vars PROVE Awaited'
  OBVIOUS
<1>0. TypeOK /\ count \in Nat
  BY DEF PoolSafe, TypeOK
<1>1. ASSUME NEW w \in Threads, WorkerStep(w) PROVE Awaited'
  <2>1. w \in Live /\ quit' = quit
    BY <1>1 DEF WorkerStep, Enter, Resume, ResumeExpired, Finish, Proceed, Live, clientVars
  <2>2. caller # "done" /\ count # 0
    <3>1. caller # "done"
      BY <2>1 DEF PoolSafe, DestroySafe
    <3>2. count # 0
      BY <1>0, <2>1, EmptyCounts DEF PoolSafe
    <3> QED
      BY <3>1, <3>2
  <2>3. ASSUME NEW f, NEW late, EndIteration(w, f, late), f = first, first' = first PROVE Awaited'
    <3>1. CASE quit /\ f = NULL
      <4>1. count' = count - 1 /\ caller' = IF count = 1 /\ caller = "waiting" THEN "woken" ELSE caller
        BY <2>3, <3>1 DEF EndIteration
      <4> QED
        BY <1>0, <2>1, <2>2, <3>1, <4>1 DEF Awaited
    <3>2. CASE ~(quit /\ f = NULL)
      <4>1. caller' = caller
        BY <2>3, <3>2 DEF EndIteration
      <4> QED
        BY <2>1, <2>2, <2>3, <3>2, <4>1 DEF Awaited
    <3> QED
      BY <3>1, <3>2
  <2>4. ASSUME UNCHANGED <<count, caller>> PROVE Awaited'
    BY <2>1, <2>2, <2>4 DEF Awaited
  <2>5. ASSUME NEW n, NEW late, Proceed(w, n, late) PROVE Awaited'
    BY <2>3, <2>4, <2>5 DEF Proceed, listVars
  <2>6. CASE Finish(w)
    BY <2>3, <2>6 DEF Finish, listVars
  <2> QED
    BY <1>1, <2>4, <2>5, <2>6 DEF WorkerStep, Enter, Resume, ResumeExpired
<1>2. CASE AddTask
  BY <1>2 DEF AddTask, Awaited
<1>3. CASE Destroy \/ DestroyResume
  BY <1>0, <1>3 DEF Destroy, DestroyResume, Awaited, clientVars
<1>4. CASE SpuriousCallerWakeup \/ UNCHANGED vars \/ \E w \in Threads : Expire(w) \/ SpuriousWakeup(w)
  BY <1>4 DEF SpuriousCallerWakeup, Expire, SpuriousWakeup, vars, listVars, clientVars, Awaited
<1> QED
  BY <1>1, <1>2, <1>3, <1>4 DEF Next, WorkerStep, DestroyAgain

\* threadPool_destroy waits for nobody only when a thread was never created or
\* when tasks were left behind, by a last thread that timed out (lines 55-60).
THEOREM DestroyHangs == Spec => []HungBy
<1>1. PoolSafe /\ Awaited => HungBy
  <2> SUFFICES ASSUME PoolSafe, Awaited, caller = "waiting", Live = {}
               PROVE  ghosts > 0 \/ first # NULL
    BY DEF HungBy
  <2>1. Cardinality(Live) = 0
    BY FS_EmptySet
  <2>2. count = Cardinality(Live) + ghosts /\ ghosts \in Nat
    BY DEF PoolSafe, CountersExact, TypeOK
  <2>3. count = ghosts
    BY <2>1, <2>2
  <2> QED
    BY <2>2, <2>3 DEF Awaited
<1>2. Init => Awaited
  BY DEF Init, Awaited
<1> QED
  BY <1>1, <1>2, AwaitedStep, Invariance, PTL DEF Spec

\* A task taken from the list is being executed or has been freed.
NoneDropped ==
  \A k \in 1 .. Started : k \in freed \/ \E w \in Running : task[w] = k

LEMMA DroppedStep == PoolSafe /\ NoneDropped /\ [Next]_vars => NoneDropped'
<1> SUFFICES ASSUME PoolSafe, NoneDropped, [Next]_vars PROVE NoneDropped'
  OBVIOUS
<1>0. TypeOK
  BY DEF PoolSafe
<1>1. ASSUME UNCHANGED <<freed, task>>, Running' = Running, Started' = Started
      PROVE  NoneDropped'
  BY <1>1 DEF NoneDropped
<1>2. ASSUME NEW w \in Threads, Sleep(w) \/ Woken(w) PROVE NoneDropped'
  <2>1. Running' = Running
    BY <1>0, <1>2 DEF Sleep, Woken, Running, TypeOK
  <2>2. Started' = Started
    BY <1>2 DEF Sleep, Woken, listVars, clientVars, Started
  <2> QED
    BY <1>1, <1>2, <2>1, <2>2 DEF Sleep, Woken
<1>3. ASSUME NEW w \in Threads, Take(w) PROVE NoneDropped'
  <2>1. first \in Nat /\ submitted \in Nat /\ 1 <= first /\ first <= submitted
    BY <1>3, PoolAssumption DEF Take, PoolSafe, ListIntact, TypeOK, NULL
  <2>2. UNCHANGED <<next, submitted, freed>> /\ first' = next[first]
    BY <1>3 DEF Take, clientVars
  <2>3. Started = first - 1 /\ Started' = first
    <3>1. first # submitted => first' = first + 1
      BY <1>3, <2>1, <2>2 DEF Take, PoolSafe, ListIntact
    <3>2. first = submitted => first' = NULL
      BY <1>3, <2>2 DEF Take, PoolSafe, ListIntact
    <3> QED
      BY <1>3, <2>1, <2>2, <3>1, <3>2 DEF Take, Started, NULL
  <2>4. Running' = Running \union {w} /\ w \notin Running
    BY <1>0, <1>3 DEF Take, Running, TypeOK
  <2>5. task'[w] = first /\ \A u \in Running : task'[u] = task[u]
    BY <1>0, <1>3, <2>4 DEF Take, Running, TypeOK
  <2>6. \A k \in 1 .. first : k = first \/ k \in 1 .. first - 1
    BY <2>1
  <2> QED
    BY <2>2, <2>3, <2>4, <2>5, <2>6 DEF NoneDropped
<1>4. ASSUME NEW w \in Threads, End(w) PROVE NoneDropped'
  <2>1. Started' = Started
    BY <1>4 DEF End, Started, listVars, clientVars
  <2>2. CASE pc[w] # "running"
    <3>1. Running' = Running
      BY <1>0, <1>4, <2>2 DEF End, Running, TypeOK
    <3> QED
      BY <1>1, <1>4, <2>1, <2>2, <3>1 DEF End
  <2>3. CASE pc[w] = "running"
    <3>1. Running' = Running \ {w} /\ w \in Running
      BY <1>0, <1>4, <2>3 DEF End, Running, TypeOK
    <3>2. \A u \in Running' : task'[u] = task[u]
      BY <1>0, <1>4, <2>3, <3>1 DEF End, Running, TypeOK
    <3>3. freed' = freed \union {task[w]}
      BY <1>4, <2>3 DEF End
    <3> QED
      BY <2>1, <3>1, <3>2, <3>3 DEF NoneDropped
  <2> QED
    BY <2>2, <2>3
<1>5. CASE AddTask
  <2>1. Started' = Started
    <3>1. submitted' = submitted + 1 /\ submitted \in Nat
      BY <1>0, <1>5, PoolAssumption DEF AddTask, TypeOK
    <3>2. first' = IF first = NULL THEN submitted + 1 ELSE first
      BY <1>5 DEF AddTask, Link
    <3> QED
      BY <3>1, <3>2 DEF Started, NULL
  <2>2. Running' = Running
    BY <1>0, <1>5 DEF AddTask, Signal, CreateThread, Waiting, Running, TypeOK
  <2> QED
    BY <1>1, <1>5, <2>1, <2>2 DEF AddTask
<1>6. CASE Destroy
  <2>1. Running' = Running
    BY <1>0, <1>6 DEF Destroy, Running, TypeOK
  <2>2. Started' = Started
    BY <1>6 DEF Destroy, Started, listVars
  <2> QED
    BY <1>1, <1>6, <2>1, <2>2 DEF Destroy
<1>7. CASE SpuriousCallerWakeup \/ DestroyResume \/ UNCHANGED vars
  <2>1. Running' = Running /\ Started' = Started
    BY <1>7 DEF SpuriousCallerWakeup, DestroyResume, vars, listVars, clientVars, Running,
                Started
  <2> QED
    BY <1>1, <1>7, <2>1 DEF SpuriousCallerWakeup, DestroyResume, vars
<1> QED
  BY <1>0, StepCases, <1>2, <1>3, <1>4, <1>5, <1>6, <1>7

\* When threadPool_destroy returns (lines 118-142), every thread it counted was
\* created and every task added has been run, unless a signal found nobody.
THEOREM DestroyDrains == Spec => []DrainedOnDestroy
<1>1. PoolSafe /\ Staffed /\ Awaited /\ NoneDropped => DrainedOnDestroy
  <2> SUFFICES ASSUME PoolSafe, Staffed, Awaited, NoneDropped, caller = "done"
               PROVE  ghosts = 0 /\ (freed = 1 .. submitted \/ unheard)
    BY DEF DrainedOnDestroy
  <2>1. Live = {}
    BY DEF PoolSafe, DestroySafe
  <2>2. ghosts = 0
    BY <2>1, FS_EmptySet DEF Awaited, PoolSafe, CountersExact, TypeOK
  <2>3. ASSUME ~unheard PROVE freed = 1 .. submitted
    <3>1. \A w \in Threads : pc[w] \in {"unborn", "exited"}
      BY <2>1 DEF Live
    <3>2. first = NULL /\ Running = {}
      BY <2>2, <2>3, <3>1 DEF Staffed, Sound, Ready, Running
    <3>3. Started = submitted
      BY <3>2 DEF Started
    <3> QED
      BY <3>2, <3>3 DEF NoneDropped, PoolSafe, TasksOwned
  <2> QED
    BY <2>2, <2>3 DEF PoolSafe, TypeOK
<1>2. Init => NoneDropped /\ Awaited
  BY DEF Init, NoneDropped, Awaited, Started, NULL
<1> QED
  BY <1>1, <1>2, StaffedInit, StaffedStep, DroppedStep, AwaitedStep, Invariance, PTL DEF Spec

\* The three together: what a late or a missing thread may spoil, and that
\* nothing else does.
THEOREM LossesAreExplained == Spec => []LossesExplained
  BY TasksHaveWorkers, DestroyHangs, DestroyDrains, PTL DEF LossesExplained
=============================================================================
