-------------------------- MODULE ThreadPoolProofs --------------------------
(***************************************************************************)
(* Theorems about ThreadPool, for every finite set of workers and every    *)
(* set of tasks.                                                           *)
(***************************************************************************)
EXTENDS ThreadPool, SequenceTheorems, FiniteSetTheorems, TLAPS

-----------------------------------------------------------------------------

\* Every variable keeps its type, and a worker that is about to run a task
\* holds one: no worker calls front() on an empty deque.
THEOREM TypeCorrect == Spec => []TypeOK
<1> USE PoolAssumption DEF TypeOK
<1>1. Init => TypeOK
  BY DEF Init
<1>2. TypeOK /\ [Next]_vars => TypeOK'
  <2> SUFFICES ASSUME TypeOK, [Next]_vars PROVE TypeOK'
    OBVIOUS
  <2>1. ASSUME NEW w \in Workers, Lock(w) PROVE TypeOK'
    BY <2>1 DEF Lock
  <2>2. ASSUME NEW w \in Workers, Wait(w) PROVE TypeOK'
    BY <2>2 DEF Wait
  <2>3. ASSUME NEW w \in Workers, Take(w) PROVE TypeOK'
    <3>1. queue # <<>> /\ Head(queue) \in Tasks /\ Tail(queue) \in Seq(Tasks)
      BY <2>3, HeadTailProperties DEF Take
    <3>2. Head(queue) # NoTask
      BY <3>1
    <3> QED
      BY <2>3, <3>1, <3>2 DEF Take
  <2>4. ASSUME NEW w \in Workers, Unlock(w) PROVE TypeOK'
    BY <2>4 DEF Unlock
  <2>5. ASSUME NEW w \in Workers, Run(w) PROVE TypeOK'
    BY <2>5 DEF Run
  <2>6. ASSUME NEW w \in Workers, SpuriousWakeup(w) PROVE TypeOK'
    BY <2>6 DEF SpuriousWakeup
  <2>7. ASSUME NEW t \in Tasks, QueueLock(t) PROVE TypeOK'
    BY <2>7 DEF QueueLock
  <2>8. CASE QueuePush
    BY <2>8, AppendProperties DEF QueuePush
  <2>9. CASE QueueUnlock
    BY <2>9 DEF QueueUnlock
  <2>10. CASE QueueSignal
    <3>1. CASE pc' = pc
      BY <2>10, <3>1 DEF QueueSignal
    <3>2. ASSUME NEW woken \in SUBSET Sleeping,
                 pc' = [w \in Workers |-> IF w \in woken THEN "lock" ELSE pc[w]]
          PROVE  TypeOK'
      BY <2>10, <3>2 DEF QueueSignal, Sleeping
    <3> QED
      BY <2>10, <3>1, <3>2 DEF QueueSignal
  <2>11. CASE UNCHANGED vars
    BY <2>11 DEF vars
  <2> QED
    BY <2>1, <2>2, <2>3, <2>4, <2>5, <2>6, <2>7, <2>8, <2>9, <2>10, <2>11
       DEF Next, Worker, Queueing
<1>3. QED
  BY <1>1, <1>2, PTL DEF Spec

-----------------------------------------------------------------------------

\* The mutex is held by exactly the thread whose program counter is inside a
\* critical section of thread_pool.cpp, so there is never a second one.
THEOREM MutexCorrect == Spec => []LockInv
<1> USE PoolAssumption DEF LockInv
<1>1. Init => LockInv
  BY DEF Init
<1>2. TypeOK /\ LockInv /\ [Next]_vars => LockInv'
  <2> SUFFICES ASSUME TypeOK, LockInv, [Next]_vars PROVE LockInv'
    OBVIOUS
  <2> USE DEF TypeOK
  <2>1. ASSUME NEW w \in Workers, Worker(w) PROVE LockInv'
    BY <2>1 DEF Worker, Lock, Wait, Take, Unlock, Run
  <2>2. ASSUME NEW w \in Workers, SpuriousWakeup(w) PROVE LockInv'
    BY <2>2 DEF SpuriousWakeup
  <2>3. ASSUME NEW t \in Tasks, QueueLock(t) PROVE LockInv'
    BY <2>3 DEF QueueLock
  <2>4. CASE QueuePush
    BY <2>4 DEF QueuePush
  <2>5. CASE QueueUnlock
    BY <2>5 DEF QueueUnlock
  <2>6. CASE QueueSignal
    <3>1. CASE pc' = pc
      BY <2>6, <3>1 DEF QueueSignal
    <3>2. ASSUME NEW woken \in SUBSET Sleeping,
                 pc' = [w \in Workers |-> IF w \in woken THEN "lock" ELSE pc[w]]
          PROVE  LockInv'
      BY <2>6, <3>2 DEF QueueSignal, Sleeping
    <3> QED
      BY <2>6, <3>1, <3>2 DEF QueueSignal
  <2>7. CASE UNCHANGED vars
    BY <2>7 DEF vars
  <2> QED
    BY <2>1, <2>2, <2>3, <2>4, <2>5, <2>6, <2>7 DEF Next, Queueing
<1>3. QED
  BY <1>1, <1>2, TypeCorrect, PTL DEF Spec

-----------------------------------------------------------------------------

\* RunOnce is inductive once it also says that the task being pushed is in
\* no other place.
RunOnceInv ==
    /\ RunOnce
    /\ mainPc = "push" => NeverQueued(arg)

\* Popping the front leaves the rest of a deque without duplicates.
LEMMA TailKeeps ==
    ASSUME TypeOK, queue # <<>>
    PROVE  /\ Head(queue) = queue[1]
           /\ Head(queue) \in Tasks
           /\ Tail(queue) \in Seq(Tasks)
           /\ Len(Tail(queue)) = Len(queue) - 1
           /\ \A i \in 1..Len(Tail(queue)) : Tail(queue)[i] = queue[i + 1]
           /\ 1 \in 1..Len(queue)
           /\ \A i \in 1..Len(Tail(queue)) : i + 1 \in 1..Len(queue)
           /\ Len(queue) \in Nat
BY HeadTailProperties, EmptySeq, LenProperties DEF TypeOK

\* The strengthened invariant holds: one step per action.
LEMMA RunOnceInductive == Spec => []RunOnceInv
<1> USE PoolAssumption
<1>1. Init => RunOnceInv
  BY DEF Init, RunOnceInv, RunOnce, InQueue
<1>2. TypeOK /\ RunOnceInv /\ [Next]_vars => RunOnceInv'
  <2> SUFFICES ASSUME TypeOK, RunOnceInv, [Next]_vars PROVE RunOnceInv'
    OBVIOUS
  <2> USE DEF TypeOK, RunOnceInv, RunOnce, InQueue, NeverQueued
  <2>1. ASSUME NEW w \in Workers, Lock(w) PROVE RunOnceInv'
    BY <2>1 DEF Lock
  <2>2. ASSUME NEW w \in Workers, Wait(w) PROVE RunOnceInv'
    BY <2>2 DEF Wait
  <2>3. ASSUME NEW w \in Workers, Take(w) PROVE RunOnceInv'
    <3> DEFINE h == Head(queue)
               q == Tail(queue)
    <3>1. /\ queue' = q
          /\ task' = [task EXCEPT ![w] = h]
          /\ queue # <<>>
          /\ task[w] = NoTask
          /\ UNCHANGED <<mainPc, arg, runs>>
      BY <2>3 DEF Take
    <3>2. /\ h = queue[1] /\ h \in Tasks /\ h # NoTask
          /\ q \in Seq(Tasks) /\ Len(q) \in Nat /\ Len(queue) \in Nat
          /\ Len(q) = Len(queue) - 1
          /\ \A i \in 1..Len(q) : q[i] = queue[i + 1] /\ i + 1 \in 1..Len(queue)
          /\ 1 \in 1..Len(queue)
      BY <3>1, TailKeeps, LenProperties
    <3> HIDE DEF h, q
    <3>3. \A i, j \in 1..Len(q) : q[i] = q[j] => i = j
      <4> SUFFICES ASSUME NEW i \in 1..Len(q), NEW j \in 1..Len(q), q[i] = q[j]
                   PROVE  i = j
        OBVIOUS
      <4>1. queue[i + 1] = queue[j + 1] /\ i + 1 \in 1..Len(queue)
            /\ j + 1 \in 1..Len(queue)
        BY <3>2
      <4>2. i + 1 = j + 1
        BY <4>1
      <4> QED
        BY <4>2, <3>2
    <3>4. \A i \in 1..Len(q) : q[i] # h
      BY <3>2
    <3>5. \A t \in Tasks : InQueue(t)' => InQueue(t) /\ t # h
      <4> SUFFICES ASSUME NEW t \in Tasks, NEW i \in 1..Len(q), q[i] = t
                   PROVE  InQueue(t) /\ t # h
        BY <3>1
      <4>1. queue[i + 1] = t /\ i + 1 \in 1..Len(queue)
        BY <3>2
      <4> QED
        BY <3>4, <4>1
    <3>6. InQueue(h) /\ runs[h] = 0 /\ \A v \in Workers : task[v] # h
      BY <3>2
    <3>7. \A v \in Workers : task'[v] = IF v = w THEN h ELSE task[v]
      BY <3>1
    <3>8. RunOnce'
      BY <3>1, <3>3, <3>5, <3>6, <3>7
    <3>9. (mainPc = "push" => NeverQueued(arg))'
      BY <3>1, <3>2, <3>5, <3>6, <3>7
    <3> QED
      BY <3>8, <3>9
  <2>4. ASSUME NEW w \in Workers, Unlock(w) PROVE RunOnceInv'
    BY <2>4 DEF Unlock
  <2>5. ASSUME NEW w \in Workers, Run(w) PROVE RunOnceInv'
    BY <2>5 DEF Run
  <2>6. ASSUME NEW w \in Workers, SpuriousWakeup(w) PROVE RunOnceInv'
    BY <2>6 DEF SpuriousWakeup
  <2>7. ASSUME NEW t \in Tasks, QueueLock(t) PROVE RunOnceInv'
    BY <2>7 DEF QueueLock
  <2>8. CASE QueuePush
    <3>1. /\ queue' = Append(queue, arg)
          /\ UNCHANGED <<task, runs>>
          /\ mainPc' = "unlock"
          /\ arg \in Tasks
          /\ NeverQueued(arg)
      BY <2>8 DEF QueuePush
    <3>2. /\ Len(queue) \in Nat
          /\ Len(Append(queue, arg)) = Len(queue) + 1
          /\ \A i \in 1..Len(queue) : Append(queue, arg)[i] = queue[i]
          /\ Append(queue, arg)[Len(queue) + 1] = arg
      BY <3>1, AppendProperties, LenProperties
    <3>3. \A t \in Tasks : InQueue(t)' => InQueue(t) \/ t = arg
      BY <3>1, <3>2
    <3>4. (\A i, j \in 1..Len(queue) : queue[i] = queue[j] => i = j)'
      BY <3>1, <3>2
    <3> QED
      BY <3>1, <3>3, <3>4
  <2>9. CASE QueueUnlock
    BY <2>9 DEF QueueUnlock
  <2>10. CASE QueueSignal
    BY <2>10 DEF QueueSignal
  <2>11. CASE UNCHANGED vars
    BY <2>11 DEF vars
  <2> QED
    BY <2>1, <2>2, <2>3, <2>4, <2>5, <2>6, <2>7, <2>8, <2>9, <2>10, <2>11
       DEF Next, Worker, Queueing
<1>3. QED
  BY <1>1, <1>2, TypeCorrect, PTL DEF Spec

\* No task is lost, held twice or run twice.
THEOREM EachTaskRunsOnce == Spec => []RunOnce
<1>1. RunOnceInv => RunOnce
  BY DEF RunOnceInv
<1> QED
  BY <1>1, RunOnceInductive, PTL

-----------------------------------------------------------------------------

\* The workers on their way to the queue are finitely many.
LEMMA LookingFinite == IsFiniteSet(Looking) /\ Cardinality(Looking) \in Nat
BY PoolAssumption, FS_Subset, FS_CardinalityType DEF Looking

\* Workers that join the ones on their way to the queue add to their number.
LEMMA LookingGrows ==
    ASSUME NEW more, more # {}, Looking' = Looking \cup more,
           more \cap Looking = {}, IsFiniteSet(Looking')
    PROVE  Cardinality(Looking') >= Cardinality(Looking) + 1
<1>1. PICK w \in more : TRUE
  OBVIOUS
<1>2. IsFiniteSet(Looking) /\ Cardinality(Looking) \in Nat
  BY LookingFinite
<1>3. /\ IsFiniteSet(Looking \cup {w})
      /\ Cardinality(Looking \cup {w}) = Cardinality(Looking) + 1
  BY <1>1, <1>2, FS_AddElement
<1>4. Looking \cup {w} \subseteq Looking'
  BY <1>1
<1>5. Cardinality(Looking \cup {w}) <= Cardinality(Looking')
  BY <1>4, FS_Subset
<1>6. Cardinality(Looking') \in Nat
  BY FS_CardinalityType
<1> QED
  BY <1>2, <1>3, <1>5, <1>6

\* No wakeup is lost and no worker sleeps on a backlog.  The invariant is
\* inductive: pushing a task raises both sides, the signal trades the main
\* thread's promise for at least one woken worker, a worker that takes a
\* task lowers both sides, and one that falls asleep saw an empty queue.
THEOREM NobodySleepsOnBacklog == Spec => []NoSleepOnBacklog
<1> USE PoolAssumption
<1>1. Init => NoSleepOnBacklog
  BY DEF Init, NoSleepOnBacklog, Sleeping
<1>2. TypeOK /\ NoSleepOnBacklog /\ [Next]_vars => NoSleepOnBacklog'
  <2> SUFFICES ASSUME TypeOK, NoSleepOnBacklog, [Next]_vars
               PROVE  NoSleepOnBacklog'
    OBVIOUS
  <2> DEFINE promised == IF mainPc \in {"unlock", "signal"} THEN 1 ELSE 0
  <2>1. /\ Len(queue) \in Nat
        /\ Cardinality(Looking) \in Nat
        /\ IsFiniteSet(Looking)
        /\ Sleeping # {} => Len(queue) <= Cardinality(Looking) + promised
    BY LookingFinite, LenProperties DEF TypeOK, NoSleepOnBacklog
  <2>2. IsFiniteSet(Looking') /\ Cardinality(Looking') \in Nat
    BY FS_Subset, FS_CardinalityType DEF Looking
  <2>3. ASSUME UNCHANGED <<queue, mainPc>>, Looking' = Looking,
               Sleeping' = {} \/ Sleeping # {}
        PROVE  NoSleepOnBacklog'
    BY <2>1, <2>3 DEF NoSleepOnBacklog
  <2>4. ASSUME UNCHANGED <<queue, mainPc>>, Sleeping' \subseteq Sleeping,
               NEW w \in Workers, w \notin Looking, Looking' = Looking \cup {w}
        PROVE  NoSleepOnBacklog'
    <3>1. Cardinality(Looking') = Cardinality(Looking) + 1
      BY <2>1, <2>4, FS_AddElement
    <3> QED
      BY <2>1, <2>4, <3>1 DEF NoSleepOnBacklog
  <2>5. ASSUME NEW w \in Workers, Lock(w) PROVE NoSleepOnBacklog'
    <3>1. Looking' = Looking /\ Sleeping' = Sleeping
      BY <2>5 DEF Lock, Looking, Sleeping, TypeOK
    <3> QED
      BY <2>3, <2>5, <3>1 DEF Lock
  <2>6. ASSUME NEW w \in Workers, Wait(w) PROVE NoSleepOnBacklog'
    BY <2>2, <2>6 DEF Wait, NoSleepOnBacklog
  <2>7. ASSUME NEW w \in Workers, Take(w) PROVE NoSleepOnBacklog'
    <3>1. /\ Looking' = Looking \ {w} /\ w \in Looking
          /\ Sleeping' = Sleeping /\ mainPc' = mainPc
      BY <2>7 DEF Take, Looking, Sleeping, TypeOK
    <3>2. Cardinality(Looking') = Cardinality(Looking) - 1
      BY <2>1, <3>1, FS_RemoveElement
    <3>3. Len(queue') = Len(queue) - 1
      BY <2>7, TailKeeps DEF Take
    <3> QED
      BY <2>1, <3>1, <3>2, <3>3 DEF NoSleepOnBacklog
  <2>8. ASSUME NEW w \in Workers, Unlock(w) PROVE NoSleepOnBacklog'
    <3>1. Looking' = Looking /\ Sleeping' = Sleeping
      BY <2>8 DEF Unlock, Looking, Sleeping, TypeOK
    <3> QED
      BY <2>3, <2>8, <3>1 DEF Unlock
  <2>9. ASSUME NEW w \in Workers, Run(w) PROVE NoSleepOnBacklog'
    <3>1. w \notin Looking /\ Looking' = Looking \cup {w} /\ Sleeping' = Sleeping
      BY <2>9 DEF Run, Looking, Sleeping, TypeOK
    <3> QED
      BY <2>4, <2>9, <3>1 DEF Run
  <2>10. ASSUME NEW w \in Workers, SpuriousWakeup(w) PROVE NoSleepOnBacklog'
    <3>1. /\ w \notin Looking /\ Looking' = Looking \cup {w}
          /\ Sleeping' \subseteq Sleeping
      BY <2>10 DEF SpuriousWakeup, Looking, Sleeping, TypeOK
    <3> QED
      BY <2>4, <2>10, <3>1 DEF SpuriousWakeup
  <2>11. ASSUME NEW t \in Tasks, QueueLock(t) PROVE NoSleepOnBacklog'
    <3>1. /\ Looking' = Looking /\ Sleeping' = Sleeping /\ queue' = queue
          /\ mainPc = "idle" /\ mainPc' = "push"
      BY <2>11 DEF QueueLock, Looking, Sleeping
    <3> QED
      BY <2>1, <3>1 DEF NoSleepOnBacklog
  <2>12. CASE QueuePush
    <3>1. /\ Looking' = Looking /\ Sleeping' = Sleeping
          /\ mainPc = "push" /\ mainPc' = "unlock"
      BY <2>12 DEF QueuePush, Looking, Sleeping
    <3>2. Len(queue') = Len(queue) + 1
      BY <2>12, AppendProperties DEF QueuePush, TypeOK
    <3> QED
      BY <2>1, <3>1, <3>2 DEF NoSleepOnBacklog
  <2>13. CASE QueueUnlock
    <3>1. /\ Looking' = Looking /\ Sleeping' = Sleeping /\ queue' = queue
          /\ mainPc = "unlock" /\ mainPc' = "signal"
      BY <2>13 DEF QueueUnlock, Looking, Sleeping
    <3> QED
      BY <2>1, <3>1 DEF NoSleepOnBacklog
  <2>14. CASE QueueSignal
    <3>1. mainPc = "signal" /\ mainPc' = "idle" /\ queue' = queue
      BY <2>14 DEF QueueSignal
    <3>2. CASE Sleeping = {} /\ UNCHANGED pc
      BY <3>2 DEF NoSleepOnBacklog, Sleeping
    <3>3. ASSUME NEW woken \in SUBSET Sleeping, woken # {},
                 pc' = [w \in Workers |-> IF w \in woken THEN "lock" ELSE pc[w]]
          PROVE  NoSleepOnBacklog'
      <4>1. Looking' = Looking \cup woken /\ woken \cap Looking = {}
        BY <3>3 DEF Looking, Sleeping
      <4>2. Cardinality(Looking') >= Cardinality(Looking) + 1
        BY <2>2, <3>3, <4>1, LookingGrows
      <4>3. Sleeping # {}
        BY <3>3
      <4> QED
        BY <2>1, <2>2, <3>1, <4>2, <4>3 DEF NoSleepOnBacklog
    <3> QED
      BY <2>14, <3>2, <3>3 DEF QueueSignal
  <2>15. CASE UNCHANGED vars
    <3>1. /\ Looking' = Looking /\ Sleeping' = Sleeping
          /\ queue' = queue /\ mainPc' = mainPc
      BY <2>15 DEF vars, Looking, Sleeping
    <3> QED
      BY <2>1, <3>1 DEF NoSleepOnBacklog
  <2> QED
    BY <2>5, <2>6, <2>7, <2>8, <2>9, <2>10, <2>11, <2>12, <2>13, <2>14, <2>15
       DEF Next, Worker, Queueing
<1>3. QED
  BY <1>1, <1>2, TypeCorrect, PTL DEF Spec

-----------------------------------------------------------------------------

\* The pool implements the FIFO of tasks that are each run once: pushing is
\* submitting, popping is starting, returning from the task is finishing it,
\* and no other step of any thread is visible.
THEOREM PoolImplementsTaskQueue == Spec => ImplementsTaskQueue
<1> USE PoolAssumption
<1> DEFINE held == {task[w] : w \in Workers} \ {NoTask}
<1>1. Init => Abstract!Init
  BY DEF Init, Abstract!Init
<1>2. TypeOK /\ RunOnceInv /\ [Next]_vars => [Abstract!Next]_(Abstract!vars)
  <2> SUFFICES ASSUME TypeOK, RunOnceInv, [Next]_vars
               PROVE  Abstract!Next \/ UNCHANGED Abstract!vars
    OBVIOUS
  <2>1. UNCHANGED <<queue, task, runs>> => UNCHANGED Abstract!vars
    BY DEF Abstract!vars
  <2>2. ASSUME NEW w \in Workers, Take(w) PROVE Abstract!Next
    <3>1. /\ queue # <<>> /\ queue' = Tail(queue) /\ runs' = runs
          /\ task' = [task EXCEPT ![w] = Head(queue)] /\ task[w] = NoTask
      BY <2>2 DEF Take, TypeOK
    <3>2. Head(queue) \in Tasks /\ InQueue(Head(queue))
      BY <3>1, TailKeeps DEF InQueue
    <3>3. \A v \in Workers : task[v] # Head(queue)
      BY <3>2 DEF RunOnceInv, RunOnce
    <3>4. held' = held \cup {Head(queue)}
      BY <3>1, <3>2 DEF TypeOK
    <3> QED
      BY <3>1, <3>3, <3>4 DEF Abstract!Next, Abstract!Start
  <2>3. ASSUME NEW w \in Workers, Run(w) PROVE Abstract!Next
    <3>1. /\ queue' = queue /\ task' = [task EXCEPT ![w] = NoTask]
          /\ runs' = [runs EXCEPT ![task[w]] = @ + 1]
          /\ task[w] \in Tasks
      BY <2>3 DEF Run, TypeOK
    <3>2. \A v \in Workers : task[v] = task[w] => v = w
      BY <3>1 DEF RunOnceInv, RunOnce
    <3>3. task[w] \in held /\ held' = held \ {task[w]}
      BY <3>1, <3>2 DEF TypeOK
    <3> QED
      BY <3>1, <3>3 DEF Abstract!Next, Abstract!Finish
  <2>4. CASE QueuePush
    <3>1. /\ queue' = Append(queue, arg) /\ UNCHANGED <<task, runs>>
          /\ arg \in Tasks /\ NeverQueued(arg)
      BY <2>4 DEF QueuePush, RunOnceInv, TypeOK
    <3>2. arg \notin Abstract!Queued \cup held /\ runs[arg] = 0
      BY <3>1 DEF NeverQueued, InQueue, Abstract!Queued
    <3> QED
      BY <3>1, <3>2 DEF Abstract!Next, Abstract!Submit
  <2>5. ASSUME NEW w \in Workers,
               Lock(w) \/ Wait(w) \/ Unlock(w) \/ SpuriousWakeup(w)
        PROVE  UNCHANGED Abstract!vars
    BY <2>1, <2>5 DEF Lock, Wait, Unlock, SpuriousWakeup
  <2>6. ASSUME NEW t \in Tasks, QueueLock(t) PROVE UNCHANGED Abstract!vars
    BY <2>1, <2>6 DEF QueueLock
  <2>7. CASE QueueUnlock \/ QueueSignal
    BY <2>1, <2>7 DEF QueueUnlock, QueueSignal
  <2>8. CASE UNCHANGED vars
    BY <2>1, <2>8 DEF vars
  <2> QED
    BY <2>2, <2>3, <2>4, <2>5, <2>6, <2>7, <2>8 DEF Next, Worker, Queueing
<1> QED
  BY <1>1, <1>2, TypeCorrect, RunOnceInductive, PTL
     DEF Spec, ImplementsTaskQueue, Abstract!Spec
=============================================================================
