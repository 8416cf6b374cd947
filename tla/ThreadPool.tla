----------------------------- MODULE ThreadPool -----------------------------
(***************************************************************************)
(* The worker pool of src/src/thread_pool.cpp: a task deque protected by   *)
(* the mutex `mu`, the condition variable `not_empty`, worker threads that *)
(* run consume(), and the main thread, the only caller of                  *)
(* thread_pool_queue().  Every lock, unlock, wait and signal is a step of  *)
(* its own, so all interleavings of the threads are explored.              *)
(***************************************************************************)
EXTENDS Naturals, Sequences, FiniteSets

CONSTANTS
    Workers,      \* the worker threads (4 of them in server.cpp's main)
    Tasks,        \* the tasks the main thread may queue, each once
    Main,         \* the main thread
    NoThread,     \* "nobody holds the mutex"
    NoTask        \* "this worker holds no task"

ASSUME PoolAssumption ==
    /\ IsFiniteSet(Workers)
    /\ Main \notin Workers
    /\ NoThread \notin Workers \cup {Main}
    /\ NoTask \notin Tasks

VARIABLES
    queue,        \* tp->queue, front first
    mu,           \* the thread that holds tp->mu, or NoThread
    pc,           \* pc[w]: where worker w is in consume()
    task,         \* task[w]: worker w's local variable `task`
    mainPc,       \* where the main thread is in thread_pool_queue()
    arg,          \* the task the main thread is queueing
    runs          \* history: runs[t] counts the completed runs of task t

vars == <<queue, mu, pc, task, mainPc, arg, runs>>

InQueue(t) == \E i \in 1..Len(queue) : queue[i] = t

Sleeping == {w \in Workers : pc[w] = "wait"}

\* Workers that will look at the queue before they can sleep or run a task.
Looking == {w \in Workers : pc[w] \in {"lock", "test"}}

\* The main thread queues a task once: the argument is a heap object that
\* nobody else refers to (entry_del in state.cpp).
NeverQueued(t) ==
    ~InQueue(t) /\ runs[t] = 0 /\ \A w \in Workers : task[w] # t

Init ==
    /\ queue = <<>>
    /\ mu = NoThread
    /\ pc = [w \in Workers |-> "lock"]
    /\ task = [w \in Workers |-> NoTask]
    /\ mainPc = "idle"
    /\ arg = NoTask
    /\ runs = [t \in Tasks |-> 0]

-----------------------------------------------------------------------------
(* consume(): one worker.                                                  *)

\* pthread_mutex_lock, and also the way out of pthread_cond_wait, which
\* takes the mutex back before the `while` condition is tested again.
Lock(w) ==
    /\ pc[w] = "lock"
    /\ mu = NoThread
    /\ mu' = w
    /\ pc' = [pc EXCEPT ![w] = "test"]
    /\ UNCHANGED <<queue, task, mainPc, arg, runs>>

\* pthread_cond_wait: unlock and sleep, atomically.
Wait(w) ==
    /\ pc[w] = "test"
    /\ queue = <<>>
    /\ mu' = NoThread
    /\ pc' = [pc EXCEPT ![w] = "wait"]
    /\ UNCHANGED <<queue, task, mainPc, arg, runs>>

\* A thread may leave pthread_cond_wait without a signal.
SpuriousWakeup(w) ==
    /\ pc[w] = "wait"
    /\ pc' = [pc EXCEPT ![w] = "lock"]
    /\ UNCHANGED <<queue, mu, task, mainPc, arg, runs>>

\* Mutant of Take: `if` instead of `while`, front() of an empty deque.
Take_NoRetest(w) ==
    /\ pc[w] = "test"
    /\ queue' = IF queue = <<>> THEN queue ELSE Tail(queue)
    /\ task' = [task EXCEPT ![w] = IF queue = <<>> THEN NoTask ELSE Head(queue)]
    /\ pc' = [pc EXCEPT ![w] = "unlock"]
    /\ UNCHANGED <<mu, mainPc, arg, runs>>

\* Mutant of Take: the task is read with front() and never popped.
Take_NoPop(w) ==
    /\ pc[w] = "test"
    /\ queue # <<>>
    /\ task' = [task EXCEPT ![w] = Head(queue)]
    /\ pc' = [pc EXCEPT ![w] = "unlock"]
    /\ UNCHANGED <<queue, mu, mainPc, arg, runs>>

\* Mutant of Take: the newest task is taken, back() and pop_back().
Take_Newest(w) ==
    /\ pc[w] = "test"
    /\ queue # <<>>
    /\ task' = [task EXCEPT ![w] = queue[Len(queue)]]
    /\ queue' = SubSeq(queue, 1, Len(queue) - 1)
    /\ pc' = [pc EXCEPT ![w] = "unlock"]
    /\ UNCHANGED <<mu, mainPc, arg, runs>>

Take(w) ==
    /\ pc[w] = "test"
    /\ queue # <<>>
    /\ task' = [task EXCEPT ![w] = Head(queue)]
    /\ queue' = Tail(queue)
    /\ pc' = [pc EXCEPT ![w] = "unlock"]
    /\ UNCHANGED <<mu, mainPc, arg, runs>>

Unlock(w) ==
    /\ pc[w] = "unlock"
    /\ mu' = NoThread
    /\ pc' = [pc EXCEPT ![w] = "run"]
    /\ UNCHANGED <<queue, task, mainPc, arg, runs>>

\* task.f(task.arg) returns; the worker starts its loop again.
Run(w) ==
    /\ pc[w] = "run"
    /\ runs' = [runs EXCEPT ![task[w]] = @ + 1]
    /\ task' = [task EXCEPT ![w] = NoTask]
    /\ pc' = [pc EXCEPT ![w] = "lock"]
    /\ UNCHANGED <<queue, mu, mainPc, arg>>

-----------------------------------------------------------------------------
(* thread_pool_queue(): the main thread.                                   *)

QueueLock(t) ==
    /\ mainPc = "idle"
    /\ NeverQueued(t)
    /\ mu = NoThread
    /\ mu' = Main
    /\ arg' = t
    /\ mainPc' = "push"
    /\ UNCHANGED <<queue, pc, task, runs>>

QueuePush ==
    /\ mainPc = "push"
    /\ queue' = Append(queue, arg)
    /\ mainPc' = "unlock"
    /\ UNCHANGED <<mu, pc, task, arg, runs>>

QueueUnlock ==
    /\ mainPc = "unlock"
    /\ mu' = NoThread
    /\ mainPc' = "signal"
    /\ UNCHANGED <<queue, pc, task, arg, runs>>

\* Mutant of QueueSignal: the signal is sent only when the task just pushed
\* is alone in the queue, "the others have been signalled already".
QueueSignal_FirstOnly ==
    /\ mainPc = "signal"
    /\ IF Sleeping = {} \/ Len(queue) # 1
       THEN UNCHANGED pc
       ELSE \E w \in Sleeping : pc' = [pc EXCEPT ![w] = "lock"]
    /\ mainPc' = "idle"
    /\ arg' = NoTask
    /\ UNCHANGED <<queue, mu, task, runs>>

\* Mutant of QueueSignal: no signal at all.
QueueSignal_Never ==
    /\ mainPc = "signal"
    /\ mainPc' = "idle"
    /\ arg' = NoTask
    /\ UNCHANGED <<queue, mu, pc, task, runs>>

\* pthread_cond_signal wakes at least one of the threads that sleep, and is
\* lost when none does.
QueueSignal ==
    /\ mainPc = "signal"
    /\ \/ /\ Sleeping = {}
          /\ UNCHANGED pc
       \/ \E woken \in (SUBSET Sleeping) \ {{}} :
             pc' = [w \in Workers |-> IF w \in woken THEN "lock" ELSE pc[w]]
    /\ mainPc' = "idle"
    /\ arg' = NoTask
    /\ UNCHANGED <<queue, mu, task, runs>>

-----------------------------------------------------------------------------

Worker(w) == Lock(w) \/ Wait(w) \/ Take(w) \/ Unlock(w) \/ Run(w)

Queueing == QueuePush \/ QueueUnlock \/ QueueSignal

Next ==
    \/ \E w \in Workers : Worker(w) \/ SpuriousWakeup(w)
    \/ \E t \in Tasks : QueueLock(t)
    \/ Queueing

Spec == Init /\ [][Next]_vars

\* A runnable thread runs, and thread_pool_queue() returns.  Nothing obliges
\* the main thread to queue a task, or a sleeping worker to wake unprompted.
FairSpec ==
    /\ Spec
    /\ \A w \in Workers : WF_vars(Worker(w))
    /\ WF_vars(Queueing)

-----------------------------------------------------------------------------
(* Properties.                                                             *)

\* Types, and: a worker that is about to run has a task to run (front() was
\* not called on an empty deque).
TypeOK ==
    /\ queue \in Seq(Tasks)
    /\ mu \in Workers \cup {Main, NoThread}
    /\ pc \in [Workers -> {"lock", "test", "wait", "unlock", "run"}]
    /\ task \in [Workers -> Tasks \cup {NoTask}]
    /\ mainPc \in {"idle", "push", "unlock", "signal"}
    /\ arg \in Tasks \cup {NoTask}
    /\ runs \in [Tasks -> Nat]
    /\ \A w \in Workers : pc[w] \in {"unlock", "run"} <=> task[w] # NoTask
    /\ mainPc = "push" => arg # NoTask

\* The critical sections: who holds the mutex, as the program counters say.
LockInv ==
    /\ \A w \in Workers : pc[w] \in {"test", "unlock"} <=> mu = w
    /\ mainPc \in {"push", "unlock"} <=> mu = Main

\* A queued task is in one place only - once in the deque, in the hands of
\* one worker, or done - so that it is run at most once and never lost
\* between the deque and a worker.  (A task is the deletion of an Entry: a
\* second run would free it twice.)
RunOnce ==
    /\ \A i, j \in 1..Len(queue) : queue[i] = queue[j] => i = j
    /\ \A v, w \in Workers : task[v] = task[w] /\ task[v] # NoTask => v = w
    /\ \A t \in Tasks :
          /\ runs[t] <= 1
          /\ InQueue(t) => runs[t] = 0 /\ \A w \in Workers : task[w] # t
          /\ runs[t] = 1 => \A w \in Workers : task[w] # t

\* No worker sleeps on a backlog: while somebody is asleep, the workers on
\* their way to the queue (and the signal the main thread is about to send)
\* are at least as many as the queued tasks.  In particular no wakeup is
\* lost, and a task never waits for another task to end while a worker
\* sleeps.
NoSleepOnBacklog ==
    Sleeping # {} =>
        Len(queue) <= Cardinality(Looking)
                      + (IF mainPc \in {"unlock", "signal"} THEN 1 ELSE 0)

\* Every queued task is run in the end.
QueuedTasksRun ==
    \A t \in Tasks : InQueue(t) ~> runs[t] = 1

\* The pool is a FIFO of tasks that are each run once (module TaskQueue).
Abstract == INSTANCE TaskQueue WITH
    pending <- queue,
    running <- {task[w] : w \in Workers} \ {NoTask}

ImplementsTaskQueue == Abstract!Spec
=============================================================================
