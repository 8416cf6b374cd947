------------------------------ MODULE TaskQueue ------------------------------
(***************************************************************************)
(* What the thread pool of src/src/thread_pool.cpp promises the thread     *)
(* that queues tasks: tasks start in the order in which they were queued,  *)
(* and each of them is run exactly once.  No mutex, no condition variable  *)
(* and no worker identity appears here; ThreadPool implements this module. *)
(***************************************************************************)
EXTENDS Naturals, Sequences

CONSTANT Tasks    \* the tasks that may ever be queued

VARIABLES
    pending,      \* tasks queued and not started, oldest first
    running,      \* tasks that a worker has started and not finished
    runs          \* runs[t]: how many times t has been run to its end

vars == <<pending, running, runs>>

Queued == {pending[i] : i \in 1..Len(pending)}

Init ==
    /\ pending = <<>>
    /\ running = {}
    /\ runs = [t \in Tasks |-> 0]

Submit(t) ==
    /\ t \notin Queued \cup running
    /\ runs[t] = 0
    /\ pending' = Append(pending, t)
    /\ UNCHANGED <<running, runs>>

Start ==
    /\ pending # <<>>
    /\ Head(pending) \notin running
    /\ running' = running \cup {Head(pending)}
    /\ pending' = Tail(pending)
    /\ UNCHANGED runs

Finish(t) ==
    /\ t \in running
    /\ running' = running \ {t}
    /\ runs' = [runs EXCEPT ![t] = @ + 1]
    /\ UNCHANGED pending

Next ==
    \/ \E t \in Tasks : Submit(t) \/ Finish(t)
    \/ Start

Spec == Init /\ [][Next]_vars
=============================================================================
