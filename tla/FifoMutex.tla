----------------------------- MODULE FifoMutex -----------------------------
(***************************************************************************)
(* What the SThread mutex promises to clients that lock, nest, and unlock  *)
(* what they locked: a recursive mutex that is handed over in the order in *)
(* which the lock calls entered the queue.  There is no spinlock, no ring  *)
(* buffer and no wake-up message here; SThreadMutexRefines shows that      *)
(* sync.c implements it.                                                   *)
(***************************************************************************)
EXTENDS Naturals, Sequences

CONSTANTS Threads, MaxDepth

VARIABLES
    queue,    \* the owner, then the threads that wait, oldest first
    depth,    \* how many levels of the mutex each thread holds
    leaving   \* the thread that has given up its last level, if any

fifoVars == <<queue, depth, leaving>>

FifoInit ==
    /\ queue = <<>>
    /\ depth = [t \in Threads |-> 0]
    /\ leaving = {}

\* A lock call finds the mutex free.
Acquire(t) ==
    /\ queue = <<>>
    /\ queue' = <<t>>
    /\ depth' = [depth EXCEPT ![t] = 1]
    /\ UNCHANGED leaving

\* A lock call finds another thread before it.
Enqueue(t) ==
    /\ queue # <<>>
    /\ \A i \in DOMAIN queue : queue[i] # t
    /\ queue' = Append(queue, t)
    /\ UNCHANGED <<depth, leaving>>

\* The oldest waiting thread gets the mutex.
Grant(t) ==
    /\ queue # <<>>
    /\ Head(queue) = t
    /\ depth[t] = 0
    /\ leaving = {}
    /\ depth' = [depth EXCEPT ![t] = 1]
    /\ UNCHANGED <<queue, leaving>>

Nest(t) ==
    /\ depth[t] \in 1 .. MaxDepth - 1
    /\ depth' = [depth EXCEPT ![t] = @ + 1]
    /\ UNCHANGED <<queue, leaving>>

Unnest(t) ==
    /\ depth[t] > 1
    /\ depth' = [depth EXCEPT ![t] = @ - 1]
    /\ UNCHANGED <<queue, leaving>>

\* The client gives up its last level; the mutex is not free yet.
Leave(t) ==
    /\ depth[t] = 1
    /\ depth' = [depth EXCEPT ![t] = 0]
    /\ leaving' = {t}
    /\ UNCHANGED queue

HandOver(t) ==
    /\ t \in leaving
    /\ queue' = Tail(queue)
    /\ leaving' = {}
    /\ UNCHANGED depth

FifoNext ==
    \E t \in Threads : \/ Acquire(t) \/ Enqueue(t) \/ Grant(t) \/ Nest(t)
                       \/ Unnest(t) \/ Leave(t) \/ HandOver(t)

\* The mutex does its part: it hands over, and grants to the next in line.
FifoSpec ==
    /\ FifoInit
    /\ [][FifoNext]_fifoVars
    /\ \A t \in Threads : WF_fifoVars(Grant(t)) /\ WF_fifoVars(HandOver(t))

=============================================================================
