------------------------ MODULE SThreadMutexRefines ------------------------
(***************************************************************************)
(* sync.c implements FifoMutex.  The abstract queue is read off the ring   *)
(* buffer; a thread is leaving from the call of its outermost unlock until *)
(* the pop.                                                                *)
(***************************************************************************)
EXTENDS SThreadMutex

FifoQueue == [i \in 1 .. Q.size |-> Q.member[Index(Q, i)].ptr_thread]

Leaving == {t \in Threads : depth[t] = 0 /\ pc[t] \in {"unlock_spin", "unlock_q"}}

Fifo == INSTANCE FifoMutex WITH queue <- FifoQueue, leaving <- Leaving

\* Disciplined use of sthread_mutex_lock and sthread_mutex_unlock implements
\* the FIFO recursive mutex, its handing-over fairness included.
ImplementsFifo == Fifo!FifoSpec

\* The part of it that says what the mutex never does.
ImplementsFifoSafety == Fifo!FifoInit /\ [][Fifo!FifoNext]_(Fifo!fifoVars)

=============================================================================
