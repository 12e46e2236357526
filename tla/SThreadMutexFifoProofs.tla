----------------------- MODULE SThreadMutexFifoProofs -----------------------
(***************************************************************************)
(* The SThread mutex implements FifoMutex step by step, nobody is          *)
(* overtaken in its queue, and with room for every thread in the ring      *)
(* buffer nobody sleeps outside it.  All three rest on MutexInv.           *)
(***************************************************************************)
EXTENDS SThreadMutexProofs, Sequences, FiniteSetTheorems

-----------------------------------------------------------------------------
(* The abstract state.                                                     *)

\* A thread that is about to nest has not reached the client's bound.
DepthInv ==
    \A t \in Threads : pc[t] \in {"lock_spin", "lock_q"} => depth[t] < MaxDepth

\* The abstract queue is the line of threads.
QueueIsLine ==
    /\ FifoQueue = [i \in 1 .. Q.size |-> Line[i].ptr_thread]
    /\ Q.size \in 0 .. MAX_Q_SIZE
    /\ FifoQueue \in Seq(Threads)
    /\ Len(FifoQueue) = Q.size
    /\ \A i \in 1 .. Q.size : Line[i].ptr_thread \in Threads

\* The ring buffer, read from the front, is the abstract queue.
LEMMA LineFacts == MutexInv => QueueIsLine
<1> SUFFICES ASSUME MutexInv PROVE QueueIsLine
  OBVIOUS
<1>1. TypeOK /\ RingOK /\ LineInv
  BY RingFacts DEF MutexInv
<1>2. Q.size \in 0 .. MAX_Q_SIZE /\ MAX_Q_SIZE \in Nat
  BY <1>1, MutexConstants DEF TypeOK
<1>3. \A i \in 1 .. Q.size : i \in 1 .. MAX_Q_SIZE
  BY <1>2
<1>4. \A i \in 1 .. Q.size : Q.member[Index(Q, i)].ptr_thread = Line[i].ptr_thread
  BY <1>1, <1>3, LineIndex
<1>5. FifoQueue = [i \in 1 .. Q.size |-> Line[i].ptr_thread]
  BY <1>4 DEF FifoQueue
<1>6. \A i \in 1 .. Q.size : Line[i].ptr_thread \in Threads
  BY <1>1 DEF LineInv
<1>7. FifoQueue \in Seq(Threads) /\ Len(FifoQueue) = Q.size
  BY <1>2, <1>5, <1>6
<1> QED
  BY <1>2, <1>5, <1>6, <1>7 DEF QueueIsLine

\* The same after a step.
LEMMA LineFactsNext == MutexInv' => QueueIsLine'
  BY LineFacts, PTL

\* Only the owner is leaving.
LEMMA LeaverOwns ==
    ASSUME MutexInv, NEW t \in Leaving
    PROVE  Q.size > 0 /\ Line[1].ptr_thread = t /\ t \in Threads
  BY DEF MutexInv, OwnerInv, Owns, Leaving

-----------------------------------------------------------------------------
(* Each step of the library is a step of FifoMutex, or none.               *)

\* No abstract variable changes.
LEMMA FifoStutter ==
    ASSUME FifoQueue' = FifoQueue, Leaving' = Leaving, depth' = depth
    PROVE  UNCHANGED Fifo!fifoVars
  BY DEF Fifo!fifoVars

\* If the ring buffer is left alone, or only the first count changes, so is
\* the abstract queue.
LEMMA QueueSame ==
    ASSUME MutexInv, MutexInv', Q'.size = Q.size,
           \A i \in 1 .. Q.size : Line'[i].ptr_thread = Line[i].ptr_thread
    PROVE  FifoQueue' = FifoQueue
<1>1. QueueIsLine /\ QueueIsLine'
  BY LineFacts, LineFactsNext
<1>2. FifoQueue' = [i \in 1 .. Q.size |-> Line'[i].ptr_thread]
  BY <1>1 DEF QueueIsLine
<1> QED
  BY <1>1, <1>2 DEF QueueIsLine

\* Calls, the spin, the wake-up message and the release are invisible.
LEMMA QuietFifo ==
    ASSUME MutexInv, MutexInv', NEW t \in Threads,
           LockCall(t) \/ TestAndSet(t) \/ UnlockWake(t) \/ UnlockRelease(t)
    PROVE  UNCHANGED Fifo!fifoVars
<1>1. Q' = Q /\ depth' = depth
  BY DEF LockCall, TestAndSet, UnlockWake, UnlockRelease
<1>2. FifoQueue' = FifoQueue
  BY <1>1 DEF FifoQueue
<1>3. TypeOK
  BY DEF MutexInv
<1>4. Leaving' = Leaving
  <2>1. CASE TestAndSet(t)
    BY <1>1, <1>3, <2>1, SpinFacts DEF TestAndSet, Goto, Leaving, TypeOK
  <2>2. CASE LockCall(t) \/ UnlockWake(t) \/ UnlockRelease(t)
    BY <1>1, <1>3, <2>2 DEF LockCall, UnlockWake, UnlockRelease, Goto, Leaving, TypeOK
  <2> QED
    BY <2>1, <2>2
<1> QED
  BY <1>1, <1>2, <1>4, FifoStutter

\* A nested unlock is over for the client when it is called.
LEMMA UnlockNestedFifo ==
    ASSUME MutexInv, MutexInv', NEW t \in Threads, UnlockNested(t)
    PROVE  UNCHANGED Fifo!fifoVars
<1>1. TypeOK /\ RingInv /\ RingOK /\ OwnerInv
  BY RingFacts DEF MutexInv
<1>2. /\ pc[t] = "unlock_q" /\ Q.size > 0 /\ Q.size \in Nat
      /\ Q' = AddCount(Q, -1) /\ Line[1].count > 1
      /\ pc' = [pc EXCEPT ![t] = "client"] /\ depth' = depth
  BY <1>1, LineIndex, MutexConstants DEF UnlockNested, Goto, Q_empty, TypeOK
<1>3. Line[1].count = depth[t] + 1 /\ depth[t] \in Nat
  BY <1>1, <1>2 DEF OwnerInv, Unlocking, TypeOK
<1>4. depth[t] # 0
  BY <1>2, <1>3
<1>5. Leaving' = Leaving
  BY <1>1, <1>2, <1>4 DEF Leaving, TypeOK
<1>6. /\ Q'.size = Q.size
      /\ Line'[1].ptr_thread = Line[1].ptr_thread
      /\ \A i \in 2 .. Q.size : Line'[i] = Line[i]
  BY <1>1, <1>2, CountLine
<1>7. \A i \in 1 .. Q.size : i = 1 \/ i \in 2 .. Q.size
  BY <1>2
<1>8. FifoQueue' = FifoQueue
  BY <1>6, <1>7, QueueSame
<1> QED
  BY <1>2, <1>5, <1>8, FifoStutter

\* lock of a free mutex.
LEMMA LockFreeFifo ==
    ASSUME MutexInv, MutexInv', NEW t \in Threads, LockFree(t)
    PROVE  Fifo!Acquire(t)
<1>1. TypeOK /\ RingOK /\ OwnerInv
  BY RingFacts DEF MutexInv
<1>2. /\ pc[t] = "lock_q" /\ Q.size = 0 /\ Q' = Q_push(Q, t)
      /\ pc' = [pc EXCEPT ![t] = "client"]
      /\ depth' = [depth EXCEPT ![t] = depth[t] + 1]
  BY DEF LockFree, Goto, Q_empty
<1>3. Q'.size = 1 /\ Line'[1] = [ptr_thread |-> t, count |-> 1]
  <2>1. Q.size < MAX_Q_SIZE
    BY <1>2, MutexConstants
  <2> QED
    BY <1>1, <1>2, <2>1, PushLine
<1>4. QueueIsLine /\ QueueIsLine'
  BY LineFacts, LineFactsNext
<1>5. FifoQueue = << >>
  BY <1>2, <1>4 DEF QueueIsLine
<1>6. FifoQueue' = <<t>>
  BY <1>3, <1>4 DEF QueueIsLine
<1>7. \A u \in Threads : depth[u] = 0 /\ pc[u] \notin {"unlock_spin", "unlock_q"}
  BY <1>1, <1>2 DEF OwnerInv, Owns, TypeOK
<1>8. depth' = [depth EXCEPT ![t] = 1]
  <2>1. depth[t] + 1 = 1
    BY <1>7
  <2> QED
    BY <1>2, <2>1
<1>9. Leaving' = Leaving
  BY <1>1, <1>2, <1>7 DEF Leaving, TypeOK
<1> QED
  BY <1>5, <1>6, <1>8, <1>9 DEF Fifo!Acquire

\* lock by the owner.
LEMMA LockAgainFifo ==
    ASSUME MutexInv, MutexInv', DepthInv, NEW t \in Threads, LockAgain(t)
    PROVE  Fifo!Nest(t)
<1>1. TypeOK /\ RingOK /\ ServedInv /\ TokenInv /\ SpinInv
  BY RingFacts DEF MutexInv
<1>2. /\ pc[t] = "lock_q" /\ Q.size > 0 /\ Q.size \in Nat
      /\ Q' = AddCount(Q, 1) /\ Line[1].ptr_thread = t
      /\ pc' = [pc EXCEPT ![t] = "client"]
      /\ depth' = [depth EXCEPT ![t] = depth[t] + 1]
  BY <1>1, LineIndex, MutexConstants DEF LockAgain, Goto, Q_empty, TypeOK
<1>3. depth[t] \in Nat /\ depth[t] < MaxDepth
  BY <1>1, <1>2 DEF DepthInv, TypeOK
<1>4. \A u \in Threads : pc[u] # "unlock_wake"
  BY <1>1, <1>2 DEF SpinInv, InSection
<1>5. depth[t] > 0
  <2>1. pipe[t] = 0
    BY <1>1, <1>2 DEF TokenInv
  <2> QED
    BY <1>1, <1>2, <1>4, <2>1 DEF ServedInv, Owns
<1>6. depth[t] \in 1 .. MaxDepth - 1
  BY <1>3, <1>5, MutexConstants
<1>7. Leaving' = Leaving
  BY <1>1, <1>2, <1>3, <1>5 DEF Leaving, TypeOK
<1>8. /\ Q'.size = Q.size
      /\ Line'[1].ptr_thread = Line[1].ptr_thread
      /\ \A i \in 2 .. Q.size : Line'[i] = Line[i]
  BY <1>1, <1>2, CountLine
<1>9. \A i \in 1 .. Q.size : i = 1 \/ i \in 2 .. Q.size
  BY <1>2
<1>10. FifoQueue' = FifoQueue
  BY <1>8, <1>9, QueueSame
<1> QED
  BY <1>2, <1>6, <1>7, <1>10 DEF Fifo!Nest

\* lock of a mutex that somebody else has: the caller joins the queue, or is
\* dropped from a full one, which FifoMutex does not see.
LEMMA LockBusyFifo ==
    ASSUME MutexInv, MutexInv', NEW t \in Threads, LockBusy(t)
    PROVE  Fifo!Enqueue(t) \/ UNCHANGED Fifo!fifoVars
<1>1. TypeOK /\ RingOK /\ LineInv
  BY RingFacts DEF MutexInv
<1>2. /\ pc[t] = "lock_q" /\ Q.size > 0 /\ Q.size \in 1 .. MAX_Q_SIZE
      /\ Q' = Q_push(Q, t) /\ Line[1].ptr_thread # t
      /\ pc' = [pc EXCEPT ![t] = "suspended"] /\ depth' = depth
      /\ MAX_Q_SIZE \in Nat
  BY <1>1, LineIndex, MutexConstants DEF LockBusy, Goto, Q_empty, TypeOK
<1>3. QueueIsLine /\ QueueIsLine'
  BY LineFacts, LineFactsNext
<1>4. Leaving' = Leaving
  BY <1>1, <1>2 DEF Leaving, TypeOK
<1>5. CASE Q.size >= MAX_Q_SIZE
  <2>1. Q' = Q
    BY <1>2, <1>5 DEF Q_push
  <2>2. FifoQueue' = FifoQueue
    BY <2>1 DEF FifoQueue
  <2> QED
    BY <1>2, <1>4, <2>2, FifoStutter
<1>6. CASE ~(Q.size >= MAX_Q_SIZE)
  <2>1. Q.size < MAX_Q_SIZE
    BY <1>2, <1>6
  <2>2. /\ Q'.size = Q.size + 1
        /\ \A i \in 1 .. Q.size : Line'[i] = Line[i]
        /\ Line'[Q.size + 1].ptr_thread = t
    <3>1. /\ Q'.size = Q.size + 1
          /\ \A i \in 1 .. Q.size : Line'[i] = Line[i]
          /\ Line'[Q.size + 1] = [ptr_thread |-> t, count |-> 1]
      BY <1>1, <1>2, <2>1, PushLine
    <3> QED
      BY <3>1
  <2>3. FifoQueue # << >>
    BY <1>2, <1>3 DEF QueueIsLine
  <2>4. \A i \in 1 .. Q.size : Line[i].ptr_thread # t
    <3>1. \A i \in 1 .. Q.size : i = 1 \/ i \in 2 .. Q.size
      BY <1>2
    <3> QED
      BY <3>1, <1>1, <1>2 DEF LineInv
  <2>5. \A i \in DOMAIN FifoQueue : FifoQueue[i] # t
    BY <1>3, <2>4 DEF QueueIsLine
  <2>6. FifoQueue' = Append(FifoQueue, t)
    <3>1. DOMAIN FifoQueue' = 1 .. Q.size + 1
      BY <1>3, <2>2 DEF QueueIsLine
    <3>2. Append(FifoQueue, t) \in Seq(Threads) /\ Len(Append(FifoQueue, t)) = Q.size + 1
      BY <1>3 DEF QueueIsLine
    <3>3. ASSUME NEW i \in 1 .. Q.size
          PROVE  FifoQueue'[i] = Append(FifoQueue, t)[i]
      <4>1. FifoQueue'[i] = Line[i].ptr_thread
        BY <1>2, <1>3, <2>2 DEF QueueIsLine
      <4>2. Append(FifoQueue, t)[i] = FifoQueue[i]
        BY <1>3 DEF QueueIsLine
      <4> QED
        BY <1>3, <4>1, <4>2 DEF QueueIsLine
    <3>4. FifoQueue'[Q.size + 1] = t /\ Append(FifoQueue, t)[Q.size + 1] = t
      BY <1>2, <1>3, <2>2 DEF QueueIsLine
    <3>5. \A i \in 1 .. Q.size + 1 : i \in 1 .. Q.size \/ i = Q.size + 1
      BY <1>2
    <3> QED
      BY <1>3, <2>2, <3>1, <3>2, <3>3, <3>4, <3>5 DEF QueueIsLine
  <2> QED
    BY <1>2, <1>4, <2>3, <2>5, <2>6 DEF Fifo!Enqueue
<1> QED
  BY <1>5, <1>6

\* The sleeper reads its message: it is first and nobody is leaving.
LEMMA ResumeFifo ==
    ASSUME MutexInv, MutexInv', NEW t \in Threads, Resume(t)
    PROVE  Fifo!Grant(t)
<1>1. TypeOK /\ TokenInv /\ IdleInv /\ LineInv
  BY DEF MutexInv
<1>2. /\ pc[t] = "suspended" /\ pipe[t] # 0 /\ Q' = Q
      /\ pc' = [pc EXCEPT ![t] = "client"]
      /\ depth' = [depth EXCEPT ![t] = depth[t] + 1]
  BY <1>1 DEF Resume, Goto, TypeOK
<1>3. Q.size > 0 /\ Line[1].ptr_thread = t /\ depth[t] = 0
  BY <1>1, <1>2 DEF TokenInv, IdleInv
<1>4. QueueIsLine
  BY LineFacts
<1>5. FifoQueue # << >> /\ Head(FifoQueue) = t
  BY <1>3, <1>4 DEF QueueIsLine
<1>6. Leaving = {}
  <2>1. \A u \in Leaving : u = t
    BY <1>3, LeaverOwns
  <2>2. t \notin Leaving
    BY <1>2 DEF Leaving
  <2> QED
    BY <2>1, <2>2
<1>7. depth' = [depth EXCEPT ![t] = 1]
  BY <1>2, <1>3
<1>8. Leaving' = Leaving
  BY <1>1, <1>2, <1>3 DEF Leaving, TypeOK
<1>9. FifoQueue' = FifoQueue
  BY <1>2 DEF FifoQueue
<1> QED
  BY <1>3, <1>5, <1>6, <1>7, <1>8, <1>9 DEF Fifo!Grant

\* The call of unlock gives up a level; the last one is the leave.
LEMMA UnlockCallFifo ==
    ASSUME MutexInv, MutexInv', NEW t \in Threads, UnlockCall(t)
    PROVE  Fifo!Unnest(t) \/ Fifo!Leave(t)
<1>1. TypeOK /\ OwnerInv
  BY DEF MutexInv
<1>2. /\ pc[t] = "client" /\ depth[t] > 0 /\ depth[t] \in Nat /\ Q' = Q
      /\ pc' = [pc EXCEPT ![t] = "unlock_spin"]
      /\ depth' = [depth EXCEPT ![t] = depth[t] - 1]
  BY <1>1 DEF UnlockCall, Goto, TypeOK
<1>3. FifoQueue' = FifoQueue
  BY <1>2 DEF FifoQueue
<1>4. \A u \in Threads : u # t => depth[u] = 0 /\ u \notin Leaving
  <2>1. Line[1].ptr_thread = t
    BY <1>1, <1>2 DEF OwnerInv, Owns
  <2>2. \A u \in Threads : u # t => ~Owns(u)
    BY <1>1, <2>1 DEF OwnerInv
  <2> QED
    BY <1>1, <2>2 DEF Owns, Leaving, TypeOK
<1>5. CASE depth[t] > 1
  <2>1. Leaving' = Leaving
    BY <1>1, <1>2, <1>5 DEF Leaving, TypeOK
  <2> QED
    BY <1>2, <1>3, <1>5, <2>1 DEF Fifo!Unnest
<1>6. CASE ~(depth[t] > 1)
  <2>1. depth[t] = 1
    BY <1>2, <1>6
  <2>2. Leaving' = {t}
    <3>1. t \in Leaving'
      BY <1>1, <1>2, <2>1 DEF Leaving, TypeOK
    <3>2. \A u \in Threads : u # t => u \notin Leaving'
      BY <1>1, <1>2, <1>4 DEF Leaving, TypeOK
    <3>3. Leaving' \subseteq Threads
      BY DEF Leaving
    <3> QED
      BY <3>1, <3>2, <3>3
  <2>3. depth' = [depth EXCEPT ![t] = 0]
    BY <1>2, <2>1
  <2> QED
    BY <1>3, <2>1, <2>2, <2>3 DEF Fifo!Leave
<1> QED
  BY <1>5, <1>6

\* The pop hands the mutex to the next in line.
LEMMA UnlockLastFifo ==
    ASSUME MutexInv, MutexInv', NEW t \in Threads, UnlockLast(t)
    PROVE  Fifo!HandOver(t)
<1>1. TypeOK /\ RingOK /\ OwnerInv
  BY RingFacts DEF MutexInv
<1>2. /\ pc[t] = "unlock_q" /\ Q.size > 0 /\ Q.size \in Nat /\ Q' = Q_pop(Q)
      /\ Line[1].count = 1 /\ Line[1].ptr_thread = t
      /\ pc' \in {[pc EXCEPT ![t] = "unlock_rel"], [pc EXCEPT ![t] = "unlock_wake"]}
      /\ depth' = depth
  <2>1. Q_first(Q) = Line[1] /\ Q.size \in Nat
    BY <1>1, LineIndex, MutexConstants DEF TypeOK
  <2>2. pc' = [pc EXCEPT ![t] = IF Q_empty(Q') THEN "unlock_rel" ELSE "unlock_wake"]
    BY DEF UnlockLast, Goto
  <2>3. pc' \in {[pc EXCEPT ![t] = "unlock_rel"], [pc EXCEPT ![t] = "unlock_wake"]}
    BY <2>2
  <2> QED
    BY <2>1, <2>3 DEF UnlockLast, Q_empty
<1>3. depth[t] = 0
  BY <1>1, <1>2 DEF OwnerInv, Unlocking, TypeOK
<1>4. t \in Leaving
  BY <1>2, <1>3 DEF Leaving
<1>5. Leaving' = {}
  <2>1. \A u \in Leaving : u = t
    BY <1>2, LeaverOwns
  <2>2. t \notin Leaving'
    BY <1>1, <1>2 DEF Leaving, TypeOK
  <2>3. Leaving' \subseteq Leaving
    BY <1>1, <1>2 DEF Leaving, TypeOK
  <2> QED
    BY <2>1, <2>2, <2>3
<1>6. QueueIsLine /\ QueueIsLine'
  BY LineFacts, LineFactsNext
<1>7. Q'.size = Q.size - 1 /\ \A i \in 1 .. Q.size - 1 : Line'[i] = Line[i + 1]
  BY <1>1, <1>2, PopLine
<1>8. FifoQueue' = Tail(FifoQueue)
  <2>1. FifoQueue # << >>
    BY <1>2, <1>6 DEF QueueIsLine
  <2>2. Tail(FifoQueue) = [i \in 1 .. Q.size - 1 |-> FifoQueue[i + 1]]
    BY <1>6, <2>1 DEF QueueIsLine
  <2>3. \A i \in 1 .. Q.size - 1 : FifoQueue[i + 1] = Line[i + 1].ptr_thread
    BY <1>2, <1>6 DEF QueueIsLine
  <2>4. FifoQueue' = [i \in 1 .. Q.size - 1 |-> Line'[i].ptr_thread]
    BY <1>6, <1>7 DEF QueueIsLine
  <2> QED
    BY <1>7, <2>2, <2>3, <2>4
<1> QED
  BY <1>2, <1>4, <1>5, <1>8 DEF Fifo!HandOver

\* The client's bound on nesting still holds when the lock call gets the queue.
LEMMA DepthInvStep ==
    ASSUME TypeOK, DepthInv, [Next]_vars
    PROVE  DepthInv'
<1> USE DEF DepthInv, TypeOK, Goto
<1>1. CASE UNCHANGED vars
  BY <1>1 DEF vars
<1>2. ASSUME NEW t \in Threads, TestAndSet(t) PROVE DepthInv'
  BY <1>2, SpinFacts DEF TestAndSet
<1>3. ASSUME NEW t \in Threads,
             LockCall(t) \/ UnlockWake(t) \/ UnlockRelease(t) \/ LockBusy(t)
      PROVE  DepthInv'
  BY <1>3 DEF LockCall, UnlockWake, UnlockRelease, LockBusy
<1>4. ASSUME NEW t \in Threads, LockFree(t) \/ LockAgain(t) \/ Resume(t) \/ UnlockCall(t)
      PROVE  DepthInv'
  BY <1>4 DEF LockFree, LockAgain, Resume, UnlockCall
<1>5. ASSUME NEW t \in Threads, UnlockLast(t) \/ UnlockNested(t)
      PROVE  DepthInv'
  BY <1>5 DEF UnlockLast, UnlockNested
<1> QED
  BY <1>1, <1>2, <1>3, <1>4, <1>5 DEF Next, LibraryStep

\* Every step of the library is a step of the FIFO mutex, or none.
LEMMA FifoStep ==
    ASSUME MutexInv, MutexInv', DepthInv, [Next]_vars
    PROVE  [Fifo!FifoNext]_(Fifo!fifoVars)
<1>1. CASE UNCHANGED vars
  <2>1. FifoQueue' = FifoQueue /\ Leaving' = Leaving /\ depth' = depth
    BY <1>1 DEF vars, FifoQueue, Leaving
  <2> QED
    BY <2>1, FifoStutter
<1>2. ASSUME NEW t \in Threads, LibraryStep(t) \/ LockCall(t) \/ UnlockCall(t)
      PROVE  [Fifo!FifoNext]_(Fifo!fifoVars)
  <2>1. CASE LockCall(t) \/ TestAndSet(t) \/ UnlockWake(t) \/ UnlockRelease(t)
    BY <2>1, QuietFifo
  <2>2. CASE UnlockNested(t)
    BY <2>2, UnlockNestedFifo
  <2>3. CASE LockFree(t)
    BY <2>3, LockFreeFifo DEF Fifo!FifoNext
  <2>4. CASE LockAgain(t)
    BY <2>4, LockAgainFifo DEF Fifo!FifoNext
  <2>5. CASE LockBusy(t)
    BY <2>5, LockBusyFifo DEF Fifo!FifoNext
  <2>6. CASE Resume(t)
    BY <2>6, ResumeFifo DEF Fifo!FifoNext
  <2>7. CASE UnlockCall(t)
    BY <2>7, UnlockCallFifo DEF Fifo!FifoNext
  <2>8. CASE UnlockLast(t)
    BY <2>8, UnlockLastFifo DEF Fifo!FifoNext
  <2> QED
    BY <1>2, <2>1, <2>2, <2>3, <2>4, <2>5, <2>6, <2>7, <2>8 DEF LibraryStep
<1> QED
  BY <1>1, <1>2 DEF Next

\* sync.c implements the FIFO recursive mutex: whatever threads do through
\* lock and unlock, queueing and handing over happen as FifoMutex allows.
THEOREM FifoImplemented == Spec => ImplementsFifoSafety
<1>1. Init => Fifo!FifoInit
  <2> SUFFICES ASSUME Init PROVE Fifo!FifoInit
    OBVIOUS
  <2>1. FifoQueue = << >>
    BY DEF FifoQueue, Init, Q_init
  <2>2. Leaving = {}
    BY DEF Leaving, Init
  <2> QED
    BY <2>1, <2>2 DEF Fifo!FifoInit, Init
<1>2. Init => DepthInv
  BY DEF Init, DepthInv
<1>3. MutexInv /\ DepthInv /\ [Next]_vars => DepthInv'
  BY DepthInvStep DEF MutexInv
<1>4. MutexInv /\ MutexInv' /\ DepthInv /\ [Next]_vars
        => [Fifo!FifoNext]_(Fifo!fifoVars)
  BY FifoStep
<1> QED
  BY <1>1, <1>2, <1>3, <1>4, MutexCorrect, PTL DEF Spec, ImplementsFifoSafety

-----------------------------------------------------------------------------
(* Nobody is overtaken.                                                    *)

\* What the queue looks like to a thread in slot i, before and after a step.
KeepsPlace ==
    \A i \in 1 .. Q.size :
        \/ /\ Q'.head = Q.head
           /\ Q'.member[Index(Q, i)].ptr_thread = Q.member[Index(Q, i)].ptr_thread
        \/ /\ Q'.head # Q.head
           /\ i > 1 => Q'.member[Index(Q', i - 1)].ptr_thread
                         = Q.member[Index(Q, i)].ptr_thread

\* Every slot that is part of the line is inside the ring buffer.
MemberIsLine ==
    \A i \in 1 .. Q.size : Q.member[Index(Q, i)].ptr_thread = Line[i].ptr_thread

\* The invariant says so.
LEMMA MemberFacts == MutexInv => MemberIsLine
<1> SUFFICES ASSUME MutexInv PROVE MemberIsLine
  OBVIOUS
<1>1. TypeOK /\ RingOK
  BY RingFacts DEF MutexInv
<1>2. \A i \in 1 .. Q.size : i \in 1 .. MAX_Q_SIZE
  BY <1>1, MutexConstants DEF TypeOK
<1> QED
  BY <1>1, <1>2, LineIndex DEF MemberIsLine

\* The same after a step.
LEMMA MemberFactsNext == MutexInv' => MemberIsLine'
  BY MemberFacts, PTL

\* A step that keeps head and the line's threads keeps everybody's place.
LEMMA PlaceKept ==
    ASSUME MutexInv, MutexInv', Q'.head = Q.head, Q'.size >= Q.size,
           \A i \in 1 .. Q.size : Line'[i].ptr_thread = Line[i].ptr_thread
    PROVE  KeepsPlace
<1>1. MemberIsLine /\ MemberIsLine'
  BY MemberFacts, MemberFactsNext
<1>2. Q.size \in Int /\ Q'.size \in Int
  BY DEF MutexInv, TypeOK
<1>3. \A i \in 1 .. Q.size : i \in 1 .. Q'.size /\ Index(Q', i) = Index(Q, i)
  BY <1>2 DEF Index
<1> QED
  BY <1>1, <1>3 DEF KeepsPlace, MemberIsLine

\* Every step of lock and unlock keeps everybody's place.
LEMMA KeepsPlaceStep ==
    ASSUME MutexInv, MutexInv', [Next]_vars
    PROVE  KeepsPlace
<1>1. TypeOK /\ RingOK /\ Q.size \in 0 .. MAX_Q_SIZE /\ Q'.size \in 0 .. MAX_Q_SIZE
      /\ MAX_Q_SIZE \in Nat
  BY RingFacts, MutexConstants DEF MutexInv, TypeOK
<1>2. CASE Q' = Q
  BY <1>2 DEF KeepsPlace
<1>3. ASSUME NEW t \in Threads, Q' = Q_push(Q, t) PROVE KeepsPlace
  <2>1. CASE Q.size >= MAX_Q_SIZE
    BY <1>2, <1>3, <2>1 DEF Q_push
  <2>2. CASE ~(Q.size >= MAX_Q_SIZE)
    <3>1. Q.size < MAX_Q_SIZE
      BY <1>1, <2>2
    <3>2. /\ Q'.head = Q.head /\ Q'.size = Q.size + 1
          /\ \A i \in 1 .. Q.size : Line'[i] = Line[i]
      BY <1>1, <1>3, <3>1, PushLine
    <3>3. Q'.size >= Q.size
      BY <1>1, <3>2
    <3> QED
      BY <3>2, <3>3, PlaceKept
  <2> QED
    BY <2>1, <2>2
<1>4. ASSUME NEW d \in {-1, 1}, Q' = AddCount(Q, d), Q.size > 0 PROVE KeepsPlace
  <2>1. /\ Q'.size = Q.size /\ Q'.head = Q.head
        /\ Line'[1].ptr_thread = Line[1].ptr_thread
        /\ \A i \in 2 .. Q.size : Line'[i] = Line[i]
    BY <1>1, <1>4, CountLine
  <2>2. \A i \in 1 .. Q.size : i = 1 \/ i \in 2 .. Q.size
    BY <1>1
  <2>3. Q'.size >= Q.size
    BY <1>1, <2>1
  <2> QED
    BY <2>1, <2>2, <2>3, PlaceKept
<1>5. ASSUME Q' = Q_pop(Q), Q.size > 0 PROVE KeepsPlace
  <2>1. /\ Q'.size = Q.size - 1 /\ Q'.member = Q.member
        /\ \A i \in 1 .. Q.size - 1 : Line'[i] = Line[i + 1]
    BY <1>1, <1>5, PopLine
  <2>2. CASE Q'.head = Q.head
    BY <2>1, <2>2 DEF KeepsPlace
  <2>3. CASE Q'.head # Q.head
    <3>1. MemberIsLine /\ MemberIsLine'
      BY MemberFacts, MemberFactsNext
    <3>2. ASSUME NEW i \in 1 .. Q.size, i > 1
          PROVE  Q'.member[Index(Q', i - 1)].ptr_thread
                   = Q.member[Index(Q, i)].ptr_thread
      <4>1. i - 1 \in 1 .. Q'.size /\ i - 1 \in 1 .. Q.size - 1 /\ (i - 1) + 1 = i
        BY <1>1, <2>1, <3>2
      <4>2. Q'.member[Index(Q', i - 1)].ptr_thread = Line'[i - 1].ptr_thread
        BY <3>1, <4>1 DEF MemberIsLine
      <4>3. Line'[i - 1] = Line[i]
        BY <2>1, <4>1
      <4> QED
        BY <3>1, <4>2, <4>3 DEF MemberIsLine
    <3> QED
      BY <2>3, <3>2 DEF KeepsPlace
  <2> QED
    BY <2>2, <2>3
<1>6. CASE UNCHANGED vars
  BY <1>2, <1>6 DEF vars
<1>7. ASSUME NEW t \in Threads, LibraryStep(t) \/ LockCall(t) \/ UnlockCall(t)
      PROVE  \/ Q' = Q \/ Q' = Q_push(Q, t)
             \/ Q.size > 0 /\ Q' = AddCount(Q, 1)
             \/ Q.size > 0 /\ Q' = AddCount(Q, -1)
             \/ Q.size > 0 /\ Q' = Q_pop(Q)
  <2>1. Q.size # 0 => Q.size > 0
    BY <1>1
  <2> QED
    BY <1>7, <2>1 DEF LibraryStep, LockCall, UnlockCall, TestAndSet, LockFree, LockAgain,
       LockBusy, Resume, UnlockLast, UnlockWake, UnlockRelease, UnlockNested, Q_empty
<1> QED
  BY <1>2, <1>3, <1>4, <1>5, <1>6, <1>7 DEF Next

\* Threads get the mutex in the order in which they were queued: no step of
\* lock or unlock takes anybody but the first out of the queue, or puts
\* anybody before a thread that waits.
THEOREM NobodyOvertakes == Spec => NoOvertaking
<1>1. MutexInv /\ MutexInv' /\ [Next]_vars => [KeepsPlace]_vars
  BY KeepsPlaceStep
<1>2. ASSUME [][KeepsPlace]_vars PROVE NoOvertaking
  BY <1>2 DEF NoOvertaking, KeepsPlace
<1> QED
  BY <1>1, <1>2, MutexCorrect, PTL DEF Spec

-----------------------------------------------------------------------------
(* Nobody sleeps outside the queue, if the ring buffer has room for all.   *)

\* A sleeping thread has a slot in the line.
WaitInv ==
    \A t \in Threads : pc[t] = "suspended" =>
        \E i \in 1 .. Q.size : Line[i].ptr_thread = t

\* The first n slots are n.
LEMMA IntervalSize ==
    ASSUME NEW n \in Nat
    PROVE  IsFiniteSet(1 .. n) /\ Cardinality(1 .. n) = n
<1>1. 1 \in Int /\ n \in Int
  OBVIOUS
<1>2. IsFiniteSet(1 .. n) /\ Cardinality(1 .. n) = IF 1 > n THEN 0 ELSE n - 1 + 1
  BY <1>1, FS_Interval, Zenon
<1> QED
  BY <1>2

\* The line never fills the ring buffer while a thread outside it wants in:
\* its slots hold different threads.
LEMMA RoomInLine ==
    ASSUME IsFiniteSet(Threads), Cardinality(Threads) =< MAX_Q_SIZE, MutexInv,
           NEW t \in Threads, \A i \in 1 .. Q.size : Line[i].ptr_thread # t
    PROVE  Q.size < MAX_Q_SIZE
<1> DEFINE S == Threads \ {t}
           f == [i \in 1 .. Q.size |-> Line[i].ptr_thread]
<1>1. Q.size \in Nat /\ MAX_Q_SIZE \in Nat /\ LineInv
  BY MutexConstants DEF MutexInv, TypeOK
<1>2. IsFiniteSet(S) /\ Cardinality(S) = Cardinality(Threads) - 1
      /\ Cardinality(Threads) \in Nat
  BY FS_RemoveElement, FS_CardinalityType
<1>3. f \in [1 .. Q.size -> S]
  BY <1>1 DEF LineInv
<1>4. \A i, j \in 1 .. Q.size : f[i] = f[j] => i = j
  BY <1>1 DEF LineInv
<1> DEFINE D == 1 .. Q.size
<1> HIDE DEF S, f
<1>5. IsFiniteSet(D) /\ Cardinality(D) = Q.size
  BY <1>1, IntervalSize
<1>6. f \in [D -> S] /\ \A i, j \in D : f[i] = f[j] => i = j
  BY <1>3, <1>4
<1> HIDE DEF D
<1>7. ~(Cardinality(S) < Cardinality(D))
  <2> SUFFICES ASSUME Cardinality(S) < Cardinality(D) PROVE FALSE
    OBVIOUS
  <2>1. \E i, j \in D : i # j /\ f[i] = f[j]
    <3>1. IsFiniteSet(D) /\ IsFiniteSet(S) /\ f \in [D -> S]
      BY <1>2, <1>5, <1>6
    <3> QED
      BY <3>1, FS_PigeonHole, SMT
  <2> QED
    BY <1>6, <2>1
<1> QED
  BY <1>1, <1>2, <1>5, <1>7

\* A thread goes to sleep with a slot, and keeps it until it is first.
LEMMA WaitInvStep ==
    ASSUME IsFiniteSet(Threads), Cardinality(Threads) =< MAX_Q_SIZE,
           MutexInv, WaitInv, [Next]_vars
    PROVE  WaitInv'
<1>1. TypeOK /\ RingOK /\ LineInv /\ Q.size \in 0 .. MAX_Q_SIZE /\ MAX_Q_SIZE \in Nat
  BY RingFacts, MutexConstants DEF MutexInv, TypeOK
<1>2. ASSUME Q'.size >= Q.size, Q'.size \in Int,
             \A i \in 1 .. Q.size : Line'[i].ptr_thread = Line[i].ptr_thread,
             NEW t \in Threads,
             pc'[t] = "suspended" => \E i \in 1 .. Q'.size : Line'[i].ptr_thread = t,
             \A u \in Threads : u # t => pc'[u] = pc[u]
      PROVE  WaitInv'
  <2>1. \A i \in 1 .. Q.size : i \in 1 .. Q'.size
    BY <1>1, <1>2
  <2> QED
    BY <1>2, <2>1 DEF WaitInv
<1>3. CASE UNCHANGED vars
  <2>1. Line' = Line /\ Q' = Q /\ pc' = pc
    BY <1>3 DEF vars, Line
  <2> QED
    BY <2>1 DEF WaitInv
<1>4. ASSUME NEW t \in Threads,
             LockCall(t) \/ UnlockCall(t) \/ TestAndSet(t) \/ Resume(t)
             \/ UnlockWake(t) \/ UnlockRelease(t)
      PROVE  WaitInv'
  <2>1. Line' = Line /\ Q' = Q
    BY <1>4 DEF Line, LockCall, UnlockCall, TestAndSet, Resume, UnlockWake, UnlockRelease
  <2>2. pc'[t] # "suspended" /\ \A u \in Threads : u # t => pc'[u] = pc[u]
    BY <1>1, <1>4, SpinFacts DEF Goto, TypeOK, LockCall, UnlockCall, TestAndSet, Resume,
       UnlockWake, UnlockRelease
  <2> QED
    BY <2>1, <2>2 DEF WaitInv
<1>5. ASSUME NEW t \in Threads, NEW d \in {-1, 1}, Q.size > 0, Q' = AddCount(Q, d),
             pc' = [pc EXCEPT ![t] = "client"]
      PROVE  WaitInv'
  <2>1. /\ Q'.size = Q.size
        /\ Line'[1].ptr_thread = Line[1].ptr_thread
        /\ \A i \in 2 .. Q.size : Line'[i] = Line[i]
    BY <1>1, <1>5, CountLine
  <2>2. \A i \in 1 .. Q.size : i = 1 \/ i \in 2 .. Q.size
    BY <1>1
  <2>3. \A i \in 1 .. Q.size : Line'[i].ptr_thread = Line[i].ptr_thread
    BY <2>1, <2>2
  <2>4. pc'[t] # "suspended" /\ \A u \in Threads : u # t => pc'[u] = pc[u]
    BY <1>1, <1>5 DEF TypeOK
  <2> QED
    BY <2>1, <2>3, <2>4 DEF WaitInv
<1>6. ASSUME NEW t \in Threads, LockFree(t) \/ LockBusy(t) PROVE WaitInv'
  <2>1. /\ pc[t] = "lock_q" /\ Q' = Q_push(Q, t)
        /\ \A u \in Threads : u # t => pc'[u] = pc[u]
        /\ Q.size = 0 \/ Line[1].ptr_thread # t
    BY <1>1, <1>6, LineIndex DEF LockFree, LockBusy, Goto, TypeOK, Q_empty
  <2>2. \A i \in 1 .. Q.size : Line[i].ptr_thread # t
    <3>1. \A i \in 1 .. Q.size : (i = 1 /\ Q.size # 0) \/ i \in 2 .. Q.size
      BY <1>1
    <3> QED
      BY <1>1, <2>1, <3>1 DEF LineInv
  <2>3. Q.size < MAX_Q_SIZE
    BY <2>2, RoomInLine
  <2>4. /\ Q'.size = Q.size + 1
        /\ \A i \in 1 .. Q.size : Line'[i] = Line[i]
        /\ Line'[Q.size + 1] = [ptr_thread |-> t, count |-> 1]
    BY <1>1, <2>1, <2>3, PushLine
  <2>5. Line'[Q.size + 1].ptr_thread = t /\ Q.size + 1 \in 1 .. Q'.size
        /\ Q'.size >= Q.size /\ Q'.size \in Int
    BY <1>1, <2>4
  <2> QED
    BY <1>2, <2>1, <2>4, <2>5
<1>7. ASSUME NEW t \in Threads, UnlockLast(t) PROVE WaitInv'
  <2>1. /\ pc[t] = "unlock_q" /\ Q.size > 0 /\ Line[1].ptr_thread = t
        /\ Q' = Q_pop(Q) /\ pc'[t] # "suspended"
        /\ \A u \in Threads : u # t => pc'[u] = pc[u]
    BY <1>1, <1>7, LineIndex DEF UnlockLast, Goto, TypeOK, Q_empty
  <2>2. Q'.size = Q.size - 1 /\ \A i \in 1 .. Q.size - 1 : Line'[i] = Line[i + 1]
    BY <1>1, <2>1, PopLine
  <2>3. ASSUME NEW u \in Threads, pc'[u] = "suspended"
        PROVE  \E i \in 1 .. Q'.size : Line'[i].ptr_thread = u
    <3>1. u # t /\ pc[u] = "suspended"
      BY <2>1, <2>3
    <3>2. PICK i \in 1 .. Q.size : Line[i].ptr_thread = u
      BY <3>1 DEF WaitInv
    <3>3. i # 1
      BY <2>1, <3>1, <3>2
    <3>4. i - 1 \in 1 .. Q'.size /\ i - 1 \in 1 .. Q.size - 1 /\ (i - 1) + 1 = i
      BY <1>1, <2>2, <3>3
    <3>5. Line'[i - 1] = Line[i]
      BY <2>2, <3>4
    <3> QED
      BY <3>2, <3>4, <3>5
  <2> QED
    BY <2>3 DEF WaitInv
<1>8. ASSUME NEW t \in Threads, LockAgain(t) \/ UnlockNested(t) PROVE WaitInv'
  <2>1. /\ Q.size > 0 /\ pc' = [pc EXCEPT ![t] = "client"]
        /\ Q' = AddCount(Q, 1) \/ Q' = AddCount(Q, -1)
    BY <1>1, <1>8 DEF LockAgain, UnlockNested, Goto, Q_empty
  <2> QED
    BY <1>5, <2>1
<1> QED
  BY <1>3, <1>4, <1>6, <1>7, <1>8 DEF Next, LibraryStep

\* With no more threads than slots a thread that sleeps in sthread_mutex_lock
\* is in the queue: the push it did not check cannot have failed.
THEOREM WaitersAreQueued ==
    ASSUME IsFiniteSet(Threads), Cardinality(Threads) =< MAX_Q_SIZE
    PROVE  Spec => []WaiterIsQueued
<1>1. Init => WaitInv
  BY DEF Init, WaitInv
<1>2. MutexInv /\ WaitInv /\ [Next]_vars => WaitInv'
  BY WaitInvStep
<1>3. MutexInv /\ WaitInv => WaiterIsQueued
  BY MemberFacts DEF MemberIsLine, WaitInv, WaiterIsQueued, Queued
<1> QED
  BY <1>1, <1>2, <1>3, MutexCorrect, PTL DEF Spec

=============================================================================
