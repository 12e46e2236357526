---------------------------- MODULE SThreadMutex ----------------------------
(***************************************************************************)
(* The blocking, recursive mutex of the SThread library                    *)
(* (src/hw3/personal/SThread/sync.c), on top of the library's              *)
(* test_and_set, sthread_suspend and sthread_wake (sthread.c).             *)
(*                                                                         *)
(* A mutex is a spinlock word M that protects a ring buffer Q of waiting   *)
(* threads.  The thread in the first slot of Q owns the mutex; the others  *)
(* sleep in a read of their own pipe until the owner's last unlock writes  *)
(* a wake-up message to it.                                                *)
(*                                                                         *)
(* Between a successful test_and_set and the store M = 0 a thread works on *)
(* Q alone, so that stretch of code is one step, except in unlock, where   *)
(* the pop, the wake-up and the store are separate: the woken thread runs  *)
(* while M is still set.                                                   *)
(***************************************************************************)
EXTENDS Integers, FiniteSets

CONSTANTS
    Threads,      \* sthread_t handles of the threads that share the mutex
    NO_THREAD,    \* sthread.h: the null handle
    MAX_Q_SIZE,   \* sync.h: capacity of the ring buffer (25 in the code)
    INT_MAX,      \* largest C int (2^31 - 1 in the build)
    MaxDepth,     \* bound: nested acquisitions by one thread
    MaxHead       \* bound: outermost unlocks stop when Q.head reaches it

ASSUME MutexConstants ==
    /\ NO_THREAD \notin Threads
    /\ MAX_Q_SIZE \in Nat \ {0}
    /\ INT_MAX \in Nat
    /\ MAX_Q_SIZE =< INT_MAX
    /\ MaxDepth \in Nat
    /\ MaxHead \in Int

VARIABLES
    M,      \* mutex->M, 0 or 1
    Q,      \* mutex->Q
    pc,     \* where each thread is in the library; "client" is outside it
    pipe,   \* "wake up!" messages in each thread's pipe
    depth   \* client side: lock calls that returned less unlock calls made

vars == <<M, Q, pc, pipe, depth>>

-----------------------------------------------------------------------------
(* C int arithmetic, as compiled for sync.o (no optimisation: wraps).      *)

IntWrap(x) == IF x > INT_MAX THEN x - 2 * (INT_MAX + 1) ELSE x

\* The C remainder truncates towards zero: a negative dividend gives a
\* negative (or zero) result.
CRem(a, b) == IF a >= 0 THEN a % b ELSE -((-a) % b)

-----------------------------------------------------------------------------
(* Queue routines.                                                         *)

Q_member == [ptr_thread : Threads \cup {NO_THREAD}, count : Nat]

Slots == 0 .. MAX_Q_SIZE - 1

Q_init ==
    [member |-> [i \in Slots |-> [ptr_thread |-> NO_THREAD, count |-> 0]],
     size   |-> 0,
     head   |-> -1 + MAX_Q_SIZE,
     tail   |-> -1 + MAX_Q_SIZE]

Q_empty(pQ) == pQ.size = 0

\* Index of the i-th queued thread, counted from the front; Q_first uses i = 1.
Index(pQ, i) == CRem(IntWrap(pQ.head + i), MAX_Q_SIZE)

Q_first(pQ) == pQ.member[Index(pQ, 1)]

\* Mutant: the queue may overflow.
Q_pushOverfull(pQ, t) ==
    LET last == (pQ.tail + 1) % MAX_Q_SIZE
    IN  [member |-> [pQ.member EXCEPT
                       ![last] = [ptr_thread |-> t, count |-> 1]],
         size   |-> pQ.size + 1,
         head   |-> pQ.head,
         tail   |-> last]

\* A full queue is left as it is: Q_push returns -1, which no caller looks at.
Q_push(pQ, t) ==
    IF pQ.size >= MAX_Q_SIZE
    THEN pQ
    ELSE LET last == (pQ.tail + 1) % MAX_Q_SIZE
         IN  [member |-> [pQ.member EXCEPT
                            ![last] = [ptr_thread |-> t, count |-> 1]],
              size   |-> pQ.size + 1,
              head   |-> pQ.head,
              tail   |-> last]

\* Mutants: pop leaves head where it was; pop skips a slot.
Q_popStuck(pQ) == [pQ EXCEPT !.size = @ - 1]

Q_popTwo(pQ) == [pQ EXCEPT !.size = @ - 1, !.head = @ + 2]

\* "head + 1 % MAX_Q_SIZE" adds 1 % MAX_Q_SIZE: head is never reduced.
Q_pop(pQ) ==
    [member |-> pQ.member,
     size   |-> pQ.size - 1,
     head   |-> IntWrap(pQ.head + (1 % MAX_Q_SIZE)),
     tail   |-> pQ.tail]

\* Q_first(pQ)->count += d
AddCount(pQ, d) ==
    [member |-> [pQ.member EXCEPT
                   ![Index(pQ, 1)] = [ptr_thread |-> @.ptr_thread,
                                      count      |-> @.count + d]],
     size   |-> pQ.size,
     head   |-> pQ.head,
     tail   |-> pQ.tail]

-----------------------------------------------------------------------------
(* Control.                                                                *)

\* Where a thread spins on test_and_set, and where it goes with M set.
SpinTarget == [lock_spin |-> "lock_q", trylock_spin |-> "trylock_q",
               unlock_spin |-> "unlock_q", destroy_spin |-> "destroy_q"]

Spinning == DOMAIN SpinTarget

\* Program points between the test_and_set and the store M = 0.
InSection == {"lock_q", "trylock_q", "unlock_q", "destroy_q",
              "unlock_wake", "unlock_rel"}

Locations == Spinning \cup InSection \cup
             {"client", "suspended", "crashed"}

Goto(t, l) == pc' = [pc EXCEPT ![t] = l]

Init ==
    /\ M = 0
    /\ Q = Q_init
    /\ pc = [t \in Threads |-> "client"]
    /\ pipe = [t \in Threads |-> 0]
    /\ depth = [t \in Threads |-> 0]

\* Mutant: the word is read and written in two steps, so its old value is lost.
TestAndSetBlind(t) ==
    /\ pc[t] \in Spinning
    /\ M' = 1
    /\ Goto(t, SpinTarget[pc[t]])
    /\ UNCHANGED <<Q, pipe, depth>>

\* while(test_and_set(&mutex->M)){}, the iteration that reads 0.
TestAndSet(t) ==
    /\ pc[t] \in Spinning
    /\ M = 0
    /\ M' = 1
    /\ Goto(t, SpinTarget[pc[t]])
    /\ UNCHANGED <<Q, pipe, depth>>

-----------------------------------------------------------------------------
(* sthread_mutex_lock.                                                     *)

LockCall(t) ==
    /\ pc[t] = "client"
    /\ depth[t] < MaxDepth
    /\ Goto(t, "lock_spin")
    /\ UNCHANGED <<M, Q, pipe, depth>>

\* The queue is empty: push and return with the mutex.
LockFree(t) ==
    /\ pc[t] = "lock_q"
    /\ Q_empty(Q)
    /\ Q' = Q_push(Q, t)
    /\ M' = 0
    /\ Goto(t, "client")
    /\ depth' = [depth EXCEPT ![t] = @ + 1]
    /\ UNCHANGED pipe

\* The caller is first: one more nested acquisition.
LockAgain(t) ==
    /\ pc[t] = "lock_q"
    /\ ~Q_empty(Q)
    /\ Q_first(Q).ptr_thread = t
    /\ Q' = AddCount(Q, 1)
    /\ M' = 0
    /\ Goto(t, "client")
    /\ depth' = [depth EXCEPT ![t] = @ + 1]
    /\ UNCHANGED pipe

\* Mutants: the caller is not queued; it does not go to sleep.
LockBusyUnqueued(t) ==
    /\ pc[t] = "lock_q"
    /\ ~Q_empty(Q)
    /\ Q_first(Q).ptr_thread # t
    /\ M' = 0
    /\ Goto(t, "suspended")
    /\ UNCHANGED <<Q, pipe, depth>>

LockBusyAwake(t) ==
    /\ pc[t] = "lock_q"
    /\ ~Q_empty(Q)
    /\ Q_first(Q).ptr_thread # t
    /\ Q' = Q_push(Q, t)
    /\ M' = 0
    /\ Goto(t, "client")
    /\ depth' = [depth EXCEPT ![t] = @ + 1]
    /\ UNCHANGED pipe

\* Somebody else is first: push, release M, and go to sleep.
LockBusy(t) ==
    /\ pc[t] = "lock_q"
    /\ ~Q_empty(Q)
    /\ Q_first(Q).ptr_thread # t
    /\ Q' = Q_push(Q, t)
    /\ M' = 0
    /\ Goto(t, "suspended")
    /\ UNCHANGED <<pipe, depth>>

\* sthread_suspend: the read of the thread's own pipe returns a message.
Resume(t) ==
    /\ pc[t] = "suspended"
    /\ pipe[t] > 0
    /\ pipe' = [pipe EXCEPT ![t] = @ - 1]
    /\ Goto(t, "client")
    /\ depth' = [depth EXCEPT ![t] = @ + 1]
    /\ UNCHANGED <<M, Q>>

-----------------------------------------------------------------------------
(* sthread_mutex_unlock.                                                   *)

\* The client's critical section ends with the call.
UnlockCall(t) ==
    /\ pc[t] = "client"
    /\ depth[t] > 0
    /\ Q.head < MaxHead
    /\ Goto(t, "unlock_spin")
    /\ depth' = [depth EXCEPT ![t] = @ - 1]
    /\ UNCHANGED <<M, Q, pipe>>

\* Mutant: nobody is woken.
UnlockLastSilent(t) ==
    /\ pc[t] = "unlock_q"
    /\ ~Q_empty(Q)
    /\ Q_first(Q).count = 1
    /\ Q_first(Q).ptr_thread = t
    /\ Q' = Q_pop(Q)
    /\ Goto(t, "unlock_rel")
    /\ UNCHANGED <<M, pipe, depth>>

\* Outermost unlock by the owner: pop itself.
UnlockLast(t) ==
    /\ pc[t] = "unlock_q"
    /\ ~Q_empty(Q)
    /\ Q_first(Q).count = 1
    /\ Q_first(Q).ptr_thread = t
    /\ Q' = Q_pop(Q)
    /\ Goto(t, IF Q_empty(Q') THEN "unlock_rel" ELSE "unlock_wake")
    /\ UNCHANGED <<M, pipe, depth>>

\* sthread_wake(Q_first(pQ)->ptr_thread)
UnlockWake(t) ==
    /\ pc[t] = "unlock_wake"
    /\ pipe' = [pipe EXCEPT ![Q_first(Q).ptr_thread] = @ + 1]
    /\ Goto(t, "unlock_rel")
    /\ UNCHANGED <<M, Q, depth>>

\* Mutant: M is not cleared.
UnlockReleaseHeld(t) ==
    /\ pc[t] = "unlock_rel"
    /\ Goto(t, "client")
    /\ UNCHANGED <<M, Q, pipe, depth>>

\* mutex->M = 0, the end of the outermost unlock.
UnlockRelease(t) ==
    /\ pc[t] = "unlock_rel"
    /\ M' = 0
    /\ Goto(t, "client")
    /\ UNCHANGED <<Q, pipe, depth>>

\* Nested unlock: the owner is not compared with the caller on this path.
UnlockNested(t) ==
    /\ pc[t] = "unlock_q"
    /\ ~Q_empty(Q)
    /\ Q_first(Q).count > 1
    /\ Q' = AddCount(Q, -1)
    /\ M' = 0
    /\ Goto(t, "client")
    /\ UNCHANGED <<pipe, depth>>

\* The remaining return of sthread_mutex_unlock: the first slot has count 1
\* and belongs to somebody else (or has no count at all).  M stays set.
UnlockError(t) ==
    /\ pc[t] = "unlock_q"
    /\ ~Q_empty(Q)
    /\ Q_first(Q).count =< 1
    /\ ~(Q_first(Q).count = 1 /\ Q_first(Q).ptr_thread = t)
    /\ Goto(t, "client")
    /\ UNCHANGED <<M, Q, pipe, depth>>

\* Q_first of an empty queue is NULL, and its count is read.
UnlockNull(t) ==
    /\ pc[t] = "unlock_q"
    /\ Q_empty(Q)
    /\ Goto(t, "crashed")
    /\ UNCHANGED <<M, Q, pipe, depth>>

-----------------------------------------------------------------------------
(* sthread_mutex_trylock, sthread_mutex_destroy, and unlocking a mutex the *)
(* caller has not locked.                                                  *)

\* The count's bound: it can outgrow depth through the missing return below.
TrylockCall(t) ==
    /\ pc[t] = "client"
    /\ depth[t] < MaxDepth
    /\ Q_first(Q).count =< MaxDepth
    /\ Goto(t, "trylock_spin")
    /\ UNCHANGED <<M, Q, pipe, depth>>

\* An empty queue, or somebody else first: either way the caller is pushed
\* and told 0.
TrylockPush(t) ==
    /\ pc[t] = "trylock_q"
    /\ Q_empty(Q) \/ Q_first(Q).ptr_thread # t
    /\ Q' = Q_push(Q, t)
    /\ M' = 0
    /\ Goto(t, "client")
    /\ depth' = [depth EXCEPT ![t] = @ + 1]
    /\ UNCHANGED pipe

\* The caller is first.  This path has no return statement, so the caller
\* reads success or failure out of whatever the register holds.
TrylockAgain(t) ==
    /\ pc[t] = "trylock_q"
    /\ ~Q_empty(Q)
    /\ Q_first(Q).ptr_thread = t
    /\ Q' = AddCount(Q, 1)
    /\ M' = 0
    /\ Goto(t, "client")
    /\ \E ok \in {0, 1} : depth' = [depth EXCEPT ![t] = @ + ok]
    /\ UNCHANGED pipe

\* An unlock call by a thread that has no lock call to match it.
ForeignUnlockCall(t) ==
    /\ pc[t] = "client"
    /\ depth[t] = 0
    /\ Q.head < MaxHead
    /\ Goto(t, "unlock_spin")
    /\ UNCHANGED <<M, Q, pipe, depth>>

DestroyCall(t) ==
    /\ pc[t] = "client"
    /\ Goto(t, "destroy_spin")
    /\ UNCHANGED <<M, Q, pipe, depth>>

\* Both branches return before the store M = 0.
DestroyReturn(t) ==
    /\ pc[t] = "destroy_q"
    /\ Goto(t, "client")
    /\ UNCHANGED <<M, Q, pipe, depth>>

-----------------------------------------------------------------------------
(* Specifications.                                                         *)

\* The steps of the library's code, taken without the client's consent.
LibraryStep(t) ==
    \/ TestAndSet(t)
    \/ LockFree(t) \/ LockAgain(t) \/ LockBusy(t) \/ Resume(t)
    \/ UnlockLast(t) \/ UnlockWake(t) \/ UnlockRelease(t) \/ UnlockNested(t)

\* Disciplined clients: lock, nest, and unlock what they locked.
Next == \E t \in Threads : LibraryStep(t) \/ LockCall(t) \/ UnlockCall(t)

Spec == Init /\ [][Next]_vars

\* Unlocking a mutex that is free or belongs to another thread.
ForeignStep(t) == ForeignUnlockCall(t) \/ UnlockError(t) \/ UnlockNull(t)

TrylockStep(t) == TrylockCall(t) \/ TrylockPush(t) \/ TrylockAgain(t)

DestroyStep(t) == DestroyCall(t) \/ DestroyReturn(t)

\* Clients that also use trylock.
SpecTrylock == Init /\ [][Next \/ \E t \in Threads : TrylockStep(t)]_vars

\* Every operation, and clients that misuse them.
NextAll ==
    \/ Next
    \/ \E t \in Threads : ForeignStep(t) \/ TrylockStep(t) \/ DestroyStep(t)

SpecAll == Init /\ [][NextAll]_vars

\* The kernel runs every runnable thread now and then: weak fairness on the
\* library's code.  Nothing makes a test_and_set succeed against rivals that
\* find M clear at the right moments, so the spin is only weakly fair too.
\* Clients are assumed to leave their critical sections, however often they
\* nest inside them (sample.c): strong fairness on the outermost unlock.
Fairness ==
    \A t \in Threads :
        /\ WF_vars(LibraryStep(t))
        /\ WF_vars(UnlockCall(t))
        /\ SF_vars(depth[t] = 1 /\ UnlockCall(t))

FairSpec == Spec /\ Fairness

-----------------------------------------------------------------------------
(* Properties.                                                             *)

\* The queued threads in the order they will own the mutex.
Queued == {Q.member[Index(Q, i)].ptr_thread : i \in 1 .. Q.size}

\* t is the owner: its lock call has returned, or its unlock has not yet
\* changed the queue.
Owns(t) == depth[t] > 0 \/ pc[t] \in {"unlock_spin", "unlock_q"}

\* M is a flag, Q a ring buffer, and every thread is somewhere in the code.
TypeOK ==
    /\ M \in {0, 1}
    /\ Q \in [member : [Slots -> Q_member], size : 0 .. MAX_Q_SIZE,
              head : Int, tail : Slots]
    /\ pc \in [Threads -> Locations]
    /\ pipe \in [Threads -> Nat]
    /\ depth \in [Threads -> Nat]

\* sthread_mutex_lock: two threads are never inside the critical section at
\* once, from the return of the outermost lock to the call of the matching
\* unlock, whatever the interleaving of pushes, pops and wake-ups.
MutualExclusion ==
    \A t, u \in Threads : depth[t] > 0 /\ depth[u] > 0 => t = u

\* The owner is in the first slot of the queue and the slot's count is the
\* number of unlock calls it still has to complete.
CountMatchesDepth ==
    \A t \in Threads : Owns(t) =>
        /\ ~Q_empty(Q)
        /\ Q_first(Q).ptr_thread = t
        /\ Q_first(Q).count =
             depth[t] + (IF pc[t] \in {"unlock_spin", "unlock_q"} THEN 1 ELSE 0)

\* Whoever is in the first slot is able to go on: it owns the mutex, or its
\* wake-up is in its pipe, or the previous owner is about to write it.  A
\* thread first in the queue and asleep for good would stop everybody.
FirstIsServed ==
    ~Q_empty(Q) =>
        LET t == Q_first(Q).ptr_thread IN
        \/ Owns(t)
        \/ pipe[t] = 1
        \/ \E u \in Threads : pc[u] = "unlock_wake"

\* A thread goes to sleep in sthread_mutex_lock only with its handle in the
\* queue, where the unlock of its predecessor will find it.
WaiterIsQueued ==
    \A t \in Threads : pc[t] = "suspended" => t \in Queued

\* Q_first and Q_last index inside member[MAX_Q_SIZE].
IndexInBounds == Index(Q, 1) \in Slots /\ Q.tail \in Slots

\* Only one thread at a time is between its test_and_set and its return:
\* the queue routines never run concurrently.
SpinlockExclusive ==
    \A t, u \in Threads :
        pc[t] \in InSection /\ pc[u] \in InSection => t = u

\* When no thread works on the queue the spinlock is free: every path
\* through the library clears M.
SpinlockReleased ==
    M = 1 => \E t \in Threads : pc[t] \in InSection

\* head and tail enclose exactly size slots, although pop lets head run past
\* MAX_Q_SIZE and push does not let tail, and each of them holds a thread
\* with a positive count (so unlock's last else branch is dead code).
QueueShape ==
    /\ Q.tail = (Q.head + Q.size) % MAX_Q_SIZE
    /\ \A i \in 1 .. Q.size :
          /\ Q.member[Index(Q, i)].ptr_thread \in Threads
          /\ Q.member[Index(Q, i)].count > 0

\* A thread in the queue behind another one is never overtaken: each step
\* removes at most the first thread and adds only at the end.
NoOvertaking ==
    [][\A i \in 1 .. Q.size :
          \/ /\ Q'.head = Q.head
             /\ Q'.member[Index(Q, i)].ptr_thread
                  = Q.member[Index(Q, i)].ptr_thread
          \/ /\ Q'.head # Q.head
             /\ i > 1 => Q'.member[Index(Q', i - 1)].ptr_thread
                           = Q.member[Index(Q, i)].ptr_thread]_vars

\* A thread that sleeps in sthread_mutex_lock gets the mutex eventually.
SleeperGetsLock ==
    \A t \in Threads : pc[t] = "suspended" ~> depth[t] > 0

\* A call of sthread_mutex_unlock returns.
UnlockReturns ==
    \A t \in Threads : pc[t] = "unlock_spin" ~> pc[t] = "client"

=============================================================================
