-------------------------- MODULE SThreadMutexInv --------------------------
(***************************************************************************)
(* The inductive invariant of the SThread mutex under disciplined clients, *)
(* checked by TLC and proved in SThreadMutexProofs.                        *)
(***************************************************************************)
EXTENDS SThreadMutexRefines

\* The instance stops handing the mutex over before head + 1 can overflow.
ASSUME HeadFits ==
    /\ MAX_Q_SIZE - 1 =< MaxHead
    /\ MaxHead + MAX_Q_SIZE =< INT_MAX

\* The ring buffer unrolled: Line[1] is the first slot, Line[Q.size] the last.
Line == [i \in 1 .. MAX_Q_SIZE |-> Q.member[(Q.head + i) % MAX_Q_SIZE]]

\* The ring arithmetic holds: head has not overflowed, and head and tail
\* enclose size slots.
RingOK ==
    /\ MAX_Q_SIZE - 1 =< Q.head
    /\ Q.head + MAX_Q_SIZE =< INT_MAX
    /\ Q.tail = (Q.head + Q.size) % MAX_Q_SIZE

Unlocking == {"unlock_spin", "unlock_q"}

\* M is the lock of the queue.
SpinInv ==
    /\ \A t, u \in Threads : pc[t] \in InSection /\ pc[u] \in InSection => t = u
    /\ \A t \in Threads : pc[t] \in InSection => M = 1
    /\ M = 1 => \E t \in Threads : pc[t] \in InSection

RingInv ==
    /\ MAX_Q_SIZE - 1 =< Q.head
    /\ Q.head =< MaxHead
    /\ Q.tail = (Q.head + Q.size) % MAX_Q_SIZE
    /\ \A t \in Threads : pc[t] \in Unlocking => Q.head < MaxHead

\* The slots hold different threads; those behind the first one sleep.
LineInv ==
    /\ \A i \in 1 .. Q.size : Line[i].ptr_thread \in Threads
    /\ \A i \in 2 .. Q.size : /\ pc[Line[i].ptr_thread] = "suspended"
                              /\ Line[i].count = 1
    /\ \A i, j \in 1 .. Q.size :
          Line[i].ptr_thread = Line[j].ptr_thread => i = j

OwnerInv ==
    \A t \in Threads :
        /\ Owns(t) => Q.size > 0 /\ Line[1].ptr_thread = t
        /\ pc[t] \in Unlocking => Line[1].count = depth[t] + 1
        /\ depth[t] > 0 /\ pc[t] \notin Unlocking => Line[1].count = depth[t]

\* A message is only ever sent to the sleeping first thread, once.
TokenInv ==
    \A t \in Threads : pipe[t] # 0 =>
        /\ pipe[t] = 1
        /\ pc[t] = "suspended"
        /\ Q.size > 0
        /\ Line[1].ptr_thread = t
        /\ Line[1].count = 1
        /\ \A u \in Threads : pc[u] # "unlock_wake"

WakeInv ==
    \A t \in Threads : pc[t] = "unlock_wake" =>
        /\ Q.size > 0
        /\ pc[Line[1].ptr_thread] = "suspended"
        /\ Line[1].count = 1
        /\ \A u \in Threads : pipe[u] = 0

IdleInv ==
    \A t \in Threads :
        pc[t] \in {"suspended", "unlock_wake", "unlock_rel"} => depth[t] = 0

ServedInv ==
    Q.size > 0 => \/ Owns(Line[1].ptr_thread)
                  \/ pipe[Line[1].ptr_thread] = 1
                  \/ \E u \in Threads : pc[u] = "unlock_wake"

\* The state of lock word, queue, wake-up messages and threads fits together
\* after every step of lock and unlock: what makes the other invariants hold.
MutexInv ==
    /\ TypeOK
    /\ SpinInv
    /\ RingInv
    /\ LineInv
    /\ OwnerInv
    /\ TokenInv
    /\ WakeInv
    /\ IdleInv
    /\ ServedInv

-----------------------------------------------------------------------------
(* Every operation, misuse included (SpecAll).                             *)

\* M is still the lock of the queue, but a path that returns without clearing
\* it (unlock's error, destroy) leaves it set for good.
SpinHeld ==
    /\ SpinlockExclusive
    /\ \A t \in Threads : pc[t] \in InSection => M = 1

Unlockers == {t \in Threads : pc[t] \in Unlocking}

\* Unlocks under way may each still pop once.
HeadBound ==
    /\ MAX_Q_SIZE - 1 =< Q.head
    /\ Q.head + Cardinality(Unlockers) =< MaxHead + Cardinality(Threads)

SlotsInv ==
    /\ Q.tail = (Q.head + Q.size) % MAX_Q_SIZE
    /\ \A i \in 1 .. Q.size : Line[i].ptr_thread \in Threads /\ Line[i].count > 0

AllInv ==
    /\ TypeOK
    /\ SpinHeld
    /\ HeadBound
    /\ SlotsInv

=============================================================================
