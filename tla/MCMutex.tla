------------------------------ MODULE MCMutex ------------------------------
(***************************************************************************)
(* Instances of SThreadMutex for TLC.                                      *)
(***************************************************************************)
EXTENDS SThreadMutexInv, TLC

\* Threads are interchangeable (used in safety runs only).
ThreadSymmetry == Permutations(Threads)

\* Nothing reads Q.head but modulo MAX_Q_SIZE: states that agree on that are
\* equivalent, which makes the instance of `mutex` finite.
HeadView == <<M, Q.member, Q.size, Q.head % MAX_Q_SIZE, Q.tail, pc, pipe, depth>>

=============================================================================
