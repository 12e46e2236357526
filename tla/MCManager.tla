------------------------------ MODULE MCManager ------------------------------
(***************************************************************************)
(* Instances of SThreadManager for TLC.                                    *)
(***************************************************************************)
EXTENDS SThreadManagerInv, TLC

\* The records sthread_create hands out are interchangeable (safety runs).
ManagerSymmetry == Permutations(Threads)

=============================================================================
