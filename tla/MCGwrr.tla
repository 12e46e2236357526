------------------------------- MODULE MCGwrr -------------------------------
(***************************************************************************)
(* Instances of Gwrr for TLC.                                              *)
(***************************************************************************)
EXTENDS Gwrr

\* Tasks, and groups, are interchangeable (safety runs only).
GwrrSymmetry == Permutations(Tasks) \cup Permutations(Gids)

=============================================================================
