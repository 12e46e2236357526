----------------------------- MODULE MCKersync -----------------------------
(***************************************************************************)
(* Instances of Kersync for TLC.                                           *)
(***************************************************************************)
EXTENDS Kersync, TLC

\* Processes are interchangeable (used in safety runs only).
ProcSymmetry == Permutations(Procs)

=============================================================================
