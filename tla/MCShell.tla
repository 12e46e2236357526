------------------------------- MODULE MCShell -------------------------------
(***************************************************************************)
(* Instances of ShellJobs for TLC.                                         *)
(***************************************************************************)
EXTENDS ShellJobs

=============================================================================
