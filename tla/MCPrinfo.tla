------------------------------ MODULE MCPrinfo ------------------------------
(***************************************************************************)
(* Instance of Prinfo for TLC: times of which no two sums are the same.    *)
(***************************************************************************)
EXTENDS Prinfo

MCUTime == [p \in Pids |-> 2^p]
=============================================================================
