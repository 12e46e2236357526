------------------------------ MODULE MCReclaim ------------------------------
(***************************************************************************)
(* Instances of PageReclaim for TLC.                                       *)
(***************************************************************************)
EXTENDS PageReclaimInv

\* TestClearPageReferenced on x86.
MCRefBit == -1
=============================================================================
