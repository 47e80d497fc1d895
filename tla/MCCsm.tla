------------------------------- MODULE MCCsm -------------------------------
(***************************************************************************)
(* One owner and one borrower, two granules for their APTs.                *)
(***************************************************************************)
EXTENDS Csm, TLC

CONSTANTS owner, borrower

\* PEs, APT granules and data granules are alike.
MCSymmetry == Permutations(PE) \cup Permutations(AptGranule) \cup Permutations(Data)
=============================================================================
