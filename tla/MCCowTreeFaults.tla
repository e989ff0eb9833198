-------------------------- MODULE MCCowTreeFaults --------------------------
(***************************************************************************)
(* CowTreeFaults for TLC, with the view of MCCowTree.                      *)
(***************************************************************************)
EXTENDS MCCowTree, CowTreeFaults
=============================================================================
