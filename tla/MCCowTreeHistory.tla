-------------------------- MODULE MCCowTreeHistory --------------------------
(***************************************************************************)
(* CowTreeHistory for TLC, with the history variables added to the view.   *)
(***************************************************************************)
EXTENDS MCCowTree, CowTreeHistory

HistoryView == <<CanonicalView, history>>
=============================================================================
