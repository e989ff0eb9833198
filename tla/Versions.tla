------------------------------ MODULE Versions ------------------------------
(***************************************************************************)
(* CowTreeHistory and Mixins at once.  Both describe the steps of CowTree, *)
(* one with the sequences these steps make, the other with the metadata of *)
(* the mixins; a step of a tree with mixins is a step of each.  So one run *)
(* sees that copies of shared nodes hold the right items and the right     *)
(* metadata, and that the originals keep both.                             *)
(***************************************************************************)
EXTENDS Mixins, CowTreeHistory

VInit == HInit /\ MInit
VNext == HNext /\ MNext
VSpec == VInit /\ [][VNext]_<<vars, history, mixinVars>>
=============================================================================
