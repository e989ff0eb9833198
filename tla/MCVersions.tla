----------------------------- MODULE MCVersions -----------------------------
(***************************************************************************)
(* Versions for TLC: values, keys and sums as in MCMixins.                 *)
(***************************************************************************)
EXTENDS MCMixins, Versions

VersionsView == <<MixinsView, history>>
=============================================================================
