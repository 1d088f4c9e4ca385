------------------------------- MODULE MCSidecar -------------------------------
(***************************************************************************)
(* Every store, with two keys, one board beside the default one, and the   *)
(* server beside the editor's process.                                     *)
(***************************************************************************)
EXTENDS Sidecar, TLC

Symmetry == Permutations(Keys)
=============================================================================
