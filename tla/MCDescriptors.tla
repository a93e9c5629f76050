----------------------------- MODULE MCDescriptors -----------------------------
(* Descriptors with a few connections. *)
EXTENDS Descriptors, TLC

Symmetry == Permutations(Conns)
=============================================================================
