----------------------------- MODULE MCFsBackend -----------------------------
(* A value and one below it in the tree, a short and a long content. *)
EXTENDS FsBackend, TLC

Symmetry == Permutations(Procs)

TwoNames == {<<"net">>, <<"net", "ip">>}
Contents == {"short", "long"}
Sizes == [v \in Contents |-> IF v = "short" THEN 1 ELSE 3]

\* What the daemon passes to its backends: one entry at a time.
SingleEntries == {<<e>> : e \in Entries}
=============================================================================
