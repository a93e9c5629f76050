------------------------------ MODULE MCUffdDump ------------------------------
(***************************************************************************)
(* An instance of UffdDump: an arena (132 KiB), the two stacks of the      *)
(* engine (8 MiB), that of the dumper below that of the monitor, and above *)
(* them a buffer of two pages.  Sizes are ranks: 1 reaches the default of  *)
(* min_wp_region_bytes, only 3 exceeds the stacks.                         *)
(***************************************************************************)
EXTENDS UffdDump, TLC

Region(pages, size) ==
  [pages |-> pages, size |-> size, writable |-> TRUE, anonymous |-> TRUE,
   stack |-> FALSE, engine |-> FALSE, arena |-> FALSE]

MCRegions ==
  << [Region({1}, 1) EXCEPT !.arena = TRUE],
     Region({2}, 2),
     Region({3}, 2),
     Region({4, 5}, 3) >>

MCStackOf == (Dumper :> 2) @@ (Monitor :> 3)

=============================================================================
