------------------------------ MODULE MCActivePool ------------------------------
(* An instance of ActivePool. *)
EXTENDS ActivePool

=============================================================================
