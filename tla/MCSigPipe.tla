------------------------------- MODULE MCSigPipe -------------------------------
(* SigPipe with a few signals. *)
EXTENDS SigPipe
=============================================================================
