---------------------------- MODULE MCOrderedMutex ----------------------------
(* OrderedMutex with the threads, the orders and the nesting of the daemon.   *)
EXTENDS OrderedMutex
=============================================================================
