------------------------------- MODULE MCDaemon -------------------------------
(* Daemon with a few connections, one name and the requests each run needs. *)
EXTENDS Daemon, TLC

Symmetry == Permutations(Conns)

SetRq(n, v) == [op |-> "set", name |-> n, val |-> v]

\* Writes and requests that do not parse.
WritesAndJunk == {SetRq(n, v) : n \in Names, v \in Values} \cup [op : {"junk"}]

\* Writers and readers of one value.
ReadWrite == {SetRq(n, v) : n \in Names, v \in Values} \cup [op : {"get"}, name : Names]

\* The operations on values, and junk.
AllOperations ==
  ReadWrite \cup [op : {"rm"}, name : Names] \cup [op : {"junk"}]
=============================================================================
