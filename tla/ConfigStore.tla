----------------------------- MODULE ConfigStore -----------------------------
(***************************************************************************)
(* What the daemon promises its clients, as cfgs_client_api.h words it:    *)
(* one store of values, on which every request of every connection acts    *)
(* as a whole, in the order in which its connection sent it and at most    *)
(* once, and is answered from the state it found.  A connection that       *)
(* breaks loses requests not yet served and answers not yet read, and so   *)
(* do all of them when the daemon ends; nothing else is lost but a value   *)
(* that was just being set.                                                *)
(***************************************************************************)
EXTENDS Integers, Sequences

CONSTANTS
  Conns,    \* connections of clients
  Names,    \* names of configuration values
  Values,   \* contents of configuration values
  Ids,      \* numbers by which a connection tells its requests apart
  NoValue,  \* the value is not in the store
  Torn      \* the value was damaged when the daemon ended

VARIABLES
  store,    \* store[n]: the value of n, or NoValue
  calls,    \* calls[c]: requests of c not yet served, oldest first
  replies   \* replies[c]: answers to c not yet read, oldest first

vars == <<store, calls, replies>>

\* The operations of CFGS_API_EXPORTS that touch values; junk is a request
\* the daemon cannot parse.
Ops == [op : {"set"}, name : Names, val : Values]
         \cup [op : {"get", "rm"}, name : Names]
         \cup [op : {"junk"}]

\* What op leaves in the store, and the value its answer carries: the number
\* of values set or removed, or the value found.
Effect(op, s) ==
  CASE op.op = "set" -> [s EXCEPT ![op.name] = op.val]
    [] op.op = "rm"  -> [s EXCEPT ![op.name] = NoValue]
    [] OTHER         -> s

Result(op, s) ==
  CASE op.op = "set" -> 1
    [] op.op = "rm"  -> IF s[op.name] = NoValue THEN 0 ELSE 1
    [] OTHER         -> s[op.name]

Init ==
  /\ store = [n \in Names |-> NoValue]
  /\ calls = [c \in Conns |-> <<>>]
  /\ replies = [c \in Conns |-> <<>>]

Call(c, op) ==
  /\ \E id \in Ids :
       calls' = [calls EXCEPT ![c] = Append(@, [id |-> id, op |-> op])]
  /\ UNCHANGED <<store, replies>>

\* The oldest request of c acts on the store and is answered.
Serve(c) ==
  /\ calls[c] # <<>>
  /\ LET rq == Head(calls[c])
     IN /\ rq.op.op # "junk"
        /\ store' = Effect(rq.op, store)
        /\ replies' = [replies EXCEPT ![c] =
                         Append(@, [id |-> rq.id, res |-> Result(rq.op, store)])]
  /\ calls' = [calls EXCEPT ![c] = Tail(@)]

\* The client reads the oldest answer.
Read(c) ==
  /\ replies[c] # <<>>
  /\ replies' = [replies EXCEPT ![c] = Tail(@)]
  /\ UNCHANGED <<store, calls>>

\* One end closes.  Requests the daemon has not served are lost together; of
\* the answers the client has not read, the older ones are.
Break(c) ==
  /\ \E q \in {calls[c], <<>>} : calls' = [calls EXCEPT ![c] = q]
  /\ \E n \in 1 .. Len(replies[c]) + 1 :
       replies' = [replies EXCEPT ![c] = SubSeq(@, n, Len(@))]
  /\ UNCHANGED store

\* The values the next requests set.
Changing ==
  {Head(calls[c]).op.name : c \in {c \in Conns : calls[c] # <<>> /\ Head(calls[c]).op.op = "set"}}

\* The daemon ends.  Requests not yet served are lost, of each connection
\* perhaps the answer that was not yet on its way, and a set that was under way
\* may have damaged its value.
Shutdown ==
  /\ calls' = [c \in Conns |-> <<>>]
  /\ \E S \in SUBSET Conns :
       replies' = [c \in Conns |->
                     SubSeq(replies[c], 1, Len(replies[c]) - (IF c \in S THEN 1 ELSE 0))]
  /\ \/ UNCHANGED store
     \/ \E n \in Changing : store' = [store EXCEPT ![n] = Torn]

Next ==
  Shutdown \/ \E c \in Conns : Serve(c) \/ Read(c) \/ Break(c) \/ \E op \in Ops : Call(c, op)

Spec == Init /\ [][Next]_vars
=============================================================================
