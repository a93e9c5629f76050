----------------------------- MODULE Daemon_proofs -----------------------------
(***************************************************************************)
(* Proofs about the daemon: the lock of the backends and the count of      *)
(* connections agree with the handlers on every path through               *)
(* http_process_request, every variable stays in its type, and the daemon  *)
(* implements the store of ConfigStore, for any number of connections and  *)
(* requests.                                                               *)
(***************************************************************************)
EXTENDS Daemon, FiniteSetTheorems, SequenceTheorems, TLAPS

Labels == Counted \cup {"none", "check", "inc", "close", "done"}

Outside == Labels \ Counted

Types ==
  /\ pc \in [Conns -> Labels]
  /\ holder \in Conns \cup {NoConn}
  /\ connexions \in Int

Load == {c \in Conns : pc[c] \in Counted}

LockInv == Types /\ LockMatchesHandler

-----------------------------------------------------------------------------
\* The steps of the daemon by what they do to the place of one handler.

\* A handler moves on, and the lock and the count stay as they are.
Moves(c, from, to) ==
  /\ pc[c] \in from
  /\ \E l \in to : pc' = [pc EXCEPT ![c] = l]
  /\ holder' = holder
  /\ connexions' = connexions

Locks(c) ==
  /\ pc[c] = "lock" /\ holder = NoConn
  /\ holder' = c
  /\ pc' = [pc EXCEPT ![c] = "recv"]
  /\ connexions' = connexions

Unlocks(c) ==
  /\ pc[c] = "unlock"
  /\ holder' = NoConn
  /\ \E l \in {"lock", "dec"} : pc' = [pc EXCEPT ![c] = l]
  /\ connexions' = connexions

Counts(c) ==
  /\ pc[c] = "inc"
  /\ connexions' = connexions + 1
  /\ pc' = [pc EXCEPT ![c] = "lock"]
  /\ holder' = holder

Uncounts(c) ==
  /\ pc[c] = "dec"
  /\ connexions' = connexions - 1
  /\ pc' = [pc EXCEPT ![c] = "close"]
  /\ holder' = holder

Stops ==
  /\ pc' = [c \in Conns |-> "done"]
  /\ holder' = NoConn
  /\ connexions' = 0

Stays == UNCHANGED <<pc, holder, connexions>>

\* Every step of the daemon and its clients is one of these.
LEMMA StepKinds ==
  ASSUME [Next]_vars
  PROVE  \/ Stays
         \/ Stops
         \/ \E c \in Conns :
              \/ Moves(c, Outside, Outside)
              \/ Moves(c, Holding, Holding)
              \/ Locks(c) \/ Unlocks(c) \/ Counts(c) \/ Uncounts(c)
<1> USE DEF handler, server, client, wires, ages, Goto, At
<1>1. CASE UNCHANGED vars
  BY <1>1 DEF vars, Stays
<1>2. CASE Sigterm
  BY <1>2 DEF Sigterm, Ends, Stops
<1>3. CASE Tick
  BY <1>3 DEF Tick, Stays
<1>4. ASSUME NEW c \in Conns, ClientStep(c)
      PROVE  Stays
  BY <1>4 DEF ClientStep, Connect, ReadAnswer, NoAnswer, Disconnect, SendRq, SendFails, Stays
<1>5. ASSUME NEW c \in Conns, ProcessAgain(c)
      PROVE  Moves(c, Holding, Holding)
  BY <1>5 DEF ProcessAgain, Begin, Moves, Holding
<1>6. ASSUME NEW c \in Conns, HandlerStep(c)
      PROVE  \/ Stops
             \/ Moves(c, Outside, Outside)
             \/ Moves(c, Holding, Holding)
             \/ Locks(c) \/ Unlocks(c) \/ Counts(c) \/ Uncounts(c)
  <2>1. CASE Accept(c) \/ CheckLoad(c) \/ ExitHpr(c)
    BY <2>1 DEF Accept, CheckLoad, ExitHpr, Moves, Outside, Labels, Counted, Holding
  <2>2. CASE Recv(c) \/ RecvFails(c) \/ ProcessJunk(c)
    BY <2>2 DEF Recv, RecvFails, ProcessJunk, GiveUp, Moves, Holding
  <2>3. CASE Process(c) \/ Processed(c) \/ ProcessFails(c) \/ Send(c)
    BY <2>3 DEF Process, Begin, Processed, ProcessFails, Send, Moves, Holding
  <2>4. CASE IncConnNum(c)
    BY <2>4 DEF IncConnNum, Counts
  <2>5. CASE LockBackends(c)
    BY <2>5 DEF LockBackends, Locks
  <2>6. CASE LockTimeout(c)
    BY <2>6 DEF LockTimeout, Ends, Stops
  <2>7. CASE UnlockBackends(c)
    BY <2>7 DEF UnlockBackends, Unlocks
  <2>8. CASE DecConnNum(c)
    BY <2>8 DEF DecConnNum, Uncounts
  <2> QED
    BY <1>6, <2>1, <2>2, <2>3, <2>4, <2>5, <2>6, <2>7, <2>8 DEF HandlerStep
<1> QED
  BY <1>1, <1>2, <1>3, <1>4, <1>5, <1>6 DEF Next

-----------------------------------------------------------------------------
\* The lock of the backends.

LEMMA LockInvStep ==
  ASSUME LockInv, [Next]_vars
  PROVE  LockInv'
<1> USE NoConnAssumption DEF LockInv, Types, LockMatchesHandler
<1>1. CASE Stays
  BY <1>1 DEF Stays
<1>2. CASE Stops
  BY <1>2 DEF Stops, Labels, Counted, Holding
<1>3. ASSUME NEW c \in Conns, Moves(c, Outside, Outside) \/ Moves(c, Holding, Holding)
      PROVE  LockInv'
  BY <1>3 DEF Moves, Outside, Labels, Counted, Holding
<1>4. ASSUME NEW c \in Conns, Locks(c)
      PROVE  LockInv'
  BY <1>4 DEF Locks, Labels, Counted, Holding
<1>5. ASSUME NEW c \in Conns, Unlocks(c)
      PROVE  LockInv'
  <2>1. holder = c
    BY <1>5 DEF Unlocks, Holding
  <2> QED
    BY <1>5, <2>1 DEF Unlocks, Labels, Counted, Holding
<1>6. ASSUME NEW c \in Conns, Counts(c) \/ Uncounts(c)
      PROVE  LockInv'
  BY <1>6 DEF Counts, Uncounts, Labels, Counted, Holding
<1> QED
  BY <1>1, <1>2, <1>3, <1>4, <1>5, <1>6, StepKinds

LEMMA LockInvInvariant == Spec => []LockInv
<1>1. Init => LockInv
  BY NoConnAssumption DEF Init, LockInv, Types, LockMatchesHandler, Labels, Counted, Holding
<1> QED
  BY <1>1, LockInvStep, PTL DEF Spec

\* m_backends_mutex is held exactly while a handler is between lock_backends and
\* unlock_backends, and by that handler: no path through http_process_request,
\* cfgsp_process_rq or a failing backend leaves it behind.
THEOREM LockMatches == Spec => []LockMatchesHandler
<1>1. LockInv => LockMatchesHandler
  BY DEF LockInv
<1> QED
  BY <1>1, LockInvInvariant, PTL

\* So two handlers never work on requests at the same time.
THEOREM OneHandlerWorks ==
  Spec => [](\A c, d \in Conns : pc[c] \in Holding /\ pc[d] \in Holding => c = d)
<1>1. LockInv => \A c, d \in Conns : pc[c] \in Holding /\ pc[d] \in Holding => c = d
  BY DEF LockInv, LockMatchesHandler
<1> QED
  BY <1>1, LockInvInvariant, PTL

-----------------------------------------------------------------------------
\* The count of connections.

LEMMA LoadStep ==
  ASSUME Types, LoadIsCounted, [Next]_vars
  PROVE  LoadIsCounted'
<1>0. IsFiniteSet(Load) /\ connexions = Cardinality(Load)
  BY ConnsAssumption, FS_Subset DEF Load, LoadIsCounted
<1>1. SUFFICES connexions' = Cardinality(Load')
  BY DEF Load, LoadIsCounted
<1>2. CASE Stays
  BY <1>0, <1>2 DEF Stays, Load
<1>3. CASE Stops
  <2>1. Load' = {}
    BY <1>3 DEF Stops, Load, Counted, Holding
  <2> QED
    BY <1>3, <2>1, FS_EmptySet DEF Stops
<1>4. ASSUME NEW c \in Conns,
             \/ Moves(c, Outside, Outside) \/ Moves(c, Holding, Holding)
             \/ Locks(c) \/ Unlocks(c)
      PROVE  connexions' = Cardinality(Load')
  <2>1. Load' = Load
    BY <1>4 DEF Types, Moves, Locks, Unlocks, Load, Outside, Labels, Counted, Holding
  <2> QED
    BY <1>0, <1>4, <2>1 DEF Moves, Locks, Unlocks
<1>5. ASSUME NEW c \in Conns, Counts(c)
      PROVE  connexions' = Cardinality(Load')
  <2>1. Load' = Load \cup {c} /\ c \notin Load
    BY <1>5 DEF Types, Counts, Load, Counted, Holding
  <2> QED
    BY <1>0, <1>5, <2>1, FS_AddElement DEF Counts
<1>6. ASSUME NEW c \in Conns, Uncounts(c)
      PROVE  connexions' = Cardinality(Load')
  <2>1. Load' = Load \ {c} /\ c \in Load
    BY <1>6 DEF Types, Uncounts, Load, Counted, Holding
  <2> QED
    BY <1>0, <1>6, <2>1, FS_RemoveElement DEF Uncounts
<1> QED
  BY <1>2, <1>3, <1>4, <1>5, <1>6, StepKinds

\* m_connexions is the number of handlers between inc_conn_num and dec_conn_num,
\* on every path through http_process_request.
THEOREM LoadCounted == Spec => []LoadIsCounted
<1>1. Init => LoadIsCounted
  <2>1. ASSUME Init PROVE {c \in Conns : pc[c] \in Counted} = {}
    BY <2>1 DEF Init, Counted, Holding
  <2> QED
    BY <2>1, FS_EmptySet DEF Init, LoadIsCounted
<1>2. LockInv => Types
  BY DEF LockInv
<1>3. LockInv /\ LoadIsCounted /\ [Next]_vars => LoadIsCounted'
  BY <1>2, LoadStep
<1> QED
  BY <1>1, <1>3, LockInvInvariant, PTL DEF Spec

-----------------------------------------------------------------------------
\* The types of all variables.

Contents == Values \cup {NoValue, Torn}

\* What is on the wires, and what a handler has in hand at its places.
Message == [id : 1 .. MaxRq, op : Store!Ops]
Reply == [id : 1 .. MaxRq, res : Contents \cup Int]
Received == [id : 0 .. MaxRq, op : Store!Ops, gret : {0, -1}]
Begun == [id : 1 .. MaxRq, op : Store!Ops, gret : {0, -1}, found : Contents]

HandTypes ==
  /\ rq \in [Conns -> Reply \cup Received \cup Begun]
  /\ keep \in [Conns -> BOOLEAN]
  /\ \A c \in Conns :
       /\ pc[c] \in {"process", "spin"} => rq[c] \in Received /\ rq[c].id # 0
       /\ pc[c] = "spin" => rq[c].op.op = "set"
       /\ pc[c] = "act" => rq[c] \in Begun /\ rq[c].op.op # "junk"
       /\ pc[c] = "send" => rq[c] \in Reply

WireTypes ==
  /\ store \in [Names -> Contents]
  /\ srvOpen \in [Conns -> BOOLEAN]
  /\ inbox \in [Conns -> Seq(Message)]
  /\ outbox \in [Conns -> Seq(Reply)]
  /\ cli \in [Conns -> {"off", "idle", "waiting", "closed"}]
  /\ told \in [Conns -> Seq(0 .. MaxRq)]

TimeTypes ==
  /\ lockAge \in [Conns -> 0 .. LockTout]
  /\ recvAge \in [Conns -> 0 .. SockTout]
  /\ cliAge \in [Conns -> 0 .. SockTout]
  /\ down \in {"no", "aborted", "exited"}

DataInv == HandTypes /\ WireTypes /\ TimeTypes

LEMMA SpareType == Spare \in Received
  BY BoundsAssumption DEF Spare, Received, Store!Ops

LEMMA OpParts ==
  ASSUME NEW op \in Store!Ops
  PROVE  /\ op.op # "junk" => op.name \in Names
         /\ op.op = "set" => op.val \in Values
         /\ op.op \in {"set", "get", "rm", "junk"}
  BY DEF Store!Ops

\* What a request does to a store and is answered.
LEMMA EffectTypes ==
  ASSUME NEW op \in Store!Ops, op.op # "junk", NEW s \in [Names -> Contents]
  PROVE  /\ Store!Effect(op, s) \in [Names -> Contents]
         /\ Store!Result(op, s) \in Contents \cup Int
         /\ op.op = "set" => Store!Result(op, s) = 1
  BY OpParts DEF Store!Effect, Store!Result, Contents

LEMMA BegunParts ==
  ASSUME NEW r \in Begun
  PROVE  /\ r.id \in 1 .. MaxRq /\ r.op \in Store!Ops
         /\ r.gret \in {0, -1} /\ r.found \in Contents
  BY DEF Begun

LEMMA AnswerType ==
  ASSUME NEW r \in Begun, r.op.op # "junk", store \in [Names -> Contents]
  PROVE  Answer(r) \in Reply
<1> DEFINE s == [store EXCEPT ![r.op.name] = r.found]
<1>1. s \in [Names -> Contents]
  BY BegunParts
<1>2. Store!Result(r.op, s) \in Contents \cup Int
  BY <1>1, BegunParts, EffectTypes
<1>3. r.op.op = "set" => Store!Result(r.op, s) = 1
  BY <1>1, BegunParts, EffectTypes
<1>4. CASE r.op.op = "set"
  <2>1. Answer(r) = [id |-> r.id, res |-> r.gret + 1]
    BY <1>3, <1>4 DEF Answer
  <2> QED
    BY <2>1, BegunParts DEF Reply
<1>5. CASE r.op.op # "set"
  <2>1. Answer(r) = [id |-> r.id, res |-> Store!Result(r.op, s)]
    BY <1>5 DEF Answer
  <2> HIDE DEF s
  <2> QED
    BY <1>2, <2>1, BegunParts DEF Reply
<1> QED
  BY <1>4, <1>5

\* A backend begins with a request.
LEMMA BeginTypes ==
  ASSUME Types, HandTypes, WireTypes, NEW c \in Conns, Begin(c),
         rq[c] \in Received, rq[c].id # 0, rq[c].op.op # "junk"
  PROVE  HandTypes' /\ WireTypes'
<1> USE DEF handler, server, client, wires, ages, Goto
<1>1. PICK n \in Names : n = rq[c].op.name
  BY OpParts DEF Received
<1>2. rq[c].id \in 1 .. MaxRq /\ rq[c].op \in Store!Ops /\ rq[c].gret \in {0, -1}
  BY BoundsAssumption DEF Received
<1>3. PICK r \in Begun :
       r = [id |-> rq[c].id, op |-> rq[c].op, gret |-> rq[c].gret, found |-> store[n]]
  BY <1>2 DEF Begun, WireTypes
<1>4. rq' = [rq EXCEPT ![c] = r] /\ r.op = rq[c].op /\ pc' = [pc EXCEPT ![c] = "act"]
  BY <1>1, <1>3 DEF Begin
<1>5. store' \in {store, [store EXCEPT ![n] = Torn]}
  BY <1>1 DEF Begin
<1>6. HandTypes'
  BY <1>4 DEF Begin, HandTypes, Types
<1>7. WireTypes'
  BY <1>5 DEF Begin, WireTypes, Contents
<1> QED
  BY <1>6, <1>7

LEMMA DataInit == Init => DataInv
<1> USE DEF Init
<1>1. ASSUME Init PROVE HandTypes
  BY <1>1, SpareType DEF HandTypes
<1>2. Init => WireTypes
  BY DEF WireTypes, Contents
<1>3. Init => TimeTypes
  BY BoundsAssumption DEF TimeTypes
<1> QED
  BY <1>1, <1>2, <1>3 DEF DataInv

LEMMA DataNext == Types /\ DataInv /\ [Next]_vars => DataInv'
<1> SUFFICES ASSUME Types, DataInv, [Next]_vars PROVE DataInv'
  OBVIOUS
<1> USE BoundsAssumption DEF handler, server, client, wires, ages, Goto, At, DataInv, Types
<1>1. ASSUME Sigterm PROVE DataInv'
  <2>1. HandTypes'
    BY <1>1, SpareType DEF HandTypes, Sigterm, Ends
  <2>2. WireTypes'
    BY <1>1 DEF WireTypes, Sigterm, Ends
  <2>3. TimeTypes'
    BY <1>1 DEF TimeTypes, Sigterm, Ends
  <2> QED
    BY <2>1, <2>2, <2>3
<1>2. ASSUME Tick PROVE DataInv'
  <2>1. HandTypes'
    BY <1>2 DEF HandTypes, Tick
  <2>2. WireTypes'
    BY <1>2 DEF WireTypes, Tick
  <2>3. TimeTypes'
    <3>1. ASSUME NEW B \in Nat, NEW age \in [Conns -> 0 .. B], NEW W
          PROVE  Older(age, B, W) \in [Conns -> 0 .. B]
      BY DEF Older
    <3> QED
      BY <1>2, <3>1 DEF TimeTypes, Tick
  <2> QED
    BY <2>1, <2>2, <2>3
<1>3. ASSUME NEW c \in Conns, ProcessAgain(c) PROVE DataInv'
  <2>1. HandTypes' /\ WireTypes'
    <3>1. rq[c] \in Received /\ rq[c].id # 0 /\ rq[c].op.op # "junk" /\ Begin(c)
      BY <1>3 DEF HandTypes, ProcessAgain
    <3> QED
      BY <3>1, BeginTypes
  <2>3. TimeTypes'
    BY <1>3 DEF TimeTypes, ProcessAgain, Begin
  <2> QED
    BY <2>1, <2>3
<1>4. ASSUME NEW c \in Conns, Accept(c) PROVE DataInv'
  <2>1. HandTypes'
    BY <1>4 DEF HandTypes, Accept
  <2>2. WireTypes'
    BY <1>4 DEF WireTypes, Accept
  <2>3. TimeTypes'
    BY <1>4 DEF TimeTypes, Accept
  <2> QED
    BY <2>1, <2>2, <2>3
<1>5. ASSUME NEW c \in Conns, CheckLoad(c) PROVE DataInv'
  <2>1. HandTypes'
    BY <1>5 DEF HandTypes, CheckLoad
  <2>2. WireTypes'
    BY <1>5 DEF WireTypes, CheckLoad
  <2>3. TimeTypes'
    BY <1>5 DEF TimeTypes, CheckLoad
  <2> QED
    BY <2>1, <2>2, <2>3
<1>6. ASSUME NEW c \in Conns, IncConnNum(c) PROVE DataInv'
  <2>1. HandTypes'
    BY <1>6 DEF HandTypes, IncConnNum
  <2>2. WireTypes'
    BY <1>6 DEF WireTypes, IncConnNum
  <2>3. TimeTypes'
    BY <1>6 DEF TimeTypes, IncConnNum
  <2> QED
    BY <2>1, <2>2, <2>3
<1>7. ASSUME NEW c \in Conns, LockBackends(c) PROVE DataInv'
  <2>1. HandTypes'
    BY <1>7 DEF HandTypes, LockBackends
  <2>2. WireTypes'
    BY <1>7 DEF WireTypes, LockBackends
  <2>3. TimeTypes'
    BY <1>7 DEF TimeTypes, LockBackends
  <2> QED
    BY <2>1, <2>2, <2>3
<1>8. ASSUME NEW c \in Conns, LockTimeout(c) PROVE DataInv'
  <2>1. HandTypes'
    BY <1>8, SpareType DEF HandTypes, LockTimeout, Ends
  <2>2. WireTypes'
    BY <1>8 DEF WireTypes, LockTimeout, Ends
  <2>3. TimeTypes'
    BY <1>8 DEF TimeTypes, LockTimeout, Ends
  <2> QED
    BY <2>1, <2>2, <2>3
<1>9. ASSUME NEW c \in Conns, Recv(c) PROVE DataInv'
  <2>1. HandTypes'
    <3>1. PICK m \in Message : m = Head(inbox[c])
      BY <1>9 DEF WireTypes, Recv
    <3>2. PICK r \in Received : r = [id |-> m.id, op |-> m.op, gret |-> 0] /\ r.id # 0
      <4>1. m.id \in 1 .. MaxRq /\ m.op \in Store!Ops
        BY DEF Message
      <4>2. [id |-> m.id, op |-> m.op, gret |-> 0] \in Received /\ m.id # 0
        BY <4>1 DEF Received
      <4> QED
        BY <4>2
    <3>3. rq' = [rq EXCEPT ![c] = r]
      BY <1>9, <3>1, <3>2 DEF Recv
    <3> QED
      BY <1>9, <3>2, <3>3 DEF HandTypes, Recv
  <2>2. WireTypes'
    BY <1>9 DEF WireTypes, Recv
  <2>3. TimeTypes'
    BY <1>9 DEF TimeTypes, Recv
  <2> QED
    BY <2>1, <2>2, <2>3
<1>10. ASSUME NEW c \in Conns, RecvFails(c) PROVE DataInv'
  <2>1. HandTypes'
    BY <1>10 DEF HandTypes, RecvFails, GiveUp
  <2>2. WireTypes'
    BY <1>10 DEF WireTypes, RecvFails, GiveUp
  <2>3. TimeTypes'
    BY <1>10 DEF TimeTypes, RecvFails, GiveUp
  <2> QED
    BY <2>1, <2>2, <2>3
<1>11. ASSUME NEW c \in Conns, Process(c) PROVE DataInv'
  <2>1. HandTypes' /\ WireTypes'
    <3>1. rq[c] \in Received /\ rq[c].id # 0 /\ rq[c].op.op # "junk" /\ Begin(c)
      BY <1>11 DEF HandTypes, Process
    <3> QED
      BY <3>1, BeginTypes
  <2>3. TimeTypes'
    BY <1>11 DEF TimeTypes, Process, Begin
  <2> QED
    BY <2>1, <2>3
<1>12. ASSUME NEW c \in Conns, Processed(c) PROVE DataInv'
  <2>1. HandTypes'
    <3>1. rq[c] \in Begun /\ rq[c].op.op # "junk"
      BY <1>12 DEF HandTypes, Processed
    <3>2. PICK r \in Reply : r = Answer(rq[c])
      BY <3>1, AnswerType DEF WireTypes
    <3>3. rq' = [rq EXCEPT ![c] = r]
      BY <1>12, <3>2 DEF Processed
    <3> QED
      BY <1>12, <3>2, <3>3 DEF HandTypes, Processed
  <2>2. WireTypes'
    <3>1. rq[c] \in Begun /\ rq[c].op.op # "junk"
      BY <1>12 DEF HandTypes, Processed
    <3>2. store' \in [Names -> Contents]
      BY <1>12, <3>1, BegunParts, EffectTypes DEF WireTypes, Processed
    <3> QED
      BY <1>12, <3>2 DEF WireTypes, Processed
  <2>3. TimeTypes'
    BY <1>12 DEF TimeTypes, Processed, Answer
  <2> QED
    BY <2>1, <2>2, <2>3
<1>13. ASSUME NEW c \in Conns, ProcessJunk(c) PROVE DataInv'
  <2>1. HandTypes'
    BY <1>13 DEF HandTypes, ProcessJunk, GiveUp
  <2>2. WireTypes'
    BY <1>13 DEF WireTypes, ProcessJunk, GiveUp
  <2>3. TimeTypes'
    BY <1>13 DEF TimeTypes, ProcessJunk, GiveUp
  <2> QED
    BY <2>1, <2>2, <2>3
<1>14. ASSUME NEW c \in Conns, ProcessFails(c) PROVE DataInv'
  <2>1. HandTypes'
    <3>1. PICK r \in Received :
           r = [rq[c] EXCEPT !.gret = -1] /\ r.id # 0 /\ r.op = rq[c].op
      BY <1>14 DEF HandTypes, ProcessFails, Received
    <3>2. rq' = [rq EXCEPT ![c] = r]
      BY <1>14, <3>1 DEF ProcessFails
    <3> QED
      BY <1>14, <3>1, <3>2 DEF HandTypes, ProcessFails
  <2>2. WireTypes'
    BY <1>14 DEF WireTypes, ProcessFails
  <2>3. TimeTypes'
    BY <1>14 DEF TimeTypes, ProcessFails
  <2> QED
    BY <2>1, <2>2, <2>3
<1>15. ASSUME NEW c \in Conns, Send(c) PROVE DataInv'
  <2>1. HandTypes'
    BY <1>15 DEF HandTypes, Send
  <2>2. WireTypes'
    <3>1. rq[c] \in Reply
      BY <1>15 DEF HandTypes, Send
    <3> QED
      BY <1>15, <3>1 DEF WireTypes, Send
  <2>3. TimeTypes'
    BY <1>15 DEF TimeTypes, Send
  <2> QED
    BY <2>1, <2>2, <2>3
<1>16. ASSUME NEW c \in Conns, UnlockBackends(c) PROVE DataInv'
  <2>1. HandTypes'
    BY <1>16 DEF HandTypes, UnlockBackends
  <2>2. WireTypes'
    BY <1>16 DEF WireTypes, UnlockBackends
  <2>3. TimeTypes'
    BY <1>16 DEF TimeTypes, UnlockBackends
  <2> QED
    BY <2>1, <2>2, <2>3
<1>17. ASSUME NEW c \in Conns, DecConnNum(c) PROVE DataInv'
  <2>1. HandTypes'
    BY <1>17 DEF HandTypes, DecConnNum
  <2>2. WireTypes'
    BY <1>17 DEF WireTypes, DecConnNum
  <2>3. TimeTypes'
    BY <1>17 DEF TimeTypes, DecConnNum
  <2> QED
    BY <2>1, <2>2, <2>3
<1>18. ASSUME NEW c \in Conns, ExitHpr(c) PROVE DataInv'
  <2>1. HandTypes'
    BY <1>18 DEF HandTypes, ExitHpr
  <2>2. WireTypes'
    BY <1>18 DEF WireTypes, ExitHpr
  <2>3. TimeTypes'
    BY <1>18 DEF TimeTypes, ExitHpr
  <2> QED
    BY <2>1, <2>2, <2>3
<1>19. ASSUME NEW c \in Conns, Connect(c) PROVE DataInv'
  <2>1. HandTypes'
    BY <1>19 DEF HandTypes, Connect
  <2>2. WireTypes'
    BY <1>19 DEF WireTypes, Connect
  <2>3. TimeTypes'
    BY <1>19 DEF TimeTypes, Connect
  <2> QED
    BY <2>1, <2>2, <2>3
<1>20. ASSUME NEW c \in Conns, ReadAnswer(c) PROVE DataInv'
  <2>1. HandTypes'
    BY <1>20 DEF HandTypes, ReadAnswer
  <2>2. WireTypes'
    <3>1. Head(outbox[c]) \in Reply /\ Tail(outbox[c]) \in Seq(Reply)
      BY <1>20 DEF WireTypes, ReadAnswer
    <3>2. Head(outbox[c]).id \in 0 .. MaxRq
      BY <3>1 DEF Reply
    <3> QED
      BY <1>20, <3>1, <3>2 DEF WireTypes, ReadAnswer
  <2>3. TimeTypes'
    BY <1>20 DEF TimeTypes, ReadAnswer
  <2> QED
    BY <2>1, <2>2, <2>3
<1>21. ASSUME NEW c \in Conns, NoAnswer(c) PROVE DataInv'
  <2>1. HandTypes'
    BY <1>21 DEF HandTypes, NoAnswer
  <2>2. WireTypes'
    BY <1>21 DEF WireTypes, NoAnswer
  <2>3. TimeTypes'
    BY <1>21 DEF TimeTypes, NoAnswer
  <2> QED
    BY <2>1, <2>2, <2>3
<1>22. ASSUME NEW c \in Conns, Disconnect(c) PROVE DataInv'
  <2>1. HandTypes'
    BY <1>22 DEF HandTypes, Disconnect
  <2>2. WireTypes'
    BY <1>22 DEF WireTypes, Disconnect
  <2>3. TimeTypes'
    BY <1>22 DEF TimeTypes, Disconnect
  <2> QED
    BY <2>1, <2>2, <2>3
<1>23. ASSUME NEW c \in Conns, SendFails(c) PROVE DataInv'
  <2>1. HandTypes'
    BY <1>23 DEF HandTypes, SendFails
  <2>2. WireTypes'
    BY <1>23 DEF WireTypes, SendFails
  <2>3. TimeTypes'
    BY <1>23 DEF TimeTypes, SendFails
  <2> QED
    BY <2>1, <2>2, <2>3
<1>24. ASSUME NEW c \in Conns, NEW op \in Requests, SendRq(c, op) PROVE DataInv'
  <2>1. HandTypes'
    BY <1>24 DEF HandTypes, SendRq
  <2>2. WireTypes'
    <3>1. Len(told[c]) + 1 \in 1 .. MaxRq
      BY <1>24 DEF WireTypes, SendRq
    <3>2. PICK m \in Message : m = [id |-> Len(told[c]) + 1, op |-> op]
      BY <3>1, RequestsAssumption DEF Message
    <3>3. inbox' = [inbox EXCEPT ![c] = Append(inbox[c], m)]
      BY <1>24, <3>2 DEF SendRq
    <3> QED
      BY <1>24, <3>3 DEF WireTypes, SendRq
  <2>3. TimeTypes'
    BY <1>24 DEF TimeTypes, SendRq
  <2> QED
    BY <2>1, <2>2, <2>3
<1>25. CASE UNCHANGED vars
  BY <1>25 DEF vars, HandTypes, WireTypes, TimeTypes
<1> QED
  BY <1>1, <1>2, <1>3, <1>4, <1>5, <1>6, <1>7, <1>8, <1>9, <1>10, <1>11, <1>12, <1>13,
     <1>14, <1>15, <1>16, <1>17, <1>18, <1>19, <1>20, <1>21, <1>22, <1>23, <1>24, <1>25
     DEF Next, HandlerStep, ClientStep

DaemonInv == LockInv /\ LoadIsCounted /\ DataInv

LEMMA DaemonInvariant == Spec => []DaemonInv
<1>1. LockInv => Types
  BY DEF LockInv
<1>2. DataInv /\ LockInv /\ [Next]_vars => DataInv'
  BY <1>1, DataNext
<1> QED
  BY <1>2, DataInit, LockInvInvariant, LoadCounted, PTL DEF Spec, DaemonInv

\* Every variable of the daemon stays in its type: handlers act on requests that
\* were sent, clients read answers that were given, m_connexions never exceeds
\* the number of connections or falls below zero.
THEOREM DaemonTyping == Spec => []TypeOK
<1>1. ASSUME DaemonInv PROVE TypeOK
  <2>1. connexions \in 0 .. Cardinality(Conns)
    <3>1. IsFiniteSet(Load) /\ Cardinality(Load) \in Nat /\ Cardinality(Load) <= Cardinality(Conns)
      BY ConnsAssumption, FS_Subset, FS_CardinalityType DEF Load
    <3> QED
      BY <1>1, <3>1, ConnsAssumption, FS_CardinalityType DEF DaemonInv, LoadIsCounted, Load
  <2>2. LockInv /\ HandTypes /\ WireTypes /\ TimeTypes
    BY <1>1 DEF DaemonInv, DataInv
  <2> QED
    BY <2>1, <2>2 DEF TypeOK, LockInv, Types, Labels, HandTypes, WireTypes, TimeTypes, Contents
<1> QED
  BY <1>1, DaemonInvariant, PTL

-----------------------------------------------------------------------------
(***************************************************************************)
(* The daemon implements the store of ConfigStore.  While a backend works  *)
(* on a request, the store of the daemon is not the one clients may rely   *)
(* on: a value that is being set is torn, and the request has not happened *)
(* yet.  The lock of the backends makes that harmless: one handler works   *)
(* at a time, and it knows what it found.                                  *)
(*                                                                         *)
(* Backends do not fail here: an answer that follows a failure of setval   *)
(* counts one value too few.                                               *)
(***************************************************************************)

\* What the mapping needs to know of a handler at work and of a client that has
\* hung up.
MapInv ==
  \A c \in Conns :
    /\ pc[c] # "spin"
    /\ pc[c] \in {"process", "act"} => rq[c].gret = 0
    /\ pc[c] = "act" =>
         store[rq[c].op.name] = IF rq[c].op.op = "set" THEN Torn ELSE rq[c].found
    /\ cli[c] = "closed" => outbox[c] = <<>>

ImplInv == DaemonInv /\ MapInv

\* The labels at which a handler has a request or an answer in hand.
InHand == {"process", "spin", "act", "send"}

-----------------------------------------------------------------------------
\* The mapping, as functions of what it depends on.

ActingOn(p, r, n) == {c \in Conns : p[c] = "act" /\ r[c].op.name = n}

ShownOf(p, r, s) ==
  [n \in Names |->
     IF ActingOn(p, r, n) # {}
     THEN r[CHOOSE c \in ActingOn(p, r, n) : TRUE].found ELSE s[n]]

UnservedOf(p, r, in) ==
  [c \in Conns |->
     (IF p[c] \in {"process", "spin", "act"}
      THEN <<[id |-> r[c].id, op |-> r[c].op]>> ELSE <<>>) \o in[c]]

UnreadOf(p, r, out) ==
  [c \in Conns |-> out[c] \o (IF p[c] = "send" THEN <<r[c]>> ELSE <<>>)]

LEMMA Mapping ==
  /\ ShownStore = ShownOf(pc, rq, store) /\ ShownStore' = ShownOf(pc', rq', store')
  /\ Unserved = UnservedOf(pc, rq, inbox) /\ Unserved' = UnservedOf(pc', rq', inbox')
  /\ Unread = UnreadOf(pc, rq, outbox) /\ Unread' = UnreadOf(pc', rq', outbox')
  BY DEF ShownStore, Acting, ActingOn, ShownOf, Unserved, UnservedOf, Unread, UnreadOf

LEMMA ShownNone ==
  ASSUME NEW p, NEW r, NEW s \in [Names -> Contents], \A c \in Conns : p[c] # "act"
  PROVE  ShownOf(p, r, s) = s
  BY DEF ShownOf, ActingOn

\* The value a handler works on is still the one it found.
LEMMA ShownOne ==
  ASSUME NEW p, NEW r, NEW s \in [Names -> Contents], NEW c \in Conns, p[c] = "act",
         \A d \in Conns : p[d] = "act" => d = c,
         NEW n \in Names, r[c].op.name = n
  PROVE  ShownOf(p, r, s) = [s EXCEPT ![n] = r[c].found]
<1>1. ActingOn(p, r, n) = {c} /\ \A m \in Names : m # n => ActingOn(p, r, m) = {}
  BY DEF ActingOn
<1>2. (CHOOSE d \in ActingOn(p, r, n) : TRUE) = c
  BY <1>1
<1>3. ShownOf(p, r, s)[n] = r[c].found
  BY <1>1, <1>2 DEF ShownOf
<1>4. \A m \in Names : m # n => ShownOf(p, r, s)[m] = s[m]
  BY <1>1 DEF ShownOf
<1>5. ShownOf(p, r, s) = [m \in Names |-> ShownOf(p, r, s)[m]]
  BY DEF ShownOf
<1> QED
  BY <1>3, <1>4, <1>5

\* Only one handler acts, and what it knows and owes has its type.
LEMMA Actor ==
  ASSUME ImplInv, NEW c \in Conns, pc[c] = "act"
  PROVE  /\ rq[c].op.name \in Names /\ rq[c].found \in Contents
         /\ rq[c].op \in Store!Ops /\ rq[c].id \in 1 .. MaxRq
         /\ rq[c].op.op # "junk" /\ rq[c].gret = 0
         /\ \A d \in Conns : pc[d] = "act" => d = c
         /\ ShownStore = [store EXCEPT ![rq[c].op.name] = rq[c].found]
<1>1. rq[c] \in Begun /\ rq[c].op.op # "junk" /\ store \in [Names -> Contents]
  BY DEF ImplInv, DaemonInv, DataInv, HandTypes, WireTypes
<1>2. rq[c].op.name \in Names /\ rq[c].found \in Contents /\ rq[c].op \in Store!Ops
      /\ rq[c].id \in 1 .. MaxRq
  BY <1>1, BegunParts, OpParts
<1>3. \A d \in Conns : pc[d] = "act" => d = c
  BY DEF ImplInv, DaemonInv, LockInv, LockMatchesHandler, Holding
<1>4. ShownStore = [store EXCEPT ![rq[c].op.name] = rq[c].found]
  BY <1>1, <1>2, <1>3, ShownOne, Mapping
<1> QED
  BY <1>1, <1>2, <1>3, <1>4 DEF ImplInv, MapInv

-----------------------------------------------------------------------------
\* Steps the abstract store does not see.

Unseen == UNCHANGED <<ShownStore, Unserved, Unread>>

LEMMA MappedFunctions ==
  /\ Unserved' = [c \in Conns |-> Unserved'[c]]
  /\ Unread' = [c \in Conns |-> Unread'[c]]
  BY Mapping DEF UnservedOf, UnreadOf

\* The store shows the same when the same handlers act.
LEMMA SameActors ==
  ASSUME UNCHANGED <<rq, store>>, \A c \in Conns : pc'[c] = "act" <=> pc[c] = "act"
  PROVE  ShownStore' = ShownStore
<1>1. \A n \in Names : ActingOn(pc', rq', n) = ActingOn(pc, rq, n)
  BY DEF ActingOn
<1> QED
  BY <1>1, Mapping DEF ShownOf

\* What a connection waits for is the same when its handler has the same in hand.
LEMMA SameCalls ==
  ASSUME NEW c \in Conns, inbox'[c] = inbox[c],
         \/ pc'[c] = pc[c] /\ rq'[c] = rq[c]
         \/ {pc[c], pc'[c]} \cap {"process", "spin", "act"} = {}
  PROVE  Unserved'[c] = Unserved[c]
  BY Mapping DEF UnservedOf

LEMMA SameReplies ==
  ASSUME NEW c \in Conns, outbox'[c] = outbox[c],
         \/ pc'[c] = pc[c] /\ rq'[c] = rq[c]
         \/ "send" \notin {pc[c], pc'[c]}
  PROVE  Unread'[c] = Unread[c]
  BY Mapping DEF UnreadOf

LEMMA SameHand ==
  ASSUME UNCHANGED <<rq, store, inbox, outbox>>,
         \A c \in Conns : pc'[c] = pc[c] \/ {pc[c], pc'[c]} \cap InHand = {}
  PROVE  Unseen
<1>1. ShownStore' = ShownStore
  BY SameActors DEF InHand
<1>2. Unserved' = Unserved
  BY Mapping DEF UnservedOf, InHand
<1>3. Unread' = Unread
  BY Mapping DEF UnreadOf, InHand
<1> QED
  BY <1>1, <1>2, <1>3 DEF Unseen

LEMMA UnseenSteps ==
  ASSUME ImplInv, NEW c \in Conns,
         \/ Accept(c) \/ CheckLoad(c) \/ IncConnNum(c) \/ LockBackends(c)
         \/ UnlockBackends(c) \/ DecConnNum(c)
         \/ Connect(c) \/ NoAnswer(c) \/ SendFails(c)
         \/ Tick \/ UNCHANGED vars
  PROVE  Unseen
<1> USE DEF handler, server, client, wires, ages, Goto, At, vars, InHand
<1>1. pc \in [Conns -> Labels]
  BY DEF ImplInv, DaemonInv, LockInv, Types
<1>2. UNCHANGED <<rq, store, inbox, outbox>>
  BY DEF Accept, CheckLoad, IncConnNum, LockBackends, UnlockBackends, DecConnNum,
         Connect, NoAnswer, SendFails, Tick
<1>3. \A d \in Conns : pc'[d] = pc[d] \/ {pc[d], pc'[d]} \cap InHand = {}
  <2>1. CASE Accept(c) \/ CheckLoad(c) \/ IncConnNum(c) \/ LockBackends(c)
    BY <1>1, <2>1 DEF Accept, CheckLoad, IncConnNum, LockBackends
  <2>2. CASE UnlockBackends(c) \/ DecConnNum(c)
    BY <1>1, <2>2 DEF UnlockBackends, DecConnNum
  <2>3. CASE Connect(c) \/ NoAnswer(c) \/ SendFails(c) \/ Tick \/ UNCHANGED vars
    BY <2>3 DEF Connect, NoAnswer, SendFails, Tick
  <2> QED
    BY <2>1, <2>2, <2>3
<1> QED
  BY <1>2, <1>3, SameHand

\* A request that has been read is still to be served.
LEMMA RecvUnseen ==
  ASSUME ImplInv, NEW c \in Conns, Recv(c)
  PROVE  Unseen
<1> USE DEF handler, server, client, wires, ages, Goto, At
<1>0. /\ pc \in [Conns -> Labels] /\ rq \in [Conns -> Reply \cup Received \cup Begun]
      /\ inbox \in [Conns -> Seq(Message)]
  BY DEF ImplInv, DaemonInv, LockInv, Types, DataInv, HandTypes, WireTypes
<1>1. \A d \in Conns : d # c => pc'[d] = pc[d] /\ rq'[d] = rq[d] /\ inbox'[d] = inbox[d]
  BY <1>0 DEF Recv
<1>2. pc[c] = "recv" /\ pc'[c] = "process" /\ store' = store /\ outbox' = outbox
  BY <1>0 DEF Recv
<1>3. ShownStore' = ShownStore
  <2>1. \A n \in Names : ActingOn(pc', rq', n) = ActingOn(pc, rq, n)
    BY <1>1, <1>2 DEF ActingOn
  <2>2. \A n \in Names : \A d \in ActingOn(pc, rq, n) : rq'[d] = rq[d]
    BY <1>1, <1>2 DEF ActingOn
  <2>3. \A n \in Names : ActingOn(pc, rq, n) # {} =>
          (CHOOSE d \in ActingOn(pc, rq, n) : TRUE) \in ActingOn(pc, rq, n)
    OBVIOUS
  <2> QED
    BY <1>2, <2>1, <2>2, <2>3, Mapping DEF ShownOf
<1>4. Unserved' = Unserved
  <2>1. PICK m \in Message : m = Head(inbox[c]) /\ inbox[c] = <<m>> \o Tail(inbox[c])
    <3>1. inbox[c] \in Seq(Message) /\ inbox[c] # <<>>
      BY <1>0 DEF Recv
    <3> QED
      BY <3>1
  <2>2. m = [id |-> m.id, op |-> m.op]
    BY DEF Message
  <2>3. rq'[c].id = m.id /\ rq'[c].op = m.op /\ inbox'[c] = Tail(inbox[c])
    BY <1>0, <2>1 DEF Recv
  <2>4. Unserved'[c] = <<m>> \o Tail(inbox[c])
    BY <1>2, <2>2, <2>3, Mapping DEF UnservedOf
  <2>5. Unserved[c] = inbox[c]
    BY <1>0, <1>2, Mapping, ConcatEmptySeq DEF UnservedOf
  <2> QED
    BY <1>1, <2>1, <2>4, <2>5, Mapping DEF UnservedOf
<1>5. Unread' = Unread
  BY <1>1, <1>2, Mapping DEF UnreadOf
<1> QED
  BY <1>3, <1>4, <1>5 DEF Unseen

\* A backend begins: what it changes in the store does not show yet.
LEMMA BeginUnseen ==
  ASSUME ImplInv, ImplInv', NEW c \in Conns, Process(c)
  PROVE  Unseen
<1> USE DEF handler, server, client, wires, ages, Goto, At
<1>0. /\ pc \in [Conns -> Labels] /\ rq \in [Conns -> Reply \cup Received \cup Begun]
      /\ inbox \in [Conns -> Seq(Message)] /\ store \in [Names -> Contents]
      /\ store' \in [Names -> Contents]
  BY DEF ImplInv, DaemonInv, LockInv, Types, DataInv, HandTypes, WireTypes
<1>1. \A d \in Conns : d # c => pc'[d] = pc[d] /\ rq'[d] = rq[d]
  BY <1>0 DEF Process, Begin
<1>2. pc[c] = "process" /\ pc'[c] = "act" /\ inbox' = inbox /\ outbox' = outbox
  BY <1>0 DEF Process, Begin
<1>3. PICK n \in Names : n = rq[c].op.name
  BY <1>2, OpParts DEF ImplInv, DaemonInv, DataInv, HandTypes, Received, Process
<1>4. rq'[c].id = rq[c].id /\ rq'[c].op = rq[c].op /\ rq'[c].found = store[n]
  BY <1>0, <1>3 DEF Process, Begin
<1>5. ShownStore' = ShownStore
  <2>1. \A d \in Conns : pc[d] # "act" /\ (pc'[d] = "act" => d = c)
    BY <1>1, <1>2 DEF ImplInv, DaemonInv, LockInv, LockMatchesHandler, Holding
  <2>2. ShownStore = store
    BY <1>0, <2>1, ShownNone, Mapping
  <2>3. ShownStore' = [store' EXCEPT ![n] = store[n]]
    <3>1. rq'[c].op.name = n /\ \A d \in Conns : pc'[d] = "act" => d = c
      BY <1>3, <1>4, <2>1
    <3>2. PICK p, r, s : p = pc' /\ r = rq' /\ s = store'
      OBVIOUS
    <3>3. /\ s \in [Names -> Contents] /\ p[c] = "act" /\ r[c].op.name = n
          /\ \A d \in Conns : p[d] = "act" => d = c
      BY <1>0, <1>2, <3>1, <3>2
    <3>4. ShownOf(p, r, s) = [s EXCEPT ![n] = r[c].found]
      BY <3>3, ShownOne
    <3> QED
      BY <1>4, <3>2, <3>4, Mapping
  <2>4. store' \in {store, [store EXCEPT ![n] = Torn]}
    BY <1>3 DEF Process, Begin
  <2> QED
    BY <1>0, <2>2, <2>3, <2>4
<1>6. Unserved' = Unserved
  BY <1>1, <1>2, <1>4, Mapping DEF UnservedOf
<1>7. Unread' = Unread
  BY <1>1, <1>2, Mapping DEF UnreadOf
<1> QED
  BY <1>5, <1>6, <1>7 DEF Unseen

-----------------------------------------------------------------------------
\* The steps the abstract store sees.

LEMMA MappedTypes ==
  ASSUME ImplInv
  PROVE  Unserved \in [Conns -> Seq(Message)] /\ Unread \in [Conns -> Seq(Reply)]
<1>0. inbox \in [Conns -> Seq(Message)] /\ outbox \in [Conns -> Seq(Reply)]
  BY DEF ImplInv, DaemonInv, DataInv, WireTypes
<1>1. ASSUME NEW c \in Conns, pc[c] \in {"process", "spin", "act"}
      PROVE  [id |-> rq[c].id, op |-> rq[c].op] \in Message
  <2>1. rq[c].id \in 1 .. MaxRq /\ rq[c].op \in Store!Ops
    BY <1>1, BoundsAssumption
    DEF ImplInv, DaemonInv, DataInv, HandTypes, Received, Begun
  <2> QED
    BY <2>1 DEF Message
<1>2. \A c \in Conns : pc[c] = "send" => rq[c] \in Reply
  BY DEF ImplInv, DaemonInv, DataInv, HandTypes
<1>3. \A c \in Conns : UnservedOf(pc, rq, inbox)[c] \in Seq(Message)
  BY <1>0, <1>1, ConcatProperties DEF UnservedOf
<1>4. \A c \in Conns : UnreadOf(pc, rq, outbox)[c] \in Seq(Reply)
  BY <1>0, <1>2, ConcatProperties DEF UnreadOf
<1> QED
  BY <1>3, <1>4, Mapping DEF UnservedOf, UnreadOf

\* A call of the API is a call.
LEMMA SendRqCalls ==
  ASSUME ImplInv, NEW c \in Conns, NEW op \in Requests, SendRq(c, op)
  PROVE  Store!Call(c, op)
<1> USE DEF handler, server, client, wires, ages
<1> DEFINE m == [id |-> Len(told[c]) + 1, op |-> op]
<1>0. /\ inbox \in [Conns -> Seq(Message)] /\ Unserved \in [Conns -> Seq(Message)]
      /\ Len(told[c]) + 1 \in 1 .. MaxRq
  BY MappedTypes, BoundsAssumption
  DEF ImplInv, DaemonInv, DataInv, WireTypes, SendRq
<1>1. m \in Message
  BY <1>0, RequestsAssumption DEF Message
<1>2. pc' = pc /\ rq' = rq /\ store' = store /\ outbox' = outbox
      /\ inbox' = [inbox EXCEPT ![c] = Append(@, m)]
  BY DEF SendRq
<1> HIDE DEF m
<1>3. PICK first \in Seq(Message) :
        Unserved[c] = first \o inbox[c] /\ Unserved'[c] = first \o inbox'[c]
  <2>1. CASE pc[c] \in {"process", "spin", "act"}
    <3>1. rq[c].id \in 1 .. MaxRq /\ rq[c].op \in Store!Ops
      BY <2>1, BoundsAssumption
      DEF ImplInv, DaemonInv, DataInv, HandTypes, Received, Begun
    <3>2. PICK r \in Message : r = [id |-> rq[c].id, op |-> rq[c].op]
      BY <3>1 DEF Message
    <3>3. Unserved[c] = <<r>> \o inbox[c] /\ Unserved'[c] = <<r>> \o inbox'[c]
      BY <1>2, <2>1, <3>2, Mapping DEF UnservedOf
    <3>4. <<r>> \in Seq(Message)
      OBVIOUS
    <3> QED
      BY <3>3, <3>4
  <2>2. CASE pc[c] \notin {"process", "spin", "act"}
    <3>1. Unserved[c] = <<>> \o inbox[c] /\ Unserved'[c] = <<>> \o inbox'[c]
      BY <1>2, <2>2, Mapping DEF UnservedOf
    <3>2. <<>> \in Seq(Message)
      OBVIOUS
    <3> QED
      BY <3>1, <3>2
  <2> QED
    BY <2>1, <2>2
<1>4. first \o Append(inbox[c], m) = Append(first \o inbox[c], m)
  <2>1. inbox[c] \in Seq(Message) /\ <<m>> \in Seq(Message)
    BY <1>0, <1>1
  <2>2. Append(inbox[c], m) = inbox[c] \o <<m>>
    BY <1>1, <2>1, AppendIsConcat
  <2>3. first \o inbox[c] \in Seq(Message)
    BY <1>3, <2>1, ConcatProperties
  <2>4. Append(first \o inbox[c], m) = (first \o inbox[c]) \o <<m>>
    BY <1>1, <2>3, AppendIsConcat
  <2>5. PICK s \in Seq(Message), t \in Seq(Message) : s = inbox[c] /\ t = <<m>>
    BY <2>1
  <2>6. (first \o s) \o t = first \o (s \o t)
    BY ConcatAssociative
  <2> QED
    BY <2>2, <2>4, <2>5, <2>6
<1>5. Unserved' = [Unserved EXCEPT ![c] = Append(@, m)]
  <2>1. \A d \in Conns : d # c => Unserved'[d] = Unserved[d]
    BY <1>0, <1>2, Mapping DEF UnservedOf
  <2>2. Unserved'[c] = Append(Unserved[c], m)
    BY <1>0, <1>2, <1>3, <1>4
  <2>3. Unserved' = [d \in Conns |-> Unserved'[d]]
    BY Mapping DEF UnservedOf
  <2> QED
    BY <1>0, <2>1, <2>2, <2>3
<1>6. ShownStore' = ShownStore /\ Unread' = Unread
  BY <1>2, Mapping
<1>7. PICK id \in 1 .. MaxRq : m = [id |-> id, op |-> op]
  BY <1>0 DEF m
<1> QED
  BY <1>5, <1>6, <1>7 DEF Store!Call

\* The end of a backend's work is the moment at which the request happens.
LEMMA ProcessedServes ==
  ASSUME ImplInv, NEW c \in Conns, Processed(c)
  PROVE  Store!Serve(c)
<1> USE DEF handler, server, client, wires, ages, Goto, At
<1>0. /\ pc \in [Conns -> Labels] /\ rq \in [Conns -> Reply \cup Received \cup Begun]
      /\ inbox \in [Conns -> Seq(Message)] /\ store \in [Names -> Contents]
      /\ outbox \in [Conns -> Seq(Reply)]
  BY DEF ImplInv, DaemonInv, LockInv, Types, DataInv, HandTypes, WireTypes
<1>1. /\ pc[c] = "act" /\ pc'[c] = "send"
      /\ inbox' = inbox /\ outbox' = outbox
      /\ store' = Store!Effect(rq[c].op, store) /\ rq'[c] = Answer(rq[c])
      /\ \A d \in Conns : d # c => pc'[d] = pc[d] /\ rq'[d] = rq[d]
  BY <1>0 DEF Processed
<1>2. PICK op \in Store!Ops, id \in 1 .. MaxRq, n \in Names, v \in Contents :
        op = rq[c].op /\ id = rq[c].id /\ n = op.name /\ v = rq[c].found
  BY <1>1, Actor
<1>3. /\ op.op # "junk" /\ rq[c].gret = 0
      /\ \A d \in Conns : pc[d] = "act" => d = c
      /\ ShownStore = [store EXCEPT ![n] = v]
      /\ store[n] = IF op.op = "set" THEN Torn ELSE v
  BY <1>1, <1>2, Actor DEF ImplInv, MapInv
<1>4. ShownStore' = Store!Effect(op, ShownStore)
  <2>1. store' \in [Names -> Contents]
    BY <1>0, <1>1, <1>2, <1>3, EffectTypes
  <2>2. \A d \in Conns : pc'[d] # "act"
    BY <1>1, <1>3
  <2>3. ShownStore' = store'
    BY <2>1, <2>2, ShownNone, Mapping
  <2>4. Store!Effect(op, store) = Store!Effect(op, [store EXCEPT ![n] = v])
    BY <1>0, <1>2, <1>3, OpParts DEF Store!Effect
  <2> QED
    BY <1>1, <1>2, <1>3, <2>3, <2>4
<1>5. Answer(rq[c]) = [id |-> id, res |-> Store!Result(op, ShownStore)]
  <2>1. CASE op.op = "set"
    BY <1>2, <1>3, <2>1 DEF Answer, Store!Result
  <2>2. CASE op.op # "set"
    BY <1>2, <1>3, <2>2 DEF Answer
  <2> QED
    BY <2>1, <2>2
<1>6. Unserved[c] = <<[id |-> id, op |-> op]>> \o inbox[c]
  BY <1>1, <1>2, Mapping DEF UnservedOf
<1>7. Unserved[c] # <<>> /\ Head(Unserved[c]) = [id |-> id, op |-> op]
      /\ Tail(Unserved[c]) = inbox[c]
  <2>1. PICK m \in Message : m = [id |-> id, op |-> op]
    BY DEF Message
  <2>2. inbox[c] \in Seq(Message)
    BY <1>0
  <2>3. (<<m>> \o inbox[c]) # <<>> /\ Head(<<m>> \o inbox[c]) = m
        /\ Tail(<<m>> \o inbox[c]) = inbox[c]
    BY <2>2
  <2> QED
    BY <1>6, <2>1, <2>3
<1>8. Unserved' = [Unserved EXCEPT ![c] = Tail(@)]
  <2>1. \A d \in Conns : d # c => Unserved'[d] = Unserved[d]
    BY <1>1, Mapping DEF UnservedOf
  <2>2. Unserved'[c] = inbox[c]
    BY <1>0, <1>1, Mapping, ConcatEmptySeq DEF UnservedOf
  <2>3. Unserved' = [d \in Conns |-> Unserved'[d]] /\ Unserved \in [Conns -> Seq(Message)]
    BY MappedTypes, Mapping DEF UnservedOf
  <2> QED
    BY <1>7, <2>1, <2>2, <2>3
<1>9. Unread' = [Unread EXCEPT ![c] = Append(@, Answer(rq[c]))]
  <2>1. \A d \in Conns : d # c => Unread'[d] = Unread[d]
    BY <1>1, Mapping DEF UnreadOf
  <2>2. Unread[c] = outbox[c] /\ Unread'[c] = outbox[c] \o <<Answer(rq[c])>>
    BY <1>0, <1>1, Mapping, ConcatEmptySeq DEF UnreadOf
  <2>3. Answer(rq[c]) \in Reply
    BY <1>0, <1>1, AnswerType DEF ImplInv, DaemonInv, DataInv, HandTypes
  <2>4. Unread'[c] = Append(outbox[c], Answer(rq[c]))
    BY <1>0, <2>2, <2>3, AppendIsConcat
  <2>5. Unread' = [d \in Conns |-> Unread'[d]] /\ Unread \in [Conns -> Seq(Reply)]
    BY MappedTypes, Mapping DEF UnreadOf
  <2> QED
    BY <2>1, <2>2, <2>4, <2>5
<1>10. Head(Unserved[c]).op = op /\ Head(Unserved[c]).id = id
  BY <1>7
<1>11. Unread' = [Unread EXCEPT ![c] =
         Append(@, [id |-> Head(Unserved[c]).id,
                    res |-> Store!Result(Head(Unserved[c]).op, ShownStore)])]
  BY <1>5, <1>9, <1>10
<1>12. ShownStore' = Store!Effect(Head(Unserved[c]).op, ShownStore)
  BY <1>4, <1>10
<1> QED
  BY <1>3, <1>7, <1>8, <1>10, <1>11, <1>12 DEF Store!Serve

\* A connection breaks: calls may be lost, and the older answers.
LEMMA BreakStep ==
  ASSUME ImplInv, NEW c \in Conns, ShownStore' = ShownStore,
         Unserved' = Unserved \/ Unserved' = [Unserved EXCEPT ![c] = <<>>],
         NEW n \in 1 .. Len(Unread[c]) + 1,
         Unread' = [Unread EXCEPT ![c] = SubSeq(Unread[c], n, Len(Unread[c]))]
  PROVE  Store!Break(c)
<1>1. Unserved = [Unserved EXCEPT ![c] = Unserved[c]]
  BY MappedTypes
<1>2. \E q \in {Unserved[c], <<>>} : Unserved' = [Unserved EXCEPT ![c] = q]
  BY <1>1
<1> QED
  BY <1>2 DEF Store!Break

\* A handler gives up on its connection: what the client has sent is lost.
LEMMA LosesCalls ==
  ASSUME ImplInv, NEW c \in Conns, pc[c] \notin {"act", "send"},
         UNCHANGED <<rq, store, outbox>>,
         inbox' = [inbox EXCEPT ![c] = <<>>],
         \E l \in {"unlock", "done"} : pc' = [pc EXCEPT ![c] = l]
  PROVE  Store!Break(c)
<1>0. /\ pc \in [Conns -> Labels] /\ inbox \in [Conns -> Seq(Message)]
      /\ Unserved \in [Conns -> Seq(Message)] /\ Unread \in [Conns -> Seq(Reply)]
  BY MappedTypes DEF ImplInv, DaemonInv, LockInv, Types, DataInv, WireTypes
<1>1. /\ pc'[c] \notin InHand /\ inbox'[c] = <<>>
      /\ \A d \in Conns : d # c => pc'[d] = pc[d] /\ inbox'[d] = inbox[d]
  BY <1>0 DEF InHand
<1>2. ShownStore' = ShownStore
  BY <1>1, SameActors DEF InHand
<1>3. Unserved' = [Unserved EXCEPT ![c] = <<>>]
  <2>1. \A d \in Conns : d # c => Unserved'[d] = Unserved[d]
    BY <1>1, SameCalls
  <2>2. Unserved'[c] = <<>> \o <<>>
    BY <1>1, Mapping DEF UnservedOf, InHand
  <2> QED
    BY <1>0, <2>1, <2>2, MappedFunctions
<1>4. Unread' = Unread
  <2>1. \A d \in Conns : Unread'[d] = Unread[d]
    BY <1>1, SameReplies DEF InHand
  <2> QED
    BY <1>0, <2>1, MappedFunctions
<1>5. /\ 1 \in 1 .. Len(Unread[c]) + 1
      /\ Unread' = [Unread EXCEPT ![c] = SubSeq(Unread[c], 1, Len(Unread[c]))]
  <2>1. Unread[c] \in Seq(Reply)
    BY <1>0
  <2>2. Len(Unread[c]) \in Nat /\ SubSeq(Unread[c], 1, Len(Unread[c])) = Unread[c]
    BY <2>1, SubSeqFull
  <2> QED
    BY <1>0, <1>4, <2>2
<1> QED
  BY <1>2, <1>3, <1>5, BreakStep

LEMMA GiveUpBreaks ==
  ASSUME ImplInv, NEW c \in Conns, RecvFails(c) \/ ProcessJunk(c) \/ ExitHpr(c)
  PROVE  Store!Break(c)
<1> USE DEF handler, server, client, wires, ages, Goto, At, GiveUp
<1>1. CASE RecvFails(c)
  BY <1>1, LosesCalls DEF RecvFails
<1>2. CASE ProcessJunk(c)
  BY <1>2, LosesCalls DEF ProcessJunk
<1>3. CASE ExitHpr(c)
  BY <1>3, LosesCalls DEF ExitHpr
<1> QED
  BY <1>1, <1>2, <1>3

\* Steps of the client or the handler that touch only the answers.
LEMMA AnswersOnly ==
  ASSUME ImplInv, NEW c \in Conns, UNCHANGED <<rq, store, inbox>>,
         \A d \in Conns : d # c => pc'[d] = pc[d] /\ outbox'[d] = outbox[d],
         pc'[c] = pc[c] \/ {pc[c], pc'[c]} \cap {"process", "spin", "act"} = {}
  PROVE  /\ ShownStore' = ShownStore /\ Unserved' = Unserved
         /\ Unread' = [Unread EXCEPT ![c] = Unread'[c]]
<1>1. ShownStore' = ShownStore
  BY SameActors
<1>2. Unserved' = Unserved
  <2>1. \A d \in Conns : Unserved'[d] = Unserved[d]
    BY SameCalls
  <2> QED
    BY <2>1, MappedFunctions, MappedTypes
<1>3. \A d \in Conns : d # c => Unread'[d] = Unread[d]
  BY SameReplies
<1> QED
  BY <1>1, <1>2, <1>3, MappedFunctions, MappedTypes

LEMMA SendBreaks ==
  ASSUME ImplInv, NEW c \in Conns, Send(c)
  PROVE  Unseen \/ Store!Break(c)
<1> USE DEF handler, server, client, wires, ages, Goto, At
<1>0. /\ pc \in [Conns -> Labels] /\ outbox \in [Conns -> Seq(Reply)] /\ rq[c] \in Reply
      /\ Unread \in [Conns -> Seq(Reply)]
  BY MappedTypes DEF ImplInv, DaemonInv, LockInv, Types, DataInv, HandTypes, WireTypes, Send
<1>1. /\ pc[c] = "send" /\ pc'[c] = "unlock" /\ UNCHANGED <<rq, store, inbox>>
      /\ \A d \in Conns : d # c => pc'[d] = pc[d] /\ outbox'[d] = outbox[d]
  BY <1>0 DEF Send
<1>2. /\ ShownStore' = ShownStore /\ Unserved' = Unserved
      /\ Unread' = [Unread EXCEPT ![c] = Unread'[c]]
  BY <1>1, AnswersOnly
<1>3. Unread[c] = outbox[c] \o <<rq[c]>> /\ Unread'[c] = outbox'[c] \o <<>>
  BY <1>1, Mapping DEF UnreadOf
<1>4. CASE cli[c] # "closed"
  <2>1. outbox'[c] = outbox[c] \o <<rq[c]>>
    BY <1>0, <1>4, AppendIsConcat DEF Send
  <2>2. outbox'[c] \in Seq(Reply)
    BY <1>0, <1>3, <2>1
  <2>3. Unread'[c] = Unread[c]
    BY <1>3, <2>1, <2>2, ConcatEmptySeq
  <2> QED
    BY <1>0, <1>2, <2>3 DEF Unseen
<1>5. CASE cli[c] = "closed"
  <2>1. outbox[c] = <<>> /\ outbox'[c] = <<>>
    BY <1>5 DEF Send, ImplInv, MapInv
  <2>2. Unread[c] = <<rq[c]>> /\ Unread'[c] = <<>>
    BY <1>0, <1>3, <2>1
  <2>3. Len(Unread[c]) = 1 /\ SubSeq(Unread[c], 2, Len(Unread[c])) = <<>>
    BY <1>0, <2>2, SubSeqEmpty
  <2>4. PICK n \in 1 .. Len(Unread[c]) + 1 :
        n = 2 /\ Unread'[c] = SubSeq(Unread[c], n, Len(Unread[c]))
    BY <2>2, <2>3
  <2> QED
    BY <1>2, <2>4, BreakStep
<1> QED
  BY <1>4, <1>5

LEMMA InHandReply ==
  ASSUME ImplInv, NEW c \in Conns
  PROVE  (IF pc[c] = "send" THEN <<rq[c]>> ELSE <<>>) \in Seq(Reply)
<1>1. CASE pc[c] = "send"
  <2>1. PICK r \in Reply : r = rq[c]
    BY <1>1 DEF ImplInv, DaemonInv, DataInv, HandTypes
  <2>2. <<r>> \in Seq(Reply)
    OBVIOUS
  <2> QED
    BY <1>1, <2>1, <2>2
<1>2. CASE pc[c] # "send"
  BY <1>2
<1> QED
  BY <1>1, <1>2

LEMMA DisconnectBreaks ==
  ASSUME ImplInv, NEW c \in Conns, Disconnect(c)
  PROVE  Store!Break(c)
<1> USE DEF handler, server, client, wires, ages
<1>0. outbox \in [Conns -> Seq(Reply)] /\ (pc[c] = "send" => rq[c] \in Reply)
  BY DEF ImplInv, DaemonInv, DataInv, HandTypes, WireTypes
<1>1. /\ UNCHANGED <<pc, rq, store, inbox>> /\ outbox'[c] = <<>>
      /\ \A d \in Conns : d # c => outbox'[d] = outbox[d]
  BY <1>0 DEF Disconnect
<1>2. /\ ShownStore' = ShownStore /\ Unserved' = Unserved
      /\ Unread' = [Unread EXCEPT ![c] = Unread'[c]]
  BY <1>1, AnswersOnly
<1>3. PICK s \in Seq(Reply), t \in Seq(Reply) :
        s = outbox[c] /\ t = (IF pc[c] = "send" THEN <<rq[c]>> ELSE <<>>)
  BY <1>0, InHandReply
<1>4. Unread[c] = s \o t /\ Unread'[c] = <<>> \o t
  BY <1>1, <1>3, Mapping DEF UnreadOf
<1>5. Unread'[c] = t /\ Len(Unread[c]) = Len(s) + Len(t)
  BY <1>4, ConcatEmptySeq, ConcatProperties
<1>6. SubSeq(s \o t, Len(s) + 1, Len(s) + Len(t)) = t
  <2>1. PICK i \in Nat, j \in Nat : i = Len(s) /\ j = Len(t)
    OBVIOUS
  <2>2. SubSeq(s \o t, i + 1, i + j) = SubSeq(t, (i + 1) - i, (i + j) - i)
    BY <2>1, SubSeqOfConcat2
  <2>3. (i + 1) - i = 1 /\ (i + j) - i = j
    OBVIOUS
  <2> QED
    BY <2>1, <2>2, <2>3, SubSeqFull
<1>7. /\ Len(s) + 1 \in 1 .. Len(Unread[c]) + 1
      /\ Unread'[c] = SubSeq(Unread[c], Len(s) + 1, Len(Unread[c]))
  BY <1>4, <1>5, <1>6
<1> QED
  BY <1>2, <1>7, BreakStep

LEMMA ReadAnswerReads ==
  ASSUME ImplInv, NEW c \in Conns, ReadAnswer(c)
  PROVE  Store!Read(c)
<1> USE DEF handler, server, client, wires, ages
<1>0. outbox \in [Conns -> Seq(Reply)] /\ (pc[c] = "send" => rq[c] \in Reply)
  BY DEF ImplInv, DaemonInv, DataInv, HandTypes, WireTypes
<1>1. /\ UNCHANGED <<pc, rq, store, inbox>>
      /\ outbox[c] # <<>> /\ outbox'[c] = Tail(outbox[c])
      /\ \A d \in Conns : d # c => outbox'[d] = outbox[d]
  BY <1>0 DEF ReadAnswer
<1>2. /\ ShownStore' = ShownStore /\ Unserved' = Unserved
      /\ Unread' = [Unread EXCEPT ![c] = Unread'[c]]
  BY <1>1, AnswersOnly
<1>3. PICK h \in Reply, u \in Seq(Reply), t \in Seq(Reply) :
        outbox[c] = <<h>> \o u /\ Tail(outbox[c]) = u
        /\ t = (IF pc[c] = "send" THEN <<rq[c]>> ELSE <<>>)
  <2>1. PICK h \in Reply, u \in Seq(Reply) : outbox[c] = <<h>> \o u /\ Tail(outbox[c]) = u
    <3>1. PICK o \in Seq(Reply) : o = outbox[c] /\ o # <<>>
      BY <1>0, <1>1
    <3>2. Head(o) \in Reply /\ Tail(o) \in Seq(Reply) /\ o = <<Head(o)>> \o Tail(o)
      BY <3>1
    <3> QED
      BY <3>1, <3>2
  <2> QED
    BY <2>1, InHandReply
<1>4. Unread[c] = (<<h>> \o u) \o t /\ Unread'[c] = u \o t
  BY <1>1, <1>3, Mapping DEF UnreadOf
<1>5. Unread[c] = <<h>> \o (u \o t)
  <2>1. PICK g \in Seq(Reply) : g = <<h>>
    BY <<h>> \in Seq(Reply)
  <2> QED
    BY <1>4, <2>1, ConcatAssociative
<1>6. PICK w \in Seq(Reply) : w = u \o t
  BY ConcatProperties
<1>7. Unread[c] # <<>> /\ Tail(Unread[c]) = w
  BY <1>5, <1>6
<1> QED
  BY <1>2, <1>4, <1>6, <1>7 DEF Store!Read

\* The daemon ends: at most one value is damaged, and of each connection at most
\* the answer that was about to be sent is lost.
LEMMA EndsShutsDown ==
  ASSUME ImplInv, NEW why, Ends(why)
  PROVE  Store!Shutdown
<1> USE DEF handler, server, client, wires, ages
<1>0. /\ outbox \in [Conns -> Seq(Reply)] /\ store \in [Names -> Contents]
      /\ Unread \in [Conns -> Seq(Reply)]
  BY MappedTypes DEF ImplInv, DaemonInv, DataInv, WireTypes
<1>1. /\ \A c \in Conns : pc'[c] = "done" /\ inbox'[c] = <<>>
      /\ store' = store /\ outbox' = outbox
  BY DEF Ends
<1>2. ShownStore' = store
  BY <1>0, <1>1, ShownNone, Mapping
<1>3. Unserved' = [c \in Conns |-> <<>>]
  <2>1. \A c \in Conns : Unserved'[c] = <<>> \o <<>>
    BY <1>1, Mapping DEF UnservedOf
  <2> QED
    BY <2>1, MappedFunctions
<1>4. \E S \in SUBSET Conns :
        Unread' = [c \in Conns |->
          SubSeq(Unread[c], 1, Len(Unread[c]) - (IF c \in S THEN 1 ELSE 0))]
  <2> DEFINE S == {c \in Conns : pc[c] = "send"}
  <2>1. ASSUME NEW c \in Conns
        PROVE  Unread'[c] =
                 SubSeq(Unread[c], 1, Len(Unread[c]) - (IF c \in S THEN 1 ELSE 0))
    <3>1. Unread'[c] = outbox[c]
      <4>1. Unread'[c] = outbox[c] \o <<>>
        BY <1>1, Mapping DEF UnreadOf
      <4> QED
        BY <1>0, <4>1, ConcatEmptySeq
    <3>2. CASE pc[c] = "send"
      <4>1. PICK s \in Seq(Reply), t \in Seq(Reply) :
              s = outbox[c] /\ t = <<rq[c]>> /\ Len(t) = 1
        BY <1>0, <3>2, InHandReply
      <4>2. Unread[c] = s \o t
        BY <3>2, <4>1, Mapping DEF UnreadOf
      <4>3. Len(Unread[c]) - 1 = Len(s)
        BY <4>1, <4>2, ConcatProperties
      <4>4. SubSeq(s \o t, 1, Len(s)) = s
        <5>1. CASE Len(s) = 0
          BY <5>1, SubSeqEmpty
        <5>2. CASE Len(s) # 0
          BY <5>2, SubSeqOfConcat1, SubSeqFull
        <5> QED
          BY <5>1, <5>2
      <4> QED
        BY <3>1, <3>2, <4>1, <4>2, <4>3, <4>4
    <3>3. CASE pc[c] # "send"
      <4>1. Unread[c] = outbox[c] \o <<>>
        BY <3>3, Mapping DEF UnreadOf
      <4>2. Unread[c] = outbox[c] /\ outbox[c] \in Seq(Reply)
        BY <1>0, <4>1, ConcatEmptySeq
      <4>3. Len(Unread[c]) - 0 = Len(Unread[c])
            /\ SubSeq(Unread[c], 1, Len(Unread[c])) = Unread[c]
        BY <4>2, SubSeqFull
      <4> QED
        BY <3>1, <3>3, <4>2, <4>3
    <3> QED
      BY <3>2, <3>3
  <2> HIDE DEF S
  <2>2. S \in SUBSET Conns
    BY DEF S
  <2> QED
    BY <2>1, <2>2, MappedFunctions
<1>5. \/ ShownStore' = ShownStore
      \/ \E n \in Store!Changing : ShownStore' = [ShownStore EXCEPT ![n] = Torn]
  <2>1. CASE \A c \in Conns : pc[c] # "act"
    BY <1>0, <1>2, <2>1, ShownNone, Mapping
  <2>2. ASSUME NEW c \in Conns, pc[c] = "act"
        PROVE  \/ ShownStore' = ShownStore
               \/ \E n \in Store!Changing : ShownStore' = [ShownStore EXCEPT ![n] = Torn]
    <3>1. PICK n \in Names, v \in Contents :
            /\ n = rq[c].op.name /\ v = rq[c].found
            /\ ShownStore = [store EXCEPT ![n] = v]
      BY <2>2, Actor
    <3>2. store[n] = IF rq[c].op.op = "set" THEN Torn ELSE v
      BY <2>2, <3>1 DEF ImplInv, MapInv
    <3>3. CASE rq[c].op.op # "set"
      BY <1>0, <1>2, <3>1, <3>2, <3>3
    <3>4. CASE rq[c].op.op = "set"
      <4>1. store = [ShownStore EXCEPT ![n] = Torn]
        BY <1>0, <3>1, <3>2, <3>4
      <4>2. n \in Store!Changing
        <5>1. PICK m \in Message : m = [id |-> rq[c].id, op |-> rq[c].op]
          BY <2>2, Actor DEF Message
        <5>2. Unserved[c] = <<m>> \o inbox[c]
          BY <2>2, <5>1, Mapping DEF UnservedOf
        <5>3. inbox[c] \in Seq(Message)
          BY DEF ImplInv, DaemonInv, DataInv, WireTypes
        <5>4. Unserved[c] # <<>> /\ Head(Unserved[c]) = m
          BY <5>2, <5>3
        <5>5. m.op.op = "set" /\ m.op.name = n
          BY <3>1, <3>4, <5>1
        <5> QED
          BY <5>4, <5>5 DEF Store!Changing
      <4> QED
        BY <1>2, <4>1, <4>2
    <3> QED
      BY <3>3, <3>4
  <2> QED
    BY <2>1, <2>2
<1> QED
  BY <1>3, <1>4, <1>5 DEF Store!Shutdown

-----------------------------------------------------------------------------
\* The invariant of the mapping.

LEMMA MapInvStep ==
  ASSUME ~BackendMayFail, ImplInv, DaemonInv', [Next]_vars
  PROVE  MapInv'
<1> USE DEF handler, server, client, wires, ages, Goto, At
<1>0. /\ pc \in [Conns -> Labels] /\ rq \in [Conns -> Reply \cup Received \cup Begun]
      /\ inbox \in [Conns -> Seq(Message)] /\ store \in [Names -> Contents]
      /\ outbox \in [Conns -> Seq(Reply)]
      /\ cli \in [Conns -> {"off", "idle", "waiting", "closed"}]
  BY DEF ImplInv, DaemonInv, LockInv, Types, DataInv, HandTypes, WireTypes
<1> DEFINE Known(c) ==
      /\ pc[c] # "spin"
      /\ pc[c] \in {"process", "act"} => rq[c].gret = 0
      /\ pc[c] = "act" =>
           store[rq[c].op.name] = IF rq[c].op.op = "set" THEN Torn ELSE rq[c].found
      /\ cli[c] = "closed" => outbox[c] = <<>>
<1>1. \A c \in Conns : Known(c)
  BY DEF ImplInv, MapInv
<1>2. SUFFICES ASSUME NEW d \in Conns PROVE Known(d)'
  BY DEF MapInv
<1>3. CASE Sigterm \/ \E c \in Conns : LockTimeout(c)
  BY <1>1, <1>3 DEF Sigterm, LockTimeout, Ends
<1>4. CASE Tick \/ UNCHANGED vars
  BY <1>1, <1>4 DEF Tick, vars
<1>5. ASSUME NEW c \in Conns,
             \/ Accept(c) \/ CheckLoad(c) \/ IncConnNum(c) \/ LockBackends(c)
             \/ RecvFails(c) \/ ProcessJunk(c) \/ UnlockBackends(c) \/ DecConnNum(c)
             \/ ExitHpr(c)
      PROVE  Known(d)'
  BY <1>0, <1>1, <1>5
  DEF Accept, CheckLoad, IncConnNum, LockBackends, RecvFails, ProcessJunk, GiveUp,
      UnlockBackends, DecConnNum, ExitHpr
<1>6. ASSUME NEW c \in Conns, Send(c) PROVE Known(d)'
  BY <1>0, <1>1, <1>6 DEF Send
<1>7. ASSUME NEW c \in Conns, Recv(c) PROVE Known(d)'
  BY <1>0, <1>1, <1>7 DEF Recv
<1>8. ASSUME NEW c \in Conns, ProcessFails(c) \/ ProcessAgain(c) PROVE Known(d)'
  BY <1>1, <1>8 DEF ProcessFails, ProcessAgain
<1>9. ASSUME NEW c \in Conns, Process(c) PROVE Known(d)'
  <2>1. PICK n \in Names : n = rq[c].op.name
    BY <1>9, OpParts DEF ImplInv, DaemonInv, DataInv, HandTypes, Received, Process
  <2>2. /\ rq'[c].gret = 0 /\ rq'[c].op = rq[c].op /\ rq'[c].found = store[n]
        /\ pc[c] = "process" /\ pc'[c] = "act"
        /\ \A e \in Conns : e # c => pc'[e] = pc[e] /\ rq'[e] = rq[e]
        /\ cli' = cli /\ outbox' = outbox
    BY <1>0, <1>1, <1>9, <2>1 DEF Process, Begin
  <2>3. store'[n] = IF rq[c].op.op = "set" THEN Torn ELSE store[n]
    BY <1>0, <1>9, <2>1 DEF Process, Begin
  <2>4. \A e \in Conns : pc[e] # "act"
    BY <2>2 DEF ImplInv, DaemonInv, LockInv, LockMatchesHandler, Holding
  <2>5. CASE d = c
    BY <1>1, <2>1, <2>2, <2>3, <2>5
  <2>6. CASE d # c
    BY <1>1, <2>2, <2>4, <2>6
  <2> QED
    BY <2>5, <2>6
<1>10. ASSUME NEW c \in Conns, Processed(c) PROVE Known(d)'
  <2>1. /\ pc[c] = "act" /\ pc'[c] = "send"
        /\ \A e \in Conns : e # c => pc'[e] = pc[e] /\ rq'[e] = rq[e]
        /\ cli' = cli /\ outbox' = outbox
    BY <1>0, <1>10 DEF Processed
  <2>2. \A e \in Conns : e # c => pc[e] # "act"
    BY <2>1 DEF ImplInv, DaemonInv, LockInv, LockMatchesHandler, Holding
  <2>3. CASE d = c
    BY <1>1, <2>1, <2>3
  <2>4. CASE d # c
    BY <1>1, <2>1, <2>2, <2>4
  <2> QED
    BY <2>3, <2>4
<1>11. ASSUME NEW c \in Conns,
              \/ Connect(c) \/ ReadAnswer(c) \/ NoAnswer(c) \/ Disconnect(c) \/ SendFails(c)
              \/ \E op \in Requests : SendRq(c, op)
       PROVE  Known(d)'
  BY <1>0, <1>1, <1>11 DEF Connect, ReadAnswer, NoAnswer, Disconnect, SendFails, SendRq
<1> QED
  BY <1>3, <1>4, <1>5, <1>6, <1>7, <1>8, <1>9, <1>10, <1>11
  DEF Next, HandlerStep, ClientStep

LEMMA StepStores ==
  ASSUME ~BackendMayFail, ImplInv, ImplInv', [Next]_vars
  PROVE  Store!Next \/ Unseen
<1> USE DEF At
<1>1. CASE Sigterm
  BY <1>1, EndsShutsDown DEF Sigterm, Store!Next
<1>2. CASE UNCHANGED vars
  BY <1>2, Mapping DEF vars, handler, server, wires, Unseen
<1>3. CASE Tick
  BY <1>3, Mapping DEF Tick, handler, server, wires, Unseen
<1>4. ASSUME NEW c \in Conns, HandlerStep(c) \/ ProcessAgain(c) \/ ClientStep(c)
      PROVE  Store!Next \/ Unseen
  <2>1. CASE Accept(c) \/ CheckLoad(c) \/ IncConnNum(c) \/ LockBackends(c)
    BY <2>1, UnseenSteps
  <2>2. CASE UnlockBackends(c) \/ DecConnNum(c) \/ Connect(c) \/ NoAnswer(c) \/ SendFails(c)
    BY <2>2, UnseenSteps
  <2>3. CASE LockTimeout(c)
    BY <2>3, EndsShutsDown DEF LockTimeout, Store!Next
  <2>4. CASE Recv(c) \/ Process(c)
    BY <2>4, RecvUnseen, BeginUnseen
  <2>5. CASE RecvFails(c) \/ ProcessJunk(c) \/ ExitHpr(c)
    BY <2>5, GiveUpBreaks DEF Store!Next
  <2>6. CASE Processed(c)
    BY <2>6, ProcessedServes DEF Store!Next
  <2>7. CASE ProcessFails(c) \/ ProcessAgain(c)
    BY <2>7 DEF ProcessFails, ProcessAgain, ImplInv, MapInv
  <2>8. CASE Send(c)
    BY <2>8, SendBreaks DEF Store!Next
  <2>9. CASE ReadAnswer(c)
    BY <2>9, ReadAnswerReads DEF Store!Next
  <2>10. CASE Disconnect(c)
    BY <2>10, DisconnectBreaks DEF Store!Next
  <2>11. ASSUME NEW op \in Requests, SendRq(c, op)
         PROVE  Store!Next
    BY <2>11, SendRqCalls, RequestsAssumption DEF Store!Next
  <2> QED
    BY <1>4, <2>1, <2>2, <2>3, <2>4, <2>5, <2>6, <2>7, <2>8, <2>9, <2>10, <2>11
    DEF HandlerStep, ClientStep
<1> QED
  BY <1>1, <1>2, <1>3, <1>4 DEF Next

\* Clients may take the daemon for one store on which their requests act whole,
\* in order and at most once: threads, the lock, the steps in which a backend
\* works on a value, time limits and the end of the process do not show, except
\* by what ConfigStore says may be lost.
THEOREM DaemonStores ==
  ASSUME ~BackendMayFail
  PROVE  Spec => StoreSpec
<1>1. Init => Store!Init
  <2>1. SUFFICES ASSUME Init PROVE Store!Init
    OBVIOUS
  <2>2. store \in [Names -> Contents] /\ \A c \in Conns : pc[c] = "none"
    BY <2>1 DEF Init, Contents
  <2>3. ShownStore = [n \in Names |-> NoValue]
    BY <2>1, <2>2, ShownNone, Mapping DEF Init
  <2>4. \A c \in Conns : Unserved[c] = <<>> \o <<>> /\ Unread[c] = <<>> \o <<>>
    BY <2>1, Mapping DEF Init, UnservedOf, UnreadOf
  <2>5. Unserved = [c \in Conns |-> Unserved[c]] /\ Unread = [c \in Conns |-> Unread[c]]
    BY Mapping DEF UnservedOf, UnreadOf
  <2> QED
    BY <2>3, <2>4, <2>5 DEF Store!Init
<1>2. Init => MapInv
  BY DEF Init, MapInv
<1>3. DaemonInv /\ DaemonInv' /\ MapInv /\ [Next]_vars => MapInv'
  BY MapInvStep DEF ImplInv
<1>4. Spec => []ImplInv
  BY <1>2, <1>3, DaemonInvariant, PTL DEF Spec, ImplInv
<1>5. ImplInv /\ ImplInv' /\ [Next]_vars => [Store!Next]_(Store!vars)
  BY StepStores DEF Unseen, Store!vars
<1> QED
  BY <1>1, <1>4, <1>5, PTL DEF Spec, StoreSpec, Store!Spec
=============================================================================
