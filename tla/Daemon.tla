-------------------------------- MODULE Daemon --------------------------------
(***************************************************************************)
(* The LinCS configuration daemon (daemon/cfgs_configd.c) and the clients  *)
(* that talk to it through the API library.                                *)
(*                                                                         *)
(* Every accepted connection gets a detached thread, http_process_request. *)
(* A handler counts itself in m_connexions, then loops: lock the backends, *)
(* read a request, act on the backends, answer, unlock.  The lock is held  *)
(* while the handler waits for its client to send something, and every     *)
(* wait has a limit: CGFS_SOCK_TOUT for a byte of the socket on both sides *)
(* and MUTEX_LOCK_TOUT for the lock, after which lassert aborts the daemon.*)
(*                                                                         *)
(* Time advances in ticks, SockTout of which are 5 s.  The constant Prompt  *)
(* says whether threads that can run do so before the next tick: runs      *)
(* that look for what can happen on an idle machine set it, runs that      *)
(* check safety leave the scheduler free.                                  *)
(***************************************************************************)
EXTENDS Integers, Sequences, FiniteSets

CONSTANTS
  Conns,          \* the connections clients may make, one handler each
  NoConn,         \* nobody holds the backends
  Names, Values, NoValue,
  Torn,           \* what a value is while it is being written
  MaxRq,          \* bound: requests a client sends on its connection
  MaxConnexions,  \* CGFS_MAX_CONNEXIONS
  SockTout,       \* CGFS_SOCK_TOUT (5 s) in ticks
  LockTout,       \* MUTEX_LOCK_TOUT (10 s) in ticks; with 0 ticks for both, a
                  \* wait may end at any moment
  SndBuf,         \* how many answers the buffers of a socket hold
  Requests,       \* the requests clients send, a subset of the operations
  BackendMayFail, \* whether a backend's setval may return -1
  Prompt          \* whether runnable threads run before the next tick

ASSUME BoundsAssumption ==
  /\ MaxRq \in Nat /\ MaxConnexions \in Nat
  /\ SockTout \in Nat /\ LockTout \in Nat /\ SndBuf \in Nat
ASSUME ConnsAssumption == IsFiniteSet(Conns)
ASSUME NoConnAssumption == NoConn \notin Conns
ASSUME NoValueAssumption == NoValue \notin Values /\ Torn \notin Values \cup {NoValue}

VARIABLES
  pc,         \* pc[c]: where the handler of c is in http_process_request
  rq,         \* rq[c]: the request, then the answer, the handler works on
  keep,       \* keep[c]: keep_alive
  holder,     \* the connection whose handler holds m_backends_mutex
  connexions, \* m_connexions
  store,      \* the values in the backends
  srvOpen,    \* srvOpen[c]: the daemon's end of c is open
  inbox,      \* inbox[c]: requests sent on c and not yet read
  outbox,     \* outbox[c]: answers sent on c and not yet read
  cli,        \* cli[c]: the state of the client of c
  told,       \* told[c]: for each call of the API that has returned, the number
              \* of the request whose answer it got, or 0 (NULL)
  lockAge, recvAge, cliAge,  \* ticks spent in the current wait
  down        \* "no", or why the daemon is gone

handler == <<pc, rq, keep>>
server  == <<holder, connexions, store, down>>
client  == <<cli, told>>
wires   == <<srvOpen, inbox, outbox>>
ages    == <<lockAge, recvAge, cliAge>>
vars    == <<handler, server, client, wires, ages>>

Spare == [id |-> 0, op |-> [op |-> "junk"], gret |-> 0]

Init ==
  /\ pc = [c \in Conns |-> "none"]
  /\ rq = [c \in Conns |-> Spare]
  /\ keep = [c \in Conns |-> TRUE]
  /\ holder = NoConn
  /\ connexions = 0
  /\ store = [n \in Names |-> NoValue]
  /\ srvOpen = [c \in Conns |-> TRUE]
  /\ inbox = [c \in Conns |-> <<>>]
  /\ outbox = [c \in Conns |-> <<>>]
  /\ cli = [c \in Conns |-> "off"]
  /\ told = [c \in Conns |-> <<>>]
  /\ lockAge = [c \in Conns |-> 0]
  /\ recvAge = [c \in Conns |-> 0]
  /\ cliAge = [c \in Conns |-> 0]
  /\ down = "no"

\* The store and the requests as ConfigStore has them: a request under way has
\* not happened yet.
Acting(n) == {c \in Conns : pc[c] = "act" /\ rq[c].op.name = n}

ShownStore ==
  [n \in Names |->
     IF Acting(n) # {} THEN rq[CHOOSE c \in Acting(n) : TRUE].found ELSE store[n]]

Unserved ==
  [c \in Conns |->
     (IF pc[c] \in {"process", "spin", "act"}
      THEN <<[id |-> rq[c].id, op |-> rq[c].op]>> ELSE <<>>) \o inbox[c]]

Unread ==
  [c \in Conns |-> outbox[c] \o (IF pc[c] = "send" THEN <<rq[c]>> ELSE <<>>)]

Store == INSTANCE ConfigStore WITH
  Ids <- 1 .. MaxRq, store <- ShownStore, calls <- Unserved, replies <- Unread

ASSUME RequestsAssumption == Requests \subseteq Store!Ops

At(c, label) == down = "no" /\ pc[c] = label

Goto(c, label) == pc' = [pc EXCEPT ![c] = label]

-----------------------------------------------------------------------------
\* The clients (cfgs_client_api.c over cfgsp_send_rq).

\* cfgs_connect: the connection waits in the backlog of the listening socket.
Connect(c) ==
  /\ down = "no"
  /\ cli[c] = "off"
  /\ cli' = [cli EXCEPT ![c] = "idle"]
  /\ UNCHANGED <<handler, server, told, wires, ages>>

\* cfgsp_send_rq: the request goes out, the call waits for an answer.
SendRq(c, op) ==
  /\ down = "no"
  /\ cli[c] = "idle"
  /\ Len(told[c]) < MaxRq
  /\ srvOpen[c]
  /\ inbox' = [inbox EXCEPT ![c] = Append(@, [id |-> Len(told[c]) + 1, op |-> op])]
  /\ cli' = [cli EXCEPT ![c] = "waiting"]
  /\ cliAge' = [cliAge EXCEPT ![c] = 0]
  /\ UNCHANGED <<handler, server, told, srvOpen, outbox, lockAge, recvAge>>

\* The daemon has closed its end or is gone: sending fails, the call returns
\* NULL.
SendFails(c) ==
  /\ cli[c] = "idle"
  /\ Len(told[c]) < MaxRq
  /\ ~srvOpen[c]
  /\ told' = [told EXCEPT ![c] = Append(@, 0)]
  /\ UNCHANGED <<handler, server, cli, wires, ages>>

\* http_client_recv takes whatever answer comes first as the answer to the
\* request just sent.  What is in the socket can be read after the daemon has
\* ended, too.
ReadAnswer(c) ==
  /\ cli[c] = "waiting"
  /\ outbox[c] # <<>>
  /\ told' = [told EXCEPT ![c] = Append(@, Head(outbox[c]).id)]
  /\ outbox' = [outbox EXCEPT ![c] = Tail(@)]
  /\ cli' = [cli EXCEPT ![c] = "idle"]
  /\ UNCHANGED <<handler, server, srvOpen, inbox, ages>>

\* No answer within CGFS_SOCK_TOUT, or the end of the stream: the call
\* returns NULL, and the connection stays as it is.
NoAnswer(c) ==
  /\ cli[c] = "waiting"
  /\ outbox[c] = <<>>
  /\ cliAge[c] >= SockTout \/ ~srvOpen[c]
  /\ told' = [told EXCEPT ![c] = Append(@, 0)]
  /\ cli' = [cli EXCEPT ![c] = "idle"]
  /\ UNCHANGED <<handler, server, wires, ages>>

\* cfgs_disconnect: shutdown of both directions.
Disconnect(c) ==
  /\ cli[c] = "idle"
  /\ cli' = [cli EXCEPT ![c] = "closed"]
  /\ outbox' = [outbox EXCEPT ![c] = <<>>]
  /\ UNCHANGED <<handler, server, told, srvOpen, inbox, ages>>

-----------------------------------------------------------------------------
\* The daemon.

\* cfgst_start_server accepts a connection and creates its thread.
Accept(c) ==
  /\ At(c, "none")
  /\ cli[c] # "off"
  /\ Goto(c, "check")
  /\ UNCHANGED <<rq, keep, server, client, wires, ages>>

\* Mutant: a connection that is refused is counted off too.
CheckLoadThenDec(c) ==
  /\ At(c, "check")
  /\ Goto(c, IF connexions > MaxConnexions THEN "dec" ELSE "inc")
  /\ UNCHANGED <<rq, keep, server, client, wires, ages>>

\* inc_conn_num, the test of the load, made without the mutex.
CheckLoad(c) ==
  /\ At(c, "check")
  /\ Goto(c, IF connexions > MaxConnexions THEN "close" ELSE "inc")
  /\ UNCHANGED <<rq, keep, server, client, wires, ages>>

\* inc_conn_num, the increment, made under the mutex.
IncConnNum(c) ==
  /\ At(c, "inc")
  /\ connexions' = connexions + 1
  /\ Goto(c, "lock")
  /\ lockAge' = [lockAge EXCEPT ![c] = 0]
  /\ UNCHANGED <<rq, keep, holder, store, down, client, wires, recvAge, cliAge>>

\* Mutant: the backends are not locked for requests.
LockNothing(c) ==
  /\ At(c, "lock")
  /\ holder' = c
  /\ Goto(c, "recv")
  /\ recvAge' = [recvAge EXCEPT ![c] = 0]
  /\ UNCHANGED <<rq, keep, connexions, store, down, client, wires, lockAge, cliAge>>

\* lock_backends finds the mutex free at one of its polls.
LockBackends(c) ==
  /\ At(c, "lock")
  /\ holder = NoConn
  /\ holder' = c
  /\ Goto(c, "recv")
  /\ recvAge' = [recvAge EXCEPT ![c] = 0]
  /\ UNCHANGED <<rq, keep, connexions, store, down, client, wires, lockAge, cliAge>>

\* The process ends: its threads and its memory are gone, and the daemon's end
\* of every connection closes.  Values and answers under way stay.
Ends(why) ==
  /\ down' = why
  /\ pc' = [c \in Conns |-> "done"]
  /\ rq' = [c \in Conns |-> Spare]
  /\ keep' = [c \in Conns |-> FALSE]
  /\ holder' = NoConn
  /\ connexions' = 0
  /\ srvOpen' = [c \in Conns |-> FALSE]
  /\ inbox' = [c \in Conns |-> <<>>]
  /\ lockAge' = [c \in Conns |-> 0]
  /\ recvAge' = [c \in Conns |-> 0]
  /\ UNCHANGED <<store, client, outbox, cliAge>>

\* The last poll of lock_backends fails: lassert(ret == 0) aborts the daemon.
LockTimeout(c) ==
  /\ At(c, "lock")
  /\ holder # NoConn
  /\ lockAge[c] >= LockTout
  /\ Ends("aborted")

\* http_server_recv returns the next request of the connection.
Recv(c) ==
  /\ At(c, "recv")
  /\ inbox[c] # <<>>
  /\ LET msg == Head(inbox[c])
     IN rq' = [rq EXCEPT ![c] = [id |-> msg.id, op |-> msg.op, gret |-> 0]]
  /\ inbox' = [inbox EXCEPT ![c] = Tail(@)]
  /\ Goto(c, "process")
  /\ UNCHANGED <<keep, server, client, srvOpen, outbox, ages>>

\* Mutant: the backends stay locked when the request could not be read.
GiveUpLocked(c) ==
  /\ keep' = [keep EXCEPT ![c] = FALSE]
  /\ srvOpen' = [srvOpen EXCEPT ![c] = FALSE]
  /\ inbox' = [inbox EXCEPT ![c] = <<>>]
  /\ Goto(c, "dec")

\* cfgsp_process_rq gives up on the connection: report_error closes it.
GiveUp(c) ==
  /\ keep' = [keep EXCEPT ![c] = FALSE]
  /\ srvOpen' = [srvOpen EXCEPT ![c] = FALSE]
  /\ inbox' = [inbox EXCEPT ![c] = <<>>]
  /\ Goto(c, "unlock")

\* The client has closed or has sent nothing for CGFS_SOCK_TOUT: no body.
RecvFails(c) ==
  /\ At(c, "recv")
  /\ inbox[c] = <<>>
  /\ cli[c] = "closed" \/ recvAge[c] >= SockTout
  /\ GiveUp(c)
  /\ UNCHANGED <<rq, server, client, outbox, ages>>

\* The backend begins to work on the request: it looks for the value and, to
\* set it, truncates its file.
Begin(c) ==
  /\ LET op == rq[c].op
     IN /\ rq' = [rq EXCEPT ![c] =
                    [id |-> @.id, op |-> op, gret |-> @.gret, found |-> store[op.name]]]
        /\ store' = IF op.op = "set" THEN [store EXCEPT ![op.name] = Torn] ELSE store
  /\ Goto(c, "act")
  /\ UNCHANGED <<keep, holder, connexions, down, client, wires, ages>>

\* process_request, server_1_0 and the handler of the operation.
Process(c) ==
  /\ At(c, "process")
  /\ rq[c].op.op # "junk"
  /\ Begin(c)

\* What the handler of the operation returns: the value found, or the number of
\* values changed, added to what gret was.
Answer(r) ==
  LET res == Store!Result(r.op, [store EXCEPT ![r.op.name] = r.found])
  IN [id |-> r.id, res |-> IF r.op.op = "set" THEN r.gret + res ELSE res]

\* The backend has done its work, the answer is made up.
Processed(c) ==
  /\ At(c, "act")
  /\ store' = Store!Effect(rq[c].op, store)
  /\ rq' = [rq EXCEPT ![c] = Answer(@)]
  /\ Goto(c, "send")
  /\ UNCHANGED <<keep, holder, connexions, down, client, wires, ages>>

\* The request does not parse: no results, the connection is given up.
ProcessJunk(c) ==
  /\ At(c, "process")
  /\ rq[c].op.op = "junk"
  /\ GiveUp(c)
  /\ UNCHANGED <<rq, server, client, outbox, ages>>

\* cfgs_setval_rq_handler meets a backend that returns -1: "continue" without
\* moving to the next backend.
ProcessFails(c) ==
  /\ BackendMayFail
  /\ At(c, "process")
  /\ rq[c].op.op = "set"
  /\ rq' = [rq EXCEPT ![c].gret = -1]
  /\ Goto(c, "spin")
  /\ UNCHANGED <<keep, server, client, wires, ages>>

\* ... and asks the same backend again, until one try succeeds.  The -1 of the
\* failures stays in gret, so that the answer counts one value too few.
ProcessAgain(c) == At(c, "spin") /\ Begin(c)

\* The answer can be sent to the end: there is room for it, or the client reads
\* while it is sent, or sending fails because the client has closed.
CanSend(c) == Len(outbox[c]) < SndBuf \/ cli[c] \in {"waiting", "closed"}

\* http_server_send; it fails when the client has closed.  While it cannot be
\* done, cfgst_fullsend repeats it without a limit.
Send(c) ==
  /\ At(c, "send")
  /\ CanSend(c)
  /\ keep' = [keep EXCEPT ![c] = cli[c] # "closed"]
  /\ outbox' = IF cli[c] = "closed" THEN outbox
               ELSE [outbox EXCEPT ![c] = Append(@, rq[c])]
  /\ Goto(c, "unlock")
  /\ UNCHANGED <<rq, server, client, srvOpen, inbox, ages>>

\* Mutant: the loop is left without dec_conn_num.
UnlockUncounted(c) ==
  /\ At(c, "unlock")
  /\ holder' = NoConn
  /\ Goto(c, IF keep[c] THEN "lock" ELSE "close")
  /\ lockAge' = [lockAge EXCEPT ![c] = 0]
  /\ UNCHANGED <<rq, keep, connexions, store, down, client, wires, recvAge, cliAge>>

\* Mutant: keep_alive is not tested.
UnlockKeepsOn(c) ==
  /\ At(c, "unlock")
  /\ holder' = NoConn
  /\ Goto(c, "lock")
  /\ lockAge' = [lockAge EXCEPT ![c] = 0]
  /\ UNCHANGED <<rq, keep, connexions, store, down, client, wires, recvAge, cliAge>>

\* unlock_backends, and the test of keep_alive.
UnlockBackends(c) ==
  /\ At(c, "unlock")
  /\ holder' = NoConn
  /\ Goto(c, IF keep[c] THEN "lock" ELSE "dec")
  /\ lockAge' = [lockAge EXCEPT ![c] = 0]
  /\ UNCHANGED <<rq, keep, connexions, store, down, client, wires, recvAge, cliAge>>

\* dec_conn_num.
DecConnNum(c) ==
  /\ At(c, "dec")
  /\ connexions' = connexions - 1
  /\ Goto(c, "close")
  /\ UNCHANGED <<rq, keep, holder, store, down, client, wires, ages>>

\* EXIT_HPR: close the connection, end the thread.
ExitHpr(c) ==
  /\ At(c, "close")
  /\ srvOpen' = [srvOpen EXCEPT ![c] = FALSE]
  /\ inbox' = [inbox EXCEPT ![c] = <<>>]
  /\ Goto(c, "done")
  /\ UNCHANGED <<rq, keep, server, client, outbox, ages>>

\* sigterm_handler: _exit, whatever the other threads are doing.
Sigterm ==
  /\ down = "no"
  /\ Ends("exited")

-----------------------------------------------------------------------------
\* Nothing can happen for c but the passing of time or a client's own choice.
Waits(c) ==
  /\ \/ pc[c] = "none" /\ cli[c] = "off"
     \/ pc[c] \in {"done", "spin"}
     \/ pc[c] = "lock" /\ holder # NoConn /\ lockAge[c] < LockTout
     \/ pc[c] = "send" /\ ~CanSend(c)
     \/ pc[c] = "recv" /\ inbox[c] = <<>> /\ cli[c] # "closed" /\ recvAge[c] < SockTout
  /\ cli[c] = "waiting" => outbox[c] = <<>> /\ srvOpen[c] /\ cliAge[c] < SockTout

Older(age, bound, waiting) ==
  [c \in Conns |-> IF c \in waiting /\ age[c] < bound THEN age[c] + 1 ELSE age[c]]

\* A tick passes.
Tick ==
  /\ down = "no"
  /\ Prompt => \A c \in Conns : Waits(c)
  /\ lockAge' = Older(lockAge, LockTout, {c \in Conns : pc[c] = "lock"})
  /\ recvAge' = Older(recvAge, SockTout, {c \in Conns : pc[c] = "recv"})
  /\ cliAge' = Older(cliAge, SockTout, {c \in Conns : cli[c] = "waiting"})
  /\ UNCHANGED <<handler, server, client, wires>>

HandlerStep(c) ==
  \/ Accept(c)
  \/ CheckLoad(c)
  \/ IncConnNum(c)
  \/ LockBackends(c)
  \/ LockTimeout(c)
  \/ Recv(c)
  \/ RecvFails(c)
  \/ Process(c)
  \/ Processed(c)
  \/ ProcessJunk(c)
  \/ ProcessFails(c)
  \/ Send(c)
  \/ UnlockBackends(c)
  \/ DecConnNum(c)
  \/ ExitHpr(c)

ClientStep(c) ==
  \/ Connect(c)
  \/ ReadAnswer(c)
  \/ NoAnswer(c)
  \/ Disconnect(c)
  \/ SendFails(c)
  \/ \E op \in Requests : SendRq(c, op)

Next ==
  \/ Sigterm
  \/ Tick
  \/ \E c \in Conns : HandlerStep(c) \/ ProcessAgain(c) \/ ClientStep(c)

Spec == Init /\ [][Next]_vars

\* Threads run and time passes; clients, signals and a failing backend do as
\* they please.
FairSpec == Spec /\ WF_vars(Tick) /\ \A c \in Conns : WF_vars(HandlerStep(c))

-----------------------------------------------------------------------------
Holding == {"recv", "process", "spin", "act", "send", "unlock"}
Counted == Holding \cup {"lock", "dec"}

TypeOK ==
  /\ pc \in [Conns -> Counted \cup {"none", "check", "inc", "close", "done"}]
  /\ keep \in [Conns -> BOOLEAN]
  /\ holder \in Conns \cup {NoConn}
  /\ connexions \in 0 .. Cardinality(Conns)
  /\ store \in [Names -> Values \cup {NoValue, Torn}]
  /\ srvOpen \in [Conns -> BOOLEAN]
  /\ cli \in [Conns -> {"off", "idle", "waiting", "closed"}]
  /\ told \in [Conns -> Seq(0 .. MaxRq)]
  /\ lockAge \in [Conns -> 0 .. LockTout]
  /\ recvAge \in [Conns -> 0 .. SockTout]
  /\ cliAge \in [Conns -> 0 .. SockTout]
  /\ down \in {"no", "aborted", "exited"}

\* m_connexions is the number of handlers between inc_conn_num and
\* dec_conn_num on every path through http_process_request, so that the
\* admission test sees the real load and the counter never goes negative.
LoadIsCounted == connexions = Cardinality({c \in Conns : pc[c] \in Counted})

\* The backends are locked exactly by the handler that works on a request,
\* and a handler that leaves its loop has let go of them.
LockMatchesHandler ==
  \A c \in Conns : holder = c <=> pc[c] \in Holding

\* The daemon implements the store of ConfigStore: though the backends work on a
\* value in several steps and handlers run at the same time, each request acts
\* as a whole, in order and at most once, and is answered from what it found.
StoreSpec == Store!Spec

\* A handler whose client has hung up ends, with the daemon at the latest,
\* unless it asks a failing backend over and over: it is stuck neither in its
\* loop nor behind handlers that wait for their clients, spin, or send to clients
\* that do not read.
HandlerEnds == \A c \in Conns : cli[c] = "closed" ~> pc[c] \in {"done", "spin"}

-----------------------------------------------------------------------------
\* What comments and assertions of the source say, and the code does not do.

\* cfgs_getval: "@return a list of entries or NULL" of the value asked for.
AnswerIsMine ==
  \A c \in Conns : \A k \in 1 .. Len(told[c]) : told[c][k] \in {0, k}
=============================================================================
