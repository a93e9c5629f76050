------------------------------ MODULE Descriptors ------------------------------
(***************************************************************************)
(* The descriptors of the configuration daemon.  A handler knows its       *)
(* connection by a number, the number of a closed descriptor is given to   *)
(* the next file or connection that is opened, and a connection that ends  *)
(* is closed at two places: by report_error in cfgs_protocol.c, which      *)
(* cfgsp_process_rq calls when no request came or none could be read, and  *)
(* by EXIT_HPR in cfgs_configd.c, which every handler ends with.           *)
(***************************************************************************)
EXTENDS Integers

CONSTANTS
  Conns,    \* connections of clients, each with its handler
  MaxFd,    \* descriptors beyond those the daemon keeps open
  NoConn    \* nobody holds m_backends_mutex

ASSUME ConstantsAssumption ==
  /\ MaxFd \in Nat \ {0}
  /\ NoConn \notin Conns

Fds == 1 .. MaxFd

\* What may be open: a connection, the file a handler's backend works on, or a
\* file whose descriptor on_match_get has returned without closing.
Conn(c) == [conn |-> c]
File(c) == [file |-> c]
Forgotten == [lost |-> 0]
Nothing == [none |-> 0]

VARIABLES
  fdt,      \* fdt[f]: what descriptor f refers to
  pc,       \* pc[c]: where the handler of c is
  csock,    \* csock[c]: the descriptor http_process_request was given
  file,     \* file[c]: the descriptor the backend of c has opened
  keep,     \* keep[c]: keep_alive
  holder,   \* the connection whose handler holds the backends
  down      \* the server has returned or the process has aborted

vars == <<fdt, pc, csock, file, keep, holder, down>>

Init ==
  /\ fdt = [f \in Fds |-> Nothing]
  /\ pc = [c \in Conns |-> "none"]
  /\ csock = [c \in Conns |-> 0]
  /\ file = [c \in Conns |-> 0]
  /\ keep = [c \in Conns |-> TRUE]
  /\ holder = NoConn
  /\ down = FALSE

Unused == {f \in Fds : fdt[f] = Nothing}

\* open and accept return the lowest number that is not in use.
Opens(what, f) ==
  /\ f \in Unused /\ \A g \in Unused : f <= g
  /\ fdt' = [fdt EXCEPT ![f] = what]

\* close frees the number, whatever it refers to by now.
Closes(f) == fdt' = [fdt EXCEPT ![f] = Nothing]

Goto(c, label) == pc' = [pc EXCEPT ![c] = label]
At(c, label) == ~down /\ pc[c] = label

-----------------------------------------------------------------------------
\* cfgst_start_server: accept, and a thread for the connection.
Accept(c) ==
  /\ At(c, "none")
  /\ \E f \in Fds : Opens(Conn(c), f) /\ csock' = [csock EXCEPT ![c] = f]
  /\ Goto(c, "lock")
  /\ UNCHANGED <<file, keep, holder, down>>

\* accept fails for want of a descriptor: the server returns, the daemon ends.
AcceptFails(c) ==
  /\ At(c, "none")
  /\ Unused = {}
  /\ down' = TRUE
  /\ UNCHANGED <<fdt, pc, csock, file, keep, holder>>

\* inc_conn_num refuses: straight to EXIT_HPR.
Refuse(c) ==
  /\ At(c, "lock")
  /\ Goto(c, "close")
  /\ UNCHANGED <<fdt, csock, file, keep, holder, down>>

LockBackends(c) ==
  /\ At(c, "lock")
  /\ holder = NoConn
  /\ holder' = c
  /\ Goto(c, "recv")
  /\ UNCHANGED <<fdt, csock, file, keep, down>>

\* The number names a connection, on which requests come and answers go.
NamesConnection(c) == fdt[csock[c]] \in [conn : Conns]

\* A request for the backends: the file of the value is opened, ...
OpenValue(c) ==
  /\ At(c, "recv")
  /\ NamesConnection(c)
  /\ \E f \in Fds : Opens(File(c), f) /\ file' = [file EXCEPT ![c] = f]
  /\ Goto(c, "file")
  /\ UNCHANGED <<csock, keep, holder, down>>

\* ... which may fail for want of a descriptor.  A new file is then not created
\* and the value not stored; for one that exists, lassert( f >= 0 ) aborts.
OpenFails(c) ==
  /\ At(c, "recv")
  /\ NamesConnection(c)
  /\ Unused = {}
  /\ \/ Goto(c, "send") /\ UNCHANGED down
     \/ down' = TRUE /\ UNCHANGED pc
  /\ UNCHANGED <<fdt, csock, file, keep, holder>>

\* The file holds nothing that can be read: on_match_get returns without close.
ReadFails(c) ==
  /\ At(c, "file")
  /\ fdt' = [fdt EXCEPT ![file[c]] = Forgotten]
  /\ file' = [file EXCEPT ![c] = 0]
  /\ Goto(c, "send")
  /\ UNCHANGED <<csock, keep, holder, down>>

\* Otherwise it is closed after use, ...
CloseValue(c) ==
  /\ At(c, "file")
  /\ Closes(file[c])
  /\ file' = [file EXCEPT ![c] = 0]
  /\ Goto(c, "send")
  /\ UNCHANGED <<csock, keep, holder, down>>

\* ... and the answer is sent to the connection that the number names; sending to
\* anything else fails.
Send(c) ==
  /\ At(c, "send")
  /\ keep' = [keep EXCEPT ![c] = NamesConnection(c)]
  /\ Goto(c, "unlock")
  /\ UNCHANGED <<fdt, csock, file, holder, down>>

\* No request came, or it did not parse: report_error closes the connection.
ReportError(c) ==
  /\ At(c, "recv")
  /\ Closes(csock[c])
  /\ keep' = [keep EXCEPT ![c] = FALSE]
  /\ Goto(c, "unlock")
  /\ UNCHANGED <<csock, file, holder, down>>

UnlockBackends(c) ==
  /\ At(c, "unlock")
  /\ holder' = NoConn
  /\ Goto(c, IF keep[c] THEN "lock" ELSE "close")
  /\ UNCHANGED <<fdt, csock, file, keep, down>>

\* Mutant: the thread ends without closing the connection.
ExitHprOpen(c) ==
  /\ At(c, "close")
  /\ Goto(c, "done")
  /\ UNCHANGED <<fdt, csock, file, keep, holder, down>>

\* Mutant: the number is replaced with CFGST_INVALID_SOCKET.
ExitHprUnset(c) ==
  /\ At(c, "close")
  /\ Closes(csock[c])
  /\ csock' = [csock EXCEPT ![c] = -1]
  /\ Goto(c, "done")
  /\ UNCHANGED <<file, keep, holder, down>>

\* EXIT_HPR closes the number of the connection.
ExitHpr(c) ==
  /\ At(c, "close")
  /\ Closes(csock[c])
  /\ Goto(c, "done")
  /\ UNCHANGED <<csock, file, keep, holder, down>>

Handler(c) ==
  \/ LockBackends(c)
  \/ OpenValue(c)
  \/ OpenFails(c)
  \/ ReadFails(c)
  \/ CloseValue(c)
  \/ Send(c)
  \/ ReportError(c)
  \/ UnlockBackends(c)
  \/ ExitHpr(c)

Next == \E c \in Conns : Accept(c) \/ AcceptFails(c) \/ Refuse(c) \/ Handler(c)

Spec == Init /\ [][Next]_vars

-----------------------------------------------------------------------------
Open == [conn : Conns] \cup [file : Conns] \cup {Forgotten, Nothing}

TypeOK ==
  /\ fdt \in [Fds -> Open]
  /\ pc \in [Conns -> {"none", "lock", "recv", "file", "send", "unlock", "close", "done"}]
  /\ csock \in [Conns -> Fds \cup {0}]
  /\ file \in [Conns -> Fds \cup {0}]
  /\ keep \in [Conns -> BOOLEAN]
  /\ holder \in Conns \cup {NoConn}
  /\ down \in BOOLEAN

\* Whatever the handlers close, a handler that is done has left neither its
\* connection nor a file behind, but for what on_match_get forgot.
NothingLeaks ==
  \A c \in Conns : pc[c] = "done" => \A f \in Fds : fdt[f] \notin {Conn(c), File(c)}

\* Nothing is known by two numbers, or by a number its handler does not know,
\* although handlers close numbers that may be others' by then.
NumbersAreKnown ==
  \A f \in Fds, c \in Conns :
    /\ fdt[f] = Conn(c) => csock[c] = f
    /\ fdt[f] = File(c) => file[c] = f
=============================================================================
