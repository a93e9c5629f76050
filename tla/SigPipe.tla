-------------------------------- MODULE SigPipe --------------------------------
(***************************************************************************)
(* The pipe of signals of lib_cfgs_tools/cfgs_daemon.c.  A handler that    *)
(* may run between any two steps of the program notes each signal in a set *)
(* and writes one byte into a pipe for the first one it notes, so that the *)
(* program finds out in its select loop; cfgs_sigpipe_caught asks for and  *)
(* forgets one signal, and empties the pipe with the last one.  The loop   *)
(* around it is the one cfgs_daemon.h gives: wait for the pipe, then ask   *)
(* for every signal.                                                       *)
(*                                                                         *)
(* A signal that is pending and not blocked is delivered before the        *)
(* program takes another step.                                             *)
(***************************************************************************)
EXTENDS Integers, FiniteSets

CONSTANTS
  Sigs,      \* the signals given to cfgs_sigpipe_start
  NoSig,     \* no signal has been asked for
  PipeCap,   \* bytes the pipe holds
  MaxRaises  \* bound: signals raised

ASSUME SigsAssumption == IsFiniteSet(Sigs) /\ NoSig \notin Sigs
ASSUME BoundsAssumption == PipeCap \in Nat \ {0} /\ MaxRaises \in Nat

VARIABLES
  main,       \* where the program is
  todo,       \* the signals a loop of the program has still to go through
  asked,      \* the argument of cfgs_sigpipe_caught
  mask,       \* the signals the program blocks
  installed,  \* the signals that sigpipe_catcher handles
  pending,    \* the signals raised and not yet delivered
  at,         \* at[s]: how far sigpipe_catcher has come with s
  caught,     \* m_sigpipe_caught_sigs
  cnt,        \* m_sigpipe_caught_cnt
  fds,        \* m_sigpipe_fds: "open" or "closed"
  bytes,      \* bytes in the pipe
  raised,     \* how many signals were raised
  down        \* "no", or why the process has ended

program == <<main, todo, asked, mask>>
kernel == <<installed, pending, at>>
table == <<caught, cnt>>
pipe == <<fds, bytes>>
vars == <<program, kernel, table, pipe, raised, down>>

Init ==
  /\ main = "out" /\ todo = {} /\ asked = NoSig /\ mask = {}
  /\ installed = {} /\ pending = {} /\ at = [s \in Sigs |-> "none"]
  /\ caught = {} /\ cnt = 0
  /\ fds = "closed" /\ bytes = 0
  /\ raised = 0
  /\ down = "no"

\* The signals blocked while sigpipe_catcher runs: sa.sa_mask.
CatcherMask == Sigs

Catching == {s \in Sigs : at[s] # "none"}

Blocked == mask \cup Catching \cup (IF Catching = {} THEN {} ELSE CatcherMask)

\* The program takes a step at label: nothing interrupts it.
Step(label) ==
  /\ down = "no"
  /\ main = label
  /\ Catching = {}
  /\ pending \subseteq Blocked

-----------------------------------------------------------------------------
\* cfgs_sigpipe_start.

\* The sets are emptied and the pipe is opened before any handler is set.
Start ==
  /\ Step("out")
  /\ main' = "install" /\ todo' = Sigs
  /\ caught' = {} /\ cnt' = 0
  /\ fds' = "open" /\ bytes' = 0
  /\ UNCHANGED <<asked, mask, kernel, raised, down>>

Install(s) ==
  /\ Step("install")
  /\ s \in todo
  /\ installed' = installed \cup {s}
  /\ todo' = todo \ {s}
  /\ UNCHANGED <<main, asked, mask, pending, at, table, pipe, raised, down>>

\* sigaction fails for one of the signals: clean up, all of them.
InstallFails ==
  /\ Step("install")
  /\ todo # {}
  /\ main' = "reset" /\ todo' = Sigs
  /\ UNCHANGED <<asked, mask, kernel, table, pipe, raised, down>>

Started ==
  /\ Step("install")
  /\ todo = {}
  /\ main' = "select"
  /\ UNCHANGED <<todo, asked, mask, kernel, table, pipe, raised, down>>

-----------------------------------------------------------------------------
\* The loop of the program and cfgs_sigpipe_caught.

\* select says that the pipe is readable.
Select ==
  /\ Step("select")
  /\ bytes > 0
  /\ main' = "loop" /\ todo' = Sigs
  /\ UNCHANGED <<asked, mask, kernel, table, pipe, raised, down>>

\* cfgs_sigpipe_caught(s) blocks the signals.
Ask(s) ==
  /\ Step("loop")
  /\ s \in todo
  /\ main' = "test" /\ todo' = todo \ {s} /\ asked' = s
  /\ mask' = Sigs
  /\ UNCHANGED <<kernel, table, pipe, raised, down>>

\* Mutant: a signal that was not caught is counted off.
TestUnchecked ==
  /\ Step("test")
  /\ main' = "uncount"
  /\ caught' = caught \ {asked}
  /\ UNCHANGED <<todo, asked, mask, kernel, cnt, pipe, raised, down>>

\* It takes the signal out of the set, ...
Test ==
  /\ Step("test")
  /\ main' = IF asked \in caught THEN "uncount" ELSE "unblock"
  /\ caught' = caught \ {asked}
  /\ UNCHANGED <<todo, asked, mask, kernel, cnt, pipe, raised, down>>

\* Mutant: the signal is counted off and the pipe emptied with any of them.
UncountAny ==
  /\ Step("uncount")
  /\ cnt' = cnt - 1
  /\ main' = "drain"
  /\ UNCHANGED <<todo, asked, mask, kernel, caught, pipe, raised, down>>

\* ... counts it off, ...
Uncount ==
  /\ Step("uncount")
  /\ cnt' = cnt - 1
  /\ main' = IF cnt = 1 THEN "drain" ELSE "unblock"
  /\ UNCHANGED <<todo, asked, mask, kernel, caught, pipe, raised, down>>

\* Mutant: the byte stays in the pipe.
DrainNothing ==
  /\ Step("drain")
  /\ main' = "unblock"
  /\ UNCHANGED <<todo, asked, mask, kernel, table, pipe, raised, down>>

\* ... empties the pipe if it was the last one, ...
Drain ==
  /\ Step("drain")
  /\ bytes' = 0
  /\ main' = "unblock"
  /\ UNCHANGED <<todo, asked, mask, kernel, table, fds, raised, down>>

\* ... and restores the mask.
Unblock ==
  /\ Step("unblock")
  /\ mask' = {}
  /\ main' = "loop"
  /\ UNCHANGED <<todo, asked, kernel, table, pipe, raised, down>>

Waited ==
  /\ Step("loop")
  /\ todo = {}
  /\ main' = "select"
  /\ UNCHANGED <<todo, asked, mask, kernel, table, pipe, raised, down>>

-----------------------------------------------------------------------------
\* cfgs_sigpipe_stop and sigpipe_cleanup.

Stop ==
  /\ Step("select")
  /\ main' = "reset" /\ todo' = Sigs
  /\ UNCHANGED <<asked, mask, kernel, table, pipe, raised, down>>

\* One signal gets its default handler back; the others still have ours.
Reset(s) ==
  /\ Step("reset")
  /\ s \in todo
  /\ installed' = installed \ {s}
  /\ todo' = todo \ {s}
  /\ UNCHANGED <<main, asked, mask, pending, at, table, pipe, raised, down>>

\* The sets are emptied, the pipe is closed.
CloseDown ==
  /\ Step("reset")
  /\ todo = {}
  /\ main' = "out"
  /\ caught' = {} /\ cnt' = 0
  /\ fds' = "closed" /\ bytes' = 0
  /\ UNCHANGED <<todo, asked, mask, kernel, raised, down>>

-----------------------------------------------------------------------------
\* The signals and sigpipe_catcher.

\* Another process raises a signal; raised again while pending it is merged.
Raise(s) ==
  /\ down = "no"
  /\ raised < MaxRaises
  /\ raised' = raised + 1
  /\ pending' = pending \cup {s}
  /\ UNCHANGED <<program, installed, at, table, pipe, down>>

\* The default action of the signals a daemon waits for ends it.
DefaultAction(s) ==
  /\ down = "no"
  /\ s \in pending \ (installed \cup Blocked)
  /\ down' = "killed"
  /\ UNCHANGED <<program, kernel, table, pipe, raised>>

Deliver(s) ==
  /\ down = "no"
  /\ s \in (pending \cap installed) \ Blocked
  /\ pending' = pending \ {s}
  /\ at' = [at EXCEPT ![s] = "note"]
  /\ UNCHANGED <<program, installed, table, pipe, raised, down>>

\* A signal already noted changes nothing.
Note(s) ==
  /\ down = "no"
  /\ at[s] = "note"
  /\ at' = [at EXCEPT ![s] = IF s \in caught THEN "none" ELSE "count"]
  /\ caught' = caught \cup {s}
  /\ UNCHANGED <<program, installed, pending, cnt, pipe, raised, down>>

Count(s) ==
  /\ down = "no"
  /\ at[s] = "count"
  /\ cnt' = cnt + 1
  /\ at' = [at EXCEPT ![s] = IF cnt = 0 THEN "write" ELSE "none"]
  /\ UNCHANGED <<program, installed, pending, caught, pipe, raised, down>>

\* SIGPIPE_ASSERT(rc == 1): the byte must fit into an open pipe.
Write(s) ==
  /\ down = "no"
  /\ at[s] = "write"
  /\ at' = [at EXCEPT ![s] = "none"]
  /\ IF fds = "open" /\ bytes < PipeCap
     THEN bytes' = bytes + 1 /\ UNCHANGED down
     ELSE down' = "assert" /\ UNCHANGED bytes
  /\ UNCHANGED <<program, installed, pending, table, fds, raised>>

-----------------------------------------------------------------------------
Program ==
  \/ Start \/ InstallFails \/ Started
  \/ Select \/ Test \/ Uncount \/ Drain \/ Unblock \/ Waited
  \/ Stop \/ CloseDown
  \/ \E s \in Sigs : Install(s) \/ Ask(s) \/ Reset(s)

Signals ==
  \E s \in Sigs :
    Raise(s) \/ DefaultAction(s) \/ Deliver(s) \/ Note(s) \/ Count(s) \/ Write(s)

Next == Program \/ Signals

Spec == Init /\ [][Next]_vars

\* The program finishes the calls it has made and runs its loop, and the kernel
\* delivers signals; starting and stopping is up to the program.
FairSpec ==
  /\ Spec
  /\ WF_vars(Started \/ CloseDown \/ \E s \in Sigs : Install(s) \/ Reset(s))
  /\ WF_vars(Select \/ Test \/ Uncount \/ Drain \/ Unblock \/ Waited \/ \E s \in Sigs : Ask(s))
  /\ WF_vars(\E s \in Sigs : DefaultAction(s) \/ Deliver(s) \/ Note(s) \/ Count(s) \/ Write(s))

-----------------------------------------------------------------------------
TypeOK ==
  /\ main \in {"out", "install", "select", "loop", "test", "uncount", "drain",
               "unblock", "reset"}
  /\ todo \subseteq Sigs
  /\ asked \in Sigs \cup {NoSig}
  /\ mask \subseteq Sigs
  /\ installed \subseteq Sigs
  /\ pending \subseteq Sigs
  /\ at \in [Sigs -> {"none", "note", "count", "write"}]
  /\ caught \subseteq Sigs
  /\ cnt \in Nat
  /\ fds \in {"open", "closed"}
  /\ bytes \in 0 .. PipeCap
  /\ raised \in 0 .. MaxRaises
  /\ down \in {"no", "killed", "assert"}

\* Whenever the program is about to wait in select, the pipe is readable if
\* and only if there is a caught signal to ask for: no signal is slept through
\* and no round of questions is for nothing.
WakesForSignals ==
  main = "select" /\ Catching = {} => (bytes > 0 <=> caught # {})

\* The handler finds the pipe open and with room for its byte, even when
\* signals arrive while the handlers are being set or taken away.
NoAssertion == down # "assert"

\* A caught signal is asked for, in the course of the program's loop.
CaughtIsReported ==
  \A s \in Sigs : s \in caught ~> (s \notin caught \/ down # "no")
=============================================================================
