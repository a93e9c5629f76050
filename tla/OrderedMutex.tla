----------------------------- MODULE OrderedMutex -----------------------------
(***************************************************************************)
(* The ordered, polling mutexes of LinCS: lib_cfgs_tools/cfgs_mutex.c.     *)
(*                                                                         *)
(* A mutex is registered with an order.  The table m_mutexes remembers for *)
(* each one the thread that took it, and cfgs_mutex_lock first asserts,    *)
(* from that table, that the caller holds no mutex of a higher order.  It  *)
(* then polls pthread_mutex_trylock a bounded number of times.  The table  *)
(* is written after the mutex has been taken and cleared after it has been *)
(* released, in both cases without any lock, so the table and the mutexes  *)
(* it describes disagree for a while: those are steps of their own here.   *)
(*                                                                         *)
(* Which mutexes a thread asks for while it holds others is a property of  *)
(* the callers, given by the constant MayNest; what daemon/cfgs_configd.c  *)
(* does is ConfigdNesting.                                                 *)
(***************************************************************************)
EXTENDS Integers

CONSTANTS
  Threads,   \* threads of the process
  Orders,    \* the registered mutexes, named by their order (CFGS_MO_...)
  Attempts,  \* MUTEX_LOCK_TOUT * LOCK_RESOLUTION polls per locking attempt
  MayNest,   \* <<h, m>> \in MayNest: m may be requested while h is held
  NoThread   \* CFGS_INVALID_THR

\* Orders beyond those that find_ord and assert_no_higher look at.
CFGS_MO_MAX == 126

ASSUME OrdersAssumption == Orders \subseteq 0 .. (CFGS_MO_MAX - 1)
ASSUME AttemptsAssumption == Attempts \in Nat \ {0}
ASSUME NestAssumption == MayNest \subseteq Orders \X Orders
ASSUME NoThreadAssumption == NoThread \notin Threads

VARIABLES
  holder,    \* the pthread mutexes: holder[m] is a thread or NoThread
  record,    \* m_mutexes[m].thread
  pc,        \* where in cfgs_mutex_lock or cfgs_mutex_unlock a thread is
  target,    \* the mutex that call is about
  attempts,  \* polls left in that call
  aborted    \* "no", or the assertion that aborted the process

vars == <<holder, record, pc, target, attempts, aborted>>

\* The nesting of the callers in cfgs_configd.c, in terms of CFGS_MO_CONN = 10,
\* CFGS_MO_BACKENDS = 20, CFGS_MO_NOTIF_QUEUE = 30, CFGS_MO_NOTIF_LIST = 40:
\* a request handler queues a notification or adds a registration while it
\* holds the backends; nothing else is nested.
ConfigdNesting == {<<20, 30>>, <<20, 40>>}

\* All threads hold nothing, all mutexes are registered (cfgs_mutex_register).
Init ==
  /\ holder = [m \in Orders |-> NoThread]
  /\ record = [m \in Orders |-> NoThread]
  /\ pc = [t \in Threads |-> "idle"]
  /\ target \in [Threads -> Orders]
  /\ attempts = [t \in Threads |-> Attempts]
  /\ aborted = "no"

Running(t, at) == aborted = "no" /\ pc[t] = at

\* Mutant: callers that nest their mutexes in any order.
CallerNestsAnyhow(t, m) == \A h \in Orders : holder[h] = t => h # m

\* The callers: t does not ask for what it holds, and nests as MayNest says.
CallerMayLock(t, m) ==
  \A h \in Orders : holder[h] = t => h # m /\ <<h, m>> \in MayNest

\* assert_no_higher: the table shows no mutex of a higher order taken by t.
NoHigherRecorded(t, m) == \A h \in Orders : record[h] = t => h <= m

-----------------------------------------------------------------------------
\* cfgs_mutex_lock up to the polling loop.  When assert_no_higher fails, the
\* process is aborted.
Lock(t, m) ==
  /\ Running(t, "idle")
  /\ CallerMayLock(t, m)
  /\ IF NoHigherRecorded(t, m)
     THEN /\ pc' = [pc EXCEPT ![t] = "trylock"]
          /\ target' = [target EXCEPT ![t] = m]
          /\ attempts' = [attempts EXCEPT ![t] = Attempts]
          /\ UNCHANGED aborted
     ELSE /\ aborted' = "order"
          /\ UNCHANGED <<pc, target, attempts>>
  /\ UNCHANGED <<holder, record>>

\* Mutant: the mutex is taken from its holder.
TryLockSteals(t) ==
  /\ Running(t, "trylock")
  /\ holder' = [holder EXCEPT ![target[t]] = t]
  /\ pc' = [pc EXCEPT ![t] = "account"]
  /\ UNCHANGED <<record, target, attempts, aborted>>

\* pthread_mutex_trylock succeeds.
TryLock(t) ==
  /\ Running(t, "trylock")
  /\ holder[target[t]] = NoThread
  /\ holder' = [holder EXCEPT ![target[t]] = t]
  /\ pc' = [pc EXCEPT ![t] = "account"]
  /\ UNCHANGED <<record, target, attempts, aborted>>

\* Mutant: polls are not counted.
TryLockBusyForever(t) ==
  /\ Running(t, "trylock")
  /\ holder[target[t]] # NoThread
  /\ attempts[t] > 1
  /\ UNCHANGED vars

\* Mutant: one poll too many.
TryLockBusyOnceMore(t) ==
  /\ Running(t, "trylock")
  /\ holder[target[t]] # NoThread
  /\ attempts[t] >= 1
  /\ attempts' = [attempts EXCEPT ![t] = @ - 1]
  /\ UNCHANGED <<holder, record, pc, target, aborted>>

\* pthread_mutex_trylock fails and polls are left: nanosleep and try again.
TryLockBusy(t) ==
  /\ Running(t, "trylock")
  /\ holder[target[t]] # NoThread
  /\ attempts[t] > 1
  /\ attempts' = [attempts EXCEPT ![t] = @ - 1]
  /\ UNCHANGED <<holder, record, pc, target, aborted>>

\* The last poll fails: the call returns non-zero and its caller's
\* lassert(ret == 0) aborts the process.
TryLockTimeout(t) ==
  /\ Running(t, "trylock")
  /\ holder[target[t]] # NoThread
  /\ attempts[t] <= 1
  /\ pc' = [pc EXCEPT ![t] = "idle"]
  /\ aborted' = "timeout"
  /\ UNCHANGED <<holder, record, target, attempts>>

\* "account it": the table is told, after the fact, who took the mutex.
Account(t) ==
  /\ Running(t, "account")
  /\ record' = [record EXCEPT ![target[t]] = t]
  /\ pc' = [pc EXCEPT ![t] = "idle"]
  /\ UNCHANGED <<holder, target, attempts, aborted>>

\* cfgs_mutex_unlock up to and including pthread_mutex_unlock.
Unlock(t, m) ==
  /\ Running(t, "idle")
  /\ holder[m] = t
  /\ holder' = [holder EXCEPT ![m] = NoThread]
  /\ target' = [target EXCEPT ![t] = m]
  /\ pc' = [pc EXCEPT ![t] = "cleanup"]
  /\ UNCHANGED <<record, attempts, aborted>>

\* Mutant: the entry is not cleaned up.
CleanupForgotten(t) ==
  /\ Running(t, "cleanup")
  /\ pc' = [pc EXCEPT ![t] = "idle"]
  /\ UNCHANGED <<holder, record, target, attempts, aborted>>

\* "cleanup corresponding entry": whoever holds the mutex by now.
Cleanup(t) ==
  /\ Running(t, "cleanup")
  /\ record' = [record EXCEPT ![target[t]] = NoThread]
  /\ pc' = [pc EXCEPT ![t] = "idle"]
  /\ UNCHANGED <<holder, target, attempts, aborted>>

\* The steps of a call in progress.
Progress(t) ==
  TryLock(t) \/ TryLockBusy(t) \/ TryLockTimeout(t) \/ Account(t) \/ Cleanup(t)

Next ==
  \E t \in Threads :
    \/ TryLock(t)
    \/ TryLockBusy(t)
    \/ TryLockTimeout(t)
    \/ Account(t)
    \/ Cleanup(t)
    \/ \E m \in Orders : Lock(t, m) \/ Unlock(t, m)

Spec == Init /\ [][Next]_vars

\* A thread inside a call is scheduled again: it never blocks in one, it polls.
FairSpec == Spec /\ \A t \in Threads : WF_vars(Progress(t))

-----------------------------------------------------------------------------
TypeOK ==
  /\ holder \in [Orders -> Threads \cup {NoThread}]
  /\ record \in [Orders -> Threads \cup {NoThread}]
  /\ pc \in [Threads -> {"idle", "trylock", "account", "cleanup"}]
  /\ target \in [Threads -> Orders]
  /\ attempts \in [Threads -> 1 .. Attempts]
  /\ aborted \in {"no", "order", "timeout"}

\* The table never accuses a thread that has let go of a mutex: an entry that
\* names t means that t holds the mutex or is about to clear the entry itself
\* (cfgs_mutex.c accounts and cleans up outside the mutex, so an entry could
\* outlive the ownership it describes).
RecordSound ==
  \A m \in Orders, t \in Threads :
    record[m] = t => holder[m] = t \/ (pc[t] = "cleanup" /\ target[t] = m)

\* A thread that waits for a mutex holds only mutexes of lower orders, which
\* is what assert_no_higher is there to enforce.
LocksAscend ==
  \A t \in Threads : pc[t] = "trylock" =>
    \A h \in Orders : holder[h] = t => h < target[t]

\* A program that nests its mutexes in ascending order is never aborted by
\* assert_no_higher, however stale the table gets.
NoFalseAlarm == aborted # "order"

\* No set of threads waits on itself: the point of ordering the mutexes.
NoWaitCycle ==
  \A S \in (SUBSET Threads) \ {{}} :
    \E t \in S : pc[t] = "trylock" => holder[target[t]] \notin S

\* Every locking attempt ends, with the mutex or with a timeout, whatever the
\* other threads do with the mutex in the meantime.
LockReturns ==
  \A t \in Threads : pc[t] = "trylock" ~> (pc[t] # "trylock" \/ aborted # "no")

-----------------------------------------------------------------------------
\* What the callers see of all this.
NoMutex == CFGS_MO_MAX

\* The mutex each thread is polling.
Want == [t \in Threads |-> IF pc[t] = "trylock" THEN target[t] ELSE NoMutex]

Abstract == INSTANCE TimedLock WITH want <- Want, down <- (aborted # "no")

\* The polling calls implement mutexes with a timeout.
AbstractSpec == Abstract!Spec
=============================================================================
