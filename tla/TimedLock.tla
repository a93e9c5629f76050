------------------------------ MODULE TimedLock ------------------------------
(***************************************************************************)
(* What cfgs_mutex.h promises of a set of mutexes whose locking attempts   *)
(* time out: "Same as pthread_mutex_lock.  Will timeout after              *)
(* MUTEX_LOCK_TOUT."  A mutex has at most one holder, a request is granted *)
(* only while the mutex is free, and it is refused only while another      *)
(* holder keeps the mutex busy.  A refusal is fatal to the process: every  *)
(* caller of cfgs_mutex_lock asserts that it returned 0.                   *)
(***************************************************************************)
CONSTANTS
  Threads,   \* threads of the process
  Orders,    \* the registered mutexes, each named by its order
  NoThread,  \* CFGS_INVALID_THR: no thread
  NoMutex    \* no request pending

VARIABLES
  holder,    \* holder[m]: the thread that holds m, or NoThread
  want,      \* want[t]: the mutex thread t is waiting for, or NoMutex
  down       \* the process has been aborted

vars == <<holder, want, down>>

Init ==
  /\ holder = [m \in Orders |-> NoThread]
  /\ want = [t \in Threads |-> NoMutex]
  /\ down = FALSE

\* Thread t calls cfgs_mutex_lock for mutex m.
Request(t, m) ==
  /\ ~down
  /\ want[t] = NoMutex
  /\ want' = [want EXCEPT ![t] = m]
  /\ UNCHANGED <<holder, down>>

\* The mutex is free and t gets it.
Grant(t) ==
  /\ ~down
  /\ want[t] # NoMutex
  /\ holder[want[t]] = NoThread
  /\ holder' = [holder EXCEPT ![want[t]] = t]
  /\ want' = [want EXCEPT ![t] = NoMutex]
  /\ UNCHANGED down

\* The wait of t is over and the mutex is still held.
Refuse(t) ==
  /\ ~down
  /\ want[t] # NoMutex
  /\ holder[want[t]] # NoThread
  /\ down' = TRUE
  /\ want' = [want EXCEPT ![t] = NoMutex]
  /\ UNCHANGED holder

\* The holder calls cfgs_mutex_unlock.
Release(t, m) ==
  /\ ~down
  /\ want[t] = NoMutex
  /\ holder[m] = t
  /\ holder' = [holder EXCEPT ![m] = NoThread]
  /\ UNCHANGED <<want, down>>

\* The lock-order assertion aborts the process.
Abort ==
  /\ ~down
  /\ down' = TRUE
  /\ UNCHANGED <<holder, want>>

Next ==
  \/ Abort
  \/ \E t \in Threads :
       \/ Grant(t)
       \/ Refuse(t)
       \/ \E m \in Orders : Request(t, m) \/ Release(t, m)

Spec == Init /\ [][Next]_vars
=============================================================================
