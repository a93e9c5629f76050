-------------------------- MODULE OrderedMutex_proofs --------------------------
(***************************************************************************)
(* Proofs about OrderedMutex, for any set of threads and of mutexes, any   *)
(* number of polls and, where the theorem says so, any nesting.            *)
(*                                                                         *)
(* Typing comes first.  RecordSound is inductive relative to it.  Under an *)
(* ascending nesting, LocksAscend is inductive too, and NoFalseAlarm needs *)
(* both: an entry that names t stands for a mutex that t holds, which the  *)
(* nesting keeps below the one t asks for.                                 *)
(***************************************************************************)
EXTENDS OrderedMutex, WellFoundedInduction, TLAPS

\* A program whose callers nest mutexes by ascending order, as cfgs_configd.c
\* does.
Ascending == \A h, m \in Orders : <<h, m>> \in MayNest => h < m

LEMMA OrdersAreIntegers == \A m \in Orders : m \in Int
  BY OrdersAssumption

(***************************************************************************)
(* Every variable stays in its type.                                       *)
(***************************************************************************)
THEOREM Typing == Spec => []TypeOK
<1>1. Init => TypeOK
  BY AttemptsAssumption DEF Init, TypeOK
<1>2. TypeOK /\ [Next]_vars => TypeOK'
  <2> SUFFICES ASSUME TypeOK, [Next]_vars PROVE TypeOK'
    OBVIOUS
  <2> USE DEF TypeOK, Running
  <2>1. ASSUME NEW t \in Threads, TryLock(t) PROVE TypeOK'
    BY <2>1 DEF TryLock
  <2>2. ASSUME NEW t \in Threads, TryLockBusy(t) PROVE TypeOK'
    BY <2>2, AttemptsAssumption DEF TryLockBusy
  <2>3. ASSUME NEW t \in Threads, TryLockTimeout(t) PROVE TypeOK'
    BY <2>3 DEF TryLockTimeout
  <2>4. ASSUME NEW t \in Threads, Account(t) PROVE TypeOK'
    BY <2>4 DEF Account
  <2>5. ASSUME NEW t \in Threads, Cleanup(t) PROVE TypeOK'
    BY <2>5 DEF Cleanup
  <2>6. ASSUME NEW t \in Threads, NEW m \in Orders,
                   Lock(t, m), NoHigherRecorded(t, m)
        PROVE TypeOK'
    BY <2>6, AttemptsAssumption DEF Lock
  <2>7. ASSUME NEW t \in Threads, NEW m \in Orders,
                   Lock(t, m), ~NoHigherRecorded(t, m)
        PROVE TypeOK'
    BY <2>7 DEF Lock
  <2>8. ASSUME NEW t \in Threads, NEW m \in Orders, Unlock(t, m) PROVE TypeOK'
    BY <2>8 DEF Unlock
  <2>9. CASE UNCHANGED vars
    BY <2>9 DEF vars
  <2>10. QED
    BY <2>1, <2>2, <2>3, <2>4, <2>5, <2>6, <2>7, <2>8, <2>9 DEF Next
<1>3. QED
  BY <1>1, <1>2, PTL DEF Spec

\* The thread between trylock and the table entry holds the mutex.
Accounting == \A t \in Threads : pc[t] = "account" => holder[target[t]] = t

SoundInv == RecordSound /\ Accounting

(***************************************************************************)
(* The table never accuses a thread that has let go of a mutex, however    *)
(* the callers nest their mutexes.                                         *)
(***************************************************************************)
LEMMA SoundInvInductive == Spec => []SoundInv
<1>1. Init => SoundInv
  BY NoThreadAssumption DEF Init, SoundInv, RecordSound, Accounting
<1>2. TypeOK /\ SoundInv /\ [Next]_vars => SoundInv'
  <2> SUFFICES ASSUME TypeOK, SoundInv, [Next]_vars PROVE SoundInv'
    OBVIOUS
  <2> USE NoThreadAssumption
      DEF TypeOK, SoundInv, RecordSound, Accounting, Running
  <2>1. ASSUME NEW t \in Threads, TryLock(t) PROVE SoundInv'
    BY <2>1 DEF TryLock
  <2>2. ASSUME NEW t \in Threads, TryLockBusy(t) PROVE SoundInv'
    BY <2>2 DEF TryLockBusy
  <2>3. ASSUME NEW t \in Threads, TryLockTimeout(t) PROVE SoundInv'
    BY <2>3 DEF TryLockTimeout
  <2>4. ASSUME NEW t \in Threads, Account(t) PROVE SoundInv'
    BY <2>4 DEF Account
  <2>5. ASSUME NEW t \in Threads, Cleanup(t) PROVE SoundInv'
    BY <2>5 DEF Cleanup
  <2>6. ASSUME NEW t \in Threads, NEW m \in Orders,
                   Lock(t, m), NoHigherRecorded(t, m)
        PROVE SoundInv'
    BY <2>6 DEF Lock
  <2>7. ASSUME NEW t \in Threads, NEW m \in Orders,
                   Lock(t, m), ~NoHigherRecorded(t, m)
        PROVE SoundInv'
    BY <2>7 DEF Lock
  <2>8. ASSUME NEW t \in Threads, NEW m \in Orders, Unlock(t, m)
        PROVE SoundInv'
    BY <2>8 DEF Unlock
  <2>9. CASE UNCHANGED vars
    BY <2>9 DEF vars
  <2>10. QED
    BY <2>1, <2>2, <2>3, <2>4, <2>5, <2>6, <2>7, <2>8, <2>9 DEF Next
<1>3. QED
  BY <1>1, <1>2, Typing, PTL DEF Spec

(***************************************************************************)
(* An entry of the table that names t means that t holds the mutex or is   *)
(* about to clear the entry itself.                                        *)
(***************************************************************************)
THEOREM RecordSoundness == Spec => []RecordSound
<1>1. SoundInv => RecordSound
  BY DEF SoundInv
<1>2. QED
  BY <1>1, SoundInvInductive, PTL

-----------------------------------------------------------------------------
\* A waiting thread holds only lower mutexes; the process has not been
\* aborted for a violation of the order.
AscendInv == LocksAscend /\ NoFalseAlarm

(***************************************************************************)
(* When callers nest by ascending order, the order check never fires and   *)
(* waiting threads hold only mutexes below the one they wait for.          *)
(***************************************************************************)
LEMMA AscendInvInductive ==
  ASSUME Ascending
  PROVE  Spec => []AscendInv
<1>1. Init => AscendInv
  BY DEF Init, AscendInv, LocksAscend, NoFalseAlarm
<1>2. TypeOK /\ SoundInv /\ AscendInv /\ [Next]_vars => AscendInv'
  <2> SUFFICES ASSUME TypeOK, SoundInv, AscendInv, [Next]_vars
               PROVE AscendInv'
    OBVIOUS
  <2> USE NoThreadAssumption
      DEF TypeOK, AscendInv, LocksAscend, NoFalseAlarm, Running
  <2>1. ASSUME NEW t \in Threads, TryLock(t) PROVE AscendInv'
    BY <2>1 DEF TryLock
  <2>2. ASSUME NEW t \in Threads, TryLockBusy(t) PROVE AscendInv'
    BY <2>2 DEF TryLockBusy
  <2>3. ASSUME NEW t \in Threads, TryLockTimeout(t) PROVE AscendInv'
    BY <2>3 DEF TryLockTimeout
  <2>4. ASSUME NEW t \in Threads, Account(t) PROVE AscendInv'
    BY <2>4 DEF Account
  <2>5. ASSUME NEW t \in Threads, Cleanup(t) PROVE AscendInv'
    BY <2>5 DEF Cleanup
  <2>6. ASSUME NEW t \in Threads, NEW m \in Orders,
                   Lock(t, m), NoHigherRecorded(t, m)
        PROVE AscendInv'
    <3>1. \A h \in Orders : holder[h] = t => h < m
      BY <2>6, Ascending DEF Lock, CallerMayLock, Ascending
    <3>2. QED
      BY <2>6, <3>1 DEF Lock
  <2>7. ASSUME NEW t \in Threads, NEW m \in Orders,
                   Lock(t, m), ~NoHigherRecorded(t, m)
        PROVE AscendInv'
    <3>1. PICK h \in Orders : record[h] = t /\ ~(h <= m)
      BY <2>7 DEF Lock, NoHigherRecorded
    <3>2. holder[h] = t
      BY <2>7, <3>1 DEF Lock, SoundInv, RecordSound
    <3>3. h < m
      BY <2>7, <3>2, Ascending DEF Lock, CallerMayLock, Ascending
    <3>4. QED
      BY <3>1, <3>3, OrdersAreIntegers
  <2>8. ASSUME NEW t \in Threads, NEW m \in Orders, Unlock(t, m)
        PROVE AscendInv'
    BY <2>8 DEF Unlock
  <2>9. CASE UNCHANGED vars
    BY <2>9 DEF vars
  <2>10. QED
    BY <2>1, <2>2, <2>3, <2>4, <2>5, <2>6, <2>7, <2>8, <2>9 DEF Next
<1>3. QED
  BY <1>1, <1>2, Typing, SoundInvInductive, PTL DEF Spec

(***************************************************************************)
(* In such a program a thread that waits for a mutex holds only lower ones.*)
(***************************************************************************)
THEOREM AscendingLocks ==
  ASSUME Ascending
  PROVE  Spec => []LocksAscend
<1>1. AscendInv => LocksAscend
  BY DEF AscendInv
<1>2. QED
  BY <1>1, AscendInvInductive, PTL

(***************************************************************************)
(* In such a program assert_no_higher never aborts the process.            *)
(***************************************************************************)
THEOREM OrderCheckHasNoFalseAlarm ==
  ASSUME Ascending
  PROVE  Spec => []NoFalseAlarm
<1>1. AscendInv => NoFalseAlarm
  BY DEF AscendInv
<1>2. QED
  BY <1>1, AscendInvInductive, PTL

-----------------------------------------------------------------------------
\* A nonempty set of orders has a greatest element: orders are bounded.
LEMMA GreatestOrder ==
  ASSUME NEW T \in SUBSET Orders, T # {}
  PROVE  \E x \in T : \A y \in T : y <= x
<1> DEFINE Lt == OpToRel(<, Nat)
           U == {n \in Nat : \E x \in T : n = CFGS_MO_MAX - x}
<1>1. \A x \in T : CFGS_MO_MAX - x \in U /\ x \in Int
  BY OrdersAssumption DEF CFGS_MO_MAX
<1>2. U \subseteq Nat /\ U # {}
  BY <1>1
<1>3. IsWellFoundedOn(Lt, Nat)
  BY NatLessThanWellFounded
<1>4. PICK u \in U : \A v \in U : ~(<<v, u>> \in Lt)
  <2> HIDE DEF Lt, U
  <2> QED BY <1>2, <1>3, WFMin
<1>5. \A v \in U : ~(v < u)
  BY <1>2, <1>4 DEF OpToRel
<1>6. PICK x \in T : u = CFGS_MO_MAX - x
  BY <1>4
<1>7. \A y \in T : y <= x
  BY <1>1, <1>5, <1>6 DEF CFGS_MO_MAX
<1>8. QED
  BY <1>7

(***************************************************************************)
(* In such a program no set of threads waits on itself: the mutexes cannot *)
(* deadlock, whether or not a wait ends in a timeout.                      *)
(***************************************************************************)
THEOREM NoDeadlock ==
  ASSUME Ascending
  PROVE  Spec => []NoWaitCycle
<1>1. TypeOK /\ LocksAscend => NoWaitCycle
  <2> SUFFICES ASSUME TypeOK, LocksAscend,
                      NEW S \in (SUBSET Threads) \ {{}},
                      \A t \in S : pc[t] = "trylock" /\ holder[target[t]] \in S
               PROVE  FALSE
    BY DEF NoWaitCycle
  <2> DEFINE T == {target[t] : t \in S}
  <2>1. T \in SUBSET Orders /\ T # {}
    <3>1. \A t \in S : target[t] \in Orders
      BY DEF TypeOK
    <3>2. PICK t \in S : TRUE
      OBVIOUS
    <3>3. target[t] \in T
      BY <3>2
    <3>4. QED
      BY <3>1, <3>3
  <2>2. PICK x \in T : \A y \in T : y <= x
    BY <2>1, GreatestOrder
  <2>3. PICK t \in S : x = target[t]
    BY <2>2
  <2> DEFINE u == holder[x]
  <2>4. u \in S /\ u \in Threads /\ x \in Orders
    BY <2>1, <2>3
  <2>5. x < target[u] /\ target[u] \in T
    BY <2>4 DEF LocksAscend
  <2>6. x \in Int /\ target[u] \in Int
    BY <2>1, <2>5, OrdersAreIntegers
  <2>7. QED
    BY <2>2, <2>5, <2>6
<1>2. QED
  BY <1>1, Typing, AscendingLocks, PTL

-----------------------------------------------------------------------------
(***************************************************************************)
(* The polling calls and their unprotected table implement mutexes with a  *)
(* timeout: every step grants, refuses, requests, releases, aborts, or is  *)
(* invisible to the callers.                                               *)
(***************************************************************************)
THEOREM Refinement == Spec => AbstractSpec
<1>1. Init => Abstract!Init
  BY DEF Init, Want, Abstract!Init
<1>2. TypeOK /\ [Next]_vars => [Abstract!Next]_(Abstract!vars)
  <2> SUFFICES ASSUME TypeOK, [Next]_vars
               PROVE  [Abstract!Next]_(Abstract!vars)
    OBVIOUS
  <2>a. NoMutex \notin Orders
    BY OrdersAssumption DEF NoMutex, CFGS_MO_MAX
  <2> USE NoThreadAssumption DEF TypeOK, Running
  <2>1. ASSUME NEW t \in Threads, TryLock(t) PROVE Abstract!Grant(t)
    BY <2>1, <2>a, ZenonT(60) DEF TryLock, Want, Abstract!Grant
  <2>2. ASSUME NEW t \in Threads, TryLockBusy(t)
        PROVE UNCHANGED Abstract!vars
    BY <2>2 DEF TryLockBusy, Want, Abstract!vars
  <2>3. ASSUME NEW t \in Threads, TryLockTimeout(t) PROVE Abstract!Refuse(t)
    BY <2>3, <2>a, ZenonT(60) DEF TryLockTimeout, Want, Abstract!Refuse
  <2>4. ASSUME NEW t \in Threads, Account(t) PROVE UNCHANGED Abstract!vars
    BY <2>4 DEF Account, Want, Abstract!vars
  <2>5. ASSUME NEW t \in Threads, Cleanup(t) PROVE UNCHANGED Abstract!vars
    BY <2>5 DEF Cleanup, Want, Abstract!vars
  <2>6. ASSUME NEW t \in Threads, NEW m \in Orders,
                   Lock(t, m), NoHigherRecorded(t, m)
        PROVE Abstract!Request(t, m)
    BY <2>6, <2>a DEF Lock, Want, Abstract!Request
  <2>7. ASSUME NEW t \in Threads, NEW m \in Orders,
                   Lock(t, m), ~NoHigherRecorded(t, m)
        PROVE Abstract!Abort
    BY <2>7 DEF Lock, Want, Abstract!Abort
  <2>8. ASSUME NEW t \in Threads, NEW m \in Orders, Unlock(t, m)
        PROVE Abstract!Release(t, m)
    BY <2>8, <2>a DEF Unlock, Want, Abstract!Release
  <2>9. CASE UNCHANGED vars
    BY <2>9 DEF vars, Want, Abstract!vars
  <2>10. QED
    BY <2>1, <2>2, <2>3, <2>4, <2>5, <2>6, <2>7, <2>8, <2>9
       DEF Next, Abstract!Next
<1>3. QED
  BY <1>1, <1>2, Typing, PTL DEF Spec, AbstractSpec, Abstract!Spec
=============================================================================
