--------------------------- MODULE ActivePool_proofs ---------------------------
(***************************************************************************)
(* Proofs about the pool, for any numbers of objects, workers and tasks:   *)
(* types and counts, what wait may rely on, and that every step is one of  *)
(* ActiveObjects or leaves its state alone.                                *)
(***************************************************************************)
EXTENDS ActivePool, FiniteSetTheorems, TLAPS

-----------------------------------------------------------------------------
\* Lines of queues.

In(L, o) == \E i \in 1..Len(L) : L[i] = o
Once(L) == \A i, j \in 1..Len(L) : L[i] = L[j] => i = j

\* What joins at the end is the only new member, and a second entry only if it
\* was there before.
LEMMA Joins ==
  ASSUME NEW S, NEW L \in Seq(S), NEW o \in S
  PROVE  /\ Append(L, o) \in Seq(S)
         /\ \A p : In(Append(L, o), p) <=> (In(L, p) \/ p = o)
         /\ Once(L) /\ ~In(L, o) => Once(Append(L, o))
<1>1. /\ Append(L, o) \in Seq(S) /\ Len(L) \in Nat /\ Len(Append(L, o)) = Len(L) + 1
      /\ \A i \in 1..Len(L) : Append(L, o)[i] = L[i]
      /\ Append(L, o)[Len(L) + 1] = o
  OBVIOUS
<1>2. ASSUME NEW p PROVE In(Append(L, o), p) <=> (In(L, p) \/ p = o)
  BY <1>1 DEF In
<1>3. Once(L) /\ ~In(L, o) => Once(Append(L, o))
  BY <1>1 DEF In, Once
<1> QED
  BY <1>1, <1>2, <1>3

\* Who is first in a line without second entries is not in the rest of it.
LEMMA Served ==
  ASSUME NEW S, NEW L \in Seq(S), L # <<>>
  PROVE  /\ Tail(L) \in Seq(S) /\ Head(L) \in S /\ In(L, Head(L))
         /\ Once(L) => /\ Once(Tail(L))
                       /\ \A p : In(Tail(L), p) <=> (In(L, p) /\ p # Head(L))
<1>1. /\ Tail(L) \in Seq(S) /\ Len(L) \in Nat /\ Len(L) >= 1 /\ Len(Tail(L)) = Len(L) - 1
      /\ \A i \in 1..Len(Tail(L)) : Tail(L)[i] = L[i + 1]
      /\ Head(L) = L[1] /\ L[1] \in S
  OBVIOUS
<1>2. In(L, Head(L))
  BY <1>1 DEF In
<1>3. ASSUME Once(L) PROVE Once(Tail(L))
  <2>1. SUFFICES ASSUME NEW i \in 1..Len(Tail(L)), NEW j \in 1..Len(Tail(L)),
                        Tail(L)[i] = Tail(L)[j]
                 PROVE  i = j
    BY DEF Once
  <2>2. i + 1 \in 1..Len(L) /\ j + 1 \in 1..Len(L) /\ L[i + 1] = L[j + 1]
    BY <1>1, <2>1
  <2> QED
    BY <1>3, <2>2 DEF Once
<1>4. ASSUME Once(L), NEW p PROVE In(Tail(L), p) <=> (In(L, p) /\ p # Head(L))
  <2>1. ASSUME In(Tail(L), p) PROVE In(L, p) /\ p # Head(L)
    <3>1. PICK i \in 1..Len(Tail(L)) : Tail(L)[i] = p
      BY <2>1 DEF In
    <3>2. i + 1 \in 1..Len(L) /\ 1 \in 1..Len(L) /\ i + 1 # 1 /\ L[i + 1] = p
      BY <1>1, <3>1
    <3> QED
      BY <1>1, <1>4, <3>2 DEF In, Once
  <2>2. ASSUME In(L, p), p # Head(L) PROVE In(Tail(L), p)
    <3>1. PICK i \in 1..Len(L) : L[i] = p
      BY <2>2 DEF In
    <3>2. i # 1 /\ i - 1 \in 1..Len(Tail(L)) /\ Tail(L)[i - 1] = L[(i - 1) + 1]
      BY <1>1, <2>2, <3>1
    <3> QED
      BY <3>1, <3>2 DEF In
  <2> QED
    BY <2>1, <2>2
<1> QED
  BY <1>1, <1>2, <1>3, <1>4

-----------------------------------------------------------------------------
\* Types, counts and queues.

\* TypeOK, but for the counts, which are natural because they count something.
Types ==
  /\ m_queues \in [Objects -> Seq(Nat)]
  /\ known \subseteq Objects
  /\ m_schedulable_queues \in Seq(Objects)
  /\ m_worker_count \in Int /\ m_active_worker_count \in Int
  /\ m_target_worker_count \in Nat
  /\ m_terminate_all_workers \in BOOLEAN /\ m_terminated_workers \subseteq Workers
  /\ pc \in [Workers -> {"none", "fetch", "wait", "run", "leave"}]
  /\ job \in [Workers -> [of : Objects \cup {NoObject}, task : Nat]]
  /\ napping \subseteq {w \in Workers : pc[w] = "wait"}
  /\ waiting \in [Clients -> Thresholds \cup {-1}]
  /\ asleep \subseteq Clients \cup {Owner}
  /\ policy \in Policies
  /\ owner \in {"up", "wait", "terminate", "join", "down"}
  /\ scheduled \in Nat /\ dead \subseteq Objects
  /\ disturbed \in BOOLEAN /\ broken \in BOOLEAN
  /\ resizes \in Nat /\ clears \in Nat /\ deaths \in Nat

\* A queue in line is in m_queues, once, and has a task; also after clear.
LineInv ==
  /\ \A w \in Workers : pc[w] = "run" => job[w].of \in Objects /\ job[w].task # 0
  /\ \A o \in Objects : \A i \in 1..Len(m_queues[o]) : m_queues[o][i] # 0
  /\ ~broken =>
       /\ Once(m_schedulable_queues)
       /\ \A o \in Objects : In(m_schedulable_queues, o) => o \in known /\ m_queues[o] # <<>>
       /\ \A o \in Objects \ known : m_queues[o] = <<>>

\* A queue is in line, or one worker executes its task, or it is dead.
CalmInv ==
  ~disturbed =>
    /\ ~broken
    /\ dead \subseteq known
    /\ \A v, w \in Workers :
         pc[v] = "run" /\ pc[w] = "run" /\ job[v].of = job[w].of => v = w
    /\ \A w \in Workers :
         pc[w] = "run" => /\ job[w].of \in known \ dead
                          /\ ~In(m_schedulable_queues, job[w].of)
    /\ \A o \in dead : ~In(m_schedulable_queues, o)
    /\ \A o \in known : In(m_schedulable_queues, o) \/ Busy(o) \/ o \in dead

QueueInv == Types /\ LineInv /\ CalmInv

LEMMA QueueInvInit == ASSUME Init PROVE QueueInv
<1> USE DEF Init
<1>1. Types
  <2>1. /\ <<>> \in Seq(Nat) /\ <<>> \in Seq(Objects)
        /\ NoJob \in [of : Objects \cup {NoObject}, task : Nat]
    BY DEF NoJob
  <2>2. /\ m_queues \in [Objects -> Seq(Nat)] /\ m_schedulable_queues \in Seq(Objects)
        /\ job \in [Workers -> [of : Objects \cup {NoObject}, task : Nat]]
    BY <2>1
  <2>3. /\ known \subseteq Objects /\ m_terminated_workers \subseteq Workers
        /\ napping \subseteq {w \in Workers : pc[w] = "wait"}
        /\ asleep \subseteq Clients \cup {Owner} /\ dead \subseteq Objects
    OBVIOUS
  <2>4. /\ pc \in [Workers -> {"none", "fetch", "wait", "run", "leave"}]
        /\ waiting \in [Clients -> Thresholds \cup {-1}]
    OBVIOUS
  <2>5. /\ m_terminate_all_workers \in BOOLEAN /\ disturbed \in BOOLEAN /\ broken \in BOOLEAN
    OBVIOUS
  <2>6. /\ m_worker_count \in Int /\ m_active_worker_count \in Int
        /\ m_target_worker_count \in Nat /\ scheduled \in Nat
        /\ resizes \in Nat /\ clears \in Nat /\ deaths \in Nat
    OBVIOUS
  <2>7. policy \in Policies /\ owner \in {"up", "wait", "terminate", "join", "down"}
    OBVIOUS
  <2> HIDE DEF Init
  <2> QED
    BY <2>2, <2>3, <2>4, <2>5, <2>6, <2>7 DEF Types
<1>2. LineInv
  BY DEF LineInv, Once, In
<1>3. CalmInv
  BY DEF CalmInv, In
<1> QED
  BY <1>1, <1>2, <1>3 DEF QueueInv

\* Steps that leave the queues and the tasks being executed alone.
Settles ==
  /\ UNCHANGED <<scheduler, job, dead, disturbed, broken>>
  /\ \A w \in Workers : pc'[w] = "run" <=> pc[w] = "run"

LEMMA SettlesStep ==
  ASSUME LineInv, CalmInv, Settles
  PROVE  LineInv' /\ CalmInv'
<1> USE DEF Settles, scheduler
<1>1. LineInv'
  BY DEF LineInv
<1>2. \A o : Busy(o)' <=> Busy(o)
  BY DEF Busy
<1>3. CalmInv'
  BY <1>2 DEF CalmInv
<1> QED
  BY <1>1, <1>3

LEMMA ClearStep ==
  ASSUME LineInv, CalmInv, ClearQueues, UNCHANGED <<pc, job, broken>>
  PROVE  LineInv' /\ CalmInv'
<1> USE DEF ClearQueues
<1>1. LineInv'
  BY DEF LineInv, Once, In
<1>2. CalmInv'
  BY DEF CalmInv, In
<1> QED
  BY <1>1, <1>2

LEMMA ScheduleStep ==
  ASSUME NEW o \in Objects, QueueInv, Schedule(o)
  PROVE  LineInv' /\ CalmInv'
<1> USE DEF Schedule, workers, QueueInv, Types
<1> DEFINE L == m_schedulable_queues
<1>1. /\ m_queues'[o] = Append(m_queues[o], scheduled') /\ scheduled' # 0 /\ scheduled' \in Nat
      /\ m_queues'[o] # <<>>
      /\ Len(m_queues[o]) \in Nat /\ Len(m_queues'[o]) = Len(m_queues[o]) + 1
      /\ \A i \in 1..Len(m_queues[o]) : m_queues'[o][i] = m_queues[o][i]
      /\ m_queues'[o][Len(m_queues[o]) + 1] = scheduled'
      /\ \A p \in Objects : p # o => m_queues'[p] = m_queues[p]
  OBVIOUS
<1>2. /\ \A p : In(L', p) <=> (In(L, p) \/ (p = o /\ o \notin known))
      /\ Once(L) /\ (In(L, o) => o \in known) => Once(L')
  BY Joins
<1>3. LineInv'
  <2>1. \A w \in Workers : pc'[w] = "run" => job'[w].of \in Objects /\ job'[w].task # 0
    BY DEF LineInv
  <2>2. \A p \in Objects : \A i \in 1..Len(m_queues'[p]) : m_queues'[p][i] # 0
    BY <1>1 DEF LineInv
  <2>3. ~broken => /\ Once(L')
                   /\ \A p \in Objects : In(L', p) => p \in known' /\ m_queues'[p] # <<>>
                   /\ \A p \in Objects \ known' : m_queues'[p] = <<>>
    BY <1>1, <1>2 DEF LineInv
  <2> QED
    BY <2>1, <2>2, <2>3 DEF LineInv
<1>4. \A p : Busy(p)' <=> Busy(p)
  BY DEF Busy
<1>5. CalmInv'
  BY <1>2, <1>4 DEF CalmInv
<1> QED
  BY <1>3, <1>5

LEMMA TakeStep ==
  ASSUME NEW w \in Workers, QueueInv, ~broken, pc[w] # "run", Take(w),
         UNCHANGED <<dead, disturbed, broken>>
  PROVE  LineInv' /\ CalmInv' /\ job'[w] \in [of : Objects, task : Nat]
<1> USE DEF Take, QueueInv, Types
<1> DEFINE L == m_schedulable_queues
           o == Head(L)
<1>1. /\ o \in Objects /\ In(L, o) /\ Once(L')
      /\ \A p : In(L', p) <=> (In(L, p) /\ p # o)
  BY Served DEF LineInv
<1>2. o \in known /\ m_queues[o] # <<>>
  BY <1>1 DEF LineInv
<1>3. /\ m_queues'[o] = Tail(m_queues[o]) /\ Head(m_queues[o]) = m_queues[o][1]
      /\ Head(m_queues[o]) \in Nat /\ 1 \in 1..Len(m_queues[o])
      /\ \A i \in 1..Len(m_queues'[o]) :
           /\ m_queues'[o][i] = m_queues[o][i + 1]
           /\ i + 1 \in 1..Len(m_queues[o])
      /\ \A p \in Objects : p # o => m_queues'[p] = m_queues[p]
  BY <1>1, <1>2
<1>4. /\ job'[w] = [of |-> o, task |-> m_queues[o][1]] /\ pc'[w] = "run"
      /\ \A v \in Workers : v # w => job'[v] = job[v] /\ pc'[v] = pc[v]
  BY <1>3
<1>5. LineInv'
  <2>1. \A v \in Workers : pc'[v] = "run" => job'[v].of \in Objects /\ job'[v].task # 0
    BY <1>1, <1>3, <1>4 DEF LineInv
  <2>2. \A p \in Objects : \A i \in 1..Len(m_queues'[p]) : m_queues'[p][i] # 0
    BY <1>3 DEF LineInv
  <2>3. /\ Once(L')
        /\ \A p \in Objects : In(L', p) => p \in known' /\ m_queues'[p] # <<>>
        /\ \A p \in Objects \ known' : m_queues'[p] = <<>>
    BY <1>1, <1>2, <1>3 DEF LineInv
  <2> QED
    BY <2>1, <2>2, <2>3 DEF LineInv
<1>6. \A p : Busy(p) \/ p = o => Busy(p)'
  BY <1>4 DEF Busy
<1>7. CalmInv'
  <2>1. SUFFICES ASSUME ~disturbed PROVE CalmInv'
    BY DEF CalmInv
  <2>2. \A v \in Workers : pc[v] = "run" => job[v].of # o
    BY <1>1, <2>1 DEF CalmInv
  <2>3. o \notin dead
    BY <1>1, <2>1 DEF CalmInv
  <2>4. \A v, x \in Workers :
          pc'[v] = "run" /\ pc'[x] = "run" /\ job'[v].of = job'[x].of => v = x
    BY <1>4, <2>1, <2>2 DEF CalmInv
  <2>5. \A v \in Workers :
          pc'[v] = "run" => job'[v].of \in known' \ dead' /\ ~In(L', job'[v].of)
    BY <1>1, <1>2, <1>4, <2>1, <2>3 DEF CalmInv
  <2>6. \A p \in known' : In(L', p) \/ Busy(p)' \/ p \in dead'
    BY <1>1, <1>6, <2>1 DEF CalmInv
  <2> QED
    BY <1>1, <2>1, <2>4, <2>5, <2>6 DEF CalmInv
<1> QED
  BY <1>1, <1>3, <1>4, <1>5, <1>7

LEMMA RequeueStep ==
  ASSUME NEW w \in Workers, QueueInv, Requeue(w)
  PROVE  LineInv' /\ CalmInv'
<1> USE DEF Requeue, QueueInv, Types
<1> DEFINE L == m_schedulable_queues
           o == job[w].of
<1>2. o \in Objects
  BY DEF LineInv
<1>3. /\ \A p : In(L', p) <=> (In(L, p) \/ (p = o /\ o \in known /\ m_queues[o] # <<>>))
      /\ Once(L) /\ ~In(L, o) => Once(L')
  BY <1>2, Joins
<1>4. /\ pc'[w] = "fetch" /\ \A v \in Workers : v # w => job'[v] = job[v] /\ pc'[v] = pc[v]
  OBVIOUS
<1>5. InLine(o) <=> In(L, o)
  BY DEF InLine, In
<1>6. LineInv'
  <2>1. \A v \in Workers : pc'[v] = "run" => job'[v].of \in Objects /\ job'[v].task # 0
    BY <1>4 DEF LineInv
  <2>2. ~broken' => /\ Once(L')
                    /\ \A p \in Objects : In(L', p) => p \in known' /\ m_queues'[p] # <<>>
                    /\ \A p \in Objects \ known' : m_queues'[p] = <<>>
    BY <1>2, <1>3, <1>5 DEF LineInv
  <2> QED
    BY <2>1, <2>2 DEF LineInv
<1>7. CalmInv'
  <2>1. SUFFICES ASSUME ~disturbed PROVE CalmInv'
    BY DEF CalmInv
  <2>2. /\ o \in known \ dead /\ ~In(L, o)
        /\ \A v \in Workers : v # w /\ pc[v] = "run" => job[v].of # o
    BY <2>1 DEF CalmInv
  <2>3. ~broken'
    BY <1>5, <2>2
  <2>4. \A p : Busy(p) /\ p # o => Busy(p)'
    BY <1>4 DEF Busy
  <2>5. \A p \in known' : In(L', p) \/ Busy(p)' \/ p \in dead'
    BY <1>3, <2>1, <2>2, <2>4 DEF CalmInv
  <2>6. \A v, x \in Workers :
          pc'[v] = "run" /\ pc'[x] = "run" /\ job'[v].of = job'[x].of => v = x
    BY <1>4, <2>1 DEF CalmInv
  <2>7. \A v \in Workers :
          pc'[v] = "run" => job'[v].of \in known' \ dead' /\ ~In(L', job'[v].of)
    BY <1>3, <1>4, <2>1, <2>2 DEF CalmInv
  <2>8. dead' \subseteq known' /\ \A p \in dead' : ~In(L', p)
    BY <1>3, <2>1, <2>2 DEF CalmInv
  <2> QED
    BY <2>1, <2>3, <2>5, <2>6, <2>7, <2>8 DEF CalmInv
<1> QED
  BY <1>6, <1>7

LEMMA DieStep ==
  ASSUME NEW w \in Workers, QueueInv, Die(w)
  PROVE  LineInv' /\ CalmInv'
<1> USE DEF Die, Departs, scheduler, QueueInv, Types
<1> DEFINE o == job[w].of
<1>1. /\ pc'[w] # "run" /\ \A v \in Workers : v # w => job'[v] = job[v] /\ pc'[v] = pc[v]
  OBVIOUS
<1>2. LineInv'
  BY <1>1 DEF LineInv
<1>3. \A p : Busy(p) /\ p # o => Busy(p)'
  BY <1>1 DEF Busy
<1>4. CalmInv'
  <2>1. SUFFICES ASSUME ~disturbed PROVE CalmInv'
    BY DEF CalmInv
  <2>2. /\ o \in known \ dead /\ ~In(m_schedulable_queues, o)
        /\ \A v \in Workers : v # w /\ pc[v] = "run" => job[v].of # o
    BY <2>1 DEF CalmInv
  <2>3. \A p \in known' : In(m_schedulable_queues', p) \/ Busy(p)' \/ p \in dead'
    BY <1>3, <2>1 DEF CalmInv
  <2>4. \A v, x \in Workers :
          pc'[v] = "run" /\ pc'[x] = "run" /\ job'[v].of = job'[x].of => v = x
    BY <1>1, <2>1 DEF CalmInv
  <2>5. \A v \in Workers :
          pc'[v] = "run" => /\ job'[v].of \in known' \ dead'
                            /\ ~In(m_schedulable_queues', job'[v].of)
    BY <1>1, <2>1, <2>2 DEF CalmInv
  <2> QED
    BY <2>1, <2>2, <2>3, <2>4, <2>5 DEF CalmInv
<1> QED
  BY <1>2, <1>4

-----------------------------------------------------------------------------
\* Types.

Alive == {w \in Workers : pc[w] # "none"}
Active == {w \in Workers : pc[w] \notin {"none", "wait"}}

LEMMA CountsAreNatural ==
  ASSUME CountsMatch
  PROVE  /\ IsFiniteSet(Alive) /\ m_worker_count = Cardinality(Alive)
         /\ IsFiniteSet(Active) /\ m_active_worker_count = Cardinality(Active)
         /\ m_worker_count \in Nat /\ m_active_worker_count \in Nat
<1>1. IsFiniteSet(Alive) /\ IsFiniteSet(Active)
  BY ThreadsAssumption, FS_Subset DEF Alive, Active
<1> QED
  BY <1>1, FS_CardinalityType DEF CountsMatch, Alive, Active

LEMMA TypesStep ==
  ASSUME QueueInv, CountsMatch, [Next]_vars
  PROVE  Types'
<1> USE ArgumentsAssumption, ThreadsAssumption
    DEF QueueInv, Types, scheduler, counts, ending, workers, waiters, history, bounds
<1>1. CASE UNCHANGED vars
  BY <1>1 DEF vars
<1>2. ASSUME NEW o \in Objects, Schedule(o) PROVE Types'
  <2>1. scheduled' \in Nat /\ Append(m_queues[o], scheduled') \in Seq(Nat)
    BY <1>2 DEF Schedule
  <2>2. m_schedulable_queues' \in Seq(Objects)
    BY <1>2 DEF Schedule
  <2>3. napping' \subseteq napping
    BY <1>2 DEF Schedule, NotifyOne
  <2> QED
    BY <1>2, <2>1, <2>2, <2>3 DEF Schedule
<1>3. CASE Clear
  <2>1. /\ m_queues' \in [Objects -> Seq(Nat)] /\ m_schedulable_queues' \in Seq(Objects)
        /\ disturbed' \in BOOLEAN
    BY <1>3 DEF Clear, ClearQueues
  <2> QED
    BY <1>3, <2>1 DEF Clear, ClearQueues
<1>4. ASSUME NEW n \in Sizes, Resize(n) PROVE Types'
  <2>1. CASE Grow(n)
    <3>1. PICK S \in SUBSET Free :
             /\ pc' = [w \in Workers |-> IF w \in S THEN "fetch" ELSE pc[w]]
             /\ m_worker_count' = m_worker_count + Cardinality(S)
             /\ m_active_worker_count' = m_active_worker_count + Cardinality(S)
             /\ UNCHANGED napping
      BY <2>1 DEF Grow
    <3>2. Cardinality(S) \in Nat
      BY FS_Subset, FS_CardinalityType DEF Free
    <3>3. pc' \in [Workers -> {"none", "fetch", "wait", "run", "leave"}]
      BY <3>1
    <3>4. napping' \subseteq {w \in Workers : pc'[w] = "wait"}
      BY <3>1 DEF Free
    <3>5. m_worker_count' \in Int /\ m_active_worker_count' \in Int
      BY <3>1, <3>2
    <3> QED
      BY <1>4, <3>3, <3>4, <3>5 DEF Resize
  <2>2. CASE NotifyAll /\ UNCHANGED <<m_worker_count, m_active_worker_count, pc>>
    BY <1>4, <2>2 DEF Resize, NotifyAll
  <2> QED
    BY <1>4, <2>1, <2>2 DEF Resize
<1>5. ASSUME NEW c \in Clients, NEW k \in Thresholds, Wait(c, k) PROVE Types'
  BY <1>5 DEF Wait
<1>6. ASSUME NEW c \in Clients, WaitAgain(c) \/ WaitTimesOut(c) PROVE Types'
  BY <1>6 DEF WaitAgain, WaitTimesOut
<1>7. CASE Shutdown
  <2>1. /\ m_queues' \in [Objects -> Seq(Nat)] /\ m_schedulable_queues' \in Seq(Objects)
        /\ known' \subseteq Objects /\ dead' \subseteq Objects /\ disturbed' \in BOOLEAN
    <3>1. CASE policy = "wait_for_all_tasks"
      BY <1>7, <3>1 DEF Shutdown
    <3>2. CASE ClearQueues
      BY <3>2 DEF ClearQueues
    <3> QED
      BY <1>7, <3>1, <3>2 DEF Shutdown
  <2> QED
    BY <1>7, <2>1 DEF Shutdown
<1>8. CASE OwnerStep
  <2>1. CASE OwnerWaits
    BY <2>1 DEF OwnerWaits
  <2>2. CASE TerminateAllWorkers
    BY <2>2 DEF TerminateAllWorkers, OwnerJoins, NotifyAll
  <2>3. CASE JoinAgain
    BY <2>3 DEF JoinAgain, OwnerJoins
  <2> QED
    BY <1>8, <2>1, <2>2, <2>3 DEF OwnerStep
<1>9. ASSUME NEW w \in Workers, Fetch(w) \/ Wake(w) PROVE Types'
  <2>1. /\ m_active_worker_count' \in Int /\ pc[w] # "run" /\ ~broken
        /\ UNCHANGED <<m_worker_count, m_target_worker_count, ending, waiting, policy, owner,
                       history, bounds>>
    BY <1>9 DEF Fetch, Wake
  <2>2. CASE Take(w)
    <3>1. /\ m_schedulable_queues' \in Seq(Objects) /\ Head(m_schedulable_queues) \in Objects
          /\ m_schedulable_queues # <<>>
      BY <2>2, Served DEF Take
    <3>2. m_queues[Head(m_schedulable_queues)] # <<>>
      BY <2>1, <3>1, Served DEF LineInv
    <3>3. /\ m_queues' \in [Objects -> Seq(Nat)]
          /\ Head(m_queues[Head(m_schedulable_queues)]) \in Nat
      BY <2>2, <3>1, <3>2 DEF Take
    <3>4. job' \in [Workers -> [of : Objects \cup {NoObject}, task : Nat]]
      BY <2>2, <3>1, <3>3 DEF Take
    <3>5. /\ pc' \in [Workers -> {"none", "fetch", "wait", "run", "leave"}]
          /\ napping' = napping /\ w \notin napping
      BY <1>9, <2>2 DEF Take, Fetch, Wake
    <3>6. napping' \subseteq {v \in Workers : pc'[v] = "wait"}
      BY <2>2, <3>5 DEF Take
    <3> QED
      BY <2>1, <2>2, <3>1, <3>3, <3>4, <3>5, <3>6 DEF Take
  <2>3. CASE GiveUp(w)
    <3>1. w \notin napping
      BY <1>9 DEF Fetch, Wake
    <3> QED
      BY <2>1, <2>3, <3>1 DEF GiveUp
  <2>4. CASE FallAsleep(w)
    BY <2>1, <2>4 DEF FallAsleep, NotifyIdle
  <2> QED
    BY <1>9, <2>2, <2>3, <2>4 DEF Fetch, Wake
<1>10. ASSUME NEW w \in Workers, Requeue(w) PROVE Types'
  <2>1. job[w].of \in Objects
    BY <1>10 DEF Requeue, LineInv
  <2>2. /\ m_schedulable_queues' \in Seq(Objects) /\ broken' \in BOOLEAN
    BY <1>10, <2>1 DEF Requeue
  <2>3. napping' \subseteq napping /\ w \notin napping
    BY <1>10 DEF Requeue, NotifyOne
  <2>4. job' \in [Workers -> [of : Objects \cup {NoObject}, task : Nat]]
    BY <1>10 DEF Requeue, NoJob
  <2> QED
    BY <1>10, <2>2, <2>3, <2>4 DEF Requeue
<1>11. ASSUME NEW w \in Workers, Die(w) PROVE Types'
  <2>1. job[w].of \in Objects
    BY <1>11 DEF Die, LineInv
  <2>2. job' \in [Workers -> [of : Objects \cup {NoObject}, task : Nat]]
    BY <1>11 DEF Die, NoJob
  <2>3. m_worker_count \in Nat
    BY CountsAreNatural
  <2>4. napping' \subseteq {v \in Workers : pc'[v] = "wait"}
    BY <1>11 DEF Die, Departs
  <2>5. /\ m_worker_count' \in Int /\ m_active_worker_count' \in Int
        /\ m_target_worker_count' \in Nat /\ m_terminated_workers' \subseteq Workers
    BY <1>11, <2>3 DEF Die, Departs
  <2>6. pc' \in [Workers -> {"none", "fetch", "wait", "run", "leave"}]
    BY <1>11 DEF Die, Departs
  <2>7. /\ dead' \subseteq Objects /\ asleep' \subseteq Clients \cup {Owner}
        /\ deaths' \in Nat
    BY <1>11, <2>1 DEF Die, NotifyIdle
  <2> QED
    BY <1>11, <2>2, <2>4, <2>5, <2>6, <2>7 DEF Die
<1>12. ASSUME NEW w \in Workers, Leave(w) PROVE Types'
  BY <1>12 DEF Leave, Departs, NotifyIdle
<1> QED
  BY <1>1, <1>2, <1>3, <1>4, <1>5, <1>6, <1>7, <1>8, <1>9, <1>10, <1>11, <1>12
  DEF Next, WorkerStep

-----------------------------------------------------------------------------
\* Counts.

LEMMA DisjointUnion ==
  ASSUME NEW S, NEW T, IsFiniteSet(S), IsFiniteSet(T), S \cap T = {}
  PROVE  Cardinality(S \cup T) = Cardinality(S) + Cardinality(T)
<1>1. Cardinality(S) \in Nat /\ Cardinality(T) \in Nat
  BY FS_CardinalityType
<1>2. Cardinality(S \cup T) = Cardinality(S) + Cardinality(T) - Cardinality(S \cap T)
  BY FS_Union
<1>3. Cardinality(S \cap T) = 0
  BY FS_EmptySet
<1> QED
  BY <1>1, <1>2, <1>3

LEMMA CountsStep ==
  ASSUME QueueInv, CountsMatch, [Next]_vars
  PROVE  CountsMatch'
<1> USE DEF QueueInv, Types, counts, workers
<1>a. /\ IsFiniteSet(Alive) /\ m_worker_count = Cardinality(Alive) /\ m_worker_count \in Nat
      /\ IsFiniteSet(Active) /\ m_active_worker_count = Cardinality(Active)
      /\ m_active_worker_count \in Nat
  BY CountsAreNatural
<1>0. SUFFICES /\ m_worker_count' = Cardinality(Alive')
               /\ m_active_worker_count' = Cardinality(Active')
  BY DEF CountsMatch, Alive, Active
<1>1. ASSUME UNCHANGED <<m_worker_count, m_active_worker_count, pc>>
      PROVE  m_worker_count' = Cardinality(Alive') /\ m_active_worker_count' = Cardinality(Active')
  BY <1>a, <1>1 DEF Alive, Active
<1>2. CASE UNCHANGED vars
  BY <1>1, <1>2 DEF vars
<1>3. ASSUME NEW o \in Objects, Schedule(o)
      PROVE  UNCHANGED <<m_worker_count, m_active_worker_count, pc>>
  BY <1>3 DEF Schedule
<1>4. ASSUME Clear \/ Shutdown \/ OwnerStep
      PROVE  UNCHANGED <<m_worker_count, m_active_worker_count, pc>>
  BY <1>4 DEF Clear, Shutdown, OwnerStep, OwnerWaits, TerminateAllWorkers, JoinAgain
<1>5. ASSUME NEW c \in Clients,
             WaitAgain(c) \/ WaitTimesOut(c) \/ \E k \in Thresholds : Wait(c, k)
      PROVE  UNCHANGED <<m_worker_count, m_active_worker_count, pc>>
  BY <1>5 DEF Wait, WaitAgain, WaitTimesOut
<1>6. ASSUME NEW n \in Sizes, Resize(n)
      PROVE  m_worker_count' = Cardinality(Alive') /\ m_active_worker_count' = Cardinality(Active')
  <2>1. CASE Grow(n)
    <3>1. PICK S \in SUBSET Free :
             /\ pc' = [w \in Workers |-> IF w \in S THEN "fetch" ELSE pc[w]]
             /\ m_worker_count' = m_worker_count + Cardinality(S)
             /\ m_active_worker_count' = m_active_worker_count + Cardinality(S)
      BY <2>1 DEF Grow
    <3>2. IsFiniteSet(S) /\ S \subseteq Workers /\ \A w \in S : pc[w] = "none"
      BY ThreadsAssumption, FS_Subset DEF Free
    <3>3. /\ Alive' = Alive \cup S /\ Alive \cap S = {}
          /\ Active' = Active \cup S /\ Active \cap S = {}
      BY <3>1, <3>2 DEF Alive, Active
    <3>4. Cardinality(Alive \cup S) = Cardinality(Alive) + Cardinality(S)
      BY <1>a, <3>2, <3>3, DisjointUnion
    <3>5. Cardinality(Active \cup S) = Cardinality(Active) + Cardinality(S)
      BY <1>a, <3>2, <3>3, DisjointUnion
    <3> QED
      BY <1>a, <3>1, <3>3, <3>4, <3>5
  <2>2. CASE UNCHANGED <<m_worker_count, m_active_worker_count, pc>>
    BY <1>1, <2>2
  <2> QED
    BY <1>6, <2>1, <2>2 DEF Resize
<1>7. ASSUME NEW w \in Workers, Fetch(w) \/ Wake(w)
      PROVE  m_worker_count' = Cardinality(Alive') /\ m_active_worker_count' = Cardinality(Active')
  <2>1. /\ \E l \in {"run", "leave", "wait"} : pc' = [pc EXCEPT ![w] = l]
        /\ pc[w] \in {"fetch", "wait"} /\ m_worker_count' = m_worker_count
    BY <1>7 DEF Fetch, Wake, Take, GiveUp, FallAsleep
  <2>2. Alive' = Alive
    BY <2>1 DEF Alive
  <2>3. m_active_worker_count' =
          m_active_worker_count + (IF pc[w] = "wait" THEN 1 ELSE 0)
                                - (IF pc'[w] = "wait" THEN 1 ELSE 0)
    <3>1. pc \in [Workers -> {"none", "fetch", "wait", "run", "leave"}]
          /\ m_active_worker_count \in Nat
      BY <1>a
    <3>2. CASE Fetch(w)
      <4>1. /\ pc[w] = "fetch"
            /\ \/ /\ (pc' = [pc EXCEPT ![w] = "leave"] \/ pc' = [pc EXCEPT ![w] = "run"])
                  /\ m_active_worker_count' = m_active_worker_count
               \/ /\ pc' = [pc EXCEPT ![w] = "wait"]
                  /\ m_active_worker_count' = m_active_worker_count - 1
        BY <3>2 DEF Fetch, Take, GiveUp, FallAsleep
      <4> QED BY <3>1, <4>1
    <3>3. CASE Wake(w)
      <4>1. /\ pc[w] = "wait"
            /\ \/ /\ (pc' = [pc EXCEPT ![w] = "leave"] \/ pc' = [pc EXCEPT ![w] = "run"])
                  /\ m_active_worker_count' = m_active_worker_count + 1
               \/ /\ pc' = [pc EXCEPT ![w] = "wait"]
                  /\ m_active_worker_count' = m_active_worker_count
        BY <3>3 DEF Wake, Take, GiveUp, FallAsleep
      <4> QED BY <3>1, <4>1
    <3> QED BY <1>7, <3>2, <3>3
  <2>4. CASE pc[w] = "wait" /\ pc'[w] # "wait"
    <3>1. Active' = Active \cup {w} /\ w \notin Active
      BY <2>1, <2>4 DEF Active
    <3>2. Cardinality(Active \cup {w}) = Cardinality(Active) + 1
      BY <1>a, <3>1, FS_AddElement
    <3> QED
      BY <1>a, <2>1, <2>2, <2>3, <2>4, <3>1, <3>2
  <2>5. CASE pc[w] # "wait" /\ pc'[w] = "wait"
    <3>1. Active' = Active \ {w} /\ w \in Active
      BY <2>1, <2>5 DEF Active
    <3>2. Cardinality(Active \ {w}) = Cardinality(Active) - 1
      BY <1>a, <3>1, FS_RemoveElement
    <3> QED
      BY <1>a, <2>1, <2>2, <2>3, <2>5, <3>1, <3>2
  <2>6. CASE pc[w] = "wait" <=> pc'[w] = "wait"
    <3>1. Active' = Active
      BY <2>1, <2>6 DEF Active
    <3> QED
      BY <1>a, <2>1, <2>2, <2>3, <2>6, <3>1
  <2> QED
    BY <2>4, <2>5, <2>6
<1>8. ASSUME NEW w \in Workers, Requeue(w)
      PROVE  m_worker_count' = Cardinality(Alive') /\ m_active_worker_count' = Cardinality(Active')
  <2>1. Alive' = Alive /\ Active' = Active
    BY <1>8 DEF Requeue, Alive, Active
  <2> QED
    BY <1>a, <1>8, <2>1 DEF Requeue
<1>9. ASSUME NEW w \in Workers, Departs(w), pc[w] \in {"run", "leave"}
      PROVE  m_worker_count' = Cardinality(Alive') /\ m_active_worker_count' = Cardinality(Active')
  <2>1. /\ Alive' = Alive \ {w} /\ w \in Alive
        /\ Active' = Active \ {w} /\ w \in Active
    BY <1>9 DEF Departs, Alive, Active
  <2>2. /\ Cardinality(Alive \ {w}) = Cardinality(Alive) - 1
        /\ Cardinality(Active \ {w}) = Cardinality(Active) - 1
    BY <1>a, <2>1, FS_RemoveElement
  <2> QED
    BY <1>a, <1>9, <2>1, <2>2 DEF Departs
<1>10. ASSUME NEW w \in Workers, Leave(w)
       PROVE  m_worker_count' = Cardinality(Alive') /\ m_active_worker_count' = Cardinality(Active')
  BY <1>9, <1>10 DEF Leave
<1>11. ASSUME NEW w \in Workers, Die(w)
       PROVE  m_worker_count' = Cardinality(Alive') /\ m_active_worker_count' = Cardinality(Active')
  <2>1. CASE Departs(w)
    BY <1>9, <1>11, <2>1 DEF Die
  <2>2. CASE pc' = [pc EXCEPT ![w] = "fetch"]
             /\ UNCHANGED <<m_worker_count, m_active_worker_count>>
    <3>1. Alive' = Alive /\ Active' = Active
      BY <1>11, <2>2 DEF Die, Alive, Active
    <3> QED
      BY <1>a, <2>2, <3>1
  <2> QED
    BY <1>11, <2>1, <2>2 DEF Die
<1> QED
  BY <1>1, <1>2, <1>3, <1>4, <1>5, <1>6, <1>7, <1>8, <1>10, <1>11 DEF Next, WorkerStep

-----------------------------------------------------------------------------
\* The invariant, and what follows from it.

PoolInv == QueueInv /\ CountsMatch

LEMMA QueuesStep ==
  ASSUME QueueInv, [Next]_vars
  PROVE  LineInv' /\ CalmInv'
<1> USE DEF QueueInv, Types, scheduler, counts, ending, workers, waiters, history, bounds
<1>1. CASE UNCHANGED vars
  BY <1>1, SettlesStep DEF vars, Settles
<1>2. ASSUME NEW o \in Objects, Schedule(o) PROVE LineInv' /\ CalmInv'
  BY <1>2, ScheduleStep
<1>3. CASE Clear
  BY <1>3, ClearStep DEF Clear
<1>4. ASSUME NEW n \in Sizes, Resize(n) PROVE LineInv' /\ CalmInv'
  <2>1. \A w \in Workers : pc'[w] = "run" <=> pc[w] = "run"
    BY <1>4 DEF Resize, Grow, Free
  <2> QED
    BY <1>4, <2>1, SettlesStep DEF Resize, Settles
<1>5. ASSUME NEW c \in Clients,
             WaitAgain(c) \/ WaitTimesOut(c) \/ \E k \in Thresholds : Wait(c, k)
      PROVE  LineInv' /\ CalmInv'
  BY <1>5, SettlesStep DEF Wait, WaitAgain, WaitTimesOut, Settles
<1>6. CASE Shutdown
  <2>1. UNCHANGED <<pc, job, broken>>
    BY <1>6 DEF Shutdown
  <2>2. CASE UNCHANGED <<scheduler, dead, disturbed>>
    BY <2>1, <2>2, SettlesStep DEF Settles
  <2>3. CASE ClearQueues
    BY <2>1, <2>3, ClearStep
  <2> QED
    BY <1>6, <2>2, <2>3 DEF Shutdown
<1>7. CASE OwnerStep
  BY <1>7, SettlesStep DEF OwnerStep, OwnerWaits, TerminateAllWorkers, JoinAgain, Settles
<1>8. ASSUME NEW w \in Workers, Fetch(w) \/ Wake(w) PROVE LineInv' /\ CalmInv'
  <2>1. pc[w] # "run" /\ ~broken /\ UNCHANGED <<dead, disturbed, broken>>
    BY <1>8 DEF Fetch, Wake
  <2>2. CASE Take(w)
    BY <2>1, <2>2, TakeStep
  <2>3. CASE GiveUp(w) \/ FallAsleep(w)
    BY <2>1, <2>3, SettlesStep DEF GiveUp, FallAsleep, Settles
  <2> QED
    BY <1>8, <2>2, <2>3 DEF Fetch, Wake
<1>9. ASSUME NEW w \in Workers, Requeue(w) PROVE LineInv' /\ CalmInv'
  BY <1>9, RequeueStep
<1>10. ASSUME NEW w \in Workers, Die(w) PROVE LineInv' /\ CalmInv'
  BY <1>10, DieStep
<1>11. ASSUME NEW w \in Workers, Leave(w) PROVE LineInv' /\ CalmInv'
  BY <1>11, SettlesStep DEF Leave, Departs, Settles
<1> QED
  BY <1>1, <1>2, <1>3, <1>4, <1>5, <1>6, <1>7, <1>8, <1>9, <1>10, <1>11 DEF Next, WorkerStep

LEMMA PoolInvariant == Spec => []PoolInv
<1>1. Init => PoolInv
  <2>1. SUFFICES ASSUME Init PROVE CountsMatch
    BY QueueInvInit DEF PoolInv
  <2>2. Alive = {} /\ Active = {}
    BY <2>1 DEF Init, Alive, Active
  <2> QED
    BY <2>1, <2>2, FS_EmptySet DEF Init, CountsMatch, Alive, Active
<1>2. PoolInv /\ [Next]_vars => PoolInv'
  BY TypesStep, QueuesStep, CountsStep DEF PoolInv, QueueInv
<1> QED
  BY <1>1, <1>2, PTL DEF Spec

\* The variables of the pool stay in their types; the unsigned counts never fall
\* below zero.
THEOREM PoolTyping == Spec => []TypeOK
<1>1. PoolInv => TypeOK
  BY CountsAreNatural DEF PoolInv, QueueInv, Types, TypeOK
<1> QED
  BY <1>1, PoolInvariant, PTL

\* m_worker_count and m_active_worker_count count the workers they are named for,
\* through resizes, deaths and shutdowns.
THEOREM CountsAreRight == Spec => []CountsMatch
<1>1. PoolInv => CountsMatch
  BY DEF PoolInv
<1> QED
  BY <1>1, PoolInvariant, PTL

\* Unless clear was called during a task, wait() returns only when every task is
\* done or stuck behind one that has ended its worker.
THEOREM WaitMeansDone == Spec => []IdleMeansDone
<1>1. ASSUME PoolInv, Idle(0), ~disturbed, NEW o \in Objects
      PROVE  ~Busy(o) /\ (m_queues[o] # <<>> => o \in dead)
  <2>1. m_active_worker_count = 0 /\ m_schedulable_queues = <<>>
    BY <1>1 DEF Idle
  <2>2. Active = {}
    BY <1>1, <2>1, CountsAreNatural, FS_EmptySet DEF PoolInv
  <2>3. \A p \in Objects : ~Busy(p)
    BY <2>2 DEF Busy, Active
  <2>4. ~In(m_schedulable_queues, o)
    BY <2>1 DEF In
  <2>5. o \in known => o \in dead
    BY <1>1, <2>3, <2>4 DEF PoolInv, QueueInv, CalmInv
  <2> QED
    BY <1>1, <2>3, <2>5 DEF PoolInv, QueueInv, LineInv, CalmInv
<1>2. PoolInv => IdleMeansDone
  BY <1>1 DEF IdleMeansDone
<1> QED
  BY <1>2, PoolInvariant, PTL

-----------------------------------------------------------------------------
\* The pool implements ActiveObjects.

Executes(P, J, o, w) == P[w] = "run" /\ J[w].of = o
Sole(P, J, o) ==
  \A v, w \in Workers : Executes(P, J, o, v) /\ Executes(P, J, o, w) => v = w

\* Current, of any places and jobs of the workers.
Cur(P, J, o) ==
  IF \E w \in Workers : Executes(P, J, o, w)
  THEN J[CHOOSE w \in Workers : Executes(P, J, o, w)].task ELSE 0

LEMMA CurIs ==
  ASSUME NEW P, NEW J, NEW o, NEW w \in Workers, Executes(P, J, o, w), Sole(P, J, o)
  PROVE  Cur(P, J, o) = J[w].task
<1>1. (CHOOSE v \in Workers : Executes(P, J, o, v)) = w
  BY DEF Sole
<1> QED
  BY <1>1 DEF Cur

LEMMA CurSame ==
  ASSUME NEW P, NEW J, NEW Q, NEW K, NEW o, Sole(P, J, o),
         \A w \in Workers : Executes(P, J, o, w) <=> Executes(Q, K, o, w),
         \A w \in Workers : Executes(P, J, o, w) => J[w].task = K[w].task
  PROVE  Cur(P, J, o) = Cur(Q, K, o)
<1>1. CASE \E w \in Workers : Executes(P, J, o, w)
  <2>1. PICK w \in Workers : Executes(P, J, o, w)
    BY <1>1
  <2>2. Sole(Q, K, o)
    BY DEF Sole
  <2> QED
    BY <2>1, <2>2, CurIs
<1>2. CASE ~\E w \in Workers : Executes(P, J, o, w)
  BY <1>2 DEF Cur
<1> QED
  BY <1>1, <1>2

LEMMA CurrentIsCur == \A o : Current(o) = Cur(pc, job, o) /\ Current(o)' = Cur(pc', job', o)
BY DEF Current, Busy, Cur, Executes

LEMMA CurrentAfter ==
  ASSUME NEW o, NEW w \in Workers, Executes(pc', job', o, w), Sole(pc', job', o)
  PROVE  Current(o)' = job'[w].task
<1>1. Cur(pc', job', o) = job'[w].task
  BY CurIs
<1> QED
  BY <1>1, CurrentIsCur

\* A step that leaves alone who executes for o leaves alone what o executes.
LEMMA CurrentSame ==
  ASSUME CalmInv, ~disturbed, NEW o \in Objects,
         \A w \in Workers : pc[w] = "run" /\ job[w].of = o <=> pc'[w] = "run" /\ job'[w].of = o,
         \A w \in Workers : pc[w] = "run" /\ job[w].of = o => job'[w] = job[w]
  PROVE  Current(o)' = Current(o)
<1>1. Sole(pc, job, o)
  BY DEF Sole, Executes, CalmInv
<1>2. Cur(pc, job, o) = Cur(pc', job', o)
  BY <1>1, CurSame DEF Executes
<1> QED
  BY <1>2, CurrentIsCur

LEMMA SettlesStutters ==
  ASSUME CalmInv, ~disturbed, Settles, UNCHANGED scheduled
  PROVE  UNCHANGED Objs!absVars
<1>1. \A o \in Objects : Current(o)' = Current(o)
  BY CurrentSame DEF Settles
<1>2. [o \in Objects |-> Current(o)]' = [o \in Objects |-> Current(o)]
  BY <1>1
<1> QED
  BY <1>2 DEF Settles, scheduler, Objs!absVars

\* The map of what is executed, after a step that changes it for o alone.
LEMMA CurrentChanges ==
  ASSUME NEW o \in Objects, NEW t, Current(o)' = t,
         \A p \in Objects : p # o => Current(p)' = Current(p)
  PROVE  [p \in Objects |-> Current(p)]' = [[p \in Objects |-> Current(p)] EXCEPT ![o] = t]
OBVIOUS

LEMMA ClearImplements ==
  ASSUME QueueInv, ~disturbed, ClearQueues, UNCHANGED <<pc, job, scheduled, broken>>
  PROVE  Objs!Clear
<1>1. \A o \in Objects : Current(o)' = Current(o)
  BY CurrentSame DEF QueueInv
<1>2. [o \in Objects |-> Current(o)]' = [o \in Objects |-> Current(o)]
  BY <1>1
<1>3. ASSUME NEW w \in Workers, pc[w] = "run" PROVE Current(job[w].of) = job[w].task
  <2>1. Sole(pc, job, job[w].of) /\ Executes(pc, job, job[w].of, w)
    BY <1>3 DEF Sole, Executes, QueueInv, CalmInv
  <2> QED
    BY <2>1, CurIs, CurrentIsCur
<1>4. (\E w \in Workers : pc[w] = "run") <=> \E o \in Objects : Current(o) # 0
  <2>1. ASSUME NEW w \in Workers, pc[w] = "run" PROVE \E o \in Objects : Current(o) # 0
    BY <1>3, <2>1 DEF QueueInv, LineInv
  <2>2. ASSUME NEW o \in Objects, Current(o) # 0 PROVE \E w \in Workers : pc[w] = "run"
    BY <2>2 DEF Current, Busy
  <2> QED
    BY <2>1, <2>2
<1>5. disturbed' = (\E o \in Objects : [p \in Objects |-> Current(p)][o] # 0)
  BY <1>4 DEF ClearQueues
<1> QED
  BY <1>2, <1>5 DEF ClearQueues, Objs!Clear

LEMMA TakeImplements ==
  ASSUME NEW w \in Workers, QueueInv, ~broken, ~disturbed, pc[w] # "run", Take(w),
         UNCHANGED <<dead, disturbed, broken, scheduled>>
  PROVE  \E o \in Objects : Objs!Begin(o)
<1> USE DEF Take, QueueInv, Types
<1>1. PICK o \in Objects : /\ o = Head(m_schedulable_queues) /\ In(m_schedulable_queues, o)
  BY Served
<1>2. o \in known \ dead /\ m_queues[o] # <<>>
  BY <1>1 DEF LineInv, CalmInv
<1>3. \A v \in Workers : ~Executes(pc, job, o, v)
  BY <1>1 DEF CalmInv, Executes
<1>4. Current(o) = 0
  BY <1>3, CurrentIsCur DEF Cur
<1>5. \A v \in Workers : v # w => pc'[v] = pc[v] /\ job'[v] = job[v]
  OBVIOUS
<1>6. /\ pc'[w] = "run" /\ job'[w].of = o /\ job'[w].task = Head(m_queues[o])
  BY <1>1
<1>7. Current(o)' = Head(m_queues[o])
  <2>1. Executes(pc', job', o, w) /\ Sole(pc', job', o)
    BY <1>3, <1>5, <1>6 DEF Executes, Sole
  <2> QED
    BY <1>6, <2>1, CurrentAfter
<1>8. \A p \in Objects : p # o => Current(p)' = Current(p)
  BY <1>5, <1>6, CurrentSame
<1>9. [p \in Objects |-> Current(p)]'
        = [[p \in Objects |-> Current(p)] EXCEPT ![o] = Head(m_queues[o])]
  BY <1>7, <1>8, CurrentChanges
<1>10. [p \in Objects |-> Current(p)][o] = 0
  BY <1>4
<1>11. m_queues' = [m_queues EXCEPT ![o] = Tail(@)]
  BY <1>1
<1>12. Objs!Begin(o)
  BY <1>2, <1>9, <1>10, <1>11 DEF Objs!Begin
<1> QED
  BY <1>12

\* A worker that ends a task was the only one to execute for its object.
LEMMA EndsTask ==
  ASSUME NEW w \in Workers, NEW o \in Objects, QueueInv, ~disturbed,
         pc[w] = "run", job[w].of = o, pc'[w] # "run",
         \A v \in Workers : v # w => (pc'[v] = "run" <=> pc[v] = "run") /\ job'[v] = job[v]
  PROVE  /\ [p \in Objects |-> Current(p)][o] # 0
         /\ [p \in Objects |-> Current(p)]'
              = [[p \in Objects |-> Current(p)] EXCEPT ![o] = 0]
<1> USE DEF QueueInv
<1>1. job[w].task # 0
  BY DEF LineInv
<1>2. Sole(pc, job, o) /\ Executes(pc, job, o, w)
  BY DEF CalmInv, Sole, Executes
<1>3. Current(o) = job[w].task
  BY <1>2, CurIs, CurrentIsCur
<1>4. Current(o)' = 0
  <2>1. \A v \in Workers : ~Executes(pc', job', o, v)
    BY <1>2 DEF Sole, Executes
  <2>2. Cur(pc', job', o) = 0
    BY <2>1 DEF Cur
  <2> QED
    BY <2>2, CurrentIsCur
<1>5. \A p \in Objects : p # o => Current(p)' = Current(p)
  BY CurrentSame
<1>6. [p \in Objects |-> Current(p)]' = [[p \in Objects |-> Current(p)] EXCEPT ![o] = 0]
  BY <1>4, <1>5, CurrentChanges
<1> QED
  BY <1>1, <1>3, <1>6

LEMMA StepImplements ==
  ASSUME QueueInv, QueueInv', ~disturbed, Next
  PROVE  Objs!Next \/ UNCHANGED Objs!absVars
<1> USE DEF counts, ending, workers, waiters, history, bounds
<1>1. ASSUME NEW o \in Objects, Schedule(o) PROVE Objs!Post(o)
  <2>1. \A p \in Objects : Current(p)' = Current(p)
    BY <1>1, CurrentSame DEF Schedule, QueueInv
  <2>2. [p \in Objects |-> Current(p)]' = [p \in Objects |-> Current(p)]
    BY <2>1
  <2> QED
    BY <1>1, <2>2 DEF Schedule, Objs!Post
<1>2. CASE Clear
  <2>1. Objs!Clear
    BY <1>2, ClearImplements DEF Clear
  <2> QED
    BY <2>1 DEF Objs!Next
<1>3. CASE Shutdown
  <2>1. CASE policy = "wait_for_all_tasks"
    BY <1>3, <2>1, SettlesStutters DEF Shutdown, Settles, QueueInv
  <2>2. CASE policy # "wait_for_all_tasks"
    <3>1. Objs!Clear
      BY <1>3, <2>2, ClearImplements DEF Shutdown
    <3> QED
      BY <3>1 DEF Objs!Next
  <2> QED
    BY <2>1, <2>2
<1>4. ASSUME NEW n \in Sizes, Resize(n) PROVE Settles /\ UNCHANGED scheduled
  BY <1>4 DEF Resize, Grow, Free, Settles, QueueInv, Types
<1>5. ASSUME NEW c \in Clients,
             WaitAgain(c) \/ WaitTimesOut(c) \/ \E k \in Thresholds : Wait(c, k)
      PROVE  Settles /\ UNCHANGED scheduled
  BY <1>5 DEF WaitAgain, WaitTimesOut, Wait, Settles
<1>6. ASSUME OwnerStep PROVE Settles /\ UNCHANGED scheduled
  BY <1>6 DEF OwnerStep, OwnerWaits, TerminateAllWorkers, JoinAgain, Settles
<1>7. ASSUME NEW w \in Workers, Fetch(w) \/ Wake(w)
      PROVE  Objs!Next \/ UNCHANGED Objs!absVars
  <2>1. CASE Take(w)
    <3>1. \E o \in Objects : Objs!Begin(o)
      BY <1>7, <2>1, TakeImplements DEF Fetch, Wake
    <3> QED
      BY <3>1 DEF Objs!Next
  <2>2. CASE GiveUp(w) \/ FallAsleep(w)
    <3>1. Settles /\ UNCHANGED scheduled
      BY <1>7, <2>2 DEF Fetch, Wake, GiveUp, FallAsleep, Settles, QueueInv, Types
    <3> QED
      BY <3>1, SettlesStutters DEF QueueInv
  <2> QED
    BY <1>7, <2>1, <2>2 DEF Fetch, Wake
<1>8. ASSUME NEW w \in Workers, Requeue(w) PROVE \E o \in Objects : Objs!End(o)
  <2>0. PICK o \in Objects : job[w].of = o
    BY <1>8 DEF Requeue, QueueInv, LineInv
  <2>1. /\ [p \in Objects |-> Current(p)][o] # 0
        /\ [p \in Objects |-> Current(p)]'
             = [[p \in Objects |-> Current(p)] EXCEPT ![o] = 0]
    BY <1>8, <2>0, EndsTask DEF Requeue, QueueInv, Types
  <2>2. ~broken /\ ~broken'
    BY <1>8 DEF Requeue, QueueInv, CalmInv
  <2>3. broken' = broken
    BY <2>2 DEF QueueInv, Types
  <2>4. Objs!End(o)
    BY <1>8, <2>1, <2>3 DEF Requeue, Objs!End
  <2> QED
    BY <2>4
<1>9. ASSUME NEW w \in Workers, Die(w) PROVE \E o \in Objects : Objs!Die(o)
  <2>0. PICK o \in Objects : job[w].of = o
    BY <1>9 DEF Die, QueueInv, LineInv
  <2>1. /\ [p \in Objects |-> Current(p)][o] # 0
        /\ [p \in Objects |-> Current(p)]'
             = [[p \in Objects |-> Current(p)] EXCEPT ![o] = 0]
    BY <1>9, <2>0, EndsTask DEF Die, Departs, QueueInv, Types
  <2>2. Objs!Die(o)
    BY <1>9, <2>0, <2>1 DEF Die, scheduler, Objs!Die
  <2> QED
    BY <2>2
<1>10. ASSUME NEW w \in Workers, Leave(w) PROVE Settles /\ UNCHANGED scheduled
  BY <1>10 DEF Leave, Departs, Settles, QueueInv, Types
<1>11. Settles /\ UNCHANGED scheduled => UNCHANGED Objs!absVars
  BY SettlesStutters DEF QueueInv
<1> QED
  BY <1>1, <1>2, <1>3, <1>4, <1>5, <1>6, <1>7, <1>8, <1>9, <1>10, <1>11
  DEF Next, WorkerStep, Objs!Next

\* Once clear has been called during a task, that stays so.
LEMMA DisturbedStays ==
  ASSUME Types, disturbed, Next
  PROVE  disturbed'
BY DEF Types, Next, Schedule, Clear, ClearQueues, Resize, Wait, WaitAgain, WaitTimesOut,
       Shutdown, OwnerStep, OwnerWaits, TerminateAllWorkers, JoinAgain, WorkerStep, Fetch,
       Wake, Requeue, Die, Leave, history

\* Each object's tasks are executed one at a time and in the order in which they
\* were scheduled, for any number of workers: every step of the pool is one of
\* ActiveObjects, or none of it.
THEOREM PoolImplements == Spec => ActiveSpec
<1>1. Init => Objs!Init
  <2>1. SUFFICES ASSUME Init PROVE [o \in Objects |-> Current(o)] = [o \in Objects |-> 0]
    BY DEF Init, Objs!Init
  <2> QED
    BY <2>1 DEF Init, Current, Busy
<1>2. QueueInv /\ QueueInv' /\ [Next]_vars => [Objs!Next]_(Objs!absVars)
  <2>1. SUFFICES ASSUME QueueInv, QueueInv', [Next]_vars
                 PROVE  Objs!Next \/ UNCHANGED Objs!absVars
    OBVIOUS
  <2>2. CASE Next /\ ~disturbed
    BY <2>1, <2>2, StepImplements
  <2>3. CASE Next /\ disturbed
    BY <2>1, <2>3, DisturbedStays DEF QueueInv, Objs!Next
  <2>4. CASE UNCHANGED vars
    <3>1. [o \in Objects |-> Current(o)]' = [o \in Objects |-> Current(o)]
      BY <2>4 DEF vars, workers, Current, Busy
    <3> QED
      BY <2>4, <3>1 DEF vars, scheduler, history, Objs!absVars
  <2> QED
    BY <2>1, <2>2, <2>3, <2>4
<1>3. PoolInv => QueueInv
  BY DEF PoolInv
<1> QED
  BY <1>1, <1>2, <1>3, PoolInvariant, PTL DEF Spec, ActiveSpec, Objs!Spec

=============================================================================
