------------------------------- MODULE ActivePool -------------------------------
(***************************************************************************)
(* The thread pool with active_scheduler: tasks are scheduled for an       *)
(* object, each object has a queue, and the queues that may be served wait *)
(* in a line.  Workers take the first queue of the line, execute its first *)
(* task and put the queue back.  The pool grows and shrinks, threads wait  *)
(* for it to be idle, and the last copy of the pool shuts it down.         *)
(*                                                                         *)
(* Everything under the recursive mutex m_monitor is one step, up to the   *)
(* point where a condition variable gives the mutex up.                    *)
(***************************************************************************)
EXTENDS Integers, Sequences, FiniteSets

CONSTANTS
  Objects,     \* the queue_ids
  Workers,     \* threads that can exist at the same time
  Clients,     \* threads that wait for the pool
  Owner,       \* the thread that destroys the last copy of the pool
  NoObject,    \* not an object
  Policies,    \* the shutdown policies to choose from
  Sizes,       \* arguments of resize
  Thresholds,  \* arguments of wait
  MaxTasks,    \* bound: tasks scheduled
  MaxResizes,  \* bound: calls of resize
  MaxClears,   \* bound: calls of clear
  MaxDeaths    \* bound: tasks that end their worker

ASSUME ThreadsAssumption ==
  /\ IsFiniteSet(Workers) /\ IsFiniteSet(Clients) /\ Owner \notin Clients
  /\ NoObject \notin Objects

ASSUME ArgumentsAssumption ==
  /\ Policies \subseteq {"wait_for_all_tasks", "wait_for_active_tasks", "immediately"}
  /\ Sizes \subseteq Nat /\ Thresholds \subseteq Nat
  /\ MaxTasks \in Nat /\ MaxResizes \in Nat /\ MaxClears \in Nat /\ MaxDeaths \in Nat

VARIABLES
  m_queues,              \* m_queues[o]: the tasks of o, oldest first
  known,                 \* the keys of m_queues
  m_schedulable_queues,  \* the line, by the objects of its queues
  m_worker_count, m_target_worker_count, m_active_worker_count,
  m_terminate_all_workers,
  m_terminated_workers,
  pc,         \* pc[w]: where worker w is; "none" is no thread
  job,        \* job[w]: the object and the task w executes
  napping,    \* workers that wait for m_task_or_terminate_workers_event
  waiting,    \* waiting[c]: the threshold c waits for, or -1
  asleep,     \* threads that wait for m_worker_idle_or_terminated_event
  policy,     \* the ShutdownPolicy of the pool
  owner,      \* how far the shutdown is
  scheduled,  \* tasks scheduled so far
  dead,       \* objects whose task has ended its worker
  disturbed,  \* the queues were cleared while a task was executed
  broken,     \* a queue was used that is not there, or entered the line twice
  resizes, clears, deaths

scheduler == <<m_queues, known, m_schedulable_queues>>
counts == <<m_worker_count, m_target_worker_count, m_active_worker_count>>
ending == <<m_terminate_all_workers, m_terminated_workers>>
workers == <<pc, job>>
waiters == <<waiting, asleep, policy, owner>>
history == <<scheduled, dead, disturbed, broken>>
bounds == <<resizes, clears, deaths>>
vars == <<scheduler, counts, ending, workers, napping, waiters, history, bounds>>

NoJob == [of |-> NoObject, task |-> 0]

TypeOK ==
  /\ m_queues \in [Objects -> Seq(Nat)]
  /\ known \subseteq Objects
  /\ m_schedulable_queues \in Seq(Objects)
  /\ m_worker_count \in Nat /\ m_target_worker_count \in Nat
  /\ m_active_worker_count \in Nat
  /\ m_terminate_all_workers \in BOOLEAN /\ m_terminated_workers \subseteq Workers
  /\ pc \in [Workers -> {"none", "fetch", "wait", "run", "leave"}]
  /\ job \in [Workers -> [of : Objects \cup {NoObject}, task : Nat]]
  /\ napping \subseteq {w \in Workers : pc[w] = "wait"}
  /\ waiting \in [Clients -> Thresholds \cup {-1}]
  /\ asleep \subseteq Clients \cup {Owner}
  /\ policy \in Policies
  /\ owner \in {"up", "wait", "terminate", "join", "down"}
  /\ scheduled \in Nat /\ dead \subseteq Objects
  /\ disturbed \in BOOLEAN /\ broken \in BOOLEAN
  /\ resizes \in Nat /\ clears \in Nat /\ deaths \in Nat

Init ==
  /\ m_queues = [o \in Objects |-> <<>>] /\ known = {} /\ m_schedulable_queues = <<>>
  /\ m_worker_count = 0 /\ m_target_worker_count = 0 /\ m_active_worker_count = 0
  /\ m_terminate_all_workers = FALSE /\ m_terminated_workers = {}
  /\ pc = [w \in Workers |-> "none"]
  /\ job = [w \in Workers |-> NoJob]
  /\ napping = {}
  /\ waiting = [c \in Clients |-> -1] /\ asleep = {}
  /\ policy \in Policies /\ owner = "up"
  /\ scheduled = 0 /\ dead = {} /\ disturbed = FALSE /\ broken = FALSE
  /\ resizes = 0 /\ clears = 0 /\ deaths = 0

Busy(o) == \E w \in Workers : pc[w] = "run" /\ job[w].of = o
InLine(o) == \E i \in DOMAIN m_schedulable_queues : m_schedulable_queues[i] = o

\* Mutant: push and requeue tell nobody.
NotifyNobody == UNCHANGED napping

\* notify_one and notify_all of m_task_or_terminate_workers_event.
NotifyOne ==
  \/ napping = {} /\ UNCHANGED napping
  \/ \E w \in napping : napping' = napping \ {w}

NotifyAll == napping' = {}

\* notify_all of m_worker_idle_or_terminated_event.
NotifyIdle == asleep' = {}

-----------------------------------------------------------------------------
\* Whoever has a copy of the pool.

\* Mutant: every task puts its queue in line.
ScheduleAlways(o) ==
  /\ owner = "up" /\ ~broken
  /\ scheduled < MaxTasks
  /\ scheduled' = scheduled + 1
  /\ m_queues' = [m_queues EXCEPT ![o] = Append(@, scheduled')]
  /\ known' = known \cup {o}
  /\ m_schedulable_queues' = Append(m_schedulable_queues, o)
  /\ NotifyOne
  /\ UNCHANGED <<counts, ending, workers, waiters, dead, disturbed, broken, bounds>>

\* A new queue goes to the end of the line; a queue that is there already is in
\* the line, or one of its tasks is being executed.
Schedule(o) ==
  /\ owner = "up" /\ ~broken
  /\ scheduled < MaxTasks
  /\ scheduled' = scheduled + 1
  /\ m_queues' = [m_queues EXCEPT ![o] = Append(@, scheduled')]
  /\ known' = known \cup {o}
  /\ m_schedulable_queues' = IF o \in known THEN m_schedulable_queues
                             ELSE Append(m_schedulable_queues, o)
  /\ NotifyOne
  /\ UNCHANGED <<counts, ending, workers, waiters, dead, disturbed, broken, bounds>>

\* Nobody is told: a thread that waits for the pool to be idle goes on waiting.
ClearQueues ==
  /\ m_queues' = [o \in Objects |-> <<>>] /\ known' = {}
  /\ m_schedulable_queues' = <<>>
  /\ dead' = {}
  /\ disturbed' = (disturbed \/ \E w \in Workers : pc[w] = "run")

Clear ==
  /\ owner = "up" /\ ~broken
  /\ clears < MaxClears
  /\ clears' = clears + 1
  /\ ClearQueues
  /\ UNCHANGED <<counts, ending, workers, napping, waiters, scheduled, broken, resizes,
                 deaths>>

Free == {w \in Workers : pc[w] = "none" /\ w \notin m_terminated_workers}

\* Mutant: new workers are not counted as active.
GrowInactive(n) ==
  \E S \in SUBSET Free :
    /\ Cardinality(S) = n - m_worker_count
    /\ pc' = [w \in Workers |-> IF w \in S THEN "fetch" ELSE pc[w]]
    /\ m_worker_count' = m_worker_count + Cardinality(S)
    /\ UNCHANGED <<m_active_worker_count, napping>>

\* Threads are created until there are n, or no more can be had.
Grow(n) ==
  \E S \in SUBSET Free :
    /\ \/ Cardinality(S) = n - m_worker_count
       \/ S = Free /\ Cardinality(S) < n - m_worker_count
    /\ pc' = [w \in Workers |-> IF w \in S THEN "fetch" ELSE pc[w]]
    /\ m_worker_count' = m_worker_count + Cardinality(S)
    /\ m_active_worker_count' = m_active_worker_count + Cardinality(S)
    /\ UNCHANGED napping

\* Mutant: a smaller target is set without waking anybody.
ResizeQuietly(n) ==
  /\ ~broken
  /\ resizes < MaxResizes
  /\ resizes' = resizes + 1
  /\ ~m_terminate_all_workers
  /\ m_target_worker_count' = n
  /\ \/ m_worker_count <= n /\ Grow(n)
     \/ m_worker_count > n /\ UNCHANGED <<m_worker_count, m_active_worker_count, pc, napping>>
  /\ UNCHANGED <<scheduler, ending, job, waiters, history, clears, deaths>>

\* A size_controller may outlive the pool; resize refuses once the workers have
\* been told to terminate.
Resize(n) ==
  /\ ~broken
  /\ resizes < MaxResizes
  /\ resizes' = resizes + 1
  /\ ~m_terminate_all_workers
  /\ m_target_worker_count' = n
  /\ \/ m_worker_count <= n /\ Grow(n)
     \/ m_worker_count > n /\ NotifyAll /\ UNCHANGED <<m_worker_count, m_active_worker_count, pc>>
  /\ UNCHANGED <<scheduler, ending, job, waiters, history, clears, deaths>>

-----------------------------------------------------------------------------
\* Waiting for the pool.

\* The condition on which wait returns.  size counts the queues of the line.
Idle(threshold) ==
  IF threshold = 0
  THEN m_active_worker_count = 0 /\ m_schedulable_queues = <<>>
  ELSE m_active_worker_count + Len(m_schedulable_queues) <= threshold

\* A call that finds the pool idle returns at once.
Wait(c, threshold) ==
  /\ owner = "up" /\ ~broken
  /\ waiting[c] = -1
  /\ ~Idle(threshold)
  /\ waiting' = [waiting EXCEPT ![c] = threshold]
  /\ asleep' = asleep \cup {c}
  /\ UNCHANGED <<scheduler, counts, ending, workers, napping, policy, owner, history, bounds>>

WaitAgain(c) ==
  /\ waiting[c] # -1 /\ c \notin asleep /\ ~broken
  /\ \/ Idle(waiting[c]) /\ waiting' = [waiting EXCEPT ![c] = -1] /\ UNCHANGED asleep
     \/ ~Idle(waiting[c]) /\ asleep' = asleep \cup {c} /\ UNCHANGED waiting
  /\ UNCHANGED <<scheduler, counts, ending, workers, napping, policy, owner, history, bounds>>

\* The other overload of wait returns at its timestamp.
WaitTimesOut(c) ==
  /\ waiting[c] # -1 /\ c \in asleep /\ ~broken
  /\ waiting' = [waiting EXCEPT ![c] = -1] /\ asleep' = asleep \ {c}
  /\ UNCHANGED <<scheduler, counts, ending, workers, napping, policy, owner, history, bounds>>

-----------------------------------------------------------------------------
\* The shutdown, when no copy of the pool is left to wait, clear or schedule.

Shutdown ==
  /\ owner = "up" /\ ~broken
  /\ \A c \in Clients : waiting[c] = -1
  /\ IF policy = "wait_for_all_tasks"
     THEN UNCHANGED <<scheduler, dead, disturbed>>
     ELSE ClearQueues
  /\ owner' = IF policy = "immediately" THEN "terminate" ELSE "wait"
  /\ UNCHANGED <<counts, ending, workers, napping, waiting, asleep, policy, scheduled,
                 broken, bounds>>

OwnerWaits ==
  /\ owner = "wait" /\ Owner \notin asleep /\ ~broken
  /\ \/ Idle(0) /\ owner' = "terminate" /\ UNCHANGED asleep
     \/ ~Idle(0) /\ asleep' = asleep \cup {Owner} /\ UNCHANGED owner
  /\ UNCHANGED <<scheduler, counts, ending, workers, napping, waiting, policy, history, bounds>>

\* Waits until no worker is active, which is not until all have terminated:
\* the others are not joined.
OwnerJoins ==
  \/ /\ m_active_worker_count > 0
     /\ owner' = "join" /\ asleep' = asleep \cup {Owner}
     /\ UNCHANGED m_terminated_workers
  \/ /\ m_active_worker_count = 0
     /\ owner' = "down" /\ m_terminated_workers' = {}
     /\ UNCHANGED asleep

TerminateAllWorkers ==
  /\ owner = "terminate" /\ ~broken
  /\ m_terminate_all_workers' = TRUE
  /\ m_target_worker_count' = 0
  /\ NotifyAll
  /\ IF policy = "immediately"
     THEN owner' = "down" /\ UNCHANGED <<asleep, m_terminated_workers>>
     ELSE OwnerJoins
  /\ UNCHANGED <<scheduler, m_worker_count, m_active_worker_count, workers, waiting, policy,
                 history, bounds>>

JoinAgain ==
  /\ owner = "join" /\ Owner \notin asleep /\ ~broken
  /\ OwnerJoins
  /\ UNCHANGED <<scheduler, counts, m_terminate_all_workers, workers, napping, waiting,
                 policy, history, bounds>>

-----------------------------------------------------------------------------
\* The workers.

\* pop_top: the first task of the first queue in line.
Take(w) ==
  LET o == Head(m_schedulable_queues) IN
    /\ m_schedulable_queues # <<>>
    /\ m_schedulable_queues' = Tail(m_schedulable_queues)
    /\ m_queues' = [m_queues EXCEPT ![o] = Tail(@)]
    /\ job' = [job EXCEPT ![w] = [of |-> o, task |-> Head(m_queues[o])]]
    /\ pc' = [pc EXCEPT ![w] = "run"]
    /\ UNCHANGED <<known, asleep, napping>>

GiveUp(w) ==
  /\ pc' = [pc EXCEPT ![w] = "leave"]
  /\ UNCHANGED <<scheduler, job, asleep, napping>>

FallAsleep(w) ==
  /\ pc' = [pc EXCEPT ![w] = "wait"]
  /\ napping' = napping \cup {w}
  /\ NotifyIdle
  /\ UNCHANGED <<scheduler, job>>

\* A worker too many leaves, whatever there is to do.
Fetch(w) ==
  /\ pc[w] = "fetch" /\ ~broken
  /\ \/ /\ m_worker_count > m_target_worker_count
        /\ GiveUp(w)
        /\ UNCHANGED m_active_worker_count
     \/ /\ m_worker_count <= m_target_worker_count
        /\ Take(w)
        /\ UNCHANGED m_active_worker_count
     \/ /\ m_worker_count <= m_target_worker_count
        /\ m_schedulable_queues = <<>>
        /\ FallAsleep(w)
        /\ m_active_worker_count' = m_active_worker_count - 1
  /\ UNCHANGED <<m_worker_count, m_target_worker_count, ending, waiting, policy, owner,
                 history, bounds>>

\* Mutant: a worker that was woken to leave is not active again.
WakeUncounted(w) ==
  /\ pc[w] = "wait" /\ w \notin napping /\ ~broken
  /\ \/ Take(w) /\ m_active_worker_count' = m_active_worker_count + 1
     \/ /\ m_schedulable_queues = <<>> /\ m_worker_count > m_target_worker_count
        /\ GiveUp(w)
        /\ UNCHANGED m_active_worker_count
     \/ /\ m_schedulable_queues = <<>> /\ m_worker_count <= m_target_worker_count
        /\ FallAsleep(w)
        /\ UNCHANGED m_active_worker_count
  /\ UNCHANGED <<m_worker_count, m_target_worker_count, ending, waiting, policy, owner,
                 history, bounds>>

\* A worker that was woken takes a task if there is one, even if it is too many.
Wake(w) ==
  /\ pc[w] = "wait" /\ w \notin napping /\ ~broken
  /\ \/ Take(w) /\ m_active_worker_count' = m_active_worker_count + 1
     \/ /\ m_schedulable_queues = <<>> /\ m_worker_count > m_target_worker_count
        /\ GiveUp(w)
        /\ m_active_worker_count' = m_active_worker_count + 1
     \/ /\ m_schedulable_queues = <<>> /\ m_worker_count <= m_target_worker_count
        /\ FallAsleep(w)
        /\ UNCHANGED m_active_worker_count
  /\ UNCHANGED <<m_worker_count, m_target_worker_count, ending, waiting, policy, owner,
                 history, bounds>>

\* Mutant: a queue that is not empty is not put back in line.
RequeueForgets(w) ==
  LET o == job[w].of IN
    /\ pc[w] = "run" /\ ~broken
    /\ pc' = [pc EXCEPT ![w] = "fetch"] /\ job' = [job EXCEPT ![w] = NoJob]
    /\ known' = IF m_queues[o] = <<>> THEN known \ {o} ELSE known
    /\ UNCHANGED m_schedulable_queues
    /\ broken' = (o \notin known)
    /\ NotifyOne
    /\ UNCHANGED <<m_queues, counts, ending, waiters, scheduled, dead, disturbed, bounds>>

\* The task has ended, and its queue goes back to the end of the line, or away
\* if it is empty.
Requeue(w) ==
  LET o == job[w].of IN
    /\ pc[w] = "run" /\ ~broken
    /\ pc' = [pc EXCEPT ![w] = "fetch"] /\ job' = [job EXCEPT ![w] = NoJob]
    /\ known' = IF o \in known /\ m_queues[o] = <<>> THEN known \ {o} ELSE known
    /\ m_schedulable_queues' = IF o \in known /\ m_queues[o] # <<>>
                               THEN Append(m_schedulable_queues, o)
                               ELSE m_schedulable_queues
    /\ broken' = (o \notin known \/ InLine(o))
    /\ NotifyOne
    /\ UNCHANGED <<m_queues, counts, ending, waiters, scheduled, dead, disturbed, bounds>>

\* The worker is removed from the counts.
Departs(w) ==
  /\ pc' = [pc EXCEPT ![w] = "none"]
  /\ m_worker_count' = m_worker_count - 1
  /\ m_active_worker_count' = m_active_worker_count - 1
  /\ m_terminated_workers' = IF m_terminate_all_workers THEN m_terminated_workers \cup {w}
                             ELSE m_terminated_workers

\* The task ends the worker, and nobody puts its queue back.  The size policy
\* asks for the size the pool had, whatever the target was, and gets a new
\* thread or none.
Die(w) ==
  /\ pc[w] = "run" /\ ~broken
  /\ deaths < MaxDeaths
  /\ deaths' = deaths + 1
  /\ job' = [job EXCEPT ![w] = NoJob]
  /\ dead' = dead \cup {job[w].of}
  /\ NotifyIdle
  /\ \/ /\ ~m_terminate_all_workers
        /\ pc' = [pc EXCEPT ![w] = "fetch"]
        /\ m_target_worker_count' = m_worker_count
        /\ UNCHANGED <<m_worker_count, m_active_worker_count, m_terminated_workers>>
     \/ /\ Departs(w)
        /\ m_target_worker_count' = IF m_terminate_all_workers THEN m_target_worker_count
                                    ELSE m_worker_count
  /\ UNCHANGED <<scheduler, m_terminate_all_workers, napping, waiting, policy, owner,
                 scheduled, disturbed, broken, resizes, clears>>

\* Mutant: a worker leaves without telling those who wait.
LeaveQuietly(w) ==
  /\ pc[w] = "leave" /\ ~broken
  /\ Departs(w)
  /\ UNCHANGED <<scheduler, m_target_worker_count, m_terminate_all_workers, job, napping,
                 waiting, policy, owner, asleep, history, bounds>>

Leave(w) ==
  /\ pc[w] = "leave" /\ ~broken
  /\ Departs(w)
  /\ NotifyIdle
  /\ UNCHANGED <<scheduler, m_target_worker_count, m_terminate_all_workers, job, napping,
                 waiting, policy, owner, history, bounds>>

-----------------------------------------------------------------------------
OwnerStep == OwnerWaits \/ TerminateAllWorkers \/ JoinAgain
WorkerStep(w) == Fetch(w) \/ Wake(w) \/ Requeue(w) \/ Leave(w)

Next ==
  \/ \E o \in Objects : Schedule(o)
  \/ Clear
  \/ \E n \in Sizes : Resize(n)
  \/ \E c \in Clients : WaitAgain(c) \/ WaitTimesOut(c)
  \/ \E c \in Clients, k \in Thresholds : Wait(c, k)
  \/ Shutdown \/ OwnerStep
  \/ \E w \in Workers : WorkerStep(w) \/ Die(w)

Spec == Init /\ [][Next]_vars

\* Threads get the mutex again and again, and tasks end.
Fairness ==
  /\ \A w \in Workers : WF_vars(WorkerStep(w))
  /\ \A c \in Clients : WF_vars(WaitAgain(c))
  /\ WF_vars(OwnerStep)

FairSpec == Spec /\ Fairness

-----------------------------------------------------------------------------
\* Safety.

\* The unsigned counts are the numbers of workers they are named for: a worker
\* is active unless it waits for a task or has not got the mutex back yet.
\* (resize, execute_task, worker_destructed, worker_died_unexpectedly.)
CountsMatch ==
  /\ m_worker_count = Cardinality({w \in Workers : pc[w] # "none"})
  /\ m_active_worker_count = Cardinality({w \in Workers : pc[w] \notin {"none", "wait"}})

\* When wait() may return, every task is done: none is executed and none is left
\* in a queue outside the line, except behind a task that has ended its worker.
\* (pool_core::wait, execute_task, requeue.)
IdleMeansDone ==
  (Idle(0) /\ ~disturbed) =>
    \A o \in Objects : ~Busy(o) /\ (m_queues[o] # <<>> => o \in dead)

\* What o executes.
Current(o) ==
  IF Busy(o) THEN job[CHOOSE w \in Workers : pc[w] = "run" /\ job[w].of = o].task ELSE 0

\* Each object gets its tasks executed one at a time and in order, whatever the
\* workers do at the same time, and no queue is used that is not there, unless
\* clear was called during a task.  (pool_core, active_scheduler.)
Objs == INSTANCE ActiveObjects WITH
  inbox <- m_queues, current <- [o \in Objects |-> Current(o)],
  posted <- scheduled, Nothing <- 0

ActiveSpec == Objs!Spec

-----------------------------------------------------------------------------
\* Liveness.

\* Fewer workers than asked for: several of them have seen that there are too
\* many before the first has left, or a thread could not be created.
Short == m_worker_count < m_target_worker_count

Excused == Short \/ m_target_worker_count = 0 \/ disturbed

\* A queue is emptied in the end, unless the pool is short of workers: no
\* notification is lost between the workers that wait, leave and take tasks.
\* (schedule, requeue, execute_task.)
TasksRun ==
  \A o \in Objects : m_queues[o] # <<>> ~> (m_queues[o] = <<>> \/ o \in dead \/ Excused)

\* A thread that waits for the pool gets its answer, and so does the shutdown,
\* with the same exceptions; tasks behind a dead one keep nobody waiting.
\* (wait, terminate_all_workers.)
WaitReturns ==
  /\ \A c \in Clients : waiting[c] # -1 ~> (waiting[c] = -1 \/ Excused)
  /\ owner = "wait" ~> (owner # "wait" \/ Excused)
  /\ owner = "join" ~> (owner = "down" \/ disturbed)

\* The pool gets as small as it was asked to be, and empty in the end of a
\* shutdown, whatever its workers are waiting for.  (resize, execute_task.)
PoolShrinks ==
  m_worker_count > m_target_worker_count ~>
    (m_worker_count <= m_target_worker_count \/ disturbed)

=============================================================================
