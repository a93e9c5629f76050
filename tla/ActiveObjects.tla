----------------------------- MODULE ActiveObjects -----------------------------
(***************************************************************************)
(* What a pool with active_scheduler promises to its active objects: each  *)
(* has an inbox, and its tasks are executed one at a time in the order in  *)
(* which they were scheduled.  An object whose task ends the worker is     *)
(* never served again.  Clearing the inboxes while a task is executed ends *)
(* the promise.                                                            *)
(***************************************************************************)
EXTENDS Naturals, Sequences

CONSTANTS Objects, Nothing

VARIABLES
  inbox,      \* inbox[o]: the tasks scheduled and not begun, oldest first
  current,    \* current[o]: the task being executed, or Nothing
  posted,     \* how many tasks have been scheduled; they are numbered
  dead,       \* the objects whose task has ended its worker
  disturbed,  \* inboxes were cleared during a task
  broken      \* the pool has used a queue that is not there

absVars == <<inbox, current, posted, dead, disturbed, broken>>

Init ==
  /\ inbox = [o \in Objects |-> <<>>]
  /\ current = [o \in Objects |-> Nothing]
  /\ posted = 0
  /\ dead = {}
  /\ disturbed = FALSE /\ broken = FALSE

Post(o) ==
  /\ posted' = posted + 1
  /\ inbox' = [inbox EXCEPT ![o] = Append(@, posted')]
  /\ UNCHANGED <<current, dead, disturbed, broken>>

Begin(o) ==
  /\ o \notin dead
  /\ current[o] = Nothing /\ inbox[o] # <<>>
  /\ current' = [current EXCEPT ![o] = Head(inbox[o])]
  /\ inbox' = [inbox EXCEPT ![o] = Tail(@)]
  /\ UNCHANGED <<posted, dead, disturbed, broken>>

End(o) ==
  /\ current[o] # Nothing
  /\ current' = [current EXCEPT ![o] = Nothing]
  /\ UNCHANGED <<inbox, posted, dead, disturbed, broken>>

Die(o) ==
  /\ current[o] # Nothing
  /\ current' = [current EXCEPT ![o] = Nothing]
  /\ dead' = dead \cup {o}
  /\ UNCHANGED <<inbox, posted, disturbed, broken>>

Clear ==
  /\ inbox' = [o \in Objects |-> <<>>]
  /\ dead' = {}
  /\ disturbed' = (\E o \in Objects : current[o] # Nothing)
  /\ UNCHANGED <<current, posted, broken>>

Next ==
  \/ ~disturbed /\ (Clear \/ \E o \in Objects : Post(o) \/ Begin(o) \/ End(o) \/ Die(o))
  \/ disturbed /\ disturbed'

Spec == Init /\ [][Next]_absVars

=============================================================================
