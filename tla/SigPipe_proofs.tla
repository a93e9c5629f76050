----------------------------- MODULE SigPipe_proofs -----------------------------
(***************************************************************************)
(* The pipe of signals wakes the program exactly when there is a signal to *)
(* ask for, and its handler never fails, for any finite set of signals.    *)
(***************************************************************************)
EXTENDS SigPipe, FiniteSetTheorems, TLAPS

\* Inside cfgs_sigpipe_caught, with the signals blocked.
Critical == main \in {"test", "uncount", "drain", "unblock"}

\* Handlers do not nest, and none runs inside cfgs_sigpipe_caught.
Exclusion ==
  /\ \A s, t \in Sigs : at[s] # "none" /\ at[t] # "none" => s = t
  /\ Critical => mask = Sigs /\ \A s \in Sigs : at[s] = "none"

\* The counter is the size of the set, but for a signal that has been put
\* into it or taken out of it and not yet counted.
CounterInStep ==
  /\ \A s \in Sigs : at[s] = "count" => s \in caught
  /\ cnt = IF main = "uncount" THEN Cardinality(caught) + 1
           ELSE IF \E s \in Sigs : at[s] = "count" THEN Cardinality(caught) - 1
           ELSE Cardinality(caught)

\* There is a byte in the pipe while a signal is counted, but for the moments
\* before the handler writes it and before the program reads it.
ByteInStep ==
  /\ \A s \in Sigs : at[s] = "write" => cnt = 1
  /\ main = "drain" => cnt = 0
  /\ bytes = IF main = "drain" THEN 1
             ELSE IF cnt = 0 \/ \E s \in Sigs : at[s] = "write" THEN 0
             ELSE 1

\* Handlers are set only while the pipe is open.
OpenForHandlers ==
  /\ fds = "open" <=> main # "out"
  /\ main = "out" => installed = {} /\ \A s \in Sigs : at[s] = "none"
  /\ main = "reset" => installed \subseteq todo

IInv ==
  /\ TypeOK
  /\ Exclusion
  /\ CounterInStep
  /\ ByteInStep
  /\ OpenForHandlers
  /\ NoAssertion

\* The cardinality of the set of caught signals is a number, 0 for no signal.
LEMMA CaughtFinite ==
  ASSUME TypeOK
  PROVE  /\ IsFiniteSet(caught)
         /\ Cardinality(caught) \in Nat
         /\ Cardinality(caught) = 0 <=> caught = {}
  BY SigsAssumption, FS_Subset, FS_CardinalityType, FS_EmptySet DEF TypeOK

\* Adding a new signal to the set adds one to its cardinality.
LEMMA CaughtAdd ==
  ASSUME TypeOK, NEW s \in Sigs, s \notin caught
  PROVE  Cardinality(caught \cup {s}) = Cardinality(caught) + 1
  BY CaughtFinite, FS_AddElement

\* Taking a signal out of the set takes one from its cardinality.
LEMMA CaughtRemove ==
  ASSUME TypeOK, NEW s \in Sigs, s \in caught
  PROVE  Cardinality(caught \ {s}) = Cardinality(caught) - 1
  BY CaughtFinite, FS_RemoveElement

\* Types are preserved given that the counter never goes below zero.
LEMMA TypePreserved ==
  ASSUME IInv, [Next]_vars
  PROVE  TypeOK'
<1> USE SigsAssumption, BoundsAssumption DEF IInv, TypeOK
<1>1. CASE UNCHANGED vars
  BY <1>1 DEF vars, program, kernel, table, pipe
<1>2. CASE Program
  <2>1. CASE Start \/ InstallFails \/ Started
    BY <2>1 DEF Start, InstallFails, Started, Step, program, kernel, table, pipe
  <2>2. CASE Select \/ Test \/ Drain \/ Unblock \/ Waited
    BY <2>2 DEF Select, Test, Drain, Unblock, Waited, Step, program, kernel, table, pipe
  <2>3. CASE Uncount
    <3>1. cnt >= 1
      BY <2>3, CaughtFinite DEF Uncount, Step, CounterInStep
    <3> QED
      BY <2>3, <3>1 DEF Uncount, Step, program, kernel, table, pipe
  <2>4. CASE Stop \/ CloseDown
    BY <2>4 DEF Stop, CloseDown, Step, program, kernel, table, pipe
  <2>5. CASE \E s \in Sigs : Install(s) \/ Ask(s) \/ Reset(s)
    BY <2>5 DEF Install, Ask, Reset, Step, program, kernel, table, pipe
  <2> QED
    BY <1>2, <2>1, <2>2, <2>3, <2>4, <2>5 DEF Program
<1>3. CASE Signals
  <2> PICK s \in Sigs :
        Raise(s) \/ DefaultAction(s) \/ Deliver(s) \/ Note(s) \/ Count(s) \/ Write(s)
    BY <1>3 DEF Signals
  <2>1. CASE Raise(s) \/ DefaultAction(s) \/ Deliver(s)
    BY <2>1 DEF Raise, DefaultAction, Deliver, program, kernel, table, pipe
  <2>2. CASE Note(s) \/ Count(s)
    BY <2>2 DEF Note, Count, program, kernel, table, pipe
  <2>3. CASE Write(s)
    BY <2>3 DEF Write, program, kernel, table, pipe
  <2> QED
    BY <2>1, <2>2, <2>3
<1> QED
  BY <1>1, <1>2, <1>3 DEF Next

\* The steps of the program preserve the invariant.
LEMMA ProgramPreserves ==
  ASSUME IInv, Program
  PROVE  (Exclusion /\ CounterInStep /\ ByteInStep /\ OpenForHandlers /\ NoAssertion)'
<1> USE SigsAssumption DEF IInv, Step, Catching, Critical, Exclusion, CounterInStep,
        ByteInStep, OpenForHandlers, NoAssertion, program, kernel, table, pipe
<1>1. CASE Start
  BY <1>1, FS_EmptySet DEF Start, TypeOK
<1>2. CASE InstallFails \/ Started \/ Select \/ Waited \/ Stop
  BY <1>2 DEF InstallFails, Started, Select, Waited, Stop, TypeOK
<1>3. CASE Test
  <2>1. CASE asked \in caught
    <3>1. Cardinality(caught \ {asked}) = Cardinality(caught) - 1
      BY <2>1, CaughtRemove DEF TypeOK
    <3>2. Cardinality(caught) \in Nat \ {0} /\ caught # {}
      BY <2>1, CaughtFinite
    <3> QED
      BY <1>3, <2>1, <3>1, <3>2 DEF Test, TypeOK
  <2>2. CASE asked \notin caught
    <3>1. caught \ {asked} = caught
      BY <2>2
    <3> QED
      BY <1>3, <2>2, <3>1 DEF Test, TypeOK
  <2> QED
    BY <2>1, <2>2
<1>4. CASE Uncount
  BY <1>4, CaughtFinite DEF Uncount, TypeOK
<1>5. CASE Drain \/ Unblock
  BY <1>5 DEF Drain, Unblock, TypeOK
<1>6. CASE CloseDown
  BY <1>6, FS_EmptySet DEF CloseDown, TypeOK
<1>7. CASE \E s \in Sigs : Install(s) \/ Ask(s) \/ Reset(s)
  BY <1>7 DEF Install, Ask, Reset, TypeOK
<1> QED
  BY <1>1, <1>2, <1>3, <1>4, <1>5, <1>6, <1>7 DEF Program

\* The signals and the handler preserve the invariant.
LEMMA SignalsPreserve ==
  ASSUME IInv, Signals
  PROVE  (Exclusion /\ CounterInStep /\ ByteInStep /\ OpenForHandlers /\ NoAssertion)'
<1> USE SigsAssumption, BoundsAssumption DEF IInv, Critical, Exclusion, CounterInStep,
        ByteInStep, OpenForHandlers, NoAssertion, program, kernel, table, pipe
<1> PICK s \in Sigs :
      Raise(s) \/ DefaultAction(s) \/ Deliver(s) \/ Note(s) \/ Count(s) \/ Write(s)
  BY DEF Signals
<1>1. CASE Raise(s) \/ DefaultAction(s)
  BY <1>1 DEF Raise, DefaultAction, TypeOK
<1>2. CASE Deliver(s)
  <2>1. \A t \in Sigs : at[t] = "none"
    BY <1>2 DEF Deliver, Blocked, Catching, CatcherMask, TypeOK
  <2>2. ~Critical
    BY <1>2 DEF Deliver, Blocked, TypeOK
  <2>3. /\ at' = [at EXCEPT ![s] = "note"]
        /\ installed # {}
        /\ UNCHANGED <<program, installed, table, pipe, down>>
    BY <1>2 DEF Deliver
  <2> QED
    BY <2>1, <2>2, <2>3 DEF TypeOK
<1>3. CASE Note(s)
  <2>1. ~Critical /\ main # "out" /\ \A t \in Sigs : t # s => at[t] = "none"
    BY <1>3 DEF Note
  <2>2. CASE s \in caught
    <3>1. caught' = caught /\ at' = [at EXCEPT ![s] = "none"]
      BY <1>3, <2>2 DEF Note
    <3> QED
      BY <1>3, <2>1, <3>1, ZenonT(60) DEF Note, TypeOK
  <2>3. CASE s \notin caught
    <3>1. /\ Cardinality(caught') = Cardinality(caught) + 1
          /\ at' = [at EXCEPT ![s] = "count"]
      BY <1>3, <2>3, CaughtAdd DEF Note
    <3>2. Cardinality(caught) \in Nat
      BY CaughtFinite
    <3> QED
      BY <1>3, <2>1, <3>1, <3>2 DEF Note, TypeOK
  <2> QED
    BY <2>2, <2>3
<1>4. CASE Count(s)
  <2>1. ~Critical /\ main # "out" /\ \A t \in Sigs : t # s => at[t] = "none"
    BY <1>4 DEF Count
  <2>2. Cardinality(caught) \in Nat
    BY CaughtFinite
  <2> QED
    BY <1>4, <2>1, <2>2 DEF Count, TypeOK
<1>5. CASE Write(s)
  <2>1. ~Critical /\ main # "out" /\ \A t \in Sigs : t # s => at[t] = "none"
    BY <1>5 DEF Write
  <2>2. fds = "open" /\ bytes = 0 /\ cnt = 1
    BY <1>5, <2>1 DEF Write
  <2> QED
    BY <1>5, <2>1, <2>2 DEF Write, TypeOK
<1> QED
  BY <1>1, <1>2, <1>3, <1>4, <1>5

\* The invariant holds at the start and in every step.
LEMMA Inductive == Spec => []IInv
<1>1. Init => IInv
  <2> SUFFICES ASSUME Init PROVE IInv
    OBVIOUS
  <2>1. TypeOK
    BY BoundsAssumption DEF Init, TypeOK
  <2>2. Cardinality(caught) = 0
    BY FS_EmptySet DEF Init
  <2> QED
    BY <2>1, <2>2 DEF Init, IInv, Exclusion, Critical, CounterInStep, ByteInStep,
                      OpenForHandlers, NoAssertion
<1>2. IInv /\ [Next]_vars => IInv'
  <2> SUFFICES ASSUME IInv, [Next]_vars PROVE IInv'
    OBVIOUS
  <2>1. TypeOK'
    BY TypePreserved
  <2>2. CASE UNCHANGED vars
    BY <2>2, <2>1 DEF IInv, vars, program, kernel, table, pipe, Exclusion, Critical,
                      CounterInStep, ByteInStep, OpenForHandlers, NoAssertion
  <2>3. CASE Program
    BY <2>3, <2>1, ProgramPreserves DEF IInv
  <2>4. CASE Signals
    BY <2>4, <2>1, SignalsPreserve DEF IInv
  <2> QED
    BY <2>2, <2>3, <2>4 DEF Next
<1> QED
  BY <1>1, <1>2, PTL DEF Spec

\* The state of the pipe of signals is always well typed: in particular the
\* counter stays a natural number and the pipe within its capacity.
THEOREM SigPipeTyping == Spec => []TypeOK
<1>1. IInv => TypeOK
  BY DEF IInv
<1> QED
  BY <1>1, Inductive, PTL

\* When the program goes to wait in select, the pipe is readable if and only if
\* sigpipe_catcher has caught a signal that was not yet asked for.
THEOREM NoSignalIsSleptThrough == Spec => []WakesForSignals
<1>1. IInv => WakesForSignals
  <2> SUFFICES ASSUME IInv, main = "select", Catching = {}
               PROVE  bytes > 0 <=> caught # {}
    BY DEF WakesForSignals
  <2>1. \A s \in Sigs : at[s] = "none"
    BY DEF Catching
  <2> QED
    BY <2>1, CaughtFinite DEF IInv, CounterInStep, ByteInStep
<1> QED
  BY <1>1, Inductive, PTL

\* No assertion of sigpipe_catcher ever fails: its one byte always fits, and
\* the pipe is open as long as a handler may run.
THEOREM HandlerNeverFails == Spec => []NoAssertion
<1>1. IInv => NoAssertion
  BY DEF IInv
<1> QED
  BY <1>1, Inductive, PTL
=============================================================================
