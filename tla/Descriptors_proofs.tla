--------------------------- MODULE Descriptors_proofs ---------------------------
(***************************************************************************)
(* The daemon leaks no descriptor, although its handlers close numbers     *)
(* that may by then belong to others, whatever the number of connections   *)
(* and of descriptors.                                                     *)
(***************************************************************************)
EXTENDS Descriptors, TLAPS

\* A handler has no connection before it is accepted, and a file only while it
\* works on one.
Stages ==
  \A c \in Conns :
    /\ pc[c] = "none" => \A f \in Fds : fdt[f] # Conn(c)
    /\ pc[c] \notin {"none", "done"} => csock[c] \in Fds
    /\ pc[c] = "file" => file[c] \in Fds
    /\ pc[c] # "file" => \A f \in Fds : fdt[f] # File(c)

IInv == TypeOK /\ NumbersAreKnown /\ Stages /\ NothingLeaks

\* What is open under a number says what it is.
LEMMA Kinds ==
  ASSUME NEW c \in Conns, NEW d \in Conns
  PROVE  /\ Conn(c) # File(d) /\ Conn(c) # Nothing /\ File(c) # Nothing
         /\ Conn(c) = Conn(d) => c = d
         /\ File(c) = File(d) => c = d
         /\ Conn(c) # Forgotten /\ File(c) # Forgotten
         /\ Conn(c) \in Open /\ File(c) \in Open /\ Nothing \in Open /\ Forgotten \in Open
<1>1. Conn(c).conn = c /\ Conn(d).conn = d /\ File(c).file = c /\ File(d).file = d
  BY DEF Conn, File
<1>2. DOMAIN Conn(c) = {"conn"} /\ DOMAIN File(c) = {"file"}
      /\ DOMAIN File(d) = {"file"} /\ DOMAIN Nothing = {"none"} /\ DOMAIN Forgotten = {"lost"}
  BY DEF Conn, File, Nothing, Forgotten
<1>3. /\ "conn" # "file" /\ "conn" # "none" /\ "file" # "none"
      /\ "conn" # "lost" /\ "file" # "lost"
  OBVIOUS
<1>4. Conn(c) \in Open /\ File(c) \in Open /\ Nothing \in Open /\ Forgotten \in Open
  BY DEF Conn, File, Open
<1>5. /\ Conn(c) # File(d) /\ Conn(c) # Nothing /\ File(c) # Nothing
      /\ Conn(c) # Forgotten /\ File(c) # Forgotten
  BY <1>2, <1>3
<1> QED
  BY <1>1, <1>4, <1>5

\* The invariant holds at the start and in every step.
LEMMA Inductive == Spec => []IInv
<1>1. Init => IInv
  <2> SUFFICES ASSUME Init PROVE IInv
    OBVIOUS
  <2>1. Nothing \in Open
    BY DEF Open
  <2> QED
    BY <2>1, Kinds, ConstantsAssumption
       DEF Init, IInv, TypeOK, NumbersAreKnown, Stages, NothingLeaks, Fds
<1>2. IInv /\ [Next]_vars => IInv'
  <2> SUFFICES ASSUME IInv, [Next]_vars PROVE IInv'
    OBVIOUS
  <2> USE ConstantsAssumption, Kinds DEF IInv, TypeOK, NumbersAreKnown, Stages,
          NothingLeaks, At, Goto, Opens, Closes, Unused
  <2>1. CASE UNCHANGED vars
    BY <2>1 DEF vars
  <2>2. CASE \E c \in Conns : Accept(c)
    BY <2>2 DEF Accept
  <2>3. CASE \E c \in Conns : AcceptFails(c) \/ Refuse(c) \/ LockBackends(c)
    BY <2>3 DEF AcceptFails, Refuse, LockBackends
  <2>4. CASE \E c \in Conns : OpenValue(c)
    BY <2>4 DEF OpenValue
  <2>5. CASE \E c \in Conns : CloseValue(c)
    BY <2>5 DEF CloseValue
  <2>9. CASE \E c \in Conns : ReadFails(c)
    BY <2>9 DEF ReadFails
  <2>6. CASE \E c \in Conns : OpenFails(c) \/ UnlockBackends(c)
    BY <2>6, ZenonT(60) DEF OpenFails, UnlockBackends
  <2>10. CASE \E c \in Conns : Send(c)
    <3>1. PICK c \in Conns : Send(c)
      BY <2>10
    <3>2. NamesConnection(c) \in BOOLEAN
      BY DEF NamesConnection
    <3>3. keep' = [keep EXCEPT ![c] = NamesConnection(c)]
      BY <3>1, Zenon DEF Send
    <3>4. keep' \in [Conns -> BOOLEAN]
      BY <3>2, <3>3, Zenon
    <3> QED
      BY <3>1, <3>4 DEF Send
  <2>7. CASE \E c \in Conns : ReportError(c)
    BY <2>7 DEF ReportError
  <2>8. CASE \E c \in Conns : ExitHpr(c)
    BY <2>8 DEF ExitHpr
  <2> QED
    BY <2>1, <2>2, <2>3, <2>4, <2>5, <2>6, <2>7, <2>8, <2>9, <2>10 DEF Next, Handler
<1> QED
  BY <1>1, <1>2, PTL DEF Spec

\* The table of descriptors and the handlers' variables are well typed.
THEOREM DescriptorTyping == Spec => []TypeOK
<1>1. IInv => TypeOK
  BY DEF IInv
<1> QED
  BY <1>1, Inductive, PTL

\* A handler that is done leaves neither its connection nor a file open, but for
\* files whose reading failed.
THEOREM NoDescriptorLeaks == Spec => []NothingLeaks
<1>1. IInv => NothingLeaks
  BY DEF IInv
<1> QED
  BY <1>1, Inductive, PTL

\* What is open is known by one number only, to the handler that opened it.
THEOREM DescriptorsAreKnown == Spec => []NumbersAreKnown
<1>1. IInv => NumbersAreKnown
  BY DEF IInv
<1> QED
  BY <1>1, Inductive, PTL
=============================================================================
