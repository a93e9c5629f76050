---------------------------- MODULE UffdDump_proofs ----------------------------
(***************************************************************************)
(* Proofs about the core dump, for any memory layout, any number of        *)
(* writers, callers, dumps and failing system calls: types, whose result a *)
(* caller gets, that the core is an image of memory at the moment of its   *)
(* protection, and where the engine can get stuck on memory of its own.    *)
(***************************************************************************)
EXTENDS UffdDump, WellFoundedInduction, TLAPS

PagesOf(S) == UNION {Regions[i].pages : i \in S}

\* The places of the dumper at which the core is open.
InDump == {"parse", "list", "query", "protect", "header", "claim", "copy", "finish"}

\* The monitor has read a fault of this dump and is at a place.
Handles(label) == mpc = label /\ mdump = dumps

\* Where the dumper is in its loops, and what is left of them; the monitor has a
\* page when it works on one.
LoopInv ==
  /\ mpc \in {"claim", "preserve", "release"} => mpage \in Pages
  /\ file # Nobody <=> dpc \in InDump
  /\ guarded \subseteq listed
  /\ dpc = "query" => rest # {}
  /\ dpc \in {"protect", "claim", "copy"} <=> todo # {}
  /\ dpc \in {"query", "protect"} =>
       /\ rest \subseteq guarded
       /\ todo \subseteq PagesOf(guarded) \ PagesOf(rest)
  /\ dpc \in {"query", "protect", "header"} => listed # {}
  /\ dpc \in {"claim", "copy"} => todo \subseteq PagesOf(listed)

\* One caller at a time is inside Trigger, and the dump, its path and its result
\* are that caller's.
CallInv ==
  /\ life = "new" => dpc = "none"
  /\ life = "down" => dpc = "gone"
  /\ life # "down" =>
       /\ \A c \in Callers : calling[c] # "out" => dumping /\ pendingPath = c
       /\ dpc \in InDump \cup {"publish"} =>
            /\ dumping /\ ~dumpDone /\ ~runEvt
            /\ path = pendingPath
       /\ runEvt => dumping /\ ~dumpDone
       /\ dumping => pendingPath \in Callers
       /\ dumping /\ dumpDone => dumpResult.of = pendingPath
       /\ \A c \in Callers : answer[c].of = c

\* Only pages of registered regions are protected, and only during a dump;
\* whoever sleeps, sleeps on a protected page.
ProtInv ==
  /\ prot \subseteq PagesOf(guarded)
  /\ dpc \notin {"query", "protect", "header", "claim", "copy", "finish"} => prot = {}
  /\ \A t \in Threads : sleepOn[t] # NoPage => sleepOn[t] \in prot

\* What is frozen was protected in this dump.
FrozenInv ==
  /\ mdump <= dumps
  /\ dpc \in {"parse", "list"} =>
       /\ ~(Handles("claim") \/ Handles("preserve") \/ Handles("release"))
       /\ \A p \in Pages : frozen[p] = Hole
  /\ \A p \in prot : frozen[p] # Hole
  /\ file # Nobody => /\ \A p \in Pages : frozen[p] # Hole => p \in PagesOf(guarded)
                      /\ Handles("claim") => frozen[mpage] # Hole
  /\ dpc \in {"query", "protect"} => \A p \in todo \cup PagesOf(rest) : frozen[p] = Hole

\* How a page that is not spoiled gets into the core: it is claimed once, by the
\* dumper or the monitor, and stays protected until it has been written.
PageInv(p) ==
  /\ core[p] # Hole => p \in claimed /\ (frozen[p] # Hole => core[p] = frozen[p])
  /\ frozen[p] # Hole /\ core[p] = Hole => p \in prot /\ mem[p] = frozen[p]
  /\ p \in claimed => \/ core[p] # Hole
                      \/ dpc = "copy" /\ p = Min(todo)
                      \/ Handles("preserve") /\ mpage = p
  /\ p \in claimed /\ dpc \in {"parse", "list", "query", "protect"} => frozen[p] # Hole
  /\ dpc = "copy" /\ p = Min(todo) => /\ p \in claimed /\ core[p] = Hole
                                      /\ ~(Handles("preserve") /\ mpage = p)
  /\ Handles("preserve") /\ mpage = p => p \in claimed /\ core[p] = Hole
  /\ Handles("release") /\ mpage = p => p \in claimed
  /\ dpc \in {"claim", "copy", "finish"} /\ p \in PagesOf(listed) \ todo => p \in claimed

ImageInv ==
  /\ file # Nobody /\ res = "Ok" => \A p \in Pages \ spoiled : PageInv(p)
  /\ ImageIsFrozen

-----------------------------------------------------------------------------
\* The layout of memory.

\* A set of numbers with a member has a least one, which Min chooses.
LEMMA Least ==
  ASSUME NEW S, S \subseteq Nat, S # {}
  PROVE  Min(S) \in S /\ \A x \in S : Min(S) <= x
<1> DEFINE Less == OpToRel(<, Nat)
<1>1. IsWellFoundedOn(Less, Nat)
  BY NatLessThanWellFounded
<1>2. PICK x \in S : \A y \in S : ~(<<y, x>> \in Less)
  <2> HIDE DEF Less
  <2> QED BY <1>1, WFMin
<1>3. \A y \in S : ~(y < x)
  BY <1>2 DEF OpToRel
<1>4. \A y \in S : x <= y
  BY <1>3
<1> QED
  BY <1>4 DEF Min

\* Regions have pages, and no page in common.
LEMMA Layout ==
  /\ Pages \subseteq Nat /\ DOMAIN Regions \subseteq Nat /\ Hole \notin Nat
  /\ \A S \in SUBSET DOMAIN Regions : PagesOf(S) \subseteq Pages
  /\ \A i \in DOMAIN Regions : Regions[i].pages # {} /\ Regions[i].pages \subseteq Pages
  /\ \A i, j \in DOMAIN Regions : i # j => Regions[i].pages \cap Regions[j].pages = {}
<1>1. DOMAIN Regions \subseteq Nat
  BY RegionsAssumption
<1>2. \A i \in DOMAIN Regions : Regions[i].pages # {} /\ Regions[i].pages \subseteq Nat
  BY RegionsAssumption
<1>3. ASSUME NEW i \in DOMAIN Regions, NEW j \in DOMAIN Regions, i # j
      PROVE  Regions[i].pages \cap Regions[j].pages = {}
  <2>1. i < j \/ j < i
    BY <1>1, <1>3
  <2>2. \A p \in Regions[i].pages, q \in Regions[j].pages : p < q \/ q < p
    BY <2>1, RegionsAssumption
  <2> QED
    BY <1>2, <2>2
<1> QED
  BY <1>1, <1>2, <1>3 DEF Pages, PagesOf, Hole

\* What the monitor does about a fault: it claims the page, or finds that it need
\* not.
LEMMA Claims ==
  ASSUME MonitorClaim
  PROVE  \/ /\ mpage \notin claimed /\ claimed' = claimed \cup {mpage}
            /\ spoiled' = IF Late THEN spoiled \cup {mpage} ELSE spoiled
            /\ mpc' = "preserve"
         \/ /\ dpc # "list" /\ mpage \in PagesOf(listed) /\ dumping => mpage \in claimed
            /\ UNCHANGED <<claimed, spoiled>>
            /\ mpc' = "release"
<1> DEFINE owned == \E i \in listed : mpage \in Regions[i].pages
           Wins(owner) == owner /\ dumping /\ mpage \notin claimed
<1>1. PICK owner \in IF dpc = "list" THEN BOOLEAN ELSE {owned} :
        IF Wins(owner)
        THEN /\ claimed' = claimed \cup {mpage}
             /\ spoiled' = IF Late THEN spoiled \cup {mpage} ELSE spoiled
             /\ mpc' = "preserve"
        ELSE mpc' = "release" /\ UNCHANGED <<claimed, spoiled>>
  BY DEF MonitorClaim
<1>2. CASE Wins(owner)
  BY <1>1, <1>2
<1>3. CASE ~Wins(owner)
  <2>1. ASSUME dpc # "list", mpage \in PagesOf(listed), dumping PROVE mpage \in claimed
    <3>1. owner = owned
      BY <1>1, <2>1
    <3>2. owned
      BY <2>1 DEF PagesOf
    <3> QED
      BY <1>3, <2>1, <3>1, <3>2
  <2> QED
    BY <1>1, <1>3, <2>1
<1> QED
  BY <1>2, <1>3

-----------------------------------------------------------------------------
\* Types, the loops of the dumper, and who has called.

\* TypeOK in four parts.

MemoryTypes ==
  /\ mem \in [Pages -> Nat] /\ present \subseteq Pages /\ prot \subseteq Pages
  /\ writing \in [Writers -> Pages \cup {NoPage}]
  /\ sleepOn \in [Threads -> Pages \cup {NoPage}]
  /\ unread \subseteq {t \in Threads : sleepOn[t] # NoPage}
  /\ writes \in Nat /\ failures \in Nat

CallTypes ==
  /\ minSize \in Nat
  /\ life \in {"new", "armed", "joining", "down"}
  /\ calling \in [Callers -> {"out", "check", "read"}]
  /\ answer \in [Callers -> [status : {"none", "Ok", "SystemError", "WriteError"},
                             of : Callers \cup {Nobody}]]
  /\ dumpResult \in [status : {"none", "Ok", "SystemError", "WriteError"},
                     of : Callers \cup {Nobody}]
  /\ dumping \in BOOLEAN /\ dumpDone \in BOOLEAN
  /\ pendingPath \in Callers \cup {Nobody}
  /\ runEvt \in BOOLEAN /\ doneEvt \in BOOLEAN /\ shutdownEvt \in BOOLEAN

DumperTypes ==
  /\ dpc \in {"none", "idle", "parse", "list", "query", "protect",
              "header", "claim", "copy", "finish", "publish", "signal", "gone"}
  /\ file \in Callers \cup {Nobody} /\ path \in Callers \cup {Nobody}
  /\ res \in {"Ok", "SystemError", "WriteError"}
  /\ listed \subseteq DOMAIN Regions /\ guarded \subseteq DOMAIN Regions
  /\ rest \subseteq DOMAIN Regions /\ todo \subseteq Pages
  /\ claimed \subseteq Pages
  /\ core \in [Pages -> Nat \cup {Hole}] /\ frozen \in [Pages -> Nat \cup {Hole}]

MonitorTypes ==
  /\ mpc \in {"none", "poll", "claim", "preserve", "release", "gone"}
  /\ mpage \in Pages \cup {NoPage} /\ mdump \in Nat
  /\ arena \in BOOLEAN /\ spoiled \subseteq Pages
  /\ dumps \in Nat

Types == MemoryTypes /\ CallTypes /\ DumperTypes /\ MonitorTypes

LEMMA TypeParts == Types => TypeOK
  BY DEF Types, TypeOK, MemoryTypes, CallTypes, DumperTypes, MonitorTypes

LEMMA TypesInit == Init => Types
<1> USE ThreadsAssumption DEF Init, Hole
<1>1. Init => MemoryTypes
  BY Layout DEF MemoryTypes, Threads
<1>2. ASSUME Init PROVE CallTypes
  <2>1. /\ answer \in [Callers -> [status : {"none"}, of : Callers]]
        /\ dumpResult \in [status : {"none"}, of : {Nobody}]
    BY <1>2
  <2>2. calling \in [Callers -> {"out"}] /\ minSize = 0 /\ life = "new"
    BY <1>2
  <2>3. ~dumping /\ ~dumpDone /\ pendingPath = Nobody /\ ~runEvt /\ ~doneEvt /\ ~shutdownEvt
    BY <1>2
  <2>4. /\ dumping \in BOOLEAN /\ dumpDone \in BOOLEAN
        /\ runEvt \in BOOLEAN /\ doneEvt \in BOOLEAN /\ shutdownEvt \in BOOLEAN
    BY <1>2
  <2> QED
    BY <2>1, <2>2, <2>3, <2>4 DEF CallTypes
<1>3. Init => DumperTypes
  BY DEF DumperTypes
<1>4. ASSUME Init PROVE MonitorTypes
  <2>1. mpc = "none" /\ mpage = NoPage /\ mdump = 0 /\ arena \in BOOLEAN /\ dumps = 0 /\ spoiled = {}
    BY <1>4
  <2> QED
    BY <2>1 DEF MonitorTypes
<1> QED
  BY <1>1, <1>2, <1>3, <1>4 DEF Types

LEMMA TypesNext == Types /\ LoopInv /\ [Next]_vars => Types'
<1> SUFFICES ASSUME MemoryTypes, CallTypes, DumperTypes, MonitorTypes, LoopInv, [Next]_vars
             PROVE  Types'
  BY DEF Types
<1> USE Layout, ThreadsAssumption DEF memory, faults, callers, shared, events, tables,
      loops, image, monitor, history, engine, Works, Fails,
      Types, MemoryTypes, CallTypes, DumperTypes, MonitorTypes
<1>1. ASSUME NEW w \in Writers, NEW p \in WriterPages, Write(w, p) PROVE Types'
  BY <1>1 DEF Write, Attempt, WriterPages
<1>2. ASSUME NEW w \in Writers, NEW p \in WriterPages, Stall(w, p) PROVE Types'
  BY <1>2 DEF Stall, Attempt, WriterPages, FallAsleep, Threads
<1>3. ASSUME NEW t \in {Dumper, Monitor}, SelfFault(t) PROVE Types'
  BY <1>3 DEF SelfFault, FallAsleep, Touches, Threads
<1>4. ASSUME Arm PROVE Types'
  <2>1. MemoryTypes'
    BY <1>4, BoundsAssumption DEF Arm
  <2>2. CallTypes'
    BY <1>4, BoundsAssumption DEF Arm
  <2>3. DumperTypes'
    BY <1>4, BoundsAssumption DEF Arm
  <2>4. MonitorTypes'
    BY <1>4, BoundsAssumption DEF Arm
  <2> QED
    BY <2>1, <2>2, <2>3, <2>4
<1>5. ASSUME NEW c \in Callers, Trigger(c) PROVE Types'
  <2>1. MemoryTypes'
    BY <1>5 DEF Trigger
  <2>2. CallTypes'
    BY <1>5 DEF Trigger
  <2>3. DumperTypes'
    BY <1>5 DEF Trigger
  <2>4. MonitorTypes'
    BY <1>5 DEF Trigger
  <2> QED
    BY <2>1, <2>2, <2>3, <2>4
<1>6. ASSUME NEW c \in Callers, CheckDone(c) PROVE Types'
  <2>1. MemoryTypes'
    BY <1>6 DEF CheckDone, Return
  <2>2. CallTypes'
    <3>1. CASE Return(c)
      BY <1>6, <3>1 DEF CheckDone, Return
    <3>2. CASE calling' = [calling EXCEPT ![c] = "read"] /\ UNCHANGED <<answer, dumping>>
      BY <1>6, <3>2 DEF CheckDone
    <3> QED
      BY <1>6, <3>1, <3>2 DEF CheckDone
  <2>3. DumperTypes'
    BY <1>6 DEF CheckDone, Return
  <2>4. MonitorTypes'
    BY <1>6 DEF CheckDone, Return
  <2> QED
    BY <2>1, <2>2, <2>3, <2>4
<1>7. ASSUME NEW c \in Callers, ReadDone(c) PROVE Types'
  <2>1. MemoryTypes'
    BY <1>7 DEF ReadDone
  <2>2. CallTypes'
    BY <1>7 DEF ReadDone
  <2>3. DumperTypes'
    BY <1>7 DEF ReadDone
  <2>4. MonitorTypes'
    BY <1>7 DEF ReadDone
  <2> QED
    BY <2>1, <2>2, <2>3, <2>4
<1>8. ASSUME AskShutdown PROVE Types'
  BY <1>8 DEF AskShutdown
<1>9. ASSUME Join PROVE Types'
  <2>1. MemoryTypes'
    BY <1>9 DEF Join, Unprotect
  <2>2. CallTypes'
    BY <1>9 DEF Join, Unprotect
  <2>3. DumperTypes'
    BY <1>9 DEF Join, Unprotect
  <2>4. MonitorTypes'
    BY <1>9 DEF Join, Unprotect
  <2> QED
    BY <2>1, <2>2, <2>3, <2>4
<1>10. ASSUME DumperLeaves PROVE Types'
  BY <1>10 DEF DumperLeaves, DumperAt
<1>11. ASSUME Open PROVE Types'
  <2>1. MemoryTypes'
    BY <1>11 DEF Open, Kicked, DumperAt
  <2>2. CallTypes'
    BY <1>11 DEF Open, Kicked, DumperAt
  <2>3. DumperTypes'
    BY <1>11 DEF Open, Kicked, DumperAt
  <2>4. MonitorTypes'
    BY <1>11 DEF Open, Kicked, DumperAt
  <2> QED
    BY <2>1, <2>2, <2>3, <2>4
<1>12. ASSUME OpenFails PROVE Types'
  <2>1. MemoryTypes'
    BY <1>12 DEF OpenFails, Kicked, DumperAt
  <2>2. CallTypes'
    BY <1>12 DEF OpenFails, Kicked, DumperAt
  <2>3. DumperTypes'
    BY <1>12 DEF OpenFails, Kicked, DumperAt
  <2>4. MonitorTypes'
    <3>1. arena' \in BOOLEAN
      BY <1>12 DEF OpenFails, MonitorTypes
    <3> QED BY <1>12, <3>1 DEF OpenFails, Kicked, DumperAt
  <2> QED
    BY <2>1, <2>2, <2>3, <2>4
<1>13. ASSUME Parse PROVE Types'
  BY <1>13 DEF Parse, DumperAt
<1>14. ASSUME ParseFails PROVE Types'
  <2>1. arena' \in BOOLEAN
    BY <1>14 DEF ParseFails, MonitorTypes
  <2> QED BY <1>14, <2>1 DEF ParseFails, DumperAt
<1>15. ASSUME List PROVE Types'
  <2>1. MemoryTypes'
    BY <1>15 DEF List, DumperAt, Listed, ProtectNext
  <2>2. CallTypes'
    BY <1>15 DEF List, DumperAt, Listed, ProtectNext
  <2>3. DumperTypes'
    BY <1>15 DEF List, DumperAt, Listed, ProtectNext
  <2>4. MonitorTypes'
    BY <1>15 DEF List, DumperAt, Listed, ProtectNext
  <2> QED
    BY <2>1, <2>2, <2>3, <2>4
<1>16. ASSUME Query PROVE Types'
  <2>1. MemoryTypes'
    BY <1>16 DEF Query, DumperAt, ProtectNext
  <2>2. CallTypes'
    BY <1>16 DEF Query, DumperAt, ProtectNext
  <2>3. DumperTypes'
    <3>1. Min(rest) \in DOMAIN Regions
      BY <1>16, Least DEF LoopInv, Query, DumperAt
    <3> QED
      BY <1>16, <3>1 DEF Query, DumperAt, ProtectNext
  <2>4. MonitorTypes'
    BY <1>16 DEF Query, DumperAt, ProtectNext
  <2> QED
    BY <2>1, <2>2, <2>3, <2>4
<1>17. ASSUME Protect PROVE Types'
  BY <1>17 DEF Protect, DumperAt, ProtectNext
<1>18. ASSUME Header PROVE Types'
  <2>1. MemoryTypes'
    BY <1>18 DEF Header, DumperAt
  <2>2. CallTypes'
    BY <1>18 DEF Header, DumperAt
  <2>3. DumperTypes'
    BY <1>18, PagesOf(listed) \subseteq Pages DEF Header, DumperAt, PagesOf
  <2>4. MonitorTypes'
    BY <1>18 DEF Header, DumperAt
  <2> QED
    BY <2>1, <2>2, <2>3, <2>4
<1>19. ASSUME Claim PROVE Types'
  <2>1. MemoryTypes'
    BY <1>19 DEF Claim, DumperAt, StreamNext
  <2>2. CallTypes'
    BY <1>19 DEF Claim, DumperAt, StreamNext
  <2>3. DumperTypes'
    <3>1. Min(todo) \in Pages
      BY <1>19, Least DEF LoopInv, Claim, DumperAt
    <3>2. PICK p \in Pages : p = Min(todo)
      BY <3>1
    <3>3. /\ claimed' \in {claimed, claimed \cup {p}} /\ todo' \in {todo, todo \ {p}}
          /\ dpc' \in {"claim", "copy", "finish"}
      BY <1>19, <3>2 DEF Claim, StreamNext
    <3> QED
      BY <1>19, <3>3 DEF Claim
  <2>4. MonitorTypes'
    BY <1>19 DEF Claim, DumperAt, StreamNext
  <2> QED
    BY <2>1, <2>2, <2>3, <2>4
<1>20. ASSUME Copy PROVE Types'
  <2>1. PICK p \in Pages : p = Min(todo)
    BY <1>20, Least DEF LoopInv, Copy, DumperAt
  <2>2. /\ \/ Works /\ core' = [core EXCEPT ![p] = mem[p]] /\ UNCHANGED spoiled
           \/ Fails /\ core' = [core EXCEPT ![p] = 0] /\ spoiled' = spoiled \cup {p}
        /\ Unprotect({p}) \/ UNCHANGED <<prot, sleepOn, unread>>
        /\ todo' = todo \ {p} /\ dpc' \in {"claim", "finish"}
    BY <1>20, <2>1 DEF Copy, StreamNext
  <2>3. /\ failures' \in {failures, failures + 1}
        /\ core' \in [Pages -> Nat \cup {Hole}]
    BY <2>2
  <2>4. MemoryTypes'
    <3>1. CASE Unprotect({p})
      BY <1>20, <2>3, <3>1 DEF Copy, Unprotect
    <3>2. CASE UNCHANGED <<prot, sleepOn, unread>>
      BY <1>20, <2>3, <3>2 DEF Copy
    <3> QED
      BY <2>2, <3>1, <3>2
  <2>5. CallTypes'
    BY <1>20 DEF Copy
  <2>6. DumperTypes'
    BY <1>20, <2>2, <2>3 DEF Copy
  <2>7. MonitorTypes'
    BY <1>20, <2>2 DEF Copy
  <2> QED
    BY <2>4, <2>5, <2>6, <2>7
<1>21. ASSUME CopyFails PROVE Types'
  BY <1>21 DEF CopyFails, DumperAt
<1>22. ASSUME Finish PROVE Types'
  <2>1. MemoryTypes'
    BY <1>22 DEF Finish, DumperAt, Unprotect
  <2>2. CallTypes'
    BY <1>22 DEF Finish, DumperAt, Unprotect
  <2>3. DumperTypes'
    BY <1>22 DEF Finish, DumperAt, Unprotect
  <2>4. MonitorTypes'
    BY <1>22 DEF LoopInv, Finish, DumperAt, Unprotect
  <2> QED
    BY <2>1, <2>2, <2>3, <2>4
<1>23. ASSUME Publish PROVE Types'
  BY <1>23 DEF Publish, DumperAt
<1>24. ASSUME SignalDone PROVE Types'
  BY <1>24 DEF SignalDone, DumperAt
<1>25. ASSUME MonitorLeaves PROVE Types'
  BY <1>25 DEF MonitorLeaves, MonitorAt
<1>26. ASSUME NEW t \in Threads, ReadFault(t) PROVE Types'
  BY <1>26 DEF ReadFault, MonitorAt
<1>27. ASSUME MonitorClaim PROVE Types'
  <2>1. MemoryTypes'
    BY <1>27 DEF MonitorClaim, MonitorAt
  <2>2. CallTypes'
    BY <1>27 DEF MonitorClaim, MonitorAt
  <2>3. DumperTypes'
    BY <1>27, Claims DEF LoopInv, MonitorClaim, MonitorAt
  <2>4. MonitorTypes'
    BY <1>27, Claims DEF LoopInv, MonitorClaim, MonitorAt
  <2> QED
    BY <2>1, <2>2, <2>3, <2>4
<1>28. ASSUME Preserve PROVE Types'
  <2>1. MemoryTypes'
    BY <1>28 DEF Preserve, MonitorAt
  <2>2. CallTypes'
    BY <1>28 DEF Preserve, MonitorAt
  <2>3. DumperTypes'
    BY <1>28 DEF LoopInv, Preserve, MonitorAt
  <2>4. MonitorTypes'
    BY <1>28 DEF LoopInv, Preserve, MonitorAt
  <2> QED
    BY <2>1, <2>2, <2>3, <2>4
<1>29. ASSUME Release PROVE Types'
  <2>1. MemoryTypes'
    BY <1>29 DEF Release, MonitorAt, Unprotect
  <2>2. CallTypes'
    BY <1>29 DEF Release, MonitorAt, Unprotect
  <2>3. DumperTypes'
    BY <1>29 DEF Release, MonitorAt, Unprotect
  <2>4. MonitorTypes'
    BY <1>29 DEF LoopInv, Release, MonitorAt, Unprotect
  <2> QED
    BY <2>1, <2>2, <2>3, <2>4
<1>30. CASE UNCHANGED vars
  BY <1>30 DEF vars
<1> QED
  BY <1>1, <1>2, <1>3, <1>4, <1>5, <1>6, <1>7, <1>8, <1>9, <1>10, <1>11, <1>12, <1>13,
     <1>14, <1>15, <1>16, <1>17, <1>18, <1>19, <1>20, <1>21, <1>22, <1>23, <1>24,
     <1>25, <1>26, <1>27, <1>28, <1>29, <1>30 DEF Next, CallerStep, DumperStep,
     MonitorStep, WriterStep

LEMMA LoopNext == Types /\ LoopInv /\ CallInv /\ [Next]_vars => LoopInv'
<1> SUFFICES ASSUME Types, LoopInv, CallInv, [Next]_vars PROVE LoopInv'
  OBVIOUS
<1> USE Layout, ThreadsAssumption DEF memory, faults, callers, shared, events, tables,
      loops, image, monitor, history, engine, Types, LoopInv, InDump
<1>1. ASSUME NEW w \in Writers, NEW p \in WriterPages, Write(w, p) PROVE LoopInv'
  BY <1>1 DEF DumperTypes, Write
<1>2. ASSUME NEW w \in Writers, NEW p \in WriterPages, Stall(w, p) PROVE LoopInv'
  BY <1>2 DEF DumperTypes, Stall
<1>3. ASSUME NEW t \in {Dumper, Monitor}, SelfFault(t) PROVE LoopInv'
  BY <1>3 DEF DumperTypes, SelfFault
<1>4. ASSUME Arm PROVE LoopInv'
  BY <1>4 DEF CallInv, Arm
<1>5. ASSUME NEW c \in Callers, Trigger(c) PROVE LoopInv'
  BY <1>5 DEF DumperTypes, Trigger
<1>6. ASSUME NEW c \in Callers, CheckDone(c) PROVE LoopInv'
  BY <1>6 DEF DumperTypes, CheckDone, Return
<1>7. ASSUME NEW c \in Callers, ReadDone(c) PROVE LoopInv'
  BY <1>7 DEF DumperTypes, ReadDone
<1>8. ASSUME AskShutdown PROVE LoopInv'
  BY <1>8 DEF DumperTypes, AskShutdown
<1>9. ASSUME Join PROVE LoopInv'
  BY <1>9 DEF DumperTypes, Join
<1>10. ASSUME DumperLeaves PROVE LoopInv'
  BY <1>10 DEF DumperTypes, DumperLeaves, DumperAt
<1>11. ASSUME Open PROVE LoopInv'
  BY <1>11 DEF DumperTypes, CallInv, CallTypes, Open, Kicked, DumperAt
<1>12. ASSUME OpenFails PROVE LoopInv'
  BY <1>12 DEF DumperTypes, OpenFails, Kicked, DumperAt
<1>13. ASSUME Parse PROVE LoopInv'
  BY <1>13 DEF DumperTypes, Parse, DumperAt
<1>14. ASSUME ParseFails PROVE LoopInv'
  BY <1>14 DEF DumperTypes, ParseFails, DumperAt
<1>15. ASSUME List PROVE LoopInv'
  BY <1>15 DEF DumperTypes, List, DumperAt, ProtectNext
<1>16. ASSUME Query PROVE LoopInv'
  <2>1. PICK i \in rest : i = Min(rest)
    BY <1>16, Least DEF DumperTypes, Query, DumperAt
  <2>2. /\ todo' \subseteq Regions[i].pages /\ rest' = rest \ {i}
        /\ dpc' = IF todo' # {} THEN "protect" ELSE IF rest' # {} THEN "query" ELSE "header"
    BY <1>16, <2>1 DEF Query, ProtectNext
  <2>3. Regions[i].pages \subseteq PagesOf(guarded) \ PagesOf(rest \ {i})
    BY <1>16, <2>1 DEF DumperTypes, Query, DumperAt, PagesOf
  <2> QED
    BY <1>16, <2>2, <2>3 DEF Query, DumperAt
<1>17. ASSUME Protect PROVE LoopInv'
  <2>1. /\ todo' \subseteq todo
        /\ dpc' = IF todo' # {} THEN "protect" ELSE IF rest' # {} THEN "query" ELSE "header"
    BY <1>17 DEF Protect, ProtectNext
  <2> QED
    BY <1>17, <2>1 DEF Protect, DumperAt
<1>18. ASSUME Header PROVE LoopInv'
  <2>1. PagesOf(listed) # {}
    BY <1>18 DEF DumperTypes, Header, DumperAt, PagesOf
  <2>2. CASE Works /\ todo' = PagesOf(listed) /\ dpc' = "claim" /\ UNCHANGED res
    BY <1>18, <2>1, <2>2 DEF Header, DumperAt
  <2>3. CASE Fails /\ res' = "WriteError" /\ dpc' = "finish" /\ UNCHANGED todo
    BY <1>18, <2>3 DEF Header, DumperAt
  <2> QED
    BY <1>18, <2>2, <2>3 DEF Header, PagesOf
<1>19. ASSUME Claim PROVE LoopInv'
  <2>1. \/ todo' \subseteq todo /\ dpc' = IF todo' = {} THEN "finish" ELSE "claim"
        \/ dpc' = "copy" /\ UNCHANGED todo
    BY <1>19 DEF Claim, StreamNext
  <2> QED
    BY <1>19, <2>1 DEF Claim, DumperAt
<1>20. ASSUME Copy PROVE LoopInv'
  <2>1. todo' \subseteq todo /\ dpc' = IF todo' = {} THEN "finish" ELSE "claim"
    BY <1>20 DEF Copy, StreamNext
  <2> QED
    BY <1>20, <2>1 DEF Copy, DumperAt
<1>21. ASSUME CopyFails PROVE LoopInv'
  BY <1>21 DEF DumperTypes, CopyFails, DumperAt
<1>22. ASSUME Finish PROVE LoopInv'
  BY <1>22 DEF DumperTypes, Finish, DumperAt
<1>23. ASSUME Publish PROVE LoopInv'
  BY <1>23 DEF DumperTypes, Publish, DumperAt
<1>24. ASSUME SignalDone PROVE LoopInv'
  BY <1>24 DEF DumperTypes, SignalDone, DumperAt
<1>25. ASSUME MonitorLeaves PROVE LoopInv'
  BY <1>25 DEF DumperTypes, MonitorLeaves, MonitorAt
<1>26. ASSUME NEW t \in Threads, ReadFault(t) PROVE LoopInv'
  BY <1>26 DEF MemoryTypes, ReadFault, MonitorAt
<1>27. ASSUME MonitorClaim PROVE LoopInv'
  BY <1>27 DEF DumperTypes, MonitorClaim, MonitorAt
<1>28. ASSUME Preserve PROVE LoopInv'
  BY <1>28 DEF DumperTypes, Preserve, MonitorAt
<1>29. ASSUME Release PROVE LoopInv'
  BY <1>29 DEF DumperTypes, Release, MonitorAt
<1>30. CASE UNCHANGED vars
  BY <1>30 DEF vars
<1> QED
  BY <1>1, <1>2, <1>3, <1>4, <1>5, <1>6, <1>7, <1>8, <1>9, <1>10, <1>11, <1>12, <1>13,
     <1>14, <1>15, <1>16, <1>17, <1>18, <1>19, <1>20, <1>21, <1>22, <1>23, <1>24,
     <1>25, <1>26, <1>27, <1>28, <1>29, <1>30 DEF Next, CallerStep, DumperStep,
     MonitorStep, WriterStep

LEMMA CallNext == Types /\ LoopInv /\ CallInv /\ [Next]_vars => CallInv'
<1> SUFFICES ASSUME Types, LoopInv, CallInv, [Next]_vars PROVE CallInv'
  OBVIOUS
<1> USE ThreadsAssumption DEF memory, faults, callers, shared, events, tables,
      loops, image, monitor, history, engine, Types, CallTypes, CallInv, InDump
<1>1. ASSUME NEW w \in Writers, NEW p \in WriterPages, Write(w, p) PROVE CallInv'
  BY <1>1 DEF Write
<1>2. ASSUME NEW w \in Writers, NEW p \in WriterPages, Stall(w, p) PROVE CallInv'
  BY <1>2 DEF Stall
<1>3. ASSUME NEW t \in {Dumper, Monitor}, SelfFault(t) PROVE CallInv'
  BY <1>3 DEF SelfFault
<1>4. ASSUME Arm PROVE CallInv'
  BY <1>4 DEF Arm
<1>5. ASSUME NEW c \in Callers, Trigger(c) PROVE CallInv'
  BY <1>5 DEF Trigger
<1>6. ASSUME NEW c \in Callers, CheckDone(c) PROVE CallInv'
  BY <1>6 DEF CheckDone, Return
<1>7. ASSUME NEW c \in Callers, ReadDone(c) PROVE CallInv'
  BY <1>7 DEF ReadDone
<1>8. ASSUME AskShutdown PROVE CallInv'
  BY <1>8 DEF AskShutdown
<1>9. ASSUME Join PROVE CallInv'
  BY <1>9 DEF Join
<1>10. ASSUME DumperLeaves PROVE CallInv'
  BY <1>10 DEF DumperLeaves, DumperAt
<1>11. ASSUME Open PROVE CallInv'
  BY <1>11 DEF Open, Kicked, DumperAt
<1>12. ASSUME OpenFails PROVE CallInv'
  BY <1>12 DEF OpenFails, Kicked, DumperAt
<1>13. ASSUME Parse PROVE CallInv'
  BY <1>13 DEF Parse, DumperAt
<1>14. ASSUME ParseFails PROVE CallInv'
  BY <1>14 DEF ParseFails, DumperAt
<1>15. ASSUME List PROVE CallInv'
  BY <1>15 DEF List, DumperAt, ProtectNext
<1>16. ASSUME Query PROVE CallInv'
  BY <1>16 DEF Query, DumperAt, ProtectNext
<1>17. ASSUME Protect PROVE CallInv'
  BY <1>17 DEF Protect, DumperAt, ProtectNext
<1>18. ASSUME Header PROVE CallInv'
  BY <1>18 DEF Header, DumperAt
<1>19. ASSUME Claim PROVE CallInv'
  BY <1>19 DEF Claim, DumperAt, StreamNext
<1>20. ASSUME Copy PROVE CallInv'
  BY <1>20 DEF Copy, DumperAt, StreamNext
<1>21. ASSUME CopyFails PROVE CallInv'
  BY <1>21 DEF CopyFails, DumperAt
<1>22. ASSUME Finish PROVE CallInv'
  BY <1>22 DEF Finish, DumperAt
<1>23. ASSUME Publish PROVE CallInv'
  BY <1>23 DEF Publish, DumperAt
<1>24. ASSUME SignalDone PROVE CallInv'
  BY <1>24 DEF SignalDone, DumperAt
<1>25. ASSUME MonitorLeaves PROVE CallInv'
  BY <1>25 DEF MonitorLeaves, MonitorAt
<1>26. ASSUME NEW t \in Threads, ReadFault(t) PROVE CallInv'
  BY <1>26 DEF ReadFault, MonitorAt
<1>27. ASSUME MonitorClaim PROVE CallInv'
  BY <1>27 DEF MonitorClaim, MonitorAt
<1>28. ASSUME Preserve PROVE CallInv'
  BY <1>28 DEF Preserve, MonitorAt
<1>29. ASSUME Release PROVE CallInv'
  BY <1>29 DEF Release, MonitorAt
<1>30. CASE UNCHANGED vars
  BY <1>30 DEF vars
<1> QED
  BY <1>1, <1>2, <1>3, <1>4, <1>5, <1>6, <1>7, <1>8, <1>9, <1>10, <1>11, <1>12, <1>13,
     <1>14, <1>15, <1>16, <1>17, <1>18, <1>19, <1>20, <1>21, <1>22, <1>23, <1>24,
     <1>25, <1>26, <1>27, <1>28, <1>29, <1>30 DEF Next, CallerStep, DumperStep,
     MonitorStep, WriterStep

LEMMA ProtNext == Types /\ LoopInv /\ CallInv /\ ProtInv /\ [Next]_vars => ProtInv'
<1> SUFFICES ASSUME Types, LoopInv, CallInv, ProtInv, [Next]_vars PROVE ProtInv'
  OBVIOUS
<1> USE Layout, ThreadsAssumption DEF memory, faults, callers, shared, events, tables,
      loops, image, monitor, history, engine, Types, MemoryTypes, ProtInv
<1>1. ASSUME NEW w \in Writers, NEW p \in WriterPages, Write(w, p) PROVE ProtInv'
  BY <1>1 DEF Write
<1>2. ASSUME NEW w \in Writers, NEW p \in WriterPages, Stall(w, p) PROVE ProtInv'
  BY <1>2 DEF Stall, FallAsleep, Threads
<1>3. ASSUME NEW t \in {Dumper, Monitor}, SelfFault(t) PROVE ProtInv'
  BY <1>3 DEF SelfFault, FallAsleep, Threads
<1>4. ASSUME Arm PROVE ProtInv'
  BY <1>4 DEF Arm, CallInv
<1>5. ASSUME NEW c \in Callers, Trigger(c) PROVE ProtInv'
  BY <1>5 DEF Trigger
<1>6. ASSUME NEW c \in Callers, CheckDone(c) PROVE ProtInv'
  BY <1>6 DEF CheckDone, Return
<1>7. ASSUME NEW c \in Callers, ReadDone(c) PROVE ProtInv'
  BY <1>7 DEF ReadDone
<1>8. ASSUME AskShutdown PROVE ProtInv'
  BY <1>8 DEF AskShutdown
<1>9. ASSUME Join PROVE ProtInv'
  BY <1>9 DEF Join, Unprotect
<1>10. ASSUME DumperLeaves PROVE ProtInv'
  BY <1>10 DEF DumperLeaves, DumperAt
<1>11. ASSUME Open PROVE ProtInv'
  BY <1>11 DEF Open, Kicked, DumperAt
<1>12. ASSUME OpenFails PROVE ProtInv'
  BY <1>12 DEF OpenFails, Kicked, DumperAt
<1>13. ASSUME Parse PROVE ProtInv'
  BY <1>13 DEF Parse, DumperAt
<1>14. ASSUME ParseFails PROVE ProtInv'
  BY <1>14 DEF ParseFails, DumperAt
<1>15. ASSUME List PROVE ProtInv'
  BY <1>15 DEF List, DumperAt, ProtectNext, PagesOf
<1>16. ASSUME Query PROVE ProtInv'
  BY <1>16 DEF Query, DumperAt, ProtectNext
<1>17. ASSUME Protect PROVE ProtInv'
  BY <1>17, Least DEF Protect, DumperAt, LoopInv, DumperTypes, ProtectNext
<1>18. ASSUME Header PROVE ProtInv'
  BY <1>18 DEF Header, DumperAt, LoopInv
<1>19. ASSUME Claim PROVE ProtInv'
  BY <1>19 DEF Claim, DumperAt, StreamNext
<1>20. ASSUME Copy PROVE ProtInv'
  <2>1. CASE Unprotect({Min(todo)})
    BY <1>20, <2>1 DEF Copy, DumperAt, Unprotect, StreamNext
  <2>2. CASE UNCHANGED <<prot, sleepOn, unread>>
    BY <1>20, <2>2 DEF Copy, DumperAt, StreamNext
  <2> QED
    BY <1>20, <2>1, <2>2 DEF Copy
<1>21. ASSUME CopyFails PROVE ProtInv'
  BY <1>21 DEF CopyFails, DumperAt
<1>22. ASSUME Finish PROVE ProtInv'
  BY <1>22 DEF Finish, DumperAt, Unprotect, PagesOf
<1>23. ASSUME Publish PROVE ProtInv'
  BY <1>23 DEF Publish, DumperAt
<1>24. ASSUME SignalDone PROVE ProtInv'
  BY <1>24 DEF SignalDone, DumperAt
<1>25. ASSUME MonitorLeaves PROVE ProtInv'
  BY <1>25 DEF MonitorLeaves, MonitorAt
<1>26. ASSUME NEW t \in Threads, ReadFault(t) PROVE ProtInv'
  BY <1>26 DEF ReadFault, MonitorAt
<1>27. ASSUME MonitorClaim PROVE ProtInv'
  BY <1>27 DEF MonitorClaim, MonitorAt
<1>28. ASSUME Preserve PROVE ProtInv'
  BY <1>28 DEF Preserve, MonitorAt
<1>29. ASSUME Release PROVE ProtInv'
  BY <1>29 DEF Release, MonitorAt, Unprotect
<1>30. CASE UNCHANGED vars
  BY <1>30 DEF vars
<1> QED
  BY <1>1, <1>2, <1>3, <1>4, <1>5, <1>6, <1>7, <1>8, <1>9, <1>10, <1>11, <1>12, <1>13,
     <1>14, <1>15, <1>16, <1>17, <1>18, <1>19, <1>20, <1>21, <1>22, <1>23, <1>24,
     <1>25, <1>26, <1>27, <1>28, <1>29, <1>30 DEF Next, CallerStep, DumperStep,
     MonitorStep, WriterStep


LEMMA FrozenNext == Types /\ LoopInv /\ CallInv /\ ProtInv /\ FrozenInv /\ [Next]_vars => FrozenInv'
<1> SUFFICES ASSUME Types, LoopInv, CallInv, ProtInv, FrozenInv, [Next]_vars PROVE FrozenInv'
  OBVIOUS
<1> USE Layout, ThreadsAssumption DEF memory, faults, callers, shared, events, tables,
      loops, image, monitor, history, engine, Types, DumperTypes, MonitorTypes, FrozenInv, Handles, Hole
<1>1. ASSUME NEW w \in Writers, NEW p \in WriterPages, Write(w, p) PROVE FrozenInv'
  BY <1>1 DEF Write
<1>2. ASSUME NEW w \in Writers, NEW p \in WriterPages, Stall(w, p) PROVE FrozenInv'
  BY <1>2 DEF Stall, FallAsleep, Threads
<1>3. ASSUME NEW t \in {Dumper, Monitor}, SelfFault(t) PROVE FrozenInv'
  BY <1>3 DEF SelfFault, FallAsleep, Threads
<1>4. ASSUME Arm PROVE FrozenInv'
  BY <1>4 DEF Arm, CallInv, LoopInv, InDump
<1>5. ASSUME NEW c \in Callers, Trigger(c) PROVE FrozenInv'
  BY <1>5 DEF Trigger
<1>6. ASSUME NEW c \in Callers, CheckDone(c) PROVE FrozenInv'
  BY <1>6 DEF CheckDone, Return
<1>7. ASSUME NEW c \in Callers, ReadDone(c) PROVE FrozenInv'
  BY <1>7 DEF ReadDone
<1>8. ASSUME AskShutdown PROVE FrozenInv'
  BY <1>8 DEF AskShutdown
<1>9. ASSUME Join PROVE FrozenInv'
  BY <1>9 DEF Join, Unprotect, LoopInv, InDump
<1>10. ASSUME DumperLeaves PROVE FrozenInv'
  BY <1>10 DEF DumperLeaves, DumperAt
<1>11. ASSUME Open PROVE FrozenInv'
  BY <1>11 DEF Open, Kicked, DumperAt, ProtInv
<1>12. ASSUME OpenFails PROVE FrozenInv'
  BY <1>12 DEF OpenFails, Kicked, DumperAt, ProtInv, LoopInv, InDump
<1>13. ASSUME Parse PROVE FrozenInv'
  BY <1>13 DEF Parse, DumperAt, LoopInv, InDump, ProtInv
<1>14. ASSUME ParseFails PROVE FrozenInv'
  BY <1>14 DEF ParseFails, DumperAt, LoopInv
<1>15. ASSUME List PROVE FrozenInv'
  <2>1. prot = {} /\ todo = {} /\ todo' = {} /\ dpc = "list"
    BY <1>15 DEF List, DumperAt, LoopInv, ProtInv
  <2>2. rest' \subseteq DOMAIN Regions /\ PagesOf(rest') \subseteq Pages
    BY <1>15 DEF List, Listed
  <2>3. dpc' \in {"publish", "query", "header"}
    BY <1>15, <2>1 DEF List, ProtectNext
  <2> QED
    BY <1>15, <2>1, <2>2, <2>3 DEF List
<1>16. ASSUME Query PROVE FrozenInv'
  BY <1>16, Least DEF Query, DumperAt, LoopInv, InDump, ProtectNext, PagesOf
<1>17. ASSUME Protect PROVE FrozenInv'
  BY <1>17, Least DEF Protect, DumperAt, LoopInv, ProtectNext, MemoryTypes
<1>18. ASSUME Header PROVE FrozenInv'
  BY <1>18 DEF Header, DumperAt, LoopInv, InDump
<1>19. ASSUME Claim PROVE FrozenInv'
  BY <1>19 DEF Claim, DumperAt, StreamNext
<1>20. ASSUME Copy PROVE FrozenInv'
  BY <1>20 DEF Copy, DumperAt, Unprotect, StreamNext, LoopInv, InDump
<1>21. ASSUME CopyFails PROVE FrozenInv'
  BY <1>21 DEF CopyFails, DumperAt
<1>22. ASSUME Finish PROVE FrozenInv'
  BY <1>22 DEF Finish, DumperAt, Unprotect, PagesOf
<1>23. ASSUME Publish PROVE FrozenInv'
  BY <1>23 DEF Publish, DumperAt
<1>24. ASSUME SignalDone PROVE FrozenInv'
  BY <1>24 DEF SignalDone, DumperAt
<1>25. ASSUME MonitorLeaves PROVE FrozenInv'
  BY <1>25 DEF MonitorLeaves, MonitorAt
<1>26. ASSUME NEW t \in Threads, ReadFault(t) PROVE FrozenInv'
  <2>1. sleepOn[t] \in prot /\ sleepOn[t] \in Pages
    BY <1>26 DEF ReadFault, MemoryTypes, ProtInv
  <2>2. dpc \notin {"parse", "list"}
    BY <2>1 DEF ProtInv
  <2> QED
    BY <1>26, <2>1, <2>2 DEF ReadFault
<1>27. ASSUME MonitorClaim PROVE FrozenInv'
  BY <1>27, Claims DEF MonitorClaim, MonitorAt
<1>28. ASSUME Preserve PROVE FrozenInv'
  BY <1>28 DEF Preserve, MonitorAt
<1>29. ASSUME Release PROVE FrozenInv'
  BY <1>29 DEF Release, MonitorAt, Unprotect
<1>30. CASE UNCHANGED vars
  BY <1>30 DEF vars
<1> QED
  BY <1>1, <1>2, <1>3, <1>4, <1>5, <1>6, <1>7, <1>8, <1>9, <1>10, <1>11, <1>12, <1>13,
     <1>14, <1>15, <1>16, <1>17, <1>18, <1>19, <1>20, <1>21, <1>22, <1>23, <1>24,
     <1>25, <1>26, <1>27, <1>28, <1>29, <1>30 DEF Next, CallerStep, DumperStep,
     MonitorStep, WriterStep

\* The step from page to page: a page that is not spoiled is claimed once and
\* stays as it was frozen until it is in the core.
LEMMA PageNext ==
  ASSUME Types, LoopInv, CallInv, ProtInv, FrozenInv, ImageInv, [Next]_vars,
         file' # Nobody, res' = "Ok", NEW q \in Pages \ spoiled'
  PROVE  PageInv(q)'
<1> USE Layout DEF memory, faults, callers, shared, events, tables,
      loops, image, monitor, history, engine, Types, DumperTypes, Handles, InDump
<1>0. file # Nobody /\ res = "Ok" /\ q \notin spoiled => PageInv(q)
  BY DEF ImageInv
<1>1. ASSUME NEW w \in Writers, NEW p \in WriterPages, Write(w, p) PROVE PageInv(q)'
  BY <1>0, <1>1 DEF PageInv, Write, MemoryTypes
<1>2. ASSUME NEW w \in Writers, NEW p \in WriterPages, Stall(w, p) PROVE PageInv(q)'
  BY <1>0, <1>2 DEF PageInv, Stall
<1>3. ASSUME NEW t \in {Dumper, Monitor}, SelfFault(t) PROVE PageInv(q)'
  BY <1>0, <1>3 DEF PageInv, SelfFault
<1>4. ASSUME Arm PROVE PageInv(q)'
  BY <1>0, <1>4 DEF PageInv, Arm, LoopInv, CallInv
<1>5. ASSUME NEW c \in Callers, Trigger(c) PROVE PageInv(q)'
  BY <1>0, <1>5 DEF PageInv, Trigger
<1>6. ASSUME NEW c \in Callers, CheckDone(c) PROVE PageInv(q)'
  BY <1>0, <1>6 DEF PageInv, CheckDone, Return
<1>7. ASSUME NEW c \in Callers, ReadDone(c) PROVE PageInv(q)'
  BY <1>0, <1>7 DEF PageInv, ReadDone
<1>8. ASSUME AskShutdown PROVE PageInv(q)'
  BY <1>0, <1>8 DEF PageInv, AskShutdown
<1>9. ASSUME Join PROVE PageInv(q)'
  BY <1>0, <1>9 DEF PageInv, Join, LoopInv
<1>10. ASSUME DumperLeaves PROVE PageInv(q)'
  BY <1>0, <1>10 DEF PageInv, DumperLeaves, DumperAt
<1>11. ASSUME Open PROVE PageInv(q)'
  BY <1>0, <1>11 DEF PageInv, Open, Kicked, DumperAt, FrozenInv, MonitorTypes
<1>12. ASSUME OpenFails PROVE PageInv(q)'
  BY <1>0, <1>12 DEF PageInv, OpenFails, Kicked, DumperAt, LoopInv
<1>13. ASSUME Parse PROVE PageInv(q)'
  BY <1>0, <1>13 DEF PageInv, Parse, DumperAt, FrozenInv
<1>14. ASSUME ParseFails PROVE PageInv(q)'
  BY <1>0, <1>14 DEF PageInv, ParseFails, DumperAt
<1>15. ASSUME List PROVE PageInv(q)'
  BY <1>0, <1>15 DEF PageInv, List, DumperAt, ProtectNext, FrozenInv
<1>16. ASSUME Query PROVE PageInv(q)'
  BY <1>0, <1>16 DEF PageInv, Query, DumperAt, ProtectNext
<1>17. ASSUME Protect PROVE PageInv(q)'
  BY <1>0, <1>17, Least DEF PageInv, Protect, DumperAt, ProtectNext, FrozenInv,
     LoopInv, MemoryTypes
<1>18. ASSUME Header PROVE PageInv(q)'
  BY <1>0, <1>18 DEF PageInv, Header, DumperAt, PagesOf
<1>19. ASSUME Claim PROVE PageInv(q)'
  BY <1>0, <1>19, Least DEF PageInv, Claim, DumperAt, StreamNext, LoopInv
<1>20. ASSUME Copy PROVE PageInv(q)'
  BY <1>0, <1>20, Least DEF PageInv, Copy, DumperAt, StreamNext, LoopInv, MemoryTypes,
     Unprotect, Hole
<1>21. ASSUME CopyFails PROVE PageInv(q)'
  BY <1>0, <1>21 DEF PageInv, CopyFails, DumperAt
<1>22. ASSUME Finish PROVE PageInv(q)'
  BY <1>0, <1>22 DEF PageInv, Finish, DumperAt
<1>23. ASSUME Publish PROVE PageInv(q)'
  BY <1>0, <1>23 DEF PageInv, Publish, DumperAt
<1>24. ASSUME SignalDone PROVE PageInv(q)'
  BY <1>0, <1>24 DEF PageInv, SignalDone, DumperAt
<1>25. ASSUME MonitorLeaves PROVE PageInv(q)'
  BY <1>0, <1>25 DEF PageInv, MonitorLeaves, MonitorAt
<1>26. ASSUME NEW t \in Threads, ReadFault(t) PROVE PageInv(q)'
  BY <1>0, <1>26 DEF PageInv, ReadFault, MonitorAt
<1>27. ASSUME MonitorClaim PROVE PageInv(q)'
  <2>1. /\ mpc = "claim" /\ file # Nobody /\ res = "Ok"
        /\ UNCHANGED <<mem, prot, dpc, file, core, listed, todo, mpage, mdump, dumps, frozen>>
    BY <1>27 DEF MonitorClaim, MonitorAt
  <2>2. q \notin spoiled
    BY <1>27, Claims
  <2>3. PageInv(q)
    BY <1>0, <2>1, <2>2
  <2>4. CASE mpc' = "preserve"
    <3>1. mpage \notin claimed /\ claimed' = claimed \cup {mpage}
      BY <1>27, <2>4, Claims
    <3>2. q = mpage => mdump = dumps /\ frozen[q] # Hole
      BY <1>27, <2>1, <2>4, Claims DEF Late, FrozenInv
    <3> QED
      BY <2>1, <2>3, <2>4, <3>1, <3>2 DEF PageInv
  <2>5. CASE mpc' = "release"
    <3>1. claimed' = claimed
      BY <1>27, <2>5, Claims
    <3>2. Handles("claim") => mpage \in PagesOf(listed) /\ dpc # "list" /\ dumping
      <4>1. dumping
        BY <2>1 DEF LoopInv, CallInv
      <4>2. Handles("claim") => mpage \in PagesOf(guarded) /\ dpc # "list"
        BY <2>1 DEF FrozenInv, LoopInv
      <4>3. PagesOf(guarded) \subseteq PagesOf(listed)
        BY DEF LoopInv, PagesOf
      <4> QED
        BY <4>1, <4>2, <4>3
    <3>3. Handles("claim") => mpage \in claimed
      BY <1>27, <2>5, <3>2, Claims
    <3> QED
      BY <2>1, <2>3, <2>5, <3>1, <3>3 DEF PageInv
  <2> QED
    BY <1>27, <2>4, <2>5, Claims
<1>28. ASSUME Preserve PROVE PageInv(q)'
  <2>1. /\ mpc = "preserve" /\ mpc' = "release" /\ file # Nobody /\ res = "Ok" /\ mpage \in Pages
        /\ UNCHANGED <<mem, prot, dpc, file, listed, claimed, todo, mpage, mdump, dumps, frozen>>
    BY <1>28 DEF Preserve, MonitorAt, LoopInv
  <2>2. CASE ~Late /\ core' = [core EXCEPT ![mpage] = mem[mpage]] /\ UNCHANGED spoiled
    <3>1. PageInv(q)
      BY <1>0, <2>1, <2>2
    <3> QED
      BY <2>1, <2>2, <3>1 DEF PageInv, Late, MemoryTypes, Hole
  <2>3. CASE ~Late /\ spoiled' = spoiled \cup {mpage} /\ UNCHANGED core
    <3>1. PageInv(q)
      BY <1>0, <2>1, <2>3
    <3> QED
      BY <2>1, <2>3, <3>1 DEF PageInv, Late
  <2>4. ASSUME Late, NEW p \in Pages, core' = [core EXCEPT ![p] = mem[mpage]],
               spoiled' = spoiled \cup {mpage, p}
        PROVE  PageInv(q)'
    <3>1. PageInv(q)
      BY <1>0, <2>1, <2>4
    <3> QED
      BY <2>1, <2>4, <3>1 DEF PageInv, Late
  <2> QED
    BY <1>28, <2>1, <2>2, <2>3, <2>4 DEF Preserve
<1>29. ASSUME Release PROVE PageInv(q)'
  BY <1>0, <1>29 DEF PageInv, Release, MonitorAt, Unprotect, Late
<1>30. CASE UNCHANGED vars
  BY <1>0, <1>30 DEF PageInv, vars
<1> QED
  BY <1>1, <1>2, <1>3, <1>4, <1>5, <1>6, <1>7, <1>8, <1>9, <1>10, <1>11, <1>12, <1>13,
     <1>14, <1>15, <1>16, <1>17, <1>18, <1>19, <1>20, <1>21, <1>22, <1>23, <1>24,
     <1>25, <1>26, <1>27, <1>28, <1>29, <1>30 DEF Next, CallerStep, DumperStep,
     MonitorStep, WriterStep

\* Once the core is closed it stays as it is, and so does the claim about it.
LEMMA ClosedNext ==
  ASSUME Types, LoopInv, CallInv, ProtInv, FrozenInv, ImageInv, [Next]_vars
  PROVE  ImageIsFrozen'
<1> USE Layout DEF memory, faults, callers, shared, events, tables, loops, image,
      monitor, history, engine, Types, DumperTypes, ImageIsFrozen, InDump
<1>0. ImageIsFrozen
  BY DEF ImageInv
<1>1. ASSUME NEW w \in Writers, NEW p \in WriterPages, Write(w, p) PROVE ImageIsFrozen'
  BY <1>0, <1>1 DEF Write
<1>2. ASSUME NEW w \in Writers, NEW p \in WriterPages, Stall(w, p) PROVE ImageIsFrozen'
  BY <1>0, <1>2 DEF Stall
<1>3. ASSUME NEW t \in {Dumper, Monitor}, SelfFault(t) PROVE ImageIsFrozen'
  BY <1>0, <1>3 DEF SelfFault
<1>4. ASSUME Arm PROVE ImageIsFrozen'
  BY <1>0, <1>4 DEF Arm
<1>5. ASSUME NEW c \in Callers, Trigger(c) PROVE ImageIsFrozen'
  BY <1>0, <1>5 DEF Trigger
<1>6. ASSUME NEW c \in Callers, CheckDone(c) PROVE ImageIsFrozen'
  BY <1>0, <1>6 DEF CheckDone, Return
<1>7. ASSUME NEW c \in Callers, ReadDone(c) PROVE ImageIsFrozen'
  BY <1>0, <1>7 DEF ReadDone
<1>8. ASSUME AskShutdown PROVE ImageIsFrozen'
  BY <1>0, <1>8 DEF AskShutdown
<1>9. ASSUME Join PROVE ImageIsFrozen'
  BY <1>0, <1>9 DEF Join
<1>10. ASSUME DumperLeaves PROVE ImageIsFrozen'
  BY <1>0, <1>10 DEF DumperLeaves, DumperAt
<1>11. ASSUME Open PROVE ImageIsFrozen'
  BY <1>0, <1>11, ThreadsAssumption DEF Open, Kicked, DumperAt, LoopInv, CallInv,
     CallTypes
<1>12. ASSUME OpenFails PROVE ImageIsFrozen'
  BY <1>0, <1>12 DEF OpenFails, Kicked, DumperAt
<1>13. ASSUME Parse PROVE ImageIsFrozen'
  BY <1>0, <1>13 DEF Parse, DumperAt, LoopInv
<1>14. ASSUME ParseFails PROVE ImageIsFrozen'
  BY <1>0, <1>14 DEF ParseFails, DumperAt
<1>15. ASSUME List PROVE ImageIsFrozen'
  BY <1>0, <1>15 DEF List, DumperAt, ProtectNext, LoopInv
<1>16. ASSUME Query PROVE ImageIsFrozen'
  BY <1>0, <1>16 DEF Query, DumperAt, LoopInv
<1>17. ASSUME Protect PROVE ImageIsFrozen'
  BY <1>0, <1>17 DEF Protect, DumperAt, LoopInv
<1>18. ASSUME Header PROVE ImageIsFrozen'
  BY <1>0, <1>18 DEF Header, DumperAt, LoopInv
<1>19. ASSUME Claim PROVE ImageIsFrozen'
  BY <1>0, <1>19 DEF Claim, DumperAt, LoopInv
<1>20. ASSUME Copy PROVE ImageIsFrozen'
  BY <1>0, <1>20 DEF Copy, DumperAt, LoopInv
<1>21. ASSUME CopyFails PROVE ImageIsFrozen'
  BY <1>0, <1>21 DEF CopyFails, DumperAt, LoopInv
<1>22. ASSUME Finish PROVE ImageIsFrozen'
  <2>1. SUFFICES ASSUME res = "Ok", NEW i \in listed, NEW q \in Regions[i].pages \ spoiled'
                 PROVE  core[q] # Hole /\ (frozen[q] # Hole => core[q] = frozen[q])
    BY <1>22 DEF Finish
  <2>2. /\ dpc = "finish" /\ q \notin spoiled /\ q \in PagesOf(listed) \cap Pages
        /\ ~(mpc = "preserve" /\ mpage = q)
    BY <1>22, <2>1 DEF Finish, DumperAt, PagesOf
  <2>3. PageInv(q) /\ q \notin todo
    BY <2>1, <2>2 DEF ImageInv, LoopInv
  <2> QED
    BY <2>2, <2>3 DEF PageInv, Handles
<1>23. ASSUME Publish PROVE ImageIsFrozen'
  BY <1>0, <1>23 DEF Publish, DumperAt
<1>24. ASSUME SignalDone PROVE ImageIsFrozen'
  BY <1>0, <1>24 DEF SignalDone, DumperAt
<1>25. ASSUME MonitorLeaves PROVE ImageIsFrozen'
  BY <1>0, <1>25 DEF MonitorLeaves, MonitorAt
<1>26. ASSUME NEW t \in Threads, ReadFault(t) PROVE ImageIsFrozen'
  BY <1>0, <1>26 DEF ReadFault, MonitorAt
<1>27. ASSUME MonitorClaim PROVE ImageIsFrozen'
  BY <1>0, <1>27, Claims DEF MonitorClaim, MonitorAt
<1>28. ASSUME Preserve PROVE ImageIsFrozen'
  BY <1>0, <1>28 DEF Preserve, MonitorAt
<1>29. ASSUME Release PROVE ImageIsFrozen'
  BY <1>0, <1>29 DEF Release, MonitorAt
<1>30. CASE UNCHANGED vars
  BY <1>0, <1>30 DEF vars
<1> QED
  BY <1>1, <1>2, <1>3, <1>4, <1>5, <1>6, <1>7, <1>8, <1>9, <1>10, <1>11, <1>12, <1>13,
     <1>14, <1>15, <1>16, <1>17, <1>18, <1>19, <1>20, <1>21, <1>22, <1>23, <1>24,
     <1>25, <1>26, <1>27, <1>28, <1>29, <1>30 DEF Next, CallerStep, DumperStep,
     MonitorStep, WriterStep

-----------------------------------------------------------------------------
\* The invariant and what follows from it.

DumpInv == Types /\ LoopInv /\ CallInv /\ ProtInv /\ FrozenInv /\ ImageInv

LEMMA DumpInvInit == Init => DumpInv
<1> SUFFICES ASSUME Init PROVE DumpInv
  OBVIOUS
<1>1. Types
  BY TypesInit
<1>2. LoopInv
  BY DEF Init, LoopInv, InDump
<1>3. CallInv
  BY DEF Init, CallInv, InDump
<1>4. ProtInv
  BY DEF Init, ProtInv
<1>5. FrozenInv
  BY DEF Init, FrozenInv, Handles
<1>6. ImageInv
  BY DEF Init, ImageInv, ImageIsFrozen
<1> QED
  BY <1>1, <1>2, <1>3, <1>4, <1>5, <1>6 DEF DumpInv

LEMMA DumpInvNext == DumpInv /\ [Next]_vars => DumpInv'
<1> SUFFICES ASSUME DumpInv, [Next]_vars PROVE DumpInv'
  OBVIOUS
<1>1. Types /\ LoopInv /\ CallInv /\ ProtInv /\ FrozenInv /\ ImageInv
  BY DEF DumpInv
<1>2. Types' /\ LoopInv' /\ CallInv'
  BY <1>1, TypesNext, LoopNext, CallNext
<1>3. ProtInv' /\ FrozenInv'
  BY <1>1, ProtNext, FrozenNext
<1>4. ImageInv'
  BY <1>1, PageNext, ClosedNext DEF ImageInv
<1> QED
  BY <1>2, <1>3, <1>4 DEF DumpInv

THEOREM DumpInvariant == Spec => []DumpInv
  BY DumpInvInit, DumpInvNext, PTL DEF Spec

\* Every variable of the engine stays in its type: the dumper never takes a page
\* from a loop that has none left, the monitor never works without a page.
THEOREM DumpTyping == Spec => []TypeOK
<1>1. DumpInv => TypeOK
  BY TypeParts DEF DumpInv
<1> QED
  BY <1>1, DumpInvariant, PTL

\* Whatever is left in done_evt and whoever calls next, Trigger returns the result
\* of the dump into the file of its caller, until Shutdown has closed the event.
THEOREM AnswersAreOwn == Spec => []AnswerIsOwn
<1>1. DumpInv => AnswerIsOwn
  BY DEF DumpInv, CallInv, AnswerIsOwn
<1> QED
  BY <1>1, DumpInvariant, PTL

\* A core reported Ok has every page of every region, and protected pages as they
\* were when they were protected, the spoiled ones excepted: for any layout, any
\* number of writers and dumps, and whatever system calls fail.
THEOREM CoreIsImage == Spec => []ImageIsFrozen
<1>1. DumpInv => ImageIsFrozen
  BY DEF DumpInv, ImageInv
<1> QED
  BY <1>1, DumpInvariant, PTL

-----------------------------------------------------------------------------
\* The engine's own memory.

\* The threads of the engine sleep on pages of their own only, on the arena only
\* where the dumper allocates, and the monitor is there until Shutdown.
SleepInv ==
  /\ sleepOn[Dumper] \in {NoPage, StackOf[Dumper], ArenaPage}
  /\ sleepOn[Dumper] = ArenaPage => dpc \in {"parse", "header"} \/ ArenaPage = StackOf[Dumper]
  /\ sleepOn[Monitor] \in {NoPage, StackOf[Monitor]}
  /\ mpc = "gone" => shutdownEvt

\* Pages are protected in the order of their addresses; by the time the stack of
\* the monitor is protected, that of the dumper below it has been released.
StackInv ==
  /\ dpc \in {"query", "protect"} => \A p \in todo, q \in PagesOf(rest) : p < q
  /\ StackOf[Dumper] < StackOf[Monitor] /\ StackOf[Monitor] \in prot =>
       /\ StackOf[Dumper] \notin prot
       /\ dpc \in {"query", "protect"} => StackOf[Dumper] \notin todo \cup PagesOf(rest)

LEMMA SleepNext == Types /\ CallInv /\ SleepInv /\ [Next]_vars => SleepInv'
<1> SUFFICES ASSUME Types, CallInv, SleepInv, [Next]_vars PROVE SleepInv'
  OBVIOUS
<1>0. /\ sleepOn \in [Threads -> Pages \cup {NoPage}]
      /\ Dumper \in Threads /\ Monitor \in Threads /\ Dumper # Monitor
      /\ \A w \in Writers : w # Dumper /\ w # Monitor
      /\ ArenaPage # NoPage
  BY ThreadsAssumption DEF Types, MemoryTypes, Threads
<1> DEFINE Awake == sleepOn[Dumper] = NoPage \/ UNCHANGED dpc
<1>k. ASSUME UNCHANGED sleepOn, mpc' = "gone" => mpc = "gone" \/ shutdownEvt',
             shutdownEvt => shutdownEvt', Awake
      PROVE  SleepInv'
  BY <1>0, <1>k DEF SleepInv
<1>u. ASSUME NEW S, Unprotect(S), mpc' = "gone" => mpc = "gone", shutdownEvt' = shutdownEvt, Awake
      PROVE  SleepInv'
  <2>1. \A t \in Threads : sleepOn'[t] \in {NoPage, sleepOn[t]}
    BY <1>u DEF Unprotect
  <2> QED BY <1>0, <1>u, <2>1 DEF SleepInv
<1>s. ASSUME NEW t \in Threads, NEW p, FallAsleep(t, p),
             t = Dumper => p \in {StackOf[Dumper], ArenaPage},
             t = Dumper /\ p = ArenaPage =>
               dpc \in {"parse", "header"} \/ ArenaPage = StackOf[Dumper],
             t = Monitor => p = StackOf[Monitor], UNCHANGED <<mpc, dpc, shutdownEvt>>
      PROVE  SleepInv'
  <2>1. sleepOn' = [sleepOn EXCEPT ![t] = p]
    BY <1>s DEF FallAsleep
  <2> QED BY <1>0, <1>s, <2>1 DEF SleepInv
<1> USE DEF memory, faults, callers, shared, events, tables, loops, image, monitor, history, engine
<1>1. ASSUME NEW w \in Writers, NEW p \in WriterPages, Write(w, p) PROVE SleepInv'
  BY <1>1, <1>k DEF Write
<1>2. ASSUME NEW w \in Writers, NEW p \in WriterPages, Stall(w, p) PROVE SleepInv'
  BY <1>0, <1>2, <1>s DEF Stall, Threads
<1>3. ASSUME NEW t \in {Dumper, Monitor}, SelfFault(t) PROVE SleepInv'
  <2>1. PICK p \in Touches(t) : FallAsleep(t, p)
    BY <1>3 DEF SelfFault
  <2>2. UNCHANGED <<mpc, dpc, shutdownEvt>>
    BY <1>3 DEF SelfFault
  <2>3. /\ t = Dumper => p \in {StackOf[Dumper], ArenaPage}
        /\ t = Dumper /\ p = ArenaPage =>
             dpc \in {"parse", "header"} \/ ArenaPage = StackOf[Dumper]
    BY <2>1 DEF Touches
  <2>4. t = Monitor => p = StackOf[Monitor]
    BY <1>0, <2>1 DEF Touches
  <2> QED BY <1>0, <1>s, <2>1, <2>2, <2>3, <2>4
<1>4. CASE Arm
  <2>1. dpc = "none" /\ UNCHANGED <<sleepOn, shutdownEvt>> /\ mpc' = "poll"
    BY <1>4 DEF Arm, CallInv
  <2>2. sleepOn[Dumper] = ArenaPage => ArenaPage = StackOf[Dumper]
    BY <2>1 DEF SleepInv
  <2> QED BY <2>1, <2>2 DEF SleepInv
<1>5. ASSUME NEW c \in Callers, CallerStep(c) PROVE SleepInv'
  BY <1>5, <1>k DEF CallerStep, Trigger, CheckDone, Return, ReadDone
<1>6. CASE AskShutdown
  BY <1>6, <1>k DEF AskShutdown
<1>7. CASE Join \/ Finish \/ Release
  BY <1>7, <1>u DEF Join, Finish, Release, DumperAt, Runs
<1>8. CASE Copy
  <2>1. UNCHANGED <<mpc, shutdownEvt>> /\ Awake
    BY <1>8 DEF Copy, DumperAt, Runs
  <2>2. Unprotect({Min(todo)}) \/ UNCHANGED sleepOn
    BY <1>8 DEF Copy
  <2> QED BY <1>k, <1>u, <2>1, <2>2
<1>9. CASE DumperLeaves \/ Open \/ OpenFails \/ Parse \/ ParseFails \/ List \/ Query \/ Protect
  <2>1. sleepOn[Dumper] = NoPage
    BY <1>9 DEF DumperLeaves, Open, OpenFails, Parse, ParseFails, List, Query, Protect, Kicked,
                DumperAt, Runs
  <2>2. UNCHANGED <<sleepOn, mpc>> /\ (shutdownEvt => shutdownEvt')
    <3>1. CASE DumperLeaves
      BY <3>1 DEF DumperLeaves
    <3>2. CASE Open
      BY <3>2 DEF Open, Kicked
    <3>4. CASE OpenFails
      BY <3>4 DEF OpenFails, Kicked
    <3>5. CASE Parse
      BY <3>5 DEF Parse
    <3>6. CASE ParseFails
      BY <3>6 DEF ParseFails
    <3>3. CASE List \/ Query \/ Protect
      BY <3>3 DEF List, Query, Protect
    <3> QED BY <1>9, <3>1, <3>2, <3>3, <3>4, <3>5, <3>6
  <2> QED BY <1>k, <2>1, <2>2
<1>10. CASE Header \/ Claim \/ CopyFails \/ Publish \/ SignalDone
  <2>1. sleepOn[Dumper] = NoPage
    BY <1>10 DEF Header, Claim, CopyFails, Publish, SignalDone, DumperAt, Runs
  <2>2. UNCHANGED <<sleepOn, mpc, shutdownEvt>>
    BY <1>10 DEF Header, Claim, CopyFails, Publish, SignalDone
  <2> QED BY <1>k, <2>1, <2>2
<1>11. CASE MonitorLeaves
  BY <1>11, <1>k DEF MonitorLeaves
<1>12. CASE MonitorClaim \/ Preserve \/ \E t \in Threads : ReadFault(t)
  <2>1. CASE MonitorClaim
    <3>1. UNCHANGED <<sleepOn, dpc, shutdownEvt>>
      BY <2>1 DEF MonitorClaim
    <3>2. mpc' # "gone"
      BY <2>1, Claims
    <3> QED BY <1>k, <3>1, <3>2
  <2>2. CASE Preserve
    BY <1>k, <2>2 DEF Preserve
  <2>3. ASSUME NEW t \in Threads, ReadFault(t) PROVE SleepInv'
    BY <1>k, <2>3 DEF ReadFault
  <2> QED BY <1>12, <2>1, <2>2, <2>3
<1>13. CASE UNCHANGED vars
  BY <1>13, <1>k DEF vars
<1> QED
  BY <1>1, <1>2, <1>3, <1>4, <1>5, <1>6, <1>7, <1>8, <1>9, <1>10, <1>11, <1>12, <1>13
     DEF Next, DumperStep, MonitorStep, WriterStep

\* A step that protects nothing and leaves the loops of the dumper alone.
Quiet ==
  /\ prot' \subseteq prot
  /\ dpc' \in {"query", "protect"} => UNCHANGED <<dpc, rest, todo>>

LEMMA QuietSteps ==
  ASSUME [Next]_vars
  PROVE  Quiet \/ Open \/ OpenFails \/ Parse \/ List \/ Query \/ Protect
<1> USE DEF memory, faults, callers, shared, events, tables, loops, image, monitor, history, engine
<1>1. ASSUME NEW w \in Writers, WriterStep(w) PROVE Quiet
  BY <1>1 DEF WriterStep, Write, Stall, Quiet
<1>2. ASSUME NEW t, SelfFault(t) PROVE Quiet
  BY <1>2 DEF SelfFault, Quiet
<1>3. CASE Arm \/ AskShutdown
  BY <1>3 DEF Arm, AskShutdown, Quiet
<1>4. ASSUME NEW c \in Callers, CallerStep(c) PROVE Quiet
  BY <1>4 DEF CallerStep, Trigger, CheckDone, Return, ReadDone, Quiet
<1>5. CASE Join \/ Finish \/ Release
  BY <1>5 DEF Join, Finish, Release, Unprotect, DumperAt, MonitorAt, Quiet
<1>6. CASE Copy
  BY <1>6 DEF Copy, Unprotect, DumperAt, StreamNext, Quiet
<1>7. CASE DumperLeaves \/ ParseFails \/ Publish \/ SignalDone
  BY <1>7 DEF DumperLeaves, ParseFails, Publish, SignalDone, DumperAt, Quiet
<1>8. CASE Header \/ Claim \/ CopyFails
  BY <1>8 DEF Header, Claim, CopyFails, DumperAt, StreamNext, Quiet
<1>9. CASE MonitorLeaves \/ MonitorClaim \/ Preserve \/ \E t \in Threads : ReadFault(t)
  BY <1>9, Claims DEF MonitorLeaves, MonitorClaim, Preserve, ReadFault, Quiet
<1>10. CASE UNCHANGED vars
  BY <1>10 DEF vars, Quiet
<1> QED
  BY <1>1, <1>2, <1>3, <1>4, <1>5, <1>6, <1>7, <1>8, <1>9, <1>10
     DEF Next, DumperStep, MonitorStep

LEMMA StackNext == Types /\ LoopInv /\ ProtInv /\ StackInv /\ [Next]_vars => StackInv'
<1> SUFFICES ASSUME Types, LoopInv, ProtInv, StackInv, [Next]_vars PROVE StackInv'
  OBVIOUS
<1> DEFINE D == StackOf[Dumper]
           M == StackOf[Monitor]
<1>0. /\ D \in Nat /\ M \in Nat /\ Pages \subseteq Nat
      /\ rest \subseteq DOMAIN Regions /\ todo \subseteq Pages
  BY Layout, ThreadsAssumption DEF Types, DumperTypes
<1>f. /\ dpc \in {"query", "protect"} => \A p \in todo, q \in PagesOf(rest) : p < q
      /\ D < M /\ M \in prot =>
           /\ D \notin prot
           /\ dpc \in {"query", "protect"} => D \notin todo \cup PagesOf(rest)
  BY DEF StackInv
<1> HIDE DEF D, M
<1>t. ASSUME dpc' \in {"query", "protect"} => \A p \in todo', q \in PagesOf(rest') : p < q,
             D < M /\ M \in prot' =>
                /\ D \notin prot'
                /\ dpc' \in {"query", "protect"} => D \notin todo' \cup PagesOf(rest')
      PROVE  StackInv'
  <2>1. PICK r : r = rest'
    OBVIOUS
  <2>2. PagesOf(r) = PagesOf(rest') /\ PagesOf(rest)' = PagesOf(rest')
    BY <2>1 DEF PagesOf
  <2> QED BY <1>t, <2>2 DEF StackInv, D, M
<1>1. CASE Quiet
  <2>1. dpc' \in {"query", "protect"} => dpc' = dpc /\ rest' = rest /\ todo' = todo
    BY <1>1 DEF Quiet
  <2>2. prot' \subseteq prot
    BY <1>1 DEF Quiet
  <2> QED BY <1>f, <1>t, <2>1, <2>2
<1>2. CASE Open \/ OpenFails \/ Parse
  <2>1. dpc' \in {"parse", "publish", "list"} /\ dpc \in {"idle", "parse"} /\ UNCHANGED prot
    BY <1>2 DEF Open, OpenFails, Parse, Kicked, DumperAt
  <2>2. prot = {}
    BY <2>1 DEF ProtInv
  <2> QED BY <1>t, <2>1, <2>2
<1>4. CASE List
  <2>1. dpc = "list" /\ todo' = todo /\ UNCHANGED prot
    BY <1>4 DEF List, DumperAt
  <2>2. todo = {} /\ prot = {}
    BY <2>1 DEF LoopInv, ProtInv
  <2> QED BY <1>t, <2>1, <2>2
<1>5. CASE Query
  <2>1. PICK i : i = Min(rest)
    OBVIOUS
  <2>2. /\ dpc = "query" /\ rest' = rest \ {i} /\ UNCHANGED prot
        /\ todo' \subseteq Regions[i].pages
    <3>1. todo' = Regions[i].pages \cap present \/ todo' = Regions[i].pages
      BY <1>5, <2>1 DEF Query
    <3>2. dpc = "query" /\ rest' = rest \ {i} /\ UNCHANGED prot
      BY <1>5, <2>1 DEF Query, DumperAt
    <3> QED BY <3>1, <3>2
  <2>3. rest # {} /\ rest \subseteq Nat
    BY <1>0, <2>2, Layout DEF LoopInv
  <2>4. i \in rest /\ \A j \in rest : i <= j
    BY <2>1, <2>3, Least
  <2>5. \A p \in todo', q \in PagesOf(rest') : p < q
    <3> SUFFICES ASSUME NEW p \in todo', NEW q \in PagesOf(rest') PROVE p < q
      OBVIOUS
    <3>1. PICK j \in rest \ {i} : q \in Regions[j].pages
      BY <2>2 DEF PagesOf
    <3>2. i < j /\ i \in DOMAIN Regions /\ j \in DOMAIN Regions
      BY <1>0, <2>3, <2>4
    <3> QED BY <2>2, <3>1, <3>2, RegionsAssumption
  <2>6. todo' \cup PagesOf(rest') \subseteq PagesOf(rest)
    BY <2>2, <2>4 DEF PagesOf
  <2> QED BY <1>f, <1>t, <2>2, <2>5, <2>6
<1>6. CASE Protect
  <2>1. PICK p : p = Min(todo)
    OBVIOUS
  <2>2. /\ dpc = "protect" /\ rest' = rest
        /\ prot' \subseteq prot \cup {p} /\ todo' = todo \ {p}
        /\ D \notin prot
    <3>1. prot' \subseteq prot \cup {p} /\ todo' = todo \ {p}
      BY <1>6, <2>1 DEF Protect
    <3>2. dpc = "protect" /\ rest' = rest
      BY <1>6 DEF Protect, DumperAt
    <3>3. D \notin prot
      BY <1>6 DEF Protect, DumperAt, Runs, Touches, D
    <3> QED BY <3>1, <3>2, <3>3
  <2>3. todo # {} /\ todo \subseteq Nat
    BY <1>0, <2>2 DEF LoopInv
  <2>4. p \in todo /\ \A q \in todo : p <= q
    BY <2>1, <2>3, Least
  <2>5. \A q \in todo', x \in PagesOf(rest') : q < x
    BY <1>f, <2>2
  <2>6. D < M /\ M \in prot' => D \notin prot' /\ D \notin todo' \cup PagesOf(rest')
    <3> SUFFICES ASSUME D < M, M \in prot' PROVE D \notin prot' /\ D \notin todo' \cup PagesOf(rest')
      OBVIOUS
    <3>1. CASE M \in prot
      <4>1. D \notin todo \cup PagesOf(rest)
        BY <1>f, <2>2, <3>1
      <4>2. D # p
        BY <2>4, <4>1
      <4> QED BY <2>2, <4>1, <4>2
    <3>2. CASE M = p
      <4>1. D # p /\ D \notin todo
        BY <1>0, <2>4, <3>2
      <4>2. D \notin PagesOf(rest)
        <5>1. D \in PagesOf(rest) => M < D
          BY <1>f, <2>2, <2>4, <3>2
        <5> QED BY <1>0, <5>1
      <4> QED BY <2>2, <4>1, <4>2
    <3> QED BY <2>2, <3>1, <3>2
  <2> QED BY <1>f, <1>t, <2>2, <2>5, <2>6
<1> QED
  BY <1>1, <1>2, <1>4, <1>5, <1>6, QuietSteps

\* Where the stack of the dumper lies below that of the monitor, the engine gets
\* stuck on memory of its own only at the allocation of the headers, and only if the
\* arena of the dumper was protected: for any layout of memory otherwise, any arena,
\* and any number of dumps.  The dumper faults on its stack as soon as that is
\* protected, and goes on before the stack of the monitor is.
THEOREM WedgeOnlyByArena == Spec => []WedgedOnlyByArena
<1> DEFINE Inv == DumpInv /\ SleepInv /\ StackInv
<1>1. Inv => WedgedOnlyByArena
  <2> SUFFICES ASSUME DumpInv, SleepInv, StackInv, ~shutdownEvt, Wedged,
                      StackOf[Dumper] < StackOf[Monitor]
               PROVE  dpc = "header" /\ sleepOn[Dumper] = ArenaPage
    BY DEF WedgedOnlyByArena
  <2>1. /\ dpc = "parse" => prot = {}
        /\ \A t \in Threads : sleepOn[t] # NoPage => sleepOn[t] \in prot
    BY DEF DumpInv, ProtInv
  <2>2. sleepOn[Dumper] # NoPage /\ sleepOn[Monitor] # NoPage
    BY DEF Wedged, SleepInv
  <2>3. /\ sleepOn[Dumper] \in prot /\ sleepOn[Monitor] \in prot
        /\ sleepOn[Dumper] \in {StackOf[Dumper], ArenaPage} /\ sleepOn[Monitor] = StackOf[Monitor]
    BY <2>1, <2>2 DEF SleepInv, Threads
  <2>4. StackOf[Dumper] \notin prot
    BY <2>3 DEF StackInv
  <2>5. sleepOn[Dumper] = ArenaPage /\ ArenaPage # StackOf[Dumper]
    BY <2>3, <2>4
  <2>6. dpc = "header"
    BY <2>1, <2>3, <2>5 DEF SleepInv
  <2> QED BY <2>5, <2>6
<1>2. Init => Inv
  <2> SUFFICES ASSUME Init PROVE SleepInv /\ StackInv
    BY DumpInvInit
  <2>1. SleepInv
    BY ThreadsAssumption DEF Init, SleepInv, Threads
  <2>2. StackInv
    BY DEF Init, StackInv
  <2> QED BY <2>1, <2>2
<1>3. Inv /\ [Next]_vars => Inv'
  BY DumpInvNext, SleepNext, StackNext DEF DumpInv
<1> QED
  BY <1>1, <1>2, <1>3, PTL DEF Spec

=============================================================================
