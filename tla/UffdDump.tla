-------------------------------- MODULE UffdDump --------------------------------
(***************************************************************************)
(* The core dump of userfaultfd_coredump: callers of Trigger, the thread   *)
(* that copies every page into the core (dumper_loop, run_one_dump), the   *)
(* thread that answers write-protect faults (monitor_loop), and threads    *)
(* that go on writing to memory.  A write to a protected page puts the     *)
(* writer to sleep until somebody clears the protection; the two threads   *)
(* of the engine write to memory too: their stacks, and the arena that the *)
(* allocations of the dumper come from.                                    *)
(*                                                                         *)
(* What a page contains is a number: 0 for the zero page, one more after   *)
(* every write.                                                            *)
(***************************************************************************)
EXTENDS Integers, FiniteSets, FiniteSetsExt

CONSTANTS
  Regions,          \* the lines of /proc/self/maps in order, see RegionsAssumption
  Writers,          \* threads that write to memory
  Callers,          \* threads that call Trigger
  Dumper, Monitor,  \* the threads of the engine
  StackOf,          \* StackOf[t]: the page on the stack of t that t writes at every step
  ArenaPage,        \* the page that an allocation of the dumper writes
  NoPage,           \* not a page
  Nobody,           \* not a caller
  MinSizes,         \* the values of opts.min_wp_region_bytes to choose from
  IncludeReadonly,  \* opts.include_readonly_regions
  MaxTracked,       \* opts.max_tracked_pages
  MaxWrites,        \* bound: writes of all writers together
  MaxTriggers,      \* bound: calls of Trigger that start a dump
  MaxFailures       \* bound: system calls that fail

Pages == UNION {Regions[i].pages : i \in DOMAIN Regions}

\* A region is its pages, what the line says of it, its size, and whether it is
\* the arena of the dumper, which may not be there before the dumper has allocated
\* for the first time.
ASSUME RegionsAssumption ==
  /\ IsFiniteSet(DOMAIN Regions) /\ DOMAIN Regions \subseteq Nat
  /\ \A i \in DOMAIN Regions :
       /\ IsFiniteSet(Regions[i].pages)
       /\ Regions[i].pages # {} /\ Regions[i].pages \subseteq Nat
       /\ \A f \in {"writable", "anonymous", "stack", "engine", "arena"} :
            Regions[i][f] \in BOOLEAN
       /\ Regions[i].size \in Nat
  /\ \A i, j \in DOMAIN Regions :
       i < j => \A p \in Regions[i].pages, q \in Regions[j].pages : p < q

ASSUME ThreadsAssumption ==
  /\ Dumper # Monitor /\ {Dumper, Monitor} \cap Writers = {}
  /\ NoPage \notin Pages /\ Nobody \notin Callers
  /\ StackOf \in [{Dumper, Monitor} -> Pages] /\ ArenaPage \in Pages

ASSUME BoundsAssumption ==
  /\ MinSizes \subseteq Nat /\ IncludeReadonly \in BOOLEAN /\ MaxTracked \in Nat
  /\ MaxWrites \in Nat /\ MaxTriggers \in Nat /\ MaxFailures \in Nat

VARIABLES
  mem,       \* mem[p]: what page p contains
  present,   \* the pages backed by physical memory
  prot,      \* the pages that are write-protected
  writing,   \* writing[w]: the page w is about to write, after it has slept
  sleepOn,   \* sleepOn[t]: the page whose fault t sleeps on
  unread,    \* the sleepers whose fault has not been read from uffd
  minSize,   \* opts.min_wp_region_bytes
  life,      \* "new", "armed", "joining" or "down"
  calling,   \* calling[c]: where c is in Trigger
  answer,    \* answer[c]: what Trigger returned to c, and from whose dump
  dumping, dumpDone, dumpResult, pendingPath,
  runEvt, doneEvt, shutdownEvt,
  dpc,       \* where the dumper is
  file,      \* out_fd: the caller whose file is open, or Nobody
  path,      \* the caller whose file was opened last
  res,       \* result of run_one_dump
  listed,    \* the regions in the vector regions
  guarded,   \* the regions with wp set
  rest,      \* the regions whose pages have still to be protected
  todo,      \* the pages the loop of the dumper has still to go through
  claimed,   \* the bits set in claim_words
  core,      \* core[p]: what the file holds of page p, or Hole
  mpc,       \* where the monitor is
  mpage,     \* the page of the fault it has read
  mdump,     \* the dump during which it has read it
  arena,     \* whether the arena of the dumper exists
  dumps,     \* the dumps started
  frozen,    \* frozen[p]: what p contained when it was protected, or Hole
  spoiled,   \* the pages of this dump that met one of the four lapses below
  writes, failures

memory == <<mem, present, writes>>
faults == <<writing, sleepOn, unread>>
callers == <<calling, answer>>
shared == <<dumping, dumpDone, dumpResult, pendingPath>>
events == <<runEvt, doneEvt, shutdownEvt>>
tables == <<listed, guarded, claimed>>
loops == <<rest, todo>>
image == <<file, path, res, core>>
monitor == <<mpc, mpage, mdump>>
history == <<dumps, frozen, spoiled>>
vars == <<memory, prot, faults, minSize, life, callers, shared, events, dpc, image,
          tables, loops, monitor, arena, history, failures>>

engine == <<minSize, life>>

Hole == -1

\* Nobody else writes to the stacks of the engine.  An arena that was there before
\* belongs to other threads, too.
WriterPages ==
  (Pages \ {StackOf[Dumper], StackOf[Monitor]})
    \ UNION {Regions[i].pages : i \in {j \in DOMAIN Regions : Regions[j].arena /\ ~arena}}

Threads == Writers \cup {Dumper, Monitor}

TypeOK ==
  /\ mem \in [Pages -> Nat] /\ present \subseteq Pages /\ prot \subseteq Pages
  /\ writing \in [Writers -> Pages \cup {NoPage}]
  /\ sleepOn \in [Threads -> Pages \cup {NoPage}]
  /\ unread \subseteq {t \in Threads : sleepOn[t] # NoPage}
  /\ minSize \in Nat
  /\ life \in {"new", "armed", "joining", "down"}
  /\ calling \in [Callers -> {"out", "check", "read"}]
  /\ answer \in [Callers -> [status : {"none", "Ok", "SystemError", "WriteError"},
                             of : Callers \cup {Nobody}]]
  /\ dumpResult \in [status : {"none", "Ok", "SystemError", "WriteError"},
                     of : Callers \cup {Nobody}]
  /\ dumping \in BOOLEAN /\ dumpDone \in BOOLEAN
  /\ pendingPath \in Callers \cup {Nobody}
  /\ runEvt \in BOOLEAN /\ doneEvt \in BOOLEAN /\ shutdownEvt \in BOOLEAN
  /\ dpc \in {"none", "idle", "parse", "list", "query", "protect",
              "header", "claim", "copy", "finish", "publish", "signal", "gone"}
  /\ file \in Callers \cup {Nobody} /\ path \in Callers \cup {Nobody}
  /\ res \in {"Ok", "SystemError", "WriteError"}
  /\ listed \subseteq DOMAIN Regions /\ guarded \subseteq DOMAIN Regions
  /\ rest \subseteq DOMAIN Regions /\ todo \subseteq Pages
  /\ claimed \subseteq Pages
  /\ core \in [Pages -> Nat \cup {Hole}] /\ frozen \in [Pages -> Nat \cup {Hole}]
  /\ mpc \in {"none", "poll", "claim", "preserve", "release", "gone"}
  /\ mpage \in Pages \cup {NoPage} /\ mdump \in Nat
  /\ arena \in BOOLEAN /\ spoiled \subseteq Pages
  /\ dumps \in Nat /\ writes \in Nat /\ failures \in Nat

\* Every page of an engine thread is resident, the others may be.  malloc gives a
\* thread a new arena, one that a thread which has ended left, or one it shares
\* with other threads.
Init ==
  /\ present \in {S \in SUBSET Pages :
                    {StackOf[Dumper], StackOf[Monitor], ArenaPage} \subseteq S}
  /\ mem = [p \in Pages |-> IF p \in present THEN 1 ELSE 0]
  /\ prot = {}
  /\ writing = [w \in Writers |-> NoPage]
  /\ sleepOn = [t \in Threads |-> NoPage] /\ unread = {}
  /\ life = "new" /\ minSize = 0
  /\ calling = [c \in Callers |-> "out"]
  /\ answer = [c \in Callers |-> [status |-> "none", of |-> c]]
  /\ dumping = FALSE /\ dumpDone = FALSE /\ pendingPath = Nobody
  /\ dumpResult = [status |-> "none", of |-> Nobody]
  /\ runEvt = FALSE /\ doneEvt = FALSE /\ shutdownEvt = FALSE
  /\ dpc = "none" /\ mpc = "none" /\ mpage = NoPage /\ mdump = 0
  /\ file = Nobody /\ path = Nobody /\ res = "Ok"
  /\ core = [p \in Pages |-> Hole]
  /\ listed = {} /\ guarded = {} /\ claimed = {} /\ rest = {} /\ todo = {}
  /\ arena \in BOOLEAN /\ dumps = 0
  /\ frozen = [p \in Pages |-> Hole] /\ spoiled = {}
  /\ writes = 0 /\ failures = 0

Fails == failures < MaxFailures /\ failures' = failures + 1
Works == UNCHANGED failures

-----------------------------------------------------------------------------
\* What the kernel does.

FallAsleep(t, p) ==
  /\ sleepOn' = [sleepOn EXCEPT ![t] = p]
  /\ unread' = unread \cup {t}

\* Mutant: a fault nobody has read stays in the queue of uffd.
UnprotectUnread(S) ==
  /\ prot' = prot \ S
  /\ sleepOn' = [t \in Threads |-> IF sleepOn[t] \in S THEN NoPage ELSE sleepOn[t]]
  /\ UNCHANGED unread

\* Mutant: UFFDIO_WRITEPROTECT_MODE_DONTWAKE.
UnprotectAsleep(S) ==
  /\ prot' = prot \ S
  /\ UNCHANGED <<sleepOn, unread>>

\* Clearing the protection of pages S, or unregistering them, wakes whoever
\* sleeps on them; a fault that nobody has read yet is forgotten.
Unprotect(S) ==
  /\ prot' = prot \ S
  /\ sleepOn' = [t \in Threads |-> IF sleepOn[t] \in S THEN NoPage ELSE sleepOn[t]]
  /\ unread' = {t \in unread : sleepOn[t] \notin S}

\* A writer stores into page p, or goes to sleep; one that was woken tries the
\* same page again.
Attempt(w, p) ==
  /\ sleepOn[w] = NoPage
  /\ \/ writing[w] = NoPage /\ writes < MaxWrites /\ writes' = writes + 1
     \/ writing[w] = p /\ UNCHANGED writes

Write(w, p) ==
  /\ Attempt(w, p)
  /\ p \notin prot
  /\ mem' = [mem EXCEPT ![p] = @ + 1] /\ present' = present \cup {p}
  /\ writing' = [writing EXCEPT ![w] = NoPage]
  /\ UNCHANGED <<prot, sleepOn, unread, engine, callers, shared, events, dpc, image,
                 tables, loops, monitor, arena, history, failures>>

Stall(w, p) ==
  /\ Attempt(w, p)
  /\ p \in prot
  /\ writing' = [writing EXCEPT ![w] = p]
  /\ FallAsleep(w, p)
  /\ UNCHANGED <<mem, present, prot, engine, callers, shared, events, dpc, image, tables,
                 loops, monitor, arena, history, failures>>

\* The pages that a thread of the engine writes in its next step.
Touches(t) ==
  {StackOf[t]} \cup (IF t = Dumper /\ dpc \in {"parse", "header"} THEN {ArenaPage} ELSE {})

\* A thread in poll with nothing to report does not write to its stack.
Runnable(t) ==
  IF t = Dumper THEN dpc \notin {"none", "gone"} /\ (dpc = "idle" => runEvt \/ shutdownEvt)
  ELSE mpc \notin {"none", "gone"} /\ (mpc = "poll" => unread # {} \/ shutdownEvt)

\* A thread of the engine faults on memory of its own.
SelfFault(t) ==
  /\ sleepOn[t] = NoPage /\ Runnable(t)
  /\ \E p \in Touches(t) \cap prot : FallAsleep(t, p)
  /\ UNCHANGED <<memory, prot, writing, engine, callers, shared, events, dpc, image,
                 tables, loops, monitor, arena, history, failures>>

Runs(t) == sleepOn[t] = NoPage /\ Touches(t) \cap prot = {}

-----------------------------------------------------------------------------
\* Arm, Trigger and Shutdown.

\* A failure to get what the engine needs leaves it as it was.
Arm ==
  /\ life = "new"
  /\ minSize' \in MinSizes
  /\ life' = "armed" /\ dpc' = "idle" /\ mpc' = "poll"
  /\ UNCHANGED <<memory, prot, faults, callers, shared, events, image, tables,
                 loops, mpage, mdump, arena, history, failures>>

\* The winner of the exchange hands its path to the dumper and kicks it.
Trigger(c) ==
  /\ calling[c] = "out"
  /\ life = "armed"
  /\ ~dumping
  /\ dumps < MaxTriggers
  /\ dumping' = TRUE
  /\ pendingPath' = c
  /\ dumpDone' = FALSE
  /\ runEvt' = TRUE
  /\ calling' = [calling EXCEPT ![c] = "check"]
  /\ answer' = [answer EXCEPT ![c] = [status |-> "none", of |-> c]]
  /\ UNCHANGED <<memory, prot, faults, engine, dumpResult, doneEvt, shutdownEvt, dpc,
                 image, tables, loops, monitor, arena, history, failures>>

Return(c) ==
  /\ answer' = [answer EXCEPT ![c] = dumpResult]
  /\ dumping' = FALSE
  /\ calling' = [calling EXCEPT ![c] = "out"]

\* The condition of the loop: the result is there, or c has to read done_evt,
\* which fails once Shutdown has closed it.
CheckDone(c) ==
  /\ calling[c] = "check"
  /\ \/ /\ dumpDone \/ life = "down"
        /\ Return(c)
     \/ /\ ~dumpDone /\ life # "down"
        /\ calling' = [calling EXCEPT ![c] = "read"]
        /\ UNCHANGED <<answer, dumping>>
  /\ UNCHANGED <<memory, prot, faults, engine, dumpDone, dumpResult, pendingPath, events,
                 dpc, image, tables, loops, monitor, arena, history, failures>>

\* Mutant: the caller takes one tick of done_evt for its own.
ReadDoneOnce(c) ==
  /\ calling[c] = "read"
  /\ doneEvt
  /\ doneEvt' = FALSE
  /\ Return(c)
  /\ UNCHANGED <<memory, prot, faults, engine, dumpDone, dumpResult, pendingPath, runEvt,
                 shutdownEvt, dpc, image, tables, loops, monitor, arena, history, failures>>

\* The read returns when done_evt has been written, and the loop goes round.
ReadDone(c) ==
  /\ calling[c] = "read"
  /\ doneEvt
  /\ doneEvt' = FALSE
  /\ calling' = [calling EXCEPT ![c] = "check"]
  /\ UNCHANGED <<memory, prot, faults, engine, answer, shared, runEvt, shutdownEvt, dpc,
                 image, tables, loops, monitor, arena, history, failures>>

AskShutdown ==
  /\ life = "armed"
  /\ life' = "joining" /\ shutdownEvt' = TRUE
  /\ UNCHANGED <<minSize, memory, prot, faults, callers, shared, runEvt, doneEvt, dpc, image,
                 tables, loops, monitor, arena, history, failures>>

\* Both threads have been joined: unregister, and free what Arm allocated.
Join ==
  /\ life = "joining" /\ dpc = "gone" /\ mpc = "gone"
  /\ life' = "down"
  /\ Unprotect(UNION {Regions[i].pages : i \in guarded})
  /\ listed' = {} /\ guarded' = {} /\ claimed' = {}
  /\ UNCHANGED <<minSize, memory, writing, callers, shared, events, dpc, image, loops, monitor,
                 arena, history, failures>>

-----------------------------------------------------------------------------
\* The dumper.

DumperAt(label) == dpc = label /\ Runs(Dumper)

\* poll looks at shutdown_evt first: a kick that came before it is not served.
DumperLeaves ==
  /\ DumperAt("idle")
  /\ shutdownEvt
  /\ dpc' = "gone"
  /\ UNCHANGED <<memory, prot, faults, engine, callers, shared, events, image, tables,
                 loops, monitor, arena, history, failures>>

Kicked == DumperAt("idle") /\ runEvt /\ ~shutdownEvt /\ runEvt' = FALSE

\* A new dump: the core is truncated and the claims are forgotten.
Open ==
  /\ Kicked
  /\ Works
  /\ file' = pendingPath /\ path' = pendingPath
  /\ res' = "Ok" /\ dpc' = "parse"
  /\ core' = [p \in Pages |-> Hole]
  /\ claimed' = {}
  /\ dumps' = dumps + 1
  /\ frozen' = [p \in Pages |-> Hole] /\ spoiled' = {}
  /\ UNCHANGED <<memory, prot, faults, engine, callers, shared, doneEvt, shutdownEvt,
                 listed, guarded, loops, monitor, arena>>

\* The text of the error is allocated, maybe for the first time.
OpenFails ==
  /\ Kicked
  /\ Fails
  /\ path' = pendingPath
  /\ res' = "WriteError" /\ dpc' = "publish"
  /\ dumps' = dumps + 1
  /\ arena' \in {arena, TRUE}
  /\ UNCHANGED <<memory, prot, faults, engine, callers, shared, doneEvt, shutdownEvt,
                 file, core, tables, loops, monitor, frozen, spoiled>>

\* The list of regions is rebuilt in place.  maps is read piece by piece and the
\* pieces are appended to a string: a new arena is made by the first of these
\* allocations, and the kernel lists it if it has not come to its place before.
Parse ==
  /\ DumperAt("parse")
  /\ Works
  /\ listed' = {} /\ guarded' = {}
  /\ \E seen \in {arena, TRUE} :
       rest' = {i \in DOMAIN Regions : Regions[i].arena => seen}
  /\ arena' = TRUE
  /\ dpc' = "list"
  /\ UNCHANGED <<memory, prot, faults, engine, callers, shared, events, image, claimed,
                 todo, monitor, history>>

\* Mutant: the error return does not publish a result.
ParseFailsQuietly ==
  /\ DumperAt("parse")
  /\ Fails
  /\ listed' = {} /\ guarded' = {}
  /\ file' = Nobody
  /\ res' = "SystemError" /\ dpc' = "idle"
  /\ arena' \in {arena, TRUE}
  /\ UNCHANGED <<memory, prot, faults, engine, callers, shared, events, path, core,
                 claimed, loops, monitor, history>>

\* The core is closed and the regions that were there are forgotten.  The text of
\* the error is allocated as well.
ParseFails ==
  /\ DumperAt("parse")
  /\ Fails
  /\ listed' = {} /\ guarded' = {}
  /\ file' = Nobody
  /\ res' = "SystemError" /\ dpc' = "publish"
  /\ arena' \in {arena, TRUE}
  /\ UNCHANGED <<memory, prot, faults, engine, callers, shared, events, path, core,
                 claimed, loops, monitor, history>>

\* Regions are added in order until the claim bitmap is full.
Wanted(i) == Regions[i].writable \/ IncludeReadonly

Listed ==
  {i \in rest : Wanted(i) /\
     Cardinality(UNION {Regions[j].pages : j \in {k \in rest : k <= i /\ Wanted(k)}})
       <= MaxTracked}

WantWP(i) ==
  /\ Regions[i].writable
  /\ Regions[i].anonymous
  /\ Regions[i].size >= minSize
  /\ ~Regions[i].stack
  /\ ~Regions[i].engine

\* Where the loop that protects the registered regions goes on.
ProtectNext ==
  CASE todo' # {} -> "protect"
    [] todo' = {} /\ rest' # {} -> "query"
    [] OTHER -> "header"

\* A region that cannot be registered is kept, and read directly.
List ==
  /\ DumperAt("list")
  /\ listed' = Listed
  /\ \/ /\ Works
        /\ guarded' = {i \in Listed : WantWP(i)}
     \/ /\ Fails
        /\ \E j \in Listed : WantWP(j) /\ guarded' = {i \in Listed : WantWP(i)} \ {j}
  /\ UNCHANGED todo
  /\ IF Listed = {}
     THEN file' = Nobody /\ res' = "SystemError" /\ dpc' = "publish" /\ rest' = {}
     ELSE UNCHANGED <<file, res>> /\ rest' = guarded' /\ dpc' = ProtectNext
  /\ UNCHANGED <<memory, prot, faults, engine, callers, shared, events, path, core,
                 claimed, monitor, arena, history>>

\* Mutant: the registered regions are protected from the highest one down.
QueryDown ==
  /\ DumperAt("query")
  /\ LET i == Max(rest) IN
       /\ \/ Works /\ todo' = Regions[i].pages \cap present
          \/ Fails /\ todo' = Regions[i].pages
       /\ rest' = rest \ {i}
  /\ dpc' = ProtectNext
  /\ UNCHANGED <<memory, prot, faults, engine, callers, shared, events, image, tables,
                 monitor, arena, history>>

\* The resident pages of the next registered region; all of its pages if
\* pagemap cannot be read.
Query ==
  /\ DumperAt("query")
  /\ LET i == Min(rest) IN
       /\ \/ Works /\ todo' = Regions[i].pages \cap present
          \/ Fails /\ todo' = Regions[i].pages
       /\ rest' = rest \ {i}
  /\ dpc' = ProtectNext
  /\ UNCHANGED <<memory, prot, faults, engine, callers, shared, events, image, tables,
                 monitor, arena, history>>

\* A page that is not resident is not protected, whatever was asked for.
Protect ==
  /\ DumperAt("protect")
  /\ LET p == Min(todo) IN
       /\ \/ /\ Works
             /\ IF p \in present
                THEN prot' = prot \cup {p} /\ frozen' = [frozen EXCEPT ![p] = mem[p]]
                ELSE UNCHANGED <<prot, frozen>>
          \/ Fails /\ UNCHANGED <<prot, frozen>>
       /\ todo' = todo \ {p}
  /\ UNCHANGED rest /\ dpc' = ProtectNext
  /\ UNCHANGED <<memory, faults, engine, callers, shared, events, image, tables,
                 monitor, arena, dumps, spoiled>>

\* The headers; without them no page is copied.
Header ==
  /\ DumperAt("header")
  /\ \/ /\ Works
        /\ todo' = UNION {Regions[i].pages : i \in listed}
        /\ dpc' = "claim" /\ UNCHANGED res
     \/ /\ Fails
        /\ res' = "WriteError" /\ dpc' = "finish" /\ UNCHANGED todo
  /\ UNCHANGED <<memory, prot, faults, engine, callers, shared, events, file, path, core,
                 tables, rest, monitor, arena, history>>

\* The next page of the loop, unless the monitor has claimed it.
StreamNext == IF todo' = {} THEN "finish" ELSE "claim"

\* Mutant: the dumper copies a page that the monitor has claimed.
ClaimAgain ==
  /\ DumperAt("claim")
  /\ claimed' = claimed \cup {Min(todo)}
  /\ dpc' = "copy"
  /\ UNCHANGED <<memory, prot, faults, engine, callers, shared, events, image, listed,
                 guarded, loops, monitor, arena, history, failures>>

Claim ==
  /\ DumperAt("claim")
  /\ LET p == Min(todo) IN
       IF p \in claimed
       THEN todo' = todo \ {p} /\ dpc' = StreamNext /\ UNCHANGED claimed
       ELSE claimed' = claimed \cup {p} /\ dpc' = "copy" /\ UNCHANGED todo
  /\ UNCHANGED <<memory, prot, faults, engine, callers, shared, events, image, listed,
                 guarded, rest, monitor, arena, history, failures>>

\* The page is written and its protection is cleared.  A page that cannot be
\* read is written as zeros.
Copy ==
  /\ DumperAt("copy")
  /\ LET p == Min(todo) IN
       /\ \/ Works /\ core' = [core EXCEPT ![p] = mem[p]] /\ UNCHANGED spoiled
          \/ Fails /\ core' = [core EXCEPT ![p] = 0] /\ spoiled' = spoiled \cup {p}
       /\ IF \E i \in guarded : p \in Regions[i].pages
          THEN Unprotect({p})
          ELSE UNCHANGED <<prot, sleepOn, unread>>
       /\ todo' = todo \ {p}
  /\ dpc' = StreamNext
  /\ UNCHANGED <<memory, writing, engine, callers, shared, events, file, path, res,
                 tables, rest, monitor, arena, dumps, frozen>>

CopyFails ==
  /\ DumperAt("copy")
  /\ Fails
  /\ res' = "WriteError" /\ dpc' = "finish" /\ todo' = {}
  /\ UNCHANGED <<memory, prot, faults, engine, callers, shared, events, file, path, core,
                 tables, rest, monitor, arena, history>>

\* Everything is unregistered and the core is closed, whether or not the
\* monitor has finished with a page it has claimed.
Finish ==
  /\ DumperAt("finish")
  /\ Unprotect(UNION {Regions[i].pages : i \in guarded})
  /\ file' = Nobody
  /\ dpc' = "publish"
  /\ spoiled' = IF mpc = "preserve" THEN spoiled \cup {mpage} ELSE spoiled
  /\ UNCHANGED <<memory, writing, engine, callers, shared, events, path, res, core,
                 tables, loops, monitor, arena, dumps, frozen, failures>>

Publish ==
  /\ DumperAt("publish")
  /\ dumpResult' = [status |-> res, of |-> path]
  /\ dumpDone' = TRUE
  /\ dpc' = "signal"
  /\ UNCHANGED <<memory, prot, faults, engine, callers, dumping, pendingPath, events,
                 image, tables, loops, monitor, arena, history, failures>>

SignalDone ==
  /\ DumperAt("signal")
  /\ doneEvt' = TRUE
  /\ dpc' = "idle"
  /\ UNCHANGED <<memory, prot, faults, engine, callers, shared, runEvt, shutdownEvt, image,
                 tables, loops, monitor, arena, history, failures>>

-----------------------------------------------------------------------------
\* The monitor.

MonitorAt(label) == mpc = label /\ Runs(Monitor)

\* Mutant: the monitor takes the tick of shutdown_evt away from the dumper.
MonitorDrains ==
  /\ MonitorAt("poll")
  /\ shutdownEvt
  /\ shutdownEvt' = FALSE
  /\ mpc' = "gone"
  /\ UNCHANGED <<memory, prot, faults, engine, callers, shared, runEvt, doneEvt, dpc,
                 image, tables, loops, mpage, mdump, arena, history, failures>>

MonitorLeaves ==
  /\ MonitorAt("poll")
  /\ shutdownEvt
  /\ mpc' = "gone"
  /\ UNCHANGED <<memory, prot, faults, engine, callers, shared, events, dpc, image, tables,
                 loops, mpage, mdump, arena, history, failures>>

ReadFault(t) ==
  /\ MonitorAt("poll")
  /\ ~shutdownEvt
  /\ t \in unread
  /\ unread' = unread \ {t}
  /\ mpage' = sleepOn[t] /\ mdump' = dumps
  /\ mpc' = "claim"
  /\ UNCHANGED <<memory, prot, writing, sleepOn, engine, callers, shared, events, dpc,
                 image, tables, loops, arena, history, failures>>

\* The fault belongs to a dump that has ended since it was read.
Late == mdump # dumps

\* The page is claimed if a region owns it, a dump is running and the dumper
\* has not claimed it.  Nothing keeps the dumper from rebuilding the regions
\* at the same time: then the owner may or may not be found.
MonitorClaim ==
  /\ MonitorAt("claim")
  /\ LET owned == \E i \in listed : mpage \in Regions[i].pages
         found == IF dpc = "list" THEN BOOLEAN ELSE {owned}
     IN \E owner \in found :
          IF owner /\ dumping /\ mpage \notin claimed
          THEN /\ claimed' = claimed \cup {mpage}
               /\ spoiled' = IF Late THEN spoiled \cup {mpage} ELSE spoiled
               /\ mpc' = "preserve"
          ELSE mpc' = "release" /\ UNCHANGED <<claimed, spoiled>>
  /\ UNCHANGED <<memory, prot, faults, engine, callers, shared, events, dpc, image, listed,
                 guarded, loops, mpage, mdump, arena, dumps, frozen, failures>>

\* The page goes to the file that is open now.  For a fault of an earlier dump
\* the offset comes from regions that have been rebuilt: it can be that of any
\* page.  Nobody looks at the result.
Preserve ==
  /\ MonitorAt("preserve")
  /\ mpc' = "release"
  /\ \/ /\ file = Nobody
        /\ UNCHANGED <<core, spoiled, failures>>
     \/ /\ file # Nobody /\ ~Late
        /\ \/ Works /\ core' = [core EXCEPT ![mpage] = mem[mpage]] /\ UNCHANGED spoiled
           \/ Fails /\ spoiled' = spoiled \cup {mpage} /\ UNCHANGED core
     \/ /\ file # Nobody /\ Late
        /\ \E q \in Pages : /\ core' = [core EXCEPT ![q] = mem[mpage]]
                            /\ spoiled' = spoiled \cup {mpage, q}
        /\ UNCHANGED failures
  /\ UNCHANGED <<memory, prot, faults, engine, callers, shared, events, dpc, file, path, res,
                 tables, loops, mpage, mdump, arena, dumps, frozen>>

\* The writer goes on, also where the dumper has claimed the page and not yet
\* read it.
Release ==
  /\ MonitorAt("release")
  /\ Unprotect({mpage})
  /\ spoiled' = IF Late \/ (dpc = "copy" /\ mpage = Min(todo))
                THEN spoiled \cup {mpage} ELSE spoiled
  /\ mpc' = "poll" /\ mpage' = NoPage /\ mdump' = 0
  /\ UNCHANGED <<memory, writing, engine, callers, shared, events, dpc, image, tables,
                 loops, arena, dumps, frozen, failures>>

-----------------------------------------------------------------------------
CallerStep(c) == Trigger(c) \/ CheckDone(c) \/ ReadDone(c)

DumperStep ==
  \/ SelfFault(Dumper) \/ DumperLeaves \/ Open \/ OpenFails
  \/ Parse \/ ParseFails \/ List \/ Query \/ Protect
  \/ Header \/ Claim \/ Copy \/ CopyFails \/ Finish \/ Publish \/ SignalDone

MonitorStep ==
  \/ SelfFault(Monitor) \/ MonitorLeaves \/ MonitorClaim \/ Preserve \/ Release
  \/ \E t \in Threads : ReadFault(t)

WriterStep(w) == \E p \in WriterPages : Write(w, p) \/ Stall(w, p)

Next ==
  \/ Arm \/ AskShutdown \/ Join
  \/ \E c \in Callers : CallerStep(c)
  \/ DumperStep
  \/ MonitorStep
  \/ \E w \in Writers : WriterStep(w)

Spec == Init /\ [][Next]_vars

\* The threads of the engine run when they can, a caller comes back from
\* poll and read, Shutdown joins.  Nobody has to call Trigger or Shutdown, and
\* a writer has to finish only the write it slept on.
Fairness ==
  /\ WF_vars(DumperStep) /\ WF_vars(MonitorStep) /\ WF_vars(Join)
  /\ \A c \in Callers : WF_vars(CheckDone(c) \/ ReadDone(c))
  /\ \A w \in Writers : WF_vars(writing[w] # NoPage /\ WriterStep(w))

FairSpec == Spec /\ Fairness

-----------------------------------------------------------------------------
\* Safety.

\* A dump that ends with Ok has every page of every region in its core, and a
\* page that was protected is there as it was at that moment, whatever the
\* writers did since.  Excused are the pages the code lets down: released by
\* the monitor between the claim and the copy of the dumper, claimed by the
\* monitor and not yet written when the dumper closes the core, not written by
\* the monitor because pwrite failed, not readable, or met by a fault that the
\* monitor had read in an earlier dump.  (run_one_dump and monitor_loop.)
ImageIsFrozen ==
  (file = Nobody /\ res = "Ok" /\ dumps > 0) =>
    \A i \in listed : \A p \in Regions[i].pages \ spoiled :
      /\ core[p] # Hole
      /\ frozen[p] # Hole => core[p] = frozen[p]

\* What Trigger returns is the result of the dump into its own file, also when
\* a tick of an earlier dump is left in done_evt; after Shutdown has closed the
\* event it may be that of another one.  (Trigger, dumper_loop.)
AnswerIsOwn == life # "down" => \A c \in Callers : answer[c].of = c

\* The dumper sleeps on a fault, and the monitor sleeps too or has left.
Wedged ==
  sleepOn[Dumper] # NoPage /\ (sleepOn[Monitor] # NoPage \/ mpc = "gone")

\* The engine protects the stacks of its own threads like any other memory.  Where
\* the stack of the dumper has the lower address, it is protected, and released,
\* while the monitor can still answer: as long as nobody calls Shutdown, the two
\* threads then sleep on each other only when the dumper allocates for the headers
\* and its arena was protected with the rest.  (run_one_dump, parse_maps_and_register.)
WedgedOnlyByArena ==
  (Wedged /\ ~shutdownEvt /\ StackOf[Dumper] < StackOf[Monitor]) =>
    dpc = "header" /\ sleepOn[Dumper] = ArenaPage

\* README.md:73 "Deadlock-free under write pressure".
NeverWedged == ~shutdownEvt => ~Wedged

-----------------------------------------------------------------------------
\* Liveness.

\* A writer that slept on a fault gets its write done, through dumps that fail
\* and through Shutdown too, unless the engine is wedged.  (monitor_loop,
\* unregister_all.)
WritesLand ==
  \A w \in Writers : writing[w] # NoPage ~> (writing[w] = NoPage \/ Wedged)

\* Trigger returns, unless the engine is wedged or the dumper has left for
\* Shutdown with the kick still in run_evt.  (Trigger, dumper_loop.)
TriggerReturns ==
  \A c \in Callers :
    calling[c] # "out" ~> (calling[c] = "out" \/ Wedged \/ (dpc = "gone" /\ runEvt))

\* Shutdown comes back from its joins, unless the engine is wedged.
ShutdownReturns == life = "joining" ~> (life = "down" \/ Wedged)

=============================================================================
