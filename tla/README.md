# Formal models of scrapbox

This directory holds TLA+ models of the repository's own concurrent and
stateful code, the TLC configurations that check them on small instances, and
TLAPS proofs of the results that hold for every instance. Paths below are
relative to `src/lincs/src/lincs/lincs/` unless they begin with `src/`.

## The system

The repository is a collection. What it has of a system with state shared by
threads and processes is, first, LinCS, a configuration service: programs read
and write named values through an API library, a daemon keeps them in the file
system and signals the programs that registered for a change; second, an engine
that writes a core dump of a process while its threads go on; third, a thread
pool that serves active objects.

| part | state | operations | talks to |
|---|---|---|---|
| ordered mutexes (`lib_cfgs_tools/cfgs_mutex.c`) | the pthread mutexes, a table of who holds which | lock (poll, time out), unlock, assert the order | every thread of the daemon |
| request handling (`daemon/cfgs_configd.c`, `cfgs_protocol.c`, `http_protocol.c`, `cfgs_sock.c`) | connections, one thread each, load count, lock of the backends | connect, get, set, rm, disconnect | client library, backends, notifications |
| notifications (`cfgs_configd.c`) | a pipe, a list of registrations | queue a change, read it back, signal clients, register | handlers write, one thread reads |
| descriptors (`cfgs_protocol.c`, `cfgs_configd.c`, `cfgs_fs_bk.c`) | the descriptor table of the daemon | accept, open, close | handlers share the numbers |
| file system backend (`backends/cfgs_fs_bk`) | a directory tree, a file VALUES per value | search, create, read, write, unlink | the daemon, and clients that could not reach it |
| stacker backend (`backends/cfgs_stacker`) | a list of backends | forwards | other backends |
| pipe of signals (`lib_cfgs_tools/cfgs_daemon.c`) | set and count of caught signals, a pipe | start, caught, stop, the handler | programs built on the library |
| daemonisation (`cfgs_daemon.c`) | a semaphore, the process group | fork, single instance, signal thread | the daemon |
| client library (`lib_cfgs_client`) | connection or own backend | connect, get, set, rm, disconnect | the daemon or the backend |
| containers, values, log | lists, hash table, strings | pure or local | all of the above |
| `lib_cfgs_emul`, `clients/` | none of their own | wrap the client library | the client library |
| core dump (`src/userfaultfd_coredump`) | protected pages, a claim per page, the core, one request at a time | Arm, Trigger, Shutdown; a dumper copies pages, a monitor answers write faults | every thread of the process, through its page faults |
| thread pool (`src/threadpool-0_2_5_001am-src`) | a queue per object, a line of queues, counts of workers | schedule, clear, resize, wait, shut down | workers, and threads that wait for them |

The other directories: `src/lincs/src/tiger` (a front end on a vendored Turbo
Vision), `src/lincs/src/lincs/expat`, `src/antlr...` (third party);
`src/ctrace03` (hooks that print a call trace); `src/coroutines`, `src/stdexec`,
`src/constexpr`, `src/c-guard`, `src/globals-link-order`,
`src/embed-gdb-pretty-printer`, `src/varia` (samples without state of their own).
Vendored code is by far the largest part of the repository.

What is hard about LinCS: threads that poll locks with a time limit and
assert that they got them; a lock held while a client is waited for; requests
and answers that carry no number; a pipe that drops what does not fit, written
by many, resynchronised by its reader; signal handlers; descriptor numbers
closed twice; files changed in several system calls by processes without a
common lock. About the core dump: two threads that race for each page with a
flag, faults that arrive in the wrong dump, an event that counts, threads that
protect the memory they need themselves. About the pool: queues that are taken
out of a line and put back by other threads, workers that leave and die, counts
kept by hand, notifications that must not be missed. `PROJECT.json` lists these
hazards at their lines, with the properties that are about them.

## The modules

| module | models | abstract specification |
|---|---|---|
| `OrderedMutex` | `cfgs_mutex.c` and the nesting of its callers | `TimedLock`: mutexes with a timeout (`AbstractSpec`) |
| `Daemon` | handlers, their clients and the wires between | `ConfigStore`: one store, each request as a whole (`StoreSpec`) |
| `Notifications` | handlers as writers, pipe, dispatcher, registrations, start and SIGTERM | - |
| `SigPipe` | `cfgs_sigpipe_*`, the handler, the loop documented in `cfgs_daemon.h` | - |
| `Descriptors` | the numbers handlers know their connections and files by | - |
| `FsBackend` | get, set, rm of the backend, system call by system call, in several processes | - |
| `UffdDump` | callers of Trigger, dumper, monitor, writers and their page faults, Shutdown | - |
| `ActivePool` | schedulers, workers, waiting threads, shutdown | `ActiveObjects`: per object one task at a time, in order (`ActiveSpec`) |

`MC...` modules give the constants their values; `..._proofs` modules hold the
theorems.

**OrderedMutex.** `holder` is the pthread mutexes, `record` the field
`thread` of `m_mutexes`. `Lock`, `TryLock*`, `Account`, `Unlock`, `Cleanup` are
the stretches of `cfgs_mutex_lock` and `cfgs_mutex_unlock` between the points
where other threads can see a difference: the table is written after the mutex
is taken and cleared after it is released. A failed order assertion or a
timeout aborts the process, as the `lassert` of every caller does.

**Daemon.** `pc[c]` is where the thread of connection `c` is in
`http_process_request`; `inbox` and `outbox` are the two directions of its
socket. A backend begins with a request (`Begin`: it finds the value and, to set
it, truncates the file) and is done with it (`Processed`) in two steps, between
which anything may happen; that clients nevertheless see whole requests is the
merit of the lock and what `StoreSpec` states. A daemon that ends in between
leaves the value `Torn`. Time passes in ticks; `SockTout` and `LockTout` are the
two limits in ticks, with 0 for both any wait may end at any moment. `Prompt`
says whether threads that can run do so before the next tick (an idle machine)
or the scheduler is free. Clients that stop waiting may go on using the
connection, as `cfgsp_send_rq` lets them, and may read what is in the socket
after the daemon has ended. Values are abstract; the backends store what they
are given, except for the failing `cfgs_setval` that `BackendMayFail` allows:
its handler asks the same backend again, and the -1 of the failures stays in the
count it answers (`ProcessAgain`). An answer for which the socket has no room is
sent only while the client reads or once it has hung up (`CanSend`); until then
`cfgst_fullsend` tries on, with the backends locked. Not modelled: version
errors, operations on several values in one request.

**Notifications.** The pipe holds bytes, as in the code: tags of nine and seven,
shorts of two with the low byte first, a name and a layer with the zero byte that
ends them. Nothing tells what a byte was written for: out of step, the dispatcher
takes two bytes of a tag, or one byte of a length and one of the next, for a length
and refuses them only when they come to more than `FILENAME_MAX`. A field is written
completely or not at all (`PIPE_BUF`), a record that meets a full pipe is cut short
and what was written of it, the stump, stays. The dispatcher is `read_change_notif`,
one call of `read` at a time: it takes what is there, up to what it asked for, and
starts again when that was less. The name it passes on ends at the first zero byte in
the buffer (`CString`), which is any of the names or none (`Garbage`). Handlers call
`queue_notification` while they hold the backends and so come one after the
other; the model lets them race for `m_notif_queue_mutex`, which covers more.
Names and layers are taken to have no control characters, no "<" and no space, and to
fit `FILENAME_MAX` with their zero byte.

What a stump costs has no useful bound. If it ends behind the length of a name of ten
bytes, the reader takes "<%start%>" and the low byte of the next record's total length
for the name; its high byte and the low byte of the next length then make, say,
0x0a00 = 2560, which is accepted, and what the pipe holds of the next 2560 bytes, dozens
of records when it is full, goes as the layer of that one. What the code does keep is stated by two properties:
`DispatchedInOrder`, that whatever is misread nothing is dispatched twice, out of order or
under the name of something else that did not change, and `NothingLostInStep`, that
the loss ends: once the dispatcher has waited for a record while the pipe was empty and
none was being written (`Waiting`; `since` remembers the lengths at that time), it is
in step again.

**SigPipe.** The handler's three steps for each signal interleave with the
program's; the kernel delivers pending signals that are not blocked before the
program goes on, and blocks those of `sa_mask` while a handler runs.

**Descriptors.** `open` and `accept` return the lowest free number, `close`
frees a number whatever it refers to by now. `ReadFails` is the descriptor
`on_match_get` forgets.

**FsBackend.** Each step is one system call. Directories are never removed by
the code, which is why `stat` and `mkdir` of a directory are one step. A file
is a sequence of cells, so that a write may be cut short and two writes may be
mixed; `Parses` is what the parser delivers for such a text, nondeterministic
where it depends on where the pieces meet. A killed process starts again with
the files as they are. `last`, `settled`, `sure` and `shared` are history: what
the last finished change of a name has left and whether anything interfered.

**UffdDump.** A page holds a number, 0 for the zero page and one more after each
write. `prot` is the set of write-protected pages; a thread that writes to one
sleeps (`sleepOn`) until the protection is cleared, and this goes for the
dumper and the monitor too, which write to their stacks at every step and, for
an allocation, to an arena. Whether that arena exists before the first allocation is
open (`arena`): malloc makes a new one for a thread, hands out the one of a thread that
has ended, or shares one; a new one may or may not be seen by the `maps` that is
being read when it is made (`Parse`). Another thread may write to an arena that was
there before. `dpc` and `mpc` are their places in `dumper_loop`,
`run_one_dump` and `monitor_loop`; `claimed` is the flag of each page for which
the two race with an atomic exchange, `core` the file. A fault that was read in
one dump and handled in the next is there by `mdump`. Regions carry what
`parse_maps_and_register` looks at; sizes are ranks. `frozen` (what a page held
when it was protected) and `spoiled` (pages the code lets down, one disjunct for
each way) are history. Every system call that can fail may fail, up to
`MaxFailures`.

**ActivePool.** A step is a stretch under the recursive mutex `m_monitor`, up to
a wait on one of the two condition variables. `m_queues` and
`m_schedulable_queues` are the two containers of `active_scheduler`; a queue is
named by its object. `napping` and `asleep` are the threads inside the condition
variables; `notify_one` wakes any one of the first. `disturbed` and `broken`
mark a `clear` during a task, after which `requeue` uses `end()`; the model
stops at the use.

## The runs

| run | instance | states | shows |
|---|---|---|---|
| `mutex` | 3 threads, 3 mutexes, 2 polls, nesting of the daemon | 353 000 | table, order, waiting, refinement of `TimedLock`, every attempt ends |
| `daemon_safety` | 2 connections, 2 requests each, set/get/rm/junk of one value, waits of any length, SIGTERM | 2.4 million | refinement of `ConfigStore`, accounting of load and lock |
| `daemon_live` | 2 connections, 1 request each, junk, failing backend, no room for answers, time in ticks | 254 000 | handlers of closed connections end |
| `notif` | 2 handlers, names of 1 and 9 bytes, 4 changes, pipe of 40 bytes, SIGTERM | 4.6 million | no loss before the pipe is full, order and multiplicity after it, in step again after a wait, every change is dispatched, with the exceptions the code has |
| `sigpipe` | 3 signals, 5 raised | 57 000 | wake-up, no failed assertion, every caught signal is reported |
| `fd_leaks` | 3 connections, 3 numbers | 6 000 | nothing is left open, no number is known twice |
| `fs_races` | 2 processes, 2 names one below the other, 4 operations, 1 kill, full disk | 4.0 million | what was set is found, one writer shows no mixtures, aborts only in races |
| `uffd` | 2 callers, 2 dumps, 1 writer, 5 pages in 4 regions, an arena from before or not, 1 failure, Shutdown | 8.0 million | the core is the image of the moment of protection, callers get their own results, the engine is wedged by its arena only |
| `uffd_live` | 1 caller, 1 dump, 1 writer, same memory, 1 failure, Shutdown | 245 000 | writes land, Trigger and Shutdown return, with the exceptions the code has |
| `pool` | 2 objects, 2 workers, 1 waiting client, all shutdown policies, 3 tasks, 2 resizes, 1 clear, 1 dying worker | 300 000 | refinement of `ActiveObjects`, counts, idle means done, tasks run, waits return, the pool shrinks |
| `daemon_wrong_answer` | 2 connections, idle machine | violation | a late answer is taken for the answer to the next request |
| `uffd_wedged` | 1 caller, up to 2 dumps, default options | violation | dumper and monitor sleep on pages of their own and no writer is released |

Bounds, and why they are enough to matter. Three threads are the fewest with
which a stale entry can be cleared by one thread, written by another and read
by a third. Two requests on a connection are what a late answer needs to be
mistaken. `MaxConnexions = 0` lets one connection in, refuses others, and, the
test being unlocked, lets two in. A pipe of 40 bytes holds one
record, of 26 or 34 bytes, and part of another, so that each field is at some time the
one that does not fit; the longer name is ten bytes with its zero, just what makes
half a length come before the next one, and the layer is spelled like the
shorter name, so that one could be taken for the other. Four changes are a record, a
stump, and two more, which the reader loses or reads after a wait.
Where time counts, `LockTout = 2` and
`SockTout = 1` is the ratio of `MUTEX_LOCK_TOUT` to `CGFS_SOCK_TOUT`;
`daemon_safety` lets time run freely, which includes every ratio. `SndBuf` is
how many answers fit a socket: none in `daemon_live`, so that a client that
stopped reading blocks its handler at once, one in `daemon_safety`.
`MaxTermChanges = 2` lets a SIGTERM arrive while the first or second record is
written or waits; later ones meet the same states. Four operations in `FsBackend` allow a
value to be created, changed and removed while another process reads it; the
long content of three cells can be cut, overwritten by the short one, and
mixed with it. `fs_races` uses lists of one entry, which is what the daemon
passes on. The memory of `uffd` has a region of each kind that the code tells
apart: an arena, which is there from the start or from some allocation on, the stacks of
the two threads, that of the dumper below that of the monitor as a fresh process maps them, a buffer of two pages (the second is protected or copied while the first
is already done), each size on its side of the two values of
`min_wp_region_bytes`. Two callers and two dumps are what a stray tick of
`done_evt` and a fault carried into the next dump need; with one write each page
can be hit at any one moment of a dump. In `pool`, three tasks let one object
have a task executed, one waiting, and the other object one between them; two
workers and two resizes are the fewest with which the pool falls short.

Deadlock is not checked where a system may come to rest (all clients gone, the
process aborted, the bounds used up).

Fairness. A thread in a mutex call polls and is scheduled again
(`OrderedMutex`); handlers run and time passes, clients, SIGTERM and a failing
backend do as they please (`Daemon`); the dispatcher and the handlers that
write run, changes and signals come or not (`Notifications`); a program that has
called `cfgs_sigpipe_start` runs its loop and the kernel delivers pending
signals (`SigPipe`); the threads of the engine run when they are not asleep on a
fault, a caller comes back from poll and read, a write that slept is tried again
(`UffdDump`, where nobody has to call Trigger or Shutdown and new writes need not
come); workers and waiting threads get the mutex again and again and a task ends,
while nobody has to schedule, resize or clear (`ActivePool`). All of it is weak fairness of threads that are never
blocked for good by the model's own guards.

## What is proved

For all values of the constants allowed by the `ASSUME`s of the modules; where a
theorem needs more, the hypothesis has a name and stands in its statement:

* `OrderedMutex_proofs`. `Typing`; then `RecordSound` together with
  *Accounting* (a thread between trylock and the entry holds the mutex) is
  inductive, for any nesting: `RecordSoundness`. Under `Ascending` (callers nest
  upwards, as `ConfigdNesting` does) `LocksAscend` and `NoFalseAlarm` are
  inductive relative to it: a false alarm would need an entry for a mutex the
  thread no longer holds, and the only such entries are those of a thread inside
  `cfgs_mutex_unlock`. `NoDeadlock` follows from `LocksAscend`: among the mutexes
  a set of threads waits for there is a greatest, and its holder would wait for a
  greater one. `Refinement` maps every step to one of `TimedLock` or a stutter.
* `Daemon_proofs`. Every step of the daemon moves one handler within or outside
  the stretch in which it holds the backends, takes or releases them, counts it
  on or off, or ends the process (`StepKinds`). From that, `LockMatchesHandler` is
  inductive with the types of the variables it speaks of, and so is `LoadIsCounted`
  (with the cardinality of the set of counted handlers); that no two handlers
  work on requests at once follows. `DaemonTyping` needs more than `TypeOK`: what a
  handler has in hand at each place, and what is on the wires.
  `DaemonStores`: if backends do not fail, the daemon implements `ConfigStore`. Under way a value is torn and the request has not
  happened yet, so the mapping shows the value the handler at work has found; the
  invariant of the mapping (`MapInv`) says that this handler, one by
  `OneHandlerWorks`, knows it, and that a client that has hung up has no answers.
  Then `Processed` is the moment at which a request happens, giving up, hanging up
  and sending to a closed client are breaks, the two ends of the process are
  shutdowns, and everything else is a stutter.
* `SigPipe_proofs`. The invariant relates the set, the count, the byte in the
  pipe and the place where handler and program are between updating them; from
  it `NoSignalIsSleptThrough` and `HandlerNeverFails`. `WakesForSignals` alone is
  not inductive: it says nothing of the program while it is inside
  `cfgs_sigpipe_caught`.
* `UffdDump_proofs`. The invariant has six parts: types; what is left of the loops;
  whose call a dump belongs to (`CallInv`, which gives `AnswersAreOwn`); which pages
  are protected and who sleeps on them (`ProtInv`); that what is protected has its
  contents recorded (`FrozenInv`); and, page by page, who may still touch the core
  (`PageInv`): a page that is not spoiled is unchanged until it has been copied by
  whoever won its claim. `CoreIsImage` follows when the loops are empty.
  `ImageIsFrozen` alone says nothing while a dump runs. `WedgeOnlyByArena` proves
  `WedgedOnlyByArena`, for any layout, any arena and every dump: if the stack of the dumper
  lies below that of the monitor, then before Shutdown the two sleep on each other only at
  the allocation of the headers, with the dumper asleep on its arena. Pages are protected in
  the order of their addresses, so that by the time the monitor's stack is
  protected, the dumper has touched, and the monitor released, the dumper's own
  (`StackInv`); and the dumper sleeps on its arena only where it allocates (`SleepInv`).
  The order of the stacks is part of the property and not of the assumptions: `Arm`
  creates the monitor first (`uffd_coredump.cpp:631`) and new stacks are mapped
  downwards, but the thread library may give a thread the stack of one that has ended,
  and the other way round a dump can wedge without the arena.
* `ActivePool_proofs`. A queue is in line at most once and only with a task
  (`LineInv`); unless a `clear` has disturbed it, a queue with tasks is in line, or
  executed by exactly one worker, or behind a dead task (`CalmInv`). With the counts
  as cardinalities (`CountsAreRight`) this gives `WaitMeansDone`, and the
  refinement `PoolImplements`: a queue that is executed is not in line, so nobody
  else can take it.
* `Descriptors_proofs`. `NumbersAreKnown` with the file and connection of a
  handler tied to its place in the code is inductive although `Closes` may hit a
  number that has been given away; `NothingLeaks` follows.
* `FsBackend_proofs`. For any lists: `FilesInv` says what a process has in hand at
  each place of an operation, that a file has one name at most, and that an operation
  that is `sure` is alone with its value and finds the file as it left it; it is
  inductive and gives `FsTyping` and `FsAbortsInRacesOnly`. For lists of one entry
  (`OneEntryLists`, which is what the daemon passes): `SingleInv` adds that a writer has
  written the part of its text that precedes what is left, that what is
  settled shows the last change, and that a file nobody shared is the text of one
  writer, perhaps cut short; it gives `FsFindsWhatWasSet` and `FsOneWriterNoMixture`. With
  more entries both fail, for each entry is stored with the text of the whole list.
  What the library's fold makes of a sequence is bounded by looking at the least
  place where it would go wrong, in place of an induction.
* `Notifications_proofs`. `NotifInv`: types, and a handler that writes holds the queue
  mutex and has the end of the last change's record still to write. `OrderInv` adds to
  the bytes what they do not show: a function `at` that gives each byte of the pipe, and
  the byte read last, a *place*, the record, field and offset it was written for (`Laid`).
  Places ascend along the pipe and a field lies in one piece, because it was written in
  one. A mark, the last change dispatched, has the place of the reader at or behind its
  name, and a name that was read and not yet dispatched belongs to a change behind the
  mark (`ReadName`). What keeps this true is that a dispatcher out of step cannot
  take anything else for a name: "<" and "%" follow each other in tags only, so that what
  has matched a start tag, if only the end of one and the beginning of another, has
  read a start tag and stands before a total length (`OnStart`, `OnTlen`); two bytes from
  there that come to no more than `FILENAME_MAX` end at the length of a name, or half
  of it (`VlenPlace`, `OnVlen`); and what follows begins with a printable character only
  if it is that name as a whole (`NamePlace`). `NotifDispatchedInOrder` follows
  for whatever is cut short. The second half of the invariant (`WriterAt`, `ReaderAt`, `InPlace`)
  is about the time from the last wait to the next loss: what is written follows the records
  without a gap and the dispatcher is, byte by byte, in the record after those it has
  dispatched. A wait starts such a time afresh, since then no byte is left to be out of step
  with, which gives `NotifInStepAgain`; the time from the start is one, which gives
  `NotifNothingLost`. The properties alone say nothing of what is in the pipe, so none
  is inductive. What is used of names and layers is in `ConstantsAssumption`: no control
  characters, no "<", no space (which is the byte of `sigterm_handler`), at most
  `FILENAME_MAX` bytes with the zero.

Every safety property of a passing run is stated by a theorem. `StoreSpec`
without the assumption on backends is not claimed, for it does not hold: the count
after a failed try is one too small.
All liveness properties (`LockReturns`, `HandlerEnds`, `ChangesAreDispatched`,
`CaughtIsReported`, `WritesLand`, `TriggerReturns`, `ShutdownReturns`, `TasksRun`,
`WaitReturns`, `PoolShrinks`) are out of the prover's reach.

## Where code and documentation part

Two runs end in a counterexample; `PROJECT.json` quotes the lines. `cfgsp_send_rq`
cannot tell whose answer it reads (`daemon_wrong_answer`). The engine of the core
dump protects its own stacks and its arena: in every dump in which the dumper has an
arena when `maps` is read, at the latest when it has read `maps` before, dumper and
monitor can sleep on their own pages, and with them every writer (`uffd_wedged`),
against the README's "Deadlock-free under write pressure".

Other observations are part of the models and not of a run of their own.

LinCS:
* `lock_backends` asserts that it got the lock; four silent clients falsify it and
  end the daemon (`LockTimeout`).
* `report_error` and `EXIT_HPR` close the same number; in between it may be
  another handler's (`Descriptors`).
* `cs_setentry` writes the whole list to the file of each entry (`Writes`).
* `inc_conn_num` lets in more than `CGFS_MAX_CONNEXIONS`; the comment says the limit
  is loose.
* A dispatcher that starts before `start_server` has set `run_flag` ends at once.

Core dump (`uffd_coredump.cpp`):
* A page that no physical memory backs is not protected, and is copied with what
  it holds when its turn comes.
* The monitor does not look at the result of `dump_one_page` (line 521): a page whose
  write fails there is lost while the dump is still reported Ok.
* A Shutdown during a call can leave the caller waiting for good (`TriggerReturns`
  has the exception), and one during a dump can wedge the engine.

Thread pool:
* Several workers see the same surplus and leave: a resize from two workers to one
  can leave none (`Short`).
* `clear` during a task makes `requeue` use `end()` (`broken`).
* `terminate_all_workers` joins only workers that have counted themselves off.
* `wait` with a threshold compares the number of queues, not of tasks, and is not
  told between two tasks of a worker.
* The `resize(m_worker_count + 1)` of a dying worker overrides a resize that is
  still under way; the object whose task died is never served again (`dead`).
* The fifo, lifo and prio schedulers no longer compile with the modified pool.

## Not modelled

Daemonisation, the stacker, the containers, searching by pattern and the bytes of a
message are left for the plan below. The open() emulation and the command line
clients are argument handling and I/O around the client library. The Turbo Vision front end, expat and
the antlr parser are other projects' code kept in this repository; of expat,
`Parses` has what the backend relies on. The samples keep no state across calls.
Exceptions inside modelled components: the exit of a registered client and the
reuse of its pid (`Notifications`); arming again after Shutdown, memory mapped
during a dump and the layout of the ELF file (`UffdDump`); the schedulers and
adaptors of the original pool (`ActivePool`).

## Plan

What is left, in this order; each with its runs.

1. `SingleInstance`: `cfgs_run_daemon`, fork, the semaphore and its exit handler.
   After a fork the parent's exit removes the semaphore and the daemon runs on
   without it; the configuration daemon does not use the feature.
2. `FsSearch`: searching by pattern (`fs_search_regexp`), `getsubvals`, names
   without a leading separator; checked against a set of matching names.
3. `Backends`: the stacker and the handlers over several backends, with
   failures, counts and `cfgs_connect`'s choice of daemon or own backend,
   composing `Daemon` and `FsBackend` by their interfaces.
4. `HttpFraming`: `buf_read_upto`, `read_header`, `read_body` over a byte stream
   that arrives in pieces, checked against the messages sent.
5. `Containers`: list and hash table as operators against sequences and
   functions.
6. Proofs of the safety of the modules above.
