----------------------------- MODULE Notifications -----------------------------
(***************************************************************************)
(* The notification mechanism of daemon/cfgs_configd.c.  A handler that    *)
(* has changed a value writes a record into a pipe whose writing end does  *)
(* not block; one thread, notif_dispatcher, reads the records and signals  *)
(* the clients that registered for the value.  A record is written field   *)
(* by field, so a full pipe leaves part of one, and the reader finds its   *)
(* way back by looking for the next start tag.                             *)
(*                                                                         *)
(* The pipe holds bytes.  A length is a short of two, the low one first; a *)
(* name and a layer end with a zero byte; the tags are "<%start%>" and     *)
(* "<%end%>".  What a byte was written for cannot be told from the byte:   *)
(* out of step, the reader takes what it finds for tags, lengths or names. *)
(***************************************************************************)
EXTENDS Integers, FiniteSets, Sequences, SequencesExt, FiniteSetsExt

CONSTANTS
  Handlers,      \* threads that call queue_notification
  Nobody,        \* nobody holds m_notif_queue_mutex
  Clients,       \* clients that may register for notifications
  Names,         \* names of values that change
  Spelling,      \* Spelling[n]: the characters of the name n
  LayerSpelling, \* the characters of the layer
  Interest,      \* Interest[c]: the names the pattern of client c matches
  Garbage,       \* a string that is none of the names
  AnyPattern,    \* clients whose pattern matches every string
  PipeCap,       \* capacity of the pipe in bytes
  MaxChanges,    \* bound: changes announced
  MaxTermChanges \* bound: changes announced when a SIGTERM arrives, and after it

\* A name and a layer are written in one piece: at most PIPE_BUF bytes, which is
\* FILENAME_MAX.  They have neither control characters nor "<" nor a space.
FILENAME_MAX == 4096
Byte == 0 .. 255
Printable == (33 .. 255) \ {60}

ASSUME ConstantsAssumption ==
  /\ Nobody \notin Handlers
  /\ Garbage \notin Names
  /\ Spelling \in [Names -> Seq(Printable)]
  /\ \A m, n \in Names : Spelling[m] = Spelling[n] => m = n
  /\ \A n \in Names : Len(Spelling[n]) \in 1 .. FILENAME_MAX - 1
  /\ LayerSpelling \in Seq(Printable) /\ Len(LayerSpelling) < FILENAME_MAX
  /\ Interest \in [Clients -> SUBSET Names]
  /\ AnyPattern \subseteq Clients
  /\ PipeCap \in Nat /\ MaxChanges \in Nat /\ MaxTermChanges \in Nat

VARIABLES
  main,        \* how far csconfigd has come
  runFlag,     \* m_http_local_srv.run_flag
  term,        \* how far sigterm_handler has come
  disp,        \* where the dispatcher is
  matched,     \* how many characters of a tag it has found
  need,        \* the length it has just read
  valname,     \* the name it has just read
  pipe,        \* the bytes in m_notif_queue
  queueHolder, \* the handler that holds m_notif_queue_mutex
  todo,        \* todo[h]: the fields h has still to write
  regs,        \* the clients in m_notif_requests
  announced,   \* the changes queue_notification was called for, in order
  dispatched,  \* the names passed to send_notifications, in order
  truncated,   \* how many records were cut short because the pipe was full
  since,       \* the lengths and the count above when a change was last announced
               \* to a dispatcher that was waiting for one
  signals      \* signals[c]: the names for which c was sent a signal

daemon == <<main, runFlag, term>>
reader == <<disp, matched, need, valname>>
writers == <<queueHolder, todo>>
history == <<announced, dispatched, truncated, since, signals>>
vars == <<daemon, reader, pipe, writers, regs, history>>

Short(k) == <<k % 256, k \div 256>>
start_rec == <<60, 37, 115, 116, 97, 114, 116, 37, 62>>
end_rec == <<60, 37, 101, 110, 100, 37, 62>>
Text(n) == Append(Spelling[n], 0)
Layer == Append(LayerSpelling, 0)

\* Mutant: the end of the record is left out.
FieldsWithoutEnd(n) ==
  << start_rec, Short(2 + Len(Text(n)) + 2 + Len(Layer)), Short(Len(Text(n))), Text(n),
     Short(Len(Layer)), Layer >>

\* The fields of a record, in the order in which they are written.  The total
\* length is written but never used; it counts everything after itself.
Fields(n) ==
  << start_rec,
     Short(2 + Len(Text(n)) + 2 + Len(Layer) + Len(end_rec)),
     Short(Len(Text(n))), Text(n),
     Short(Len(Layer)), Layer,
     end_rec >>

\* The string in a buffer that was cleared before the text was read into it.
CString(text) ==
  LET zeros == {i \in DOMAIN text : text[i] = 0}
  IN IF zeros = {} THEN text ELSE SubSeq(text, 1, Min(zeros) - 1)

NameOf(text) ==
  IF \E n \in Names : Spelling[n] = CString(text)
  THEN CHOOSE n \in Names : Spelling[n] = CString(text)
  ELSE Garbage

Init ==
  /\ main = "init" /\ runFlag = FALSE /\ term = "none"
  /\ disp = "none" /\ matched = 0 /\ need = 0 /\ valname = <<>>
  /\ pipe = <<>>
  /\ queueHolder = Nobody
  /\ todo = [h \in Handlers |-> <<>>]
  /\ regs = {}
  /\ announced = <<>> /\ dispatched = <<>> /\ truncated = 0
  /\ since = [announced |-> 0, dispatched |-> 0, truncated |-> 0]
  /\ signals = [c \in Clients |-> <<>>]

Alive == main # "down"

-----------------------------------------------------------------------------
\* csconfigd: first the dispatcher, then the server.

\* start_notifications_mechanism: the pipe is open, the thread created.
StartNotifications ==
  /\ main = "init"
  /\ main' = "started"
  /\ disp' = "test"
  /\ UNCHANGED <<runFlag, term, matched, need, valname, pipe, writers, regs, history>>

\* start_server sets run_flag and enters cfgst_start_server.
StartServer ==
  /\ main = "started"
  /\ main' = "serving"
  /\ runFlag' = TRUE
  /\ UNCHANGED <<term, reader, pipe, writers, regs, history>>

\* The server cannot start, or accept fails: csconfigd returns.
ServerFails ==
  /\ main = "serving"
  /\ main' = "down"
  /\ runFlag' = FALSE
  /\ UNCHANGED <<term, reader, pipe, writers, regs, history>>

\* sigterm_handler: clear run_flag, ...
SigtermFlag ==
  /\ Len(announced) <= MaxTermChanges
  /\ Alive /\ main # "init"
  /\ term = "none"
  /\ runFlag' = FALSE
  /\ term' = "flag"
  /\ UNCHANGED <<main, reader, pipe, writers, regs, history>>

\* ... write a byte to unblock the dispatcher, whoever is writing a record, ...
SigtermUnblock ==
  /\ Alive
  /\ term = "flag"
  /\ pipe' = IF Len(pipe) < PipeCap THEN Append(pipe, 32) ELSE pipe
  /\ term' = "unblock"
  /\ UNCHANGED <<main, runFlag, reader, writers, regs, history>>

\* ... and _exit.
SigtermExit ==
  /\ Alive
  /\ term = "unblock"
  /\ main' = "down"
  /\ UNCHANGED <<runFlag, term, reader, pipe, writers, regs, history>>

-----------------------------------------------------------------------------
\* The handlers.

\* add_notif appends to m_notif_requests, under m_notif_list_mutex.
AddNotif(c) ==
  /\ main = "serving"
  /\ c \notin regs
  /\ regs' = regs \cup {c}
  /\ UNCHANGED <<daemon, reader, pipe, writers, history>>

\* The dispatcher waits for a record, and none is under way.
Waiting ==
  /\ disp \in {"test", "seek start"}
  /\ pipe = <<>>
  /\ \A h \in Handlers : todo[h] = <<>>

\* queue_notification takes m_notif_queue_mutex.
QueueNotification(h, n) ==
  /\ main = "serving"
  /\ queueHolder = Nobody
  /\ Len(announced) < (IF term = "none" THEN MaxChanges ELSE MaxTermChanges)
  /\ queueHolder' = h
  /\ todo' = [todo EXCEPT ![h] = Fields(n)]
  /\ announced' = Append(announced, n)
  /\ since' = IF Waiting
              THEN [announced |-> Len(announced), dispatched |-> Len(dispatched),
                    truncated |-> truncated]
              ELSE since
  /\ UNCHANGED <<daemon, reader, pipe, regs, dispatched, truncated, signals>>

\* Mutant: fields are written whether they fit or not.
WriteBeyond(h) ==
  /\ Alive
  /\ todo[h] # <<>>
  /\ pipe' = pipe \o Head(todo[h])
  /\ todo' = [todo EXCEPT ![h] = Tail(@)]
  /\ UNCHANGED <<daemon, reader, queueHolder, regs, history>>

\* queue_change_notif writes the next field.  A write of at most PIPE_BUF bytes
\* into a pipe that does not block is done completely or not at all; if not,
\* the rest of the record is not written.
WriteField(h) ==
  /\ Alive
  /\ todo[h] # <<>>
  /\ IF Len(pipe) + Len(Head(todo[h])) <= PipeCap
     THEN /\ pipe' = pipe \o Head(todo[h])
          /\ todo' = [todo EXCEPT ![h] = Tail(@)]
          /\ UNCHANGED truncated
     ELSE /\ truncated' = truncated + 1
          /\ todo' = [todo EXCEPT ![h] = <<>>]
          /\ UNCHANGED pipe
  /\ UNCHANGED <<daemon, reader, queueHolder, regs, announced, dispatched, since, signals>>

\* queue_notification lets go of the mutex.
Queued(h) ==
  /\ Alive
  /\ queueHolder = h
  /\ todo[h] = <<>>
  /\ queueHolder' = Nobody
  /\ UNCHANGED <<daemon, reader, pipe, todo, regs, history>>

-----------------------------------------------------------------------------
\* The dispatcher.  Wherever read_change_notif returns -1 it starts again.

DispAt(label) == Alive /\ disp = label

\* The condition of its loop.
TestRunFlag ==
  /\ DispAt("test")
  /\ disp' = IF runFlag THEN "seek start" ELSE "exited"
  /\ UNCHANGED <<daemon, matched, need, valname, pipe, writers, regs, history>>

\* read_tag skips everything up to the first character of the tag ...
SeekTag(label, tag, match) ==
  /\ DispAt(label)
  /\ pipe # <<>>
  /\ pipe' = Tail(pipe)
  /\ IF Head(pipe) = tag[1]
     THEN disp' = match /\ matched' = 1
     ELSE UNCHANGED <<disp, matched>>
  /\ UNCHANGED <<daemon, need, valname, writers, regs, history>>

\* ... and then wants the others; the one that differs is gone, too.
MatchTag(label, tag, next) ==
  /\ DispAt(label)
  /\ pipe # <<>>
  /\ pipe' = Tail(pipe)
  /\ IF Head(pipe) = tag[matched + 1] /\ matched + 1 < Len(tag)
     THEN matched' = matched + 1 /\ UNCHANGED disp
     ELSE /\ matched' = 0
          /\ disp' = IF Head(pipe) = tag[matched + 1] THEN next ELSE "test"
  /\ UNCHANGED <<daemon, need, valname, writers, regs, history>>

\* Mutant: the read takes whatever the pipe holds.
TakeAll(k) == pipe' = <<>>

\* full_read: one call of read, which takes what is there, up to k bytes.
Take(k) == pipe' = SubSeq(pipe, Min({k, Len(pipe)}) + 1, Len(pipe))

\* The total length: read, and not looked at.
ReadTlen ==
  /\ DispAt("tlen")
  /\ pipe # <<>>
  /\ Take(2)
  /\ disp' = IF Len(pipe) >= 2 THEN "vlen" ELSE "test"
  /\ UNCHANGED <<daemon, matched, need, valname, writers, regs, history>>

\* A length, of whatever two bytes come next: refused when larger than FILENAME_MAX.
ReadLength(label, next) ==
  /\ DispAt(label)
  /\ pipe # <<>>
  /\ Take(2)
  /\ IF Len(pipe) >= 2 /\ pipe[1] + 256 * pipe[2] <= FILENAME_MAX
     THEN disp' = next /\ need' = pipe[1] + 256 * pipe[2]
     ELSE disp' = "test" /\ UNCHANGED need
  /\ UNCHANGED <<daemon, matched, valname, writers, regs, history>>

\* Mutant: the layer is read into the buffer of the name.
ReadTextOneBuffer(label, next) ==
  /\ DispAt(label)
  /\ pipe # <<>> \/ need = 0
  /\ Take(need)
  /\ disp' = IF Len(pipe) >= need THEN next ELSE "test"
  /\ valname' = SubSeq(pipe, 1, Min({need, Len(pipe)}))
  /\ UNCHANGED <<daemon, matched, need, writers, regs, history>>

\* A text; a read of no bytes returns at once.
ReadText(label, next) ==
  /\ DispAt(label)
  /\ pipe # <<>> \/ need = 0
  /\ Take(need)
  /\ disp' = IF Len(pipe) >= need THEN next ELSE "test"
  /\ valname' = IF label = "name" THEN SubSeq(pipe, 1, Min({need, Len(pipe)})) ELSE valname
  /\ UNCHANGED <<daemon, matched, need, writers, regs, history>>

\* The clients whose pattern matches a name.
Matching(n) == {c \in regs : n \in Interest[c] \/ c \in AnyPattern}

\* send_notifications, under m_notif_list_mutex: one signal per registration.
SendNotifications ==
  /\ DispAt("send")
  /\ LET n == NameOf(valname)
     IN /\ dispatched' = Append(dispatched, n)
        /\ signals' = [c \in Clients |->
                         signals[c] \o IF c \in Matching(n) THEN <<n>> ELSE <<>>]
  /\ disp' = "test"
  /\ UNCHANGED <<daemon, matched, need, valname, pipe, writers, regs, announced, truncated,
                 since>>

Dispatcher ==
  \/ TestRunFlag
  \/ SeekTag("seek start", start_rec, "start")
  \/ MatchTag("start", start_rec, "tlen")
  \/ ReadTlen
  \/ ReadLength("vlen", "name")
  \/ ReadText("name", "llen")
  \/ ReadLength("llen", "layer")
  \/ ReadText("layer", "seek end")
  \/ SeekTag("seek end", end_rec, "end")
  \/ MatchTag("end", end_rec, "send")
  \/ SendNotifications

Main == StartNotifications \/ StartServer \/ ServerFails
SignalThread == SigtermFlag \/ SigtermUnblock \/ SigtermExit
Writing(h) == WriteField(h) \/ Queued(h)

Next ==
  \/ Main
  \/ SignalThread
  \/ Dispatcher
  \/ \E h \in Handlers : Writing(h) \/ \E n \in Names : QueueNotification(h, n)
  \/ \E c \in Clients : AddNotif(c)

Spec == Init /\ [][Next]_vars

\* The dispatcher and the handlers run.
FairSpec ==
  /\ Spec
  /\ WF_vars(Dispatcher)
  /\ \A h \in Handlers : WF_vars(Writing(h))

-----------------------------------------------------------------------------
TypeOK ==
  /\ main \in {"init", "started", "serving", "down"}
  /\ runFlag \in BOOLEAN
  /\ term \in {"none", "flag", "unblock"}
  /\ disp \in {"none", "test", "seek start", "start", "tlen", "vlen", "name", "llen",
               "layer", "seek end", "end", "send", "exited"}
  /\ matched \in 0 .. 8
  /\ need \in 0 .. FILENAME_MAX
  /\ valname \in Seq(Byte)
  /\ pipe \in Seq(Byte) /\ Len(pipe) <= PipeCap
  /\ queueHolder \in Handlers \cup {Nobody}
  /\ todo \in [Handlers -> Seq(Seq(Byte))]
  /\ regs \subseteq Clients
  /\ announced \in Seq(Names)
  /\ dispatched \in Seq(Names \cup {Garbage})
  /\ truncated \in 0 .. Len(announced)
  /\ since \in [announced : 0 .. Len(announced), dispatched : 0 .. Len(dispatched),
                truncated : 0 .. truncated]
  /\ signals \in [Clients -> Seq(Names \cup {Garbage})]

\* The elements of s at the places I are, one for one and in order, the elements
\* of t at some of the places J.
InOrder(s, I, t, J) ==
  \E f \in [I -> J] :
    /\ \A i, j \in I : i < j => f[i] < f[j]
    /\ \A i \in I : s[i] = t[f[i]]

\* As long as the pipe has never been full and no SIGTERM has arrived, the
\* dispatcher reads exactly the records that were written, in their order,
\* however the writes of the handlers and its own reads interleave.
NothingLostBeforeFull ==
  truncated = 0 /\ term \in {"none", "flag"} => IsPrefix(dispatched, announced)

\* The dispatcher finds its way back: once it has waited with nothing under way, it
\* reads exactly the records written since, in their order, until another one is cut
\* short or a SIGTERM arrives, whatever it has lost and misread before.
NothingLostInStep ==
  truncated = since.truncated /\ term \in {"none", "flag"} =>
    IsPrefix(SubSeq(dispatched, since.dispatched + 1, Len(dispatched)),
             SubSeq(announced, since.announced + 1, Len(announced)))

\* Even after records were cut short, a change is dispatched at most once and
\* changes are dispatched in the order in which they were made.  A client is
\* signalled for changes of names that its pattern matches, each at most once
\* and in order, and for nothing else, also when a name is put together from
\* pieces of records.
DispatchedInOrder ==
  /\ InOrder(dispatched, {i \in DOMAIN dispatched : dispatched[i] # Garbage},
             announced, DOMAIN announced)
  /\ \A c \in Clients \ AnyPattern :
       InOrder(signals[c], DOMAIN signals[c],
               announced, {k \in DOMAIN announced : announced[k] \in Interest[c]})

\* While the dispatcher is in its loop every change gets dispatched, unless the
\* pipe overflows or the daemon goes down: no record is left waiting for good, and
\* the dispatcher catches up with the handlers again and again.
ChangesAreDispatched ==
  []<>(\/ Len(dispatched) >= Len(announced)
       \/ truncated > 0
       \/ term # "none" \/ ~Alive \/ disp = "exited")

=============================================================================
