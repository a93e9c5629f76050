------------------------------ MODULE FsBackend ------------------------------
(***************************************************************************)
(* The file system backend, backends/cfgs_fs_bk: the value named a.b is    *)
(* kept in a file VALUES of the directory a/b, as XML text.                *)
(*                                                                         *)
(* The daemon is one process that works on the files; a client that could  *)
(* not reach the daemon when it connected loads the backend itself and is  *)
(* another.  No lock is common to the two, so one step here is one call of *)
(* the operating system, and processes may be killed between two of them.  *)
(*                                                                         *)
(* A file is a sequence of cells: the tag of an entry takes Size[val] of   *)
(* them, the end of line after it one.  Only a tag whose last cell is      *)
(* there is complete for the parser.                                       *)
(***************************************************************************)
EXTENDS Integers, Sequences, FiniteSets, SequencesExt

CONSTANTS
  Procs,       \* the daemon and the clients that work without it
  Names,       \* names of values, as sequences of segments
  Values,      \* contents of values
  Size,        \* Size[v]: cells of the tag of an entry with value v
  Lists,       \* the lists of entries cfgs_setval is called with
  MaxOps,      \* bound: operations of all processes together
  MaxCrashes,  \* bound: processes killed in an operation
  DiskMayFill  \* whether the disk may be full

ASSUME BoundsAssumption == MaxOps \in Nat /\ MaxCrashes \in Nat
ASSUME SizeAssumption == Size \in [Values -> Nat \ {0}]
ASSUME NamesAssumption == Names \subseteq Seq(STRING) \ {<<>>}

Entries == [name : Names, val : Values]

\* cs_setentry refuses a NULL list.
ASSUME ListsAssumption == Lists \subseteq Seq(Entries) \ {<<>>}

Ops == [op : {"get", "rm"}, name : Names] \cup [op : {"set"}, list : Lists]

\* What cfgs_getval may return but for entries: NULL, or an entry whose value
\* is made of pieces of what several processes wrote.
Null == [name |-> <<>>]
Garbled == [name |-> <<>>, val |-> "?"]

NoOp == [op |-> "none"]
Eol == [eol |-> TRUE]
Hole == [hole |-> TRUE]   \* bytes nobody wrote, before the end of the file

VARIABLES
  dirs,     \* the directories, as sequences of segments
  link,     \* link[n]: the file VALUES of name n, 0 if there is none
  data,     \* data[i]: the contents of file i
  pc,       \* pc[p]: the next call of the operating system, or "idle", "dead"
  op,       \* op[p]: the operation p is in
  todo,     \* todo[p]: entries of the list still to store
  seg,      \* seg[p]: length of the path fs_search_exact has checked
  ino,      \* ino[p]: the file p has open
  pos,      \* pos[p]: the offset to write at, or the size found by fstat
  out,      \* out[p]: what p has still to write
  got,      \* got[p]: what the last get of p has returned
  ops, crashes,
  \* History: what the properties compare with.
  last,     \* last[n]: what the last change of n that ended has left, or Null
  settled,  \* the names with no change of their file since that one
  sure,     \* sure[p]: no other operation came in between, no write fell short
  shared    \* files that two processes have had open for writing at once

files == <<dirs, link, data>>
work == <<op, todo, seg, ino, pos, out, got, ops>>
history == <<last, settled, sure, shared>>
vars == <<files, pc, work, crashes, history>>

Init ==
  /\ dirs = {<<>>}
  /\ link = [n \in Names |-> 0]
  /\ data = <<>>
  /\ pc = [p \in Procs |-> "idle"]
  /\ op = [p \in Procs |-> NoOp]
  /\ todo = [p \in Procs |-> <<>>]
  /\ seg = [p \in Procs |-> 0]
  /\ ino = [p \in Procs |-> 0]
  /\ pos = [p \in Procs |-> 0]
  /\ out = [p \in Procs |-> <<>>]
  /\ got = [p \in Procs |-> Null]
  /\ ops = 0
  /\ crashes = 0
  /\ last = [n \in Names |-> Null]
  /\ settled = Names
  /\ sure = [p \in Procs |-> TRUE]
  /\ shared = {}

-----------------------------------------------------------------------------
\* The text of values.

Tag(e) == [i \in 1 .. Size[e.val] |-> [entry |-> e, at |-> i]]

\* cfgs_tags_write: each entry is written together with all that follow it
\* (cfgs_tags_to_cfgs_buf walks the list), then an end of line.
Writes(list) ==
  FlattenSeq([k \in 1 .. Len(list) |->
    <<FlattenSeq([j \in 1 .. Len(list) - k + 1 |-> Tag(list[k + j - 1])]), <<Eol>>>>])

\* write at an offset, into a file that may be shorter by now; to write nothing
\* leaves it as short.
Overlay(file, offset, cells) ==
  LET end == offset + Len(cells)
      length == IF cells # <<>> /\ end > Len(file) THEN end ELSE Len(file)
  IN  [i \in 1 .. length |->
         IF i \in offset + 1 .. end THEN cells[i - offset]
         ELSE IF i <= Len(file) THEN file[i] ELSE Hole]

IsTag(cell) == cell \in [entry : Entries, at : Nat]

\* cfgs_tags_from_str: the parser delivers the first tag, after blanks, and stops
\* at what follows it.  A tag with other text inside may be taken or refused.
Parses(text) ==
  LET ends == {i \in DOMAIN text : IsTag(text[i]) /\ text[i].at = Size[text[i].entry.val]}
      begins == {i \in DOMAIN text : \A j \in 1 .. i - 1 : text[j] = Eol}
      first == {i \in begins : IsTag(text[i]) /\ text[i].at = 1}
  IN  IF first = {} \/ ends = {} THEN {Null}
      ELSE LET b == CHOOSE i \in first : TRUE
               e == CHOOSE i \in ends : \A j \in ends : i <= j
           IN  IF SubSeq(text, b, e) = Tag(text[b].entry) THEN {text[b].entry}
               ELSE {Garbled, Null}

-----------------------------------------------------------------------------
\* The operation p is in, and its end.

Name(p) == IF op[p].op = "set" THEN Head(todo[p]).name ELSE op[p].name

Touches(o) ==
  CASE o.op = "set" -> {o.list[k].name : k \in 1 .. Len(o.list)}
    [] o.op = "none" -> {}
    [] OTHER -> {o.name}

\* Two operations on a value of which one changes it.
Conflict(o1, o2) ==
  /\ Touches(o1) \cap Touches(o2) # {}
  /\ o1.op # "get" \/ o2.op # "get"

Goto(p, label) == pc' = [pc EXCEPT ![p] = label]

\* cfgs_setval, cfgs_getval, cfgs_rmval are called.
Begin(p, o) ==
  /\ pc[p] = "idle"
  /\ ops < MaxOps
  /\ ops' = ops + 1
  /\ op' = [op EXCEPT ![p] = o]
  /\ todo' = [todo EXCEPT ![p] = IF o.op = "set" THEN o.list ELSE <<>>]
  /\ seg' = [seg EXCEPT ![p] = 0]
  /\ got' = [got EXCEPT ![p] = Null]
  /\ sure' = [q \in Procs |->
                IF q = p THEN \A r \in Procs \ {p} : ~Conflict(o, op[r])
                ELSE sure[q] /\ ~Conflict(o, op[q])]
  /\ Goto(p, "walk")
  /\ UNCHANGED <<files, ino, pos, out, crashes, last, settled, shared>>

\* The operation returns g, on whatever path, and leaves no file open that it
\* will use again.
Return(p, g) ==
  /\ Goto(p, "idle")
  /\ op' = [op EXCEPT ![p] = NoOp]
  /\ got' = [got EXCEPT ![p] = g]
  /\ todo' = [todo EXCEPT ![p] = <<>>]
  /\ seg' = [seg EXCEPT ![p] = 0]
  /\ ino' = [ino EXCEPT ![p] = 0]
  /\ pos' = [pos EXCEPT ![p] = 0]
  /\ out' = [out EXCEPT ![p] = <<>>]
  /\ UNCHANGED ops

\* cs_setentry goes on with the next entry of the list, if there is one.
NextEntry(p) ==
  IF Len(todo[p]) <= 1 THEN Return(p, Null)
  ELSE /\ Goto(p, "walk")
       /\ todo' = [todo EXCEPT ![p] = Tail(@)]
       /\ seg' = [seg EXCEPT ![p] = 0]
       /\ ino' = [ino EXCEPT ![p] = 0]
       /\ pos' = [pos EXCEPT ![p] = 0]
       /\ out' = [out EXCEPT ![p] = <<>>]
       /\ UNCHANGED <<op, got, ops>>

\* The search for the value ends without a match.
NoMatch(p) == IF op[p].op = "set" THEN NextEntry(p) ELSE Return(p, Null)

\* lassert fails in p.
Abort(p) ==
  /\ Goto(p, "dead")
  /\ op' = [op EXCEPT ![p] = NoOp]
  /\ UNCHANGED <<todo, seg, ino, pos, out, got, ops>>

-----------------------------------------------------------------------------
\* fs_search_exact: one directory of the path after the other, made if absent when
\* a value is set.  Directories are never removed, so that stat and mkdir, which
\* accepts a directory made in between, are one step.
Walk(p) ==
  /\ pc[p] = "walk"
  /\ LET dir == SubSeq(Name(p), 1, seg[p] + 1)
     IN  \/ /\ dir \in dirs \/ op[p].op = "set"
            /\ dirs' = dirs \cup {dir}
            /\ seg' = [seg EXCEPT ![p] = @ + 1]
            /\ Goto(p, IF dir = Name(p) THEN "stat" ELSE "walk")
            /\ UNCHANGED <<op, todo, ino, pos, out, got, ops>>
         \/ /\ dir \notin dirs
            /\ op[p].op # "set" \/ DiskMayFill
            /\ NoMatch(p)
            /\ UNCHANGED dirs
  /\ UNCHANGED <<link, data, crashes, history>>

\* file_exists: is there a file VALUES in the directory?
Stat(p) ==
  /\ pc[p] = "stat"
  /\ \/ /\ link[Name(p)] # 0
        /\ Goto(p, IF op[p].op = "rm" THEN "unlink" ELSE "open")
        /\ UNCHANGED work
     \/ /\ link[Name(p)] = 0
        /\ op[p].op = "set"
        /\ Goto(p, "create")
        /\ UNCHANGED work
     \/ /\ link[Name(p)] = 0
        /\ op[p].op # "set"
        /\ NoMatch(p)
  /\ UNCHANGED <<files, crashes, history>>

\* Mutant: the name is entered before there is a file.
CreateNameOnly(p) ==
  /\ pc[p] = "create"
  /\ link' = [link EXCEPT ![Name(p)] = IF @ = 0 THEN Len(data) + 1 ELSE @]
  /\ Goto(p, "open")
  /\ UNCHANGED <<data, settled, work, dirs, crashes, last, sure, shared>>

\* makefile: fopen with "w" makes an empty file of what is there by now.
Create(p) ==
  /\ pc[p] = "create"
  /\ \/ /\ link[Name(p)] = 0
        /\ link' = [link EXCEPT ![Name(p)] = Len(data) + 1]
        /\ data' = Append(data, <<>>)
        /\ Goto(p, "open")
        /\ UNCHANGED <<settled, work>>
     \/ /\ link[Name(p)] # 0
        /\ data' = [data EXCEPT ![link[Name(p)]] = <<>>]
        /\ settled' = settled \ {Name(p)}
        /\ Goto(p, "open")
        /\ UNCHANGED <<link, work>>
     \/ /\ DiskMayFill
        /\ NextEntry(p)
        /\ UNCHANGED <<link, data, settled>>
  /\ UNCHANGED <<dirs, crashes, last, sure, shared>>

\* The file is gone again: lassert( f >= 0 ).
OpenAborts(p) ==
  /\ pc[p] = "open"
  /\ link[Name(p)] = 0
  /\ Abort(p)
  /\ UNCHANGED <<files, crashes, history>>

\* on_match_get opens the file.
OpenGet(p) ==
  /\ pc[p] = "open"
  /\ op[p].op = "get"
  /\ link[Name(p)] # 0
  /\ ino' = [ino EXCEPT ![p] = link[Name(p)]]
  /\ Goto(p, "fstat")
  /\ UNCHANGED <<files, op, todo, seg, pos, out, got, ops, crashes, history>>

OthersWrite(p, file) == \E q \in Procs \ {p} : pc[q] = "write" /\ ino[q] = file

\* Mutant: the file is opened without O_TRUNC.
OpenSetKeeps(p) ==
  /\ pc[p] = "open"
  /\ op[p].op = "set"
  /\ link[Name(p)] # 0
  /\ LET file == link[Name(p)]
     IN  /\ ino' = [ino EXCEPT ![p] = file]
         /\ shared' = IF OthersWrite(p, file) THEN shared \cup {file} ELSE shared \ {file}
  /\ pos' = [pos EXCEPT ![p] = 0]
  /\ out' = [out EXCEPT ![p] = Writes(op[p].list)]
  /\ settled' = settled \ {Name(p)}
  /\ Goto(p, "write")
  /\ UNCHANGED <<files, op, todo, seg, got, ops, crashes, last, sure>>

\* on_match_set opens the file with O_TRUNC and turns the list into text: all of
\* the list it was called with, data.value = vl.
OpenSet(p) ==
  /\ pc[p] = "open"
  /\ op[p].op = "set"
  /\ link[Name(p)] # 0
  /\ LET file == link[Name(p)]
     IN  /\ ino' = [ino EXCEPT ![p] = file]
         /\ data' = [data EXCEPT ![file] = <<>>]
         /\ shared' = IF OthersWrite(p, file) THEN shared \cup {file} ELSE shared \ {file}
  /\ pos' = [pos EXCEPT ![p] = 0]
  /\ out' = [out EXCEPT ![p] = Writes(op[p].list)]
  /\ settled' = settled \ {Name(p)}
  /\ Goto(p, "write")
  /\ UNCHANGED <<dirs, link, op, todo, seg, got, ops, crashes, last, sure>>

\* Mutant: room for the terminating NUL is counted as text to be read.
FstatOneMore(p) ==
  /\ pc[p] = "fstat"
  /\ pos' = [pos EXCEPT ![p] = Len(data[ino[p]]) + 1]
  /\ Goto(p, "read")
  /\ UNCHANGED <<files, op, todo, seg, ino, out, got, ops, crashes, history>>

\* cfgs_tags_read: the size of the file.
Fstat(p) ==
  /\ pc[p] = "fstat"
  /\ pos' = [pos EXCEPT ![p] = Len(data[ino[p]])]
  /\ Goto(p, "read")
  /\ UNCHANGED <<files, op, todo, seg, ino, out, got, ops, crashes, history>>

\* cfgs_tags_read reads as much; lassert( rez == fs.st_size ) fails if the file has
\* become shorter.  on_match_get returns the entry, or NULL if none is found.
Read(p) ==
  /\ pc[p] = "read"
  /\ IF Len(data[ino[p]]) < pos[p] THEN Abort(p)
     ELSE \E g \in Parses(SubSeq(data[ino[p]], 1, pos[p])) : Return(p, g)
  /\ UNCHANGED <<files, crashes, history>>

\* cfgst_rwrite writes the next piece; what it returns is not looked at, though
\* the disk may have had no room for all of it.
Write(p) ==
  /\ pc[p] = "write"
  /\ Len(out[p]) > 1
  /\ \E k \in 0 .. Len(Head(out[p])) :
       /\ k < Len(Head(out[p])) => DiskMayFill
       /\ data' = [data EXCEPT ![ino[p]] = Overlay(@, pos[p], SubSeq(Head(out[p]), 1, k))]
       /\ pos' = [pos EXCEPT ![p] = @ + k]
       /\ sure' = [sure EXCEPT ![p] = @ /\ k = Len(Head(out[p]))]
  /\ out' = [out EXCEPT ![p] = Tail(@)]
  /\ UNCHANGED <<dirs, link, pc, op, todo, seg, ino, got, ops, crashes, last, settled, shared>>

\* The last piece, after which the file is closed; the entry counts as stored.
WriteLast(p) ==
  /\ pc[p] = "write"
  /\ Len(out[p]) = 1
  /\ \E k \in 0 .. Len(Head(out[p])) :
       /\ k < Len(Head(out[p])) => DiskMayFill
       /\ data' = [data EXCEPT ![ino[p]] = Overlay(@, pos[p], SubSeq(Head(out[p]), 1, k))]
  /\ last' = [last EXCEPT ![Name(p)] = Head(todo[p])]
  /\ settled' = IF sure[p] THEN settled \cup {Name(p)} ELSE settled \ {Name(p)}
  /\ NextEntry(p)
  /\ UNCHANGED <<dirs, link, crashes, sure, shared>>

\* Mutant: nothing is unlinked, though the value counts as removed.
UnlinkNothing(p) ==
  /\ pc[p] = "unlink"
  /\ last' = [last EXCEPT ![Name(p)] = Null]
  /\ settled' = IF sure[p] THEN settled \cup {Name(p)} ELSE settled \ {Name(p)}
  /\ Return(p, Null)
  /\ UNCHANGED <<files, crashes, sure, shared>>

\* on_match_rm; the directories stay.
Unlink(p) ==
  /\ pc[p] = "unlink"
  /\ link' = [link EXCEPT ![Name(p)] = 0]
  /\ last' = [last EXCEPT ![Name(p)] = Null]
  /\ settled' = IF sure[p] THEN settled \cup {Name(p)} ELSE settled \ {Name(p)}
  /\ Return(p, Null)
  /\ UNCHANGED <<dirs, data, crashes, sure, shared>>

\* p is killed, and started again: the files stay as they are.
Crash(p) ==
  /\ pc[p] \notin {"idle", "dead"}
  /\ crashes < MaxCrashes
  /\ crashes' = crashes + 1
  /\ Return(p, Null)
  /\ UNCHANGED <<files, history>>

Call(p) ==
  \/ Walk(p)
  \/ Stat(p)
  \/ Create(p)
  \/ OpenAborts(p)
  \/ OpenGet(p)
  \/ OpenSet(p)
  \/ Fstat(p)
  \/ Read(p)
  \/ Write(p)
  \/ WriteLast(p)
  \/ Unlink(p)

Next == \E p \in Procs : Call(p) \/ Crash(p) \/ \E o \in Ops : Begin(p, o)

Spec == Init /\ [][Next]_vars

-----------------------------------------------------------------------------
Cell == [entry : Entries, at : Nat] \cup {Eol, Hole}

TypeOK ==
  /\ \A d \in dirs \ {<<>>} : \E n \in Names : IsPrefix(d, n)
  /\ data \in Seq(Seq(Cell))
  /\ link \in [Names -> 0 .. Len(data)]
  /\ pc \in [Procs -> {"idle", "dead", "walk", "stat", "create", "open", "fstat",
                       "read", "write", "unlink"}]
  /\ op \in [Procs -> Ops \cup {NoOp}]
  /\ todo \in [Procs -> Seq(Entries)]
  /\ seg \in [Procs -> Nat] /\ pos \in [Procs -> Nat]
  /\ out \in [Procs -> Seq(Seq(Cell))]
  /\ sure \in [Procs -> BOOLEAN]
  /\ ino \in [Procs -> 0 .. Len(data)]
  /\ got \in [Procs -> Entries \cup {Null, Garbled}]
  /\ last \in [Names -> Entries \cup {Null}]
  /\ settled \subseteq Names
  /\ shared \subseteq 1 .. Len(data)
  /\ ops \in 0 .. MaxOps /\ crashes \in 0 .. MaxCrashes

\* The get p is in returns g.
Returns(p, g) ==
  /\ op[p].op = "get" /\ op'[p].op = "none" /\ pc'[p] = "idle"
  /\ crashes' = crashes
  /\ got'[p] = g

\* A get that no change of its value came between returns what the last change
\* has left, whoever made it and whatever happened to the values above and below
\* it in the tree; a set that was killed or ran out of disk is known to have
\* harmed nothing but its own value, and that only once it has truncated the file.
FindsWhatWasSet ==
  [][\A p \in Procs, g \in Entries \cup {Null, Garbled} :
       Returns(p, g) /\ sure[p] /\ op[p].name \in settled => g = last[op[p].name]]_vars

\* Whatever a get meets, it returns no mixture of two values unless two processes
\* have written the file at once: one writer at a time shows its readers the old
\* value, nothing, or the new one.
OneWriterNoMixture ==
  [][\A p \in Procs : Returns(p, Garbled) => ino[p] \in shared]_vars

\* A process aborts only when another has changed the same value meanwhile: no
\* kill and no full disk leaves files behind that abort the next to use them.
AbortsInRacesOnly ==
  \A p \in Procs : pc[p] = "dead" => ~sure[p]
=============================================================================
