--------------------------- MODULE FsBackend_proofs ---------------------------
(***************************************************************************)
(* What the file system backend keeps, for any processes, names and        *)
(* values, any number of operations, kills and short writes.  The first    *)
(* part holds for any lists of entries; the second is about lists of one   *)
(* entry, which is what the daemon passes to its backends.                 *)
(***************************************************************************)
EXTENDS FsBackend, SequenceTheorems, NaturalsInduction, WellFoundedInduction,
        FiniteSetTheorems, TLAPS

\* p is in an operation.
Active(p) == pc[p] \notin {"idle", "dead"}

\* Where a process can be in each operation, and what it has in hand there.
InStep(p) ==
  /\ Active(p) <=> op[p] # NoOp
  /\ op[p].op = "set" =>
       /\ todo[p] # <<>>
       /\ \A k \in 1 .. Len(todo[p]) : todo[p][k].name \in Touches(op[p])
  /\ pc[p] \in {"create", "write"} => op[p].op = "set"
  /\ pc[p] = "unlink" => op[p].op = "rm"
  /\ pc[p] \in {"fstat", "read"} => op[p].op = "get"
  /\ pc[p] = "open" => op[p].op # "rm"
  /\ pc[p] = "walk" => seg[p] < Len(Name(p))
  /\ pc[p] = "write" => out[p] # <<>>

OperationInStep == \A p \in Procs : InStep(p)

\* A file has one name at most, and whoever has it open has it open by that name.
HasOwnFile(p) ==
  pc[p] \in {"fstat", "read", "write"} =>
    /\ ino[p] # 0
    /\ \A n \in Names : link[n] = ino[p] => n = Name(p)

FilesHaveOneName ==
  /\ \A m, n \in Names : link[m] # 0 /\ link[m] = link[n] => m = n
  /\ \A p \in Procs : HasOwnFile(p)

\* An operation that is sure is alone with its value.
SureIsAlone ==
  \A p \in Procs : sure[p] => \A q \in Procs \ {p} : ~Conflict(op[p], op[q])

\* So it finds the file as it has left it.
FindsItsFile(p) ==
  sure[p] =>
    /\ pc[p] = "open" => link[Name(p)] # 0
    /\ pc[p] \in {"fstat", "read", "write"} => link[Name(p)] = ino[p]
    /\ pc[p] = "read" => pos[p] = Len(data[ino[p]])

SureFindsItsFile == \A p \in Procs : FindsItsFile(p)

FilesInv ==
  /\ TypeOK
  /\ OperationInStep
  /\ FilesHaveOneName
  /\ SureIsAlone
  /\ SureFindsItsFile
  /\ AbortsInRacesOnly

-----------------------------------------------------------------------------
\* Lists of one entry.

\* The cells of a file from the first to the k-th are the begin of the tag of e.
BeginsAs(file, e, k) ==
  /\ k \in 0 .. Size[e.val] /\ k <= Len(file)
  /\ \A j \in 1 .. k : file[j] = [entry |-> e, at |-> j]

\* Nothing follows but perhaps the end of line.
Plain(file, e, k) ==
  /\ BeginsAs(file, e, k)
  /\ Len(file) <= k + 1
  /\ Len(file) = k + 1 => file[Len(file)] = Eol

\* What one writer leaves, however short its writes fall: part of one tag and
\* perhaps the end of line, or holes when another has cut the file.
Unmixed(file) ==
  \/ file = <<>>
  \/ file[1] = Hole
  \/ \E e \in Entries : \E k \in 0 .. Len(file) : Plain(file, e, k)

\* What a set has still to write, and where.
WriterInStep(p) ==
  /\ op[p].op = "set" => Len(todo[p]) = 1 /\ op[p].list = todo[p]
  /\ pc[p] = "write" =>
       \/ out[p] = <<Tag(Head(todo[p])), <<Eol>>>> /\ pos[p] = 0
       \/ out[p] = <<<<Eol>>>> /\ pos[p] <= Size[Head(todo[p]).val]

WritersInStep == \A p \in Procs : WriterInStep(p)

\* Whatever is in the tree has its directories, and so has what is being looked
\* at, as far as it has been.
HasDirectories(p) ==
  Active(p) =>
    /\ \A k \in 1 .. seg[p] : SubSeq(Name(p), 1, k) \in dirs
    /\ pc[p] # "walk" => seg[p] = Len(Name(p))

DirectoriesStay ==
  /\ \A n \in Names : link[n] # 0 => \A k \in 1 .. Len(n) : SubSeq(n, 1, k) \in dirs
  /\ \A p \in Procs : HasDirectories(p)

\* A sure set has written all that it should have.
WritesAll(p) ==
  sure[p] /\ pc[p] = "write" =>
    IF Len(out[p]) = 2 THEN data[ino[p]] = <<>>
    ELSE /\ pos[p] = Size[Head(todo[p]).val]
         /\ Len(data[ino[p]]) = pos[p]
         /\ BeginsAs(data[ino[p]], Head(todo[p]), pos[p])

SureWriteAll == \A p \in Procs : WritesAll(p)

\* The file of a settled name shows what its last change has left, and nobody is
\* writing it.
ShowsLast(n) ==
  /\ last[n] = Null => link[n] = 0 \/ data[link[n]] = <<>>
  /\ last[n] # Null => link[n] # 0 /\ Plain(data[link[n]], last[n], Size[last[n].val])
  /\ \A p \in Procs : pc[p] = "write" => Name(p) # n

SettledShowLast == \A n \in settled : ShowsLast(n)

\* A file that is not shared has one writer at most, and no mixture in it.
OneWriter(i) ==
  /\ Unmixed(data[i])
  /\ \A p \in Procs : pc[p] = "write" /\ ino[p] = i =>
       /\ \A q \in Procs : pc[q] = "write" /\ ino[q] = i => q = p
       /\ Len(out[p]) = 2 => data[i] = <<>>
       /\ Len(out[p]) = 1 =>
            \/ data[i] = <<>>
            \/ Len(data[i]) = pos[p] /\ BeginsAs(data[i], Head(todo[p]), pos[p])

OneWriterEach == \A i \in 1 .. Len(data) : i \notin shared => OneWriter(i)

SingleInv ==
  /\ FilesInv
  /\ WritersInStep
  /\ DirectoriesStay
  /\ SureWriteAll
  /\ SettledShowLast
  /\ OneWriterEach

\* The lists the daemon passes to its backends.
OneEntryLists == \A l \in Lists : Len(l) = 1

-----------------------------------------------------------------------------
\* Texts.

\* A set of numbers with a member has a least one.
LEMMA LeastNumber ==
  ASSUME NEW S, S \subseteq Nat, S # {}
  PROVE  \E x \in S : \A y \in S : x <= y
<1> DEFINE Less == OpToRel(<, Nat)
<1>1. IsWellFoundedOn(Less, Nat)
  BY NatLessThanWellFounded
<1>2. PICK x \in S : \A y \in S : ~(<<y, x>> \in Less)
  <2> HIDE DEF Less
  <2> QED BY <1>1, WFMin
<1>3. \A y \in S : ~(y < x)
  BY <1>2 DEF OpToRel
<1> QED
  BY <1>3

\* FlattenSeq of sequences over S is one, not shorter than the last of them.
LEMMA FlattenSeqType ==
  ASSUME NEW S, NEW seqs \in Seq(Seq(S)), seqs # <<>>
  PROVE  /\ FlattenSeq(seqs) \in Seq(S)
         /\ Len(FlattenSeq(seqs)) >= Len(seqs[Len(seqs)])
<1> DEFINE N == Len(seqs)
           Flat(g, n) == g = [i \in 1 .. n |-> IF i = 1 THEN seqs[i] ELSE g[i-1] \o seqs[i]]
           Solved(n) == \E g : Flat(g, n)
           Bad == {n \in 1 .. N : ~Solved(n)}
<1>0. N \in Nat \ {0} /\ \A i \in 1 .. N : seqs[i] \in Seq(S)
  OBVIOUS
<1>1. Bad = {}
  <2> SUFFICES ASSUME Bad # {} PROVE FALSE
    OBVIOUS
  <2>0. Bad \subseteq Nat
    <3> HIDE DEF Solved
    <3> QED BY <1>0
  <2>1. PICK n \in Bad : \A y \in Bad : n <= y
    <3> HIDE DEF Bad
    <3> QED BY <2>0, LeastNumber
  <2>2. CASE n = 1
    <3>1. Flat([i \in 1 .. 1 |-> seqs[i]], 1)
      OBVIOUS
    <3> QED BY <3>1, <2>2
  <2>3. CASE n # 1
    <3>0. n \in 1 .. N /\ n - 1 \in 1 .. N
      BY <2>3, <1>0
    <3>1. n - 1 \in 1 .. N /\ n - 1 \notin Bad
      <4> HIDE DEF Bad
      <4> QED BY <2>1, <3>0
    <3>2. PICK g : Flat(g, n - 1)
      BY <3>1
    <3> DEFINE new == g[n-1] \o seqs[n]
               h == [i \in 1 .. n |-> IF i = n THEN new ELSE g[i]]
    <3>3. ASSUME NEW i \in 1 .. n
          PROVE  h[i] = IF i = 1 THEN seqs[i] ELSE h[i-1] \o seqs[i]
      <4>1. CASE i = n
        <5>1. h[n] = new
          <6> HIDE DEF new
          <6> QED BY <3>0
        <5>2. h[n-1] = g[n-1]
          BY <3>0
        <5> QED BY <5>1, <5>2, <4>1, <2>3
      <4>2. CASE i # n
        <5>1. i \in 1 .. n - 1 /\ (i # 1 => i - 1 \in 1 .. n - 1)
          BY <4>2, <3>0
        <5>2. h[i] = g[i] /\ (i # 1 => h[i-1] = g[i-1])
          BY <5>1, <4>2, <3>0
        <5>3. g[i] = IF i = 1 THEN seqs[i] ELSE g[i-1] \o seqs[i]
          BY <5>1, <3>2
        <5> QED BY <5>2, <5>3
      <4> QED BY <4>1, <4>2
    <3>4. Flat(h, n)
      BY <3>3
    <3> QED BY <3>4
  <2> QED BY <2>2, <2>3
<1>2. PICK g0 : Flat(g0, N)
  <2>1. N \in 1 .. N
    BY <1>0
  <2> QED BY <1>1, <2>1
<1> DEFINE f == CHOOSE g : Flat(g, N)
<1>3. Flat(f, N)
  BY <1>2
<1>4. FlattenSeq(seqs) = f[N]
  BY <1>0 DEF FlattenSeq
<1> HIDE DEF f
<1> DEFINE Odd == {n \in 1 .. N : ~(f[n] \in Seq(S) /\ Len(f[n]) >= Len(seqs[n]))}
<1>5. Odd = {}
  <2> SUFFICES ASSUME Odd # {} PROVE FALSE
    OBVIOUS
  <2>0. Odd \subseteq Nat
    BY <1>0
  <2>1. PICK n \in Odd : \A y \in Odd : n <= y
    <3> HIDE DEF Odd
    <3> QED BY <2>0, LeastNumber
  <2>2. CASE n = 1
    BY <2>2, <1>0, <1>3
  <2>3. CASE n # 1
    <3>0. n \in 1 .. N /\ n - 1 \in 1 .. N
      BY <2>3, <1>0
    <3>1. n - 1 \in 1 .. N /\ n - 1 \notin Odd
      <4> HIDE DEF Odd
      <4> QED BY <2>1, <3>0
    <3>2. f[n-1] \in Seq(S) /\ f[n] = f[n-1] \o seqs[n]
      BY <3>1, <1>3, <2>3
    <3>3. f[n] \in Seq(S) /\ Len(f[n]) = Len(f[n-1]) + Len(seqs[n])
      BY <3>2, <1>0, ConcatProperties
    <3>4. Len(f[n-1]) \in Nat /\ Len(seqs[n]) \in Nat
      BY <3>2, <3>0, <1>0
    <3>5. Len(f[n]) >= Len(seqs[n])
      <4>1. \A a, b \in Nat : a + b >= b
        OBVIOUS
      <4> HIDE DEF f
      <4> QED BY <3>3, <3>4, <4>1, Zenon
    <3> QED BY <3>3, <3>5, <2>1
  <2> QED BY <2>2, <2>3
<1> QED
  BY <1>0, <1>4, <1>5

\* One sequence in a sequence is left as it is.
LEMMA FlattenSeqOne ==
  ASSUME NEW s
  PROVE  FlattenSeq(<<s>>) = s
<1> DEFINE Flat(g) == g = [i \in 1 .. 1 |-> IF i = 1 THEN <<s>>[i] ELSE g[i-1] \o <<s>>[i]]
           f == CHOOSE g : Flat(g)
<1>1. Flat([i \in 1 .. 1 |-> s])
  OBVIOUS
<1>2. Flat(f)
  BY <1>1
<1>3. FlattenSeq(<<s>>) = f[1]
  BY DEF FlattenSeq
<1> QED
  BY <1>2, <1>3

\* The tag of an entry, and the cells of the texts made of tags.
LEMMA TagFacts ==
  ASSUME NEW e \in Entries
  PROVE  /\ Size[e.val] \in Nat \ {0}
         /\ Tag(e) \in Seq(Cell)
         /\ Len(Tag(e)) = Size[e.val]
         /\ \A i \in 1 .. Size[e.val] : Tag(e)[i] = [entry |-> e, at |-> i]
<1>1. Size[e.val] \in Nat \ {0}
  BY SizeAssumption DEF Entries
<1>2. \A i \in 1 .. Size[e.val] : [entry |-> e, at |-> i] \in Cell
  BY DEF Cell
<1> QED
  BY <1>1, <1>2 DEF Tag

\* What a set writes is one piece of text after the other.
LEMMA WritesType ==
  ASSUME NEW list \in Seq(Entries), list # <<>>
  PROVE  Writes(list) \in Seq(Seq(Cell)) \ {<<>>}
<1> DEFINE N == Len(list)
           Tags(k) == [j \in 1 .. N - k + 1 |-> Tag(list[k + j - 1])]
           Lines == [k \in 1 .. N |-> <<FlattenSeq(Tags(k)), <<Eol>>>>]
<1>0. N \in Nat \ {0} /\ \A i \in 1 .. N : list[i] \in Entries
  OBVIOUS
<1>1. ASSUME NEW k \in 1 .. N
      PROVE  FlattenSeq(Tags(k)) \in Seq(Cell)
  <2>1. \A j \in 1 .. N - k + 1 : Tag(list[k + j - 1]) \in Seq(Cell)
    BY <1>0, TagFacts
  <2>2. N - k + 1 \in Nat \ {0}
    BY <1>0
  <2>3. PICK M \in Nat \ {0} : M = N - k + 1
    BY <2>2
  <2>4. Tags(k) \in [1 .. M -> Seq(Cell)]
    <3> HIDE DEF N
    <3> QED BY <2>1, <2>3
  <2>5. Tags(k) \in Seq(Seq(Cell)) /\ Len(Tags(k)) = M
    <3> HIDE DEF Tags
    <3> QED BY <2>4
  <2> HIDE DEF Tags
  <2> QED BY <2>5, FlattenSeqType
<1>2. <<Eol>> \in Seq(Cell)
  BY DEF Cell
<1>3. \A k \in 1 .. N : <<FlattenSeq(Tags(k)), <<Eol>>>> \in Seq(Seq(Cell))
  <2> HIDE DEF Tags
  <2> QED BY <1>1, <1>2
<1>4. Lines \in Seq(Seq(Seq(Cell))) /\ Len(Lines) = N
  <2> HIDE DEF Tags
  <2> QED BY <1>3, <1>0
<1>5. Len(Lines[N]) = 2
  <2> HIDE DEF Tags
  <2> QED BY <1>0
<1>6. FlattenSeq(Lines) \in Seq(Seq(Cell)) /\ Len(FlattenSeq(Lines)) >= 2
  <2>1. Lines # <<>>
    BY <1>0, <1>4
  <2> HIDE DEF Lines
  <2> QED BY <2>1, <1>4, <1>5, FlattenSeqType
<1>7. Writes(list) = FlattenSeq(Lines)
  BY DEF Writes
<1> HIDE DEF Lines
<1> QED
  BY <1>6, <1>7

\* The length of a file after a write, and its cells.
LEMMA OverlayFacts ==
  ASSUME NEW file \in Seq(Cell), NEW offset \in Nat, NEW cells \in Seq(Cell)
  PROVE  /\ Overlay(file, offset, cells) \in Seq(Cell)
         /\ Len(Overlay(file, offset, cells)) =
              IF cells # <<>> /\ offset + Len(cells) > Len(file)
              THEN offset + Len(cells) ELSE Len(file)
         /\ \A i \in 1 .. Len(Overlay(file, offset, cells)) :
              Overlay(file, offset, cells)[i] =
                IF i \in offset + 1 .. offset + Len(cells) THEN cells[i - offset]
                ELSE IF i <= Len(file) THEN file[i] ELSE Hole
<1> DEFINE end == offset + Len(cells)
           L == IF cells # <<>> /\ end > Len(file) THEN end ELSE Len(file)
           cell(i) == IF i \in offset + 1 .. end THEN cells[i - offset]
                      ELSE IF i <= Len(file) THEN file[i] ELSE Hole
<1>1. L \in Nat /\ Len(file) \in Nat /\ Len(cells) \in Nat
  OBVIOUS
<1>2. \A i \in 1 .. L : cell(i) \in Cell
  <2> SUFFICES ASSUME NEW i \in 1 .. L PROVE cell(i) \in Cell
    OBVIOUS
  <2>1. CASE i \in offset + 1 .. end
    <3>1. i - offset \in 1 .. Len(cells)
      BY <2>1, <1>1
    <3> QED BY <3>1, <2>1
  <2>2. CASE i \notin offset + 1 .. end
    BY <2>2, <1>1 DEF Cell
  <2> QED BY <2>1, <2>2
<1>3. Overlay(file, offset, cells) = [i \in 1 .. L |-> cell(i)]
  BY DEF Overlay
<1> HIDE DEF L, cell
<1>4. Overlay(file, offset, cells) \in Seq(Cell) /\ Len(Overlay(file, offset, cells)) = L
  BY <1>1, <1>2, <1>3
<1>5. \A i \in 1 .. L : Overlay(file, offset, cells)[i] = cell(i)
  BY <1>3
<1> QED
  BY <1>4, <1>5 DEF L, cell

\* The parser delivers an entry, nothing, or a mixture.
LEMMA ParsesType ==
  ASSUME NEW text \in Seq(Cell)
  PROVE  Parses(text) \subseteq Entries \cup {Null, Garbled}
<1> DEFINE ends == {i \in DOMAIN text : IsTag(text[i]) /\ text[i].at = Size[text[i].entry.val]}
           begins == {i \in DOMAIN text : \A j \in 1 .. i - 1 : text[j] = Eol}
           first == {i \in begins : IsTag(text[i]) /\ text[i].at = 1}
           b == CHOOSE i \in first : TRUE
           e == CHOOSE i \in ends : \A j \in ends : i <= j
<1>1. Parses(text) = IF first = {} \/ ends = {} THEN {Null}
                     ELSE IF SubSeq(text, b, e) = Tag(text[b].entry) THEN {text[b].entry}
                     ELSE {Garbled, Null}
  BY DEF Parses
<1>2. first # {} => b \in first
  OBVIOUS
<1>3. first # {} => text[b].entry \in Entries
  BY <1>2 DEF IsTag
<1> HIDE DEF ends, first, b, e
<1> QED
  BY <1>1, <1>3

-----------------------------------------------------------------------------
\* Operations of any lists.

\* The operation a process is in, and the name it works on, which is touched by it.
LEMMA NameFacts ==
  ASSUME TypeOK, OperationInStep, NEW p \in Procs, Active(p)
  PROVE  /\ op[p] \in Ops /\ op[p] # NoOp
         /\ op[p].op \in {"get", "rm", "set"}
         /\ Name(p) \in Names /\ Len(Name(p)) \in Nat \ {0}
         /\ Name(p) \in Touches(op[p])
         /\ op[p].op = "set" =>
              /\ todo[p] # <<>> /\ Len(todo[p]) \in Nat \ {0}
              /\ Head(todo[p]) \in Entries /\ Head(todo[p]) = todo[p][1]
              /\ Name(p) = todo[p][1].name
         /\ op[p].op # "set" => Name(p) = op[p].name
<1>1. op[p] \in Ops /\ op[p] # NoOp
  BY DEF OperationInStep, InStep, TypeOK
<1>2. CASE op[p].op = "set"
  <2>1. todo[p] \in Seq(Entries) /\ todo[p] # <<>>
    BY <1>2 DEF OperationInStep, InStep, TypeOK
  <2>2. /\ Len(todo[p]) \in Nat \ {0} /\ todo[p][1] \in Entries
        /\ Head(todo[p]) = todo[p][1]
    BY <2>1
  <2>3. Name(p) = todo[p][1].name /\ Name(p) \in Touches(op[p])
    BY <1>2, <2>2 DEF OperationInStep, InStep, Name
  <2> QED BY <1>1, <1>2, <2>1, <2>2, <2>3, NamesAssumption DEF Entries
<1>3. CASE op[p].op # "set"
  <2>1. op[p] \in [op : {"get", "rm"}, name : Names]
    BY <1>1, <1>3 DEF Ops
  <2>2. Name(p) = op[p].name /\ Name(p) \in Touches(op[p])
    BY <2>1 DEF Name, Touches
  <2> QED BY <1>1, <2>1, <2>2, NamesAssumption
<1> QED
  BY <1>2, <1>3

\* What a step leaves alone of the other processes.
LEMMA OthersStay ==
  ASSUME TypeOK, NEW p \in Procs, NEW q \in Procs, q # p,
         Call(p) \/ Crash(p) \/ \E o \in Ops : Begin(p, o)
  PROVE  /\ pc'[q] = pc[q] /\ op'[q] = op[q] /\ todo'[q] = todo[q] /\ seg'[q] = seg[q]
         /\ ino'[q] = ino[q] /\ pos'[q] = pos[q] /\ out'[q] = out[q] /\ got'[q] = got[q]
         /\ sure'[q] => sure[q]
<1> USE DEF TypeOK, Goto, Return, NextEntry, NoMatch, Abort, work, files, history
<1>1. CASE Walk(p) \/ Stat(p) \/ Create(p)
  BY <1>1 DEF Walk, Stat, Create
<1>2. CASE OpenAborts(p) \/ OpenGet(p) \/ OpenSet(p) \/ Fstat(p)
  BY <1>2 DEF OpenAborts, OpenGet, OpenSet, Fstat
<1>3. CASE Read(p)
  BY <1>3 DEF Read
<1>4. CASE Write(p)
  BY <1>4 DEF Write
<1>5. CASE WriteLast(p)
  BY <1>5 DEF WriteLast
<1>6. CASE Unlink(p) \/ Crash(p)
  BY <1>6 DEF Unlink, Crash
<1>7. CASE \E o \in Ops : Begin(p, o)
  BY <1>7 DEF Begin
<1> QED
  BY <1>1, <1>2, <1>3, <1>4, <1>5, <1>6, <1>7 DEF Call

\* A step that leaves the files alone keeps the types of what processes have.
ProcessesTyped ==
  /\ pc' \in [Procs -> {"idle", "dead", "walk", "stat", "create", "open", "fstat",
                        "read", "write", "unlink"}]
  /\ op' \in [Procs -> Ops \cup {NoOp}]
  /\ todo' \in [Procs -> Seq(Entries)]
  /\ seg' \in [Procs -> Nat] /\ pos' \in [Procs -> Nat]
  /\ out' \in [Procs -> Seq(Seq(Cell))]
  /\ ino' \in [Procs -> 0 .. Len(data)]
  /\ got' \in [Procs -> Entries \cup {Null, Garbled}]

LEMMA TurnTypes ==
  ASSUME TypeOK, NEW p \in Procs,
         NextEntry(p) \/ NoMatch(p) \/ Abort(p)
           \/ \E g \in Entries \cup {Null, Garbled} : Return(p, g)
  PROVE  ProcessesTyped
<1> USE DEF TypeOK, ProcessesTyped
<1>0. Len(data) \in Nat /\ <<>> \in Seq(Seq(Cell)) /\ <<>> \in Seq(Entries)
  OBVIOUS
<1>1. ASSUME NEW g \in Entries \cup {Null, Garbled}, Return(p, g)
      PROVE  ProcessesTyped
  BY <1>0, <1>1 DEF Return, Goto
<1>2. CASE Abort(p)
  BY <1>2 DEF Abort, Goto
<1>3. ASSUME NextEntry(p)
      PROVE  ProcessesTyped
  <2>1. CASE Len(todo[p]) <= 1
    BY <2>1, <1>3, <1>1 DEF NextEntry
  <2>2. CASE ~(Len(todo[p]) <= 1)
    <3>1. Tail(todo[p]) \in Seq(Entries)
      BY <2>2
    <3>2. [todo EXCEPT ![p] = Tail(todo[p])] \in [Procs -> Seq(Entries)]
      BY <3>1
    <3>3. todo' = [todo EXCEPT ![p] = Tail(todo[p])]
      BY <2>2, <1>3 DEF NextEntry
    <3>4. /\ pc' = [pc EXCEPT ![p] = "walk"] /\ UNCHANGED <<op, got>>
          /\ seg' = [seg EXCEPT ![p] = 0] /\ pos' = [pos EXCEPT ![p] = 0]
          /\ ino' = [ino EXCEPT ![p] = 0] /\ out' = [out EXCEPT ![p] = <<>>]
      BY <2>2, <1>3 DEF NextEntry, Goto
    <3> QED BY <3>2, <3>3, <3>4, <1>0
  <2> QED BY <2>1, <2>2
<1> QED
  BY <1>1, <1>2, <1>3 DEF NoMatch

\* The bounds of the counters are in the guards.
LEMMA CountersBounded ==
  ASSUME ops \in 0 .. MaxOps, crashes \in 0 .. MaxCrashes, NEW p \in Procs,
         Call(p) \/ Crash(p) \/ \E o \in Ops : Begin(p, o)
  PROVE  ops' \in 0 .. MaxOps /\ crashes' \in 0 .. MaxCrashes
<1>1. CASE \E o \in Ops : Begin(p, o)
  <2>1. ops < MaxOps /\ ops' = ops + 1 /\ crashes' = crashes
    BY <1>1 DEF Begin
  <2> QED BY <2>1, BoundsAssumption
<1>2. CASE Crash(p)
  <2>1. crashes < MaxCrashes /\ crashes' = crashes + 1 /\ ops' = ops
    BY <1>2 DEF Crash, Return
  <2> QED BY <2>1, BoundsAssumption
<1>3. CASE Call(p)
  <2> USE DEF NextEntry, NoMatch, Return, Abort, work, history
  <2>1. CASE Walk(p) \/ Stat(p) \/ Create(p)
    BY <2>1 DEF Walk, Stat, Create
  <2>2. CASE OpenAborts(p) \/ OpenGet(p) \/ OpenSet(p) \/ Fstat(p) \/ Read(p)
    BY <2>2 DEF OpenAborts, OpenGet, OpenSet, Fstat, Read
  <2>3. CASE Write(p) \/ WriteLast(p) \/ Unlink(p)
    BY <2>3 DEF Write, WriteLast, Unlink
  <2> QED BY <1>3, <2>1, <2>2, <2>3 DEF Call
<1> QED
  BY <1>1, <1>2, <1>3

\* Types are preserved.
LEMMA FilesTyped ==
  ASSUME TypeOK, OperationInStep, FilesHaveOneName, Next
  PROVE  TypeOK'
<1>0. PICK p \in Procs : Call(p) \/ Crash(p) \/ \E o \in Ops : Begin(p, o)
  BY DEF Next
<1> USE DEF TypeOK, Goto, work, files, history
<1>c. ops' \in 0 .. MaxOps /\ crashes' \in 0 .. MaxCrashes
  BY <1>0, CountersBounded
<1> USE <1>c
<1>t. Len(data) \in Nat /\ IsFiniteSet({}) /\ <<>> \in Seq(Seq(Cell)) /\ <<>> \in Seq(Cell)
  BY FS_EmptySet
<1>n. Active(p) => Name(p) \in Names
  BY NameFacts
<1>1. CASE Walk(p)
  <2>1. Name(p) \in Names /\ seg[p] < Len(Name(p)) /\ seg[p] \in Nat
    BY <1>1, <1>n DEF Walk, Active, OperationInStep, InStep
  <2>2. IsPrefix(SubSeq(Name(p), 1, seg[p] + 1), Name(p))
    <3>1. Name(p) \in Seq(STRING) /\ Len(Name(p)) \in Nat
      BY <2>1, NamesAssumption
    <3>2. \A i \in 1 .. seg[p] + 1 : Name(p)[i] \in STRING
      BY <3>1, <2>1
    <3>3. Len(SubSeq(Name(p), 1, seg[p] + 1)) = seg[p] + 1
      BY <2>1, <3>2, SubSeqProperties
    <3>4. SubSeq(SubSeq(Name(p), 1, seg[p] + 1), 1, seg[p] + 1) = SubSeq(Name(p), 1, seg[p] + 1)
      BY <2>1, <3>1, <3>2, <3>3, SubSeqProperties, SubSeqFull
    <3> QED BY <2>1, <3>3, <3>4 DEF IsPrefix
  <2> DEFINE dir == SubSeq(Name(p), 1, seg[p] + 1)
  <2>a. \/ /\ dirs' = dirs \cup {dir}
           /\ seg' = [seg EXCEPT ![p] = seg[p] + 1]
           /\ \E l \in {"stat", "walk"} : pc' = [pc EXCEPT ![p] = l]
           /\ UNCHANGED <<op, todo, ino, pos, out, got, ops>>
        \/ dirs' = dirs /\ NoMatch(p)
    BY <1>1 DEF Walk
  <2> HIDE DEF dir
  <2>3. \A d \in dirs' \ {<<>>} : \E n \in Names : IsPrefix(d, n)
    <3> SUFFICES ASSUME NEW d \in dirs' \ {<<>>} PROVE \E n \in Names : IsPrefix(d, n)
      OBVIOUS
    <3>1. CASE d \in dirs
      BY <3>1
    <3>2. CASE d \notin dirs
      <4>1. d = dir
        BY <3>2, <2>a
      <4> QED BY <4>1, <2>1, <2>2 DEF dir
    <3> QED BY <3>1, <3>2
  <2>4. ProcessesTyped
    <3>1. CASE NoMatch(p)
      BY <3>1, TurnTypes
    <3>2. CASE ~NoMatch(p)
      <4>1. /\ seg' = [seg EXCEPT ![p] = seg[p] + 1]
            /\ \E l \in {"stat", "walk"} : pc' = [pc EXCEPT ![p] = l]
            /\ UNCHANGED <<op, todo, ino, pos, out, got, ops>>
        BY <3>2, <2>a
      <4>2. seg[p] + 1 \in Nat
        BY <2>1
      <4> QED BY <4>1, <4>2 DEF ProcessesTyped
    <3> QED BY <3>1, <3>2
  <2> QED BY <1>1, <2>3, <2>4 DEF Walk, ProcessesTyped
<1>2. CASE Stat(p)
  <2>4. ProcessesTyped
    <3>1. CASE NoMatch(p)
      BY <3>1, TurnTypes
    <3>2. CASE ~NoMatch(p)
      BY <3>2, <1>2 DEF Stat, ProcessesTyped
    <3> QED BY <3>1, <3>2
  <2> QED BY <1>2, <2>4 DEF Stat, ProcessesTyped
<1>3. CASE Create(p)
  <2>1. Name(p) \in Names /\ Active(p)
    BY <1>3, <1>n DEF Create, Active
  <2>2. ProcessesTyped
    <3>1. CASE NextEntry(p)
      BY <3>1, TurnTypes
    <3>2. CASE ~NextEntry(p)
      BY <3>2, <1>3 DEF Create, ProcessesTyped
    <3> QED BY <3>1, <3>2
  <2>3. /\ data' \in Seq(Seq(Cell)) /\ Len(data') >= Len(data)
        /\ link' \in [Names -> 0 .. Len(data')]
        /\ settled' \subseteq Names
    <3>1. CASE link[Name(p)] = 0 /\ link' = [link EXCEPT ![Name(p)] = Len(data) + 1]
                 /\ data' = Append(data, <<>>) /\ UNCHANGED settled
      <4>1. data' \in Seq(Seq(Cell)) /\ Len(data') = Len(data) + 1
        BY <3>1, <1>t
      <4> QED BY <3>1, <4>1, <2>1, <1>t
    <3>2. CASE link[Name(p)] # 0 /\ link' = link /\ data' = [data EXCEPT ![link[Name(p)]] = <<>>]
                 /\ settled' = settled \ {Name(p)}
      <4>1. link[Name(p)] \in 1 .. Len(data)
        BY <3>2, <2>1, <1>t
      <4>2. data' \in Seq(Seq(Cell)) /\ Len(data') = Len(data)
        BY <3>2, <4>1, <1>t, ExceptSeq
      <4> QED BY <3>2, <4>2
    <3>3. CASE UNCHANGED <<link, data, settled>>
      BY <3>3, <1>t
    <3> QED BY <3>1, <3>2, <3>3, <1>3 DEF Create
  <2>4. ino' \in [Procs -> 0 .. Len(data')] /\ shared' \subseteq 1 .. Len(data')
    <3>1. Len(data') \in Nat
      BY <2>3
    <3>2. 0 .. Len(data) \subseteq 0 .. Len(data') /\ 1 .. Len(data) \subseteq 1 .. Len(data')
      BY <2>3, <3>1, <1>t
    <3>3. ino' \in [Procs -> 0 .. Len(data)] /\ shared' = shared
      BY <2>2, <1>3 DEF ProcessesTyped, Create
    <3> QED BY <3>2, <3>3
  <2> QED BY <1>3, <2>2, <2>3, <2>4 DEF Create, ProcessesTyped
<1>4. CASE OpenAborts(p)
  BY <1>4, TurnTypes DEF OpenAborts, ProcessesTyped
<1>5. CASE OpenGet(p)
  <2>1. Name(p) \in Names
    BY <1>5, <1>n DEF OpenGet, Active
  <2> QED BY <1>5, <2>1 DEF OpenGet
<1>6. CASE OpenSet(p)
  <2>1. Name(p) \in Names /\ op[p] \in Ops /\ Active(p)
    BY <1>6, NameFacts DEF OpenSet, Active
  <2>2. op[p].list \in Lists
    BY <2>1, <1>6 DEF OpenSet, Ops
  <2>3. Writes(op[p].list) \in Seq(Seq(Cell))
    BY <2>2, ListsAssumption, WritesType
  <2> DEFINE file == link[Name(p)]
  <2>4. file \in 1 .. Len(data)
    BY <1>6, <2>1, <1>t DEF OpenSet
  <2>5. data' = [data EXCEPT ![file] = <<>>]
    BY <1>6 DEF OpenSet
  <2>6. data' \in Seq(Seq(Cell)) /\ Len(data') = Len(data)
    BY <2>4, <2>5, <1>t, ExceptSeq
  <2>7. /\ pc' = [pc EXCEPT ![p] = "write"] /\ ino' = [ino EXCEPT ![p] = file]
        /\ pos' = [pos EXCEPT ![p] = 0] /\ out' = [out EXCEPT ![p] = Writes(op[p].list)]
        /\ settled' = settled \ {Name(p)}
        /\ shared' \in {shared \cup {file}, shared \ {file}}
        /\ UNCHANGED <<dirs, link, op, todo, seg, got, last, sure>>
    BY <1>6 DEF OpenSet
  <2> HIDE DEF file
  <2>8. shared' \subseteq 1 .. Len(data') /\ settled' \subseteq Names
    BY <2>4, <2>6, <2>7
  <2>9. ino' \in [Procs -> 0 .. Len(data')] /\ link' \in [Names -> 0 .. Len(data')]
    BY <2>4, <2>6, <2>7, <1>t
  <2>10. pos' \in [Procs -> Nat] /\ out' \in [Procs -> Seq(Seq(Cell))]
    BY <2>3, <2>7
  <2> QED BY <2>6, <2>7, <2>8, <2>9, <2>10
<1>7. CASE Fstat(p)
  <2>1. ino[p] \in 1 .. Len(data)
    BY <1>7, <1>t DEF Fstat, FilesHaveOneName, HasOwnFile
  <2>2. Len(data[ino[p]]) \in Nat
    BY <2>1
  <2> QED BY <1>7, <2>2 DEF Fstat
<1>8. CASE Read(p)
  <2>1. ino[p] \in 1 .. Len(data) /\ pos[p] \in Nat
    BY <1>8, <1>t DEF Read, FilesHaveOneName, HasOwnFile
  <2>2. data[ino[p]] \in Seq(Cell)
    BY <2>1
  <2>3. CASE Abort(p)
    BY <2>3, <1>8, TurnTypes DEF Read, ProcessesTyped
  <2>4. CASE ~Abort(p)
    <3>1. PICK g \in Parses(SubSeq(data[ino[p]], 1, pos[p])) :
            ~(Len(data[ino[p]]) < pos[p]) /\ Return(p, g)
      BY <2>4, <1>8 DEF Read
    <3>2. \A i \in 1 .. pos[p] : data[ino[p]][i] \in Cell
      BY <3>1, <2>1, <2>2
    <3>3. SubSeq(data[ino[p]], 1, pos[p]) \in Seq(Cell)
      BY <3>2, <2>1, SubSeqProperties
    <3>4. g \in Entries \cup {Null, Garbled}
      BY <3>1, <3>3, ParsesType
    <3>5. ProcessesTyped
      BY <3>1, <3>4, TurnTypes
    <3> QED BY <3>5, <1>8 DEF Read, ProcessesTyped
  <2> QED BY <2>3, <2>4
<1>9. CASE Write(p)
  <2>1. ino[p] \in 1 .. Len(data) /\ pos[p] \in Nat /\ out[p] \in Seq(Seq(Cell)) /\ out[p] # <<>>
    BY <1>9, <1>t DEF Write, FilesHaveOneName, HasOwnFile
  <2>2. PICK k \in 0 .. Len(Head(out[p])) :
          /\ data' = [data EXCEPT ![ino[p]] = Overlay(data[ino[p]], pos[p],
                                                     SubSeq(Head(out[p]), 1, k))]
          /\ pos' = [pos EXCEPT ![p] = pos[p] + k]
          /\ sure' = [sure EXCEPT ![p] = sure[p] /\ k = Len(Head(out[p]))]
    BY <1>9 DEF Write
  <2>3. Head(out[p]) \in Seq(Cell) /\ Tail(out[p]) \in Seq(Seq(Cell))
    BY <2>1
  <2>4. k \in Nat /\ pos[p] + k \in Nat
    BY <2>1, <2>3
  <2>5. SubSeq(Head(out[p]), 1, k) \in Seq(Cell)
    BY <2>3, <2>4, SubSeqProperties
  <2>6. Overlay(data[ino[p]], pos[p], SubSeq(Head(out[p]), 1, k)) \in Seq(Cell)
    <3>1. data[ino[p]] \in Seq(Cell)
      BY <2>1
    <3> QED BY <3>1, <2>1, <2>5, OverlayFacts
  <2>7. data' \in Seq(Seq(Cell)) /\ Len(data') = Len(data)
    BY <2>1, <2>2, <2>6, ExceptSeq
  <2>8. pos' \in [Procs -> Nat] /\ sure' \in [Procs -> BOOLEAN]
    BY <2>2, <2>4
  <2>9. out' = [out EXCEPT ![p] = Tail(out[p])]
        /\ UNCHANGED <<dirs, link, pc, op, todo, seg, ino, got, last, settled, shared>>
    BY <1>9 DEF Write
  <2> QED BY <2>3, <2>7, <2>8, <2>9
<1>10. CASE WriteLast(p)
  <2>1. /\ ino[p] \in 1 .. Len(data) /\ pos[p] \in Nat /\ out[p] \in Seq(Seq(Cell))
        /\ out[p] # <<>> /\ Active(p)
    <3>1. pc[p] = "write" /\ Len(out[p]) = 1
      BY <1>10 DEF WriteLast
    <3>2. ino[p] \in 1 .. Len(data)
      BY <3>1, <1>t DEF FilesHaveOneName, HasOwnFile
    <3>3. out[p] # <<>>
      BY <3>1 DEF OperationInStep, InStep
    <3> QED BY <3>1, <3>2, <3>3 DEF Active
  <2>2. PICK k \in 0 .. Len(Head(out[p])) :
          data' = [data EXCEPT ![ino[p]] = Overlay(data[ino[p]], pos[p],
                                                   SubSeq(Head(out[p]), 1, k))]
    BY <1>10 DEF WriteLast
  <2>3. Head(out[p]) \in Seq(Cell)
    BY <2>1
  <2>4. SubSeq(Head(out[p]), 1, k) \in Seq(Cell)
    BY <2>3, SubSeqProperties
  <2>5. Overlay(data[ino[p]], pos[p], SubSeq(Head(out[p]), 1, k)) \in Seq(Cell)
    <3>1. data[ino[p]] \in Seq(Cell)
      BY <2>1
    <3> QED BY <3>1, <2>1, <2>4, OverlayFacts
  <2>6. data' \in Seq(Seq(Cell)) /\ Len(data') = Len(data)
    BY <2>1, <2>2, <2>5, ExceptSeq
  <2>7. op[p].op = "set"
    BY <1>10 DEF WriteLast, OperationInStep, InStep
  <2>8. Name(p) \in Names /\ Head(todo[p]) \in Entries
    BY <2>1, <2>7, NameFacts
  <2>9. ProcessesTyped
    BY <1>10, TurnTypes DEF WriteLast
  <2>10. /\ last' = [last EXCEPT ![Name(p)] = Head(todo[p])]
         /\ settled' \in {settled \cup {Name(p)}, settled \ {Name(p)}}
         /\ UNCHANGED <<dirs, link, sure, shared>>
    BY <1>10 DEF WriteLast
  <2> QED BY <2>6, <2>8, <2>9, <2>10 DEF ProcessesTyped
<1>11. CASE Unlink(p)
  <2>1. Name(p) \in Names
    BY <1>11, <1>n DEF Unlink, Active
  <2>2. ProcessesTyped
    BY <1>11, TurnTypes DEF Unlink
  <2>3. /\ link' = [link EXCEPT ![Name(p)] = 0] /\ last' = [last EXCEPT ![Name(p)] = Null]
        /\ settled' \in {settled \cup {Name(p)}, settled \ {Name(p)}}
        /\ UNCHANGED <<dirs, data, sure, shared>>
    BY <1>11 DEF Unlink
  <2>4. 0 \in 0 .. Len(data)
    BY <1>t
  <2>5. link' \in [Names -> 0 .. Len(data')] /\ last' \in [Names -> Entries \cup {Null}]
    BY <2>3, <2>4
  <2> QED BY <2>1, <2>2, <2>3, <2>5 DEF ProcessesTyped
<1>12. CASE Crash(p)
  BY <1>12, TurnTypes DEF Crash, ProcessesTyped
<1>13. ASSUME NEW o \in Ops, Begin(p, o)
       PROVE  TypeOK'
  <2>1. o.op = "set" => o.list \in Seq(Entries)
    BY ListsAssumption DEF Ops
  <2>2. todo' \in [Procs -> Seq(Entries)]
    BY <1>13, <2>1 DEF Begin
  <2>3. sure' \in [Procs -> BOOLEAN]
    BY <1>13 DEF Begin
  <2> QED BY <1>13, <2>2, <2>3 DEF Begin
<1> QED
  BY <1>0, <1>1, <1>2, <1>3, <1>4, <1>5, <1>6, <1>7, <1>8, <1>9, <1>10, <1>11, <1>12, <1>13
     DEF Call

\* The turn of an entry ends the operation or goes on with the next entry.
LEMMA TurnInStep ==
  ASSUME TypeOK, OperationInStep, NEW p \in Procs,
         \/ (NextEntry(p) /\ op[p].op = "set") \/ NoMatch(p) \/ Abort(p)
         \/ \E g \in Entries \cup {Null, Garbled} : Return(p, g),
         Active(p)
  PROVE  /\ InStep(p)'
         /\ \/ ~Active(p)' /\ op'[p] = NoOp
            \/ /\ pc'[p] = "walk" /\ seg'[p] = 0 /\ op'[p] = op[p] /\ Len(todo[p]) > 1
               /\ Len(todo'[p]) = Len(todo[p]) - 1
<1> USE DEF TypeOK
<1>0. NoOp.op = "none"
  BY DEF NoOp
<1>1. ASSUME NEW g \in Entries \cup {Null, Garbled}, Return(p, g)
      PROVE  pc'[p] = "idle" /\ op'[p] = NoOp
  BY <1>1 DEF Return, Goto
<1>2. ASSUME Abort(p)
      PROVE  pc'[p] = "dead" /\ op'[p] = NoOp
  BY <1>2 DEF Abort, Goto
<1>3. CASE pc'[p] \in {"idle", "dead"} /\ op'[p] = NoOp
  BY <1>3, <1>0 DEF InStep, Active
<1>4. CASE NextEntry(p) /\ op[p].op = "set" /\ Len(todo[p]) > 1
  <2>1. /\ pc'[p] = "walk" /\ todo'[p] = Tail(todo[p]) /\ seg'[p] = 0 /\ op'[p] = op[p]
    <3>1. ~(Len(todo[p]) <= 1)
      BY <1>4
    <3> QED BY <1>4, <3>1 DEF NextEntry, Goto
  <2>2. todo[p] \in Seq(Entries) /\ todo[p] # <<>>
    BY <1>4
  <2>3. /\ Tail(todo[p]) \in Seq(Entries) /\ Len(Tail(todo[p])) = Len(todo[p]) - 1
        /\ \A k \in 1 .. Len(Tail(todo[p])) : Tail(todo[p])[k] = todo[p][k+1]
    BY <2>2, HeadTailProperties
  <2>4. \A k \in 1 .. Len(Tail(todo[p])) : Tail(todo[p])[k].name \in Touches(op[p])
    <3>1. \A k \in 1 .. Len(todo[p]) : todo[p][k].name \in Touches(op[p])
      BY <1>4 DEF OperationInStep, InStep
    <3>2. Len(todo[p]) \in Nat
      BY <2>2
    <3> QED BY <3>1, <3>2, <2>3
  <2>5. Tail(todo[p]) # <<>> /\ Head(Tail(todo[p])) \in Entries
    <3>1. \A t \in Seq(Entries) : Len(t) > 0 => t # <<>> /\ Head(t) \in Entries
      OBVIOUS
    <3>2. Len(Tail(todo[p])) > 0
      BY <2>3, <1>4
    <3> QED BY <3>1, <3>2, <2>3
  <2>6. Len(Name(p))' \in Nat \ {0}
    <3>1. Name(p)' = Head(Tail(todo[p])).name
      BY <1>4, <2>1 DEF Name
    <3>2. Head(Tail(todo[p])).name \in Names
      BY <2>5 DEF Entries
    <3>3. \A n \in Names : Len(n) \in Nat \ {0}
      BY NamesAssumption
    <3> QED BY <3>1, <3>2, <3>3
  <2>7. op[p] # NoOp
    BY <1>4, <1>0
  <2> QED BY <1>4, <2>1, <2>3, <2>4, <2>5, <2>6, <2>7 DEF InStep, Active
<1>5. CASE NextEntry(p) /\ Len(todo[p]) <= 1
  <2>1. Return(p, Null)
    BY <1>5 DEF NextEntry
  <2> QED BY <2>1, <1>1, <1>3
<1>6. CASE NoMatch(p)
  <2>1. CASE op[p].op = "set"
    <3>1. Len(todo[p]) \in Nat
      OBVIOUS
    <3> QED BY <3>1, <2>1, <1>6, <1>4, <1>5 DEF NoMatch
  <2>2. CASE op[p].op # "set"
    BY <2>2, <1>6, <1>1, <1>3 DEF NoMatch
  <2> QED BY <2>1, <2>2
<1> QED
  <2>1. Len(todo[p]) \in Nat
    OBVIOUS
  <2> QED BY <2>1, <1>1, <1>2, <1>3, <1>4, <1>5, <1>6

\* The step of a process keeps what is in hand at each place.
LEMMA OperationPreserved ==
  ASSUME TypeOK, OperationInStep, Next
  PROVE  OperationInStep'
<1>0. PICK p \in Procs : Call(p) \/ Crash(p) \/ \E o \in Ops : Begin(p, o)
  BY DEF Next
<1>1. ASSUME NEW q \in Procs, q # p
      PROVE  InStep(q)'
  <2>1. /\ pc'[q] = pc[q] /\ op'[q] = op[q] /\ todo'[q] = todo[q] /\ seg'[q] = seg[q]
        /\ out'[q] = out[q]
    BY <1>0, <1>1, OthersStay
  <2>2. Name(q)' = Name(q)
    BY <2>1 DEF Name
  <2> QED BY <2>1, <2>2 DEF OperationInStep, InStep, Active
<1>2. InStep(p)'
  <2> USE DEF TypeOK, Goto, work
  <2>n. Active(p) => Name(p) \in Names /\ Len(Name(p)) \in Nat \ {0}
    BY NameFacts
  <2>i. InStep(p)
    BY DEF OperationInStep
  <2>t. ASSUME UNCHANGED <<op, todo>>
        PROVE  Name(p)' = Name(p)
    BY <2>t DEF Name
  <2>1. CASE Walk(p)
    <3>a. Active(p) /\ seg[p] \in Nat /\ seg[p] < Len(Name(p))
      BY <2>1, <2>i DEF Walk, Active, InStep
    <3>1. CASE NoMatch(p)
      BY <3>1, <3>a, TurnInStep
    <3>2. CASE ~NoMatch(p)
      <4> DEFINE dir == SubSeq(Name(p), 1, seg[p] + 1)
      <4>1. /\ seg' = [seg EXCEPT ![p] = seg[p] + 1]
            /\ pc' = [pc EXCEPT ![p] = IF dir = Name(p) THEN "stat" ELSE "walk"]
            /\ UNCHANGED <<op, todo, out>>
        BY <3>2, <2>1 DEF Walk
      <4>2. seg[p] + 1 = Len(Name(p)) => dir = Name(p)
        BY <3>a, <2>n, NamesAssumption, SubSeqFull
      <4>3. dir # Name(p) => seg[p] + 1 < Len(Name(p))
        BY <3>a, <4>2, <2>n
      <4> HIDE DEF dir
      <4>4. pc'[p] \in {"stat", "walk"} /\ op'[p] = op[p] /\ todo'[p] = todo[p] /\ out'[p] = out[p]
            /\ seg'[p] = seg[p] + 1 /\ (pc'[p] = "walk" => dir # Name(p))
        BY <4>1
      <4>5. Name(p)' = Name(p)
        BY <4>1, <2>t
      <4> QED BY <4>3, <4>4, <4>5, <2>i, <3>a DEF InStep, Active
    <3> QED BY <3>1, <3>2
  <2>2. CASE Stat(p)
    <3>a. Active(p)
      BY <2>2 DEF Stat, Active
    <3>1. CASE NoMatch(p)
      BY <3>1, <3>a, TurnInStep
    <3>2. CASE ~NoMatch(p)
      BY <3>2, <3>a, <2>2, <2>t, <2>i DEF Stat, InStep, Active
    <3> QED BY <3>1, <3>2
  <2>3. CASE Create(p)
    <3>a. Active(p) /\ op[p].op = "set"
      BY <2>3, <2>i DEF Create, Active, InStep
    <3>1. CASE NextEntry(p)
      BY <3>1, <3>a, TurnInStep
    <3>2. CASE ~NextEntry(p)
      BY <3>2, <3>a, <2>3, <2>t, <2>i DEF Create, InStep, Active
    <3> QED BY <3>1, <3>2
  <2>4. CASE OpenAborts(p)
    BY <2>4, TurnInStep DEF OpenAborts, Active
  <2>5. CASE OpenGet(p)
    BY <2>5, <2>t, <2>i DEF OpenGet, InStep, Active
  <2>6. CASE OpenSet(p)
    <3>1. op[p].list \in Seq(Entries) \ {<<>>}
      BY <2>6, NameFacts, ListsAssumption DEF OpenSet, Active, Ops
    <3>2. Writes(op[p].list) # <<>>
      BY <3>1, WritesType
    <3> QED BY <3>2, <2>6, <2>t, <2>i DEF OpenSet, InStep, Active
  <2>7. CASE Fstat(p)
    BY <2>7, <2>t, <2>i DEF Fstat, InStep, Active
  <2>8. CASE Read(p)
    <3>1. Active(p) /\ op[p].op # "set"
      BY <2>8, <2>i DEF Read, Active, InStep
    <3>2. CASE Abort(p)
      BY <3>1, <3>2, TurnInStep
    <3>3. ASSUME NEW g, Return(p, g)
          PROVE  InStep(p)'
      BY <3>3 DEF Return, InStep, Active, NoOp
    <3> QED BY <3>2, <3>3, <2>8 DEF Read
  <2>9. CASE Write(p)
    <3>1. out[p] \in Seq(Seq(Cell)) /\ Len(out[p]) > 1
      BY <2>9 DEF Write
    <3>2. Tail(out[p]) # <<>>
      <4> DEFINE s == out[p]
                 t == Tail(out[p])
      <4>1. Len(t) = Len(s) - 1 /\ Len(s) > 1 /\ Len(s) \in Nat
        BY <3>1, HeadTailProperties
      <4> HIDE DEF s, t
      <4>2. t # <<>>
        BY <4>1
      <4> QED BY <4>2 DEF t
    <3> QED BY <3>2, <2>9, <2>t, <2>i DEF Write, InStep, Active
  <2>10. CASE WriteLast(p)
    <3>1. Active(p) /\ op[p].op = "set"
      BY <2>10, <2>i DEF WriteLast, Active, InStep
    <3> QED BY <3>1, <2>10, TurnInStep DEF WriteLast
  <2>11. CASE Unlink(p)
    BY <2>11, TurnInStep DEF Unlink, Active
  <2>12. CASE Crash(p)
    BY <2>12, TurnInStep DEF Crash, Active
  <2>13. ASSUME NEW o \in Ops, Begin(p, o)
         PROVE  InStep(p)'
    <3>1. pc'[p] = "walk" /\ op'[p] = o /\ seg'[p] = 0
          /\ todo'[p] = IF o.op = "set" THEN o.list ELSE <<>>
      BY <2>13 DEF Begin
    <3>2. CASE o.op = "set"
      <4>1. o.list \in Seq(Entries) \ {<<>>} /\ Len(o.list) \in Nat
        BY <3>2, ListsAssumption DEF Ops
      <4>2. \A k \in 1 .. Len(o.list) : o.list[k].name \in Touches(o)
        BY <3>2 DEF Touches
      <4>3. Name(p)' = Head(o.list).name /\ Head(o.list) \in Entries
        BY <3>1, <3>2, <4>1 DEF Name
      <4>4. Len(Name(p))' \in Nat \ {0}
        BY <4>3, NamesAssumption DEF Entries
      <4> QED BY <3>1, <3>2, <4>1, <4>2, <4>4 DEF InStep, Active, NoOp
    <3>3. CASE o.op # "set"
      <4>1. o.name \in Names /\ o.op \in {"get", "rm"}
        BY <3>3 DEF Ops
      <4>2. Name(p)' = o.name
        BY <3>1, <3>3 DEF Name
      <4>3. Len(Name(p))' \in Nat \ {0}
        BY <4>1, <4>2, NamesAssumption
      <4> QED BY <3>1, <3>3, <4>1, <4>3 DEF InStep, Active, NoOp
    <3> QED BY <3>2, <3>3
  <2> QED
    BY <1>0, <2>1, <2>2, <2>3, <2>4, <2>5, <2>6, <2>7, <2>8, <2>9, <2>10, <2>11, <2>12, <2>13
       DEF Call
<1> QED
  BY <1>1, <1>2 DEF OperationInStep

\* One step of p.
StepOf(p) == Call(p) \/ Crash(p) \/ \E o \in Ops : Begin(p, o)

\* What a step may do to the names and the contents of the files.
FileStep(p) ==
  \/ UNCHANGED <<link, data>>
  \/ /\ pc[p] = "create" /\ link[Name(p)] = 0
     /\ link' = [link EXCEPT ![Name(p)] = Len(data) + 1]
     /\ data' = Append(data, <<>>)
  \/ /\ pc[p] \in {"create", "open"} /\ op[p].op = "set" /\ link[Name(p)] # 0
     /\ link' = link
     /\ data' = [data EXCEPT ![link[Name(p)]] = <<>>]
  \/ /\ pc[p] = "write"
     /\ link' = link
     /\ \E k \in 0 .. Len(Head(out[p])) :
          data' = [data EXCEPT ![ino[p]] =
                     Overlay(@, pos[p], SubSeq(Head(out[p]), 1, k))]
  \/ /\ pc[p] = "unlink"
     /\ link' = [link EXCEPT ![Name(p)] = 0]
     /\ data' = data

LEMMA FileSteps ==
  ASSUME TypeOK, OperationInStep, NEW p \in Procs, StepOf(p)
  PROVE  FileStep(p)
<1> USE DEF FileStep, files
<1>1. CASE Walk(p) \/ Stat(p) \/ OpenAborts(p) \/ OpenGet(p) \/ Fstat(p) \/ Read(p)
  BY <1>1 DEF Walk, Stat, OpenAborts, OpenGet, Fstat, Read
<1>2. CASE Create(p)
  <2>1. op[p].op = "set" /\ pc[p] = "create"
    BY <1>2 DEF Create, OperationInStep, InStep
  <2> QED BY <2>1, <1>2 DEF Create
<1>3. CASE OpenSet(p)
  BY <1>3 DEF OpenSet
<1>4. CASE Write(p)
  BY <1>4 DEF Write
<1>5. CASE WriteLast(p)
  BY <1>5 DEF WriteLast
<1>6. CASE Unlink(p) \/ Crash(p) \/ \E o \in Ops : Begin(p, o)
  BY <1>6 DEF Unlink, Crash, Begin
<1> QED
  BY <1>1, <1>2, <1>3, <1>4, <1>5, <1>6 DEF Call, StepOf

\* After its own step a process has a file open because it has opened it now, or
\* had it open before.
LEMMA OpenSteps ==
  ASSUME TypeOK, OperationInStep, NEW p \in Procs, StepOf(p),
         pc'[p] \in {"fstat", "read", "write"}
  PROVE  /\ link' = link /\ op'[p] = op[p] /\ todo'[p] = todo[p] /\ Name(p)' = Name(p)
         /\ Active(p) /\ (sure'[p] => sure[p])
         /\ \/ /\ pc[p] = "open" /\ link[Name(p)] # 0 /\ ino'[p] = link[Name(p)]
               /\ pc'[p] = IF op[p].op = "get" THEN "fstat" ELSE "write"
            \/ /\ pc[p] = "fstat" /\ pc'[p] = "read" /\ ino'[p] = ino[p] /\ data' = data
               /\ pos'[p] = Len(data[ino[p]])
            \/ pc[p] = "write" /\ pc'[p] = "write" /\ ino'[p] = ino[p]
<1> USE DEF TypeOK, Goto, files, work, history, Active
<1>t. ASSUME op'[p] = op[p], todo'[p] = todo[p]
      PROVE  Name(p)' = Name(p)
  BY <1>t DEF Name
<1>e. NextEntry(p) => pc'[p] \in {"idle", "walk"}
  BY DEF NextEntry, Return
<1>r. \A g : Return(p, g) => pc'[p] = "idle"
  BY DEF Return
<1>1. ~Walk(p)
  <2>1. NoMatch(p) => pc'[p] \in {"idle", "walk"}
    BY <1>e, <1>r DEF NoMatch
  <2> QED BY <2>1 DEF Walk
<1>2. ~Stat(p)
  <2>1. NoMatch(p) => pc'[p] \in {"idle", "walk"}
    BY <1>e, <1>r DEF NoMatch
  <2> QED BY <2>1 DEF Stat
<1>3. ~Create(p)
  BY <1>e DEF Create
<1>4. ~OpenAborts(p) /\ ~Read(p)
  BY <1>r DEF OpenAborts, Read, Abort
<1>5. ~WriteLast(p) /\ ~Unlink(p) /\ ~Crash(p)
  BY <1>e, <1>r DEF WriteLast, Unlink, Crash
<1>6. ~ \E o \in Ops : Begin(p, o)
  BY DEF Begin
<1>7. CASE OpenGet(p)
  BY <1>7, <1>t DEF OpenGet
<1>8. CASE OpenSet(p)
  BY <1>8, <1>t DEF OpenSet
<1>9. CASE Fstat(p)
  BY <1>9, <1>t DEF Fstat
<1>10. CASE Write(p)
  BY <1>10, <1>t DEF Write
<1> QED
  BY <1>1, <1>2, <1>3, <1>4, <1>5, <1>6, <1>7, <1>8, <1>9, <1>10 DEF StepOf, Call

\* Files keep to one name.
LEMMA OneNamePreserved ==
  ASSUME TypeOK, OperationInStep, FilesHaveOneName, Next
  PROVE  FilesHaveOneName'
<1>0. PICK p \in Procs : StepOf(p)
  BY DEF Next, StepOf
<1>1. FileStep(p)
  BY <1>0, FileSteps
<1>t. /\ Len(data) \in Nat /\ link \in [Names -> 0 .. Len(data)]
      /\ \A q \in Procs : ino[q] \in 0 .. Len(data)
  BY DEF TypeOK
<1>2. \A m, n \in Names : link'[m] # 0 /\ link'[m] = link'[n] => m = n
  BY <1>1, <1>t DEF FileStep, FilesHaveOneName
<1>3. ASSUME NEW q \in Procs, q # p
      PROVE  HasOwnFile(q)'
  <2>1. pc'[q] = pc[q] /\ ino'[q] = ino[q] /\ Name(q)' = Name(q)
    BY <1>0, <1>3, OthersStay DEF StepOf, Name
  <2>2. HasOwnFile(q)
    BY DEF FilesHaveOneName
  <2>3. ASSUME NEW n \in Names, link'[n] = ino[q], ino[q] # 0
        PROVE  link[n] = ino[q]
    BY <2>3, <1>1, <1>t DEF FileStep
  <2> QED BY <2>1, <2>2, <2>3 DEF HasOwnFile
<1>4. HasOwnFile(p)'
  <2> SUFFICES ASSUME pc'[p] \in {"fstat", "read", "write"}
               PROVE  ino'[p] # 0 /\ \A n \in Names : link'[n] = ino'[p] => n = Name(p)'
    BY DEF HasOwnFile
  <2>1. /\ link' = link /\ Name(p)' = Name(p) /\ Active(p)
        /\ \/ link[Name(p)] # 0 /\ ino'[p] = link[Name(p)]
           \/ pc[p] \in {"fstat", "write"} /\ ino'[p] = ino[p]
    BY <1>0, OpenSteps
  <2>2. Name(p) \in Names
    BY <2>1, NameFacts
  <2> QED BY <2>1, <2>2 DEF FilesHaveOneName, HasOwnFile
<1> QED
  BY <1>2, <1>3, <1>4 DEF FilesHaveOneName

\* Conflicts are mutual, and nothing conflicts with no operation.
LEMMA ConflictFacts ==
  /\ \A a, b : Conflict(a, b) => Conflict(b, a)
  /\ \A a : ~Conflict(a, NoOp)
<1>1. Touches(NoOp) = {}
  BY DEF Touches, NoOp
<1> QED
  BY <1>1 DEF Conflict

LEMMA AlonePreserved ==
  ASSUME TypeOK, OperationInStep, SureIsAlone, Next
  PROVE  SureIsAlone'
<1>0. PICK p \in Procs : StepOf(p)
  BY DEF Next, StepOf
<1>1. CASE \E o \in Ops : Begin(p, o)
  <2>1. PICK o \in Ops : Begin(p, o)
    BY <1>1
  <2>2. /\ op' = [op EXCEPT ![p] = o]
        /\ sure' = [q \in Procs |->
                      IF q = p THEN \A r \in Procs \ {p} : ~Conflict(o, op[r])
                      ELSE sure[q] /\ ~Conflict(o, op[q])]
    BY <2>1 DEF Begin
  <2>3. \A q \in Procs : op'[q] = IF q = p THEN o ELSE op[q]
    BY <2>2 DEF TypeOK
  <2> SUFFICES ASSUME NEW q \in Procs, NEW r \in Procs \ {q}, sure'[q]
               PROVE  ~Conflict(op'[q], op'[r])
    BY DEF SureIsAlone
  <2>4. CASE q = p
    BY <2>2, <2>3, <2>4
  <2>5. CASE q # p
    <3>1. sure[q] /\ ~Conflict(o, op[q])
      BY <2>2, <2>5
    <3> QED BY <3>1, <2>3, <2>5, ConflictFacts DEF SureIsAlone
  <2> QED BY <2>4, <2>5
<1>2. CASE Call(p) \/ Crash(p)
  <2>1. op'[p] \in {op[p], NoOp} /\ (sure'[p] => sure[p])
    <3> USE DEF TypeOK, Goto, Return, NextEntry, NoMatch, Abort, work, files, history
    <3>1. CASE Walk(p) \/ Stat(p) \/ Create(p)
      BY <3>1 DEF Walk, Stat, Create
    <3>2. CASE OpenAborts(p) \/ OpenGet(p) \/ OpenSet(p) \/ Fstat(p)
      BY <3>2 DEF OpenAborts, OpenGet, OpenSet, Fstat
    <3>3. CASE Read(p)
      BY <3>3 DEF Read
    <3>4. CASE Write(p) \/ WriteLast(p)
      BY <3>4 DEF Write, WriteLast
    <3>5. CASE Unlink(p) \/ Crash(p)
      BY <3>5 DEF Unlink, Crash
    <3> QED BY <1>2, <3>1, <3>2, <3>3, <3>4, <3>5 DEF Call
  <2>2. \A q \in Procs : op'[q] \in {op[q], NoOp} /\ (sure'[q] => sure[q])
    BY <2>1, <1>0, OthersStay DEF StepOf
  <2> SUFFICES ASSUME NEW q \in Procs, NEW r \in Procs \ {q}, sure'[q]
               PROVE  ~Conflict(op'[q], op'[r])
    BY DEF SureIsAlone
  <2>3. ~Conflict(op[q], op[r])
    BY <2>2 DEF SureIsAlone
  <2> QED BY <2>2, <2>3, ConflictFacts
<1> QED
  BY <1>0, <1>1, <1>2 DEF StepOf

\* A sure operation and a change by another process concern different values.
LEMMA Undisturbed ==
  ASSUME TypeOK, OperationInStep, SureIsAlone,
         NEW p \in Procs, NEW q \in Procs \ {p}, sure[q], Active(p), Active(q),
         op[p].op # "get" \/ op[q].op # "get"
  PROVE  Name(p) # Name(q)
<1>1. Name(p) \in Touches(op[p]) /\ Name(q) \in Touches(op[q])
  BY NameFacts
<1>2. ~Conflict(op[q], op[p])
  BY DEF SureIsAlone
<1> QED
  BY <1>1, <1>2 DEF Conflict

\* Nobody changes the file a sure operation of another process has open.
LEMMA SureFileStays ==
  ASSUME TypeOK, OperationInStep, FilesHaveOneName, SureIsAlone, SureFindsItsFile,
         NEW p \in Procs, StepOf(p), NEW q \in Procs \ {p}, sure[q],
         pc[q] \in {"fstat", "read", "write"}
  PROVE  /\ link[Name(q)] = ino[q] /\ ino[q] \in 1 .. Len(data)
         /\ link'[Name(q)] = ino[q] /\ data'[ino[q]] = data[ino[q]]
<1>1. FileStep(p)
  BY FileSteps
<1>t. /\ Len(data) \in Nat /\ link \in [Names -> 0 .. Len(data)] /\ data \in Seq(Seq(Cell))
      /\ ino[q] \in 0 .. Len(data)
  BY DEF TypeOK
<1>a. ASSUME pc[p] \in {"create", "open", "write", "unlink"}
      PROVE  Active(p) /\ Name(p) \in Names
  BY <1>a, NameFacts DEF Active
<1>2. link[Name(q)] = ino[q] /\ Active(q) /\ Name(q) \in Names
  BY NameFacts DEF SureFindsItsFile, FindsItsFile, Active
<1>3. ino[q] # 0 /\ ino[q] \in 1 .. Len(data)
  BY <1>t DEF FilesHaveOneName, HasOwnFile
<1>4. pc[p] \in {"unlink", "create", "write"} => op[p].op # "get"
  BY DEF OperationInStep, InStep
<1>5. Active(p) /\ op[p].op # "get" => Name(q) # Name(p)
  BY <1>2, Undisturbed
<1>6. link'[Name(q)] = ino[q]
  BY <1>1, <1>2, <1>3, <1>4, <1>5, <1>a, <1>t DEF FileStep
<1>7. data'[ino[q]] = data[ino[q]]
  <2>1. CASE data' = data
    BY <2>1
  <2>2. CASE data' = Append(data, <<>>)
    BY <2>2, <1>3, <1>t
  <2>3. ASSUME op[p].op = "set", link[Name(p)] # 0, pc[p] \in {"create", "open"},
               data' = [data EXCEPT ![link[Name(p)]] = <<>>]
        PROVE  data'[ino[q]] = data[ino[q]]
    <3>1. Name(q) # Name(p) /\ Name(p) \in Names
      BY <2>3, <1>5, <1>a
    <3>2. link[Name(p)] # ino[q]
      BY <3>1, <1>2, <2>3 DEF FilesHaveOneName
    <3> QED BY <3>2, <2>3, <1>3, <1>t
  <2>4. ASSUME pc[p] = "write",
               NEW cells, data' = [data EXCEPT ![ino[p]] = Overlay(@, pos[p], cells)]
        PROVE  data'[ino[q]] = data[ino[q]]
    <3>1. Name(q) # Name(p) /\ Name(p) \in Names
      BY <2>4, <1>4, <1>5, <1>a
    <3>2. ino[p] # ino[q]
      BY <3>1, <1>2, <2>4 DEF FilesHaveOneName, HasOwnFile
    <3> QED BY <3>2, <2>4, <1>3, <1>t
  <2> QED BY <2>1, <2>2, <2>3, <2>4, <1>1 DEF FileStep
<1> QED
  BY <1>2, <1>3, <1>6, <1>7

\* Sure operations find their files, and do not abort.
LEMMA FindsPreserved ==
  ASSUME TypeOK, OperationInStep, FilesHaveOneName, SureIsAlone, SureFindsItsFile,
         AbortsInRacesOnly, Next, TypeOK'
  PROVE  SureFindsItsFile' /\ AbortsInRacesOnly'
<1>0. PICK p \in Procs : StepOf(p)
  BY DEF Next, StepOf
<1>1. FileStep(p)
  BY <1>0, FileSteps
<1>t. /\ Len(data) \in Nat /\ link \in [Names -> 0 .. Len(data)] /\ data \in Seq(Seq(Cell))
      /\ \A q \in Procs : ino[q] \in 0 .. Len(data)
  BY DEF TypeOK
<1>a. ASSUME pc[p] \in {"create", "open", "write", "unlink"}
      PROVE  Active(p) /\ Name(p) \in Names
  BY <1>a, NameFacts DEF Active
<1>2. ASSUME NEW q \in Procs, q # p, sure'[q]
      PROVE  FindsItsFile(q)' /\ pc'[q] # "dead"
  <2>1. /\ pc'[q] = pc[q] /\ ino'[q] = ino[q] /\ Name(q)' = Name(q) /\ pos'[q] = pos[q]
        /\ sure[q]
    BY <1>0, <1>2, OthersStay DEF StepOf, Name
  <2>2. pc[q] # "dead" /\ FindsItsFile(q)
    BY <2>1 DEF AbortsInRacesOnly, SureFindsItsFile
  <2>3. Active(q) /\ Active(p) /\ op[p].op # "get" => Name(q) # Name(p)
    BY <1>2, <2>1, Undisturbed
  <2>4. CASE pc[q] = "open"
    <3>1. link[Name(q)] # 0 /\ Active(q) /\ Name(q) \in Names
      BY <2>1, <2>2, <2>4, NameFacts DEF FindsItsFile, Active
    <3>2. pc[p] = "unlink" => op[p].op # "get"
      BY DEF OperationInStep, InStep
    <3>3. link'[Name(q)] # 0
      BY <3>1, <3>2, <2>3, <1>1, <1>a, <1>t DEF FileStep
    <3> QED BY <2>1, <2>2, <2>4, <3>3 DEF FindsItsFile
  <2>5. CASE pc[q] \in {"fstat", "read", "write"}
    <3>1. link'[Name(q)] = ino[q] /\ data'[ino[q]] = data[ino[q]]
      BY <1>0, <1>2, <2>1, <2>5, SureFileStays
    <3> QED BY <2>1, <2>2, <2>5, <3>1 DEF FindsItsFile
  <2>6. CASE pc[q] \notin {"open", "fstat", "read", "write"}
    BY <2>1, <2>2, <2>6 DEF FindsItsFile
  <2> QED BY <2>4, <2>5, <2>6
<1>3. ASSUME sure'[p]
      PROVE  FindsItsFile(p)'
  <2>1. CASE pc'[p] = "open"
    <3> USE DEF Goto, TypeOK, work, files
    <3>n. Active(p) => Name(p) \in Names
      BY NameFacts
    <3>m. op' = op /\ todo' = todo => Name(p)' = Name(p)
      BY DEF Name
    <3>1. CASE Stat(p)
      <4>1. ~NoMatch(p)
        BY <2>1 DEF NoMatch, NextEntry, Return
      <4>2. link[Name(p)] # 0 /\ link' = link /\ Name(p)' = Name(p)
        BY <3>1, <4>1, <2>1, <3>m DEF Stat
      <4> QED BY <4>2, <2>1 DEF FindsItsFile
    <3>2. CASE Create(p)
      <4>1. ~NextEntry(p)
        BY <2>1 DEF NextEntry, Return
      <4>2. link'[Name(p)] # 0 /\ Name(p)' = Name(p)
        BY <3>2, <4>1, <3>m, <3>n, <1>t DEF Create, Active
      <4> QED BY <4>2, <2>1 DEF FindsItsFile
    <3>3. CASE Walk(p)
      <4>1. ~NoMatch(p)
        BY <2>1 DEF NoMatch, NextEntry, Return
      <4> QED BY <3>3, <4>1, <2>1 DEF Walk
    <3>4. CASE OpenAborts(p) \/ OpenGet(p) \/ OpenSet(p) \/ Fstat(p) \/ Read(p)
      BY <3>4, <2>1 DEF OpenAborts, OpenGet, OpenSet, Fstat, Read, Abort, Return
    <3>5. CASE Write(p)
      BY <3>5, <2>1 DEF Write
    <3>6. CASE WriteLast(p) \/ Unlink(p) \/ Crash(p) \/ \E o \in Ops : Begin(p, o)
      BY <3>6, <2>1 DEF WriteLast, NextEntry, Unlink, Crash, Begin, Return
    <3> QED BY <1>0, <3>1, <3>2, <3>3, <3>4, <3>5, <3>6 DEF StepOf, Call
  <2>2. CASE pc'[p] \in {"fstat", "read", "write"}
    <3>1. /\ link' = link /\ Name(p)' = Name(p) /\ sure[p]
          /\ \/ /\ pc[p] = "open" /\ ino'[p] = link[Name(p)]
                /\ pc'[p] # "read"
             \/ /\ pc[p] = "fstat" /\ ino'[p] = ino[p] /\ data' = data
                /\ pos'[p] = Len(data[ino[p]])
             \/ pc[p] = "write" /\ pc'[p] = "write" /\ ino'[p] = ino[p]
      BY <1>0, <1>3, <2>2, OpenSteps
    <3>2. FindsItsFile(p)
      BY DEF SureFindsItsFile
    <3> QED BY <3>1, <3>2, <2>2 DEF FindsItsFile
  <2> QED BY <2>1, <2>2 DEF FindsItsFile
<1>4. ASSUME pc'[p] = "dead"
      PROVE  ~sure'[p]
  <2> USE DEF Goto, TypeOK, work, files, history
  <2>e. ~NextEntry(p) /\ ~NoMatch(p) /\ \A g : ~Return(p, g)
    BY <1>4 DEF NextEntry, NoMatch, Return
  <2>i. FindsItsFile(p)
    BY DEF SureFindsItsFile
  <2>1. CASE OpenAborts(p)
    BY <2>1, <2>i DEF OpenAborts, FindsItsFile
  <2>2. CASE Read(p)
    <3>1. Len(data[ino[p]]) < pos[p] /\ pc[p] = "read" /\ sure' = sure
      BY <2>2, <2>e DEF Read
    <3>2. ino[p] \in 1 .. Len(data)
      BY <3>1, <1>t DEF FilesHaveOneName, HasOwnFile
    <3>3. Len(data[ino[p]]) \in Nat
      BY <3>2, <1>t
    <3> QED BY <3>1, <3>3, <2>i DEF FindsItsFile
  <2>3. ~Walk(p) /\ ~Stat(p) /\ ~Create(p)
    BY <2>e, <1>4 DEF Walk, Stat, Create
  <2>4. ~OpenGet(p) /\ ~OpenSet(p) /\ ~Fstat(p) /\ ~WriteLast(p) /\ ~Unlink(p) /\ ~Crash(p)
    BY <2>e, <1>4 DEF OpenGet, OpenSet, Fstat, WriteLast, Unlink, Crash
  <2>5. ~Write(p) /\ ~ \E o \in Ops : Begin(p, o)
    BY <1>4 DEF Write, Begin
  <2> QED BY <1>0, <2>1, <2>2, <2>3, <2>4, <2>5 DEF StepOf, Call
<1>5. \A q \in Procs : FindsItsFile(q)'
  BY <1>2, <1>3 DEF FindsItsFile
<1>6. \A q \in Procs : pc'[q] = "dead" => ~sure'[q]
  BY <1>2, <1>4
<1> QED
  BY <1>5, <1>6 DEF SureFindsItsFile, AbortsInRacesOnly

\* The backend starts with nothing stored and nobody at work.
LEMMA FilesInit == Init => FilesInv
<1> SUFFICES ASSUME Init PROVE FilesInv
  OBVIOUS
<1> USE DEF Init
<1>0. Len(<<>>) = 0 /\ NoOp.op = "none"
  BY DEF NoOp
<1>1. TypeOK
  BY <1>0, BoundsAssumption DEF TypeOK
<1>2. OperationInStep
  BY <1>0 DEF OperationInStep, InStep, Active
<1>3. FilesHaveOneName /\ SureIsAlone
  BY ConflictFacts DEF FilesHaveOneName, HasOwnFile, SureIsAlone
<1>4. SureFindsItsFile /\ AbortsInRacesOnly
  BY DEF SureFindsItsFile, FindsItsFile, AbortsInRacesOnly
<1> QED
  BY <1>1, <1>2, <1>3, <1>4 DEF FilesInv

LEMMA FilesNext == FilesInv /\ [Next]_vars => FilesInv'
<1> SUFFICES ASSUME FilesInv, [Next]_vars PROVE FilesInv'
  OBVIOUS
<1>1. CASE Next
  <2>1. TypeOK'
    BY <1>1, FilesTyped DEF FilesInv
  <2>2. OperationInStep' /\ FilesHaveOneName' /\ SureIsAlone'
    BY <1>1, OperationPreserved, OneNamePreserved, AlonePreserved DEF FilesInv
  <2>3. SureFindsItsFile' /\ AbortsInRacesOnly'
    BY <1>1, <2>1, FindsPreserved DEF FilesInv
  <2> QED BY <2>1, <2>2, <2>3 DEF FilesInv
<1>2. CASE UNCHANGED vars
  <2> USE <1>2 DEF vars, files, work, history
  <2>1. TypeOK'
    BY DEF FilesInv, TypeOK
  <2>2. \A p \in Procs : Name(p)' = Name(p) /\ (Active(p)' <=> Active(p))
    BY DEF Name, Active
  <2>3. OperationInStep'
    BY <2>2 DEF FilesInv, OperationInStep, InStep
  <2>4. FilesHaveOneName' /\ SureIsAlone'
    BY <2>2 DEF FilesInv, FilesHaveOneName, HasOwnFile, SureIsAlone
  <2>5. SureFindsItsFile' /\ AbortsInRacesOnly'
    BY <2>2 DEF FilesInv, SureFindsItsFile, FindsItsFile, AbortsInRacesOnly
  <2> QED BY <2>1, <2>3, <2>4, <2>5 DEF FilesInv
<1> QED
  BY <1>1, <1>2

LEMMA FilesInvariant == Spec => []FilesInv
  BY FilesInit, FilesNext, PTL DEF Spec

\* Whatever processes do to the files, every variable stays in its type.
\* (cfgs_setval, cfgs_getval, cfgs_rmval of backends/cfgs_fs_bk.)
THEOREM FsTyping == Spec => []TypeOK
<1>1. FilesInv => TypeOK
  BY DEF FilesInv
<1> QED
  BY <1>1, FilesInvariant, PTL

\* For any processes, names, values and lists, with any number of kills and with a
\* disk that fills: an assertion of the backend fails only in a process whose value
\* another operation has been working on at the same time.  (on_match_get,
\* on_match_set, cfgs_tags_read.)
THEOREM FsAbortsInRacesOnly == Spec => []AbortsInRacesOnly
<1>1. FilesInv => AbortsInRacesOnly
  BY DEF FilesInv
<1> QED
  BY <1>1, FilesInvariant, PTL

-----------------------------------------------------------------------------
\* The text of one entry.

\* The end of line, a hole and the cells of a tag are different, and so are an
\* entry, nothing and a mixture.
LEMMA CellsDiffer ==
  /\ ~IsTag(Eol) /\ ~IsTag(Hole) /\ Eol # Hole
  /\ \A e, i : [entry |-> e, at |-> i] # Eol
  /\ Null # Garbled
  /\ \A e \in Entries : e # Null /\ e # Garbled
<1>1. ~IsTag(Eol) /\ ~IsTag(Hole)
  <2>1. DOMAIN Eol = {"eol"} /\ DOMAIN Hole = {"hole"}
    BY DEF Eol, Hole
  <2>2. \A c : IsTag(c) => "at" \in DOMAIN c
    BY DEF IsTag
  <2> QED BY <2>1, <2>2
<1>2. Eol # Hole
  <2>1. DOMAIN Eol = {"eol"} /\ DOMAIN Hole = {"hole"}
    BY DEF Eol, Hole
  <2> QED BY <2>1
<1>3. \A e, i : [entry |-> e, at |-> i] # Eol
  <2>1. DOMAIN Eol = {"eol"} /\ \A e, i : DOMAIN [entry |-> e, at |-> i] = {"entry", "at"}
    BY DEF Eol
  <2>2. "at" \notin {"eol"} /\ "at" \in {"entry", "at"}
    OBVIOUS
  <2> QED BY <2>1, <2>2
<1>4. Null # Garbled
  <2>1. DOMAIN Null = {"name"} /\ DOMAIN Garbled = {"name", "val"}
    BY DEF Null, Garbled
  <2> QED BY <2>1
<1>5. \A e \in Entries : e.name # <<>>
  BY NamesAssumption DEF Entries
<1>6. Null.name = <<>> /\ Garbled.name = <<>>
  BY DEF Null, Garbled
<1> QED
  BY <1>1, <1>2, <1>3, <1>4, <1>5, <1>6

\* A list of one entry is written as its tag and the end of line.
LEMMA WritesOne ==
  ASSUME NEW e \in Entries
  PROVE  Writes(<<e>>) = <<Tag(e), <<Eol>>>>
<1>1. FlattenSeq([j \in 1 .. Len(<<e>>) - 1 + 1 |-> Tag(<<e>>[1 + j - 1])]) = Tag(e)
  <2> DEFINE t == Tag(e)
  <2>1. [j \in 1 .. Len(<<e>>) - 1 + 1 |-> Tag(<<e>>[1 + j - 1])] = [j \in 1 .. 1 |-> t]
    <3>1. 1 .. Len(<<e>>) - 1 + 1 = 1 .. 1
      OBVIOUS
    <3>2. \A j \in 1 .. 1 : Tag(<<e>>[1 + j - 1]) = t
      <4>1. \A j \in 1 .. 1 : <<e>>[1 + j - 1] = e
        OBVIOUS
      <4> QED BY <4>1
    <3> QED BY <3>1, <3>2
  <2> HIDE DEF t
  <2>2. [j \in 1 .. 1 |-> t] = <<t>>
    OBVIOUS
  <2> QED BY <2>1, <2>2, FlattenSeqOne DEF t
<1> DEFINE line(k) == <<FlattenSeq([j \in 1 .. Len(<<e>>) - k + 1 |-> Tag(<<e>>[k + j - 1])]), <<Eol>>>>
           lines == [k \in 1 .. Len(<<e>>) |-> line(k)]
<1>2. line(1) = <<Tag(e), <<Eol>>>>
  BY <1>1
<1>3. Writes(<<e>>) = FlattenSeq(lines)
  BY DEF Writes
<1> HIDE DEF line
<1>4. lines = <<line(1)>>
  OBVIOUS
<1> QED
  BY <1>2, <1>3, <1>4, FlattenSeqOne

\* The empty text is the one of length zero.
LEMMA EmptyFacts == \A s \in Seq(Cell) : s = <<>> <=> Len(s) = 0
<1> HIDE DEF Cell
<1> QED
  OBVIOUS

\* The cells of the begin of a text.
LEMMA PrefixFacts ==
  ASSUME NEW s \in Seq(Cell), NEW m \in Nat, m <= Len(s)
  PROVE  /\ SubSeq(s, 1, m) \in Seq(Cell)
         /\ Len(SubSeq(s, 1, m)) = m
         /\ \A i \in 1 .. m : SubSeq(s, 1, m)[i] = s[i]
<1>1. \A i \in 1 .. m : s[i] \in Cell
  OBVIOUS
<1>2. /\ SubSeq(s, 1, m) \in Seq(Cell)
      /\ Len(SubSeq(s, 1, m)) = IF 1 <= m THEN m - 1 + 1 ELSE 0
      /\ \A i \in 1 .. m - 1 + 1 : SubSeq(s, 1, m)[i] = s[1 + i - 1]
  BY <1>1, SubSeqProperties
<1>3. m - 1 + 1 = m /\ \A i \in 1 .. m : 1 + i - 1 = i
  OBVIOUS
<1> HIDE DEF Cell
<1> QED
  BY <1>2, <1>3

\* What is plain is parsed as the whole entry or as none.
LEMMA ParsePlain ==
  ASSUME NEW text \in Seq(Cell), NEW e \in Entries, NEW k, Plain(text, e, k)
  PROVE  Parses(text) = IF k = Size[e.val] THEN {e} ELSE {Null}
<1>k. k \in Nat
  <2>1. Size[e.val] \in Nat /\ k \in 0 .. Size[e.val]
    BY TagFacts DEF Plain, BeginsAs
  <2> QED BY <2>1
<1> DEFINE ends == {i \in DOMAIN text : IsTag(text[i]) /\ text[i].at = Size[text[i].entry.val]}
           begins == {i \in DOMAIN text : \A j \in 1 .. i - 1 : text[j] = Eol}
           first == {i \in begins : IsTag(text[i]) /\ text[i].at = 1}
           b == CHOOSE i \in first : TRUE
           n == CHOOSE i \in ends : \A j \in ends : i <= j
<1>1. Parses(text) = IF first = {} \/ ends = {} THEN {Null}
                     ELSE IF SubSeq(text, b, n) = Tag(text[b].entry) THEN {text[b].entry}
                     ELSE {Garbled, Null}
  BY DEF Parses
<1>2. /\ Size[e.val] \in Nat \ {0} /\ k \in 0 .. Size[e.val] /\ k <= Len(text)
      /\ Len(text) \in Nat /\ Len(text) <= k + 1 /\ DOMAIN text = 1 .. Len(text)
      /\ \A j \in 1 .. k : text[j] = [entry |-> e, at |-> j]
      /\ Len(text) = k + 1 => text[k + 1] = Eol
  BY TagFacts DEF Plain, BeginsAs
<1>3. \A i \in 1 .. Len(text) : i \notin 1 .. k => ~IsTag(text[i])
  <2>1. \A i \in 1 .. Len(text) : i \notin 1 .. k => i = k + 1 /\ Len(text) = k + 1
    BY <1>2
  <2> QED BY <2>1, <1>2, CellsDiffer
<1>4. \A j \in 1 .. k : IsTag(text[j]) /\ text[j].at = j /\ text[j].entry = e /\ text[j] # Eol
  <2> SUFFICES ASSUME NEW j \in 1 .. k
               PROVE  IsTag(text[j]) /\ text[j].at = j /\ text[j].entry = e /\ text[j] # Eol
    OBVIOUS
  <2>1. text[j] = [entry |-> e, at |-> j]
    BY <1>2
  <2>2. j \in Nat
    BY <1>k
  <2> QED BY <2>1, <2>2, CellsDiffer DEF IsTag
<1>5. ends = IF k = Size[e.val] THEN {k} ELSE {}
  <2>1. \A i \in ends : i \in 1 .. k /\ i = Size[e.val]
    BY <1>2, <1>3, <1>4
  <2>2. k = Size[e.val] => k \in ends
    BY <1>2, <1>4
  <2> HIDE DEF ends
  <2> QED BY <2>1, <2>2, <1>2
<1>6. CASE k # Size[e.val]
  <2> HIDE DEF ends, first
  <2> QED BY <1>1, <1>5, <1>6
<1>7. CASE k = Size[e.val]
  <2>1. 1 \in 1 .. k /\ 1 \in DOMAIN text
    BY <1>2, <1>7
  <2>2. 1 \in first
    BY <2>1, <1>4
  <2>3. \A i \in first : i = 1
    <3> SUFFICES ASSUME NEW i \in first, i # 1 PROVE FALSE
      OBVIOUS
    <3>1. i \in 1 .. Len(text) /\ \A j \in 1 .. i - 1 : text[j] = Eol
      BY <1>2
    <3>2. 1 \in 1 .. i - 1
      <4> HIDE DEF first, ends
      <4>1. i \in 1 .. Len(text) /\ Len(text) \in Nat
        BY <3>1
      <4>2. i \in Nat /\ i > 1
        BY <4>1
      <4> QED BY <4>2
    <3> QED BY <3>1, <3>2, <2>1, <1>4
  <2>4. b = 1
    <3> HIDE DEF first
    <3> QED BY <2>2, <2>3
  <2>5. n = k
    <3>1. k \in ends /\ \A j \in ends : k <= j
      <4> HIDE DEF ends
      <4> QED BY <1>2, <1>5, <1>7
    <3>2. \A i \in ends : i = k
      <4> HIDE DEF ends
      <4> QED BY <1>5, <1>7
    <3> HIDE DEF ends
    <3> QED BY <3>1, <3>2
  <2>6. SubSeq(text, 1, k) = Tag(e)
    <3>0. k \in 0 .. Len(text)
      <4> HIDE DEF first, ends, Cell
      <4>1. k <= Len(text) /\ Len(text) \in Nat
        BY <1>2
      <4> QED BY <1>k, <4>1
    <3> HIDE DEF first, ends, Cell
    <3>1. /\ SubSeq(text, 1, k) \in Seq(Cell) /\ Len(SubSeq(text, 1, k)) = k
          /\ \A i \in 1 .. k : SubSeq(text, 1, k)[i] = text[i]
      BY <3>0, PrefixFacts
    <3>2. /\ Tag(e) \in Seq(Cell) /\ Len(Tag(e)) = k
          /\ \A i \in 1 .. k : Tag(e)[i] = [entry |-> e, at |-> i]
      BY <1>7, TagFacts
    <3>3. \A i \in 1 .. k : SubSeq(text, 1, k)[i] = Tag(e)[i]
      <4> SUFFICES ASSUME NEW i \in 1 .. k PROVE SubSeq(text, 1, k)[i] = Tag(e)[i]
        OBVIOUS
      <4>1. SubSeq(text, 1, k)[i] = text[i]
        BY <3>1
      <4>2. text[i] = [entry |-> e, at |-> i]
        BY <1>2
      <4>3. Tag(e)[i] = [entry |-> e, at |-> i]
        BY <3>2
      <4> QED BY <4>1, <4>2, <4>3
    <3> HIDE DEF Cell
    <3> QED BY <3>1, <3>2, <3>3, SeqEqual
  <2>7. text[1].entry = e
    BY <2>1, <1>4
  <2> HIDE DEF ends, first, b, n
  <2> QED BY <1>1, <1>5, <1>7, <2>2, <2>4, <2>5, <2>6, <2>7
<1> QED
  BY <1>6, <1>7

\* An empty file holds nothing.
LEMMA ParseEmpty == Parses(<<>>) = {Null}
BY DEF Parses

\* However much of an unmixed file is read, it is no mixture.
LEMMA ParseUnmixed ==
  ASSUME NEW file \in Seq(Cell), Unmixed(file), NEW m \in Nat, m <= Len(file)
  PROVE  Garbled \notin Parses(SubSeq(file, 1, m))
<1> DEFINE text == SubSeq(file, 1, m)
<1>1. text \in Seq(Cell) /\ Len(text) = m /\ \A i \in 1 .. m : text[i] = file[i]
  BY PrefixFacts
<1> SUFFICES Garbled \notin Parses(text)
  OBVIOUS
<1> HIDE DEF text
<1>2. CASE m = 0
  <2>1. text = <<>>
    BY <1>1, <1>2, EmptyFacts
  <2>2. Garbled \notin {Null}
    BY CellsDiffer
  <2> QED BY <2>1, <2>2, ParseEmpty
<1>3. CASE m # 0 /\ file[1] = Hole
  <2>1. text[1] = Hole
    BY <1>1, <1>3
  <2> DEFINE begins == {i \in DOMAIN text : \A j \in 1 .. i - 1 : text[j] = Eol}
             first == {i \in begins : IsTag(text[i]) /\ text[i].at = 1}
  <2>2. \A i \in begins : i = 1
    <3> SUFFICES ASSUME NEW i \in begins, i # 1 PROVE FALSE
      OBVIOUS
    <3>1. 1 \in 1 .. i - 1
      BY <1>1
    <3> QED BY <3>1, <2>1, CellsDiffer
  <2>3. first = {}
    <3> HIDE DEF begins
    <3> QED BY <2>1, <2>2, CellsDiffer
  <2>4. Parses(text) = {Null}
    BY <2>3 DEF Parses
  <2> QED BY <2>4, CellsDiffer
<1>4. ASSUME m # 0, NEW e \in Entries, NEW k \in 0 .. Len(file), Plain(file, e, k)
      PROVE  Garbled \notin Parses(text)
  <2>1. PICK l : Plain(text, e, l)
    <3>1. /\ k \in 0 .. Size[e.val] /\ k <= Len(file) /\ Len(file) <= k + 1
          /\ \A j \in 1 .. k : file[j] = [entry |-> e, at |-> j]
          /\ Len(file) = k + 1 => file[Len(file)] = Eol
          /\ Size[e.val] \in Nat
      BY <1>4, TagFacts DEF Plain, BeginsAs
    <3>2. CASE m <= k
      <4>1. \A j \in 1 .. m : text[j] = [entry |-> e, at |-> j]
        <5> SUFFICES ASSUME NEW j \in 1 .. m PROVE text[j] = [entry |-> e, at |-> j]
          OBVIOUS
        <5>1. k \in Nat /\ j \in 1 .. k
          BY <3>1, <3>2
        <5> QED BY <5>1, <1>1, <3>1
      <4>2. m \in 0 .. Size[e.val]
        BY <3>1, <3>2
      <4>3. Plain(text, e, m)
        BY <1>1, <4>1, <4>2 DEF Plain, BeginsAs
      <4> QED BY <4>3
    <3>3. CASE m = k + 1
      <4>1. Plain(text, e, k)
        BY <1>1, <3>1, <3>3 DEF Plain, BeginsAs
      <4> QED BY <4>1
    <3> QED BY <3>1, <3>2, <3>3
  <2> QED BY <2>1, <1>1, ParsePlain, CellsDiffer
<1> QED
  <2>1. m # 0 => file # <<>>
    OBVIOUS
  <2> QED BY <2>1, <1>2, <1>3, <1>4 DEF Unmixed

\* A writer's tag in an empty file, as far as it has got.
LEMMA WriteTag ==
  ASSUME NEW e \in Entries, NEW k \in 0 .. Size[e.val],
         NEW file \in Seq(Cell), NEW offset \in Nat
  PROVE  file = <<>> /\ offset = 0 =>
           LET new == Overlay(file, offset, SubSeq(Tag(e), 1, k))
           IN  Len(new) = k /\ BeginsAs(new, e, k)
<1> DEFINE cells == SubSeq(Tag(e), 1, k)
<1>1. /\ Size[e.val] \in Nat \ {0} /\ k \in Nat /\ Len(Tag(e)) = Size[e.val]
      /\ k <= Size[e.val] /\ Tag(e) \in Seq(Cell)
      /\ \A i \in 1 .. Size[e.val] : Tag(e)[i] = [entry |-> e, at |-> i]
  BY TagFacts
<1>2. cells \in Seq(Cell) /\ Len(cells) = k /\ \A i \in 1 .. k : cells[i] = Tag(e)[i]
  BY <1>1, PrefixFacts
<1> HIDE DEF cells
<1> DEFINE new == Overlay(file, offset, cells)
<1>3. /\ Len(new) = IF cells # <<>> /\ offset + Len(cells) > Len(file)
                    THEN offset + Len(cells) ELSE Len(file)
      /\ \A i \in 1 .. Len(new) :
           new[i] = IF i \in offset + 1 .. offset + Len(cells) THEN cells[i - offset]
                    ELSE IF i <= Len(file) THEN file[i] ELSE Hole
  BY <1>2, OverlayFacts
<1> SUFFICES ASSUME file = <<>>, offset = 0
             PROVE  Len(new) = k /\ BeginsAs(new, e, k)
  BY DEF cells
<1> HIDE DEF new
<1>4. Len(new) = k
  <2>1. Len(file) = 0 /\ (cells # <<>> <=> k # 0)
    BY <1>2, EmptyFacts
  <2> QED BY <1>1, <1>2, <1>3, <2>1
<1>5. \A i \in 1 .. k : new[i] = cells[i]
  BY <1>1, <1>2, <1>3, <1>4
<1>6. \A i \in 1 .. k : new[i] = [entry |-> e, at |-> i]
  BY <1>1, <1>2, <1>5
<1> QED
  BY <1>1, <1>4, <1>6 DEF BeginsAs

\* The end of line after a tag, or where the file has been cut.
LEMMA WriteEol ==
  ASSUME NEW e \in Entries, NEW file \in Seq(Cell), NEW offset \in Nat,
         NEW k \in 0 .. 1, offset <= Size[e.val],
         file = <<>> \/ (Len(file) = offset /\ BeginsAs(file, e, offset))
  PROVE  LET new == Overlay(file, offset, SubSeq(<<Eol>>, 1, k))
         IN  /\ Unmixed(new)
             /\ Len(file) = offset => Plain(new, e, offset)
<1> DEFINE cells == SubSeq(<<Eol>>, 1, k)
<1>0. <<Eol>> \in Seq(Cell) /\ Len(<<Eol>>) = 1 /\ <<Eol>>[1] = Eol
  BY DEF Cell
<1>1. cells \in Seq(Cell) /\ Len(cells) = k /\ (k = 1 => cells[1] = Eol)
  BY <1>0, SubSeqProperties
<1> HIDE DEF cells
<1>c. (cells # <<>> <=> k # 0) /\ Len(cells) = k
  BY <1>1, EmptyFacts
<1> DEFINE new == Overlay(file, offset, cells)
<1>2. /\ Len(new) = IF cells # <<>> /\ offset + Len(cells) > Len(file)
                    THEN offset + Len(cells) ELSE Len(file)
      /\ new \in Seq(Cell)
      /\ \A i \in 1 .. Len(new) :
           new[i] = IF i \in offset + 1 .. offset + Len(cells) THEN cells[i - offset]
                    ELSE IF i <= Len(file) THEN file[i] ELSE Hole
  BY <1>1, OverlayFacts
<1> HIDE DEF new
<1>s. Size[e.val] \in Nat /\ Len(file) \in Nat
  BY TagFacts
<1>3. ASSUME Len(file) = offset
      PROVE  Plain(new, e, offset)
  <2>1. BeginsAs(file, e, offset)
    BY <1>3, <1>s DEF BeginsAs
  <2>2. Len(new) = offset + k
    BY <1>1, <1>2, <1>3
  <2>3. \A j \in 1 .. offset : new[j] = file[j]
    BY <1>1, <1>2, <1>3, <2>2
  <2>4. k = 1 => new[offset + 1] = Eol
    BY <1>1, <1>2, <2>2
  <2> QED BY <1>3, <2>1, <2>2, <2>3, <2>4 DEF Plain, BeginsAs
<1>4. Unmixed(new)
  <2>1. CASE Len(file) = offset
    <3>1. Plain(new, e, offset) /\ offset \in 0 .. Len(new)
      BY <2>1, <1>3 DEF Plain, BeginsAs
    <3> QED BY <3>1 DEF Unmixed
  <2>2. CASE Len(file) # offset
    <3>1. file = <<>> /\ offset > 0
      BY <2>2
    <3>2. CASE k = 0
      <4>1. Len(new) = 0
        BY <3>1, <3>2, <1>1, <1>2
      <4>2. new = <<>>
        BY <4>1, <1>2
      <4> QED BY <4>2 DEF Unmixed
    <3>3. CASE k = 1
      <4>1. Len(new) = offset + 1
        <5>1. cells # <<>> /\ Len(cells) = 1
          BY <3>3, <1>c
        <5>2. Len(file) = 0
          BY <3>1, EmptyFacts
        <5> QED BY <5>1, <5>2, <3>1, <1>2
      <4>2. new[1] = Hole
        BY <4>1, <3>1, <1>2
      <4> QED BY <4>2 DEF Unmixed
    <3> QED BY <3>2, <3>3
  <2> QED BY <2>1, <2>2
<1> QED
  BY <1>3, <1>4 DEF new, cells

-----------------------------------------------------------------------------
\* Operations of lists of one entry.

\* With one entry the turn is the end.
LEMMA SingleTurn ==
  ASSUME TypeOK, OperationInStep, WritersInStep, NEW p \in Procs,
         (NextEntry(p) /\ op[p].op = "set") \/ NoMatch(p)
  PROVE  Return(p, Null)
<1>1. ASSUME NextEntry(p), op[p].op = "set"
      PROVE  Return(p, Null)
  <2>1. Len(todo[p]) = 1
    BY <1>1 DEF WritersInStep, WriterInStep
  <2>2. Len(todo[p]) <= 1
    BY <2>1
  <2> QED BY <1>1, <2>2 DEF NextEntry
<1> QED
  BY <1>1 DEF NoMatch

\* A process ends its operation, begins one, or is further in the same.
LEMMA OwnSteps ==
  ASSUME TypeOK, OperationInStep, WritersInStep, NEW p \in Procs, StepOf(p)
  PROVE  \/ ~Active(p)' /\ op'[p] = NoOp
         \/ \E o \in Ops : Begin(p, o)
         \/ /\ op'[p] = op[p] /\ todo'[p] = todo[p] /\ Active(p) /\ Active(p)'
            /\ \/ /\ pc[p] = "walk" /\ seg'[p] = seg[p] + 1
                  /\ SubSeq(Name(p), 1, seg[p] + 1) \in dirs'
                  /\ pc'[p] # "walk" => SubSeq(Name(p), 1, seg[p] + 1) = Name(p)
               \/ pc[p] # "walk" /\ pc'[p] # "walk" /\ seg'[p] = seg[p]
<1> USE DEF TypeOK, Goto, files, work, history, Active
<1>r. \A g : Return(p, g) => pc'[p] = "idle" /\ op'[p] = NoOp
  BY DEF Return
<1>e. op[p].op = "set" /\ NextEntry(p) => Return(p, Null)
  BY SingleTurn
<1>m. NoMatch(p) => Return(p, Null)
  BY SingleTurn
<1>a. Abort(p) => pc'[p] = "dead" /\ op'[p] = NoOp
  BY DEF Abort
<1>1. CASE Walk(p)
  BY <1>1, <1>m, <1>r DEF Walk
<1>2. CASE Stat(p)
  BY <1>2, <1>m, <1>r DEF Stat
<1>3. CASE Create(p)
  <2>1. op[p].op = "set"
    BY <1>3 DEF Create, OperationInStep, InStep
  <2> QED BY <1>3, <2>1, <1>e, <1>r DEF Create
<1>4. CASE OpenAborts(p) \/ Read(p)
  BY <1>4, <1>r, <1>a DEF OpenAborts, Read
<1>5. CASE OpenGet(p) \/ OpenSet(p) \/ Fstat(p)
  BY <1>5 DEF OpenGet, OpenSet, Fstat
<1>6. CASE Write(p)
  BY <1>6 DEF Write
<1>7. CASE WriteLast(p)
  <2>1. op[p].op = "set"
    BY <1>7 DEF WriteLast, OperationInStep, InStep
  <2> QED BY <1>7, <2>1, <1>e, <1>r DEF WriteLast
<1>8. CASE Unlink(p) \/ Crash(p)
  BY <1>8, <1>r DEF Unlink, Crash
<1> QED
  BY <1>1, <1>2, <1>3, <1>4, <1>5, <1>6, <1>7, <1>8 DEF StepOf, Call

\* After its own step a process is writing because it has opened the file to write
\* now, or has written what was not the last piece.
LEMMA WriteSteps ==
  ASSUME TypeOK, OperationInStep, NEW p \in Procs, StepOf(p), pc'[p] = "write"
  PROVE  OpenSet(p) \/ Write(p)
<1>1. (pc[p] = "open" /\ op[p].op # "get") \/ pc[p] = "write"
  BY OpenSteps
<1> USE DEF TypeOK, Goto
<1>2. CASE pc[p] = "open"
  BY <1>1, <1>2 DEF StepOf, Call, Walk, Stat, Create, OpenAborts, OpenGet, Fstat, Read, Write,
                    WriteLast, Unlink, Crash, Begin, Abort, Return
<1>3. CASE pc[p] = "write"
  BY <1>1, <1>3 DEF StepOf, Call, Walk, Stat, Create, OpenAborts, OpenGet, OpenSet, Fstat, Read,
                    WriteLast, Unlink, Crash, Begin, NextEntry, Return
<1> QED
  BY <1>1, <1>2, <1>3

\* Directories are never removed.
LEMMA DirectoriesPreserved ==
  ASSUME TypeOK, OperationInStep, WritersInStep, DirectoriesStay, Next
  PROVE  DirectoriesStay'
<1>0. PICK p \in Procs : StepOf(p)
  BY DEF Next, StepOf
<1>1. dirs \subseteq dirs'
  BY <1>0 DEF StepOf, Call, Walk, Stat, Create, OpenAborts, OpenGet, OpenSet, Fstat, Read, Write,
              WriteLast, Unlink, Crash, Begin, files
<1>2. ASSUME NEW n \in Names, link'[n] # 0, NEW k \in 1 .. Len(n)
      PROVE  SubSeq(n, 1, k) \in dirs'
  <2>1. FileStep(p)
    BY <1>0, FileSteps
  <2>2. CASE link[n] # 0
    BY <2>2, <1>1 DEF DirectoriesStay
  <2>3. CASE link[n] = 0
    <3>1. pc[p] = "create" /\ n = Name(p)
      BY <1>2, <2>1, <2>3 DEF FileStep, TypeOK
    <3>2. HasDirectories(p) /\ Active(p)
      BY <3>1 DEF DirectoriesStay, Active
    <3>3. seg[p] = Len(n) /\ \A i \in 1 .. seg[p] : SubSeq(n, 1, i) \in dirs
      BY <3>1, <3>2 DEF HasDirectories
    <3> QED BY <3>3, <1>1
  <2> QED BY <2>2, <2>3
<1>3. ASSUME NEW q \in Procs, q # p
      PROVE  HasDirectories(q)'
  <2>1. pc'[q] = pc[q] /\ op'[q] = op[q] /\ todo'[q] = todo[q] /\ seg'[q] = seg[q]
    BY <1>0, <1>3, OthersStay DEF StepOf
  <2>2. Name(q)' = Name(q)
    BY <2>1 DEF Name
  <2> QED BY <2>1, <2>2, <1>1 DEF DirectoriesStay, HasDirectories, Active
<1>4. HasDirectories(p)'
  <2>1. CASE ~Active(p)'
    BY <2>1 DEF HasDirectories
  <2>2. CASE \E o \in Ops : Begin(p, o)
    <3>1. seg'[p] = 0 /\ pc'[p] = "walk"
      BY <2>2 DEF Begin, Goto, TypeOK
    <3> QED BY <3>1 DEF HasDirectories
  <2>3. CASE op'[p] = op[p] /\ todo'[p] = todo[p] /\ Active(p)
    <3>1. Name(p)' = Name(p)
      BY <2>3 DEF Name
    <3>2. /\ HasDirectories(p) /\ seg[p] \in Nat /\ Name(p) \in Names
          /\ pc[p] = "walk" => seg[p] < Len(Name(p))
      BY <2>3, NameFacts DEF DirectoriesStay, TypeOK, OperationInStep, InStep
    <3>3. CASE /\ pc[p] = "walk" /\ seg'[p] = seg[p] + 1
               /\ SubSeq(Name(p), 1, seg[p] + 1) \in dirs'
               /\ pc'[p] # "walk" => SubSeq(Name(p), 1, seg[p] + 1) = Name(p)
      <4>1. \A k \in 1 .. seg[p] + 1 : SubSeq(Name(p), 1, k) \in dirs'
        <5> SUFFICES ASSUME NEW k \in 1 .. seg[p] + 1 PROVE SubSeq(Name(p), 1, k) \in dirs'
          OBVIOUS
        <5>1. k \in 1 .. seg[p] \/ k = seg[p] + 1
          BY <3>2
        <5>2. \A i \in 1 .. seg[p] : SubSeq(Name(p), 1, i) \in dirs
          BY <2>3, <3>2 DEF HasDirectories
        <5> QED BY <5>1, <5>2, <3>3, <1>1
      <4>2. pc'[p] # "walk" => seg[p] + 1 = Len(Name(p))
        <5>1. Name(p) \in Seq(STRING) /\ Len(Name(p)) \in Nat /\ seg[p] + 1 <= Len(Name(p))
          BY <3>2, <3>3, NamesAssumption
        <5>2. \A i \in 1 .. seg[p] + 1 : Name(p)[i] \in STRING
          BY <5>1, <3>2
        <5>3. Len(SubSeq(Name(p), 1, seg[p] + 1)) = seg[p] + 1
          BY <3>2, <5>2, SubSeqProperties
        <5> QED BY <5>3, <3>3
      <4> QED BY <4>1, <4>2, <3>1, <3>3 DEF HasDirectories
    <3>4. CASE pc[p] # "walk" /\ pc'[p] # "walk" /\ seg'[p] = seg[p]
      BY <2>3, <3>1, <3>2, <3>4, <1>1 DEF HasDirectories
    <3> QED BY <2>3, <3>3, <3>4, <1>0, <2>1, <2>2, OwnSteps
  <2> QED BY <2>1, <2>2, <2>3, <1>0, OwnSteps
<1> QED
  BY <1>2, <1>3, <1>4 DEF DirectoriesStay

\* The entry a set writes, and the pieces of its text.
LEMMA WriterFacts ==
  ASSUME TypeOK, OperationInStep, FilesHaveOneName, WritersInStep,
         NEW p \in Procs, pc[p] = "write"
  PROVE  /\ Head(todo[p]) \in Entries /\ Active(p) /\ op[p].op = "set" /\ Name(p) \in Names
         /\ Size[Head(todo[p]).val] \in Nat \ {0}
         /\ ino[p] \in 1 .. Len(data) /\ data[ino[p]] \in Seq(Cell)
         /\ \/ /\ Len(out[p]) = 2 /\ Head(out[p]) = Tag(Head(todo[p])) /\ pos[p] = 0
               /\ Tail(out[p]) = <<<<Eol>>>>
            \/ Len(out[p]) = 1 /\ Head(out[p]) = <<Eol>>
         /\ pos[p] \in 0 .. Size[Head(todo[p]).val]
         /\ Len(Tag(Head(todo[p]))) = Size[Head(todo[p]).val]
<1>1. Active(p) /\ op[p].op = "set"
  BY DEF OperationInStep, InStep, Active
<1>2. Head(todo[p]) \in Entries /\ Name(p) \in Names
  BY <1>1, NameFacts
<1>3. Size[Head(todo[p]).val] \in Nat \ {0} /\ Len(Tag(Head(todo[p]))) = Size[Head(todo[p]).val]
  BY <1>2, TagFacts
<1>4. ino[p] \in 1 .. Len(data) /\ data[ino[p]] \in Seq(Cell)
  <2>1. ino[p] \in 0 .. Len(data) /\ ino[p] # 0 /\ data \in Seq(Seq(Cell)) /\ Len(data) \in Nat
    BY DEF TypeOK, FilesHaveOneName, HasOwnFile
  <2> QED BY <2>1
<1>5. \/ out[p] = <<Tag(Head(todo[p])), <<Eol>>>> /\ pos[p] = 0
      \/ out[p] = <<<<Eol>>>> /\ pos[p] <= Size[Head(todo[p]).val]
  BY DEF WritersInStep, WriterInStep
<1>6. pos[p] \in Nat
  BY DEF TypeOK
<1>7. CASE out[p] = <<Tag(Head(todo[p])), <<Eol>>>> /\ pos[p] = 0
  <2>1. /\ Len(out[p]) = 2 /\ Head(out[p]) = Tag(Head(todo[p])) /\ Tail(out[p]) = <<<<Eol>>>>
    BY <1>7
  <2>2. pos[p] \in 0 .. Size[Head(todo[p]).val]
    BY <1>3, <1>7
  <2> QED BY <1>1, <1>2, <1>3, <1>4, <1>7, <2>1, <2>2
<1>8. CASE out[p] = <<<<Eol>>>> /\ pos[p] <= Size[Head(todo[p]).val]
  <2>1. Len(out[p]) = 1 /\ Head(out[p]) = <<Eol>>
    BY <1>8
  <2>2. pos[p] \in 0 .. Size[Head(todo[p]).val]
    BY <1>3, <1>6, <1>8
  <2> QED BY <1>1, <1>2, <1>3, <1>4, <2>1, <2>2
<1> QED
  BY <1>5, <1>7, <1>8

\* What a set has to write is the tag of its entry, then the end of line.
LEMMA WritersPreserved ==
  ASSUME OneEntryLists, TypeOK, OperationInStep, FilesHaveOneName, WritersInStep, Next
  PROVE  WritersInStep'
<1>0. PICK p \in Procs : StepOf(p)
  BY DEF Next, StepOf
<1>1. ASSUME NEW q \in Procs, q # p
      PROVE  WriterInStep(q)'
  <2>1. /\ pc'[q] = pc[q] /\ op'[q] = op[q] /\ todo'[q] = todo[q] /\ out'[q] = out[q]
        /\ pos'[q] = pos[q]
    BY <1>0, <1>1, OthersStay DEF StepOf
  <2> QED BY <2>1 DEF WritersInStep, WriterInStep
<1>2. op'[p].op = "set" => Len(todo'[p]) = 1 /\ op'[p].list = todo'[p]
  <2>1. CASE op'[p] = NoOp
    BY <2>1 DEF NoOp
  <2>2. CASE \E o \in Ops : Begin(p, o)
    <3>1. PICK o \in Ops : op'[p] = o /\ (o.op = "set" => todo'[p] = o.list)
      BY <2>2 DEF Begin, TypeOK
    <3>2. o.op = "set" => Len(o.list) = 1
      BY DEF OneEntryLists, Ops
    <3> QED BY <3>1, <3>2
  <2>3. CASE op'[p] = op[p] /\ todo'[p] = todo[p]
    BY <2>3 DEF WritersInStep, WriterInStep
  <2> QED BY <1>0, <2>1, <2>2, <2>3, OwnSteps
<1>3. ASSUME pc'[p] = "write"
      PROVE  \/ out'[p] = <<Tag(Head(todo'[p])), <<Eol>>>> /\ pos'[p] = 0
             \/ out'[p] = <<<<Eol>>>> /\ pos'[p] <= Size[Head(todo'[p]).val]
  <2>1. CASE OpenSet(p)
    <3>1. op[p].op = "set" /\ Active(p)
      BY <2>1 DEF OpenSet, Active
    <3>2. todo[p] \in Seq(Entries) /\ Len(todo[p]) = 1 /\ op[p].list = todo[p]
      BY <3>1 DEF WritersInStep, WriterInStep, TypeOK
    <3>3. todo[p] = <<Head(todo[p])>> /\ Head(todo[p]) \in Entries
      BY <3>2
    <3>4. Writes(op[p].list) = <<Tag(Head(todo[p])), <<Eol>>>>
      BY <3>2, <3>3, WritesOne
    <3>5. out'[p] = Writes(op[p].list) /\ pos'[p] = 0 /\ todo' = todo
      BY <2>1 DEF OpenSet, TypeOK
    <3> QED BY <3>4, <3>5
  <2>2. CASE Write(p)
    <3>1. pc[p] = "write" /\ Len(out[p]) > 1 /\ out'[p] = Tail(out[p]) /\ todo' = todo
      BY <2>2 DEF Write, TypeOK
    <3>2. /\ Head(out[p]) = Tag(Head(todo[p])) /\ Tail(out[p]) = <<<<Eol>>>> /\ pos[p] = 0
          /\ Len(Head(out[p])) = Size[Head(todo[p]).val] /\ Size[Head(todo[p]).val] \in Nat
      <4>1. Len(out[p]) \in Nat
        BY DEF TypeOK
      <4>2. \A m \in Nat : m > 1 => m # 1
        OBVIOUS
      <4>3. Len(out[p]) # 1
        BY <3>1, <4>1, <4>2, Zenon
      <4> QED BY <3>1, <4>3, WriterFacts
    <3>3. PICK k \in 0 .. Len(Head(out[p])) : pos'[p] = pos[p] + k
      BY <2>2 DEF Write, TypeOK
    <3>4. pos'[p] <= Size[Head(todo[p]).val]
      BY <3>2, <3>3
    <3> QED BY <3>1, <3>2, <3>4
  <2> QED BY <1>0, <1>3, <2>1, <2>2, WriteSteps
<1> QED
  BY <1>1, <1>2, <1>3 DEF WritersInStep, WriterInStep

\* A set that is sure and has not fallen short has its whole tag in the file.
LEMMA SureWritesPreserved ==
  ASSUME OneEntryLists, FilesInv, WritersInStep, SureWriteAll, Next, WritersInStep'
  PROVE  SureWriteAll'
<1> USE DEF FilesInv
<1>0. PICK p \in Procs : StepOf(p)
  BY DEF Next, StepOf
<1>1. ASSUME NEW q \in Procs, q # p
      PROVE  WritesAll(q)'
  <2>1. /\ pc'[q] = pc[q] /\ todo'[q] = todo[q] /\ out'[q] = out[q] /\ ino'[q] = ino[q]
        /\ pos'[q] = pos[q] /\ (sure'[q] => sure[q])
    BY <1>0, <1>1, OthersStay DEF StepOf
  <2>2. pc[q] = "write" /\ sure[q] => data'[ino[q]] = data[ino[q]]
    BY <1>0, <1>1, SureFileStays
  <2> QED BY <2>1, <2>2 DEF SureWriteAll, WritesAll
<1>2. ASSUME pc'[p] = "write", sure'[p]
      PROVE  IF Len(out'[p]) = 2 THEN data'[ino'[p]] = <<>>
             ELSE /\ pos'[p] = Size[Head(todo'[p]).val]
                  /\ Len(data'[ino'[p]]) = pos'[p]
                  /\ BeginsAs(data'[ino'[p]], Head(todo'[p]), pos'[p])
  <2>1. CASE OpenSet(p)
    <3>1. data'[ino'[p]] = <<>>
      <4>1. Name(p) \in Names /\ link[Name(p)] # 0
        BY <2>1, NameFacts DEF OpenSet, Active
      <4>2. link[Name(p)] \in 1 .. Len(data)
        BY <4>1 DEF TypeOK
      <4>3. ino'[p] = link[Name(p)] /\ data' = [data EXCEPT ![link[Name(p)]] = <<>>]
        BY <2>1 DEF OpenSet, TypeOK
      <4>4. data \in Seq(Seq(Cell))
        BY DEF TypeOK
      <4> QED BY <4>2, <4>3, <4>4
    <3>2. Len(out'[p]) = 2
      <4>1. pc[p] = "open" /\ op[p].op = "set" /\ Active(p)
        BY <2>1 DEF OpenSet, Active
      <4>2. todo[p] \in Seq(Entries) /\ Len(todo[p]) = 1 /\ op[p].list = todo[p]
        BY <4>1 DEF WritersInStep, WriterInStep, TypeOK
      <4>3. todo[p] = <<Head(todo[p])>> /\ Head(todo[p]) \in Entries
        BY <4>2
      <4>4. out'[p] = <<Tag(Head(todo[p])), <<Eol>>>>
        <5>1. out'[p] = Writes(op[p].list)
          BY <2>1 DEF OpenSet, TypeOK
        <5> QED BY <5>1, <4>2, <4>3, WritesOne
      <4> QED BY <4>4
    <3> QED BY <3>1, <3>2
  <2>2. CASE Write(p)
    <3>1. pc[p] = "write" /\ Len(out[p]) > 1
      BY <2>2 DEF Write
    <3> DEFINE e == Head(todo[p])
    <3>2. /\ e \in Entries /\ Size[e.val] \in Nat \ {0} /\ ino[p] \in 1 .. Len(data)
          /\ data[ino[p]] \in Seq(Cell) /\ Len(out[p]) = 2 /\ Head(out[p]) = Tag(e) /\ pos[p] = 0
          /\ Tail(out[p]) = <<<<Eol>>>> /\ Len(Tag(e)) = Size[e.val]
      <4>1. Len(out[p]) \in Nat
        BY DEF TypeOK
      <4>2. \A m \in Nat : m > 1 => m # 1
        OBVIOUS
      <4>3. Len(out[p]) # 1
        BY <3>1, <4>1, <4>2, Zenon
      <4> QED BY <3>1, <4>3, WriterFacts
    <3>3. PICK k \in 0 .. Len(Head(out[p])) :
            /\ data' = [data EXCEPT ![ino[p]] =
                          Overlay(data[ino[p]], pos[p], SubSeq(Head(out[p]), 1, k))]
            /\ pos' = [pos EXCEPT ![p] = pos[p] + k]
            /\ sure' = [sure EXCEPT ![p] = sure[p] /\ k = Len(Head(out[p]))]
      BY <2>2 DEF Write
    <3>4. /\ sure[p] /\ k = Size[e.val] /\ pos'[p] = k
          /\ todo'[p] = todo[p] /\ ino'[p] = ino[p] /\ out'[p] = Tail(out[p])
      <4>1. sure'[p] <=> (sure[p] /\ k = Len(Head(out[p])))
        BY <3>3 DEF TypeOK
      <4>2. pos'[p] = 0 + k
        BY <3>2, <3>3 DEF TypeOK
      <4>3. todo'[p] = todo[p] /\ ino'[p] = ino[p] /\ out'[p] = Tail(out[p])
        BY <2>2 DEF Write, TypeOK
      <4>4. k = Size[e.val]
        BY <1>2, <4>1, <3>2
      <4> HIDE DEF e
      <4> QED BY <1>2, <3>2, <4>1, <4>2, <4>3, <4>4
    <3>5. data[ino[p]] = <<>>
      BY <3>1, <3>2, <3>4 DEF SureWriteAll, WritesAll
    <3>6. data'[ino[p]] = Overlay(data[ino[p]], pos[p], SubSeq(Tag(e), 1, k))
      <4>1. data \in Seq(Seq(Cell))
        BY DEF TypeOK
      <4> HIDE DEF e
      <4> QED BY <4>1, <3>2, <3>3
    <3>7. Len(data'[ino[p]]) = k /\ BeginsAs(data'[ino[p]], e, k)
      <4>1. k \in 0 .. Size[e.val]
        BY <3>2, <3>4
      <4>2. 0 \in Nat /\ pos[p] \in Nat
        BY <3>2
      <4>3. e \in Entries /\ data[ino[p]] \in Seq(Cell)
        BY <3>2
      <4> HIDE DEF e
      <4>4. LET new == Overlay(data[ino[p]], pos[p], SubSeq(Tag(e), 1, k))
            IN  Len(new) = k /\ BeginsAs(new, e, k)
        <5>1. data[ino[p]] = <<>> /\ pos[p] = 0
          BY <3>2, <3>5
        <5> QED BY <4>1, <4>2, <4>3, <5>1, WriteTag
      <4> QED BY <4>4, <3>6
    <3>8. Len(out'[p]) # 2
      <4>1. out'[p] = <<<<Eol>>>>
        BY <3>2, <3>4
      <4> QED BY <4>1
    <3> QED BY <3>4, <3>7, <3>8
  <2> QED BY <1>0, <1>2, <2>1, <2>2, WriteSteps
<1> QED
  BY <1>1, <1>2 DEF SureWriteAll, WritesAll

\* What a step does to what the last changes have left.
LEMMA SettleSteps ==
  ASSUME TypeOK, NEW p \in Procs, StepOf(p)
  PROVE  \/ last' = last /\ settled' \subseteq settled
         \/ /\ WriteLast(p) /\ last' = [last EXCEPT ![Name(p)] = Head(todo[p])]
            /\ settled' \subseteq settled \cup {Name(p)}
            /\ Name(p) \in settled' => sure[p]
         \/ /\ Unlink(p) /\ last' = [last EXCEPT ![Name(p)] = Null]
            /\ settled' \subseteq settled \cup {Name(p)}
            /\ Name(p) \in settled' => sure[p]
<1>1. CASE WriteLast(p)
  BY <1>1 DEF WriteLast
<1>2. CASE Unlink(p)
  BY <1>2 DEF Unlink
<1>3. CASE ~WriteLast(p) /\ ~Unlink(p)
  BY <1>3 DEF StepOf, Call, Walk, Stat, Create, OpenAborts, OpenGet, OpenSet, Fstat, Read, Write,
              Crash, Begin, history, work
<1> QED
  BY <1>1, <1>2, <1>3

\* A file is written by the name it has, if it has one.
LEMMA SettledFileStays ==
  ASSUME FilesInv, WritersInStep, SettledShowLast, NEW p \in Procs, StepOf(p),
         NEW n \in settled, n \in settled', n # Name(p)
  PROVE  link'[n] = link[n] /\ (link[n] # 0 => data'[link[n]] = data[link[n]])
<1> USE DEF FilesInv
<1>1. FileStep(p)
  BY FileSteps
<1>t. /\ Len(data) \in Nat /\ link \in [Names -> 0 .. Len(data)] /\ data \in Seq(Seq(Cell))
      /\ n \in Names
  BY DEF TypeOK
<1>a. ASSUME pc[p] \in {"create", "open", "write", "unlink"}
      PROVE  Name(p) \in Names
  BY <1>a, NameFacts DEF Active
<1>2. link'[n] = link[n]
  BY <1>1, <1>a, <1>t DEF FileStep
<1>3. ASSUME link[n] # 0
      PROVE  data'[link[n]] = data[link[n]]
  <2>0. link[n] \in 1 .. Len(data)
    BY <1>3, <1>t
  <2>1. CASE data' = data
    BY <2>1
  <2>2. CASE data' = Append(data, <<>>)
    BY <2>2, <2>0, <1>t
  <2>3. ASSUME link[Name(p)] # 0, pc[p] \in {"create", "open"},
               data' = [data EXCEPT ![link[Name(p)]] = <<>>]
        PROVE  data'[link[n]] = data[link[n]]
    <3>1. link[Name(p)] # link[n]
      BY <2>3, <1>a, <1>t DEF FilesHaveOneName
    <3> QED BY <3>1, <2>3, <2>0, <1>t
  <2>4. ASSUME pc[p] = "write",
               NEW cells, data' = [data EXCEPT ![ino[p]] = Overlay(@, pos[p], cells)]
        PROVE  data'[link[n]] = data[link[n]]
    <3>1. ino[p] # link[n]
      BY <2>4, <1>t DEF FilesHaveOneName, HasOwnFile
    <3> QED BY <3>1, <2>4, <2>0, <1>t
  <2> QED BY <2>1, <2>2, <2>3, <2>4, <1>1 DEF FileStep
<1> QED
  BY <1>2, <1>3

\* The file of a settled name is not written after its last change but by one that
\* unsettles it.
LEMMA SettledWriters ==
  ASSUME FilesInv, WritersInStep, SettledShowLast, NEW p \in Procs, StepOf(p),
         NEW n \in settled', NEW q \in Procs, pc'[q] = "write"
  PROVE  Name(q)' # n
<1> USE DEF FilesInv
<1>1. CASE q # p
  <2>1. pc[q] = "write" /\ Name(q)' = Name(q)
    BY <1>1, OthersStay DEF StepOf, Name
  <2>2. CASE n \in settled
    BY <2>1, <2>2 DEF SettledShowLast, ShowsLast
  <2>3. CASE n \notin settled
    <3>1. n = Name(p) /\ sure[p] /\ pc[p] \in {"write", "unlink"}
      BY <2>3, SettleSteps DEF WriteLast, Unlink
    <3>2. Active(p) /\ Active(q) /\ op[q].op # "get"
      BY <2>1, <3>1 DEF Active, OperationInStep, InStep
    <3>3. Name(q) # Name(p)
      BY <1>1, <3>1, <3>2, Undisturbed
    <3> QED BY <2>1, <3>1, <3>3
  <2> QED BY <2>2, <2>3
<1>2. CASE q = p
  <2>1. CASE OpenSet(p)
    <3>1. Name(p)' = Name(p) /\ settled' = settled \ {Name(p)}
      BY <2>1 DEF OpenSet, Name
    <3> QED BY <1>2, <3>1
  <2>2. CASE Write(p)
    <3>1. Name(p)' = Name(p) /\ settled' = settled /\ pc[p] = "write"
      BY <2>2 DEF Write, Name
    <3> QED BY <1>2, <3>1 DEF SettledShowLast, ShowsLast
  <2> QED BY <1>2, <2>1, <2>2, WriteSteps
<1> QED
  BY <1>1, <1>2

\* The last change of a settled value shows in its file.
LEMMA SettledPreserved ==
  ASSUME FilesInv, WritersInStep, SureWriteAll, SettledShowLast, Next
  PROVE  SettledShowLast'
<1> USE DEF FilesInv
<1>0. PICK p \in Procs : StepOf(p)
  BY DEF Next, StepOf
<1>t. /\ Len(data) \in Nat /\ link \in [Names -> 0 .. Len(data)] /\ data \in Seq(Seq(Cell))
      /\ last \in [Names -> Entries \cup {Null}]
  BY DEF TypeOK
<1> SUFFICES ASSUME NEW n \in settled'
             PROVE  /\ last'[n] = Null => link'[n] = 0 \/ data'[link'[n]] = <<>>
                    /\ last'[n] # Null =>
                         link'[n] # 0 /\ Plain(data'[link'[n]], last'[n], Size[last'[n].val])
  BY <1>0, SettledWriters DEF SettledShowLast, ShowsLast
<1>1. CASE n # Name(p)
  <2>1. n \in settled /\ last'[n] = last[n]
    <3>1. n \in settled
      BY <1>0, <1>1, SettleSteps
    <3>2. n \in Names
      BY <3>1 DEF TypeOK
    <3>3. last' = last \/ \E x : last' = [last EXCEPT ![Name(p)] = x]
      BY <1>0, SettleSteps
    <3> QED BY <3>1, <3>2, <3>3, <1>1, <1>t
  <2>2. link'[n] = link[n] /\ (link[n] # 0 => data'[link[n]] = data[link[n]])
    BY <1>0, <1>1, <2>1, SettledFileStays
  <2> QED BY <2>1, <2>2 DEF SettledShowLast, ShowsLast
<1>2. CASE n = Name(p) /\ WriteLast(p)
  <2>1. pc[p] = "write" /\ Len(out[p]) = 1
    BY <1>2 DEF WriteLast
  <2>2. sure[p]
    BY <1>2, <2>1 DEF WriteLast
  <2> DEFINE e == Head(todo[p])
  <2>3. /\ e \in Entries /\ Name(p) \in Names /\ Size[e.val] \in Nat \ {0}
        /\ ino[p] \in 1 .. Len(data) /\ data[ino[p]] \in Seq(Cell) /\ Head(out[p]) = <<Eol>>
    <3>1. Len(out[p]) # 2
      BY <2>1
    <3> QED BY <2>1, <3>1, WriterFacts
  <2>4. link[n] = ino[p]
    BY <1>2, <2>1, <2>2 DEF SureFindsItsFile, FindsItsFile
  <2>5. /\ pos[p] = Size[e.val] /\ Len(data[ino[p]]) = pos[p] /\ BeginsAs(data[ino[p]], e, pos[p])
    BY <2>1, <2>2 DEF SureWriteAll, WritesAll
  <2>6. PICK k \in 0 .. Len(Head(out[p])) :
          data' = [data EXCEPT ![ino[p]] =
                     Overlay(data[ino[p]], pos[p], SubSeq(Head(out[p]), 1, k))]
    BY <1>2 DEF WriteLast
  <2>7. last'[n] = e /\ link' = link
    BY <1>2, <2>3, <1>t DEF WriteLast
  <2> HIDE DEF e
  <2>8. k \in 0 .. 1
    BY <2>3, <2>6
  <2>9. data'[ino[p]] = Overlay(data[ino[p]], pos[p], SubSeq(<<Eol>>, 1, k))
    <3> DEFINE new == Overlay(data[ino[p]], pos[p], SubSeq(Head(out[p]), 1, k))
    <3>1. data' = [data EXCEPT ![ino[p]] = new] /\ DOMAIN data = 1 .. Len(data)
      BY <2>6, <1>t
    <3>2. data'[ino[p]] = new
      <4> HIDE DEF new
      <4> QED BY <3>1, <2>3
    <3> QED BY <2>3, <3>2
  <2>10. Plain(data'[ino[p]], e, pos[p])
    <3>1. pos[p] \in Nat /\ pos[p] <= Size[e.val]
      BY <2>3, <2>5
    <3> QED BY <2>3, <2>5, <2>8, <2>9, <3>1, WriteEol
  <2>11. e # Null /\ link'[n] # 0
    BY <2>3, <2>4, <2>7, CellsDiffer
  <2> QED BY <2>4, <2>5, <2>7, <2>10, <2>11
<1>3. CASE n = Name(p) /\ Unlink(p)
  <2>1. Name(p) \in Names
    BY <1>3, NameFacts DEF Unlink, Active
  <2> QED BY <1>3, <2>1, <1>t DEF Unlink
<1>4. CASE n = Name(p) /\ ~WriteLast(p) /\ ~Unlink(p)
  <2>1. n \in settled /\ last' = last /\ n \in Names
    BY <1>0, <1>4, SettleSteps DEF TypeOK
  <2>2. ShowsLast(n)
    BY <2>1 DEF SettledShowLast
  <2>3. pc[p] # "write"
    BY <2>2, <1>4 DEF ShowsLast
  <2>4. CASE UNCHANGED <<link, data>>
    BY <2>1, <2>2, <2>4 DEF ShowsLast
  <2>5. CASE /\ pc[p] = "create" /\ link[Name(p)] = 0
             /\ link' = [link EXCEPT ![Name(p)] = Len(data) + 1]
             /\ data' = Append(data, <<>>)
    <3>1. last'[n] = Null
      BY <2>1, <2>2, <2>5, <1>4 DEF ShowsLast
    <3>2. link'[n] = Len(data) + 1 /\ data'[Len(data) + 1] = <<>>
      BY <2>1, <2>5, <1>4, <1>t
    <3> QED BY <3>1, <3>2
  <2>6. CASE pc[p] \in {"create", "open"} /\ op[p].op = "set" /\ link[Name(p)] # 0
    <3>1. CASE Create(p)
      <4>1. UNCHANGED <<link, data>>
        BY <2>6, <3>1, <1>4 DEF Create
      <4> QED BY <4>1, <2>4
    <3>2. CASE OpenSet(p)
      BY <3>2, <1>4 DEF OpenSet
    <3>3. CASE ~Create(p) /\ ~OpenSet(p)
      <4>1. UNCHANGED <<link, data>>
        BY <3>3, <2>6, <1>0, <1>4 DEF StepOf, Call, Walk, Stat, OpenAborts, OpenGet, Fstat, Read,
                                   Write, Crash, Begin, files
      <4> QED BY <4>1, <2>4
    <3> QED BY <3>1, <3>2, <3>3
  <2>7. CASE pc[p] = "unlink" /\ link' = [link EXCEPT ![Name(p)] = 0]
    <3>1. UNCHANGED <<link, data>>
      BY <2>7, <1>0, <1>4 DEF StepOf, Call, Walk, Stat, Create, OpenAborts, OpenGet, OpenSet, Fstat,
                              Read, Write, Crash, Begin, files
    <3> QED BY <3>1, <2>4
  <2> QED BY <1>0, <2>3, <2>4, <2>5, <2>6, <2>7, FileSteps DEF FileStep
<1> QED
  BY <1>1, <1>2, <1>3, <1>4

\* A writer that has the file to itself is left alone with it, also by one who
\* cuts it.
LEMMA OneWriterStays ==
  ASSUME TypeOK, NEW p \in Procs, StepOf(p), NEW i \in 1 .. Len(data), OneWriter(i),
         data'[i] = data[i] \/ data'[i] = <<>>,
         ~(pc'[p] = "write" /\ ino'[p] = i)
  PROVE  OneWriter(i)'
<1>1. Unmixed(data'[i])
  <2>1. Unmixed(data[i])
    BY DEF OneWriter
  <2> QED BY <2>1 DEF Unmixed
<1>2. ASSUME NEW q \in Procs, pc'[q] = "write", ino'[q] = i
      PROVE  /\ \A r \in Procs : pc'[r] = "write" /\ ino'[r] = i => r = q
             /\ Len(out'[q]) = 2 => data'[i] = <<>>
             /\ Len(out'[q]) = 1 =>
                  \/ data'[i] = <<>>
                  \/ Len(data'[i]) = pos'[q] /\ BeginsAs(data'[i], Head(todo'[q]), pos'[q])
  <2>1. \A r \in Procs : r # p => /\ pc'[r] = pc[r] /\ ino'[r] = ino[r] /\ out'[r] = out[r]
                                  /\ pos'[r] = pos[r] /\ todo'[r] = todo[r]
    BY OthersStay DEF StepOf
  <2>2. q # p /\ \A r \in Procs : pc'[r] = "write" /\ ino'[r] = i => r # p
    BY <1>2
  <2> QED BY <1>2, <2>1, <2>2 DEF OneWriter
<1> QED
  BY <1>1, <1>2 DEF OneWriter

LEMMA OneWriterPreserved ==
  ASSUME FilesInv, WritersInStep, OneWriterEach, Next
  PROVE  OneWriterEach'
<1> USE DEF FilesInv
<1>0. PICK p \in Procs : StepOf(p)
  BY DEF Next, StepOf
<1>t. /\ Len(data) \in Nat /\ link \in [Names -> 0 .. Len(data)] /\ data \in Seq(Seq(Cell))
      /\ DOMAIN data = 1 .. Len(data)
  BY DEF TypeOK
<1>a. Active(p) => Name(p) \in Names
  BY NameFacts
<1> SUFFICES ASSUME NEW i \in 1 .. Len(data'), i \notin shared'
             PROVE  OneWriter(i)'
  BY DEF OneWriterEach
<1>q. ASSUME NEW q \in Procs, q # p
      PROVE  pc'[q] = pc[q] /\ ino'[q] = ino[q]
  BY <1>0, <1>q, OthersStay DEF StepOf
<1>n. ASSUME pc'[p] # "write", i \in 1 .. Len(data), i \notin shared,
             data'[i] = data[i] \/ data'[i] = <<>>
      PROVE  OneWriter(i)'
  BY <1>0, <1>n, OneWriterStays DEF OneWriterEach
<1>1. CASE Create(p)
  <2>1. (pc'[p] # "write" /\ shared' = shared /\ ino' = ino) \/ NextEntry(p)
    BY <1>1 DEF Create, Goto, work, TypeOK
  <2>2. pc'[p] # "write" /\ shared' = shared
    BY <2>1, <1>1 DEF Create, NextEntry, Return, Goto, TypeOK
  <2>3. CASE /\ link[Name(p)] = 0 /\ data' = Append(data, <<>>) /\ UNCHANGED work
    <3>1. CASE i \in 1 .. Len(data)
      <4>1. data'[i] = data[i]
        BY <2>3, <3>1, <1>t
      <4> QED BY <4>1, <2>2, <3>1, <1>n
    <3>2. CASE i \notin 1 .. Len(data)
      <4>1. data'[i] = <<>> /\ i = Len(data) + 1
        BY <2>3, <3>2, <1>t
      <4>2. \A q \in Procs : ino'[q] # i
        BY <2>3, <4>1, <1>t DEF work, TypeOK
      <4> QED BY <4>1, <4>2 DEF OneWriter, Unmixed
    <3> QED BY <3>1, <3>2
  <2>4. CASE link[Name(p)] # 0 /\ data' = [data EXCEPT ![link[Name(p)]] = <<>>]
    <3>1. i \in 1 .. Len(data) /\ (data'[i] = data[i] \/ data'[i] = <<>>)
      BY <2>4, <1>t
    <3> QED BY <3>1, <2>2, <1>n
  <2>5. CASE data' = data
    BY <2>5, <2>2, <1>n
  <2> QED BY <2>3, <2>4, <2>5, <1>1 DEF Create
<1>2. CASE OpenSet(p)
  <2> DEFINE file == link[Name(p)]
  <2>1. /\ file \in 1 .. Len(data) /\ data' = [data EXCEPT ![file] = <<>>]
        /\ ino'[p] = file
        /\ shared' = IF OthersWrite(p, file) THEN shared \cup {file} ELSE shared \ {file}
    BY <1>2, <1>a, <1>t DEF OpenSet, Active, TypeOK
  <2> HIDE DEF file
  <2>2. i \in 1 .. Len(data)
    BY <2>1, <1>t
  <2>3. CASE i = file
    <3>1. data'[i] = <<>> /\ ~OthersWrite(p, i)
      BY <2>1, <2>3, <1>t
    <3>2. \A q \in Procs : pc'[q] = "write" /\ ino'[q] = i => q = p
      BY <3>1, <1>q DEF OthersWrite
    <3> QED BY <3>1, <3>2 DEF OneWriter, Unmixed
  <2>4. CASE i # file
    <3>1. data'[i] = data[i] /\ ino'[p] # i /\ i \notin shared
      BY <2>1, <2>2, <2>4, <1>t
    <3> QED BY <3>1, <2>2, <1>0, OneWriterStays DEF OneWriterEach
  <2> QED BY <2>3, <2>4
<1>3. ASSUME pc[p] = "write", ino[p] # i, Write(p) \/ WriteLast(p)
      PROVE  OneWriter(i)'
  <2>1. PICK x : data' = [data EXCEPT ![ino[p]] = x]
    BY <1>3 DEF Write, WriteLast
  <2>2. i \in 1 .. Len(data) /\ data'[i] = data[i]
    BY <2>1, <1>3, <1>t
  <2>3. shared' = shared
    BY <1>3 DEF Write, WriteLast
  <2>4. ~(pc'[p] = "write" /\ ino'[p] = i)
    <3>1. CASE Write(p)
      BY <3>1, <1>3 DEF Write
    <3>2. CASE WriteLast(p)
      BY <3>2 DEF WriteLast, NextEntry, Return, Goto, TypeOK
    <3> QED BY <3>1, <3>2, <1>3
  <2> QED BY <2>2, <2>3, <2>4, <1>0, OneWriterStays DEF OneWriterEach
<1>4. CASE Write(p) /\ ino[p] = i
  <2> DEFINE e == Head(todo[p])
  <2>1. pc[p] = "write" /\ Len(out[p]) > 1 /\ shared' = shared
    BY <1>4 DEF Write
  <2>2. Len(out[p]) # 1
    <3>1. Len(out[p]) \in Nat
      BY DEF TypeOK
    <3>2. \A m \in Nat : m > 1 => m # 1
      OBVIOUS
    <3> QED BY <2>1, <3>1, <3>2, Zenon
  <2>3. /\ e \in Entries /\ Size[e.val] \in Nat \ {0} /\ i \in 1 .. Len(data)
        /\ data[i] \in Seq(Cell) /\ Len(out[p]) = 2 /\ Head(out[p]) = Tag(e) /\ pos[p] = 0
        /\ Tail(out[p]) = <<<<Eol>>>> /\ Len(Tag(e)) = Size[e.val]
    BY <2>1, <2>2, <1>4, WriterFacts
  <2>4. OneWriter(i)
    BY <2>1, <2>3 DEF OneWriterEach
  <2>5. data[i] = <<>> /\ \A q \in Procs : pc[q] = "write" /\ ino[q] = i => q = p
    BY <2>1, <2>3, <2>4, <1>4 DEF OneWriter
  <2>6. PICK k \in 0 .. Len(Head(out[p])) :
          /\ data' = [data EXCEPT ![i] =
                        Overlay(data[i], pos[p], SubSeq(Head(out[p]), 1, k))]
          /\ pos' = [pos EXCEPT ![p] = pos[p] + k]
    BY <1>4 DEF Write
  <2>7. /\ pos'[p] = k /\ todo'[p] = todo[p] /\ k \in 0 .. Size[e.val]
    <3>1. pos'[p] = 0 + k /\ k \in 0 .. Size[e.val]
      BY <2>3, <2>6 DEF TypeOK
    <3>2. todo'[p] = todo[p]
      BY <1>4 DEF Write, TypeOK
    <3> HIDE DEF e
    <3> QED BY <3>1, <3>2, <2>3
  <2>8. data'[i] = Overlay(data[i], pos[p], SubSeq(Tag(e), 1, k))
    <3> DEFINE new == Overlay(data[i], pos[p], SubSeq(Head(out[p]), 1, k))
    <3>1. data' = [data EXCEPT ![i] = new]
      BY <2>6
    <3>2. data'[i] = new
      <4> HIDE DEF new, e
      <4> QED BY <3>1, <2>3, <1>t
    <3> QED BY <2>3, <3>2
  <2> HIDE DEF e
  <2>9. Len(data'[i]) = k /\ BeginsAs(data'[i], e, k)
    <3>1. /\ pos[p] \in Nat /\ pos[p] = 0 /\ data[i] = <<>>
          /\ data[i] \in Seq(Cell) /\ e \in Entries
      BY <2>3, <2>5
    <3>2. LET new == Overlay(data[i], pos[p], SubSeq(Tag(e), 1, k))
          IN  Len(new) = k /\ BeginsAs(new, e, k)
      BY <2>7, <3>1, WriteTag
    <3> QED BY <3>2, <2>8
  <2>10. Unmixed(data'[i])
    <3>1. k \in 0 .. Len(data'[i]) /\ Len(data'[i]) <= k + 1 /\ Len(data'[i]) # k + 1
      BY <2>3, <2>7, <2>9
    <3>2. Plain(data'[i], e, k)
      BY <2>9, <3>1 DEF Plain
    <3> QED BY <2>3, <3>1, <3>2 DEF Unmixed
  <2>11. ASSUME NEW q \in Procs, pc'[q] = "write", ino'[q] = i
         PROVE  q = p
    BY <2>5, <2>11, <1>q
  <2>12. Len(out'[p]) # 2
    <3>1. out'[p] = <<<<Eol>>>>
      BY <2>3, <1>4 DEF Write, TypeOK
    <3> QED BY <3>1
  <2>13. Len(data'[i]) = pos'[p] /\ BeginsAs(data'[i], Head(todo'[p]), pos'[p])
    BY <2>7, <2>9 DEF e
  <2> QED BY <2>10, <2>11, <2>12, <2>13 DEF OneWriter
<1>5. CASE WriteLast(p) /\ ino[p] = i
  <2> DEFINE e == Head(todo[p])
  <2>1. pc[p] = "write" /\ Len(out[p]) = 1 /\ shared' = shared
    BY <1>5 DEF WriteLast
  <2>2. Len(out[p]) # 2
    BY <2>1
  <2>3. /\ e \in Entries /\ Size[e.val] \in Nat \ {0} /\ i \in 1 .. Len(data)
        /\ data[i] \in Seq(Cell) /\ Head(out[p]) = <<Eol>> /\ pos[p] \in 0 .. Size[e.val]
    BY <2>1, <2>2, <1>5, WriterFacts
  <2>4. OneWriter(i)
    BY <2>1, <2>3 DEF OneWriterEach
  <2>5. /\ data[i] = <<>> \/ (Len(data[i]) = pos[p] /\ BeginsAs(data[i], e, pos[p]))
        /\ \A q \in Procs : pc[q] = "write" /\ ino[q] = i => q = p
    BY <2>1, <2>3, <2>4, <1>5 DEF OneWriter
  <2>6. PICK k \in 0 .. Len(Head(out[p])) :
          data' = [data EXCEPT ![i] = Overlay(data[i], pos[p], SubSeq(Head(out[p]), 1, k))]
    BY <1>5 DEF WriteLast
  <2>7. k \in 0 .. 1 /\ pos[p] \in Nat /\ pos[p] <= Size[e.val]
    <3>1. k \in 0 .. 1
      BY <2>3, <2>6
    <3>2. \A m \in Nat : \A x \in 0 .. m : x \in Nat /\ x <= m
      OBVIOUS
    <3> HIDE DEF e
    <3> QED BY <2>3, <3>1, <3>2
  <2>8. data'[i] = Overlay(data[i], pos[p], SubSeq(<<Eol>>, 1, k))
    <3> DEFINE new == Overlay(data[i], pos[p], SubSeq(Head(out[p]), 1, k))
    <3>1. data' = [data EXCEPT ![i] = new]
      BY <2>6
    <3>2. data'[i] = new
      <4> HIDE DEF new, e
      <4> QED BY <3>1, <2>3, <1>t
    <3> QED BY <2>3, <3>2
  <2> HIDE DEF e
  <2>9. Unmixed(data'[i])
    BY <2>3, <2>5, <2>7, <2>8, WriteEol
  <2>10. pc'[p] # "write"
    BY <1>5 DEF WriteLast, NextEntry, Return, Goto, TypeOK
  <2>11. \A q \in Procs : ~(pc'[q] = "write" /\ ino'[q] = i)
    BY <2>5, <2>10, <1>q
  <2> QED BY <2>9, <2>11 DEF OneWriter
<1>6. CASE ~Create(p) /\ ~OpenSet(p) /\ ~Write(p) /\ ~WriteLast(p)
  <2>1. data' = data /\ shared' = shared
    BY <1>0, <1>6 DEF StepOf, Call, Walk, Stat, OpenAborts, OpenGet, Fstat, Read, Unlink, Crash,
                      Begin, files, history
  <2>2. pc'[p] # "write"
    BY <1>0, <1>6, WriteSteps
  <2> QED BY <2>1, <2>2, <1>n
<1> QED
  <2>1. Write(p) \/ WriteLast(p) => pc[p] = "write"
    BY DEF Write, WriteLast
  <2> QED BY <2>1, <1>1, <1>2, <1>3, <1>4, <1>5, <1>6

-----------------------------------------------------------------------------
\* The invariant of lists of one entry.

LEMMA SingleInit == Init => SingleInv
<1> SUFFICES ASSUME Init PROVE SingleInv
  OBVIOUS
<1> USE DEF Init
<1>0. Len(<<>>) = 0 /\ NoOp.op = "none"
  BY DEF NoOp
<1>1. FilesInv
  BY FilesInit
<1>2. WritersInStep /\ SureWriteAll
  BY <1>0 DEF WritersInStep, WriterInStep, SureWriteAll, WritesAll
<1>3. DirectoriesStay
  BY DEF DirectoriesStay, HasDirectories, Active
<1>4. SettledShowLast
  BY DEF SettledShowLast, ShowsLast
<1>5. OneWriterEach
  BY <1>0 DEF OneWriterEach
<1> QED
  BY <1>1, <1>2, <1>3, <1>4, <1>5 DEF SingleInv

LEMMA SingleNext ==
  ASSUME OneEntryLists
  PROVE  SingleInv /\ [Next]_vars => SingleInv'
<1> SUFFICES ASSUME SingleInv, [Next]_vars PROVE SingleInv'
  OBVIOUS
<1>1. FilesInv'
  BY FilesNext DEF SingleInv
<1>2. CASE Next
  <2>1. WritersInStep'
    BY <1>2, WritersPreserved DEF SingleInv, FilesInv
  <2>2. DirectoriesStay'
    BY <1>2, DirectoriesPreserved DEF SingleInv, FilesInv
  <2>3. SureWriteAll'
    BY <1>2, <2>1, SureWritesPreserved DEF SingleInv
  <2>4. SettledShowLast' /\ OneWriterEach'
    BY <1>2, SettledPreserved, OneWriterPreserved DEF SingleInv
  <2> QED BY <1>1, <2>1, <2>2, <2>3, <2>4 DEF SingleInv
<1>3. CASE UNCHANGED vars
  <2> USE <1>3 DEF vars, files, work, history
  <2>1. \A p \in Procs : Name(p)' = Name(p) /\ (Active(p)' <=> Active(p))
    BY DEF Name, Active
  <2>2. WritersInStep' /\ SureWriteAll'
    BY DEF SingleInv, WritersInStep, WriterInStep, SureWriteAll, WritesAll
  <2>3. DirectoriesStay'
    BY <2>1 DEF SingleInv, DirectoriesStay, HasDirectories
  <2>4. SettledShowLast'
    BY <2>1 DEF SingleInv, SettledShowLast, ShowsLast
  <2>5. OneWriterEach'
    BY DEF SingleInv, OneWriterEach, OneWriter
  <2> QED BY <1>1, <2>2, <2>3, <2>4, <2>5 DEF SingleInv
<1> QED
  BY <1>2, <1>3

LEMMA SingleInvariant ==
  ASSUME OneEntryLists
  PROVE  Spec => []SingleInv
<1>1. SingleInv /\ [Next]_vars => SingleInv'
  BY SingleNext
<1> QED
  BY <1>1, SingleInit, PTL DEF Spec

\* What a get returns it has found in its file, unless the value is not there.
LEMMA GetReturns ==
  ASSUME FilesInv, WritersInStep, [Next]_vars, NEW p \in Procs,
         NEW g \in Entries \cup {Null, Garbled}, Returns(p, g)
  PROVE  \/ /\ g = Null
            /\ \/ pc[p] = "walk" /\ SubSeq(Name(p), 1, seg[p] + 1) \notin dirs
               \/ pc[p] = "stat" /\ link[Name(p)] = 0
         \/ /\ pc[p] = "read" /\ pos[p] <= Len(data[ino[p]])
            /\ g \in Parses(SubSeq(data[ino[p]], 1, pos[p]))
<1> USE DEF FilesInv
<1>0. op[p].op = "get" /\ op'[p].op = "none" /\ pc'[p] = "idle" /\ crashes' = crashes /\ got'[p] = g
  BY DEF Returns
<1>n. op'[p] # op[p]
  BY <1>0
<1>1. PICK q \in Procs : StepOf(q)
  <2>1. CASE UNCHANGED vars
    BY <2>1, <1>n DEF vars, work
  <2> QED BY <2>1 DEF Next, StepOf
<1>2. q = p
  BY <1>1, <1>n, OthersStay DEF StepOf
<1>3. StepOf(p)
  BY <1>1, <1>2
<1>r. \A x : Return(p, x) => x = g
  BY <1>0 DEF Return, TypeOK
<1>m. NoMatch(p) => g = Null
  BY <1>0, <1>r DEF NoMatch
<1>4. CASE Walk(p)
  <2>1. NoMatch(p) /\ SubSeq(Name(p), 1, seg[p] + 1) \notin dirs
    BY <1>4, <1>n DEF Walk
  <2> QED BY <2>1, <1>4, <1>m DEF Walk
<1>5. CASE Stat(p)
  BY <1>5, <1>n, <1>m DEF Stat, work
<1>6. CASE Read(p)
  <2>1. ~Abort(p)
    BY <1>0 DEF Abort, Goto, TypeOK
  <2>2. ~(Len(data[ino[p]]) < pos[p]) /\ \E x \in Parses(SubSeq(data[ino[p]], 1, pos[p])) : Return(p, x)
    BY <2>1, <1>6 DEF Read
  <2>3. pc[p] = "read" /\ pos[p] \in Nat /\ Len(data[ino[p]]) \in Nat
    <3>1. pc[p] = "read"
      BY <1>6 DEF Read
    <3>2. ino[p] \in 0 .. Len(data) /\ ino[p] # 0 /\ Len(data) \in Nat /\ data \in Seq(Seq(Cell))
      BY <3>1 DEF TypeOK, FilesHaveOneName, HasOwnFile
    <3> QED BY <3>1, <3>2 DEF TypeOK
  <2> QED BY <2>2, <2>3, <1>r
<1>7. ~Create(p) /\ ~OpenSet(p) /\ ~WriteLast(p) /\ ~Unlink(p)
  BY <1>0 DEF Create, OpenSet, WriteLast, Unlink, OperationInStep, InStep
<1>8. ~OpenAborts(p) /\ ~OpenGet(p) /\ ~Fstat(p) /\ ~Write(p)
  BY <1>0, <1>n DEF OpenAborts, OpenGet, Fstat, Write, Abort, Goto, TypeOK
<1>9. ~Crash(p)
  <2>1. crashes \in Nat
    BY BoundsAssumption DEF TypeOK
  <2>2. Crash(p) => crashes' = crashes + 1
    BY DEF Crash
  <2>3. \A m \in Nat : m + 1 # m
    OBVIOUS
  <2> QED BY <1>0, <2>1, <2>2, <2>3
<1>10. ~ \E o \in Ops : Begin(p, o)
  BY <1>0 DEF Begin, Goto, TypeOK
<1> QED
  BY <1>3, <1>4, <1>5, <1>6, <1>7, <1>8, <1>9, <1>10 DEF StepOf, Call

\* When the lists passed to cfgs_setval have one entry each, as the daemon's have, a
\* get that no change of its value came between returns what the last change has
\* left: whatever other processes do to other values, whoever is killed and
\* however often the disk is full.  (fs_search_exact, on_match_get,
\* cfgs_tags_read.)
THEOREM FsFindsWhatWasSet ==
  ASSUME OneEntryLists
  PROVE  Spec => FindsWhatWasSet
<1>1. ASSUME SingleInv, [Next]_vars, NEW p \in Procs, NEW g \in Entries \cup {Null, Garbled},
             Returns(p, g), sure[p], op[p].name \in settled
      PROVE  g = last[op[p].name]
  <2> DEFINE n == op[p].name
  <2> USE DEF SingleInv, FilesInv
  <2>0. op[p].op = "get" /\ Active(p)
    <3>1. op[p].op = "get" /\ op[p] # NoOp
      BY <1>1 DEF Returns, NoOp
    <3> QED BY <1>1, <3>1 DEF OperationInStep, InStep
  <2>1. Name(p) = n /\ n \in Names /\ n \in settled
    BY <1>1, <2>0, NameFacts
  <2>2. /\ last[n] = Null => link[n] = 0 \/ data[link[n]] = <<>>
        /\ last[n] # Null => link[n] # 0 /\ Plain(data[link[n]], last[n], Size[last[n].val])
    BY <1>1, <2>1 DEF SettledShowLast, ShowsLast
  <2> HIDE DEF n
  <2>3. CASE g = Null /\ pc[p] = "walk" /\ SubSeq(Name(p), 1, seg[p] + 1) \notin dirs
    <3>1. seg[p] \in Nat /\ seg[p] < Len(Name(p)) /\ Len(Name(p)) \in Nat
      BY <1>1, <2>0, <2>3, NameFacts DEF OperationInStep, InStep, TypeOK
    <3>2. seg[p] + 1 \in 1 .. Len(n)
      BY <2>1, <3>1
    <3>3. link[n] = 0
      BY <1>1, <2>1, <2>3, <3>2 DEF DirectoriesStay
    <3> QED BY <2>2, <2>3, <3>3 DEF n
  <2>4. CASE g = Null /\ pc[p] = "stat" /\ link[Name(p)] = 0
    BY <2>1, <2>2, <2>4 DEF n
  <2>5. CASE /\ pc[p] = "read" /\ pos[p] <= Len(data[ino[p]])
             /\ g \in Parses(SubSeq(data[ino[p]], 1, pos[p]))
    <3>1. /\ link[n] = ino[p] /\ ino[p] # 0 /\ pos[p] = Len(data[ino[p]])
      BY <1>1, <2>1, <2>5 DEF SureFindsItsFile, FindsItsFile, FilesHaveOneName, HasOwnFile
    <3>2. ino[p] \in 1 .. Len(data) /\ data[ino[p]] \in Seq(Cell)
      <4>1. ino[p] \in 0 .. Len(data) /\ data \in Seq(Seq(Cell)) /\ Len(data) \in Nat
        BY <1>1 DEF TypeOK
      <4> QED BY <4>1, <3>1
    <3>3. g \in Parses(data[ino[p]])
      BY <2>5, <3>1, <3>2, SubSeqFull
    <3>4. CASE last[n] = Null
      <4>1. data[ino[p]] = <<>>
        BY <3>1, <3>4, <2>2
      <4> QED BY <3>3, <3>4, <4>1, ParseEmpty DEF n
    <3>5. CASE last[n] # Null
      <4>1. last[n] \in Entries
        BY <1>1, <2>1, <3>5 DEF TypeOK
      <4>2. Parses(data[ino[p]]) = {last[n]}
        BY <2>2, <3>1, <3>2, <3>5, <4>1, ParsePlain
      <4> QED BY <3>3, <4>2 DEF n
    <3> QED BY <3>4, <3>5
  <2> QED BY <1>1, <2>3, <2>4, <2>5, GetReturns
<1>2. SingleInv /\ [Next]_vars =>
        [\A p \in Procs, g \in Entries \cup {Null, Garbled} :
           Returns(p, g) /\ sure[p] /\ op[p].name \in settled => g = last[op[p].name]]_vars
  BY <1>1
<1> QED
  BY <1>2, SingleInvariant, PTL DEF Spec, FindsWhatWasSet

\* With such lists a get returns a mixture of two values only from a file that two
\* processes have had open for writing at once.  (cfgs_tags_read,
\* cfgs_tags_from_str.)
THEOREM FsOneWriterNoMixture ==
  ASSUME OneEntryLists
  PROVE  Spec => OneWriterNoMixture
<1>1. ASSUME SingleInv, [Next]_vars, NEW p \in Procs, Returns(p, Garbled), ino[p] \notin shared
      PROVE  FALSE
  <2> USE DEF SingleInv, FilesInv
  <2>1. /\ pc[p] = "read" /\ pos[p] <= Len(data[ino[p]])
        /\ Garbled \in Parses(SubSeq(data[ino[p]], 1, pos[p]))
    BY <1>1, GetReturns, CellsDiffer
  <2>2. ino[p] \in 1 .. Len(data) /\ data[ino[p]] \in Seq(Cell) /\ pos[p] \in Nat
    <3>1. /\ ino[p] \in 0 .. Len(data) /\ data \in Seq(Seq(Cell)) /\ Len(data) \in Nat
          /\ ino[p] # 0 /\ pos[p] \in Nat
      BY <1>1, <2>1 DEF TypeOK, FilesHaveOneName, HasOwnFile
    <3> QED BY <3>1
  <2>3. Unmixed(data[ino[p]])
    BY <1>1, <2>2 DEF OneWriterEach, OneWriter
  <2> QED BY <2>1, <2>2, <2>3, ParseUnmixed
<1>2. SingleInv /\ [Next]_vars =>
        [\A p \in Procs : Returns(p, Garbled) => ino[p] \in shared]_vars
  BY <1>1
<1> QED
  BY <1>2, SingleInvariant, PTL DEF Spec, OneWriterNoMixture
=============================================================================
