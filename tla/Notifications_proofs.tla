------------------------- MODULE Notifications_proofs -------------------------
(***************************************************************************)
(* What the notification mechanism keeps, for any handlers, clients, names *)
(* and patterns and any capacity of the pipe: types and the mutex of the   *)
(* writers; the order of what is dispatched; that nothing is lost before a *)
(* record is cut short, nor after one once the dispatcher has caught up.   *)
(***************************************************************************)
EXTENDS Notifications, NaturalsInduction, SequenceTheorems, WellFoundedInduction, TLAPS

\* The handler that writes a record holds m_notif_queue_mutex, and has the end of
\* the record of the last change still to write, announced after the dispatcher
\* was last seen waiting.
WriterInStep(h) ==
  todo[h] # <<>> =>
    /\ queueHolder = h
    /\ truncated < Len(announced)
    /\ since.announced < Len(announced)
    /\ Len(todo[h]) <= 7
    /\ \A i \in 1 .. Len(todo[h]) :
         todo[h][i] = Fields(announced[Len(announced)])[7 - Len(todo[h]) + i]

WritersInStep == \A h \in Handlers : WriterInStep(h)

NotifInv == TypeOK /\ WritersInStep

-----------------------------------------------------------------------------
\* Bytes and records.

\* The two bytes of a length.
LEMMA ShortFacts ==
  ASSUME NEW k \in Nat, k <= 65535
  PROVE  /\ Short(k) \in Seq(Byte) /\ Len(Short(k)) = 2
         /\ Short(k)[1] \in Byte /\ Short(k)[2] \in Byte
         /\ Short(k)[1] + 256 * Short(k)[2] = k
         /\ k <= 8447 => Short(k)[2] <= 32
         /\ k <= FILENAME_MAX => Short(k)[2] <= 16
<1>1. PICK lo \in Int, hi \in Int : lo = k % 256 /\ hi = k \div 256
  OBVIOUS
<1>2. 0 <= lo /\ lo <= 255 /\ lo + 256 * hi = k
  BY <1>1
<1>3. 0 <= hi /\ hi <= 255 /\ (k <= 8447 => hi <= 32) /\ (k <= 4096 => hi <= 16)
  BY <1>2
<1>4. Short(k) = <<lo, hi>>
  BY <1>1 DEF Short
<1>5. lo \in Byte /\ hi \in Byte
  BY <1>2, <1>3 DEF Byte
<1>6. <<lo, hi>> \in Seq(Byte) /\ Len(<<lo, hi>>) = 2 /\ <<lo, hi>>[1] = lo /\ <<lo, hi>>[2] = hi
  BY <1>5
<1> QED
  BY <1>2, <1>3, <1>4, <1>5, <1>6 DEF FILENAME_MAX

\* A printable string and the zero byte that ends it.
LEMMA EndedFacts ==
  ASSUME NEW s \in Seq(Printable), Len(s) < FILENAME_MAX
  PROVE  LET t == Append(s, 0)
         IN /\ t \in Seq(Byte) /\ Len(t) = Len(s) + 1
            /\ Len(t) \in Nat \ {0} /\ Len(t) <= FILENAME_MAX
            /\ \A i \in 1 .. Len(s) : t[i] = s[i] /\ s[i] \in Printable
            /\ t[Len(s) + 1] = 0
            /\ \A i \in 1 .. Len(s) + 1 : t[i] # 60
<1> DEFINE t == Append(s, 0)
<1>1. Printable \subseteq Byte /\ 0 \in Byte /\ 60 \notin Printable
  BY DEF Printable, Byte
<1>2. s \in Seq(Byte) /\ Len(s) \in Nat /\ \A i \in 1 .. Len(s) : s[i] \in Printable
  BY <1>1, SeqMonotonic
<1> HIDE DEF Byte, Printable
<1>3. /\ t \in Seq(Byte) /\ Len(t) = Len(s) + 1
      /\ \A i \in 1 .. Len(s) : t[i] = s[i]
      /\ t[Len(s) + 1] = 0
  BY <1>1, <1>2, AppendProperties
<1> HIDE DEF t
<1>4. Len(t) \in Nat \ {0} /\ Len(t) <= FILENAME_MAX
  <2>1. PICK l \in Nat : l = Len(s) /\ l < 4096
    BY <1>2 DEF FILENAME_MAX
  <2>2. l + 1 \in Nat \ {0} /\ l + 1 <= 4096
    BY <2>1
  <2> QED BY <1>3, <2>1, <2>2 DEF FILENAME_MAX
<1>5. \A i \in 1 .. Len(s) + 1 : t[i] # 60
  <2>1. \A i \in 1 .. Len(s) + 1 : i \in 1 .. Len(s) \/ i = Len(s) + 1
    BY <1>2
  <2> QED BY <1>1, <1>2, <1>3, <2>1
<1> QED
  BY <1>2, <1>3, <1>4, <1>5 DEF t

LEMMA TextFacts ==
  ASSUME NEW n \in Names
  PROVE  /\ Spelling[n] \in Seq(Printable) /\ Len(Spelling[n]) \in Nat \ {0}
         /\ Text(n) \in Seq(Byte) /\ Len(Text(n)) = Len(Spelling[n]) + 1
         /\ Len(Text(n)) \in Nat \ {0} /\ Len(Text(n)) <= FILENAME_MAX
         /\ \A i \in 1 .. Len(Spelling[n]) : Text(n)[i] = Spelling[n][i] /\ Text(n)[i] \in Printable
         /\ Text(n)[Len(Spelling[n]) + 1] = 0
         /\ \A i \in 1 .. Len(Text(n)) : Text(n)[i] # 60
<1>1. Spelling[n] \in Seq(Printable) /\ Len(Spelling[n]) \in 1 .. FILENAME_MAX - 1
  BY ConstantsAssumption
<1>2. Len(Spelling[n]) \in Nat \ {0} /\ Len(Spelling[n]) < FILENAME_MAX
  <2>1. PICK l, F : l = Len(Spelling[n]) /\ F = FILENAME_MAX
    OBVIOUS
  <2>2. l \in 1 .. F - 1
    BY <1>1, <2>1
  <2>3. F = 4096
    BY <2>1 DEF FILENAME_MAX
  <2>4. l \in Nat \ {0} /\ l < F
    BY <2>2, <2>3
  <2> QED BY <2>1, <2>4
<1> HIDE DEF Printable, Byte
<1> QED
  BY <1>1, <1>2, EndedFacts DEF Text

LEMMA LayerFacts ==
  /\ Layer \in Seq(Byte) /\ Len(Layer) \in Nat \ {0} /\ Len(Layer) <= FILENAME_MAX
  /\ \A i \in 1 .. Len(Layer) : Layer[i] # 60
<1>1. LayerSpelling \in Seq(Printable) /\ Len(LayerSpelling) < FILENAME_MAX
  BY ConstantsAssumption
<1> QED
  BY <1>1, EndedFacts DEF Layer

\* The tags, byte by byte.
LEMMA TagFacts ==
  /\ start_rec \in Seq(Byte) /\ Len(start_rec) = 9
  /\ end_rec \in Seq(Byte) /\ Len(end_rec) = 7
  /\ start_rec[1] = 60 /\ start_rec[2] = 37 /\ start_rec[3] = 115 /\ start_rec[4] = 116
  /\ start_rec[5] = 97 /\ start_rec[6] = 114 /\ start_rec[7] = 116 /\ start_rec[8] = 37
  /\ start_rec[9] = 62
  /\ end_rec[1] = 60 /\ end_rec[2] = 37 /\ end_rec[3] = 101 /\ end_rec[4] = 110
  /\ end_rec[5] = 100 /\ end_rec[6] = 37 /\ end_rec[7] = 62
BY DEF start_rec, end_rec, Byte

\* The seven fields of a record.
LEMMA FieldFacts ==
  ASSUME NEW n \in Names
  PROVE  /\ Fields(n) \in Seq(Seq(Byte)) /\ Len(Fields(n)) = 7
         /\ Fields(n)[1] = start_rec
         /\ \E k \in Nat : k <= 8447 /\ Fields(n)[2] = Short(k)
         /\ Fields(n)[3] = Short(Len(Text(n)))
         /\ Fields(n)[4] = Text(n)
         /\ Fields(n)[5] = Short(Len(Layer))
         /\ Fields(n)[6] = Layer
         /\ Fields(n)[7] = end_rec
<1>1. PICK k : k = 2 + Len(Text(n)) + 2 + Len(Layer) + Len(end_rec)
  OBVIOUS
<1>2. /\ k \in Nat /\ k <= 8447
      /\ Len(Text(n)) \in Nat /\ Len(Text(n)) <= 8447 /\ Len(Layer) \in Nat /\ Len(Layer) <= 8447
  <2>1. PICK a \in Nat, b \in Nat : a = Len(Text(n)) /\ b = Len(Layer) /\ a <= 4096 /\ b <= 4096
    BY TextFacts, LayerFacts DEF FILENAME_MAX
  <2>2. k = 2 + a + 2 + b + 7
    BY <1>1, <2>1, TagFacts
  <2> QED BY <2>1, <2>2
<1>3. Fields(n) = << start_rec, Short(k), Short(Len(Text(n))), Text(n), Short(Len(Layer)),
                     Layer, end_rec >>
  BY <1>1 DEF Fields
<1>4. PICK a, b, c : a = Short(k) /\ b = Short(Len(Text(n))) /\ c = Short(Len(Layer))
  OBVIOUS
<1>5. a \in Seq(Byte) /\ b \in Seq(Byte) /\ c \in Seq(Byte)
  <2>1. \A j \in Nat : j <= 8447 => j <= 65535
    OBVIOUS
  <2> QED BY <1>2, <1>4, <2>1, ShortFacts
<1>6. Fields(n) = << start_rec, a, b, Text(n), c, Layer, end_rec >>
  BY <1>3, <1>4
<1>7. /\ start_rec \in Seq(Byte) /\ Text(n) \in Seq(Byte) /\ Layer \in Seq(Byte)
      /\ end_rec \in Seq(Byte)
  BY TagFacts, TextFacts, LayerFacts
<1> DEFINE S == Seq(Byte)
<1>8. Fields(n) \in Seq(S) /\ Len(Fields(n)) = 7
  <2> HIDE DEF S
  <2>1. /\ start_rec \in S /\ a \in S /\ b \in S /\ Text(n) \in S /\ c \in S /\ Layer \in S
        /\ end_rec \in S
    BY <1>5, <1>7 DEF S
  <2> QED BY <1>6, <2>1
<1>9. /\ Fields(n)[1] = start_rec /\ Fields(n)[2] = a /\ Fields(n)[3] = b
      /\ Fields(n)[4] = Text(n) /\ Fields(n)[5] = c /\ Fields(n)[6] = Layer
      /\ Fields(n)[7] = end_rec
  BY <1>6
<1> QED
  BY <1>2, <1>4, <1>8, <1>9

\* A field has at least one byte, and so many.
LEMMA FieldLengths ==
  ASSUME NEW n \in Names
  PROVE  /\ Len(Fields(n)[1]) = 9 /\ Len(Fields(n)[2]) = 2 /\ Len(Fields(n)[3]) = 2
         /\ Len(Fields(n)[4]) = Len(Text(n)) /\ Len(Fields(n)[5]) = 2
         /\ Len(Fields(n)[6]) = Len(Layer) /\ Len(Fields(n)[7]) = 7
         /\ \A f \in 1 .. 7 : Fields(n)[f] \in Seq(Byte) /\ Len(Fields(n)[f]) \in Nat \ {0}
<1>1. \A k \in Nat : (k <= 8447 => k <= 65535) /\ (k <= 4096 => k <= 65535)
  OBVIOUS
<1>2. /\ Len(Text(n)) <= 65535 /\ Len(Text(n)) \in Nat \ {0}
      /\ Len(Layer) <= 65535 /\ Len(Layer) \in Nat \ {0}
  BY <1>1, TextFacts, LayerFacts DEF FILENAME_MAX
<1>3. /\ Len(Fields(n)[1]) = 9 /\ Len(Fields(n)[2]) = 2 /\ Len(Fields(n)[3]) = 2
      /\ Len(Fields(n)[4]) = Len(Text(n)) /\ Len(Fields(n)[5]) = 2
      /\ Len(Fields(n)[6]) = Len(Layer) /\ Len(Fields(n)[7]) = 7
  <2>1. PICK k \in Nat : k <= 8447 /\ Fields(n)[2] = Short(k)
    BY FieldFacts
  <2>2. Len(Short(k)) = 2
    BY <1>1, <2>1, ShortFacts
  <2>3. Len(Short(Len(Text(n)))) = 2 /\ Len(Short(Len(Layer))) = 2
    BY <1>2, ShortFacts
  <2>4. Len(start_rec) = 9 /\ Len(end_rec) = 7
    BY TagFacts
  <2> QED BY <2>1, <2>2, <2>3, <2>4, FieldFacts
<1>4. \A f \in 1 .. 7 : Fields(n)[f] \in Seq(Byte)
  <2>1. Fields(n) \in Seq(Seq(Byte)) /\ Len(Fields(n)) = 7
    BY FieldFacts
  <2> DEFINE S == Seq(Byte)
  <2> HIDE DEF S
  <2>2. \A f \in 1 .. 7 : Fields(n)[f] \in S
    BY <2>1, ElementOfSeq DEF S
  <2> QED BY <2>2 DEF S
<1>5. \A f \in 1 .. 7 : f = 1 \/ f = 2 \/ f = 3 \/ f = 4 \/ f = 5 \/ f = 6 \/ f = 7
  OBVIOUS
<1>6. \A f \in 1 .. 7 : Len(Fields(n)[f]) \in Nat \ {0}
  <2>1. 9 \in Nat \ {0} /\ 2 \in Nat \ {0} /\ 7 \in Nat \ {0}
    OBVIOUS
  <2>2. Len(Text(n)) \in Nat \ {0} /\ Len(Layer) \in Nat \ {0}
    BY <1>2
  <2> QED BY <1>3, <1>5, <2>1, <2>2, Zenon
<1> QED
  BY <1>3, <1>4, <1>6

\* The smaller of two numbers.
LEMMA MinFacts ==
  ASSUME NEW a \in Int, NEW b \in Int
  PROVE  Min({a, b}) \in {a, b} /\ Min({a, b}) <= a /\ Min({a, b}) <= b
<1>1. \E x \in {a, b} : \A y \in {a, b} : x <= y
  <2>1. CASE a <= b
    BY <2>1
  <2>2. CASE ~(a <= b)
    <3>1. b <= a
      BY <2>2
    <3> QED BY <3>1
  <2> QED BY <2>1, <2>2
<1> QED
  BY <1>1 DEF Min

\* What is left when some bytes have been read.
LEMMA RestFacts ==
  ASSUME NEW s \in Seq(Byte), NEW g \in 0 .. Len(s)
  PROVE  /\ SubSeq(s, g + 1, Len(s)) \in Seq(Byte)
         /\ Len(SubSeq(s, g + 1, Len(s))) = Len(s) - g
         /\ \A i \in 1 .. Len(s) - g : SubSeq(s, g + 1, Len(s))[i] = s[i + g]
<1>1. Len(s) \in Nat /\ g \in Nat /\ g + 1 \in Int
  OBVIOUS
<1>2. \A i \in g + 1 .. Len(s) : s[i] \in Byte
  BY <1>1
<1> DEFINE t == SubSeq(s, g + 1, Len(s))
<1>3. /\ t \in Seq(Byte)
      /\ Len(t) = IF g + 1 <= Len(s) THEN Len(s) - (g + 1) + 1 ELSE 0
      /\ \A i \in 1 .. Len(s) - (g + 1) + 1 : t[i] = s[g + 1 + i - 1]
  BY <1>1, <1>2, SubSeqProperties
<1> HIDE DEF t
<1>4. Len(t) = Len(s) - g
  BY <1>1, <1>3
<1>5. \A i \in 1 .. Len(s) - g : t[i] = s[i + g]
  <2> SUFFICES ASSUME NEW i \in 1 .. Len(s) - g PROVE t[i] = s[i + g]
    OBVIOUS
  <2>1. i \in 1 .. Len(s) - (g + 1) + 1 /\ g + 1 + i - 1 = i + g
    BY <1>1
  <2> QED BY <1>3, <2>1
<1> QED
  BY <1>3, <1>4, <1>5 DEF t

\* The first bytes of the pipe, which are read.
LEMMA PartFacts ==
  ASSUME NEW s \in Seq(Byte), NEW g \in 0 .. Len(s)
  PROVE  /\ SubSeq(s, 1, g) \in Seq(Byte) /\ Len(SubSeq(s, 1, g)) = g
         /\ \A i \in 1 .. g : SubSeq(s, 1, g)[i] = s[i]
<1>1. \A i \in 1 .. g : s[i] \in Byte
  OBVIOUS
<1>2. g \in Nat
  OBVIOUS
<1> DEFINE t == SubSeq(s, 1, g)
<1>3. /\ t \in Seq(Byte)
      /\ Len(t) = IF 1 <= g THEN g - 1 + 1 ELSE 0
      /\ \A i \in 1 .. g - 1 + 1 : t[i] = s[1 + i - 1]
  BY <1>1, <1>2, SubSeqProperties
<1> HIDE DEF t
<1>4. g - 1 + 1 = g /\ \A i \in 1 .. g : 1 + i - 1 = i
  BY <1>2
<1>5. Len(t) = g
  BY <1>2, <1>3
<1> QED
  BY <1>3, <1>4, <1>5 DEF t

-----------------------------------------------------------------------------
\* Types, and who writes.

\* The dispatcher takes some bytes out of the pipe and leaves the others.
TakesBytes(g) ==
  /\ g \in 0 .. Len(pipe)
  /\ pipe' \in Seq(Byte) /\ Len(pipe') = Len(pipe) - g
  /\ \A i \in 1 .. Len(pipe) - g : pipe'[i] = pipe[i + g]

\* One byte.
LEMMA TakesOne ==
  ASSUME TypeOK, pipe # <<>>, pipe' = Tail(pipe)
  PROVE  TakesBytes(1) /\ Head(pipe) = pipe[1] /\ pipe[1] \in Byte /\ Len(pipe) \in Nat \ {0}
<1>1. pipe \in Seq(Byte)
  BY DEF TypeOK
<1>2. /\ Tail(pipe) \in Seq(Byte) /\ Len(Tail(pipe)) = Len(pipe) - 1
      /\ \A i \in 1 .. Len(Tail(pipe)) : Tail(pipe)[i] = pipe[i + 1]
  BY <1>1, HeadTailProperties
<1>3. Len(pipe) \in Nat \ {0} /\ Head(pipe) = pipe[1] /\ pipe[1] \in Byte
  BY <1>1
<1> HIDE DEF Byte
<1> QED
  BY <1>2, <1>3 DEF TakesBytes

\* What a read of k bytes takes.
LEMMA TakesSome ==
  ASSUME TypeOK, NEW k \in Nat, Take(k)
  PROVE  \E g \in 0 .. Len(pipe) :
           /\ TakesBytes(g) /\ g <= k /\ (g = k \/ g = Len(pipe))
           /\ Len(pipe) >= k <=> g = k
           /\ g = Min({k, Len(pipe)})
<1>1. pipe \in Seq(Byte)
  BY DEF TypeOK
<1> HIDE DEF Byte
<1>2. PICK L \in Nat : L = Len(pipe)
  BY <1>1
<1>3. PICK g : g = Min({k, L})
  OBVIOUS
<1>4. g \in {k, L} /\ g <= k /\ g <= L
  BY <1>3, MinFacts
<1>5. g \in 0 .. L /\ (L >= k <=> g = k)
  BY <1>4
<1>6. pipe' = SubSeq(pipe, g + 1, Len(pipe))
  BY <1>2, <1>3 DEF Take
<1>7. TakesBytes(g)
  BY <1>1, <1>2, <1>5, <1>6, RestFacts DEF TakesBytes
<1> QED
  BY <1>2, <1>3, <1>4, <1>5, <1>7

\* Two bytes, or what is there of them.
LEMMA TakesTwo ==
  ASSUME TypeOK, Take(2), pipe # <<>>
  PROVE  \/ TakesBytes(1) /\ Len(pipe) = 1
         \/ TakesBytes(2) /\ Len(pipe) >= 2 /\ pipe[1] \in Byte /\ pipe[2] \in Byte
<1>1. pipe \in Seq(Byte)
  BY DEF TypeOK
<1> HIDE DEF Byte
<1>2. Len(pipe) \in Nat \ {0}
  BY <1>1
<1>3. PICK g \in 0 .. Len(pipe) : TakesBytes(g) /\ g <= 2 /\ (g = 2 \/ g = Len(pipe))
  BY TakesSome
<1>4. (g = 1 /\ Len(pipe) = 1) \/ (g = 2 /\ Len(pipe) >= 2)
  BY <1>2, <1>3
<1>5. Len(pipe) >= 2 => pipe[1] \in Byte /\ pipe[2] \in Byte
  <2>1. Len(pipe) >= 2 => 1 \in 1 .. Len(pipe) /\ 2 \in 1 .. Len(pipe)
    BY <1>2
  <2> QED BY <1>1, <2>1, ElementOfSeq
<1> QED
  BY <1>3, <1>4, <1>5

\* A text, or what is there of it.
LEMMA TakesText ==
  ASSUME TypeOK, NEW label, NEW next, ReadText(label, next)
  PROVE  \E g \in 0 .. Len(pipe) :
           /\ TakesBytes(g) /\ g <= need /\ (g = need \/ g = Len(pipe))
           /\ disp' = IF g = need THEN next ELSE "test"
           /\ label = "name" => /\ valname' \in Seq(Byte) /\ Len(valname') = g
                                /\ \A i \in 1 .. g : valname'[i] = pipe[i]
           /\ label # "name" => valname' = valname
           /\ pipe # <<>> \/ need = 0
           /\ Alive /\ disp = label
           /\ UNCHANGED <<daemon, matched, need, writers, regs, history>>
<1>1. pipe \in Seq(Byte) /\ need \in Nat
  <2>1. pipe \in Seq(Byte) /\ need \in 0 .. FILENAME_MAX
    BY DEF TypeOK
  <2>2. need \in 0 .. 4096
    BY <2>1 DEF FILENAME_MAX
  <2> QED BY <2>1, <2>2
<1> HIDE DEF Byte
<1>2. PICK g \in 0 .. Len(pipe) :
         /\ TakesBytes(g) /\ g <= need /\ (g = need \/ g = Len(pipe))
         /\ Len(pipe) >= need <=> g = need
         /\ g = Min({need, Len(pipe)})
  BY <1>1, TakesSome DEF ReadText
<1>3. /\ disp' = IF g = need THEN next ELSE "test"
      /\ valname' = IF label = "name" THEN SubSeq(pipe, 1, g) ELSE valname
      /\ pipe # <<>> \/ need = 0
      /\ Alive /\ disp = label
      /\ UNCHANGED <<daemon, matched, need, writers, regs, history>>
  BY <1>2 DEF ReadText, DispAt
<1>4. SubSeq(pipe, 1, g) \in Seq(Byte) /\ Len(SubSeq(pipe, 1, g)) = g
      /\ \A i \in 1 .. g : SubSeq(pipe, 1, g)[i] = pipe[i]
  BY <1>1, <1>2, PartFacts
<1> QED
  BY <1>2, <1>3, <1>4

-----------------------------------------------------------------------------
\* The records that are written.

\* A step that leaves the writers and the number of changes alone.
LEMMA WritersKept ==
  ASSUME WritersInStep, UNCHANGED <<queueHolder, todo, announced, truncated, since>>
  PROVE  WritersInStep'
<1>1. \A h \in Handlers : todo'[h] = todo[h]
  OBVIOUS
<1> QED
  BY <1>1 DEF WritersInStep, WriterInStep

\* Where the writer of a record is: its remaining fields are the last ones.
LEMMA WriterFacts ==
  ASSUME TypeOK, WritersInStep, NEW h \in Handlers, todo[h] # <<>>
  PROVE  /\ announced[Len(announced)] \in Names /\ Len(announced) \in Nat \ {0}
         /\ Len(todo[h]) \in 1 .. 7
         /\ Head(todo[h]) = Fields(announced[Len(announced)])[8 - Len(todo[h])]
         /\ Head(todo[h]) \in Seq(Byte)
         /\ Tail(todo[h]) \in Seq(Seq(Byte)) /\ Len(Tail(todo[h])) = Len(todo[h]) - 1
         /\ \A i \in 1 .. Len(todo[h]) - 1 : Tail(todo[h])[i] = todo[h][i + 1]
<1>1. todo[h] \in Seq(Seq(Byte)) /\ announced \in Seq(Names) /\ truncated \in 0 .. Len(announced)
  BY DEF TypeOK
<1>2. /\ truncated < Len(announced) /\ Len(todo[h]) <= 7
      /\ \A i \in 1 .. Len(todo[h]) :
           todo[h][i] = Fields(announced[Len(announced)])[7 - Len(todo[h]) + i]
  BY DEF WritersInStep, WriterInStep
<1> DEFINE s == todo[h]
<1>3. s \in Seq(Seq(Byte)) /\ s # <<>>
  BY <1>1
<1> HIDE DEF s, Byte
<1>4. /\ Len(s) \in Nat \ {0} /\ Head(s) = s[1] /\ s[1] \in Seq(Byte)
      /\ Tail(s) \in Seq(Seq(Byte)) /\ Len(Tail(s)) = Len(s) - 1
      /\ \A i \in 1 .. Len(Tail(s)) : Tail(s)[i] = s[i + 1]
  <2>1. Len(s) \in Nat \ {0} /\ Head(s) = s[1] /\ s[1] \in Seq(Byte)
    BY <1>3
  <2>2. /\ Tail(s) \in Seq(Seq(Byte)) /\ Len(Tail(s)) = Len(s) - 1
        /\ \A i \in 1 .. Len(Tail(s)) : Tail(s)[i] = s[i + 1]
    BY <1>3, HeadTailProperties
  <2> QED BY <2>1, <2>2
<1>5. Len(announced) \in Nat \ {0} /\ announced[Len(announced)] \in Names
  <2>1. Len(announced) \in Nat /\ truncated \in Nat /\ truncated < Len(announced)
    BY <1>1, <1>2
  <2> QED BY <1>1, <2>1
<1>6. Len(s) \in 1 .. 7
  <2>1. Len(s) <= 7
    BY <1>2 DEF s
  <2>2. Len(s) \in Nat \ {0}
    BY <1>4
  <2>3. \A m \in Nat \ {0} : m <= 7 => m \in 1 .. 7
    OBVIOUS
  <2> QED BY <2>1, <2>2, <2>3, Zenon
<1>7. s[1] = Fields(announced[Len(announced)])[8 - Len(s)]
  <2>1. 1 \in 1 .. Len(s) /\ 7 - Len(s) + 1 = 8 - Len(s)
    BY <1>6
  <2>2. s[1] = Fields(announced[Len(announced)])[7 - Len(s) + 1]
    BY <1>2, <2>1 DEF s
  <2> QED BY <2>1, <2>2
<1> QED
  BY <1>4, <1>5, <1>6, <1>7 DEF s

\* The name that a text stands for.
LEMMA NameOfFacts ==
  /\ \A text : NameOf(text) \in Names \cup {Garbage}
  /\ \A text : NameOf(text) \in Names => Spelling[NameOf(text)] = CString(text)
<1>1. Garbage \notin Names
  BY ConstantsAssumption
<1> QED
  BY <1>1 DEF NameOf

\* The lengths at which the dispatcher was last seen waiting.
LEMMA SinceFacts ==
  ASSUME TypeOK
  PROVE  /\ Len(announced) \in Nat /\ Len(dispatched) \in Nat /\ truncated \in Nat
         /\ truncated <= Len(announced)
         /\ since.announced \in Nat /\ since.announced <= Len(announced)
         /\ since.dispatched \in Nat /\ since.dispatched <= Len(dispatched)
         /\ since.truncated \in Nat /\ since.truncated <= truncated
<1>1. announced \in Seq(Names) /\ dispatched \in Seq(Names \cup {Garbage})
      /\ truncated \in 0 .. Len(announced)
  BY DEF TypeOK
<1>2. Len(announced) \in Nat /\ Len(dispatched) \in Nat
  BY <1>1
<1>3. truncated \in Nat /\ truncated <= Len(announced)
  BY <1>1, <1>2
<1>4. /\ since.announced \in 0 .. Len(announced)
      /\ since.dispatched \in 0 .. Len(dispatched)
      /\ since.truncated \in 0 .. truncated
  BY DEF TypeOK
<1> QED
  BY <1>2, <1>3, <1>4

\* They stay so when more is announced, dispatched or cut short.
LEMMA SinceGrows ==
  ASSUME NEW a \in Nat, NEW d \in Nat, NEW t \in Nat, NEW a2 \in Nat, NEW d2 \in Nat, NEW t2 \in Nat,
         a <= a2, d <= d2, t <= t2,
         NEW s \in [announced : 0 .. a, dispatched : 0 .. d, truncated : 0 .. t]
  PROVE  s \in [announced : 0 .. a2, dispatched : 0 .. d2, truncated : 0 .. t2]
<1>1. s.announced \in 0 .. a2 /\ s.dispatched \in 0 .. d2 /\ s.truncated \in 0 .. t2
  OBVIOUS
<1> QED
  BY <1>1

\* queue_notification starts a record.
LEMMA QueueStep ==
  ASSUME NotifInv, NEW h \in Handlers, NEW n \in Names, QueueNotification(h, n)
  PROVE  /\ announced' \in Seq(Names) /\ Len(announced') = Len(announced) + 1
         /\ announced'[Len(announced) + 1] = n
         /\ \A k \in 1 .. Len(announced) : announced'[k] = announced[k]
         /\ todo' \in [Handlers -> Seq(Seq(Byte))]
         /\ todo'[h] = Fields(n) /\ queueHolder' = h
         /\ \A g \in Handlers : g # h => todo'[g] = <<>>
         /\ \A g \in Handlers : todo[g] = <<>>
         /\ since' = IF Waiting
                     THEN [announced |-> Len(announced), dispatched |-> Len(dispatched),
                           truncated |-> truncated]
                     ELSE since
         /\ UNCHANGED <<daemon, reader, pipe, regs, dispatched, truncated, signals>>
<1>1. announced \in Seq(Names) /\ todo \in [Handlers -> Seq(Seq(Byte))]
  BY DEF NotifInv, TypeOK
<1>2. announced' = Append(announced, n) /\ todo' = [todo EXCEPT ![h] = Fields(n)]
      /\ queueHolder' = h /\ queueHolder = Nobody
      /\ UNCHANGED <<daemon, reader, pipe, regs, dispatched, truncated, signals>>
  BY DEF QueueNotification
<1>7. since' = IF Waiting
               THEN [announced |-> Len(announced), dispatched |-> Len(dispatched),
                     truncated |-> truncated]
               ELSE since
  BY Zenon DEF QueueNotification
<1>3. Fields(n) \in Seq(Seq(Byte))
  BY FieldFacts
<1>4. \A g \in Handlers : todo[g] = <<>>
  BY <1>2, ConstantsAssumption DEF NotifInv, WritersInStep, WriterInStep
<1> HIDE DEF Byte
<1>5. /\ announced' \in Seq(Names) /\ Len(announced') = Len(announced) + 1
      /\ announced'[Len(announced) + 1] = n
      /\ \A k \in 1 .. Len(announced) : announced'[k] = announced[k]
  BY <1>1, <1>2, AppendProperties
<1>6. /\ todo' \in [Handlers -> Seq(Seq(Byte))] /\ todo'[h] = Fields(n)
      /\ \A g \in Handlers : g # h => todo'[g] = <<>>
  BY <1>1, <1>2, <1>3, <1>4
<1> QED
  BY <1>2, <1>4, <1>5, <1>6, <1>7, Zenon

\* A field is written into the pipe when there is room for it.
LEMMA WriteStep ==
  ASSUME NotifInv, NEW h \in Handlers, WriteField(h),
         Len(pipe) + Len(Head(todo[h])) <= PipeCap
  PROVE  /\ pipe' \in Seq(Byte) /\ Len(pipe') = Len(pipe) + Len(Head(todo[h]))
         /\ \A i \in 1 .. Len(pipe) : pipe'[i] = pipe[i]
         /\ \A i \in 1 .. Len(Head(todo[h])) : pipe'[Len(pipe) + i] = Head(todo[h])[i]
         /\ todo' \in [Handlers -> Seq(Seq(Byte))]
         /\ todo'[h] = Tail(todo[h])
         /\ \A g \in Handlers : g # h => todo'[g] = todo[g]
         /\ UNCHANGED <<daemon, reader, queueHolder, regs, history>>
<1>1. pipe \in Seq(Byte) /\ todo \in [Handlers -> Seq(Seq(Byte))]
  BY DEF NotifInv, TypeOK
<1>2. todo[h] # <<>> /\ pipe' = pipe \o Head(todo[h]) /\ todo' = [todo EXCEPT ![h] = Tail(@)]
      /\ UNCHANGED <<daemon, reader, queueHolder, regs, history>>
  BY DEF WriteField, history
<1>3. Head(todo[h]) \in Seq(Byte) /\ Tail(todo[h]) \in Seq(Seq(Byte))
  BY <1>2, WriterFacts DEF NotifInv
<1> HIDE DEF Byte
<1> DEFINE s == Head(todo[h])
<1>4. /\ pipe' \in Seq(Byte) /\ Len(pipe') = Len(pipe) + Len(s)
      /\ \A i \in 1 .. Len(pipe) : pipe'[i] = pipe[i]
      /\ \A i \in 1 .. Len(s) : pipe'[Len(pipe) + i] = s[i]
  <2>1. pipe \in Seq(Byte) /\ s \in Seq(Byte) /\ pipe' = pipe \o s
    BY <1>1, <1>2, <1>3
  <2> HIDE DEF s
  <2>2. /\ pipe' \in Seq(Byte) /\ Len(pipe') = Len(pipe) + Len(s)
        /\ \A i \in 1 .. Len(pipe) + Len(s) :
             pipe'[i] = IF i <= Len(pipe) THEN pipe[i] ELSE s[i - Len(pipe)]
    BY <2>1, ConcatProperties
  <2>3. Len(pipe) \in Nat /\ Len(s) \in Nat
    BY <2>1
  <2>4. \A i \in 1 .. Len(pipe) : pipe'[i] = pipe[i]
    BY <2>2, <2>3
  <2>5. \A i \in 1 .. Len(s) : pipe'[Len(pipe) + i] = s[i]
    <3> SUFFICES ASSUME NEW i \in 1 .. Len(s) PROVE pipe'[Len(pipe) + i] = s[i]
      OBVIOUS
    <3>1. Len(pipe) + i \in 1 .. Len(pipe) + Len(s) /\ ~(Len(pipe) + i <= Len(pipe))
          /\ (Len(pipe) + i) - Len(pipe) = i
      BY <2>3
    <3> QED BY <2>2, <3>1
  <2> QED BY <2>2, <2>4, <2>5
<1>5. /\ todo' \in [Handlers -> Seq(Seq(Byte))] /\ todo'[h] = Tail(todo[h])
      /\ \A g \in Handlers : g # h => todo'[g] = todo[g]
  BY <1>1, <1>2, <1>3
<1> QED
  BY <1>2, <1>4, <1>5

-----------------------------------------------------------------------------
\* Every step keeps the types, and the writers in step.

LEMMA InitTyped == Init => NotifInv
<1> SUFFICES ASSUME Init PROVE NotifInv
  OBVIOUS
<1> HIDE DEF Byte
<1>1. TypeOK
  <2>1. PipeCap \in Nat
    BY ConstantsAssumption
  <2>2. valname \in Seq(Byte) /\ pipe \in Seq(Byte) /\ Len(pipe) = 0
        /\ todo \in [Handlers -> Seq(Seq(Byte))]
    BY DEF Init
  <2>3. announced \in Seq(Names) /\ dispatched \in Seq(Names \cup {Garbage})
        /\ signals \in [Clients -> Seq(Names \cup {Garbage})]
        /\ Len(announced) = 0 /\ truncated = 0
    BY DEF Init
  <2>4. main = "init" /\ runFlag = FALSE /\ term = "none" /\ disp = "none" /\ matched = 0
        /\ need = 0 /\ queueHolder = Nobody /\ regs = {}
    BY DEF Init
  <2>5. need \in 0 .. FILENAME_MAX /\ truncated \in 0 .. Len(announced) /\ matched \in 0 .. 8
    BY <2>3, <2>4 DEF FILENAME_MAX
  <2>7. since \in [announced : 0 .. Len(announced), dispatched : 0 .. Len(dispatched),
                   truncated : 0 .. truncated]
    <3>1. Len(dispatched) = 0 /\ since = [announced |-> 0, dispatched |-> 0, truncated |-> 0]
      BY DEF Init
    <3>2. 0 \in 0 .. 0
      OBVIOUS
    <3> QED BY <2>3, <3>1, <3>2
  <2>6. Len(pipe) <= PipeCap
    BY <2>1, <2>2
  <2> QED BY <2>2, <2>3, <2>4, <2>5, <2>6, <2>7 DEF TypeOK
<1>2. WritersInStep
  BY DEF Init, WritersInStep, WriterInStep
<1> QED
  BY <1>1, <1>2 DEF NotifInv

\* What the dispatcher's steps change, but the last one.
ReaderTyped ==
  /\ disp' \in {"none", "test", "seek start", "start", "tlen", "vlen", "name", "llen",
                "layer", "seek end", "end", "send", "exited"}
  /\ matched' \in 0 .. 8
  /\ need' \in 0 .. FILENAME_MAX
  /\ valname' \in Seq(Byte)
  /\ pipe' \in Seq(Byte) /\ Len(pipe') <= PipeCap
  /\ UNCHANGED <<daemon, writers, regs, history>>

LEMMA ReaderKeeps ==
  ASSUME NotifInv, ReaderTyped
  PROVE  NotifInv'
<1> HIDE DEF Byte
<1>1. WritersInStep'
  BY WritersKept DEF NotifInv, ReaderTyped, writers, history
<1>2. TypeOK'
  BY DEF NotifInv, TypeOK, ReaderTyped, daemon, writers, history
<1> QED
  BY <1>1, <1>2 DEF NotifInv

LEMMA TakesTyped ==
  ASSUME TypeOK, NEW g, TakesBytes(g)
  PROVE  pipe' \in Seq(Byte) /\ Len(pipe') <= PipeCap
<1>1. Len(pipe) \in Nat /\ Len(pipe) <= PipeCap
  <2>1. pipe \in Seq(Byte) /\ Len(pipe) <= PipeCap
    BY DEF TypeOK
  <2> QED BY <2>1
<1>2. g \in 0 .. Len(pipe) /\ pipe' \in Seq(Byte) /\ Len(pipe') = Len(pipe) - g
  BY DEF TakesBytes
<1>3. PipeCap \in Nat
  BY ConstantsAssumption
<1> HIDE DEF Byte
<1>4. Len(pipe') <= PipeCap
  BY <1>1, <1>2, <1>3
<1> QED
  BY <1>2, <1>4

\* The places of the dispatcher.
Places == {"none", "test", "seek start", "start", "tlen", "vlen", "name", "llen",
           "layer", "seek end", "end", "send", "exited"}

\* A character of a tag: the next one, or the last, or none.
LEMMA MatchCount ==
  ASSUME TypeOK, NEW label, NEW tag, NEW next, MatchTag(label, tag, next),
         tag = start_rec \/ tag = end_rec
  PROVE  matched' \in 0 .. 8
<1>1. Len(tag) <= 9
  <2>1. Len(start_rec) <= 9 /\ Len(end_rec) <= 9
    BY TagFacts
  <2> QED BY <2>1
<1>2. Len(tag) \in Nat /\ matched \in Nat
  <2>1. Len(start_rec) \in Nat /\ Len(end_rec) \in Nat
    BY TagFacts
  <2>2. matched \in 0 .. 8
    BY DEF TypeOK
  <2> QED BY <2>1, <2>2
<1>3. matched' = 0 \/ (matched' = matched + 1 /\ matched + 1 < Len(tag))
  BY DEF MatchTag
<1> QED
  BY <1>1, <1>2, <1>3

LEMMA ReaderSteps ==
  ASSUME NotifInv, Dispatcher
  PROVE  ReaderTyped \/ SendNotifications
<1> HIDE DEF Byte
<1>0. /\ disp \in Places /\ matched \in 0 .. 8 /\ need \in 0 .. FILENAME_MAX
      /\ valname \in Seq(Byte) /\ pipe \in Seq(Byte) /\ Len(pipe) <= PipeCap /\ TypeOK
  BY DEF NotifInv, TypeOK, Places
<1>1. CASE TestRunFlag
  BY <1>0, <1>1 DEF TestRunFlag, ReaderTyped, Places
<1>2. ASSUME NEW label \in Places, NEW tag, NEW match \in Places, SeekTag(label, tag, match)
      PROVE  ReaderTyped
  <2>1. pipe # <<>> /\ pipe' = Tail(pipe) /\ disp' \in Places /\ matched' \in {matched, 1}
        /\ UNCHANGED <<daemon, need, valname, writers, regs, history>>
    BY <1>0, <1>2 DEF SeekTag
  <2>2. pipe' \in Seq(Byte) /\ Len(pipe') <= PipeCap
    BY <1>0, <2>1, TakesOne, TakesTyped
  <2>3. matched' \in 0 .. 8
    BY <1>0, <2>1
  <2> QED BY <1>0, <2>1, <2>2, <2>3 DEF ReaderTyped, Places
<1>3. ASSUME NEW label \in Places, NEW tag, NEW next \in Places, MatchTag(label, tag, next),
             tag = start_rec \/ tag = end_rec
      PROVE  ReaderTyped
  <2>1. pipe # <<>> /\ pipe' = Tail(pipe)
        /\ UNCHANGED <<daemon, need, valname, writers, regs, history>>
    BY <1>3 DEF MatchTag
  <2>2. disp' \in Places
    BY <1>0, <1>3 DEF MatchTag, Places
  <2>3. pipe' \in Seq(Byte) /\ Len(pipe') <= PipeCap
    BY <1>0, <2>1, TakesOne, TakesTyped
  <2>4. matched' \in 0 .. 8
    BY <1>0, <1>3, MatchCount
  <2> QED BY <1>0, <2>1, <2>2, <2>3, <2>4 DEF ReaderTyped, Places
<1>4. CASE ReadTlen
  <2>1. pipe # <<>> /\ Take(2) /\ disp' \in Places
        /\ UNCHANGED <<daemon, matched, need, valname, writers, regs, history>>
    BY <1>4 DEF ReadTlen, Places
  <2>2. pipe' \in Seq(Byte) /\ Len(pipe') <= PipeCap
    BY <1>0, <2>1, TakesTwo, TakesTyped
  <2> QED BY <1>0, <2>1, <2>2 DEF ReaderTyped, Places
<1>5. ASSUME NEW label \in Places, NEW next \in Places, ReadLength(label, next)
      PROVE  ReaderTyped
  <2>1. pipe # <<>> /\ Take(2)
        /\ UNCHANGED <<daemon, matched, valname, writers, regs, history>>
    BY <1>5 DEF ReadLength
  <2>2. pipe' \in Seq(Byte) /\ Len(pipe') <= PipeCap
    BY <1>0, <2>1, TakesTwo, TakesTyped
  <2>3. disp' \in Places
    BY <1>5 DEF ReadLength, Places
  <2>4. need' \in 0 .. FILENAME_MAX
    <3>1. CASE need' = need
      BY <1>0, <3>1
    <3>2. CASE need' # need
      <4>1. /\ Len(pipe) >= 2 /\ need' = pipe[1] + 256 * pipe[2]
            /\ pipe[1] + 256 * pipe[2] <= FILENAME_MAX
        BY <1>5, <3>2 DEF ReadLength
      <4>2. pipe[1] \in Byte /\ pipe[2] \in Byte
        <5>1. ~(Len(pipe) = 1)
          BY <4>1
        <5> QED BY <1>0, <2>1, <5>1, TakesTwo
      <4>3. pipe[1] \in Nat /\ pipe[2] \in Nat
        BY <4>2 DEF Byte
      <4>4. \A a, b \in Nat : a + 256 * b \in Nat
        OBVIOUS
      <4>5. need' \in Nat /\ need' <= FILENAME_MAX
        BY <4>1, <4>3, <4>4
      <4>6. FILENAME_MAX \in Nat
        BY DEF FILENAME_MAX
      <4> QED BY <4>5, <4>6
    <3> QED BY <3>1, <3>2
  <2> QED BY <1>0, <2>1, <2>2, <2>3, <2>4 DEF ReaderTyped, Places
<1>6. ASSUME NEW label \in Places, NEW next \in Places, ReadText(label, next)
      PROVE  ReaderTyped
  <2>1. PICK g \in 0 .. Len(pipe) :
           /\ TakesBytes(g)
           /\ disp' = IF g = need THEN next ELSE "test"
           /\ label = "name" => valname' \in Seq(Byte)
           /\ label # "name" => valname' = valname
           /\ UNCHANGED <<daemon, matched, need, writers, regs, history>>
    BY <1>0, <1>6, TakesText
  <2>2. pipe' \in Seq(Byte) /\ Len(pipe') <= PipeCap
    BY <1>0, <2>1, TakesTyped
  <2>3. disp' \in Places
    BY <2>1 DEF Places
  <2>4. valname' \in Seq(Byte)
    BY <1>0, <2>1
  <2> QED BY <1>0, <2>1, <2>2, <2>3, <2>4 DEF ReaderTyped, Places
<1>7. \A label \in {"seek start", "start", "tlen", "vlen", "name", "llen", "layer",
                    "seek end", "end", "send"} : label \in Places
  BY DEF Places
<1> QED
  BY <1>1, <1>2, <1>3, <1>4, <1>5, <1>6, <1>7 DEF Dispatcher

\* send_notifications: the name, and a signal for each client it matters to.
LEMMA SendStep ==
  ASSUME TypeOK, SendNotifications
  PROVE  LET n == NameOf(valname)
         IN /\ dispatched' \in Seq(Names \cup {Garbage})
            /\ Len(dispatched') = Len(dispatched) + 1
            /\ dispatched'[Len(dispatched) + 1] = n
            /\ \A k \in 1 .. Len(dispatched) : dispatched'[k] = dispatched[k]
            /\ signals' \in [Clients -> Seq(Names \cup {Garbage})]
            /\ \A c \in Clients :
                 IF c \in Matching(n)
                 THEN /\ Len(signals'[c]) = Len(signals[c]) + 1
                      /\ signals'[c][Len(signals[c]) + 1] = n
                      /\ \A k \in 1 .. Len(signals[c]) : signals'[c][k] = signals[c][k]
                 ELSE signals'[c] = signals[c]
            /\ disp = "send" /\ disp' = "test" /\ Alive
            /\ UNCHANGED <<daemon, matched, need, valname, pipe, writers, regs, announced, truncated,
                           since>>
<1> DEFINE n == NameOf(valname)
<1>1. n \in Names \cup {Garbage}
  BY NameOfFacts
<1>2. /\ dispatched' = Append(dispatched, n)
      /\ signals' = [c \in Clients |-> signals[c] \o IF c \in Matching(n) THEN <<n>> ELSE <<>>]
      /\ disp = "send" /\ disp' = "test" /\ Alive
      /\ UNCHANGED <<daemon, matched, need, valname, pipe, writers, regs, announced, truncated,
                           since>>
  BY DEF SendNotifications, DispAt
<1>3. dispatched \in Seq(Names \cup {Garbage}) /\ signals \in [Clients -> Seq(Names \cup {Garbage})]
  BY DEF TypeOK
<1> HIDE DEF n
<1>4. /\ dispatched' \in Seq(Names \cup {Garbage})
      /\ Len(dispatched') = Len(dispatched) + 1
      /\ dispatched'[Len(dispatched) + 1] = n
      /\ \A k \in 1 .. Len(dispatched) : dispatched'[k] = dispatched[k]
  BY <1>1, <1>2, <1>3, AppendProperties
<1>5. ASSUME NEW c \in Clients
      PROVE  /\ signals'[c] \in Seq(Names \cup {Garbage})
             /\ IF c \in Matching(n)
                THEN /\ Len(signals'[c]) = Len(signals[c]) + 1
                     /\ signals'[c][Len(signals[c]) + 1] = n
                     /\ \A k \in 1 .. Len(signals[c]) : signals'[c][k] = signals[c][k]
                ELSE signals'[c] = signals[c]
  <2> DEFINE s == signals[c]
  <2>1. s \in Seq(Names \cup {Garbage})
    BY <1>3
  <2>2. signals'[c] = s \o IF c \in Matching(n) THEN <<n>> ELSE <<>>
    BY <1>2
  <2> HIDE DEF s
  <2>3. CASE c \in Matching(n)
    <3>1. signals'[c] = s \o <<n>>
      BY <2>2, <2>3
    <3>2. s \o <<n>> = Append(s, n)
      BY <1>1, <2>1
    <3>3. /\ Append(s, n) \in Seq(Names \cup {Garbage})
          /\ Len(Append(s, n)) = Len(s) + 1 /\ Append(s, n)[Len(s) + 1] = n
          /\ \A k \in 1 .. Len(s) : Append(s, n)[k] = s[k]
      BY <1>1, <2>1, AppendProperties
    <3> QED BY <2>3, <3>1, <3>2, <3>3 DEF s
  <2>4. CASE c \notin Matching(n)
    <3>1. signals'[c] = s \o <<>>
      BY <2>2, <2>4
    <3>2. s \o <<>> = s
      BY <2>1
    <3> QED BY <2>1, <2>4, <3>1, <3>2 DEF s
  <2> QED BY <2>3, <2>4
<1>6. signals' \in [Clients -> Seq(Names \cup {Garbage})]
  <2>1. signals' = [c \in Clients |-> signals'[c]]
    BY <1>2
  <2> QED BY <1>5, <2>1
<1> QED
  BY <1>2, <1>4, <1>5, <1>6 DEF n

\* A record that does not fit is cut short.
LEMMA CutStep ==
  ASSUME NotifInv, NEW h \in Handlers, WriteField(h),
         ~(Len(pipe) + Len(Head(todo[h])) <= PipeCap)
  PROVE  /\ truncated' = truncated + 1 /\ todo[h] # <<>>
         /\ todo' \in [Handlers -> Seq(Seq(Byte))]
         /\ todo'[h] = <<>>
         /\ \A g \in Handlers : g # h => todo'[g] = todo[g]
         /\ UNCHANGED <<daemon, reader, pipe, queueHolder, regs, announced, dispatched, since,
                         signals>>
<1>1. todo \in [Handlers -> Seq(Seq(Byte))]
  BY DEF NotifInv, TypeOK
<1>2. /\ truncated' = truncated + 1 /\ todo' = [todo EXCEPT ![h] = <<>>] /\ todo[h] # <<>>
      /\ UNCHANGED <<daemon, reader, pipe, queueHolder, regs, announced, dispatched, since,
                         signals>>
  BY DEF WriteField
<1>3. <<>> \in Seq(Seq(Byte))
  OBVIOUS
<1> HIDE DEF Byte
<1> QED
  BY <1>1, <1>2, <1>3

LEMMA QueueTyped ==
  ASSUME NotifInv, NEW h \in Handlers, NEW n \in Names, QueueNotification(h, n)
  PROVE  NotifInv'
<1> HIDE DEF Byte
<1>1. /\ announced' \in Seq(Names) /\ Len(announced') = Len(announced) + 1
      /\ announced'[Len(announced) + 1] = n
      /\ todo' \in [Handlers -> Seq(Seq(Byte))]
      /\ todo'[h] = Fields(n) /\ queueHolder' = h
      /\ \A g \in Handlers : g # h => todo'[g] = <<>>
      /\ since' = IF Waiting
                  THEN [announced |-> Len(announced), dispatched |-> Len(dispatched),
                        truncated |-> truncated]
                  ELSE since
      /\ UNCHANGED <<daemon, reader, pipe, regs, dispatched, truncated, signals>>
  BY QueueStep
<1>2. PICK a \in Nat, d \in Nat, t \in Nat :
         a = Len(announced) /\ d = Len(dispatched) /\ t = truncated /\ t <= a
  BY SinceFacts DEF NotifInv
<1>3. truncated' \in 0 .. Len(announced') /\ truncated' < Len(announced')
  BY <1>1, <1>2
<1>4. since' \in [announced : 0 .. Len(announced'), dispatched : 0 .. Len(dispatched'),
                  truncated : 0 .. truncated']
      /\ since'.announced < Len(announced')
  <2>1. Len(announced') = a + 1 /\ Len(dispatched') = d /\ truncated' = t
    BY <1>1, <1>2
  <2>2. since \in [announced : 0 .. a, dispatched : 0 .. d, truncated : 0 .. t]
    BY <1>2 DEF NotifInv, TypeOK
  <2>3. since' \in [announced : 0 .. a, dispatched : 0 .. d, truncated : 0 .. t]
    <3>1. [announced |-> a, dispatched |-> d, truncated |-> t]
            \in [announced : 0 .. a, dispatched : 0 .. d, truncated : 0 .. t]
      OBVIOUS
    <3> QED BY <1>1, <1>2, <2>2, <3>1
  <2>4. since' \in [announced : 0 .. a + 1, dispatched : 0 .. d, truncated : 0 .. t]
    BY <2>3, SinceGrows
  <2>5. since'.announced \in 0 .. a
    BY <2>3
  <2>6. since'.announced < a + 1
    BY <2>5
  <2> QED BY <2>1, <2>4, <2>6
<1>5. TypeOK'
  BY <1>1, <1>3, <1>4 DEF NotifInv, TypeOK, daemon, reader
<1>6. WriterInStep(h)'
  <2>1. Len(todo'[h]) = 7 /\ announced'[Len(announced')] = n
    BY <1>1, FieldFacts
  <2>2. \A i \in 1 .. 7 : todo'[h][i] = Fields(announced'[Len(announced')])[7 - 7 + i]
    <3> SUFFICES ASSUME NEW i \in 1 .. 7
                 PROVE  todo'[h][i] = Fields(announced'[Len(announced')])[7 - 7 + i]
      OBVIOUS
    <3>1. 7 - 7 + i = i
      OBVIOUS
    <3> QED BY <1>1, <2>1, <3>1
  <2>3. Len(todo'[h]) <= 7
    BY <2>1
  <2> QED BY <1>1, <1>3, <1>4, <2>1, <2>2, <2>3 DEF WriterInStep
<1>7. \A g \in Handlers : g # h => WriterInStep(g)'
  BY <1>1 DEF WriterInStep
<1>8. WritersInStep'
  BY <1>6, <1>7 DEF WritersInStep
<1> QED
  BY <1>5, <1>8 DEF NotifInv

LEMMA WriteTyped ==
  ASSUME NotifInv, NEW h \in Handlers, WriteField(h)
  PROVE  NotifInv'
<1> HIDE DEF Byte
<1>1. CASE Len(pipe) + Len(Head(todo[h])) <= PipeCap
  <2>1. /\ pipe' \in Seq(Byte) /\ Len(pipe') = Len(pipe) + Len(Head(todo[h]))
        /\ todo' \in [Handlers -> Seq(Seq(Byte))]
        /\ todo'[h] = Tail(todo[h])
        /\ \A g \in Handlers : g # h => todo'[g] = todo[g]
        /\ UNCHANGED <<daemon, reader, queueHolder, regs, history>>
    BY <1>1, WriteStep
  <2>2. TypeOK'
    BY <1>1, <2>1 DEF NotifInv, TypeOK, daemon, reader, history
  <2>3. todo[h] # <<>>
    BY DEF WriteField
  <2>4. /\ Len(todo[h]) \in 1 .. 7 /\ Len(Tail(todo[h])) = Len(todo[h]) - 1
        /\ \A i \in 1 .. Len(todo[h]) - 1 : Tail(todo[h])[i] = todo[h][i + 1]
    BY <2>3, WriterFacts DEF NotifInv
  <2>5. /\ queueHolder = h /\ truncated < Len(announced) /\ since.announced < Len(announced)
        /\ \A i \in 1 .. Len(todo[h]) :
             todo[h][i] = Fields(announced[Len(announced)])[7 - Len(todo[h]) + i]
    BY <2>3 DEF NotifInv, WritersInStep, WriterInStep
  <2>6. WriterInStep(h)'
    <3>1. Len(todo'[h]) = Len(todo[h]) - 1 /\ Len(todo'[h]) <= 7
      <4>1. Len(todo'[h]) = Len(todo[h]) - 1
        BY <2>1, <2>4
      <4>2. Len(todo[h]) \in 1 .. 7
        BY <2>4
      <4>3. \A k \in 1 .. 7 : k - 1 <= 7
        OBVIOUS
      <4> QED BY <4>1, <4>2, <4>3, Zenon
    <3>2. \A i \in 1 .. Len(todo'[h]) :
            todo'[h][i] = Fields(announced[Len(announced)])[7 - Len(todo'[h]) + i]
      <4> SUFFICES ASSUME NEW i \in 1 .. Len(todo[h]) - 1
                   PROVE  todo'[h][i] = Fields(announced[Len(announced)])[7 - (Len(todo[h]) - 1) + i]
        BY <3>1
      <4>1. /\ i + 1 \in 1 .. Len(todo[h])
            /\ 7 - Len(todo[h]) + (i + 1) = 7 - (Len(todo[h]) - 1) + i
        BY <2>4
      <4>2. todo'[h][i] = todo[h][i + 1]
        BY <2>1, <2>4
      <4> QED BY <2>5, <4>1, <4>2
    <3>3. UNCHANGED <<queueHolder, truncated, announced, since>>
      BY <2>1 DEF history
    <3> QED BY <2>5, <3>1, <3>2, <3>3 DEF WriterInStep
  <2>7. \A g \in Handlers : g # h => WriterInStep(g)'
    BY <2>1 DEF NotifInv, WritersInStep, WriterInStep, history
  <2>8. WritersInStep'
    BY <2>6, <2>7 DEF WritersInStep
  <2> QED BY <2>2, <2>8 DEF NotifInv
<1>2. CASE ~(Len(pipe) + Len(Head(todo[h])) <= PipeCap)
  <2>1. /\ truncated' = truncated + 1 /\ todo[h] # <<>>
        /\ todo' \in [Handlers -> Seq(Seq(Byte))]
        /\ todo'[h] = <<>>
        /\ \A g \in Handlers : g # h => todo'[g] = todo[g]
        /\ UNCHANGED <<daemon, reader, pipe, queueHolder, regs, announced, dispatched, since,
                         signals>>
    BY <1>2, CutStep
  <2>2. queueHolder = h /\ truncated < Len(announced)
    BY <2>1 DEF NotifInv, WritersInStep, WriterInStep
  <2>3. truncated' \in 0 .. Len(announced')
    <3>1. truncated \in 0 .. Len(announced) /\ announced \in Seq(Names)
      BY DEF NotifInv, TypeOK
    <3> QED BY <2>1, <2>2, <3>1
  <2>4. TypeOK'
    <3>1. since \in [announced : 0 .. Len(announced), dispatched : 0 .. Len(dispatched),
                     truncated : 0 .. truncated']
      <4>1. PICK a \in Nat, d \in Nat, t \in Nat :
               a = Len(announced) /\ d = Len(dispatched) /\ t = truncated /\ t <= t + 1
        BY SinceFacts DEF NotifInv
      <4>2. since \in [announced : 0 .. a, dispatched : 0 .. d, truncated : 0 .. t]
        BY <4>1 DEF NotifInv, TypeOK
      <4>3. since \in [announced : 0 .. a, dispatched : 0 .. d, truncated : 0 .. t + 1]
        BY <4>1, <4>2, SinceGrows
      <4> QED BY <2>1, <4>1, <4>3
    <3> QED BY <2>1, <2>3, <3>1 DEF NotifInv, TypeOK, daemon, reader
  <2>5. ASSUME NEW g \in Handlers PROVE todo'[g] = <<>>
    <3>1. g # h => todo[g] = <<>>
      BY <2>2 DEF NotifInv, WritersInStep, WriterInStep
    <3> QED BY <2>1, <3>1
  <2>6. WritersInStep'
    BY <2>5 DEF WritersInStep, WriterInStep
  <2> QED BY <2>4, <2>6 DEF NotifInv
<1> QED
  BY <1>1, <1>2

LEMMA NextTyped == NotifInv /\ [Next]_vars => NotifInv'
<1> SUFFICES ASSUME NotifInv, [Next]_vars PROVE NotifInv'
  OBVIOUS
<1> HIDE DEF Byte
<1>1. CASE UNCHANGED vars
  <2>1. WritersInStep'
    BY <1>1, WritersKept DEF NotifInv, vars, writers, history
  <2> QED BY <1>1, <2>1 DEF NotifInv, TypeOK, vars, daemon, reader, writers, history
<1>2. CASE Main
  <2>1. UNCHANGED <<queueHolder, todo, announced, truncated, since>>
    BY <1>2 DEF Main, StartNotifications, StartServer, ServerFails, writers, history
  <2>2. WritersInStep'
    BY <2>1, WritersKept DEF NotifInv
  <2>3. TypeOK'
    BY <1>2 DEF NotifInv, TypeOK, Main, StartNotifications, StartServer, ServerFails,
                daemon, reader, writers, history
  <2> QED BY <2>2, <2>3 DEF NotifInv
<1>3. CASE SignalThread
  <2>1. UNCHANGED <<queueHolder, todo, announced, truncated, since>>
    BY <1>3 DEF SignalThread, SigtermFlag, SigtermUnblock, SigtermExit, writers, history
  <2>2. WritersInStep'
    BY <2>1, WritersKept DEF NotifInv
  <2>3. CASE SigtermFlag \/ SigtermExit
    BY <2>3, <2>2 DEF NotifInv, TypeOK, SigtermFlag, SigtermExit, daemon, reader, writers, history
  <2>4. CASE SigtermUnblock
    <3>1. pipe \in Seq(Byte) /\ Len(pipe) <= PipeCap /\ 32 \in Byte /\ PipeCap \in Nat
      <4>1. 32 \in Byte
        BY DEF Byte
      <4> QED BY <4>1, ConstantsAssumption DEF NotifInv, TypeOK
    <3>2. pipe' = IF Len(pipe) < PipeCap THEN Append(pipe, 32) ELSE pipe
      BY <2>4 DEF SigtermUnblock
    <3>3. pipe' \in Seq(Byte) /\ Len(pipe') <= PipeCap
      <4>1. CASE Len(pipe) < PipeCap
        <5>1. pipe' \in Seq(Byte) /\ Len(pipe') = Len(pipe) + 1
          BY <3>1, <3>2, <4>1, AppendProperties
        <5>2. Len(pipe) \in Nat /\ PipeCap \in Nat
          <6>1. pipe \in Seq(Byte) /\ PipeCap \in Nat
            BY <3>1
          <6> QED BY <6>1
        <5>3. Len(pipe) + 1 <= PipeCap
          BY <4>1, <5>2
        <5> QED BY <5>1, <5>3
      <4>2. CASE ~(Len(pipe) < PipeCap)
        BY <3>1, <3>2, <4>2
      <4> QED BY <4>1, <4>2
    <3> QED BY <2>2, <2>4, <3>3
            DEF NotifInv, TypeOK, SigtermUnblock, daemon, reader, writers, history
  <2> QED BY <1>3, <2>3, <2>4 DEF SignalThread
<1>4. CASE Dispatcher
  <2>1. CASE ReaderTyped
    BY <2>1, ReaderKeeps
  <2>2. CASE SendNotifications
    <3>1. /\ dispatched' \in Seq(Names \cup {Garbage})
          /\ signals' \in [Clients -> Seq(Names \cup {Garbage})] /\ disp' = "test"
          /\ UNCHANGED <<daemon, matched, need, valname, pipe, writers, regs, announced, truncated,
                           since>>
      BY <2>2, SendStep DEF NotifInv
    <3>2. WritersInStep'
      BY <3>1, WritersKept DEF NotifInv, writers
    <3>3. Len(dispatched') = Len(dispatched) + 1
      BY <2>2, SendStep DEF NotifInv
    <3>4. since \in [announced : 0 .. Len(announced), dispatched : 0 .. Len(dispatched'),
                     truncated : 0 .. truncated]
      <4>1. PICK a \in Nat, d \in Nat, t \in Nat :
               a = Len(announced) /\ d = Len(dispatched) /\ t = truncated /\ d <= d + 1
        BY SinceFacts DEF NotifInv
      <4>2. since \in [announced : 0 .. a, dispatched : 0 .. d, truncated : 0 .. t]
        BY <4>1 DEF NotifInv, TypeOK
      <4>3. since \in [announced : 0 .. a, dispatched : 0 .. d + 1, truncated : 0 .. t]
        BY <4>1, <4>2, SinceGrows
      <4> QED BY <3>3, <4>1, <4>3
    <3> QED BY <3>1, <3>2, <3>4 DEF NotifInv, TypeOK, daemon, writers
  <2> QED BY <1>4, <2>1, <2>2, ReaderSteps
<1>5. ASSUME NEW h \in Handlers, Writing(h) PROVE NotifInv'
  <2>1. CASE Queued(h)
    <3>1. /\ queueHolder = h /\ todo[h] = <<>> /\ queueHolder' = Nobody
          /\ UNCHANGED <<daemon, reader, pipe, todo, regs, history>>
      BY <2>1 DEF Queued
    <3>2. ASSUME NEW g \in Handlers PROVE todo'[g] = <<>>
      <4>1. g # h => todo[g] = <<>>
        BY <3>1 DEF NotifInv, WritersInStep, WriterInStep
      <4> QED BY <3>1, <4>1
    <3>3. WritersInStep'
      BY <3>2 DEF WritersInStep, WriterInStep
    <3> QED BY <3>1, <3>3 DEF NotifInv, TypeOK, daemon, reader, history
  <2> QED BY <1>5, <2>1, WriteTyped DEF Writing
<1>6. ASSUME NEW c \in Clients, AddNotif(c) PROVE NotifInv'
  <2>1. UNCHANGED <<queueHolder, todo, announced, truncated, since>>
    BY <1>6 DEF AddNotif, writers, history
  <2>2. WritersInStep'
    BY <2>1, WritersKept DEF NotifInv
  <2> QED BY <1>6, <2>2 DEF NotifInv, TypeOK, AddNotif, daemon, reader, writers, history
<1> QED
  BY <1>1, <1>2, <1>3, <1>4, <1>5, <1>6, QueueTyped DEF Next

\* Every variable keeps its type: the pipe never holds more than it can, no length
\* larger than FILENAME_MAX is ever taken for one whatever bytes are read for it, and
\* at most the records of changes are cut short.
THEOREM NotifTyping == Spec => []TypeOK
<1>1. NotifInv => TypeOK
  BY DEF NotifInv
<1> QED
  BY <1>1, InitTyped, NextTyped, PTL DEF Spec

-----------------------------------------------------------------------------
(***************************************************************************)
(* Where the bytes come from.  A ghost gives each byte of the pipe, and    *)
(* the last one that was read (number 0), its place: the record, the field *)
(* and the byte of the field it was written as.  The byte of               *)
(* sigterm_handler is a stray one, with the place of the byte before it.   *)
(***************************************************************************)
Place == [rec : Nat, fld : 1 .. 7, off : Nat, stray : BOOLEAN]

FieldAt(p) == Fields(announced[p.rec])[p.fld]
AtEnd(p) == p.rec = 0 \/ p.off = Len(FieldAt(p))

\* The last record whose name lies before the place or ends there.
Done(p) == IF p.fld > 4 \/ (p.fld = 4 /\ AtEnd(p)) THEN p.rec ELSE p.rec - 1

\* Nothing has gone wrong since the dispatcher was last seen waiting.
InStep == truncated = since.truncated /\ term # "unblock"

PlaceOK(p) ==
  /\ p.rec <= Len(announced)
  /\ p.rec = 0 => p.fld = 7
  /\ p.rec # 0 => p.off \in 1 .. Len(FieldAt(p))
  /\ p.stray => AtEnd(p) /\ term = "unblock"

Holds(p, b) ==
  IF p.stray THEN b = 32 ELSE p.rec # 0 /\ b = FieldAt(p)[p.off]

\* What comes after the last byte of a field: the next field, the start of a later
\* record, or the stray byte.
Succ(p, q) ==
  \/ ~q.stray /\ p.rec # 0 /\ q.rec = p.rec /\ q.fld = p.fld + 1 /\ q.off = 1
  \/ /\ ~q.stray /\ q.rec > p.rec /\ q.fld = 1 /\ q.off = 1
     /\ InStep => p.fld = 7 /\ q.rec = p.rec + 1
  \/ q.stray /\ ~p.stray /\ q.rec = p.rec /\ q.fld = p.fld /\ q.off = p.off

\* A field lies in the pipe as a whole.
Runs(at) ==
  \A i \in 0 .. Len(pipe) : at[i].rec # 0 =>
    \A o \in 1 .. Len(FieldAt(at[i])) : at[i].off < o =>
      /\ i + (o - at[i].off) <= Len(pipe)
      /\ LET q == at[i + (o - at[i].off)]
         IN q.rec = at[i].rec /\ q.fld = at[i].fld /\ q.off = o /\ q.stray = FALSE

Laid(at) ==
  /\ at \in [Nat -> Place]
  /\ \A i \in 0 .. Len(pipe) : PlaceOK(at[i])
  /\ \A i \in 1 .. Len(pipe) : Holds(at[i], pipe[i])
  /\ Runs(at)
  /\ \A i \in 0 .. Len(pipe) - 1 : AtEnd(at[i]) => Succ(at[i], at[i + 1])
  /\ \A i, j \in 0 .. Len(pipe) : i <= j => Done(at[i]) <= Done(at[j])

\* Where the writers are, behind the last byte.
WriterAt(e) ==
  /\ \A h \in Handlers : Len(todo[h]) = 7 =>
       e.rec < Len(announced) /\ (InStep => e.fld = 7 /\ e.rec = Len(announced) - 1)
  /\ \A h \in Handlers : todo[h] # <<>> /\ Len(todo[h]) < 7 =>
       e.rec = Len(announced) /\ e.fld = 7 - Len(todo[h])
  /\ (\A h \in Handlers : todo[h] = <<>>) => (InStep => e.fld = 7 /\ e.rec = Len(announced))

\* The parts of a place.
LEMMA PlaceTypes ==
  ASSUME NEW p \in Place
  PROVE  p.rec \in Nat /\ p.fld \in 1 .. 7 /\ p.off \in Nat /\ p.stray \in BOOLEAN
BY DEF Place

\* The field a place is in.
LEMMA FieldAtFacts ==
  ASSUME TypeOK, NEW p \in Place, p.rec # 0, p.rec <= Len(announced)
  PROVE  /\ announced[p.rec] \in Names /\ p.rec \in 1 .. Len(announced)
         /\ FieldAt(p) \in Seq(Byte) /\ Len(FieldAt(p)) \in Nat \ {0}
<1>1. announced \in Seq(Names)
  BY DEF TypeOK
<1>2. p.rec \in Nat /\ p.fld \in 1 .. 7
  BY PlaceTypes
<1>3. p.rec \in 1 .. Len(announced)
  BY <1>1, <1>2
<1>4. announced[p.rec] \in Names
  BY <1>1, <1>3
<1> QED
  BY <1>2, <1>3, <1>4, FieldLengths DEF FieldAt

\* What the ghost says of a byte and the next one.
LEMMA NextPlace ==
  ASSUME TypeOK, NEW at, Laid(at), NEW i \in 0 .. Len(pipe) - 1, NEW j \in Nat, j = i + 1
  PROVE  LET p == at[i]
             q == at[j]
         IN /\ p \in Place /\ q \in Place /\ PlaceOK(p) /\ PlaceOK(q) /\ Holds(q, pipe[j])
            /\ AtEnd(p) => Succ(p, q)
            /\ ~AtEnd(p) => /\ q.rec = p.rec /\ q.fld = p.fld /\ q.off = p.off + 1 /\ q.stray = FALSE
                            /\ p.rec # 0 /\ p.stray = FALSE
<1>1. Len(pipe) \in Nat
  <2>1. pipe \in Seq(Byte)
    BY DEF TypeOK
  <2> QED BY <2>1
<1>2. i \in Nat /\ i + 1 \in Nat /\ i \in 0 .. Len(pipe) /\ i + 1 \in 1 .. Len(pipe) /\ i + 1 \in 0 .. Len(pipe)
  BY <1>1
<1>3. at[i] \in Place /\ at[i + 1] \in Place /\ PlaceOK(at[i]) /\ PlaceOK(at[i + 1])
      /\ Holds(at[i + 1], pipe[i + 1]) /\ (AtEnd(at[i]) => Succ(at[i], at[i + 1]))
  BY <1>2 DEF Laid
<1>4. ASSUME ~AtEnd(at[i])
      PROVE  /\ at[i + 1].rec = at[i].rec /\ at[i + 1].fld = at[i].fld
             /\ at[i + 1].off = at[i].off + 1 /\ at[i + 1].stray = FALSE
             /\ at[i].rec # 0 /\ at[i].stray = FALSE
  <2>1. at[i].rec # 0 /\ at[i].off # Len(FieldAt(at[i])) /\ at[i].stray = FALSE
    <3>1. ~at[i].stray
      BY <1>3, <1>4 DEF PlaceOK
    <3> QED BY <1>3, <1>4, <3>1, PlaceTypes DEF AtEnd
  <2>2. at[i].rec <= Len(announced) /\ at[i].off \in 1 .. Len(FieldAt(at[i]))
    BY <1>3, <2>1 DEF PlaceOK
  <2>3. Len(FieldAt(at[i])) \in Nat
    BY <1>3, <2>1, <2>2, FieldAtFacts
  <2>4. at[i].off + 1 \in 1 .. Len(FieldAt(at[i])) /\ at[i].off < at[i].off + 1
        /\ i + ((at[i].off + 1) - at[i].off) = i + 1
    BY <1>2, <2>1, <2>2, <2>3
  <2>5. \A o \in 1 .. Len(FieldAt(at[i])) : at[i].off < o =>
          LET q == at[i + (o - at[i].off)]
          IN q.rec = at[i].rec /\ q.fld = at[i].fld /\ q.off = o /\ q.stray = FALSE
    BY <1>2, <2>1 DEF Laid, Runs
  <2> QED BY <2>1, <2>4, <2>5
<1> QED
  BY <1>3, <1>4

\* Reading leaves the places of the other bytes.
LEMMA TakesLaid ==
  ASSUME TypeOK, NEW at, Laid(at), NEW g, TakesBytes(g),
         NEW bt \in [Nat -> Place], \A i \in Nat : bt[i] = at[i + g],
         UNCHANGED <<announced, truncated, since, term>>
  PROVE  /\ Laid(bt)' /\ bt[Len(pipe)'] = at[Len(pipe)]
         /\ Done(at[0]) <= Done(at[g]) /\ bt[0] = at[g]
<1>1. PICK L \in Nat : L = Len(pipe)
  <2>1. pipe \in Seq(Byte)
    BY DEF TypeOK
  <2> QED BY <2>1
<1>2. /\ g \in Nat /\ g <= L /\ Len(pipe') = L - g
      /\ \A i \in 1 .. L - g : pipe'[i] = pipe[i + g]
  BY <1>1 DEF TakesBytes
<1>3m. PICK M : M = Len(pipe')
  OBVIOUS
<1>3. M \in Nat /\ M = Len(pipe') /\ M + g = L
  <2>1. M = L - g
    BY <1>2, <1>3m
  <2> QED BY <1>2, <1>3m, <2>1
<1>4. \A i \in 0 .. M : i \in Nat /\ i + g \in 0 .. L /\ bt[i] = at[i + g]
  <2>1. L \in Nat /\ g \in Nat /\ M \in Nat /\ M + g = L
    BY <1>2, <1>3
  <2>2. \A i \in 0 .. M : i \in Nat /\ i + g \in 0 .. L
    BY <2>1
  <2> QED BY <2>2
<1>5. \A p : /\ PlaceOK(p)' = PlaceOK(p) /\ AtEnd(p)' = AtEnd(p) /\ Done(p)' = Done(p)
             /\ FieldAt(p)' = FieldAt(p)
  BY DEF PlaceOK, AtEnd, Done, FieldAt
<1>6. \A p, b : Holds(p, b)' = Holds(p, b) /\ Succ(p, b)' = Succ(p, b)
  BY DEF Holds, Succ, FieldAt, InStep
<1>7. \A i \in 0 .. M : PlaceOK(bt[i])'
  BY <1>1, <1>4, <1>5 DEF Laid
<1>8. ASSUME NEW i \in 1 .. M PROVE Holds(bt[i], pipe[i])'
  <2>1. i \in 0 .. M /\ i + g \in 1 .. L /\ i \in 1 .. L - g
    BY <1>2, <1>3
  <2>2. Holds(at[i + g], pipe[i + g])
    BY <1>1, <2>1 DEF Laid
  <2>3. pipe'[i] = pipe[i + g] /\ bt[i] = at[i + g]
    BY <1>2, <1>4, <2>1
  <2>4. Holds(bt[i], pipe'[i])
    BY <2>2, <2>3
  <2> QED BY <2>4 DEF Holds, FieldAt
<1>9. Runs(bt)'
  <2> SUFFICES ASSUME NEW i \in 0 .. M, bt[i].rec # 0,
                      NEW o \in 1 .. Len(FieldAt(bt[i])), bt[i].off < o
               PROVE  /\ i + (o - bt[i].off) <= M
                      /\ LET q == bt[i + (o - bt[i].off)]
                         IN /\ q.rec = bt[i].rec /\ q.fld = bt[i].fld /\ q.off = o
                            /\ q.stray = FALSE
    BY <1>3, <1>5 DEF Runs
  <2>1. i + g \in 0 .. L /\ bt[i] = at[i + g] /\ i \in Nat
    BY <1>4
  <2>2. PICK k : k = bt[i].off
    OBVIOUS
  <2>3. k \in Nat /\ o \in Nat /\ k < o
    <3>1. bt[i] \in Place
      BY <2>1
    <3> QED BY <2>2, <3>1, PlaceTypes
  <2>4. /\ (i + g) + (o - k) <= L
        /\ LET q == at[(i + g) + (o - k)]
           IN q.rec = bt[i].rec /\ q.fld = bt[i].fld /\ q.off = o /\ q.stray = FALSE
    BY <1>1, <2>1, <2>2 DEF Laid, Runs
  <2>5. i + (o - k) <= M /\ i + (o - k) \in Nat /\ (i + (o - k)) + g = (i + g) + (o - k)
    <3>1. (i + g) + (o - k) <= L
      BY <2>4
    <3>2. o \in Nat /\ k \in Nat /\ k < o /\ i \in Nat /\ g \in Nat /\ M \in Nat /\ M + g = L
      BY <1>2, <1>3, <2>1, <2>3
    <3> QED BY <3>1, <3>2
  <2>6. bt[i + (o - k)] = at[(i + g) + (o - k)]
    BY <2>5
  <2> QED BY <2>2, <2>4, <2>5, <2>6
<1>10. ASSUME NEW i \in 0 .. M - 1, AtEnd(bt[i])' PROVE Succ(bt[i], bt[i + 1])'
  <2>1. i \in 0 .. M /\ i + 1 \in 0 .. M /\ i + g \in 0 .. L - 1 /\ (i + 1) + g = (i + g) + 1
    BY <1>2, <1>3
  <2>2. bt[i] = at[i + g] /\ bt[i + 1] = at[(i + g) + 1]
    <3>1. bt[i + 1] = at[(i + 1) + g]
      BY <1>4, <2>1
    <3> QED BY <1>4, <2>1, <3>1
  <2>3. Succ(at[i + g], at[(i + g) + 1])
    BY <1>1, <1>5, <1>10, <2>1, <2>2 DEF Laid
  <2> QED BY <1>6, <2>2, <2>3
<1>11. ASSUME NEW i \in 0 .. M, NEW j \in 0 .. M, i <= j PROVE (Done(bt[i]) <= Done(bt[j]))'
  <2>1. i + g \in 0 .. L /\ j + g \in 0 .. L /\ i + g <= j + g
    BY <1>2, <1>3, <1>11
  <2>2. Done(at[i + g]) <= Done(at[j + g])
    BY <1>1, <2>1 DEF Laid
  <2> QED BY <1>4, <1>5, <2>2
<1>12. Laid(bt)'
  BY <1>3, <1>7, <1>8, <1>9, <1>10, <1>11 DEF Laid
<1>13. bt[M] = at[L] /\ bt[0] = at[g]
  <2>1. M \in 0 .. M /\ 0 \in 0 .. M /\ 0 + g = g
    BY <1>2, <1>3
  <2> QED BY <1>3, <1>4, <2>1
<1>14. Done(at[0]) <= Done(at[g])
  <2>1. 0 \in 0 .. L /\ g \in 0 .. L /\ 0 <= g
    BY <1>2
  <2> QED BY <1>1, <2>1 DEF Laid
<1> QED
  BY <1>1, <1>3, <1>12, <1>13, <1>14

\* The end of the pipe is the end of a field.
LEMMA PipeEnd ==
  ASSUME TypeOK, NEW at, Laid(at)
  PROVE  /\ at[Len(pipe)] \in Place /\ PlaceOK(at[Len(pipe)]) /\ AtEnd(at[Len(pipe)])
         /\ Len(pipe) \in Nat
<1>1. PICK L \in Nat : L = Len(pipe)
  <2>1. pipe \in Seq(Byte)
    BY DEF TypeOK
  <2> QED BY <2>1
<1>2. at[L] \in Place /\ PlaceOK(at[L])
  <2>1. L \in 0 .. L
    OBVIOUS
  <2> QED BY <1>1, <2>1 DEF Laid
<1>3. AtEnd(at[L])
  <2> SUFFICES ASSUME at[L].rec # 0, at[L].off # Len(FieldAt(at[L])) PROVE FALSE
    BY DEF AtEnd
  <2>1. at[L].rec <= Len(announced) /\ at[L].off \in 1 .. Len(FieldAt(at[L]))
    BY <1>2 DEF PlaceOK
  <2>2. PICK l \in Nat, o \in Nat : l = Len(FieldAt(at[L])) /\ o = at[L].off /\ o < l
    <3>1. Len(FieldAt(at[L])) \in Nat
      BY <1>2, <2>1, FieldAtFacts
    <3> QED BY <2>1, <3>1
  <2>3. l \in 1 .. l /\ L \in 0 .. L /\ ~(L + (l - o) <= L)
    BY <2>2
  <2> QED BY <1>1, <2>2, <2>3 DEF Laid, Runs
<1> QED
  BY <1>1, <1>2, <1>3

\* The places of m bytes that are written behind the first L.
NewPlaces(at, bt, L, m) ==
  /\ bt \in [Nat -> Place] /\ \A i \in 0 .. L : bt[i] = at[i]
  /\ \A o \in 1 .. m :
       /\ PlaceOK(bt[L + o])'
       /\ Holds(bt[L + o], pipe'[L + o])
       /\ Done(at[L]) <= Done(bt[L + o])
       /\ bt[L + o].off = bt[L + m].off - (m - o)
       /\ AtEnd(bt[L + o]) => o = m
       /\ bt[L + o].rec = bt[L + m].rec
       /\ bt[L + o].fld = bt[L + m].fld
       /\ o < m => bt[L + o].stray = FALSE
       /\ m > 1 => bt[L + o].stray = FALSE
  /\ AtEnd(bt[L + m])
  /\ Succ(at[L], bt[L + 1])'

\* Bytes of one field, or the stray byte, are written behind the others.
LEMMA MoreLaid ==
  ASSUME TypeOK, NEW at, Laid(at), NEW m \in Nat \ {0}, NEW L, L = Len(pipe),
         Len(pipe') = L + m, \A i \in 1 .. L : pipe'[i] = pipe[i],
         UNCHANGED <<announced, truncated, since>>, term = "unblock" => term' = "unblock",
         NEW bt, NewPlaces(at, bt, L, m)
  PROVE  Laid(bt)'
<1>n. /\ bt \in [Nat -> Place] /\ \A i \in 0 .. L : bt[i] = at[i]
      /\ \A o \in 1 .. m :
           /\ PlaceOK(bt[L + o])'
           /\ Holds(bt[L + o], pipe'[L + o])
           /\ Done(at[L]) <= Done(bt[L + o])
           /\ bt[L + o].off = bt[L + m].off - (m - o)
           /\ AtEnd(bt[L + o]) => o = m
           /\ bt[L + o].rec = bt[L + m].rec
           /\ bt[L + o].fld = bt[L + m].fld
           /\ o < m => bt[L + o].stray = FALSE
           /\ m > 1 => bt[L + o].stray = FALSE
      /\ AtEnd(bt[L + m])
      /\ Succ(at[L], bt[L + 1])'
  BY DEF NewPlaces
<1>1. L = Len(pipe)
  OBVIOUS
<1>2. L \in Nat /\ at[L] \in Place /\ PlaceOK(at[L]) /\ AtEnd(at[L])
  BY <1>n, <1>1, PipeEnd
<1>3. /\ Len(pipe') = L + m
      /\ \A i \in 0 .. L + m : i \in 0 .. L \/ (\E j \in 1 .. m : i = L + j)
  <2>1. \A i \in 0 .. L + m : i \in 0 .. L \/ (i - L \in 1 .. m /\ i = L + (i - L))
    BY <1>n, <1>2
  <2> QED BY <1>n, <1>1, <2>1
<1>5. \A p : /\ AtEnd(p)' = AtEnd(p) /\ Done(p)' = Done(p) /\ FieldAt(p)' = FieldAt(p)
             /\ PlaceOK(p) => PlaceOK(p)'
  BY DEF PlaceOK, AtEnd, Done, FieldAt
<1>6. \A p, b : Holds(p, b)' = Holds(p, b)
  BY DEF Holds, FieldAt
<1>7. \A p, b : Succ(p, b) => Succ(p, b)'
  BY DEF Succ, InStep
<1>8. ASSUME NEW i \in 0 .. L + m PROVE PlaceOK(bt[i])'
  <2>1. CASE i \in 0 .. L
    BY <1>n, <1>1, <1>5, <2>1 DEF Laid
  <2>2. CASE \E j \in 1 .. m : i = L + j
    BY <1>n, <1>1, <2>2
  <2> QED BY <1>n, <1>3, <2>1, <2>2
<1>9. ASSUME NEW i \in 1 .. L + m PROVE Holds(bt[i], pipe'[i])
  <2>1. CASE i \in 0 .. L
    <3>1. i \in 1 .. L
      BY <1>n, <1>2, <2>1
    <3> QED BY <1>n, <1>1, <2>1, <3>1 DEF Laid
  <2>2. CASE \E j \in 1 .. m : i = L + j
    BY <1>n, <1>1, <2>2
  <2>3. i \in 0 .. L + m
    BY <1>n, <1>2
  <2> QED BY <1>n, <1>3, <2>1, <2>2, <2>3
<1>10. ASSUME NEW i \in 0 .. L + m, bt[i].rec # 0,
              NEW o \in 1 .. Len(FieldAt(bt[i])), bt[i].off < o
       PROVE  /\ i + (o - bt[i].off) <= L + m
              /\ LET q == bt[i + (o - bt[i].off)]
                 IN q.rec = bt[i].rec /\ q.fld = bt[i].fld /\ q.off = o /\ q.stray = FALSE
  <2>0. PICK k : k = bt[i].off
    OBVIOUS
  <2>1. k \in Nat /\ o \in Nat /\ k < o /\ i \in Nat /\ m \in Nat
    <3>1. bt[i] \in Place /\ i \in Nat
      BY <1>n, <1>2
    <3> QED BY <1>n, <1>10, <2>0, <3>1, PlaceTypes
  <2>2. CASE i \in 0 .. L
    <3>1. bt[i] = at[i]
      BY <1>n, <1>1, <2>2
    <3>2. /\ i + (o - k) <= L
          /\ LET q == at[i + (o - k)]
             IN q.rec = bt[i].rec /\ q.fld = bt[i].fld /\ q.off = o /\ q.stray = FALSE
      BY <1>n, <1>1, <1>10, <2>0, <2>2, <3>1 DEF Laid, Runs
    <3>3. i + (o - k) \in 0 .. L /\ i + (o - k) <= L + m
      <4>1. i + (o - k) <= L
        BY <3>2
      <4> QED BY <1>n, <1>2, <2>1, <4>1
    <3>4. bt[i + (o - k)] = at[i + (o - k)]
      BY <1>n, <1>1, <3>3
    <3> QED BY <2>0, <3>2, <3>3, <3>4
  <2>3. CASE \E j \in 1 .. m : i = L + j
    <3>1. PICK j \in 1 .. m : i = L + j
      BY <2>3
    <3>2. PICK e \in Nat : e = bt[L + m].off
      <4>1. bt[L + m] \in Place
        BY <1>n, <1>2
      <4> QED BY <4>1, PlaceTypes
    <3>3. k = e - (m - j)
      BY <1>n, <1>1, <2>0, <3>1, <3>2
    <3>4. m \in 1 .. m
      OBVIOUS
    <3>5. bt[L + m].rec = bt[i].rec /\ bt[L + m].fld = bt[i].fld
      BY <1>n, <1>1, <3>1
    <3>6. Len(FieldAt(bt[i])) = e
      BY <1>n, <1>1, <1>10, <3>2, <3>5 DEF AtEnd, FieldAt
    <3>7. o <= e
      BY <1>n, <1>10, <2>1, <3>6
    <3>8. PICK n \in Nat : n = j + (o - k)
      BY <2>1, <3>1
    <3>9. n \in 1 .. m /\ e - (m - n) = o /\ m > 1
      <4>1. j \in Nat /\ 1 <= j /\ j <= m
        BY <3>1
      <4>2. n = j + (o - k) /\ e \in Nat /\ m \in Nat /\ o \in Nat /\ k \in Nat /\ n \in Nat
        BY <2>1, <3>2, <3>8
      <4> QED BY <2>1, <3>3, <3>7, <4>1, <4>2
    <3>10. bt[L + n].off = o /\ bt[L + n].rec = bt[i].rec /\ bt[L + n].fld = bt[i].fld
           /\ bt[L + n].stray = FALSE
      BY <1>n, <1>1, <3>2, <3>5, <3>9
    <3>11. i + (o - k) = L + n /\ L + n <= L + m
      BY <1>n, <1>2, <2>1, <3>1, <3>8, <3>9
    <3> QED BY <2>0, <3>10, <3>11
  <2> QED BY <1>n, <1>3, <2>2, <2>3
<1>11. ASSUME NEW i \in 0 .. (L + m) - 1, AtEnd(bt[i]) PROVE Succ(bt[i], bt[i + 1])'
  <2>1. CASE i \in 0 .. L - 1
    <3>1. i \in 0 .. L /\ i + 1 \in 0 .. L
      BY <1>n, <1>2, <2>1
    <3>2. bt[i] = at[i] /\ bt[i + 1] = at[i + 1]
      BY <1>n, <1>1, <3>1
    <3>3. Succ(at[i], at[i + 1])
      BY <1>n, <1>1, <1>11, <2>1, <3>2 DEF Laid
    <3> QED BY <1>n, <1>7, <3>2, <3>3
  <2>2. CASE i = L
    <3>1. L \in 0 .. L
      BY <1>n, <1>2
    <3>2. bt[i] = at[L] /\ bt[i + 1] = bt[L + 1]
      BY <1>n, <1>1, <2>2, <3>1
    <3> QED BY <1>n, <1>1, <3>2
  <2>3. CASE ~(i \in 0 .. L - 1) /\ i # L
    <3>1. PICK j \in 1 .. m : i = L + j /\ j # m
      <4>1. i - L \in 1 .. m /\ i = L + (i - L) /\ i - L # m
        BY <1>n, <1>2, <2>3
      <4> QED BY <4>1
    <3> QED BY <1>n, <1>1, <1>11, <3>1
  <2> QED BY <2>1, <2>2, <2>3
<1>12. ASSUME NEW i \in 0 .. L + m, NEW j \in 0 .. L + m, i <= j
       PROVE  Done(bt[i]) <= Done(bt[j])
  <2>1. \A n \in 0 .. L + m : Done(bt[n]) \in Int
    <3> SUFFICES ASSUME NEW n \in 0 .. L + m PROVE Done(bt[n]) \in Int
      OBVIOUS
    <3>1. bt[n] \in Place
      BY <1>n, <1>2
    <3>2. bt[n].rec \in Nat
      BY <3>1, PlaceTypes
    <3>3. \A x \in Nat : x \in Int /\ x - 1 \in Int
      OBVIOUS
    <3> QED BY <3>2, <3>3 DEF Done
  <2>2. CASE j \in 0 .. L
    <3>1. i \in 0 .. L
      BY <1>n, <1>2, <1>12, <2>2
    <3> QED BY <1>n, <1>1, <1>12, <2>2, <3>1 DEF Laid
  <2>3. CASE \E n \in 1 .. m : j = L + n
    <3>1. CASE i \in 0 .. L
      <4>1. L \in 0 .. L /\ i <= L /\ L \in 0 .. L + m
        BY <1>n, <1>2, <3>1
      <4>2. Done(at[i]) <= Done(at[L]) /\ bt[i] = at[i] /\ bt[L] = at[L]
        BY <1>n, <1>1, <3>1, <4>1 DEF Laid
      <4>3. Done(bt[L]) <= Done(bt[j])
        BY <1>n, <1>1, <2>3, <4>2
      <4>4. \A a, b, c \in Int : a <= b /\ b <= c => a <= c
        OBVIOUS
      <4> QED BY <2>1, <4>1, <4>2, <4>3, <4>4
    <3>2. CASE \E n \in 1 .. m : i = L + n
      <4>1. /\ bt[i].rec = bt[L + m].rec /\ bt[i].fld = bt[L + m].fld
            /\ bt[j].rec = bt[L + m].rec /\ bt[j].fld = bt[L + m].fld
        BY <1>n, <1>1, <2>3, <3>2
      <4>2. CASE AtEnd(bt[i])
        <5>1. i = L + m
          BY <1>n, <1>1, <3>2, <4>2
        <5>2. i = j
          <6>1. PICK n \in 1 .. m : j = L + n
            BY <2>3
          <6>2. L \in Nat /\ m \in Nat /\ n \in Nat /\ n <= m
            BY <1>2, <6>1
          <6> QED BY <1>12, <5>1, <6>1, <6>2
        <5> QED BY <2>1, <5>2
      <4>3. CASE ~AtEnd(bt[i])
        <5>1. bt[j].rec \in Nat
          <6>1. bt[j] \in Place
            BY <1>n, <1>2
          <6> QED BY <6>1, PlaceTypes
        <5> QED BY <4>1, <4>3, <5>1 DEF Done
      <4> QED BY <4>2, <4>3
    <3> QED BY <1>n, <1>3, <3>1, <3>2
  <2> QED BY <1>n, <1>3, <2>2, <2>3
<1>13. Runs(bt)'
  <2>1. PICK M : M = L + m
    OBVIOUS
  <2> SUFFICES ASSUME NEW i \in 0 .. M, bt[i].rec # 0,
                      NEW o \in 1 .. Len(FieldAt(bt[i])), bt[i].off < o
               PROVE  /\ i + (o - bt[i].off) <= M
                      /\ LET q == bt[i + (o - bt[i].off)]
                         IN /\ q.rec = bt[i].rec /\ q.fld = bt[i].fld /\ q.off = o
                            /\ q.stray = FALSE
    <3>1. Len(pipe') = M
      BY <1>n, <1>3, <2>1
    <3> QED BY <1>n, <1>5, <3>1 DEF Runs
  <2> QED BY <1>n, <1>10, <2>1
<1>14. \A i \in 1 .. L + m : Holds(bt[i], pipe[i])'
  <2> SUFFICES ASSUME NEW i \in 1 .. L + m PROVE Holds(bt[i], pipe[i])'
    OBVIOUS
  <2>1. Holds(bt[i], pipe'[i])
    BY <1>n, <1>9
  <2> QED BY <2>1 DEF Holds, FieldAt
<1>15. (\A i, j \in 0 .. L + m : i <= j => Done(bt[i]) <= Done(bt[j]))'
  BY <1>n, <1>3, <1>5, <1>12
<1> QED
  BY <1>n, <1>3, <1>5, <1>8, <1>11, <1>13, <1>14, <1>15 DEF Laid

\* A field is written: its bytes get their places.
LEMMA WriteLaid ==
  ASSUME NotifInv, NEW at, Laid(at), WriterAt(at[Len(pipe)]), NEW h \in Handlers, WriteField(h),
         Len(pipe) + Len(Head(todo[h])) <= PipeCap
  PROVE  \E bt \in [Nat -> Place] : Laid(bt)' /\ WriterAt(bt[Len(pipe)])' /\ bt[0] = at[0]
<1>1. PICK L : L = Len(pipe)
  OBVIOUS
<1>2. TypeOK /\ L \in Nat /\ at[L] \in Place /\ PlaceOK(at[L]) /\ AtEnd(at[L])
  BY <1>1, PipeEnd DEF NotifInv
<1>3. PICK N, n, f, s, k :
         /\ N = Len(announced) /\ n = announced[N] /\ k = Len(todo[h]) /\ f = 8 - k
         /\ s = Head(todo[h])
  OBVIOUS
<1>4. todo[h] # <<>>
  BY DEF WriteField
<1>5. /\ n \in Names /\ N \in Nat \ {0} /\ k \in 1 .. 7 /\ s = Fields(n)[f]
      /\ Len(Tail(todo[h])) = k - 1
  BY <1>2, <1>3, <1>4, WriterFacts DEF NotifInv
<1>6. f \in 1 .. 7
  <2>1. f = 8 - k
    BY <1>3
  <2>2. k \in 1 .. 7
    BY <1>5
  <2> QED BY <2>1, <2>2
<1>7. PICK m : m = Len(s)
  OBVIOUS
<1>8. m \in Nat \ {0}
  BY <1>5, <1>6, <1>7, FieldLengths
<1>9. /\ Len(pipe') = L + m
      /\ \A i \in 1 .. L : pipe'[i] = pipe[i]
      /\ \A i \in 1 .. m : pipe'[L + i] = s[i]
      /\ todo'[h] = Tail(todo[h])
      /\ \A g \in Handlers : g # h => todo'[g] = todo[g]
      /\ UNCHANGED <<announced, truncated, since, term>>
  BY <1>1, <1>3, <1>7, WriteStep DEF history, daemon
<1>10. \A g \in Handlers : g # h => todo'[g] = <<>>
  <2>1. queueHolder = h
    BY <1>4 DEF NotifInv, WritersInStep, WriterInStep
  <2>2. \A g \in Handlers : g # h => todo[g] = <<>>
    BY <2>1 DEF NotifInv, WritersInStep, WriterInStep
  <2> QED BY <1>9, <2>2
<1> DEFINE new(o) == [rec |-> N, fld |-> f, off |-> o, stray |-> FALSE]
<1>11. PICK bt : bt = [i \in Nat |-> IF i <= L THEN at[i] ELSE new(i - L)]
  OBVIOUS
<1>12. bt \in [Nat -> Place]
  <2>1. \A i \in Nat : at[i] \in Place
    BY DEF Laid
  <2>2. ASSUME NEW i \in Nat, ~(i <= L) PROVE new(i - L) \in Place
    <3>1. i - L \in Nat
      BY <1>2, <2>2
    <3>2. N \in Nat
      BY <1>5
    <3> QED BY <1>6, <3>1, <3>2 DEF Place
  <2> HIDE DEF new
  <2> QED BY <1>11, <2>1, <2>2
<1>13. \A i \in 0 .. L : bt[i] = at[i]
  <2>1. \A i \in 0 .. L : i \in Nat /\ i <= L
    BY <1>2
  <2> HIDE DEF new
  <2> QED BY <1>11, <2>1
<1>14. ASSUME NEW o \in Nat \ {0}
       PROVE  /\ bt[L + o].rec = N /\ bt[L + o].fld = f /\ bt[L + o].off = o
              /\ bt[L + o].stray = FALSE
  <2>1. L + o \in Nat /\ ~(L + o <= L) /\ (L + o) - L = o
    BY <1>2
  <2>2. bt[L + o] = new(o)
    <3> HIDE DEF new
    <3> QED BY <1>11, <2>1
  <2> QED BY <2>2
<1>15. \A o \in 1 .. m : o \in Nat \ {0}
  BY <1>8
<1>16. \A o \in 1 .. m : FieldAt(bt[L + o]) = s /\ (AtEnd(bt[L + o]) <=> o = m)
  <2> SUFFICES ASSUME NEW o \in 1 .. m
               PROVE  FieldAt(bt[L + o]) = s /\ (AtEnd(bt[L + o]) <=> o = m)
    OBVIOUS
  <2>1. PICK p : p = bt[L + o]
    OBVIOUS
  <2>2. p.rec = N /\ p.fld = f /\ p.off = o
    BY <1>14, <1>15, <2>1
  <2>3. FieldAt(p) = s
    BY <1>3, <1>5, <2>2 DEF FieldAt
  <2>4. p.rec # 0
    BY <1>5, <2>2
  <2>5. AtEnd(p) <=> o = m
    BY <1>7, <2>2, <2>3, <2>4 DEF AtEnd
  <2> QED BY <2>1, <2>3, <2>5
<1>17. ASSUME NEW o \in 1 .. m PROVE PlaceOK(bt[L + o])'
  <2>1. PlaceOK(bt[L + o])
    <3>1. N <= N
      BY <1>5
    <3> QED BY <1>3, <1>5, <1>7, <1>14, <1>15, <1>16, <3>1 DEF PlaceOK
  <2> QED BY <1>9, <2>1 DEF PlaceOK, FieldAt, AtEnd
<1>18. ASSUME NEW o \in 1 .. m PROVE Holds(bt[L + o], pipe'[L + o])
  BY <1>5, <1>9, <1>14, <1>15, <1>16 DEF Holds
<1>19. at[L].rec \in Nat /\ at[L].fld \in 1 .. 7
  BY <1>2, PlaceTypes
<1>20. (k = 7 /\ at[L].rec < N /\ (InStep => at[L].fld = 7 /\ at[L].rec = N - 1))
       \/ (k # 7 /\ at[L].rec = N /\ at[L].fld = 7 - k)
  <2>1. k = 7 => at[L].rec < N /\ (InStep => at[L].fld = 7 /\ at[L].rec = N - 1)
    BY <1>1, <1>3 DEF WriterAt
  <2>2. k < 7 => at[L].rec = N /\ at[L].fld = 7 - k
    BY <1>1, <1>3, <1>4 DEF WriterAt
  <2>3. k = 7 \/ (k # 7 /\ k < 7)
    BY <1>5
  <2> QED BY <2>1, <2>2, <2>3
<1>21. ASSUME NEW o \in 1 .. m PROVE Done(at[L]) <= Done(bt[L + o])
  <2>1. Done(bt[L + o]) = IF f > 4 \/ (f = 4 /\ o = m) THEN N ELSE N - 1
    BY <1>14, <1>15, <1>16 DEF Done
  <2>2. CASE k = 7
    <3>1. Done(at[L]) = at[L].rec \/ Done(at[L]) = at[L].rec - 1
      BY DEF Done
    <3> QED BY <1>3, <1>5, <1>19, <1>20, <2>1, <2>2, <3>1
  <2>3. CASE k # 7
    <3>1. at[L].rec = N /\ at[L].fld = f - 1
      BY <1>3, <1>5, <1>20, <2>3
    <3>2. Done(at[L]) = IF f - 1 > 4 \/ f - 1 = 4 THEN N ELSE N - 1
      BY <1>2, <3>1 DEF Done
    <3> QED BY <1>5, <1>6, <2>1, <3>2
  <2> QED BY <2>2, <2>3
<1>22. Succ(at[L], bt[L + 1])'
  <2>1. bt[L + 1].rec = N /\ bt[L + 1].fld = f /\ bt[L + 1].off = 1 /\ bt[L + 1].stray = FALSE
    <3>1. 1 \in Nat \ {0}
      OBVIOUS
    <3> QED BY <1>14, <3>1
  <2>2. InStep' = InStep
    BY <1>9 DEF InStep
  <2>3. CASE k = 7
    <3>1. f = 1 /\ N > at[L].rec /\ (InStep => at[L].fld = 7 /\ N = at[L].rec + 1)
      BY <1>3, <1>5, <1>19, <1>20, <2>3
    <3> QED BY <2>1, <2>2, <3>1 DEF Succ
  <2>4. CASE k # 7
    <3>1. f = at[L].fld + 1 /\ at[L].rec = N /\ N # 0
      BY <1>3, <1>5, <1>20, <2>4
    <3> QED BY <2>1, <3>1 DEF Succ
  <2> QED BY <2>3, <2>4
<1>23. m \in 1 .. m /\ bt[L + m].off = m
  <2>1. m \in 1 .. m
    BY <1>8
  <2> QED BY <1>8, <1>14, <2>1
<1>24. \A o \in 1 .. m : bt[L + o].off = bt[L + m].off - (m - o)
  <2>1. \A o \in 1 .. m : o = m - (m - o)
    BY <1>8
  <2> QED BY <1>14, <1>15, <1>23, <2>1
<1>25. Laid(bt)'
  <2>1. \A o \in 1 .. m :
            /\ PlaceOK(bt[L + o])'
            /\ Holds(bt[L + o], pipe'[L + o])
            /\ Done(at[L]) <= Done(bt[L + o])
            /\ bt[L + o].off = bt[L + m].off - (m - o)
            /\ AtEnd(bt[L + o]) => o = m
            /\ bt[L + o].rec = bt[L + m].rec
            /\ bt[L + o].fld = bt[L + m].fld
            /\ o < m => bt[L + o].stray = FALSE
            /\ m > 1 => bt[L + o].stray = FALSE
    BY <1>14, <1>15, <1>16, <1>17, <1>18, <1>21, <1>23, <1>24
  <2>2. AtEnd(bt[L + m])
    BY <1>16, <1>23
  <2>3. /\ Len(pipe') = L + m /\ (\A i \in 1 .. L : pipe'[i] = pipe[i])
        /\ UNCHANGED <<announced, truncated, since>> /\ (term = "unblock" => term' = "unblock")
    BY <1>9
  <2>4. NewPlaces(at, bt, L, m)
    BY <1>12, <1>13, <1>22, <2>1, <2>2 DEF NewPlaces
  <2> HIDE DEF new
  <2> QED BY <1>1, <1>2, <1>8, <2>3, <2>4, MoreLaid
<1>26. WriterAt(bt[L + m])'
  <2>1. bt[L + m].rec = N /\ bt[L + m].fld = f
    BY <1>8, <1>14
  <2>2. \A g \in Handlers : Len(todo'[g]) # 7 /\ (todo'[g] # <<>> => g = h)
    <3>1. Len(todo'[h]) # 7
      <4>1. Len(todo'[h]) = k - 1 /\ k \in 1 .. 7
        BY <1>5, <1>9
      <4> QED BY <4>1
    <3>2. \A g \in Handlers : g # h => todo'[g] = <<>> /\ Len(todo'[g]) # 7
      <4>1. Len(<<>>) # 7
        OBVIOUS
      <4> QED BY <1>10, <4>1
    <3> QED BY <3>1, <3>2, Zenon
  <2>3. f = 7 - Len(todo'[h])
    BY <1>3, <1>5, <1>9
  <2>4. todo'[h] = <<>> => f = 7
    <3>1. todo'[h] = <<>> => Len(todo'[h]) = 0
      OBVIOUS
    <3> QED BY <2>3, <3>1
  <2> QED BY <1>3, <1>9, <2>1, <2>2, <2>3, <2>4 DEF WriterAt
<1>27. bt[0] = at[0]
  <2>1. 0 \in 0 .. L
    BY <1>2
  <2> QED BY <1>13, <2>1
<1> QED
  BY <1>9, <1>12, <1>25, <1>26, <1>27

\* sigterm_handler writes its byte.
LEMMA StrayLaid ==
  ASSUME TypeOK, NEW at, Laid(at), SigtermUnblock
  PROVE  \E bt \in [Nat -> Place] :
           Laid(bt)' /\ (WriterAt(at[Len(pipe)]) => WriterAt(bt[Len(pipe)])') /\ bt[0] = at[0]
<1>1. PICK L : L = Len(pipe)
  OBVIOUS
<1>2. L \in Nat /\ at[L] \in Place /\ PlaceOK(at[L]) /\ AtEnd(at[L])
  BY <1>1, PipeEnd
<1>3. /\ term = "flag" /\ term' = "unblock"
      /\ pipe' = IF L < PipeCap THEN Append(pipe, 32) ELSE pipe
      /\ UNCHANGED <<announced, truncated, since, todo>>
  BY <1>1 DEF SigtermUnblock, history, writers
<1>4. ~InStep' /\ term # "unblock"
  BY <1>3 DEF InStep
<1>5. \A e, p : WriterAt(e) /\ p.rec = e.rec /\ p.fld = e.fld => WriterAt(p)'
  BY <1>3, <1>4 DEF WriterAt
<1>6. CASE ~(L < PipeCap)
  <2>1. pipe' = pipe /\ at \in [Nat -> Place]
    BY <1>3, <1>6 DEF Laid
  <2>2. \A p : PlaceOK(p) => PlaceOK(p)'
    BY <1>3 DEF PlaceOK, AtEnd, FieldAt
  <2>3. \A p : Done(p)' = Done(p) /\ AtEnd(p)' = AtEnd(p) /\ FieldAt(p)' = FieldAt(p)
    BY <1>3 DEF Done, AtEnd, FieldAt
  <2>4. \A p, q : Succ(p, q) => Succ(p, q)'
    BY <1>4 DEF Succ
  <2>5. ASSUME NEW i \in 1 .. L PROVE Holds(at[i], pipe[i])'
    <3>1. Holds(at[i], pipe'[i])
      BY <1>1, <2>1 DEF Laid
    <3> QED BY <1>3, <3>1 DEF Holds, FieldAt
  <2>6. Runs(at)'
    <3>1. Runs(at)
      BY DEF Laid
    <3> QED BY <1>3, <2>1, <3>1 DEF Runs, FieldAt
  <2>7. Laid(at)'
    BY <1>1, <2>1, <2>2, <2>3, <2>4, <2>5, <2>6 DEF Laid
  <2> QED BY <1>5, <2>1, <2>7
<1>7. CASE L < PipeCap
  <2>1. pipe \in Seq(Byte) /\ 32 \in Byte
    <3>1. 32 \in Byte
      BY DEF Byte
    <3> QED BY <3>1 DEF TypeOK
  <2>2. Len(pipe') = L + 1 /\ pipe'[L + 1] = 32 /\ \A i \in 1 .. L : pipe'[i] = pipe[i]
    <3> HIDE DEF Byte
    <3> QED BY <1>1, <1>3, <1>7, <2>1, AppendProperties
  <2> DEFINE new == [rec |-> at[L].rec, fld |-> at[L].fld, off |-> at[L].off, stray |-> TRUE]
  <2>3. PICK bt : bt = [i \in Nat |-> IF i <= L THEN at[i] ELSE new]
    OBVIOUS
  <2>4. new \in Place
    BY <1>2 DEF Place
  <2>5. bt \in [Nat -> Place] /\ bt[L + 1] = new /\ \A i \in 0 .. L : bt[i] = at[i]
    <3>1. at \in [Nat -> Place] /\ L + 1 \in Nat /\ ~(L + 1 <= L) /\ 0 .. L \subseteq Nat
          /\ \A i \in 0 .. L : i <= L
      BY <1>2 DEF Laid
    <3> HIDE DEF new
    <3> QED BY <2>3, <2>4, <3>1
  <2>6. PICK q : q = bt[L + 1]
    OBVIOUS
  <2>7. q.rec = at[L].rec /\ q.fld = at[L].fld /\ q.off = at[L].off /\ q.stray = TRUE
    BY <2>5, <2>6
  <2>8. at[L].stray = FALSE
    BY <1>2, <1>3, PlaceTypes DEF PlaceOK
  <2>9. AtEnd(q) /\ Done(q) = Done(at[L]) /\ FieldAt(q) = FieldAt(at[L])
    BY <1>2, <2>7 DEF AtEnd, Done, FieldAt
  <2>10. PlaceOK(q)'
    <3>1. AtEnd(q)' /\ FieldAt(q)' = FieldAt(q)
      BY <1>3, <2>9 DEF AtEnd, FieldAt
    <3> QED BY <1>2, <1>3, <2>7, <2>9, <3>1 DEF PlaceOK
  <2>11. Holds(q, 32)
    BY <2>7 DEF Holds
  <2>12. Done(at[L]) <= Done(q)
    <3>1. Done(at[L]) \in Int
      BY <1>2, PlaceTypes DEF Done
    <3> QED BY <2>9, <3>1
  <2>13. Succ(at[L], q)'
    BY <2>7, <2>8 DEF Succ
  <2>14. q.off = q.off - (1 - 1)
    <3>1. q.off \in Nat
      BY <1>2, <2>7, PlaceTypes
    <3> QED BY <3>1
  <2>15. \A o \in 1 .. 1 : o = 1
    OBVIOUS
  <2>16. \A o \in 1 .. 1 :
            /\ PlaceOK(bt[L + o])'
            /\ Holds(bt[L + o], pipe'[L + o])
            /\ Done(at[L]) <= Done(bt[L + o])
            /\ bt[L + o].off = bt[L + 1].off - (1 - o)
            /\ AtEnd(bt[L + o]) => o = 1
            /\ bt[L + o].rec = bt[L + 1].rec
            /\ bt[L + o].fld = bt[L + 1].fld
            /\ o < 1 => bt[L + o].stray = FALSE
            /\ 1 > 1 => bt[L + o].stray = FALSE
    <3> SUFFICES ASSUME NEW o \in 1 .. 1
                 PROVE  /\ PlaceOK(bt[L + 1])'
                        /\ Holds(bt[L + 1], pipe'[L + 1])
                        /\ Done(at[L]) <= Done(bt[L + 1])
                        /\ bt[L + 1].off = bt[L + 1].off - (1 - 1)
                        /\ ~(1 < 1) /\ ~(1 > 1)
      BY <2>15
    <3> QED BY <2>2, <2>6, <2>10, <2>11, <2>12, <2>14
  <2>17. Laid(bt)'
    <3>1. 1 \in Nat \ {0} /\ UNCHANGED <<announced, truncated, since>>
          /\ (term = "unblock" => term' = "unblock")
      BY <1>3
    <3>2. AtEnd(bt[L + 1]) /\ Succ(at[L], bt[L + 1])'
      BY <2>6, <2>9, <2>13
    <3>3. NewPlaces(at, bt, L, 1)
      <4> HIDE DEF new
      <4> QED BY <2>5, <2>16, <3>2 DEF NewPlaces
    <3> HIDE DEF new
    <3> QED BY <1>1, <2>2, <3>1, <3>3, MoreLaid
  <2>18. WriterAt(at[L]) => WriterAt(bt[L + 1])'
    BY <1>5, <2>6, <2>7
  <2>19. bt[0] = at[0]
    <3>1. 0 \in 0 .. L
      BY <1>2
    <3> QED BY <2>5, <3>1
  <2> QED BY <1>1, <2>2, <2>5, <2>17, <2>18, <2>19
<1> QED
  BY <1>6, <1>7

\* A record is begun.  If the dispatcher was waiting for one, the empty pipe is taken
\* for what is left of the record before.
LEMMA QueueLaid ==
  ASSUME NotifInv, NEW at, Laid(at), WriterAt(at[Len(pipe)]),
         NEW h \in Handlers, NEW n \in Names, QueueNotification(h, n)
  PROVE  \E bt \in [Nat -> Place] :
           /\ Laid(bt)' /\ WriterAt(bt[Len(pipe)])'
           /\ Waiting => /\ bt[0].rec = Len(announced) /\ bt[0].fld = 7 /\ AtEnd(bt[0])'
                         /\ Done(at[0]) <= Done(bt[0])'
           /\ ~Waiting => bt = at
<1>1. PICK L, N : L = Len(pipe) /\ N = Len(announced)
  OBVIOUS
<1>2. TypeOK /\ L \in Nat /\ at[L] \in Place /\ PlaceOK(at[L]) /\ AtEnd(at[L]) /\ N \in Nat
  BY <1>1, PipeEnd, SinceFacts DEF NotifInv
<1>3. /\ Len(announced') = N + 1
      /\ announced'[N + 1] = n
      /\ \A k \in 1 .. N : announced'[k] = announced[k]
      /\ todo'[h] = Fields(n)
      /\ \A g \in Handlers : g # h => todo'[g] = <<>>
      /\ \A g \in Handlers : todo[g] = <<>>
      /\ since' = IF Waiting
                  THEN [announced |-> Len(announced), dispatched |-> Len(dispatched),
                        truncated |-> truncated]
                  ELSE since
      /\ UNCHANGED <<pipe, term, truncated>>
  BY <1>1, QueueStep DEF daemon
<1>4. \A k : k \in Nat /\ k <= N => k <= N + 1
  BY <1>2
<1>5. ASSUME NEW p \in Place, p.rec <= N, p.rec # 0
      PROVE  FieldAt(p)' = FieldAt(p) /\ p.rec <= N + 1
  <2>1. p.rec \in 1 .. N /\ p.rec \in Nat
    BY <1>2, <1>5, PlaceTypes
  <2>2. announced'[p.rec] = announced[p.rec]
    BY <1>3, <2>1
  <2> QED BY <1>4, <1>5, <2>1, <2>2 DEF FieldAt
<1>6. ASSUME NEW p \in Place, PlaceOK(p)
      PROVE  /\ AtEnd(p)' = AtEnd(p) /\ PlaceOK(p)' /\ Done(p)' = Done(p)
             /\ p.rec # 0 => FieldAt(p)' = FieldAt(p)
  <2>1. p.rec <= N
    BY <1>1, <1>6 DEF PlaceOK
  <2>2. CASE p.rec = 0
    <3>1. 0 <= N + 1
      BY <1>2
    <3>2. p.fld = 7 /\ (p.stray => term = "unblock")
      BY <1>6, <2>2 DEF PlaceOK
    <3>3. 7 > 4
      OBVIOUS
    <3> QED BY <1>3, <2>2, <3>1, <3>2, <3>3 DEF AtEnd, PlaceOK, Done
  <2>3. CASE p.rec # 0
    <3>1. FieldAt(p)' = FieldAt(p) /\ p.rec <= N + 1
      BY <1>5, <2>1, <2>3
    <3>2. AtEnd(p)' = AtEnd(p)
      BY <3>1 DEF AtEnd
    <3>3. Done(p)' = Done(p)
      BY <3>2 DEF Done
    <3>4. PlaceOK(p)'
      BY <1>3, <1>6, <2>3, <3>1, <3>2 DEF PlaceOK
    <3> QED BY <3>1, <3>2, <3>3, <3>4
  <2> QED BY <2>2, <2>3
<1>7. Len(todo'[h]) = 7 /\ todo'[h] # <<>>
  <2>1. Len(Fields(n)) = 7
    BY FieldFacts
  <2>2. Len(<<>>) # 7
    OBVIOUS
  <2> QED BY <1>3, <2>1, <2>2
<1>8. ASSUME NEW e, e.rec <= N, e.rec \in Nat, InStep' => e.fld = 7 /\ e.rec = N
      PROVE  WriterAt(e)'
  <2>1. e.rec < N + 1 /\ N = (N + 1) - 1
    BY <1>2, <1>8
  <2>2. \A g \in Handlers : todo'[g] # <<>> => Len(todo'[g]) = 7
    BY <1>3, <1>7
  <2>3. ~(7 < 7)
    OBVIOUS
  <2> QED BY <1>3, <1>7, <1>8, <2>1, <2>2, <2>3 DEF WriterAt
<1>9. at[L].rec <= N /\ at[L].rec \in Nat
  BY <1>1, <1>2, PlaceTypes DEF PlaceOK
<1>10. CASE ~Waiting
  <2>1. InStep' = InStep
    BY <1>3, <1>10 DEF InStep
  <2>2. at \in [Nat -> Place]
    BY DEF Laid
  <2>3. \A i \in 0 .. L : at[i] \in Place /\ PlaceOK(at[i])
    <3>1. \A i \in 0 .. L : i \in Nat
      BY <1>2
    <3> QED BY <1>1, <2>2, <3>1 DEF Laid
  <2>4. \A i \in 0 .. L : PlaceOK(at[i])'
    BY <1>6, <2>3
  <2>5. ASSUME NEW i \in 1 .. L PROVE Holds(at[i], pipe[i])'
    <3>1. i \in 0 .. L
      BY <1>2
    <3>2. Holds(at[i], pipe[i])
      BY <1>1 DEF Laid
    <3>3. at[i].rec # 0 => FieldAt(at[i])' = FieldAt(at[i])
      BY <1>6, <2>3, <3>1
    <3> QED BY <1>3, <3>2, <3>3 DEF Holds
  <2>6. Runs(at)'
    <3>1. Runs(at)
      BY DEF Laid
    <3>2. \A i \in 0 .. L : at[i].rec # 0 => FieldAt(at[i])' = FieldAt(at[i])
      BY <1>6, <2>3
    <3> QED BY <1>1, <1>3, <3>1, <3>2 DEF Runs
  <2>7. ASSUME NEW i \in 0 .. L - 1, AtEnd(at[i])' PROVE Succ(at[i], at[i + 1])'
    <3>1. i \in 0 .. L
      BY <1>2
    <3>2. AtEnd(at[i])
      BY <1>6, <2>3, <2>7, <3>1
    <3>3. Succ(at[i], at[i + 1])
      BY <1>1, <3>2 DEF Laid
    <3> QED BY <2>1, <3>3 DEF Succ
  <2>8. ASSUME NEW i \in 0 .. L, NEW j \in 0 .. L, i <= j PROVE (Done(at[i]) <= Done(at[j]))'
    <3>1. Done(at[i]) <= Done(at[j])
      BY <1>1, <2>8 DEF Laid
    <3>2. Done(at[i])' = Done(at[i]) /\ Done(at[j])' = Done(at[j])
      BY <1>6, <2>3
    <3> QED BY <3>1, <3>2
  <2>9. Laid(at)'
    BY <1>1, <1>3, <2>2, <2>4, <2>5, <2>6, <2>7, <2>8 DEF Laid
  <2>10. InStep => at[L].fld = 7 /\ at[L].rec = N
    BY <1>1, <1>3 DEF WriterAt
  <2>11. WriterAt(at[L])'
    BY <1>8, <1>9, <2>1, <2>10
  <2> QED BY <1>1, <1>3, <1>10, <2>2, <2>9, <2>11
<1>11. CASE Waiting
  <2>1. pipe = <<>> /\ L = 0
    BY <1>1, <1>11 DEF Waiting
  <2> DEFINE new == [rec |-> N, fld |-> 7, off |-> 7, stray |-> FALSE]
  <2>2. new \in Place
    BY <1>2 DEF Place
  <2>3. PICK bt : bt = [i \in Nat |-> IF i = 0 THEN new ELSE at[i]]
    OBVIOUS
  <2>4. bt \in [Nat -> Place] /\ bt[0] = new
    <3> HIDE DEF new
    <3> QED BY <2>2, <2>3 DEF Laid
  <2>5. PICK q : q = bt[0]
    OBVIOUS
  <2>6. q \in Place /\ q.rec = N /\ q.fld = 7 /\ q.off = 7 /\ q.stray = FALSE
    BY <2>2, <2>4, <2>5
  <2>7. q.rec # 0 => Len(FieldAt(q)) = 7
    <3>1. q.rec # 0 => announced[N] \in Names
      BY <1>1, <1>2, <2>6, FieldAtFacts
    <3> QED BY <2>6, <3>1, FieldLengths DEF FieldAt
  <2>8. AtEnd(q) /\ PlaceOK(q)
    <3>1. 7 \in 1 .. 7 /\ N <= N
      BY <1>2
    <3> QED BY <1>1, <2>6, <2>7, <3>1 DEF AtEnd, PlaceOK
  <2>9. AtEnd(q)' /\ PlaceOK(q)' /\ (q.rec # 0 => Len(FieldAt(q))' = 7) /\ Done(q)' = N
    <3>1. 7 > 4
      OBVIOUS
    <3>2. Done(q) = N
      BY <2>6, <3>1 DEF Done
    <3> QED BY <1>6, <2>6, <2>7, <2>8, <3>2
  <2>10. \A i \in 0 .. 0 : i = 0
    OBVIOUS
  <2>11. Runs(bt)'
    <3>1. \A o \in 1 .. 7 : ~(7 < o)
      OBVIOUS
    <3>2. q.rec # 0 => \A o \in 1 .. Len(FieldAt(q)') : ~(q.off < o)
      BY <2>6, <2>9, <3>1
    <3> QED BY <1>1, <1>3, <2>1, <2>5, <2>10, <3>2 DEF Runs
  <2>12. N <= N
    BY <1>2
  <2>13. Laid(bt)'
    <3>1. (\A i \in 0 .. 0 : PlaceOK(bt[i])') /\ (\A i \in 1 .. 0 : Holds(bt[i], pipe[i])')
          /\ (\A i \in 0 .. 0 - 1 : AtEnd(bt[i])' => Succ(bt[i], bt[i + 1])')
      BY <2>5, <2>9, <2>10
    <3>2. (\A i, j \in 0 .. 0 : i <= j => Done(bt[i]) <= Done(bt[j]))'
      BY <2>5, <2>9, <2>10, <2>12
    <3>3. Len(pipe)' = 0
      BY <1>1, <1>3, <2>1
    <3> HIDE DEF new
    <3> QED BY <2>4, <2>11, <3>1, <3>2, <3>3 DEF Laid
  <2>14. WriterAt(q)'
    BY <1>2, <1>8, <2>6, <2>12
  <2>15. Done(at[0]) <= N
    <3>1. Done(at[0]) = at[0].rec \/ Done(at[0]) = at[0].rec - 1
      BY DEF Done
    <3> QED BY <1>2, <1>9, <2>1, <3>1
  <2>16. /\ bt[0].rec = Len(announced) /\ bt[0].fld = 7 /\ AtEnd(bt[0])'
         /\ Done(at[0]) <= Done(bt[0])'
    BY <1>1, <2>5, <2>6, <2>9, <2>15
  <2>17. Len(pipe)' = 0
    BY <1>1, <1>3, <2>1
  <2>18. WriterAt(bt[Len(pipe)])'
    BY <2>5, <2>14, <2>17
  <2> HIDE DEF new
  <2> QED BY <1>11, <2>4, <2>13, <2>16, <2>18
<1> QED
  BY <1>10, <1>11

\* Nothing is written or read.
LEMMA SameLaid ==
  ASSUME NEW at, Laid(at), UNCHANGED <<pipe, announced>>, InStep' => InStep,
         term = "unblock" => term' = "unblock"
  PROVE  Laid(at)'
<1>1. \A p : /\ PlaceOK(p) => PlaceOK(p)'
             /\ AtEnd(p)' = AtEnd(p) /\ Done(p)' = Done(p) /\ FieldAt(p)' = FieldAt(p)
  BY DEF PlaceOK, AtEnd, Done, FieldAt
<1>2. \A p, b : /\ Succ(p, b) => Succ(p, b)'
                /\ Holds(p, b) => Holds(p, b)'
  BY DEF Succ, Holds, FieldAt
<1>3. Runs(at)'
  <2>1. Runs(at)
    BY DEF Laid
  <2> QED BY <1>1, <2>1 DEF Runs
<1>4. \A i \in 1 .. Len(pipe) : Holds(at[i], pipe[i])'
  <2> SUFFICES ASSUME NEW i \in 1 .. Len(pipe) PROVE Holds(at[i], pipe[i])'
    OBVIOUS
  <2>1. Holds(at[i], pipe[i])
    BY DEF Laid
  <2> QED BY <2>1 DEF Holds, FieldAt
<1> QED
  BY <1>1, <1>2, <1>3, <1>4 DEF Laid

\* A set of numbers with a member has a least one.
LEMMA LeastNumber ==
  ASSUME NEW S, S \subseteq Nat, S # {}
  PROVE  \E x \in S : \A y \in S : x <= y
<1> DEFINE Less == OpToRel(<, Nat)
<1>1. IsWellFoundedOn(Less, Nat)
  BY NatLessThanWellFounded
<1>2. PICK x \in S : \A y \in S : ~(<<y, x>> \in Less)
  <2> HIDE DEF Less
  <2> QED BY <1>1, WFMin
<1>3. \A y \in S : ~(y < x)
  BY <1>2 DEF OpToRel
<1> QED
  BY <1>3

\* A string that is a name begins with a printable character.
LEMMA NameBegins ==
  ASSUME NEW text \in Seq(Byte), NEW n \in Names, CString(text) = Spelling[n]
  PROVE  Len(text) \in Nat \ {0} /\ text[1] \in Printable
<1> DEFINE zeros == {i \in DOMAIN text : text[i] = 0}
<1>1. /\ Spelling[n] \in Seq(Printable) /\ Len(Spelling[n]) \in Nat \ {0}
      /\ Spelling[n][1] \in Printable
  <2>1. Spelling[n] \in Seq(Printable) /\ Len(Spelling[n]) \in Nat \ {0}
    BY TextFacts
  <2> HIDE DEF Printable
  <2>2. 1 \in 1 .. Len(Spelling[n])
    BY <2>1
  <2> QED BY <2>1, <2>2, ElementOfSeq
<1> HIDE DEF Byte, Printable
<1>2. Len(text) \in Nat /\ DOMAIN text = 1 .. Len(text)
  OBVIOUS
<1>3. CASE zeros = {}
  <2>1. text = Spelling[n]
    BY <1>3 DEF CString
  <2> QED BY <1>1, <2>1
<1>4. CASE zeros # {}
  <2>1. zeros \subseteq 1 .. Len(text)
    BY <1>2
  <2>2. zeros \subseteq Nat
    BY <1>2, <2>1
  <2> HIDE DEF zeros
  <2>3. PICK m \in zeros : m = Min(zeros)
    BY <1>4, <2>2, LeastNumber DEF Min
  <2>4. SubSeq(text, 1, m - 1) = Spelling[n]
    BY <1>4, <2>3 DEF CString, zeros
  <2>5. m \in 1 .. Len(text) /\ m - 1 \in 0 .. Len(text)
    BY <1>2, <2>1
  <2>6. Len(SubSeq(text, 1, m - 1)) = m - 1 /\ \A i \in 1 .. m - 1 : SubSeq(text, 1, m - 1)[i] = text[i]
    BY <2>5, PartFacts
  <2>7. 1 \in 1 .. m - 1
    BY <1>1, <2>4, <2>5, <2>6
  <2>8. text[1] = Spelling[n][1]
    BY <2>4, <2>6, <2>7
  <2>9. Len(text) \in Nat \ {0}
    BY <1>2, <2>5
  <2> QED BY <1>1, <2>8, <2>9
<1> QED
  BY <1>3, <1>4

\* A text is that of one name.
LEMMA NameOfText ==
  ASSUME NEW n \in Names
  PROVE  /\ NameOf(Text(n)) = n
         /\ \A m \in Names : CString(Text(n)) = Spelling[m] => m = n
<1> DEFINE text == Text(n)
           zeros == {i \in DOMAIN text : text[i] = 0}
           s == Spelling[n]
<1>1. PICK l : l = Len(s)
  OBVIOUS
<1>2. /\ s \in Seq(Printable) /\ l \in Nat \ {0} /\ text \in Seq(Byte) /\ Len(text) = l + 1
      /\ \A i \in 1 .. l : text[i] = s[i] /\ text[i] \in Printable
      /\ text[l + 1] = 0
  BY <1>1, TextFacts
<1>3. zeros = {l + 1}
  <2>1. 0 \notin Printable
    BY DEF Printable
  <2> HIDE DEF Printable, Byte, text, s
  <2>2. DOMAIN text = 1 .. l + 1
    BY <1>2
  <2>3. \A i \in 1 .. l + 1 : i \in 1 .. l \/ i = l + 1
    BY <1>2
  <2>4. l + 1 \in 1 .. l + 1
    BY <1>2
  <2> QED BY <1>2, <2>1, <2>2, <2>3, <2>4
<1>4. Min({l + 1}) = l + 1
  <2>1. l + 1 \in Int /\ l + 1 <= l + 1
    BY <1>2
  <2> QED BY <2>1 DEF Min
<1> HIDE DEF zeros, Printable, Byte
<1>5. CString(text) = s
  <2>1. CString(text) = SubSeq(text, 1, (l + 1) - 1)
    BY <1>3, <1>4 DEF CString, zeros
  <2>2. (l + 1) - 1 = l /\ l \in 0 .. l + 1
    BY <1>2
  <2> HIDE DEF text, s
  <2>3. /\ SubSeq(text, 1, l) \in Seq(Byte) /\ Len(SubSeq(text, 1, l)) = l
        /\ \A i \in 1 .. l : SubSeq(text, 1, l)[i] = text[i]
    BY <1>2, <2>2, PartFacts
  <2>4. s \in Seq(Byte)
    <3>1. Printable \subseteq Byte
      BY DEF Printable, Byte
    <3> QED BY <1>2, <3>1, SeqMonotonic
  <2>5. SubSeq(text, 1, l) = s
    BY <1>1, <1>2, <2>3, <2>4, SeqEqual
  <2> QED BY <2>1, <2>2, <2>5
<1>6. \A m \in Names : Spelling[m] = Spelling[n] => m = n
  BY ConstantsAssumption
<1>7. \A m \in Names : CString(text) = Spelling[m] => m = n
  BY <1>5, <1>6
<1>8. NameOf(text) = n
  BY <1>5, <1>7 DEF NameOf
<1> QED
  BY <1>7, <1>8

-----------------------------------------------------------------------------
(***************************************************************************)
(* Where the dispatcher is.  Out of step it may take any byte for a tag, a *)
(* length or a name; but "<" and "%" only follow each other in a tag, and  *)
(* what it takes for a name is one only behind the length of a name.       *)
(***************************************************************************)
Idle == disp \in {"none", "test", "seek start", "exited"}

\* The dispatcher has read a name and not yet sent notifications for it.
HoldsName == disp \in {"llen", "layer", "seek end", "end", "send"}

\* The last m bytes read look like the first ones of a start tag.
OnStart(p, m) ==
  /\ p.rec # 0 /\ p.stray = FALSE /\ p.off = m
  /\ m = 1 => p.fld \in {1, 2, 3, 5, 7}
  /\ m = 2 => p.fld \in {1, 7}
  /\ m >= 3 => p.fld = 1

\* Two bytes behind a start tag.
OnTlen(p) ==
  p.rec # 0 /\ p.stray = FALSE /\ p.fld \in {1, 2} /\ p.off \in {1, 2}

\* Behind two bytes that were accepted as the length of a name.
OnVlen(p) ==
  /\ p.rec # 0 /\ p.stray = FALSE /\ p.fld = 3
  /\ p.off = 1 \/ (p.off = 2 /\ need = Len(Text(announced[p.rec])))

\* A name that the dispatcher has read is that of a change after the mark.
ReadName(p, mark) ==
  \A n \in Names : CString(valname) = Spelling[n] =>
    \E k \in 1 .. Len(announced) : mark < k /\ k <= Done(p) /\ announced[k] = n

ReaderAt(p, mark) ==
  /\ mark <= Done(p)
  /\ disp = "start" => matched \in 1 .. 8 /\ OnStart(p, matched)
  /\ disp = "tlen" => OnStart(p, 9)
  /\ disp = "vlen" => OnTlen(p)
  /\ disp = "name" => OnVlen(p)
  /\ HoldsName => ReadName(p, mark)

\* In step, the dispatcher is in a record where it takes itself to be.
Reading(p) ==
  /\ Idle => p.fld = 7 /\ AtEnd(p)
  /\ disp = "start" => p.fld = 1
  /\ disp = "vlen" => p.fld = 2 /\ AtEnd(p)
  /\ disp = "name" => AtEnd(p)
  /\ disp = "llen" => p.fld = 4 /\ AtEnd(p)
  /\ disp = "layer" => p.fld = 5 /\ AtEnd(p) /\ need = Len(Layer)
  /\ disp = "seek end" => p.fld = 6 /\ AtEnd(p)
  /\ disp = "end" => p.fld = 7 /\ matched \in 1 .. 6 /\ p.off = matched
  /\ disp = "send" => p.fld = 7 /\ AtEnd(p)
  /\ HoldsName => valname = Text(announced[p.rec])

\* It is the record after those that were dispatched, or the last of them.
Count(p) ==
  p.rec = since.announced + (Len(dispatched) - since.dispatched) + (IF Idle THEN 0 ELSE 1)

Agree ==
  \A i \in 1 .. Len(dispatched) - since.dispatched :
    dispatched[since.dispatched + i] = announced[since.announced + i]

InPlace(p) == Reading(p) /\ Count(p) /\ Agree

\* The ghost and the reader.
Here(at, mark) ==
  Laid(at) /\ ReaderAt(at[0], mark) /\ (InStep => InPlace(at[0]))

\* After the reader has taken some bytes.
Moved(at, mark) ==
  \E g : TakesBytes(g) /\ ReaderAt(at[g], mark)' /\ (InStep => InPlace(at[g])')

\* The steps of the dispatcher that read.
SeekStart == SeekTag("seek start", start_rec, "start")
MatchStart == MatchTag("start", start_rec, "tlen")
ReadVlen == ReadLength("vlen", "name")
ReadTheName == ReadText("name", "llen")
ReadLlen == ReadLength("llen", "layer")
ReadLayer == ReadText("layer", "seek end")
SeekEnd == SeekTag("seek end", end_rec, "end")
MatchEnd == MatchTag("end", end_rec, "send")

\* What the bytes of a field are.
LEMMA ByteFacts ==
  ASSUME TypeOK, NEW q \in Place, PlaceOK(q), NEW b, Holds(q, b), q.stray = FALSE
  PROVE  /\ q.rec # 0 /\ announced[q.rec] \in Names /\ q.rec \in 1 .. Len(announced)
         /\ b = FieldAt(q)[q.off] /\ q.off \in 1 .. Len(FieldAt(q))
         /\ Len(FieldAt(q)) \in Nat \ {0}
         /\ AtEnd(q) <=> q.off = Len(FieldAt(q))
         /\ q.fld = 1 => Len(FieldAt(q)) = 9 /\ b = start_rec[q.off]
         /\ q.fld = 2 => Len(FieldAt(q)) = 2 /\ (q.off = 2 => b \in Nat /\ b <= 32)
         /\ q.fld = 3 => /\ Len(FieldAt(q)) = 2 /\ (q.off = 2 => b \in Nat /\ b <= 16)
                         /\ FieldAt(q)[1] + 256 * FieldAt(q)[2] = Len(Text(announced[q.rec]))
         /\ q.fld = 4 => FieldAt(q) = Text(announced[q.rec])
         /\ q.fld = 5 => /\ Len(FieldAt(q)) = 2 /\ (q.off = 2 => b \in Nat /\ b <= 16)
                         /\ FieldAt(q)[1] + 256 * FieldAt(q)[2] = Len(Layer)
         /\ q.fld = 6 => FieldAt(q) = Layer
         /\ q.fld = 7 => Len(FieldAt(q)) = 7 /\ b = end_rec[q.off]
         /\ b = 60 => q.off = 1 /\ q.fld \in {1, 2, 3, 5, 7}
<1>1. q.rec # 0 /\ b = FieldAt(q)[q.off]
  BY DEF Holds
<1>2. q.rec <= Len(announced) /\ q.off \in 1 .. Len(FieldAt(q))
  BY <1>1 DEF PlaceOK
<1>3. /\ announced[q.rec] \in Names /\ q.rec \in 1 .. Len(announced)
      /\ Len(FieldAt(q)) \in Nat \ {0}
  BY <1>1, <1>2, FieldAtFacts
<1>4. PICK n \in Names : n = announced[q.rec]
  BY <1>3
<1>5. FieldAt(q) = Fields(n)[q.fld]
  BY <1>4 DEF FieldAt
<1>6. /\ Len(Text(n)) <= 65535 /\ Len(Text(n)) \in Nat /\ Len(Text(n)) <= FILENAME_MAX
      /\ Len(Layer) <= 65535 /\ Len(Layer) \in Nat /\ Len(Layer) <= FILENAME_MAX
  <2>1. \A k \in Nat : k <= 4096 => k <= 65535
    OBVIOUS
  <2> QED BY <2>1, TextFacts, LayerFacts DEF FILENAME_MAX
<1>7. \A i \in 1 .. 2 : i = 1 \/ i = 2
  OBVIOUS
<1>8. \A x : x \in Byte => x \in Nat
  BY DEF Byte
<1>9. CASE q.fld = 1
  <2>1. FieldAt(q) = start_rec /\ Len(FieldAt(q)) = 9
    BY <1>5, <1>9, FieldFacts, TagFacts
  <2>2. \A i \in 1 .. 9 : start_rec[i] = 60 => i = 1
    <3>1. \A i \in 1 .. 9 : \/ i = 1 \/ i = 2 \/ i = 3 \/ i = 4 \/ i = 5 \/ i = 6 \/ i = 7
                            \/ i = 8 \/ i = 9
      OBVIOUS
    <3> QED BY <3>1, TagFacts
  <2> QED BY <1>1, <1>2, <1>3, <1>9, <2>1, <2>2 DEF AtEnd
<1>10. CASE q.fld = 7
  <2>1. FieldAt(q) = end_rec /\ Len(FieldAt(q)) = 7
    BY <1>5, <1>10, FieldFacts, TagFacts
  <2>2. \A i \in 1 .. 7 : end_rec[i] = 60 => i = 1
    <3>1. \A i \in 1 .. 7 : \/ i = 1 \/ i = 2 \/ i = 3 \/ i = 4 \/ i = 5 \/ i = 6 \/ i = 7
      OBVIOUS
    <3> QED BY <3>1, TagFacts
  <2> QED BY <1>1, <1>2, <1>3, <1>10, <2>1, <2>2 DEF AtEnd
<1>11. CASE q.fld = 2
  <2>1. PICK k \in Nat : k <= 8447 /\ FieldAt(q) = Short(k)
    BY <1>5, <1>11, FieldFacts
  <2>2. k <= 65535
    BY <2>1
  <2>3. Len(FieldAt(q)) = 2 /\ FieldAt(q)[2] <= 32 /\ FieldAt(q)[2] \in Nat
    BY <1>8, <2>1, <2>2, ShortFacts
  <2>4. q.off = 1 \/ q.off = 2
    BY <1>2, <1>7, <2>3
  <2>5. \A x : x <= 32 => x # 60
    <3>1. ~(60 <= 32)
      OBVIOUS
    <3> QED BY <3>1
  <2> QED BY <1>1, <1>2, <1>3, <1>11, <2>3, <2>4, <2>5 DEF AtEnd
<1>12. ASSUME NEW k \in Nat, k <= 65535, k <= FILENAME_MAX, FieldAt(q) = Short(k)
       PROVE  /\ Len(FieldAt(q)) = 2 /\ (q.off = 2 => b \in Nat /\ b <= 16)
              /\ FieldAt(q)[1] + 256 * FieldAt(q)[2] = k /\ (b = 60 => q.off = 1)
  <2>3. /\ Len(FieldAt(q)) = 2 /\ FieldAt(q)[2] <= 16 /\ FieldAt(q)[2] \in Nat
        /\ FieldAt(q)[1] + 256 * FieldAt(q)[2] = k
    BY <1>8, <1>12, ShortFacts
  <2>4. q.off = 1 \/ q.off = 2
    BY <1>2, <1>7, <2>3
  <2>5. \A x : x <= 16 => x # 60
    <3>1. ~(60 <= 16)
      OBVIOUS
    <3> QED BY <3>1
  <2> QED BY <1>1, <2>3, <2>4, <2>5
<1>13. CASE q.fld = 3
  <2>1. FieldAt(q) = Short(Len(Text(n)))
    BY <1>5, <1>13, FieldFacts
  <2>2. /\ Len(FieldAt(q)) = 2 /\ (q.off = 2 => b \in Nat /\ b <= 16)
        /\ FieldAt(q)[1] + 256 * FieldAt(q)[2] = Len(Text(n)) /\ (b = 60 => q.off = 1)
    BY <1>6, <1>12, <2>1
  <2> QED BY <1>1, <1>2, <1>3, <1>4, <1>13, <2>2 DEF AtEnd
<1>14. CASE q.fld = 5
  <2>1. FieldAt(q) = Short(Len(Layer))
    BY <1>5, <1>14, FieldFacts
  <2>2. /\ Len(FieldAt(q)) = 2 /\ (q.off = 2 => b \in Nat /\ b <= 16)
        /\ FieldAt(q)[1] + 256 * FieldAt(q)[2] = Len(Layer) /\ (b = 60 => q.off = 1)
    BY <1>6, <1>12, <2>1
  <2> QED BY <1>1, <1>2, <1>3, <1>4, <1>14, <2>2 DEF AtEnd
<1>15. CASE q.fld = 4
  <2>1. FieldAt(q) = Text(n)
    BY <1>5, <1>15, FieldFacts
  <2>2. b # 60
    BY <1>1, <1>2, <2>1, TextFacts
  <2> QED BY <1>1, <1>2, <1>3, <1>4, <1>15, <2>1, <2>2 DEF AtEnd
<1>16. CASE q.fld = 6
  <2>1. FieldAt(q) = Layer
    BY <1>5, <1>16, FieldFacts
  <2>2. b # 60
    BY <1>1, <1>2, <2>1, LayerFacts
  <2> QED BY <1>1, <1>2, <1>3, <1>4, <1>16, <2>1, <2>2 DEF AtEnd
<1>17. \/ q.fld = 1 \/ q.fld = 2 \/ q.fld = 3 \/ q.fld = 4 \/ q.fld = 5 \/ q.fld = 6
       \/ q.fld = 7
  <2>1. q.fld \in 1 .. 7
    BY PlaceTypes
  <2> QED BY <2>1
<1> QED
  BY <1>9, <1>10, <1>11, <1>13, <1>14, <1>15, <1>16, <1>17

LEMMA StartByte ==
  ASSUME TypeOK, NEW q \in Place, PlaceOK(q), NEW b, Holds(q, b), q.stray = FALSE, q.fld = 1
  PROVE  b = start_rec[q.off] /\ Len(FieldAt(q)) = 9
BY ByteFacts

LEMMA EndByte ==
  ASSUME TypeOK, NEW q \in Place, PlaceOK(q), NEW b, Holds(q, b), q.stray = FALSE, q.fld = 7
  PROVE  b = end_rec[q.off] /\ Len(FieldAt(q)) = 7
BY ByteFacts

\* In step there is nothing between fields and between records.
LEMMA NextInStep ==
  ASSUME TypeOK, NEW at, Laid(at), InStep, NEW i \in 0 .. Len(pipe) - 1, AtEnd(at[i]),
         NEW j \in Nat, j = i + 1
  PROVE  LET p == at[i]
             q == at[j]
         IN /\ q.stray = FALSE /\ q.off = 1 /\ q.rec # 0
            /\ p.fld = 7 => q.rec = p.rec + 1 /\ q.fld = 1
            /\ p.fld # 7 => q.rec = p.rec /\ q.fld = p.fld + 1
<1> DEFINE p == at[i]
           q == at[j]
<1>1. p \in Place /\ q \in Place /\ PlaceOK(p) /\ PlaceOK(q) /\ Holds(q, pipe[j]) /\ Succ(p, q)
  BY NextPlace
<1> HIDE DEF p, q
<1>2. /\ p.rec \in Nat /\ p.fld \in 1 .. 7 /\ q.rec \in Nat /\ q.fld \in 1 .. 7
      /\ q.stray \in BOOLEAN
  BY <1>1, PlaceTypes
<1>3. q.stray = FALSE
  BY <1>1, <1>2 DEF PlaceOK, InStep
<1>4. q.rec # 0
  BY <1>1, <1>3, ByteFacts
<1>5. \/ q.rec = p.rec /\ q.fld = p.fld + 1 /\ q.off = 1
      \/ q.rec > p.rec /\ q.fld = 1 /\ q.off = 1 /\ p.fld = 7 /\ q.rec = p.rec + 1
  BY <1>1, <1>3 DEF Succ
<1>6. p.fld = 7 => q.rec = p.rec + 1 /\ q.fld = 1
  BY <1>2, <1>5
<1>7. p.fld # 7 => q.rec = p.rec /\ q.fld = p.fld + 1
  BY <1>5
<1> QED
  BY <1>3, <1>4, <1>5, <1>6, <1>7 DEF p, q

\* A field that begins at the head of the pipe is there as a whole.
LEMMA WholeField ==
  ASSUME TypeOK, NEW at, Laid(at), pipe # <<>>, at[1].stray = FALSE, at[1].off = 1
  PROVE  LET q == at[1]
             m == Len(FieldAt(q))
         IN /\ m \in Nat \ {0} /\ m <= Len(pipe)
            /\ \A o \in 1 .. m :
                 /\ at[o].rec = q.rec /\ at[o].fld = q.fld /\ at[o].off = o /\ at[o].stray = FALSE
                 /\ FieldAt(at[o]) = FieldAt(q) /\ pipe[o] = FieldAt(q)[o]
<1>1. Len(pipe) \in Nat \ {0}
  <2>1. pipe \in Seq(Byte)
    BY DEF TypeOK
  <2> HIDE DEF Byte
  <2> QED BY <2>1
<1>2. 1 \in 0 .. Len(pipe)
  BY <1>1
<1> DEFINE q == at[1]
<1>3. q \in Place /\ PlaceOK(q) /\ Holds(q, pipe[1])
  <2>1. PICK i \in 0 .. Len(pipe) - 1, j \in Nat : i = 0 /\ j = 1 /\ j = i + 1
    BY <1>1
  <2> QED BY <2>1, NextPlace
<1>4. PICK m \in Nat \ {0} : m = Len(FieldAt(q)) /\ q.rec # 0
  BY <1>3, ByteFacts
<1>5. ASSUME NEW o \in 1 .. m
      PROVE  /\ o \in 1 .. Len(pipe)
             /\ at[o].rec = q.rec /\ at[o].fld = q.fld /\ at[o].off = o /\ at[o].stray = FALSE
  <2>1. CASE o = 1
    <3>1. 1 \in 1 .. Len(pipe)
      BY <1>1
    <3> QED BY <2>1, <3>1
  <2>2. CASE o # 1
    <3>1. 1 < o /\ 1 + (o - 1) = o
      BY <2>2
    <3>2. /\ 1 + (o - 1) <= Len(pipe)
          /\ LET r == at[1 + (o - 1)]
             IN r.rec = q.rec /\ r.fld = q.fld /\ r.off = o /\ r.stray = FALSE
      BY <1>2, <1>4, <3>1 DEF Laid, Runs
    <3>3. o \in 1 .. Len(pipe)
      <4>1. o <= Len(pipe)
        BY <3>1, <3>2
      <4> QED BY <1>1, <4>1
    <3> QED BY <3>1, <3>2, <3>3
  <2> QED BY <2>1, <2>2
<1>6. ASSUME NEW o \in 1 .. m
      PROVE  FieldAt(at[o]) = FieldAt(q) /\ pipe[o] = FieldAt(q)[o]
  <2>1. FieldAt(at[o]) = FieldAt(q)
    BY <1>5 DEF FieldAt
  <2>2. Holds(at[o], pipe[o])
    BY <1>5 DEF Laid
  <2> QED BY <1>5, <2>1, <2>2 DEF Holds
<1>7. m <= Len(pipe)
  <2>1. m \in 1 .. m
    BY <1>4
  <2>2. m \in 1 .. Len(pipe)
    BY <1>5, <2>1
  <2> QED BY <2>2
<1> QED
  BY <1>4, <1>5, <1>6, <1>7

\* What was read stays behind the dispatcher.
LEMMA MarkKept ==
  ASSUME TypeOK, NEW at, Laid(at), NEW mark \in Nat, mark <= Done(at[0]),
         NEW g \in 0 .. Len(pipe), UNCHANGED announced
  PROVE  /\ mark <= Done(at[g])'
         /\ UNCHANGED valname /\ ReadName(at[0], mark) => ReadName(at[g], mark)'
<1>1. PICK L \in Nat : L = Len(pipe)
  BY PipeEnd
<1>2. 0 \in 0 .. L /\ g \in 0 .. L /\ 0 <= g /\ 0 \in Nat /\ g \in Nat
  BY <1>1
<1>3. Done(at[0]) <= Done(at[g]) /\ at[0] \in Place /\ at[g] \in Place
  BY <1>1, <1>2 DEF Laid
<1>4. PICK d \in Int, e \in Int : d = Done(at[0]) /\ e = Done(at[g])
  <2>1. at[0].rec \in Nat /\ at[g].rec \in Nat
    BY <1>3, PlaceTypes
  <2>2. \A k \in Nat : k \in Int /\ k - 1 \in Int
    OBVIOUS
  <2>3. Done(at[0]) \in Int /\ Done(at[g]) \in Int
    BY <2>1, <2>2 DEF Done
  <2> QED BY <2>3
<1>5. mark <= e /\ \A k \in Nat : k <= d => k <= e
  BY <1>3, <1>4
<1>6. Done(at[g])' = Done(at[g])
  BY DEF Done, AtEnd, FieldAt
<1>7. ASSUME UNCHANGED valname, ReadName(at[0], mark) PROVE ReadName(at[g], mark)'
  <2> SUFFICES ASSUME NEW n \in Names, CString(valname) = Spelling[n]
               PROVE  \E k \in 1 .. Len(announced) : mark < k /\ k <= Done(at[g]) /\ announced[k] = n
    BY <1>6, <1>7 DEF ReadName
  <2>1. PICK k \in 1 .. Len(announced) : mark < k /\ k <= d /\ announced[k] = n
    BY <1>4, <1>7 DEF ReadName
  <2>2. k \in Nat
    <3>1. Len(announced) \in Nat
      BY SinceFacts
    <3> QED BY <3>1
  <2>3. k <= e
    BY <1>5, <2>1, <2>2
  <2> QED BY <1>4, <2>1, <2>3
<1> QED
  BY <1>4, <1>5, <1>6, <1>7

\* The steps within a record.
LEMMA InRecord ==
  ASSUME NEW p, NEW q, InPlace(p), Idle' <=> Idle, q.rec = p.rec, UNCHANGED history, Reading(q)'
  PROVE  InPlace(q)'
<1>1. Count(q)'
  BY DEF InPlace, Count, history
<1>2. Agree'
  BY DEF InPlace, Agree, history
<1> QED
  BY <1>1, <1>2 DEF InPlace

\* The dispatcher is in the middle of a field.
LEMMA MoreBytes ==
  ASSUME TypeOK, NEW at, Laid(at), ~AtEnd(at[0])
  PROVE  pipe # <<>>
<1>1. Len(pipe) \in Nat /\ AtEnd(at[Len(pipe)])
  BY PipeEnd
<1>2. Len(pipe) # 0
  BY <1>1
<1> QED
  BY <1>2

\* The byte at the head of the pipe and its place.
LEMMA HeadPlace ==
  ASSUME TypeOK, NEW at, Laid(at), pipe # <<>>
  PROVE  /\ 0 \in 0 .. Len(pipe) - 1 /\ 1 \in 0 .. Len(pipe) /\ Len(pipe) \in Nat \ {0}
         /\ at[0] \in Place /\ at[1] \in Place /\ PlaceOK(at[0]) /\ PlaceOK(at[1])
         /\ Holds(at[1], pipe[1])
         /\ AtEnd(at[0]) => Succ(at[0], at[1])
         /\ ~AtEnd(at[0]) => /\ at[1].rec = at[0].rec /\ at[1].fld = at[0].fld
                             /\ at[1].off = at[0].off + 1 /\ at[1].stray = FALSE
<1>1. Len(pipe) \in Nat \ {0}
  <2>1. pipe \in Seq(Byte)
    BY DEF TypeOK
  <2> HIDE DEF Byte
  <2> QED BY <2>1
<1>2. PICK i \in 0 .. Len(pipe) - 1, j \in Nat : i = 0 /\ j = 1 /\ j = i + 1 /\ j \in 0 .. Len(pipe)
  BY <1>1
<1>3. LET p == at[i]
          q == at[j]
      IN /\ p \in Place /\ q \in Place /\ PlaceOK(p) /\ PlaceOK(q) /\ Holds(q, pipe[j])
         /\ AtEnd(p) => Succ(p, q)
         /\ ~AtEnd(p) => /\ q.rec = p.rec /\ q.fld = p.fld /\ q.off = p.off + 1 /\ q.stray = FALSE
                         /\ p.rec # 0 /\ p.stray = FALSE
  BY <1>2, NextPlace
<1> QED
  BY <1>1, <1>2, <1>3

LEMMA HeadInStep ==
  ASSUME TypeOK, NEW at, Laid(at), pipe # <<>>, InStep, AtEnd(at[0])
  PROVE  /\ at[1].stray = FALSE /\ at[1].off = 1 /\ at[1].rec # 0
         /\ at[0].fld = 7 => at[1].rec = at[0].rec + 1 /\ at[1].fld = 1
         /\ at[0].fld # 7 => at[1].rec = at[0].rec /\ at[1].fld = at[0].fld + 1
<1>1. 0 \in 0 .. Len(pipe) - 1
  BY HeadPlace
<1>2. PICK i \in 0 .. Len(pipe) - 1, j \in Nat : i = 0 /\ j = 1 /\ j = i + 1
  BY <1>1
<1>3. AtEnd(at[i])
  BY <1>2
<1>4. LET p == at[i]
          q == at[j]
      IN /\ q.stray = FALSE /\ q.off = 1 /\ q.rec # 0
         /\ p.fld = 7 => q.rec = p.rec + 1 /\ q.fld = 1
         /\ p.fld # 7 => q.rec = p.rec /\ q.fld = p.fld + 1
  BY <1>2, <1>3, NextInStep
<1> QED
  BY <1>2, <1>4

\* The byte behind it.
LEMMA SecondPlace ==
  ASSUME TypeOK, NEW at, Laid(at), Len(pipe) >= 2
  PROVE  /\ 1 \in 0 .. Len(pipe) - 1 /\ 2 \in 0 .. Len(pipe)
         /\ at[2] \in Place /\ PlaceOK(at[2]) /\ Holds(at[2], pipe[2])
         /\ AtEnd(at[1]) => Succ(at[1], at[2])
         /\ ~AtEnd(at[1]) => /\ at[2].rec = at[1].rec /\ at[2].fld = at[1].fld
                             /\ at[2].off = at[1].off + 1 /\ at[2].stray = FALSE
<1>1. Len(pipe) \in Nat
  BY PipeEnd
<1>2. PICK i \in 0 .. Len(pipe) - 1, j \in Nat : i = 1 /\ j = 2 /\ j = i + 1 /\ j \in 0 .. Len(pipe)
  BY <1>1
<1>3. LET p == at[i]
          q == at[j]
      IN /\ p \in Place /\ q \in Place /\ PlaceOK(p) /\ PlaceOK(q) /\ Holds(q, pipe[j])
         /\ AtEnd(p) => Succ(p, q)
         /\ ~AtEnd(p) => /\ q.rec = p.rec /\ q.fld = p.fld /\ q.off = p.off + 1 /\ q.stray = FALSE
                         /\ p.rec # 0 /\ p.stray = FALSE
  BY <1>2, NextPlace
<1> QED
  BY <1>2, <1>3

\* A byte other than that of sigterm_handler.
LEMMA NotStray ==
  ASSUME NEW q \in Place, NEW b, Holds(q, b), b # 32
  PROVE  q.stray = FALSE
<1>1. q.stray \in BOOLEAN
  BY PlaceTypes
<1>2. q.stray = TRUE => b = 32
  BY DEF Holds
<1> QED
  BY <1>1, <1>2

\* The search for a start tag.
LEMMA SeekStartMoves ==
  ASSUME TypeOK, NEW at, NEW mark \in Nat, Here(at, mark),
         SeekStart
  PROVE  Moved(at, mark)
<1>1. /\ pipe # <<>> /\ pipe' = Tail(pipe) /\ disp = "seek start"
      /\ UNCHANGED <<announced, valname, need, since, truncated, term, dispatched, history>>
      /\ Head(pipe) = 60 => disp' = "start" /\ matched' = 1
      /\ Head(pipe) # 60 => disp' = "seek start"
  BY TagFacts DEF SeekStart, SeekTag, DispAt, history, daemon
<1>2. Laid(at) /\ ReaderAt(at[0], mark) /\ (InStep => InPlace(at[0]))
  BY DEF Here
<1>3. TakesBytes(1) /\ Head(pipe) = pipe[1]
  BY <1>1, TakesOne
<1>q. PICK p, q : p = at[0] /\ q = at[1]
  OBVIOUS
<1>4. /\ 1 \in 0 .. Len(pipe) /\ p \in Place /\ q \in Place /\ PlaceOK(q) /\ Holds(q, pipe[1])
      /\ 0 \in 0 .. Len(pipe) - 1
  BY <1>1, <1>2, <1>q, HeadPlace
<1>5. mark <= Done(q)'
  BY <1>1, <1>2, <1>4, <1>q, MarkKept DEF ReaderAt
<1>6. ASSUME pipe[1] = 60 PROVE OnStart(q, 1)
  <2>1. q.stray = FALSE
    <3>1. pipe[1] # 32
      BY <1>6
    <3> QED BY <1>4, <3>1, NotStray
  <2>2. q.rec # 0 /\ q.off = 1 /\ q.fld \in {1, 2, 3, 5, 7}
    BY <1>4, <1>6, <2>1, ByteFacts
  <2> QED BY <2>1, <2>2 DEF OnStart
<1>7. ReaderAt(q, mark)'
  <2>1. CASE pipe[1] = 60
    <3>1. OnStart(q, 1)'
      BY <1>6, <2>1 DEF OnStart
    <3>2. 1 \in 1 .. 8
      OBVIOUS
    <3> QED BY <1>1, <1>3, <1>5, <2>1, <3>1, <3>2 DEF ReaderAt, HoldsName
  <2>2. CASE pipe[1] # 60
    BY <1>1, <1>3, <1>5, <2>2 DEF ReaderAt, HoldsName
  <2> QED BY <2>1, <2>2
<1>8. ASSUME InStep PROVE InPlace(q)'
  <2>1. p.fld = 7 /\ AtEnd(p) /\ Idle
    BY <1>1, <1>2, <1>8, <1>q DEF InPlace, Reading, Idle
  <2>2. q.stray = FALSE /\ q.off = 1 /\ q.rec = p.rec + 1 /\ q.fld = 1
    BY <1>1, <1>2, <1>8, <1>q, <2>1, HeadInStep
  <2>3. pipe[1] = 60
    <3>1. PICK b : b = pipe[1]
      OBVIOUS
    <3>2. q \in Place /\ PlaceOK(q) /\ Holds(q, b)
      BY <1>4, <3>1
    <3>3. q.stray = FALSE /\ q.fld = 1
      BY <2>2
    <3>4. b = start_rec[q.off]
      BY <3>2, <3>3, StartByte
    <3> QED BY <2>2, <3>1, <3>4, TagFacts
  <2>4. disp' = "start" /\ ~Idle'
    BY <1>1, <1>3, <2>3 DEF Idle
  <2>5. Reading(q)'
    BY <2>2, <2>4 DEF Reading, HoldsName
  <2>6. Count(q)'
    <3>1. p.rec = since.announced + (Len(dispatched) - since.dispatched) + 0
      BY <1>2, <1>8, <1>q, <2>1 DEF InPlace, Count
    <3>2. since.announced \in Nat /\ Len(dispatched) \in Nat /\ since.dispatched \in Nat
      BY SinceFacts
    <3>3. PICK x \in Nat, y \in Nat, z \in Nat :
             x = since.announced /\ y = Len(dispatched) /\ z = since.dispatched
      BY <3>2
    <3>4. x + (y - z) + 0 + 1 = x + (y - z) + 1
      BY <3>3
    <3>5. q.rec = since.announced + (Len(dispatched) - since.dispatched) + 1
      BY <2>2, <3>1, <3>3, <3>4
    <3> QED BY <1>1, <2>4, <3>5 DEF Count
  <2>7. Agree'
    BY <1>1, <1>2, <1>8 DEF InPlace, Agree
  <2> QED BY <2>5, <2>6, <2>7 DEF InPlace
<1> QED
  BY <1>3, <1>7, <1>8, <1>q DEF Moved

\* The next character of a start tag.
LEMMA StartGoesOn ==
  ASSUME TypeOK, NEW at, Laid(at), pipe # <<>>, NEW m \in 1 .. 8, OnStart(at[0], m),
         pipe[1] = start_rec[m + 1]
  PROVE  OnStart(at[1], m + 1)
<1> DEFINE p == at[0]
           q == at[1]
<1>1. /\ p \in Place /\ q \in Place /\ PlaceOK(p) /\ PlaceOK(q) /\ Holds(q, pipe[1])
      /\ ~AtEnd(p) => q.rec = p.rec /\ q.fld = p.fld /\ q.off = p.off + 1 /\ q.stray = FALSE
  BY HeadPlace
<1>2. p.rec # 0 /\ p.stray = FALSE /\ p.off = m
      /\ (m = 1 => p.fld \in {1, 2, 3, 5, 7}) /\ (m = 2 => p.fld \in {1, 7}) /\ (m >= 3 => p.fld = 1)
  BY DEF OnStart
<1> HIDE DEF p, q
<1>3. Holds(p, FieldAt(p)[p.off])
  BY <1>2 DEF Holds
<1>4. /\ AtEnd(p) <=> p.off = Len(FieldAt(p))
      /\ p.fld = 1 => Len(FieldAt(p)) = 9
      /\ p.fld \in {2, 3, 5} => Len(FieldAt(p)) = 2
      /\ p.fld = 7 => Len(FieldAt(p)) = 7
  BY <1>1, <1>2, <1>3, ByteFacts
<1>5. m = 1 \/ m = 2 \/ m >= 3
  OBVIOUS
<1>6. ~AtEnd(p)
  <2>1. PICK f, l : f = p.fld /\ l = Len(FieldAt(p))
    OBVIOUS
  <2>2. /\ f = 1 => l = 9
        /\ f = 2 => l = 2
        /\ f = 3 => l = 2
        /\ f = 5 => l = 2
        /\ f = 7 => l = 7
    BY <1>4, <2>1
  <2>3. /\ m = 1 => f = 1 \/ f = 2 \/ f = 3 \/ f = 5 \/ f = 7
        /\ m = 2 => f = 1 \/ f = 7
        /\ m >= 3 => f = 1
    BY <1>2, <2>1
  <2>4. m # l
    BY <1>5, <2>2, <2>3
  <2> QED BY <1>2, <1>4, <2>1, <2>4
<1>7. q.rec = p.rec /\ q.fld = p.fld /\ q.off = m + 1 /\ q.stray = FALSE
  BY <1>1, <1>2, <1>6
<1>8. CASE m = 1
  <2>1. q.off = 2 /\ pipe[1] = 37
    BY <1>7, <1>8, TagFacts
  <2>2. q.fld \in {2, 3, 5} => 37 <= 32
    <3>1. q.fld = 2 => 37 <= 32
      BY <1>1, <1>7, <2>1, ByteFacts
    <3>2. q.fld = 3 \/ q.fld = 5 => 37 <= 16
      BY <1>1, <1>7, <2>1, ByteFacts
    <3> QED BY <3>1, <3>2
  <2>3. q.fld \in {1, 7}
    BY <1>2, <1>7, <1>8, <2>2
  <2> QED BY <1>2, <1>7, <1>8, <2>3 DEF OnStart, q
<1>9. CASE m = 2
  <2>1. q.off = 3 /\ pipe[1] = 115
    BY <1>7, <1>9, TagFacts
  <2>2. ASSUME q.fld = 7 PROVE pipe[1] = end_rec[3]
    <3>1. pipe[1] = end_rec[q.off]
      BY <1>1, <1>7, <2>2, EndByte
    <3> QED BY <2>1, <3>1
  <2>3. q.fld = 1
    <3>1. q.fld # 7
      BY <2>1, <2>2, TagFacts
    <3> QED BY <1>2, <1>7, <1>9, <3>1
  <2> QED BY <1>2, <1>7, <1>9, <2>3 DEF OnStart, q
<1>10. CASE m >= 3
  <2>1. m + 1 # 1 /\ m + 1 # 2
    BY <1>10
  <2> QED BY <1>2, <1>7, <1>10, <2>1 DEF OnStart, q
<1> QED
  BY <1>5, <1>8, <1>9, <1>10

LEMMA MatchStartMoves ==
  ASSUME TypeOK, NEW at, NEW mark \in Nat, Here(at, mark), MatchStart
  PROVE  Moved(at, mark)
<1>1. /\ pipe # <<>> /\ pipe' = Tail(pipe) /\ disp = "start"
      /\ UNCHANGED <<announced, valname, need, since, truncated, term, dispatched, history>>
  BY DEF MatchStart, MatchTag, DispAt, history, daemon
<1>2. Laid(at) /\ ReaderAt(at[0], mark) /\ (InStep => InPlace(at[0]))
  BY DEF Here
<1>3. TakesBytes(1) /\ Head(pipe) = pipe[1]
  BY <1>1, TakesOne
<1> DEFINE q == at[1]
<1>4. PICK m \in 1 .. 8 : m = matched /\ OnStart(at[0], m)
  BY <1>1, <1>2 DEF ReaderAt
<1>5. CASE pipe[1] = start_rec[m + 1]
  <2>1. OnStart(q, m + 1)
    BY <1>1, <1>2, <1>4, <1>5, StartGoesOn
  <2>2. OnStart(q, m + 1)'
    BY <2>1 DEF OnStart
  <2>3. /\ m < 8 => disp' = "start" /\ matched' = m + 1
        /\ m = 8 => disp' = "tlen"
    <3>1. m < 8 => m + 1 < Len(start_rec)
      BY TagFacts
    <3>2. m = 8 => ~(m + 1 < Len(start_rec))
      BY TagFacts
    <3>3. Head(pipe) = start_rec[matched + 1]
      BY <1>3, <1>4, <1>5
    <3> QED BY <1>1, <1>4, <3>1, <3>2, <3>3 DEF MatchStart, MatchTag
  <2>4. m < 8 \/ m = 8
    OBVIOUS
  <2>5. mark <= Done(q)'
    BY <1>1, <1>2, HeadPlace, MarkKept DEF ReaderAt
  <2>6. ReaderAt(q, mark)'
    <3>1. CASE m < 8
      <4>1. m + 1 \in 1 .. 8
        BY <3>1
      <4> QED BY <2>2, <2>3, <2>5, <3>1, <4>1 DEF ReaderAt, HoldsName
    <3>2. CASE m = 8
      <4>1. m + 1 = 9
        BY <3>2
      <4> QED BY <2>2, <2>3, <2>5, <3>2, <4>1 DEF ReaderAt, HoldsName
    <3> QED BY <2>4, <3>1, <3>2
  <2>7. ASSUME InStep PROVE InPlace(q)'
    <3>1. at[0].fld = 1 /\ InPlace(at[0])
      BY <1>1, <1>2, <2>7 DEF InPlace, Reading
    <3>2. ~AtEnd(at[0])
      <4>1. at[0].rec # 0 /\ at[0].stray = FALSE /\ at[0].off = m
        BY <1>4 DEF OnStart
      <4>2. at[0] \in Place /\ PlaceOK(at[0])
        BY <1>1, <1>2, HeadPlace
      <4>3. Holds(at[0], FieldAt(at[0])[at[0].off])
        BY <4>1 DEF Holds
      <4>4. Len(FieldAt(at[0])) = 9
        BY <3>1, <4>1, <4>2, <4>3, ByteFacts
      <4>5. m # 9
        OBVIOUS
      <4> QED BY <4>1, <4>4, <4>5 DEF AtEnd
    <3>3. q.rec = at[0].rec /\ q.fld = 1
      BY <1>1, <1>2, <3>1, <3>2, HeadPlace
    <3>4. Idle' <=> Idle
      <4>1. disp' = "start" \/ disp' = "tlen"
        BY <2>3, <2>4, Zenon
      <4>2. ~Idle'
        BY <4>1 DEF Idle
      <4>3. ~Idle
        <5>1. disp = "start"
          BY <1>1
        <5> QED BY <5>1 DEF Idle
      <4> QED BY <4>2, <4>3
    <3>5. Reading(q)'
      BY <2>3, <2>4, <3>3 DEF Reading, HoldsName, Idle
    <3> QED BY <1>1, <3>1, <3>3, <3>4, <3>5, InRecord
  <2> QED BY <1>3, <2>6, <2>7 DEF Moved
<1>6. CASE pipe[1] # start_rec[m + 1]
  <2>1. disp' = "test"
    BY <1>3, <1>4, <1>6 DEF MatchStart, MatchTag
  <2>2. mark <= Done(q)'
    BY <1>1, <1>2, HeadPlace, MarkKept DEF ReaderAt
  <2>3. ReaderAt(q, mark)'
    BY <2>1, <2>2 DEF ReaderAt, HoldsName
  <2>4. ~InStep
    <3> SUFFICES ASSUME InStep PROVE FALSE
      OBVIOUS
    <3>1. at[0].fld = 1
      BY <1>1, <1>2 DEF InPlace, Reading
    <3>2. ~AtEnd(at[0])
      <4>1. at[0].rec # 0 /\ at[0].stray = FALSE /\ at[0].off = m
        BY <1>4 DEF OnStart
      <4>2. at[0] \in Place /\ PlaceOK(at[0])
        BY <1>1, <1>2, HeadPlace
      <4>3. Holds(at[0], FieldAt(at[0])[at[0].off])
        BY <4>1 DEF Holds
      <4>4. Len(FieldAt(at[0])) = 9
        BY <3>1, <4>1, <4>2, <4>3, ByteFacts
      <4>5. m # 9
        OBVIOUS
      <4> QED BY <4>1, <4>4, <4>5 DEF AtEnd
    <3>3. q.fld = 1 /\ q.off = m + 1 /\ q.stray = FALSE /\ q \in Place /\ PlaceOK(q)
          /\ Holds(q, pipe[1])
      <4>1. at[0].off = m
        BY <1>4 DEF OnStart
      <4> QED BY <1>1, <1>2, <3>1, <3>2, <4>1, HeadPlace
    <3>4. PICK b : b = pipe[1]
      OBVIOUS
    <3>5. q \in Place /\ PlaceOK(q) /\ Holds(q, b) /\ q.stray = FALSE /\ q.fld = 1
      BY <3>3, <3>4
    <3>6. b = start_rec[q.off]
      BY <3>5, StartByte
    <3> QED BY <1>6, <3>3, <3>4, <3>6
  <2> QED BY <1>3, <2>3, <2>4 DEF Moved
<1> QED
  BY <1>5, <1>6

\* A field that the dispatcher reads in step.
LEMMA FieldRead ==
  ASSUME TypeOK, NEW at, Laid(at), InStep, AtEnd(at[0]), pipe # <<>>, at[0].fld # 7
  PROVE  \E m \in 1 .. Len(pipe), q \in Place :
           /\ q = at[m] /\ PlaceOK(q) /\ q.rec = at[0].rec /\ q.rec # 0 /\ q.stray = FALSE
           /\ q.fld = at[0].fld + 1 /\ q.off = m /\ m = Len(FieldAt(q)) /\ AtEnd(q)
           /\ \A o \in 1 .. m : pipe[o] = FieldAt(q)[o]
           /\ announced[q.rec] \in Names
<1>1. at[1].stray = FALSE /\ at[1].off = 1 /\ at[1].rec # 0
      /\ at[1].rec = at[0].rec /\ at[1].fld = at[0].fld + 1
  BY HeadInStep
<1>2. PICK m : m = Len(FieldAt(at[1]))
  OBVIOUS
<1>3. /\ m \in Nat \ {0} /\ m <= Len(pipe)
      /\ \A o \in 1 .. m :
           /\ at[o].rec = at[1].rec /\ at[o].fld = at[1].fld /\ at[o].off = o
           /\ at[o].stray = FALSE
           /\ FieldAt(at[o]) = FieldAt(at[1]) /\ pipe[o] = FieldAt(at[1])[o]
  BY <1>1, <1>2, WholeField
<1>4. Len(pipe) \in Nat
  BY PipeEnd
<1>5. m \in 1 .. m /\ m \in 1 .. Len(pipe) /\ m \in 0 .. Len(pipe) /\ m \in Nat
  BY <1>3, <1>4
<1>6. PICK q : q = at[m]
  OBVIOUS
<1>7. q \in Place /\ PlaceOK(q)
  BY <1>5, <1>6 DEF Laid
<1>8. /\ q.rec = at[1].rec /\ q.fld = at[1].fld /\ q.off = m /\ q.stray = FALSE
      /\ FieldAt(q) = FieldAt(at[1])
  BY <1>3, <1>5, <1>6
<1>9. AtEnd(q)
  BY <1>2, <1>8 DEF AtEnd
<1>10. announced[q.rec] \in Names
  BY <1>1, <1>7, <1>8, FieldAtFacts DEF PlaceOK
<1>11. \A o \in 1 .. m : pipe[o] = FieldAt(q)[o]
  BY <1>3, <1>8
<1> QED
  BY <1>1, <1>2, <1>5, <1>6, <1>7, <1>8, <1>9, <1>10, <1>11

\* In step the rest of a record is there, or still being written.
LEMMA TwoRead ==
  ASSUME TypeOK, NEW at, Laid(at), InStep, AtEnd(at[0]), pipe # <<>>, at[0].fld \in {1, 2, 4}
  PROVE  LET q == at[2]
         IN /\ Len(pipe) >= 2 /\ q \in Place /\ PlaceOK(q)
            /\ q.rec = at[0].rec /\ q.rec # 0 /\ q.stray = FALSE
            /\ q.fld = at[0].fld + 1 /\ q.off = 2 /\ AtEnd(q)
            /\ announced[q.rec] \in Names
            /\ q.fld = 3 => pipe[1] + 256 * pipe[2] = Len(Text(announced[q.rec]))
            /\ q.fld = 5 => pipe[1] + 256 * pipe[2] = Len(Layer)
<1>1. at[0].fld # 7
  <2>1. \A f \in {1, 2, 4} : f # 7
    OBVIOUS
  <2> QED BY <2>1
<1>2. PICK m \in 1 .. Len(pipe), q \in Place :
           /\ q = at[m] /\ PlaceOK(q) /\ q.rec = at[0].rec /\ q.rec # 0 /\ q.stray = FALSE
           /\ q.fld = at[0].fld + 1 /\ q.off = m /\ m = Len(FieldAt(q)) /\ AtEnd(q)
           /\ \A o \in 1 .. m : pipe[o] = FieldAt(q)[o]
           /\ announced[q.rec] \in Names
  BY <1>1, FieldRead
<1>3. Holds(q, FieldAt(q)[q.off])
  BY <1>2 DEF Holds
<1>4. /\ q.fld = 2 => Len(FieldAt(q)) = 2
      /\ q.fld = 3 => /\ Len(FieldAt(q)) = 2
                      /\ FieldAt(q)[1] + 256 * FieldAt(q)[2] = Len(Text(announced[q.rec]))
      /\ q.fld = 5 => /\ Len(FieldAt(q)) = 2
                      /\ FieldAt(q)[1] + 256 * FieldAt(q)[2] = Len(Layer)
  BY <1>2, <1>3, ByteFacts
<1>5. q.fld = 2 \/ q.fld = 3 \/ q.fld = 5
  BY <1>2
<1>6. m = 2
  BY <1>2, <1>4, <1>5
<1>7. pipe[1] = FieldAt(q)[1] /\ pipe[2] = FieldAt(q)[2] /\ Len(pipe) >= 2
  <2>1. 1 \in 1 .. 2 /\ 2 \in 1 .. 2
    OBVIOUS
  <2>2. Len(pipe) >= 2
    <3>1. Len(pipe) \in Nat
      BY PipeEnd
    <3> QED BY <1>2, <1>6, <3>1
  <2> QED BY <1>2, <1>6, <2>1, <2>2
<1> QED
  BY <1>2, <1>4, <1>6, <1>7

\* The dispatcher keeps the name it has read, or starts again.
LEMMA NameKept ==
  ASSUME TypeOK, NEW at, Laid(at), NEW mark \in Nat, ReaderAt(at[0], mark),
         HoldsName, UNCHANGED <<announced, valname>>, NEW g \in 0 .. Len(pipe),
         HoldsName' \/ Idle'
  PROVE  ReaderAt(at[g], mark)'
<1>1. mark <= Done(at[0]) /\ ReadName(at[0], mark)
  BY DEF ReaderAt
<1>2. mark <= Done(at[g])' /\ ReadName(at[g], mark)'
  BY <1>1, MarkKept
<1>3. disp' # "start" /\ disp' # "tlen" /\ disp' # "vlen" /\ disp' # "name"
  BY DEF HoldsName, Idle
<1> QED
  BY <1>2, <1>3 DEF ReaderAt

\* The dispatcher starts again.
LEMMA StartsAgain ==
  ASSUME TypeOK, NEW at, Laid(at), NEW mark \in Nat, ReaderAt(at[0], mark),
         UNCHANGED announced, NEW g \in 0 .. Len(pipe), Idle'
  PROVE  ReaderAt(at[g], mark)'
<1>1. mark <= Done(at[g])'
  BY MarkKept DEF ReaderAt
<1>2. disp' # "start" /\ disp' # "tlen" /\ disp' # "vlen" /\ disp' # "name" /\ ~HoldsName'
  BY DEF HoldsName, Idle
<1> QED
  BY <1>1, <1>2 DEF ReaderAt

\* Where the dispatcher is two bytes on, when it reads a length.
LEMMA TwoBytes ==
  ASSUME TypeOK, NEW at, Laid(at), pipe # <<>>, Len(pipe) >= 2
  PROVE  /\ at[0] \in Place /\ at[1] \in Place /\ at[2] \in Place
         /\ PlaceOK(at[0]) /\ PlaceOK(at[1]) /\ PlaceOK(at[2])
         /\ Holds(at[1], pipe[1]) /\ Holds(at[2], pipe[2])
         /\ 2 \in 0 .. Len(pipe)
         /\ IF AtEnd(at[0]) THEN Succ(at[0], at[1])
            ELSE at[1].rec = at[0].rec /\ at[1].fld = at[0].fld
                 /\ at[1].off = at[0].off + 1 /\ at[1].stray = FALSE
         /\ IF AtEnd(at[1]) THEN Succ(at[1], at[2])
            ELSE at[2].rec = at[1].rec /\ at[2].fld = at[1].fld
                 /\ at[2].off = at[1].off + 1 /\ at[2].stray = FALSE
BY HeadPlace, SecondPlace

\* The length of a field.
LEMMA LengthOf ==
  ASSUME TypeOK, NEW q \in Place, PlaceOK(q), q.rec # 0
  PROVE  /\ q.off \in Nat \ {0} /\ q.off <= Len(FieldAt(q)) /\ Len(FieldAt(q)) \in Nat
         /\ AtEnd(q) <=> q.off = Len(FieldAt(q))
         /\ q.fld = 1 => Len(FieldAt(q)) = 9
         /\ q.fld = 2 => Len(FieldAt(q)) = 2
         /\ q.fld = 3 => Len(FieldAt(q)) = 2
         /\ q.fld = 5 => Len(FieldAt(q)) = 2
         /\ q.fld = 7 => Len(FieldAt(q)) = 7
<1>1. q.rec <= Len(announced) /\ q.off \in 1 .. Len(FieldAt(q))
  BY DEF PlaceOK
<1>2. announced[q.rec] \in Names /\ Len(FieldAt(q)) \in Nat \ {0}
  BY <1>1, FieldAtFacts
<1>3. AtEnd(q) <=> q.off = Len(FieldAt(q))
  BY DEF AtEnd
<1> QED
  BY <1>1, <1>2, <1>3, FieldLengths DEF FieldAt

\* The total length.
LEMMA ReadTlenMoves ==
  ASSUME TypeOK, NEW at, NEW mark \in Nat, Here(at, mark), ReadTlen
  PROVE  Moved(at, mark)
<1>1. /\ pipe # <<>> /\ disp = "tlen" /\ Take(2)
      /\ UNCHANGED <<announced, valname, need, since, truncated, term, dispatched, history>>
      /\ Len(pipe) >= 2 => disp' = "vlen"
      /\ ~(Len(pipe) >= 2) => disp' = "test"
  BY DEF ReadTlen, DispAt, history, daemon
<1>2. Laid(at) /\ ReaderAt(at[0], mark) /\ (InStep => InPlace(at[0]))
  BY DEF Here
<1>q. PICK p : p = at[0]
  OBVIOUS
<1>3. OnStart(p, 9)
  BY <1>1, <1>2, <1>q DEF ReaderAt
<1>4. p.rec # 0 /\ p.stray = FALSE /\ p.fld = 1 /\ p.off = 9
  <2>1. 9 >= 3
    OBVIOUS
  <2> QED BY <1>3, <2>1 DEF OnStart
<1>5. p \in Place /\ PlaceOK(p) /\ 0 \in 0 .. Len(pipe) - 1
  BY <1>1, <1>2, <1>q, HeadPlace
<1>6. AtEnd(p)
  BY <1>4, <1>5, LengthOf
<1>7. ASSUME InStep
      PROVE  Len(pipe) >= 2 /\ InPlace(p) /\ at[2].rec = p.rec /\ at[2].fld = 2 /\ AtEnd(at[2])
  <2>1. p.fld \in {1, 2, 4}
    BY <1>4
  <2>2. InPlace(p)
    BY <1>2, <1>7, <1>q
  <2>3. /\ Len(pipe) >= 2 /\ at[2].rec = at[0].rec /\ at[2].fld = at[0].fld + 1
        /\ AtEnd(at[2])
    BY <1>1, <1>2, <1>6, <1>7, <1>q, <2>1, TwoRead
  <2> QED BY <1>4, <1>q, <2>2, <2>3
<1>8. CASE TakesBytes(1) /\ Len(pipe) = 1
  <2>1. ~(Len(pipe) >= 2)
    BY <1>8
  <2>2. Idle'
    BY <1>1, <2>1 DEF Idle
  <2>3. 1 \in 0 .. Len(pipe)
    BY <1>1, <1>2, HeadPlace
  <2>4. ReaderAt(at[1], mark)'
    BY <1>1, <1>2, <2>2, <2>3, StartsAgain
  <2>5. ~InStep
    BY <1>7, <2>1
  <2> QED BY <1>8, <2>4, <2>5 DEF Moved
<1>9. CASE TakesBytes(2) /\ Len(pipe) >= 2
  <2>1. PICK q, r : q = at[1] /\ r = at[2]
    OBVIOUS
  <2>2. /\ q \in Place /\ r \in Place /\ PlaceOK(q) /\ PlaceOK(r) /\ Succ(p, q)
        /\ 2 \in 0 .. Len(pipe)
        /\ IF AtEnd(q) THEN Succ(q, r)
           ELSE r.rec = q.rec /\ r.fld = q.fld /\ r.off = q.off + 1 /\ r.stray = FALSE
    BY <1>1, <1>2, <1>6, <1>9, <1>q, <2>1, TwoBytes
  <2>3. /\ q.rec \in Nat /\ r.rec \in Nat /\ q.stray \in BOOLEAN /\ r.stray \in BOOLEAN
        /\ p.rec \in Nat /\ p.rec # 0
    BY <1>4, <1>5, <2>2, PlaceTypes
  <2>4. OnTlen(r)
    <3>1. CASE q.stray
      <4>1. q.rec = p.rec /\ q.fld = 1
        BY <1>4, <2>2, <3>1 DEF Succ
      <4>2. Succ(q, r)
        BY <2>2, <3>1 DEF PlaceOK
      <4>3. r.stray = FALSE /\ r.off = 1 /\ r.rec # 0 /\ (r.fld = 2 \/ r.fld = 1)
        BY <2>3, <3>1, <4>1, <4>2 DEF Succ
      <4> QED BY <4>3 DEF OnTlen
    <3>2. CASE ~q.stray
      <4>1. q.off = 1 /\ q.rec # 0 /\ (q.fld = 2 \/ q.fld = 1)
        BY <1>4, <2>2, <2>3, <3>2 DEF Succ
      <4>2. ~AtEnd(q)
        <5>1. Len(FieldAt(q)) # 1 /\ (AtEnd(q) <=> q.off = Len(FieldAt(q)))
          <6>1. /\ AtEnd(q) <=> q.off = Len(FieldAt(q))
                /\ q.fld = 1 => Len(FieldAt(q)) = 9
                /\ q.fld = 2 => Len(FieldAt(q)) = 2
            BY <2>2, <4>1, LengthOf
          <6> QED BY <4>1, <6>1
        <5> QED BY <4>1, <5>1
      <4>3. r.rec = q.rec /\ r.fld = q.fld /\ r.off = 2 /\ r.stray = FALSE
        BY <2>2, <4>1, <4>2
      <4> QED BY <4>1, <4>3 DEF OnTlen
    <3> QED BY <3>1, <3>2
  <2>5. disp' = "vlen"
    BY <1>1, <1>9
  <2>6. mark <= Done(r)'
    BY <1>1, <1>2, <2>1, <2>2, MarkKept DEF ReaderAt
  <2>7. ReaderAt(r, mark)'
    BY <2>4, <2>5, <2>6 DEF ReaderAt, HoldsName, OnTlen
  <2>8. ASSUME InStep PROVE InPlace(r)'
    <3>1. InPlace(p) /\ r.rec = p.rec /\ r.fld = 2 /\ AtEnd(r)
      BY <1>7, <2>1, <2>8
    <3>2. AtEnd(r)'
      BY <1>1, <3>1 DEF AtEnd, FieldAt
    <3>3. Idle' <=> Idle
      <4>1. ~Idle'
        BY <2>5 DEF Idle
      <4>2. disp = "tlen"
        BY <1>1
      <4>3. ~Idle
        BY <4>2 DEF Idle
      <4> QED BY <4>1, <4>3
    <3>4. Reading(r)'
      BY <2>5, <3>1, <3>2 DEF Reading, HoldsName, Idle
    <3> QED BY <1>1, <3>1, <3>3, <3>4, InRecord
  <2> QED BY <1>9, <2>1, <2>7, <2>8 DEF Moved
<1> QED
  BY <1>1, <1>8, <1>9, TakesTwo

\* What two bytes amount to.
Amount == pipe[1] + 256 * pipe[2]

\* Only where the length of a name was written, or its second byte at least, is there
\* something small enough for one.
LEMMA VlenPlace ==
  ASSUME TypeOK, NEW at, Laid(at), pipe # <<>>, Len(pipe) >= 2, OnTlen(at[0]),
         pipe[1] \in Byte, pipe[2] \in Byte, Amount <= FILENAME_MAX
  PROVE  /\ at[2].rec # 0 /\ at[2].stray = FALSE /\ at[2].fld = 3
         /\ \/ at[2].off = 1
            \/ /\ at[2].off = 2
               /\ Amount = Len(Text(announced[at[2].rec]))
<1>1. pipe[2] \in Nat /\ pipe[2] <= 16
  <2>a. \A x : x \in Byte => x \in Nat
    BY DEF Byte
  <2>0. pipe[1] \in Nat /\ pipe[2] \in Nat
    BY <2>a
  <2>1. PICK x \in Nat, y \in Nat : x = pipe[1] /\ y = pipe[2] /\ x + 256 * y <= 4096
    BY <2>0 DEF Amount, FILENAME_MAX
  <2>2. y <= 16
    BY <2>1
  <2> QED BY <2>1, <2>2
<1>2. PICK p, q, r : p = at[0] /\ q = at[1] /\ r = at[2]
  OBVIOUS
<1>3. /\ p \in Place /\ q \in Place /\ r \in Place
      /\ PlaceOK(p) /\ PlaceOK(q) /\ PlaceOK(r)
      /\ Holds(q, pipe[1]) /\ Holds(r, pipe[2])
  BY <1>2, TwoBytes
<1>4. /\ AtEnd(p) => Succ(p, q)
      /\ ~AtEnd(p) => q.rec = p.rec /\ q.fld = p.fld /\ q.off = p.off + 1 /\ q.stray = FALSE
      /\ AtEnd(q) => Succ(q, r)
      /\ ~AtEnd(q) => r.rec = q.rec /\ r.fld = q.fld /\ r.off = q.off + 1 /\ r.stray = FALSE
  BY <1>2, TwoBytes
<1>5. p.rec # 0 /\ p.stray = FALSE /\ p.fld \in {1, 2} /\ p.off \in {1, 2}
  BY <1>2 DEF OnTlen
<1>6. /\ p.rec \in Nat /\ q.rec \in Nat /\ r.rec \in Nat
      /\ q.stray \in BOOLEAN /\ r.stray \in BOOLEAN
  BY <1>3, PlaceTypes
<1>7. r.stray = FALSE
  <2>1. pipe[2] # 32
    BY <1>1
  <2> QED BY <1>3, <2>1, NotStray
<1>8. r.rec # 0 /\ r.fld # 1 /\ r.fld # 7
  <2>1. PICK b : b = pipe[2]
    OBVIOUS
  <2>2. Holds(r, b)
    BY <1>3, <2>1
  <2>3. r.rec # 0 /\ r.off \in 1 .. Len(FieldAt(r))
    BY <1>3, <1>7, <2>2, ByteFacts
  <2>4. ASSUME r.fld = 1 PROVE FALSE
    <3>1. b = start_rec[r.off] /\ Len(FieldAt(r)) = 9
      BY <1>3, <1>7, <2>2, <2>4, StartByte
    <3>2. \A o \in 1 .. 9 : ~(start_rec[o] <= 16)
      <4>1. \A o \in 1 .. 9 : \/ o = 1 \/ o = 2 \/ o = 3 \/ o = 4 \/ o = 5 \/ o = 6 \/ o = 7
                              \/ o = 8 \/ o = 9
        OBVIOUS
      <4>2. /\ ~(start_rec[1] <= 16) /\ ~(start_rec[2] <= 16) /\ ~(start_rec[3] <= 16)
            /\ ~(start_rec[4] <= 16) /\ ~(start_rec[5] <= 16) /\ ~(start_rec[6] <= 16)
            /\ ~(start_rec[7] <= 16) /\ ~(start_rec[8] <= 16) /\ ~(start_rec[9] <= 16)
        BY TagFacts
      <4> QED BY <4>1, <4>2
    <3> QED BY <1>1, <2>1, <2>3, <3>1, <3>2
  <2>5. ASSUME r.fld = 7 PROVE FALSE
    <3>1. b = end_rec[r.off] /\ Len(FieldAt(r)) = 7
      BY <1>3, <1>7, <2>2, <2>5, EndByte
    <3>2. \A o \in 1 .. 7 : ~(end_rec[o] <= 16)
      <4>1. \A o \in 1 .. 7 : \/ o = 1 \/ o = 2 \/ o = 3 \/ o = 4 \/ o = 5 \/ o = 6 \/ o = 7
        OBVIOUS
      <4>2. /\ ~(end_rec[1] <= 16) /\ ~(end_rec[2] <= 16) /\ ~(end_rec[3] <= 16)
            /\ ~(end_rec[4] <= 16) /\ ~(end_rec[5] <= 16) /\ ~(end_rec[6] <= 16)
            /\ ~(end_rec[7] <= 16)
        BY TagFacts
      <4> QED BY <4>1, <4>2
    <3> QED BY <1>1, <2>1, <2>3, <3>1, <3>2
  <2> QED BY <2>3, <2>4, <2>5
<1>9. ASSUME NEW s \in Place, PlaceOK(s), s.rec # 0
      PROVE  /\ s.fld = 1 => (AtEnd(s) <=> s.off = 9)
             /\ s.fld = 2 => (AtEnd(s) <=> s.off = 2)
             /\ s.fld = 3 => (AtEnd(s) <=> s.off = 2)
  BY <1>9, LengthOf
<1>10. CASE p.fld = 1
  <2>1. ~AtEnd(p)
    <3>1. AtEnd(p) <=> p.off = 9
      BY <1>3, <1>5, <1>9, <1>10
    <3> QED BY <1>5, <3>1
  <2>2. q.rec = p.rec /\ q.fld = 1 /\ q.off # 9
    <3>1. p.off + 1 # 9
      BY <1>5
    <3> QED BY <1>4, <1>10, <2>1, <3>1
  <2>3. ~AtEnd(q)
    BY <1>3, <1>5, <1>9, <2>2
  <2> QED BY <1>4, <1>8, <2>2, <2>3
<1>11. CASE p.fld = 2 /\ p.off = 1
  <2>1. ~AtEnd(p)
    <3>1. AtEnd(p) <=> p.off = 2
      BY <1>3, <1>5, <1>9, <1>11
    <3> QED BY <1>11, <3>1
  <2>2. q.rec = p.rec /\ q.fld = 2 /\ q.off = 2
    BY <1>4, <1>11, <2>1
  <2>3. AtEnd(q)
    BY <1>3, <1>5, <1>9, <2>2
  <2>4. r.fld = 3 /\ r.off = 1
    BY <1>4, <1>7, <1>8, <2>2, <2>3 DEF Succ
  <2> QED BY <1>2, <1>7, <1>8, <2>4
<1>12. CASE p.fld = 2 /\ p.off = 2
  <2>1. Succ(p, q)
    BY <1>3, <1>4, <1>5, <1>9, <1>12
  <2>2. CASE q.stray
    <3>1. q.rec = p.rec /\ q.fld = 2
      BY <1>12, <2>1, <2>2 DEF Succ
    <3>2. AtEnd(q)
      BY <1>3, <2>2 DEF PlaceOK
    <3>3. r.fld = 3 /\ r.off = 1
      BY <1>4, <1>7, <1>8, <3>1, <3>2 DEF Succ
    <3> QED BY <1>2, <1>7, <1>8, <3>3
  <2>3. CASE ~q.stray /\ q.fld = 1
    <3>1. q.off = 1 /\ q.rec # 0
      BY <1>5, <1>6, <1>12, <2>1, <2>3 DEF Succ
    <3>2. ~AtEnd(q)
      <4>1. AtEnd(q) <=> q.off = 9
        BY <1>3, <1>9, <2>3, <3>1
      <4> QED BY <3>1, <4>1
    <3> QED BY <1>4, <1>8, <2>3, <3>2
  <2>4. CASE ~q.stray /\ q.fld # 1
    <3>1. q.off = 1 /\ q.rec # 0 /\ q.fld = 3
      BY <1>5, <1>6, <1>12, <2>1, <2>4 DEF Succ
    <3>2. ~AtEnd(q)
      <4>1. AtEnd(q) <=> q.off = 2
        BY <1>3, <1>9, <3>1
      <4> QED BY <3>1, <4>1
    <3>3. r.rec = q.rec /\ r.fld = 3 /\ r.off = 2
      BY <1>4, <3>1, <3>2
    <3>4. FieldAt(r) = FieldAt(q)
      BY <3>1, <3>3 DEF FieldAt
    <3>5. pipe[1] = FieldAt(r)[1]
      <4>1. q.stray = FALSE
        BY <1>6, <2>4
      <4> QED BY <1>3, <3>1, <3>4, <4>1 DEF Holds
    <3>6. pipe[2] = FieldAt(r)[2]
      BY <1>3, <1>7, <3>3 DEF Holds
    <3>7. FieldAt(r)[1] + 256 * FieldAt(r)[2] = Len(Text(announced[r.rec]))
      BY <1>3, <1>7, <3>3, ByteFacts
    <3>8. Amount = Len(Text(announced[r.rec]))
      BY <3>5, <3>6, <3>7 DEF Amount
    <3> QED BY <1>2, <1>7, <1>8, <3>3, <3>8
  <2> QED BY <2>2, <2>3, <2>4
<1> QED
  BY <1>5, <1>10, <1>11, <1>12

\* The length of the name.
LEMMA ReadVlenMoves ==
  ASSUME TypeOK, NEW at, NEW mark \in Nat, Here(at, mark), ReadVlen
  PROVE  Moved(at, mark)
<1>a. PICK ok \in BOOLEAN : ok <=> (Len(pipe) >= 2 /\ Amount <= FILENAME_MAX)
  OBVIOUS
<1>1. /\ pipe # <<>> /\ disp = "vlen" /\ Take(2)
      /\ UNCHANGED <<announced, valname, since, truncated, term, dispatched, history>>
      /\ ok => disp' = "name" /\ need' = Amount
      /\ ~ok => disp' = "test"
  BY <1>a DEF ReadVlen, ReadLength, DispAt, history, daemon, Amount
<1>2. Laid(at) /\ ReaderAt(at[0], mark) /\ (InStep => InPlace(at[0]))
  BY DEF Here
<1>q. PICK p, r : p = at[0] /\ r = at[2]
  OBVIOUS
<1>3. OnTlen(p)
  BY <1>1, <1>2, <1>q DEF ReaderAt
<1>4. ASSUME InStep
      PROVE  /\ Len(pipe) >= 2 /\ ok /\ InPlace(p) /\ r.rec = p.rec /\ r.fld = 3 /\ AtEnd(r)
  <2>1. InPlace(p)
    BY <1>2, <1>4, <1>q
  <2>2. p.fld = 2 /\ AtEnd(p)
    BY <1>1, <2>1 DEF InPlace, Reading
  <2>3. p.fld \in {1, 2, 4}
    BY <2>2
  <2>4. /\ Len(pipe) >= 2 /\ r.rec = p.rec /\ r.fld = p.fld + 1 /\ AtEnd(r)
        /\ announced[r.rec] \in Names
        /\ r.fld = 3 => pipe[1] + 256 * pipe[2] = Len(Text(announced[r.rec]))
    BY <1>1, <1>2, <1>4, <1>q, <2>2, <2>3, TwoRead
  <2>5. r.fld = 3
    BY <2>2, <2>4
  <2>6. Len(Text(announced[r.rec])) <= FILENAME_MAX
    BY <2>4, TextFacts
  <2>7. Amount = Len(Text(announced[r.rec]))
    BY <2>4, <2>5 DEF Amount
  <2>8. Amount <= FILENAME_MAX
    BY <2>6, <2>7, Zenon
  <2> QED BY <1>a, <2>1, <2>4, <2>5, <2>8, Zenon
<1>5. ASSUME ~ok, NEW g \in 0 .. Len(pipe), TakesBytes(g)
      PROVE  Moved(at, mark)
  <2>1. Idle'
    BY <1>1, <1>5 DEF Idle
  <2>2. ReaderAt(at[g], mark)'
    BY <1>1, <1>2, <2>1, StartsAgain
  <2>3. ~InStep
    BY <1>4, <1>5
  <2> QED BY <1>5, <2>2, <2>3 DEF Moved
<1>6. CASE TakesBytes(1) /\ Len(pipe) = 1
  <2>1. ~(Len(pipe) >= 2)
    BY <1>6
  <2>2. ~ok /\ 1 \in 0 .. Len(pipe)
    BY <1>1, <1>2, <1>a, <2>1, HeadPlace
  <2> QED BY <1>5, <1>6, <2>2
<1>7. CASE TakesBytes(2) /\ Len(pipe) >= 2 /\ pipe[1] \in Byte /\ pipe[2] \in Byte
  <2>1. 2 \in 0 .. Len(pipe)
    BY <1>1, <1>2, <1>7, TwoBytes
  <2>2. CASE ~ok
    BY <1>5, <1>7, <2>1, <2>2
  <2>3. CASE ok
    <3>1. Amount <= FILENAME_MAX
      BY <1>a, <2>3
    <3>2. /\ r.rec # 0 /\ r.stray = FALSE /\ r.fld = 3
          /\ r.off = 1 \/ (r.off = 2 /\ Amount = Len(Text(announced[r.rec])))
      BY <1>1, <1>2, <1>3, <1>7, <1>a, <1>q, <3>1, VlenPlace
    <3>3. disp' = "name" /\ need' = Amount
      BY <1>1, <2>3
    <3>4. OnVlen(r)'
      BY <1>1, <3>2, <3>3 DEF OnVlen
    <3>5. mark <= Done(r)'
      BY <1>1, <1>2, <1>q, <2>1, MarkKept DEF ReaderAt
    <3>6. ReaderAt(r, mark)'
      BY <3>3, <3>4, <3>5 DEF ReaderAt, HoldsName
    <3>7. ASSUME InStep PROVE InPlace(r)'
      <4>1. InPlace(p) /\ r.rec = p.rec /\ AtEnd(r)
        BY <1>4, <3>7
      <4>2. AtEnd(r)'
        BY <1>1, <4>1 DEF AtEnd, FieldAt
      <4>3. disp = "vlen"
        BY <1>1
      <4>4. ~Idle'
        BY <3>3 DEF Idle
      <4>5. ~Idle
        BY <4>3 DEF Idle
      <4>6. Reading(r)'
        BY <3>3, <4>2 DEF Reading, HoldsName, Idle
      <4> QED BY <1>1, <4>1, <4>4, <4>5, <4>6, InRecord
    <3> QED BY <1>7, <1>q, <3>6, <3>7 DEF Moved
  <2> QED BY <2>2, <2>3
<1> QED
  BY <1>1, <1>6, <1>7, TakesTwo

\* What is taken for a name begins with a printable character only where a name was
\* written.
LEMMA NamePlace ==
  ASSUME TypeOK, NEW at, Laid(at), pipe # <<>>, OnVlen(at[0]), pipe[1] \in Printable
  PROVE  /\ at[1].rec = at[0].rec /\ at[1].rec # 0 /\ at[1].stray = FALSE
         /\ at[1].fld = 4 /\ at[1].off = 1 /\ at[0].fld = 3
         /\ need = Len(Text(announced[at[1].rec]))
<1>1. PICK b : b = pipe[1]
  OBVIOUS
<1>2. b # 60 /\ b # 32 /\ ~(b \in Nat /\ b <= 16)
  <2>1. \A x \in Printable : x # 60 /\ x # 32 /\ ~(x \in Nat /\ x <= 16)
    BY DEF Printable
  <2> QED BY <1>1, <2>1
<1>3. PICK p, q : p = at[0] /\ q = at[1]
  OBVIOUS
<1>4. /\ p \in Place /\ q \in Place /\ PlaceOK(p) /\ PlaceOK(q) /\ Holds(q, b)
      /\ AtEnd(p) => Succ(p, q)
      /\ ~AtEnd(p) => q.rec = p.rec /\ q.fld = p.fld /\ q.off = p.off + 1 /\ q.stray = FALSE
  BY <1>1, <1>3, HeadPlace
<1>5. /\ p.rec # 0 /\ p.stray = FALSE /\ p.fld = 3
      /\ p.off = 1 \/ (p.off = 2 /\ need = Len(Text(announced[p.rec])))
  BY <1>3 DEF OnVlen
<1>6. AtEnd(p) <=> p.off = 2
  BY <1>4, <1>5, LengthOf
<1>7. q.stray = FALSE
  BY <1>2, <1>4, NotStray
<1>8. CASE p.off = 1
  <2>1. q.fld = 3 /\ q.off = 2
    BY <1>4, <1>5, <1>6, <1>8
  <2>2. b \in Nat /\ b <= 16
    BY <1>4, <1>7, <2>1, ByteFacts
  <2> QED BY <1>2, <2>2
<1>9. CASE p.off # 1
  <2>1. p.off = 2 /\ need = Len(Text(announced[p.rec]))
    BY <1>5, <1>9
  <2>2. Succ(p, q)
    BY <1>4, <1>6, <2>1
  <2>3. q.fld # 1
    <3> SUFFICES ASSUME q.fld = 1 PROVE FALSE
      OBVIOUS
    <3>1. q.off = 1
      BY <1>5, <1>7, <2>2 DEF Succ
    <3>2. b = start_rec[q.off]
      BY <1>4, <1>7, StartByte
    <3> QED BY <1>2, <3>1, <3>2, TagFacts
  <2>4. q.rec = p.rec /\ q.fld = 4 /\ q.off = 1
    BY <1>5, <1>7, <2>2, <2>3 DEF Succ
  <2> QED BY <1>3, <1>5, <1>7, <2>1, <2>4
<1> QED
  BY <1>8, <1>9

\* A name that lies at the head of the pipe, and is read.
LEMMA NameRead ==
  ASSUME TypeOK, NEW at, Laid(at), pipe # <<>>, at[1].stray = FALSE, at[1].fld = 4,
         at[1].off = 1, need = Len(Text(announced[at[1].rec])),
         NEW g \in 0 .. Len(pipe), g <= need, g = need \/ g = Len(pipe),
         NEW s \in Seq(Byte), Len(s) = g, \A i \in 1 .. g : s[i] = pipe[i]
  PROVE  /\ g = need /\ g \in Nat \ {0} /\ announced[at[1].rec] \in Names
         /\ s = Text(announced[at[1].rec])
         /\ at[g].rec = at[1].rec /\ at[g].fld = 4 /\ AtEnd(at[g])
<1>1. PICK q : q = at[1]
  OBVIOUS
<1>2. q \in Place /\ PlaceOK(q) /\ Holds(q, pipe[1])
  BY <1>1, HeadPlace
<1>3. announced[q.rec] \in Names /\ FieldAt(q) = Text(announced[q.rec])
  <2>1. PICK b : b = pipe[1]
    OBVIOUS
  <2>2. Holds(q, b) /\ q.stray = FALSE /\ q.fld = 4
    BY <1>1, <1>2, <2>1
  <2> QED BY <1>2, <2>2, ByteFacts
<1>4. PICK m : m = Len(FieldAt(q))
  OBVIOUS
<1>5. /\ m \in Nat \ {0} /\ m <= Len(pipe)
      /\ \A o \in 1 .. m :
           /\ at[o].rec = q.rec /\ at[o].fld = q.fld /\ at[o].off = o
           /\ FieldAt(at[o]) = FieldAt(q) /\ pipe[o] = FieldAt(q)[o]
  BY <1>1, <1>4, WholeField
<1>6. need = m
  BY <1>1, <1>3, <1>4
<1>7. g = m
  <2>1. PICK L \in Nat : L = Len(pipe)
    BY PipeEnd
  <2>2. m <= L /\ g <= m /\ (g = m \/ g = L) /\ g \in 0 .. L
    BY <1>5, <1>6, <2>1
  <2> QED BY <1>5, <2>1, <2>2
<1>8. s = Text(announced[q.rec])
  <2>1. PICK t : t = Text(announced[q.rec])
    OBVIOUS
  <2>2. t \in Seq(Byte) /\ Len(t) = m
    BY <1>3, <1>4, <2>1, TextFacts
  <2>3. \A i \in 1 .. m : s[i] = t[i]
    BY <1>3, <1>5, <1>7, <2>1
  <2> HIDE DEF Byte
  <2>4. s = t
    BY <1>7, <2>2, <2>3, SeqEqual
  <2> QED BY <2>1, <2>4
<1>9. m \in 1 .. m
  BY <1>5
<1>10. at[g].rec = q.rec /\ at[g].fld = 4 /\ AtEnd(at[g])
  BY <1>1, <1>4, <1>5, <1>7, <1>9 DEF AtEnd
<1> QED
  BY <1>1, <1>3, <1>5, <1>6, <1>7, <1>8, <1>10

\* The name.
LEMMA ReadTheNameMoves ==
  ASSUME TypeOK, NEW at, NEW mark \in Nat, Here(at, mark), ReadTheName
  PROVE  Moved(at, mark)
<1>1. /\ disp = "name"
      /\ UNCHANGED <<announced, need, since, truncated, term, dispatched, history>>
  BY DEF ReadTheName, ReadText, DispAt, history, daemon
<1>2. Laid(at) /\ ReaderAt(at[0], mark) /\ (InStep => InPlace(at[0]))
  BY DEF Here
<1>3. PICK g \in 0 .. Len(pipe) :
         /\ TakesBytes(g) /\ g <= need /\ (g = need \/ g = Len(pipe))
         /\ g = need => disp' = "llen"
         /\ g # need => disp' = "test"
         /\ valname' \in Seq(Byte) /\ Len(valname') = g
         /\ \A i \in 1 .. g : valname'[i] = pipe[i]
         /\ pipe # <<>> \/ need = 0
  BY TakesText DEF ReadTheName
<1>4. OnVlen(at[0]) /\ mark <= Done(at[0])
  BY <1>1, <1>2 DEF ReaderAt
<1>5. mark <= Done(at[g])'
  BY <1>1, <1>2, <1>4, MarkKept
<1>6. ASSUME g = need PROVE ReadName(at[g], mark)'
  <2> SUFFICES ASSUME NEW n \in Names, CString(valname') = Spelling[n]
               PROVE  \E k \in 1 .. Len(announced') :
                        mark < k /\ k <= Done(at[g])' /\ announced'[k] = n
    BY DEF ReadName
  <2>1. Len(valname') \in Nat \ {0} /\ valname'[1] \in Printable
    BY <1>3, NameBegins
  <2>2. 1 \in 1 .. g /\ g # 0
    BY <1>3, <2>1
  <2>3. pipe[1] \in Printable
    BY <1>3, <2>1, <2>2
  <2>4. pipe # <<>>
    BY <1>3, <1>6, <2>2
  <2>5. /\ at[1].rec = at[0].rec /\ at[1].rec # 0 /\ at[1].stray = FALSE
        /\ at[1].fld = 4 /\ at[1].off = 1 /\ at[0].fld = 3
        /\ need = Len(Text(announced[at[1].rec]))
    BY <1>2, <1>4, <2>3, <2>4, NamePlace
  <2>6. PICK k : k = at[1].rec
    OBVIOUS
  <2>7. /\ announced[k] \in Names /\ valname' = Text(announced[k])
        /\ at[g].rec = k /\ at[g].fld = 4 /\ AtEnd(at[g])
    <3>1. PICK s \in Seq(Byte) : s = valname' /\ Len(s) = g /\ \A i \in 1 .. g : s[i] = pipe[i]
      BY <1>3
    <3>2. /\ announced[k] \in Names /\ s = Text(announced[k])
          /\ at[g].rec = k /\ at[g].fld = 4 /\ AtEnd(at[g])
      BY <1>2, <1>3, <2>4, <2>5, <2>6, <3>1, NameRead
    <3> QED BY <3>1, <3>2
  <2>8. announced[k] = n
    BY <2>7, NameOfText
  <2>9. Done(at[g])' = k
    BY <1>1, <2>7 DEF Done, AtEnd, FieldAt
  <2>10. at[0] \in Place /\ at[1] \in Place /\ PlaceOK(at[1])
    BY <1>2, <2>4, HeadPlace
  <2>11. k \in 1 .. Len(announced)
    BY <2>5, <2>6, <2>10, FieldAtFacts DEF PlaceOK
  <2>12. mark < k /\ k <= k
    <3>1. k \in Nat
      BY <2>6, <2>10, PlaceTypes
    <3>2. Done(at[0]) = k - 1
      <4>1. ~(3 > 4) /\ 3 # 4
        OBVIOUS
      <4> QED BY <2>5, <2>6, <4>1 DEF Done
    <3>3. mark <= k - 1
      BY <1>4, <3>2
    <3> QED BY <3>1, <3>3
  <2> QED BY <1>1, <2>8, <2>9, <2>11, <2>12
<1>7. ReaderAt(at[g], mark)'
  <2>1. CASE g = need
    BY <1>3, <1>5, <1>6, <2>1 DEF ReaderAt, HoldsName
  <2>2. CASE g # need
    BY <1>3, <1>5, <2>2 DEF ReaderAt, HoldsName
  <2> QED BY <2>1, <2>2
<1>8. ASSUME InStep PROVE InPlace(at[g])'
  <2>1. InPlace(at[0])
    BY <1>2, <1>8
  <2>2. AtEnd(at[0]) /\ at[0].fld = 3 /\ at[0].rec # 0 /\ at[0] \in Place /\ PlaceOK(at[0])
    <3>1. 0 \in 0 .. Len(pipe)
      <4>1. Len(pipe) \in Nat
        BY <1>2, PipeEnd
      <4> QED BY <4>1
    <3>2. at[0] \in Place /\ PlaceOK(at[0])
      BY <1>2, <3>1 DEF Laid
    <3> QED BY <1>1, <1>4, <2>1, <3>2 DEF InPlace, Reading, OnVlen
  <2>3. at[0].off = 2
    BY <2>2, LengthOf
  <2>4. need = Len(Text(announced[at[0].rec])) /\ announced[at[0].rec] \in Names
    <3>1. need = Len(Text(announced[at[0].rec]))
      <4>1. at[0].off # 1
        BY <2>3
      <4> QED BY <1>4, <4>1 DEF OnVlen
    <3> QED BY <2>2, <3>1, FieldAtFacts DEF PlaceOK
  <2>5. need # 0
    BY <2>4, TextFacts
  <2>6. pipe # <<>>
    BY <1>3, <2>5
  <2>7. /\ at[1].stray = FALSE /\ at[1].off = 1 /\ at[1].rec = at[0].rec
        /\ at[1].fld = 4
    <3>1. at[0].fld # 7 /\ 3 + 1 = 4
      BY <2>2
    <3> QED BY <1>2, <1>8, <2>2, <2>6, <3>1, HeadInStep
  <2>8. PICK k : k = at[1].rec
    OBVIOUS
  <2>9. /\ g = need /\ valname' = Text(announced[k])
        /\ at[g].rec = k /\ at[g].fld = 4 /\ AtEnd(at[g])
    <3>1. PICK s \in Seq(Byte) : s = valname' /\ Len(s) = g /\ \A i \in 1 .. g : s[i] = pipe[i]
      BY <1>3
    <3>2. need = Len(Text(announced[at[1].rec]))
      BY <2>4, <2>7
    <3>3. /\ g = need /\ s = Text(announced[at[1].rec])
          /\ at[g].rec = at[1].rec /\ at[g].fld = 4 /\ AtEnd(at[g])
      BY <1>2, <1>3, <2>6, <2>7, <3>1, <3>2, NameRead
    <3> QED BY <2>8, <3>1, <3>3
  <2>10. disp' = "llen"
    BY <1>3, <2>9
  <2>11. AtEnd(at[g])'
    BY <1>1, <2>9 DEF AtEnd, FieldAt
  <2>12. ~Idle'
    BY <2>10 DEF Idle
  <2>13. ~Idle
    BY <1>1 DEF Idle
  <2>14. Reading(at[g])'
    BY <1>1, <2>9, <2>10, <2>11 DEF Reading, HoldsName, Idle
  <2> QED BY <1>1, <2>1, <2>7, <2>8, <2>9, <2>12, <2>13, <2>14, InRecord
<1> QED
  BY <1>3, <1>7, <1>8 DEF Moved

\* The length of the layer.
LEMMA ReadLlenMoves ==
  ASSUME TypeOK, NEW at, NEW mark \in Nat, Here(at, mark), ReadLlen
  PROVE  Moved(at, mark)
<1>a. PICK ok \in BOOLEAN : ok <=> (Len(pipe) >= 2 /\ Amount <= FILENAME_MAX)
  OBVIOUS
<1>1. /\ pipe # <<>> /\ disp = "llen" /\ Take(2)
      /\ UNCHANGED <<announced, valname, since, truncated, term, dispatched, history>>
      /\ ok => disp' = "layer" /\ need' = Amount
      /\ ~ok => disp' = "test"
  BY <1>a DEF ReadLlen, ReadLength, DispAt, history, daemon, Amount
<1>2. Laid(at) /\ ReaderAt(at[0], mark) /\ (InStep => InPlace(at[0]))
  BY DEF Here
<1>3. HoldsName /\ ~Idle /\ (HoldsName' \/ Idle')
  BY <1>1 DEF HoldsName, Idle
<1>4. ASSUME InStep
      PROVE  /\ Len(pipe) >= 2 /\ ok /\ InPlace(at[0]) /\ at[2].rec = at[0].rec /\ at[2].fld = 5
             /\ AtEnd(at[2]) /\ Amount = Len(Layer)
  <2>1. InPlace(at[0])
    BY <1>2, <1>4
  <2>2. at[0].fld = 4 /\ AtEnd(at[0])
    BY <1>1, <2>1 DEF InPlace, Reading
  <2>3. at[0].fld \in {1, 2, 4}
    BY <2>2
  <2>4. /\ Len(pipe) >= 2 /\ at[2].rec = at[0].rec /\ at[2].fld = at[0].fld + 1 /\ AtEnd(at[2])
        /\ at[2].fld = 5 => pipe[1] + 256 * pipe[2] = Len(Layer)
    BY <1>1, <1>2, <1>4, <2>2, <2>3, TwoRead
  <2>5. at[2].fld = 5
    BY <2>2, <2>4
  <2>6. Len(Layer) <= FILENAME_MAX
    BY LayerFacts
  <2>7. Amount = Len(Layer)
    BY <2>4, <2>5 DEF Amount
  <2>8. Amount <= FILENAME_MAX
    BY <2>6, <2>7, Zenon
  <2> QED BY <1>a, <2>1, <2>4, <2>5, <2>7, <2>8, Zenon
<1>5. ASSUME NEW g \in 0 .. Len(pipe)
      PROVE  ReaderAt(at[g], mark)'
  BY <1>1, <1>2, <1>3, NameKept
<1>6. CASE TakesBytes(1) /\ Len(pipe) = 1
  <2>1. ~(Len(pipe) >= 2)
    BY <1>6
  <2>2. 1 \in 0 .. Len(pipe)
    BY <1>1, <1>2, HeadPlace
  <2>3. ~InStep
    BY <1>4, <2>1
  <2> QED BY <1>5, <1>6, <2>2, <2>3 DEF Moved
<1>7. CASE TakesBytes(2) /\ Len(pipe) >= 2
  <2>1. 2 \in 0 .. Len(pipe)
    BY <1>1, <1>2, <1>7, TwoBytes
  <2>2. ASSUME InStep PROVE InPlace(at[2])'
    <3>1. /\ InPlace(at[0]) /\ at[2].rec = at[0].rec /\ at[2].fld = 5 /\ AtEnd(at[2])
          /\ disp' = "layer" /\ need' = Len(Layer)
      BY <1>1, <1>4, <2>2
    <3>2. AtEnd(at[2])'
      BY <1>1, <3>1 DEF AtEnd, FieldAt
    <3>3. ~Idle'
      BY <3>1 DEF Idle
    <3>4. valname = Text(announced[at[0].rec])
      BY <1>3, <3>1 DEF InPlace, Reading
    <3>5. Reading(at[2])'
      BY <1>1, <3>1, <3>2, <3>4 DEF Reading, HoldsName, Idle
    <3> QED BY <1>1, <1>3, <3>1, <3>3, <3>5, InRecord
  <2> QED BY <1>5, <1>7, <2>1, <2>2 DEF Moved
<1> QED
  BY <1>1, <1>6, <1>7, TakesTwo

\* The layer.
LEMMA ReadLayerMoves ==
  ASSUME TypeOK, NEW at, NEW mark \in Nat, Here(at, mark), ReadLayer
  PROVE  Moved(at, mark)
<1>1. /\ disp = "layer"
      /\ UNCHANGED <<announced, valname, need, since, truncated, term, dispatched, history>>
  BY DEF ReadLayer, ReadText, DispAt, history, daemon
<1>2. Laid(at) /\ ReaderAt(at[0], mark) /\ (InStep => InPlace(at[0]))
  BY DEF Here
<1>3. PICK g \in 0 .. Len(pipe) :
         /\ TakesBytes(g) /\ g <= need /\ (g = need \/ g = Len(pipe))
         /\ g = need => disp' = "seek end"
         /\ g # need => disp' = "test"
         /\ pipe # <<>> \/ need = 0
  BY TakesText DEF ReadLayer
<1>4. HoldsName /\ ~Idle
  BY <1>1 DEF HoldsName, Idle
<1>5. HoldsName' \/ Idle'
  <2>1. disp' = "seek end" \/ disp' = "test"
    BY <1>3
  <2> QED BY <2>1 DEF HoldsName, Idle
<1>6. ReaderAt(at[g], mark)'
  BY <1>1, <1>2, <1>4, <1>5, NameKept
<1>7. ASSUME InStep PROVE InPlace(at[g])'
  <2>1. InPlace(at[0])
    BY <1>2, <1>7
  <2>2. at[0].fld = 5 /\ AtEnd(at[0]) /\ need = Len(Layer)
        /\ valname = Text(announced[at[0].rec])
    BY <1>1, <1>4, <2>1 DEF InPlace, Reading
  <2>3. need # 0
    BY <2>2, LayerFacts
  <2>4. pipe # <<>>
    BY <1>3, <2>3
  <2>a. at[0].fld # 7 /\ at[0].fld + 1 = 6
    BY <2>2
  <2>5. PICK m \in 1 .. Len(pipe), q \in Place :
           /\ q = at[m] /\ PlaceOK(q) /\ q.rec = at[0].rec /\ q.rec # 0 /\ q.stray = FALSE
           /\ q.fld = 6 /\ q.off = m /\ m = Len(FieldAt(q)) /\ AtEnd(q)
           /\ announced[q.rec] \in Names
    <3>1. PICK m \in 1 .. Len(pipe), q \in Place :
             /\ q = at[m] /\ PlaceOK(q) /\ q.rec = at[0].rec /\ q.rec # 0 /\ q.stray = FALSE
             /\ q.fld = at[0].fld + 1 /\ q.off = m /\ m = Len(FieldAt(q)) /\ AtEnd(q)
             /\ announced[q.rec] \in Names
      BY <1>2, <1>7, <2>2, <2>4, <2>a, FieldRead
    <3>2. q.fld = 6
      BY <2>a, <3>1
    <3> QED BY <3>1, <3>2
  <2>6. m = need
    BY <2>2, <2>5, FieldFacts DEF FieldAt
  <2>7. g = m
    <3>1. PICK L \in Nat : L = Len(pipe)
      BY <1>2, PipeEnd
    <3>2. g <= m /\ (g = m \/ g = L)
      BY <1>3, <2>6, <3>1
    <3>3. m \in 1 .. L /\ g \in 0 .. L
      BY <3>1
    <3> QED BY <3>2, <3>3
  <2>8. disp' = "seek end"
    BY <1>3, <2>6, <2>7
  <2>9. AtEnd(at[g])'
    BY <1>1, <2>5, <2>7 DEF AtEnd, FieldAt
  <2>10. ~Idle'
    BY <2>8 DEF Idle
  <2>11. Reading(at[g])'
    BY <1>1, <2>2, <2>5, <2>7, <2>8, <2>9 DEF Reading, HoldsName, Idle
  <2>12. at[g].rec = at[0].rec
    BY <2>5, <2>7
  <2> QED BY <1>1, <1>4, <2>1, <2>10, <2>11, <2>12, InRecord
<1> QED
  BY <1>3, <1>6, <1>7 DEF Moved

\* The search for an end tag.
LEMMA SeekEndMoves ==
  ASSUME TypeOK, NEW at, NEW mark \in Nat, Here(at, mark), SeekEnd
  PROVE  Moved(at, mark)
<1>1. /\ pipe # <<>> /\ pipe' = Tail(pipe) /\ disp = "seek end"
      /\ UNCHANGED <<announced, valname, need, since, truncated, term, dispatched, history>>
      /\ Head(pipe) = 60 => disp' = "end" /\ matched' = 1
      /\ Head(pipe) # 60 => disp' = "seek end"
  BY TagFacts DEF SeekEnd, SeekTag, DispAt, history, daemon
<1>2. Laid(at) /\ ReaderAt(at[0], mark) /\ (InStep => InPlace(at[0]))
  BY DEF Here
<1>3. TakesBytes(1) /\ Head(pipe) = pipe[1]
  BY <1>1, TakesOne
<1>q. PICK p, q : p = at[0] /\ q = at[1]
  OBVIOUS
<1>4. HoldsName /\ ~Idle
  BY <1>1 DEF HoldsName, Idle
<1>5. HoldsName' /\ ~Idle'
  <2>1. disp' = "seek end" \/ disp' = "end"
    BY <1>1
  <2> QED BY <2>1 DEF HoldsName, Idle
<1>6. 1 \in 0 .. Len(pipe) /\ q \in Place /\ PlaceOK(q) /\ Holds(q, pipe[1])
  BY <1>1, <1>2, <1>q, HeadPlace
<1>7. ReaderAt(q, mark)'
  BY <1>1, <1>2, <1>4, <1>5, <1>6, <1>q, NameKept
<1>8. ASSUME InStep PROVE InPlace(q)'
  <2>1. InPlace(p)
    BY <1>2, <1>8, <1>q
  <2>2. p.fld = 6 /\ AtEnd(p) /\ valname = Text(announced[p.rec])
    BY <1>1, <1>4, <2>1 DEF InPlace, Reading
  <2>3. q.stray = FALSE /\ q.off = 1 /\ q.rec = p.rec /\ q.fld = 7
    <3>1. p.fld # 7 /\ 6 + 1 = 7
      BY <2>2
    <3>2. /\ at[1].stray = FALSE /\ at[1].off = 1
          /\ at[0].fld # 7 => at[1].rec = at[0].rec /\ at[1].fld = at[0].fld + 1
      BY <1>1, <1>2, <1>8, <1>q, <2>2, HeadInStep
    <3> QED BY <1>q, <2>2, <3>1, <3>2
  <2>4. pipe[1] = 60
    <3>1. PICK b : b = pipe[1]
      OBVIOUS
    <3>2. q \in Place /\ PlaceOK(q) /\ Holds(q, b)
      BY <1>6, <3>1
    <3>3. q.stray = FALSE /\ q.fld = 7
      BY <2>3
    <3>4. b = end_rec[q.off]
      BY <3>2, <3>3, EndByte
    <3> QED BY <2>3, <3>1, <3>4, TagFacts
  <2>5. disp' = "end" /\ matched' = 1
    BY <1>1, <1>3, <2>4
  <2>6. 1 \in 1 .. 6
    OBVIOUS
  <2>7. Reading(q)'
    BY <1>1, <2>2, <2>3, <2>5, <2>6 DEF Reading, HoldsName, Idle
  <2> QED BY <1>1, <1>4, <1>5, <2>1, <2>3, <2>7, InRecord
<1> QED
  BY <1>3, <1>7, <1>8, <1>q DEF Moved

\* The next character of an end tag.
LEMMA MatchEndMoves ==
  ASSUME TypeOK, NEW at, NEW mark \in Nat, Here(at, mark), MatchEnd
  PROVE  Moved(at, mark)
<1>1. /\ pipe # <<>> /\ pipe' = Tail(pipe) /\ disp = "end"
      /\ UNCHANGED <<announced, valname, need, since, truncated, term, dispatched, history>>
      /\ disp' = "end" \/ disp' = "send" \/ disp' = "test"
  BY DEF MatchEnd, MatchTag, DispAt, history, daemon
<1>2. Laid(at) /\ ReaderAt(at[0], mark) /\ (InStep => InPlace(at[0]))
  BY DEF Here
<1>3. TakesBytes(1) /\ Head(pipe) = pipe[1]
  BY <1>1, TakesOne
<1>q. PICK p, q : p = at[0] /\ q = at[1]
  OBVIOUS
<1>4. HoldsName /\ ~Idle
  BY <1>1 DEF HoldsName, Idle
<1>5. HoldsName' \/ Idle'
  BY <1>1 DEF HoldsName, Idle
<1>6. /\ 1 \in 0 .. Len(pipe) /\ p \in Place /\ PlaceOK(p)
      /\ q \in Place /\ PlaceOK(q) /\ Holds(q, pipe[1])
  BY <1>1, <1>2, <1>q, HeadPlace
<1>7. ReaderAt(q, mark)'
  BY <1>1, <1>2, <1>4, <1>5, <1>6, <1>q, NameKept
<1>8. ASSUME InStep PROVE InPlace(q)'
  <2>1. InPlace(p)
    BY <1>2, <1>8, <1>q
  <2>2. PICK m \in 1 .. 6 : m = matched /\ p.off = m /\ p.fld = 7
    BY <1>1, <2>1 DEF InPlace, Reading
  <2>3. valname = Text(announced[p.rec])
    BY <1>4, <2>1 DEF InPlace, Reading
  <2>4. p.rec # 0
    <3>1. p.rec = since.announced + (Len(dispatched) - since.dispatched) + 1
      BY <1>4, <2>1 DEF InPlace, Count
    <3>2. /\ since.announced \in Nat /\ Len(dispatched) \in Nat /\ since.dispatched \in Nat
          /\ since.dispatched <= Len(dispatched)
      BY SinceFacts
    <3>3. PICK x \in Nat, y \in Nat, z \in Nat :
             x = since.announced /\ y = Len(dispatched) /\ z = since.dispatched
      BY <3>2
    <3>4. z <= y => x + (y - z) + 1 # 0
      BY <3>3
    <3> QED BY <3>1, <3>2, <3>3, <3>4
  <2>5. ~AtEnd(p)
    <3>1. (AtEnd(p) <=> p.off = Len(FieldAt(p))) /\ Len(FieldAt(p)) = 7
      BY <1>6, <2>2, <2>4, LengthOf
    <3>2. m # 7
      OBVIOUS
    <3> QED BY <2>2, <3>1, <3>2
  <2>6. q.rec = p.rec /\ q.fld = 7 /\ q.off = m + 1 /\ q.stray = FALSE
    BY <1>1, <1>2, <1>q, <2>2, <2>5, HeadPlace
  <2>7. Head(pipe) = end_rec[matched + 1]
    <3>1. PICK b : b = pipe[1]
      OBVIOUS
    <3>2. q \in Place /\ PlaceOK(q) /\ Holds(q, b)
      BY <1>6, <3>1
    <3>3. b = end_rec[q.off]
      BY <2>6, <3>2, EndByte
    <3> QED BY <1>3, <2>2, <2>6, <3>1, <3>3
  <2>8. /\ m < 6 => disp' = "end" /\ matched' = m + 1
        /\ m = 6 => disp' = "send"
    <3>1. m < 6 => m + 1 < Len(end_rec)
      BY TagFacts
    <3>2. m = 6 => ~(m + 1 < Len(end_rec))
      BY TagFacts
    <3>3. m = matched
      BY <2>2
    <3>4. /\ matched + 1 < Len(end_rec) => disp' = "end" /\ matched' = matched + 1
          /\ ~(matched + 1 < Len(end_rec)) => disp' = "send"
      BY <1>1, <2>7 DEF MatchEnd, MatchTag
    <3> QED BY <3>1, <3>2, <3>3, <3>4
  <2>9. m < 6 \/ m = 6
    OBVIOUS
  <2>10. CASE m < 6
    <3>1. m + 1 \in 1 .. 6
      BY <2>10
    <3>2. disp' = "end" /\ matched' = m + 1
      BY <2>8, <2>10
    <3>3. ~Idle'
      BY <3>2 DEF Idle
    <3>4. Reading(q)'
      BY <1>1, <2>3, <2>6, <3>1, <3>2 DEF Reading, HoldsName, Idle
    <3> QED BY <1>1, <1>4, <2>1, <2>6, <3>3, <3>4, InRecord
  <2>11. CASE m = 6
    <3>1. disp' = "send"
      BY <2>8, <2>11
    <3>2. ~Idle'
      BY <3>1 DEF Idle
    <3>3. AtEnd(q)
      <4>1. AtEnd(q) <=> q.off = 7
        BY <1>6, <2>4, <2>6, LengthOf
      <4> QED BY <2>6, <2>11, <4>1
    <3>4. AtEnd(q)'
      BY <1>1, <3>3 DEF AtEnd, FieldAt
    <3>5. Reading(q)'
      BY <1>1, <2>3, <2>6, <3>1, <3>4 DEF Reading, HoldsName, Idle
    <3> QED BY <1>1, <1>4, <2>1, <2>6, <3>2, <3>5, InRecord
  <2> QED BY <2>9, <2>10, <2>11
<1> QED
  BY <1>3, <1>7, <1>8, <1>q DEF Moved

\* The test of the loop.
LEMMA TestMoves ==
  ASSUME TypeOK, NEW at, NEW mark \in Nat, Here(at, mark), TestRunFlag
  PROVE  Moved(at, mark)
<1>1. /\ disp = "test" /\ pipe' = pipe
      /\ UNCHANGED <<announced, valname, need, since, truncated, term, dispatched, history>>
      /\ disp' = "seek start" \/ disp' = "exited"
  BY DEF TestRunFlag, DispAt, history, daemon
<1>2. Laid(at) /\ ReaderAt(at[0], mark) /\ (InStep => InPlace(at[0]))
  BY DEF Here
<1>3. pipe \in Seq(Byte)
  BY DEF TypeOK
<1>4. PICK L \in Nat : L = Len(pipe)
  BY <1>2, PipeEnd
<1>5. 0 \in 0 .. L /\ L - 0 = L /\ \A i \in 1 .. L : i + 0 = i
  BY <1>4
<1>6. TakesBytes(0)
  <2> HIDE DEF Byte
  <2> QED BY <1>1, <1>3, <1>4, <1>5 DEF TakesBytes
<1>7. Idle /\ Idle'
  BY <1>1 DEF Idle
<1>8. ReaderAt(at[0], mark)'
  BY <1>1, <1>2, <1>4, <1>5, <1>7, StartsAgain
<1>9. ASSUME InStep PROVE InPlace(at[0])'
  <2>1. InPlace(at[0]) /\ at[0].fld = 7 /\ AtEnd(at[0])
    BY <1>2, <1>7, <1>9 DEF InPlace, Reading
  <2>2. AtEnd(at[0])'
    BY <1>1, <2>1 DEF AtEnd, FieldAt
  <2>3. Reading(at[0])'
    BY <1>1, <2>1, <2>2 DEF Reading, HoldsName
  <2> QED BY <1>1, <1>7, <2>1, <2>3, InRecord
<1> QED
  BY <1>6, <1>8, <1>9 DEF Moved

-----------------------------------------------------------------------------
(***************************************************************************)
(* The order in which changes are dispatched.  The mark is the last change *)
(* that was dispatched; the dispatcher is behind its name.                 *)
(***************************************************************************)

\* What has been dispatched and signalled belongs to changes up to the mark.
UpTo(mark) ==
  /\ InOrder(dispatched, {i \in DOMAIN dispatched : dispatched[i] # Garbage}, announced, 1 .. mark)
  /\ \A c \in Clients \ AnyPattern :
       InOrder(signals[c], DOMAIN signals[c],
               announced, {k \in 1 .. mark : announced[k] \in Interest[c]})

\* Elements that are in order stay so in longer sequences.
LEMMA InOrderKept ==
  ASSUME NEW s, NEW I, NEW t, NEW J, InOrder(s, I, t, J), NEW s2, NEW t2, NEW J2,
         \A i \in I : s2[i] = s[i], \A k \in J : t2[k] = t[k], J \subseteq J2
  PROVE  InOrder(s2, I, t2, J2)
<1>1. PICK f \in [I -> J] : (\A i, j \in I : i < j => f[i] < f[j]) /\ \A i \in I : s[i] = t[f[i]]
  BY DEF InOrder
<1>2. f \in [I -> J2] /\ \A i \in I : s2[i] = t2[f[i]]
  BY <1>1
<1> QED
  BY <1>1, <1>2 DEF InOrder

\* One more element, found after all the others.
LEMMA InOrderMore ==
  ASSUME NEW s, NEW I, NEW t, NEW m \in Nat, NEW J \in SUBSET (1 .. m), InOrder(s, I, t, J),
         NEW s2, NEW p \in Nat, I \subseteq 1 .. p - 1, \A i \in I : s2[i] = s[i],
         NEW k \in Nat, m < k, s2[p] = t[k], NEW J2, J \cup {k} \subseteq J2
  PROVE  InOrder(s2, I \cup {p}, t, J2)
<1>1. PICK f \in [I -> J] : (\A i, j \in I : i < j => f[i] < f[j]) /\ \A i \in I : s[i] = t[f[i]]
  BY DEF InOrder
<1> DEFINE g == [i \in I \cup {p} |-> IF i = p THEN k ELSE f[i]]
<1>2. p \notin I /\ \A i \in I : i < p /\ i \in Nat /\ ~(p < i)
  OBVIOUS
<1>3. g[p] = k /\ \A i \in I : g[i] = f[i] /\ f[i] \in J
  BY <1>1, <1>2
<1>4. \A i \in I : f[i] < k
  <2> SUFFICES ASSUME NEW i \in I PROVE f[i] < k
    OBVIOUS
  <2>1. f[i] \in 1 .. m
    BY <1>1
  <2> QED BY <2>1
<1>5. g \in [I \cup {p} -> J2]
  BY <1>1, <1>2
<1>6. ~(p < p)
  OBVIOUS
<1> HIDE DEF g
<1>7. \A i, j \in I \cup {p} : i < j => g[i] < g[j]
  BY <1>1, <1>2, <1>3, <1>4, <1>6
<1>8. \A i \in I \cup {p} : s2[i] = t[g[i]]
  BY <1>1, <1>3
<1> QED
  BY <1>5, <1>7, <1>8 DEF InOrder

\* What was dispatched and signalled stays in order while only changes are added.
LEMMA UpToKept ==
  ASSUME NEW mark \in Nat, UpTo(mark), UNCHANGED <<dispatched, signals>>,
         \A k \in 1 .. mark : announced'[k] = announced[k]
  PROVE  UpTo(mark)'
<1>1. InOrder(dispatched, {i \in DOMAIN dispatched : dispatched[i] # Garbage}, announced, 1 .. mark)
  BY DEF UpTo
<1>2. InOrder(dispatched', {i \in DOMAIN dispatched : dispatched[i] # Garbage}, announced', 1 .. mark)
  BY <1>1, InOrderKept
<1>3. ASSUME NEW c \in Clients \ AnyPattern
      PROVE  InOrder(signals'[c], DOMAIN signals'[c],
                     announced', {k \in 1 .. mark : announced'[k] \in Interest[c]})
  <2>1. InOrder(signals[c], DOMAIN signals[c],
                announced, {k \in 1 .. mark : announced[k] \in Interest[c]})
    BY DEF UpTo
  <2>2. {k \in 1 .. mark : announced[k] \in Interest[c]}
          \subseteq {k \in 1 .. mark : announced'[k] \in Interest[c]}
    OBVIOUS
  <2> QED BY <2>1, <2>2, InOrderKept
<1> QED
  BY <1>2, <1>3 DEF UpTo

\* The dispatcher sends notifications: the mark moves to the change whose name
\* it has read, if that is a name.
LEMMA SendInOrder ==
  ASSUME TypeOK, NEW p, NEW mark \in Nat, UpTo(mark), ReaderAt(p, mark), SendNotifications
  PROVE  \E k \in Nat : UpTo(k)' /\ k <= Done(p)
<1> DEFINE n == NameOf(valname)
           d == Len(dispatched)
           I == {i \in DOMAIN dispatched : dispatched[i] # Garbage}
<1>1. /\ dispatched' \in Seq(Names \cup {Garbage}) /\ Len(dispatched') = d + 1
      /\ dispatched'[d + 1] = n
      /\ \A k \in 1 .. d : dispatched'[k] = dispatched[k]
      /\ signals' \in [Clients -> Seq(Names \cup {Garbage})]
      /\ \A c \in Clients :
           IF c \in Matching(n)
           THEN /\ Len(signals'[c]) = Len(signals[c]) + 1
                /\ signals'[c][Len(signals[c]) + 1] = n
                /\ \A k \in 1 .. Len(signals[c]) : signals'[c][k] = signals[c][k]
           ELSE signals'[c] = signals[c]
      /\ HoldsName
      /\ UNCHANGED <<announced, valname>>
  BY SendStep DEF HoldsName
<1>3. mark <= Done(p) /\ ReadName(p, mark)
  BY <1>1 DEF ReaderAt
<1>4. dispatched \in Seq(Names \cup {Garbage}) /\ d \in Nat /\ DOMAIN dispatched = 1 .. d
      /\ DOMAIN dispatched' = 1 .. d + 1
  <2>1. dispatched \in Seq(Names \cup {Garbage})
    BY DEF TypeOK
  <2> QED BY <1>1, <2>1
<1>7. signals \in [Clients -> Seq(Names \cup {Garbage})]
  BY DEF TypeOK
<1>8. /\ n \in Names \cup {Garbage} /\ Garbage \notin Names
      /\ n \in Names => Spelling[n] = CString(valname)
  BY NameOfFacts, ConstantsAssumption
<1>i. I = {i \in 1 .. d : dispatched[i] # Garbage}
  BY <1>4
<1>i2. {i \in DOMAIN dispatched' : dispatched'[i] # Garbage}
         = IF n = Garbage THEN I ELSE I \cup {d + 1}
  <2> DEFINE I2 == {i \in 1 .. d + 1 : dispatched'[i] # Garbage}
  <2>1. {i \in DOMAIN dispatched' : dispatched'[i] # Garbage} = I2
    BY <1>4
  <2>2. \A i : i \in 1 .. d + 1 <=> i \in 1 .. d \/ i = d + 1
    BY <1>4
  <2>3. \A i \in 1 .. d : i \in I2 <=> i \in I
    BY <1>1, <1>i, <2>2
  <2>4. d + 1 \in I2 <=> n # Garbage
    BY <1>1, <2>2
  <2>5. d + 1 \notin I /\ I \subseteq 1 .. d /\ I2 \subseteq 1 .. d + 1
    BY <1>4, <1>i
  <2> HIDE DEF I, I2, d, n
  <2> QED BY <2>1, <2>2, <2>3, <2>4, <2>5
<1>9. /\ InOrder(dispatched, I, announced, 1 .. mark)
      /\ \A c \in Clients \ AnyPattern :
           InOrder(signals[c], DOMAIN signals[c],
                   announced, {k \in 1 .. mark : announced[k] \in Interest[c]})
  BY DEF UpTo
<1>10. \A c \in Clients \ AnyPattern : c \in Matching(n) => n \in Interest[c] /\ Interest[c] \subseteq Names
  BY ConstantsAssumption DEF Matching
<1>11. CASE n = Garbage
  <2>2. InOrder(dispatched', I, announced', 1 .. mark)
    <3>1. \A i \in I : dispatched'[i] = dispatched[i]
      BY <1>1, <1>i
    <3> HIDE DEF I
    <3> QED BY <1>1, <1>9, <3>1, InOrderKept
  <2>3. ASSUME NEW c \in Clients \ AnyPattern
        PROVE  InOrder(signals'[c], DOMAIN signals'[c],
                       announced', {k \in 1 .. mark : announced'[k] \in Interest[c]})
    <3>1. c \notin Matching(n)
      BY <1>8, <1>10, <1>11
    <3>2. signals'[c] = signals[c]
      BY <1>1, <3>1
    <3> QED BY <1>1, <1>9, <3>2
  <2>4. UpTo(mark)'
    BY <1>i2, <1>11, <2>2, <2>3 DEF UpTo
  <2> QED BY <1>3, <2>4
<1>12. CASE n # Garbage
  <2>0. n \in Names /\ Spelling[n] = CString(valname)
    BY <1>8, <1>12
  <2>1. PICK k \in 1 .. Len(announced) : mark < k /\ k <= Done(p) /\ announced[k] = n
    BY <1>3, <2>0 DEF ReadName
  <2> HIDE DEF n, d, I
  <2>2. k \in Nat
    <3>1. Len(announced) \in Nat
      BY SinceFacts
    <3> QED BY <3>1
  <2>4. InOrder(dispatched', I \cup {d + 1}, announced', 1 .. k)
    <3>1. \A i \in I : dispatched'[i] = dispatched[i]
      BY <1>1, <1>i
    <3>2. d + 1 \in Nat /\ I \subseteq 1 .. (d + 1) - 1
      BY <1>4, <1>i
    <3>3. dispatched'[d + 1] = announced[k]
      BY <1>1, <2>1
    <3>4. 1 .. mark \in SUBSET (1 .. mark) /\ (1 .. mark) \cup {k} \subseteq 1 .. k
      <4>1. \A i \in 1 .. mark : i \in 1 .. k
        BY <2>1, <2>2
      <4>2. k \in 1 .. k
        BY <2>1, <2>2
      <4> QED BY <4>1, <4>2
    <3>5. InOrder(dispatched', I \cup {d + 1}, announced, 1 .. k)
      BY <1>9, <2>1, <2>2, <3>1, <3>2, <3>3, <3>4, InOrderMore
    <3> QED BY <1>1, <3>5
  <2>5. ASSUME NEW c \in Clients \ AnyPattern
        PROVE  InOrder(signals'[c], DOMAIN signals'[c],
                       announced', {l \in 1 .. k : announced'[l] \in Interest[c]})
    <3> DEFINE J == {l \in 1 .. mark : announced[l] \in Interest[c]}
               J2 == {l \in 1 .. k : announced[l] \in Interest[c]}
               s == signals[c]
    <3>0. J \subseteq J2 /\ J \in SUBSET (1 .. mark)
      <4>1. \A i \in 1 .. mark : i \in 1 .. k
        BY <2>1, <2>2
      <4> QED BY <4>1
    <3>1. InOrder(s, DOMAIN s, announced, J)
      BY <1>9
    <3>2. CASE c \in Matching(n)
      <4>1. s \in Seq(Names \cup {Garbage}) /\ signals'[c] \in Seq(Names \cup {Garbage})
        BY <1>1, <1>7
      <4>2. Len(s) \in Nat /\ DOMAIN s = 1 .. Len(s)
        BY <4>1
      <4>3. Len(signals'[c]) = Len(s) + 1 /\ signals'[c][Len(s) + 1] = n
            /\ \A i \in 1 .. Len(s) : signals'[c][i] = s[i]
        BY <1>1, <3>2
      <4>4. DOMAIN signals'[c] = DOMAIN s \cup {Len(s) + 1}
        <5>1. DOMAIN signals'[c] = 1 .. Len(s) + 1
          BY <4>1, <4>3
        <5> HIDE DEF s
        <5>2. 1 .. Len(s) + 1 = (1 .. Len(s)) \cup {Len(s) + 1}
          BY <4>2
        <5> QED BY <4>2, <5>1, <5>2
      <4>5. J \cup {k} \subseteq J2
        <5>1. k \in 1 .. k
          BY <2>1, <2>2
        <5> QED BY <1>10, <2>1, <3>0, <3>2, <5>1
      <4> HIDE DEF s, J, J2
      <4>6. Len(s) + 1 \in Nat /\ DOMAIN s \subseteq 1 .. (Len(s) + 1) - 1
        BY <4>2
      <4>7. signals'[c][Len(s) + 1] = announced[k]
        BY <2>1, <4>3
      <4>8. \A i \in DOMAIN s : signals'[c][i] = s[i]
        BY <4>2, <4>3
      <4>9. InOrder(signals'[c], DOMAIN s \cup {Len(s) + 1}, announced, J2)
        BY <2>1, <2>2, <3>0, <3>1, <4>5, <4>6, <4>7, <4>8, InOrderMore
      <4> QED BY <1>1, <4>4, <4>9 DEF J2
    <3>3. CASE c \notin Matching(n)
      <4>1. signals'[c] = s
        BY <1>1, <3>3
      <4>2. InOrder(s, DOMAIN s, announced, J2)
        <5> HIDE DEF s, J, J2
        <5> QED BY <3>0, <3>1, InOrderKept
      <4> QED BY <1>1, <4>1, <4>2
    <3> QED BY <3>2, <3>3
  <2>6. UpTo(k)'
    BY <1>i2, <1>12, <2>4, <2>5 DEF UpTo
  <2> QED BY <2>1, <2>2, <2>6
<1> QED
  BY <1>11, <1>12

\* In step, it is the name of the record the dispatcher is behind.
LEMMA SendInStep ==
  ASSUME TypeOK, NEW p \in Place, PlaceOK(p), InPlace(p), SendNotifications
  PROVE  InPlace(p)'
<1>1. PICK n, d : n = NameOf(valname) /\ d = Len(dispatched)
  OBVIOUS
<1>2. /\ Len(dispatched') = d + 1 /\ dispatched'[d + 1] = n
      /\ \A k \in 1 .. d : dispatched'[k] = dispatched[k]
      /\ disp = "send" /\ disp' = "test"
      /\ UNCHANGED <<announced, since>>
  BY <1>1, SendStep
<1>3. Idle' /\ ~Idle /\ HoldsName /\ ~HoldsName'
  BY <1>2 DEF Idle, HoldsName
<1>4. PICK a \in Nat, z \in Nat : a = since.announced /\ z = since.dispatched /\ z <= d /\ d \in Nat
  BY <1>1, SinceFacts
<1>5. p.fld = 7 /\ AtEnd(p) /\ valname = Text(announced[p.rec])
  BY <1>2, <1>3 DEF InPlace, Reading
<1>6. p.rec = a + (d - z) + 1
  BY <1>1, <1>3, <1>4 DEF InPlace, Count
<1>7. p.rec # 0
  <2>1. a + (d - z) + 1 # 0
    BY <1>4
  <2> QED BY <1>6, <2>1
<1>8. n = announced[p.rec]
  <2>1. announced[p.rec] \in Names
    BY <1>7, FieldAtFacts DEF PlaceOK
  <2> QED BY <1>1, <1>5, <2>1, NameOfText
<1>9. Reading(p)'
  <2>1. AtEnd(p)'
    BY <1>2, <1>5 DEF AtEnd, FieldAt
  <2> QED BY <1>2, <1>3, <1>5, <2>1 DEF Reading
<1>10. Count(p)'
  <2>1. a + (d - z) + 1 = a + ((d + 1) - z) + 0
    BY <1>4
  <2> QED BY <1>2, <1>3, <1>4, <1>6, <2>1 DEF Count
<1>11. Agree'
  <2> SUFFICES ASSUME NEW i \in 1 .. (d + 1) - z PROVE dispatched'[z + i] = announced[a + i]
    BY <1>2, <1>4 DEF Agree
  <2>1. CASE i = (d + 1) - z
    <3>1. z + i = d + 1 /\ a + i = p.rec
      <4>1. z + i = d + 1 /\ a + i = a + (d - z) + 1
        BY <1>4, <2>1
      <4> QED BY <1>6, <4>1
    <3> QED BY <1>2, <1>8, <3>1
  <2>2. CASE i # (d + 1) - z
    <3>1. i \in 1 .. d - z /\ z + i \in 1 .. d
      BY <1>4, <2>2
    <3>2. dispatched[z + i] = announced[a + i]
      BY <1>1, <1>4, <3>1 DEF InPlace, Agree
    <3> QED BY <1>2, <3>1, <3>2
  <2> QED BY <2>1, <2>2
<1> QED
  BY <1>9, <1>10, <1>11 DEF InPlace

-----------------------------------------------------------------------------
(***************************************************************************)
(* The invariant.                                                          *)
(***************************************************************************)
StepIn(at, mark) == Here(at, mark) /\ WriterAt(at[Len(pipe)]) /\ UpTo(mark)

StepInv == \E at, mark : mark \in Nat /\ StepIn(at, mark)

\* Before anything goes wrong, what was dispatched until the dispatcher was last seen
\* waiting are all the changes announced until then.
Level ==
  truncated = 0 /\ term # "unblock" =>
    /\ since.announced = since.dispatched
    /\ \A i \in 1 .. since.dispatched : dispatched[i] = announced[i]

\* The dispatcher is created by start_notifications_mechanism.
NotYet == main = "init" => disp = "none"

\* What the dispatcher knows does not depend on the writers.
LEMMA ReaderStays ==
  ASSUME NEW p, NEW mark,
         UNCHANGED <<announced, disp, matched, need, valname, since, dispatched>>
  PROVE  /\ ReaderAt(p, mark) => ReaderAt(p, mark)'
         /\ InPlace(p) => InPlace(p)'
<1>1. /\ AtEnd(p)' = AtEnd(p) /\ Done(p)' = Done(p) /\ OnVlen(p)' = OnVlen(p)
      /\ OnTlen(p)' = OnTlen(p) /\ HoldsName' = HoldsName /\ Idle' = Idle
      /\ \A m : OnStart(p, m)' = OnStart(p, m)
  BY DEF AtEnd, FieldAt, Done, OnVlen, OnTlen, OnStart, HoldsName, Idle
<1>2. ReaderAt(p, mark) => ReaderAt(p, mark)'
  BY <1>1 DEF ReaderAt, ReadName
<1>3. Reading(p) => Reading(p)'
  BY <1>1 DEF Reading
<1>4. Count(p) => Count(p)'
  BY <1>1 DEF Count
<1>5. Agree => Agree'
  BY DEF Agree
<1> QED
  BY <1>2, <1>3, <1>4, <1>5 DEF InPlace

\* Nothing is written or read.
LEMMA QuietStep ==
  ASSUME TypeOK, StepInv,
         UNCHANGED <<pipe, announced, disp, matched, need, valname, since, dispatched, signals, todo,
                     truncated>>,
         term' = term \/ (term = "none" /\ term' = "flag")
  PROVE  StepInv'
<1>1. PICK at, mark : mark \in Nat /\ StepIn(at, mark)
  BY DEF StepInv
<1>2. /\ Laid(at) /\ ReaderAt(at[0], mark) /\ (InStep => InPlace(at[0]))
      /\ WriterAt(at[Len(pipe)]) /\ UpTo(mark)
  BY <1>1 DEF StepIn, Here
<1>3. (InStep' <=> InStep) /\ (term = "unblock" => term' = "unblock")
  BY DEF InStep
<1>4. Laid(at)'
  BY <1>2, <1>3, SameLaid
<1>5. ReaderAt(at[0], mark)' /\ (InStep' => InPlace(at[0])')
  BY <1>2, <1>3, ReaderStays
<1>6. WriterAt(at[Len(pipe)])'
  BY <1>2, <1>3 DEF WriterAt
<1>7. UpTo(mark)'
  BY <1>1, <1>2, UpToKept
<1> QED
  BY <1>1, <1>4, <1>5, <1>6, <1>7 DEF StepInv, StepIn, Here

\* The dispatcher begins.
LEMMA BeginStep ==
  ASSUME TypeOK, StepInv, NotYet, StartNotifications
  PROVE  StepInv'
<1>1. /\ disp = "none" /\ disp' = "test"
      /\ UNCHANGED <<pipe, announced, matched, need, valname, since, dispatched, signals, todo,
                     truncated, term, history>>
  BY DEF NotYet, StartNotifications, writers, history
<1>2. PICK at, mark : mark \in Nat /\ StepIn(at, mark)
  BY DEF StepInv
<1>3. /\ Laid(at) /\ ReaderAt(at[0], mark) /\ (InStep => InPlace(at[0]))
      /\ WriterAt(at[Len(pipe)]) /\ UpTo(mark)
  BY <1>2 DEF StepIn, Here
<1>4. InStep' <=> InStep
  BY <1>1 DEF InStep
<1>5. Laid(at)'
  BY <1>1, <1>3, <1>4, SameLaid
<1>6. Idle /\ Idle'
  BY <1>1 DEF Idle
<1>7. 0 \in 0 .. Len(pipe)
  <2>1. Len(pipe) \in Nat
    BY <1>3, PipeEnd
  <2> QED BY <2>1
<1>8. ReaderAt(at[0], mark)'
  BY <1>1, <1>2, <1>3, <1>6, <1>7, StartsAgain
<1>9. ASSUME InStep' PROVE InPlace(at[0])'
  <2>1. InPlace(at[0]) /\ at[0].fld = 7 /\ AtEnd(at[0])
    BY <1>3, <1>4, <1>6, <1>9 DEF InPlace, Reading
  <2>2. AtEnd(at[0])'
    BY <1>1, <2>1 DEF AtEnd, FieldAt
  <2>3. Reading(at[0])'
    BY <1>1, <2>1, <2>2 DEF Reading, HoldsName
  <2> QED BY <1>1, <1>6, <2>1, <2>3, InRecord
<1>10. WriterAt(at[Len(pipe)])'
  BY <1>1, <1>3, <1>4 DEF WriterAt
<1>11. UpTo(mark)'
  BY <1>1, <1>2, <1>3, UpToKept
<1> QED
  BY <1>2, <1>5, <1>8, <1>9, <1>10, <1>11 DEF StepInv, StepIn, Here

\* The dispatcher reads.
LEMMA ReadStep ==
  ASSUME TypeOK, NEW at, NEW mark \in Nat, StepIn(at, mark), Moved(at, mark),
         UNCHANGED <<announced, truncated, since, term, todo, dispatched, signals>>
  PROVE  StepInv'
<1>1. /\ Laid(at) /\ WriterAt(at[Len(pipe)]) /\ UpTo(mark)
  BY DEF StepIn, Here
<1>2. PICK g : TakesBytes(g) /\ ReaderAt(at[g], mark)' /\ (InStep => InPlace(at[g])')
  BY DEF Moved
<1>3. g \in Nat /\ at \in [Nat -> Place]
  <2>1. g \in 0 .. Len(pipe) /\ Len(pipe) \in Nat
    BY <1>1, <1>2, PipeEnd DEF TakesBytes
  <2> QED BY <1>1, <2>1 DEF Laid
<1>4. PICK bt : bt = [i \in Nat |-> at[i + g]]
  OBVIOUS
<1>5. bt \in [Nat -> Place] /\ \A i \in Nat : bt[i] = at[i + g]
  <2>1. \A i \in Nat : i + g \in Nat
    BY <1>3
  <2> QED BY <1>3, <1>4, <2>1
<1>6. Laid(bt)' /\ bt[Len(pipe)'] = at[Len(pipe)] /\ bt[0] = at[g]
  BY <1>1, <1>2, <1>5, TakesLaid
<1>7. InStep' <=> InStep
  BY DEF InStep
<1>8. ReaderAt(bt[0], mark)' /\ (InStep' => InPlace(bt[0])')
  BY <1>2, <1>6, <1>7
<1>9. WriterAt(bt[Len(pipe)])'
  BY <1>1, <1>6, <1>7 DEF WriterAt
<1>10. UpTo(mark)'
  BY <1>1, UpToKept
<1> QED
  BY <1>6, <1>8, <1>9, <1>10 DEF StepInv, StepIn, Here

\* The dispatcher sends notifications.
LEMMA SentStep ==
  ASSUME TypeOK, StepInv, SendNotifications
  PROVE  StepInv'
<1>1. PICK at, mark : mark \in Nat /\ StepIn(at, mark)
  BY DEF StepInv
<1>2. /\ Laid(at) /\ ReaderAt(at[0], mark) /\ (InStep => InPlace(at[0]))
      /\ WriterAt(at[Len(pipe)]) /\ UpTo(mark)
  BY <1>1 DEF StepIn, Here
<1>3. disp' = "test" /\ UNCHANGED <<pipe, announced, since, truncated, term, todo>>
  BY SendStep DEF daemon, writers
<1>4. InStep' <=> InStep
  BY <1>3 DEF InStep
<1>5. Laid(at)'
  BY <1>2, <1>3, <1>4, SameLaid
<1>6. PICK k \in Nat : UpTo(k)' /\ k <= Done(at[0])
  BY <1>1, <1>2, SendInOrder
<1>7. ReaderAt(at[0], k)'
  <2>1. Done(at[0])' = Done(at[0])
    BY <1>3 DEF Done, AtEnd, FieldAt
  <2> QED BY <1>3, <1>6, <2>1 DEF ReaderAt, HoldsName
<1>8. at[0] \in Place /\ PlaceOK(at[0])
  <2>1. Len(pipe) \in Nat
    BY <1>2, PipeEnd
  <2>2. 0 \in 0 .. Len(pipe)
    BY <2>1
  <2> QED BY <1>2, <2>2 DEF Laid
<1>9. InStep' => InPlace(at[0])'
  BY <1>2, <1>4, <1>8, SendInStep
<1>10. WriterAt(at[Len(pipe)])'
  BY <1>2, <1>3, <1>4 DEF WriterAt
<1> QED
  BY <1>5, <1>6, <1>7, <1>9, <1>10 DEF StepInv, StepIn, Here

LEMMA DispatcherStep ==
  ASSUME TypeOK, StepInv, Dispatcher
  PROVE  StepInv'
<1>1. CASE SendNotifications
  BY <1>1, SentStep
<1>2. CASE ~SendNotifications
  <2>1. PICK at, mark : mark \in Nat /\ StepIn(at, mark)
    BY DEF StepInv
  <2>2. Here(at, mark)
    BY <2>1 DEF StepIn
  <2>3. \/ TestRunFlag \/ SeekStart \/ MatchStart \/ ReadTlen \/ ReadVlen \/ ReadTheName
        \/ ReadLlen \/ ReadLayer \/ SeekEnd \/ MatchEnd
    BY <1>2 DEF Dispatcher, SeekStart, MatchStart, ReadVlen, ReadTheName, ReadLlen, ReadLayer,
                SeekEnd, MatchEnd
  <2>4. Moved(at, mark)
    BY <2>1, <2>2, <2>3, TestMoves, SeekStartMoves, MatchStartMoves, ReadTlenMoves, ReadVlenMoves,
       ReadTheNameMoves, ReadLlenMoves, ReadLayerMoves, SeekEndMoves, MatchEndMoves
  <2>5. UNCHANGED <<announced, truncated, since, term, todo, dispatched, signals>>
    <3>1. CASE TestRunFlag
      BY <3>1 DEF TestRunFlag, daemon, writers, history
    <3>2. CASE SeekStart \/ SeekEnd
      BY <3>2 DEF SeekStart, SeekEnd, SeekTag, daemon, writers, history
    <3>3. CASE MatchStart \/ MatchEnd
      BY <3>3 DEF MatchStart, MatchEnd, MatchTag, daemon, writers, history
    <3>4. CASE ReadTlen
      BY <3>4 DEF ReadTlen, daemon, writers, history
    <3>5. CASE ReadVlen \/ ReadLlen
      BY <3>5 DEF ReadVlen, ReadLlen, ReadLength, daemon, writers, history
    <3>6. CASE ReadTheName \/ ReadLayer
      BY <3>6 DEF ReadTheName, ReadLayer, ReadText, daemon, writers, history
    <3> QED BY <2>3, <3>1, <3>2, <3>3, <3>4, <3>5, <3>6
  <2> QED BY <2>1, <2>4, <2>5, ReadStep
<1> QED
  BY <1>1, <1>2

\* A field is written, or the rest of the record is left out.
LEMMA WritingStep ==
  ASSUME NotifInv, StepInv, NEW h \in Handlers, WriteField(h)
  PROVE  StepInv'
<1>1. PICK at, mark : mark \in Nat /\ StepIn(at, mark)
  BY DEF StepInv
<1>2. /\ Laid(at) /\ ReaderAt(at[0], mark) /\ (InStep => InPlace(at[0]))
      /\ WriterAt(at[Len(pipe)]) /\ UpTo(mark) /\ TypeOK
  BY <1>1 DEF StepIn, Here, NotifInv
<1>3. CASE Len(pipe) + Len(Head(todo[h])) <= PipeCap
  <2>1. PICK bt \in [Nat -> Place] : Laid(bt)' /\ WriterAt(bt[Len(pipe)])' /\ bt[0] = at[0]
    BY <1>2, <1>3, WriteLaid
  <2>2. UNCHANGED <<announced, disp, matched, need, valname, since, dispatched, signals, truncated,
                    term>>
    BY <1>3, WriteStep DEF daemon, reader, history
  <2>3. InStep' <=> InStep
    BY <2>2 DEF InStep
  <2>4. ReaderAt(bt[0], mark)' /\ (InStep' => InPlace(bt[0])')
    BY <1>2, <2>1, <2>2, <2>3, ReaderStays
  <2>5. UpTo(mark)'
    BY <1>1, <1>2, <2>2, UpToKept
  <2> QED BY <1>1, <2>1, <2>4, <2>5 DEF StepInv, StepIn, Here
<1>4. CASE ~(Len(pipe) + Len(Head(todo[h])) <= PipeCap)
  <2>1. /\ truncated' = truncated + 1 /\ todo[h] # <<>> /\ todo'[h] = <<>>
        /\ \A g \in Handlers : g # h => todo'[g] = todo[g]
        /\ UNCHANGED <<announced, disp, matched, need, valname, since, dispatched, signals, pipe,
                       term>>
    BY <1>4, CutStep DEF daemon, reader
  <2>2. \A g \in Handlers : todo'[g] = <<>>
    <3>1. queueHolder = h
      BY <2>1 DEF NotifInv, WritersInStep, WriterInStep
    <3>2. \A g \in Handlers : g # h => todo[g] = <<>>
      BY <3>1 DEF NotifInv, WritersInStep, WriterInStep
    <3> QED BY <2>1, <3>2
  <2>3. ~InStep'
    <3>1. PICK t \in Nat, s \in Nat : t = truncated /\ s = since.truncated /\ s <= t
      BY <1>2, SinceFacts
    <3>2. t + 1 # s
      BY <3>1
    <3> QED BY <2>1, <3>1, <3>2 DEF InStep
  <2>4. Laid(at)'
    BY <1>2, <2>1, <2>3, SameLaid
  <2>5. WriterAt(at[Len(pipe)])'
    <3>1. Len(<<>>) # 7
      OBVIOUS
    <3> QED BY <2>2, <2>3, <3>1 DEF WriterAt
  <2>6. ReaderAt(at[0], mark)'
    BY <1>2, <2>1, ReaderStays
  <2>7. UpTo(mark)'
    BY <1>1, <1>2, <2>1, UpToKept
  <2> QED BY <1>1, <2>3, <2>4, <2>5, <2>6, <2>7 DEF StepInv, StepIn, Here
<1> QED
  BY <1>3, <1>4

\* sigterm_handler writes its byte.
LEMMA StrayStep ==
  ASSUME TypeOK, StepInv, SigtermUnblock
  PROVE  StepInv'
<1>1. PICK at, mark : mark \in Nat /\ StepIn(at, mark)
  BY DEF StepInv
<1>2. /\ Laid(at) /\ ReaderAt(at[0], mark) /\ WriterAt(at[Len(pipe)]) /\ UpTo(mark)
  BY <1>1 DEF StepIn, Here
<1>3. PICK bt \in [Nat -> Place] : Laid(bt)' /\ WriterAt(bt[Len(pipe)])' /\ bt[0] = at[0]
  BY <1>2, StrayLaid
<1>4. /\ term' = "unblock"
      /\ UNCHANGED <<announced, disp, matched, need, valname, since, dispatched, signals>>
  BY DEF SigtermUnblock, reader, history
<1>5. ~InStep'
  BY <1>4 DEF InStep
<1>6. ReaderAt(bt[0], mark)'
  BY <1>2, <1>3, <1>4, ReaderStays
<1>7. UpTo(mark)'
  BY <1>1, <1>2, <1>4, UpToKept
<1> QED
  BY <1>1, <1>3, <1>5, <1>6, <1>7 DEF StepInv, StepIn, Here

\* A change is announced while the dispatcher is reading.
LEMMA ReaderWithMore ==
  ASSUME TypeOK, NEW p \in Place, PlaceOK(p), NEW mark \in Nat,
         Len(announced') = Len(announced) + 1,
         \A k \in 1 .. Len(announced) : announced'[k] = announced[k],
         UNCHANGED <<disp, matched, need, valname, since, dispatched>>
  PROVE  /\ ReaderAt(p, mark) => ReaderAt(p, mark)'
         /\ InPlace(p) => InPlace(p)'
<1>1. PICK N \in Nat : N = Len(announced) /\ Len(announced') = N + 1
  BY SinceFacts
<1>2. p.rec \in Nat /\ p.rec <= N /\ (p.rec # 0 => p.rec \in 1 .. N)
  BY <1>1, PlaceTypes DEF PlaceOK
<1>3. p.rec # 0 => announced'[p.rec] = announced[p.rec]
  BY <1>1, <1>2
<1>4. AtEnd(p)' <=> AtEnd(p)
  BY <1>3 DEF AtEnd, FieldAt
<1>5. Done(p)' = Done(p) /\ (HoldsName' <=> HoldsName) /\ (Idle' <=> Idle)
  BY <1>4 DEF Done, HoldsName, Idle
<1>6. ASSUME ReadName(p, mark) PROVE ReadName(p, mark)'
  <2> SUFFICES ASSUME NEW n \in Names, CString(valname) = Spelling[n]
               PROVE  \E k \in 1 .. Len(announced') : mark < k /\ k <= Done(p) /\ announced'[k] = n
    BY <1>5 DEF ReadName
  <2>1. PICK k \in 1 .. N : mark < k /\ k <= Done(p) /\ announced[k] = n
    BY <1>1, <1>6 DEF ReadName
  <2>2. k \in 1 .. N + 1
    OBVIOUS
  <2> QED BY <1>1, <2>1, <2>2
<1>7. ASSUME ReaderAt(p, mark) PROVE ReaderAt(p, mark)'
  <2>1. OnVlen(p) => OnVlen(p)'
    BY <1>3 DEF OnVlen
  <2>2. (OnTlen(p) => OnTlen(p)') /\ \A m : OnStart(p, m) => OnStart(p, m)'
    BY DEF OnTlen, OnStart
  <2> QED BY <1>5, <1>6, <1>7, <2>1, <2>2 DEF ReaderAt
<1>8. ASSUME InPlace(p) PROVE InPlace(p)'
  <2>1. PICK a \in Nat, d \in Nat, z \in Nat :
           a = since.announced /\ d = Len(dispatched) /\ z = since.dispatched /\ z <= d
    BY SinceFacts
  <2>2. p.rec = a + (d - z) + (IF Idle THEN 0 ELSE 1)
    BY <1>8, <2>1 DEF InPlace, Count
  <2>3. Count(p)'
    BY <1>5, <1>8 DEF InPlace, Count
  <2>4. HoldsName => p.rec # 0
    <3>1. HoldsName => ~Idle
      BY DEF HoldsName, Idle
    <3>2. a + (d - z) + 1 # 0
      BY <2>1
    <3> QED BY <2>2, <3>1, <3>2
  <2>5. Reading(p)'
    BY <1>3, <1>4, <1>5, <1>8, <2>4 DEF InPlace, Reading
  <2>6. Agree'
    <3> SUFFICES ASSUME NEW i \in 1 .. d - z PROVE dispatched[z + i] = announced'[a + i]
      BY <2>1 DEF Agree
    <3>1. dispatched[z + i] = announced[a + i]
      BY <1>8, <2>1 DEF InPlace, Agree
    <3>2. a + (d - z) <= N
      <4>1. PICK r \in Nat : r = p.rec /\ r <= N
        BY <1>2
      <4>2. r = a + (d - z) + 0 \/ r = a + (d - z) + 1
        BY <2>2, <4>1
      <4>3. PICK x \in Int : x = a + (d - z)
        BY <2>1
      <4>4. x <= r
        BY <4>1, <4>2, <4>3
      <4> QED BY <4>1, <4>3, <4>4
    <3>3. a + i \in 1 .. N
      <4>1. PICK x \in Int : x = d - z
        BY <2>1
      <4>2. i \in Int /\ 1 <= i /\ i <= x
        BY <4>1
      <4>3. a \in Nat /\ N \in Nat /\ a + x <= N
        BY <2>1, <3>2, <4>1
      <4> QED BY <4>2, <4>3
    <3> QED BY <1>1, <3>1, <3>3
  <2> QED BY <2>3, <2>5, <2>6 DEF InPlace
<1> QED
  BY <1>7, <1>8

LEMMA QueueingStep ==
  ASSUME NotifInv, StepInv, NEW h \in Handlers, NEW n \in Names, QueueNotification(h, n)
  PROVE  StepInv'
<1>1. PICK at, mark : mark \in Nat /\ StepIn(at, mark)
  BY DEF StepInv
<1>2. /\ Laid(at) /\ ReaderAt(at[0], mark) /\ (InStep => InPlace(at[0]))
      /\ WriterAt(at[Len(pipe)]) /\ UpTo(mark) /\ TypeOK
  BY <1>1 DEF StepIn, Here, NotifInv
<1>3. PICK bt \in [Nat -> Place] :
           /\ Laid(bt)' /\ WriterAt(bt[Len(pipe)])'
           /\ Waiting => /\ bt[0].rec = Len(announced) /\ bt[0].fld = 7 /\ AtEnd(bt[0])'
                         /\ Done(at[0]) <= Done(bt[0])'
           /\ ~Waiting => bt = at
  BY <1>2, QueueLaid
<1>4. /\ Len(announced') = Len(announced) + 1
      /\ \A k \in 1 .. Len(announced) : announced'[k] = announced[k]
      /\ since' = IF Waiting
                  THEN [announced |-> Len(announced), dispatched |-> Len(dispatched),
                        truncated |-> truncated]
                  ELSE since
      /\ UNCHANGED <<disp, matched, need, valname, dispatched, signals, truncated, term>>
  BY QueueStep DEF daemon, reader, QueueNotification
<1>5. Len(pipe) \in Nat /\ 0 \in 0 .. Len(pipe)
  <2>1. Len(pipe) \in Nat
    BY <1>2, PipeEnd
  <2> QED BY <2>1
<1>6. at[0] \in Place /\ PlaceOK(at[0]) /\ bt[0] \in Place
  <2>1. 0 \in Nat
    OBVIOUS
  <2> QED BY <1>2, <1>5, <2>1 DEF Laid
<1>7. PICK N \in Nat : N = Len(announced)
  BY <1>2, SinceFacts
<1>8. PICK r \in Nat, e \in Int : r = at[0].rec /\ r <= N /\ e = Done(at[0]) /\ (e = r \/ e = r - 1)
  <2>1. at[0].rec \in Nat /\ at[0].rec <= N
    BY <1>6, <1>7, PlaceTypes DEF PlaceOK
  <2>2. Done(at[0]) = at[0].rec \/ Done(at[0]) = at[0].rec - 1
    BY DEF Done
  <2>3. \A k \in Nat : k \in Int /\ k - 1 \in Int
    OBVIOUS
  <2> QED BY <2>1, <2>2, <2>3
<1>9. UpTo(mark)'
  <2>1. mark <= e
    BY <1>2, <1>8 DEF ReaderAt
  <2>2. mark <= N
    BY <1>1, <1>8, <2>1
  <2>3. \A k \in 1 .. mark : k \in 1 .. N
    BY <1>1, <1>7, <2>2
  <2>4. \A k \in 1 .. mark : announced'[k] = announced[k]
    BY <1>4, <1>7, <2>3
  <2> QED BY <1>1, <1>2, <1>4, <2>4, UpToKept
<1>10. CASE ~Waiting
  <2>1. bt = at /\ since' = since
    BY <1>3, <1>4, <1>10
  <2>2. InStep' <=> InStep
    BY <1>4, <2>1 DEF InStep
  <2>3. ReaderAt(at[0], mark)' /\ (InStep => InPlace(at[0])')
    BY <1>1, <1>2, <1>4, <1>6, <2>1, ReaderWithMore
  <2> QED BY <1>1, <1>3, <1>9, <2>1, <2>2, <2>3 DEF StepInv, StepIn, Here
<1>11. CASE Waiting
  <2>1. PICK q : q = bt[0]
    OBVIOUS
  <2>2. /\ q \in Place /\ q.rec = N /\ q.fld = 7 /\ AtEnd(q)' /\ e <= Done(q)'
    BY <1>3, <1>6, <1>7, <1>8, <1>11, <2>1
  <2>3. disp' = "test" \/ disp' = "seek start"
    BY <1>4, <1>11 DEF Waiting
  <2>4. Idle' /\ ~HoldsName'
    BY <2>3 DEF Idle, HoldsName
  <2>5. mark <= Done(q)'
    <3>1. Done(q)' = N
      <4>1. 7 > 4
        OBVIOUS
      <4> QED BY <2>2, <4>1 DEF Done
    <3>2. mark <= e
      BY <1>2, <1>8 DEF ReaderAt
    <3>3. e <= N
      BY <1>8
    <3>4. mark <= N
      BY <1>1, <3>2, <3>3
    <3> QED BY <3>1, <3>4
  <2>6. ReaderAt(q, mark)'
    BY <2>3, <2>4, <2>5 DEF ReaderAt
  <2>7. /\ since'.announced = N /\ since'.dispatched = Len(dispatched)
        /\ since'.truncated = truncated
    BY <1>4, <1>7, <1>11
  <2>8. PICK d \in Nat : d = Len(dispatched)
    BY <1>2, SinceFacts
  <2>9. Reading(q)'
    BY <2>2, <2>3, <2>4 DEF Reading
  <2>10. Count(q)'
    <3>1. N = N + (d - d) + 0
      BY <2>8
    <3> QED BY <1>4, <2>2, <2>4, <2>7, <2>8, <3>1 DEF Count
  <2>11. Agree'
    <3>1. \A i : i \in 1 .. d - d => FALSE
      BY <2>8
    <3> QED BY <1>4, <2>7, <2>8, <3>1 DEF Agree
  <2>12. InPlace(q)'
    BY <2>9, <2>10, <2>11 DEF InPlace
  <2> QED BY <1>1, <1>3, <1>9, <2>1, <2>6, <2>12 DEF StepInv, StepIn, Here
<1> QED
  BY <1>10, <1>11

LEMMA InitPlaced == Init => StepInv
<1> SUFFICES ASSUME Init PROVE StepInv
  OBVIOUS
<1> DEFINE o == [rec |-> 0, fld |-> 7, off |-> 0, stray |-> FALSE]
           at == [i \in Nat |-> o]
<1>1. o \in Place /\ 0 \in Nat
  BY DEF Place
<1>2. PICK q, bt : q = o /\ bt = at
  OBVIOUS
<1>3. bt \in [Nat -> Place] /\ \A i \in Nat : bt[i] = q
  BY <1>1, <1>2
<1>4. q.rec = 0 /\ q.fld = 7 /\ q.stray = FALSE
  BY <1>2
<1> HIDE DEF o, at
<1>5. /\ pipe = <<>> /\ Len(pipe) = 0 /\ announced = <<>> /\ Len(announced) = 0
      /\ dispatched = <<>> /\ Len(dispatched) = 0 /\ truncated = 0
      /\ since.announced = 0 /\ since.dispatched = 0
      /\ \A h \in Handlers : todo[h] = <<>>
      /\ \A c \in Clients : signals[c] = <<>>
  BY DEF Init
<1>6. disp = "none"
  BY DEF Init
<1>7. Idle /\ ~HoldsName
  BY <1>6 DEF Idle, HoldsName
<1>8. AtEnd(q) /\ PlaceOK(q)
  <2>1. 0 <= 0
    OBVIOUS
  <2> QED BY <1>4, <1>5, <2>1 DEF AtEnd, PlaceOK
<1>9. Done(q) = 0
  <2>1. 7 > 4
    OBVIOUS
  <2> QED BY <1>4, <2>1 DEF Done
<1>10. Laid(bt)
  <2>1. \A i \in 0 .. 0 : i \in Nat
    OBVIOUS
  <2>2. \A i \in 0 .. 0 : PlaceOK(bt[i])
    BY <1>3, <1>8, <2>1
  <2>3. \A i \in 1 .. 0 : Holds(bt[i], pipe[i])
    OBVIOUS
  <2>4. \A i \in 0 .. 0 - 1 : AtEnd(bt[i]) => Succ(bt[i], bt[i + 1])
    OBVIOUS
  <2>5. \A i, j \in 0 .. 0 : i <= j => Done(bt[i]) <= Done(bt[j])
    <3>1. 0 <= 0
      OBVIOUS
    <3> QED BY <1>3, <1>9, <2>1, <3>1
  <2>6. Runs(bt)
    BY <1>3, <1>4, <1>5, <2>1 DEF Runs
  <2> QED BY <1>3, <1>5, <2>2, <2>3, <2>4, <2>5, <2>6 DEF Laid
<1>11. ReaderAt(q, 0)
  <2>1. 0 <= 0
    OBVIOUS
  <2> QED BY <1>6, <1>7, <1>9, <2>1 DEF ReaderAt
<1>12. InPlace(q)
  <2>1. Reading(q)
    BY <1>4, <1>6, <1>7, <1>8 DEF Reading
  <2>2. Count(q)
    BY <1>4, <1>5, <1>7 DEF Count
  <2>3. Agree
    BY <1>5 DEF Agree
  <2> QED BY <2>1, <2>2, <2>3 DEF InPlace
<1>13. WriterAt(bt[0])
  <2>1. Len(<<>>) # 7
    OBVIOUS
  <2> QED BY <1>1, <1>3, <1>4, <1>5, <2>1 DEF WriterAt
<1>14. UpTo(0)
  <2> DEFINE I == {i \in DOMAIN dispatched : dispatched[i] # Garbage}
  <2>1. I = {} /\ \A c \in Clients : DOMAIN signals[c] = {}
    BY <1>5
  <2>2. ASSUME NEW s, NEW t, NEW J PROVE InOrder(s, {}, t, J)
    <3>1. [x \in {} |-> x] \in [{} -> J]
      OBVIOUS
    <3> QED BY <3>1 DEF InOrder
  <2> QED BY <2>1, <2>2 DEF UpTo
<1>15. bt[0] = q
  BY <1>1, <1>3
<1> QED
  BY <1>1, <1>5, <1>10, <1>11, <1>12, <1>13, <1>14, <1>15 DEF StepInv, StepIn, Here

LEMMA NextPlaced ==
  ASSUME NotifInv, NotYet, StepInv, [Next]_vars
  PROVE  StepInv'
<1>0. TypeOK
  BY DEF NotifInv
<1>1. CASE UNCHANGED vars
  <2>1. UNCHANGED <<pipe, announced, disp, matched, need, valname, since, dispatched, signals, todo,
                    truncated, term>>
    BY <1>1 DEF vars, daemon, reader, writers, history
  <2> QED BY <1>0, <2>1, QuietStep
<1>2. CASE StartNotifications
  BY <1>0, <1>2, BeginStep
<1>3. CASE StartServer \/ ServerFails \/ SigtermFlag \/ SigtermExit
  <2>1. UNCHANGED <<pipe, announced, disp, matched, need, valname, since, dispatched, signals, todo,
                    truncated>>
    BY <1>3 DEF StartServer, ServerFails, SigtermFlag, SigtermExit, reader, writers, history
  <2>2. term' = term \/ (term = "none" /\ term' = "flag")
    BY <1>3 DEF StartServer, ServerFails, SigtermFlag, SigtermExit
  <2> QED BY <1>0, <2>1, <2>2, QuietStep
<1>4. CASE SigtermUnblock
  BY <1>0, <1>4, StrayStep
<1>5. CASE Dispatcher
  BY <1>0, <1>5, DispatcherStep
<1>6. ASSUME NEW h \in Handlers, Queued(h) PROVE StepInv'
  <2>1. UNCHANGED <<pipe, announced, disp, matched, need, valname, since, dispatched, signals, todo,
                    truncated, term>>
    BY <1>6 DEF Queued, daemon, reader, history
  <2> QED BY <1>0, <2>1, QuietStep
<1>7. ASSUME NEW c \in Clients, AddNotif(c) PROVE StepInv'
  <2>1. UNCHANGED <<pipe, announced, disp, matched, need, valname, since, dispatched, signals, todo,
                    truncated, term>>
    BY <1>7 DEF AddNotif, daemon, reader, writers, history
  <2> QED BY <1>0, <2>1, QuietStep
<1> QED
  BY <1>1, <1>2, <1>3, <1>4, <1>5, <1>6, <1>7, WritingStep, QueueingStep
     DEF Next, Main, SignalThread, Writing

\* The dispatcher does nothing before it is created.
LEMMA NextNotYet ==
  ASSUME NotYet, [Next]_vars
  PROVE  NotYet'
<1>1. CASE UNCHANGED vars
  BY <1>1 DEF NotYet, vars, daemon, reader
<1>2. CASE Main \/ SignalThread
  BY <1>2 DEF NotYet, Main, StartNotifications, StartServer, ServerFails, SignalThread,
              SigtermFlag, SigtermUnblock, SigtermExit, reader
<1>3. CASE Dispatcher
  <2>1. main' = main
    BY <1>3 DEF Dispatcher, TestRunFlag, SeekTag, MatchTag, ReadTlen, ReadLength, ReadText,
                SendNotifications, daemon
  <2>2. disp # "none"
    BY <1>3 DEF Dispatcher, TestRunFlag, SeekTag, MatchTag, ReadTlen, ReadLength, ReadText,
                SendNotifications, DispAt
  <2> QED BY <2>1, <2>2 DEF NotYet
<1>4. ASSUME NEW h \in Handlers, Writing(h) PROVE NotYet'
  BY <1>4 DEF NotYet, Writing, WriteField, Queued, daemon, reader
<1>5. ASSUME NEW h \in Handlers, NEW n \in Names, QueueNotification(h, n) PROVE NotYet'
  BY <1>5 DEF NotYet, QueueNotification, daemon, reader
<1>6. ASSUME NEW c \in Clients, AddNotif(c) PROVE NotYet'
  BY <1>6 DEF NotYet, AddNotif, daemon, reader
<1> QED
  BY <1>1, <1>2, <1>3, <1>4, <1>5, <1>6 DEF Next

\* Until the dispatcher is next seen waiting, nothing more is said of what was before.
LEMMA LevelStays ==
  ASSUME TypeOK, Level, since' = since,
         \A i \in 1 .. Len(dispatched) : dispatched'[i] = dispatched[i],
         \A i \in 1 .. Len(announced) : announced'[i] = announced[i],
         truncated' = truncated \/ truncated' # 0,
         term = "unblock" => term' = "unblock"
  PROVE  Level'
<1> SUFFICES ASSUME truncated' = 0, term' # "unblock"
             PROVE  /\ since.announced = since.dispatched
                    /\ \A i \in 1 .. since.dispatched : dispatched'[i] = announced'[i]
  BY DEF Level
<1>1. /\ since.announced = since.dispatched
      /\ \A i \in 1 .. since.dispatched : dispatched[i] = announced[i]
  BY DEF Level
<1>2. PICK a \in Nat, d \in Nat, z \in Nat :
         a = Len(announced) /\ d = Len(dispatched) /\ z = since.dispatched /\ z <= d /\ z <= a
  BY <1>1, SinceFacts
<1>3. \A i \in 1 .. z : i \in 1 .. d /\ i \in 1 .. a
  BY <1>2
<1> QED
  BY <1>1, <1>2, <1>3

\* When it is, everything announced has been dispatched.
LEMMA LevelAgain ==
  ASSUME NotifInv, StepInv, Level, NEW h \in Handlers, NEW n \in Names, QueueNotification(h, n),
         Waiting
  PROVE  Level'
<1>1. PICK at, mark : mark \in Nat /\ StepIn(at, mark)
  BY DEF StepInv
<1>2. /\ Laid(at) /\ (InStep => InPlace(at[0])) /\ WriterAt(at[Len(pipe)]) /\ TypeOK
  BY <1>1 DEF StepIn, Here, NotifInv
<1>3. /\ \A k \in 1 .. Len(announced) : announced'[k] = announced[k]
      /\ since'.announced = Len(announced) /\ since'.dispatched = Len(dispatched)
      /\ UNCHANGED <<dispatched, truncated, term>>
  BY QueueStep DEF daemon, QueueNotification
<1>4. PICK N \in Nat, d \in Nat, a \in Nat, z \in Nat :
         /\ N = Len(announced) /\ d = Len(dispatched) /\ a = since.announced /\ z = since.dispatched
         /\ a <= N /\ z <= d
  BY <1>2, SinceFacts
<1> SUFFICES ASSUME truncated = 0, term # "unblock"
             PROVE  N = d /\ \A i \in 1 .. d : dispatched[i] = announced'[i]
  BY <1>3, <1>4 DEF Level
<1>5. InStep
  <2>1. PICK s \in Nat : s = since.truncated /\ s <= 0
    BY <1>2, SinceFacts
  <2> QED BY <2>1 DEF InStep
<1>6. /\ a = z
      /\ \A i \in 1 .. z : dispatched[i] = announced[i]
  BY <1>4 DEF Level
<1>7. pipe = <<>> /\ Idle /\ \A g \in Handlers : todo[g] = <<>>
  BY DEF Waiting, Idle
<1>8. at[0].rec = N
  <2>1. Len(pipe) = 0
    BY <1>7
  <2> QED BY <1>2, <1>4, <1>5, <1>7, <2>1 DEF WriterAt
<1>9. N = a + (d - z) + 0
  BY <1>2, <1>4, <1>5, <1>7, <1>8 DEF InPlace, Count
<1>10. N = d
  BY <1>4, <1>6, <1>9
<1>11. ASSUME NEW i \in 1 .. d PROVE dispatched[i] = announced[i]
  <2>1. CASE i <= z
    <3>1. i \in 1 .. z
      BY <1>4, <2>1
    <3> QED BY <1>6, <3>1
  <2>2. CASE ~(i <= z)
    <3>1. i - z \in 1 .. d - z /\ z + (i - z) = i
      BY <1>4, <2>2
    <3>2. dispatched[z + (i - z)] = announced[a + (i - z)]
      BY <1>2, <1>4, <1>5, <3>1 DEF InPlace, Agree
    <3> QED BY <1>6, <3>1, <3>2
  <2> QED BY <2>1, <2>2
<1> QED
  BY <1>3, <1>4, <1>10, <1>11

LEMMA NextLevel ==
  ASSUME NotifInv, StepInv, Level, [Next]_vars
  PROVE  Level'
<1>0. TypeOK
  BY DEF NotifInv
<1>1. CASE UNCHANGED <<since, dispatched, announced, truncated, term>>
  BY <1>1 DEF Level
<1>2. CASE SignalThread
  <2>1. /\ UNCHANGED <<since, dispatched, announced, truncated>>
        /\ term = "unblock" => term' = "unblock"
    BY <1>2 DEF SignalThread, SigtermFlag, SigtermUnblock, SigtermExit, history
  <2> QED BY <1>0, <2>1, LevelStays
<1>3. CASE SendNotifications
  <2>1. /\ \A i \in 1 .. Len(dispatched) : dispatched'[i] = dispatched[i]
        /\ UNCHANGED <<since, announced, truncated, term>>
    BY <1>0, <1>3, SendStep DEF daemon
  <2> QED BY <1>0, <2>1, LevelStays
<1>4. ASSUME NEW h \in Handlers, WriteField(h) PROVE Level'
  <2>1. UNCHANGED <<since, dispatched, announced, term>>
    BY <1>4 DEF WriteField, daemon, history
  <2>2. truncated' = truncated \/ truncated' = truncated + 1
    BY <1>4 DEF WriteField, history
  <2>3. truncated + 1 # 0
    <3>1. truncated \in Nat
      BY <1>0, SinceFacts
    <3> QED BY <3>1
  <2> QED BY <1>0, <2>1, <2>2, <2>3, LevelStays
<1>5. ASSUME NEW h \in Handlers, NEW n \in Names, QueueNotification(h, n) PROVE Level'
  <2>1. CASE Waiting
    BY <1>5, <2>1, LevelAgain
  <2>2. CASE ~Waiting
    <3>1. /\ \A k \in 1 .. Len(announced) : announced'[k] = announced[k]
          /\ UNCHANGED <<since, dispatched, truncated, term>>
      BY <1>5, <2>2, QueueStep DEF daemon, QueueNotification
    <3> QED BY <1>0, <3>1, LevelStays
  <2> QED BY <2>1, <2>2
<1>6. CASE UNCHANGED vars \/ Main
  <2>1. UNCHANGED <<since, dispatched, announced, truncated, term>>
    BY <1>6 DEF vars, Main, StartNotifications, StartServer, ServerFails, daemon, history
  <2> QED BY <1>1, <2>1
<1>7. CASE Dispatcher /\ ~SendNotifications
  <2>1. UNCHANGED <<since, dispatched, announced, truncated, term>>
    BY <1>7 DEF Dispatcher, TestRunFlag, SeekTag, MatchTag, ReadTlen, ReadLength, ReadText,
                daemon, history
  <2> QED BY <1>1, <2>1
<1>8. ASSUME NEW h \in Handlers, Queued(h) PROVE Level'
  <2>1. UNCHANGED <<since, dispatched, announced, truncated, term>>
    BY <1>8 DEF Queued, daemon, history
  <2> QED BY <1>1, <2>1
<1>9. ASSUME NEW c \in Clients, AddNotif(c) PROVE Level'
  <2>1. UNCHANGED <<since, dispatched, announced, truncated, term>>
    BY <1>9 DEF AddNotif, daemon, history
  <2> QED BY <1>1, <2>1
<1> QED
  BY <1>2, <1>3, <1>4, <1>5, <1>6, <1>7, <1>8, <1>9 DEF Next, Writing

OrderInv == NotifInv /\ NotYet /\ StepInv /\ Level

LEMMA InvHolds == Spec => []OrderInv
<1>1. Init => OrderInv
  <2> SUFFICES ASSUME Init PROVE OrderInv
    OBVIOUS
  <2>1. Level
    <3>1. since.announced = 0 /\ since.dispatched = 0
      BY DEF Init
    <3>2. \A i \in 1 .. 0 : dispatched[i] = announced[i]
      OBVIOUS
    <3> QED BY <3>1, <3>2 DEF Level
  <2>2. NotYet
    BY DEF Init, NotYet
  <2> QED BY <2>1, <2>2, InitTyped, InitPlaced DEF OrderInv
<1>2. OrderInv /\ [Next]_vars => OrderInv'
  BY NextTyped, NextNotYet, NextPlaced, NextLevel DEF OrderInv
<1> QED
  BY <1>1, <1>2, PTL DEF Spec

-----------------------------------------------------------------------------
\* The theorems.

\* Whatever was cut short and whatever bytes the dispatcher takes for a tag, a length
\* or a name, for names and layers of any spelling without control characters, "<"
\* and space and for a pipe of any size: a change is dispatched at most once, changes
\* in the order they were made in; and a client is signalled only for changes that its
\* pattern matches, in their order.
THEOREM NotifDispatchedInOrder == Spec => []DispatchedInOrder
<1>1. OrderInv => DispatchedInOrder
  <2> SUFFICES ASSUME OrderInv PROVE DispatchedInOrder
    OBVIOUS
  <2>1. PICK at, mark : mark \in Nat /\ StepIn(at, mark)
    BY DEF OrderInv, StepInv
  <2>2. TypeOK /\ Laid(at) /\ ReaderAt(at[0], mark) /\ UpTo(mark)
    BY <2>1 DEF OrderInv, NotifInv, StepIn, Here
  <2>3. PICK N \in Nat : N = Len(announced)
    BY <2>2, SinceFacts
  <2>4. mark <= N
    <3>1. Len(pipe) \in Nat
      BY <2>2, PipeEnd
    <3>2. 0 \in 0 .. Len(pipe) /\ 0 \in Nat
      BY <3>1
    <3>3. at[0] \in Place /\ PlaceOK(at[0])
      BY <2>2, <3>2 DEF Laid
    <3>4. at[0].rec \in Nat /\ at[0].rec <= N
      BY <2>3, <3>3, PlaceTypes DEF PlaceOK
    <3>5. Done(at[0]) = at[0].rec \/ Done(at[0]) = at[0].rec - 1
      BY DEF Done
    <3>6. mark <= Done(at[0])
      BY <2>2 DEF ReaderAt
    <3> QED BY <2>1, <3>4, <3>5, <3>6
  <2>5. 1 .. mark \subseteq DOMAIN announced
    <3>1. announced \in Seq(Names)
      BY <2>2 DEF TypeOK
    <3>2. DOMAIN announced = 1 .. N
      BY <2>3, <3>1
    <3>3. \A k \in 1 .. mark : k \in 1 .. N
      BY <2>1, <2>4
    <3> QED BY <3>2, <3>3
  <2>6. InOrder(dispatched, {i \in DOMAIN dispatched : dispatched[i] # Garbage},
                announced, DOMAIN announced)
    BY <2>2, <2>5, InOrderKept DEF UpTo
  <2>7. ASSUME NEW c \in Clients \ AnyPattern
        PROVE  InOrder(signals[c], DOMAIN signals[c],
                       announced, {k \in DOMAIN announced : announced[k] \in Interest[c]})
    <3>1. {k \in 1 .. mark : announced[k] \in Interest[c]}
            \subseteq {k \in DOMAIN announced : announced[k] \in Interest[c]}
      BY <2>5
    <3>2. InOrder(signals[c], DOMAIN signals[c], announced,
                  {k \in 1 .. mark : announced[k] \in Interest[c]})
      BY <2>2 DEF UpTo
    <3> QED BY <3>1, <3>2, InOrderKept
  <2> QED BY <2>6, <2>7 DEF DispatchedInOrder
<1> QED
  BY <1>1, InvHolds, PTL

\* Elements that agree make a prefix.
LEMMA AgreeIsPrefix ==
  ASSUME NEW S, NEW s \in Seq(S), NEW t \in Seq(S), NEW d \in Nat, d = Len(s), d <= Len(t),
         \A i \in 1 .. d : s[i] = t[i]
  PROVE  IsPrefix(s, t)
<1>4. ASSUME NEW u \in Seq(S), d <= Len(u)
      PROVE  /\ SubSeq(u, 1, d) \in Seq(S) /\ Len(SubSeq(u, 1, d)) = d
             /\ \A i \in 1 .. d : SubSeq(u, 1, d)[i] = u[i]
  <2>1. \A i \in 1 .. d : u[i] \in S
    BY <1>4
  <2>2. /\ SubSeq(u, 1, d) \in Seq(S)
        /\ Len(SubSeq(u, 1, d)) = IF 1 <= d THEN d - 1 + 1 ELSE 0
        /\ \A i \in 1 .. d - 1 + 1 : SubSeq(u, 1, d)[i] = u[1 + i - 1]
    BY <2>1, SubSeqProperties
  <2>3. d - 1 + 1 = d /\ \A i \in 1 .. d : 1 + i - 1 = i
    OBVIOUS
  <2>4. ~(1 <= d) => d = 0
    OBVIOUS
  <2> QED BY <2>2, <2>3, <2>4
<1>5. d <= Len(s)
  OBVIOUS
<1>6. \A i \in 1 .. d : SubSeq(s, 1, d)[i] = SubSeq(t, 1, d)[i]
  BY <1>4, <1>5
<1>7. SubSeq(s, 1, d) = SubSeq(t, 1, d)
  BY <1>4, <1>5, <1>6, SeqEqual
<1> QED
  BY <1>7 DEF IsPrefix

\* The names spoken of.
Name == Names \cup {Garbage}

LEMMA NamesTyped ==
  ASSUME TypeOK
  PROVE  announced \in Seq(Name) /\ dispatched \in Seq(Name)
<1>1. announced \in Seq(Names) /\ dispatched \in Seq(Name)
  BY DEF TypeOK, Name
<1>2. Names \subseteq Name
  BY DEF Name
<1> QED
  BY <1>1, <1>2, SeqMonotonic

\* What is in step is dispatched from the records announced.
LEMMA CountFacts ==
  ASSUME OrderInv, InStep
  PROVE  /\ since.announced + (Len(dispatched) - since.dispatched) <= Len(announced)
         /\ Agree
<1>1. PICK at, mark : mark \in Nat /\ StepIn(at, mark)
  BY DEF OrderInv, StepInv
<1>2. TypeOK /\ Laid(at) /\ InPlace(at[0])
  BY <1>1 DEF OrderInv, NotifInv, StepIn, Here
<1>3. PICK N \in Nat, d \in Nat, a \in Nat, z \in Nat :
         /\ N = Len(announced) /\ d = Len(dispatched) /\ a = since.announced /\ z = since.dispatched
         /\ z <= d
  BY <1>2, SinceFacts
<1>4. at[0].rec \in Nat /\ at[0].rec <= N
  <2>1. Len(pipe) \in Nat
    BY <1>2, PipeEnd
  <2>2. 0 \in 0 .. Len(pipe) /\ 0 \in Nat
    BY <2>1
  <2>3. at[0] \in Place /\ PlaceOK(at[0])
    BY <1>2, <2>2 DEF Laid
  <2> QED BY <1>3, <2>3, PlaceTypes DEF PlaceOK
<1>5. at[0].rec = a + (d - z) + 0 \/ at[0].rec = a + (d - z) + 1
  BY <1>2, <1>3 DEF InPlace, Count
<1>6. a + (d - z) <= N
  BY <1>3, <1>4, <1>5
<1> QED
  BY <1>2, <1>3, <1>6 DEF InPlace

\* As long as no record has been cut short and no SIGTERM has written its byte, the
\* dispatcher loses nothing, in whatever pieces it reads and the handlers write:
\* what it has dispatched are the first changes.
THEOREM NotifNothingLost == Spec => []NothingLostBeforeFull
<1>1. OrderInv => NothingLostBeforeFull
  <2> SUFFICES ASSUME OrderInv, truncated = 0, term # "unblock"
               PROVE  IsPrefix(dispatched, announced)
    BY DEF NothingLostBeforeFull
  <2>1. TypeOK
    BY DEF OrderInv, NotifInv
  <2>2. InStep
    <3>1. PICK s \in Nat : s = since.truncated /\ s <= 0
      BY <2>1, SinceFacts
    <3> QED BY <3>1 DEF InStep
  <2>3. PICK N \in Nat, d \in Nat, a \in Nat, z \in Nat :
           /\ N = Len(announced) /\ d = Len(dispatched) /\ a = since.announced /\ z = since.dispatched
           /\ a <= N /\ z <= d
    BY <2>1, SinceFacts
  <2>4. a + (d - z) <= N /\ \A i \in 1 .. d - z : dispatched[z + i] = announced[a + i]
    BY <2>2, <2>3, CountFacts DEF Agree
  <2>5. a = z /\ \A i \in 1 .. z : dispatched[i] = announced[i]
    BY <2>3 DEF OrderInv, Level
  <2>6. ASSUME NEW i \in 1 .. d PROVE dispatched[i] = announced[i]
    <3>1. CASE i <= z
      <4>1. i \in 1 .. z
        BY <2>3, <3>1
      <4> QED BY <2>5, <4>1
    <3>2. CASE ~(i <= z)
      <4>1. i - z \in 1 .. d - z /\ z + (i - z) = i
        BY <2>3, <3>2
      <4> QED BY <2>4, <2>5, <4>1
    <3> QED BY <3>1, <3>2
  <2>7. d <= N
    BY <2>3, <2>4, <2>5
  <2> QED BY <2>1, <2>3, <2>6, <2>7, NamesTyped, AgreeIsPrefix
<1> QED
  BY <1>1, InvHolds, PTL

\* The dispatcher finds its way back: once it has waited while no record was under way
\* it loses nothing until another record is cut short, whatever happened before.
THEOREM NotifInStepAgain == Spec => []NothingLostInStep
<1>1. OrderInv => NothingLostInStep
  <2> SUFFICES ASSUME OrderInv, truncated = since.truncated, term # "unblock"
               PROVE  IsPrefix(SubSeq(dispatched, since.dispatched + 1, Len(dispatched)),
                               SubSeq(announced, since.announced + 1, Len(announced)))
    BY DEF NothingLostInStep
  <2>1. TypeOK /\ InStep
    BY DEF OrderInv, NotifInv, InStep
  <2>3. PICK N \in Nat, d \in Nat, a \in Nat, z \in Nat :
           /\ N = Len(announced) /\ d = Len(dispatched) /\ a = since.announced /\ z = since.dispatched
           /\ a <= N /\ z <= d
    BY <2>1, SinceFacts
  <2>4. a + (d - z) <= N /\ \A i \in 1 .. d - z : dispatched[z + i] = announced[a + i]
    BY <2>1, <2>3, CountFacts DEF Agree
  <2>5. ASSUME NEW s \in Seq(Name), NEW k \in Nat, k <= Len(s)
        PROVE  /\ SubSeq(s, k + 1, Len(s)) \in Seq(Name)
               /\ Len(SubSeq(s, k + 1, Len(s))) = Len(s) - k
               /\ \A i \in 1 .. Len(s) - k : SubSeq(s, k + 1, Len(s))[i] = s[k + i]
    <3>1. PICK l \in Nat : l = Len(s)
      BY <2>5
    <3>2. \A i \in k + 1 .. l : s[i] \in Name
      <4>1. \A i \in k + 1 .. l : i \in 1 .. l
        BY <3>1
      <4> QED BY <3>1, <4>1, ElementOfSeq
    <3>3. k + 1 \in Int /\ l \in Int
      BY <3>1
    <3>4. PICK u : u = SubSeq(s, k + 1, l)
      OBVIOUS
    <3>5. /\ u \in Seq(Name)
          /\ Len(u) = IF k + 1 <= l THEN l - (k + 1) + 1 ELSE 0
          /\ \A i \in 1 .. l - (k + 1) + 1 : u[i] = s[k + 1 + i - 1]
      BY <3>1, <3>2, <3>3, <3>4, SubSeqProperties
    <3>6. Len(u) = l - k
      BY <2>5, <3>1, <3>5
    <3>7. ASSUME NEW i \in 1 .. l - k PROVE u[i] = s[k + i]
      <4>1. i \in 1 .. l - (k + 1) + 1 /\ k + 1 + i - 1 = k + i
        BY <3>1, <3>7
      <4> QED BY <3>5, <4>1
    <3> QED BY <3>1, <3>4, <3>5, <3>6, <3>7
  <2>6. PICK s, t : /\ s = SubSeq(dispatched, z + 1, Len(dispatched))
                    /\ t = SubSeq(announced, a + 1, Len(announced))
    OBVIOUS
  <2>7. /\ s \in Seq(Name) /\ Len(s) = d - z /\ \A i \in 1 .. d - z : s[i] = dispatched[z + i]
    BY <2>1, <2>3, <2>5, <2>6, NamesTyped
  <2>8. /\ t \in Seq(Name) /\ Len(t) = N - a /\ \A i \in 1 .. N - a : t[i] = announced[a + i]
    BY <2>1, <2>3, <2>5, <2>6, NamesTyped
  <2>9. PICK m \in Nat : m = d - z /\ m <= N - a
    <3>1. d - z \in Nat /\ d - z <= N - a
      BY <2>3, <2>4
    <3> QED BY <3>1
  <2>10. \A i \in 1 .. m : s[i] = t[i]
    <3>1. \A i \in 1 .. m : i \in 1 .. d - z /\ i \in 1 .. N - a
      BY <2>3, <2>9
    <3> QED BY <2>4, <2>7, <2>8, <3>1
  <2>11. IsPrefix(s, t)
    BY <2>7, <2>8, <2>9, <2>10, AgreeIsPrefix
  <2> QED BY <2>3, <2>6, <2>11
<1> QED
  BY <1>1, InvHolds, PTL
=============================================================================
