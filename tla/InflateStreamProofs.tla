------------------------- MODULE InflateStreamProofs ------------------------
(***************************************************************************)
(* Proofs about InflateStream, for all streams that InflateFormat allows,  *)
(* all pieces they may be pushed in, and all sizes of window and buffer.   *)
(***************************************************************************)
EXTENDS InflateFormat, FoldFacts

StrmFields == {"given", "next_in", "avail_in", "output", "avail_out"}
StateFields == {"mode", "wrap", "last", "hold", "flags", "length", "offset", "extra", "have",
                "table", "check", "total", "dmax", "head", "wsize", "whave", "wnext", "window"}
InflaterFields == {"chunkSize", "ended", "err", "chunks", "result", "delivered"}
CallFields == {"at", "mode", "in", "out", "ret", "allowBufError"}

Running == call.at \in {"inflate", "fast"}

(***************************************************************************)
(* Numbers: the conjuncts of TypeOK, and what they rest on.                *)
(***************************************************************************)
Records ==
  /\ DOMAIN strm = StrmFields /\ DOMAIN state = StateFields
  /\ DOMAIN inflater = InflaterFields
  /\ call.at \in {"none", "inflate", "fast", "returned"}
  /\ call.at # "none" => DOMAIN call = CallFields
  /\ \E k \in DOMAIN Streams : stream = Streams[k]

\* While a window is young its bytes end where it has been filled up to.
WindowOK ==
  /\ state.wsize \in {0, WSIZE} /\ Len(state.window) = state.wsize
  /\ state.whave \in 0 .. state.wsize /\ state.wnext \in 0 .. state.wsize
  /\ state.whave < state.wsize => state.wnext = state.whave

\* All input is used up before more is pushed, unless there will be none.
Room ==
  /\ strm.given \in Nat /\ strm.next_in \in Nat /\ strm.avail_in \in Nat
  /\ strm.avail_out \in Nat /\ inflater.chunkSize \in Nat \ {0}
  /\ strm.avail_out <= inflater.chunkSize /\ Len(strm.output) \in Nat
  /\ Pushed <= BytesOf(stream)
  /\ inflater.ended \in BOOLEAN
  /\ call.at = "none" /\ ~inflater.ended => strm.avail_in = 0
  /\ Running => call.out \in Nat /\ strm.avail_out <= call.out
  /\ state.mode \in {"EXTRA", "COPY", "LENEXT", "DIST", "DISTEXT", "MATCH"} => state.length \in Nat

Statuses == {Z_OK, Z_STREAM_END, Z_NEED_DICT, Z_DATA_ERROR, Z_BUF_ERROR}
Codes ==
  /\ inflater.err \in {Z_OK, Z_NEED_DICT, Z_DATA_ERROR, Z_BUF_ERROR}
  /\ call.at \in {"inflate", "fast", "returned"} => call.ret \in Statuses

TableOK ==
  /\ state.mode \in {"LENLENS", "CODELENS"} =>
       state.table.ncode \in Nat \ {0} /\ state.table.lengths \in Nat \ {0}
  /\ state.mode = "LENLENS" => state.have \in 0 .. state.table.ncode
  /\ state.mode = "CODELENS" => state.have \in 0 .. state.table.lengths
  /\ state.mode \in {"DISTEXT", "MATCH"} => state.offset \in Nat

(***************************************************************************)
(* Bits.                                                                   *)
(***************************************************************************)
\* l bits that end where the byte `end' begins.
Bits(l, end) == [j \in 1 .. l |-> 8 * end - l + j - 1]
Width == Len(state.hold)
HoldOK == Width \in Nat /\ state.hold = Bits(Width, NextByte)

\* Modes that begin with a whole byte.
Bytewise == {"HEAD", "FLAGS", "TIME", "OS", "EXLEN", "EXTRA", "NAME", "COMMENT", "HCRC",
             "DICTID", "COPY", "CHECK", "LENGTH"}

Short == Width < 8 \/ Width < BitsNeeded
Bounded ==
  CASE call.at = "fast" -> Width < 8 * strm.next_in + 8 \/ (Fast /\ Short)
    [] call.at = "inflate" -> \/ state.mode = "BAD" \/ Short
                              \/ ~Fast /\ Width < BitsNeeded + 8
    [] OTHER -> state.mode = "BAD" \/ Short

View(s) ==
  Reader(s, s.mode, IF s.mode \in {"LENLENS", "CODELENS"} THEN s.table ELSE <<>>,
         CASE s.mode \in {"EXTRA", "COPY"} -> s.length
           [] s.mode \in {"LENLENS", "CODELENS"} -> s.have
           [] s.mode \in {"LENEXT", "DISTEXT"} -> s.extra
           [] OTHER -> 0)

\* The decoder is before field i: with the bits it holds, and with what it knows, it
\* will read what a reader of the whole stream reads there.
Stands(r, i) ==
  /\ i \in 1 .. Len(stream.fields) + 1
  /\ state.mode # "BAD" =>
       /\ r[i] = Settled(View(state))
       /\ r[i].mode \notin Ended => stream.fields[i].at = Start(r[i].mode, NextBit)

InSteps(r) == \E i \in 1 .. Len(stream.fields) + 1 : Stands(r, i)

Rest == Records /\ WindowOK /\ Room /\ Codes /\ TableOK
Synced(r) ==
  /\ HoldOK /\ Bounded
  /\ state.mode \in Bytewise => Width % 8 = 0
  /\ call.at = "fast" => state.mode \in {"LEN", "TYPE", "BAD"}
  /\ InSteps(r)

InflateInv == Rest /\ \E r : IsReading(stream, r) /\ Synced(r)

-----------------------------------------------------------------------------
(***************************************************************************)
(* The stream.                                                             *)
(***************************************************************************)
LEMMA StreamFacts ==
  ASSUME Records
  PROVE  /\ Len(stream.fields) \in Nat /\ DOMAIN stream.fields = 1 .. Len(stream.fields)
         /\ \A i \in 1 .. Len(stream.fields) :
              /\ stream.fields[i].at \in Nat /\ stream.fields[i].width \in Nat
              /\ stream.fields[i].width > 0
         /\ \A i, j \in 1 .. Len(stream.fields) :
              i < j => stream.fields[i].at + stream.fields[i].width <= stream.fields[j].at
         /\ stream.wrap \in {0, 3}
         /\ \E r : IsReading(stream, r)
  BY StreamAssumption, FormatAssumption DEF Records

\* A stream has a whole number of bytes.
LEMMA BytesAreNumbers ==
  ASSUME Records
  PROVE  BytesOf(stream) \in Nat
  <1>1. CASE stream.fields = <<>>
    BY <1>1 DEF BytesOf, EndOf
  <1>2. CASE stream.fields # <<>>
    <2>1. PICK n \in Nat : n = Len(stream.fields)
      BY StreamFacts
    <2>2. n # 0
      <3>1. DOMAIN stream.fields = 1 .. n
        BY <2>1, StreamFacts
      <3> QED
        BY <1>2, <3>1
    <2>3. n \in 1 .. n
      BY <2>2
    <2>4. stream.fields[n].at \in Nat /\ stream.fields[n].width \in Nat
      BY <2>1, <2>3, StreamFacts
    <2>5. EndOf(stream) = stream.fields[n].at + stream.fields[n].width
      BY <1>2, <2>1 DEF EndOf, Last
    <2> QED
      BY <2>4, <2>5 DEF BytesOf
  <1> QED
    BY <1>1, <1>2

\* There is one field at a bit.
LEMMA FieldIsThere ==
  ASSUME Records, NEW i \in 1 .. Len(stream.fields)
  PROVE  FieldAt(stream.fields[i].at) = stream.fields[i]
  <1>1. PICK n \in Nat : n = Len(stream.fields)
    BY StreamFacts
  <1>2. ASSUME NEW j \in 1 .. n, stream.fields[j].at = stream.fields[i].at PROVE j = i
    <2>1. i \in 1 .. n
      BY <1>1
    <2>2. /\ stream.fields[i].at \in Nat /\ stream.fields[i].width \in Nat
          /\ stream.fields[j].at \in Nat /\ stream.fields[j].width \in Nat
          /\ stream.fields[i].width > 0 /\ stream.fields[j].width > 0
      BY <1>1, <2>1, StreamFacts
    <2>3. /\ i < j => stream.fields[i].at + stream.fields[i].width <= stream.fields[j].at
          /\ j < i => stream.fields[j].at + stream.fields[j].width <= stream.fields[i].at
      BY <1>1, <2>1, StreamFacts
    <2> QED
      BY <1>2, <2>1, <2>2, <2>3
  <1>3. DOMAIN stream.fields = 1 .. n
    BY <1>1, StreamFacts
  <1>4. (CHOOSE j \in DOMAIN stream.fields : stream.fields[j].at = stream.fields[i].at) = i
    BY <1>1, <1>2, <1>3
  <1> QED
    BY <1>4 DEF FieldAt

-----------------------------------------------------------------------------
(***************************************************************************)
(* The bit accumulator.                                                    *)
(***************************************************************************)
LEMMA BitsFacts ==
  ASSUME NEW l \in Nat, NEW end \in Int
  PROVE  /\ Len(Bits(l, end)) = l
         /\ \A j \in 1 .. l : Bits(l, end)[j] = 8 * end - l + j - 1
  BY DEF Bits

\* The first bit held is the oldest one.
LEMMA HeadOfBits ==
  ASSUME NEW l \in Nat, NEW end \in Int
  PROVE  /\ Bits(l, end) = <<>> => l = 0
         /\ Bits(l, end) # <<>> => Head(Bits(l, end)) = 8 * end - l
  <1>1. CASE l = 0
    <2>1. Bits(l, end) = <<>>
      BY <1>1 DEF Bits
    <2> QED
      BY <1>1, <2>1
  <1>2. CASE l # 0
    <2>1. 1 \in 1 .. l
      BY <1>2
    <2>2. Bits(l, end)[1] = 8 * end - l
      BY <2>1, BitsFacts
    <2>3. Len(Bits(l, end)) = l
      BY BitsFacts
    <2>4. Bits(l, end) # <<>>
      BY <1>2, <2>3
    <2>5. Head(Bits(l, end)) = Bits(l, end)[1]
      BY DEF Head
    <2> QED
      BY <2>2, <2>4, <2>5
  <1> QED
    BY <1>1, <1>2

\* Where the next bit is.
LEMMA NextBitIs ==
  ASSUME HoldOK, NextByte \in Int
  PROVE  NextBit = 8 * NextByte - Width
  <1>1. NextBit = IF state.hold = <<>> THEN 8 * NextByte ELSE Head(state.hold)
    BY DEF NextBit
  <1>2. PICK l \in Nat : l = Width /\ state.hold = Bits(l, NextByte)
    BY DEF HoldOK
  <1>3. /\ state.hold = <<>> => l = 0
        /\ state.hold # <<>> => Head(state.hold) = 8 * NextByte - l
    BY <1>2, HeadOfBits
  <1> QED
    BY <1>1, <1>2, <1>3

\* And where it will be.
LEMMA HoldIs ==
  ASSUME NEW l \in Nat, NextByte' \in Int, state'.hold = Bits(l, NextByte')
  PROVE  HoldOK' /\ Width' = l /\ NextBit' = 8 * NextByte' - l
  <1>1. Width' = l
    BY BitsFacts DEF Width
  <1>2. HoldOK'
    BY <1>1 DEF HoldOK
  <1>3. NextBit' = 8 * NextByte' - l
    <2>1. NextBit' = IF state'.hold = <<>> THEN 8 * NextByte' ELSE Head(state'.hold)
      BY DEF NextBit
    <2>2. PICK b \in Int : b = NextByte'
      OBVIOUS
    <2>3. /\ Bits(l, b) = <<>> => l = 0
          /\ Bits(l, b) # <<>> => Head(Bits(l, b)) = 8 * b - l
      BY HeadOfBits
    <2> QED
      BY <2>1, <2>2, <2>3
  <1> QED
    BY <1>1, <1>2, <1>3

\* Bits taken in at one end.
LEMMA BitsTaken ==
  ASSUME NEW l \in Nat, NEW end \in Int, NEW n \in Nat
  PROVE  Bits(l, end) \o [i \in 1 .. 8 * n |-> 8 * end + i - 1] = Bits(l + 8 * n, end + n)
  <1>1. PICK m \in Nat : m = l + 8 * n
    OBVIOUS
  <1>2. PICK b : b = Bits(l, end) /\ b \in Seq(Int) /\ Len(b) = l
    <2>1. [j \in 1 .. l |-> 8 * end - l + j - 1] \in Seq(Int)
      BY IsASeq
    <2> QED
      BY <2>1, BitsFacts DEF Bits
  <1>3. PICK k \in Nat : k = 8 * n
    OBVIOUS
  <1>4. PICK c \in [1 .. k -> Int] :
          /\ c = [i \in 1 .. 8 * n |-> 8 * end + i - 1]
          /\ \A i \in 1 .. k : c[i] = 8 * end + i - 1
    <2> DEFINE c == [i \in 1 .. k |-> 8 * end + i - 1]
    <2>2. c \in [1 .. k -> Int] /\ \A i \in 1 .. k : c[i] = 8 * end + i - 1
      OBVIOUS
    <2>3. c = [i \in 1 .. 8 * n |-> 8 * end + i - 1]
      BY <1>3
    <2> QED
      BY <2>2, <2>3
  <1>5. c \in Seq(Int) /\ Len(c) = k
    BY <1>4
  <1>6. PICK h : /\ h = b \o c /\ h \in Seq(Int) /\ Len(h) = m
                 /\ \A i \in 1 .. m : h[i] = IF i <= l THEN b[i] ELSE c[i - l]
    <2>1. /\ b \o c \in Seq(Int) /\ Len(b \o c) = Len(b) + Len(c)
          /\ \A i \in 1 .. Len(b) + Len(c) :
               (b \o c)[i] = IF i <= Len(b) THEN b[i] ELSE c[i - Len(b)]
      BY <1>2, <1>5, ConcatProperties
    <2>2. Len(b) = l /\ Len(c) = k /\ l + k = m
      BY <1>1, <1>2, <1>3, <1>5
    <2> QED
      BY <2>1, <2>2
  <1>7. \A i \in 1 .. m : h[i] = 8 * (end + n) - m + i - 1
    <2> SUFFICES ASSUME NEW i \in 1 .. m PROVE h[i] = 8 * (end + n) - m + i - 1
      OBVIOUS
    <2>1. CASE i <= l
      <3>1. i \in 1 .. l
        BY <1>1, <2>1
      <3>2. b[i] = 8 * end - l + i - 1
        BY <1>2, <3>1, BitsFacts
      <3> QED
        BY <1>1, <1>6, <2>1, <3>2
    <2>2. CASE ~(i <= l)
      <3>1. i - l \in 1 .. k
        BY <1>1, <1>3, <2>2
      <3>2. c[i - l] = 8 * end + (i - l) - 1
        BY <1>4, <3>1
      <3> QED
        BY <1>1, <1>6, <2>2, <3>2
    <2> QED
      BY <2>1, <2>2
  <1>8. h = [i \in 1 .. m |-> 8 * (end + n) - m + i - 1]
    <2>1. h \in [1 .. m -> Int]
      BY <1>6, LenProperties
    <2> QED
      BY <1>7, <2>1
  <1> QED
    BY <1>1, <1>2, <1>4, <1>6, <1>8 DEF Bits

\* And used at the other.
LEMMA BitsUsed ==
  ASSUME NEW l \in Nat, NEW end \in Int, NEW used \in 0 .. l
  PROVE  Without(Bits(l, end), used) = Bits(l - used, end)
  <1>1. PICK b : b = Bits(l, end) /\ Len(b) = l
    BY BitsFacts
  <1>2. Without(b, used) = SubSeq(b, used + 1, l)
    BY <1>1 DEF Without
  <1>3. SubSeq(b, used + 1, l) = [i \in 1 .. (1 + l - (used + 1)) |-> b[used + 1 + i - 1]]
    BY DEF SubSeq
  <1>4. \A i \in 1 .. l - used : b[used + i] = 8 * end - (l - used) + i - 1
    <2> SUFFICES ASSUME NEW i \in 1 .. l - used
                 PROVE  b[used + i] = 8 * end - (l - used) + i - 1
      OBVIOUS
    <2>1. used + i \in 1 .. l
      OBVIOUS
    <2>2. b[used + i] = 8 * end - l + (used + i) - 1
      BY <1>1, <2>1, BitsFacts
    <2> QED
      BY <2>2
  <1>5. 1 + l - (used + 1) = l - used /\ \A i \in 1 .. l - used : used + 1 + i - 1 = used + i
    OBVIOUS
  <1>6. SubSeq(b, used + 1, l) = [i \in 1 .. l - used |-> b[used + i]]
    BY <1>3, <1>5
  <1> QED
    BY <1>1, <1>2, <1>4, <1>6 DEF Bits

\* Given back at the end where they were taken.
LEMMA BitsGivenBack ==
  ASSUME NEW l \in Nat, NEW end \in Int, NEW n \in Nat, 8 * n <= l
  PROVE  SubSeq(Bits(l, end), 1, l - 8 * n) = Bits(l - 8 * n, end - n)
  <1>1. PICK m \in Nat : m = l - 8 * n /\ m <= l
    OBVIOUS
  <1>2. SubSeq(Bits(l, end), 1, m) = [i \in 1 .. (1 + m - 1) |-> Bits(l, end)[1 + i - 1]]
    BY DEF SubSeq
  <1>3. 1 + m - 1 = m /\ \A i \in 1 .. m : 1 + i - 1 = i
    OBVIOUS
  <1>4. \A i \in 1 .. m : Bits(l, end)[i] = 8 * (end - n) - m + i - 1
    BY <1>1, BitsFacts
  <1>5. SubSeq(Bits(l, end), 1, m) = [i \in 1 .. m |-> 8 * (end - n) - m + i - 1]
    BY <1>2, <1>3, <1>4
  <1> QED
    BY <1>1, <1>5 DEF Bits

-----------------------------------------------------------------------------
(***************************************************************************)
(* What the decoder and the reader of the whole stream know alike.         *)
(***************************************************************************)
Counted == {"EXTRA", "COPY", "LENLENS", "CODELENS", "LENEXT", "DISTEXT"}
Tabled == {"LENLENS", "CODELENS"}

\* What a reader knows who stands where the decoder does.
LEMMA ViewFacts ==
  ASSUME NEW s
  PROVE  /\ View(s).wrap = s.wrap /\ View(s).mode = s.mode /\ View(s).last = s.last
         /\ View(s).flags = s.flags
         /\ s.mode \in {"EXTRA", "COPY"} => View(s).count = s.length
         /\ s.mode \in Tabled => View(s).count = s.have /\ View(s).table = s.table
         /\ s.mode \in {"LENEXT", "DISTEXT"} => View(s).count = s.extra
         /\ s.mode \notin Tabled => View(s).table = <<>>
         /\ s.mode \notin Counted => View(s).count = 0
         /\ View(s) = Reader(s, s.mode, View(s).table, View(s).count)
  BY DEF View, Reader, Counted, Tabled

\* Two views that agree in what a reader takes over from field to field.
LEMMA SameReader ==
  ASSUME NEW s, NEW t, s.wrap = t.wrap, s.last = t.last, s.flags = t.flags
  PROVE  /\ \A mode, table, count : Reader(s, mode, table, count) = Reader(t, mode, table, count)
         /\ \A mode : Step_(s, mode) = Step_(t, mode)
         /\ \A mode, count : Counts(s, mode, count) = Counts(t, mode, count)
         /\ Block(s) = Block(t)
         /\ \A k, length : Optional(k, s, length) = Optional(k, t, length)
  <1>1. \A mode, table, count : Reader(s, mode, table, count) = Reader(t, mode, table, count)
    BY DEF Reader
  <1>2. \A mode : Step_(s, mode) = Step_(t, mode)
    BY <1>1 DEF Step_
  <1>3. \A mode, count : Counts(s, mode, count) = Counts(t, mode, count)
    BY <1>1 DEF Counts
  <1>4. Block(s) = Block(t)
    BY <1>2 DEF Block
  <1>5. \A k, length : Optional(k, s, length) = Optional(k, t, length)
    BY <1>3, <1>4 DEF Optional
  <1> QED
    BY <1>1, <1>2, <1>3, <1>4, <1>5

\* What it is, mode by mode.
LEMMA ViewIs ==
  ASSUME NEW s
  PROVE  /\ s.mode \notin Counted => View(s) = Step_(s, s.mode)
         /\ s.mode \in {"EXTRA", "COPY"} => View(s) = Counts(s, s.mode, s.length)
         /\ s.mode \in {"LENEXT", "DISTEXT"} => View(s) = Counts(s, s.mode, s.extra)
         /\ s.mode \in Tabled => View(s) = Reader(s, s.mode, s.table, s.have)
  BY DEF View, Step_, Counts, Counted, Tabled

\* In a mode that reads a field the decoder has nothing to do before.
LEMMA ReadingIsSettled ==
  ASSUME ReadsField
  PROVE  Settled(View(state)) = View(state)
  <1>1. PICK v : v = View(state)
    OBVIOUS
  <1>2. /\ v.mode = state.mode /\ v.wrap = state.wrap /\ v.last = state.last
        /\ v.mode \in {"EXTRA", "COPY"} => v.count = state.length
        /\ v.mode \in Tabled => v.count = state.have /\ v.table = state.table
        /\ v.mode \in {"LENEXT", "DISTEXT"} => v.count = state.extra
    BY <1>1, ViewFacts
  <1>3. CASE v.mode = "TYPE"
    <2>1. ~v.last
      BY <1>2, <1>3 DEF ReadsField
    <2>2. Settled(v) = Block(v)
      BY <1>3 DEF Settled
    <2>3. Block(v) = Step_(v, "TYPE")
      BY <2>1 DEF Block
    <2>4. v = Step_(state, "TYPE")
      BY <1>1, <1>2, <1>3, ViewIs DEF Counted
    <2>5. Step_(v, "TYPE") = Step_(state, "TYPE")
      BY <1>1, ViewFacts, SameReader
    <2> QED
      BY <1>1, <2>2, <2>3, <2>4, <2>5
  <1>4. CASE v.mode # "TYPE"
    <2>1. Settled(v) = v
      BY <1>2, <1>4 DEF Settled, ReadsField, Tabled
    <2> QED
      BY <1>1, <2>1
  <1> QED
    BY <1>3, <1>4

-----------------------------------------------------------------------------
(***************************************************************************)
(* The field that is read next.                                            *)
(***************************************************************************)
LEMMA Arithmetic ==
  ASSUME NEW b \in Nat, NEW l \in Nat
  PROVE  /\ l % 8 \in 0 .. 7 /\ l \div 8 \in Nat /\ l = 8 * (l \div 8) + (l % 8)
         /\ 8 * (((8 * b - l) + 7) \div 8) = 8 * b - l + (l % 8)
  <1>1. PICK q \in Nat, m \in 0 .. 7 : q = l \div 8 /\ m = l % 8 /\ l = 8 * q + m
    OBVIOUS
  <1>2. ((8 * b - l) + 7) \div 8 = b - q
    <2>1. (8 * b - l) + 7 = 8 * (b - q) + (7 - m)
      BY <1>1
    <2>2. 7 - m \in 0 .. 7
      BY <1>1
    <2> QED
      BY <2>1, <2>2
  <1> QED
    BY <1>1, <1>2

NextField(i) == stream.fields[i]

\* Modes that take bytes from the input as it is, and do without the bits.
TakesBytes == {"EXTRA", "NAME", "COMMENT", "COPY"}

\* The decoder stands at a byte of the stream.
LEMMA InputIsNumbers ==
  ASSUME Records, Room
  PROVE  NextByte \in Nat
  BY DEF Room, NextByte

\* The field that the decoder is about to read is the one the whole-stream reader reads.
LEMMA FieldComes ==
  ASSUME Records, Room, NEW r, IsReading(stream, r), Synced(r),
         NEW i \in 1 .. Len(stream.fields) + 1, Stands(r, i), ReadsField
  PROVE  /\ i \in 1 .. Len(stream.fields) /\ i + 1 \in 1 .. Len(stream.fields) + 1
         /\ r[i] = View(state) /\ r[i].mode = state.mode /\ state.mode \notin Ended
         /\ Fits(r[i], NextField(i)) /\ NextField(i).mode = state.mode
         /\ NextField(i).width \in Nat /\ NextField(i).width > 0
         /\ NextField(i).at = Start(state.mode, NextBit)
         /\ state.mode # "STORED" \/ Width % 8 = 0 =>
              NextField(i).at = NextBit /\ Here = NextField(i)
         /\ r[i + 1] = After(r[i], NextField(i))
  <1>1. state.mode \notin Ended
    BY DEF ReadsField, Ended
  <1>2. r[i] = View(state)
    BY <1>1, ReadingIsSettled DEF Stands, Ended
  <1>3. r[i].mode = state.mode
    BY <1>2, ViewFacts
  <1>4. PICK n \in Nat : n = Len(stream.fields)
    BY StreamFacts
  <1>5. /\ i <= n /\ Fits(r[i], stream.fields[i])
        /\ r[i + 1] = After(r[i], stream.fields[i])
    BY <1>1, <1>3, <1>4 DEF IsReading
  <1>6. i \in 1 .. n /\ i + 1 \in 1 .. n + 1
    BY <1>4, <1>5
  <1>7. stream.fields[i].at = Start(state.mode, NextBit)
    BY <1>1, <1>3 DEF Stands, Ended
  <1>8. stream.fields[i].mode = state.mode
    BY <1>3, <1>5 DEF Fits
  <1>9. ASSUME state.mode # "STORED" \/ Width % 8 = 0
        PROVE  NextField(i).at = NextBit /\ Here = NextField(i)
    <2>1. Width \in Nat /\ NextByte \in Nat /\ NextBit = 8 * NextByte - Width
      BY InputIsNumbers, NextBitIs DEF Synced, HoldOK
    <2>2. state.mode = "CHECK" => Width % 8 = 0
      BY DEF Synced, Bytewise
    <2>3. Start(state.mode, NextBit) = NextBit
      <3>1. CASE state.mode \in {"STORED", "CHECK"}
        <4>1. Width % 8 = 0
          BY <1>9, <2>2, <3>1
        <4>2. 8 * (((8 * NextByte - Width) + 7) \div 8) = 8 * NextByte - Width + (Width % 8)
          BY <2>1, Arithmetic
        <4> QED
          BY <2>1, <3>1, <4>1, <4>2 DEF Start
      <3>2. CASE state.mode \notin {"STORED", "CHECK"}
        BY <3>2 DEF Start
      <3> QED
        BY <3>1, <3>2
    <2>4. FieldAt(stream.fields[i].at) = stream.fields[i]
      BY <1>4, <1>6, FieldIsThere
    <2> QED
      BY <1>7, <2>3, <2>4 DEF Here, NextField
  <1>10. stream.fields[i].width \in Nat /\ stream.fields[i].width > 0
    BY <1>4, <1>6, StreamFacts
  <1> QED
    BY <1>1, <1>2, <1>3, <1>4, <1>5, <1>6, <1>7, <1>8, <1>9, <1>10 DEF NextField

\* Modes that NEEDBITS is used in.
BitModes == {"HEAD", "FLAGS", "TIME", "OS", "EXLEN", "HCRC", "DICTID", "TYPE", "STORED", "TABLE",
             "LENLENS", "CODELENS", "LEN", "LENEXT", "DIST", "DISTEXT", "CHECK", "LENGTH"}

\* It asks for the bits of the field, or for none.
LEMMA NeededIsWidth ==
  ASSUME Records, Room, TableOK, NEW r, IsReading(stream, r), Synced(r),
         NEW i \in 1 .. Len(stream.fields) + 1, Stands(r, i), ReadsField,
         state.mode # "STORED" \/ Width % 8 = 0
  PROVE  /\ state.mode \in BitModes => BitsNeeded = NextField(i).width
         /\ state.mode \in TakesBytes => BitsNeeded = 0 /\ NextField(i).width = 8
  <1>1. /\ r[i] = View(state) /\ r[i].mode = state.mode
        /\ Here = NextField(i) /\ Fits(r[i], NextField(i))
    BY FieldComes
  <1>2. NextField(i).width \in Widths(r[i])
    BY <1>1 DEF Fits
  <1>3. CASE state.mode \in {"HEAD", "FLAGS", "OS", "EXLEN", "HCRC"}
    <2>1. Widths(r[i]) = {16}
      BY <1>1, <1>3 DEF Widths
    <2> QED
      BY <1>2, <1>3, <2>1 DEF BitsNeeded, ReadsField, TakesBytes
  <1>4. CASE state.mode \in {"TIME", "DICTID", "STORED", "CHECK", "LENGTH"}
    <2>1. Widths(r[i]) = {32}
      BY <1>1, <1>4 DEF Widths
    <2> QED
      BY <1>2, <1>4, <2>1 DEF BitsNeeded, TakesBytes
  <1>5. CASE state.mode \in {"TYPE", "LENLENS", "TABLE"}
    <2>1. Widths(r[i]) = IF state.mode = "TABLE" THEN {14} ELSE {3}
      BY <1>1, <1>5 DEF Widths
    <2>2. state.have < state.table.ncode \/ state.mode # "LENLENS"
      BY DEF TableOK, ReadsField
    <2> QED
      BY <1>2, <1>5, <2>1, <2>2 DEF BitsNeeded, ReadsField, TakesBytes
  <1>6. CASE state.mode \in {"LEN", "DIST", "CODELENS"}
    <2>1. state.have < state.table.lengths \/ state.mode # "CODELENS"
      BY DEF TableOK, ReadsField
    <2> QED
      BY <1>1, <1>6, <2>1 DEF BitsNeeded, TakesBytes
  <1>7. CASE state.mode \in {"LENEXT", "DISTEXT"}
    <2>1. r[i].count = state.extra
      BY <1>1, <1>7, ViewFacts
    <2>2. Widths(r[i]) = {state.extra}
      BY <1>1, <1>7, <2>1 DEF Widths
    <2> QED
      BY <1>2, <1>7, <2>2 DEF BitsNeeded, TakesBytes
  <1>8. CASE state.mode \in TakesBytes
    <2>1. Widths(r[i]) = {8}
      BY <1>1, <1>8 DEF Widths, TakesBytes
    <2> QED
      BY <1>2, <1>8, <2>1 DEF BitsNeeded, TakesBytes, BitModes
  <1> QED
    BY <1>3, <1>4, <1>5, <1>6, <1>7, <1>8 DEF BitModes

-----------------------------------------------------------------------------
(***************************************************************************)
(* What becomes of the bits, whatever the mode.                            *)
(***************************************************************************)
LEMMA HoldNow ==
  ASSUME Records, Room, HoldOK
  PROVE  /\ Width \in Nat /\ NextByte \in Nat /\ state.hold = Bits(Width, NextByte)
         /\ NextBit = 8 * NextByte - Width
         /\ state.hold = <<>> <=> Width = 0
  <1>1. Width \in Nat /\ NextByte \in Nat /\ state.hold = Bits(Width, NextByte)
    BY InputIsNumbers DEF HoldOK
  <1>2. state.hold = <<>> => Width = 0
    BY DEF Width
  <1>3. Width = 0 => state.hold = <<>>
    BY <1>1 DEF Bits
  <1> QED
    BY <1>1, <1>2, <1>3, NextBitIs

\* Using up bits from the low end of hold moves the next bit on by as many.
LEMMA BitsAreUsed ==
  ASSUME Records, Room, HoldOK, NEW used \in 0 .. Width,
         state'.hold = Without(state.hold, used), NextByte' = NextByte
  PROVE  HoldOK' /\ Width' = Width - used /\ NextBit' = NextBit + used
  <1>1. PICK l \in Nat, b \in Nat : l = Width /\ b = NextByte /\ state.hold = Bits(l, b)
    BY HoldNow
  <1>2. used \in 0 .. l /\ l - used \in Nat
    BY <1>1
  <1>3. state'.hold = Bits(l - used, NextByte')
    BY <1>1, <1>2, BitsUsed
  <1>4. HoldOK' /\ Width' = l - used /\ NextBit' = 8 * NextByte' - (l - used)
    BY <1>1, <1>2, <1>3, HoldIs
  <1>5. NextBit = 8 * b - l
    BY <1>1, HoldNow
  <1> QED
    BY <1>1, <1>2, <1>4, <1>5

\* While hold and next_in stay, so does the next bit.
LEMMA NoBitsUsed ==
  ASSUME Records, Room, HoldOK, state'.hold = state.hold, NextByte' = NextByte
  PROVE  HoldOK' /\ Width' = Width /\ NextBit' = NextBit
  BY DEF HoldOK, Width, NextBit

\* With hold empty the next bit is the first of the next byte.
LEMMA NoBitsAreLeft ==
  ASSUME Records, Room, state'.hold = <<>>, NextByte' \in Nat
  PROVE  HoldOK' /\ Width' = 0 /\ NextBit' = 8 * NextByte'
  <1>1. state'.hold = Bits(0, NextByte')
    BY DEF Bits
  <1> QED
    BY <1>1, HoldIs

-----------------------------------------------------------------------------
(***************************************************************************)
(* Kinds of steps.                                                         *)
(***************************************************************************)
\* A mode of inflate() that has the bits it asked for reads its field.
LEMMA FieldIsRead ==
  ASSUME Records, Room, TableOK, NEW r, IsReading(stream, r), Synced(r),
         NEW i \in 1 .. Len(stream.fields) + 1, Stands(r, i),
         state.mode \in BitModes, ReadsField, Reads(state.mode),
         stream' = stream, NextByte' = NextByte, call'.at = call.at,
         state'.hold = Without(state.hold, NextField(i).width)
           \/ (state.mode \in Bytewise \cup {"STORED"} /\ state'.hold = <<>>),
         state'.mode \in Bytewise => state'.hold = <<>>,
         state'.mode # "BAD" =>
           Settled(View(state')) = Settled(AfterField(r[i], NextField(i)))
  PROVE  Synced(r)' /\ Stands(r, i + 1)'
  <1>1. PICK l \in Nat : l = Width
    BY HoldNow DEF Synced
  <1>2. call.at = "inflate" /\ ~Fast /\ ~StoredBegins /\ ~Lacking
    BY DEF Reads, In
  <1>3. state.mode # "STORED" \/ l % 8 = 0
    BY <1>1, <1>2 DEF StoredBegins, In, Width
  <1>4. PICK w \in Nat : /\ w = NextField(i).width /\ w > 0 /\ BitsNeeded = w
                         /\ NextField(i).at = NextBit
                         /\ i \in 1 .. Len(stream.fields)
                         /\ i + 1 \in 1 .. Len(stream.fields) + 1
                         /\ r[i].mode = state.mode /\ state.mode \notin Ended
                         /\ Fits(r[i], NextField(i))
                         /\ r[i + 1] = After(r[i], NextField(i))
    BY <1>1, <1>3, FieldComes, NeededIsWidth
  <1>5. l >= w
    BY <1>1, <1>2, <1>4 DEF Lacking, Width
  <1>6. l - w \in 0 .. 7
    <2>1. Bounded /\ state.mode # "BAD"
      BY <1>4 DEF Synced, Ended
    <2>2. Short \/ Width < BitsNeeded + 8
      BY <1>2, <2>1 DEF Bounded
    <2>3. l < 8 \/ l < w \/ l < w + 8
      BY <1>1, <1>4, <2>2 DEF Short
    <2>4. w > 0
      BY <1>4
    <2> QED
      BY <1>5, <2>3, <2>4
  <1>7. NextByte' = NextByte
    OBVIOUS
  <1>8. HoldOK' /\ Width' = l - w /\ NextBit' = NextBit + w
    <2>1. CASE state'.hold = Without(state.hold, w)
      BY <1>1, <1>5, <1>7, <2>1, BitsAreUsed DEF Synced
    <2>2. CASE state.mode \in Bytewise \cup {"STORED"} /\ state'.hold = <<>>
      <3>1. l % 8 = 0
        BY <1>1, <1>3, <2>2 DEF Synced
      <3>2. w \in {16, 32}
        <4>1. w \in Widths(r[i])
          BY <1>4 DEF Fits
        <4>2. r[i].mode \in {"HEAD", "FLAGS", "OS", "EXLEN", "HCRC"} => Widths(r[i]) = {16}
          BY DEF Widths
        <4>3. r[i].mode \in {"TIME", "DICTID", "STORED", "CHECK", "LENGTH"} => Widths(r[i]) = {32}
          BY DEF Widths
        <4> QED
          BY <1>4, <2>2, <4>1, <4>2, <4>3 DEF Bytewise, BitModes
      <3>3. l = w
        BY <1>6, <3>1, <3>2
      <3>4. NextByte \in Nat /\ NextBit = 8 * NextByte - l
        BY <1>1, HoldNow DEF Synced
      <3>5. HoldOK' /\ Width' = 0 /\ NextBit' = 8 * NextByte
        BY <1>7, <2>2, <3>4, NoBitsAreLeft
      <3> QED
        BY <3>3, <3>4, <3>5
    <2> QED
      BY <1>4, <2>1, <2>2
  <1>9. Bounded'
    <2>1. Short'
      BY <1>6, <1>8 DEF Short
    <2> QED
      BY <1>2, <2>1 DEF Bounded
  <1>10. (state.mode \in Bytewise => Width % 8 = 0)'
    <2>1. state'.hold = <<>> => Width' = 0
      BY <1>7, HoldNow, NoBitsAreLeft DEF Synced
    <2> QED
      BY <2>1
  <1>11. (call.at = "fast" => state.mode \in {"LEN", "TYPE", "BAD"})'
    BY <1>2
  <1>12. Stands(r, i + 1)'
    <2>1. ASSUME state'.mode # "BAD" PROVE r[i + 1] = Settled(View(state'))
      BY <1>4, <2>1 DEF After
    <2>2. ASSUME r[i + 1].mode \notin Ended
          PROVE  stream.fields[i + 1].at = Start(r[i + 1].mode, NextBit')
      <3>1. i + 1 # 1 /\ (i + 1) - 1 = i
        BY <1>4
      <3>2. stream.fields[i + 1].at = Start(r[i + 1].mode, EndOfField(stream.fields[i]))
        BY <1>4, <2>2, <3>1 DEF IsReading
      <3>3. EndOfField(stream.fields[i]) = NextBit + w
        BY <1>4 DEF EndOfField, NextField
      <3> QED
        BY <1>8, <3>2, <3>3
    <2> QED
      BY <1>4, <2>1, <2>2 DEF Stands
  <1>13. InSteps(r)'
    BY <1>4, <1>12 DEF InSteps
  <1> QED
    BY <1>8, <1>9, <1>10, <1>11, <1>12, <1>13 DEF Synced

\* It may refuse it.
LEMMA GoesBad ==
  ASSUME Records, Room, NEW r, Synced(r), In(state.mode),
         stream' = stream, NextByte' = NextByte, call' = call \/ call'.at = "inflate",
         state'.mode = "BAD", state'.hold = state.hold
  PROVE  Synced(r)'
  <1>1. HoldOK'
    BY NoBitsUsed DEF Synced
  <1>2. call'.at = "inflate"
    BY DEF In
  <1>3. Bounded'
    BY <1>2 DEF Bounded
  <1>4. InSteps(r)'
    BY DEF Synced, InSteps, Stands
  <1> QED
    BY <1>1, <1>2, <1>3, <1>4 DEF Synced, Bytewise

\* Or go on to another mode without a field.
LEMMA NothingIsRead ==
  ASSUME Records, Room, NEW r, Synced(r), call.at = "inflate", state.mode # "BAD",
         stream' = stream, NextByte' = NextByte, call' = call \/ call'.at = "inflate",
         state'.hold = state.hold, Width < 8,
         state'.mode \in Bytewise => Width = 0,
         state'.mode # "BAD" => Settled(View(state')) = Settled(View(state))
  PROVE  /\ Synced(r)'
         /\ \A i : Stands(r, i) => Stands(r, i)'
  <1>1. NextByte' = NextByte
    OBVIOUS
  <1>2. HoldOK' /\ Width' = Width /\ NextBit' = NextBit
    BY <1>1, NoBitsUsed DEF Synced
  <1>3. call'.at = "inflate"
    OBVIOUS
  <1>4. Bounded'
    BY <1>2, <1>3 DEF Bounded, Short
  <1>5. ASSUME NEW i, Stands(r, i) PROVE Stands(r, i)'
    BY <1>2, <1>5 DEF Stands
  <1>6. InSteps(r)'
    <2>1. PICK i \in 1 .. Len(stream.fields) + 1 : Stands(r, i)
      BY DEF Synced, InSteps
    <2> QED
      BY <1>5, <2>1 DEF InSteps
  <1> QED
    BY <1>2, <1>3, <1>4, <1>5, <1>6 DEF Synced


-----------------------------------------------------------------------------
(***************************************************************************)
(* Modes that read a field and change no more than the state.              *)
(***************************************************************************)
\* What no mode but TYPE changes, and the window.
Carried(s, t) ==
  /\ DOMAIN s = StateFields
  /\ s.wrap = t.wrap /\ s.wsize = t.wsize /\ s.whave = t.whave /\ s.wnext = t.wnext
  /\ s.window = t.window

Lengthy == {"EXTRA", "COPY", "LENEXT", "DIST", "DISTEXT", "MATCH"}

Preserved(r) == Rest /\ Synced(r)

\* A step that touches only the state of inflate keeps all that is about numbers.
LEMMA RestStays ==
  ASSUME Rest, UNCHANGED <<stream, strm, inflater, call>>, Carried(state', state),
         state'.mode \in Lengthy => state'.length \in Nat, TableOK'
  PROVE  Rest'
  <1>1. Records'
    BY DEF Rest, Records, Carried
  <1>2. WindowOK'
    BY DEF Rest, WindowOK, Carried
  <1>3. Room'
    <2>1. Pushed' = Pushed /\ Running' = Running /\ BytesOf(stream)' = BytesOf(stream)
      BY DEF Pushed, Running
    <2> QED
      BY <2>1 DEF Rest, Room, Lengthy
  <1>4. Codes'
    BY DEF Rest, Codes
  <1> QED
    BY <1>1, <1>2, <1>3, <1>4 DEF Rest

\* The field that is read, and what a reader of the whole stream knows before it.
Ready(r, i) ==
  /\ i \in 1 .. Len(stream.fields) + 1 /\ Stands(r, i) /\ Here = NextField(i)
  /\ r[i].mode = state.mode /\ r[i].wrap = state.wrap /\ r[i].last = state.last
  /\ r[i].flags = state.flags
  /\ Here.width \in Nat
  /\ Here.wrong \in BOOLEAN /\ (Here.wrong => state.mode \in Refuses)
  /\ ~Here.wrong => IsSaid(state.mode, Here.says)
  /\ state.mode \in {"EXTRA", "COPY"} => r[i].count = state.length
  /\ state.mode \in Tabled => r[i].count = state.have /\ r[i].table = state.table
  /\ state.mode \in {"LENEXT", "DISTEXT"} => r[i].count = state.extra

\* In a mode that reads, with the bits of a stored block aligned, there is a field to read.
LEMMA FieldToRead ==
  ASSUME Rest, NEW r, IsReading(stream, r), Synced(r), ReadsField,
         state.mode # "STORED" \/ Width % 8 = 0
  PROVE  \E i : Ready(r, i)
  <1>1. PICK i \in 1 .. Len(stream.fields) + 1 : Stands(r, i)
    BY DEF Synced, InSteps
  <1>2. Records /\ Room
    BY DEF Rest
  <1>3. /\ r[i] = View(state) /\ r[i].mode = state.mode /\ Here = NextField(i)
        /\ Fits(r[i], NextField(i)) /\ NextField(i).width \in Nat
    BY <1>1, <1>2, FieldComes
  <1>4. /\ View(state).wrap = state.wrap /\ View(state).last = state.last
        /\ View(state).flags = state.flags
        /\ state.mode \in {"EXTRA", "COPY"} => View(state).count = state.length
        /\ state.mode \in Tabled => View(state).count = state.have /\ View(state).table = state.table
        /\ state.mode \in {"LENEXT", "DISTEXT"} => View(state).count = state.extra
    BY ViewFacts
  <1>5. Ready(r, i)
    BY <1>1, <1>3, <1>4 DEF Ready, Fits
  <1> QED
    BY <1>5

\* The decoder goes on in step with the reader: after a field if it read one, and else
\* where it is.
Follows(r) ==
  /\ Preserved(r)'
  /\ state'.mode # "BAD" =>
       \/ ReadsField /\ \E i : Ready(r, i) /\ Stands(r, i + 1)'
       \/ ~ReadsField /\ \A i : Stands(r, i) => Stands(r, i)'

\* Or it only gets ready for the field that comes next.
Waits(r) == Preserved(r)' /\ \A i : Stands(r, i) => Stands(r, i)'

\* A field read from hold: if the state then agrees with what the field says, the
\* decoder is in step with the reader after the field.
LEMMA FieldIsUsed ==
  ASSUME Rest, NEW r, IsReading(stream, r), Synced(r), NEW i, Ready(r, i),
         state.mode \in BitModes, ReadsField, Reads(state.mode),
         UNCHANGED <<stream, strm, inflater, call>>, Carried(state', state),
         state'.mode \in Lengthy => state'.length \in Nat, TableOK',
         state'.hold = Without(state.hold, Here.width)
           \/ (state.mode \in Bytewise \cup {"STORED"} /\ state'.hold = <<>>),
         state'.mode \in Bytewise => state'.hold = <<>>,
         state'.mode # "BAD" => Settled(View(state')) = Settled(AfterField(r[i], Here))
  PROVE  Follows(r)
  <1>1. Rest'
    BY RestStays
  <1>2. Records /\ Room /\ TableOK
    BY DEF Rest
  <1>3. /\ i \in 1 .. Len(stream.fields) + 1 /\ Stands(r, i) /\ Here = NextField(i)
    BY DEF Ready
  <1>4. NextByte' = NextByte /\ call'.at = call.at
    BY DEF NextByte
  <1>5. Synced(r)' /\ Stands(r, i + 1)'
    BY <1>2, <1>3, <1>4, FieldIsRead
  <1> QED
    BY <1>1, <1>5 DEF Follows, Preserved

\* A mode that says the data is bad.
LEMMA IsRefused ==
  ASSUME Rest, NEW r, Synced(r), In(state.mode), Becomes(Bad(state))
  PROVE  Follows(r)
  <1>1. UNCHANGED <<stream, strm, inflater, call>> /\ state' = [state EXCEPT !.mode = "BAD"]
    BY DEF Becomes, Bad
  <1>2. Carried(state', state) /\ state'.mode = "BAD" /\ state'.hold = state.hold
    BY <1>1 DEF Carried, Rest, Records, StateFields
  <1>3. Rest'
    BY <1>1, <1>2, RestStays DEF Lengthy, TableOK
  <1>4. NextByte' = NextByte
    BY <1>1 DEF NextByte
  <1>5. Synced(r)'
    BY <1>1, <1>2, <1>4, GoesBad DEF Rest
  <1> QED
    BY <1>2, <1>3, <1>5 DEF Follows, Preserved

\* A mode that goes on to another one and reads nothing.
LEMMA IsPassed ==
  ASSUME Rest, NEW r, Synced(r), call.at = "inflate", state.mode # "BAD", ~ReadsField,
         UNCHANGED <<stream, strm, inflater, call>>, Carried(state', state),
         state'.mode \in Lengthy => state'.length \in Nat, TableOK',
         state'.hold = state.hold, Width < 8,
         state'.mode \in Bytewise => Width = 0,
         state'.mode # "BAD" => Settled(View(state')) = Settled(View(state))
  PROVE  Follows(r)
  <1>1. Rest'
    BY RestStays
  <1>2. NextByte' = NextByte
    BY DEF NextByte
  <1>3. Synced(r)' /\ \A i : Stands(r, i) => Stands(r, i)'
    BY <1>2, NothingIsRead DEF Rest
  <1> QED
    BY <1>1, <1>3 DEF Follows, Preserved

-----------------------------------------------------------------------------
(***************************************************************************)
(* The header of zlib or gzip.                                             *)
(***************************************************************************)
LEMMA FewBits ==
  ASSUME Rest, NEW r, Synced(r), call.at = "inflate", state.mode # "BAD", BitsNeeded = 0
  PROVE  Width < 8 /\ (state.mode \in Bytewise => Width = 0)
  <1>1. PICK l \in Nat : l = Width
    BY DEF Synced, HoldOK
  <1>2. Short \/ Width < BitsNeeded + 8
    BY DEF Synced, Bounded
  <1>3. l < 8
    BY <1>1, <1>2 DEF Short
  <1>4. state.mode \in Bytewise => l % 8 = 0
    BY <1>1 DEF Synced
  <1> QED
    BY <1>1, <1>3, <1>4

\* Modes from which nothing is skipped, and those that lead to the next block.
LEMMA SettledIs ==
  ASSUME NEW v
  PROVE  /\ v.mode = "TYPE" \/ (v.mode = "HEAD" /\ v.wrap = 0) => Settled(v) = Block(v)
         /\ v.mode = "COPY" /\ v.count = 0 => Settled(v) = Block(v)
         /\ Settled(Block(v)) = Block(v)
         /\ v.mode \in {"FLAGS", "TIME", "OS", "EXLEN", "NAME", "COMMENT", "HCRC", "DICTID", "DICT",
                        "STORED", "TABLE", "LEN", "DIST", "CHECK", "LENGTH", "DONE", "BAD"} =>
              Settled(v) = v
  <1>1. v.mode = "TYPE" \/ (v.mode = "HEAD" /\ v.wrap = 0) => Settled(v) = Block(v)
    BY DEF Settled
  <1>2. v.mode = "COPY" /\ v.count = 0 => Settled(v) = Block(v)
    BY DEF Settled
  <1>3. v.mode \in {"FLAGS", "TIME", "OS", "EXLEN", "NAME", "COMMENT", "HCRC", "DICTID", "DICT",
                    "STORED", "TABLE", "LEN", "DIST", "CHECK", "LENGTH", "DONE", "BAD"} =>
          Settled(v) = v
    BY DEF Settled
  <1>4. Settled(Block(v)) = Block(v)
    <2>1. PICK b : b = Block(v)
      OBVIOUS
    <2>2. /\ b.wrap = v.wrap /\ b.last = v.last /\ b.flags = v.flags
          /\ b.mode = IF ~v.last THEN "TYPE" ELSE IF v.wrap = 0 THEN "DONE" ELSE "CHECK"
      BY <2>1 DEF Block, Step_, Reader
    <2>3. CASE b.mode = "TYPE"
      <3>1. Settled(b) = Block(b)
        BY <2>3 DEF Settled
      <3>2. Block(b) = Block(v)
        BY <2>2, SameReader
      <3> QED
        BY <2>1, <3>1, <3>2
    <2>4. CASE b.mode # "TYPE"
      <3>1. b.mode \in {"DONE", "CHECK"}
        BY <2>2, <2>4
      <3>2. Settled(b) = b
        BY <3>1 DEF Settled
      <3> QED
        BY <2>1, <3>2
    <2> QED
      BY <2>3, <2>4
  <1> QED
    BY <1>1, <1>2, <1>3, <1>4

\* Adding to the check of a gzip header changes nothing else.
LEMMA CrcFacts ==
  ASSUME NEW s, NEW says, DOMAIN s = StateFields
  PROVE  LET t == Crc(s, says) IN
         /\ Carried(t, s) /\ t.mode = s.mode /\ t.hold = s.hold /\ t.length = s.length
         /\ t.last = s.last /\ t.flags = s.flags
  BY DEF Crc, Carried, StateFields

\* The least number among those of the header's parts.
LEMMA LeastOfSix ==
  ASSUME NEW S \in SUBSET (1 .. 6), 6 \in S
  PROVE  Least(S) \in S /\ \A n \in S : Least(S) <= n
  <1>1. \E n \in S : \A k \in S : n <= k
    <2>1. CASE 1 \in S
      BY <2>1
    <2>2. CASE 1 \notin S /\ 2 \in S
      BY <2>2
    <2>3. CASE 1 \notin S /\ 2 \notin S /\ 3 \in S
      BY <2>3
    <2>4. CASE 1 \notin S /\ 2 \notin S /\ 3 \notin S /\ 4 \in S
      BY <2>4
    <2>5. CASE 1 \notin S /\ 2 \notin S /\ 3 \notin S /\ 4 \notin S /\ 5 \in S
      BY <2>5
    <2>6. CASE 1 \notin S /\ 2 \notin S /\ 3 \notin S /\ 4 \notin S /\ 5 \notin S
      BY <2>6
    <2> QED
      BY <2>1, <2>2, <2>3, <2>4, <2>5, <2>6
  <1> QED
    BY <1>1 DEF Least

\* The next part that the flags announce; the one with a length comes after its length.
LEMMA NextPart ==
  ASSUME NEW flags, NEW k \in 1 .. 6
  PROVE  LET m == GzipModes[Least({i \in k .. 6 : Announced(flags, GzipModes[i])})] IN
         /\ m \in {"EXLEN", "EXTRA", "NAME", "COMMENT", "HCRC", "TYPE"}
         /\ m = "EXTRA" => k = 2
         /\ m = "EXLEN" => k = 1
         /\ k = 6 => m = "TYPE"
  <1> DEFINE S == {i \in k .. 6 : Announced(flags, GzipModes[i])}
  <1>1. /\ GzipModes[1] = "EXLEN" /\ GzipModes[2] = "EXTRA" /\ GzipModes[3] = "NAME"
        /\ GzipModes[4] = "COMMENT" /\ GzipModes[5] = "HCRC" /\ GzipModes[6] = "TYPE"
    BY DEF GzipModes
  <1>2. S \in SUBSET (1 .. 6) /\ 6 \in S
    BY <1>1 DEF Announced
  <1>3. PICK n : n = Least(S) /\ n \in S /\ \A j \in S : n <= j
    BY <1>2, LeastOfSix
  <1>4. n \in k .. 6 /\ Announced(flags, GzipModes[n])
    BY <1>3
  <1>5. GzipModes[n] \in {"EXLEN", "EXTRA", "NAME", "COMMENT", "HCRC", "TYPE"}
    BY <1>1, <1>4
  <1>6. ASSUME GzipModes[n] = "EXTRA" PROVE k = 2
    <2>1. n = 2
      BY <1>1, <1>4, <1>6
    <2>2. k # 1
      <3> SUFFICES ASSUME k = 1 PROVE FALSE
        OBVIOUS
      <3>1. "EXTRA" \in flags
        BY <1>1, <1>4, <2>1 DEF Announced
      <3>2. 1 \in S
        BY <1>1, <3>1 DEF Announced
      <3>3. n <= 1
        BY <1>3, <3>2
      <3> QED
        BY <2>1, <3>3
    <2> QED
      BY <1>4, <2>1, <2>2
  <1>7. GzipModes[n] = "EXLEN" => k = 1
    BY <1>1, <1>4
  <1>8. k = 6 => GzipModes[n] = "TYPE"
    BY <1>1, <1>4
  <1> QED
    BY <1>3, <1>5, <1>6, <1>7, <1>8

\* From a part of the gzip header on, inflate() goes to the first one announced.
LEMMA FromFacts ==
  ASSUME NEW k \in 1 .. 6, NEW s, DOMAIN s = StateFields
  PROVE  LET t == From(k, s) IN
         /\ Carried(t, s) /\ t.hold = s.hold /\ t.length = s.length
         /\ t.last = s.last /\ t.flags = s.flags
         /\ t.mode = GzipModes[Least({i \in k .. 6 : Announced(s.flags, GzipModes[i])})]
         /\ t.mode \in {"EXLEN", "EXTRA", "NAME", "COMMENT", "HCRC", "TYPE"}
         /\ t.mode = "EXTRA" => k = 2
  <1>1. PICK n : n = Least({i \in k .. 6 : Announced(s.flags, GzipModes[i])})
    OBVIOUS
  <1>2. From(k, s) = [s EXCEPT !.mode = GzipModes[n], !.check = IF n = 6 THEN <<>> ELSE @]
    BY <1>1 DEF From
  <1>3. LET t == From(k, s) IN
        /\ Carried(t, s) /\ t.hold = s.hold /\ t.length = s.length
        /\ t.last = s.last /\ t.flags = s.flags /\ t.mode = GzipModes[n]
    BY <1>2 DEF Carried, StateFields
  <1> QED
    BY <1>1, <1>3, NextPart

\* The decoder and the reader go to the same part.
LEMMA SamePart ==
  ASSUME NEW k \in 1 .. 6, NEW s, DOMAIN s = StateFields, NEW v, NEW length,
         s.wrap = v.wrap, s.last = v.last, s.flags = v.flags,
         k = 2 => s.length = length
  PROVE  Settled(View(From(k, s))) = Settled(Optional(k, v, length))
  <1>0. PICK t, m : t = From(k, s) /\ m = t.mode
    OBVIOUS
  <1>1. /\ t = From(k, s) /\ m = t.mode
        /\ m = GzipModes[Least({i \in k .. 6 : Announced(v.flags, GzipModes[i])})]
        /\ t.wrap = v.wrap /\ t.last = v.last /\ t.flags = v.flags
        /\ t.length = s.length
        /\ m \in {"EXLEN", "EXTRA", "NAME", "COMMENT", "HCRC", "TYPE"}
        /\ m = "EXTRA" => k = 2
    BY <1>0, FromFacts DEF Carried
  <1>2. CASE m = "TYPE"
    <2>1. Optional(k, v, length) = Block(v)
      BY <1>1, <1>2 DEF Optional
    <2>2. View(t).mode = "TYPE" /\ View(t).wrap = v.wrap /\ View(t).last = v.last
          /\ View(t).flags = v.flags
      BY <1>1, <1>2, ViewFacts
    <2>3. Settled(View(t)) = Block(View(t)) /\ Block(View(t)) = Block(v)
      BY <2>2, SettledIs, SameReader
    <2>4. Settled(Block(v)) = Block(v)
      BY SettledIs
    <2> QED
      BY <1>1, <2>1, <2>3, <2>4
  <1>3. CASE m # "TYPE"
    <2>1. Optional(k, v, length) = Counts(v, m, IF m = "EXTRA" THEN length ELSE 0)
      BY <1>1, <1>3 DEF Optional
    <2>2. View(t) = Counts(t, m, IF m = "EXTRA" THEN length ELSE 0)
      <3>1. CASE m = "EXTRA"
        BY <1>1, <3>1, ViewIs
      <3>2. CASE m # "EXTRA"
        <4>1. m \notin Counted
          BY <1>1, <1>3, <3>2 DEF Counted
        <4>2. View(t) = Step_(t, m)
          BY <1>1, <4>1, ViewIs
        <4> QED
          BY <3>2, <4>2 DEF Step_, Counts
      <3> QED
        BY <3>1, <3>2
    <2>3. Counts(t, m, IF m = "EXTRA" THEN length ELSE 0)
            = Counts(v, m, IF m = "EXTRA" THEN length ELSE 0)
      BY <1>1, SameReader
    <2> QED
      BY <1>1, <2>1, <2>2, <2>3
  <1> QED
    BY <1>2, <1>3

\* What a reader does after a field that says something valid.
LEMMA AfterHeaderIs ==
  ASSUME NEW v, NEW f, f.wrong = FALSE
  PROVE  /\ v.mode = "HEAD" => AfterField(v, f) = Step_(v, HeadMode(f.says))
         /\ v.mode = "FLAGS" => AfterField(v, f) = Step_([v EXCEPT !.flags = f.says], "TIME")
         /\ v.mode = "TIME" => AfterField(v, f) = Step_(v, "OS")
         /\ v.mode = "OS" => AfterField(v, f) = Optional(1, v, 0)
         /\ v.mode = "EXLEN" => AfterField(v, f) = Optional(2, v, f.says)
         /\ v.mode = "EXTRA" => AfterField(v, f) = Counts(v, "EXTRA", v.count - 1)
         /\ v.mode = "NAME" => AfterField(v, f) = Named(4, v, f.says)
         /\ v.mode = "COMMENT" => AfterField(v, f) = Named(5, v, f.says)
         /\ v.mode = "HCRC" => AfterField(v, f) = Block(v)
         /\ v.mode = "DICTID" => AfterField(v, f) = Step_(v, "DICT")
         /\ v.mode = "CHECK" => AfterField(v, f) = Step_(v, IF v.flags = {} THEN "DONE" ELSE "LENGTH")
         /\ v.mode = "LENGTH" => AfterField(v, f) = Step_(v, "DONE")
  BY DEF AfterField, AfterHeader

\* What a reader does next in each mode of a block's beginning,
LEMMA AfterBlockIs ==
  ASSUME NEW v, NEW f, f.wrong = FALSE
  PROVE  /\ v.mode = "TYPE" => AfterField(v, f) =
              Step_([v EXCEPT !.last = f.says.last], BlockMode(f.says.type))
         /\ v.mode = "STORED" => AfterField(v, f) = Counts(v, "COPY", f.says)
         /\ v.mode = "COPY" => AfterField(v, f) = Counts(v, "COPY", v.count - 1)
         /\ v.mode = "TABLE" => AfterField(v, f) = AfterTable(v, f.says)
         /\ v.mode = "LENLENS" => AfterField(v, f) = Reader(v, "LENLENS", v.table, v.count + 1)
         /\ v.mode = "CODELENS" => AfterField(v, f) = AfterCodeLens(v, v.count + f.says.copy)
  BY DEF AfterField, AfterBlock

\* and in each mode of a token.
LEMMA AfterTokenIs ==
  ASSUME NEW v, NEW f, f.wrong = FALSE
  PROVE  /\ v.mode = "LEN" => AfterField(v, f) = Symbol(v, f.says)
         /\ v.mode = "LENEXT" => AfterField(v, f) = Step_(v, "DIST")
         /\ v.mode = "DIST" => AfterField(v, f) = Counts(v, "DISTEXT", f.says.extra)
         /\ v.mode = "DISTEXT" => AfterField(v, f) = Step_(v, "MATCH")
  BY DEF AfterField, AfterToken

\* Where the modes count nothing, the reader knows the mode and no more.
LEMMA SameStep ==
  ASSUME NEW s, NEW v, s.wrap = v.wrap, s.last = v.last, s.flags = v.flags, s.mode \notin Counted
  PROVE  View(s) = Step_(v, s.mode)
  BY ViewIs, SameReader

\* A field of the header or the trailer, after which hold is empty.
LEMMA HeaderIsUsed ==
  ASSUME Rest, NEW r, IsReading(stream, r), Synced(r), NEW i, Ready(r, i),
         state.mode \in BitModes \cap (Bytewise \cup {"STORED"}), ReadsField, Reads(state.mode),
         NEW s, Becomes(s), Carried(s, state), s.hold = <<>>, s.mode \notin Tabled \cup {"DISTEXT", "MATCH"},
         s.mode \in Lengthy => s.length \in Nat,
         s.mode # "BAD" => Settled(View(s)) = Settled(AfterField(r[i], Here))
  PROVE  Follows(r)
  <1>1. state' = s /\ UNCHANGED <<stream, strm, inflater, call>>
    BY DEF Becomes
  <1>2. TableOK'
    BY <1>1 DEF TableOK, Tabled
  <1> QED
    BY <1>1, <1>2, FieldIsUsed

\* SkipHead keeps the invariant: the decoder stays in step with the reader.
LEMMA SkipHeadKeeps ==
  ASSUME Rest, NEW r, Synced(r), SkipHead
  PROVE  Follows(r)
  <1>1. /\ call.at = "inflate" /\ state.mode = "HEAD" /\ state.wrap = 0
        /\ state' = [state EXCEPT !.mode = "TYPE"] /\ UNCHANGED <<stream, strm, inflater, call>>
    BY DEF SkipHead, In, Becomes
  <1>2. /\ Carried(state', state) /\ state'.mode = "TYPE" /\ state'.hold = state.hold
        /\ state'.last = state.last /\ state'.flags = state.flags
    BY <1>1 DEF Rest, Records, StateFields, Carried
  <1>3. Width < 8
    <2>1. BitsNeeded = 0
      BY <1>1 DEF BitsNeeded
    <2> QED
      BY <1>1, <2>1, FewBits
  <1>4. Settled(View(state')) = Settled(View(state))
    <2>1. PICK v, w : v = View(state) /\ w = View(state')
      OBVIOUS
    <2>2. v.mode = "HEAD" /\ v.wrap = 0 /\ v.last = state.last /\ v.flags = state.flags
      BY <1>1, <2>1, ViewFacts
    <2>3. w.mode = "TYPE" /\ w.wrap = 0 /\ w.last = state.last /\ w.flags = state.flags
      BY <1>1, <1>2, <2>1, ViewFacts DEF Carried
    <2>4. Settled(v) = Block(v) /\ Settled(w) = Block(w)
      BY <2>2, <2>3, SettledIs
    <2>5. Block(v) = Block(w)
      BY <2>2, <2>3, SameReader
    <2> QED
      BY <2>1, <2>4, <2>5
  <1> QED
    BY <1>1, <1>2, <1>3, <1>4, IsPassed DEF Lengthy, TableOK, Bytewise, ReadsField

\* ReadHead keeps the invariant: the decoder stays in step with the reader.
LEMMA ReadHeadKeeps ==
  ASSUME Rest, NEW r, IsReading(stream, r), Synced(r), ReadHead
  PROVE  Follows(r)
  <1>1. state.mode = "HEAD" /\ state.wrap # 0 /\ Reads(state.mode) /\ In(state.mode)
    BY DEF ReadHead, Reads, In
  <1>2. ReadsField /\ state.mode \in BitModes \cap (Bytewise \cup {"STORED"})
    BY <1>1 DEF ReadsField, BitModes, Bytewise
  <1>3. PICK i : Ready(r, i)
    BY <1>1, <1>2, FieldToRead
  <1>4. CASE Becomes(Bad(state))
    BY <1>1, <1>4, IsRefused
  <1>5. ASSUME NEW mode \in {"FLAGS", "TYPE", "DICTID"}, NEW s, Becomes(s), ~Here.wrong,
               \/ mode = "FLAGS" /\ Here.says = "gzip"
               \/ mode = "TYPE" /\ Here.says = "zlib"
               \/ mode = "DICTID" /\ Here.says = "dictionary",
               Carried(s, state), s.hold = <<>>, s.mode = mode,
               s.last = state.last, s.flags = state.flags
        PROVE  Follows(r)
    <2>1. AfterField(r[i], Here) = Step_(r[i], mode)
      <3>1. AfterField(r[i], Here) = Step_(r[i], HeadMode(Here.says))
        BY <1>1, <1>3, <1>5, AfterHeaderIs DEF Ready
      <3>2. HeadMode(Here.says) = mode
        BY <1>5 DEF HeadMode
      <3> QED
        BY <3>1, <3>2
    <2>2. View(s) = Step_(r[i], mode)
      <3>1. s.wrap = r[i].wrap /\ s.last = r[i].last /\ s.flags = r[i].flags
        BY <1>3, <1>5 DEF Ready, Carried
      <3> QED
        BY <1>5, <3>1, SameStep DEF Counted
    <2>3. s.mode \notin Tabled \cup Lengthy \cup {"DISTEXT", "MATCH"}
      BY <1>5 DEF Tabled, Lengthy
    <2> QED
      BY <1>1, <1>2, <1>3, <1>5, <2>1, <2>2, <2>3, HeaderIsUsed
  <1>6. CASE ~Here.wrong /\ Here.says = "gzip" /\
             Becomes([InitBits(state) EXCEPT !.mode = "FLAGS", !.check = <<"gzip">>])
    <2>1. PICK s : /\ s = [InitBits(state) EXCEPT !.mode = "FLAGS", !.check = <<"gzip">>]
                   /\ Becomes(s)
      BY <1>6
    <2>2. /\ Carried(s, state) /\ s.hold = <<>> /\ s.mode = "FLAGS"
          /\ s.last = state.last /\ s.flags = state.flags
      BY <2>1 DEF Rest, Records, StateFields, Carried, InitBits
    <2> QED
      BY <1>5, <1>6, <2>1, <2>2
  <1>7. CASE ~Here.wrong /\ Here.says = "zlib" /\
             Becomes([InitBits(state) EXCEPT !.mode = "TYPE", !.dmax = WSIZE])
    <2>1. PICK s : s = [InitBits(state) EXCEPT !.mode = "TYPE", !.dmax = WSIZE] /\ Becomes(s)
      BY <1>7
    <2>2. /\ Carried(s, state) /\ s.hold = <<>> /\ s.mode = "TYPE"
          /\ s.last = state.last /\ s.flags = state.flags
      BY <2>1 DEF Rest, Records, StateFields, Carried, InitBits
    <2> QED
      BY <1>5, <1>7, <2>1, <2>2
  <1>8. CASE ~Here.wrong /\ Here.says = "dictionary" /\
             Becomes([InitBits(state) EXCEPT !.mode = "DICTID", !.dmax = WSIZE])
    <2>1. PICK s : s = [InitBits(state) EXCEPT !.mode = "DICTID", !.dmax = WSIZE] /\ Becomes(s)
      BY <1>8
    <2>2. /\ Carried(s, state) /\ s.hold = <<>> /\ s.mode = "DICTID"
          /\ s.last = state.last /\ s.flags = state.flags
      BY <2>1 DEF Rest, Records, StateFields, Carried, InitBits
    <2> QED
      BY <1>5, <1>8, <2>1, <2>2
  <1> QED
    BY <1>4, <1>6, <1>7, <1>8 DEF ReadHead

\* ReadFlags keeps the invariant: the decoder stays in step with the reader.
LEMMA ReadFlagsKeeps ==
  ASSUME Rest, NEW r, IsReading(stream, r), Synced(r), ReadFlags
  PROVE  Follows(r)
  <1>1. state.mode = "FLAGS" /\ Reads(state.mode) /\ In(state.mode)
    BY DEF ReadFlags, Reads, In
  <1>2. ReadsField /\ state.mode \in BitModes \cap (Bytewise \cup {"STORED"})
    BY <1>1 DEF ReadsField, BitModes, Bytewise
  <1>3. PICK i : Ready(r, i)
    BY <1>1, <1>2, FieldToRead
  <1>4. CASE Becomes(Bad(state))
    BY <1>1, <1>4, IsRefused
  <1>5. CASE ~Here.wrong /\
             Becomes(Crc([InitBits(state) EXCEPT !.mode = "TIME", !.flags = Here.says], Here.says))
    <2>1. PICK t, s : /\ t = [InitBits(state) EXCEPT !.mode = "TIME", !.flags = Here.says]
                      /\ s = Crc(t, Here.says) /\ Becomes(s)
      BY <1>5
    <2>2. /\ Carried(t, state) /\ t.hold = <<>> /\ t.mode = "TIME"
          /\ t.last = state.last /\ t.flags = Here.says
      BY <2>1 DEF Rest, Records, StateFields, Carried, InitBits
    <2>3. /\ Carried(s, state) /\ s.hold = <<>> /\ s.mode = "TIME"
          /\ s.last = state.last /\ s.flags = Here.says
      <3>1. DOMAIN t = StateFields
        BY <2>2 DEF Carried
      <3>2. /\ Carried(s, t) /\ s.mode = t.mode /\ s.hold = t.hold
            /\ s.last = t.last /\ s.flags = t.flags
        BY <2>1, <3>1, CrcFacts
      <3> QED
        BY <2>2, <3>2 DEF Carried
    <2>4. AfterField(r[i], Here) = Step_([r[i] EXCEPT !.flags = Here.says], "TIME")
      <3>1. r[i].mode = "FLAGS" /\ Here.wrong = FALSE
        BY <1>1, <1>3, <1>5 DEF Ready
      <3> QED
        BY <3>1, AfterHeaderIs
    <2>5. View(s) = Step_([r[i] EXCEPT !.flags = Here.says], "TIME")
      <3>1. View(s) = Reader(s, "TIME", <<>>, 0)
        BY <2>3, ViewIs DEF Step_, Counted
      <3>2. r[i] = View(state)
        <4>1. Settled(View(state)) = View(state) /\ state.mode # "BAD"
          BY <1>1, <1>2, ReadingIsSettled
        <4> QED
          BY <1>3, <4>1 DEF Ready, Stands
      <3>3. /\ [r[i] EXCEPT !.flags = Here.says].wrap = s.wrap
            /\ [r[i] EXCEPT !.flags = Here.says].last = s.last
            /\ [r[i] EXCEPT !.flags = Here.says].flags = s.flags
        BY <1>3, <2>3, <3>2 DEF Ready, Carried, View, Reader
      <3> QED
        BY <3>1, <3>3 DEF Step_, Reader
    <2>6. s.mode \notin Tabled \cup Lengthy \cup {"DISTEXT", "MATCH"}
      BY <2>3 DEF Tabled, Lengthy
    <2>7. Settled(View(s)) = Settled(AfterField(r[i], Here))
      BY <2>4, <2>5
    <2> QED
      BY <1>1, <1>2, <1>3, <2>1, <2>3, <2>6, <2>7, HeaderIsUsed
  <1> QED
    BY <1>4, <1>5 DEF ReadFlags

\* The fields of the header and the trailer that are read whole.
LEMMA WholeField ==
  ASSUME Rest, NEW r, IsReading(stream, r), Synced(r),
         NEW mode \in {"TIME", "OS", "EXLEN", "HCRC", "DICTID", "STORED", "CHECK", "LENGTH"},
         Reads(mode)
  PROVE  /\ state.mode = mode /\ Reads(state.mode) /\ In(state.mode) /\ ReadsField
         /\ state.mode \in BitModes \cap (Bytewise \cup {"STORED"})
         /\ \E i : /\ Ready(r, i) /\ r[i].mode = mode
                   /\ Here.wrong \in BOOLEAN /\ (mode # "STORED" => Here.wrong = FALSE)
  <1>1. state.mode = mode /\ Reads(state.mode) /\ In(state.mode)
    BY DEF Reads, In
  <1>2. ReadsField /\ state.mode \in BitModes \cap (Bytewise \cup {"STORED"})
    BY <1>1 DEF ReadsField, BitModes, Bytewise
  <1>3. state.mode # "STORED" \/ Width % 8 = 0
    BY <1>1 DEF Reads, StoredBegins, Width
  <1>4. PICK i : Ready(r, i)
    BY <1>2, <1>3, FieldToRead
  <1>5. /\ r[i].mode = mode /\ Here.wrong \in BOOLEAN
        /\ mode # "STORED" => Here.wrong = FALSE
    BY <1>1, <1>4 DEF Ready, Refuses
  <1> QED
    BY <1>1, <1>2, <1>4, <1>5

\* To a mode that the reader goes to in one step.
LEMMA StepsOn ==
  ASSUME Rest, NEW r, IsReading(stream, r), Synced(r), NEW i, Ready(r, i),
         state.mode \in BitModes \cap (Bytewise \cup {"STORED"}), ReadsField, Reads(state.mode),
         NEW s, Becomes(s), Carried(s, state), s.hold = <<>>,
         s.last = state.last, s.flags = state.flags,
         s.mode \notin Counted \cup Lengthy,
         AfterField(r[i], Here) = Step_(r[i], s.mode)
  PROVE  Follows(r)
  <1>1. s.wrap = r[i].wrap /\ s.last = r[i].last /\ s.flags = r[i].flags
    BY DEF Ready, Carried
  <1>2. View(s) = Step_(r[i], s.mode)
    BY <1>1, SameStep
  <1>3. s.mode \notin Tabled \cup {"DISTEXT", "MATCH"} /\ s.mode \notin Lengthy
    BY DEF Tabled, Counted, Lengthy
  <1>4. Settled(View(s)) = Settled(AfterField(r[i], Here))
    BY <1>2
  <1> QED
    BY <1>3, <1>4, HeaderIsUsed

\* ReadTime keeps the invariant: the decoder stays in step with the reader.
LEMMA ReadTimeKeeps ==
  ASSUME Rest, NEW r, IsReading(stream, r), Synced(r), ReadTime
  PROVE  Follows(r)
  <1>1. /\ state.mode = "TIME" /\ Reads(state.mode) /\ In(state.mode) /\ ReadsField
        /\ state.mode \in BitModes \cap (Bytewise \cup {"STORED"})
        /\ \E i : Ready(r, i) /\ r[i].mode = "TIME" /\ Here.wrong = FALSE
    BY WholeField DEF ReadTime
  <1>2. PICK i : Ready(r, i) /\ r[i].mode = "TIME" /\ Here.wrong = FALSE
    BY <1>1
  <1>3. PICK t, s : /\ t = [InitBits(state) EXCEPT !.mode = "OS"]
                    /\ s = Crc(t, Here.says) /\ Becomes(s)
    BY DEF ReadTime
  <1>4. DOMAIN t = StateFields /\ Carried(t, state) /\ t.hold = <<>> /\ t.mode = "OS"
        /\ t.last = state.last /\ t.flags = state.flags
    BY <1>3 DEF Rest, Records, StateFields, Carried, InitBits
  <1>5. /\ Carried(s, t) /\ s.mode = t.mode /\ s.hold = t.hold
        /\ s.last = t.last /\ s.flags = t.flags
    BY <1>3, <1>4, CrcFacts
  <1>6. Carried(s, state)
    BY <1>4, <1>5 DEF Carried
  <1>7. AfterField(r[i], Here) = Step_(r[i], "OS")
    BY <1>2, AfterHeaderIs
  <1>8. s.mode \notin Counted \cup Lengthy
    BY <1>4, <1>5 DEF Counted, Lengthy
  <1> QED
    BY <1>1, <1>2, <1>3, <1>4, <1>5, <1>6, <1>7, <1>8, StepsOn

\* ReadDictId keeps the invariant: the decoder stays in step with the reader.
LEMMA ReadDictIdKeeps ==
  ASSUME Rest, NEW r, IsReading(stream, r), Synced(r), ReadDictId
  PROVE  Follows(r)
  <1>1. /\ state.mode = "DICTID" /\ Reads(state.mode) /\ In(state.mode) /\ ReadsField
        /\ state.mode \in BitModes \cap (Bytewise \cup {"STORED"})
        /\ \E i : Ready(r, i) /\ r[i].mode = "DICTID" /\ Here.wrong = FALSE
    BY WholeField DEF ReadDictId
  <1>2. PICK i : Ready(r, i) /\ r[i].mode = "DICTID" /\ Here.wrong = FALSE
    BY <1>1
  <1>3. PICK s : s = [InitBits(state) EXCEPT !.mode = "DICT"] /\ Becomes(s)
    BY DEF ReadDictId
  <1>4. Carried(s, state) /\ s.hold = <<>> /\ s.mode = "DICT"
        /\ s.last = state.last /\ s.flags = state.flags
    BY <1>3 DEF Rest, Records, StateFields, Carried, InitBits
  <1>5. AfterField(r[i], Here) = Step_(r[i], "DICT")
    BY <1>2, AfterHeaderIs
  <1>6. s.mode \notin Counted \cup Lengthy
    BY <1>4 DEF Counted, Lengthy
  <1> QED
    BY <1>1, <1>2, <1>3, <1>4, <1>5, <1>6, StepsOn

\* ReadLength keeps the invariant: the decoder stays in step with the reader.
LEMMA ReadLengthKeeps ==
  ASSUME Rest, NEW r, IsReading(stream, r), Synced(r), ReadLength
  PROVE  Follows(r)
  <1>1. /\ state.mode = "LENGTH" /\ Reads(state.mode) /\ In(state.mode) /\ ReadsField
        /\ state.mode \in BitModes \cap (Bytewise \cup {"STORED"})
        /\ \E i : Ready(r, i) /\ r[i].mode = "LENGTH" /\ Here.wrong = FALSE
    BY WholeField DEF ReadLength
  <1>2. PICK i : Ready(r, i) /\ r[i].mode = "LENGTH" /\ Here.wrong = FALSE
    BY <1>1
  <1>3. CASE Becomes(Bad(state))
    BY <1>1, <1>3, IsRefused
  <1>4. CASE Becomes([InitBits(state) EXCEPT !.mode = "DONE"])
    <2>1. PICK s : s = [InitBits(state) EXCEPT !.mode = "DONE"] /\ Becomes(s)
      BY <1>4
    <2>2. Carried(s, state) /\ s.hold = <<>> /\ s.mode = "DONE"
          /\ s.last = state.last /\ s.flags = state.flags
      BY <2>1 DEF Rest, Records, StateFields, Carried, InitBits
    <2>3. AfterField(r[i], Here) = Step_(r[i], "DONE")
      BY <1>2, AfterHeaderIs
    <2>4. s.mode \notin Counted \cup Lengthy
      BY <2>2 DEF Counted, Lengthy
    <2> QED
      BY <1>1, <1>2, <2>1, <2>2, <2>3, <2>4, StepsOn
  <1> QED
    BY <1>3, <1>4 DEF ReadLength

\* To the next part that the flags announce.
LEMMA PartComes ==
  ASSUME Rest, NEW r, IsReading(stream, r), Synced(r), NEW i, Ready(r, i),
         state.mode \in BitModes \cap (Bytewise \cup {"STORED"}), ReadsField, Reads(state.mode),
         NEW k \in 1 .. 6, NEW s, Becomes(From(k, s)), Carried(s, state), s.hold = <<>>,
         s.last = state.last, s.flags = state.flags, NEW length,
         k = 2 => s.length = length /\ length \in Nat,
         Settled(AfterField(r[i], Here)) = Settled(Optional(k, r[i], length))
  PROVE  Follows(r)
  <1>1. PICK t : t = From(k, s)
    OBVIOUS
  <1>2. DOMAIN s = StateFields
    BY DEF Carried
  <1>3. /\ Carried(t, s) /\ t.hold = <<>> /\ t.length = s.length
        /\ t.mode \in {"EXLEN", "EXTRA", "NAME", "COMMENT", "HCRC", "TYPE"}
        /\ t.mode = "EXTRA" => k = 2
    BY <1>1, <1>2, FromFacts
  <1>4. Carried(t, state)
    BY <1>3 DEF Carried
  <1>5. s.wrap = r[i].wrap /\ s.last = r[i].last /\ s.flags = r[i].flags
    BY DEF Ready, Carried
  <1>6. Settled(View(t)) = Settled(Optional(k, r[i], length))
    BY <1>1, <1>2, <1>5, SamePart
  <1>7. t.mode \notin Tabled \cup {"DISTEXT", "MATCH"} /\ (t.mode \in Lengthy => t.length \in Nat)
    BY <1>3 DEF Tabled, Lengthy
  <1> QED
    BY <1>1, <1>3, <1>4, <1>6, <1>7, HeaderIsUsed

\* ReadOs keeps the invariant: the decoder stays in step with the reader.
LEMMA ReadOsKeeps ==
  ASSUME Rest, NEW r, IsReading(stream, r), Synced(r), ReadOs
  PROVE  Follows(r)
  <1>1. /\ state.mode = "OS" /\ Reads(state.mode) /\ In(state.mode) /\ ReadsField
        /\ state.mode \in BitModes \cap (Bytewise \cup {"STORED"})
        /\ \E i : Ready(r, i) /\ r[i].mode = "OS" /\ Here.wrong = FALSE
    BY WholeField DEF ReadOs
  <1>2. PICK i : Ready(r, i) /\ r[i].mode = "OS" /\ Here.wrong = FALSE
    BY <1>1
  <1>3. PICK t, s : t = InitBits(state) /\ s = Crc(t, Here.says) /\ Becomes(From(1, s))
    BY DEF ReadOs
  <1>4. DOMAIN t = StateFields /\ Carried(t, state) /\ t.hold = <<>>
        /\ t.last = state.last /\ t.flags = state.flags
    BY <1>3 DEF Rest, Records, StateFields, Carried, InitBits
  <1>5. Carried(s, t) /\ s.hold = t.hold /\ s.last = t.last /\ s.flags = t.flags
    BY <1>3, <1>4, CrcFacts
  <1>6. Carried(s, state)
    BY <1>4, <1>5 DEF Carried
  <1>7. AfterField(r[i], Here) = Optional(1, r[i], 0)
    BY <1>2, AfterHeaderIs
  <1>8. Settled(AfterField(r[i], Here)) = Settled(Optional(1, r[i], 0))
    BY <1>7
  <1>9. Becomes(From(1, s)) /\ s.hold = <<>> /\ s.last = state.last /\ s.flags = state.flags
    BY <1>3, <1>4, <1>5
  <1>10. 1 \in 1 .. 6 /\ 1 # 2
    OBVIOUS
  <1> QED
    BY <1>1, <1>2, <1>6, <1>8, <1>9, <1>10, PartComes

\* ReadExLen keeps the invariant: the decoder stays in step with the reader.
LEMMA ReadExLenKeeps ==
  ASSUME Rest, NEW r, IsReading(stream, r), Synced(r), ReadExLen
  PROVE  Follows(r)
  <1>1. /\ state.mode = "EXLEN" /\ Reads(state.mode) /\ In(state.mode) /\ ReadsField
        /\ state.mode \in BitModes \cap (Bytewise \cup {"STORED"})
        /\ \E i : Ready(r, i) /\ r[i].mode = "EXLEN" /\ Here.wrong = FALSE
    BY WholeField DEF ReadExLen
  <1>2. PICK i : Ready(r, i) /\ r[i].mode = "EXLEN" /\ Here.wrong = FALSE
    BY <1>1
  <1>3. PICK t, s : /\ t = [InitBits(state) EXCEPT !.length = Here.says]
                    /\ s = Crc(t, Here.says) /\ Becomes(From(2, s))
    BY DEF ReadExLen
  <1>4. DOMAIN t = StateFields /\ Carried(t, state) /\ t.hold = <<>> /\ t.length = Here.says
        /\ t.last = state.last /\ t.flags = state.flags
    BY <1>3 DEF Rest, Records, StateFields, Carried, InitBits
  <1>5. /\ Carried(s, t) /\ s.hold = t.hold /\ s.length = t.length
        /\ s.last = t.last /\ s.flags = t.flags
    BY <1>3, <1>4, CrcFacts
  <1>6. Carried(s, state)
    BY <1>4, <1>5 DEF Carried
  <1>7. AfterField(r[i], Here) = Optional(2, r[i], Here.says)
    BY <1>2, AfterHeaderIs
  <1>8. Here.says \in Nat
    BY <1>1, <1>2 DEF Ready, IsSaid
  <1> QED
    BY <1>1, <1>2, <1>3, <1>4, <1>5, <1>6, <1>7, <1>8, PartComes

\* After the last part of a gzip header comes the first block.
LEMMA LastPart ==
  ASSUME NEW v
  PROVE  Optional(6, v, 0) = Block(v)
  <1>1. PICK S : S = {i \in 6 .. 6 : Announced(v.flags, GzipModes[i])}
    OBVIOUS
  <1>2. S \in SUBSET (1 .. 6) /\ 6 \in S
    BY <1>1 DEF Announced, GzipModes
  <1>3. Least(S) = 6
    BY <1>1, <1>2, LeastOfSix
  <1> QED
    BY <1>1, <1>3 DEF Optional, GzipModes

\* ReadHCrc keeps the invariant: the decoder stays in step with the reader.
LEMMA ReadHCrcKeeps ==
  ASSUME Rest, NEW r, IsReading(stream, r), Synced(r), ReadHCrc
  PROVE  Follows(r)
  <1>1. /\ state.mode = "HCRC" /\ Reads(state.mode) /\ In(state.mode) /\ ReadsField
        /\ state.mode \in BitModes \cap (Bytewise \cup {"STORED"})
        /\ \E i : Ready(r, i) /\ r[i].mode = "HCRC" /\ Here.wrong = FALSE
    BY WholeField DEF ReadHCrc
  <1>2. PICK i : Ready(r, i) /\ r[i].mode = "HCRC" /\ Here.wrong = FALSE
    BY <1>1
  <1>3. CASE Becomes(Bad(state))
    BY <1>1, <1>3, IsRefused
  <1>4. CASE Becomes(From(6, InitBits(state)))
    <2>1. PICK s : s = InitBits(state) /\ Becomes(From(6, s))
      BY <1>4
    <2>2. Carried(s, state) /\ s.hold = <<>> /\ s.last = state.last /\ s.flags = state.flags
      BY <2>1 DEF Rest, Records, StateFields, Carried, InitBits
    <2>3. AfterField(r[i], Here) = Block(r[i])
      BY <1>2, AfterHeaderIs
    <2>4. Optional(6, r[i], 0) = Block(r[i])
      BY LastPart
    <2> QED
      BY <1>1, <1>2, <2>1, <2>2, <2>3, <2>4, PartComes
  <1> QED
    BY <1>3, <1>4 DEF ReadHCrc

-----------------------------------------------------------------------------
(***************************************************************************)
(* Bytes that are taken as they are.                                       *)
(***************************************************************************)
\* n bytes go from the input to the decoder, and perhaps others to the output.
Moved(n) ==
  /\ DOMAIN strm' = StrmFields /\ strm'.given = strm.given
  /\ strm'.next_in = strm.next_in + n /\ strm'.avail_in = strm.avail_in - n
  /\ strm'.avail_out \in 0 .. strm.avail_out /\ Len(strm'.output) \in Nat

\* Bytes taken from the input or put back move the next byte on or back.
LEMMA TakenMoves ==
  ASSUME Rest, NEW n \in Int, NEW bytes, Len(bytes) \in 0 .. strm.avail_out,
         strm' = Taken(n) \/ strm' = Put(Taken(n), bytes) \/ (n = 0 /\ strm' = Put(strm, bytes))
           \/ (n = 0 /\ strm' = strm)
  PROVE  Moved(n) /\ NextByte' = NextByte + n
  <1>1. PICK a, b, c \in Nat : a = strm.next_in /\ b = strm.avail_in /\ c = strm.avail_out
    BY DEF Rest, Room
  <1>2. strm.given \in Nat
    BY DEF Rest, Room
  <1>3. PICK t : /\ t = IF n = 0 /\ (strm' = Put(strm, bytes) \/ strm' = strm) THEN strm ELSE Taken(n)
                 /\ strm' = t \/ strm' = Put(t, bytes)
    OBVIOUS
  <1>4. /\ DOMAIN t = StrmFields /\ t.given = strm.given
        /\ t.next_in = a + n /\ t.avail_in = b - n /\ t.avail_out = c
        /\ t.output = strm.output
    <2>1. CASE t = strm /\ n = 0
      BY <1>1, <2>1 DEF Rest, Records
    <2>2. CASE t = Taken(n)
      BY <1>1, <2>2 DEF Taken, Rest, Records, StrmFields
    <2> QED
      BY <1>3, <2>1, <2>2
  <1>5. PICK l \in 0 .. c : l = Len(bytes)
    BY <1>1
  <1>6. PICK k \in Nat : k = Len(t.output)
    BY <1>4 DEF Rest, Room
  <1>7. /\ DOMAIN strm' = StrmFields /\ strm'.given = strm.given /\ Len(strm'.output) \in Nat
        /\ strm'.next_in = a + n /\ strm'.avail_in = b - n /\ strm'.avail_out \in 0 .. c
    <2>1. CASE strm' = t
      BY <1>4, <1>6, <2>1
    <2>2. CASE strm' = Put(t, bytes)
      <3>1. /\ DOMAIN strm' = StrmFields /\ strm'.given = t.given
            /\ strm'.next_in = t.next_in /\ strm'.avail_in = t.avail_in
            /\ strm'.avail_out = t.avail_out - Len(bytes)
            /\ strm'.output = t.output \o bytes
        BY <1>4, <2>2 DEF Put, StrmFields
      <3>2. c - l \in 0 .. c
        BY <1>5
      <3>3. Len(t.output \o bytes) = k + l
        <4>1. t.output \o bytes = [i \in 1 .. Len(t.output) + Len(bytes) |->
                IF i <= Len(t.output) THEN t.output[i] ELSE bytes[i - Len(t.output)]]
          OBVIOUS
        <4>2. k + l \in Nat /\ Len(t.output) + Len(bytes) = k + l
          BY <1>5, <1>6
        <4> QED
          BY <4>1, <4>2
      <3>4. k + l \in Nat
        BY <1>5
      <3> QED
        BY <1>4, <1>5, <3>1, <3>2, <3>3, <3>4
    <2> QED
      BY <1>3, <2>1, <2>2
  <1> QED
    BY <1>1, <1>2, <1>7 DEF NextByte, Moved

\* A step that moves in the input and keeps within it keeps all that is about numbers.
LEMMA RestMoves ==
  ASSUME Rest, NEW n \in Int, Moved(n), strm.next_in + n >= 0, n <= strm.avail_in, Running,
         UNCHANGED <<stream, inflater>>, call'.at \in {"inflate", "fast"},
         DOMAIN call' = CallFields, call'.ret = call.ret,
         call'.out \in Nat, strm'.avail_out <= call'.out,
         Carried(state', state), state'.mode \in Lengthy => state'.length \in Nat, TableOK'
  PROVE  Rest'
  <1>1. PICK a, b, c, d, g \in Nat : /\ a = strm.next_in /\ b = strm.avail_in /\ c = strm.avail_out
                                  /\ d = inflater.chunkSize /\ g = strm.given /\ c <= d
    BY DEF Rest, Room
  <1>2. a + n >= 0 /\ n <= b
    BY <1>1
  <1>3. PICK c2 : /\ DOMAIN strm' = StrmFields /\ strm'.given = g
                  /\ strm'.next_in = a + n /\ strm'.avail_in = b - n
                  /\ strm'.avail_out = c2 /\ c2 \in 0 .. c /\ Len(strm'.output) \in Nat
    BY <1>1 DEF Moved
  <1>4. Records'
    BY <1>3 DEF Rest, Records, Carried
  <1>5. WindowOK'
    BY DEF Rest, WindowOK, Carried
  <1>6. Room'
    <2>1. /\ strm'.given \in Nat /\ strm'.next_in \in Nat /\ strm'.avail_in \in Nat
      <3>1. b - n \in Nat /\ a + n \in Nat
        BY <1>2
      <3> QED
        BY <1>3, <3>1
    <2>2. strm'.avail_out \in Nat /\ strm'.avail_out <= d
      <3>1. c2 \in Nat /\ c2 <= d
        BY <1>1, <1>3
      <3> QED
        BY <1>3, <3>1
    <2>3. BytesOf(stream)' = BytesOf(stream) /\ inflater' = inflater
      OBVIOUS
    <2>4. Pushed' = Pushed
      <3>1. g + (a + n) + (b - n) = g + a + b
        BY <1>2
      <3> QED
        BY <1>1, <1>3, <3>1 DEF Pushed
    <2>5. Pushed' <= BytesOf(stream)'
      BY <2>3, <2>4 DEF Rest, Room
    <2> QED
      BY <1>1, <1>3, <2>1, <2>2, <2>3, <2>5 DEF Rest, Room, Lengthy
  <1>7. Codes'
    BY DEF Rest, Codes, Running
  <1> QED
    BY <1>4, <1>5, <1>6, <1>7 DEF Rest

\* No bits are held where inflate() takes whole bytes from the input.
LEMMA NoBitsInBytes ==
  ASSUME Rest, NEW r, Synced(r), call.at = "inflate", state.mode \in TakesBytes
  PROVE  Width = 0 /\ state.hold = <<>> /\ NextBit = 8 * NextByte /\ NextByte \in Nat
  <1>1. BitsNeeded = 0 /\ state.mode # "BAD" /\ state.mode \in Bytewise
    BY DEF BitsNeeded, TakesBytes, Bytewise
  <1>2. Width = 0
    BY <1>1, FewBits
  <1>3. NextByte \in Nat /\ NextBit = 8 * NextByte - Width /\ state.hold = <<>>
    BY <1>2, HoldNow DEF Rest, Synced
  <1> QED
    BY <1>2, <1>3

\* A field of one byte taken straight from the input.
LEMMA ByteIsTaken ==
  ASSUME Rest, NEW r, IsReading(stream, r), Synced(r), NEW i, Ready(r, i),
         state.mode \in TakesBytes, ReadsField, call.at = "inflate", strm.avail_in > 0,
         strm' = Taken(1), UNCHANGED <<stream, inflater, call>>,
         Carried(state', state), state'.hold = state.hold,
         state'.mode \in Lengthy => state'.length \in Nat, TableOK',
         state'.mode # "BAD", Settled(View(state')) = Settled(AfterField(r[i], Here))
  PROVE  Follows(r)
  <1>1. 1 \in Int /\ 1 <= strm.avail_in /\ strm.next_in + 1 >= 0
    BY DEF Rest, Room
  <1>2. Moved(1) /\ NextByte' = NextByte + 1
    <2>1. Len(<<>>) \in 0 .. strm.avail_out
      BY DEF Rest, Room
    <2> QED
      BY <1>1, <2>1, TakenMoves
  <1>3. Rest'
    <2>1. strm.avail_out \in Nat /\ call.out \in Nat /\ strm.avail_out <= call.out /\ Running
      BY DEF Rest, Room, Running
    <2>2. strm'.avail_out <= strm.avail_out /\ strm'.avail_out \in Nat
      BY <1>2, <2>1 DEF Moved
    <2>3. /\ call'.at \in {"inflate", "fast"}
          /\ DOMAIN call' = CallFields /\ call'.ret = call.ret /\ call'.out \in Nat
          /\ strm'.avail_out <= call'.out
      BY <2>1, <2>2 DEF Rest, Records
    <2> QED
      BY <1>1, <1>2, <2>1, <2>3, RestMoves
  <1>4. Width = 0 /\ state.hold = <<>> /\ NextBit = 8 * NextByte /\ NextByte \in Nat
    BY NoBitsInBytes
  <1>5. HoldOK' /\ Width' = 0 /\ NextBit' = NextBit + 8
    <2>1. NextByte' \in Nat
      BY <1>2, <1>4
    <2>2. HoldOK' /\ Width' = 0 /\ NextBit' = 8 * NextByte'
      BY <1>4, <2>1, NoBitsAreLeft DEF Rest
    <2> QED
      BY <1>2, <1>4, <2>2
  <1>6. Stands(r, i) /\ i \in 1 .. Len(stream.fields) + 1 /\ Here = NextField(i)
    BY DEF Ready
  <1>7. Records /\ Room /\ TableOK
    BY DEF Rest
  <1>8. state.mode # "STORED"
    BY DEF TakesBytes
  <1>9. /\ i \in 1 .. Len(stream.fields) /\ i + 1 \in 1 .. Len(stream.fields) + 1
        /\ r[i].mode = state.mode /\ state.mode \notin Ended
        /\ NextField(i).at = NextBit /\ r[i + 1] = After(r[i], NextField(i))
    BY <1>6, <1>7, <1>8, FieldComes
  <1>10. NextField(i).width = 8
    BY <1>6, <1>7, <1>8, NeededIsWidth
  <1>11. Stands(r, i + 1)'
    <2>1. r[i + 1] = Settled(View(state'))
      BY <1>6, <1>9 DEF After
    <2>2. ASSUME r[i + 1].mode \notin Ended
          PROVE  stream.fields[i + 1].at = Start(r[i + 1].mode, NextBit')
      <3>1. i + 1 # 1 /\ (i + 1) - 1 = i
        BY <1>9
      <3>2. stream.fields[i + 1].at = Start(r[i + 1].mode, EndOfField(stream.fields[i]))
        BY <1>9, <2>2, <3>1 DEF IsReading
      <3>3. EndOfField(stream.fields[i]) = NextBit + 8
        BY <1>9, <1>10 DEF EndOfField, NextField
      <3> QED
        BY <1>5, <3>2, <3>3
    <2> QED
      BY <1>9, <2>1, <2>2 DEF Stands
  <1>12. InSteps(r)'
    BY <1>9, <1>11 DEF InSteps
  <1>13. Bounded'
    BY <1>5 DEF Bounded, Short
  <1>14. Synced(r)'
    BY <1>5, <1>12, <1>13 DEF Synced
  <1> QED
    BY <1>3, <1>11, <1>14 DEF Follows, Preserved

\* A byte of the header goes to the header and changes nothing else.
LEMMA HeadByteFacts ==
  ASSUME Rest, NEW part
  PROVE  LET h == HeadByte(part) IN
         /\ Carried(h, state) /\ h.mode = state.mode /\ h.hold = state.hold
         /\ h.length = state.length /\ h.last = state.last /\ h.flags = state.flags
  <1>1. PICK t : t = [state EXCEPT !.head[part] = Append(@, Here.says)]
    OBVIOUS
  <1>2. /\ DOMAIN t = StateFields /\ Carried(t, state) /\ t.mode = state.mode
        /\ t.hold = state.hold /\ t.length = state.length /\ t.last = state.last
        /\ t.flags = state.flags
    BY <1>1 DEF Rest, Records, StateFields, Carried
  <1>3. PICK h : h = Crc(t, Here.says)
    OBVIOUS
  <1>4. /\ Carried(h, t) /\ h.mode = t.mode /\ h.hold = t.hold /\ h.length = t.length
        /\ h.last = t.last /\ h.flags = t.flags
    <2>1. DOMAIN t = StateFields
      BY <1>2
    <2> QED
      BY <1>3, <2>1, CrcFacts
  <1>5. Carried(h, state)
    BY <1>2, <1>4 DEF Carried
  <1>6. h = HeadByte(part)
    BY <1>1, <1>3 DEF HeadByte
  <1> QED
    BY <1>2, <1>4, <1>5, <1>6

\* Only the extra part of a gzip header may be announced and empty.
LEMMA OptionalIsSettled ==
  ASSUME NEW v, NEW k \in 1 .. 6, k # 2
  PROVE  Settled(Optional(k, v, 0)) = Optional(k, v, 0)
  <1>1. PICK m : m = GzipModes[Least({i \in k .. 6 : Announced(v.flags, GzipModes[i])})]
    OBVIOUS
  <1>2. m \in {"EXLEN", "EXTRA", "NAME", "COMMENT", "HCRC", "TYPE"} /\ m # "EXTRA"
    BY <1>1, NextPart
  <1>3. Optional(k, v, 0) = IF m = "TYPE" THEN Block(v) ELSE Counts(v, m, 0)
    BY <1>1, <1>2 DEF Optional
  <1>4. CASE m = "TYPE"
    BY <1>3, <1>4, SettledIs
  <1>5. CASE m # "TYPE"
    <2>1. Counts(v, m, 0).mode = m
      BY DEF Counts, Reader
    <2> QED
      BY <1>2, <1>3, <1>5, <2>1, SettledIs
  <1> QED
    BY <1>4, <1>5

\* ReadExtra keeps the invariant: the decoder stays in step with the reader.
LEMMA ReadExtraKeeps ==
  ASSUME Rest, NEW r, IsReading(stream, r), Synced(r), ReadExtra
  PROVE  Follows(r)
  <1>1. call.at = "inflate" /\ state.mode = "EXTRA" /\ In(state.mode)
    BY DEF ReadExtra, In
  <1>2. CASE state.length = 0 /\ Becomes(From(3, state))
    <2>1. PICK s : s = From(3, state) /\ Becomes(s)
      BY <1>2
    <2>2. DOMAIN state = StateFields
      BY DEF Rest, Records
    <2>3. /\ Carried(s, state) /\ s.hold = state.hold
          /\ s.mode \in {"EXLEN", "EXTRA", "NAME", "COMMENT", "HCRC", "TYPE"} /\ s.mode # "EXTRA"
      <3>1. 3 \in 1 .. 6 /\ 3 # 2
        OBVIOUS
      <3> QED
        BY <2>1, <2>2, <3>1, FromFacts
    <2>4. Width = 0
      BY <1>1, NoBitsInBytes DEF TakesBytes
    <2>5. Settled(View(s)) = Settled(View(state))
      <3>1. PICK v : v = View(state)
        OBVIOUS
      <3>2. /\ v.mode = "EXTRA" /\ v.count = 0 /\ v.wrap = state.wrap /\ v.last = state.last
            /\ v.flags = state.flags
        BY <1>1, <1>2, <3>1, ViewFacts
      <3>3. Settled(v) = Optional(3, v, 0)
        BY <3>2 DEF Settled
      <3>4. Settled(View(s)) = Settled(Optional(3, v, 0))
        BY <2>1, <2>2, <3>2, SamePart
      <3>5. Settled(Optional(3, v, 0)) = Optional(3, v, 0)
        <4>1. 3 \in 1 .. 6 /\ 3 # 2
          OBVIOUS
        <4> QED
          BY <4>1, OptionalIsSettled
      <3> QED
        BY <3>1, <3>3, <3>4, <3>5
    <2>6. UNCHANGED <<stream, strm, inflater, call>> /\ state' = s
      BY <2>1 DEF Becomes
    <2>7. s.mode \notin Tabled /\ s.mode \notin Lengthy /\ s.mode \notin {"DISTEXT", "MATCH"}
      BY <2>3 DEF Tabled, Lengthy
    <2>8. TableOK'
      BY <2>6, <2>7 DEF TableOK, Tabled
    <2> QED
      BY <1>1, <1>2, <2>3, <2>4, <2>5, <2>6, <2>7, <2>8, IsPassed DEF ReadsField
  <1>3. CASE /\ state.length > 0 /\ strm.avail_in > 0
             /\ state' = [HeadByte("extra") EXCEPT !.length = @ - 1]
             /\ strm' = Taken(1) /\ UNCHANGED <<stream, inflater, call>>
    <2>1. PICK h : h = HeadByte("extra") /\ state' = [h EXCEPT !.length = h.length - 1]
      BY <1>3
    <2>2. /\ Carried(h, state) /\ h.mode = "EXTRA" /\ h.hold = state.hold
          /\ h.length = state.length /\ h.last = state.last /\ h.flags = state.flags
      BY <1>1, <2>1, HeadByteFacts
    <2>3. /\ Carried(state', state) /\ state'.mode = "EXTRA" /\ state'.hold = state.hold
          /\ state'.length = state.length - 1 /\ state'.last = state.last
          /\ state'.flags = state.flags
      BY <2>1, <2>2 DEF Carried, StateFields
    <2>4. ReadsField /\ state.mode \in TakesBytes /\ state.mode # "STORED"
      BY <1>1, <1>3 DEF ReadsField, TakesBytes
    <2>5. PICK i : Ready(r, i)
      BY <2>4, FieldToRead
    <2>6. Here.wrong = FALSE /\ r[i].mode = "EXTRA" /\ r[i].count = state.length
          /\ r[i].wrap = state.wrap /\ r[i].last = state.last /\ r[i].flags = state.flags
      BY <1>1, <2>5 DEF Ready, Refuses
    <2>7. AfterField(r[i], Here) = Counts(r[i], "EXTRA", state.length - 1)
      <3>1. r[i].mode = "EXTRA" /\ Here.wrong = FALSE
        BY <2>6
      <3>2. AfterField(r[i], Here) = Counts(r[i], "EXTRA", r[i].count - 1)
        BY <3>1, AfterHeaderIs
      <3> QED
        BY <2>6, <3>2
    <2>8. View(state') = Counts(r[i], "EXTRA", state.length - 1)
      <3>1. View(state') = Counts(state', "EXTRA", state.length - 1)
        BY <2>3, ViewIs
      <3> QED
        BY <2>3, <2>6, <3>1, SameReader DEF Carried
    <2>9. state'.length \in Nat
      <3>1. state.length \in Nat
        BY <1>1 DEF Rest, Room
      <3> QED
        BY <1>3, <2>3, <3>1
    <2>10. TableOK'
      BY <2>3 DEF TableOK
    <2>11. Settled(View(state')) = Settled(AfterField(r[i], Here)) /\ state'.mode # "BAD"
      BY <2>3, <2>7, <2>8
    <2> QED
      BY <1>1, <1>3, <2>3, <2>4, <2>5, <2>9, <2>10, <2>11, ByteIsTaken
  <1> QED
    BY <1>2, <1>3 DEF ReadExtra

\* ReadName keeps the invariant: the decoder stays in step with the reader.
LEMMA ReadNameKeeps ==
  ASSUME Rest, NEW r, IsReading(stream, r), Synced(r), NEW mode, NEW part, NEW k \in 1 .. 6,
         (mode = "NAME" /\ k = 4) \/ (mode = "COMMENT" /\ k = 5), ReadName(mode, part, k)
  PROVE  Follows(r)
  <1>1. /\ call.at = "inflate" /\ state.mode = mode /\ strm.avail_in > 0
        /\ state' = IF Here.says = 0 THEN From(k, Crc(state, 0)) ELSE HeadByte(part)
        /\ strm' = Taken(1) /\ UNCHANGED <<stream, inflater, call>>
    BY DEF ReadName, In
  <1>2. ReadsField /\ state.mode \in TakesBytes /\ state.mode # "STORED"
    BY <1>1 DEF ReadsField, TakesBytes
  <1>3. PICK i : Ready(r, i)
    BY <1>2, FieldToRead
  <1>4. Here.wrong = FALSE /\ r[i].mode = mode
        /\ r[i].wrap = state.wrap /\ r[i].last = state.last /\ r[i].flags = state.flags
    BY <1>1, <1>3 DEF Ready, Refuses
  <1>5. AfterField(r[i], Here) = Named(k, r[i], Here.says)
    <2>1. CASE r[i].mode = "NAME" /\ k = 4
      <3>1. r[i].mode = "NAME" /\ Here.wrong = FALSE
        BY <1>4, <2>1
      <3>2. AfterField(r[i], Here) = Named(4, r[i], Here.says)
        BY <3>1, AfterHeaderIs
      <3> QED
        BY <2>1, <3>2
    <2>2. CASE r[i].mode = "COMMENT" /\ k = 5
      <3>1. r[i].mode = "COMMENT" /\ Here.wrong = FALSE
        BY <1>4, <2>2
      <3>2. AfterField(r[i], Here) = Named(5, r[i], Here.says)
        BY <3>1, AfterHeaderIs
      <3> QED
        BY <2>2, <3>2
    <2> QED
      BY <1>4, <2>1, <2>2
  <1>6. /\ Carried(state', state) /\ state'.hold = state.hold
        /\ state'.mode \in {"EXLEN", "NAME", "COMMENT", "HCRC", "TYPE"}
        /\ Settled(View(state')) = Settled(AfterField(r[i], Here))
    <2>1. CASE Here.says = 0
      <3>1. PICK s : s = Crc(state, 0) /\ state' = From(k, s)
        BY <1>1, <2>1
      <3>2. DOMAIN state = StateFields
        BY DEF Rest, Records
      <3>3. Carried(s, state) /\ s.hold = state.hold /\ s.last = state.last /\ s.flags = state.flags
        BY <3>1, <3>2, CrcFacts
      <3>4. DOMAIN s = StateFields /\ s.wrap = state.wrap
        BY <3>3 DEF Carried
      <3>5. /\ Carried(state', s) /\ state'.hold = s.hold
            /\ state'.mode \in {"EXLEN", "EXTRA", "NAME", "COMMENT", "HCRC", "TYPE"}
            /\ state'.mode = "EXTRA" => k = 2
        BY <3>1, <3>4, FromFacts
      <3>6. Settled(View(state')) = Settled(Optional(k, r[i], 0))
        <4>1. s.wrap = r[i].wrap /\ s.last = r[i].last /\ s.flags = r[i].flags /\ k # 2
          BY <1>4, <3>3, <3>4
        <4> QED
          BY <3>1, <3>4, <4>1, SamePart
      <3>7. Carried(state', state)
        BY <3>3, <3>5 DEF Carried
      <3> QED
        BY <1>5, <2>1, <3>3, <3>5, <3>6, <3>7 DEF Named
    <2>2. CASE Here.says # 0
      <3>1. state' = HeadByte(part)
        BY <1>1, <2>2
      <3>2. /\ Carried(state', state) /\ state'.mode = mode /\ state'.hold = state.hold
            /\ state'.last = state.last /\ state'.flags = state.flags
        BY <1>1, <3>1, HeadByteFacts
      <3>3. AfterField(r[i], Here) = r[i]
        BY <1>5, <2>2 DEF Named
      <3>4. r[i] = View(state)
        <4>1. Settled(View(state)) = View(state) /\ state.mode # "BAD"
          BY <1>1, <1>2, ReadingIsSettled
        <4> QED
          BY <1>3, <4>1 DEF Ready, Stands
      <3>5. View(state') = View(state)
        <4>1. state.mode \notin Counted /\ state'.mode \notin Counted
          BY <1>1, <3>2 DEF Counted
        <4>2. View(state) = Step_(state, mode) /\ View(state') = Step_(state', mode)
          BY <1>1, <3>2, <4>1, ViewIs
        <4>3. state'.wrap = state.wrap
          BY <3>2 DEF Carried
        <4> QED
          BY <3>2, <4>2, <4>3, SameReader
      <3> QED
        BY <3>2, <3>3, <3>4, <3>5
    <2> QED
      BY <2>1, <2>2
  <1>7. TableOK' /\ state'.mode # "BAD" /\ state'.mode \notin Lengthy
    BY <1>6 DEF TableOK, Lengthy
  <1> QED
    BY <1>1, <1>2, <1>3, <1>6, <1>7, ByteIsTaken

-----------------------------------------------------------------------------
(***************************************************************************)
(* Bits taken in, and bits passed over to the next whole byte.             *)
(***************************************************************************)
LEMMA ByteIsNext ==
  ASSUME Rest, HoldOK, state'.hold = ToByte, NextByte' = NextByte
  PROVE  /\ HoldOK' /\ Width' = Width - (Width % 8) /\ Width' % 8 = 0 /\ Width' \in 0 .. Width
         /\ NextBit' = 8 * ((NextBit + 7) \div 8)
         /\ NextBit' = 8 * ((NextBit' + 7) \div 8)
  <1>1. PICK l \in Nat, b \in Nat : l = Width /\ b = NextByte /\ NextBit = 8 * b - l
    BY HoldNow DEF Rest
  <1>2. PICK q \in Nat, m \in 0 .. 7 : q = l \div 8 /\ m = l % 8 /\ l = 8 * q + m
    BY Arithmetic
  <1>3. m \in 0 .. l
    BY <1>2
  <1>4. state'.hold = Without(state.hold, m)
    BY <1>1, <1>2 DEF ToByte, Width
  <1>5. HoldOK' /\ Width' = l - m /\ NextBit' = NextBit + m
    BY <1>1, <1>3, <1>4, BitsAreUsed DEF Rest
  <1>6. 8 * ((NextBit + 7) \div 8) = NextBit + m
    BY <1>1, <1>2, Arithmetic
  <1>7. (l - m) % 8 = 0 /\ l - m \in 0 .. l /\ l - m \in Nat
    BY <1>2
  <1>8. 8 * ((NextBit' + 7) \div 8) = NextBit'
    <2>1. NextBit' = 8 * b - (l - m)
      BY <1>1, <1>5, <1>7
    <2>2. 8 * (((8 * b - (l - m)) + 7) \div 8) = 8 * b - (l - m) + ((l - m) % 8)
      BY <1>7, Arithmetic
    <2> QED
      BY <1>7, <2>1, <2>2
  <1> QED
    BY <1>1, <1>2, <1>5, <1>6, <1>7, <1>8

\* ByteBits keeps the invariant: the decoder stays in step with the reader.
LEMMA ByteBitsKeeps ==
  ASSUME Rest, NEW r, IsReading(stream, r), Synced(r), ByteBits
  PROVE  Waits(r)
  <1>1. /\ call.at = "inflate" /\ state.mode = "STORED" /\ state' = [state EXCEPT !.hold = ToByte]
        /\ UNCHANGED <<stream, strm, inflater, call>>
    BY DEF ByteBits, StoredBegins, In
  <1>2. /\ Carried(state', state) /\ state'.mode = "STORED" /\ state'.hold = ToByte
        /\ state'.last = state.last /\ state'.flags = state.flags
    BY <1>1 DEF Rest, Records, StateFields, Carried
  <1>3. Rest'
    BY <1>1, <1>2, RestStays DEF Lengthy, TableOK
  <1>4. NextByte' = NextByte
    BY <1>1 DEF NextByte
  <1>5. /\ HoldOK' /\ Width' = Width - (Width % 8) /\ Width' % 8 = 0 /\ Width' \in 0 .. Width
        /\ NextBit' = 8 * ((NextBit + 7) \div 8)
        /\ NextBit' = 8 * ((NextBit' + 7) \div 8)
    BY <1>2, <1>4, ByteIsNext DEF Synced
  <1>6. Bounded'
    <2>1. BitsNeeded = 32 /\ BitsNeeded' = 32 /\ ~Fast'
      BY <1>1, <1>2 DEF BitsNeeded, Fast
    <2>2. Width < 40 /\ Width \in Nat
      <3>1. Short \/ Width < BitsNeeded + 8
        BY <1>1 DEF Synced, Bounded
      <3>2. Width \in Nat
        BY DEF Synced, HoldOK
      <3> QED
        BY <2>1, <3>1, <3>2 DEF Short
    <2>3. Width' < 40
      BY <1>5, <2>2
    <2>4. Width' < BitsNeeded' + 8
      BY <2>1, <2>3
    <2> QED
      BY <1>1, <2>1, <2>4 DEF Bounded
  <1>7. ASSUME NEW i, Stands(r, i) PROVE Stands(r, i)'
    <2>1. i \in 1 .. Len(stream.fields) + 1
      BY <1>7 DEF Stands
    <2>2. View(state') = View(state) /\ Settled(View(state)).mode = "STORED"
      <3>1. View(state) = Step_(state, "STORED") /\ View(state') = Step_(state', "STORED")
        BY <1>1, <1>2, ViewIs DEF Counted
      <3>2. Step_(state', "STORED") = Step_(state, "STORED")
        BY <1>2, SameReader DEF Carried
      <3>3. View(state).mode = "STORED"
        BY <1>1, ViewFacts
      <3>4. Settled(View(state)) = View(state)
        BY <3>3, SettledIs
      <3> QED
        BY <3>1, <3>2, <3>3, <3>4
    <2>3. /\ r[i] = Settled(View(state)) /\ r[i].mode = "STORED"
          /\ stream.fields[i].at = Start("STORED", NextBit)
      BY <1>1, <1>7, <2>1, <2>2 DEF Stands, Ended
    <2>4. Start("STORED", NextBit) = Start("STORED", NextBit')
      BY <1>5 DEF Start
    <2> QED
      BY <1>1, <2>1, <2>2, <2>3, <2>4 DEF Stands
  <1>8. InSteps(r)'
    BY <1>1, <1>7 DEF Synced, InSteps
  <1>9. Synced(r)'
    BY <1>1, <1>2, <1>5, <1>6, <1>8 DEF Synced, Bytewise
  <1> QED
    BY <1>3, <1>7, <1>9 DEF Waits, Preserved

\* The next field needs a number of bits.
LEMMA NeededIsNumber ==
  ASSUME Rest, NEW r, IsReading(stream, r), Synced(r)
  PROVE  BitsNeeded \in Nat
  <1>1. CASE state.mode \notin BitModes
    BY <1>1 DEF BitsNeeded, BitModes
  <1>2. CASE state.mode = "STORED"
    BY <1>2 DEF BitsNeeded
  <1>3. CASE state.mode \in BitModes \ {"STORED"} /\ ~ReadsField
    <2>1. CASE state.mode = "HEAD" /\ state.wrap = 0
      BY <2>1 DEF BitsNeeded
    <2>2. CASE state.mode = "TYPE" /\ state.last
      BY <2>2 DEF BitsNeeded
    <2>3. CASE state.mode = "LENLENS" /\ state.have = state.table.ncode
      BY <2>3 DEF BitsNeeded, Rest, TableOK
    <2>4. CASE state.mode = "CODELENS" /\ state.have = state.table.lengths
      BY <2>4 DEF BitsNeeded, Rest, TableOK
    <2>5. CASE state.mode \in {"LENEXT", "DISTEXT"} /\ state.extra = 0
      BY <2>5 DEF BitsNeeded
    <2> QED
      BY <1>3, <2>1, <2>2, <2>3, <2>4, <2>5 DEF ReadsField, BitModes
  <1>4. CASE state.mode \in BitModes \ {"STORED"} /\ ReadsField
    <2>1. PICK i \in 1 .. Len(stream.fields) + 1 : Stands(r, i)
      BY DEF Synced, InSteps
    <2>2. BitsNeeded = NextField(i).width
      BY <1>4, <2>1, NeededIsWidth DEF Rest
    <2>3. NextField(i).width \in Nat
      BY <1>4, <2>1, FieldComes DEF Rest
    <2> QED
      BY <2>2, <2>3
  <1> QED
    BY <1>1, <1>2, <1>3, <1>4

\* Bytes pulled into hold follow the bits that are there.
LEMMA HeldBits ==
  ASSUME NEW l \in Nat, NEW b \in Nat, NEW n \in Nat, NextByte = b, state.hold = Bits(l, b)
  PROVE  Held(n) = Bits(l + 8 * n, b + n)
  <1>1. Held(n) = Bits(l, b) \o [i \in 1 .. 8 * n |-> 8 * b + i - 1]
    BY DEF Held
  <1>2. b \in Int
    OBVIOUS
  <1>3. Bits(l, b) \o [i \in 1 .. 8 * n |-> 8 * b + i - 1] = Bits(l + 8 * n, b + n)
    BY <1>2, BitsTaken, Zenon
  <1> QED
    BY <1>1, <1>3

\* Pull keeps the invariant: the decoder stays in step with the reader.
LEMMA PullKeeps ==
  ASSUME Rest, NEW r, IsReading(stream, r), Synced(r), Pull
  PROVE  Waits(r)
  <1>1. /\ call.at = "inflate" /\ ~Fast /\ ~StoredBegins /\ Lacking /\ strm.avail_in > 0
        /\ state' = [state EXCEPT !.hold = Held(1)] /\ strm' = Taken(1)
        /\ UNCHANGED <<stream, inflater, call>>
    BY DEF Pull
  <1>2. /\ Carried(state', state) /\ state'.mode = state.mode /\ state'.hold = Held(1)
        /\ state'.last = state.last /\ state'.flags = state.flags /\ state'.table = state.table
        /\ state'.have = state.have /\ state'.length = state.length /\ state'.extra = state.extra
        /\ state'.offset = state.offset
    BY <1>1 DEF Rest, Records, StateFields, Carried
  <1>3. 1 \in Int /\ 1 <= strm.avail_in /\ strm.next_in + 1 >= 0
    BY <1>1 DEF Rest, Room
  <1>4. Moved(1) /\ NextByte' = NextByte + 1
    <2>1. Len(<<>>) \in 0 .. strm.avail_out
      BY DEF Rest, Room
    <2> QED
      BY <1>1, <1>3, <2>1, TakenMoves
  <1>5. Rest'
    <2>1. strm.avail_out \in Nat /\ call.out \in Nat /\ strm.avail_out <= call.out /\ Running
      BY <1>1 DEF Rest, Room, Running
    <2>2. strm'.avail_out <= strm.avail_out /\ strm'.avail_out \in Nat
      BY <1>4, <2>1 DEF Moved
    <2>3. /\ call'.at \in {"inflate", "fast"}
          /\ DOMAIN call' = CallFields /\ call'.ret = call.ret /\ call'.out \in Nat
          /\ strm'.avail_out <= call'.out
      BY <1>1, <2>1, <2>2 DEF Rest, Records
    <2>4. TableOK'
      BY <1>2 DEF Rest, TableOK
    <2>5. state'.mode \in Lengthy => state'.length \in Nat
      BY <1>2 DEF Rest, Room, Lengthy
    <2> QED
      BY <1>1, <1>2, <1>3, <1>4, <2>1, <2>3, <2>4, <2>5, RestMoves
  <1>6. PICK l \in Nat, b \in Nat : /\ l = Width /\ b = NextByte /\ state.hold = Bits(l, b)
                                    /\ NextBit = 8 * b - l
    BY HoldNow DEF Synced, Rest
  <1>7. HoldOK' /\ Width' = l + 8 /\ NextBit' = NextBit
    <2>1. PICK n \in Nat : n = 1
      OBVIOUS
    <2>2. Held(1) = Bits(l + 8 * 1, b + 1)
      BY <1>6, <2>1, HeldBits
    <2>3. l + 8 * 1 = l + 8 /\ l + 8 \in Nat /\ b + 1 \in Int
      OBVIOUS
    <2>4. state'.hold = Bits(l + 8, NextByte') /\ NextByte' \in Int
      BY <1>2, <1>4, <1>6, <2>2, <2>3
    <2>5. HoldOK' /\ Width' = l + 8 /\ NextBit' = 8 * NextByte' - (l + 8)
      BY <2>3, <2>4, HoldIs
    <2> QED
      BY <1>4, <1>6, <2>5
  <1>8. BitsNeeded' = BitsNeeded /\ BitsNeeded \in Nat /\ l < BitsNeeded
    <2>1. Here' = Here
      BY <1>1, <1>7 DEF Here, FieldAt
    <2>2. state'.wrap = state.wrap
      BY <1>2 DEF Carried
    <2>3. BitsNeeded' = BitsNeeded
      BY <1>2, <2>1, <2>2 DEF BitsNeeded
    <2>4. Len(state.hold) = l
      BY <1>6 DEF Width
    <2> QED
      BY <1>1, <2>3, <2>4, NeededIsNumber DEF Lacking
  <1>9. Bounded'
    <2>1. ~Fast'
      <3>1. PICK a, f : a = strm.avail_in /\ f = FAST_IN
        OBVIOUS
      <3>2. a \in Nat /\ f \in Nat
        BY <3>1, StreamAssumption DEF Rest, Room
      <3>3. strm'.avail_in = a - 1 /\ strm'.avail_out = strm.avail_out
        BY <1>1, <3>1 DEF Taken, Rest, Records, StrmFields
      <3> QED
        BY <1>1, <1>2, <3>1, <3>2, <3>3 DEF Fast
    <2>2. Width' < BitsNeeded' + 8
      BY <1>7, <1>8
    <2> QED
      BY <1>1, <2>1, <2>2 DEF Bounded
  <1>10. state'.mode \in Bytewise => Width' % 8 = 0
    <2>1. state.mode \in Bytewise => l % 8 = 0
      BY <1>6 DEF Synced
    <2>2. l % 8 = 0 => (l + 8) % 8 = 0
      OBVIOUS
    <2> QED
      BY <1>2, <1>7, <2>1, <2>2
  <1>11. ASSUME NEW i, Stands(r, i) PROVE Stands(r, i)'
    <2>1. state'.wrap = state.wrap
      BY <1>2 DEF Carried
    <2>2. View(state') = View(state)
      BY <1>2, <2>1 DEF View, Reader
    <2> QED
      BY <1>1, <1>2, <1>7, <1>11, <2>2 DEF Stands
  <1>12. InSteps(r)'
    BY <1>1, <1>11 DEF Synced, InSteps
  <1>13. Synced(r)'
    BY <1>1, <1>7, <1>9, <1>10, <1>12 DEF Synced
  <1> QED
    BY <1>5, <1>11, <1>13 DEF Waits, Preserved

-----------------------------------------------------------------------------
(***************************************************************************)
(* Blocks: their headers, tables and tokens.                               *)
(***************************************************************************)
LEMMA FieldOf ==
  ASSUME Rest, NEW r, IsReading(stream, r), Synced(r), NEW mode \in BitModes, Reads(mode), ReadsField
  PROVE  /\ state.mode = mode /\ Reads(state.mode) /\ In(state.mode) /\ call.at = "inflate"
         /\ \E i : /\ Ready(r, i) /\ r[i].mode = mode
                   /\ Here.wrong \in BOOLEAN /\ (mode \notin Refuses => Here.wrong = FALSE)
  <1>1. state.mode = mode /\ Reads(state.mode) /\ In(state.mode) /\ call.at = "inflate"
    BY DEF Reads, In
  <1>2. state.mode # "STORED" \/ Width % 8 = 0
    BY <1>1 DEF Reads, StoredBegins, Width
  <1>3. PICK i : Ready(r, i)
    BY <1>2, FieldToRead
  <1>4. /\ r[i].mode = mode /\ Here.wrong \in BOOLEAN
        /\ mode \notin Refuses => Here.wrong = FALSE
    BY <1>1, <1>3 DEF Ready
  <1> QED
    BY <1>1, <1>3, <1>4

Counters(s) ==
  /\ s.mode \in Lengthy => s.length \in Nat
  /\ s.mode \in {"LENLENS", "CODELENS"} =>
       s.table.ncode \in Nat \ {0} /\ s.table.lengths \in Nat \ {0}
  /\ s.mode = "LENLENS" => s.have \in 0 .. s.table.ncode
  /\ s.mode = "CODELENS" => s.have \in 0 .. s.table.lengths
  /\ s.mode \in {"DISTEXT", "MATCH"} => s.offset \in Nat

\* A field of a block, which uses up its own bits only.
LEMMA BitsFieldIsUsed ==
  ASSUME Rest, NEW r, IsReading(stream, r), Synced(r), NEW i, Ready(r, i),
         state.mode \in BitModes, ReadsField, Reads(state.mode),
         NEW s, Becomes(s), Carried(s, state), s.hold = Without(state.hold, Here.width),
         s.mode \notin Bytewise, Counters(s),
         s.mode # "BAD" => Settled(View(s)) = Settled(AfterField(r[i], Here))
  PROVE  Follows(r)
  <1>1. state' = s /\ UNCHANGED <<stream, strm, inflater, call>>
    BY DEF Becomes
  <1>2. TableOK' /\ (state'.mode \in Lengthy => state'.length \in Nat)
    BY <1>1 DEF TableOK, Counters
  <1> QED
    BY <1>1, <1>2, FieldIsUsed

\* A step between two fields that reads nothing.
LEMMA GoesOn ==
  ASSUME Rest, NEW r, Synced(r), call.at = "inflate", state.mode # "BAD", BitsNeeded = 0, ~ReadsField,
         NEW s, Becomes(s), Carried(s, state), s.hold = state.hold, s.mode \notin Bytewise,
         Counters(s), s.mode # "BAD" => Settled(View(s)) = Settled(View(state))
  PROVE  Follows(r)
  <1>1. state' = s /\ UNCHANGED <<stream, strm, inflater, call>>
    BY DEF Becomes
  <1>2. TableOK' /\ (state'.mode \in Lengthy => state'.length \in Nat)
    BY <1>1 DEF TableOK, Counters
  <1>3. Width < 8
    BY FewBits
  <1> QED
    BY <1>1, <1>2, <1>3, IsPassed

\* ReadStored keeps the invariant: the decoder stays in step with the reader.
LEMMA ReadStoredKeeps ==
  ASSUME Rest, NEW r, IsReading(stream, r), Synced(r), ReadStored
  PROVE  Follows(r)
  <1>1. /\ state.mode = "STORED" /\ Reads(state.mode) /\ In(state.mode) /\ ReadsField
        /\ state.mode \in BitModes \cap (Bytewise \cup {"STORED"})
        /\ \E i : Ready(r, i) /\ r[i].mode = "STORED" /\ Here.wrong \in BOOLEAN
    BY WholeField DEF ReadStored
  <1>2. PICK i : Ready(r, i) /\ r[i].mode = "STORED" /\ Here.wrong \in BOOLEAN
    BY <1>1
  <1>3. CASE Becomes(Bad(state))
    BY <1>1, <1>3, IsRefused
  <1>4. CASE ~Here.wrong /\ Becomes([InitBits(state) EXCEPT !.mode = "COPY", !.length = Here.says])
    <2>1. PICK s : s = [InitBits(state) EXCEPT !.mode = "COPY", !.length = Here.says] /\ Becomes(s)
      BY <1>4
    <2>2. Carried(s, state) /\ s.hold = <<>> /\ s.mode = "COPY" /\ s.length = Here.says
          /\ s.last = state.last /\ s.flags = state.flags
      BY <2>1 DEF Rest, Records, StateFields, Carried, InitBits
    <2>3. Here.wrong = FALSE /\ r[i].mode = "STORED"
      BY <1>2, <1>4
    <2>4. AfterField(r[i], Here) = Counts(r[i], "COPY", Here.says)
      BY <2>3, AfterBlockIs
    <2>5. s.wrap = r[i].wrap /\ s.last = r[i].last /\ s.flags = r[i].flags
      BY <1>2, <2>2 DEF Ready, Carried
    <2>6. View(s) = Counts(r[i], "COPY", Here.says)
      <3>1. View(s) = Counts(s, "COPY", Here.says)
        BY <2>2, ViewIs
      <3> QED
        BY <2>5, <3>1, SameReader
    <2>7. Here.says \in Nat
      BY <1>1, <1>2, <1>4 DEF Ready, IsSaid
    <2>8. Settled(View(s)) = Settled(AfterField(r[i], Here))
      BY <2>4, <2>6
    <2>9. s.mode \notin Tabled \cup {"DISTEXT", "MATCH"} /\ s.length \in Nat
      BY <2>2, <2>7 DEF Tabled
    <2> QED
      BY <1>1, <1>2, <2>1, <2>2, <2>8, <2>9, HeaderIsUsed
  <1> QED
    BY <1>3, <1>4 DEF ReadStored

\* The three bits of a block's header, when another block is to come.
LEMMA BlockBegins ==
  ASSUME Rest, NEW r, IsReading(stream, r), Synced(r), Reads("TYPE"), ~state.last,
         NEW s, Becomes(s),
         s = [Drop(state) EXCEPT
                !.last = Here.says.last,
                !.mode = CASE Here.says.type = "stored" -> "STORED" [] Here.says.type = "fixed" -> "LEN"
                           [] Here.says.type = "dynamic" -> "TABLE" [] Here.says.type = "none" -> "BAD"]
  PROVE  Follows(r)
  <1>1. "TYPE" \in BitModes /\ state.mode = "TYPE"
    BY DEF BitModes, Reads, In
  <1>2. ReadsField
    BY <1>1 DEF ReadsField
  <1>3. /\ Reads(state.mode) /\ In(state.mode)
        /\ \E i : Ready(r, i) /\ r[i].mode = "TYPE" /\ Here.wrong = FALSE
    BY <1>1, <1>2, FieldOf DEF Refuses
  <1>4. PICK i : Ready(r, i) /\ r[i].mode = "TYPE" /\ Here.wrong = FALSE
    BY <1>3
  <1>5. PICK m : m = BlockMode(Here.says.type)
    OBVIOUS
  <1>6. s = [Drop(state) EXCEPT !.last = Here.says.last, !.mode = m]
    BY <1>5 DEF BlockMode
  <1>7. m \in {"STORED", "LEN", "TABLE", "BAD"}
    <2>1. Here.says.type \in {"stored", "fixed", "dynamic", "none"}
      BY <1>1, <1>4 DEF Ready, IsSaid
    <2> QED
      BY <1>5, <2>1 DEF BlockMode
  <1>8. /\ Carried(s, state) /\ s.hold = Without(state.hold, Here.width) /\ s.mode = m
        /\ s.last = Here.says.last /\ s.flags = state.flags
    BY <1>6 DEF Rest, Records, StateFields, Carried, Drop
  <1>9. AfterField(r[i], Here) = Step_([r[i] EXCEPT !.last = Here.says.last], m)
    <2>1. r[i].mode = "TYPE" /\ Here.wrong = FALSE
      BY <1>4
    <2>2. AfterField(r[i], Here)
            = Step_([r[i] EXCEPT !.last = Here.says.last], BlockMode(Here.says.type))
      BY <2>1, AfterBlockIs
    <2> QED
      BY <1>5, <2>2
  <1>10. View(s) = Step_([r[i] EXCEPT !.last = Here.says.last], m)
    <2>1. View(s) = Reader(s, m, <<>>, 0)
      <3>1. s.mode \notin Counted
        BY <1>7, <1>8 DEF Counted
      <3> QED
        BY <1>8, <3>1, ViewIs DEF Step_
    <2>2. r[i] = View(state)
      <3>1. Settled(View(state)) = View(state) /\ state.mode # "BAD"
        BY <1>1, <1>2, ReadingIsSettled
      <3> QED
        BY <1>4, <3>1 DEF Ready, Stands
    <2>3. /\ [r[i] EXCEPT !.last = Here.says.last].wrap = s.wrap
          /\ [r[i] EXCEPT !.last = Here.says.last].last = s.last
          /\ [r[i] EXCEPT !.last = Here.says.last].flags = s.flags
      BY <1>4, <1>8, <2>2 DEF Ready, Carried, View, Reader
    <2> QED
      BY <2>1, <2>3 DEF Step_, Reader
  <1>11. Settled(View(s)) = Settled(AfterField(r[i], Here))
    BY <1>9, <1>10
  <1>12. s.mode \notin Bytewise /\ Counters(s)
    BY <1>7, <1>8 DEF Bytewise, Counters, Lengthy
  <1> QED
    BY <1>1, <1>2, <1>3, <1>4, <1>8, <1>11, <1>12, BitsFieldIsUsed

\* After the last block the trailer begins with a whole byte.
LEMMA BlocksEnd ==
  ASSUME Rest, NEW r, IsReading(stream, r), Synced(r), Reads("TYPE"), state.last,
         Becomes([state EXCEPT !.hold = ToByte,
                               !.mode = IF state.wrap = 0 THEN "DONE" ELSE "CHECK"])
  PROVE  Follows(r)
  <1>1. state.mode = "TYPE" /\ call.at = "inflate"
    BY DEF Reads, In
  <1>2. PICK m : m = IF state.wrap = 0 THEN "DONE" ELSE "CHECK"
    OBVIOUS
  <1>3. /\ Carried(state', state) /\ state'.mode = m /\ state'.hold = ToByte
        /\ state'.last = state.last /\ state'.flags = state.flags
        /\ UNCHANGED <<stream, strm, inflater, call>>
    BY <1>2 DEF Becomes, Rest, Records, StateFields, Carried
  <1>4. Rest'
    BY <1>2, <1>3, RestStays DEF Lengthy, TableOK
  <1>5. NextByte' = NextByte
    BY <1>3 DEF NextByte
  <1>6. /\ HoldOK' /\ Width' % 8 = 0 /\ Width' \in 0 .. Width
        /\ NextBit' = 8 * ((NextBit + 7) \div 8)
        /\ NextBit' = 8 * ((NextBit' + 7) \div 8)
    BY <1>3, <1>5, ByteIsNext DEF Synced
  <1>7. Bounded'
    <2>1. BitsNeeded = 0
      BY <1>1 DEF BitsNeeded
    <2>2. Width < 8
      BY <1>1, <2>1, FewBits
    <2>3. Width \in Nat
      BY DEF Synced, HoldOK
    <2>4. Width' < 8
      BY <1>6, <2>2, <2>3
    <2> QED
      BY <1>1, <1>3, <2>4 DEF Bounded, Short
  <1>8. ASSUME NEW i, Stands(r, i) PROVE Stands(r, i)'
    <2>1. i \in 1 .. Len(stream.fields) + 1 /\ Stands(r, i)
      BY <1>8 DEF Stands
    <2>2. Settled(View(state)) = Step_(state, m)
      <3>1. PICK v : v = View(state)
        OBVIOUS
      <3>2. v.mode = "TYPE" /\ v.wrap = state.wrap /\ v.last = state.last /\ v.flags = state.flags
        BY <1>1, <3>1, ViewFacts
      <3>3. Settled(v) = Block(v)
        BY <3>2, SettledIs
      <3>4. Block(v) = Block(state)
        BY <3>2, SameReader
      <3>5. Block(state) = Step_(state, m)
        BY <1>2 DEF Block
      <3> QED
        BY <3>1, <3>3, <3>4, <3>5
    <2>3. Settled(View(state')) = Step_(state, m)
      <3>1. m \notin Counted
        BY <1>2 DEF Counted
      <3>2. View(state') = Step_(state', m)
        BY <1>3, <3>1, ViewIs
      <3>3. Step_(state', m) = Step_(state, m)
        BY <1>3, SameReader DEF Carried
      <3>4. View(state').mode \in {"DONE", "CHECK"}
        BY <1>2, <1>3, ViewFacts
      <3> QED
        BY <3>2, <3>3, <3>4, SettledIs
    <2>4. r[i] = Step_(state, m)
      BY <1>1, <2>1, <2>2 DEF Stands
    <2>5. ASSUME r[i].mode \notin Ended
          PROVE  stream.fields[i].at = Start(r[i].mode, NextBit')
      <3>1. stream.fields[i].at = Start(r[i].mode, NextBit)
        BY <1>1, <2>1, <2>5 DEF Stands
      <3>2. r[i].mode = m
        BY <2>4 DEF Step_, Reader
      <3>3. m = "CHECK"
        BY <1>2, <2>5, <3>2 DEF Ended
      <3> QED
        BY <1>6, <3>1, <3>2, <3>3 DEF Start
    <2> QED
      BY <1>3, <2>1, <2>3, <2>4, <2>5 DEF Stands
  <1>9. InSteps(r)'
    BY <1>3, <1>8 DEF Synced, InSteps
  <1>10. Synced(r)'
    BY <1>1, <1>3, <1>6, <1>7, <1>9 DEF Synced
  <1> QED
    BY <1>1, <1>4, <1>8, <1>10 DEF Follows, Preserved, ReadsField

\* ReadType keeps the invariant: the decoder stays in step with the reader.
LEMMA ReadTypeKeeps ==
  ASSUME Rest, NEW r, IsReading(stream, r), Synced(r), ReadType
  PROVE  Follows(r)
  BY BlockBegins, BlocksEnd DEF ReadType

\* ReadTable keeps the invariant: the decoder stays in step with the reader.
LEMMA ReadTableKeeps ==
  ASSUME Rest, NEW r, IsReading(stream, r), Synced(r), ReadTable
  PROVE  Follows(r)
  <1>1. "TABLE" \in BitModes /\ Reads("TABLE") /\ state.mode = "TABLE"
    BY DEF BitModes, ReadTable, Reads, In
  <1>2. ReadsField
    BY <1>1 DEF ReadsField
  <1>3. /\ Reads(state.mode) /\ In(state.mode)
        /\ \E i : Ready(r, i) /\ r[i].mode = "TABLE" /\ Here.wrong = FALSE
    BY <1>1, <1>2, FieldOf DEF Refuses
  <1>4. PICK i : Ready(r, i) /\ r[i].mode = "TABLE" /\ Here.wrong = FALSE
    BY <1>3
  <1>5. PICK s : /\ s = [Drop(state) EXCEPT !.table = Here.says, !.have = 0,
                                 !.mode = IF Here.says.symbols THEN "LENLENS" ELSE "BAD"]
                 /\ Becomes(s)
    BY DEF ReadTable
  <1>6. /\ Carried(s, state) /\ s.hold = Without(state.hold, Here.width)
        /\ s.mode = (IF Here.says.symbols THEN "LENLENS" ELSE "BAD")
        /\ s.last = state.last /\ s.flags = state.flags /\ s.table = Here.says /\ s.have = 0
    BY <1>5 DEF Rest, Records, StateFields, Carried, Drop
  <1>7. AfterField(r[i], Here) = AfterTable(r[i], Here.says)
    <2>1. r[i].mode = "TABLE" /\ Here.wrong = FALSE
      BY <1>4
    <2> QED
      BY <2>1, AfterBlockIs
  <1>8. s.wrap = r[i].wrap /\ s.last = r[i].last /\ s.flags = r[i].flags
    BY <1>4, <1>6 DEF Ready, Carried
  <1>9. s.mode # "BAD" => Settled(View(s)) = Settled(AfterField(r[i], Here))
    <2> SUFFICES ASSUME s.mode # "BAD" PROVE View(s) = AfterTable(r[i], Here.says)
      BY <1>7
    <2>1. Here.says.symbols /\ s.mode = "LENLENS"
      BY <1>6
    <2>2. View(s) = Reader(s, "LENLENS", Here.says, 0)
      BY <1>6, <2>1, ViewIs DEF Tabled
    <2>3. Reader(s, "LENLENS", Here.says, 0) = Reader(r[i], "LENLENS", Here.says, 0)
      BY <1>8, SameReader
    <2> QED
      BY <2>1, <2>2, <2>3 DEF AfterTable
  <1>10. s.mode \notin Bytewise /\ Counters(s)
    <2>1. Here.says.ncode \in Nat \ {0} /\ Here.says.lengths \in Nat \ {0}
      BY <1>1, <1>4 DEF Ready, IsSaid
    <2>2. 0 \in 0 .. Here.says.ncode
      BY <2>1
    <2> QED
      BY <1>6, <2>1, <2>2 DEF Bytewise, Counters, Lengthy
  <1> QED
    BY <1>1, <1>2, <1>3, <1>4, <1>5, <1>6, <1>9, <1>10, BitsFieldIsUsed

\* ReadLenLens keeps the invariant: the decoder stays in step with the reader.
LEMMA ReadLenLensKeeps ==
  ASSUME Rest, NEW r, IsReading(stream, r), Synced(r), ReadLenLens
  PROVE  Follows(r)
  <1>1. "LENLENS" \in BitModes /\ Reads("LENLENS") /\ state.mode = "LENLENS" /\ call.at = "inflate"
    BY DEF BitModes, ReadLenLens, Reads, In
  <1>2. PICK n, m, h : /\ n = state.table.ncode /\ m = state.table.lengths /\ h = state.have
                       /\ n \in Nat \ {0} /\ m \in Nat \ {0} /\ h \in 0 .. n
    BY <1>1 DEF Rest, TableOK
  <1>3. CASE h < n /\ Becomes([Drop(state) EXCEPT !.have = @ + 1])
    <2>1. ReadsField
      BY <1>1, <1>2, <1>3 DEF ReadsField
    <2>2. /\ Reads(state.mode) /\ In(state.mode)
          /\ \E i : Ready(r, i) /\ r[i].mode = "LENLENS" /\ Here.wrong = FALSE
      BY <1>1, <2>1, FieldOf DEF Refuses
    <2>3. PICK i : Ready(r, i) /\ r[i].mode = "LENLENS" /\ Here.wrong = FALSE
      BY <2>2
    <2>4. PICK s : s = [Drop(state) EXCEPT !.have = h + 1] /\ Becomes(s)
      BY <1>2, <1>3 DEF Drop, Rest, Records, StateFields
    <2>5. /\ Carried(s, state) /\ s.hold = Without(state.hold, Here.width) /\ s.mode = "LENLENS"
          /\ s.last = state.last /\ s.flags = state.flags /\ s.table = state.table
          /\ s.have = h + 1
      BY <1>1, <2>4 DEF Rest, Records, StateFields, Carried, Drop
    <2>6. AfterField(r[i], Here) = Reader(r[i], "LENLENS", state.table, h + 1)
      <3>1. r[i].mode = "LENLENS" /\ Here.wrong = FALSE
        BY <2>3
      <3>2. AfterField(r[i], Here) = Reader(r[i], "LENLENS", r[i].table, r[i].count + 1)
        BY <3>1, AfterBlockIs
      <3>3. r[i].table = state.table /\ r[i].count = h
        BY <1>1, <1>2, <2>3 DEF Ready, Tabled
      <3> QED
        BY <3>2, <3>3
    <2>7. View(s) = Reader(r[i], "LENLENS", state.table, h + 1)
      <3>1. View(s) = Reader(s, "LENLENS", state.table, h + 1)
        BY <2>5, ViewIs DEF Tabled
      <3>2. s.wrap = r[i].wrap /\ s.last = r[i].last /\ s.flags = r[i].flags
        BY <2>3, <2>5 DEF Ready, Carried
      <3> QED
        BY <3>1, <3>2, SameReader
    <2>8. Settled(View(s)) = Settled(AfterField(r[i], Here))
      BY <2>6, <2>7
    <2>9. s.mode \notin Bytewise /\ Counters(s)
      <3>1. h + 1 \in 0 .. n
        BY <1>2, <1>3
      <3> QED
        BY <1>2, <2>5, <3>1 DEF Bytewise, Counters, Lengthy
    <2> QED
      BY <1>1, <2>1, <2>2, <2>3, <2>4, <2>5, <2>8, <2>9, BitsFieldIsUsed
  <1>4. CASE h = n /\ Becomes([state EXCEPT !.have = 0,
                                       !.mode = IF state.table.codes THEN "CODELENS" ELSE "BAD"])
    <2>1. PICK s : /\ s = [state EXCEPT !.have = 0,
                                  !.mode = IF state.table.codes THEN "CODELENS" ELSE "BAD"]
                   /\ Becomes(s)
      BY <1>4
    <2>2. /\ Carried(s, state) /\ s.hold = state.hold
          /\ s.mode = (IF state.table.codes THEN "CODELENS" ELSE "BAD")
          /\ s.last = state.last /\ s.flags = state.flags /\ s.table = state.table /\ s.have = 0
      BY <2>1 DEF Rest, Records, StateFields, Carried
    <2>3. BitsNeeded = 0
      BY <1>1, <1>2, <1>4 DEF BitsNeeded
    <2>4. s.mode # "BAD" => Settled(View(s)) = Settled(View(state))
      <3> SUFFICES ASSUME s.mode # "BAD" PROVE Settled(View(s)) = Settled(View(state))
        OBVIOUS
      <3>1. state.table.codes /\ s.mode = "CODELENS"
        BY <2>2
      <3>2. PICK v : v = View(state)
        OBVIOUS
      <3>3. /\ v.mode = "LENLENS" /\ v.count = n /\ v.table = state.table
            /\ v.wrap = state.wrap /\ v.last = state.last /\ v.flags = state.flags
        BY <1>1, <1>2, <1>4, <3>2, ViewFacts DEF Tabled
      <3>4. Settled(v) = Reader(v, "CODELENS", state.table, 0)
        BY <1>2, <3>1, <3>3 DEF Settled
      <3>5. Reader(v, "CODELENS", state.table, 0) = Reader(s, "CODELENS", state.table, 0)
        BY <2>2, <3>3, SameReader DEF Carried
      <3>6. PICK w : w = View(s) /\ w = Reader(s, "CODELENS", state.table, 0)
        BY <2>2, <3>1, ViewIs DEF Tabled
      <3>7. w.mode = "CODELENS" /\ w.count = 0 /\ w.table.lengths = m
        BY <1>2, <3>6 DEF Reader
      <3>8. Settled(w) = w
        BY <1>2, <3>7 DEF Settled
      <3> QED
        BY <3>2, <3>4, <3>5, <3>6, <3>8
    <2>5. s.mode \notin Bytewise /\ Counters(s)
      <3>1. 0 \in 0 .. m
        BY <1>2
      <3> QED
        BY <1>2, <2>2, <3>1 DEF Bytewise, Counters, Lengthy
    <2>6. state.mode # "BAD"
      BY <1>1
    <2> QED
      BY <1>1, <1>2, <1>4, <2>1, <2>2, <2>3, <2>4, <2>5, <2>6, GoesOn DEF ReadsField
  <1> QED
    BY <1>2, <1>3, <1>4 DEF ReadLenLens

\* ReadCodeLens keeps the invariant: the decoder stays in step with the reader.
LEMMA ReadCodeLensKeeps ==
  ASSUME Rest, NEW r, IsReading(stream, r), Synced(r), ReadCodeLens
  PROVE  Follows(r)
  <1>1. "CODELENS" \in BitModes /\ Reads("CODELENS") /\ state.mode = "CODELENS" /\ call.at = "inflate"
    BY DEF BitModes, ReadCodeLens, Reads, In
  <1>2. PICK m, h : /\ m = state.table.lengths /\ h = state.have
                    /\ m \in Nat \ {0} /\ h \in 0 .. m /\ state.table.ncode \in Nat \ {0}
    BY <1>1 DEF Rest, TableOK
  <1>3. CASE h < m /\ Becomes(IF Here.wrong \/ h + Here.says.copy > m
                                THEN Bad(state) ELSE [Drop(state) EXCEPT !.have = @ + Here.says.copy])
    <2>1. ReadsField
      BY <1>1, <1>2, <1>3 DEF ReadsField
    <2>2. /\ Reads(state.mode) /\ In(state.mode)
          /\ \E i : Ready(r, i) /\ r[i].mode = "CODELENS" /\ Here.wrong \in BOOLEAN
      BY <1>1, <2>1, FieldOf
    <2>3. PICK i : Ready(r, i) /\ r[i].mode = "CODELENS" /\ Here.wrong \in BOOLEAN
      BY <2>2
    <2>4. CASE Here.wrong \/ h + Here.says.copy > m
      <3>1. Becomes(Bad(state))
        BY <1>3, <2>4
      <3> QED
        BY <2>2, <3>1, IsRefused
    <2>5. CASE ~(Here.wrong \/ h + Here.says.copy > m)
      <3>1. PICK c : c = Here.says.copy /\ c \in Nat /\ h + c <= m /\ Here.wrong = FALSE
        BY <1>1, <1>2, <2>3, <2>5 DEF Ready, IsSaid
      <3>2. PICK s : s = [Drop(state) EXCEPT !.have = h + c] /\ Becomes(s)
        BY <1>2, <1>3, <2>5, <3>1 DEF Drop, Rest, Records, StateFields
      <3>3. /\ Carried(s, state) /\ s.hold = Without(state.hold, Here.width) /\ s.mode = "CODELENS"
            /\ s.last = state.last /\ s.flags = state.flags /\ s.table = state.table
            /\ s.have = h + c
        BY <1>1, <3>2 DEF Rest, Records, StateFields, Carried, Drop
      <3>4. AfterField(r[i], Here) = Reader(r[i], "CODELENS", state.table, h + c)
        <4>1. r[i].mode = "CODELENS" /\ Here.wrong = FALSE
          BY <2>3, <3>1
        <4>2. AfterField(r[i], Here) = AfterCodeLens(r[i], r[i].count + Here.says.copy)
          BY <4>1, AfterBlockIs
        <4>3. r[i].table = state.table /\ r[i].count = h
          BY <1>1, <1>2, <2>3 DEF Ready, Tabled
        <4> QED
          BY <1>2, <3>1, <4>2, <4>3 DEF AfterCodeLens
      <3>5. View(s) = Reader(r[i], "CODELENS", state.table, h + c)
        <4>1. View(s) = Reader(s, "CODELENS", state.table, h + c)
          BY <3>3, ViewIs DEF Tabled
        <4>2. s.wrap = r[i].wrap /\ s.last = r[i].last /\ s.flags = r[i].flags
          BY <2>3, <3>3 DEF Ready, Carried
        <4> QED
          BY <4>1, <4>2, SameReader
      <3>6. Settled(View(s)) = Settled(AfterField(r[i], Here))
        BY <3>4, <3>5
      <3>7. s.mode \notin Bytewise /\ Counters(s)
        <4>1. h + c \in 0 .. m
          BY <1>2, <3>1
        <4> QED
          BY <1>2, <3>3, <4>1 DEF Bytewise, Counters, Lengthy
      <3> QED
        BY <1>1, <2>1, <2>2, <2>3, <3>2, <3>3, <3>6, <3>7, BitsFieldIsUsed
    <2> QED
      BY <2>4, <2>5
  <1>4. CASE h = m /\ Becomes([state EXCEPT !.mode = IF state.table.sets THEN "LEN" ELSE "BAD"])
    <2>1. PICK s : /\ s = [state EXCEPT !.mode = IF state.table.sets THEN "LEN" ELSE "BAD"]
                   /\ Becomes(s)
      BY <1>4
    <2>2. /\ Carried(s, state) /\ s.hold = state.hold
          /\ s.mode = (IF state.table.sets THEN "LEN" ELSE "BAD")
          /\ s.last = state.last /\ s.flags = state.flags
      BY <2>1 DEF Rest, Records, StateFields, Carried
    <2>3. BitsNeeded = 0
      BY <1>1, <1>2, <1>4 DEF BitsNeeded
    <2>4. s.mode # "BAD" => Settled(View(s)) = Settled(View(state))
      <3> SUFFICES ASSUME s.mode # "BAD" PROVE Settled(View(s)) = Settled(View(state))
        OBVIOUS
      <3>1. state.table.sets /\ s.mode = "LEN"
        BY <2>2
      <3>2. PICK v : v = View(state)
        OBVIOUS
      <3>3. /\ v.mode = "CODELENS" /\ v.count = m /\ v.table = state.table
            /\ v.wrap = state.wrap /\ v.last = state.last /\ v.flags = state.flags
        BY <1>1, <1>2, <1>4, <3>2, ViewFacts DEF Tabled
      <3>4. Settled(v) = Step_(v, "LEN")
        BY <1>2, <3>1, <3>3 DEF Settled
      <3>5. View(s) = Step_(v, "LEN")
        BY <2>2, <3>1, <3>3, SameStep DEF Carried, Counted
      <3>6. View(s).mode = "LEN"
        BY <3>1, ViewFacts
      <3> QED
        BY <3>2, <3>4, <3>5, <3>6, SettledIs
    <2>5. s.mode \notin Bytewise /\ Counters(s)
      BY <2>2 DEF Bytewise, Counters, Lengthy
    <2>6. state.mode # "BAD"
      BY <1>1
    <2> QED
      BY <1>1, <1>2, <1>4, <2>1, <2>2, <2>3, <2>4, <2>5, <2>6, GoesOn DEF ReadsField
  <1> QED
    BY <1>2, <1>3, <1>4 DEF ReadCodeLens

\* ReadLen keeps the invariant: the decoder stays in step with the reader.
LEMMA ReadLenKeeps ==
  ASSUME Rest, NEW r, IsReading(stream, r), Synced(r), ReadLen
  PROVE  Follows(r)
  <1>1. "LEN" \in BitModes /\ Reads("LEN") /\ state.mode = "LEN"
    BY DEF BitModes, ReadLen, Reads, In
  <1>2. ReadsField
    BY <1>1 DEF ReadsField
  <1>3. /\ Reads(state.mode) /\ In(state.mode)
        /\ \E i : Ready(r, i) /\ r[i].mode = "LEN" /\ Here.wrong \in BOOLEAN
    BY <1>1, <1>2, FieldOf
  <1>4. PICK i : Ready(r, i) /\ r[i].mode = "LEN" /\ Here.wrong \in BOOLEAN
    BY <1>3
  <1>5. PICK m : m = IF Here.wrong THEN "BAD"
                     ELSE CASE Here.says.op = "literal" -> "LIT" [] Here.says.op = "end" -> "TYPE"
                            [] Here.says.op = "base" -> "LENEXT"
    OBVIOUS
  <1>6. PICK s : /\ s = [Drop(state) EXCEPT !.length = Here.says.val, !.extra = Here.says.extra,
                                            !.mode = m]
                 /\ Becomes(s)
    <2>1. Becomes([Drop(state) EXCEPT
             !.length = Here.says.val, !.extra = Here.says.extra,
             !.mode = IF Here.wrong THEN "BAD"
                      ELSE CASE Here.says.op = "literal" -> "LIT" [] Here.says.op = "end" -> "TYPE"
                             [] Here.says.op = "base" -> "LENEXT"])
      BY DEF ReadLen
    <2>2. Becomes([Drop(state) EXCEPT !.length = Here.says.val, !.extra = Here.says.extra, !.mode = m])
      BY <1>5, <2>1
    <2> QED
      BY <2>2
  <1>7. /\ Carried(s, state) /\ s.hold = Without(state.hold, Here.width) /\ s.mode = m
        /\ s.last = state.last /\ s.flags = state.flags
        /\ s.length = Here.says.val /\ s.extra = Here.says.extra
    BY <1>6 DEF Rest, Records, StateFields, Carried, Drop
  <1>8. CASE Here.wrong = TRUE
    <2>1. m = "BAD"
      BY <1>5, <1>8
    <2>2. s.mode = "BAD" /\ s.mode \notin Bytewise /\ Counters(s)
      BY <1>7, <2>1 DEF Bytewise, Counters, Lengthy
    <2> QED
      BY <1>1, <1>2, <1>3, <1>4, <1>6, <1>7, <2>2, BitsFieldIsUsed
  <1>9. CASE Here.wrong = FALSE
    <2>1. PICK x : x = Here.says
      OBVIOUS
    <2>2. x.op \in {"literal", "end"} \/ (x.op = "base" /\ x.val \in Nat)
      BY <1>1, <1>4, <1>9, <2>1 DEF Ready, IsSaid
    <2>3. m = CASE x.op = "literal" -> "LIT" [] x.op = "end" -> "TYPE" [] x.op = "base" -> "LENEXT"
      BY <1>5, <1>9, <2>1
    <2>4. AfterField(r[i], Here) = Symbol(r[i], x)
      BY <1>4, <1>9, <2>1, AfterTokenIs
    <2>5. s.wrap = r[i].wrap /\ s.last = r[i].last /\ s.flags = r[i].flags
      BY <1>4, <1>7 DEF Ready, Carried
    <2>6. View(s) = Symbol(r[i], x)
      <3>1. CASE x.op = "literal"
        <4>1. m = "LIT" /\ Symbol(r[i], x) = Step_(r[i], "LIT")
          BY <2>3, <3>1 DEF Symbol
        <4> QED
          BY <1>7, <2>5, <4>1, SameStep DEF Counted
      <3>2. CASE x.op = "end"
        <4>1. m = "TYPE" /\ Symbol(r[i], x) = Step_(r[i], "TYPE")
          BY <2>3, <3>2 DEF Symbol
        <4> QED
          BY <1>7, <2>5, <4>1, SameStep DEF Counted
      <3>3. CASE x.op = "base"
        <4>1. m = "LENEXT" /\ Symbol(r[i], x) = Counts(r[i], "LENEXT", x.extra)
          BY <2>3, <3>3 DEF Symbol
        <4>2. View(s) = Counts(s, "LENEXT", x.extra)
          BY <1>7, <2>1, <4>1, ViewIs
        <4> QED
          BY <2>5, <4>1, <4>2, SameReader
      <3> QED
        BY <2>2, <3>1, <3>2, <3>3
    <2>7. Settled(View(s)) = Settled(AfterField(r[i], Here))
      BY <2>4, <2>6
    <2>8. s.mode \notin Bytewise /\ Counters(s)
      <3>1. m \in {"LIT", "TYPE"} \/ (m = "LENEXT" /\ s.length \in Nat)
        BY <1>7, <2>1, <2>2, <2>3
      <3> QED
        BY <1>7, <3>1 DEF Bytewise, Counters, Lengthy
    <2> QED
      BY <1>1, <1>2, <1>3, <1>4, <1>6, <1>7, <2>7, <2>8, BitsFieldIsUsed
  <1> QED
    BY <1>4, <1>8, <1>9

\* ReadLenExt keeps the invariant: the decoder stays in step with the reader.
LEMMA ReadLenExtKeeps ==
  ASSUME Rest, NEW r, IsReading(stream, r), Synced(r), ReadLenExt
  PROVE  Follows(r)
  <1>1. "LENEXT" \in BitModes /\ Reads("LENEXT") /\ state.mode = "LENEXT" /\ call.at = "inflate"
    BY DEF BitModes, ReadLenExt, Reads, In
  <1>2. state.length \in Nat
    BY <1>1 DEF Rest, Room
  <1>3. CASE state.extra = 0
    <2>1. PICK s : s = [state EXCEPT !.mode = "DIST"] /\ Becomes(s)
      BY <1>3 DEF ReadLenExt
    <2>2. /\ Carried(s, state) /\ s.hold = state.hold /\ s.mode = "DIST"
          /\ s.last = state.last /\ s.flags = state.flags /\ s.length = state.length
      BY <2>1 DEF Rest, Records, StateFields, Carried
    <2>3. BitsNeeded = 0
      BY <1>1, <1>3 DEF BitsNeeded
    <2>4. Settled(View(s)) = Settled(View(state))
      <3>1. PICK v : v = View(state)
        OBVIOUS
      <3>2. /\ v.mode = "LENEXT" /\ v.count = 0
            /\ v.wrap = state.wrap /\ v.last = state.last /\ v.flags = state.flags
        BY <1>1, <1>3, <3>1, ViewFacts
      <3>3. Settled(v) = Step_(v, "DIST")
        BY <3>2 DEF Settled
      <3>4. View(s) = Step_(v, "DIST")
        BY <2>2, <3>2, SameStep DEF Carried, Counted
      <3>5. View(s).mode = "DIST"
        BY <2>2, ViewFacts
      <3> QED
        BY <3>1, <3>3, <3>4, <3>5, SettledIs
    <2>5. s.mode \notin Bytewise /\ Counters(s) /\ state.mode # "BAD"
      BY <1>1, <1>2, <2>2 DEF Bytewise, Counters, Lengthy
    <2> QED
      BY <1>1, <1>3, <2>1, <2>2, <2>3, <2>4, <2>5, GoesOn DEF ReadsField
  <1>4. CASE state.extra # 0
    <2>1. ReadsField
      BY <1>1, <1>4 DEF ReadsField
    <2>2. /\ Reads(state.mode) /\ In(state.mode)
          /\ \E i : Ready(r, i) /\ r[i].mode = "LENEXT" /\ Here.wrong = FALSE
      BY <1>1, <2>1, FieldOf DEF Refuses
    <2>3. PICK i : Ready(r, i) /\ r[i].mode = "LENEXT" /\ Here.wrong = FALSE
      BY <2>2
    <2>4. PICK s : /\ s = [Drop(state) EXCEPT !.mode = "DIST", !.length = @ + Here.says]
                   /\ Becomes(s)
      BY <1>4 DEF ReadLenExt
    <2>5. /\ Carried(s, state) /\ s.hold = Without(state.hold, Here.width) /\ s.mode = "DIST"
          /\ s.last = state.last /\ s.flags = state.flags /\ s.length = state.length + Here.says
      BY <2>4 DEF Rest, Records, StateFields, Carried, Drop
    <2>6. AfterField(r[i], Here) = Step_(r[i], "DIST")
      <3>1. r[i].mode = "LENEXT" /\ Here.wrong = FALSE
        BY <2>3
      <3> QED
        BY <3>1, AfterTokenIs
    <2>7. View(s) = Step_(r[i], "DIST")
      BY <2>3, <2>5, SameStep DEF Ready, Carried, Counted
    <2>8. Settled(View(s)) = Settled(AfterField(r[i], Here))
      BY <2>6, <2>7
    <2>9. s.mode \notin Bytewise /\ Counters(s)
      <3>1. Here.says \in Nat
        BY <1>1, <2>3 DEF Ready, IsSaid
      <3>2. s.length \in Nat
        BY <1>2, <2>5, <3>1
      <3> QED
        BY <2>5, <3>2 DEF Bytewise, Counters, Lengthy
    <2> QED
      BY <1>1, <2>1, <2>2, <2>3, <2>4, <2>5, <2>8, <2>9, BitsFieldIsUsed
  <1> QED
    BY <1>3, <1>4

\* ReadDist keeps the invariant: the decoder stays in step with the reader.
LEMMA ReadDistKeeps ==
  ASSUME Rest, NEW r, IsReading(stream, r), Synced(r), ReadDist
  PROVE  Follows(r)
  <1>1. "DIST" \in BitModes /\ Reads("DIST") /\ state.mode = "DIST"
    BY DEF BitModes, ReadDist, Reads, In
  <1>2. ReadsField /\ state.length \in Nat
    BY <1>1 DEF ReadsField, Rest, Room
  <1>3. /\ Reads(state.mode) /\ In(state.mode)
        /\ \E i : Ready(r, i) /\ r[i].mode = "DIST" /\ Here.wrong \in BOOLEAN
    BY <1>1, <1>2, FieldOf
  <1>4. PICK i : Ready(r, i) /\ r[i].mode = "DIST" /\ Here.wrong \in BOOLEAN
    BY <1>3
  <1>5. CASE Here.wrong = TRUE
    <2>1. Becomes(Bad(state))
      BY <1>5 DEF ReadDist
    <2> QED
      BY <1>3, <2>1, IsRefused
  <1>6. CASE Here.wrong = FALSE
    <2>1. PICK s : /\ s = [Drop(state) EXCEPT !.mode = "DISTEXT", !.offset = Here.says.val,
                                              !.extra = Here.says.extra]
                   /\ Becomes(s)
      BY <1>6 DEF ReadDist
    <2>2. /\ Carried(s, state) /\ s.hold = Without(state.hold, Here.width) /\ s.mode = "DISTEXT"
          /\ s.last = state.last /\ s.flags = state.flags /\ s.length = state.length
          /\ s.offset = Here.says.val /\ s.extra = Here.says.extra
      BY <2>1 DEF Rest, Records, StateFields, Carried, Drop
    <2>3. AfterField(r[i], Here) = Counts(r[i], "DISTEXT", Here.says.extra)
      BY <1>4, <1>6, AfterTokenIs
    <2>4. View(s) = Counts(r[i], "DISTEXT", Here.says.extra)
      <3>1. View(s) = Counts(s, "DISTEXT", Here.says.extra)
        BY <2>2, ViewIs
      <3>2. s.wrap = r[i].wrap /\ s.last = r[i].last /\ s.flags = r[i].flags
        BY <1>4, <2>2 DEF Ready, Carried
      <3> QED
        BY <3>1, <3>2, SameReader
    <2>5. Settled(View(s)) = Settled(AfterField(r[i], Here))
      BY <2>3, <2>4
    <2>6. s.mode \notin Bytewise /\ Counters(s)
      <3>1. Here.says.val \in Nat
        BY <1>1, <1>4, <1>6 DEF Ready, IsSaid
      <3> QED
        BY <1>2, <2>2, <3>1 DEF Bytewise, Counters, Lengthy
    <2> QED
      BY <1>1, <1>2, <1>3, <1>4, <2>1, <2>2, <2>5, <2>6, BitsFieldIsUsed
  <1> QED
    BY <1>4, <1>5, <1>6

\* ReadDistExt keeps the invariant: the decoder stays in step with the reader.
LEMMA ReadDistExtKeeps ==
  ASSUME Rest, NEW r, IsReading(stream, r), Synced(r), ReadDistExt
  PROVE  Follows(r)
  <1>1. "DISTEXT" \in BitModes /\ Reads("DISTEXT") /\ state.mode = "DISTEXT" /\ call.at = "inflate"
    BY DEF BitModes, ReadDistExt, Reads, In
  <1>2. state.length \in Nat /\ state.offset \in Nat
    BY <1>1 DEF Rest, Room, TableOK
  <1>3. PICK t : /\ t = IF state.extra = 0 THEN state
                        ELSE [Drop(state) EXCEPT !.offset = @ + Here.says]
                 /\ Becomes([t EXCEPT !.mode = IF t.offset > state.dmax THEN "BAD" ELSE "MATCH"])
    BY DEF ReadDistExt
  <1>4. PICK m, s : /\ m = IF t.offset > state.dmax THEN "BAD" ELSE "MATCH"
                    /\ s = [t EXCEPT !.mode = m] /\ Becomes(s)
    BY <1>3
  <1>5. m \in {"BAD", "MATCH"}
    BY <1>4
  <1>6. CASE state.extra = 0
    <2>1. s = [state EXCEPT !.mode = m]
      BY <1>3, <1>4, <1>6
    <2>2. /\ Carried(s, state) /\ s.hold = state.hold /\ s.mode = m
          /\ s.last = state.last /\ s.flags = state.flags /\ s.length = state.length
          /\ s.offset = state.offset
      BY <2>1 DEF Rest, Records, StateFields, Carried
    <2>3. BitsNeeded = 0
      BY <1>1, <1>6 DEF BitsNeeded
    <2>4. s.mode # "BAD" => Settled(View(s)) = Settled(View(state))
      <3> SUFFICES ASSUME s.mode = "MATCH" PROVE Settled(View(s)) = Settled(View(state))
        BY <1>5, <2>2
      <3>1. PICK v, w : v = View(state) /\ w = View(s)
        OBVIOUS
      <3>2. /\ v.mode = "DISTEXT" /\ v.count = 0
            /\ v.wrap = state.wrap /\ v.last = state.last /\ v.flags = state.flags
        BY <1>1, <1>6, <3>1, ViewFacts
      <3>3. w.mode = "MATCH" /\ w.wrap = s.wrap /\ w.last = s.last /\ w.flags = s.flags
        BY <3>1, ViewFacts
      <3>4. Settled(v) = Step_(v, "LEN") /\ Settled(w) = Step_(w, "LEN")
        BY <3>2, <3>3 DEF Settled
      <3>5. Step_(v, "LEN") = Step_(w, "LEN")
        BY <2>2, <3>2, <3>3, SameReader DEF Carried
      <3> QED
        BY <3>1, <3>4, <3>5
    <2>5. s.mode \notin Bytewise /\ Counters(s) /\ state.mode # "BAD"
      BY <1>1, <1>2, <1>5, <2>2 DEF Bytewise, Counters, Lengthy
    <2> QED
      BY <1>1, <1>4, <1>6, <2>2, <2>3, <2>4, <2>5, GoesOn DEF ReadsField
  <1>7. CASE state.extra # 0
    <2>1. ReadsField
      BY <1>1, <1>7 DEF ReadsField
    <2>2. /\ Reads(state.mode) /\ In(state.mode)
          /\ \E i : Ready(r, i) /\ r[i].mode = "DISTEXT" /\ Here.wrong = FALSE
      BY <1>1, <2>1, FieldOf DEF Refuses
    <2>3. PICK i : Ready(r, i) /\ r[i].mode = "DISTEXT" /\ Here.wrong = FALSE
      BY <2>2
    <2>4. /\ DOMAIN t = StateFields /\ Carried(t, state) /\ t.hold = Without(state.hold, Here.width)
          /\ t.last = state.last /\ t.flags = state.flags /\ t.length = state.length
          /\ t.offset = state.offset + Here.says
      BY <1>3, <1>7 DEF Rest, Records, StateFields, Carried, Drop
    <2>5. /\ Carried(s, state) /\ s.hold = Without(state.hold, Here.width) /\ s.mode = m
          /\ s.last = state.last /\ s.flags = state.flags /\ s.length = state.length
          /\ s.offset = state.offset + Here.says
      BY <1>4, <2>4 DEF StateFields, Carried
    <2>6. s.mode # "BAD" => Settled(View(s)) = Settled(AfterField(r[i], Here))
      <3> SUFFICES ASSUME s.mode = "MATCH" PROVE Settled(View(s)) = Settled(AfterField(r[i], Here))
        BY <1>5, <2>5
      <3>1. r[i].mode = "DISTEXT" /\ Here.wrong = FALSE
        BY <2>3
      <3>2. AfterField(r[i], Here) = Step_(r[i], "MATCH")
        BY <3>1, AfterTokenIs
      <3>3. View(s) = Step_(r[i], "MATCH")
        BY <2>3, <2>5, SameStep DEF Ready, Carried, Counted
      <3> QED
        BY <3>2, <3>3
    <2>7. s.mode \notin Bytewise /\ Counters(s)
      <3>1. Here.says \in Nat
        BY <1>1, <2>3 DEF Ready, IsSaid
      <3>2. s.offset \in Nat
        BY <1>2, <2>5, <3>1
      <3> QED
        BY <1>2, <1>5, <2>5, <3>2 DEF Bytewise, Counters, Lengthy
    <2> QED
      BY <1>1, <1>4, <2>1, <2>2, <2>3, <2>5, <2>6, <2>7, BitsFieldIsUsed
  <1> QED
    BY <1>6, <1>7

-----------------------------------------------------------------------------
(***************************************************************************)
(* Several fields in one step.                                             *)
(***************************************************************************)
\* A reader that knows v is before field i, after so many bits.
Before(r, v, bit, i) ==
  /\ i \in 1 .. Len(stream.fields) + 1 /\ r[i] = Settled(v)
  /\ r[i].mode \notin Ended => stream.fields[i].at = Start(r[i].mode, bit)

\* What it finds there, and where it is then.
LEMMA FieldGoesBy ==
  ASSUME Records, NEW r, IsReading(stream, r), NEW v, NEW bit \in Int, NEW i, Before(r, v, bit, i),
         Settled(v) = v, v.mode \notin Ended, v.mode \notin {"STORED", "CHECK"},
         NEW f, f = FieldAt(bit)
  PROVE  /\ i \in 1 .. Len(stream.fields) /\ i + 1 \in 1 .. Len(stream.fields) + 1
         /\ f = stream.fields[i] /\ f.at = bit /\ r[i] = v
         /\ f.width \in Nat /\ f.width > 0 /\ Fits(v, f)
         /\ \A t : Settled(t) = Settled(AfterField(v, f)) => Before(r, t, bit + f.width, i + 1)
  <1>1. PICK n \in Nat : n = Len(stream.fields)
    BY StreamFacts
  <1>2. r[i] = v /\ i \in 1 .. n + 1
    BY <1>1 DEF Before
  <1>3. /\ i <= n /\ Fits(v, stream.fields[i])
        /\ r[i + 1] = After(v, stream.fields[i])
    BY <1>1, <1>2 DEF IsReading
  <1>4. i \in 1 .. n /\ i + 1 \in 1 .. n + 1 /\ i + 1 # 1 /\ (i + 1) - 1 = i
    BY <1>1, <1>2, <1>3
  <1>5. stream.fields[i].at = bit
    BY <1>2 DEF Before, Start
  <1>6. f = stream.fields[i]
    BY <1>1, <1>4, <1>5, FieldIsThere
  <1>7. f.width \in Nat /\ f.width > 0
    BY <1>1, <1>4, <1>6, StreamFacts
  <1>8. ASSUME NEW t, Settled(t) = Settled(AfterField(v, f))
        PROVE  Before(r, t, bit + f.width, i + 1)
    <2>1. r[i + 1] = Settled(t)
      BY <1>3, <1>6, <1>8 DEF After
    <2>2. ASSUME r[i + 1].mode \notin Ended
          PROVE  stream.fields[i + 1].at = Start(r[i + 1].mode, bit + f.width)
      <3>1. stream.fields[i + 1].at = Start(r[i + 1].mode, EndOfField(stream.fields[i]))
        BY <1>1, <1>4, <2>2 DEF IsReading
      <3>2. EndOfField(stream.fields[i]) = bit + f.width
        BY <1>5, <1>6 DEF EndOfField
      <3> QED
        BY <3>1, <3>2
    <2> QED
      BY <1>1, <1>4, <2>1, <2>2 DEF Before
  <1> QED
    BY <1>1, <1>2, <1>3, <1>4, <1>5, <1>6, <1>7, <1>8

\* The least of three numbers: what is left to copy, of input and of room.
LEMMA LeastIsLeast ==
  ASSUME NEW S, S # {}, NEW a \in Nat, NEW b \in Nat, NEW c \in Nat, S = {a, b, c}
  PROVE  Least(S) \in Nat /\ Least(S) \in S /\ Least(S) <= a /\ Least(S) <= b /\ Least(S) <= c
  <1>1. \E n \in S : \A k \in S : n <= k
    <2>1. CASE a <= b /\ a <= c
      BY <2>1
    <2>2. CASE b <= a /\ b <= c
      BY <2>2
    <2>3. CASE c <= a /\ c <= b
      BY <2>3
    <2> QED
      BY <2>1, <2>2, <2>3
  <1>2. Least(S) \in S /\ \A k \in S : Least(S) <= k
    BY <1>1 DEF Least
  <1> QED
    BY <1>2

\* The bytes of a stored block follow each other.
LEMMA BytesGoBy ==
  ASSUME Records, NEW r, IsReading(stream, r), NEW s, NEW length \in Nat, NEW bit \in Int, NEW i,
         Before(r, Counts(s, "COPY", length), bit, i), NEW m \in 0 .. length
  PROVE  Before(r, Counts(s, "COPY", length - m), bit + 8 * m, i + m)
  <1> DEFINE T == {k \in Nat : Before(r, Counts(s, "COPY", length - k), bit + 8 * k, i + k)}
  <1>1. 0 \in T
    <2>1. length - 0 = length /\ bit + 8 * 0 = bit
      OBVIOUS
    <2>2. i + 0 = i
      <3>1. i \in Int
        BY StreamFacts DEF Before
      <3> QED
        BY <3>1
    <2> QED
      BY <2>1, <2>2
  <1>2. ASSUME NEW k \in 0 .. length - 1, k \in T PROVE k + 1 \in T
    <2> DEFINE b == bit + 8 * k
               j == i + k
               f == FieldAt(b)
    <2>1. PICK v : v = Counts(s, "COPY", length - k)
      OBVIOUS
    <2>2. Before(r, v, b, j)
      BY <1>2, <2>1
    <2>3. v.mode = "COPY" /\ v.count = length - k /\ length - k > 0
      BY <1>2, <2>1 DEF Counts, Reader
    <2>4. Settled(v) = v /\ v.mode \notin Ended /\ v.mode \notin {"STORED", "CHECK"}
      <3>1. v.count # 0
        BY <2>3
      <3> QED
        BY <2>3, <3>1 DEF Settled, Ended
    <2>5. /\ Fits(v, f)
          /\ \A t : Settled(t) = Settled(AfterField(v, f)) => Before(r, t, b + f.width, j + 1)
      BY <2>1, <2>2, <2>4, FieldGoesBy
    <2>6. f.width = 8 /\ f.wrong = FALSE
      <3>1. Widths(v) = {8}
        BY <2>3 DEF Widths
      <3> QED
        BY <2>3, <2>5, <3>1 DEF Fits, Refuses
    <2>7. AfterField(v, f) = Counts(v, "COPY", v.count - 1)
      <3>1. v.mode = "COPY" /\ f.wrong = FALSE
        BY <2>3, <2>6
      <3> QED
        BY <3>1, AfterBlockIs
    <2>8. Counts(v, "COPY", v.count - 1) = Counts(s, "COPY", length - (k + 1))
      <3>1. v.count - 1 = length - (k + 1)
        BY <2>3
      <3>2. v.wrap = s.wrap /\ v.last = s.last /\ v.flags = s.flags
        BY <2>1 DEF Counts, Reader
      <3> QED
        BY <3>1, <3>2, SameReader
    <2>9. Before(r, Counts(s, "COPY", length - (k + 1)), b + 8, j + 1)
      BY <2>5, <2>6, <2>7, <2>8
    <2>10. b + 8 = bit + 8 * (k + 1) /\ k + 1 \in Nat
      BY <2>1
    <2>11. j + 1 = i + (k + 1)
      <3>1. j \in Int /\ i \in Int
        <4>1. i \in Int
          BY StreamFacts DEF Before
        <4> QED
          BY <2>1, <4>1
      <3> QED
        BY <2>1, <3>1
    <2> QED
      BY <2>9, <2>10, <2>11
  <1> HIDE DEF T
  <1>3. 0 .. length \subseteq T
    BY <1>1, <1>2, InductionUpTo
  <1>4. m \in T
    BY <1>3
  <1> QED
    BY <1>4 DEF T

\* The decoder goes on by so many fields.
Passes(r, n) == Preserved(r)' /\ \A i : Stands(r, i) => Stands(r, i + n)'

\* Copy keeps the invariant: the decoder goes on by as many fields as it takes bytes.
LEMMA CopyKeeps ==
  ASSUME Rest, NEW r, IsReading(stream, r), Synced(r), Copy
  PROVE  \E n \in Nat : Passes(r, n) /\ strm'.next_in = strm.next_in + n
  <1>1. call.at = "inflate" /\ state.mode = "COPY" /\ state.length \in Nat
    BY DEF Copy, In, Rest, Room
  <1>2. Width = 0 /\ state.hold = <<>> /\ NextBit = 8 * NextByte /\ NextByte \in Nat
    BY <1>1, NoBitsInBytes DEF TakesBytes
  <1>3. CASE state.length = 0 /\ Becomes([state EXCEPT !.mode = "TYPE"])
    <2>1. PICK s : s = [state EXCEPT !.mode = "TYPE"] /\ Becomes(s)
      BY <1>3
    <2>2. /\ Carried(s, state) /\ s.hold = state.hold /\ s.mode = "TYPE"
          /\ s.last = state.last /\ s.flags = state.flags
      BY <2>1 DEF Rest, Records, StateFields, Carried
    <2>3. BitsNeeded = 0
      BY <1>1 DEF BitsNeeded
    <2>4. Settled(View(s)) = Settled(View(state))
      <3>1. PICK v, w : v = View(state) /\ w = View(s)
        OBVIOUS
      <3>2. /\ v.mode = "COPY" /\ v.count = 0
            /\ v.wrap = state.wrap /\ v.last = state.last /\ v.flags = state.flags
        BY <1>1, <1>3, <3>1, ViewFacts
      <3>3. w.mode = "TYPE" /\ w.wrap = s.wrap /\ w.last = s.last /\ w.flags = s.flags
        BY <2>2, <3>1, ViewFacts
      <3>4. Settled(v) = Block(v) /\ Settled(w) = Block(w)
        BY <3>2, <3>3, SettledIs
      <3>5. Block(v) = Block(w)
        BY <2>2, <3>2, <3>3, SameReader DEF Carried
      <3> QED
        BY <3>1, <3>4, <3>5
    <2>5. s.mode \notin Bytewise /\ Counters(s) /\ state.mode # "BAD"
      BY <1>1, <2>2 DEF Bytewise, Counters, Lengthy
    <2>6. ~ReadsField /\ s.mode # "BAD"
      BY <1>1, <1>3, <2>2 DEF ReadsField
    <2>7. Follows(r)
      BY <1>1, <2>1, <2>2, <2>3, <2>4, <2>5, <2>6, GoesOn
    <2>8. strm'.next_in = strm.next_in + 0 /\ state'.mode # "BAD"
      BY <2>1, <2>6 DEF Becomes, Rest, Room
    <2>9. Passes(r, 0)
      <3>1. Preserved(r)' /\ \A i : Stands(r, i) => Stands(r, i)'
        BY <2>6, <2>7, <2>8 DEF Follows
      <3>2. ASSUME NEW i, Stands(r, i) PROVE i + 0 = i
        BY <3>2, StreamFacts DEF Rest, Stands
      <3>3. ASSUME NEW i, Stands(r, i) PROVE Stands(r, i + 0)'
        BY <3>1, <3>2, <3>3
      <3> QED
        BY <3>1, <3>3 DEF Passes
    <2> QED
      BY <2>8, <2>9
  <1>4. ASSUME NEW copy, copy = Least({state.length, strm.avail_in, strm.avail_out}), copy > 0,
               NEW bytes, bytes = [n \in 1 .. copy |-> FieldAt(8 * (NextByte + n - 1)).says],
               strm' = Put(Taken(copy), bytes),
               state' = [state EXCEPT !.length = @ - copy],
               UNCHANGED <<stream, inflater, call>>
        PROVE  \E n \in Nat : Passes(r, n) /\ strm'.next_in = strm.next_in + n
    <2>1. PICK a, b, c \in Nat : a = state.length /\ b = strm.avail_in /\ c = strm.avail_out
      BY <1>1 DEF Rest, Room
    <2>2. copy \in Nat /\ copy <= a /\ copy <= b /\ copy <= c
      <3>1. PICK S : S = {a, b, c} /\ S # {}
        OBVIOUS
      <3>2. copy = Least(S)
        BY <1>4, <2>1, <3>1
      <3> QED
        BY <3>1, <3>2, LeastIsLeast
    <2>3. Len(bytes) = copy
      BY <1>4, <2>2
    <2>4. Moved(copy) /\ NextByte' = NextByte + copy
      <3>1. Len(bytes) \in 0 .. strm.avail_out /\ copy \in Int
        BY <2>1, <2>2, <2>3
      <3> QED
        BY <1>4, <3>1, TakenMoves
    <2>5. /\ Carried(state', state) /\ state'.mode = "COPY" /\ state'.hold = state.hold
          /\ state'.length = a - copy /\ state'.last = state.last /\ state'.flags = state.flags
      BY <1>1, <1>4, <2>1 DEF Rest, Records, StateFields, Carried
    <2>6. a - copy \in Nat
      BY <2>2
    <2>7. Rest'
      <3>1. strm.avail_out \in Nat /\ call.out \in Nat /\ strm.avail_out <= call.out /\ Running
        BY <1>1 DEF Rest, Room, Running
      <3>2. strm'.avail_out <= strm.avail_out /\ strm'.avail_out \in Nat
        BY <2>4, <3>1 DEF Moved
      <3>3. /\ call'.at \in {"inflate", "fast"}
            /\ DOMAIN call' = CallFields /\ call'.ret = call.ret /\ call'.out \in Nat
            /\ strm'.avail_out <= call'.out
        BY <1>1, <1>4, <3>1, <3>2 DEF Rest, Records
      <3>4. TableOK' /\ (state'.mode \in Lengthy => state'.length \in Nat)
        BY <2>5, <2>6 DEF TableOK
      <3>5. copy <= strm.avail_in /\ strm.next_in + copy >= 0 /\ copy \in Int
        BY <2>1, <2>2 DEF Rest, Room
      <3> QED
        BY <1>4, <2>4, <2>5, <3>1, <3>3, <3>4, <3>5, RestMoves
    <2>8. HoldOK' /\ Width' = 0 /\ NextBit' = NextBit + 8 * copy
      <3>1. NextByte' \in Nat
        BY <1>2, <2>2, <2>4
      <3>2. HoldOK' /\ Width' = 0 /\ NextBit' = 8 * NextByte'
        BY <1>2, <2>5, <3>1, NoBitsAreLeft DEF Rest
      <3> QED
        BY <1>2, <2>2, <2>4, <3>2
    <2>9. ASSUME NEW i, Stands(r, i)
          PROVE  Stands(r, i + copy)' /\ i + copy \in 1 .. Len(stream.fields) + 1
      <3>1. Stands(r, i)
        BY <2>9
      <3>2. View(state) = Counts(state, "COPY", a)
        BY <1>1, <2>1, ViewIs
      <3>3. Before(r, Counts(state, "COPY", a), NextBit, i)
        BY <1>1, <3>1, <3>2 DEF Stands, Before
      <3>4. Before(r, Counts(state, "COPY", a - copy), NextBit + 8 * copy, i + copy)
        <4>1. NextBit \in Int /\ copy \in 0 .. a /\ Records
          BY <1>2, <2>2 DEF Rest
        <4> QED
          BY <3>3, <4>1, BytesGoBy
      <3>5. View(state') = Counts(state, "COPY", a - copy)
        <4>1. View(state') = Counts(state', "COPY", a - copy)
          BY <2>5, ViewIs
        <4> QED
          BY <2>5, <4>1, SameReader DEF Carried
      <3> QED
        BY <1>4, <2>5, <2>8, <3>4, <3>5 DEF Stands, Before
    <2>10. Synced(r)'
      <3>1. Bounded'
        <4>1. Short' /\ call'.at = "inflate"
          BY <1>1, <1>4, <2>8 DEF Short
        <4> QED
          BY <4>1 DEF Bounded
      <3>2. (call.at = "fast" => state.mode \in {"LEN", "TYPE", "BAD"})'
        BY <1>1, <1>4
      <3>3. (state.mode \in Bytewise => Width % 8 = 0)'
        BY <2>8
      <3>4. InSteps(r)'
        BY <1>4, <2>9 DEF Synced, InSteps
      <3> QED
        BY <2>8, <3>1, <3>2, <3>3, <3>4 DEF Synced
    <2>11. strm'.next_in = strm.next_in + copy /\ copy \in Nat
      BY <2>2, <2>4 DEF Moved
    <2>12. Preserved(r)'
      BY <2>7, <2>10 DEF Preserved
    <2> QED
      BY <2>9, <2>11, <2>12 DEF Passes
  <1> QED
    BY <1>3, <1>4 DEF Copy

-----------------------------------------------------------------------------
(***************************************************************************)
(* Output without input.                                                   *)
(***************************************************************************)
LEMMA PutMoves ==
  ASSUME Rest, Running, NEW bytes, Len(bytes) \in 0 .. strm.avail_out, strm' = Put(strm, bytes),
         UNCHANGED <<stream, inflater, call>>, Carried(state', state),
         state'.mode \in Lengthy => state'.length \in Nat, TableOK'
  PROVE  Rest' /\ NextByte' = NextByte
  <1>1. Moved(0) /\ NextByte' = NextByte
    <2>1. PICK z \in Int : z = 0
      OBVIOUS
    <2>2. strm' = Put(strm, bytes) /\ z = 0
      BY <2>1
    <2>3. Moved(z) /\ NextByte' = NextByte + z
      BY <2>2, TakenMoves
    <2>4. NextByte \in Nat
      BY InputIsNumbers DEF Rest
    <2> QED
      BY <2>1, <2>3, <2>4
  <1>2. strm.avail_out \in Nat /\ call.out \in Nat /\ strm.avail_out <= call.out
    BY DEF Rest, Room, Running
  <1>3. strm'.avail_out <= strm.avail_out /\ strm'.avail_out \in Nat
    BY <1>1, <1>2 DEF Moved
  <1>4. /\ call'.at \in {"inflate", "fast"} /\ DOMAIN call' = CallFields /\ call'.ret = call.ret
        /\ call'.out \in Nat /\ strm'.avail_out <= call'.out
    BY <1>2, <1>3 DEF Rest, Records, Running
  <1>5. strm.next_in + 0 >= 0 /\ 0 <= strm.avail_in /\ 0 \in Int
    BY DEF Rest, Room
  <1> QED
    BY <1>1, <1>4, <1>5, RestMoves

\* The bytes of the window up to its end, or to where it will be written next.
LEMMA WindowHas ==
  ASSUME WindowOK, NEW back \in Nat, back > 0, back <= state.whave
  PROVE  Len(Window(back)) \in Nat
  <1>1. PICK size, have, next \in Nat : /\ size = state.wsize /\ have = state.whave
                                        /\ next = state.wnext /\ have <= size /\ next <= size
    BY StreamAssumption DEF WindowOK
  <1>2. CASE back > next
    <2>1. Window(back) = SubSeq(state.window, size - (back - next) + 1, size)
      BY <1>1, <1>2 DEF Window
    <2>2. 1 + size - (size - (back - next) + 1) = back - next /\ back - next \in Nat
      BY <1>1, <1>2
    <2>3. PICK k \in Nat : k = back - next
      BY <2>2
    <2>4. Len(SubSeq(state.window, size - (back - next) + 1, size)) = k
      BY <2>2, <2>3
    <2> QED
      BY <2>1, <2>4
  <1>3. CASE ~(back > next)
    <2>1. Window(back) = SubSeq(state.window, next - back + 1, next)
      BY <1>1, <1>3 DEF Window
    <2>2. 1 + next - (next - back + 1) = back
      BY <1>1
    <2> QED
      BY <2>1, <2>2
  <1> QED
    BY <1>2, <1>3

\* A run is no longer than the match, nor than there is room.
LEMMA RunHas ==
  ASSUME Rest, Running, NEW offset \in Nat, ~TooFarBack(offset), NEW most \in Nat
  PROVE  Len(MatchRun(strm, offset, most)) \in 0 .. most
  <1>1. PICK back \in Int : back = offset - Produced(strm)
    BY DEF Rest, Room, Produced
  <1>2. CASE back > 0
    <2>1. PICK h \in Nat, p \in Nat : h = state.whave /\ p = Produced(strm)
      BY StreamAssumption DEF Rest, Room, Produced, WindowOK
    <2>2. back \in Nat /\ back <= state.whave
      BY <1>1, <1>2, <2>1 DEF TooFarBack
    <2>3. PICK k \in Nat : k = Len(Window(back))
      BY <1>2, <2>2, WindowHas DEF Rest
    <2>4. PICK S : S = {most, k} /\ S = {most, k, k} /\ S # {}
      OBVIOUS
    <2>5. PICK n \in Nat : n = Least(S) /\ n <= most
      BY <2>4, LeastIsLeast
    <2>6. MatchRun(strm, offset, most) = SubSeq(Window(back), 1, n)
      BY <1>1, <1>2, <2>3, <2>4, <2>5 DEF MatchRun
    <2>7. Len(SubSeq(Window(back), 1, n)) = n
      <3>1. 1 + n - 1 = n
        OBVIOUS
      <3>2. SubSeq(Window(back), 1, n) = [i \in 1 .. (1 + n - 1) |-> Window(back)[1 + i - 1]]
        BY DEF SubSeq
      <3> QED
        BY <3>1, <3>2
    <2> QED
      BY <2>5, <2>6, <2>7
  <1>3. CASE ~(back > 0)
    <2> DEFINE begun == SubSeq(strm.output, Len(strm.output) - offset + 1, Len(strm.output))
    <2>1. MatchRun(strm, offset, most) = [i \in 1 .. most |-> begun[((i - 1) % offset) + 1]]
      BY <1>1, <1>3 DEF MatchRun
    <2> HIDE DEF begun
    <2>2. Len([i \in 1 .. most |-> begun[((i - 1) % offset) + 1]]) = most
      OBVIOUS
    <2> QED
      BY <2>1, <2>2
  <1> QED
    BY <1>2, <1>3

\* CopyMatch keeps the invariant: the decoder stays in step with the reader.
LEMMA CopyMatchKeeps ==
  ASSUME Rest, NEW r, Synced(r), CopyMatch
  PROVE  Follows(r)
  <1>1. /\ call.at = "inflate" /\ state.mode = "MATCH" /\ In(state.mode) /\ Running
        /\ state.length \in Nat /\ state.offset \in Nat /\ strm.avail_out \in Nat
    BY DEF CopyMatch, In, Running, Rest, Room, TableOK
  <1>2. CASE Becomes(Bad(state))
    BY <1>1, <1>2, IsRefused
  <1>3. ASSUME NEW run, run = MatchRun(strm, state.offset, Least({state.length, strm.avail_out})),
               ~TooFarBack(state.offset), strm' = Put(strm, run),
               state' = [state EXCEPT !.length = @ - Len(run),
                                      !.mode = IF state.length = Len(run) THEN "LEN" ELSE "MATCH"],
               UNCHANGED <<stream, inflater, call>>
        PROVE  Follows(r)
    <2>1. PICK a, c \in Nat : a = state.length /\ c = strm.avail_out
      BY <1>1
    <2>2. PICK S : S = {a, c} /\ S = {a, c, c} /\ S # {}
      OBVIOUS
    <2>3. PICK n \in Nat : n = Least(S) /\ n <= a /\ n <= c
      BY <2>2, LeastIsLeast
    <2>4. PICK l \in 0 .. n : l = Len(run)
      BY <1>1, <1>3, <2>1, <2>2, <2>3, RunHas
    <2>5. PICK m : m = (IF state.length = Len(run) THEN "LEN" ELSE "MATCH")
      OBVIOUS
    <2>6. state' = [state EXCEPT !.length = @ - Len(run), !.mode = m]
      BY <1>3, <2>5
    <2>7. /\ Carried(state', state) /\ state'.mode = m /\ state'.hold = state.hold
          /\ state'.length = a - l /\ state'.last = state.last /\ state'.flags = state.flags
          /\ state'.offset = state.offset
      BY <2>1, <2>4, <2>6 DEF Rest, Records, StateFields, Carried
    <2>8. m \in {"LEN", "MATCH"} /\ a - l \in Nat /\ l \in 0 .. c
      BY <2>3, <2>4, <2>5
    <2>9. Rest' /\ NextByte' = NextByte
      <3>1. TableOK'
        BY <1>1, <2>7, <2>8 DEF TableOK
      <3>2. Len(run) \in 0 .. strm.avail_out /\ (state'.mode \in Lengthy => state'.length \in Nat)
        BY <2>1, <2>4, <2>7, <2>8
      <3> QED
        BY <1>1, <1>3, <2>7, <3>1, <3>2, PutMoves
    <2>10. Settled(View(state')) = Settled(View(state))
      <3>1. PICK v, w : v = View(state) /\ w = View(state')
        OBVIOUS
      <3>2. v.mode = "MATCH" /\ v.wrap = state.wrap /\ v.last = state.last /\ v.flags = state.flags
        BY <1>1, <3>1, ViewFacts
      <3>3. w.mode = m /\ w.wrap = state.wrap /\ w.last = state.last /\ w.flags = state.flags
        BY <2>7, <3>1, ViewFacts DEF Carried
      <3>4. Settled(v) = Step_(v, "LEN") /\ Step_(v, "LEN") = Step_(w, "LEN")
        <4>1. Settled(v) = Step_(v, "LEN")
          BY <3>2 DEF Settled
        <4> QED
          BY <3>2, <3>3, <4>1, SameReader
      <3>5. Settled(w) = Step_(w, "LEN")
        <4>1. CASE m = "MATCH"
          BY <3>3, <4>1 DEF Settled
        <4>2. CASE m = "LEN"
          <5>1. Settled(w) = w
            BY <3>3, <4>2, SettledIs
          <5>2. w = Step_(state', "LEN")
            BY <2>7, <3>1, <4>2, ViewIs DEF Counted
          <5>3. Step_(state', "LEN") = Step_(w, "LEN")
            BY <2>7, <3>3, SameReader DEF Carried
          <5> QED
            BY <5>1, <5>2, <5>3
        <4> QED
          BY <2>8, <4>1, <4>2
      <3> QED
        BY <3>1, <3>4, <3>5
    <2>11. Width < 8
      <3>1. BitsNeeded = 0
        BY <1>1 DEF BitsNeeded
      <3> QED
        BY <1>1, <3>1, FewBits
    <2>12. Synced(r)' /\ \A i : Stands(r, i) => Stands(r, i)'
      <3>1. state'.mode \notin Bytewise
        BY <2>7, <2>8 DEF Bytewise
      <3> QED
        BY <1>1, <1>3, <2>7, <2>9, <2>10, <2>11, <3>1, NothingIsRead DEF Rest
    <2> QED
      BY <1>1, <2>9, <2>12 DEF Follows, Preserved, ReadsField
  <1> QED
    BY <1>2, <1>3 DEF CopyMatch

\* CopyLit keeps the invariant: the decoder stays in step with the reader.
LEMMA CopyLitKeeps ==
  ASSUME Rest, NEW r, Synced(r), CopyLit
  PROVE  Follows(r)
  <1>1. /\ call.at = "inflate" /\ state.mode = "LIT" /\ In(state.mode) /\ Running
        /\ strm.avail_out \in Nat /\ strm.avail_out > 0
        /\ strm' = Put(strm, <<state.length>>) /\ state' = [state EXCEPT !.mode = "LEN"]
        /\ UNCHANGED <<stream, inflater, call>>
    BY DEF CopyLit, In, Running, Rest, Room
  <1>2. /\ Carried(state', state) /\ state'.mode = "LEN" /\ state'.hold = state.hold
        /\ state'.last = state.last /\ state'.flags = state.flags
    BY <1>1 DEF Rest, Records, StateFields, Carried
  <1>3. Rest' /\ NextByte' = NextByte
    <2>1. TableOK' /\ state'.mode \notin Lengthy
      BY <1>2 DEF TableOK, Lengthy
    <2>2. Len(<<state.length>>) \in 0 .. strm.avail_out
      BY <1>1
    <2> QED
      BY <1>1, <1>2, <2>1, <2>2, PutMoves
  <1>4. Settled(View(state')) = Settled(View(state))
    <2>1. PICK v, w : v = View(state) /\ w = View(state')
      OBVIOUS
    <2>2. v.mode = "LIT" /\ v.wrap = state.wrap /\ v.last = state.last /\ v.flags = state.flags
      BY <1>1, <2>1, ViewFacts
    <2>3. w.mode = "LEN" /\ w = Step_(state', "LEN")
      BY <1>2, <2>1, ViewFacts, ViewIs DEF Counted
    <2>4. Settled(v) = Step_(v, "LEN")
      BY <2>2 DEF Settled
    <2>5. Step_(v, "LEN") = Step_(state', "LEN")
      BY <1>2, <2>2, SameReader DEF Carried
    <2>6. Settled(w) = w
      BY <2>3, SettledIs
    <2> QED
      BY <2>1, <2>3, <2>4, <2>5, <2>6
  <1>5. Width < 8
    <2>1. BitsNeeded = 0
      BY <1>1 DEF BitsNeeded
    <2> QED
      BY <1>1, <2>1, FewBits
  <1>6. Synced(r)' /\ \A i : Stands(r, i) => Stands(r, i)'
    <2>1. state'.mode \notin Bytewise
      BY <1>2 DEF Bytewise
    <2> QED
      BY <1>1, <1>2, <1>3, <1>4, <1>5, <2>1, NothingIsRead DEF Rest
  <1> QED
    BY <1>1, <1>3, <1>6 DEF Follows, Preserved, ReadsField

\* Of the call only where its output begins may change.
LEMMA CheckStays ==
  ASSUME Rest, call.at = "inflate", UNCHANGED <<stream, strm, inflater>>,
         call' = [call EXCEPT !.out = strm.avail_out], Carried(state', state),
         state'.mode \in {"BAD", "DONE", "LENGTH"}
  PROVE  Rest' /\ NextByte' = NextByte /\ call'.at = "inflate"
  <1>1. /\ call'.at = "inflate" /\ DOMAIN call' = CallFields /\ call'.ret = call.ret
        /\ call'.out = strm.avail_out
    BY DEF Rest, Records, CallFields
  <1>2. Records'
    BY <1>1 DEF Rest, Records, Carried
  <1>3. WindowOK'
    BY DEF Rest, WindowOK, Carried
  <1>4. Room'
    <2>1. Pushed' = Pushed /\ BytesOf(stream)' = BytesOf(stream)
      BY DEF Pushed
    <2> QED
      BY <1>1, <2>1 DEF Rest, Room
  <1>5. Codes' /\ TableOK'
    BY <1>1 DEF Rest, Codes, TableOK
  <1>6. NextByte' = NextByte
    BY DEF NextByte
  <1> QED
    BY <1>1, <1>2, <1>3, <1>4, <1>5, <1>6 DEF Rest

\* ReadCheck keeps the invariant: the decoder stays in step with the reader.
LEMMA ReadCheckKeeps ==
  ASSUME Rest, NEW r, IsReading(stream, r), Synced(r), ReadCheck
  PROVE  Follows(r)
  <1>1. /\ state.mode = "CHECK" /\ Reads(state.mode) /\ In(state.mode) /\ ReadsField
        /\ state.mode \in BitModes \cap (Bytewise \cup {"STORED"})
        /\ \E i : Ready(r, i) /\ r[i].mode = "CHECK" /\ Here.wrong = FALSE
    BY WholeField DEF ReadCheck
  <1>2. PICK i : Ready(r, i) /\ r[i].mode = "CHECK" /\ Here.wrong = FALSE
    BY <1>1
  <1>3. /\ call.at = "inflate" /\ UNCHANGED <<stream, strm, inflater>>
        /\ call' = [call EXCEPT !.out = strm.avail_out]
    BY <1>1 DEF ReadCheck, In
  <1>4. PICK s : /\ s = Summed(state, Produced(strm))
                 /\ state' = IF Here.says # s.check THEN Bad(s)
                             ELSE [InitBits(s) EXCEPT
                                     !.mode = IF s.flags = {} THEN "DONE" ELSE "LENGTH"]
    BY DEF ReadCheck
  <1>5. /\ DOMAIN s = StateFields /\ Carried(s, state) /\ s.hold = state.hold
        /\ s.last = state.last /\ s.flags = state.flags
    BY <1>4 DEF Summed, Rest, Records, StateFields, Carried
  <1>6. CASE Here.says # s.check
    <2>1. state' = [s EXCEPT !.mode = "BAD"]
      BY <1>4, <1>6 DEF Bad
    <2>2. Carried(state', state) /\ state'.mode = "BAD" /\ state'.hold = state.hold
      BY <1>5, <2>1 DEF StateFields, Carried
    <2>3. Rest' /\ NextByte' = NextByte /\ call'.at = "inflate"
      BY <1>3, <2>2, CheckStays
    <2>4. Synced(r)'
      BY <1>1, <1>3, <2>2, <2>3, GoesBad DEF Rest
    <2> QED
      BY <2>2, <2>3, <2>4 DEF Follows, Preserved
  <1>7. CASE Here.says = s.check
    <2>1. PICK m : m = (IF s.flags = {} THEN "DONE" ELSE "LENGTH")
      OBVIOUS
    <2>2. state' = [[s EXCEPT !.hold = <<>>] EXCEPT !.mode = m]
      BY <1>4, <1>7, <2>1 DEF InitBits
    <2>3. /\ Carried(state', state) /\ state'.mode = m /\ state'.hold = <<>>
          /\ state'.last = state.last /\ state'.flags = state.flags
      BY <1>5, <2>2 DEF StateFields, Carried
    <2>4. m \in {"DONE", "LENGTH"}
      BY <2>1
    <2>5. Rest' /\ NextByte' = NextByte /\ call'.at = "inflate"
      BY <1>3, <2>3, <2>4, CheckStays
    <2>6. AfterField(r[i], Here) = Step_(r[i], m)
      <3>1. r[i].mode = "CHECK" /\ Here.wrong = FALSE
        BY <1>2
      <3>2. AfterField(r[i], Here) = Step_(r[i], IF r[i].flags = {} THEN "DONE" ELSE "LENGTH")
        BY <3>1, AfterHeaderIs
      <3> QED
        BY <1>2, <1>5, <2>1, <3>2 DEF Ready
    <2>7. View(state') = Step_(r[i], m)
      <3>1. state'.wrap = r[i].wrap /\ state'.last = r[i].last /\ state'.flags = r[i].flags
        BY <1>2, <2>3 DEF Ready, Carried
      <3> QED
        BY <2>3, <2>4, <3>1, SameStep DEF Counted
    <2>8. Settled(View(state')) = Settled(AfterField(r[i], NextField(i)))
      BY <1>2, <2>6, <2>7 DEF Ready
    <2>9. Synced(r)' /\ Stands(r, i + 1)'
      <3>1. i \in 1 .. Len(stream.fields) + 1 /\ Stands(r, i) /\ Records /\ Room /\ TableOK
        BY <1>2 DEF Ready, Rest
      <3> QED
        BY <1>1, <1>3, <2>3, <2>5, <2>8, <3>1, FieldIsRead
    <2> QED
      BY <1>1, <1>2, <2>5, <2>9 DEF Follows, Preserved
  <1> QED
    BY <1>6, <1>7

-----------------------------------------------------------------------------
(***************************************************************************)
(* inflate_fast.                                                           *)
(***************************************************************************)
LEMMA EnterFastKeeps ==
  ASSUME Rest, NEW r, Synced(r), EnterFast
  PROVE  Waits(r)
  <1>1. /\ call.at = "inflate" /\ Fast /\ state.mode = "LEN"
        /\ call' = [call EXCEPT !.at = "fast"] /\ UNCHANGED <<stream, strm, state, inflater>>
    BY DEF EnterFast, Fast
  <1>2. /\ call'.at = "fast" /\ DOMAIN call' = CallFields /\ call'.ret = call.ret
        /\ call'.out = call.out
    BY <1>1 DEF Rest, Records, CallFields
  <1>3. Rest'
    <2>1. Records'
      BY <1>1, <1>2 DEF Rest, Records
    <2>2. WindowOK' /\ TableOK'
      BY <1>1 DEF Rest, WindowOK, TableOK
    <2>3. Room'
      <3>1. Pushed' = Pushed /\ BytesOf(stream)' = BytesOf(stream)
        BY <1>1 DEF Pushed
      <3> QED
        BY <1>1, <1>2, <3>1 DEF Rest, Room, Running
    <2>4. Codes'
      BY <1>1, <1>2 DEF Rest, Codes
    <2> QED
      BY <2>1, <2>2, <2>3, <2>4 DEF Rest
  <1>4. /\ NextByte' = NextByte /\ NextBit' = NextBit /\ Width' = Width /\ BitsNeeded' = BitsNeeded
        /\ Fast' = Fast
    BY <1>1 DEF NextByte, NextBit, Width, BitsNeeded, Here, FieldAt, Fast
  <1>5. ASSUME NEW i, Stands(r, i) PROVE Stands(r, i)'
    BY <1>1, <1>4, <1>5 DEF Stands
  <1>6. Synced(r)'
    <2>1. HoldOK'
      BY <1>1, <1>4 DEF Synced, HoldOK
    <2>2. Bounded'
      <3>1. Short
        BY <1>1 DEF Synced, Bounded
      <3>2. Short' /\ Fast'
        BY <1>1, <1>4, <3>1 DEF Short
      <3> QED
        BY <1>2, <3>2 DEF Bounded
    <2>3. InSteps(r)'
      BY <1>5, <1>1 DEF Synced, InSteps
    <2> QED
      BY <1>1, <1>4, <2>1, <2>2, <2>3 DEF Synced
  <1> QED
    BY <1>3, <1>5, <1>6 DEF Waits, Preserved

\* Two bytes are enough for inflate_fast to have the 15 bits of any code.
LEMMA CodeBits ==
  ASSUME NEW w \in Nat, NEW a \in Nat, a <= 15, NEW t, t = Refill(w, 15, 2)
  PROVE  t \in Nat /\ t <= 6 /\ a <= w + 8 * t
  BY DEF Refill

\* inflate_fast, having used bits of the bytes it took, holds fewer than were taken from
\* this piece and one byte more.
LEMMA HeldNumbers ==
  ASSUME NEW l \in Nat, NEW b \in Nat, NEW take \in Nat, NEW use \in Nat, NEW a \in Nat,
         NEW h \in Nat, use <= l + 8 * take, h <= use, 0 < h, l < 8 * a + 8 \/ l < h
  PROVE  /\ l + 8 * take \in Nat /\ b + take \in Int /\ use \in 0 .. (l + 8 * take)
         /\ l + 8 * take - use \in Nat /\ l + 8 * take - use < 8 * (a + take) + 8
         /\ 8 * (b + take) - (l + 8 * take - use) = (8 * b - l) + use
  OBVIOUS

\* A token is read whole.
LEMMA TokenIsRead ==
  ASSUME Rest, NEW r, Synced(r), call.at = "fast", Fast,
         NEW take \in Nat, take <= 6, NEW use \in Nat, use <= Width + 8 * take,
         Here.width \in Nat, Here.width > 0, Here.width <= use,
         NEW mode \in {"LEN", "TYPE", "BAD"}, NEW bytes, Len(bytes) \in 0 .. strm.avail_out,
         strm' = Taken(take) \/ strm' = Put(Taken(take), bytes),
         state' = [state EXCEPT !.hold = Without(Held(take), use), !.mode = mode],
         UNCHANGED <<stream, inflater, call>>,
         NEW j \in 1 .. Len(stream.fields) + 1,
         mode # "BAD" => Before(r, Step_(state, mode), NextBit + use, j)
  PROVE  Preserved(r)' /\ Stands(r, j)'
  <1>1. /\ Carried(state', state) /\ state'.mode = mode
        /\ state'.hold = Without(Held(take), use)
        /\ state'.last = state.last /\ state'.flags = state.flags
    BY DEF Rest, Records, StateFields, Carried
  <1>2. PICK l \in Nat, b \in Nat : /\ l = Width /\ b = NextByte /\ state.hold = Bits(l, b)
                                    /\ NextBit = 8 * b - l
    BY HoldNow DEF Synced, Rest
  <1>3. PICK a, c, f \in Nat : /\ a = strm.next_in /\ c = strm.avail_in /\ f = FAST_IN
                               /\ f >= 6 /\ c >= f
    BY StreamAssumption, FormatAssumption DEF Rest, Room, Fast
  <1>4. take \in Nat /\ take <= c /\ take \in Int
    BY <1>3
  <1>5. Moved(take) /\ NextByte' = NextByte + take
    BY <1>4, TakenMoves
  <1>6. Rest'
    <2>1. strm.avail_out \in Nat /\ call.out \in Nat /\ strm.avail_out <= call.out /\ Running
      BY DEF Rest, Room, Running
    <2>2. strm'.avail_out <= strm.avail_out /\ strm'.avail_out \in Nat
      BY <1>5, <2>1 DEF Moved
    <2>3. /\ call'.at \in {"inflate", "fast"} /\ DOMAIN call' = CallFields /\ call'.ret = call.ret
          /\ call'.out \in Nat /\ strm'.avail_out <= call'.out
      BY <2>1, <2>2 DEF Rest, Records
    <2>4. TableOK' /\ state'.mode \notin Lengthy
      BY <1>1 DEF TableOK, Lengthy
    <2>5. strm.next_in + take >= 0 /\ take <= strm.avail_in
      BY <1>3, <1>4
    <2> QED
      BY <1>1, <1>4, <1>5, <2>1, <2>3, <2>4, <2>5, RestMoves
  <1>7. l < 8 * a + 8 \/ l < Here.width
    <2>1. l < 8 * a + 8 \/ Short
      BY <1>2, <1>3 DEF Synced, Bounded
    <2>2. Short => l < 8 \/ l < Here.width
      BY <1>2 DEF Short, BitsNeeded, Fast
    <2> QED
      BY <2>1, <2>2
  <1>8. PICK k \in Nat : /\ k = l + 8 * take - use /\ k < 8 * (a + take) + 8
                         /\ 8 * (b + take) - k = NextBit + use
                         /\ l + 8 * take \in Nat /\ b + take \in Int /\ use \in 0 .. (l + 8 * take)
    <2>1. PICK h \in Nat : h = Here.width /\ 0 < h /\ h <= use
      OBVIOUS
    <2>2. use <= l + 8 * take /\ (l < 8 * a + 8 \/ l < h)
      BY <1>2, <1>7, <2>1
    <2>3. /\ l + 8 * take \in Nat /\ b + take \in Int /\ use \in 0 .. (l + 8 * take)
          /\ l + 8 * take - use \in Nat /\ l + 8 * take - use < 8 * (a + take) + 8
          /\ 8 * (b + take) - (l + 8 * take - use) = (8 * b - l) + use
      BY <2>1, <2>2, HeldNumbers
    <2> QED
      BY <1>2, <2>3
  <1>9. HoldOK' /\ Width' = k /\ NextBit' = NextBit + use
    <2>1. Held(take) = Bits(l + 8 * take, b + take)
      BY <1>2, HeldBits
    <2>2. PICK m \in Nat, e \in Int : m = l + 8 * take /\ e = b + take
      BY <1>8
    <2>3. Without(Bits(m, e), use) = Bits(m - use, e)
      BY <1>8, <2>2, BitsUsed
    <2>4. state'.hold = Bits(k, NextByte') /\ NextByte' \in Int
      BY <1>1, <1>2, <1>5, <1>8, <2>1, <2>2, <2>3
    <2>5. HoldOK' /\ Width' = k /\ NextBit' = 8 * NextByte' - k
      BY <2>4, HoldIs
    <2> QED
      BY <1>2, <1>5, <1>8, <2>5
  <1>10. Bounded'
    <2>1. strm'.next_in = a + take
      BY <1>3, <1>5 DEF Moved
    <2>2. call'.at = "fast" /\ Width' < 8 * strm'.next_in + 8
      BY <1>8, <1>9, <2>1
    <2> QED
      BY <2>2 DEF Bounded
  <1>11. Stands(r, j)'
    <2>1. mode # "BAD" => View(state') = Step_(state, mode)
      <3>1. state'.mode \notin Counted
        BY <1>1 DEF Counted
      <3>2. View(state') = Step_(state', mode)
        BY <1>1, <3>1, ViewIs
      <3>3. state'.wrap = state.wrap /\ state'.last = state.last /\ state'.flags = state.flags
        BY <1>1 DEF Carried
      <3>4. Step_(state', mode) = Step_(state, mode)
        BY <3>3, SameReader
      <3> QED
        BY <3>2, <3>4
    <2> QED
      BY <1>1, <1>9, <2>1 DEF Stands, Before
  <1>12. Synced(r)'
    BY <1>1, <1>9, <1>10, <1>11 DEF Synced, Bytewise, InSteps
  <1> QED
    BY <1>6, <1>11, <1>12 DEF Preserved

\* The bits that may follow a code.
LEMMA ExtraGoesBy ==
  ASSUME Records, NEW r, IsReading(stream, r), NEW s, NEW x \in Nat, NEW bit \in Int, NEW j,
         NEW mode, NEW next, (mode = "LENEXT" /\ next = "DIST") \/ (mode = "DISTEXT" /\ next = "LEN"),
         Before(r, Counts(s, mode, x), bit, j)
  PROVE  /\ Before(r, Step_(s, next), bit + x, IF x = 0 THEN j ELSE j + 1)
         /\ x # 0 => FieldAt(bit) = stream.fields[j] /\ FieldAt(bit).says \in Nat
  <1>1. PICK v : v = Counts(s, mode, x)
    OBVIOUS
  <1>2. /\ v.mode = mode /\ v.count = x
        /\ v.wrap = s.wrap /\ v.last = s.last /\ v.flags = s.flags
    BY <1>1 DEF Counts, Reader
  <1>3. Settled(Step_(s, next)) = Step_(s, next)
    <2>1. PICK w : w = Step_(s, next)
      OBVIOUS
    <2>2. w.mode \in {"DIST", "LEN"}
      BY <2>1 DEF Step_, Reader
    <2>3. Settled(w) = w
      BY <2>2, SettledIs
    <2> QED
      BY <2>1, <2>3
  <1>4. CASE x = 0
    <2>1. Settled(v) = Step_(v, next)
      <3>1. CASE mode = "LENEXT" /\ next = "DIST"
        BY <1>2, <1>4, <3>1 DEF Settled
      <3>2. CASE mode = "DISTEXT" /\ next = "LEN"
        BY <1>2, <1>4, <3>2 DEF Settled
      <3> QED
        BY <3>1, <3>2
    <2>2. Step_(v, next) = Step_(s, next)
      BY <1>2, SameReader
    <2>3. Before(r, Step_(s, next), bit, j)
      BY <1>1, <1>3, <2>1, <2>2 DEF Before
    <2>4. bit + x = bit
      BY <1>4
    <2> QED
      BY <1>4, <2>3, <2>4
  <1>5. CASE x # 0
    <2>1. Settled(v) = v /\ v.mode \notin Ended /\ v.mode \notin {"STORED", "CHECK"}
      BY <1>2, <1>5 DEF Settled, Ended
    <2>2. PICK f : f = FieldAt(bit)
      OBVIOUS
    <2>3. /\ f = stream.fields[j] /\ Fits(v, f)
          /\ \A t : Settled(t) = Settled(AfterField(v, f)) => Before(r, t, bit + f.width, j + 1)
      BY <1>1, <2>1, <2>2, FieldGoesBy
    <2>4. f.width = x
      <3>1. Widths(v) = {x}
        BY <1>2 DEF Widths
      <3> QED
        BY <2>3, <3>1 DEF Fits
    <2>5. f.wrong = FALSE
      BY <1>2, <2>3 DEF Fits, Refuses
    <2>6. f.says \in Nat
      BY <1>2, <2>3, <2>5 DEF Fits, IsSaid
    <2>7. Settled(Step_(s, next)) = Settled(AfterField(v, f))
      <3>1. CASE mode = "LENEXT" /\ next = "DIST"
        <4>1. v.mode = "LENEXT"
          BY <1>2, <3>1
        <4>2. AfterField(v, f) = Step_(v, "DIST")
          BY <2>5, <4>1, AfterTokenIs
        <4>3. Step_(v, "DIST") = Step_(s, "DIST")
          BY <1>2, SameReader
        <4> QED
          BY <3>1, <4>2, <4>3
      <3>2. CASE mode = "DISTEXT" /\ next = "LEN"
        <4>1. v.mode = "DISTEXT"
          BY <1>2, <3>2
        <4>2. AfterField(v, f) = Step_(v, "MATCH")
          BY <2>5, <4>1, AfterTokenIs
        <4>3. PICK w : w = Step_(v, "MATCH")
          OBVIOUS
        <4>4. w.mode = "MATCH" /\ w.wrap = v.wrap /\ w.last = v.last /\ w.flags = v.flags
          BY <4>3 DEF Step_, Reader
        <4>5. Settled(w) = Step_(w, "LEN")
          BY <4>4 DEF Settled
        <4>6. Step_(w, "LEN") = Step_(s, "LEN")
          BY <1>2, <4>4, SameReader
        <4> QED
          BY <1>3, <3>2, <4>2, <4>3, <4>5, <4>6
      <3> QED
        BY <3>1, <3>2
    <2>8. Before(r, Step_(s, next), bit + x, j + 1)
      BY <2>3, <2>4, <2>7
    <2> QED
      BY <1>5, <2>2, <2>3, <2>6, <2>8
  <1> QED
    BY <1>4, <1>5

\* The field after a code and its extra bits, and the one after a token.
Past(i) == IF stream.fields[i].says.extra = 0 THEN i + 1 ELSE (i + 1) + 1
TokenEnd(i) == IF stream.fields[i].says.op = "base" THEN Past(Past(i)) ELSE i + 1

\* A token begins where the decoder stands.
LEMMA CodeGoesBy ==
  ASSUME Records, NEW r, IsReading(stream, r), NEW s, NEW mode \in {"LEN", "DIST"}, NEW bit \in Int,
         NEW i, Before(r, Step_(s, mode), bit, i), NEW f, f = FieldAt(bit)
  PROVE  /\ i + 1 \in 1 .. Len(stream.fields) + 1 /\ i \in 1 .. Len(stream.fields)
         /\ f = stream.fields[i] /\ f.at = bit /\ r[i].mode = mode
         /\ f.width \in Nat /\ f.width > 0 /\ f.width <= 15 /\ f.wrong \in BOOLEAN
         /\ ~f.wrong => IsSaid(mode, f.says)
         /\ \A t : Settled(t) = Settled(AfterField(Step_(s, mode), f)) =>
                    Before(r, t, bit + f.width, i + 1)
  <1>1. PICK v : v = Step_(s, mode)
    OBVIOUS
  <1>2. v.mode = mode /\ v.wrap = s.wrap /\ v.last = s.last /\ v.flags = s.flags
    BY <1>1 DEF Step_, Reader
  <1>3. Settled(v) = v
    BY <1>2, SettledIs
  <1>4. v.mode \notin Ended /\ v.mode \notin {"STORED", "CHECK"}
    BY <1>2 DEF Ended
  <1>5. /\ i \in 1 .. Len(stream.fields) /\ i + 1 \in 1 .. Len(stream.fields) + 1
        /\ f = stream.fields[i] /\ f.at = bit /\ r[i] = v
        /\ f.width \in Nat /\ f.width > 0 /\ Fits(v, f)
        /\ \A t : Settled(t) = Settled(AfterField(v, f)) => Before(r, t, bit + f.width, i + 1)
    BY <1>1, <1>3, <1>4, FieldGoesBy
  <1>6. f.width \in 1 .. 15
    <2>1. Widths(v) = 1 .. 15
      BY <1>2 DEF Widths
    <2> QED
      BY <1>5, <2>1 DEF Fits
  <1>7. f.wrong \in BOOLEAN /\ (~f.wrong => IsSaid(mode, f.says))
    BY <1>2, <1>5 DEF Fits
  <1>8. r[i].mode = mode
    <2>1. r[i] = v
      BY <1>5
    <2> QED
      BY <1>2, <2>1
  <1>9. f.width <= 15
    BY <1>6
  <1> QED
    BY <1>1, <1>5, <1>7, <1>8, <1>9

\* What is read is what the fields of the token say,
Decoded(i, t) ==
  LET l == stream.fields[i]
      d == stream.fields[Past(i)]
  IN  /\ i \in 1 .. Len(stream.fields) /\ Here = l /\ l.wrong \in BOOLEAN
      /\ l.wrong => t.op = "invalid"
      /\ ~l.wrong /\ l.says.op # "base" => t.op = l.says.op /\ t.op \in {"literal", "end"}
      /\ ~l.wrong /\ l.says.op = "base" =>
           /\ Past(i) \in 1 .. Len(stream.fields) /\ d.wrong \in BOOLEAN
           /\ d.wrong => t.op = "invalid"
           /\ ~d.wrong => /\ t.op = "match" /\ t.length = LengthAt(stream, i)
                          /\ t.offset = LengthAt(stream, Past(i))

\* and its bits are there.
IsToken(r, i, t) ==
  /\ t.take \in Nat /\ t.take <= 6 /\ t.use \in Nat /\ t.use <= Width + 8 * t.take
  /\ Here.width \in Nat /\ Here.width > 0 /\ Here.width <= t.use
  /\ t.op \in {"invalid", "literal", "end", "match"}
  /\ t.op = "match" => t.offset \in Nat /\ t.length \in Nat /\ t.length <= MAX_MATCH
  /\ t.op # "invalid" => Before(r, Step_(state, IF t.op = "end" THEN "TYPE" ELSE "LEN"),
                                NextBit + t.use, TokenEnd(i))
  /\ Decoded(i, t)

\* A literal, the end of a block, or a code that is not valid.
LEMMA CodeIsToken ==
  ASSUME Rest, NEW r, IsReading(stream, r), Synced(r),
         NEW i, Before(r, Step_(state, "LEN"), NextBit, i), NEW l, l = Here,
         l.wrong = TRUE \/ (l.wrong = FALSE /\ l.says.op # "base"),
         NEW t, t = [take |-> Refill(Width, 15, 2), use |-> l.width,
                     op |-> IF l.wrong THEN "invalid" ELSE l.says.op]
  PROVE  IsToken(r, i, t)
  <1>1. PICK w \in Nat, n \in Int : w = Width /\ n = NextBit
    <2>1. Width \in Nat /\ NextByte \in Nat /\ NextBit = 8 * NextByte - Width
      BY HoldNow DEF Rest, Synced
    <2> QED
      BY <2>1
  <1>2. l = FieldAt(n) /\ Before(r, Step_(state, "LEN"), n, i) /\ Records
    BY <1>1 DEF Here, Rest
  <1>3. /\ i \in 1 .. Len(stream.fields) /\ l = stream.fields[i]
        /\ l.width \in Nat /\ l.width > 0 /\ l.width <= 15
        /\ ~l.wrong => IsSaid("LEN", l.says)
        /\ \A v : Settled(v) = Settled(AfterField(Step_(state, "LEN"), l)) =>
                    Before(r, v, n + l.width, i + 1)
    BY <1>1, <1>2, CodeGoesBy
  <1>4. PICK k : k = Refill(w, 15, 2)
    OBVIOUS
  <1>5. k \in Nat /\ k <= 6 /\ l.width <= w + 8 * k
    <2>1. PICK a \in Nat : a = l.width /\ a <= 15
      BY <1>3
    <2> QED
      BY <1>4, <2>1, CodeBits
  <1>6. t.take = k /\ t.use = l.width /\ t.op = IF l.wrong THEN "invalid" ELSE l.says.op
    BY <1>1, <1>4
  <1>7. /\ t.take \in Nat /\ t.take <= 6 /\ t.use \in Nat /\ t.use <= Width + 8 * t.take
        /\ Here.width \in Nat /\ Here.width > 0 /\ Here.width <= t.use
    BY <1>1, <1>3, <1>5, <1>6
  <1>8. CASE l.wrong = TRUE
    <2>1. t.op = "invalid"
      BY <1>6, <1>8
    <2>2. Decoded(i, t)
      BY <1>3, <1>8, <2>1 DEF Decoded
    <2> QED
      BY <1>7, <2>1, <2>2 DEF IsToken
  <1>9. CASE l.wrong = FALSE /\ l.says.op # "base"
    <2>1. t.op = l.says.op /\ t.op \in {"literal", "end"}
      BY <1>3, <1>6, <1>9 DEF IsSaid
    <2>2. PICK m : m = (IF t.op = "end" THEN "TYPE" ELSE "LEN")
      OBVIOUS
    <2>3. PICK v : v = Step_(state, "LEN")
      OBVIOUS
    <2>4. /\ v.mode = "LEN" /\ v.wrap = state.wrap /\ v.last = state.last /\ v.flags = state.flags
      BY <2>3 DEF Step_, Reader
    <2>5. AfterField(v, l) = Symbol(v, l.says)
      BY <1>9, <2>4, AfterTokenIs
    <2>6. Settled(Step_(state, m)) = Settled(AfterField(v, l))
      <3>1. CASE t.op = "end"
        <4>1. Symbol(v, l.says) = Step_(v, "TYPE") /\ m = "TYPE"
          BY <2>1, <2>2, <3>1 DEF Symbol
        <4>2. Step_(v, "TYPE") = Step_(state, "TYPE")
          BY <2>4, SameReader
        <4> QED
          BY <2>5, <4>1, <4>2
      <3>2. CASE t.op = "literal"
        <4>1. Symbol(v, l.says) = Step_(v, "LIT") /\ m = "LEN"
          BY <2>1, <2>2, <3>2 DEF Symbol
        <4>2. PICK u : u = Step_(v, "LIT")
          OBVIOUS
        <4>3. u.mode = "LIT" /\ u.wrap = v.wrap /\ u.last = v.last /\ u.flags = v.flags
          BY <4>2 DEF Step_, Reader
        <4>4. Settled(u) = Step_(u, "LEN")
          BY <4>3 DEF Settled
        <4>5. Step_(u, "LEN") = Step_(state, "LEN")
          BY <2>4, <4>3, SameReader
        <4>6. Settled(v) = v
          BY <2>4, SettledIs
        <4> QED
          BY <2>3, <2>5, <4>1, <4>2, <4>4, <4>5, <4>6
      <3> QED
        BY <2>1, <3>1, <3>2
    <2>7. Before(r, Step_(state, m), n + t.use, i + 1)
      BY <1>3, <1>6, <2>3, <2>6
    <2>8. TokenEnd(i) = i + 1
      BY <1>3, <1>9 DEF TokenEnd
    <2>9. Decoded(i, t)
      BY <1>3, <1>9, <2>1 DEF Decoded
    <2>10. Before(r, Step_(state, IF t.op = "end" THEN "TYPE" ELSE "LEN"), NextBit + t.use,
                  TokenEnd(i))
      BY <1>1, <2>2, <2>7, <2>8
    <2> QED
      BY <1>7, <2>1, <2>9, <2>10 DEF IsToken
  <1> QED
    BY <1>8, <1>9

\* A match: a length and a distance, each a code and perhaps more bits.
ValueOf(f) ==
  f.says.val + (IF f.says.extra = 0 THEN 0 ELSE FieldAt(f.at + f.width).says)

LengthIs(r, s, n, i, l) ==
  /\ l.at = n /\ l.width \in Nat /\ l.width > 0 /\ l.width <= 15
  /\ l.says.extra \in Nat /\ l.says.extra <= 5
  /\ ValueOf(l) \in Nat /\ ValueOf(l) <= MAX_MATCH /\ ValueOf(l) = LengthAt(stream, i)
  /\ i \in 1 .. Len(stream.fields) /\ l = stream.fields[i]
  /\ Before(r, Step_(s, "DIST"), (n + l.width) + l.says.extra, Past(i))

\* A length, its code and its extra bits, read in one go.
LEMMA LengthGoesBy ==
  ASSUME Records, NEW r, IsReading(stream, r), NEW s, NEW n \in Int,
         NEW i \in Nat, Before(r, Step_(s, "LEN"), n, i), NEW l, l = FieldAt(n),
         l.wrong = FALSE, l.says.op = "base"
  PROVE  LengthIs(r, s, n, i, l)
  <1>0. PICK x, length : x = l.says.extra /\ length = ValueOf(l)
    OBVIOUS
  <1>1. /\ i + 1 \in 1 .. Len(stream.fields) + 1 /\ i \in 1 .. Len(stream.fields)
        /\ l = stream.fields[i] /\ l.at = n /\ r[i].mode = "LEN"
        /\ l.width \in Nat /\ l.width > 0 /\ l.width <= 15
        /\ ~l.wrong => IsSaid("LEN", l.says)
        /\ \A v : Settled(v) = Settled(AfterField(Step_(s, "LEN"), l)) =>
                    Before(r, v, n + l.width, i + 1)
    <2>1. "LEN" \in {"LEN", "DIST"}
      OBVIOUS
    <2> QED
      BY <2>1, CodeGoesBy
  <1>2. PICK a \in Nat : a = l.width
    BY <1>1
  <1>3. l.says.val \in Nat /\ x \in Nat /\ x <= 5
    <2>1. IsSaid("LEN", l.says)
      BY <1>1
    <2>2. l.says.val \in Nat /\ l.says.extra \in 0 .. 5
      BY <2>1 DEF IsSaid
    <2> QED
      BY <1>0, <2>2
  <1>4. Before(r, Counts(s, "LENEXT", x), n + a, i + 1)
    <2>1. PICK v : v = Step_(s, "LEN")
      OBVIOUS
    <2>2. v.mode = "LEN" /\ v.wrap = s.wrap /\ v.last = s.last /\ v.flags = s.flags
      BY <2>1 DEF Step_, Reader
    <2>3. AfterField(v, l) = Symbol(v, l.says)
      BY <2>2, AfterTokenIs
    <2>4. Symbol(v, l.says) = Counts(v, "LENEXT", x)
      BY <1>0 DEF Symbol
    <2>5. Counts(v, "LENEXT", x) = Counts(s, "LENEXT", x)
      BY <2>2, SameReader
    <2>6. AfterField(Step_(s, "LEN"), l) = Counts(s, "LENEXT", x)
      BY <2>1, <2>3, <2>4, <2>5
    <2> QED
      BY <1>1, <1>2, <2>6
  <1>5. PICK bit \in Int : bit = n + a
    OBVIOUS
  <1>6. /\ Before(r, Step_(s, "DIST"), bit + x, IF x = 0 THEN i + 1 ELSE (i + 1) + 1)
        /\ x # 0 => FieldAt(bit) = stream.fields[i + 1] /\ FieldAt(bit).says \in Nat
    <2>1. Before(r, Counts(s, "LENEXT", x), bit, i + 1) /\ x \in Nat
      BY <1>3, <1>4, <1>5
    <2> QED
      BY <2>1, ExtraGoesBy
  <1>7. length = l.says.val + (IF x = 0 THEN 0 ELSE FieldAt(bit).says)
    BY <1>0, <1>1, <1>2, <1>5 DEF ValueOf
  <1>8. length \in Nat
    BY <1>3, <1>6, <1>7
  <1>9. length <= MAX_MATCH /\ length = LengthAt(stream, i)
    <2>1. length = LengthAt(stream, i)
      BY <1>0, <1>1, <1>6, <1>7 DEF LengthAt
    <2>2. i \in 1 .. Len(stream.fields) + 1 /\ r[i].mode \notin Ended
      <3>1. Len(stream.fields) \in Nat
        BY StreamFacts
      <3> QED
        BY <1>1, <3>1 DEF Ended
    <2>3. ~stream.fields[i].wrong /\ stream.fields[i].says.op = "base" /\ r[i].mode = "LEN"
      BY <1>1
    <2>4. LengthAt(stream, i) <= MAX_MATCH
      BY <2>2, <2>3 DEF IsReading
    <2> QED
      BY <2>1, <2>4
  <1>10. Past(i) = (IF x = 0 THEN i + 1 ELSE (i + 1) + 1)
    BY <1>0, <1>1 DEF Past
  <1> QED
    BY <1>0, <1>1, <1>2, <1>3, <1>5, <1>6, <1>8, <1>9, <1>10 DEF LengthIs

\* A distance, its code and its extra bits, read in one go.
LEMMA DistanceGoesBy ==
  ASSUME Records, NEW r, IsReading(stream, r), NEW s, NEW e \in Int,
         NEW k \in Nat, Before(r, Step_(s, "DIST"), e, k), NEW d, d = FieldAt(e)
  PROVE  /\ k \in 1 .. Len(stream.fields) /\ d = stream.fields[k]
         /\ d.width \in Nat /\ d.width > 0 /\ d.width <= 15 /\ d.wrong \in BOOLEAN
         /\ ~d.wrong =>
              /\ d.says.extra \in Nat /\ d.says.extra <= 13 /\ ValueOf(d) \in Nat
              /\ ValueOf(d) = LengthAt(stream, k)
              /\ Before(r, Step_(s, "LEN"), (e + d.width) + d.says.extra, Past(k))
  <1>0. PICK y, offset : y = d.says.extra /\ offset = ValueOf(d)
    OBVIOUS
  <1>1. /\ k \in 1 .. Len(stream.fields) /\ d = stream.fields[k] /\ d.at = e
        /\ d.width \in Nat /\ d.width > 0 /\ d.width <= 15 /\ d.wrong \in BOOLEAN
        /\ ~d.wrong => IsSaid("DIST", d.says)
        /\ \A v : Settled(v) = Settled(AfterField(Step_(s, "DIST"), d)) =>
                    Before(r, v, e + d.width, k + 1)
    <2>1. "DIST" \in {"LEN", "DIST"}
      OBVIOUS
    <2> QED
      BY <2>1, CodeGoesBy
  <1>2. ASSUME d.wrong = FALSE
        PROVE  /\ y \in Nat /\ y <= 13 /\ offset \in Nat /\ offset = LengthAt(stream, k)
               /\ Before(r, Step_(s, "LEN"), (e + d.width) + y, Past(k))
    <2>1. d.says.val \in Nat /\ y \in Nat /\ y <= 13
      <3>1. IsSaid("DIST", d.says)
        BY <1>1, <1>2
      <3>2. d.says.val \in Nat /\ d.says.extra \in 0 .. 13
        BY <3>1 DEF IsSaid
      <3> QED
        BY <1>0, <3>2
    <2>2. PICK bit \in Int : bit = e + d.width
      BY <1>1
    <2>3. Before(r, Counts(s, "DISTEXT", y), bit, k + 1)
      <3>1. PICK v : v = Step_(s, "DIST")
        OBVIOUS
      <3>2. v.mode = "DIST" /\ v.wrap = s.wrap /\ v.last = s.last /\ v.flags = s.flags
        BY <3>1 DEF Step_, Reader
      <3>3. AfterField(v, d) = Counts(v, "DISTEXT", y)
        BY <1>0, <1>2, <3>2, AfterTokenIs
      <3>4. Counts(v, "DISTEXT", y) = Counts(s, "DISTEXT", y)
        BY <3>2, SameReader
      <3>5. AfterField(Step_(s, "DIST"), d) = Counts(s, "DISTEXT", y)
        BY <3>1, <3>3, <3>4
      <3> QED
        BY <1>1, <2>2, <3>5
    <2>4. /\ Before(r, Step_(s, "LEN"), bit + y, IF y = 0 THEN k + 1 ELSE (k + 1) + 1)
          /\ y # 0 => FieldAt(bit) = stream.fields[k + 1] /\ FieldAt(bit).says \in Nat
      BY <2>1, <2>3, ExtraGoesBy
    <2>5. offset = d.says.val + (IF y = 0 THEN 0 ELSE FieldAt(bit).says)
      BY <1>0, <1>1, <2>2 DEF ValueOf
    <2>6. offset \in Nat
      BY <2>1, <2>4, <2>5
    <2>7. offset = LengthAt(stream, k)
      BY <1>0, <1>1, <2>4, <2>5 DEF LengthAt
    <2>8. Past(k) = (IF y = 0 THEN k + 1 ELSE (k + 1) + 1)
      BY <1>0, <1>1 DEF Past
    <2> QED
      BY <2>1, <2>2, <2>4, <2>6, <2>7, <2>8
  <1> QED
    BY <1>0, <1>1, <1>2

MatchIs(r, s, n, i, l, d) ==
  /\ l.width \in Nat /\ l.width > 0 /\ l.width <= 15
  /\ l.says.extra \in Nat /\ l.says.extra <= 5
  /\ ValueOf(l) \in Nat /\ ValueOf(l) <= MAX_MATCH /\ ValueOf(l) = LengthAt(stream, i)
  /\ i \in 1 .. Len(stream.fields) /\ l = stream.fields[i]
  /\ Past(i) \in 1 .. Len(stream.fields) /\ d = stream.fields[Past(i)]
  /\ d.width \in Nat /\ d.width > 0 /\ d.width <= 15 /\ d.wrong \in BOOLEAN
  /\ ~d.wrong =>
       /\ d.says.extra \in Nat /\ d.says.extra <= 13 /\ ValueOf(d) \in Nat
       /\ ValueOf(d) = LengthAt(stream, Past(i))
       /\ Before(r, Step_(s, "LEN"), n + (l.width + l.says.extra + d.width + d.says.extra),
                 Past(Past(i)))

\* The bits of a match, as a reader of the whole stream counts them.
LEMMA MatchGoesBy ==
  ASSUME Records, NEW r, IsReading(stream, r), NEW s, NEW n \in Int,
         NEW i \in Nat, Before(r, Step_(s, "LEN"), n, i), NEW l, l = FieldAt(n),
         l.wrong = FALSE, l.says.op = "base",
         NEW d, d = FieldAt(n + l.width + l.says.extra)
  PROVE  MatchIs(r, s, n, i, l, d)
  <1>1. /\ l.width \in Nat /\ l.width > 0 /\ l.width <= 15
        /\ l.says.extra \in Nat /\ l.says.extra <= 5
        /\ ValueOf(l) \in Nat /\ ValueOf(l) <= MAX_MATCH /\ ValueOf(l) = LengthAt(stream, i)
        /\ i \in 1 .. Len(stream.fields) /\ l = stream.fields[i]
        /\ Before(r, Step_(s, "DIST"), (n + l.width) + l.says.extra, Past(i))
    <2>1. LengthIs(r, s, n, i, l)
      BY LengthGoesBy
    <2> QED
      BY <2>1 DEF LengthIs
  <1>2. PICK e \in Int : e = n + l.width + l.says.extra
    BY <1>1
  <1>3. PICK k \in Nat : k = Past(i) /\ Before(r, Step_(s, "DIST"), e, k)
    <2>1. Past(i) \in Nat
      BY DEF Past
    <2> QED
      BY <1>1, <1>2, <2>1
  <1>4. d = FieldAt(e)
    BY <1>2
  <1>5. /\ k \in 1 .. Len(stream.fields) /\ d = stream.fields[k]
        /\ d.width \in Nat /\ d.width > 0 /\ d.width <= 15 /\ d.wrong \in BOOLEAN
        /\ ~d.wrong => /\ d.says.extra \in Nat /\ d.says.extra <= 13 /\ ValueOf(d) \in Nat
                       /\ ValueOf(d) = LengthAt(stream, k)
                       /\ Before(r, Step_(s, "LEN"), (e + d.width) + d.says.extra, Past(k))
    BY <1>3, <1>4, DistanceGoesBy
  <1>6. ASSUME ~d.wrong
        PROVE  (e + d.width) + d.says.extra = n + (l.width + l.says.extra + d.width + d.says.extra)
    <2>1. PICK a, x, g, z \in Nat : /\ a = l.width /\ x = l.says.extra /\ g = d.width
                                    /\ z = d.says.extra
      BY <1>1, <1>5, <1>6
    <2>2. e = n + a + x
      BY <1>2, <2>1
    <2>3. (e + g) + z = n + (a + x + g + z)
      BY <2>2
    <2> QED
      BY <2>1, <2>3
  <1>7. ASSUME ~d.wrong
        PROVE  Before(r, Step_(s, "LEN"), n + (l.width + l.says.extra + d.width + d.says.extra),
                      Past(Past(i)))
    BY <1>3, <1>5, <1>6, <1>7
  <1> QED
    BY <1>1, <1>3, <1>5, <1>7 DEF MatchIs

\* Bytes that inflate_fast takes for the codes of a match, and for all of it.
CodesTake(w, a, x, d) ==
  LET t1 == Refill(w, 15, 2)
      b1 == w + 8 * t1 - a
      t2 == Refill(b1, x, 1)
      b2 == b1 + 8 * t2 - x
      t3 == Refill(b2, 15, 2)
  IN  t1 + t2 + t3
MatchTakes(w, a, x, d, y) ==
  LET t1 == Refill(w, 15, 2)
      b1 == w + 8 * t1 - a
      t2 == Refill(b1, x, 1)
      b2 == b1 + 8 * t2 - x
      t3 == Refill(b2, 15, 2)
      b3 == b2 + 8 * t3 - d
      t4 == Refill(b3, y, 1) + Refill(b3 + 8, y, 1)
  IN  t1 + t2 + t3 + t4

\* Bits are enough for each part of a token, and 6 bytes for all of it.
LEMMA EnoughIsTaken ==
  ASSUME NEW w \in Nat, NEW a \in Nat, NEW x \in Nat, NEW d \in Nat, NEW y \in Nat,
         0 < a, a <= 15, x <= 5, 0 < d, d <= 15, y <= 13
  PROVE  /\ CodesTake(w, a, x, d) \in Nat /\ CodesTake(w, a, x, d) <= 6 /\ a + x + d \in Nat
         /\ a + x + d <= w + 8 * CodesTake(w, a, x, d)
         /\ MatchTakes(w, a, x, d, y) \in Nat /\ MatchTakes(w, a, x, d, y) <= 6
         /\ a + x + d + y \in Nat
         /\ a + x + d + y <= w + 8 * MatchTakes(w, a, x, d, y)
  <1>a. PICK t1 : t1 = Refill(w, 15, 2)
    OBVIOUS
  <1>b. PICK b1 : b1 = w + 8 * t1 - a
    OBVIOUS
  <1>c. PICK t2 : t2 = Refill(b1, x, 1)
    OBVIOUS
  <1>d. PICK b2 : b2 = b1 + 8 * t2 - x
    OBVIOUS
  <1>e. PICK t3 : t3 = Refill(b2, 15, 2)
    OBVIOUS
  <1>f. PICK b3 : b3 = b2 + 8 * t3 - d
    OBVIOUS
  <1>g. PICK t4 : t4 = Refill(b3, y, 1) + Refill(b3 + 8, y, 1)
    OBVIOUS
  <1>1. t1 \in Nat /\ ((t1 = 0 /\ w >= 15) \/ (t1 = 2 /\ w < 15))
    BY <1>a DEF Refill
  <1>2. b1 \in Int
    BY <1>1, <1>b
  <1>3. t2 \in Nat /\ ((t2 = 0 /\ b1 >= x) \/ (t2 = 1 /\ b1 < x))
    BY <1>2, <1>c DEF Refill
  <1>4. b2 \in Int
    BY <1>2, <1>3, <1>d
  <1>5. t3 \in Nat /\ ((t3 = 0 /\ b2 >= 15) \/ (t3 = 2 /\ b2 < 15))
    BY <1>4, <1>e DEF Refill
  <1>6. b3 \in Int
    <2>1. t3 \in Nat
      BY <1>5
    <2> QED
      BY <1>4, <1>f, <2>1
  <1>7. PICK u : u = Refill(b3, y, 1)
    OBVIOUS
  <1>8. PICK v : v = Refill(b3 + 8, y, 1)
    OBVIOUS
  <1>9. u \in Nat /\ ((u = 0 /\ b3 >= y) \/ (u = 1 /\ b3 < y))
    BY <1>6, <1>7 DEF Refill
  <1>10. v \in Nat /\ ((v = 0 /\ b3 + 8 >= y) \/ (v = 1 /\ b3 + 8 < y))
    BY <1>6, <1>8 DEF Refill
  <1>11. t4 = u + v
    BY <1>7, <1>8, <1>g
  <1>12. t1 = 0 \/ b1 >= 1
    BY <1>1, <1>b
  <1>13. b1 >= 0
    BY <1>1, <1>b
  <1>14. t1 = 0 \/ t2 = 0 \/ b2 >= 4
    BY <1>2, <1>3, <1>12, <1>d
  <1>15. b2 >= 0
    BY <1>2, <1>3, <1>13, <1>d
  <1>16. t1 = 0 \/ t2 = 0 \/ t3 = 0 \/ v = 0
    BY <1>4, <1>5, <1>6, <1>10, <1>14, <1>f
  <1>17. b3 >= 0
    BY <1>4, <1>5, <1>15, <1>f
  <1>18. y <= b3 + 8 * (u + v)
    BY <1>6, <1>9, <1>10, <1>17
  <1>19. t1 + t2 + t3 <= 6 /\ t1 + t2 + t3 + (u + v) <= 6
    BY <1>1, <1>3, <1>5, <1>9, <1>10, <1>16
  <1>20. b3 = w + 8 * (t1 + t2 + t3) - (a + x + d)
    BY <1>1, <1>2, <1>3, <1>4, <1>5, <1>b, <1>d, <1>f
  <1>21. /\ t1 + t2 + t3 \in Nat /\ t1 + t2 + t3 + (u + v) \in Nat
         /\ a + x + d \in Nat /\ a + x + d + y \in Nat
    <2>1. t1 \in Nat /\ t2 \in Nat /\ t3 \in Nat /\ u \in Nat /\ v \in Nat
      BY <1>1, <1>3, <1>5, <1>9, <1>10
    <2> QED
      BY <2>1
  <1>22. /\ a + x + d <= w + 8 * (t1 + t2 + t3)
         /\ a + x + d + y <= w + 8 * (t1 + t2 + t3 + (u + v))
    <2>1. PICK m \in Nat : m = t1 + t2 + t3
      BY <1>21
    <2>2. PICK k \in Nat : k = u + v
      BY <1>9, <1>10
    <2>3. a + x + d <= w + 8 * m
      BY <1>17, <1>20, <2>1
    <2>4. a + x + d + y <= w + 8 * (m + k)
      BY <1>18, <1>20, <2>1, <2>2
    <2> QED
      BY <2>1, <2>2, <2>3, <2>4
  <1>23. CodesTake(w, a, x, d) = t1 + t2 + t3
    BY <1>a, <1>b, <1>c, <1>d, <1>e DEF CodesTake
  <1>24. MatchTakes(w, a, x, d, y) = t1 + t2 + t3 + t4
    BY <1>a, <1>b, <1>c, <1>d, <1>e, <1>f, <1>g DEF MatchTakes
  <1> QED
    BY <1>11, <1>19, <1>21, <1>22, <1>23, <1>24

FastMatch(l, d) ==
  IF d.wrong
    THEN [take |-> CodesTake(Width, l.width, l.says.extra, d.width),
          use |-> l.width + l.says.extra + d.width, op |-> "invalid"]
  ELSE [take |-> MatchTakes(Width, l.width, l.says.extra, d.width, d.says.extra),
        use |-> l.width + l.says.extra + d.width + d.says.extra,
        op |-> "match", length |-> ValueOf(l), offset |-> ValueOf(d)]

\* A length and a distance read by inflate_fast are the fields a reader goes through.
LEMMA MatchIsToken ==
  ASSUME Rest, NEW r, IsReading(stream, r), Synced(r),
         NEW i \in Nat, Before(r, Step_(state, "LEN"), NextBit, i), NEW l, l = Here,
         l.wrong = FALSE, l.says.op = "base",
         NEW d, d = FieldAt(NextBit + l.width + l.says.extra)
  PROVE  IsToken(r, i, FastMatch(l, d))
  <1>1. PICK w \in Nat, n \in Int : w = Width /\ n = NextBit
    <2>1. Width \in Nat /\ NextByte \in Nat /\ NextBit = 8 * NextByte - Width
      BY HoldNow DEF Rest, Synced
    <2>2. NextBit \in Int
      BY <2>1
    <2> QED
      BY <2>1, <2>2
  <1>0. PICK t : t = FastMatch(l, d)
    OBVIOUS
  <1>2. l = FieldAt(n) /\ Before(r, Step_(state, "LEN"), n, i) /\ Records
    BY <1>1 DEF Here, Rest
  <1>3. d = FieldAt(n + l.width + l.says.extra)
    BY <1>1
  <1>4. /\ l.width \in Nat /\ l.width > 0 /\ l.width <= 15
        /\ l.says.extra \in Nat /\ l.says.extra <= 5
        /\ ValueOf(l) \in Nat /\ ValueOf(l) <= MAX_MATCH /\ ValueOf(l) = LengthAt(stream, i)
        /\ i \in 1 .. Len(stream.fields) /\ l = stream.fields[i]
        /\ Past(i) \in 1 .. Len(stream.fields) /\ d = stream.fields[Past(i)]
        /\ d.width \in Nat /\ d.width > 0 /\ d.width <= 15 /\ d.wrong \in BOOLEAN
        /\ ~d.wrong =>
             /\ d.says.extra \in Nat /\ d.says.extra <= 13 /\ ValueOf(d) \in Nat
             /\ ValueOf(d) = LengthAt(stream, Past(i))
             /\ Before(r, Step_(state, "LEN"), n + (l.width + l.says.extra + d.width + d.says.extra),
                       Past(Past(i)))
    <2>1. MatchIs(r, state, n, i, l, d)
      BY <1>2, <1>3, MatchGoesBy
    <2> QED
      BY <2>1 DEF MatchIs
  <1>5. PICK a, x, g \in Nat : /\ a = l.width /\ x = l.says.extra /\ g = d.width
                               /\ 0 < a /\ a <= 15 /\ x <= 5 /\ 0 < g /\ g <= 15
    BY <1>4
  <1>6. CASE d.wrong = TRUE
    <2>1. t = [take |-> CodesTake(w, a, x, g), use |-> a + x + g, op |-> "invalid"]
      BY <1>0, <1>1, <1>5, <1>6 DEF FastMatch
    <2>2. /\ CodesTake(w, a, x, g) \in Nat /\ CodesTake(w, a, x, g) <= 6 /\ a + x + g \in Nat
          /\ a + x + g <= w + 8 * CodesTake(w, a, x, g)
      <3>1. 0 \in Nat /\ 0 <= 13
        OBVIOUS
      <3> QED
        BY <1>5, <3>1, EnoughIsTaken
    <2>3. a <= a + x + g
      BY <1>5
    <2>4. Decoded(i, t)
      BY <1>4, <1>6, <2>1 DEF Decoded
    <2>5. PICK k : k = CodesTake(w, a, x, g)
      OBVIOUS
    <2>6. t.take = k /\ t.use = a + x + g /\ t.op = "invalid"
      BY <2>1, <2>5
    <2>7. k \in Nat /\ k <= 6 /\ a + x + g \in Nat /\ a + x + g <= w + 8 * k
      BY <2>2, <2>5
    <2>8. IsToken(r, i, t)
      BY <1>1, <1>5, <2>3, <2>4, <2>6, <2>7 DEF IsToken
    <2> QED
      BY <1>0, <2>8
  <1>7. CASE d.wrong = FALSE
    <2>1. PICK y \in Nat : y = d.says.extra /\ y <= 13
      BY <1>4, <1>7
    <2>2. PICK k : k = MatchTakes(w, a, x, g, y)
      OBVIOUS
    <2>3. k \in Nat /\ k <= 6 /\ a + x + g + y \in Nat /\ a + x + g + y <= w + 8 * k
      <3>1. /\ MatchTakes(w, a, x, g, y) \in Nat /\ MatchTakes(w, a, x, g, y) <= 6
            /\ a + x + g + y \in Nat
            /\ a + x + g + y <= w + 8 * MatchTakes(w, a, x, g, y)
        <4>1. 0 < a /\ a <= 15 /\ x <= 5 /\ 0 < g /\ g <= 15 /\ y <= 13
          BY <1>5, <2>1
        <4> QED
          BY <4>1, EnoughIsTaken
      <3> QED
        BY <2>2, <3>1
    <2>4. t = [take |-> k, use |-> a + x + g + y, op |-> "match", length |-> ValueOf(l),
               offset |-> ValueOf(d)]
      BY <1>0, <1>1, <1>5, <1>7, <2>1, <2>2 DEF FastMatch
    <2>5. /\ t.take = k /\ t.use = a + x + g + y /\ t.op = "match"
          /\ t.length = ValueOf(l) /\ t.offset = ValueOf(d)
      BY <2>4
    <2>6. a <= a + x + g + y
      BY <1>5, <2>1
    <2>7. Before(r, Step_(state, "LEN"), n + (a + x + g + y), TokenEnd(i))
      BY <1>4, <1>5, <1>7, <2>1 DEF TokenEnd
    <2>8. Decoded(i, t)
      BY <1>4, <1>7, <2>5 DEF Decoded
    <2>9. ValueOf(l) \in Nat /\ ValueOf(l) <= MAX_MATCH /\ ValueOf(d) \in Nat
      BY <1>4, <1>7
    <2>10. IsToken(r, i, t)
      BY <1>1, <1>5, <2>3, <2>5, <2>6, <2>7, <2>8, <2>9 DEF IsToken
    <2> QED
      BY <1>0, <2>10
  <1> QED
    BY <1>0, <1>4, <1>6, <1>7

\* A match puts out as many bytes as it is long.
LEMMA MatchHas ==
  ASSUME NEW offset, NEW length \in Nat
  PROVE  Len(MatchBytes(offset, length)) = length
  <1>1. PICK older : older = (IF offset - Produced(strm) <= 0 THEN <<>>
                              ELSE Window(offset - Produced(strm))
                                     \o IF offset - Produced(strm) > state.wnext
                                          THEN SubSeq(state.window, 1, state.wnext) ELSE <<>>)
    OBVIOUS
  <1>2. PICK recent : recent = SubSeq(strm.output, Len(strm.output) - offset + Len(older) + 1,
                                      Len(strm.output))
    OBVIOUS
  <1>3. PICK all : all = older \o recent
    OBVIOUS
  <1>4. MatchBytes(offset, length) = [i \in 1 .. length |-> all[((i - 1) % offset) + 1]]
    BY <1>1, <1>2, <1>3, Zenon DEF MatchBytes
  <1>5. Len([i \in 1 .. length |-> all[((i - 1) % offset) + 1]]) = length
    OBVIOUS
  <1> QED
    BY <1>4, <1>5

\* Whatever inflate_fast reads, a literal, a match, the end or an error, is a token.
LEMMA FastReadIsToken ==
  ASSUME Rest, NEW r, IsReading(stream, r), Synced(r), Fast, NEW i, Stands(r, i)
  PROVE  IsToken(r, i, FastRead)
  <1>1. state.mode = "LEN" /\ state.mode \notin Counted /\ Records
    BY DEF Fast, Counted, Rest
  <1>3. Before(r, Step_(state, "LEN"), NextBit, i)
    <2>1. View(state) = Step_(state, "LEN")
      BY <1>1, ViewIs
    <2> QED
      BY <1>1, <2>1 DEF Stands, Before
  <1>4. NextBit \in Int
    <2>1. Width \in Nat /\ NextByte \in Nat /\ NextBit = 8 * NextByte - Width
      BY HoldNow DEF Rest, Synced
    <2> QED
      BY <2>1
  <1>5. PICK l : l = Here /\ l = FieldAt(NextBit)
    BY DEF Here
  <1>6. l.wrong \in BOOLEAN
    <2>1. "LEN" \in {"LEN", "DIST"}
      OBVIOUS
    <2> QED
      BY <1>1, <1>3, <1>4, <1>5, <2>1, CodeGoesBy
  <1>7. CASE l.wrong = TRUE \/ (l.wrong = FALSE /\ l.says.op # "base")
    <2>1. FastRead = [take |-> Refill(Width, 15, 2), use |-> l.width,
                      op |-> IF l.wrong THEN "invalid" ELSE l.says.op]
      BY <1>5, <1>7 DEF FastRead, Width
    <2> QED
      BY <1>3, <1>5, <1>7, <2>1, CodeIsToken
  <1>8. CASE l.wrong = FALSE /\ l.says.op = "base"
    <2>1. PICK d : d = FieldAt(NextBit + l.width + l.says.extra)
      OBVIOUS
    <2>2. FastRead = FastMatch(l, d)
      BY <1>5, <1>8, <2>1 DEF FastRead, FastMatch, CodesTake, MatchTakes, ValueOf, Width
    <2>3. i \in Nat
      <3>1. Len(stream.fields) \in Nat
        BY <1>1, StreamFacts
      <3> QED
        BY <3>1 DEF Stands
    <2>4. IsToken(r, i, FastMatch(l, d))
      BY <1>3, <1>5, <1>8, <2>1, <2>3, MatchIsToken
    <2> QED
      BY <2>2, <2>4
  <1> QED
    BY <1>6, <1>7, <1>8

\* FastToken keeps the invariant: the decoder stays in step with the reader.
LEMMA FastTokenKeeps ==
  ASSUME Rest, NEW r, IsReading(stream, r), Synced(r), FastToken, NEW i, Stands(r, i)
  PROVE  /\ Preserved(r)'
         /\ state'.mode # "BAD" => \E j : j = TokenEnd(i) /\ Stands(r, j)'
  <1>1. call.at = "fast" /\ Fast /\ UNCHANGED <<stream, inflater, call>>
    BY DEF FastToken
  <1>2. PICK t : t = FastRead /\ IsToken(r, i, t)
    BY <1>1, FastReadIsToken
  <1>3. PICK bad \in BOOLEAN :
          /\ bad = (\/ t.op = "invalid"
                    \/ t.op = "match" /\ (t.offset > state.dmax \/ TooFarBack(t.offset)))
          /\ state' = [state EXCEPT
                !.hold = Without(Held(t.take), t.use),
                !.mode = IF bad THEN "BAD" ELSE IF t.op = "end" THEN "TYPE" ELSE "LEN"]
          /\ strm' = IF t.op = "literal" THEN Put(Taken(t.take), <<Here.says.val>>)
                     ELSE IF t.op = "match" /\ ~bad
                       THEN Put(Taken(t.take), MatchBytes(t.offset, t.length))
                     ELSE Taken(t.take)
    BY <1>2 DEF FastToken
  <1>4. /\ t.take \in Nat /\ t.take <= 6 /\ t.use \in Nat /\ t.use <= Width + 8 * t.take
        /\ Here.width \in Nat /\ Here.width > 0 /\ Here.width <= t.use
        /\ t.op \in {"invalid", "literal", "end", "match"}
        /\ t.op = "match" => t.offset \in Nat /\ t.length \in Nat /\ t.length <= MAX_MATCH
    BY <1>2 DEF IsToken
  <1>5. PICK j \in 1 .. Len(stream.fields) + 1 :
          t.op # "invalid" => /\ j = TokenEnd(i)
                              /\ Before(r, Step_(state, IF t.op = "end" THEN "TYPE" ELSE "LEN"),
                                        NextBit + t.use, j)
    <2>1. CASE t.op = "invalid"
      BY <2>1 DEF Stands
    <2>2. CASE t.op # "invalid"
      <3>1. PICK j : j = TokenEnd(i) /\ Before(r, Step_(state, IF t.op = "end" THEN "TYPE" ELSE "LEN"),
                                               NextBit + t.use, j)
        BY <1>2, <2>2 DEF IsToken
      <3>2. j \in 1 .. Len(stream.fields) + 1
        BY <3>1 DEF Before
      <3> QED
        BY <3>1, <3>2
    <2> QED
      BY <2>1, <2>2
  <1>6. PICK mode : mode = (IF bad THEN "BAD" ELSE IF t.op = "end" THEN "TYPE" ELSE "LEN")
    OBVIOUS
  <1>7. /\ mode \in {"LEN", "TYPE", "BAD"}
        /\ state' = [state EXCEPT !.hold = Without(Held(t.take), t.use), !.mode = mode]
    BY <1>3, <1>6
  <1>8. mode # "BAD" => Before(r, Step_(state, mode), NextBit + t.use, j)
    BY <1>3, <1>5, <1>6
  <1>9. PICK room, most \in Nat : room = strm.avail_out /\ most = MAX_MATCH /\ most <= room /\ 0 < most
    BY <1>1, StreamAssumption DEF Fast, Rest, Room
  <1>10. PICK bytes : /\ Len(bytes) \in 0 .. strm.avail_out
                      /\ strm' = Taken(t.take) \/ strm' = Put(Taken(t.take), bytes)
    <2>1. CASE t.op = "literal"
      <3>1. PICK b : b = <<Here.says.val>>
        OBVIOUS
      <3>2. Len(b) = 1
        BY <3>1
      <3>3. strm' = Put(Taken(t.take), b)
        BY <1>3, <2>1, <3>1
      <3>4. Len(b) \in 0 .. strm.avail_out
        BY <1>9, <3>2
      <3> QED
        BY <3>3, <3>4
    <2>2. CASE t.op = "match" /\ ~bad
      <3>1. PICK n \in Nat : n = t.length /\ n <= most
        BY <1>4, <1>9, <2>2
      <3>2. Len(MatchBytes(t.offset, n)) = n
        BY <3>1, MatchHas
      <3> QED
        BY <1>3, <1>9, <2>2, <3>1, <3>2
    <2>3. CASE ~(t.op = "literal" \/ (t.op = "match" /\ ~bad))
      <3>1. Len(<<>>) \in 0 .. strm.avail_out
        BY <1>9
      <3> QED
        BY <1>3, <2>3, <3>1
    <2> QED
      BY <2>1, <2>2, <2>3
  <1>11. Preserved(r)' /\ Stands(r, j)'
    BY <1>1, <1>4, <1>7, <1>8, <1>10, TokenIsRead
  <1>12. state'.mode = mode
    BY <1>7 DEF Rest, Records, StateFields
  <1>13. mode # "BAD" => j = TokenEnd(i)
    BY <1>3, <1>5, <1>6
  <1> QED
    BY <1>11, <1>12, <1>13

\* LeaveFast keeps the invariant: the decoder stays in step with the reader.
LEMMA LeaveFastKeeps ==
  ASSUME Rest, NEW r, Synced(r), LeaveFast
  PROVE  Waits(r)
  <1>1. PICK len : /\ len = Width \div 8 /\ call.at = "fast" /\ ~Fast /\ strm' = Taken(-len)
                   /\ state' = [state EXCEPT !.hold = SubSeq(@, 1, Len(@) - 8 * len)]
                   /\ call' = [call EXCEPT !.at = "inflate"] /\ UNCHANGED <<stream, inflater>>
    BY DEF LeaveFast, UnusedBytes, Width
  <1>2. PICK l \in Nat, b \in Nat : /\ l = Width /\ b = NextByte /\ state.hold = Bits(l, b)
                                    /\ NextBit = 8 * b - l
    BY HoldNow DEF Synced, Rest
  <1>3. PICK a, c \in Nat : a = strm.next_in /\ c = strm.avail_in
    BY DEF Rest, Room
  <1>4. PICK q \in Nat, m \in 0 .. 7 : q = l \div 8 /\ m = l % 8 /\ l = 8 * q + m
    BY Arithmetic
  <1>5. len = q /\ q <= a /\ -q \in Int /\ a + -q >= 0 /\ -q <= c
    <2>1. l < 8 * a + 8
      BY <1>1, <1>2, <1>3 DEF Synced, Bounded
    <2>2. len = q
      BY <1>1, <1>2, <1>4
    <2>3. q <= a
      BY <1>4, <2>1
    <2> QED
      BY <2>2, <2>3
  <1>6. Moved(-q) /\ NextByte' = NextByte + -q
    <2>1. PICK n \in Int : n = -q
      BY <1>5
    <2>2. strm' = Taken(n) /\ Len(<<>>) \in 0 .. strm.avail_out
      BY <1>1, <1>5, <2>1 DEF Rest, Room
    <2>3. Moved(n) /\ NextByte' = NextByte + n
      BY <2>2, TakenMoves
    <2> QED
      BY <2>1, <2>3
  <1>7. /\ Carried(state', state) /\ state'.mode = state.mode
        /\ state'.hold = SubSeq(state.hold, 1, Len(state.hold) - 8 * len)
        /\ state'.last = state.last /\ state'.flags = state.flags
        /\ state'.mode \in {"LEN", "TYPE", "BAD"}
    BY <1>1 DEF Rest, Records, StateFields, Carried, Synced
  <1>8. /\ call'.at = "inflate" /\ DOMAIN call' = CallFields /\ call'.ret = call.ret
        /\ call'.out = call.out
    BY <1>1 DEF Rest, Records, CallFields
  <1>9. Rest'
    <2>1. strm.avail_out \in Nat /\ call.out \in Nat /\ strm.avail_out <= call.out /\ Running
      BY <1>1 DEF Rest, Room, Running
    <2>2. strm'.avail_out <= strm.avail_out /\ strm'.avail_out \in Nat
      BY <1>6, <2>1 DEF Moved
    <2>3. TableOK' /\ state'.mode \notin Lengthy
      BY <1>7 DEF TableOK, Lengthy
    <2>4. call'.at \in {"inflate", "fast"} /\ call'.out \in Nat /\ strm'.avail_out <= call'.out
      BY <1>8, <2>1, <2>2
    <2>5. strm.next_in + -q >= 0 /\ -q <= strm.avail_in /\ -q \in Int
      BY <1>3, <1>5
    <2> QED
      BY <1>1, <1>6, <1>7, <1>8, <2>1, <2>3, <2>4, <2>5, RestMoves
  <1>10. HoldOK' /\ Width' = m /\ NextBit' = NextBit
    <2>1. SubSeq(Bits(l, b), 1, l - 8 * q) = Bits(l - 8 * q, b - q)
      <3>1. 8 * q <= l /\ b \in Int
        BY <1>4
      <3> QED
        BY <3>1, BitsGivenBack
    <2>2. l - 8 * q = m /\ b - q = b + -q /\ m \in Nat /\ b - q \in Int
      BY <1>4
    <2>3. NextByte' = b - q
      BY <1>2, <1>6, <2>2
    <2>4. state'.hold = Bits(m, NextByte')
      <3>1. state'.hold = SubSeq(Bits(l, b), 1, l - 8 * q)
        BY <1>2, <1>5, <1>7 DEF Width
      <3> QED
        BY <2>1, <2>2, <2>3, <3>1
    <2>5. HoldOK' /\ Width' = m /\ NextBit' = 8 * NextByte' - m
      BY <2>2, <2>3, <2>4, HoldIs
    <2>6. 8 * (b - q) - m = 8 * b - l
      BY <1>4
    <2> QED
      BY <1>2, <2>3, <2>5, <2>6
  <1>11. Bounded'
    <2>1. Short'
      BY <1>10 DEF Short
    <2> QED
      BY <1>8, <2>1 DEF Bounded
  <1>12. ASSUME NEW i, Stands(r, i) PROVE Stands(r, i)'
    <2>1. View(state') = View(state)
      <3>1. View(state') = Step_(state', state.mode) /\ View(state) = Step_(state, state.mode)
        BY <1>7, ViewIs DEF Counted
      <3>2. state'.wrap = state.wrap
        BY <1>7 DEF Carried
      <3>3. Step_(state', state.mode) = Step_(state, state.mode)
        BY <1>7, <3>2, SameReader
      <3> QED
        BY <3>1, <3>3
    <2> QED
      BY <1>1, <1>7, <1>10, <1>12, <2>1 DEF Stands
  <1>13. InSteps(r)'
    BY <1>1, <1>12 DEF Synced, InSteps
  <1>14. Synced(r)'
    BY <1>7, <1>8, <1>10, <1>11, <1>13 DEF Synced, Bytewise
  <1> QED
    BY <1>9, <1>12, <1>14 DEF Waits, Preserved

-----------------------------------------------------------------------------
(***************************************************************************)
(* The end of a call of inflate(), and push around it.                     *)
(***************************************************************************)
\* WindowOK of any state of the decoder.
Windowed(s) ==
  /\ DOMAIN s = StateFields /\ s.wsize \in {0, WSIZE} /\ Len(s.window) = s.wsize
  /\ s.whave \in 0 .. s.wsize /\ s.wnext \in 0 .. s.wsize
  /\ s.whave < s.wsize => s.wnext = s.whave

\* What the call of inflate() does not change at its end.
Alike(s, t) ==
  /\ s.mode = t.mode /\ s.wrap = t.wrap /\ s.last = t.last /\ s.flags = t.flags
  /\ s.hold = t.hold /\ s.length = t.length /\ s.extra = t.extra /\ s.have = t.have
  /\ s.table = t.table /\ s.offset = t.offset

\* States that differ in their windows only.
LEMMA AlikeIsAlike ==
  ASSUME NEW s, NEW t, NEW u, Alike(s, t), Alike(t, u)
  PROVE  Alike(s, u)
  BY DEF Alike

\* The remainder by which wnext wraps.
LEMMA RemainderIsLess ==
  ASSUME NEW k \in Nat, NEW n \in Nat, n > 0
  PROVE  k % n \in Nat /\ k % n < n /\ (k < n => k % n = k)
  <1>1. k % n \in Nat /\ k % n < n
    OBVIOUS
  <1>2. k < n => k % n = k
    OBVIOUS
  <1> QED
    BY <1>1, <1>2

\* Fewer bytes than the window holds leave it a window,
LEMMA WindowAfterIsOne ==
  ASSUME NEW w, Windowed(w), w.wsize = WSIZE, NEW bytes, NEW n \in Nat, n = Len(bytes), n < WSIZE
  PROVE  Windowed(WindowAfter(w, bytes)) /\ Alike(WindowAfter(w, bytes), w)
  <1>1. PICK size, have, next \in Nat :
          /\ size = WSIZE /\ size = w.wsize /\ have = w.whave /\ next = w.wnext
          /\ have <= size /\ next <= size /\ size > 0 /\ (have < size => next = have)
          /\ n < size
    BY StreamAssumption DEF Windowed
  <1>2. PICK dist \in Nat : dist = Least({size - next, n}) /\ dist <= size - next /\ dist <= n
                            /\ (dist = n \/ dist = size - next)
    <2>1. PICK a \in Nat : a = size - next
      BY <1>1
    <2>2. PICK S : S = {a, n} /\ S = {a, n, n} /\ S # {}
      OBVIOUS
    <2>3. Least(S) \in Nat /\ Least(S) \in S /\ Least(S) <= a /\ Least(S) <= n
      BY <2>2, LeastIsLeast
    <2> QED
      BY <2>1, <2>2, <2>3
  <1>3. PICK win : win = [i \in 1 .. size |->
                    LET k == ((i - 1 - next) % size) + 1
                    IN  IF k <= n THEN bytes[k] ELSE w.window[i]]
    OBVIOUS
  <1>4. Len(win) = size
    BY <1>1, <1>3
  <1>5. PICK e \in Nat, m \in Nat : /\ e = next + n /\ m = e % size
                                    /\ m <= size /\ (e < size => m = e)
    <2>1. PICK e \in Nat : e = next + n
      BY <1>1
    <2>2. size > 0
      BY <1>1
    <2>3. e % size \in Nat /\ e % size < size /\ (e < size => e % size = e)
      BY <2>2, RemainderIsLess
    <2>4. PICK m : m = e % size
      OBVIOUS
    <2>5. m \in Nat /\ m <= size /\ (e < size => m = e)
      BY <2>3, <2>4
    <2> QED
      BY <2>1, <2>4, <2>5
  <1>6. PICK h : h = (IF dist < n THEN size ELSE IF have < size THEN have + dist ELSE have)
    OBVIOUS
  <1>7. h \in Nat /\ h <= size /\ (h < size => m = h)
    <2>1. m <= size /\ (e < size => m = e) /\ e = next + n
      BY <1>5
    <2>2. have <= size /\ next <= size /\ (have < size => next = have)
      BY <1>1
    <2>3. CASE dist < n
      BY <1>6, <2>3
    <2>4. CASE ~(dist < n) /\ have < size
      <3>1. dist = n /\ n <= size - next /\ next = have /\ h = have + n /\ h = e
        BY <1>2, <1>6, <2>1, <2>2, <2>4
      <3>2. h \in Nat /\ h <= size
        BY <2>2, <2>4, <3>1
      <3> QED
        BY <2>1, <3>1, <3>2
    <2>5. CASE ~(dist < n) /\ ~(have < size)
      BY <1>6, <2>2, <2>5
    <2> QED
      BY <2>3, <2>4, <2>5
  <1>8. WindowAfter(w, bytes) = [w EXCEPT !.window = win, !.wnext = m, !.whave = h]
    <2>1. dist = Least({w.wsize - w.wnext, Len(bytes)})
      BY <1>1, <1>2
    <2>2. win = [i \in 1 .. w.wsize |->
                    LET k == ((i - 1 - w.wnext) % w.wsize) + 1
                    IN  IF k <= Len(bytes) THEN bytes[k] ELSE w.window[i]]
      BY <1>1, <1>3
    <2>3. m = (w.wnext + Len(bytes)) % w.wsize
      BY <1>1, <1>5
    <2>4. h = IF dist < Len(bytes) THEN w.wsize ELSE IF w.whave < w.wsize THEN w.whave + dist ELSE w.whave
      BY <1>1, <1>6
    <2> QED
      BY <2>1, <2>2, <2>3, <2>4 DEF WindowAfter, Windowed, StateFields
  <1>9. PICK v : v = WindowAfter(w, bytes)
    OBVIOUS
  <1>10. /\ DOMAIN v = StateFields /\ v.wsize = size /\ v.window = win /\ v.wnext = m /\ v.whave = h
         /\ Alike(v, w)
    BY <1>1, <1>8, <1>9 DEF Windowed, StateFields, Alike
  <1>11. Windowed(v)
    BY <1>1, <1>4, <1>5, <1>7, <1>10 DEF Windowed
  <1> QED
    BY <1>9, <1>10, <1>11

\* and so do all bytes that a call has put out.
LEMMA UpdateWindowIsOne ==
  ASSUME NEW s, Windowed(s), NEW copy \in Nat, Len(strm.output) \in Nat
  PROVE  Windowed(UpdateWindow(s, copy)) /\ Alike(UpdateWindow(s, copy), s)
  <1>1. PICK size \in Nat : size = WSIZE /\ size > 0
    BY StreamAssumption
  <1>2. PICK bytes : bytes = SubSeq(strm.output, Len(strm.output) - copy + 1, Len(strm.output))
    OBVIOUS
  <1>3. Len(bytes) = copy
    <2>1. PICK n \in Nat : n = Len(strm.output)
      OBVIOUS
    <2>2. 1 + n - (n - copy + 1) = copy
      BY <2>1
    <2>3. Len(SubSeq(strm.output, n - copy + 1, n)) = copy
      BY <2>2
    <2> QED
      BY <1>2, <2>1, <2>3
  <1>4. PICK w : w = (IF s.wsize # 0 THEN s
                      ELSE [s EXCEPT !.wsize = WSIZE, !.window = [i \in 1 .. WSIZE |-> 0]])
    OBVIOUS
  <1>5. Windowed(w) /\ w.wsize = size /\ Alike(w, s)
    <2>1. CASE s.wsize # 0
      BY <1>1, <1>4, <2>1 DEF Windowed, Alike
    <2>2. CASE s.wsize = 0
      <3>1. PICK zeros : zeros = [i \in 1 .. size |-> 0] /\ Len(zeros) = size
        <4>1. Len([i \in 1 .. size |-> 0]) = size
          OBVIOUS
        <4> QED
          BY <4>1
      <3>2. w = [s EXCEPT !.wsize = size, !.window = zeros]
        BY <1>1, <1>4, <2>2, <3>1
      <3>3. /\ DOMAIN w = StateFields /\ w.wsize = size /\ w.window = zeros
            /\ w.whave = s.whave /\ w.wnext = s.wnext /\ Alike(w, s)
        BY <3>2 DEF Windowed, StateFields, Alike
      <3>4. s.whave = 0 /\ s.wnext = 0
        BY <2>2 DEF Windowed
      <3> QED
        BY <1>1, <3>1, <3>3, <3>4 DEF Windowed
    <2> QED
      BY <2>1, <2>2
  <1>6. CASE copy >= size
    <2>1. PICK win : win = SubSeq(bytes, copy - size + 1, copy)
      OBVIOUS
    <2>2. Len(win) = size
      <3>1. 1 + copy - (copy - size + 1) = size
        BY <1>1
      <3>2. Len(SubSeq(bytes, copy - size + 1, copy)) = size
        BY <3>1
      <3> QED
        BY <2>1, <3>2
    <2>3. UpdateWindow(s, copy) = [w EXCEPT !.window = win, !.wnext = 0, !.whave = w.wsize]
      BY <1>2, <1>4, <1>5, <1>6, <2>1, Zenon DEF UpdateWindow
    <2>4. PICK v : v = UpdateWindow(s, copy)
      OBVIOUS
    <2>5. /\ DOMAIN v = StateFields /\ v.wsize = size /\ v.window = win
          /\ v.whave = size /\ v.wnext = 0 /\ Alike(v, w)
      BY <1>5, <2>3, <2>4 DEF Windowed, StateFields, Alike
    <2>6. Windowed(v)
      BY <1>1, <2>2, <2>5 DEF Windowed
    <2>7. Alike(v, s)
      BY <1>5, <2>5, AlikeIsAlike
    <2> QED
      BY <2>4, <2>6, <2>7
  <1>7. CASE ~(copy >= size)
    <2>1. UpdateWindow(s, copy) = WindowAfter(w, bytes)
      BY <1>2, <1>4, <1>5, <1>7, Zenon DEF UpdateWindow
    <2>2. copy < WSIZE /\ copy = Len(bytes) /\ w.wsize = WSIZE
      BY <1>1, <1>3, <1>5, <1>7
    <2>3. Windowed(WindowAfter(w, bytes)) /\ Alike(WindowAfter(w, bytes), w)
      BY <1>5, <2>2, WindowAfterIsOne
    <2>4. Alike(WindowAfter(w, bytes), s)
      BY <1>5, <2>3, AlikeIsAlike
    <2> QED
      BY <2>1, <2>3, <2>4
  <1> QED
    BY <1>6, <1>7

\* Nothing of the input is read or lost.
LEMMA StaysThere ==
  ASSUME Rest, NEW r, Synced(r), state.mode = "BAD" \/ Short,
         stream' = stream, NextByte' = NextByte, Alike(state', state),
         call'.at \in {"none", "inflate", "returned"}
  PROVE  Synced(r)' /\ \A i : Stands(r, i) => Stands(r, i)'
  <1>1. NextByte' = NextByte /\ state'.hold = state.hold
    BY DEF Alike
  <1>2. HoldOK' /\ Width' = Width /\ NextBit' = NextBit
    BY <1>1, NoBitsUsed DEF Synced, Rest
  <1>3. BitsNeeded' = BitsNeeded
    BY <1>2 DEF BitsNeeded, Here, FieldAt, Alike
  <1>4. Bounded'
    <2>1. state'.mode = "BAD" \/ Short'
      BY <1>2, <1>3 DEF Short, Alike
    <2> QED
      BY <2>1 DEF Bounded
  <1>5. View(state') = View(state)
    BY DEF View, Reader, Alike
  <1>6. ASSUME NEW i, Stands(r, i) PROVE Stands(r, i)'
    BY <1>2, <1>5, <1>6 DEF Stands, Alike
  <1>7. InSteps(r)'
    BY <1>6 DEF Synced, InSteps
  <1> QED
    BY <1>2, <1>4, <1>6, <1>7 DEF Synced, Alike

\* LeaveInflate keeps the invariant: the decoder stays in step with the reader.
LEMMA LeaveInflateKeeps ==
  ASSUME Rest, NEW r, Synced(r), LeaveInflate
  PROVE  Waits(r)
  <1>1. call.at = "inflate" /\ Stuck /\ UNCHANGED <<stream, strm, inflater>>
    BY DEF LeaveInflate
  <1>2. PICK ret : /\ ret = (CASE state.mode = "DONE" -> Z_STREAM_END
                               [] state.mode = "BAD" -> Z_DATA_ERROR
                               [] OTHER -> IF call.in = strm.avail_in /\ call.out = strm.avail_out
                                             THEN Z_BUF_ERROR ELSE Z_OK)
                   /\ call' = [call EXCEPT !.at = "returned", !.ret = ret]
    BY DEF LeaveInflate
  <1>3. PICK w : /\ w = (IF state.wsize # 0 \/ (Produced(strm) # 0 /\ state.mode # "BAD")
                           THEN UpdateWindow(state, Produced(strm)) ELSE state)
                 /\ state' = IF state.wrap = 0 THEN w ELSE Summed(w, Produced(strm))
    BY DEF LeaveInflate
  <1>4. Windowed(w) /\ Alike(w, state)
    <2>1. Windowed(state) /\ Alike(state, state)
      BY DEF Rest, Records, WindowOK, Windowed, Alike
    <2>2. PICK n \in Nat : n = Produced(strm)
      BY <1>1 DEF Rest, Room, Running, Produced
    <2>3. Len(strm.output) \in Nat
      BY DEF Rest, Room
    <2>4. Windowed(UpdateWindow(state, n)) /\ Alike(UpdateWindow(state, n), state)
      BY <2>1, <2>3, UpdateWindowIsOne
    <2> QED
      BY <1>3, <2>1, <2>2, <2>4
  <1>5. Windowed(state') /\ Alike(state', state)
    <2>1. CASE state.wrap = 0
      BY <1>3, <1>4, <2>1
    <2>2. CASE state.wrap # 0
      <3>1. PICK v : v = Summed(w, Produced(strm))
        OBVIOUS
      <3>2. /\ DOMAIN v = StateFields /\ v.wsize = w.wsize /\ v.window = w.window
            /\ v.whave = w.whave /\ v.wnext = w.wnext /\ Alike(v, w)
        BY <1>4, <3>1 DEF Summed, Windowed, StateFields, Alike
      <3>3. Windowed(v)
        BY <1>4, <3>2 DEF Windowed
      <3>4. Alike(v, state)
        BY <1>4, <3>2, AlikeIsAlike
      <3> QED
        BY <1>3, <2>2, <3>1, <3>3, <3>4
    <2> QED
      BY <2>1, <2>2
  <1>6. /\ call'.at = "returned" /\ DOMAIN call' = CallFields /\ call'.ret = ret
    BY <1>1, <1>2 DEF Rest, Records, CallFields
  <1>7. ret \in Statuses
    BY <1>2 DEF Statuses
  <1>8. Rest'
    <2>1. Records'
      BY <1>1, <1>5, <1>6 DEF Rest, Records, Windowed
    <2>2. WindowOK'
      BY <1>5 DEF Windowed, WindowOK
    <2>3. Room'
      <3>1. Pushed' = Pushed /\ BytesOf(stream)' = BytesOf(stream)
        BY <1>1 DEF Pushed
      <3>2. ~Running' /\ call'.at # "none"
        BY <1>6 DEF Running
      <3>3. state'.mode = state.mode /\ state'.length = state.length
        BY <1>5 DEF Alike
      <3> QED
        BY <1>1, <3>1, <3>2, <3>3 DEF Rest, Room
    <2>4. Codes'
      BY <1>1, <1>6, <1>7 DEF Rest, Codes
    <2>5. TableOK'
      BY <1>5 DEF Rest, TableOK, Alike
    <2> QED
      BY <2>1, <2>2, <2>3, <2>4, <2>5 DEF Rest
  <1>9. state.mode = "BAD" \/ Short
    <2>1. CASE Lacking
      BY <2>1 DEF Lacking, Short, Width
    <2>2. CASE state.mode \in {"NAME", "COMMENT", "EXTRA", "COPY", "MATCH", "LIT", "DONE"}
      <3>1. BitsNeeded = 0 /\ state.mode # "BAD"
        BY <2>2 DEF BitsNeeded
      <3>2. Width < 8
        BY <1>1, <3>1, FewBits
      <3> QED
        BY <3>2 DEF Short
    <2>3. CASE state.mode = "BAD"
      BY <2>3
    <2> QED
      BY <1>1, <2>1, <2>2, <2>3 DEF Stuck, NoInput, NoRoom
  <1>10. NextByte' = NextByte
    BY <1>1 DEF NextByte
  <1>11. Synced(r)' /\ \A i : Stands(r, i) => Stands(r, i)'
    BY <1>1, <1>5, <1>6, <1>9, <1>10, StaysThere
  <1> QED
    BY <1>8, <1>11 DEF Waits, Preserved

\* NeedDict keeps the invariant: the decoder stays in step with the reader.
LEMMA NeedDictKeeps ==
  ASSUME Rest, NEW r, Synced(r), NeedDict
  PROVE  Waits(r)
  <1>1. /\ call.at = "inflate" /\ state.mode = "DICT" /\ UNCHANGED <<stream, strm, state, inflater>>
        /\ call' = [call EXCEPT !.at = "returned", !.ret = Z_NEED_DICT]
    BY DEF NeedDict, In
  <1>2. call'.at = "returned" /\ DOMAIN call' = CallFields /\ call'.ret = Z_NEED_DICT
    BY <1>1 DEF Rest, Records, CallFields
  <1>3. Rest'
    <2>1. Records'
      BY <1>1, <1>2 DEF Rest, Records
    <2>2. WindowOK' /\ TableOK'
      BY <1>1 DEF Rest, WindowOK, TableOK
    <2>3. Room'
      <3>1. Pushed' = Pushed /\ BytesOf(stream)' = BytesOf(stream)
        BY <1>1 DEF Pushed
      <3> QED
        BY <1>1, <1>2, <3>1 DEF Rest, Room, Running
    <2>4. Codes'
      BY <1>1, <1>2 DEF Rest, Codes, Statuses
    <2> QED
      BY <2>1, <2>2, <2>3, <2>4 DEF Rest
  <1>4. Short
    <2>1. BitsNeeded = 0 /\ state.mode # "BAD"
      BY <1>1 DEF BitsNeeded
    <2> QED
      BY <1>1, <2>1, FewBits DEF Short
  <1>5. NextByte' = NextByte /\ Alike(state', state)
    BY <1>1 DEF NextByte, Alike
  <1>6. Synced(r)' /\ \A i : Stands(r, i) => Stands(r, i)'
    BY <1>1, <1>2, <1>4, <1>5, StaysThere
  <1> QED
    BY <1>3, <1>6 DEF Waits, Preserved

\* Between the calls of inflate() no more is held than the mode waits for.
LEMMA WaitsForBits ==
  ASSUME Rest, NEW r, Synced(r), call.at \in {"none", "returned"}
  PROVE  state.mode = "BAD" \/ Short
  BY DEF Synced, Bounded

\* A call of inflate() begins.
LEMMA CallKeeps ==
  ASSUME Rest, NEW r, Synced(r), call.at \in {"none", "returned"},
         NEW s, DOMAIN s = StrmFields, s.given \in Nat, s.next_in \in Nat, s.avail_in \in Nat,
         s.given + s.next_in = NextByte, s.given + s.next_in + s.avail_in <= BytesOf(stream),
         s.avail_out = strm.avail_out, s.output = strm.output,
         NEW mode, NEW allow, Call(s, mode, allow),
         UNCHANGED <<stream, state>>,
         DOMAIN inflater' = InflaterFields, inflater'.chunkSize = inflater.chunkSize,
         inflater'.ended = inflater.ended, inflater'.err = inflater.err
  PROVE  Waits(r)
  <1>1. PICK room : /\ room = (IF s.avail_out = 0
                                 THEN [s EXCEPT !.output = <<>>, !.avail_out = inflater.chunkSize]
                               ELSE s)
                    /\ strm' = room
                    /\ call' = [at |-> "inflate", mode |-> mode, in |-> room.avail_in,
                                out |-> room.avail_out, ret |-> Z_OK, allowBufError |-> allow]
    BY DEF Call
  <1>2. PICK size, out \in Nat : /\ size = inflater.chunkSize /\ out = strm.avail_out /\ size > 0
                                 /\ out <= size /\ inflater.chunkSize \in Nat \ {0}
    BY DEF Rest, Room
  <1>3. /\ DOMAIN room = StrmFields /\ room.given = s.given /\ room.next_in = s.next_in
        /\ room.avail_in = s.avail_in /\ room.avail_out \in Nat /\ room.avail_out <= size
        /\ Len(room.output) \in Nat
    <2>1. CASE s.avail_out = 0
      <3>1. /\ room.output = <<>> /\ room.avail_out = size /\ DOMAIN room = StrmFields
            /\ room.given = s.given /\ room.next_in = s.next_in /\ room.avail_in = s.avail_in
        BY <1>1, <1>2, <2>1 DEF StrmFields
      <3>2. Len(<<>>) \in Nat
        OBVIOUS
      <3> QED
        BY <1>2, <3>1, <3>2
    <2>2. CASE s.avail_out # 0
      <3>1. room = s /\ Len(strm.output) \in Nat
        BY <1>1, <2>2 DEF Rest, Room
      <3> QED
        BY <1>2, <3>1
    <2> QED
      BY <2>1, <2>2
  <1>4. /\ call'.at = "inflate" /\ DOMAIN call' = CallFields /\ call'.ret = Z_OK
        /\ call'.out = room.avail_out
    BY <1>1 DEF CallFields
  <1>5. Rest'
    <2>1. Records'
      BY <1>1, <1>3, <1>4 DEF Rest, Records
    <2>2. WindowOK' /\ TableOK'
      BY DEF Rest, WindowOK, TableOK
    <2>3. Room'
      <3>1. Pushed' = s.given + s.next_in + s.avail_in
        BY <1>1, <1>3 DEF Pushed
      <3>2. BytesOf(stream)' = BytesOf(stream)
        OBVIOUS
      <3>3. /\ strm'.given \in Nat /\ strm'.next_in \in Nat /\ strm'.avail_in \in Nat
            /\ strm'.avail_out \in Nat /\ Len(strm'.output) \in Nat
        BY <1>1, <1>3
      <3>4. /\ inflater'.chunkSize \in Nat \ {0} /\ strm'.avail_out <= inflater'.chunkSize
            /\ inflater'.ended \in BOOLEAN
        BY <1>1, <1>2, <1>3 DEF Rest, Room
      <3>5. call'.at # "none" /\ call'.out \in Nat /\ strm'.avail_out <= call'.out
        BY <1>1, <1>3, <1>4
      <3>6. state'.mode \in Lengthy => state'.length \in Nat
        BY DEF Rest, Room, Lengthy
      <3> QED
        BY <3>1, <3>2, <3>3, <3>4, <3>5, <3>6 DEF Room, Lengthy
    <2>4. Codes'
      BY <1>4 DEF Rest, Codes, Statuses
    <2> QED
      BY <2>1, <2>2, <2>3, <2>4 DEF Rest
  <1>6. NextByte' = NextByte
    BY <1>1, <1>3 DEF NextByte
  <1>7. Synced(r)' /\ \A i : Stands(r, i) => Stands(r, i)'
    <2>1. state.mode = "BAD" \/ Short
      BY WaitsForBits
    <2>2. Alike(state', state)
      BY DEF Alike
    <2>3. call'.at \in {"none", "inflate", "returned"} /\ stream' = stream
      BY <1>4
    <2> QED
      BY <1>6, <2>1, <2>2, <2>3, StaysThere
  <1> QED
    BY <1>5, <1>7 DEF Waits, Preserved

\* Push keeps the invariant: the decoder stays in step with the reader.
LEMMA PushKeeps ==
  ASSUME Rest, NEW r, Synced(r), NEW bytes \in Nat, NEW mode, Push(bytes, mode)
  PROVE  Waits(r)
  <1>1. /\ call.at = "none" /\ ~inflater.ended /\ Pushed + bytes <= BytesOf(stream)
        /\ UNCHANGED <<stream, state, inflater>>
    BY DEF Push
  <1>2. PICK s : /\ s = [strm EXCEPT !.given = Pushed, !.next_in = 0, !.avail_in = bytes]
                 /\ Call(s, mode, FALSE)
    BY DEF Push
  <1>3. /\ DOMAIN s = StrmFields /\ s.given = Pushed /\ s.next_in = 0 /\ s.avail_in = bytes
        /\ s.avail_out = strm.avail_out /\ s.output = strm.output
    BY <1>2 DEF Rest, Records, StrmFields
  <1>4. PICK a, b \in Nat : a = strm.given /\ b = strm.next_in /\ strm.avail_in = 0
    BY <1>1 DEF Rest, Room
  <1>5. Pushed = a + b /\ NextByte = a + b
    BY <1>4 DEF Pushed, NextByte
  <1>6. /\ s.given \in Nat /\ s.next_in \in Nat /\ s.avail_in \in Nat
        /\ s.given + s.next_in = NextByte /\ s.given + s.next_in + s.avail_in <= BytesOf(stream)
    <2>1. a + b \in Nat /\ (a + b) + 0 = a + b /\ (a + b) + 0 + bytes = (a + b) + bytes
      OBVIOUS
    <2> QED
      BY <1>1, <1>3, <1>5, <2>1
  <1>7. DOMAIN inflater' = InflaterFields /\ inflater' = inflater
    BY <1>1 DEF Rest, Records
  <1> QED
    BY <1>1, <1>2, <1>3, <1>6, <1>7, CallKeeps

\* Handing on a full buffer leaves the rest of the inflater alone.
LEMMA HandedFacts ==
  ASSUME Rest
  PROVE  /\ DOMAIN Handed = InflaterFields /\ Handed.chunkSize = inflater.chunkSize
         /\ Handed.ended = inflater.ended /\ Handed.err = inflater.err
  BY DEF Rest, Records, Handed, InflaterFields

\* onEnd() keeps the size of the buffers.
LEMMA OnEndFacts ==
  ASSUME NEW i, DOMAIN i = InflaterFields, NEW status, NEW ended
  PROVE  LET j == [OnEnd(i, status) EXCEPT !.ended = ended]
         IN  /\ DOMAIN j = InflaterFields /\ j.chunkSize = i.chunkSize
             /\ j.ended = ended /\ j.err = status
  BY DEF OnEnd, InflaterFields

\* PushLoops keeps the invariant: the decoder stays in step with the reader.
LEMMA PushLoopsKeeps ==
  ASSUME Rest, NEW r, Synced(r), PushLoops
  PROVE  Waits(r)
  <1>1. /\ call.at = "returned" /\ inflater' = Handed /\ UNCHANGED <<stream, state>>
        /\ \E allow : Call(strm, call.mode, allow)
    BY DEF PushLoops
  <1>2. PICK allow : Call(strm, call.mode, allow)
    BY <1>1
  <1>3. /\ DOMAIN strm = StrmFields /\ strm.given \in Nat /\ strm.next_in \in Nat
        /\ strm.avail_in \in Nat /\ strm.given + strm.next_in = NextByte
        /\ strm.given + strm.next_in + strm.avail_in <= BytesOf(stream)
    BY DEF Rest, Records, Room, Pushed, NextByte
  <1> QED
    BY <1>1, <1>2, <1>3, HandedFacts, CallKeeps

\* A call of push ends.
LEMMA ReturnKeeps ==
  ASSUME Rest, NEW r, Synced(r), call.at = "returned", call' = [at |-> "none"],
         UNCHANGED <<stream, state>>, strm' = strm \/ strm' = [strm EXCEPT !.avail_out = 0],
         DOMAIN inflater' = InflaterFields, inflater'.chunkSize = inflater.chunkSize,
         inflater'.ended \in BOOLEAN, ~inflater'.ended => strm.avail_in = 0,
         inflater'.err \in {Z_OK, Z_NEED_DICT, Z_DATA_ERROR, Z_BUF_ERROR}
  PROVE  Waits(r)
  <1>1. /\ DOMAIN strm' = StrmFields /\ strm'.given = strm.given /\ strm'.next_in = strm.next_in
        /\ strm'.avail_in = strm.avail_in /\ strm'.output = strm.output
        /\ strm'.avail_out = strm.avail_out \/ strm'.avail_out = 0
    BY DEF Rest, Records, StrmFields
  <1>2. call'.at = "none"
    OBVIOUS
  <1>3. Rest'
    <2>1. Records'
      BY <1>1, <1>2 DEF Rest, Records
    <2>2. WindowOK' /\ TableOK'
      BY DEF Rest, WindowOK, TableOK
    <2>3. Room'
      <3>1. Pushed' = Pushed /\ BytesOf(stream)' = BytesOf(stream)
        BY <1>1 DEF Pushed
      <3>2. strm'.avail_out \in Nat /\ strm'.avail_out <= inflater'.chunkSize
        BY <1>1 DEF Rest, Room
      <3>3. state'.mode \in Lengthy => state'.length \in Nat
        BY DEF Rest, Room, Lengthy
      <3> QED
        BY <1>1, <1>2, <3>1, <3>2, <3>3 DEF Rest, Room, Running, Lengthy
    <2>4. Codes'
      BY <1>2 DEF Codes
    <2> QED
      BY <2>1, <2>2, <2>3, <2>4 DEF Rest
  <1>4. Synced(r)' /\ \A i : Stands(r, i) => Stands(r, i)'
    <2>1. state.mode = "BAD" \/ Short
      BY WaitsForBits
    <2>2. Alike(state', state) /\ NextByte' = NextByte
      BY <1>1 DEF Alike, NextByte
    <2>3. call'.at \in {"none", "inflate", "returned"} /\ stream' = stream
      BY <1>2
    <2> QED
      BY <2>1, <2>2, <2>3, StaysThere
  <1> QED
    BY <1>3, <1>4 DEF Waits, Preserved

\* PushFails keeps the invariant: the decoder stays in step with the reader.
LEMMA PushFailsKeeps ==
  ASSUME Rest, NEW r, Synced(r), PushFails
  PROVE  Waits(r)
  <1>1. /\ call.at = "returned" /\ call' = [at |-> "none"] /\ UNCHANGED <<stream, strm, state>>
        /\ inflater' = [OnEnd(inflater, Status) EXCEPT !.ended = TRUE]
    BY DEF PushFails
  <1>2. Status \in {Z_NEED_DICT, Z_DATA_ERROR, Z_BUF_ERROR}
    <2>1. call.ret \in Statuses
      BY <1>1 DEF Rest, Codes
    <2>2. Status \notin {Z_OK, Z_STREAM_END}
      BY DEF PushFails, Fails
    <2> QED
      BY <2>1, <2>2 DEF Status, Statuses
  <1>3. /\ DOMAIN inflater' = InflaterFields /\ inflater'.chunkSize = inflater.chunkSize
        /\ inflater'.ended = TRUE /\ inflater'.err = Status
    BY <1>1, OnEndFacts DEF Rest, Records
  <1> QED
    BY <1>1, <1>2, <1>3, ReturnKeeps

\* PushEnds keeps the invariant: the decoder stays in step with the reader.
LEMMA PushEndsKeeps ==
  ASSUME Rest, NEW r, Synced(r), PushEnds
  PROVE  Waits(r)
  <1>1. PICK mode :
          /\ mode = (IF Status = Z_STREAM_END THEN Z_FINISH ELSE call.mode)
          /\ inflater' = IF mode = Z_NO_FLUSH THEN Handed
                         ELSE [OnEnd(Handed, Z_OK) EXCEPT !.ended = mode = Z_FINISH]
          /\ strm' = IF mode = Z_SYNC_FLUSH THEN [strm EXCEPT !.avail_out = 0] ELSE strm
    BY DEF PushEnds
  <1>2. /\ call.at = "returned" /\ call' = [at |-> "none"] /\ UNCHANGED <<stream, state>>
        /\ ~(Again(strm.avail_in, strm.avail_out) /\ Status # Z_STREAM_END)
    BY DEF PushEnds
  <1>3. strm' = strm \/ strm' = [strm EXCEPT !.avail_out = 0]
    BY <1>1
  <1>4. mode = Z_FINISH \/ strm.avail_in = 0
    BY <1>1, <1>2 DEF Again, Rest, Room
  <1>5. CASE mode = Z_NO_FLUSH
    <2>1. inflater' = Handed /\ strm.avail_in = 0
      BY <1>1, <1>4, <1>5 DEF Z_NO_FLUSH, Z_FINISH
    <2>2. /\ DOMAIN inflater' = InflaterFields /\ inflater'.chunkSize = inflater.chunkSize
          /\ inflater'.ended = inflater.ended /\ inflater'.err = inflater.err
      BY <2>1, HandedFacts
    <2> QED
      BY <1>2, <1>3, <2>1, <2>2, ReturnKeeps DEF Rest, Room, Codes
  <1>6. CASE mode # Z_NO_FLUSH
    <2>1. PICK e \in BOOLEAN : e = (mode = Z_FINISH)
      OBVIOUS
    <2>2. inflater' = [OnEnd(Handed, Z_OK) EXCEPT !.ended = e]
      BY <1>1, <1>6, <2>1
    <2>3. /\ DOMAIN inflater' = InflaterFields /\ inflater'.chunkSize = inflater.chunkSize
          /\ inflater'.ended = e /\ inflater'.err = Z_OK
      BY <2>2, HandedFacts, OnEndFacts
    <2>4. ~inflater'.ended => strm.avail_in = 0
      BY <1>4, <2>1, <2>3
    <2> QED
      BY <1>2, <1>3, <2>3, <2>4, ReturnKeeps
  <1> QED
    BY <1>5, <1>6

-----------------------------------------------------------------------------
(***************************************************************************)
(* The inductive invariant.                                                *)
(***************************************************************************)
\* Before the first bit, a whole-stream reader stands at its first field, too.
LEMMA ReaderBegins ==
  ASSUME Init
  PROVE  Rest /\ \A r : IsReading(stream, r) => Synced(r) /\ Stands(r, 1)
  <1>1. /\ \E k \in DOMAIN Streams : stream = Streams[k]
        /\ strm = [given |-> 0, next_in |-> 0, avail_in |-> 0, output |-> <<>>, avail_out |-> 0]
        /\ call = [at |-> "none"]
    BY DEF Init
  <1>2. PICK size \in ChunkSizes :
          inflater = [chunkSize |-> size, ended |-> FALSE, err |-> Z_OK, chunks |-> <<>>,
                      result |-> <<>>, delivered |-> <<>>]
    BY DEF Init
  <1>3. /\ DOMAIN state = StateFields /\ state.mode = "HEAD" /\ state.wrap = stream.wrap
        /\ state.last = FALSE /\ state.hold = <<>> /\ state.flags = {}
        /\ state.wsize = 0 /\ state.whave = 0 /\ state.wnext = 0 /\ state.window = <<>>
    BY DEF Init, StateFields
  <1>4. size \in Nat \ {0}
    BY <1>2, StreamAssumption
  <1>5. Records
    BY <1>1, <1>2, <1>3 DEF Records, StrmFields, InflaterFields
  <1>6. WindowOK
    <2>1. Len(<<>>) = 0
      OBVIOUS
    <2> QED
      BY <1>3, <2>1, StreamAssumption DEF WindowOK
  <1>7. Room
    <2>1. /\ strm.given = 0 /\ strm.next_in = 0 /\ strm.avail_in = 0 /\ strm.avail_out = 0
          /\ strm.output = <<>> /\ inflater.chunkSize = size /\ inflater.ended = FALSE
      BY <1>1, <1>2
    <2>2. Len(<<>>) \in Nat /\ 0 <= size /\ 0 \in Nat
      BY <1>4
    <2>3. BytesOf(stream) \in Nat
      BY <1>5, BytesAreNumbers
    <2>4. Pushed = 0 /\ 0 <= BytesOf(stream)
      BY <2>1, <2>3 DEF Pushed
    <2>5. ~Running
      BY <1>1 DEF Running
    <2> QED
      BY <1>3, <1>4, <2>1, <2>2, <2>4, <2>5 DEF Room
  <1>8. Codes /\ TableOK
    BY <1>1, <1>2, <1>3 DEF Codes, TableOK
  <1>9. NextByte = 0 /\ NextBit = 0 /\ Width = 0
    BY <1>1, <1>3 DEF NextByte, NextBit, Width
  <1>10. HoldOK
    <2>1. Bits(0, 0) = <<>>
      BY DEF Bits
    <2> QED
      BY <1>3, <1>9, <2>1 DEF HoldOK
  <1>11. Bounded
    <2>1. Short
      BY <1>9 DEF Short
    <2> QED
      BY <1>1, <2>1 DEF Bounded
  <1>12. ASSUME NEW r, IsReading(stream, r)
         PROVE  Synced(r) /\ Stands(r, 1)
    <2>1. 1 \in 1 .. Len(stream.fields) + 1
      BY <1>5, StreamFacts
    <2>2. View(state) = [wrap |-> stream.wrap, mode |-> "HEAD", last |-> FALSE, flags |-> {},
                         table |-> <<>>, count |-> 0]
      BY <1>3 DEF View, Reader
    <2>3. r[1] = Settled(View(state))
      BY <1>12, <2>2 DEF IsReading
    <2>4. r[1].mode \notin Ended => stream.fields[1].at = Start(r[1].mode, 0)
      BY <1>12, <2>1 DEF IsReading
    <2>5. Stands(r, 1)
      BY <1>9, <2>1, <2>3, <2>4 DEF Stands
    <2>6. Width % 8 = 0
      BY <1>9
    <2> QED
      BY <1>1, <1>10, <1>11, <2>1, <2>5, <2>6 DEF Synced, InSteps
  <1> QED
    BY <1>5, <1>6, <1>7, <1>8, <1>12 DEF Rest

\* The inductive invariant holds at first.
LEMMA InflateInit == Init => InflateInv
  <1> SUFFICES ASSUME Init PROVE InflateInv
    OBVIOUS
  <1>1. Rest /\ \A r : IsReading(stream, r) => Synced(r)
    BY ReaderBegins
  <1>2. PICK r : IsReading(stream, r)
    BY <1>1, StreamFacts DEF Rest
  <1> QED
    BY <1>1, <1>2 DEF InflateInv

\* Every step of push(), of inflate() and of inflate_fast() keeps the invariant.
LEMMA StepKeeps ==
  ASSUME Rest, NEW r, IsReading(stream, r), Synced(r), Step
  PROVE  Preserved(r)'
  <1>1. CASE ByteBits
    BY <1>1, ByteBitsKeeps DEF Waits
  <1>2. CASE Pull
    BY <1>2, PullKeeps DEF Waits
  <1>3. CASE SkipHead
    BY <1>3, SkipHeadKeeps DEF Follows
  <1>4. CASE ReadHead
    BY <1>4, ReadHeadKeeps DEF Follows
  <1>5. CASE ReadFlags
    BY <1>5, ReadFlagsKeeps DEF Follows
  <1>6. CASE ReadTime
    BY <1>6, ReadTimeKeeps DEF Follows
  <1>7. CASE ReadOs
    BY <1>7, ReadOsKeeps DEF Follows
  <1>8. CASE ReadExLen
    BY <1>8, ReadExLenKeeps DEF Follows
  <1>9. CASE ReadExtra
    BY <1>9, ReadExtraKeeps DEF Follows
  <1>10. CASE ReadName("NAME", "name", 4)
    <2>1. 4 \in 1 .. 6
      OBVIOUS
    <2> QED
      BY <1>10, <2>1, ReadNameKeeps DEF Follows
  <1>11. CASE ReadName("COMMENT", "comment", 5)
    <2>1. 5 \in 1 .. 6
      OBVIOUS
    <2> QED
      BY <1>11, <2>1, ReadNameKeeps DEF Follows
  <1>12. CASE ReadHCrc
    BY <1>12, ReadHCrcKeeps DEF Follows
  <1>13. CASE ReadDictId
    BY <1>13, ReadDictIdKeeps DEF Follows
  <1>14. CASE NeedDict
    BY <1>14, NeedDictKeeps DEF Waits
  <1>15. CASE ReadType
    BY <1>15, ReadTypeKeeps DEF Follows
  <1>16. CASE ReadStored
    BY <1>16, ReadStoredKeeps DEF Follows
  <1>17. CASE Copy
    BY <1>17, CopyKeeps DEF Passes
  <1>18. CASE ReadTable
    BY <1>18, ReadTableKeeps DEF Follows
  <1>19. CASE ReadLenLens
    BY <1>19, ReadLenLensKeeps DEF Follows
  <1>20. CASE ReadCodeLens
    BY <1>20, ReadCodeLensKeeps DEF Follows
  <1>21. CASE ReadLen
    BY <1>21, ReadLenKeeps DEF Follows
  <1>22. CASE ReadLenExt
    BY <1>22, ReadLenExtKeeps DEF Follows
  <1>23. CASE ReadDist
    BY <1>23, ReadDistKeeps DEF Follows
  <1>24. CASE ReadDistExt
    BY <1>24, ReadDistExtKeeps DEF Follows
  <1>25. CASE CopyMatch
    BY <1>25, CopyMatchKeeps DEF Follows
  <1>26. CASE CopyLit
    BY <1>26, CopyLitKeeps DEF Follows
  <1>27. CASE ReadCheck
    BY <1>27, ReadCheckKeeps DEF Follows
  <1>28. CASE ReadLength
    BY <1>28, ReadLengthKeeps DEF Follows
  <1>29. CASE EnterFast
    BY <1>29, EnterFastKeeps DEF Waits
  <1>30. CASE FastToken
    <2>1. PICK i : Stands(r, i)
      BY DEF Synced, InSteps
    <2> QED
      BY <1>30, <2>1, FastTokenKeeps
  <1>31. CASE LeaveFast
    BY <1>31, LeaveFastKeeps DEF Waits
  <1>32. CASE LeaveInflate
    BY <1>32, LeaveInflateKeeps DEF Waits
  <1>33. CASE PushFails
    BY <1>33, PushFailsKeeps DEF Waits
  <1>34. CASE PushLoops
    BY <1>34, PushLoopsKeeps DEF Waits
  <1>35. CASE PushEnds
    BY <1>35, PushEndsKeeps DEF Waits
  <1> QED
    BY <1>1, <1>2, <1>3, <1>4, <1>5, <1>6, <1>7, <1>8, <1>9, <1>10, <1>11, <1>12, <1>13,
       <1>14, <1>15, <1>16, <1>17, <1>18, <1>19, <1>20, <1>21, <1>22, <1>23, <1>24, <1>25,
       <1>26, <1>27, <1>28, <1>29, <1>30, <1>31, <1>32, <1>33, <1>34, <1>35 DEF Step

\* No step changes the stream.
LEMMA StreamStays == ASSUME Next PROVE stream' = stream
  <1>1. CASE \E bytes, mode : Push(bytes, mode)
    BY <1>1 DEF Push
  <1>2. CASE \/ ByteBits
          \/ Pull
          \/ SkipHead
          \/ ReadHead
          \/ ReadFlags
          \/ ReadTime
          \/ ReadOs
          \/ ReadExLen
    BY <1>2 DEF Becomes,
       ByteBits, Pull, SkipHead, ReadHead, ReadFlags, ReadTime, ReadOs, ReadExLen
  <1>3. CASE \/ ReadExtra
          \/ ReadName("NAME", "name", 4)
          \/ ReadName("COMMENT", "comment", 5)
          \/ ReadHCrc
          \/ ReadDictId
          \/ NeedDict
    BY <1>3 DEF Becomes,
       ReadExtra, ReadName, ReadHCrc, ReadDictId, NeedDict
  <1>4. CASE \/ ReadType
          \/ ReadStored
          \/ Copy
          \/ ReadTable
          \/ ReadLenLens
          \/ ReadCodeLens
    BY <1>4 DEF Becomes,
       ReadType, ReadStored, Copy, ReadTable, ReadLenLens, ReadCodeLens
  <1>5. CASE \/ ReadLen
          \/ ReadLenExt
          \/ ReadDist
          \/ ReadDistExt
          \/ CopyMatch
          \/ CopyLit
          \/ ReadCheck
          \/ ReadLength
    BY <1>5 DEF Becomes,
       ReadLen, ReadLenExt, ReadDist, ReadDistExt, CopyMatch, CopyLit, ReadCheck, ReadLength
  <1>6. CASE \/ EnterFast
          \/ FastToken
          \/ LeaveFast
          \/ LeaveInflate
          \/ PushFails
          \/ PushLoops
          \/ PushEnds
    BY <1>6 DEF Becomes,
       EnterFast, FastToken, LeaveFast, LeaveInflate, PushFails, PushLoops, PushEnds
  <1> QED
    BY <1>1, <1>2, <1>3, <1>4, <1>5, <1>6 DEF Next, Step

\* Where nothing happens the decoder stays in step.
LEMMA StutterKeeps ==
  ASSUME Rest, NEW r, Synced(r), UNCHANGED vars
  PROVE  Waits(r)
  <1>1. UNCHANGED <<stream, strm, state, inflater, call>>
    BY DEF vars
  <1>2. Rest'
    <2>1. Pushed' = Pushed /\ BytesOf(stream)' = BytesOf(stream) /\ Running' = Running
      BY <1>1 DEF Pushed, Running
    <2> QED
      BY <1>1, <2>1 DEF Rest, Records, WindowOK, Room, Codes, TableOK
  <1>3. Synced(r)' /\ \A i : Stands(r, i) => Stands(r, i)'
    <2>1. /\ NextByte' = NextByte /\ NextBit' = NextBit /\ Width' = Width
          /\ BitsNeeded' = BitsNeeded /\ Fast' = Fast
      BY <1>1 DEF NextByte, NextBit, Width, BitsNeeded, Here, FieldAt, Fast
    <2>2. Bounded'
      BY <1>1, <2>1 DEF Synced, Bounded, Short
    <2>3. \A i : Stands(r, i) => Stands(r, i)'
      BY <1>1, <2>1 DEF Stands
    <2>4. InSteps(r)'
      BY <1>1, <2>3 DEF Synced, InSteps
    <2> QED
      BY <1>1, <2>1, <2>2, <2>3, <2>4 DEF Synced, HoldOK
  <1> QED
    BY <1>2, <1>3 DEF Waits, Preserved

\* The invariant is inductive: for the reading that it had before the step.
LEMMA InflateStep == InflateInv /\ [Next]_vars => InflateInv'
  <1> SUFFICES ASSUME InflateInv, [Next]_vars PROVE InflateInv'
    OBVIOUS
  <1>1. Rest
    BY DEF InflateInv
  <1>2. PICK r : IsReading(stream, r) /\ Synced(r)
    BY DEF InflateInv
  <1>3. CASE Next
    <2>1. Preserved(r)'
      <3>1. CASE Step
        BY <1>1, <1>2, <3>1, StepKeeps
      <3>2. ASSUME NEW bytes \in Pieces \cup {BytesOf(stream) - Pushed} \cup SyncPieces, NEW mode,
                   Push(bytes, mode)
            PROVE  Preserved(r)'
        <4>1. bytes \in Nat
          <5>1. PICK a, b \in Nat : a = BytesOf(stream) /\ b = Pushed /\ b <= a
            BY <1>1, BytesAreNumbers DEF Rest, Room, Pushed
          <5>2. a - b \in Nat
            BY <5>1
          <5> QED
            BY <5>1, <5>2, StreamAssumption
        <4> QED
          BY <1>1, <1>2, <3>2, <4>1, PushKeeps DEF Waits
      <3> QED
        BY <1>3, <3>1, <3>2 DEF Next
    <2>2. stream' = stream
      BY <1>3, StreamStays
    <2> QED
      BY <1>2, <2>1, <2>2 DEF InflateInv, Preserved
  <1>4. CASE UNCHANGED vars
    <2>1. Preserved(r)'
      BY <1>1, <1>2, <1>4, StutterKeeps DEF Waits
    <2>2. stream' = stream
      BY <1>4 DEF vars
    <2> QED
      BY <1>2, <2>1, <2>2 DEF InflateInv, Preserved
  <1> QED
    BY <1>3, <1>4

\* So it holds in every state,
LEMMA InflateInvariant == Spec => []InflateInv
  BY InflateInit, InflateStep, PTL DEF Spec

\* where it says that the variables have their types
LEMMA InvTypes == InflateInv => TypeOK
  <1> SUFFICES ASSUME InflateInv PROVE TypeOK
    OBVIOUS
  <1>1. Records /\ WindowOK /\ Room /\ Codes
    BY DEF InflateInv, Rest
  <1>2. strm.avail_out \in 0 .. inflater.chunkSize
    BY <1>1 DEF Room
  <1> QED
    BY <1>1, <1>2 DEF TypeOK, Records, WindowOK, Room, Codes

\* and that the decoder is in step with the whole-stream reader.
LEMMA InvSyncs == InflateInv => InSync
  <1> SUFFICES ASSUME InflateInv, Running PROVE
        LET next == IF state.mode = "STORED" THEN 8 * ((NextBit + 7) \div 8) ELSE NextBit
        IN  /\ \A i \in 1 .. Len(state.hold) :
                 state.hold[i] = 8 * NextByte - Len(state.hold) + i - 1
            /\ ReadsField => \E i \in DOMAIN stream.fields :
                               stream.fields[i].at = next /\ stream.fields[i].mode = state.mode
            /\ state.mode \in {"EXTRA", "NAME", "COMMENT", "COPY"} => state.hold = <<>>
    BY DEF InSync, Running
  <1>1. Rest /\ Records /\ Room
    BY DEF InflateInv, Rest
  <1>2. PICK r : IsReading(stream, r) /\ Synced(r)
    BY DEF InflateInv
  <1>3. PICK next : next = (IF state.mode = "STORED" THEN 8 * ((NextBit + 7) \div 8) ELSE NextBit)
    OBVIOUS
  <1>4. \A i \in 1 .. Len(state.hold) : state.hold[i] = 8 * NextByte - Len(state.hold) + i - 1
    <2>1. PICK l, b \in Nat : l = Len(state.hold) /\ b = NextByte /\ state.hold = Bits(l, b)
      BY <1>1, <1>2, HoldNow DEF Synced, Width
    <2>2. b \in Int
      OBVIOUS
    <2>3. \A j \in 1 .. l : Bits(l, b)[j] = 8 * b - l + j - 1
      BY <2>2, BitsFacts
    <2> QED
      BY <2>1, <2>3
  <1>5. ASSUME ReadsField
        PROVE  \E i \in DOMAIN stream.fields :
                 stream.fields[i].at = next /\ stream.fields[i].mode = state.mode
    <2>1. PICK i \in 1 .. Len(stream.fields) + 1 : Stands(r, i)
      BY <1>2 DEF Synced, InSteps
    <2>2. /\ i \in 1 .. Len(stream.fields) /\ NextField(i).mode = state.mode
          /\ NextField(i).at = Start(state.mode, NextBit)
          /\ state.mode # "STORED" \/ Width % 8 = 0 => NextField(i).at = NextBit
      BY <1>1, <1>2, <1>5, <2>1, FieldComes
    <2>3. NextField(i).at = next
      BY <1>3, <2>2 DEF Start
    <2>4. i \in DOMAIN stream.fields
      BY <1>1, <2>2, StreamFacts
    <2> QED
      BY <2>2, <2>3, <2>4 DEF NextField
  <1>6. state.mode \in {"EXTRA", "NAME", "COMMENT", "COPY"} => state.hold = <<>>
    <2>1. CASE call.at = "inflate"
      BY <1>1, <1>2, <2>1, NoBitsInBytes DEF TakesBytes
    <2>2. CASE call.at = "fast"
      BY <1>2, <2>2 DEF Synced
    <2> QED
      BY <2>1, <2>2 DEF Running
  <1> QED
    BY <1>3, <1>4, <1>5, <1>6

\* For every stream, cut into pieces of any size and put out into buffers of any size,
\* positions in the input stay natural numbers: inflate_fast reads no byte that was not
\* pushed and gives none back that came in an earlier piece; the window is a window.
THEOREM TypeCorrect == Spec => []TypeOK
  BY InflateInvariant, InvTypes, PTL

\* Wherever the input was cut, and whichever of the two decoders read what came before,
\* inflate() looks for the next field where the sender put one that this mode reads.
THEOREM NoBitIsLost == Spec => []InSync
  BY InflateInvariant, InvSyncs, PTL
=============================================================================
