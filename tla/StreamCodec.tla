---------------------------- MODULE StreamCodec -----------------------------
(***************************************************************************)
(* One message of the worker endpoint: a StreamWriter that values are      *)
(* written to, and the StreamReader that is made of what it hands out,     *)
(* either the buffer and the string table that a port copies               *)
(* (getWorkerData) or one array of bytes (getSocketData).                  *)
(*                                                                         *)
(* The buffer is a sequence of 4-byte words, each holding an int or a      *)
(* float.  What Deflate and Inflate do to the bytes is the subject of      *)
(* DeflateStream, HuffmanBlocks and InflateStream: what was pushed comes   *)
(* back, but nothing does after a push of nothing.                         *)
(***************************************************************************)
EXTENDS LongLimbs, Sequences, SequencesExt

CONSTANTS
  Values,               \* the values a program writes
  Texts,                \* strings
  Chars, Bytes,         \* the chars of a string, and the bytes of its encoding
  Formats,              \* "worker", "socket", or both
  InitialWords,         \* words allocated at first (the code: 8)
  Version, Flags,       \* of the writer
  MaxWrites             \* bound: values written

Int32(i) == [kind |-> "int", v |-> i]
Float32(f) == [kind |-> "float", v |-> f]
Zero == Int32(0)

\* Strings are told apart by their bytes, so that no two have none.
ASSUME StreamAssumption ==
  /\ \A v \in Values :
       \/ v = Int32(v.v) /\ v.v \in Int
       \/ v = [kind |-> "long", v |-> v.v] /\ v.v \in Longs
       \/ v = Float32(v.v)
       \/ v = [kind |-> "string", v |-> v.v] /\ v.v \in Texts
  /\ \A t \in Texts : Chars[t] \in Nat /\ Bytes[t] \in Nat
  /\ \A t, u \in Texts : Bytes[t] = 0 /\ Bytes[u] = 0 => t = u
  /\ Formats \subseteq {"worker", "socket"}
  /\ InitialWords \in Nat /\ InitialWords >= 3
  /\ Version \in Int /\ Flags \in Int /\ MaxWrites \in Nat

VARIABLES
  words,                \* of the writer's buffer; bb and payload are views on it
  position,             \* of payload, also where writeFloat writes in bb
  table,                \* the writer's string table
  written,              \* values written
  message,              \* what the writer handed out
  reader,               \* the StreamReader
  read                  \* values read

writer == <<words, position, table, written>>
vars == <<writer, message, reader, read>>

Nothing == [format |-> "none"]
Header == 3             \* words left free for flags, version and length

\* Mutation of FirstPosition: no room is left for the header.
FirstPosition_NoRoom == 0

FirstPosition == Header

Init ==
  /\ words = [i \in 1 .. InitialWords |-> Zero]
  /\ position = FirstPosition
  /\ table = <<>>
  /\ written = <<>>
  /\ message = Nothing /\ reader = Nothing
  /\ read = <<>>

(***************************************************************************)
(* Writing.                                                                *)
(***************************************************************************)
\* Mutation of MaybeGrow: the new buffer does not get the old one's words.
MaybeGrow_NoCopy(b) ==
  IF b.position < Len(b.words)
    THEN b
    ELSE [b EXCEPT !.words = [i \in 1 .. 2 * Len(b.words) |-> Zero]]

\* A full buffer is copied into one twice as large.
MaybeGrow(b) ==
  IF b.position < Len(b.words)
    THEN b
    ELSE [b EXCEPT !.words = @ \o [i \in 1 .. Len(@) |-> Zero]]

\* writeInt and writeFloat
Put(b, cell) ==
  LET g == MaybeGrow(b)
  IN  [words |-> [g.words EXCEPT ![g.position + 1] = cell],
       position |-> g.position + 1]

PutAll(b, cells) == FoldLeft(Put, b, cells)

\* addString: a string that was written before is not added again.
TableWith(t) == IF Contains(table, t) THEN table ELSE Append(table, t)
IndexIn(strings, t) == CHOOSE i \in DOMAIN strings : strings[i] = t

\* The words a value is written as.
Cells(v) ==
  CASE v.kind = "int" -> <<Int32(v.v)>>
    [] v.kind = "float" -> <<Float32(v.v)>>
    [] v.kind = "long" -> [k \in 1 .. 3 |-> Int32(ToLimbs(v.v)[k])]
    [] v.kind = "string" -> <<Int32(IndexIn(TableWith(v.v), v.v))>>

Write(v) ==
  LET b == PutAll([words |-> words, position |-> position], Cells(v))
  IN  /\ message = Nothing /\ Len(written) < MaxWrites
      /\ words' = b.words /\ position' = b.position
      /\ table' = IF v.kind = "string" THEN TableWith(v.v) ELSE table
      /\ written' = Append(written, v)
      /\ UNCHANGED <<message, reader, read>>

\* Mutation of Marked: the header is counted in.
Marked_CountsHeader ==
  [words EXCEPT ![1] = Int32(Flags), ![2] = Int32(Version), ![3] = Int32(position)]

\* The header is filled in when the writer is finished.
Marked ==
  [words EXCEPT ![1] = Int32(Flags), ![2] = Int32(Version),
                ![3] = Int32(position - Header)]

\* payload is cut to what was written, but the buffer behind it goes out whole.
GetWorkerData ==
  /\ "worker" \in Formats /\ message = Nothing
  /\ message' = [format |-> "worker", words |-> Marked, strings |-> table]
  /\ UNCHANGED <<writer, reader, read>>

BytesOf(cell) == [k \in 1 .. 4 |-> [of |-> cell, part |-> k]]
Text(t) == [kind |-> "text", v |-> t]
BytesOfText(t) == [k \in 1 .. Bytes[t] |-> [of |-> Text(t), part |-> k]]

\* Each string goes out after its length, which is counted in chars.
TextBytes(t) == BytesOf(Int32(Chars[t])) \o BytesOfText(t)

\* A push of nothing that is not the last fails, and ends the Deflate: no push after
\* it is heard, and there is no result (DeflateStream, PushFails).
PushesNothing == \E i \in DOMAIN table : i < Len(table) /\ Bytes[table[i]] = 0
Undefined == [format |-> "undefined"]

\* The words used; then the table, unless it is empty; each string is a push.
SocketBytes ==
  LET used == FlattenSeq([i \in 1 .. position |-> BytesOf(Marked[i])])
      count == BytesOf(Int32(Len(table)))
      texts == FlattenSeq([i \in 1 .. Len(table) |-> TextBytes(table[i])])
  IN  IF table = <<>> THEN used ELSE used \o count \o texts

GetSocketData ==
  /\ "socket" \in Formats /\ message = Nothing
  /\ message' = IF PushesNothing THEN Undefined
                ELSE [format |-> "socket", bytes |-> SocketBytes]
  /\ UNCHANGED <<writer, reader, read>>

(***************************************************************************)
(* Reading.                                                                *)
(***************************************************************************)
\* StreamReader(serializer, bb, strings): ints and floats count from the start.
OpenWorkerData ==
  /\ message.format = "worker" /\ reader = Nothing
  /\ reader' = [format |-> "worker", failed |-> FALSE,
                version |-> message.words[1].v, flags |-> message.words[2].v,
                length |-> message.words[3].v,
                words |-> message.words, limit |-> Len(message.words),
                ints |-> 0, floats |-> 0, position |-> Header,
                strings |-> message.strings]
  /\ UNCHANGED <<writer, message, read>>

Garbage == [kind |-> "garbage"]

\* The int in the four bytes after the first p, if they are one.
IntAt(bytes, p) ==
  LET four == SubSeq(bytes, p + 1, p + 4)
  IN  IF p + 4 <= Len(bytes) /\ four[1].of.kind = "int" /\ four = BytesOf(four[1].of)
        THEN four[1].of
        ELSE Garbage

\* The text of bytes that are those of one string, else some other text.
TextOf(bytes) ==
  IF \E t \in Texts : bytes = BytesOfText(t)
    THEN CHOOSE t \in Texts : bytes = BytesOfText(t)
    ELSE "mangled"

\* One more string: how far the reader got, and what it has.  What is read as a
\* length where none stands makes the reader throw.
StringRead(bytes, before) ==
  LET size == IntAt(bytes, before.p)
      next == before.p + 4 + size.v
  IN  IF before.failed \/ size = Garbage
        THEN [before EXCEPT !.failed = TRUE]
      ELSE IF next > Len(bytes)
        THEN [before EXCEPT !.failed = TRUE]
        ELSE [p |-> next, failed |-> FALSE,
              texts |-> Append(before.texts, TextOf(SubSeq(bytes, before.p + 5, next)))]

StringsRead(bytes, start, n) ==
  LET after[i \in 0 .. n] ==
        IF i = 0 THEN [p |-> start, texts |-> <<>>, failed |-> FALSE]
                 ELSE StringRead(bytes, after[i - 1])
  IN  after[n]

\* StreamReader(serializer, data): payload is a slice behind the header, and bb is
\* positioned there too.
OpenSocketData ==
  LET bytes == message.bytes
      ints == [i \in 1 .. Len(bytes) \div 4 |-> IntAt(bytes, 4 * (i - 1))]
      cells == [i \in 1 .. Len(bytes) \div 4 |-> bytes[4 * (i - 1) + 1].of]
      length == ints[3].v
      some == Len(ints) > Header + length
      strings == IF some
                   THEN StringsRead(bytes, 4 * (Header + 1 + length),
                                    ints[Header + length + 1].v)
                   ELSE [texts |-> <<>>, failed |-> FALSE]
  IN  /\ message.format = "socket" /\ reader = Nothing
      /\ reader' = [format |-> "socket", failed |-> strings.failed,
                    version |-> ints[1].v, flags |-> ints[2].v, length |-> length,
                    words |-> cells, limit |-> length,
                    ints |-> Header, floats |-> Header, position |-> 0,
                    strings |-> strings.texts]
      /\ UNCHANGED <<writer, message, read>>

\* The value of the given kind at the reader's position.
ValueAt(kind) ==
  LET int(k) == reader.words[reader.ints + reader.position + k]
  IN  CASE kind = "int" -> int(1)
        [] kind = "float" -> reader.words[reader.floats + reader.position + 1]
        [] kind = "long" ->
             [kind |-> "long", v |-> FromLimbs([k \in 1 .. 3 |-> int(k).v])]
        [] kind = "string" ->
             [kind |-> "string", v |-> reader.strings[int(1).v]]

\* The reader reads values of the kinds that were written; the position moves by
\* as many words.
Read ==
  LET kind == written[Len(read) + 1].kind
      size == IF kind = "long" THEN 3 ELSE 1
  IN  /\ reader # Nothing /\ Len(read) < Len(written)
      /\ ~reader.failed
      /\ reader.position + size <= reader.limit
      /\ read' = Append(read, ValueAt(kind))
      /\ reader' = [reader EXCEPT !.position = @ + size]
      /\ UNCHANGED <<writer, message>>

Next ==
  \/ \E v \in Values : Write(v)
  \/ GetWorkerData \/ GetSocketData
  \/ OpenWorkerData \/ OpenSocketData
  \/ Read

Spec == Init /\ [][Next]_vars

(***************************************************************************)
(* Properties                                                              *)
(***************************************************************************)
CellOK(c) == c.kind = "float" \/ (c.kind = "int" /\ c.v \in Int)
TypeOK ==
  /\ \A i \in 1 .. Len(words) : CellOK(words[i])
  /\ position \in Header .. Len(words)
  /\ \A i \in DOMAIN table : table[i] \in Texts
  /\ Len(written) <= MaxWrites /\ Len(read) <= Len(written)
  /\ message.format \in {"none", "undefined"} \cup Formats
  /\ reader.format \in {"none", message.format}

\* What is read is what was written, value by value, however often the buffer
\* grew meanwhile, whatever ints, floats, longs and strings lie next to each
\* other, and wherever a buffer's last word fell.
ReadsWhatWasWritten ==
  /\ reader # Nothing => ~reader.failed
  /\ \A i \in DOMAIN read : read[i] = written[i]

\* A reader stands where the header's length says that the payload ends when it
\* has read all values, and not before: no value is left and none is missing.
EndsAtLength ==
  reader # Nothing =>
    LET start == IF reader.format = "worker" THEN Header ELSE 0
    IN  /\ reader.position <= start + reader.length
        /\ reader.position = start + reader.length <=> Len(read) = Len(written)

\* pako.js:62: errors of Deflate "are possible only on wrong options or bad `onData` /
\* `onEnd` custom handlers", and getSocketData uses neither: whatever was written, there
\* is a message.
AlwaysAMessage == message # Undefined
=============================================================================
