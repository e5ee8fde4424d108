---------------------------- MODULE InflateFormat ---------------------------
(***************************************************************************)
(* What the streams of InflateStream may be: sequences of fields that      *)
(* follow each other as the formats of deflate, zlib and gzip say, up to   *)
(* their end or to a field that is wrong.                                  *)
(*                                                                         *)
(* They are what a reader can go through field by field who has the whole  *)
(* stream and all the room it needs: it stands before a field, knows which *)
(* one it must be, and after it which one comes next.                      *)
(***************************************************************************)
EXTENDS InflateStream

\* Where a reader of the whole stream stands: the mode that reads the next field, and
\* what decides which modes come after it.  count is of bytes left to EXTRA and COPY, of
\* lengths that LENLENS and CODELENS have, of the bits of LENEXT and DISTEXT.
Reader(s, mode, table, count) ==
  [wrap |-> s.wrap, mode |-> mode, last |-> s.last, flags |-> s.flags,
   table |-> table, count |-> count]

Step_(r, mode) == Reader(r, mode, <<>>, 0)
Counts(r, mode, count) == Reader(r, mode, <<>>, count)

\* Modes that have nothing to read.
Ended == {"DONE", "BAD", "DICT"}

Block(r) ==
  Step_(r, IF ~r.last THEN "TYPE" ELSE IF r.wrap = 0 THEN "DONE" ELSE "CHECK")

Optional(k, r, length) ==
  LET mode == GzipModes[Least({i \in k .. 6 : Announced(r.flags, GzipModes[i])})]
  IN  IF mode = "TYPE" THEN Block(r)
      ELSE Counts(r, mode, IF mode = "EXTRA" THEN length ELSE 0)

\* The next mode that reads a field.
Settled(r) ==
  CASE r.mode = "HEAD" /\ r.wrap = 0 -> Block(r)
    [] r.mode = "EXTRA" /\ r.count = 0 -> Optional(3, r, 0)
    [] r.mode = "TYPE" \/ (r.mode = "COPY" /\ r.count = 0) -> Block(r)
    [] r.mode = "LENLENS" /\ r.count = r.table.ncode ->
         IF r.table.codes THEN Reader(r, "CODELENS", r.table, 0) ELSE Step_(r, "BAD")
    [] r.mode = "CODELENS" /\ r.count = r.table.lengths ->
         Step_(r, IF r.table.sets THEN "LEN" ELSE "BAD")
    [] r.mode = "LENEXT" /\ r.count = 0 -> Step_(r, "DIST")
    [] r.mode \in {"LIT", "MATCH"} \/ (r.mode = "DISTEXT" /\ r.count = 0) -> Step_(r, "LEN")
    [] OTHER -> r

\* What a reader is about to do after a field that says something valid: in the header
\* and the trailer,
HeadMode(says) ==
  CASE says = "gzip" -> "FLAGS" [] says = "zlib" -> "TYPE" [] says = "dictionary" -> "DICTID"
Named(k, r, says) == IF says = 0 THEN Optional(k, r, 0) ELSE r
AfterHeader(r, says) ==
  CASE r.mode = "HEAD" -> Step_(r, HeadMode(says))
    [] r.mode = "FLAGS" -> Step_([r EXCEPT !.flags = says], "TIME")
    [] r.mode = "TIME" -> Step_(r, "OS")
    [] r.mode = "OS" -> Optional(1, r, 0)
    [] r.mode = "EXLEN" -> Optional(2, r, says)
    [] r.mode = "EXTRA" -> Counts(r, "EXTRA", r.count - 1)
    [] r.mode = "NAME" -> Named(4, r, says)
    [] r.mode = "COMMENT" -> Named(5, r, says)
    [] r.mode = "HCRC" -> Block(r)
    [] r.mode = "DICTID" -> Step_(r, "DICT")
    [] r.mode = "CHECK" -> Step_(r, IF r.flags = {} THEN "DONE" ELSE "LENGTH")
    [] r.mode = "LENGTH" -> Step_(r, "DONE")

\* in what comes before the tokens of a block,
BlockMode(type) ==
  CASE type = "stored" -> "STORED" [] type = "fixed" -> "LEN"
    [] type = "dynamic" -> "TABLE" [] type = "none" -> "BAD"
AfterTable(r, says) ==
  IF says.symbols THEN Reader(r, "LENLENS", says, 0) ELSE Step_(r, "BAD")
AfterCodeLens(r, count) ==
  IF count > r.table.lengths THEN Step_(r, "BAD") ELSE Reader(r, "CODELENS", r.table, count)
AfterBlock(r, says) ==
  CASE r.mode = "TYPE" -> Step_([r EXCEPT !.last = says.last], BlockMode(says.type))
    [] r.mode = "STORED" -> Counts(r, "COPY", says)
    [] r.mode = "COPY" -> Counts(r, "COPY", r.count - 1)
    [] r.mode = "TABLE" -> AfterTable(r, says)
    [] r.mode = "LENLENS" -> Reader(r, "LENLENS", r.table, r.count + 1)
    [] r.mode = "CODELENS" -> AfterCodeLens(r, r.count + says.copy)

\* and in them.
Symbol(r, says) ==
  CASE says.op = "literal" -> Step_(r, "LIT")
    [] says.op = "end" -> Step_(r, "TYPE")
    [] says.op = "base" -> Counts(r, "LENEXT", says.extra)
AfterToken(r, says) ==
  CASE r.mode = "LEN" -> Symbol(r, says)
    [] r.mode = "LENEXT" -> Step_(r, "DIST")
    [] r.mode = "DIST" -> Counts(r, "DISTEXT", says.extra)
    [] r.mode = "DISTEXT" -> Step_(r, "MATCH")

AfterField(r, f) ==
  IF f.wrong THEN Step_(r, "BAD")
  ELSE IF r.mode \in {"LEN", "LENEXT", "DIST", "DISTEXT"} THEN AfterToken(r, f.says)
  ELSE IF r.mode \in {"TYPE", "STORED", "COPY", "TABLE", "LENLENS", "CODELENS"}
    THEN AfterBlock(r, f.says)
  ELSE AfterHeader(r, f.says)

After(r, f) == IF r.mode \in Ended THEN r ELSE Settled(AfterField(r, f))

\* Where a field begins that comes after so many bits.
Start(mode, end) == IF mode \in {"STORED", "CHECK"} THEN 8 * ((end + 7) \div 8) ELSE end
EndOfField(f) == f.at + f.width

-----------------------------------------------------------------------------
(***************************************************************************)
(* Fields that a reader can go through.                                    *)
(***************************************************************************)
\* Bits of a field.  Codes have 15 at most, and a code of lengths and the bits that
\* follow it 14.
Widths(r) ==
  CASE r.mode \in {"HEAD", "FLAGS", "OS", "EXLEN", "HCRC"} -> {16}
    [] r.mode \in {"TIME", "DICTID", "STORED", "CHECK", "LENGTH"} -> {32}
    [] r.mode \in {"EXTRA", "NAME", "COMMENT", "COPY"} -> {8}
    [] r.mode \in {"TYPE", "LENLENS"} -> {3}
    [] r.mode = "TABLE" -> {14}
    [] r.mode = "CODELENS" -> 1 .. 14
    [] r.mode \in {"LEN", "DIST"} -> 1 .. 15
    [] r.mode \in {"LENEXT", "DISTEXT"} -> {r.count}

\* Modes that refuse a field which says nothing valid.
Refuses == {"HEAD", "FLAGS", "STORED", "CODELENS", "LEN", "DIST"}

\* What fields say.
IsSaid(mode, says) ==
  /\ mode = "HEAD" => says \in {"zlib", "gzip", "dictionary"}
  /\ mode \in {"EXLEN", "STORED", "LENEXT", "DISTEXT"} => says \in Nat
  /\ mode = "TYPE" => says.type \in {"stored", "fixed", "dynamic", "none"} /\ says.last \in BOOLEAN
  /\ mode = "TABLE" => /\ says.ncode \in Nat \ {0} /\ says.lengths \in Nat \ {0}
                       /\ {says.symbols, says.codes, says.sets} \subseteq BOOLEAN
  /\ mode = "CODELENS" => says.copy \in Nat
  /\ mode = "LEN" => \/ says.op \in {"literal", "end"}
                     \/ says.op = "base" /\ says.val \in Nat /\ says.extra \in 0 .. 5
  /\ mode = "DIST" => says.val \in Nat /\ says.val # 0 /\ says.extra \in 0 .. 13

Fits(r, f) ==
  /\ f.mode = r.mode /\ f.width \in Widths(r)
  /\ f.wrong \in BOOLEAN /\ (f.wrong => r.mode \in Refuses)
  /\ ~f.wrong => IsSaid(r.mode, f.says)

\* The length of a match is in one field or two.
LengthAt(s, i) ==
  s.fields[i].says.val + IF s.fields[i].says.extra = 0 THEN 0 ELSE s.fields[i + 1].says

\* r[i] is where the reader stands before field i, as far as it comes.
IsReading(s, r) ==
  LET n == Len(s.fields)
  IN  /\ r[1] = Settled([wrap |-> s.wrap, mode |-> "HEAD", last |-> FALSE, flags |-> {},
                         table |-> <<>>, count |-> 0])
      /\ \A i \in 1 .. n + 1 : r[i].mode \notin Ended =>
           /\ i <= n /\ Fits(r[i], s.fields[i])
           /\ s.fields[i].at =
                Start(r[i].mode, IF i = 1 THEN 0 ELSE EndOfField(s.fields[i - 1]))
           /\ r[i + 1] = After(r[i], s.fields[i])
           /\ r[i].mode = "LEN" /\ ~s.fields[i].wrong /\ s.fields[i].says.op = "base" =>
                LengthAt(s, i) <= MAX_MATCH

\* The one there is.
Reading(s) ==
  LET r[i \in 1 .. Len(s.fields) + 1] ==
        IF i = 1 THEN Settled([wrap |-> s.wrap, mode |-> "HEAD", last |-> FALSE, flags |-> {},
                               table |-> <<>>, count |-> 0])
        ELSE After(r[i - 1], s.fields[i - 1])
  IN  r

\* 6 bytes have the 48 bits of the longest token: two codes with 5 and 13 bits more.
ASSUME FormatAssumption ==
  /\ FAST_IN >= 6
  /\ \A k \in DOMAIN Streams : LET s == Streams[k] IN
       /\ Len(s.fields) \in Nat /\ DOMAIN s.fields = 1 .. Len(s.fields)
       /\ \A i \in DOMAIN s.fields : s.fields[i].at \in Nat /\ s.fields[i].width \in Nat
       /\ \E r \in {Reading(s)} : IsReading(s, r)

-----------------------------------------------------------------------------
(***************************************************************************)
(* What such a stream says: the reader writes a text, field by field.      *)
(***************************************************************************)
\* How many bytes of the text are written before a field; the length and the distance of
\* the match whose fields are read; what the check of a gzip header is computed of; and
\* whether all that was said so far is sound.
Written(n, length, offset, crc, sound) ==
  [n |-> n, length |-> length, offset |-> offset, crc |-> crc, sound |-> sound]

\* The field that completes a match, and how far back it reaches.
IsMatch(f) == f.mode = "DISTEXT" \/ (f.mode = "DIST" /\ f.says.extra = 0)
Reach(v, f) == IF f.mode = "DIST" THEN f.says.val ELSE v.offset + f.says

IsLiteral(f) == f.mode = "COPY" \/ (f.mode = "LEN" /\ f.says.op = "literal")
Literal(f) == IF f.mode = "COPY" THEN f.says ELSE f.says.val

\* A decoder refuses what is not sound.
IsSound(s, v, f) ==
  /\ v.sound /\ ~f.wrong
  /\ f.mode = "HCRC" => f.says = v.crc
  /\ f.mode = "CHECK" => f.says = SubSeq(s.text, 1, v.n)
  /\ f.mode = "LENGTH" => f.says = v.n
  /\ IsMatch(f) => Reach(v, f) <= v.n

\* flags are those of the gzip header.
CrcAfter(v, flags, f) ==
  IF f.mode = "HEAD" THEN (IF f.says = "gzip" THEN <<"gzip">> ELSE <<>>)
  ELSE IF f.mode \in {"FLAGS", "TIME", "OS", "EXLEN", "EXTRA", "NAME", "COMMENT"} /\ "HCRC" \in flags
    THEN Append(v.crc, f.says)
  ELSE v.crc
LengthAfter(v, f) ==
  CASE f.mode = "LEN" /\ f.says.op = "base" -> f.says.val
    [] f.mode = "LENEXT" -> v.length + f.says
    [] OTHER -> v.length
WrittenAfter(s, v, flags, f) ==
  IF ~IsSound(s, v, f) THEN Written(v.n, v.length, v.offset, v.crc, FALSE)
  ELSE Written(v.n + (IF IsLiteral(f) THEN 1 ELSE IF IsMatch(f) THEN v.length ELSE 0),
               LengthAfter(v, f), IF f.mode = "DIST" THEN f.says.val ELSE v.offset,
               CrcAfter(v, flags, f), TRUE)

\* The text has what the field says.
IsText(s, v, f) ==
  /\ IsLiteral(f) => v.n + 1 <= Len(s.text) /\ s.text[v.n + 1] = Literal(f)
  /\ IsMatch(f) => /\ v.n + v.length <= Len(s.text)
                   /\ \A k \in 1 .. v.length : s.text[v.n + k] = s.text[v.n + k - Reach(v, f)]

\* w[i] is what the reader r has written before field i.
Nothing == Written(0, 0, 0, <<>>, TRUE)
IsWriting(s, r, w) ==
  /\ w[1] = Nothing
  /\ \A i \in 1 .. Len(s.fields) : r[i].mode \notin Ended =>
       /\ w[i + 1] = WrittenAfter(s, w[i], r[i + 1].flags, s.fields[i])
       /\ w[i + 1].sound => IsText(s, w[i], s.fields[i])

\* What is wrong with the stream, if anything.
IsFault(s, r, w) ==
  LET n == Len(s.fields) IN
  /\ s.fault # "broken" =>
       /\ \A i \in 1 .. n + 1 : w[i].sound /\ r[i].mode # "BAD"
       /\ \A i \in 1 .. n : r[i].mode \notin Ended /\ IsMatch(s.fields[i]) =>
            Reach(w[i], s.fields[i]) <= WSIZE /\ Reach(w[i], s.fields[i]) <= DMAX
  /\ s.fault = "none" =>
       \A i \in 1 .. n + 1 : r[i].mode # "DICT" /\ (r[i].mode = "DONE" => w[i].n = Len(s.text))
  /\ s.fault # "none" => \A i \in 1 .. n + 1 : r[i].mode = "DONE" => ~w[i].sound
  /\ s.fault = "broken" => \A i \in 1 .. n + 1 : r[i].mode = "DICT" => ~w[i].sound

\* The one there is.
Writing(s, r) ==
  LET w[i \in 1 .. Len(s.fields) + 1] ==
        IF i = 1 THEN Nothing
        ELSE IF r[i - 1].mode \in Ended THEN w[i - 1]
        ELSE WrittenAfter(s, w[i - 1], r[i].flags, s.fields[i - 1])
  IN  w

Byte == 0 .. 255

ASSUME TextAssumption ==
  \A k \in DOMAIN Streams : LET s == Streams[k] IN
    /\ s.text \in Seq(Byte)
    /\ \E r \in {Reading(s)} : \E w \in {Writing(s, r)} :
         IsReading(s, r) /\ IsWriting(s, r, w) /\ IsFault(s, r, w)
=============================================================================
