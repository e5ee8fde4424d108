-------------------------- MODULE InflateTextProofs -------------------------
(***************************************************************************)
(* Proofs about what InflateStream puts out: for all streams that          *)
(* InflateFormat allows, it is what the stream says.                       *)
(***************************************************************************)
EXTENDS InflateStreamProofs

-----------------------------------------------------------------------------
(***************************************************************************)
(* The invariant: what is put out, and what is about to be.                *)
(***************************************************************************)
\* The buffer has bytes that are not handed out.
Fresh == call.at # "none" \/ (~inflater.ended /\ strm.avail_out # 0)
Sent == Len(inflater.delivered)
Total == Sent + (IF Fresh THEN Len(strm.output) ELSE 0)

\* These are the bytes of the text that follow its first n.
Says(bytes, n) ==
  /\ bytes \in Seq(Byte) /\ n + Len(bytes) <= Len(stream.text)
  /\ \A k \in 1 .. Len(bytes) : bytes[k] = stream.text[n + k]
Right == Says(inflater.delivered, 0) /\ (Fresh => Says(strm.output, Sent))

\* What the output of this call of inflate() follows.
Earlier == IF Running THEN Total - Produced(strm) ELSE Total

\* The buffer is full when what is in it and the room that is left are.  A call that is
\* given no input is there for output that did not fit, or push was given none.
Buffers ==
  /\ Fresh => Len(strm.output) + strm.avail_out = inflater.chunkSize
  /\ Running => /\ call.out \in 0 .. inflater.chunkSize
                /\ call.out > 0 \/ state.mode \in {"LENGTH", "DONE", "BAD"}
                /\ call.in = 0 => /\ call.at = "inflate" /\ strm.avail_in = 0
                                  /\ call.allowBufError \/ strm.next_in = 0

\* The window s has the text up to so many bytes: up to wnext the last of it, behind
\* wnext, when it is full, what is before them.
WindowSays(s, n) ==
  /\ s.whave = Least({s.wsize, n})
  /\ IF s.wsize = 0 THEN n = 0 ELSE s.wnext < s.wsize
  /\ \A k \in 1 .. s.wnext : s.window[k] = stream.text[n - s.wnext + k]
  /\ s.whave = s.wsize =>
       \A k \in s.wnext + 1 .. s.wsize : s.window[k] = stream.text[n - s.wnext + k - s.wsize]

\* The check value is that of the gzip header, or of what earlier calls put out.  Raw data
\* has neither a header nor a trailer.
HeadModes == {"FLAGS", "TIME", "OS", "EXLEN", "EXTRA", "NAME", "COMMENT", "HCRC"}
IsSequence(s) == Len(s) \in Nat /\ s = [k \in 1 .. Len(s) |-> s[k]]
ChecksSay(v) ==
  /\ state.mode \in HeadModes \cup {"CHECK", "LENGTH"} => state.wrap # 0
  /\ state.wrap # 0 =>
       /\ state.total = Earlier
       /\ IF state.mode \in HeadModes THEN state.check = v.crc /\ IsSequence(v.crc)
          ELSE state.check = SubSeq(stream.text, 1, Earlier)
       /\ state.mode \in HeadModes \cup {"HEAD"} => Total = 0
       /\ state.mode = "LENGTH" => Earlier = Total

\* A match is under way of which length bytes are to come.
Pending(v, length, offset) ==
  IF v.sound
    THEN /\ offset \in Nat /\ offset # 0 /\ v.n = Total + length /\ v.n <= Len(stream.text)
         /\ offset <= Total
         /\ \A k \in 1 .. length : stream.text[Total + k] = stream.text[Total + k - offset]
         /\ stream.fault # "broken" => offset <= WSIZE /\ offset <= DMAX
  ELSE offset > Total /\ stream.fault = "broken"

\* What was written before the field at which the decoder stands is what it put out, and
\* what it is about to.
Matching == state.mode = "MATCH" \/ (state.mode = "DISTEXT" /\ state.extra = 0)
Tells(v) ==
  IF Matching THEN Pending(v, state.length, state.offset)
  ELSE /\ v.sound
       /\ IF state.mode = "LIT"
            THEN v.n = Total + 1 /\ v.n <= Len(stream.text) /\ stream.text[v.n] = state.length
          ELSE v.n = Total
       /\ state.mode \in {"LENEXT", "DIST", "DISTEXT"} => state.length = v.length
       /\ state.mode = "DISTEXT" => state.offset = v.offset /\ state.offset # 0

\* Where the decoder stands.  It has an error only if the stream is broken.
AtField(r, w, i) == Stands(r, i) /\ Tells(w[i]) /\ ChecksSay(w[i])
Goes(r, w) ==
  /\ state.mode = "BAD" => stream.fault = "broken"
  /\ state.mode # "BAD" => \E i \in 1 .. Len(stream.fields) + 1 : AtField(r, w, i)

Unwindowed == {"LENGTH", "DONE", "BAD"}
Windows == state.mode \notin Unwindowed => WindowSays(state, Earlier)
Limits == state.dmax \in {DMAX, WSIZE}

\* The state of inflate() after the call that has just returned.
Returned ==
  /\ call.ret = Z_STREAM_END => state.mode = "DONE"
  /\ call.ret = Z_DATA_ERROR => state.mode = "BAD"
  /\ call.ret = Z_NEED_DICT => stream.fault = "dictionary"
  /\ call.ret \in {Z_OK, Z_BUF_ERROR} /\ strm.avail_in = 0 /\ strm.avail_out # 0 =>
       Pushed < BytesOf(stream)
  /\ call.ret = Z_BUF_ERROR /\ ~call.allowBufError => strm.next_in = 0 /\ strm.avail_in = 0

\* There is no dictionary, and push is about to fail.
Dictless == call.at = "returned" /\ call.ret = Z_NEED_DICT /\ stream.fault = "dictionary"

Known(r, w) == IsReading(stream, r) /\ IsWriting(stream, r, w) /\ IsFault(stream, r, w)
Outputs(r, w) == Right /\ Buffers /\ Limits /\ Windows /\ Goes(r, w)
TextOK(r, w) ==
  /\ Right
  /\ ~inflater.ended => Outputs(r, w) \/ Dictless
  /\ call.at # "none" => ~inflater.ended
  /\ call.at = "returned" => Returned
  /\ EndsAsItShould

Holds(r, w) == Rest /\ Known(r, w) /\ Synced(r) /\ TextOK(r, w)
TextInv == \E r, w : Holds(r, w)

-----------------------------------------------------------------------------
(***************************************************************************)
(* Numbers and sequences.                                                  *)
(***************************************************************************)
\* The remainder of a number is the one that differs from it by a multiple.
LEMMA RemainderIs ==
  ASSUME NEW n \in Nat, n > 0, NEW q \in Int, NEW m \in 0 .. n - 1
  PROVE  (n * q + m) % n = m
  <1>1. PICK a \in Int : a = n * q + m
    OBVIOUS
  <1>2. PICK d \in Int, k \in 0 .. n - 1 : d = a \div n /\ k = a % n /\ a = n * d + k
    BY <1>1
  <1>3. PICK e \in Int : e = q - d
    OBVIOUS
  <1>4. n * e = k - m
    <2>1. n * q - n * d = k - m
      BY <1>1, <1>2
    <2>2. n * q - n * d = n * (q - d)
      OBVIOUS
    <2> QED
      BY <1>3, <2>1, <2>2
  <1>5. e = 0
    <2>1. CASE e >= 1
      <3>1. n * e >= n
        BY <2>1
      <3> QED
        BY <1>2, <1>4, <3>1
    <2>2. CASE e <= -1
      <3>1. n * e <= -n
        BY <2>2
      <3> QED
        BY <1>2, <1>4, <3>1
    <2> QED
      BY <2>1, <2>2
  <1>6. k = m
    BY <1>2, <1>4, <1>5
  <1> QED
    BY <1>1, <1>2, <1>6

\* Remainders of small numbers, of small ones below 0, and of numbers that differ by n.
LEMMA Remainders ==
  ASSUME NEW n \in Nat, n > 0, NEW k \in Int
  PROVE  /\ k \in 0 .. n - 1 => k % n = k
         /\ -n <= k /\ k < 0 => k % n = k + n
         /\ n <= k /\ k < 2 * n => k % n = k - n
         /\ (k - n) % n = k % n
         /\ k % n \in 0 .. n - 1
  <1>1. k \in 0 .. n - 1 => k % n = k
    <2>1. n * 0 + k = k
      OBVIOUS
    <2>2. k \in 0 .. n - 1 => (n * 0 + k) % n = k
      BY RemainderIs
    <2> QED
      BY <2>1, <2>2
  <1>2. -n <= k /\ k < 0 => k % n = k + n
    <2> SUFFICES ASSUME -n <= k, k < 0 PROVE k % n = k + n
      OBVIOUS
    <2>1. k + n \in 0 .. n - 1 /\ -1 \in Int
      OBVIOUS
    <2>2. PICK m \in 0 .. n - 1 : m = k + n
      BY <2>1
    <2>3. n * (-1) + m = k
      BY <2>2
    <2>4. (n * (-1) + m) % n = m
      BY <2>1, RemainderIs
    <2> QED
      BY <2>2, <2>3, <2>4
  <1>3. n <= k /\ k < 2 * n => k % n = k - n
    <2> SUFFICES ASSUME n <= k, k < 2 * n PROVE k % n = k - n
      OBVIOUS
    <2>1. PICK m \in 0 .. n - 1 : m = k - n
      OBVIOUS
    <2>2. n * 1 + m = k
      BY <2>1
    <2>3. (n * 1 + m) % n = m
      BY RemainderIs
    <2> QED
      BY <2>1, <2>2, <2>3
  <1>4. k % n \in 0 .. n - 1
    OBVIOUS
  <1>5. (k - n) % n = k % n
    <2>1. PICK d \in Int, m \in 0 .. n - 1 : d = k \div n /\ m = k % n /\ k = n * d + m
      OBVIOUS
    <2>2. PICK e \in Int : e = d - 1
      OBVIOUS
    <2>3. n * e = n * d - n
      BY <2>2
    <2>4. k - n = n * e + m
      BY <2>1, <2>3
    <2>5. (n * e + m) % n = m
      BY RemainderIs
    <2> QED
      BY <2>1, <2>4, <2>5
  <1> QED
    BY <1>1, <1>2, <1>3, <1>4, <1>5

\* A piece of a sequence.
LEMMA Piece ==
  ASSUME NEW S, NEW s \in Seq(S), NEW m \in Nat, NEW n \in Nat, 1 <= m, m <= n + 1, n <= Len(s)
  PROVE  /\ SubSeq(s, m, n) \in Seq(S) /\ Len(SubSeq(s, m, n)) = n - m + 1
         /\ \A i \in 1 .. n - m + 1 : SubSeq(s, m, n)[i] = s[m + i - 1]
  <1>1. Len(s) \in Nat /\ DOMAIN s = 1 .. Len(s) /\ s \in [1 .. Len(s) -> S]
    BY LenProperties
  <1>2. PICK l \in Nat : l = n - m + 1
    OBVIOUS
  <1>3. SubSeq(s, m, n) = [i \in 1 .. (1 + n - m) |-> s[m + i - 1]]
    BY DEF SubSeq
  <1>4. 1 + n - m = l
    BY <1>2
  <1>5. PICK t : t = [i \in 1 .. l |-> s[m + i - 1]]
    OBVIOUS
  <1>6. \A i \in 1 .. l : m + i - 1 \in 1 .. Len(s)
    BY <1>1, <1>2
  <1>7. \A i \in 1 .. l : s[m + i - 1] \in S
    BY <1>1, <1>6
  <1>8. t \in Seq(S)
    BY <1>5, <1>7, IsASeq
  <1>9. Len(t) = l
    BY <1>2, <1>5
  <1> QED
    BY <1>2, <1>3, <1>4, <1>5, <1>8, <1>9

\* Two sequences, one after the other.
LEMMA Joined ==
  ASSUME NEW S, NEW s \in Seq(S), NEW t \in Seq(S)
  PROVE  /\ s \o t \in Seq(S) /\ Len(s) \in Nat /\ Len(t) \in Nat
         /\ Len(s \o t) = Len(s) + Len(t)
         /\ \A i \in 1 .. Len(s) : (s \o t)[i] = s[i]
         /\ \A i \in 1 .. Len(t) : (s \o t)[Len(s) + i] = t[i]
  <1>1. Len(s) \in Nat /\ Len(t) \in Nat
    BY LenProperties
  <1>2. /\ s \o t \in Seq(S) /\ Len(s \o t) = Len(s) + Len(t)
        /\ \A i \in 1 .. Len(s) + Len(t) :
             (s \o t)[i] = IF i <= Len(s) THEN s[i] ELSE t[i - Len(s)]
    BY ConcatProperties
  <1>3. PICK a \in Nat, b \in Nat : a = Len(s) /\ b = Len(t)
    BY <1>1
  <1>4. \A i \in 1 .. a : i \in 1 .. a + b /\ i <= a
    OBVIOUS
  <1>5. \A i \in 1 .. b : a + i \in 1 .. a + b /\ ~(a + i <= a) /\ a + i - a = i
    OBVIOUS
  <1> QED
    BY <1>1, <1>2, <1>3, <1>4, <1>5

\* Sequences that have the same elements.
LEMMA SameSequence ==
  ASSUME NEW S, NEW s \in Seq(S), NEW t \in Seq(S), Len(s) = Len(t),
         \A i \in 1 .. Len(s) : s[i] = t[i]
  PROVE  s = t
  <1>1. s \in [1 .. Len(s) -> S] /\ t \in [1 .. Len(t) -> S]
    BY LenProperties
  <1> QED
    BY <1>1

-----------------------------------------------------------------------------
(***************************************************************************)
(* Where the decoder stands, and what is written there.                    *)
(***************************************************************************)
\* There is one place where it stands.
LEMMA SamePlace ==
  ASSUME Rest, NEW r, IsReading(stream, r), Synced(r), ReadsField,
         NEW i, NEW j, Stands(r, i), Stands(r, j)
  PROVE  i = j
  <1>1. PICK n \in Nat : n = Len(stream.fields)
    BY StreamFacts DEF Rest
  <1>2. i \in 1 .. n + 1 /\ j \in 1 .. n + 1
    BY <1>1 DEF Stands
  <1>3. Records /\ Room
    BY DEF Rest
  <1>4. /\ i \in 1 .. n /\ NextField(i).width > 0 /\ NextField(i).width \in Nat
        /\ NextField(i).at = Start(state.mode, NextBit)
    BY <1>1, <1>2, <1>3, FieldComes
  <1>5. /\ j \in 1 .. n /\ NextField(j).width > 0 /\ NextField(j).width \in Nat
        /\ NextField(j).at = Start(state.mode, NextBit)
    BY <1>1, <1>2, <1>3, FieldComes
  <1>6. /\ i < j => stream.fields[i].at + stream.fields[i].width <= stream.fields[j].at
        /\ j < i => stream.fields[j].at + stream.fields[j].width <= stream.fields[i].at
        /\ stream.fields[i].at \in Nat /\ stream.fields[j].at \in Nat
    BY <1>1, <1>3, <1>4, <1>5, StreamFacts
  <1>7. stream.fields[i].at = stream.fields[j].at
    BY <1>4, <1>5 DEF NextField
  <1> QED
    BY <1>4, <1>5, <1>6, <1>7 DEF NextField

\* What is known of the field that is read.
IsWritten(r, w, i) ==
  /\ i \in 1 .. Len(stream.fields) /\ i + 1 \in 1 .. Len(stream.fields) + 1
  /\ Here = stream.fields[i] /\ Here.mode = state.mode /\ Here.wrong \in BOOLEAN
  /\ r[i].mode = state.mode /\ r[i + 1] = After(r[i], Here)
  /\ w[i + 1] = WrittenAfter(stream, w[i], r[i + 1].flags, Here)
  /\ w[i + 1].sound => IsText(stream, w[i], Here)
  /\ stream.fault # "broken" => w[i + 1].sound /\ r[i + 1].mode # "BAD"
  /\ stream.fault # "broken" /\ IsMatch(Here) =>
       Reach(w[i], Here) <= WSIZE /\ Reach(w[i], Here) <= DMAX

\* That is known of the field that comes next when inflate() has the bits it needs.
LEMMA FieldIsWritten ==
  ASSUME Rest, NEW r, NEW w, Known(r, w), NEW i, Ready(r, i), ReadsField
  PROVE  IsWritten(r, w, i)
  <1>1. PICK n \in Nat : n = Len(stream.fields)
    BY StreamFacts DEF Rest
  <1>2. i \in 1 .. n + 1 /\ r[i].mode = state.mode /\ Here = stream.fields[i]
        /\ Here.wrong \in BOOLEAN
    BY <1>1 DEF Ready, NextField
  <1>3. state.mode \notin Ended
    BY DEF ReadsField, Ended
  <1>4. r[i].mode \notin Ended
    BY <1>2, <1>3
  <1>5. i <= n /\ Fits(r[i], stream.fields[i]) /\ r[i + 1] = After(r[i], stream.fields[i])
    BY <1>1, <1>2, <1>4 DEF Known, IsReading
  <1>6. i \in 1 .. n /\ i + 1 \in 1 .. n + 1
    BY <1>2, <1>5
  <1>7. /\ w[i + 1] = WrittenAfter(stream, w[i], r[i + 1].flags, stream.fields[i])
        /\ w[i + 1].sound => IsText(stream, w[i], stream.fields[i])
    BY <1>1, <1>4, <1>6 DEF Known, IsWriting
  <1>8. stream.fault # "broken" => w[i + 1].sound /\ r[i + 1].mode # "BAD"
    BY <1>1, <1>6 DEF Known, IsFault
  <1>9. stream.fault # "broken" /\ IsMatch(stream.fields[i]) =>
          Reach(w[i], stream.fields[i]) <= WSIZE /\ Reach(w[i], stream.fields[i]) <= DMAX
    BY <1>1, <1>4, <1>6 DEF Known, IsFault
  <1>10. stream.fields[i].mode = state.mode
    BY <1>2, <1>5 DEF Fits
  <1> QED
    BY <1>1, <1>2, <1>5, <1>6, <1>7, <1>8, <1>9, <1>10 DEF IsWritten

\* In a call of inflate() the decoder stands at a field.
LEMMA InCall ==
  ASSUME NEW r, NEW w, Holds(r, w), call.at \in {"inflate", "fast"}
  PROVE  /\ Rest /\ Synced(r) /\ Known(r, w) /\ IsReading(stream, r) /\ Outputs(r, w) /\ Right
         /\ Buffers /\ Limits /\ Windows /\ Goes(r, w) /\ ~inflater.ended
  BY DEF Holds, TextOK, Outputs, Dictless, Known

\* The field that is read is there.
LEMMA FieldAtHand ==
  ASSUME NEW r, NEW w, Holds(r, w), Running, ReadsField,
         state.mode # "STORED" \/ Width % 8 = 0
  PROVE  \E i : /\ Ready(r, i) /\ AtField(r, w, i) /\ IsWritten(r, w, i)
                /\ \A j : Ready(r, j) => j = i
  <1>1. Rest /\ Synced(r) /\ Known(r, w) /\ IsReading(stream, r) /\ Goes(r, w)
    BY InCall DEF Running
  <1>2. PICK i : Ready(r, i)
    BY <1>1, FieldToRead
  <1>3. state.mode # "BAD"
    BY DEF ReadsField
  <1>4. PICK j : AtField(r, w, j)
    BY <1>1, <1>3 DEF Goes
  <1>5. ASSUME NEW k, Ready(r, k) PROVE k = i
    BY <1>1, <1>2, <1>5, SamePlace DEF Ready
  <1>6. i = j
    BY <1>1, <1>2, <1>4, SamePlace DEF Ready, AtField
  <1> QED
    BY <1>1, <1>2, <1>4, <1>5, <1>6, FieldIsWritten

\* A reader keeps the flags of the header.
LEMMA SettledFlags ==
  ASSUME NEW v
  PROVE  Settled(v).flags = v.flags
  <1>1. /\ Block(v).flags = v.flags
        /\ \A mode : Step_(v, mode).flags = v.flags
        /\ \A mode, table, count : Reader(v, mode, table, count).flags = v.flags
        /\ \A mode, count : Counts(v, mode, count).flags = v.flags
    BY DEF Block, Step_, Reader, Counts
  <1>2. Optional(3, v, 0).flags = v.flags
    <2>1. PICK m : m = GzipModes[Least({i \in 3 .. 6 : Announced(v.flags, GzipModes[i])})]
      OBVIOUS
    <2>2. Optional(3, v, 0) = IF m = "TYPE" THEN Block(v)
                              ELSE Counts(v, m, IF m = "EXTRA" THEN 0 ELSE 0)
      BY <2>1 DEF Optional
    <2> QED
      BY <1>1, <2>2
  <1> QED
    BY <1>1, <1>2 DEF Settled

\* After a field the decoder stands before the next one.
LEMMA GoesTo ==
  ASSUME NEW r, NEW i, Ready(r, i), \A j : Ready(r, j) => j = i, Follows(r), ReadsField,
         state'.mode # "BAD"
  PROVE  Stands(r, i + 1)' /\ r[i + 1].flags = state'.flags
  <1>1. PICK j : Ready(r, j) /\ Stands(r, j + 1)'
    BY DEF Follows
  <1>2. PICK k : k = j + 1 /\ Stands(r, k)'
    BY <1>1
  <1>3. j = i
    BY <1>1
  <1>4. r[k] = Settled(View(state'))
    BY <1>2 DEF Stands
  <1>5. View(state').flags = state'.flags
    BY ViewFacts
  <1>6. r[k].flags = state'.flags
    BY <1>4, <1>5, SettledFlags
  <1> QED
    BY <1>1, <1>2, <1>3, <1>6

-----------------------------------------------------------------------------
(***************************************************************************)
(* Steps of inflate() that put out nothing.                                *)
(***************************************************************************)
Quiet ==
  /\ UNCHANGED <<stream, inflater>> /\ Running /\ Running'
  /\ strm'.output = strm.output /\ strm'.avail_out = strm.avail_out
  /\ call'.out = call.out /\ call'.in = call.in
  /\ call.in = 0 => strm' = strm /\ call' = call
  /\ state'.wsize = state.wsize /\ state'.whave = state.whave /\ state'.wnext = state.wnext
  /\ state'.window = state.window
  /\ state.mode \in Unwindowed => state'.mode \in Unwindowed

\* What was handed out, and how much, is as it was.
LEMMA QuietFrame ==
  ASSUME Quiet
  PROVE  /\ Fresh /\ Fresh' /\ Sent' = Sent /\ Total' = Total /\ Earlier' = Earlier
         /\ stream' = stream
  <1>1. Fresh /\ Fresh' /\ Sent' = Sent
    BY DEF Quiet, Fresh, Running, Sent
  <1>2. Total' = Total
    BY <1>1 DEF Quiet, Total
  <1>3. Produced(strm)' = Produced(strm)
    BY DEF Quiet, Produced
  <1>4. Earlier' = Earlier
    BY <1>2, <1>3 DEF Quiet, Earlier
  <1> QED
    BY <1>1, <1>2, <1>4 DEF Quiet

\* What was said about the output still holds.
LEMMA QuietKeeps ==
  ASSUME NEW r, NEW w, Holds(r, w), Quiet, Limits', Goes(r, w)'
  PROVE  TextOK(r, w)'
  <1>1. Right /\ Buffers /\ Windows /\ ~inflater.ended
    BY InCall DEF Quiet, Running
  <1>2. /\ Fresh /\ Fresh' /\ Sent' = Sent /\ Total' = Total /\ Earlier' = Earlier
        /\ stream' = stream /\ inflater' = inflater
    BY QuietFrame DEF Quiet
  <1>3. Right'
    <2>1. Says(inflater.delivered, 0)' /\ Says(strm.output, Sent)'
      BY <1>1, <1>2 DEF Right, Says, Quiet
    <2> QED
      BY <2>1 DEF Right
  <1>4. Buffers'
    BY <1>1, <1>2 DEF Buffers, Quiet, Unwindowed
  <1>5. Windows'
    <2>1. WindowSays(state, Earlier) => WindowSays(state, Earlier)'
      BY <1>2 DEF WindowSays, Quiet
    <2> QED
      BY <1>1, <2>1 DEF Windows, Quiet
  <1>6. Outputs(r, w)'
    BY <1>3, <1>4, <1>5 DEF Outputs
  <1>7. call'.at \notin {"none", "returned"} /\ ~inflater'.ended
    BY <1>1, <1>2 DEF Quiet, Running
  <1> QED
    BY <1>3, <1>6, <1>7 DEF TextOK, EndsAsItShould

\* Such steps are those that only change the state of inflate, but neither its window
\* nor what it has summed up, or take a byte.
LEMMA StateIsQuiet ==
  ASSUME Rest, call.at = "inflate", UNCHANGED <<stream, strm, inflater, call>>,
         Carried(state', state), state.mode \in Unwindowed => state'.mode \in Unwindowed
  PROVE  Quiet
  BY DEF Quiet, Carried, Running

\* A step that takes the next input byte is quiet.
LEMMA ByteIsQuiet ==
  ASSUME Rest, Buffers, call.at = "inflate", strm.avail_in > 0, strm' = Taken(1),
         UNCHANGED <<stream, inflater, call>>,
         Carried(state', state), state.mode \in Unwindowed => state'.mode \in Unwindowed
  PROVE  Quiet
  <1>1. Running /\ Running'
    BY DEF Running
  <1>2. call.in # 0
    BY <1>1 DEF Buffers
  <1>3. strm'.output = strm.output /\ strm'.avail_out = strm.avail_out
    BY DEF Taken, Rest, Records, StrmFields
  <1> QED
    BY <1>1, <1>2, <1>3 DEF Quiet, Carried

\* Steps that leave the decoder where it stands.
LEMMA StillThere ==
  ASSUME NEW r, NEW w, Holds(r, w), Quiet, Limits', state.mode # "BAD",
         \A i : Stands(r, i) => Stands(r, i)',
         state'.mode = state.mode, state'.wrap = state.wrap, state'.total = state.total,
         state'.check = state.check, state'.length = state.length,
         state'.offset = state.offset, state'.extra = state.extra
  PROVE  TextOK(r, w)'
  <1>1. PICK i \in 1 .. Len(stream.fields) + 1 : AtField(r, w, i)
    BY InCall DEF Goes, Quiet, Running
  <1>2. Total' = Total /\ Earlier' = Earlier /\ stream' = stream
    BY QuietFrame
  <1>3. Tells(w[i])'
    <2>1. Pending(w[i], state.length, state.offset) => Pending(w[i], state.length, state.offset)'
      BY <1>2 DEF Pending
    <2>2. Matching' = Matching
      BY DEF Matching
    <2> QED
      BY <1>1, <1>2, <2>1, <2>2 DEF Tells, AtField
  <1>4. ChecksSay(w[i])'
    BY <1>1, <1>2 DEF ChecksSay, AtField
  <1>5. Goes(r, w)'
    BY <1>1, <1>2, <1>3, <1>4 DEF Goes, AtField
  <1> QED
    BY <1>5, QuietKeeps

\* One of them takes a byte for the bits that a mode lacks,
LEMMA PullSays ==
  ASSUME NEW r, NEW w, Holds(r, w), Pull
  PROVE  TextOK(r, w)'
  <1>1. /\ Rest /\ Synced(r) /\ IsReading(stream, r) /\ Buffers /\ Limits /\ Records
    BY InCall DEF Pull, Rest
  <1>2. Waits(r)
    BY <1>1, PullKeeps
  <1>3. state' = [state EXCEPT !.hold = Held(1)] /\ DOMAIN state = StateFields
    BY <1>1 DEF Pull, Records
  <1>4. /\ state'.mode = state.mode /\ state'.wrap = state.wrap /\ state'.total = state.total
        /\ state'.check = state.check /\ state'.length = state.length
        /\ state'.offset = state.offset /\ state'.extra = state.extra
        /\ state'.dmax = state.dmax /\ Carried(state', state)
    BY <1>3 DEF StateFields, Carried
  <1>5. Quiet
    BY <1>1, <1>4, ByteIsQuiet DEF Pull
  <1>6. state.mode # "BAD"
    <2>1. state.mode = "BAD" => BitsNeeded = 0
      BY DEF BitsNeeded
    <2>2. Width \in Nat
      BY <1>1 DEF Synced, HoldOK
    <2> QED
      BY <2>1, <2>2 DEF Pull, Lacking, Width
  <1>7. Limits'
    BY <1>1, <1>4 DEF Limits
  <1> QED
    BY <1>2, <1>4, <1>5, <1>6, <1>7, StillThere DEF Waits

\* one drops bits up to a whole byte,
LEMMA ByteBitsSays ==
  ASSUME NEW r, NEW w, Holds(r, w), ByteBits
  PROVE  TextOK(r, w)'
  <1>1. /\ Rest /\ Synced(r) /\ IsReading(stream, r) /\ Limits /\ Records
        /\ call.at = "inflate" /\ state.mode = "STORED"
    BY InCall DEF ByteBits, StoredBegins, In, Rest
  <1>2. Waits(r)
    BY <1>1, ByteBitsKeeps
  <1>3. state' = [state EXCEPT !.hold = ToByte] /\ DOMAIN state = StateFields
    BY <1>1 DEF ByteBits, Records
  <1>4. /\ state'.mode = state.mode /\ state'.wrap = state.wrap /\ state'.total = state.total
        /\ state'.check = state.check /\ state'.length = state.length
        /\ state'.offset = state.offset /\ state'.extra = state.extra
        /\ state'.dmax = state.dmax /\ Carried(state', state)
    BY <1>3 DEF StateFields, Carried
  <1>5. Quiet
    BY <1>1, <1>4, StateIsQuiet DEF ByteBits
  <1>6. Limits'
    BY <1>1, <1>4 DEF Limits
  <1> QED
    BY <1>1, <1>2, <1>4, <1>5, <1>6, StillThere DEF Waits

\* and the others are where inflate_fast begins and ends.
LEMMA EnterFastSays ==
  ASSUME NEW r, NEW w, Holds(r, w), EnterFast
  PROVE  TextOK(r, w)'
  <1>1. /\ Rest /\ Synced(r) /\ IsReading(stream, r) /\ Limits /\ Records /\ Buffers
        /\ call.at = "inflate" /\ state.mode = "LEN" /\ strm.avail_in >= FAST_IN
        /\ DOMAIN call = CallFields
    BY InCall DEF EnterFast, Fast, Rest, Records
  <1>2. Waits(r)
    BY <1>1, EnterFastKeeps
  <1>3. call.in # 0
    BY <1>1, StreamAssumption DEF Buffers, Running
  <1>4. /\ call'.at = "fast" /\ call'.out = call.out /\ call'.in = call.in
        /\ UNCHANGED <<stream, strm, state, inflater>>
    BY <1>1 DEF EnterFast, CallFields
  <1>5. Quiet
    BY <1>1, <1>3, <1>4 DEF Quiet, Running
  <1>6. Limits'
    BY <1>1, <1>4 DEF Limits
  <1> QED
    BY <1>1, <1>2, <1>4, <1>5, <1>6, StillThere DEF Waits

\* Leaving inflate_fast() hands the bytes it did not need back to the input: the text
\* is not touched.
LEMMA LeaveFastSays ==
  ASSUME NEW r, NEW w, Holds(r, w), LeaveFast
  PROVE  TextOK(r, w)'
  <1>1. /\ Rest /\ Synced(r) /\ IsReading(stream, r) /\ Limits /\ Records /\ Buffers
        /\ call.at = "fast" /\ DOMAIN call = CallFields /\ DOMAIN strm = StrmFields
        /\ DOMAIN state = StateFields /\ Goes(r, w)
    BY InCall DEF LeaveFast, Rest, Records
  <1>2. Waits(r)
    BY <1>1, LeaveFastKeeps
  <1>3. call.in # 0
    BY <1>1 DEF Buffers, Running
  <1>4. PICK len, hold : /\ strm' = Taken(-len) /\ state' = [state EXCEPT !.hold = hold]
                         /\ call' = [call EXCEPT !.at = "inflate"]
                         /\ UNCHANGED <<stream, inflater>>
    BY DEF LeaveFast
  <1>5. /\ state'.mode = state.mode /\ state'.wrap = state.wrap /\ state'.total = state.total
        /\ state'.check = state.check /\ state'.length = state.length
        /\ state'.offset = state.offset /\ state'.extra = state.extra
        /\ state'.dmax = state.dmax /\ Carried(state', state)
    BY <1>1, <1>4 DEF StateFields, Carried
  <1>6. /\ strm'.output = strm.output /\ strm'.avail_out = strm.avail_out
        /\ call'.out = call.out /\ call'.in = call.in /\ call'.at = "inflate"
    BY <1>1, <1>4 DEF Taken, StrmFields, CallFields
  <1>7. Quiet
    BY <1>1, <1>3, <1>4, <1>5, <1>6 DEF Quiet, Running, Carried
  <1>8. Limits'
    BY <1>1, <1>5 DEF Limits
  <1>9. CASE state.mode # "BAD"
    BY <1>2, <1>5, <1>7, <1>8, <1>9, StillThere DEF Waits
  <1>10. CASE state.mode = "BAD"
    <2>1. Goes(r, w)'
      BY <1>1, <1>4, <1>5, <1>10 DEF Goes
    <2> QED
      BY <1>7, <1>8, <2>1, QuietKeeps
  <1> QED
    BY <1>9, <1>10

\* The bytes of the output, of this call and of earlier ones.
LEMMA OutputCounts ==
  ASSUME Rest, Right, Buffers, Running
  PROVE  /\ Sent \in Nat /\ Len(strm.output) \in Nat /\ Total = Sent + Len(strm.output)
         /\ Total \in Nat /\ Total <= Len(stream.text) /\ Len(stream.text) \in Nat
         /\ Produced(strm) \in Nat /\ Produced(strm) <= Len(strm.output)
         /\ Earlier \in Nat /\ Earlier + Produced(strm) = Total
         /\ call.out \in Nat /\ strm.avail_out \in Nat /\ strm.avail_out <= call.out
         /\ Len(strm.output) + strm.avail_out = inflater.chunkSize
         /\ stream.text \in Seq(Byte) /\ strm.output \in Seq(Byte)
  <1>1. Fresh
    BY DEF Fresh, Running
  <1>2. stream.text \in Seq(Byte) /\ Len(stream.text) \in Nat
    <2>1. stream.text \in Seq(Byte)
      BY TextAssumption DEF Rest, Records
    <2> QED
      BY <2>1, LenProperties
  <1>3. /\ inflater.delivered \in Seq(Byte) /\ strm.output \in Seq(Byte)
        /\ Sent + Len(strm.output) <= Len(stream.text)
    BY <1>1 DEF Right, Says
  <1>4. Sent \in Nat /\ Len(strm.output) \in Nat
    BY <1>3, LenProperties DEF Sent
  <1>5. Total = Sent + Len(strm.output)
    BY <1>1 DEF Total
  <1>6. /\ strm.avail_out \in Nat /\ inflater.chunkSize \in Nat /\ call.out \in Nat
        /\ call.out \in 0 .. inflater.chunkSize /\ strm.avail_out <= call.out
        /\ Len(strm.output) + strm.avail_out = inflater.chunkSize
    BY <1>1 DEF Rest, Room, Buffers
  <1>7. Earlier = Total - Produced(strm) /\ Produced(strm) = call.out - strm.avail_out
    BY DEF Earlier, Produced
  <1>8. PICK a \in Nat, b \in Nat, c \in Nat, d \in Nat, e \in Nat :
          /\ a = Sent /\ b = Len(strm.output) /\ c = call.out /\ d = strm.avail_out
          /\ e = inflater.chunkSize
    BY <1>4, <1>6
  <1>9. PICK p \in Nat : p = c - d /\ p <= b
    <2>1. d <= c /\ c <= e /\ b + d = e
      BY <1>6, <1>8
    <2> QED
      BY <2>1
  <1>10. Produced(strm) = p /\ Total = a + b /\ Earlier = a + b - p
    BY <1>5, <1>7, <1>8, <1>9
  <1>11. a + b \in Nat /\ a + b - p \in Nat /\ (a + b - p) + p = a + b
    BY <1>9
  <1> QED
    BY <1>2, <1>3, <1>4, <1>5, <1>6, <1>8, <1>9, <1>10, <1>11

\* A field after which there is no fault to find is sound.
LEMMA UnsoundIsBroken ==
  ASSUME NEW r, NEW w, NEW i, IsWritten(r, w, i), ~IsSound(stream, w[i], Here)
  PROVE  stream.fault = "broken" /\ w[i + 1].sound = FALSE
  <1>1. w[i + 1] = Written(w[i].n, w[i].length, w[i].offset, w[i].crc, FALSE)
    BY DEF IsWritten, WrittenAfter
  <1>2. w[i + 1].sound = FALSE
    BY <1>1 DEF Written
  <1> QED
    BY <1>2 DEF IsWritten

\* What WrittenAfter says of a field that is sound: so much is written, and it is the text.
LEMMA SoundIsWritten ==
  ASSUME NEW r, NEW w, NEW i, IsWritten(r, w, i), IsSound(stream, w[i], Here)
  PROVE  /\ w[i + 1].n = w[i].n + (IF IsLiteral(Here) THEN 1
                                   ELSE IF IsMatch(Here) THEN w[i].length ELSE 0)
         /\ w[i + 1].length = LengthAfter(w[i], Here)
         /\ w[i + 1].offset = IF Here.mode = "DIST" THEN Here.says.val ELSE w[i].offset
         /\ w[i + 1].crc = CrcAfter(w[i], r[i + 1].flags, Here)
         /\ w[i + 1].sound /\ IsText(stream, w[i], Here)
  <1>1. w[i + 1] = Written(w[i].n + (IF IsLiteral(Here) THEN 1
                                     ELSE IF IsMatch(Here) THEN w[i].length ELSE 0),
                           LengthAfter(w[i], Here),
                           IF Here.mode = "DIST" THEN Here.says.val ELSE w[i].offset,
                           CrcAfter(w[i], r[i + 1].flags, Here), TRUE)
    BY DEF IsWritten, WrittenAfter
  <1>2. w[i + 1].sound
    BY <1>1 DEF Written
  <1> QED
    BY <1>1, <1>2 DEF Written, IsWritten

\* Fields between the tokens.
Tokens == {"LEN", "LENEXT", "DIST", "DISTEXT"}

\* A field that writes nothing and whose check, if it is one, is right leaves what is
\* written as it was put out.
LEMMA DullTells ==
  ASSUME NEW r, NEW w, NEW i, IsWritten(r, w, i), Tells(w[i]), Total \in Nat, Total' = Total,
         state.mode \notin Tokens \cup {"COPY", "LIT", "MATCH"}, Here.wrong = FALSE,
         state.mode = "HCRC" => Here.says = w[i].crc,
         state.mode = "CHECK" => Here.says = SubSeq(stream.text, 1, w[i].n),
         state.mode = "LENGTH" => Here.says = w[i].n,
         state'.mode \notin {"LIT", "MATCH", "LENEXT", "DIST", "DISTEXT"}
  PROVE  /\ Tells(w[i + 1])' /\ w[i + 1].n = Total
         /\ w[i + 1].crc = CrcAfter(w[i], r[i + 1].flags, Here)
  <1>1. w[i].sound /\ w[i].n = Total
    BY DEF Tells, Matching, Tokens
  <1>2. Here.mode = state.mode
    BY DEF IsWritten
  <1>3. ~IsMatch(Here) /\ ~IsLiteral(Here)
    BY <1>2 DEF IsMatch, IsLiteral, Tokens
  <1>4. IsSound(stream, w[i], Here)
    BY <1>1, <1>2, <1>3 DEF IsSound
  <1>5. /\ w[i + 1].n = w[i].n + 0 /\ w[i + 1].sound
        /\ w[i + 1].crc = CrcAfter(w[i], r[i + 1].flags, Here)
    BY <1>3, <1>4, SoundIsWritten
  <1>6. w[i + 1].n = Total
    BY <1>1, <1>5
  <1>7. Tells(w[i + 1])'
    BY <1>5, <1>6 DEF Tells, Matching
  <1> QED
    BY <1>5, <1>6, <1>7

\* A step over a field, and one over none.
LEMMA FieldSays ==
  ASSUME NEW r, NEW w, Holds(r, w), Quiet, Limits', ReadsField, Follows(r),
         NEW i, Ready(r, i), \A j : Ready(r, j) => j = i, IsWritten(r, w, i),
         state'.mode = "BAD" => stream.fault = "broken",
         state'.mode # "BAD" => Tells(w[i + 1])' /\ ChecksSay(w[i + 1])'
  PROVE  TextOK(r, w)'
  <1>1. stream' = stream /\ i + 1 \in 1 .. Len(stream.fields) + 1
    BY DEF Quiet, IsWritten
  <1>2. ASSUME state'.mode # "BAD" PROVE Stands(r, i + 1)'
    BY <1>2, GoesTo
  <1>3. Goes(r, w)'
    <2>1. CASE state'.mode = "BAD"
      BY <1>1, <2>1 DEF Goes
    <2>2. CASE state'.mode # "BAD"
      <3>1. PICK k : k = i + 1 /\ k \in 1 .. Len(stream.fields) + 1
        BY <1>1
      <3>2. Stands(r, k)' /\ Tells(w[k])' /\ ChecksSay(w[k])'
        BY <1>2, <2>2, <3>1
      <3>3. k \in 1 .. Len(stream'.fields) + 1
        BY <1>1, <3>1
      <3>4. AtField(r, w, k)'
        BY <3>2 DEF AtField
      <3> QED
        BY <2>2, <3>3, <3>4 DEF Goes
    <2> QED
      BY <2>1, <2>2
  <1> QED
    BY <1>3, QuietKeeps

\* A quiet step that reads no field stands where it stood.
LEMMA PassSays ==
  ASSUME NEW r, NEW w, Holds(r, w), Quiet, Limits', ~ReadsField, Follows(r),
         NEW i \in 1 .. Len(stream.fields) + 1, AtField(r, w, i),
         state'.mode = "BAD" => stream.fault = "broken",
         state'.mode # "BAD" => Tells(w[i])' /\ ChecksSay(w[i])'
  PROVE  TextOK(r, w)'
  <1>1. stream' = stream
    BY DEF Quiet
  <1>2. state'.mode # "BAD" => Stands(r, i)'
    BY DEF Follows, AtField
  <1>3. Goes(r, w)'
    BY <1>1, <1>2 DEF Goes, AtField
  <1> QED
    BY <1>3, QuietKeeps

-----------------------------------------------------------------------------
(***************************************************************************)
(* Headers.                                                                *)
(***************************************************************************)
\* What Crc and From do with the check value.
LEMMA CrcSays ==
  ASSUME NEW s, NEW says, DOMAIN s = StateFields
  PROVE  LET t == Crc(s, says) IN
         /\ DOMAIN t = StateFields /\ t.mode = s.mode /\ t.flags = s.flags
         /\ t.total = s.total /\ t.dmax = s.dmax /\ Carried(t, s)
         /\ t.check = IF "HCRC" \in s.flags THEN Append(s.check, says) ELSE s.check
  BY DEF Crc, StateFields, Carried

\* The state after skipping the fields of the gzip header from the k-th that are absent.
LEMMA FromSays ==
  ASSUME NEW k \in 1 .. 6, NEW s, DOMAIN s = StateFields
  PROVE  LET t == From(k, s) IN
         /\ DOMAIN t = StateFields /\ t.flags = s.flags /\ t.total = s.total /\ t.dmax = s.dmax
         /\ Carried(t, s) /\ t.mode \in HeadModes \cup {"TYPE"}
         /\ t.check = IF t.mode = "TYPE" THEN <<>> ELSE s.check
  <1>1. PICK n : n = Least({i \in k .. 6 : Announced(s.flags, GzipModes[i])})
    OBVIOUS
  <1>2. From(k, s) = [s EXCEPT !.mode = GzipModes[n], !.check = IF n = 6 THEN <<>> ELSE @]
    BY <1>1 DEF From
  <1>3. n \in 1 .. 6
    <2>1. {i \in k .. 6 : Announced(s.flags, GzipModes[i])} \in SUBSET (1 .. 6)
      OBVIOUS
    <2>2. 6 \in {i \in k .. 6 : Announced(s.flags, GzipModes[i])}
      BY DEF Announced, GzipModes
    <2>3. n \in {i \in k .. 6 : Announced(s.flags, GzipModes[i])}
      BY <1>1, <2>1, <2>2, LeastOfSix
    <2> QED
      BY <2>3
  <1>4. GzipModes[n] \in HeadModes \cup {"TYPE"} /\ (GzipModes[n] = "TYPE" <=> n = 6)
    BY <1>3 DEF GzipModes, HeadModes
  <1>5. LET t == From(k, s) IN
        /\ DOMAIN t = StateFields /\ t.flags = s.flags /\ t.total = s.total /\ t.dmax = s.dmax
        /\ t.mode = GzipModes[n] /\ t.check = IF n = 6 THEN <<>> ELSE s.check
        /\ Carried(t, s)
    BY <1>2 DEF StateFields, Carried
  <1> QED
    BY <1>4, <1>5

\* Sequences of anything.
LEMMA Appended ==
  ASSUME NEW s, IsSequence(s), NEW e
  PROVE  IsSequence(Append(s, e)) /\ IsSequence(<<e>>)
  <1>1. PICK S : S = {s[k] : k \in 1 .. Len(s)} \cup {e}
    OBVIOUS
  <1>2. e \in S /\ \A k \in 1 .. Len(s) : s[k] \in S
    BY <1>1
  <1>3. s \in Seq(S)
    BY <1>2, IsASeq DEF IsSequence
  <1>4. Append(s, e) \in Seq(S) /\ <<e>> \in Seq(S)
    BY <1>2, <1>3, AppendProperties
  <1>5. ASSUME NEW t \in Seq(S) PROVE IsSequence(t)
    <2>1. Len(t) \in Nat /\ t \in [1 .. Len(t) -> S]
      BY LenProperties
    <2> QED
      BY <2>1 DEF IsSequence
  <1> QED
    BY <1>4, <1>5

\* A text from its beginning on.
LEMMA NoText ==
  ASSUME NEW s
  PROVE  SubSeq(s, 1, 0) = <<>>
  BY DEF SubSeq

\* The check value stays what it is where no header is read.
LEMMA ChecksStay ==
  ASSUME NEW v, NEW u, ChecksSay(v), Total' = Total, Earlier' = Earlier, stream' = stream,
         state'.wrap = state.wrap, state'.total = state.total, state'.check = state.check,
         state.mode \notin HeadModes,
         state'.mode \notin HeadModes \cup {"HEAD", "LENGTH"}, state'.mode = "CHECK" => state.wrap # 0
  PROVE  ChecksSay(u)'
  BY DEF ChecksSay

\* A field of the gzip header goes into the check value.
LEMMA HeadFieldSays ==
  ASSUME NEW r, NEW w, Holds(r, w), Quiet, Follows(r), ReadsField, Here.wrong = FALSE,
         state.mode \in HeadModes, state'.mode \in HeadModes \cup {"TYPE"},
         state.mode = "HCRC" => Here.says = state.check /\ state'.mode = "TYPE",
         state'.wrap = state.wrap, state'.total = state.total, state'.dmax = state.dmax,
         state'.check = IF state'.mode = "TYPE" THEN <<>>
                        ELSE IF "HCRC" \in state'.flags THEN Append(state.check, Here.says)
                        ELSE state.check
  PROVE  TextOK(r, w)'
  <1>1. /\ Rest /\ Right /\ Buffers /\ Limits /\ Running
        /\ Total' = Total /\ Earlier' = Earlier /\ stream' = stream
    BY InCall, QuietFrame DEF Quiet, Running
  <1>2. PICK i : /\ Ready(r, i) /\ AtField(r, w, i) /\ IsWritten(r, w, i)
                 /\ \A j : Ready(r, j) => j = i
    BY <1>1, FieldAtHand DEF HeadModes
  <1>3. Tells(w[i]) /\ ChecksSay(w[i]) /\ Total \in Nat /\ Earlier \in Nat
        /\ Produced(strm) \in Nat /\ Earlier + Produced(strm) = Total
    BY <1>1, <1>2, OutputCounts DEF AtField
  <1>4. /\ state.wrap # 0 /\ state.total = Earlier /\ Total = 0 /\ Earlier = 0
        /\ state.check = w[i].crc /\ IsSequence(w[i].crc)
    BY <1>3 DEF ChecksSay
  <1>5. r[i + 1].flags = state'.flags
    BY <1>2, GoesTo DEF HeadModes
  <1>6. Here.mode = state.mode
    BY <1>2 DEF IsWritten
  <1>7. /\ Tells(w[i + 1])'
        /\ w[i + 1].crc = CrcAfter(w[i], state'.flags, Here)
    <2>1. /\ state.mode \notin Tokens \cup {"COPY", "LIT", "MATCH"}
          /\ state.mode # "CHECK" /\ state.mode # "LENGTH"
          /\ state'.mode \notin {"LIT", "MATCH", "LENEXT", "DIST", "DISTEXT"}
      BY DEF HeadModes, Tokens
    <2>2. state.mode = "HCRC" => Here.says = w[i].crc
      BY <1>4
    <2>3. /\ Tells(w[i + 1])'
          /\ w[i + 1].crc = CrcAfter(w[i], r[i + 1].flags, Here)
      BY <1>1, <1>2, <1>3, <2>1, <2>2, DullTells
    <2> QED
      BY <1>5, <2>3
  <1>8. ChecksSay(w[i + 1])'
    <2>1. CASE state'.mode = "TYPE"
      <3>1. state'.check = SubSeq(stream.text, 1, Earlier)
        BY <1>4, <2>1, NoText
      <3> QED
        BY <1>1, <1>4, <2>1, <3>1 DEF ChecksSay, HeadModes
    <2>2. CASE state'.mode # "TYPE"
      <3>1. state.mode \in {"FLAGS", "TIME", "OS", "EXLEN", "EXTRA", "NAME", "COMMENT"}
        BY <2>2 DEF HeadModes
      <3>2. w[i + 1].crc = IF "HCRC" \in state'.flags THEN Append(w[i].crc, Here.says)
                           ELSE w[i].crc
        BY <1>6, <1>7, <3>1 DEF CrcAfter
      <3>3. state'.check = w[i + 1].crc /\ IsSequence(w[i + 1].crc)
        BY <1>4, <2>2, <3>2, Appended
      <3>4. state'.mode \in HeadModes
        BY <2>2
      <3>5. state'.mode # "LENGTH"
        BY <3>4 DEF HeadModes
      <3> QED
        BY <1>1, <1>4, <3>3, <3>4, <3>5 DEF ChecksSay
    <2> QED
      BY <2>1, <2>2
  <1>9. Limits' /\ state'.mode # "BAD"
    BY <1>1 DEF Limits, HeadModes
  <1> QED
    BY <1>2, <1>7, <1>8, <1>9, FieldSays

\* A field is refused only if the stream is broken.
LEMMA RefusedIsBroken ==
  ASSUME NEW r, NEW w, Holds(r, w), call.at = "inflate", ReadsField, Becomes(Bad(state)),
         Follows(r), NEW i, Ready(r, i), \A j : Ready(r, j) => j = i, IsWritten(r, w, i),
         stream.fault = "broken"
  PROVE  TextOK(r, w)'
  <1>1. Rest /\ Limits
    BY InCall
  <1>2. /\ state' = Bad(state) /\ DOMAIN state = StateFields
        /\ UNCHANGED <<stream, strm, inflater, call>>
    BY <1>1 DEF Becomes, Rest, Records
  <1>3. state'.mode = "BAD" /\ state'.dmax = state.dmax /\ Carried(state', state)
    BY <1>2 DEF Bad, StateFields, Carried
  <1>4. Quiet
    BY <1>1, <1>2, <1>3, StateIsQuiet DEF Unwindowed
  <1>5. Limits'
    BY <1>1, <1>3 DEF Limits
  <1> QED
    BY <1>3, <1>4, <1>5, FieldSays
\* A step that only changes the state, in a mode that reads a field, where that field is.
LEMMA FieldHere ==
  ASSUME NEW r, NEW w, Holds(r, w), call.at = "inflate", ReadsField,
         state.mode # "STORED" \/ Width % 8 = 0
  PROVE  /\ Rest /\ Synced(r) /\ IsReading(stream, r) /\ Right /\ Buffers /\ Limits /\ Running
         /\ DOMAIN state = StateFields
         /\ \E i : /\ Ready(r, i) /\ \A j : Ready(r, j) => j = i
                   /\ IsWritten(r, w, i) /\ Tells(w[i]) /\ ChecksSay(w[i])
                   /\ Total \in Nat /\ Earlier \in Nat /\ Earlier <= Total
  <1>1. /\ Rest /\ Synced(r) /\ IsReading(stream, r) /\ Right /\ Buffers /\ Limits /\ Running
        /\ DOMAIN state = StateFields
    BY InCall DEF Running, Rest, Records
  <1>2. PICK i : /\ Ready(r, i) /\ AtField(r, w, i) /\ IsWritten(r, w, i)
                 /\ \A j : Ready(r, j) => j = i
    BY <1>1, FieldAtHand
  <1>3. Total \in Nat /\ Earlier \in Nat /\ Produced(strm) \in Nat
        /\ Earlier + Produced(strm) = Total
    BY <1>1, OutputCounts
  <1> QED
    BY <1>1, <1>2, <1>3 DEF AtField

\* The first two bytes: a zlib or gzip header, or raw data.
LEMMA ReadHeadSays ==
  ASSUME NEW r, NEW w, Holds(r, w), ReadHead
  PROVE  TextOK(r, w)'
  <1>1. /\ call.at = "inflate" /\ state.mode = "HEAD" /\ state.wrap # 0 /\ ReadsField
        /\ state.mode # "STORED"
    BY DEF ReadHead, Reads, In, ReadsField
  <1>2. /\ Rest /\ Synced(r) /\ IsReading(stream, r) /\ Right /\ Buffers /\ Limits /\ Running
        /\ DOMAIN state = StateFields
    BY <1>1, FieldHere
  <1>3. PICK i : /\ Ready(r, i) /\ \A j : Ready(r, j) => j = i
                 /\ IsWritten(r, w, i) /\ Tells(w[i]) /\ ChecksSay(w[i])
                 /\ Total \in Nat /\ Earlier \in Nat /\ Earlier <= Total
    BY <1>1, FieldHere
  <1>4. Follows(r)
    BY <1>2, ReadHeadKeeps
  <1>5. /\ state.total = Earlier /\ Total = 0 /\ Earlier = 0
        /\ state.check = SubSeq(stream.text, 1, Earlier)
    BY <1>1, <1>3 DEF ChecksSay, HeadModes
  <1>6. CASE Here.wrong /\ Becomes(Bad(state))
    <2>1. ~IsSound(stream, w[i], Here)
      BY <1>6 DEF IsSound
    <2> QED
      BY <1>1, <1>3, <1>4, <1>6, <2>1, UnsoundIsBroken, RefusedIsBroken
  <1>7. ASSUME NEW s, Becomes(s), Here.wrong = FALSE, Carried(s, state), s.total = state.total,
               s.dmax \in {DMAX, WSIZE},
               \/ s.mode = "FLAGS" /\ s.check = <<"gzip">> /\ Here.says = "gzip"
               \/ s.mode \in {"TYPE", "DICTID"} /\ s.check = state.check
        PROVE  TextOK(r, w)'
    <2>1. state' = s /\ UNCHANGED <<stream, strm, inflater, call>>
      BY <1>7 DEF Becomes
    <2>2. state'.mode \in {"FLAGS", "TYPE", "DICTID"}
      BY <1>7, <2>1
    <2>3. Quiet
      BY <1>1, <1>2, <1>7, <2>1, StateIsQuiet DEF Unwindowed
    <2>4. Total' = Total /\ Earlier' = Earlier /\ stream' = stream
      BY <2>3, QuietFrame
    <2>5. /\ Tells(w[i + 1])'
          /\ w[i + 1].crc = CrcAfter(w[i], r[i + 1].flags, Here)
      <3>1. /\ state.mode \notin Tokens \cup {"COPY", "LIT", "MATCH"}
            /\ state'.mode \notin {"LIT", "MATCH", "LENEXT", "DIST", "DISTEXT"}
            /\ state.mode # "HCRC" /\ state.mode # "CHECK" /\ state.mode # "LENGTH"
        BY <1>1, <2>2 DEF Tokens
      <3> QED
        BY <1>3, <1>7, <2>4, <3>1, DullTells
    <2>6. ChecksSay(w[i + 1])'
      <3>1. CASE s.mode = "FLAGS" /\ s.check = <<"gzip">> /\ Here.says = "gzip"
        <4>1. Here.mode = "HEAD"
          BY <1>1, <1>3 DEF IsWritten
        <4>2. w[i + 1].crc = <<"gzip">>
          BY <2>5, <3>1, <4>1 DEF CrcAfter
        <4>3. IsSequence(<<"gzip">>)
          <5>1. IsSequence(<<>>)
            BY DEF IsSequence
          <5> QED
            BY <5>1, Appended
        <4> QED
          BY <1>1, <1>5, <1>7, <2>1, <2>4, <3>1, <4>2, <4>3 DEF ChecksSay, HeadModes, Carried
      <3>2. CASE s.mode \in {"TYPE", "DICTID"} /\ s.check = state.check
        <4>1. state'.mode \notin HeadModes \cup {"HEAD", "CHECK", "LENGTH"}
              /\ state.mode \notin HeadModes
          BY <1>1, <2>1, <3>2 DEF HeadModes
        <4>2. state'.wrap = state.wrap /\ state'.total = state.total /\ state'.check = state.check
          BY <1>7, <2>1, <3>2 DEF Carried
        <4> QED
          BY <1>3, <2>4, <4>1, <4>2, ChecksStay
      <3> QED
        BY <1>7, <3>1, <3>2
    <2>7. Limits' /\ state'.mode # "BAD"
      BY <1>7, <2>1, <2>2 DEF Limits
    <2> QED
      BY <1>1, <1>3, <1>4, <2>3, <2>5, <2>6, <2>7, FieldSays
  <1>8. CASE ~Here.wrong /\ Here.says = "gzip" /\
             Becomes([InitBits(state) EXCEPT !.mode = "FLAGS", !.check = <<"gzip">>])
    <2>1. PICK s : /\ s = [InitBits(state) EXCEPT !.mode = "FLAGS", !.check = <<"gzip">>]
                   /\ Becomes(s)
      BY <1>8
    <2>2. /\ Carried(s, state) /\ s.mode = "FLAGS" /\ s.check = <<"gzip">>
          /\ s.total = state.total /\ s.dmax = state.dmax
      BY <1>2, <2>1 DEF StateFields, Carried, InitBits
    <2> QED
      BY <1>2, <1>3, <1>7, <1>8, <2>1, <2>2 DEF Limits, IsWritten
  <1>9. CASE ~Here.wrong /\ Here.says = "zlib" /\
             Becomes([InitBits(state) EXCEPT !.mode = "TYPE", !.dmax = WSIZE])
    <2>1. PICK s : s = [InitBits(state) EXCEPT !.mode = "TYPE", !.dmax = WSIZE] /\ Becomes(s)
      BY <1>9
    <2>2. /\ Carried(s, state) /\ s.mode = "TYPE" /\ s.check = state.check
          /\ s.total = state.total /\ s.dmax = WSIZE
      BY <1>2, <2>1 DEF StateFields, Carried, InitBits
    <2> QED
      BY <1>3, <1>7, <1>9, <2>1, <2>2 DEF IsWritten
  <1>10. CASE ~Here.wrong /\ Here.says = "dictionary" /\
              Becomes([InitBits(state) EXCEPT !.mode = "DICTID", !.dmax = WSIZE])
    <2>1. PICK s : s = [InitBits(state) EXCEPT !.mode = "DICTID", !.dmax = WSIZE] /\ Becomes(s)
      BY <1>10
    <2>2. /\ Carried(s, state) /\ s.mode = "DICTID" /\ s.check = state.check
          /\ s.total = state.total /\ s.dmax = WSIZE
      BY <1>2, <2>1 DEF StateFields, Carried, InitBits
    <2> QED
      BY <1>3, <1>7, <1>10, <2>1, <2>2 DEF IsWritten
  <1> QED
    BY <1>6, <1>8, <1>9, <1>10 DEF ReadHead

\* The flags of the gzip header.
LEMMA ReadFlagsSays ==
  ASSUME NEW r, NEW w, Holds(r, w), ReadFlags
  PROVE  TextOK(r, w)'
  <1>1. /\ call.at = "inflate" /\ state.mode = "FLAGS" /\ ReadsField /\ state.mode # "STORED"
    BY DEF ReadFlags, Reads, In, ReadsField
  <1>2. /\ Rest /\ Synced(r) /\ IsReading(stream, r) /\ Right /\ Buffers /\ Limits /\ Running
        /\ DOMAIN state = StateFields
    BY <1>1, FieldHere
  <1>3. PICK i : /\ Ready(r, i) /\ \A j : Ready(r, j) => j = i
                 /\ IsWritten(r, w, i) /\ Tells(w[i]) /\ ChecksSay(w[i])
                 /\ Total \in Nat /\ Earlier \in Nat /\ Earlier <= Total
    BY <1>1, FieldHere
  <1>4. Follows(r)
    BY <1>2, ReadFlagsKeeps
  <1>5. CASE Here.wrong /\ Becomes(Bad(state))
    <2>1. ~IsSound(stream, w[i], Here)
      BY <1>5 DEF IsSound
    <2> QED
      BY <1>1, <1>3, <1>4, <1>5, <2>1, UnsoundIsBroken, RefusedIsBroken
  <1>6. CASE ~Here.wrong /\
             Becomes(Crc([InitBits(state) EXCEPT !.mode = "TIME", !.flags = Here.says], Here.says))
    <2>1. PICK s : s = [InitBits(state) EXCEPT !.mode = "TIME", !.flags = Here.says]
                   /\ Becomes(Crc(s, Here.says))
      BY <1>6
    <2>2. /\ DOMAIN s = StateFields /\ Carried(s, state) /\ s.mode = "TIME" /\ s.check = state.check
          /\ s.total = state.total /\ s.dmax = state.dmax /\ s.wrap = state.wrap
      BY <1>2, <2>1 DEF StateFields, Carried, InitBits
    <2>3. state' = Crc(s, Here.says) /\ UNCHANGED <<stream, strm, inflater, call>>
      BY <2>1 DEF Becomes
    <2>4. /\ state'.mode = "TIME" /\ state'.flags = s.flags /\ state'.total = state.total
          /\ state'.dmax = state.dmax /\ Carried(state', s)
          /\ state'.check = IF "HCRC" \in s.flags THEN Append(state.check, Here.says)
                            ELSE state.check
      BY <2>2, <2>3, CrcSays
    <2>5. Carried(state', state) /\ state'.wrap = state.wrap
      BY <2>2, <2>4 DEF Carried
    <2>6. Quiet
      BY <1>1, <1>2, <2>3, <2>5, StateIsQuiet DEF Unwindowed
    <2>7. Here.wrong = FALSE
      BY <1>3, <1>6 DEF IsWritten
    <2> QED
      BY <1>1, <1>4, <2>4, <2>5, <2>6, <2>7, HeadFieldSays DEF HeadModes
  <1> QED
    BY <1>5, <1>6 DEF ReadFlags

\* Fields of 16 and 32 bits.
LEMMA ReadTimeSays ==
  ASSUME NEW r, NEW w, Holds(r, w), ReadTime
  PROVE  TextOK(r, w)'
  <1>1. Rest /\ Synced(r) /\ IsReading(stream, r) /\ DOMAIN state = StateFields /\ Reads("TIME")
        /\ call.at = "inflate" /\ Becomes(Crc([InitBits(state) EXCEPT !.mode = "OS"], Here.says))
    BY InCall DEF Rest, Records, ReadTime, Reads, In
  <1>2. state.mode = "TIME" /\ ReadsField /\ Here.wrong = FALSE
    BY <1>1, WholeField
  <1>3. Follows(r)
    BY <1>1, ReadTimeKeeps
  <1>4. PICK s : s = [InitBits(state) EXCEPT !.mode = "OS"] /\ Becomes(Crc(s, Here.says))
    BY <1>1
  <1>5. /\ DOMAIN s = StateFields /\ Carried(s, state) /\ s.mode = "OS" /\ s.check = state.check
        /\ s.total = state.total /\ s.dmax = state.dmax
    BY <1>1, <1>4 DEF StateFields, Carried, InitBits
  <1>6. state' = Crc(s, Here.says) /\ UNCHANGED <<stream, strm, inflater, call>>
    BY <1>4 DEF Becomes
  <1>7. /\ state'.mode = "OS" /\ state'.flags = s.flags /\ state'.total = state.total
        /\ state'.dmax = state.dmax /\ Carried(state', s)
        /\ state'.check = IF "HCRC" \in s.flags THEN Append(state.check, Here.says)
                          ELSE state.check
    BY <1>5, <1>6, CrcSays
  <1>8. Carried(state', state) /\ state'.wrap = state.wrap
    BY <1>5, <1>7 DEF Carried
  <1>9. Quiet
    BY <1>1, <1>2, <1>6, <1>8, StateIsQuiet DEF Unwindowed
  <1> QED
    BY <1>2, <1>3, <1>7, <1>8, <1>9, HeadFieldSays DEF HeadModes

\* The next part of the header comes, and the field is in the check value.
LEMMA PartSays ==
  ASSUME NEW r, NEW w, Holds(r, w), ReadsField, Here.wrong = FALSE, Follows(r),
         state.mode \in HeadModes, state.mode # "HCRC",
         call.at = "inflate",
         NEW k \in 1 .. 6, NEW s, DOMAIN s = StateFields, Carried(s, state),
         s.check = state.check, s.total = state.total, s.dmax = state.dmax,
         state' = From(k, Crc(s, Here.says)),
         Carried(state', state) => Quiet
  PROVE  TextOK(r, w)'
  <1>1. PICK t : t = Crc(s, Here.says)
    OBVIOUS
  <1>2. /\ DOMAIN t = StateFields /\ t.flags = s.flags /\ t.total = state.total
        /\ t.dmax = state.dmax /\ Carried(t, s)
        /\ t.check = IF "HCRC" \in s.flags THEN Append(state.check, Here.says) ELSE state.check
    BY <1>1, CrcSays
  <1>3. /\ state'.flags = t.flags /\ state'.total = t.total /\ state'.dmax = t.dmax
        /\ Carried(state', t) /\ state'.mode \in HeadModes \cup {"TYPE"}
        /\ state'.check = IF state'.mode = "TYPE" THEN <<>> ELSE t.check
    BY <1>1, <1>2, FromSays
  <1>4. Carried(state', state) /\ state'.wrap = state.wrap
    BY <1>2, <1>3 DEF Carried
  <1>5. Quiet
    BY <1>4
  <1>6. state'.check = IF state'.mode = "TYPE" THEN <<>>
                       ELSE IF "HCRC" \in state'.flags THEN Append(state.check, Here.says)
                       ELSE state.check
    BY <1>2, <1>3
  <1>7. state'.total = state.total /\ state'.dmax = state.dmax
    BY <1>2, <1>3
  <1> QED
    BY <1>3, <1>4, <1>5, <1>6, <1>7, HeadFieldSays

\* Its operating system.
LEMMA ReadOsSays ==
  ASSUME NEW r, NEW w, Holds(r, w), ReadOs
  PROVE  TextOK(r, w)'
  <1>1. Rest /\ Synced(r) /\ IsReading(stream, r) /\ DOMAIN state = StateFields /\ Reads("OS")
        /\ call.at = "inflate" /\ Becomes(From(1, Crc(InitBits(state), Here.says)))
    BY InCall DEF Rest, Records, ReadOs, Reads, In
  <1>2. state.mode = "OS" /\ ReadsField /\ Here.wrong = FALSE
    BY <1>1, WholeField
  <1>3. Follows(r)
    BY <1>1, ReadOsKeeps
  <1>4. PICK s : s = InitBits(state)
    OBVIOUS
  <1>5. /\ DOMAIN s = StateFields /\ Carried(s, state) /\ s.check = state.check
        /\ s.total = state.total /\ s.dmax = state.dmax
    BY <1>1, <1>4 DEF StateFields, Carried, InitBits
  <1>6. state' = From(1, Crc(s, Here.says)) /\ UNCHANGED <<stream, strm, inflater, call>>
    BY <1>1, <1>4 DEF Becomes
  <1>7. Carried(state', state) => Quiet
    BY <1>1, <1>2, <1>6, StateIsQuiet DEF Unwindowed
  <1>8. 1 \in 1 .. 6 /\ state.mode \in HeadModes /\ state.mode # "HCRC"
    BY <1>2 DEF HeadModes
  <1> QED
    BY <1>1, <1>2, <1>3, <1>5, <1>6, <1>7, <1>8, PartSays

\* The length of its extra field, if there is one.
LEMMA ReadExLenSays ==
  ASSUME NEW r, NEW w, Holds(r, w), ReadExLen
  PROVE  TextOK(r, w)'
  <1>1. Rest /\ Synced(r) /\ IsReading(stream, r) /\ DOMAIN state = StateFields /\ Reads("EXLEN")
        /\ call.at = "inflate"
        /\ Becomes(From(2, Crc([InitBits(state) EXCEPT !.length = Here.says], Here.says)))
    BY InCall DEF Rest, Records, ReadExLen, Reads, In
  <1>2. state.mode = "EXLEN" /\ ReadsField /\ Here.wrong = FALSE
    BY <1>1, WholeField
  <1>3. Follows(r)
    BY <1>1, ReadExLenKeeps
  <1>4. PICK s : s = [InitBits(state) EXCEPT !.length = Here.says]
    OBVIOUS
  <1>5. /\ DOMAIN s = StateFields /\ Carried(s, state) /\ s.check = state.check
        /\ s.total = state.total /\ s.dmax = state.dmax
    BY <1>1, <1>4 DEF StateFields, Carried, InitBits
  <1>6. state' = From(2, Crc(s, Here.says)) /\ UNCHANGED <<stream, strm, inflater, call>>
    BY <1>1, <1>4 DEF Becomes
  <1>7. Carried(state', state) => Quiet
    BY <1>1, <1>2, <1>6, StateIsQuiet DEF Unwindowed
  <1>8. 2 \in 1 .. 6 /\ state.mode \in HeadModes /\ state.mode # "HCRC"
    BY <1>2 DEF HeadModes
  <1> QED
    BY <1>1, <1>2, <1>3, <1>5, <1>6, <1>7, <1>8, PartSays

\* The byte of a part of the header.
LEMMA HeadByteSays ==
  ASSUME NEW r, NEW w, Holds(r, w), ReadsField, Here.wrong = FALSE, Follows(r),
         call.at = "inflate", strm.avail_in > 0, state.mode \in {"EXTRA", "NAME", "COMMENT"},
         strm' = Taken(1), UNCHANGED <<stream, inflater, call>>,
         NEW part, NEW length,
         state' = HeadByte(part) \/ state' = [HeadByte(part) EXCEPT !.length = length]
  PROVE  TextOK(r, w)'
  <1>1. Rest /\ Buffers /\ DOMAIN state = StateFields
    BY InCall DEF Rest, Records
  <1>2. PICK s : s = [state EXCEPT !.head[part] = Append(@, Here.says)]
    OBVIOUS
  <1>3. /\ DOMAIN s = StateFields /\ Carried(s, state) /\ s.mode = state.mode
        /\ s.flags = state.flags /\ s.check = state.check
        /\ s.total = state.total /\ s.dmax = state.dmax
    BY <1>1, <1>2 DEF StateFields, Carried
  <1>4. PICK t : t = Crc(s, Here.says)
    OBVIOUS
  <1>5. /\ DOMAIN t = StateFields /\ t.flags = s.flags /\ t.total = s.total /\ t.mode = s.mode
        /\ t.dmax = s.dmax /\ Carried(t, s)
        /\ t.check = IF "HCRC" \in s.flags THEN Append(s.check, Here.says) ELSE s.check
    BY <1>3, <1>4, CrcSays
  <1>6. state' = t \/ state' = [t EXCEPT !.length = length]
    <2>1. HeadByte(part) = t
      BY <1>2, <1>4 DEF HeadByte
    <2> QED
      BY <2>1
  <1>7. /\ state'.flags = t.flags /\ state'.total = t.total /\ state'.mode = t.mode
        /\ state'.dmax = t.dmax /\ state'.check = t.check /\ Carried(state', t)
    BY <1>5, <1>6 DEF StateFields, Carried
  <1>8. Carried(state', state) /\ state'.wrap = state.wrap
    BY <1>3, <1>5, <1>7 DEF Carried
  <1>9. Quiet
    BY <1>1, <1>8, ByteIsQuiet DEF Unwindowed
  <1>10. /\ state'.mode = state.mode /\ state'.total = state.total /\ state'.dmax = state.dmax
         /\ state'.check = IF "HCRC" \in state'.flags THEN Append(state.check, Here.says)
                           ELSE state.check
    BY <1>3, <1>5, <1>7
  <1>11. state.mode \in HeadModes /\ state.mode # "HCRC" /\ state.mode # "TYPE"
    BY DEF HeadModes
  <1> QED
    BY <1>8, <1>9, <1>10, <1>11, HeadFieldSays

\* A mode that reads no field, where the decoder stands.
LEMMA PassHere ==
  ASSUME NEW r, NEW w, Holds(r, w), call.at = "inflate", state.mode # "BAD"
  PROVE  /\ Rest /\ Synced(r) /\ IsReading(stream, r) /\ Right /\ Buffers /\ Limits /\ Running
         /\ DOMAIN state = StateFields
         /\ \E i \in 1 .. Len(stream.fields) + 1 :
              /\ AtField(r, w, i) /\ Tells(w[i]) /\ ChecksSay(w[i])
              /\ Total \in Nat /\ Earlier \in Nat /\ Earlier <= Total
  <1>1. /\ Rest /\ Synced(r) /\ IsReading(stream, r) /\ Right /\ Buffers /\ Limits /\ Running
        /\ DOMAIN state = StateFields /\ Goes(r, w)
    BY InCall DEF Running, Rest, Records
  <1>2. PICK i \in 1 .. Len(stream.fields) + 1 : AtField(r, w, i)
    BY <1>1 DEF Goes
  <1>3. Total \in Nat /\ Earlier \in Nat /\ Produced(strm) \in Nat
        /\ Earlier + Produced(strm) = Total
    BY <1>1, OutputCounts
  <1> QED
    BY <1>1, <1>2, <1>3 DEF AtField

\* One that changes neither the check value nor what was said of a match, and one that
\* reads a field that has nothing to do with them.
Pausing == {"LIT", "MATCH", "LENEXT", "DIST", "DISTEXT"}

\* A pass that changes the mode alone, outside of the header and of a match.
LEMMA DullPassSays ==
  ASSUME NEW r, NEW w, Holds(r, w), Quiet, Limits', ~ReadsField, Follows(r),
         call.at = "inflate", state.mode \notin HeadModes \cup Pausing \cup {"BAD"},
         state'.mode = "BAD" => stream.fault = "broken",
         state'.mode \notin HeadModes \cup Pausing \cup {"HEAD", "LENGTH"},
         state'.mode = "CHECK" => state.wrap # 0,
         state'.wrap = state.wrap, state'.total = state.total, state'.check = state.check
  PROVE  TextOK(r, w)'
  <1>1. PICK i \in 1 .. Len(stream.fields) + 1 :
          /\ AtField(r, w, i) /\ Tells(w[i]) /\ ChecksSay(w[i])
          /\ Total \in Nat /\ Earlier \in Nat /\ Earlier <= Total
    BY PassHere
  <1>2. Total' = Total /\ Earlier' = Earlier /\ stream' = stream
    BY QuietFrame
  <1>3. w[i].sound /\ w[i].n = Total
    BY <1>1 DEF Tells, Matching, Pausing
  <1>4. Tells(w[i])'
    BY <1>2, <1>3 DEF Tells, Matching, Pausing
  <1>5. ChecksSay(w[i])'
    BY <1>1, <1>2, ChecksStay
  <1> QED
    BY <1>1, <1>4, <1>5, PassSays

\* A field that changes the mode alone, outside of the header and of a match.
LEMMA DullFieldSays ==
  ASSUME NEW r, NEW w, Holds(r, w), Quiet, Limits', ReadsField, Follows(r), Here.wrong = FALSE,
         call.at = "inflate", state.mode # "STORED" \/ Width % 8 = 0,
         state.mode \in {"DICTID", "TYPE", "STORED", "TABLE", "LENLENS", "CODELENS"},
         state'.mode = "BAD" => stream.fault = "broken",
         state'.mode \notin HeadModes \cup Pausing \cup {"HEAD", "CHECK", "LENGTH"},
         state'.wrap = state.wrap, state'.total = state.total, state'.check = state.check
  PROVE  TextOK(r, w)'
  <1>1. PICK i : /\ Ready(r, i) /\ \A j : Ready(r, j) => j = i
                 /\ IsWritten(r, w, i) /\ Tells(w[i]) /\ ChecksSay(w[i])
                 /\ Total \in Nat /\ Earlier \in Nat /\ Earlier <= Total
    BY FieldHere
  <1>2. Total' = Total /\ Earlier' = Earlier /\ stream' = stream
    BY QuietFrame
  <1>3. Tells(w[i + 1])'
    <2>1. /\ state.mode \notin Tokens \cup {"COPY", "LIT", "MATCH"}
          /\ state.mode # "HCRC" /\ state.mode # "CHECK" /\ state.mode # "LENGTH"
          /\ state'.mode \notin {"LIT", "MATCH", "LENEXT", "DIST", "DISTEXT"}
      BY DEF Tokens, Pausing
    <2> QED
      BY <1>1, <1>2, <2>1, DullTells
  <1>4. ChecksSay(w[i + 1])'
    <2>1. state.mode \notin HeadModes /\ state'.mode # "CHECK"
      BY DEF HeadModes
    <2> QED
      BY <1>1, <1>2, <2>1, ChecksStay
  <1> QED
    BY <1>1, <1>3, <1>4, FieldSays

\* Bytes of the header that are counted and not looked at.
LEMMA SkipHeadSays ==
  ASSUME NEW r, NEW w, Holds(r, w), SkipHead
  PROVE  TextOK(r, w)'
  <1>1. /\ Rest /\ Synced(r) /\ Limits /\ DOMAIN state = StateFields
        /\ call.at = "inflate" /\ state.mode = "HEAD" /\ state.wrap = 0 /\ ~ReadsField
    BY InCall DEF SkipHead, In, ReadsField, Rest, Records
  <1>2. Follows(r)
    BY <1>1, SkipHeadKeeps
  <1>3. state' = [state EXCEPT !.mode = "TYPE"] /\ UNCHANGED <<stream, strm, inflater, call>>
    BY DEF SkipHead, Becomes
  <1>4. /\ state'.mode = "TYPE" /\ state'.wrap = state.wrap /\ state'.total = state.total
        /\ state'.check = state.check /\ state'.dmax = state.dmax /\ Carried(state', state)
    BY <1>1, <1>3 DEF StateFields, Carried
  <1>5. Quiet /\ Limits'
    BY <1>1, <1>3, <1>4, StateIsQuiet DEF Unwindowed, Limits
  <1>6. state.mode \notin HeadModes \cup Pausing \cup {"BAD"}
        /\ state'.mode \notin HeadModes \cup Pausing \cup {"HEAD", "LENGTH", "CHECK", "BAD"}
    BY <1>1, <1>4 DEF HeadModes, Pausing
  <1> QED
    BY <1>1, <1>2, <1>4, <1>5, <1>6, DullPassSays

\* The id of a dictionary.
LEMMA ReadDictIdSays ==
  ASSUME NEW r, NEW w, Holds(r, w), ReadDictId
  PROVE  TextOK(r, w)'
  <1>1. Rest /\ Synced(r) /\ IsReading(stream, r) /\ Limits /\ DOMAIN state = StateFields
        /\ Reads("DICTID") /\ call.at = "inflate" /\ Becomes([InitBits(state) EXCEPT !.mode = "DICT"])
    BY InCall DEF Rest, Records, ReadDictId, Reads, In
  <1>2. state.mode = "DICTID" /\ ReadsField /\ Here.wrong = FALSE
    BY <1>1, WholeField
  <1>3. Follows(r)
    BY <1>1, ReadDictIdKeeps
  <1>4. state' = [InitBits(state) EXCEPT !.mode = "DICT"] /\ UNCHANGED <<stream, strm, inflater, call>>
    BY <1>1 DEF Becomes
  <1>5. /\ state'.mode = "DICT" /\ state'.wrap = state.wrap /\ state'.total = state.total
        /\ state'.check = state.check /\ state'.dmax = state.dmax /\ Carried(state', state)
    BY <1>1, <1>4 DEF StateFields, Carried, InitBits
  <1>6. Quiet /\ Limits'
    BY <1>1, <1>2, <1>4, <1>5, StateIsQuiet DEF Unwindowed, Limits
  <1>7. state'.mode \notin HeadModes \cup Pausing \cup {"HEAD", "LENGTH", "CHECK", "BAD"}
    BY <1>5 DEF HeadModes, Pausing
  <1> QED
    BY <1>1, <1>2, <1>3, <1>5, <1>6, <1>7, DullFieldSays

\* The check value of the header, against that of the header's bytes.
LEMMA ReadHCrcSays ==
  ASSUME NEW r, NEW w, Holds(r, w), ReadHCrc
  PROVE  TextOK(r, w)'
  <1>1. Reads("HCRC") /\ call.at = "inflate"
        /\ Rest /\ Synced(r) /\ IsReading(stream, r) /\ DOMAIN state = StateFields
        /\ Becomes(IF Here.says # state.check THEN Bad(state) ELSE From(6, InitBits(state)))
    BY InCall DEF ReadHCrc, Reads, In, Rest, Records
  <1>2. state.mode = "HCRC" /\ ReadsField /\ Here.wrong = FALSE
    BY <1>1, WholeField
  <1>3. Follows(r)
    BY <1>1, ReadHCrcKeeps
  <1>4. CASE Here.says # state.check
    <2>1. PICK i : /\ Ready(r, i) /\ \A j : Ready(r, j) => j = i
                   /\ IsWritten(r, w, i) /\ Tells(w[i]) /\ ChecksSay(w[i])
                   /\ Total \in Nat /\ Earlier \in Nat /\ Earlier <= Total
      BY <1>1, <1>2, FieldHere
    <2>2. state.check = w[i].crc
      BY <1>2, <2>1 DEF ChecksSay, HeadModes
    <2>3. ~IsSound(stream, w[i], Here)
      BY <1>2, <1>4, <2>1, <2>2 DEF IsSound, IsWritten
    <2> QED
      BY <1>1, <1>2, <1>3, <1>4, <2>1, <2>3, UnsoundIsBroken, RefusedIsBroken
  <1>5. CASE Here.says = state.check
    <2>1. PICK s : s = InitBits(state) /\ Becomes(From(6, s))
      BY <1>1, <1>5
    <2>2. /\ DOMAIN s = StateFields /\ Carried(s, state) /\ s.check = state.check
          /\ s.total = state.total /\ s.dmax = state.dmax
      BY <1>1, <2>1 DEF StateFields, Carried, InitBits
    <2>3. state' = From(6, s) /\ UNCHANGED <<stream, strm, inflater, call>> /\ 6 \in 1 .. 6
      BY <2>1 DEF Becomes
    <2>4. /\ state'.flags = s.flags /\ state'.total = s.total /\ state'.dmax = s.dmax
          /\ Carried(state', s)
          /\ state'.check = IF state'.mode = "TYPE" THEN <<>> ELSE s.check
      BY <2>2, <2>3, FromSays
    <2>5. state'.mode = "TYPE"
      BY <2>2, <2>3, FromFacts, NextPart
    <2>6. Carried(state', state) /\ state'.wrap = state.wrap
      BY <2>2, <2>4 DEF Carried
    <2>7. Quiet
      BY <1>1, <1>2, <2>3, <2>6, StateIsQuiet DEF Unwindowed
    <2>8. state.mode \in HeadModes
      BY <1>2 DEF HeadModes
    <2> QED
      BY <1>2, <1>3, <1>5, <2>2, <2>4, <2>5, <2>6, <2>7, <2>8, HeadFieldSays
  <1> QED
    BY <1>4, <1>5

\* EXTRA, NAME and COMMENT.
LEMMA ReadExtraSays ==
  ASSUME NEW r, NEW w, Holds(r, w), ReadExtra
  PROVE  TextOK(r, w)'
  <1>1. /\ call.at = "inflate" /\ state.mode = "EXTRA" /\ state.mode # "BAD" /\ state.mode # "STORED"
        /\ Rest /\ Synced(r) /\ IsReading(stream, r) /\ Limits /\ DOMAIN state = StateFields
    BY InCall DEF ReadExtra, In, Rest, Records
  <1>2. Follows(r)
    BY <1>1, ReadExtraKeeps
  <1>3. CASE state.length = 0 /\ Becomes(From(3, state))
    <2>1. PICK i \in 1 .. Len(stream.fields) + 1 :
            /\ AtField(r, w, i) /\ Tells(w[i]) /\ ChecksSay(w[i])
            /\ Total \in Nat /\ Earlier \in Nat /\ Earlier <= Total
      BY <1>1, PassHere
    <2>2. state' = From(3, state) /\ UNCHANGED <<stream, strm, inflater, call>> /\ 3 \in 1 .. 6
      BY <1>3 DEF Becomes
    <2>3. /\ state'.flags = state.flags /\ state'.total = state.total /\ state'.dmax = state.dmax
          /\ Carried(state', state) /\ state'.mode \in HeadModes \cup {"TYPE"}
          /\ state'.check = IF state'.mode = "TYPE" THEN <<>> ELSE state.check
      BY <1>1, <2>2, FromSays
    <2>4. Quiet /\ ~ReadsField /\ state'.wrap = state.wrap
      BY <1>1, <1>3, <2>2, <2>3, StateIsQuiet DEF Unwindowed, ReadsField, Carried
    <2>5. Total' = Total /\ Earlier' = Earlier /\ stream' = stream
      BY <2>4, QuietFrame
    <2>6. Tells(w[i])'
      <3>1. w[i].sound /\ w[i].n = Total
        BY <1>1, <2>1 DEF Tells, Matching
      <3> QED
        BY <2>3, <2>5, <3>1 DEF Tells, Matching, HeadModes
    <2>7. ChecksSay(w[i])'
      <3>1. /\ state.wrap # 0 /\ state.total = Earlier /\ Total = 0 /\ Earlier = 0
            /\ state.check = w[i].crc /\ IsSequence(w[i].crc)
        BY <1>1, <2>1 DEF ChecksSay, HeadModes
      <3>2. CASE state'.mode = "TYPE"
        <4>1. state'.check = SubSeq(stream.text, 1, Earlier)
          BY <2>3, <3>1, <3>2, NoText
        <4> QED
          BY <2>3, <2>4, <2>5, <3>1, <3>2, <4>1 DEF ChecksSay, HeadModes
      <3>3. CASE state'.mode \in HeadModes
        <4>1. state'.mode # "TYPE" /\ state'.mode # "LENGTH"
          BY <3>3 DEF HeadModes
        <4> QED
          BY <2>3, <2>4, <2>5, <3>1, <3>3, <4>1 DEF ChecksSay
      <3> QED
        BY <2>3, <3>2, <3>3
    <2>8. Limits' /\ state'.mode # "BAD"
      BY <1>1, <2>3 DEF Limits, HeadModes
    <2> QED
      BY <1>2, <2>1, <2>4, <2>6, <2>7, <2>8, PassSays
  <1>4. CASE /\ state.length > 0 /\ strm.avail_in > 0
             /\ state' = [HeadByte("extra") EXCEPT !.length = @ - 1]
             /\ strm' = Taken(1) /\ UNCHANGED <<stream, inflater, call>>
    <2>1. ReadsField
      BY <1>1, <1>4 DEF ReadsField, Rest, Room
    <2>2. PICK i : Ready(r, i)
      BY <1>1, <2>1, FieldHere
    <2>3. Here.wrong = FALSE
      BY <1>1, <2>2 DEF Ready, Refuses
    <2>4. PICK length : state' = [HeadByte("extra") EXCEPT !.length = length]
      BY <1>4
    <2> QED
      BY <1>1, <1>2, <1>4, <2>1, <2>3, <2>4, HeadByteSays
  <1> QED
    BY <1>3, <1>4 DEF ReadExtra

\* The file name and the comment, up to the byte 0 at their end.
LEMMA ReadNameSays ==
  ASSUME NEW r, NEW w, Holds(r, w), NEW mode, NEW part, NEW k \in 1 .. 6,
         (mode = "NAME" /\ k = 4) \/ (mode = "COMMENT" /\ k = 5), ReadName(mode, part, k)
  PROVE  TextOK(r, w)'
  <1>1. /\ call.at = "inflate" /\ state.mode = mode /\ state.mode # "STORED"
        /\ Rest /\ Synced(r) /\ IsReading(stream, r) /\ Buffers /\ DOMAIN state = StateFields
        /\ strm.avail_in > 0
        /\ state' = IF Here.says = 0 THEN From(k, Crc(state, 0)) ELSE HeadByte(part)
        /\ strm' = Taken(1) /\ UNCHANGED <<stream, inflater, call>>
    BY InCall DEF ReadName, In, Rest, Records
  <1>2. Follows(r)
    BY <1>1, ReadNameKeeps
  <1>3. ReadsField
    BY <1>1 DEF ReadsField
  <1>4. PICK i : Ready(r, i)
    BY <1>1, <1>3, FieldHere
  <1>5. Here.wrong = FALSE
    BY <1>1, <1>4 DEF Ready, Refuses
  <1>6. CASE Here.says = 0
    <2>1. state' = From(k, Crc(state, Here.says))
      BY <1>1, <1>6
    <2>2. Carried(state', state) => Quiet
      BY <1>1, ByteIsQuiet DEF Unwindowed
    <2>3. Carried(state, state)
      BY <1>1 DEF Carried
    <2>4. state.mode \in HeadModes /\ state.mode # "HCRC"
      BY <1>1 DEF HeadModes
    <2> QED
      BY <1>1, <1>2, <1>3, <1>5, <2>1, <2>2, <2>3, <2>4, PartSays
  <1>7. CASE Here.says # 0
    <2>1. state' = HeadByte(part)
      BY <1>1, <1>7
    <2> QED
      BY <1>1, <1>2, <1>3, <1>5, <2>1, HeadByteSays
  <1> QED
    BY <1>6, <1>7
-----------------------------------------------------------------------------
(***************************************************************************)
(* What comes before the tokens of a block.                                *)
(***************************************************************************)
\* The decoder finds an error where the reader does.
LEMMA ReaderIsBroken ==
  ASSUME NEW r, NEW w, NEW i, IsWritten(r, w, i), state.mode \notin Ended,
         AfterField(r[i], Here).mode = "BAD"
  PROVE  stream.fault = "broken"
  <1>1. PICK v : v = AfterField(r[i], Here)
    OBVIOUS
  <1>2. Settled(v) = v
    BY <1>1, SettledIs
  <1>3. r[i + 1] = v
    BY <1>1, <1>2 DEF IsWritten, After
  <1> QED
    BY <1>1, <1>3 DEF IsWritten

\* A reader that has come to an error reads a broken stream.
LEMMA PlaceIsBroken ==
  ASSUME Rest, NEW r, NEW w, Known(r, w), NEW i \in 1 .. Len(stream.fields) + 1, r[i].mode = "BAD"
  PROVE  stream.fault = "broken"
  BY DEF Known, IsFault

\* The type of a block.
LEMMA ReadTypeSays ==
  ASSUME NEW r, NEW w, Holds(r, w), ReadType
  PROVE  TextOK(r, w)'
  <1>1. /\ call.at = "inflate" /\ state.mode = "TYPE" /\ Reads("TYPE")
        /\ Rest /\ Synced(r) /\ IsReading(stream, r) /\ Limits /\ DOMAIN state = StateFields
    BY InCall DEF ReadType, Reads, In, Rest, Records
  <1>2. Follows(r)
    BY <1>1, ReadTypeKeeps
  <1>3. CASE /\ state.last
             /\ Becomes([state EXCEPT !.hold = ToByte,
                                      !.mode = IF state.wrap = 0 THEN "DONE" ELSE "CHECK"])
    <2>1. PICK mode : mode = IF state.wrap = 0 THEN "DONE" ELSE "CHECK"
      OBVIOUS
    <2>2. state' = [state EXCEPT !.hold = ToByte, !.mode = mode]
          /\ UNCHANGED <<stream, strm, inflater, call>>
      BY <1>3, <2>1 DEF Becomes
    <2>3. /\ state'.mode = mode /\ state'.wrap = state.wrap /\ state'.total = state.total
          /\ state'.check = state.check /\ state'.dmax = state.dmax /\ Carried(state', state)
      BY <1>1, <2>2 DEF StateFields, Carried
    <2>4. Quiet /\ Limits' /\ ~ReadsField
      BY <1>1, <1>3, <2>2, <2>3, StateIsQuiet DEF Unwindowed, Limits, ReadsField
    <2>5. /\ state.mode \notin HeadModes \cup Pausing \cup {"BAD"}
          /\ state'.mode \notin HeadModes \cup Pausing \cup {"HEAD", "LENGTH", "BAD"}
          /\ state'.mode = "CHECK" => state.wrap # 0
      BY <1>1, <2>1, <2>3 DEF HeadModes, Pausing
    <2> QED
      BY <1>1, <1>2, <2>3, <2>4, <2>5, DullPassSays
  <1>4. CASE /\ ~state.last
             /\ Becomes([Drop(state) EXCEPT
                  !.last = Here.says.last,
                  !.mode = CASE Here.says.type = "stored" -> "STORED"
                             [] Here.says.type = "fixed" -> "LEN"
                             [] Here.says.type = "dynamic" -> "TABLE"
                             [] Here.says.type = "none" -> "BAD"])
    <2>1. ReadsField /\ state.mode # "STORED"
      BY <1>1, <1>4 DEF ReadsField
    <2>2. PICK i : /\ Ready(r, i) /\ \A j : Ready(r, j) => j = i
                   /\ IsWritten(r, w, i) /\ Tells(w[i]) /\ ChecksSay(w[i])
                   /\ Total \in Nat /\ Earlier \in Nat /\ Earlier <= Total
      BY <1>1, <2>1, FieldHere
    <2>3. /\ Here.wrong = FALSE /\ r[i].mode = "TYPE"
          /\ Here.says.type \in {"stored", "fixed", "dynamic", "none"}
      BY <1>1, <2>2 DEF Ready, Refuses, IsSaid
    <2>4. PICK mode : mode = BlockMode(Here.says.type)
      OBVIOUS
    <2>5. state' = [Drop(state) EXCEPT !.last = Here.says.last, !.mode = mode]
          /\ UNCHANGED <<stream, strm, inflater, call>>
      BY <1>4, <2>4 DEF Becomes, BlockMode
    <2>6. /\ state'.mode = mode /\ state'.wrap = state.wrap /\ state'.total = state.total
          /\ state'.check = state.check /\ state'.dmax = state.dmax /\ Carried(state', state)
      BY <1>1, <2>5 DEF StateFields, Carried, Drop
    <2>7. mode \in {"STORED", "LEN", "TABLE", "BAD"}
      BY <2>3, <2>4 DEF BlockMode
    <2>8. Quiet /\ Limits'
      BY <1>1, <2>5, <2>6, StateIsQuiet DEF Unwindowed, Limits
    <2>9. ASSUME mode = "BAD" PROVE stream.fault = "broken"
      <3>1. AfterField(r[i], Here) = Step_([r[i] EXCEPT !.last = Here.says.last], mode)
        BY <2>3, <2>4, AfterBlockIs
      <3>2. AfterField(r[i], Here).mode = "BAD"
        BY <2>9, <3>1 DEF Step_, Reader
      <3>3. state.mode \notin Ended
        BY <1>1 DEF Ended
      <3> QED
        BY <2>2, <3>2, <3>3, ReaderIsBroken
    <2>10. state'.mode \notin HeadModes \cup Pausing \cup {"HEAD", "CHECK", "LENGTH"}
      BY <2>6, <2>7 DEF HeadModes, Pausing
    <2> QED
      BY <1>1, <1>2, <2>1, <2>3, <2>6, <2>8, <2>9, <2>10, DullFieldSays
  <1> QED
    BY <1>3, <1>4 DEF ReadType

\* The length of a stored block and its complement.
LEMMA ReadStoredSays ==
  ASSUME NEW r, NEW w, Holds(r, w), ReadStored
  PROVE  TextOK(r, w)'
  <1>1. /\ Reads("STORED") /\ call.at = "inflate"
        /\ Rest /\ Synced(r) /\ IsReading(stream, r) /\ Limits /\ DOMAIN state = StateFields
    BY InCall DEF ReadStored, Reads, In, Rest, Records
  <1>2. Follows(r)
    BY <1>1, ReadStoredKeeps
  <1>3. state.mode = "STORED" /\ ReadsField
    BY <1>1, WholeField
  <1>4. Width % 8 = 0
    BY <1>1 DEF Reads, StoredBegins, Width
  <1>5. CASE Here.wrong /\ Becomes(Bad(state))
    <2>1. PICK i : /\ Ready(r, i) /\ \A j : Ready(r, j) => j = i
                   /\ IsWritten(r, w, i) /\ Tells(w[i]) /\ ChecksSay(w[i])
                   /\ Total \in Nat /\ Earlier \in Nat /\ Earlier <= Total
      BY <1>1, <1>3, <1>4, FieldHere
    <2>2. ~IsSound(stream, w[i], Here)
      BY <1>5 DEF IsSound
    <2> QED
      BY <1>1, <1>2, <1>3, <1>5, <2>1, <2>2, UnsoundIsBroken, RefusedIsBroken
  <1>6. CASE ~Here.wrong /\ Becomes([InitBits(state) EXCEPT !.mode = "COPY", !.length = Here.says])
    <2>1. PICK length : state' = [InitBits(state) EXCEPT !.mode = "COPY", !.length = length]
                        /\ UNCHANGED <<stream, strm, inflater, call>>
      BY <1>6 DEF Becomes
    <2>2. /\ state'.mode = "COPY" /\ state'.wrap = state.wrap /\ state'.total = state.total
          /\ state'.check = state.check /\ state'.dmax = state.dmax /\ Carried(state', state)
      BY <1>1, <2>1 DEF StateFields, Carried, InitBits
    <2>3. Quiet /\ Limits'
      BY <1>1, <1>3, <2>1, <2>2, StateIsQuiet DEF Unwindowed, Limits
    <2>4. Here.wrong = FALSE
      BY <1>1, <1>6, WholeField
    <2>5. state'.mode \notin HeadModes \cup Pausing \cup {"HEAD", "CHECK", "LENGTH", "BAD"}
      BY <2>2 DEF HeadModes, Pausing
    <2> QED
      BY <1>1, <1>2, <1>3, <1>4, <2>2, <2>3, <2>4, <2>5, DullFieldSays
  <1> QED
    BY <1>5, <1>6 DEF ReadStored

\* The sizes of the code tables of a dynamic block.
LEMMA ReadTableSays ==
  ASSUME NEW r, NEW w, Holds(r, w), ReadTable
  PROVE  TextOK(r, w)'
  <1>1. /\ Reads("TABLE") /\ call.at = "inflate" /\ state.mode = "TABLE" /\ state.mode # "STORED"
        /\ Rest /\ Synced(r) /\ IsReading(stream, r) /\ Limits /\ DOMAIN state = StateFields
        /\ ReadsField
    BY InCall DEF ReadTable, Reads, In, Rest, Records, ReadsField
  <1>2. Follows(r)
    BY <1>1, ReadTableKeeps
  <1>3. PICK i : /\ Ready(r, i) /\ \A j : Ready(r, j) => j = i
                 /\ IsWritten(r, w, i) /\ Tells(w[i]) /\ ChecksSay(w[i])
                 /\ Total \in Nat /\ Earlier \in Nat /\ Earlier <= Total
    BY <1>1, FieldHere
  <1>4. /\ Here.wrong = FALSE /\ r[i].mode = "TABLE" /\ Here.says.symbols \in BOOLEAN
    BY <1>1, <1>3 DEF Ready, Refuses, IsSaid
  <1>5. PICK mode, table : /\ mode = IF Here.says.symbols THEN "LENLENS" ELSE "BAD"
                           /\ table = Here.says
    OBVIOUS
  <1>6. state' = [Drop(state) EXCEPT !.table = table, !.have = 0, !.mode = mode]
        /\ UNCHANGED <<stream, strm, inflater, call>>
    BY <1>5 DEF ReadTable, Becomes
  <1>7. /\ state'.mode = mode /\ state'.wrap = state.wrap /\ state'.total = state.total
        /\ state'.check = state.check /\ state'.dmax = state.dmax /\ Carried(state', state)
    BY <1>1, <1>6 DEF StateFields, Carried, Drop
  <1>8. Quiet /\ Limits'
    BY <1>1, <1>6, <1>7, StateIsQuiet DEF Unwindowed, Limits
  <1>9. ASSUME mode = "BAD" PROVE stream.fault = "broken"
    <2>1. ~Here.says.symbols
      BY <1>5, <1>9
    <2>2. AfterField(r[i], Here) = Step_(r[i], "BAD")
      BY <1>4, <2>1, AfterBlockIs DEF AfterTable
    <2>3. AfterField(r[i], Here).mode = "BAD"
      BY <2>2 DEF Step_, Reader
    <2>4. state.mode \notin Ended
      BY <1>1 DEF Ended
    <2> QED
      BY <1>3, <2>3, <2>4, ReaderIsBroken
  <1>10. state'.mode \notin HeadModes \cup Pausing \cup {"HEAD", "CHECK", "LENGTH"}
    BY <1>5, <1>7 DEF HeadModes, Pausing
  <1> QED
    BY <1>1, <1>2, <1>4, <1>7, <1>8, <1>9, <1>10, DullFieldSays

\* The codes of a dynamic block.
LEMMA ReadLenLensSays ==
  ASSUME NEW r, NEW w, Holds(r, w), ReadLenLens
  PROVE  TextOK(r, w)'
  <1>1. /\ call.at = "inflate" /\ state.mode = "LENLENS" /\ state.mode # "STORED"
        /\ state.mode # "BAD"
        /\ Rest /\ Synced(r) /\ IsReading(stream, r) /\ Limits /\ DOMAIN state = StateFields
        /\ Known(r, w)
    BY InCall DEF ReadLenLens, Reads, In, Rest, Records
  <1>2. Follows(r)
    BY <1>1, ReadLenLensKeeps
  <1>3. state.have \in 0 .. state.table.ncode /\ state.table.ncode \in Nat
    BY <1>1 DEF Rest, TableOK
  <1>4. CASE state.have < state.table.ncode /\ Becomes([Drop(state) EXCEPT !.have = @ + 1])
    <2>1. ReadsField
      BY <1>1, <1>3, <1>4 DEF ReadsField
    <2>2. PICK have : state' = [Drop(state) EXCEPT !.have = have]
                      /\ UNCHANGED <<stream, strm, inflater, call>>
      BY <1>4 DEF Becomes
    <2>3. /\ state'.mode = "LENLENS" /\ state'.wrap = state.wrap /\ state'.total = state.total
          /\ state'.check = state.check /\ state'.dmax = state.dmax /\ Carried(state', state)
      BY <1>1, <2>2 DEF StateFields, Carried, Drop
    <2>4. Quiet /\ Limits'
      BY <1>1, <2>2, <2>3, StateIsQuiet DEF Unwindowed, Limits
    <2>5. PICK i : Ready(r, i)
      BY <1>1, <2>1, FieldHere
    <2>6. Here.wrong = FALSE
      BY <1>1, <2>5 DEF Ready, Refuses
    <2>7. state'.mode \notin HeadModes \cup Pausing \cup {"HEAD", "CHECK", "LENGTH", "BAD"}
      BY <2>3 DEF HeadModes, Pausing
    <2> QED
      BY <1>1, <1>2, <2>1, <2>3, <2>4, <2>6, <2>7, DullFieldSays
  <1>5. CASE /\ state.have = state.table.ncode
             /\ Becomes([state EXCEPT !.have = 0, !.mode = IF state.table.codes THEN "CODELENS" ELSE "BAD"])
    <2>1. PICK mode : mode = IF state.table.codes THEN "CODELENS" ELSE "BAD"
      OBVIOUS
    <2>2. state' = [state EXCEPT !.have = 0, !.mode = mode]
          /\ UNCHANGED <<stream, strm, inflater, call>>
      BY <1>5, <2>1 DEF Becomes
    <2>3. /\ state'.mode = mode /\ state'.wrap = state.wrap /\ state'.total = state.total
          /\ state'.check = state.check /\ state'.dmax = state.dmax /\ Carried(state', state)
      BY <1>1, <2>2 DEF StateFields, Carried
    <2>4. Quiet /\ Limits' /\ ~ReadsField
      BY <1>1, <1>5, <2>2, <2>3, StateIsQuiet DEF Unwindowed, Limits, ReadsField
    <2>5. PICK i \in 1 .. Len(stream.fields) + 1 : AtField(r, w, i)
      BY <1>1, PassHere
    <2>6. ASSUME mode = "BAD" PROVE stream.fault = "broken"
      <3>1. ~state.table.codes
        BY <2>1, <2>6
      <3>2. PICK v : v = View(state)
        OBVIOUS
      <3>3. v.mode = "LENLENS" /\ v.count = state.have /\ v.table = state.table
        BY <1>1, <3>2, ViewFacts DEF Tabled
      <3>4. Settled(v) = Step_(v, "BAD")
        BY <1>5, <3>1, <3>3 DEF Settled
      <3>5. r[i] = Step_(v, "BAD")
        BY <1>1, <2>5, <3>2, <3>4 DEF AtField, Stands
      <3>6. r[i].mode = "BAD"
        BY <3>5 DEF Step_, Reader
      <3> QED
        BY <1>1, <3>6, PlaceIsBroken
    <2>7. /\ state.mode \notin HeadModes \cup Pausing \cup {"BAD"}
          /\ state'.mode \notin HeadModes \cup Pausing \cup {"HEAD", "LENGTH"}
          /\ state'.mode # "CHECK"
      BY <1>1, <2>1, <2>3 DEF HeadModes, Pausing
    <2> QED
      BY <1>1, <1>2, <2>3, <2>4, <2>6, <2>7, DullPassSays
  <1> QED
    BY <1>4, <1>5 DEF ReadLenLens

\* The lengths of its codes.
LEMMA ReadCodeLensSays ==
  ASSUME NEW r, NEW w, Holds(r, w), ReadCodeLens
  PROVE  TextOK(r, w)'
  <1>1. /\ call.at = "inflate" /\ state.mode = "CODELENS" /\ state.mode # "STORED"
        /\ state.mode # "BAD"
        /\ Rest /\ Synced(r) /\ IsReading(stream, r) /\ Limits /\ DOMAIN state = StateFields
        /\ Known(r, w)
    BY InCall DEF ReadCodeLens, Reads, In, Rest, Records
  <1>2. Follows(r)
    BY <1>1, ReadCodeLensKeeps
  <1>3. state.have \in 0 .. state.table.lengths /\ state.table.lengths \in Nat
    BY <1>1 DEF Rest, TableOK
  <1>4. CASE state.have < state.table.lengths
    <2>1. ReadsField
      BY <1>1, <1>3, <1>4 DEF ReadsField
    <2>2. PICK i : /\ Ready(r, i) /\ \A j : Ready(r, j) => j = i
                   /\ IsWritten(r, w, i) /\ Tells(w[i]) /\ ChecksSay(w[i])
                   /\ Total \in Nat /\ Earlier \in Nat /\ Earlier <= Total
      BY <1>1, <2>1, FieldHere
    <2>3. Becomes(IF Here.wrong \/ state.have + Here.says.copy > state.table.lengths
                    THEN Bad(state) ELSE [Drop(state) EXCEPT !.have = @ + Here.says.copy])
      BY <1>3, <1>4 DEF ReadCodeLens
    <2>4. /\ r[i].mode = "CODELENS" /\ r[i].count = state.have /\ r[i].table = state.table
          /\ Here.wrong \in BOOLEAN
      BY <1>1, <2>2 DEF Ready, Tabled
    <2>5. CASE Here.wrong
      <3>1. ~IsSound(stream, w[i], Here)
        BY <2>5 DEF IsSound
      <3> QED
        BY <1>1, <1>2, <2>1, <2>2, <2>3, <2>5, <3>1, UnsoundIsBroken, RefusedIsBroken
    <2>6. CASE Here.wrong = FALSE /\ state.have + Here.says.copy > state.table.lengths
      <3>1. AfterField(r[i], Here) = AfterCodeLens(r[i], r[i].count + Here.says.copy)
        BY <2>4, <2>6, AfterBlockIs
      <3>2. AfterField(r[i], Here).mode = "BAD"
        BY <2>4, <2>6, <3>1 DEF AfterCodeLens, Step_, Reader
      <3>3. state.mode \notin Ended
        BY <1>1 DEF Ended
      <3>4. stream.fault = "broken"
        BY <2>2, <3>2, <3>3, ReaderIsBroken
      <3> QED
        BY <1>1, <1>2, <2>1, <2>2, <2>3, <2>6, <3>4, RefusedIsBroken
    <2>7. CASE Here.wrong = FALSE /\ ~(state.have + Here.says.copy > state.table.lengths)
      <3>1. PICK have : state' = [Drop(state) EXCEPT !.have = have]
                        /\ UNCHANGED <<stream, strm, inflater, call>>
        BY <2>3, <2>7 DEF Becomes
      <3>2. /\ state'.mode = "CODELENS" /\ state'.wrap = state.wrap /\ state'.total = state.total
            /\ state'.check = state.check /\ state'.dmax = state.dmax /\ Carried(state', state)
        BY <1>1, <3>1 DEF StateFields, Carried, Drop
      <3>3. Quiet /\ Limits'
        BY <1>1, <3>1, <3>2, StateIsQuiet DEF Unwindowed, Limits
      <3>4. state'.mode \notin HeadModes \cup Pausing \cup {"HEAD", "CHECK", "LENGTH", "BAD"}
        BY <3>2 DEF HeadModes, Pausing
      <3> QED
        BY <1>1, <1>2, <2>1, <2>7, <3>2, <3>3, <3>4, DullFieldSays
    <2> QED
      BY <2>4, <2>5, <2>6, <2>7
  <1>5. CASE state.have = state.table.lengths
    <2>1. PICK mode : mode = IF state.table.sets THEN "LEN" ELSE "BAD"
      OBVIOUS
    <2>2. state' = [state EXCEPT !.mode = mode]
          /\ UNCHANGED <<stream, strm, inflater, call>>
      BY <1>3, <1>5, <2>1 DEF ReadCodeLens, Becomes
    <2>3. /\ state'.mode = mode /\ state'.wrap = state.wrap /\ state'.total = state.total
          /\ state'.check = state.check /\ state'.dmax = state.dmax /\ Carried(state', state)
      BY <1>1, <2>2 DEF StateFields, Carried
    <2>4. Quiet /\ Limits' /\ ~ReadsField
      BY <1>1, <1>5, <2>2, <2>3, StateIsQuiet DEF Unwindowed, Limits, ReadsField
    <2>5. PICK i \in 1 .. Len(stream.fields) + 1 : AtField(r, w, i)
      BY <1>1, PassHere
    <2>6. ASSUME mode = "BAD" PROVE stream.fault = "broken"
      <3>1. ~state.table.sets
        BY <2>1, <2>6
      <3>2. PICK v : v = View(state)
        OBVIOUS
      <3>3. v.mode = "CODELENS" /\ v.count = state.have /\ v.table = state.table
        BY <1>1, <3>2, ViewFacts DEF Tabled
      <3>4. Settled(v) = Step_(v, "BAD")
        BY <1>5, <3>1, <3>3 DEF Settled
      <3>5. r[i] = Step_(v, "BAD")
        BY <1>1, <2>5, <3>2, <3>4 DEF AtField, Stands
      <3>6. r[i].mode = "BAD"
        BY <3>5 DEF Step_, Reader
      <3> QED
        BY <1>1, <3>6, PlaceIsBroken
    <2>7. /\ state.mode \notin HeadModes \cup Pausing \cup {"BAD"}
          /\ state'.mode \notin HeadModes \cup Pausing \cup {"HEAD", "LENGTH"}
          /\ state'.mode # "CHECK"
      BY <1>1, <2>1, <2>3 DEF HeadModes, Pausing
    <2> QED
      BY <1>1, <1>2, <2>3, <2>4, <2>6, <2>7, DullPassSays
  <1> QED
    BY <1>3, <1>4, <1>5
-----------------------------------------------------------------------------
(***************************************************************************)
(* The fields of a token in inflate().                                     *)
(***************************************************************************)
\* A field of a token does not touch the check value.
LEMMA TokenFieldSays ==
  ASSUME NEW r, NEW w, Holds(r, w), call.at = "inflate", ReadsField, Follows(r),
         NEW i, Ready(r, i), \A j : Ready(r, j) => j = i, IsWritten(r, w, i), ChecksSay(w[i]),
         UNCHANGED <<stream, strm, inflater, call>>, Carried(state', state),
         state'.total = state.total, state'.check = state.check, state'.dmax = state.dmax,
         state.mode \in Tokens, state'.mode \in Tokens \cup {"LIT", "MATCH", "TYPE", "BAD"},
         state'.mode = "BAD" => stream.fault = "broken",
         Total' = Total => (state'.mode # "BAD" => Tells(w[i + 1])')
  PROVE  TextOK(r, w)'
  <1>1. Rest /\ Limits
    BY InCall
  <1>2. Quiet /\ Limits'
    BY <1>1, StateIsQuiet DEF Unwindowed, Tokens, Limits
  <1>3. Total' = Total /\ Earlier' = Earlier /\ stream' = stream
    BY <1>2, QuietFrame
  <1>4. ChecksSay(w[i + 1])'
    <2>1. /\ state.mode \notin HeadModes
          /\ state'.mode \notin HeadModes \cup {"HEAD", "LENGTH"} /\ state'.mode # "CHECK"
      BY DEF HeadModes, Tokens
    <2> QED
      BY <1>3, <2>1, ChecksStay DEF Carried
  <1> QED
    BY <1>2, <1>3, <1>4, FieldSays

\* A pass within a token that reads no field of it.
LEMMA TokenPassSays ==
  ASSUME NEW r, NEW w, Holds(r, w), call.at = "inflate", ~ReadsField, Follows(r),
         NEW i \in 1 .. Len(stream.fields) + 1, AtField(r, w, i),
         UNCHANGED <<stream, strm, inflater, call>>, Carried(state', state),
         state'.total = state.total, state'.check = state.check, state'.dmax = state.dmax,
         state.mode \in Tokens, state'.mode \in Tokens \cup {"MATCH", "BAD"},
         state'.mode = "BAD" => stream.fault = "broken",
         Total' = Total => (state'.mode # "BAD" => Tells(w[i])')
  PROVE  TextOK(r, w)'
  <1>1. Rest /\ Limits
    BY InCall
  <1>2. Quiet /\ Limits'
    BY <1>1, StateIsQuiet DEF Unwindowed, Tokens, Limits
  <1>3. Total' = Total /\ Earlier' = Earlier /\ stream' = stream
    BY <1>2, QuietFrame
  <1>4. ChecksSay(w[i])'
    <2>1. /\ state.mode \notin HeadModes
          /\ state'.mode \notin HeadModes \cup {"HEAD", "LENGTH"} /\ state'.mode # "CHECK"
      BY DEF HeadModes, Tokens
    <2> QED
      BY <1>3, <2>1, ChecksStay DEF Carried, AtField
  <1> QED
    BY <1>2, <1>3, <1>4, PassSays

\* A literal, a length, or the end of the block.
LEMMA ReadLenSays ==
  ASSUME NEW r, NEW w, Holds(r, w), ReadLen
  PROVE  TextOK(r, w)'
  <1>1. /\ Reads("LEN") /\ call.at = "inflate" /\ state.mode = "LEN" /\ state.mode # "STORED"
        /\ Rest /\ Synced(r) /\ IsReading(stream, r) /\ DOMAIN state = StateFields
        /\ ReadsField
    BY InCall DEF ReadLen, Reads, In, Rest, Records, ReadsField
  <1>2. Follows(r)
    BY <1>1, ReadLenKeeps
  <1>3. PICK i : /\ Ready(r, i) /\ \A j : Ready(r, j) => j = i
                 /\ IsWritten(r, w, i) /\ Tells(w[i]) /\ ChecksSay(w[i])
                 /\ Total \in Nat /\ Earlier \in Nat /\ Earlier <= Total
    BY <1>1, FieldHere
  <1>4. /\ Here.wrong \in BOOLEAN /\ Here.mode = "LEN" /\ w[i].sound /\ w[i].n = Total
        /\ ~Here.wrong => IsSaid("LEN", Here.says)
    BY <1>1, <1>3 DEF Ready, IsWritten, Tells, Matching
  <1>5. PICK val, extra, mode :
          /\ val = Here.says.val /\ extra = Here.says.extra
          /\ mode = IF Here.wrong THEN "BAD"
                    ELSE CASE Here.says.op = "literal" -> "LIT" [] Here.says.op = "end" -> "TYPE"
                           [] Here.says.op = "base" -> "LENEXT"
    OBVIOUS
  <1>6. state' = [Drop(state) EXCEPT !.length = val, !.extra = extra, !.mode = mode]
        /\ UNCHANGED <<stream, strm, inflater, call>>
    BY <1>5 DEF ReadLen, Becomes
  <1>7. /\ state'.mode = mode /\ state'.length = val /\ state'.total = state.total
        /\ state'.check = state.check /\ state'.dmax = state.dmax /\ Carried(state', state)
    BY <1>1, <1>6 DEF StateFields, Carried, Drop
  <1>8. CASE Here.wrong
    <2>1. ~IsSound(stream, w[i], Here)
      BY <1>8 DEF IsSound
    <2>2. stream.fault = "broken" /\ mode = "BAD"
      BY <1>3, <1>5, <1>8, <2>1, UnsoundIsBroken
    <2> QED
      BY <1>1, <1>2, <1>3, <1>6, <1>7, <2>2, TokenFieldSays DEF Tokens
  <1>9. CASE Here.wrong = FALSE
    <2>1. /\ ~IsMatch(Here) /\ (IsLiteral(Here) <=> Here.says.op = "literal")
          /\ IsSound(stream, w[i], Here)
      BY <1>4, <1>9 DEF IsMatch, IsLiteral, IsSound
    <2>2. /\ w[i + 1].n = w[i].n + (IF IsLiteral(Here) THEN 1 ELSE 0)
          /\ w[i + 1].length = LengthAfter(w[i], Here)
          /\ w[i + 1].sound /\ IsText(stream, w[i], Here)
      BY <1>3, <2>1, SoundIsWritten
    <2>3. mode \in {"LIT", "TYPE", "LENEXT"}
          /\ (mode = "LIT" <=> Here.says.op = "literal") /\ (mode = "LENEXT" <=> Here.says.op = "base")
      BY <1>4, <1>5, <1>9 DEF IsSaid
    <2>4. ASSUME Total' = Total PROVE Tells(w[i + 1])'
      <3>1. CASE mode = "LIT"
        <4>1. w[i + 1].n = Total + 1 /\ w[i + 1].n <= Len(stream.text)
              /\ stream.text[w[i + 1].n] = val
          BY <1>4, <1>5, <2>1, <2>2, <2>3, <3>1 DEF IsText, Literal
        <4> QED
          BY <1>6, <1>7, <2>2, <2>4, <3>1, <4>1 DEF Tells, Matching
      <3>2. CASE mode = "TYPE"
        <4>1. w[i + 1].n = Total
          BY <1>3, <1>4, <2>1, <2>2, <2>3, <3>2
        <4> QED
          BY <1>6, <1>7, <2>2, <2>4, <3>2, <4>1 DEF Tells, Matching
      <3>3. CASE mode = "LENEXT"
        <4>1. w[i + 1].n = Total
          BY <1>3, <1>4, <2>1, <2>2, <2>3, <3>3
        <4>2. w[i + 1].length = val
          BY <1>4, <1>5, <2>2, <2>3, <3>3 DEF LengthAfter
        <4> QED
          BY <1>6, <1>7, <2>2, <2>4, <3>3, <4>1, <4>2 DEF Tells, Matching
      <3> QED
        BY <2>3, <3>1, <3>2, <3>3
    <2>5. state'.mode \in Tokens \cup {"LIT", "MATCH", "TYPE", "BAD"} /\ state'.mode # "BAD"
      BY <1>7, <2>3 DEF Tokens
    <2>6. state.mode \in Tokens
      BY <1>1 DEF Tokens
    <2> QED
      BY <1>1, <1>2, <1>3, <1>6, <1>7, <2>4, <2>5, <2>6, TokenFieldSays
  <1> QED
    BY <1>4, <1>8, <1>9

\* The extra bits of a length.
LEMMA ReadLenExtSays ==
  ASSUME NEW r, NEW w, Holds(r, w), ReadLenExt
  PROVE  TextOK(r, w)'
  <1>1. /\ Reads("LENEXT") /\ call.at = "inflate" /\ state.mode = "LENEXT" /\ state.mode # "STORED"
        /\ state.mode # "BAD" /\ state.mode \in Tokens
        /\ Rest /\ Synced(r) /\ IsReading(stream, r) /\ DOMAIN state = StateFields
    BY InCall DEF ReadLenExt, Reads, In, Rest, Records, Tokens
  <1>2. Follows(r)
    BY <1>1, ReadLenExtKeeps
  <1>3. CASE state.extra = 0
    <2>1. ~ReadsField
      BY <1>1, <1>3 DEF ReadsField
    <2>2. state' = [state EXCEPT !.mode = "DIST"] /\ UNCHANGED <<stream, strm, inflater, call>>
      BY <1>3 DEF ReadLenExt, Becomes
    <2>3. /\ state'.mode = "DIST" /\ state'.length = state.length /\ state'.total = state.total
          /\ state'.check = state.check /\ state'.dmax = state.dmax /\ Carried(state', state)
      BY <1>1, <2>2 DEF StateFields, Carried
    <2>4. PICK i \in 1 .. Len(stream.fields) + 1 : AtField(r, w, i) /\ Tells(w[i])
      BY <1>1, PassHere
    <2>5. w[i].sound /\ w[i].n = Total /\ state.length = w[i].length
      BY <1>1, <2>4 DEF Tells, Matching
    <2>6. ASSUME Total' = Total PROVE Tells(w[i])'
      BY <2>3, <2>5, <2>6 DEF Tells, Matching
    <2> QED
      BY <1>1, <1>2, <2>1, <2>2, <2>3, <2>4, <2>6, TokenPassSays DEF Tokens
  <1>4. CASE state.extra # 0
    <2>1. ReadsField
      BY <1>1, <1>4 DEF ReadsField
    <2>2. PICK i : /\ Ready(r, i) /\ \A j : Ready(r, j) => j = i
                   /\ IsWritten(r, w, i) /\ Tells(w[i]) /\ ChecksSay(w[i])
                   /\ Total \in Nat /\ Earlier \in Nat /\ Earlier <= Total
      BY <1>1, <2>1, FieldHere
    <2>3. /\ Here.wrong = FALSE /\ Here.mode = "LENEXT" /\ w[i].sound /\ w[i].n = Total
          /\ state.length = w[i].length
      BY <1>1, <2>2 DEF Ready, Refuses, IsWritten, Tells, Matching
    <2>4. PICK length : length = state.length + Here.says
      OBVIOUS
    <2>5. state' = [Drop(state) EXCEPT !.mode = "DIST", !.length = length]
          /\ UNCHANGED <<stream, strm, inflater, call>>
      BY <1>1, <1>4, <2>4 DEF ReadLenExt, Becomes, Drop, StateFields
    <2>6. /\ state'.mode = "DIST" /\ state'.length = length /\ state'.total = state.total
          /\ state'.check = state.check /\ state'.dmax = state.dmax /\ Carried(state', state)
      BY <1>1, <2>5 DEF StateFields, Carried, Drop
    <2>7. ~IsMatch(Here) /\ ~IsLiteral(Here) /\ IsSound(stream, w[i], Here)
      BY <2>3 DEF IsMatch, IsLiteral, IsSound
    <2>8. /\ w[i + 1].n = w[i].n + 0 /\ w[i + 1].sound
          /\ w[i + 1].length = LengthAfter(w[i], Here)
      BY <2>2, <2>7, SoundIsWritten
    <2>9. w[i + 1].n = Total /\ w[i + 1].length = length
      BY <2>2, <2>3, <2>4, <2>8 DEF LengthAfter
    <2>10. ASSUME Total' = Total PROVE Tells(w[i + 1])'
      BY <2>6, <2>8, <2>9, <2>10 DEF Tells, Matching
    <2> QED
      BY <1>1, <1>2, <2>1, <2>2, <2>5, <2>6, <2>10, TokenFieldSays DEF Tokens
  <1> QED
    BY <1>3, <1>4

\* The field that completes a match says what is to be copied.
LEMMA MatchIsPending ==
  ASSUME NEW r, NEW w, NEW i, IsWritten(r, w, i), w[i].sound, w[i].n = Total, Total \in Nat,
         Here.wrong = FALSE, IsMatch(Here), Here.mode \in {"DIST", "DISTEXT"},
         NEW length, length = w[i].length,
         NEW offset \in Nat, offset # 0, offset = Reach(w[i], Here)
  PROVE  Pending(w[i + 1], length, offset)
  <1>1. ~IsLiteral(Here) /\ Here.mode # "HCRC" /\ Here.mode # "CHECK" /\ Here.mode # "LENGTH"
    BY DEF IsLiteral
  <1>2. IsSound(stream, w[i], Here) <=> offset <= Total
    BY <1>1 DEF IsSound
  <1>3. CASE offset <= Total
    <2>1. /\ w[i + 1].n = Total + length /\ w[i + 1].sound /\ IsText(stream, w[i], Here)
      BY <1>1, <1>2, <1>3, SoundIsWritten
    <2>2. /\ Total + length <= Len(stream.text)
          /\ \A k \in 1 .. length : stream.text[Total + k] = stream.text[Total + k - offset]
      BY <2>1 DEF IsText
    <2>3. stream.fault # "broken" => offset <= WSIZE /\ offset <= DMAX
      BY DEF IsWritten
    <2> QED
      BY <1>3, <2>1, <2>2, <2>3 DEF Pending
  <1>4. CASE ~(offset <= Total)
    <2>1. stream.fault = "broken" /\ w[i + 1].sound = FALSE
      BY <1>2, <1>4, UnsoundIsBroken
    <2> QED
      BY <1>4, <2>1 DEF Pending
  <1> QED
    BY <1>3, <1>4

\* A distance that is too far is wrong.
LEMMA FarIsBroken ==
  ASSUME Limits, StreamAssumption, NEW v, NEW length, NEW offset, Pending(v, length, offset),
         offset > state.dmax
  PROVE  stream.fault = "broken"
  <1>1. WSIZE \in Nat /\ DMAX \in Nat /\ state.dmax \in {DMAX, WSIZE}
    BY StreamAssumption DEF Limits
  <1>2. CASE v.sound
    BY <1>1, <1>2 DEF Pending
  <1>3. CASE ~v.sound
    BY <1>3 DEF Pending
  <1> QED
    BY <1>2, <1>3

\* A distance.
LEMMA ReadDistSays ==
  ASSUME NEW r, NEW w, Holds(r, w), ReadDist
  PROVE  TextOK(r, w)'
  <1>1. /\ Reads("DIST") /\ call.at = "inflate" /\ state.mode = "DIST" /\ state.mode # "STORED"
        /\ state.mode \in Tokens
        /\ Rest /\ Synced(r) /\ IsReading(stream, r) /\ DOMAIN state = StateFields
        /\ ReadsField
    BY InCall DEF ReadDist, Reads, In, Rest, Records, ReadsField, Tokens
  <1>2. Follows(r)
    BY <1>1, ReadDistKeeps
  <1>3. PICK i : /\ Ready(r, i) /\ \A j : Ready(r, j) => j = i
                 /\ IsWritten(r, w, i) /\ Tells(w[i]) /\ ChecksSay(w[i])
                 /\ Total \in Nat /\ Earlier \in Nat /\ Earlier <= Total
    BY <1>1, FieldHere
  <1>4. /\ Here.wrong \in BOOLEAN /\ Here.mode = "DIST" /\ w[i].sound /\ w[i].n = Total
        /\ state.length = w[i].length
        /\ ~Here.wrong => IsSaid("DIST", Here.says)
    BY <1>1, <1>3 DEF Ready, IsWritten, Tells, Matching
  <1>5. CASE Here.wrong
    <2>1. ~IsSound(stream, w[i], Here)
      BY <1>5 DEF IsSound
    <2>2. Becomes(Bad(state))
      BY <1>5 DEF ReadDist
    <2> QED
      BY <1>1, <1>2, <1>3, <2>1, <2>2, UnsoundIsBroken, RefusedIsBroken
  <1>6. CASE Here.wrong = FALSE
    <2>1. PICK val, extra : val = Here.says.val /\ extra = Here.says.extra
      OBVIOUS
    <2>2. val \in Nat /\ val # 0
      BY <1>4, <1>6, <2>1 DEF IsSaid
    <2>3. state' = [Drop(state) EXCEPT !.mode = "DISTEXT", !.offset = val, !.extra = extra]
          /\ UNCHANGED <<stream, strm, inflater, call>>
      BY <1>6, <2>1 DEF ReadDist, Becomes
    <2>4. /\ state'.mode = "DISTEXT" /\ state'.offset = val /\ state'.extra = extra
          /\ state'.length = state.length /\ state'.total = state.total
          /\ state'.check = state.check /\ state'.dmax = state.dmax /\ Carried(state', state)
      BY <1>1, <2>3 DEF StateFields, Carried, Drop
    <2>5. IsMatch(Here) <=> extra = 0
      BY <1>4, <2>1 DEF IsMatch
    <2>6. ASSUME Total' = Total PROVE Tells(w[i + 1])'
      <3>1. CASE extra = 0
        <4>1. Reach(w[i], Here) = val
          BY <1>4, <2>1 DEF Reach
        <4>2. PICK length : length = w[i].length
          OBVIOUS
        <4>3. Pending(w[i + 1], length, val)
          BY <1>3, <1>4, <1>6, <2>2, <2>5, <3>1, <4>1, <4>2, MatchIsPending
        <4>4. Pending(w[i + 1], length, val)'
          BY <2>3, <2>6, <4>3 DEF Pending
        <4>5. Matching' /\ state'.length = length /\ state'.offset = val
          BY <1>4, <2>4, <3>1, <4>2 DEF Matching
        <4> QED
          BY <4>4, <4>5 DEF Tells
      <3>2. CASE extra # 0
        <4>1. ~IsLiteral(Here) /\ ~IsMatch(Here) /\ IsSound(stream, w[i], Here)
          BY <1>4, <1>6, <2>5, <3>2 DEF IsLiteral, IsSound
        <4>2. /\ w[i + 1].n = w[i].n + 0 /\ w[i + 1].sound
              /\ w[i + 1].length = LengthAfter(w[i], Here) /\ w[i + 1].offset = Here.says.val
          BY <1>3, <1>4, <4>1, SoundIsWritten
        <4>3. w[i + 1].n = Total /\ w[i + 1].length = state.length /\ w[i + 1].offset = val
          BY <1>3, <1>4, <2>1, <4>2 DEF LengthAfter
        <4> QED
          BY <2>2, <2>4, <2>6, <3>2, <4>2, <4>3 DEF Tells, Matching
      <3> QED
        BY <3>1, <3>2
    <2> QED
      BY <1>1, <1>2, <1>3, <2>3, <2>4, <2>6, TokenFieldSays DEF Tokens
  <1> QED
    BY <1>4, <1>5, <1>6

\* The extra bits of a distance: the match may reach before the text, and only that of
\* a broken stream does.
LEMMA ReadDistExtSays ==
  ASSUME NEW r, NEW w, Holds(r, w), ReadDistExt
  PROVE  TextOK(r, w)'
  <1>1. /\ Reads("DISTEXT") /\ call.at = "inflate" /\ state.mode = "DISTEXT"
        /\ state.mode # "STORED" /\ state.mode # "BAD" /\ state.mode \in Tokens
        /\ Rest /\ Synced(r) /\ IsReading(stream, r) /\ DOMAIN state = StateFields /\ Limits
    BY InCall DEF ReadDistExt, Reads, In, Rest, Records, Tokens
  <1>2. Follows(r)
    BY <1>1, ReadDistExtKeeps
  <1>3. CASE state.extra = 0
    <2>1. ~ReadsField
      BY <1>1, <1>3 DEF ReadsField
    <2>2. PICK mode : mode = IF state.offset > state.dmax THEN "BAD" ELSE "MATCH"
      OBVIOUS
    <2>3. state' = [state EXCEPT !.mode = mode] /\ UNCHANGED <<stream, strm, inflater, call>>
      BY <1>3, <2>2 DEF ReadDistExt, Becomes
    <2>4. /\ state'.mode = mode /\ state'.length = state.length /\ state'.total = state.total
          /\ state'.offset = state.offset
          /\ state'.check = state.check /\ state'.dmax = state.dmax /\ Carried(state', state)
      BY <1>1, <2>3 DEF StateFields, Carried
    <2>5. PICK i \in 1 .. Len(stream.fields) + 1 : AtField(r, w, i) /\ Tells(w[i])
      BY <1>1, PassHere
    <2>6. Pending(w[i], state.length, state.offset)
      BY <1>1, <1>3, <2>5 DEF Tells, Matching
    <2>7. mode = "BAD" => stream.fault = "broken"
      BY <1>1, <2>2, <2>6, FarIsBroken, StreamAssumption
    <2>8. ASSUME Total' = Total, mode # "BAD" PROVE Tells(w[i])'
      <3>1. Pending(w[i], state.length, state.offset)'
        BY <2>3, <2>4, <2>6, <2>8 DEF Pending
      <3>2. Matching'
        BY <2>2, <2>4, <2>8 DEF Matching
      <3> QED
        BY <3>1, <3>2 DEF Tells
    <2>9. state'.mode \in Tokens \cup {"MATCH", "BAD"}
      BY <2>2, <2>4
    <2> QED
      BY <1>1, <1>2, <2>1, <2>3, <2>4, <2>5, <2>7, <2>8, <2>9, TokenPassSays
  <1>4. CASE state.extra # 0
    <2>1. ReadsField
      BY <1>1, <1>4 DEF ReadsField
    <2>2. PICK i : /\ Ready(r, i) /\ \A j : Ready(r, j) => j = i
                   /\ IsWritten(r, w, i) /\ Tells(w[i]) /\ ChecksSay(w[i])
                   /\ Total \in Nat /\ Earlier \in Nat /\ Earlier <= Total
      BY <1>1, <2>1, FieldHere
    <2>3. /\ Here.wrong = FALSE /\ Here.mode = "DISTEXT" /\ w[i].sound /\ w[i].n = Total
          /\ state.length = w[i].length /\ state.offset = w[i].offset /\ state.offset # 0
          /\ Here.says \in Nat /\ state.offset \in Nat
      BY <1>1, <1>4, <2>2 DEF Ready, Refuses, IsWritten, Tells, Matching, IsSaid, Rest, TableOK
    <2>4. PICK offset \in Nat : offset = state.offset + Here.says /\ offset # 0
      <3>1. PICK a \in Nat, b \in Nat : a = state.offset /\ b = Here.says /\ a # 0
        BY <2>3
      <3>2. a + b \in Nat /\ (a # 0 => a + b # 0)
        OBVIOUS
      <3> QED
        BY <3>1, <3>2
    <2>5. PICK mode : mode = IF offset > state.dmax THEN "BAD" ELSE "MATCH"
      OBVIOUS
    <2>6. state' = [Drop(state) EXCEPT !.offset = offset, !.mode = mode]
          /\ UNCHANGED <<stream, strm, inflater, call>>
      <3>1. PICK s : s = [Drop(state) EXCEPT !.offset = offset]
        OBVIOUS
      <3>2. s = [Drop(state) EXCEPT !.offset = @ + Here.says]
        BY <1>1, <2>4, <3>1 DEF Drop, StateFields
      <3>3. s.offset = offset
        BY <1>1, <3>1 DEF Drop, StateFields
      <3>4. state' = [s EXCEPT !.mode = mode] /\ UNCHANGED <<stream, strm, inflater, call>>
        BY <1>4, <2>5, <3>2, <3>3 DEF ReadDistExt, Becomes
      <3>5. [s EXCEPT !.mode = mode] = [Drop(state) EXCEPT !.offset = offset, !.mode = mode]
        BY <3>1
      <3> QED
        BY <3>4, <3>5
    <2>7. /\ state'.mode = mode /\ state'.length = state.length /\ state'.total = state.total
          /\ state'.offset = offset
          /\ state'.check = state.check /\ state'.dmax = state.dmax /\ Carried(state', state)
      BY <1>1, <2>6 DEF StateFields, Carried, Drop
    <2>8. PICK length : length = w[i].length
      OBVIOUS
    <2>9. Pending(w[i + 1], length, offset)
      <3>1. IsMatch(Here) /\ Reach(w[i], Here) = offset
        BY <2>3, <2>4 DEF IsMatch, Reach
      <3> QED
        BY <2>2, <2>3, <2>4, <2>8, <3>1, MatchIsPending
    <2>10. mode = "BAD" => stream.fault = "broken"
      BY <1>1, <2>5, <2>9, FarIsBroken, StreamAssumption
    <2>11. ASSUME Total' = Total, mode # "BAD" PROVE Tells(w[i + 1])'
      <3>1. Pending(w[i + 1], length, offset)'
        BY <2>6, <2>9, <2>11 DEF Pending
      <3>2. Matching' /\ state'.length = length /\ state'.offset = offset
        BY <2>3, <2>5, <2>7, <2>8, <2>11 DEF Matching
      <3> QED
        BY <3>1, <3>2 DEF Tells
    <2>12. state'.mode \in Tokens \cup {"LIT", "MATCH", "TYPE", "BAD"}
      BY <2>5, <2>7
    <2> QED
      BY <1>1, <1>2, <2>1, <2>2, <2>6, <2>7, <2>10, <2>11, <2>12, TokenFieldSays
  <1> QED
    BY <1>3, <1>4
-----------------------------------------------------------------------------
(***************************************************************************)
(* Bytes are put out.                                                      *)
(***************************************************************************)
\* The step puts out these bytes.
Puts(bytes) ==
  /\ UNCHANGED <<stream, inflater>> /\ Running /\ Running'
  /\ state.mode \notin Unwindowed
  /\ Len(bytes) <= strm.avail_out
  /\ strm'.output = strm.output \o bytes /\ strm'.avail_out = strm.avail_out - Len(bytes)
  /\ call'.out = call.out /\ call'.in = call.in
  /\ call.in = 0 => /\ call' = call
                    /\ strm'.next_in = strm.next_in /\ strm'.avail_in = strm.avail_in
  /\ Carried(state', state)

\* Bytes that follow each other in the text.
LEMMA SaysMore ==
  ASSUME NEW a \in Seq(Byte), NEW b \in Seq(Byte), NEW n \in Nat,
         Says(a, n), Says(b, n + Len(a))
  PROVE  Says(a \o b, n)
  <1>1. /\ a \o b \in Seq(Byte) /\ Len(a) \in Nat /\ Len(b) \in Nat
        /\ Len(a \o b) = Len(a) + Len(b)
        /\ \A i \in 1 .. Len(a) : (a \o b)[i] = a[i]
        /\ \A i \in 1 .. Len(b) : (a \o b)[Len(a) + i] = b[i]
    BY Joined
  <1>2. PICK l \in Nat, m \in Nat : l = Len(a) /\ m = Len(b)
    BY <1>1
  <1>3. ASSUME NEW k \in 1 .. l + m PROVE (a \o b)[k] = stream.text[n + k]
    <2>1. CASE k <= l
      <3>1. k \in 1 .. l
        BY <2>1
      <3> QED
        BY <1>1, <1>2, <3>1 DEF Says
    <2>2. CASE k > l
      <3>1. PICK i \in 1 .. m : k = l + i
        <4>1. k - l \in 1 .. m /\ k = l + (k - l)
          BY <2>2
        <4> QED
          BY <4>1
      <3>2. (a \o b)[k] = b[i] /\ b[i] = stream.text[(n + l) + i]
        BY <1>1, <1>2, <3>1 DEF Says
      <3>3. (n + l) + i = n + k
        BY <3>1
      <3> QED
        BY <3>2, <3>3
    <2>3. k <= l \/ k > l
      OBVIOUS
    <2> QED
      BY <2>1, <2>2, <2>3
  <1>4. n + (l + m) <= Len(stream.text)
    <2>1. (n + l) + m <= Len(stream.text)
      BY <1>2 DEF Says
    <2>2. (n + l) + m = n + (l + m)
      OBVIOUS
    <2> QED
      BY <2>1, <2>2
  <1> QED
    BY <1>1, <1>2, <1>3, <1>4 DEF Says

\* What is put out is what the text has there.
LEMMA PutSays ==
  ASSUME NEW r, NEW w, Holds(r, w), NEW bytes \in Seq(Byte), Puts(bytes), Says(bytes, Total)
  PROVE  /\ Right' /\ Buffers' /\ (state'.mode \notin Unwindowed => Windows')
         /\ Total' = Total + Len(bytes) /\ Earlier' = Earlier /\ stream' = stream
         /\ ~inflater'.ended /\ call'.at \notin {"none", "returned"}
  <1>1. Rest /\ Right /\ Buffers /\ Windows /\ ~inflater.ended /\ Running
    BY InCall DEF Puts, Running
  <1>2. /\ Sent \in Nat /\ Len(strm.output) \in Nat /\ Total = Sent + Len(strm.output)
        /\ Total \in Nat /\ Produced(strm) \in Nat
        /\ Earlier \in Nat /\ Earlier + Produced(strm) = Total
        /\ call.out \in Nat /\ strm.avail_out \in Nat /\ strm.avail_out <= call.out
        /\ Len(strm.output) + strm.avail_out = inflater.chunkSize
        /\ strm.output \in Seq(Byte)
    BY <1>1, OutputCounts
  <1>3. Fresh /\ Fresh' /\ Sent' = Sent /\ inflater' = inflater /\ stream' = stream
    BY DEF Puts, Fresh, Running, Sent
  <1>4. Says(strm.output, Sent) /\ Says(inflater.delivered, 0)
    BY <1>1, <1>3 DEF Right
  <1>5. /\ Says(strm.output \o bytes, Sent)
    BY <1>2, <1>4, SaysMore
  <1>6. Len(bytes) \in Nat /\ Len(strm.output \o bytes) = Len(strm.output) + Len(bytes)
    BY <1>2, Joined
  <1>7. PICK out : out = strm.output \o bytes
    OBVIOUS
  <1>8. strm'.output = out /\ Len(out) = Len(strm.output) + Len(bytes) /\ Says(out, Sent)
    BY <1>5, <1>6, <1>7 DEF Puts
  <1>9. Right'
    <2>1. Says(out, Sent)' /\ Says(inflater.delivered, 0)'
      BY <1>3, <1>4, <1>8 DEF Says
    <2> QED
      BY <1>3, <1>8, <2>1 DEF Right
  <1>10. PICK b \in Nat, n \in Nat, s \in Nat, o \in Nat, c \in Nat :
           /\ b = Len(bytes) /\ n = Len(strm.output) /\ s = Sent /\ o = strm.avail_out
           /\ c = call.out
    BY <1>2, <1>6
  <1>11. Total = s + n /\ Total' = s + (n + b)
    BY <1>2, <1>3, <1>8, <1>10 DEF Total
  <1>12. strm'.avail_out = o - b /\ call'.out = c /\ b <= o /\ o <= c
    BY <1>2, <1>10 DEF Puts
  <1>13. Produced(strm) = c - o /\ Produced(strm)' = c - (o - b)
    BY <1>10, <1>12 DEF Produced
  <1>14. Earlier' = Earlier
    <2>1. Earlier = (s + n) - (c - o) /\ Earlier' = (s + (n + b)) - (c - (o - b))
      BY <1>1, <1>11, <1>13 DEF Earlier, Puts
    <2> QED
      BY <2>1
  <1>15. Buffers'
    <2>1. Len(strm'.output) + strm'.avail_out = inflater'.chunkSize
      <3>1. Len(strm'.output) = n + b /\ strm'.avail_out = o - b
        BY <1>8, <1>10, <1>12
      <3>2. (n + b) + (o - b) = n + o
        OBVIOUS
      <3>3. n + o = inflater.chunkSize /\ inflater' = inflater
        BY <1>2, <1>3, <1>10
      <3> QED
        BY <3>1, <3>2, <3>3
    <2>2. call'.out > 0 /\ call'.out \in 0 .. inflater'.chunkSize
      BY <1>1, <1>3 DEF Buffers, Puts, Unwindowed
    <2>3. call'.in = 0 => /\ call'.at = "inflate" /\ strm'.avail_in = 0
                          /\ call'.allowBufError \/ strm'.next_in = 0
      BY <1>1 DEF Buffers, Puts
    <2> QED
      BY <2>1, <2>2, <2>3 DEF Buffers
  <1>16. state'.mode \notin Unwindowed => Windows'
    <2>1. WindowSays(state, Earlier)
      BY <1>1 DEF Windows, Puts
    <2>2. WindowSays(state, Earlier)'
      BY <1>3, <1>14, <2>1 DEF WindowSays, Puts, Carried
    <2> QED
      BY <2>2 DEF Windows
  <1> QED
    BY <1>1, <1>3, <1>9, <1>10, <1>11, <1>14, <1>15, <1>16 DEF Puts, Running

\* Then it is enough that the decoder goes where the reader does.
LEMMA PutKeeps ==
  ASSUME NEW r, NEW w, Holds(r, w), NEW bytes \in Seq(Byte), Puts(bytes), Says(bytes, Total),
         state'.dmax = state.dmax,
         state'.mode \notin Unwindowed, Total' = Total + Len(bytes) => Goes(r, w)'
  PROVE  TextOK(r, w)'
  <1>1. Limits
    BY InCall DEF Puts, Running
  <1>2. /\ Right' /\ Buffers' /\ Windows' /\ Goes(r, w)'
        /\ ~inflater'.ended /\ call'.at \notin {"none", "returned"}
    BY PutSays
  <1>3. Limits'
    BY <1>1 DEF Limits
  <1>4. Outputs(r, w)'
    BY <1>2, <1>3 DEF Outputs
  <1> QED
    BY <1>2, <1>4 DEF TextOK, EndsAsItShould

\* The check value stays what it is while a block is read.
LEMMA ChecksCarry ==
  ASSUME NEW v, NEW u, ChecksSay(v), Earlier' = Earlier, stream' = stream,
         state'.wrap = state.wrap, state'.total = state.total, state'.check = state.check,
         state.mode \notin HeadModes,
         state'.mode \notin HeadModes \cup {"HEAD", "LENGTH", "CHECK"}
  PROVE  ChecksSay(u)'
  BY DEF ChecksSay

\* A literal is put out.
LEMMA CopyLitSays ==
  ASSUME NEW r, NEW w, Holds(r, w), CopyLit
  PROVE  TextOK(r, w)'
  <1>1. /\ call.at = "inflate" /\ state.mode = "LIT" /\ state.mode # "BAD" /\ ~ReadsField
        /\ Rest /\ Synced(r) /\ Buffers /\ Right /\ Running
        /\ DOMAIN state = StateFields /\ DOMAIN strm = StrmFields
    BY InCall DEF CopyLit, In, Rest, Records, ReadsField, Running
  <1>2. Follows(r)
    BY <1>1, CopyLitKeeps
  <1>3. PICK i \in 1 .. Len(stream.fields) + 1 :
          /\ AtField(r, w, i) /\ Tells(w[i]) /\ ChecksSay(w[i]) /\ Total \in Nat
    BY <1>1, PassHere
  <1>4. /\ w[i].sound /\ w[i].n = Total + 1 /\ w[i].n <= Len(stream.text)
        /\ stream.text[w[i].n] = state.length
    BY <1>1, <1>3 DEF Tells, Matching
  <1>5. Len(stream.text) \in Nat /\ stream.text \in Seq(Byte) /\ strm.avail_out \in Nat
    BY <1>1, OutputCounts
  <1>6. state.length \in Byte
    <2>1. Total + 1 \in 1 .. Len(stream.text)
      BY <1>3, <1>4, <1>5
    <2>2. stream.text \in [1 .. Len(stream.text) -> Byte]
      BY <1>5, LenProperties
    <2> QED
      BY <1>4, <2>1, <2>2
  <1>7. PICK bytes : bytes = <<state.length>>
    OBVIOUS
  <1>8. bytes \in Seq(Byte) /\ Len(bytes) = 1 /\ bytes[1] = state.length
    BY <1>6, <1>7
  <1>9. Says(bytes, Total)
    <2>1. \A k \in 1 .. Len(bytes) : k = 1
      BY <1>8
    <2>2. Total + Len(bytes) <= Len(stream.text)
      BY <1>4, <1>8
    <2> QED
      BY <1>4, <1>8, <2>1, <2>2 DEF Says
  <1>10. /\ state' = [state EXCEPT !.mode = "LEN"] /\ strm' = Put(strm, bytes)
         /\ UNCHANGED <<stream, inflater, call>> /\ strm.avail_out > 0
    BY <1>7 DEF CopyLit
  <1>11. /\ state'.mode = "LEN" /\ state'.dmax = state.dmax /\ state'.total = state.total
         /\ state'.check = state.check /\ Carried(state', state)
    BY <1>1, <1>10 DEF StateFields, Carried
  <1>12. /\ strm'.output = strm.output \o bytes /\ strm'.avail_out = strm.avail_out - Len(bytes)
         /\ strm'.next_in = strm.next_in /\ strm'.avail_in = strm.avail_in
    BY <1>1, <1>10 DEF Put, StrmFields
  <1>13. Puts(bytes)
    BY <1>1, <1>5, <1>8, <1>10, <1>11, <1>12 DEF Puts, Running, Unwindowed
  <1>14. Total' = Total + Len(bytes) /\ Earlier' = Earlier /\ stream' = stream
    BY <1>8, <1>9, <1>13, PutSays
  <1>15. Goes(r, w)'
    <2>1. Stands(r, i)'
      BY <1>2, <1>1, <1>3, <1>11 DEF Follows, AtField
    <2>2. Tells(w[i])'
      BY <1>4, <1>8, <1>11, <1>14 DEF Tells, Matching
    <2>3. ChecksSay(w[i])'
      <3>1. state.mode \notin HeadModes
            /\ state'.mode \notin HeadModes \cup {"HEAD", "LENGTH", "CHECK"}
        BY <1>1, <1>11 DEF HeadModes
      <3> QED
        BY <1>3, <1>11, <1>14, <3>1, ChecksCarry DEF Carried
    <2> QED
      BY <1>11, <1>14, <2>1, <2>2, <2>3 DEF Goes, AtField
  <1> QED
    BY <1>8, <1>9, <1>11, <1>13, <1>15, PutKeeps DEF Unwindowed
-----------------------------------------------------------------------------
(***************************************************************************)
(* Matches copy what the text has so far back.                             *)
(***************************************************************************)
\* So many bytes of the text after its first n.
From_(n, l) == [i \in 1 .. l |-> stream.text[n + i]]

\* A piece of the text is what the text says there.
LEMMA PieceOfText ==
  ASSUME stream.text \in Seq(Byte), NEW n \in Nat, NEW l \in Nat, n + l <= Len(stream.text)
  PROVE  /\ From_(n, l) \in Seq(Byte) /\ Len(From_(n, l)) = l /\ Says(From_(n, l), n)
         /\ \A i \in 1 .. l : From_(n, l)[i] = stream.text[n + i]
  <1>1. Len(stream.text) \in Nat /\ stream.text \in [1 .. Len(stream.text) -> Byte]
    BY LenProperties
  <1>2. \A i \in 1 .. l : n + i \in 1 .. Len(stream.text)
    BY <1>1
  <1>3. \A i \in 1 .. l : stream.text[n + i] \in Byte
    BY <1>1, <1>2
  <1>4. PICK f : f = [i \in 1 .. l |-> stream.text[n + i]]
    OBVIOUS
  <1>5. f \in Seq(Byte) /\ Len(f) = l /\ \A i \in 1 .. l : f[i] = stream.text[n + i]
    BY <1>3, <1>4, IsASeq
  <1>6. f = From_(n, l)
    BY <1>4 DEF From_
  <1> QED
    BY <1>5, <1>6 DEF Says

\* Bytes that the text says are such a piece of it.
LEMMA SaysIsPiece ==
  ASSUME stream.text \in Seq(Byte), NEW n \in Nat, NEW bytes, Says(bytes, n)
  PROVE  Len(bytes) \in Nat /\ n + Len(bytes) <= Len(stream.text) /\ bytes = From_(n, Len(bytes))
  <1>1. bytes \in Seq(Byte) /\ n + Len(bytes) <= Len(stream.text)
    BY DEF Says
  <1>2. Len(bytes) \in Nat /\ bytes \in [1 .. Len(bytes) -> Byte]
    BY <1>1, LenProperties
  <1>3. \A k \in 1 .. Len(bytes) : bytes[k] = stream.text[n + k]
    BY DEF Says
  <1> QED
    BY <1>1, <1>2, <1>3 DEF From_

\* The piece of length a from n, that of length b from m, and the two as one of length c.
Follow(n, a, m, b, c) == m = n + a /\ c = a + b /\ n + c <= Len(stream.text)
Joins(n, a, m, b, c) == From_(n, a) \o From_(m, b) = From_(n, c)

\* Two pieces that follow each other are one.
LEMMA PiecesJoin ==
  ASSUME stream.text \in Seq(Byte), NEW n \in Nat, NEW a \in Nat, NEW b \in Nat,
         NEW m \in Nat, NEW c \in Nat, Follow(n, a, m, b, c)
  PROVE  Joins(n, a, m, b, c)
  <1>1. Len(stream.text) \in Nat
    BY LenProperties
  <1>2. /\ m = n + a /\ c = a + b
        /\ m + b <= Len(stream.text) /\ n + a <= Len(stream.text)
    BY <1>1 DEF Follow
  <1>3. From_(n, a) \in Seq(Byte) /\ Len(From_(n, a)) = a /\ Says(From_(n, a), n)
    BY <1>2, PieceOfText
  <1>4. From_(m, b) \in Seq(Byte) /\ Len(From_(m, b)) = b /\ Says(From_(m, b), m)
    BY <1>2, PieceOfText
  <1>5. PICK s : s = From_(n, a) \o From_(m, b)
    OBVIOUS
  <1>6. Says(s, n)
    <2>1. Says(From_(m, b), n + Len(From_(n, a)))
      BY <1>2, <1>3, <1>4
    <2> QED
      BY <1>3, <1>4, <1>5, <2>1, SaysMore
  <1>7. Len(s) = c
    <2>1. PICK x \in Seq(Byte), y \in Seq(Byte) :
            x = From_(n, a) /\ y = From_(m, b) /\ Len(x) = a /\ Len(y) = b
      BY <1>3, <1>4
    <2>2. Len(x \o y) = Len(x) + Len(y)
      BY Joined
    <2>3. s = x \o y
      BY <1>5, <2>1, Zenon
    <2>4. Len(s) = Len(x) + Len(y)
      BY <2>2, <2>3, Zenon
    <2> QED
      BY <1>2, <2>1, <2>4
  <1>8. s = From_(n, c)
    <2>1. s = From_(n, Len(s))
      BY <1>6, SaysIsPiece
    <2> QED
      BY <1>7, <2>1, Zenon
  <1>9. From_(n, a) \o From_(m, b) = From_(n, c)
    BY <1>5, <1>8, Zenon
  <1> QED
    BY <1>9 DEF Joins

\* A piece of a piece is a piece.
LEMMA PieceOfPiece ==
  ASSUME NEW n \in Nat, NEW l \in Nat, NEW m \in Nat, NEW k \in Nat, m + k <= l,
         NEW s, s = From_(n, l)
  PROVE  SubSeq(s, m + 1, m + k) = From_(n + m, k)
  <1>1. SubSeq(s, m + 1, m + k) = [i \in 1 .. (1 + (m + k) - (m + 1)) |-> s[(m + 1) + i - 1]]
    BY DEF SubSeq
  <1>2. 1 + (m + k) - (m + 1) = k
    OBVIOUS
  <1>3. ASSUME NEW i \in 1 .. k PROVE s[(m + 1) + i - 1] = stream.text[(n + m) + i]
    <2>1. (m + 1) + i - 1 = m + i /\ m + i \in 1 .. l /\ n + (m + i) = (n + m) + i
      OBVIOUS
    <2>2. s[m + i] = stream.text[n + (m + i)]
      BY <2>1 DEF From_
    <2> QED
      BY <2>1, <2>2
  <1> QED
    BY <1>1, <1>2, <1>3 DEF From_

\* A text that repeats what it has so far back repeats it again and again.
LEMMA Repeats ==
  ASSUME NEW n \in Nat, NEW offset \in Nat, offset # 0, NEW length \in Nat,
         \A k \in 1 .. length : stream.text[n + k] = stream.text[n + k - offset]
  PROVE  \A k \in 1 .. length :
           stream.text[n + k] = stream.text[n - offset + (((k - 1) % offset) + 1)]
  <1> DEFINE T == {m \in Nat : \A k \in 1 .. m :
                     stream.text[n + k] = stream.text[n - offset + (((k - 1) % offset) + 1)]}
  <1>1. 0 \in T
    OBVIOUS
  <1>2. ASSUME NEW m \in 0 .. length - 1, m \in T PROVE m + 1 \in T
    <2>1. \A k \in 1 .. m :
            stream.text[n + k] = stream.text[n - offset + (((k - 1) % offset) + 1)]
      BY <1>2
    <2>2. m + 1 \in 1 .. length /\ (m + 1) - 1 = m
      OBVIOUS
    <2>3. stream.text[n + (m + 1)] = stream.text[n + (m + 1) - offset]
      BY <2>2
    <2>4. stream.text[n + (m + 1)] = stream.text[n - offset + ((m % offset) + 1)]
      <3>1. CASE m < offset
        <4>1. m % offset = m
          BY <3>1, Remainders
        <4>2. n + (m + 1) - offset = n - offset + (m + 1)
          OBVIOUS
        <4> QED
          BY <2>3, <4>1, <4>2
      <3>2. CASE m >= offset
        <4>1. PICK k \in 1 .. m : k = (m + 1) - offset
          BY <3>2
        <4>2. n + (m + 1) - offset = n + k /\ k - 1 = m - offset
          BY <4>1
        <4>3. (m - offset) % offset = m % offset
          BY Remainders, SMTT(30)
        <4>4. stream.text[n + k] = stream.text[n - offset + (((k - 1) % offset) + 1)]
          BY <2>1
        <4> QED
          BY <2>3, <4>2, <4>3, <4>4
      <3> QED
        BY <3>1, <3>2
    <2>5. ASSUME NEW k \in 1 .. m + 1
          PROVE  stream.text[n + k] = stream.text[n - offset + (((k - 1) % offset) + 1)]
      <3>1. CASE k = m + 1
        BY <2>2, <2>4, <3>1
      <3>2. CASE k # m + 1
        BY <2>1, <3>2
      <3> QED
        BY <3>1, <3>2
    <2> QED
      BY <2>5
  <1> HIDE DEF T
  <1>3. 0 .. length \subseteq T
    BY <1>1, <1>2, InductionUpTo
  <1>4. length \in T
    BY <1>3
  <1> QED
    BY <1>4 DEF T

\* A match repeats the bytes before it, as often as it takes.
Repeated(s, offset, length) == [i \in 1 .. length |-> s[((i - 1) % offset) + 1]]
Repeating(n, offset, length) ==
  offset <= n /\ \A k \in 1 .. length : stream.text[n + k] = stream.text[n + k - offset]

\* A match that overlaps itself is the piece of the text that it stands for.
LEMMA MatchIsPiece ==
  ASSUME NEW n \in Nat, NEW offset \in Nat, offset # 0, NEW length \in Nat,
         Repeating(n, offset, length), NEW s, s = From_(n - offset, offset)
  PROVE  Repeated(s, offset, length) = From_(n, length)
  <1>1. ASSUME NEW i \in 1 .. length
        PROVE  s[((i - 1) % offset) + 1] = stream.text[n + i]
    <2>1. PICK k : k = ((i - 1) % offset) + 1
      OBVIOUS
    <2>2. k \in 1 .. offset
      BY <2>1, Remainders
    <2>3. s[k] = stream.text[(n - offset) + k]
      BY <2>2 DEF From_
    <2>4. stream.text[n + i] = stream.text[n - offset + (((i - 1) % offset) + 1)]
      BY Repeats DEF Repeating
    <2> QED
      BY <2>1, <2>3, <2>4
  <1> QED
    BY <1>1 DEF From_, Repeated

\* The window, where the text goes back into it.
LEMMA WindowIsPiece ==
  ASSUME WindowOK, NEW n \in Nat, WindowSays(state, n),
         NEW back \in Nat, back > 0, back <= state.whave
  PROVE  /\ back <= n /\ state.wnext \in Nat
         /\ Window(back) = From_(n - back, IF back > state.wnext THEN back - state.wnext ELSE back)
         /\ back > state.wnext =>
              SubSeq(state.window, 1, state.wnext) = From_(n - state.wnext, state.wnext)
  <1>1. PICK size \in Nat, have \in Nat, next \in Nat :
          /\ size = state.wsize /\ have = state.whave /\ next = state.wnext
          /\ have <= size /\ next <= size /\ (have < size => next = have)
    BY StreamAssumption DEF WindowOK
  <1>2. have <= n
    <2>1. PICK S : S = {size, n} /\ S = {size, n, n} /\ S # {}
      OBVIOUS
    <2>2. Least(S) <= n
      BY <2>1, LeastIsLeast
    <2> QED
      BY <1>1, <2>1, <2>2 DEF WindowSays
  <1>3. back <= n
    BY <1>1, <1>2
  <1>4. /\ \A k \in 1 .. next : state.window[k] = stream.text[n - next + k]
        /\ have = size => \A k \in next + 1 .. size :
                            state.window[k] = stream.text[n - next + k - size]
    BY <1>1 DEF WindowSays
  <1>5. CASE back > next
    <2>1. have = size
      BY <1>1, <1>5
    <2>2. PICK l \in Nat : l = back - next
      BY <1>5
    <2>3. Window(back) = SubSeq(state.window, size - (back - next) + 1, size)
      BY <1>1, <1>5 DEF Window
    <2>4. SubSeq(state.window, size - (back - next) + 1, size)
            = [i \in 1 .. (1 + size - (size - (back - next) + 1)) |->
                 state.window[(size - (back - next) + 1) + i - 1]]
      BY DEF SubSeq
    <2>5. 1 + size - (size - (back - next) + 1) = l
      BY <2>2
    <2>6. ASSUME NEW i \in 1 .. l
          PROVE  state.window[(size - (back - next) + 1) + i - 1] = stream.text[(n - back) + i]
      <3>1. PICK k \in next + 1 .. size : k = (size - (back - next) + 1) + i - 1
        BY <1>1, <2>1, <2>2
      <3>2. n - next + k - size = (n - back) + i
        BY <3>1
      <3>3. state.window[k] = stream.text[n - next + k - size]
        BY <1>4, <2>1
      <3> QED
        BY <3>1, <3>2, <3>3
    <2>7. Window(back) = From_(n - back, l)
      BY <2>3, <2>4, <2>5, <2>6 DEF From_
    <2>8. SubSeq(state.window, 1, next) = From_(n - next, next)
      <3>1. SubSeq(state.window, 1, next) = [i \in 1 .. (1 + next - 1) |-> state.window[1 + i - 1]]
        BY DEF SubSeq
      <3>2. 1 + next - 1 = next
        OBVIOUS
      <3>3. ASSUME NEW i \in 1 .. next PROVE state.window[1 + i - 1] = stream.text[(n - next) + i]
        <4>1. 1 + i - 1 = i
          OBVIOUS
        <4>2. state.window[i] = stream.text[n - next + i]
          BY <1>4
        <4> QED
          BY <4>1, <4>2
      <3> QED
        BY <3>1, <3>2, <3>3 DEF From_
    <2> QED
      BY <1>1, <1>3, <1>5, <2>2, <2>7, <2>8
  <1>6. CASE ~(back > next)
    <2>1. Window(back) = SubSeq(state.window, next - back + 1, next)
      BY <1>1, <1>6 DEF Window
    <2>2. SubSeq(state.window, next - back + 1, next)
            = [i \in 1 .. (1 + next - (next - back + 1)) |->
                 state.window[(next - back + 1) + i - 1]]
      BY DEF SubSeq
    <2>3. 1 + next - (next - back + 1) = back
      OBVIOUS
    <2>4. ASSUME NEW i \in 1 .. back
          PROVE  state.window[(next - back + 1) + i - 1] = stream.text[(n - back) + i]
      <3>1. PICK k \in 1 .. next : k = (next - back + 1) + i - 1
        BY <1>6
      <3>2. n - next + k = (n - back) + i
        BY <3>1
      <3>3. state.window[k] = stream.text[n - next + k]
        BY <1>4
      <3> QED
        BY <3>1, <3>2, <3>3
    <2> QED
      BY <1>1, <1>3, <1>6, <2>1, <2>2, <2>3, <2>4 DEF From_
  <1> QED
    BY <1>5, <1>6

\* A match begins in what the window has and the call has put out, or the stream is broken.
LEMMA FarBack ==
  ASSUME Rest, Right, Buffers, Running, WindowSays(state, Earlier),
         NEW v, NEW length, NEW offset \in Nat, offset # 0, Pending(v, length, offset)
  PROVE  /\ TooFarBack(offset) => stream.fault = "broken"
         /\ ~TooFarBack(offset) => v.sound
  <1>1. PICK p \in Nat, e \in Nat, t \in Nat :
          p = Produced(strm) /\ e = Earlier /\ t = Total /\ e + p = t
    BY OutputCounts
  <1>2. PICK size \in Nat, have \in Nat : size = state.wsize /\ have = state.whave
    BY StreamAssumption DEF Rest, WindowOK
  <1>3. have \in {size, e} /\ have <= e
    <2>1. PICK S : S = {size, e} /\ S = {size, e, e} /\ S # {}
      OBVIOUS
    <2>2. Least(S) <= e /\ Least(S) \in S
      BY <2>1, LeastIsLeast
    <2> QED
      BY <1>1, <1>2, <2>1, <2>2 DEF WindowSays
  <1>4. size = 0 => e = 0
    BY <1>1, <1>2 DEF WindowSays
  <1>5. size = 0 \/ (size = WSIZE /\ WSIZE \in Nat)
    BY <1>2, StreamAssumption DEF Rest, WindowOK
  <1>6. TooFarBack(offset) <=> offset > p /\ offset - p > have
    BY <1>1, <1>2 DEF TooFarBack
  <1>7. CASE v.sound
    <2>1. offset <= t /\ (stream.fault # "broken" => offset <= WSIZE)
      BY <1>1, <1>7 DEF Pending
    <2>2. ASSUME offset > p, offset - p > have, stream.fault # "broken" PROVE FALSE
      <3>1. CASE have = e
        BY <1>1, <2>1, <2>2, <3>1
      <3>2. CASE have = size
        BY <1>1, <1>4, <1>5, <2>1, <2>2, <3>2
      <3> QED
        BY <1>3, <3>1, <3>2
    <2> QED
      BY <1>6, <1>7, <2>2
  <1>8. CASE ~v.sound
    <2>1. offset > t /\ stream.fault = "broken"
      BY <1>1, <1>8 DEF Pending
    <2>2. offset > p /\ offset - p > have
      BY <1>1, <1>3, <2>1
    <2> QED
      BY <1>6, <2>1, <2>2
  <1> QED
    BY <1>7, <1>8

\* What the output of this call ends with.
LEMMA OutputIsPiece ==
  ASSUME Rest, Right, Buffers, Running, NEW back \in Nat, back <= Len(strm.output)
  PROVE  SubSeq(strm.output, Len(strm.output) - back + 1, Len(strm.output))
           = From_(Total - back, back)
  <1>1. /\ stream.text \in Seq(Byte) /\ Sent \in Nat /\ Len(strm.output) \in Nat
        /\ Total = Sent + Len(strm.output)
    BY OutputCounts
  <1>2. Says(strm.output, Sent)
    BY DEF Right, Fresh, Running
  <1>3. PICK l \in Nat, s \in Nat, m \in Nat :
          l = Len(strm.output) /\ s = Sent /\ m = l - back /\ m + back = l
    <2>1. Len(strm.output) - back \in Nat
      BY <1>1
    <2> QED
      BY <1>1, <2>1
  <1>4. PICK out : out = strm.output /\ out = From_(s, l)
    BY <1>1, <1>2, <1>3, SaysIsPiece
  <1>5. SubSeq(out, m + 1, m + back) = From_(s + m, back)
    <2>1. out = From_(s, l)
      BY <1>4
    <2>2. m + back <= l
      BY <1>3
    <2> QED
      BY <2>1, <2>2, PieceOfPiece, SMTT(60)
  <1>6. s + m = Total - back
    BY <1>1, <1>3
  <1> QED
    BY <1>3, <1>4, <1>5, <1>6

\* A run of a match is what the text has there.
LEMMA RunSays ==
  ASSUME Rest, Right, Buffers, Running, WindowSays(state, Earlier),
         NEW v, NEW length \in Nat, NEW offset \in Nat, offset # 0, Pending(v, length, offset), v.sound,
         ~TooFarBack(offset), NEW most \in Nat, most <= length,
         NEW run, run = MatchRun(strm, offset, most)
  PROVE  Len(run) \in 0 .. most /\ run \in Seq(Byte) /\ Says(run, Total)
  <1>1. PICK p \in Nat, e \in Nat, t \in Nat, l \in Nat :
          /\ p = Produced(strm) /\ e = Earlier /\ t = Total /\ e + p = t
          /\ l = Len(strm.output) /\ p <= l
    BY OutputCounts
  <1>2. stream.text \in Seq(Byte) /\ Len(stream.text) \in Nat /\ t <= Len(stream.text)
    BY <1>1, OutputCounts
  <1>3. /\ t + length <= Len(stream.text) /\ offset <= t
        /\ \A k \in 1 .. length : stream.text[t + k] = stream.text[t + k - offset]
    BY <1>1 DEF Pending
  <1>4. \E m \in 0 .. most : run = From_(t, m)
    <2>1. CASE offset > p
      <3>1. PICK back \in Nat : back = offset - p /\ back > 0
        BY <1>1, <2>1
      <3>2. offset - Produced(strm) = back /\ back > 0 /\ back <= state.whave
        <4>1. state.whave \in Nat
          BY StreamAssumption DEF Rest, WindowOK
        <4> QED
          BY <1>1, <2>1, <3>1, <4>1 DEF TooFarBack
      <3>3. PICK n \in Nat : n <= back /\ Window(back) = From_(e - back, n) /\ back <= e
        <4>1. PICK next \in Nat : next = state.wnext
          BY StreamAssumption DEF Rest, WindowOK
        <4>2. PICK n \in Nat : n = IF back > next THEN back - next ELSE back
          OBVIOUS
        <4>3. n <= back
          BY <4>2
        <4>4. back <= e /\ Window(back) = From_(e - back, n)
          BY <1>1, <3>1, <3>2, <4>1, <4>2, WindowIsPiece DEF Rest
        <4> QED
          BY <4>3, <4>4
      <3>4. PICK s : s = Window(back) /\ s = From_(e - back, n)
        BY <3>3
      <3>5. Len(s) = n
        <4>1. PICK a \in Nat : a = e - back /\ a + n <= Len(stream.text)
          BY <1>1, <1>2, <3>3
        <4> QED
          BY <1>2, <3>4, <4>1, PieceOfText
      <3>6. PICK m \in Nat : m = Least({most, n}) /\ m <= most /\ m <= n
        <4>1. PICK S : S = {most, n} /\ S = {most, n, n} /\ S # {}
          OBVIOUS
        <4> QED
          BY <4>1, LeastIsLeast
      <3>7. run = SubSeq(s, 1, m)
        BY <3>2, <3>4, <3>5, <3>6 DEF MatchRun
      <3>8. PICK b \in Nat : b = e - back /\ b = t - offset
        BY <1>1, <3>1, <3>3, SMTT(30)
      <3>9. SubSeq(s, 0 + 1, 0 + m) = From_(b + 0, m)
        <4>1. s = From_(b, n)
          BY <3>4, <3>8
        <4>2. 0 + m <= n
          BY <3>6
        <4> QED
          BY <4>1, <4>2, PieceOfPiece
      <3>10. From_(b, m) = From_(t, m)
        <4>1. ASSUME NEW k \in 1 .. m PROVE stream.text[b + k] = stream.text[t + k]
          <5>1. k \in 1 .. length /\ t + k - offset = b + k
            BY <3>6, <3>8
          <5> QED
            BY <1>3, <5>1
        <4> QED
          BY <4>1 DEF From_
      <3>11. 0 + 1 = 1 /\ 0 + m = m /\ b + 0 = b /\ m \in 0 .. most
        BY <3>6
      <3> QED
        BY <3>7, <3>9, <3>10, <3>11
    <2>2. CASE ~(offset > p)
      <3>1. ~(offset - Produced(strm) > 0) /\ offset <= l
        BY <1>1, <2>2
      <3>2. PICK s : /\ s = SubSeq(strm.output, Len(strm.output) - offset + 1, Len(strm.output))
                     /\ s = From_(t - offset, offset)
        BY <1>1, <3>1, OutputIsPiece
      <3>3. run = [i \in 1 .. most |-> s[((i - 1) % offset) + 1]]
        BY <3>1, <3>2 DEF MatchRun
      <3>4. \A k \in 1 .. most : k \in 1 .. length
        OBVIOUS
      <3>5. \A k \in 1 .. most : stream.text[t + k] = stream.text[t + k - offset]
        BY <1>3, <3>4
      <3>6. Repeated(s, offset, most) = From_(t, most)
        <4>1. s = From_(t - offset, offset)
          BY <3>2
        <4>2. Repeating(t, offset, most)
          BY <1>3, <3>5 DEF Repeating
        <4> QED
          BY <4>1, <4>2, MatchIsPiece
      <3>7. most \in 0 .. most
        OBVIOUS
      <3> QED
        BY <3>3, <3>6, <3>7 DEF Repeated
    <2> QED
      BY <2>1, <2>2
  <1>5. PICK m \in 0 .. most : run = From_(t, m)
    BY <1>4
  <1>6. t + m <= Len(stream.text)
    BY <1>2, <1>3
  <1>7. Len(run) = m /\ run \in Seq(Byte) /\ Says(run, t)
    BY <1>2, <1>5, <1>6, PieceOfText
  <1> QED
    BY <1>1, <1>7

\* As much of a match as there is room for is put out, from the window or from the
\* output of this call.
LEMMA CopyMatchSays ==
  ASSUME NEW r, NEW w, Holds(r, w), CopyMatch
  PROVE  TextOK(r, w)'
  <1>1. /\ call.at = "inflate" /\ state.mode = "MATCH" /\ state.mode # "BAD" /\ ~ReadsField
        /\ Rest /\ Synced(r) /\ Buffers /\ Right /\ Running /\ Limits /\ Matching
        /\ DOMAIN state = StateFields /\ DOMAIN strm = StrmFields /\ strm.avail_out \in Nat
        /\ WindowSays(state, Earlier)
    BY InCall DEF CopyMatch, In, Rest, Records, ReadsField, Running, Room, Windows, Unwindowed,
                  Matching
  <1>2. Follows(r)
    BY <1>1, CopyMatchKeeps
  <1>3. PICK i \in 1 .. Len(stream.fields) + 1 :
          /\ AtField(r, w, i) /\ Tells(w[i]) /\ ChecksSay(w[i]) /\ Total \in Nat
    BY <1>1, PassHere
  <1>4. PICK length \in Nat, offset \in Nat : length = state.length /\ offset = state.offset
    BY <1>1 DEF Rest, Room, TableOK
  <1>5. Pending(w[i], length, offset)
    BY <1>1, <1>3, <1>4 DEF Tells
  <1>6. offset # 0
    <2>1. w[i].sound => offset # 0
      BY <1>5 DEF Pending
    <2>2. ~w[i].sound => offset > Total
      BY <1>5 DEF Pending
    <2> QED
      BY <1>3, <2>1, <2>2
  <1>7. CASE TooFarBack(offset)
    <2>1. stream.fault = "broken"
      BY <1>1, <1>5, <1>6, <1>7, FarBack
    <2>2. state' = Bad(state) /\ UNCHANGED <<stream, strm, inflater, call>>
      BY <1>4, <1>7 DEF CopyMatch, Becomes
    <2>3. state'.mode = "BAD" /\ state'.dmax = state.dmax /\ Carried(state', state)
      BY <1>1, <2>2 DEF Bad, StateFields, Carried
    <2>4. Quiet
      BY <1>1, <2>2, <2>3, StateIsQuiet DEF Unwindowed
    <2>5. Limits' /\ Goes(r, w)'
      BY <1>1, <2>1, <2>2, <2>3 DEF Limits, Goes
    <2> QED
      BY <2>4, <2>5, QuietKeeps
  <1>8. CASE ~TooFarBack(offset)
    <2>1. w[i].sound
      BY <1>1, <1>5, <1>6, <1>8, FarBack
    <2>2. PICK room \in Nat, most \in Nat : /\ room = strm.avail_out /\ most = Least({length, room})
                                            /\ most <= length /\ most <= room
      <3>1. PICK S : S = {length, strm.avail_out} /\ S = {length, strm.avail_out, strm.avail_out}
                     /\ S # {}
        OBVIOUS
      <3> QED
        BY <1>1, <3>1, LeastIsLeast
    <2>3. PICK run : run = MatchRun(strm, offset, most)
      OBVIOUS
    <2>4. Len(run) \in 0 .. most /\ run \in Seq(Byte) /\ Says(run, Total)
      BY <1>1, <1>5, <1>6, <1>8, <2>1, <2>2, <2>3, RunSays
    <2>5. PICK m \in Nat, left \in Nat : m = Len(run) /\ left = length - m /\ m <= room
      <3>1. PICK m \in 0 .. most : m = Len(run)
        BY <2>4
      <3>2. length - m \in Nat /\ m <= room /\ m \in Nat
        BY <2>2, <3>1
      <3> QED
        BY <3>1, <3>2
    <2>6. PICK mode : mode = IF length = m THEN "LEN" ELSE "MATCH"
      OBVIOUS
    <2>7. /\ strm' = Put(strm, run) /\ UNCHANGED <<stream, inflater, call>>
          /\ state' = [state EXCEPT !.length = left, !.mode = mode]
      BY <1>1, <1>4, <1>8, <2>2, <2>3, <2>5, <2>6 DEF CopyMatch, StateFields
    <2>8. /\ state'.mode = mode /\ state'.length = left /\ state'.offset = offset
          /\ state'.dmax = state.dmax /\ state'.total = state.total
          /\ state'.check = state.check /\ Carried(state', state)
      BY <1>1, <1>4, <2>7 DEF StateFields, Carried
    <2>9. /\ strm'.output = strm.output \o run /\ strm'.avail_out = strm.avail_out - Len(run)
          /\ strm'.next_in = strm.next_in /\ strm'.avail_in = strm.avail_in
      BY <1>1, <2>7 DEF Put, StrmFields
    <2>10. Puts(run)
      BY <1>1, <2>2, <2>5, <2>7, <2>8, <2>9 DEF Puts, Running, Unwindowed
    <2>11. PICK t \in Nat : t = Total
      BY <1>3
    <2>12. Total' = t + m /\ Earlier' = Earlier /\ stream' = stream
      BY <2>4, <2>5, <2>10, <2>11, PutSays
    <2>13. Stands(r, i)'
      BY <1>1, <1>2, <1>3, <2>6, <2>8 DEF Follows, AtField
    <2>14. Tells(w[i])'
      <3>1. /\ w[i].n = t + length /\ w[i].n <= Len(stream.text) /\ offset <= t
            /\ \A k \in 1 .. length : stream.text[t + k] = stream.text[t + k - offset]
            /\ stream.fault # "broken" => offset <= WSIZE /\ offset <= DMAX
        BY <1>5, <2>1, <2>11 DEF Pending
      <3>2. CASE length = m
        <4>1. state'.mode = "LEN" /\ w[i].n = Total'
          BY <2>6, <2>8, <2>12, <3>1, <3>2
        <4> QED
          BY <2>1, <4>1 DEF Tells, Matching
      <3>3. CASE length # m
        <4>1. ASSUME NEW k \in 1 .. left
              PROVE  stream.text[(t + m) + k] = stream.text[(t + m) + k - offset]
          <5>1. PICK j \in 1 .. length : j = m + k
            BY <2>5
          <5>2. t + j = (t + m) + k /\ t + j - offset = (t + m) + k - offset
            BY <5>1
          <5> QED
            BY <3>1, <5>2
        <4>2. t + length = (t + m) + left /\ offset <= t + m
          BY <2>5, <3>1
        <4>3. Matching' /\ state'.length = left /\ state'.offset = offset
          BY <2>6, <2>8, <3>3 DEF Matching
        <4>4. Pending(w[i], left, offset)'
          BY <1>6, <2>1, <2>12, <3>1, <4>1, <4>2 DEF Pending
        <4> QED
          BY <4>3, <4>4 DEF Tells
      <3> QED
        BY <3>2, <3>3
    <2>15. ChecksSay(w[i])'
      <3>1. state.mode \notin HeadModes
            /\ state'.mode \notin HeadModes \cup {"HEAD", "LENGTH", "CHECK"}
        BY <1>1, <2>6, <2>8 DEF HeadModes
      <3> QED
        BY <1>3, <2>8, <2>12, <3>1, ChecksCarry DEF Carried
    <2>16. Goes(r, w)'
      <3>1. state'.mode # "BAD"
        BY <2>6, <2>8
      <3> QED
        BY <2>12, <2>13, <2>14, <2>15, <3>1 DEF Goes, AtField
    <2>17. state'.mode \notin Unwindowed
      BY <2>6, <2>8 DEF Unwindowed
    <2> QED
      BY <2>4, <2>8, <2>10, <2>16, <2>17, PutKeeps
  <1> QED
    BY <1>7, <1>8

-----------------------------------------------------------------------------
(***************************************************************************)
(* Stored blocks.                                                          *)
(***************************************************************************)
\* A byte of a stored block is the next one of the text.
ByteSays(w, j, n, f) ==
  /\ w[j + 1].sound /\ w[j + 1].n = n + 1 /\ n + 1 <= Len(stream.text)
  /\ stream.text[n + 1] = f.says

\* A byte of a stored block is the next of the text.
LEMMA ByteIsSaid ==
  ASSUME Records, NEW r, NEW w, Known(r, w), NEW j \in 1 .. Len(stream.fields), r[j].mode = "COPY",
         NEW f, f = stream.fields[j], f.mode = "COPY", f.wrong = FALSE,
         w[j].sound, NEW n \in Nat, w[j].n = n
  PROVE  ByteSays(w, j, n, f)
  <1>1. r[j].mode \notin Ended
    BY DEF Ended
  <1>2. /\ w[j + 1] = WrittenAfter(stream, w[j], r[j + 1].flags, f)
        /\ w[j + 1].sound => IsText(stream, w[j], f)
    BY <1>1 DEF Known, IsWriting
  <1>3. IsLiteral(f) /\ ~IsMatch(f) /\ Literal(f) = f.says
    BY DEF IsLiteral, IsMatch, Literal
  <1>4. IsSound(stream, w[j], f)
    BY <1>3 DEF IsSound
  <1>5. w[j + 1] = Written(w[j].n + 1, LengthAfter(w[j], f),
                           IF f.mode = "DIST" THEN f.says.val ELSE w[j].offset,
                           CrcAfter(w[j], r[j + 1].flags, f), TRUE)
    BY <1>2, <1>3, <1>4 DEF WrittenAfter
  <1>6. w[j + 1].sound /\ w[j + 1].n = n + 1
    BY <1>5 DEF Written
  <1> QED
    BY <1>2, <1>3, <1>6 DEF IsText, ByteSays

\* So many bytes of one are the bytes of the text that come next.
BytesSay(w, i, n, bit, m) ==
  /\ w[i + m].sound /\ w[i + m].n = n + m /\ n + m <= Len(stream.text)
  /\ \A k \in 1 .. m : FieldAt(bit + 8 * (k - 1)).says = stream.text[n + k]

\* So are all of them, one by one.
LEMMA BytesAreSaid ==
  ASSUME Records, NEW r, NEW w, Known(r, w), NEW length \in Nat, NEW bit \in Int,
         NEW i \in 1 .. Len(stream.fields) + 1, Before(r, Counts(state, "COPY", length), bit, i),
         w[i].sound, NEW n \in Nat, w[i].n = n, n <= Len(stream.text), Len(stream.text) \in Nat,
         NEW m \in 0 .. length
  PROVE  BytesSay(w, i, n, bit, m)
  <1> DEFINE T == {l \in Nat : BytesSay(w, i, n, bit, l)}
  <1>0. i \in Nat
    BY StreamFacts
  <1>1. 0 \in T
    <2>1. i + 0 = i /\ n + 0 = n
      BY <1>0
    <2> QED
      BY <2>1 DEF BytesSay
  <1>2. ASSUME NEW l \in 0 .. length - 1, l \in T PROVE l + 1 \in T
    <2>1. PICK j : j = i + l
      OBVIOUS
    <2>2. PICK v : v = Counts(state, "COPY", length - l)
      OBVIOUS
    <2>3. PICK b \in Int : b = bit + 8 * l
      OBVIOUS
    <2>4. Before(r, v, b, j)
      BY <2>1, <2>2, <2>3, BytesGoBy DEF Known
    <2>5. v.mode = "COPY" /\ v.count # 0
      <3>1. v.mode = "COPY" /\ v.count = length - l
        BY <2>2 DEF Counts, Reader
      <3> QED
        BY <3>1
    <2>6. Settled(v) = v /\ v.mode \notin Ended /\ v.mode \notin {"STORED", "CHECK"}
      BY <2>5 DEF Settled, Ended
    <2>7. PICK f : f = FieldAt(b)
      OBVIOUS
    <2>8. j \in 1 .. Len(stream.fields) /\ f = stream.fields[j] /\ r[j] = v /\ Fits(v, f)
      BY <2>4, <2>6, <2>7, FieldGoesBy DEF Known
    <2>9. f.mode = "COPY" /\ f.wrong = FALSE
      BY <2>5, <2>8 DEF Fits, Refuses
    <2>10. w[j].sound /\ w[j].n = n + l
      BY <1>2, <2>1 DEF BytesSay
    <2>11. PICK t \in Nat : t = n + l
      OBVIOUS
    <2>12. /\ w[j + 1].sound /\ w[j + 1].n = t + 1 /\ t + 1 <= Len(stream.text)
           /\ stream.text[t + 1] = f.says
      <3>1. r[j].mode = "COPY" /\ w[j].n = t
        BY <2>5, <2>8, <2>10, <2>11
      <3>2. w[j].sound /\ j \in 1 .. Len(stream.fields) /\ f = stream.fields[j]
        BY <2>8, <2>10
      <3>3. ByteSays(w, j, t, f)
        BY <2>9, <3>1, <3>2, ByteIsSaid
      <3> QED
        BY <3>3 DEF ByteSays
    <2>13. j + 1 = i + (l + 1) /\ t + 1 = n + (l + 1)
      BY <1>0, <2>1, <2>11
    <2>14. ASSUME NEW k \in 1 .. l + 1 PROVE FieldAt(bit + 8 * (k - 1)).says = stream.text[n + k]
      <3>1. CASE k \in 1 .. l
        BY <1>2, <3>1 DEF BytesSay
      <3>2. CASE k = l + 1
        <4>1. bit + 8 * (k - 1) = b /\ n + k = t + 1
          BY <2>3, <2>13, <3>2
        <4> QED
          BY <2>7, <2>12, <4>1
      <3> QED
        BY <3>1, <3>2
    <2>15. PICK m_ \in Nat : m_ = l + 1
      OBVIOUS
    <2>16. w[i + m_].sound /\ w[i + m_].n = n + m_ /\ n + m_ <= Len(stream.text)
      BY <2>12, <2>13, <2>15
    <2> QED
      BY <2>14, <2>15, <2>16 DEF BytesSay
  <1> HIDE DEF T
  <1>3. 0 .. length \subseteq T
    BY <1>1, <1>2, InductionUpTo
  <1>4. m \in T
    BY <1>3
  <1> QED
    BY <1>4 DEF T

\* As much of a stored block as there is input and room for is put out.
LEMMA CopySays ==
  ASSUME NEW r, NEW w, Holds(r, w), Copy
  PROVE  TextOK(r, w)'
  <1>1. /\ call.at = "inflate" /\ state.mode = "COPY" /\ state.mode # "BAD"
        /\ Rest /\ Synced(r) /\ IsReading(stream, r) /\ Known(r, w) /\ Buffers /\ Right /\ Running
        /\ Limits /\ Records /\ state.length \in Nat
        /\ DOMAIN state = StateFields /\ DOMAIN strm = StrmFields
    BY InCall DEF Copy, In, Rest, Records, Running, Room
  <1>2. PICK n \in Nat : Passes(r, n) /\ strm'.next_in = strm.next_in + n
    BY <1>1, CopyKeeps
  <1>3. PICK i \in 1 .. Len(stream.fields) + 1 :
          /\ AtField(r, w, i) /\ Tells(w[i]) /\ ChecksSay(w[i]) /\ Total \in Nat
    BY <1>1, PassHere
  <1>4. w[i].sound /\ w[i].n = Total /\ Stands(r, i)
    BY <1>1, <1>3 DEF Tells, Matching, AtField
  <1>5. /\ Len(stream.text) \in Nat /\ stream.text \in Seq(Byte) /\ Total <= Len(stream.text)
        /\ strm.avail_out \in Nat /\ strm.avail_in \in Nat /\ strm.next_in \in Nat
    BY <1>1, OutputCounts DEF Rest, Room
  <1>6. state.mode \notin HeadModes
    BY <1>1 DEF HeadModes
  <1>7. CASE state.length = 0
    <2>1. state' = [state EXCEPT !.mode = "TYPE"] /\ UNCHANGED <<stream, strm, inflater, call>>
      <3>1. PICK S : S = {0, strm.avail_in, strm.avail_out} /\ S # {}
        OBVIOUS
      <3>2. Least(S) <= 0
        BY <1>5, <3>1, LeastIsLeast
      <3>3. Least(S) \in Nat
        BY <1>5, <3>1, LeastIsLeast
      <3>4. ~(Least({state.length, strm.avail_in, strm.avail_out}) > 0)
        BY <1>7, <3>1, <3>2, <3>3
      <3> QED
        BY <3>4 DEF Copy, Becomes
    <2>2. /\ state'.mode = "TYPE" /\ state'.total = state.total
          /\ state'.check = state.check /\ state'.dmax = state.dmax /\ Carried(state', state)
      BY <1>1, <2>1 DEF StateFields, Carried
    <2>3. Quiet
      BY <1>1, <2>1, <2>2, StateIsQuiet DEF Unwindowed
    <2>4. Total' = Total /\ Earlier' = Earlier /\ stream' = stream
      BY <2>3, QuietFrame
    <2>5. n = 0
      BY <1>2, <1>5, <2>1
    <2>6. Stands(r, i)'
      <3>1. PICK k : k = i + n /\ Stands(r, k)'
        BY <1>2, <1>4 DEF Passes
      <3>2. k = i
        BY <1>1, <2>5, <3>1, StreamFacts
      <3> QED
        BY <3>1, <3>2
    <2>7. Tells(w[i])'
      BY <1>4, <2>2, <2>4 DEF Tells, Matching
    <2>8. ChecksSay(w[i])'
      BY <1>3, <1>6, <2>2, <2>4, ChecksCarry DEF Carried, HeadModes
    <2>9. Goes(r, w)' /\ Limits'
      BY <1>1, <2>2, <2>4, <2>6, <2>7, <2>8 DEF Goes, AtField, Limits
    <2> QED
      BY <2>3, <2>9, QuietKeeps
  <1>8. CASE state.length # 0
    <2>1. PICK copy, bytes :
            /\ copy = Least({state.length, strm.avail_in, strm.avail_out}) /\ copy > 0
            /\ bytes = [k \in 1 .. copy |-> FieldAt(8 * (NextByte + k - 1)).says]
            /\ strm' = Put(Taken(copy), bytes)
            /\ state' = [state EXCEPT !.length = @ - copy]
            /\ UNCHANGED <<stream, inflater, call>>
      BY <1>8 DEF Copy
    <2>2. /\ copy \in Nat /\ copy <= state.length /\ copy <= strm.avail_in
          /\ copy <= strm.avail_out
      <3>1. PICK S : S = {state.length, strm.avail_in, strm.avail_out} /\ S # {}
        OBVIOUS
      <3>2. copy = Least(S)
        BY <2>1, <3>1
      <3> QED
        BY <1>1, <1>5, <3>1, <3>2, LeastIsLeast
    <2>3. /\ Width = 0 /\ NextBit = 8 * NextByte /\ NextByte \in Nat
      BY <1>1, NoBitsInBytes DEF TakesBytes
    <2>4. PICK bit \in Int, t \in Nat : bit = NextBit /\ t = Total
      BY <1>3, <2>3
    <2>5. Before(r, Counts(state, "COPY", state.length), bit, i)
      <3>1. View(state) = Counts(state, "COPY", state.length)
        BY <1>1, ViewIs
      <3> QED
        BY <1>1, <1>4, <2>4, <3>1 DEF Stands, Before
    <2>6. /\ w[i + copy].sound /\ w[i + copy].n = t + copy /\ t + copy <= Len(stream.text)
          /\ \A k \in 1 .. copy : FieldAt(bit + 8 * (k - 1)).says = stream.text[t + k]
      <3>1. copy \in 0 .. state.length
        BY <1>1, <2>2
      <3>2. w[i].n = t /\ t <= Len(stream.text)
        BY <1>4, <1>5, <2>4
      <3>3. BytesSay(w, i, t, bit, copy)
        BY <1>1, <1>4, <1>5, <2>5, <3>1, <3>2, BytesAreSaid
      <3> QED
        BY <3>3 DEF BytesSay
    <2>7. bytes = From_(t, copy)
      <3>1. ASSUME NEW k \in 1 .. copy
            PROVE  FieldAt(8 * (NextByte + k - 1)).says = stream.text[t + k]
        <4>1. 8 * (NextByte + k - 1) = bit + 8 * (k - 1)
          BY <2>2, <2>3, <2>4
        <4> QED
          BY <2>6, <4>1
      <3> QED
        BY <2>1, <3>1 DEF From_
    <2>8. bytes \in Seq(Byte) /\ Len(bytes) = copy /\ Says(bytes, Total)
      BY <1>5, <2>2, <2>4, <2>6, <2>7, PieceOfText
    <2>9. /\ strm'.output = strm.output \o bytes
          /\ strm'.avail_out = strm.avail_out - Len(bytes)
          /\ strm'.next_in = strm.next_in + copy
      BY <1>1, <2>1 DEF Put, Taken, StrmFields
    <2>10. n = copy
      BY <1>2, <1>5, <2>2, <2>9
    <2>11. /\ state'.mode = "COPY" /\ state'.total = state.total
           /\ state'.check = state.check /\ state'.dmax = state.dmax /\ Carried(state', state)
      BY <1>1, <2>1 DEF StateFields, Carried
    <2>12. call.in # 0
      BY <1>1, <1>5, <2>1, <2>2 DEF Buffers
    <2>13. Puts(bytes)
      BY <1>1, <2>1, <2>2, <2>8, <2>9, <2>11, <2>12 DEF Puts, Running, Unwindowed
    <2>14. Total' = t + copy /\ Earlier' = Earlier /\ stream' = stream
      BY <2>4, <2>8, <2>13, PutSays
    <2>15. PICK k : k = i + n /\ Stands(r, k)'
      BY <1>2, <1>4 DEF Passes
    <2>16. k \in 1 .. Len(stream'.fields) + 1
      BY <2>15 DEF Stands
    <2>17. Tells(w[k])'
      BY <2>6, <2>10, <2>11, <2>14, <2>15 DEF Tells, Matching
    <2>18. ChecksSay(w[k])'
      BY <1>3, <1>6, <2>11, <2>14, ChecksCarry DEF Carried, HeadModes
    <2>19. Goes(r, w)'
      BY <2>11, <2>15, <2>16, <2>17, <2>18 DEF Goes, AtField
    <2> QED
      BY <2>8, <2>11, <2>13, <2>19, PutKeeps DEF Unwindowed
  <1> QED
    BY <1>7, <1>8

-----------------------------------------------------------------------------
(***************************************************************************)
(* Tokens of inflate_fast.                                                 *)
(***************************************************************************)
\* What is written by a field of which f is said.
FieldWrites(v, u, f) ==
  /\ ~IsSound(stream, v, f) => stream.fault = "broken"
  /\ ~IsSound(stream, v, f) => ~u.sound
  /\ IsSound(stream, v, f) =>
       /\ u.sound /\ IsText(stream, v, f)
       /\ u.n = v.n + (IF IsLiteral(f) THEN 1 ELSE IF IsMatch(f) THEN v.length ELSE 0)
       /\ u.length = LengthAfter(v, f)
       /\ u.offset = IF f.mode = "DIST" THEN f.says.val ELSE v.offset
  /\ stream.fault # "broken" /\ IsMatch(f) => Reach(v, f) <= WSIZE /\ Reach(v, f) <= DMAX

\* So does each one that a reader goes over.
LEMMA ReaderWrites ==
  ASSUME Records, NEW r, NEW w, Known(r, w), NEW j \in 1 .. Len(stream.fields) + 1,
         r[j].mode \notin Ended, NEW f, f = stream.fields[j]
  PROVE  /\ j \in 1 .. Len(stream.fields) /\ j + 1 \in 1 .. Len(stream.fields) + 1
         /\ FieldWrites(w[j], w[j + 1], f) /\ Fits(r[j], f) /\ r[j + 1] = After(r[j], f)
  <1>1. Len(stream.fields) \in Nat
    BY StreamFacts
  <1>2. j <= Len(stream.fields) /\ Fits(r[j], f) /\ r[j + 1] = After(r[j], f)
    BY DEF Known, IsReading
  <1>3. j \in 1 .. Len(stream.fields) /\ j + 1 \in 1 .. Len(stream.fields) + 1
    BY <1>1, <1>2
  <1>4. PICK v, u : v = w[j] /\ u = w[j + 1]
    OBVIOUS
  <1>5. /\ u = WrittenAfter(stream, v, r[j + 1].flags, f)
        /\ u.sound => IsText(stream, v, f)
    BY <1>3, <1>4 DEF Known, IsWriting
  <1>6. stream.fault # "broken" => u.sound
    BY <1>3, <1>4 DEF Known, IsFault
  <1>7. stream.fault # "broken" /\ IsMatch(f) => Reach(v, f) <= WSIZE /\ Reach(v, f) <= DMAX
    BY <1>3, <1>4 DEF Known, IsFault
  <1>8. CASE ~IsSound(stream, v, f)
    <2>1. u = Written(v.n, v.length, v.offset, v.crc, FALSE)
      BY <1>5, <1>8 DEF WrittenAfter
    <2>2. u.sound = FALSE
      BY <2>1 DEF Written
    <2>3. FieldWrites(v, u, f)
      BY <1>6, <1>7, <1>8, <2>2 DEF FieldWrites
    <2> QED
      BY <1>2, <1>3, <1>4, <2>3
  <1>9. CASE IsSound(stream, v, f)
    <2>1. u = Written(v.n + (IF IsLiteral(f) THEN 1 ELSE IF IsMatch(f) THEN v.length ELSE 0),
                      LengthAfter(v, f), IF f.mode = "DIST" THEN f.says.val ELSE v.offset,
                      CrcAfter(v, r[j + 1].flags, f), TRUE)
      BY <1>5, <1>9 DEF WrittenAfter
    <2>2. /\ u.sound = TRUE /\ u.length = LengthAfter(v, f)
          /\ u.n = v.n + (IF IsLiteral(f) THEN 1 ELSE IF IsMatch(f) THEN v.length ELSE 0)
          /\ u.offset = IF f.mode = "DIST" THEN f.says.val ELSE v.offset
      BY <2>1 DEF Written
    <2>3. FieldWrites(v, u, f)
      BY <1>5, <1>7, <1>9, <2>2 DEF FieldWrites
    <2> QED
      BY <1>2, <1>3, <1>4, <2>3
  <1> QED
    BY <1>8, <1>9

\* After the fields of a length the reader knows it and stands before a distance.
LengthSays(r, w, i, n) ==
  /\ Past(i) \in 1 .. Len(stream.fields) + 1 /\ r[Past(i)].mode = "DIST"
  /\ w[Past(i)].sound /\ w[Past(i)].n = n /\ w[Past(i)].length = LengthAt(stream, i)

\* The length of a match is written with its extra bits.
LEMMA LengthIsSaid ==
  ASSUME Records, NEW r, NEW w, Known(r, w), NEW i \in 1 .. Len(stream.fields),
         r[i].mode = "LEN", NEW l, l = stream.fields[i], l.wrong = FALSE, l.says.op = "base",
         w[i].sound, NEW n \in Nat, w[i].n = n
  PROVE  LengthSays(r, w, i, n)
  <1>1. /\ i + 1 \in 1 .. Len(stream.fields) + 1 /\ FieldWrites(w[i], w[i + 1], l)
        /\ Fits(r[i], l) /\ r[i + 1] = After(r[i], l) /\ r[i].mode \notin Ended
    <2>1. r[i].mode \notin Ended /\ i \in 1 .. Len(stream.fields) + 1
      BY StreamFacts DEF Ended
    <2> QED
      BY <2>1, ReaderWrites
  <1>2. l.mode = "LEN" /\ l.says.val \in Nat /\ l.says.extra \in Nat
    BY <1>1 DEF Fits, IsSaid
  <1>3. PICK v : v = Counts(r[i], "LENEXT", l.says.extra)
    OBVIOUS
  <1>4. v.mode = "LENEXT" /\ v.count = l.says.extra
    BY <1>3 DEF Counts, Reader
  <1>5. r[i + 1] = Settled(v)
    <2>1. AfterField(r[i], l) = Symbol(r[i], l.says)
      BY AfterTokenIs
    <2>2. Symbol(r[i], l.says) = v
      BY <1>3 DEF Symbol
    <2> QED
      BY <1>1, <2>1, <2>2 DEF After
  <1>6. w[i + 1].sound /\ w[i + 1].n = n /\ w[i + 1].length = l.says.val
    <2>1. ~IsLiteral(l) /\ ~IsMatch(l)
      BY <1>2 DEF IsLiteral, IsMatch
    <2>2. IsSound(stream, w[i], l) /\ LengthAfter(w[i], l) = l.says.val
      BY <1>2, <2>1 DEF IsSound, LengthAfter
    <2> QED
      BY <1>1, <2>1, <2>2 DEF FieldWrites
  <1>7. CASE l.says.extra = 0
    <2>1. r[i + 1] = Step_(v, "DIST")
      BY <1>4, <1>5, <1>7 DEF Settled
    <2>2. r[i + 1].mode = "DIST" /\ Past(i) = i + 1 /\ LengthAt(stream, i) = l.says.val
      BY <1>2, <1>7, <2>1 DEF Step_, Reader, Past, LengthAt
    <2> QED
      BY <1>1, <1>6, <2>2 DEF LengthSays
  <1>8. CASE l.says.extra # 0
    <2>1. PICK j, f : j = i + 1 /\ f = stream.fields[j]
      OBVIOUS
    <2>2. r[j] = v /\ r[j].mode = "LENEXT" /\ r[j].mode \notin Ended
      BY <1>4, <1>5, <1>8, <2>1 DEF Settled, Ended
    <2>3. /\ j + 1 \in 1 .. Len(stream.fields) + 1 /\ FieldWrites(w[j], w[j + 1], f)
          /\ Fits(v, f) /\ r[j + 1] = After(v, f)
      BY <1>1, <2>1, <2>2, ReaderWrites
    <2>4. f.mode = "LENEXT" /\ f.wrong = FALSE /\ f.says \in Nat
      BY <1>4, <2>3 DEF Fits, Refuses, IsSaid
    <2>5. r[j + 1].mode = "DIST"
      <3>1. PICK u : u = Step_(v, "DIST")
        OBVIOUS
      <3>2. u.mode = "DIST"
        BY <3>1 DEF Step_, Reader
      <3>3. Settled(u) = u
        BY <3>2, SettledIs
      <3>4. AfterField(v, f) = u
        BY <1>4, <2>4, <3>1, AfterTokenIs
      <3>5. After(v, f) = u
        BY <2>2, <3>3, <3>4 DEF After
      <3> QED
        BY <2>3, <3>2, <3>5
    <2>6. w[j + 1].sound /\ w[j + 1].n = n /\ w[j + 1].length = l.says.val + f.says
      <3>1. ~IsLiteral(f) /\ ~IsMatch(f)
        BY <2>4 DEF IsLiteral, IsMatch
      <3>2. IsSound(stream, w[j], f) /\ LengthAfter(w[j], f) = l.says.val + f.says
        BY <1>6, <2>1, <2>4, <3>1 DEF IsSound, LengthAfter
      <3> QED
        BY <1>6, <2>1, <2>3, <3>1, <3>2 DEF FieldWrites
    <2>7. Past(i) = j + 1 /\ LengthAt(stream, i) = l.says.val + f.says
      BY <1>8, <2>1 DEF Past, LengthAt
    <2> QED
      BY <2>3, <2>5, <2>6, <2>7 DEF LengthSays
  <1> QED
    BY <1>7, <1>8

\* The field that completes a match says what is to be copied.
LEMMA MatchIsSaid ==
  ASSUME NEW v, NEW u, NEW f, FieldWrites(v, u, f), v.sound, v.n = Total, Total \in Nat,
         f.wrong = FALSE, IsMatch(f), f.mode \in {"DIST", "DISTEXT"},
         NEW length, length = v.length, NEW offset \in Nat, offset # 0, offset = Reach(v, f)
  PROVE  Pending(u, length, offset)
  <1>1. ~IsLiteral(f) /\ f.mode # "HCRC" /\ f.mode # "CHECK" /\ f.mode # "LENGTH"
    BY DEF IsLiteral
  <1>2. IsSound(stream, v, f) <=> offset <= Total
    BY <1>1 DEF IsSound
  <1>3. CASE offset <= Total
    <2>1. u.n = Total + length /\ u.sound /\ IsText(stream, v, f)
      BY <1>1, <1>2, <1>3 DEF FieldWrites
    <2>2. /\ Total + length <= Len(stream.text)
          /\ \A k \in 1 .. length : stream.text[Total + k] = stream.text[Total + k - offset]
      BY <2>1 DEF IsText
    <2>3. stream.fault # "broken" => offset <= WSIZE /\ offset <= DMAX
      BY DEF FieldWrites
    <2> QED
      BY <1>3, <2>1, <2>2, <2>3 DEF Pending
  <1>4. CASE ~(offset <= Total)
    <2>1. stream.fault = "broken" /\ ~u.sound
      BY <1>2, <1>4 DEF FieldWrites
    <2> QED
      BY <1>4, <2>1 DEF Pending
  <1> QED
    BY <1>3, <1>4

\* A whole match in inflate_fast is what the text has there.
LEMMA MatchSays ==
  ASSUME Rest, Right, Buffers, Running, WindowSays(state, Earlier),
         NEW v, NEW length \in Nat, NEW offset \in Nat, offset # 0, Pending(v, length, offset), v.sound,
         ~TooFarBack(offset), NEW bytes, bytes = MatchBytes(offset, length)
  PROVE  Len(bytes) = length /\ bytes \in Seq(Byte) /\ Says(bytes, Total)
  <1>1. PICK p \in Nat, e \in Nat, t \in Nat, l \in Nat :
          /\ p = Produced(strm) /\ e = Earlier /\ t = Total /\ e + p = t
          /\ l = Len(strm.output) /\ p <= l
    BY OutputCounts
  <1>2. stream.text \in Seq(Byte) /\ Len(stream.text) \in Nat /\ t <= Len(stream.text)
    BY <1>1, OutputCounts
  <1>3. /\ t + length <= Len(stream.text) /\ offset <= t
        /\ \A k \in 1 .. length : stream.text[t + k] = stream.text[t + k - offset]
    BY <1>1 DEF Pending
  <1>4. PICK b \in Nat : b = t - offset /\ b + offset = t
    BY <1>3
  <1>5. PICK older : older = IF offset - Produced(strm) <= 0 THEN <<>>
                             ELSE Window(offset - Produced(strm)) \o
                                  IF offset - Produced(strm) > state.wnext
                                    THEN SubSeq(state.window, 1, state.wnext) ELSE <<>>
    OBVIOUS
  <1>6. PICK recent : recent = SubSeq(strm.output, Len(strm.output) - offset + Len(older) + 1,
                                      Len(strm.output))
    OBVIOUS
  <1>7. bytes = Repeated(older \o recent, offset, length)
    BY <1>5, <1>6 DEF MatchBytes, Repeated
  <1>8. older \o recent = From_(b, offset)
    <2>1. CASE ~(offset > p)
      <3>1. older = <<>> /\ Len(older) = 0
        BY <1>1, <1>5, <2>1
      <3>2. offset <= l /\ l - offset + 0 + 1 = l - offset + 1
        BY <1>1, <2>1
      <3>3. recent = From_(t - offset, offset)
        BY <1>1, <1>6, <3>1, <3>2, OutputIsPiece
      <3>4. recent = From_(b, offset)
        BY <1>4, <3>3
      <3>5. recent \in Seq(Byte)
        BY <1>2, <1>4, <3>4, PieceOfText
      <3>6. <<>> \o recent = recent
        BY <3>5, ConcatEmptySeq
      <3> QED
        BY <3>1, <3>4, <3>6
    <2>2. CASE offset > p
      <3>1. PICK back \in Nat : back = offset - p /\ back > 0 /\ p + back = offset
        BY <1>1, <2>2
      <3>2. /\ offset - Produced(strm) = back /\ ~(offset - Produced(strm) <= 0)
            /\ back <= state.whave
        <4>1. PICK have \in Nat : have = state.whave
          BY StreamAssumption DEF Rest, WindowOK
        <4>2. offset > p => ~(offset - p > have)
          BY <1>1, <4>1 DEF TooFarBack
        <4>3. back <= have /\ ~(back <= 0)
          BY <2>2, <3>1, <4>2
        <4>4. offset - Produced(strm) = back
          BY <1>1, <3>1
        <4> QED
          BY <4>1, <4>3, <4>4
      <3>3. PICK next \in Nat : next = state.wnext
        BY StreamAssumption DEF Rest, WindowOK
      <3>4. PICK n \in Nat : n = IF back > next THEN back - next ELSE back
        OBVIOUS
      <3>5. /\ back <= e
            /\ Window(back) = From_(e - back, n)
            /\ back > next => SubSeq(state.window, 1, next) = From_(e - next, next)
        BY <1>1, <3>1, <3>2, <3>3, <3>4, WindowIsPiece DEF Rest
      <3>6. e - back = b /\ b + back = e
        <4>1. e + p = t
          BY <1>1
        <4> QED
          BY <1>4, <3>1, <4>1
      <3>7. From_(b, n) \in Seq(Byte)
        <4>1. b + n <= Len(stream.text)
          BY <1>1, <1>2, <3>4, <3>6
        <4> QED
          BY <1>2, <4>1, PieceOfText
      <3>8. older = From_(b, back)
        <4>1. CASE back > next
          <5>1. older = From_(b, n) \o From_(e - next, next)
            BY <1>5, <3>2, <3>3, <3>5, <3>6, <4>1
          <5>2. e - next = b + n /\ back = n + next /\ b + back <= Len(stream.text)
            <6>1. n = back - next
              BY <3>4, <4>1
            <6>2. e <= t
              BY <1>1
            <6>3. e <= Len(stream.text)
              BY <1>2, <6>2
            <6>4. e - next = b + n /\ back = n + next /\ b + back = e
              BY <3>6, <6>1
            <6> QED
              BY <6>3, <6>4
          <5>3. PICK m \in Nat : m = e - next /\ m = b + n
            BY <5>2
          <5>4. From_(b, n) \o From_(m, next) = From_(b, back)
            <6>1. Follow(b, n, m, next, back)
              BY <5>2, <5>3 DEF Follow
            <6>2. Joins(b, n, m, next, back)
              BY <1>2, <6>1, PiecesJoin
            <6> QED
              BY <6>2 DEF Joins
          <5> QED
            BY <5>1, <5>3, <5>4
        <4>2. CASE ~(back > next)
          <5>1. older = From_(b, n) \o <<>>
            BY <1>5, <3>2, <3>3, <3>5, <3>6, <4>2
          <5>2. From_(b, n) \o <<>> = From_(b, n)
            BY <3>7, ConcatEmptySeq
          <5> QED
            BY <3>4, <4>2, <5>1, <5>2
        <4> QED
          BY <4>1, <4>2
      <3>9. Len(older) = back
        <4>1. b + back <= Len(stream.text)
          BY <1>1, <1>2, <3>6
        <4> QED
          BY <1>2, <3>8, <4>1, PieceOfText
      <3>10. recent = From_(e, p)
        <4>1. l - offset + back + 1 = l - p + 1
          BY <3>1
        <4>2. recent = SubSeq(strm.output, Len(strm.output) - p + 1, Len(strm.output))
          BY <1>1, <1>6, <3>9, <4>1
        <4>3. recent = From_(t - p, p)
          BY <1>1, <4>2, OutputIsPiece
        <4>4. t - p = e
          BY <1>1
        <4> QED
          BY <4>3, <4>4
      <3>11. From_(b, back) \o From_(e, p) = From_(b, offset)
        <4>1. b + offset <= Len(stream.text)
          BY <1>2, <1>4
        <4>2. e = b + back /\ offset = back + p
          BY <3>1, <3>6
        <4>3. Follow(b, back, e, p, offset)
          BY <4>1, <4>2 DEF Follow
        <4>4. Joins(b, back, e, p, offset)
          BY <1>2, <4>3, PiecesJoin
        <4> QED
          BY <4>4 DEF Joins
      <3> QED
        BY <3>8, <3>10, <3>11
    <2> QED
      BY <2>1, <2>2
  <1>9. bytes = From_(t, length)
    <2>1. PICK s : s = older \o recent
      OBVIOUS
    <2>2. s = From_(t - offset, offset)
      BY <1>4, <1>8, <2>1
    <2>3. Repeating(t, offset, length)
      BY <1>3 DEF Repeating
    <2>4. Repeated(s, offset, length) = From_(t, length)
      BY <2>2, <2>3, MatchIsPiece
    <2> QED
      BY <1>7, <2>1, <2>4
  <1>10. t + length <= Len(stream.text)
    BY <1>3
  <1>11. Len(bytes) = length /\ bytes \in Seq(Byte) /\ Says(bytes, t)
    BY <1>2, <1>9, <1>10, PieceOfText
  <1> QED
    BY <1>1, <1>11

\* A distance says what is to be copied, in one field or two.
LEMMA DistanceIsSaid ==
  ASSUME Records, NEW r, NEW w, Known(r, w), NEW k \in 1 .. Len(stream.fields), r[k].mode = "DIST",
         NEW d, d = stream.fields[k], w[k].sound, w[k].n = Total, Total \in Nat,
         NEW length, length = w[k].length
  PROVE  /\ d.wrong => stream.fault = "broken"
         /\ d.wrong = FALSE => /\ LengthAt(stream, k) \in Nat /\ LengthAt(stream, k) # 0
                               /\ Pending(w[Past(k)], length, LengthAt(stream, k))
  <1>1. /\ k + 1 \in 1 .. Len(stream.fields) + 1 /\ FieldWrites(w[k], w[k + 1], d)
        /\ Fits(r[k], d) /\ r[k + 1] = After(r[k], d) /\ r[k].mode \notin Ended
    <2>1. r[k].mode \notin Ended /\ k \in 1 .. Len(stream.fields) + 1
      BY StreamFacts DEF Ended
    <2> QED
      BY <2>1, ReaderWrites
  <1>2. d.mode = "DIST" /\ d.wrong \in BOOLEAN
    BY <1>1 DEF Fits
  <1>3. CASE d.wrong
    <2>1. ~IsSound(stream, w[k], d)
      BY <1>3 DEF IsSound
    <2> QED
      BY <1>1, <1>3, <2>1 DEF FieldWrites
  <1>4. CASE d.wrong = FALSE
    <2>1. d.says.val \in Nat /\ d.says.val # 0 /\ d.says.extra \in Nat
      <3>1. IsSaid("DIST", d.says)
        BY <1>1, <1>2, <1>4 DEF Fits
      <3>2. d.says.val \in Nat /\ d.says.val # 0 /\ d.says.extra \in 0 .. 13
        BY <3>1, Zenon DEF IsSaid
      <3>3. \A x \in 0 .. 13 : x \in Nat
        OBVIOUS
      <3> QED
        BY <3>2, <3>3
    <2>2. CASE d.says.extra = 0
      <3>1. PICK offset \in Nat : offset = d.says.val /\ offset # 0
        BY <2>1
      <3>2. Past(k) = k + 1 /\ LengthAt(stream, k) = offset
        BY <2>2, <3>1 DEF Past, LengthAt
      <3>3. IsMatch(d) /\ Reach(w[k], d) = offset
        BY <1>2, <2>2, <3>1 DEF IsMatch, Reach
      <3>4. PICK v, u : v = w[k] /\ u = w[k + 1]
        OBVIOUS
      <3>5. FieldWrites(v, u, d) /\ v.sound /\ v.n = Total /\ length = v.length
            /\ offset = Reach(v, d)
        BY <1>1, <3>3, <3>4
      <3>6. Pending(u, length, offset)
        BY <1>2, <1>4, <3>1, <3>3, <3>5, MatchIsSaid
      <3> QED
        BY <1>4, <3>1, <3>2, <3>4, <3>6
    <2>3. CASE d.says.extra # 0
      <3>1. PICK v : v = Counts(r[k], "DISTEXT", d.says.extra)
        OBVIOUS
      <3>2. v.mode = "DISTEXT" /\ v.count = d.says.extra
        BY <3>1 DEF Counts, Reader
      <3>3. PICK j, f : j = k + 1 /\ f = stream.fields[j]
        OBVIOUS
      <3>4. r[j] = v /\ r[j].mode \notin Ended
        <4>1. AfterField(r[k], d) = v
          BY <1>4, <3>1, AfterTokenIs
        <4>2. Settled(v) = v
          BY <2>3, <3>2 DEF Settled
        <4> QED
          BY <1>1, <3>2, <3>3, <4>1, <4>2 DEF After, Ended
      <3>5. FieldWrites(w[j], w[j + 1], f) /\ Fits(v, f)
        BY <1>1, <3>3, <3>4, ReaderWrites
      <3>6. f.mode = "DISTEXT" /\ f.wrong = FALSE /\ f.says \in Nat
        BY <3>2, <3>5 DEF Fits, Refuses, IsSaid
      <3>7. w[j].sound /\ w[j].n = Total /\ w[j].length = length /\ w[j].offset = d.says.val
        <4>1. ~IsLiteral(d) /\ ~IsMatch(d)
          BY <1>2, <2>3 DEF IsLiteral, IsMatch
        <4>2. IsSound(stream, w[k], d) /\ LengthAfter(w[k], d) = length
          BY <1>2, <1>4, <4>1 DEF IsSound, LengthAfter
        <4> QED
          BY <1>1, <1>2, <3>3, <4>1, <4>2 DEF FieldWrites
      <3>8. PICK offset \in Nat : offset = d.says.val + f.says /\ offset # 0
        <4>1. PICK a \in Nat, c \in Nat : a = d.says.val /\ c = f.says /\ a # 0
          BY <2>1, <3>6
        <4>2. a + c \in Nat /\ (a # 0 => a + c # 0)
          OBVIOUS
        <4> QED
          BY <4>1, <4>2
      <3>9. Past(k) = j + 1 /\ LengthAt(stream, k) = offset
        BY <2>3, <3>3, <3>8 DEF Past, LengthAt
      <3>10. IsMatch(f) /\ Reach(w[j], f) = offset
        BY <3>6, <3>7, <3>8 DEF IsMatch, Reach
      <3>11. PICK x, u : x = w[j] /\ u = w[j + 1]
        OBVIOUS
      <3>12. FieldWrites(x, u, f) /\ x.sound /\ x.n = Total /\ length = x.length
             /\ offset = Reach(x, f)
        BY <3>5, <3>7, <3>10, <3>11
      <3>13. Pending(u, length, offset)
        BY <3>6, <3>8, <3>10, <3>12, MatchIsSaid
      <3> QED
        BY <1>4, <3>8, <3>9, <3>11, <3>13
    <2> QED
      BY <2>2, <2>3
  <1> QED
    BY <1>2, <1>3, <1>4

\* The step leaves the decoder at field k, and has put out what was written up to it.
LEMMA TokenPuts ==
  ASSUME NEW r, NEW w, Holds(r, w), state.mode = "LEN", NEW bytes \in Seq(Byte), Puts(bytes),
         Says(bytes, Total), NEW k, Stands(r, k)', state'.mode \in {"LEN", "TYPE"},
         w[k].sound, w[k].n = Total + Len(bytes),
         state'.total = state.total, state'.check = state.check, state'.dmax = state.dmax
  PROVE  TextOK(r, w)'
  <1>1. Goes(r, w) /\ Running
    BY InCall DEF Puts, Running
  <1>2. PICK i \in 1 .. Len(stream.fields) + 1 : ChecksSay(w[i])
    BY <1>1 DEF Goes, AtField
  <1>3. Total' = Total + Len(bytes) /\ Earlier' = Earlier /\ stream' = stream
    BY PutSays
  <1>4. k \in 1 .. Len(stream'.fields) + 1
    BY DEF Stands
  <1>5. Tells(w[k])'
    BY <1>3 DEF Tells, Matching
  <1>6. ChecksSay(w[k])'
    <2>1. state.mode \notin HeadModes
          /\ state'.mode \notin HeadModes \cup {"HEAD", "LENGTH", "CHECK"}
      BY DEF HeadModes
    <2>2. state'.wrap = state.wrap
      BY DEF Puts, Carried
    <2> QED
      BY <1>2, <1>3, <2>1, <2>2, ChecksCarry
  <1>7. Goes(r, w)'
    BY <1>4, <1>5, <1>6 DEF Goes, AtField
  <1>8. state'.mode \notin Unwindowed
    BY DEF Unwindowed
  <1> QED
    BY <1>7, <1>8, PutKeeps

\* What FastToken says, by what it has read.
LEMMA FastTokenSays ==
  ASSUME NEW r, NEW w, Holds(r, w), FastToken
  PROVE  TextOK(r, w)'
  <1>1. /\ call.at = "fast" /\ Fast /\ UNCHANGED <<stream, inflater, call>>
        /\ state.mode = "LEN" /\ state.mode # "BAD" /\ state.mode # "STORED" /\ ReadsField
        /\ Rest /\ Records /\ Synced(r) /\ IsReading(stream, r) /\ Known(r, w)
        /\ Buffers /\ Right /\ Running /\ Limits /\ WindowSays(state, Earlier)
        /\ DOMAIN state = StateFields /\ DOMAIN strm = StrmFields
    BY InCall DEF FastToken, Fast, Rest, Records, Running, ReadsField, Windows, Unwindowed
  <1>2. PICK i : /\ Ready(r, i) /\ AtField(r, w, i) /\ IsWritten(r, w, i) /\ Stands(r, i)
    BY <1>1, FieldAtHand DEF AtField
  <1>3. /\ i \in 1 .. Len(stream.fields) /\ Here = stream.fields[i] /\ r[i].mode = "LEN"
        /\ Here.mode = "LEN" /\ Here.wrong \in BOOLEAN /\ (~Here.wrong => IsSaid("LEN", Here.says))
    BY <1>1, <1>2 DEF Ready, IsWritten
  <1>4. PICK n \in Nat : n = Total /\ w[i].n = n /\ w[i].sound
    <2>1. Total \in Nat
      BY <1>1, OutputCounts
    <2> QED
      BY <1>1, <1>2, <2>1 DEF AtField, Tells, Matching
  <1>5. PICK t : t = FastRead /\ IsToken(r, i, t)
    BY <1>1, <1>2, FastReadIsToken
  <1>6. Decoded(i, t) /\ t.op \in {"invalid", "literal", "end", "match"} /\ t.take \in Nat
    BY <1>5 DEF IsToken
  <1>7. PICK bad \in BOOLEAN :
          /\ bad = (\/ t.op = "invalid"
                    \/ t.op = "match" /\ (t.offset > state.dmax \/ TooFarBack(t.offset)))
          /\ state' = [state EXCEPT
                !.hold = Without(Held(t.take), t.use),
                !.mode = IF bad THEN "BAD" ELSE IF t.op = "end" THEN "TYPE" ELSE "LEN"]
          /\ strm' = IF t.op = "literal" THEN Put(Taken(t.take), <<Here.says.val>>)
                     ELSE IF t.op = "match" /\ ~bad
                       THEN Put(Taken(t.take), MatchBytes(t.offset, t.length))
                     ELSE Taken(t.take)
    BY <1>5 DEF FastToken
  <1>8. PICK mode :
          /\ mode = IF bad THEN "BAD" ELSE IF t.op = "end" THEN "TYPE" ELSE "LEN"
          /\ state' = [state EXCEPT !.hold = Without(Held(t.take), t.use), !.mode = mode]
    BY <1>7
  <1>9. /\ state'.mode = mode /\ state'.total = state.total
        /\ state'.check = state.check /\ state'.dmax = state.dmax /\ Carried(state', state)
    BY <1>1, <1>7, <1>8 DEF StateFields, Carried
  <1>10. mode # "BAD" => \E j : j = TokenEnd(i) /\ Stands(r, j)'
    BY <1>1, <1>2, <1>9, FastTokenKeeps
  <1>11. call.in # 0 /\ Running' /\ strm.avail_out \in Nat /\ strm.avail_out >= MAX_MATCH
    BY <1>1, StreamAssumption DEF Buffers, Fast, Running, Rest, Room
  <1>12. ASSUME strm' = Taken(t.take), mode # "BAD" => Goes(r, w)', mode = "BAD" => stream.fault = "broken"
         PROVE  TextOK(r, w)'
    <2>1. strm'.output = strm.output /\ strm'.avail_out = strm.avail_out
      BY <1>1, <1>12 DEF Taken, StrmFields
    <2>2. Quiet
      BY <1>1, <1>9, <1>11, <2>1 DEF Quiet, Carried, Unwindowed
    <2>3. Limits' /\ Goes(r, w)'
      BY <1>1, <1>9, <1>12 DEF Limits, Goes
    <2> QED
      BY <2>2, <2>3, QuietKeeps
  <1>13. ASSUME NEW bytes \in Seq(Byte), Len(bytes) <= MAX_MATCH, strm' = Put(Taken(t.take), bytes)
         PROVE  Puts(bytes)
    <2>1. /\ strm'.output = strm.output \o bytes
          /\ strm'.avail_out = strm.avail_out - Len(bytes)
      BY <1>1, <1>13 DEF Put, Taken, StrmFields
    <2>2. Len(bytes) <= strm.avail_out
      <3>1. Len(bytes) \in Nat
        BY LenProperties
      <3>2. PICK a \in Nat, b \in Nat, c \in Nat :
              a = Len(bytes) /\ b = MAX_MATCH /\ c = strm.avail_out /\ a <= b /\ c >= b
        BY <1>11, <1>13, <3>1, StreamAssumption
      <3> QED
        BY <3>2
    <2> QED
      BY <1>1, <1>9, <1>11, <2>1, <2>2 DEF Puts, Running, Unwindowed
  <1>14. FieldWrites(w[i], w[i + 1], Here) /\ i + 1 \in 1 .. Len(stream.fields) + 1
    <2>1. i \in 1 .. Len(stream.fields) + 1 /\ r[i].mode \notin Ended
      BY <1>1, <1>2, <1>3 DEF Stands, Ended
    <2> QED
      BY <1>1, <1>3, <2>1, ReaderWrites
  <1>15. CASE Here.wrong
    <2>1. ~IsSound(stream, w[i], Here)
      BY <1>15 DEF IsSound
    <2>2. stream.fault = "broken" /\ t.op = "invalid"
      BY <1>3, <1>6, <1>14, <1>15, <2>1 DEF FieldWrites, Decoded
    <2> QED
      BY <1>7, <1>8, <1>12, <2>2
  <1>16. CASE Here.wrong = FALSE /\ Here.says.op = "literal"
    <2>1. t.op = "literal" /\ mode = "LEN" /\ TokenEnd(i) = i + 1
      BY <1>3, <1>6, <1>7, <1>8, <1>16 DEF Decoded, TokenEnd
    <2>2. /\ w[i + 1].sound /\ w[i + 1].n = n + 1 /\ n + 1 <= Len(stream.text)
          /\ stream.text[n + 1] = Here.says.val
      <3>1. IsLiteral(Here) /\ ~IsMatch(Here) /\ Literal(Here) = Here.says.val
        BY <1>3, <1>16 DEF IsLiteral, IsMatch, Literal
      <3>2. IsSound(stream, w[i], Here)
        BY <1>3, <1>4, <1>16, <3>1 DEF IsSound
      <3> QED
        BY <1>4, <1>14, <3>1, <3>2 DEF FieldWrites, IsText
    <2>3. Here.says.val \in Byte
      <3>1. stream.text \in Seq(Byte) /\ Len(stream.text) \in Nat
        BY <1>1, OutputCounts
      <3>2. stream.text \in [1 .. Len(stream.text) -> Byte] /\ n + 1 \in 1 .. Len(stream.text)
        BY <2>2, <3>1, LenProperties
      <3> QED
        BY <2>2, <3>2
    <2>4. PICK bytes : bytes = <<Here.says.val>>
      OBVIOUS
    <2>5. bytes \in Seq(Byte) /\ Len(bytes) = 1 /\ bytes[1] = Here.says.val
      BY <2>3, <2>4
    <2>6. Puts(bytes)
      <3>1. Len(bytes) <= MAX_MATCH
        BY <2>5, StreamAssumption
      <3>2. strm' = Put(Taken(t.take), bytes)
        BY <1>7, <1>8, <2>1, <2>4
      <3> QED
        BY <1>13, <2>5, <3>1, <3>2
    <2>7. Says(bytes, Total)
      <3>1. \A k \in 1 .. Len(bytes) : k = 1
        BY <2>5
      <3> QED
        BY <1>4, <2>2, <2>5, <3>1 DEF Says
    <2>8. PICK j : j = i + 1 /\ Stands(r, j)'
      BY <1>10, <2>1
    <2>9. w[j].sound /\ w[j].n = Total + Len(bytes)
      BY <1>4, <2>2, <2>5, <2>8
    <2> QED
      BY <1>1, <1>9, <2>1, <2>5, <2>6, <2>7, <2>8, <2>9, TokenPuts
  <1>17. CASE Here.wrong = FALSE /\ Here.says.op = "end"
    <2>1. t.op = "end" /\ mode = "TYPE" /\ TokenEnd(i) = i + 1
      BY <1>3, <1>6, <1>7, <1>8, <1>17 DEF Decoded, TokenEnd
    <2>2. w[i + 1].sound /\ w[i + 1].n = n
      <3>1. ~IsLiteral(Here) /\ ~IsMatch(Here)
        BY <1>3, <1>17 DEF IsLiteral, IsMatch
      <3>2. IsSound(stream, w[i], Here)
        BY <1>3, <1>4, <1>17, <3>1 DEF IsSound
      <3> QED
        BY <1>4, <1>14, <3>1, <3>2 DEF FieldWrites
    <2>3. PICK j : j = i + 1 /\ Stands(r, j)'
      BY <1>10, <2>1
    <2>4. strm' = Taken(t.take)
      BY <1>7, <1>8, <2>1
    <2>5. Goes(r, w)'
      <3>1. strm'.output = strm.output /\ strm'.avail_out = strm.avail_out
        BY <1>1, <2>4 DEF Taken, StrmFields
      <3>2. Quiet
        BY <1>1, <1>9, <1>11, <3>1 DEF Quiet, Carried, Unwindowed
      <3>3. Total' = Total /\ Earlier' = Earlier /\ stream' = stream
        BY <3>2, QuietFrame
      <3>4. Tells(w[j])'
        BY <1>4, <1>9, <2>1, <2>2, <2>3, <3>3 DEF Tells, Matching
      <3>5. ChecksSay(w[j])'
        <4>1. state.mode \notin HeadModes
              /\ state'.mode \notin HeadModes \cup {"HEAD", "LENGTH", "CHECK"}
          BY <1>1, <1>9, <2>1 DEF HeadModes
        <4>2. ChecksSay(w[i])
          BY <1>2 DEF AtField
        <4> QED
          BY <1>9, <3>3, <4>1, <4>2, ChecksCarry DEF Carried
      <3>6. j \in 1 .. Len(stream'.fields) + 1
        BY <2>3 DEF Stands
      <3> QED
        BY <1>9, <2>1, <2>3, <3>4, <3>5, <3>6 DEF Goes, AtField
    <2> QED
      BY <1>12, <2>1, <2>4, <2>5
  <1>18. CASE Here.wrong = FALSE /\ Here.says.op = "base"
    <2>1. LengthSays(r, w, i, n)
      BY <1>1, <1>3, <1>4, <1>18, LengthIsSaid
    <2>2. PICK k, d, length : k = Past(i) /\ d = stream.fields[k] /\ length = w[k].length
      OBVIOUS
    <2>3. /\ k \in 1 .. Len(stream.fields) /\ r[k].mode = "DIST" /\ w[k].sound /\ w[k].n = Total
          /\ length = LengthAt(stream, i)
      BY <1>3, <1>4, <1>6, <1>18, <2>1, <2>2 DEF LengthSays, Decoded
    <2>4. PICK offset : offset = LengthAt(stream, k)
      OBVIOUS
    <2>5. /\ d.wrong => stream.fault = "broken"
          /\ d.wrong = FALSE => offset \in Nat /\ offset # 0 /\ Pending(w[Past(k)], length, offset)
      <3>1. Total \in Nat
        BY <1>4
      <3> QED
        BY <1>1, <2>2, <2>3, <2>4, <3>1, DistanceIsSaid
    <2>6. /\ d.wrong \in BOOLEAN /\ TokenEnd(i) = Past(k)
          /\ d.wrong => t.op = "invalid"
          /\ ~d.wrong => t.op = "match" /\ t.length = length /\ t.offset = offset
      BY <1>3, <1>6, <1>18, <2>2, <2>3, <2>4 DEF Decoded, TokenEnd
    <2>7. CASE d.wrong
      BY <1>7, <1>8, <1>12, <2>5, <2>6, <2>7
    <2>8. CASE d.wrong = FALSE
      <3>1. /\ offset \in Nat /\ offset # 0 /\ Pending(w[Past(k)], length, offset)
            /\ t.op = "match" /\ t.length = length /\ t.offset = offset
        BY <2>5, <2>6, <2>8
      <3>2. length \in Nat /\ length <= MAX_MATCH
        BY <1>5, <3>1 DEF IsToken
      <3>3. CASE bad
        <4>1. offset > state.dmax \/ TooFarBack(offset)
          BY <1>7, <1>8, <3>1, <3>3
        <4>2. stream.fault = "broken"
          BY <1>1, <3>1, <4>1, FarBack, FarIsBroken, StreamAssumption
        <4> QED
          BY <1>7, <1>8, <1>12, <3>1, <3>3, <4>2
      <3>4. CASE ~bad
        <4>1. ~TooFarBack(offset) /\ mode = "LEN"
          BY <1>7, <1>8, <3>1, <3>4
        <4>2. w[Past(k)].sound
          BY <1>1, <3>1, <4>1, FarBack
        <4>3. PICK bytes : bytes = MatchBytes(offset, length)
          OBVIOUS
        <4>4. Len(bytes) = length /\ bytes \in Seq(Byte) /\ Says(bytes, Total)
          BY <1>1, <3>1, <3>2, <4>1, <4>2, <4>3, MatchSays
        <4>5. Puts(bytes)
          <5>1. strm' = Put(Taken(t.take), bytes)
            BY <1>7, <1>8, <3>1, <3>4, <4>3
          <5>2. Len(bytes) <= MAX_MATCH
            BY <3>2, <4>4
          <5> QED
            BY <1>13, <4>4, <5>1, <5>2
        <4>6. PICK j : j = Past(k) /\ Stands(r, j)'
          BY <1>10, <2>6, <4>1
        <4>7. w[j].sound /\ w[j].n = Total + Len(bytes)
          BY <3>1, <4>2, <4>4, <4>6 DEF Pending
        <4> QED
          BY <1>1, <1>9, <4>1, <4>4, <4>5, <4>6, <4>7, TokenPuts
      <3> QED
        BY <3>3, <3>4
    <2> QED
      BY <2>6, <2>7, <2>8
  <1>19. ~Here.wrong => Here.says.op \in {"literal", "end", "base"}
    BY <1>3 DEF IsSaid
  <1> QED
    BY <1>3, <1>15, <1>16, <1>17, <1>18, <1>19

-----------------------------------------------------------------------------
(***************************************************************************)
(* The trailer.                                                            *)
(***************************************************************************)
\* The text up to a place is a piece of it.
LEMMA PrefixIsPiece ==
  ASSUME NEW n \in Nat
  PROVE  SubSeq(stream.text, 1, n) = From_(0, n)
  <1>1. SubSeq(stream.text, 1, n) = [k \in 1 .. (1 + n - 1) |-> stream.text[1 + k - 1]]
    BY DEF SubSeq
  <1>2. 1 + n - 1 = n
    OBVIOUS
  <1>3. ASSUME NEW k \in 1 .. n PROVE stream.text[1 + k - 1] = stream.text[0 + k]
    <2>1. 1 + k - 1 = 0 + k
      OBVIOUS
    <2> QED
      BY <2>1
  <1> QED
    BY <1>1, <1>2, <1>3 DEF From_

\* What is summed up at the end of a call or before the trailer is the text so far.
LEMMA SumIsText ==
  ASSUME Rest, Right, Buffers, Running, DOMAIN state = StateFields,
         NEW s, DOMAIN s = StateFields, s.check = SubSeq(stream.text, 1, Earlier),
         s.total = Earlier
  PROVE  /\ Summed(s, Produced(strm)).check = SubSeq(stream.text, 1, Total)
         /\ Summed(s, Produced(strm)).total = Total
  <1>1. PICK e \in Nat, p \in Nat, t \in Nat, l \in Nat :
          /\ e = Earlier /\ p = Produced(strm) /\ t = Total /\ l = Len(strm.output)
          /\ e + p = t /\ p <= l
    BY OutputCounts
  <1>2. stream.text \in Seq(Byte) /\ t <= Len(stream.text) /\ Len(stream.text) \in Nat
    BY <1>1, OutputCounts
  <1>3. PICK piece : piece = SubSeq(strm.output, Len(strm.output) - p + 1, Len(strm.output))
    OBVIOUS
  <1>4. piece = From_(e, p)
    <2>1. piece = From_(t - p, p)
      BY <1>1, <1>3, OutputIsPiece
    <2>2. t - p = e
      BY <1>1
    <2> QED
      BY <2>1, <2>2
  <1>5. From_(0, e) \o From_(e, p) = From_(0, t)
    <2>1. e = 0 + e /\ t = e + p /\ 0 + t <= Len(stream.text)
      BY <1>1, <1>2
    <2>2. Follow(0, e, e, p, t)
      BY <2>1 DEF Follow
    <2>3. Joins(0, e, e, p, t)
      BY <1>2, <2>2, PiecesJoin
    <2> QED
      BY <2>3 DEF Joins
  <1>6. /\ Summed(s, Produced(strm)).check = s.check \o piece
        /\ Summed(s, Produced(strm)).total = s.total + p
    BY <1>1, <1>3 DEF Summed, StateFields
  <1>7. s.check = From_(0, e) /\ SubSeq(stream.text, 1, t) = From_(0, t)
    BY <1>1, PrefixIsPiece
  <1> QED
    BY <1>1, <1>4, <1>5, <1>6, <1>7

\* The check value of the output.
LEMMA ReadCheckSays ==
  ASSUME NEW r, NEW w, Holds(r, w), ReadCheck
  PROVE  TextOK(r, w)'
  <1>1. /\ Reads("CHECK") /\ call.at = "inflate" /\ state.mode = "CHECK" /\ state.mode # "STORED"
        /\ Rest /\ Synced(r) /\ IsReading(stream, r) /\ DOMAIN state = StateFields /\ ReadsField
        /\ Right /\ Buffers /\ Limits /\ Running /\ DOMAIN call = CallFields /\ ~inflater.ended
    BY InCall DEF ReadCheck, Reads, In, Rest, Records, ReadsField, Running
  <1>2. Follows(r)
    BY <1>1, ReadCheckKeeps
  <1>3. PICK i : /\ Ready(r, i) /\ \A j : Ready(r, j) => j = i
                 /\ IsWritten(r, w, i) /\ Tells(w[i]) /\ ChecksSay(w[i])
                 /\ Total \in Nat /\ Earlier \in Nat /\ Earlier <= Total
    BY <1>1, FieldHere
  <1>4. /\ Here.wrong = FALSE /\ Here.mode = "CHECK" /\ w[i].sound /\ w[i].n = Total
        /\ state.wrap # 0 /\ state.total = Earlier
        /\ state.check = SubSeq(stream.text, 1, Earlier)
    BY <1>1, <1>3 DEF Ready, Refuses, IsWritten, Tells, Matching, ChecksSay, HeadModes
  <1>5. PICK s : s = Summed(state, Produced(strm))
    OBVIOUS
  <1>6. s.check = SubSeq(stream.text, 1, Total) /\ s.total = Total
    BY <1>1, <1>4, <1>5, SumIsText
  <1>7. /\ DOMAIN s = StateFields /\ s.wrap = state.wrap /\ s.dmax = state.dmax
        /\ s.flags = state.flags
    BY <1>1, <1>5 DEF Summed, StateFields
  <1>8. /\ state' = IF Here.says # s.check THEN Bad(s)
                    ELSE [InitBits(s) EXCEPT !.mode = IF s.flags = {} THEN "DONE" ELSE "LENGTH"]
        /\ call' = [call EXCEPT !.out = strm.avail_out] /\ UNCHANGED <<stream, strm, inflater>>
    BY <1>5 DEF ReadCheck
  <1>9. /\ state'.mode = IF Here.says # s.check THEN "BAD"
                         ELSE IF s.flags = {} THEN "DONE" ELSE "LENGTH"
        /\ state'.wrap = s.wrap /\ state'.dmax = s.dmax
        /\ state'.check = s.check /\ state'.total = s.total
    BY <1>7, <1>8 DEF Bad, InitBits, StateFields
  <1>10. /\ call'.at = "inflate" /\ call'.in = call.in /\ call'.out = strm.avail_out
         /\ call'.allowBufError = call.allowBufError
    BY <1>1, <1>8 DEF CallFields
  <1>11. Fresh /\ Fresh' /\ Running' /\ Sent' = Sent /\ Total' = Total
    BY <1>1, <1>8, <1>10 DEF Fresh, Running, Sent, Total
  <1>12. Earlier' = Total
    <2>1. strm.avail_out \in Nat
      BY <1>1 DEF Rest, Room
    <2>2. Produced(strm)' = 0
      BY <1>8, <1>10, <2>1 DEF Produced
    <2>3. Earlier' = Total - 0
      BY <1>11, <2>2 DEF Earlier
    <2> QED
      BY <1>3, <2>3
  <1>13. Right'
    <2>1. Says(inflater.delivered, 0) /\ Says(strm.output, Sent)
      BY <1>1, <1>11 DEF Right
    <2>2. Says(inflater.delivered, 0)' /\ Says(strm.output, Sent)'
      BY <1>8, <1>11, <2>1 DEF Says
    <2> QED
      BY <2>2 DEF Right
  <1>14. Buffers'
    <2>1. strm'.avail_out \in 0 .. inflater'.chunkSize
      BY <1>1, <1>8 DEF Rest, Room
    <2> QED
      BY <1>1, <1>8, <1>9, <1>10, <1>11, <2>1 DEF Buffers
  <1>15. Limits' /\ Windows'
    BY <1>1, <1>7, <1>8, <1>9 DEF Limits, Windows, Unwindowed
  <1>16. Goes(r, w)'
    <2>1. CASE Here.says # s.check
      <3>1. ~IsSound(stream, w[i], Here)
        BY <1>4, <1>6, <2>1 DEF IsSound
      <3>2. stream.fault = "broken"
        BY <1>3, <3>1, UnsoundIsBroken
      <3> QED
        BY <1>8, <1>9, <2>1, <3>2 DEF Goes
    <2>2. CASE Here.says = s.check
      <3>1. state'.mode \in {"DONE", "LENGTH"} /\ state'.mode # "BAD"
        BY <1>9, <2>2
      <3>2. PICK k : k = i + 1 /\ Stands(r, k)'
        BY <1>1, <1>2, <1>3, <3>1, GoesTo
      <3>3. Tells(w[k])'
        <4>1. state.mode \notin Tokens \cup {"COPY", "LIT", "MATCH"}
              /\ state'.mode \notin {"LIT", "MATCH", "LENEXT", "DIST", "DISTEXT"}
          BY <1>1, <3>1 DEF Tokens
        <4>2. state.mode = "CHECK" => Here.says = SubSeq(stream.text, 1, w[i].n)
          BY <1>4, <1>6, <2>2
        <4>3. Tells(w[i + 1])'
          BY <1>1, <1>3, <1>4, <1>11, <4>1, <4>2, DullTells
        <4> QED
          BY <3>2, <4>3
      <3>4. ChecksSay(w[k])'
        BY <1>4, <1>6, <1>7, <1>8, <1>9, <1>11, <1>12, <3>1 DEF ChecksSay, HeadModes
      <3>5. k \in 1 .. Len(stream'.fields) + 1
        BY <3>2 DEF Stands
      <3> QED
        BY <3>1, <3>2, <3>3, <3>4, <3>5 DEF Goes, AtField
    <2> QED
      BY <2>1, <2>2
  <1> QED
    BY <1>1, <1>8, <1>10, <1>13, <1>14, <1>15, <1>16 DEF TextOK, Outputs, EndsAsItShould

\* Its length.
LEMMA ReadLengthSays ==
  ASSUME NEW r, NEW w, Holds(r, w), ReadLength
  PROVE  TextOK(r, w)'
  <1>1. /\ Reads("LENGTH") /\ call.at = "inflate" /\ state.mode = "LENGTH"
        /\ state.mode # "STORED" /\ Rest /\ Synced(r) /\ IsReading(stream, r)
        /\ DOMAIN state = StateFields /\ ReadsField /\ Limits
    BY InCall DEF ReadLength, Reads, In, Rest, Records, ReadsField
  <1>2. Follows(r)
    BY <1>1, ReadLengthKeeps
  <1>3. PICK i : /\ Ready(r, i) /\ \A j : Ready(r, j) => j = i
                 /\ IsWritten(r, w, i) /\ Tells(w[i]) /\ ChecksSay(w[i])
                 /\ Total \in Nat /\ Earlier \in Nat /\ Earlier <= Total
    BY <1>1, FieldHere
  <1>4. /\ Here.wrong = FALSE /\ Here.mode = "LENGTH" /\ w[i].sound /\ w[i].n = Total
        /\ state.wrap # 0 /\ state.total = Total
    BY <1>1, <1>3 DEF Ready, Refuses, IsWritten, Tells, Matching, ChecksSay, HeadModes
  <1>5. CASE Here.says # state.total
    <2>1. ~IsSound(stream, w[i], Here)
      BY <1>4, <1>5 DEF IsSound
    <2>2. Becomes(Bad(state))
      BY <1>5 DEF ReadLength
    <2> QED
      BY <1>1, <1>2, <1>3, <2>1, <2>2, UnsoundIsBroken, RefusedIsBroken
  <1>6. CASE Here.says = state.total
    <2>1. state' = [InitBits(state) EXCEPT !.mode = "DONE"]
          /\ UNCHANGED <<stream, strm, inflater, call>>
      BY <1>6 DEF ReadLength, Becomes
    <2>2. /\ state'.mode = "DONE" /\ state'.total = state.total /\ state'.check = state.check
          /\ state'.dmax = state.dmax /\ Carried(state', state)
      BY <1>1, <2>1 DEF InitBits, StateFields, Carried
    <2>3. Quiet
      BY <1>1, <2>1, <2>2, StateIsQuiet DEF Unwindowed
    <2>4. Total' = Total /\ Earlier' = Earlier /\ stream' = stream
      BY <2>3, QuietFrame
    <2>5. Tells(w[i + 1])'
      <3>1. state.mode \notin Tokens \cup {"COPY", "LIT", "MATCH"}
        BY <1>1 DEF Tokens
      <3>2. state.mode = "LENGTH" => Here.says = w[i].n
        BY <1>4, <1>6
      <3> QED
        BY <1>1, <1>3, <1>4, <2>2, <2>4, <3>1, <3>2, DullTells
    <2>6. ChecksSay(w[i + 1])'
      BY <1>1, <1>3, <2>2, <2>4 DEF ChecksSay, HeadModes, Carried
    <2>7. Limits' /\ state'.mode # "BAD"
      BY <1>1, <2>2 DEF Limits
    <2> QED
      BY <1>1, <1>2, <1>3, <2>3, <2>5, <2>6, <2>7, FieldSays
  <1> QED
    BY <1>5, <1>6

-----------------------------------------------------------------------------
(***************************************************************************)
(* The window after a call.                                                *)
(***************************************************************************)
\* The lesser of two numbers.
LEMMA LeastOfTwo ==
  ASSUME NEW a \in Nat, NEW b \in Nat
  PROVE  Least({a, b}) = IF a <= b THEN a ELSE b
  <1>1. PICK S : S = {a, b} /\ S = {a, b, b} /\ S # {}
    OBVIOUS
  <1>2. Least(S) \in Nat /\ Least(S) \in S /\ Least(S) <= a /\ Least(S) <= b
    BY <1>1, LeastIsLeast
  <1> QED
    BY <1>1, <1>2

\* The place in the window where a byte goes that is put behind its end.
LEMMA PlaceInWindow ==
  ASSUME NEW size \in Nat, NEW next \in Nat, next < size, NEW j \in 1 .. size
  PROVE  ((j - 1 - next) % size) + 1 = IF j > next THEN j - next ELSE j + size - next
  <1>1. PICK d \in Int : d = j - 1 - next
    OBVIOUS
  <1>2. /\ d \in 0 .. size - 1 => d % size = d
        /\ -size <= d /\ d < 0 => d % size = d + size
    BY Remainders
  <1>3. CASE j > next
    <2>1. d \in 0 .. size - 1
      BY <1>1, <1>3
    <2>2. d % size = d
      BY <1>2, <2>1
    <2>3. d + 1 = j - next
      BY <1>1
    <2> QED
      BY <1>1, <1>3, <2>2, <2>3
  <1>4. CASE ~(j > next)
    <2>1. -size <= d /\ d < 0
      BY <1>1, <1>4
    <2>2. d % size = d + size
      BY <1>2, <2>1
    <2>3. (d + size) + 1 = j + size - next
      BY <1>1
    <2> QED
      BY <1>1, <1>4, <2>2, <2>3
  <1> QED
    BY <1>3, <1>4

\* A ring of so many places has the last of the first n elements of t, have of them:
\* up to next the last, and behind it what is before them.
Ring(ring, size, next, have, n, t) ==
  /\ have = (IF size <= n THEN size ELSE n)
  /\ next < size /\ (have < size => next = have)
  /\ \A k \in 1 .. next : ring[k] = t[n - next + k]
  /\ have = size => \A k \in next + 1 .. size : ring[k] = t[n - next + k - size]

\* c elements are put into it behind next, and around its end.
Shifted(ring, old, bytes, size, next, c) ==
  \A j \in 1 .. size :
    ring[j] = IF j > next THEN (IF j - next <= c THEN bytes[j - next] ELSE old[j])
              ELSE (IF j + size - next <= c THEN bytes[j + size - next] ELSE old[j])

\* Where they fit in behind next,
LEMMA RingFills ==
  ASSUME NEW size \in Nat, NEW next \in Nat, NEW have \in Nat, NEW n \in Nat, NEW t, NEW old,
         Ring(old, size, next, have, n, t), NEW c \in Nat, next + c < size,
         NEW bytes, \A k \in 1 .. c : bytes[k] = t[n + k],
         NEW ring, Shifted(ring, old, bytes, size, next, c)
  PROVE  Ring(ring, size, next + c, IF have < size THEN have + c ELSE have, n + c, t)
  <1>1. /\ have = (IF size <= n THEN size ELSE n) /\ next < size /\ (have < size => next = have)
        /\ \A k \in 1 .. next : old[k] = t[n - next + k]
        /\ have = size => \A k \in next + 1 .. size : old[k] = t[n - next + k - size]
    BY DEF Ring
  <1>2. PICK m \in Nat, l \in Nat : m = next + c /\ l = n + c /\ m < size
    OBVIOUS
  <1>3. PICK h \in Nat : h = (IF have < size THEN have + c ELSE have)
    OBVIOUS
  <1>4. h = (IF size <= l THEN size ELSE l) /\ (h < size => m = h) /\ (h = size => have = size)
    BY <1>1, <1>2, <1>3
  <1>5. ASSUME NEW k \in 1 .. m PROVE ring[k] = t[l - m + k]
    <2>1. CASE k <= next
      <3>1. k \in 1 .. size /\ ~(k > next) /\ ~(k + size - next <= c) /\ k \in 1 .. next
            /\ l - m + k = n - next + k
        BY <1>2, <2>1
      <3>2. ring[k] = old[k]
        BY <3>1 DEF Shifted
      <3> QED
        BY <1>1, <3>1, <3>2
    <2>2. CASE k > next
      <3>1. PICK i \in 1 .. c : i = k - next
        BY <1>2, <2>2
      <3>2. k \in 1 .. size /\ k - next <= c /\ l - m + k = n + i
        BY <1>2, <3>1
      <3>3. ring[k] = bytes[i]
        BY <2>2, <3>1, <3>2 DEF Shifted
      <3> QED
        BY <3>2, <3>3
    <2> QED
      BY <2>1, <2>2
  <1>6. ASSUME h = size, NEW k \in m + 1 .. size PROVE ring[k] = t[l - m + k - size]
    <2>1. /\ k \in 1 .. size /\ k > next /\ ~(k - next <= c) /\ k \in next + 1 .. size
          /\ l - m + k - size = n - next + k - size
      BY <1>2
    <2>2. ring[k] = old[k]
      BY <2>1 DEF Shifted
    <2>3. have = size
      BY <1>4, <1>6
    <2> QED
      BY <1>1, <2>1, <2>2, <2>3
  <1>7. Ring(ring, size, m, h, l, t)
    BY <1>2, <1>4, <1>5, <1>6 DEF Ring
  <1> QED
    BY <1>2, <1>3, <1>7

\* and where they do not.
LEMMA RingWraps ==
  ASSUME NEW size \in Nat, NEW next \in Nat, NEW have \in Nat, NEW n \in Nat, NEW t, NEW old,
         Ring(old, size, next, have, n, t), NEW c \in Nat, c < size, size <= next + c,
         NEW bytes, \A k \in 1 .. c : bytes[k] = t[n + k],
         NEW ring, Shifted(ring, old, bytes, size, next, c)
  PROVE  Ring(ring, size, next + c - size, size, n + c, t)
  <1>1. /\ have = (IF size <= n THEN size ELSE n) /\ next < size /\ (have < size => next = have)
        /\ \A k \in 1 .. next : old[k] = t[n - next + k]
        /\ have = size => \A k \in next + 1 .. size : old[k] = t[n - next + k - size]
    BY DEF Ring
  <1>2. PICK m \in Nat, l \in Nat : m = next + c - size /\ l = n + c /\ m < next /\ m < size
    BY <1>1
  <1>3. size <= l
    BY <1>1, <1>2
  <1>4. ASSUME NEW k \in 1 .. m PROVE ring[k] = t[l - m + k]
    <2>1. PICK i \in 1 .. c : i = k + size - next
      BY <1>1, <1>2
    <2>2. k \in 1 .. size /\ ~(k > next) /\ k + size - next <= c /\ l - m + k = n + i
      BY <1>1, <1>2, <2>1
    <2>3. ring[k] = bytes[i]
      BY <2>1, <2>2 DEF Shifted
    <2> QED
      BY <2>2, <2>3
  <1>5. ASSUME NEW k \in m + 1 .. size PROVE ring[k] = t[l - m + k - size]
    <2>1. CASE k <= next
      <3>1. /\ k \in 1 .. size /\ ~(k > next) /\ ~(k + size - next <= c) /\ k \in 1 .. next
            /\ l - m + k - size = n - next + k
        BY <1>1, <1>2, <2>1
      <3>2. ring[k] = old[k]
        BY <3>1 DEF Shifted
      <3> QED
        BY <1>1, <3>1, <3>2
    <2>2. CASE k > next
      <3>1. PICK i \in 1 .. c : i = k - next
        BY <1>2, <2>2
      <3>2. k \in 1 .. size /\ k - next <= c /\ l - m + k - size = n + i
        BY <1>2, <3>1
      <3>3. ring[k] = bytes[i]
        BY <2>2, <3>1, <3>2 DEF Shifted
      <3> QED
        BY <3>2, <3>3
    <2> QED
      BY <2>1, <2>2
  <1>6. Ring(ring, size, m, size, l, t)
    BY <1>2, <1>3, <1>4, <1>5 DEF Ring
  <1> QED
    BY <1>2, <1>6

\* The window is such a ring.
LEMMA WindowIsRing ==
  ASSUME NEW v, NEW n \in Nat, v.wsize \in Nat, v.wsize # 0
  PROVE  /\ WindowSays(v, n) /\ (v.whave < v.wsize => v.wnext = v.whave) =>
              Ring(v.window, v.wsize, v.wnext, v.whave, n, stream.text)
         /\ Ring(v.window, v.wsize, v.wnext, v.whave, n, stream.text) => WindowSays(v, n)
  <1>1. Least({v.wsize, n}) = IF v.wsize <= n THEN v.wsize ELSE n
    BY LeastOfTwo
  <1> QED
    BY <1>1 DEF WindowSays, Ring

\* What becomes of whave, and of wnext.
Grown(size, next, have, c) ==
  LET dist == Least({size - next, c})
  IN  IF dist < c THEN size ELSE IF have < size THEN have + dist ELSE have
Grows(size, next, have, c, m, h) ==
  /\ next + c < size => m = next + c /\ h = (IF have < size THEN have + c ELSE have)
  /\ size <= next + c => m = next + c - size /\ h = size

\* Where the window ends, and how much it holds, after so many bytes more.
LEMMA RingNumbers ==
  ASSUME NEW size \in Nat, NEW next \in Nat, NEW have \in Nat, NEW c \in Nat,
         have <= size, next < size, have < size => next = have, c < size
  PROVE  Grows(size, next, have, c, (next + c) % size, Grown(size, next, have, c))
  <1>1. PICK a \in Nat : a = size - next /\ a + next = size
    OBVIOUS
  <1>2. PICK dist, h :
          /\ dist \in Nat /\ dist = Least({size - next, c}) /\ dist = (IF a <= c THEN a ELSE c)
          /\ h = Grown(size, next, have, c)
          /\ h = (IF dist < c THEN size ELSE IF have < size THEN have + dist ELSE have)
    <2>1. PICK d \in Nat : d = Least({a, c}) /\ d = IF a <= c THEN a ELSE c
      BY LeastOfTwo
    <2>2. d = Least({size - next, c})
      BY <1>1, <2>1
    <2> QED
      BY <2>1, <2>2 DEF Grown
  <1>3. PICK k \in Nat : k = next + c
    OBVIOUS
  <1>4. size > 0 /\ k \in Int
    OBVIOUS
  <1>5. /\ k \in 0 .. size - 1 => k % size = k
        /\ size <= k /\ k < 2 * size => k % size = k - size
    BY <1>4, Remainders
  <1>6. k < size => k \in 0 .. size - 1
    OBVIOUS
  <1>7. k < 2 * size
    BY <1>3
  <1>8. (k < size => k % size = k) /\ (size <= k => k % size = k - size)
    BY <1>5, <1>6, <1>7
  <1>9. CASE k < size
    <2>1. ~(a <= c)
      BY <1>1, <1>3, <1>9
    <2>2. dist = c /\ ~(dist < c)
      BY <1>2, <2>1
    <2> QED
      BY <1>2, <1>3, <1>8, <1>9, <2>2 DEF Grows
  <1>10. CASE size <= k
    <2>1. a <= c /\ dist = a
      BY <1>1, <1>2, <1>3, <1>10
    <2>2. h = size
      <3>1. CASE a < c
        BY <1>2, <2>1, <3>1
      <3>2. CASE a = c /\ have < size
        BY <1>1, <1>2, <2>1, <3>2
      <3>3. CASE a = c /\ have = size
        BY <1>2, <2>1, <3>3
      <3> QED
        BY <2>1, <3>1, <3>2, <3>3
    <2> QED
      BY <1>2, <1>3, <1>8, <1>10, <2>2 DEF Grows
  <1> QED
    BY <1>3, <1>9, <1>10

\* Fewer bytes than it holds go into the window behind those that it has.
LEMMA WindowGrows ==
  ASSUME NEW v, Windowed(v), v.wsize = WSIZE, NEW e \in Nat, WindowSays(v, e),
         NEW bytes, NEW c \in Nat, c = Len(bytes), c < WSIZE, bytes = From_(e, c)
  PROVE  WindowSays(WindowAfter(v, bytes), e + c)
  <1>1. PICK size \in Nat, have \in Nat, next \in Nat :
          size = WSIZE /\ size = v.wsize /\ have = v.whave /\ next = v.wnext
    BY StreamAssumption DEF Windowed
  <1>2. have <= size /\ next < size /\ (have < size => next = have) /\ size # 0 /\ c < size
    BY <1>1, StreamAssumption DEF Windowed, WindowSays
  <1>4. PICK win : win = [i \in 1 .. size |->
                    LET k == ((i - 1 - next) % size) + 1
                    IN  IF k <= c THEN bytes[k] ELSE v.window[i]]
    OBVIOUS
  <1>5. PICK m : m = (next + c) % size
    OBVIOUS
  <1>6. PICK h : h = Grown(size, next, have, c)
    OBVIOUS
  <1>7. WindowAfter(v, bytes) = [v EXCEPT !.window = win, !.wnext = m, !.whave = h]
    <2>1. PICK dist : dist = Least({v.wsize - v.wnext, Len(bytes)})
      OBVIOUS
    <2>2. win = [i \in 1 .. v.wsize |->
                    LET k == ((i - 1 - v.wnext) % v.wsize) + 1
                    IN  IF k <= Len(bytes) THEN bytes[k] ELSE v.window[i]]
      BY <1>1, <1>4
    <2>3. m = (v.wnext + Len(bytes)) % v.wsize
      BY <1>1, <1>5
    <2>4. h = IF dist < Len(bytes) THEN v.wsize ELSE IF v.whave < v.wsize THEN v.whave + dist ELSE v.whave
      BY <1>1, <1>6, <2>1 DEF Grown
    <2> QED
      BY <2>1, <2>2, <2>3, <2>4 DEF WindowAfter, Windowed, StateFields
  <1>8. PICK u : u = WindowAfter(v, bytes)
    OBVIOUS
  <1>9. u.wsize = size /\ u.window = win /\ u.wnext = m /\ u.whave = h
    BY <1>1, <1>7, <1>8 DEF Windowed, StateFields
  <1>10. Ring(v.window, size, next, have, e, stream.text)
    BY <1>1, <1>2, WindowIsRing
  <1>11. \A k \in 1 .. c : bytes[k] = stream.text[e + k]
    BY DEF From_
  <1>12. Shifted(win, v.window, bytes, size, next, c)
    <2>1. ASSUME NEW j \in 1 .. size
          PROVE  win[j] = IF j > next
                            THEN (IF j - next <= c THEN bytes[j - next] ELSE v.window[j])
                          ELSE (IF j + size - next <= c THEN bytes[j + size - next] ELSE v.window[j])
      <3>1. ((j - 1 - next) % size) + 1 = IF j > next THEN j - next ELSE j + size - next
        BY <1>2, PlaceInWindow
      <3>2. PICK k : /\ k = ((j - 1 - next) % size) + 1
                     /\ k = IF j > next THEN j - next ELSE j + size - next
        BY <3>1
      <3>3. win[j] = IF k <= c THEN bytes[k] ELSE v.window[j]
        BY <1>4, <3>2
      <3> QED
        BY <3>2, <3>3
    <2> QED
      BY <2>1 DEF Shifted
  <1>13. Grows(size, next, have, c, m, h)
    BY <1>2, <1>5, <1>6, RingNumbers
  <1>14. Ring(win, size, m, h, e + c, stream.text)
    <2>1. CASE next + c < size
      <3>1. Ring(win, size, next + c, IF have < size THEN have + c ELSE have, e + c, stream.text)
        BY <1>10, <1>11, <1>12, <2>1, RingFills
      <3> QED
        BY <1>13, <2>1, <3>1 DEF Grows
    <2>2. CASE size <= next + c
      <3>1. Ring(win, size, next + c - size, size, e + c, stream.text)
        BY <1>2, <1>10, <1>11, <1>12, <2>2, RingWraps
      <3> QED
        BY <1>13, <2>2, <3>1 DEF Grows
    <2>3. next + c < size \/ size <= next + c
      OBVIOUS
    <2> QED
      BY <2>1, <2>2, <2>3
  <1>15. WindowSays(u, e + c)
    <2>1. u.wsize \in Nat /\ u.wsize # 0 /\ e + c \in Nat
      BY <1>1, <1>2, <1>9
    <2>2. Ring(u.window, u.wsize, u.wnext, u.whave, e + c, stream.text)
      BY <1>9, <1>14
    <2> QED
      BY <2>1, <2>2, WindowIsRing
  <1> QED
    BY <1>8, <1>15

\* What a call has put out goes into the window.
LEMMA WindowUpdated ==
  ASSUME Rest, Right, Buffers, Running, NEW s, Windowed(s), WindowSays(s, Earlier)
  PROVE  WindowSays(UpdateWindow(s, Produced(strm)), Total)
  <1>1. PICK e \in Nat, c \in Nat, t \in Nat, size \in Nat :
          /\ e = Earlier /\ c = Produced(strm) /\ t = Total /\ e + c = t
          /\ size = WSIZE /\ size # 0
    BY OutputCounts, StreamAssumption
  <1>2. PICK bytes : bytes = SubSeq(strm.output, Len(strm.output) - c + 1, Len(strm.output))
    OBVIOUS
  <1>3. bytes = From_(e, c)
    <2>1. bytes = From_(t - c, c)
      <3>1. c <= Len(strm.output)
        BY <1>1, OutputCounts
      <3> QED
        BY <1>1, <1>2, <3>1, OutputIsPiece
    <2>2. t - c = e
      BY <1>1
    <2> QED
      BY <2>1, <2>2
  <1>4. Len(bytes) = c
    <2>1. stream.text \in Seq(Byte) /\ e + c <= Len(stream.text)
      BY <1>1, OutputCounts
    <2> QED
      BY <1>3, <2>1, PieceOfText
  <1>5. PICK v : v = (IF s.wsize # 0 THEN s
                      ELSE [s EXCEPT !.wsize = WSIZE, !.window = [i \in 1 .. WSIZE |-> 0]])
    OBVIOUS
  <1>6. Windowed(v) /\ v.wsize = size /\ WindowSays(v, e)
    <2>1. CASE s.wsize # 0
      BY <1>1, <1>5, <2>1 DEF Windowed
    <2>2. CASE s.wsize = 0
      <3>1. PICK zeros : zeros = [i \in 1 .. size |-> 0] /\ Len(zeros) = size
        <4>1. Len([i \in 1 .. size |-> 0]) = size
          OBVIOUS
        <4> QED
          BY <4>1
      <3>2. v = [s EXCEPT !.wsize = size, !.window = zeros]
        BY <1>1, <1>5, <2>2, <3>1
      <3>3. /\ DOMAIN v = StateFields /\ v.wsize = size /\ v.window = zeros
            /\ v.whave = s.whave /\ v.wnext = s.wnext
        BY <3>2 DEF Windowed, StateFields
      <3>4. s.whave = 0 /\ s.wnext = 0
        BY <2>2 DEF Windowed
      <3>5. Windowed(v)
        BY <1>1, <3>1, <3>3, <3>4 DEF Windowed
      <3>6. e = 0
        BY <1>1, <2>2 DEF WindowSays
      <3>7. Ring(zeros, size, 0, 0, 0, stream.text)
        BY <1>1 DEF Ring
      <3>8. Ring(v.window, v.wsize, v.wnext, v.whave, e, stream.text)
        BY <3>3, <3>4, <3>6, <3>7
      <3>9. WindowSays(v, e)
        BY <1>1, <3>3, <3>8, WindowIsRing
      <3> QED
        BY <3>3, <3>5, <3>9
    <2> QED
      BY <2>1, <2>2
  <1>7. CASE c >= size
    <2>1. PICK win : win = SubSeq(bytes, c - size + 1, c)
      OBVIOUS
    <2>2. win = From_(t - size, size)
      <3>1. PICK m \in Nat : m = c - size
        BY <1>7
      <3>2. m + size = c /\ m + size <= c /\ e + m = t - size
        BY <1>1, <3>1
      <3>3. SubSeq(bytes, m + 1, m + size) = From_(e + m, size)
        BY <1>3, <3>2, PieceOfPiece
      <3> QED
        BY <2>1, <3>1, <3>2, <3>3
    <2>3. UpdateWindow(s, c) = [v EXCEPT !.window = win, !.wnext = 0, !.whave = v.wsize]
      BY <1>2, <1>5, <1>6, <1>7, <2>1, Zenon DEF UpdateWindow
    <2>4. PICK u : u = UpdateWindow(s, c)
      OBVIOUS
    <2>5. u.wsize = size /\ u.window = win /\ u.whave = size /\ u.wnext = 0
      BY <1>6, <2>3, <2>4 DEF Windowed, StateFields
    <2>6. Ring(win, size, 0, size, t, stream.text)
      <3>1. size <= t
        BY <1>1, <1>7
      <3>2. ASSUME NEW k \in 1 .. size PROVE win[k] = stream.text[t - 0 + k - size]
        <4>1. win[k] = stream.text[(t - size) + k]
          BY <2>2 DEF From_
        <4>2. (t - size) + k = t - 0 + k - size
          BY <3>1
        <4> QED
          BY <4>1, <4>2
      <3>3. 0 + 1 = 1
        OBVIOUS
      <3> QED
        BY <1>1, <3>1, <3>2, <3>3 DEF Ring
    <2>7. WindowSays(u, t)
      BY <1>1, <2>5, <2>6, WindowIsRing
    <2> QED
      BY <1>1, <2>4, <2>5, <2>7
  <1>8. CASE ~(c >= size)
    <2>1. UpdateWindow(s, c) = WindowAfter(v, bytes)
      BY <1>2, <1>5, <1>6, <1>8, Zenon DEF UpdateWindow
    <2>2. c < WSIZE /\ v.wsize = WSIZE
      BY <1>1, <1>6, <1>8
    <2>3. WindowSays(WindowAfter(v, bytes), e + c)
      BY <1>3, <1>4, <1>6, <2>2, WindowGrows
    <2> QED
      BY <1>1, <2>1, <2>3
  <1> QED
    BY <1>7, <1>8

\* Nothing else is changed with the window.
Beside(s, t) ==
  DOMAIN s = StateFields /\ s.check = t.check /\ s.total = t.total /\ s.dmax = t.dmax

\* Only the window is updated.
LEMMA WindowIsUpdated ==
  ASSUME NEW s, DOMAIN s = StateFields, NEW copy
  PROVE  Beside(UpdateWindow(s, copy), s)
  <1>1. PICK bytes : bytes = SubSeq(strm.output, Len(strm.output) - copy + 1, Len(strm.output))
    OBVIOUS
  <1>2. PICK zeros : zeros = [i \in 1 .. WSIZE |-> 0]
    OBVIOUS
  <1>3. PICK w : w = (IF s.wsize # 0 THEN s ELSE [s EXCEPT !.wsize = WSIZE, !.window = zeros])
    OBVIOUS
  <1>4. Beside(w, s)
    BY <1>3 DEF Beside, StateFields
  <1>5. ASSUME NEW u, NEW win, NEW m, NEW h, u = [w EXCEPT !.window = win, !.wnext = m, !.whave = h]
        PROVE  Beside(u, s)
    BY <1>4, <1>5 DEF Beside, StateFields
  <1>6. CASE copy >= w.wsize
    <2>1. PICK win : win = SubSeq(bytes, copy - w.wsize + 1, copy)
      OBVIOUS
    <2>2. UpdateWindow(s, copy) = [w EXCEPT !.window = win, !.wnext = 0, !.whave = w.wsize]
      BY <1>1, <1>2, <1>3, <1>6, <2>1, Zenon DEF UpdateWindow
    <2>3. PICK u : /\ u = UpdateWindow(s, copy)
                   /\ u = [w EXCEPT !.window = win, !.wnext = 0, !.whave = w.wsize]
      BY <2>2
    <2>4. Beside(u, s)
      BY <1>5, <2>3
    <2> QED
      BY <2>3, <2>4
  <1>7. CASE ~(copy >= w.wsize)
    <2>1. UpdateWindow(s, copy) = WindowAfter(w, bytes)
      BY <1>1, <1>2, <1>3, <1>7, Zenon DEF UpdateWindow
    <2>2. \E win, m, h :
            WindowAfter(w, bytes) = [w EXCEPT !.window = win, !.wnext = m, !.whave = h]
      BY <1>4, Zenon DEF WindowAfter
    <2>3. PICK u, win, m, h : /\ u = UpdateWindow(s, copy)
                              /\ u = [w EXCEPT !.window = win, !.wnext = m, !.whave = h]
      BY <2>1, <2>2
    <2>4. Beside(u, s)
      BY <1>5, <2>3
    <2> QED
      BY <2>3, <2>4
  <1> QED
    BY <1>6, <1>7

-----------------------------------------------------------------------------
(***************************************************************************)
(* The end of a call of inflate().                                         *)
(***************************************************************************)
\* A stream ends behind all of its fields.
LEMMA StreamEnds ==
  ASSUME Records, NEW i \in 1 .. Len(stream.fields)
  PROVE  EndOf(stream) \in Nat /\ stream.fields[i].at + stream.fields[i].width <= EndOf(stream)
  <1>1. PICK n \in Nat : n = Len(stream.fields) /\ i \in 1 .. n
    BY StreamFacts
  <1>2. n \in 1 .. n
    BY <1>1
  <1>3. stream.fields # <<>>
    <2>1. DOMAIN stream.fields = 1 .. n
      BY <1>1, StreamFacts
    <2> QED
      BY <1>2, <2>1
  <1>4. EndOf(stream) = stream.fields[n].at + stream.fields[n].width
    BY <1>1, <1>3 DEF EndOf, Last
  <1>5. PICK a \in Nat, b \in Nat, c \in Nat, d \in Nat :
          /\ a = stream.fields[i].at /\ b = stream.fields[i].width
          /\ c = stream.fields[n].at /\ d = stream.fields[n].width
    BY <1>1, <1>2, StreamFacts
  <1>6. i < n => a + b <= c
    BY <1>1, <1>2, <1>5, StreamFacts
  <1>7. a + b <= c + d
    <2>1. CASE i = n
      BY <1>5, <2>1
    <2>2. CASE i < n
      BY <1>6, <2>2
    <2> QED
      BY <1>1, <2>1, <2>2
  <1>8. c + d \in Nat
    OBVIOUS
  <1> QED
    BY <1>4, <1>5, <1>7, <1>8

\* Where there is no input for what comes next, more of the stream is to come.
LEMMA MoreIsToCome ==
  ASSUME Rest, NEW r, IsReading(stream, r), Synced(r), call.at = "inflate", NoInput
  PROVE  Pushed < BytesOf(stream)
  <1>1. Records /\ Room /\ TableOK /\ HoldOK
    BY DEF Rest, Synced
  <1>2. PICK l \in Nat, b \in Nat : l = Width /\ b = NextByte
    BY <1>1, HoldNow
  <1>3. Pushed = b /\ NextBit = 8 * b - l
    <2>1. strm.avail_in = 0 /\ strm.given \in Nat /\ strm.next_in \in Nat
      BY <1>1 DEF NoInput, Room
    <2>2. Pushed = NextByte
      BY <2>1 DEF Pushed, NextByte
    <2> QED
      BY <1>1, <1>2, <2>2, HoldNow
  <1>4. /\ ReadsField /\ (state.mode # "STORED" \/ Width % 8 = 0)
        /\ state.mode \in TakesBytes \/ (state.mode \in BitModes /\ l < BitsNeeded)
    <2>1. CASE ~StoredBegins /\ Lacking
      <3>1. l < BitsNeeded
        BY <1>2, <2>1 DEF Lacking, Width
      <3>2. BitsNeeded # 0
        BY <3>1
      <3>3. /\ state.mode \in BitModes
            /\ state.mode = "HEAD" => state.wrap # 0
            /\ state.mode = "TYPE" => ~state.last
            /\ state.mode = "LENLENS" => state.have < state.table.ncode
            /\ state.mode = "CODELENS" => state.have < state.table.lengths
            /\ state.mode \in {"LENEXT", "DISTEXT"} => state.extra # 0
        <4>1. state.mode \in BitModes
          BY <3>2 DEF BitsNeeded, BitModes
        <4>2. /\ state.mode = "HEAD" => state.wrap # 0
              /\ state.mode = "TYPE" => ~state.last
          BY <3>2 DEF BitsNeeded
        <4>3. state.mode = "LENLENS" => state.have < state.table.ncode
          BY <3>2 DEF BitsNeeded
        <4>4. state.mode = "CODELENS" => state.have < state.table.lengths
          BY <3>2 DEF BitsNeeded
        <4>5. state.mode \in {"LENEXT", "DISTEXT"} => state.extra # 0
          BY <3>2 DEF BitsNeeded
        <4> QED
          BY <4>1, <4>2, <4>3, <4>4, <4>5
      <3>5. /\ state.mode = "LENLENS" => state.have # state.table.ncode
            /\ state.mode = "CODELENS" => state.have # state.table.lengths
        BY <1>1, <3>3 DEF TableOK
      <3>6. ReadsField
        BY <3>3, <3>5 DEF ReadsField, BitModes
      <3>4. state.mode # "STORED" \/ Width % 8 = 0
        BY <2>1 DEF StoredBegins, In, Width
      <3> QED
        BY <3>1, <3>3, <3>4, <3>6
    <2>2. CASE state.mode \in {"NAME", "COMMENT"}
      BY <2>2 DEF ReadsField, TakesBytes
    <2>3. CASE state.mode \in {"EXTRA", "COPY"} /\ state.length > 0
      BY <2>3 DEF ReadsField, TakesBytes
    <2> QED
      BY <2>1, <2>2, <2>3 DEF NoInput
  <1>5. PICK i \in 1 .. Len(stream.fields) + 1 : Stands(r, i)
    BY DEF Synced, InSteps
  <1>6. i \in 1 .. Len(stream.fields) /\ NextField(i).at = NextBit /\ NextField(i).width \in Nat
    BY <1>1, <1>4, <1>5, FieldComes
  <1>7. l < NextField(i).width
    <2>1. CASE state.mode \in TakesBytes
      <3>1. NextField(i).width = 8
        BY <1>1, <1>4, <1>5, <2>1, NeededIsWidth
      <3>2. Width = 0
        BY <2>1, NoBitsInBytes
      <3> QED
        BY <1>2, <3>1, <3>2
    <2>2. CASE state.mode \in BitModes /\ l < BitsNeeded
      <3>1. BitsNeeded = NextField(i).width
        BY <1>1, <1>4, <1>5, <2>2, NeededIsWidth
      <3> QED
        BY <2>2, <3>1
    <2> QED
      BY <1>4, <2>1, <2>2
  <1>8. PICK e \in Nat, d \in Nat : /\ e = EndOf(stream) /\ d = NextField(i).width
                                    /\ (8 * b - l) + d <= e
    BY <1>1, <1>3, <1>6, StreamEnds DEF NextField
  <1>9. l < d
    BY <1>7, <1>8
  <1>10. 8 * b + 1 <= e
    BY <1>8, <1>9
  <1>11. b < (e + 7) \div 8
    BY <1>10
  <1> QED
    BY <1>3, <1>8, <1>11 DEF BytesOf

\* A sequence with nothing behind it.
LEMMA NothingBehind ==
  ASSUME NEW s, IsSequence(s), NEW t, t = <<>>
  PROVE  s \o t = s
  <1>1. PICK S : S = {s[k] : k \in 1 .. Len(s)}
    OBVIOUS
  <1>2. \A k \in 1 .. Len(s) : s[k] \in S
    BY <1>1
  <1>3. s \in Seq(S) /\ t \in Seq(S)
    BY <1>2, IsASeq DEF IsSequence
  <1>4. /\ s \o t \in Seq(S) /\ Len(s \o t) = Len(s) + Len(t)
        /\ \A i \in 1 .. Len(s) : (s \o t)[i] = s[i]
    BY <1>3, Joined
  <1>5. Len(t) = 0 /\ Len(s) \in Nat
    BY DEF IsSequence
  <1>6. Len(s \o t) = Len(s)
    BY <1>4, <1>5
  <1> QED
    BY <1>3, <1>4, <1>6, SameSequence

\* A call of inflate() ends with what it put out in the window and in the check value.
Left(u) ==
  /\ Alike(u, state) /\ Beside(u, state)
  /\ state.mode \notin Unwindowed => WindowSays(u, Total)
  /\ state' = IF state.wrap = 0 THEN u ELSE Summed(u, Produced(strm))

\* The state that inflate() leaves.
LEMMA StateIsLeft ==
  ASSUME NEW r, NEW w, Holds(r, w), LeaveInflate
  PROVE  \E u : Left(u)
  <1>1. /\ Rest /\ Right /\ Buffers /\ Windows /\ call.at = "inflate" /\ Running
        /\ DOMAIN state = StateFields /\ WindowOK
    BY InCall DEF LeaveInflate, Rest, Records, Running
  <1>2. PICK p \in Nat, e \in Nat, t \in Nat :
          p = Produced(strm) /\ e = Earlier /\ t = Total /\ e + p = t /\ Len(strm.output) \in Nat
    BY <1>1, OutputCounts
  <1>3. Windowed(state)
    BY <1>1 DEF Windowed, WindowOK
  <1>4. PICK u : u = (IF state.wsize # 0 \/ (p # 0 /\ state.mode # "BAD")
                        THEN UpdateWindow(state, p) ELSE state)
    OBVIOUS
  <1>5. state' = IF state.wrap = 0 THEN u ELSE Summed(u, Produced(strm))
    BY <1>2, <1>4, Zenon DEF LeaveInflate
  <1>6. Alike(UpdateWindow(state, p), state) /\ Beside(UpdateWindow(state, p), state)
    BY <1>1, <1>2, <1>3, UpdateWindowIsOne, WindowIsUpdated
  <1>7. Alike(state, state) /\ Beside(state, state)
    BY <1>1 DEF Alike, Beside
  <1>8. Alike(u, state) /\ Beside(u, state)
    BY <1>4, <1>6, <1>7
  <1>9. ASSUME state.mode \notin Unwindowed PROVE WindowSays(u, Total)
    <2>1. WindowSays(state, Earlier)
      BY <1>1, <1>9 DEF Windows
    <2>2. CASE state.wsize # 0 \/ (p # 0 /\ state.mode # "BAD")
      <3>1. WindowSays(UpdateWindow(state, Produced(strm)), Total)
        BY <1>1, <1>3, <2>1, WindowUpdated
      <3> QED
        BY <1>2, <1>4, <2>2, <3>1
    <2>3. CASE ~(state.wsize # 0 \/ (p # 0 /\ state.mode # "BAD"))
      <3>1. p = 0
        BY <1>9, <2>3 DEF Unwindowed
      <3>2. e = t
        BY <1>2, <3>1
      <3> QED
        BY <1>2, <1>4, <2>1, <2>3, <3>2
    <2> QED
      BY <2>2, <2>3
  <1> QED
    BY <1>5, <1>8, <1>9 DEF Left

\* The fields of the state that are not the check value and the window stay, and the
\* window is that with the output of the call.
LEMMA LeftFacts ==
  ASSUME NEW u, Left(u)
  PROVE  /\ Alike(state', state) /\ state'.dmax = state.dmax
         /\ state.wrap = 0 => state' = u
         /\ state.wrap # 0 => state' = Summed(u, Produced(strm))
         /\ state'.wsize = u.wsize /\ state'.whave = u.whave /\ state'.wnext = u.wnext
         /\ state'.window = u.window
  <1>1. Alike(u, state) /\ DOMAIN u = StateFields /\ u.dmax = state.dmax
    BY DEF Left, Beside
  <1>2. PICK check, total : Summed(u, Produced(strm)) = [u EXCEPT !.check = check, !.total = total]
    BY DEF Summed
  <1>3. PICK s : s = Summed(u, Produced(strm)) /\ s = [u EXCEPT !.check = check, !.total = total]
    BY <1>2
  <1>4. /\ Alike(s, state) /\ s.dmax = state.dmax /\ s.wsize = u.wsize /\ s.whave = u.whave
        /\ s.wnext = u.wnext /\ s.window = u.window
    BY <1>1, <1>3 DEF Alike, StateFields
  <1>5. state' = IF state.wrap = 0 THEN u ELSE s
    BY <1>3 DEF Left
  <1>6. CASE state.wrap = 0
    BY <1>1, <1>5, <1>6
  <1>7. CASE state.wrap # 0
    BY <1>3, <1>4, <1>5, <1>7
  <1> QED
    BY <1>6, <1>7

\* The call returns, and has put out nothing since.
LEMMA LeaveFrame ==
  ASSUME NEW r, NEW w, Holds(r, w), LeaveInflate
  PROVE  /\ Fresh /\ Fresh' /\ Sent' = Sent /\ Total' = Total /\ Earlier' = Total /\ ~Running'
         /\ UNCHANGED <<stream, strm, inflater>> /\ call'.at = "returned"
         /\ call'.in = call.in /\ call'.out = call.out
         /\ call'.allowBufError = call.allowBufError
  <1>1. DOMAIN call = CallFields /\ call.at = "inflate"
    BY InCall DEF LeaveInflate, Rest, Records
  <1>2. UNCHANGED <<stream, strm, inflater>> /\ \E ret : call' = [call EXCEPT !.at = "returned", !.ret = ret]
    BY DEF LeaveInflate
  <1>3. /\ call'.at = "returned" /\ call'.in = call.in /\ call'.out = call.out
        /\ call'.allowBufError = call.allowBufError
    BY <1>1, <1>2 DEF CallFields
  <1>4. Fresh /\ Fresh'
    BY <1>1, <1>3 DEF Fresh
  <1>5. Sent' = Sent /\ Total' = Total /\ ~Running'
    BY <1>2, <1>3, <1>4 DEF Sent, Total, Running
  <1>6. Earlier' = Total'
    BY <1>5 DEF Earlier
  <1> QED
    BY <1>2, <1>3, <1>4, <1>5, <1>6

\* The check value is that of the text so far.
LEMMA LeftChecks ==
  ASSUME NEW r, NEW w, Holds(r, w), LeaveInflate, NEW u, Left(u), NEW v, ChecksSay(v)
  PROVE  ChecksSay(v)'
  <1>1. /\ Rest /\ Right /\ Buffers /\ Running /\ DOMAIN state = StateFields
    BY InCall DEF LeaveInflate, Rest, Records, Running
  <1>2. PICK p \in Nat, e \in Nat, t \in Nat :
          p = Produced(strm) /\ e = Earlier /\ t = Total /\ e + p = t
    BY <1>1, OutputCounts
  <1>3. /\ state'.mode = state.mode /\ state'.wrap = state.wrap
        /\ state.wrap # 0 => state' = Summed(u, Produced(strm))
    BY LeftFacts DEF Alike
  <1>4. Earlier' = Total /\ Total' = Total /\ stream' = stream
    BY LeaveFrame
  <1>5. DOMAIN u = StateFields /\ u.check = state.check /\ u.total = state.total
    BY DEF Left, Beside
  <1>6. ASSUME state.wrap # 0, state.mode \notin HeadModes
        PROVE  state'.total = Total /\ state'.check = SubSeq(stream.text, 1, Total)
    <2>1. u.check = SubSeq(stream.text, 1, Earlier) /\ u.total = Earlier
      BY <1>5, <1>6 DEF ChecksSay
    <2>2. /\ Summed(u, Produced(strm)).check = SubSeq(stream.text, 1, Total)
          /\ Summed(u, Produced(strm)).total = Total
      BY <1>1, <1>5, <2>1, SumIsText
    <2> QED
      BY <1>3, <1>6, <2>2
  <1>7. ASSUME state.wrap # 0, state.mode \in HeadModes
        PROVE  state'.total = Total /\ state'.check = state.check
    <2>1. t = 0 /\ state.total = Earlier /\ IsSequence(state.check)
      BY <1>2, <1>7 DEF ChecksSay
    <2>2. p = 0 /\ e = 0
      BY <1>2, <2>1
    <2>3. PICK piece : piece = SubSeq(strm.output, Len(strm.output) - p + 1, Len(strm.output))
      OBVIOUS
    <2>4. piece = <<>>
      <3>1. piece = From_(t - p, p)
        BY <1>1, <1>2, <2>2, <2>3, OutputIsPiece, OutputCounts
      <3>2. Len(From_(t - p, 0)) = 0 /\ From_(t - p, 0) = <<>>
        BY DEF From_
      <3> QED
        BY <2>2, <3>1, <3>2
    <2>5. state.check \o piece = state.check
      BY <2>1, <2>4, NothingBehind
    <2>6. /\ Summed(u, Produced(strm)).check = u.check \o piece
          /\ Summed(u, Produced(strm)).total = u.total + p
      BY <1>2, <1>5, <2>3 DEF Summed, StateFields
    <2>7. u.total + p = e
      BY <1>2, <1>5, <2>1, <2>2
    <2> QED
      BY <1>2, <1>3, <1>5, <1>7, <2>1, <2>2, <2>5, <2>6, <2>7
  <1>8. ASSUME state.wrap # 0, state.mode \in HeadModes
        PROVE  state'.check = v.crc /\ IsSequence(v.crc)
    BY <1>7, <1>8 DEF ChecksSay
  <1>9. state.mode \in HeadModes \cup {"CHECK", "LENGTH"} => state.wrap # 0
    BY DEF ChecksSay
  <1>10. state.wrap # 0 /\ state.mode \in HeadModes \cup {"HEAD"} => Total = 0
    BY DEF ChecksSay
  <1>11. ASSUME state'.wrap # 0
         PROVE  /\ state'.total = Earlier'
                /\ IF state'.mode \in HeadModes THEN state'.check = v.crc /\ IsSequence(v.crc)
                   ELSE state'.check = SubSeq(stream'.text, 1, Earlier')
                /\ state'.mode \in HeadModes \cup {"HEAD"} => Total' = 0
                /\ state'.mode = "LENGTH" => Earlier' = Total'
    BY <1>3, <1>4, <1>6, <1>7, <1>8, <1>10, <1>11
  <1>12. state'.mode \in HeadModes \cup {"CHECK", "LENGTH"} => state'.wrap # 0
    BY <1>3, <1>9
  <1> QED
    BY <1>11, <1>12 DEF ChecksSay

\* What inflate() says of its call.
LEMMA LeftReturned ==
  ASSUME NEW r, NEW w, Holds(r, w), LeaveInflate, Alike(state', state)
  PROVE  Returned'
  <1>1. /\ Rest /\ Synced(r) /\ IsReading(stream, r) /\ Buffers /\ call.at = "inflate" /\ Running
        /\ DOMAIN call = CallFields /\ Stuck
    BY InCall DEF LeaveInflate, Rest, Records, Running
  <1>2. PICK ret : /\ call' = [call EXCEPT !.at = "returned", !.ret = ret]
                   /\ ret = (CASE state.mode = "DONE" -> Z_STREAM_END [] state.mode = "BAD" -> Z_DATA_ERROR
                               [] OTHER -> IF call.in = strm.avail_in /\ call.out = strm.avail_out
                                             THEN Z_BUF_ERROR ELSE Z_OK)
    BY DEF LeaveInflate
  <1>3. call'.ret = ret
    BY <1>1, <1>2 DEF CallFields
  <1>4. /\ ret = Z_STREAM_END => state.mode = "DONE"
        /\ ret = Z_DATA_ERROR => state.mode = "BAD"
        /\ ret \in {Z_OK, Z_BUF_ERROR} => state.mode \notin {"DONE", "BAD"}
        /\ ret = Z_BUF_ERROR => call.in = strm.avail_in /\ call.out = strm.avail_out
        /\ ret # Z_NEED_DICT
    BY <1>2 DEF Z_STREAM_END, Z_DATA_ERROR, Z_BUF_ERROR, Z_OK, Z_NEED_DICT
  <1>5. /\ UNCHANGED <<stream, strm, inflater>> /\ call'.allowBufError = call.allowBufError
        /\ state'.mode = state.mode
    BY LeaveFrame DEF Alike
  <1>6. ASSUME ret \in {Z_OK, Z_BUF_ERROR}, strm.avail_in = 0, strm.avail_out # 0
        PROVE  Pushed < BytesOf(stream)
    <2>1. NoInput
      BY <1>1, <1>4, <1>6 DEF Stuck, NoRoom
    <2> QED
      BY <1>1, <2>1, MoreIsToCome
  <1>7. ASSUME ret = Z_BUF_ERROR, ~call.allowBufError
        PROVE  strm.next_in = 0 /\ strm.avail_in = 0
    <2>1. call.in = strm.avail_in /\ call.out = strm.avail_out /\ state.mode \notin {"DONE", "BAD"}
      BY <1>4, <1>7
    <2>2. CASE NoInput
      <3>1. call.in = 0
        BY <2>1, <2>2 DEF NoInput
      <3> QED
        BY <1>1, <1>7, <3>1 DEF Buffers
    <2>3. CASE NoRoom
      <3>1. call.out = 0 /\ state.mode \notin {"LENGTH", "DONE", "BAD"}
        BY <2>1, <2>3 DEF NoRoom
      <3> QED
        BY <1>1, <3>1 DEF Buffers
    <2> QED
      BY <1>1, <2>1, <2>2, <2>3 DEF Stuck
  <1>8. Pushed < BytesOf(stream) => (Pushed < BytesOf(stream))'
    BY <1>5 DEF Pushed
  <1>9. call'.ret \in {Z_OK, Z_BUF_ERROR} /\ strm'.avail_in = 0 /\ strm'.avail_out # 0 =>
          (Pushed < BytesOf(stream))'
    BY <1>3, <1>5, <1>6, <1>8
  <1>10. call'.ret = Z_BUF_ERROR /\ ~call'.allowBufError => strm'.next_in = 0 /\ strm'.avail_in = 0
    BY <1>3, <1>5, <1>7
  <1> QED
    BY <1>3, <1>4, <1>5, <1>9, <1>10 DEF Returned

\* What was put out and not yet handed out is there when the call has returned.
LEMMA LeaveInflateSays ==
  ASSUME NEW r, NEW w, Holds(r, w), LeaveInflate
  PROVE  TextOK(r, w)'
  <1>1. /\ Rest /\ Right /\ Buffers /\ Limits /\ Synced(r) /\ IsReading(stream, r) /\ Goes(r, w)
        /\ ~inflater.ended
    BY InCall DEF LeaveInflate
  <1>2. PICK u : Left(u)
    BY StateIsLeft
  <1>3. /\ Fresh /\ Fresh' /\ Sent' = Sent /\ Total' = Total /\ Earlier' = Total /\ ~Running'
        /\ UNCHANGED <<stream, strm, inflater>> /\ call'.at = "returned"
    BY LeaveFrame
  <1>4. /\ Alike(state', state) /\ state'.dmax = state.dmax
        /\ state'.wsize = u.wsize /\ state'.whave = u.whave /\ state'.wnext = u.wnext
        /\ state'.window = u.window
    BY <1>2, LeftFacts
  <1>5. Right'
    BY <1>1, <1>3 DEF Right, Says
  <1>6. Buffers'
    BY <1>1, <1>3 DEF Buffers
  <1>7. Limits'
    BY <1>1, <1>4 DEF Limits
  <1>8. Windows'
    <2>1. state.mode \notin Unwindowed => WindowSays(u, Total)
      BY <1>2 DEF Left
    <2>2. state'.mode = state.mode
      BY <1>4 DEF Alike
    <2>3. WindowSays(u, Total) => WindowSays(state, Earlier)'
      BY <1>3, <1>4 DEF WindowSays
    <2> QED
      BY <2>1, <2>2, <2>3 DEF Windows
  <1>9. Goes(r, w)'
    <2>1. state.mode = "BAD" => stream.fault = "broken"
      BY <1>1 DEF Goes
    <2>2. /\ state'.mode = state.mode /\ state'.length = state.length
          /\ state'.offset = state.offset /\ state'.extra = state.extra
      BY <1>4 DEF Alike
    <2>3. ASSUME state.mode # "BAD"
          PROVE  \E i \in 1 .. Len(stream'.fields) + 1 : AtField(r, w, i)'
      <3>1. PICK i \in 1 .. Len(stream.fields) + 1 : AtField(r, w, i)
        BY <1>1, <2>3 DEF Goes
      <3>2. Stands(r, i)'
        BY <1>1, <3>1, LeaveInflateKeeps DEF Waits, AtField
      <3>3. ChecksSay(w[i])'
        BY <1>2, <3>1, LeftChecks DEF AtField
      <3>4. Tells(w[i])'
        <4>1. Pending(w[i], state.length, state.offset) => Pending(w[i], state.length, state.offset)'
          BY <1>3, <2>2 DEF Pending
        <4>2. Matching' = Matching
          BY <2>2 DEF Matching
        <4> QED
          BY <1>3, <2>2, <3>1, <4>1, <4>2 DEF Tells, AtField
      <3> QED
        BY <1>3, <3>1, <3>2, <3>3, <3>4 DEF AtField
    <2> QED
      BY <1>3, <2>1, <2>2, <2>3 DEF Goes
  <1>10. Returned'
    BY <1>4, LeftReturned
  <1>11. Outputs(r, w)'
    BY <1>5, <1>6, <1>7, <1>8, <1>9 DEF Outputs
  <1>12. ~inflater'.ended
    BY <1>1, <1>3
  <1> QED
    BY <1>5, <1>10, <1>11, <1>12 DEF TextOK, EndsAsItShould

\* There is no dictionary: push fails next.
LEMMA NeedDictSays ==
  ASSUME NEW r, NEW w, Holds(r, w), NeedDict
  PROVE  TextOK(r, w)'
  <1>1. /\ Rest /\ Right /\ Known(r, w) /\ Goes(r, w) /\ ~inflater.ended /\ DOMAIN call = CallFields
        /\ call.at = "inflate" /\ state.mode = "DICT"
    BY InCall DEF NeedDict, In, Rest, Records
  <1>2. PICK i \in 1 .. Len(stream.fields) + 1 : AtField(r, w, i)
    BY <1>1 DEF Goes
  <1>3. r[i].mode = "DICT"
    <2>1. r[i] = Settled(View(state)) /\ View(state).mode = "DICT"
      BY <1>1, <1>2, ViewFacts DEF AtField, Stands
    <2> QED
      BY <2>1, SettledIs
  <1>4. w[i].sound
    BY <1>1, <1>2 DEF AtField, Tells, Matching
  <1>5. stream.fault = "dictionary"
    <2>1. stream.fault \in {"none", "dictionary", "broken"}
      BY <1>1, StreamAssumption DEF Rest, Records
    <2>2. stream.fault # "none"
      BY <1>1, <1>3 DEF Known, IsFault
    <2>3. stream.fault # "broken"
      BY <1>1, <1>3, <1>4 DEF Known, IsFault
    <2> QED
      BY <2>1, <2>2, <2>3
  <1>6. /\ call'.at = "returned" /\ call'.ret = Z_NEED_DICT
        /\ UNCHANGED <<stream, strm, state, inflater>>
    BY <1>1 DEF NeedDict, CallFields
  <1>7. Right'
    <2>1. Fresh /\ Fresh'
      BY <1>1, <1>6 DEF Fresh
    <2> QED
      BY <1>1, <1>6, <2>1 DEF Right, Says, Sent
  <1>8. Dictless'
    BY <1>5, <1>6 DEF Dictless
  <1>9. Returned'
    BY <1>5, <1>6 DEF Returned, Z_NEED_DICT, Z_STREAM_END, Z_DATA_ERROR, Z_OK, Z_BUF_ERROR
  <1> QED
    BY <1>1, <1>6, <1>7, <1>8, <1>9 DEF TextOK, EndsAsItShould

-----------------------------------------------------------------------------
(***************************************************************************)
(* push, around the calls of inflate().                                    *)
(***************************************************************************)
\* Nothing is put out between the calls.
LEMMA StaysSaid ==
  ASSUME NEW r, NEW w, Limits, Windows, Goes(r, w), Waits(r), ~Running,
         UNCHANGED <<stream, state>>, Total' = Total, Earlier' = Total
  PROVE  Limits' /\ Windows' /\ Goes(r, w)'
  <1>1. Earlier' = Earlier
    BY DEF Earlier
  <1>2. Limits'
    BY DEF Limits
  <1>3. Windows'
    <2>1. WindowSays(state, Earlier) => WindowSays(state, Earlier)'
      BY <1>1 DEF WindowSays
    <2> QED
      BY <2>1 DEF Windows
  <1>4. Goes(r, w)'
    <2>1. ASSUME state.mode # "BAD"
          PROVE  \E i \in 1 .. Len(stream'.fields) + 1 : AtField(r, w, i)'
      <3>1. PICK i \in 1 .. Len(stream.fields) + 1 : AtField(r, w, i)
        BY <2>1 DEF Goes
      <3>2. Stands(r, i)'
        BY <3>1 DEF Waits, AtField
      <3>3. ChecksSay(w[i])'
        BY <1>1, <3>1 DEF AtField, ChecksSay
      <3>4. Tells(w[i])'
        <4>1. Pending(w[i], state.length, state.offset) => Pending(w[i], state.length, state.offset)'
          BY DEF Pending
        <4>2. Matching' = Matching
          BY DEF Matching
        <4> QED
          BY <3>1, <4>1, <4>2 DEF Tells, AtField
      <3> QED
        BY <3>1, <3>2, <3>3, <3>4 DEF AtField
    <2> QED
      BY <2>1 DEF Goes
  <1> QED
    BY <1>2, <1>3, <1>4

\* A call of inflate() begins, behind what is handed out and what is not.
LEMMA CallSays ==
  ASSUME NEW r, NEW w, Rest, Outputs(r, w), Waits(r), ~Running,
         NEW s, DOMAIN s = StrmFields, s.avail_out = strm.avail_out, s.output = strm.output,
         NEW mode, NEW allow, Call(s, mode, allow), UNCHANGED <<stream, state>>,
         ~inflater'.ended, inflater'.chunkSize = inflater.chunkSize,
         Says(inflater'.delivered, 0),
         strm.avail_out = 0 => Len(inflater'.delivered) = Total,
         strm.avail_out # 0 => Fresh /\ inflater'.delivered = inflater.delivered,
         s.avail_in = 0 => allow = TRUE \/ s.next_in = 0
  PROVE  TextOK(r, w)'
  <1>1. /\ Limits /\ Windows /\ Goes(r, w) /\ Right /\ Buffers
        /\ inflater.chunkSize \in Nat \ {0} /\ strm.avail_out \in Nat
    BY DEF Outputs, Rest, Room
  <1>2. PICK room : /\ room = (IF s.avail_out = 0
                                 THEN [s EXCEPT !.output = <<>>, !.avail_out = inflater.chunkSize]
                               ELSE s)
                    /\ strm' = room
                    /\ call' = [at |-> "inflate", mode |-> mode, in |-> room.avail_in,
                                out |-> room.avail_out, ret |-> Z_OK, allowBufError |-> allow]
    BY DEF Call
  <1>3. /\ room.avail_in = s.avail_in /\ room.next_in = s.next_in
        /\ strm.avail_out = 0 => room.output = <<>> /\ room.avail_out = inflater.chunkSize
        /\ strm.avail_out # 0 => room.output = strm.output /\ room.avail_out = strm.avail_out
    BY <1>2 DEF StrmFields
  <1>4. /\ call'.at = "inflate" /\ call'.in = s.avail_in /\ call'.out = strm'.avail_out
        /\ call'.allowBufError = allow /\ strm'.avail_in = s.avail_in /\ strm'.next_in = s.next_in
        /\ Running' /\ Fresh'
    BY <1>2, <1>3 DEF Running, Fresh
  <1>5. Sent' \in Nat /\ Sent' <= Len(stream.text) /\ Len(stream.text) \in Nat
    <2>1. inflater'.delivered \in Seq(Byte) /\ 0 + Len(inflater'.delivered) <= Len(stream.text)
      BY DEF Says
    <2>2. Len(inflater'.delivered) \in Nat
      BY <2>1, LenProperties
    <2>3. stream.text \in Seq(Byte)
      BY TextAssumption DEF Rest, Records
    <2>4. Len(stream.text) \in Nat
      BY <2>3, LenProperties
    <2> QED
      BY <2>1, <2>2, <2>4 DEF Sent
  <1>6. Total' = Total /\ Says(strm'.output, Sent')
        /\ Len(strm'.output) + strm'.avail_out = inflater.chunkSize /\ strm'.avail_out \in Nat
        /\ strm'.avail_out > 0 /\ strm'.avail_out <= inflater.chunkSize
    <2>1. CASE strm.avail_out = 0
      <3>1. strm'.output = <<>> /\ strm'.avail_out = inflater.chunkSize /\ Len(<<>>) = 0
        BY <1>2, <1>3, <2>1
      <3>2. Total' = Sent' + 0
        BY <1>4, <3>1 DEF Total
      <3>3. Total' = Total
        BY <1>5, <2>1, <3>2 DEF Sent
      <3>4. Says(<<>>, Sent')
        <4>1. <<>> \in Seq(Byte) /\ Sent' + 0 <= Len(stream.text)
          BY <1>5
        <4> QED
          BY <3>1, <4>1 DEF Says
      <3>5. Len(strm'.output) + strm'.avail_out = inflater.chunkSize
        BY <1>1, <3>1
      <3> QED
        BY <1>1, <3>1, <3>3, <3>4, <3>5
    <2>2. CASE strm.avail_out # 0
      <3>1. strm'.output = strm.output /\ strm'.avail_out = strm.avail_out
        BY <1>2, <1>3, <2>2
      <3>2. Fresh /\ inflater'.delivered = inflater.delivered
        BY <2>2
      <3>3. Sent' = Sent
        BY <3>2 DEF Sent
      <3>4. Total' = Total
        BY <1>4, <3>1, <3>2, <3>3 DEF Total
      <3>5. Says(strm.output, Sent)
        BY <1>1, <3>2 DEF Right
      <3>6. /\ Len(strm.output) + strm.avail_out = inflater.chunkSize
            /\ strm.avail_out <= inflater.chunkSize
        BY <1>1, <3>2 DEF Buffers, Rest, Room
      <3> QED
        BY <1>1, <2>2, <3>1, <3>3, <3>4, <3>5, <3>6
    <2> QED
      BY <2>1, <2>2
  <1>7. Right'
    <2>1. Says(inflater'.delivered, 0) => Says(inflater.delivered, 0)'
      BY DEF Says
    <2>2. Says(strm'.output, Sent') => Says(strm.output, Sent)'
      BY DEF Says
    <2> QED
      BY <1>6, <2>1, <2>2 DEF Right
  <1>8. Buffers'
    <2>1. call'.out \in 0 .. inflater'.chunkSize /\ call'.out > 0
      BY <1>1, <1>4, <1>6
    <2>2. Len(strm'.output) + strm'.avail_out = inflater'.chunkSize
      BY <1>6
    <2>3. call'.in = 0 => /\ call'.at = "inflate" /\ strm'.avail_in = 0
                          /\ call'.allowBufError \/ strm'.next_in = 0
      BY <1>4
    <2> QED
      BY <2>1, <2>2, <2>3 DEF Buffers
  <1>9. Earlier' = Total
    <2>1. Produced(strm)' = 0
      BY <1>4, <1>6 DEF Produced
    <2>2. Total' \in Nat
      <3>1. Len(strm'.output) \in Nat
        BY <1>6, LenProperties DEF Says
      <3> QED
        BY <1>4, <1>5, <3>1 DEF Total
    <2>3. Earlier' = Total' - 0
      BY <1>4, <2>1 DEF Earlier
    <2> QED
      BY <1>6, <2>2, <2>3
  <1>10. Limits' /\ Windows' /\ Goes(r, w)'
    BY <1>1, <1>6, <1>9, StaysSaid
  <1>11. Outputs(r, w)'
    BY <1>7, <1>8, <1>10 DEF Outputs
  <1> QED
    BY <1>4, <1>7, <1>11 DEF TextOK, EndsAsItShould

\* push gives inflate() the next bytes of the stream.
LEMMA PushSays ==
  ASSUME NEW r, NEW w, Holds(r, w), NEW bytes \in Nat, NEW mode, Push(bytes, mode)
  PROVE  TextOK(r, w)'
  <1>1. /\ call.at = "none" /\ ~inflater.ended /\ UNCHANGED <<stream, state, inflater>>
        /\ ~Running
    BY DEF Push, Running
  <1>2. Rest /\ Synced(r) /\ Outputs(r, w) /\ Right
    BY <1>1 DEF Holds, TextOK, Dictless, Outputs
  <1>3. Waits(r)
    BY <1>2, PushKeeps
  <1>4. PICK s : /\ s = [strm EXCEPT !.given = Pushed, !.next_in = 0, !.avail_in = bytes]
                 /\ Call(s, mode, FALSE)
    BY DEF Push
  <1>5. /\ DOMAIN s = StrmFields /\ s.next_in = 0
        /\ s.avail_out = strm.avail_out /\ s.output = strm.output
    BY <1>2, <1>4 DEF Rest, Records, StrmFields
  <1>6. Says(inflater'.delivered, 0)
    BY <1>1, <1>2 DEF Right
  <1>7. strm.avail_out # 0 => Fresh /\ inflater'.delivered = inflater.delivered
    BY <1>1 DEF Fresh
  <1>8. strm.avail_out = 0 => Len(inflater'.delivered) = Total
    <2>1. strm.avail_out = 0 => ~Fresh
      BY <1>1 DEF Fresh
    <2>2. inflater.delivered \in Seq(Byte)
      BY <1>2 DEF Right, Says
    <2>3. Sent \in Nat /\ Sent + 0 = Sent
      BY <2>2, LenProperties DEF Sent
    <2> QED
      BY <1>1, <2>1, <2>3 DEF Total, Sent
  <1> QED
    BY <1>1, <1>2, <1>3, <1>4, <1>5, <1>6, <1>7, <1>8, CallSays

\* push hands on the output that is wanted, behind what was handed out before.
Wanted ==
  \/ strm.avail_out = 0 \/ Status = Z_STREAM_END
  \/ strm.avail_in = 0 /\ call.mode \in {Z_FINISH, Z_SYNC_FLUSH}

\* What push hands out is the next of the text, and all of it that was put out when the
\* stream ends or a flush wants it.
LEMMA HandedSays ==
  ASSUME Rest, Right, call.at = "returned"
  PROVE  /\ Says(Handed.delivered, 0)
         /\ Wanted => Len(Handed.delivered) = Total
         /\ ~Wanted => Handed.delivered = inflater.delivered
  <1>1. /\ Fresh /\ Says(inflater.delivered, 0) /\ Says(strm.output, Sent)
        /\ inflater.delivered \in Seq(Byte) /\ strm.output \in Seq(Byte)
        /\ DOMAIN inflater = InflaterFields
    BY DEF Fresh, Right, Says, Rest, Records
  <1>2. Handed.delivered = inflater.delivered \o (IF Wanted THEN strm.output ELSE <<>>)
    BY <1>1 DEF Handed, Wanted, InflaterFields
  <1>3. Len(inflater.delivered) = Sent /\ Sent \in Nat /\ 0 \in Nat /\ 0 + Sent = Sent
    BY <1>1, LenProperties DEF Sent
  <1>4. CASE Wanted
    <2>1. Handed.delivered = inflater.delivered \o strm.output
      BY <1>2, <1>4
    <2>2. Says(strm.output, 0 + Len(inflater.delivered))
      BY <1>1, <1>3
    <2>3. Says(inflater.delivered \o strm.output, 0)
      BY <1>1, <1>3, <2>2, SaysMore
    <2>4. Len(inflater.delivered \o strm.output) = Total
      BY <1>1, <1>3, Joined DEF Total
    <2> QED
      BY <1>4, <2>1, <2>3, <2>4
  <1>5. CASE ~Wanted
    <2>1. Handed.delivered = inflater.delivered \o <<>>
      BY <1>2, <1>5
    <2>2. IsSequence(inflater.delivered)
      <3>1. inflater.delivered \in [1 .. Len(inflater.delivered) -> Byte]
        BY <1>1, LenProperties
      <3> QED
        BY <1>3, <3>1 DEF IsSequence
    <2>3. inflater.delivered \o <<>> = inflater.delivered
      BY <2>2, NothingBehind
    <2> QED
      BY <1>1, <1>5, <2>1, <2>3
  <1> QED
    BY <1>4, <1>5

\* It goes on, in a new buffer if the last one is full,
LEMMA PushLoopsSays ==
  ASSUME NEW r, NEW w, Holds(r, w), PushLoops
  PROVE  TextOK(r, w)'
  <1>1. /\ call.at = "returned" /\ ~Fails /\ UNCHANGED <<stream, state>> /\ ~Running
        /\ Again(strm.avail_in, strm.avail_out) /\ Status # Z_STREAM_END
        /\ inflater' = Handed
    BY DEF PushLoops, Running
  <1>2. Rest /\ Synced(r) /\ Right /\ ~inflater.ended
    BY <1>1 DEF Holds, TextOK
  <1>3. Outputs(r, w)
    <2>1. ~Dictless
      BY <1>1 DEF Dictless, Fails, Status, Z_NEED_DICT, Z_OK, Z_STREAM_END, Z_BUF_ERROR
    <2> QED
      BY <1>2, <2>1 DEF Holds, TextOK
  <1>4. Waits(r)
    BY <1>2, PushLoopsKeeps
  <1>5. PICK allow :
          /\ allow = (\/ strm.avail_in = 0 /\ strm.avail_out = 0
                      \/ call.allowBufError /\ call.ret # Z_BUF_ERROR)
          /\ Call(strm, call.mode, allow)
    BY DEF PushLoops
  <1>6. /\ DOMAIN strm = StrmFields /\ inflater'.ended = inflater.ended
        /\ inflater'.chunkSize = inflater.chunkSize
    BY <1>1, <1>2, HandedFacts DEF Rest, Records
  <1>7. strm.avail_in = 0 => strm.avail_out = 0
    BY <1>1 DEF Again
  <1>8. strm.avail_in = 0 => allow = TRUE
    BY <1>5, <1>7
  <1>9. strm.avail_out = 0 => Wanted
    BY DEF Wanted
  <1>10. strm.avail_out # 0 => ~Wanted
    BY <1>1, <1>7 DEF Wanted
  <1>11. /\ Says(inflater'.delivered, 0)
         /\ strm.avail_out = 0 => Len(inflater'.delivered) = Total
         /\ strm.avail_out # 0 => Fresh /\ inflater'.delivered = inflater.delivered
    BY <1>1, <1>2, <1>9, <1>10, HandedSays DEF Fresh
  <1> QED
    BY <1>1, <1>2, <1>3, <1>4, <1>5, <1>6, <1>8, <1>11, CallSays

\* fails, where inflate() has found what is wrong with the stream,
LEMMA PushFailsSays ==
  ASSUME NEW r, NEW w, Holds(r, w), PushFails
  PROVE  TextOK(r, w)'
  <1>1. /\ call.at = "returned" /\ Fails /\ call' = [at |-> "none"]
        /\ UNCHANGED <<stream, strm, state>>
        /\ inflater' = [OnEnd(inflater, Status) EXCEPT !.ended = TRUE]
    BY DEF PushFails
  <1>2. /\ Rest /\ Right /\ Returned /\ ~inflater.ended /\ DOMAIN inflater = InflaterFields
        /\ Outputs(r, w) \/ Dictless
    BY <1>1 DEF Holds, TextOK, Rest, Records
  <1>3. /\ inflater'.ended = TRUE /\ inflater'.err = Status
        /\ inflater'.delivered = inflater.delivered
    BY <1>1, <1>2 DEF OnEnd, InflaterFields
  <1>4. UNCHANGED <<stream, strm, state>>
    BY <1>1
  <1>5. Status \in {Z_NEED_DICT, Z_DATA_ERROR, Z_BUF_ERROR}
    <2>1. call.ret \in Statuses
      BY <1>1, <1>2 DEF Rest, Codes
    <2> QED
      BY <1>1, <2>1 DEF Fails, Status, Statuses
  <1>6. Right'
    <2>1. ~Fresh'
      BY <1>1, <1>3 DEF Fresh
    <2>2. Says(inflater.delivered, 0) => Says(inflater.delivered, 0)'
      BY <1>1, <1>3 DEF Says
    <2> QED
      BY <1>2, <2>1, <2>2 DEF Right
  <1>7. EndsAsItShould' => TextOK(r, w)'
    <2>1. call'.at = "none" /\ inflater'.ended
      BY <1>1, <1>3
    <2> QED
      BY <1>6, <2>1 DEF TextOK
  <1>8. CASE Status = Z_NEED_DICT
    <2>1. stream.fault = "dictionary"
      BY <1>2, <1>8 DEF Returned, Status, Z_OK, Z_NEED_DICT
    <2>2. EndsAsItShould'
      BY <1>3, <1>4, <1>8, <2>1
      DEF EndsAsItShould, Z_OK, Z_NEED_DICT, Z_DATA_ERROR, Z_BUF_ERROR
    <2> QED
      BY <1>7, <2>2
  <1>9. CASE Status = Z_DATA_ERROR
    <2>1. call.ret = Z_DATA_ERROR
      BY <1>9 DEF Status, Z_OK, Z_DATA_ERROR
    <2>2. Goes(r, w) /\ state.mode = "BAD"
      BY <1>2, <2>1 DEF Returned, Dictless, Outputs, Z_NEED_DICT, Z_DATA_ERROR
    <2>3. stream.fault = "broken"
      BY <2>2 DEF Goes
    <2>4. EndsAsItShould'
      BY <1>3, <1>4, <1>9, <2>3
      DEF EndsAsItShould, Z_OK, Z_NEED_DICT, Z_DATA_ERROR, Z_BUF_ERROR
    <2> QED
      BY <1>7, <2>4
  <1>10. CASE Status = Z_BUF_ERROR
    <2>1. call.ret = Z_BUF_ERROR /\ ~call.allowBufError
      BY <1>10 DEF Status, Z_OK, Z_BUF_ERROR
    <2>2. strm.next_in = 0 /\ strm.avail_in = 0
      BY <1>2, <2>1 DEF Returned
    <2>3. EndsAsItShould'
      BY <1>3, <1>4, <1>10, <2>2
      DEF EndsAsItShould, Z_OK, Z_NEED_DICT, Z_DATA_ERROR, Z_BUF_ERROR
    <2> QED
      BY <1>7, <2>3
  <1> QED
    BY <1>5, <1>8, <1>9, <1>10

\* and ends where there is no more input, or the stream has ended.  What is in the buffer
\* stays there, or is handed out,
LEMMA EndsOpen ==
  ASSUME NEW r, NEW w, Rest, Outputs(r, w), Waits(r), call.at = "returned", call'.at = "none",
         UNCHANGED <<stream, state>>, inflater'.ended = FALSE,
         inflater'.chunkSize = inflater.chunkSize, Says(inflater'.delivered, 0),
         strm'.output = strm.output,
         \/ /\ strm'.avail_out = strm.avail_out /\ strm.avail_out # 0
            /\ inflater'.delivered = inflater.delivered
         \/ strm'.avail_out = 0 /\ Len(inflater'.delivered) = Total
  PROVE  TextOK(r, w)'
  <1>1. /\ Limits /\ Windows /\ Goes(r, w) /\ Right /\ Buffers /\ Fresh /\ ~Running /\ ~Running'
    BY DEF Outputs, Fresh, Running
  <1>2. Sent' \in Nat
    <2>1. inflater'.delivered \in Seq(Byte)
      BY DEF Says
    <2> QED
      BY <2>1, LenProperties DEF Sent
  <1>3. Says(inflater'.delivered, 0) => Says(inflater.delivered, 0)'
    BY DEF Says
  <1>4. Total' = Total /\ Right' /\ Buffers'
    <2>1. CASE /\ strm'.avail_out = strm.avail_out /\ strm.avail_out # 0
               /\ inflater'.delivered = inflater.delivered
      <3>1. Fresh' /\ Sent' = Sent
        BY <2>1 DEF Fresh, Sent
      <3>2. Total' = Total
        BY <1>1, <3>1 DEF Total
      <3>3. Says(strm.output, Sent) => Says(strm.output, Sent)'
        BY <3>1 DEF Says
      <3>4. Right'
        BY <1>1, <1>3, <3>3 DEF Right
      <3>5. Buffers'
        BY <1>1, <2>1, <3>1 DEF Buffers
      <3> QED
        BY <3>2, <3>4, <3>5
    <2>2. CASE strm'.avail_out = 0 /\ Len(inflater'.delivered) = Total
      <3>1. ~Fresh'
        BY <2>2 DEF Fresh
      <3>2. Total' = Sent' + 0
        BY <3>1 DEF Total
      <3>3. Total' = Total
        BY <1>2, <2>2, <3>2 DEF Sent
      <3>4. Right'
        BY <1>3, <3>1 DEF Right
      <3>5. Buffers'
        BY <1>1, <3>1 DEF Buffers
      <3> QED
        BY <3>3, <3>4, <3>5
    <2> QED
      BY <2>1, <2>2
  <1>5. Earlier' = Total
    BY <1>1, <1>4 DEF Earlier
  <1>6. Limits' /\ Windows' /\ Goes(r, w)'
    BY <1>1, <1>4, <1>5, StaysSaid
  <1>7. Outputs(r, w)'
    BY <1>4, <1>6 DEF Outputs
  <1> QED
    BY <1>4, <1>7 DEF TextOK, EndsAsItShould

\* and when it is handed out behind the end of the stream, it is the end of the text.
LEMMA TextEnds ==
  ASSUME NEW r, NEW w, Rest, Known(r, w), Outputs(r, w), state.mode = "DONE"
  PROVE  stream.fault = "none" /\ Total = Len(stream.text)
  <1>1. PICK i \in 1 .. Len(stream.fields) + 1 : AtField(r, w, i)
    BY DEF Outputs, Goes
  <1>2. r[i].mode = "DONE"
    <2>1. r[i] = Settled(View(state)) /\ View(state).mode = "DONE"
      BY <1>1, ViewFacts DEF AtField, Stands
    <2> QED
      BY <2>1, SettledIs
  <1>3. w[i].sound /\ w[i].n = Total
    BY <1>1 DEF AtField, Tells, Matching
  <1>4. stream.fault = "none"
    BY <1>2, <1>3 DEF Known, IsFault
  <1> QED
    BY <1>2, <1>3, <1>4 DEF Known, IsFault

\* push ends as it should when the stream ended, or when it has all input of a flush.
LEMMA EndsClosed ==
  ASSUME NEW r, NEW w, Rest, Known(r, w), Outputs(r, w), Returned,
         call.ret = Z_STREAM_END \/ (call.ret \in {Z_OK, Z_BUF_ERROR} /\ strm.avail_in = 0
                                       /\ strm.avail_out # 0),
         call'.at = "none", UNCHANGED <<stream, strm, state>>, inflater'.ended = TRUE,
         inflater'.err = Z_OK, Says(inflater'.delivered, 0),
         call.ret = Z_STREAM_END => Len(inflater'.delivered) = Total
  PROVE  TextOK(r, w)'
  <1>1. Right'
    <2>1. ~Fresh'
      BY DEF Fresh
    <2>2. Says(inflater'.delivered, 0) => Says(inflater.delivered, 0)'
      BY DEF Says
    <2> QED
      BY <2>1, <2>2 DEF Right
  <1>2. \/ stream.fault = "none" /\ inflater'.delivered = stream.text
        \/ Pushed < BytesOf(stream)
    <2>1. CASE call.ret = Z_STREAM_END
      <3>1. stream.fault = "none" /\ Total = Len(stream.text)
        BY <2>1, TextEnds DEF Returned
      <3>2. Len(inflater'.delivered) = Len(stream.text)
        BY <2>1, <3>1
      <3>3. inflater'.delivered \in Seq(Byte) /\ stream.text \in Seq(Byte)
        BY TextAssumption DEF Says, Rest, Records
      <3>4. ASSUME NEW k \in 1 .. Len(inflater'.delivered)
            PROVE  inflater'.delivered[k] = stream.text[k]
        <4>1. inflater'.delivered[k] = stream.text[0 + k] /\ k \in Int
          BY DEF Says
        <4>2. 0 + k = k
          BY <4>1
        <4> QED
          BY <4>1, <4>2
      <3>5. inflater'.delivered = stream.text
        BY <3>2, <3>3, <3>4, SameSequence
      <3> QED
        BY <3>1, <3>5
    <2>2. CASE call.ret \in {Z_OK, Z_BUF_ERROR} /\ strm.avail_in = 0 /\ strm.avail_out # 0
      BY <2>2 DEF Returned
    <2> QED
      BY <2>1, <2>2
  <1>3. Pushed < BytesOf(stream) => (Pushed < BytesOf(stream))'
    BY DEF Pushed
  <1>4. EndsAsItShould'
    BY <1>2, <1>3
    DEF EndsAsItShould, Z_OK, Z_NEED_DICT, Z_DATA_ERROR, Z_BUF_ERROR
  <1> QED
    BY <1>1, <1>4 DEF TextOK

\* push returns, with or without an error.
LEMMA PushEndsSays ==
  ASSUME NEW r, NEW w, Holds(r, w), PushEnds
  PROVE  TextOK(r, w)'
  <1>1. PICK mode :
          /\ mode = (IF Status = Z_STREAM_END THEN Z_FINISH ELSE call.mode)
          /\ inflater' = IF mode = Z_NO_FLUSH THEN Handed
                         ELSE [OnEnd(Handed, Z_OK) EXCEPT !.ended = mode = Z_FINISH]
          /\ strm' = IF mode = Z_SYNC_FLUSH THEN [strm EXCEPT !.avail_out = 0] ELSE strm
    BY DEF PushEnds
  <1>2. /\ call.at = "returned" /\ call'.at = "none" /\ UNCHANGED <<stream, state>> /\ ~Fails
        /\ ~(Again(strm.avail_in, strm.avail_out) /\ Status # Z_STREAM_END)
    BY DEF PushEnds
  <1>3. Rest /\ Known(r, w) /\ Synced(r) /\ Right /\ Returned /\ ~inflater.ended
    BY <1>2 DEF Holds, TextOK
  <1>4. Outputs(r, w)
    <2>1. ~Dictless
      BY <1>2 DEF Dictless, Fails, Status, Z_NEED_DICT, Z_OK, Z_STREAM_END, Z_BUF_ERROR
    <2> QED
      BY <1>3, <2>1 DEF Holds, TextOK
  <1>5. Waits(r)
    BY <1>3, PushEndsKeeps
  <1>6. Status \in {Z_OK, Z_STREAM_END}
    BY <1>2 DEF Fails
  <1>7. Status # Z_STREAM_END =>
          call.ret \in {Z_OK, Z_BUF_ERROR} /\ strm.avail_in = 0 /\ strm.avail_out # 0
    <2>1. Status # Z_STREAM_END => call.ret \in {Z_OK, Z_BUF_ERROR}
      BY <1>6 DEF Status
    <2>2. Status # Z_STREAM_END => strm.avail_in = 0 /\ strm.avail_out # 0
      BY <1>2, <1>3 DEF Again, Rest, Room
    <2> QED
      BY <2>1, <2>2
  <1>8. Status = Z_STREAM_END => call.ret = Z_STREAM_END
    BY DEF Status, Z_OK, Z_STREAM_END
  <1>9. /\ DOMAIN Handed = InflaterFields /\ Handed.chunkSize = inflater.chunkSize
        /\ Handed.ended = FALSE /\ Says(Handed.delivered, 0)
        /\ Wanted => Len(Handed.delivered) = Total
        /\ ~Wanted => Handed.delivered = inflater.delivered
    BY <1>2, <1>3, HandedFacts, HandedSays DEF Rest, Room
  <1>10. ASSUME NEW h, DOMAIN h = InflaterFields, NEW ended
         PROVE  LET j == [OnEnd(h, Z_OK) EXCEPT !.ended = ended] IN
                /\ j.chunkSize = h.chunkSize /\ j.delivered = h.delivered
                /\ j.ended = ended /\ j.err = Z_OK
    BY <1>10 DEF OnEnd, InflaterFields
  <1>11. /\ inflater'.chunkSize = inflater.chunkSize /\ inflater'.delivered = Handed.delivered
         /\ inflater'.ended = (mode = Z_FINISH) /\ (mode = Z_FINISH => inflater'.err = Z_OK)
    <2>1. PICK e \in BOOLEAN : e = (mode = Z_FINISH)
      OBVIOUS
    <2>2. CASE mode = Z_NO_FLUSH
      <3>1. inflater' = Handed /\ mode # Z_FINISH
        BY <1>1, <2>2 DEF Z_NO_FLUSH, Z_FINISH
      <3> QED
        BY <1>9, <3>1
    <2>3. CASE mode # Z_NO_FLUSH
      <3>1. inflater' = [OnEnd(Handed, Z_OK) EXCEPT !.ended = e]
        BY <1>1, <2>1, <2>3
      <3>2. /\ inflater'.chunkSize = Handed.chunkSize /\ inflater'.delivered = Handed.delivered
            /\ inflater'.ended = e /\ inflater'.err = Z_OK
        BY <1>9, <1>10, <3>1
      <3> QED
        BY <1>9, <2>1, <3>2
    <2> QED
      BY <2>2, <2>3
  <1>12. Says(inflater'.delivered, 0)
    BY <1>9, <1>11
  <1>13. CASE mode = Z_FINISH
    <2>1. strm' = strm
      BY <1>1, <1>13 DEF Z_FINISH, Z_SYNC_FLUSH
    <2>2. inflater'.ended = TRUE /\ inflater'.err = Z_OK
      BY <1>11, <1>13
    <2>3. call.ret = Z_STREAM_END => Wanted
      BY <1>7, <1>8 DEF Wanted, Z_STREAM_END, Z_OK, Z_BUF_ERROR
    <2>4. call.ret = Z_STREAM_END => Len(inflater'.delivered) = Total
      BY <1>9, <1>11, <2>3
    <2>5. \/ call.ret = Z_STREAM_END
          \/ call.ret \in {Z_OK, Z_BUF_ERROR} /\ strm.avail_in = 0 /\ strm.avail_out # 0
      BY <1>7, <1>8
    <2> QED
      BY <1>2, <1>3, <1>4, <1>12, <2>1, <2>2, <2>4, <2>5, EndsClosed
  <1>14. CASE mode # Z_FINISH
    <2>1. Status # Z_STREAM_END /\ mode = call.mode
      BY <1>1, <1>14
    <2>2. strm.avail_in = 0 /\ strm.avail_out # 0
      BY <1>7, <2>1
    <2>3. inflater'.ended = FALSE
      BY <1>11, <1>14
    <2>4. CASE mode = Z_SYNC_FLUSH
      <3>1. Wanted
        BY <2>1, <2>2, <2>4 DEF Wanted
      <3>2. strm'.avail_out = 0 /\ strm'.output = strm.output
        BY <1>1, <1>3, <2>4 DEF Rest, Records, StrmFields
      <3>3. Len(inflater'.delivered) = Total
        BY <1>9, <1>11, <3>1
      <3> QED
        BY <1>2, <1>3, <1>4, <1>5, <1>11, <1>12, <2>3, <3>2, <3>3, EndsOpen
    <2>5. CASE mode # Z_SYNC_FLUSH
      <3>1. ~Wanted
        BY <1>14, <2>1, <2>2, <2>5 DEF Wanted
      <3>2. strm' = strm
        BY <1>1, <2>5
      <3>3. inflater'.delivered = inflater.delivered
        BY <1>9, <1>11, <3>1
      <3> QED
        BY <1>2, <1>3, <1>4, <1>5, <1>11, <1>12, <2>2, <2>3, <3>2, <3>3, EndsOpen
    <2> QED
      BY <2>4, <2>5
  <1> QED
    BY <1>13, <1>14

-----------------------------------------------------------------------------
(***************************************************************************)
(* The invariant is inductive.                                             *)
(***************************************************************************)
\* At first there is nothing to say.
LEMMA TextInit == Init => TextInv
  <1> SUFFICES ASSUME Init PROVE TextInv
    OBVIOUS
  <1>1. Rest /\ \A r : IsReading(stream, r) => Synced(r) /\ Stands(r, 1)
    BY ReaderBegins
  <1>2. PICK r, w : Known(r, w)
    BY <1>1, TextAssumption DEF Rest, Records, Known
  <1>3. Synced(r) /\ Stands(r, 1)
    BY <1>1, <1>2 DEF Known
  <1>4. /\ strm.output = <<>> /\ strm.avail_out = 0 /\ call.at = "none"
    BY DEF Init
  <1>5. inflater.delivered = <<>> /\ inflater.ended = FALSE
    BY DEF Init
  <1>6. /\ state.mode = "HEAD" /\ state.total = 0 /\ state.check = <<>> /\ state.dmax = DMAX
        /\ state.wsize = 0 /\ state.whave = 0 /\ state.wnext = 0
    BY DEF Init
  <1>7. ~Fresh /\ ~Running
    BY <1>4, <1>5 DEF Fresh, Running
  <1>8. Sent = 0 /\ Total = 0 /\ Earlier = 0
    <2>1. Len(<<>>) = 0
      OBVIOUS
    <2>2. Sent = 0
      BY <1>5, <2>1 DEF Sent
    <2> QED
      BY <1>7, <2>2 DEF Total, Earlier
  <1>9. stream.text \in Seq(Byte) /\ Len(stream.text) \in Nat
    <2>1. stream.text \in Seq(Byte)
      BY <1>1, TextAssumption DEF Rest, Records
    <2> QED
      BY <2>1, LenProperties
  <1>10. Right /\ Buffers
    <2>1. <<>> \in Seq(Byte) /\ 0 + Len(<<>>) <= Len(stream.text) /\ Len(<<>>) = 0
      BY <1>9
    <2>2. Says(<<>>, 0)
      BY <2>1 DEF Says
    <2> QED
      BY <1>5, <1>7, <2>2 DEF Right, Buffers
  <1>11. Limits
    BY <1>6 DEF Limits
  <1>12. Windows
    <2>1. Least({0, 0}) = 0
      BY LeastOfTwo
    <2>2. WindowSays(state, 0)
      BY <1>6, <2>1 DEF WindowSays
    <2> QED
      BY <1>8, <2>2 DEF Windows
  <1>13. Goes(r, w)
    <2>1. 1 \in 1 .. Len(stream.fields) + 1
      BY <1>1, StreamFacts DEF Rest
    <2>2. w[1] = Nothing
      BY <1>2 DEF Known, IsWriting
    <2>3. Tells(w[1])
      BY <1>6, <1>8, <2>2 DEF Tells, Matching, Nothing, Written
    <2>4. SubSeq(stream.text, 1, 0) = <<>>
      <3>1. SubSeq(stream.text, 1, 0) = From_(0, 0)
        BY PrefixIsPiece
      <3> QED
        BY <3>1 DEF From_
    <2>5. ChecksSay(w[1])
      BY <1>6, <1>8, <2>4 DEF ChecksSay, HeadModes
    <2> QED
      BY <1>3, <1>6, <2>1, <2>3, <2>5 DEF Goes, AtField
  <1>14. TextOK(r, w)
    BY <1>4, <1>5, <1>10, <1>11, <1>12, <1>13 DEF TextOK, Outputs, EndsAsItShould
  <1> QED
    BY <1>1, <1>2, <1>3, <1>14 DEF TextInv, Holds

\* Every step of push(), of inflate() and of inflate_fast() puts out what the stream says.
LEMMA StepSays ==
  ASSUME NEW r, NEW w, Holds(r, w), Step
  PROVE  TextOK(r, w)'
  <1>1. CASE ByteBits
    BY <1>1, ByteBitsSays
  <1>2. CASE Pull
    BY <1>2, PullSays
  <1>3. CASE SkipHead
    BY <1>3, SkipHeadSays
  <1>4. CASE ReadHead
    BY <1>4, ReadHeadSays
  <1>5. CASE ReadFlags
    BY <1>5, ReadFlagsSays
  <1>6. CASE ReadTime
    BY <1>6, ReadTimeSays
  <1>7. CASE ReadOs
    BY <1>7, ReadOsSays
  <1>8. CASE ReadExLen
    BY <1>8, ReadExLenSays
  <1>9. CASE ReadExtra
    BY <1>9, ReadExtraSays
  <1>10. CASE ReadName("NAME", "name", 4)
    <2>1. 4 \in 1 .. 6
      OBVIOUS
    <2> QED
      BY <1>10, <2>1, ReadNameSays
  <1>11. CASE ReadName("COMMENT", "comment", 5)
    <2>1. 5 \in 1 .. 6
      OBVIOUS
    <2> QED
      BY <1>11, <2>1, ReadNameSays
  <1>12. CASE ReadHCrc
    BY <1>12, ReadHCrcSays
  <1>13. CASE ReadDictId
    BY <1>13, ReadDictIdSays
  <1>14. CASE NeedDict
    BY <1>14, NeedDictSays
  <1>15. CASE ReadType
    BY <1>15, ReadTypeSays
  <1>16. CASE ReadStored
    BY <1>16, ReadStoredSays
  <1>17. CASE Copy
    BY <1>17, CopySays
  <1>18. CASE ReadTable
    BY <1>18, ReadTableSays
  <1>19. CASE ReadLenLens
    BY <1>19, ReadLenLensSays
  <1>20. CASE ReadCodeLens
    BY <1>20, ReadCodeLensSays
  <1>21. CASE ReadLen
    BY <1>21, ReadLenSays
  <1>22. CASE ReadLenExt
    BY <1>22, ReadLenExtSays
  <1>23. CASE ReadDist
    BY <1>23, ReadDistSays
  <1>24. CASE ReadDistExt
    BY <1>24, ReadDistExtSays
  <1>25. CASE CopyMatch
    BY <1>25, CopyMatchSays
  <1>26. CASE CopyLit
    BY <1>26, CopyLitSays
  <1>27. CASE ReadCheck
    BY <1>27, ReadCheckSays
  <1>28. CASE ReadLength
    BY <1>28, ReadLengthSays
  <1>29. CASE EnterFast
    BY <1>29, EnterFastSays
  <1>30. CASE FastToken
    BY <1>30, FastTokenSays
  <1>31. CASE LeaveFast
    BY <1>31, LeaveFastSays
  <1>32. CASE LeaveInflate
    BY <1>32, LeaveInflateSays
  <1>33. CASE PushFails
    BY <1>33, PushFailsSays
  <1>34. CASE PushLoops
    BY <1>34, PushLoopsSays
  <1>35. CASE PushEnds
    BY <1>35, PushEndsSays
  <1> QED
    BY <1>1, <1>2, <1>3, <1>4, <1>5, <1>6, <1>7, <1>8, <1>9, <1>10, <1>11, <1>12, <1>13,
       <1>14, <1>15, <1>16, <1>17, <1>18, <1>19, <1>20, <1>21, <1>22, <1>23, <1>24, <1>25,
       <1>26, <1>27, <1>28, <1>29, <1>30, <1>31, <1>32, <1>33, <1>34, <1>35 DEF Step

\* Where nothing happens nothing changes.
LEMMA StutterSays ==
  ASSUME NEW r, NEW w, Holds(r, w), UNCHANGED vars
  PROVE  TextOK(r, w)'
  <1>1. UNCHANGED <<stream, strm, state, inflater, call>>
    BY DEF vars
  <1>2. Rest /\ Synced(r) /\ TextOK(r, w)
    BY DEF Holds
  <1>3. \A i : Stands(r, i) => Stands(r, i)'
    BY <1>2, StutterKeeps DEF Waits
  <1>4. /\ Fresh' = Fresh /\ Running' = Running /\ Sent' = Sent /\ Matching' = Matching
        /\ Produced(strm)' = Produced(strm) /\ Pushed' = Pushed
    BY <1>1 DEF Fresh, Running, Sent, Matching, Produced, Pushed
  <1>5. Total' = Total
    BY <1>1, <1>4 DEF Total
  <1>6. Earlier' = Earlier
    BY <1>1, <1>4, <1>5 DEF Earlier
  <1>7. Right => Right'
    BY <1>1, <1>4 DEF Right, Says
  <1>8. Outputs(r, w) => Outputs(r, w)'
    <2>1. Buffers => Buffers'
      BY <1>1, <1>4 DEF Buffers
    <2>2. Limits => Limits'
      BY <1>1 DEF Limits
    <2>3. Windows => Windows'
      <3>1. WindowSays(state, Earlier) => WindowSays(state, Earlier)'
        BY <1>1, <1>6 DEF WindowSays
      <3> QED
        BY <1>1, <3>1 DEF Windows
    <2>4. ASSUME NEW i, AtField(r, w, i) PROVE AtField(r, w, i)'
      <3>1. ChecksSay(w[i])'
        BY <1>1, <1>5, <1>6, <2>4 DEF AtField, ChecksSay
      <3>2. Tells(w[i])'
        <4>1. Pending(w[i], state.length, state.offset) => Pending(w[i], state.length, state.offset)'
          BY <1>1, <1>5 DEF Pending
        <4> QED
          BY <1>1, <1>4, <1>5, <2>4, <4>1 DEF Tells, AtField
      <3> QED
        BY <1>3, <2>4, <3>1, <3>2 DEF AtField
    <2>5. Goes(r, w) => Goes(r, w)'
      BY <1>1, <2>4 DEF Goes
    <2> QED
      BY <1>7, <2>1, <2>2, <2>3, <2>5 DEF Outputs
  <1>9. Dictless => Dictless'
    BY <1>1 DEF Dictless
  <1>10. Returned => Returned'
    BY <1>1, <1>4 DEF Returned
  <1>11. EndsAsItShould => EndsAsItShould'
    BY <1>1, <1>4 DEF EndsAsItShould
  <1> QED
    BY <1>1, <1>2, <1>7, <1>8, <1>9, <1>10, <1>11 DEF TextOK

\* So does every step, for the reader and what it writes that there were before.
LEMMA TextStep == TextInv /\ [Next]_vars => TextInv'
  <1> SUFFICES ASSUME TextInv, [Next]_vars PROVE TextInv'
    OBVIOUS
  <1>1. PICK r, w : Holds(r, w)
    BY DEF TextInv
  <1>2. Rest /\ Synced(r) /\ Known(r, w) /\ IsReading(stream, r)
    BY <1>1 DEF Holds, Known
  <1>3. stream' = stream /\ Preserved(r)' /\ TextOK(r, w)'
    <2>1. CASE Next
      <3>1. stream' = stream
        BY <2>1, StreamStays
      <3>2. CASE Step
        BY <1>1, <1>2, <3>1, <3>2, StepKeeps, StepSays
      <3>3. ASSUME NEW bytes \in Pieces \cup {BytesOf(stream) - Pushed} \cup SyncPieces, NEW mode,
                   Push(bytes, mode)
            PROVE  Preserved(r)' /\ TextOK(r, w)'
        <4>1. bytes \in Nat
          <5>1. PICK a, b \in Nat : a = BytesOf(stream) /\ b = Pushed /\ b <= a
            BY <1>2, BytesAreNumbers DEF Rest, Room, Pushed
          <5>2. a - b \in Nat
            BY <5>1
          <5> QED
            BY <5>1, <5>2, StreamAssumption
        <4> QED
          BY <1>1, <1>2, <3>3, <4>1, PushKeeps, PushSays DEF Waits
      <3> QED
        BY <2>1, <3>1, <3>2, <3>3 DEF Next
    <2>2. CASE UNCHANGED vars
      BY <1>1, <1>2, <2>2, StutterKeeps, StutterSays DEF Waits, vars
    <2> QED
      BY <2>1, <2>2
  <1>4. Known(r, w)'
    BY <1>2, <1>3 DEF Known
  <1> QED
    BY <1>3, <1>4 DEF TextInv, Holds, Preserved

\* So it holds in every state,
LEMMA TextInvariant == Spec => []TextInv
  BY TextInit, TextStep, PTL DEF Spec

\* where it says that what is put out is the text from its beginning on,
LEMMA PrefixComesOut ==
  ASSUME NEW r, NEW w, Holds(r, w)
  PROVE  /\ Says(Text, 0) /\ Len(Text) = Total /\ IsPrefix(Text, stream.text)
         /\ Total \in Nat /\ Total <= Len(stream.text)
  <1>1. Rest /\ Right
    BY DEF Holds, TextOK
  <1>2. /\ inflater.delivered \in Seq(Byte) /\ Says(inflater.delivered, 0)
        /\ DOMAIN inflater = InflaterFields /\ inflater.ended \in BOOLEAN
    BY <1>1 DEF Right, Says, Rest, Records, Room
  <1>3. Len(inflater.delivered) = Sent /\ Sent \in Nat /\ 0 \in Nat /\ 0 + Sent = Sent
    BY <1>2, LenProperties DEF Sent
  <1>4. Says(Text, 0) /\ Len(Text) = Total
    <2>1. CASE Fresh
      <3>1. Text = inflater.delivered \o strm.output
        BY <2>1 DEF Text, Kept, Fresh
      <3>2. strm.output \in Seq(Byte) /\ Says(strm.output, 0 + Len(inflater.delivered))
        BY <1>1, <1>3, <2>1 DEF Right, Says
      <3>3. Says(inflater.delivered \o strm.output, 0)
        BY <1>2, <1>3, <3>2, SaysMore
      <3>4. Len(inflater.delivered \o strm.output) = Total
        BY <1>2, <1>3, <2>1, <3>2, Joined DEF Total
      <3> QED
        BY <3>1, <3>3, <3>4
    <2>2. CASE ~Fresh
      <3>1. Text = inflater.delivered \o <<>>
        BY <2>2 DEF Text, Kept, Fresh
      <3>2. IsSequence(inflater.delivered)
        <4>1. inflater.delivered \in [1 .. Len(inflater.delivered) -> Byte]
          BY <1>2, LenProperties
        <4> QED
          BY <1>3, <4>1 DEF IsSequence
      <3>3. Text = inflater.delivered
        BY <3>1, <3>2, NothingBehind
      <3>4. Total = Sent
        BY <1>3, <2>2 DEF Total
      <3> QED
        BY <1>2, <1>3, <3>3, <3>4
    <2> QED
      BY <2>1, <2>2
  <1>5. PICK n \in Nat : n = Len(Text) /\ n = Total /\ n <= Len(stream.text)
    <2>1. Text \in Seq(Byte) /\ 0 + Len(Text) <= Len(stream.text)
      BY <1>4 DEF Says
    <2>2. Len(Text) \in Nat
      BY <2>1, LenProperties
    <2> QED
      BY <1>4, <2>1, <2>2
  <1>6. SubSeq(Text, 1, n) = SubSeq(stream.text, 1, n)
    <2>1. \A k \in 1 .. n : Text[k] = stream.text[k]
      <3>1. ASSUME NEW k \in 1 .. n PROVE Text[k] = stream.text[k]
        <4>1. Text[k] = stream.text[0 + k] /\ 0 + k = k
          BY <1>4, <1>5 DEF Says
        <4> QED
          BY <4>1
      <3> QED
        BY <3>1
    <2>2. /\ SubSeq(Text, 1, n) = [k \in 1 .. (1 + n - 1) |-> Text[1 + k - 1]]
          /\ SubSeq(stream.text, 1, n) = [k \in 1 .. (1 + n - 1) |-> stream.text[1 + k - 1]]
      BY DEF SubSeq
    <2>3. 1 + n - 1 = n /\ \A k \in 1 .. n : 1 + k - 1 = k
      OBVIOUS
    <2> QED
      BY <2>1, <2>2, <2>3
  <1> QED
    BY <1>4, <1>5, <1>6 DEF IsPrefix

\* that the window has the last of it, backwards from wnext,
Backwards(ring, size, next, have, n, t) ==
  \A k \in 1 .. have : k <= n /\ ring[((next - k) % size) + 1] = t[n - k + 1]

\* as a ring does,
LEMMA LastInWindow ==
  ASSUME NEW size \in Nat, NEW next \in Nat, NEW have \in Nat, NEW n \in Nat, NEW t, NEW ring,
         have <= size, Ring(ring, size, next, have, n, t)
  PROVE  Backwards(ring, size, next, have, n, t)
  <1> SUFFICES ASSUME NEW k \in 1 .. have
               PROVE  k <= n /\ ring[((next - k) % size) + 1] = t[n - k + 1]
    BY DEF Backwards
  <1>1. /\ next < size /\ (have < size => next = have) /\ k <= n
        /\ \A j \in 1 .. next : ring[j] = t[n - next + j]
        /\ have = size => \A j \in next + 1 .. size : ring[j] = t[n - next + j - size]
    BY DEF Ring
  <1>2. CASE k <= next
    <2>1. next - k \in 0 .. size - 1 /\ next - k \in Int
      BY <1>1, <1>2
    <2>2. (next - k) % size = next - k
      BY <1>1, <2>1, Remainders
    <2>3. (next - k) + 1 \in 1 .. next /\ n - next + ((next - k) + 1) = n - k + 1
      BY <1>2
    <2> QED
      BY <1>1, <2>2, <2>3
  <1>3. CASE ~(k <= next)
    <2>1. have = size
      BY <1>1, <1>3
    <2>2. -size <= next - k /\ next - k < 0 /\ next - k \in Int
      BY <1>1, <1>3
    <2>3. (next - k) % size = (next - k) + size
      BY <1>1, <2>2, Remainders
    <2>4. /\ ((next - k) + size) + 1 \in next + 1 .. size
          /\ n - next + (((next - k) + size) + 1) - size = n - k + 1
      BY <1>1, <1>3
    <2> QED
      BY <1>1, <2>1, <2>3, <2>4
  <1> QED
    BY <1>2, <1>3

\* so that what was said comes out.
LEMMA InvComesOut == TextInv => TextComesOut
  <1> SUFFICES ASSUME TextInv PROVE TextComesOut
    OBVIOUS
  <1>1. PICK r, w : Holds(r, w)
    BY DEF TextInv
  <1>2. IsPrefix(Text, stream.text)
    BY <1>1, PrefixComesOut
  <1>3. ASSUME Running, state.mode \notin Unwindowed,
               NEW before, before = Len(Text) - Produced(strm)
        PROVE  /\ state.whave = Least({state.wsize, before})
               /\ state.wsize = 0 => before = 0
               /\ \A k \in 1 .. state.whave :
                    state.window[((state.wnext - k) % state.wsize) + 1] = Text[before - k + 1]
    <2>1. Rest /\ Right /\ Buffers /\ Windows /\ WindowOK
      BY <1>1, <1>3, InCall DEF Running, Rest
    <2>2. WindowSays(state, Earlier)
      BY <1>3, <2>1 DEF Windows
    <2>3. PICK n \in Nat, t \in Nat : n = Earlier /\ t = Total /\ n <= t
      <3>1. PICK n \in Nat, p \in Nat, t \in Nat :
              n = Earlier /\ p = Produced(strm) /\ t = Total /\ n + p = t
        BY <1>3, <2>1, OutputCounts
      <3> QED
        BY <3>1
    <2>4. before = n
      BY <1>1, <1>3, <2>3, PrefixComesOut DEF Earlier
    <2>5. PICK size \in Nat, have \in Nat, next \in Nat :
            size = state.wsize /\ have = state.whave /\ next = state.wnext /\ have <= size
      BY <2>1, StreamAssumption DEF WindowOK
    <2>6. have = Least({size, n}) /\ (size = 0 => n = 0)
      BY <2>2, <2>3, <2>5 DEF WindowSays
    <2>7. ASSUME NEW k \in 1 .. have
          PROVE  state.window[((next - k) % size) + 1] = Text[n - k + 1]
      <3>1. /\ state.wsize \in Nat /\ state.wsize # 0
            /\ state.whave < state.wsize => state.wnext = state.whave
        BY <2>1, <2>5, <2>7 DEF WindowOK
      <3>2. Ring(state.window, state.wsize, state.wnext, state.whave, n, stream.text)
        BY <2>2, <2>3, <3>1, WindowIsRing
      <3>3. k <= n /\ state.window[((next - k) % size) + 1] = stream.text[n - k + 1]
        <4>1. PICK ring, text : /\ ring = state.window /\ text = stream.text
                                /\ Ring(ring, size, next, have, n, text)
          BY <2>5, <3>2
        <4>2. Backwards(ring, size, next, have, n, text)
          BY <2>3, <2>5, <4>1, LastInWindow
        <4> QED
          BY <2>7, <4>1, <4>2 DEF Backwards
      <3>4. n - k + 1 \in 1 .. t /\ 0 + (n - k + 1) = n - k + 1
        BY <2>3, <3>3
      <3>5. Text[n - k + 1] = stream.text[0 + (n - k + 1)]
        BY <1>1, <2>3, <3>4, PrefixComesOut DEF Says
      <3> QED
        BY <3>3, <3>4, <3>5
    <2> QED
      BY <2>4, <2>5, <2>6, <2>7
  <1> QED
    BY <1>2, <1>3 DEF TextComesOut, Running, Unwindowed

\* and how push ends.
LEMMA InvEnds == TextInv => EndsAsItShould
  BY DEF TextInv, Holds, TextOK

-----------------------------------------------------------------------------
(***************************************************************************)
(* The theorems.                                                           *)
(***************************************************************************)
\* For every stream, cut into pieces of any size and put out into buffers of any size,
\* inflate() and inflate_fast() put out the text from its beginning on, and while a call
\* runs its window has the last of the text that earlier calls put out.
THEOREM TextIsRight == Spec => []TextComesOut
  BY TextInvariant, InvComesOut, PTL

\* push ends without an error only with the whole text handed out or before the stream's
\* last byte was pushed, fails only over a stream that is broken or needs a dictionary,
\* and with Z_BUF_ERROR only where it was given nothing.
THEOREM EndsAreRight == Spec => []EndsAsItShould
  BY TextInvariant, InvEnds, PTL
=============================================================================
