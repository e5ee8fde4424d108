---------------------------- MODULE InflateStream ---------------------------
(***************************************************************************)
(* pako.Inflate: a compressed stream comes in through calls of push, cut   *)
(* into pieces anywhere, and its text goes out in buffers of one size.     *)
(* inflate() stops wherever its input or its room ends and goes on there   *)
(* in the next call.                                                       *)
(*                                                                         *)
(* A stream is a sequence of fields of some bits each, every one read by   *)
(* one mode of inflate(); what a field says, or that it says nothing valid *)
(* (wrong), is not put into bits.  Bits have numbers, from the first of   *)
(* the stream on, so that hold, the bits taken from the input and not yet  *)
(* used, shows where each came from.                                       *)
(***************************************************************************)
EXTENDS Integers, Sequences, FiniteSets, SequencesExt

CONSTANTS
  Streams,              \* what may be read, in a sequence: fields and their text
  ChunkSizes,           \* values of options.chunkSize
  Pieces, SyncPieces,   \* bound: how many bytes are pushed at a time, and so flushed
  WSIZE,                \* 1 << wbits: bytes of the window
  FAST_IN, MAX_MATCH,   \* inflate_fast needs this much input (6) and room (258)
  DMAX                  \* 32768

Z_NO_FLUSH == 0
Z_SYNC_FLUSH == 2
Z_FINISH == 4

Z_OK == 0
Z_STREAM_END == 1
Z_NEED_DICT == 2
Z_DATA_ERROR == -3
Z_BUF_ERROR == -5

VARIABLES
  stream,               \* what is read: wrap, fields, text, and what is wrong with it
  strm,                 \* zstream: the piece of input, where it begins, and the output
  state,                \* InflateState
  inflater,             \* the Inflate object, and all it has handed out (delivered)
  call                  \* the calls of push and inflate() under way, if any

vars == <<stream, strm, state, inflater, call>>

\* Bits that are all of a stream.
EndOf(s) == IF s.fields = <<>> THEN 0 ELSE Last(s.fields).at + Last(s.fields).width
BytesOf(s) == (EndOf(s) + 7) \div 8

ASSUME StreamAssumption ==
  /\ \A k \in DOMAIN Streams : LET s == Streams[k] IN
       /\ s.wrap \in {0, 3} /\ s.fault \in {"none", "dictionary", "broken"}
       /\ \A i \in DOMAIN s.fields : s.fields[i].width > 0
       /\ \A i, j \in DOMAIN s.fields :
            i < j => s.fields[i].at + s.fields[i].width <= s.fields[j].at
  /\ ChunkSizes \subseteq Nat \ {0} /\ Pieces \cup SyncPieces \subseteq Nat
  /\ WSIZE \in Nat \ {0} /\ FAST_IN \in Nat \ {0} /\ MAX_MATCH \in Nat \ {0} /\ DMAX \in Nat

\* Inflate, inflateInit2 and inflateReset: windowBits are 47 unless the data is raw,
\* for a zlib or a gzip header and the largest window.
Init ==
  /\ \E k \in DOMAIN Streams : stream = Streams[k]
  /\ strm = [given |-> 0, next_in |-> 0, avail_in |-> 0, output |-> <<>>, avail_out |-> 0]
  /\ state = [mode |-> "HEAD", wrap |-> stream.wrap, last |-> FALSE, hold |-> <<>>,
              flags |-> {}, length |-> 0, offset |-> 0, extra |-> 0, have |-> 0, table |-> <<>>,
              check |-> <<>>, total |-> 0, dmax |-> DMAX,
              head |-> [extra |-> <<>>, name |-> <<>>, comment |-> <<>>],
              wsize |-> 0, whave |-> 0, wnext |-> 0, window |-> <<>>]
  /\ \E size \in ChunkSizes :
       inflater = [chunkSize |-> size, ended |-> FALSE, err |-> Z_OK, chunks |-> <<>>,
                   result |-> <<>>, delivered |-> <<>>]
  /\ call = [at |-> "none"]

-----------------------------------------------------------------------------
(***************************************************************************)
(* Input, output and window.                                               *)
(***************************************************************************)
\* The first byte of the stream that is not yet in hold, and the first bit not used.
NextByte == strm.given + strm.next_in
NextBit == IF state.hold = <<>> THEN 8 * NextByte ELSE Head(state.hold)
FieldAt(bit) == stream.fields[CHOOSE i \in DOMAIN stream.fields : stream.fields[i].at = bit]
Here == FieldAt(NextBit)

In(mode) == call.at = "inflate" /\ state.mode = mode

\* n more bytes in the bit accumulator; and the first n bits out of it.
Held(n) == state.hold \o [i \in 1 .. 8 * n |-> 8 * NextByte + i - 1]
Without(hold, n) == SubSeq(hold, n + 1, Len(hold))
Taken(n) == [strm EXCEPT !.next_in = @ + n, !.avail_in = @ - n]

Put(s, bytes) == [s EXCEPT !.output = @ \o bytes, !.avail_out = @ - Len(bytes)]

Least(S) == CHOOSE n \in S : \A k \in S : n <= k

\* The bytes of the window that follow each other from the one so far back on.
Window(back) ==
  IF back > state.wnext
    THEN SubSeq(state.window, state.wsize - (back - state.wnext) + 1, state.wsize)
    ELSE SubSeq(state.window, state.wnext - back + 1, state.wnext)

\* Bytes that this call of inflate() has put out.
Produced(s) == call.out - s.avail_out

\* One run of a match in inflate(): from the window while the match begins before
\* this call's output, else from the output, which may grow under it.
MatchRun(s, offset, most) ==
  LET back == offset - Produced(s)
      begun == SubSeq(s.output, Len(s.output) - offset + 1, Len(s.output))
  IN  IF back > 0 THEN SubSeq(Window(back), 1, Least({most, Len(Window(back))}))
      ELSE [i \in 1 .. most |-> begun[((i - 1) % offset) + 1]]

\* A match in inflate_fast: from the window, around its end, and on from the output.
MatchBytes(offset, length) ==
  LET back == offset - Produced(strm)
      older == IF back <= 0 THEN <<>>
               ELSE Window(back) \o IF back > state.wnext
                                      THEN SubSeq(state.window, 1, state.wnext) ELSE <<>>
      recent == SubSeq(strm.output, Len(strm.output) - offset + Len(older) + 1, Len(strm.output))
  IN  [i \in 1 .. length |-> (older \o recent)[((i - 1) % offset) + 1]]

TooFarBack(offset) ==
  offset > Produced(strm) /\ offset - Produced(strm) > state.whave

\* Mutation of WindowAfter: whave does not grow when the window wraps.
WindowAfter_StaysYoung(w, bytes) ==
  LET dist == Least({w.wsize - w.wnext, Len(bytes)})
  IN  [w EXCEPT !.window = [i \in 1 .. w.wsize |->
                    LET k == ((i - 1 - w.wnext) % w.wsize) + 1
                    IN  IF k <= Len(bytes) THEN bytes[k] ELSE @[i]],
                !.wnext = (@ + Len(bytes)) % w.wsize,
                !.whave = IF dist < Len(bytes) THEN @ ELSE IF @ < w.wsize THEN @ + dist ELSE @]

\* Fewer bytes than the window has go into it behind wnext, and around its end.
WindowAfter(w, bytes) ==
  LET dist == Least({w.wsize - w.wnext, Len(bytes)})
  IN  [w EXCEPT !.window = [i \in 1 .. w.wsize |->
                    LET k == ((i - 1 - w.wnext) % w.wsize) + 1
                    IN  IF k <= Len(bytes) THEN bytes[k] ELSE @[i]],
                !.wnext = (@ + Len(bytes)) % w.wsize,
                !.whave = IF dist < Len(bytes) THEN w.wsize ELSE IF @ < w.wsize THEN @ + dist ELSE @]

\* updatewindow, for the last bytes of the output.
UpdateWindow(s, copy) ==
  LET bytes == SubSeq(strm.output, Len(strm.output) - copy + 1, Len(strm.output))
      w == IF s.wsize # 0 THEN s
           ELSE [s EXCEPT !.wsize = WSIZE, !.window = [i \in 1 .. WSIZE |-> 0]]
  IN  IF copy >= w.wsize
        THEN [w EXCEPT !.window = SubSeq(bytes, copy - w.wsize + 1, copy),
                       !.wnext = 0, !.whave = w.wsize]
      ELSE WindowAfter(w, bytes)

-----------------------------------------------------------------------------
(***************************************************************************)
(* inflate(): bits are taken until the mode has what it needs (NEEDBITS    *)
(* and PULLBYTE), then the mode's action uses them.                        *)
(***************************************************************************)
\* Mutation of Fast: one byte of input fewer is thought to do.
Fast_OneByteFewer ==
  state.mode = "LEN" /\ strm.avail_in >= FAST_IN - 1 /\ strm.avail_out >= MAX_MATCH

\* inflate() goes on in inflate_fast where it can.
Fast == state.mode = "LEN" /\ strm.avail_in >= FAST_IN /\ strm.avail_out >= MAX_MATCH

BitsNeeded ==
  CASE state.mode = "HEAD" -> IF state.wrap = 0 THEN 0 ELSE 16
    [] state.mode \in {"FLAGS", "OS", "EXLEN", "HCRC"} -> 16
    [] state.mode \in {"TIME", "DICTID", "CHECK", "LENGTH", "STORED"} -> 32
    [] state.mode = "TYPE" -> IF state.last THEN 0 ELSE 3
    [] state.mode = "TABLE" -> 14
    [] state.mode = "LENLENS" -> IF state.have < state.table.ncode THEN 3 ELSE 0
    [] state.mode = "CODELENS" -> IF state.have < state.table.lengths THEN Here.width ELSE 0
    [] state.mode \in {"LEN", "DIST"} -> Here.width
    [] state.mode \in {"LENEXT", "DISTEXT"} -> state.extra
    [] OTHER -> 0

\* BYTEBITS: on to the next whole byte.
ToByte == Without(state.hold, Len(state.hold) % 8)

StoredBegins == In("STORED") /\ Len(state.hold) % 8 # 0
ByteBits ==
  /\ StoredBegins
  /\ state' = [state EXCEPT !.hold = ToByte]
  /\ UNCHANGED <<stream, strm, inflater, call>>

Lacking == Len(state.hold) < BitsNeeded
Pull ==
  /\ call.at = "inflate" /\ ~Fast /\ ~StoredBegins /\ Lacking /\ strm.avail_in > 0
  /\ state' = [state EXCEPT !.hold = Held(1)]
  /\ strm' = Taken(1)
  /\ UNCHANGED <<stream, inflater, call>>

\* The mode reads the field that comes next.  INITBITS empties hold, DROPBITS does
\* not.
Reads(mode) == In(mode) /\ ~Fast /\ ~StoredBegins /\ ~Lacking
InitBits(s) == [s EXCEPT !.hold = <<>>]
Drop(s) == [s EXCEPT !.hold = Without(@, Here.width)]
Bad(s) == [s EXCEPT !.mode = "BAD"]
Becomes(s) == state' = s /\ UNCHANGED <<stream, strm, inflater, call>>

SkipHead == In("HEAD") /\ state.wrap = 0 /\ Becomes([state EXCEPT !.mode = "TYPE"])
ReadHead ==
  /\ Reads("HEAD") /\ state.wrap # 0
  /\ \/ Here.wrong /\ Becomes(Bad(state))
     \/ ~Here.wrong /\ Here.says = "gzip" /\ Becomes([InitBits(state) EXCEPT !.mode = "FLAGS", !.check = <<"gzip">>])
     \/ ~Here.wrong /\ Here.says = "zlib" /\ Becomes([InitBits(state) EXCEPT !.mode = "TYPE", !.dmax = WSIZE])
     \/ ~Here.wrong /\ Here.says = "dictionary" /\
        Becomes([InitBits(state) EXCEPT !.mode = "DICTID", !.dmax = WSIZE])

\* The optional parts of a gzip header; the next one that the flags announce.  Each
\* goes into the check value if that is sent, too.
GzipModes == <<"EXLEN", "EXTRA", "NAME", "COMMENT", "HCRC", "TYPE">>
Announced(flags, mode) == mode = "TYPE" \/ mode \in flags \/ (mode = "EXLEN" /\ "EXTRA" \in flags)
From(k, s) ==
  LET n == Least({i \in k .. 6 : Announced(s.flags, GzipModes[i])})
  IN  [s EXCEPT !.mode = GzipModes[n], !.check = IF n = 6 THEN <<>> ELSE @]
Crc(s, says) == IF "HCRC" \in s.flags THEN [s EXCEPT !.check = Append(@, says)] ELSE s

ReadFlags ==
  /\ Reads("FLAGS")
  /\ \/ Here.wrong /\ Becomes(Bad(state))
     \/ ~Here.wrong /\
        Becomes(Crc([InitBits(state) EXCEPT !.mode = "TIME", !.flags = Here.says], Here.says))
ReadTime ==
  Reads("TIME") /\ Becomes(Crc([InitBits(state) EXCEPT !.mode = "OS"], Here.says))
ReadOs == Reads("OS") /\ Becomes(From(1, Crc(InitBits(state), Here.says)))
ReadExLen ==
  /\ Reads("EXLEN")
  /\ Becomes(From(2, Crc([InitBits(state) EXCEPT !.length = Here.says], Here.says)))

\* EXTRA, NAME and COMMENT take bytes from the input as it comes; a byte here is one
\* round of their loops.
HeadByte(part) ==
  Crc([state EXCEPT !.head[part] = Append(@, Here.says)], Here.says)
ReadExtra ==
  /\ In("EXTRA")
  /\ \/ state.length = 0 /\ Becomes(From(3, state))
     \/ /\ state.length > 0 /\ strm.avail_in > 0
        /\ state' = [HeadByte("extra") EXCEPT !.length = @ - 1]
        /\ strm' = Taken(1) /\ UNCHANGED <<stream, inflater, call>>
ReadName(mode, part, k) ==
  /\ In(mode) /\ strm.avail_in > 0
  /\ state' = IF Here.says = 0 THEN From(k, Crc(state, 0)) ELSE HeadByte(part)
  /\ strm' = Taken(1) /\ UNCHANGED <<stream, inflater, call>>
ReadHCrc ==
  /\ Reads("HCRC")
  /\ Becomes(IF Here.says # state.check THEN Bad(state) ELSE From(6, InitBits(state)))

ReadDictId == Reads("DICTID") /\ Becomes([InitBits(state) EXCEPT !.mode = "DICT"])

\* TYPE: the header of a block, or after the last one the trailer.
ReadType ==
  /\ Reads("TYPE")
  /\ \/ /\ state.last
        /\ Becomes([state EXCEPT !.hold = ToByte,
                                 !.mode = IF state.wrap = 0 THEN "DONE" ELSE "CHECK"])
     \/ /\ ~state.last
        /\ Becomes([Drop(state) EXCEPT
             !.last = Here.says.last,
             !.mode = CASE Here.says.type = "stored" -> "STORED" [] Here.says.type = "fixed" -> "LEN"
                        [] Here.says.type = "dynamic" -> "TABLE" [] Here.says.type = "none" -> "BAD"])

ReadStored ==
  /\ Reads("STORED")
  /\ \/ Here.wrong /\ Becomes(Bad(state))
     \/ ~Here.wrong /\ Becomes([InitBits(state) EXCEPT !.mode = "COPY", !.length = Here.says])

\* COPY: as many bytes of a stored block as there are and as there is room for.
Copy ==
  LET copy == Least({state.length, strm.avail_in, strm.avail_out})
  IN  /\ In("COPY")
      /\ \/ state.length = 0 /\ Becomes([state EXCEPT !.mode = "TYPE"])
         \/ /\ copy > 0
            /\ strm' = Put(Taken(copy), [n \in 1 .. copy |-> FieldAt(8 * (NextByte + n - 1)).says])
            /\ state' = [state EXCEPT !.length = @ - copy]
            /\ UNCHANGED <<stream, inflater, call>>

ReadTable ==
  /\ Reads("TABLE")
  /\ Becomes([Drop(state) EXCEPT !.table = Here.says, !.have = 0,
                                 !.mode = IF Here.says.symbols THEN "LENLENS" ELSE "BAD"])
ReadLenLens ==
  /\ Reads("LENLENS")
  /\ \/ state.have < state.table.ncode /\ Becomes([Drop(state) EXCEPT !.have = @ + 1])
     \/ /\ state.have = state.table.ncode
        /\ Becomes([state EXCEPT !.have = 0, !.mode = IF state.table.codes THEN "CODELENS" ELSE "BAD"])

\* CODELENS: a code that stands for one length, or a repeat for several.
ReadCodeLens ==
  /\ Reads("CODELENS")
  /\ \/ /\ state.have < state.table.lengths
        /\ Becomes(IF Here.wrong \/ state.have + Here.says.copy > state.table.lengths
                     THEN Bad(state) ELSE [Drop(state) EXCEPT !.have = @ + Here.says.copy])
     \/ /\ state.have = state.table.lengths
        /\ Becomes([state EXCEPT !.mode = IF state.table.sets THEN "LEN" ELSE "BAD"])

ReadLen ==
  LET here == Here.says
  IN  /\ Reads("LEN")
      /\ Becomes([Drop(state) EXCEPT
           !.length = here.val, !.extra = here.extra,
           !.mode = IF Here.wrong THEN "BAD"
                    ELSE CASE here.op = "literal" -> "LIT" [] here.op = "end" -> "TYPE"
                           [] here.op = "base" -> "LENEXT"])
ReadLenExt ==
  /\ Reads("LENEXT")
  /\ Becomes(IF state.extra = 0 THEN [state EXCEPT !.mode = "DIST"]
             ELSE [Drop(state) EXCEPT !.mode = "DIST", !.length = @ + Here.says])
ReadDist ==
  LET here == Here.says
  IN  /\ Reads("DIST")
      /\ Becomes(IF Here.wrong THEN Bad(state)
                 ELSE [Drop(state) EXCEPT !.mode = "DISTEXT", !.offset = here.val,
                                          !.extra = here.extra])
ReadDistExt ==
  LET s == IF state.extra = 0 THEN state ELSE [Drop(state) EXCEPT !.offset = @ + Here.says]
  IN  /\ Reads("DISTEXT")
      /\ Becomes([s EXCEPT !.mode = IF s.offset > state.dmax THEN "BAD" ELSE "MATCH"])

\* MATCH: one run, as far as there is room.
CopyMatch ==
  LET run == MatchRun(strm, state.offset, Least({state.length, strm.avail_out}))
  IN  /\ In("MATCH") /\ strm.avail_out > 0
      /\ \/ TooFarBack(state.offset) /\ Becomes(Bad(state))
         \/ /\ ~TooFarBack(state.offset)
            /\ strm' = Put(strm, run)
            /\ state' = [state EXCEPT !.length = @ - Len(run),
                                      !.mode = IF state.length = Len(run) THEN "LEN" ELSE "MATCH"]
            /\ UNCHANGED <<stream, inflater, call>>

CopyLit ==
  /\ In("LIT") /\ strm.avail_out > 0
  /\ strm' = Put(strm, <<state.length>>)
  /\ state' = [state EXCEPT !.mode = "LEN"]
  /\ UNCHANGED <<stream, inflater, call>>

\* CHECK: the output of this call goes into the check value, and counts no more for
\* what follows in the call.
Summed(s, copy) ==
  [s EXCEPT !.check = @ \o SubSeq(strm.output, Len(strm.output) - copy + 1, Len(strm.output)),
            !.total = @ + copy]
ReadCheck ==
  LET s == Summed(state, Produced(strm))
  IN  /\ Reads("CHECK")
      /\ state' = IF Here.says # s.check THEN Bad(s)
                  ELSE [InitBits(s) EXCEPT !.mode = IF s.flags = {} THEN "DONE" ELSE "LENGTH"]
      /\ call' = [call EXCEPT !.out = strm.avail_out]
      /\ UNCHANGED <<stream, strm, inflater>>
ReadLength ==
  /\ Reads("LENGTH")
  /\ Becomes(IF Here.says # state.total THEN Bad(state) ELSE [InitBits(state) EXCEPT !.mode = "DONE"])

-----------------------------------------------------------------------------
(***************************************************************************)
(* inflate_fast.                                                           *)
(***************************************************************************)
EnterFast ==
  /\ call.at = "inflate" /\ Fast
  /\ call' = [call EXCEPT !.at = "fast"]
  /\ UNCHANGED <<stream, strm, state, inflater>>

\* Mutation of Refill: one byte is thought to do for any code.
Refill_OneByte(bits, need, n) == IF bits >= need THEN 0 ELSE 1

\* Bytes to take when fewer than so many bits are left.
Refill(bits, need, n) == IF bits >= need THEN 0 ELSE n

\* A whole token: bytes to take for it, bits to use, and what it is.
FastRead ==
  LET l == Here
      t1 == Refill(Len(state.hold), 15, 2)
      b1 == Len(state.hold) + 8 * t1 - l.width
      x == l.says.extra
      t2 == Refill(b1, x, 1)
      b2 == b1 + 8 * t2 - x
      t3 == Refill(b2, 15, 2)
      d == FieldAt(NextBit + l.width + x)
      b3 == b2 + 8 * t3 - d.width
      y == d.says.extra
      t4 == Refill(b3, y, 1) + Refill(b3 + 8, y, 1)
      more(f, n) == IF n = 0 THEN 0 ELSE FieldAt(f.at + f.width).says
  IN  IF l.wrong \/ l.says.op # "base"
        THEN [take |-> t1, use |-> l.width, op |-> IF l.wrong THEN "invalid" ELSE l.says.op]
      ELSE IF d.wrong
        THEN [take |-> t1 + t2 + t3, use |-> l.width + x + d.width, op |-> "invalid"]
      ELSE [take |-> t1 + t2 + t3 + t4, use |-> l.width + x + d.width + y, op |-> "match",
            length |-> l.says.val + more(l, x), offset |-> d.says.val + more(d, y)]

FastToken ==
  /\ call.at = "fast" /\ Fast
  /\ \E r \in {FastRead} :
       LET bad == \/ r.op = "invalid"
                  \/ r.op = "match" /\ (r.offset > state.dmax \/ TooFarBack(r.offset))
       IN  /\ state' = [state EXCEPT
                !.hold = Without(Held(r.take), r.use),
                !.mode = IF bad THEN "BAD" ELSE IF r.op = "end" THEN "TYPE" ELSE "LEN"]
           /\ strm' = IF r.op = "literal" THEN Put(Taken(r.take), <<Here.says.val>>)
                      ELSE IF r.op = "match" /\ ~bad
                        THEN Put(Taken(r.take), MatchBytes(r.offset, r.length))
                      ELSE Taken(r.take)
  /\ UNCHANGED <<stream, inflater, call>>

\* Whole bytes that inflate_fast took and did not use.
UnusedBytes(hold) == Len(hold) \div 8

LeaveFast ==
  LET len == UnusedBytes(state.hold)
  IN  /\ call.at = "fast" /\ ~Fast
      /\ strm' = Taken(-len)
      /\ state' = [state EXCEPT !.hold = SubSeq(@, 1, Len(@) - 8 * len)]
      /\ call' = [call EXCEPT !.at = "inflate"]
      /\ UNCHANGED <<stream, inflater>>

-----------------------------------------------------------------------------
(***************************************************************************)
(* The end of a call of inflate(), and push around it.                     *)
(***************************************************************************)
NoInput ==
  /\ strm.avail_in = 0
  /\ \/ ~StoredBegins /\ Lacking
     \/ state.mode \in {"NAME", "COMMENT"}
     \/ state.mode \in {"EXTRA", "COPY"} /\ state.length > 0

\* Mutation of NoRoom: a stored block is thought to wait for input alone.
NoRoom_Coded == strm.avail_out = 0 /\ state.mode \in {"MATCH", "LIT"}

NoRoom ==
  /\ strm.avail_out = 0
  /\ state.mode \in {"MATCH", "LIT"} \/ (state.mode = "COPY" /\ state.length > 0)

\* inf_leave: no input, no room, or nothing more to do.
Stuck == NoInput \/ NoRoom \/ state.mode \in {"DONE", "BAD"}

LeaveInflate ==
  LET ret == CASE state.mode = "DONE" -> Z_STREAM_END [] state.mode = "BAD" -> Z_DATA_ERROR
               [] OTHER -> IF call.in = strm.avail_in /\ call.out = strm.avail_out
                             THEN Z_BUF_ERROR ELSE Z_OK
      windowed == IF state.wsize # 0 \/ (Produced(strm) # 0 /\ state.mode # "BAD")
                    THEN UpdateWindow(state, Produced(strm)) ELSE state
  IN  /\ call.at = "inflate" /\ Stuck
      /\ state' = IF state.wrap = 0 THEN windowed ELSE Summed(windowed, Produced(strm))
      /\ call' = [call EXCEPT !.at = "returned", !.ret = ret]
      /\ UNCHANGED <<stream, strm, inflater>>

\* DICT: there is no dictionary.
NeedDict ==
  /\ In("DICT")
  /\ call' = [call EXCEPT !.at = "returned", !.ret = Z_NEED_DICT]
  /\ UNCHANGED <<stream, strm, state, inflater>>

\* A round of push's loop: a call of inflate(), in a new buffer if the last one is full.
Call(s, mode, allowBufError) ==
  LET room == IF s.avail_out = 0
                THEN [s EXCEPT !.output = <<>>, !.avail_out = inflater.chunkSize] ELSE s
  IN  /\ strm' = room
      /\ call' = [at |-> "inflate", mode |-> mode, in |-> room.avail_in, out |-> room.avail_out,
                  ret |-> Z_OK, allowBufError |-> allowBufError]

\* Inflate.push, of the next so many bytes of the stream.
Pushed == strm.given + strm.next_in + strm.avail_in
Push(bytes, mode) ==
  /\ call.at = "none" /\ ~inflater.ended /\ Pushed + bytes <= BytesOf(stream)
  /\ Call([strm EXCEPT !.given = Pushed, !.next_in = 0, !.avail_in = bytes], mode, FALSE)
  /\ UNCHANGED <<stream, state, inflater>>

\* onEnd
OnEnd(i, status) ==
  [i EXCEPT !.result = IF status = Z_OK THEN i.chunks ELSE @, !.chunks = <<>>, !.err = status]

\* Mutation of Status: an empty round for output that did not fit is an error.
Status_Strict == call.ret

Status == IF call.ret = Z_BUF_ERROR /\ call.allowBufError THEN Z_OK ELSE call.ret
Fails == Status \notin {Z_OK, Z_STREAM_END}

PushFails ==
  /\ call.at = "returned" /\ Fails
  /\ inflater' = [OnEnd(inflater, Status) EXCEPT !.ended = TRUE]
  /\ call' = [at |-> "none"]
  /\ UNCHANGED <<stream, strm, state>>

\* onData, when the output is full, the last, or wanted.
Handed ==
  LET wanted == \/ strm.avail_out = 0 \/ Status = Z_STREAM_END
                \/ strm.avail_in = 0 /\ call.mode \in {Z_FINISH, Z_SYNC_FLUSH}
      data == IF wanted THEN strm.output ELSE <<>>
  IN  [inflater EXCEPT !.chunks = @ \o data, !.delivered = @ \o data]

\* push goes on while there is input, or may be output that did not fit.
Again(in, out) == in > 0 \/ out = 0

PushLoops ==
  /\ call.at = "returned" /\ ~Fails
  /\ Again(strm.avail_in, strm.avail_out) /\ Status # Z_STREAM_END
  /\ inflater' = Handed
  /\ Call(strm, call.mode,
          (strm.avail_in = 0 /\ strm.avail_out = 0) \/ (call.allowBufError /\ call.ret # Z_BUF_ERROR))
  /\ UNCHANGED <<stream, state>>

PushEnds ==
  /\ call.at = "returned" /\ ~Fails
  /\ ~(Again(strm.avail_in, strm.avail_out) /\ Status # Z_STREAM_END)
  /\ LET mode == IF Status = Z_STREAM_END THEN Z_FINISH ELSE call.mode
     IN  /\ inflater' = IF mode = Z_NO_FLUSH THEN Handed
                        ELSE [OnEnd(Handed, Z_OK) EXCEPT !.ended = mode = Z_FINISH]
         /\ strm' = IF mode = Z_SYNC_FLUSH THEN [strm EXCEPT !.avail_out = 0] ELSE strm
  /\ call' = [at |-> "none"]
  /\ UNCHANGED <<stream, state>>

Step ==
  \/ ByteBits \/ Pull \/ SkipHead \/ ReadHead \/ ReadFlags \/ ReadTime \/ ReadOs \/ ReadExLen \/ ReadExtra
  \/ ReadName("NAME", "name", 4) \/ ReadName("COMMENT", "comment", 5) \/ ReadHCrc
  \/ ReadDictId \/ NeedDict \/ ReadType \/ ReadStored \/ Copy
  \/ ReadTable \/ ReadLenLens \/ ReadCodeLens \/ ReadLen \/ ReadLenExt \/ ReadDist \/ ReadDistExt
  \/ CopyMatch \/ CopyLit \/ ReadCheck \/ ReadLength
  \/ EnterFast \/ FastToken \/ LeaveFast
  \/ LeaveInflate \/ PushFails \/ PushLoops \/ PushEnds

Next ==
  \/ \E bytes \in Pieces \cup {BytesOf(stream) - Pushed}, mode \in {Z_NO_FLUSH, Z_FINISH} :
       Push(bytes, mode)
  \/ \E bytes \in SyncPieces : Push(bytes, Z_SYNC_FLUSH)
  \/ Step

\* A call of push runs to its end.
Spec == Init /\ [][Next]_vars /\ WF_vars(Step)

-----------------------------------------------------------------------------
(***************************************************************************)
(* Properties.                                                             *)
(***************************************************************************)
\* Type invariant.  inflate_fast reads no byte that was not pushed and gives none
\* back that came in an earlier piece: positions in the input are natural numbers.
TypeOK ==
  /\ strm.next_in \in Nat /\ strm.avail_in \in Nat /\ Pushed <= BytesOf(stream)
  /\ strm.avail_out \in 0 .. inflater.chunkSize
  /\ state.whave \in 0 .. state.wsize /\ state.wnext \in 0 .. state.wsize
  /\ Len(state.window) = state.wsize /\ state.wsize \in {0, WSIZE}
  /\ inflater.err \in {Z_OK, Z_NEED_DICT, Z_DATA_ERROR, Z_BUF_ERROR}
  /\ call.at \in {"none", "inflate", "fast", "returned"}

\* Modes that read a field now.
ReadsField ==
  ~ \/ state.mode \in {"DONE", "BAD", "LIT", "MATCH", "DICT"}
    \/ state.mode = "HEAD" /\ state.wrap = 0
    \/ state.mode = "TYPE" /\ state.last
    \/ state.mode = "LENLENS" /\ state.have = state.table.ncode
    \/ state.mode = "CODELENS" /\ state.have = state.table.lengths
    \/ state.mode \in {"LENEXT", "DISTEXT"} /\ state.extra = 0
    \/ state.mode \in {"EXTRA", "COPY"} /\ state.length = 0

\* Wherever the input was cut, and whichever of the two decoders read what came
\* before, inflate() looks for a field where the sender put one that this mode reads:
\* no bit is lost or read twice.
InSync ==
  LET next == IF state.mode = "STORED" THEN 8 * ((NextBit + 7) \div 8) ELSE NextBit
  IN  call.at \in {"inflate", "fast"} =>
        /\ \A i \in 1 .. Len(state.hold) :
             state.hold[i] = 8 * NextByte - Len(state.hold) + i - 1
        /\ ReadsField => \E i \in DOMAIN stream.fields :
                           stream.fields[i].at = next /\ stream.fields[i].mode = state.mode
        /\ state.mode \in {"EXTRA", "NAME", "COMMENT", "COPY"} => state.hold = <<>>

\* What was put out and not handed out, and all of it.
Kept ==
  IF call.at = "none" /\ (inflater.ended \/ strm.avail_out = 0) THEN <<>> ELSE strm.output
Text == inflater.delivered \o Kept

\* However the stream is cut and the room for its text, what comes out is the text
\* from its beginning on, and while a call runs the window has the last of the text
\* that earlier calls put out, as much as a distance may reach.
TextComesOut ==
  /\ IsPrefix(Text, stream.text)
  /\ call.at \in {"inflate", "fast"} /\ state.mode \notin {"LENGTH", "DONE", "BAD"} =>
       LET before == Len(Text) - Produced(strm)
       IN  /\ state.whave = Least({state.wsize, before})
           /\ state.wsize = 0 => before = 0
           /\ \A k \in 1 .. state.whave :
                state.window[((state.wnext - k) % state.wsize) + 1] = Text[before - k + 1]

\* A whole stream ends with its text handed out and no error; one that is broken never
\* does.  Otherwise push fails only when it is given nothing to do, and ends without
\* the text's end only when it was told so before the stream ended.
EndsAsItShould ==
  inflater.ended =>
    CASE inflater.err = Z_OK ->
           \/ stream.fault = "none" /\ inflater.delivered = stream.text
           \/ Pushed < BytesOf(stream)
      [] inflater.err = Z_DATA_ERROR -> stream.fault = "broken"
      [] inflater.err = Z_NEED_DICT -> stream.fault = "dictionary"
      [] inflater.err = Z_BUF_ERROR -> strm.next_in = 0 /\ strm.avail_in = 0

\* Every call of push returns.
PushReturns == call.at # "none" ~> call.at = "none"
=============================================================================
