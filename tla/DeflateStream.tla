---------------------------- MODULE DeflateStream ---------------------------
(***************************************************************************)
(* pako.Deflate: a text comes in through calls of push, cut into pieces    *)
(* anywhere, and goes out compressed in buffers of one size.  deflate()    *)
(* keeps the text it may still refer to in a window that slides, finds in  *)
(* it what was there before by chains of equal hashes, tallies literals    *)
(* and matches in the buffer that will hold their codes, too, and stops    *)
(* wherever its input or its room ends.                                    *)
(*                                                                         *)
(* The bits of a block are only counted (HuffmanBlocks has the codes), but *)
(* what a reader makes of the blocks is kept in said.                      *)
(***************************************************************************)
EXTENDS Integers, Sequences, FiniteSets, SequencesExt, Bitwise

CONSTANTS
  Texts,                \* what may be pushed, in a sequence
  ChunkSizes,           \* values of options.chunkSize
  Pieces,               \* bound: how many bytes are pushed at a time
  Flushes, MaxFlushes,  \* the flush modes used, and a bound on their number
  Configs,              \* rows of configuration_table with a strategy, see Init
  Codes,                \* bits that the codes of a block take
  Wraps,                \* 0 for raw data, 1 for zlib, 2 for gzip
  w_size, hash_bits, lit_bufsize,
  MAX_MATCH,            \* 258
  TOO_FAR, TOO_SHORT,   \* 4096 and 5: matches that are not worth it
  MAX_STORED            \* 0xffff

Z_NO_FLUSH == 0
Z_PARTIAL_FLUSH == 1
Z_SYNC_FLUSH == 2
Z_FULL_FLUSH == 3
Z_FINISH == 4
Z_BLOCK == 5

Z_OK == 0
Z_STREAM_END == 1
Z_DATA_ERROR == -3
Z_BUF_ERROR == -5

MIN_MATCH == 3
MIN_LOOKAHEAD == MAX_MATCH + MIN_MATCH + 1
MAX_DIST == w_size - MIN_LOOKAHEAD
window_size == 2 * w_size
hash_size == 2 ^ hash_bits
hash_shift == (hash_bits + MIN_MATCH - 1) \div MIN_MATCH

\* The buffer for output, in which the distances and the lengths or literals of the
\* tokens lie, too, from d_buf and l_buf on, two bytes and one for each.
pending_buf_size == lit_bufsize * 4
d_buf == lit_bufsize \div 2
l_buf == 3 * lit_bufsize

\* Rooms of less than 6 bytes may be filled by the mark of a flush again and again.
ASSUME DeflateAssumption ==
  /\ \A k \in DOMAIN Texts : \A i \in DOMAIN Texts[k] : Texts[k][i] \in 0 .. hash_size - 1
  /\ \A n \in ChunkSizes : n \in Nat /\ n > 5
  /\ MAX_DIST > 0 /\ MAX_MATCH > MIN_MATCH
  /\ Flushes \subseteq {Z_PARTIAL_FLUSH, Z_SYNC_FLUSH, Z_FULL_FLUSH, Z_BLOCK}
  /\ \A c \in Configs : c.func \in {"stored", "fast", "slow", "rle", "huff"}

VARIABLES
  text,                 \* what is pushed
  config,               \* the row that lm_init took
  strm,                 \* zstream: the piece of input and the room for output
  s,                    \* DeflateState
  said,                 \* what a reader makes of the blocks and the tokens so far
  deflater,             \* the Deflate object, and the bytes it handed out
  call                  \* the calls of push and deflate() under way, if any

vars == <<text, config, strm, s, said, deflater, call>>

\* Deflate, deflateInit2, deflateReset and lm_init.
Init ==
  /\ \E k \in DOMAIN Texts : text = Texts[k]
  /\ config \in Configs
  /\ strm = [given |-> 0, next_in |-> 0, avail_in |-> 0, next_out |-> 0, avail_out |-> 0,
             total_out |-> 0]
  /\ \E wrap \in Wraps :
       s = [status |-> IF wrap = 0 THEN "BUSY" ELSE "INIT", wrap |-> wrap, last_flush |-> Z_NO_FLUSH,
            pending |-> 0, pending_out |-> 0, bi_valid |-> 0, tokens |-> <<>>, block_said |-> 0,
            window |-> [i \in 0 .. window_size - 1 |-> 0], head |-> [h \in 0 .. hash_size - 1 |-> 0],
            prev |-> [i \in 0 .. w_size - 1 |-> 0], ins_h |-> 0, insert |-> 0,
            strstart |-> 0, block_start |-> 0, lookahead |-> 0, match_start |-> 0, prev_match |-> 0,
            match_length |-> MIN_MATCH - 1, prev_length |-> MIN_MATCH - 1, match_available |-> FALSE]
  /\ said = <<>>
  /\ \E size \in ChunkSizes :
       deflater = [chunkSize |-> size, ended |-> FALSE, err |-> Z_OK, handed |-> 0, flushes |-> 0]
  /\ call = [at |-> "none", mode |-> Z_NO_FLUSH]

Least(S) == CHOOSE n \in S : \A k \in S : n <= k
Given == strm.given + strm.next_in

\* F(x), for an x that is worth evaluating but once.
With(x, F(_)) == CHOOSE y \in {F(v) : v \in {x}} : TRUE

-----------------------------------------------------------------------------
(***************************************************************************)
(* The window and the strings in it.                                       *)
(***************************************************************************)
Xored == [a \in 0 .. hash_size - 1, b \in 0 .. hash_size - 1 |-> a ^^ b]
UPDATE_HASH(h, c) == Xored[(h * (2 ^ hash_shift)) % hash_size, c]

\* INSERT_STRING: the string at pos comes first in the chain of its hash.
InsertString(t, pos) ==
  LET h == UPDATE_HASH(t.ins_h, t.window[pos + MIN_MATCH - 1])
  IN  [t EXCEPT !.ins_h = h, !.prev[pos % w_size] = t.head[h], !.head[h] = pos]
InsertStrings(t, from, n) ==
  LET done[k \in 0 .. n] ==
        IF k = 0 THEN t ELSE With(done[k - 1], LAMBDA u : InsertString(u, from + k - 1))
  IN  done[n]

\* The upper half of the window becomes the lower, and what lay in the lower is no
\* longer in any chain.
\* Mutation of Older: the chains still have the positions of before the window slid.
Older_Kept(pos) == pos
Older(pos) == IF pos >= w_size THEN pos - w_size ELSE 0
\* Mutation of MustSlide: when the window is used up.
MustSlide_AtItsEnd(t) == t.strstart >= window_size
MustSlide(t) == t.strstart >= w_size + MAX_DIST
Slid(t) ==
  IF ~MustSlide(t) THEN t
  ELSE [t EXCEPT !.window = [i \in DOMAIN t.window |-> t.window[IF i < w_size THEN i + w_size ELSE i]],
                 !.head = [h \in DOMAIN t.head |-> Older(t.head[h])],
                 !.prev = [i \in DOMAIN t.prev |-> Older(t.prev[i])],
                 !.match_start = @ - w_size, !.strstart = @ - w_size, !.block_start = @ - w_size]

\* read_buf
ReadBuf(t, n) ==
  LET end == t.strstart + t.lookahead
  IN  [t EXCEPT !.window = [i \in DOMAIN t.window |-> IF i \in end .. end + n - 1
                                                      THEN text[Given + i - end + 1] ELSE t.window[i]],
                !.lookahead = @ + n]

\* The hash is taken anew at the last strings that could not yet be inserted, for want
\* of the bytes that follow them.
Rehashed(t) ==
  LET str == t.strstart - t.insert
      n == Least({t.insert, t.lookahead + t.insert - MIN_MATCH + 1})
      r == [t EXCEPT !.ins_h = UPDATE_HASH(t.window[str], t.window[str + 1])]
  IN  IF t.lookahead + t.insert < MIN_MATCH THEN t
      ELSE [InsertStrings(r, str, n) EXCEPT !.insert = @ - n]

\* Each function asks for more input at a threshold of its own.
Short ==
  CASE config.func \in {"fast", "slow"} -> s.lookahead < MIN_LOOKAHEAD
    [] config.func = "rle" -> s.lookahead <= MAX_MATCH
    [] config.func = "stored" -> s.lookahead <= 1
    [] config.func = "huff" -> s.lookahead = 0

\* A round of the loop of fill_window.
FillWindow ==
  /\ call.at = "fill" \/ (call.at = "loop" /\ ~call.filled /\ Short)
  /\ \E t \in {Slid(s)} :
       LET n == Least({strm.avail_in, window_size - t.lookahead - t.strstart})
       IN  /\ s' = IF strm.avail_in = 0 THEN t ELSE Rehashed(ReadBuf(t, n))
           /\ strm' = [strm EXCEPT !.next_in = @ + n, !.avail_in = @ - n]
           /\ call' = [call EXCEPT !.filled = TRUE,
                !.at = IF t.lookahead + n < MIN_LOOKAHEAD /\ n < strm.avail_in THEN "fill" ELSE "loop"]
  /\ UNCHANGED <<text, config, said, deflater>>

\* How far the strings at a and b agree, which do so in MIN_MATCH bytes.
Agree(t, a, b) ==
  Least({k \in MIN_MATCH .. MAX_MATCH : k = MAX_MATCH \/ t.window[a + k] # t.window[b + k]})

\* longest_match, for the chain that begins at hash_head.  The third bytes are not
\* compared unless they are the last: equal hashes make them equal.
Longer(t, best, match) ==
  LET scan == t.strstart
      len == Agree(t, match, scan)
  IN  IF best.stop \/ match = 0
         \/ t.window[match + best.len] # t.window[scan + best.len]
         \/ t.window[match + best.len - 1] # t.window[scan + best.len - 1]
         \/ t.window[match] # t.window[scan] \/ t.window[match + 1] # t.window[scan + 1]
         \/ len <= best.len
        THEN best
      ELSE [len |-> len, start |-> match, stop |-> len >= Least({config.nice_length, t.lookahead})]

LongestMatch(t, hash_head) ==
  LET limit == IF t.strstart > MAX_DIST THEN t.strstart - MAX_DIST ELSE 0
      tries == IF t.prev_length >= config.good_length THEN config.max_chain \div 4 ELSE config.max_chain
      chain[i \in 1 .. tries] ==
        IF i = 1 THEN hash_head
        ELSE LET next == t.prev[chain[i - 1] % w_size]
             IN  IF chain[i - 1] # 0 /\ next > limit THEN next ELSE 0
      best[i \in 0 .. tries] ==
        IF i = 0 THEN [len |-> t.prev_length, start |-> t.match_start, stop |-> FALSE]
        ELSE With(best[i - 1], LAMBDA b : Longer(t, b, chain[i]))
  IN  [best[tries] EXCEPT !.len = Least({t.lookahead, @})]

-----------------------------------------------------------------------------
(***************************************************************************)
(* Tokens and blocks.                                                      *)
(***************************************************************************)
\* What a reader has after a match, whose window is as large; -1 for what it cannot
\* know.
Garbled == -1
Expanded(dist, len) ==
  IF dist < 1 \/ dist > Least({Len(said), w_size}) THEN <<Garbled>>
  ELSE [i \in 1 .. len |-> said[Len(said) - dist + ((i - 1) % dist) + 1]]

\* _tr_tally, the last thing in a round: the block is flushed when the buffer is full.
Tally(t, dist, says) ==
  /\ s' = [t EXCEPT !.tokens = Append(@, dist)]
  /\ said' = said \o says
  /\ call' = [call EXCEPT !.filled = FALSE, !.end = t.strstart,
                          !.at = IF Len(t.tokens) + 1 = lit_bufsize - 1 THEN "flush" ELSE "loop"]
  /\ UNCHANGED <<text, config, strm, deflater>>

\* A round of the loop of deflate_fast and the like goes on with what fill_window left.
Starved == IF config.func \in {"stored", "huff"} THEN s.lookahead = 0 ELSE Short
Round(func) ==
  /\ call.at = "loop" /\ config.func = func
  /\ IF call.filled THEN s.lookahead > 0 /\ ~(Starved /\ call.mode = Z_NO_FLUSH) ELSE ~Short

Hashed == IF s.lookahead >= MIN_MATCH THEN InsertString(s, s.strstart) ELSE s
HashHead(t) == IF s.lookahead >= MIN_MATCH THEN s.head[t.ins_h] ELSE 0
Near(hash_head) == hash_head # 0 /\ s.strstart - hash_head <= MAX_DIST

FastMatch(t) ==
  IF ~Near(HashHead(t)) THEN t
  ELSE With(LongestMatch(t, HashHead(t)),
            LAMBDA m : [t EXCEPT !.match_length = m.len, !.match_start = m.start])

\* After a match its other strings are inserted, or if it is long none, and the hash is
\* taken anew.
Skip(t) ==
  LET len == t.match_length
      end == t.strstart + len
      u == [t EXCEPT !.lookahead = @ - len, !.strstart = end, !.match_length = 0]
  IN  IF len <= config.max_lazy /\ u.lookahead >= MIN_MATCH
        THEN InsertStrings(u, t.strstart + 1, len - 1)
      ELSE [u EXCEPT !.ins_h = UPDATE_HASH(t.window[end], t.window[end + 1])]

Deflate_fast ==
  /\ Round("fast")
  /\ \E t \in {With(Hashed, FastMatch)} :
       IF t.match_length >= MIN_MATCH
         THEN LET dist == t.strstart - t.match_start
              IN  Tally(Skip(t), dist, Expanded(dist, t.match_length))
       ELSE Tally([t EXCEPT !.lookahead = @ - 1, !.strstart = @ + 1], 0, <<t.window[t.strstart]>>)

\* deflate_slow: the best match here, if the one before is not good enough.
Worth(t, m) ==
  ~(m.len <= TOO_SHORT /\ (config.filtered \/ (m.len = MIN_MATCH /\ t.strstart - m.start > TOO_FAR)))
SlowMatch(h) ==
  LET t == [h EXCEPT !.prev_length = h.match_length, !.prev_match = h.match_start,
                     !.match_length = MIN_MATCH - 1]
  IN  IF ~Near(HashHead(h)) \/ t.prev_length >= config.max_lazy THEN t
      ELSE With(LongestMatch(t, HashHead(h)),
                LAMBDA m : [t EXCEPT !.match_start = m.start,
                                     !.match_length = IF Worth(t, m) THEN m.len ELSE MIN_MATCH - 1])

\* The match before is taken: its strings are inserted as far as the input goes.
Take(t) ==
  LET max_insert == t.strstart + t.lookahead - MIN_MATCH
      n == Cardinality({k \in 1 .. t.prev_length - 2 : t.strstart + k <= max_insert})
  IN  [InsertStrings(t, t.strstart + 1, n) EXCEPT
         !.lookahead = @ - (t.prev_length - 1), !.strstart = @ + t.prev_length - 1,
         !.prev_length = 0, !.match_available = FALSE, !.match_length = MIN_MATCH - 1]

Deflate_slow ==
  /\ Round("slow")
  /\ \E t \in {With(Hashed, SlowMatch)} :
       LET next == [t EXCEPT !.lookahead = @ - 1, !.strstart = @ + 1, !.match_available = TRUE]
           dist == t.strstart - 1 - t.prev_match
       IN  CASE t.prev_length >= MIN_MATCH /\ t.match_length <= t.prev_length ->
                  Tally(Take(t), dist, Expanded(dist, t.prev_length))
             [] ~(t.prev_length >= MIN_MATCH /\ t.match_length <= t.prev_length) /\ t.match_available ->
                  /\ s' = [next EXCEPT !.tokens = Append(@, 0)]
                  /\ said' = Append(said, t.window[t.strstart - 1])
                  /\ call' = [call EXCEPT !.filled = FALSE, !.end = t.strstart,
                       !.at = IF Len(t.tokens) + 1 = lit_bufsize - 1 THEN "flush" ELSE "loop"]
                  /\ UNCHANGED <<text, config, strm, deflater>>
             [] OTHER ->
                  /\ s' = next
                  /\ call' = [call EXCEPT !.filled = FALSE]
                  /\ UNCHANGED <<text, config, strm, said, deflater>>

\* deflate_rle: matches of distance one.
Deflate_rle ==
  LET scan == s.strstart - 1
      runs == s.lookahead >= MIN_MATCH /\ s.strstart > 0
                /\ \A k \in 1 .. MIN_MATCH : s.window[scan + k] = s.window[scan]
  IN  /\ Round("rle")
      /\ IF runs
           THEN \E len \in {Least({Agree(s, scan, s.strstart), s.lookahead})} :
                  Tally([s EXCEPT !.lookahead = @ - len, !.strstart = @ + len, !.match_length = 0],
                        1, Expanded(1, len))
         ELSE Tally([s EXCEPT !.lookahead = @ - 1, !.strstart = @ + 1, !.match_length = 0],
                    0, <<s.window[s.strstart]>>)

Deflate_huff ==
  /\ Round("huff")
  /\ Tally([s EXCEPT !.lookahead = @ - 1, !.strstart = @ + 1, !.match_length = 0],
           0, <<s.window[s.strstart]>>)

\* deflate_stored copies; a block is sent when the buffer is full, and before the
\* window slides over it.
MaxBlockSize == Least({MAX_STORED, pending_buf_size - 5})
Deflate_stored ==
  LET end == s.strstart + s.lookahead
      max_start == s.block_start + MaxBlockSize
      full == end >= max_start
  IN  /\ Round("stored")
      /\ s' = IF full THEN [s EXCEPT !.strstart = max_start, !.lookahead = end - max_start]
              ELSE [s EXCEPT !.strstart = end, !.lookahead = 0]
      /\ call' = [call EXCEPT !.filled = FALSE, !.end = s'.strstart, !.then = "stored",
                              !.at = IF full THEN "flush" ELSE "stored"]
      /\ UNCHANGED <<text, config, strm, said, deflater>>

\* Mutation of MayHaveToSlide: the block is as long as the window.
MayHaveToSlide_Late(t) == t.strstart - t.block_start >= window_size
MayHaveToSlide(t) == t.strstart - t.block_start >= MAX_DIST
BeforeSlide ==
  /\ call.at = "stored"
  /\ call' = [call EXCEPT !.at = IF MayHaveToSlide(s) THEN "flush" ELSE "loop", !.then = "loop"]
  /\ UNCHANGED <<text, config, strm, s, said, deflater>>

\* Neither enough input nor a flush: BS_NEED_MORE.
NeedMore ==
  /\ call.at = "loop" /\ call.filled /\ Starved /\ call.mode = Z_NO_FLUSH
  /\ call' = [call EXCEPT !.at = "returned", !.ret = Z_OK]
  /\ UNCHANGED <<text, config, strm, s, said, deflater>>

\* All input is used up: what is left goes into a block.
EndLoop ==
  LET held == config.func = "slow" /\ s.match_available
      t == [s EXCEPT !.tokens = IF held THEN Append(@, 0) ELSE @,
                     !.match_available = IF config.func = "slow" THEN FALSE ELSE @,
                     !.insert = IF config.func \in {"fast", "slow"} THEN Least({s.strstart, MIN_MATCH - 1})
                                ELSE 0]
      more == IF config.func = "stored" THEN s.strstart > s.block_start ELSE t.tokens # <<>>
      then == IF config.func = "stored" THEN "returned" ELSE "done"
  IN  /\ call.at = "loop" /\ call.filled /\ s.lookahead = 0 /\ call.mode # Z_NO_FLUSH
      /\ s' = t
      /\ said' = IF held THEN Append(said, s.window[s.strstart - 1]) ELSE said
      /\ call' = [call EXCEPT !.end = s.strstart, !.then = then, !.last = call.mode = Z_FINISH,
                              !.at = IF call.mode = Z_FINISH \/ more THEN "flush" ELSE then]
      /\ UNCHANGED <<text, config, strm, deflater>>

-----------------------------------------------------------------------------
(***************************************************************************)
(* Output.                                                                 *)
(***************************************************************************)
\* send_bits: the two bytes that go to the buffer whenever 16 bits are exceeded.
BytesSent(valid, bits) == IF valid + bits <= 16 THEN 0 ELSE 2 * ((valid + bits - 1) \div 16)
Sent(t, bits) ==
  LET n == BytesSent(t.bi_valid, bits)
  IN  [t EXCEPT !.pending = @ + n, !.bi_valid = @ + bits - 8 * n]
\* bi_windup and bi_flush.
WindUp(t) == [t EXCEPT !.pending = @ + (t.bi_valid + 7) \div 8, !.bi_valid = 0]
BiFlush(t) ==
  LET n == t.bi_valid \div 8 IN [t EXCEPT !.pending = @ + n, !.bi_valid = @ - 8 * n]
\* _tr_stored_block; copy_block takes the bytes from the window.
StoredBlock(t, len) == [WindUp(Sent(t, 3)) EXCEPT !.pending = @ + 4 + len]

\* flush_pending, into what room there is.
Flushed(t) ==
  LET len == Least({t.pending, strm.avail_out})
  IN  [t EXCEPT !.pending = @ - len, !.pending_out = IF len = t.pending THEN 0 ELSE @ + len]
FlushPending(t) ==
  /\ s' = Flushed(t)
  /\ strm' = LET len == Least({t.pending, strm.avail_out})
             IN  [strm EXCEPT !.avail_out = @ - len, !.next_out = @ + len, !.total_out = @ + len]

\* Bits of the first n tokens, behind the kind of the block and its trees.
BitsOf(tokens, code, n) ==
  LET matches == Cardinality({i \in 1 .. n : tokens[i] # 0})
  IN  3 + code.trees + matches * code.match + (n - matches) * code.literal
\* compress_block reads a token when those before it are in the buffer; it is still
\* there if they do not reach it.
InPlace(t, code, i) ==
  LET sent == t.pending + BytesSent(t.bi_valid, BitsOf(t.tokens, code, i - 1))
  IN  sent <= d_buf + 2 * (i - 1) /\ sent <= l_buf + i - 1
\* Check that the overlay between pending_buf and d_buf+l_buf is ok.
OverlayOk(t, code) == \A i \in DOMAIN t.tokens : InPlace(t, code, i)

\* _tr_flush_block: a block is stored if that is no longer than its codes and its text
\* is still in the window.
END_BLOCK == 7
Stores(t, code, stored_len) ==
  LET opt_lenb == IF config.func = "stored" THEN stored_len + 5
                  ELSE (BitsOf(t.tokens, code, Len(t.tokens)) + END_BLOCK + 7) \div 8
  IN  stored_len + 4 <= opt_lenb /\ t.block_start >= 0
BlockSent(t, code, stored_len, last) ==
  LET b == IF Stores(t, code, stored_len) THEN StoredBlock(t, stored_len)
           ELSE Sent(t, BitsOf(t.tokens, code, Len(t.tokens)) + END_BLOCK)
  IN  IF last THEN WindUp(b) ELSE b

\* What is said when the block is sent: it is what the tokens say unless they were
\* written over, or what the window has; and nothing is right that is put behind bytes
\* that are still to be flushed.
SaidAfter(t, code, stored_len) ==
  LET before == SubSeq(said, 1, t.block_said)
  IN  IF t.pending_out # 0 THEN Append(before, Garbled)
      ELSE IF Stores(t, code, stored_len)
        THEN before \o [i \in 1 .. stored_len |-> t.window[t.block_start + i - 1]]
      ELSE IF OverlayOk(t, code) THEN said ELSE Append(before, Garbled)

\* flush_block_only, and what FLUSH_BLOCK does when there is no room left.
FlushBlock ==
  /\ call.at = "flush"
  /\ \E code \in Codes :
       LET len == call.end - s.block_start
       IN  \E b \in {[BlockSent(s, code, len, call.last) EXCEPT !.tokens = <<>>, !.block_start = call.end]} :
             LET room == b.pending < strm.avail_out
             IN  /\ said' = SaidAfter(s, code, len)
                 /\ FlushPending([b EXCEPT !.block_said = Len(said'),
                      !.status = IF call.last THEN "FINISH" ELSE @,
                      !.last_flush = IF room THEN @ ELSE -1])
                 /\ call' = [call EXCEPT !.ret = Z_OK,
                      !.at = IF ~room THEN "returned" ELSE IF call.last THEN "tail" ELSE call.then,
                      !.then = "loop"]
  /\ UNCHANGED <<text, config, deflater>>

\* BS_BLOCK_DONE: the mark of the flush.
Forgotten(t) ==
  [t EXCEPT !.head = [h \in DOMAIN @ |-> 0], !.strstart = 0, !.block_start = 0, !.insert = 0]
Marked ==
  CASE call.mode = Z_PARTIAL_FLUSH -> BiFlush(Sent(s, 3 + END_BLOCK))
    [] call.mode = Z_SYNC_FLUSH -> StoredBlock(s, 0)
    [] call.mode = Z_FULL_FLUSH -> Forgotten(StoredBlock(s, 0))
    [] call.mode = Z_BLOCK -> s
BlockDone ==
  /\ call.at = "done"
  /\ \E b \in {Marked} :
       LET room == b.pending < strm.avail_out
       IN  /\ FlushPending([b EXCEPT !.last_flush = IF room THEN @ ELSE -1])
           /\ call' = [call EXCEPT !.at = IF room THEN "tail" ELSE "returned", !.ret = Z_OK]
           /\ said' = IF s.pending_out # 0 THEN Append(said, Garbled) ELSE said
  /\ UNCHANGED <<text, config, deflater>>

-----------------------------------------------------------------------------
(***************************************************************************)
(* A call of deflate(), and push around it.                                *)
(***************************************************************************)
rank(f) == 2 * f - IF f > 4 THEN 9 ELSE 0

\* Mutation of HeaderLength: the header is written in every call.
HeaderLength_EveryCall(t) == IF t.wrap = 2 THEN 10 ELSE 2
HeaderLength(t) == IF t.status # "INIT" THEN 0 ELSE IF t.wrap = 2 THEN 10 ELSE 2

\* The header, what is pending, and whether there is anything to do.
Begin ==
  LET h == [s EXCEPT !.pending = @ + HeaderLength(s), !.last_flush = call.mode,
                     !.status = IF @ = "INIT" THEN "BUSY" ELSE @]
      left == strm.avail_out - Least({h.pending, strm.avail_out})
      ret(code) == [call EXCEPT !.at = "returned", !.ret = code]
      busy == \/ strm.avail_in # 0 \/ s.lookahead # 0
              \/ call.mode # Z_NO_FLUSH /\ s.status # "FINISH"
  IN  /\ call.at = "deflate"
      /\ FlushPending([h EXCEPT !.last_flush = IF h.pending # 0 /\ left = 0 THEN -1 ELSE @])
      /\ call' = CASE h.pending # 0 /\ left = 0 -> ret(Z_OK)
                   [] h.pending = 0 /\ strm.avail_in = 0 /\ call.mode # Z_FINISH
                        /\ rank(call.mode) <= rank(s.last_flush) -> ret(Z_BUF_ERROR)
                   [] OTHER -> IF s.status = "FINISH" /\ strm.avail_in # 0 THEN ret(Z_BUF_ERROR)
                               ELSE [call EXCEPT !.at = IF busy THEN "loop" ELSE "tail"]
      /\ UNCHANGED <<text, config, said, deflater>>

\* The trailer, once.
TrailerLength(t) == IF t.wrap = 2 THEN 8 ELSE 4
Tail_ ==
  /\ call.at = "tail"
  /\ IF call.mode # Z_FINISH \/ s.wrap <= 0
       THEN /\ call' = [call EXCEPT !.at = "returned",
                          !.ret = IF call.mode # Z_FINISH THEN Z_OK ELSE Z_STREAM_END]
            /\ UNCHANGED <<strm, s>>
     ELSE /\ FlushPending([s EXCEPT !.pending = @ + TrailerLength(s), !.wrap = -s.wrap])
          /\ call' = [call EXCEPT !.at = "returned",
                        !.ret = IF s'.pending # 0 THEN Z_OK ELSE Z_STREAM_END]
  /\ UNCHANGED <<text, config, said, deflater>>

\* A round of push's loop: a call of deflate(), in a new buffer if the last one is full.
Call(m, mode) ==
  /\ strm' = IF m.avail_out = 0 THEN [m EXCEPT !.next_out = 0, !.avail_out = deflater.chunkSize] ELSE m
  /\ call' = [at |-> "deflate", mode |-> mode, filled |-> FALSE, end |-> 0, last |-> FALSE,
              then |-> "loop", ret |-> Z_OK]

\* Deflate.push, of the next so many bytes of the text.
Push(bytes, mode) ==
  /\ call.at = "none" /\ ~deflater.ended /\ Given + bytes <= Len(text)
  /\ mode \in Flushes => deflater.flushes < MaxFlushes
  /\ Call([strm EXCEPT !.given = Given, !.next_in = 0, !.avail_in = bytes], mode)
  /\ deflater' = [deflater EXCEPT !.flushes = IF mode \in Flushes THEN @ + 1 ELSE @]
  /\ UNCHANGED <<text, config, s, said>>

Fails == call.ret \notin {Z_OK, Z_STREAM_END}
PushFails ==
  /\ call.at = "returned" /\ Fails
  /\ deflater' = [deflater EXCEPT !.ended = TRUE, !.err = call.ret]
  /\ call' = [at |-> "none", mode |-> call.mode]
  /\ UNCHANGED <<text, config, strm, s, said>>

\* onData, when the output is full, the last, or wanted.
Handed ==
  IF strm.avail_out = 0 \/ (strm.avail_in = 0 /\ call.mode \in {Z_FINISH, Z_SYNC_FLUSH})
    THEN [deflater EXCEPT !.handed = @ + strm.next_out] ELSE deflater
\* push goes on while there is input, or may be output that did not fit.
\* Mutation of Again: it is enough that the input is used up.
Again_Input == strm.avail_in > 0 /\ call.ret # Z_STREAM_END
Again == (strm.avail_in > 0 \/ strm.avail_out = 0) /\ call.ret # Z_STREAM_END

PushLoops ==
  /\ call.at = "returned" /\ ~Fails /\ Again
  /\ deflater' = Handed
  /\ Call(strm, call.mode)
  /\ UNCHANGED <<text, config, s, said>>

PushEnds ==
  /\ call.at = "returned" /\ ~Fails /\ ~Again
  /\ deflater' = [Handed EXCEPT !.ended = call.mode = Z_FINISH,
                    !.err = IF call.mode = Z_FINISH /\ s.status = "BUSY" THEN Z_DATA_ERROR ELSE @]
  /\ strm' = IF call.mode = Z_SYNC_FLUSH THEN [strm EXCEPT !.avail_out = 0, !.next_out = 0] ELSE strm
  /\ call' = [at |-> "none", mode |-> call.mode]
  /\ UNCHANGED <<text, config, s, said>>

Step ==
  \/ Begin \/ FillWindow \/ NeedMore \/ EndLoop \/ BeforeSlide \/ FlushBlock \/ BlockDone \/ Tail_
  \/ Deflate_stored \/ Deflate_fast \/ Deflate_slow \/ Deflate_rle \/ Deflate_huff
  \/ PushFails \/ PushLoops \/ PushEnds

Next ==
  \/ \E bytes \in Pieces \cup {Len(text) - Given}, mode \in {Z_NO_FLUSH, Z_FINISH} \cup Flushes :
       Push(bytes, mode)
  \/ Step

\* A call of push runs to its end.
Spec == Init /\ [][Next]_vars /\ WF_vars(Step)

-----------------------------------------------------------------------------
(***************************************************************************)
(* Properties.                                                             *)
(***************************************************************************)
\* Type invariant.  What is to go out fits the buffer, and the window has what it is
\* said to have.
TypeOK ==
  /\ s.pending \in 0 .. pending_buf_size /\ s.bi_valid \in 0 .. 16
  /\ s.pending_out + s.pending <= pending_buf_size
  /\ Len(s.tokens) < lit_bufsize
  /\ s.strstart \in Nat /\ s.lookahead \in Nat
  /\ s.strstart + s.lookahead <= window_size /\ s.block_start <= s.strstart
  /\ s.insert \in 0 .. MIN_MATCH - 1 /\ s.insert <= s.strstart
  /\ strm.avail_out \in 0 .. deflater.chunkSize

\* Bytes of the text that are in a block or a token.
Consumed ==
  Given - s.lookahead
    - IF config.func = "stored" THEN s.strstart - s.block_start
      ELSE IF s.match_available THEN 1 ELSE 0

\* However the text is cut, wherever the window has slid and whichever blocks are sent
\* from it instead of from the tokens, a reader with a window of the same size gets the
\* text.
SaysTheText == said = SubSeq(text, 1, Consumed)

\* The chain of a hash holds the positions of strings that have it, as far back as a
\* match may reach: longest_match does not compare the third bytes.
HashAt(pos) ==
  UPDATE_HASH(UPDATE_HASH(s.window[pos], s.window[pos + 1]), s.window[pos + 2])
InReach(pos) == pos > 0 /\ s.strstart - pos <= MAX_DIST
ChainsHoldTheirHash ==
  \A h \in DOMAIN s.head :
    LET chain[i \in 1 .. MAX_DIST] ==
          IF i = 1 THEN s.head[h]
          ELSE IF InReach(chain[i - 1]) THEN s.prev[chain[i - 1] % w_size] ELSE 0
    IN  \A i \in 1 .. MAX_DIST : InReach(chain[i]) => HashAt(chain[i]) = h

\* When push returns from a flush or the end, all that was pushed is in blocks, and
\* they are in the output, to the last bit or, for the weaker flushes, but for less
\* than a byte; for a sync flush and the end it was handed out, each byte once.  push
\* fails only when it was given nothing to do, and the end is an end.
AllIsOut ==
  call.at = "none" =>
    IF deflater.err # Z_OK
      THEN deflater.err = Z_BUF_ERROR /\ strm.next_in = 0 /\ strm.avail_in = 0 /\ call.mode # Z_FINISH
    ELSE /\ strm.avail_in = 0
         /\ call.mode # Z_NO_FLUSH =>
              /\ s.pending = 0 /\ s.tokens = <<>> /\ Consumed = Given
              /\ call.mode # Z_BLOCK => s.bi_valid < 8
         /\ call.mode \in {Z_SYNC_FLUSH, Z_FULL_FLUSH, Z_FINISH} => s.bi_valid = 0
         /\ call.mode \in {Z_SYNC_FLUSH, Z_FINISH} => deflater.handed = strm.total_out
         /\ call.mode = Z_FINISH => s.status = "FINISH" /\ s.wrap <= 0

\* Every call of push returns.
PushReturns == call.at # "none" ~> call.at = "none"
=============================================================================
