---------------------------- MODULE HuffmanTrees ----------------------------
(***************************************************************************)
(* How pako's deflate codes the tokens of a block (trees.js): Huffman      *)
(* trees built from the tokens' frequencies, limited in depth, and the     *)
(* bits that describe them.  Operators only; HuffmanBlocks runs them.      *)
(*                                                                         *)
(* A tree is a function from node numbers to pairs as in the code, where   *)
(* one field holds a node's frequency and later its code (fc), the other   *)
(* its father and later its code's length (dl).                            *)
(***************************************************************************)
EXTENDS Integers, Sequences, FiniteSets, SequencesExt

CONSTANTS
  LITERALS,             \* the code: 256
  LENGTH_CODES,         \* 29
  D_CODES,              \* 30
  MAX_BITS,             \* 15
  MAX_BL_BITS,          \* 7
  ExtraLBits,           \* extra_lbits: extra bits of each length code
  ExtraDBits,           \* extra_dbits: and of each distance code
  BlOrder,              \* bl_order: the bit length codes, the rarest last
  StaticLLen,           \* lengths of the L_CODES + 2 codes of static_ltree
  StaticDLen,           \* length of the codes of static_dtree: 5
  BYTE                  \* bits of a byte: 8

END_BLOCK == LITERALS
L_CODES == LITERALS + 1 + LENGTH_CODES
REP_3_6 == MAX_BITS + 1
REPZ_3_10 == MAX_BITS + 2
REPZ_11_138 == MAX_BITS + 3
BL_CODES == MAX_BITS + 4
MIN_MATCH == 3

ASSUME TreesAssumption ==
  /\ LITERALS \in Nat \ {0} /\ LENGTH_CODES \in Nat \ {0} /\ D_CODES \in Nat \ {0}
  /\ 2 ^ MAX_BITS >= L_CODES /\ 2 ^ MAX_BITS >= D_CODES /\ 2 ^ MAX_BL_BITS >= BL_CODES
  /\ ExtraLBits \in [0 .. LENGTH_CODES - 1 -> Nat]
  /\ ExtraDBits \in [0 .. D_CODES - 1 -> Nat]
  /\ BlOrder \in [0 .. BL_CODES - 1 -> 0 .. BL_CODES - 1]
  /\ StaticLLen \in [0 .. L_CODES + 1 -> 1 .. MAX_BITS]
  /\ BYTE \in Nat \ {0} /\ LITERALS <= 2 ^ BYTE
  /\ StaticDLen \in 1 .. MAX_BITS /\ 2 ^ StaticDLen >= D_CODES

RECURSIVE SumTo(_, _)
SumTo(f, n) == IF n < 0 THEN 0 ELSE f[n] + SumTo(f, n - 1)

(***************************************************************************)
(* Bits, and the codes of lengths and distances.                           *)
(***************************************************************************)
\* send_bits: the low n bits of a value, the lowest first.
Bits(value, n) == [i \in 1 .. n |-> (value \div 2 ^ (i - 1)) % 2]

BiReverse(code, len) ==
  LET res[i \in 0 .. len] ==
        IF i = 0 THEN 0 ELSE 2 * res[i - 1] + ((code \div 2 ^ (i - 1)) % 2)
  IN  res[len]

\* Each code of a length or distance starts where the one before it ends.
Base(extra) == [c \in DOMAIN extra |-> SumTo([k \in DOMAIN extra |-> 2 ^ extra[k]], c - 1)]
CodeOf(extra, v) ==
  CHOOSE c \in DOMAIN extra : Base(extra)[c] <= v /\ v < Base(extra)[c] + 2 ^ extra[c]

\* The last length code is for the longest match alone, which the code before it
\* could say too.
ShorterLBits == [c \in 0 .. LENGTH_CODES - 2 |-> ExtraLBits[c]]
MAX_MATCH == MIN_MATCH - 1 + SumTo([c \in DOMAIN ShorterLBits |-> 2 ^ ExtraLBits[c]], LENGTH_CODES - 2)
LengthCode(lc) ==
  IF lc = MAX_MATCH - MIN_MATCH THEN LENGTH_CODES - 1 ELSE CodeOf(ShorterLBits, lc)
DCode(dist) == CodeOf(ExtraDBits, dist)

(***************************************************************************)
(* The trees of one block.  s is what the functions share of the deflate   *)
(* state: the heap of nodes still to combine, the nodes that are (sorted,  *)
(* the latest first), the nodes' depths and the running sums of bits.      *)
(***************************************************************************)
Smaller(s, tree, n, m) ==
  \/ tree[n].fc < tree[m].fc
  \/ tree[n].fc = tree[m].fc /\ s.depth[n] <= s.depth[m]

RECURSIVE MoveDown(_, _, _, _)
MoveDown(s, tree, k, v) ==
  LET len == Len(s.heap)
      j == IF 2 * k < len /\ Smaller(s, tree, s.heap[2 * k + 1], s.heap[2 * k])
             THEN 2 * k + 1 ELSE 2 * k
  IN  IF 2 * k > len THEN [s EXCEPT !.heap[k] = v]
      ELSE IF Smaller(s, tree, v, s.heap[j]) THEN [s EXCEPT !.heap[k] = v]
      ELSE MoveDown([s EXCEPT !.heap[k] = s.heap[j]], tree, j, v)

PqDownHeap(s, tree, k) == MoveDown(s, tree, k, s.heap[k])

\* The heap of a tree's used symbols, of which there must be two.
RECURSIVE AtLeastTwo(_)
AtLeastTwo(b) ==
  LET node == IF b.max_code < 2 THEN b.max_code + 1 ELSE 0
  IN  IF Len(b.s.heap) >= 2 THEN b
      ELSE AtLeastTwo(
        [b EXCEPT !.tree[node].fc = 1,
                  !.max_code = IF b.max_code < 2 THEN node ELSE @,
                  !.s.heap = Append(@, node),
                  !.s.depth[node] = 0,
                  !.s.opt_len = @ - 1,
                  !.s.static_len = IF b.desc.has_stree THEN @ - b.desc.static[node] ELSE @])

RECURSIVE Heapify(_, _, _)
Heapify(s, tree, n) ==
  IF n = 0 THEN s ELSE Heapify(PqDownHeap(s, tree, n), tree, n - 1)

\* The two least frequent nodes get a father, until one is left.
RECURSIVE Combine(_, _)
Combine(b, node) ==
  LET n == b.s.heap[1]
      without == PqDownHeap(
        [b.s EXCEPT !.heap = SubSeq(<<Last(@)>> \o Tail(@), 1, Len(@) - 1)], b.tree, 1)
      m == without.heap[1]
      depth == IF b.s.depth[n] >= b.s.depth[m] THEN b.s.depth[n] ELSE b.s.depth[m]
      tree == [b.tree EXCEPT ![node].fc = b.tree[n].fc + b.tree[m].fc,
                             ![n].dl = node, ![m].dl = node]
      s == PqDownHeap([without EXCEPT !.heap[1] = node, !.depth[node] = depth + 1,
                                      !.sorted = <<m, n>> \o @], tree, 1)
      next == [b EXCEPT !.tree = tree, !.s = s]
  IN  IF Len(s.heap) >= 2 THEN Combine(next, node + 1)
      ELSE [next EXCEPT !.s.sorted = s.heap \o @]

\* Mutation of Repaired: the brother of the node moved down is forgotten.
Repaired_OneDown(bl_count, bits, max_length) ==
  [bl_count EXCEPT ![bits] = @ - 1, ![bits + 1] = @ + 1]

\* A leaf at a shorter length moves down and takes an overflowing one as brother.
Repaired(bl_count, bits, max_length) ==
  LET down == [bl_count EXCEPT ![bits] = @ - 1, ![bits + 1] = @ + 2]
  IN  [down EXCEPT ![max_length] = @ - 1]

RECURSIVE Repair(_, _, _)
Repair(bl_count, overflow, max_length) ==
  LET bits == CHOOSE b \in 0 .. max_length - 1 :
                bl_count[b] # 0 /\ \A c \in b + 1 .. max_length - 1 : bl_count[c] = 0
  IN  IF overflow <= 0 THEN bl_count
      ELSE Repair(Repaired(bl_count, bits, max_length), overflow - 2, max_length)

\* gen_bitlen: each leaf's depth is its length, up to max_length; when that cut
\* nodes off, lengths are given out anew, the longest to the least frequent.
GenBitlen(b) ==
  LET sorted == b.s.sorted
      max == b.desc.max_length
      depth[n \in ToSet(sorted)] ==
        IF n = sorted[1] THEN 0
        ELSE LET bits == depth[b.tree[n].dl] + 1 IN IF bits > max THEN max ELSE bits
      overflow ==
        Cardinality({n \in ToSet(Tail(sorted)) : depth[b.tree[n].dl] = max})
      leaves == Reverse(SelectSeq(sorted, LAMBDA n : n <= b.max_code))
      first == [l \in 0 .. MAX_BITS |->
                  Cardinality({n \in ToSet(leaves) : depth[n] = l})]
      bl_count == Repair(first, overflow, max)
      anew(k) == CHOOSE l \in 1 .. max :
                   /\ SumTo(bl_count, max) - SumTo(bl_count, l - 1) >= k
                   /\ SumTo(bl_count, max) - SumTo(bl_count, l) < k
      len == [n \in ToSet(leaves) |->
                IF overflow = 0 THEN depth[n] ELSE anew(SelectInSeq(leaves, LAMBDA v : v = n))]
      weigh(of) == MapThenSumSet(LAMBDA n : b.tree[n].fc * (of[n] + b.desc.extra[n]),
                                 ToSet(leaves))
  IN  [b EXCEPT
         !.tree = [n \in DOMAIN @ |->
                     IF n \in ToSet(leaves) THEN [@[n] EXCEPT !.dl = len[n]] ELSE @[n]],
         !.bl_count = bl_count,
         !.s.opt_len = @ + weigh(len),
         !.s.static_len = IF b.desc.has_stree THEN @ + weigh(b.desc.static) ELSE @]

\* gen_codes: the codes of one length are consecutive, after the shorter ones, in
\* the order of their symbols.
RECURSIVE NextCode(_, _)
NextCode(bl_count, bits) ==
  IF bits = 0 THEN 0 ELSE (NextCode(bl_count, bits - 1) + bl_count[bits - 1]) * 2

GenCodes(tree, max_code, bl_count) ==
  LET len(n) == tree[n].dl
      code(n) == NextCode(bl_count, len(n)) + Cardinality({m \in 0 .. n - 1 : len(m) = len(n)})
  IN  [n \in DOMAIN tree |->
         IF n <= max_code /\ len(n) # 0
           THEN [tree[n] EXCEPT !.fc = BiReverse(code(n), len(n))]
           ELSE tree[n]]

\* build_tree, for a tree whose fc are frequencies: the tree with its codes and
\* lengths, its largest code, and the sums of bits.
Symbols(tree, desc, opt_len, static_len) ==
  LET used == SelectSeq([k \in 1 .. desc.elems |-> k - 1], LAMBDA n : tree[n].fc # 0)
      cleared == [n \in DOMAIN tree |->
                    IF n < desc.elems /\ tree[n].fc = 0 THEN [tree[n] EXCEPT !.dl = 0]
                    ELSE tree[n]]
  IN  AtLeastTwo(
        [tree |-> cleared, desc |-> desc, bl_count |-> <<>>,
         max_code |-> IF used = <<>> THEN -1 ELSE Last(used),
         s |-> [heap |-> used, sorted |-> <<>>, depth |-> [n \in DOMAIN tree |-> 0],
                opt_len |-> opt_len, static_len |-> static_len]])
Combined(b) ==
  Combine([b EXCEPT !.s = Heapify(@, b.tree, Len(@.heap) \div 2)], b.desc.elems)
WithCodes(b) ==
  [tree |-> GenCodes(b.tree, b.max_code, b.bl_count), max_code |-> b.max_code,
   opt_len |-> b.s.opt_len, static_len |-> b.s.static_len]
BuildTree(tree, desc, opt_len, static_len) ==
  WithCodes(GenBitlen(Combined(Symbols(tree, desc, opt_len, static_len))))

(***************************************************************************)
(* The lengths of a tree's codes are sent as codes themselves, with        *)
(* others for repeats.                                                     *)
(***************************************************************************)
Guard == 65535          \* after the last length: the end of the last run

\* What is sent for a run of equal lengths: bit length codes and their extra value.
RunItems(len, prevlen, count, min_count) ==
  IF count < min_count THEN [i \in 1 .. count |-> <<len, 0>>]
  ELSE IF len # 0
    THEN IF len = prevlen THEN <<<<REP_3_6, count - 3>>>>
         ELSE <<<<len, 0>>, <<REP_3_6, count - 4>>>>
  ELSE IF count <= 10 THEN <<<<REPZ_3_10, count - 3>>>>
  ELSE <<<<REPZ_11_138, count - 11>>>>

\* The items for the lengths from n on, when prevlen was sent last.
RECURSIVE LengthItems(_, _, _, _)
LengthItems(tree, max_code, n, prevlen) ==
  LET len == tree[n].dl
      max_count == IF len = 0 THEN 138 ELSE IF len = prevlen THEN 6 ELSE 7
      min_count == IF len # 0 /\ len # prevlen THEN 4 ELSE 3
      count == CHOOSE c \in 1 .. max_count :
                 /\ \A k \in 0 .. c - 1 : tree[n + k].dl = len
                 /\ c = max_count \/ tree[n + c].dl # len
  IN  IF n > max_code THEN <<>>
      ELSE RunItems(len, prevlen, count, min_count)
             \o LengthItems(tree, max_code, n + count, len)

\* scan_tree sets the guard, and counts; send_tree sends what it counted.
Guarded(t) == [t EXCEPT !.tree[t.max_code + 1].dl = Guard]
ScanTree(bltree, t) ==
  LET items == LengthItems(t.tree, t.max_code, 0, -1)
  IN  [n \in DOMAIN bltree |->
         [bltree[n] EXCEPT
            !.fc = @ + Cardinality({i \in DOMAIN items : items[i][1] = n})]]

\* extra_blbits
ExtraBlBits ==
  [n \in 0 .. BL_CODES - 1 |->
     CASE n = REP_3_6 -> 2 [] n = REPZ_3_10 -> 3 [] n = REPZ_11_138 -> 7 [] OTHER -> 0]

SendCode(tree, c) == Bits(tree[c].fc, tree[c].dl)
SendTree(bltree, t) ==
  LET items == LengthItems(t.tree, t.max_code, 0, -1)
  IN  FlattenSeq([i \in DOMAIN items |->
        SendCode(bltree, items[i][1]) \o Bits(items[i][2], ExtraBlBits[items[i][1]])])

\* The tree of the bit length codes, and how many of them are sent.
BlDesc == [elems |-> BL_CODES, max_length |-> MAX_BL_BITS, extra |-> ExtraBlBits,
           has_stree |-> FALSE]
LastSent(b) ==
  LET last == CHOOSE k \in 2 .. BL_CODES - 1 :
                /\ k = 2 \/ b.tree[BlOrder[k]].dl # 0
                /\ \A j \in k + 1 .. BL_CODES - 1 : b.tree[BlOrder[j]].dl = 0
  IN  [b EXCEPT !.max_code = last, !.opt_len = @ + 3 * (last + 1) + 5 + 5 + 4]
BuildBlTree(bltree, l, d, opt_len, static_len) ==
  LastSent(BuildTree(ScanTree(ScanTree(bltree, l), d), BlDesc, opt_len, static_len))

SendAllTrees(l, d, bl) ==
  Bits(l.max_code - LITERALS, 5) \o Bits(d.max_code, 5) \o Bits(bl.max_code - 3, 4)
    \o FlattenSeq([k \in 1 .. bl.max_code + 1 |-> Bits(bl.tree[BlOrder[k - 1]].dl, 3)])
    \o SendTree(bl.tree, l) \o SendTree(bl.tree, d)
=============================================================================
