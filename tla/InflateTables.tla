--------------------------- MODULE InflateTables ----------------------------
(***************************************************************************)
(* How pako's inflate reads the description of a block's codes and looks   *)
(* codes up: inflate_table, and the modes TABLE to DISTEXT of inflate.     *)
(* Operators only; HuffmanBlocks runs them.                                *)
(***************************************************************************)
EXTENDS HuffmanTrees

CONSTANTS
  LBase, LExt,          \* lbase and lext: shortest length and extra bits of a code
  DBase, DExt,          \* dbase and dext: nearest distance and extra bits
  LenRoot, DistRoot,    \* bits of the first lookup: 9 and 6
  EnoughLens, EnoughDists   \* room of the tables: 852 and 592

ASSUME TablesAssumption ==
  /\ DOMAIN LBase = 0 .. LENGTH_CODES - 1 /\ DOMAIN LExt = DOMAIN LBase
  /\ DOMAIN DBase = 0 .. D_CODES - 1 /\ DOMAIN DExt = DOMAIN DBase
  /\ LenRoot \in Nat \ {0} /\ DistRoot \in Nat \ {0}
  /\ EnoughLens >= 2 ^ MAX_BL_BITS /\ EnoughDists \in Nat

\* Entries of a table, by their op.
Literal(val) == [op |-> "literal", val |-> val, extra |-> 0, bits |-> 0]
BaseAndExtra(base, extra) == [op |-> "base", val |-> base, extra |-> extra, bits |-> 0]
EndOfBlock == [op |-> "end", val |-> 0, extra |-> 0, bits |-> 0]
Invalid == [op |-> "invalid", val |-> 0, extra |-> 0, bits |-> 0]
Link(next, curr) == [op |-> "link", val |-> next, extra |-> curr, bits |-> 0]
OfBits(entry, n) == [entry EXCEPT !.bits = n]

EntryOf(type, sym) ==
  CASE type = "codes" -> Literal(sym)
    [] type = "lens" /\ sym < END_BLOCK -> Literal(sym)
    [] type = "lens" /\ sym = END_BLOCK -> EndOfBlock
    [] type = "lens" /\ sym > END_BLOCK ->
         IF sym < L_CODES THEN BaseAndExtra(LBase[sym - LITERALS - 1], LExt[sym - LITERALS - 1])
         ELSE Invalid
    [] type = "dists" ->
         IF sym < D_CODES THEN BaseAndExtra(DBase[sym], DExt[sym]) ELSE Invalid

\* The reversed code after huff, of len bits: the highest clear bit is set, and
\* the bits above it are cleared.
RECURSIVE Increment(_, _)
Increment(huff, len) ==
  IF len = 0 THEN 0
  ELSE IF huff < 2 ^ (len - 1) THEN huff + 2 ^ (len - 1)
  ELSE Increment(huff - 2 ^ (len - 1), len - 1)

\* Mutation of SubTableBits: only codes of this length are thought of.
SubTableBits_ThisLength(count, curr, drop, max) == curr

\* A sub-table for codes of curr + drop bits is made larger until all the codes
\* that begin alike must end in it.
SubTableBits(count, curr, drop, max) ==
  LET left[c \in curr .. max - drop] ==
        (IF c = curr THEN 2 ^ c ELSE 2 * left[c - 1]) - count[c + drop]
  IN  CHOOSE c \in curr .. max - drop :
        /\ c = max - drop \/ left[c] <= 0
        /\ \A d \in curr .. c - 1 : left[d] > 0

\* The rest of the symbols, in the order of their codes, go into the table.
RECURSIVE Enter(_, _)
Enter(t, work) ==
  LET sym == Head(work)
      len == t.lens[sym]
      here == OfBits(EntryOf(t.type, sym), len - t.drop)
      size == 2 ^ t.curr
      low(i) == (i - t.next) % 2 ^ (len - t.drop) = t.huff \div 2 ^ t.drop
      filled == [i \in DOMAIN t.table |->
                   IF i \in t.next .. t.next + size - 1 /\ low(i) THEN here ELSE t.table[i]]
      huff == Increment(t.huff, len)
      count == [t.count EXCEPT ![len] = @ - 1]
      done == [t EXCEPT !.table = filled, !.huff = huff, !.count = count]
      nextlen == t.lens[work[2]]
      root == huff % 2 ^ t.root
      curr == SubTableBits(count, nextlen - t.root, t.root, t.max)
      sub == [done EXCEPT !.drop = t.root, !.next = t.next + size, !.curr = curr,
                          !.used = t.used + 2 ^ curr, !.low = root,
                          !.table = [filled EXCEPT ![root] =
                                       OfBits(Link(t.next + size, curr), t.root)]]
  IN  IF Len(work) = 1
        THEN [done EXCEPT !.table =
                IF huff # 0
                  THEN [filled EXCEPT ![t.next + huff] = OfBits(Invalid, len - t.drop)]
                  ELSE filled]
      ELSE IF nextlen <= t.root \/ root = t.low THEN Enter(done, Tail(work))
      ELSE IF t.used + 2 ^ curr > t.enough THEN [done EXCEPT !.ret = 1]
      ELSE Enter(sub, Tail(work))

\* inflate_table: the codes of the given lengths in table, which keeps what it
\* held where nothing is entered, with the bits of its first lookup.
InflateTable(type, lens, table, bits) ==
  LET symbols == {n \in DOMAIN lens : lens[n] # 0}
      count == [l \in 0 .. MAX_BITS |-> Cardinality({n \in symbols : lens[n] = l})]
      used == {l \in 1 .. MAX_BITS : count[l] # 0}
      max == CHOOSE l \in used : \A k \in used : k <= l
      min == CHOOSE l \in used : \A k \in used : k >= l
      root == IF bits > max THEN max ELSE IF bits < min THEN min ELSE bits
      left[l \in 0 .. MAX_BITS] == IF l = 0 THEN 1 ELSE 2 * left[l - 1] - count[l]
      enough == CASE type = "codes" -> 2 ^ root [] type = "lens" -> EnoughLens
                  [] type = "dists" -> EnoughDists
      work == FlattenSeq([l \in 1 .. MAX_BITS |->
                SelectSeq([n \in 1 .. Cardinality(DOMAIN lens) |-> n - 1],
                          LAMBDA n : lens[n] = l)])
      t == [ret |-> 0, type |-> type, lens |-> lens, table |-> table, count |-> count,
            root |-> root, max |-> max, enough |-> enough, huff |-> 0, next |-> 0,
            curr |-> root, drop |-> 0, low |-> -1, used |-> 2 ^ root]
      result(r, tab, b) == [ret |-> r, table |-> tab, bits |-> b]
  IN  IF symbols = {}
        THEN result(0, [table EXCEPT ![0] = OfBits(Invalid, 1), ![1] = OfBits(Invalid, 1)], 1)
      ELSE IF \E l \in 1 .. MAX_BITS : left[l] < 0 THEN result(-1, table, root)
      ELSE IF left[MAX_BITS] > 0 /\ (type = "codes" \/ max # 1) THEN result(-1, table, root)
      ELSE IF 2 ^ root > enough THEN result(1, table, root)
      ELSE LET e == Enter(t, work) IN result(e.ret, e.table, root)

(***************************************************************************)
(* Reading bits.                                                           *)
(***************************************************************************)
\* The n bits after the first p, as a number; nothing stands after the last bit.
Peek(wire, p, n) ==
  SumTo([i \in 0 .. n - 1 |->
           IF p + i + 1 <= Len(wire) THEN wire[p + i + 1] * 2 ^ i ELSE 0], n - 1)

\* The entry for the code that begins after the first p bits, which a root entry
\* may look for in a second table, and where the code ends.
Lookup(table, root, wire, p) ==
  LET last == table[Peek(wire, p, root)]
      here == table[last.val + Peek(wire, p, last.bits + last.extra) \div 2 ^ last.bits]
  IN  IF last.op = "link" THEN [entry |-> here, p |-> p + last.bits + here.bits]
      ELSE [entry |-> last, p |-> p + last.bits]

\* CODELENS: lengths until all are known; a repeat code stands for several.
RECURSIVE CodeLens(_, _, _, _)
CodeLens(tree, wire, p, r) ==
  LET found == Lookup(tree.table, tree.bits, wire, p)
      val == found.entry.val
      extra == CASE val = REP_3_6 -> 2 [] val = REPZ_3_10 -> 3 [] val = REPZ_11_138 -> 7 [] OTHER -> 0
      copy == Peek(wire, found.p, extra) + (IF val = REPZ_11_138 THEN 11 ELSE 3)
      len == IF val = REP_3_6 THEN Last(r.lens) ELSE 0
  IN  IF Len(r.lens) >= r.wanted THEN [r EXCEPT !.p = p]
      ELSE IF val <= MAX_BITS
        THEN CodeLens(tree, wire, found.p, [r EXCEPT !.lens = Append(@, val)])
      ELSE IF (val = REP_3_6 /\ r.lens = <<>>) \/ Len(r.lens) + copy > r.wanted
        THEN [r EXCEPT !.bad = TRUE]
      ELSE CodeLens(tree, wire, found.p + extra,
                    [r EXCEPT !.lens = @ \o [i \in 1 .. copy |-> len]])

\* The last part of CODELENS: the tables for the lengths r that were read.
TablesOfLens(nlen, ndist, codes, r, tables) ==
  LET len == InflateTable("lens", [n \in 0 .. nlen - 1 |-> r.lens[n + 1]], codes.table, LenRoot)
      dist == InflateTable("dists", [n \in 0 .. ndist - 1 |-> r.lens[nlen + n + 1]],
                           tables.dist.table, DistRoot)
      bad == \/ nlen > L_CODES \/ ndist > D_CODES \/ codes.ret # 0
             \/ r.bad \/ r.lens[END_BLOCK + 1] = 0 \/ len.ret # 0 \/ dist.ret # 0
  IN  [bad |-> bad, p |-> r.p, len |-> len, dist |-> dist]

\* TABLE, LENLENS and CODELENS: the tables that a description gives, made in the
\* tables of the block before.
ReadTables(wire, start, tables) ==
  LET nlen == Peek(wire, start, 5) + LITERALS + 1
      ndist == Peek(wire, start + 5, 5) + 1
      ncode == Peek(wire, start + 10, 4) + 4
      p == start + 14
      bllens == [n \in 0 .. BL_CODES - 1 |->
                   LET rank == CHOOSE k \in 0 .. BL_CODES - 1 : BlOrder[k] = n
                   IN  IF rank < ncode THEN Peek(wire, p + 3 * rank, 3) ELSE 0]
      codes == InflateTable("codes", bllens, tables.len.table, MAX_BL_BITS)
      none == [lens |-> <<>>, wanted |-> nlen + ndist, p |-> 0, bad |-> FALSE]
  IN  TablesOfLens(nlen, ndist, codes, CodeLens(codes, wire, p + 3 * ncode, none), tables)

\* LEN to DISTEXT: the token that begins after the first p bits, and its end.
ReadToken(tables, wire, p) ==
  LET l == Lookup(tables.len.table, tables.len.bits, wire, p)
      d == Lookup(tables.dist.table, tables.dist.bits, wire, l.p + l.entry.extra)
      value(e) == e.entry.val + Peek(wire, e.p, e.entry.extra)
  IN  CASE l.entry.op = "literal" -> [kind |-> "literal", lit |-> l.entry.val, p |-> l.p]
        [] l.entry.op = "end" -> [kind |-> "end", p |-> l.p]
        [] l.entry.op = "invalid" \/ d.entry.op = "invalid" -> [kind |-> "bad", p |-> l.p]
        [] OTHER -> [kind |-> "match", len |-> value(l), dist |-> value(d),
                     p |-> d.p + d.entry.extra]
=============================================================================
