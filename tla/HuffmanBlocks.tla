---------------------------- MODULE HuffmanBlocks ---------------------------
(***************************************************************************)
(* The blocks of one stream, one after the other: the tokens of a block    *)
(* are counted, _tr_flush_block chooses how to send them, and inflate      *)
(* makes its tables of what it is sent.  Both ends keep their arrays from  *)
(* block to block and leave in them what they do not overwrite.            *)
(*                                                                         *)
(* A block's tokens are a bag: their order does not matter here, for every *)
(* token is read wherever it stands, whatever follows it.                  *)
(***************************************************************************)
EXTENDS InflateTables, TLC

CONSTANTS
  Bags,                 \* the tokens that a block may have, with their numbers
  MaxBlocks             \* bound: blocks of a stream

VARIABLES
  ltree, dtree, bltree, \* dyn_ltree, dyn_dtree and bl_tree
  block,                \* the block under way: its tokens and what was sent for it
  tables,               \* lencode and distcode with lenbits and distbits
  blocks                \* number of blocks begun

vars == <<ltree, dtree, bltree, block, tables, blocks>>

LitToken(c) == [kind |-> "literal", lit |-> c]
Match(len, dist) == [kind |-> "match", len |-> len, dist |-> dist]

ASSUME BlocksAssumption ==
  \A b \in Bags : \A t \in DOMAIN b :
    /\ b[t] \in Nat \ {0}
    /\ \/ t.kind = "literal" /\ t.lit \in 0 .. LITERALS - 1
       \/ /\ t.kind = "match" /\ t.len \in MIN_MATCH .. MAX_MATCH
          /\ t.dist \in 1 .. SumTo([c \in 0 .. D_CODES - 1 |-> 2 ^ ExtraDBits[c]], D_CODES - 1)

Unused == [fc |-> 0, dl |-> 0]
NewTree(elems) == [n \in 0 .. 2 * elems |-> Unused]

\* Mutation of InitBlock: what was counted, or put in its place, is kept.
InitBlock_KeepsCounts(tree, elems) == tree

\* init_block, for one tree: only the frequencies are reset.
InitBlock(tree, elems) ==
  [n \in DOMAIN tree |-> IF n < elems THEN [tree[n] EXCEPT !.fc = 0] ELSE tree[n]]
InitLTree(tree) == [InitBlock(tree, L_CODES) EXCEPT ![END_BLOCK].fc = 1]

NoBlock == [step |-> "none"]
EmptyTable(size) == [table |-> [i \in 0 .. size - 1 |-> Literal(0)], bits |-> 0]

Init ==
  /\ ltree = InitLTree(NewTree(L_CODES))
  /\ dtree = InitBlock(NewTree(D_CODES), D_CODES)
  /\ bltree = InitBlock(NewTree(BL_CODES), BL_CODES)
  /\ block = NoBlock /\ blocks = 0
  /\ tables = [len |-> EmptyTable(EnoughLens), dist |-> EmptyTable(EnoughDists)]

\* How often these tokens occur.
Times(bag, tokens) == MapThenSumSet(LAMBDA t : bag[t], tokens)
LCode(t) ==
  IF t.kind = "literal" THEN t.lit ELSE LengthCode(t.len - MIN_MATCH) + LITERALS + 1

\* _tr_tally, of each of a block's tokens as often as it occurs.
Tally(bag) ==
  /\ block.step \in {"none", "read"} /\ blocks < MaxBlocks
  /\ ltree' = [n \in DOMAIN ltree |->
                 [ltree[n] EXCEPT !.fc = @ + Times(bag, {t \in DOMAIN bag : LCode(t) = n})]]
  /\ dtree' = [n \in DOMAIN dtree |->
                 [dtree[n] EXCEPT !.fc = @ + Times(bag, {t \in DOMAIN bag :
                                     t.kind = "match" /\ DCode(t.dist - 1) = n})]]
  /\ block' = [step |-> "tallied", tokens |-> bag]
  /\ blocks' = blocks + 1
  /\ UNCHANGED <<bltree, tables>>

LDesc == [elems |-> L_CODES, max_length |-> MAX_BITS,
          extra |-> [n \in 0 .. L_CODES - 1 |->
                       IF n > LITERALS THEN ExtraLBits[n - LITERALS - 1] ELSE 0],
          has_stree |-> TRUE, static |-> StaticLLen]
DDesc == [elems |-> D_CODES, max_length |-> MAX_BITS, extra |-> ExtraDBits,
          has_stree |-> TRUE, static |-> [n \in 0 .. D_CODES - 1 |-> StaticDLen]]

\* static_ltree and static_dtree (tr_static_init)
StaticLTree ==
  GenCodes([n \in 0 .. L_CODES + 1 |-> [fc |-> 0, dl |-> StaticLLen[n]]], L_CODES + 1,
           [l \in 0 .. MAX_BITS |-> Cardinality({n \in DOMAIN StaticLLen : StaticLLen[n] = l})])
StaticDTree == [n \in 0 .. D_CODES - 1 |-> [fc |-> BiReverse(n, StaticDLen), dl |-> StaticDLen]]

\* compress_block: the bits of one token.
TokenBits(l, d, t) ==
  LET lc == t.len - MIN_MATCH
      dcode == DCode(t.dist - 1)
      length == IF LengthCode(lc) = LENGTH_CODES - 1 THEN 0 ELSE lc - Base(ShorterLBits)[LengthCode(lc)]
  IN  IF t.kind = "literal" THEN SendCode(l, t.lit)
      ELSE SendCode(l, LCode(t)) \o Bits(length, ExtraLBits[LengthCode(lc)])
             \o SendCode(d, dcode) \o Bits(t.dist - 1 - Base(ExtraDBits)[dcode], ExtraDBits[dcode])

\* What is sent with the given trees: their description, and each token's bits.
Coded(kind, l, d, trees) ==
  [kind |-> kind, trees |-> trees,
   tokens |-> [t \in DOMAIN block.tokens |-> TokenBits(l, d, t)],
   end |-> SendCode(l, END_BLOCK)]

\* Bytes that the block's tokens stand for.
StoredLen ==
  MapThenSumSet(LAMBDA t : block.tokens[t] * (IF t.kind = "literal" THEN 1 ELSE t.len),
                DOMAIN block.tokens)

\* _tr_flush_block at a level above 0: the block as it is sent with the trees made for
\* it.  Its input may be too old to be stored.
Flushed(l, d, bl, old) ==
  LET static_lenb == (bl.static_len + 3 + BYTE - 1) \div BYTE
      dynamic == (bl.opt_len + 3 + BYTE - 1) \div BYTE
      opt_lenb == IF static_lenb <= dynamic THEN static_lenb ELSE dynamic
      sent == IF StoredLen + 4 <= opt_lenb /\ ~old
                THEN Coded("stored", StaticLTree, StaticDTree, <<>>)
              ELSE IF static_lenb = opt_lenb
                THEN Coded("fixed", StaticLTree, StaticDTree, <<>>)
              ELSE Coded("dynamic", l.tree, d.tree, SendAllTrees(Guarded(l), Guarded(d), bl))
  IN  [step |-> "sent", tokens |-> block.tokens, sent |-> sent, l |-> l, d |-> d, bl |-> bl,
       counted |-> [l |-> ltree, d |-> dtree,
                    bl |-> ScanTree(ScanTree(bltree, Guarded(l)), Guarded(d))]]

FlushBlock(old) ==
  /\ block.step = "tallied"
  /\ \E l \in {BuildTree(ltree, LDesc, 0, 0)} :
     \E d \in {BuildTree(dtree, DDesc, l.opt_len, l.static_len)} :
     \E bl \in {BuildBlTree(bltree, Guarded(l), Guarded(d), d.opt_len, d.static_len)} :
       /\ block' = Flushed(l, d, bl, old)
       /\ ltree' = InitLTree(Guarded(l).tree)
       /\ dtree' = InitBlock(Guarded(d).tree, D_CODES)
       /\ bltree' = InitBlock(bl.tree, BL_CODES)
  /\ UNCHANGED <<tables, blocks>>

\* fixedtables
FixedTables ==
  [bad |-> FALSE, p |-> 0,
   len |-> InflateTable("lens", StaticLLen, EmptyTable(EnoughLens).table, LenRoot),
   dist |-> InflateTable("dists", [n \in 0 .. 2 ^ StaticDLen - 1 |-> StaticDLen],
                        EmptyTable(EnoughDists).table, StaticDLen)]

\* inflate, TYPEDO to CODELENS: tables for the block, made in those of the last
\* dynamic one unless it is fixed.
TablesOf(sent) ==
  CASE sent.kind = "fixed" -> FixedTables
    [] sent.kind = "dynamic" -> ReadTables(sent.trees, 0, tables)
    [] sent.kind = "stored" -> [bad |-> FALSE, p |-> 0]

ReadBlock ==
  /\ block.step = "sent"
  /\ block' = [block EXCEPT !.step = "read"] @@ [read |-> TablesOf(block.sent)]
  /\ tables' = IF block.sent.kind = "dynamic"
                 THEN [len |-> block'.read.len, dist |-> block'.read.dist] ELSE tables
  /\ UNCHANGED <<ltree, dtree, bltree, blocks>>

Next ==
  \/ \E bag \in Bags : Tally(bag)
  \/ \E old \in BOOLEAN : FlushBlock(old)
  \/ ReadBlock

Spec == Init /\ [][Next]_vars

-----------------------------------------------------------------------------
(***************************************************************************)
(* Properties.                                                             *)
(***************************************************************************)
\* Type invariant: the trees, which but for a block under way have counted nothing,
\* the tables and the block.
TypeOK ==
  /\ DOMAIN ltree = 0 .. 2 * L_CODES /\ DOMAIN dtree = 0 .. 2 * D_CODES
  /\ DOMAIN bltree = 0 .. 2 * BL_CODES
  /\ \A t \in {ltree, dtree, bltree} : \A n \in DOMAIN t : t[n].fc \in Nat /\ t[n].dl \in Nat
  /\ block.step # "tallied" =>
       /\ \A n \in 0 .. L_CODES - 1 : ltree[n].fc = (IF n = END_BLOCK THEN 1 ELSE 0)
       /\ \A n \in 0 .. D_CODES - 1 : dtree[n].fc = 0
  /\ block.step \in {"none", "tallied", "sent", "read"}
  /\ DOMAIN tables.len.table = 0 .. EnoughLens - 1
  /\ DOMAIN tables.dist.table = 0 .. EnoughDists - 1
  /\ blocks \in 0 .. MaxBlocks

Read == block.step = "read" /\ block.sent.kind # "stored"
IsSent == block.step \in {"sent", "read"}

\* The token whose bits are coded, followed by any bits, is read as token and no
\* further than its own bits.
IsReadAs(coded, token) ==
  \A next \in {0, 1} :
    \A r \in {ReadToken(block.read, coded \o [i \in 1 .. MAX_BITS |-> next], 0)} :
      /\ r.p = Len(coded) /\ r.kind = token.kind
      /\ token.kind = "literal" => r.lit = token.lit
      /\ token.kind = "match" => r.len = token.len /\ r.dist = token.dist

\* inflate makes of what _tr_flush_block sends the tables with which every token of
\* the block, and its end, is read back as it was tallied.  The description of the
\* trees is read to its last bit, with whatever blocks came before: what an earlier
\* block left in the trees of deflate or the tables of inflate does no harm.
TokensReadBack ==
  Read =>
    /\ ~block.read.bad /\ block.read.p = Len(block.sent.trees)
    /\ \A t \in DOMAIN block.tokens : IsReadAs(block.sent.tokens[t], t)
    /\ IsReadAs(block.sent.end, [kind |-> "end"])

\* The code lengths that build_tree and gen_bitlen give to counted symbols form a
\* complete code within the limit, and no symbol counted more often than another
\* has a longer code, the limit cut the tree off or not.
CompleteCode(b, counted, elems, max) ==
  LET coded == {n \in 0 .. elems - 1 : b.tree[n].dl # 0}
  IN  /\ {n \in 0 .. elems - 1 : counted[n].fc # 0} \subseteq coded
      /\ \A n \in coded : n <= b.max_code \/ b.max_code < 0
      /\ \A n \in coded : b.tree[n].dl <= max
      /\ MapThenSumSet(LAMBDA n : 2 ^ (max - b.tree[n].dl), coded) = 2 ^ max
      /\ \A m, n \in coded :
           counted[m].fc > counted[n].fc => b.tree[m].dl <= b.tree[n].dl

LengthsComplete ==
  IsSent => /\ CompleteCode(block.l, block.counted.l, L_CODES, MAX_BITS)
          /\ CompleteCode(block.d, block.counted.d, D_CODES, MAX_BITS)
          /\ CompleteCode([block.bl EXCEPT !.max_code = BL_CODES - 1],
                          block.counted.bl, BL_CODES, MAX_BL_BITS)

\* Bits of a block's tokens and its end with the given trees.
BitsOfTokens(l, d) ==
  MapThenSumSet(LAMBDA t : block.tokens[t] * Len(TokenBits(l, d, t)), DOMAIN block.tokens)
    + Len(SendCode(l, END_BLOCK))

\* The sums opt_len and static_len, kept along while the trees are built and by
\* which the kind of block is chosen, are the bits that would be sent.
SumsExact ==
  IsSent =>
    /\ block.bl.opt_len = Len(SendAllTrees(Guarded(block.l), Guarded(block.d), block.bl))
                            + BitsOfTokens(block.l.tree, block.d.tree)
    /\ block.bl.static_len = BitsOfTokens(StaticLTree, StaticDTree)
=============================================================================
