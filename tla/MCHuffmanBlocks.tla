-------------------------- MODULE MCHuffmanBlocks ---------------------------
(***************************************************************************)
(* An instance of HuffmanBlocks for TLC: 7 literals, 4 length codes and 14 *)
(* distance codes, codes of at most 4 bits (of lengths: 3), so that skewed *)
(* frequencies overflow every limit.                                       *)
(***************************************************************************)
EXTENDS HuffmanBlocks

From0(seq) == [n \in 0 .. Len(seq) - 1 |-> seq[n + 1]]

MCExtraLBits == From0(<<0, 0, 1, 0>>)
MCLBase == From0(<<3, 4, 5, 6>>)
MCExtraDBits == From0(<<0, 0, 0, 0, 1, 1, 2, 2, 3, 3, 4, 4, 5, 5>>)
MCDBase == From0(<<1, 2, 3, 4, 5, 7, 9, 13, 17, 25, 33, 49, 65, 97>>)
MCBlOrder == From0(<<5, 6, 7, 0, 3, 2, 4, 1>>)
MCStaticLLen == [n \in 0 .. 13 |-> IF n \in {7, 8} THEN 3 ELSE 4]

\* Bags of literals 0, 1, ... and of matches with the nth distance, by counts.
Positive(f) == [t \in {u \in DOMAIN f : f[u] # 0} |-> f[t]]
Lits(counts) ==
  Positive([t \in {LitToken(c) : c \in 0 .. Len(counts) - 1} |-> counts[t.lit + 1]])
Far(n) == MCDBase[n] + 2 ^ MCExtraDBits[n] - 1
Matches(counts) ==
  Positive([t \in {Match(3 + (n % 4), Far(n)) : n \in 0 .. Len(counts) - 1} |->
              LET n == CHOOSE k \in 0 .. Len(counts) - 1 : t.dist = Far(k) IN counts[n + 1]])

LitCounts ==
  {<<>>, <<0, 30>>, <<1, 1, 2, 3, 5, 8, 13>>, <<13, 8, 5, 3, 2, 1, 1>>, <<9, 9, 9, 9, 9, 9, 9>>,
   <<0, 0, 0, 0, 0, 20, 1>>, <<40, 0, 0, 1, 0, 0, 2>>}
DistCounts ==
  {<<>>, <<1>>, <<1, 1, 2, 3, 5, 8, 13, 21>>, <<21, 0, 8, 5, 0, 3, 2, 1, 1>>,
   <<7, 0, 0, 0, 0, 0, 0, 0, 0, 0, 0, 0, 0, 7>>, <<2, 0, 0, 0, 0, 0, 7>>, <<4, 4, 4, 4, 4, 4, 4, 4, 4, 4, 4, 4, 4, 4>>}
MCBags == {Lits(l) @@ Matches(d) : l \in LitCounts, d \in DistCounts}
=============================================================================
