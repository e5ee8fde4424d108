-------------------------- MODULE MCDeflateStream ---------------------------
(***************************************************************************)
(* An instance of DeflateStream for TLC: a window of 16 bytes that slides  *)
(* once or twice, matches of up to 5 bytes, at most 11 tokens to a block,  *)
(* and texts that repeat themselves at distances in reach and out of it.   *)
(***************************************************************************)
EXTENDS DeflateStream

\* Repeats at distances of three, four and one; and some out of reach, or longer than
\* what follows is worth.
Cycles == <<1, 2, 3, 1, 2, 3, 1, 2, 3, 4, 1, 2, 3, 4, 0, 0, 0, 0, 0, 0, 0, 0, 0, 0, 5, 2, 3, 4, 1, 2, 3, 5>>
Mix == <<5, 1, 2, 7, 5, 1, 2, 7, 3, 1, 2, 7, 4, 6, 0, 5, 1, 2, 0, 0, 2, 5, 1, 2, 7, 6, 4, 6, 0, 5, 1, 2, 5, 1>>

MCTexts == <<Cycles, Mix>>

Row(func, good, lazy, nice, chain, filtered) ==
  [func |-> func, good_length |-> good, max_lazy |-> lazy, nice_length |-> nice, max_chain |-> chain,
   filtered |-> filtered]
MCConfigs ==
  {Row("stored", 0, 0, 0, 0, FALSE), Row("fast", 4, 4, 5, 4, FALSE),
   Row("slow", 4, 4, 5, 4, FALSE), Row("slow", 4, 5, 4, 4, TRUE), Row("rle", 4, 4, 5, 4, FALSE),
   Row("huff", 4, 4, 5, 4, FALSE)}

Code(literal, match, trees) == [literal |-> literal, match |-> match, trees |-> trees]
MCCodes == {Code(8, 12, 0), Code(15, 16, 0)}

\* Matches and nothing else, of 24 bits each, as the code has them when they are far away
\* (13 bits besides the code of the distance) and their lengths differ (up to 5 more).
MatchesOnly == <<[i \in 1 .. 100 |-> i % 4]>>
LongCodes == {Code(15, 24, 0)}
=============================================================================
