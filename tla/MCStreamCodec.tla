--------------------------- MODULE MCStreamCodec ----------------------------
(***************************************************************************)
(* Instances of StreamCodec for TLC: limbs of 2, 2 and 1 bits, so that the *)
(* longs are -16 .. 15; "lo" and "other" are ASCII, "ue" has a char of two *)
(* bytes, "empty" has none.                                                *)
(***************************************************************************)
EXTENDS StreamCodec

CharsOf ==
  [t \in Texts |-> CASE t = "empty" -> 0 [] t = "ue" -> 1 [] t = "lo" -> 2
                     [] t = "other" -> 5]
BytesInUtf8 == [t \in Texts |-> IF t = "ue" THEN 2 ELSE CharsOf[t]]

MixedValues ==
  {Int32(3), Float32("f"), Float32("g"),
   [kind |-> "long", v |-> -16], [kind |-> "long", v |-> -3],
   [kind |-> "long", v |-> 6]}
    \cup [kind : {"string"}, v : Texts]
=============================================================================
