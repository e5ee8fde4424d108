----------------------------- MODULE LongLimbs ------------------------------
(***************************************************************************)
(* How StreamWriter and StreamReader carry a long, which JavaScript does   *)
(* not have: as three ints of 22, 22 and 20 bits.                          *)
(***************************************************************************)
EXTENDS Integers

CONSTANTS
  Limb,                 \* MASK + 1, the values of a low limb (the code: 2^22)
  Top                   \* MASK_2 + 1, the values of the high limb (2^20)

ASSUME LimbAssumption ==
  /\ Limb \in Nat \ {0}
  /\ Top \in Nat \ {0} /\ Top % 2 = 0

Half == Limb * Limb * (Top \div 2)
Longs == -Half .. Half - 1

\* Java's & and >> on a negative long are % and \div here, which round down.
ToLimbs(l) ==
  << l % Limb, (l \div Limb) % Limb, (l \div (Limb * Limb)) % Top >>

\* The shift of the high limb and the sum wrap as a signed long does.
FromLimbs(a) ==
  LET sum == a[1] + a[2] * Limb + a[3] * Limb * Limb
  IN  IF sum < Half THEN sum ELSE sum - 2 * Half

\* What readLong asserts of the three ints it reads.
InLimbs(a) == a[1] \in 0 .. Limb - 1 /\ a[2] \in 0 .. Limb - 1 /\ a[3] \in 0 .. Top - 1

\* Every long, negative ones and those at a limb's boundary included, is carried
\* by three ints in their ranges and read back as it was.
LongsSurvive == \A l \in Longs : InLimbs(ToLimbs(l)) /\ FromLimbs(ToLimbs(l)) = l
=============================================================================
