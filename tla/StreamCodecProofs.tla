------------------------- MODULE StreamCodecProofs --------------------------
(***************************************************************************)
(* Proofs about StreamCodec.                                               *)
(***************************************************************************)
EXTENDS StreamCodec, FoldFacts, TLAPS

-----------------------------------------------------------------------------
(***************************************************************************)
(* Three limbs carry every long, whatever the widths of the limbs.         *)
(***************************************************************************)
\* What \div and % mean.
LEMMA Division ==
  ASSUME NEW n \in Int, NEW d \in Nat \ {0}
  PROVE  /\ n \div d \in Int
         /\ n % d \in 0 .. d - 1
         /\ n = d * (n \div d) + (n % d)
  BY SMT

\* Multiples of d that are less than d apart are equal.
LEMMA Multiples ==
  ASSUME NEW d \in Nat \ {0}, NEW p \in Int, NEW q \in Int,
         d * p - d * q < d, d * q - d * p < d
  PROVE  p = q
  <1>1. ASSUME p < q PROVE FALSE
    <2>1. PICK k \in Nat : q = p + 1 + k
      <3>1. q - p - 1 \in Nat
        BY <1>1
      <3> QED
        BY <3>1
    <2>2. d * q = d * p + d + d * k
      BY <2>1
    <2>3. d * k >= 0
      BY SMT
    <2> QED
      BY <2>2, <2>3
  <1>2. ASSUME q < p PROVE FALSE
    <2>1. PICK k \in Nat : p = q + 1 + k
      <3>1. p - q - 1 \in Nat
        BY <1>2
      <3> QED
        BY <3>1
    <2>2. d * p = d * q + d + d * k
      BY <2>1
    <2>3. d * k >= 0
      BY SMT
    <2> QED
      BY <2>2, <2>3
  <1> QED
    BY <1>1, <1>2

\* Quotient and remainder are the only ones.
LEMMA DivisionUnique ==
  ASSUME NEW d \in Nat \ {0}, NEW q \in Int, NEW r \in 0 .. d - 1
  PROVE  (d * q + r) \div d = q /\ (d * q + r) % d = r
  <1> DEFINE n == d * q + r
             p == n \div d
             t == n % d
  <1>1. n \in Int /\ d * q \in Int
    OBVIOUS
  <1>2. p \in Int /\ t \in 0 .. d - 1 /\ n = d * p + t
    BY <1>1, Division
  <1>3. d * p \in Int /\ d * p + t = d * q + r
    BY <1>2
  <1>4. d * p - d * q < d /\ d * q - d * p < d
    <2> HIDE DEF n, p, t
    <2> DEFINE x == d * p
               y == d * q
    <2>1. x \in Int /\ y \in Int /\ x + t = y + r
      BY <1>1, <1>3
    <2>2. t \in 0 .. d - 1
      BY <1>2
    <2> HIDE DEF x, y
    <2>3. x - y < d /\ y - x < d
      BY <2>1, <2>2
    <2> QED
      BY <2>3 DEF x, y
  <1>5. p = q
    BY <1>2, <1>4, Multiples
  <1>6. t = r
    <2>1. d * q + t = d * q + r
      BY <1>3, <1>5
    <2> HIDE DEF n, p, t
    <2> QED
      BY <1>1, <1>2, <2>1
  <1> QED
    BY <1>5, <1>6

\* A multiple of d that is smaller is a smaller multiple.
LEMMA Smaller ==
  ASSUME NEW d \in Nat \ {0}, NEW p \in Int, NEW q \in Int, d * p < d * q
  PROVE  p < q
  <1> SUFFICES ASSUME q <= p PROVE FALSE
    OBVIOUS
  <1>1. PICK k \in Nat : p = q + k
    <2>1. p - q \in Nat
      OBVIOUS
    <2> QED
      BY <2>1
  <1>2. d * p = d * q + d * k
    BY <1>1
  <1>3. d * k >= 0
    BY SMT
  <1> QED
    BY <1>2, <1>3

\* The high limb of a long, before it is masked: a shift by two limbs is two
\* shifts by one, and what is left has half as many values on each side of 0.
LEMMA HighLimb ==
  ASSUME NEW l \in Longs
  PROVE  LET q == l \div Limb
             r == l \div (Limb * Limb)
             h == Top \div 2
         IN  /\ q \in Int /\ r \in Int /\ h \in Nat /\ Top = 2 * h
             /\ l % Limb \in 0 .. Limb - 1 /\ q % Limb \in 0 .. Limb - 1
             /\ l = (l % Limb) + (q % Limb) * Limb + r * Limb * Limb
             /\ Half = Limb * Limb * h
             /\ -h <= r /\ r < h
  <1> DEFINE q == l \div Limb
             a == l % Limb
             r == q \div Limb
             b == q % Limb
             h == Top \div 2
             d == Limb * Limb
             low == Limb * b + a
  <1>1. Limb \in Nat \ {0} /\ Top \in Nat \ {0} /\ Top % 2 = 0
    BY LimbAssumption
  <1>2. h \in Nat /\ Top = 2 * h
    BY <1>1
  <1>3. d \in Nat \ {0}
    BY <1>1
  <1>4. Half = d * h /\ Half \in Int
    BY <1>2, <1>3 DEF Half
  <1>5. l \in Int /\ -Half <= l /\ l < Half
    BY <1>4 DEF Longs
  <1>6. q \in Int /\ a \in 0 .. Limb - 1 /\ l = Limb * q + a
    BY <1>1, <1>5, Division
  <1>7. r \in Int /\ b \in 0 .. Limb - 1 /\ q = Limb * r + b
    BY <1>1, <1>6, Division
  <1> HIDE DEF q, a, r, b, h, d
  <1>8. low \in 0 .. d - 1
    <2> DEFINE k == Limb - b - 1
    <2>1. k \in Nat /\ Limb = b + 1 + k
      BY <1>1, <1>7
    <2> HIDE DEF k
    <2>2. d = Limb * b + Limb + Limb * k
      BY <1>1, <1>7, <2>1 DEF d
    <2>3. Limb * k >= 0 /\ Limb * b >= 0
      BY <1>1, <1>7, <2>1
    <2> QED
      BY <1>1, <1>6, <1>7, <2>1, <2>2, <2>3
  <1>9. l = d * r + low
    BY <1>1, <1>6, <1>7 DEF d
  <1>10. l \div d = r
    BY <1>3, <1>7, <1>8, <1>9, DivisionUnique
  <1>11. r < h
    <2>1. d * r < d * h
      <3> DEFINE x == d * r
                 y == d * h
      <3>1. x \in Int /\ y \in Int /\ l = x + low /\ l < y
        BY <1>2, <1>3, <1>4, <1>5, <1>7, <1>9
      <3> HIDE DEF x, y, low
      <3>2. x < y
        BY <1>8, <3>1, <1>3
      <3> QED
        BY <3>2 DEF x, y
    <2> QED
      BY <1>2, <1>3, <1>7, <2>1, Smaller
  <1>12. -h <= r
    <2>1. d * (-h) < d * (r + 1)
      <3> DEFINE x == d * r
                 y == d * h
      <3>1. x \in Int /\ y \in Int /\ l = x + low /\ -y <= l
        BY <1>2, <1>3, <1>4, <1>5, <1>7, <1>9
      <3>2. d * (-h) = -y /\ d * (r + 1) = x + d
        BY <1>2, <1>3, <1>7
      <3> HIDE DEF x, y, low
      <3>3. -y < x + d
        BY <1>3, <1>8, <3>1
      <3> QED
        BY <3>2, <3>3
    <2>2. -h < r + 1
      BY <1>2, <1>3, <1>7, <2>1, Smaller
    <2> QED
      BY <1>2, <1>7, <2>2
  <1>13. l = a + b * Limb + r * Limb * Limb
    BY <1>1, <1>6, <1>7
  <1> QED
    BY <1>2, <1>4, <1>6, <1>7, <1>10, <1>11, <1>12, <1>13 DEF q, a, b, d, h

\* Whatever the widths of the limbs, what writeLong writes is in the ranges that
\* readLong asserts, and readLong gets the long back, whatever its sign.
THEOREM LimbsCarryLongs == LongsSurvive
  <1> SUFFICES ASSUME NEW l \in Longs
               PROVE  InLimbs(ToLimbs(l)) /\ FromLimbs(ToLimbs(l)) = l
    BY DEF LongsSurvive
  <1> DEFINE a == l % Limb
             b == (l \div Limb) % Limb
             r == l \div (Limb * Limb)
             h == Top \div 2
             c == r % Top
             d == Limb * Limb
             sum == a + b * Limb + c * Limb * Limb
  <1>1. Limb \in Nat \ {0} /\ Top \in Nat \ {0}
    BY LimbAssumption
  <1>2. /\ a \in 0 .. Limb - 1 /\ b \in 0 .. Limb - 1 /\ r \in Int
        /\ h \in Nat /\ Top = 2 * h /\ Half = Limb * Limb * h
        /\ l = a + b * Limb + r * Limb * Limb
        /\ -h <= r /\ r < h
    BY HighLimb
  <1>3. ToLimbs(l) = <<a, b, c>>
    BY DEF ToLimbs
  <1>4. d \in Nat \ {0} /\ Half \in Int /\ Half = d * h /\ l \in Int
    BY <1>1, <1>2 DEF Longs
  <1>5. -Half <= l /\ l < Half
    BY <1>4 DEF Longs
  <1> HIDE DEF a, b, r, h, c, d
  <1>6. c \in 0 .. Top - 1 /\ (c = r \/ c = r + Top)
    <2>1. CASE r >= 0
      <3>1. r \in 0 .. Top - 1 /\ r = Top * 0 + r
        BY <1>1, <1>2, <2>1
      <3>2. c = r
        BY <1>1, <3>1, DivisionUnique DEF c
      <3> QED
        BY <3>1, <3>2
    <2>2. CASE r < 0
      <3>1. r + Top \in 0 .. Top - 1 /\ r = Top * (-1) + (r + Top)
        BY <1>1, <1>2, <2>2
      <3>2. \A q \in Int : \A t \in 0 .. Top - 1 : (Top * q + t) % Top = t
        BY <1>1, DivisionUnique
      <3>3. c = r + Top
        <4>1. -1 \in Int
          OBVIOUS
        <4>2. (Top * (-1) + (r + Top)) % Top = r + Top
          BY <3>1, <3>2, <4>1
        <4> QED
          BY <3>1, <4>2 DEF c
      <3> QED
        BY <3>1, <3>3
    <2> QED
      BY <1>2, <2>1, <2>2
  <1>7. InLimbs(ToLimbs(l))
    BY <1>2, <1>3, <1>6 DEF InLimbs
  <1>8. FromLimbs(ToLimbs(l)) = IF sum < Half THEN sum ELSE sum - 2 * Half
    BY <1>3 DEF FromLimbs
  <1>9. CASE c = r
    <2>1. sum = l
      BY <1>2, <1>9
    <2> QED
      BY <1>5, <1>7, <1>8, <2>1
  <1>10. CASE c = r + Top
    <2>1. sum = l + Top * Limb * Limb
      BY <1>1, <1>2, <1>10
    <2>2. Top * Limb * Limb = 2 * Half
      BY <1>1, <1>2
    <2>3. sum = l + 2 * Half
      BY <2>1, <2>2
    <2> HIDE DEF sum
    <2>4. ~(sum < Half) /\ sum - 2 * Half = l
      BY <1>4, <1>5, <2>3
    <2> QED
      BY <1>7, <1>8, <2>4
  <1> QED
    BY <1>6, <1>9, <1>10

-----------------------------------------------------------------------------
(***************************************************************************)
(* What StreamWriter puts into its buffer, and StreamReader finds there.   *)
(***************************************************************************)
Cell == {Int32(i) : i \in Int} \cup {Float32(v.v) : v \in Values}

Buffer == {b \in [words : Seq(Cell), position : Nat] :
             Len(b.words) >= 1 /\ b.position <= Len(b.words)}

Size(kind) == IF kind = "long" THEN 3 ELSE 1

LEMMA IntCells ==
  \A i \in Int : Int32(i) \in Cell /\ Int32(i).v = i /\ Int32(i).kind = "int"
  BY DEF Cell, Int32

LEMMA CellsAreOK ==
  \A c \in Cell : CellOK(c)
  BY DEF Cell, Int32, Float32, CellOK

(***************************************************************************)
(* Writing words.                                                          *)
(***************************************************************************)
LEMMA GrownBuffer ==
  ASSUME NEW b \in Buffer
  PROVE  /\ MaybeGrow(b).words \in Seq(Cell) /\ MaybeGrow(b).position = b.position
         /\ Len(MaybeGrow(b).words) \in Nat /\ Len(b.words) \in Nat
         /\ Len(MaybeGrow(b).words) >= Len(b.words)
         /\ b.position < Len(MaybeGrow(b).words)
         /\ \A i \in 1 .. b.position : MaybeGrow(b).words[i] = b.words[i]
  <1>1. PICK s \in Seq(Cell), p \in Nat : b = [words |-> s, position |-> p]
    BY DEF Buffer
  <1>2. s = b.words /\ p = b.position /\ Len(s) \in Nat /\ Len(s) >= 1 /\ p <= Len(s)
    BY <1>1, LenProperties DEF Buffer
  <1>3. CASE p < Len(s)
    BY <1>1, <1>2, <1>3 DEF MaybeGrow
  <1>4. CASE ~(p < Len(s))
    <2> DEFINE zeros == [i \in 1 .. Len(s) |-> Zero]
    <2>1. zeros \in Seq(Cell) /\ Len(zeros) = Len(s)
      <3>1. Zero \in Cell
        BY IntCells DEF Zero
      <3> QED
        BY <1>2, <3>1, IsASeq
    <2> HIDE DEF zeros
    <2>2. /\ s \o zeros \in Seq(Cell) /\ Len(s \o zeros) = Len(s) + Len(zeros)
          /\ \A i \in 1 .. Len(s) + Len(zeros) :
               (s \o zeros)[i] = IF i <= Len(s) THEN s[i] ELSE zeros[i - Len(s)]
      BY <2>1, ConcatProperties
    <2>3. MaybeGrow(b) = [b EXCEPT !.words = s \o zeros]
      BY <1>2, <1>4 DEF MaybeGrow, zeros
    <2>4. MaybeGrow(b).words = s \o zeros /\ MaybeGrow(b).position = p
      BY <1>1, <2>3
    <2>5. \A i \in 1 .. p : (s \o zeros)[i] = s[i]
      BY <1>2, <2>1, <2>2
    <2> QED
      BY <1>2, <1>4, <2>1, <2>2, <2>4, <2>5
  <1> QED
    BY <1>3, <1>4

\* A word is put behind the others, which stay as they were.
LEMMA PutFacts ==
  ASSUME NEW b \in Buffer, NEW c \in Cell
  PROVE  /\ Put(b, c) \in Buffer
         /\ Put(b, c).position = b.position + 1
         /\ Len(Put(b, c).words) >= Len(b.words)
         /\ \A i \in 1 .. b.position : Put(b, c).words[i] = b.words[i]
         /\ Put(b, c).words[b.position + 1] = c
  <1>1. PICK s \in Seq(Cell), p \in Nat : s = MaybeGrow(b).words /\ p = b.position
    BY GrownBuffer DEF Buffer
  <1>2. /\ s \in Seq(Cell) /\ MaybeGrow(b).position = p /\ Len(s) \in Nat
        /\ Len(b.words) \in Nat /\ Len(s) >= Len(b.words) /\ Len(b.words) >= 1 /\ p < Len(s)
        /\ \A i \in 1 .. p : s[i] = b.words[i]
    BY <1>1, GrownBuffer DEF Buffer
  <1> DEFINE t == [s EXCEPT ![p + 1] = c]
  <1>3. Put(b, c) = [words |-> t, position |-> p + 1]
    BY <1>1, <1>2 DEF Put
  <1>4. /\ t \in Seq(Cell) /\ Len(t) = Len(s)
        /\ \A i \in 1 .. Len(s) : t[i] = IF i = p + 1 THEN c ELSE s[i]
    BY <1>2, ExceptSeq
  <1> HIDE DEF t
  <1>5. Put(b, c) \in Buffer
    BY <1>2, <1>3, <1>4 DEF Buffer
  <1>6. \A i \in 1 .. p : t[i] = b.words[i]
    BY <1>2, <1>4
  <1>7. t[p + 1] = c
    BY <1>2, <1>4
  <1> QED
    BY <1>1, <1>2, <1>3, <1>4, <1>5, <1>6, <1>7

PutOn == [b \in Buffer |-> [c \in Cell |-> Put(b, c)]]

LEMMA PutActs == Acts(PutOn, Buffer, Cell)
  BY PutFacts DEF PutOn, Acts

LEMMA PutAllIsFinal ==
  ASSUME NEW b \in Buffer, NEW cells \in Seq(Cell)
  PROVE  PutAll(b, cells) = Final(PutOn, Buffer, b, cells)
  <1> DEFINE Next1(h, s) == IF s = {} THEN b ELSE Put(h[s \ {Max(s)}], cells[Max(s)])
  <1>1. PICK n \in Nat : /\ n = Len(cells) /\ DOMAIN cells = 1 .. n
                        /\ \A i \in 1 .. n : cells[i] \in Cell
    BY LenProperties, ElementOfSeq
  <1>2. ASSUME NEW s \in SUBSET (1 .. n), s # {}
        PROVE  Max(s) \in 1 .. n /\ s \ {Max(s)} \in SUBSET (1 .. n)
    BY <1>1, <1>2, MaxInUpTo
  <1>3. PICK h \in [SUBSET (1 .. n) -> Buffer] : FoldsTo(PutOn, b, cells, n, h)
    BY <1>1, PutActs, FoldExists
  <1>4. h = [s \in SUBSET (1 .. n) |-> Next1(h, s)]
    <2>1. ASSUME NEW s \in SUBSET (1 .. n) PROVE h[s] = Next1(h, s)
      BY <1>1, <1>2, <1>3 DEF FoldsTo, PutOn
    <2> QED
      BY <1>3, <2>1
  <1>5. PICK g : g = [s \in SUBSET (1 .. n) |-> Next1(g, s)] /\ PutAll(b, cells) = g[1 .. n]
    BY <1>1, <1>4 DEF PutAll, FoldLeft, MapThenFoldSet
  <1>6. g[{}] = b
    BY <1>5
  <1>7. ASSUME NEW s \in SUBSET (1 .. n), s # {}, g[s \ {Max(s)}] \in Buffer
        PROVE  g[s] = PutOn[g[s \ {Max(s)}]][cells[Max(s)]]
    BY <1>1, <1>2, <1>5, <1>7 DEF PutOn
  <1>8. FoldsIn(PutOn, Buffer, b, cells, Len(cells), g)
    BY <1>1, <1>6, <1>7 DEF FoldsIn
  <1>9. g[1 .. Len(cells)] = Final(PutOn, Buffer, b, cells)
    BY <1>8, PutActs, FoldIsFinal
  <1> QED
    BY <1>1, <1>5, <1>9

\* The words are put one behind the other; what was there stays.
LEMMA PutAllFacts ==
  ASSUME NEW b \in Buffer, NEW cells \in Seq(Cell)
  PROVE  /\ PutAll(b, cells) \in Buffer
         /\ PutAll(b, cells).position = b.position + Len(cells)
         /\ Len(PutAll(b, cells).words) >= Len(b.words)
         /\ \A i \in 1 .. b.position : PutAll(b, cells).words[i] = b.words[i]
         /\ \A k \in 1 .. Len(cells) : PutAll(b, cells).words[b.position + k] = cells[k]
  <1>1. PICK n \in Nat : n = Len(cells) /\ \A i \in 1 .. n : cells[i] \in Cell
    BY LenProperties, ElementOfSeq
  <1>2. PICK c : /\ IsRun(PutOn, Buffer, b, cells, n, c)
                 /\ Final(PutOn, Buffer, b, cells) = c[n]
    BY <1>1, PutActs, FinalIsLast
  <1>3. c \in [0 .. n -> Buffer] /\ c[0] = b
    BY <1>2 DEF IsRun
  <1>4. \A k \in 1 .. n : c[k] = Put(c[k - 1], cells[k])
    <2>1. ASSUME NEW k \in 1 .. n PROVE c[k] = Put(c[k - 1], cells[k])
      <3>1. c[k] = PutOn[c[k - 1]][cells[k]]
        BY <1>2 DEF IsRun
      <3>2. c[k - 1] \in Buffer /\ cells[k] \in Cell
        BY <1>1, <1>3
      <3> QED
        BY <3>1, <3>2 DEF PutOn
    <2> QED
      BY <2>1
  <1> DEFINE After(k) ==
               /\ c[k].position = b.position + k
               /\ Len(c[k].words) >= Len(b.words)
               /\ \A i \in 1 .. b.position : c[k].words[i] = b.words[i]
               /\ \A j \in 1 .. k : c[k].words[b.position + j] = cells[j]
             T == {k \in 0 .. n : After(k)}
  <1>5. b.position \in Nat /\ Len(b.words) \in Nat
    BY LenProperties DEF Buffer
  <1>6. 0 \in T
    BY <1>3, <1>5
  <1>7. ASSUME NEW k \in 0 .. n - 1, k \in T PROVE k + 1 \in T
    <2>1. k + 1 \in 1 .. n /\ (k + 1) - 1 = k /\ k \in 0 .. n
      BY <1>1
    <2>2. PICK d \in Buffer, e \in Cell : d = c[k] /\ e = cells[k + 1] /\ c[k + 1] = Put(d, e)
      BY <1>1, <1>3, <1>4, <2>1
    <2>3. /\ Put(d, e).position = d.position + 1
          /\ Len(Put(d, e).words) >= Len(d.words)
          /\ \A i \in 1 .. d.position : Put(d, e).words[i] = d.words[i]
          /\ Put(d, e).words[d.position + 1] = e
          /\ Put(d, e) \in Buffer
      BY PutFacts
    <2>4. /\ Len(d.words) \in Nat /\ Len(Put(d, e).words) \in Nat
      BY <2>3, LenProperties DEF Buffer
    <2>5. /\ d.position = b.position + k
          /\ Len(d.words) >= Len(b.words)
          /\ \A i \in 1 .. b.position : d.words[i] = b.words[i]
          /\ \A j \in 1 .. k : d.words[b.position + j] = cells[j]
      BY <1>7, <2>2
    <2>6. d.position + 1 = b.position + (k + 1)
      <3>1. \A p \in Nat, i \in Nat : (p + i) + 1 = p + (i + 1)
        OBVIOUS
      <3>2. k \in Nat
        BY <1>1
      <3> QED
        BY <1>5, <2>5, <3>1, <3>2
    <2>7. Len(Put(d, e).words) >= Len(b.words)
      BY <1>5, <2>3, <2>4, <2>5
    <2>8. \A i \in 1 .. b.position : Put(d, e).words[i] = b.words[i]
      BY <1>5, <2>3, <2>5
    <2>9. ASSUME NEW j \in 1 .. k + 1 PROVE Put(d, e).words[b.position + j] = cells[j]
      <3>1. CASE j \in 1 .. k
        <4>1. b.position + j \in 1 .. d.position
          BY <1>5, <2>5, <3>1
        <4> QED
          BY <2>3, <2>5, <3>1, <4>1
      <3>2. CASE j = k + 1
        <4>1. b.position + j = d.position + 1
          BY <2>6, <3>2
        <4> QED
          BY <2>2, <2>3, <3>2, <4>1
      <3> QED
        BY <3>1, <3>2
    <2>10. After(k + 1)
      BY <2>2, <2>3, <2>6, <2>7, <2>8, <2>9
    <2> QED
      BY <2>1, <2>10
  <1> HIDE DEF T
  <1>8. 0 .. n \subseteq T
    BY <1>1, <1>6, <1>7, InductionUpTo
  <1>9. n \in T
    BY <1>8
  <1>10. PutAll(b, cells) = c[n] /\ c[n] \in Buffer
    BY <1>2, <1>3, PutAllIsFinal
  <1> QED
    BY <1>1, <1>9, <1>10 DEF T

(***************************************************************************)
(* The words of a value.                                                   *)
(***************************************************************************)
ValueHeld(v, w, o, strings) ==
  /\ v.kind \in {"int", "float"} => w[o + 1] = v
  /\ v.kind = "long" => \A k \in 1 .. 3 : w[o + k] = Int32(ToLimbs(v.v)[k])
  /\ v.kind = "string" =>
       \E i \in 1 .. Len(strings) : strings[i] = v.v /\ w[o + 1] = Int32(i)

LEMMA ValueKinds ==
  ASSUME NEW v \in Values
  PROVE  \/ v.kind = "int" /\ v = Int32(v.v) /\ v.v \in Int
         \/ v.kind = "long" /\ v = [kind |-> "long", v |-> v.v] /\ v.v \in Longs
         \/ v.kind = "float" /\ v = Float32(v.v)
         \/ v.kind = "string" /\ v = [kind |-> "string", v |-> v.v] /\ v.v \in Texts
  BY StreamAssumption DEF Int32, Float32

LEMMA TableWithFacts ==
  ASSUME NEW t \in Texts, table \in Seq(Texts)
  PROVE  /\ TableWith(t) \in Seq(Texts)
         /\ Len(TableWith(t)) >= Len(table) /\ Len(TableWith(t)) \in Nat /\ Len(table) \in Nat
         /\ \A i \in 1 .. Len(table) : TableWith(t)[i] = table[i]
         /\ IndexIn(TableWith(t), t) \in 1 .. Len(TableWith(t))
         /\ TableWith(t)[IndexIn(TableWith(t), t)] = t
  <1>1. Len(table) \in Nat /\ DOMAIN table = 1 .. Len(table)
    BY LenProperties
  <1>2. /\ TableWith(t) \in Seq(Texts) /\ Len(TableWith(t)) >= Len(table)
        /\ \A i \in 1 .. Len(table) : TableWith(t)[i] = table[i]
        /\ \E i \in 1 .. Len(TableWith(t)) : TableWith(t)[i] = t
    <2>1. CASE Contains(table, t)
      BY <1>1, <2>1 DEF TableWith, Contains
    <2>2. CASE ~Contains(table, t)
      <3>1. TableWith(t) = Append(table, t)
        BY <2>2 DEF TableWith
      <3>2. /\ Append(table, t) \in Seq(Texts) /\ Len(Append(table, t)) = Len(table) + 1
            /\ \A i \in 1 .. Len(table) : Append(table, t)[i] = table[i]
            /\ Append(table, t)[Len(table) + 1] = t
        BY <1>1, AppendProperties
      <3>3. Len(table) + 1 \in 1 .. Len(Append(table, t))
        BY <1>1, <3>2
      <3> QED
        BY <1>1, <3>1, <3>2, <3>3
    <2> QED
      BY <2>1, <2>2
  <1>3. DOMAIN TableWith(t) = 1 .. Len(TableWith(t)) /\ Len(TableWith(t)) \in Nat
    BY <1>2, LenProperties
  <1> QED
    BY <1>1, <1>2, <1>3 DEF IndexIn

LEMMA CellsFacts ==
  ASSUME NEW v \in Values, table \in Seq(Texts)
  PROVE  /\ Cells(v) \in Seq(Cell) /\ Len(Cells(v)) = Size(v.kind)
         /\ v.kind \in {"int", "float"} => Cells(v)[1] = v
         /\ v.kind = "long" => \A k \in 1 .. 3 : Cells(v)[k] = Int32(ToLimbs(v.v)[k])
         /\ v.kind = "string" => Cells(v)[1] = Int32(IndexIn(TableWith(v.v), v.v))
  <1>1. ASSUME NEW c \in Cell, Cells(v) = <<c>>
        PROVE  Cells(v) \in Seq(Cell) /\ Len(Cells(v)) = 1 /\ Cells(v)[1] = c
    BY <1>1
  <1>2. CASE v.kind = "int"
    <2>1. v \in Cell /\ Cells(v) = <<v>>
      BY <1>2, ValueKinds, IntCells DEF Cells
    <2> QED
      BY <1>1, <1>2, <2>1 DEF Size
  <1>3. CASE v.kind = "float"
    <2>1. v \in Cell /\ Cells(v) = <<v>>
      BY <1>3, ValueKinds DEF Cells, Cell
    <2> QED
      BY <1>1, <1>3, <2>1 DEF Size
  <1>4. CASE v.kind = "long"
    <2>1. v.v \in Int
      BY <1>4, ValueKinds, LimbAssumption DEF Longs, Half
    <2>2. \A k \in 1 .. 3 : Int32(ToLimbs(v.v)[k]) \in Cell
      BY <1>4, ValueKinds, LimbsCarryLongs, IntCells DEF LongsSurvive, InLimbs
    <2>3. Cells(v) = [k \in 1 .. 3 |-> Int32(ToLimbs(v.v)[k])]
      BY <1>4 DEF Cells
    <2>4. Cells(v) \in Seq(Cell) /\ Len(Cells(v)) = 3
      BY <2>2, <2>3, IsASeq
    <2> QED
      BY <1>4, <2>3, <2>4 DEF Size
  <1>5. CASE v.kind = "string"
    <2>1. PICK t \in Texts : t = v.v
      BY <1>5, ValueKinds
    <2>2. IndexIn(TableWith(t), t) \in Int
      <3>1. /\ IndexIn(TableWith(t), t) \in 1 .. Len(TableWith(t))
            /\ Len(TableWith(t)) \in Nat
        BY TableWithFacts
      <3> QED
        BY <3>1
    <2>3. Cells(v) = <<Int32(IndexIn(TableWith(t), t))>>
      BY <1>5, <2>1 DEF Cells
    <2> QED
      BY <1>1, <1>5, <2>1, <2>2, <2>3, IntCells DEF Size
  <1> QED
    BY <1>2, <1>3, <1>4, <1>5, ValueKinds

(***************************************************************************)
(* What was written, and where.  The words of the i-th value start behind  *)
(* the first o[i - 1] words.                                               *)
(***************************************************************************)
Placed(o) ==
  /\ o \in [0 .. Len(written) -> Nat]
  /\ o[0] = Header /\ o[Len(written)] = position
  /\ \A i \in 1 .. Len(written) : o[i] = o[i - 1] + Size(written[i].kind)
  /\ \A i \in 0 .. Len(written) :
       Header + i <= o[i] /\ o[i] + (Len(written) - i) <= position

Held(o) == \A i \in 1 .. Len(written) : ValueHeld(written[i], words, o[i - 1], table)

WriterOK ==
  /\ words \in Seq(Cell) /\ table \in Seq(Texts) /\ written \in Seq(Values)
  /\ position \in Header .. Len(words)
  /\ Len(written) <= MaxWrites

LEMMA WriterLengths ==
  ASSUME WriterOK
  PROVE  /\ Len(words) \in Nat /\ Len(table) \in Nat /\ Len(written) \in Nat
         /\ position \in Nat /\ position >= Header /\ position <= Len(words)
         /\ \A i \in 1 .. Len(written) : written[i] \in Values
         /\ \A i \in 1 .. Len(table) : table[i] \in Texts
         /\ \A i \in 1 .. Len(words) : words[i] \in Cell
  <1>1. Len(words) \in Nat /\ Len(table) \in Nat /\ Len(written) \in Nat
    BY LenProperties DEF WriterOK
  <1>2. /\ \A i \in 1 .. Len(written) : written[i] \in Values
        /\ \A i \in 1 .. Len(table) : table[i] \in Texts
        /\ \A i \in 1 .. Len(words) : words[i] \in Cell
    BY ElementOfSeq DEF WriterOK
  <1> QED
    BY <1>1, <1>2 DEF WriterOK, Header

LEMMA WriterStarts ==
  ASSUME Init
  PROVE  WriterOK /\ \E o : Placed(o) /\ Held(o)
  <1>1. words \in Seq(Cell) /\ Len(words) = InitialWords
    <2>1. Zero \in Cell
      BY IntCells DEF Zero
    <2>2. [i \in 1 .. InitialWords |-> Zero] \in Seq(Cell)
      BY <2>1, StreamAssumption, IsASeq
    <2> QED
      BY <2>2, StreamAssumption, LenProperties DEF Init
  <1>2. table = <<>> /\ written = <<>> /\ position = Header
    BY DEF Init, FirstPosition
  <1>3. Len(written) = 0 /\ table \in Seq(Texts) /\ written \in Seq(Values)
    BY <1>2, EmptySeq
  <1>4. WriterOK
    BY <1>1, <1>2, <1>3, StreamAssumption DEF WriterOK, Header
  <1> DEFINE o == [i \in {0} |-> Header]
  <1>5. Placed(o)
    <2>1. 0 .. Len(written) = {0} /\ 1 .. Len(written) = {}
      BY <1>3
    <2> QED
      BY <1>2, <1>3, <2>1 DEF Placed, Header
  <1>6. Held(o)
    BY <1>3 DEF Held
  <1> QED
    BY <1>4, <1>5, <1>6

LEMMA WriteKeeps ==
  ASSUME WriterOK, NEW o, Placed(o), Held(o), NEW v \in Values, Write(v)
  PROVE  WriterOK' /\ \E p : Placed(p)' /\ Held(p)'
  <1> DEFINE b == [words |-> words, position |-> position]
             d == PutAll(b, Cells(v))
  <1>1. b \in Buffer /\ b.position = position /\ b.words = words
    BY WriterLengths DEF WriterOK, Buffer, Header
  <1>2. Cells(v) \in Seq(Cell) /\ Len(Cells(v)) = Size(v.kind)
    BY CellsFacts DEF WriterOK
  <1>3. /\ d \in Buffer /\ d.position = position + Size(v.kind)
        /\ \A i \in 1 .. position : d.words[i] = words[i]
        /\ \A k \in 1 .. Size(v.kind) : d.words[position + k] = Cells(v)[k]
    <2>1. PICK a \in Buffer, cells \in Seq(Cell) : a = b /\ cells = Cells(v)
      BY <1>1, <1>2
    <2>2. /\ PutAll(a, cells) \in Buffer
          /\ PutAll(a, cells).position = a.position + Len(cells)
          /\ \A i \in 1 .. a.position : PutAll(a, cells).words[i] = a.words[i]
          /\ \A k \in 1 .. Len(cells) : PutAll(a, cells).words[a.position + k] = cells[k]
      BY PutAllFacts
    <2>3. d = PutAll(a, cells)
      BY <2>1
    <2> HIDE DEF b, d
    <2> QED
      BY <1>1, <1>2, <2>1, <2>2, <2>3
  <1>4. words' = d.words /\ position' = d.position
    BY DEF Write
  <1> HIDE DEF b, d
  <1>5. /\ written' = Append(written, v)
        /\ table' = IF v.kind = "string" THEN TableWith(v.v) ELSE table
        /\ Len(written) < MaxWrites
    BY DEF Write
  <1> DEFINE n == Len(written)
  <1>6. /\ n \in Nat /\ written' \in Seq(Values) /\ Len(written') = n + 1
        /\ \A i \in 1 .. n : written'[i] = written[i]
        /\ written'[n + 1] = v
    BY <1>5, AppendProperties, WriterLengths DEF WriterOK
  <1>7. Size(v.kind) \in 1 .. 3
    BY DEF Size
  <1>8. /\ table' \in Seq(Texts) /\ Len(table) \in Nat /\ Len(table') \in Nat
        /\ Len(table') >= Len(table)
        /\ \A i \in 1 .. Len(table) : table'[i] = table[i]
    <2>1. CASE v.kind = "string"
      <3>1. PICK t \in Texts : t = v.v
        BY <2>1, ValueKinds
      <3>2. table' = TableWith(t)
        BY <1>5, <2>1, <3>1
      <3> QED
        BY <3>2, TableWithFacts DEF WriterOK
    <2>2. CASE v.kind # "string"
      BY <1>5, <2>2, WriterLengths DEF WriterOK
    <2> QED
      BY <2>1, <2>2
  <1>9. /\ words' \in Seq(Cell) /\ position' = position + Size(v.kind)
        /\ position' \in Nat /\ position \in Nat /\ position >= Header
        /\ position' <= Len(words')
    BY <1>3, <1>4, WriterLengths DEF Buffer
  <1>10. WriterOK'
    <2>1. position' \in Header .. Len(words')
      <3>1. Len(words') \in Nat
        BY <1>9, LenProperties
      <3> QED
        BY <1>7, <1>9, <3>1 DEF Header
    <2>2. MaxWrites \in Nat
      BY StreamAssumption
    <2> QED
      BY <1>5, <1>6, <1>8, <1>9, <2>1, <2>2 DEF WriterOK
  <1>p. PICK p : p = [i \in 0 .. n + 1 |-> IF i = n + 1 THEN position' ELSE o[i]]
    OBVIOUS
  <1>11. /\ o \in [0 .. n -> Nat] /\ o[0] = Header /\ o[n] = position
         /\ \A i \in 1 .. n : o[i] = o[i - 1] + Size(written[i].kind)
         /\ \A i \in 0 .. n : Header + i <= o[i] /\ o[i] + (n - i) <= position
    BY DEF Placed
  <1>12. /\ p \in [0 .. n + 1 -> Nat]
         /\ \A i \in 0 .. n : p[i] = o[i]
         /\ p[n + 1] = position'
    BY <1>6, <1>9, <1>11, <1>p
  <1>13. Placed(p)'
    <2>1. p[0] = Header
      BY <1>6, <1>11, <1>12
    <2>2. ASSUME NEW i \in 1 .. n + 1 PROVE p[i] = p[i - 1] + Size(written'[i].kind)
      <3>1. CASE i = n + 1
        <4>1. i - 1 = n /\ n \in 0 .. n
          BY <1>6, <3>1
        <4> QED
          BY <1>6, <1>9, <1>11, <1>12, <3>1, <4>1
      <3>2. CASE i # n + 1
        <4>1. i \in 1 .. n /\ i - 1 \in 0 .. n /\ i \in 0 .. n
          BY <1>6, <3>2
        <4> QED
          BY <1>6, <1>11, <1>12, <4>1
      <3> QED
        BY <3>1, <3>2
    <2>3. ASSUME NEW i \in 0 .. n + 1
          PROVE  Header + i <= p[i] /\ p[i] + ((n + 1) - i) <= position'
      <3>1. position + 1 <= position' /\ position \in Nat /\ position' \in Nat
        BY <1>7, <1>9
      <3>2. CASE i = n + 1
        <4>1. n \in 0 .. n
          BY <1>6
        <4>2. Header + n <= o[n]
          BY <1>11, <4>1
        <4>3. Header + n <= position
          BY <1>11, <4>2
        <4>4. Header + (n + 1) <= position'
          BY <1>6, <3>1, <4>3 DEF Header
        <4> QED
          BY <1>6, <1>12, <3>1, <3>2, <4>4
      <3>3. CASE i # n + 1
        <4>1. i \in 0 .. n
          BY <1>6, <3>3
        <4>2. Header + i <= o[i] /\ o[i] + (n - i) <= position /\ o[i] \in Nat
          BY <1>11, <4>1
        <4>3. p[i] = o[i]
          BY <1>12, <4>1
        <4>4. o[i] + ((n + 1) - i) <= position'
          BY <1>6, <3>1, <4>2
        <4> QED
          BY <4>2, <4>3, <4>4
      <3> QED
        BY <3>2, <3>3
    <2> QED
      BY <1>6, <1>12, <2>1, <2>2, <2>3 DEF Placed
  <1>14. Held(p)'
    <2>1. ASSUME NEW i \in 1 .. n PROVE ValueHeld(written'[i], words', p[i - 1], table')
      <3>1. i - 1 \in 0 .. n /\ i \in 0 .. n
        BY <1>6
      <3>2. PICK x \in Nat : x = o[i - 1] /\ x = p[i - 1]
        BY <1>11, <1>12, <3>1
      <3>3. x + Size(written[i].kind) <= position
        <4>1. o[i] + (n - i) <= position /\ o[i] \in Nat
          BY <1>11, <3>1
        <4>2. o[i] <= position
          BY <1>6, <1>9, <4>1
        <4> QED
          BY <1>11, <3>2, <4>2
      <3>4. PICK u : u = written[i] /\ u = written'[i] /\ ValueHeld(u, words, x, table)
        BY <1>6, <3>2 DEF Held
      <3>5. \A k \in 1 .. Size(u.kind) : words'[x + k] = words[x + k]
        <4>1. Size(u.kind) \in Nat
          BY DEF Size
        <4>2. \A k \in 1 .. Size(u.kind) : x + k \in 1 .. position
          BY <1>9, <3>3, <3>4, <4>1
        <4> QED
          BY <1>3, <1>4, <4>2
      <3>6. 1 \in 1 .. Size(u.kind) /\ u.kind = "long" => 3 = Size(u.kind)
        BY DEF Size
      <3>7. words'[x + 1] = words[x + 1]
        BY <3>5, <3>6 DEF Size
      <3>8. u.kind = "long" => \A k \in 1 .. 3 : words'[x + k] = words[x + k]
        BY <3>5 DEF Size
      <3>9. \A j \in 1 .. Len(table) : j \in 1 .. Len(table')
        BY <1>8
      <3>10. ValueHeld(u, words', x, table')
        BY <1>8, <3>4, <3>7, <3>8, <3>9 DEF ValueHeld
      <3> QED
        BY <3>2, <3>4, <3>10
    <2>2. ValueHeld(v, words', position, table')
      <3>1. \A k \in 1 .. Size(v.kind) : words'[position + k] = Cells(v)[k]
        BY <1>3, <1>4
      <3>2. words'[position + 1] = Cells(v)[1]
        BY <3>1 DEF Size
      <3>3. v.kind \in {"int", "float"} => words'[position + 1] = v
        BY <3>2, CellsFacts DEF WriterOK
      <3>4. v.kind = "long" => \A k \in 1 .. 3 : words'[position + k] = Int32(ToLimbs(v.v)[k])
        BY <3>1, CellsFacts DEF WriterOK, Size
      <3>5. ASSUME v.kind = "string"
            PROVE  \E i \in 1 .. Len(table') :
                     table'[i] = v.v /\ words'[position + 1] = Int32(i)
        <4>1. PICK t \in Texts : t = v.v
          BY <3>5, ValueKinds
        <4>2. table' = TableWith(t)
          BY <1>5, <3>5, <4>1
        <4>3. words'[position + 1] = Int32(IndexIn(TableWith(t), t))
          BY <3>2, <3>5, <4>1, CellsFacts DEF WriterOK
        <4> QED
          BY <4>1, <4>2, <4>3, TableWithFacts DEF WriterOK
      <3> QED
        BY <3>3, <3>4, <3>5 DEF ValueHeld
    <2>3. ASSUME NEW i \in 1 .. n + 1
          PROVE  ValueHeld(written'[i], words', p[i - 1], table')
      <3>1. CASE i = n + 1
        <4>1. i - 1 = n /\ n \in 0 .. n
          BY <1>6, <3>1
        <4> QED
          BY <1>6, <1>11, <1>12, <2>2, <3>1, <4>1
      <3>2. CASE i # n + 1
        BY <1>6, <2>1, <3>2
      <3> QED
        BY <3>1, <3>2
    <2> QED
      BY <1>6, <2>3 DEF Held
  <1> QED
    BY <1>10, <1>13, <1>14

(***************************************************************************)
(* The message.                                                            *)
(***************************************************************************)
LEMMA MarkedFacts ==
  ASSUME WriterOK
  PROVE  /\ Marked \in Seq(Cell) /\ Len(Marked) = Len(words)
         /\ Marked[1] = Int32(Flags) /\ Marked[2] = Int32(Version)
         /\ Marked[3] = Int32(position - Header)
         /\ \A i \in Header + 1 .. Len(words) : Marked[i] = words[i]
         /\ \A i \in 1 .. Len(words) : Marked[i] \in Cell
  <1>1. Len(words) \in Nat /\ Len(words) >= 3 /\ position \in Nat
    BY WriterLengths DEF Header
  <1>2. PICK a \in Cell, b \in Cell, c \in Cell :
          a = Int32(Flags) /\ b = Int32(Version) /\ c = Int32(position - Header)
    BY <1>1, IntCells, StreamAssumption DEF Header
  <1>3. PICK s : s = [words EXCEPT ![1] = a]
    OBVIOUS
  <1>4. /\ s \in Seq(Cell) /\ Len(s) = Len(words)
        /\ \A i \in 1 .. Len(words) : s[i] = IF i = 1 THEN a ELSE words[i]
    BY <1>1, <1>3, ExceptSeq DEF WriterOK
  <1>5. PICK t : t = [s EXCEPT ![2] = b]
    OBVIOUS
  <1>6. /\ t \in Seq(Cell) /\ Len(t) = Len(words)
        /\ \A i \in 1 .. Len(words) : t[i] = IF i = 2 THEN b ELSE s[i]
    BY <1>1, <1>4, <1>5, ExceptSeq
  <1>7. PICK u : u = [t EXCEPT ![3] = c]
    OBVIOUS
  <1>8. /\ u \in Seq(Cell) /\ Len(u) = Len(words)
        /\ \A i \in 1 .. Len(words) : u[i] = IF i = 3 THEN c ELSE t[i]
    BY <1>1, <1>6, <1>7, ExceptSeq
  <1>9. Marked = u
    BY <1>2, <1>3, <1>5, <1>7 DEF Marked
  <1>10. u[1] = a /\ u[2] = b /\ u[3] = c
    BY <1>1, <1>4, <1>6, <1>8
  <1>11. \A i \in Header + 1 .. Len(words) : u[i] = words[i]
    BY <1>1, <1>4, <1>6, <1>8 DEF Header
  <1>12. \A i \in 1 .. Len(words) : u[i] \in Cell
    BY <1>8, ElementOfSeq
  <1> QED
    BY <1>2, <1>8, <1>9, <1>10, <1>11, <1>12

Byte == [of : Cell \cup {Text(t) : t \in Texts}, part : Nat]

LEMMA BytesOfFacts ==
  ASSUME NEW c \in Cell
  PROVE  /\ BytesOf(c) \in Seq(Byte) /\ Len(BytesOf(c)) = 4
         /\ \A k \in 1 .. 4 : BytesOf(c)[k] = [of |-> c, part |-> k]
  <1>1. \A k \in 1 .. 4 : [of |-> c, part |-> k] \in Byte
    BY DEF Byte
  <1> QED
    BY <1>1, IsASeq DEF BytesOf

LEMMA IntBytes ==
  ASSUME NEW i \in Int
  PROVE  BytesOf(Int32(i)) \in Seq(Byte) /\ Len(BytesOf(Int32(i))) = 4
  <1>1. PICK c \in Cell : c = Int32(i)
    BY IntCells
  <1> QED
    BY <1>1, BytesOfFacts

LEMMA BytesOfTextFacts ==
  ASSUME NEW t \in Texts
  PROVE  /\ BytesOfText(t) \in Seq(Byte) /\ Len(BytesOfText(t)) = Bytes[t]
         /\ Bytes[t] \in Nat /\ Chars[t] \in Nat
         /\ \A k \in 1 .. Bytes[t] : BytesOfText(t)[k] = [of |-> Text(t), part |-> k]
  <1>1. Bytes[t] \in Nat /\ Chars[t] \in Nat
    BY StreamAssumption
  <1>2. \A k \in 1 .. Bytes[t] : [of |-> Text(t), part |-> k] \in Byte
    BY <1>1 DEF Byte
  <1> QED
    BY <1>1, <1>2, IsASeq DEF BytesOfText

\* A text's bytes are those of no other text.
LEMMA BytesOfTextDiffer ==
  ASSUME NEW t \in Texts, NEW u \in Texts, BytesOfText(t) = BytesOfText(u)
  PROVE  t = u
  <1>1. Bytes[t] = Bytes[u] /\ Bytes[t] \in Nat
    BY BytesOfTextFacts
  <1>2. CASE Bytes[t] = 0
    BY <1>1, <1>2, StreamAssumption
  <1>3. CASE Bytes[t] # 0
    <2>1. 1 \in 1 .. Bytes[t]
      BY <1>1, <1>3
    <2>2. BytesOfText(t)[1] = [of |-> Text(t), part |-> 1]
      BY <2>1, BytesOfTextFacts
    <2>3. BytesOfText(u)[1] = [of |-> Text(u), part |-> 1]
      BY <1>1, <2>1, BytesOfTextFacts
    <2>4. Text(t) = Text(u)
      BY <2>2, <2>3
    <2> QED
      BY <2>4 DEF Text
  <1> QED
    BY <1>2, <1>3

LEMMA TextOfFacts ==
  ASSUME NEW t \in Texts
  PROVE  TextOf(BytesOfText(t)) = t
  <1>1. \A u \in Texts : BytesOfText(t) = BytesOfText(u) => u = t
    BY BytesOfTextDiffer
  <1> QED
    BY <1>1 DEF TextOf

LEMMA TextBytesFacts ==
  ASSUME NEW t \in Texts
  PROVE  /\ TextBytes(t) \in Seq(Byte) /\ Len(TextBytes(t)) = 4 + Bytes[t]
         /\ PieceAt(TextBytes(t), 0, BytesOf(Int32(Chars[t])))
         /\ PieceAt(TextBytes(t), 4, BytesOfText(t))
  <1>1. Int32(Chars[t]) \in Cell
    BY IntCells, BytesOfTextFacts
  <1>2. PICK a \in Seq(Byte), b \in Seq(Byte) :
          /\ a = BytesOf(Int32(Chars[t])) /\ Len(a) = 4
          /\ b = BytesOfText(t) /\ Len(b) = Bytes[t]
    <2>1. BytesOf(Int32(Chars[t])) \in Seq(Byte) /\ Len(BytesOf(Int32(Chars[t]))) = 4
      BY <1>1, BytesOfFacts
    <2>2. BytesOfText(t) \in Seq(Byte) /\ Len(BytesOfText(t)) = Bytes[t]
      BY BytesOfTextFacts
    <2> QED
      BY <2>1, <2>2
  <1>3. /\ a \o b \in Seq(Byte) /\ Len(a \o b) = Len(a) + Len(b)
        /\ PieceAt(a \o b, 0, a) /\ PieceAt(a \o b, Len(a), b)
    BY PiecesOfConcat
  <1>4. TextBytes(t) = a \o b
    BY <1>2 DEF TextBytes
  <1> QED
    BY <1>2, <1>3, <1>4

\* The part of a sequence where a piece is.
LEMMA PieceIsPart ==
  ASSUME NEW S, NEW s \in Seq(S), NEW t \in Seq(S), NEW p \in Nat,
         p + Len(t) <= Len(s), PieceAt(s, p, t)
  PROVE  SubSeq(s, p + 1, p + Len(t)) = t
  <1>1. PICK n \in Nat : n = Len(t)
    BY LenProperties
  <1>2. Len(s) \in Nat /\ DOMAIN s = 1 .. Len(s) /\ DOMAIN t = 1 .. n
    BY <1>1, LenProperties
  <1>3. SubSeq(s, p + 1, p + n) = [i \in 1 .. (1 + (p + n) - (p + 1)) |-> s[p + 1 + i - 1]]
    OBVIOUS
  <1>4. 1 + (p + n) - (p + 1) = n
    OBVIOUS
  <1>5. \A i \in 1 .. n : p + 1 + i - 1 = p + i
    OBVIOUS
  <1>6. SubSeq(s, p + 1, p + n) = [i \in 1 .. n |-> s[p + i]]
    BY <1>3, <1>4, <1>5
  <1>7. \A i \in 1 .. n : s[p + i] = t[i]
    BY <1>1 DEF PieceAt
  <1>8. t = [i \in 1 .. n |-> t[i]]
    BY <1>2, LenProperties, ElementOfSeq
  <1> QED
    BY <1>1, <1>6, <1>7, <1>8

LEMMA IntAtFacts ==
  ASSUME NEW s \in Seq(Byte), NEW p \in Nat, NEW i \in Int,
         p + 4 <= Len(s), PieceAt(s, p, BytesOf(Int32(i)))
  PROVE  IntAt(s, p) = Int32(i)
  <1>1. PICK c \in Cell : c = Int32(i) /\ c.kind = "int"
    BY IntCells
  <1>2. PICK f \in Seq(Byte) :
          f = BytesOf(c) /\ Len(f) = 4 /\ f[1] = [of |-> c, part |-> 1]
    <2>1. BytesOf(c) \in Seq(Byte) /\ Len(BytesOf(c)) = 4
      BY BytesOfFacts
    <2>2. 1 \in 1 .. 4
      OBVIOUS
    <2>3. BytesOf(c)[1] = [of |-> c, part |-> 1]
      BY <2>2, BytesOfFacts
    <2> QED
      BY <2>1, <2>3
  <1>3. SubSeq(s, p + 1, p + 4) = f
    BY <1>1, <1>2, PieceIsPart
  <1>4. f[1].of = c
    BY <1>2
  <1> QED
    BY <1>1, <1>2, <1>3, <1>4 DEF IntAt

(***************************************************************************)
(* What goes over a socket.                                                *)
(***************************************************************************)
LEMMA UsedBytes ==
  ASSUME WriterOK
  PROVE  LET used == FlattenSeq([i \in 1 .. position |-> BytesOf(Marked[i])])
         IN  /\ used \in Seq(Byte) /\ Len(used) = 4 * position
             /\ \A i \in 1 .. position : PieceAt(used, 4 * (i - 1), BytesOf(Marked[i]))
  <1>1. position \in Nat /\ \A i \in 1 .. position : Marked[i] \in Cell
    BY MarkedFacts, WriterLengths
  <1> DEFINE ss == [i \in 1 .. position |-> BytesOf(Marked[i])]
             used == FlattenSeq(ss)
  <1>2. ss \in Seq(Seq(Byte)) /\ Len(ss) = position
    <2>1. \A i \in 1 .. position : BytesOf(Marked[i]) \in Seq(Byte)
      BY <1>1, BytesOfFacts
    <2> QED
      BY <1>1, <2>1, IsASeq
  <1>3. \A i \in 1 .. position : ss[i] = BytesOf(Marked[i]) /\ Len(ss[i]) = 4
    BY <1>1, BytesOfFacts
  <1> HIDE DEF ss
  <1>4. PICK after : used \in Seq(Byte) /\ Parts(ss, used, after)
    BY <1>2, FlattenPieces
  <1> HIDE DEF used
  <1>5. /\ after[0] = 0 /\ after[position] = Len(used)
        /\ \A i \in 1 .. position :
             after[i] = after[i - 1] + 4 /\ PieceAt(used, after[i - 1], BytesOf(Marked[i]))
    BY <1>2, <1>3, <1>4 DEF Parts
  <1> DEFINE T == {i \in 0 .. position : after[i] = 4 * i}
  <1>6. 0 \in T
    BY <1>1, <1>5
  <1>7. ASSUME NEW i \in 0 .. position - 1, i \in T PROVE i + 1 \in T
    <2>1. i + 1 \in 1 .. position /\ (i + 1) - 1 = i
      BY <1>1
    <2>2. after[i + 1] = after[i] + 4
      BY <1>5, <2>1
    <2> QED
      BY <1>7, <2>1, <2>2
  <1> HIDE DEF T
  <1>8. 0 .. position \subseteq T
    BY <1>1, <1>6, <1>7, InductionUpTo
  <1>9. \A i \in 0 .. position : after[i] = 4 * i
    BY <1>8 DEF T
  <1>10. Len(used) = 4 * position
    BY <1>1, <1>5, <1>9
  <1>11. ASSUME NEW i \in 1 .. position PROVE PieceAt(used, 4 * (i - 1), BytesOf(Marked[i]))
    <2>1. i - 1 \in 0 .. position
      BY <1>1
    <2> QED
      BY <1>5, <1>9, <2>1
  <1> QED
    BY <1>4, <1>10, <1>11 DEF used, ss

\* at[i]: where the strings after the first i are.
TableAt(bytes, at) ==
  /\ at \in [0 .. Len(table) -> Nat]
  /\ at[0] = 4 * position + 4 /\ at[Len(table)] = Len(bytes)
  /\ PieceAt(bytes, 4 * position, BytesOf(Int32(Len(table))))
  /\ \A i \in 1 .. Len(table) :
       /\ at[i] = at[i - 1] + 4 + Bytes[table[i]] /\ at[i] <= Len(bytes)
       /\ PieceAt(bytes, at[i - 1], BytesOf(Int32(Chars[table[i]])))
       /\ PieceAt(bytes, at[i - 1] + 4, BytesOfText(table[i]))

LEMMA PieceOfPiece ==
  ASSUME NEW s, NEW S, NEW t \in Seq(S), NEW u, NEW p \in Nat, NEW q \in Nat, NEW n \in Nat,
         n = Len(u), q + n <= Len(t), PieceAt(s, p, t), PieceAt(t, q, u)
  PROVE  PieceAt(s, p + q, u)
  <1>1. PICK m \in Nat : m = Len(t)
    BY LenProperties
  <1>2. ASSUME NEW j \in 1 .. n PROVE s[(p + q) + j] = u[j]
    <2>1. q + j \in 1 .. m
      BY <1>1
    <2>2. s[p + (q + j)] = t[q + j] /\ t[q + j] = u[j]
      BY <1>1, <2>1 DEF PieceAt
    <2>3. p + (q + j) = (p + q) + j
      OBVIOUS
    <2> QED
      BY <2>2, <2>3
  <1> QED
    BY <1>2 DEF PieceAt

LEMMA TableBytes ==
  ASSUME WriterOK, table # <<>>
  PROVE  LET texts == FlattenSeq([i \in 1 .. Len(table) |-> TextBytes(table[i])])
         IN  /\ texts \in Seq(Byte)
             /\ \E after : /\ after \in [0 .. Len(table) -> 0 .. Len(texts)]
                           /\ after[0] = 0 /\ after[Len(table)] = Len(texts)
                           /\ \A i \in 1 .. Len(table) :
                                /\ after[i] = after[i - 1] + (4 + Bytes[table[i]])
                                /\ PieceAt(texts, after[i - 1], TextBytes(table[i]))
  <1>1. Len(table) \in Nat /\ \A i \in 1 .. Len(table) : table[i] \in Texts
    BY WriterLengths
  <1> DEFINE ss == [i \in 1 .. Len(table) |-> TextBytes(table[i])]
             texts == FlattenSeq(ss)
  <1>2. ss \in Seq(Seq(Byte)) /\ Len(ss) = Len(table)
    <2>1. \A i \in 1 .. Len(table) : TextBytes(table[i]) \in Seq(Byte)
      BY <1>1, TextBytesFacts
    <2> QED
      BY <1>1, <2>1, IsASeq
  <1>3. \A i \in 1 .. Len(table) :
          ss[i] = TextBytes(table[i]) /\ Len(ss[i]) = 4 + Bytes[table[i]]
    BY <1>1, TextBytesFacts
  <1> HIDE DEF ss
  <1>4. PICK after : texts \in Seq(Byte) /\ Parts(ss, texts, after)
    BY <1>2, FlattenPieces
  <1> HIDE DEF texts
  <1>5. /\ after \in [0 .. Len(table) -> 0 .. Len(texts)]
        /\ after[0] = 0 /\ after[Len(table)] = Len(texts)
    BY <1>2, <1>4 DEF Parts
  <1>6. ASSUME NEW i \in 1 .. Len(table)
        PROVE  /\ after[i] = after[i - 1] + (4 + Bytes[table[i]])
               /\ PieceAt(texts, after[i - 1], TextBytes(table[i]))
    BY <1>2, <1>3, <1>4 DEF Parts
  <1> QED
    BY <1>4, <1>5, <1>6 DEF texts, ss

LEMMA SocketBytesFacts ==
  ASSUME WriterOK
  PROVE  /\ SocketBytes \in Seq(Byte)
         /\ \A i \in 1 .. position : PieceAt(SocketBytes, 4 * (i - 1), BytesOf(Marked[i]))
         /\ table = <<>> => Len(SocketBytes) = 4 * position
         /\ table # <<>> =>
              Len(SocketBytes) >= 4 * position + 4 /\ \E at : TableAt(SocketBytes, at)
  <1> DEFINE used == FlattenSeq([i \in 1 .. position |-> BytesOf(Marked[i])])
             count == BytesOf(Int32(Len(table)))
             texts == FlattenSeq([i \in 1 .. Len(table) |-> TextBytes(table[i])])
  <1>1. /\ used \in Seq(Byte) /\ Len(used) = 4 * position
        /\ \A i \in 1 .. position : PieceAt(used, 4 * (i - 1), BytesOf(Marked[i]))
    BY UsedBytes
  <1>2. position \in Nat /\ Len(table) \in Nat /\ \A i \in 1 .. Len(table) : table[i] \in Texts
    BY WriterLengths
  <1>3. count \in Seq(Byte) /\ Len(count) = 4
    BY <1>2, IntBytes
  <1>4. SocketBytes = IF table = <<>> THEN used ELSE used \o count \o texts
    BY DEF SocketBytes
  <1>5. CASE table = <<>>
    BY <1>1, <1>4, <1>5
  <1>6. CASE table # <<>>
    <2>1. texts \in Seq(Byte)
      BY <1>6, TableBytes
    <2>2. PICK after : /\ after \in [0 .. Len(table) -> 0 .. Len(texts)]
                       /\ after[0] = 0 /\ after[Len(table)] = Len(texts)
                       /\ \A i \in 1 .. Len(table) :
                            /\ after[i] = after[i - 1] + (4 + Bytes[table[i]])
                            /\ PieceAt(texts, after[i - 1], TextBytes(table[i]))
      BY <1>6, TableBytes
    <2> HIDE DEF used, count, texts
    <2>3. PICK a \in Seq(Byte) : a = used \o count
      BY <1>1, <1>3, PiecesOfConcat
    <2>4. /\ Len(a) = 4 * position + 4
          /\ PieceAt(a, 4 * position, count)
          /\ \A i \in 1 .. position : PieceAt(a, 4 * (i - 1), BytesOf(Marked[i]))
      <3>1. Len(a) = Len(used) + Len(count) /\ PieceAt(a, Len(used), count)
        BY <1>1, <1>3, <2>3, PiecesOfConcat
      <3>2. \A p \in Nat, t \in Seq(Byte) :
              p + Len(t) <= Len(used) /\ PieceAt(used, p, t) => PieceAt(a, p, t)
        BY <1>1, <1>3, <2>3, PiecesOfConcat
      <3>3. ASSUME NEW i \in 1 .. position PROVE PieceAt(a, 4 * (i - 1), BytesOf(Marked[i]))
        <4>1. Marked[i] \in Cell
          BY MarkedFacts, WriterLengths
        <4>2. BytesOf(Marked[i]) \in Seq(Byte) /\ Len(BytesOf(Marked[i])) = 4
          BY <4>1, BytesOfFacts
        <4>3. 4 * (i - 1) \in Nat /\ 4 * (i - 1) + 4 <= 4 * position
          BY <1>2
        <4> QED
          BY <1>1, <3>2, <4>2, <4>3
      <3> QED
        BY <1>1, <1>3, <3>1, <3>3
    <2>5. PICK s \in Seq(Byte) : s = a \o texts
      BY <2>1, PiecesOfConcat
    <2>6. s = SocketBytes
      BY <1>4, <1>6, <2>3, <2>5
    <2>7. /\ Len(s) = Len(a) + Len(texts) /\ PieceAt(s, Len(a), texts)
          /\ \A p \in Nat, t \in Seq(Byte) :
               p + Len(t) <= Len(a) /\ PieceAt(a, p, t) => PieceAt(s, p, t)
      BY <2>1, <2>5, PiecesOfConcat
    <2>8. Len(texts) \in Nat
      BY <2>1, LenProperties
    <2>9. ASSUME NEW i \in 1 .. position PROVE PieceAt(s, 4 * (i - 1), BytesOf(Marked[i]))
      <3>1. Marked[i] \in Cell
        BY MarkedFacts, WriterLengths
      <3>2. BytesOf(Marked[i]) \in Seq(Byte) /\ Len(BytesOf(Marked[i])) = 4
        BY <3>1, BytesOfFacts
      <3>3. 4 * (i - 1) \in Nat /\ 4 * (i - 1) + 4 <= 4 * position + 4
        BY <1>2
      <3> QED
        BY <2>4, <2>7, <3>2, <3>3
    <2>10. PieceAt(s, 4 * position, count)
      <3>1. PICK p \in Nat, t \in Seq(Byte) : p = 4 * position /\ t = count /\ Len(t) = 4
        BY <1>2, <1>3
      <3>2. p + Len(t) <= Len(a) /\ PieceAt(a, p, t)
        BY <2>4, <3>1
      <3> QED
        BY <2>7, <3>1, <3>2
    <2>p. PICK start \in Nat : start = 4 * position + 4
      BY <1>2
    <2>a. PICK at : at = [i \in 0 .. Len(table) |-> start + after[i]]
      OBVIOUS
    <2>11. ASSUME NEW i \in 0 .. Len(table)
           PROVE  at[i] = start + after[i] /\ at[i] \in Nat /\ at[i] <= Len(s)
      <3>1. after[i] \in 0 .. Len(texts)
        BY <2>2
      <3>2. at[i] = start + after[i]
        BY <2>a
      <3> QED
        BY <2>4, <2>7, <2>8, <2>p, <3>1, <3>2
    <2>12. ASSUME NEW i \in 1 .. Len(table)
           PROVE  /\ at[i] = at[i - 1] + 4 + Bytes[table[i]] /\ at[i] <= Len(s)
                  /\ PieceAt(s, at[i - 1], BytesOf(Int32(Chars[table[i]])))
                  /\ PieceAt(s, at[i - 1] + 4, BytesOfText(table[i]))
      <3>1. i \in 0 .. Len(table) /\ i - 1 \in 0 .. Len(table)
        BY <1>2
      <3>2. PICK t \in Texts : t = table[i]
        BY <1>2
      <3>3. PICK x \in Nat : x = after[i - 1]
        BY <2>2, <3>1
      <3>4. after[i] = x + (4 + Bytes[t]) /\ PieceAt(texts, x, TextBytes(t))
        BY <2>2, <3>2, <3>3
      <3>5. after[i] \in 0 .. Len(texts)
        BY <2>2, <3>1
      <3>6. at[i] = start + after[i] /\ at[i - 1] = start + x /\ at[i] <= Len(s)
        BY <2>11, <3>1, <3>3
      <3>7. PICK b \in Nat : b = Bytes[t]
        BY BytesOfTextFacts
      <3>8. PICK u \in Seq(Byte) : u = TextBytes(t) /\ Len(u) = 4 + b
        BY <3>7, TextBytesFacts
      <3>9. PieceAt(s, start + x, u)
        <4>1. x + Len(u) <= Len(texts)
          BY <2>8, <3>4, <3>5, <3>7, <3>8
        <4>2. PieceAt(s, start, texts)
          BY <2>4, <2>7, <2>p
        <4>3. Len(u) \in Nat
          BY <3>8
        <4> QED
          BY <2>1, <3>4, <3>8, <4>1, <4>2, <4>3, PieceOfPiece
      <3>10. PieceAt(s, start + x, BytesOf(Int32(Chars[t])))
        <4>1. PieceAt(u, 0, BytesOf(Int32(Chars[t])))
          BY <3>8, TextBytesFacts
        <4>2. Len(BytesOf(Int32(Chars[t]))) = 4
          BY IntBytes, BytesOfTextFacts
        <4>3. PICK z : z = BytesOf(Int32(Chars[t])) /\ 4 = Len(z) /\ PieceAt(u, 0, z)
          BY <4>1, <4>2
        <4>4. 0 + 4 <= Len(u) /\ start + x \in Nat
          BY <3>8
        <4>5. PieceAt(s, (start + x) + 0, z)
          BY <3>9, <4>3, <4>4, PieceOfPiece
        <4>6. (start + x) + 0 = start + x
          OBVIOUS
        <4> QED
          BY <4>3, <4>5, <4>6
      <3>11. PieceAt(s, (start + x) + 4, BytesOfText(t))
        <4>1. PICK z : z = BytesOfText(t) /\ b = Len(z) /\ PieceAt(u, 4, z)
          BY <3>7, <3>8, TextBytesFacts, BytesOfTextFacts
        <4>2. PICK y \in Nat, f \in Nat : y = start + x /\ f = 4 /\ f + b <= Len(u)
          BY <3>8
        <4>3. PieceAt(s, y + f, z)
          <5>1. b = Len(z) /\ f + b <= Len(u) /\ PieceAt(s, y, u) /\ PieceAt(u, f, z)
            BY <3>9, <4>1, <4>2
          <5> QED
            BY <5>1, PieceOfPiece
        <4> QED
          BY <4>1, <4>2, <4>3
      <3>12. start + after[i] = (start + x) + 4 + Bytes[t]
        BY <3>4, <3>7
      <3> QED
        BY <3>2, <3>6, <3>10, <3>11, <3>12
    <2>13. at[0] = start /\ at[Len(table)] = Len(s) /\ at \in [0 .. Len(table) -> Nat]
      <3>1. 0 \in 0 .. Len(table) /\ Len(table) \in 0 .. Len(table)
        BY <1>2
      <3>2. at[0] = start + 0 /\ at[Len(table)] = start + Len(texts)
        BY <2>2, <2>11, <3>1
      <3>3. at \in [0 .. Len(table) -> Nat]
        BY <2>a, <2>11
      <3> QED
        BY <2>4, <2>7, <2>8, <2>p, <3>2, <3>3
    <2>14. TableAt(s, at)
      BY <2>10, <2>12, <2>13, <2>p DEF TableAt, count
    <2>15. Len(s) >= 4 * position + 4
      BY <2>4, <2>7, <2>8, <1>2
    <2> QED
      BY <1>6, <2>5, <2>6, <2>9, <2>14, <2>15
  <1> QED
    BY <1>5, <1>6

(***************************************************************************)
(* The reader.                                                             *)
(***************************************************************************)
MessageOK ==
  \/ message = Nothing
  \/ "socket" \in Formats /\ message = Undefined
  \/ "worker" \in Formats
     /\ message = [format |-> "worker", words |-> Marked, strings |-> table]
  \/ "socket" \in Formats
     /\ message = [format |-> "socket", bytes |-> SocketBytes]

ReaderFields == {"format", "failed", "version", "flags", "length", "words", "limit",
                 "ints", "floats", "position", "strings"}

\* All strings of the message have as many bytes as chars, or go by a port.
Plain == \/ message.format = "worker"
         \/ \A i \in 1 .. Len(table) : Chars[table[i]] = Bytes[table[i]]

\* The reader is where the next value is.
ReaderAt(o) ==
  /\ message.format \in {"worker", "socket"} /\ reader.format = message.format
  /\ DOMAIN reader = ReaderFields
  /\ Len(read) \in 0 .. Len(written) /\ \E S : read \in Seq(S)
  /\ reader.length = position - Header
  /\ reader.ints = IF reader.format = "worker" THEN 0 ELSE Header
  /\ reader.floats = reader.ints
  /\ reader.position + reader.ints = o[Len(read)] /\ reader.position \in Nat
  /\ \A i \in Header + 1 .. position : reader.words[i] = words[i]
  /\ Plain => /\ reader.failed = FALSE /\ reader.strings = table
              /\ \A i \in 1 .. Len(read) : read[i] = written[i]

NoReader == reader = Nothing /\ read = <<>>

CodecInv ==
  /\ WriterOK /\ MessageOK
  /\ \E o : Placed(o) /\ Held(o) /\ (NoReader \/ ReaderAt(o))

LEMMA WriterRests ==
  ASSUME UNCHANGED writer
  PROVE  /\ Marked' = Marked /\ SocketBytes' = SocketBytes
         /\ WriterOK => WriterOK'
         /\ \A o : Placed(o) /\ Held(o) => Placed(o)' /\ Held(o)'
  <1>1. words' = words /\ position' = position /\ table' = table /\ written' = written
    BY DEF writer
  <1>2. Marked' = Marked
    BY <1>1 DEF Marked
  <1>3. SocketBytes' = SocketBytes
    BY <1>1, <1>2 DEF SocketBytes
  <1>4. WriterOK => WriterOK'
    BY <1>1 DEF WriterOK
  <1>5. ASSUME NEW o, Placed(o), Held(o) PROVE Placed(o)' /\ Held(o)'
    BY <1>1, <1>5 DEF Placed, Held, ValueHeld
  <1> QED
    BY <1>2, <1>3, <1>4, <1>5

\* The words that are the ints of the first bytes.
LEMMA SocketWords ==
  ASSUME WriterOK
  PROVE  LET n == Len(SocketBytes) \div 4
         IN  /\ n \in Nat /\ n >= position /\ (n > position <=> table # <<>>)
             /\ \A i \in 1 .. position :
                  /\ SocketBytes[4 * (i - 1) + 1].of = Marked[i]
                  /\ \A v \in Int : Marked[i] = Int32(v) => IntAt(SocketBytes, 4 * (i - 1)) = Int32(v)
             /\ table # <<>> => IntAt(SocketBytes, 4 * position) = Int32(Len(table))
  <1>1. PICK s \in Seq(Byte) : s = SocketBytes
    BY SocketBytesFacts
  <1>2. /\ \A i \in 1 .. position : PieceAt(s, 4 * (i - 1), BytesOf(Marked[i]))
        /\ table = <<>> => Len(s) = 4 * position
        /\ table # <<>> => Len(s) >= 4 * position + 4 /\ \E at : TableAt(s, at)
    BY <1>1, SocketBytesFacts
  <1>3. Len(s) \in Nat /\ position \in Nat /\ Len(s) >= 4 * position
    BY <1>2, LenProperties, WriterLengths
  <1>4. PICK l \in Nat, p \in Nat : l = Len(s) /\ p = position
    BY <1>3
  <1>5. /\ l \div 4 \in Nat /\ l \div 4 >= p /\ (l \div 4 > p <=> l >= 4 * p + 4)
    <2>1. l >= 4 * p
      BY <1>3, <1>4
    <2> QED
      BY <2>1
  <1>6. l >= 4 * p + 4 <=> table # <<>>
    BY <1>2, <1>4
  <1>7. ASSUME NEW i \in 1 .. position
        PROVE  /\ s[4 * (i - 1) + 1].of = Marked[i]
               /\ \A v \in Int : Marked[i] = Int32(v) => IntAt(s, 4 * (i - 1)) = Int32(v)
    <2>1. PICK c \in Cell : c = Marked[i]
      BY MarkedFacts, WriterLengths
    <2>2. PICK q \in Nat : q = 4 * (i - 1) /\ q + 4 <= Len(s)
      BY <1>3
    <2>3. PieceAt(s, q, BytesOf(c))
      BY <1>2, <2>1, <2>2
    <2>4. s[q + 1] = [of |-> c, part |-> 1]
      <3>1. 1 \in 1 .. 4
        OBVIOUS
      <3>2. Len(BytesOf(c)) = 4 /\ BytesOf(c)[1] = [of |-> c, part |-> 1]
        BY <3>1, BytesOfFacts
      <3> QED
        BY <2>3, <3>1, <3>2 DEF PieceAt
    <2>5. ASSUME NEW v \in Int, c = Int32(v) PROVE IntAt(s, q) = Int32(v)
      <3>1. PieceAt(s, q, BytesOf(Int32(v)))
        BY <2>3, <2>5
      <3> QED
        BY <2>2, <3>1, IntAtFacts
    <2> QED
      BY <2>1, <2>2, <2>4, <2>5
  <1>8. ASSUME table # <<>> PROVE IntAt(s, 4 * position) = Int32(Len(table))
    <2>1. PICK q \in Nat, v \in Int : q = 4 * position /\ v = Len(table)
      <3>1. 4 * position \in Nat /\ Len(table) \in Int
        BY <1>3, WriterLengths
      <3> QED
        BY <3>1
    <2>2. q + 4 <= Len(s)
      BY <1>2, <1>8, <2>1
    <2>3. PieceAt(s, q, BytesOf(Int32(v)))
      BY <1>2, <1>8, <2>1 DEF TableAt
    <2>4. IntAt(s, q) = Int32(v)
      BY <2>2, <2>3, IntAtFacts
    <2> QED
      BY <2>1, <2>4
  <1> QED
    BY <1>1, <1>4, <1>5, <1>6, <1>7, <1>8

\* One string more, if it has as many bytes as chars.
LEMMA OneStringRead ==
  ASSUME NEW s \in Seq(Byte), NEW t \in Texts, Chars[t] = Bytes[t],
         NEW before, NEW p \in Nat, before.p = p, before.failed = FALSE,
         p + 4 + Bytes[t] <= Len(s),
         PieceAt(s, p, BytesOf(Int32(Chars[t]))), PieceAt(s, p + 4, BytesOfText(t))
  PROVE  StringRead(s, before) =
           [p |-> p + 4 + Bytes[t], failed |-> FALSE, texts |-> Append(before.texts, t)]
  <1>1. PICK n \in Nat : n = Bytes[t] /\ n = Chars[t]
    BY BytesOfTextFacts
  <1>2. Len(s) \in Nat
    BY LenProperties
  <1>3. IntAt(s, p) = Int32(n)
    <2>1. p + 4 <= Len(s)
      BY <1>1, <1>2
    <2> QED
      BY <1>1, <2>1, IntAtFacts
  <1>4. Int32(n).v = n /\ Int32(n) # Garbage
    BY DEF Int32, Garbage
  <1>5. SubSeq(s, p + 5, p + 4 + n) = BytesOfText(t)
    <2>1. PICK u \in Seq(Byte), q \in Nat :
            u = BytesOfText(t) /\ q = p + 4
      <3>1. BytesOfText(t) \in Seq(Byte) /\ p + 4 \in Nat
        BY BytesOfTextFacts
      <3> QED
        BY <3>1
    <2>2. Len(u) = n /\ PieceAt(s, q, u) /\ q + Len(u) <= Len(s)
      BY <1>1, <2>1, BytesOfTextFacts
    <2>3. SubSeq(s, q + 1, q + Len(u)) = u
      BY <2>2, PieceIsPart
    <2>4. q + 1 = p + 5
      BY <2>1
    <2> QED
      BY <2>1, <2>2, <2>3, <2>4
  <1>6. TextOf(BytesOfText(t)) = t
    BY TextOfFacts
  <1>7. PICK size, next : size = IntAt(s, p) /\ next = p + 4 + size.v
    OBVIOUS
  <1>8. size # Garbage /\ next = p + 4 + n /\ ~(next > Len(s))
    BY <1>1, <1>2, <1>3, <1>4, <1>7
  <1>9. StringRead(s, before) =
          [p |-> next, failed |-> FALSE,
           texts |-> Append(before.texts, TextOf(SubSeq(s, p + 5, next)))]
    BY <1>7, <1>8 DEF StringRead
  <1> QED
    BY <1>1, <1>5, <1>6, <1>8, <1>9

LEMMA TableIsRead ==
  ASSUME WriterOK, table # <<>>,
         \A i \in 1 .. Len(table) : Chars[table[i]] = Bytes[table[i]]
  PROVE  LET r == StringsRead(SocketBytes, 4 * position + 4, Len(table))
         IN  r.texts = table /\ r.failed = FALSE
  <1>1. PICK s \in Seq(Byte) : s = SocketBytes /\ \E at : TableAt(s, at)
    BY SocketBytesFacts
  <1>a. PICK at : TableAt(s, at)
    BY <1>1
  <1>2. PICK n \in Nat : n = Len(table) /\ \A i \in 1 .. n : table[i] \in Texts
    BY WriterLengths
  <1>3. PICK start \in Nat : start = 4 * position + 4
    <2>1. position \in Nat
      BY WriterLengths
    <2> QED
      BY <2>1
  <1>4. at \in [0 .. n -> Nat] /\ at[0] = start
    BY <1>1, <1>a, <1>2, <1>3 DEF TableAt
  <1>5. PICK a : a = [i \in 0 .. n |->
                        [p |-> at[i], texts |-> [k \in 1 .. i |-> table[k]], failed |-> FALSE]]
    OBVIOUS
  <1>6. ASSUME NEW i \in 1 .. n PROVE a[i] = StringRead(s, a[i - 1])
    <2>1. i \in 0 .. n /\ i - 1 \in 0 .. n
      BY <1>2
    <2>2. PICK t \in Texts : t = table[i]
      BY <1>2
    <2>3. PICK x \in Nat : x = at[i - 1]
      BY <1>4, <2>1
    <2>4. /\ at[i] = x + 4 + Bytes[t] /\ x + 4 + Bytes[t] <= Len(s)
          /\ PieceAt(s, x, BytesOf(Int32(Chars[t])))
          /\ PieceAt(s, x + 4, BytesOfText(t))
      BY <1>1, <1>a, <1>2, <2>2, <2>3 DEF TableAt
    <2>5. Chars[t] = Bytes[t]
      BY <1>2, <2>2
    <2>6. PICK before : before = a[i - 1]
      OBVIOUS
    <2>7. /\ before.p = x /\ before.failed = FALSE
          /\ before.texts = [k \in 1 .. i - 1 |-> table[k]]
      BY <1>5, <2>1, <2>3, <2>6
    <2>8. StringRead(s, before) =
            [p |-> x + 4 + Bytes[t], failed |-> FALSE, texts |-> Append(before.texts, t)]
      BY <2>4, <2>5, <2>7, OneStringRead
    <2>9. Append(before.texts, t) = [k \in 1 .. i |-> table[k]]
      <3>1. PICK q \in Seq(Texts) : q = before.texts /\ Len(q) = i - 1
        <4>1. i - 1 \in Nat /\ \A k \in 1 .. i - 1 : table[k] \in Texts
          BY <1>2
        <4>2. /\ [k \in 1 .. i - 1 |-> table[k]] \in Seq(Texts)
              /\ Len([k \in 1 .. i - 1 |-> table[k]]) = i - 1
          BY <4>1, IsASeq
        <4> QED
          BY <2>7, <4>2
      <3>2. PICK q2 \in Seq(Texts) :
              /\ q2 = Append(q, t) /\ Len(q2) = (i - 1) + 1
              /\ \A k \in 1 .. i - 1 : q2[k] = q[k]
              /\ q2[(i - 1) + 1] = t
        <4>1. /\ Append(q, t) \in Seq(Texts) /\ Len(Append(q, t)) = Len(q) + 1
              /\ \A k \in 1 .. Len(q) : Append(q, t)[k] = q[k]
              /\ Append(q, t)[Len(q) + 1] = t
          BY AppendProperties
        <4> QED
          BY <3>1, <4>1
      <3>3. (i - 1) + 1 = i /\ \A k \in 1 .. i : k \in 1 .. i - 1 \/ k = i
        OBVIOUS
      <3>4. \A k \in 1 .. i : (IF k = i THEN t ELSE q[k]) = table[k]
        BY <2>2, <2>7, <3>1
      <3>5. q2 = [k \in 1 .. Len(q2) |-> q2[k]]
        BY LenProperties
      <3>6. \A k \in 1 .. i : q2[k] = IF k = i THEN t ELSE q[k]
        BY <3>2, <3>3
      <3> QED
        BY <3>1, <3>2, <3>3, <3>4, <3>5, <3>6
    <2>10. a[i] = [p |-> at[i], texts |-> [k \in 1 .. i |-> table[k]], failed |-> FALSE]
      BY <1>5, <2>1
    <2> QED
      BY <2>4, <2>6, <2>8, <2>9, <2>10
  <1> DEFINE Init1 == [p |-> start, texts |-> <<>>, failed |-> FALSE]
             step(h, i) == IF i = 0 THEN Init1 ELSE StringRead(s, h[i - 1])
  <1>7. a = [i \in 0 .. n |-> step(a, i)]
    <2>1. a[0] = Init1
      <3>1. [k \in 1 .. 0 |-> table[k]] = <<>>
        OBVIOUS
      <3>2. 0 \in 0 .. n
        OBVIOUS
      <3>3. a[0] = [p |-> at[0], texts |-> [k \in 1 .. 0 |-> table[k]], failed |-> FALSE]
        BY <1>5, <3>2
      <3> QED
        BY <1>4, <3>1, <3>3
    <2> HIDE DEF Init1
    <2>2. ASSUME NEW i \in 0 .. n PROVE a[i] = step(a, i)
      <3>1. i = 0 \/ i \in 1 .. n
        OBVIOUS
      <3> QED
        BY <1>6, <2>1, <3>1
    <2>3. a = [i \in 0 .. n |-> a[i]]
      BY <1>5
    <2> QED
      BY <2>2, <2>3
  <1>8. PICK h : h = [i \in 0 .. n |-> step(h, i)] /\ StringsRead(s, start, n) = h[n]
    BY <1>7 DEF StringsRead
  <1> DEFINE T == {i \in 0 .. n : h[i] = a[i]}
  <1> HIDE DEF Init1
  <1>9. 0 \in T
    <2>1. 0 \in 0 .. n
      OBVIOUS
    <2>2. h[0] = Init1 /\ a[0] = Init1
      BY <1>7, <1>8, <2>1
    <2> QED
      BY <2>1, <2>2
  <1>10. ASSUME NEW i \in 0 .. n - 1, i \in T PROVE i + 1 \in T
    <2>1. i + 1 \in 0 .. n /\ i + 1 # 0 /\ (i + 1) - 1 = i
      BY <1>2
    <2>2. h[i + 1] = StringRead(s, h[i])
      BY <1>8, <2>1
    <2>3. a[i + 1] = StringRead(s, a[i])
      BY <1>7, <2>1
    <2>4. h[i] = a[i]
      BY <1>10
    <2> QED
      BY <2>1, <2>2, <2>3, <2>4
  <1> HIDE DEF T
  <1>11. 0 .. n \subseteq T
    BY <1>2, <1>9, <1>10, InductionUpTo
  <1>12. n \in 0 .. n /\ h[n] = a[n]
    BY <1>11 DEF T
  <1>13. a[n].failed = FALSE /\ a[n].texts = [k \in 1 .. n |-> table[k]]
    BY <1>5, <1>12
  <1>14. table = [k \in 1 .. n |-> table[k]]
    BY <1>2, LenProperties DEF WriterOK
  <1> QED
    BY <1>1, <1>2, <1>3, <1>8, <1>12, <1>13, <1>14

(***************************************************************************)
(* The steps.                                                              *)
(***************************************************************************)
LEMMA InvInit == Init => CodecInv
  <1> SUFFICES ASSUME Init PROVE CodecInv
    OBVIOUS
  <1>1. NoReader /\ MessageOK
    BY DEF Init, NoReader, MessageOK
  <1> QED
    BY <1>1, WriterStarts DEF CodecInv

LEMMA Formless ==
  /\ Nothing.format = "none" /\ Undefined.format = "undefined"
  BY DEF Nothing, Undefined

LEMMA InvWrite ==
  ASSUME CodecInv, NEW v \in Values, Write(v)
  PROVE  CodecInv'
  <1>1. PICK o : Placed(o) /\ Held(o) /\ (NoReader \/ ReaderAt(o))
    BY DEF CodecInv
  <1>2. message = Nothing /\ UNCHANGED <<message, reader, read>>
    BY DEF Write
  <1>3. NoReader
    BY <1>1, <1>2, Formless DEF ReaderAt
  <1>4. NoReader' /\ MessageOK'
    BY <1>2, <1>3 DEF NoReader, MessageOK
  <1>5. WriterOK' /\ \E p : Placed(p)' /\ Held(p)'
    BY <1>1, WriteKeeps DEF CodecInv
  <1> QED
    BY <1>4, <1>5 DEF CodecInv

LEMMA InvGet ==
  ASSUME CodecInv, GetWorkerData \/ GetSocketData
  PROVE  CodecInv'
  <1>1. PICK o : Placed(o) /\ Held(o) /\ (NoReader \/ ReaderAt(o))
    BY DEF CodecInv
  <1>2. message = Nothing /\ UNCHANGED <<writer, reader, read>>
    BY DEF GetWorkerData, GetSocketData
  <1>3. NoReader
    BY <1>1, <1>2, Formless DEF ReaderAt
  <1>4. NoReader'
    BY <1>2, <1>3 DEF NoReader
  <1>5. /\ Marked' = Marked /\ SocketBytes' = SocketBytes /\ table' = table
        /\ WriterOK' /\ Placed(o)' /\ Held(o)'
    BY <1>1, <1>2, WriterRests DEF CodecInv, writer
  <1>6. MessageOK'
    BY <1>5 DEF MessageOK, GetWorkerData, GetSocketData
  <1> QED
    BY <1>4, <1>5, <1>6 DEF CodecInv

\* What holds of a reader that has read nothing.
LEMMA ReaderOpens ==
  ASSUME WriterOK, NEW o, Placed(o),
         message.format \in {"worker", "socket"}, read = <<>>,
         UNCHANGED <<writer, message, read>>,
         DOMAIN reader' = ReaderFields, reader'.format = message.format,
         reader'.length = position - Header,
         reader'.ints = IF reader'.format = "worker" THEN 0 ELSE Header,
         reader'.floats = reader'.ints,
         reader'.position + reader'.ints = Header, reader'.position \in Nat,
         \A i \in Header + 1 .. position : reader'.words[i] = words[i],
         Plain => reader'.failed = FALSE /\ reader'.strings = table
  PROVE  ReaderAt(o)'
  <1>1. /\ words' = words /\ position' = position /\ table' = table /\ written' = written
        /\ message' = message /\ read' = <<>>
    BY DEF writer
  <1>2. Len(<<>>) = 0 /\ <<>> \in Seq({}) /\ Len(written) \in Nat
    BY EmptySeq, WriterLengths
  <1>3. o[0] = Header
    BY DEF Placed
  <1>4. Plain' => Plain
    BY <1>1 DEF Plain
  <1>5. Len(read') \in 0 .. Len(written') /\ \E S : read' \in Seq(S)
    BY <1>1, <1>2
  <1>6. reader'.position + reader'.ints = o[Len(read')]
    BY <1>1, <1>2, <1>3
  <1>7. Plain' => /\ reader'.failed = FALSE /\ reader'.strings = table'
                  /\ \A i \in 1 .. Len(read') : read'[i] = written'[i]
    BY <1>1, <1>2, <1>4
  <1> QED
    BY <1>1, <1>5, <1>6, <1>7 DEF ReaderAt

LEMMA InvOpenWorkerData ==
  ASSUME CodecInv, OpenWorkerData
  PROVE  CodecInv'
  <1>1. PICK o : Placed(o) /\ Held(o) /\ (NoReader \/ ReaderAt(o))
    BY DEF CodecInv
  <1>2. /\ message.format = "worker" /\ reader = Nothing
        /\ UNCHANGED <<writer, message, read>>
    BY DEF OpenWorkerData
  <1>3. NoReader
    BY <1>1, <1>2, Formless DEF ReaderAt
  <1>4. message.words = Marked /\ message.strings = table
    BY <1>2, Formless DEF CodecInv, MessageOK
  <1>5. /\ WriterOK' /\ Placed(o)' /\ Held(o)' /\ MessageOK'
    BY <1>1, <1>2, WriterRests DEF CodecInv, MessageOK, writer
  <1>6. /\ DOMAIN reader' = ReaderFields /\ reader'.format = "worker"
        /\ reader'.length = Marked[3].v /\ reader'.words = Marked
        /\ reader'.ints = 0 /\ reader'.floats = 0 /\ reader'.position = Header
        /\ reader'.strings = table /\ reader'.failed = FALSE
    BY <1>4 DEF OpenWorkerData, ReaderFields
  <1>7. Marked[3].v = position - Header
    BY MarkedFacts, WriterLengths DEF CodecInv, Int32
  <1>8. \A i \in Header + 1 .. position : Marked[i] = words[i]
    BY MarkedFacts, WriterLengths DEF CodecInv, Header
  <1>9. ReaderAt(o)'
    <2>1. /\ WriterOK /\ Placed(o) /\ message.format \in {"worker", "socket"}
          /\ read = <<>> /\ UNCHANGED <<writer, message, read>>
          /\ DOMAIN reader' = ReaderFields /\ reader'.format = message.format
      BY <1>1, <1>2, <1>3, <1>6 DEF CodecInv, NoReader
    <2>2. /\ reader'.length = position - Header
          /\ reader'.ints = IF reader'.format = "worker" THEN 0 ELSE Header
          /\ reader'.floats = reader'.ints
          /\ reader'.position + reader'.ints = Header /\ reader'.position \in Nat
      BY <1>6, <1>7 DEF Header
    <2>3. /\ \A i \in Header + 1 .. position : reader'.words[i] = words[i]
          /\ Plain => reader'.failed = FALSE /\ reader'.strings = table
      BY <1>6, <1>8
    <2> QED
      BY <2>1, <2>2, <2>3, ReaderOpens
  <1> QED
    BY <1>5, <1>9 DEF CodecInv

LEMMA InvOpenSocketData ==
  ASSUME CodecInv, OpenSocketData
  PROVE  CodecInv'
  <1>1. PICK o : Placed(o) /\ Held(o) /\ (NoReader \/ ReaderAt(o))
    BY DEF CodecInv
  <1>2. /\ message.format = "socket" /\ reader = Nothing
        /\ UNCHANGED <<writer, message, read>>
    BY DEF OpenSocketData
  <1>3. NoReader
    BY <1>1, <1>2, Formless DEF ReaderAt
  <1>4. message.bytes = SocketBytes
    BY <1>2, Formless DEF CodecInv, MessageOK
  <1>5. /\ WriterOK' /\ Placed(o)' /\ Held(o)' /\ MessageOK'
    BY <1>1, <1>2, WriterRests DEF CodecInv, MessageOK, writer
  <1>6. WriterOK
    BY DEF CodecInv
  <1>7. PICK bytes : bytes = SocketBytes
    OBVIOUS
  <1>8. PICK n \in Nat, p \in Nat : n = Len(bytes) \div 4 /\ p = position
    BY <1>6, <1>7, SocketWords, WriterLengths
  <1>9. /\ n >= p /\ (n > p <=> table # <<>>) /\ p >= Header /\ p <= Len(words)
        /\ Len(words) \in Nat
        /\ \A i \in 1 .. p :
             /\ bytes[4 * (i - 1) + 1].of = Marked[i]
             /\ \A v \in Int : Marked[i] = Int32(v) => IntAt(bytes, 4 * (i - 1)) = Int32(v)
        /\ table # <<>> => IntAt(bytes, 4 * p) = Int32(Len(table))
    BY <1>6, <1>7, <1>8, SocketWords, WriterLengths
  <1> DEFINE ints == [i \in 1 .. n |-> IntAt(bytes, 4 * (i - 1))]
             cells == [i \in 1 .. n |-> bytes[4 * (i - 1) + 1].of]
             length == ints[3].v
             some == Len(ints) > Header + length
             strings == IF some
                          THEN StringsRead(bytes, 4 * (Header + 1 + length),
                                           ints[Header + length + 1].v)
                          ELSE [texts |-> <<>>, failed |-> FALSE]
  <1>10. reader' = [format |-> "socket", failed |-> strings.failed,
                    version |-> ints[1].v, flags |-> ints[2].v, length |-> length,
                    words |-> cells, limit |-> length,
                    ints |-> Header, floats |-> Header, position |-> 0,
                    strings |-> strings.texts]
    BY <1>4, <1>7, <1>8 DEF OpenSocketData
  <1>11. length = p - Header
    <2>1. 3 \in 1 .. p /\ 3 \in 1 .. n /\ p - Header \in Int
      BY <1>9 DEF Header
    <2>2. Marked[3] = Int32(p - Header)
      BY <1>6, <1>8, MarkedFacts
    <2>3. IntAt(bytes, 4 * (3 - 1)) = Int32(p - Header)
      BY <1>9, <2>1, <2>2
    <2>4. ints[3] = Int32(p - Header)
      BY <2>1, <2>3
    <2> QED
      BY <2>4 DEF Int32
  <1>12. Len(ints) = n
    BY LenProperties
  <1>13. some <=> table # <<>>
    <2>1. Header + (p - Header) = p
      BY DEF Header
    <2> QED
      BY <1>9, <1>11, <1>12, <2>1
  <1>14. \A i \in Header + 1 .. p : cells[i] = words[i]
    <2>1. ASSUME NEW i \in Header + 1 .. p PROVE cells[i] = words[i]
      <3>1. i \in 1 .. p /\ i \in 1 .. n /\ i \in Header + 1 .. Len(words)
        BY <1>9 DEF Header
      <3>2. cells[i] = Marked[i]
        BY <1>9, <3>1
      <3> QED
        BY <1>6, <3>1, <3>2, MarkedFacts
    <2> QED
      BY <2>1
  <1>15. ASSUME Plain PROVE strings.texts = table /\ strings.failed = FALSE
    <2>1. \A i \in 1 .. Len(table) : Chars[table[i]] = Bytes[table[i]]
      BY <1>2, <1>15 DEF Plain
    <2>2. CASE table = <<>>
      BY <1>13, <2>2
    <2>3. CASE table # <<>>
      <3>1. 4 * (Header + 1 + length) = 4 * position + 4 /\ Header + length + 1 = p + 1
        BY <1>8, <1>11 DEF Header
      <3>2. ints[p + 1].v = Len(table)
        <4>1. p + 1 \in 1 .. n /\ (p + 1) - 1 = p
          BY <1>9, <2>3
        <4>2. ints[p + 1] = IntAt(bytes, 4 * p)
          BY <4>1
        <4> QED
          BY <1>9, <2>3, <4>2 DEF Int32
      <3>3. strings = StringsRead(bytes, 4 * position + 4, Len(table))
        BY <1>13, <2>3, <3>1, <3>2
      <3> HIDE DEF strings
      <3> QED
        BY <1>6, <1>7, <2>1, <2>3, <3>3, TableIsRead
    <2> QED
      BY <2>2, <2>3
  <1> HIDE DEF ints, cells, length, strings
  <1>16. /\ DOMAIN reader' = ReaderFields /\ reader'.format = "socket"
         /\ reader'.length = position - Header /\ reader'.words = cells
         /\ reader'.ints = Header /\ reader'.floats = Header /\ reader'.position = 0
         /\ reader'.strings = strings.texts /\ reader'.failed = strings.failed
    BY <1>8, <1>10, <1>11 DEF ReaderFields
  <1>17. ReaderAt(o)'
    <2>1. /\ WriterOK /\ Placed(o) /\ message.format \in {"worker", "socket"}
          /\ read = <<>> /\ UNCHANGED <<writer, message, read>>
          /\ DOMAIN reader' = ReaderFields /\ reader'.format = message.format
      BY <1>1, <1>2, <1>3, <1>6, <1>16 DEF NoReader
    <2>2. /\ reader'.length = position - Header
          /\ reader'.ints = IF reader'.format = "worker" THEN 0 ELSE Header
          /\ reader'.floats = reader'.ints
          /\ reader'.position + reader'.ints = Header /\ reader'.position \in Nat
      BY <1>16 DEF Header
    <2>3. /\ \A i \in Header + 1 .. position : reader'.words[i] = words[i]
          /\ Plain => reader'.failed = FALSE /\ reader'.strings = table
      BY <1>8, <1>14, <1>15, <1>16
    <2> QED
      BY <2>1, <2>2, <2>3, ReaderOpens
  <1> QED
    BY <1>5, <1>17 DEF CodecInv

\* What the reader takes from the words at its position is the next value.
LEMMA ValueComesBack ==
  ASSUME WriterOK, NEW o, Placed(o), Held(o), ReaderAt(o), Plain, Len(read) < Len(written)
  PROVE  ValueAt(written[Len(read) + 1].kind) = written[Len(read) + 1]
  <1>1. PICK n \in Nat : n = Len(read) /\ n + 1 \in 1 .. Len(written)
    BY WriterLengths DEF ReaderAt
  <1>2. PICK v \in Values : v = written[n + 1]
    BY <1>1, WriterLengths
  <1>3. /\ n \in 0 .. Len(written) /\ n + 1 \in 0 .. Len(written) /\ (n + 1) - 1 = n
        /\ Len(written) \in Nat
    BY <1>1, WriterLengths
  <1>4. PICK x \in Nat, p \in Nat : x = o[n] /\ p = position
    BY <1>3, WriterLengths DEF Placed
  <1>5. o[n + 1] = x + Size(v.kind) /\ o[n + 1] \in Nat
    BY <1>1, <1>2, <1>3, <1>4 DEF Placed
  <1>6. Header + n <= x /\ o[n + 1] + (Len(written) - (n + 1)) <= p
    BY <1>3, <1>4 DEF Placed
  <1>7. Header <= x /\ x + Size(v.kind) <= p
    <2>1. o[n + 1] <= p
      BY <1>1, <1>3, <1>5, <1>6
    <2> QED
      BY <1>5, <1>6, <2>1 DEF Header
  <1>8. ValueHeld(v, words, x, table)
    BY <1>1, <1>2, <1>3, <1>4 DEF Held
  <1>9. reader.ints + reader.position = x /\ reader.floats + reader.position = x
    <2>1. reader.position \in Nat /\ reader.ints \in Nat /\ reader.floats = reader.ints
      BY DEF ReaderAt, Header
    <2>2. reader.position + reader.ints = x
      BY <1>1, <1>4 DEF ReaderAt
    <2> QED
      BY <2>1, <2>2
  <1>10. ASSUME NEW k \in 1 .. Size(v.kind)
         PROVE  reader.words[reader.ints + reader.position + k] = words[x + k]
    <2>1. Size(v.kind) \in Nat
      BY DEF Size
    <2>2. x + k \in Header + 1 .. position
      BY <1>4, <1>7, <2>1 DEF Header
    <2>3. reader.words[x + k] = words[x + k]
      BY <2>2 DEF ReaderAt
    <2> QED
      BY <1>9, <2>3
  <1>11. reader.words[x + 1] = words[x + 1]
    <2>1. 1 \in 1 .. Size(v.kind)
      BY DEF Size
    <2> QED
      BY <1>9, <1>10, <2>1
  <1>12. CASE v.kind = "int"
    BY <1>1, <1>2, <1>8, <1>9, <1>11, <1>12 DEF ValueAt, ValueHeld
  <1>13. CASE v.kind = "float"
    BY <1>1, <1>2, <1>8, <1>9, <1>11, <1>13 DEF ValueAt, ValueHeld
  <1>14. CASE v.kind = "long"
    <2>1. v = [kind |-> "long", v |-> v.v] /\ v.v \in Longs
      BY <1>14, ValueKinds
    <2>2. \A k \in 1 .. 3 :
            reader.words[reader.ints + reader.position + k] = Int32(ToLimbs(v.v)[k])
      BY <1>8, <1>10, <1>14 DEF ValueHeld, Size
    <2>3. ValueAt("long") =
            [kind |-> "long",
             v |-> FromLimbs([k \in 1 .. 3 |->
                                reader.words[reader.ints + reader.position + k].v])]
      BY DEF ValueAt
    <2>4. PICK a : a = [k \in 1 .. 3 |-> reader.words[reader.ints + reader.position + k].v]
      OBVIOUS
    <2>5. \A k \in 1 .. 3 : a[k] = ToLimbs(v.v)[k]
      BY <2>2, <2>4 DEF Int32
    <2>6. FromLimbs(a) = FromLimbs(ToLimbs(v.v))
      BY <2>5 DEF FromLimbs
    <2>7. FromLimbs(ToLimbs(v.v)) = v.v
      BY <2>1, LimbsCarryLongs DEF LongsSurvive
    <2> QED
      BY <1>1, <1>2, <1>14, <2>1, <2>3, <2>4, <2>6, <2>7
  <1>15. CASE v.kind = "string"
    <2>1. v = [kind |-> "string", v |-> v.v]
      BY <1>15, ValueKinds
    <2>2. PICK i \in 1 .. Len(table) : table[i] = v.v /\ words[x + 1] = Int32(i)
      BY <1>8, <1>15 DEF ValueHeld
    <2>3. ValueAt("string") =
            [kind |-> "string",
             v |-> reader.strings[reader.words[reader.ints + reader.position + 1].v]]
      BY DEF ValueAt
    <2>4. reader.words[reader.ints + reader.position + 1].v = i
      BY <1>9, <1>11, <2>2 DEF Int32
    <2>5. reader.strings = table
      BY DEF ReaderAt
    <2> QED
      BY <1>1, <1>2, <1>15, <2>1, <2>2, <2>3, <2>4, <2>5
  <1> QED
    BY <1>12, <1>13, <1>14, <1>15, ValueKinds

LEMMA InvRead ==
  ASSUME CodecInv, Read
  PROVE  CodecInv'
  <1>1. PICK o : Placed(o) /\ Held(o) /\ (NoReader \/ ReaderAt(o))
    BY DEF CodecInv
  <1>2. reader # Nothing /\ Len(read) < Len(written) /\ UNCHANGED <<writer, message>>
    BY DEF Read
  <1>3. WriterOK /\ ReaderAt(o)
    BY <1>1, <1>2 DEF NoReader, CodecInv
  <1>4. /\ WriterOK' /\ Placed(o)' /\ Held(o)' /\ MessageOK'
        /\ words' = words /\ position' = position /\ table' = table /\ written' = written
        /\ message' = message
    BY <1>1, <1>2, WriterRests DEF CodecInv, MessageOK, writer
  <1>5. PICK n \in Nat : n = Len(read) /\ n + 1 \in 1 .. Len(written)
    BY <1>2, <1>3, WriterLengths DEF ReaderAt
  <1>6. PICK v : v = written[n + 1]
    OBVIOUS
  <1>7. PICK value : value = ValueAt(v.kind) /\ read' = Append(read, value)
    BY <1>5, <1>6 DEF Read
  <1>8. reader' = [reader EXCEPT !.position = @ + Size(v.kind)]
    BY <1>5, <1>6 DEF Read, Size
  <1>9. PICK S : read \in Seq(S)
    BY <1>3 DEF ReaderAt
  <1>10. /\ read' \in Seq(S \cup {value}) /\ Len(read') = n + 1
         /\ \A i \in 1 .. n : read'[i] = read[i]
         /\ read'[n + 1] = value
    <2>1. PICK V : V = S \cup {value}
      OBVIOUS
    <2>2. read \in Seq(V)
      <3>1. S \subseteq V
        BY <2>1
      <3> QED
        BY <1>5, <1>9, <3>1, LenProperties, ElementOfSeq, IsASeq
    <2>3. value \in V
      BY <2>1
    <2>4. /\ Append(read, value) \in Seq(V) /\ Len(Append(read, value)) = Len(read) + 1
          /\ \A i \in 1 .. Len(read) : Append(read, value)[i] = read[i]
          /\ Append(read, value)[Len(read) + 1] = value
      BY <2>2, <2>3, AppendProperties
    <2> QED
      BY <1>5, <1>7, <2>1, <2>4
  <1>11. DOMAIN reader = ReaderFields /\ "position" \in ReaderFields
    BY <1>3 DEF ReaderAt, ReaderFields
  <1>12. /\ DOMAIN reader' = ReaderFields /\ reader'.position = reader.position + Size(v.kind)
         /\ reader'.format = reader.format /\ reader'.length = reader.length
         /\ reader'.ints = reader.ints /\ reader'.floats = reader.floats
         /\ reader'.words = reader.words /\ reader'.failed = reader.failed
         /\ reader'.strings = reader.strings
    BY <1>8, <1>11 DEF ReaderFields
  <1>13. Len(read') \in 0 .. Len(written') /\ \E R : read' \in Seq(R)
    BY <1>4, <1>5, <1>10
  <1>14. reader'.position \in Nat /\ reader'.position + reader'.ints = o[Len(read')]
    <2>1. PICK x \in Nat, y \in Nat, s \in Nat :
            x = reader.position /\ y = reader.ints /\ s = Size(v.kind)
      BY <1>3 DEF ReaderAt, Header, Size
    <2>2. x + y = o[n]
      BY <1>3, <1>5, <2>1 DEF ReaderAt
    <2>3. o[n + 1] = o[n] + s
      <3>1. (n + 1) - 1 = n
        OBVIOUS
      <3> QED
        BY <1>1, <1>5, <1>6, <2>1, <3>1 DEF Placed
    <2>4. (x + s) + y = (x + y) + s
      OBVIOUS
    <2> QED
      BY <1>10, <1>12, <2>1, <2>2, <2>3, <2>4
  <1>15. ASSUME Plain'
         PROVE  /\ reader'.failed = FALSE /\ reader'.strings = table'
                /\ \A i \in 1 .. Len(read') : read'[i] = written'[i]
    <2>1. Plain
      BY <1>4, <1>15 DEF Plain
    <2>2. /\ reader.failed = FALSE /\ reader.strings = table
          /\ \A i \in 1 .. n : read[i] = written[i]
      BY <1>3, <1>5, <2>1 DEF ReaderAt
    <2>3. value = written[n + 1]
      BY <1>1, <1>2, <1>3, <1>5, <1>6, <1>7, <2>1, ValueComesBack
    <2>4. \A i \in 1 .. n + 1 : i \in 1 .. n \/ i = n + 1
      OBVIOUS
    <2> QED
      BY <1>4, <1>10, <1>12, <2>2, <2>3, <2>4
  <1>16. ReaderAt(o)'
    <2>1. /\ message'.format \in {"worker", "socket"} /\ reader'.format = message'.format
          /\ reader'.length = position' - Header
          /\ reader'.ints = IF reader'.format = "worker" THEN 0 ELSE Header
          /\ reader'.floats = reader'.ints
          /\ \A i \in Header + 1 .. position' : reader'.words[i] = words'[i]
      BY <1>3, <1>4, <1>12 DEF ReaderAt
    <2> QED
      BY <1>12, <1>13, <1>14, <1>15, <2>1 DEF ReaderAt
  <1> QED
    BY <1>4, <1>16 DEF CodecInv

LEMMA InvNext == CodecInv /\ [Next]_vars => CodecInv'
  <1> SUFFICES ASSUME CodecInv, [Next]_vars PROVE CodecInv'
    OBVIOUS
  <1>1. ASSUME NEW v \in Values, Write(v) PROVE CodecInv'
    BY <1>1, InvWrite
  <1>2. CASE GetWorkerData \/ GetSocketData
    BY <1>2, InvGet
  <1>3. CASE OpenWorkerData
    BY <1>3, InvOpenWorkerData
  <1>4. CASE OpenSocketData
    BY <1>4, InvOpenSocketData
  <1>5. CASE Read
    BY <1>5, InvRead
  <1>6. CASE UNCHANGED vars
    <2>1. UNCHANGED <<writer, message, reader, read>>
      BY <1>6 DEF vars
    <2>2. /\ words' = words /\ position' = position /\ table' = table /\ written' = written
      BY <2>1 DEF writer
    <2>3. PICK o : Placed(o) /\ Held(o) /\ (NoReader \/ ReaderAt(o))
      BY DEF CodecInv
    <2>4. WriterOK' /\ Placed(o)' /\ Held(o)' /\ MessageOK'
      BY <2>1, <2>2, <2>3, WriterRests DEF CodecInv, MessageOK
    <2>5. NoReader' \/ ReaderAt(o)'
      BY <2>1, <2>2, <2>3 DEF NoReader, ReaderAt, Plain
    <2> QED
      BY <2>4, <2>5 DEF CodecInv
  <1> QED
    BY <1>1, <1>2, <1>3, <1>4, <1>5, <1>6 DEF Next

LEMMA InvHolds == Spec => []CodecInv
  BY InvInit, InvNext, PTL DEF Spec

(***************************************************************************)
(* The theorems.                                                           *)
(***************************************************************************)
\* Of all words, strings and formats of a message, StreamWriter and StreamReader have
\* no others than those of TypeOK.
THEOREM TypeCorrect == Spec => []TypeOK
  <1>1. CodecInv => TypeOK
    <2> SUFFICES ASSUME CodecInv PROVE TypeOK
      OBVIOUS
    <2>1. PICK o : Placed(o) /\ Held(o) /\ (NoReader \/ ReaderAt(o))
      BY DEF CodecInv
    <2>2. WriterOK
      BY DEF CodecInv
    <2>3. \A i \in 1 .. Len(words) : CellOK(words[i])
      BY <2>2, WriterLengths, CellsAreOK
    <2>4. \A i \in DOMAIN table : table[i] \in Texts
      BY <2>2, WriterLengths, LenProperties DEF WriterOK
    <2>5. position \in Header .. Len(words) /\ Len(written) <= MaxWrites
      BY <2>2 DEF WriterOK
    <2>6. Len(read) <= Len(written)
      <3>1. CASE NoReader
        BY <2>2, <3>1, EmptySeq, WriterLengths DEF NoReader
      <3>2. CASE ReaderAt(o)
        BY <2>2, <3>2, WriterLengths DEF ReaderAt
      <3> QED
        BY <2>1, <3>1, <3>2
    <2>7. message.format \in {"none", "undefined"} \cup Formats
      BY Formless DEF CodecInv, MessageOK
    <2>8. reader.format \in {"none", message.format}
      BY <2>1, Formless DEF NoReader, ReaderAt
    <2> QED
      BY <2>3, <2>4, <2>5, <2>6, <2>7, <2>8 DEF TypeOK
  <1> QED
    BY <1>1, InvHolds, PTL

\* Whatever is written, and whatever becomes of the strings, a reader has read all
\* values when it is where the header says that the payload ends, and not before.
THEOREM EndIsWhereItIsSaid == Spec => []EndsAtLength
  <1>1. CodecInv => EndsAtLength
    <2> SUFFICES ASSUME CodecInv, reader # Nothing
                 PROVE  LET start == IF reader.format = "worker" THEN Header ELSE 0
                        IN  /\ reader.position <= start + reader.length
                            /\ reader.position = start + reader.length
                                 <=> Len(read) = Len(written)
      BY DEF EndsAtLength
    <2>1. PICK o : Placed(o) /\ ReaderAt(o)
      BY DEF CodecInv, NoReader
    <2>2. PICK m \in Nat, p \in Nat, n \in Nat, x \in Nat, l \in Nat :
            /\ m = Len(written) /\ p = position /\ n = Len(read) /\ n <= m
            /\ x = reader.position /\ l = reader.length
      <3>1. Len(written) \in Nat /\ position \in Nat /\ position - Header \in Nat
        BY WriterLengths DEF CodecInv, Header
      <3>2. Len(read) \in 0 .. Len(written) /\ reader.length = position - Header
            /\ reader.position \in Nat
        BY <2>1 DEF ReaderAt
      <3> QED
        BY <3>1, <3>2
    <2>3. PICK start \in 0 .. Header :
            /\ start = IF reader.format = "worker" THEN Header ELSE 0
            /\ reader.ints = Header - start
      BY <2>1 DEF ReaderAt, Header
    <2>4. PICK y \in Nat : y = o[n] /\ y + (m - n) <= p /\ o[m] = p
      BY <2>1, <2>2 DEF Placed
    <2>5. x + (Header - start) = y /\ l = p - Header
      BY <2>1, <2>2, <2>3, <2>4 DEF ReaderAt
    <2>6. x <= start + l
      BY <2>2, <2>3, <2>4, <2>5 DEF Header
    <2>7. x = start + l => n = m
      BY <2>2, <2>3, <2>4, <2>5 DEF Header
    <2>8. n = m => x = start + l
      BY <2>2, <2>3, <2>4, <2>5 DEF Header
    <2> QED
      BY <2>2, <2>3, <2>6, <2>7, <2>8
  <1> QED
    BY <1>1, InvHolds, PTL

LEMMA PlainIsReadBack == CodecInv => (Plain => ReadsWhatWasWritten)
  <1> SUFFICES ASSUME CodecInv, Plain PROVE ReadsWhatWasWritten
    OBVIOUS
  <1>1. PICK o : NoReader \/ ReaderAt(o)
    BY DEF CodecInv
  <1>2. CASE NoReader
    BY <1>2 DEF NoReader, ReadsWhatWasWritten
  <1>3. CASE ReaderAt(o)
    <2>1. DOMAIN read = 1 .. Len(read)
      BY <1>3, LenProperties DEF ReaderAt
    <2> QED
      BY <1>3, <2>1 DEF ReaderAt, ReadsWhatWasWritten
  <1> QED
    BY <1>1, <1>2, <1>3

\* A message is read as it was written if it goes by a port, or if each of its strings
\* has as many bytes as chars.
THEOREM PlainMessagesAreReadBack == Spec => [](Plain => ReadsWhatWasWritten)
  BY InvHolds, PlainIsReadBack, PTL

\* With such strings only, or ports only, every message is.
THEOREM AllIsReadBack ==
  ASSUME (\A t \in Texts : Chars[t] = Bytes[t]) \/ "socket" \notin Formats
  PROVE  Spec => []ReadsWhatWasWritten
  <1>1. CodecInv => ReadsWhatWasWritten
    <2> SUFFICES ASSUME CodecInv PROVE ReadsWhatWasWritten
      OBVIOUS
    <2>1. CASE \A t \in Texts : Chars[t] = Bytes[t]
      <3>1. Plain
        BY <2>1, WriterLengths DEF Plain, CodecInv
      <3> QED
        BY <3>1, PlainIsReadBack
    <2>2. CASE "socket" \notin Formats
      <3>1. PICK o : NoReader \/ ReaderAt(o)
        BY DEF CodecInv
      <3>2. CASE NoReader
        BY <3>2 DEF NoReader, ReadsWhatWasWritten
      <3>3. CASE ReaderAt(o)
        <4>1. message.format = "worker"
          BY <2>2, <3>3, Formless DEF CodecInv, MessageOK, ReaderAt
        <4> QED
          BY <4>1, PlainIsReadBack DEF Plain
      <3> QED
        BY <3>1, <3>2, <3>3
    <2> QED
      BY <2>1, <2>2
  <1> QED
    BY <1>1, InvHolds, PTL
=============================================================================
