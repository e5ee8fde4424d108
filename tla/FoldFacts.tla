----------------------------- MODULE FoldFacts -----------------------------
(***************************************************************************)
(* Induction on natural numbers, and from it what a fold over a sequence   *)
(* makes of a sequence with one more element at either end.                *)
(*                                                                         *)
(* Induction is stated with a set of numbers in place of a predicate, and  *)
(* folds with a function in place of an operator: a proof then needs no    *)
(* instance of a higher-order theorem, but only the set of those n for     *)
(* which a step holds, and the function that the operator is on its types. *)
(***************************************************************************)
EXTENDS Integers, Sequences, SequencesExt, SequenceTheorems,
        WellFoundedInduction, TLAPS

Below == {ss \in Nat \X Nat : ss[1] < ss[2]}

\* A set that has 0, and with a number the next one, has them all.
LEMMA NatInductionBySet ==
  ASSUME NEW S, 0 \in S, \A n \in Nat : n \in S => n + 1 \in S
  PROVE  Nat \subseteq S
  <1> DEFINE T == Nat \ S
  <1> SUFFICES ASSUME T # {} PROVE FALSE
    OBVIOUS
  <1>1. IsWellFoundedOn(Below, Nat)
    BY NatLessThanWellFounded DEF OpToRel, Below
  <1>2. PICK n \in T : \A m \in T : <<m, n>> \notin Below
    <2>1. T \subseteq Nat
      OBVIOUS
    <2> HIDE DEF T
    <2> QED
      BY <1>1, <2>1, WFMin
  <1>3. n - 1 \in Nat /\ n - 1 \in T
    OBVIOUS
  <1>4. <<n - 1, n>> \in Below
    BY <1>3 DEF Below
  <1> QED
    BY <1>2, <1>3, <1>4

\* The same up to a bound.
LEMMA InductionUpTo ==
  ASSUME NEW n \in Nat, NEW S, 0 \in S, \A k \in 0 .. n - 1 : k \in S => k + 1 \in S
  PROVE  0 .. n \subseteq S
  <1> DEFINE T == {k \in Nat : k <= n => k \in S}
  <1>1. 0 \in T
    OBVIOUS
  <1>2. \A k \in Nat : k \in T => k + 1 \in T
    OBVIOUS
  <1> HIDE DEF T
  <1>3. Nat \subseteq T
    BY <1>1, <1>2, NatInductionBySet
  <1> QED
    BY <1>3 DEF T

(***************************************************************************)
(* Going through a sequence q from v on, by a function f, in the set S.    *)
(***************************************************************************)
Acts(f, S, E) == f \in [S -> [E -> S]]

IsRun(f, S, v, q, n, c) ==
  /\ c \in [0 .. n -> S]
  /\ c[0] = v
  /\ \A k \in 1 .. n : c[k] = f[c[k - 1]][q[k]]

Final(f, S, v, q) == (CHOOSE c : IsRun(f, S, v, q, Len(q), c))[Len(q)]

LEMMA RunExists ==
  ASSUME NEW S, NEW E, NEW f, Acts(f, S, E), NEW v \in S, NEW q \in Seq(E)
  PROVE  \E c : IsRun(f, S, v, q, Len(q), c)
  <1>1. PICK n \in Nat : n = Len(q) /\ \A i \in 1 .. n : q[i] \in E
    BY LenProperties, ElementOfSeq
  <1> DEFINE T == {k \in 0 .. n : \E c \in [0 .. k -> S] : IsRun(f, S, v, q, k, c)}
  <1>2. 0 \in T
    <2> DEFINE c == [k \in 0 .. 0 |-> v]
    <2>1. c \in [0 .. 0 -> S] /\ c[0] = v
      OBVIOUS
    <2> HIDE DEF c
    <2>2. IsRun(f, S, v, q, 0, c)
      BY <2>1 DEF IsRun
    <2> QED
      BY <2>1, <2>2
  <1>3. ASSUME NEW k \in 0 .. n - 1, k \in T PROVE k + 1 \in T
    <2>1. PICK c \in [0 .. k -> S] : IsRun(f, S, v, q, k, c)
      BY <1>3
    <2>2. PICK x \in S : x = f[c[k]][q[k + 1]]
      <3>1. c[k] \in S /\ q[k + 1] \in E
        BY <1>1, <2>1
      <3> QED
        BY <3>1 DEF Acts
    <2> DEFINE d == [j \in 0 .. k + 1 |-> IF j = k + 1 THEN x ELSE c[j]]
    <2>3. d \in [0 .. k + 1 -> S]
      <3>1. \A j \in 0 .. k + 1 : j = k + 1 \/ j \in 0 .. k
        BY <1>1
      <3> QED
        BY <3>1
    <2>4. ASSUME NEW j \in 1 .. k + 1 PROVE d[j] = f[d[j - 1]][q[j]]
      <3>1. CASE j = k + 1
        <4>1. d[j] = x /\ d[j - 1] = c[k]
          BY <1>1, <3>1
        <4> QED
          BY <2>2, <3>1, <4>1
      <3>2. CASE j \in 1 .. k
        <4>1. j # k + 1 /\ j - 1 # k + 1 /\ j \in 0 .. k + 1 /\ j - 1 \in 0 .. k + 1
          BY <1>1, <3>2
        <4>2. d[j] = c[j] /\ d[j - 1] = c[j - 1]
          BY <4>1
        <4>3. c[j] = f[c[j - 1]][q[j]]
          BY <2>1, <3>2 DEF IsRun
        <4> QED
          BY <4>2, <4>3
      <3> QED
        BY <3>1, <3>2
    <2>5. d[0] = v
      BY <1>1, <2>1 DEF IsRun
    <2> HIDE DEF d
    <2>6. IsRun(f, S, v, q, k + 1, d)
      BY <2>3, <2>4, <2>5 DEF IsRun
    <2> QED
      BY <1>1, <2>3, <2>6
  <1> HIDE DEF T
  <1>4. 0 .. n \subseteq T
    BY <1>1, <1>2, <1>3, InductionUpTo
  <1>5. n \in T
    BY <1>1, <1>4
  <1> QED
    BY <1>1, <1>5 DEF T

LEMMA FinalIsLast ==
  ASSUME NEW S, NEW E, NEW f, Acts(f, S, E), NEW v \in S, NEW q \in Seq(E)
  PROVE  \E c : IsRun(f, S, v, q, Len(q), c) /\ Final(f, S, v, q) = c[Len(q)]
  <1>1. \E c : IsRun(f, S, v, q, Len(q), c)
    BY RunExists
  <1> QED
    BY <1>1 DEF Final

LEMMA RunIsUnique ==
  ASSUME NEW S, NEW E, NEW f, Acts(f, S, E), NEW v \in S, NEW q \in Seq(E),
         NEW c, IsRun(f, S, v, q, Len(q), c)
  PROVE  Final(f, S, v, q) = c[Len(q)]
  <1>1. PICK n \in Nat : n = Len(q)
    BY LenProperties
  <1>2. PICK d : IsRun(f, S, v, q, n, d) /\ Final(f, S, v, q) = d[n]
    BY <1>1, FinalIsLast
  <1> DEFINE T == {k \in 0 .. n : c[k] = d[k]}
  <1>3. 0 \in T
    BY <1>1, <1>2 DEF IsRun
  <1>4. ASSUME NEW k \in 0 .. n - 1, k \in T PROVE k + 1 \in T
    <2>1. k + 1 \in 1 .. n /\ (k + 1) - 1 = k /\ k + 1 \in 0 .. n
      BY <1>1
    <2>2. c[k + 1] = f[c[k]][q[k + 1]] /\ d[k + 1] = f[d[k]][q[k + 1]]
      BY <1>1, <1>2, <2>1 DEF IsRun
    <2>3. c[k] = d[k]
      BY <1>4
    <2> QED
      BY <2>1, <2>2, <2>3
  <1> HIDE DEF T
  <1>5. 0 .. n \subseteq T
    BY <1>1, <1>3, <1>4, InductionUpTo
  <1>6. n \in T
    BY <1>1, <1>5
  <1> QED
    BY <1>1, <1>2, <1>6 DEF T

(***************************************************************************)
(* The end of a run through a sequence that is changed at one of its ends. *)
(***************************************************************************)
LEMMA FinalOfEmpty ==
  ASSUME NEW S, NEW E, NEW f, Acts(f, S, E), NEW v \in S
  PROVE  Final(f, S, v, <<>>) = v
  <1>1. PICK none \in Seq(E) : none = <<>> /\ Len(none) = 0
    BY EmptySeq
  <1>2. PICK c : IsRun(f, S, v, none, Len(none), c) /\ Final(f, S, v, none) = c[Len(none)]
    BY FinalIsLast
  <1> QED
    BY <1>1, <1>2 DEF IsRun

LEMMA FinalIsIn ==
  ASSUME NEW S, NEW E, NEW f, Acts(f, S, E), NEW v \in S, NEW q \in Seq(E)
  PROVE  Final(f, S, v, q) \in S
  <1>1. PICK c : IsRun(f, S, v, q, Len(q), c) /\ Final(f, S, v, q) = c[Len(q)]
    BY FinalIsLast
  <1>2. c \in [0 .. Len(q) -> S] /\ Len(q) \in 0 .. Len(q)
    BY <1>1, LenProperties DEF IsRun
  <1> QED
    BY <1>1, <1>2

LEMMA FinalOfAppend ==
  ASSUME NEW S, NEW E, NEW f, Acts(f, S, E), NEW v \in S, NEW q \in Seq(E),
         NEW e \in E
  PROVE  Final(f, S, v, Append(q, e)) = f[Final(f, S, v, q)][e]
  <1>1. PICK n \in Nat : n = Len(q)
    BY LenProperties
  <1> DEFINE a == Append(q, e)
  <1>2. /\ a \in Seq(E) /\ Len(a) = n + 1
        /\ a[n + 1] = e /\ \A k \in 1 .. n : a[k] = q[k]
    BY <1>1, AppendProperties
  <1> HIDE DEF a
  <1>3. PICK c : IsRun(f, S, v, q, n, c) /\ Final(f, S, v, q) = c[n]
    BY <1>1, FinalIsLast
  <1>4. c \in [0 .. n -> S] /\ c[0] = v
    BY <1>3 DEF IsRun
  <1>5. PICK x \in S : x = f[c[n]][e]
    BY <1>4 DEF Acts
  <1> DEFINE d == [k \in 0 .. n + 1 |-> IF k = n + 1 THEN x ELSE c[k]]
  <1>6. d \in [0 .. n + 1 -> S] /\ d[0] = v
    BY <1>4
  <1>7. ASSUME NEW k \in 1 .. n + 1 PROVE d[k] = f[d[k - 1]][a[k]]
    <2>1. CASE k = n + 1
      <3>1. d[k] = x /\ d[k - 1] = c[n]
        BY <2>1
      <3> QED
        BY <1>2, <1>5, <2>1, <3>1
    <2>2. CASE k \in 1 .. n
      <3>1. d[k] = c[k] /\ d[k - 1] = c[k - 1]
        BY <2>2
      <3>2. c[k] = f[c[k - 1]][q[k]]
        BY <1>3, <2>2 DEF IsRun
      <3> QED
        BY <1>2, <2>2, <3>1, <3>2
    <2> QED
      BY <2>1, <2>2
  <1>8. d[n + 1] = x
    OBVIOUS
  <1> HIDE DEF d
  <1>9. IsRun(f, S, v, a, Len(a), d)
    BY <1>2, <1>6, <1>7 DEF IsRun
  <1>10. Final(f, S, v, a) = d[n + 1]
    BY <1>2, <1>9, RunIsUnique
  <1> QED
    BY <1>3, <1>5, <1>8, <1>10 DEF a

LEMMA FinalOfTail ==
  ASSUME NEW S, NEW E, NEW f, Acts(f, S, E), NEW v \in S, NEW q \in Seq(E),
         q # <<>>
  PROVE  Final(f, S, f[v][Head(q)], Tail(q)) = Final(f, S, v, q)
  <1>1. PICK n \in Nat : n = Len(q) /\ n >= 1
    BY EmptySeq, LenProperties
  <1>2. /\ Head(q) = q[1] /\ Head(q) \in E
        /\ Tail(q) \in Seq(E) /\ Len(Tail(q)) = n - 1
        /\ \A k \in 1 .. n - 1 : Tail(q)[k] = q[k + 1]
    BY <1>1, HeadTailProperties
  <1>3. PICK w \in S : w = f[v][Head(q)]
    BY <1>2 DEF Acts
  <1>4. PICK t \in Seq(E) : t = Tail(q)
    BY <1>2
  <1>5. PICK c : IsRun(f, S, v, q, n, c) /\ Final(f, S, v, q) = c[n]
    BY <1>1, FinalIsLast
  <1>6. /\ c \in [0 .. n -> S] /\ c[0] = v
        /\ \A k \in 1 .. n : c[k] = f[c[k - 1]][q[k]]
    BY <1>5 DEF IsRun
  <1> DEFINE d == [k \in 0 .. n - 1 |-> c[k + 1]]
  <1>7. d \in [0 .. n - 1 -> S]
    BY <1>1, <1>6
  <1>8. ASSUME NEW k \in 1 .. n - 1 PROVE d[k] = f[d[k - 1]][t[k]]
    <2>1. k + 1 \in 1 .. n /\ (k + 1) - 1 = k /\ d[k] = c[k + 1] /\ d[k - 1] = c[k]
      BY <1>1
    <2> HIDE DEF d
    <2>2. c[k + 1] = f[c[(k + 1) - 1]][q[k + 1]]
      BY <1>6, <2>1
    <2> QED
      BY <1>2, <1>4, <2>1, <2>2
  <1>9. d[0] = w /\ d[n - 1] = c[n]
    <2>1. d[0] = c[1] /\ d[n - 1] = c[n]
      BY <1>1
    <2>2. c[1] = f[c[1 - 1]][q[1]]
      BY <1>1, <1>6
    <2> QED
      BY <1>2, <1>3, <1>6, <2>1, <2>2
  <1> HIDE DEF d
  <1>10. IsRun(f, S, w, t, Len(t), d)
    BY <1>2, <1>4, <1>7, <1>8, <1>9 DEF IsRun
  <1>11. Final(f, S, w, t) = d[Len(t)]
    BY <1>10, RunIsUnique
  <1> QED
    BY <1>2, <1>3, <1>4, <1>5, <1>9, <1>11

(***************************************************************************)
(* FoldLeft is a run through its sequence: it is defined by a function on  *)
(* sets of indices, of which the following asks what that definition says. *)
(***************************************************************************)
FoldsTo(f, v, q, n, g) ==
  \A s \in SUBSET (1 .. n) :
    g[s] = IF s = {} THEN v ELSE f[g[s \ {Max(s)}]][q[Max(s)]]

FoldsIn(f, S, v, q, n, g) ==
  /\ g[{}] = v
  /\ \A s \in SUBSET (1 .. n) :
       s # {} /\ g[s \ {Max(s)}] \in S => g[s] = f[g[s \ {Max(s)}]][q[Max(s)]]

LEMMA MaxUpTo ==
  ASSUME NEW n \in Nat, NEW s \in SUBSET (1 .. n), n \in s
  PROVE  Max(s) = n
  <1>1. \A x \in s : x \in 1 .. n
    OBVIOUS
  <1>2. \A x \in s : (\A y \in s : x >= y) <=> x = n
    BY <1>1
  <1>3. Max(s) = CHOOSE x \in s : \A y \in s : x >= y
    BY DEF Max
  <1>4. Max(s) \in s /\ \A y \in s : Max(s) >= y
    BY <1>2, <1>3
  <1> QED
    BY <1>2, <1>4

LEMMA MaxInUpTo ==
  ASSUME NEW n \in Nat, NEW s \in SUBSET (1 .. n), s # {}
  PROVE  Max(s) \in s
  <1> DEFINE T == {k \in 0 .. n :
                     \A r \in SUBSET (1 .. k) : r # {} => Max(r) \in r}
  <1>1. 0 \in T
    <2>1. 1 .. 0 = {} /\ 0 \in 0 .. n
      OBVIOUS
    <2> QED
      BY <2>1
  <1>2. ASSUME NEW k \in 0 .. n - 1, k \in T PROVE k + 1 \in T
    <2>1. ASSUME NEW r \in SUBSET (1 .. k + 1), r # {} PROVE Max(r) \in r
      <3>1. CASE k + 1 \in r
        BY <3>1, MaxUpTo
      <3>2. CASE k + 1 \notin r
        BY <1>2, <2>1, <3>2
      <3> QED
        BY <3>1, <3>2
    <2> QED
      BY <2>1
  <1> HIDE DEF T
  <1>3. 0 .. n \subseteq T
    BY <1>1, <1>2, InductionUpTo
  <1> QED
    BY <1>3 DEF T

\* There is such a function.
LEMMA FoldExists ==
  ASSUME NEW S, NEW E, NEW f, Acts(f, S, E), NEW v \in S, NEW q \in Seq(E)
  PROVE  \E g \in [SUBSET (1 .. Len(q)) -> S] : FoldsTo(f, v, q, Len(q), g)
  <1>1. PICK n \in Nat : n = Len(q) /\ \A i \in 1 .. n : q[i] \in E
    BY LenProperties, ElementOfSeq
  <1> DEFINE T == {k \in 0 .. n : \E g \in [SUBSET (1 .. k) -> S] : FoldsTo(f, v, q, k, g)}
  <1>2. 0 \in T
    <2> DEFINE g == [s \in SUBSET (1 .. 0) |-> v]
    <2>1. g \in [SUBSET (1 .. 0) -> S] /\ \A s \in SUBSET (1 .. 0) : s = {} /\ g[s] = v
      OBVIOUS
    <2> HIDE DEF g
    <2>2. FoldsTo(f, v, q, 0, g)
      BY <2>1 DEF FoldsTo
    <2> QED
      BY <2>1, <2>2
  <1>3. ASSUME NEW k \in 0 .. n - 1, k \in T PROVE k + 1 \in T
    <2>1. PICK g \in [SUBSET (1 .. k) -> S] : FoldsTo(f, v, q, k, g)
      BY <1>3
    <2> DEFINE h == [s \in SUBSET (1 .. k + 1) |->
                       IF k + 1 \in s THEN f[g[s \ {k + 1}]][q[k + 1]] ELSE g[s]]
    <2>2. k \in Nat /\ k + 1 \in Nat /\ q[k + 1] \in E
      BY <1>1
    <2>3. \A s \in SUBSET (1 .. k + 1) :
            /\ k + 1 \in s => s \ {k + 1} \in SUBSET (1 .. k) /\ Max(s) = k + 1
            /\ k + 1 \notin s => s \in SUBSET (1 .. k)
      BY <2>2, MaxUpTo
    <2>4. h \in [SUBSET (1 .. k + 1) -> S]
      <3>1. \A x \in S : f[x][q[k + 1]] \in S
        BY <2>2 DEF Acts
      <3> QED
        BY <2>1, <2>3, <3>1
    <2>5. ASSUME NEW s \in SUBSET (1 .. k + 1)
          PROVE  h[s] = IF s = {} THEN v ELSE f[h[s \ {Max(s)}]][q[Max(s)]]
      <3>1. CASE k + 1 \in s
        <4>1. h[s \ {k + 1}] = g[s \ {k + 1}]
          BY <3>1
        <4> QED
          BY <2>3, <3>1, <4>1
      <3>2. CASE k + 1 \notin s
        <4>1. s \in SUBSET (1 .. k) /\ h[s] = g[s]
          BY <2>3, <3>2
        <4>2. CASE s = {}
          BY <2>1, <4>1, <4>2 DEF FoldsTo
        <4>3. CASE s # {}
          <5>1. k + 1 \notin s \ {Max(s)} /\ s \ {Max(s)} \in SUBSET (1 .. k + 1)
            BY <3>2
          <5>2. h[s \ {Max(s)}] = g[s \ {Max(s)}]
            BY <5>1
          <5> QED
            BY <2>1, <4>1, <4>3, <5>2 DEF FoldsTo
        <4> QED
          BY <4>2, <4>3
      <3> QED
        BY <3>1, <3>2
    <2> HIDE DEF h
    <2>6. FoldsTo(f, v, q, k + 1, h)
      BY <2>5 DEF FoldsTo
    <2> QED
      BY <1>1, <2>4, <2>6
  <1> HIDE DEF T
  <1>4. 0 .. n \subseteq T
    BY <1>1, <1>2, <1>3, InductionUpTo
  <1>5. n \in T
    BY <1>1, <1>4
  <1> QED
    BY <1>1, <1>5 DEF T

\* Whichever it is, and if it is known to be of S only where f needs it, what it
\* says of all indices is the end of the run.
LEMMA FoldIsFinal ==
  ASSUME NEW S, NEW E, NEW f, Acts(f, S, E), NEW v \in S, NEW q \in Seq(E),
         NEW g, FoldsIn(f, S, v, q, Len(q), g)
  PROVE  g[1 .. Len(q)] = Final(f, S, v, q)
  <1>1. PICK n \in Nat : n = Len(q) /\ \A i \in 1 .. n : q[i] \in E
    BY LenProperties, ElementOfSeq
  <1>2. PICK c : IsRun(f, S, v, q, Len(q), c) /\ Final(f, S, v, q) = c[Len(q)]
    BY FinalIsLast
  <1>3. /\ c \in [0 .. n -> S] /\ c[0] = v
        /\ \A k \in 1 .. n : c[k] = f[c[k - 1]][q[k]]
    BY <1>1, <1>2 DEF IsRun
  <1> DEFINE T == {k \in 0 .. n : g[1 .. k] = c[k]}
  <1>4. 0 \in T
    <2>1. 1 .. 0 = {}
      OBVIOUS
    <2> QED
      BY <1>3, <2>1 DEF FoldsIn
  <1>5. ASSUME NEW k \in 0 .. n - 1, k \in T PROVE k + 1 \in T
    <2>0. /\ k + 1 \in 1 .. n /\ (k + 1) - 1 = k /\ k \in 0 .. n
          /\ k \in Nat /\ k + 1 \in 1 .. k + 1
      OBVIOUS
    <2>1. /\ 1 .. k + 1 \in SUBSET (1 .. n) /\ 1 .. k + 1 # {}
          /\ (1 .. k + 1) \ {k + 1} = 1 .. k
      <3>1. \A i \in 1 .. k + 1 : i \in 1 .. n
        BY <2>0
      <3>2. \A i \in Int : i \in 1 .. k <=> i \in 1 .. k + 1 /\ i # k + 1
        BY <2>0
      <3>3. (1 .. k + 1) \ {k + 1} = 1 .. k
        BY <3>2
      <3> QED
        BY <2>0, <3>1, <3>3
    <2>2. Max(1 .. k + 1) = k + 1
      BY <2>0, <2>1, MaxUpTo
    <2>3. g[1 .. k] = c[k] /\ c[k] \in S
      BY <1>3, <1>5, <2>0
    <2>4. g[1 .. k + 1] = f[g[1 .. k]][q[k + 1]]
      BY <1>1, <2>0, <2>1, <2>2, <2>3 DEF FoldsIn
    <2>5. c[k + 1] = f[c[k]][q[k + 1]]
      BY <1>3, <2>0
    <2>6. g[1 .. k + 1] = c[k + 1]
      BY <2>3, <2>4, <2>5
    <2> QED
      BY <2>0, <2>6
  <1> HIDE DEF T
  <1>6. 0 .. n \subseteq T
    BY <1>1, <1>4, <1>5, InductionUpTo
  <1>7. n \in T
    BY <1>6
  <1> QED
    BY <1>1, <1>2, <1>7 DEF T

(***************************************************************************)
(* FlattenSeq: where the elements of each sequence are in the whole.       *)
(***************************************************************************)
PieceAt(s, p, t) == \A j \in 1 .. Len(t) : s[p + j] = t[j]

\* after[i]: how much of the whole the first i sequences make.
Parts(ss, whole, after) ==
  /\ after \in [0 .. Len(ss) -> 0 .. Len(whole)]
  /\ after[0] = 0 /\ after[Len(ss)] = Len(whole)
  /\ \A i \in 1 .. Len(ss) :
       after[i] = after[i - 1] + Len(ss[i]) /\ PieceAt(whole, after[i - 1], ss[i])

LEMMA PiecesOfConcat ==
  ASSUME NEW S, NEW a \in Seq(S), NEW b \in Seq(S)
  PROVE  /\ a \o b \in Seq(S) /\ Len(a \o b) = Len(a) + Len(b)
         /\ PieceAt(a \o b, 0, a) /\ PieceAt(a \o b, Len(a), b)
         /\ \A p \in Nat, t \in Seq(S) :
              p + Len(t) <= Len(a) /\ PieceAt(a, p, t) => PieceAt(a \o b, p, t)
  <1>1. Len(a) \in Nat /\ Len(b) \in Nat
    BY LenProperties
  <1>2. /\ a \o b \in Seq(S) /\ Len(a \o b) = Len(a) + Len(b)
        /\ \A i \in 1 .. Len(a) + Len(b) :
             (a \o b)[i] = IF i <= Len(a) THEN a[i] ELSE b[i - Len(a)]
    BY ConcatProperties
  <1>3. \A j \in 1 .. Len(a) : (a \o b)[j] = a[j]
    BY <1>1, <1>2
  <1>4. PieceAt(a \o b, 0, a)
    BY <1>1, <1>3 DEF PieceAt
  <1>5. ASSUME NEW j \in 1 .. Len(b) PROVE (a \o b)[Len(a) + j] = b[j]
    <2>1. /\ Len(a) + j \in 1 .. Len(a) + Len(b) /\ ~(Len(a) + j <= Len(a))
          /\ (Len(a) + j) - Len(a) = j
      BY <1>1
    <2> QED
      BY <1>2, <2>1
  <1>6. ASSUME NEW p \in Nat, NEW t \in Seq(S), p + Len(t) <= Len(a), PieceAt(a, p, t)
        PROVE  PieceAt(a \o b, p, t)
    <2>1. \A j \in 1 .. Len(t) : p + j \in 1 .. Len(a)
      BY <1>1, <1>6, LenProperties
    <2> QED
      BY <1>3, <1>6, <2>1 DEF PieceAt
  <1> QED
    BY <1>2, <1>4, <1>5, <1>6 DEF PieceAt

LEMMA FlattenIsRun ==
  ASSUME NEW S, NEW ss \in Seq(Seq(S))
  PROVE  \E c : /\ c \in [0 .. Len(ss) -> Seq(S)]
                /\ c[0] = <<>>
                /\ \A k \in 1 .. Len(ss) : c[k] = c[k - 1] \o ss[k]
                /\ FlattenSeq(ss) = c[Len(ss)]
  <1> DEFINE f == [s \in Seq(S) |-> [t \in Seq(S) |-> s \o t]]
  <1>1. PICK n \in Nat : n = Len(ss) /\ \A i \in 1 .. n : ss[i] \in Seq(S)
    BY LenProperties, ElementOfSeq
  <1>2. Acts(f, Seq(S), Seq(S))
    BY ConcatProperties DEF Acts
  <1>3. <<>> \in Seq(S)
    BY EmptySeq
  <1> HIDE DEF f
  <1>4. PICK c : IsRun(f, Seq(S), <<>>, ss, Len(ss), c)
    BY <1>2, <1>3, RunExists
  <1>5. c \in [0 .. n -> Seq(S)] /\ c[0] = <<>>
    BY <1>1, <1>4 DEF IsRun
  <1>6. ASSUME NEW k \in 1 .. n PROVE c[k] = c[k - 1] \o ss[k]
    <2>1. c[k] = f[c[k - 1]][ss[k]]
      BY <1>1, <1>4 DEF IsRun
    <2>2. k - 1 \in 0 .. n
      OBVIOUS
    <2>3. c[k - 1] \in Seq(S) /\ ss[k] \in Seq(S)
      BY <1>1, <1>5, <2>2
    <2> QED
      BY <2>1, <2>3 DEF f
  <1>7. CASE n = 0
    <2>1. ss = <<>>
      BY <1>1, <1>7, EmptySeq
    <2> QED
      BY <1>1, <1>5, <1>6, <1>7, <2>1 DEF FlattenSeq
  <1>8. CASE n # 0
    <2> DEFINE part(g, i) == IF i = 1 THEN ss[i] ELSE g[i - 1] \o ss[i]
               h == [i \in 1 .. n |-> c[i]]
    <2>1. ASSUME NEW i \in 1 .. n PROVE h[i] = part(h, i)
      <3>1. CASE i = 1
        <4>1. c[1] = c[0] \o ss[1] /\ ss[1] \in Seq(S)
          <5>1. 1 \in 1 .. n /\ 1 - 1 = 0
            BY <3>1
          <5> QED
            BY <1>1, <1>6, <5>1
        <4>2. <<>> \o ss[1] = ss[1]
          BY <4>1, ConcatEmptySeq
        <4> QED
          BY <1>5, <3>1, <4>1, <4>2
      <3>2. CASE i # 1
        <4>1. i - 1 \in 1 .. n
          BY <3>2
        <4> QED
          BY <1>6, <3>2, <4>1
      <3> QED
        BY <3>1, <3>2
    <2>2. h = [i \in 1 .. n |-> part(h, i)]
      BY <2>1
    <2>3. PICK g : g = [i \in 1 .. n |-> part(g, i)] /\ FlattenSeq(ss) = g[n]
      BY <1>1, <1>8, <2>2 DEF FlattenSeq
    <2> DEFINE T == {k \in 0 .. n : k # 0 => g[k] = c[k]}
    <2>4. 0 \in T
      OBVIOUS
    <2>5. ASSUME NEW k \in 0 .. n - 1, k \in T PROVE k + 1 \in T
      <3>1. k + 1 \in 1 .. n /\ (k + 1) - 1 = k
        BY <1>8
      <3>2. g[k + 1] = part(g, k + 1)
        BY <2>3, <3>1
      <3>3. h[k + 1] = part(h, k + 1) /\ h[k + 1] = c[k + 1]
        BY <2>1, <3>1
      <3>4. k # 0 => g[k] = c[k] /\ h[k] = c[k]
        BY <2>5, <3>1
      <3>5. part(g, k + 1) = part(h, k + 1)
        <4>1. CASE k = 0
          BY <4>1
        <4>2. CASE k # 0
          BY <3>1, <3>4, <4>2
        <4> QED
          BY <4>1, <4>2
      <3> HIDE DEF part, h
      <3>6. g[k + 1] = c[k + 1]
        BY <3>2, <3>3, <3>5
      <3> QED
        BY <3>1, <3>6
    <2> HIDE DEF T
    <2>6. 0 .. n \subseteq T
      BY <2>4, <2>5, InductionUpTo
    <2>7. g[n] = c[n]
      BY <1>8, <2>6 DEF T
    <2> QED
      BY <1>1, <1>5, <1>6, <2>3, <2>7
  <1> QED
    BY <1>7, <1>8

LEMMA FlattenPieces ==
  ASSUME NEW S, NEW ss \in Seq(Seq(S))
  PROVE  FlattenSeq(ss) \in Seq(S) /\ \E after : Parts(ss, FlattenSeq(ss), after)
  <1>1. PICK n \in Nat : n = Len(ss) /\ \A i \in 1 .. n : ss[i] \in Seq(S)
    BY LenProperties, ElementOfSeq
  <1>2. PICK c : /\ c \in [0 .. n -> Seq(S)]
                 /\ c[0] = <<>>
                 /\ \A k \in 1 .. n : c[k] = c[k - 1] \o ss[k]
                 /\ FlattenSeq(ss) = c[n]
    BY <1>1, FlattenIsRun
  <1> DEFINE There(k) == \A i \in 1 .. k :
               Len(c[i]) <= Len(c[k]) /\ PieceAt(c[k], Len(c[i - 1]), ss[i])
             T == {k \in 0 .. n : There(k)}
  <1>3. \A k \in 0 .. n : Len(c[k]) \in Nat
    BY <1>2, LenProperties
  <1>4. ASSUME NEW k \in 0 .. n - 1
        PROVE  /\ Len(c[k + 1]) = Len(c[k]) + Len(ss[k + 1]) /\ Len(ss[k + 1]) \in Nat
               /\ PieceAt(c[k + 1], Len(c[k]), ss[k + 1])
               /\ \A p \in Nat, t \in Seq(S) :
                    p + Len(t) <= Len(c[k]) /\ PieceAt(c[k], p, t) => PieceAt(c[k + 1], p, t)
    <2>1. k + 1 \in 1 .. n /\ (k + 1) - 1 = k /\ k \in 0 .. n
      BY <1>1
    <2>2. c[k] \in Seq(S) /\ ss[k + 1] \in Seq(S) /\ c[k + 1] = c[k] \o ss[k + 1]
      <3>1. c[k + 1] = c[(k + 1) - 1] \o ss[k + 1]
        BY <1>2, <2>1
      <3> QED
        BY <1>1, <1>2, <2>1, <3>1
    <2>3. PICK a \in Seq(S), b \in Seq(S) : a = c[k] /\ b = ss[k + 1]
      BY <2>2
    <2>4. /\ Len(a \o b) = Len(a) + Len(b)
          /\ PieceAt(a \o b, Len(a), b)
          /\ \A p \in Nat, t \in Seq(S) :
               p + Len(t) <= Len(a) /\ PieceAt(a, p, t) => PieceAt(a \o b, p, t)
      BY PiecesOfConcat
    <2>5. Len(b) \in Nat
      BY LenProperties
    <2> QED
      BY <2>2, <2>3, <2>4, <2>5
  <1>5. 0 \in T
    OBVIOUS
  <1>6. ASSUME NEW k \in 0 .. n - 1, k \in T PROVE k + 1 \in T
    <2>1. k + 1 \in 0 .. n /\ k \in 0 .. n /\ Len(c[k]) <= Len(c[k + 1])
      <3>1. k + 1 \in 0 .. n /\ k \in 0 .. n
        BY <1>1
      <3>2. Len(c[k]) \in Nat
        BY <1>3, <3>1
      <3>3. Len(c[k + 1]) = Len(c[k]) + Len(ss[k + 1]) /\ Len(ss[k + 1]) \in Nat
        BY <1>4
      <3>4. ASSUME NEW x \in Nat, NEW y \in Nat, NEW z, z = x + y PROVE x <= z
        BY <3>4
      <3>5. Len(c[k]) <= Len(c[k + 1])
        BY <3>2, <3>3, <3>4
      <3> QED
        BY <3>1, <3>5
    <2>2. ASSUME NEW i \in 1 .. k
          PROVE  Len(c[i]) <= Len(c[k + 1]) /\ PieceAt(c[k + 1], Len(c[i - 1]), ss[i])
      <3>1. i \in 1 .. n /\ i \in 0 .. n /\ i - 1 \in 0 .. n - 1 /\ (i - 1) + 1 = i
        BY <2>1
      <3>2. Len(c[i]) <= Len(c[k]) /\ PieceAt(c[k], Len(c[i - 1]), ss[i])
        BY <1>6
      <3>3. Len(c[(i - 1) + 1]) = Len(c[i - 1]) + Len(ss[(i - 1) + 1])
        BY <1>4, <3>1
      <3>4. /\ Len(c[i]) \in Nat /\ Len(c[i - 1]) \in Nat /\ Len(c[k]) \in Nat
            /\ Len(c[k + 1]) \in Nat /\ ss[i] \in Seq(S)
        BY <1>1, <1>3, <2>1, <3>1
      <3>5. Len(c[i - 1]) + Len(ss[i]) <= Len(c[k])
        BY <3>1, <3>2, <3>3
      <3>6. PieceAt(c[k + 1], Len(c[i - 1]), ss[i])
        BY <1>4, <3>2, <3>4, <3>5
      <3> QED
        BY <2>1, <3>2, <3>4, <3>6
    <2>3. /\ Len(c[k + 1]) <= Len(c[k + 1])
          /\ PieceAt(c[k + 1], Len(c[(k + 1) - 1]), ss[k + 1])
      <3>1. (k + 1) - 1 = k
        OBVIOUS
      <3>2. PieceAt(c[k + 1], Len(c[k]), ss[k + 1])
        BY <1>4
      <3>3. Len(c[k + 1]) \in Nat
        BY <1>3, <2>1
      <3> QED
        BY <3>1, <3>2, <3>3
    <2>4. \A i \in 1 .. k + 1 : i \in 1 .. k \/ i = k + 1
      OBVIOUS
    <2> QED
      BY <2>1, <2>2, <2>3, <2>4
  <1> HIDE DEF T
  <1>7. 0 .. n \subseteq T
    BY <1>1, <1>5, <1>6, InductionUpTo
  <1>8. n \in T
    BY <1>7
  <1>9. There(n)
    BY <1>8 DEF T
  <1>10. Len(c[0]) = 0
    BY <1>2, EmptySeq
  <1>11. PICK whole \in Seq(S) : whole = c[n] /\ whole = FlattenSeq(ss) /\ Len(whole) \in Nat
    BY <1>2, LenProperties
  <1> DEFINE after == [k \in 0 .. n |-> Len(c[k])]
  <1>12. after \in [0 .. n -> 0 .. Len(whole)]
    <2>1. ASSUME NEW k \in 0 .. n PROVE Len(c[k]) \in 0 .. Len(whole)
      <3>1. k = 0 \/ k \in 1 .. n
        OBVIOUS
      <3>2. k \in 1 .. n => Len(c[k]) <= Len(c[n])
        BY <1>9
      <3> QED
        BY <1>3, <1>10, <1>11, <3>1, <3>2
    <2> QED
      BY <2>1
  <1>13. ASSUME NEW i \in 1 .. n
         PROVE  after[i] = after[i - 1] + Len(ss[i]) /\ PieceAt(whole, after[i - 1], ss[i])
    <2>1. i - 1 \in 0 .. n - 1 /\ (i - 1) + 1 = i
      OBVIOUS
    <2>2. after[i] = Len(c[i]) /\ after[i - 1] = Len(c[i - 1])
      OBVIOUS
    <2>3. Len(c[(i - 1) + 1]) = Len(c[i - 1]) + Len(ss[(i - 1) + 1])
      BY <1>4, <2>1
    <2>4. PieceAt(c[n], Len(c[i - 1]), ss[i])
      BY <1>9
    <2> HIDE DEF after
    <2> QED
      BY <1>11, <2>1, <2>2, <2>3, <2>4
  <1>14. after[0] = 0 /\ after[n] = Len(whole)
    <2>1. 0 \in 0 .. n /\ n \in 0 .. n
      OBVIOUS
    <2>2. after[0] = Len(c[0]) /\ after[n] = Len(c[n])
      BY <2>1
    <2> QED
      BY <1>10, <1>11, <2>2
  <1> HIDE DEF after
  <1>15. Parts(ss, whole, after)
    BY <1>1, <1>12, <1>13, <1>14 DEF Parts
  <1> QED
    BY <1>11, <1>15
=============================================================================
