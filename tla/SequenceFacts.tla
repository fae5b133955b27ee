---------------------------- MODULE SequenceFacts ----------------------------
(***************************************************************************)
(* What division comes to for all numbers, and what the recursive          *)
(* operators on sequences do to sequences of any length.  The library's    *)
(* induction theorems are about an operator that is to be proved; here     *)
(* induction is about a set of numbers, and what a recursive function is   *)
(* equal to is shown by building it step by step.                          *)
(***************************************************************************)
EXTENDS Integers, Sequences, SequencesExt, FiniteSets, FiniteSetTheorems,
        WellFoundedInduction, TLAPS

-----------------------------------------------------------------------------
(* Division.                                                               *)

(* Euclid's theorem: what \div and % return.                               *)
LEMMA Euclid ==
  ASSUME NEW w \in Nat \ {0}, NEW p \in Nat
  PROVE  /\ p \div w \in Nat
         /\ p % w \in 0 .. w - 1
         /\ p = w * (p \div w) + (p % w)
<1>1. p \div w \in Nat
  OBVIOUS
<1>2. p % w \in 0 .. w - 1
  OBVIOUS
<1>3. p = w * (p \div w) + (p % w)
  OBVIOUS
<1> QED
  BY <1>1, <1>2, <1>3

(* Products keep the order of their factors.                               *)
LEMMA Monotone ==
  ASSUME NEW a \in Nat, NEW b \in Nat, NEW c \in Nat, a <= b
  PROVE  a * c <= b * c /\ c * a <= c * b
OBVIOUS

(* What a number between two multiples has as its quotient.                 *)
LEMMA QuotientBelow ==
  ASSUME NEW a \in Nat, NEW b \in Nat \ {0}, NEW q \in Nat, a < q * b
  PROVE  a \div b < q
  OBVIOUS

LEMMA QuotientIs ==
  ASSUME NEW a \in Nat, NEW b \in Nat \ {0}, NEW q \in Nat, q * b <= a, a < (q + 1) * b
  PROVE  a \div b = q
  OBVIOUS

LEMMA QuotientBounds ==
  ASSUME NEW a \in Nat, NEW b \in Nat \ {0}
  PROVE  (a \div b) * b <= a /\ a < (a \div b + 1) * b
  OBVIOUS

(* A quotient and a remainder that fit are the ones.                       *)
LEMMA DivisionIs ==
  ASSUME NEW p \in Nat \ {0}, NEW q \in Nat, NEW r \in 0 .. p - 1, NEW n \in Nat, n = p * q + r
  PROVE  n \div p = q /\ n % p = r
<1>1. PICK x \in Nat, y \in 0 .. p - 1 : x = n \div p /\ y = n % p /\ n = p * x + y
  BY Euclid
<1>2. CASE x < q
  <2>1. p * (x + 1) <= p * q /\ p * (x + 1) = p * x + p /\ p * x \in Nat /\ p * q \in Nat
    BY <1>2, Monotone
  <2> QED BY <1>1, <2>1
<1>3. CASE q < x
  <2>1. p * (q + 1) <= p * x /\ p * (q + 1) = p * q + p /\ p * x \in Nat /\ p * q \in Nat
    BY <1>3, Monotone
  <2> QED BY <1>1, <2>1
<1>4. CASE x = q
  <2>1. p * x = p * q /\ p * q \in Nat
    BY <1>4
  <2> QED BY <1>1, <1>4, <2>1
<1> QED BY <1>2, <1>3, <1>4

(* Row and column of an item, counted from the worker's first row and from  *)
(* the first of all.                                                       *)
LEMMA DivisionShifted ==
  ASSUME NEW p \in Nat \ {0}, NEW a \in Nat, NEW c \in Nat
  PROVE  (a * p + c) \div p = a + c \div p /\ (a * p + c) % p = c % p
<1>1. PICK q \in Nat, r \in 0 .. p - 1 : q = c \div p /\ r = c % p /\ c = p * q + r
  BY Euclid
<1>2. a * p + c = p * (a + q) + r /\ a + q \in Nat /\ a * p + c \in Nat
  <2>1. p * (a + q) = a * p + p * q /\ a * p \in Nat /\ p * q \in Nat
    OBVIOUS
  <2> QED BY <1>1, <2>1
<1>3. PICK n \in Nat, m \in Nat : n = a * p + c /\ m = a + q
  BY <1>2
<1>4. n \div p = m /\ n % p = r
  <2>1. n = p * m + r
    BY <1>2, <1>3
  <2> QED BY <2>1, DivisionIs
<1> QED BY <1>1, <1>3, <1>4

-----------------------------------------------------------------------------
(* Induction.                                                              *)

(* A set of natural numbers has a least one.                               *)
LEMMA LeastOf ==
  ASSUME NEW S \in SUBSET Nat, S # {}
  PROVE  \E x \in S : \A y \in S : x <= y
<1>1. PICK x \in S : \A y \in S : ~ (<<y, x>> \in OpToRel(<, Nat))
  BY NatLessThanWellFounded, WFMin
<1>2. \A y \in S : x <= y
  <2> TAKE y \in S
  <2>1. x \in Nat /\ y \in Nat
    OBVIOUS
  <2>2. ~ (y < x)
    BY <1>1, <2>1 DEF OpToRel
  <2> QED BY <2>1, <2>2
<1> QED BY <1>2

(* What holds of zero, and of the next number of every number it holds of.  *)
LEMMA Induction ==
  ASSUME NEW S, 0 \in S, \A n \in Nat : n \in S => n + 1 \in S
  PROVE  \A n \in Nat : n \in S
<1> DEFINE T == Nat \ S
<1>1. SUFFICES ASSUME T # {} PROVE FALSE
  OBVIOUS
<1>2. T \in SUBSET Nat
  OBVIOUS
<1> HIDE DEF T
<1>3. PICK k \in T : \A j \in T : k <= j
  BY <1>1, <1>2, LeastOf
<1>4. k \in Nat /\ k \notin S
  BY DEF T
<1>5. k - 1 \in Nat /\ k - 1 + 1 = k
  BY <1>4
<1>6. k - 1 \notin T
  BY <1>3, <1>4, <1>5
<1>7. k - 1 \in S
  BY <1>5, <1>6 DEF T
<1> QED BY <1>4, <1>5, <1>7

(* The length of a sequence given item by item.                            *)
LEMMA LengthOf ==
  ASSUME NEW n \in Nat, NEW s, DOMAIN s = 1 .. n
  PROVE  Len(s) = n
OBVIOUS

-----------------------------------------------------------------------------
(* FlattenSeq.                                                             *)

Flattened(n, ss, f) ==
  f = [i \in 1 .. n |-> IF i = 1 THEN ss[i] ELSE f[i - 1] \o ss[i]]

(* There is a function that flattens the first sequences, however many.     *)
LEMMA FlattenedExists ==
  ASSUME NEW ss
  PROVE  \A n \in Nat : \E f : Flattened(n + 1, ss, f)
<1> DEFINE S == {n \in Nat : \E f : Flattened(n + 1, ss, f)}
<1>1. 0 \in S
  <2> DEFINE g == [i \in 1 .. 1 |-> ss[i]]
  <2>1. g = [i \in 1 .. 1 |-> IF i = 1 THEN ss[i] ELSE g[i - 1] \o ss[i]]
    OBVIOUS
  <2>2. 0 + 1 = 1
    OBVIOUS
  <2> HIDE DEF g
  <2> QED BY <2>1, <2>2 DEF Flattened
<1>2. ASSUME NEW m \in Nat, m \in S PROVE m + 1 \in S
  <2>1. PICK f : Flattened(m + 1, ss, f)
    BY <1>2
  <2>2. \A i \in 1 .. m + 1 : f[i] = IF i = 1 THEN ss[i] ELSE f[i - 1] \o ss[i]
    BY <2>1, Zenon DEF Flattened
  <2>3. m + 1 + 1 = m + 2 /\ m + 2 \in Nat
    OBVIOUS
  <2> DEFINE g == [i \in 1 .. m + 2 |-> IF i = m + 2 THEN f[m + 1] \o ss[i] ELSE f[i]]
  <2>4. ASSUME NEW i \in 1 .. m + 2
        PROVE  g[i] = IF i = 1 THEN ss[i] ELSE g[i - 1] \o ss[i]
    <3>1. CASE i = m + 2
      <4>1. i # 1 /\ i - 1 = m + 1 /\ m + 1 \in 1 .. m + 2 /\ m + 1 # m + 2
        BY <3>1
      <4> QED BY <3>1, <4>1
    <3>2. CASE i # m + 2
      <4>1. i \in 1 .. m + 1
        BY <3>2
      <4>2. i # 1 => i - 1 \in 1 .. m + 2 /\ i - 1 # m + 2
        BY <3>2
      <4> QED BY <2>2, <3>2, <4>1, <4>2
    <3> QED BY <3>1, <3>2
  <2>5. g = [i \in 1 .. m + 2 |-> g[i]]
    OBVIOUS
  <2> HIDE DEF g
  <2>6. g = [i \in 1 .. m + 2 |-> IF i = 1 THEN ss[i] ELSE g[i - 1] \o ss[i]]
    BY <2>4, <2>5, Zenon
  <2>7. Flattened(m + 2, ss, g)
    BY <2>6, Zenon DEF Flattened
  <2> QED BY <2>3, <2>7
<1> HIDE DEF S
<1>3. \A n \in Nat : n \in S
  BY <1>1, <1>2, Induction
<1> QED BY <1>3 DEF S

(* FlattenSeq puts one sequence behind another.                            *)
LEMMA FlattenSeqIs ==
  ASSUME NEW ss, Len(ss) \in Nat \ {0}
  PROVE  \E f : /\ f[1] = ss[1]
                /\ \A i \in 2 .. Len(ss) : f[i] = f[i - 1] \o ss[i]
                /\ FlattenSeq(ss) = f[Len(ss)]
<1> DEFINE F == CHOOSE f : Flattened(Len(ss), ss, f)
<1>1. FlattenSeq(ss) = F[Len(ss)]
  <2>1. Len(ss) # 0
    OBVIOUS
  <2> QED BY <2>1, Zenon DEF FlattenSeq, Flattened
<1>2. \E f : Flattened(Len(ss), ss, f)
  <2>1. Len(ss) - 1 \in Nat /\ Len(ss) - 1 + 1 = Len(ss)
    OBVIOUS
  <2> QED BY <2>1, FlattenedExists
<1>3. Flattened(Len(ss), ss, F)
  BY <1>2, Zenon
<1> HIDE DEF F
<1>4. \A i \in 1 .. Len(ss) : F[i] = IF i = 1 THEN ss[i] ELSE F[i - 1] \o ss[i]
  BY <1>3, Zenon DEF Flattened
<1>5. PICK n \in Nat \ {0} : n = Len(ss)
  OBVIOUS
<1>6. 1 \in 1 .. n /\ \A i \in 2 .. n : i \in 1 .. n /\ i # 1
  OBVIOUS
<1>7. F[1] = ss[1] /\ \A i \in 2 .. Len(ss) : F[i] = F[i - 1] \o ss[i]
  BY <1>4, <1>5, <1>6, Zenon
<1> QED BY <1>1, <1>7

(* The items of G after the first x, up to the y-th.                       *)
Stretch(G, x, y) == [j \in 1 .. y - x |-> G[x + j]]

(* Two neighbouring stretches put together are one.                        *)
LEMMA Neighbours ==
  ASSUME NEW x \in Nat, NEW y \in Nat, x <= y, NEW G
  PROVE  Stretch(G, 0, x) \o Stretch(G, x, y) = Stretch(G, 0, y)
<1> DEFINE a == [j \in 1 .. x - 0 |-> G[0 + j]]
           b == [j \in 1 .. y - x |-> G[x + j]]
<1>1. Len(a) = x /\ Len(b) = y - x /\ y - x \in Nat
  <2>1. x - 0 = x
    OBVIOUS
  <2> QED BY <2>1, LengthOf
<1>2. a \o b = [j \in 1 .. x + (y - x) |-> IF j <= x THEN a[j] ELSE b[j - x]]
  BY <1>1
<1>3. a \o b = [j \in 1 .. y - 0 |-> G[0 + j]]
  BY <1>2
<1> QED BY <1>3 DEF Stretch

(* G is cut into the n stretches ss, one behind the other.                  *)
CutInto(G, n, cut, ss) ==
  /\ n \in Nat /\ cut \in [0 .. n -> Nat]
  /\ cut[0] = 0 /\ \A i \in 1 .. n : cut[i - 1] <= cut[i]
  /\ G = [j \in 1 .. cut[n] |-> G[j]]
  /\ ss = [i \in 1 .. n |-> Stretch(G, cut[i - 1], cut[i])]

(* Put together again they are G.                                           *)
LEMMA FlattenOfBlocks ==
  ASSUME NEW G, NEW n, NEW cut, NEW ss, CutInto(G, n, cut, ss)
  PROVE  FlattenSeq(ss) = G
<1> USE DEF CutInto
<1>1. Len(ss) = n
  BY LengthOf
<1>2. CASE n = 0
  <2>1. FlattenSeq(ss) = ss
    BY <1>1, <1>2, Zenon DEF FlattenSeq
  <2>2. ss = <<>> /\ G = <<>>
    BY <1>2
  <2> QED BY <2>1, <2>2
<1>3. CASE n # 0
  <2>1. PICK f : /\ f[1] = ss[1]
                 /\ \A i \in 2 .. n : f[i] = f[i - 1] \o ss[i]
                 /\ FlattenSeq(ss) = f[n]
    BY <1>1, <1>3, FlattenSeqIs
  <2> DEFINE S == {k \in Nat : k + 1 <= n => f[k + 1] = Stretch(G, 0, cut[k + 1])}
  <2>2. 0 \in S
    <3>1. 1 - 1 = 0 /\ 0 + 1 = 1 /\ 1 \in 1 .. n
      BY <1>3
    <3>2. ss[1] = Stretch(G, cut[1 - 1], cut[1])
      BY <3>1, Zenon
    <3>3. f[0 + 1] = Stretch(G, 0, cut[0 + 1])
      BY <2>1, <3>1, <3>2, Zenon
    <3> QED BY <3>3
  <2>3. ASSUME NEW m \in Nat, m \in S PROVE m + 1 \in S
    <3> SUFFICES ASSUME m + 1 + 1 <= n
                 PROVE  f[m + 1 + 1] = Stretch(G, 0, cut[m + 1 + 1])
      OBVIOUS
    <3>1. PICK k \in Nat : k = m + 1 + 1
      OBVIOUS
    <3>2. k \in 2 .. n /\ k \in 1 .. n /\ k - 1 = m + 1 /\ k - 1 \in 0 .. n
      BY <3>1
    <3>3. f[k] = f[k - 1] \o ss[k]
      BY <2>1, <3>2
    <3>4. f[k - 1] = Stretch(G, 0, cut[k - 1])
      <4>1. f[m + 1] = Stretch(G, 0, cut[m + 1])
        BY <2>3
      <4> QED BY <3>2, <4>1, Zenon
    <3>5. ss[k] = Stretch(G, cut[k - 1], cut[k])
      BY <3>2, Zenon
    <3>6. cut[k] \in Nat /\ cut[k - 1] \in Nat /\ cut[k - 1] <= cut[k]
      BY <3>2
    <3>7. f[k] = Stretch(G, 0, cut[k])
      <4>1. Stretch(G, 0, cut[k - 1]) \o Stretch(G, cut[k - 1], cut[k]) = Stretch(G, 0, cut[k])
        BY <3>6, Neighbours
      <4> QED BY <3>3, <3>4, <3>5, <4>1, Zenon
    <3> QED BY <3>1, <3>7
  <2> HIDE DEF S
  <2>4. n - 1 \in S
    <3>1. n - 1 \in Nat
      BY <1>3
    <3> QED BY <2>2, <2>3, <3>1, Induction
  <2>5. f[n] = Stretch(G, 0, cut[n])
    <3>1. n - 1 + 1 = n /\ n <= n /\ n - 1 \in Nat
      BY <1>3
    <3>2. n - 1 + 1 <= n => f[n - 1 + 1] = Stretch(G, 0, cut[n - 1 + 1])
      BY <2>4, Zenon DEF S
    <3> QED BY <3>1, <3>2, Zenon
  <2>6. Stretch(G, 0, cut[n]) = G
    <3>1. cut[n] \in Nat /\ cut[n] - 0 = cut[n] /\ \A j \in 1 .. cut[n] : 0 + j = j
      OBVIOUS
    <3> QED BY <3>1 DEF Stretch
  <2> QED BY <2>1, <2>5, <2>6
<1> QED BY <1>2, <1>3

(* Sequences of one item each, followed by empty ones.                     *)
LEMMA FlattenOfSome ==
  ASSUME NEW n \in Nat, NEW v \in 0 .. n, NEW t
  PROVE  FlattenSeq([i \in 1 .. n |-> IF i <= v THEN <<t[i]>> ELSE <<>>])
           = [i \in 1 .. v |-> t[i]]
<1> DEFINE ss == [i \in 1 .. n |-> IF i <= v THEN <<t[i]>> ELSE <<>>]
           G == [i \in 1 .. v |-> t[i]]
           cut == [i \in 0 .. n |-> IF i <= v THEN i ELSE v]
<1>1. cut \in [0 .. n -> Nat] /\ cut[0] = 0 /\ cut[n] = v
  OBVIOUS
<1>2. \A i \in 1 .. n : cut[i - 1] <= cut[i]
  OBVIOUS
<1>3. G = [i \in 1 .. cut[n] |-> G[i]]
  BY <1>1
<1>4. ASSUME NEW i \in 1 .. n PROVE ss[i] = Stretch(G, cut[i - 1], cut[i])
  <2>1. CASE i <= v
    <3>1. cut[i] = i /\ cut[i - 1] = i - 1 /\ i - (i - 1) = 1 /\ i - 1 + 1 = i /\ i \in 1 .. v
      BY <2>1
    <3>2. ss[i] = <<t[i]>> /\ G[i] = t[i]
      BY <2>1, <3>1
    <3>3. Stretch(G, i - 1, i) = [j \in 1 .. 1 |-> G[i - 1 + j]]
      BY <3>1 DEF Stretch
    <3>4. Stretch(G, i - 1, i) = <<G[i - 1 + 1]>>
      BY <3>3
    <3> HIDE DEF G, cut
    <3> QED BY <3>1, <3>2, <3>4
  <2>2. CASE ~ (i <= v)
    <3>1. cut[i] = v /\ cut[i - 1] = v /\ v - v = 0
      BY <2>2
    <3>2. ss[i] = <<>>
      BY <2>2
    <3> HIDE DEF G, cut
    <3>3. Stretch(G, v, v) = <<>>
      BY <3>1 DEF Stretch
    <3> QED BY <3>1, <3>2, <3>3
  <2> QED BY <2>1, <2>2
<1> HIDE DEF G, cut
<1>5. ss = [i \in 1 .. n |-> ss[i]]
  OBVIOUS
<1> HIDE DEF ss
<1>6. ss = [i \in 1 .. n |-> Stretch(G, cut[i - 1], cut[i])]
  BY <1>4, <1>5, Zenon
<1>7. CutInto(G, n, cut, ss)
  BY <1>1, <1>2, <1>3, <1>6, Zenon DEF CutInto
<1>8. FlattenSeq(ss) = G
  BY <1>7, FlattenOfBlocks, Zenon
<1> QED BY <1>8 DEF G, ss

(* Sequences of one item each.                                             *)
LEMMA FlattenOfItems ==
  ASSUME NEW n \in Nat, NEW t
  PROVE  FlattenSeq([i \in 1 .. n |-> <<t[i]>>]) = [i \in 1 .. n |-> t[i]]
<1>1. [i \in 1 .. n |-> <<t[i]>>] = [i \in 1 .. n |-> IF i <= n THEN <<t[i]>> ELSE <<>>]
  OBVIOUS
<1>2. n \in 0 .. n
  OBVIOUS
<1>3. FlattenSeq([i \in 1 .. n |-> IF i <= n THEN <<t[i]>> ELSE <<>>]) = [i \in 1 .. n |-> t[i]]
  BY <1>2, FlattenOfSome
<1> QED BY <1>1, <1>3, Zenon

-----------------------------------------------------------------------------
(* Subsequences.                                                           *)

(* The first n items, and the n behind them.                               *)
LEMMA Halves ==
  ASSUME NEW n \in Nat, NEW a, NEW b, DOMAIN a = 1 .. n, DOMAIN b = 1 .. n,
         a = [k \in 1 .. n |-> a[k]], b = [k \in 1 .. n |-> b[k]]
  PROVE  /\ Len(a \o b) = 2 * n
         /\ SubSeq(a \o b, 1, n) = a
         /\ SubSeq(a \o b, n + 1, 2 * n) = b
<1>1. Len(a) = n /\ Len(b) = n
  BY LengthOf
<1>2. a \o b = [j \in 1 .. n + n |-> IF j <= n THEN a[j] ELSE b[j - n]]
  BY <1>1
<1>3. Len(a \o b) = 2 * n
  BY <1>2
<1>4. SubSeq(a \o b, 1, n) = [j \in 1 .. n |-> (a \o b)[j]]
  OBVIOUS
<1>5. SubSeq(a \o b, n + 1, 2 * n) = [j \in 1 .. n |-> (a \o b)[n + j]]
  OBVIOUS
<1>6. SubSeq(a \o b, 1, n) = a
  BY <1>2, <1>4
<1>7. SubSeq(a \o b, n + 1, 2 * n) = b
  BY <1>2, <1>5
<1> QED BY <1>3, <1>6, <1>7

-----------------------------------------------------------------------------
(* Lists.                                                                  *)

\* A sequence that is given item by item.
List(u) == Len(u) \in Nat /\ u = [k \in 1 .. Len(u) |-> u[k]]

\* A list is a sequence of any set that has its items.
LEMMA ListIsSeq ==
  ASSUME NEW u, List(u), NEW S, \A k \in 1 .. Len(u) : u[k] \in S
  PROVE  u \in Seq(S)
<1>1. [k \in 1 .. Len(u) |-> u[k]] \in Seq(S)
  BY DEF List
<1> QED BY <1>1 DEF List

LEMMA ListOf ==
  ASSUME NEW n \in Nat, NEW u, DOMAIN u = 1 .. n, u = [k \in 1 .. n |-> u[k]]
  PROVE  List(u) /\ Len(u) = n
<1>1. Len(u) = n
  BY LengthOf
<1> QED BY <1>1 DEF List

\* One list behind another.
LEMMA Concatenated ==
  ASSUME NEW u, NEW v, List(u), List(v)
  PROVE  /\ List(u \o v) /\ Len(u \o v) = Len(u) + Len(v)
         /\ \A k \in 1 .. Len(u) : (u \o v)[k] = u[k]
         /\ \A k \in 1 .. Len(v) : (u \o v)[Len(u) + k] = v[k]
<1> DEFINE S == {u[k] : k \in 1 .. Len(u)} \cup {v[k] : k \in 1 .. Len(v)}
<1>1. u \in Seq(S) /\ v \in Seq(S)
  BY ListIsSeq
<1> HIDE DEF S
<1>2. /\ u \o v \in Seq(S) /\ Len(u \o v) = Len(u) + Len(v)
      /\ \A k \in 1 .. Len(u) : (u \o v)[k] = u[k]
      /\ \A k \in 1 .. Len(v) : (u \o v)[Len(u) + k] = v[k]
  BY <1>1
<1>3. \A t \in Seq(S) : Len(t) \in Nat /\ t = [k \in 1 .. Len(t) |-> t[k]]
  OBVIOUS
<1> QED BY <1>2, <1>3, Zenon DEF List

-----------------------------------------------------------------------------
(* Sums.                                                                   *)

\* h holds what the first 0, 1, ... n numbers of s add up to.
Sums(n, s, h) ==
  h \in [0 .. n -> Int] /\ h[0] = 0 /\ \A k \in 1 .. n : s[k] \in Int /\ h[k] = h[k - 1] + s[k]

\* The same as a recursive function.
AddedUp(n, s, h) == h = [k \in 0 .. n |-> IF k = 0 THEN 0 ELSE h[k - 1] + s[k]]

LEMMA AddedUpExists ==
  ASSUME NEW s
  PROVE  \A n \in Nat : \E h : AddedUp(n, s, h)
<1> DEFINE S == {n \in Nat : \E h : AddedUp(n, s, h)}
<1>1. 0 \in S
  <2>1. [k \in 0 .. 0 |-> 0]
          = [k \in 0 .. 0 |-> IF k = 0 THEN 0 ELSE [j \in 0 .. 0 |-> 0][k - 1] + s[k]]
    OBVIOUS
  <2> QED BY <2>1, Zenon DEF AddedUp
<1>2. ASSUME NEW n \in Nat, n \in S PROVE n + 1 \in S
  <2>1. PICK h : AddedUp(n, s, h)
    BY <1>2
  <2>2. \A k \in 0 .. n : h[k] = IF k = 0 THEN 0 ELSE h[k - 1] + s[k]
    BY <2>1, Zenon DEF AddedUp
  <2> DEFINE g == [k \in 0 .. n + 1 |-> IF k = n + 1 THEN h[n] + s[k] ELSE h[k]]
  <2>3. ASSUME NEW k \in 0 .. n + 1
        PROVE  g[k] = IF k = 0 THEN 0 ELSE g[k - 1] + s[k]
    <3>1. CASE k = n + 1
      <4>1. k # 0 /\ k - 1 = n /\ n \in 0 .. n + 1 /\ n # n + 1
        BY <3>1
      <4> QED BY <3>1, <4>1
    <3>2. CASE k # n + 1
      <4>1. k \in 0 .. n
        BY <3>2
      <4>2. k # 0 => k - 1 \in 0 .. n + 1 /\ k - 1 # n + 1
        BY <3>2
      <4> QED BY <2>2, <3>2, <4>1, <4>2
    <3> QED BY <3>1, <3>2
  <2>4. g = [k \in 0 .. n + 1 |-> g[k]]
    OBVIOUS
  <2> HIDE DEF g
  <2>5. g = [k \in 0 .. n + 1 |-> IF k = 0 THEN 0 ELSE g[k - 1] + s[k]]
    BY <2>3, <2>4, Zenon
  <2>6. AddedUp(n + 1, s, g)
    BY <2>5, Zenon DEF AddedUp
  <2> QED BY <2>6
<1> HIDE DEF S
<1>3. \A n \in Nat : n \in S
  BY <1>1, <1>2, Induction
<1> QED BY <1>3 DEF S

(* What is added up are integers if the numbers are.                        *)
LEMMA AddedUpIs ==
  ASSUME NEW n \in Nat, NEW s, \A k \in 1 .. n : s[k] \in Int, NEW h, AddedUp(n, s, h)
  PROVE  Sums(n, s, h)
<1>1. \A k \in 0 .. n : h[k] = IF k = 0 THEN 0 ELSE h[k - 1] + s[k]
  BY Zenon DEF AddedUp
<1>2. 0 \in 0 .. n /\ \A k \in 1 .. n : k \in 0 .. n /\ k # 0
  OBVIOUS
<1>3. h[0] = 0 /\ \A k \in 1 .. n : h[k] = h[k - 1] + s[k]
  BY <1>1, <1>2
<1> DEFINE S == {k \in Nat : k <= n => h[k] \in Int}
<1>4. 0 \in S
  BY <1>3
<1>5. ASSUME NEW k \in Nat, k \in S PROVE k + 1 \in S
  <2>1. CASE k + 1 <= n
    <3>1. h[k] \in Int /\ k + 1 \in 1 .. n /\ k + 1 - 1 = k
      BY <1>5, <2>1
    <3> QED BY <1>3, <3>1
  <2> QED BY <2>1
<1> HIDE DEF S
<1>6. \A k \in Nat : k \in S
  BY <1>4, <1>5, Induction
<1>7. \A k \in 0 .. n : h[k] \in Int
  BY <1>6 DEF S
<1>8. h = [k \in 0 .. n |-> h[k]]
  BY DEF AddedUp
<1> QED BY <1>3, <1>7, <1>8 DEF Sums

(* A stretch of a sequence adds up to the difference of two sums.           *)
LEMMA SumsOfStretch ==
  ASSUME NEW n \in Nat, NEW s, NEW h, Sums(n, s, h),
         NEW m \in Nat, NEW t, NEW g, Sums(m, t, g),
         NEW d \in Nat, d + m <= n, \A k \in 1 .. m : t[k] = s[d + k]
  PROVE  g[m] = h[d + m] - h[d]
<1>1. /\ \A k \in 0 .. n : h[k] \in Int
      /\ \A k \in 1 .. n : s[k] \in Int /\ h[k] = h[k - 1] + s[k]
      /\ g[0] = 0 /\ \A k \in 1 .. m : g[k] = g[k - 1] + t[k]
  BY DEF Sums
<1> DEFINE S == {k \in Nat : k <= m => g[k] = h[d + k] - h[d]}
<1>2. 0 \in S
  <2>1. d \in 0 .. n /\ d + 0 = d
    OBVIOUS
  <2>2. h[d] - h[d] = 0
    BY <1>1, <2>1
  <2> QED BY <1>1, <2>1, <2>2
<1>3. ASSUME NEW k \in Nat, k \in S PROVE k + 1 \in S
  <2>1. CASE k + 1 <= m
    <3>1. k + 1 \in 1 .. m /\ k + 1 - 1 = k /\ g[k] = h[d + k] - h[d]
      BY <1>3, <2>1
    <3>2. g[k + 1] = g[k] + t[k + 1] /\ t[k + 1] = s[d + (k + 1)]
      BY <1>1, <3>1
    <3>3. d + (k + 1) \in 1 .. n /\ d + (k + 1) - 1 = d + k /\ d + k \in 0 .. n /\ d \in 0 .. n
      BY <2>1
    <3>4. h[d + (k + 1)] = h[d + k] + s[d + (k + 1)]
      BY <1>1, <3>3
    <3>5. h[d] \in Int /\ h[d + k] \in Int /\ h[d + (k + 1)] \in Int
      BY <1>1, <3>3
    <3>6. g[k + 1] = (h[d + k] - h[d]) + s[d + (k + 1)] /\ s[d + (k + 1)] \in Int
      BY <1>1, <3>1, <3>2, <3>3
    <3> HIDE DEF S
    <3>7. g[k + 1] = h[d + (k + 1)] - h[d]
      BY <3>4, <3>5, <3>6
    <3> QED BY <3>7 DEF S
  <2> QED BY <2>1
<1> HIDE DEF S
<1>4. \A k \in Nat : k \in S
  BY <1>2, <1>3, Induction
<1> QED BY <1>4 DEF S

(* Sums of stretches, one behind the other, add up to the sum of them all.   *)
LEMMA SumsOfParts ==
  ASSUME NEW n \in Nat, NEW s, NEW h, Sums(n, s, h),
         NEW m \in Nat, NEW t, NEW g, Sums(m, t, g),
         NEW cut, cut[0] = 0, \A b \in 0 .. m : cut[b] \in 0 .. n,
         \A b \in 1 .. m : t[b] = h[cut[b]] - h[cut[b - 1]]
  PROVE  g[m] = h[cut[m]]
<1>1. \A k \in 0 .. n : h[k] \in Int
  BY DEF Sums
<1>2. h[0] = 0 /\ g[0] = 0 /\ \A b \in 1 .. m : g[b] = g[b - 1] + t[b]
  BY DEF Sums
<1> DEFINE S == {b \in Nat : b <= m => g[b] = h[cut[b]]}
<1>3. 0 \in S
  BY <1>2
<1>4. ASSUME NEW b \in Nat, b \in S PROVE b + 1 \in S
  <2>1. CASE b + 1 <= m
    <3>1. b + 1 \in 1 .. m /\ b + 1 - 1 = b /\ b \in 0 .. m /\ b + 1 \in 0 .. m
      BY <2>1
    <3>2. g[b] = h[cut[b]]
      BY <1>4, <2>1
    <3>3. h[cut[b]] \in Int /\ h[cut[b + 1]] \in Int
      BY <1>1, <3>1
    <3>4. g[b + 1] = g[b] + (h[cut[b + 1]] - h[cut[b]])
      BY <1>2, <3>1
    <3>5. g[b + 1] = h[cut[b + 1]]
      BY <3>2, <3>3, <3>4
    <3> QED BY <3>5
  <2> QED BY <2>1
<1> HIDE DEF S
<1>5. \A b \in Nat : b \in S
  BY <1>3, <1>4, Induction
<1> QED BY <1>5 DEF S
-----------------------------------------------------------------------------
(* Items in another order.                                                 *)

\* s has the items that f has at the places of D, each once.
Rearranged(s, D, f) ==
  /\ List(s)
  /\ \E at \in [1 .. Len(s) -> D] :
       /\ \A j, k \in 1 .. Len(s) : at[j] = at[k] => j = k
       /\ \A d \in D : \E j \in 1 .. Len(s) : at[j] = d
       /\ \A j \in 1 .. Len(s) : s[j] = f[at[j]]

LEMMA RearrangedNone == ASSUME NEW f PROVE Rearranged(<<>>, {}, f)
<1>1. List(<<>>) /\ Len(<<>>) = 0
  BY DEF List
<1>2. [j \in 1 .. 0 |-> j] \in [1 .. 0 -> {}]
  OBVIOUS
<1> QED BY <1>1, <1>2 DEF Rearranged

LEMMA RearrangedOne == ASSUME NEW f, NEW d, NEW x, x = f[d] PROVE Rearranged(<<x>>, {d}, f)
<1>1. List(<<x>>) /\ Len(<<x>>) = 1 /\ <<x>>[1] = x
  BY DEF List
<1> DEFINE at == [j \in 1 .. 1 |-> d]
<1>2. /\ at \in [1 .. 1 -> {d}] /\ at[1] = d
  OBVIOUS
<1> HIDE DEF at
<1> QED BY <1>1, <1>2 DEF Rearranged

LEMMA RearrangedBoth ==
  ASSUME NEW f, NEW s, NEW t, NEW D, NEW E, D \cap E = {}, Rearranged(s, D, f), Rearranged(t, E, f)
  PROVE  Rearranged(s \o t, D \cup E, f)
<1>m. PICK m \in Nat, n \in Nat : m = Len(s) /\ n = Len(t)
  BY DEF Rearranged, List
<1>1. PICK st : m = Len(s) /\ n = Len(t) /\ st = s \o t
  BY <1>m
<1>2. PICK a \in [1 .. m -> D] :
        /\ \A j, k \in 1 .. m : a[j] = a[k] => j = k
        /\ \A d \in D : \E j \in 1 .. m : a[j] = d
        /\ \A j \in 1 .. m : s[j] = f[a[j]]
  BY <1>1 DEF Rearranged
<1>3. PICK b \in [1 .. n -> E] :
        /\ \A j, k \in 1 .. n : b[j] = b[k] => j = k
        /\ \A d \in E : \E j \in 1 .. n : b[j] = d
        /\ \A j \in 1 .. n : t[j] = f[b[j]]
  BY <1>1 DEF Rearranged
<1>4. /\ List(st) /\ Len(st) = m + n
      /\ \A k \in 1 .. m : st[k] = s[k]
      /\ \A k \in 1 .. n : st[m + k] = t[k]
  BY <1>1, Concatenated DEF Rearranged
<1> DEFINE c == [j \in 1 .. m + n |-> IF j <= m THEN a[j] ELSE b[j - m]]
<1>5. \A j \in 1 .. m : j \in 1 .. m + n /\ c[j] = a[j] /\ c[j] \in D
  <2> TAKE j \in 1 .. m
  <2>1. j \in 1 .. m + n /\ j <= m
    OBVIOUS
  <2>2. c[j] = a[j]
    BY <2>1
  <2>3. a[j] \in D
    OBVIOUS
  <2> QED BY <2>1, <2>2, <2>3
<1>6. \A j \in 1 .. n : m + j \in 1 .. m + n /\ c[m + j] = b[j] /\ c[m + j] \in E
  <2> TAKE j \in 1 .. n
  <2>1. m + j \in 1 .. m + n /\ ~ (m + j <= m) /\ m + j - m = j
    OBVIOUS
  <2>2. c[m + j] = b[j]
    BY <2>1
  <2>3. b[j] \in E
    OBVIOUS
  <2> QED BY <2>1, <2>2, <2>3
<1>7. ASSUME NEW j \in 1 .. m + n
      PROVE  \/ j \in 1 .. m
             \/ \E i \in 1 .. n : j = m + i
  <2>1. j <= m \/ (j - m \in 1 .. n /\ j = m + (j - m))
    OBVIOUS
  <2> QED BY <2>1
<1>8. c = [j \in 1 .. m + n |-> c[j]]
  OBVIOUS
<1> HIDE DEF c
<1>9. c \in [1 .. m + n -> D \cup E]
  <2>1. ASSUME NEW j \in 1 .. m + n PROVE c[j] \in D \cup E
    <3>1. CASE j \in 1 .. m
      BY <1>5, <3>1
    <3>2. CASE \E i \in 1 .. n : j = m + i
      BY <1>6, <3>2
    <3> QED BY <1>7, <3>1, <3>2
  <2> QED BY <1>8, <2>1
<1>10. ASSUME NEW j \in 1 .. m + n, NEW k \in 1 .. m + n, c[j] = c[k] PROVE j = k
  <2>1. CASE j \in 1 .. m /\ k \in 1 .. m
    BY <1>2, <1>5, <1>10, <2>1
  <2>2. CASE j \in 1 .. m /\ \E i \in 1 .. n : k = m + i
    BY <1>5, <1>6, <1>10, <2>2
  <2>3. CASE k \in 1 .. m /\ \E i \in 1 .. n : j = m + i
    BY <1>5, <1>6, <1>10, <2>3
  <2>4. CASE (\E i \in 1 .. n : j = m + i) /\ (\E i \in 1 .. n : k = m + i)
    <3>1. PICK x \in 1 .. n, y \in 1 .. n : j = m + x /\ k = m + y
      BY <2>4
    <3>2. b[x] = b[y]
      BY <1>6, <1>10, <3>1
    <3> QED BY <1>3, <3>1, <3>2
  <2> QED BY <1>7, <2>1, <2>2, <2>3, <2>4
<1>11. ASSUME NEW d \in D \cup E PROVE \E j \in 1 .. m + n : c[j] = d
  <2>1. CASE d \in D
    BY <1>2, <1>5, <2>1
  <2>2. CASE d \in E
    BY <1>3, <1>6, <2>2
  <2> QED BY <2>1, <2>2
<1>12. ASSUME NEW j \in 1 .. m + n PROVE st[j] = f[c[j]]
  <2>1. CASE j \in 1 .. m
    BY <1>2, <1>4, <1>5, <2>1
  <2>2. CASE \E i \in 1 .. n : j = m + i
    <3>1. PICK i \in 1 .. n : j = m + i
      BY <2>2
    <3>2. st[m + i] = t[i] /\ c[m + i] = b[i] /\ t[i] = f[b[i]]
      BY <1>3, <1>4, <1>6
    <3> QED BY <3>1, <3>2
  <2> QED BY <1>7, <2>1, <2>2
<1>13. Rearranged(st, D \cup E, f)
  <2>1. Len(st) = m + n
    BY <1>4
  <2>2. /\ c \in [1 .. Len(st) -> D \cup E]
        /\ \A j, k \in 1 .. Len(st) : c[j] = c[k] => j = k
        /\ \A d \in D \cup E : \E j \in 1 .. Len(st) : c[j] = d
        /\ \A j \in 1 .. Len(st) : st[j] = f[c[j]]
    BY <1>9, <1>10, <1>11, <1>12, <2>1
  <2>3. List(st)
    BY <1>4
  <2>4. \E at \in [1 .. Len(st) -> D \cup E] :
          /\ \A j, k \in 1 .. Len(st) : at[j] = at[k] => j = k
          /\ \A d \in D \cup E : \E j \in 1 .. Len(st) : at[j] = d
          /\ \A j \in 1 .. Len(st) : st[j] = f[at[j]]
    BY <2>2
  <2> QED BY <2>3, <2>4, Zenon DEF Rearranged
<1> QED BY <1>1, <1>13

\* There are as many items as places.
LEMMA RearrangedSize ==
  ASSUME NEW f, NEW s, NEW D, Rearranged(s, D, f)
  PROVE  IsFiniteSet(D) /\ Cardinality(D) = Len(s)
<1>1. PICK a \in [1 .. Len(s) -> D] :
        /\ \A j, k \in 1 .. Len(s) : a[j] = a[k] => j = k
        /\ \A d \in D : \E j \in 1 .. Len(s) : a[j] = d
  BY DEF Rearranged
<1>2. Len(s) \in Nat
  BY DEF Rearranged, List
<1>3. a \in Bijection(1 .. Len(s), D)
  BY <1>1 DEF Bijection, Injection, Surjection, IsInjective
<1>4. ExistsBijection(1 .. Len(s), D)
  BY <1>3 DEF ExistsBijection
<1> QED BY <1>2, <1>4, FS_CountingElements, FS_NatBijection

\* A value is as often among the items as it is at the places.
TimesIn(D, f, v) == Cardinality({d \in D : f[d] = v})

LEMMA RearrangedTimes ==
  ASSUME NEW f, NEW s, NEW D, Rearranged(s, D, f), NEW v
  PROVE  TimesIn(1 .. Len(s), s, v) = TimesIn(D, f, v)
<1>1. PICK a \in [1 .. Len(s) -> D] :
        /\ \A j, k \in 1 .. Len(s) : a[j] = a[k] => j = k
        /\ \A d \in D : \E j \in 1 .. Len(s) : a[j] = d
        /\ \A j \in 1 .. Len(s) : s[j] = f[a[j]]
  BY DEF Rearranged
<1>2. Len(s) \in Nat
  BY DEF Rearranged, List
<1> DEFINE S == {j \in 1 .. Len(s) : s[j] = v}
           T == {d \in D : f[d] = v}
           b == [j \in S |-> a[j]]
<1>3. b \in Bijection(S, T)
  <2>1. b \in [S -> T]
    BY <1>1
  <2>2. \A j, k \in S : b[j] = b[k] => j = k
    BY <1>1
  <2>3. \A d \in T : \E j \in S : b[j] = d
    BY <1>1
  <2> HIDE DEF b, S, T
  <2> QED BY <2>1, <2>2, <2>3 DEF Bijection, Injection, Surjection, IsInjective
<1>4. IsFiniteSet(S)
  <2>1. IsFiniteSet(1 .. Len(s))
    BY <1>2, FS_Interval
  <2> QED BY <2>1, FS_Subset
<1>5. Cardinality(S) = Cardinality(T)
  BY <1>3, <1>4, FS_Bijection DEF ExistsBijection
<1> QED BY <1>5, Zenon DEF TimesIn, S, T

\* The parts put together.
LEMMA RearrangedFlat ==
  ASSUME NEW f, NEW n \in Nat, NEW ss, DOMAIN ss = 1 .. n, NEW D,
         \A i \in 1 .. n : Rearranged(ss[i], D[i], f),
         ss = [i \in 1 .. n |-> ss[i]],
         \A i, j \in 1 .. n : i # j => D[i] \cap D[j] = {}
  PROVE  Rearranged(FlattenSeq(ss), UNION {D[i] : i \in 1 .. n}, f)
<1>1. Len(ss) = n
  BY LengthOf
<1>2. CASE n = 0
  <2>1. ss = <<>> /\ Len(ss) = 0 /\ {D[i] : i \in 1 .. n} = {}
    BY <1>1, <1>2
  <2>2. FlattenSeq(ss) = <<>>
    BY <2>1, Zenon DEF FlattenSeq
  <2>3. UNION {D[i] : i \in 1 .. n} = {}
    BY <2>1
  <2> QED BY <2>2, <2>3, RearrangedNone
<1>3. CASE n # 0
  <2>1. PICK F : /\ F[1] = ss[1] /\ \A i \in 2 .. n : F[i] = F[i - 1] \o ss[i]
                 /\ FlattenSeq(ss) = F[n]
    BY <1>1, <1>3, FlattenSeqIs
  <2> DEFINE All(i) == UNION {D[k] : k \in 1 .. i}
             S == {i \in Nat : i + 1 <= n => Rearranged(F[i + 1], All(i + 1), f)}
  <2>2. 0 \in S
    <3>1. 1 .. 0 + 1 = {1} /\ 0 + 1 = 1 /\ 1 \in 1 .. n
      BY <1>3
    <3>2. All(0 + 1) = D[1]
      BY <3>1
    <3>3. Rearranged(ss[1], D[1], f)
      BY <3>1
    <3> HIDE DEF All
    <3>4. Rearranged(F[0 + 1], All(0 + 1), f)
      BY <2>1, <3>1, <3>2, <3>3, Zenon
    <3> QED BY <3>4
  <2>3. ASSUME NEW i \in Nat, i \in S PROVE i + 1 \in S
    <3> SUFFICES ASSUME i + 1 + 1 <= n PROVE Rearranged(F[i + 1 + 1], All(i + 1 + 1), f)
      OBVIOUS
    <3>1. Rearranged(F[i + 1], All(i + 1), f)
      <4>1. i + 1 <= n
        OBVIOUS
      <4> HIDE DEF All
      <4> QED BY <2>3, <4>1
    <3>2. F[i + 1 + 1] = F[i + 1] \o ss[i + 1 + 1]
      <4> HIDE DEF S
      <4>1. PICK k \in 2 .. n : k = i + 1 + 1 /\ k - 1 = i + 1
        OBVIOUS
      <4>2. F[k] = F[k - 1] \o ss[k]
        BY <2>1
      <4> QED BY <4>1, <4>2
    <3>3. All(i + 1 + 1) = All(i + 1) \cup D[i + 1 + 1]
      <4>1. 1 .. i + 1 + 1 = (1 .. i + 1) \cup {i + 1 + 1}
        OBVIOUS
      <4> QED BY <4>1
    <3>4. All(i + 1) \cap D[i + 1 + 1] = {}
      <4>1. i + 1 + 1 \in 1 .. n /\ \A k \in 1 .. i + 1 : k \in 1 .. n /\ k # i + 1 + 1
        OBVIOUS
      <4>2. \A k \in 1 .. i + 1 : D[k] \cap D[i + 1 + 1] = {}
        BY <4>1
      <4> QED BY <4>2
    <3>5. Rearranged(ss[i + 1 + 1], D[i + 1 + 1], f)
      OBVIOUS
    <3> HIDE DEF All, S
    <3>6. Rearranged(F[i + 1] \o ss[i + 1 + 1], All(i + 1) \cup D[i + 1 + 1], f)
      BY <3>1, <3>4, <3>5, RearrangedBoth
    <3> QED BY <3>2, <3>3, <3>6
  <2> HIDE DEF S
  <2>4. n - 1 \in S
    <3>1. n - 1 \in Nat
      BY <1>3
    <3> QED BY <2>2, <2>3, <3>1, Induction
  <2>5. n - 1 + 1 = n /\ n <= n
    OBVIOUS
  <2>6. n - 1 + 1 <= n => Rearranged(F[n - 1 + 1], All(n - 1 + 1), f)
    BY <2>4, Zenon DEF S
  <2>7. Rearranged(F[n], All(n), f)
    <3> HIDE DEF All
    <3> QED BY <2>5, <2>6
  <2> QED BY <2>1, <2>7
<1> QED BY <1>2, <1>3
================================================================================
