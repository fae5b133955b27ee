------------------------- MODULE ExampleProblemsProofs -------------------------
(***************************************************************************)
(* What example_input writes for each workload, for every size and every   *)
(* number of workers: who is dealt what, and what a file holds in the end. *)
(***************************************************************************)
EXTENDS ExampleProblems, SequenceFacts

-----------------------------------------------------------------------------
(* The blocked division (example_input.cpp:40-49): each worker has a run   *)
(* of items that starts where the one before it ends.                      *)

BlockStart(w, n, total) ==
  w * (total \div n) + (IF w < total % n THEN w ELSE total % n)

LEMMA RestOfProduct ==
  ASSUME NEW a \in Nat, NEW b \in Nat, NEW c \in Nat, a <= b
  PROVE  a * c <= b * c /\ (b - a) * c = b * c - a * c /\ (a + 1) * c = a * c + c
  OBVIOUS

\* Item i is the worker's whose run of items it lies in, and that worker exists.
THEOREM BlockedIsBlock ==
  ASSUME NEW n \in Nat \ {0}, NEW total \in Nat, NEW i \in 0 .. total - 1
  PROVE  LET w == Blocked(i, n, total)
         IN  w \in 0 .. n - 1 /\ BlockStart(w, n, total) <= i /\ i < BlockStart(w + 1, n, total)
<1>1. PICK per \in Nat : per = total \div n
  BY Euclid
<1>2. PICK extras \in 0 .. n - 1 : extras = total % n
  BY Euclid
<1>3. total = n * per + extras
  BY <1>1, <1>2, Euclid
<1>4. PICK w : w = Blocked(i, n, total)
  OBVIOUS
<1>5. \A v \in Nat : BlockStart(v, n, total) = v * per + (IF v < extras THEN v ELSE extras)
  BY <1>1, <1>2 DEF BlockStart
<1>6. w \in 0 .. n - 1 /\ BlockStart(w, n, total) <= i /\ i < BlockStart(w + 1, n, total)
  <2>1. CASE i < extras * (per + 1)
    <3>1. w = i \div (per + 1)
      BY <1>1, <1>2, <1>4, <2>1 DEF Blocked
    <3>2. w \in Nat /\ w < extras
      BY <2>1, <3>1, Euclid, QuotientBelow
    <3>3. w * (per + 1) <= i /\ i < (w + 1) * (per + 1)
      <4>1. per + 1 \in Nat \ {0} /\ i \in Nat
        OBVIOUS
      <4> QED BY <3>1, <4>1, QuotientBounds
    <3>4. BlockStart(w, n, total) = w * per + w
      BY <1>5, <3>2
    <3>5. BlockStart(w + 1, n, total) = (w + 1) * per + (w + 1)
      BY <1>5, <3>2
    <3>6. w * (per + 1) = w * per + w /\ (w + 1) * (per + 1) = (w + 1) * per + (w + 1)
      BY <3>2
    <3> QED BY <3>2, <3>3, <3>4, <3>5, <3>6
  <2>2. CASE ~ (i < extras * (per + 1))
    <3>1. PICK b \in Nat : b = extras * (per + 1)
      OBVIOUS
    <3>2. b = extras * per + extras
      BY <3>1
    <3>3. extras * per <= n * per /\ (n - extras) * per = n * per - extras * per
      BY RestOfProduct
    <3>4. i - b \in Nat /\ i - b < (n - extras) * per
      BY <1>3, <2>2, <3>1, <3>2, <3>3
    <3>5. per # 0
      <4>1. SUFFICES ASSUME per = 0 PROVE FALSE
        OBVIOUS
      <4>2. (n - extras) * per = 0
        BY <4>1
      <4> QED BY <3>4, <4>2
    <3>6. PICK q \in Nat : q = (i - b) \div per
      BY <3>4, <3>5, Euclid
    <3>7. q < n - extras
      BY <3>4, <3>5, <3>6, QuotientBelow
    <3>8. w = extras + q
      BY <1>1, <1>2, <1>4, <2>2, <3>1, <3>6 DEF Blocked
    <3>9. q * per <= i - b /\ i - b < (q + 1) * per
      BY <3>4, <3>5, <3>6, QuotientBounds
    <3>10. BlockStart(w, n, total) = (extras + q) * per + extras
      BY <1>5, <3>8
    <3>11. BlockStart(w + 1, n, total) = (extras + q + 1) * per + extras
      BY <1>5, <3>8
    <3>12. /\ (extras + q) * per = extras * per + q * per
           /\ (extras + q + 1) * per = extras * per + (q + 1) * per
      OBVIOUS
    <3>13. w \in 0 .. n - 1
      BY <3>7, <3>8
    <3>14. BlockStart(w, n, total) <= i
      BY <3>2, <3>4, <3>9, <3>10, <3>12
    <3>15. i < BlockStart(w + 1, n, total)
      BY <3>2, <3>4, <3>9, <3>11, <3>12
    <3> QED BY <3>13, <3>14, <3>15
  <2> QED BY <2>1, <2>2
<1> QED BY <1>4, <1>6

\* The runs start at 0, end at the total, and no two of them differ by more than one
\* in length, which is what AnswersAreShared says of the files.
THEOREM BlocksAreEven ==
  ASSUME NEW n \in Nat \ {0}, NEW total \in Nat
  PROVE  /\ BlockStart(0, n, total) = 0 /\ BlockStart(n, n, total) = total
         /\ \A w \in 0 .. n - 1 :
              BlockStart(w + 1, n, total) - BlockStart(w, n, total)
                \in {total \div n, total \div n + 1}
<1>1. PICK per \in Nat : per = total \div n
  BY Euclid
<1>2. PICK extras \in 0 .. n - 1 : extras = total % n
  BY Euclid
<1>3. total = n * per + extras
  BY <1>1, <1>2, Euclid
<1>4. \A v \in Nat : BlockStart(v, n, total) = v * per + (IF v < extras THEN v ELSE extras)
  BY <1>1, <1>2 DEF BlockStart
<1>5. BlockStart(0, n, total) = 0
  BY <1>4
<1>6. BlockStart(n, n, total) = total
  BY <1>3, <1>4
<1>7. ASSUME NEW w \in 0 .. n - 1
      PROVE  BlockStart(w + 1, n, total) - BlockStart(w, n, total)
               \in {total \div n, total \div n + 1}
  <2>1. (w + 1) * per = w * per + per
    OBVIOUS
  <2>2. BlockStart(w, n, total) = w * per + (IF w < extras THEN w ELSE extras)
    BY <1>4
  <2>3. BlockStart(w + 1, n, total) = w * per + per + (IF w + 1 < extras THEN w + 1 ELSE extras)
    BY <1>4, <2>1
  <2>4. PICK p \in Nat : p = w * per
    OBVIOUS
  <2>5. BlockStart(w + 1, n, total) - BlockStart(w, n, total) \in {per, per + 1}
    BY <2>2, <2>3, <2>4
  <2> QED BY <1>1, <2>5
<1> QED BY <1>5, <1>6, <1>7

\* Every cell of a product has a worker, when both sides of the grid divide the rows
\* and the grid has a place for each worker (:313-318): UndefinedOnlyWhen is about
\* the rows that are not divided.
THEOREM CellInRange ==
  ASSUME NEW n \in Nat \ {0}, NEW s \in Nat \ {0}, NEW i \in 0 .. s - 1, NEW j \in 0 .. s - 1,
         PortionsA(n) \in Nat \ {0}, PortionsB(n) \in Nat \ {0},
         PortionsA(n) * PortionsB(n) = n,
         s % PortionsA(n) = 0, s % PortionsB(n) = 0
  PROVE  CellWriter(s, n, i, j) \in 0 .. n - 1
<1>1. PICK a \in Nat \ {0} : a = PortionsA(n)
  OBVIOUS
<1>2. PICK b \in Nat \ {0} : b = PortionsB(n)
  OBVIOUS
<1>3. PICK h \in Nat : h = s \div a /\ s = a * h
  <2>1. s \div a \in Nat /\ s = a * (s \div a) + (s % a)
    BY Euclid
  <2>2. s % a = 0
    BY <1>1
  <2>3. a * (s \div a) \in Nat
    BY <2>1
  <2>4. s = a * (s \div a)
    BY <2>1, <2>2, <2>3
  <2> QED BY <2>1, <2>4
<1>4. PICK v \in Nat : v = s \div b /\ s = b * v
  <2>1. s \div b \in Nat /\ s = b * (s \div b) + (s % b)
    BY Euclid
  <2>2. s % b = 0
    BY <1>2
  <2>3. b * (s \div b) \in Nat
    BY <2>1
  <2>4. s = b * (s \div b)
    BY <2>1, <2>2, <2>3
  <2> QED BY <2>1, <2>4
<1>5. h \in Nat \ {0} /\ v \in Nat \ {0}
  <2>1. s # 0 /\ a * 0 = 0 /\ b * 0 = 0
    OBVIOUS
  <2> QED BY <2>1, <1>3, <1>4
<1>6. PICK p \in Nat : p = i \div h /\ p < a
  <2>1. i \in Nat /\ i < a * h
    BY <1>3
  <2>2. i \div h < a
    BY <2>1, <1>5, QuotientBelow
  <2>3. i \div h \in Nat
    BY <2>1, <1>5, Euclid
  <2> QED BY <2>2, <2>3
<1>7. PICK q \in Nat : q = j \div v /\ q < b
  <2>1. j \in Nat /\ j < b * v
    BY <1>4
  <2>2. j \div v < b
    BY <2>1, <1>5, QuotientBelow
  <2>3. j \div v \in Nat
    BY <2>1, <1>5, Euclid
  <2> QED BY <2>2, <2>3
<1>8. CellWriter(s, n, i, j) = p * b + q
  BY <1>1, <1>2, <1>3, <1>4, <1>6, <1>7 DEF CellWriter
<1>9. (p + 1) * b <= a * b /\ (p + 1) * b = p * b + b
  BY <1>6, RestOfProduct
<1>10. a * b = n
  BY <1>1, <1>2
<1> QED BY <1>7, <1>8, <1>9, <1>10

-----------------------------------------------------------------------------
(* Powers of two.                                                          *)

\* A table of the powers up to the n-th.
Doubling(n, h) == h = [l \in 0 .. n |-> IF l = 0 THEN 1 ELSE 2 * h[l - 1]]

LEMMA TableExists == \A n \in Nat : \E h : Doubling(n, h)
<1> DEFINE S == {n \in Nat : \E h : Doubling(n, h)}
<1>1. 0 \in S
  <2>1. [l \in 0 .. 0 |-> 1] = [l \in 0 .. 0 |-> IF l = 0 THEN 1 ELSE 2 * [k \in 0 .. 0 |-> 1][l - 1]]
    OBVIOUS
  <2> QED BY <2>1, Zenon DEF Doubling
<1>2. ASSUME NEW n \in S PROVE n + 1 \in S
  <2>1. PICK h : Doubling(n, h)
    OBVIOUS
  <2> DEFINE g == [l \in 0 .. n + 1 |-> IF l = n + 1 THEN 2 * h[n] ELSE h[l]]
  <2>2. ASSUME NEW l \in 0 .. n + 1
        PROVE  g[l] = IF l = 0 THEN 1 ELSE 2 * g[l - 1]
    <3>1. n \in Nat /\ \A k \in 0 .. n : h[k] = IF k = 0 THEN 1 ELSE 2 * h[k - 1]
      BY <2>1 DEF Doubling
    <3>2. CASE l = n + 1
      BY <3>1, <3>2
    <3>3. CASE l # n + 1
      <4>1. l \in 0 .. n /\ (l # 0 => l - 1 \in 0 .. n /\ l - 1 # n + 1)
        BY <3>1, <3>3
      <4> QED BY <3>1, <3>3, <4>1
    <3> QED BY <3>2, <3>3
  <2>3. g = [l \in 0 .. n + 1 |-> g[l]]
    OBVIOUS
  <2> HIDE DEF g
  <2>4. g = [l \in 0 .. n + 1 |-> IF l = 0 THEN 1 ELSE 2 * g[l - 1]]
    BY <2>2, <2>3, Zenon
  <2>5. Doubling(n + 1, g)
    BY <2>4, Zenon DEF Doubling
  <2> QED BY <2>5
<1> HIDE DEF S
<1>3. S = Nat
  BY <1>1, <1>2, Induction DEF S
<1> QED BY <1>3 DEF S

\* Two tables agree as far as both go.
LEMMA TablesAgree ==
  ASSUME NEW m \in Nat, NEW n \in Nat, NEW g, NEW h, Doubling(m, g), Doubling(n, h)
  PROVE  \A l \in Nat : l <= m /\ l <= n => g[l] = h[l]
<1> DEFINE S == {l \in Nat : l <= m /\ l <= n => g[l] = h[l]}
<1>1. /\ \A l \in 0 .. m : g[l] = IF l = 0 THEN 1 ELSE 2 * g[l - 1]
      /\ \A l \in 0 .. n : h[l] = IF l = 0 THEN 1 ELSE 2 * h[l - 1]
  BY DEF Doubling
<1>2. 0 \in S
  BY <1>1
<1>3. ASSUME NEW l \in S PROVE l + 1 \in S
  <2>1. CASE l + 1 <= m /\ l + 1 <= n
    <3>1. g[l] = h[l] /\ l + 1 \in 0 .. m /\ l + 1 \in 0 .. n /\ (l + 1) - 1 = l /\ l + 1 # 0
      BY <2>1
    <3>2. g[l + 1] = 2 * g[l] /\ h[l + 1] = 2 * h[l]
      BY <1>1, <3>1
    <3> QED BY <3>1, <3>2
  <2> QED BY <2>1
<1> HIDE DEF S
<1>4. S = Nat
  BY <1>2, <1>3, Induction DEF S
<1> QED BY <1>4 DEF S

\* Power2 is the table of all of them.
LEMMA Power2Is == Power2[0] = 1 /\ \A l \in Nat : Power2[l + 1] = 2 * Power2[l]
<1> DEFINE Table(n) == CHOOSE h : Doubling(n, h)
           g == [l \in Nat |-> Table(l)[l]]
<1>1. ASSUME NEW n \in Nat PROVE Doubling(n, Table(n))
  BY TableExists
<1> HIDE DEF Table
<1>2. ASSUME NEW l \in Nat
      PROVE  g[l] = IF l = 0 THEN 1 ELSE 2 * g[l - 1]
  <2>1. Table(l)[l] = IF l = 0 THEN 1 ELSE 2 * Table(l)[l - 1]
    <3>1. l \in 0 .. l /\ Doubling(l, Table(l))
      BY <1>1
    <3> QED BY <3>1 DEF Doubling
  <2>2. CASE l # 0
    <3>1. l - 1 \in Nat /\ l - 1 <= l
      BY <2>2
    <3>2. Table(l)[l - 1] = Table(l - 1)[l - 1]
      BY <1>1, <3>1, TablesAgree
    <3> QED BY <2>1, <2>2, <3>1, <3>2
  <2> QED BY <2>1, <2>2
<1>3. g = [l \in Nat |-> g[l]]
  OBVIOUS
<1> HIDE DEF g
<1>4. g = [l \in Nat |-> IF l = 0 THEN 1 ELSE 2 * g[l - 1]]
  BY <1>2, <1>3, Zenon
<1>5. Power2 = [l \in Nat |-> IF l = 0 THEN 1 ELSE 2 * Power2[l - 1]]
  BY <1>4, Zenon DEF Power2
<1>6. \A l \in Nat : Power2[l] = IF l = 0 THEN 1 ELSE 2 * Power2[l - 1]
  BY <1>5
<1>7. Power2[0] = 1
  BY <1>6
<1>8. \A l \in Nat : l + 1 \in Nat /\ l + 1 # 0 /\ (l + 1) - 1 = l
  OBVIOUS
<1> QED BY <1>6, <1>7, <1>8

LEMMA Power2Exceeds == \A l \in Nat : Power2[l] \in Nat /\ l < Power2[l]
<1> DEFINE S == {l \in Nat : Power2[l] \in Nat /\ l < Power2[l]}
<1>1. 0 \in S
  BY Power2Is
<1>2. ASSUME NEW l \in S PROVE l + 1 \in S
  BY Power2Is
<1> HIDE DEF S
<1>3. S = Nat
  BY <1>1, <1>2, Induction DEF S
<1> QED BY <1>3 DEF S

LEMMA Power2Grows == \A l, d \in Nat : Power2[l] <= Power2[l + d] /\ (d > 0 => Power2[l] < Power2[l + d])
<1> SUFFICES ASSUME NEW l \in Nat
             PROVE  \A d \in Nat : Power2[l] <= Power2[l + d] /\ (d > 0 => Power2[l] < Power2[l + d])
  OBVIOUS
<1> DEFINE S == {d \in Nat : Power2[l] <= Power2[l + d] /\ (d > 0 => Power2[l] < Power2[l + d])}
<1>1. 0 \in S
  BY Power2Exceeds
<1>2. ASSUME NEW d \in S PROVE d + 1 \in S
  <2>1. l + d \in Nat /\ l + (d + 1) = (l + d) + 1
    OBVIOUS
  <2>2. Power2[l + (d + 1)] = 2 * Power2[l + d]
    BY <2>1, Power2Is
  <2>3. Power2[l] \in Nat /\ Power2[l + d] \in Nat /\ 0 < Power2[l + d]
    BY <2>1, Power2Exceeds
  <2> QED BY <2>2, <2>3
<1> HIDE DEF S
<1>3. S = Nat
  BY <1>1, <1>2, Induction DEF S
<1> QED BY <1>3 DEF S

LEMMA Power2Adds == \A l, m \in Nat : Power2[l + m] = Power2[l] * Power2[m]
<1> SUFFICES ASSUME NEW l \in Nat PROVE \A m \in Nat : Power2[l + m] = Power2[l] * Power2[m]
  OBVIOUS
<1> DEFINE S == {m \in Nat : Power2[l + m] = Power2[l] * Power2[m]}
<1>1. 0 \in S
  BY Power2Is, Power2Exceeds
<1>2. ASSUME NEW m \in S PROVE m + 1 \in S
  <2>1. Power2[l + (m + 1)] = 2 * Power2[l + m]
    <3>1. l + m \in Nat /\ l + (m + 1) = (l + m) + 1
      OBVIOUS
    <3> QED BY <3>1, Power2Is
  <2>2. Power2[m + 1] = 2 * Power2[m]
    BY Power2Is
  <2>3. PICK a \in Nat, b \in Nat : a = Power2[l] /\ b = Power2[m]
    BY Power2Exceeds
  <2>4. a * (2 * b) = 2 * (a * b)
    OBVIOUS
  <2> QED BY <2>1, <2>2, <2>3, <2>4
<1> HIDE DEF S
<1>3. S = Nat
  BY <1>1, <1>2, Induction DEF S
<1> QED BY <1>3 DEF S

\* The logarithm of a power, and the portions a product is cut into.
LEMMA PortionsOfPower ==
  ASSUME NEW l \in Nat, NEW n, n = Power2[l]
  PROVE  /\ PortionsA(n) = Power2[(l + 1) \div 2]
         /\ PortionsB(n) = Power2[l \div 2]
         /\ PortionsA(n) * PortionsB(n) = n
         /\ PortionsA(n) \in Nat \ {0} /\ PortionsB(n) \in Nat \ {0}
         /\ PortionsA(n) \in {PortionsB(n), 2 * PortionsB(n)}
<1>1. n \in Nat /\ l \in 0 .. n /\ n < Power2[l + 1] /\ n > 0
  BY Power2Exceeds, Power2Is
<1>2. ASSUME NEW k \in 0 .. n, Power2[k] <= n, n < Power2[k + 1]
      PROVE  k = l
  <2>1. CASE k < l
    <3>1. k + 1 \in Nat /\ l - (k + 1) \in Nat /\ (k + 1) + (l - (k + 1)) = l
      BY <1>1, <2>1
    <3>2. Power2[k + 1] <= Power2[l]
      BY <3>1, Power2Grows
    <3>3. Power2[k + 1] \in Nat
      BY <3>1, Power2Exceeds
    <3> QED BY <1>1, <1>2, <3>2, <3>3
  <2>2. CASE l < k
    <3>1. k - l \in Nat /\ k - l > 0 /\ l + (k - l) = k
      BY <1>1, <2>2
    <3>2. Power2[l] < Power2[k]
      BY <3>1, Power2Grows
    <3>3. Power2[k] \in Nat
      BY <1>1, Power2Exceeds
    <3> QED BY <1>1, <1>2, <3>2, <3>3
  <2> QED BY <1>1, <2>1, <2>2
<1>3. Log2(n) = l
  <2>1. \E k \in 0 .. n : Power2[k] <= n /\ n < Power2[k + 1]
    BY <1>1
  <2> QED BY <1>2, <2>1, Zenon DEF Log2
<1>4. /\ l \div 2 \in Nat /\ (l + 1) \div 2 \in Nat
      /\ (l \div 2) + (l % 2) = (l + 1) \div 2 /\ (l + 1) \div 2 + l \div 2 = l
      /\ (l + 1) \div 2 = l \div 2 \/ (l + 1) \div 2 = l \div 2 + 1
  OBVIOUS
<1>5. PICK a \in Nat, b \in Nat : a = (l + 1) \div 2 /\ b = l \div 2
  BY <1>4
<1>6. PortionsA(n) = Power2[a] /\ PortionsB(n) = Power2[b]
  BY <1>3, <1>4, <1>5 DEF PortionsA, PortionsB
<1>7. Power2[a] * Power2[b] = n
  BY <1>4, <1>5, Power2Adds
<1>8. Power2[a] \in Nat \ {0} /\ Power2[b] \in Nat \ {0}
  BY Power2Exceeds
<1>9. Power2[a] = Power2[b] \/ Power2[a] = 2 * Power2[b]
  BY <1>4, <1>5, Power2Is
<1> QED BY <1>5, <1>6, <1>7, <1>8, <1>9

-----------------------------------------------------------------------------
(* What is dealt.                                                          *)

\* Every record is for one of n workers.
Placed(n, writes) ==
  List(writes) /\ \A k \in 1 .. Len(writes) : writes[k].worker \in 0 .. n - 1

LEMMA PlacedBehind ==
  ASSUME NEW n, NEW u, NEW v, Placed(n, u), Placed(n, v)
  PROVE  Placed(n, u \o v)
<1>1. /\ List(u \o v) /\ Len(u \o v) = Len(u) + Len(v)
      /\ \A k \in 1 .. Len(u) : (u \o v)[k] = u[k]
      /\ \A k \in 1 .. Len(v) : (u \o v)[Len(u) + k] = v[k]
  BY Concatenated DEF Placed
<1>2. ASSUME NEW k \in 1 .. Len(u \o v)
      PROVE  (u \o v)[k].worker \in 0 .. n - 1
  <2>1. Len(u) \in Nat /\ Len(v) \in Nat
    BY DEF Placed, List
  <2>2. CASE k <= Len(u)
    <3>1. k \in 1 .. Len(u)
      BY <2>1, <2>2
    <3> QED BY <1>1, <3>1 DEF Placed
  <2>3. CASE ~ (k <= Len(u))
    <3>1. PICK m \in 1 .. Len(v) : k = Len(u) + m
      <4>1. k - Len(u) \in 1 .. Len(v) /\ k = Len(u) + (k - Len(u))
        BY <1>1, <2>1, <2>3
      <4> QED BY <4>1
    <3> QED BY <1>1, <3>1 DEF Placed
  <2> QED BY <2>2, <2>3
<1> QED BY <1>1, <1>2 DEF Placed

\* Values are dealt to the workers named at their positions.
LEMMA DealIs ==
  ASSUME NEW kind, NEW workers, NEW values, List(values)
  PROVE  /\ List(Deal(kind, workers, values)) /\ Len(Deal(kind, workers, values)) = Len(values)
         /\ \A k \in 1 .. Len(values) :
              Deal(kind, workers, values)[k] =
                [kind |-> kind, worker |-> workers[k], value |-> values[k]]
<1> DEFINE d == Deal(kind, workers, values)
<1>1. DOMAIN values = 1 .. Len(values) /\ Len(values) \in Nat
  BY DEF List
<1>2. d = [k \in 1 .. Len(values) |->
             [kind |-> kind, worker |-> workers[k], value |-> values[k]]]
  BY <1>1, Zenon DEF Deal
<1> HIDE DEF d
<1>3. List(d) /\ Len(d) = Len(values)
  <2>1. DOMAIN d = 1 .. Len(values) /\ d = [k \in 1 .. Len(values) |-> d[k]]
    BY <1>2
  <2> QED BY <1>1, <2>1, ListOf
<1> QED BY <1>2, <1>3 DEF d

LEMMA DealPlaced ==
  ASSUME NEW n, NEW kind, NEW workers, NEW values, List(values),
         \A k \in 1 .. Len(values) : workers[k] \in 0 .. n - 1
  PROVE  Placed(n, Deal(kind, workers, values))
<1> DEFINE d == Deal(kind, workers, values)
<1>1. /\ List(d) /\ Len(d) = Len(values)
      /\ \A k \in 1 .. Len(values) :
           d[k] = [kind |-> kind, worker |-> workers[k], value |-> values[k]]
  BY DealIs
<1> HIDE DEF d
<1>2. ASSUME NEW k \in 1 .. Len(d) PROVE d[k].worker \in 0 .. n - 1
  <2>1. k \in 1 .. Len(values)
    BY <1>1
  <2>2. d[k] = [kind |-> kind, worker |-> workers[k], value |-> values[k]]
    BY <1>1, <2>1, Zenon
  <2>3. workers[k] \in 0 .. n - 1
    BY <2>1
  <2> QED BY <2>2, <2>3
<1> QED BY <1>1, <1>2 DEF Placed, d

-----------------------------------------------------------------------------
(* What a file holds.                                                      *)

\* The file after the first writes.
Gathers(n, writes, kind, w, after) ==
  after = [k \in 0 .. n |->
             IF k = 0 THEN <<>>
             ELSE IF writes[k].kind = kind /\ writes[k].worker = w
             THEN Append(after[k - 1], writes[k].value)
             ELSE after[k - 1]]

LEMMA GatheringExists ==
  ASSUME NEW writes, NEW kind, NEW w
  PROVE  \A n \in Nat : \E after : Gathers(n, writes, kind, w, after)
<1> DEFINE S == {n \in Nat : \E after : Gathers(n, writes, kind, w, after)}
<1>1. 0 \in S
  <2> DEFINE g == [k \in 0 .. 0 |-> <<>>]
  <2>1. \A k \in 0 .. 0 : k = 0
    OBVIOUS
  <2>2. g = [k \in 0 .. 0 |->
               IF k = 0 THEN <<>>
               ELSE IF writes[k].kind = kind /\ writes[k].worker = w
               THEN Append(g[k - 1], writes[k].value)
               ELSE g[k - 1]]
    BY <2>1, Zenon
  <2> HIDE DEF g
  <2> QED BY <2>2, Zenon DEF Gathers
<1>2. ASSUME NEW n \in S PROVE n + 1 \in S
  <2>1. PICK h : Gathers(n, writes, kind, w, h)
    OBVIOUS
  <2> DEFINE mine == writes[n + 1].kind = kind /\ writes[n + 1].worker = w
             g == [k \in 0 .. n + 1 |->
                     IF k = n + 1
                     THEN IF mine THEN Append(h[n], writes[n + 1].value) ELSE h[n]
                     ELSE h[k]]
  <2>2. n \in Nat /\ 0 \in 0 .. n + 1 /\ 0 # n + 1
    OBVIOUS
  <2>3. ASSUME NEW k \in 0 .. n + 1
        PROVE  g[k] = IF k = 0 THEN <<>>
                      ELSE IF writes[k].kind = kind /\ writes[k].worker = w
                      THEN Append(g[k - 1], writes[k].value)
                      ELSE g[k - 1]
    <3>1. CASE k = n + 1
      <4>1. k # 0 /\ k - 1 = n /\ n \in 0 .. n + 1 /\ n # n + 1
        BY <3>1
      <4>2. g[k - 1] = h[n]
        BY <4>1, Zenon
      <4>3. g[k] = IF mine THEN Append(h[n], writes[n + 1].value) ELSE h[n]
        BY <3>1, Zenon
      <4> QED BY <3>1, <4>1, <4>2, <4>3, Zenon
    <3>2. CASE k # n + 1
      <4>1. k \in 0 .. n
        BY <3>2
      <4>2. g[k] = h[k]
        BY <3>2, Zenon
      <4>3. h[k] = IF k = 0 THEN <<>>
                   ELSE IF writes[k].kind = kind /\ writes[k].worker = w
                   THEN Append(h[k - 1], writes[k].value)
                   ELSE h[k - 1]
        BY <2>1, <4>1, Zenon DEF Gathers
      <4>4. CASE k = 0
        BY <4>2, <4>3, <4>4, Zenon
      <4>5. CASE k # 0
        <5>1. k - 1 \in 0 .. n + 1 /\ k - 1 # n + 1
          BY <4>1, <4>5
        <5>2. g[k - 1] = h[k - 1]
          BY <5>1, Zenon
        <5> QED BY <4>2, <4>3, <4>5, <5>2, Zenon
      <4> QED BY <4>4, <4>5
    <3> QED BY <3>1, <3>2
  <2>4. g = [k \in 0 .. n + 1 |-> g[k]]
    OBVIOUS
  <2> HIDE DEF g
  <2>5. Gathers(n + 1, writes, kind, w, g)
    BY <2>3, <2>4, Zenon DEF Gathers
  <2> QED BY <2>5
<1> HIDE DEF S
<1>3. S = Nat
  BY <1>1, <1>2, Induction DEF S
<1> QED BY <1>3 DEF S

LEMMA ItemsGathered ==
  ASSUME NEW writes, List(writes), NEW kind, NEW w
  PROVE  \E after :
           /\ after[0] = <<>>
           /\ \A k \in 1 .. Len(writes) :
                after[k] = IF writes[k].kind = kind /\ writes[k].worker = w
                           THEN Append(after[k - 1], writes[k].value)
                           ELSE after[k - 1]
           /\ ItemsOf(writes, kind, w) = after[Len(writes)]
<1> DEFINE F == CHOOSE after : Gathers(Len(writes), writes, kind, w, after)
<1>1. Len(writes) \in Nat
  BY DEF List
<1>2. \E after : Gathers(Len(writes), writes, kind, w, after)
  BY <1>1, GatheringExists
<1>3. Gathers(Len(writes), writes, kind, w, F)
  BY <1>2, Zenon
<1>4. ItemsOf(writes, kind, w) = F[Len(writes)]
  BY Zenon DEF ItemsOf, Gathers
<1> HIDE DEF F
<1>5. \A k \in 0 .. Len(writes) :
        F[k] = IF k = 0 THEN <<>>
               ELSE IF writes[k].kind = kind /\ writes[k].worker = w
               THEN Append(F[k - 1], writes[k].value)
               ELSE F[k - 1]
  BY <1>3, Zenon DEF Gathers
<1>6. 0 \in 0 .. Len(writes) /\ \A k \in 1 .. Len(writes) : k \in 0 .. Len(writes) /\ k # 0
  BY <1>1
<1>7. F[0] = <<>>
  BY <1>5, <1>6, Zenon
<1>8. \A k \in 1 .. Len(writes) :
        F[k] = IF writes[k].kind = kind /\ writes[k].worker = w
               THEN Append(F[k - 1], writes[k].value)
               ELSE F[k - 1]
  BY <1>5, <1>6, Zenon
<1> QED BY <1>4, <1>7, <1>8, Zenon

-----------------------------------------------------------------------------
(* Every record finds a worker.                                            *)

\* A share and its length.
PlacedShare(n, length, writes) == Placed(n, writes) /\ Len(writes) = length

LEMMA Together ==
  ASSUME NEW n, NEW a, NEW b, NEW u, NEW v, PlacedShare(n, a, u), PlacedShare(n, b, v)
  PROVE  PlacedShare(n, a + b, u \o v)
<1>1. Placed(n, u \o v)
  BY PlacedBehind DEF PlacedShare
<1>2. List(u) /\ List(v)
  BY DEF PlacedShare, Placed
<1>3. Len(u \o v) = Len(u) + Len(v)
  BY <1>2, Concatenated
<1> QED BY <1>1, <1>3 DEF PlacedShare

LEMMA Shared ==
  ASSUME NEW n, NEW length, NEW kind, NEW workers, NEW values,
         List(values), Len(values) = length,
         \A k \in 1 .. length : workers[k] \in 0 .. n - 1
  PROVE  PlacedShare(n, length, Deal(kind, workers, values))
<1>1. Placed(n, Deal(kind, workers, values))
  BY DealPlaced
<1>2. Len(Deal(kind, workers, values)) = length
  BY DealIs
<1> QED BY <1>1, <1>2 DEF PlacedShare

LEMMA SharedInBlocks ==
  ASSUME NEW n \in Nat \ {0}, NEW total \in Nat, NEW kind, NEW values,
         List(values), Len(values) = total
  PROVE  PlacedShare(n, total, Deal(kind, BlockedOf(n, total), values))
<1>1. ASSUME NEW k \in 1 .. total PROVE BlockedOf(n, total)[k] \in 0 .. n - 1
  <2>1. k - 1 \in 0 .. total - 1
    OBVIOUS
  <2>2. BlockedOf(n, total)[k] = Blocked(k - 1, n, total)
    BY DEF BlockedOf
  <2>3. Blocked(k - 1, n, total) \in 0 .. n - 1
    BY <2>1, BlockedIsBlock
  <2> QED BY <2>2, <2>3
<1> QED BY <1>1, Shared

LEMMA SharedSingle ==
  ASSUME NEW n \in Nat \ {0}, NEW total \in Nat, NEW values,
         List(values), Len(values) = total
  PROVE  PlacedShare(n, total, Single(values))
<1> DEFINE workers == [k \in DOMAIN values |-> 0]
<1>1. DOMAIN values = 1 .. total
  BY DEF List
<1>2. \A k \in 1 .. total : workers[k] \in 0 .. n - 1
  BY <1>1
<1> HIDE DEF workers
<1>3. PlacedShare(n, total, Deal("expected", workers, values))
  BY <1>2, Shared
<1> QED BY <1>3 DEF Single, workers

LEMMA SharedByParties ==
  ASSUME NEW n \in Nat \ {0}, NEW s \in Nat, NEW values,
         List(values), Len(values) = 2 * s
  PROVE  PlacedShare(n, 2 * s, DealParties(n, values))
<1> DEFINE workers == CyclicOf(n, 2 * s)
           u == SubSeq(workers, 1, s)
           v == SubSeq(workers, s + 1, 2 * s)
           a == SubSeq(values, 1, s)
           b == SubSeq(values, s + 1, 2 * s)
<1>1. Len(values) \div 2 = s
  OBVIOUS
<1>2. \A k \in 1 .. 2 * s : workers[k] \in 0 .. n - 1
  BY DEF CyclicOf, Cyclic
<1> HIDE DEF workers
<1>3. u = [k \in 1 .. s |-> workers[k]] /\ v = [k \in 1 .. s |-> workers[s + k]]
  OBVIOUS
<1>4. a = [k \in 1 .. s |-> values[k]] /\ b = [k \in 1 .. s |-> values[s + k]]
  OBVIOUS
<1> HIDE DEF u, v, a, b
<1>5. \A k \in 1 .. s : u[k] \in 0 .. n - 1 /\ v[k] \in 0 .. n - 1
  BY <1>2, <1>3
<1>6. List(a) /\ Len(a) = s /\ List(b) /\ Len(b) = s
  <2>1. DOMAIN a = 1 .. s /\ a = [k \in 1 .. s |-> a[k]]
    BY <1>4
  <2>2. DOMAIN b = 1 .. s /\ b = [k \in 1 .. s |-> b[k]]
    BY <1>4
  <2> QED BY <2>1, <2>2, ListOf
<1>7. PlacedShare(n, s, Deal("garbler", u, a))
  BY <1>5, <1>6, Shared
<1>8. PlacedShare(n, s, Deal("evaluator", v, b))
  BY <1>5, <1>6, Shared
<1>9. PlacedShare(n, s + s, Deal("garbler", u, a) \o Deal("evaluator", v, b))
  BY <1>7, <1>8, Together
<1>10. DealParties(n, values) = Deal("garbler", u, a) \o Deal("evaluator", v, b)
  BY <1>1, Zenon DEF DealParties, workers, u, v, a, b
<1> QED BY <1>9, <1>10

LEMMA PairIsList == ASSUME NEW x, NEW y PROVE List(<<x, y>>) /\ Len(<<x, y>>) = 2
<1>1. <<x, y>> = [k \in 1 .. 2 |-> <<x, y>>[k]] /\ Len(<<x, y>>) = 2
  OBVIOUS
<1> QED BY <1>1 DEF List

LEMMA OneIsList == ASSUME NEW x PROVE List(<<x>>) /\ Len(<<x>>) = 1
<1>1. <<x>> = [k \in 1 .. 1 |-> <<x>>[k]] /\ Len(<<x>>) = 1
  OBVIOUS
<1> QED BY <1>1 DEF List

LEMMA AspirinPlaced ==
  ASSUME NEW s \in Nat, NEW n \in Nat \ {0}
  PROVE  PlacedShare(n, 2 * s + 2, Aspirin(s, n))
<1> DEFINE values == [k \in 1 .. 2 * s |-> IF k <= s THEN <<k - 1, 1, IF k = 1 THEN 0 ELSE 1>>
                                                      ELSE <<2 * s - k, 2, 0>>]
<1>1. DOMAIN values = 1 .. 2 * s /\ values = [k \in 1 .. 2 * s |-> values[k]]
  BY Zenon
<1>2. Aspirin(s, n) = DealParties(n, values) \o Deal("expected", <<0, 0>>, <<1, s - 1>>)
  BY Zenon DEF Aspirin
<1> HIDE DEF values
<1>3. List(values) /\ Len(values) = 2 * s
  <2>1. 2 * s \in Nat
    OBVIOUS
  <2> QED BY <1>1, <2>1, ListOf
<1>4. PlacedShare(n, 2 * s, DealParties(n, values))
  BY <1>3, SharedByParties
<1>5. PlacedShare(n, 2, Deal("expected", <<0, 0>>, <<1, s - 1>>))
  <2>1. \A k \in 1 .. 2 : <<0, 0>>[k] \in 0 .. n - 1
    OBVIOUS
  <2>2. List(<<1, s - 1>>) /\ Len(<<1, s - 1>>) = 2
    BY PairIsList
  <2> QED BY <2>1, <2>2, Shared
<1> QED BY <1>2, <1>4, <1>5, Together

LEMMA PasswordPlaced ==
  ASSUME NEW s \in Nat, NEW n \in Nat \ {0}, NEW hash
  PROVE  PlacedShare(n, 2 * s + (IF s = 0 THEN 0 ELSE 2 * s - 1), Password(s, n, hash))
<1> DEFINE answers == IF s = 0 THEN 0 ELSE 2 * s - 1
           values == [k \in 1 .. 2 * s |->
                        IF k <= s THEN <<hash[k], k>> ELSE <<0, 2 * s - k + 1>>]
           x == [k \in 1 .. answers |-> LET user == (k + 1) \div 2
                                        IN  IF k % 2 = 1 /\ hash[user] = 0 THEN user ELSE 0]
<1>1. Password(s, n, hash)
        = DealParties(n, values) \o Deal("expected", BlockedOf(n, answers), x)
  BY Zenon DEF Password
<1>2. answers \in Nat /\ 2 * s \in Nat
  OBVIOUS
<1> HIDE DEF answers
<1>3. DOMAIN values = 1 .. 2 * s /\ values = [k \in 1 .. 2 * s |-> values[k]]
  BY Zenon
<1>4. DOMAIN x = 1 .. answers /\ x = [k \in 1 .. answers |-> x[k]]
  BY Zenon
<1> HIDE DEF values, x
<1>5. List(values) /\ Len(values) = 2 * s /\ List(x) /\ Len(x) = answers
  BY <1>2, <1>3, <1>4, ListOf
<1>6. PlacedShare(n, 2 * s, DealParties(n, values))
  BY <1>5, SharedByParties
<1>7. PlacedShare(n, answers, Deal("expected", BlockedOf(n, answers), x))
  BY <1>2, <1>5, SharedInBlocks
<1>8. PlacedShare(n, 2 * s + answers, Password(s, n, hash))
  BY <1>1, <1>6, <1>7, Together
<1> QED BY <1>8 DEF answers

LEMMA SortPlaced ==
  ASSUME NEW s \in Nat, NEW n \in Nat \ {0}, NEW keys, List(keys), Len(keys) = 2 * s
  PROVE  PlacedShare(n, 2 * s + 2 * s, Sort(n, keys))
<1> DEFINE x == [k \in DOMAIN keys |-> k - 1]
<1>1. Sort(n, keys) = DealParties(n, keys) \o Deal("expected", BlockedOf(n, 2 * s), x)
  BY Zenon DEF Sort
<1>2. DOMAIN x = 1 .. 2 * s /\ x = [k \in 1 .. 2 * s |-> x[k]]
  BY DEF List
<1> HIDE DEF x
<1>3. 2 * s \in Nat
  OBVIOUS
<1>4. List(x) /\ Len(x) = 2 * s
  BY <1>2, <1>3, ListOf
<1>5. PlacedShare(n, 2 * s, DealParties(n, keys))
  BY SharedByParties
<1>6. PlacedShare(n, 2 * s, Deal("expected", BlockedOf(n, 2 * s), x))
  BY <1>3, <1>4, SharedInBlocks
<1> QED BY <1>1, <1>5, <1>6, Together

LEMMA MergePlaced ==
  ASSUME NEW s \in Nat
  PROVE  List(MergeKeys(s)) /\ Len(MergeKeys(s)) = 2 * s
<1> DEFINE keys == MergeKeys(s)
<1>1. DOMAIN keys = 1 .. 2 * s /\ keys = [k \in 1 .. 2 * s |-> keys[k]]
  BY Zenon DEF MergeKeys
<1> HIDE DEF keys
<1>2. 2 * s \in Nat
  OBVIOUS
<1>3. List(keys) /\ Len(keys) = 2 * s
  BY <1>1, <1>2, ListOf
<1> QED BY <1>3 DEF keys

LEMMA LoopJoinPlaced ==
  ASSUME NEW s \in Nat, NEW n \in Nat \ {0}
  PROVE  PlacedShare(n, s + s + s * s, LoopJoin(s, n))
<1> DEFINE keys == [k \in 1 .. s |-> k - 1]
           x == JoinRecords(s)
<1>1. LoopJoin(s, n) = Deal("garbler", BlockedOf(n, s), keys) \o Deal("evaluator", BlockedOf(n, s), keys)
                         \o Deal("expected", BlockedOf(n, s * s), x)
  BY Zenon DEF LoopJoin
<1>2. DOMAIN keys = 1 .. s /\ keys = [k \in 1 .. s |-> keys[k]]
  BY Zenon
<1>3. DOMAIN x = 1 .. s * s /\ x = [k \in 1 .. s * s |-> x[k]]
  BY Zenon DEF JoinRecords
<1> HIDE DEF keys, x
<1>4. s * s \in Nat
  OBVIOUS
<1>5. List(keys) /\ Len(keys) = s /\ List(x) /\ Len(x) = s * s
  BY <1>2, <1>3, <1>4, ListOf
<1>6. /\ PlacedShare(n, s, Deal("garbler", BlockedOf(n, s), keys))
      /\ PlacedShare(n, s, Deal("evaluator", BlockedOf(n, s), keys))
      /\ PlacedShare(n, s * s, Deal("expected", BlockedOf(n, s * s), x))
  BY <1>4, <1>5, SharedInBlocks
<1>7. PlacedShare(n, s + s, Deal("garbler", BlockedOf(n, s), keys)
                              \o Deal("evaluator", BlockedOf(n, s), keys))
  BY <1>6, Together
<1> QED BY <1>1, <1>6, <1>7, Together

LEMMA VectorPlaced ==
  ASSUME NEW s \in Nat, NEW n \in Nat \ {0}, NEW owner, NEW workersOfX, NEW a, NEW x, NEW sums,
         \A k \in 1 .. s : workersOfX[k] \in 0 .. n - 1,
         List(a), Len(a) = s * s, List(x), Len(x) = s, List(sums), Len(sums) = s
  PROVE  PlacedShare(n, s + s * s + s, MatrixVector(s, n, owner, workersOfX, a, x, sums))
<1> DEFINE workers == [k \in 1 .. s * s |-> Blocked((k - 1) \div s, n, s)]
<1>1. MatrixVector(s, n, owner, workersOfX, a, x, sums)
        = Deal(owner, workersOfX, x) \o Deal("garbler", workers, a)
            \o Deal("expected", BlockedOf(n, s), sums)
  BY Zenon DEF MatrixVector
<1>2. ASSUME NEW k \in 1 .. s * s PROVE workers[k] \in 0 .. n - 1
  <2>1. s \in Nat \ {0}
    <3>1. s # 0
      <4>1. SUFFICES ASSUME s = 0 PROVE FALSE
        OBVIOUS
      <4> QED BY <4>1
    <3> QED BY <3>1
  <2>2. k - 1 \in Nat /\ k - 1 < s * s
    OBVIOUS
  <2>3. PICK row \in Nat : row = (k - 1) \div s /\ row < s
    BY <2>1, <2>2, Euclid, QuotientBelow
  <2>4. row \in 0 .. s - 1
    BY <2>3
  <2>5. Blocked(row, n, s) \in 0 .. n - 1
    BY <2>4, BlockedIsBlock
  <2> QED BY <2>3, <2>5
<1> HIDE DEF workers
<1>3. PlacedShare(n, s, Deal(owner, workersOfX, x))
  BY Shared
<1>4. PlacedShare(n, s * s, Deal("garbler", workers, a))
  BY <1>2, Shared
<1>5. PlacedShare(n, s, Deal("expected", BlockedOf(n, s), sums))
  BY SharedInBlocks
<1>6. PlacedShare(n, s + s * s, Deal(owner, workersOfX, x) \o Deal("garbler", workers, a))
  BY <1>3, <1>4, Together
<1> QED BY <1>1, <1>5, <1>6, Together

LEMMA BatchesPlaced ==
  ASSUME NEW s \in Nat, NEW n \in Nat \ {0}, s % BatchSize = 0
  PROVE  \A k \in 1 .. s : ByBatches(s, n)[k] \in 0 .. n - 1
<1> SUFFICES ASSUME NEW k \in 1 .. s PROVE ByBatches(s, n)[k] \in 0 .. n - 1
  OBVIOUS
<1>1. PICK b \in Nat \ {0} : b = BatchSize
  BY BatchAssumption
<1>2. PICK batches \in Nat : batches = s \div b /\ s = b * batches
  <2>1. s \div b \in Nat /\ s = b * (s \div b) + (s % b) /\ s % b = 0
    BY <1>1, Euclid
  <2>2. b * (s \div b) \in Nat
    BY <2>1
  <2> QED BY <2>1, <2>2
<1>3. PICK mine \in Nat : mine = (k - 1) \div b /\ mine < batches
  <2>1. k - 1 \in Nat /\ k - 1 < batches * b
    BY <1>2
  <2> QED BY <2>1, Euclid, QuotientBelow
<1>4. mine \in 0 .. batches - 1
  BY <1>3
<1>5. Blocked(mine, n, batches) \in 0 .. n - 1
  BY <1>4, BlockedIsBlock
<1>6. ByBatches(s, n)[k] = Blocked(mine, n, batches)
  BY <1>1, <1>2, <1>3 DEF ByBatches
<1> QED BY <1>5, <1>6

LEMMA SharePlaced ==
  ASSUME NEW total \in Nat, NEW n \in Nat \ {0}, NEW values, List(values), Len(values) = total
  PROVE  PlacedShare(n, total, Share(n, values))
BY SharedInBlocks DEF Share

LEMMA CpirPlaced ==
  ASSUME NEW s \in Nat, NEW n \in Nat \ {0}
  PROVE  PlacedShare(n, s + s, Cpir(s, n))
<1> DEFINE u == [k \in 1 .. s |-> IF k - 1 = 3 THEN 1 ELSE 0]
           v == [k \in 1 .. s |-> 1 + (k - 1) * s + 3]
<1>1. Cpir(s, n) = Share(n, u) \o Single(v)
  BY Zenon DEF Cpir
<1>2. DOMAIN u = 1 .. s /\ u = [k \in 1 .. s |-> u[k]]
  BY Zenon
<1>3. DOMAIN v = 1 .. s /\ v = [k \in 1 .. s |-> v[k]]
  BY Zenon
<1> HIDE DEF u, v
<1>4. List(u) /\ Len(u) = s /\ List(v) /\ Len(v) = s
  BY <1>2, <1>3, ListOf
<1>5. PlacedShare(n, s, Share(n, u)) /\ PlacedShare(n, s, Single(v))
  BY <1>4, SharePlaced, SharedSingle
<1> QED BY <1>1, <1>5, Together

LEMMA SumsPlaced ==
  ASSUME NEW s \in Nat, NEW n \in Nat \ {0}
  PROVE  /\ PlacedShare(n, s + 1, RealSum(s, n))
         /\ PlacedShare(n, s + 2, RealStatistics(s, n))
         /\ PlacedShare(n, s + s + 1, RealVectorMultiply(s, n))
<1> DEFINE u == [k \in 1 .. s |-> k - 1]
           v == [k \in 1 .. s |-> 1]
           total == SumOf(u)
           squares == SumOf([k \in 1 .. s |-> (k - 1) * (k - 1)])
<1>1. /\ RealSum(s, n) = Share(n, u) \o Single(<<total>>)
      /\ RealStatistics(s, n) = Share(n, u) \o Single(<<total, squares>>)
      /\ RealVectorMultiply(s, n) = Share(n, v) \o Share(n, v) \o Single(<<s>>)
  BY Zenon DEF RealSum, RealStatistics, RealVectorMultiply
<1>2. DOMAIN u = 1 .. s /\ u = [k \in 1 .. s |-> u[k]]
  BY Zenon
<1>3. DOMAIN v = 1 .. s /\ v = [k \in 1 .. s |-> v[k]]
  BY Zenon
<1> HIDE DEF u, v, total, squares
<1>4. List(u) /\ Len(u) = s /\ List(v) /\ Len(v) = s
  BY <1>2, <1>3, ListOf
<1>5. PlacedShare(n, s, Share(n, u)) /\ PlacedShare(n, s, Share(n, v))
  BY <1>4, SharePlaced
<1>6. /\ List(<<total>>) /\ Len(<<total>>) = 1 /\ List(<<s>>) /\ Len(<<s>>) = 1
      /\ List(<<total, squares>>) /\ Len(<<total, squares>>) = 2
  BY OneIsList, PairIsList
<1>7. /\ PlacedShare(n, 1, Single(<<total>>)) /\ PlacedShare(n, 1, Single(<<s>>))
      /\ PlacedShare(n, 2, Single(<<total, squares>>))
  BY <1>6, SharedSingle
<1>8. PlacedShare(n, s + s, Share(n, v) \o Share(n, v))
  BY <1>5, Together
<1>9. PlacedShare(n, s + 1, RealSum(s, n))
  BY <1>1, <1>5, <1>7, Together
<1>10. PlacedShare(n, s + 2, RealStatistics(s, n))
  BY <1>1, <1>5, <1>7, Together
<1>11. PlacedShare(n, s + s + 1, RealVectorMultiply(s, n))
  BY <1>1, <1>7, <1>8, Together
<1> QED BY <1>9, <1>10, <1>11

\* What is drawn are lists.
LEMMA DrawnIsList ==
  ASSUME NEW n \in Nat, NEW S, NEW u \in [1 .. n -> S]
  PROVE  List(u) /\ Len(u) = n
<1>1. DOMAIN u = 1 .. n /\ u = [k \in 1 .. n |-> u[k]]
  OBVIOUS
<1> QED BY <1>1, ListOf

-----------------------------------------------------------------------------
(* Products of matrices.                                                   *)

\* The grid of workers has a place for each, and no more columns than rows.
Grid(n, rows, columns) ==
  /\ rows = PortionsA(n) /\ columns = PortionsB(n)
  /\ rows \in Nat \ {0} /\ columns \in Nat \ {0}
  /\ rows * columns = n /\ rows \in {columns, 2 * columns}

LEMMA MatricesPlaced ==
  ASSUME NEW s \in Nat, NEW n \in Nat \ {0}, NEW rows, NEW columns, Grid(n, rows, columns),
         s % rows = 0, NEW owner, NEW a, NEW b, NEW cells,
         List(a), Len(a) = s * s, List(b), Len(b) = s * s, List(cells), Len(cells) = s * s
  PROVE  PlacedShare(n, s * s + s * s + s * s, Matrices(s, n, owner, a, b, cells))
<1> DEFINE workers == [k \in 1 .. s * s |-> CellWriter(s, n, (k - 1) \div s, (k - 1) % s)]
<1>1. Matrices(s, n, owner, a, b, cells)
        = Deal("garbler", BlockedOf(n, s * s), a) \o Deal(owner, BlockedOf(n, s * s), b)
            \o Deal("expected", workers, cells)
  BY Zenon DEF Matrices
<1>2. ASSUME NEW k \in 1 .. s * s PROVE workers[k] \in 0 .. n - 1
  <2>1. s \in Nat \ {0}
    <3>1. s # 0
      <4>1. SUFFICES ASSUME s = 0 PROVE FALSE
        OBVIOUS
      <4> QED BY <4>1
    <3> QED BY <3>1
  <2>2. k - 1 \in Nat /\ k - 1 < s * s
    OBVIOUS
  <2>3. PICK i \in 0 .. s - 1 : i = (k - 1) \div s
    <3>1. (k - 1) \div s \in Nat /\ (k - 1) \div s < s
      BY <2>1, <2>2, Euclid, QuotientBelow
    <3>2. (k - 1) \div s \in 0 .. s - 1
      BY <3>1
    <3> QED BY <3>2
  <2>4. PICK j \in 0 .. s - 1 : j = (k - 1) % s
    BY <2>1, <2>2, Euclid
  <2>5. PICK r \in Nat \ {0}, c \in Nat \ {0} :
          r = rows /\ c = columns /\ r \in {c, 2 * c} /\ s % r = 0
    BY DEF Grid
  <2>6. s % c = 0
    <3>1. CASE r = c
      BY <2>5, <3>1
    <3>2. CASE r = 2 * c
      <4>1. PICK m \in Nat : s = r * m
        <5>1. s \div r \in Nat /\ s = r * (s \div r) + (s % r)
          BY <2>5, Euclid
        <5>2. r * (s \div r) \in Nat /\ s % r = 0
          BY <2>5, <5>1
        <5>3. s = r * (s \div r)
          BY <5>1, <5>2
        <5> QED BY <5>1, <5>3
      <4>2. s = c * (2 * m)
        BY <3>2, <4>1
      <4>3. PICK q \in Nat : q = 2 * m
        OBVIOUS
      <4>4. (c * q) % c = 0
        OBVIOUS
      <4> QED BY <4>2, <4>3, <4>4
    <3> QED BY <2>5, <3>1, <3>2
  <2>7. /\ PortionsA(n) \in Nat \ {0} /\ PortionsB(n) \in Nat \ {0}
        /\ PortionsA(n) * PortionsB(n) = n
        /\ s % PortionsA(n) = 0 /\ s % PortionsB(n) = 0
    BY <2>5, <2>6 DEF Grid
  <2>8. CellWriter(s, n, i, j) \in 0 .. n - 1
    BY <2>1, <2>7, CellInRange
  <2>9. workers[k] = CellWriter(s, n, i, j)
    BY <2>3, <2>4
  <2> QED BY <2>8, <2>9
<1> HIDE DEF workers
<1>3. s * s \in Nat
  OBVIOUS
<1>4. PlacedShare(n, s * s, Deal("garbler", BlockedOf(n, s * s), a))
  BY <1>3, SharedInBlocks
<1>5. PlacedShare(n, s * s, Deal(owner, BlockedOf(n, s * s), b))
  BY <1>3, SharedInBlocks
<1>6. PlacedShare(n, s * s, Deal("expected", workers, cells))
  BY <1>2, Shared
<1>7. PlacedShare(n, s * s + s * s, Deal("garbler", BlockedOf(n, s * s), a)
                                      \o Deal(owner, BlockedOf(n, s * s), b))
  BY <1>4, <1>5, Together
<1> QED BY <1>1, <1>6, <1>7, Together

\* If the rows cannot be cut evenly, the last cell of all has no worker.
LEMMA CellBeyond ==
  ASSUME NEW s \in Nat, NEW n \in Nat \ {0}, NEW rows, NEW columns, Grid(n, rows, columns),
         s % rows # 0, s >= rows
  PROVE  CellWriter(s, n, s - 1, s - 1) \in Nat /\ CellWriter(s, n, s - 1, s - 1) >= n
<1>1. PICK a \in Nat \ {0}, b \in Nat \ {0} :
        /\ a = PortionsA(n) /\ b = PortionsB(n) /\ a * b = n /\ a >= b
        /\ s % a # 0 /\ s >= a
  BY DEF Grid
<1>2. PICK h \in Nat, r \in 0 .. a - 1 : h = s \div a /\ s = a * h + r /\ r # 0
  <2>1. s \div a \in Nat /\ s % a \in 0 .. a - 1 /\ s = a * (s \div a) + (s % a)
    BY Euclid
  <2>2. s % a # 0
    BY <1>1
  <2> QED BY <2>1, <2>2
<1>3. PICK v \in Nat, t \in 0 .. b - 1 : v = s \div b /\ s = b * v + t
  <2>1. s \div b \in Nat /\ s % b \in 0 .. b - 1 /\ s = b * (s \div b) + (s % b)
    BY Euclid
  <2> QED BY <2>1
<1>4. h # 0
  <2>1. SUFFICES ASSUME h = 0 PROVE FALSE
    OBVIOUS
  <2>2. a * h = 0
    BY <2>1
  <2> QED BY <1>1, <1>2, <2>2
<1>5. v # 0
  <2>1. SUFFICES ASSUME v = 0 PROVE FALSE
    OBVIOUS
  <2>2. b * v = 0
    BY <2>1
  <2> QED BY <1>1, <1>3, <2>2
<1>6. s - 1 \in Nat
  BY <1>1
<1>7. PICK p \in Nat : p = (s - 1) \div h /\ p >= a
  <2>1. PICK q \in Nat : q = (s - 1) \div h /\ s - 1 < (q + 1) * h
    BY <1>4, <1>6, Euclid, QuotientBounds
  <2>2. a * h <= s - 1
    <3>1. PICK m \in Nat : m = a * h
      BY <1>1, <1>2
    <3> QED BY <1>2, <3>1
  <2>3. q >= a
    <3>1. SUFFICES ASSUME q + 1 <= a PROVE FALSE
      OBVIOUS
    <3>2. (q + 1) * h <= a * h
      <4>1. q + 1 \in Nat
        OBVIOUS
      <4> QED BY <3>1, <4>1, RestOfProduct
    <3>3. PICK x \in Nat, y \in Nat : x = (q + 1) * h /\ y = a * h
      OBVIOUS
    <3> QED BY <2>1, <2>2, <3>2, <3>3, <1>6
  <2> QED BY <2>1, <2>3
<1>8. PICK q \in Nat : q = (s - 1) \div v
  BY <1>5, <1>6, Euclid
<1>9. CellWriter(s, n, s - 1, s - 1) = p * b + q
  BY <1>1, <1>2, <1>3, <1>7, <1>8 DEF CellWriter
<1>10. a * b <= p * b
  BY <1>7, RestOfProduct
<1> QED BY <1>1, <1>9, <1>10

LEMMA MatricesMisplaced ==
  ASSUME NEW s \in Nat, NEW n \in Nat \ {0}, NEW rows, NEW columns, Grid(n, rows, columns),
         s % rows # 0, s >= rows, NEW owner, NEW a, NEW b, NEW cells,
         List(a), Len(a) = s * s, List(b), Len(b) = s * s, List(cells), Len(cells) = s * s
  PROVE  \E k \in DOMAIN Matrices(s, n, owner, a, b, cells) :
           Matrices(s, n, owner, a, b, cells)[k].worker \notin 0 .. n - 1
<1> DEFINE workers == [k \in 1 .. s * s |-> CellWriter(s, n, (k - 1) \div s, (k - 1) % s)]
           u == Deal("garbler", BlockedOf(n, s * s), a)
           v == Deal(owner, BlockedOf(n, s * s), b)
           x == Deal("expected", workers, cells)
<1>1. Matrices(s, n, owner, a, b, cells) = u \o v \o x
  BY Zenon DEF Matrices
<1>2. s \in Nat \ {0} /\ s * s \in Nat \ {0}
  <2>1. s # 0
    BY DEF Grid
  <2>2. s >= 1
    BY <2>1
  <2>3. 1 * s <= s * s
    BY <2>2, RestOfProduct
  <2> QED BY <2>1, <2>2, <2>3
<1>3. workers[s * s] = CellWriter(s, n, s - 1, s - 1)
  <2>1. s * s \in 1 .. s * s
    BY <1>2
  <2>2. workers[s * s] = CellWriter(s, n, (s * s - 1) \div s, (s * s - 1) % s)
    BY <2>1
  <2>3. s * s - 1 \in Nat /\ (s - 1) * s = s * s - s
    BY <1>2
  <2>4. (s * s - 1) \div s = s - 1
    <3>1. s - 1 \in Nat /\ (s - 1) * s <= s * s - 1 /\ s * s - 1 < ((s - 1) + 1) * s
      BY <1>2, <2>3
    <3> QED BY <1>2, <2>3, <3>1, QuotientIs
  <2>5. s * s - 1 = s * ((s * s - 1) \div s) + ((s * s - 1) % s)
    BY <1>2, <2>3, Euclid
  <2>6. (s * s - 1) % s = s - 1
    <3>1. s * s - 1 = s * (s - 1) + ((s * s - 1) % s)
      BY <2>4, <2>5
    <3>2. (s * s - 1) % s \in Int
      BY <1>2, <2>3, Euclid
    <3>3. s * (s - 1) = s * s - s
      OBVIOUS
    <3> QED BY <1>2, <3>1, <3>2, <3>3
  <2> QED BY <2>2, <2>4, <2>6
<1> HIDE DEF workers
<1>4. x[s * s] = [kind |-> "expected", worker |-> workers[s * s], value |-> cells[s * s]]
  <2>1. s * s \in 1 .. Len(cells)
    BY <1>2
  <2> QED BY <2>1, DealIs
<1>5. List(u) /\ List(v) /\ List(x) /\ Len(x) = s * s
  BY DealIs
<1> HIDE DEF u, v, x
<1>6. List(u \o v)
  BY <1>5, Concatenated
<1>7. /\ List(u \o v \o x) /\ Len(u \o v \o x) = Len(u \o v) + s * s
      /\ (u \o v \o x)[Len(u \o v) + s * s] = x[s * s]
  <2>1. s * s \in 1 .. Len(x)
    BY <1>2, <1>5
  <2> QED BY <1>5, <1>6, <2>1, Concatenated
<1> DEFINE whole == u \o v \o x
           k == Len(u \o v) + s * s
<1>8. k \in DOMAIN whole
  <2>1. Len(u \o v) \in Nat
    BY <1>6 DEF List
  <2>2. DOMAIN whole = 1 .. Len(whole)
    BY <1>7 DEF List
  <2> QED BY <1>2, <1>7, <2>1, <2>2
<1>9. whole[k].worker \notin 0 .. n - 1
  <2>1. workers[s * s] \in Nat /\ workers[s * s] >= n
    BY <1>3, CellBeyond
  <2>2. whole[k].worker = workers[s * s]
    BY <1>4, <1>7
  <2> QED BY <2>1, <2>2
<1> QED BY <1>1, <1>8, <1>9, Zenon

-----------------------------------------------------------------------------
(* The workloads.                                                          *)

\* What a list made up item by item is.
Listed(n, u) == List(u) /\ Len(u) = n

LEMMA ContentsListed ==
  ASSUME NEW s \in Nat, NEW problem, NEW a, NEW b
  PROVE  /\ Listed(s * s, Identity(s))
         /\ Listed(s * s, ProductCells(problem, s, a, b))
         /\ Listed(s, RowProducts(problem, s, a, b))
         /\ Listed(s, RowMajorities(s, a, b))
         /\ Listed(s, CountingUp(problem, s))
         /\ Listed(s, [k \in 1 .. s |-> (k - 1) % 2])
<1> DEFINE up == CountingUp(problem, s)
           parity == [k \in 1 .. s |-> (k - 1) % 2]
           one == Identity(s)
           cells == ProductCells(problem, s, a, b)
           rows == RowProducts(problem, s, a, b)
           signs == RowMajorities(s, a, b)
<1>1. DOMAIN up = 1 .. s /\ up = [k \in 1 .. s |-> up[k]]
  BY Zenon DEF CountingUp
<1>2. DOMAIN parity = 1 .. s /\ parity = [k \in 1 .. s |-> parity[k]]
  BY Zenon
<1>3. DOMAIN one = 1 .. s * s /\ one = [k \in 1 .. s * s |-> one[k]]
  BY Zenon DEF Identity
<1>4. DOMAIN cells = 1 .. s * s /\ cells = [k \in 1 .. s * s |-> cells[k]]
  BY Zenon DEF ProductCells
<1>5. DOMAIN rows = 1 .. s /\ rows = [k \in 1 .. s |-> rows[k]]
  BY Zenon DEF RowProducts
<1>6. DOMAIN signs = 1 .. s /\ signs = [k \in 1 .. s |-> signs[k]]
  BY Zenon DEF RowMajorities
<1> HIDE DEF up, parity, one, cells, rows, signs
<1>7. s * s \in Nat
  OBVIOUS
<1>8. Listed(s, up) /\ Listed(s, parity) /\ Listed(s, rows) /\ Listed(s, signs)
  BY <1>1, <1>2, <1>5, <1>6, ListOf DEF Listed
<1>9. Listed(s * s, one) /\ Listed(s * s, cells)
  BY <1>3, <1>4, <1>7, ListOf DEF Listed
<1> QED BY <1>8, <1>9, Zenon DEF up, parity, one, cells, rows, signs

\* Of the workloads without options it is known how much is written, too.
LEMMA SimpleWrites ==
  ASSUME NEW s \in Nat, NEW n \in Nat \ {0}, NEW option, NEW draw,
         NEW problem \in KnownProblems \ (OptionProblems \cup {"loop_join"})
  PROVE  LET writes == Writes(problem, s, n, option, draw)
         IN  /\ Placed(n, writes)
             /\ Len(writes) # 0 <=> s > 0 \/ problem \notin {"password", "merge_sorted", "real_cpir"}
<1> DEFINE writes == Writes(problem, s, n, option, draw)
           Length == IF problem \in {"aspirin", "aspirin_seq"} THEN 2 * s + 2
                     ELSE IF problem = "password" THEN 2 * s + (IF s = 0 THEN 0 ELSE 2 * s - 1)
                     ELSE IF problem = "merge_sorted" THEN 2 * s + 2 * s
                     ELSE IF problem = "real_cpir" THEN s + s
                     ELSE IF problem = "real_sum" THEN s + 1
                     ELSE IF problem = "real_statistics" THEN s + 2
                     ELSE s + s + 1
<1>1. problem \in {"aspirin", "aspirin_seq", "password", "merge_sorted", "real_cpir", "real_sum",
                   "real_statistics", "real_vector_multiply"}
  BY DEF KnownProblems
<1>2. PlacedShare(n, Length, writes)
  <2>1. CASE problem \in {"aspirin", "aspirin_seq"}
    <3>1. writes = Aspirin(s, n)
      BY <2>1 DEF Writes, MatrixPairs, MatrixVectors
    <3>2. PlacedShare(n, 2 * s + 2, Aspirin(s, n)) /\ Length = 2 * s + 2
      BY <2>1, AspirinPlaced
    <3> QED BY <3>1, <3>2, Zenon
  <2>2. CASE problem = "password"
    <3>1. PICK hash : writes = Password(s, n, hash)
      BY <2>2 DEF Writes, MatrixPairs, MatrixVectors
    <3>2. /\ PlacedShare(n, 2 * s + (IF s = 0 THEN 0 ELSE 2 * s - 1), Password(s, n, hash))
          /\ Length = 2 * s + (IF s = 0 THEN 0 ELSE 2 * s - 1)
      BY <2>2, PasswordPlaced
    <3> QED BY <3>1, <3>2, Zenon
  <2>3. CASE problem = "merge_sorted"
    <3>1. writes = Sort(n, MergeKeys(s))
      BY <2>3 DEF Writes, MatrixPairs, MatrixVectors
    <3>2. PlacedShare(n, 2 * s + 2 * s, Sort(n, MergeKeys(s))) /\ Length = 2 * s + 2 * s
      BY <2>3, MergePlaced, SortPlaced
    <3> QED BY <3>1, <3>2, Zenon
  <2>4. CASE problem = "real_cpir"
    <3>1. writes = Cpir(s, n)
      BY <2>4 DEF Writes, MatrixPairs, MatrixVectors
    <3>2. PlacedShare(n, s + s, Cpir(s, n)) /\ Length = s + s
      BY <2>4, CpirPlaced
    <3> QED BY <3>1, <3>2, Zenon
  <2>5. CASE problem = "real_sum"
    <3>1. writes = RealSum(s, n)
      BY <2>5 DEF Writes, MatrixPairs, MatrixVectors
    <3>2. PlacedShare(n, s + 1, RealSum(s, n)) /\ Length = s + 1
      BY <2>5, SumsPlaced
    <3> QED BY <3>1, <3>2, Zenon
  <2>6. CASE problem = "real_statistics"
    <3>1. writes = RealStatistics(s, n)
      BY <2>6 DEF Writes, MatrixPairs, MatrixVectors
    <3>2. PlacedShare(n, s + 2, RealStatistics(s, n)) /\ Length = s + 2
      BY <2>6, SumsPlaced
    <3> QED BY <3>1, <3>2, Zenon
  <2>7. CASE problem = "real_vector_multiply"
    <3>1. writes = RealVectorMultiply(s, n)
      BY <2>7 DEF Writes, MatrixPairs, MatrixVectors
    <3>2. PlacedShare(n, s + s + 1, RealVectorMultiply(s, n)) /\ Length = s + s + 1
      BY <2>7, SumsPlaced
    <3> QED BY <3>1, <3>2, Zenon
  <2> HIDE DEF writes, Length
  <2> QED BY <1>1, <2>1, <2>2, <2>3, <2>4, <2>5, <2>6, <2>7
<1>3. Length # 0 <=> s > 0 \/ problem \notin {"password", "merge_sorted", "real_cpir"}
  BY <1>1
<1> HIDE DEF writes, Length
<1>4. Placed(n, writes) /\ Len(writes) = Length
  BY <1>2 DEF PlacedShare
<1> QED BY <1>3, <1>4 DEF writes

\* A sort is one of a list, made up or drawn.
LEMMA SortWrites ==
  ASSUME NEW s \in Nat, NEW n, NEW option, NEW draw, NEW problem \in {"merge_sorted", "full_sort"},
         option = "random" => DrawnFor(problem, s, draw)
  PROVE  \E keys : Writes(problem, s, n, option, draw) = Sort(n, keys) /\ Listed(2 * s, keys)
<1>1. PICK keys : /\ Writes(problem, s, n, option, draw) = Sort(n, keys)
                  /\ keys = IF problem = "full_sort" /\ option = "random" THEN draw.a ELSE MergeKeys(s)
  BY DEF Writes, MatrixPairs, MatrixVectors
<1>2. 2 * s \in Nat
  OBVIOUS
<1>3. CASE problem = "full_sort" /\ option = "random"
  <2>1. keys \in [1 .. 2 * s -> 0 .. 2 * s - 1]
    BY <1>1, <1>3 DEF DrawnFor, Bijection, Injection
  <2>2. Listed(2 * s, keys)
    BY <1>2, <2>1, DrawnIsList DEF Listed
  <2> QED BY <1>1, <2>2
<1>4. CASE ~ (problem = "full_sort" /\ option = "random")
  <2>1. Listed(2 * s, keys)
    BY <1>1, <1>4, MergePlaced DEF Listed
  <2> QED BY <1>1, <2>1
<1> QED BY <1>3, <1>4

\* A product with a vector is one of lists.
LEMMA VectorWrites ==
  ASSUME NEW s \in Nat, NEW n, NEW option, NEW draw,
         NEW problem \in MatrixVectors \cup {"binary_fc_layer"},
         option = "random" => DrawnFor(problem, s, draw)
  PROVE  \E owner, a, x, sums :
           /\ Writes(problem, s, n, option, draw)
                = MatrixVector(s, n, owner, IF problem = "binary_fc_layer" THEN ByBatches(s, n)
                                                                        ELSE BlockedOf(n, s),
                               a, x, sums)
           /\ owner \in {"garbler", "evaluator"}
           /\ Listed(s * s, a) /\ Listed(s, x) /\ Listed(s, sums)
<1> DEFINE workers == IF problem = "binary_fc_layer" THEN ByBatches(s, n) ELSE BlockedOf(n, s)
           fixed == IF problem = "binary_fc_layer" THEN [k \in 1 .. s |-> (k - 1) % 2]
                                                   ELSE CountingUp(problem, s)
           sums == IF problem = "binary_fc_layer" THEN RowMajorities(s, draw.a, draw.b)
                                                  ELSE RowProducts(problem, s, draw.a, draw.b)
           owner == IF problem \in {"matrix_multiply", "matrix_vector_multiply", "binary_fc_layer"}
                    THEN "evaluator" ELSE "garbler"
<1>1. Writes(problem, s, n, option, draw) =
        IF option = "random" THEN MatrixVector(s, n, owner, workers, draw.a, draw.b, sums)
                             ELSE MatrixVector(s, n, owner, workers, Identity(s), fixed, fixed)
  <2>1. CASE problem = "binary_fc_layer"
    BY <2>1 DEF Writes, MatrixPairs, MatrixVectors
  <2>2. CASE problem \in MatrixVectors
    BY <2>2 DEF Writes, MatrixPairs, MatrixVectors
  <2> QED BY <2>1, <2>2
<1>2. owner \in {"garbler", "evaluator"}
  OBVIOUS
<1>3. Listed(s, fixed) /\ Listed(s, sums)
  BY ContentsListed
<1> HIDE DEF fixed, sums, owner
<1>4. CASE option = "random"
  <2>1. PICK S : draw.a \in [1 .. s * s -> S] /\ draw.b \in [1 .. s -> S]
    BY <1>4 DEF DrawnFor
  <2>2. s * s \in Nat
    OBVIOUS
  <2>3. Listed(s * s, draw.a) /\ Listed(s, draw.b)
    BY <2>1, <2>2, DrawnIsList DEF Listed
  <2> QED BY <1>1, <1>2, <1>3, <1>4, <2>3, Zenon
<1>5. CASE option # "random"
  BY <1>1, <1>2, <1>3, <1>5, ContentsListed, Zenon
<1> QED BY <1>4, <1>5

\* The other workloads but the products, if a layer has whole batches.
LEMMA OtherWrites ==
  ASSUME NEW s \in Nat, NEW n \in Nat \ {0}, NEW option, NEW draw,
         NEW problem \in MatrixVectors \cup {"full_sort", "binary_fc_layer", "loop_join"},
         problem = "binary_fc_layer" => s % BatchSize = 0,
         option = "random" => DrawnFor(problem, s, draw)
  PROVE  Placed(n, Writes(problem, s, n, option, draw))
<1>1. CASE problem = "loop_join"
  <2>1. Writes(problem, s, n, option, draw) = LoopJoin(s, n)
    BY <1>1 DEF Writes, MatrixPairs, MatrixVectors
  <2>2. Placed(n, LoopJoin(s, n))
    BY LoopJoinPlaced DEF PlacedShare
  <2> QED BY <2>1, <2>2
<1>2. CASE problem = "full_sort"
  <2>1. PICK keys : Writes(problem, s, n, option, draw) = Sort(n, keys) /\ Listed(2 * s, keys)
    BY <1>2, SortWrites
  <2>2. Placed(n, Sort(n, keys))
    BY <2>1, SortPlaced DEF PlacedShare, Listed
  <2> QED BY <2>1, <2>2
<1>3. CASE problem \in MatrixVectors \cup {"binary_fc_layer"}
  <2> DEFINE workers == IF problem = "binary_fc_layer" THEN ByBatches(s, n) ELSE BlockedOf(n, s)
  <2>1. PICK owner, a, x, sums :
          /\ Writes(problem, s, n, option, draw) = MatrixVector(s, n, owner, workers, a, x, sums)
          /\ Listed(s * s, a) /\ Listed(s, x) /\ Listed(s, sums)
    BY <1>3, VectorWrites
  <2>2. \A k \in 1 .. s : BlockedOf(n, s)[k] \in 0 .. n - 1
    <3>1. ASSUME NEW k \in 1 .. s PROVE BlockedOf(n, s)[k] \in 0 .. n - 1
      <4>1. k - 1 \in 0 .. s - 1 /\ BlockedOf(n, s)[k] = Blocked(k - 1, n, s)
        BY DEF BlockedOf
      <4>2. Blocked(k - 1, n, s) \in 0 .. n - 1
        BY <4>1, BlockedIsBlock
      <4> QED BY <4>1, <4>2
    <3> QED BY <3>1
  <2>3. problem = "binary_fc_layer" => \A k \in 1 .. s : ByBatches(s, n)[k] \in 0 .. n - 1
    BY BatchesPlaced
  <2>4. \A k \in 1 .. s : workers[k] \in 0 .. n - 1
    BY <2>2, <2>3
  <2> HIDE DEF workers
  <2>5. Placed(n, MatrixVector(s, n, owner, workers, a, x, sums))
    BY <2>1, <2>4, VectorPlaced DEF PlacedShare, Listed
  <2> QED BY <2>1, <2>5
<1> QED BY <1>1, <1>2, <1>3

\* A product of matrices is one of lists.
LEMMA ProductWrites ==
  ASSUME NEW s \in Nat, NEW n, NEW option, NEW draw, NEW problem \in MatrixPairs,
         option = "random" => DrawnFor(problem, s, draw)
  PROVE  \E owner, a, b, cells :
           /\ Writes(problem, s, n, option, draw) = Matrices(s, n, owner, a, b, cells)
           /\ Listed(s * s, a) /\ Listed(s * s, b) /\ Listed(s * s, cells)
<1> DEFINE owner == IF problem \in {"matrix_multiply", "matrix_vector_multiply"}
                    THEN "evaluator" ELSE "garbler"
<1>1. Writes(problem, s, n, option, draw) =
        IF option = "random"
        THEN Matrices(s, n, owner, draw.a, draw.b, ProductCells(problem, s, draw.a, draw.b))
        ELSE Matrices(s, n, owner, Identity(s), Identity(s), Identity(s))
  BY DEF Writes, MatrixPairs, MatrixVectors
<1> HIDE DEF owner
<1>2. CASE option = "random"
  <2>1. PICK S : draw.a \in [1 .. s * s -> S] /\ draw.b \in [1 .. s * s -> S]
    BY <1>2 DEF DrawnFor
  <2>2. Listed(s * s, draw.a) /\ Listed(s * s, draw.b)
    <3>1. s * s \in Nat
      OBVIOUS
    <3> QED BY <2>1, <3>1, DrawnIsList DEF Listed
  <2>3. Listed(s * s, ProductCells(problem, s, draw.a, draw.b))
    BY ContentsListed
  <2> QED BY <1>1, <1>2, <2>2, <2>3, Zenon
<1>3. CASE option # "random"
  BY <1>1, <1>3, ContentsListed, Zenon
<1> QED BY <1>2, <1>3

-----------------------------------------------------------------------------
(* A file whose records lie in a row.                                      *)

\* The records from lo to hi, and no others, are this file's.
InARow(writes, kind, w, lo, hi) ==
  \A k \in 1 .. Len(writes) :
    writes[k].kind = kind /\ writes[k].worker = w <=> lo < k /\ k <= hi

LEMMA ItemsInARow ==
  ASSUME NEW writes, List(writes), NEW kind, NEW w, NEW lo \in Nat, NEW hi \in Nat,
         lo <= hi, hi <= Len(writes), InARow(writes, kind, w, lo, hi)
  PROVE  ItemsOf(writes, kind, w) = [j \in 1 .. hi - lo |-> writes[lo + j].value]
<1> DEFINE n == Len(writes)
           upTo(k) == IF k <= lo THEN 0 ELSE IF k <= hi THEN k - lo ELSE hi - lo
           row(m) == [j \in 1 .. m |-> writes[lo + j].value]
<1>1. n \in Nat
  BY DEF List
<1>2. PICK after :
        /\ after[0] = <<>>
        /\ \A k \in 1 .. n :
             after[k] = IF writes[k].kind = kind /\ writes[k].worker = w
                        THEN Append(after[k - 1], writes[k].value)
                        ELSE after[k - 1]
        /\ ItemsOf(writes, kind, w) = after[n]
  BY ItemsGathered
<1>3. ASSUME NEW m \in Nat
      PROVE  Append(row(m), writes[lo + (m + 1)].value) = row(m + 1)
  <2> DEFINE S == {writes[lo + j].value : j \in 1 .. m + 1}
             u == row(m)
             x == writes[lo + (m + 1)].value
  <2>1. u \in Seq(S) /\ x \in S /\ Len(u) = m
    <3>1. \A j \in 1 .. m : j \in 1 .. m + 1
      OBVIOUS
    <3>2. m + 1 \in 1 .. m + 1
      OBVIOUS
    <3>3. x \in S /\ u \in [1 .. m -> S]
      BY <3>1, <3>2, Zenon
    <3> HIDE DEF S, u, x
    <3> QED BY <3>3
  <2>2. \A j \in 1 .. m : u[j] = writes[lo + j].value
    BY Zenon
  <2> HIDE DEF S, u, x
  <2>3. Append(u, x) = [j \in 1 .. m + 1 |-> IF j = m + 1 THEN x ELSE u[j]]
    <3> DEFINE t == Append(u, x)
    <3>1. /\ t \in Seq(S) /\ Len(t) = m + 1 /\ t[m + 1] = x
          /\ \A j \in 1 .. m : t[j] = u[j]
      BY <2>1
    <3> HIDE DEF t
    <3>2. t = [j \in 1 .. m + 1 |-> t[j]]
      BY <3>1
    <3>3. ASSUME NEW j \in 1 .. m + 1
          PROVE  t[j] = IF j = m + 1 THEN x ELSE u[j]
      BY <3>1
    <3>4. t = [j \in 1 .. m + 1 |-> IF j = m + 1 THEN x ELSE u[j]]
      BY <3>2, <3>3, Zenon
    <3> QED BY <3>4 DEF t
  <2>4. ASSUME NEW j \in 1 .. m + 1
        PROVE  (IF j = m + 1 THEN x ELSE u[j]) = writes[lo + j].value
    <3>1. CASE j = m + 1
      BY <3>1 DEF x
    <3>2. CASE j # m + 1
      <4>1. j \in 1 .. m
        BY <3>2
      <4> QED BY <2>2, <3>2, <4>1
    <3> QED BY <3>1, <3>2
  <2>5. Append(u, x) = [j \in 1 .. m + 1 |-> writes[lo + j].value]
    BY <2>3, <2>4, Zenon
  <2> QED BY <2>5, Zenon DEF u, x
<1>4. row(0) = <<>>
  OBVIOUS
<1> HIDE DEF row
<1> DEFINE S == {k \in Nat : k <= n => after[k] = row(upTo(k))}
<1>5. 0 \in S
  BY <1>2, <1>4
<1>6. ASSUME NEW k \in S PROVE k + 1 \in S
  <2>1. CASE k + 1 <= n
    <3>1. k \in Nat /\ k + 1 \in 1 .. n /\ (k + 1) - 1 = k /\ after[k] = row(upTo(k))
      BY <1>1, <2>1
    <3>2. writes[k + 1].kind = kind /\ writes[k + 1].worker = w <=> lo < k + 1 /\ k + 1 <= hi
      BY <3>1 DEF InARow
    <3>3. after[k + 1] = IF writes[k + 1].kind = kind /\ writes[k + 1].worker = w
                         THEN Append(after[k], writes[k + 1].value) ELSE after[k]
      BY <1>2, <3>1
    <3>4. CASE lo < k + 1 /\ k + 1 <= hi
      <4>1. PICK m \in Nat : lo + (m + 1) = k + 1 /\ upTo(k) = m /\ upTo(k + 1) = m + 1
        <5>1. k - lo \in Nat /\ lo + ((k - lo) + 1) = k + 1 /\ upTo(k) = k - lo
              /\ upTo(k + 1) = (k - lo) + 1
          BY <3>1, <3>4
        <5> QED BY <5>1
      <4>2. Append(row(m), writes[lo + (m + 1)].value) = row(m + 1)
        BY <1>3
      <4>3. after[k + 1] = row(upTo(k + 1))
        BY <3>1, <3>2, <3>3, <3>4, <4>1, <4>2, Zenon
      <4> QED BY <3>1, <4>3
    <3>5. CASE ~ (lo < k + 1 /\ k + 1 <= hi)
      <4>1. upTo(k + 1) = upTo(k)
        BY <3>1, <3>5
      <4> QED BY <3>1, <3>2, <3>3, <3>5, <4>1
    <3> QED BY <3>4, <3>5
  <2>2. CASE ~ (k + 1 <= n)
    BY <2>2
  <2> QED BY <2>1, <2>2
<1> HIDE DEF S
<1>7. S = Nat
  BY <1>5, <1>6, Induction DEF S
<1>8. after[n] = row(upTo(n))
  BY <1>1, <1>7 DEF S
<1>9. upTo(n) = hi - lo
  BY <1>1
<1> QED BY <1>2, <1>8, <1>9 DEF row

-----------------------------------------------------------------------------
(* What is shared in blocks.                                               *)

LEMMA BlocksGrow ==
  ASSUME NEW n \in Nat \ {0}, NEW total \in Nat, NEW v \in Nat, NEW w \in Nat, v <= w
  PROVE  /\ BlockStart(v, n, total) \in Nat
         /\ BlockStart(v, n, total) <= BlockStart(w, n, total)
<1>1. PICK per \in Nat : per = total \div n
  BY Euclid
<1>2. PICK extras \in Nat : extras = total % n
  BY Euclid
<1>3. \A u \in Nat : BlockStart(u, n, total) = u * per + (IF u < extras THEN u ELSE extras)
  BY <1>1, <1>2 DEF BlockStart
<1>4. PICK a \in Nat, b \in Nat : a = v * per /\ b = w * per /\ a <= b
  BY RestOfProduct
<1>5. /\ BlockStart(v, n, total) = a + (IF v < extras THEN v ELSE extras)
      /\ BlockStart(w, n, total) = b + (IF w < extras THEN w ELSE extras)
  BY <1>3, <1>4
<1> QED BY <1>4, <1>5

\* A worker's items are those from where its run starts to where the next one does.
LEMMA OfBlock ==
  ASSUME NEW n \in Nat \ {0}, NEW total \in Nat, NEW w \in 0 .. n - 1, NEW k \in 1 .. total
  PROVE  BlockedOf(n, total)[k] = w
           <=> BlockStart(w, n, total) < k /\ k <= BlockStart(w + 1, n, total)
<1>1. k - 1 \in 0 .. total - 1 /\ w \in Nat
  OBVIOUS
<1>2. PICK v \in 0 .. n - 1 :
        /\ v = Blocked(k - 1, n, total)
        /\ BlockStart(v, n, total) <= k - 1 /\ k - 1 < BlockStart(v + 1, n, total)
  BY <1>1, BlockedIsBlock
<1>3. BlockedOf(n, total)[k] = v
  BY <1>2 DEF BlockedOf
<1>4. /\ BlockStart(v, n, total) \in Nat /\ BlockStart(v + 1, n, total) \in Nat
      /\ BlockStart(w, n, total) \in Nat /\ BlockStart(w + 1, n, total) \in Nat
  <2>1. v \in Nat /\ v + 1 \in Nat /\ w + 1 \in Nat
    OBVIOUS
  <2>2. \A u \in Nat : BlockStart(u, n, total) \in Nat
    BY BlocksGrow
  <2> QED BY <1>1, <2>1, <2>2
<1>5. CASE v < w
  <2>1. v + 1 \in Nat /\ v + 1 <= w
    BY <1>5
  <2>2. BlockStart(v + 1, n, total) <= BlockStart(w, n, total)
    BY <1>1, <2>1, BlocksGrow
  <2> QED BY <1>2, <1>3, <1>4, <1>5, <2>2
<1>6. CASE w < v
  <2>1. w + 1 \in Nat /\ w + 1 <= v /\ v \in Nat
    BY <1>6
  <2>2. BlockStart(w + 1, n, total) <= BlockStart(v, n, total)
    BY <2>1, BlocksGrow
  <2> QED BY <1>2, <1>3, <1>4, <1>6, <2>2
<1>7. CASE v = w
  BY <1>2, <1>3, <1>4, <1>7
<1> QED BY <1>5, <1>6, <1>7

\* Some inputs first, and then the answers in blocks.
NoAnswers(u) == List(u) /\ \A k \in 1 .. Len(u) : u[k].kind # "expected"
AnswersLast(n, writes) ==
  \E u, x : NoAnswers(u) /\ List(x) /\ writes = u \o Deal("expected", BlockedOf(n, Len(x)), x)

LEMMA InputsBehind ==
  ASSUME NEW u, NEW v, NoAnswers(u), NoAnswers(v)
  PROVE  NoAnswers(u \o v)
<1>1. /\ List(u \o v) /\ Len(u \o v) = Len(u) + Len(v)
      /\ \A k \in 1 .. Len(u) : (u \o v)[k] = u[k]
      /\ \A k \in 1 .. Len(v) : (u \o v)[Len(u) + k] = v[k]
  BY Concatenated DEF NoAnswers
<1>2. Len(u) \in Nat /\ Len(v) \in Nat
  BY DEF NoAnswers, List
<1>3. ASSUME NEW k \in 1 .. Len(u \o v)
      PROVE  (u \o v)[k].kind # "expected"
  <2>1. CASE k <= Len(u)
    <3>1. k \in 1 .. Len(u)
      BY <1>2, <2>1
    <3> QED BY <1>1, <3>1 DEF NoAnswers
  <2>2. CASE ~ (k <= Len(u))
    <3>1. k - Len(u) \in 1 .. Len(v) /\ k = Len(u) + (k - Len(u))
      BY <1>1, <1>2, <2>2
    <3>2. PICK m \in 1 .. Len(v) : k = Len(u) + m
      BY <3>1
    <3> QED BY <1>1, <3>2 DEF NoAnswers
  <2> QED BY <2>1, <2>2
<1> QED BY <1>1, <1>3 DEF NoAnswers

LEMMA InputsDealt ==
  ASSUME NEW kind, kind # "expected", NEW workers, NEW values, List(values)
  PROVE  NoAnswers(Deal(kind, workers, values))
<1> DEFINE d == Deal(kind, workers, values)
<1>1. /\ List(d) /\ Len(d) = Len(values)
      /\ \A k \in 1 .. Len(values) :
           d[k] = [kind |-> kind, worker |-> workers[k], value |-> values[k]]
  BY DealIs
<1> HIDE DEF d
<1>2. ASSUME NEW k \in 1 .. Len(d) PROVE d[k].kind # "expected"
  <2>1. k \in 1 .. Len(values)
    BY <1>1
  <2>2. d[k] = [kind |-> kind, worker |-> workers[k], value |-> values[k]]
    BY <1>1, <2>1, Zenon
  <2> QED BY <2>2
<1> QED BY <1>1, <1>2 DEF NoAnswers, d

\* Then no worker has two more answers than another.
LEMMA AnswersEven ==
  ASSUME NEW n \in Nat \ {0}, NEW writes, AnswersLast(n, writes)
  PROVE  \E share \in Nat : \A w \in 0 .. n - 1 :
           Len(ItemsOf(writes, "expected", w)) \in {share, share + 1}
<1>1. PICK u, x : NoAnswers(u) /\ List(x) /\ writes = u \o Deal("expected", BlockedOf(n, Len(x)), x)
  BY DEF AnswersLast
<1> DEFINE total == Len(x)
           d == Deal("expected", BlockedOf(n, total), x)
           At(w) == Len(u) + BlockStart(w, n, total)
<1>2. total \in Nat /\ Len(u) \in Nat /\ List(u)
  BY <1>1 DEF NoAnswers, List
<1>3. /\ List(d) /\ Len(d) = total
      /\ \A k \in 1 .. total :
           d[k] = [kind |-> "expected", worker |-> BlockedOf(n, total)[k], value |-> x[k]]
  BY <1>1, DealIs
<1>4. writes = u \o d
  BY <1>1
<1> HIDE DEF d, total
<1>5. /\ List(writes) /\ Len(writes) = Len(u) + total
      /\ \A k \in 1 .. Len(u) : writes[k] = u[k]
      /\ \A k \in 1 .. total : writes[Len(u) + k] = d[k]
  <2>1. /\ List(u \o d) /\ Len(u \o d) = Len(u) + Len(d)
        /\ \A k \in 1 .. Len(u) : (u \o d)[k] = u[k]
        /\ \A k \in 1 .. Len(d) : (u \o d)[Len(u) + k] = d[k]
    BY <1>2, <1>3, Concatenated
  <2> QED BY <1>3, <1>4, <2>1, Zenon
<1>6. ASSUME NEW w \in 0 .. n - 1
      PROVE  Len(ItemsOf(writes, "expected", w))
               = BlockStart(w + 1, n, total) - BlockStart(w, n, total)
  <2>1. PICK lo \in Nat, hi \in Nat :
          /\ lo = BlockStart(w, n, total) /\ hi = BlockStart(w + 1, n, total)
          /\ lo <= hi /\ hi <= total
    <3>1. w \in Nat /\ w + 1 \in Nat /\ w <= w + 1 /\ w + 1 <= n /\ n \in Nat
      OBVIOUS
    <3>2. /\ BlockStart(w, n, total) \in Nat /\ BlockStart(w + 1, n, total) \in Nat
          /\ BlockStart(w, n, total) <= BlockStart(w + 1, n, total)
          /\ BlockStart(w + 1, n, total) <= BlockStart(n, n, total)
      BY <1>2, <3>1, BlocksGrow
    <3>3. BlockStart(n, n, total) = total
      BY <1>2, BlocksAreEven
    <3> QED BY <3>2, <3>3
  <2>2. InARow(writes, "expected", w, Len(u) + lo, Len(u) + hi)
    <3>1. ASSUME NEW k \in 1 .. Len(writes)
          PROVE  writes[k].kind = "expected" /\ writes[k].worker = w
                   <=> Len(u) + lo < k /\ k <= Len(u) + hi
      <4>1. CASE k <= Len(u)
        <5>1. k \in 1 .. Len(u)
          BY <1>2, <4>1
        <5>2. writes[k].kind # "expected"
          BY <1>1, <1>5, <5>1 DEF NoAnswers
        <5> QED BY <1>2, <4>1, <5>2
      <4>2. CASE ~ (k <= Len(u))
        <5>1. PICK m \in 1 .. total : k = Len(u) + m
          <6>1. k - Len(u) \in 1 .. total /\ k = Len(u) + (k - Len(u))
            BY <1>2, <1>5, <4>2
          <6> QED BY <6>1
        <5>2. writes[k] = [kind |-> "expected", worker |-> BlockedOf(n, total)[m], value |-> x[m]]
          BY <1>3, <1>5, <5>1, Zenon
        <5>3. writes[k].kind = "expected" /\ writes[k].worker = BlockedOf(n, total)[m]
          BY <5>2
        <5>4. BlockedOf(n, total)[m] = w <=> lo < m /\ m <= hi
          BY <1>2, <2>1, OfBlock
        <5> QED BY <1>2, <5>1, <5>3, <5>4
      <4> QED BY <4>1, <4>2
    <3> QED BY <3>1 DEF InARow
  <2>3. /\ Len(u) + lo \in Nat /\ Len(u) + hi \in Nat /\ Len(u) + lo <= Len(u) + hi
        /\ Len(u) + hi <= Len(writes) /\ (Len(u) + hi) - (Len(u) + lo) = hi - lo
        /\ hi - lo \in Nat
    BY <1>2, <1>5, <2>1
  <2>4. ItemsOf(writes, "expected", w)
          = [j \in 1 .. hi - lo |-> writes[(Len(u) + lo) + j].value]
    <3>1. ItemsOf(writes, "expected", w)
            = [j \in 1 .. (Len(u) + hi) - (Len(u) + lo) |-> writes[(Len(u) + lo) + j].value]
      BY <1>5, <2>2, <2>3, ItemsInARow
    <3> QED BY <2>3, <3>1
  <2>5. DOMAIN ItemsOf(writes, "expected", w) = 1 .. hi - lo
    BY <2>4, Zenon
  <2>6. Len(ItemsOf(writes, "expected", w)) = hi - lo
    BY <2>3, <2>5, LengthOf
  <2> QED BY <2>1, <2>6
<1>7. total \div n \in Nat
  BY <1>2, Euclid
<1>8. \A w \in 0 .. n - 1 :
        BlockStart(w + 1, n, total) - BlockStart(w, n, total) \in {total \div n, total \div n + 1}
  BY <1>2, BlocksAreEven
<1> QED BY <1>6, <1>7, <1>8

\* The workloads that share their answers.
Sharing == {"password", "merge_sorted", "full_sort", "loop_join", "binary_fc_layer",
            "matrix_vector_multiply", "real_matrix_vector_multiply"}

LEMMA InputsOfParties ==
  ASSUME NEW n \in Nat, NEW s \in Nat, NEW values, List(values), Len(values) = 2 * s
  PROVE  NoAnswers(DealParties(n, values))
<1> DEFINE workers == CyclicOf(n, 2 * s)
           a == SubSeq(values, 1, s)
           b == SubSeq(values, s + 1, 2 * s)
           u == SubSeq(workers, 1, s)
           v == SubSeq(workers, s + 1, 2 * s)
<1>1. Len(values) \div 2 = s
  OBVIOUS
<1>2. DealParties(n, values) = Deal("garbler", u, a) \o Deal("evaluator", v, b)
  BY <1>1, Zenon DEF DealParties
<1>3. a = [k \in 1 .. s |-> values[k]] /\ b = [k \in 1 .. s |-> values[s + k]]
  OBVIOUS
<1> HIDE DEF a, b, u, v, workers
<1>4. List(a) /\ List(b)
  <2>1. DOMAIN a = 1 .. s /\ a = [k \in 1 .. s |-> a[k]]
    BY <1>3
  <2>2. DOMAIN b = 1 .. s /\ b = [k \in 1 .. s |-> b[k]]
    BY <1>3
  <2> QED BY <2>1, <2>2, ListOf
<1>5. "garbler" # "expected" /\ "evaluator" # "expected"
  OBVIOUS
<1>6. NoAnswers(Deal("garbler", u, a)) /\ NoAnswers(Deal("evaluator", v, b))
  BY <1>4, <1>5, InputsDealt
<1> QED BY <1>2, <1>6, InputsBehind

LEMMA SortLast ==
  ASSUME NEW n \in Nat, NEW s \in Nat, NEW keys, List(keys), Len(keys) = 2 * s
  PROVE  AnswersLast(n, Sort(n, keys))
<1> DEFINE x == [k \in DOMAIN keys |-> k - 1]
           u == DealParties(n, keys)
<1>1. 2 * s \in Nat /\ DOMAIN keys = 1 .. 2 * s
  BY DEF List
<1>2. DOMAIN x = 1 .. 2 * s /\ x = [k \in 1 .. 2 * s |-> x[k]]
  BY <1>1
<1>3. Sort(n, keys) = u \o Deal("expected", BlockedOf(n, 2 * s), x)
  BY Zenon DEF Sort
<1>4. NoAnswers(u)
  BY InputsOfParties
<1> HIDE DEF x, u
<1>5. List(x) /\ Len(x) = 2 * s
  BY <1>1, <1>2, ListOf
<1> QED BY <1>3, <1>4, <1>5, Zenon DEF AnswersLast

LEMMA VectorLast ==
  ASSUME NEW n \in Nat, NEW s \in Nat, NEW owner \in {"garbler", "evaluator"}, NEW workersOfX,
         NEW a, NEW x, NEW sums, List(a), List(x), List(sums), Len(sums) = s
  PROVE  AnswersLast(n, MatrixVector(s, n, owner, workersOfX, a, x, sums))
<1> DEFINE workers == [k \in 1 .. s * s |-> Blocked((k - 1) \div s, n, s)]
           u == Deal(owner, workersOfX, x) \o Deal("garbler", workers, a)
<1>1. MatrixVector(s, n, owner, workersOfX, a, x, sums)
        = u \o Deal("expected", BlockedOf(n, s), sums)
  BY Zenon DEF MatrixVector
<1> HIDE DEF workers
<1>2. owner # "expected" /\ "garbler" # "expected"
  OBVIOUS
<1>3. NoAnswers(Deal(owner, workersOfX, x)) /\ NoAnswers(Deal("garbler", workers, a))
  BY <1>2, InputsDealt
<1>4. NoAnswers(u)
  BY <1>3, InputsBehind
<1> HIDE DEF u
<1> QED BY <1>1, <1>4, Zenon DEF AnswersLast

LEMMA PasswordLast ==
  ASSUME NEW n \in Nat, NEW s \in Nat, NEW hash
  PROVE  AnswersLast(n, Password(s, n, hash))
<1> DEFINE answers == IF s = 0 THEN 0 ELSE 2 * s - 1
           values == [k \in 1 .. 2 * s |->
                        IF k <= s THEN <<hash[k], k>> ELSE <<0, 2 * s - k + 1>>]
           x == [k \in 1 .. answers |-> LET user == (k + 1) \div 2
                                        IN  IF k % 2 = 1 /\ hash[user] = 0 THEN user ELSE 0]
           u == DealParties(n, values)
<1>1. Password(s, n, hash) = u \o Deal("expected", BlockedOf(n, answers), x)
  BY Zenon DEF Password
<1>2. answers \in Nat /\ 2 * s \in Nat
  OBVIOUS
<1> HIDE DEF answers
<1>3. DOMAIN values = 1 .. 2 * s /\ values = [k \in 1 .. 2 * s |-> values[k]]
  BY Zenon
<1>4. DOMAIN x = 1 .. answers /\ x = [k \in 1 .. answers |-> x[k]]
  BY Zenon
<1> HIDE DEF values, x
<1>5. List(values) /\ Len(values) = 2 * s /\ List(x) /\ Len(x) = answers
  BY <1>2, <1>3, <1>4, ListOf
<1>6. NoAnswers(u)
  BY <1>5, InputsOfParties
<1> HIDE DEF u
<1> QED BY <1>1, <1>5, <1>6, Zenon DEF AnswersLast

LEMMA LoopJoinLast ==
  ASSUME NEW n \in Nat, NEW s \in Nat
  PROVE  AnswersLast(n, LoopJoin(s, n))
<1> DEFINE keys == [k \in 1 .. s |-> k - 1]
           x == JoinRecords(s)
           workers == BlockedOf(n, s)
           u == Deal("garbler", workers, keys) \o Deal("evaluator", workers, keys)
<1>1. LoopJoin(s, n) = u \o Deal("expected", BlockedOf(n, s * s), x)
  BY Zenon DEF LoopJoin
<1>2. DOMAIN keys = 1 .. s /\ keys = [k \in 1 .. s |-> keys[k]]
  BY Zenon
<1>3. DOMAIN x = 1 .. s * s /\ x = [k \in 1 .. s * s |-> x[k]]
  BY Zenon DEF JoinRecords
<1> HIDE DEF keys, x, workers
<1>4. s * s \in Nat /\ "garbler" # "expected" /\ "evaluator" # "expected"
  OBVIOUS
<1>5. List(keys) /\ List(x) /\ Len(x) = s * s
  BY <1>2, <1>3, <1>4, ListOf
<1>6. NoAnswers(Deal("garbler", workers, keys)) /\ NoAnswers(Deal("evaluator", workers, keys))
  BY <1>4, <1>5, InputsDealt
<1>7. NoAnswers(u)
  BY <1>6, InputsBehind
<1> HIDE DEF u
<1> QED BY <1>1, <1>5, <1>7, Zenon DEF AnswersLast

LEMMA WritesAnswersLast ==
  ASSUME NEW s \in Nat, NEW n \in Nat, NEW option, NEW draw, NEW problem \in Sharing,
         option = "random" => DrawnFor(problem, s, draw)
  PROVE  AnswersLast(n, Writes(problem, s, n, option, draw))
<1>1. CASE problem = "password"
  <2>1. PICK hash : Writes(problem, s, n, option, draw) = Password(s, n, hash)
    BY <1>1 DEF Writes, MatrixPairs, MatrixVectors
  <2> QED BY <2>1, PasswordLast
<1>2. CASE problem \in {"merge_sorted", "full_sort"}
  <2>1. PICK keys : Writes(problem, s, n, option, draw) = Sort(n, keys) /\ Listed(2 * s, keys)
    BY <1>2, SortWrites
  <2> QED BY <2>1, SortLast DEF Listed
<1>3. CASE problem = "loop_join"
  <2>1. Writes(problem, s, n, option, draw) = LoopJoin(s, n)
    BY <1>3 DEF Writes, MatrixPairs, MatrixVectors
  <2> QED BY <2>1, LoopJoinLast
<1>4. CASE problem \in MatrixVectors \cup {"binary_fc_layer"}
  <2>1. PICK owner, workers, a, x, sums :
          /\ Writes(problem, s, n, option, draw) = MatrixVector(s, n, owner, workers, a, x, sums)
          /\ owner \in {"garbler", "evaluator"}
          /\ Listed(s * s, a) /\ Listed(s, x) /\ Listed(s, sums)
    BY <1>4, VectorWrites
  <2> QED BY <2>1, VectorLast DEF Listed
<1> QED BY <1>1, <1>2, <1>3, <1>4 DEF Sharing, MatrixVectors

-----------------------------------------------------------------------------
(* What a file holds of several lots.                                      *)

LEMMA SameLists ==
  ASSUME NEW u, NEW v, List(u), List(v), Len(u) = Len(v), \A k \in 1 .. Len(u) : u[k] = v[k]
  PROVE  u = v
BY DEF List

LEMMA NothingBehind ==
  ASSUME NEW u, List(u)
  PROVE  u \o <<>> = u /\ <<>> \o u = u
<1>1. List(<<>>) /\ Len(<<>>) = 0
  BY DEF List
<1>2. Len(u) \in Nat
  BY DEF List
<1>3. /\ List(u \o <<>>) /\ Len(u \o <<>>) = Len(u)
      /\ \A k \in 1 .. Len(u) : (u \o <<>>)[k] = u[k]
  BY <1>1, <1>2, Concatenated
<1>4. /\ List(<<>> \o u) /\ Len(<<>> \o u) = Len(u)
      /\ \A k \in 1 .. Len(u) : (<<>> \o u)[k] = u[k]
  <2>1. /\ List(<<>> \o u) /\ Len(<<>> \o u) = Len(<<>>) + Len(u)
        /\ \A k \in 1 .. Len(u) : (<<>> \o u)[Len(<<>>) + k] = u[k]
    BY <1>1, Concatenated
  <2>2. \A k \in 1 .. Len(u) : 0 + k = k
    OBVIOUS
  <2> QED BY <1>1, <1>2, <2>1, <2>2
<1> QED BY <1>3, <1>4, SameLists

LEMMA AppendedIs ==
  ASSUME NEW u, List(u), NEW x
  PROVE  Append(u, x) = u \o <<x>> /\ List(u \o <<x>>)
<1>1. List(<<x>>) /\ Len(<<x>>) = 1
  BY DEF List
<1>2. List(u \o <<x>>)
  BY <1>1, Concatenated
<1> DEFINE S == {u[k] : k \in 1 .. Len(u)} \cup {x}
<1>3. u \in Seq(S) /\ x \in S
  BY ListIsSeq
<1> HIDE DEF S
<1>4. Append(u, x) = u \o <<x>>
  BY <1>3
<1> QED BY <1>2, <1>4

LEMMA Associates ==
  ASSUME NEW u, NEW v, NEW w, List(u), List(v), List(w)
  PROVE  (u \o v) \o w = u \o (v \o w)
<1> DEFINE S == {u[k] : k \in 1 .. Len(u)} \cup {v[k] : k \in 1 .. Len(v)}
                  \cup {w[k] : k \in 1 .. Len(w)}
<1>1. u \in Seq(S) /\ v \in Seq(S) /\ w \in Seq(S)
  BY ListIsSeq
<1> HIDE DEF S
<1> QED BY <1>1

LEMMA AppendedBehind ==
  ASSUME NEW u, NEW v, List(u), List(v), NEW x
  PROVE  List(Append(v, x)) /\ Append(u \o v, x) = u \o Append(v, x)
<1>1. List(u \o v) /\ List(<<x>>)
  BY Concatenated, OneIsList
<1>2. List(v \o <<x>>) /\ Append(v, x) = v \o <<x>>
  BY AppendedIs
<1>3. Append(u \o v, x) = (u \o v) \o <<x>>
  BY <1>1, AppendedIs
<1>4. (u \o v) \o <<x>> = u \o (v \o <<x>>)
  BY <1>1, Associates
<1> QED BY <1>2, <1>3, <1>4

\* The values of a file are those of its records, in some order.
LEMMA ItemsRearranged ==
  ASSUME NEW writes, List(writes), NEW kind, NEW w
  PROVE  Rearranged(ItemsOf(writes, kind, w),
                    {k \in 1 .. Len(writes) : writes[k].kind = kind /\ writes[k].worker = w},
                    [k \in 1 .. Len(writes) |-> writes[k].value])
<1> DEFINE n == Len(writes)
           f == [k \in 1 .. n |-> writes[k].value]
           Mine(k) == writes[k].kind = kind /\ writes[k].worker = w
           D(i) == {k \in 1 .. i : Mine(k)}
<1>1. n \in Nat
  BY DEF List
<1>2. PICK after :
        /\ after[0] = <<>>
        /\ \A k \in 1 .. n :
             after[k] = IF Mine(k) THEN Append(after[k - 1], writes[k].value) ELSE after[k - 1]
        /\ ItemsOf(writes, kind, w) = after[n]
  BY ItemsGathered
<1> HIDE DEF n, Mine
<1> DEFINE S == {i \in Nat : i <= n => Rearranged(after[i], D(i), f)}
<1>3. 0 \in S
  <2>1. D(0) = {}
    OBVIOUS
  <2>2. Rearranged(<<>>, {}, f)
    BY RearrangedNone
  <2> HIDE DEF D, f
  <2> QED BY <1>2, <2>1, <2>2
<1>4. ASSUME NEW i \in Nat, i \in S PROVE i + 1 \in S
  <2> SUFFICES ASSUME i + 1 <= n PROVE Rearranged(after[i + 1], D(i + 1), f)
    OBVIOUS
  <2>1. Rearranged(after[i], D(i), f)
    <3> HIDE DEF D, f
    <3> QED BY <1>1, <1>4
  <2>2. i + 1 \in 1 .. n /\ i + 1 - 1 = i /\ 1 .. i + 1 = (1 .. i) \cup {i + 1} /\ i + 1 \notin 1 .. i
    BY <1>1
  <2>3. after[i + 1] = IF Mine(i + 1) THEN Append(after[i], writes[i + 1].value) ELSE after[i]
    BY <1>2, <2>2
  <2>4. CASE Mine(i + 1)
    <3>1. D(i + 1) = D(i) \cup {i + 1} /\ D(i) \cap {i + 1} = {}
      BY <2>2, <2>4
    <3>2. f[i + 1] = writes[i + 1].value
      BY <2>2
    <3> HIDE DEF D, f
    <3>3. Rearranged(<<writes[i + 1].value>>, {i + 1}, f)
      BY <3>2, RearrangedOne
    <3>4. after[i + 1] = after[i] \o <<writes[i + 1].value>>
      BY <2>1, <2>3, <2>4, AppendedIs DEF Rearranged
    <3>5. Rearranged(after[i] \o <<writes[i + 1].value>>, D(i) \cup {i + 1}, f)
      BY <2>1, <3>1, <3>3, RearrangedBoth
    <3> QED BY <3>1, <3>4, <3>5
  <2>5. CASE ~ Mine(i + 1)
    <3>1. D(i + 1) = D(i)
      BY <2>2, <2>5
    <3> HIDE DEF D, f
    <3> QED BY <2>1, <2>3, <2>5, <3>1
  <2> QED BY <2>4, <2>5
<1> HIDE DEF S
<1>5. n \in S
  BY <1>1, <1>3, <1>4, Induction
<1>6. Rearranged(after[n], D(n), f)
  BY <1>1, <1>5 DEF S
<1>7. D(n) = {k \in 1 .. n : writes[k].kind = kind /\ writes[k].worker = w}
  BY DEF Mine
<1> HIDE DEF D
<1> QED BY <1>2, <1>6, <1>7, Zenon DEF n

LEMMA ItemsAreList ==
  ASSUME NEW writes, List(writes), NEW kind, NEW w
  PROVE  List(ItemsOf(writes, kind, w))
BY ItemsRearranged DEF Rearranged

\* The file after each of the writes.
Collects(writes, kind, w, after) ==
  /\ after[0] = <<>>
  /\ \A k \in 1 .. Len(writes) :
       after[k] = IF writes[k].kind = kind /\ writes[k].worker = w
                  THEN Append(after[k - 1], writes[k].value)
                  ELSE after[k - 1]
  /\ ItemsOf(writes, kind, w) = after[Len(writes)]

LEMMA Collected ==
  ASSUME NEW writes, List(writes), NEW kind, NEW w
  PROVE  \E after : Collects(writes, kind, w, after)
BY ItemsGathered DEF Collects

\* Of two lots, the first one's values come first.
LEMMA ItemsOfBoth ==
  ASSUME NEW u, List(u), NEW v, List(v), NEW kind, NEW w
  PROVE  ItemsOf(u \o v, kind, w) = ItemsOf(u, kind, w) \o ItemsOf(v, kind, w)
<1>m. PICK m \in Nat, n \in Nat : m = Len(u) /\ n = Len(v)
  BY DEF List
<1>1. PICK uv : m = Len(u) /\ n = Len(v) /\ uv = u \o v
  BY <1>m
<1>2. /\ List(uv) /\ Len(uv) = m + n
      /\ \A k \in 1 .. m : uv[k] = u[k]
      /\ \A k \in 1 .. n : uv[m + k] = v[k]
  BY <1>1, Concatenated
<1> DEFINE Mine(r) == r.kind = kind /\ r.worker = w
<1>3. PICK a : Collects(u, kind, w, a)
  BY Collected
<1>4. PICK b : Collects(v, kind, w, b)
  BY Collected
<1>5. PICK c : Collects(uv, kind, w, c)
  BY <1>2, Collected
<1>13. /\ a[0] = <<>>
       /\ \A k \in 1 .. m : a[k] = IF Mine(u[k]) THEN Append(a[k - 1], u[k].value) ELSE a[k - 1]
       /\ ItemsOf(u, kind, w) = a[m]
  BY <1>1, <1>3 DEF Collects
<1>14. /\ b[0] = <<>>
       /\ \A k \in 1 .. n : b[k] = IF Mine(v[k]) THEN Append(b[k - 1], v[k].value) ELSE b[k - 1]
       /\ ItemsOf(v, kind, w) = b[n]
  BY <1>1, <1>4 DEF Collects
<1>15. /\ c[0] = <<>>
       /\ \A k \in 1 .. m + n : c[k] = IF Mine(uv[k]) THEN Append(c[k - 1], uv[k].value)
                                                     ELSE c[k - 1]
       /\ ItemsOf(uv, kind, w) = c[m + n]
  BY <1>2, <1>5 DEF Collects
<1> HIDE DEF Mine
<1> DEFINE S == {k \in Nat : k <= m => c[k] = a[k]}
<1>6. 0 \in S
  BY <1>13, <1>15
<1>7. ASSUME NEW k \in Nat, k \in S PROVE k + 1 \in S
  <2> SUFFICES ASSUME k + 1 <= m PROVE c[k + 1] = a[k + 1]
    OBVIOUS
  <2>1. k + 1 \in 1 .. m /\ k + 1 \in 1 .. m + n /\ k + 1 - 1 = k /\ k <= m
    OBVIOUS
  <2>2. c[k] = a[k] /\ uv[k + 1] = u[k + 1]
    BY <1>2, <1>7, <2>1
  <2> QED BY <1>13, <1>15, <2>1, <2>2
<1> HIDE DEF S
<1>8. c[m] = a[m]
  <2>1. m \in S
    BY <1>6, <1>7, Induction
  <2> QED BY <2>1 DEF S
<1>9. List(a[m])
  BY <1>13, ItemsAreList
<1> DEFINE Both(k) == k <= n => List(b[k]) /\ c[m + k] = a[m] \o b[k]
           T == {k \in Nat : Both(k)}
<1>10. Both(0)
  <2>1. List(<<>>) /\ m + 0 = m
    BY DEF List
  <2> QED BY <1>14, <1>8, <1>9, <2>1, NothingBehind
<1>11. ASSUME NEW k \in Nat, Both(k) PROVE Both(k + 1)
  <2> SUFFICES ASSUME k + 1 <= n PROVE List(b[k + 1]) /\ c[m + (k + 1)] = a[m] \o b[k + 1]
    OBVIOUS
  <2>1. /\ k + 1 \in 1 .. n /\ m + (k + 1) \in 1 .. m + n /\ k + 1 - 1 = k
        /\ m + (k + 1) - 1 = m + k /\ k <= n
    OBVIOUS
  <2>2. List(b[k]) /\ c[m + k] = a[m] \o b[k] /\ uv[m + (k + 1)] = v[k + 1]
    BY <1>2, <1>11, <2>1
  <2> HIDE DEF T
  <2>3. PICK x : x = v[k + 1].value
    OBVIOUS
  <2>4. /\ b[k + 1] = IF Mine(v[k + 1]) THEN Append(b[k], x) ELSE b[k]
        /\ c[m + (k + 1)] = IF Mine(v[k + 1]) THEN Append(c[m + k], x) ELSE c[m + k]
    <3>1. b[k + 1] = IF Mine(v[k + 1]) THEN Append(b[k + 1 - 1], x) ELSE b[k + 1 - 1]
      BY <1>14, <2>1, <2>3
    <3>2. c[m + (k + 1)] = IF Mine(uv[m + (k + 1)])
                           THEN Append(c[m + (k + 1) - 1], uv[m + (k + 1)].value)
                           ELSE c[m + (k + 1) - 1]
      BY <1>15, <2>1
    <3> QED BY <2>1, <2>2, <2>3, <3>1, <3>2
  <2>5. CASE Mine(v[k + 1])
    <3> DEFINE Cat(p, q) == p \o q
               App(p, y) == Append(p, y)
    <3>1. \A p, q, y : List(p) /\ List(q) => List(App(q, y)) /\ App(Cat(p, q), y) = Cat(p, App(q, y))
      BY AppendedBehind
    <3>2. b[k + 1] = App(b[k], x) /\ c[m + (k + 1)] = App(c[m + k], x)
      BY <2>4, <2>5
    <3>3. c[m + k] = Cat(a[m], b[k])
      BY <2>2
    <3> HIDE DEF Cat, App
    <3>4. List(b[k + 1]) /\ c[m + (k + 1)] = Cat(a[m], b[k + 1])
      BY <1>9, <2>2, <3>1, <3>2, <3>3
    <3> QED BY <3>4 DEF Cat
  <2>6. CASE ~ Mine(v[k + 1])
    BY <2>2, <2>4, <2>6
  <2> QED BY <2>5, <2>6
<1>12. c[m + n] = a[m] \o b[n]
  <2> HIDE DEF Both
  <2>1. 0 \in T /\ \A k \in Nat : k \in T => k + 1 \in T
    BY <1>10, <1>11
  <2> HIDE DEF T
  <2>2. n \in T
    BY <2>1, Induction
  <2>3. Both(n)
    BY <2>2 DEF T
  <2>4. n <= n
    OBVIOUS
  <2> QED BY <2>3, <2>4, Zenon DEF Both
<1> QED BY <1>1, <1>12, <1>13, <1>14, <1>15

\* Nothing of a lot of another kind.
LEMMA ItemsOfOthers ==
  ASSUME NEW kind, NEW other, other # kind, NEW workers, NEW values, List(values), NEW w
  PROVE  ItemsOf(Deal(other, workers, values), kind, w) = <<>>
<1> DEFINE d == Deal(other, workers, values)
<1>1. List(d) /\ \A k \in 1 .. Len(d) : d[k].kind # kind
  <2>1. /\ List(d) /\ Len(d) = Len(values)
        /\ \A k \in 1 .. Len(values) :
             d[k] = [kind |-> other, worker |-> workers[k], value |-> values[k]]
    BY DealIs
  <2> HIDE DEF d
  <2>2. ASSUME NEW k \in 1 .. Len(d) PROVE d[k].kind # kind
    <3>1. d[k] = [kind |-> other, worker |-> workers[k], value |-> values[k]]
      BY <2>1
    <3> QED BY <3>1
  <2> QED BY <2>1, <2>2
<1> HIDE DEF d
<1>2. InARow(d, kind, w, 0, 0)
  <2>1. ASSUME NEW k \in 1 .. Len(d)
        PROVE  d[k].kind = kind /\ d[k].worker = w <=> 0 < k /\ k <= 0
    BY <1>1 DEF List
  <2> QED BY <2>1 DEF InARow
<1>3. 0 \in Nat /\ 0 <= 0 /\ 0 <= Len(d)
  BY <1>1 DEF List
<1>4. ItemsOf(d, kind, w) = [j \in 1 .. 0 - 0 |-> d[0 + j].value]
  BY <1>1, <1>2, <1>3, ItemsInARow
<1>5. [j \in 1 .. 0 - 0 |-> d[0 + j].value] = <<>>
  OBVIOUS
<1> QED BY <1>4, <1>5 DEF d

-----------------------------------------------------------------------------
(* Lots that are cut into a stretch for each worker.                       *)

\* Of m values each worker w has those after the first cut[w], up to the cut[w + 1]-th.
Cuts(workers, n, m, cut) ==
  /\ cut \in [0 .. n -> 0 .. m] /\ cut[0] = 0 /\ cut[n] = m
  /\ \A w \in 0 .. n - 1 :
       /\ cut[w] <= cut[w + 1]
       /\ \A k \in 1 .. m : workers[k] = w <=> cut[w] < k /\ k <= cut[w + 1]

LEMMA DealtStretch ==
  ASSUME NEW n \in Nat \ {0}, NEW m \in Nat, NEW workers, NEW cut, Cuts(workers, n, m, cut),
         NEW values, List(values), Len(values) = m, NEW kind, NEW w \in 0 .. n - 1
  PROVE  ItemsOf(Deal(kind, workers, values), kind, w) = Stretch(values, cut[w], cut[w + 1])
<1>0. PICK d : d = Deal(kind, workers, values)
  OBVIOUS
<1>1. PICK lo \in 0 .. m, hi \in 0 .. m : lo = cut[w] /\ hi = cut[w + 1] /\ lo <= hi
  <2>1. w \in 0 .. n /\ w + 1 \in 0 .. n
    OBVIOUS
  <2> QED BY <2>1 DEF Cuts
<1>2. /\ List(d) /\ Len(d) = m
      /\ \A k \in 1 .. m :
           d[k] = [kind |-> kind, worker |-> workers[k], value |-> values[k]]
  BY <1>0, DealIs
<1>3. ASSUME NEW k \in 1 .. m
      PROVE  /\ d[k].value = values[k]
             /\ d[k].kind = kind /\ d[k].worker = w <=> lo < k /\ k <= hi
  <2>1. d[k] = [kind |-> kind, worker |-> workers[k], value |-> values[k]]
    BY <1>2
  <2>2. d[k].kind = kind /\ d[k].worker = workers[k] /\ d[k].value = values[k]
    BY <2>1
  <2>3. workers[k] = w <=> lo < k /\ k <= hi
    BY <1>1 DEF Cuts
  <2> QED BY <2>2, <2>3
<1>4. InARow(d, kind, w, lo, hi)
  BY <1>2, <1>3 DEF InARow
<1>5. ItemsOf(d, kind, w) = [j \in 1 .. hi - lo |-> d[lo + j].value]
  <2>1. lo \in Nat /\ hi \in Nat /\ hi <= Len(d) /\ lo <= hi /\ List(d)
    BY <1>1, <1>2
  <2> QED BY <1>4, <2>1, ItemsInARow
<1>6. ASSUME NEW j \in 1 .. hi - lo PROVE d[lo + j].value = values[lo + j]
  <2>1. lo + j \in 1 .. m
    OBVIOUS
  <2> QED BY <1>3, <2>1
<1>7. ItemsOf(d, kind, w) = [j \in 1 .. hi - lo |-> values[lo + j]]
  BY <1>5, <1>6
<1> QED BY <1>0, <1>1, <1>7 DEF Stretch

\* Put together, they are all of the values.
LEMMA StretchesMerged ==
  ASSUME NEW n \in Nat \ {0}, NEW m \in Nat, NEW workers, NEW cut, Cuts(workers, n, m, cut),
         NEW values, List(values), Len(values) = m, NEW ss,
         ss = [i \in 1 .. n |-> Stretch(values, cut[i - 1], cut[i])]
  PROVE  FlattenSeq(ss) = values
<1>1. \A i \in 1 .. n : cut[i - 1] <= cut[i]
  <2> TAKE i \in 1 .. n
  <2>1. PICK w \in 0 .. n - 1 : w = i - 1 /\ w + 1 = i
    OBVIOUS
  <2>2. cut[w] <= cut[w + 1]
    BY DEF Cuts
  <2> QED BY <2>1, <2>2
<1>2. cut \in [0 .. n -> Nat] /\ cut[0] = 0 /\ cut[n] = m
  BY DEF Cuts
<1>3. values = [j \in 1 .. cut[n] |-> values[j]]
  BY <1>2 DEF List
<1>4. CutInto(values, n, cut, ss)
  BY <1>1, <1>2, <1>3, Zenon DEF CutInto
<1> QED BY <1>4, FlattenOfBlocks

\* b values for each of t items that are divided in blocks.
LEMMA BlocksCut ==
  ASSUME NEW n \in Nat \ {0}, NEW b \in Nat, NEW t \in Nat, NEW m, m = b * t, NEW workers,
         \A k \in 1 .. m : workers[k] = Blocked((k - 1) \div b, n, t)
  PROVE  Cuts(workers, n, m, [w \in 0 .. n |-> b * BlockStart(w, n, t)])
<1> DEFINE cut == [w \in 0 .. n |-> b * BlockStart(w, n, t)]
<1>1. m \in Nat
  OBVIOUS
<1>2. ASSUME NEW w \in 0 .. n
      PROVE  \E start \in 0 .. t : start = BlockStart(w, n, t) /\ cut[w] = b * start
  <2>1. w \in Nat /\ n \in Nat /\ w <= n
    OBVIOUS
  <2>2. BlockStart(w, n, t) \in Nat /\ BlockStart(w, n, t) <= BlockStart(n, n, t)
    BY <2>1, BlocksGrow
  <2>3. BlockStart(n, n, t) = t
    BY BlocksAreEven
  <2>4. BlockStart(w, n, t) \in 0 .. t
    BY <2>2, <2>3
  <2> QED BY <2>4
<1>3. cut \in [0 .. n -> 0 .. m]
  <2>1. ASSUME NEW w \in 0 .. n PROVE cut[w] \in 0 .. m
    <3>1. PICK start \in 0 .. t : cut[w] = b * start
      BY <1>2
    <3>2. start \in Nat /\ start <= t
      OBVIOUS
    <3>3. b * start <= b * t /\ b * start \in Nat
      BY <3>2, Monotone
    <3> QED BY <1>1, <3>1, <3>3
  <2>2. cut = [w \in 0 .. n |-> cut[w]]
    OBVIOUS
  <2> HIDE DEF cut
  <2> QED BY <2>1, <2>2
<1>4. cut[0] = 0 /\ cut[n] = m
  <2>1. BlockStart(0, n, t) = 0 /\ BlockStart(n, n, t) = t
    BY BlocksAreEven
  <2>2. 0 \in 0 .. n /\ n \in 0 .. n /\ b * 0 = 0
    OBVIOUS
  <2> QED BY <2>1, <2>2
<1>5. ASSUME NEW w \in 0 .. n - 1
      PROVE  /\ cut[w] <= cut[w + 1]
             /\ \A k \in 1 .. m : workers[k] = w <=> cut[w] < k /\ k <= cut[w + 1]
  <2>1. w \in 0 .. n /\ w + 1 \in 0 .. n
    OBVIOUS
  <2>2. PICK x \in Nat, y \in Nat :
          /\ x = BlockStart(w, n, t) /\ y = BlockStart(w + 1, n, t)
          /\ cut[w] = b * x /\ cut[w + 1] = b * y /\ x <= y
    <3>1. PICK x \in 0 .. t : x = BlockStart(w, n, t) /\ cut[w] = b * x
      BY <1>2, <2>1
    <3>2. PICK y \in 0 .. t : y = BlockStart(w + 1, n, t) /\ cut[w + 1] = b * y
      BY <1>2, <2>1
    <3>3. w \in Nat /\ w + 1 \in Nat /\ w <= w + 1
      OBVIOUS
    <3>4. x <= y
      BY <3>1, <3>2, <3>3, BlocksGrow
    <3>5. x \in Nat /\ y \in Nat
      OBVIOUS
    <3> QED BY <3>1, <3>2, <3>4, <3>5
  <2> HIDE DEF cut
  <2>3. cut[w] <= cut[w + 1]
    BY <2>2, Monotone
  <2>4. ASSUME NEW k \in 1 .. m PROVE workers[k] = w <=> cut[w] < k /\ k <= cut[w + 1]
    <3>1. b \in Nat \ {0}
      <4>1. SUFFICES ASSUME b = 0 PROVE FALSE
        OBVIOUS
      <4>2. m = 0
        BY <4>1
      <4> QED BY <4>2
    <3>2. k - 1 \in Nat /\ k - 1 < t * b
      OBVIOUS
    <3>3. PICK q \in Nat : q = (k - 1) \div b /\ q * b <= k - 1 /\ k - 1 < (q + 1) * b /\ q < t
      <4>1. (k - 1) \div b \in Nat
        BY <3>1, <3>2, Euclid
      <4>2. ((k - 1) \div b) * b <= k - 1 /\ k - 1 < ((k - 1) \div b + 1) * b
        BY <3>1, <3>2, QuotientBounds
      <4>3. (k - 1) \div b < t
        BY <3>1, <3>2, QuotientBelow
      <4> QED BY <4>1, <4>2, <4>3
    <3>4. workers[k] = BlockedOf(n, t)[q + 1]
      <4>1. q + 1 \in 1 .. t /\ q + 1 - 1 = q
        BY <3>3
      <4>2. BlockedOf(n, t)[q + 1] = Blocked(q, n, t)
        BY <4>1 DEF BlockedOf
      <4> QED BY <3>3, <4>2
    <3>5. workers[k] = w <=> x < q + 1 /\ q + 1 <= y
      <4>1. q + 1 \in 1 .. t
        BY <3>3
      <4> QED BY <2>2, <3>4, <4>1, OfBlock
    <3>6. ASSUME NEW z \in Nat PROVE z <= q <=> b * z < k
      <4>1. ASSUME z <= q PROVE b * z < k
        <5>1. z * b <= q * b
          BY <4>1, Monotone
        <5> QED BY <3>3, <5>1
      <4>2. ASSUME ~ (z <= q) PROVE ~ (b * z < k)
        <5>1. q + 1 <= z /\ q + 1 \in Nat
          BY <4>2
        <5>2. (q + 1) * b <= z * b
          BY <5>1, Monotone
        <5>3. z * b = b * z /\ z * b \in Nat /\ (q + 1) * b \in Nat
          OBVIOUS
        <5> QED BY <3>3, <5>2, <5>3
      <4> QED BY <4>1, <4>2
    <3>7. (x <= q <=> b * x < k) /\ (y <= q <=> b * y < k)
      BY <3>6
    <3> QED BY <2>2, <3>5, <3>7
  <2> QED BY <2>3, <2>4
<1> HIDE DEF cut
<1>6. Cuts(workers, n, m, cut)
  BY <1>3, <1>4, <1>5 DEF Cuts
<1> QED BY <1>6 DEF cut

LEMMA BlockedCut ==
  ASSUME NEW n \in Nat \ {0}, NEW m \in Nat
  PROVE  \E cut : /\ Cuts(BlockedOf(n, m), n, m, cut)
                  /\ \A w \in 0 .. n : cut[w] = BlockStart(w, n, m)
<1>1. m = 1 * m /\ 1 \in Nat
  OBVIOUS
<1>2. \A k \in 1 .. m : BlockedOf(n, m)[k] = Blocked((k - 1) \div 1, n, m)
  <2> TAKE k \in 1 .. m
  <2>1. (k - 1) \div 1 = k - 1
    OBVIOUS
  <2> QED BY <2>1 DEF BlockedOf
<1>3. Cuts(BlockedOf(n, m), n, m, [w \in 0 .. n |-> 1 * BlockStart(w, n, m)])
  BY <1>1, <1>2, BlocksCut
<1>4. \A w \in 0 .. n : BlockStart(w, n, m) \in Nat
  BY BlocksGrow
<1>5. \A w \in 0 .. n : [v \in 0 .. n |-> 1 * BlockStart(v, n, m)][w] = BlockStart(w, n, m)
  BY <1>4
<1> QED BY <1>3, <1>5

\* All of them to the first worker.
LEMMA SingleCut ==
  ASSUME NEW n \in Nat \ {0}, NEW m \in Nat, NEW workers, \A k \in 1 .. m : workers[k] = 0
  PROVE  \E cut : Cuts(workers, n, m, cut)
<1> DEFINE cut == [w \in 0 .. n |-> IF w = 0 THEN 0 ELSE m]
<1>1. cut \in [0 .. n -> 0 .. m] /\ cut[0] = 0 /\ cut[n] = m
  OBVIOUS
<1>2. ASSUME NEW w \in 0 .. n - 1
      PROVE  /\ cut[w] <= cut[w + 1]
             /\ \A k \in 1 .. m : workers[k] = w <=> cut[w] < k /\ k <= cut[w + 1]
  <2>1. w \in 0 .. n /\ w + 1 \in 0 .. n /\ w + 1 # 0
    OBVIOUS
  <2>2. cut[w] = (IF w = 0 THEN 0 ELSE m) /\ cut[w + 1] = m
    BY <2>1
  <2> QED BY <2>2
<1> HIDE DEF cut
<1> QED BY <1>1, <1>2 DEF Cuts

-----------------------------------------------------------------------------
(* The files of all the workers together.                                  *)

Merged(writes, kind, n) == FlattenSeq([i \in 1 .. n |-> ItemsOf(writes, kind, i - 1)])

\* If the files hold what they would of one lot that is cut, they hold the lot.
LEMMA MergedLot ==
  ASSUME NEW n \in Nat \ {0}, NEW m \in Nat, NEW workers, NEW cut, Cuts(workers, n, m, cut),
         NEW values, List(values), Len(values) = m, NEW writes, NEW kind,
         \A w \in 0 .. n - 1 :
           ItemsOf(writes, kind, w) = ItemsOf(Deal(kind, workers, values), kind, w)
  PROVE  Merged(writes, kind, n) = values
<1> DEFINE ss == [i \in 1 .. n |-> ItemsOf(writes, kind, i - 1)]
<1>1. ASSUME NEW i \in 1 .. n
      PROVE  ItemsOf(writes, kind, i - 1) = Stretch(values, cut[i - 1], cut[i])
  <2>1. PICK w \in 0 .. n - 1 : w = i - 1 /\ w + 1 = i
    OBVIOUS
  <2>2. ItemsOf(writes, kind, w) = Stretch(values, cut[w], cut[w + 1])
    BY DealtStretch
  <2> QED BY <2>1, <2>2
<1>2. ss = [i \in 1 .. n |-> Stretch(values, cut[i - 1], cut[i])]
  BY <1>1
<1> HIDE DEF ss
<1>3. FlattenSeq(ss) = values
  BY <1>2, StretchesMerged
<1> QED BY <1>3, Zenon DEF Merged, ss

\* Next to what has nothing for a file, only the rest is in it.
LEMMA ItemsOfOne ==
  ASSUME NEW u, List(u), NEW v, List(v), NEW kind, NEW w
  PROVE  /\ ItemsOf(v, kind, w) = <<>> => ItemsOf(u \o v, kind, w) = ItemsOf(u, kind, w)
         /\ ItemsOf(u, kind, w) = <<>> => ItemsOf(u \o v, kind, w) = ItemsOf(v, kind, w)
<1> DEFINE Cat(p, q) == p \o q
<1>1. ItemsOf(u \o v, kind, w) = Cat(ItemsOf(u, kind, w), ItemsOf(v, kind, w))
  BY ItemsOfBoth
<1>2. \A p : List(p) => Cat(p, <<>>) = p /\ Cat(<<>>, p) = p
  BY NothingBehind
<1>3. List(ItemsOf(u, kind, w)) /\ List(ItemsOf(v, kind, w))
  BY ItemsAreList
<1> HIDE DEF Cat
<1> QED BY <1>1, <1>2, <1>3

\* Three lots of which one or two are of a kind.
OfThree(writes, k1, w1, v1, k2, w2, v2, k3, w3, v3) ==
  /\ List(v1) /\ List(v2) /\ List(v3)
  /\ writes = Deal(k1, w1, v1) \o Deal(k2, w2, v2) \o Deal(k3, w3, v3)

LEMMA ThreeLots ==
  ASSUME NEW k1, NEW w1, NEW v1, NEW k2, NEW w2, NEW v2, NEW k3, NEW w3, NEW v3, NEW writes,
         OfThree(writes, k1, w1, v1, k2, w2, v2, k3, w3, v3), NEW kind, NEW w
  PROVE  /\ kind \notin {k2, k3} => ItemsOf(writes, kind, w) = ItemsOf(Deal(k1, w1, v1), kind, w)
         /\ kind \notin {k1, k3} => ItemsOf(writes, kind, w) = ItemsOf(Deal(k2, w2, v2), kind, w)
         /\ kind \notin {k1, k2} => ItemsOf(writes, kind, w) = ItemsOf(Deal(k3, w3, v3), kind, w)
         /\ kind # k3 => ItemsOf(writes, kind, w)
              = ItemsOf(Deal(k1, w1, v1), kind, w) \o ItemsOf(Deal(k2, w2, v2), kind, w)
<1>1. PICK d1, d2, d3 : d1 = Deal(k1, w1, v1) /\ d2 = Deal(k2, w2, v2) /\ d3 = Deal(k3, w3, v3)
  OBVIOUS
<1>2. List(d1) /\ List(d2) /\ List(d3) /\ List(d1 \o d2)
  BY <1>1, DealIs, Concatenated DEF OfThree
<1>3. /\ k1 # kind => ItemsOf(d1, kind, w) = <<>>
      /\ k2 # kind => ItemsOf(d2, kind, w) = <<>>
      /\ k3 # kind => ItemsOf(d3, kind, w) = <<>>
  BY <1>1, ItemsOfOthers DEF OfThree
<1>4. PICK d12 : d12 = d1 \o d2
  OBVIOUS
<1>5. writes = d12 \o d3 /\ List(d12)
  BY <1>1, <1>2, <1>4 DEF OfThree
<1>6. /\ k3 # kind => ItemsOf(writes, kind, w) = ItemsOf(d12, kind, w)
      /\ ItemsOf(d12, kind, w) = <<>> => ItemsOf(writes, kind, w) = ItemsOf(d3, kind, w)
  BY <1>2, <1>3, <1>5, ItemsOfOne
<1>7. /\ k2 # kind => ItemsOf(d12, kind, w) = ItemsOf(d1, kind, w)
      /\ k1 # kind => ItemsOf(d12, kind, w) = ItemsOf(d2, kind, w)
  BY <1>2, <1>3, <1>4, ItemsOfOne
<1>8. ItemsOf(d12, kind, w) = ItemsOf(d1, kind, w) \o ItemsOf(d2, kind, w)
  <2> DEFINE Cat(p, q) == p \o q
  <2>1. \A u, v : List(u) /\ List(v)
          => ItemsOf(Cat(u, v), kind, w) = Cat(ItemsOf(u, kind, w), ItemsOf(v, kind, w))
    BY ItemsOfBoth
  <2>2. d12 = Cat(d1, d2)
    BY <1>4
  <2> HIDE DEF Cat
  <2>3. ItemsOf(d12, kind, w) = Cat(ItemsOf(d1, kind, w), ItemsOf(d2, kind, w))
    BY <1>2, <2>1, <2>2
  <2> QED BY <2>3 DEF Cat
<1>9. kind \notin {k1, k2} => ItemsOf(d12, kind, w) = <<>>
  BY <1>3, <1>7
<1>10. /\ kind \notin {k2, k3} => ItemsOf(writes, kind, w) = ItemsOf(d1, kind, w)
       /\ kind \notin {k1, k3} => ItemsOf(writes, kind, w) = ItemsOf(d2, kind, w)
       /\ kind \notin {k1, k2} => ItemsOf(writes, kind, w) = ItemsOf(d3, kind, w)
  BY <1>6, <1>7, <1>9
<1>11. kind # k3 => ItemsOf(writes, kind, w) = ItemsOf(d1, kind, w) \o ItemsOf(d2, kind, w)
  BY <1>6, <1>8
<1> QED BY <1>1, <1>10, <1>11

OfTwo(writes, k1, w1, v1, k2, w2, v2) ==
  List(v1) /\ List(v2) /\ writes = Deal(k1, w1, v1) \o Deal(k2, w2, v2)

LEMMA TwoLots ==
  ASSUME NEW k1, NEW w1, NEW v1, NEW k2, NEW w2, NEW v2, NEW writes,
         OfTwo(writes, k1, w1, v1, k2, w2, v2), NEW kind, NEW w
  PROVE  /\ kind # k2 => ItemsOf(writes, kind, w) = ItemsOf(Deal(k1, w1, v1), kind, w)
         /\ kind # k1 => ItemsOf(writes, kind, w) = ItemsOf(Deal(k2, w2, v2), kind, w)
<1>1. PICK d1, d2 : d1 = Deal(k1, w1, v1) /\ d2 = Deal(k2, w2, v2)
  OBVIOUS
<1>2. List(d1) /\ List(d2) /\ writes = d1 \o d2
  BY <1>1, DealIs DEF OfTwo
<1>3. /\ k1 # kind => ItemsOf(d1, kind, w) = <<>>
      /\ k2 # kind => ItemsOf(d2, kind, w) = <<>>
  BY <1>1, ItemsOfOthers DEF OfTwo
<1>4. /\ k2 # kind => ItemsOf(writes, kind, w) = ItemsOf(d1, kind, w)
      /\ k1 # kind => ItemsOf(writes, kind, w) = ItemsOf(d2, kind, w)
  BY <1>1, <1>2, <1>3, ItemsOfOne
<1> QED BY <1>1, <1>4

\* What all the files of a kind hold is a permutation of what was written to them.
LEMMA MergedRearranged ==
  ASSUME NEW n \in Nat \ {0}, NEW writes, Placed(n, writes), NEW kind
  PROVE  Rearranged(Merged(writes, kind, n), {k \in 1 .. Len(writes) : writes[k].kind = kind},
                    [k \in 1 .. Len(writes) |-> writes[k].value])
<1> DEFINE len == Len(writes)
           f == [k \in 1 .. len |-> writes[k].value]
           D == [i \in 1 .. n |-> {k \in 1 .. len : writes[k].kind = kind
                                                    /\ writes[k].worker = i - 1}]
           ss == [i \in 1 .. n |-> ItemsOf(writes, kind, i - 1)]
<1>1. List(writes)
  BY DEF Placed
<1>2. \A i \in 1 .. n : Rearranged(ss[i], D[i], f)
  <2> TAKE i \in 1 .. n
  <2>1. ss[i] = ItemsOf(writes, kind, i - 1)
        /\ D[i] = {k \in 1 .. len : writes[k].kind = kind /\ writes[k].worker = i - 1}
    OBVIOUS
  <2>2. Rearranged(ItemsOf(writes, kind, i - 1),
                   {k \in 1 .. Len(writes) : writes[k].kind = kind /\ writes[k].worker = i - 1},
                   [k \in 1 .. Len(writes) |-> writes[k].value])
    BY <1>1, ItemsRearranged
  <2> HIDE DEF D, ss
  <2> QED BY <2>1, <2>2, Zenon DEF len, f
<1>3. DOMAIN ss = 1 .. n /\ ss = [i \in 1 .. n |-> ss[i]]
  OBVIOUS
<1>4. \A i, j \in 1 .. n : i # j => D[i] \cap D[j] = {}
  OBVIOUS
<1>5. UNION {D[i] : i \in 1 .. n} = {k \in 1 .. len : writes[k].kind = kind}
  <2>1. ASSUME NEW k \in 1 .. len, writes[k].kind = kind
        PROVE  \E i \in 1 .. n : k \in D[i]
    <3>1. PICK w \in 0 .. n - 1 : writes[k].worker = w
      BY DEF Placed
    <3>2. w + 1 \in 1 .. n /\ (w + 1) - 1 = w
      OBVIOUS
    <3>3. k \in D[w + 1]
      BY <2>1, <3>1, <3>2
    <3> QED BY <3>2, <3>3
  <2>2. ASSUME NEW i \in 1 .. n, NEW k \in D[i]
        PROVE  k \in 1 .. len /\ writes[k].kind = kind
    OBVIOUS
  <2> HIDE DEF D, len
  <2> QED BY <2>1, <2>2
<1> HIDE DEF len, f, D, ss
<1>6. n \in Nat
  OBVIOUS
<1>7. Rearranged(FlattenSeq(ss), UNION {D[i] : i \in 1 .. n}, f)
  BY <1>2, <1>3, <1>4, <1>6, RearrangedFlat
<1>8. FlattenSeq(ss) = Merged(writes, kind, n)
  BY Zenon DEF Merged, ss
<1>9. Rearranged(Merged(writes, kind, n), {k \in 1 .. len : writes[k].kind = kind}, f)
  BY <1>5, <1>7, <1>8
<1> QED BY <1>9, Zenon DEF len, f

LEMMA RearrangedSame ==
  ASSUME NEW s, NEW D, NEW f, Rearranged(s, D, f), NEW E, E = D,
         NEW g, \A d \in D : f[d] = g[d]
  PROVE  Rearranged(s, E, g)
BY DEF Rearranged

\* A list, told item by item, that is one list behind another.
JoinOf(c, u, v) ==
  /\ List(c) /\ Len(c) = Len(u) + Len(v)
  /\ \A k \in 1 .. Len(u) : c[k] = u[k]
  /\ \A k \in 1 .. Len(v) : c[Len(u) + k] = v[k]

LEMMA JoinIs == ASSUME NEW u, NEW v, List(u), List(v) PROVE JoinOf(u \o v, u, v)
BY Concatenated DEF JoinOf

OfParties(writes, n, s, values, workers, x) ==
  /\ List(values) /\ Len(values) = 2 * s
  /\ List(x) /\ \A k \in 1 .. Len(x) : workers[k] \in 0 .. n - 1
  /\ writes = DealParties(n, values) \o Deal("expected", workers, x)

\* The parties' values are two lots, the halves of them all.
LEMMA PartiesAreLots ==
  ASSUME NEW n \in Nat \ {0}, NEW s \in Nat, NEW values, NEW workers, NEW x, NEW writes,
         OfParties(writes, n, s, values, workers, x)
  PROVE  \E u, v, a, b :
           /\ OfThree(writes, "garbler", u, a, "evaluator", v, b, "expected", workers, x)
           /\ Len(a) = s /\ Len(b) = s
           /\ \A k \in 1 .. s : /\ a[k] = values[k] /\ b[k] = values[s + k]
                               /\ u[k] \in 0 .. n - 1 /\ v[k] \in 0 .. n - 1
<1> DEFINE ws == CyclicOf(n, 2 * s)
           u == SubSeq(ws, 1, s)
           v == SubSeq(ws, s + 1, 2 * s)
           a == SubSeq(values, 1, s)
           b == SubSeq(values, s + 1, 2 * s)
<1>1. List(values) /\ Len(values) = 2 * s /\ Len(values) \div 2 = s
  BY DEF OfParties
<1>2. \A k \in 1 .. 2 * s : ws[k] \in 0 .. n - 1
  BY DEF CyclicOf, Cyclic
<1> HIDE DEF ws
<1>3. u = [k \in 1 .. s |-> ws[k]] /\ v = [k \in 1 .. s |-> ws[s + k]]
  OBVIOUS
<1>4. a = [k \in 1 .. s |-> values[k]] /\ b = [k \in 1 .. s |-> values[s + k]]
  OBVIOUS
<1> HIDE DEF u, v, a, b
<1>5. \A k \in 1 .. s : u[k] \in 0 .. n - 1 /\ v[k] \in 0 .. n - 1
  BY <1>2, <1>3
<1>6. List(a) /\ Len(a) = s /\ List(b) /\ Len(b) = s
  <2>1. DOMAIN a = 1 .. s /\ a = [k \in 1 .. s |-> a[k]]
    BY <1>4
  <2>2. DOMAIN b = 1 .. s /\ b = [k \in 1 .. s |-> b[k]]
    BY <1>4
  <2> QED BY <2>1, <2>2, ListOf
<1>7. DealParties(n, values) = Deal("garbler", u, a) \o Deal("evaluator", v, b)
  BY <1>1, Zenon DEF DealParties, ws, u, v, a, b
<1>8. OfThree(writes, "garbler", u, a, "evaluator", v, b, "expected", workers, x)
  BY <1>6, <1>7 DEF OfThree, OfParties
<1>9. \A k \in 1 .. s : a[k] = values[k] /\ b[k] = values[s + k]
  BY <1>4
<1> QED BY <1>5, <1>6, <1>8, <1>9

\* The first half of the values is with the garblers, the second with the evaluators.
LEMMA PartiesMerged ==
  ASSUME NEW n \in Nat \ {0}, NEW s \in Nat, NEW values, NEW workers, NEW x, NEW writes,
         OfParties(writes, n, s, values, workers, x)
  PROVE  /\ Rearranged(Merged(writes, "garbler", n), 1 .. s, values)
         /\ Rearranged(Merged(writes, "evaluator", n), s + 1 .. 2 * s, values)
<1>1. PICK us, vs, a, b :
        /\ OfThree(writes, "garbler", us, a, "evaluator", vs, b, "expected", workers, x)
        /\ Len(a) = s /\ Len(b) = s
        /\ \A k \in 1 .. s : /\ a[k] = values[k] /\ b[k] = values[s + k]
                            /\ us[k] \in 0 .. n - 1 /\ vs[k] \in 0 .. n - 1
  BY PartiesAreLots
<1>2. PICK u, v, z : /\ u = Deal("garbler", us, a) /\ v = Deal("evaluator", vs, b)
                     /\ z = Deal("expected", workers, x)
  OBVIOUS
<1>3. List(a) /\ List(b) /\ List(x) /\ Len(x) \in Nat
  BY <1>1 DEF OfThree, List
<1>4. /\ List(u) /\ Len(u) = s
      /\ \A k \in 1 .. s : u[k].kind = "garbler" /\ u[k].value = values[k]
  <2>1. /\ List(u) /\ Len(u) = s
        /\ \A k \in 1 .. s : u[k] = [kind |-> "garbler", worker |-> us[k], value |-> a[k]]
    BY <1>1, <1>2, <1>3, DealIs
  <2>2. \A k \in 1 .. s : u[k].kind = "garbler" /\ u[k].value = a[k]
    BY <2>1
  <2> QED BY <1>1, <2>1, <2>2
<1>5. /\ List(v) /\ Len(v) = s
      /\ \A k \in 1 .. s : v[k].kind = "evaluator" /\ v[k].value = values[s + k]
  <2>1. /\ List(v) /\ Len(v) = s
        /\ \A k \in 1 .. s : v[k] = [kind |-> "evaluator", worker |-> vs[k], value |-> b[k]]
    BY <1>1, <1>2, <1>3, DealIs
  <2>2. \A k \in 1 .. s : v[k].kind = "evaluator" /\ v[k].value = b[k]
    BY <2>1
  <2> QED BY <1>1, <2>1, <2>2
<1>6. List(z) /\ Len(z) = Len(x) /\ \A k \in 1 .. Len(x) : z[k].kind = "expected"
  <2>1. /\ List(z) /\ Len(z) = Len(x)
        /\ \A k \in 1 .. Len(x) :
             z[k] = [kind |-> "expected", worker |-> workers[k], value |-> x[k]]
    BY <1>2, <1>3, DealIs
  <2>2. ASSUME NEW k \in 1 .. Len(x) PROVE z[k].kind = "expected"
    <3>1. z[k] = [kind |-> "expected", worker |-> workers[k], value |-> x[k]]
      BY <2>1
    <3> QED BY <3>1
  <2> QED BY <2>1, <2>2
<1>7. PICK uv : uv = u \o v
  OBVIOUS
<1>8. /\ List(uv) /\ Len(uv) = 2 * s
      /\ \A k \in 1 .. s : uv[k].kind = "garbler" /\ uv[k].value = values[k]
      /\ \A k \in 1 .. s : uv[s + k].kind = "evaluator" /\ uv[s + k].value = values[s + k]
  <2>1. /\ List(uv) /\ Len(uv) = s + s
        /\ \A k \in 1 .. s : uv[k] = u[k]
        /\ \A k \in 1 .. s : uv[s + k] = v[k]
    <3>1. JoinOf(uv, u, v)
      BY <1>4, <1>5, <1>7, JoinIs, Zenon
    <3> QED BY <1>4, <1>5, <3>1 DEF JoinOf
  <2> QED BY <1>4, <1>5, <2>1
<1>9. /\ List(writes) /\ Len(writes) = 2 * s + Len(x)
      /\ \A k \in 1 .. 2 * s : writes[k] = uv[k]
      /\ \A k \in 1 .. Len(x) : writes[2 * s + k] = z[k]
  <2>1. writes = uv \o z
    BY <1>1, <1>2, <1>7 DEF OfThree
  <2>2. JoinOf(writes, uv, z)
    BY <1>6, <1>8, <2>1, JoinIs, Zenon
  <2> QED BY <1>6, <1>8, <2>2 DEF JoinOf
<1>10. ASSUME NEW k \in 1 .. Len(writes)
       PROVE  /\ k <= s => writes[k].kind = "garbler" /\ writes[k].value = values[k]
              /\ s < k /\ k <= 2 * s
                   => writes[k].kind = "evaluator" /\ writes[k].value = values[k]
              /\ 2 * s < k => writes[k].kind = "expected"
  <2>1. CASE k <= s
    <3>1. k \in 1 .. s /\ k \in 1 .. 2 * s
      BY <2>1
    <3> QED BY <1>8, <1>9, <2>1, <3>1
  <2>2. CASE s < k /\ k <= 2 * s
    <3>1. PICK j \in 1 .. s : k = s + j
      <4>1. k - s \in 1 .. s /\ k = s + (k - s)
        BY <2>2
      <4> QED BY <4>1
    <3>2. k \in 1 .. 2 * s
      BY <2>2
    <3>3. uv[s + j].kind = "evaluator" /\ uv[s + j].value = values[s + j]
      BY <1>8
    <3> QED BY <1>9, <2>2, <3>1, <3>2, <3>3
  <2>3. CASE 2 * s < k
    <3>1. PICK j \in 1 .. Len(x) : k = 2 * s + j
      <4>1. k - 2 * s \in 1 .. Len(x) /\ k = 2 * s + (k - 2 * s)
        BY <1>3, <1>9, <2>3
      <4> QED BY <4>1
    <3> QED BY <1>6, <1>9, <2>3, <3>1
  <2> QED BY <2>1, <2>2, <2>3
<1>11. Placed(n, writes)
  <2>1. PlacedShare(n, 2 * s, DealParties(n, values))
    BY SharedByParties DEF OfParties
  <2>2. Placed(n, Deal("expected", workers, x))
    BY DealPlaced DEF OfParties
  <2>3. Placed(n, DealParties(n, values))
    BY <2>1 DEF PlacedShare
  <2>4. Placed(n, DealParties(n, values) \o Deal("expected", workers, x))
    BY <2>2, <2>3, PlacedBehind
  <2> QED BY <2>4 DEF OfParties
<1> DEFINE len == Len(writes)
           f == [k \in 1 .. len |-> writes[k].value]
           D(kind) == {k \in 1 .. len : writes[k].kind = kind}
<1>12. Rearranged(Merged(writes, "garbler", n), D("garbler"), f)
       /\ Rearranged(Merged(writes, "evaluator", n), D("evaluator"), f)
  BY <1>11, MergedRearranged
<1>13. ASSUME NEW k \in 1 .. len
       PROVE  /\ writes[k].kind = "garbler" <=> k <= s
              /\ writes[k].kind = "evaluator" <=> s < k /\ k <= 2 * s
              /\ k <= 2 * s => writes[k].value = values[k]
  BY <1>10
<1>14. D("garbler") = 1 .. s /\ D("evaluator") = s + 1 .. 2 * s
  <2>1. len \in Nat /\ 2 * s <= len
    BY <1>3, <1>9
  <2> HIDE DEF len
  <2> QED BY <1>13, <2>1
<1>15. \A k \in 1 .. s : f[k] = values[k]
  BY <1>3, <1>9, <1>13
<1>16. \A k \in s + 1 .. 2 * s : f[k] = values[k]
  BY <1>3, <1>9, <1>13
<1> HIDE DEF f, D
<1> QED BY <1>12, <1>14, <1>15, <1>16, RearrangedSame

\* A lot that is cut, as all of what is written to a kind of files.
CutLot(n, workers, values) ==
  List(values) /\ \E cut : Cuts(workers, n, Len(values), cut)

LEMMA CutLotMerged ==
  ASSUME NEW n \in Nat \ {0}, NEW workers, NEW values, CutLot(n, workers, values),
         NEW writes, NEW kind,
         \A w \in 0 .. n - 1 :
           ItemsOf(writes, kind, w) = ItemsOf(Deal(kind, workers, values), kind, w)
  PROVE  Merged(writes, kind, n) = values
<1>1. PICK cut : Cuts(workers, n, Len(values), cut)
  BY DEF CutLot
<1>2. List(values) /\ Len(values) \in Nat
  BY DEF CutLot, List
<1> QED BY <1>1, <1>2, MergedLot

LEMMA ThreeMerged ==
  ASSUME NEW n \in Nat \ {0}, NEW k1, NEW w1, NEW v1, NEW k2, NEW w2, NEW v2, NEW k3, NEW w3, NEW v3,
         NEW writes, OfThree(writes, k1, w1, v1, k2, w2, v2, k3, w3, v3)
  PROVE  /\ k1 \notin {k2, k3} /\ CutLot(n, w1, v1) => Merged(writes, k1, n) = v1
         /\ k2 \notin {k1, k3} /\ CutLot(n, w2, v2) => Merged(writes, k2, n) = v2
         /\ k3 \notin {k1, k2} /\ CutLot(n, w3, v3) => Merged(writes, k3, n) = v3
<1>1. k1 \notin {k2, k3} => \A w \in 0 .. n - 1 :
        ItemsOf(writes, k1, w) = ItemsOf(Deal(k1, w1, v1), k1, w)
  BY ThreeLots
<1>2. k2 \notin {k1, k3} => \A w \in 0 .. n - 1 :
        ItemsOf(writes, k2, w) = ItemsOf(Deal(k2, w2, v2), k2, w)
  BY ThreeLots
<1>3. k3 \notin {k1, k2} => \A w \in 0 .. n - 1 :
        ItemsOf(writes, k3, w) = ItemsOf(Deal(k3, w3, v3), k3, w)
  BY ThreeLots
<1> QED BY <1>1, <1>2, <1>3, CutLotMerged

LEMMA TwoMerged ==
  ASSUME NEW n \in Nat \ {0}, NEW k1, NEW w1, NEW v1, NEW k2, NEW w2, NEW v2, NEW writes,
         OfTwo(writes, k1, w1, v1, k2, w2, v2), k1 # k2
  PROVE  /\ CutLot(n, w1, v1) => Merged(writes, k1, n) = v1
         /\ CutLot(n, w2, v2) => Merged(writes, k2, n) = v2
<1>1. \A w \in 0 .. n - 1 : ItemsOf(writes, k1, w) = ItemsOf(Deal(k1, w1, v1), k1, w)
  BY TwoLots
<1>2. \A w \in 0 .. n - 1 : ItemsOf(writes, k2, w) = ItemsOf(Deal(k2, w2, v2), k2, w)
  BY TwoLots
<1> QED BY <1>1, <1>2, CutLotMerged

LEMMA BlockedLot ==
  ASSUME NEW n \in Nat \ {0}, NEW m \in Nat, NEW values, List(values), Len(values) = m
  PROVE  CutLot(n, BlockedOf(n, m), values)
BY BlockedCut DEF CutLot

LEMMA SingleLot ==
  ASSUME NEW n \in Nat \ {0}, NEW values, List(values), NEW workers,
         \A k \in 1 .. Len(values) : workers[k] = 0
  PROVE  CutLot(n, workers, values)
<1>1. Len(values) \in Nat
  BY DEF List
<1> QED BY <1>1, SingleCut DEF CutLot

LEMMA WholeRowsLot ==
  ASSUME NEW n \in Nat \ {0}, NEW b \in Nat, NEW t \in Nat, NEW values, List(values),
         Len(values) = b * t, NEW workers,
         \A k \in 1 .. b * t : workers[k] = Blocked((k - 1) \div b, n, t)
  PROVE  CutLot(n, workers, values)
<1>1. PICK m : m = b * t
  OBVIOUS
<1>2. Cuts(workers, n, m, [w \in 0 .. n |-> b * BlockStart(w, n, t)])
  BY <1>1, BlocksCut
<1> QED BY <1>1, <1>2 DEF CutLot

-----------------------------------------------------------------------------
(* The answers, told from what the files of all the workers hold.          *)

Gathered(writes, n, g, e, x) ==
  /\ g = Merged(writes, "garbler", n) /\ e = Merged(writes, "evaluator", n)
  /\ x = Merged(writes, "expected", n)

Holds(u, D, f) ==
  /\ List(u) /\ DOMAIN u = 1 .. Len(u)
  /\ \A j \in DOMAIN u : \E d \in D : u[j] = f[d]
  /\ \A d \in D : \E j \in DOMAIN u : u[j] = f[d]

LEMMA RearrangedHolds ==
  ASSUME NEW u, NEW D, NEW f, Rearranged(u, D, f)
  PROVE  Holds(u, D, f)
<1>1. List(u) /\ DOMAIN u = 1 .. Len(u)
  BY DEF Rearranged, List
<1>2. PICK at \in [1 .. Len(u) -> D] :
        /\ \A d \in D : \E j \in 1 .. Len(u) : at[j] = d
        /\ \A j \in 1 .. Len(u) : u[j] = f[at[j]]
  BY DEF Rearranged
<1> QED BY <1>1, <1>2 DEF Holds

LEMMA PartiesAnswer ==
  ASSUME NEW n \in Nat \ {0}, NEW s \in Nat, NEW values, NEW workers, NEW v, NEW writes,
         OfParties(writes, n, s, values, workers, v), CutLot(n, workers, v),
         NEW g, NEW e, NEW x, Gathered(writes, n, g, e, x)
  PROVE  Rearranged(g, 1 .. s, values) /\ Rearranged(e, s + 1 .. 2 * s, values) /\ x = v
<1>1. Rearranged(g, 1 .. s, values) /\ Rearranged(e, s + 1 .. 2 * s, values)
  BY PartiesMerged DEF Gathered
<1>2. PICK us, vs, a, b :
        OfThree(writes, "garbler", us, a, "evaluator", vs, b, "expected", workers, v)
  BY PartiesAreLots
<1>3. Merged(writes, "expected", n) = v
  BY <1>2, ThreeMerged
<1> QED BY <1>1, <1>3 DEF Gathered

\* The patients diagnosed at time 1 and given aspirin at time 2 are counted.
CountsPatients(g, e, x) ==
  LET diagnosed == {g[k][1] : k \in {m \in DOMAIN g : g[m][2] = 1 /\ g[m][3] = 1}}
      prescribed == {e[k][1] : k \in {m \in DOMAIN e : e[m][2] = 2}}
  IN  x = <<1, Cardinality(diagnosed \cap prescribed)>>

\* The patients 1 .. s - 1 are diagnosed, and all are given aspirin.
LEMMA AspirinAnswer ==
  ASSUME NEW s \in Nat \ {0}, NEW n \in Nat \ {0}, NEW g, NEW e, NEW x,
         Gathered(Aspirin(s, n), n, g, e, x)
  PROVE  CountsPatients(g, e, x)
<1>1. PICK values : values = [k \in 1 .. 2 * s |-> IF k <= s
                                                   THEN <<k - 1, 1, IF k = 1 THEN 0 ELSE 1>>
                                                   ELSE <<2 * s - k, 2, 0>>]
  OBVIOUS
<1>2. List(values) /\ Len(values) = 2 * s
  <2>1. DOMAIN values = 1 .. 2 * s /\ values = [k \in 1 .. 2 * s |-> values[k]]
    BY <1>1
  <2>2. 2 * s \in Nat
    OBVIOUS
  <2> QED BY <2>1, <2>2, ListOf
<1>3. PICK v, workers : v = <<1, s - 1>> /\ workers = <<0, 0>>
  OBVIOUS
<1>4. List(v) /\ Len(v) = 2 /\ \A k \in 1 .. Len(v) : workers[k] = 0
  BY <1>3, PairIsList
<1>5. Aspirin(s, n) = DealParties(n, values) \o Deal("expected", workers, v)
  BY <1>1, <1>3, Zenon DEF Aspirin
<1>6. OfParties(Aspirin(s, n), n, s, values, workers, v)
  BY <1>2, <1>4, <1>5 DEF OfParties
<1>7. CutLot(n, workers, v)
  BY <1>4, SingleLot
<1>8. Rearranged(g, 1 .. s, values) /\ Rearranged(e, s + 1 .. 2 * s, values) /\ x = v
  BY <1>6, <1>7, PartiesAnswer
<1>15. /\ \A j \in DOMAIN g : \E d \in 1 .. s : g[j] = values[d]
       /\ \A d \in 1 .. s : \E j \in DOMAIN g : g[j] = values[d]
       /\ \A j \in DOMAIN e : \E d \in s + 1 .. 2 * s : e[j] = values[d]
       /\ \A d \in s + 1 .. 2 * s : \E j \in DOMAIN e : e[j] = values[d]
  <2>1. Holds(g, 1 .. s, values) /\ Holds(e, s + 1 .. 2 * s, values)
    BY <1>8, RearrangedHolds
  <2> QED BY <2>1 DEF Holds
<1> DEFINE diagnosed == {g[k][1] : k \in {m \in DOMAIN g : g[m][2] = 1 /\ g[m][3] = 1}}
           prescribed == {e[k][1] : k \in {m \in DOMAIN e : e[m][2] = 2}}
<1>9. ASSUME NEW k \in 1 .. s
      PROVE  values[k][1] = k - 1 /\ values[k][2] = 1 /\ (values[k][3] = 1 <=> k # 1)
  <2>1. values[k] = <<k - 1, 1, IF k = 1 THEN 0 ELSE 1>>
    BY <1>1
  <2> QED BY <2>1
<1>10. ASSUME NEW k \in s + 1 .. 2 * s PROVE values[k][1] = 2 * s - k /\ values[k][2] = 2
  <2>1. values[k] = <<2 * s - k, 2, 0>>
    BY <1>1
  <2> QED BY <2>1
<1>11. diagnosed = 1 .. s - 1
  <2>1. ASSUME NEW m \in DOMAIN g, g[m][2] = 1 /\ g[m][3] = 1 PROVE g[m][1] \in 1 .. s - 1
    <3>1. PICK k \in 1 .. s : g[m] = values[k]
      BY <1>15
    <3> QED BY <1>9, <2>1, <3>1
  <2>2. ASSUME NEW p \in 1 .. s - 1
        PROVE  \E m \in DOMAIN g : g[m][2] = 1 /\ g[m][3] = 1 /\ g[m][1] = p
    <3>1. PICK k \in 1 .. s : k = p + 1
      OBVIOUS
    <3>2. PICK m \in DOMAIN g : g[m] = values[k]
      BY <1>15
    <3> QED BY <1>9, <3>1, <3>2
  <2> QED BY <2>1, <2>2
<1>12. prescribed = 0 .. s - 1
  <2>1. ASSUME NEW m \in DOMAIN e PROVE e[m][1] \in 0 .. s - 1
    <3>1. PICK k \in s + 1 .. 2 * s : e[m] = values[k]
      BY <1>15
    <3> QED BY <1>10, <3>1
  <2>2. ASSUME NEW p \in 0 .. s - 1 PROVE \E m \in DOMAIN e : e[m][2] = 2 /\ e[m][1] = p
    <3>1. PICK k \in s + 1 .. 2 * s : k = 2 * s - p
      OBVIOUS
    <3>2. PICK m \in DOMAIN e : e[m] = values[k]
      BY <1>15
    <3> QED BY <1>10, <3>1, <3>2
  <2> QED BY <2>1, <2>2
<1>13. Cardinality(diagnosed \cap prescribed) = s - 1
  <2>1. diagnosed \cap prescribed = 1 .. s - 1
    BY <1>11, <1>12
  <2>2. Cardinality(1 .. s - 1) = s - 1
    BY FS_Interval
  <2> QED BY <2>1, <2>2
<1> QED BY <1>3, <1>8, <1>13 DEF CountsPatients

\* The users with one hash at both, each in its own place.
NamesUsers(s, g, e, x) ==
  /\ Len(x) = Len(g) + Len(e) - (IF s = 0 THEN 0 ELSE 1)
  /\ \A k \in DOMAIN x :
       x[k] = IF k % 2 = 1 /\ \E i \in DOMAIN g, j \in DOMAIN e :
                                 g[i] = e[j] /\ g[i][2] = (k + 1) \div 2
              THEN (k + 1) \div 2 ELSE 0

\* The users for whom the garbler has the evaluator's hash, which is 0.
LEMMA PasswordAnswer ==
  ASSUME NEW s \in Nat, NEW n \in Nat \ {0}, NEW hash, NEW g, NEW e, NEW x,
         Gathered(Password(s, n, hash), n, g, e, x)
  PROVE  NamesUsers(s, g, e, x)
<1>1. PICK values : values = [k \in 1 .. 2 * s |-> IF k <= s THEN <<hash[k], k>>
                                                   ELSE <<0, 2 * s - k + 1>>]
  OBVIOUS
<1>2. List(values) /\ Len(values) = 2 * s
  <2>1. DOMAIN values = 1 .. 2 * s /\ values = [k \in 1 .. 2 * s |-> values[k]]
    BY <1>1
  <2>2. 2 * s \in Nat
    OBVIOUS
  <2> QED BY <2>1, <2>2, ListOf
<1>3. PICK answers \in Nat : answers = IF s = 0 THEN 0 ELSE 2 * s - 1
  OBVIOUS
<1>4. PICK v : v = [k \in 1 .. answers |-> LET user == (k + 1) \div 2
                                          IN  IF k % 2 = 1 /\ hash[user] = 0 THEN user ELSE 0]
  OBVIOUS
<1>5. List(v) /\ Len(v) = answers /\ DOMAIN v = 1 .. answers
  <2>1. DOMAIN v = 1 .. answers /\ v = [k \in 1 .. answers |-> v[k]]
    BY <1>4
  <2> QED BY <2>1, ListOf
<1>6. Password(s, n, hash)
        = DealParties(n, values) \o Deal("expected", BlockedOf(n, answers), v)
  BY <1>1, <1>3, <1>4, Zenon DEF Password
<1>7. CutLot(n, BlockedOf(n, answers), v)
  BY <1>5, BlockedLot
<1>8. OfParties(Password(s, n, hash), n, s, values, BlockedOf(n, answers), v)
  <2>1. \A k \in 1 .. answers : BlockedOf(n, answers)[k] \in 0 .. n - 1
    <3> TAKE k \in 1 .. answers
    <3>1. Blocked(k - 1, n, answers) \in 0 .. n - 1
      BY BlockedIsBlock
    <3> QED BY <3>1 DEF BlockedOf
  <2> QED BY <1>2, <1>5, <1>6, <2>1 DEF OfParties
<1>9. Rearranged(g, 1 .. s, values) /\ Rearranged(e, s + 1 .. 2 * s, values) /\ x = v
  BY <1>7, <1>8, PartiesAnswer
<1>10. Len(g) = s /\ Len(e) = s
  <2>1. Cardinality(1 .. s) = Len(g) /\ Cardinality(s + 1 .. 2 * s) = Len(e)
    BY <1>9, RearrangedSize
  <2>2. Cardinality(1 .. s) = s /\ Cardinality(s + 1 .. 2 * s) = s
    BY FS_Interval
  <2> QED BY <2>1, <2>2
<1>11. Len(x) = Len(g) + Len(e) - (IF s = 0 THEN 0 ELSE 1)
  BY <1>3, <1>5, <1>9, <1>10
<1>15. /\ \A j \in DOMAIN g : \E d \in 1 .. s : g[j] = values[d]
       /\ \A d \in 1 .. s : \E j \in DOMAIN g : g[j] = values[d]
       /\ \A j \in DOMAIN e : \E d \in s + 1 .. 2 * s : e[j] = values[d]
       /\ \A d \in s + 1 .. 2 * s : \E j \in DOMAIN e : e[j] = values[d]
  <2>1. Holds(g, 1 .. s, values) /\ Holds(e, s + 1 .. 2 * s, values)
    BY <1>9, RearrangedHolds
  <2> QED BY <2>1 DEF Holds
<1>12. ASSUME NEW k \in DOMAIN x
       PROVE  x[k] = IF k % 2 = 1 /\ \E i \in DOMAIN g, j \in DOMAIN e :
                                        g[i] = e[j] /\ g[i][2] = (k + 1) \div 2
                     THEN (k + 1) \div 2 ELSE 0
  <2>1. PICK user \in Nat : user = (k + 1) \div 2
    BY <1>5, <1>9
  <2>2. x[k] = IF k % 2 = 1 /\ hash[user] = 0 THEN user ELSE 0
    BY <1>4, <1>5, <1>9, <2>1
  <2>3. user \in 1 .. s
    BY <1>3, <1>5, <1>9, <2>1
  <2>4. ASSUME NEW i \in DOMAIN g, NEW j \in DOMAIN e, g[i] = e[j], g[i][2] = user
        PROVE  hash[user] = 0
    <3>1. PICK d \in 1 .. s : g[i] = values[d]
      BY <1>15
    <3>2. PICK c \in s + 1 .. 2 * s : e[j] = values[c]
      BY <1>15
    <3>3. values[d] = <<hash[d], d>> /\ values[c] = <<0, 2 * s - c + 1>>
      BY <1>1
    <3>4. values[d][1] = hash[d] /\ values[d][2] = d /\ values[c][1] = 0
      BY <3>3
    <3>5. d = user /\ hash[d] = 0
      BY <2>4, <3>1, <3>2, <3>4
    <3> QED BY <3>5
  <2>5. ASSUME hash[user] = 0
        PROVE  \E i \in DOMAIN g, j \in DOMAIN e : g[i] = e[j] /\ g[i][2] = user
    <3>1. PICK i \in DOMAIN g : g[i] = values[user]
      BY <1>15, <2>3
    <3>2. PICK c \in s + 1 .. 2 * s : c = 2 * s + 1 - user
      BY <2>3
    <3>3. PICK j \in DOMAIN e : e[j] = values[c]
      BY <1>15
    <3>4. values[user] = <<hash[user], user>> /\ values[c] = <<0, user>>
      BY <1>1, <2>3, <3>2
    <3> QED BY <2>5, <3>1, <3>3, <3>4
  <2> QED BY <2>1, <2>2, <2>4, <2>5
<1> QED BY <1>11, <1>12 DEF NamesUsers

\* Keys of which each number below 2s is one, and only one.
AllKeys(s, keys) ==
  /\ List(keys) /\ Len(keys) = 2 * s
  /\ \A k \in 1 .. 2 * s : keys[k] \in 0 .. 2 * s - 1
  /\ \A c \in 0 .. 2 * s - 1 : \E k \in 1 .. 2 * s : keys[k] = c
  /\ \A k, m \in 1 .. 2 * s : keys[k] = keys[m] => k = m

LEMMA MergeKeysAreAll ==
  ASSUME NEW s \in Nat
  PROVE  AllKeys(s, MergeKeys(s))
<1>1. PICK keys : keys = MergeKeys(s)
  OBVIOUS
<1>2. List(keys) /\ Len(keys) = 2 * s
  BY <1>1, MergePlaced
<1>3. ASSUME NEW k \in 1 .. 2 * s
      PROVE  /\ k <= s => keys[k] = 2 * (k - 1)
             /\ k > s => keys[k] = 2 * (2 * s - k) + 1
  BY <1>1 DEF MergeKeys
<1>4. \A k \in 1 .. 2 * s : keys[k] \in 0 .. 2 * s - 1
  BY <1>3
<1>5. ASSUME NEW c \in 0 .. 2 * s - 1 PROVE \E k \in 1 .. 2 * s : keys[k] = c
  <2>1. PICK q \in Nat, r \in 0 .. 1 : c = 2 * q + r
    <3>1. c \div 2 \in Nat /\ c % 2 \in 0 .. 1 /\ c = 2 * (c \div 2) + (c % 2)
      OBVIOUS
    <3> QED BY <3>1
  <2>2. CASE r = 0
    <3>1. q + 1 \in 1 .. 2 * s /\ q + 1 <= s
      BY <2>1, <2>2
    <3>2. keys[q + 1] = 2 * ((q + 1) - 1)
      BY <1>3, <3>1
    <3> QED BY <2>1, <2>2, <3>1, <3>2
  <2>3. CASE r = 1
    <3>1. 2 * s - q \in 1 .. 2 * s /\ 2 * s - q > s
      BY <2>1, <2>3
    <3>2. keys[2 * s - q] = 2 * (2 * s - (2 * s - q)) + 1
      BY <1>3, <3>1
    <3> QED BY <2>1, <2>3, <3>1, <3>2
  <2> QED BY <2>1, <2>2, <2>3
<1>6. ASSUME NEW k \in 1 .. 2 * s, NEW m \in 1 .. 2 * s, keys[k] = keys[m] PROVE k = m
  <2>1. CASE k <= s /\ m <= s
    BY <1>3, <1>6, <2>1
  <2>2. CASE k > s /\ m > s
    BY <1>3, <1>6, <2>2
  <2>3. CASE k <= s /\ m > s
    BY <1>3, <1>6, <2>3
  <2>4. CASE k > s /\ m <= s
    BY <1>3, <1>6, <2>4
  <2> QED BY <2>1, <2>2, <2>3, <2>4
<1>7. AllKeys(s, keys)
  BY <1>2, <1>4, <1>5, <1>6 DEF AllKeys
<1> QED BY <1>1, <1>7

LEMMA DrawnKeysAreAll ==
  ASSUME NEW s \in Nat, NEW keys \in Bijection(1 .. 2 * s, 0 .. 2 * s - 1)
  PROVE  AllKeys(s, keys)
<1>1. /\ keys \in [1 .. 2 * s -> 0 .. 2 * s - 1]
      /\ \A k, m \in 1 .. 2 * s : keys[k] = keys[m] => k = m
      /\ \A c \in 0 .. 2 * s - 1 : \E k \in 1 .. 2 * s : keys[k] = c
  BY DEF Bijection, Injection, Surjection, IsInjective
<1>2. List(keys) /\ Len(keys) = 2 * s
  <2>1. 2 * s \in Nat
    OBVIOUS
  <2> QED BY <1>1, <2>1, DrawnIsList
<1>3. \A k \in 1 .. 2 * s : keys[k] \in 0 .. 2 * s - 1
  BY <1>1
<1> QED BY <1>1, <1>2, <1>3 DEF AllKeys

\* All keys once and in order, from keys of which each is one.
LEMMA SortAnswer ==
  ASSUME NEW s \in Nat, NEW n \in Nat \ {0}, NEW keys, AllKeys(s, keys), NEW g, NEW e, NEW x,
         Gathered(Sort(n, keys), n, g, e, x)
  PROVE  /\ Len(x) = Len(g \o e)
         /\ \A k \in DOMAIN x : Cardinality({m \in DOMAIN x : x[m] = x[k]})
                                  = Cardinality({m \in DOMAIN (g \o e) : (g \o e)[m] = x[k]})
         /\ \A k \in 2 .. Len(x) : x[k - 1] < x[k]
<1>1. List(keys) /\ Len(keys) = 2 * s /\ DOMAIN keys = 1 .. 2 * s
  BY DEF AllKeys, List
<1>2. PICK v : v = [k \in DOMAIN keys |-> k - 1]
  OBVIOUS
<1>3. List(v) /\ Len(v) = 2 * s /\ DOMAIN v = 1 .. 2 * s
  <2>1. DOMAIN v = 1 .. 2 * s /\ v = [k \in 1 .. 2 * s |-> v[k]] /\ 2 * s \in Nat
    BY <1>1, <1>2
  <2> QED BY <2>1, ListOf
<1>4. Sort(n, keys) = DealParties(n, keys) \o Deal("expected", BlockedOf(n, 2 * s), v)
  BY <1>1, <1>2 DEF Sort
<1>5. CutLot(n, BlockedOf(n, 2 * s), v)
  <2>1. 2 * s \in Nat
    OBVIOUS
  <2> QED BY <1>3, <2>1, BlockedLot
<1>6. OfParties(Sort(n, keys), n, s, keys, BlockedOf(n, 2 * s), v)
  <2>1. \A k \in 1 .. 2 * s : BlockedOf(n, 2 * s)[k] \in 0 .. n - 1
    <3> TAKE k \in 1 .. 2 * s
    <3>1. 2 * s \in Nat /\ k - 1 \in 0 .. 2 * s - 1
      OBVIOUS
    <3>2. Blocked(k - 1, n, 2 * s) \in 0 .. n - 1
      BY <3>1, BlockedIsBlock
    <3> QED BY <3>2 DEF BlockedOf
  <2> QED BY <1>1, <1>3, <1>4, <2>1 DEF OfParties
<1>7. Rearranged(g, 1 .. s, keys) /\ Rearranged(e, s + 1 .. 2 * s, keys) /\ x = v
  BY <1>5, <1>6, PartiesAnswer
<1>8. PICK ge : ge = g \o e
  OBVIOUS
<1>9. Rearranged(ge, 1 .. 2 * s, keys)
  <2>1. (1 .. s) \cap (s + 1 .. 2 * s) = {} /\ (1 .. s) \cup (s + 1 .. 2 * s) = 1 .. 2 * s
    OBVIOUS
  <2>2. Rearranged(ge, (1 .. s) \cup (s + 1 .. 2 * s), keys)
    BY <1>7, <1>8, <2>1, RearrangedBoth
  <2> QED BY <2>1, <2>2
<1>10. Len(ge) = 2 * s /\ DOMAIN ge = 1 .. Len(ge)
  <2>1. Cardinality(1 .. 2 * s) = Len(ge)
    BY <1>9, RearrangedSize
  <2>2. Cardinality(1 .. 2 * s) = 2 * s
    BY FS_Interval
  <2>3. DOMAIN ge = 1 .. Len(ge)
    BY <1>9 DEF Rearranged, List
  <2> QED BY <2>1, <2>2, <2>3
<1>11. ASSUME NEW k \in DOMAIN x
       PROVE  Cardinality({m \in DOMAIN x : x[m] = x[k]})
                = Cardinality({m \in DOMAIN ge : ge[m] = x[k]})
  <2>1. k \in 1 .. 2 * s /\ x[k] = k - 1 /\ x[k] \in 0 .. 2 * s - 1
    BY <1>1, <1>2, <1>3, <1>7
  <2>2. {m \in DOMAIN x : x[m] = x[k]} = {k}
    BY <1>1, <1>2, <1>3, <1>7
  <2>3. PICK d \in 1 .. 2 * s : keys[d] = x[k]
    BY <2>1 DEF AllKeys
  <2>4. {c \in 1 .. 2 * s : keys[c] = x[k]} = {d}
    BY <2>3 DEF AllKeys
  <2>5. Cardinality({m \in 1 .. Len(ge) : ge[m] = x[k]})
          = Cardinality({c \in 1 .. 2 * s : keys[c] = x[k]})
    <3>1. PICK key : key = x[k]
      OBVIOUS
    <3>2. TimesIn(1 .. Len(ge), ge, key) = TimesIn(1 .. 2 * s, keys, key)
      BY <1>9, RearrangedTimes
    <3> QED BY <3>1, <3>2 DEF TimesIn
  <2>6. Cardinality({k}) = 1 /\ Cardinality({d}) = 1
    BY FS_Singleton
  <2> QED BY <1>10, <2>2, <2>4, <2>5, <2>6
<1>12. \A k \in 2 .. Len(x) : x[k - 1] < x[k]
  BY <1>1, <1>2, <1>3, <1>7
<1>13. Len(x) = Len(ge)
  BY <1>3, <1>7, <1>10
<1> QED BY <1>8, <1>11, <1>12, <1>13

\* The keys of both are 0 .. s - 1, and all pairs of them are looked at.
LEMMA LoopJoinAnswer ==
  ASSUME NEW s \in Nat, NEW n \in Nat \ {0}, NEW g, NEW e, NEW x,
         Gathered(LoopJoin(s, n), n, g, e, x)
  PROVE  /\ Len(x) = Len(g) * Len(e) /\ x = JoinRecords(s)
         /\ \A i \in DOMAIN g, j \in DOMAIN e :
              x[(i - 1) * Len(e) + j] = IF g[i] < e[j] THEN <<1, g[i], e[j]>> ELSE <<0, 0, 0>>
<1>1. PICK keys : keys = [k \in 1 .. s |-> k - 1]
  OBVIOUS
<1>2. List(keys) /\ Len(keys) = s /\ DOMAIN keys = 1 .. s
  <2>1. DOMAIN keys = 1 .. s /\ keys = [k \in 1 .. s |-> keys[k]]
    BY <1>1
  <2> QED BY <2>1, ListOf
<1>3. PICK m \in Nat : m = s * s
  OBVIOUS
<1>4. List(JoinRecords(s)) /\ Len(JoinRecords(s)) = m
  <2>1. DOMAIN JoinRecords(s) = 1 .. m
        /\ JoinRecords(s) = [k \in 1 .. m |-> JoinRecords(s)[k]]
    BY <1>3, Zenon DEF JoinRecords
  <2> QED BY <2>1, ListOf
<1>5. OfThree(LoopJoin(s, n), "garbler", BlockedOf(n, s), keys,
              "evaluator", BlockedOf(n, s), keys, "expected", BlockedOf(n, m), JoinRecords(s))
  BY <1>1, <1>2, <1>3, <1>4 DEF OfThree, LoopJoin
<1>6. CutLot(n, BlockedOf(n, s), keys) /\ CutLot(n, BlockedOf(n, m), JoinRecords(s))
  BY <1>2, <1>4, BlockedLot
<1>7. g = keys /\ e = keys /\ x = JoinRecords(s)
  BY <1>5, <1>6, ThreeMerged DEF Gathered
<1>8. Len(x) = Len(g) * Len(e)
  BY <1>2, <1>3, <1>4, <1>7
<1>9. ASSUME NEW i \in 1 .. s, NEW j \in 1 .. s
      PROVE  x[(i - 1) * s + j] = IF g[i] < e[j] THEN <<1, g[i], e[j]>> ELSE <<0, 0, 0>>
  <2>1. PICK k \in 1 .. s * s : k = (i - 1) * s + j
    <3>1. (i - 1) + 1 <= s /\ (i - 1) + 1 \in Nat /\ i - 1 \in Nat
      OBVIOUS
    <3>2. ((i - 1) + 1) * s <= s * s
      BY <3>1, Monotone
    <3>3. ((i - 1) + 1) * s = (i - 1) * s + s /\ (i - 1) * s \in Nat
      BY <3>1
    <3> QED BY <3>2, <3>3
  <2>2. (k - 1) \div s = i - 1 /\ (k - 1) % s = j - 1
    <3>1. PICK p \in Nat \ {0}, q \in Nat, r \in Nat, c \in Nat :
            r \in 0 .. p - 1 /\ p = s /\ q = i - 1 /\ r = j - 1 /\ c = k - 1
      OBVIOUS
    <3>2. c = p * q + r
      BY <2>1, <3>1
    <3>3. c \div p = q /\ c % p = r
      BY <3>1, <3>2, DivisionIs
    <3> QED BY <3>1, <3>3
  <2>3. x[k] = LET p == (k - 1) \div s
                   q == (k - 1) % s
               IN  IF p < q THEN <<1, p, q>> ELSE <<0, 0, 0>>
    BY <1>7 DEF JoinRecords
  <2>4. g[i] = i - 1 /\ e[j] = j - 1
    BY <1>1, <1>7
  <2> QED BY <2>1, <2>2, <2>3, <2>4
<1> QED BY <1>2, <1>7, <1>8, <1>9

-----------------------------------------------------------------------------
(* Sums and products of rows.                                              *)

\* A sum is what any table of partial sums comes to.
LEMMA SumOfIs ==
  ASSUME NEW n \in Nat, NEW v, v = [k \in 1 .. n |-> v[k]], NEW h, Sums(n, v, h)
  PROVE  SumOf(v) = h[n]
<1> DEFINE g == CHOOSE g : AddedUp(n, v, g)
<1>1. AddedUp(n, v, g)
  BY AddedUpExists, Zenon
<1>2. Len(v) = n
  BY LengthOf
<1>3. SumOf(v) = g[n]
  BY <1>2, Zenon DEF SumOf, AddedUp
<1> HIDE DEF g
<1>4. \A k \in 1 .. n : v[k] \in Int
  BY DEF Sums
<1>5. Sums(n, v, g)
  BY <1>1, <1>4, AddedUpIs
<1>6. g[n] = h[0 + n] - h[0]
  <2>1. 0 \in Nat /\ 0 + n <= n /\ \A k \in 1 .. n : v[k] = v[0 + k]
    OBVIOUS
  <2> QED BY <1>5, <2>1, SumsOfStretch
<1>7. h[0] = 0 /\ h[n] \in Int
  BY DEF Sums
<1> QED BY <1>3, <1>6, <1>7

LEMMA SumOfOne ==
  ASSUME NEW n \in Nat, NEW i \in 1 .. n, NEW c \in Int, NEW v, v = [k \in 1 .. n |-> v[k]],
         v[i] = c, \A k \in 1 .. n : k # i => v[k] = 0
  PROVE  SumOf(v) = c
<1> DEFINE h == [k \in 0 .. n |-> IF k < i THEN 0 ELSE c]
<1>1. h \in [0 .. n -> Int] /\ h[0] = 0 /\ h[n] = c
  OBVIOUS
<1>2. \A k \in 1 .. n : v[k] \in Int /\ h[k] = h[k - 1] + v[k]
  <2> TAKE k \in 1 .. n
  <2>1. k \in 0 .. n /\ k - 1 \in 0 .. n
    OBVIOUS
  <2>2. h[k] = (IF k < i THEN 0 ELSE c) /\ h[k - 1] = (IF k - 1 < i THEN 0 ELSE c)
    BY <2>1
  <2>3. v[k] = IF k = i THEN c ELSE 0
    OBVIOUS
  <2> HIDE DEF h
  <2> QED BY <2>2, <2>3
<1> HIDE DEF h
<1>3. Sums(n, v, h)
  BY <1>1, <1>2 DEF Sums
<1> QED BY <1>1, <1>3, SumOfIs

LEMMA SumOfOnes ==
  ASSUME NEW n \in Nat, NEW v, v = [k \in 1 .. n |-> v[k]], \A k \in 1 .. n : v[k] = 1
  PROVE  SumOf(v) = n
<1> DEFINE h == [k \in 0 .. n |-> k]
<1>1. h \in [0 .. n -> Int] /\ h[0] = 0 /\ h[n] = n
  OBVIOUS
<1>2. \A k \in 1 .. n : v[k] \in Int /\ h[k] = h[k - 1] + v[k]
  OBVIOUS
<1> HIDE DEF h
<1>3. Sums(n, v, h)
  BY <1>1, <1>2 DEF Sums
<1> QED BY <1>1, <1>3, SumOfIs

\* One for each place where two vectors agree, and minus one for each of the others.
LEMMA SumOfAgreement ==
  ASSUME NEW n \in Nat, NEW D \in SUBSET (1 .. n), NEW v, v = [k \in 1 .. n |-> v[k]],
         \A k \in 1 .. n : v[k] = IF k \in D THEN 1 ELSE -1
  PROVE  SumOf(v) = 2 * Cardinality(D) - n
<1> DEFINE upTo(k) == {j \in D : j <= k}
           h == [k \in 0 .. n |-> 2 * Cardinality(upTo(k)) - k]
<1>1. \A k \in Nat : IsFiniteSet(upTo(k)) /\ Cardinality(upTo(k)) \in Nat
  <2> TAKE k \in Nat
  <2>1. IsFiniteSet(1 .. n)
    BY FS_Interval
  <2>2. IsFiniteSet(upTo(k))
    BY <2>1, FS_Subset
  <2> HIDE DEF upTo
  <2> QED BY <2>2, FS_CardinalityType
<1>2. Cardinality(upTo(0)) = 0
  <2>1. upTo(0) = {}
    OBVIOUS
  <2> QED BY <2>1, FS_EmptySet
<1>3. ASSUME NEW k \in 1 .. n
      PROVE  Cardinality(upTo(k)) = Cardinality(upTo(k - 1)) + (IF k \in D THEN 1 ELSE 0)
  <2>1. k - 1 \in Nat
    OBVIOUS
  <2>2. CASE k \in D
    <3>1. upTo(k) = upTo(k - 1) \cup {k} /\ k \notin upTo(k - 1)
      BY <2>2
    <3> HIDE DEF upTo
    <3>2. Cardinality(upTo(k - 1) \cup {k}) = Cardinality(upTo(k - 1)) + 1
      BY <1>1, <2>1, <3>1, FS_AddElement
    <3> QED BY <2>2, <3>1, <3>2
  <2>3. CASE k \notin D
    <3>1. upTo(k) = upTo(k - 1)
      BY <2>3
    <3> HIDE DEF upTo
    <3> QED BY <1>1, <2>1, <2>3, <3>1
  <2> QED BY <2>2, <2>3
<1>4. upTo(n) = D
  OBVIOUS
<1> HIDE DEF upTo
<1>5. h \in [0 .. n -> Int] /\ h[0] = 0 /\ h[n] = 2 * Cardinality(D) - n
  BY <1>1, <1>2, <1>4
<1>6. \A k \in 1 .. n : v[k] \in Int /\ h[k] = h[k - 1] + v[k]
  <2> TAKE k \in 1 .. n
  <2>1. k \in 0 .. n /\ k - 1 \in 0 .. n /\ k - 1 \in Nat /\ k \in Nat
    OBVIOUS
  <2>2. PICK p \in Nat, q \in Nat : p = Cardinality(upTo(k)) /\ q = Cardinality(upTo(k - 1))
    BY <1>1, <2>1
  <2>3. h[k] = 2 * p - k /\ h[k - 1] = 2 * q - (k - 1)
    BY <2>1, <2>2
  <2>4. p = q + (IF k \in D THEN 1 ELSE 0)
    BY <1>3, <2>2
  <2>5. v[k] = IF k \in D THEN 1 ELSE -1
    OBVIOUS
  <2> HIDE DEF h
  <2> QED BY <2>3, <2>4, <2>5
<1> HIDE DEF h
<1>7. Sums(n, v, h)
  BY <1>5, <1>6 DEF Sums
<1> QED BY <1>5, <1>7, SumOfIs

\* 0, 1, 0, 1, ...
Alternating(n, par) ==
  /\ par \in [1 .. n -> {0, 1}]
  /\ n > 0 => par[1] = 0
  /\ \A k \in 1 .. n : k > 1 => par[k] = 1 - par[k - 1]

LEMMA NextParity ==
  ASSUME NEW m \in Nat
  PROVE  (m + 1) % 2 = 1 - (m % 2)
<1>1. PICK d \in Nat, p \in 0 .. 1 : m = 2 * d + p /\ p = m % 2
  <2>1. m \div 2 \in Nat /\ m % 2 \in 0 .. 1 /\ m = 2 * (m \div 2) + (m % 2)
    OBVIOUS
  <2> QED BY <2>1
<1>2. CASE p = 0
  <2>1. m + 1 = 2 * d + 1
    BY <1>1, <1>2
  <2>2. (m + 1) % 2 = 1
    BY <2>1
  <2> QED BY <1>1, <1>2, <2>2
<1>3. CASE p = 1
  <2>1. m + 1 = 2 * (d + 1)
    BY <1>1, <1>3
  <2>2. (m + 1) % 2 = 0
    BY <2>1
  <2> QED BY <1>1, <1>3, <2>2
<1> QED BY <1>2, <1>3

LEMMA ParityAlternates ==
  ASSUME NEW n \in Nat
  PROVE  Alternating(n, [k \in 1 .. n |-> (k - 1) % 2])
<1>1. PICK par : par = [k \in 1 .. n |-> (k - 1) % 2]
  OBVIOUS
<1>2. ASSUME NEW k \in 1 .. n
      PROVE  /\ par[k] \in {0, 1} /\ (k = 1 => par[k] = 0)
             /\ k > 1 => par[k] = 1 - par[k - 1]
  <2>1. par[k] = (k - 1) % 2 /\ par[k] \in {0, 1} /\ (k = 1 => par[k] = 0)
    BY <1>1
  <2>2. ASSUME k > 1 PROVE par[k] = 1 - par[k - 1]
    <3>1. PICK m \in Nat : m = k - 2 /\ m + 1 = k - 1 /\ k - 1 \in 1 .. n
      BY <2>2
    <3>2. (m + 1) % 2 = 1 - (m % 2)
      BY NextParity
    <3>3. par[k - 1] = m % 2
      BY <1>1, <3>1
    <3> QED BY <2>1, <3>1, <3>2, <3>3
  <2> QED BY <2>1, <2>2
<1>3. par = [k \in 1 .. n |-> par[k]]
  BY <1>1
<1>4. par \in [1 .. n -> {0, 1}]
  BY <1>2, <1>3
<1>5. n > 0 => 1 \in 1 .. n
  OBVIOUS
<1>6. Alternating(n, par)
  BY <1>2, <1>4, <1>5 DEF Alternating
<1> QED BY <1>1, <1>6

\* The signs of 0, 1, 0, 1, ... multiplied by those of a row of the identity.
LEMMA SumOfParity ==
  ASSUME NEW n \in Nat, NEW i \in 1 .. n, NEW par, Alternating(n, par),
         NEW v, v = [k \in 1 .. n |-> v[k]],
         \A k \in 1 .. n : v[k] = IF k = i THEN 2 * par[k] - 1 ELSE 1 - 2 * par[k]
  PROVE  SumOf(v) >= 0 <=> par[i] = 1
<1> DEFINE extra == 2 * (2 * par[i] - 1)
           h == [k \in 0 .. n |-> (IF k = 0 THEN 0 ELSE 1 - par[k]) + (IF k < i THEN 0 ELSE extra)]
<1>1. \A k \in 1 .. n : par[k] \in {0, 1}
  BY DEF Alternating
<1>2. PICK x \in Int : x = extra
  BY <1>1
<1> HIDE DEF extra
<1>3. h \in [0 .. n -> Int] /\ h[0] = 0 /\ h[n] = 1 - par[n] + x
  <2>1. \A k \in 0 .. n : h[k] = (IF k = 0 THEN 0 ELSE 1 - par[k]) + (IF k < i THEN 0 ELSE x)
    BY <1>2
  <2>2. ASSUME NEW k \in 0 .. n PROVE h[k] \in Int
    <3>1. (IF k = 0 THEN 0 ELSE 1 - par[k]) \in Int /\ (IF k < i THEN 0 ELSE x) \in Int
      BY <1>1
    <3> QED BY <2>1, <3>1
  <2>3. h = [k \in 0 .. n |-> h[k]]
    OBVIOUS
  <2>4. 0 \in 0 .. n /\ n \in 0 .. n /\ n # 0 /\ 0 < i /\ ~ (n < i)
    OBVIOUS
  <2>5. h[0] = 0 /\ h[n] = 1 - par[n] + x
    BY <2>1, <2>4
  <2> HIDE DEF h
  <2> QED BY <2>2, <2>3, <2>5
<1>4. \A k \in 1 .. n : v[k] \in Int /\ h[k] = h[k - 1] + v[k]
  <2> TAKE k \in 1 .. n
  <2>1. k \in 0 .. n /\ k - 1 \in 0 .. n
    OBVIOUS
  <2>2. PICK p \in 0 .. 1 : p = par[k]
    BY <1>1
  <2>3. /\ h[k] = 1 - p + (IF k < i THEN 0 ELSE x)
        /\ h[k - 1] = (IF k = 1 THEN 0 ELSE 1 - par[k - 1]) + (IF k - 1 < i THEN 0 ELSE x)
    BY <1>2, <2>1, <2>2
  <2> HIDE DEF h
  <2>4. v[k] = (IF k = i THEN 2 * p - 1 ELSE 1 - 2 * p) /\ v[k] \in Int
    BY <2>2
  <2>5. (IF k = 1 THEN 0 ELSE 1 - par[k - 1]) = p
    <3>1. CASE k = 1
      <4>1. n > 0
        OBVIOUS
      <4> QED BY <2>2, <3>1, <4>1 DEF Alternating
    <3>2. CASE k # 1
      <4>1. k > 1 /\ k - 1 \in 1 .. n
        BY <3>2
      <4>2. par[k] = 1 - par[k - 1] /\ par[k - 1] \in {0, 1}
        BY <1>1, <4>1 DEF Alternating
      <4> QED BY <2>2, <3>2, <4>2
    <3> QED BY <3>1, <3>2
  <2>6. h[k - 1] = p + (IF k - 1 < i THEN 0 ELSE x)
    BY <2>3, <2>5
  <2>7. k = i => x = 2 * (2 * p - 1)
    BY <1>2, <2>2 DEF extra
  <2>8. PICK a \in Int, b \in Int, c \in Int : a = h[k] /\ b = h[k - 1] /\ c = v[k]
    BY <1>3, <2>1, <2>4
  <2>9. CASE k = i
    <3>1. a = 1 - p + x /\ b = p /\ c = 2 * p - 1 /\ x = 2 * (2 * p - 1)
      BY <2>3, <2>4, <2>6, <2>7, <2>8, <2>9
    <3> QED BY <2>8, <3>1
  <2>10. CASE k < i
    <3>1. a = 1 - p /\ b = p /\ c = 1 - 2 * p
      BY <2>3, <2>4, <2>6, <2>8, <2>10
    <3> QED BY <2>8, <3>1
  <2>11. CASE k > i
    <3>1. a = 1 - p + x /\ b = p + x /\ c = 1 - 2 * p
      BY <2>3, <2>4, <2>6, <2>8, <2>11
    <3> QED BY <2>8, <3>1
  <2> QED BY <2>9, <2>10, <2>11
<1> HIDE DEF h
<1>5. Sums(n, v, h)
  BY <1>3, <1>4 DEF Sums
<1>6. SumOf(v) = 1 - par[n] + x
  BY <1>3, <1>5, SumOfIs
<1>7. par[n] \in {0, 1} /\ par[i] \in {0, 1}
  BY <1>1
<1> QED BY <1>2, <1>6, <1>7 DEF extra

\* The items of a row.
LEMMA RowItem ==
  ASSUME NEW s \in Nat, NEW a, Listed(s * s, a), NEW i \in 1 .. s, NEW k \in 1 .. s
  PROVE  SubSeq(a, (i - 1) * s + 1, i * s)[k] = a[(i - 1) * s + k]
<1>1. PICK lo \in Nat, hi \in Nat : lo = (i - 1) * s /\ hi = i * s /\ hi = lo + s
  <2>1. (i - 1) * s \in Nat /\ i * s = (i - 1) * s + s /\ i * s \in Nat
    OBVIOUS
  <2> QED BY <2>1
<1>2. SubSeq(a, lo + 1, hi) = [j \in 1 .. s |-> a[lo + j]]
  <2>1. SubSeq(a, lo + 1, lo + s) = [j \in 1 .. s |-> a[lo + j]]
    OBVIOUS
  <2> QED BY <1>1, <2>1
<1> QED BY <1>1, <1>2

LEMMA IdentityItem ==
  ASSUME NEW s \in Nat, NEW i \in 1 .. s, NEW j \in 1 .. s
  PROVE  Identity(s)[(i - 1) * s + j] = IF i = j THEN 1 ELSE 0
<1>1. PICK p \in Nat \ {0}, q \in Nat, r \in Nat, c \in Nat :
        p = s /\ q = i - 1 /\ r = j - 1 /\ c = p * q + r /\ r \in 0 .. p - 1
  OBVIOUS
<1>2. c \div p = q /\ c % p = r
  <2>1. c = p * q + r /\ r \in 0 .. p - 1
    BY <1>1
  <2> QED BY <2>1, DivisionIs
<1>3. c + 1 \in 1 .. s * s
  <2>1. (q + 1) * p <= p * p
    BY <1>1, Monotone
  <2>2. (q + 1) * p = p * q + p
    OBVIOUS
  <2> QED BY <1>1, <2>1, <2>2
<1>4. c + 1 = (i - 1) * s + j
  BY <1>1
<1>5. Identity(s)[c + 1] = IF c \div p = c % p THEN 1 ELSE 0
  <2>1. (c + 1) - 1 = c
    OBVIOUS
  <2> QED BY <1>1, <1>3, <2>1 DEF Identity
<1> QED BY <1>1, <1>2, <1>4, <1>5

\* A row as the properties cut it out of a matrix, times a vector.
RowOf(a, s, i) == SubSeq(a, (i - 1) * s + 1, i * s)
InnerTerms(s, u, v) == [k \in 1 .. s |-> u[k] * v[k]]

\* A number small enough to be a result.
Fits(problem, c) ==
  c \in Nat /\ (problem \in {"matrix_multiply", "matrix_vector_multiply"} => c < ElementLimit)

LEMMA ElementSumOfOne ==
  ASSUME NEW problem, NEW n \in Nat, NEW i \in 1 .. n, NEW c, Fits(problem, c),
         NEW v, v = [k \in 1 .. n |-> v[k]], v[i] = c, \A k \in 1 .. n : k # i => v[k] = 0
  PROVE  ElementSum(problem, v) = c
<1>1. c \in Int
  BY DEF Fits
<1>2. SumOf(v) = c
  BY <1>1, SumOfOne
<1>3. CASE problem \in {"matrix_multiply", "matrix_vector_multiply"}
  <2>1. c \in Nat /\ c < ElementLimit /\ ElementLimit \in Nat
    BY <1>3, BatchAssumption DEF Fits
  <2>2. c % ElementLimit = c
    BY <2>1
  <2> QED BY <1>2, <1>3, <2>2 DEF ElementSum
<1>4. CASE problem \notin {"matrix_multiply", "matrix_vector_multiply"}
  BY <1>2, <1>4 DEF ElementSum
<1> QED BY <1>3, <1>4

LEMMA RowTimes ==
  ASSUME NEW s \in Nat, NEW a, Listed(s * s, a), NEW i \in 1 .. s, NEW v
  PROVE  InnerTerms(s, RowOf(a, s, i), v) = [k \in 1 .. s |-> a[(i - 1) * s + k] * v[k]]
<1>1. \A k \in 1 .. s : RowOf(a, s, i)[k] = a[(i - 1) * s + k]
  BY RowItem DEF RowOf
<1> QED BY <1>1 DEF InnerTerms

\* A row of the identity picks an item.
LEMMA IdentityTimes ==
  ASSUME NEW problem, NEW s \in Nat, NEW i \in 1 .. s, NEW v, \A k \in 1 .. s : v[k] \in Int,
         Fits(problem, v[i])
  PROVE  ElementSum(problem, InnerTerms(s, RowOf(Identity(s), s, i), v)) = v[i]
<1>1. Listed(s * s, Identity(s))
  BY ContentsListed
<1>2. PICK t : t = [k \in 1 .. s |-> Identity(s)[(i - 1) * s + k] * v[k]]
  OBVIOUS
<1>3. InnerTerms(s, RowOf(Identity(s), s, i), v) = t
  BY <1>1, <1>2, RowTimes
<1>4. \A k \in 1 .. s : Identity(s)[(i - 1) * s + k] = IF i = k THEN 1 ELSE 0
  BY IdentityItem
<1>5. t = [k \in 1 .. s |-> t[k]] /\ \A k \in 1 .. s : t[k] = IF i = k THEN v[k] ELSE 0
  <2>1. t = [k \in 1 .. s |-> t[k]]
    BY <1>2
  <2>2. ASSUME NEW k \in 1 .. s PROVE t[k] = IF i = k THEN v[k] ELSE 0
    <3>1. t[k] = Identity(s)[(i - 1) * s + k] * v[k]
      BY <1>2
    <3>2. PICK y \in Int : y = v[k]
      OBVIOUS
    <3>3. t[k] = (IF i = k THEN 1 ELSE 0) * y
      BY <1>4, <3>1, <3>2
    <3> QED BY <3>2, <3>3
  <2> QED BY <2>1, <2>2
<1>6. PICK c : c = v[i]
  OBVIOUS
<1>7. ElementSum(problem, t) = c
  BY <1>5, <1>6, ElementSumOfOne
<1> QED BY <1>3, <1>6, <1>7

-----------------------------------------------------------------------------
(* The workloads that multiply a matrix and a vector.                      *)

\* The matrix a and the vector x, and the answers to them.
VectorProblem(problem, s, a, v, sums) ==
  /\ Listed(s * s, a) /\ Listed(s, v) /\ Listed(s, sums)
  /\ problem \in MatrixVectors
       => sums = [i \in 1 .. s |-> ElementSum(problem, InnerTerms(s, RowOf(a, s, i), v))]
  /\ problem = "binary_fc_layer"
       => sums = [i \in 1 .. s |->
                    IF SumOf([k \in 1 .. s |-> (2 * RowOf(a, s, i)[k] - 1) * (2 * v[k] - 1)]) >= 0
                    THEN 1 ELSE 0]

LEMMA RowProductsAre ==
  ASSUME NEW problem, NEW s \in Nat, NEW a, Listed(s * s, a), NEW v
  PROVE  RowProducts(problem, s, a, v)
           = [i \in 1 .. s |-> ElementSum(problem, InnerTerms(s, RowOf(a, s, i), v))]
<1>1. \A i \in 1 .. s : InnerTerms(s, RowOf(a, s, i), v)
                          = [k \in 1 .. s |-> a[(i - 1) * s + k] * v[k]]
  <2> TAKE i \in 1 .. s
  <2>1. \A k \in 1 .. s : RowOf(a, s, i)[k] = a[(i - 1) * s + k]
    BY RowItem DEF RowOf
  <2> QED BY <2>1 DEF InnerTerms
<1> QED BY <1>1 DEF RowProducts

LEMMA CountingUpIs ==
  ASSUME NEW problem \in MatrixVectors, NEW s \in Nat
  PROVE  \A k \in 1 .. s : Fits(problem, CountingUp(problem, s)[k])
<1> TAKE k \in 1 .. s
<1>1. CountingUp(problem, s)[k] = IF problem = "matrix_vector_multiply" THEN (k - 1) % ByteLimit
                                                                      ELSE k - 1
  BY DEF CountingUp
<1>2. (k - 1) % ByteLimit \in Nat /\ (k - 1) % ByteLimit < ElementLimit
  <2>1. PICK b \in Nat \ {0} : b = ByteLimit /\ b <= ElementLimit /\ ElementLimit \in Nat
    BY BatchAssumption
  <2>2. k - 1 \in Nat
    OBVIOUS
  <2>3. (k - 1) % b \in 0 .. b - 1
    BY <2>2, Euclid
  <2> QED BY <2>1, <2>3
<1>3. CASE problem = "matrix_vector_multiply"
  BY <1>1, <1>2, <1>3 DEF Fits
<1>4. CASE problem = "real_matrix_vector_multiply"
  BY <1>1, <1>4 DEF Fits
<1> QED BY <1>3, <1>4 DEF MatrixVectors

LEMMA CountingUpAnswer ==
  ASSUME NEW problem \in MatrixVectors, NEW s \in Nat
  PROVE  VectorProblem(problem, s, Identity(s), CountingUp(problem, s), CountingUp(problem, s))
<1>1. PICK up : up = CountingUp(problem, s)
  OBVIOUS
<1>2. Listed(s * s, Identity(s)) /\ Listed(s, up)
  BY <1>1, ContentsListed
<1>3. \A k \in 1 .. s : Fits(problem, up[k])
  BY <1>1, CountingUpIs
<1>4. \A k \in 1 .. s : up[k] \in Int
  BY <1>3 DEF Fits
<1>5. \A i \in 1 .. s : ElementSum(problem, InnerTerms(s, RowOf(Identity(s), s, i), up)) = up[i]
  BY <1>3, <1>4, IdentityTimes
<1>6. up = [i \in 1 .. s |-> up[i]]
  BY <1>2 DEF Listed, List
<1>7. up = [i \in 1 .. s |-> ElementSum(problem, InnerTerms(s, RowOf(Identity(s), s, i), up))]
  BY <1>5, <1>6
<1>8. problem # "binary_fc_layer"
  BY DEF MatrixVectors
<1>9. VectorProblem(problem, s, Identity(s), up, up)
  BY <1>2, <1>7, <1>8 DEF VectorProblem
<1> QED BY <1>1, <1>9

LEMMA DrawnVectorAnswer ==
  ASSUME NEW problem \in MatrixVectors, NEW s \in Nat, NEW a, Listed(s * s, a),
         NEW v, Listed(s, v)
  PROVE  VectorProblem(problem, s, a, v, RowProducts(problem, s, a, v))
<1>1. Listed(s, RowProducts(problem, s, a, v))
  BY ContentsListed
<1>2. problem # "binary_fc_layer"
  BY DEF MatrixVectors
<1> QED BY <1>1, <1>2, RowProductsAre DEF VectorProblem

\* The sign of the product is that of the majority.
LEMMA DrawnLayerAnswer ==
  ASSUME NEW s \in Nat, NEW a \in [1 .. s * s -> {0, 1}], NEW v \in [1 .. s -> {0, 1}]
  PROVE  VectorProblem("binary_fc_layer", s, a, v, RowMajorities(s, a, v))
<1>1. Listed(s * s, a) /\ Listed(s, v)
  <2>1. s * s \in Nat
    OBVIOUS
  <2> QED BY <2>1, DrawnIsList DEF Listed
<1>2. Listed(s, RowMajorities(s, a, v))
  BY ContentsListed
<1>3. ASSUME NEW i \in 1 .. s
      PROVE  RowMajorities(s, a, v)[i]
               = IF SumOf([k \in 1 .. s |-> (2 * RowOf(a, s, i)[k] - 1) * (2 * v[k] - 1)]) >= 0
                 THEN 1 ELSE 0
  <2>1. PICK t : t = [k \in 1 .. s |-> (2 * RowOf(a, s, i)[k] - 1) * (2 * v[k] - 1)]
    OBVIOUS
  <2>2. PICK D : D = {j \in 1 .. s : a[(i - 1) * s + j] = v[j]}
    OBVIOUS
  <2>3. ASSUME NEW k \in 1 .. s PROVE t[k] = IF k \in D THEN 1 ELSE -1
    <3>1. RowOf(a, s, i)[k] = a[(i - 1) * s + k]
      BY <1>1, RowItem DEF RowOf
    <3>2. (i - 1) * s + k \in 1 .. s * s
      <4>1. PICK q \in Nat : q = i - 1 /\ q + 1 <= s
        OBVIOUS
      <4>2. (q + 1) * s <= s * s
        BY <4>1, Monotone
      <4>3. (q + 1) * s = q * s + s /\ q * s \in Nat
        OBVIOUS
      <4> QED BY <4>1, <4>2, <4>3
    <3>3. PICK y \in {0, 1}, z \in {0, 1} : y = a[(i - 1) * s + k] /\ z = v[k]
      BY <3>2
    <3>4. t[k] = (2 * y - 1) * (2 * z - 1)
      BY <2>1, <3>1, <3>3
    <3>5. k \in D <=> y = z
      BY <2>2, <3>3
    <3> QED BY <3>4, <3>5
  <2>4. t = [k \in 1 .. s |-> t[k]] /\ D \in SUBSET (1 .. s)
    BY <2>1, <2>2
  <2>5. SumOf(t) = 2 * Cardinality(D) - s
    BY <2>3, <2>4, SumOfAgreement
  <2>6. Cardinality(D) \in Nat
    <3>1. IsFiniteSet(1 .. s)
      BY FS_Interval
    <3>2. IsFiniteSet(D)
      BY <2>4, <3>1, FS_Subset
    <3> QED BY <3>2, FS_CardinalityType
  <2>7. SumOf(t) >= 0 <=> 2 * Cardinality(D) >= s
    BY <2>5, <2>6
  <2>8. RowMajorities(s, a, v)[i] = IF 2 * Cardinality(D) >= s THEN 1 ELSE 0
    BY <2>2, Zenon DEF RowMajorities
  <2> QED BY <2>1, <2>7, <2>8
<1>4. RowMajorities(s, a, v) = [i \in 1 .. s |-> RowMajorities(s, a, v)[i]]
  BY <1>2 DEF Listed, List
<1>5. RowMajorities(s, a, v)
        = [i \in 1 .. s |->
             IF SumOf([k \in 1 .. s |-> (2 * RowOf(a, s, i)[k] - 1) * (2 * v[k] - 1)]) >= 0
             THEN 1 ELSE 0]
  BY <1>3, <1>4
<1>6. "binary_fc_layer" \notin MatrixVectors
  BY DEF MatrixVectors
<1> QED BY <1>1, <1>2, <1>5, <1>6 DEF VectorProblem

\* Each answer is the item of the vector where the matrix has its 1.
LEMMA ParityLayerAnswer ==
  ASSUME NEW s \in Nat, NEW par, Alternating(s, par), Listed(s, par)
  PROVE  VectorProblem("binary_fc_layer", s, Identity(s), par, par)
<1>1. Listed(s * s, Identity(s)) /\ Listed(s, par)
  BY ContentsListed
<1>2. Alternating(s, par)
  OBVIOUS
<1>3. ASSUME NEW i \in 1 .. s
      PROVE  par[i] = IF SumOf([k \in 1 .. s |-> (2 * RowOf(Identity(s), s, i)[k] - 1)
                                                   * (2 * par[k] - 1)]) >= 0
                      THEN 1 ELSE 0
  <2>1. PICK t : t = [k \in 1 .. s |-> (2 * RowOf(Identity(s), s, i)[k] - 1) * (2 * par[k] - 1)]
    OBVIOUS
  <2>2. ASSUME NEW k \in 1 .. s PROVE t[k] = IF k = i THEN 2 * par[k] - 1 ELSE 1 - 2 * par[k]
    <3>1. RowOf(Identity(s), s, i)[k] = IF i = k THEN 1 ELSE 0
      BY <1>1, RowItem, IdentityItem DEF RowOf
    <3>2. PICK y \in {0, 1} : y = par[k]
      BY <1>2 DEF Alternating
    <3>3. t[k] = (2 * (IF i = k THEN 1 ELSE 0) - 1) * (2 * y - 1)
      BY <2>1, <3>1, <3>2
    <3> QED BY <3>2, <3>3
  <2>3. t = [k \in 1 .. s |-> t[k]]
    BY <2>1
  <2>4. SumOf(t) >= 0 <=> par[i] = 1
    BY <1>2, <2>2, <2>3, SumOfParity
  <2>5. par[i] \in {0, 1}
    BY <1>2 DEF Alternating
  <2> QED BY <2>1, <2>4, <2>5
<1>4. par = [i \in 1 .. s |-> par[i]]
  BY <1>1 DEF Listed, List
<1>5. par = [i \in 1 .. s |-> IF SumOf([k \in 1 .. s |-> (2 * RowOf(Identity(s), s, i)[k] - 1)
                                                         * (2 * par[k] - 1)]) >= 0
                              THEN 1 ELSE 0]
  BY <1>3, <1>4
<1>6. "binary_fc_layer" \notin MatrixVectors
  BY DEF MatrixVectors
<1> QED BY <1>1, <1>5, <1>6 DEF VectorProblem

-----------------------------------------------------------------------------
(* Two lots in the garblers' files, one before the other.                  *)

\* Of worker w's items, the first share[w], and those after them.
FirstItems(writes, n, share) ==
  FlattenSeq([i \in 1 .. n |-> SubSeq(ItemsOf(writes, "garbler", i - 1), 1, share[i - 1])])
SecondItems(writes, n, share) ==
  FlattenSeq([i \in 1 .. n |-> SubSeq(ItemsOf(writes, "garbler", i - 1), share[i - 1] + 1,
                                      Len(ItemsOf(writes, "garbler", i - 1)))])

LEMMA CutApart ==
  ASSUME NEW u, NEW v, List(u), List(v), NEW c, JoinOf(c, u, v)
  PROVE  SubSeq(c, 1, Len(u)) = u /\ SubSeq(c, Len(u) + 1, Len(c)) = v
<1>1. PICK l \in Nat, m \in Nat : l = Len(u) /\ m = Len(v) /\ Len(c) = l + m
  BY DEF List, JoinOf
<1>2. SubSeq(c, 1, l) = [k \in 1 .. l |-> c[k]]
  OBVIOUS
<1>3. SubSeq(c, l + 1, l + m) = [k \in 1 .. m |-> c[l + k]]
  OBVIOUS
<1>4. u = [k \in 1 .. l |-> u[k]] /\ v = [k \in 1 .. m |-> v[k]]
  BY <1>1 DEF List
<1>5. (\A k \in 1 .. l : c[k] = u[k]) /\ \A k \in 1 .. m : c[l + k] = v[k]
  BY <1>1 DEF JoinOf
<1>6. SubSeq(c, 1, l) = u
  BY <1>2, <1>4, <1>5
<1>7. SubSeq(c, l + 1, l + m) = v
  BY <1>3, <1>4, <1>5
<1> QED BY <1>1, <1>6, <1>7

LEMMA StretchIsList ==
  ASSUME NEW values, NEW lo \in Nat, NEW hi \in Nat, lo <= hi
  PROVE  List(Stretch(values, lo, hi)) /\ Len(Stretch(values, lo, hi)) = hi - lo
<1>1. PICK t : t = Stretch(values, lo, hi)
  OBVIOUS
<1>2. DOMAIN t = 1 .. hi - lo /\ t = [k \in 1 .. hi - lo |-> t[k]] /\ hi - lo \in Nat
  BY <1>1 DEF Stretch
<1> QED BY <1>1, <1>2, ListOf

\* The garblers' files are those of two lots, each cut into stretches.
LEMMA TwoOfGarbler ==
  ASSUME NEW n \in Nat \ {0}, NEW w1, NEW v1, NEW w2, NEW v2, NEW w3, NEW v3, NEW writes,
         OfThree(writes, "garbler", w1, v1, "garbler", w2, v2, "expected", w3, v3),
         NEW c1, Cuts(w1, n, Len(v1), c1), NEW c2, Cuts(w2, n, Len(v2), c2), NEW w \in 0 .. n - 1
  PROVE  /\ JoinOf(ItemsOf(writes, "garbler", w), Stretch(v1, c1[w], c1[w + 1]),
                                                  Stretch(v2, c2[w], c2[w + 1]))
         /\ List(Stretch(v1, c1[w], c1[w + 1])) /\ List(Stretch(v2, c2[w], c2[w + 1]))
         /\ Len(Stretch(v1, c1[w], c1[w + 1])) = c1[w + 1] - c1[w]
         /\ Len(Stretch(v2, c2[w], c2[w + 1])) = c2[w + 1] - c2[w]
         /\ c1[w + 1] - c1[w] \in Nat /\ c2[w + 1] - c2[w] \in Nat
<1>1. List(v1) /\ List(v2) /\ Len(v1) \in Nat /\ Len(v2) \in Nat
  BY DEF OfThree, List
<1>2. PICK p, q : /\ p = ItemsOf(Deal("garbler", w1, v1), "garbler", w)
                  /\ q = ItemsOf(Deal("garbler", w2, v2), "garbler", w)
  OBVIOUS
<1>3. p = Stretch(v1, c1[w], c1[w + 1]) /\ q = Stretch(v2, c2[w], c2[w + 1])
  BY <1>1, <1>2, DealtStretch
<1>4. ItemsOf(writes, "garbler", w) = p \o q
  <2>1. PICK kind, last : kind = "garbler" /\ last = "expected" /\ kind # last
    OBVIOUS
  <2>2. OfThree(writes, kind, w1, v1, kind, w2, v2, last, w3, v3)
    BY <2>1
  <2>3. ItemsOf(writes, kind, w)
          = ItemsOf(Deal(kind, w1, v1), kind, w) \o ItemsOf(Deal(kind, w2, v2), kind, w)
    BY <2>1, <2>2, ThreeLots
  <2> QED BY <1>2, <2>1, <2>3
<1>5. PICK a \in Nat, b \in Nat, c \in Nat, d \in Nat :
        a = c1[w] /\ b = c1[w + 1] /\ c = c2[w] /\ d = c2[w + 1] /\ a <= b /\ c <= d
  <2>1. w \in 0 .. n /\ w + 1 \in 0 .. n
    OBVIOUS
  <2>2. c1[w] \in Nat /\ c1[w + 1] \in Nat /\ c2[w] \in Nat /\ c2[w + 1] \in Nat
    BY <1>1, <2>1 DEF Cuts
  <2>3. c1[w] <= c1[w + 1] /\ c2[w] <= c2[w + 1]
    BY DEF Cuts
  <2> QED BY <2>2, <2>3
<1>6. List(p) /\ Len(p) = b - a /\ List(q) /\ Len(q) = d - c
  BY <1>3, <1>5, StretchIsList
<1>7. JoinOf(ItemsOf(writes, "garbler", w), p, q)
  BY <1>4, <1>6, JoinIs, Zenon
<1> QED BY <1>3, <1>5, <1>6, <1>7

LEMMA FirstAndSecond ==
  ASSUME NEW n \in Nat \ {0}, NEW w1, NEW v1, NEW w2, NEW v2, NEW w3, NEW v3, NEW writes,
         OfThree(writes, "garbler", w1, v1, "garbler", w2, v2, "expected", w3, v3),
         NEW c1, Cuts(w1, n, Len(v1), c1), NEW c2, Cuts(w2, n, Len(v2), c2),
         NEW share, \A w \in 0 .. n - 1 : share[w] = c1[w + 1] - c1[w]
  PROVE  FirstItems(writes, n, share) = v1 /\ SecondItems(writes, n, share) = v2
<1>1. List(v1) /\ List(v2) /\ Len(v1) \in Nat /\ Len(v2) \in Nat
  BY DEF OfThree, List
<1> DEFINE f(i) == ItemsOf(writes, "garbler", i - 1)
           ss == [i \in 1 .. n |-> SubSeq(f(i), 1, share[i - 1])]
           ts == [i \in 1 .. n |-> SubSeq(f(i), share[i - 1] + 1, Len(f(i)))]
<1>2. ASSUME NEW i \in 1 .. n
      PROVE  /\ SubSeq(f(i), 1, share[i - 1]) = Stretch(v1, c1[i - 1], c1[i])
             /\ SubSeq(f(i), share[i - 1] + 1, Len(f(i))) = Stretch(v2, c2[i - 1], c2[i])
  <2>1. PICK w \in 0 .. n - 1 : w = i - 1 /\ w + 1 = i
    OBVIOUS
  <2>2. PICK c, u, v : /\ c = ItemsOf(writes, "garbler", w) /\ u = Stretch(v1, c1[w], c1[w + 1])
                       /\ v = Stretch(v2, c2[w], c2[w + 1])
    OBVIOUS
  <2>3. JoinOf(c, u, v) /\ List(u) /\ List(v) /\ Len(u) = share[w]
    BY <2>2, TwoOfGarbler
  <2>4. SubSeq(c, 1, Len(u)) = u /\ SubSeq(c, Len(u) + 1, Len(c)) = v
    BY <2>3, CutApart
  <2> QED BY <2>1, <2>2, <2>3, <2>4
<1>3. ss = [i \in 1 .. n |-> Stretch(v1, c1[i - 1], c1[i])]
      /\ ts = [i \in 1 .. n |-> Stretch(v2, c2[i - 1], c2[i])]
  BY <1>2
<1> HIDE DEF ss, ts
<1>4. FlattenSeq(ss) = v1 /\ FlattenSeq(ts) = v2
  BY <1>1, <1>3, StretchesMerged
<1>5. FirstItems(writes, n, share) = FlattenSeq(ss) /\ SecondItems(writes, n, share) = FlattenSeq(ts)
  BY Zenon DEF FirstItems, SecondItems, ss, ts
<1> QED BY <1>4, <1>5

\* How many answers each worker has, and half of what its garbler has.
AnswersOf(writes, n) == [w \in 0 .. n - 1 |-> Len(ItemsOf(writes, "expected", w))]
HalvesOf(writes, n) == [w \in 0 .. n - 1 |-> Len(ItemsOf(writes, "garbler", w)) \div 2]

LEMMA VectorIsLots ==
  ASSUME NEW s \in Nat, NEW n, NEW owner, NEW workersOfX, NEW a, NEW v, NEW sums,
         Listed(s * s, a), Listed(s, v), Listed(s, sums)
  PROVE  OfThree(MatrixVector(s, n, owner, workersOfX, a, v, sums), owner, workersOfX, v,
                 "garbler", [k \in 1 .. s * s |-> Blocked((k - 1) \div s, n, s)], a,
                 "expected", BlockedOf(n, s), sums)
BY DEF OfThree, MatrixVector, Listed

LEMMA VectorMerged ==
  ASSUME NEW s \in Nat, NEW n \in Nat \ {0}, NEW owner \in {"garbler", "evaluator"},
         NEW workersOfX, NEW a, NEW v, NEW sums,
         Listed(s * s, a), Listed(s, v), Listed(s, sums), CutLot(n, workersOfX, v),
         NEW g, NEW e, NEW x,
         Gathered(MatrixVector(s, n, owner, workersOfX, a, v, sums), n, g, e, x)
  PROVE  x = sums /\ (owner = "evaluator" => g = a /\ e = v)
<1>1. PICK wa : wa = [k \in 1 .. s * s |-> Blocked((k - 1) \div s, n, s)]
  OBVIOUS
<1>2. PICK writes : writes = MatrixVector(s, n, owner, workersOfX, a, v, sums)
  OBVIOUS
<1>3. OfThree(writes, owner, workersOfX, v, "garbler", wa, a, "expected", BlockedOf(n, s), sums)
  BY <1>1, <1>2, VectorIsLots
<1>4. CutLot(n, BlockedOf(n, s), sums)
  BY BlockedLot DEF Listed
<1>5. CutLot(n, wa, a)
  <2>1. \A k \in 1 .. s * s : wa[k] = Blocked((k - 1) \div s, n, s)
    BY <1>1
  <2> QED BY <2>1, WholeRowsLot DEF Listed
<1>6. Merged(writes, "expected", n) = sums
  BY <1>3, <1>4, ThreeMerged
<1>7. owner = "evaluator" => Merged(writes, "garbler", n) = a /\ Merged(writes, "evaluator", n) = v
  BY <1>3, <1>5, ThreeMerged
<1> QED BY <1>2, <1>6, <1>7 DEF Gathered

\* The garblers have the vector too, and before the matrix.
LEMMA VectorOfGarbler ==
  ASSUME NEW s \in Nat, NEW n \in Nat \ {0}, NEW a, NEW v, NEW sums,
         Listed(s * s, a), Listed(s, v), Listed(s, sums), NEW writes,
         writes = MatrixVector(s, n, "garbler", BlockedOf(n, s), a, v, sums)
  PROVE  /\ FirstItems(writes, n, AnswersOf(writes, n)) = v
         /\ SecondItems(writes, n, AnswersOf(writes, n)) = a
<1>1. PICK wa : wa = [k \in 1 .. s * s |-> Blocked((k - 1) \div s, n, s)]
  OBVIOUS
<1>2. OfThree(writes, "garbler", BlockedOf(n, s), v, "garbler", wa, a,
              "expected", BlockedOf(n, s), sums)
  BY <1>1, VectorIsLots
<1>3. PICK c1 : Cuts(BlockedOf(n, s), n, s, c1)
  BY BlockedCut
<1>4. PICK c2 : Cuts(wa, n, s * s, c2)
  <2>1. \A k \in 1 .. s * s : wa[k] = Blocked((k - 1) \div s, n, s)
    BY <1>1
  <2>2. CutLot(n, wa, a)
    BY <2>1, WholeRowsLot DEF Listed
  <2> QED BY <2>2 DEF CutLot, Listed
<1>5. Len(v) = s /\ Len(a) = s * s /\ List(sums) /\ Len(sums) = s
  BY DEF Listed
<1>6. ASSUME NEW w \in 0 .. n - 1 PROVE AnswersOf(writes, n)[w] = c1[w + 1] - c1[w]
  <2>1. ItemsOf(writes, "expected", w)
          = ItemsOf(Deal("expected", BlockedOf(n, s), sums), "expected", w)
    BY <1>2, ThreeLots
  <2>2. ItemsOf(writes, "expected", w) = Stretch(sums, c1[w], c1[w + 1])
    BY <1>3, <1>5, <2>1, DealtStretch
  <2>3. PICK lo \in Nat, hi \in Nat : lo = c1[w] /\ hi = c1[w + 1] /\ lo <= hi
    <3>1. w \in 0 .. n /\ w + 1 \in 0 .. n
      OBVIOUS
    <3> QED BY <1>3, <3>1 DEF Cuts
  <2>4. Len(ItemsOf(writes, "expected", w)) = hi - lo
    BY <2>2, <2>3, StretchIsList
  <2> QED BY <2>3, <2>4 DEF AnswersOf
<1> QED BY <1>2, <1>3, <1>4, <1>5, <1>6, FirstAndSecond

\* Two lots of one length and division: each is half of each file.
LEMMA HalvesOfGarbler ==
  ASSUME NEW n \in Nat \ {0}, NEW m \in Nat, NEW workers, NEW u, NEW v, NEW w3, NEW v3, NEW writes,
         OfThree(writes, "garbler", workers, u, "garbler", workers, v, "expected", w3, v3),
         Len(u) = m, Len(v) = m, CutLot(n, workers, u)
  PROVE  /\ FirstItems(writes, n, HalvesOf(writes, n)) = u
         /\ SecondItems(writes, n, HalvesOf(writes, n)) = v
<1>1. PICK c : Cuts(workers, n, m, c)
  BY DEF CutLot
<1>2. ASSUME NEW w \in 0 .. n - 1 PROVE HalvesOf(writes, n)[w] = c[w + 1] - c[w]
  <2>1. PICK p, q, t : /\ p = Stretch(u, c[w], c[w + 1]) /\ q = Stretch(v, c[w], c[w + 1])
                       /\ t = ItemsOf(writes, "garbler", w)
    OBVIOUS
  <2>2. /\ JoinOf(t, p, q) /\ Len(p) = c[w + 1] - c[w] /\ Len(q) = c[w + 1] - c[w]
        /\ c[w + 1] - c[w] \in Nat
    BY <1>1, <2>1, TwoOfGarbler
  <2>3. PICK d \in Nat : d = c[w + 1] - c[w]
    BY <2>2
  <2>4. Len(t) = d + d
    BY <2>2, <2>3 DEF JoinOf
  <2>5. Len(t) \div 2 = d
    BY <2>4
  <2> QED BY <2>1, <2>3, <2>5 DEF HalvesOf
<1> QED BY <1>1, <1>2, FirstAndSecond

-----------------------------------------------------------------------------
(* The workloads of the real numbers.                                      *)

LEMMA ShareAndSingle ==
  ASSUME NEW s \in Nat, NEW n \in Nat \ {0}, NEW values, Listed(s, values), NEW single,
         List(single), NEW g, NEW e, NEW x,
         Gathered(Share(n, values) \o Single(single), n, g, e, x)
  PROVE  g = values /\ x = single
<1>1. PICK workers : workers = [k \in DOMAIN single |-> 0]
  OBVIOUS
<1>2. PICK writes : writes = Share(n, values) \o Single(single)
  OBVIOUS
<1>3. List(values) /\ Len(values) = s
  BY DEF Listed
<1>4. OfTwo(writes, "garbler", BlockedOf(n, s), values, "expected", workers, single)
  BY <1>1, <1>2, <1>3 DEF OfTwo, Share, Single
<1>5. CutLot(n, BlockedOf(n, s), values)
  BY <1>3, BlockedLot
<1>6. CutLot(n, workers, single)
  <2>1. DOMAIN single = 1 .. Len(single)
    BY DEF List
  <2>2. \A k \in 1 .. Len(single) : workers[k] = 0
    BY <1>1, <2>1
  <2> QED BY <2>2, SingleLot
<1>7. Merged(writes, "garbler", n) = values /\ Merged(writes, "expected", n) = single
  BY <1>4, <1>5, <1>6, TwoMerged
<1> QED BY <1>2, <1>7 DEF Gathered

LEMMA CpirAnswer ==
  ASSUME NEW s \in Nat, NEW n \in Nat \ {0}, NEW g, NEW e, NEW x, Gathered(Cpir(s, n), n, g, e, x)
  PROVE  \A wanted \in DOMAIN g :
           g[wanted] = 1 => x = [k \in 1 .. s |-> ((k - 1) * s) + wanted]
<1>1. PICK u, v : /\ u = [k \in 1 .. s |-> IF k - 1 = 3 THEN 1 ELSE 0]
                  /\ v = [k \in 1 .. s |-> 1 + (k - 1) * s + 3]
  OBVIOUS
<1>2. Listed(s, u) /\ Listed(s, v) /\ DOMAIN u = 1 .. s
  <2>1. DOMAIN u = 1 .. s /\ u = [k \in 1 .. s |-> u[k]]
    BY <1>1
  <2>2. DOMAIN v = 1 .. s /\ v = [k \in 1 .. s |-> v[k]]
    BY <1>1
  <2> QED BY <2>1, <2>2, ListOf DEF Listed
<1>3. Cpir(s, n) = Share(n, u) \o Single(v)
  BY <1>1, Zenon DEF Cpir
<1>4. g = u /\ x = v
  BY <1>2, <1>3, ShareAndSingle DEF Listed
<1>5. ASSUME NEW wanted \in DOMAIN g, g[wanted] = 1
      PROVE  x = [k \in 1 .. s |-> ((k - 1) * s) + wanted]
  <2>1. wanted = 4
    BY <1>1, <1>2, <1>4, <1>5
  <2>2. \A k \in 1 .. s : 1 + (k - 1) * s + 3 = ((k - 1) * s) + 4
    <3> TAKE k \in 1 .. s
    <3>1. (k - 1) * s \in Int
      OBVIOUS
    <3> QED BY <3>1
  <2> QED BY <1>1, <1>4, <2>1, <2>2
<1> QED BY <1>5

LEMMA CountedListed ==
  ASSUME NEW s \in Nat, NEW u, u = [k \in 1 .. s |-> u[k]]
  PROVE  Listed(s, u) /\ DOMAIN u = 1 .. s
<1>1. DOMAIN u = 1 .. s
  OBVIOUS
<1> QED BY <1>1, ListOf DEF Listed

LEMMA RealSumAnswer ==
  ASSUME NEW s \in Nat, NEW n \in Nat \ {0}, NEW g, NEW e, NEW x,
         Gathered(RealSum(s, n), n, g, e, x)
  PROVE  x = <<SumOf(g)>>
<1>1. PICK u : u = [k \in 1 .. s |-> k - 1]
  OBVIOUS
<1>2. Listed(s, u)
  <2>1. u = [k \in 1 .. s |-> u[k]]
    BY <1>1
  <2> QED BY <2>1, CountedListed
<1>3. RealSum(s, n) = Share(n, u) \o Single(<<SumOf(u)>>)
  BY <1>1, Zenon DEF RealSum
<1>4. List(<<SumOf(u)>>)
  BY OneIsList
<1>5. g = u /\ x = <<SumOf(u)>>
  BY <1>2, <1>3, <1>4, ShareAndSingle
<1> QED BY <1>5

LEMMA RealStatisticsAnswer ==
  ASSUME NEW s \in Nat, NEW n \in Nat \ {0}, NEW g, NEW e, NEW x,
         Gathered(RealStatistics(s, n), n, g, e, x)
  PROVE  x = <<SumOf(g), SumOf([k \in DOMAIN g |-> g[k] * g[k]])>>
<1>1. PICK u, v : u = [k \in 1 .. s |-> k - 1] /\ v = [k \in 1 .. s |-> (k - 1) * (k - 1)]
  OBVIOUS
<1>2. Listed(s, u) /\ DOMAIN u = 1 .. s
  <2>1. u = [k \in 1 .. s |-> u[k]]
    BY <1>1
  <2> QED BY <2>1, CountedListed
<1>3. RealStatistics(s, n) = Share(n, u) \o Single(<<SumOf(u), SumOf(v)>>)
  BY <1>1, Zenon DEF RealStatistics
<1>4. List(<<SumOf(u), SumOf(v)>>)
  BY PairIsList
<1>5. g = u /\ x = <<SumOf(u), SumOf(v)>>
  BY <1>2, <1>3, <1>4, ShareAndSingle
<1>6. [k \in DOMAIN g |-> g[k] * g[k]] = v
  BY <1>1, <1>2, <1>5
<1> QED BY <1>5, <1>6

LEMMA RealVectorMultiplyAnswer ==
  ASSUME NEW s \in Nat, NEW n \in Nat \ {0}, NEW g, NEW e, NEW x, NEW writes,
         writes = RealVectorMultiply(s, n), Gathered(writes, n, g, e, x),
         NEW first, first = FirstItems(writes, n, HalvesOf(writes, n)),
         NEW second, second = SecondItems(writes, n, HalvesOf(writes, n))
  PROVE  x = <<SumOf([k \in 1 .. s |-> first[k] * second[k]])>>
<1>1. PICK ones : ones = [k \in 1 .. s |-> 1]
  OBVIOUS
<1>2. Listed(s, ones) /\ DOMAIN ones = 1 .. s
  <2>1. ones = [k \in 1 .. s |-> ones[k]]
    BY <1>1
  <2> QED BY <2>1, CountedListed
<1>3. PICK workers, single : single = <<s>> /\ workers = [k \in DOMAIN single |-> 0]
  OBVIOUS
<1>4. List(single) /\ Len(single) = 1
  BY <1>3, OneIsList
<1>5. OfThree(writes, "garbler", BlockedOf(n, s), ones, "garbler", BlockedOf(n, s), ones,
              "expected", workers, single)
  <2>1. Len(ones) = s /\ List(ones)
    BY <1>2 DEF Listed
  <2>2. RealVectorMultiply(s, n) = Share(n, ones) \o Share(n, ones) \o Single(single)
    BY <1>1, <1>3, Zenon DEF RealVectorMultiply
  <2>3. Share(n, ones) = Deal("garbler", BlockedOf(n, s), ones)
        /\ Single(single) = Deal("expected", workers, single)
    BY <1>3, <2>1 DEF Share, Single
  <2> QED BY <1>4, <2>1, <2>2, <2>3 DEF OfThree
<1>6. CutLot(n, BlockedOf(n, s), ones)
  BY <1>2, BlockedLot DEF Listed
<1>7. CutLot(n, workers, single)
  <2>1. DOMAIN single = 1 .. Len(single)
    BY <1>4 DEF List
  <2>2. \A k \in 1 .. Len(single) : workers[k] = 0
    BY <1>3, <2>1
  <2> QED BY <1>4, <2>2, SingleLot
<1>8. x = single
  BY <1>5, <1>7, ThreeMerged DEF Gathered
<1>9. first = ones /\ second = ones
  BY <1>2, <1>5, <1>6, HalvesOfGarbler DEF Listed
<1>10. PICK t : t = [k \in 1 .. s |-> first[k] * second[k]]
  OBVIOUS
<1>11. t = [k \in 1 .. s |-> t[k]] /\ \A k \in 1 .. s : t[k] = 1
  BY <1>1, <1>9, <1>10
<1>12. SumOf(t) = s
  BY <1>11, SumOfOnes
<1> QED BY <1>3, <1>8, <1>10, <1>12

-----------------------------------------------------------------------------
(* The products of two matrices.                                           *)

\* A list with one more item.
OneMore(t, u, q, y) == t = [r \in 1 .. q + 1 |-> IF r <= q THEN u[r] ELSE y]

LEMMA AppendedItems ==
  ASSUME NEW u, List(u), NEW q, Len(u) = q, NEW y
  PROVE  OneMore(Append(u, y), u, q, y)
<1>1. q \in Nat
  BY DEF List
<1> DEFINE S == {u[k] : k \in 1 .. Len(u)} \cup {y}
<1>2. u \in Seq(S) /\ y \in S
  BY ListIsSeq
<1> HIDE DEF S
<1> DEFINE t == Append(u, y)
<1>3. /\ t \in Seq(S) /\ Len(t) = q + 1 /\ t[q + 1] = y
      /\ \A j \in 1 .. q : t[j] = u[j]
  BY <1>2
<1> HIDE DEF t
<1>4. t = [r \in 1 .. q + 1 |-> t[r]]
  BY <1>3
<1>5. \A r \in 1 .. q + 1 : t[r] = IF r <= q THEN u[r] ELSE y
  BY <1>1, <1>3
<1>6. t = [r \in 1 .. q + 1 |-> IF r <= q THEN u[r] ELSE y]
  BY <1>4, <1>5, Zenon
<1> QED BY <1>6, Zenon DEF t, OneMore

\* The places of one file's items, told in order.
Enumerates(ix, m, len, mine) ==
  /\ ix \in [1 .. m -> 1 .. len]
  /\ \A p, r \in 1 .. m : p < r => ix[p] < ix[r]
  /\ mine = {ix[p] : p \in 1 .. m}

LEMMA ItemsEnumerated ==
  ASSUME NEW writes, List(writes), NEW kind, NEW w, NEW m \in Nat, NEW ix,
         Enumerates(ix, m, Len(writes),
                    {k \in 1 .. Len(writes) : writes[k].kind = kind /\ writes[k].worker = w})
  PROVE  ItemsOf(writes, kind, w) = [p \in 1 .. m |-> writes[ix[p]].value]
<1> DEFINE len == Len(writes)
           mine == {k \in 1 .. len : writes[k].kind = kind /\ writes[k].worker = w}
           upTo(q) == [p \in 1 .. q |-> writes[ix[p]].value]
           Q(k, q) == \A p \in 1 .. m : p <= q <=> ix[p] <= k
<1>1. /\ ix \in [1 .. m -> 1 .. len] /\ len \in Nat
      /\ \A p, r \in 1 .. m : p < r => ix[p] < ix[r]
      /\ \A p \in 1 .. m : ix[p] \in mine
      /\ \A k \in mine : \E p \in 1 .. m : ix[p] = k
  BY DEF Enumerates, List
<1>2. PICK after : /\ after[0] = <<>>
                   /\ \A k \in 1 .. len : after[k] = IF writes[k].kind = kind /\ writes[k].worker = w
                                                     THEN Append(after[k - 1], writes[k].value)
                                                     ELSE after[k - 1]
                   /\ ItemsOf(writes, kind, w) = after[len]
  BY ItemsGathered
<1>3. \A k \in 1 .. len : /\ k \in mine => after[k] = Append(after[k - 1], writes[k].value)
                          /\ k \notin mine => after[k] = after[k - 1]
  BY <1>2
<1> HIDE DEF len, mine, upTo
<1> DEFINE S == {k \in Nat : k <= len => \E q \in 0 .. m : Q(k, q) /\ after[k] = upTo(q)}
<1>4. 0 \in S
  <2>1. upTo(0) = <<>>
    BY DEF upTo
  <2>2. Q(0, 0)
    BY <1>1
  <2> QED BY <1>2, <2>1, <2>2
<1>5. ASSUME NEW k \in Nat, k \in S PROVE k + 1 \in S
  <2> SUFFICES ASSUME k + 1 <= len
               PROVE  \E q \in 0 .. m : Q(k + 1, q) /\ after[k + 1] = upTo(q)
    OBVIOUS
  <2>1. k <= len /\ k + 1 \in 1 .. len /\ (k + 1) - 1 = k
    BY <1>1
  <2>2. PICK q \in 0 .. m : Q(k, q) /\ after[k] = upTo(q)
    BY <1>5, <2>1
  <2>3. CASE k + 1 \in mine
    <3>1. PICK p \in 1 .. m : ix[p] = k + 1
      BY <1>1, <2>3
    <3>2. ~ (p <= q)
      BY <2>2, <3>1
    <3>3. p = q + 1
      <4>1. CASE p = 1
        BY <3>2, <4>1
      <4>2. CASE p # 1
        <5>1. p - 1 \in 1 .. m /\ p - 1 < p
          BY <4>2
        <5>2. ix[p - 1] < ix[p] /\ ix[p - 1] \in Nat
          BY <1>1, <5>1
        <5>3. ix[p - 1] <= k
          BY <3>1, <5>2
        <5>4. p - 1 <= q
          BY <2>2, <5>1, <5>3
        <5> QED BY <3>2, <5>4
      <4> QED BY <4>1, <4>2
    <3>4. Q(k + 1, q + 1)
      <4>1. ASSUME NEW r \in 1 .. m PROVE r <= q + 1 <=> ix[r] <= k + 1
        <5>1. ix[r] \in Nat /\ (r <= q <=> ix[r] <= k)
          BY <1>1, <2>2
        <5>2. CASE r <= q
          BY <5>1, <5>2
        <5>3. CASE r = q + 1
          BY <3>1, <3>3, <5>3
        <5>4. CASE r > q + 1
          <6>1. ix[p] < ix[r]
            BY <1>1, <3>3, <5>4
          <6> QED BY <3>1, <5>1, <5>4, <6>1
        <5> QED BY <5>2, <5>3, <5>4
      <4> QED BY <4>1
    <3>5. upTo(q + 1) = Append(upTo(q), writes[k + 1].value)
      <4>1. PICK u : u = upTo(q)
        OBVIOUS
      <4>2. u = [r \in 1 .. q |-> u[r]] /\ DOMAIN u = 1 .. q
        BY <4>1 DEF upTo
      <4>3. List(u) /\ Len(u) = q
        BY <4>2, ListOf
      <4>4. PICK y : y = writes[k + 1].value
        OBVIOUS
      <4>5. Append(u, y) = [r \in 1 .. q + 1 |-> IF r <= q THEN u[r] ELSE y]
        <5>1. OneMore(Append(u, y), u, q, y)
          BY <4>3, AppendedItems
        <5> QED BY <5>1, Zenon DEF OneMore
      <4>6. \A r \in 1 .. q + 1 : writes[ix[r]].value = IF r <= q THEN u[r] ELSE y
        <5> TAKE r \in 1 .. q + 1
        <5>1. CASE r <= q
          BY <4>1, <5>1 DEF upTo
        <5>2. CASE r = q + 1
          BY <3>1, <3>3, <4>4, <5>2
        <5> QED BY <5>1, <5>2
      <4>7. upTo(q + 1) = [r \in 1 .. q + 1 |-> IF r <= q THEN u[r] ELSE y]
        BY <4>6 DEF upTo
      <4> QED BY <4>1, <4>4, <4>5, <4>7
    <3>6. after[k + 1] = upTo(q + 1)
      <4>1. after[k + 1] = Append(after[k], writes[k + 1].value)
        BY <1>3, <2>1, <2>3
      <4> QED BY <2>2, <3>5, <4>1
    <3>7. q + 1 \in 0 .. m
      BY <3>3
    <3> QED BY <3>4, <3>6, <3>7
  <2>4. CASE k + 1 \notin mine
    <3>1. after[k + 1] = upTo(q)
      BY <1>3, <2>1, <2>2, <2>4
    <3>2. Q(k + 1, q)
      <4>1. ASSUME NEW p \in 1 .. m PROVE p <= q <=> ix[p] <= k + 1
        <5>1. ix[p] \in Nat /\ ix[p] # k + 1 /\ (p <= q <=> ix[p] <= k)
          BY <1>1, <2>2, <2>4
        <5> QED BY <5>1
      <4> QED BY <4>1
    <3> QED BY <3>1, <3>2
  <2> QED BY <2>3, <2>4
<1> HIDE DEF S
<1>6. \A k \in Nat : k \in S
  BY <1>4, <1>5, Induction
<1>7. PICK q \in 0 .. m : Q(len, q) /\ after[len] = upTo(q)
  <2>1. len \in S
    BY <1>1, <1>6
  <2> QED BY <1>1, <2>1 DEF S
<1>8. q = m
  <2>1. CASE m = 0
    BY <2>1
  <2>2. CASE m # 0
    <3>1. m \in 1 .. m
      BY <2>2
    <3>2. ix[m] <= len
      BY <1>1, <3>1
    <3> QED BY <1>7, <3>1, <3>2
  <2> QED BY <2>1, <2>2
<1> QED BY <1>2, <1>7, <1>8 DEF upTo

\* Two digits make one number.
Digits(n, i, c, j) == n = i * c + j
Below(n, r, c) == n \in 0 .. r * c - 1

LEMMA DigitsBelow ==
  ASSUME NEW r \in Nat, NEW c \in Nat, NEW i \in 0 .. r - 1, NEW j \in 0 .. c - 1, NEW n,
         Digits(n, i, c, j)
  PROVE  Below(n, r, c) /\ n \in Nat
<1>1. (i + 1) * c <= r * c /\ (i + 1) * c = i * c + c /\ i * c \in Nat /\ r * c \in Nat
  BY Monotone
<1> QED BY <1>1 DEF Below, Digits

LEMMA DigitsAre ==
  ASSUME NEW c \in Nat \ {0}, NEW i \in Nat, NEW j \in 0 .. c - 1, NEW n, Digits(n, i, c, j)
  PROVE  n \div c = i /\ n % c = j
<1>1. n \in Nat /\ n = c * i + j
  BY DEF Digits
<1> QED BY <1>1, DivisionIs

LEMMA DigitsOrdered ==
  ASSUME NEW c \in Nat, NEW i \in Nat, NEW j \in 0 .. c - 1, NEW k \in Nat, NEW m \in 0 .. c - 1,
         NEW n, NEW o, Digits(n, i, c, j), Digits(o, k, c, m), i < k \/ (i = k /\ j < m)
  PROVE  n < o
<1>1. ASSUME i < k PROVE n < o
  <2>1. (i + 1) * c <= k * c /\ (i + 1) * c = i * c + c /\ i * c \in Nat /\ k * c \in Nat
    BY <1>1, Monotone
  <2> QED BY <2>1 DEF Digits
<1>2. ASSUME i = k, j < m PROVE n < o
  <2>1. i * c \in Int /\ i * c = k * c
    BY <1>2
  <2> QED BY <1>2, <2>1 DEF Digits
<1> QED BY <1>1, <1>2

LEMMA SameDigits ==
  ASSUME NEW c \in Nat, NEW i \in Nat, NEW j \in 0 .. c - 1, NEW k \in Nat, NEW m \in 0 .. c - 1,
         NEW n, Digits(n, i, c, j), Digits(n, k, c, m)
  PROVE  i = k /\ j = m
<1>1. n \in Int
  BY DEF Digits
<1>2. ~ (i < k \/ (i = k /\ j < m)) /\ ~ (k < i \/ (k = i /\ m < j))
  <2>1. ASSUME i < k \/ (i = k /\ j < m) PROVE FALSE
    <3>1. n < n
      BY <2>1, DigitsOrdered
    <3> QED BY <1>1, <3>1
  <2>2. ASSUME k < i \/ (k = i /\ m < j) PROVE FALSE
    <3>1. n < n
      BY <2>2, DigitsOrdered
    <3> QED BY <1>1, <3>1
  <2> QED BY <2>1, <2>2
<1> QED BY <1>2

LEMMA DigitsFound ==
  ASSUME NEW r \in Nat, NEW c \in Nat \ {0}, NEW n, Below(n, r, c)
  PROVE  n \div c \in 0 .. r - 1 /\ n % c \in 0 .. c - 1 /\ Digits(n, n \div c, c, n % c)
<1>1. r * c \in Nat /\ n \in Nat /\ n < r * c
  BY DEF Below
<1>2. PICK i \in Nat, j \in 0 .. c - 1 : i = n \div c /\ j = n % c /\ n = c * i + j
  BY <1>1, Euclid
<1>3. n = i * c + j
  BY <1>2
<1>4. i < r
  <2>1. CASE r <= i
    <3>1. r * c <= i * c /\ r * c \in Nat /\ i * c \in Nat
      BY <2>1, Monotone
    <3> QED BY <1>1, <1>3, <3>1
  <2> QED BY <2>1
<1>5. n \div c = i /\ n % c = j
  BY <1>2
<1>6. Digits(n, i, c, j)
  BY <1>3 DEF Digits
<1> QED BY <1>4, <1>5, <1>6

\* The place of row i and column j of s columns, the rows one after another.
At(s, i, j) == i * s + j + 1

\* ix tells the places of a rectangle of h rows and v columns, row by row; place p of
\* it is in row up[p] and column along[p].
RectangleOf(ix, s, h, v, top, left, up, along) ==
  /\ h * v \in Nat /\ DOMAIN ix = 1 .. h * v /\ ix = [p \in 1 .. h * v |-> ix[p]]
  /\ \A p \in 1 .. h * v : /\ up[p] \in 0 .. h - 1 /\ along[p] \in 0 .. v - 1
                           /\ Digits(p - 1, up[p], v, along[p])
                           /\ ix[p] = At(s, top + up[p], left + along[p])

\* Where the s rows are in bands of h, and the s columns in lanes of v.
Banded(band, s, a, h) ==
  \A i \in 0 .. s - 1 : band[i] \in 0 .. a - 1 /\ \E j \in 0 .. h - 1 : Digits(i, band[i], h, j)

LEMMA BandOf ==
  ASSUME NEW a \in Nat, NEW h \in Nat, NEW s \in Nat, s = a * h,
         NEW band, Banded(band, s, a, h), NEW x \in 0 .. a - 1, NEW top, Digits(top, x, h, 0)
  PROVE  \A i \in 0 .. h - 1 : top + i \in 0 .. s - 1 /\ band[top + i] = x
<1> TAKE i \in 0 .. h - 1
<1>1. Digits(top + i, x, h, i) /\ top \in Nat
  BY DEF Digits
<1>2. top + i \in 0 .. s - 1
  <2>1. PICK n : n = top + i
    OBVIOUS
  <2>2. Below(n, a, h) /\ n \in Nat
    BY <1>1, <2>1, DigitsBelow
  <2> QED BY <2>1, <2>2 DEF Below
<1>3. PICK j \in 0 .. h - 1 : band[top + i] \in 0 .. a - 1 /\ Digits(top + i, band[top + i], h, j)
  BY <1>2 DEF Banded
<1>4. PICK n \in Nat, y \in Nat : n = top + i /\ y = band[top + i]
  BY <1>1, <1>3
<1>5. y = x
  BY <1>1, <1>3, <1>4, SameDigits
<1> QED BY <1>2, <1>4, <1>5

OfWorker(mine, cw, q, w) == mine = {k \in 1 .. q : cw[k] = w}

\* A grid of a times b workers, with rectangles of h rows and v columns of s times s.
WorkerGrid(s, a, b, h, v, band, lane, cw) ==
  /\ a \in Nat /\ b \in Nat /\ h \in Nat /\ v \in Nat \ {0} /\ s \in Nat \ {0}
  /\ s = a * h /\ s = b * v /\ Banded(band, s, a, h) /\ Banded(lane, s, b, v)
  /\ \A i, j \in 0 .. s - 1 : Digits(cw[At(s, i, j)], band[i], b, lane[j])

\* Worker w is in row x and column y of it.
Corner(a, b, h, v, w, x, y, top, left) ==
  /\ x \in 0 .. a - 1 /\ y \in 0 .. b - 1
  /\ Digits(top, x, h, 0) /\ Digits(left, y, v, 0) /\ Digits(w, x, b, y)

\* The cells of a worker are told by its rectangle.
LEMMA RectangleTold ==
  ASSUME NEW a, NEW b, NEW h, NEW v, NEW s, NEW band, NEW lane, NEW cw,
         WorkerGrid(s, a, b, h, v, band, lane, cw),
         NEW x, NEW y, NEW top, NEW left, NEW w, Corner(a, b, h, v, w, x, y, top, left),
         NEW ix, NEW up, NEW along, RectangleOf(ix, s, h, v, top, left, up, along),
         NEW m, m = h * v, NEW q, q = s * s, NEW mine, OfWorker(mine, cw, q, w)
  PROVE  Enumerates(ix, m, q, mine)
<1> USE DEF WorkerGrid, Corner
<1>1. m = h * v /\ m \in Nat
  OBVIOUS
<1>2. q = s * s /\ q \in Nat
  OBVIOUS
<1>3. /\ DOMAIN ix = 1 .. m /\ ix = [p \in 1 .. m |-> ix[p]]
      /\ \A p \in 1 .. m : /\ up[p] \in 0 .. h - 1 /\ along[p] \in 0 .. v - 1
                           /\ Digits(p - 1, up[p], v, along[p])
                           /\ ix[p] = At(s, top + up[p], left + along[p])
  BY <1>1 DEF RectangleOf
<1>4. /\ top \in Nat /\ left \in Nat
      /\ \A i \in 0 .. h - 1 : top + i \in 0 .. s - 1 /\ band[top + i] = x
      /\ \A j \in 0 .. v - 1 : left + j \in 0 .. s - 1 /\ lane[left + j] = y
  <2>1. top \in Nat /\ left \in Nat
    BY DEF Digits
  <2>3. \A i \in 0 .. h - 1 : top + i \in 0 .. s - 1 /\ band[top + i] = x
    BY BandOf
  <2>4. \A j \in 0 .. v - 1 : left + j \in 0 .. s - 1 /\ lane[left + j] = y
    BY BandOf
  <2> QED BY <2>1, <2>3, <2>4
<1>5. \A i, j \in 0 .. s - 1 : At(s, i, j) \in 1 .. q /\ Digits(At(s, i, j) - 1, i, s, j)
  <2> TAKE i, j \in 0 .. s - 1
  <2>1. PICK n : n = i * s + j
    OBVIOUS
  <2>2. Digits(n, i, s, j)
    BY <2>1 DEF Digits
  <2>3. Below(n, s, s) /\ n \in Nat
    BY <2>2, DigitsBelow
  <2>4. n \in 0 .. q - 1
    BY <1>2, <2>3 DEF Below
  <2>5. At(s, i, j) = n + 1
    BY <2>1 DEF At
  <2>6. At(s, i, j) - 1 = n
    BY <2>4, <2>5
  <2> QED BY <2>2, <2>4, <2>5, <2>6
<1>6. ix \in [1 .. m -> 1 .. q]
  <2>1. ASSUME NEW p \in 1 .. m PROVE ix[p] \in 1 .. q
    <3>1. PICK i \in 0 .. s - 1, j \in 0 .. s - 1 : i = top + up[p] /\ j = left + along[p]
      BY <1>3, <1>4
    <3>2. ix[p] = At(s, i, j)
      BY <1>3, <3>1
    <3> QED BY <1>5, <3>2
  <2> QED BY <1>3, <2>1
<1>7. ASSUME NEW p \in 1 .. m, NEW r \in 1 .. m, p < r
      PROVE  ix[p] < ix[r]
  <2>1. PICK i \in 0 .. h - 1, j \in 0 .. v - 1 :
          Digits(p - 1, i, v, j) /\ ix[p] = At(s, top + i, left + j)
    BY <1>3
  <2>2. PICK k \in 0 .. h - 1, n \in 0 .. v - 1 :
          Digits(r - 1, k, v, n) /\ ix[r] = At(s, top + k, left + n)
    BY <1>3
  <2>3. PICK c \in Int, d \in Int : c = p - 1 /\ d = r - 1 /\ c < d
    BY <1>7
  <2>4. ~ (k < i) /\ ~ (k = i /\ n <= j)
    <3>1. ASSUME k < i \/ (k = i /\ n < j) PROVE d < c
      <4>1. Digits(c, i, v, j) /\ Digits(d, k, v, n)
        BY <2>1, <2>2, <2>3
      <4>2. k \in Nat /\ i \in Nat
        OBVIOUS
      <4>3. CASE k < i
        BY <4>1, <4>2, <4>3, DigitsOrdered
      <4>4. CASE k = i /\ n < j
        BY <4>1, <4>2, <4>4, DigitsOrdered
      <4> QED BY <3>1, <4>3, <4>4
    <3>2. k = i /\ n = j => c = d
      BY <2>1, <2>2, <2>3 DEF Digits
    <3> QED BY <2>3, <3>1, <3>2
  <2>5. PICK f \in Nat, g \in 0 .. s - 1, ff \in Nat, gg \in 0 .. s - 1 :
          /\ f = top + i /\ g = left + j /\ ff = top + k /\ gg = left + n
          /\ f \in 0 .. s - 1 /\ ff \in 0 .. s - 1
    BY <1>4
  <2>6. f < ff \/ (f = ff /\ g < gg)
    BY <1>4, <2>4, <2>5
  <2>7. Digits(At(s, f, g) - 1, f, s, g) /\ Digits(At(s, ff, gg) - 1, ff, s, gg)
    BY <1>5, <2>5
  <2>8. At(s, f, g) - 1 < At(s, ff, gg) - 1
    BY <2>6, <2>7, DigitsOrdered
  <2>9. ix[p] = At(s, f, g) /\ ix[r] = At(s, ff, gg)
    BY <2>1, <2>2, <2>5
  <2>10. ix[p] \in Int /\ ix[r] \in Int
    BY <1>6
  <2> QED BY <2>8, <2>9, <2>10
<1>8. ASSUME NEW p \in 1 .. m PROVE cw[ix[p]] = w /\ ix[p] \in 1 .. q
  <2>1. PICK i \in 0 .. h - 1, j \in 0 .. v - 1 : ix[p] = At(s, top + i, left + j)
    BY <1>3
  <2>2. Digits(cw[At(s, top + i, left + j)], x, b, y)
    BY <1>4
  <2>3. cw[ix[p]] = w
    BY <2>1, <2>2 DEF Digits
  <2> QED BY <1>6, <2>3
<1>9. ASSUME NEW k \in 1 .. q, cw[k] = w
      PROVE  \E p \in 1 .. m : ix[p] = k
  <2>1. Below(k - 1, s, s)
    BY <1>2 DEF Below
  <2>2. PICK i \in 0 .. s - 1, j \in 0 .. s - 1 : Digits(k - 1, i, s, j)
    BY <2>1, DigitsFound
  <2>3. k = At(s, i, j)
    <3>1. i * s \in Int
      OBVIOUS
    <3> QED BY <2>2, <3>1 DEF At, Digits
  <2>4. PICK d \in 0 .. h - 1 : band[i] \in 0 .. a - 1 /\ Digits(i, band[i], h, d)
    BY DEF Banded
  <2>5. PICK f \in 0 .. v - 1 : lane[j] \in 0 .. b - 1 /\ Digits(j, lane[j], v, f)
    BY DEF Banded
  <2>6. Digits(w, band[i], b, lane[j])
    BY <1>9, <2>3
  <2>7. band[i] = x /\ lane[j] = y
    BY <2>4, <2>5, <2>6, SameDigits
  <2>8. i = top + d /\ j = left + f
    BY <2>4, <2>5, <2>7 DEF Digits
  <2>9. PICK r : Digits(r, d, v, f)
    BY DEF Digits
  <2>10. Below(r, h, v)
    BY <2>9, DigitsBelow
  <2>11. PICK p \in 1 .. m : p - 1 = r
    <3>1. r \in 0 .. m - 1
      BY <1>1, <2>10 DEF Below
    <3>2. r + 1 \in 1 .. m /\ (r + 1) - 1 = r
      BY <3>1
    <3> QED BY <3>2
  <2>12. up[p] = d /\ along[p] = f
    <3>1. PICK g \in 0 .. h - 1, e \in 0 .. v - 1 : g = up[p] /\ e = along[p] /\ Digits(r, g, v, e)
      BY <1>3, <2>11
    <3> QED BY <2>9, <3>1, SameDigits
  <2> QED BY <1>3, <2>3, <2>8, <2>12
<1>10. {ix[p] : p \in 1 .. m} = mine
  BY <1>8, <1>9 DEF OfWorker
<1> QED BY <1>6, <1>7, <1>10 DEF Enumerates

\* The grid cuts rows and columns evenly.
LEMMA EvenCut ==
  ASSUME NEW s \in Nat \ {0}, NEW n, NEW rows, NEW columns, Grid(n, rows, columns), s % rows = 0
  PROVE  /\ s = rows * (s \div rows) /\ s \div rows \in Nat \ {0}
         /\ s = columns * (s \div columns) /\ s \div columns \in Nat \ {0}
<1>1. PICK r \in Nat \ {0}, c \in Nat \ {0} :
        r = rows /\ c = columns /\ r \in {c, 2 * c} /\ s % r = 0
  BY DEF Grid
<1>2. PICK m \in Nat : m = s \div r /\ s = r * m
  <2>1. s \div r \in Nat /\ s = r * (s \div r) + (s % r)
    BY Euclid
  <2>2. r * (s \div r) \in Nat /\ s % r = 0
    BY <1>1, <2>1
  <2>3. s = r * (s \div r)
    BY <2>1, <2>2
  <2> QED BY <2>1, <2>3
<1>3. m # 0
  BY <1>2
<1>4. PICK q \in Nat \ {0} : q = (IF r = c THEN m ELSE 2 * m)
  BY <1>3
<1>5. r * m = c * q
  <2>1. CASE r = c
    BY <1>4, <2>1
  <2>2. CASE r # c
    <3>1. r = 2 * c /\ q = 2 * m
      BY <1>1, <1>4, <2>2
    <3> QED BY <3>1
  <2> QED BY <2>1, <2>2
<1>6. s = c * q /\ c * q \in Nat
  BY <1>2, <1>5
<1>7. s \div c = q
  <2>1. s = c * q + 0
    BY <1>6
  <2> QED BY <2>1, DivisionIs
<1> QED BY <1>1, <1>2, <1>3, <1>6, <1>7

LEMMA BandedBy ==
  ASSUME NEW s \in Nat, NEW a \in Nat, NEW h \in Nat \ {0}, s = a * h,
         NEW band, band = [i \in 0 .. s - 1 |-> i \div h]
  PROVE  Banded(band, s, a, h)
<1>1. ASSUME NEW i \in 0 .. s - 1
      PROVE  band[i] \in 0 .. a - 1 /\ \E j \in 0 .. h - 1 : Digits(i, band[i], h, j)
  <2>1. Below(i, a, h)
    BY DEF Below
  <2>2. i \div h \in 0 .. a - 1 /\ i % h \in 0 .. h - 1 /\ Digits(i, i \div h, h, i % h)
    BY <2>1, DigitsFound
  <2>3. band[i] = i \div h
    OBVIOUS
  <2> QED BY <2>2, <2>3
<1> QED BY <1>1 DEF Banded

\* Who has a cell.
LEMMA CellWritersAre ==
  ASSUME NEW s \in Nat \ {0}, NEW n, NEW rows, NEW columns, Grid(n, rows, columns),
         NEW workers, workers = [k \in 1 .. s * s |-> CellWriter(s, n, (k - 1) \div s, (k - 1) % s)],
         NEW i \in 0 .. s - 1, NEW j \in 0 .. s - 1
  PROVE  Digits(workers[At(s, i, j)], i \div (s \div rows), columns, j \div (s \div columns))
<1>1. PICK k : k = i * s + j
  OBVIOUS
<1>2. Digits(k, i, s, j)
  BY <1>1 DEF Digits
<1>3. Below(k, s, s) /\ k \in Nat /\ k \div s = i /\ k % s = j
  BY <1>2, DigitsBelow, DigitsAre
<1>4. PICK m \in 1 .. s * s : m = k + 1 /\ m - 1 = k
  <2>1. PICK q \in Nat : q = s * s
    OBVIOUS
  <2>2. k \in 0 .. q - 1
    BY <1>3, <2>1 DEF Below
  <2>3. k + 1 \in 1 .. q /\ (k + 1) - 1 = k
    BY <2>2
  <2> QED BY <2>1, <2>3
<1>5. workers[m] = CellWriter(s, n, i, j)
  BY <1>3, <1>4
<1>6. At(s, i, j) = m
  BY <1>1, <1>4 DEF At
<1>7. CellWriter(s, n, i, j)
        = (i \div (s \div rows)) * columns + (j \div (s \div columns))
  BY DEF CellWriter, Grid
<1> QED BY <1>5, <1>6, <1>7 DEF Digits

\* Each worker has the cells of its rectangle.
CellsCut(writes, s, rows, columns, cells) ==
  \A i, j \in 0 .. s - 1 :
    LET height == s \div rows
        width == s \div columns
        worker == (i \div height) * columns + (j \div width)
    IN  ItemsOf(writes, "expected", worker)[((i % height) * width) + (j % width) + 1]
          = cells[At(s, i, j)]

LEMMA RectangleExists ==
  ASSUME NEW s, NEW h \in Nat, NEW v \in Nat \ {0}, NEW top, NEW left
  PROVE  \E ix, up, along : RectangleOf(ix, s, h, v, top, left, up, along)
<1>1. PICK m \in Nat : m = h * v
  OBVIOUS
<1>2. PICK up, along, ix :
        /\ up = [q \in 1 .. m |-> (q - 1) \div v] /\ along = [q \in 1 .. m |-> (q - 1) % v]
        /\ ix = [q \in 1 .. m |-> At(s, top + up[q], left + along[q])]
  OBVIOUS
<1>3. ASSUME NEW q \in 1 .. m
      PROVE  up[q] \in 0 .. h - 1 /\ along[q] \in 0 .. v - 1 /\ Digits(q - 1, up[q], v, along[q])
  <2>1. Below(q - 1, h, v)
    BY <1>1 DEF Below
  <2>2. /\ (q - 1) \div v \in 0 .. h - 1 /\ (q - 1) % v \in 0 .. v - 1
        /\ Digits(q - 1, (q - 1) \div v, v, (q - 1) % v)
    BY <2>1, DigitsFound
  <2>3. up[q] = (q - 1) \div v /\ along[q] = (q - 1) % v
    BY <1>2
  <2> QED BY <2>2, <2>3
<1>4. /\ DOMAIN ix = 1 .. m /\ ix = [q \in 1 .. m |-> ix[q]]
      /\ \A q \in 1 .. m : ix[q] = At(s, top + up[q], left + along[q])
  BY <1>2
<1>5. RectangleOf(ix, s, h, v, top, left, up, along)
  BY <1>1, <1>3, <1>4 DEF RectangleOf
<1> QED BY <1>5

DealtOut(deal, kind, workers, values, l) ==
  \A k \in 1 .. l : /\ deal[k].kind = kind /\ deal[k].worker = workers[k]
                    /\ deal[k].value = values[k]

LEMMA DealFields ==
  ASSUME NEW kind, NEW workers, NEW values, List(values), NEW l, l = Len(values),
         NEW deal, deal = Deal(kind, workers, values)
  PROVE  DealtOut(deal, kind, workers, values, l)
<1>1. ASSUME NEW k \in 1 .. l
      PROVE  /\ deal[k].kind = kind /\ deal[k].worker = workers[k]
             /\ deal[k].value = values[k]
  <2>1. deal[k] = [kind |-> kind, worker |-> workers[k], value |-> values[k]]
    BY DealIs
  <2> QED BY <2>1
<1> QED BY <1>1 DEF DealtOut

\* Item p of worker w, counted from 0, is the cell in row i and column j.
PlaceOf(b, h, v, band, lane, i, j, w, p) ==
  /\ Digits(w, band[i], b, lane[j])
  /\ \E d \in 0 .. h - 1, c \in 0 .. v - 1 :
       Digits(i, band[i], h, d) /\ Digits(j, lane[j], v, c) /\ Digits(p, d, v, c)

\* A worker has the cells of its rectangle, row by row.
LEMMA CellFound ==
  ASSUME NEW a, NEW b, NEW h, NEW v, NEW s, NEW band, NEW lane, NEW workers,
         WorkerGrid(s, a, b, h, v, band, lane, workers),
         NEW cells, List(cells), Len(cells) = s * s, NEW kind,
         NEW i \in 0 .. s - 1, NEW j \in 0 .. s - 1, NEW w, NEW p,
         PlaceOf(b, h, v, band, lane, i, j, w, p)
  PROVE  ItemsOf(Deal(kind, workers, cells), kind, w)[p + 1] = cells[At(s, i, j)]
<1>1. /\ a \in Nat /\ b \in Nat /\ h \in Nat /\ v \in Nat \ {0} /\ s \in Nat \ {0}
      /\ s = a * h /\ s = b * v
  BY DEF WorkerGrid
<1>2. PICK x \in 0 .. a - 1, y \in 0 .. b - 1 : x = band[i] /\ y = lane[j]
  BY DEF Banded, WorkerGrid
<1>3. PICK d \in 0 .. h - 1, c \in 0 .. v - 1 :
         Digits(i, x, h, d) /\ Digits(j, y, v, c) /\ Digits(p, d, v, c)
  BY <1>2 DEF PlaceOf
<1>4. PICK top, left : /\ Digits(top, x, h, 0) /\ Digits(left, y, v, 0)
                        /\ i = top + d /\ j = left + c
  <2>1. PICK top \in Int : top = x * h
    BY <1>1
  <2>2. PICK left \in Int : left = y * v
    BY <1>1
  <2>3. Digits(top, x, h, 0) /\ i = top + d
    BY <1>1, <1>3, <2>1 DEF Digits
  <2>4. Digits(left, y, v, 0) /\ j = left + c
    BY <1>1, <1>3, <2>2 DEF Digits
  <2> QED BY <2>3, <2>4
<1>5. Corner(a, b, h, v, w, x, y, top, left)
  BY <1>2, <1>4 DEF Corner, PlaceOf
<1>6. PICK ix, up, along : RectangleOf(ix, s, h, v, top, left, up, along)
  BY <1>1, RectangleExists
<1>7. PICK m \in Nat, l \in Nat : m = h * v /\ l = s * s
  BY <1>1
<1>8. PICK deal : deal = Deal(kind, workers, cells)
  OBVIOUS
<1>9. List(deal) /\ Len(deal) = l
  BY <1>7, <1>8, DealIs
<1>10. \A k \in 1 .. l : /\ deal[k].kind = kind /\ deal[k].worker = workers[k]
                        /\ deal[k].value = cells[k]
  <2>1. l = Len(cells)
    BY <1>7
  <2>2. DealtOut(deal, kind, workers, cells, l)
    BY <1>8, <2>1, DealFields
  <2> QED BY <2>2 DEF DealtOut
<1>11. PICK mine : OfWorker(mine, workers, l, w)
  BY DEF OfWorker
<1>12. Enumerates(ix, m, l, mine)
  BY <1>6, <1>7, <1>11, <1>5, RectangleTold
<1>13. Enumerates(ix, m, Len(deal), {k \in 1 .. Len(deal) : deal[k].kind = kind /\ deal[k].worker = w})
  <2>1. mine = {k \in 1 .. Len(deal) : deal[k].kind = kind /\ deal[k].worker = w}
    BY <1>9, <1>10, <1>11 DEF OfWorker
  <2> QED BY <1>9, <1>12, <2>1
<1>14. ItemsOf(deal, kind, w) = [q \in 1 .. m |-> deal[ix[q]].value]
  BY <1>9, <1>13, ItemsEnumerated
<1>15. Below(p, h, v) /\ p \in Nat
  BY <1>1, <1>3, DigitsBelow
<1>16. PICK q \in 1 .. m : q = p + 1 /\ q - 1 = p
  <2>1. p \in 0 .. m - 1
    BY <1>7, <1>15 DEF Below
  <2>2. p + 1 \in 1 .. m /\ (p + 1) - 1 = p
    BY <2>1
  <2> QED BY <2>2
<1>17. ix[q] = At(s, i, j)
  <2>1. PICK e \in 0 .. h - 1, f \in 0 .. v - 1 :
          e = up[q] /\ f = along[q] /\ Digits(p, e, v, f) /\ ix[q] = At(s, top + e, left + f)
    BY <1>6, <1>7, <1>16 DEF RectangleOf
  <2>2. e = d /\ f = c
    <3>1. e \in Nat /\ d \in Nat /\ v \in Nat
      BY <1>1
    <3>2. Digits(p, e, v, f) /\ Digits(p, d, v, c)
      BY <1>3, <2>1
    <3> QED BY <3>1, <3>2, SameDigits
  <2> QED BY <1>4, <2>1, <2>2
<1>18. ix[q] \in 1 .. l
  BY <1>12 DEF Enumerates
<1>19. ItemsOf(deal, kind, w)[q] = cells[At(s, i, j)]
  BY <1>10, <1>14, <1>17, <1>18
<1> QED BY <1>8, <1>16, <1>19

\* The workers of the cells, the only lot of a kind, and matrices the grid divides.
WritersOf(workers, s, n) ==
  workers = [k \in 1 .. s * s |-> CellWriter(s, n, (k - 1) \div s, (k - 1) % s)]
OnlyLot(writes, kind, workers, values) ==
  \A w : ItemsOf(writes, kind, w) = ItemsOf(Deal(kind, workers, values), kind, w)
EvenGrid(s, n, rows, columns) == Grid(n, rows, columns) /\ s % rows = 0

LEMMA CellsAreCut ==
  ASSUME NEW s \in Nat \ {0}, NEW n, NEW rows, NEW columns, EvenGrid(s, n, rows, columns),
         NEW workers, WritersOf(workers, s, n),
         NEW cells, List(cells), Len(cells) = s * s, NEW writes,
         OnlyLot(writes, "expected", workers, cells)
  PROVE  CellsCut(writes, s, rows, columns, cells)
<1>1. PICK h \in Nat \ {0}, v \in Nat \ {0} :
        h = s \div rows /\ v = s \div columns /\ s = rows * h /\ s = columns * v
  BY EvenCut DEF EvenGrid
<1>2. rows \in Nat /\ columns \in Nat
  BY DEF Grid, EvenGrid
<1>3. PICK band, lane : /\ band = [r \in 0 .. s - 1 |-> r \div h]
                        /\ lane = [r \in 0 .. s - 1 |-> r \div v]
  OBVIOUS
<1>4. Banded(band, s, rows, h) /\ Banded(lane, s, columns, v)
  BY <1>1, <1>2, <1>3, BandedBy
<1>5. \A i, j \in 0 .. s - 1 : Digits(workers[At(s, i, j)], band[i], columns, lane[j])
  <2> TAKE i, j \in 0 .. s - 1
  <2>1. Digits(workers[At(s, i, j)], i \div (s \div rows), columns, j \div (s \div columns))
    BY CellWritersAre DEF EvenGrid, WritersOf
  <2>2. i \div (s \div rows) = band[i] /\ j \div (s \div columns) = lane[j]
    BY <1>1, <1>3
  <2> QED BY <2>1, <2>2
<1>6. WorkerGrid(s, rows, columns, h, v, band, lane, workers)
  BY <1>1, <1>2, <1>4, <1>5 DEF WorkerGrid
<1>7. ASSUME NEW i \in 0 .. s - 1, NEW j \in 0 .. s - 1
      PROVE  ItemsOf(writes, "expected", (i \div h) * columns + (j \div v))
               [((i % h) * v) + (j % v) + 1] = cells[At(s, i, j)]
  <2>1. PICK w, p : w = (i \div h) * columns + (j \div v) /\ p = ((i % h) * v) + (j % v)
    OBVIOUS
  <2>2. PICK d, c : d = i % h /\ c = j % v
    OBVIOUS
  <2>3. Digits(w, band[i], columns, lane[j])
    BY <1>3, <2>1 DEF Digits
  <2>4. Digits(p, d, v, c)
    BY <2>1, <2>2 DEF Digits
  <2>5. Below(i, rows, h) /\ Below(j, columns, v)
    BY <1>1 DEF Below
  <2>6. Digits(i, band[i], h, d) /\ d \in 0 .. h - 1
    BY <1>2, <1>3, <2>2, <2>5, DigitsFound
  <2>7. Digits(j, lane[j], v, c) /\ c \in 0 .. v - 1
    BY <1>2, <1>3, <2>2, <2>5, DigitsFound
  <2>8. PICK kind : kind = "expected"
    OBVIOUS
  <2>9. PlaceOf(columns, h, v, band, lane, i, j, w, p)
    BY <2>3, <2>4, <2>6, <2>7 DEF PlaceOf
  <2>10. ItemsOf(Deal(kind, workers, cells), kind, w)[p + 1] = cells[At(s, i, j)]
    BY <1>6, <2>9, CellFound
  <2>11. ItemsOf(writes, kind, w) = ItemsOf(Deal(kind, workers, cells), kind, w)
    BY <2>8 DEF OnlyLot
  <2> QED BY <2>1, <2>8, <2>10, <2>11
<1> QED BY <1>1, <1>7 DEF CellsCut

\* Twice a square is no square.
LEMMA NoRoot == \A c, b \in Nat \ {0} : c * c # 2 * (b * b)
<1> DEFINE S == {c \in Nat \ {0} : \E b \in Nat \ {0} : c * c = 2 * (b * b)}
<1>1. SUFFICES ASSUME S # {} PROVE FALSE
  BY DEF S
<1>2. S \in SUBSET Nat
  BY DEF S
<1> HIDE DEF S
<1>3. PICK c \in S : \A x \in S : c <= x
  BY <1>1, <1>2, LeastOf
<1>4. PICK b \in Nat \ {0} : c \in Nat \ {0} /\ c * c = 2 * (b * b)
  BY DEF S
<1>5. PICK d \in Nat, r \in {0, 1} : c = 2 * d + r
  <2>1. c \div 2 \in Nat /\ c % 2 \in {0, 1} /\ c = 2 * (c \div 2) + (c % 2)
    BY <1>4
  <2> QED BY <2>1
<1>6. r = 0
  <2>1. SUFFICES ASSUME r = 1 PROVE FALSE
    OBVIOUS
  <2>2. PICK x \in Nat, y \in Nat : x = d * d /\ y = b * b
    OBVIOUS
  <2>3. c * c = 4 * x + 4 * d + 1
    BY <1>5, <2>1, <2>2
  <2> QED BY <1>4, <2>2, <2>3
<1>7. PICK x \in Nat, y \in Nat : x = d * d /\ y = b * b
  OBVIOUS
<1>8. c * c = 4 * x
  BY <1>5, <1>6, <1>7
<1>9. y = 2 * x
  BY <1>4, <1>7, <1>8
<1>10. d # 0
  BY <1>4, <1>5, <1>6
<1>11. b \in S
  BY <1>7, <1>9, <1>10 DEF S
<1>12. c <= b
  BY <1>3, <1>11
<1>13. c * c <= b * c /\ b * c <= b * b
  BY <1>4, <1>12, Monotone
<1>14. y > 0
  <2>1. x > 0
    BY <1>7, <1>10
  <2> QED BY <1>9, <2>1
<1>15. PICK z \in Int : z = b * c
  BY <1>4
<1> QED BY <1>7, <1>8, <1>9, <1>13, <1>14, <1>15

\* A number has one root.
LEMMA OneRoot ==
  ASSUME NEW c \in Nat \ {0}, NEW b \in Nat \ {0}, c * c = b * b
  PROVE  c = b
<1>1. ASSUME NEW x \in Nat \ {0}, NEW y \in Nat \ {0}, x < y PROVE x * x < y * y
  <2>1. (x + 1) * x <= y * x /\ y * x <= y * y /\ (x + 1) * x = x * x + x
    BY <1>1, Monotone
  <2>2. PICK p \in Int, q \in Int, r \in Int : p = x * x /\ q = y * x /\ r = y * y
    OBVIOUS
  <2> QED BY <2>1, <2>2
<1>2. ~ (c < b)
  <2>1. SUFFICES ASSUME c < b PROVE FALSE
    OBVIOUS
  <2>2. c * c < b * b
    BY <1>1, <2>1
  <2> QED BY <2>2
<1>3. ~ (b < c)
  <2>1. SUFFICES ASSUME b < c PROVE FALSE
    OBVIOUS
  <2>2. b * b < c * c
    BY <1>1, <2>1
  <2> QED BY <2>2
<1> QED BY <1>2, <1>3

\* A grid with as many rows as columns, or twice as many, is the one of the portions.
LEMMA OneGrid ==
  ASSUME NEW l \in Nat, NEW n, n = Power2[l], NEW rows \in Nat \ {0}, NEW columns \in Nat \ {0},
         rows * columns = n, rows \in {columns, 2 * columns}
  PROVE  Grid(n, rows, columns)
<1>1. PICK a \in Nat \ {0}, b \in Nat \ {0} :
        a = PortionsA(n) /\ b = PortionsB(n) /\ a * b = n /\ a \in {b, 2 * b}
  BY PortionsOfPower
<1>2. PICK x \in Nat, y \in Nat : x = columns * columns /\ y = b * b
  OBVIOUS
<1>3. (rows = columns /\ n = x) \/ (rows = 2 * columns /\ n = 2 * x)
  BY <1>2
<1>4. (a = b /\ n = y) \/ (a = 2 * b /\ n = 2 * y)
  BY <1>1, <1>2
<1>5. x # 2 * y /\ y # 2 * x
  BY <1>2, NoRoot
<1>6. x = y
  BY <1>3, <1>4, <1>5
<1>7. columns = b
  BY <1>2, <1>6, OneRoot
<1>8. rows = a
  BY <1>3, <1>4, <1>5, <1>6, <1>7
<1> QED BY <1>1, <1>7, <1>8 DEF Grid

\* The cells are the products of the rows of a and the rows of b.
CellsOf(problem, s, a, b, cells) ==
  /\ Listed(s * s, cells)
  /\ \A i, j \in 0 .. s - 1 :
       cells[At(s, i, j)] = ElementSum(problem, InnerTerms(s, RowOf(a, s, i + 1), RowOf(b, s, j + 1)))

ProductIn(problem, writes, n, s, a, b) ==
  \A rows, columns \in 1 .. n :
    rows * columns = n /\ rows \in {columns, 2 * columns} =>
      \A i, j \in 0 .. s - 1 :
        LET height == s \div rows
            width == s \div columns
            worker == (i \div height) * columns + (j \div width)
        IN  ItemsOf(writes, "expected", worker)[((i % height) * width) + (j % width) + 1]
              = ElementSum(problem, InnerTerms(s, RowOf(a, s, i + 1), RowOf(b, s, j + 1)))

\* Whole rows for each worker, or no item at all.
Divides(s, n) == s = 0 \/ s % PortionsA(n) = 0

LEMMA ProductFound ==
  ASSUME NEW s \in Nat, NEW l \in Nat, NEW n, n = Power2[l], Divides(s, n),
         NEW problem, NEW a, NEW b, NEW cells, CellsOf(problem, s, a, b, cells),
         NEW workers, WritersOf(workers, s, n),
         NEW writes, OnlyLot(writes, "expected", workers, cells)
  PROVE  ProductIn(problem, writes, n, s, a, b)
<1>1. ASSUME NEW rows \in 1 .. n, NEW columns \in 1 .. n, rows * columns = n,
             rows \in {columns, 2 * columns}, NEW i \in 0 .. s - 1, NEW j \in 0 .. s - 1
      PROVE  ItemsOf(writes, "expected", (i \div (s \div rows)) * columns + (j \div (s \div columns)))
               [((i % (s \div rows)) * (s \div columns)) + (j % (s \div columns)) + 1]
               = ElementSum(problem, InnerTerms(s, RowOf(a, s, i + 1), RowOf(b, s, j + 1)))
  <2>1. n \in Nat /\ rows \in Nat \ {0} /\ columns \in Nat \ {0} /\ s \in Nat \ {0}
    BY Power2Exceeds
  <2>2. Grid(n, rows, columns)
    BY <1>1, <2>1, OneGrid
  <2>3. EvenGrid(s, n, rows, columns)
    BY <2>1, <2>2 DEF EvenGrid, Divides, Grid
  <2>4. List(cells) /\ Len(cells) = s * s
    BY DEF CellsOf, Listed
  <2>5. CellsCut(writes, s, rows, columns, cells)
    BY <2>1, <2>3, <2>4, CellsAreCut
  <2>6. ItemsOf(writes, "expected", (i \div (s \div rows)) * columns + (j \div (s \div columns)))
          [((i % (s \div rows)) * (s \div columns)) + (j % (s \div columns)) + 1]
          = cells[At(s, i, j)]
    BY <2>5 DEF CellsCut
  <2> QED BY <2>6 DEF CellsOf
<1> QED BY <1>1 DEF ProductIn

\* The item of a row at which a place is.
LEMMA AtRow ==
  ASSUME NEW s \in Nat, NEW i \in 0 .. s - 1, NEW j \in 0 .. s - 1
  PROVE  /\ At(s, i, j) \in 1 .. s * s /\ At(s, i, j) = ((i + 1) - 1) * s + (j + 1)
         /\ At(s, i, j) - 1 \in Nat
         /\ (At(s, i, j) - 1) \div s = i /\ (At(s, i, j) - 1) % s = j
<1>1. PICK k : k = i * s + j
  OBVIOUS
<1>2. Digits(k, i, s, j)
  BY <1>1 DEF Digits
<1>3. Below(k, s, s) /\ k \in Nat /\ k \div s = i /\ k % s = j
  BY <1>2, DigitsBelow, DigitsAre
<1>4. At(s, i, j) = k + 1
  BY <1>1 DEF At
<1>5. At(s, i, j) - 1 = k
  BY <1>3, <1>4
<1>6. k + 1 \in 1 .. s * s
  <2>1. PICK q \in Nat : q = s * s
    OBVIOUS
  <2>2. k \in 0 .. q - 1
    BY <1>3, <2>1 DEF Below
  <2> QED BY <2>1, <2>2
<1>7. At(s, i, j) = ((i + 1) - 1) * s + (j + 1)
  <2>1. (i + 1) - 1 = i /\ i * s \in Nat
    OBVIOUS
  <2> QED BY <2>1 DEF At
<1> QED BY <1>3, <1>4, <1>5, <1>6, <1>7

LEMMA ProductCellsAre ==
  ASSUME NEW problem, NEW s \in Nat, NEW a, Listed(s * s, a), NEW b, Listed(s * s, b)
  PROVE  CellsOf(problem, s, a, b, ProductCells(problem, s, a, b))
<1>1. Listed(s * s, ProductCells(problem, s, a, b))
  BY ContentsListed
<1>2. ASSUME NEW i \in 0 .. s - 1, NEW j \in 0 .. s - 1
      PROVE  ProductCells(problem, s, a, b)[At(s, i, j)]
               = ElementSum(problem, InnerTerms(s, RowOf(a, s, i + 1), RowOf(b, s, j + 1)))
  <2>1. PICK k \in 1 .. s * s : k = At(s, i, j) /\ (k - 1) \div s = i /\ (k - 1) % s = j
    BY AtRow
  <2>2. ProductCells(problem, s, a, b)[k]
          = ElementSum(problem, [m \in 1 .. s |-> a[i * s + m] * b[j * s + m]])
    BY <2>1, Zenon DEF ProductCells
  <2>3. \A m \in 1 .. s : /\ RowOf(a, s, i + 1)[m] = a[i * s + m]
                          /\ RowOf(b, s, j + 1)[m] = b[j * s + m]
    <3> TAKE m \in 1 .. s
    <3>1. i + 1 \in 1 .. s /\ j + 1 \in 1 .. s /\ (i + 1) - 1 = i /\ (j + 1) - 1 = j
      OBVIOUS
    <3>2. /\ RowOf(a, s, i + 1)[m] = a[((i + 1) - 1) * s + m]
          /\ RowOf(b, s, j + 1)[m] = b[((j + 1) - 1) * s + m]
      BY <3>1, RowItem DEF RowOf
    <3> QED BY <3>1, <3>2
  <2>4. InnerTerms(s, RowOf(a, s, i + 1), RowOf(b, s, j + 1))
          = [m \in 1 .. s |-> a[i * s + m] * b[j * s + m]]
    BY <2>3 DEF InnerTerms
  <2> QED BY <2>1, <2>2, <2>4
<1> QED BY <1>1, <1>2 DEF CellsOf

LEMMA IdentityCellsAre ==
  ASSUME NEW problem, NEW s \in Nat
  PROVE  CellsOf(problem, s, Identity(s), Identity(s), Identity(s))
<1>1. Listed(s * s, Identity(s))
  BY ContentsListed
<1>2. Fits(problem, 0) /\ Fits(problem, 1)
  BY BatchAssumption DEF Fits
<1>3. ASSUME NEW i \in 0 .. s - 1, NEW j \in 0 .. s - 1
      PROVE  Identity(s)[At(s, i, j)]
               = ElementSum(problem, InnerTerms(s, RowOf(Identity(s), s, i + 1),
                                                   RowOf(Identity(s), s, j + 1)))
  <2>1. PICK p \in 1 .. s, q \in 1 .. s : p = i + 1 /\ q = j + 1
    OBVIOUS
  <2>2. PICK v : v = RowOf(Identity(s), s, q)
    OBVIOUS
  <2>3. \A k \in 1 .. s : v[k] = IF q = k THEN 1 ELSE 0
    <3> TAKE k \in 1 .. s
    <3>1. v[k] = Identity(s)[(q - 1) * s + k]
      BY <1>1, <2>2, RowItem DEF RowOf
    <3> QED BY <3>1, IdentityItem
  <2>4. Fits(problem, v[p])
    BY <1>2, <2>3
  <2>5. ElementSum(problem, InnerTerms(s, RowOf(Identity(s), s, p), v)) = v[p]
    BY <2>3, <2>4, IdentityTimes
  <2>6. At(s, i, j) = (p - 1) * s + q
    BY <2>1, AtRow
  <2>7. Identity(s)[At(s, i, j)] = IF p = q THEN 1 ELSE 0
    <3>1. Identity(s)[(p - 1) * s + q] = IF p = q THEN 1 ELSE 0
      BY IdentityItem
    <3> QED BY <2>6, <3>1
  <2> QED BY <2>1, <2>2, <2>3, <2>5, <2>7
<1> QED BY <1>1, <1>3 DEF CellsOf

LEMMA MatricesAreLots ==
  ASSUME NEW s \in Nat, NEW n, NEW owner, NEW a, NEW b, NEW cells,
         Listed(s * s, a), Listed(s * s, b), Listed(s * s, cells),
         NEW writes, writes = Matrices(s, n, owner, a, b, cells)
  PROVE  \E workers, blocks :
           /\ WritersOf(workers, s, n) /\ blocks = BlockedOf(n, s * s)
           /\ OfThree(writes, "garbler", blocks, a, owner, blocks, b, "expected", workers, cells)
<1> DEFINE workers == [k \in 1 .. s * s |-> CellWriter(s, n, (k - 1) \div s, (k - 1) % s)]
           blocks == BlockedOf(n, s * s)
<1>1. WritersOf(workers, s, n)
  BY DEF WritersOf
<1>2. OfThree(writes, "garbler", blocks, a, owner, blocks, b, "expected", workers, cells)
  BY Zenon DEF OfThree, Matrices, Listed
<1> HIDE DEF workers, blocks
<1>3. blocks = BlockedOf(n, s * s)
  BY DEF blocks
<1> QED BY <1>1, <1>2, <1>3

\* What the product's factors are told from: two parties' files, or one's.
FactorsOf(writes, n, owner, a, b) ==
  IF owner = "evaluator" THEN Merged(writes, "garbler", n) = a /\ Merged(writes, "evaluator", n) = b
  ELSE /\ FirstItems(writes, n, HalvesOf(writes, n)) = a
       /\ SecondItems(writes, n, HalvesOf(writes, n)) = b

LEMMA MatricesAnswer ==
  ASSUME NEW s \in Nat, NEW l \in Nat, NEW n, n = Power2[l], Divides(s, n), NEW problem,
         NEW a, NEW b, NEW cells, Listed(s * s, a), Listed(s * s, b),
         CellsOf(problem, s, a, b, cells), NEW owner \in {"garbler", "evaluator"},
         NEW writes, writes = Matrices(s, n, owner, a, b, cells)
  PROVE  ProductIn(problem, writes, n, s, a, b) /\ FactorsOf(writes, n, owner, a, b)
<1>1. Listed(s * s, cells)
  BY DEF CellsOf
<1>2. PICK workers, blocks :
        /\ WritersOf(workers, s, n) /\ blocks = BlockedOf(n, s * s)
        /\ OfThree(writes, "garbler", blocks, a, owner, blocks, b, "expected", workers, cells)
  BY <1>1, MatricesAreLots
<1>3. OnlyLot(writes, "expected", workers, cells)
  <2>1. ASSUME NEW w
        PROVE  ItemsOf(writes, "expected", w) = ItemsOf(Deal("expected", workers, cells), "expected", w)
    BY <1>2, ThreeLots
  <2> QED BY <2>1 DEF OnlyLot
<1>4. ProductIn(problem, writes, n, s, a, b)
  BY <1>2, <1>3, ProductFound
<1>5. n \in Nat \ {0}
  BY Power2Exceeds
<1>6. s * s \in Nat
  OBVIOUS
<1>7. CutLot(n, blocks, a) /\ CutLot(n, blocks, b)
  BY <1>2, <1>5, <1>6, BlockedLot DEF Listed
<1>8. CASE owner = "evaluator"
  <2>1. Merged(writes, "garbler", n) = a
    BY <1>2, <1>5, <1>7, <1>8, ThreeMerged
  <2>2. Merged(writes, "evaluator", n) = b
    BY <1>2, <1>5, <1>7, <1>8, ThreeMerged
  <2> QED BY <1>4, <1>8, <2>1, <2>2 DEF FactorsOf
<1>9. CASE owner = "garbler"
  <2>1. OfThree(writes, "garbler", blocks, a, "garbler", blocks, b, "expected", workers, cells)
    BY <1>2, <1>9
  <2>2. PICK m \in Nat : Len(a) = m /\ Len(b) = m
    BY <1>6 DEF Listed
  <2>3. /\ FirstItems(writes, n, HalvesOf(writes, n)) = a
        /\ SecondItems(writes, n, HalvesOf(writes, n)) = b
    BY <1>5, <1>7, <2>1, <2>2, HalvesOfGarbler
  <2> QED BY <1>4, <1>9, <2>3 DEF FactorsOf
<1> QED BY <1>8, <1>9

-----------------------------------------------------------------------------
(* Which contents each workload gets.                                      *)

LEMMA SortContents ==
  ASSUME NEW s \in Nat, NEW n, NEW option, NEW draw, NEW problem \in {"merge_sorted", "full_sort"},
         option = "random" => DrawnFor(problem, s, draw)
  PROVE  \E keys : Writes(problem, s, n, option, draw) = Sort(n, keys) /\ AllKeys(s, keys)
<1>1. PICK keys : /\ Writes(problem, s, n, option, draw) = Sort(n, keys)
                  /\ keys = IF problem = "full_sort" /\ option = "random" THEN draw.a ELSE MergeKeys(s)
  BY DEF Writes, MatrixPairs, MatrixVectors
<1>2. CASE problem = "full_sort" /\ option = "random"
  <2>1. keys \in Bijection(1 .. 2 * s, 0 .. 2 * s - 1)
    BY <1>1, <1>2 DEF DrawnFor
  <2>2. AllKeys(s, keys)
    BY <2>1, DrawnKeysAreAll
  <2> QED BY <1>1, <2>2
<1>3. CASE ~ (problem = "full_sort" /\ option = "random")
  <2>1. AllKeys(s, keys)
    BY <1>1, <1>3, MergeKeysAreAll
  <2> QED BY <1>1, <2>1
<1> QED BY <1>2, <1>3

\* The owner of the second factor.
OwnerOf(problem) ==
  IF problem \in {"matrix_multiply", "matrix_vector_multiply", "binary_fc_layer"}
  THEN "evaluator" ELSE "garbler"

LEMMA VectorContents ==
  ASSUME NEW s \in Nat, NEW n, NEW option, NEW draw,
         NEW problem \in MatrixVectors \cup {"binary_fc_layer"},
         option = "random" => DrawnFor(problem, s, draw)
  PROVE  \E a, v, sums :
           /\ Writes(problem, s, n, option, draw)
                = MatrixVector(s, n, OwnerOf(problem),
                               IF problem = "binary_fc_layer" THEN ByBatches(s, n)
                                                              ELSE BlockedOf(n, s),
                               a, v, sums)
           /\ VectorProblem(problem, s, a, v, sums)
<1> DEFINE workers == IF problem = "binary_fc_layer" THEN ByBatches(s, n) ELSE BlockedOf(n, s)
           fixed == IF problem = "binary_fc_layer" THEN [k \in 1 .. s |-> (k - 1) % 2]
                                                   ELSE CountingUp(problem, s)
           sums == IF problem = "binary_fc_layer" THEN RowMajorities(s, draw.a, draw.b)
                                                  ELSE RowProducts(problem, s, draw.a, draw.b)
           owner == OwnerOf(problem)
<1>1. Writes(problem, s, n, option, draw) =
        IF option = "random" THEN MatrixVector(s, n, owner, workers, draw.a, draw.b, sums)
                             ELSE MatrixVector(s, n, owner, workers, Identity(s), fixed, fixed)
  <2>1. CASE problem = "binary_fc_layer"
    BY <2>1 DEF Writes, MatrixPairs, MatrixVectors, OwnerOf
  <2>2. CASE problem \in MatrixVectors
    BY <2>2 DEF Writes, MatrixPairs, MatrixVectors, OwnerOf
  <2> QED BY <2>1, <2>2
<1>2. VectorProblem(problem, s, Identity(s), fixed, fixed)
  <2>1. CASE problem = "binary_fc_layer"
    <3>1. PICK par : par = [k \in 1 .. s |-> (k - 1) % 2]
      OBVIOUS
    <3>2. Listed(s, par)
      BY <3>1, ContentsListed
    <3>3. Alternating(s, par)
      BY <3>1, ParityAlternates, Zenon
    <3>4. VectorProblem("binary_fc_layer", s, Identity(s), par, par)
      BY <3>2, <3>3, ParityLayerAnswer
    <3>5. fixed = par
      BY <2>1, <3>1
    <3> QED BY <2>1, <3>4, <3>5
  <2>2. CASE problem \in MatrixVectors /\ problem # "binary_fc_layer"
    BY <2>2, CountingUpAnswer
  <2> QED BY <2>1, <2>2
<1>3. ASSUME option = "random"
      PROVE  VectorProblem(problem, s, draw.a, draw.b, sums)
  <2>1. CASE problem = "binary_fc_layer"
    <3>1. draw.a \in [1 .. s * s -> {0, 1}] /\ draw.b \in [1 .. s -> {0, 1}]
      BY <1>3, <2>1 DEF DrawnFor
    <3>2. VectorProblem("binary_fc_layer", s, draw.a, draw.b, RowMajorities(s, draw.a, draw.b))
      BY <3>1, DrawnLayerAnswer
    <3> QED BY <2>1, <3>2
  <2>2. CASE problem \in MatrixVectors /\ problem # "binary_fc_layer"
    <3>1. PICK S : draw.a \in [1 .. s * s -> S] /\ draw.b \in [1 .. s -> S]
      BY <1>3, <2>2 DEF DrawnFor
    <3>2. s * s \in Nat
      OBVIOUS
    <3>3. Listed(s * s, draw.a) /\ Listed(s, draw.b)
      BY <3>1, <3>2, DrawnIsList DEF Listed
    <3>4. VectorProblem(problem, s, draw.a, draw.b, RowProducts(problem, s, draw.a, draw.b))
      BY <2>2, <3>3, DrawnVectorAnswer
    <3> QED BY <2>2, <3>4
  <2> QED BY <2>1, <2>2
<1> HIDE DEF fixed, sums, owner, workers
<1>4. \E a, v, u : /\ Writes(problem, s, n, option, draw)
                        = MatrixVector(s, n, owner, workers, a, v, u)
                   /\ VectorProblem(problem, s, a, v, u)
  <2>1. CASE option = "random"
    BY <1>1, <1>3, <2>1, Zenon
  <2>2. CASE option # "random"
    BY <1>1, <1>2, <2>2, Zenon
  <2> QED BY <2>1, <2>2
<1> QED BY <1>4, Zenon DEF owner, workers

LEMMA ProductContents ==
  ASSUME NEW s \in Nat, NEW n, NEW option, NEW draw, NEW problem \in MatrixPairs,
         option = "random" => DrawnFor(problem, s, draw)
  PROVE  \E a, b, cells :
           /\ Writes(problem, s, n, option, draw) = Matrices(s, n, OwnerOf(problem), a, b, cells)
           /\ Listed(s * s, a) /\ Listed(s * s, b) /\ CellsOf(problem, s, a, b, cells)
<1> DEFINE owner == OwnerOf(problem)
<1>1. Writes(problem, s, n, option, draw) =
        IF option = "random"
        THEN Matrices(s, n, owner, draw.a, draw.b, ProductCells(problem, s, draw.a, draw.b))
        ELSE Matrices(s, n, owner, Identity(s), Identity(s), Identity(s))
  BY DEF Writes, MatrixPairs, MatrixVectors, OwnerOf
<1> HIDE DEF owner
<1>2. CASE option = "random"
  <2>1. PICK S : draw.a \in [1 .. s * s -> S] /\ draw.b \in [1 .. s * s -> S]
    BY <1>2 DEF DrawnFor
  <2>2. Listed(s * s, draw.a) /\ Listed(s * s, draw.b)
    <3>1. s * s \in Nat
      OBVIOUS
    <3> QED BY <2>1, <3>1, DrawnIsList DEF Listed
  <2>3. CellsOf(problem, s, draw.a, draw.b, ProductCells(problem, s, draw.a, draw.b))
    BY <2>2, ProductCellsAre
  <2> QED BY <1>1, <1>2, <2>2, <2>3, Zenon DEF owner
<1>3. CASE option # "random"
  <2>1. Listed(s * s, Identity(s))
    BY ContentsListed
  <2>2. CellsOf(problem, s, Identity(s), Identity(s), Identity(s))
    BY IdentityCellsAre
  <2> QED BY <1>1, <1>3, <2>1, <2>2, Zenon DEF owner
<1> QED BY <1>2, <1>3

\* Every other workload has one way to write.
LEMMA PlainContents ==
  ASSUME NEW s \in Nat, NEW n, NEW option, NEW draw, NEW problem
  PROVE  LET writes == Writes(problem, s, n, option, draw)
         IN  /\ problem \in {"aspirin", "aspirin_seq"} => writes = Aspirin(s, n)
             /\ problem = "password" => \E hash : writes = Password(s, n, hash)
             /\ problem = "loop_join" => writes = LoopJoin(s, n)
             /\ problem = "real_cpir" => writes = Cpir(s, n)
             /\ problem = "real_sum" => writes = RealSum(s, n)
             /\ problem = "real_statistics" => writes = RealStatistics(s, n)
             /\ problem = "real_vector_multiply" => writes = RealVectorMultiply(s, n)
<1>1. CASE problem \in {"aspirin", "aspirin_seq", "loop_join", "real_cpir", "real_sum", "real_statistics",
                        "real_vector_multiply"}
  BY <1>1 DEF Writes, MatrixPairs, MatrixVectors
<1>2. CASE problem = "password"
  BY <1>2 DEF Writes, MatrixPairs, MatrixVectors
<1> QED BY <1>1, <1>2

\* Whole batches of the layer's inputs go where their results go.
LEMMA BatchesLot ==
  ASSUME NEW s \in Nat, NEW n \in Nat \ {0}, s % BatchSize = 0, NEW v, Listed(s, v)
  PROVE  CutLot(n, ByBatches(s, n), v)
<1>1. PICK t \in Nat : t = s \div BatchSize
  BY BatchAssumption
<1>2. s = BatchSize * t
  BY <1>1, BatchAssumption
<1>3. \A k \in 1 .. s : ByBatches(s, n)[k] = Blocked((k - 1) \div BatchSize, n, t)
  BY <1>1 DEF ByBatches
<1>4. PICK workers : workers = ByBatches(s, n)
  OBVIOUS
<1>5. PICK b \in Nat : b = BatchSize
  BY BatchAssumption
<1>6. /\ Len(v) = b * t
      /\ \A k \in 1 .. b * t : workers[k] = Blocked((k - 1) \div b, n, t)
  BY <1>2, <1>3, <1>4, <1>5 DEF Listed
<1>7. List(v)
  BY DEF Listed
<1>8. CutLot(n, workers, v)
  BY <1>5, <1>6, <1>7, WholeRowsLot
<1> QED BY <1>4, <1>8

LEMMA WorkerOfCell ==
  ASSUME NEW s \in Nat \ {0}, NEW n \in Nat, NEW rows, NEW columns, EvenGrid(s, n, rows, columns),
         NEW i \in 0 .. s - 1, NEW j \in 0 .. s - 1
  PROVE  (i \div (s \div rows)) * columns + (j \div (s \div columns)) \in 0 .. n - 1
<1>1. PICK h \in Nat \ {0}, v \in Nat \ {0} :
        h = s \div rows /\ v = s \div columns /\ s = rows * h /\ s = columns * v
  BY EvenCut DEF EvenGrid
<1>2. rows \in Nat /\ columns \in Nat /\ rows * columns = n
  BY DEF Grid, EvenGrid
<1>3. Below(i, rows, h) /\ Below(j, columns, v)
  BY <1>1 DEF Below
<1>4. PICK p, q : p = i \div h /\ q = j \div v
  OBVIOUS
<1>5. p \in 0 .. rows - 1 /\ q \in 0 .. columns - 1
  BY <1>2, <1>3, <1>4, DigitsFound
<1>6. PICK w : w = p * columns + q
  OBVIOUS
<1>7. Digits(w, p, columns, q)
  BY <1>6 DEF Digits
<1>8. Below(w, rows, columns)
  BY <1>2, <1>5, <1>7, DigitsBelow
<1>9. w \in 0 .. n - 1
  BY <1>2, <1>8 DEF Below
<1> QED BY <1>1, <1>4, <1>6, <1>9

\* Whatever grid with the right shape has as many places as there are workers.
LEMMA WorkerInGrid ==
  ASSUME NEW s \in Nat, NEW l \in Nat, NEW n, n = Power2[l], Divides(s, n),
         NEW rows \in 1 .. n, NEW columns \in 1 .. n,
         rows * columns = n, rows \in {columns, 2 * columns},
         NEW i \in 0 .. s - 1, NEW j \in 0 .. s - 1
  PROVE  (i \div (s \div rows)) * columns + (j \div (s \div columns)) \in 0 .. n - 1
<1>1. n \in Nat \ {0} /\ s \in Nat \ {0}
  BY Power2Exceeds
<1>2. rows \in Nat \ {0} /\ columns \in Nat \ {0}
  BY <1>1
<1>3. Grid(n, rows, columns)
  BY <1>2, OneGrid
<1>4. EvenGrid(s, n, rows, columns)
  BY <1>1, <1>3 DEF Divides, Grid, EvenGrid
<1>5. n \in Nat
  BY <1>1
<1> QED BY <1>1, <1>4, <1>5, WorkerOfCell

-----------------------------------------------------------------------------
(* Some of the items of a list, in its order.                              *)

Picks(u, m, ix, f) == List(u) /\ Len(u) = m /\ \A p \in 1 .. m : u[p] = f[ix[p]]

\* u is what f makes of the numbers of mine, from the least to the greatest.
Chosen(u, n, mine, f) ==
  \E m \in Nat : \E ix : Enumerates(ix, m, n, mine) /\ Picks(u, m, ix, f)

LEMMA ChosenNone == ASSUME NEW f PROVE Chosen(<<>>, 0, {}, f)
<1>1. PICK ix : ix = [p \in 1 .. 0 |-> 0]
  OBVIOUS
<1>2. 1 .. 0 = {}
  OBVIOUS
<1>3. Enumerates(ix, 0, 0, {})
  BY <1>1, <1>2 DEF Enumerates
<1>4. List(<<>>) /\ Len(<<>>) = 0
  <2>1. DOMAIN <<>> = 1 .. 0 /\ <<>> = [k \in 1 .. 0 |-> <<>>[k]]
    BY <1>2
  <2> QED BY <2>1, ListOf
<1>5. 0 \in Nat
  OBVIOUS
<1>6. Picks(<<>>, 0, ix, f)
  BY <1>2, <1>4 DEF Picks
<1> QED BY <1>3, <1>5, <1>6 DEF Chosen

LEMMA ChosenLeft ==
  ASSUME NEW u, NEW n \in Nat, NEW mine, NEW f, Chosen(u, n, mine, f)
  PROVE  Chosen(u, n + 1, mine, f)
<1>m. PICK m \in Nat : \E ix : Enumerates(ix, m, n, mine) /\ Picks(u, m, ix, f)
  BY DEF Chosen
<1>0. PICK ix : Enumerates(ix, m, n, mine) /\ Picks(u, m, ix, f)
  BY <1>m
<1>1. /\ Enumerates(ix, m, n, mine)
      /\ List(u) /\ Len(u) = m /\ \A p \in 1 .. m : u[p] = f[ix[p]]
  BY <1>0 DEF Picks
<1>2. Enumerates(ix, m, n + 1, mine)
  <2>1. ix \in [1 .. m -> 1 .. n] /\ 1 .. n \subseteq 1 .. n + 1
    BY <1>1 DEF Enumerates
  <2>2. ix \in [1 .. m -> 1 .. n + 1]
    BY <2>1
  <2> QED BY <1>1, <2>2 DEF Enumerates
<1> QED BY <1>0, <1>2 DEF Chosen

LEMMA ChosenTaken ==
  ASSUME NEW u, NEW n \in Nat, NEW mine, NEW f, Chosen(u, n, mine, f), NEW x, x = f[n + 1]
  PROVE  Chosen(u \o <<x>>, n + 1, mine \cup {n + 1}, f)
<1>m. PICK m \in Nat : \E ix : Enumerates(ix, m, n, mine) /\ Picks(u, m, ix, f)
  BY DEF Chosen
<1>0. PICK ix : Enumerates(ix, m, n, mine) /\ Picks(u, m, ix, f)
  BY <1>m
<1>1. /\ Enumerates(ix, m, n, mine)
      /\ List(u) /\ Len(u) = m /\ \A p \in 1 .. m : u[p] = f[ix[p]]
  BY <1>0 DEF Picks
<1>2. /\ ix \in [1 .. m -> 1 .. n] /\ mine = {ix[p] : p \in 1 .. m}
      /\ \A p, r \in 1 .. m : p < r => ix[p] < ix[r]
  BY <1>1 DEF Enumerates
<1>3. PICK iy : iy = [p \in 1 .. m + 1 |-> IF p <= m THEN ix[p] ELSE n + 1]
  OBVIOUS
<1>4. \A p \in 1 .. m : iy[p] = ix[p] /\ ix[p] \in 1 .. n
  BY <1>2, <1>3
<1>5. iy[m + 1] = n + 1
  BY <1>3
<1>6. Enumerates(iy, m + 1, n + 1, mine \cup {n + 1})
  <2>1. iy \in [1 .. m + 1 -> 1 .. n + 1]
    BY <1>2, <1>3
  <2>2. ASSUME NEW p \in 1 .. m + 1, NEW r \in 1 .. m + 1, p < r PROVE iy[p] < iy[r]
    <3>1. CASE r \in 1 .. m
      BY <1>2, <1>4, <2>2, <3>1
    <3>2. CASE r = m + 1
      <4>1. p \in 1 .. m
        BY <2>2, <3>2
      <4> QED BY <1>4, <1>5, <3>2, <4>1
    <3> QED BY <3>1, <3>2
  <2>3. mine \cup {n + 1} = {iy[p] : p \in 1 .. m + 1}
    <3>1. 1 .. m + 1 = (1 .. m) \cup {m + 1}
      OBVIOUS
    <3> QED BY <1>2, <1>4, <1>5, <3>1
  <2> QED BY <2>1, <2>2, <2>3 DEF Enumerates
<1>7. PICK v : v = <<x>>
  OBVIOUS
<1>8. List(v) /\ Len(v) = 1 /\ v[1] = x
  BY <1>7, OneIsList
<1>10. PICK c : c = u \o v
  OBVIOUS
<1>9. /\ List(c) /\ Len(c) = m + 1
      /\ \A k \in 1 .. m : c[k] = u[k]
      /\ c[m + 1] = x
  <2>1. JoinOf(c, u, v)
    BY <1>1, <1>8, <1>10, JoinIs
  <2> QED BY <1>1, <1>8, <2>1 DEF JoinOf
<1>11. ASSUME NEW p \in 1 .. m + 1 PROVE c[p] = f[iy[p]]
  <2>1. CASE p \in 1 .. m
    BY <1>1, <1>4, <1>9, <2>1
  <2>2. CASE p = m + 1
    BY <1>5, <1>9, <2>2
  <2> QED BY <2>1, <2>2
<1>12. List(c) /\ Len(c) = m + 1 /\ m + 1 \in Nat
  BY <1>9
<1>13. Chosen(c, n + 1, mine \cup {n + 1}, f)
  <2>1. Picks(c, m + 1, iy, f)
    BY <1>11, <1>12 DEF Picks
  <2> QED BY <1>6, <1>12, <2>1 DEF Chosen
<1> QED BY <1>7, <1>10, <1>13

\* A list with one item or none for each number.
Singles(ss, n, mine, f) ==
  /\ DOMAIN ss = 1 .. n /\ mine \subseteq 1 .. n
  /\ \A k \in 1 .. n : ss[k] = IF k \in mine THEN <<f[k]>> ELSE <<>>

LEMMA FlattenChosen ==
  ASSUME NEW n \in Nat, NEW ss, NEW mine, NEW f, Singles(ss, n, mine, f)
  PROVE  Chosen(FlattenSeq(ss), n, mine, f)
<1>1. Len(ss) = n /\ mine \subseteq 1 .. n
  BY LengthOf DEF Singles
<1>2. ASSUME NEW k \in 1 .. n
      PROVE  (k \in mine => ss[k] = <<f[k]>>) /\ (k \notin mine => ss[k] = <<>>)
  BY <1>2 DEF Singles
<1>3. CASE n = 0
  <2>1. ss = <<>> /\ mine = {}
    <3>1. DOMAIN ss = {} /\ 1 .. 0 = {}
      BY <1>3 DEF Singles
    <3>2. mine = {}
      BY <1>1, <1>3, <3>1
    <3>3. Len(ss) = 0
      BY <1>1, <1>3
    <3> QED BY <3>1, <3>2, <3>3
  <2>2. FlattenSeq(ss) = <<>>
    BY <2>1, Zenon DEF FlattenSeq
  <2> QED BY <1>3, <2>1, <2>2, ChosenNone
<1>4. CASE n # 0
  <2>1. PICK F : /\ F[1] = ss[1] /\ \A i \in 2 .. n : F[i] = F[i - 1] \o ss[i]
                 /\ FlattenSeq(ss) = F[n]
    BY <1>1, <1>4, FlattenSeqIs
  <2> DEFINE Upto(i) == mine \cap (1 .. i)
             S == {i \in Nat : i + 1 <= n => Chosen(F[i + 1], i + 1, Upto(i + 1), f)}
  <2>2. ASSUME NEW u, NEW i \in Nat, i + 1 <= n, Chosen(u, i, Upto(i), f)
        PROVE  Chosen(u \o ss[i + 1], i + 1, Upto(i + 1), f)
    <3>1. i + 1 \in 1 .. n /\ 1 .. i + 1 = (1 .. i) \cup {i + 1}
      BY <2>2
    <3>2. CASE i + 1 \in mine
      <4>1. Upto(i + 1) = Upto(i) \cup {i + 1} /\ ss[i + 1] = <<f[i + 1]>>
        BY <1>2, <3>1, <3>2
      <4> HIDE DEF Upto
      <4>2. Chosen(u \o <<f[i + 1]>>, i + 1, Upto(i) \cup {i + 1}, f)
        BY <2>2, ChosenTaken
      <4> QED BY <4>1, <4>2
    <3>3. CASE i + 1 \notin mine
      <4>1. Upto(i + 1) = Upto(i) /\ ss[i + 1] = <<>>
        BY <1>2, <3>1, <3>3
      <4> HIDE DEF Upto
      <4>2. Chosen(u, i + 1, Upto(i), f)
        BY <2>2, ChosenLeft
      <4>3. List(u)
        BY <2>2 DEF Chosen, Picks
      <4>4. u \o ss[i + 1] = u
        BY <4>1, <4>3, NothingBehind
      <4> QED BY <4>1, <4>2, <4>4
    <3> QED BY <3>2, <3>3
  <2>3. 0 \in S
    <3>1. Upto(0) = {} /\ 0 + 1 = 1 /\ 0 + 1 <= n
      BY <1>4
    <3>2. Chosen(<<>>, 0, Upto(0), f)
      BY <3>1, ChosenNone
    <3>3. List(ss[1])
      <4>1. 1 \in 1 .. n
        BY <1>4
      <4>2. ss[1] = <<f[1]>> \/ ss[1] = <<>>
        BY <1>2, <4>1
      <4>3. List(<<>>)
        BY ChosenNone DEF Chosen, Picks
      <4> QED BY <4>2, <4>3, OneIsList
    <3>4. <<>> \o ss[1] = ss[1]
      BY <3>3, NothingBehind
    <3> HIDE DEF Upto
    <3>5. Chosen(<<>> \o ss[0 + 1], 0 + 1, Upto(0 + 1), f)
      BY <2>2, <3>1, <3>2
    <3>6. Chosen(F[0 + 1], 0 + 1, Upto(0 + 1), f)
      BY <2>1, <3>1, <3>4, <3>5
    <3> QED BY <3>6
  <2>4. ASSUME NEW i \in Nat, i \in S PROVE i + 1 \in S
    <3> SUFFICES ASSUME i + 1 + 1 <= n PROVE Chosen(F[i + 1 + 1], i + 1 + 1, Upto(i + 1 + 1), f)
      OBVIOUS
    <3>1. Chosen(F[i + 1], i + 1, Upto(i + 1), f)
      <4>1. i + 1 <= n
        OBVIOUS
      <4> HIDE DEF Upto
      <4> QED BY <2>4, <4>1
    <3>2. F[i + 1 + 1] = F[i + 1] \o ss[i + 1 + 1]
      <4> HIDE DEF S
      <4>1. PICK k \in 2 .. n : k = i + 1 + 1 /\ k - 1 = i + 1
        OBVIOUS
      <4>2. F[k] = F[k - 1] \o ss[k]
        BY <2>1
      <4> QED BY <4>1, <4>2
    <3> HIDE DEF Upto, S
    <3>3. i + 1 \in Nat
      OBVIOUS
    <3>4. Chosen(F[i + 1] \o ss[i + 1 + 1], i + 1 + 1, Upto(i + 1 + 1), f)
      BY <2>2, <3>1, <3>3
    <3> QED BY <3>2, <3>4
  <2> HIDE DEF S
  <2>5. n - 1 \in S
    <3>1. n - 1 \in Nat
      BY <1>4
    <3> QED BY <2>3, <2>4, <3>1, Induction
  <2>6. n - 1 + 1 = n /\ n <= n
    OBVIOUS
  <2>7. n - 1 + 1 <= n => Chosen(F[n - 1 + 1], n - 1 + 1, Upto(n - 1 + 1), f)
    BY <2>5, Zenon DEF S
  <2>8. Upto(n) = mine
    BY <1>1
  <2>9. Chosen(F[n], n, Upto(n), f)
    <3> HIDE DEF Upto
    <3> QED BY <2>6, <2>7
  <2> QED BY <2>1, <2>8, <2>9
<1> QED BY <1>3, <1>4

LEMMA ChosenRearranged ==
  ASSUME NEW u, NEW n \in Nat, NEW mine, NEW f, Chosen(u, n, mine, f)
  PROVE  Rearranged(u, mine, f)
<1>m. PICK m \in Nat : \E ix : Enumerates(ix, m, n, mine) /\ Picks(u, m, ix, f)
  BY DEF Chosen
<1>0. PICK ix : Enumerates(ix, m, n, mine) /\ Picks(u, m, ix, f)
  BY <1>m
<1>1. /\ Enumerates(ix, m, n, mine)
      /\ List(u) /\ Len(u) = m /\ \A p \in 1 .. m : u[p] = f[ix[p]]
  BY <1>0 DEF Picks
<1>2. /\ ix \in [1 .. m -> 1 .. n] /\ mine = {ix[p] : p \in 1 .. m}
      /\ \A p, r \in 1 .. m : p < r => ix[p] < ix[r]
  BY <1>1 DEF Enumerates
<1>3. ix \in [1 .. m -> mine]
  BY <1>2
<1>4. ASSUME NEW j \in 1 .. m, NEW k \in 1 .. m, ix[j] = ix[k] PROVE j = k
  <2>1. ix[j] \in Int /\ ix[k] \in Int
    BY <1>2
  <2>2. j < k => ix[j] < ix[k]
    BY <1>2
  <2>3. k < j => ix[k] < ix[j]
    BY <1>2
  <2> QED BY <1>4, <2>1, <2>2, <2>3
<1>5. \A d \in mine : \E j \in 1 .. m : ix[j] = d
  BY <1>2
<1> QED BY <1>1, <1>3, <1>4, <1>5 DEF Rearranged

-----------------------------------------------------------------------------
(* Ranks, and lists in order.                                              *)

\* B has the pairs of numbers of which the first does not come after the second.
TotalOrder(B, n) ==
  /\ \A j, k \in 1 .. n : <<j, k>> \in B \/ <<k, j>> \in B
  /\ \A j, k \in 1 .. n : <<j, k>> \in B /\ <<k, j>> \in B => j = k
  /\ \A i, j, k \in 1 .. n : <<i, j>> \in B /\ <<j, k>> \in B => <<i, k>> \in B

Down(B, n, k) == {m \in 1 .. n : <<m, k>> \in B}

LEMMA RankType ==
  ASSUME NEW n \in Nat, NEW B, TotalOrder(B, n), NEW k \in 1 .. n
  PROVE  /\ IsFiniteSet(Down(B, n, k)) /\ Cardinality(Down(B, n, k)) \in 1 .. n
<1>1. Down(B, n, k) \in SUBSET (1 .. n) /\ k \in Down(B, n, k)
  BY DEF Down, TotalOrder
<1>2. IsFiniteSet(1 .. n) /\ Cardinality(1 .. n) = n
  BY FS_Interval
<1>3. IsFiniteSet(Down(B, n, k)) /\ Cardinality(Down(B, n, k)) <= n
  BY <1>1, <1>2, FS_Subset
<1>4. Cardinality(Down(B, n, k)) # 0
  BY <1>1, <1>3, FS_EmptySet
<1> QED BY <1>3, <1>4, FS_CardinalityType

LEMMA RankGrows ==
  ASSUME NEW n \in Nat, NEW B, TotalOrder(B, n), NEW j \in 1 .. n, NEW k \in 1 .. n,
         <<j, k>> \in B, j # k
  PROVE  Cardinality(Down(B, n, j)) < Cardinality(Down(B, n, k))
<1>1. Down(B, n, j) \in SUBSET Down(B, n, k)
  BY DEF Down, TotalOrder
<1>2. k \in Down(B, n, k) /\ k \notin Down(B, n, j)
  BY DEF Down, TotalOrder
<1>3. IsFiniteSet(Down(B, n, k)) /\ IsFiniteSet(Down(B, n, j))
  BY RankType
<1>4. Cardinality(Down(B, n, j)) <= Cardinality(Down(B, n, k))
      /\ Cardinality(Down(B, n, j)) # Cardinality(Down(B, n, k))
  BY <1>1, <1>2, <1>3, FS_Subset
<1>5. Cardinality(Down(B, n, j)) \in Nat /\ Cardinality(Down(B, n, k)) \in Nat
  BY <1>3, FS_CardinalityType
<1> QED BY <1>4, <1>5

\* Every rank is the rank of one number.
LEMMA RanksFilled ==
  ASSUME NEW n \in Nat, NEW B, TotalOrder(B, n), NEW r \in 1 .. n
  PROVE  /\ \E k \in 1 .. n : Cardinality(Down(B, n, k)) = r
         /\ \A j, k \in 1 .. n : Cardinality(Down(B, n, j)) = Cardinality(Down(B, n, k)) => j = k
<1>1. PICK rank : rank = [k \in 1 .. n |-> Cardinality(Down(B, n, k))]
  OBVIOUS
<1>2. rank \in [1 .. n -> 1 .. n]
  BY <1>1, RankType
<1>3. ASSUME NEW j \in 1 .. n, NEW k \in 1 .. n,
             Cardinality(Down(B, n, j)) = Cardinality(Down(B, n, k))
      PROVE  j = k
  <2>1. <<j, k>> \in B \/ <<k, j>> \in B
    BY DEF TotalOrder
  <2>2. Cardinality(Down(B, n, j)) \in 1 .. n /\ Cardinality(Down(B, n, k)) \in 1 .. n
    BY RankType
  <2>3. CASE <<j, k>> \in B /\ j # k
    <3>1. Cardinality(Down(B, n, j)) < Cardinality(Down(B, n, k))
      BY <2>3, RankGrows
    <3> QED BY <1>3, <2>2, <3>1
  <2>4. CASE <<k, j>> \in B /\ j # k
    <3>1. Cardinality(Down(B, n, k)) < Cardinality(Down(B, n, j))
      BY <2>4, RankGrows
    <3> QED BY <1>3, <2>2, <3>1
  <2> QED BY <2>1, <2>3, <2>4
<1>4. rank \in Injection(1 .. n, 1 .. n)
  BY <1>1, <1>2, <1>3 DEF Injection, IsInjective
<1>5. IsFiniteSet(1 .. n)
  BY FS_Interval
<1>6. rank \in Surjection(1 .. n, 1 .. n)
  BY <1>4, <1>5, FS_Injection
<1>7. \E k \in 1 .. n : rank[k] = r
  BY <1>6 DEF Surjection
<1> QED BY <1>1, <1>3, <1>7

\* L has the pairs of which the first is less than the second.
Asymmetric(L) == \A x, y : <<x, y>> \in L => <<y, x>> \notin L
Increasing(u, n, L) == \A p, r \in 1 .. n : p < r => <<u[p], u[r]>> \in L

Among(u, n, v, m) == \A p \in 1 .. n : \E r \in 1 .. m : u[p] = v[r]

LEMMA NotBefore ==
  ASSUME NEW L, Asymmetric(L), NEW u, NEW n \in Nat, Increasing(u, n, L),
         NEW v, NEW m \in Nat, Increasing(v, m, L), Among(u, n, v, m),
         NEW p \in 1 .. n, NEW r \in 1 .. m, u[p] = v[r]
  PROVE  p <= r
<1>1. PICK h : h = [q \in 1 .. p - 1 |-> CHOOSE s \in 1 .. m : u[q] = v[s]]
  OBVIOUS
<1>2. ASSUME NEW q \in 1 .. p - 1 PROVE h[q] \in 1 .. r - 1 /\ u[q] = v[h[q]]
  <2>1. q \in 1 .. n /\ q < p
    OBVIOUS
  <2>2. \E s \in 1 .. m : u[q] = v[s]
    BY <2>1 DEF Among
  <2>3. h[q] \in 1 .. m /\ u[q] = v[h[q]]
    BY <1>1, <2>2
  <2>4. <<v[h[q]], v[r]>> \in L
    BY <2>1, <2>3 DEF Increasing
  <2>5. h[q] # r
    BY <2>4 DEF Asymmetric
  <2>6. ~ (r < h[q])
    BY <2>3, <2>4 DEF Increasing, Asymmetric
  <2> QED BY <2>3, <2>5, <2>6
<1>3. ASSUME NEW q \in 1 .. p - 1, NEW s \in 1 .. p - 1, h[q] = h[s] PROVE q = s
  <2>1. u[q] = u[s]
    BY <1>2, <1>3
  <2>2. q \in 1 .. n /\ s \in 1 .. n
    OBVIOUS
  <2>3. ASSUME q < s PROVE FALSE
    <3>1. <<u[q], u[s]>> \in L
      BY <2>2, <2>3 DEF Increasing
    <3> QED BY <2>1, <3>1 DEF Asymmetric
  <2>4. ASSUME s < q PROVE FALSE
    <3>1. <<u[s], u[q]>> \in L
      BY <2>2, <2>4 DEF Increasing
    <3> QED BY <2>1, <3>1 DEF Asymmetric
  <2> QED BY <2>3, <2>4
<1>4. h \in [1 .. p - 1 -> 1 .. r - 1]
  BY <1>1, <1>2
<1>5. h \in Injection(1 .. p - 1, 1 .. r - 1)
  BY <1>3, <1>4 DEF Injection, IsInjective
<1>6. /\ IsFiniteSet(1 .. r - 1) /\ Cardinality(1 .. r - 1) = r - 1
      /\ Cardinality(1 .. p - 1) = p - 1
  <2>1. ASSUME NEW a \in Nat PROVE IsFiniteSet(1 .. a) /\ Cardinality(1 .. a) = a
    BY FS_Interval
  <2>2. r - 1 \in Nat /\ p - 1 \in Nat
    OBVIOUS
  <2> QED BY <2>1, <2>2
<1>7. Cardinality(1 .. p - 1) <= Cardinality(1 .. r - 1)
  BY <1>5, <1>6, FS_Injection
<1> QED BY <1>6, <1>7

LEMMA SameSorted ==
  ASSUME NEW L, Asymmetric(L), NEW u, NEW n \in Nat, List(u), Len(u) = n, Increasing(u, n, L),
         NEW v, NEW m \in Nat, List(v), Len(v) = m, Increasing(v, m, L),
         Among(u, n, v, m), Among(v, m, u, n)
  PROVE  u = v
<1>1. ASSUME NEW p \in 1 .. n, NEW r \in 1 .. m, u[p] = v[r] PROVE p = r
  <2>1. p <= r
    BY <1>1, NotBefore
  <2>2. r <= p
    BY <1>1, NotBefore
  <2> QED BY <2>1, <2>2
<1>2. \A p \in 1 .. n : p \in 1 .. m /\ u[p] = v[p]
  BY <1>1 DEF Among
<1>3. \A r \in 1 .. m : r \in 1 .. n
  BY <1>1 DEF Among
<1>4. n = m
  <2>1. n > 0 => n \in 1 .. m
    BY <1>2
  <2>2. m > 0 => m \in 1 .. n
    BY <1>3
  <2> QED BY <2>1, <2>2
<1> QED BY <1>2, <1>4, SameLists
===============================================================================
