-------------------------- MODULE PckksProblemsProofs --------------------------
(***************************************************************************)
(* How divide() cuts the rows of a problem, what the workloads work out of *)
(* the parts, and what aggregate() makes of it: the answer of the problem, *)
(* for every number of workers and every problem size.                     *)
(***************************************************************************)
EXTENDS PckksProblems, SequenceFacts

-----------------------------------------------------------------------------
(* The division of the rows.                                               *)

(* The workers' shares together reach the end of the rows.                 *)
LEMMA EnoughForAll ==
  ASSUME NEW w \in Nat \ {0}, NEW p \in Nat
  PROVE  PerWorker(w, p) \in Nat /\ p <= w * PerWorker(w, p)
<1> DEFINE q == p \div w
<1>1. q \in Nat /\ p % w \in 0 .. w - 1 /\ p = w * q + (p % w)
  BY Euclid
<1>2. CASE p % w = 0
  <2>1. PerWorker(w, p) = q
    BY <1>1, <1>2 DEF PerWorker
  <2> QED
    BY <1>1, <1>2, <2>1
<1>3. CASE p % w # 0
  <2>1. PerWorker(w, p) = q + 1
    BY <1>1, <1>3 DEF PerWorker
  <2>2. w * (q + 1) = w * q + w
    BY <1>1
  <2> QED
    BY <1>1, <2>1, <2>2
<1> QED
  BY <1>2, <1>3

(* The smaller of two numbers.                                              *)
LEMMA MinOfTwo ==
  ASSUME NEW a \in Int, NEW b \in Int
  PROVE  Min({a, b}) = IF a <= b THEN a ELSE b
<1>1. \E x \in {a, b} : \A y \in {a, b} : x <= y
  <2>1. CASE a <= b
    BY <2>1
  <2>2. CASE ~ (a <= b)
    BY <2>2
  <2> QED
    BY <2>1, <2>2
<1>2. Min({a, b}) \in {a, b} /\ \A y \in {a, b} : Min({a, b}) <= y
  BY <1>1 DEF Min
<1> QED
  BY <1>2

(* A worker's block ends where it has its share, or at the end of the body. *)
LEMMA EndOfBlock ==
  ASSUME NEW w \in Nat \ {0}, NEW p \in Nat, NEW width \in Nat, NEW i \in Nat
  PROVE  /\ Start(w, p, width, i) = i * PerWorker(w, p) * width
         /\ Start(w, p, width, i) \in Nat
         /\ End(w, p, width, i) =
              IF (i + 1) * PerWorker(w, p) * width <= p * width
              THEN (i + 1) * PerWorker(w, p) * width ELSE p * width
<1> DEFINE n == PerWorker(w, p)
<1>1. n \in Nat
  BY EnoughForAll
<1>2. i * n \in Nat /\ (i + 1) * n = i * n + n
  BY <1>1
<1>3. i * n * width \in Nat /\ n * width \in Nat /\ p * width \in Nat
      /\ (i * n + n) * width = i * n * width + n * width
  BY <1>1, <1>2
<1>4. Start(w, p, width, i) = i * n * width
  BY DEF Start
<1> HIDE DEF n
<1>5. Min({i * n * width + n * width, p * width}) =
        IF i * n * width + n * width <= p * width
        THEN i * n * width + n * width ELSE p * width
  BY <1>3, MinOfTwo
<1>6. End(w, p, width, i) = Min({i * n * width + n * width, p * width})
  BY <1>4 DEF End, n
<1> QED
  BY <1>2, <1>3, <1>4, <1>5, <1>6 DEF n

(* When the last worker does not start beyond the end of the rows, the       *)
(* blocks tile the body: the first begins at its beginning, each begins      *)
(* where the one before it ends, and the last ends at its end.  So every row *)
(* is given to exactly one worker (the loops of the six divide functions,    *)
(* lines 61-67, 136-142, 216-224, 303-312, 391-400 and 503-511).              *)
THEOREM BlocksTile ==
  ASSUME NEW w \in Nat \ {0}, NEW p \in Nat, NEW width \in Nat,
         (w - 1) * PerWorker(w, p) <= p
  PROVE  /\ Start(w, p, width, 0) = 0
         /\ \A i \in 0 .. w - 2 : End(w, p, width, i) = Start(w, p, width, i + 1)
         /\ End(w, p, width, w - 1) = p * width
<1> DEFINE n == PerWorker(w, p)
<1>1. n \in Nat /\ p <= w * n /\ w \in Nat /\ w - 1 \in Nat
  BY EnoughForAll
<1>2. Start(w, p, width, 0) = 0
  BY <1>1, EndOfBlock
<1>3. ASSUME NEW i \in 0 .. w - 2
      PROVE  End(w, p, width, i) = Start(w, p, width, i + 1)
  <2>1. i \in Nat /\ i + 1 \in Nat /\ i + 1 <= w - 1
    BY <1>1
  <2> HIDE DEF n
  <2>2. (i + 1) * n <= (w - 1) * n
    BY <1>1, <2>1, Monotone
  <2>3. (i + 1) * n \in Nat /\ (w - 1) * n \in Nat /\ (w - 1) * n <= p
    BY <1>1, <2>1 DEF n
  <2>4. (i + 1) * n * width <= p * width
    BY <2>2, <2>3, Monotone
  <2> QED
    BY <2>1, <2>4, EndOfBlock DEF n
<1>4. End(w, p, width, w - 1) = p * width
  <2>1. (w - 1) + 1 = w
    BY <1>1
  <2> HIDE DEF n
  <2>2. w * n \in Nat /\ p * width <= w * n * width
    BY <1>1, Monotone
  <2>3. End(w, p, width, w - 1) = IF w * n * width <= p * width THEN w * n * width ELSE p * width
    <3>1. ASSUME NEW i \in Nat
          PROVE  End(w, p, width, i) =
                   IF (i + 1) * n * width <= p * width THEN (i + 1) * n * width ELSE p * width
      BY EndOfBlock, ZenonT(30) DEF n
    <3>2. End(w, p, width, w - 1) =
            IF ((w - 1) + 1) * n * width <= p * width
            THEN ((w - 1) + 1) * n * width ELSE p * width
      BY <1>1, <3>1, Zenon
    <3> QED
      BY <2>1, <3>2, Zenon
  <2>4. w * n * width \in Nat /\ p * width \in Nat
    BY <1>1, <2>2
  <2> QED
    BY <2>2, <2>3, <2>4
<1> QED
  BY <1>2, <1>3, <1>4

(* A block runs backwards, and divide() fails, exactly when the last worker  *)
(* would start beyond the end of the rows: the even shares of the workers    *)
(* before it have already used them up.                                      *)
THEOREM BackwardsExactlyWhenUneven ==
  ASSUME NEW w \in Nat \ {0}, NEW p \in Nat, NEW width \in Nat, width > 0
  PROVE  (\A i \in 0 .. w - 1 : ~ RunsBackwards(w, p, width, i))
           <=> (w - 1) * PerWorker(w, p) <= p
<1> DEFINE n == PerWorker(w, p)
<1>1. n \in Nat /\ w - 1 \in Nat /\ width \in Nat /\ w - 1 \in 0 .. w - 1
  BY EnoughForAll
<1> HIDE DEF n
<1>2. ASSUME NEW i \in 0 .. w - 1
      PROVE  RunsBackwards(w, p, width, i) <=> p < i * n
  <2>1. /\ i \in Nat /\ i * n \in Nat /\ (i + 1) * n \in Nat /\ (i + 1) * n = i * n + n
    BY <1>1
  <2>2. /\ i * n * width \in Nat /\ p * width \in Nat /\ (i + 1) * n * width \in Nat
        /\ (i + 1) * n * width = i * n * width + n * width /\ n * width \in Nat
    BY <1>1, <2>1
  <2>3. RunsBackwards(w, p, width, i) <=> p * width < i * n * width
    <3>1. ASSUME NEW j \in Nat
          PROVE  Start(w, p, width, j) = j * n * width
      BY EndOfBlock, ZenonT(30) DEF n
    <3>2. ASSUME NEW j \in Nat
          PROVE  End(w, p, width, j) =
                   IF (j + 1) * n * width <= p * width THEN (j + 1) * n * width ELSE p * width
      BY EndOfBlock, ZenonT(30) DEF n
    <3>3. /\ Start(w, p, width, i) = i * n * width
          /\ End(w, p, width, i) = IF (i + 1) * n * width <= p * width
                                   THEN (i + 1) * n * width ELSE p * width
      BY <2>1, <3>1, <3>2, Zenon
    <3> QED
      BY <2>2, <3>3 DEF RunsBackwards
  <2>4. CASE p < i * n
    <3>1. p + 1 <= i * n /\ p + 1 \in Nat
      BY <2>1, <2>4
    <3>2. (p + 1) * width <= i * n * width
      BY <1>1, <2>1, <3>1, Monotone
    <3>3. (p + 1) * width = p * width + width
      BY <1>1
    <3> QED
      BY <2>2, <2>3, <2>4, <3>2, <3>3
  <2>5. CASE ~ (p < i * n)
    <3>1. i * n * width <= p * width
      BY <1>1, <2>1, <2>5, Monotone
    <3> QED
      BY <2>2, <2>3, <2>5, <3>1
  <2> QED
    BY <2>4, <2>5
<1>3. ASSUME (w - 1) * n <= p, NEW i \in 0 .. w - 1
      PROVE  ~ (p < i * n)
  <2>1. i \in Nat /\ i <= w - 1 /\ i * n \in Nat /\ (w - 1) * n \in Nat
    BY <1>1
  <2>2. i * n <= (w - 1) * n
    BY <1>1, <2>1, Monotone
  <2> QED
    BY <1>3, <2>1, <2>2
<1>4. ASSUME \A i \in 0 .. w - 1 : ~ (p < i * n)
      PROVE  (w - 1) * n <= p
  <2>1. (w - 1) * n \in Nat
    BY <1>1
  <2> QED
    BY <1>1, <1>4, <2>1
<1> QED
  BY <1>2, <1>3, <1>4 DEF n

-----------------------------------------------------------------------------
(* Arithmetic.                                                             *)

(* The minimum of a set of natural numbers is in it.                       *)
LEMMA LeastIsMin ==
  ASSUME NEW S \in SUBSET Nat, S # {}
  PROVE  Min(S) \in S
<1>1. \E x \in S : \A y \in S : x <= y
  BY LeastOf
<1> QED BY <1>1 DEF Min

(* A number below the modulus is its own remainder, a multiple has none.   *)
LEMMA Remainders ==
  ASSUME NEW a \in Nat, NEW m \in Nat, NEW b \in Nat \ {0}
  PROVE  /\ a < m => a % m = a
         /\ (a * b) % b = 0
<1>1. a < m => a % m = a
  OBVIOUS
<1>2. (a * b) % b = 0
  OBVIOUS
<1> QED BY <1>1, <1>2

-----------------------------------------------------------------------------
(* The blocks.                                                             *)

(* How many rows worker i gets, when it does not start beyond the end.     *)
Rows(w, p, i) ==
  IF (i + 1) * PerWorker(w, p) <= p THEN PerWorker(w, p) ELSE p - i * PerWorker(w, p)

(* As long as a worker starts within the body, its block is whole rows.    *)
LEMMA BlockIsRows ==
  ASSUME NEW w \in Nat \ {0}, NEW p \in Nat, NEW width \in Nat, width > 0, NEW i \in Nat,
         i * PerWorker(w, p) <= p
  PROVE  /\ Rows(w, p, i) \in 0 .. p
         /\ Start(w, p, width, i) \in Nat /\ End(w, p, width, i) \in Nat
         /\ End(w, p, width, i) - Start(w, p, width, i) = Rows(w, p, i) * width
<1> DEFINE n == PerWorker(w, p)
<1>1. n \in Nat /\ width \in Nat
  BY EnoughForAll
<1> HIDE DEF n
<1>2. i * n \in Nat /\ (i + 1) * n = i * n + n /\ i * n <= p
  BY <1>1 DEF n
<1>3. /\ Start(w, p, width, i) = i * n * width
      /\ End(w, p, width, i) = IF i * n + n <= p THEN (i * n + n) * width ELSE p * width
  <2> DEFINE a == i * n + n
  <2>1. a \in Nat /\ a * width = i * n * width + n * width /\ i * n * width \in Nat
        /\ n * width \in Nat /\ a * width \in Nat /\ p * width \in Nat
    BY <1>1, <1>2
  <2>2. Start(w, p, width, i) = i * n * width
    BY DEF Start, n
  <2>3. End(w, p, width, i) = Min({i * n * width + n * width, p * width})
    BY <2>2 DEF End, n
  <2> HIDE DEF a
  <2>4. a * width <= p * width <=> a <= p
    <3>1. a <= p => a * width <= p * width
      BY <1>1, <2>1, Monotone
    <3>2. p + 1 <= a => (p + 1) * width <= a * width /\ (p + 1) * width = p * width + width
      BY <1>1, <2>1, Monotone
    <3> QED BY <1>1, <2>1, <3>1, <3>2
  <2>5. End(w, p, width, i) = IF a * width <= p * width THEN a * width ELSE p * width
    <3>1. End(w, p, width, i) = Min({a * width, p * width})
      BY <2>1, <2>3, Zenon
    <3>2. a * width \in Int /\ p * width \in Int
      BY <2>1
    <3> QED BY <3>1, <3>2, MinOfTwo
  <2>6. End(w, p, width, i) = IF a <= p THEN a * width ELSE p * width
    BY <2>4, <2>5, Zenon
  <2> QED BY <2>2, <2>6 DEF a
<1>4. Rows(w, p, i) = IF i * n + n <= p THEN n ELSE p - i * n
  BY <1>2 DEF Rows, n
<1>5. CASE i * n + n <= p
  <2>1. (i * n + n) * width = i * n * width + n * width /\ n * width \in Nat
        /\ i * n * width \in Nat
    BY <1>1, <1>2
  <2> QED BY <1>1, <1>2, <1>3, <1>4, <1>5, <2>1
<1>6. CASE ~ (i * n + n <= p)
  <2>1. PICK a \in Nat : a = i * n
    BY <1>2
  <2>2. (p - a) * width = p * width - a * width /\ p * width \in Nat /\ a * width \in Nat
    OBVIOUS
  <2> QED BY <1>1, <1>2, <1>3, <1>4, <1>6, <2>1, <2>2
<1> QED BY <1>5, <1>6

(* Its size, in std::size_t, is then that of the block.                    *)
LEMMA ExtentOfBlock ==
  ASSUME NEW w \in Nat \ {0}, NEW p \in Nat, NEW width \in Nat, width > 0, NEW i \in Nat,
         i * PerWorker(w, p) <= p,
         2 ^ SizeBits \in Nat, p * width < 2 ^ SizeBits
  PROVE  Extent(w, p, width, i) = Rows(w, p, i) * width
<1>1. PICK k \in 0 .. p : k = Rows(w, p, i)
  BY BlockIsRows
<1>2. k \in Nat /\ k * width \in Nat /\ p * width \in Nat /\ k * width <= p * width
  BY <1>1, Monotone
<1>3. PICK m \in Nat : m = 2 ^ SizeBits
  OBVIOUS
<1>4. (k * width) % m = k * width
  BY <1>2, <1>3, Remainders
<1>5. End(w, p, width, i) - Start(w, p, width, i) = k * width
  BY <1>1, BlockIsRows
<1> QED BY <1>1, <1>3, <1>4, <1>5 DEF Extent

(* With the last worker within the body every worker is.                   *)
LEMMA AllWithin ==
  ASSUME NEW w \in Nat \ {0}, NEW p \in Nat, (w - 1) * PerWorker(w, p) <= p,
         NEW i \in 0 .. w - 1
  PROVE  i * PerWorker(w, p) <= p
<1> DEFINE n == PerWorker(w, p)
<1>1. n \in Nat /\ w - 1 \in Nat /\ i \in Nat /\ i <= w - 1
  BY EnoughForAll
<1> HIDE DEF n
<1>2. i * n <= (w - 1) * n /\ i * n \in Nat /\ (w - 1) * n \in Nat
  BY <1>1, Monotone
<1>3. (w - 1) * n <= p
  BY DEF n
<1>4. i * n <= p
  BY <1>2, <1>3
<1> QED BY <1>4 DEF n

(* Every worker has a row unless the last one starts at the very end.      *)
LEMMA RowsForAll ==
  ASSUME NEW w \in Nat \ {0}, NEW p \in Nat, (w - 1) * PerWorker(w, p) <= p
  PROVE  /\ (w - 1) * PerWorker(w, p) < p => \A i \in 0 .. w - 1 : Rows(w, p, i) # 0
         /\ (w - 1) * PerWorker(w, p) = p => Rows(w, p, w - 1) = 0
<1> DEFINE n == PerWorker(w, p)
<1>1. n \in Nat /\ p <= w * n /\ w - 1 \in Nat
  BY EnoughForAll
<1> HIDE DEF n
<1>2. \A i \in 0 .. w - 1 : Rows(w, p, i) = IF i * n + n <= p THEN n ELSE p - i * n
  <2> TAKE i \in 0 .. w - 1
  <2>1. (i + 1) * n = i * n + n
    BY <1>1
  <2> QED BY <2>1 DEF Rows, n
<1>3. ASSUME (w - 1) * n < p, NEW i \in 0 .. w - 1 PROVE Rows(w, p, i) # 0
  <2>1. i \in Nat /\ i <= w - 1 /\ i * n <= (w - 1) * n /\ i * n \in Nat /\ (w - 1) * n \in Nat
    BY <1>1, Monotone
  <2>2. n # 0
    BY <1>1, <1>3, <2>1
  <2> QED BY <1>1, <1>2, <1>3, <2>1, <2>2
<1>4. ASSUME (w - 1) * n = p PROVE Rows(w, p, w - 1) = 0
  <2>1. w - 1 \in 0 .. w - 1 /\ (w - 1) * n \in Nat
    BY <1>1
  <2> QED BY <1>1, <1>2, <1>4, <2>1
<1> QED BY <1>3, <1>4 DEF n

-----------------------------------------------------------------------------
(* The loop over the workers, in all the divide functions.                 *)

Bad(w, p, width) ==
  {i \in 0 .. w - 1 : \/ width # 1 /\ Extent(w, p, width, i) % p # 0
                      \/ RunsBackwards(w, p, width, i)}

(* The loop ends as it should exactly when no worker starts beyond the end. *)
LEMMA BadWorkers ==
  ASSUME NEW w \in Nat \ {0}, NEW p \in Nat, NEW width \in {1, p}, width > 0,
         2 ^ SizeBits \in Nat, p * width < 2 ^ SizeBits
  PROVE  /\ Bad(w, p, width) = {} <=> (w - 1) * PerWorker(w, p) <= p
         /\ Bad(w, p, width) # {} => Min(Bad(w, p, width)) \in 0 .. w - 1
<1>1. width \in Nat /\ width > 0
  OBVIOUS
<1>2. ASSUME Bad(w, p, width) = {} PROVE (w - 1) * PerWorker(w, p) <= p
  <2>1. \A i \in 0 .. w - 1 : ~ RunsBackwards(w, p, width, i)
    BY <1>2 DEF Bad
  <2> QED BY <1>1, <2>1, BackwardsExactlyWhenUneven
<1>3. ASSUME (w - 1) * PerWorker(w, p) <= p PROVE Bad(w, p, width) = {}
  <2>1. \A i \in 0 .. w - 1 : ~ RunsBackwards(w, p, width, i)
    BY <1>1, <1>3, BackwardsExactlyWhenUneven
  <2>2. ASSUME NEW i \in 0 .. w - 1, width # 1 PROVE Extent(w, p, width, i) % p = 0
    <3>1. i \in Nat /\ i * PerWorker(w, p) <= p
      BY <1>3, AllWithin
    <3>2. Extent(w, p, width, i) = Rows(w, p, i) * width
      BY <1>1, <3>1, ExtentOfBlock
    <3>3. Rows(w, p, i) \in Nat
      BY <1>1, <3>1, BlockIsRows
    <3>4. width = p /\ p \in Nat \ {0}
      BY <1>1, <2>2
    <3> QED BY <3>2, <3>3, <3>4, Remainders
  <2> QED BY <2>1, <2>2 DEF Bad
<1>4. ASSUME Bad(w, p, width) # {} PROVE Min(Bad(w, p, width)) \in 0 .. w - 1
  <2>1. Bad(w, p, width) \in SUBSET (0 .. w - 1) /\ Bad(w, p, width) \in SUBSET Nat
    BY DEF Bad
  <2>2. Min(Bad(w, p, width)) \in Bad(w, p, width)
    BY <1>4, <2>1, LeastIsMin
  <2> QED BY <2>1, <2>2
<1> QED BY <1>2, <1>3, <1>4

(* What the loop leaves in a division d: all the parts, or too few.        *)
Loop(d, w, p) ==
  IF (w - 1) * PerWorker(w, p) <= p THEN d.ends = "returns" /\ Len(d.parts) = w
  ELSE d.ends = "throws" \/ (d.ends = "returns" /\ Len(d.parts) < w)

(* The three ways in which DivideAmong ends.                               *)
Looped(d, w, p, width) ==
  /\ Bad(w, p, width) = {} => d.ends = "returns" /\ DOMAIN d.parts = 1 .. w
  /\ Bad(w, p, width) # {} =>
       \/ d.ends = "throws"
       \/ d.ends = "returns" /\ DOMAIN d.parts = 1 .. Min(Bad(w, p, width))

(* How the loop over the workers ends.                                      *)
LEMMA LoopEnds ==
  ASSUME NEW w \in Nat \ {0}, NEW p \in Nat, NEW width \in {1, p}, width > 0,
         2 ^ SizeBits \in Nat, p * width < 2 ^ SizeBits
  PROVE  \A d : Looped(d, w, p, width) => Loop(d, w, p)
<1> SUFFICES ASSUME NEW d, Looped(d, w, p, width) PROVE Loop(d, w, p)
  OBVIOUS
<1> USE DEF Looped
<1>1. CASE Bad(w, p, width) = {}
  <2>1. (w - 1) * PerWorker(w, p) <= p
    BY <1>1, BadWorkers
  <2>2. w \in Nat /\ Len(d.parts) = w
    BY <1>1, LengthOf
  <2> QED BY <1>1, <2>1, <2>2 DEF Loop
<1>2. CASE Bad(w, p, width) # {}
  <2>1. ~ ((w - 1) * PerWorker(w, p) <= p) /\ Min(Bad(w, p, width)) \in 0 .. w - 1
    BY <1>2, BadWorkers
  <2>2. CASE d.ends = "returns" /\ DOMAIN d.parts = 1 .. Min(Bad(w, p, width))
    <3>1. Len(d.parts) = Min(Bad(w, p, width))
      BY <2>1, <2>2, LengthOf
    <3>2. Len(d.parts) < w
      BY <2>1, <3>1
    <3> QED BY <2>1, <2>2, <3>2 DEF Loop
  <2> QED BY <1>2, <2>1, <2>2 DEF Loop
<1> QED BY <1>1, <1>2

(* One block of the vector for every worker.                                *)
LEMMA VectorLoop ==
  ASSUME NEW w \in Nat \ {0}, NEW p \in Nat, 2 ^ SizeBits \in Nat, p < 2 ^ SizeBits
  PROVE  /\ Loop(DivideVector(w, p), w, p)
         /\ (w - 1) * PerWorker(w, p) <= p =>
              \A k \in 1 .. w :
                DivideVector(w, p).parts[k] =
                  [size |-> Extent(w, p, 1, k - 1),
                   chunk |-> Range0(Start(w, p, 1, k - 1), End(w, p, 1, k - 1))]
<1> DEFINE d == DivideVector(w, p)
           cut(k) == [size |-> Extent(w, p, 1, k - 1),
                      chunk |-> Range0(Start(w, p, 1, k - 1), End(w, p, 1, k - 1))]
<1>1. Bad(w, p, 1) = {} => d.ends = "returns" /\ d.parts = [k \in 1 .. w |-> cut(k)]
  BY DEF DivideVector, DivideAmong, Bad
<1>2. Bad(w, p, 1) # {} => d.ends = "throws"
  <2>1. Bad(w, p, 1) # {} => d = Failed("throws")
    BY Zenon DEF DivideVector, DivideAmong, Bad
  <2> QED BY <2>1 DEF Failed
<1> HIDE DEF d, cut
<1>3. PICK width \in {1, p} : width = 1
  OBVIOUS
<1>4. width > 0 /\ p * width < 2 ^ SizeBits
  <2>1. p * width = p
    BY <1>3
  <2> QED BY <1>3, <2>1
<1>5. Loop(d, w, p)
  <2>1. Looped(d, w, p, width)
    BY <1>1, <1>2, <1>3 DEF Looped
  <2>2. \A x : Looped(x, w, p, width) => Loop(x, w, p)
    BY <1>4, LoopEnds
  <2> QED BY <2>1, <2>2, Zenon
<1>6. (w - 1) * PerWorker(w, p) <= p => \A k \in 1 .. w : d.parts[k] = cut(k)
  <2>1. Bad(w, p, width) = {} <=> (w - 1) * PerWorker(w, p) <= p
    BY <1>4, BadWorkers
  <2> QED BY <1>1, <1>3, <2>1
<1> QED BY <1>5, <1>6 DEF d, cut

(* The same block of both vectors for every worker.                         *)
LEMMA PairLoop ==
  ASSUME NEW w \in Nat \ {0}, NEW p \in Nat, 2 ^ SizeBits \in Nat, p < 2 ^ SizeBits
  PROVE  /\ Loop(DividePair(w, p), w, p)
         /\ (w - 1) * PerWorker(w, p) <= p =>
              \A k \in 1 .. w :
                DividePair(w, p).parts[k] =
                  [size  |-> Extent(w, p, 1, k - 1),
                   chunk |-> Range0(Start(w, p, 1, k - 1), End(w, p, 1, k - 1))
                             \o Range0(p + Start(w, p, 1, k - 1), p + End(w, p, 1, k - 1))]
<1> DEFINE d == DividePair(w, p)
           cut(k) == [size  |-> Extent(w, p, 1, k - 1),
                      chunk |-> Range0(Start(w, p, 1, k - 1), End(w, p, 1, k - 1))
                                \o Range0(p + Start(w, p, 1, k - 1), p + End(w, p, 1, k - 1))]
<1>1. Bad(w, p, 1) = {} => d.ends = "returns" /\ d.parts = [k \in 1 .. w |-> cut(k)]
  BY DEF DividePair, DivideAmong, Bad
<1>2. Bad(w, p, 1) # {} => d.ends = "throws"
  <2>1. Bad(w, p, 1) # {} => d = Failed("throws")
    BY Zenon DEF DividePair, DivideAmong, Bad
  <2> QED BY <2>1 DEF Failed
<1> HIDE DEF d, cut
<1>3. PICK width \in {1, p} : width = 1
  OBVIOUS
<1>4. width > 0 /\ p * width < 2 ^ SizeBits
  <2>1. p * width = p
    BY <1>3
  <2> QED BY <1>3, <2>1
<1>5. Loop(d, w, p)
  <2>1. Looped(d, w, p, width)
    BY <1>1, <1>2, <1>3 DEF Looped
  <2>2. \A x : Looped(x, w, p, width) => Loop(x, w, p)
    BY <1>4, LoopEnds
  <2> QED BY <2>1, <2>2, Zenon
<1>6. (w - 1) * PerWorker(w, p) <= p => \A k \in 1 .. w : d.parts[k] = cut(k)
  <2>1. Bad(w, p, width) = {} <=> (w - 1) * PerWorker(w, p) <= p
    BY <1>4, BadWorkers
  <2> QED BY <1>1, <1>3, <2>1
<1> QED BY <1>5, <1>6 DEF d, cut

(* Whole rows of the matrix for every worker.                               *)
LEMMA RowsLoop ==
  ASSUME NEW w \in Nat \ {0}, NEW p \in Nat \ {0}, NEW base, NEW share,
         2 ^ SizeBits \in Nat, p * p < 2 ^ SizeBits
  PROVE  /\ Loop(DivideRows(w, p, base, share), w, p)
         /\ (w - 1) * PerWorker(w, p) <= p =>
              /\ DivideRows(w, p, base, share).share = share
              /\ \A k \in 1 .. w :
                   DivideRows(w, p, base, share).parts[k] =
                     [size  |-> Extent(w, p, p, k - 1) \div p,
                      chunk |-> Range0(base + Start(w, p, p, k - 1),
                                       base + End(w, p, p, k - 1))]
<1> DEFINE d == DivideRows(w, p, base, share)
           ragged == p # 1 /\ Extent(w, p, p, Min(Bad(w, p, p))) % p # 0
           cut(k) == [size  |-> Extent(w, p, p, k - 1) \div p,
                      chunk |-> Range0(base + Start(w, p, p, k - 1),
                                       base + End(w, p, p, k - 1))]
<1>1. Bad(w, p, p) = {} =>
        d = [ends |-> "returns", complaint |-> "none", share |-> share,
             parts |-> [k \in 1 .. w |-> cut(k)]]
  BY Zenon DEF DivideRows, DivideAmong, Bad
<1>2. Bad(w, p, p) # {} /\ ragged =>
        d = [ends |-> "returns", complaint |-> "size", share |-> share,
             parts |-> [k \in 1 .. Min(Bad(w, p, p)) |-> cut(k)]]
  BY Zenon DEF DivideRows, DivideAmong, Bad
<1>3. Bad(w, p, p) # {} /\ ~ ragged => d = Failed("throws")
  BY Zenon DEF DivideRows, DivideAmong, Bad
<1> HIDE DEF d, ragged, cut
<1>4. Looped(d, w, p, p)
  <2>1. Bad(w, p, p) = {} => d.ends = "returns" /\ DOMAIN d.parts = 1 .. w
    BY <1>1
  <2>2. Bad(w, p, p) # {} /\ ragged =>
          d.ends = "returns" /\ DOMAIN d.parts = 1 .. Min(Bad(w, p, p))
    BY <1>2
  <2>3. Bad(w, p, p) # {} /\ ~ ragged => d.ends = "throws"
    BY <1>3 DEF Failed
  <2> QED BY <2>1, <2>2, <2>3, Zenon DEF Looped
<1>5. \A x : Looped(x, w, p, p) => Loop(x, w, p)
  <2>1. p \in {1, p} /\ p > 0 /\ p \in Nat
    OBVIOUS
  <2> QED BY <2>1, LoopEnds
<1>6. Loop(d, w, p)
  BY <1>4, <1>5, Zenon
<1>7. ASSUME (w - 1) * PerWorker(w, p) <= p
      PROVE  d.share = share /\ \A k \in 1 .. w : d.parts[k] = cut(k)
  <2>1. Bad(w, p, p) = {}
    BY <1>7, BadWorkers
  <2> QED BY <1>1, <2>1
<1> QED BY <1>6, <1>7 DEF d, cut

-----------------------------------------------------------------------------
(* divide(), whatever the problem.                                         *)

(* What divide() itself asks of a command.                                 *)
Shared(problem, w, p, items) ==
  /\ items = InputItems(problem, p)
  /\ w > 0
  /\ (w - 1) * PerWorker(w, p) <= p
  /\ problem \in MatrixProblems => p > 0
  /\ problem = "real_tiled_matrix_multiply" => PerWorker(w, p) % TileSize = 0

(* A problem whose matrix can be counted has a side that can.               *)
LEMMA Narrow ==
  ASSUME NEW p \in Nat, 2 ^ SizeBits \in Nat, p * p < 2 ^ SizeBits
  PROVE  p < 2 ^ SizeBits
<1>1. CASE p = 0
  BY <1>1
<1>2. CASE p # 0
  <2>1. 1 * p <= p * p /\ 1 * p = p /\ p * p \in Nat
    BY <1>2, Monotone
  <2> QED BY <2>1
<1> QED BY <1>1, <1>2

(* It makes a part for every worker exactly then; with nobody to make a part *)
(* for it is content with an input of the wrong size.                        *)
LEMMA DivideShares ==
  ASSUME NEW problem \in Problems, NEW w \in Nat, NEW p \in Nat, NEW items \in Nat,
         2 ^ SizeBits \in Nat, p * p < 2 ^ SizeBits
  PROVE  /\ Shared(problem, w, p, items) =>
              /\ Divide(problem, w, p, items).ends = "returns"
              /\ Len(Divide(problem, w, p, items).parts) = w
         /\ /\ Divide(problem, w, p, items).ends = "returns"
            /\ w <= Len(Divide(problem, w, p, items).parts)
            => \/ Shared(problem, w, p, items)
               \/ /\ w = 0 /\ items # InputItems(problem, p)
                  /\ Len(Divide(problem, w, p, items).parts) = 0
         /\ Divide(problem, w, p, items).ends = "returns" /\ w # 0 =>
              \/ Shared(problem, w, p, items)
              \/ w > Len(Divide(problem, w, p, items).parts)
<1> DEFINE d == Divide(problem, w, p, items)
           claim == /\ Shared(problem, w, p, items) => d.ends = "returns" /\ Len(d.parts) = w
                    /\ d.ends = "returns" /\ w <= Len(d.parts) =>
                         \/ Shared(problem, w, p, items)
                         \/ w = 0 /\ items # InputItems(problem, p) /\ Len(d.parts) = 0
                    /\ d.ends = "returns" /\ w # 0 =>
                         Shared(problem, w, p, items) \/ w > Len(d.parts)
<1> SUFFICES claim
  OBVIOUS
<1>1. CASE items # InputItems(problem, p)
  <2>1. d = Refused("size", <<>>)
    BY <1>1, Zenon DEF Divide
  <2>2. Len(d.parts) = 0 /\ ~ Shared(problem, w, p, items)
    BY <1>1, <2>1 DEF Refused, Shared
  <2> HIDE DEF d
  <2> QED BY <1>1, <2>2
<1>2. CASE items = InputItems(problem, p) /\ w = 0
  <2>1. d = Failed("traps")
    BY <1>2, Zenon DEF Divide
  <2>2. d.ends = "traps" /\ ~ Shared(problem, w, p, items)
    BY <1>2, <2>1 DEF Failed, Shared
  <2> HIDE DEF d
  <2> QED BY <2>2
<1>3. CASE items = InputItems(problem, p) /\ w > 0
  <2>1. w \in Nat \ {0} /\ w # 0
    BY <1>3
  <2>2. p < 2 ^ SizeBits
    BY Narrow
  <2>3. CASE problem \in {"real_sum", "real_statistics"}
    <3>1. d = DivideVector(w, p)
      BY <1>3, <2>1, <2>3 DEF Divide
    <3>2. Loop(d, w, p)
      BY <2>1, <2>2, <3>1, VectorLoop
    <3>3. Shared(problem, w, p, items) <=> (w - 1) * PerWorker(w, p) <= p
      BY <1>3, <2>3 DEF Shared, MatrixProblems
    <3> HIDE DEF d
    <3> QED BY <3>2, <3>3 DEF Loop
  <2>4. CASE problem = "real_vector_multiply"
    <3>1. d = DividePair(w, p)
      BY <1>3, <2>1, <2>4 DEF Divide
    <3>2. Loop(d, w, p)
      BY <2>1, <2>2, <3>1, PairLoop
    <3>3. Shared(problem, w, p, items) <=> (w - 1) * PerWorker(w, p) <= p
      BY <1>3, <2>4 DEF Shared, MatrixProblems
    <3> HIDE DEF d
    <3> QED BY <3>2, <3>3 DEF Loop
  <2>5. CASE problem \in MatrixProblems /\ p > 0
    <3>1. \A base, share : Loop(DivideRows(w, p, base, share), w, p)
      <4>1. p \in Nat \ {0}
        BY <2>5
      <4> QED BY <2>1, <4>1, RowsLoop, Zenon
    <3>2. CASE problem # "real_tiled_matrix_multiply"
      <4>1. d = DivideMatrixVector(w, p) \/ d = DivideMatrices(w, p)
        BY <1>3, <2>1, <2>5, <3>2 DEF Divide, MatrixProblems
      <4>2. Loop(d, w, p)
        BY <3>1, <4>1, Zenon DEF DivideMatrixVector, DivideMatrices
      <4>3. Shared(problem, w, p, items) <=> (w - 1) * PerWorker(w, p) <= p
        BY <1>3, <2>5, <3>2 DEF Shared
      <4> HIDE DEF d
      <4> QED BY <4>2, <4>3 DEF Loop
    <3>3. CASE problem = "real_tiled_matrix_multiply"
      <4>1. d = DivideTiles(w, p)
        BY <1>3, <2>1, <3>3 DEF Divide
      <4>2. CASE PerWorker(w, p) % TileSize = 0
        <5>1. d = DivideMatrices(w, p)
          BY <4>1, <4>2, Zenon DEF DivideTiles
        <5>2. Loop(d, w, p)
          BY <3>1, <5>1, Zenon DEF DivideMatrices
        <5>3. Shared(problem, w, p, items) <=> (w - 1) * PerWorker(w, p) <= p
          BY <1>3, <2>5, <4>2 DEF Shared
        <5> HIDE DEF d
        <5> QED BY <5>2, <5>3 DEF Loop
      <4>3. CASE PerWorker(w, p) % TileSize # 0
        <5>1. Len(d.parts) = 0 /\ ~ Shared(problem, w, p, items)
          BY <3>3, <4>1, <4>3 DEF DivideTiles, Refused, Shared
        <5> HIDE DEF d
        <5> QED BY <1>3, <5>1
      <4> QED BY <4>2, <4>3
    <3> QED BY <3>2, <3>3
  <2>6. CASE problem \in MatrixProblems /\ ~ (p > 0)
    <3>1. ~ Shared(problem, w, p, items)
      BY <2>6 DEF Shared
    <3>2. \A base, share : DivideRows(w, p, base, share) = Failed("traps")
      <4>1. p = 0
        BY <2>6
      <4> QED BY <4>1, Zenon DEF DivideRows
    <3>3. \/ d = DivideMatrixVector(w, p) \/ d = DivideMatrices(w, p)
          \/ d = Refused("tile", Range0(p * p, 2 * p * p))
      <4>1. \/ d = DivideMatrixVector(w, p) \/ d = DivideMatrices(w, p)
            \/ d = DivideTiles(w, p)
        BY <1>3, <2>1, <2>6 DEF Divide, MatrixProblems
      <4> QED BY <4>1, Zenon DEF DivideTiles
    <3>4. d = Failed("traps") \/ d = Refused("tile", Range0(p * p, 2 * p * p))
      BY <3>2, <3>3, Zenon DEF DivideMatrixVector, DivideMatrices
    <3>5. d.ends = "traps" \/ Len(d.parts) = 0
      BY <3>4 DEF Failed, Refused
    <3> HIDE DEF d
    <3> QED BY <1>3, <3>1, <3>5
  <2> QED BY <2>3, <2>4, <2>5, <2>6 DEF Problems, VectorProblems
<1> QED BY <1>1, <1>2, <1>3
-----------------------------------------------------------------------------
(* The blocks, put together.                                               *)

(* The rows of the workers before worker i.                                *)
RowsBefore(w, p, i) == IF i * PerWorker(w, p) <= p THEN i * PerWorker(w, p) ELSE p

(* What a worker has of a body G whose rows are of the given width.         *)
BlockOf(G, w, p, width, i) ==
  [j \in 1 .. Rows(w, p, i) * width |-> G[Start(w, p, width, i) + j]]

(* The blocks before worker k's, and its own, are the rows up to its end.   *)
LEMMA RowsAddUp ==
  ASSUME NEW w \in Nat \ {0}, NEW p \in Nat, (w - 1) * PerWorker(w, p) <= p, NEW k \in 1 .. w
  PROVE  /\ RowsBefore(w, p, 0) = 0 /\ RowsBefore(w, p, w) = p
         /\ RowsBefore(w, p, k) \in Nat
         /\ RowsBefore(w, p, k - 1) = (k - 1) * PerWorker(w, p)
         /\ RowsBefore(w, p, k - 1) \in Nat
         /\ Rows(w, p, k - 1) \in Nat
         /\ RowsBefore(w, p, k) = RowsBefore(w, p, k - 1) + Rows(w, p, k - 1)
<1>1. PICK n \in Nat : n = PerWorker(w, p)
  BY EnoughForAll
<1>2. w * n \in Nat /\ p <= w * n /\ (w - 1) * n <= p
  BY <1>1, EnoughForAll
<1>3. k - 1 \in 0 .. w - 1 /\ k - 1 \in Nat /\ k - 1 + 1 = k
  OBVIOUS
<1>4. (k - 1) * n <= p
  BY <1>1, <1>3, AllWithin
<1>5. k * n \in Nat /\ (k - 1) * n \in Nat /\ k * n = (k - 1) * n + n
  BY <1>1, <1>3
<1>6. RowsBefore(w, p, 0) = 0 /\ RowsBefore(w, p, w) = p
  <2>1. 0 * n = 0
    BY <1>1
  <2> QED BY <1>1, <1>2, <2>1 DEF RowsBefore
<1>7. /\ RowsBefore(w, p, k) = IF k * n <= p THEN k * n ELSE p
      /\ RowsBefore(w, p, k - 1) = (k - 1) * n
      /\ Rows(w, p, k - 1) = IF k * n <= p THEN n ELSE p - (k - 1) * n
  BY <1>1, <1>3, <1>4 DEF RowsBefore, Rows
<1> QED BY <1>1, <1>4, <1>5, <1>6, <1>7

(* The blocks of the workers that leave no row, one behind the other, are   *)
(* the body.                                                                *)
LEMMA BlocksTogether ==
  ASSUME NEW w \in Nat \ {0}, NEW p \in Nat, (w - 1) * PerWorker(w, p) <= p,
         NEW width \in Nat, NEW v \in 0 .. w, RowsBefore(w, p, v) = p,
         NEW G, G = [j \in 1 .. p * width |-> G[j]]
  PROVE  FlattenSeq([k \in 1 .. v |-> BlockOf(G, w, p, width, k - 1)]) = G
<1> DEFINE cut == [k \in 0 .. v |-> RowsBefore(w, p, k) * width]
           ss == [k \in 1 .. v |-> BlockOf(G, w, p, width, k - 1)]
<1>1. cut[0] = 0 /\ cut[v] = p * width
  <2>1. 0 \in 0 .. v /\ v \in 0 .. v /\ RowsBefore(w, p, 0) = 0
    <3>1. 1 \in 1 .. w
      OBVIOUS
    <3> QED BY <3>1, RowsAddUp
  <2>2. 0 * width = 0
    OBVIOUS
  <2> QED BY <2>1, <2>2
<1>2. \A k \in 0 .. v : RowsBefore(w, p, k) * width \in Nat
  <2> TAKE k \in 0 .. v
  <2>1. RowsBefore(w, p, k) \in Nat
    <3>1. CASE k = 0
      <4>1. 1 \in 1 .. w /\ 1 - 1 = 0
        OBVIOUS
      <4>2. RowsBefore(w, p, 1 - 1) \in Nat
        BY <4>1, RowsAddUp
      <4> QED BY <3>1, <4>1, <4>2
    <3>2. CASE k # 0
      <4>1. k \in 1 .. w
        BY <3>2
      <4> QED BY <4>1, RowsAddUp
    <3> QED BY <3>1, <3>2
  <2> QED BY <2>1
<1>3. ASSUME NEW k \in 1 .. v
      PROVE  cut[k - 1] <= cut[k] /\ ss[k] = Stretch(G, cut[k - 1], cut[k])
  <2>1. k \in 1 .. w /\ k \in 0 .. v /\ k - 1 \in 0 .. v
    OBVIOUS
  <2>2. /\ RowsBefore(w, p, k - 1) = (k - 1) * PerWorker(w, p)
        /\ RowsBefore(w, p, k) = RowsBefore(w, p, k - 1) + Rows(w, p, k - 1)
    BY <2>1, RowsAddUp
  <2>3. PICK a \in Nat, r \in Nat : a = RowsBefore(w, p, k - 1) /\ r = Rows(w, p, k - 1)
    BY <2>1, RowsAddUp
  <2>4. (a + r) * width = a * width + r * width /\ a * width \in Nat /\ r * width \in Nat
    BY <2>3
  <2>5. cut[k - 1] = a * width /\ cut[k] = (a + r) * width
    BY <2>1, <2>2, <2>3
  <2>6. cut[k - 1] <= cut[k] /\ cut[k] - cut[k - 1] = r * width
    BY <2>4, <2>5
  <2>7. Start(w, p, width, k - 1) = cut[k - 1]
    BY <2>2, <2>3, <2>5 DEF Start
  <2>8. ss[k] = BlockOf(G, w, p, width, k - 1)
    OBVIOUS
  <2> HIDE DEF cut, ss
  <2>9. BlockOf(G, w, p, width, k - 1) = Stretch(G, cut[k - 1], cut[k])
    BY <2>3, <2>6, <2>7, Zenon DEF BlockOf, Stretch
  <2> QED BY <2>6, <2>8, <2>9, Zenon
<1>4. cut \in [0 .. v -> Nat]
  BY <1>2
<1>5. ss = [k \in 1 .. v |-> ss[k]]
  OBVIOUS
<1> HIDE DEF cut, ss
<1>6. ss = [k \in 1 .. v |-> Stretch(G, cut[k - 1], cut[k])]
  BY <1>3, <1>5, Zenon
<1>7. v \in Nat /\ G = [j \in 1 .. cut[v] |-> G[j]] /\ \A k \in 1 .. v : cut[k - 1] <= cut[k]
  BY <1>1, <1>3
<1>8. CutInto(G, v, cut, ss)
  BY <1>1, <1>4, <1>6, <1>7, Zenon DEF CutInto
<1>9. FlattenSeq(ss) = G
  BY <1>8, FlattenOfBlocks, Zenon
<1> QED BY <1>9 DEF ss

-----------------------------------------------------------------------------
(* Sums.                                                                   *)

(* The terms a dot product adds up.                                        *)
DotTerms(xs, x0, ys, y0, step, n) ==
  [k \in 1 .. n |-> <<xs[x0 + k], ys[y0 + (k - 1) * step + 1]>>]

(* Adding up one product after another.                                    *)
LEMMA DotProductIs ==
  ASSUME NEW xs, NEW x0, NEW ys, NEW y0, NEW step, NEW n \in Nat
  PROVE  DotProduct(xs, x0, ys, y0, step, n) = DotTerms(xs, x0, ys, y0, step, n)
<1> DEFINE t == [k \in 1 .. n |-> <<xs[x0 + k], ys[y0 + (k - 1) * step + 1]>>]
           ss == [k \in 1 .. n |-> Product(xs[x0 + k], ys[y0 + (k - 1) * step + 1])]
<1>1. ss = [k \in 1 .. n |-> <<t[k]>>]
  BY DEF Product
<1>2. t = [k \in 1 .. n |-> t[k]]
  OBVIOUS
<1>3. DotProduct(xs, x0, ys, y0, step, n) = FlattenSeq(ss)
  BY DEF DotProduct, Total
<1> HIDE DEF t, ss
<1>4. FlattenSeq([k \in 1 .. n |-> <<t[k]>>]) = [k \in 1 .. n |-> t[k]]
  BY FlattenOfItems
<1>5. DotProduct(xs, x0, ys, y0, step, n) = t
  BY <1>1, <1>2, <1>3, <1>4, Zenon
<1> QED BY <1>5 DEF t, DotTerms

(* Adding up one number after another, and one square after another.       *)
LEMMA TotalIs ==
  ASSUME NEW xs, NEW n \in Nat
  PROVE  /\ Total([k \in 1 .. n |-> Number(xs[k])]) = [k \in 1 .. n |-> <<xs[k]>>]
         /\ Total([k \in 1 .. n |-> Product(xs[k], xs[k])]) = [k \in 1 .. n |-> <<xs[k], xs[k]>>]
<1>1. ASSUME NEW t, NEW ss, ss = [k \in 1 .. n |-> <<t[k]>>], t = [k \in 1 .. n |-> t[k]]
      PROVE  Total(ss) = t
  <2>1. FlattenSeq([k \in 1 .. n |-> <<t[k]>>]) = [k \in 1 .. n |-> t[k]]
    BY FlattenOfItems
  <2> QED BY <1>1, <2>1, Zenon DEF Total
<1>2. Total([k \in 1 .. n |-> Number(xs[k])]) = [k \in 1 .. n |-> <<xs[k]>>]
  <2> DEFINE t == [k \in 1 .. n |-> <<xs[k]>>]
             ss == [k \in 1 .. n |-> Number(xs[k])]
  <2>1. ss = [k \in 1 .. n |-> <<t[k]>>] /\ t = [k \in 1 .. n |-> t[k]]
    BY DEF Number
  <2> HIDE DEF t, ss
  <2>2. Total(ss) = t
    BY <1>1, <2>1
  <2> QED BY <2>2 DEF t, ss
<1>3. Total([k \in 1 .. n |-> Product(xs[k], xs[k])]) = [k \in 1 .. n |-> <<xs[k], xs[k]>>]
  <2> DEFINE t == [k \in 1 .. n |-> <<xs[k], xs[k]>>]
             ss == [k \in 1 .. n |-> Product(xs[k], xs[k])]
  <2>1. ss = [k \in 1 .. n |-> <<t[k]>>] /\ t = [k \in 1 .. n |-> t[k]]
    BY DEF Product
  <2> HIDE DEF t, ss
  <2>2. Total(ss) = t
    BY <1>1, <2>1
  <2> QED BY <2>2 DEF t, ss
<1> QED BY <1>2, <1>3

(* The first n terms of t are different, and sum adds up each of them.      *)
Terms(n, t) == {t[x] : x \in 0 .. n - 1}

AddsEachOnce(n, t, sum) ==
  /\ \A x, y \in 0 .. n - 1 : t[x] = t[y] => x = y
  /\ DOMAIN sum = 1 .. n /\ \A i \in 1 .. n : sum[i] = t[i - 1]

(* A sum that adds no term twice has every coefficient one.                *)
LEMMA PolynomialOfDistinct ==
  ASSUME NEW n \in Nat, NEW t, NEW sum, AddsEachOnce(n, t, sum)
  PROVE  Polynomial(sum) = SetToBag(Terms(n, t))
<1> USE DEF AddsEachOnce
<1> DEFINE S == {t[x] : x \in 0 .. n - 1}
<1>1. \A i \in 1 .. n : i - 1 \in 0 .. n - 1
  OBVIOUS
<1>2. \A x \in 0 .. n - 1 : x + 1 \in 1 .. n /\ sum[x + 1] = t[x]
  <2> TAKE x \in 0 .. n - 1
  <2>1. x + 1 \in 1 .. n /\ x + 1 - 1 = x
    OBVIOUS
  <2> QED BY <2>1
<1>3. \A i, j \in 1 .. n : sum[i] = sum[j] => i = j
  <2> TAKE i, j \in 1 .. n
  <2>1. sum[i] = sum[j] => i - 1 = j - 1
    BY <1>1
  <2> QED BY <2>1
<1>4. ToSet(sum) = S
  <2>1. ASSUME NEW v \in ToSet(sum) PROVE v \in S
    <3>1. PICK i \in 1 .. n : v = sum[i]
      BY DEF ToSet
    <3> QED BY <1>1, <3>1
  <2>2. ASSUME NEW v \in S PROVE v \in ToSet(sum)
    <3>1. PICK x \in 0 .. n - 1 : v = t[x]
      OBVIOUS
    <3> QED BY <1>2, <3>1, Zenon DEF ToSet
  <2> QED BY <2>1, <2>2
<1>5. ASSUME NEW v \in S
      PROVE  Cardinality({k \in DOMAIN sum : sum[k] = v}) = 1
  <2>1. PICK i \in 1 .. n : sum[i] = v
    BY <1>2
  <2>2. {k \in DOMAIN sum : sum[k] = v} = {i}
    BY <1>3, <2>1
  <2> QED BY <2>2, FS_Singleton
<1> HIDE DEF S
<1>6. Polynomial(sum) = [v \in S |-> Cardinality({k \in DOMAIN sum : sum[k] = v})]
  BY <1>4, Zenon DEF Polynomial
<1>7. SetToBag(S) = [v \in S |-> 1]
  BY Zenon DEF SetToBag
<1>8. Polynomial(sum) = SetToBag(S)
  BY <1>5, <1>6, <1>7, Zenon
<1> QED BY <1>8 DEF S, Terms

(* The side of a square.                                                   *)
LEMMA SideOfSquare ==
  ASSUME NEW p \in Nat
  PROVE  SideOf(p * p) = p
<1>1. p * p \in Nat /\ (p + 1) * (p + 1) = p * p + p + p + 1
  OBVIOUS
<1>2. p \in 0 .. p * p
  <2>1. CASE p = 0
    BY <2>1
  <2>2. CASE p # 0
    <3>1. 1 * p <= p * p /\ 1 * p = p
      BY <2>2, Monotone
    <3> QED BY <1>1, <3>1
  <2> QED BY <2>1, <2>2
<1>3. ASSUME NEW m \in 0 .. p * p, m * m <= p * p, p * p < (m + 1) * (m + 1) PROVE m = p
  <2>1. m \in Nat /\ m * m \in Nat /\ (m + 1) * (m + 1) \in Nat
    BY <1>1
  <2>2. CASE m < p
    <3>1. (m + 1) * (m + 1) <= p * (m + 1) /\ p * (m + 1) <= p * p /\ p * (m + 1) \in Nat
      <4>1. m + 1 <= p /\ m + 1 \in Nat
        BY <2>1, <2>2
      <4> QED BY <4>1, Monotone
    <3> QED BY <1>1, <1>3, <2>1, <3>1
  <2>3. CASE p < m
    <3>1. (p + 1) * (p + 1) <= m * (p + 1) /\ m * (p + 1) <= m * m /\ m * (p + 1) \in Nat
      <4>1. p + 1 <= m /\ p + 1 \in Nat
        BY <2>1, <2>3
      <4> QED BY <2>1, <4>1, Monotone
    <3> QED BY <1>1, <1>3, <2>1, <3>1
  <2> QED BY <2>1, <2>2, <2>3
<1>4. p * p <= p * p /\ p * p < (p + 1) * (p + 1)
  BY <1>1
<1> QED BY <1>2, <1>3, <1>4, Zenon DEF SideOf

-----------------------------------------------------------------------------
(* The parts of a division.                                                *)

(* The positions from one up to another.                                    *)
LEMMA RangeIs ==
  ASSUME NEW a \in Nat, NEW e \in Int, NEW n \in Nat, e - a = n
  PROVE  /\ Range0(a, e) = [k \in 1 .. n |-> a + k - 1]
         /\ Len(Range0(a, e)) = n
<1>1. Range0(a, e) = [k \in 1 .. n |-> a + k - 1]
  BY DEF Range0
<1> QED BY <1>1, LengthOf

(* Worker k's block of a body whose rows are of the given width.            *)
LEMMA BlockFacts ==
  ASSUME NEW w \in Nat \ {0}, NEW p \in Nat, (w - 1) * PerWorker(w, p) <= p,
         NEW width \in Nat, width > 0, 2 ^ SizeBits \in Nat, p * width < 2 ^ SizeBits,
         NEW k \in 1 .. w
  PROVE  /\ Rows(w, p, k - 1) \in Nat
         /\ Extent(w, p, width, k - 1) = Rows(w, p, k - 1) * width
         /\ Start(w, p, width, k - 1) \in Nat /\ End(w, p, width, k - 1) \in Nat
         /\ End(w, p, width, k - 1) - Start(w, p, width, k - 1) = Rows(w, p, k - 1) * width
         /\ Start(w, p, width, k - 1) + Rows(w, p, k - 1) * width <= p * width
         /\ Start(w, p, width, k - 1) = RowsBefore(w, p, k - 1) * width
         /\ RowsBefore(w, p, k - 1) \in Nat
         /\ RowsBefore(w, p, k - 1) + Rows(w, p, k - 1) <= p
<1>1. k - 1 \in 0 .. w - 1 /\ k - 1 \in Nat
  OBVIOUS
<1>2. (k - 1) * PerWorker(w, p) <= p
  BY <1>1, AllWithin
<1>3. /\ Rows(w, p, k - 1) \in Nat
      /\ Extent(w, p, width, k - 1) = Rows(w, p, k - 1) * width
      /\ Start(w, p, width, k - 1) \in Nat /\ End(w, p, width, k - 1) \in Nat
      /\ End(w, p, width, k - 1) - Start(w, p, width, k - 1) = Rows(w, p, k - 1) * width
  <2>1. Rows(w, p, k - 1) \in 0 .. p
    BY <1>1, <1>2, BlockIsRows
  <2>2. Extent(w, p, width, k - 1) = Rows(w, p, k - 1) * width
    BY <1>1, <1>2, ExtentOfBlock
  <2> QED BY <1>1, <1>2, <2>1, <2>2, BlockIsRows
<1>4. PICK a \in Nat, r \in Nat, b \in Nat :
        /\ a = RowsBefore(w, p, k - 1) /\ r = Rows(w, p, k - 1)
        /\ b = RowsBefore(w, p, k) /\ b = a + r
        /\ RowsBefore(w, p, k - 1) = (k - 1) * PerWorker(w, p)
  BY RowsAddUp
<1>5. b <= p
  BY <1>4, EnoughForAll DEF RowsBefore
<1>6. Start(w, p, width, k - 1) = a * width
  BY <1>4 DEF Start
<1>7. b * width <= p * width /\ b * width = a * width + r * width /\ a * width \in Nat
      /\ r * width \in Nat /\ p * width \in Nat
  BY <1>4, <1>5, Monotone
<1> QED BY <1>3, <1>4, <1>5, <1>6, <1>7

(* The same for a vector, whose rows are of width one.                     *)
LEMMA VectorFacts ==
  ASSUME NEW w \in Nat \ {0}, NEW p \in Nat, (w - 1) * PerWorker(w, p) <= p,
         2 ^ SizeBits \in Nat, p < 2 ^ SizeBits, NEW k \in 1 .. w
  PROVE  \E r \in Nat, a \in Nat, e \in Nat :
           /\ r = Rows(w, p, k - 1) /\ r = Extent(w, p, 1, k - 1)
           /\ a = Start(w, p, 1, k - 1) /\ e = End(w, p, 1, k - 1)
           /\ e - a = r /\ a + r <= p
           /\ \A G : BlockOf(G, w, p, 1, k - 1) = [j \in 1 .. r |-> G[a + j]]
<1>1. PICK width \in Nat : width = 1
  OBVIOUS
<1>2. width > 0 /\ p * width = p
  BY <1>1
<1>3. PICK r \in Nat : r = Rows(w, p, k - 1)
  BY <1>2, BlockFacts
<1>4. r * width = r
  BY <1>1
<1>5. PICK a \in Nat, e \in Nat : a = Start(w, p, width, k - 1) /\ e = End(w, p, width, k - 1)
  BY <1>2, BlockFacts
<1>6. Extent(w, p, width, k - 1) = r /\ e - a = r /\ a + r <= p
  BY <1>2, <1>3, <1>4, <1>5, BlockFacts
<1>7. ASSUME NEW G PROVE BlockOf(G, w, p, width, k - 1) = [j \in 1 .. r |-> G[a + j]]
  BY <1>3, <1>4, <1>5, Zenon DEF BlockOf
<1>8. \A G : BlockOf(G, w, p, width, k - 1) = [j \in 1 .. r |-> G[a + j]]
  BY <1>7
<1>9. /\ r = Rows(w, p, k - 1) /\ r = Extent(w, p, 1, k - 1)
      /\ a = Start(w, p, 1, k - 1) /\ e = End(w, p, 1, k - 1)
      /\ e - a = r /\ a + r <= p
  BY <1>1, <1>3, <1>5, <1>6
<1>10. \A G : BlockOf(G, w, p, 1, k - 1) = [j \in 1 .. r |-> G[a + j]]
  BY <1>1, <1>8, Zenon
<1> QED BY <1>9, <1>10, Zenon

(* The workers that have a row are the first v.                            *)
LEMMA Owners ==
  ASSUME NEW w \in Nat \ {0}, NEW p \in Nat, (w - 1) * PerWorker(w, p) <= p
  PROVE  \E v \in 0 .. w : /\ RowsBefore(w, p, v) = p
                           /\ \A k \in 1 .. w : Rows(w, p, k - 1) # 0 <=> k <= v
<1>1. PICK n \in Nat : n = PerWorker(w, p) /\ p <= w * n
  BY EnoughForAll
<1>2. \A k \in 1 .. w : k - 1 \in 0 .. w - 1
  OBVIOUS
<1>3. CASE p = 0
  <2>1. RowsBefore(w, p, 0) = p
    <3>1. 1 \in 1 .. w
      OBVIOUS
    <3> QED BY <1>3, <3>1, RowsAddUp
  <2>2. ASSUME NEW k \in 1 .. w PROVE Rows(w, p, k - 1) = 0
    <3>1. PICK a \in Nat, r \in Nat, b \in Nat :
            /\ r = Rows(w, p, k - 1) /\ b = RowsBefore(w, p, k) /\ b = a + r
      BY RowsAddUp
    <3>2. b <= 0
      BY <1>1, <1>3, <3>1 DEF RowsBefore
    <3> QED BY <3>1, <3>2
  <2>3. 0 \in 0 .. w /\ \A k \in 1 .. w : ~ (k <= 0)
    OBVIOUS
  <2> QED BY <2>1, <2>2, <2>3
<1>4. CASE (w - 1) * n < p
  <2>1. \A i \in 0 .. w - 1 : Rows(w, p, i) # 0
    BY <1>1, <1>4, RowsForAll
  <2>2. RowsBefore(w, p, w) = p
    <3>1. w \in 1 .. w
      OBVIOUS
    <3> QED BY <3>1, RowsAddUp
  <2> QED BY <1>2, <2>1, <2>2
<1>5. CASE p # 0 /\ (w - 1) * n = p
  <2>1. RowsBefore(w, p, w - 1) = p /\ Rows(w, p, w - 1) = 0
    BY <1>1, <1>5, RowsForAll DEF RowsBefore
  <2>2. n # 0
    BY <1>1, <1>5
  <2>3. ASSUME NEW k \in 1 .. w, k <= w - 1 PROVE Rows(w, p, k - 1) # 0
    <3>1. k \in Nat /\ w - 1 \in Nat /\ k - 1 + 1 = k
      OBVIOUS
    <3>2. k * n <= (w - 1) * n
      BY <2>3, <3>1, Monotone
    <3>3. k * n <= p
      BY <1>5, <3>2
    <3> QED BY <1>1, <2>2, <3>1, <3>3 DEF Rows
  <2>4. \A k \in 1 .. w : Rows(w, p, k - 1) # 0 <=> k <= w - 1
    <3>1. \A k \in 1 .. w : k <= w - 1 \/ k = w
      OBVIOUS
    <3>2. ~ (w <= w - 1)
      OBVIOUS
    <3> QED BY <2>1, <2>3, <3>1, <3>2
  <2>5. w - 1 \in 0 .. w
    OBVIOUS
  <2> QED BY <2>1, <2>4, <2>5
<1> QED BY <1>1, <1>3, <1>4, <1>5

-----------------------------------------------------------------------------
(* Aggregation.                                                            *)

SumsOf(w, p, G) ==
  [k \in 1 .. w |-> IF Rows(w, p, k - 1) = 0 THEN <<>> ELSE <<BlockOf(G, w, p, 1, k - 1)>>]
HasLength(G, n) == G = [j \in 1 .. n |-> G[j]]

(* One partial sum of every worker that has a row.                         *)
LEMMA SumsTogether ==
  ASSUME NEW w \in Nat \ {0}, NEW p \in Nat, (w - 1) * PerWorker(w, p) <= p,
         NEW G, HasLength(G, p)
  PROVE  AggregateSum(SumsOf(w, p, G)) = <<G>>
<1> DEFINE partial == SumsOf(w, p, G)
<1>0. /\ partial = [k \in 1 .. w |-> IF Rows(w, p, k - 1) = 0 THEN <<>>
                                     ELSE <<BlockOf(G, w, p, 1, k - 1)>>]
      /\ G = [j \in 1 .. p |-> G[j]]
  BY Zenon DEF SumsOf, HasLength
<1> HIDE DEF partial
<1>1. PICK v \in 0 .. w : /\ RowsBefore(w, p, v) = p
                          /\ \A k \in 1 .. w : Rows(w, p, k - 1) # 0 <=> k <= v
  BY Owners
<1> DEFINE B == [k \in 1 .. w |-> BlockOf(G, w, p, 1, k - 1)]
<1>2. partial = [k \in 1 .. w |-> IF k <= v THEN <<B[k]>> ELSE <<>>]
  BY <1>0, <1>1
<1>3. [k \in 1 .. v |-> B[k]] = [k \in 1 .. v |-> BlockOf(G, w, p, 1, k - 1)]
  OBVIOUS
<1> HIDE DEF B
<1>4. FlattenSeq([k \in 1 .. w |-> IF k <= v THEN <<B[k]>> ELSE <<>>]) = [k \in 1 .. v |-> B[k]]
  BY FlattenOfSome
<1>5. FlattenSeq(partial) = [k \in 1 .. v |-> BlockOf(G, w, p, 1, k - 1)]
  BY <1>2, <1>3, <1>4, Zenon
<1>6. FlattenSeq([k \in 1 .. v |-> BlockOf(G, w, p, 1, k - 1)]) = G
  <2>1. PICK width \in Nat : width = 1
    OBVIOUS
  <2>2. p * width = p
    BY <2>1
  <2>3. G = [j \in 1 .. p * width |-> G[j]]
    BY <1>0, <2>2, Zenon
  <2>4. FlattenSeq([k \in 1 .. v |-> BlockOf(G, w, p, width, k - 1)]) = G
    BY <1>1, <2>3, BlocksTogether
  <2> QED BY <2>1, <2>4, Zenon
<1> QED BY <1>5, <1>6, Zenon DEF partial, AggregateSum, Total

(* The rows, or the figures, of all the workers.                           *)
LEMMA AllTogether ==
  ASSUME NEW w \in Nat \ {0}, NEW p \in Nat, (w - 1) * PerWorker(w, p) <= p,
         NEW width \in Nat, NEW G, G = [j \in 1 .. p * width |-> G[j]]
  PROVE  FlattenSeq([k \in 1 .. w |-> BlockOf(G, w, p, width, k - 1)]) = G
<1>1. RowsBefore(w, p, w) = p /\ w \in 0 .. w
  <2>1. w \in 1 .. w
    OBVIOUS
  <2> QED BY <2>1, RowsAddUp
<1> QED BY <1>1, BlocksTogether

-----------------------------------------------------------------------------
(* What each worker leaves, and what comes of it.                          *)

(* What worker k of division d works out.                                  *)
WorkerResult(d, problem, k) ==
  Calculate(problem, d.parts[k].size,
            Format(problem, d.parts[k].size, d.share, d.parts[k].chunk))

(* The terms a sum of numbers, of squares, and of a pair of vectors adds up. *)
Numbers(p) == [x \in 1 .. p |-> <<x - 1>>]
Squares(p) == [x \in 1 .. p |-> <<x - 1, x - 1>>]
Pairs(p) == [x \in 1 .. p |-> <<x - 1, p + x - 1>>]

(* One block of the vector: its sum, and the sum of its squares.            *)
LEMMA VectorWorker ==
  ASSUME NEW w \in Nat \ {0}, NEW p \in Nat, (w - 1) * PerWorker(w, p) <= p,
         2 ^ SizeBits \in Nat, p < 2 ^ SizeBits, NEW k \in 1 .. w
  PROVE  /\ WorkerResult(DivideVector(w, p), "real_sum", k) =
              IF Rows(w, p, k - 1) = 0 THEN <<>>
              ELSE <<BlockOf(Numbers(p), w, p, 1, k - 1)>>
         /\ WorkerResult(DivideVector(w, p), "real_statistics", k) =
              IF Rows(w, p, k - 1) = 0 THEN <<>>
              ELSE <<BlockOf(Numbers(p), w, p, 1, k - 1), BlockOf(Squares(p), w, p, 1, k - 1)>>
<1>1. PICK r \in Nat, a \in Nat, e \in Nat :
        /\ r = Rows(w, p, k - 1) /\ r = Extent(w, p, 1, k - 1)
        /\ a = Start(w, p, 1, k - 1) /\ e = End(w, p, 1, k - 1)
        /\ e - a = r /\ a + r <= p
        /\ \A G : BlockOf(G, w, p, 1, k - 1) = [j \in 1 .. r |-> G[a + j]]
  BY VectorFacts
<1>2. PICK chunk : chunk = Range0(a, e)
  OBVIOUS
<1>3. /\ e - a = r /\ a + r <= p
      /\ chunk = [j \in 1 .. r |-> a + j - 1] /\ Len(chunk) = r
  <2>1. e - a = r /\ a + r <= p
    BY <1>1, Zenon
  <2>2. e \in Int
    OBVIOUS
  <2>3. Range0(a, e) = [j \in 1 .. r |-> a + j - 1] /\ Len(Range0(a, e)) = r
    BY <2>1, <2>2, RangeIs, Zenon
  <2> QED BY <1>2, <2>1, <2>3, Zenon
<1>4. DivideVector(w, p).parts[k] = [size |-> r, chunk |-> chunk]
  BY <1>1, <1>2, VectorLoop
<1>5. /\ [j \in 1 .. r |-> <<chunk[j]>>] = BlockOf(Numbers(p), w, p, 1, k - 1)
      /\ [j \in 1 .. r |-> <<chunk[j], chunk[j]>>] = BlockOf(Squares(p), w, p, 1, k - 1)
  <2>1. \A j \in 1 .. r : a + j \in 1 .. p /\ chunk[j] = a + j - 1
    BY <1>3
  <2>2. ASSUME NEW j \in 1 .. r
        PROVE  /\ Numbers(p)[a + j] = <<chunk[j]>>
               /\ Squares(p)[a + j] = <<chunk[j], chunk[j]>>
    <3>1. PICK x \in 1 .. p : x = a + j /\ chunk[j] = x - 1
      BY <2>1
    <3>2. Numbers(p)[x] = <<x - 1>> /\ Squares(p)[x] = <<x - 1, x - 1>>
      BY DEF Numbers, Squares
    <3> QED BY <3>1, <3>2, Zenon
  <2>3. /\ BlockOf(Numbers(p), w, p, 1, k - 1) = [j \in 1 .. r |-> Numbers(p)[a + j]]
        /\ BlockOf(Squares(p), w, p, 1, k - 1) = [j \in 1 .. r |-> Squares(p)[a + j]]
    BY <1>1, Zenon
  <2> QED BY <2>2, <2>3, Zenon
<1>6. PICK ops : ops = Operands(chunk, <<>>)
  OBVIOUS
<1>7. ops.first = chunk /\ Len(ops.first) = r
  BY <1>3, <1>6 DEF Operands
<1>8. /\ Total([j \in 1 .. r |-> Number(ops.first[j])]) = BlockOf(Numbers(p), w, p, 1, k - 1)
      /\ Total([j \in 1 .. r |-> Product(ops.first[j], ops.first[j])])
           = BlockOf(Squares(p), w, p, 1, k - 1)
  <2>1. /\ Total([j \in 1 .. r |-> Number(chunk[j])]) = [j \in 1 .. r |-> <<chunk[j]>>]
        /\ Total([j \in 1 .. r |-> Product(chunk[j], chunk[j])])
             = [j \in 1 .. r |-> <<chunk[j], chunk[j]>>]
    BY TotalIs
  <2> QED BY <1>5, <1>7, <2>1, Zenon
<1>9. ASSUME NEW problem \in {"real_sum", "real_statistics"}
      PROVE  WorkerResult(DivideVector(w, p), problem, k) = Calculate(problem, r, ops)
  <2>1. \A share : Format(problem, r, share, chunk) = FormatVector(r, chunk)
    BY DEF Format
  <2>2. FormatVector(r, chunk) = ops
    BY <1>3, <1>6, Zenon DEF FormatVector
  <2>3. DivideVector(w, p).parts[k].size = r /\ DivideVector(w, p).parts[k].chunk = chunk
    BY <1>4
  <2> QED BY <2>1, <2>2, <2>3, Zenon DEF WorkerResult
<1>10. /\ Calculate("real_sum", r, ops) = CalculateSum(r, ops)
       /\ Calculate("real_statistics", r, ops) = CalculateStatistics(r, ops)
  BY DEF Calculate
<1>11. CalculateSum(r, ops) = IF r = 0 THEN <<>> ELSE <<BlockOf(Numbers(p), w, p, 1, k - 1)>>
  BY <1>7, <1>8, Zenon DEF CalculateSum
<1>12. CalculateStatistics(r, ops) =
         IF r = 0 THEN <<>>
         ELSE <<BlockOf(Numbers(p), w, p, 1, k - 1), BlockOf(Squares(p), w, p, 1, k - 1)>>
  BY <1>7, <1>8, Zenon DEF CalculateStatistics
<1>13. /\ WorkerResult(DivideVector(w, p), "real_sum", k) = CalculateSum(r, ops)
       /\ WorkerResult(DivideVector(w, p), "real_statistics", k) = CalculateStatistics(r, ops)
  BY <1>9, <1>10
<1> QED BY <1>1, <1>11, <1>12, <1>13, Zenon

(* The same block of both vectors: the sum of their products.               *)
LEMMA PairWorker ==
  ASSUME NEW w \in Nat \ {0}, NEW p \in Nat, (w - 1) * PerWorker(w, p) <= p,
         2 ^ SizeBits \in Nat, p < 2 ^ SizeBits, NEW k \in 1 .. w
  PROVE  WorkerResult(DividePair(w, p), "real_vector_multiply", k) =
           IF Rows(w, p, k - 1) = 0 THEN <<>>
           ELSE <<BlockOf(Pairs(p), w, p, 1, k - 1)>>
<1>1. PICK r \in Nat, a \in Nat, e \in Nat :
        /\ r = Rows(w, p, k - 1) /\ r = Extent(w, p, 1, k - 1)
        /\ a = Start(w, p, 1, k - 1) /\ e = End(w, p, 1, k - 1)
        /\ e - a = r /\ a + r <= p
        /\ \A G : BlockOf(G, w, p, 1, k - 1) = [j \in 1 .. r |-> G[a + j]]
  BY VectorFacts
<1>2. PICK xs, ys : xs = Range0(a, e) /\ ys = Range0(p + a, p + e)
  OBVIOUS
<1>3. xs = [j \in 1 .. r |-> a + j - 1] /\ ys = [j \in 1 .. r |-> p + a + j - 1]
  <2>1. e - a = r
    BY <1>1, Zenon
  <2>2. e \in Int /\ p + a \in Nat /\ p + e \in Int /\ (p + e) - (p + a) = r
    BY <2>1
  <2>3. Range0(a, e) = [j \in 1 .. r |-> a + j - 1]
    BY <2>1, <2>2, RangeIs, Zenon
  <2>4. Range0(p + a, p + e) = [j \in 1 .. r |-> (p + a) + j - 1]
    BY <2>2, RangeIs, Zenon
  <2> QED BY <1>2, <2>3, <2>4, Zenon
<1>4. DividePair(w, p).parts[k] = [size |-> r, chunk |-> xs \o ys]
  BY <1>1, <1>2, PairLoop
<1>5. Len(xs \o ys) = r * 2 /\ SubSeq(xs \o ys, 1, r) = xs /\ SubSeq(xs \o ys, r + 1, 2 * r) = ys
  <2>1. /\ DOMAIN xs = 1 .. r /\ DOMAIN ys = 1 .. r
        /\ xs = [j \in 1 .. r |-> xs[j]] /\ ys = [j \in 1 .. r |-> ys[j]]
    BY <1>3
  <2>2. Len(xs \o ys) = 2 * r /\ SubSeq(xs \o ys, 1, r) = xs /\ SubSeq(xs \o ys, r + 1, 2 * r) = ys
    BY <2>1, Halves
  <2> QED BY <2>2
<1>6. PICK ops : ops = Operands(xs, ys)
  OBVIOUS
<1>7. ops.first = xs /\ ops.second = ys /\ Len(xs) = r /\ Len(ys) = r
  BY <1>3, <1>6, LengthOf DEF Operands
<1>8. DotProduct(ops.first, 0, ops.second, 0, 1, r) = BlockOf(Pairs(p), w, p, 1, k - 1)
  <2>1. DotProduct(xs, 0, ys, 0, 1, r) = [j \in 1 .. r |-> <<xs[0 + j], ys[0 + (j - 1) * 1 + 1]>>]
    <3>1. DotProduct(xs, 0, ys, 0, 1, r) = DotTerms(xs, 0, ys, 0, 1, r)
      BY DotProductIs
    <3> QED BY <3>1, Zenon DEF DotTerms
  <2>2. ASSUME NEW j \in 1 .. r
        PROVE  <<xs[0 + j], ys[0 + (j - 1) * 1 + 1]>> = Pairs(p)[a + j]
    <3>1. 0 + j = j /\ 0 + (j - 1) * 1 + 1 = j /\ a + j \in 1 .. p
      <4>1. a + r <= p
        BY <1>1, Zenon
      <4> QED BY <4>1
    <3>2. xs[j] = a + j - 1 /\ ys[j] = p + a + j - 1 /\ p + a + j - 1 = p + (a + j) - 1
      BY <1>3
    <3> QED BY <3>1, <3>2 DEF Pairs
  <2>3. BlockOf(Pairs(p), w, p, 1, k - 1) = [j \in 1 .. r |-> Pairs(p)[a + j]]
    BY <1>1, Zenon
  <2>4. DotProduct(xs, 0, ys, 0, 1, r) = BlockOf(Pairs(p), w, p, 1, k - 1)
    BY <2>1, <2>2, <2>3, Zenon
  <2> QED BY <1>7, <2>4, Zenon
<1>9. WorkerResult(DividePair(w, p), "real_vector_multiply", k)
        = Calculate("real_vector_multiply", r, ops)
  <2>1. \A share, chunk : Format("real_vector_multiply", r, share, chunk) = FormatPair(r, chunk)
    BY DEF Format
  <2>2. FormatPair(r, xs \o ys) = ops
    BY <1>5, <1>6, Zenon DEF FormatPair
  <2>3. DividePair(w, p).parts[k].size = r /\ DividePair(w, p).parts[k].chunk = xs \o ys
    BY <1>4
  <2> QED BY <2>1, <2>2, <2>3, Zenon DEF WorkerResult
<1>10. Calculate("real_vector_multiply", r, ops) = CalculateVectorMultiply(r, ops)
  BY DEF Calculate
<1>11. CalculateVectorMultiply(r, ops) =
         IF r = 0 THEN <<>> ELSE <<BlockOf(Pairs(p), w, p, 1, k - 1)>>
  BY <1>7, <1>8, Zenon DEF CalculateVectorMultiply
<1> QED BY <1>1, <1>9, <1>10, <1>11, Zenon

-----------------------------------------------------------------------------
(* The workers of the matrix problems.                                     *)

(* An item within the first r rows is in one of them.                      *)
LEMMA RowAndColumn ==
  ASSUME NEW p \in Nat \ {0}, NEW r \in Nat, NEW c \in 1 .. r * p
  PROVE  (c - 1) \div p \in 0 .. r - 1 /\ (c - 1) % p \in 0 .. p - 1
<1>1. c \in Nat /\ c - 1 \in Nat /\ r * p \in Nat /\ c <= r * p
  OBVIOUS
<1>2. PICK q \in Nat, x \in 0 .. p - 1 :
        q = (c - 1) \div p /\ x = (c - 1) % p /\ c - 1 = p * q + x
  BY <1>1, Euclid
<1>3. q < r
  <2>1. CASE r <= q
    <3>1. r * p <= q * p /\ q * p \in Nat /\ p * q = q * p
      BY <2>1, Monotone
    <3> QED BY <1>1, <1>2, <3>1
  <2> QED BY <2>1
<1> QED BY <1>2, <1>3

(* The numbers at n positions of the input, from the one after b on.        *)
ItemsFrom(b, n, chunk) == chunk = [j \in 1 .. n |-> b + j - 1]

(* divide() hands worker k of a matrix that begins at base the r rows after  *)
(* the first a.                                                            *)
HandsOut(w, p, base, share, k, r, a, chunk) ==
  /\ r = Rows(w, p, k - 1) /\ a + r <= p
  /\ a * p = Start(w, p, p, k - 1) /\ a = Start(w, p, 1, k - 1)
  /\ ItemsFrom(base + a * p, r * p, chunk) /\ Len(chunk) = r * p
  /\ DivideRows(w, p, base, share).parts[k] = [size |-> r, chunk |-> chunk]
  /\ DivideRows(w, p, base, share).share = share

(* What divide() hands out to worker k: its rows, from the base on.         *)
LEMMA RowsWorker ==
  ASSUME NEW w \in Nat \ {0}, NEW p \in Nat \ {0}, (w - 1) * PerWorker(w, p) <= p,
         2 ^ SizeBits \in Nat, p * p < 2 ^ SizeBits, NEW k \in 1 .. w,
         NEW base \in Nat, NEW share
  PROVE  \E r \in Nat, a \in Nat : \E chunk : HandsOut(w, p, base, share, k, r, a, chunk)
<1>1. p \in Nat /\ p > 0
  OBVIOUS
<1>2. /\ Rows(w, p, k - 1) \in Nat
      /\ Extent(w, p, p, k - 1) = Rows(w, p, k - 1) * p
      /\ Start(w, p, p, k - 1) \in Nat /\ End(w, p, p, k - 1) \in Nat
      /\ End(w, p, p, k - 1) - Start(w, p, p, k - 1) = Rows(w, p, k - 1) * p
      /\ Start(w, p, p, k - 1) = RowsBefore(w, p, k - 1) * p
      /\ RowsBefore(w, p, k - 1) \in Nat
      /\ RowsBefore(w, p, k - 1) + Rows(w, p, k - 1) <= p
  BY <1>1, BlockFacts, Zenon
<1>3. PICK r \in Nat, a \in Nat, s \in Nat, e \in Nat :
        /\ r = Rows(w, p, k - 1) /\ a = RowsBefore(w, p, k - 1)
        /\ s = Start(w, p, p, k - 1) /\ e = End(w, p, p, k - 1)
  BY <1>2, Zenon
<1>4. s = a * p /\ e - s = r * p /\ Extent(w, p, p, k - 1) = r * p /\ a + r <= p
  BY <1>2, <1>3, Zenon
<1>5. r * p \in Nat /\ (r * p) \div p = r
  OBVIOUS
<1>6. PICK chunk : chunk = Range0(base + s, base + e)
  OBVIOUS
<1>7. chunk = [j \in 1 .. r * p |-> base + a * p + j - 1] /\ Len(chunk) = r * p
  <2>1. base + s \in Nat /\ base + e \in Int /\ (base + e) - (base + s) = r * p
    BY <1>4
  <2>2. Range0(base + s, base + e) = [j \in 1 .. r * p |-> (base + s) + j - 1]
        /\ Len(Range0(base + s, base + e)) = r * p
    BY <1>5, <2>1, RangeIs, Zenon
  <2> QED BY <1>4, <1>6, <2>2, Zenon
<1>8. /\ DivideRows(w, p, base, share).parts[k] =
           [size  |-> Extent(w, p, p, k - 1) \div p,
            chunk |-> Range0(base + Start(w, p, p, k - 1), base + End(w, p, p, k - 1))]
      /\ DivideRows(w, p, base, share).share = share
  BY RowsLoop, SMTT(30)
<1>9. DivideRows(w, p, base, share).parts[k] = [size |-> r, chunk |-> chunk]
  BY <1>3, <1>4, <1>5, <1>6, <1>8, Zenon
<1>10. a = Start(w, p, 1, k - 1)
  <2>1. RowsBefore(w, p, k - 1) = (k - 1) * PerWorker(w, p)
    BY RowsAddUp, Zenon
  <2>2. Start(w, p, 1, k - 1) = a * 1 /\ a * 1 = a
    BY <1>3, <2>1 DEF Start
  <2> QED BY <2>2
<1>11. HandsOut(w, p, base, share, k, r, a, chunk)
  BY <1>3, <1>4, <1>7, <1>8, <1>9, <1>10, Zenon DEF HandsOut, ItemsFrom
<1> QED BY <1>11, Zenon

(* The terms of a row of the matrix times the vector.                      *)
RowTerms(p) == [row \in 1 .. p |-> [j \in 1 .. p |-> <<row * p + j - 1, j - 1>>]]

(* The position in a matrix of p columns of the i-th item from the row on.  *)
LEMMA Position ==
  ASSUME NEW p \in Nat, NEW r \in Nat, NEW row \in 0 .. r - 1, NEW i \in 1 .. p
  PROVE  row * p + i \in 1 .. r * p
<1>1. row + 1 \in Nat /\ row + 1 <= r /\ row \in Nat
  OBVIOUS
<1>2. (row + 1) * p <= r * p /\ (row + 1) * p = row * p + p /\ row * p \in Nat /\ r * p \in Nat
  BY <1>1, Monotone
<1> QED BY <1>2

(* Every row of the worker's times the vector.                              *)
LEMMA MatrixVectorWorker ==
  ASSUME NEW w \in Nat \ {0}, NEW p \in Nat \ {0}, (w - 1) * PerWorker(w, p) <= p,
         2 ^ SizeBits \in Nat, p * p < 2 ^ SizeBits, NEW k \in 1 .. w
  PROVE  WorkerResult(DivideMatrixVector(w, p), "real_matrix_vector_multiply", k)
           = BlockOf(RowTerms(p), w, p, 1, k - 1)
<1>1. PICK share : share = Range0(0, p)
  OBVIOUS
<1>2. share = [j \in 1 .. p |-> 0 + j - 1] /\ Len(share) = p
  <2>1. 0 \in Nat /\ p \in Nat /\ p \in Int /\ p - 0 = p
    OBVIOUS
  <2>2. Range0(0, p) = [j \in 1 .. p |-> 0 + j - 1] /\ Len(Range0(0, p)) = p
    BY <2>1, RangeIs, Zenon
  <2> QED BY <1>1, <2>2, Zenon
<1>3. DivideMatrixVector(w, p) = DivideRows(w, p, p, share)
  BY <1>1, Zenon DEF DivideMatrixVector
<1>part. PICK r \in Nat, a \in Nat : \E chunk : HandsOut(w, p, p, share, k, r, a, chunk)
  <2>1. p \in Nat
    OBVIOUS
  <2> QED BY <2>1, RowsWorker, Zenon
<1>4. PICK chunk : HandsOut(w, p, p, share, k, r, a, chunk)
  BY <1>part, Zenon
<1>5. PICK d : d = DivideMatrixVector(w, p)
  OBVIOUS
<1>6. d.parts[k].size = r /\ d.parts[k].chunk = chunk /\ d.share = share
  <2>1. d.parts[k] = [size |-> r, chunk |-> chunk] /\ d.share = share
    BY <1>3, <1>4, <1>5, Zenon DEF HandsOut
  <2> QED BY <2>1
<1>7. PICK ops : ops = Operands(chunk, share)
  OBVIOUS
<1>8. ops.first = chunk /\ ops.second = share
  BY <1>7 DEF Operands
<1>9. Len(chunk) = r * Len(share) /\ Len(chunk) = r * p
  BY <1>2, <1>4, Zenon DEF HandsOut
<1>10. WorkerResult(d, "real_matrix_vector_multiply", k) = CalculateMatrixVector(r, ops)
  <2>1. Format("real_matrix_vector_multiply", r, share, chunk)
          = FormatMatrixVector(r, share, chunk)
    BY DEF Format
  <2>2. FormatMatrixVector(r, share, chunk) = ops
    BY <1>7, <1>9, Zenon DEF FormatMatrixVector
  <2>3. Calculate("real_matrix_vector_multiply", r, ops) = CalculateMatrixVector(r, ops)
    BY DEF Calculate
  <2> QED BY <1>6, <2>1, <2>2, <2>3, Zenon DEF WorkerResult
<1>11. a = Start(w, p, 1, k - 1) /\ a + r <= p /\ chunk = [j \in 1 .. r * p |-> p + a * p + j - 1]
  BY <1>4, Zenon DEF HandsOut, ItemsFrom
<1>12. BlockOf(RowTerms(p), w, p, 1, k - 1) = [x \in 1 .. r |-> RowTerms(p)[a + x]]
  <2>1. r * 1 = r
    OBVIOUS
  <2>2. r = Rows(w, p, k - 1)
    BY <1>4, Zenon DEF HandsOut
  <2> QED BY <1>11, <2>1, <2>2, Zenon DEF BlockOf
<1>13. CASE r = 0
  <2>1. chunk = <<>>
    BY <1>11, <1>13
  <2>2. CalculateMatrixVector(r, ops) = <<>>
    BY <1>8, <2>1, Zenon DEF CalculateMatrixVector
  <2>3. [x \in 1 .. r |-> RowTerms(p)[a + x]] = <<>>
    BY <1>13
  <2> QED BY <1>5, <1>10, <1>12, <2>2, <2>3, Zenon
<1>14. CASE r # 0
  <2>1. chunk # <<>> /\ p # 0
    <3>1. r * p # 0
      BY <1>14
    <3> QED BY <1>9, <3>1
  <2>2. CalculateMatrixVector(r, ops) = [x \in 1 .. r |-> DotProduct(chunk, (x - 1) * p, share, 0, 1, p)]
    BY <1>2, <1>8, <1>9, <2>1, Zenon DEF CalculateMatrixVector
  <2>3. ASSUME NEW x \in 1 .. r
        PROVE  DotProduct(chunk, (x - 1) * p, share, 0, 1, p) = RowTerms(p)[a + x]
    <3>1. DotProduct(chunk, (x - 1) * p, share, 0, 1, p) =
            [j \in 1 .. p |-> <<chunk[(x - 1) * p + j], share[0 + (j - 1) * 1 + 1]>>]
      <4>1. DotProduct(chunk, (x - 1) * p, share, 0, 1, p)
              = DotTerms(chunk, (x - 1) * p, share, 0, 1, p)
        BY DotProductIs
      <4> QED BY <4>1, Zenon DEF DotTerms
    <3>2. PICK row \in 1 .. p : row = a + x
      BY <1>11
    <3>3. RowTerms(p)[a + x] = [j \in 1 .. p |-> <<row * p + j - 1, j - 1>>]
      BY <3>2 DEF RowTerms
    <3>4. ASSUME NEW j \in 1 .. p
          PROVE  <<chunk[(x - 1) * p + j], share[0 + (j - 1) * 1 + 1]>> = <<row * p + j - 1, j - 1>>
      <4>1. 0 + (j - 1) * 1 + 1 = j
        OBVIOUS
      <4>2. share[j] = j - 1
        BY <1>2
      <4>3. PICK i \in 1 .. r * p : i = (x - 1) * p + j
        <5>1. x - 1 \in 0 .. r - 1
          OBVIOUS
        <5> QED BY <5>1, Position
      <4>4. chunk[i] = p + a * p + i - 1
        BY <1>11
      <4>5. row * p = a * p + (x - 1) * p + p
        BY <3>2
      <4>6. chunk[i] = row * p + j - 1
        <5>1. a * p \in Nat /\ (x - 1) * p \in Nat /\ row * p \in Nat
          OBVIOUS
        <5> QED BY <4>3, <4>4, <4>5, <5>1
      <4> QED BY <4>1, <4>2, <4>3, <4>6, Zenon
    <3> QED BY <3>1, <3>3, <3>4, Zenon
  <2> QED BY <1>5, <1>10, <1>12, <2>2, <2>3, Zenon
<1> QED BY <1>13, <1>14

(* Where the second matrix keeps its elements.                             *)
ByRows(p) == [i \in 0 .. p - 1 |-> [col \in 0 .. p - 1 |-> RowByRow(p, i, col)]]
ByColumns(p) == [i \in 0 .. p - 1 |-> [col \in 0 .. p - 1 |-> ColumnByColumn(p, i, col)]]

(* The terms of a cell of the product, and of all the cells.               *)
CellTerms(p, second, row, col) == [i \in 1 .. p |-> <<row * p + i - 1, second[i - 1][col]>>]
MatrixTerms(p, second) ==
  [x \in 1 .. p * p |-> CellTerms(p, second, (x - 1) \div p, (x - 1) % p)]

(* Worker k's cells are those of its rows.                                 *)
LEMMA CellOfBlock ==
  ASSUME NEW p \in Nat \ {0}, NEW r \in Nat, NEW a \in Nat, a + r <= p, NEW c \in 1 .. r * p,
         NEW second
  PROVE  MatrixTerms(p, second)[a * p + c] =
           CellTerms(p, second, a + (c - 1) \div p, (c - 1) % p)
<1>1. a * p \in Nat /\ r * p \in Nat /\ c - 1 \in Nat /\ p * p \in Nat
  OBVIOUS
<1>2. a * p + c \in 1 .. p * p
  <2>1. a + r \in Nat /\ (a + r) * p <= p * p /\ (a + r) * p = a * p + r * p
    BY Monotone
  <2> QED BY <1>1, <2>1
<1>3. PICK x \in 1 .. p * p : x = a * p + c
  BY <1>2
<1>4. x - 1 = a * p + (c - 1)
  BY <1>1, <1>3
<1>5. (x - 1) \div p = a + (c - 1) \div p /\ (x - 1) % p = (c - 1) % p
  <2>1. /\ (a * p + (c - 1)) \div p = a + (c - 1) \div p
        /\ (a * p + (c - 1)) % p = (c - 1) % p
    BY <1>1, DivisionShifted, Zenon
  <2> QED BY <1>4, <2>1, Zenon
<1>6. MatrixTerms(p, second)[x] = CellTerms(p, second, (x - 1) \div p, (x - 1) % p)
  BY DEF MatrixTerms
<1> QED BY <1>3, <1>5, <1>6, Zenon

(* A dot product of p pairs, one tile after another.                       *)
TiledProduct(p, xs, x0, ys, y0) ==
  FlattenSeq([b \in 1 .. (p + TileSize - 1) \div TileSize |->
    DotProduct(xs, x0 + (b - 1) * TileSize, ys, y0 + (b - 1) * TileSize, 1,
               Min({TileSize, p - (b - 1) * TileSize}))])

(* The tiles of a dot product, one behind the other, are the whole.        *)
LEMMA TilesTogether ==
  ASSUME NEW p \in Nat \ {0}, NEW xs, NEW x0 \in Nat, NEW ys, NEW y0 \in Nat
  PROVE  TiledProduct(p, xs, x0, ys, y0) = DotTerms(xs, x0, ys, y0, 1, p)
<1>1. PICK t \in Nat \ {0} : t = TileSize
  BY ProblemsAssumption
<1>2. PICK n \in Nat, m \in 0 .. t - 1 : n = (p + t - 1) \div t /\ p + t - 1 = t * n + m
  <2>1. p + t - 1 \in Nat
    OBVIOUS
  <2> QED BY <2>1, Euclid
<1>3. n > 0 /\ n * t \in Nat /\ p <= n * t /\ (n - 1) * t < p
  <2>1. t * n = n * t /\ n * t \in Nat
    OBVIOUS
  <2>2. (n - 1) * t = n * t - t
    OBVIOUS
  <2>3. n # 0
    BY <1>2, <2>1
  <2> QED BY <1>2, <2>1, <2>2, <2>3
<1> DEFINE G == [i \in 1 .. p |-> <<xs[x0 + i], ys[y0 + i]>>]
           cut == [b \in 0 .. n |-> IF b * t <= p THEN b * t ELSE p]
           tile(b) == DotProduct(xs, x0 + (b - 1) * t, ys, y0 + (b - 1) * t, 1,
                                 Min({t, p - (b - 1) * t}))
           ss == [b \in 1 .. n |-> tile(b)]
<1>4. cut \in [0 .. n -> Nat]
  <2>1. \A b \in 0 .. n : b * t \in Nat
    OBVIOUS
  <2> QED BY <2>1
<1>5. cut[0] = 0 /\ cut[n] = p
  <2>1. 0 * t = 0
    OBVIOUS
  <2> QED BY <1>3, <2>1
<1>6. ASSUME NEW b \in 1 .. n
      PROVE  cut[b - 1] <= cut[b] /\ ss[b] = Stretch(G, cut[b - 1], cut[b])
  <2>1. b - 1 \in Nat /\ n - 1 \in Nat /\ b - 1 <= n - 1 /\ b \in 0 .. n /\ b - 1 \in 0 .. n
    BY <1>3
  <2>2. PICK x \in Nat : x = (b - 1) * t /\ b * t = x + t /\ x <= p /\ x < p
    <3>1. (b - 1) * t <= (n - 1) * t /\ (b - 1) * t \in Nat /\ (n - 1) * t \in Nat
      BY <2>1, Monotone
    <3>2. b * t = (b - 1) * t + t
      OBVIOUS
    <3> QED BY <1>3, <3>1, <3>2
  <2>3. cut[b - 1] = x
    BY <2>1, <2>2
  <2>4. PICK y \in Nat : y = cut[b] /\ y = (IF x + t <= p THEN x + t ELSE p)
    BY <2>1, <2>2
  <2>5. Min({t, p - x}) = y - x
    <3>1. t \in Int /\ p - x \in Int
      OBVIOUS
    <3>2. Min({t, p - x}) = IF t <= p - x THEN t ELSE p - x
      BY <3>1, MinOfTwo
    <3> QED BY <2>2, <2>4, <3>2
  <2>6. ss[b] = tile(b)
    OBVIOUS
  <2>7. tile(b) = DotProduct(xs, x0 + x, ys, y0 + x, 1, y - x)
    BY <2>2, <2>5, Zenon
  <2> HIDE DEF cut, tile, ss
  <2>8. x <= y /\ y <= p /\ y - x \in Nat
    BY <2>2, <2>4
  <2>9. DotProduct(xs, x0 + x, ys, y0 + x, 1, y - x) = DotTerms(xs, x0 + x, ys, y0 + x, 1, y - x)
    BY <2>8, DotProductIs
  <2>10. DotTerms(xs, x0 + x, ys, y0 + x, 1, y - x) = Stretch(G, x, y)
    <3>1. ASSUME NEW k \in 1 .. y - x
          PROVE  <<xs[x0 + x + k], ys[y0 + x + (k - 1) * 1 + 1]>> = G[x + k]
      <4>1. x + k \in 1 .. p /\ x0 + x + k = x0 + (x + k) /\ y0 + x + (k - 1) * 1 + 1 = y0 + (x + k)
        BY <2>8
      <4>2. G[x + k] = <<xs[x0 + (x + k)], ys[y0 + (x + k)]>>
        BY <4>1, Zenon
      <4> QED BY <4>1, <4>2, Zenon
    <3> HIDE DEF G
    <3> QED BY <3>1, Zenon DEF DotTerms, Stretch
  <2> QED BY <2>3, <2>4, <2>6, <2>7, <2>8, <2>9, <2>10, Zenon
<1>7. ss = [b \in 1 .. n |-> ss[b]] /\ G = [i \in 1 .. p |-> G[i]]
  OBVIOUS
<1>8. ss = [b \in 1 .. (p + TileSize - 1) \div TileSize |->
           DotProduct(xs, x0 + (b - 1) * TileSize, ys, y0 + (b - 1) * TileSize, 1,
                      Min({TileSize, p - (b - 1) * TileSize}))]
  BY <1>1, <1>2, Zenon
<1> HIDE DEF ss, cut, tile, G
<1>9. ss = [b \in 1 .. n |-> Stretch(G, cut[b - 1], cut[b])]
  BY <1>6, <1>7, Zenon
<1>10. G = [i \in 1 .. cut[n] |-> G[i]] /\ \A b \in 1 .. n : cut[b - 1] <= cut[b]
  BY <1>5, <1>6, <1>7, Zenon
<1>11. CutInto(G, n, cut, ss)
  BY <1>4, <1>5, <1>9, <1>10, Zenon DEF CutInto
<1>12. FlattenSeq(ss) = G
  BY <1>11, FlattenOfBlocks, Zenon
<1>13. TiledProduct(p, xs, x0, ys, y0) = G
  BY <1>8, <1>12, Zenon DEF TiledProduct
<1>14. ASSUME NEW i \in 1 .. p
       PROVE  <<xs[x0 + i], ys[y0 + i]>> = <<xs[x0 + i], ys[y0 + (i - 1) * 1 + 1]>>
  <2>1. y0 + (i - 1) * 1 + 1 = y0 + i
    OBVIOUS
  <2> QED BY <2>1, Zenon
<1> QED BY <1>13, <1>14, Zenon DEF G, DotTerms

Multiplies(w, p, k, r, a, chunk, share) ==
  /\ HandsOut(w, p, 0, share, k, r, a, chunk)
  /\ ItemsFrom(p * p, p * p, share)
  /\ Len(share) = p * p /\ SideOf(Len(share)) = p
  /\ WorkerResult(DivideMatrices(w, p), "real_naive_matrix_multiply", k)
       = CalculateNaive(r, Operands(chunk, share))
  /\ WorkerResult(DivideMatrices(w, p), "real_tiled_matrix_multiply", k)
       = CalculateTiled(r, Operands(chunk, share))

(* The operands of worker k.                                               *)
LEMMA MatricesWorker ==
  ASSUME NEW w \in Nat \ {0}, NEW p \in Nat \ {0}, (w - 1) * PerWorker(w, p) <= p,
         2 ^ SizeBits \in Nat, p * p < 2 ^ SizeBits, NEW k \in 1 .. w
  PROVE  \E r \in Nat, a \in Nat : \E chunk, share : Multiplies(w, p, k, r, a, chunk, share)
<1>1. PICK share : share = Range0(p * p, 2 * p * p)
  OBVIOUS
<1>2. share = [y \in 1 .. p * p |-> p * p + y - 1] /\ Len(share) = p * p
  <2>1. p * p \in Nat /\ 2 * p * p \in Int /\ 2 * p * p - p * p = p * p
    OBVIOUS
  <2>2. Range0(p * p, 2 * p * p) = [y \in 1 .. p * p |-> p * p + y - 1]
        /\ Len(Range0(p * p, 2 * p * p)) = p * p
    BY <2>1, RangeIs, Zenon
  <2> QED BY <1>1, <2>2, Zenon
<1>3. SideOf(Len(share)) = p
  <2>1. SideOf(p * p) = p
    BY SideOfSquare
  <2> QED BY <1>2, <2>1, Zenon
<1>4. DivideMatrices(w, p) = DivideRows(w, p, 0, share)
  BY <1>1, Zenon DEF DivideMatrices
<1>part. PICK r \in Nat, a \in Nat : \E chunk : HandsOut(w, p, 0, share, k, r, a, chunk)
  <2>1. 0 \in Nat
    OBVIOUS
  <2> QED BY <2>1, RowsWorker, Zenon
<1>5. PICK chunk : HandsOut(w, p, 0, share, k, r, a, chunk)
  BY <1>part, Zenon
<1>6. PICK d : d = DivideMatrices(w, p)
  OBVIOUS
<1>7. d.parts[k].size = r /\ d.parts[k].chunk = chunk /\ d.share = share
  <2>1. d.parts[k] = [size |-> r, chunk |-> chunk] /\ d.share = share
    BY <1>4, <1>5, <1>6, Zenon DEF HandsOut
  <2> QED BY <2>1
<1>8. PICK ops : ops = Operands(chunk, share)
  OBVIOUS
<1>9. FormatMatrices(r, share, chunk) = ops
  <2>1. Len(chunk) = r * p
    BY <1>5, Zenon DEF HandsOut
  <2> QED BY <1>2, <1>3, <1>8, <2>1, Zenon DEF FormatMatrices
<1>10. ASSUME NEW problem \in {"real_naive_matrix_multiply", "real_tiled_matrix_multiply"}
       PROVE  WorkerResult(d, problem, k) = Calculate(problem, r, ops)
  <2>1. Format(problem, r, share, chunk) = FormatMatrices(r, share, chunk)
    BY DEF Format
  <2> QED BY <1>7, <1>9, <2>1, Zenon DEF WorkerResult
<1>11. /\ Calculate("real_naive_matrix_multiply", r, ops) = CalculateNaive(r, ops)
       /\ Calculate("real_tiled_matrix_multiply", r, ops) = CalculateTiled(r, ops)
  BY DEF Calculate
<1>12. /\ WorkerResult(d, "real_naive_matrix_multiply", k) = CalculateNaive(r, ops)
       /\ WorkerResult(d, "real_tiled_matrix_multiply", k) = CalculateTiled(r, ops)
  BY <1>10, <1>11
<1> QED BY <1>2, <1>3, <1>5, <1>6, <1>8, <1>12, Zenon DEF ItemsFrom, Multiplies

(* A worker has the r rows after the first a, and is at one of them and at   *)
(* a column.                                                               *)
AtCell(p, r, a, row, col, chunk, share) ==
  /\ p \in Nat \ {0} /\ r \in Nat /\ a \in Nat
  /\ row \in 0 .. r - 1 /\ col \in 0 .. p - 1
  /\ ItemsFrom(0 + a * p, r * p, chunk) /\ ItemsFrom(p * p, p * p, share)

(* What an item of worker k's rows, and one of the second matrix, stands for. *)
LEMMA CellReads ==
  ASSUME NEW p, NEW r, NEW a, NEW row, NEW col, NEW chunk, NEW share,
         AtCell(p, r, a, row, col, chunk, share), NEW i \in 1 .. p
  PROVE  /\ chunk[row * p + i] = (a + row) * p + i - 1
         /\ share[col + (i - 1) * p + 1] = RowByRow(p, i - 1, col)
         /\ share[col * p + i] = ColumnByColumn(p, i - 1, col)
<1> USE DEF AtCell
<1>1. a * p \in Nat /\ row * p \in Nat /\ p * p \in Nat /\ (i - 1) * p \in Nat /\ col * p \in Nat
      /\ (a + row) * p = a * p + row * p
  OBVIOUS
<1>2. chunk[row * p + i] = (a + row) * p + i - 1
  <2>1. PICK x \in 1 .. r * p : x = row * p + i
    BY Position
  <2>2. chunk[x] = 0 + a * p + x - 1
    BY DEF ItemsFrom
  <2> QED BY <1>1, <2>1, <2>2
<1>3. share[col + (i - 1) * p + 1] = RowByRow(p, i - 1, col)
  <2>1. PICK x \in 1 .. p * p : x = col + (i - 1) * p + 1
    <3>1. i - 1 \in 0 .. p - 1 /\ col + 1 \in 1 .. p /\ p \in Nat
      OBVIOUS
    <3>2. (i - 1) * p + (col + 1) \in 1 .. p * p
      BY <3>1, Position
    <3>3. (i - 1) * p + (col + 1) = col + (i - 1) * p + 1
      BY <1>1
    <3> QED BY <3>2, <3>3, Zenon
  <2>2. share[x] = p * p + x - 1
    BY DEF ItemsFrom
  <2>3. p * p + x - 1 = p * p + (i - 1) * p + col
    BY <1>1, <2>1
  <2> QED BY <2>1, <2>2, <2>3, Zenon DEF RowByRow
<1>4. share[col * p + i] = ColumnByColumn(p, i - 1, col)
  <2>1. PICK x \in 1 .. p * p : x = col * p + i
    <3>1. p \in Nat
      OBVIOUS
    <3> QED BY <3>1, Position
  <2>2. share[x] = p * p + x - 1
    BY DEF ItemsFrom
  <2>3. p * p + x - 1 = p * p + col * p + (i - 1)
    BY <1>1, <2>1
  <2> QED BY <2>1, <2>2, <2>3, Zenon DEF ColumnByColumn
<1> QED BY <1>2, <1>3, <1>4

(* The cell of a row and a column, multiplied by rows and in tiles.        *)
NaiveCell(p, chunk, share, row, col) == DotProduct(chunk, row * p, share, col, p, p)

TiledCell(p, chunk, share, row, col) == TiledProduct(p, chunk, row * p, share, col * p)

(* The cells of the two workloads: a row times a column, whole or in tiles. *)
LEMMA CellIs ==
  ASSUME NEW p, NEW r, NEW a, NEW row, NEW col, NEW chunk, NEW share,
         AtCell(p, r, a, row, col, chunk, share)
  PROVE  /\ NaiveCell(p, chunk, share, row, col) = CellTerms(p, ByRows(p), a + row, col)
         /\ TiledCell(p, chunk, share, row, col) = CellTerms(p, ByColumns(p), a + row, col)
<1>1. ASSUME NEW i \in 1 .. p
      PROVE  /\ chunk[row * p + i] = (a + row) * p + i - 1
             /\ share[col + (i - 1) * p + 1] = ByRows(p)[i - 1][col]
             /\ share[col * p + i] = ByColumns(p)[i - 1][col]
  <2>1. /\ chunk[row * p + i] = (a + row) * p + i - 1
        /\ share[col + (i - 1) * p + 1] = RowByRow(p, i - 1, col)
        /\ share[col * p + i] = ColumnByColumn(p, i - 1, col)
    BY CellReads
  <2>2. PICK y \in 0 .. p - 1 : y = i - 1
    BY DEF AtCell
  <2>3. ByRows(p)[y][col] = RowByRow(p, y, col) /\ ByColumns(p)[y][col] = ColumnByColumn(p, y, col)
    <3>1. col \in 0 .. p - 1
      BY DEF AtCell
    <3> QED BY <3>1 DEF ByRows, ByColumns
  <2> QED BY <2>1, <2>2, <2>3, Zenon
<1>2. NaiveCell(p, chunk, share, row, col) = CellTerms(p, ByRows(p), a + row, col)
  <2>1. DotProduct(chunk, row * p, share, col, p, p) = DotTerms(chunk, row * p, share, col, p, p)
    <3>1. p \in Nat
      BY DEF AtCell
    <3> QED BY <3>1, DotProductIs
  <2> QED BY <1>1, <2>1, Zenon DEF NaiveCell, CellTerms, DotTerms
<1>3. TiledCell(p, chunk, share, row, col) = CellTerms(p, ByColumns(p), a + row, col)
  <2>1. PICK x0 \in Nat, y0 \in Nat : x0 = row * p /\ y0 = col * p
    BY DEF AtCell
  <2>2. TiledProduct(p, chunk, x0, share, y0) = DotTerms(chunk, x0, share, y0, 1, p)
    <3>1. p \in Nat \ {0}
      BY DEF AtCell
    <3> QED BY <3>1, TilesTogether
  <2>3. ASSUME NEW i \in 1 .. p
        PROVE  <<chunk[x0 + i], share[y0 + (i - 1) * 1 + 1]>>
                 = <<(a + row) * p + i - 1, ByColumns(p)[i - 1][col]>>
    <3>1. y0 + (i - 1) * 1 + 1 = y0 + i
      OBVIOUS
    <3> QED BY <1>1, <2>1, <3>1, Zenon
  <2> QED BY <2>1, <2>2, <2>3, Zenon DEF TiledCell, CellTerms, DotTerms
<1> QED BY <1>2, <1>3

(* The cells of the worker's rows, one after another.                       *)
LEMMA MatricesWorkerIs ==
  ASSUME NEW w \in Nat \ {0}, NEW p \in Nat \ {0}, (w - 1) * PerWorker(w, p) <= p,
         2 ^ SizeBits \in Nat, p * p < 2 ^ SizeBits, NEW k \in 1 .. w
  PROVE  /\ WorkerResult(DivideMatrices(w, p), "real_naive_matrix_multiply", k)
              = BlockOf(MatrixTerms(p, ByRows(p)), w, p, p, k - 1)
         /\ WorkerResult(DivideMatrices(w, p), "real_tiled_matrix_multiply", k)
              = BlockOf(MatrixTerms(p, ByColumns(p)), w, p, p, k - 1)
<1>part. PICK r \in Nat, a \in Nat : \E chunk, share : Multiplies(w, p, k, r, a, chunk, share)
  BY MatricesWorker, Zenon
<1>1. PICK chunk, share :
        /\ HandsOut(w, p, 0, share, k, r, a, chunk)
        /\ ItemsFrom(p * p, p * p, share)
        /\ Len(share) = p * p /\ SideOf(Len(share)) = p
        /\ WorkerResult(DivideMatrices(w, p), "real_naive_matrix_multiply", k)
             = CalculateNaive(r, Operands(chunk, share))
        /\ WorkerResult(DivideMatrices(w, p), "real_tiled_matrix_multiply", k)
             = CalculateTiled(r, Operands(chunk, share))
  BY <1>part, Zenon DEF Multiplies
<1>2. PICK ops : ops = Operands(chunk, share)
  OBVIOUS
<1>3. ops.first = chunk /\ ops.second = share
  BY <1>2 DEF Operands
<1>4. /\ r = Rows(w, p, k - 1) /\ a + r <= p
      /\ a * p = Start(w, p, p, k - 1)
      /\ ItemsFrom(0 + a * p, r * p, chunk) /\ Len(chunk) = r * p
  BY <1>1, Zenon DEF HandsOut
<1>5. CASE r = 0
  <2>1. chunk = <<>>
    <3>1. chunk = [j \in 1 .. r * p |-> 0 + a * p + j - 1]
      BY <1>4, Zenon DEF ItemsFrom
    <3> QED BY <1>5, <3>1
  <2>2. CalculateNaive(r, ops) = <<>> /\ CalculateTiled(r, ops) = <<>>
    BY <1>3, <2>1, Zenon DEF CalculateNaive, CalculateTiled, Cells
  <2>3. r * p = 0
    BY <1>5
  <2>4. \A G : BlockOf(G, w, p, p, k - 1) = [j \in 1 .. 0 |-> G[Start(w, p, p, k - 1) + j]]
    BY <1>4, <2>3, Zenon DEF BlockOf
  <2>5. \A G : BlockOf(G, w, p, p, k - 1) = <<>>
    BY <2>4
  <2> QED BY <1>1, <1>2, <2>2, <2>5, Zenon
<1>6. CASE r # 0
  <2>1. chunk # <<>> /\ p # 0
    <3>1. r * p # 0
      BY <1>6
    <3> QED BY <1>4, <3>1
  <2>2. CalculateNaive(r, ops) =
          [c \in 1 .. r * p |-> NaiveCell(p, chunk, share, (c - 1) \div p, (c - 1) % p)]
    BY <1>1, <1>3, <1>4, <2>1, Zenon DEF CalculateNaive, Cells, NaiveCell
  <2>3. CalculateTiled(r, ops) =
          [c \in 1 .. r * p |-> TiledCell(p, chunk, share, (c - 1) \div p, (c - 1) % p)]
    <3> DEFINE n == (p + TileSize - 1) \div TileSize
               Tiles == [b \in 1 .. n |-> (b - 1) * TileSize]
    <3>1. DOMAIN Tiles = 1 .. n /\ \A b \in 1 .. n : Tiles[b] = (b - 1) * TileSize
      OBVIOUS
    <3>2. CalculateTiled(r, ops) =
            [c \in 1 .. r * p |->
               Total([b \in DOMAIN Tiles |->
                 DotProduct(chunk, ((c - 1) \div p) * p + Tiles[b],
                            share, ((c - 1) % p) * p + Tiles[b], 1,
                            Min({TileSize, p - Tiles[b]}))])]
      BY <1>1, <1>3, <1>4, <2>1, Zenon DEF CalculateTiled, Cells
    <3> HIDE DEF Tiles
    <3> QED BY <3>1, <3>2, Zenon DEF TiledCell, TiledProduct, Total
  <2>4. ASSUME NEW c \in 1 .. r * p
        PROVE  /\ NaiveCell(p, chunk, share, (c - 1) \div p, (c - 1) % p)
                    = MatrixTerms(p, ByRows(p))[a * p + c]
               /\ TiledCell(p, chunk, share, (c - 1) \div p, (c - 1) % p)
                    = MatrixTerms(p, ByColumns(p))[a * p + c]
    <3>1. PICK row \in 0 .. r - 1, col \in 0 .. p - 1 : row = (c - 1) \div p /\ col = (c - 1) % p
      BY RowAndColumn
    <3>2. \A second : MatrixTerms(p, second)[a * p + c] = CellTerms(p, second, a + row, col)
      BY <1>4, <3>1, CellOfBlock
    <3>3. /\ NaiveCell(p, chunk, share, row, col) = CellTerms(p, ByRows(p), a + row, col)
          /\ TiledCell(p, chunk, share, row, col) = CellTerms(p, ByColumns(p), a + row, col)
      <4>1. AtCell(p, r, a, row, col, chunk, share)
        BY <1>1, <1>4 DEF AtCell
      <4> QED BY <4>1, CellIs
    <3> QED BY <3>1, <3>2, <3>3, Zenon
  <2>5. \A G : BlockOf(G, w, p, p, k - 1) = [j \in 1 .. r * p |-> G[a * p + j]]
    BY <1>4, Zenon DEF BlockOf
  <2>6. CalculateNaive(r, ops) = BlockOf(MatrixTerms(p, ByRows(p)), w, p, p, k - 1)
    <3>1. CalculateNaive(r, ops) = [c \in 1 .. r * p |-> MatrixTerms(p, ByRows(p))[a * p + c]]
      BY <2>2, <2>4, Zenon
    <3> QED BY <2>5, <3>1, Zenon
  <2>7. CalculateTiled(r, ops) = BlockOf(MatrixTerms(p, ByColumns(p)), w, p, p, k - 1)
    <3>1. CalculateTiled(r, ops) = [c \in 1 .. r * p |-> MatrixTerms(p, ByColumns(p))[a * p + c]]
      BY <2>3, <2>4, Zenon
    <3> QED BY <2>5, <3>1, Zenon
  <2> QED BY <1>1, <1>2, <2>6, <2>7, Zenon
<1> QED BY <1>5, <1>6

-----------------------------------------------------------------------------
(* The polynomials of the terms.                                           *)

(* What the sums over the whole of a vector are.                            *)
LEMMA VectorPolynomials ==
  ASSUME NEW p \in Nat
  PROVE  /\ Polynomial(Numbers(p)) = SetToBag({<<x>> : x \in 0 .. p - 1})
         /\ Polynomial(Squares(p)) = SetToBag({<<x, x>> : x \in 0 .. p - 1})
         /\ Polynomial(Pairs(p)) = SetToBag({<<x, p + x>> : x \in 0 .. p - 1})
<1>1. \A i \in 1 .. p : i - 1 \in 0 .. p - 1 /\ p + i - 1 = p + (i - 1)
  OBVIOUS
<1>2. Polynomial(Numbers(p)) = SetToBag({<<x>> : x \in 0 .. p - 1})
  <2> DEFINE t == [x \in 0 .. p - 1 |-> <<x>>]
  <2>1. \A x, y \in 0 .. p - 1 : t[x] = t[y] => x = y
    OBVIOUS
  <2>2. DOMAIN Numbers(p) = 1 .. p /\ \A i \in 1 .. p : Numbers(p)[i] = t[i - 1]
    BY <1>1 DEF Numbers
  <2>3. {t[x] : x \in 0 .. p - 1} = {<<x>> : x \in 0 .. p - 1}
    OBVIOUS
  <2> HIDE DEF t
  <2>4. AddsEachOnce(p, t, Numbers(p))
    BY <2>1, <2>2, Zenon DEF AddsEachOnce
  <2>5. Polynomial(Numbers(p)) = SetToBag(Terms(p, t))
    BY <2>4, PolynomialOfDistinct
  <2> QED BY <2>3, <2>5, Zenon DEF Terms
<1>3. Polynomial(Squares(p)) = SetToBag({<<x, x>> : x \in 0 .. p - 1})
  <2> DEFINE t == [x \in 0 .. p - 1 |-> <<x, x>>]
  <2>1. \A x, y \in 0 .. p - 1 : t[x] = t[y] => x = y
    OBVIOUS
  <2>2. DOMAIN Squares(p) = 1 .. p /\ \A i \in 1 .. p : Squares(p)[i] = t[i - 1]
    BY <1>1 DEF Squares
  <2>3. {t[x] : x \in 0 .. p - 1} = {<<x, x>> : x \in 0 .. p - 1}
    OBVIOUS
  <2> HIDE DEF t
  <2>4. AddsEachOnce(p, t, Squares(p))
    BY <2>1, <2>2, Zenon DEF AddsEachOnce
  <2>5. Polynomial(Squares(p)) = SetToBag(Terms(p, t))
    BY <2>4, PolynomialOfDistinct
  <2> QED BY <2>3, <2>5, Zenon DEF Terms
<1>4. Polynomial(Pairs(p)) = SetToBag({<<x, p + x>> : x \in 0 .. p - 1})
  <2> DEFINE t == [x \in 0 .. p - 1 |-> <<x, p + x>>]
  <2>1. \A x, y \in 0 .. p - 1 : t[x] = t[y] => x = y
    OBVIOUS
  <2>2. DOMAIN Pairs(p) = 1 .. p /\ \A i \in 1 .. p : Pairs(p)[i] = t[i - 1]
    BY <1>1 DEF Pairs
  <2>3. {t[x] : x \in 0 .. p - 1} = {<<x, p + x>> : x \in 0 .. p - 1}
    OBVIOUS
  <2> HIDE DEF t
  <2>4. AddsEachOnce(p, t, Pairs(p))
    BY <2>1, <2>2, Zenon DEF AddsEachOnce
  <2>5. Polynomial(Pairs(p)) = SetToBag(Terms(p, t))
    BY <2>4, PolynomialOfDistinct
  <2> QED BY <2>3, <2>5, Zenon DEF Terms
<1> QED BY <1>2, <1>3, <1>4

(* A row times the vector.                                                 *)
LEMMA RowPolynomial ==
  ASSUME NEW p \in Nat, NEW row \in 1 .. p
  PROVE  Polynomial(RowTerms(p)[row]) = SetToBag({<<row * p + j, j>> : j \in 0 .. p - 1})
<1>1. PICK n \in Nat : n = row * p
  OBVIOUS
<1> DEFINE t == [x \in 0 .. p - 1 |-> <<n + x, x>>]
<1>2. PICK sum : sum = RowTerms(p)[row]
  OBVIOUS
<1>3. sum = [j \in 1 .. p |-> <<n + j - 1, j - 1>>]
  BY <1>1, <1>2 DEF RowTerms
<1>4. DOMAIN sum = 1 .. p /\ \A i \in 1 .. p : sum[i] = t[i - 1]
  <2>1. \A i \in 1 .. p : i - 1 \in 0 .. p - 1 /\ n + i - 1 = n + (i - 1)
    OBVIOUS
  <2> QED BY <1>3, <2>1
<1>5. \A x, y \in 0 .. p - 1 : t[x] = t[y] => x = y
  OBVIOUS
<1>6. {t[x] : x \in 0 .. p - 1} = {<<row * p + j, j>> : j \in 0 .. p - 1}
  BY <1>1
<1> HIDE DEF t
<1>7. AddsEachOnce(p, t, sum)
  BY <1>4, <1>5, Zenon DEF AddsEachOnce
<1>8. Polynomial(sum) = SetToBag(Terms(p, t))
  BY <1>7, PolynomialOfDistinct
<1> QED BY <1>2, <1>6, <1>8, Zenon DEF Terms

CellSet(p, second, row, col) == {<<row * p + i, second[i][col]>> : i \in 0 .. p - 1}

(* A row times a column.                                                   *)
LEMMA CellPolynomial ==
  ASSUME NEW p \in Nat, NEW row \in Nat, NEW second, NEW col
  PROVE  Polynomial(CellTerms(p, second, row, col)) = SetToBag(CellSet(p, second, row, col))
<1>1. PICK n \in Nat : n = row * p
  OBVIOUS
<1> DEFINE t == [x \in 0 .. p - 1 |-> <<n + x, second[x][col]>>]
<1>2. PICK sum : sum = CellTerms(p, second, row, col)
  OBVIOUS
<1>3. sum = [i \in 1 .. p |-> <<n + i - 1, second[i - 1][col]>>]
  BY <1>1, <1>2 DEF CellTerms
<1>4. DOMAIN sum = 1 .. p /\ \A i \in 1 .. p : sum[i] = t[i - 1]
  <2>1. \A i \in 1 .. p : i - 1 \in 0 .. p - 1 /\ n + i - 1 = n + (i - 1)
    OBVIOUS
  <2> QED BY <1>3, <2>1
<1>5. \A x, y \in 0 .. p - 1 : t[x] = t[y] => x = y
  OBVIOUS
<1>6. {t[x] : x \in 0 .. p - 1} = CellSet(p, second, row, col)
  BY <1>1 DEF CellSet
<1> HIDE DEF t
<1>7. AddsEachOnce(p, t, sum)
  BY <1>4, <1>5, Zenon DEF AddsEachOnce
<1>8. Polynomial(sum) = SetToBag(Terms(p, t))
  BY <1>7, PolynomialOfDistinct
<1> QED BY <1>2, <1>6, <1>8, Zenon DEF Terms

-----------------------------------------------------------------------------
(* The answers.                                                            *)

(* An output of one sum, and of two.                                        *)
LEMMA OnePolynomial ==
  ASSUME NEW sum
  PROVE  Polynomials(<<sum>>) = <<Polynomial(sum)>>
<1>1. DOMAIN <<sum>> = 1 .. 1 /\ <<sum>>[1] = sum
  OBVIOUS
<1>2. Polynomials(<<sum>>) = [k \in DOMAIN <<sum>> |-> Polynomial(<<sum>>[k])]
  BY Zenon DEF Polynomials
<1>3. Polynomials(<<sum>>) = [k \in 1 .. 1 |-> Polynomial(sum)]
  BY <1>1, <1>2
<1> QED BY <1>3

LEMMA TwoPolynomials ==
  ASSUME NEW a, NEW b
  PROVE  Polynomials(<<a, b>>) = <<Polynomial(a), Polynomial(b)>>
<1>1. DOMAIN <<a, b>> = 1 .. 2 /\ <<a, b>>[1] = a /\ <<a, b>>[2] = b
  OBVIOUS
<1>2. Polynomials(<<a, b>>) = [k \in DOMAIN <<a, b>> |-> Polynomial(<<a, b>>[k])]
  BY Zenon DEF Polynomials
<1>3. DOMAIN Polynomials(<<a, b>>) = 1 .. 2
  BY <1>1, <1>2
<1>4. Polynomials(<<a, b>>)[1] = Polynomial(a) /\ Polynomials(<<a, b>>)[2] = Polynomial(b)
  BY <1>1, <1>2
<1>5. Polynomials(<<a, b>>) = [k \in 1 .. 2 |-> Polynomials(<<a, b>>)[k]]
  BY <1>1, <1>2
<1> QED BY <1>4, <1>5

(* The cells, one after another.                                           *)
LEMMA MatrixPolynomials ==
  ASSUME NEW p \in Nat \ {0}
  PROVE  /\ Polynomials(MatrixTerms(p, ByRows(p))) = MatrixProduct(p, RowByRow)
         /\ Polynomials(MatrixTerms(p, ByColumns(p))) = MatrixProduct(p, ColumnByColumn)
<1>1. ASSUME NEW second
      PROVE  /\ DOMAIN MatrixTerms(p, second) = 1 .. p * p
             /\ \A x \in 1 .. p * p :
                  MatrixTerms(p, second)[x] = CellTerms(p, second, (x - 1) \div p, (x - 1) % p)
  BY DEF MatrixTerms
<1>2. ASSUME NEW second
      PROVE  Polynomials(MatrixTerms(p, second)) =
               [x \in 1 .. p * p |->
                  Polynomial(CellTerms(p, second, (x - 1) \div p, (x - 1) % p))]
  BY <1>1, Zenon DEF Polynomials
<1>3. ASSUME NEW x \in 1 .. p * p
      PROVE  /\ (x - 1) % p \in 0 .. p - 1
             /\ \A second :
                  Polynomial(CellTerms(p, second, (x - 1) \div p, (x - 1) % p)) =
                    SetToBag(CellSet(p, second, (x - 1) \div p, (x - 1) % p))
  <2>1. PICK row \in Nat, col \in 0 .. p - 1 : row = (x - 1) \div p /\ col = (x - 1) % p
    <3>1. x - 1 \in Nat
      OBVIOUS
    <3> QED BY <3>1, Euclid
  <2>2. ASSUME NEW second
        PROVE  Polynomial(CellTerms(p, second, row, col)) =
                 SetToBag(CellSet(p, second, row, col))
    <3>1. p \in Nat
      OBVIOUS
    <3> QED BY <3>1, CellPolynomial
  <2> QED BY <2>1, <2>2, Zenon
<1>4. ASSUME NEW i \in 0 .. p - 1, NEW col \in 0 .. p - 1
      PROVE  ByRows(p)[i][col] = RowByRow(p, i, col) /\ ByColumns(p)[i][col] = ColumnByColumn(p, i, col)
  BY DEF ByRows, ByColumns
<1>5. Polynomials(MatrixTerms(p, ByRows(p))) = MatrixProduct(p, RowByRow)
  <2>1. ASSUME NEW x \in 1 .. p * p
        PROVE  Polynomial(CellTerms(p, ByRows(p), (x - 1) \div p, (x - 1) % p)) =
                 SetToBag({<<((x - 1) \div p) * p + i, RowByRow(p, i, (x - 1) % p)>> : i \in 0 .. p - 1})
    <3>1. CellSet(p, ByRows(p), (x - 1) \div p, (x - 1) % p) =
            {<<((x - 1) \div p) * p + i, RowByRow(p, i, (x - 1) % p)>> : i \in 0 .. p - 1}
      BY <1>3, <1>4, Zenon DEF CellSet
    <3> QED BY <1>3, <3>1, Zenon
  <2> QED BY <1>2, <2>1, Zenon DEF MatrixProduct
<1>6. Polynomials(MatrixTerms(p, ByColumns(p))) = MatrixProduct(p, ColumnByColumn)
  <2>1. ASSUME NEW x \in 1 .. p * p
        PROVE  Polynomial(CellTerms(p, ByColumns(p), (x - 1) \div p, (x - 1) % p)) =
                 SetToBag({<<((x - 1) \div p) * p + i, ColumnByColumn(p, i, (x - 1) % p)>> : i \in 0 .. p - 1})
    <3>1. CellSet(p, ByColumns(p), (x - 1) \div p, (x - 1) % p) =
            {<<((x - 1) \div p) * p + i, ColumnByColumn(p, i, (x - 1) % p)>> : i \in 0 .. p - 1}
      BY <1>3, <1>4, Zenon DEF CellSet
    <3> QED BY <1>3, <3>1, Zenon
  <2> QED BY <1>2, <2>1, Zenon DEF MatrixProduct
<1> QED BY <1>5, <1>6

(* What the workers leave.                                                 *)
Partial(d, problem, w) == [k \in 1 .. w |-> WorkerResult(d, problem, k)]

(* The sum and the product of vectors, whoever has a row.                   *)
LEMMA VectorSums ==
  ASSUME NEW w \in Nat \ {0}, NEW p \in Nat, (w - 1) * PerWorker(w, p) <= p,
         2 ^ SizeBits \in Nat, p < 2 ^ SizeBits
  PROVE  /\ AggregateSum(Partial(DivideVector(w, p), "real_sum", w)) = <<Numbers(p)>>
         /\ AggregateSum(Partial(DividePair(w, p), "real_vector_multiply", w)) = <<Pairs(p)>>
<1>1. AggregateSum(Partial(DivideVector(w, p), "real_sum", w)) = <<Numbers(p)>>
  <2>1. Partial(DivideVector(w, p), "real_sum", w) = SumsOf(w, p, Numbers(p))
    BY VectorWorker, Zenon DEF Partial, SumsOf
  <2>2. HasLength(Numbers(p), p)
    BY DEF Numbers, HasLength
  <2>3. AggregateSum(SumsOf(w, p, Numbers(p))) = <<Numbers(p)>>
    BY <2>2, SumsTogether
  <2> QED BY <2>1, <2>3, Zenon
<1>2. AggregateSum(Partial(DividePair(w, p), "real_vector_multiply", w)) = <<Pairs(p)>>
  <2>1. Partial(DividePair(w, p), "real_vector_multiply", w) = SumsOf(w, p, Pairs(p))
    BY PairWorker, Zenon DEF Partial, SumsOf
  <2>2. HasLength(Pairs(p), p)
    BY DEF Pairs, HasLength
  <2>3. AggregateSum(SumsOf(w, p, Pairs(p))) = <<Pairs(p)>>
    BY <2>2, SumsTogether
  <2> QED BY <2>1, <2>3, Zenon
<1> QED BY <1>1, <1>2

(* Statistics needs a row for every worker.                                *)
LEMMA StatisticsSums ==
  ASSUME NEW w \in Nat \ {0}, NEW p \in Nat, (w - 1) * PerWorker(w, p) < p,
         2 ^ SizeBits \in Nat, p < 2 ^ SizeBits
  PROVE  AggregateStatistics(Partial(DivideVector(w, p), "real_statistics", w))
           = <<Numbers(p), Squares(p)>>
<1> DEFINE partial == Partial(DivideVector(w, p), "real_statistics", w)
<1>1. (w - 1) * PerWorker(w, p) <= p
  BY EnoughForAll
<1>2. ASSUME NEW k \in 1 .. w
      PROVE  /\ partial[k][1] = BlockOf(Numbers(p), w, p, 1, k - 1)
             /\ partial[k][2] = BlockOf(Squares(p), w, p, 1, k - 1)
  <2>1. Rows(w, p, k - 1) # 0
    <3>1. k - 1 \in 0 .. w - 1
      OBVIOUS
    <3> QED BY <1>1, <3>1, RowsForAll
  <2>2. partial[k] = WorkerResult(DivideVector(w, p), "real_statistics", k)
    BY DEF Partial
  <2>3. partial[k] = <<BlockOf(Numbers(p), w, p, 1, k - 1), BlockOf(Squares(p), w, p, 1, k - 1)>>
    BY <1>1, <2>1, <2>2, VectorWorker, Zenon
  <2> HIDE DEF partial
  <2> QED BY <2>3
<1>3. DOMAIN partial = 1 .. w
  BY DEF Partial
<1> HIDE DEF partial
<1>4. AggregateStatistics(partial) =
        <<Total([k \in 1 .. w |-> BlockOf(Numbers(p), w, p, 1, k - 1)]),
          Total([k \in 1 .. w |-> BlockOf(Squares(p), w, p, 1, k - 1)])>>
  BY <1>2, <1>3, Zenon DEF AggregateStatistics
<1>5. ASSUME NEW G, G = [j \in 1 .. p |-> G[j]]
      PROVE  Total([k \in 1 .. w |-> BlockOf(G, w, p, 1, k - 1)]) = G
  <2>1. PICK width \in Nat : width = 1
    OBVIOUS
  <2>2. p * width = p
    BY <2>1
  <2>3. G = [j \in 1 .. p * width |-> G[j]]
    BY <1>5, <2>2, Zenon
  <2>4. FlattenSeq([k \in 1 .. w |-> BlockOf(G, w, p, width, k - 1)]) = G
    BY <1>1, <2>3, AllTogether
  <2> QED BY <2>1, <2>4, Zenon DEF Total
<1>6. /\ Numbers(p) = [j \in 1 .. p |-> Numbers(p)[j]]
      /\ Squares(p) = [j \in 1 .. p |-> Squares(p)[j]]
  BY DEF Numbers, Squares
<1>7. AggregateStatistics(partial) = <<Numbers(p), Squares(p)>>
  <2>1. Total([k \in 1 .. w |-> BlockOf(Numbers(p), w, p, 1, k - 1)]) = Numbers(p)
    BY <1>5, <1>6
  <2>2. Total([k \in 1 .. w |-> BlockOf(Squares(p), w, p, 1, k - 1)]) = Squares(p)
    BY <1>5, <1>6
  <2> QED BY <1>4, <2>1, <2>2, Zenon
<1> QED BY <1>7 DEF partial

(* The three matrix problems, row by row of the workers.                    *)
LEMMA MatrixSums ==
  ASSUME NEW w \in Nat \ {0}, NEW p \in Nat \ {0}, (w - 1) * PerWorker(w, p) <= p,
         2 ^ SizeBits \in Nat, p * p < 2 ^ SizeBits
  PROVE  /\ AggregateRows(Partial(DivideMatrixVector(w, p), "real_matrix_vector_multiply", w))
              = RowTerms(p)
         /\ AggregateRows(Partial(DivideMatrices(w, p), "real_naive_matrix_multiply", w))
              = MatrixTerms(p, ByRows(p))
         /\ AggregateRows(Partial(DivideMatrices(w, p), "real_tiled_matrix_multiply", w))
              = MatrixTerms(p, ByColumns(p))
<1>1. p \in Nat
  OBVIOUS
<1>2. AggregateRows(Partial(DivideMatrixVector(w, p), "real_matrix_vector_multiply", w)) = RowTerms(p)
  <2>1. PICK width \in Nat : width = 1
    OBVIOUS
  <2>2. p * width = p
    BY <2>1
  <2>3. Partial(DivideMatrixVector(w, p), "real_matrix_vector_multiply", w)
          = [k \in 1 .. w |-> BlockOf(RowTerms(p), w, p, width, k - 1)]
    BY <2>1, MatrixVectorWorker, Zenon DEF Partial
  <2>4. RowTerms(p) = [j \in 1 .. p * width |-> RowTerms(p)[j]]
    BY <2>2, Zenon DEF RowTerms
  <2>5. FlattenSeq([k \in 1 .. w |-> BlockOf(RowTerms(p), w, p, width, k - 1)]) = RowTerms(p)
    BY <1>1, <2>4, AllTogether
  <2> QED BY <2>3, <2>5, Zenon DEF AggregateRows
<1>3. ASSUME NEW second
      PROVE  FlattenSeq([k \in 1 .. w |-> BlockOf(MatrixTerms(p, second), w, p, p, k - 1)])
               = MatrixTerms(p, second)
  <2>1. MatrixTerms(p, second) = [x \in 1 .. p * p |-> MatrixTerms(p, second)[x]]
    BY DEF MatrixTerms
  <2> QED BY <1>1, <2>1, AllTogether
<1>4. /\ AggregateRows(Partial(DivideMatrices(w, p), "real_naive_matrix_multiply", w))
           = MatrixTerms(p, ByRows(p))
      /\ AggregateRows(Partial(DivideMatrices(w, p), "real_tiled_matrix_multiply", w))
           = MatrixTerms(p, ByColumns(p))
  <2>1. /\ Partial(DivideMatrices(w, p), "real_naive_matrix_multiply", w)
             = [k \in 1 .. w |-> BlockOf(MatrixTerms(p, ByRows(p)), w, p, p, k - 1)]
        /\ Partial(DivideMatrices(w, p), "real_tiled_matrix_multiply", w)
             = [k \in 1 .. w |-> BlockOf(MatrixTerms(p, ByColumns(p)), w, p, p, k - 1)]
    BY MatricesWorkerIs, Zenon DEF Partial
  <2> QED BY <1>3, <2>1, Zenon DEF AggregateRows
<1> QED BY <1>2, <1>4

(* How a problem every worker has a share in is divided.                    *)
LEMMA SharedDivision ==
  ASSUME NEW problem \in Problems, NEW w \in Nat, NEW p \in Nat, NEW items \in Nat,
         Shared(problem, w, p, items)
  PROVE  /\ w \in Nat \ {0} /\ (w - 1) * PerWorker(w, p) <= p
         /\ problem \in MatrixProblems => p \in Nat \ {0}
         /\ problem \in {"real_sum", "real_statistics"} =>
              Divide(problem, w, p, items) = DivideVector(w, p)
         /\ problem = "real_vector_multiply" =>
              Divide(problem, w, p, items) = DividePair(w, p)
         /\ problem = "real_matrix_vector_multiply" =>
              Divide(problem, w, p, items) = DivideMatrixVector(w, p)
         /\ problem \in {"real_naive_matrix_multiply", "real_tiled_matrix_multiply"} =>
              Divide(problem, w, p, items) = DivideMatrices(w, p)
<1>1. /\ items = InputItems(problem, p) /\ w # 0 /\ w \in Nat \ {0}
      /\ (w - 1) * PerWorker(w, p) <= p
      /\ problem \in MatrixProblems => p \in Nat \ {0}
      /\ problem = "real_tiled_matrix_multiply" => PerWorker(w, p) % TileSize = 0
  BY DEF Shared
<1>2. problem \in {"real_sum", "real_statistics"} =>
        Divide(problem, w, p, items) = DivideVector(w, p)
  BY <1>1 DEF Divide
<1>3. problem = "real_vector_multiply" => Divide(problem, w, p, items) = DividePair(w, p)
  BY <1>1 DEF Divide
<1>4. problem = "real_matrix_vector_multiply" =>
        Divide(problem, w, p, items) = DivideMatrixVector(w, p)
  BY <1>1 DEF Divide
<1>5. problem = "real_naive_matrix_multiply" =>
        Divide(problem, w, p, items) = DivideMatrices(w, p)
  BY <1>1 DEF Divide
<1>6. problem = "real_tiled_matrix_multiply" =>
        Divide(problem, w, p, items) = DivideMatrices(w, p)
  BY <1>1 DEF Divide, DivideTiles
<1> QED BY <1>1, <1>2, <1>3, <1>4, <1>5, <1>6, Zenon

(* A worker leaves a list of figures, as long as it may be.                 *)
LEMMA WorkerLeavesList ==
  ASSUME NEW problem \in Problems, NEW w \in Nat, NEW p \in Nat, NEW items \in Nat,
         2 ^ SizeBits \in Nat, p * p < 2 ^ SizeBits,
         Shared(problem, w, p, items), NEW k \in 1 .. w
  PROVE  \E n \in Nat :
           HasLength(WorkerResult(Divide(problem, w, p, items), problem, k), n)
<1> DEFINE r == WorkerResult(Divide(problem, w, p, items), problem, k)
<1>1. /\ w \in Nat \ {0} /\ (w - 1) * PerWorker(w, p) <= p /\ p < 2 ^ SizeBits
      /\ problem \in MatrixProblems => p \in Nat \ {0}
      /\ Rows(w, p, k - 1) \in Nat
  <2>1. w \in Nat \ {0} /\ (w - 1) * PerWorker(w, p) <= p
        /\ (problem \in MatrixProblems => p \in Nat \ {0})
    BY SharedDivision
  <2>2. k - 1 \in 0 .. w - 1 /\ k - 1 \in Nat
    OBVIOUS
  <2>3. (k - 1) * PerWorker(w, p) <= p
    BY <2>1, <2>2, AllWithin
  <2>4. PICK width \in Nat : width = 1
    OBVIOUS
  <2>5. Rows(w, p, k - 1) \in Nat
    BY <2>1, <2>2, <2>3, <2>4, BlockIsRows
  <2> QED BY <2>1, <2>5, Narrow
<1>2. /\ HasLength(<<>>, 0)
      /\ \A a : HasLength(<<a>>, 1)
      /\ \A a, b : HasLength(<<a, b>>, 2)
  BY DEF HasLength
<1>3. ASSUME NEW G, NEW width \in Nat
      PROVE  \E n \in Nat : HasLength(BlockOf(G, w, p, width, k - 1), n)
  <2>1. Rows(w, p, k - 1) * width \in Nat
    BY <1>1
  <2>2. HasLength(BlockOf(G, w, p, width, k - 1), Rows(w, p, k - 1) * width)
    BY DEF HasLength, BlockOf
  <2> QED BY <2>1, <2>2, Zenon
<1>4. CASE problem \in {"real_sum", "real_statistics"}
  <2>1. r = WorkerResult(DivideVector(w, p), problem, k)
    BY <1>4, SharedDivision
  <2>2. r = <<>> \/ (\E a : r = <<a>>) \/ (\E a, b : r = <<a, b>>)
    <3>1. CASE problem = "real_sum"
      <4>1. r = IF Rows(w, p, k - 1) = 0 THEN <<>>
                ELSE <<BlockOf(Numbers(p), w, p, 1, k - 1)>>
        BY <1>1, <2>1, <3>1, VectorWorker
      <4> QED BY <4>1, Zenon
    <3>2. CASE problem = "real_statistics"
      <4>1. r = IF Rows(w, p, k - 1) = 0 THEN <<>>
                ELSE <<BlockOf(Numbers(p), w, p, 1, k - 1), BlockOf(Squares(p), w, p, 1, k - 1)>>
        BY <1>1, <2>1, <3>2, VectorWorker
      <4> QED BY <4>1, Zenon
    <3> QED BY <1>4, <3>1, <3>2, Zenon
  <2> QED BY <1>2, <2>2
<1>5. CASE problem = "real_vector_multiply"
  <2>1. r = WorkerResult(DividePair(w, p), problem, k)
    BY <1>5, SharedDivision
  <2>2. r = <<>> \/ (\E a : r = <<a>>)
    <3>1. r = IF Rows(w, p, k - 1) = 0 THEN <<>>
              ELSE <<BlockOf(Pairs(p), w, p, 1, k - 1)>>
      BY <1>1, <1>5, <2>1, PairWorker
    <3> QED BY <3>1, Zenon
  <2> QED BY <1>2, <2>2
<1>6. CASE problem \in MatrixProblems
  <2>1. p \in Nat \ {0}
    BY <1>1, <1>6
  <2>2. \E G : \E width \in Nat : r = BlockOf(G, w, p, width, k - 1)
    <3>1. CASE problem = "real_matrix_vector_multiply"
      <4>1. r = BlockOf(RowTerms(p), w, p, 1, k - 1) /\ 1 \in Nat
        BY <1>1, <2>1, <3>1, SharedDivision, MatrixVectorWorker
      <4> QED BY <4>1, Zenon
    <3>2. CASE problem = "real_naive_matrix_multiply"
      <4>1. r = BlockOf(MatrixTerms(p, ByRows(p)), w, p, p, k - 1)
        BY <1>1, <2>1, <3>2, SharedDivision, MatricesWorkerIs
      <4> QED BY <4>1, Zenon
    <3>3. CASE problem = "real_tiled_matrix_multiply"
      <4>1. r = BlockOf(MatrixTerms(p, ByColumns(p)), w, p, p, k - 1)
        BY <1>1, <2>1, <3>3, SharedDivision, MatricesWorkerIs
      <4> QED BY <4>1, Zenon
    <3> QED BY <1>6, <3>1, <3>2, <3>3, Zenon DEF MatrixProblems
  <2> QED BY <1>3, <2>2, Zenon
<1> QED BY <1>4, <1>5, <1>6, Zenon DEF Problems, VectorProblems

(* What the figures of a problem add up, and multiply, in the order they do. *)
TermsOf(problem, p) ==
  CASE problem = "real_sum" -> <<Numbers(p)>>
    [] problem = "real_statistics" -> <<Numbers(p), Squares(p)>>
    [] problem = "real_vector_multiply" -> <<Pairs(p)>>
    [] problem = "real_matrix_vector_multiply" -> RowTerms(p)
    [] problem = "real_naive_matrix_multiply" -> MatrixTerms(p, ByRows(p))
    [] problem = "real_tiled_matrix_multiply" -> MatrixTerms(p, ByColumns(p))

(* Whatever the problem, the parts of a division every worker has a share in *)
(* make up these terms, in the order of a single worker.                     *)
LEMMA SumsOfShares ==
  ASSUME NEW problem \in Problems, NEW w \in Nat, NEW p \in Nat, NEW items \in Nat,
         2 ^ SizeBits \in Nat, p * p < 2 ^ SizeBits,
         Shared(problem, w, p, items),
         problem = "real_statistics" => (w - 1) * PerWorker(w, p) < p,
         NEW d, d = Divide(problem, w, p, items)
  PROVE  Aggregate(problem, Partial(d, problem, w)) = TermsOf(problem, p)
<1>1. /\ w \in Nat \ {0} /\ (w - 1) * PerWorker(w, p) <= p
      /\ problem \in MatrixProblems => p \in Nat \ {0}
  BY SharedDivision
<1>2. p < 2 ^ SizeBits
  BY Narrow
<1>3. CASE problem = "real_sum"
  <2>1. d = DivideVector(w, p)
    BY <1>3, SharedDivision
  <2>2. Aggregate(problem, Partial(d, problem, w)) = AggregateSum(Partial(d, problem, w))
    BY <1>3 DEF Aggregate, MatrixProblems
  <2>3. TermsOf(problem, p) = <<Numbers(p)>>
    BY <1>3 DEF TermsOf
  <2>4. AggregateSum(Partial(DivideVector(w, p), "real_sum", w)) = <<Numbers(p)>>
    BY <1>1, <1>2, VectorSums
  <2> QED BY <1>3, <2>1, <2>2, <2>3, <2>4, Zenon
<1>4. CASE problem = "real_statistics"
  <2>1. d = DivideVector(w, p)
    BY <1>4, SharedDivision
  <2>2. Aggregate(problem, Partial(d, problem, w)) = AggregateStatistics(Partial(d, problem, w))
    BY <1>4 DEF Aggregate, MatrixProblems
  <2>3. TermsOf(problem, p) = <<Numbers(p), Squares(p)>>
    BY <1>4 DEF TermsOf
  <2>4. AggregateStatistics(Partial(DivideVector(w, p), "real_statistics", w)) = <<Numbers(p), Squares(p)>>
    BY <1>1, <1>2, <1>4, StatisticsSums
  <2> QED BY <1>4, <2>1, <2>2, <2>3, <2>4, Zenon
<1>5. CASE problem = "real_vector_multiply"
  <2>1. d = DividePair(w, p)
    BY <1>5, SharedDivision
  <2>2. Aggregate(problem, Partial(d, problem, w)) = AggregateSum(Partial(d, problem, w))
    BY <1>5 DEF Aggregate, MatrixProblems
  <2>3. TermsOf(problem, p) = <<Pairs(p)>>
    BY <1>5 DEF TermsOf
  <2>4. AggregateSum(Partial(DividePair(w, p), "real_vector_multiply", w)) = <<Pairs(p)>>
    BY <1>1, <1>2, VectorSums
  <2> QED BY <1>5, <2>1, <2>2, <2>3, <2>4, Zenon
<1>6. CASE problem = "real_matrix_vector_multiply"
  <2>1. d = DivideMatrixVector(w, p)
    BY <1>6, SharedDivision
  <2>2. Aggregate(problem, Partial(d, problem, w)) = AggregateRows(Partial(d, problem, w))
    BY <1>6 DEF Aggregate, MatrixProblems
  <2>3. TermsOf(problem, p) = RowTerms(p)
    BY <1>6 DEF TermsOf
  <2>4. p \in Nat \ {0}
    BY <1>1, <1>6 DEF MatrixProblems
  <2>5. AggregateRows(Partial(DivideMatrixVector(w, p), "real_matrix_vector_multiply", w)) = RowTerms(p)
    BY <1>1, <2>4, MatrixSums
  <2> QED BY <1>6, <2>1, <2>2, <2>3, <2>5, Zenon
<1>7. CASE problem = "real_naive_matrix_multiply"
  <2>1. d = DivideMatrices(w, p)
    BY <1>7, SharedDivision
  <2>2. Aggregate(problem, Partial(d, problem, w)) = AggregateRows(Partial(d, problem, w))
    BY <1>7 DEF Aggregate, MatrixProblems
  <2>3. TermsOf(problem, p) = MatrixTerms(p, ByRows(p))
    BY <1>7 DEF TermsOf
  <2>4. p \in Nat \ {0}
    BY <1>1, <1>7 DEF MatrixProblems
  <2>5. AggregateRows(Partial(DivideMatrices(w, p), "real_naive_matrix_multiply", w)) = MatrixTerms(p, ByRows(p))
    BY <1>1, <2>4, MatrixSums
  <2> QED BY <1>7, <2>1, <2>2, <2>3, <2>5, Zenon
<1>8. CASE problem = "real_tiled_matrix_multiply"
  <2>1. d = DivideMatrices(w, p)
    BY <1>8, SharedDivision
  <2>2. Aggregate(problem, Partial(d, problem, w)) = AggregateRows(Partial(d, problem, w))
    BY <1>8 DEF Aggregate, MatrixProblems
  <2>3. TermsOf(problem, p) = MatrixTerms(p, ByColumns(p))
    BY <1>8 DEF TermsOf
  <2>4. p \in Nat \ {0}
    BY <1>1, <1>8 DEF MatrixProblems
  <2>5. AggregateRows(Partial(DivideMatrices(w, p), "real_tiled_matrix_multiply", w)) = MatrixTerms(p, ByColumns(p))
    BY <1>1, <2>4, MatrixSums
  <2> QED BY <1>8, <2>1, <2>2, <2>3, <2>5, Zenon
<1> QED BY <1>3, <1>4, <1>5, <1>6, <1>7, <1>8, Zenon DEF Problems, VectorProblems, MatrixProblems

(* These terms are the polynomials the problem is about.                    *)
LEMMA PolynomialsOfTerms ==
  ASSUME NEW problem \in Problems, NEW p \in Nat, problem \in MatrixProblems => p # 0
  PROVE  Polynomials(TermsOf(problem, p)) = Reference(problem, p)
<1>1. CASE problem \in VectorProblems
  <2>1. CASE problem = "real_sum"
    <3>1. TermsOf(problem, p) = <<Numbers(p)>>
      BY <2>1 DEF TermsOf
    <3>2. Reference(problem, p) = << SetToBag({<<x>> : x \in 0 .. p - 1}) >>
      BY <2>1 DEF Reference
    <3> QED BY <3>1, <3>2, OnePolynomial, VectorPolynomials, Zenon
  <2>2. CASE problem = "real_statistics"
    <3>1. TermsOf(problem, p) = <<Numbers(p), Squares(p)>>
      BY <2>2 DEF TermsOf
    <3>2. Reference(problem, p) = << SetToBag({<<x>> : x \in 0 .. p - 1}),
                                     SetToBag({<<x, x>> : x \in 0 .. p - 1}) >>
      BY <2>2 DEF Reference
    <3> QED BY <3>1, <3>2, TwoPolynomials, VectorPolynomials, Zenon
  <2>3. CASE problem = "real_vector_multiply"
    <3>1. TermsOf(problem, p) = <<Pairs(p)>>
      BY <2>3 DEF TermsOf
    <3>2. Reference(problem, p) = << SetToBag({<<x, p + x>> : x \in 0 .. p - 1}) >>
      BY <2>3 DEF Reference
    <3> QED BY <3>1, <3>2, OnePolynomial, VectorPolynomials, Zenon
  <2> QED BY <1>1, <2>1, <2>2, <2>3, Zenon DEF VectorProblems
<1>2. CASE problem = "real_matrix_vector_multiply"
  <2>1. DOMAIN RowTerms(p) = 1 .. p
    BY DEF RowTerms
  <2>2. Polynomials(RowTerms(p)) = [row \in 1 .. p |-> Polynomial(RowTerms(p)[row])]
    BY <2>1, Zenon DEF Polynomials
  <2>3. Reference(problem, p) =
          [row \in 1 .. p |-> SetToBag({<<row * p + j, j>> : j \in 0 .. p - 1})]
    BY <1>2 DEF Reference
  <2>4. TermsOf(problem, p) = RowTerms(p)
    BY <1>2 DEF TermsOf
  <2> QED BY <2>2, <2>3, <2>4, RowPolynomial, Zenon
<1>3. CASE problem \in {"real_naive_matrix_multiply", "real_tiled_matrix_multiply"}
  <2>1. p \in Nat \ {0}
    BY <1>3 DEF MatrixProblems
  <2>2. /\ Polynomials(MatrixTerms(p, ByRows(p))) = MatrixProduct(p, RowByRow)
        /\ Polynomials(MatrixTerms(p, ByColumns(p))) = MatrixProduct(p, ColumnByColumn)
    BY <2>1, MatrixPolynomials
  <2>3. CASE problem = "real_naive_matrix_multiply"
    <3>1. TermsOf(problem, p) = MatrixTerms(p, ByRows(p))
      BY <2>3 DEF TermsOf
    <3>2. Reference(problem, p) = MatrixProduct(p, RowByRow)
      BY <2>3 DEF Reference
    <3> QED BY <2>2, <3>1, <3>2, Zenon
  <2>4. CASE problem = "real_tiled_matrix_multiply"
    <3>1. TermsOf(problem, p) = MatrixTerms(p, ByColumns(p))
      BY <2>4 DEF TermsOf
    <3>2. Reference(problem, p) = MatrixProduct(p, ColumnByColumn)
      BY <2>4 DEF Reference
    <3> QED BY <2>2, <3>1, <3>2, Zenon
  <2> QED BY <1>3, <2>3, <2>4
<1> QED BY <1>1, <1>2, <1>3, Zenon DEF Problems, MatrixProblems

(* Whatever the problem, the parts of a division every worker has a share in *)
(* make up the answer.                                                      *)
LEMMA AnswerOfShares ==
  ASSUME NEW problem \in Problems, NEW w \in Nat, NEW p \in Nat, NEW items \in Nat,
         2 ^ SizeBits \in Nat, p * p < 2 ^ SizeBits,
         Shared(problem, w, p, items),
         problem = "real_statistics" => (w - 1) * PerWorker(w, p) < p,
         NEW d, d = Divide(problem, w, p, items)
  PROVE  Polynomials(Aggregate(problem, Partial(d, problem, w))) = Reference(problem, p)
<1>1. problem \in MatrixProblems => p # 0
  BY SharedDivision
<1> QED BY <1>1, SumsOfShares, PolynomialsOfTerms

(* Statistics misses a figure exactly when its last worker has no row.      *)
LEMMA MissingWhenRowless ==
  ASSUME NEW problem \in Problems, NEW w \in Nat, NEW p \in Nat, NEW items \in Nat,
         2 ^ SizeBits \in Nat, p * p < 2 ^ SizeBits,
         Shared(problem, w, p, items),
         NEW d, d = Divide(problem, w, p, items)
  PROVE  ReadsMissingItem(problem, Partial(d, problem, w)) <=>
           problem = "real_statistics" /\ ~ ((w - 1) * PerWorker(w, p) < p)
<1>1. CASE problem # "real_statistics"
  BY <1>1 DEF ReadsMissingItem
<1>2. CASE problem = "real_statistics"
  <2>1. w \in Nat \ {0} /\ (w - 1) * PerWorker(w, p) <= p /\ d = DivideVector(w, p)
    BY <1>2, SharedDivision
  <2>2. p < 2 ^ SizeBits
    BY Narrow
  <2>3. (w - 1) * PerWorker(w, p) \in Nat
    <3>1. PICK m \in Nat : m = w - 1
      BY <2>1
    <3>2. PerWorker(w, p) \in Nat
      BY <2>1, EnoughForAll
    <3>3. m * PerWorker(w, p) \in Nat
      BY <3>2
    <3> QED BY <3>1, <3>3
  <2>4. ASSUME NEW k \in 1 .. w
        PROVE  WorkerResult(d, problem, k) = <<>> <=> Rows(w, p, k - 1) = 0
    <3>1. WorkerResult(d, problem, k) =
            IF Rows(w, p, k - 1) = 0 THEN <<>>
            ELSE <<BlockOf(Numbers(p), w, p, 1, k - 1), BlockOf(Squares(p), w, p, 1, k - 1)>>
      BY <1>2, <2>1, <2>2, VectorWorker
    <3>2. \A a, b : <<a, b>> # <<>>
      OBVIOUS
    <3> QED BY <3>1, <3>2, Zenon
  <2>5. ReadsMissingItem(problem, Partial(d, problem, w)) <=> \E k \in 1 .. w : Rows(w, p, k - 1) = 0
    <3>1. /\ DOMAIN Partial(d, problem, w) = 1 .. w
          /\ \A k \in 1 .. w : Partial(d, problem, w)[k] = WorkerResult(d, problem, k)
      BY Zenon DEF Partial
    <3> QED BY <1>2, <2>4, <3>1, Zenon DEF ReadsMissingItem
  <2>6. CASE (w - 1) * PerWorker(w, p) < p
    <3>1. \A i \in 0 .. w - 1 : Rows(w, p, i) # 0
      BY <2>1, <2>6, RowsForAll
    <3>2. \A k \in 1 .. w : k - 1 \in 0 .. w - 1
      OBVIOUS
    <3> QED BY <1>2, <2>5, <2>6, <3>1, <3>2, Zenon
  <2>7. CASE ~ ((w - 1) * PerWorker(w, p) < p)
    <3>1. (w - 1) * PerWorker(w, p) = p
      BY <2>1, <2>3, <2>7
    <3>2. Rows(w, p, w - 1) = 0 /\ w \in 1 .. w
      BY <2>1, <3>1, RowsForAll
    <3> QED BY <1>2, <2>5, <2>7, <3>2, Zenon
  <2> QED BY <2>6, <2>7
<1> QED BY <1>1, <1>2
=============================================================================
