---------------------------- MODULE ExampleProblems ----------------------------
(***************************************************************************)
(* What tools/example_input.cpp writes for each workload: which value goes *)
(* to which worker's garbler, evaluator or expected file, and in which     *)
(* order within a file.                                                    *)
(*                                                                         *)
(* A number is taken in the unit its workload uses (hundredths, say), and  *)
(* a record is the tuple of its fields that are not constant zero.  What   *)
(* std::rand and the random engines draw is a parameter: the matrices and  *)
(* vectors are given as sequences, rows first, whoever made them up.       *)
(***************************************************************************)
EXTENDS Integers, Sequences, FiniteSets, SequencesExt

CONSTANTS BatchSize,    \* of binary_fc_layer, 256 in the program
          ByteLimit,    \* what is drawn for a matrix or a vector is below it, 2^8,
          ElementLimit  \* and the integer matrices' results are below this, 2^16

ASSUME BatchAssumption ==
  /\ BatchSize \in Nat \ {0}
  /\ ByteLimit \in Nat \ {0, 1} /\ ElementLimit \in Nat /\ ByteLimit <= ElementLimit

MatrixPairs == {"matrix_multiply", "real_naive_matrix_multiply", "real_tiled_matrix_multiply",
                "real_tiled_16_matrix_multiply", "real_tiled_64_matrix_multiply"}
MatrixVectors == {"matrix_vector_multiply", "real_matrix_vector_multiply"}

\* These take "" and "random", and complain of any other option; the others do
\* not look at it, except loop_join at "check" and password at "random".
OptionProblems == MatrixPairs \cup MatrixVectors \cup {"full_sort", "binary_fc_layer"}

KnownProblems == OptionProblems \cup
  {"aspirin", "aspirin_seq", "password", "merge_sorted", "loop_join", "real_cpir", "real_sum",
   "real_statistics", "real_vector_multiply"}

-----------------------------------------------------------------------------
(* Who gets item i of a total, among n workers.                            *)

Cyclic(i, n, total) == i % n

\* A slip: the last worker takes whatever is left over after the even shares.
BlockedRestToLast(i, n, total) ==
  IF i < n * (total \div n) THEN i \div (total \div n) ELSE n - 1

Blocked(i, n, total) ==
  LET perParty == total \div n
      extras == total % n
      boundary == extras * (perParty + 1)
  IN  IF i < boundary THEN i \div (perParty + 1)
                      ELSE extras + (i - boundary) \div perParty

CyclicOf(n, total) == [k \in 1 .. total |-> Cyclic(k - 1, n, total)]
BlockedOf(n, total) == [k \in 1 .. total |-> Blocked(k - 1, n, total)]

\* 1 << l
Power2[l \in Nat] == IF l = 0 THEN 1 ELSE 2 * Power2[l - 1]

\* The result of a matrix product is cut into rectangles, one for each worker: A's
\* rows and B's columns are cut into 2^ceil(l/2) and 2^floor(l/2) portions.
Log2(n) == CHOOSE l \in 0 .. n : Power2[l] <= n /\ n < Power2[l + 1]
PortionsA(n) == Power2[(Log2(n) \div 2) + (Log2(n) % 2)]
PortionsB(n) == Power2[Log2(n) \div 2]

\* A slip: the grid's rows are counted by its height.
CellWriterByHeight(s, n, i, j) ==
  (i \div (s \div PortionsA(n))) * PortionsA(n) + (j \div (s \div PortionsB(n)))

CellWriter(s, n, i, j) ==
  LET aPortion == i \div (s \div PortionsA(n))
      bPortion == j \div (s \div PortionsB(n))
  IN  aPortion * PortionsB(n) + bPortion

-----------------------------------------------------------------------------
(* What is written.                                                        *)

\* values[k] goes to the file of that kind of worker workers[k].
Deal(kind, workers, values) ==
  [k \in DOMAIN values |-> [kind |-> kind, worker |-> workers[k], value |-> values[k]]]

\* The first half of the values is the garbler's, the second the evaluator's.
DealParties(n, values) ==
  LET s == Len(values) \div 2
      workers == CyclicOf(n, 2 * s)
  IN  Deal("garbler", SubSeq(workers, 1, s), SubSeq(values, 1, s))
      \o Deal("evaluator", SubSeq(workers, s + 1, 2 * s), SubSeq(values, s + 1, 2 * s))

\* Diagnoses at time 1, patients going up; prescriptions at time 2, going down.
Aspirin(s, n) ==
  DealParties(n, [k \in 1 .. 2 * s |-> IF k <= s THEN <<k - 1, 1, IF k = 1 THEN 0 ELSE 1>>
                                                ELSE <<2 * s - k, 2, 0>>])
  \o Deal("expected", <<0, 0>>, <<1, s - 1>>)

\* The users whose password hash is the same at both; one answer also for each
\* comparison of different users.
Password(s, n, hash) ==
  LET answers == IF s = 0 THEN 0 ELSE 2 * s - 1
  IN  DealParties(n, [k \in 1 .. 2 * s |->
                        IF k <= s THEN <<hash[k], k>> ELSE <<0, 2 * s - k + 1>>])
      \o Deal("expected", BlockedOf(n, answers),
              [k \in 1 .. answers |-> LET user == (k + 1) \div 2
                                      IN  IF k % 2 = 1 /\ hash[user] = 0 THEN user ELSE 0])

\* Even keys going up, odd ones going down.
MergeKeys(s) == [k \in 1 .. 2 * s |-> IF k <= s THEN 2 * (k - 1) ELSE 2 * (2 * s - k) + 1]

Sort(n, keys) ==
  DealParties(n, keys)
  \o Deal("expected", BlockedOf(n, Len(keys)), [k \in DOMAIN keys |-> k - 1])

\* Every pair of keys, with its first field telling whether it is in the join.
JoinRecords(s) ==
  [k \in 1 .. s * s |-> LET i == (k - 1) \div s
                            j == (k - 1) % s
                        IN  IF i < j THEN <<1, i, j>> ELSE <<0, 0, 0>>]

LoopJoin(s, n) ==
  LET keys == [k \in 1 .. s |-> k - 1]
  IN  Deal("garbler", BlockedOf(n, s), keys) \o Deal("evaluator", BlockedOf(n, s), keys)
      \o Deal("expected", BlockedOf(n, s * s), JoinRecords(s))

Matrices(s, n, ownerOfB, a, b, cells) ==
  Deal("garbler", BlockedOf(n, s * s), a) \o Deal(ownerOfB, BlockedOf(n, s * s), b)
  \o Deal("expected",
          [k \in 1 .. s * s |-> CellWriter(s, n, (k - 1) \div s, (k - 1) % s)], cells)

\* Whole rows of the matrix go where the result of the row goes.
MatrixVector(s, n, ownerOfX, workersOfX, a, x, sums) ==
  Deal(ownerOfX, workersOfX, x)
  \o Deal("garbler", [k \in 1 .. s * s |-> Blocked((k - 1) \div s, n, s)], a)
  \o Deal("expected", BlockedOf(n, s), sums)

ByBatches(s, n) == [k \in 1 .. s |-> Blocked((k - 1) \div BatchSize, n, s \div BatchSize)]

\* To one file, or blocked among the garbler's.
Single(values) == Deal("expected", [k \in DOMAIN values |-> 0], values)
Share(n, values) == Deal("garbler", BlockedOf(n, Len(values)), values)

Cpir(s, n) ==
  Share(n, [k \in 1 .. s |-> IF k - 1 = 3 THEN 1 ELSE 0])
  \o Single([k \in 1 .. s |-> 1 + (k - 1) * s + 3])

\* Added up one after another.
SumOf(values) ==
  LET sum[k \in 0 .. Len(values)] == IF k = 0 THEN 0 ELSE sum[k - 1] + values[k]
  IN  sum[Len(values)]

\* The integer results are added up in 16 bits, the real ones are doubles.
ElementSum(problem, values) ==
  IF problem \in {"matrix_multiply", "matrix_vector_multiply"} THEN SumOf(values) % ElementLimit
                                                              ELSE SumOf(values)

RealSum(s, n) ==
  LET values == [k \in 1 .. s |-> k - 1]
  IN  Share(n, values) \o Single(<<SumOf(values)>>)

RealStatistics(s, n) ==
  LET values == [k \in 1 .. s |-> k - 1]
      squares == [k \in 1 .. s |-> (k - 1) * (k - 1)]
  IN  Share(n, values) \o Single(<<SumOf(values), SumOf(squares)>>)

RealVectorMultiply(s, n) ==
  LET ones == [k \in 1 .. s |-> 1]
  IN  Share(n, ones) \o Share(n, ones) \o Single(<<s>>)

-----------------------------------------------------------------------------
(* The contents: fixed for the option "", and drawn for "random", where    *)
(* draw has a matrix a, a matrix or vector b, hashes or a shuffle in a.    *)

DrawnFor(problem, s, draw) ==
  LET Bits(n) == [1 .. n -> {0, 1}]
      Bytes(n) == [1 .. n -> 0 .. ByteLimit - 1]
  IN  /\ problem = "password" => draw.a \in Bits(s)
      /\ problem = "full_sort" => draw.a \in Bijection(1 .. 2 * s, 0 .. 2 * s - 1)
      /\ problem \in MatrixPairs => draw.a \in Bytes(s * s) /\ draw.b \in Bytes(s * s)
      /\ problem \in MatrixVectors => draw.a \in Bytes(s * s) /\ draw.b \in Bytes(s)
      /\ problem = "binary_fc_layer" => draw.a \in Bits(s * s) /\ draw.b \in Bits(s)

Identity(s) == [k \in 1 .. s * s |-> IF (k - 1) \div s = (k - 1) % s THEN 1 ELSE 0]

\* A slip: B is taken to be stored by rows.
ProductCellsByRows(problem, s, a, b) ==
  [k \in 1 .. s * s |->
     LET i == (k - 1) \div s
         j == (k - 1) % s
     IN  ElementSum(problem, [m \in 1 .. s |-> a[i * s + m] * b[(m - 1) * s + j + 1]])]

\* B is stored by columns.
ProductCells(problem, s, a, b) ==
  [k \in 1 .. s * s |->
     LET i == (k - 1) \div s
         j == (k - 1) % s
     IN  ElementSum(problem, [m \in 1 .. s |-> a[i * s + m] * b[j * s + m]])]

RowProducts(problem, s, a, x) ==
  [i \in 1 .. s |-> ElementSum(problem, [j \in 1 .. s |-> a[(i - 1) * s + j] * x[j]])]

\* The vector 0, 1, 2, ...; of bytes if the matrix is one of integers.
CountingUp(problem, s) ==
  [k \in 1 .. s |-> IF problem = "matrix_vector_multiply" THEN (k - 1) % ByteLimit ELSE k - 1]

\* One where the row and the vector agree in at least half of the places.
RowMajorities(s, a, x) ==
  [i \in 1 .. s |->
     IF 2 * Cardinality({j \in 1 .. s : a[(i - 1) * s + j] = x[j]}) >= s THEN 1 ELSE 0]

\* All that main writes for a workload it knows and an option it takes, in order.
Writes(problem, s, n, option, draw) ==
  LET random == option = "random"
      up == CountingUp(problem, s)
      parity == [k \in 1 .. s |-> (k - 1) % 2]
      hash == IF random THEN draw.a ELSE [k \in 1 .. s |-> IF k = 1 THEN 0 ELSE 1]
      owner == IF problem \in {"matrix_multiply", "matrix_vector_multiply"} THEN "evaluator"
               ELSE "garbler"
  IN  CASE problem \in {"aspirin", "aspirin_seq"} -> Aspirin(s, n)
        [] problem = "password" -> Password(s, n, hash)
        [] problem = "merge_sorted" -> Sort(n, MergeKeys(s))
        [] problem = "full_sort" -> Sort(n, IF random THEN draw.a ELSE MergeKeys(s))
        [] problem = "loop_join" -> LoopJoin(s, n)
        [] problem \in MatrixPairs ->
             IF random THEN Matrices(s, n, owner, draw.a, draw.b,
                                     ProductCells(problem, s, draw.a, draw.b))
             ELSE Matrices(s, n, owner, Identity(s), Identity(s), Identity(s))
        [] problem \in MatrixVectors ->
             IF random THEN MatrixVector(s, n, owner, BlockedOf(n, s), draw.a, draw.b,
                                         RowProducts(problem, s, draw.a, draw.b))
             ELSE MatrixVector(s, n, owner, BlockedOf(n, s), Identity(s), up, up)
        [] problem = "binary_fc_layer" ->
             IF random THEN MatrixVector(s, n, "evaluator", ByBatches(s, n), draw.a, draw.b,
                                         RowMajorities(s, draw.a, draw.b))
             ELSE MatrixVector(s, n, "evaluator", ByBatches(s, n), Identity(s), parity, parity)
        [] problem = "real_cpir" -> Cpir(s, n)
        [] problem = "real_sum" -> RealSum(s, n)
        [] problem = "real_statistics" -> RealStatistics(s, n)
        [] problem = "real_vector_multiply" -> RealVectorMultiply(s, n)

\* What worker w's file of a kind holds when all is written, one item after another.
ItemsOf(writes, kind, w) ==
  LET after[k \in 0 .. Len(writes)] ==
        IF k = 0 THEN <<>>
        ELSE IF writes[k].kind = kind /\ writes[k].worker = w
        THEN Append(after[k - 1], writes[k].value)
        ELSE after[k - 1]
  IN  after[Len(writes)]
===============================================================================
