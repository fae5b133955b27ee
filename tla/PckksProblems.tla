--------------------------- MODULE PckksProblems ---------------------------
(***************************************************************************)
(* The six CKKS workloads of tools/pckks_utils.cpp as pure operators: how  *)
(* each Problem class divides its input among workers, formats a worker's  *)
(* operands, calculates on ciphertexts and aggregates the decrypted parts. *)
(*                                                                         *)
(* The number stored at position x of the input file is left symbolic.  A  *)
(* value, in the clear or encrypted, is the sum it was computed as: the    *)
(* sequence of its terms in the order they were added, a term being <<x>>, *)
(* the number at position x, or <<x, y>>, the product of two of them.  Two *)
(* sums agree on every input exactly when one permutes the other, and that *)
(* is when they are the same polynomial.                                   *)
(***************************************************************************)
EXTENDS Integers, Sequences, FiniteSets, SequencesExt

CONSTANTS TileSize,  \* the argument of TiledMatrixMultiply, 16 in the program
          SizeBits   \* the width of std::size_t

ASSUME ProblemsAssumption == TileSize \in Nat \ {0} /\ SizeBits \in Nat

VectorProblems == {"real_sum", "real_statistics", "real_vector_multiply"}
MatrixProblems == {"real_matrix_vector_multiply", "real_naive_matrix_multiply",
                   "real_tiled_matrix_multiply"}
Problems == VectorProblems \cup MatrixProblems

-----------------------------------------------------------------------------
(* Ciphertext arithmetic.                                                  *)

Number(x) == << <<x>> >>
Product(x, y) == << <<x, y>> >>

\* add_inplace, of every further sum to the first one
Total(sums) == FlattenSeq(sums)

\* multiply and add_inplace of n pairs, from xs[x0] and ys[y0] on (counting from
\* zero), the second operand advancing by step.
DotProduct(xs, x0, ys, y0, step, n) ==
  Total([k \in 1 .. n |-> Product(xs[x0 + k], ys[y0 + (k - 1) * step + 1])])

\* The matrix a vector of operands stands for: std::sqrt, truncated.
SideOf(n) == CHOOSE m \in 0 .. n : m * m <= n /\ n < (m + 1) * (m + 1)

-----------------------------------------------------------------------------
(* divide().  The input is the number of items the file held; a chunk is a *)
(* sequence of input positions.                                            *)

Range0(from, end) == [k \in 1 .. end - from |-> from + k - 1]

InputItems(problem, p) ==
  CASE problem \in {"real_sum", "real_statistics"} -> p
    [] problem = "real_vector_multiply" -> p * 2
    [] problem = "real_matrix_vector_multiply" -> p * p + p
    [] problem \in {"real_naive_matrix_multiply", "real_tiled_matrix_multiply"} -> p * p * 2

\* A slip: what is left over after the even shares goes to nobody.
PerWorkerRoundedDown(w, p) == p \div w

PerWorker(w, p) == p \div w + (IF p % w # 0 THEN 1 ELSE 0)

\* Worker i's half-open interval of a body of p rows, each of the given width.
Start(w, p, width, i) == i * PerWorker(w, p) * width
End(w, p, width, i) ==
  LET start == Start(w, p, width, i)
  IN  Min({start + PerWorker(w, p) * width, p * width})

\* end - start in std::size_t, which wraps when earlier workers took everything.
Extent(w, p, width, i) ==
  (End(w, p, width, i) - Start(w, p, width, i)) % 2 ^ SizeBits

\* The range constructor of std::vector refuses a range that runs backwards.
RunsBackwards(w, p, width, i) == End(w, p, width, i) < Start(w, p, width, i)

Refused(complaint, share) ==
  [ends |-> "returns", complaint |-> complaint, share |-> share, parts |-> <<>>]
Failed(how) == [ends |-> how, complaint |-> "none", share |-> <<>>, parts |-> <<>>]

\* The loop over the workers: Cut(i) is worker i's part.  It stops early at a
\* worker whose extent is not whole rows, and throws at one that runs backwards.
DivideAmong(w, p, width, share, Cut(_)) ==
  LET Ragged(i) == width # 1 /\ Extent(w, p, width, i) % p # 0
      bad == {i \in 0 .. w - 1 : Ragged(i) \/ RunsBackwards(w, p, width, i)}
      parts(n) == [k \in 1 .. n |-> Cut(k - 1)]
  IN  IF bad = {}
      THEN [ends |-> "returns", complaint |-> "none", share |-> share, parts |-> parts(w)]
      ELSE IF Ragged(Min(bad))
      THEN [ends |-> "returns", complaint |-> "size", share |-> share, parts |-> parts(Min(bad))]
      ELSE Failed("throws")

\* Sum and Statistics: one block of the vector each.
DivideVector(w, p) ==
  DivideAmong(w, p, 1, <<>>, LAMBDA i :
    [size |-> Extent(w, p, 1, i), chunk |-> Range0(Start(w, p, 1, i), End(w, p, 1, i))])

\* VectorMultiply: the same block of both vectors.
DividePair(w, p) ==
  DivideAmong(w, p, 1, <<>>, LAMBDA i :
    [size  |-> Extent(w, p, 1, i),
     chunk |-> Range0(Start(w, p, 1, i), End(w, p, 1, i))
               \o Range0(p + Start(w, p, 1, i), p + End(w, p, 1, i))])

\* Whole rows of a matrix that begins at position base; width = p, so p = 0
\* divides by zero.
DivideRows(w, p, base, share) ==
  IF p = 0 THEN Failed("traps")
  ELSE DivideAmong(w, p, p, share, LAMBDA i :
         [size  |-> Extent(w, p, p, i) \div p,
          chunk |-> Range0(base + Start(w, p, p, i), base + End(w, p, p, i))])

DivideMatrixVector(w, p) == DivideRows(w, p, p, Range0(0, p))

DivideMatrices(w, p) == DivideRows(w, p, 0, Range0(p * p, 2 * p * p))

\* A slip: the rows need not make whole tiles.
DivideTilesUnchecked(w, p) == DivideMatrices(w, p)

DivideTiles(w, p) ==
  IF PerWorker(w, p) % TileSize # 0
  THEN Refused("tile", Range0(p * p, 2 * p * p))
  ELSE DivideMatrices(w, p)

Divide(problem, w, p, items) ==
  IF items # InputItems(problem, p) THEN Refused("size", <<>>)
  ELSE IF w = 0 THEN Failed("traps")
  ELSE CASE problem \in {"real_sum", "real_statistics"} -> DivideVector(w, p)
         [] problem = "real_vector_multiply" -> DividePair(w, p)
         [] problem = "real_matrix_vector_multiply" -> DivideMatrixVector(w, p)
         [] problem = "real_naive_matrix_multiply" -> DivideMatrices(w, p)
         [] problem = "real_tiled_matrix_multiply" -> DivideTiles(w, p)

-----------------------------------------------------------------------------
(* format().  Operands of the wrong size are reported and left out.        *)

Operands(first, second) == [first |-> first, second |-> second]
NoOperands == Operands(<<>>, <<>>)

FormatVector(size, chunk) ==
  IF Len(chunk) # size THEN NoOperands ELSE Operands(chunk, <<>>)

FormatPair(size, chunk) ==
  IF Len(chunk) # size * 2 THEN NoOperands
  ELSE Operands(SubSeq(chunk, 1, size), SubSeq(chunk, size + 1, 2 * size))

FormatMatrixVector(size, share, chunk) ==
  IF Len(chunk) # size * Len(share) THEN NoOperands ELSE Operands(chunk, share)

FormatMatrices(size, share, chunk) ==
  LET m == SideOf(Len(share))
  IN  IF Len(share) # m * m \/ Len(chunk) # size * m
      THEN NoOperands
      ELSE Operands(chunk, share)

Format(problem, size, share, chunk) ==
  CASE problem \in {"real_sum", "real_statistics"} -> FormatVector(size, chunk)
    [] problem = "real_vector_multiply" -> FormatPair(size, chunk)
    [] problem = "real_matrix_vector_multiply" -> FormatMatrixVector(size, share, chunk)
    [] problem \in {"real_naive_matrix_multiply", "real_tiled_matrix_multiply"} ->
         FormatMatrices(size, share, chunk)

-----------------------------------------------------------------------------
(* calculate(): the output ciphertexts of one worker.                      *)

CalculateSum(size, ops) ==
  IF Len(ops.first) # size \/ size = 0 THEN <<>>
  ELSE << Total([k \in 1 .. size |-> Number(ops.first[k])]) >>

CalculateStatistics(size, ops) ==
  IF Len(ops.first) # size \/ size = 0 THEN <<>>
  ELSE << Total([k \in 1 .. size |-> Number(ops.first[k])]),
          Total([k \in 1 .. size |-> Product(ops.first[k], ops.first[k])]) >>

CalculateVectorMultiply(size, ops) ==
  IF Len(ops.first) # size \/ Len(ops.second) # size \/ size = 0 THEN <<>>
  ELSE << DotProduct(ops.first, 0, ops.second, 0, 1, size) >>

CalculateMatrixVector(size, ops) ==
  LET m == Len(ops.second)
  IN  IF Len(ops.first) # size * m \/ ops.first = <<>> \/ m = 0 THEN <<>>
      ELSE [k \in 1 .. size |-> DotProduct(ops.first, (k - 1) * m, ops.second, 0, 1, m)]

\* One cell per row of the worker's share of A and column of B.
Cells(size, ops, Cell(_, _)) ==
  LET m == SideOf(Len(ops.second))
  IN  IF Len(ops.second) # m * m \/ Len(ops.first) # size * m \/ ops.first = <<>> \/ m = 0
      THEN <<>>
      ELSE [k \in 1 .. size * m |-> Cell((k - 1) \div m, (k - 1) % m)]

\* Column col of B is read as the elements i * m + col: B by rows.
CalculateNaive(size, ops) ==
  LET m == SideOf(Len(ops.second))
  IN  Cells(size, ops, LAMBDA row, col :
        DotProduct(ops.first, row * m, ops.second, col, m, m))

\* Column col of B is read as the elements col * m + i: B by columns, one tile
\* of the dot product after another.
CalculateTiled(size, ops) ==
  LET m == SideOf(Len(ops.second))
      Tiles == [b \in 1 .. (m + TileSize - 1) \div TileSize |-> (b - 1) * TileSize]
      InTile(row, col, from) ==
        DotProduct(ops.first, row * m + from, ops.second, col * m + from, 1,
                   Min({TileSize, m - from}))
  IN  Cells(size, ops, LAMBDA row, col :
        Total([b \in DOMAIN Tiles |-> InTile(row, col, Tiles[b])]))

Calculate(problem, size, ops) ==
  CASE problem = "real_sum" -> CalculateSum(size, ops)
    [] problem = "real_statistics" -> CalculateStatistics(size, ops)
    [] problem = "real_vector_multiply" -> CalculateVectorMultiply(size, ops)
    [] problem = "real_matrix_vector_multiply" -> CalculateMatrixVector(size, ops)
    [] problem = "real_naive_matrix_multiply" -> CalculateNaive(size, ops)
    [] problem = "real_tiled_matrix_multiply" -> CalculateTiled(size, ops)

-----------------------------------------------------------------------------
(* aggregate(): the decrypted parts, in worker order, become the output.   *)

AggregateSum(partial) == << Total(FlattenSeq(partial)) >>

\* Statistics reads items 0 and 1 of every part, also of a part with none.
ReadsMissingItem(problem, partial) ==
  problem = "real_statistics" /\ \E k \in DOMAIN partial : partial[k] = <<>>

AggregateStatistics(partial) ==
  << Total([k \in DOMAIN partial |-> partial[k][1]]),
     Total([k \in DOMAIN partial |-> partial[k][2]]) >>

AggregateRows(partial) == FlattenSeq(partial)

Aggregate(problem, partial) ==
  CASE problem \in {"real_sum", "real_vector_multiply"} -> AggregateSum(partial)
    [] problem = "real_statistics" -> AggregateStatistics(partial)
    [] problem \in MatrixProblems -> AggregateRows(partial)

-----------------------------------------------------------------------------
(* What the workloads promise, defined without any division of the work.   *)

RowByRow(p, i, col)   == p * p + i * p + col  \* B stored by rows
ColumnByColumn(p, i, col) == p * p + col * p + i  \* B stored by columns

MatrixProduct(p, Layout(_, _, _)) ==
  [k \in 1 .. p * p |->
     SetToBag({<<((k - 1) \div p) * p + i, Layout(p, i, (k - 1) % p)>> : i \in 0 .. p - 1})]

\* One polynomial for each number of the output.
Reference(problem, p) ==
  CASE problem = "real_sum" -> << SetToBag({<<x>> : x \in 0 .. p - 1}) >>
    [] problem = "real_statistics" -> << SetToBag({<<x>> : x \in 0 .. p - 1}),
                                         SetToBag({<<x, x>> : x \in 0 .. p - 1}) >>
    [] problem = "real_vector_multiply" -> << SetToBag({<<x, p + x>> : x \in 0 .. p - 1}) >>
    [] problem = "real_matrix_vector_multiply" ->
         [row \in 1 .. p |-> SetToBag({<<row * p + j, j>> : j \in 0 .. p - 1})]
    [] problem = "real_naive_matrix_multiply" -> MatrixProduct(p, RowByRow)
    [] problem = "real_tiled_matrix_multiply" -> MatrixProduct(p, ColumnByColumn)

Polynomial(sum) ==
  [term \in ToSet(sum) |-> Cardinality({k \in DOMAIN sum : sum[k] = term})]

Polynomials(sums) == [k \in DOMAIN sums |-> Polynomial(sums[k])]

\* The command fits its input, and the threads share it with nothing left over
\* for a worker that starts beyond the end.
Fits(problem, w, p, items) ==
  /\ items = InputItems(problem, p)
  /\ w > 0
  /\ (w - 1) * PerWorker(w, p) <= p
  /\ problem = "real_statistics" => (w - 1) * PerWorker(w, p) < p
  /\ problem \in MatrixProblems => p > 0
  /\ problem = "real_tiled_matrix_multiply" => PerWorker(w, p) % TileSize = 0
=============================================================================
