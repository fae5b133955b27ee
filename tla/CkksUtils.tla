------------------------------- MODULE CkksUtils -------------------------------
(***************************************************************************)
(* tools/ckks_utils.cpp, from its arguments to its output file.  A number  *)
(* stands for itself whether it is encrypted or not; what the scheme's     *)
(* noise and scale do to it is left out.                                   *)
(***************************************************************************)
EXTENDS Integers, Sequences

CONSTANT CkksTile  \* tile_size, 16 in the program

ASSUME TileAssumption == CkksTile \in Nat \ {0}

CkksProblems == {"real_sum", "real_statistics", "real_matrix_vector_multiply",
                 "real_naive_matrix_multiply", "real_tiled_matrix_multiply"}

\* What std::stoull cannot convert.
NoNumber == -1

\* The argument is "size:rounds", or "size" alone: find_first_of then says npos, and
\* the substring from npos + 1 = 0 on is the size once more.
RoundNum(arg) == IF arg.colon THEN arg.rounds ELSE arg.size

-----------------------------------------------------------------------------
(* The five workloads, on the p first numbers (or p + p * p, or 2 * p * p) *)
(* of the input.                                                           *)

\* Added up one after another.
Sigma(values) ==
  LET sum[k \in 0 .. Len(values)] == IF k = 0 THEN 0 ELSE sum[k - 1] + values[k]
  IN  sum[Len(values)]

\* How many numbers are looked at; real_sum and real_statistics begin with the first
\* number whatever the size.
Needs(problem, p, rounds) ==
  CASE problem \in {"real_sum", "real_statistics"} -> IF rounds = 0 \/ p = 0 THEN 1 ELSE p
    [] problem = "real_matrix_vector_multiply" -> p + p * p
    [] problem \in {"real_naive_matrix_multiply", "real_tiled_matrix_multiply"} -> 2 * p * p

RoundsOf(first, rounds, values) ==
  IF rounds = 0 THEN first ELSE first + rounds * Sigma(values)

RealSumOf(v, p, rounds) == << RoundsOf(v[1], rounds, [j \in 1 .. p |-> v[j]]) >>

\* A slip: the first number is left in.
StatisticsOfKeepingFirst(v, p, rounds) ==
  << RoundsOf(v[1], rounds, [j \in 1 .. p |-> v[j]]),
     RoundsOf(v[1] * v[1], rounds, [j \in 1 .. p |-> v[j] * v[j]]) >>

\* What the sums began with is taken away again at the end.
StatisticsOf(v, p, rounds) ==
  LET sum == RoundsOf(v[1], rounds, [j \in 1 .. p |-> v[j]])
      squares == RoundsOf(v[1] * v[1], rounds, [j \in 1 .. p |-> v[j] * v[j]])
  IN  << sum - v[1], squares - v[1] * v[1] >>

\* n products of neighbours, from v[x] and v[y] on (counting from zero).
DotOf(v, x, y, n) == Sigma([i \in 1 .. n |-> v[x + i] * v[y + i]])

MatrixVectorOf(v, p) == [i \in 1 .. p |-> DotOf(v, p + (i - 1) * p, 0, p)]

\* A slip: B is taken to be stored by rows.
NaiveByRows(v, p) ==
  [k \in 1 .. p * p |->
     Sigma([i \in 1 .. p |->
       v[((k - 1) \div p) * p + i] * v[p * p + (i - 1) * p + ((k - 1) % p) + 1]])]

\* Both factors are read along the rows: B is stored by columns.
NaiveOf(v, p) ==
  [k \in 1 .. p * p |-> DotOf(v, ((k - 1) \div p) * p, p * p + ((k - 1) % p) * p, p)]

TileWidth(p, from) == IF p - from < CkksTile THEN p - from ELSE CkksTile

\* Each cell is the sum over the tiles of a row of A and a column of B.
TiledOf(v, p) ==
  LET starts == [b \in 1 .. (p + CkksTile - 1) \div CkksTile |-> (b - 1) * CkksTile]
      Cell(row, col) ==
        Sigma([b \in DOMAIN starts |->
          DotOf(v, row * p + starts[b], p * p + col * p + starts[b], TileWidth(p, starts[b]))])
  IN  [k \in 1 .. p * p |-> Cell((k - 1) \div p, (k - 1) % p)]

CalculateOf(problem, v, p, rounds) ==
  CASE problem = "real_sum" -> RealSumOf(v, p, rounds)
    [] problem = "real_statistics" -> StatisticsOf(v, p, rounds)
    [] problem = "real_matrix_vector_multiply" -> MatrixVectorOf(v, p)
    [] problem = "real_naive_matrix_multiply" -> NaiveOf(v, p)
    [] problem = "real_tiled_matrix_multiply" -> TiledOf(v, p)

-----------------------------------------------------------------------------
(* main(): how it ends, and what it writes if it does.                     *)

Ended(how) == [how |-> how, items |-> <<>>]

\* Taking the first number away leaves nothing that hides a number, which SEAL
\* (external) does not put up with.
LeavesNothing(problem, p, rounds) == problem = "real_statistics" /\ (rounds = 0 \/ p = 0)

\* A usage error, a number that is none, an unknown problem; then the input is read,
\* an empty one if it cannot be opened, and to read past its end is undefined.
CkksRun(argc, problem, arg, input) ==
  IF argc # 5 THEN Ended("refused")
  ELSE IF arg.size = NoNumber \/ RoundNum(arg) = NoNumber THEN Ended("crashed")
  ELSE IF problem \notin CkksProblems THEN Ended("refused")
  ELSE IF Len(input) < Needs(problem, arg.size, RoundNum(arg)) THEN Ended("undefined")
  ELSE IF LeavesNothing(problem, arg.size, RoundNum(arg)) THEN Ended("crashed")
  ELSE [how |-> "answers", items |-> CalculateOf(problem, input, arg.size, RoundNum(arg))]
================================================================================
