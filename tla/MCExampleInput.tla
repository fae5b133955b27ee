----------------------------- MODULE MCExampleInput -----------------------------
(***************************************************************************)
(* Workloads, sizes and arguments for model-checking ExampleInput.         *)
(***************************************************************************)
EXTENDS ExampleInput

Task(problem, size) == [problem |-> problem, size |-> size]

Bits(n) == [1 .. n -> {0, 1}]
Shuffles(n) == {f \in [1 .. n -> 0 .. n - 1] : \A i, j \in 1 .. n : f[i] = f[j] => i = j}

\* Matrices that are not their own transposes, and vectors, with results of 2 and more.
Mixed(s) == [k \in 1 .. s * s |-> k % 3]
Leaning(s) == [k \in 1 .. s * s |-> IF (k - 1) \div s <= (k - 1) % s THEN 1 ELSE 0]

Draws(t) ==
  CASE t.problem = "password" -> {[a |-> hash] : hash \in Bits(t.size)}
    [] t.problem = "full_sort" /\ t.size <= 2 ->
         {[a |-> shuffle] : shuffle \in Shuffles(2 * t.size)}
    [] t.problem \in MatrixPairs ->
         {[a |-> Mixed(t.size), b |-> Leaning(t.size)],
          [a |-> Leaning(t.size), b |-> Mixed(t.size)]}
    [] t.problem \in MatrixVectors ->
         {[a |-> Mixed(t.size), b |-> [k \in 1 .. t.size |-> (2 * k) % 3]]}
    [] t.problem = "binary_fc_layer" ->
         {[a |-> Leaning(t.size), b |-> x] : x \in Bits(t.size)}
    [] OTHER -> {}

Args(workers, option, draw) ==
  [argc |-> IF option = "" THEN 4 ELSE 5, workers |-> workers, option |-> option, draw |-> draw]

Arguments(t) ==
  LET options == {"", "check"} \cup IF t.problem \in OptionProblems THEN {"turbo"} ELSE {}
  IN  {Args(n, option, "none") : n \in 1 .. MaxWorkers, option \in options}
      \cup {Args(n, "random", draw) : n \in 1 .. MaxWorkers, draw \in Draws(t)}
      \cup {[Args(1, "", "none") EXCEPT !.argc = 3]}

MCTasks ==
  {Task(problem, size) :
     problem \in MatrixPairs \cup MatrixVectors \cup
       {"aspirin", "password", "merge_sorted", "full_sort", "loop_join", "real_cpir", "real_sum",
        "real_statistics", "real_vector_multiply"},
     size \in 0 .. 4}
  \cup {Task("binary_fc_layer", size) : size \in {0, 2, 3, 4}}
  \cup {Task("real_cpir", 5), Task("unknown", 2), Task("merge_sorted", 7)}

MCCommands == [t \in MCTasks |-> Arguments(t)]
=============================================================================
