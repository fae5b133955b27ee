---------------------------- MODULE MCCkksExperiment ----------------------------
(***************************************************************************)
(* Workloads, draws and commands for model-checking CkksExperiment.        *)
(***************************************************************************)
EXTENDS CkksExperiment

Task(problem, size) == [problem |-> problem, size |-> size]

\* The last two are refused: by ckks_utils alone, and by both (README.md:151).
MCTasks ==
  {Task(problem, 2) : problem \in {"real_sum", "real_statistics", "real_matrix_vector_multiply",
     "real_naive_matrix_multiply", "real_tiled_matrix_multiply", "real_vector_multiply"}}
  \cup {Task("real_sum", 0), Task("matrix_vector_multiply", 1)}

\* For the runs about what ends: an input that can be served, and one that cannot.
MCFewTasks == {Task("real_sum", 2), Task("matrix_vector_multiply", 1)}

\* A matrix that is not its own transpose.
Mixed(s) == [k \in 1 .. s * s |-> (k * k) % 7]
MCDrawn == [t \in MCTasks |->
  [a |-> Mixed(t.size),
   b |-> IF t.problem \in MatrixVectors THEN [k \in 1 .. t.size |-> k] ELSE Mixed(t.size)]]

Hand(problem, size, colon, rounds, input) ==
  [argc |-> 5, problem |-> problem, arg |-> [size |-> size, colon |-> colon, rounds |-> rounds],
   input |-> input]

HandInputs == UNION {[1 .. n -> {0, 1, 3}] : n \in 0 .. 3} \cup {<<2, 1, 3, 0, 5, 4, 1, 2>>}
          \cup {[k \in 1 .. 18 |-> (k * k + 1) % 7]}

MCCkksCommands ==
  {Hand(problem, size, colon, rounds, input) :
     problem \in CkksProblems, size \in 0 .. 3, colon \in BOOLEAN, rounds \in 0 .. 2,
     input \in HandInputs}
  \cup {Hand("real_sum", NoNumber, TRUE, 1, <<1>>), Hand("real_sum", 1, TRUE, NoNumber, <<1>>),
        Hand("real_vector_multiply", 1, TRUE, 1, <<1, 1>>),
        [Hand("real_sum", 1, TRUE, 1, <<1>>) EXCEPT !.argc = 6]}

MCPlannerCommands ==
  [argc : {6, 7}, program : {"real_sum", "none"}, protocol : {"ckks", "unbounded", "none"},
   config : {<<2>>}, party : {1, NoParty}, index : {0, 2, OutOfRange}, size : {0, 4, OutOfRange}]
================================================================================
