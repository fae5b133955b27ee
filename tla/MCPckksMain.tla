---------------------------- MODULE MCPckksMain ----------------------------
(***************************************************************************)
(* Commands for model-checking PckksMain.                                  *)
(***************************************************************************)
EXTENDS PckksMain

Run(problem, size, count, items) ==
  [argc |-> 6, problem |-> problem, size |-> size, threads |-> count,
   items |-> items, writable |-> TRUE]

\* Every problem, size and number of threads, on an input of the right size.
RightInput ==
  {Run(problem, size, count, InputItems(problem, size)) :
     problem \in Problems, size \in 0 .. 4, count \in 0 .. 3}

\* More threads than can share the work evenly.
ManyThreads ==
  {Run(problem, size, 4, InputItems(problem, size)) : problem \in MatrixProblems, size \in 1 .. 6}
    \cup {Run(problem, 6, 5, InputItems(problem, 6)) : problem \in VectorProblems}

\* One item too few, or none at all.
WrongInput ==
  {Run(problem, 2, count, items) : problem \in Problems, count \in {0, 2}, items \in {0, 1}}

BadArguments ==
  { [Run("real_sum", 2, 1, 2) EXCEPT !.argc = 5],
    [Run("real_sum", 2, 1, 2) EXCEPT !.writable = FALSE],
    Run("real_sum", Malformed, 1, 2),
    Run("real_sum", 2, Malformed, 2),
    Run("matrix_vector_multiply", 2, 1, 6) }

MCCommands == RightInput \cup ManyThreads \cup WrongInput \cup BadArguments
=============================================================================
