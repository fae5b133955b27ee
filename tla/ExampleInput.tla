------------------------------ MODULE ExampleInput ------------------------------
(***************************************************************************)
(* tools/example_input.cpp run again and again for one workload and size,  *)
(* with any number of workers: it writes the input files of the garblers   *)
(* and evaluators and the files of expected output, and with the option    *)
(* "check" it compares the output files of a loop_join with the answer.    *)
(*                                                                         *)
(* Every file's name starts with the workload, the size and the worker, so *)
(* a run for another workload or size would touch none of these files.     *)
(***************************************************************************)
EXTENDS ExampleProblems, TLC

CONSTANTS MaxWorkers,  \* the largest number of workers of any command
          MaxRuns,     \* how many times the program is run
          Tasks,       \* the workloads with their sizes
          Commands     \* Commands[t]: the other arguments, and what will be drawn

WorkerIds == 0 .. MaxWorkers - 1
Kinds == {"garbler", "evaluator", "expected", "output"}
Written == {"garbler", "evaluator", "expected"}

ASSUME InputAssumption ==
  /\ MaxWorkers \in Nat \ {0} /\ MaxRuns \in Nat
  /\ \A t \in Tasks : t.size \in Nat /\ \A c \in Commands[t] : c.workers \in 1 .. MaxWorkers

ASSUME DrawAssumption ==
  \A t \in Tasks : \A c \in Commands[t] :
    c.option = "random" => DrawnFor(t.problem, t.size, c.draw)

VARIABLES
  task,       \* problem_name and input_size
  command,    \* argc, num_workers, option, and what the engines draw
  pc,         \* where main is; "idle" when it is not running
  how,        \* how the last run ended
  complaint,  \* what it complained of
  verdict,    \* what the last check said
  files,      \* every file of the task: what is in it, if it exists
  runs

vars == <<task, command, pc, how, complaint, verdict, files, runs>>

NoCommand == [argc |-> 0, workers |-> 1, option |-> "", draw |-> "none"]
Absent == [there |-> FALSE, items |-> <<>>]
Holding(items) == [there |-> TRUE, items |-> items]

\* "aborts": an assertion or std::abort; "undefined": a writer that does not exist
\* was used, or zero divided by.
Endings == {"none", "returned", "aborts", "undefined"}
Complaints == {"none", "usage", "option", "problem", "batch"}

Init ==
  /\ task \in Tasks
  /\ command = NoCommand
  /\ pc = "idle" /\ how = "none" /\ complaint = "none" /\ verdict = "none"
  /\ files = [f \in Kinds \X WorkerIds |-> Absent]
  /\ runs = 0

Problem == task.problem
Size == task.size
Workers == command.workers
Option == command.option
OfRun(f) == f[1] \in Written /\ f[2] < Workers

Ends(ending, why) == pc' = "idle" /\ how' = ending /\ complaint' = why

-----------------------------------------------------------------------------
(* A run of the program.                                                   *)

Start ==
  /\ pc = "idle" /\ how # "undefined" /\ runs < MaxRuns
  /\ runs' = runs + 1
  /\ \E c \in Commands[task] :
       /\ command' = c
       /\ IF c.argc \in {4, 5} THEN pc' = "open" /\ how' = "none" /\ complaint' = "none"
                               ELSE Ends("returned", "usage")
  /\ verdict' = "none"
  /\ UNCHANGED <<task, files>>

\* A slip: one writer too many.
OpenOneMore ==
  /\ pc = "open"
  /\ pc' = "work"
  /\ LET made == IF Option = "check" THEN {} ELSE Written \X (0 .. Workers)
     IN  files' = [f \in DOMAIN files \cup made |-> IF f \in made THEN Holding(<<>>) ELSE files[f]]
  /\ UNCHANGED <<task, command, how, complaint, verdict, runs>>

\* A slip: the expected files are left for the workload to empty.
OpenInputsOnly ==
  /\ pc = "open"
  /\ pc' = "work"
  /\ files' = [f \in DOMAIN files |->
                 IF Option # "check" /\ OfRun(f) /\ f[1] # "expected" THEN Holding(<<>>)
                                                                   ELSE files[f]]
  /\ UNCHANGED <<task, command, how, complaint, verdict, runs>>

\* Files are made, or emptied, before the workload's name or the option is looked at.
OpenWriters ==
  /\ pc = "open"
  /\ pc' = "work"
  /\ files' = [f \in DOMAIN files |-> IF Option # "check" /\ OfRun(f) THEN Holding(<<>>)
                                                                   ELSE files[f]]
  /\ UNCHANGED <<task, command, how, complaint, verdict, runs>>

PowerOfTwo(n) == \E l \in 0 .. n : n = Power2[l]

Aborts == \/ Problem \in MatrixPairs /\ ~ PowerOfTwo(Workers)
          \/ Problem = "binary_fc_layer" /\ Size % BatchSize # 0

Refuse ==
  /\ pc = "work" /\ Aborts
  /\ Ends("aborts", IF Problem = "binary_fc_layer" THEN "batch" ELSE "none")
  /\ UNCHANGED <<task, command, verdict, files, runs>>

\* The option is compared after the assertions, and before anything is written.
BadOption == Problem \in OptionProblems /\ Option \notin {"", "random"}

Complain ==
  /\ pc = "work" /\ ~ Aborts
  /\ \/ BadOption /\ Ends("returned", "option")
     \/ Problem \notin KnownProblems /\ Ends("returned", "problem")
  /\ UNCHANGED <<task, command, verdict, files, runs>>

DividesByZero == Problem \in MatrixPairs /\ Size > 0 /\ Size < PortionsA(Workers)

Checks == Problem = "loop_join" /\ Option = "check"

Generate ==
  /\ pc = "work" /\ ~ Aborts /\ ~ Checks /\ ~ BadOption /\ Problem \in KnownProblems
  /\ LET writes == Writes(Problem, Size, Workers, Option, command.draw)
     IN  IF \/ DividesByZero
            \/ Option = "check" /\ writes # <<>>
            \/ \E k \in DOMAIN writes : writes[k].worker \notin 0 .. Workers - 1
         THEN Ends("undefined", "none") /\ UNCHANGED files
         ELSE /\ Ends("returned", "none")
              /\ files' = [f \in DOMAIN files |->
                             IF Option # "check" /\ OfRun(f)
                             THEN Holding(ItemsOf(writes, f[1], f[2])) ELSE files[f]]
  /\ UNCHANGED <<task, command, verdict, runs>>

-----------------------------------------------------------------------------
(* The check of loop_join.                                                 *)

\* The two keys of each record of the join.
Pairs(records) ==
  FlattenSeq([k \in DOMAIN records |->
                IF records[k][1] = 1 THEN << <<records[k][2], records[k][3]>> >> ELSE <<>>])

\* std::sort of std::pair: in place r is the pair of rank r, equal ones in their order.
PairLess(p, q) == p[1] < q[1] \/ (p[1] = q[1] /\ p[2] < q[2])
Rank(pairs, k) ==
  Cardinality({m \in DOMAIN pairs : \/ PairLess(pairs[m], pairs[k])
                                    \/ pairs[m] = pairs[k] /\ m <= k})
Sorted(pairs) ==
  [r \in DOMAIN pairs |-> pairs[CHOOSE k \in DOMAIN pairs : Rank(pairs, k) = r]]

PerWorker == (Size * Size) \div Workers

\* A slip: the pairs are compared in the order they are read.
PassesUnsorted ==
  LET outputs == [i \in 1 .. Workers |-> files["output", i - 1].items]
  IN  /\ \A i \in 1 .. Workers : Len(outputs[i]) = PerWorker
      /\ Pairs(FlattenSeq(outputs)) = Pairs(JoinRecords(Size))

\* A slip: however many records a worker has left are read.
PassesAnyLength ==
  LET outputs == [i \in 1 .. Workers |-> files["output", i - 1].items]
  IN  Sorted(Pairs(FlattenSeq(outputs))) = Pairs(JoinRecords(Size))

\* The file of a worker has as many bytes as PerWorker records take; one of another
\* length is passed over.
Passes ==
  LET outputs == [i \in 1 .. Workers |-> files["output", i - 1].items]
      actual == Sorted(Pairs(FlattenSeq(outputs)))
      expected == Pairs(JoinRecords(Size))
  IN  /\ \A i \in 1 .. Workers : Len(outputs[i]) = PerWorker
      /\ Len(actual) = Len(expected)
      /\ \A k \in DOMAIN actual : actual[k] = expected[k]

\* A reader (external) of a file that is not there ends the program.
Check ==
  /\ pc = "work" /\ Checks
  /\ IF \A w \in 0 .. Workers - 1 : files["output", w].there
     THEN Ends("returned", "none") /\ verdict' = IF Passes THEN "PASS" ELSE "FAIL"
     ELSE Ends("aborts", "none") /\ UNCHANGED verdict
  /\ UNCHANGED <<task, command, files, runs>>

-----------------------------------------------------------------------------
(* The workload itself (external): it leaves each worker's part of the     *)
(* result.  The pairs may come in any order, and a result may be wrong.    *)
(* One result is enough: there is a state for each there can be.           *)

Generated == /\ pc = "idle" /\ how = "returned" /\ complaint = "none"
             /\ Option # "check"

\* All that the workers' files of a kind hold, one file after the other.
Whole(kind) == FlattenSeq([i \in 1 .. Workers |-> files[kind, i - 1].items])

\* The right result, with two neighbours swapped or with a record replaced.
Results ==
  LET right == Whole("expected")
      last == Len(right)
  IN  {right}
      \cup {[right EXCEPT ![k] = right[k + 1], ![k + 1] = right[k]] : k \in 1 .. last - 1}
      \cup {[right EXCEPT ![k] = right[m]] : k, m \in 1 .. last}

\* Cut as the expected files are, or in equal parts of which the rest is dropped.
Parts(result) ==
  LET dealt == Deal("output", BlockedOf(Workers, Len(result)), result)
  IN  { [i \in 1 .. Workers |-> ItemsOf(dealt, "output", i - 1)],
        [i \in 1 .. Workers |-> SubSeq(result, (i - 1) * PerWorker + 1, i * PerWorker)] }

Mage ==
  /\ Generated /\ Problem = "loop_join" /\ \A w \in WorkerIds : ~ files["output", w].there
  /\ \E result \in Results : \E parts \in Parts(result) :
       files' = [f \in DOMAIN files |-> IF f[1] = "output" /\ f[2] < Workers
                                        THEN Holding(parts[f[2] + 1]) ELSE files[f]]
  /\ UNCHANGED <<task, command, pc, how, complaint, verdict, runs>>

Next == Start \/ OpenWriters \/ Refuse \/ Complain \/ Generate \/ Check \/ Mage

Spec == Init /\ [][Next]_vars

-----------------------------------------------------------------------------
(* Properties.                                                             *)

\* The variables are what main and the disk can hold.
TypeOK ==
  /\ task \in Tasks /\ command \in Commands[task] \cup {NoCommand}
  /\ pc \in {"idle", "open", "work"} /\ how \in Endings /\ complaint \in Complaints
  /\ verdict \in {"none", "PASS", "FAIL"} /\ runs \in 0 .. MaxRuns
  /\ DOMAIN files = Kinds \X WorkerIds
  /\ \A f \in DOMAIN files : files[f].there \in BOOLEAN
                             /\ (files[f].there \/ files[f].items = <<>>)

\* Every record finds its writer, but for two kinds of commands (:101, :317-318): one
\* that has "check" of a workload that does not look at its option and has something
\* to write, and a matrix product whose rows cannot be cut evenly.  Whatever is not a
\* multiple of the cut is lost: not one such command gets away with it.
UndefinedOnlyWhen ==
  pc = "idle" /\ command.argc \in {4, 5} =>
    ((how = "undefined") <=>
       \/ /\ Option = "check" /\ Problem \in KnownProblems \ (OptionProblems \cup {"loop_join"})
          /\ Size > 0 \/ Problem \notin {"password", "merge_sorted", "real_cpir"}
       \/ /\ Problem \in MatrixPairs /\ Option \in {"", "random"}
          /\ \E l \in 0 .. MaxWorkers :
               Workers = Power2[l] /\ Size % Power2[(l + 1) \div 2] # 0)

\* A matrix the garblers keep first, and what they keep after it; share(w) is how
\* many items of w's file the first one has.
First(share(_)) == FlattenSeq([i \in 1 .. Workers |->
  SubSeq(files["garbler", i - 1].items, 1, share(i - 1))])
Second(share(_)) == FlattenSeq([i \in 1 .. Workers |->
  LET items == files["garbler", i - 1].items
  IN  SubSeq(items, share(i - 1) + 1, Len(items))])

Half(w) == Len(files["garbler", w].items) \div 2
Answers(w) == Len(files["expected", w].items)

Row(matrix, i) == SubSeq(matrix, (i - 1) * Size + 1, i * Size)
Dot(u, v) == ElementSum(Problem, [k \in 1 .. Size |-> u[k] * v[k]])

IsPermutation(u, v) ==
  LET Times(x, seq) == Cardinality({k \in DOMAIN seq : seq[k] = x})
  IN  Len(u) = Len(v) /\ \A k \in DOMAIN u : Times(u[k], u) = Times(u[k], v)

\* The answer of each workload, told from the inputs on disk alone: g, e and x are
\* what the garblers', evaluators' and expected files hold, one worker after another.
IsAnswer(g, e, x) ==
  CASE Problem \in {"aspirin", "aspirin_seq"} ->
         \* the patients diagnosed at time 1 and given aspirin at time 2
         LET diagnosed == {g[k][1] : k \in {m \in DOMAIN g : g[m][2] = 1 /\ g[m][3] = 1}}
             prescribed == {e[k][1] : k \in {m \in DOMAIN e : e[m][2] = 2}}
         IN  Size > 0 => x = <<1, Cardinality(diagnosed \cap prescribed)>>
    [] Problem = "password" ->
         \* the users with one hash at both, each in its own place
         /\ Len(x) = Len(g) + Len(e) - (IF Size = 0 THEN 0 ELSE 1)
         /\ \A k \in DOMAIN x :
              x[k] = IF k % 2 = 1 /\ \E i \in DOMAIN g, j \in DOMAIN e :
                                        g[i] = e[j] /\ g[i][2] = (k + 1) \div 2
                     THEN (k + 1) \div 2 ELSE 0
    [] Problem \in {"merge_sorted", "full_sort"} ->
         IsPermutation(x, g \o e) /\ \A k \in 2 .. Len(x) : x[k - 1] < x[k]
    [] Problem = "loop_join" ->
         /\ Len(x) = Len(g) * Len(e)
         /\ \A i \in DOMAIN g, j \in DOMAIN e :
              x[(i - 1) * Len(e) + j] = IF g[i] < e[j] THEN <<1, g[i], e[j]>> ELSE <<0, 0, 0>>
    [] Problem = "matrix_vector_multiply" ->
         x = [i \in 1 .. Size |-> Dot(Row(g, i), e)]
    [] Problem = "real_matrix_vector_multiply" ->
         x = [i \in 1 .. Size |-> Dot(Row(Second(Answers), i), First(Answers))]
    [] Problem = "binary_fc_layer" ->
         \* a 0 stands for -1, and the sign of the product is what is kept
         x = [i \in 1 .. Size |->
                IF SumOf([k \in 1 .. Size |-> (2 * Row(g, i)[k] - 1) * (2 * e[k] - 1)]) >= 0
                THEN 1 ELSE 0]
    [] Problem = "real_cpir" ->
         \* row k of the database holds the Size numbers after 1 + (k - 1) * Size
         \A wanted \in DOMAIN g :
           g[wanted] = 1 => x = [k \in 1 .. Size |-> ((k - 1) * Size) + wanted]
    [] Problem = "real_sum" -> x = <<SumOf(g)>>
    [] Problem = "real_statistics" ->
         x = <<SumOf(g), SumOf([k \in DOMAIN g |-> g[k] * g[k]])>>
    [] Problem = "real_vector_multiply" ->
         x = <<SumOf([k \in 1 .. Size |-> First(Half)[k] * Second(Half)[k]])>>
    [] OTHER -> TRUE

\* The workers make up a grid with as many rows as columns, or twice as many; each
\* has the rectangle of the product its place in the grid stands for.
IsProduct(a, b) ==
  \A rows, columns \in 1 .. Workers :
    rows * columns = Workers /\ rows \in {columns, 2 * columns} =>
      \A i, j \in 0 .. Size - 1 :
        LET height == Size \div rows
            width == Size \div columns
            worker == (i \div height) * columns + (j \div width)
        IN  files["expected", worker].items[((i % height) * width) + (j % width) + 1]
              = Dot(Row(a, i + 1), Row(b, j + 1))

\* The expected files hold the answer to the very inputs that were written, whoever
\* of the workers has which part of either: the division among the workers, the order
\* within a file and the layout of the matrices are the same on both sides.
ExpectedIsTheAnswer ==
  Generated =>
    /\ IsAnswer(Whole("garbler"), Whole("evaluator"), Whole("expected"))
    /\ Problem = "matrix_multiply" => IsProduct(Whole("garbler"), Whole("evaluator"))
    /\ Problem \in MatrixPairs \ {"matrix_multiply"} => IsProduct(First(Half), Second(Half))

\* No worker is left with more than one answer above another's, in the workloads
\* that share the answers (:40-49).
AnswersAreShared ==
  Generated /\ Problem \in {"password", "merge_sorted", "full_sort", "loop_join", "binary_fc_layer",
                            "matrix_vector_multiply", "real_matrix_vector_multiply"} =>
    \A v, w \in 0 .. Workers - 1 : Answers(v) <= Answers(w) + 1

Refused == /\ pc = "idle" /\ command.argc \in {4, 5} /\ Option # "check"
           /\ how = "aborts" \/ complaint # "none"

\* A run that ends in an abort or with a complaint leaves every file of its workers
\* made and empty: never some of an input, and nothing of an earlier run.
RefusedAllOrNothing ==
  Refused => \A f \in DOMAIN files : OfRun(f) => files[f] = Holding(<<>>)

\* The check passes exactly the outputs that hold every pair of the join once, in any
\* order, with equally many records from each worker (:263-288).
CheckIsTrue ==
  verdict # "none" /\ pc = "idle" =>
    LET outputs == Whole("output")
        Found(i, j) == {k \in DOMAIN outputs : outputs[k] = <<1, i, j>>}
    IN  (verdict = "PASS") <=>
          /\ \A w \in 0 .. Workers - 1 : Len(files["output", w].items) = (Size * Size) \div Workers
          /\ \A i, j \in 0 .. Size - 1 : Cardinality(Found(i, j)) = IF i < j THEN 1 ELSE 0

\* The program's check accepts the program's own expected files exactly when the
\* workers divide the join evenly: the one gives the first workers one more of the
\* rest (:40-49), the other wants the same of all (:254).
OwnAnswerAccepted ==
  verdict # "none" /\ pc = "idle"
    /\ (\A w \in 0 .. Workers - 1 : /\ files["expected", w].there
                                    /\ files["expected", w] = files["output", w])
    /\ Whole("expected") = JoinRecords(Size) =>
    ((verdict = "PASS") <=> (Size * Size) % Workers = 0)

=============================================================================
