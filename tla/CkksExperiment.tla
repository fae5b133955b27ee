---------------------------- MODULE CkksExperiment ----------------------------
(***************************************************************************)
(* scripts/ckks.sh run one time after another for a workload and size, in  *)
(* the one playground directory: it writes the inputs with example_input,  *)
(* starts a monitor in the background, has the workload run by ckks_utils  *)
(* or pckks_utils, alone or under osprey, or by mage, and shows the output *)
(* file.  Nobody waits for the monitor, and the output file stays.         *)
(*                                                                         *)
(* Under osprey the workload may run twice at the same time, and each pass *)
(* makes the output file empty and then writes its numbers to it, one      *)
(* after another; any program may fail or be killed on the way, and the    *)
(* script looks at no exit code.  Or the script is left alone, and one of  *)
(* ckks_utils and planner is run by hand, on files of its own.             *)
(***************************************************************************)
EXTENDS ExampleProblems, CkksUtils, MageTools

CONSTANTS MaxThreads, MaxRuns,  \* of the script
          SizeBits,             \* the width of std::size_t
          Tasks,                \* the workloads with their sizes
          Drawn,                \* Drawn[t]: the engine's first numbers, always the same
          CutAt,                \* how many numbers a generator that is stopped has written
          CkksCommands, PlannerCommands  \* by hand

ASSUME ExperimentAssumption == MaxThreads \in Nat \ {0} /\ MaxRuns \in Nat /\ CutAt \subseteq Nat

\* The cells of a matrix can be counted in std::size_t.
ASSUME TaskAssumption ==
  /\ SizeBits \in Nat /\ 2 ^ SizeBits \in Nat
  /\ \A t \in Tasks : /\ t.size \in Nat /\ t.size * t.size < 2 ^ SizeBits
                      /\ DrawnFor(t.problem, t.size, Drawn[t])

\* A number of an argument is none, or what std::stoull makes of it.
ASSUME HandAssumption ==
  \A c \in CkksCommands :
    /\ {c.arg.size, c.arg.rounds} \subseteq Nat \cup {NoNumber} /\ c.arg.colon \in BOOLEAN
    /\ c.input \in Seq(Int)

Pckks == INSTANCE PckksProblems WITH TileSize <- CkksTile

Tools == {"osprey", "baseline", "mage"}

VARIABLES
  task,      \* workload and input_size
  run,       \* how many times the script has been started
  tool, threads,
  passes,    \* the passes this run asks for, as --tool_args has it
  pc,        \* where the script is
  launched,  \* the passes, or the workers of mage, started by now
  procs,     \* the processes of the workload that are running
  unlucky,   \* a pass of this run was not started, or has not written all it had to
  monitor,   \* the monitor of each run
  garbler, output,  \* the files
  written,   \* how many numbers each pass has written, once it has opened the output
  shown,     \* what the last run said the real output is
  hand       \* what became of the command by hand

vars == <<task, run, tool, threads, passes, pc, launched, procs, unlucky, monitor, garbler,
          output, written, shown, hand>>

setup == <<task, run, tool, threads, passes>>
file == <<output, written>>

Runs == 1 .. MaxRuns
Nobody == [run |-> 0, part |-> 0, name |-> "none", tool |-> "none"]
NotOpen == -1

\* A file has numbers, each with who wrote it, and who opened it last.
NoFile == [there |-> FALSE, items |-> <<>>, by |-> Nobody]
Written(p, value) == [by |-> p, value |-> value]
Hole == Written(Nobody, 0)

NoMonitor == [state |-> "off", target |-> "none", of |-> Nobody]
NoTask == [problem |-> "none", size |-> 0]
NoHand == [kind |-> "none", result |-> Ended("none")]

Init ==
  /\ task \in Tasks \cup {NoTask}
  /\ run = 0 /\ tool = "baseline" /\ threads = 1 /\ passes = <<1>>
  /\ pc = "idle" /\ launched = 0 /\ procs = {} /\ unlucky = FALSE
  /\ monitor = [r \in Runs |-> NoMonitor]
  /\ garbler = <<>> /\ output = NoFile /\ shown = NoFile
  /\ written = [part \in 1 .. 2 |-> NotOpen]
  /\ hand = NoHand

Workload == task.problem
Size == task.size

-----------------------------------------------------------------------------
(* The two utilities.                                                      *)

Terms(sum, input) ==
  Sigma([k \in DOMAIN sum |->
    IF Len(sum[k]) = 1 THEN input[sum[k][1] + 1]
                       ELSE input[sum[k][1] + 1] * input[sum[k][2] + 1]])

\* pckks_utils with nothing in its way: what PckksMain comes to, in numbers.
PckksRun(problem, p, w, input) ==
  IF problem \notin Pckks!Problems THEN Ended("refused")
  ELSE LET split == Pckks!Divide(problem, w, p, Len(input))
           partial == [k \in 1 .. w |->
             LET part == split.parts[k]
             IN  Pckks!Calculate(problem, part.size,
                                 Pckks!Format(problem, part.size, split.share, part.chunk))]
       IN  IF split.ends # "returns" THEN Ended("crashed")
           ELSE IF w > Len(split.parts) THEN Ended("undefined")
           ELSE IF Pckks!ReadsMissingItem(problem, partial) THEN Ended("undefined")
           ELSE LET sums == Pckks!Aggregate(problem, partial)
                IN  [how |-> "answers", items |-> [k \in DOMAIN sums |-> Terms(sums[k], input)]]

\* One thread is ckks_utils' business, in one round; more are pckks_utils'.
Utility == IF threads = 1 THEN "ckks_utils" ELSE "pckks_utils"

\* The files example_input makes for one worker, whatever the number of threads.
Inputs == [t \in Tasks |->
  LET writes == Writes(t.problem, t.size, 1, "random", Drawn[t])
  IN  [garbler |-> ItemsOf(writes, "garbler", 0), expected |-> ItemsOf(writes, "expected", 0)]]

\* The first n numbers of the input, which may be all there is of it.
Cut(t, n) == [k \in 1 .. n |-> Inputs[t].garbler[k]]
Lengths(t) == {0, Len(Inputs[t].garbler)} \cup {n \in CutAt : n < Len(Inputs[t].garbler)}

\* What the utility comes to on so much of it.
Outcomes == [t \in Tasks |-> [w \in 1 .. MaxThreads |-> [n \in Lengths(t) |->
  LET input == Cut(t, n)
  IN  IF w = 1
      THEN CkksRun(5, t.problem, [size |-> t.size, colon |-> TRUE, rounds |-> 1], input)
      ELSE PckksRun(t.problem, t.size, w, input)]]]

UtilityRun == Outcomes[task][threads][Len(garbler)]

-----------------------------------------------------------------------------
(* The script.                                                             *)

\* osprey's passes are 1, the speculative one, and 2, the programmed one: by default
\* both, or only one of them.
Passes(of) ==
  CASE of = "osprey" -> {<<1, 2>>, <<1>>, <<2>>} [] of = "baseline" -> {<<1>>} [] OTHER -> {<<>>}

Launch ==
  /\ pc = "idle" /\ run < MaxRuns /\ task # NoTask
  /\ run' = run + 1
  /\ tool' \in Tools \cup {"unknown"} /\ threads' \in 1 .. MaxThreads
  /\ passes' \in Passes(tool')
  /\ pc' = IF tool' \in Tools THEN "generate" ELSE "idle"
  /\ launched' = 0 /\ unlucky' = FALSE
  /\ written' = [part \in 1 .. 2 |-> NotOpen]
  /\ shown' = NoFile
  /\ UNCHANGED <<task, procs, monitor, garbler, output, hand>>

\* example_input writes all of its files, or is stopped at some number; or it does not
\* run or cannot open them, and what there was is left.
Generate ==
  /\ pc = "generate"
  /\ \/ garbler' = Inputs[task].garbler
     \/ \E n \in {0} \cup CutAt : n < Len(Inputs[task].garbler) /\ garbler' = Cut(task, n)
     \/ UNCHANGED garbler
  /\ pc' = "monitor"
  /\ UNCHANGED <<setup, launched, procs, unlucky, monitor, file, shown, hand>>

Target == IF tool = "mage" THEN "mage" ELSE "ckks_utils"

StartMonitor ==
  /\ pc = "monitor"
  /\ monitor' = [monitor EXCEPT ![run] = [state |-> "looking", target |-> Target,
                                          of |-> Nobody]]
  /\ pc' = IF tool = "mage" THEN "plan" ELSE "tool"
  /\ UNCHANGED <<setup, launched, procs, unlucky, garbler, file, shown, hand>>

Process(name, part) == [run |-> run, part |-> part, name |-> name, tool |-> tool]
Speculative(p) == p.tool = "osprey" /\ p.part = 1

\* The next pass; osprey's second one a second after the first.
StartPass ==
  /\ pc = "tool" /\ launched < Len(passes)
  /\ launched' = launched + 1
  /\ procs' = procs \cup {Process(Utility, passes[launched + 1])}
  /\ pc' = IF launched' = Len(passes) THEN "wait" ELSE "tool"
  /\ UNCHANGED <<setup, unlucky, monitor, garbler, file, shown, hand>>

\* cgexec cannot start anything, or osprey refuses its arguments, or fails before a pass.
GiveUp ==
  /\ pc = "tool"
  /\ pc' = "wait" /\ unlucky' = TRUE
  /\ UNCHANGED <<setup, launched, procs, monitor, garbler, file, shown, hand>>

Answers == UtilityRun.how = "answers"
Numbers == UtilityRun.items

\* A slip: the output is made before the arguments are looked at.
PassOpensFirst(p) ==
  /\ written[p.part] = NotOpen /\ UtilityRun.how # "undefined"
  /\ written' = [written EXCEPT ![p.part] = 0]
  /\ output' = [there |-> TRUE, items |-> <<>>, by |-> p]
  /\ UNCHANGED <<pc, procs, unlucky>>

\* A pass has its answer and opens the output, which makes it empty.
PassOpens(p) ==
  /\ Answers /\ written[p.part] = NotOpen
  /\ written' = [written EXCEPT ![p.part] = 0]
  /\ output' = [there |-> TRUE, items |-> <<>>, by |-> p]
  /\ UNCHANGED <<pc, procs, unlucky>>

\* The k-th number is put in its place, whatever became of the file since it was opened.
Put(items, k, cell) ==
  [j \in 1 .. (IF k > Len(items) THEN k ELSE Len(items)) |->
     IF j = k THEN cell ELSE IF j <= Len(items) THEN items[j] ELSE Hole]

\* The next number gets to the disk.  What numbers a speculative pass comes to is not
\* known.
PassWrites(p) ==
  /\ Answers /\ written[p.part] \in 0 .. Len(Numbers) - 1
  /\ written' = [written EXCEPT ![p.part] = @ + 1]
  /\ LET k == written[p.part] + 1
         value == IF Speculative(p) THEN 0 ELSE Numbers[k]
     IN  output' = [there |-> output.there, items |-> Put(output.items, k, Written(p, value)),
                    by |-> output.by]
  /\ UNCHANGED <<pc, procs, unlucky>>

\* A pass has written everything; or it refuses or crashes, or is killed on the way, or
\* cannot open the output or write any further, which goes unnoticed.
PassEnds(p) ==
  /\ unlucky' = (unlucky \/ (Answers /\ written[p.part] # Len(Numbers)))
  /\ procs' = procs \ {p}
  /\ UNCHANGED <<pc, file>>

\* A pass reads past the end of its input: nothing is known from here on.
PassIsLost(p) ==
  /\ UtilityRun.how = "undefined"
  /\ pc' = "lost"
  /\ procs' = procs \ {p}
  /\ UNCHANGED <<file, unlucky>>

Pass(p) ==
  /\ pc \in {"tool", "wait"} /\ tool # "mage"
  /\ p \in procs
  /\ PassOpens(p) \/ PassWrites(p) \/ PassEnds(p) \/ PassIsLost(p)
  /\ UNCHANGED <<setup, launched, monitor, garbler, shown, hand>>

\* The planner of a worker, and then its engine in the background: the planner's end
\* goes unnoticed in a pipe.
StartMage ==
  /\ pc = "plan"
  /\ launched' = launched + 1
  /\ procs' = procs \cup {Process("mage", launched)}
  /\ pc' = IF launched' = threads THEN "wait" ELSE "plan"
  /\ UNCHANGED <<setup, unlucky, monitor, garbler, file, shown, hand>>

\* An engine (external) ends, with or without an output of worker 0.
EndMage(p) ==
  /\ pc \in {"plan", "wait"} /\ tool = "mage"
  /\ p \in procs
  /\ procs' = procs \ {p}
  /\ UNCHANGED written
  /\ \/ UNCHANGED output
     \/ p.part = 0 /\ output' = [there |-> TRUE, items |-> <<>>, by |-> p]
  /\ UNCHANGED <<setup, pc, launched, unlucky, monitor, garbler, shown, hand>>

\* A slip: the engines are left in the background too.
ShowAtOnce ==
  /\ pc = "wait"
  /\ shown' = output
  /\ pc' = "idle"
  /\ UNCHANGED <<setup, launched, procs, unlucky, monitor, garbler, file, hand>>

\* A slip: everything in the background is waited for.
ShowAfterMonitor ==
  /\ pc = "wait" /\ procs = {} /\ monitor[run].state = "gone"
  /\ shown' = output
  /\ pc' = "idle"
  /\ UNCHANGED <<setup, launched, procs, unlucky, monitor, garbler, file, hand>>

\* The pipe to tee is open until the last pass is gone; the engines are waited for.
Show ==
  /\ pc = "wait" /\ procs = {}
  /\ shown' = output
  /\ pc' = "idle"
  /\ UNCHANGED <<setup, launched, procs, unlucky, monitor, garbler, file, hand>>

-----------------------------------------------------------------------------
(* The monitors.                                                           *)

\* grep: the target is a part of the process's name.
Matches(target, name) == name = target \/ (target = "ckks_utils" /\ name = "pckks_utils")

\* The last in the order of the digits, which says nothing of the order of starting.
Look(r) ==
  /\ monitor[r].state = "looking"
  /\ \E p \in procs : /\ Matches(monitor[r].target, p.name)
                      /\ monitor' = [monitor EXCEPT ![r].state = "watching", ![r].of = p]
  /\ UNCHANGED <<setup, pc, launched, procs, unlucky, garbler, file, shown, hand>>

\* A slip: the next process is looked for.
LetGoAndLook(r) ==
  /\ monitor[r].state = "watching"
  /\ monitor[r].of \notin procs
  /\ monitor' = [monitor EXCEPT ![r].state = "looking"]
  /\ UNCHANGED <<setup, pc, launched, procs, unlucky, garbler, file, shown, hand>>

LetGo(r) ==
  /\ monitor[r].state = "watching"
  /\ monitor[r].of \notin procs
  /\ monitor' = [monitor EXCEPT ![r].state = "gone"]
  /\ UNCHANGED <<setup, pc, launched, procs, unlucky, garbler, file, shown, hand>>

-----------------------------------------------------------------------------
(* By hand.                                                                *)

\* ckks_utils on an input and with an output of its own.
CkksByHand ==
  /\ task = NoTask /\ hand = NoHand
  /\ \E c \in CkksCommands :
       hand' = [kind |-> "ckks", command |-> c,
                result |-> CkksRun(c.argc, c.problem, c.arg, c.input)]
  /\ UNCHANGED <<setup, pc, launched, procs, unlucky, monitor, garbler, file, shown>>

PlannerByHand ==
  /\ task = NoTask /\ hand = NoHand
  /\ \E c \in PlannerCommands :
       hand' = [kind |-> "planner", command |-> c,
                result |-> Ended(Planner(c.argc, c.program, c.protocol, c.config, c.party, c.index,
                                         c.size))]
  /\ UNCHANGED <<setup, pc, launched, procs, unlucky, monitor, garbler, file, shown>>

Script == Launch \/ Generate \/ StartMonitor \/ StartPass \/ GiveUp \/ StartMage \/ Show
Passing == \E p \in procs : Pass(p) \/ EndMage(p)

Next == Script \/ Passing \/ (\E r \in Runs : Look(r) \/ LetGo(r)) \/ CkksByHand \/ PlannerByHand

\* The system schedules them all; every pass and engine goes on and ends some time.
Fairness ==
  /\ WF_vars(Generate \/ StartMonitor \/ StartPass \/ GiveUp \/ StartMage \/ Show)
  /\ WF_vars(Passing)
  /\ \A r \in Runs : WF_vars(Look(r)) /\ WF_vars(LetGo(r))

Spec == Init /\ [][Next]_vars /\ Fairness

-----------------------------------------------------------------------------
(* Properties.                                                             *)

FileOK(f) == f.there \in BOOLEAN /\ f.by.run \in 0 .. MaxRuns /\ (f.there <=> f.by # Nobody)

\* The variables are what the script, the processes and the disk can hold.
TypeOK ==
  /\ task \in Tasks \cup {NoTask} /\ run \in 0 .. MaxRuns
  /\ tool \in Tools \cup {"unknown"} /\ threads \in 1 .. MaxThreads
  /\ pc \in {"idle", "generate", "monitor", "tool", "plan", "wait", "lost"}
  /\ passes \in Passes(tool)
  /\ launched \in 0 .. MaxThreads + 1 /\ unlucky \in BOOLEAN
  /\ written \in [1 .. 2 -> Nat \cup {NotOpen}]
  /\ \A p \in procs : p.run = run /\ p.name \in {"ckks_utils", "pckks_utils", "mage"}
  /\ \A r \in Runs : monitor[r].state \in {"off", "looking", "watching", "gone"}
  /\ FileOK(output) /\ FileOK(shown)

\* Row i of the first p * p of some numbers, and their column i.
RowAt(v, p, i) == [k \in 1 .. p |-> v[i * p + k]]
ColumnAt(v, p, i) == [k \in 1 .. p |-> v[(k - 1) * p + i + 1]]
Inner(u, v) == Sigma([k \in DOMAIN u |-> u[k] * v[k]])
First(v, n) == SubSeq(v, 1, n)
Rest(v, n) == SubSeq(v, n + 1, Len(v))

\* The product, of two matrices one after the other: B stored by columns, or by rows.
ProductByColumns(v, p) ==
  [k \in 1 .. p * p |-> Inner(RowAt(First(v, p * p), p, (k - 1) \div p),
                              RowAt(Rest(v, p * p), p, (k - 1) % p))]
ProductByRows(v, p) ==
  [k \in 1 .. p * p |-> Inner(RowAt(First(v, p * p), p, (k - 1) \div p),
                              ColumnAt(Rest(v, p * p), p, (k - 1) % p))]

\* What ckks_utils makes of any input and any argument, told apart from how it goes
\* about it: so many times the sum and the sum of the squares, or the product; only
\* the sum has the first number in it once more (:182).  It reads past the end of
\* exactly the inputs that are too short, which for the sums means one number at least
\* and otherwise only what is added.  Statistics that add nothing take a number away
\* from itself, which SEAL refuses.  A size alone is its own number of rounds (:349).
HandAnswer ==
  hand.kind = "ckks" =>
    LET c == hand.command
        p == c.arg.size
        rounds == IF c.arg.colon THEN c.arg.rounds ELSE p
        v == c.input
        added == IF rounds = 0 THEN 0 ELSE p
        served == c.argc = 5 /\ p # NoNumber /\ rounds # NoNumber /\ c.problem \in CkksProblems
        short == Len(v) < (CASE c.problem \in {"real_sum", "real_statistics"} ->
                                  IF added = 0 THEN 1 ELSE added
                             [] c.problem = "real_matrix_vector_multiply" -> p * (p + 1)
                             [] OTHER -> 2 * (p * p))
        nothing == c.problem = "real_statistics" /\ added = 0
        counted == First(v, added)
        sum == rounds * Sigma(counted)
        squares == rounds * Inner(counted, counted)
        got == hand.result.items
    IN  /\ hand.result.how = "undefined" <=> served /\ short
        /\ hand.result.how = "answers" <=> served /\ ~ short /\ ~ nothing
        /\ hand.result.how = "answers" =>
             CASE c.problem = "real_sum" -> got = << v[1] + sum >>
               [] c.problem = "real_statistics" -> got = <<sum, squares>>
               [] c.problem = "real_matrix_vector_multiply" ->
                    got = [i \in 1 .. p |-> Inner(RowAt(Rest(v, p), p, i - 1), First(v, p))]
               [] OTHER -> got = ProductByColumns(v, p)

\* The right numbers for a pass of that name.
Right(name) ==
  IF Workload = "real_naive_matrix_multiply" /\ name = "pckks_utils"
  THEN ProductByRows(Inputs[task].garbler, Size) ELSE Inputs[task].expected

\* Every number the experiment shows is the one that example_input expects in its
\* place, whichever run and pass wrote it and whatever became of that pass, of the
\* file and of the generator since; but for what a speculative pass wrote, for the
\* holes two passes can leave in one file, and for what mage wrote.  example_input,
\* ckks_utils and pckks_utils agree about every workload, size, layout and number of
\* threads, the numbers drawn are the same again each time, and an input that was cut
\* off is never answered.  The exception is the naive product of several threads,
\* which takes B to be stored by rows (pckks_utils.cpp:463).
ShownIsExpected ==
  pc = "idle" =>
    \A k \in DOMAIN shown.items :
      LET cell == shown.items[k]
      IN  cell.by # Nobody /\ ~ Speculative(cell.by) =>
            k \in DOMAIN Right(cell.by.name) /\ cell.value = Right(cell.by.name)[k]

\* The command the script makes of the workload, size and threads can be served: the
\* input is all there, and the threads can share it.
Fit ==
  IF threads = 1
  THEN /\ Workload \in CkksProblems /\ Len(garbler) = Pckks!InputItems(Workload, Size)
       /\ Size > 0 \/ Workload \notin {"real_sum", "real_statistics"}
  ELSE Workload \in Pckks!Problems /\ Pckks!Fits(Workload, threads, Size, Len(garbler))

\* A run opens its output only if the command can be served; and if it can be, and all
\* passes were started and wrote all they had to, what is shown is as long as it should
\* be and in every place has a number of this run, even if its two passes emptied and
\* wrote the file in turns.  Otherwise the output of an earlier run may be shown as
\* this one's: the script looks at no exit code, and nothing else tells.
FitIsShown ==
  /\ pc = "lost" => ~ Fit
  /\ pc = "idle" /\ tool \in {"baseline", "osprey"} /\ run > 0 =>
       /\ shown.by.run = run => Fit
       /\ Fit /\ ~ unlucky =>
            /\ shown.by.run = run /\ DOMAIN shown.items = DOMAIN Inputs[task].expected
            /\ \A k \in DOMAIN shown.items : shown.items[k].by.run = run

\* A monitor writes down the memory of a process of its own run or of a later one,
\* never of one that was there before: no process outlives its run (:158, :200-202).
MonitorNeverBehind ==
  \A r \in Runs : monitor[r].state \in {"watching", "gone"} => monitor[r].of.run >= r

\* A run of the script ends, or has undone the model: nothing it waits for stays.
ScriptEnds == pc # "idle" ~> pc \in {"idle", "lost"}

\* A monitor that has found a process lets go of it.
MonitorLetsGo ==
  \A r \in Runs : monitor[r].state = "watching" ~> monitor[r].state = "gone" \/ pc = "lost"

-----------------------------------------------------------------------------
(* What the source says and the code does not do.                          *)

\* "program_name protocol/plugin config.yaml party_id worker_index input_size"
\* (planner.cpp:42): what names a registered plugin can be planned for.
PluginsArePlanned ==
  hand.kind = "planner" /\ hand.command.protocol \in MagePlugins =>
    hand.result.how \in {"planned", "refused"}
================================================================================
