----------------------------- MODULE PckksMain -----------------------------
(***************************************************************************)
(* The main() of tools/pckks_utils.cpp: one thread that parses, divides,   *)
(* encrypts, starts one detached thread per part, polls three arrays of    *)
(* atomic flags and aggregates what the threads left in its own locals.    *)
(*                                                                         *)
(* A worker runs encrypt (already done for it), calculate and decrypt, and *)
(* raises its flag after each.  Loads and stores of the flags are          *)
(* sequentially consistent, so each of them is one step.                   *)
(***************************************************************************)
EXTENDS PckksProblems

CONSTANTS MaxThreads,  \* the largest thread_num of any command
          Commands     \* the command lines, with the input each one finds

Workers == 0 .. MaxThreads - 1

Malformed == -1  \* an argument std::stoull cannot convert

\* argc counts the program's name; items is how many numbers read_from_file
\* finds (none when the file cannot be opened); writable says whether the output
\* file can be opened.
Command == [argc : Nat, problem : STRING, size : Nat \cup {Malformed},
            threads : (0 .. MaxThreads) \cup {Malformed}, items : Nat, writable : BOOLEAN]

ASSUME CommandsAssumption == MaxThreads \in Nat /\ Commands \subseteq Command

\* The rows and columns of a matrix are few enough to be counted in std::size_t.
ASSUME WidthAssumption ==
  2 ^ SizeBits \in Nat /\ \A c \in Commands : c.size * c.size < 2 ^ SizeBits

Encrypt == 0
Calculation == 1
Decrypt == 2
Phases == Encrypt .. Decrypt

Unset == <<>>  \* a vector nothing has been pushed to

VARIABLES
  command,         \* the command line and the files it names
  pc,              \* where main is
  split,           \* what divide() left: share_input_data, divide_input_data
  spawned,         \* how many threads main has started
  progress,        \* progress[ph]: the workers whose flag of phase ph is up
  calculateStart,  \* calculate_start
  phase, scan,     \* main's loop counters i and j
  worker,          \* where each thread is
  encOutput,       \* each thread's local encrypt_output_data
  partial,         \* partial_output_data
  output,          \* what the output file holds
  exitCode

vars == <<command, pc, split, spawned, progress, calculateStart, phase, scan,
          worker, encOutput, partial, output, exitCode>>

ThreadPcs == {"unborn", "encrypted", "spinning", "calculate", "calculated",
              "decrypt", "decrypted", "gone"}
MainPcs == {"start", "divide", "encrypt", "spawn", "poll", "release", "aggregate",
            "returned", "crashed", "terminated", "undefined"}

\* "crashed": a signal or an exception of the program's own making; "terminated":
\* an exception because memory or threads ran out; "undefined": the program read
\* beyond a vector, after which anything may happen.
Over == {"returned", "crashed", "terminated", "undefined"}
Running == pc \notin Over

NotWritten == [written |-> FALSE, items |-> <<>>]
Written(items) == [written |-> TRUE, items |-> items]
NoExit == -1

threadNum == command.threads

\* The commands main does not turn away, and for each of them what divide() leaves
\* and what worker i's part of it comes to.
Accepted == {c \in Commands : /\ c.argc = 6 /\ c.problem \in Problems
                             /\ Malformed \notin {c.size, c.threads}}
Division == [c \in Accepted |-> Divide(c.problem, c.threads, c.size, c.items)]
Work == [c \in Accepted |-> [i \in 0 .. Len(Division[c].parts) - 1 |->
           LET part == Division[c].parts[i + 1]
           IN  Calculate(c.problem, part.size,
                         Format(c.problem, part.size, Division[c].share, part.chunk))]]

NoSplit == [ends |-> "returns", complaint |-> "none", share |-> <<>>, parts |-> <<>>]

Init ==
  /\ command \in Commands
  /\ pc = "start"
  /\ split = NoSplit
  /\ spawned = 0
  /\ progress = [ph \in Phases |-> {}]
  /\ calculateStart = FALSE
  /\ phase = Encrypt /\ scan = 0
  /\ worker = [i \in Workers |-> "unborn"]
  /\ encOutput = [i \in Workers |-> Unset]
  /\ partial = [i \in Workers |-> Unset]
  /\ output = NotWritten
  /\ exitCode = NoExit

-----------------------------------------------------------------------------
(* The main thread.                                                        *)

threads == <<worker, encOutput, partial>>
flags == <<progress, calculateStart>>
counters == <<phase, scan>>
ending == <<output, exitCode>>

\* The arguments are counted, then converted, then the problem is looked up.
Parse ==
  /\ pc = "start"
  /\ IF command.argc # 6
     THEN pc' = "returned" /\ exitCode' = 1
     ELSE IF Malformed \in {command.size, command.threads}
     THEN pc' = "crashed" /\ UNCHANGED exitCode
     ELSE IF command.problem \notin Problems
     THEN pc' = "returned" /\ exitCode' = 1
     ELSE pc' = "divide" /\ UNCHANGED exitCode
  /\ UNCHANGED <<command, split, spawned, flags, counters, threads, output>>

DivideInput ==
  /\ pc = "divide"
  /\ split' = Division[command]
  /\ pc' = IF split'.ends = "returns" THEN "encrypt" ELSE "crashed"
  /\ UNCHANGED <<command, spawned, flags, counters, threads, ending>>

\* Every thread's chunk is encrypted, whether divide() made one for it or not, and
\* all the ciphertexts are kept: memory may run out.
EncryptInput ==
  /\ pc = "encrypt"
  /\ \/ pc' = IF threadNum <= Len(split.parts) THEN "spawn" ELSE "undefined"
     \/ pc' = "terminated"
  /\ UNCHANGED <<command, split, spawned, flags, counters, threads, ending>>

SpawnThread ==
  /\ pc = "spawn"
  /\ spawned < threadNum
  /\ spawned' = spawned + 1
  /\ worker' = [worker EXCEPT ![spawned] = "encrypted"]
  /\ UNCHANGED <<command, pc, split, flags, counters, encOutput, partial, ending>>

\* std::thread throws, and nothing catches it.
SpawnFails ==
  /\ pc = "spawn"
  /\ spawned < threadNum
  /\ pc' = "terminated"
  /\ UNCHANGED <<command, split, spawned, flags, counters, threads, ending>>

AllSpawned ==
  /\ pc = "spawn"
  /\ spawned = threadNum
  /\ pc' = "poll"
  /\ UNCHANGED <<command, split, spawned, flags, counters, threads, ending>>

\* A slip: the last worker's flag is not looked at.
ScanStopsEarly == scan + 1 >= threadNum

ScanComplete == scan = threadNum

\* A slip: the flags of the phase before are looked at.
FlagOfPhaseBefore == scan \in progress[IF phase > Calculation THEN phase - 1 ELSE phase]

FlagUp == scan \in progress[phase]

PollFlag ==
  /\ pc = "poll"
  /\ ~ ScanComplete
  /\ scan' = IF FlagUp THEN scan + 1 ELSE 0
  /\ UNCHANGED <<command, pc, split, spawned, flags, phase, threads, ending>>

\* A phase is over.  The first one is followed by clear_stats() and by letting
\* the workers go, the last one by the end of the loop.
PhaseOver ==
  /\ pc = "poll"
  /\ ScanComplete
  /\ \/ phase = Encrypt /\ pc' = "release" /\ UNCHANGED counters
     \/ phase = Calculation /\ phase' = Decrypt /\ scan' = 0 /\ UNCHANGED pc
     \/ phase = Decrypt /\ pc' = "aggregate" /\ UNCHANGED counters
  /\ UNCHANGED <<command, split, spawned, flags, threads, ending>>

\* A slip: the last store is forgotten.
ReleaseNobody ==
  /\ pc = "release"
  /\ phase' = Calculation /\ scan' = 0
  /\ pc' = "poll"
  /\ UNCHANGED <<command, split, spawned, flags, threads, ending>>

Release ==
  /\ pc = "release"
  /\ calculateStart' = TRUE
  /\ phase' = Calculation /\ scan' = 0
  /\ pc' = "poll"
  /\ UNCHANGED <<command, split, spawned, progress, threads, ending>>

\* The vector aggregate() is given: one entry for every part divide() made.
Partials == [k \in 1 .. Len(split.parts) |-> partial[k - 1]]

AggregateAndWrite ==
  /\ pc = "aggregate"
  /\ IF ReadsMissingItem(command.problem, Partials)
     THEN pc' = "undefined" /\ UNCHANGED ending
     ELSE /\ output' = IF command.writable THEN Written(Aggregate(command.problem, Partials))
                       ELSE NotWritten
          /\ exitCode' = 0
          /\ pc' = "returned"
  /\ UNCHANGED <<command, split, spawned, flags, counters, threads>>

Main ==
  \/ Parse
  \/ DivideInput
  \/ EncryptInput
  \/ SpawnThread
  \/ SpawnFails
  \/ AllSpawned
  \/ PollFlag
  \/ PhaseOver
  \/ Release
  \/ AggregateAndWrite

-----------------------------------------------------------------------------
(* A worker thread.  It references main's locals: the split, its chunk, its *)
(* entry of partial_output_data and the flags.                             *)

\* What worker i's chunk comes to.
Result(i) == Work[command][i]

\* What decrypt_file leaves in a vector that was empty.
Decrypted(i) == Unset \o Result(i)

ReportEncrypted(i) ==
  /\ worker[i] = "encrypted"
  /\ progress' = [progress EXCEPT ![Encrypt] = @ \cup {i}]
  /\ worker' = [worker EXCEPT ![i] = "spinning"]
  /\ UNCHANGED <<calculateStart, encOutput, partial>>

\* A slip: the worker does not wait for calculate_start.
StartAtOnce(i) ==
  /\ worker[i] = "spinning"
  /\ worker' = [worker EXCEPT ![i] = "calculate"]
  /\ UNCHANGED <<flags, encOutput, partial>>

StartCalculating(i) ==
  /\ worker[i] = "spinning"
  /\ calculateStart
  /\ worker' = [worker EXCEPT ![i] = "calculate"]
  /\ UNCHANGED <<flags, encOutput, partial>>

\* Both calls read only what main no longer changes.
FormatAndCalculate(i) ==
  /\ worker[i] = "calculate"
  /\ encOutput' = [encOutput EXCEPT ![i] = Result(i)]
  /\ worker' = [worker EXCEPT ![i] = "calculated"]
  /\ UNCHANGED <<flags, partial>>

ReportCalculated(i) ==
  /\ worker[i] = "calculated"
  /\ progress' = [progress EXCEPT ![Calculation] = @ \cup {i}]
  /\ worker' = [worker EXCEPT ![i] = "decrypt"]
  /\ UNCHANGED <<calculateStart, encOutput, partial>>

\* A slip: every thread appends to the first entry.
DecryptIntoFirst(i) ==
  /\ worker[i] = "decrypt"
  /\ partial' = [partial EXCEPT ![0] = @ \o encOutput[i]]
  /\ worker' = [worker EXCEPT ![i] = "decrypted"]
  /\ UNCHANGED <<flags, encOutput>>

\* decrypt_file appends; nobody else touches this entry before the last flag.
DecryptOutput(i) ==
  /\ worker[i] = "decrypt"
  /\ partial' = [partial EXCEPT ![i] = @ \o encOutput[i]]
  /\ worker' = [worker EXCEPT ![i] = "decrypted"]
  /\ UNCHANGED <<flags, encOutput>>

\* After this store the thread only destroys its own locals.
ReportDecrypted(i) ==
  /\ worker[i] = "decrypted"
  /\ progress' = [progress EXCEPT ![Decrypt] = @ \cup {i}]
  /\ worker' = [worker EXCEPT ![i] = "gone"]
  /\ UNCHANGED <<calculateStart, encOutput, partial>>

\* SEAL runs out of memory; an exception that leaves a thread ends the program.
RunsOutOfMemory(i) ==
  /\ worker[i] \in {"calculate", "decrypt"}
  /\ pc' = "terminated"
  /\ UNCHANGED <<flags, threads>>

WorkerStep(i) ==
  /\ Running
  /\ \/ /\ \/ ReportEncrypted(i)
           \/ StartCalculating(i)
           \/ FormatAndCalculate(i)
           \/ ReportCalculated(i)
           \/ DecryptOutput(i)
           \/ ReportDecrypted(i)
        /\ UNCHANGED pc
     \/ RunsOutOfMemory(i)
  /\ UNCHANGED <<command, split, spawned, counters, ending>>

Next == Main \/ \E i \in Workers : WorkerStep(i)

\* Every thread the system runs is scheduled again and again; the polling and
\* spinning loops sleep, so none of them starves another.
Fairness == WF_vars(Main) /\ \A i \in Workers : WF_vars(WorkerStep(i))

Spec == Init /\ [][Next]_vars
FairSpec == Spec /\ Fairness

-----------------------------------------------------------------------------
(* Properties.                                                             *)

\* Every variable has its type.  A thread's output and its entry of
\* partial_output_data are empty or exactly what its chunk comes to.
TypeOK ==
  /\ command \in Commands
  /\ pc \in MainPcs
  /\ split # NoSplit => command \in Accepted /\ split = Division[command]
  /\ spawned \in 0 .. MaxThreads
  /\ progress \in [Phases -> SUBSET Workers]
  /\ calculateStart \in BOOLEAN
  /\ phase \in Phases
  /\ scan \in 0 .. MaxThreads
  /\ worker \in [Workers -> ThreadPcs]
  /\ DOMAIN encOutput = Workers
  /\ \A i \in Workers : encOutput[i] # Unset => encOutput[i] = Result(i)
  /\ DOMAIN partial = Workers
  /\ \A i \in Workers : partial[i] # Unset => partial[i] = Decrypted(i)
  /\ exitCode \in {NoExit, 0, 1}

Team == {i \in Workers : i < threadNum}

\* aggregate() reads partial_output_data, and main's return takes it, the flags
\* and the chunks away: by then every worker has left its whole result and has
\* made its last use of any of them (main lines 844-889).
AggregateSeesEveryPart ==
  pc = "aggregate" \/ (pc = "returned" /\ exitCode = 0) =>
    \A i \in Team : worker[i] = "gone" /\ partial[i] = Decrypted(i)

\* When clear_stats() zeroes the watcher's counters every worker is parked in
\* its spin loop: no part of a calculation is lost from, or counted before, the
\* figures of the Calculate phase (lines 819-821, 877-880).
StatsClearedAtRest ==
  pc = "release" => \A i \in Team : worker[i] = "spinning"

\* The program fails by its own doing on exactly the commands whose input does
\* not fit the problem or whose threads do not share it evenly enough, and any
\* other command is only ended by a lack of memory or threads.  (No threads at
\* all and an input of the wrong size is answered, with an empty result.)
OnlyMisfitsFail ==
  LET Fit == Fits(command.problem, threadNum, command.size, command.items)
      Nobody == threadNum = 0 /\ command.items # InputItems(command.problem, command.size)
  IN  /\ pc = "undefined" => ~ Fit
      /\ pc = "crashed" => Malformed \in {command.size, command.threads} \/ ~ Fit
      /\ pc = "returned" /\ exitCode = 0 => Fit \/ Nobody

\* A successful run with at least one thread writes what the workload promises,
\* however the input was divided (Sum ... TiledMatrixMultiply, lines 47-605).
OutputIsTheAnswer ==
  output.written /\ threadNum > 0 =>
    Polynomials(output.items) = Reference(command.problem, command.size)

\* main ends: no wait for a flag lasts for ever (lines 819-821, 852-881).
Terminates == <>(~ Running)

\* Looking at one flag after another amounts to a barrier that sees a phase of
\* the whole team end at once: flags never fall, so a scan that reached the last
\* one has seen them all up (lines 852-881).
PhasesDone == [i \in Workers |-> IF i \in progress[Decrypt] THEN 3
                                 ELSE IF i \in progress[Calculation] THEN 2
                                 ELSE IF i \in progress[Encrypt] THEN 1 ELSE 0]

PhasesSeen == IF pc = "release" THEN 1
              ELSE IF phase = Decrypt /\ pc \in {"aggregate", "returned", "undefined"} THEN 3
              ELSE phase

Barrier == INSTANCE PhaseBarrier WITH team <- Team, done <- PhasesDone, seen <- PhasesSeen

ImplementsBarrier == Barrier!Spec

-----------------------------------------------------------------------------
(* What the source says and the code does not do.                          *)

\* "Input data size does not match problem size." (line 308) is said of inputs
\* whose size does not match the problem size.
SizeComplaintIsTrue ==
  split.complaint = "size" => command.items # InputItems(command.problem, command.size)

\* "Layout of B is column-major" (example_input.cpp:553): the product is that of
\* A by rows and B by columns, for both matrix workloads.
MatrixBIsColumnMajor ==
  /\ output.written
  /\ threadNum > 0
  /\ command.problem \in {"real_naive_matrix_multiply", "real_tiled_matrix_multiply"}
  => Polynomials(output.items) = MatrixProduct(command.size, ColumnByColumn)
=============================================================================
