-------------------------- MODULE PckksMainProofs --------------------------
(***************************************************************************)
(* Proofs about PckksMain for every set of commands, every number of       *)
(* threads and every interleaving.                                         *)
(***************************************************************************)
EXTENDS PckksMain, PckksProblemsProofs

-----------------------------------------------------------------------------
(* The inductive invariant.                                                *)

Calculating == {"calculate", "calculated", "decrypt", "decrypted", "gone"}

(* A flag is up exactly when its worker is past the store that raises it,   *)
(* and the workers that exist are the first ones main has spawned.          *)
Tally ==
  \A i \in Workers :
    /\ i \in progress[Encrypt] <=> worker[i] \notin {"unborn", "encrypted"}
    /\ i \in progress[Calculation] <=> worker[i] \in {"decrypt", "decrypted", "gone"}
    /\ i \in progress[Decrypt] <=> worker[i] = "gone"
    /\ worker[i] = "unborn" <=> i >= spawned
    /\ worker[i] \in Calculating => calculateStart

(* Where main is says which command it runs, how many threads there are and *)
(* which phase it waits for.                                                *)
Course ==
  /\ pc \in {"divide", "encrypt", "spawn", "poll", "release", "aggregate"} => command \in Accepted
  /\ pc \in {"start", "divide", "encrypt"} => spawned = 0
  /\ spawned > 0 => spawned <= threadNum
  /\ pc \in {"poll", "release", "aggregate"} => spawned = threadNum
  /\ pc \in {"start", "divide", "encrypt", "spawn"} => scan = 0
  /\ pc \in {"start", "divide", "encrypt", "spawn", "release"} => phase = Encrypt
  /\ pc = "aggregate" => phase = Decrypt
  /\ exitCode = 0 => pc = "returned" /\ phase = Decrypt
  /\ calculateStart <=> phase # Encrypt

(* What main has seen: flags never fall, so what a scan found up is up.     *)
Seen ==
  /\ pc = "poll" => scan <= threadNum /\ \A j \in Workers : j < scan => j \in progress[phase]
  /\ pc = "release" \/ phase # Encrypt => Team \subseteq progress[Encrypt]
  /\ phase = Decrypt => Team \subseteq progress[Calculation]
  /\ phase = Decrypt /\ pc \in {"aggregate", "returned", "undefined"} =>
       Team \subseteq progress[Decrypt]

(* A result is in place from the step that computes it.                     *)
Data ==
  \A i \in Workers :
    /\ worker[i] \in {"calculated", "decrypt", "decrypted", "gone"} => encOutput[i] = Result(i)
    /\ partial[i] = IF worker[i] \in {"decrypted", "gone"} THEN Decrypted(i) ELSE Unset

IInv == TypeOK /\ Tally /\ Course /\ Seen /\ Data

-----------------------------------------------------------------------------
(* Facts about the constants and the parts of the state no step changes.   *)

(* A thread count is a number of workers or malformed, and a command main   *)
(* accepted has one that is well formed.                                    *)
LEMMA ThreadCounts ==
  ASSUME command \in Commands
  PROVE  /\ MaxThreads \in Nat
         /\ threadNum \in Int
         /\ threadNum <= MaxThreads
         /\ command \in Accepted => threadNum >= 0
BY CommandsAssumption DEF Command, Accepted, Malformed, threadNum

(* The command is what it was, and so is what its parts come to.            *)
LEMMA CommandStays ==
  ASSUME [Next]_vars
  PROVE  /\ command' = command
         /\ threadNum' = threadNum
         /\ Team' = Team
         /\ \A i \in Workers : Result(i)' = Result(i) /\ Decrypted(i)' = Decrypted(i)
<1>1. command' = command
  BY DEF Next, vars, Main, Parse, DivideInput, EncryptInput, SpawnThread, SpawnFails,
         AllSpawned, PollFlag, PhaseOver, Release, AggregateAndWrite, WorkerStep
<1> QED
  BY <1>1 DEF threadNum, Team, Result, Decrypted

(* Flags stay as they are in every step main takes, and so do the workers,  *)
(* but for the one a spawn creates.                                         *)
LEMMA MainLeavesWorkers ==
  ASSUME Main
  PROVE  /\ UNCHANGED <<progress, encOutput, partial>>
         /\ UNCHANGED worker \/ SpawnThread
BY DEF Main, Parse, DivideInput, EncryptInput, SpawnThread, SpawnFails, AllSpawned,
       PollFlag, PhaseOver, Release, AggregateAndWrite, threads, flags

-----------------------------------------------------------------------------
(* The invariant holds initially.                                          *)

LEMMA Initially == Init => IInv
<1> SUFFICES ASSUME Init PROVE IInv
  OBVIOUS
<1>1. TypeOK
  <2>1. MaxThreads \in Nat
    BY CommandsAssumption
  <2>2. /\ worker \in [Workers -> ThreadPcs] /\ progress \in [Phases -> SUBSET Workers]
        /\ pc \in MainPcs
    BY DEF Init, ThreadPcs, MainPcs
  <2>3. phase \in Phases /\ spawned \in 0 .. MaxThreads /\ scan \in 0 .. MaxThreads
    BY <2>1 DEF Init, Phases, Encrypt, Decrypt
  <2>4. /\ DOMAIN encOutput = Workers /\ \A i \in Workers : encOutput[i] = Unset
        /\ DOMAIN partial = Workers /\ \A i \in Workers : partial[i] = Unset
    BY DEF Init
  <2>5. /\ command \in Commands /\ split = NoSplit /\ exitCode \in {NoExit, 0, 1}
        /\ calculateStart \in BOOLEAN
    BY DEF Init
  <2> QED
    BY <2>2, <2>3, <2>4, <2>5 DEF TypeOK
<1>2. Tally
  BY ThreadCounts DEF Init, Tally, Workers, Phases, Encrypt, Calculation, Decrypt, Calculating
<1>3. Course
  BY DEF Init, Course, NoExit, Encrypt
<1>4. Seen
  BY DEF Init, Seen, Encrypt, Decrypt
<1>5. Data
  BY DEF Init, Data
<1> QED
  BY <1>1, <1>2, <1>3, <1>4, <1>5 DEF IInv

-----------------------------------------------------------------------------
(* Main's steps keep it.                                                   *)

LEMMA MainKeepsTypes ==
  ASSUME IInv, Main
  PROVE  TypeOK'
<1>1. Next
  BY DEF Next
<1>2. /\ command' = command /\ command \in Commands
      /\ \A i \in Workers : Result(i)' = Result(i) /\ Decrypted(i)' = Decrypted(i)
  BY <1>1, CommandStays DEF IInv, TypeOK
<1>3. /\ progress' = progress /\ encOutput' = encOutput /\ partial' = partial
  BY MainLeavesWorkers
<1>4. /\ DOMAIN encOutput' = Workers
      /\ \A i \in Workers : encOutput'[i] # Unset => encOutput'[i] = Result(i)'
      /\ DOMAIN partial' = Workers
      /\ \A i \in Workers : partial'[i] # Unset => partial'[i] = Decrypted(i)'
  BY <1>2, <1>3 DEF IInv, TypeOK, Unset
<1>5. command' \in Commands /\ progress' \in [Phases -> SUBSET Workers]
  BY <1>2, <1>3 DEF IInv, TypeOK
<1>6. /\ pc' \in MainPcs
      /\ exitCode' \in {NoExit, 0, 1}
      /\ calculateStart' \in BOOLEAN
  BY DEF IInv, TypeOK, MainPcs, Main, Parse, DivideInput, EncryptInput, SpawnThread, SpawnFails,
     AllSpawned, PollFlag, PhaseOver, Release, AggregateAndWrite, ending, flags, counters
<1>7. split' # NoSplit => command' \in Accepted /\ split' = Division[command']
  BY <1>2 DEF IInv, TypeOK, Course, Main, Parse, DivideInput, EncryptInput, SpawnThread,
     SpawnFails, AllSpawned, PollFlag, PhaseOver, Release, AggregateAndWrite
<1>8. spawned' \in 0 .. MaxThreads /\ worker' \in [Workers -> ThreadPcs]
  <2>1. CASE SpawnThread
    BY <1>2, <2>1, ThreadCounts DEF IInv, TypeOK, SpawnThread, ThreadPcs, Workers
  <2>2. CASE ~ SpawnThread
    BY <2>2, MainLeavesWorkers DEF IInv, TypeOK, Main, Parse, DivideInput, EncryptInput,
       SpawnFails, AllSpawned, PollFlag, PhaseOver, Release, AggregateAndWrite
  <2> QED
    BY <2>1, <2>2
<1>9. phase' \in Phases /\ scan' \in 0 .. MaxThreads
  <2>1. CASE PollFlag
    <3>1. scan \in 0 .. MaxThreads /\ scan # threadNum /\ scan <= threadNum
      BY <2>1 DEF IInv, TypeOK, Seen, PollFlag, ScanComplete
    <3> QED
      BY <1>2, <2>1, <3>1, ThreadCounts DEF IInv, TypeOK, PollFlag
  <2>2. CASE ~ PollFlag
    BY <1>2, <2>2, ThreadCounts DEF IInv, TypeOK, Main, Parse, DivideInput, EncryptInput,
       SpawnThread, SpawnFails, AllSpawned, PhaseOver, Release, AggregateAndWrite,
       counters, Phases, Encrypt, Calculation, Decrypt
  <2> QED
    BY <2>1, <2>2
<1> QED
  BY <1>4, <1>5, <1>6, <1>7, <1>8, <1>9 DEF TypeOK

LEMMA MainKeepsTally ==
  ASSUME IInv, Main
  PROVE  Tally'
<1>1. progress' = progress
  BY MainLeavesWorkers
<1>2. calculateStart => calculateStart'
  BY DEF Main, Parse, DivideInput, EncryptInput, SpawnThread, SpawnFails, AllSpawned,
         PollFlag, PhaseOver, Release, AggregateAndWrite, flags
<1>3. CASE SpawnThread
  <2>1. command \in Commands /\ spawned \in 0 .. MaxThreads /\ spawned < threadNum
    BY <1>3 DEF IInv, TypeOK, SpawnThread
  <2>2. /\ spawned' = spawned + 1
        /\ worker' = [worker EXCEPT ![spawned] = "encrypted"]
        /\ worker \in [Workers -> ThreadPcs]
    BY <1>3 DEF IInv, TypeOK, SpawnThread
  <2>3. spawned \in Workers /\ Workers \subseteq Int
    BY <2>1, ThreadCounts DEF Workers
  <2>4. SUFFICES ASSUME NEW i \in Workers
                 PROVE  /\ i \in progress[Encrypt] <=> worker'[i] \notin {"unborn", "encrypted"}
                        /\ i \in progress[Calculation] <=>
                             worker'[i] \in {"decrypt", "decrypted", "gone"}
                        /\ i \in progress[Decrypt] <=> worker'[i] = "gone"
                        /\ worker'[i] = "unborn" <=> i >= spawned + 1
                        /\ worker'[i] \in Calculating => calculateStart'
    BY <1>1, <2>2 DEF Tally
  <2>5. /\ worker[spawned] = "unborn" /\ i \in Int /\ spawned \in Int
        /\ worker[i] = "unborn" <=> i >= spawned
    BY <2>1, <2>3, ThreadCounts DEF IInv, Tally
  <2>6. CASE i = spawned
    BY <2>2, <2>3, <2>5, <2>6 DEF IInv, Tally, Calculating
  <2>7. CASE i # spawned
    <3>1. worker'[i] = worker[i] /\ (i >= spawned + 1 <=> i >= spawned)
      BY <2>2, <2>5, <2>7
    <3> QED
      BY <1>2, <2>5, <3>1 DEF IInv, Tally
  <2> QED
    BY <2>6, <2>7
<1>4. CASE ~ SpawnThread
  <2>1. worker' = worker
    BY <1>4, MainLeavesWorkers
  <2>2. spawned' = spawned
    BY <1>4 DEF Main, Parse, DivideInput, EncryptInput, SpawnThread, SpawnFails, AllSpawned,
       PollFlag, PhaseOver, Release, AggregateAndWrite
  <2> QED
    BY <1>1, <1>2, <2>1, <2>2 DEF IInv, Tally
<1> QED
  BY <1>3, <1>4

LEMMA MainKeepsCourse ==
  ASSUME IInv, Main
  PROVE  Course'
<1>1. Next
  BY DEF Next
<1>2. /\ command' = command /\ threadNum' = threadNum /\ command \in Commands
      /\ spawned \in Nat
  BY <1>1, CommandStays, ThreadCounts DEF IInv, TypeOK
<1>3. exitCode' = 0 => pc' = "returned" /\ phase' = Decrypt
  BY DEF IInv, Course, Main, Parse, DivideInput, EncryptInput, SpawnThread, SpawnFails,
     AllSpawned, PollFlag, PhaseOver, Release, AggregateAndWrite, ending, counters
<1>4. CASE Parse
  <2>1. pc' = "divide" => command \in Accepted
    BY <1>2, <1>4 DEF Parse, Accepted
  <2> QED
    BY <1>2, <1>3, <1>4, <2>1 DEF IInv, Course, Parse, flags, counters
<1>5. CASE DivideInput \/ EncryptInput
  BY <1>2, <1>3, <1>5 DEF IInv, Course, DivideInput, EncryptInput, flags, counters, ending
<1>6. CASE SpawnThread \/ SpawnFails \/ AllSpawned
  <2>1. command \in Accepted /\ threadNum \in Int /\ pc = "spawn"
    BY <1>2, <1>6, ThreadCounts DEF IInv, Course, SpawnThread, SpawnFails, AllSpawned
  <2> QED
    BY <1>2, <1>3, <1>6, <2>1 DEF IInv, Course, SpawnThread, SpawnFails, AllSpawned,
       flags, counters, ending
<1>7. CASE PollFlag
  BY <1>2, <1>3, <1>7 DEF IInv, Course, PollFlag, flags, ending
<1>8. CASE PhaseOver
  BY <1>2, <1>3, <1>8 DEF IInv, Course, PhaseOver, flags, counters, ending, Encrypt, Calculation,
     Decrypt
<1>9. CASE Release
  BY <1>2, <1>3, <1>9 DEF IInv, Course, Release, ending, Encrypt, Calculation
<1>10. CASE AggregateAndWrite
  BY <1>2, <1>3, <1>10 DEF IInv, Course, AggregateAndWrite, flags, counters, ending
<1> QED
  BY <1>4, <1>5, <1>6, <1>7, <1>8, <1>9, <1>10 DEF Main

(* The one step that makes main see more is a scan that found every flag of *)
(* the phase up.                                                            *)
LEMMA MainKeepsSeen ==
  ASSUME IInv, Main
  PROVE  Seen'
<1>1. Next
  BY DEF Next
<1>2. /\ Team' = Team /\ threadNum' = threadNum /\ progress' = progress
      /\ command \in Commands
  BY <1>1, CommandStays, MainLeavesWorkers DEF IInv, TypeOK
<1>3. /\ Workers \subseteq Nat /\ scan \in Nat /\ threadNum \in Int
      /\ Team = {i \in Workers : i < threadNum}
  BY <1>2, ThreadCounts DEF Workers, IInv, TypeOK, Team
<1>4. CASE Parse \/ DivideInput \/ EncryptInput \/ SpawnThread \/ SpawnFails
  <2>1. phase' = phase /\ phase = Encrypt /\ pc' \notin {"poll", "release"}
    BY <1>4 DEF IInv, Course, Parse, DivideInput, EncryptInput, SpawnThread, SpawnFails, counters
  <2> QED
    BY <1>2, <2>1 DEF Seen, Encrypt, Decrypt
<1>5. CASE AllSpawned
  <2>1. phase' = phase /\ phase = Encrypt /\ pc' = "poll" /\ scan' = 0 /\ threadNum >= 0
    BY <1>2, <1>5, ThreadCounts DEF IInv, Course, AllSpawned, counters
  <2> QED
    BY <1>2, <1>3, <2>1 DEF Seen, Encrypt, Decrypt
<1>6. CASE PollFlag
  <2>1. /\ phase' = phase /\ pc = "poll" /\ pc' = "poll" /\ scan < threadNum /\ threadNum >= 0
    BY <1>2, <1>3, <1>6, ThreadCounts DEF IInv, Course, Seen, PollFlag, ScanComplete
  <2>2. scan' <= threadNum /\ \A j \in Workers : j < scan' => j \in progress[phase]
    BY <1>3, <1>6, <2>1 DEF IInv, Seen, PollFlag, FlagUp
  <2> QED
    BY <1>2, <2>1, <2>2 DEF IInv, Seen
<1>7. CASE PhaseOver
  <2>1. pc = "poll" /\ Team \subseteq progress[phase]
    BY <1>3, <1>7 DEF IInv, Seen, PhaseOver, ScanComplete
  <2>2. threadNum >= 0
    BY <1>2, <2>1, ThreadCounts DEF IInv, Course
  <2>3. CASE phase = Encrypt
    BY <1>2, <1>7, <2>1, <2>3 DEF IInv, Seen, PhaseOver, counters, Encrypt, Calculation, Decrypt
  <2>4. CASE phase = Calculation
    <3>1. pc' = "poll" /\ phase' = Decrypt /\ scan' = 0
      BY <1>7, <2>1, <2>4 DEF PhaseOver, Encrypt, Calculation, Decrypt
    <3> QED
      BY <1>2, <1>3, <2>1, <2>2, <2>4, <3>1
         DEF IInv, Seen, Encrypt, Calculation, Decrypt
  <2>5. CASE phase = Decrypt
    BY <1>2, <1>7, <2>1, <2>5 DEF IInv, Seen, PhaseOver, counters, Encrypt, Calculation, Decrypt
  <2> QED
    BY <1>7, <2>3, <2>4, <2>5 DEF PhaseOver
<1>8. CASE Release
  <2>1. /\ pc' = "poll" /\ phase' = Calculation /\ scan' = 0
        /\ Team \subseteq progress[Encrypt] /\ threadNum >= 0
    BY <1>2, <1>8, ThreadCounts DEF IInv, Course, Seen, Release
  <2> QED
    BY <1>2, <1>3, <2>1 DEF Seen, Encrypt, Calculation, Decrypt
<1>9. CASE AggregateAndWrite
  <2>1. /\ pc = "aggregate" /\ pc' \in {"undefined", "returned"} /\ phase' = phase
        /\ phase = Decrypt
    BY <1>9 DEF IInv, Course, AggregateAndWrite, counters
  <2> QED
    BY <1>2, <2>1 DEF IInv, Seen
<1> QED
  BY <1>4, <1>5, <1>6, <1>7, <1>8, <1>9 DEF Main

LEMMA MainKeepsData ==
  ASSUME IInv, Main
  PROVE  Data'
<1>1. Next
  BY DEF Next
<1>2. /\ \A i \in Workers : Result(i)' = Result(i) /\ Decrypted(i)' = Decrypted(i)
      /\ encOutput' = encOutput /\ partial' = partial
  BY <1>1, CommandStays, MainLeavesWorkers
<1>3. \A i \in Workers :
        worker'[i] = worker[i] \/ (worker[i] = "unborn" /\ worker'[i] = "encrypted")
  <2>1. CASE SpawnThread
    <3>1. /\ command \in Commands /\ spawned \in 0 .. MaxThreads /\ spawned < threadNum
          /\ worker' = [worker EXCEPT ![spawned] = "encrypted"]
          /\ worker \in [Workers -> ThreadPcs]
      BY <2>1 DEF IInv, TypeOK, SpawnThread
    <3>2. spawned \in Workers /\ worker[spawned] = "unborn"
      BY <3>1, ThreadCounts DEF Workers, IInv, Tally
    <3> QED
      BY <3>1, <3>2
  <2> QED
    BY <2>1, MainLeavesWorkers
<1> QED
  BY <1>2, <1>3 DEF IInv, Data

-----------------------------------------------------------------------------
(* The workers' steps keep it.                                             *)

(* A step of a worker that does not end the program moves only that worker, *)
(* and only forward; it leaves main where it is.                            *)
LEMMA WorkerMoves ==
  ASSUME IInv, NEW i \in Workers, WorkerStep(i)
  PROVE  /\ pc \notin Over
         /\ UNCHANGED <<command, split, spawned, phase, scan, calculateStart, exitCode>>
         /\ i < spawned /\ spawned <= threadNum /\ i \in Team
         /\ pc' = pc \/ (pc' = "terminated" /\ RunsOutOfMemory(i))
         /\ \A j \in Workers : j # i => worker'[j] = worker[j]
<1>1. /\ pc \notin Over
      /\ UNCHANGED <<command, split, spawned, phase, scan, exitCode>>
  BY DEF WorkerStep, Running, counters, ending
<1>2. calculateStart' = calculateStart
  BY DEF WorkerStep, ReportEncrypted, StartCalculating, FormatAndCalculate, ReportCalculated,
     DecryptOutput, ReportDecrypted, RunsOutOfMemory, flags
<1>3. worker[i] # "unborn"
  BY DEF WorkerStep, ReportEncrypted, StartCalculating, FormatAndCalculate, ReportCalculated,
     DecryptOutput, ReportDecrypted, RunsOutOfMemory
<1>4. i < spawned /\ spawned <= threadNum /\ i \in Team
  <2>1. i \in Nat /\ spawned \in Nat /\ threadNum \in Int
    BY ThreadCounts DEF Workers, IInv, TypeOK
  <2>2. i < spawned
    BY <1>3, <2>1 DEF IInv, Tally
  <2> QED
    BY <2>1, <2>2 DEF IInv, Course, Team
<1>5. pc' = pc \/ (pc' = "terminated" /\ RunsOutOfMemory(i))
  BY DEF WorkerStep, RunsOutOfMemory
<1>6. \A j \in Workers : j # i => worker'[j] = worker[j]
  BY DEF WorkerStep, ReportEncrypted, StartCalculating, FormatAndCalculate, ReportCalculated,
     DecryptOutput, ReportDecrypted, RunsOutOfMemory, threads, IInv, TypeOK
<1> QED
  BY <1>1, <1>2, <1>4, <1>5, <1>6

LEMMA WorkerKeepsTypes ==
  ASSUME IInv, NEW i \in Workers, WorkerStep(i)
  PROVE  TypeOK'
<1>1. Next
  BY DEF Next
<1>2. /\ command' = command /\ command \in Commands
      /\ \A j \in Workers : Result(j)' = Result(j) /\ Decrypted(j)' = Decrypted(j)
  BY <1>1, CommandStays DEF IInv, TypeOK
<1>3. /\ pc' \in MainPcs /\ spawned' \in 0 .. MaxThreads /\ phase' \in Phases
      /\ scan' \in 0 .. MaxThreads /\ exitCode' \in {NoExit, 0, 1}
      /\ calculateStart' \in BOOLEAN
      /\ split' # NoSplit => command' \in Accepted /\ split' = Division[command']
  BY WorkerMoves DEF IInv, TypeOK, MainPcs
<1>4. worker' \in [Workers -> ThreadPcs]
  BY DEF WorkerStep, ReportEncrypted, StartCalculating, FormatAndCalculate, ReportCalculated,
     DecryptOutput, ReportDecrypted, RunsOutOfMemory, threads, IInv, TypeOK, ThreadPcs
<1>5. progress' \in [Phases -> SUBSET Workers]
  BY DEF WorkerStep, ReportEncrypted, StartCalculating, FormatAndCalculate, ReportCalculated,
     DecryptOutput, ReportDecrypted, RunsOutOfMemory, flags, IInv, TypeOK
<1>6. /\ DOMAIN encOutput' = Workers
      /\ \A j \in Workers : encOutput'[j] # Unset => encOutput'[j] = Result(j)
  BY DEF WorkerStep, ReportEncrypted, StartCalculating, FormatAndCalculate, ReportCalculated,
     DecryptOutput, ReportDecrypted, RunsOutOfMemory, threads, IInv, TypeOK
<1>7. /\ DOMAIN partial' = Workers
      /\ \A j \in Workers : partial'[j] # Unset => partial'[j] = Decrypted(j)
  <2>1. CASE DecryptOutput(i)
    <3>1. partial[i] = Unset /\ encOutput[i] = Result(i)
      BY <2>1 DEF DecryptOutput, IInv, Data
    <3>2. partial' = [partial EXCEPT ![i] = Decrypted(i)]
      BY <2>1, <3>1 DEF DecryptOutput, Decrypted
    <3> QED
      BY <3>2 DEF IInv, TypeOK
  <2>2. CASE ~ DecryptOutput(i)
    <3>1. partial' = partial
      BY <2>2 DEF WorkerStep, ReportEncrypted, StartCalculating, FormatAndCalculate,
         ReportCalculated, ReportDecrypted, RunsOutOfMemory, threads
    <3> QED
      BY <3>1 DEF IInv, TypeOK
  <2> QED
    BY <2>1, <2>2
<1> QED
  BY <1>2, <1>3, <1>4, <1>5, <1>6, <1>7 DEF TypeOK

LEMMA WorkerKeepsTally ==
  ASSUME IInv, NEW i \in Workers, WorkerStep(i)
  PROVE  Tally'
<1>1. /\ spawned' = spawned /\ calculateStart' = calculateStart
      /\ worker[i] # "unborn"
      /\ \A j \in Workers : j # i => worker'[j] = worker[j]
  <2>1. i < spawned /\ i \in Int /\ spawned \in Int
    BY WorkerMoves, ThreadCounts DEF Workers, IInv, TypeOK
  <2> QED
    BY <2>1, WorkerMoves DEF IInv, Tally
<1>2. progress \in [Phases -> SUBSET Workers] /\ worker \in [Workers -> ThreadPcs]
  BY DEF IInv, TypeOK
<1>3. \A ph \in Phases : \A j \in Workers : j # i => (j \in progress'[ph] <=> j \in progress[ph])
  <2>1. CASE progress' = progress
    BY <2>1
  <2>2. ASSUME NEW ph \in Phases, progress' = [progress EXCEPT ![ph] = @ \cup {i}]
        PROVE  \A k \in Phases : \A j \in Workers :
                 j # i => (j \in progress'[k] <=> j \in progress[k])
    BY <1>2, <2>2
  <2>3. Encrypt \in Phases /\ Calculation \in Phases /\ Decrypt \in Phases
    BY DEF Phases, Encrypt, Calculation, Decrypt
  <2>4. progress' = progress \/ \E ph \in Phases : progress' = [progress EXCEPT ![ph] = @ \cup {i}]
    BY <2>3 DEF WorkerStep, ReportEncrypted, StartCalculating, FormatAndCalculate,
       ReportCalculated, DecryptOutput, ReportDecrypted, RunsOutOfMemory, flags
  <2> QED
    BY <2>1, <2>2, <2>4
<1>4. /\ i \in progress'[Encrypt] <=> worker'[i] \notin {"unborn", "encrypted"}
      /\ i \in progress'[Calculation] <=> worker'[i] \in {"decrypt", "decrypted", "gone"}
      /\ i \in progress'[Decrypt] <=> worker'[i] = "gone"
      /\ worker'[i] # "unborn"
      /\ worker'[i] \in Calculating => calculateStart
  BY <1>1, <1>2 DEF WorkerStep, ReportEncrypted, StartCalculating, FormatAndCalculate,
     ReportCalculated, DecryptOutput, ReportDecrypted, RunsOutOfMemory, flags, threads, IInv,
     Tally, Calculating, Phases, Encrypt, Calculation, Decrypt
<1>5. Encrypt \in Phases /\ Calculation \in Phases /\ Decrypt \in Phases
  BY DEF Phases, Encrypt, Calculation, Decrypt
<1> QED
  BY <1>1, <1>3, <1>4, <1>5 DEF IInv, Tally

LEMMA WorkerKeepsRest ==
  ASSUME IInv, NEW i \in Workers, WorkerStep(i)
  PROVE  Course' /\ Seen'
<1>1. Next
  BY DEF Next
<1>2. Team' = Team /\ threadNum' = threadNum /\ command' = command
  BY <1>1, CommandStays
<1>3. Course'
  BY <1>2, WorkerMoves DEF IInv, Course, Over
<1>4. \A ph \in Phases : progress[ph] \subseteq progress'[ph]
  BY DEF WorkerStep, ReportEncrypted, StartCalculating, FormatAndCalculate, ReportCalculated,
     DecryptOutput, ReportDecrypted, RunsOutOfMemory, flags, IInv, TypeOK
<1>5. Encrypt \in Phases /\ Calculation \in Phases /\ Decrypt \in Phases /\ phase \in Phases
  BY DEF Phases, Encrypt, Calculation, Decrypt, IInv, TypeOK
<1>6. /\ phase' = phase /\ scan' = scan
      /\ pc' = pc \/ pc' = "terminated"
  BY WorkerMoves
<1>7. Seen'
  BY <1>2, <1>4, <1>5, <1>6 DEF IInv, Seen
<1> QED
  BY <1>3, <1>7

LEMMA WorkerKeepsData ==
  ASSUME IInv, NEW i \in Workers, WorkerStep(i)
  PROVE  Data'
<1>1. Next
  BY DEF Next
<1>2. /\ \A j \in Workers : Result(j)' = Result(j) /\ Decrypted(j)' = Decrypted(j)
      /\ \A j \in Workers : j # i => worker'[j] = worker[j]
  BY <1>1, CommandStays, WorkerMoves
<1>3. \A j \in Workers : j # i => encOutput'[j] = encOutput[j] /\ partial'[j] = partial[j]
  BY DEF WorkerStep, ReportEncrypted, StartCalculating, FormatAndCalculate, ReportCalculated,
     DecryptOutput, ReportDecrypted, RunsOutOfMemory, threads, IInv, TypeOK
<1>4. /\ worker'[i] \in {"calculated", "decrypt", "decrypted", "gone"} => encOutput'[i] = Result(i)
      /\ partial'[i] = IF worker'[i] \in {"decrypted", "gone"} THEN Decrypted(i) ELSE Unset
  BY DEF WorkerStep, ReportEncrypted, StartCalculating, FormatAndCalculate, ReportCalculated,
     DecryptOutput, ReportDecrypted, RunsOutOfMemory, threads, IInv, TypeOK, Data, Decrypted
<1> QED
  BY <1>2, <1>3, <1>4 DEF IInv, Data

-----------------------------------------------------------------------------
(* The theorems.                                                           *)

LEMMA Inductive == Spec => []IInv
<1>1. Init => IInv
  BY Initially
<1>2. IInv /\ [Next]_vars => IInv'
  <2> SUFFICES ASSUME IInv, [Next]_vars PROVE IInv'
    OBVIOUS
  <2>1. CASE Main
    BY <2>1, MainKeepsTypes, MainKeepsTally, MainKeepsCourse, MainKeepsSeen, MainKeepsData
       DEF IInv
  <2>2. ASSUME NEW i \in Workers, WorkerStep(i) PROVE IInv'
    BY <2>2, WorkerKeepsTypes, WorkerKeepsTally, WorkerKeepsRest, WorkerKeepsData DEF IInv
  <2>3. CASE UNCHANGED vars
    BY <2>3 DEF vars, IInv, TypeOK, Tally, Course, Seen, Data, Result, Decrypted, threadNum, Team
  <2> QED
    BY <2>1, <2>2, <2>3 DEF Next
<1> QED
  BY <1>1, <1>2, PTL DEF Spec

(* Every variable keeps its type, whatever the commands and however the      *)
(* threads interleave: a partial output is empty or its part's whole result.  *)
THEOREM TypeCorrect == Spec => []TypeOK
<1>1. IInv => TypeOK
  BY DEF IInv
<1> QED
  BY <1>1, Inductive, PTL

(* main aggregates, and returns, only when every worker has made its last    *)
(* use of main's locals and its whole result is in partial_output_data.      *)
THEOREM EveryPartAggregated == Spec => []AggregateSeesEveryPart
<1>1. IInv => AggregateSeesEveryPart
  <2> SUFFICES ASSUME IInv, pc = "aggregate" \/ (pc = "returned" /\ exitCode = 0),
                      NEW i \in Team
               PROVE  worker[i] = "gone" /\ partial[i] = Decrypted(i)
    BY DEF AggregateSeesEveryPart
  <2>1. i \in progress[Decrypt] /\ i \in Workers
    BY DEF IInv, Course, Seen, Team
  <2> QED
    BY <2>1 DEF IInv, Tally, Data
<1> QED
  BY <1>1, Inductive, PTL

(* The statistics are cleared while every worker is parked, for any number   *)
(* of them.                                                                  *)
THEOREM ClearedAtRest == Spec => []StatsClearedAtRest
<1>1. IInv => StatsClearedAtRest
  <2> SUFFICES ASSUME IInv, pc = "release", NEW i \in Team
               PROVE  worker[i] = "spinning"
    BY DEF StatsClearedAtRest
  <2>1. i \in progress[Encrypt] /\ i \in Workers /\ ~ calculateStart
    BY DEF IInv, Course, Seen, Team
  <2>2. worker[i] \notin {"unborn", "encrypted"} /\ worker[i] \notin Calculating
    BY <2>1 DEF IInv, Tally
  <2>3. worker[i] \in ThreadPcs
    BY <2>1 DEF IInv, TypeOK
  <2> QED
    BY <2>2, <2>3 DEF ThreadPcs, Calculating
<1> QED
  BY <1>1, Inductive, PTL

-----------------------------------------------------------------------------
(* The refinement of PhaseBarrier.                                         *)

LEMMA BarrierInitially == Init => Barrier!Init
<1> SUFFICES ASSUME Init PROVE Barrier!Init
  OBVIOUS
<1>1. Team \in SUBSET Workers
  BY DEF Team
<1>2. \A ph \in Phases : progress[ph] = {}
  BY DEF Init
<1>3. PhasesDone = [i \in Workers |-> 0]
  BY <1>2 DEF PhasesDone, Phases, Encrypt, Calculation, Decrypt
<1>4. PhasesSeen = 0
  BY DEF Init, PhasesSeen, Encrypt, Decrypt
<1> QED
  BY <1>1, <1>3, <1>4 DEF Barrier!Init

LEMMA DoneFollowsWorker ==
  ASSUME Tally
  PROVE  \A i \in Workers :
           PhasesDone[i] = IF worker[i] = "gone" THEN 3
                           ELSE IF worker[i] \in {"decrypt", "decrypted"} THEN 2
                           ELSE IF worker[i] \notin {"unborn", "encrypted"} THEN 1 ELSE 0
BY DEF Tally, PhasesDone

(* A worker's report is a completed phase, and it reports nothing after the *)
(* first phase before main has seen that one complete.                      *)
LEMMA WorkerRefines ==
  ASSUME IInv, NEW i \in Workers, WorkerStep(i)
  PROVE  [Barrier!Next]_Barrier!vars
<1>1. Next /\ Tally /\ Tally'
  BY WorkerKeepsTally DEF Next, IInv
<1>2. Team' = Team /\ i \in Team
  BY <1>1, CommandStays, WorkerMoves
<1>3. /\ DOMAIN PhasesDone = Workers /\ DOMAIN PhasesDone' = Workers
      /\ PhasesDone = [j \in Workers |-> PhasesDone[j]]
      /\ PhasesDone' = [j \in Workers |-> PhasesDone'[j]]
  BY DEF PhasesDone
<1>4. \A j \in Workers : j # i => PhasesDone'[j] = PhasesDone[j]
  <2>1. \A j \in Workers : j # i => worker'[j] = worker[j]
    BY WorkerMoves
  <2>2. \A j \in Workers :
          PhasesDone'[j] = IF worker'[j] = "gone" THEN 3
                           ELSE IF worker'[j] \in {"decrypt", "decrypted"} THEN 2
                           ELSE IF worker'[j] \notin {"unborn", "encrypted"} THEN 1 ELSE 0
    BY <1>1 DEF Tally, PhasesDone
  <2> QED
    BY <1>1, <2>1, <2>2, DoneFollowsWorker
<1>5. PhasesDone'[i] = IF worker'[i] = "gone" THEN 3
                       ELSE IF worker'[i] \in {"decrypt", "decrypted"} THEN 2
                       ELSE IF worker'[i] \notin {"unborn", "encrypted"} THEN 1 ELSE 0
  BY <1>1 DEF Tally, PhasesDone
<1>6. worker \in [Workers -> ThreadPcs] /\ phase \in {0, 1, 2} /\ phase' = phase
  BY WorkerMoves DEF IInv, TypeOK, Phases, Encrypt, Decrypt
<1>7. worker[i] # "gone"
  BY DEF WorkerStep, ReportEncrypted, StartCalculating, FormatAndCalculate, ReportCalculated,
     DecryptOutput, ReportDecrypted, RunsOutOfMemory
<1>8. ~ (phase = Decrypt /\ pc \in {"aggregate", "returned", "undefined"})
  <2>1. i \notin progress[Decrypt]
    BY <1>1, <1>7 DEF Tally
  <2> QED
    BY <1>2, <2>1 DEF IInv, Seen
<1>9. PhasesSeen' = PhasesSeen
  <2>1. CASE pc' = pc
    BY <1>6, <2>1 DEF PhasesSeen
  <2>2. CASE pc' = "terminated" /\ RunsOutOfMemory(i)
    <3>1. worker[i] \in Calculating
      BY <2>2 DEF RunsOutOfMemory, Calculating
    <3>2. calculateStart
      BY <1>1, <3>1 DEF Tally
    <3>3. pc # "release"
      BY <3>2 DEF IInv, Course
    <3> QED
      BY <1>6, <1>8, <2>2, <3>3 DEF PhasesSeen
  <2> QED
    BY <2>1, <2>2, WorkerMoves
<1>10. worker[i] \in Calculating => PhasesSeen > 0
  BY <1>1, <1>6 DEF Tally, IInv, Course, PhasesSeen, Encrypt
<1>11. \/ PhasesDone'[i] = PhasesDone[i]
       \/ /\ PhasesDone'[i] = PhasesDone[i] + 1 /\ PhasesDone[i] < 3
          /\ PhasesDone[i] > 0 => PhasesSeen > 0
  <2>1. PhasesDone[i] = IF worker[i] \in {"decrypt", "decrypted"} THEN 2
                        ELSE IF worker[i] \notin {"unborn", "encrypted"} THEN 1 ELSE 0
    BY <1>1, <1>7, DoneFollowsWorker
  <2>2. CASE ReportEncrypted(i)
    BY <1>5, <1>6, <2>1, <2>2 DEF ReportEncrypted
  <2>3. CASE ReportCalculated(i)
    BY <1>5, <1>6, <1>10, <2>1, <2>3 DEF ReportCalculated, Calculating
  <2>4. CASE ReportDecrypted(i)
    BY <1>5, <1>6, <1>10, <2>1, <2>4 DEF ReportDecrypted, Calculating
  <2>5. CASE StartCalculating(i) \/ FormatAndCalculate(i) \/ DecryptOutput(i)
    BY <1>5, <1>6, <2>1, <2>5 DEF StartCalculating, FormatAndCalculate, DecryptOutput
  <2>6. CASE RunsOutOfMemory(i)
    BY <1>5, <1>7, <2>1, <2>6 DEF RunsOutOfMemory, threads
  <2> QED
    BY <2>2, <2>3, <2>4, <2>5, <2>6 DEF WorkerStep
<1>12. CASE PhasesDone'[i] = PhasesDone[i]
  <2>1. PhasesDone' = PhasesDone
    BY <1>3, <1>4, <1>12
  <2> QED
    BY <1>2, <1>9, <2>1 DEF Barrier!vars
<1>13. CASE /\ PhasesDone'[i] = PhasesDone[i] + 1 /\ PhasesDone[i] < 3
            /\ PhasesDone[i] > 0 => PhasesSeen > 0
  <2>1. PhasesDone' = [PhasesDone EXCEPT ![i] = @ + 1]
    BY <1>3, <1>4, <1>13
  <2>2. Barrier!Complete(i)
    BY <1>2, <1>9, <1>13, <2>1 DEF Barrier!Complete, Barrier!Phases
  <2> QED
    BY <2>2 DEF Barrier!Next
<1> QED
  BY <1>11, <1>12, <1>13

(* main sees a phase complete in the step in which its scan is complete.    *)
LEMMA MainRefines ==
  ASSUME IInv, Main
  PROVE  [Barrier!Next]_Barrier!vars
<1>1. Next
  BY DEF Next
<1>2. Team' = Team /\ progress' = progress /\ command \in Commands
  BY <1>1, CommandStays, MainLeavesWorkers DEF IInv, TypeOK
<1>3. PhasesDone' = PhasesDone
  BY <1>2 DEF PhasesDone
<1>4. phase \in {0, 1, 2}
  BY DEF IInv, TypeOK, Phases, Encrypt, Decrypt
<1>5. SUFFICES PhasesSeen' = PhasesSeen \/ Barrier!Observe
  BY <1>2, <1>3 DEF Barrier!Next, Barrier!vars
<1>6. CASE Parse \/ DivideInput \/ EncryptInput \/ SpawnThread \/ SpawnFails \/ AllSpawned
  <2>1. phase' = phase /\ phase = Encrypt /\ pc # "release" /\ pc' # "release"
    BY <1>6 DEF IInv, Course, Parse, DivideInput, EncryptInput, SpawnThread, SpawnFails,
       AllSpawned, counters
  <2> QED
    BY <2>1 DEF PhasesSeen, Encrypt, Decrypt
<1>7. CASE PollFlag
  BY <1>7 DEF PollFlag, PhasesSeen
<1>8. CASE Release
  BY <1>8 DEF Release, PhasesSeen, Calculation, Decrypt
<1>9. CASE AggregateAndWrite
  BY <1>9 DEF IInv, Course, AggregateAndWrite, PhasesSeen, counters
<1>10. CASE PhaseOver
  <2>1. pc = "poll" /\ Team \subseteq progress[phase] /\ PhasesSeen = phase
    <3>1. Workers \subseteq Int /\ threadNum \in Int
      BY <1>2, ThreadCounts DEF Workers
    <3> QED
      BY <1>10, <3>1 DEF PhaseOver, ScanComplete, IInv, Seen, Team, PhasesSeen
  <2>2. PhasesSeen' = phase + 1
    <3>1. CASE phase = 0
      BY <1>10, <3>1 DEF PhaseOver, PhasesSeen, Encrypt, Calculation, Decrypt
    <3>2. CASE phase = 1
      BY <1>10, <2>1, <3>2 DEF PhaseOver, PhasesSeen, Encrypt, Calculation, Decrypt
    <3>3. CASE phase = 2
      BY <1>10, <3>3 DEF PhaseOver, PhasesSeen, counters, Encrypt, Calculation, Decrypt
    <3> QED
      BY <1>4, <3>1, <3>2, <3>3
  <2>3. ASSUME NEW i \in Team PROVE PhasesDone[i] > phase
    <3>1. i \in Workers /\ i \in progress[phase] /\ Tally
      BY <2>1, <2>3 DEF Team, IInv
    <3> QED
      BY <1>4, <3>1, DoneFollowsWorker DEF Tally, Encrypt, Calculation, Decrypt
  <2> QED
    BY <1>2, <1>3, <1>4, <2>1, <2>2, <2>3 DEF Barrier!Observe, Barrier!Phases
<1> QED
  BY <1>6, <1>7, <1>8, <1>9, <1>10 DEF Main

(* Polling flag after flag implements an atomic barrier, for any number of   *)
(* threads.                                                                  *)
THEOREM BarrierRefinement == Spec => ImplementsBarrier
<1>1. Init => Barrier!Init
  BY BarrierInitially
<1>2. IInv /\ [Next]_vars => [Barrier!Next]_Barrier!vars
  <2> SUFFICES ASSUME IInv, [Next]_vars PROVE [Barrier!Next]_Barrier!vars
    OBVIOUS
  <2>1. CASE UNCHANGED vars
    BY <2>1 DEF vars, Barrier!vars, Team, threadNum, PhasesDone, PhasesSeen
  <2> QED
    BY <2>1, MainRefines, WorkerRefines DEF Next
<1> QED
  BY <1>1, <1>2, Inductive, PTL DEF Spec, ImplementsBarrier, Barrier!Spec

-----------------------------------------------------------------------------
(* What the commands main accepts are split into.                          *)

Parts == Len(Division[command].parts)

(* A worker of a statistics run left nothing.                              *)
Missing ==
  command.problem = "real_statistics" /\ \E k \in 1 .. Parts : Decrypted(k - 1) = <<>>

LEMMA AcceptedCommand ==
  ASSUME command \in Accepted
  PROVE  /\ command.problem \in Problems
         /\ threadNum \in Nat /\ threadNum <= MaxThreads
         /\ command.size \in Nat /\ command.items \in Nat
         /\ 2 ^ SizeBits \in Nat /\ command.size * command.size < 2 ^ SizeBits
         /\ Division[command] = Divide(command.problem, threadNum, command.size, command.items)
BY CommandsAssumption, WidthAssumption DEF Accepted, Command, Malformed, threadNum, Division

(* The last worker starts before the end.                                  *)
LastHasRows == (threadNum - 1) * PerWorker(threadNum, command.size) < command.size

LEMMA FitIsShared ==
  Fits(command.problem, threadNum, command.size, command.items) <=>
    /\ Shared(command.problem, threadNum, command.size, command.items)
    /\ command.problem = "real_statistics" => LastHasRows
BY DEF Fits, Shared, LastHasRows

(* What thread k leaves, numbering them from one, is what its part of the   *)
(* division comes to.                                                       *)
LEMMA ResultIs ==
  ASSUME command \in Accepted, NEW k \in 1 .. Parts, Parts \in Nat
  PROVE  Result(k - 1) = WorkerResult(Division[command], command.problem, k)
<1>1. k - 1 \in 0 .. Parts - 1 /\ (k - 1) + 1 = k
  OBVIOUS
<1>2. Work[command] = [i \in 0 .. Parts - 1 |->
                         WorkerResult(Division[command], command.problem, i + 1)]
  BY Zenon DEF Work, WorkerResult, Parts
<1>3. Work[command][k - 1] = WorkerResult(Division[command], command.problem, (k - 1) + 1)
  BY <1>1, <1>2, Zenon
<1> QED BY <1>1, <1>3, Zenon DEF Result

(* A statistics run shared as divide() asks misses an item exactly when its *)
(* last worker starts at the very end.                                      *)
LEMMA MissingExactlyWhenRowless ==
  ASSUME command \in Accepted, command.problem = "real_statistics",
         Shared(command.problem, threadNum, command.size, command.items)
  PROVE  Missing <=> ~ LastHasRows
<1> DEFINE w == threadNum
           p == command.size
<1>1. w \in Nat \ {0} /\ p \in Nat /\ 2 ^ SizeBits \in Nat /\ p < 2 ^ SizeBits
      /\ (w - 1) * PerWorker(w, p) <= p
  <2>1. p < 2 ^ SizeBits
    BY AcceptedCommand, Narrow
  <2> QED BY <2>1, AcceptedCommand DEF Shared
<1>2. Division[command] = DivideVector(w, p) /\ Parts = w
  <2>1. Division[command] = Divide("real_statistics", w, p, command.items)
    BY AcceptedCommand
  <2>2. Divide("real_statistics", w, p, command.items) = DivideVector(w, p)
    <3>1. command.items = InputItems("real_statistics", p) /\ w # 0
      BY <1>1 DEF Shared
    <3> QED BY <3>1 DEF Divide
  <2>3. Parts = w
    BY AcceptedCommand, DivideShares DEF Parts
  <2> QED BY <2>1, <2>2, <2>3
<1>3. ASSUME NEW k \in 1 .. w
      PROVE  Result(k - 1) = WorkerResult(DivideVector(w, p), "real_statistics", k)
  BY <1>1, <1>2, ResultIs
<1> HIDE DEF w, p
<1>4. \A k \in 1 .. w : Decrypted(k - 1) = <<>> <=> Rows(w, p, k - 1) = 0
  <2> TAKE k \in 1 .. w
  <2>1. Result(k - 1) = IF Rows(w, p, k - 1) = 0 THEN <<>>
                        ELSE <<BlockOf(Numbers(p), w, p, 1, k - 1), BlockOf(Squares(p), w, p, 1, k - 1)>>
    BY <1>1, <1>3, VectorWorker, Zenon
  <2>2. CASE Rows(w, p, k - 1) = 0
    <3>1. Result(k - 1) = <<>>
      BY <2>1, <2>2, Zenon
    <3> QED BY <2>2, <3>1 DEF Decrypted, Unset
  <2>3. CASE Rows(w, p, k - 1) # 0
    <3>1. PICK a, b : Result(k - 1) = <<a, b>>
      BY <2>1, <2>3, Zenon
    <3>2. Decrypted(k - 1) = <<>> \o <<a, b>>
      BY <3>1 DEF Decrypted, Unset
    <3>3. Len(<<>> \o <<a, b>>) = 2
      OBVIOUS
    <3> QED BY <2>3, <3>2, <3>3
  <2> QED BY <2>2, <2>3
<1>5. Missing <=> \E k \in 1 .. w : Rows(w, p, k - 1) = 0
  BY <1>2, <1>4 DEF Missing
<1>6. LastHasRows <=> (w - 1) * PerWorker(w, p) < p
  BY DEF LastHasRows, w, p
<1>7. CASE (w - 1) * PerWorker(w, p) < p
  <2>1. \A k \in 1 .. w : k - 1 \in 0 .. w - 1
    BY <1>1
  <2>2. \A i \in 0 .. w - 1 : Rows(w, p, i) # 0
    BY <1>1, <1>7, RowsForAll
  <2> QED BY <1>5, <1>6, <1>7, <2>1, <2>2
<1>8. CASE (w - 1) * PerWorker(w, p) = p
  <2>1. w \in 1 .. w /\ Rows(w, p, w - 1) = 0
    BY <1>1, <1>8, RowsForAll
  <2>2. ~ ((w - 1) * PerWorker(w, p) < p)
    BY <1>1, <1>8
  <2> QED BY <1>5, <1>6, <2>1, <2>2
<1>9. (w - 1) * PerWorker(w, p) \in Int
  BY <1>1, EnoughForAll
<1> QED BY <1>1, <1>7, <1>8, <1>9

-----------------------------------------------------------------------------
(* The state.                                                              *)

(* How far main has got says what divide() left of its command, and what    *)
(* ended it.                                                                *)
Whole == Division[command].ends = "returns" /\ threadNum <= Parts

Fate ==
  /\ pc = "crashed" =>
       \/ Malformed \in {command.size, command.threads}
       \/ command \in Accepted /\ Division[command].ends # "returns"
  /\ pc \in {"encrypt", "spawn", "poll", "release", "aggregate"} =>
       split = Division[command] /\ Division[command].ends = "returns"
  /\ pc \in {"spawn", "poll", "release", "aggregate"} => Whole
  /\ pc = "undefined" => command \in Accepted /\ (Whole => Missing)
  /\ pc = "returned" /\ exitCode = 0 => command \in Accepted /\ Whole /\ ~ Missing

LEMMA FateInitially == Init => Fate
BY DEF Init, Fate

(* The parts main gives aggregate() are one for each of its threads, so what *)
(* it reads is what they left.                                               *)
LEMMA PartialsAreWhole ==
  ASSUME IInv, Fate, pc = "aggregate"
  PROVE  /\ Partials = [k \in 1 .. Parts |-> Decrypted(k - 1)]
         /\ ReadsMissingItem(command.problem, Partials) <=> Missing
<1>1. /\ command \in Accepted /\ split = Division[command] /\ Whole
      /\ Division[command].ends = "returns"
  BY DEF IInv, Course, Fate
<1>2. Parts = threadNum /\ threadNum \in Nat /\ threadNum <= MaxThreads
  BY <1>1, AcceptedCommand, DivideShares DEF Whole, Parts
<1>3. \A k \in 1 .. Parts : partial[k - 1] = Decrypted(k - 1)
  <2> TAKE k \in 1 .. Parts
  <2>1. k - 1 \in Team
    BY <1>2, CommandsAssumption DEF Team, Workers
  <2>2. AggregateSeesEveryPart
    <3>1. Team \subseteq progress[Decrypt] /\ Team \subseteq Workers
      BY DEF IInv, Course, Seen, Team
    <3> QED BY <3>1 DEF IInv, Course, Tally, Data, AggregateSeesEveryPart, NoExit
  <2> QED BY <2>1, <2>2 DEF AggregateSeesEveryPart
<1>4. Partials = [k \in 1 .. Parts |-> partial[k - 1]]
  BY <1>1 DEF Partials, Parts
<1>5. (\E k \in DOMAIN Partials : Partials[k] = <<>>)
      <=> \E k \in 1 .. Parts : Decrypted(k - 1) = <<>>
  BY <1>3, <1>4
<1>6. Partials = [k \in 1 .. Parts |-> Decrypted(k - 1)]
  BY <1>3, <1>4
<1> QED BY <1>5, <1>6 DEF ReadsMissingItem, Missing

LEMMA FateStays ==
  ASSUME IInv, Fate, [Next]_vars
  PROVE  Fate'
<1>1. /\ command' = command /\ threadNum' = threadNum /\ Parts' = Parts
      /\ Division' = Division /\ Accepted' = Accepted
      /\ Whole' = Whole /\ Missing' = Missing
  <2>1. command' = command /\ threadNum' = threadNum
    BY CommandStays
  <2>2. Division' = Division /\ Accepted' = Accepted /\ Work' = Work
    BY DEF Division, Accepted, Work
  <2> QED BY <2>1, <2>2 DEF Parts, Whole, Missing, Decrypted, Result
<1>2. CASE UNCHANGED vars
  BY <1>1, <1>2 DEF vars, Fate
<1>3. ASSUME NEW i \in Workers, WorkerStep(i) PROVE Fate'
  <2>1. UNCHANGED <<split, exitCode>> /\ pc' \in {pc, "terminated"} /\ pc \notin Over
    BY <1>3, WorkerMoves
  <2> QED BY <1>1, <2>1 DEF Fate
<1>4. CASE Parse
  <2>1. \/ pc' = "crashed" /\ Malformed \in {command.size, command.threads}
        \/ pc' = "divide"
        \/ pc' = "returned" /\ exitCode' = 1
    BY <1>4 DEF Parse
  <2> QED BY <1>1, <2>1 DEF Fate
<1>5. CASE DivideInput
  <2>1. command \in Accepted /\ split' = Division[command]
    BY <1>5 DEF DivideInput, IInv, Course
  <2>2. pc' = IF Division[command].ends = "returns" THEN "encrypt" ELSE "crashed"
    BY <1>5, <2>1 DEF DivideInput
  <2> QED BY <1>1, <2>1, <2>2 DEF Fate
<1>6. CASE EncryptInput
  <2>1. /\ command \in Accepted /\ split' = split /\ split = Division[command]
        /\ Division[command].ends = "returns"
    BY <1>6 DEF EncryptInput, IInv, Course, Fate
  <2>2. pc' = "terminated" \/ pc' = IF threadNum <= Parts THEN "spawn" ELSE "undefined"
    BY <1>6, <2>1 DEF EncryptInput, Parts
  <2>3. pc' = "spawn" => Whole
    BY <2>1, <2>2 DEF Whole
  <2>4. pc' = "undefined" => ~ Whole
    BY <2>1, <2>2 DEF Whole
  <2> QED BY <1>1, <2>1, <2>2, <2>3, <2>4 DEF Fate
<1>7. CASE SpawnThread \/ SpawnFails \/ AllSpawned \/ PollFlag \/ PhaseOver \/ Release
  <2>1. /\ UNCHANGED <<split, exitCode>>
        /\ pc \in {"spawn", "poll", "release"}
        /\ pc' \in {"spawn", "poll", "release", "aggregate", "terminated"}
    BY <1>7 DEF SpawnThread, SpawnFails, AllSpawned, PollFlag, PhaseOver, Release, ending
  <2> QED BY <1>1, <2>1 DEF Fate
<1>8. CASE AggregateAndWrite
  <2>1. /\ command \in Accepted /\ Whole /\ pc = "aggregate"
        /\ ReadsMissingItem(command.problem, Partials) <=> Missing
    BY <1>8, PartialsAreWhole DEF AggregateAndWrite, IInv, Course, Fate
  <2>2. pc' = IF Missing THEN "undefined" ELSE "returned"
    BY <1>8, <2>1 DEF AggregateAndWrite
  <2> QED BY <1>1, <2>1, <2>2 DEF Fate
<1> QED BY <1>2, <1>3, <1>4, <1>5, <1>6, <1>7, <1>8 DEF Next, Main

(* main fails by its own doing on exactly the commands that do not fit: the  *)
(* exceptions of divide() and std::stoull, the reads beyond a vector, and no *)
(* successful run of such a command, but of one without threads (main lines  *)
(* 745-889, the divide functions and Statistics::aggregate), for every       *)
(* problem, size, number of threads and input.                               *)
THEOREM MisfitsOnly == Spec => []OnlyMisfitsFail
<1>1. IInv /\ Fate => OnlyMisfitsFail
  <2> SUFFICES ASSUME IInv, Fate PROVE OnlyMisfitsFail
    OBVIOUS
  <2> DEFINE Fit == Fits(command.problem, threadNum, command.size, command.items)
             Sharing == Shared(command.problem, threadNum, command.size, command.items)
             Nobody == threadNum = 0 /\ command.items # InputItems(command.problem, command.size)
  <2>1. Fit <=> Sharing /\ (command.problem = "real_statistics" => LastHasRows)
    BY FitIsShared
  <2>2. command \in Accepted => (Sharing => Whole) /\ (Whole => Sharing \/ Nobody)
    <3>1. ASSUME command \in Accepted
          PROVE  (Sharing => Whole) /\ (Whole => Sharing \/ Nobody)
      <4>1. threadNum \in Nat
        BY <3>1, AcceptedCommand
      <4> QED BY <3>1, <4>1, AcceptedCommand, DivideShares DEF Whole, Parts
    <3> QED BY <3>1
  <2>3. ASSUME command \in Accepted, Sharing, command.problem = "real_statistics"
        PROVE  Missing <=> ~ LastHasRows
    BY <2>3, MissingExactlyWhenRowless
  <2>4. Missing => command.problem = "real_statistics"
    BY DEF Missing
  <2> HIDE DEF Fit, Sharing, Nobody
  <2>5. pc = "undefined" => ~ Fit
    BY <2>1, <2>2, <2>3, <2>4 DEF Fate
  <2>6. pc = "crashed" => Malformed \in {command.size, command.threads} \/ ~ Fit
    BY <2>1, <2>2 DEF Fate, Whole
  <2>7. pc = "returned" /\ exitCode = 0 => Fit \/ Nobody
    BY <2>1, <2>2, <2>3 DEF Fate
  <2> QED BY <2>5, <2>6, <2>7 DEF OnlyMisfitsFail, Fit, Nobody
<1>2. Init => Fate
  BY FateInitially
<1>3. IInv /\ Fate /\ [Next]_vars => Fate'
  BY FateStays
<1> QED BY <1>1, <1>2, <1>3, Inductive, PTL DEF Spec

-----------------------------------------------------------------------------
(* The answer.                                                              *)

(* What has been written is what aggregate() makes of the workers' results. *)
Answered ==
  output.written =>
    /\ command \in Accepted /\ Whole /\ ~ Missing
    /\ output.items = Aggregate(command.problem, [k \in 1 .. Parts |-> Decrypted(k - 1)])

LEMMA AnsweredInitially == Init => Answered
BY DEF Init, NotWritten, Answered

LEMMA AnsweredStays ==
  ASSUME IInv, Fate, Answered, [Next]_vars
  PROVE  Answered'
<1>1. /\ command' = command /\ Parts' = Parts /\ Accepted' = Accepted
      /\ Whole' = Whole /\ Missing' = Missing
      /\ [k \in 1 .. Parts |-> Decrypted(k - 1)]' = [k \in 1 .. Parts |-> Decrypted(k - 1)]
  <2>1. command' = command /\ threadNum' = threadNum
    BY CommandStays
  <2>2. Division' = Division /\ Accepted' = Accepted /\ Work' = Work
    BY DEF Division, Accepted, Work
  <2> QED BY <2>1, <2>2 DEF Parts, Whole, Missing, Decrypted, Result
<1>2. ASSUME output' = output PROVE Answered'
  BY <1>1, <1>2 DEF Answered
<1>3. CASE UNCHANGED vars
  BY <1>2, <1>3 DEF vars
<1>4. ASSUME NEW i \in Workers, WorkerStep(i) PROVE Answered'
  BY <1>2, <1>4 DEF WorkerStep, ending
<1>5. CASE \/ Parse \/ DivideInput \/ EncryptInput \/ SpawnThread \/ SpawnFails
           \/ AllSpawned \/ PollFlag \/ PhaseOver \/ Release
  BY <1>2, <1>5 DEF Parse, DivideInput, EncryptInput, SpawnThread, SpawnFails, AllSpawned,
                    PollFlag, PhaseOver, Release, ending
<1>6. CASE AggregateAndWrite
  <2>1. /\ command \in Accepted /\ Whole
        /\ Partials = [k \in 1 .. Parts |-> Decrypted(k - 1)]
        /\ ReadsMissingItem(command.problem, Partials) <=> Missing
    BY <1>6, PartialsAreWhole DEF AggregateAndWrite, IInv, Course, Fate
  <2>2. CASE Missing
    BY <1>2, <1>6, <2>1, <2>2 DEF AggregateAndWrite, ending
  <2>3. CASE ~ Missing
    <3>1. output' = IF command.writable THEN Written(Aggregate(command.problem, Partials))
                    ELSE NotWritten
      BY <1>6, <2>1, <2>3 DEF AggregateAndWrite
    <3>2. output'.written => output'.items = Aggregate(command.problem, Partials)
      BY <3>1 DEF Written, NotWritten
    <3> QED BY <1>1, <2>1, <2>3, <3>2 DEF Answered
  <2> QED BY <2>2, <2>3
<1> QED BY <1>3, <1>4, <1>5, <1>6 DEF Next, Main

(* What the workers decrypt are their results.                              *)
LEMMA PartsDecrypted ==
  ASSUME command \in Accepted, Parts = threadNum,
         Shared(command.problem, threadNum, command.size, command.items)
  PROVE  [k \in 1 .. Parts |-> Decrypted(k - 1)]
           = Partial(Division[command], command.problem, threadNum)
<1>1. ASSUME NEW k \in 1 .. threadNum
      PROVE  Decrypted(k - 1) = WorkerResult(Division[command], command.problem, k)
  <2> DEFINE r == WorkerResult(Division[command], command.problem, k)
  <2>1. Result(k - 1) = r
    BY AcceptedCommand, ResultIs
  <2>2. PICK n \in Nat : HasLength(r, n)
    BY AcceptedCommand, WorkerLeavesList
  <2> HIDE DEF r
  <2>3. r \in Seq({r[j] : j \in 1 .. n})
    <3>1. r = [j \in 1 .. n |-> r[j]]
      BY <2>2, Zenon DEF HasLength
    <3>2. [j \in 1 .. n |-> r[j]] \in Seq({r[j] : j \in 1 .. n})
      OBVIOUS
    <3> QED BY <3>1, <3>2, Zenon
  <2>4. <<>> \o r = r
    BY <2>3
  <2> QED BY <2>1, <2>4, Zenon DEF Decrypted, Unset, r
<1> QED BY <1>1, Zenon DEF Partial

(* A successful run with at least one thread writes what the workload        *)
(* promises, however divide() has cut the input and whichever thread comes   *)
(* first (the six classes, lines 47-605, and main, lines 745-889), for every *)
(* problem, size, number of threads and input.                               *)
THEOREM AnswersAreRight == Spec => []OutputIsTheAnswer
<1>1. Answered => OutputIsTheAnswer
  <2> SUFFICES ASSUME Answered, output.written, threadNum > 0
               PROVE  Polynomials(output.items) = Reference(command.problem, command.size)
    BY DEF OutputIsTheAnswer
  <2> DEFINE problem == command.problem
             w == threadNum
             p == command.size
             items == command.items
             d == Division[command]
  <2>1. /\ command \in Accepted /\ Whole /\ ~ Missing
        /\ output.items = Aggregate(problem, [k \in 1 .. Parts |-> Decrypted(k - 1)])
    BY DEF Answered
  <2>2. /\ problem \in Problems /\ w \in Nat /\ p \in Nat /\ items \in Nat
        /\ 2 ^ SizeBits \in Nat /\ p * p < 2 ^ SizeBits
        /\ d = Divide(problem, w, p, items)
    BY <2>1, AcceptedCommand
  <2>3. d.ends = "returns" /\ w <= Len(d.parts) /\ Parts = Len(d.parts)
    BY <2>1 DEF Whole, Parts
  <2>4. problem = "real_statistics" /\ Shared(problem, w, p, items) =>
          (w - 1) * PerWorker(w, p) < p
    BY <2>1, MissingExactlyWhenRowless DEF LastHasRows
  <2>5. Shared(problem, w, p, items) /\ Len(d.parts) = w =>
          [k \in 1 .. Parts |-> Decrypted(k - 1)] = Partial(d, problem, w)
    BY <2>1, <2>3, PartsDecrypted
  <2>6. w > 0
    OBVIOUS
  <2> HIDE DEF problem, w, p, items, d
  <2>7. Shared(problem, w, p, items) /\ Len(d.parts) = w
    BY <2>2, <2>3, <2>6, DivideShares
  <2>8. Polynomials(Aggregate(problem, Partial(d, problem, w))) = Reference(problem, p)
    BY <2>2, <2>4, <2>7, AnswerOfShares
  <2> QED BY <2>1, <2>5, <2>7, <2>8, Zenon DEF problem, p
<1>2. Init => Answered
  BY AnsweredInitially
<1>3. IInv /\ Fate /\ Answered /\ [Next]_vars => Answered'
  BY AnsweredStays
<1> QED BY <1>1, <1>2, <1>3, Inductive, FateInitially, FateStays, PTL DEF Spec
=============================================================================
