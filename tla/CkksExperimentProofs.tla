-------------------------- MODULE CkksExperimentProofs --------------------------
(***************************************************************************)
(* Proofs about CkksExperiment: a monitor never watches what was there     *)
(* before its own run, because a run takes all of its processes with it;   *)
(* ckks_utils, asked by hand, computes what it is asked for; and what the  *)
(* experiment shows is what example_input expects, by any number of        *)
(* threads, and is this run's when the utility can serve it.               *)
(***************************************************************************)
EXTENDS CkksExperiment, ExampleProblemsProofs

ProcessName == {"ckks_utils", "pckks_utils", "mage"}

\* A process, or Nobody.
ProcessOf == [run : Nat, part : Nat, name : ProcessName \cup {"none"},
              tool : Tools \cup {"unknown", "none"}]

\* The monitors of the runs so far, and of none to come.
MonitorOf == [state : {"off", "looking", "watching", "gone"},
              target : {"none", "mage", "ckks_utils"}, of : ProcessOf]
Watching == MonitorNeverBehind /\ \A r \in Runs : r > run => monitor[r].state = "off"

\* No process is left over when the script is not running, and the counter of
\* launches stays within what is to be launched.
Course ==
  /\ pc = "idle" => procs = {}
  /\ pc # "idle" => run > 0 /\ tool \in Tools
  /\ pc \in {"generate", "monitor"} => launched = 0
  /\ pc = "tool" => launched < Len(passes)
  /\ pc = "plan" => launched < threads
  /\ launched <= MaxThreads + 1

IInv ==
  /\ TypeOK /\ launched \in Nat
  /\ procs \in SUBSET ProcessOf
  /\ monitor \in [Runs -> MonitorOf]
  /\ Watching /\ Course

-----------------------------------------------------------------------------
(* The steps.                                                              *)

LEMMA NobodyIsNot == Nobody \in ProcessOf /\ Nobody.name = "none" /\ Nobody.run = 0
BY DEF Nobody, ProcessOf

LEMMA NoFileIsOK == FileOK(NoFile)
<1>1. NoFile.there = FALSE /\ NoFile.by = Nobody
  BY DEF NoFile
<1>2. NoFile.by.run \in 0 .. MaxRuns
  BY <1>1, NobodyIsNot, ExperimentAssumption
<1> QED
  BY <1>1, <1>2, Zenon DEF FileOK

(* At most two passes, told apart by their numbers, and one at least of a run *)
(* that has any.                                                              *)
LEMMA PassesAre ==
  ASSUME NEW of \in Tools \cup {"unknown"}, NEW asked \in Passes(of)
  PROVE  /\ asked \in Seq(1 .. 2) /\ Len(asked) \in 0 .. 2
         /\ of \in {"osprey", "baseline"} => Len(asked) > 0
         /\ \A i, j \in 1 .. Len(asked) : asked[i] = asked[j] => i = j
<1>1. asked \in {<<1, 2>>, <<1>>, <<2>>, <<>>} /\ (asked = <<>> => of \notin {"osprey", "baseline"})
  BY DEF Passes, Tools
<1>2. CASE asked = <<1, 2>>
  BY <1>2
<1>3. CASE asked = <<1>>
  BY <1>3
<1>4. CASE asked = <<2>>
  BY <1>4
<1>5. CASE asked = <<>>
  BY <1>1, <1>5
<1> QED
  BY <1>1, <1>2, <1>3, <1>4, <1>5

LEMMA InitInvariant == Init => IInv
<1> SUFFICES ASSUME Init PROVE IInv
  OBVIOUS
<1>1. monitor \in [Runs -> MonitorOf] /\ \A r \in Runs : monitor[r].state = "off"
  <2>1. NoMonitor \in MonitorOf /\ NoMonitor.state = "off"
    BY NobodyIsNot DEF NoMonitor, MonitorOf
  <2> QED
    BY <2>1 DEF Init
<1>2. TypeOK
  <2>1. /\ run \in 0 .. MaxRuns /\ threads \in 1 .. MaxThreads
        /\ launched \in 0 .. MaxThreads + 1 /\ procs = {}
    BY ExperimentAssumption DEF Init
  <2>2. unlucky \in BOOLEAN /\ FileOK(output) /\ FileOK(shown)
    BY NoFileIsOK, Zenon DEF Init
  <2>3. passes \in Passes(tool) /\ written \in [1 .. 2 -> Nat \cup {NotOpen}]
    BY DEF Init, Passes
  <2> QED
    BY <1>1, <2>1, <2>2, <2>3 DEF Init, TypeOK, Tools
<1>3. Watching /\ Course
  BY <1>1, ExperimentAssumption DEF Init, Watching, MonitorNeverBehind, Course
<1> QED
  BY <1>1, <1>2, <1>3 DEF Init, IInv

(* A new run finds no process left over, and no monitor of its own.         *)
LEMMA LaunchInvariant == IInv /\ Launch => IInv'
<1> SUFFICES ASSUME IInv, Launch PROVE IInv'
  OBVIOUS
<1>1. procs = {} /\ procs' = {} /\ run \in 0 .. MaxRuns /\ run' = run + 1 /\ run < MaxRuns
  BY DEF IInv, Course, Launch, TypeOK
<1>2. TypeOK'
  <2>1. FileOK(output)' /\ FileOK(shown)'
    BY NoFileIsOK DEF IInv, TypeOK, Launch, FileOK
  <2>2. unlucky' \in BOOLEAN
    BY Zenon DEF Launch
  <2>3. /\ run' \in 0 .. MaxRuns /\ launched' \in 0 .. MaxThreads + 1
        /\ pc' \in {"idle", "generate"} /\ (pc' = "generate" => tool' \in Tools)
    BY <1>1, ExperimentAssumption DEF Launch
  <2>4. passes' \in Passes(tool') /\ written' \in [1 .. 2 -> Nat \cup {NotOpen}]
    BY DEF Launch
  <2>5. Passes(tool)' = Passes(tool')
    BY DEF Passes
  <2> QED
    BY <1>1, <2>1, <2>2, <2>3, <2>4, <2>5 DEF IInv, Launch, TypeOK
<1>3. Watching'
  BY <1>1 DEF IInv, Launch, Watching, MonitorNeverBehind, Runs
<1>4. Course'
  BY <1>1, <1>2, ExperimentAssumption DEF IInv, Launch, Course, Tools, TypeOK
<1> QED
  BY <1>1, <1>2, <1>3, <1>4 DEF IInv, Launch

LEMMA GenerateInvariant == IInv /\ Generate => IInv'
<1> SUFFICES ASSUME IInv, Generate PROVE IInv'
  OBVIOUS
<1>1. UNCHANGED <<setup, launched, procs, unlucky, monitor, file, shown, hand>>
      /\ pc = "generate" /\ pc' = "monitor"
  BY DEF Generate
<1>2. TypeOK' /\ Watching' /\ Course'
  BY <1>1 DEF IInv, TypeOK, Watching, MonitorNeverBehind, Course, setup, file, FileOK, Passes
<1> QED
  BY <1>1, <1>2 DEF IInv, setup

LEMMA StartMonitorInvariant == IInv /\ StartMonitor => IInv'
<1> SUFFICES ASSUME IInv, StartMonitor PROVE IInv'
  OBVIOUS
<1>1. UNCHANGED <<setup, launched, procs, unlucky, garbler, file, shown, hand>>
      /\ pc = "monitor" /\ pc' = IF tool = "mage" THEN "plan" ELSE "tool"
  BY DEF StartMonitor
<1>2. run \in Runs
  BY <1>1, ExperimentAssumption DEF IInv, TypeOK, Course, Runs
<1>3. PICK m \in MonitorOf : /\ monitor' = [monitor EXCEPT ![run] = m]
                              /\ m.state = "looking"
  <2> DEFINE m == [state |-> "looking", target |-> Target, of |-> Nobody]
  <2>1. m \in MonitorOf /\ m.state = "looking"
    BY NobodyIsNot DEF MonitorOf, Target
  <2> QED
    BY <2>1 DEF StartMonitor
<1>4. monitor' \in [Runs -> MonitorOf]
  BY <1>3 DEF IInv
<1>5. \A r \in Runs : monitor'[r] = IF r = run THEN m ELSE monitor[r]
  BY <1>3 DEF IInv
<1>6. TypeOK'
  BY <1>1, <1>3, <1>5 DEF IInv, TypeOK, setup, file, FileOK, Passes
<1>7. Watching'
  BY <1>1, <1>2, <1>3, <1>5 DEF IInv, Watching, MonitorNeverBehind, setup, Runs
<1>8. Course'
  <2>1. tool \in Tools /\ passes \in Passes(tool)
    BY <1>1 DEF IInv, Course, TypeOK
  <2>2. tool # "mage" => Len(passes) > 0
    BY <2>1, PassesAre DEF Tools
  <2> QED
    BY <1>1, <2>2, ExperimentAssumption DEF IInv, TypeOK, Course, setup
<1> QED
  BY <1>1, <1>4, <1>6, <1>7, <1>8 DEF IInv, setup

(* What is started is of the run that is under way.                         *)
LEMMA StartPassInvariant == IInv /\ StartPass => IInv'
<1> SUFFICES ASSUME IInv, StartPass PROVE IInv'
  OBVIOUS
<1>1. /\ UNCHANGED <<setup, unlucky, monitor, garbler, file, shown, hand>>
      /\ pc = "tool" /\ launched < Len(passes) /\ launched' = launched + 1
      /\ pc' = IF launched' = Len(passes) THEN "wait" ELSE "tool"
      /\ procs' = procs \cup {Process(Utility, passes[launched'])}
  BY DEF StartPass
<1>2. /\ launched' \in Nat /\ launched' <= Len(passes) /\ Len(passes) <= MaxThreads + 1
      /\ passes[launched'] \in 1 .. 2 /\ passes' = passes
  <2>1. passes \in Seq(1 .. 2) /\ Len(passes) \in 0 .. 2
    BY PassesAre DEF IInv, TypeOK
  <2>2. launched \in Nat
    BY DEF IInv
  <2>3. launched' \in 1 .. Len(passes) /\ Len(passes) <= MaxThreads + 1
    <3>1. launched' = launched + 1 /\ launched < Len(passes)
      BY <1>1
    <3>2. PICK n \in 0 .. 2 : n = Len(passes)
      BY <2>1
    <3>3. MaxThreads \in Nat \ {0}
      BY ExperimentAssumption
    <3>4. n <= MaxThreads + 1
      BY <3>2, <3>3
    <3>5. launched + 1 \in 1 .. n
      BY <2>2, <3>1, <3>2
    <3> QED
      BY <3>1, <3>2, <3>4, <3>5
  <2>4. passes[launched'] \in 1 .. 2
    BY <2>1, <2>3
  <2>5. passes' = passes
    BY <1>1 DEF setup
  <2> QED
    BY <2>1, <2>3, <2>4, <2>5
<1>3. PICK q : q = Process(Utility, passes[launched'])
  OBVIOUS
<1>4. q \in ProcessOf
      /\ q.run = run /\ q.name \in ProcessName
  BY <1>1, <1>2, <1>3, ExperimentAssumption
     DEF IInv, TypeOK, Process, ProcessOf, Utility, ProcessName
<1>5. TypeOK'
  <2>1. \A p \in procs' : p.run = run' /\ p.name \in ProcessName
    BY <1>1, <1>3, <1>4 DEF IInv, TypeOK, setup, ProcessName
  <2>2. FileOK(output)' /\ FileOK(shown)'
    BY <1>1 DEF IInv, TypeOK, FileOK, setup, file
  <2>3. launched' \in 0 .. MaxThreads + 1 /\ pc' \in {"tool", "wait"}
    BY <1>1, <1>2, ExperimentAssumption
  <2> QED
    BY <1>1, <2>1, <2>2, <2>3 DEF IInv, TypeOK, setup, file, ProcessName, Passes
<1>6. Watching'
  BY <1>1 DEF IInv, Watching, MonitorNeverBehind, setup
<1>7. Course'
  <2>1. launched' <= MaxThreads + 1 /\ (pc' = "tool" => launched' < Len(passes'))
    BY <1>1, <1>2, ExperimentAssumption
  <2> QED
    BY <1>1, <2>1 DEF IInv, Course, setup
<1> QED
  BY <1>1, <1>2, <1>3, <1>4, <1>5, <1>6, <1>7 DEF IInv, setup

LEMMA GiveUpInvariant == IInv /\ GiveUp => IInv'
<1> SUFFICES ASSUME IInv, GiveUp PROVE IInv'
  OBVIOUS
<1>1. UNCHANGED <<setup, launched, procs, monitor, garbler, file, shown, hand>>
      /\ pc = "tool" /\ pc' = "wait"
  BY DEF GiveUp
<1>2. unlucky' \in BOOLEAN
  BY Zenon DEF GiveUp
<1>3. TypeOK' /\ Watching' /\ Course'
  BY <1>1, <1>2 DEF IInv, TypeOK, Watching, MonitorNeverBehind, Course, setup, file, FileOK, Passes
<1> QED
  BY <1>1, <1>3 DEF IInv, setup

LEMMA StartMageInvariant == IInv /\ StartMage => IInv'
<1> SUFFICES ASSUME IInv, StartMage PROVE IInv'
  OBVIOUS
<1>1. /\ UNCHANGED <<setup, unlucky, monitor, garbler, file, shown, hand>>
      /\ pc = "plan" /\ launched' = launched + 1
      /\ pc' = IF launched' = threads THEN "wait" ELSE "plan"
      /\ procs' = procs \cup {Process("mage", launched)}
  BY DEF StartMage
<1>2. launched' \in Nat /\ launched' <= threads /\ threads \in 1 .. MaxThreads
  BY <1>1, ExperimentAssumption DEF IInv, TypeOK, Course
<1>3. PICK q : q = Process("mage", launched)
  OBVIOUS
<1>4. q \in ProcessOf
      /\ q.run = run /\ q.name \in ProcessName
  BY <1>1, <1>2, <1>3, ExperimentAssumption DEF IInv, TypeOK, Process, ProcessOf, ProcessName
<1>5. TypeOK'
  <2>1. \A p \in procs' : p.run = run' /\ p.name \in ProcessName
    BY <1>1, <1>3, <1>4 DEF IInv, TypeOK, setup, ProcessName
  <2>2. FileOK(output)' /\ FileOK(shown)'
    BY <1>1 DEF IInv, TypeOK, FileOK, setup, file
  <2>3. launched' \in 0 .. MaxThreads + 1 /\ pc' \in {"plan", "wait"}
    BY <1>1, <1>2, ExperimentAssumption
  <2> QED
    BY <1>1, <2>1, <2>2, <2>3 DEF IInv, TypeOK, setup, file, ProcessName, Passes
<1>6. Watching' /\ Course'
  BY <1>1, <1>2, ExperimentAssumption
     DEF IInv, TypeOK, Watching, MonitorNeverBehind, Course, setup
<1> QED
  BY <1>1, <1>2, <1>3, <1>4, <1>5, <1>6 DEF IInv, setup

(* What a process writes is of its own run, and what it leaves, it leaves.   *)
LEMMA ProcessInvariant ==
  ASSUME IInv, NEW p \in procs, Pass(p) \/ EndMage(p)
  PROVE  IInv'
<1>1. UNCHANGED <<setup, launched, monitor, garbler, shown, hand>>
  BY DEF Pass, EndMage
<1>2. /\ pc \in {"tool", "plan", "wait"} /\ (pc' = pc \/ pc' = "lost")
      /\ procs' \in {procs, procs \ {p}}
  BY DEF Pass, EndMage, PassOpens, PassWrites, PassEnds, PassIsLost
<1>3. unlucky' \in BOOLEAN
  <2>1. unlucky' = unlucky \/ unlucky' \in BOOLEAN
    BY Zenon DEF Pass, EndMage, PassOpens, PassWrites, PassEnds, PassIsLost, file
  <2> QED
    BY <2>1 DEF IInv, TypeOK
<1>4. \/ output' = output
      \/ output'.there = TRUE /\ output'.by = p
      \/ output'.there = output.there /\ output'.by = output.by
  <2>1. CASE EndMage(p)
    BY <2>1 DEF EndMage
  <2>2. CASE Pass(p) /\ (PassEnds(p) \/ PassIsLost(p))
    BY <2>2 DEF PassEnds, PassIsLost, file
  <2>3. CASE Pass(p) /\ PassOpens(p)
    BY <2>3 DEF PassOpens
  <2>4. CASE Pass(p) /\ PassWrites(p)
    <3>1. \E items : output' = [there |-> output.there, items |-> items, by |-> output.by]
      BY <2>4, Zenon DEF PassWrites
    <3> QED BY <3>1
  <2> QED
    BY <2>1, <2>2, <2>3, <2>4 DEF Pass
<1>5. p.run = run /\ p.name \in ProcessName /\ run \in 0 .. MaxRuns
  BY DEF IInv, TypeOK, ProcessName
<1>6. FileOK(output)' /\ FileOK(shown)'
  <2>1. p # Nobody
    BY <1>5 DEF Nobody, ProcessName
  <2> QED
    BY <1>1, <1>4, <1>5, <2>1 DEF IInv, TypeOK, FileOK
<1>7. written' \in [1 .. 2 -> Nat \cup {NotOpen}]
  <2>1. written' = written \/ written' = [written EXCEPT ![p.part] = 0]
        \/ (written[p.part] \in 0 .. Len(Numbers) - 1
            /\ written' = [written EXCEPT ![p.part] = @ + 1])
    BY Zenon DEF Pass, EndMage, PassOpens, PassWrites, PassEnds, PassIsLost, file
  <2> QED
    BY <2>1 DEF IInv, TypeOK
<1>8. TypeOK'
  BY <1>1, <1>2, <1>3, <1>6, <1>7 DEF IInv, TypeOK, setup, Passes
<1>9. Watching' /\ Course'
  BY <1>1, <1>2 DEF IInv, Watching, MonitorNeverBehind, Course, setup
<1> QED
  BY <1>1, <1>2, <1>8, <1>9 DEF IInv, setup

LEMMA ShowInvariant == IInv /\ Show => IInv'
<1> SUFFICES ASSUME IInv, Show PROVE IInv'
  OBVIOUS
<1>1. UNCHANGED <<setup, launched, procs, unlucky, monitor, garbler, file, hand>>
      /\ pc' = "idle" /\ procs = {} /\ shown' = output
  BY DEF Show
<1>2. TypeOK' /\ Watching' /\ Course'
  BY <1>1 DEF IInv, TypeOK, Watching, MonitorNeverBehind, Course, setup, file, FileOK, Passes
<1> QED
  BY <1>1, <1>2 DEF IInv, setup

(* A monitor that looks belongs to a run that has begun, and what it finds   *)
(* to the run that is under way; letting go forgets nothing.                 *)
LEMMA MonitorInvariant ==
  ASSUME IInv, NEW r \in Runs, Look(r) \/ LetGo(r)
  PROVE  IInv'
<1>1. UNCHANGED <<setup, pc, launched, procs, unlucky, garbler, file, shown, hand>>
  BY DEF Look, LetGo
<1>2. r <= run /\ run \in Nat /\ r \in Nat
  BY ExperimentAssumption DEF Look, LetGo, IInv, Watching, TypeOK, Runs
<1>3. PICK m \in MonitorOf : /\ monitor' = [monitor EXCEPT ![r] = m]
                              /\ m.of.run >= r
  <2>1. CASE Look(r)
    <3>1. PICK p \in procs :
            monitor' = [monitor EXCEPT ![r].state = "watching", ![r].of = p]
      BY <2>1 DEF Look
    <3>2. p \in ProcessOf /\ p.run = run
      BY DEF IInv, TypeOK
    <3>3. monitor[r] \in MonitorOf /\ monitor \in [Runs -> MonitorOf]
      BY DEF IInv
    <3> DEFINE m == [monitor[r] EXCEPT !.state = "watching", !.of = p]
    <3>4. m \in MonitorOf /\ m.of = p
      BY <3>2, <3>3 DEF MonitorOf
    <3>5. monitor' = [monitor EXCEPT ![r] = m]
      BY <3>1, <3>3 DEF MonitorOf
    <3> QED
      BY <1>2, <3>2, <3>4, <3>5
  <2>2. CASE LetGo(r)
    <3>1. monitor[r] \in MonitorOf /\ monitor \in [Runs -> MonitorOf]
      BY DEF IInv
    <3> DEFINE m == [monitor[r] EXCEPT !.state = "gone"]
    <3>2. m \in MonitorOf /\ m.of = monitor[r].of
      BY <3>1 DEF MonitorOf
    <3>3. monitor' = [monitor EXCEPT ![r] = m]
      BY <2>2, <3>1 DEF LetGo
    <3>4. monitor[r].of.run >= r
      BY <2>2 DEF LetGo, IInv, Watching, MonitorNeverBehind
    <3> QED
      BY <3>2, <3>3, <3>4
  <2> QED
    BY <2>1, <2>2
<1>4. monitor' \in [Runs -> MonitorOf]
  BY <1>3 DEF IInv
<1>5. \A q \in Runs : monitor'[q] = IF q = r THEN m ELSE monitor[q]
  BY <1>3 DEF IInv
<1>6. m.state \in {"off", "looking", "watching", "gone"}
  BY <1>3 DEF MonitorOf
<1>7. TypeOK'
  BY <1>1, <1>5, <1>6 DEF IInv, TypeOK, setup, file, FileOK, Passes
<1>8. Watching' /\ Course'
  BY <1>1, <1>2, <1>3, <1>5
     DEF IInv, Watching, MonitorNeverBehind, Course, setup, Runs
<1> QED
  BY <1>1, <1>4, <1>7, <1>8 DEF IInv, setup

LEMMA HandInvariant == IInv /\ (CkksByHand \/ PlannerByHand) => IInv'
<1> SUFFICES ASSUME IInv, CkksByHand \/ PlannerByHand PROVE IInv'
  OBVIOUS
<1>1. UNCHANGED <<setup, pc, launched, procs, unlucky, monitor, garbler, file, shown>>
  BY DEF CkksByHand, PlannerByHand
<1> QED
  BY <1>1 DEF IInv, TypeOK, Watching, MonitorNeverBehind, Course, setup, file, FileOK, Passes

LEMMA NextInvariant == IInv /\ [Next]_vars => IInv'
<1> SUFFICES ASSUME IInv, [Next]_vars PROVE IInv'
  OBVIOUS
<1>1. CASE UNCHANGED vars
  BY <1>1 DEF IInv, TypeOK, Watching, MonitorNeverBehind, Course, Passes, FileOK, vars
<1>2. CASE Script
  BY <1>2, LaunchInvariant, GenerateInvariant, StartMonitorInvariant, StartPassInvariant,
     GiveUpInvariant, StartMageInvariant, ShowInvariant DEF Script
<1>3. CASE Passing
  BY <1>3, ProcessInvariant DEF Passing
<1>4. CASE \E r \in Runs : Look(r) \/ LetGo(r)
  BY <1>4, MonitorInvariant
<1>5. CASE CkksByHand \/ PlannerByHand
  BY <1>5, HandInvariant
<1> QED
  BY <1>1, <1>2, <1>3, <1>4, <1>5 DEF Next

-----------------------------------------------------------------------------
(* The theorems.                                                           *)

(* The invariant of every run of the experiment, of any number of scripts    *)
(* one after another.                                                        *)
THEOREM Invariant == Spec => []IInv
BY InitInvariant, NextInvariant, PTL DEF Spec

(* The variables are what the script, the processes and the disk can hold:   *)
(* in particular, every process is one of the run that is under way.         *)
THEOREM TypeCorrect == Spec => []TypeOK
<1>1. IInv => TypeOK
  BY DEF IInv
<1> QED
  BY <1>1, Invariant, PTL

(* The memory a monitor writes down (ckks.sh:101-125) is of a process of its *)
(* own run or of a later one, though nothing waits for the monitors.         *)
THEOREM NeverBehind == Spec => []MonitorNeverBehind
<1>1. IInv => MonitorNeverBehind
  BY DEF IInv, Watching
<1> QED
  BY <1>1, Invariant, PTL

-----------------------------------------------------------------------------
(* What ckks_utils adds up.                                                *)

LEMMA SigmaIs ==
  ASSUME NEW n \in Nat, NEW s, s = [k \in 1 .. n |-> s[k]], \A k \in 1 .. n : s[k] \in Int
  PROVE  \E h : Sums(n, s, h) /\ Sigma(s) = h[n]
<1> DEFINE h == CHOOSE h : AddedUp(n, s, h)
<1>1. AddedUp(n, s, h)
  BY AddedUpExists, Zenon
<1>2. Len(s) = n
  BY LengthOf
<1>3. Sigma(s) = h[n]
  BY <1>2, Zenon DEF Sigma, AddedUp
<1> HIDE DEF h
<1> QED BY <1>1, <1>3, AddedUpIs

LEMMA SigmaIsInt ==
  ASSUME NEW n \in Nat, NEW s, s = [k \in 1 .. n |-> s[k]], \A k \in 1 .. n : s[k] \in Int
  PROVE  Sigma(s) \in Int
<1>1. PICK h : Sums(n, s, h) /\ Sigma(s) = h[n]
  BY SigmaIs
<1> QED BY <1>1 DEF Sums

(* The tiles of a dot product begin so far apart, and the last may be short. *)
TileStart(p, b) == IF b * CkksTile <= p THEN b * CkksTile ELSE p

LEMMA TilesCover ==
  ASSUME NEW p \in Nat
  PROVE  LET n == (p + CkksTile - 1) \div CkksTile
         IN  /\ n \in Nat /\ TileStart(p, 0) = 0 /\ TileStart(p, n) = p
             /\ \A b \in 0 .. n : TileStart(p, b) \in 0 .. p
             /\ \A b \in 1 .. n : /\ TileStart(p, b - 1) = (b - 1) * CkksTile
                                  /\ TileWidth(p, (b - 1) * CkksTile) \in Nat
                                  /\ TileStart(p, b - 1) + TileWidth(p, (b - 1) * CkksTile)
                                       = TileStart(p, b)
<1> DEFINE n == (p + CkksTile - 1) \div CkksTile
<1>1. CkksTile \in Nat \ {0}
  BY TileAssumption
<1>2. PICK t \in Nat \ {0} : t = CkksTile
  BY <1>1
<1>3. n \in Nat /\ n * t <= p + t - 1 /\ p + t - 1 < (n + 1) * t
  <2>1. p + t - 1 \in Nat
    BY <1>2
  <2>2. n \in Nat
    BY <1>2, <2>1, Euclid
  <2> QED BY <1>2, <2>1, <2>2, QuotientBounds
<1> HIDE DEF n
<1>4. (n + 1) * t = n * t + t /\ n * t \in Nat
  BY <1>3
<1>5. p <= n * t
  BY <1>3, <1>4
<1>6. 0 * t = 0
  OBVIOUS
<1>7. \A b \in 0 .. n : b * t \in Nat
  BY <1>3
<1>8. ASSUME NEW b \in 1 .. n
      PROVE  (b - 1) * t < p /\ b * t = (b - 1) * t + t /\ (b - 1) * t \in Nat
  <2>1. b - 1 \in Nat /\ b - 1 <= n - 1 /\ n - 1 \in Nat
    BY <1>3
  <2>2. (b - 1) * t <= (n - 1) * t
    BY <2>1
  <2>3. (n - 1) * t = n * t - t
    BY <1>3
  <2>4. (b - 1) * t \in Nat /\ b * t = (b - 1) * t + t
    BY <1>3
  <2> QED BY <1>3, <1>4, <2>2, <2>3, <2>4
<1>9. TileStart(p, 0) = 0 /\ TileStart(p, n) = p
  BY <1>2, <1>3, <1>4, <1>5, <1>6 DEF TileStart
<1>10. \A b \in 0 .. n : TileStart(p, b) \in 0 .. p
  BY <1>2, <1>7 DEF TileStart
<1>11. ASSUME NEW b \in 1 .. n
       PROVE  /\ TileStart(p, b - 1) = (b - 1) * t /\ TileWidth(p, (b - 1) * t) \in Nat
              /\ TileStart(p, b - 1) + TileWidth(p, (b - 1) * t) = TileStart(p, b)
  BY <1>2, <1>8 DEF TileStart, TileWidth
<1> QED BY <1>2, <1>3, <1>9, <1>10, <1>11 DEF n

-----------------------------------------------------------------------------
(* The workloads, of any input of integers that is long enough.            *)

LEMMA FirstIs ==
  ASSUME NEW v \in Seq(Int), NEW n \in Nat, n <= Len(v)
  PROVE  First(v, n) = [k \in 1 .. n |-> v[k]] /\ \A k \in 1 .. n : v[k] \in Int
BY DEF First

LEMMA RestIs ==
  ASSUME NEW v \in Seq(Int), NEW n \in Nat, n <= Len(v)
  PROVE  \A k \in 1 .. Len(v) - n : Rest(v, n)[k] = v[n + k]
BY DEF Rest

\* Row i of a matrix that begins behind the first n numbers.
LEMMA RowIs ==
  ASSUME NEW v \in Seq(Int), NEW n \in Nat, NEW p \in Nat, NEW i \in 0 .. p - 1,
         n + p * p <= Len(v)
  PROVE  /\ i * p \in Nat
         /\ RowAt(Rest(v, n), p, i) = [k \in 1 .. p |-> v[n + i * p + k]]
         /\ \A k \in 1 .. p : n + i * p + k \in 1 .. Len(v) /\ v[n + i * p + k] \in Int
<1>1. i * p \in Nat /\ i * p + p <= p * p
  <2>1. (i + 1) * p <= p * p /\ (i + 1) * p = i * p + p
    BY Monotone
  <2> QED BY <2>1
<1>2. p * p \in Nat /\ n <= Len(v)
  OBVIOUS
<1>3. \A k \in 1 .. p : /\ i * p + k \in 1 .. Len(v) - n /\ n + i * p + k = n + (i * p + k)
                        /\ n + i * p + k \in 1 .. Len(v)
  BY <1>1, <1>2
<1>4. \A k \in 1 .. p : Rest(v, n)[i * p + k] = v[n + i * p + k]
  BY <1>2, <1>3, RestIs
<1>5. \A k \in 1 .. p : v[n + i * p + k] \in Int
  BY <1>3
<1> QED BY <1>1, <1>3, <1>4, <1>5 DEF RowAt

\* Row i of the first matrix.
LEMMA FirstRowIs ==
  ASSUME NEW v \in Seq(Int), NEW p \in Nat, NEW i \in 0 .. p - 1, p * p <= Len(v)
  PROVE  /\ i * p \in Nat
         /\ RowAt(First(v, p * p), p, i) = [k \in 1 .. p |-> v[i * p + k]]
         /\ \A k \in 1 .. p : v[i * p + k] \in Int
<1>1. i * p \in Nat /\ i * p + p <= p * p /\ p * p \in Nat
  <2>1. (i + 1) * p <= p * p /\ (i + 1) * p = i * p + p
    BY Monotone
  <2> QED BY <2>1
<1>2. \A k \in 1 .. p : i * p + k \in 1 .. p * p
  BY <1>1
<1>3. /\ First(v, p * p) = [k \in 1 .. p * p |-> v[k]]
      /\ \A k \in 1 .. p * p : v[k] \in Int
  BY <1>1, FirstIs
<1>4. \A k \in 1 .. p : First(v, p * p)[i * p + k] = v[i * p + k] /\ v[i * p + k] \in Int
  BY <1>2, <1>3
<1> QED BY <1>1, <1>4 DEF RowAt

\* A dot product of two stretches of the input is the inner product of the rows there.
LEMMA DotIsInner ==
  ASSUME NEW v, NEW x, NEW y, NEW n, NEW a, NEW b,
         a = [k \in 1 .. n |-> v[x + k]], b = [k \in 1 .. n |-> v[y + k]]
  PROVE  DotOf(v, x, y, n) = Inner(a, b)
<1>1. [k \in DOMAIN a |-> a[k] * b[k]] = [i \in 1 .. n |-> v[x + i] * v[y + i]]
  OBVIOUS
<1> QED BY <1>1 DEF DotOf, Inner

\* A dot product tile by tile is the dot product.
LEMMA DotByTiles ==
  ASSUME NEW p \in Nat, NEW v, NEW x \in Nat, NEW y \in Nat,
         \A k \in 1 .. p : v[x + k] \in Int /\ v[y + k] \in Int
  PROVE  LET starts == [b \in 1 .. (p + CkksTile - 1) \div CkksTile |-> (b - 1) * CkksTile]
         IN  Sigma([b \in DOMAIN starts |->
               DotOf(v, x + starts[b], y + starts[b], TileWidth(p, starts[b]))])
               = DotOf(v, x, y, p)
<1> DEFINE n == (p + CkksTile - 1) \div CkksTile
           starts == [b \in 1 .. n |-> (b - 1) * CkksTile]
           tile(b) == [i \in 1 .. TileWidth(p, starts[b]) |->
                         v[x + starts[b] + i] * v[y + starts[b] + i]]
           sums == [b \in DOMAIN starts |->
                      DotOf(v, x + starts[b], y + starts[b], TileWidth(p, starts[b]))]
           s == [k \in 1 .. p |-> v[x + k] * v[y + k]]
           cut == [b \in 0 .. n |-> TileStart(p, b)]
<1>1. /\ n \in Nat /\ TileStart(p, 0) = 0 /\ TileStart(p, n) = p
      /\ \A b \in 0 .. n : TileStart(p, b) \in 0 .. p
      /\ \A b \in 1 .. n : /\ TileStart(p, b - 1) = (b - 1) * CkksTile
                           /\ TileWidth(p, (b - 1) * CkksTile) \in Nat
                           /\ TileStart(p, b - 1) + TileWidth(p, (b - 1) * CkksTile)
                                = TileStart(p, b)
  BY TilesCover
<1>2. s = [k \in 1 .. p |-> s[k]] /\ \A k \in 1 .. p : s[k] = v[x + k] * v[y + k] /\ s[k] \in Int
  <2>1. \A a, b \in Int : a * b \in Int
    OBVIOUS
  <2>2. \A k \in 1 .. p : s[k] = v[x + k] * v[y + k]
    OBVIOUS
  <2>3. \A k \in 1 .. p : s[k] \in Int
    BY <2>1, <2>2
  <2> QED BY <2>2, <2>3
<1>3. DotOf(v, x, y, p) = Sigma(s)
  BY DEF DotOf
<1>4. DOMAIN starts = 1 .. n /\ \A b \in 1 .. n : starts[b] = (b - 1) * CkksTile
  OBVIOUS
<1>5. sums = [b \in 1 .. n |-> sums[b]] /\ \A b \in 1 .. n : sums[b] = Sigma(tile(b))
  BY DEF DotOf
<1>6. cut[0] = 0 /\ cut[n] = p /\ (\A b \in 0 .. n : cut[b] \in 0 .. p)
      /\ \A b \in 1 .. n : /\ cut[b - 1] = starts[b] /\ TileWidth(p, starts[b]) \in Nat
                           /\ cut[b - 1] + TileWidth(p, starts[b]) = cut[b]
  <2>1. 0 \in 0 .. n /\ n \in 0 .. n /\ \A b \in 1 .. n : b \in 0 .. n /\ b - 1 \in 0 .. n
    BY <1>1
  <2> QED BY <1>1, <1>4, <2>1
<1>7. PICK h : Sums(p, s, h) /\ Sigma(s) = h[p]
  BY <1>2, SigmaIs
<1> HIDE DEF n, starts, s, cut, sums
<1>8. ASSUME NEW b \in 1 .. n
      PROVE  sums[b] = h[cut[b]] - h[cut[b - 1]]
  <2>1. PICK d \in Nat, w \in Nat : d = starts[b] /\ w = TileWidth(p, starts[b]) /\ d + w <= p
                                   /\ cut[b - 1] = d /\ cut[b] = d + w
    <3>1. b - 1 \in 0 .. n /\ b \in 0 .. n
      BY <1>1
    <3> QED BY <1>6, <3>1
  <2> DEFINE t == [i \in 1 .. w |-> v[x + d + i] * v[y + d + i]]
  <2>2. tile(b) = t
    BY <2>1
  <2>3. \A i \in 1 .. w : d + i \in 1 .. p /\ x + d + i = x + (d + i) /\ y + d + i = y + (d + i)
    BY <2>1
  <2>4. t = [i \in 1 .. w |-> t[i]] /\ \A i \in 1 .. w : t[i] = s[d + i] /\ t[i] \in Int
    BY <1>2, <2>3
  <2> HIDE DEF t
  <2>5. PICK g : Sums(w, t, g) /\ Sigma(t) = g[w]
    BY <2>4, SigmaIs
  <2>6. g[w] = h[d + w] - h[d]
    BY <1>7, <2>1, <2>4, <2>5, SumsOfStretch
  <2> QED BY <1>5, <2>1, <2>2, <2>5, <2>6
<1>9. \A b \in 1 .. n : sums[b] \in Int
  <2>1. \A k \in 0 .. p : h[k] \in Int
    BY <1>7 DEF Sums
  <2>2. \A b \in 1 .. n : b \in 0 .. n /\ b - 1 \in 0 .. n
    BY <1>1 DEF n
  <2>3. \A b \in 1 .. n : h[cut[b]] \in Int /\ h[cut[b - 1]] \in Int
    BY <1>6, <2>1, <2>2
  <2> QED BY <1>8, <2>3
<1>10. PICK g : Sums(n, sums, g) /\ Sigma(sums) = g[n]
  BY <1>1, <1>5, <1>9, SigmaIs DEF n
<1>11. n \in Nat
  BY <1>1 DEF n
<1>12. g[n] = h[cut[n]]
  BY <1>6, <1>7, <1>8, <1>10, <1>11, SumsOfParts
<1>13. Sigma(sums) = DotOf(v, x, y, p)
  BY <1>3, <1>6, <1>7, <1>10, <1>12
<1> QED BY <1>13 DEF n, starts, sums

\* The sums: so many rounds of them, on top of the first.
LEMMA RoundsAre ==
  ASSUME NEW p \in Nat, NEW rounds \in Nat, NEW first \in Int,
         NEW s, s = [k \in 1 .. p |-> s[k]], rounds # 0 => \A k \in 1 .. p : s[k] \in Int,
         NEW counted, counted = IF rounds = 0 THEN <<>> ELSE s
  PROVE  /\ Sigma(counted) \in Int
         /\ RoundsOf(first, rounds, s) = first + rounds * Sigma(counted)
<1>1. CASE rounds = 0
  <2>1. counted = [k \in 1 .. 0 |-> counted[k]]
    BY <1>1
  <2>2. Sigma(counted) \in Int
    <3>1. 0 \in Nat /\ \A k \in 1 .. 0 : counted[k] \in Int
      OBVIOUS
    <3> QED BY <2>1, <3>1, SigmaIsInt
  <2>3. \A n \in Int : first + 0 * n = first
    OBVIOUS
  <2> QED BY <1>1, <2>2, <2>3 DEF RoundsOf
<1>2. CASE rounds # 0
  <2>1. Sigma(s) \in Int
    BY <1>2, SigmaIsInt
  <2> QED BY <1>2, <2>1 DEF RoundsOf
<1> QED BY <1>1, <1>2

LEMMA SumsAre ==
  ASSUME NEW v \in Seq(Int), NEW p \in Nat, NEW rounds \in Nat,
         Len(v) >= (IF rounds = 0 \/ p = 0 THEN 1 ELSE p),
         NEW added, added = IF rounds = 0 THEN 0 ELSE p,
         NEW first, first = First(v, added)
  PROVE  /\ RealSumOf(v, p, rounds) = << v[1] + rounds * Sigma(first) >>
         /\ StatisticsOf(v, p, rounds)
              = << rounds * Sigma(first), rounds * Inner(first, first) >>
<1> DEFINE counted == IF rounds = 0 THEN <<>> ELSE First(v, p)
           s == [j \in 1 .. p |-> v[j]]
           q == [j \in 1 .. p |-> v[j] * v[j]]
           squares == IF rounds = 0 THEN <<>> ELSE q
<1>1. v[1] \in Int /\ v[1] * v[1] \in Int
  <2>1. v[1] \in Int
    OBVIOUS
  <2>2. \A a \in Int : a * a \in Int
    OBVIOUS
  <2> QED BY <2>1, <2>2
<1>2. rounds # 0 => First(v, p) = s /\ \A k \in 1 .. p : v[k] \in Int
  <2>1. rounds # 0 => p <= Len(v)
    OBVIOUS
  <2> QED BY <2>1, FirstIs
<1>3. rounds # 0 => \A k \in 1 .. p : v[k] * v[k] \in Int
  <2>1. \A a \in Int : a * a \in Int
    OBVIOUS
  <2> QED BY <1>2, <2>1
<1>4. counted = (IF rounds = 0 THEN <<>> ELSE s) /\ first = counted
  <2>1. rounds = 0 => first = <<>>
    BY DEF First
  <2> QED BY <1>2, <2>1
<1>5. /\ s = [k \in 1 .. p |-> s[k]] /\ (rounds # 0 => \A k \in 1 .. p : s[k] \in Int)
      /\ q = [k \in 1 .. p |-> q[k]] /\ (rounds # 0 => \A k \in 1 .. p : q[k] \in Int)
  BY <1>2, <1>3
<1>6. Inner(counted, counted) = Sigma(squares)
  <2>1. [k \in DOMAIN counted |-> counted[k] * counted[k]] = squares
    <3>1. CASE rounds = 0
      BY <3>1
    <3>2. CASE rounds # 0
      BY <1>4, <3>2
    <3> QED BY <3>1, <3>2
  <2> HIDE DEF counted, squares
  <2> QED BY <2>1 DEF Inner
<1> HIDE DEF counted, s, q
<1>7. squares = IF rounds = 0 THEN <<>> ELSE q
  OBVIOUS
<1> HIDE DEF squares
<1>8. /\ Sigma(counted) \in Int /\ Sigma(squares) \in Int
      /\ RoundsOf(v[1], rounds, s) = v[1] + rounds * Sigma(counted)
      /\ RoundsOf(v[1] * v[1], rounds, q) = v[1] * v[1] + rounds * Sigma(squares)
  <2>1. /\ Sigma(counted) \in Int
        /\ RoundsOf(v[1], rounds, s) = v[1] + rounds * Sigma(counted)
    <3>1. PICK x \in Int : x = v[1]
      BY <1>1
    <3>2. Sigma(counted) \in Int /\ RoundsOf(x, rounds, s) = x + rounds * Sigma(counted)
      BY <1>4, <1>5, RoundsAre
    <3> QED BY <3>1, <3>2
  <2>2. /\ Sigma(squares) \in Int
        /\ RoundsOf(v[1] * v[1], rounds, q) = v[1] * v[1] + rounds * Sigma(squares)
    <3>1. PICK y \in Int : y = v[1] * v[1]
      BY <1>1
    <3>2. Sigma(squares) \in Int /\ RoundsOf(y, rounds, q) = y + rounds * Sigma(squares)
      BY <1>5, <1>7, RoundsAre
    <3> QED BY <3>1, <3>2
  <2> QED BY <2>1, <2>2
<1>9. PICK a \in Int, b \in Int, x \in Int, y \in Int :
        /\ a = rounds * Sigma(counted) /\ b = rounds * Sigma(squares)
        /\ x = v[1] /\ y = v[1] * v[1]
  <2>1. \A m, n \in Int : m * n \in Int
    OBVIOUS
  <2> QED BY <1>1, <1>8, <2>1
<1>10. RealSumOf(v, p, rounds) = << x + a >>
  BY <1>8, <1>9 DEF RealSumOf, s
<1>11. StatisticsOf(v, p, rounds) = << (x + a) - x, (y + b) - y >>
  BY <1>8, <1>9, Zenon DEF StatisticsOf, s, q
<1>12. (x + a) - x = a /\ (y + b) - y = b
  OBVIOUS
<1>13. RealSumOf(v, p, rounds) = << v[1] + a >> /\ StatisticsOf(v, p, rounds) = << a, b >>
  BY <1>9, <1>10, <1>11, <1>12
<1>14. a = rounds * Sigma(first) /\ b = rounds * Inner(first, first)
  BY <1>4, <1>6, <1>9, Zenon
<1> QED BY <1>13, <1>14, Zenon

\* The product with a vector, which comes first.
LEMMA MatrixVectorIs ==
  ASSUME NEW v \in Seq(Int), NEW p \in Nat, p + p * p <= Len(v)
  PROVE  MatrixVectorOf(v, p)
           = [i \in 1 .. p |-> Inner(RowAt(Rest(v, p), p, i - 1), First(v, p))]
<1>1. ASSUME NEW i \in 1 .. p
      PROVE  DotOf(v, p + (i - 1) * p, 0, p) = Inner(RowAt(Rest(v, p), p, i - 1), First(v, p))
  <2>1. RowAt(Rest(v, p), p, i - 1) = [k \in 1 .. p |-> v[p + (i - 1) * p + k]]
    <3>1. i - 1 \in 0 .. p - 1
      OBVIOUS
    <3> QED BY <3>1, RowIs
  <2>2. First(v, p) = [k \in 1 .. p |-> v[0 + k]]
    <3>1. p * p \in Nat
      OBVIOUS
    <3>2. First(v, p) = [k \in 1 .. p |-> v[k]]
      BY <3>1, FirstIs
    <3>3. \A k \in 1 .. p : 0 + k = k
      OBVIOUS
    <3> QED BY <3>2, <3>3
  <2> QED BY <2>1, <2>2, DotIsInner
<1> QED BY <1>1 DEF MatrixVectorOf

\* The cell of an item of a product.
LEMMA CellOfItem ==
  ASSUME NEW p \in Nat, NEW k \in 1 .. p * p
  PROVE  (k - 1) \div p \in 0 .. p - 1 /\ (k - 1) % p \in 0 .. p - 1
<1>1. p # 0 /\ k - 1 \in Nat /\ k - 1 < p * p
  <2>1. p = 0 => p * p = 0
    OBVIOUS
  <2>2. p * p \in Nat
    OBVIOUS
  <2> QED BY <2>1, <2>2
<1>2. (k - 1) \div p \in Nat /\ (k - 1) % p \in 0 .. p - 1
  BY <1>1, Euclid
<1>3. (k - 1) \div p < p
  BY <1>1, QuotientBelow
<1> QED BY <1>2, <1>3

\* The products of matrices, B by columns, in one go or tile by tile.
LEMMA ProductsAre ==
  ASSUME NEW v \in Seq(Int), NEW p \in Nat, 2 * p * p <= Len(v)
  PROVE  NaiveOf(v, p) = ProductByColumns(v, p) /\ TiledOf(v, p) = ProductByColumns(v, p)
<1> DEFINE cell(k) == DotOf(v, ((k - 1) \div p) * p, p * p + ((k - 1) % p) * p, p)
           starts == [b \in 1 .. (p + CkksTile - 1) \div CkksTile |-> (b - 1) * CkksTile]
           tiles(row, col) ==
             Sigma([b \in DOMAIN starts |->
               DotOf(v, row * p + starts[b], p * p + col * p + starts[b],
                     TileWidth(p, starts[b]))])
<1>1. p * p \in Nat /\ p * p <= Len(v) /\ p * p + p * p <= Len(v)
  <2>1. p * p \in Nat /\ 2 * p * p = p * p + p * p
    OBVIOUS
  <2> QED BY <2>1
<1>2. ASSUME NEW k \in 1 .. p * p
      PROVE  /\ cell(k) = Inner(RowAt(First(v, p * p), p, (k - 1) \div p),
                                RowAt(Rest(v, p * p), p, (k - 1) % p))
             /\ tiles((k - 1) \div p, (k - 1) % p) = cell(k)
  <2>1. PICK row \in 0 .. p - 1, col \in 0 .. p - 1 : row = (k - 1) \div p /\ col = (k - 1) % p
    BY CellOfItem
  <2>2. /\ row * p \in Nat
        /\ RowAt(First(v, p * p), p, row) = [i \in 1 .. p |-> v[row * p + i]]
        /\ \A i \in 1 .. p : v[row * p + i] \in Int
    BY <1>1, FirstRowIs
  <2>3. /\ col * p \in Nat
        /\ RowAt(Rest(v, p * p), p, col) = [i \in 1 .. p |-> v[p * p + col * p + i]]
        /\ \A i \in 1 .. p : v[p * p + col * p + i] \in Int
    BY <1>1, RowIs
  <2>4. DotOf(v, row * p, p * p + col * p, p)
          = Inner(RowAt(First(v, p * p), p, row), RowAt(Rest(v, p * p), p, col))
    <3>1. PICK a, b : a = RowAt(First(v, p * p), p, row) /\ b = RowAt(Rest(v, p * p), p, col)
      OBVIOUS
    <3>2. PICK x, y : x = row * p /\ y = p * p + col * p
      OBVIOUS
    <3>3. a = [i \in 1 .. p |-> v[x + i]] /\ b = [i \in 1 .. p |-> v[y + i]]
      BY <2>2, <2>3, <3>1, <3>2
    <3>4. DotOf(v, x, y, p) = Inner(a, b)
      BY <3>3, DotIsInner
    <3> QED BY <3>1, <3>2, <3>4
  <2>5. p * p + col * p \in Nat
    BY <1>1, <2>3
  <2> QED BY <2>1, <2>2, <2>3, <2>4, <2>5, DotByTiles
<1>3. NaiveOf(v, p) = ProductByColumns(v, p)
  BY <1>2 DEF NaiveOf, ProductByColumns
<1>4. TiledOf(v, p) = [k \in 1 .. p * p |-> cell(k)]
  BY <1>2 DEF TiledOf
<1>5. TiledOf(v, p) = ProductByColumns(v, p)
  BY <1>2, <1>4 DEF ProductByColumns
<1> QED BY <1>3, <1>5

-----------------------------------------------------------------------------
(* The command by hand.                                                    *)

\* What there is of it came of one of the commands.
ByHand ==
  hand.kind = "ckks" =>
    LET c == hand.command
    IN  c \in CkksCommands /\ hand.result = CkksRun(c.argc, c.problem, c.arg, c.input)

LEMMA ByHandInitially == Init => ByHand
<1>1. NoHand.kind # "ckks"
  BY DEF NoHand
<1> QED BY <1>1, Zenon DEF Init, ByHand

LEMMA ByHandStays == ByHand /\ [Next]_vars => ByHand'
<1> SUFFICES ASSUME ByHand, [Next]_vars PROVE ByHand'
  OBVIOUS
<1>1. CASE UNCHANGED hand
  BY <1>1, Zenon DEF ByHand
<1>2. CASE CkksByHand
  <2>1. PICK c \in CkksCommands :
          hand' = [kind |-> "ckks", command |-> c,
                   result |-> CkksRun(c.argc, c.problem, c.arg, c.input)]
    BY <1>2, Zenon DEF CkksByHand
  <2>2. PICK r : r = CkksRun(c.argc, c.problem, c.arg, c.input)
    OBVIOUS
  <2>3. hand'.command = c /\ hand'.result = r
    BY <2>1, <2>2
  <2> QED BY <2>2, <2>3, Zenon DEF ByHand
<1>3. CASE PlannerByHand
  <2>1. hand'.kind = "planner"
    BY <1>3 DEF PlannerByHand
  <2>2. hand'.kind # "ckks"
    BY <2>1
  <2> QED BY <2>2, Zenon DEF ByHand
<1>4. UNCHANGED hand \/ CkksByHand \/ PlannerByHand
  BY Zenon DEF Next, vars, Script, Passing, Launch, Generate, StartMonitor, StartPass, GiveUp,
     StartMage, Show, Pass, EndMage, Look, LetGo
<1> QED BY <1>1, <1>2, <1>3, <1>4

\* How it ends.
LEMMA RunIs ==
  ASSUME NEW c \in CkksCommands, NEW got, got = CkksRun(c.argc, c.problem, c.arg, c.input),
         NEW p, p = c.arg.size, NEW rounds, rounds = IF c.arg.colon THEN c.arg.rounds ELSE p,
         NEW served \in BOOLEAN,
         served <=> c.argc = 5 /\ p # NoNumber /\ rounds # NoNumber /\ c.problem \in CkksProblems
  PROVE  /\ served => p \in Nat /\ rounds \in Nat /\ c.problem \in CkksProblems
         /\ got.how = "undefined" <=> served /\ Len(c.input) < Needs(c.problem, p, rounds)
         /\ got.how = "answers" <=>
              /\ served /\ ~ (Len(c.input) < Needs(c.problem, p, rounds))
              /\ ~ LeavesNothing(c.problem, p, rounds)
         /\ got.how = "answers" => got.items = CalculateOf(c.problem, c.input, p, rounds)
<1>1. RoundNum(c.arg) = rounds
  BY DEF RoundNum
<1>2. c.arg.size \in Nat \cup {NoNumber} /\ c.arg.rounds \in Nat \cup {NoNumber}
  BY HandAssumption
<1>3. /\ Ended("refused").how = "refused" /\ Ended("crashed").how = "crashed"
      /\ Ended("undefined").how = "undefined"
  BY DEF Ended
<1> DEFINE short == Len(c.input) < Needs(c.problem, p, rounds)
           nothing == LeavesNothing(c.problem, p, rounds)
           items == CalculateOf(c.problem, c.input, p, rounds)
<1>4. got = IF c.argc # 5 THEN Ended("refused")
            ELSE IF p = NoNumber \/ rounds = NoNumber THEN Ended("crashed")
            ELSE IF c.problem \notin CkksProblems THEN Ended("refused")
            ELSE IF short THEN Ended("undefined")
            ELSE IF nothing THEN Ended("crashed")
            ELSE [how |-> "answers", items |-> items]
  BY <1>1, Zenon DEF CkksRun
<1> HIDE DEF short, nothing, items
<1>5. served => p \in Nat /\ rounds \in Nat /\ c.problem \in CkksProblems
  BY <1>2
<1>6. CASE ~ served
  BY <1>3, <1>4, <1>6
<1>7. CASE served
  <2>1. got = IF short THEN Ended("undefined")
              ELSE IF nothing THEN Ended("crashed")
              ELSE [how |-> "answers", items |-> items]
    BY <1>4, <1>7
  <2>2. /\ got.how = "undefined" <=> short
        /\ got.how = "answers" <=> ~ short /\ ~ nothing
        /\ got.how = "answers" => got.items = items
    BY <1>3, <2>1
  <2> QED BY <1>5, <1>7, <2>2, Zenon DEF short, nothing, items
<1> QED BY <1>5, <1>6, <1>7

(* Whatever is asked of ckks_utils by hand, with any input, it reads past the *)
(* end of exactly the inputs that are too short, and otherwise computes the   *)
(* sum, with the first number in it once more, the statistics or the product  *)
(* (ckks_utils.cpp:171-430).                                                  *)
THEOREM HandIsRight == Spec => []HandAnswer
<1>1. ByHand => HandAnswer
  <2> SUFFICES ASSUME ByHand, hand.kind = "ckks" PROVE HandAnswer
    BY Zenon DEF HandAnswer
  <2> DEFINE c == hand.command
             p == c.arg.size
             rounds == IF c.arg.colon THEN c.arg.rounds ELSE p
             v == c.input
             added == IF rounds = 0 THEN 0 ELSE p
             served == c.argc = 5 /\ p # NoNumber /\ rounds # NoNumber /\ c.problem \in CkksProblems
             short == Len(v) < (CASE c.problem \in {"real_sum", "real_statistics"} ->
                                       IF added = 0 THEN 1 ELSE added
                                  [] c.problem = "real_matrix_vector_multiply" -> p * (p + 1)
                                  [] OTHER -> 2 * (p * p))
             nothing == c.problem = "real_statistics" /\ added = 0
             counted == First(v, added)
             sum == rounds * Sigma(counted)
             squares == rounds * Inner(counted, counted)
             got == hand.result.items
             right == CASE c.problem = "real_sum" -> got = << v[1] + sum >>
                        [] c.problem = "real_statistics" -> got = <<sum, squares>>
                        [] c.problem = "real_matrix_vector_multiply" ->
                             got = [i \in 1 .. p |->
                                      Inner(RowAt(Rest(v, p), p, i - 1), First(v, p))]
                        [] OTHER -> got = ProductByColumns(v, p)
  <2>1. c \in CkksCommands /\ hand.result = CkksRun(c.argc, c.problem, c.arg, c.input)
    BY Zenon DEF ByHand
  <2>2. v \in Seq(Int)
    BY <2>1, HandAssumption
  <2>3. /\ served => p \in Nat /\ rounds \in Nat /\ c.problem \in CkksProblems
        /\ hand.result.how = "undefined" <=> served /\ Len(v) < Needs(c.problem, p, rounds)
        /\ hand.result.how = "answers" <=>
             /\ served /\ ~ (Len(v) < Needs(c.problem, p, rounds))
             /\ ~ LeavesNothing(c.problem, p, rounds)
        /\ hand.result.how = "answers" => got = CalculateOf(c.problem, v, p, rounds)
    <3> HIDE DEF c
    <3>0. PICK b \in BOOLEAN : b <=> served
      OBVIOUS
    <3>1. PICK q, n, r : q = p /\ n = rounds /\ r = hand.result
      OBVIOUS
    <3>2. /\ b => q \in Nat /\ n \in Nat /\ c.problem \in CkksProblems
          /\ r.how = "undefined" <=> b /\ Len(c.input) < Needs(c.problem, q, n)
          /\ r.how = "answers" <=> /\ b /\ ~ (Len(c.input) < Needs(c.problem, q, n))
                                  /\ ~ LeavesNothing(c.problem, q, n)
          /\ r.how = "answers" => r.items = CalculateOf(c.problem, c.input, q, n)
      BY <2>1, <3>0, <3>1, RunIs
    <3> QED BY <3>0, <3>1, <3>2, Zenon
  <2> HIDE DEF c, p, rounds, v, got
  <2>4. ASSUME served PROVE (short <=> Len(v) < Needs(c.problem, p, rounds))
                            /\ (nothing <=> LeavesNothing(c.problem, p, rounds))
    <3>0. p \in Nat /\ rounds \in Nat /\ c.problem \in CkksProblems
      BY <2>3, <2>4
    <3>1. (IF added = 0 THEN 1 ELSE added) = (IF rounds = 0 \/ p = 0 THEN 1 ELSE p)
          /\ (added = 0 <=> rounds = 0 \/ p = 0)
      BY <3>0
    <3>2. p * (p + 1) = p + p * p /\ 2 * (p * p) = 2 * p * p
      BY <3>0
    <3> HIDE DEF added
    <3>3. short <=> Len(v) < Needs(c.problem, p, rounds)
      BY <3>0, <3>1, <3>2, Zenon DEF Needs, CkksProblems
    <3> QED BY <3>1, <3>3, Zenon DEF LeavesNothing
  <2>5. ASSUME hand.result.how = "answers" PROVE right
    <3>0. p \in Nat /\ rounds \in Nat /\ c.problem \in CkksProblems
          /\ ~ (Len(v) < Needs(c.problem, p, rounds)) /\ got = CalculateOf(c.problem, v, p, rounds)
      BY <2>3, <2>5
    <3>1. CASE c.problem \in {"real_sum", "real_statistics"}
      <4>1. Needs(c.problem, p, rounds) = IF rounds = 0 \/ p = 0 THEN 1 ELSE p
        BY <3>1, Zenon DEF Needs
      <4>2. Len(v) >= IF rounds = 0 \/ p = 0 THEN 1 ELSE p
        BY <2>2, <3>0, <4>1
      <4>3. /\ RealSumOf(v, p, rounds) = << v[1] + sum >>
            /\ StatisticsOf(v, p, rounds) = <<sum, squares>>
        <5>1. PICK m, first : m = added /\ first = counted
          OBVIOUS
        <5>2. m = (IF rounds = 0 THEN 0 ELSE p) /\ first = First(v, m)
          BY <5>1
        <5>3. /\ RealSumOf(v, p, rounds) = << v[1] + rounds * Sigma(first) >>
              /\ StatisticsOf(v, p, rounds)
                   = << rounds * Sigma(first), rounds * Inner(first, first) >>
          BY <2>2, <3>0, <4>2, <5>2, SumsAre
        <5> QED BY <5>1, <5>3, Zenon
      <4> HIDE DEF sum, squares
      <4>4. c.problem = "real_sum" => got = RealSumOf(v, p, rounds)
        BY <3>0, Zenon DEF CalculateOf
      <4>5. c.problem = "real_statistics" => got = StatisticsOf(v, p, rounds)
        BY <3>0, Zenon DEF CalculateOf
      <4> QED BY <3>1, <4>3, <4>4, <4>5, Zenon
    <3>2. CASE c.problem = "real_matrix_vector_multiply"
      <4>1. Needs(c.problem, p, rounds) = p + p * p /\ got = MatrixVectorOf(v, p)
        BY <3>0, <3>2, Zenon DEF Needs, CalculateOf
      <4>2. p + p * p \in Nat /\ Len(v) \in Nat
        BY <2>2, <3>0
      <4>3. p + p * p <= Len(v)
        BY <3>0, <4>1, <4>2
      <4>4. got = [i \in 1 .. p |-> Inner(RowAt(Rest(v, p), p, i - 1), First(v, p))]
        BY <2>2, <3>0, <4>1, <4>3, MatrixVectorIs
      <4> QED BY <3>2, <4>4, Zenon
    <3>3. CASE c.problem \in {"real_naive_matrix_multiply", "real_tiled_matrix_multiply"}
      <4>1. Needs(c.problem, p, rounds) = 2 * p * p
        BY <3>3, Zenon DEF Needs
      <4>2. 2 * p * p \in Nat /\ Len(v) \in Nat
        BY <2>2, <3>0
      <4>3. 2 * p * p <= Len(v)
        BY <3>0, <4>1, <4>2
      <4>4. NaiveOf(v, p) = ProductByColumns(v, p) /\ TiledOf(v, p) = ProductByColumns(v, p)
        BY <2>2, <3>0, <4>3, ProductsAre
      <4>5. got = ProductByColumns(v, p)
        BY <3>0, <3>3, <4>4, Zenon DEF CalculateOf
      <4> QED BY <3>3, <4>5, Zenon
    <3> QED BY <3>0, <3>1, <3>2, <3>3, Zenon DEF CkksProblems
  <2> HIDE DEF short, nothing, right
  <2>6. /\ hand.result.how = "undefined" <=> served /\ short
        /\ hand.result.how = "answers" <=> served /\ ~ short /\ ~ nothing
        /\ hand.result.how = "answers" => right
    BY <2>3, <2>4, <2>5, Zenon
  <2> QED BY <2>6, Zenon DEF HandAnswer, c, p, rounds, v, got, short, nothing, right
<1> QED BY <1>1, ByHandInitially, ByHandStays, PTL DEF Spec

-----------------------------------------------------------------------------
(* The files the script's one worker gets of example_input.                *)

\* All of m items go to the first worker.
AllFirst(workers, m) == \A k \in 1 .. m : workers[k] = 0

\* What is dealt to a single worker is his file.
LEMMA OneFile ==
  ASSUME NEW kind, NEW workers, NEW values, List(values), AllFirst(workers, Len(values))
  PROVE  ItemsOf(Deal(kind, workers, values), kind, 0) = values
<1>1. PICK m \in Nat : m = Len(values)
  BY DEF List
<1> DEFINE cut == [w \in 0 .. 1 |-> IF w = 0 THEN 0 ELSE m]
<1>2. Cuts(workers, 1, m, cut)
  <2>1. cut \in [0 .. 1 -> 0 .. m] /\ cut[0] = 0 /\ cut[1] = m
    BY <1>1
  <2>2. \A k \in 1 .. m : workers[k] = 0 /\ 0 < k /\ k <= m
    BY <1>1 DEF AllFirst
  <2>3. \A w \in 0 .. 1 - 1 : w = 0 /\ w + 1 = 1
    OBVIOUS
  <2>4. 0 <= m
    BY <1>1
  <2> HIDE DEF cut
  <2> QED BY <2>1, <2>2, <2>3, <2>4 DEF Cuts
<1>3. cut[0] = 0 /\ cut[0 + 1] = m
  OBVIOUS
<1> HIDE DEF cut
<1>4. 1 \in Nat \ {0} /\ 0 \in 0 .. 1 - 1
  OBVIOUS
<1>5. ItemsOf(Deal(kind, workers, values), kind, 0) = Stretch(values, cut[0], cut[0 + 1])
  BY <1>1, <1>2, <1>4, DealtStretch
<1>6. Stretch(values, 0, m) = values
  <2>1. m - 0 = m /\ \A j \in 1 .. m : 0 + j = j
    BY <1>1
  <2>2. values = [j \in 1 .. m |-> values[j]]
    BY <1>1 DEF List
  <2> QED BY <2>1, <2>2 DEF Stretch
<1> QED BY <1>3, <1>5, <1>6

\* The garbler's file and the expected one, of three lots and of two.
LEMMA FilesOfThree ==
  ASSUME NEW writes, NEW w1, NEW v1, NEW w2, NEW v2, NEW w3, NEW v3,
         OfThree(writes, "garbler", w1, v1, "garbler", w2, v2, "expected", w3, v3),
         AllFirst(w1, Len(v1)), AllFirst(w2, Len(v2)), AllFirst(w3, Len(v3))
  PROVE  ItemsOf(writes, "garbler", 0) = v1 \o v2 /\ ItemsOf(writes, "expected", 0) = v3
<1>1. List(v1) /\ List(v2) /\ List(v3)
  BY DEF OfThree
<1>2. /\ ItemsOf(writes, "garbler", 0)
           = ItemsOf(Deal("garbler", w1, v1), "garbler", 0) \o ItemsOf(Deal("garbler", w2, v2), "garbler", 0)
      /\ ItemsOf(writes, "expected", 0) = ItemsOf(Deal("expected", w3, v3), "expected", 0)
  <2>1. \A kind : kind # "expected" =>
          ItemsOf(writes, kind, 0) =
            ItemsOf(Deal("garbler", w1, v1), kind, 0) \o ItemsOf(Deal("garbler", w2, v2), kind, 0)
    BY ThreeLots
  <2>2. \A kind : kind \notin {"garbler", "garbler"} =>
          ItemsOf(writes, kind, 0) = ItemsOf(Deal("expected", w3, v3), kind, 0)
    BY ThreeLots
  <2>3. "garbler" # "expected" /\ "expected" \notin {"garbler", "garbler"}
    OBVIOUS
  <2> QED BY <2>1, <2>2, <2>3, Zenon
<1>3. /\ ItemsOf(Deal("garbler", w1, v1), "garbler", 0) = v1
      /\ ItemsOf(Deal("garbler", w2, v2), "garbler", 0) = v2
      /\ ItemsOf(Deal("expected", w3, v3), "expected", 0) = v3
  BY <1>1, OneFile
<1> QED BY <1>2, <1>3, Zenon

LEMMA FilesOfTwo ==
  ASSUME NEW writes, NEW w1, NEW v1, NEW w2, NEW v2,
         OfTwo(writes, "garbler", w1, v1, "expected", w2, v2),
         AllFirst(w1, Len(v1)), AllFirst(w2, Len(v2))
  PROVE  ItemsOf(writes, "garbler", 0) = v1 /\ ItemsOf(writes, "expected", 0) = v2
<1>1. List(v1) /\ List(v2)
  BY DEF OfTwo
<1>2. /\ ItemsOf(writes, "garbler", 0) = ItemsOf(Deal("garbler", w1, v1), "garbler", 0)
      /\ ItemsOf(writes, "expected", 0) = ItemsOf(Deal("expected", w2, v2), "expected", 0)
  BY TwoLots
<1>3. /\ ItemsOf(Deal("garbler", w1, v1), "garbler", 0) = v1
      /\ ItemsOf(Deal("expected", w2, v2), "expected", 0) = v2
  BY <1>1, OneFile
<1> QED BY <1>2, <1>3, Zenon

\* Blocks, whole rows and cells all are the only worker's.
LEMMA BlocksOfOne ==
  ASSUME NEW m \in Nat
  PROVE  /\ AllFirst(BlockedOf(1, m), m)
         /\ AllFirst([k \in 1 .. m * m |-> Blocked((k - 1) \div m, 1, m)], m * m)
<1>1. \A i \in 0 .. m - 1 : Blocked(i, 1, m) = 0
  <2> TAKE i \in 0 .. m - 1
  <2>1. 1 \in Nat \ {0} /\ 0 .. 1 - 1 = {0}
    OBVIOUS
  <2>2. Blocked(i, 1, m) \in 0 .. 1 - 1
    BY <2>1, BlockedIsBlock
  <2> QED BY <2>1, <2>2
<1>2. AllFirst(BlockedOf(1, m), m)
  <2>1. ASSUME NEW k \in 1 .. m PROVE BlockedOf(1, m)[k] = 0
    <3>1. k - 1 \in 0 .. m - 1
      OBVIOUS
    <3> QED BY <1>1, <3>1 DEF BlockedOf
  <2> QED BY <2>1 DEF AllFirst
<1>3. ASSUME NEW k \in 1 .. m * m PROVE Blocked((k - 1) \div m, 1, m) = 0
  <2>1. (k - 1) \div m \in 0 .. m - 1
    BY CellOfItem
  <2> QED BY <1>1, <2>1
<1> QED BY <1>2, <1>3, Zenon DEF AllFirst

LEMMA CellsOfOne ==
  ASSUME NEW s \in Nat
  PROVE  AllFirst([k \in 1 .. s * s |-> CellWriter(s, 1, (k - 1) \div s, (k - 1) % s)], s * s)
<1>1. PortionsA(1) = 1 /\ PortionsB(1) = 1
  <2>1. 1 = Power2[0]
    BY Power2Is
  <2>2. PortionsA(1) * PortionsB(1) = 1 /\ PortionsA(1) \in Nat \ {0} /\ PortionsB(1) \in Nat \ {0}
        /\ PortionsA(1) \in {PortionsB(1), 2 * PortionsB(1)}
    <3>1. 0 \in Nat
      OBVIOUS
    <3>2. PICK l, n : l = 0 /\ n = 1
      OBVIOUS
    <3>3. PortionsA(n) * PortionsB(n) = n /\ PortionsA(n) \in Nat \ {0} /\ PortionsB(n) \in Nat \ {0}
          /\ PortionsA(n) \in {PortionsB(n), 2 * PortionsB(n)}
      <4>1. l \in Nat /\ n = Power2[l]
        BY <2>1, <3>1, <3>2
      <4> QED BY <4>1, PortionsOfPower
    <3> QED BY <3>2, <3>3
  <2>3. \A a, b \in Nat : a * b = 1 /\ a \in {b, 2 * b} => a = 1 /\ b = 1
    <3> TAKE a, b \in Nat
    <3>1. CASE a = 0 \/ b = 0
      BY <3>1
    <3>2. CASE b > 0 /\ a > 0
      <4>1. 1 * b <= a * b
        BY <3>2, Monotone
      <4> QED BY <3>2, <4>1
    <3> QED BY <3>1, <3>2
  <2> QED BY <2>2, <2>3
<1>2. ASSUME NEW k \in 1 .. s * s PROVE CellWriter(s, 1, (k - 1) \div s, (k - 1) % s) = 0
  <2>1. PICK i \in 0 .. s - 1, j \in 0 .. s - 1 : i = (k - 1) \div s /\ j = (k - 1) % s
    BY CellOfItem
  <2>2. s \in Nat \ {0} /\ 1 \in Nat \ {0}
    BY <2>1
  <2>3. s % 1 = 0 /\ 1 * 1 = 1
    OBVIOUS
  <2>4. CellWriter(s, 1, i, j) \in 0 .. 1 - 1
    BY <1>1, <2>2, <2>3, CellInRange
  <2> QED BY <2>1, <2>4
<1> QED BY <1>2, Zenon DEF AllFirst

\* The files of a task, of a single worker.
FilesOf(problem, s, draw, g, e) ==
  LET writes == Writes(problem, s, 1, "random", draw)
  IN  g = ItemsOf(writes, "garbler", 0) /\ e = ItemsOf(writes, "expected", 0)

\* What example_input writes for the workloads, one after another: numbers counted up,
\* with their sum and the sum of their squares.
LEMMA CountedFiles ==
  ASSUME NEW s \in Nat, NEW draw, NEW g, NEW e
  PROVE  /\ FilesOf("real_sum", s, draw, g, e) => g = [k \in 1 .. s |-> k - 1] /\ e = <<SumOf(g)>>
         /\ FilesOf("real_statistics", s, draw, g, e) =>
              /\ g = [k \in 1 .. s |-> k - 1]
              /\ e = <<SumOf(g), SumOf([k \in 1 .. s |-> g[k] * g[k]])>>
<1>1. PICK u : u = [k \in 1 .. s |-> k - 1]
  OBVIOUS
<1>2. List(u) /\ Len(u) = s
  <2>1. u = [k \in 1 .. s |-> u[k]]
    BY <1>1
  <2> QED BY <2>1, CountedListed DEF Listed
<1>3. ASSUME NEW single, List(single), NEW writes, writes = Share(1, u) \o Single(single)
      PROVE  ItemsOf(writes, "garbler", 0) = u /\ ItemsOf(writes, "expected", 0) = single
  <2>1. PICK workers : workers = [k \in DOMAIN single |-> 0]
    OBVIOUS
  <2>2. Share(1, u) = Deal("garbler", BlockedOf(1, s), u) /\ Single(single) = Deal("expected", workers, single)
    BY <1>2, <2>1 DEF Share, Single
  <2>3. OfTwo(writes, "garbler", BlockedOf(1, s), u, "expected", workers, single)
    BY <1>2, <1>3, <2>2, Zenon DEF OfTwo
  <2>4. AllFirst(BlockedOf(1, s), Len(u))
    BY <1>2, BlocksOfOne
  <2>5. AllFirst(workers, Len(single))
    <3>1. DOMAIN single = 1 .. Len(single)
      BY <1>3 DEF List
    <3> QED BY <2>1, <3>1 DEF AllFirst
  <2> QED BY <2>3, <2>4, <2>5, FilesOfTwo
<1>4. ASSUME FilesOf("real_sum", s, draw, g, e)
      PROVE  g = [k \in 1 .. s |-> k - 1] /\ e = <<SumOf(g)>>
  <2>1. Writes("real_sum", s, 1, "random", draw) = RealSum(s, 1)
    BY PlainContents
  <2>2. RealSum(s, 1) = Share(1, u) \o Single(<<SumOf(u)>>)
    BY <1>1, Zenon DEF RealSum
  <2>3. List(<<SumOf(u)>>)
    BY OneIsList
  <2>4. PICK single, writes : single = <<SumOf(u)>> /\ writes = RealSum(s, 1)
    OBVIOUS
  <2>5. ItemsOf(writes, "garbler", 0) = u /\ ItemsOf(writes, "expected", 0) = single
    BY <1>3, <2>2, <2>3, <2>4
  <2>6. g = ItemsOf(writes, "garbler", 0) /\ e = ItemsOf(writes, "expected", 0)
    BY <1>4, <2>1, <2>4, Zenon DEF FilesOf
  <2>7. g = u /\ e = <<SumOf(u)>>
    BY <2>4, <2>5, <2>6
  <2> QED BY <1>1, <2>7
<1>5. ASSUME FilesOf("real_statistics", s, draw, g, e)
      PROVE  /\ g = [k \in 1 .. s |-> k - 1]
             /\ e = <<SumOf(g), SumOf([k \in 1 .. s |-> g[k] * g[k]])>>
  <2>1. Writes("real_statistics", s, 1, "random", draw) = RealStatistics(s, 1)
    BY PlainContents
  <2>2. PICK v : v = [k \in 1 .. s |-> (k - 1) * (k - 1)]
    OBVIOUS
  <2>3. RealStatistics(s, 1) = Share(1, u) \o Single(<<SumOf(u), SumOf(v)>>)
    BY <1>1, <2>2, Zenon DEF RealStatistics
  <2>4. List(<<SumOf(u), SumOf(v)>>)
    BY PairIsList
  <2>5. PICK single, writes : single = <<SumOf(u), SumOf(v)>> /\ writes = RealStatistics(s, 1)
    OBVIOUS
  <2>6. ItemsOf(writes, "garbler", 0) = u /\ ItemsOf(writes, "expected", 0) = single
    BY <1>3, <2>3, <2>4, <2>5
  <2>7. g = ItemsOf(writes, "garbler", 0) /\ e = ItemsOf(writes, "expected", 0)
    BY <1>5, <2>1, <2>5, Zenon DEF FilesOf
  <2>8. g = u /\ e = <<SumOf(u), SumOf(v)>>
    BY <2>5, <2>6, <2>7
  <2>9. [k \in 1 .. s |-> g[k] * g[k]] = v
    BY <1>1, <2>2, <2>8
  <2> QED BY <1>1, <2>8, <2>9
<1> QED BY <1>4, <1>5, Zenon

\* Ones and ones, with their products.
LEMMA OnesFiles ==
  ASSUME NEW s \in Nat, NEW draw, NEW g, NEW e, FilesOf("real_vector_multiply", s, draw, g, e)
  PROVE  /\ List(g) /\ Len(g) = s + s /\ \A k \in 1 .. s + s : g[k] = 1
         /\ e = <<s>>
<1>1. PICK ones, single, workers : /\ ones = [k \in 1 .. s |-> 1] /\ single = <<s>>
                                   /\ workers = [k \in DOMAIN single |-> 0]
  OBVIOUS
<1>2. List(ones) /\ Len(ones) = s
  <2>1. ones = [k \in 1 .. s |-> ones[k]]
    BY <1>1
  <2> QED BY <2>1, CountedListed DEF Listed
<1>3. List(single) /\ Len(single) = 1
  BY <1>1, OneIsList
<1>4. PICK writes : writes = RealVectorMultiply(s, 1)
  OBVIOUS
<1>5. g = ItemsOf(writes, "garbler", 0) /\ e = ItemsOf(writes, "expected", 0)
  <2>1. Writes("real_vector_multiply", s, 1, "random", draw) = RealVectorMultiply(s, 1)
    BY PlainContents
  <2> QED BY <1>4, <2>1, Zenon DEF FilesOf
<1>6. OfThree(writes, "garbler", BlockedOf(1, s), ones, "garbler", BlockedOf(1, s), ones,
              "expected", workers, single)
  <2>1. RealVectorMultiply(s, 1) = Share(1, ones) \o Share(1, ones) \o Single(single)
    BY <1>1, Zenon DEF RealVectorMultiply
  <2>2. Share(1, ones) = Deal("garbler", BlockedOf(1, s), ones)
        /\ Single(single) = Deal("expected", workers, single)
    BY <1>1, <1>2 DEF Share, Single
  <2> QED BY <1>2, <1>3, <1>4, <2>1, <2>2, Zenon DEF OfThree
<1>7. AllFirst(BlockedOf(1, s), Len(ones)) /\ AllFirst(workers, Len(single))
  <2>1. AllFirst(BlockedOf(1, s), Len(ones))
    BY <1>2, BlocksOfOne
  <2>2. DOMAIN single = 1 .. Len(single)
    BY <1>3 DEF List
  <2>3. AllFirst(workers, Len(single))
    BY <1>1, <2>2 DEF AllFirst
  <2> QED BY <2>1, <2>3
<1>8. ItemsOf(writes, "garbler", 0) = ones \o ones /\ ItemsOf(writes, "expected", 0) = single
  BY <1>6, <1>7, FilesOfThree
<1>9. JoinOf(g, ones, ones)
  <2>1. JoinOf(ones \o ones, ones, ones)
    BY <1>2, JoinIs
  <2> QED BY <1>5, <1>8, <2>1, Zenon
<1>10. List(g) /\ Len(g) = s + s
  BY <1>2, <1>9 DEF JoinOf
<1>11. ASSUME NEW k \in 1 .. s + s PROVE g[k] = 1
  <2>1. CASE k <= s
    <3>1. k \in 1 .. s
      BY <2>1
    <3>2. g[k] = ones[k] /\ ones[k] = 1
      BY <1>1, <1>2, <1>9, <3>1 DEF JoinOf
    <3> QED BY <3>2
  <2>2. CASE k > s
    <3>1. PICK m \in 1 .. s : k = s + m
      <4>1. k - s \in 1 .. s /\ k = s + (k - s)
        BY <2>2
      <4> QED BY <4>1
    <3>2. g[s + m] = ones[m] /\ ones[m] = 1
      BY <1>1, <1>2, <1>9 DEF JoinOf
    <3> QED BY <3>1, <3>2
  <2> QED BY <2>1, <2>2
<1> QED BY <1>1, <1>5, <1>8, <1>10, <1>11

\* A vector and a matrix, with their product.
LEMMA VectorFiles ==
  ASSUME NEW s \in Nat, NEW draw, DrawnFor("real_matrix_vector_multiply", s, draw), NEW g, NEW e,
         FilesOf("real_matrix_vector_multiply", s, draw, g, e)
  PROVE  /\ JoinOf(g, draw.b, draw.a) /\ Len(draw.b) = s /\ Len(draw.a) = s * s
         /\ draw.a \in [1 .. s * s -> 0 .. ByteLimit - 1] /\ draw.b \in [1 .. s -> 0 .. ByteLimit - 1]
         /\ e = RowProducts("real_matrix_vector_multiply", s, draw.a, draw.b)
<1>0. Writes("real_matrix_vector_multiply", s, 1, "random", draw)
        = MatrixVector(s, 1, "garbler", BlockedOf(1, s), draw.a, draw.b,
                       RowProducts("real_matrix_vector_multiply", s, draw.a, draw.b))
  BY DEF Writes, MatrixPairs, MatrixVectors
<1>1. PICK problem : problem = "real_matrix_vector_multiply"
  OBVIOUS
<1>2. PICK a, x, sums : a = draw.a /\ x = draw.b /\ sums = RowProducts(problem, s, a, x)
  OBVIOUS
<1>3. a \in [1 .. s * s -> 0 .. ByteLimit - 1] /\ x \in [1 .. s -> 0 .. ByteLimit - 1]
  BY <1>2 DEF DrawnFor, MatrixVectors
<1>4. List(a) /\ Len(a) = s * s /\ List(x) /\ Len(x) = s
  <2>1. s * s \in Nat
    OBVIOUS
  <2> QED BY <1>3, <2>1, DrawnIsList
<1>5. List(sums) /\ Len(sums) = s
  <2>1. Listed(s, RowProducts(problem, s, a, x))
    BY ContentsListed
  <2> QED BY <1>2, <2>1, Zenon DEF Listed
<1>6. PICK wa : wa = [k \in 1 .. s * s |-> Blocked((k - 1) \div s, 1, s)]
  OBVIOUS
<1>7. PICK writes : writes = MatrixVector(s, 1, "garbler", BlockedOf(1, s), a, x, sums)
  OBVIOUS
<1>8. Writes(problem, s, 1, "random", draw) = writes
  BY <1>0, <1>1, <1>2, <1>7, Zenon
<1>9. OfThree(writes, "garbler", BlockedOf(1, s), x, "garbler", wa, a, "expected", BlockedOf(1,
   s), sums)
  BY <1>4, <1>5, <1>6, <1>7, Zenon DEF OfThree, MatrixVector
<1>10. AllFirst(BlockedOf(1, s), Len(x)) /\ AllFirst(wa, Len(a)) /\ AllFirst(BlockedOf(1, s),
   Len(sums))
  BY <1>4, <1>5, <1>6, BlocksOfOne
<1>11. ItemsOf(writes, "garbler", 0) = x \o a /\ ItemsOf(writes, "expected", 0) = sums
  BY <1>9, <1>10, FilesOfThree
<1>12. g = x \o a /\ e = sums
  BY <1>1, <1>8, <1>11, Zenon DEF FilesOf
<1> QED BY <1>1, <1>2, <1>3, <1>4, <1>12, JoinIs

\* Two matrices, with their product.
LEMMA ProductFiles ==
  ASSUME NEW s \in Nat, NEW problem \in {"real_naive_matrix_multiply", "real_tiled_matrix_multiply"},
         NEW draw, DrawnFor(problem, s, draw), NEW g, NEW e, FilesOf(problem, s, draw, g, e)
  PROVE  /\ JoinOf(g, draw.a, draw.b) /\ Len(draw.a) = s * s /\ Len(draw.b) = s * s
         /\ draw.a \in [1 .. s * s -> 0 .. ByteLimit - 1] /\ draw.b \in [1 .. s * s -> 0 .. ByteLimit - 1]
         /\ e = ProductCells(problem, s, draw.a, draw.b)
<1>1. Writes(problem, s, 1, "random", draw)
        = Matrices(s, 1, "garbler", draw.a, draw.b, ProductCells(problem, s, draw.a, draw.b))
  BY DEF Writes, MatrixPairs, MatrixVectors
<1>2. PICK a, b, cells : a = draw.a /\ b = draw.b /\ cells = ProductCells(problem, s, a, b)
  OBVIOUS
<1>3. a \in [1 .. s * s -> 0 .. ByteLimit - 1] /\ b \in [1 .. s * s -> 0 .. ByteLimit - 1]
  BY <1>2 DEF DrawnFor, MatrixPairs
<1>s. s * s \in Nat
  OBVIOUS
<1>4. List(a) /\ Len(a) = s * s /\ List(b) /\ Len(b) = s * s
  BY <1>3, <1>s, DrawnIsList
<1>5. List(cells) /\ Len(cells) = s * s
  <2>1. Listed(s * s, ProductCells(problem, s, a, b))
    BY ContentsListed
  <2> QED BY <1>2, <2>1, Zenon DEF Listed
<1>6. PICK wc : wc = [k \in 1 .. s * s |-> CellWriter(s, 1, (k - 1) \div s, (k - 1) % s)]
  OBVIOUS
<1>7. PICK writes : writes = Matrices(s, 1, "garbler", a, b, cells)
  OBVIOUS
<1>8. Writes(problem, s, 1, "random", draw) = writes
  BY <1>1, <1>2, <1>7, Zenon
<1>9. OfThree(writes, "garbler", BlockedOf(1, s * s), a, "garbler", BlockedOf(1, s * s), b,
              "expected", wc, cells)
  BY <1>4, <1>5, <1>6, <1>7, Zenon DEF OfThree, Matrices
<1>10. /\ AllFirst(BlockedOf(1, s * s), Len(a)) /\ AllFirst(BlockedOf(1, s * s), Len(b))
       /\ AllFirst(wc, Len(cells))
  <2>1. AllFirst(BlockedOf(1, s * s), s * s)
    BY <1>s, BlocksOfOne
  <2> QED BY <1>4, <1>5, <1>6, <2>1, CellsOfOne
<1>11. ItemsOf(writes, "garbler", 0) = a \o b /\ ItemsOf(writes, "expected", 0) = cells
  BY <1>9, <1>10, FilesOfThree
<1>12. g = a \o b /\ e = cells
  BY <1>8, <1>11, Zenon DEF FilesOf
<1> QED BY <1>2, <1>3, <1>4, <1>12, JoinIs

\* Both modules' sum is the same.
LEMMA SigmaIsSumOf == \A v : Sigma(v) = SumOf(v)
BY Zenon DEF Sigma, SumOf

\* What a file holds are integers, as many as the workload needs.
LEMMA FilesAreNumbers ==
  ASSUME NEW s \in Nat, NEW problem, NEW draw, DrawnFor(problem, s, draw), NEW g, NEW e,
         FilesOf(problem, s, draw, g, e)
  PROVE  /\ problem \in {"real_sum", "real_statistics"} => g \in Seq(Int) /\ Len(g) = s
         /\ problem = "real_vector_multiply" => g \in Seq(Int) /\ Len(g) = s + s
         /\ problem = "real_matrix_vector_multiply" => g \in Seq(Int) /\ Len(g) = s + s * s
         /\ problem \in {"real_naive_matrix_multiply", "real_tiled_matrix_multiply"} =>
              g \in Seq(Int) /\ Len(g) = s * s + s * s
<1>1. ASSUME problem \in {"real_sum", "real_statistics"}
      PROVE  g \in Seq(Int) /\ Len(g) = s
  <2>1. g = [k \in 1 .. s |-> k - 1]
    <3>1. CASE problem = "real_sum"
      BY <3>1, CountedFiles
    <3>2. CASE problem = "real_statistics"
      BY <3>2, CountedFiles
    <3> QED BY <1>1, <3>1, <3>2
  <2> QED BY <2>1
<1>2. ASSUME problem = "real_vector_multiply"
      PROVE  g \in Seq(Int) /\ Len(g) = s + s
  <2>1. List(g) /\ Len(g) = s + s /\ \A k \in 1 .. s + s : g[k] = 1
    BY <1>2, OnesFiles
  <2>2. \A k \in 1 .. Len(g) : g[k] \in Int
    BY <2>1
  <2> QED BY <2>1, <2>2, ListIsSeq
<1>3. ASSUME NEW u, NEW v, NEW m \in Nat, NEW n \in Nat, u \in [1 .. m -> 0 .. ByteLimit - 1],
             v \in [1 .. n -> 0 .. ByteLimit - 1], Len(u) = m, Len(v) = n, JoinOf(g, u, v)
      PROVE  g \in Seq(Int) /\ Len(g) = m + n
  <2>1. /\ \A k \in 1 .. m : g[k] = u[k] /\ u[k] \in Int
        /\ \A k \in 1 .. n : g[m + k] = v[k] /\ v[k] \in Int
        /\ List(g) /\ Len(g) = m + n
    BY <1>3, BatchAssumption DEF JoinOf
  <2>2. ASSUME NEW k \in 1 .. Len(g) PROVE g[k] \in Int
    <3>1. CASE k <= m
      BY <2>1, <3>1
    <3>2. CASE k > m
      <4>1. k - m \in 1 .. n /\ k = m + (k - m)
        BY <2>1, <3>2
      <4> QED BY <2>1, <4>1
    <3> QED BY <2>1, <3>1, <3>2
  <2> QED BY <2>1, <2>2, ListIsSeq
<1>4. s * s \in Nat
  OBVIOUS
<1>5. ASSUME problem = "real_matrix_vector_multiply"
      PROVE  g \in Seq(Int) /\ Len(g) = s + s * s
  <2>1. /\ JoinOf(g, draw.b, draw.a) /\ Len(draw.b) = s /\ Len(draw.a) = s * s
        /\ draw.a \in [1 .. s * s -> 0 .. ByteLimit - 1] /\ draw.b \in [1 .. s -> 0 .. ByteLimit - 1]
    BY <1>5, VectorFiles
  <2> QED BY <1>3, <1>4, <2>1
<1>6. ASSUME problem \in {"real_naive_matrix_multiply", "real_tiled_matrix_multiply"}
      PROVE  g \in Seq(Int) /\ Len(g) = s * s + s * s
  <2>1. /\ JoinOf(g, draw.a, draw.b) /\ Len(draw.b) = s * s /\ Len(draw.a) = s * s
        /\ draw.a \in [1 .. s * s -> 0 .. ByteLimit - 1] /\ draw.b \in [1 .. s * s -> 0 .. ByteLimit - 1]
    BY <1>6, ProductFiles
  <2> QED BY <1>3, <1>4, <2>1
<1> QED BY <1>1, <1>2, <1>5, <1>6

\* The sums of the numbers, and of their squares, in the file.
LEMMA CountedAlone ==
  ASSUME NEW s \in Nat \ {0}, NEW draw, NEW g, NEW e
  PROVE  /\ FilesOf("real_sum", s, draw, g, e) => RealSumOf(g, s, 1) = e
         /\ FilesOf("real_statistics", s, draw, g, e) => StatisticsOf(g, s, 1) = e
<1> DEFINE squares == [k \in 1 .. s |-> g[k] * g[k]]
<1>1. ASSUME g = [k \in 1 .. s |-> k - 1]
      PROVE  /\ RealSumOf(g, s, 1) = <<SumOf(g)>>
             /\ StatisticsOf(g, s, 1) = <<SumOf(g), SumOf(squares)>>
  <2>1. g \in Seq(Int) /\ Len(g) = s /\ DOMAIN g = 1 .. s /\ g[1] = 0
    BY <1>1
  <2>2. PICK rounds \in Nat : rounds = 1
    OBVIOUS
  <2>3. First(g, s) = g
    <3>1. First(g, s) = [k \in 1 .. s |-> g[k]]
      BY <2>1, FirstIs
    <3> QED BY <1>1, <3>1
  <2>4. Sigma(g) \in Int /\ Inner(g, g) \in Int
    <3>1. PICK q : q = [k \in DOMAIN g |-> g[k] * g[k]]
      OBVIOUS
    <3>2. q = [k \in 1 .. s |-> q[k]] /\ \A k \in 1 .. s : q[k] \in Int
      <4>1. \A x \in Int : x * x \in Int
        OBVIOUS
      <4>2. \A k \in 1 .. s : g[k] \in Int
        BY <2>1
      <4> QED BY <2>1, <3>1, <4>1, <4>2
    <3>3. Sigma(q) \in Int
      BY <3>2, SigmaIsInt
    <3>4. g = [k \in 1 .. s |-> g[k]] /\ \A k \in 1 .. s : g[k] \in Int
      BY <1>1, <2>1
    <3>5. Sigma(g) \in Int
      BY <3>4, SigmaIsInt
    <3> QED BY <3>1, <3>3, <3>5, Zenon DEF Inner
  <2>5. /\ RealSumOf(g, s, rounds) = << g[1] + rounds * Sigma(g) >>
        /\ StatisticsOf(g, s, rounds) = << rounds * Sigma(g), rounds * Inner(g, g) >>
    <3>1. Len(g) >= (IF rounds = 0 \/ s = 0 THEN 1 ELSE s)
          /\ s = IF rounds = 0 THEN 0 ELSE s
      BY <2>1, <2>2
    <3>2. g = First(g, s)
      BY <2>3
    <3> QED BY <2>1, <3>1, <3>2, SumsAre
  <2>6. rounds * Sigma(g) = Sigma(g) /\ rounds * Inner(g, g) = Inner(g, g)
    BY <2>2, <2>4
  <2>7. Sigma(g) = SumOf(g) /\ Inner(g, g) = SumOf(squares)
    BY <2>1, SigmaIsSumOf, Zenon DEF Inner
  <2>8. g[1] + Sigma(g) = Sigma(g)
    BY <2>1, <2>4
  <2>9. /\ RealSumOf(g, s, rounds) = << Sigma(g) >>
        /\ StatisticsOf(g, s, rounds) = << Sigma(g), Inner(g, g) >>
    BY <2>5, <2>6, <2>8, Zenon
  <2> HIDE DEF squares
  <2> QED BY <2>2, <2>7, <2>9
<1>2. s \in Nat
  OBVIOUS
<1>3. ASSUME FilesOf("real_sum", s, draw, g, e)
      PROVE  g = [k \in 1 .. s |-> k - 1] /\ e = <<SumOf(g)>>
  BY <1>2, <1>3, CountedFiles
<1>4. ASSUME FilesOf("real_statistics", s, draw, g, e)
      PROVE  g = [k \in 1 .. s |-> k - 1] /\ e = <<SumOf(g), SumOf(squares)>>
  BY <1>2, <1>4, CountedFiles
<1> HIDE DEF squares
<1> QED BY <1>1, <1>3, <1>4

\* A position in a row of a square.
LEMMA InSquare ==
  ASSUME NEW s \in Nat, NEW i \in 0 .. s - 1, NEW k \in 1 .. s
  PROVE  i * s \in Nat /\ i * s + k \in 1 .. s * s
<1>1. (i + 1) * s <= s * s /\ (i + 1) * s = i * s + s /\ i * s \in Nat
  BY Monotone
<1> QED BY <1>1

\* What ckks_utils makes of a file with the vector and the matrix.
LEMMA VectorAlone ==
  ASSUME NEW s \in Nat, NEW draw, DrawnFor("real_matrix_vector_multiply", s, draw), NEW g, NEW e,
         FilesOf("real_matrix_vector_multiply", s, draw, g, e)
  PROVE  /\ e = [i \in 1 .. s |-> Sigma([k \in 1 .. s |-> g[s + (i - 1) * s + k] * g[k]])]
         /\ MatrixVectorOf(g, s) = e
<1>1. PICK a, x : a = draw.a /\ x = draw.b
  OBVIOUS
<1>2. /\ JoinOf(g, x, a) /\ Len(x) = s /\ Len(a) = s * s
      /\ e = RowProducts("real_matrix_vector_multiply", s, a, x)
  BY <1>1, VectorFiles
<1>3. /\ \A k \in 1 .. s : g[k] = x[k]
      /\ \A k \in 1 .. s * s : g[s + k] = a[k]
  BY <1>2 DEF JoinOf
<1>4. e = [i \in 1 .. s |-> SumOf([j \in 1 .. s |-> a[(i - 1) * s + j] * x[j]])]
  BY <1>2, Zenon DEF RowProducts, ElementSum
<1>5. ASSUME NEW i \in 1 .. s
      PROVE  /\ [j \in 1 .. s |-> a[(i - 1) * s + j] * x[j]]
                  = [k \in 1 .. s |-> g[s + (i - 1) * s + k] * g[k]]
             /\ [j \in 1 .. s |-> a[(i - 1) * s + j] * x[j]]
                  = [k \in 1 .. s |-> g[s + (i - 1) * s + k] * g[0 + k]]
  <2>1. PICK r \in 0 .. s - 1 : r = i - 1
    OBVIOUS
  <2>2. ASSUME NEW k \in 1 .. s
        PROVE  /\ g[s + r * s + k] = a[r * s + k] /\ g[k] = x[k] /\ g[0 + k] = x[k]
    <3>1. r * s \in Nat /\ r * s + k \in 1 .. s * s
      BY InSquare
    <3>2. s + (r * s + k) = s + r * s + k /\ 0 + k = k
      BY <3>1
    <3> QED BY <1>3, <3>1, <3>2
  <2> QED BY <2>1, <2>2
<1>6. e = [i \in 1 .. s |-> Sigma([k \in 1 .. s |-> g[s + (i - 1) * s + k] * g[k]])]
  BY <1>4, <1>5, SigmaIsSumOf
<1>7. MatrixVectorOf(g, s)
        = [i \in 1 .. s |-> Sigma([k \in 1 .. s |-> g[s + (i - 1) * s + k] * g[0 + k]])]
  BY DEF MatrixVectorOf, DotOf
<1>8. MatrixVectorOf(g, s) = e
  BY <1>4, <1>5, <1>7, SigmaIsSumOf
<1> QED BY <1>6, <1>8

\* And of the file with the two matrices.
LEMMA ProductAlone ==
  ASSUME NEW s \in Nat, NEW problem \in {"real_naive_matrix_multiply", "real_tiled_matrix_multiply"},
         NEW draw, DrawnFor(problem, s, draw), NEW g, NEW e, FilesOf(problem, s, draw, g, e)
  PROVE  /\ e = [k \in 1 .. s * s |->
                  Sigma([m \in 1 .. s |-> g[((k - 1) \div s) * s + m]
                                          * g[s * s + ((k - 1) % s) * s + m]])]
         /\ NaiveOf(g, s) = e /\ TiledOf(g, s) = e /\ e = ProductByColumns(g, s)
<1>1. PICK a, b : a = draw.a /\ b = draw.b
  OBVIOUS
<1>2. /\ JoinOf(g, a, b) /\ Len(a) = s * s /\ Len(b) = s * s
      /\ e = ProductCells(problem, s, a, b)
  BY <1>1, ProductFiles
<1>3. /\ \A k \in 1 .. s * s : g[k] = a[k]
      /\ \A k \in 1 .. s * s : g[s * s + k] = b[k]
  BY <1>2 DEF JoinOf
<1> DEFINE ofFactors(i, j) == [m \in 1 .. s |-> a[i * s + m] * b[j * s + m]]
           ofFile(i, j) == [m \in 1 .. s |-> g[i * s + m] * g[s * s + j * s + m]]
<1>4. e = [k \in 1 .. s * s |-> SumOf(ofFactors((k - 1) \div s, (k - 1) % s))]
  <2>1. problem \notin {"matrix_multiply", "matrix_vector_multiply"}
    OBVIOUS
  <2> QED BY <1>2, <2>1, Zenon DEF ProductCells, ElementSum
<1>5. ASSUME NEW i \in 0 .. s - 1, NEW j \in 0 .. s - 1
      PROVE  ofFactors(i, j) = ofFile(i, j)
  <2>1. ASSUME NEW m \in 1 .. s
        PROVE  g[i * s + m] = a[i * s + m] /\ g[s * s + j * s + m] = b[j * s + m]
    <3>1. i * s \in Nat /\ i * s + m \in 1 .. s * s /\ j * s \in Nat /\ j * s + m \in 1 .. s * s
      BY InSquare
    <3>2. s * s \in Nat
      OBVIOUS
    <3>3. s * s + (j * s + m) = s * s + j * s + m
      BY <3>1, <3>2
    <3> QED BY <1>3, <3>1, <3>3
  <2> QED BY <2>1
<1>6. ASSUME NEW k \in 1 .. s * s
      PROVE  SumOf(ofFactors((k - 1) \div s, (k - 1) % s)) = Sigma(ofFile((k - 1) \div s, (k - 1) % s))
  <2>1. PICK i \in 0 .. s - 1, j \in 0 .. s - 1 : i = (k - 1) \div s /\ j = (k - 1) % s
    BY CellOfItem
  <2>2. SumOf(ofFactors(i, j)) = Sigma(ofFile(i, j))
    BY <1>5, SigmaIsSumOf
  <2> QED BY <2>1, <2>2
<1>7. e = [k \in 1 .. s * s |-> Sigma(ofFile((k - 1) \div s, (k - 1) % s))]
  <2> HIDE DEF ofFactors, ofFile
  <2> QED BY <1>4, <1>6, Zenon
<1>8. NaiveOf(g, s) = e
  BY <1>7, Zenon DEF NaiveOf, DotOf
<1>9. NaiveOf(g, s) = ProductByColumns(g, s) /\ TiledOf(g, s) = ProductByColumns(g, s)
  <2>1. g \in Seq(Int) /\ Len(g) = s * s + s * s
    BY FilesAreNumbers
  <2>2. 2 * s * s <= Len(g)
    BY <2>1
  <2> QED BY <2>1, <2>2, ProductsAre
<1> QED BY <1>7, <1>8, <1>9

\* The lemmas about the shares of the threads, for the tiles of CKKS.
Split == INSTANCE PckksProblemsProofs WITH TileSize <- CkksTile

-----------------------------------------------------------------------------
(* What the terms of several threads come to on the file.                  *)

\* Terms of a number each, and of two numbers each.
LEMMA SingleTerms ==
  ASSUME NEW n \in Nat, NEW sum, DOMAIN sum = 1 .. n, NEW input, NEW v, v = [k \in 1 .. n |-> v[k]],
         \A k \in 1 .. n : Len(sum[k]) = 1 /\ input[sum[k][1] + 1] = v[k]
  PROVE  Terms(sum, input) = Sigma(v)
<1>1. [k \in DOMAIN sum |-> IF Len(sum[k]) = 1 THEN input[sum[k][1] + 1]
                            ELSE input[sum[k][1] + 1] * input[sum[k][2] + 1]] = v
  BY Zenon
<1> QED BY <1>1, Zenon DEF Terms

\* Each item of v is the product of a pair.
Multiplied(n, sum, input, v) ==
  /\ DOMAIN sum = 1 .. n /\ v = [k \in 1 .. n |-> v[k]]
  /\ \A k \in 1 .. n : Len(sum[k]) # 1
  /\ \A k \in 1 .. n : input[sum[k][1] + 1] * input[sum[k][2] + 1] = v[k]

LEMMA PairTerms ==
  ASSUME NEW n \in Nat, NEW sum, NEW input, NEW v, Multiplied(n, sum, input, v)
  PROVE  Terms(sum, input) = Sigma(v)
<1>1. [k \in DOMAIN sum |-> IF Len(sum[k]) = 1 THEN input[sum[k][1] + 1]
                            ELSE input[sum[k][1] + 1] * input[sum[k][2] + 1]] = v
  BY Zenon DEF Multiplied
<1> QED BY <1>1, Zenon DEF Terms

\* All the numbers; the pairs of two vectors; a row and the vector; a row and a column.
LEMMA NumbersCome ==
  ASSUME NEW s \in Nat, NEW g, g = [k \in 1 .. s |-> g[k]]
  PROVE  /\ Terms(Split!Numbers(s), g) = Sigma(g)
         /\ Terms(Split!Squares(s), g) = Sigma([k \in 1 .. s |-> g[k] * g[k]])
<1>1. PICK u, v, q : u = Split!Numbers(s) /\ v = Split!Squares(s) /\ q = [k \in 1 .. s |-> g[k]
   * g[k]]
  OBVIOUS
<1>2. DOMAIN u = 1 .. s /\ \A k \in 1 .. s : Len(u[k]) = 1 /\ g[u[k][1] + 1] = g[k]
  <2>1. u = [x \in 1 .. s |-> <<x - 1>>]
    BY <1>1 DEF Split!Numbers
  <2>2. \A x \in 1 .. s : Len(u[x]) = 1 /\ u[x][1] = x - 1 /\ x - 1 + 1 = x
    BY <2>1
  <2> QED BY <2>1, <2>2
<1>3. Multiplied(s, v, g, q)
  <2>1. v = [x \in 1 .. s |-> <<x - 1, x - 1>>]
    BY <1>1 DEF Split!Squares
  <2>2. \A x \in 1 .. s : Len(v[x]) = 2 /\ v[x][1] = x - 1 /\ v[x][2] = x - 1 /\ x - 1 + 1 = x
    BY <2>1
  <2>3. \A x \in 1 .. s : q[x] = g[x] * g[x]
    BY <1>1
  <2>4. \A k \in 1 .. s : g[v[k][1] + 1] = g[k] /\ g[v[k][2] + 1] = g[k]
    BY <2>2
  <2>5. \A k \in 1 .. s : Len(v[k]) # 1
    BY <2>2
  <2>6. DOMAIN v = 1 .. s /\ q = [k \in 1 .. s |-> q[k]]
    BY <1>1, <2>1
  <2> QED BY <2>3, <2>4, <2>5, <2>6, Zenon DEF Multiplied
<1>5. Terms(u, g) = Sigma(g)
  BY <1>2, SingleTerms
<1>6. Terms(v, g) = Sigma(q)
  BY <1>3, PairTerms
<1> QED BY <1>1, <1>5, <1>6

LEMMA PairsCome ==
  ASSUME NEW s \in Nat, NEW g, \A k \in 1 .. s + s : g[k] = 1
  PROVE  Terms(Split!Pairs(s), g) = s
<1>1. PICK u, ones : u = Split!Pairs(s) /\ ones = [k \in 1 .. s |-> 1]
  OBVIOUS
<1>2. u = [x \in 1 .. s |-> <<x - 1, s + x - 1>>]
  BY <1>1 DEF Split!Pairs
<1>3. \A x \in 1 .. s : Len(u[x]) = 2 /\ u[x][1] = x - 1 /\ u[x][2] = s + x - 1
  BY <1>2
<1>4. \A x \in 1 .. s : g[x - 1 + 1] = 1 /\ g[s + x - 1 + 1] = 1
  <2>1. \A x \in 1 .. s : x - 1 + 1 \in 1 .. s + s /\ s + x - 1 + 1 \in 1 .. s + s
    OBVIOUS
  <2> QED BY <2>1
<1>5. Multiplied(s, u, g, ones)
  <2>1. \A k \in 1 .. s : ones[k] = 1
    BY <1>1
  <2>2. ASSUME NEW k \in 1 .. s PROVE g[u[k][1] + 1] = 1 /\ g[u[k][2] + 1] = 1
    BY <1>3, <1>4
  <2>3. \A k \in 1 .. s : g[u[k][1] + 1] * g[u[k][2] + 1] = ones[k]
    BY <2>1, <2>2
  <2>4. DOMAIN u = 1 .. s /\ ones = [k \in 1 .. s |-> ones[k]] /\ \A k \in 1 .. s : Len(u[k]) # 1
    BY <1>1, <1>2, <1>3
  <2> QED BY <2>3, <2>4, Zenon DEF Multiplied
<1>6. ones = [k \in 1 .. s |-> ones[k]] /\ \A k \in 1 .. s : ones[k] = 1
  BY <1>1
<1>7. Terms(u, g) = Sigma(ones)
  BY <1>5, PairTerms
<1>8. SumOf(ones) = s
  BY <1>6, SumOfOnes
<1> QED BY <1>1, <1>7, <1>8, SigmaIsSumOf

LEMMA RowsCome ==
  ASSUME NEW s \in Nat, NEW g, NEW row \in 1 .. s
  PROVE  Terms(Split!RowTerms(s)[row], g) = Sigma([k \in 1 .. s |-> g[s + (row - 1) * s + k] * g[k]])
<1>1. PICK u, v : /\ u = Split!RowTerms(s)[row]
                  /\ v = [k \in 1 .. s |-> g[s + (row - 1) * s + k] * g[k]]
  OBVIOUS
<1>2. u = [j \in 1 .. s |-> <<row * s + j - 1, j - 1>>]
  BY <1>1 DEF Split!RowTerms
<1>3. PICK d \in Nat : d = row * s /\ s + (row - 1) * s = d
  <2>1. row * s \in Nat /\ s + (row - 1) * s = row * s
    OBVIOUS
  <2> QED BY <2>1
<1>4. \A j \in 1 .. s : Len(u[j]) = 2 /\ u[j][1] = d + j - 1 /\ u[j][2] = j - 1
  BY <1>2, <1>3
<1>5. \A j \in 1 .. s : v[j] = g[d + j] * g[j]
  <2>1. v = [k \in 1 .. s |-> g[s + (row - 1) * s + k] * g[k]]
    BY <1>1
  <2> QED BY <1>3, <2>1, Zenon
<1>6. \A j \in 1 .. s : d + j - 1 + 1 = d + j /\ j - 1 + 1 = j
  OBVIOUS
<1>7. Multiplied(s, u, g, v)
  <2>1. \A k \in 1 .. s : g[u[k][1] + 1] = g[d + k] /\ g[u[k][2] + 1] = g[k]
    BY <1>4, <1>6
  <2>2. DOMAIN u = 1 .. s /\ v = [k \in 1 .. s |-> v[k]] /\ \A k \in 1 .. s : Len(u[k]) # 1
    BY <1>1, <1>2, <1>4
  <2> QED BY <1>5, <2>1, <2>2, Zenon DEF Multiplied
<1>8. Terms(u, g) = Sigma(v)
  BY <1>7, PairTerms
<1> QED BY <1>1, <1>8

LEMMA CellsCome ==
  ASSUME NEW s \in Nat, NEW g, NEW row \in 0 .. s - 1, NEW col \in 0 .. s - 1
  PROVE  /\ Terms(Split!CellTerms(s, Split!ByColumns(s), row, col), g)
              = Sigma([k \in 1 .. s |-> g[row * s + k] * g[s * s + col * s + k]])
         /\ Terms(Split!CellTerms(s, Split!ByRows(s), row, col), g)
              = Sigma([k \in 1 .. s |-> g[row * s + k] * g[s * s + ((k - 1) * s + col + 1)]])
<1>0. PICK r \in Nat, c \in Nat, q \in Nat : r = row * s /\ c = col * s /\ q = s * s
  OBVIOUS
<1>1. ASSUME NEW second, NEW at, NEW v, v = [k \in 1 .. s |-> g[r + k] * g[at[k]]],
             \A k \in 1 .. s : second[k - 1][col] + 1 = at[k]
      PROVE  Terms(Split!CellTerms(s, second, row, col), g) = Sigma(v)
  <2>1. PICK u : u = Split!CellTerms(s, second, row, col)
    OBVIOUS
  <2>2. u = [i \in 1 .. s |-> <<row * s + i - 1, second[i - 1][col]>>]
    BY <2>1 DEF Split!CellTerms
  <2>3. \A i \in 1 .. s : Len(u[i]) = 2 /\ u[i][1] = r + i - 1 /\ u[i][2] = second[i - 1][col]
    BY <1>0, <2>2
  <2>4. \A i \in 1 .. s : r + i - 1 + 1 = r + i
    BY <1>0
  <2>5. Multiplied(s, u, g, v)
    <3>1. \A k \in 1 .. s : v[k] = g[r + k] * g[at[k]]
      BY <1>1
    <3>2. \A k \in 1 .. s : g[u[k][1] + 1] = g[r + k] /\ g[u[k][2] + 1] = g[at[k]]
      BY <1>1, <2>3, <2>4
    <3>3. DOMAIN u = 1 .. s /\ v = [k \in 1 .. s |-> v[k]] /\ \A k \in 1 .. s : Len(u[k]) # 1
      BY <1>1, <2>2, <2>3
    <3> QED BY <3>1, <3>2, <3>3, Zenon DEF Multiplied
  <2> QED BY <2>1, <2>5, PairTerms
<1>2. \A k \in 1 .. s : k - 1 \in 0 .. s - 1
  OBVIOUS
<1>3. Terms(Split!CellTerms(s, Split!ByColumns(s), row, col), g)
        = Sigma([k \in 1 .. s |-> g[row * s + k] * g[s * s + col * s + k]])
  <2>1. PICK second, at, v : /\ second = Split!ByColumns(s) /\ at = [k \in 1 .. s |-> s * s + col * s + k]
                             /\ v = [k \in 1 .. s |-> g[r + k] * g[s * s + col * s + k]]
    OBVIOUS
  <2>2. v = [k \in 1 .. s |-> g[r + k] * g[at[k]]]
    BY <2>1
  <2>3. ASSUME NEW k \in 1 .. s PROVE second[k - 1][col] + 1 = at[k]
    <3>1. second[k - 1][col] = s * s + col * s + (k - 1)
      BY <1>2, <2>1 DEF Split!ByColumns, Split!ColumnByColumn
    <3>2. at[k] = q + c + k
      BY <1>0, <2>1
    <3> QED BY <1>0, <3>1, <3>2
  <2>4. Terms(Split!CellTerms(s, second, row, col), g) = Sigma(v)
    BY <1>1, <2>2, <2>3
  <2> QED BY <1>0, <2>1, <2>4
<1>4. Terms(Split!CellTerms(s, Split!ByRows(s), row, col), g)
        = Sigma([k \in 1 .. s |-> g[row * s + k] * g[s * s + ((k - 1) * s + col + 1)]])
  <2>1. PICK second, at, v : /\ second = Split!ByRows(s)
                             /\ at = [k \in 1 .. s |-> s * s + ((k - 1) * s + col + 1)]
                             /\ v = [k \in 1 .. s |-> g[r + k] * g[s * s + ((k - 1) * s + col + 1)]]
    OBVIOUS
  <2>2. v = [k \in 1 .. s |-> g[r + k] * g[at[k]]]
    BY <2>1
  <2>3. ASSUME NEW k \in 1 .. s PROVE second[k - 1][col] + 1 = at[k]
    <3>1. second[k - 1][col] = s * s + (k - 1) * s + col
      BY <1>2, <2>1 DEF Split!ByRows, Split!RowByRow
    <3>2. PICK d \in Nat : d = (k - 1) * s
      BY <1>2
    <3>3. at[k] = q + (d + col + 1)
      BY <1>0, <2>1, <3>2
    <3>4. second[k - 1][col] = q + d + col
      BY <1>0, <3>1, <3>2
    <3> QED BY <1>0, <3>2, <3>3, <3>4
  <2>4. Terms(Split!CellTerms(s, second, row, col), g) = Sigma(v)
    BY <1>1, <2>2, <2>3
  <2> QED BY <1>0, <2>1, <2>4
<1> QED BY <1>3, <1>4

\* The sums of all threads, worked out on the file.
Worked(sums, g) == [k \in DOMAIN sums |-> Terms(sums[k], g)]

\* One sum, and two.
LEMMA OneWorked ==
  ASSUME NEW a, NEW g
  PROVE  Worked(<<a>>, g) = <<Terms(a, g)>>
<1>1. PICK sums, t : sums = <<a>> /\ t = Worked(sums, g)
  OBVIOUS
<1>2. DOMAIN sums = 1 .. 1 /\ sums[1] = a
  BY <1>1
<1>3. t = [k \in 1 .. 1 |-> Terms(sums[k], g)]
  BY <1>1, <1>2, Zenon DEF Worked
<1>4. \A k \in 1 .. 1 : k = 1
  OBVIOUS
<1>5. t = [k \in 1 .. 1 |-> Terms(a, g)]
  BY <1>2, <1>3, <1>4
<1> QED BY <1>1, <1>5

LEMMA TwoWorked ==
  ASSUME NEW a, NEW b, NEW g
  PROVE  Worked(<<a, b>>, g) = <<Terms(a, g), Terms(b, g)>>
<1>1. PICK sums, t : sums = <<a, b>> /\ t = Worked(sums, g)
  OBVIOUS
<1>2. DOMAIN sums = 1 .. 2 /\ sums[1] = a /\ sums[2] = b
  BY <1>1
<1>3. t = [k \in 1 .. 2 |-> Terms(sums[k], g)]
  BY <1>1, <1>2, Zenon DEF Worked
<1>4. t[1] = Terms(a, g) /\ t[2] = Terms(b, g)
  BY <1>2, <1>3
<1> QED BY <1>1, <1>3, <1>4

\* The cells of the product, rows by the vector or by the columns.
LEMMA WorkedByRows ==
  ASSUME NEW s \in Nat, NEW g \in Seq(Int), Len(g) = s * s + s * s
  PROVE  Worked(Split!MatrixTerms(s, Split!ByRows(s)), g) = ProductByRows(g, s)
<1> DEFINE cell(k) == Split!CellTerms(s, Split!ByRows(s), (k - 1) \div s, (k - 1) % s)
           inner(k) == Inner(RowAt(First(g, s * s), s, (k - 1) \div s),
                             ColumnAt(Rest(g, s * s), s, (k - 1) % s))
<1>1. ASSUME NEW k \in 1 .. s * s PROVE Terms(cell(k), g) = inner(k)
  <2>1. PICK row \in 0 .. s - 1, col \in 0 .. s - 1 : row = (k - 1) \div s /\ col = (k - 1) % s
    BY CellOfItem
  <2>2. s * s \in Nat /\ s * s <= Len(g) /\ Len(g) - s * s = s * s
    <3>1. s * s \in Nat
      OBVIOUS
    <3> QED BY <3>1
  <2>3. PICK u, v : u = RowAt(First(g, s * s), s, row) /\ v = ColumnAt(Rest(g, s * s), s, col)
    OBVIOUS
  <2>4. u = [i \in 1 .. s |-> g[row * s + i]]
    BY <2>2, <2>3, FirstRowIs
  <2>5. v = [i \in 1 .. s |-> g[s * s + ((i - 1) * s + col + 1)]]
    <3>1. ASSUME NEW i \in 1 .. s
          PROVE  Rest(g, s * s)[(i - 1) * s + col + 1] = g[s * s + ((i - 1) * s + col + 1)]
      <4>1. PICK r \in 0 .. s - 1, c \in 1 .. s : r = i - 1 /\ c = col + 1
        OBVIOUS
      <4>2. r * s \in Nat /\ r * s + c \in 1 .. s * s
        BY InSquare
      <4>3. r * s + c = (i - 1) * s + col + 1
        BY <4>1, <4>2
      <4> QED BY <2>2, <4>2, <4>3, RestIs
    <3>2. v = [i \in 1 .. s |-> Rest(g, s * s)[(i - 1) * s + col + 1]]
      BY <2>3, Zenon DEF ColumnAt
    <3> QED BY <3>1, <3>2
  <2>6. Inner(u, v) = Sigma([i \in 1 .. s |-> g[row * s + i] * g[s * s + ((i - 1) * s + col + 1)]])
    <3>1. DOMAIN u = 1 .. s /\ \A i \in 1 .. s : u[i] = g[row * s + i] /\ v[i] = g[s * s + ((i - 1) * s + col + 1)]
      BY <2>4, <2>5
    <3>2. [i \in DOMAIN u |-> u[i] * v[i]]
            = [i \in 1 .. s |-> g[row * s + i] * g[s * s + ((i - 1) * s + col + 1)]]
      BY <3>1, Zenon
    <3> QED BY <3>2, Zenon DEF Inner
  <2>7. Terms(Split!CellTerms(s, Split!ByRows(s), row, col), g) = Inner(u, v)
    <3>1. Terms(Split!CellTerms(s, Split!ByRows(s), row, col), g)
            = Sigma([i \in 1 .. s |-> g[row * s + i] * g[s * s + ((i - 1) * s + col + 1)]])
      BY CellsCome
    <3> QED BY <2>6, <3>1, Zenon
  <2> QED BY <2>1, <2>3, <2>7
<1>2. Worked(Split!MatrixTerms(s, Split!ByRows(s)), g) = [k \in 1 .. s * s |-> Terms(cell(k), g)]
  BY DEF Worked, Split!MatrixTerms
<1>3. ProductByRows(g, s) = [k \in 1 .. s * s |-> inner(k)]
  BY DEF ProductByRows
<1> HIDE DEF cell, inner
<1> QED BY <1>1, <1>2, <1>3

LEMMA WorkedByColumns ==
  ASSUME NEW s \in Nat, NEW g, NEW e,
         e = [k \in 1 .. s * s |->
               Sigma([m \in 1 .. s |-> g[((k - 1) \div s) * s + m] * g[s * s + ((k - 1) % s) * s + m]])]
  PROVE  Worked(Split!MatrixTerms(s, Split!ByColumns(s)), g) = e
<1> DEFINE cell(k) == Split!CellTerms(s, Split!ByColumns(s), (k - 1) \div s, (k - 1) % s)
           sum(k) == Sigma([m \in 1 .. s |-> g[((k - 1) \div s) * s + m]
                                             * g[s * s + ((k - 1) % s) * s + m]])
<1>1. ASSUME NEW k \in 1 .. s * s PROVE Terms(cell(k), g) = sum(k)
  <2>1. PICK row \in 0 .. s - 1, col \in 0 .. s - 1 : row = (k - 1) \div s /\ col = (k - 1) % s
    BY CellOfItem
  <2>2. Terms(Split!CellTerms(s, Split!ByColumns(s), row, col), g)
          = Sigma([m \in 1 .. s |-> g[row * s + m] * g[s * s + col * s + m]])
    BY CellsCome
  <2> QED BY <2>1, <2>2, Zenon
<1>2. Worked(Split!MatrixTerms(s, Split!ByColumns(s)), g) = [k \in 1 .. s * s |-> Terms(cell(k),
   g)]
  BY DEF Worked, Split!MatrixTerms
<1>3. e = [k \in 1 .. s * s |-> sum(k)]
  OBVIOUS
<1> HIDE DEF cell, sum
<1> QED BY <1>1, <1>2, <1>3, Zenon

\* The right sums' terms come to what is expected.
LEMMA TermsCome ==
  ASSUME NEW s \in Nat, NEW problem \in Split!Problems, NEW draw, DrawnFor(problem, s, draw),
         NEW g, NEW e, FilesOf(problem, s, draw, g, e)
  PROVE  Worked(Split!TermsOf(problem, s), g)
           = IF problem = "real_naive_matrix_multiply" THEN ProductByRows(g, s) ELSE e
<1>1. CASE problem = "real_sum"
  <2>1. Split!TermsOf(problem, s) = <<Split!Numbers(s)>>
    BY <1>1 DEF Split!TermsOf
  <2>2. g = [k \in 1 .. s |-> k - 1] /\ e = <<SumOf(g)>>
    BY <1>1, CountedFiles
  <2>3. g = [k \in 1 .. s |-> g[k]]
    BY <2>2
  <2>4. Terms(Split!Numbers(s), g) = Sigma(g)
    BY <2>3, NumbersCome
  <2>5. Worked(Split!TermsOf(problem, s), g) = e
    BY <2>1, <2>2, <2>4, SigmaIsSumOf, OneWorked, Zenon
  <2> QED BY <1>1, <2>5
<1>2. CASE problem = "real_statistics"
  <2>1. Split!TermsOf(problem, s) = <<Split!Numbers(s), Split!Squares(s)>>
    BY <1>2 DEF Split!TermsOf
  <2>2. /\ g = [k \in 1 .. s |-> k - 1]
        /\ e = <<SumOf(g), SumOf([k \in 1 .. s |-> g[k] * g[k]])>>
    BY <1>2, CountedFiles
  <2>3. g = [k \in 1 .. s |-> g[k]]
    BY <2>2
  <2>4. /\ Terms(Split!Numbers(s), g) = Sigma(g)
        /\ Terms(Split!Squares(s), g) = Sigma([k \in 1 .. s |-> g[k] * g[k]])
    BY <2>3, NumbersCome
  <2>5. Worked(Split!TermsOf(problem, s), g) = e
    <3>1. PICK a, b, q : /\ a = Split!Numbers(s) /\ b = Split!Squares(s)
                         /\ q = [k \in 1 .. s |-> g[k] * g[k]]
      OBVIOUS
    <3>2. Worked(<<a, b>>, g) = <<Terms(a, g), Terms(b, g)>>
      BY TwoWorked
    <3>3. Terms(a, g) = SumOf(g) /\ Terms(b, g) = SumOf(q)
      BY <2>4, <3>1, SigmaIsSumOf, Zenon
    <3>4. e = <<SumOf(g), SumOf(q)>> /\ Split!TermsOf(problem, s) = <<a, b>>
      BY <2>1, <2>2, <3>1, Zenon
    <3> QED BY <3>2, <3>3, <3>4, Zenon
  <2> QED BY <1>2, <2>5
<1>3. CASE problem = "real_vector_multiply"
  <2>1. Split!TermsOf(problem, s) = <<Split!Pairs(s)>>
    BY <1>3 DEF Split!TermsOf
  <2>2. (\A k \in 1 .. s + s : g[k] = 1) /\ e = <<s>>
    BY <1>3, OnesFiles
  <2>3. Worked(Split!TermsOf(problem, s), g) = e
    BY <2>1, <2>2, PairsCome, OneWorked, Zenon
  <2> QED BY <1>3, <2>3
<1>4. CASE problem = "real_matrix_vector_multiply"
  <2>1. Split!TermsOf(problem, s) = Split!RowTerms(s)
    BY <1>4 DEF Split!TermsOf
  <2>2. e = [i \in 1 .. s |-> Sigma([k \in 1 .. s |-> g[s + (i - 1) * s + k] * g[k]])]
    BY <1>4, VectorAlone
  <2>3. Worked(Split!RowTerms(s), g) = [i \in 1 .. s |-> Terms(Split!RowTerms(s)[i], g)]
    BY DEF Worked, Split!RowTerms
  <2>4. Worked(Split!RowTerms(s), g) = e
    BY <2>2, <2>3, RowsCome, Zenon
  <2> QED BY <1>4, <2>1, <2>4
<1>5. CASE problem = "real_naive_matrix_multiply"
  <2>1. Split!TermsOf(problem, s) = Split!MatrixTerms(s, Split!ByRows(s))
    BY <1>5 DEF Split!TermsOf
  <2>2. g \in Seq(Int) /\ Len(g) = s * s + s * s
    BY <1>5, FilesAreNumbers
  <2> QED BY <1>5, <2>1, <2>2, WorkedByRows
<1>6. CASE problem = "real_tiled_matrix_multiply"
  <2>1. Split!TermsOf(problem, s) = Split!MatrixTerms(s, Split!ByColumns(s))
    BY <1>6 DEF Split!TermsOf
  <2>2. e = [k \in 1 .. s * s |->
               Sigma([m \in 1 .. s |-> g[((k - 1) \div s) * s + m] * g[s * s + ((k - 1) % s) * s + m]])]
    BY <1>6, ProductAlone
  <2>3. Worked(Split!MatrixTerms(s, Split!ByColumns(s)), g) = e
    BY <2>2, WorkedByColumns, Zenon
  <2> QED BY <1>6, <2>1, <2>3
<1> QED BY <1>1, <1>2, <1>3, <1>4, <1>5, <1>6 DEF Split!Problems, Split!VectorProblems,
   Split!MatrixProblems

\* The workloads are the same by either name of their module.
LEMMA SameDivide ==
  ASSUME NEW problem, NEW w, NEW p, NEW items
  PROVE  Pckks!Divide(problem, w, p, items) = Split!Divide(problem, w, p, items)
BY Zenon DEF Pckks!Divide, Split!Divide, Pckks!InputItems, Split!InputItems, Pckks!Refused,
   Split!Refused, Pckks!Failed, Split!Failed, Pckks!DivideVector, Split!DivideVector,
   Pckks!DividePair, Split!DividePair, Pckks!DivideMatrixVector, Split!DivideMatrixVector,
   Pckks!DivideMatrices, Split!DivideMatrices, Pckks!DivideTiles, Split!DivideTiles,
   Pckks!DivideRows, Split!DivideRows, Pckks!DivideAmong, Split!DivideAmong, Pckks!Extent,
   Split!Extent, Pckks!Start, Split!Start, Pckks!End, Split!End, Pckks!PerWorker,
   Split!PerWorker, Pckks!RunsBackwards, Split!RunsBackwards, Pckks!Range0, Split!Range0,
   Pckks!Min, Split!Min

LEMMA SameFormat ==
  ASSUME NEW problem, NEW size, NEW share, NEW chunk
  PROVE  Pckks!Format(problem, size, share, chunk) = Split!Format(problem, size, share, chunk)
BY Zenon DEF Pckks!Format, Split!Format, Pckks!FormatVector, Split!FormatVector,
   Pckks!FormatPair, Split!FormatPair, Pckks!FormatMatrixVector, Split!FormatMatrixVector,
   Pckks!FormatMatrices, Split!FormatMatrices, Pckks!Operands, Split!Operands, Pckks!NoOperands,
   Split!NoOperands, Pckks!SideOf, Split!SideOf

LEMMA SameCalculate ==
  ASSUME NEW problem, NEW size, NEW ops
  PROVE  Pckks!Calculate(problem, size, ops) = Split!Calculate(problem, size, ops)
BY Zenon DEF Pckks!Calculate, Split!Calculate, Pckks!CalculateSum, Split!CalculateSum,
   Pckks!CalculateStatistics, Split!CalculateStatistics, Pckks!CalculateVectorMultiply,
   Split!CalculateVectorMultiply, Pckks!CalculateMatrixVector, Split!CalculateMatrixVector,
   Pckks!CalculateNaive, Split!CalculateNaive, Pckks!CalculateTiled, Split!CalculateTiled,
   Pckks!Cells, Split!Cells, Pckks!DotProduct, Split!DotProduct, Pckks!Total, Split!Total,
   Pckks!Number, Split!Number, Pckks!Product, Split!Product, Pckks!SideOf, Split!SideOf,
   Pckks!FlattenSeq, Split!FlattenSeq, Pckks!Min, Split!Min

LEMMA SameAggregate ==
  ASSUME NEW problem, NEW partial
  PROVE  /\ Pckks!Aggregate(problem, partial) = Split!Aggregate(problem, partial)
         /\ Pckks!ReadsMissingItem(problem, partial) <=> Split!ReadsMissingItem(problem, partial)
BY Zenon DEF Pckks!Aggregate, Split!Aggregate, Pckks!AggregateSum, Split!AggregateSum,
   Pckks!AggregateStatistics, Split!AggregateStatistics, Pckks!AggregateRows,
   Split!AggregateRows, Pckks!Total, Split!Total, Pckks!FlattenSeq, Split!FlattenSeq,
   Pckks!ReadsMissingItem, Split!ReadsMissingItem, Pckks!MatrixProblems, Split!MatrixProblems

LEMMA SameFits ==
  ASSUME NEW problem, NEW w, NEW p, NEW items
  PROVE  /\ Pckks!Fits(problem, w, p, items) <=> Split!Fits(problem, w, p, items)
         /\ Pckks!Problems = Split!Problems
BY Zenon DEF Pckks!Fits, Split!Fits, Pckks!InputItems, Split!InputItems, Pckks!PerWorker,
   Split!PerWorker, Pckks!MatrixProblems, Split!MatrixProblems, Pckks!Problems, Split!Problems,
   Pckks!VectorProblems, Split!VectorProblems

-----------------------------------------------------------------------------
(* What the two utilities come to on the file.                             *)

\* ckks_utils alone, with one round.
LEMMA AloneIs ==
  ASSUME NEW s \in Nat, NEW problem, NEW draw, DrawnFor(problem, s, draw), NEW g, NEW e,
         FilesOf(problem, s, draw, g, e),
         NEW got, got = CkksRun(5, problem, [size |-> s, colon |-> TRUE, rounds |-> 1], g)
  PROVE  /\ got.how = "answers" <=>
              problem \in CkksProblems /\ (s > 0 \/ problem \notin {"real_sum", "real_statistics"})
         /\ got.how = "answers" => got.items = e
<1>1. PICK arg : arg = [size |-> s, colon |-> TRUE, rounds |-> 1]
  OBVIOUS
<1>2. arg.size = s /\ RoundNum(arg) = 1 /\ s # NoNumber /\ 1 # NoNumber
  BY <1>1 DEF RoundNum, NoNumber
<1>3. got = IF problem \notin CkksProblems THEN Ended("refused")
            ELSE IF Len(g) < Needs(problem, s, 1) THEN Ended("undefined")
            ELSE IF LeavesNothing(problem, s, 1) THEN Ended("crashed")
            ELSE [how |-> "answers", items |-> CalculateOf(problem, g, s, 1)]
  BY <1>1, <1>2 DEF CkksRun
<1>4. CASE problem \notin CkksProblems
  BY <1>3, <1>4 DEF Ended
<1>5. ASSUME problem \in CkksProblems
      PROVE  Len(g) < Needs(problem, s, 1) <=> s = 0 /\ problem \in {"real_sum", "real_statistics"}
  <2>1. CASE problem \in {"real_sum", "real_statistics"}
    <3>1. Len(g) = s
      BY <2>1, FilesAreNumbers
    <3>2. Needs(problem, s, 1) = IF s = 0 THEN 1 ELSE s
      BY <2>1 DEF Needs
    <3> QED BY <2>1, <3>1, <3>2
  <2>2. CASE problem = "real_matrix_vector_multiply"
    <3>1. Len(g) = s + s * s
      BY <2>2, FilesAreNumbers
    <3>2. Needs(problem, s, 1) = s + s * s
      BY <2>2 DEF Needs
    <3> QED BY <2>2, <3>1, <3>2
  <2>3. CASE problem \in {"real_naive_matrix_multiply", "real_tiled_matrix_multiply"}
    <3>1. Len(g) = s * s + s * s
      BY <2>3, FilesAreNumbers
    <3>2. Needs(problem, s, 1) = 2 * s * s
      BY <2>3 DEF Needs
    <3>3. 2 * s * s = s * s + s * s /\ s * s \in Nat
      OBVIOUS
    <3> QED BY <2>3, <3>1, <3>2, <3>3
  <2> QED BY <1>5, <2>1, <2>2, <2>3 DEF CkksProblems
<1>6. ASSUME problem \in CkksProblems, s > 0 \/ problem \notin {"real_sum", "real_statistics"}
      PROVE  CalculateOf(problem, g, s, 1) = e
  <2>1. CASE problem = "real_sum"
    <3>1. s \in Nat \ {0}
      BY <1>6, <2>1
    <3>2. RealSumOf(g, s, 1) = e
      BY <2>1, <3>1, CountedAlone
    <3> QED BY <2>1, <3>2 DEF CalculateOf
  <2>2. CASE problem = "real_statistics"
    <3>1. s \in Nat \ {0}
      BY <1>6, <2>2
    <3>2. StatisticsOf(g, s, 1) = e
      BY <2>2, <3>1, CountedAlone
    <3> QED BY <2>2, <3>2 DEF CalculateOf
  <2>3. CASE problem = "real_matrix_vector_multiply"
    <3>1. MatrixVectorOf(g, s) = e
      BY <2>3, VectorAlone
    <3> QED BY <2>3, <3>1 DEF CalculateOf
  <2>4. CASE problem = "real_naive_matrix_multiply"
    <3>1. NaiveOf(g, s) = e
      BY <2>4, ProductAlone
    <3> QED BY <2>4, <3>1 DEF CalculateOf
  <2>5. CASE problem = "real_tiled_matrix_multiply"
    <3>1. TiledOf(g, s) = e
      BY <2>5, ProductAlone
    <3> QED BY <2>5, <3>1 DEF CalculateOf
  <2> QED BY <1>6, <2>1, <2>2, <2>3, <2>4, <2>5 DEF CkksProblems
<1>7. CASE problem \in CkksProblems
  <2>1. ~ (Len(g) < Needs(problem, s, 1)) => ~ LeavesNothing(problem, s, 1)
    BY <1>5, <1>7 DEF LeavesNothing
  <2>2. /\ got.how = "answers" <=> ~ (Len(g) < Needs(problem, s, 1))
        /\ got.how = "answers" => got.items = CalculateOf(problem, g, s, 1)
    BY <1>3, <1>7, <2>1 DEF Ended
  <2> QED BY <1>5, <1>6, <1>7, <2>2
<1> QED BY <1>4, <1>7

\* The file has all that the workload needs, and the expected one its numbers.
LEMMA FilesAreWhole ==
  ASSUME NEW s \in Nat, NEW problem \in CkksProblems \cup Pckks!Problems, NEW draw,
         DrawnFor(problem, s, draw), NEW g, NEW e, FilesOf(problem, s, draw, g, e)
  PROVE  /\ g \in Seq(Int) /\ Len(g) = Pckks!InputItems(problem, s)
         /\ \E n \in Nat : DOMAIN e = 1 .. n
         /\ problem = "real_naive_matrix_multiply" => DOMAIN e = 1 .. s * s
<1>1. CASE problem \in {"real_sum", "real_statistics"}
  <2>1. g \in Seq(Int) /\ Len(g) = s
    BY <1>1, FilesAreNumbers
  <2>2. Pckks!InputItems(problem, s) = s
    BY <1>1 DEF Pckks!InputItems
  <2>3. DOMAIN e = 1 .. 1 \/ DOMAIN e = 1 .. 2
    <3>1. (\E x : e = <<x>>) \/ (\E x, y : e = <<x, y>>)
      BY <1>1, CountedFiles, Zenon
    <3>2. \A x : DOMAIN <<x>> = 1 .. 1
      OBVIOUS
    <3>3. \A x, y : DOMAIN <<x, y>> = 1 .. 2
      OBVIOUS
    <3> QED BY <3>1, <3>2, <3>3, Zenon
  <2> QED BY <1>1, <2>1, <2>2, <2>3
<1>2. CASE problem = "real_vector_multiply"
  <2>1. g \in Seq(Int) /\ Len(g) = s + s
    BY <1>2, FilesAreNumbers
  <2>2. Pckks!InputItems(problem, s) = s * 2
    BY <1>2 DEF Pckks!InputItems
  <2>3. s * 2 = s + s
    OBVIOUS
  <2>4. DOMAIN e = 1 .. 1
    BY <1>2, OnesFiles
  <2> QED BY <1>2, <2>1, <2>2, <2>3, <2>4
<1>3. CASE problem = "real_matrix_vector_multiply"
  <2>1. g \in Seq(Int) /\ Len(g) = s + s * s
    BY <1>3, FilesAreNumbers
  <2>2. Pckks!InputItems(problem, s) = s * s + s
    BY <1>3 DEF Pckks!InputItems
  <2>3. s * s + s = s + s * s
    OBVIOUS
  <2>4. DOMAIN e = 1 .. s
    BY <1>3, VectorAlone
  <2> QED BY <1>3, <2>1, <2>2, <2>3, <2>4
<1>4. CASE problem \in {"real_naive_matrix_multiply", "real_tiled_matrix_multiply"}
  <2>1. g \in Seq(Int) /\ Len(g) = s * s + s * s
    BY <1>4, FilesAreNumbers
  <2>2. Pckks!InputItems(problem, s) = s * s * 2
    BY <1>4 DEF Pckks!InputItems
  <2>3. s * s * 2 = s * s + s * s /\ s * s \in Nat
    OBVIOUS
  <2>4. DOMAIN e = 1 .. s * s
    <3>1. PICK q : q = [k \in 1 .. s * s |->
                  Sigma([m \in 1 .. s |-> g[((k - 1) \div s) * s + m]
                                          * g[s * s + ((k - 1) % s) * s + m]])]
      OBVIOUS
    <3>2. e = [k \in 1 .. s * s |->
                  Sigma([m \in 1 .. s |-> g[((k - 1) \div s) * s + m]
                                          * g[s * s + ((k - 1) % s) * s + m]])]
      <4>1. problem \in {"real_naive_matrix_multiply", "real_tiled_matrix_multiply"}
        BY <1>4
      <4>2. DrawnFor(problem, s, draw) /\ FilesOf(problem, s, draw, g, e)
        OBVIOUS
      <4> QED BY <4>1, <4>2, ProductAlone
    <3>3. DOMAIN q = 1 .. s * s
      BY <3>1, Zenon
    <3> QED BY <3>1, <3>2, <3>3, Zenon
  <2> QED BY <1>4, <2>1, <2>2, <2>3, <2>4
<1> QED BY <1>1, <1>2, <1>3, <1>4 DEF CkksProblems, Pckks!Problems, Pckks!VectorProblems,
   Pckks!MatrixProblems

\* A file that was cut off is too short.
LEMMA CutAlone ==
  ASSUME NEW s \in Nat, NEW problem \in CkksProblems, NEW n \in Nat,
         n < Pckks!InputItems(problem, s), NEW input, Len(input) = n,
         NEW got, got = CkksRun(5, problem, [size |-> s, colon |-> TRUE, rounds |-> 1], input)
  PROVE  got.how # "answers"
<1>1. PICK arg : arg = [size |-> s, colon |-> TRUE, rounds |-> 1]
  OBVIOUS
<1>2. arg.size = s /\ RoundNum(arg) = 1 /\ s # NoNumber /\ 1 # NoNumber
  BY <1>1 DEF RoundNum, NoNumber
<1>3. n < Needs(problem, s, 1)
  <2>1. CASE problem \in {"real_sum", "real_statistics"}
    <3>1. Needs(problem, s, 1) = (IF s = 0 THEN 1 ELSE s) /\ Pckks!InputItems(problem, s) = s
      BY <2>1 DEF Needs, Pckks!InputItems
    <3> QED BY <3>1
  <2>2. CASE problem = "real_matrix_vector_multiply"
    <3>1. Needs(problem, s, 1) = s + s * s /\ Pckks!InputItems(problem, s) = s * s + s
      BY <2>2 DEF Needs, Pckks!InputItems
    <3>2. s + s * s = s * s + s
      OBVIOUS
    <3> QED BY <3>1, <3>2
  <2>3. CASE problem \in {"real_naive_matrix_multiply", "real_tiled_matrix_multiply"}
    <3>1. Needs(problem, s, 1) = 2 * s * s /\ Pckks!InputItems(problem, s) = s * s * 2
      BY <2>3 DEF Needs, Pckks!InputItems
    <3>2. 2 * s * s = s * s * 2
      OBVIOUS
    <3> QED BY <3>1, <3>2
  <2> QED BY <2>1, <2>2, <2>3 DEF CkksProblems
<1>4. got = Ended("undefined")
  BY <1>1, <1>2, <1>3 DEF CkksRun
<1> QED BY <1>4 DEF Ended

\* pckks_utils' threads, in the terms of the workloads' own results.
LEMMA PckksRunIs ==
  ASSUME NEW problem, NEW s, NEW w, NEW g, NEW d, d = Split!Divide(problem, w, s, Len(g)),
         NEW partial, partial = Split!Partial(d, problem, w)
  PROVE  PckksRun(problem, s, w, g)
           = IF problem \notin Split!Problems THEN Ended("refused")
             ELSE IF d.ends # "returns" THEN Ended("crashed")
             ELSE IF w > Len(d.parts) THEN Ended("undefined")
             ELSE IF Split!ReadsMissingItem(problem, partial) THEN Ended("undefined")
             ELSE [how |-> "answers", items |-> Worked(Split!Aggregate(problem, partial), g)]
<1>1. Pckks!Divide(problem, w, s, Len(g)) = d /\ Pckks!Problems = Split!Problems
  BY SameDivide, SameFits, Zenon
<1>2. [k \in 1 .. w |->
         Pckks!Calculate(problem, d.parts[k].size,
                         Pckks!Format(problem, d.parts[k].size, d.share, d.parts[k].chunk))]
        = partial
  BY SameFormat, SameCalculate, Zenon DEF Split!Partial, Split!WorkerResult
<1>3. /\ Pckks!Aggregate(problem, partial) = Split!Aggregate(problem, partial)
      /\ Pckks!ReadsMissingItem(problem, partial) <=> Split!ReadsMissingItem(problem, partial)
  BY SameAggregate, Zenon
<1> QED BY <1>1, <1>2, <1>3, Zenon DEF PckksRun, Worked

\* What they answer, and when: for the input that was written, or any other.
LEMMA TogetherIs ==
  ASSUME NEW s \in Nat, s * s < 2 ^ SizeBits, NEW problem, NEW draw, DrawnFor(problem, s, draw),
         NEW g, NEW e, FilesOf(problem, s, draw, g, e), NEW w \in Nat \ {0},
         NEW input, Len(input) \in Nat, NEW got, got = PckksRun(problem, s, w, input)
  PROVE  /\ got.how = "answers" <=>
              problem \in Pckks!Problems /\ Pckks!Fits(problem, w, s, Len(input))
         /\ got.how = "answers" /\ input = g =>
              got.items = IF problem = "real_naive_matrix_multiply" THEN ProductByRows(g, s) ELSE e
<1>1. PICK d, partial : d = Split!Divide(problem, w, s, Len(input)) /\ partial = Split!Partial(d,
   problem, w)
  OBVIOUS
<1>2. got = IF problem \notin Split!Problems THEN Ended("refused")
            ELSE IF d.ends # "returns" THEN Ended("crashed")
            ELSE IF w > Len(d.parts) THEN Ended("undefined")
            ELSE IF Split!ReadsMissingItem(problem, partial) THEN Ended("undefined")
            ELSE [how |-> "answers", items |-> Worked(Split!Aggregate(problem, partial), input)]
  BY <1>1, PckksRunIs
<1>3. /\ Pckks!Fits(problem, w, s, Len(input)) <=> Split!Fits(problem, w, s, Len(input))
      /\ Pckks!Problems = Split!Problems
  BY SameFits
<1>4. CASE problem \notin Split!Problems
  BY <1>2, <1>3, <1>4 DEF Ended
<1>5. CASE problem \in Split!Problems
  <2>1. PICK items \in Nat : items = Len(input)
    OBVIOUS
  <2>2. 2 ^ SizeBits \in Nat /\ w \in Nat
    BY TaskAssumption
  <2>3. /\ Split!Shared(problem, w, s, items) => d.ends = "returns" /\ Len(d.parts) = w
        /\ d.ends = "returns" => Split!Shared(problem, w, s, items) \/ w > Len(d.parts)
    <3>1. TileAssumption /\ SizeBits \in Nat
      BY TileAssumption, TaskAssumption DEF TileAssumption
    <3>2. w # 0 /\ d = Split!Divide(problem, w, s, items)
      BY <1>1, <2>1
    <3> QED BY <1>5, <2>2, <3>1, <3>2, Split!DivideShares, SMT
  <2> DEFINE rowful == problem = "real_statistics" => (w - 1) * Split!PerWorker(w, s) < s
             shared == Split!Shared(problem, w, s, items)
             missing == Split!ReadsMissingItem(problem, partial)
  <2>4. Split!Fits(problem, w, s, items) <=> shared /\ rowful
    BY Zenon DEF Split!Fits, Split!Shared
  <2>5. shared => (missing <=> ~ rowful)
    <3>1. ASSUME shared PROVE missing <=> ~ rowful
      <4>1. Split!ReadsMissingItem(problem, Split!Partial(d, problem, w)) <=>
              problem = "real_statistics" /\ ~ ((w - 1) * Split!PerWorker(w, s) < s)
        <5>1. d = Split!Divide(problem, w, s, items)
          BY <1>1, <2>1
        <5> QED BY <1>5, <2>2, <3>1, <5>1, Split!MissingWhenRowless, TileAssumption,
           TaskAssumption
      <4> QED BY <1>1, <4>1
    <3> QED BY <3>1
  <2>6. shared /\ rowful => Split!Aggregate(problem, partial) = Split!TermsOf(problem, s)
    <3>1. ASSUME shared, rowful
          PROVE  Split!Aggregate(problem, Split!Partial(d, problem, w)) = Split!TermsOf(problem, s)
      <4>1. d = Split!Divide(problem, w, s, items)
        BY <1>1, <2>1
      <4> QED BY <1>5, <2>2, <3>1, <4>1, Split!SumsOfShares, TileAssumption, TaskAssumption
    <3> QED BY <1>1, <3>1
  <2>7. Worked(Split!TermsOf(problem, s), g)
          = IF problem = "real_naive_matrix_multiply" THEN ProductByRows(g, s) ELSE e
    BY <1>5, TermsCome
  <2> HIDE DEF rowful, shared, missing
  <2>8. w > Len(d.parts) => ~ shared \/ ~ (d.ends = "returns")
    <3>1. Len(d.parts) = w => ~ (w > Len(d.parts))
      OBVIOUS
    <3> QED BY <2>3, <3>1 DEF shared
  <2>9. d.ends = "returns" => shared \/ w > Len(d.parts)
    BY <2>3 DEF shared
  <2>10. shared => d.ends = "returns"
    BY <2>3 DEF shared
  <2>11. got = IF d.ends # "returns" THEN Ended("crashed")
               ELSE IF w > Len(d.parts) THEN Ended("undefined")
               ELSE IF missing THEN Ended("undefined")
               ELSE [how |-> "answers", items |-> Worked(Split!Aggregate(problem, partial), input)]
    BY <1>2, <1>5 DEF missing
  <2>12. CASE shared /\ rowful
    <3>1. got = [how |-> "answers", items |-> Worked(Split!TermsOf(problem, s), input)]
      BY <2>5, <2>6, <2>8, <2>10, <2>11, <2>12, Zenon
    <3>2. got.how = "answers" /\ got.items = Worked(Split!TermsOf(problem, s), input)
      BY <3>1
    <3> QED BY <1>3, <1>5, <2>1, <2>4, <2>7, <2>12, <3>2
  <2>13. CASE ~ (shared /\ rowful)
    <3>1. got = Ended("crashed") \/ got = Ended("undefined")
      BY <2>5, <2>9, <2>11, <2>13, Zenon
    <3>2. got.how # "answers"
      BY <3>1 DEF Ended
    <3> QED BY <1>3, <2>1, <2>4, <2>13, <3>2
  <2> QED BY <2>12, <2>13
<1> QED BY <1>4, <1>5

\* A task can be served by so many threads with so long an input, and what comes of it.
FitFor(t, w, n) ==
  IF w = 1
  THEN /\ t.problem \in CkksProblems /\ n = Pckks!InputItems(t.problem, t.size)
       /\ t.size > 0 \/ t.problem \notin {"real_sum", "real_statistics"}
  ELSE t.problem \in Pckks!Problems /\ Pckks!Fits(t.problem, w, t.size, n)
AnswerOf(t, w) ==
  IF t.problem = "real_naive_matrix_multiply" /\ w # 1 THEN ProductByRows(Inputs[t].garbler, t.size)
                                                       ELSE Inputs[t].expected

LEMMA TasksFiles ==
  ASSUME NEW t \in Tasks
  PROVE  /\ t.size \in Nat /\ t.size * t.size < 2 ^ SizeBits
         /\ DrawnFor(t.problem, t.size, Drawn[t])
         /\ FilesOf(t.problem, t.size, Drawn[t], Inputs[t].garbler, Inputs[t].expected)
<1>1. Inputs[t] = [garbler |-> ItemsOf(Writes(t.problem, t.size, 1, "random", Drawn[t]), "garbler", 0),
                   expected |-> ItemsOf(Writes(t.problem, t.size, 1, "random", Drawn[t]), "expected", 0)]
  BY Zenon DEF Inputs
<1>2. FilesOf(t.problem, t.size, Drawn[t], Inputs[t].garbler, Inputs[t].expected)
  <2>1. PICK g, e : /\ g = ItemsOf(Writes(t.problem, t.size, 1, "random", Drawn[t]), "garbler", 0)
                    /\ e = ItemsOf(Writes(t.problem, t.size, 1, "random", Drawn[t]), "expected", 0)
    OBVIOUS
  <2>2. Inputs[t].garbler = g /\ Inputs[t].expected = e
    BY <1>1, <2>1
  <2> QED BY <2>1, <2>2, Zenon DEF FilesOf
<1> QED BY <1>2, TaskAssumption

\* One thread or more, the whole input or less: when the utility answers, and what.
LEMMA OutcomeIs ==
  ASSUME NEW t \in Tasks, NEW w \in 1 .. MaxThreads, NEW n \in Lengths(t)
  PROVE  /\ Outcomes[t][w][n].how = "answers" <=> FitFor(t, w, n)
         /\ Outcomes[t][w][n].how = "answers" => Outcomes[t][w][n].items = AnswerOf(t, w)
<1>1. PICK s, problem, draw : s = t.size /\ problem = t.problem /\ draw = Drawn[t]
  OBVIOUS
<1>2. PICK g, e : g = Inputs[t].garbler /\ e = Inputs[t].expected
  OBVIOUS
<1>3. s \in Nat /\ s * s < 2 ^ SizeBits /\ DrawnFor(problem, s, draw) /\ FilesOf(problem, s, draw, g, e)
  BY <1>1, <1>2, TasksFiles
<1>4. PICK got, input : got = Outcomes[t][w][n] /\ input = Cut(t, n)
  OBVIOUS
<1>5. w \in Nat \ {0}
  BY ExperimentAssumption
<1>6. /\ w = 1 => got = CkksRun(5, problem, [size |-> s, colon |-> TRUE, rounds |-> 1], input)
      /\ w # 1 => got = PckksRun(problem, s, w, input)
  BY <1>1, <1>4, Zenon DEF Outcomes
<1>7. FitFor(t, w, n) <=> IF w = 1
                          THEN /\ problem \in CkksProblems /\ n = Pckks!InputItems(problem, s)
                               /\ s > 0 \/ problem \notin {"real_sum", "real_statistics"}
                          ELSE problem \in Pckks!Problems /\ Pckks!Fits(problem, w, s, n)
  BY <1>1, Zenon DEF FitFor
<1>8. AnswerOf(t, w) = IF problem = "real_naive_matrix_multiply" /\ w # 1 THEN ProductByRows(g, s)
                                                                         ELSE e
  BY <1>1, <1>2, Zenon DEF AnswerOf
<1>9. CASE problem \notin CkksProblems \cup Pckks!Problems
  <2>1. Ended("refused").how = "refused"
    BY DEF Ended
  <2>2. w = 1 => got = Ended("refused")
    <3>1. PICK arg : arg = [size |-> s, colon |-> TRUE, rounds |-> 1]
      OBVIOUS
    <3>2. arg.size = s /\ RoundNum(arg) = 1 /\ s # NoNumber /\ 1 # NoNumber
      BY <1>3, <3>1 DEF RoundNum, NoNumber
    <3> QED BY <1>6, <1>9, <3>1, <3>2 DEF CkksRun
  <2>3. w # 1 => got = Ended("refused")
    BY <1>6, <1>9, Zenon DEF PckksRun
  <2>4. got.how # "answers"
    BY <2>1, <2>2, <2>3
  <2> QED BY <1>4, <1>7, <1>9, <2>4
<1>10. CASE problem \in CkksProblems \cup Pckks!Problems
  <2>1. g \in Seq(Int) /\ Len(g) = Pckks!InputItems(problem, s) /\ Len(g) \in Nat
    BY <1>3, <1>10, FilesAreWhole
  <2>2. n \in Nat /\ n <= Len(g)
    BY <1>2, <2>1, ExperimentAssumption DEF Lengths
  <2>3. Len(input) = n /\ (n = Len(g) => input = g)
    <3>1. input = [k \in 1 .. n |-> g[k]]
      BY <1>2, <1>4, Zenon DEF Cut
    <3>2. DOMAIN input = 1 .. n
      BY <3>1
    <3>3. Len(input) = n
      BY <2>2, <3>2, LengthOf
    <3>4. g = [k \in 1 .. Len(g) |-> g[k]]
      BY <2>1
    <3> QED BY <3>1, <3>3, <3>4
  <2>4. CASE w = 1 /\ n < Len(g)
    <3>1. problem \in CkksProblems => got.how # "answers"
      BY <1>3, <1>6, <2>1, <2>2, <2>3, <2>4, CutAlone
    <3>2. problem \notin CkksProblems => got = Ended("refused")
      <4>1. PICK arg : arg = [size |-> s, colon |-> TRUE, rounds |-> 1]
        OBVIOUS
      <4>2. arg.size = s /\ RoundNum(arg) = 1 /\ s # NoNumber /\ 1 # NoNumber
        BY <1>3, <4>1 DEF RoundNum, NoNumber
      <4> QED BY <1>6, <2>4, <4>1, <4>2 DEF CkksRun
    <3>3. got.how # "answers"
      BY <3>1, <3>2 DEF Ended
    <3>4. ~ FitFor(t, w, n)
      BY <1>7, <2>1, <2>2, <2>4
    <3> QED BY <1>4, <3>3, <3>4
  <2>5. CASE w = 1 /\ n = Len(g)
    <3>1. /\ got.how = "answers" <=>
               problem \in CkksProblems /\ (s > 0 \/ problem \notin {"real_sum", "real_statistics"})
          /\ got.how = "answers" => got.items = e
      BY <1>3, <1>6, <2>3, <2>5, AloneIs
    <3> QED BY <1>4, <1>7, <1>8, <2>1, <2>5, <3>1, Zenon
  <2>6. CASE w # 1
    <3>1. /\ got.how = "answers" <=> problem \in Pckks!Problems /\ Pckks!Fits(problem, w, s, n)
          /\ got.how = "answers" /\ input = g =>
               got.items = IF problem = "real_naive_matrix_multiply" THEN ProductByRows(g, s) ELSE e
      <4>1. Len(input) \in Nat
        BY <2>2, <2>3
      <4> QED BY <1>3, <1>5, <1>6, <2>3, <2>6, <4>1, TogetherIs
    <3>2. Pckks!Fits(problem, w, s, n) => n = Pckks!InputItems(problem, s)
      BY Zenon DEF Pckks!Fits
    <3>3. got.how = "answers" => input = g
      BY <2>1, <2>3, <3>1, <3>2
    <3> QED BY <1>4, <1>7, <1>8, <2>6, <3>1, <3>3, Zenon
  <2> QED BY <2>2, <2>4, <2>5, <2>6, <2>1
<1> QED BY <1>9, <1>10

-----------------------------------------------------------------------------
(* What the script shows.                                                  *)

\* A file opened by a process of this run.
Own(f) == run > 0 /\ f.by.run = run

\* A run that has begun is of a task, and its input is one that example_input leaves.
Prepared ==
  /\ run > 0 => task \in Tasks
  /\ task \in Tasks => Len(garbler) \in Lengths(task)

\* The processes are the passes started so far, and all are, unless there was bad luck.
Attempts ==
  /\ pc \in {"tool", "lost"} => tool # "mage"
  /\ pc = "plan" => tool = "mage"
  /\ tool # "mage" =>
       /\ launched <= Len(passes)
       /\ \A p \in procs : \E i \in 1 .. launched : p = Process(Utility, passes[i])
       /\ pc = "wait" /\ ~ unlucky => launched = Len(passes)

\* What the pass that opened the output last has written is there, and nothing of any
\* other run, whatever the other pass did in between.
OwnItem(item) == item.by = Nobody \/ item.by.run = run
FilledBy(part) ==
  /\ Len(output.items) <= Len(Numbers)
  /\ \A k \in 1 .. Len(output.items) : OwnItem(output.items[k])
  /\ written[part] \in 0 .. Len(output.items)
  /\ \A k \in 1 .. written[part] : output.items[k].by.run = run

\* Only a pass that has an answer opens the output, and the last one fills it.
Opened ==
  /\ output.by.run <= run
  /\ pc = "lost" => ~ Answers
  /\ pc \in {"generate", "monitor"} => ~ Own(output)
  /\ \A part \in 1 .. 2 : written[part] # NotOpen =>
       Own(output) /\ tool # "mage" /\ Answers /\ written[part] <= Len(Numbers)
  /\ Own(output) /\ tool # "mage" =>
       /\ Answers /\ \E i \in 1 .. launched : output.by.part = passes[i]
       /\ FilledBy(output.by.part)

\* A pass that is gone has written all it had to, unless there was bad luck.
Done ==
  tool # "mage" /\ Answers /\ ~ unlucky =>
    \A i \in 1 .. launched :
      Process(Utility, passes[i]) \in procs \/ written[passes[i]] = Len(Numbers)

ShownOfRun ==
  pc = "idle" /\ run > 0 /\ tool \in {"baseline", "osprey"} =>
    /\ Own(shown) => Answers
    /\ Answers /\ ~ unlucky =>
         /\ Own(shown) /\ Len(shown.items) = Len(Numbers)
         /\ \A k \in 1 .. Len(shown.items) : shown.items[k].by.run = run

\* The numbers of a file are right, each in its place.
RightItem(k, item) ==
  item.by # Nobody /\ ~ Speculative(item.by) =>
    k \in DOMAIN Right(item.by.name) /\ item.value = Right(item.by.name)[k]
RightItems(items) == List(items) /\ \A k \in 1 .. Len(items) : RightItem(k, items[k])
Kept == RightItems(output.items) /\ RightItems(shown.items)

Recorded == Prepared /\ Attempts /\ Opened /\ Done /\ ShownOfRun /\ Kept

\* An answer is as long as the expected one, and right.
LEMMA AnswersAreRight ==
  ASSUME IInv, Prepared, run > 0
  PROVE  /\ Answers <=> Fit
         /\ Answers => /\ Len(Numbers) \in Nat /\ DOMAIN Numbers = 1 .. Len(Numbers)
                       /\ DOMAIN Inputs[task].expected = 1 .. Len(Numbers)
                       /\ Numbers = Right(Utility)
<1>1. PICK t, w, n : t = task /\ w = threads /\ n = Len(garbler)
  OBVIOUS
<1>2. t \in Tasks /\ w \in 1 .. MaxThreads /\ n \in Lengths(t)
  BY <1>1 DEF IInv, TypeOK, Prepared
<1>3. PICK out : out = Outcomes[t][w][n]
  OBVIOUS
<1>4. (out.how = "answers" <=> FitFor(t, w, n)) /\ (out.how = "answers" => out.items = AnswerOf(t, w))
  BY <1>2, <1>3, OutcomeIs
<1>5. UtilityRun = out
  BY <1>1, <1>3, Zenon DEF UtilityRun
<1>6. Fit <=> FitFor(t, w, n)
  BY <1>1, Zenon DEF Fit, FitFor, Workload, Size
<1>7. Right(Utility) = AnswerOf(t, w)
  <2>1. Utility = "pckks_utils" <=> w # 1
    BY <1>1 DEF Utility
  <2> QED BY <1>1, <2>1, Zenon DEF Right, AnswerOf, Workload, Size
<1>8. ASSUME FitFor(t, w, n)
      PROVE  \E m \in Nat : DOMAIN AnswerOf(t, w) = 1 .. m /\ DOMAIN Inputs[t].expected = 1 .. m
  <2>1. PICK s, problem, e : s = t.size /\ problem = t.problem /\ e = Inputs[t].expected
    OBVIOUS
  <2>2. /\ s \in Nat /\ DrawnFor(problem, s, Drawn[t])
        /\ FilesOf(problem, s, Drawn[t], Inputs[t].garbler, e)
    BY <1>2, <2>1, TasksFiles
  <2>3. problem \in CkksProblems \cup Pckks!Problems
    BY <1>8, <2>1, Zenon DEF FitFor
  <2>4. PICK m \in Nat : DOMAIN e = 1 .. m
    BY <2>2, <2>3, FilesAreWhole
  <2>5. problem = "real_naive_matrix_multiply" => DOMAIN e = 1 .. s * s
    BY <2>2, <2>3, FilesAreWhole
  <2>6. DOMAIN ProductByRows(Inputs[t].garbler, s) = 1 .. s * s
    BY Zenon DEF ProductByRows
  <2>7. DOMAIN AnswerOf(t, w) = DOMAIN e
    BY <2>1, <2>5, <2>6, Zenon DEF AnswerOf
  <2> QED BY <2>1, <2>4, <2>7
<1>9. ASSUME Answers
      PROVE  /\ Len(Numbers) \in Nat /\ DOMAIN Numbers = 1 .. Len(Numbers)
             /\ DOMAIN Inputs[task].expected = 1 .. Len(Numbers)
             /\ Numbers = Right(Utility)
  <2>1. FitFor(t, w, n) /\ Numbers = AnswerOf(t, w)
    BY <1>4, <1>5, <1>9, Zenon DEF Answers, Numbers
  <2>2. PICK m \in Nat : DOMAIN AnswerOf(t, w) = 1 .. m /\ DOMAIN Inputs[t].expected = 1 .. m
    BY <1>8, <2>1
  <2>3. Len(Numbers) = m
    BY <2>1, <2>2, LengthOf
  <2> QED BY <1>1, <1>7, <2>1, <2>2, <2>3
<1> QED BY <1>4, <1>5, <1>6, <1>9, Zenon DEF Answers

\* A number in its place, and nothing else changed.
LEMMA PutIs ==
  ASSUME NEW items, List(items), NEW k \in Nat \ {0}, NEW item, NEW after,
         after = Put(items, k, item)
  PROVE  /\ List(after) /\ Len(after) = IF k > Len(items) THEN k ELSE Len(items)
         /\ after[k] = item
         /\ \A j \in 1 .. Len(after) : j # k =>
              after[j] = IF j <= Len(items) THEN items[j] ELSE Hole
<1>1. PICK m \in Nat : m = Len(items)
  BY DEF List
<1>2. PICK n \in Nat : n = IF k > m THEN k ELSE m
  OBVIOUS
<1>3. after = [j \in 1 .. n |-> IF j = k THEN item ELSE IF j <= m THEN items[j] ELSE Hole]
  BY <1>1, <1>2, Zenon DEF Put
<1>4. DOMAIN after = 1 .. n
  BY <1>3
<1>5. Len(after) = n
  BY <1>4, LengthOf
<1>6. after = [j \in 1 .. n |-> after[j]]
  BY <1>3
<1>7. k \in 1 .. n
  BY <1>2
<1> QED BY <1>1, <1>2, <1>3, <1>5, <1>6, <1>7 DEF List

\* Passes are told apart by their parts.
LEMMA PassesApart ==
  ASSUME IInv, Attempts, tool # "mage", NEW p \in procs
  PROVE  /\ p.part \in 1 .. 2 /\ p = Process(Utility, p.part) /\ p.name = Utility
         /\ p.run = run /\ p # Nobody
         /\ \E i \in 1 .. launched : p.part = passes[i]
<1>1. PICK i \in 1 .. launched : p = Process(Utility, passes[i])
  BY DEF Attempts
<1>2. passes \in Seq(1 .. 2) /\ launched <= Len(passes) /\ launched \in Nat
  BY PassesAre DEF IInv, TypeOK, Attempts
<1>3. passes[i] \in 1 .. 2
  BY <1>2
<1>4. p.part = passes[i] /\ p.name = Utility /\ p.run = run
  BY <1>1 DEF Process
<1>5. Utility # "none"
  BY DEF Utility
<1>6. p # Nobody
  BY <1>4, <1>5 DEF Nobody
<1> QED BY <1>1, <1>3, <1>4, <1>6

\* No output and no run, at first.
LEMMA RecordedInitially == Init => Recorded
<1> SUFFICES ASSUME Init PROVE Recorded
  OBVIOUS
<1>1. /\ run = 0 /\ pc = "idle" /\ procs = {} /\ launched = 0 /\ tool = "baseline"
      /\ output = NoFile /\ shown = NoFile /\ passes = <<1>> /\ garbler = <<>>
      /\ \A part \in 1 .. 2 : written[part] = NotOpen
  BY DEF Init
<1>2. NoFile.items = <<>> /\ NoFile.by.run = 0
  BY DEF NoFile, Nobody
<1>3. Prepared
  <2>1. Len(garbler) = 0
    BY <1>1
  <2> QED BY <1>1, <2>1 DEF Prepared, Lengths
<1>4. Attempts
  <2>1. Len(passes) = 1
    BY <1>1
  <2> QED BY <1>1, <2>1 DEF Attempts
<1>5. Opened /\ Done /\ ShownOfRun
  BY <1>1, <1>2 DEF Opened, Done, ShownOfRun, Own
<1>6. Kept
  <2>1. RightItems(<<>>)
    <3>1. Len(<<>>) = 0 /\ <<>> = [k \in 1 .. 0 |-> <<>>[k]]
      OBVIOUS
    <3> QED BY <3>1 DEF RightItems, List
  <2> QED BY <1>1, <1>2, <2>1, Zenon DEF Kept
<1> QED BY <1>3, <1>4, <1>5, <1>6 DEF Recorded

\* As long as run, task and input are the same, so is the answer.
LEMMA SameRun ==
  ASSUME UNCHANGED <<setup, garbler>>
  PROVE  /\ task' = task /\ run' = run /\ tool' = tool /\ threads' = threads /\ passes' = passes
         /\ Answers' = Answers /\ Numbers' = Numbers /\ Utility' = Utility
         /\ \A part : Process(Utility, part)' = Process(Utility, part)
<1>1. /\ task' = task /\ run' = run /\ tool' = tool /\ threads' = threads /\ passes' = passes
      /\ garbler' = garbler
  BY DEF setup
<1>2. Answers' = Answers /\ Numbers' = Numbers /\ Utility' = Utility
  BY <1>1, Zenon DEF UtilityRun, Answers, Numbers, Utility
<1>3. \A part : Process(Utility, part)' = Process(Utility, part)
  BY <1>1, <1>2, Zenon DEF Process
<1> QED BY <1>1, <1>2, <1>3

\* What is right is so in every run.
LEMMA KeptStays ==
  ASSUME Kept, task' = task,
         output' = output \/ RightItems(output.items)',
         shown' = shown \/ RightItems(shown.items)'
  PROVE  Kept'
<1>1. \A name : Right(name)' = Right(name)
  BY Zenon DEF Right, Workload, Size
<1>2. output' = output => RightItems(output.items)'
  BY <1>1, Zenon DEF Kept, RightItems, RightItem
<1>3. shown' = shown => RightItems(shown.items)'
  BY <1>1, Zenon DEF Kept, RightItems, RightItem
<1> QED BY <1>2, <1>3, Zenon DEF Kept

\* What the monitors and the commands by hand do is of no account.
LEMMA RecordedStays ==
  ASSUME Recorded, UNCHANGED <<setup, pc, launched, procs, unlucky, garbler, file, shown>>
  PROVE  Recorded'
<1>1. /\ pc' = pc /\ launched' = launched /\ procs' = procs /\ unlucky' = unlucky
      /\ garbler' = garbler /\ output' = output /\ written' = written /\ shown' = shown
  BY DEF file
<1>2. /\ task' = task /\ run' = run /\ tool' = tool /\ threads' = threads /\ passes' = passes
      /\ Answers' = Answers /\ Numbers' = Numbers /\ Utility' = Utility
      /\ \A part : Process(Utility, part)' = Process(Utility, part)
  BY SameRun
<1>3. Prepared'
  BY <1>1, <1>2 DEF Recorded, Prepared
<1>4. Attempts'
  BY <1>1, <1>2 DEF Recorded, Attempts, Process
<1>5. Opened'
  BY <1>1, <1>2 DEF Recorded, Opened, Own, FilledBy, OwnItem
<1>6. Done'
  BY <1>1, <1>2 DEF Recorded, Done, Process
<1>7. ShownOfRun'
  BY <1>1, <1>2 DEF Recorded, ShownOfRun, Own
<1>8. Kept'
  BY <1>1, <1>2, KeptStays DEF Recorded
<1> QED BY <1>3, <1>4, <1>5, <1>6, <1>7, <1>8 DEF Recorded

\* A new run has nothing of its own yet.
LEMMA RecordedByLaunch == IInv /\ Recorded /\ Launch => Recorded'
<1> SUFFICES ASSUME IInv, Recorded, Launch PROVE Recorded'
  OBVIOUS
<1>1. /\ task # NoTask /\ task' = task /\ run' = run + 1 /\ procs' = procs /\ output' = output
      /\ pc' = IF tool' \in Tools THEN "generate" ELSE "idle"
      /\ shown' = NoFile /\ tool' \in Tools \cup {"unknown"} /\ pc = "idle"
      /\ launched' = 0 /\ garbler' = garbler /\ passes' \in Passes(tool')
      /\ written' = [part \in 1 .. 2 |-> NotOpen]
  BY DEF Launch
<1>2. run \in Nat /\ procs = {} /\ task \in Tasks
  BY <1>1, ExperimentAssumption DEF IInv, TypeOK, Course
<1>3. output'.by.run < run' /\ output'.by.run <= run'
  <2>1. output.by.run \in Nat
    BY ExperimentAssumption DEF IInv, TypeOK, FileOK
  <2>2. output.by.run <= run
    BY DEF Recorded, Opened
  <2> QED BY <1>1, <1>2, <2>1, <2>2
<1>4. "unknown" \notin {"baseline", "osprey"} /\ "unknown" \notin Tools
  BY DEF Tools
<1>5. Prepared'
  BY <1>1, <1>2 DEF Recorded, Prepared
<1>6. Attempts'
  <2>1. Len(passes') \in 0 .. 2
    BY <1>1, PassesAre
  <2> QED BY <1>1, <1>2, <2>1 DEF Attempts
<1>7. Opened'
  <2>1. ~ Own(output)'
    BY <1>1, <1>2, <1>3 DEF Own
  <2>2. \A part \in 1 .. 2 : written'[part] = NotOpen
    BY <1>1
  <2>3. pc' # "lost"
    BY <1>1
  <2> QED BY <1>3, <2>1, <2>2, <2>3, Zenon DEF Opened
<1>8. Done'
  BY <1>1 DEF Done
<1>9. ShownOfRun'
  BY <1>1, <1>4 DEF ShownOfRun, Tools
<1>10. Kept'
  <2>1. shown'.items = <<>>
    BY <1>1 DEF NoFile
  <2>2. Len(<<>>) = 0 /\ <<>> = [k \in 1 .. 0 |-> <<>>[k]]
    OBVIOUS
  <2>3. RightItems(shown.items)'
    BY <2>1, <2>2 DEF RightItems, List
  <2> QED BY <1>1, <2>3, KeptStays DEF Recorded
<1> QED BY <1>5, <1>6, <1>7, <1>8, <1>9, <1>10 DEF Recorded

\* The input is there before any pass is.
LEMMA RecordedByGenerate == IInv /\ Recorded /\ Generate => Recorded'
<1> SUFFICES ASSUME IInv, Recorded, Generate PROVE Recorded'
  OBVIOUS
<1>1. /\ task' = task /\ run' = run /\ tool' = tool /\ passes' = passes /\ launched' = launched
      /\ procs' = procs /\ unlucky' = unlucky /\ output' = output /\ written' = written
      /\ shown' = shown /\ pc = "generate" /\ pc' = "monitor"
  BY DEF Generate, setup, file
<1>2. launched = 0 /\ run > 0 /\ task \in Tasks
  BY <1>1 DEF IInv, Course, Recorded, Prepared
<1>3. ~ Own(output) /\ \A part \in 1 .. 2 : written[part] = NotOpen
  BY <1>1 DEF Recorded, Opened
<1>4. ~ Own(output)'
  BY <1>1, <1>3 DEF Own
<1>5. Prepared'
  <2>1. PICK g : g = Inputs[task].garbler
    OBVIOUS
  <2>2. Len(g) \in Lengths(task) /\ Len(garbler) \in Lengths(task)
    BY <1>2, <2>1, Zenon DEF Recorded, Prepared, Lengths
  <2>3. ASSUME NEW n \in {0} \cup CutAt, n < Len(g) PROVE n \in Lengths(task) /\ Len(Cut(task, n)) = n
    <3>1. n \in Nat
      BY ExperimentAssumption
    <3>2. PICK cut : cut = [k \in 1 .. n |-> g[k]]
      OBVIOUS
    <3>3. Len(cut) = n
      <4>1. DOMAIN cut = 1 .. n
        BY <3>2
      <4> QED BY <3>1, <4>1, LengthOf
    <3>4. n \in Lengths(task)
      BY <2>1, <2>3 DEF Lengths
    <3>5. Cut(task, n) = cut
      BY <2>1, <3>2, Zenon DEF Cut
    <3> QED BY <3>3, <3>4, <3>5
  <2>4. \/ garbler' = g \/ garbler' = garbler
        \/ \E n \in {0} \cup CutAt : n < Len(g) /\ garbler' = Cut(task, n)
    BY <2>1, Zenon DEF Generate
  <2>5. Len(garbler') \in Lengths(task)
    BY <2>2, <2>3, <2>4
  <2>6. Lengths(task)' = Lengths(task)
    BY <1>1, Zenon DEF Lengths
  <2> QED BY <1>1, <1>2, <2>5, <2>6, Zenon DEF Prepared
<1>6. Attempts'
  <2>1. tool # "mage" => launched <= Len(passes) /\ procs = {}
    BY <1>2 DEF Recorded, Attempts
  <2> QED BY <1>1, <2>1 DEF Attempts
<1>7. Opened'
  <2>1. output'.by.run <= run'
    BY <1>1 DEF Recorded, Opened
  <2> QED BY <1>1, <1>3, <1>4, <2>1, Zenon DEF Opened
<1>8. Done'
  BY <1>1, <1>2 DEF Done
<1>9. ShownOfRun'
  BY <1>1 DEF ShownOfRun
<1>10. Kept'
  BY <1>1, KeptStays DEF Recorded
<1> QED BY <1>5, <1>6, <1>7, <1>8, <1>9, <1>10 DEF Recorded

\* The script's own steps, up to the end of its passes.
LEMMA RecordedByStart ==
  IInv /\ Recorded /\ (StartMonitor \/ StartPass \/ GiveUp \/ StartMage) => Recorded'
<1> SUFFICES ASSUME IInv, Recorded, StartMonitor \/ StartPass \/ GiveUp \/ StartMage
             PROVE  Recorded'
  OBVIOUS
<1>1. UNCHANGED <<setup, garbler, file, shown>> /\ pc # "idle" /\ pc' \in {"tool", "plan", "wait"}
  BY DEF StartMonitor, StartPass, GiveUp, StartMage
<1>2. /\ task' = task /\ run' = run /\ tool' = tool /\ threads' = threads /\ passes' = passes
      /\ Answers' = Answers /\ Numbers' = Numbers /\ Utility' = Utility
      /\ \A part : Process(Utility, part)' = Process(Utility, part)
  BY <1>1, SameRun
<1>3. garbler' = garbler /\ output' = output /\ written' = written /\ shown' = shown
  BY <1>1 DEF file
<1>4. Prepared'
  BY <1>2, <1>3 DEF Recorded, Prepared
<1>5. /\ launched \in Nat /\ launched' \in Nat /\ launched <= launched' /\ procs \subseteq procs'
      /\ (~ unlucky' => ~ unlucky) /\ tool \in Tools
      /\ tool # "mage" => (launched' = launched /\ procs' = procs) \/ StartPass
  <2>1. launched \in Nat /\ tool \in Tools
    BY <1>1 DEF IInv, Course
  <2>2. CASE StartMonitor
    BY <2>1, <2>2 DEF StartMonitor
  <2>3. CASE StartPass
    BY <2>1, <2>3 DEF StartPass
  <2>4. CASE GiveUp
    BY <2>1, <2>4 DEF GiveUp
  <2>5. CASE StartMage
    BY <2>1, <2>5 DEF StartMage, Recorded, Attempts
  <2> QED BY <2>2, <2>3, <2>4, <2>5
<1>6. ASSUME StartPass
      PROVE  /\ launched' = launched + 1 /\ launched' <= Len(passes)
             /\ procs' = procs \cup {Process(Utility, passes[launched'])}
             /\ pc' = "wait" => launched' = Len(passes)
  <2>1. passes \in Seq(1 .. 2)
    BY PassesAre DEF IInv, TypeOK
  <2> QED BY <1>5, <1>6, <2>1 DEF StartPass
<1>7. Attempts'
  <2>1. pc' = "tool" => tool # "mage"
    BY DEF StartMonitor, StartPass, GiveUp, StartMage, Recorded, Attempts
  <2>2. pc' = "plan" => tool = "mage"
    BY DEF StartMonitor, StartPass, GiveUp, StartMage, Recorded, Attempts
  <2>3. ASSUME tool # "mage"
        PROVE  /\ launched' <= Len(passes)
               /\ \A p \in procs' : \E i \in 1 .. launched' : p = Process(Utility, passes[i])
    <3>1. CASE launched' = launched /\ procs' = procs
      BY <2>3, <3>1 DEF Recorded, Attempts
    <3>2. CASE StartPass
      <4>1. \A p \in procs : \E i \in 1 .. launched : p = Process(Utility, passes[i])
        BY <2>3 DEF Recorded, Attempts
      <4>2. launched' \in 1 .. launched'
        BY <1>5, <1>6, <3>2
      <4> QED BY <1>5, <1>6, <3>2, <4>1, <4>2
    <3> QED BY <1>5, <2>3, <3>1, <3>2
  <2>4. ASSUME tool # "mage", pc' = "wait", ~ unlucky' PROVE launched' = Len(passes)
    <3>1. ~ StartMonitor /\ ~ StartMage
      BY <2>4 DEF StartMonitor, StartMage, Recorded, Attempts
    <3>2. ~ GiveUp
      BY <2>4 DEF GiveUp
    <3> QED BY <1>6, <2>4, <3>1, <3>2
  <2>5. \A i : Process(Utility, passes[i])' = Process(Utility, passes[i])
    BY <1>2, Zenon DEF Process
  <2> QED BY <1>1, <1>2, <2>1, <2>2, <2>3, <2>4, <2>5 DEF Attempts, Process
<1>8. Opened'
  <2>1. output'.by.run <= run' /\ pc' \notin {"lost", "generate", "monitor"}
    BY <1>1, <1>2, <1>3 DEF Recorded, Opened
  <2>2. Own(output)' = Own(output) /\ FilledBy(output.by.part)' = FilledBy(output.by.part)
    BY <1>2, <1>3, Zenon DEF Own, FilledBy, OwnItem
  <2>3. \A i \in 1 .. launched : i \in 1 .. launched'
    BY <1>5
  <2> QED BY <1>2, <1>3, <2>1, <2>2, <2>3, Zenon DEF Recorded, Opened
<1>9. Done'
  <2>1. ASSUME tool # "mage", Answers, ~ unlucky', NEW i \in 1 .. launched'
        PROVE  Process(Utility, passes[i]) \in procs' \/ written[passes[i]] = Len(Numbers)
    <3>1. CASE i \in 1 .. launched
      BY <1>5, <2>1, <3>1 DEF Recorded, Done
    <3>2. CASE i \notin 1 .. launched
      <4>1. StartPass
        BY <1>5, <2>1, <3>2
      <4>2. i = launched'
        BY <1>5, <1>6, <3>2, <4>1
      <4> QED BY <1>6, <4>1, <4>2
    <3> QED BY <3>1, <3>2
  <2> QED BY <1>2, <1>3, <2>1, Zenon DEF Done, Process
<1>10. ShownOfRun'
  BY <1>1 DEF ShownOfRun
<1>11. Kept'
  BY <1>2, <1>3, KeptStays DEF Recorded
<1> QED BY <1>4, <1>7, <1>8, <1>9, <1>10, <1>11 DEF Recorded

\* A pass that opens the output empties it.
LEMMA RecordedByOpening ==
  ASSUME IInv, Recorded, NEW p \in procs, Pass(p), PassOpens(p)
  PROVE  Recorded'
<1>1. /\ UNCHANGED <<setup, garbler>> /\ launched' = launched /\ shown' = shown /\ tool # "mage"
      /\ pc' = pc /\ pc \in {"tool", "wait"} /\ procs' = procs /\ unlucky' = unlucky
      /\ Answers /\ written[p.part] = NotOpen /\ written' = [written EXCEPT ![p.part] = 0]
      /\ output' = [there |-> TRUE, items |-> <<>>, by |-> p]
  BY Zenon DEF Pass, PassOpens
<1>2. /\ task' = task /\ run' = run /\ tool' = tool /\ threads' = threads /\ passes' = passes
      /\ Answers' = Answers /\ Numbers' = Numbers /\ Utility' = Utility
      /\ \A part : Process(Utility, part)' = Process(Utility, part)
  BY <1>1, SameRun
<1>3. /\ p.part \in 1 .. 2 /\ p = Process(Utility, p.part) /\ p.run = run
      /\ \E i \in 1 .. launched : p.part = passes[i]
  BY <1>1, PassesApart DEF Recorded
<1>4. run > 0 /\ run \in Nat
  BY <1>1, ExperimentAssumption DEF IInv, Course, TypeOK
<1>5. Len(Numbers) \in Nat
  BY <1>1, <1>4, AnswersAreRight DEF Recorded
<1>6. /\ written \in [1 .. 2 -> Nat \cup {NotOpen}] /\ written' \in [1 .. 2 -> Nat \cup {NotOpen}]
      /\ written'[p.part] = 0 /\ \A part \in 1 .. 2 : part # p.part => written'[part] = written[part]
  BY <1>1, <1>3 DEF IInv, TypeOK
<1>7. output'.items = <<>> /\ output'.by = p /\ Len(<<>>) = 0 /\ <<>> = [k \in 1 .. 0 |-> <<>>[k]]
  BY <1>1
<1>8. Prepared'
  BY <1>1, <1>2 DEF Recorded, Prepared
<1>9. Attempts'
  BY <1>1, <1>2 DEF Recorded, Attempts, Process
<1>10. Opened'
  <2>1. Own(output)'
    BY <1>2, <1>3, <1>4, <1>7 DEF Own
  <2>2. \A part \in 1 .. 2 : written'[part] # NotOpen => written'[part] <= Len(Numbers)
    BY <1>5, <1>6 DEF Recorded, Opened
  <2>3. FilledBy(output.by.part)'
    <3>1. Len(output'.items) = 0 /\ 0 <= Len(Numbers') /\ written'[output'.by.part] = 0
      BY <1>2, <1>5, <1>6, <1>7
    <3> QED BY <3>1 DEF FilledBy
  <2>4. output'.by.run <= run' /\ pc' \in {"tool", "wait"} /\ pc' \notin {"lost", "generate", "monitor"}
    BY <1>1, <1>2, <1>3, <1>4, <1>7
  <2>5. \E i \in 1 .. launched' : output'.by.part = passes'[i]
    BY <1>1, <1>2, <1>3, <1>7
  <2> QED BY <1>1, <1>2, <2>1, <2>2, <2>3, <2>4, <2>5, Zenon DEF Opened
<1>11. Done'
  <2>1. ASSUME ~ unlucky, NEW i \in 1 .. launched
        PROVE  Process(Utility, passes[i]) \in procs \/ written'[passes[i]] = Len(Numbers)
    <3>1. passes \in Seq(1 .. 2) /\ launched <= Len(passes) /\ launched \in Nat
      BY <1>1, PassesAre DEF IInv, TypeOK, Recorded, Attempts
    <3>2. passes[i] \in 1 .. 2
      BY <3>1
    <3>3. CASE passes[i] = p.part
      BY <1>3, <3>3
    <3>4. CASE passes[i] # p.part
      BY <1>1, <1>6, <2>1, <3>2, <3>4 DEF Recorded, Done
    <3> QED BY <3>3, <3>4
  <2> QED BY <1>1, <1>2, <2>1, Zenon DEF Done
<1>12. ShownOfRun'
  BY <1>1 DEF ShownOfRun
<1>13. Kept'
  <2>1. RightItems(output.items)'
    BY <1>7 DEF RightItems, List
  <2> QED BY <1>1, <1>2, <2>1, KeptStays DEF Recorded
<1> QED BY <1>8, <1>9, <1>10, <1>11, <1>12, <1>13 DEF Recorded

\* The next number is put where it belongs, into a file that is this run's.
LEMMA RecordedByWriting ==
  ASSUME IInv, Recorded, NEW p \in procs, Pass(p), PassWrites(p)
  PROVE  Recorded'
<1>1. /\ UNCHANGED <<setup, garbler>> /\ launched' = launched /\ shown' = shown /\ tool # "mage"
      /\ pc' = pc /\ pc \in {"tool", "wait"} /\ procs' = procs /\ unlucky' = unlucky
      /\ Answers /\ written[p.part] \in 0 .. Len(Numbers) - 1
      /\ written' = [written EXCEPT ![p.part] = @ + 1]
  BY Zenon DEF Pass, PassWrites
<1>2. /\ task' = task /\ run' = run /\ tool' = tool /\ threads' = threads /\ passes' = passes
      /\ Answers' = Answers /\ Numbers' = Numbers /\ Utility' = Utility
      /\ \A part : Process(Utility, part)' = Process(Utility, part)
  BY <1>1, SameRun
<1>3. /\ p.part \in 1 .. 2 /\ p = Process(Utility, p.part) /\ p.run = run /\ p.name = Utility
      /\ p # Nobody
  BY <1>1, PassesApart DEF Recorded
<1>4. run > 0 /\ run \in Nat
  BY <1>1, ExperimentAssumption DEF IInv, Course, TypeOK
<1>5. /\ Len(Numbers) \in Nat /\ DOMAIN Numbers = 1 .. Len(Numbers) /\ Numbers = Right(Utility)
  BY <1>1, <1>4, AnswersAreRight DEF Recorded
<1>6. PICK k : k = written[p.part] + 1
  OBVIOUS
<1>7. k \in 1 .. Len(Numbers) /\ k \in Nat \ {0} /\ written[p.part] = k - 1 /\ written[p.part] # NotOpen
  BY <1>1, <1>5, <1>6 DEF NotOpen
<1>8. /\ written \in [1 .. 2 -> Nat \cup {NotOpen}] /\ written' \in [1 .. 2 -> Nat \cup {NotOpen}]
      /\ written'[p.part] = k /\ \A part \in 1 .. 2 : part # p.part => written'[part] = written[part]
  BY <1>1, <1>3, <1>6, <1>7 DEF IInv, TypeOK
<1>9. PICK item : item = Written(p, IF Speculative(p) THEN 0 ELSE Numbers[k])
  OBVIOUS
<1>10. item.by = p /\ (~ Speculative(p) => item.value = Numbers[k])
  BY <1>9 DEF Written
<1>11. PICK items, after : items = output.items /\ after = Put(items, k, item)
  OBVIOUS
<1>12. output' = [there |-> output.there, items |-> after, by |-> output.by]
  BY <1>6, <1>9, <1>11, Zenon DEF PassWrites
<1>13. List(items) /\ Len(items) \in Nat /\ \A j \in 1 .. Len(items) : RightItem(j, items[j])
  BY <1>11 DEF Recorded, Kept, RightItems, List
<1>14. /\ List(after) /\ Len(after) = (IF k > Len(items) THEN k ELSE Len(items)) /\ after[k] = item
       /\ \A j \in 1 .. Len(after) : j # k =>
            after[j] = IF j <= Len(items) THEN items[j] ELSE Hole
  BY <1>7, <1>11, <1>13, PutIs
<1>15. output'.items = after /\ output'.by = output.by
  BY <1>12
<1>16. /\ Own(output) /\ FilledBy(output.by.part) /\ output.by.run <= run
       /\ \E i \in 1 .. launched : output.by.part = passes[i]
  BY <1>1, <1>3, <1>7 DEF Recorded, Opened
<1>17. output.by.part \in 1 .. 2
  <2>1. passes \in Seq(1 .. 2) /\ launched <= Len(passes) /\ launched \in Nat
    BY <1>1, PassesAre DEF IInv, TypeOK, Recorded, Attempts
  <2> QED BY <1>16, <2>1
<1>18. Prepared'
  BY <1>1, <1>2 DEF Recorded, Prepared
<1>19. Attempts'
  BY <1>1, <1>2 DEF Recorded, Attempts, Process
<1>20. Opened'
  <2>1. Own(output)'
    BY <1>2, <1>15, <1>16 DEF Own
  <2>2. \A part \in 1 .. 2 : written'[part] # NotOpen => written'[part] <= Len(Numbers)
    BY <1>5, <1>7, <1>8 DEF Recorded, Opened
  <2>3. FilledBy(output.by.part)'
    <3>1. PICK q : q = output.by.part
      OBVIOUS
    <3>2. /\ Len(items) <= Len(Numbers) /\ \A j \in 1 .. Len(items) : OwnItem(items[j])
          /\ written[q] \in 0 .. Len(items) /\ \A j \in 1 .. written[q] : items[j].by.run = run
      BY <1>11, <1>16, <3>1 DEF FilledBy
    <3>3. Len(after) <= Len(Numbers)
      BY <1>5, <1>7, <1>13, <1>14, <3>2
    <3>4. ASSUME NEW j \in 1 .. Len(after) PROVE after[j].by = Nobody \/ after[j].by.run = run
      <4>1. CASE j = k
        BY <1>3, <1>10, <1>14, <4>1
      <4>2. CASE j # k /\ j <= Len(items)
        BY <1>13, <1>14, <3>2, <4>2 DEF OwnItem
      <4>3. CASE j # k /\ ~ (j <= Len(items))
        <5>1. after[j] = Hole
          BY <1>14, <4>3
        <5> QED BY <5>1 DEF Hole, Written
      <4> QED BY <4>1, <4>2, <4>3
    <3>5. written'[q] \in 0 .. Len(after)
      BY <1>7, <1>8, <1>13, <1>14, <1>17, <3>1, <3>2
    <3>6. ASSUME NEW j \in 1 .. written'[q] PROVE after[j].by.run = run
      <4>1. CASE j = k
        BY <1>3, <1>10, <1>14, <4>1
      <4>2. CASE j # k
        <5>1. j \in 1 .. written[q]
          <6>1. CASE q = p.part
            BY <1>7, <1>8, <3>1, <4>2, <6>1
          <6>2. CASE q # p.part
            BY <1>8, <1>17, <3>1, <6>2
          <6> QED BY <6>1, <6>2
        <5>2. j \in 1 .. Len(items) /\ j <= Len(items) /\ j \in 1 .. Len(after)
          BY <1>13, <3>2, <3>5, <5>1
        <5>3. after[j] = items[j]
          BY <1>14, <4>2, <5>2
        <5> QED BY <3>2, <5>1, <5>3
      <4> QED BY <4>1, <4>2
    <3> QED BY <1>2, <1>15, <3>1, <3>3, <3>4, <3>5, <3>6, Zenon DEF FilledBy, OwnItem
  <2>4. output'.by.run <= run' /\ pc' \notin {"lost", "generate", "monitor"}
    BY <1>1, <1>2, <1>15, <1>16
  <2>5. \E i \in 1 .. launched' : output'.by.part = passes'[i]
    BY <1>1, <1>2, <1>15, <1>16
  <2> QED BY <1>1, <1>2, <2>1, <2>2, <2>3, <2>4, <2>5, Zenon DEF Opened
<1>21. Done'
  <2>1. ASSUME ~ unlucky, NEW i \in 1 .. launched
        PROVE  Process(Utility, passes[i]) \in procs \/ written'[passes[i]] = Len(Numbers)
    <3>1. passes \in Seq(1 .. 2) /\ launched <= Len(passes) /\ launched \in Nat
      BY <1>1, PassesAre DEF IInv, TypeOK, Recorded, Attempts
    <3>2. passes[i] \in 1 .. 2
      BY <3>1
    <3>3. CASE passes[i] = p.part
      BY <1>3, <3>3
    <3>4. CASE passes[i] # p.part
      BY <1>1, <1>8, <2>1, <3>2, <3>4 DEF Recorded, Done
    <3> QED BY <3>3, <3>4
  <2> QED BY <1>1, <1>2, <2>1, Zenon DEF Done
<1>22. ShownOfRun'
  BY <1>1 DEF ShownOfRun
<1>23. Kept'
  <2>1. ASSUME NEW j \in 1 .. Len(after) PROVE RightItem(j, after[j])
    <3>1. CASE j = k
      BY <1>3, <1>5, <1>7, <1>10, <1>14, <3>1 DEF RightItem
    <3>2. CASE j # k /\ j <= Len(items)
      BY <1>13, <1>14, <3>2
    <3>3. CASE j # k /\ ~ (j <= Len(items))
      <4>1. after[j] = Hole
        BY <1>14, <3>3
      <4>2. Hole.by = Nobody
        BY DEF Hole, Written
      <4> QED BY <4>1, <4>2 DEF RightItem
    <3> QED BY <3>1, <3>2, <3>3
  <2>2. \A name : Right(name)' = Right(name)
    BY <1>2, Zenon DEF Right, Workload, Size
  <2>3. RightItems(output.items)'
    BY <1>14, <1>15, <2>1, <2>2, Zenon DEF RightItems, RightItem
  <2> QED BY <1>1, <1>2, <2>3, KeptStays DEF Recorded
<1> QED BY <1>18, <1>19, <1>20, <1>21, <1>22, <1>23 DEF Recorded

\* A pass that ends has written all its numbers, or had bad luck, or never had any.
LEMMA RecordedByEnding ==
  ASSUME IInv, Recorded, NEW p \in procs, Pass(p), PassEnds(p) \/ PassIsLost(p)
  PROVE  Recorded'
<1>1. /\ UNCHANGED <<setup, garbler>> /\ launched' = launched /\ shown' = shown /\ tool # "mage"
      /\ pc \in {"tool", "wait"} /\ procs' = procs \ {p} /\ output' = output /\ written' = written
      /\ pc' = pc \/ (pc' = "lost" /\ ~ Answers)
  BY DEF Pass, PassEnds, PassIsLost, file, Answers
<1>2. /\ task' = task /\ run' = run /\ tool' = tool /\ threads' = threads /\ passes' = passes
      /\ Answers' = Answers /\ Numbers' = Numbers /\ Utility' = Utility
      /\ \A part : Process(Utility, part)' = Process(Utility, part)
  BY <1>1, SameRun
<1>3. (~ unlucky' => ~ unlucky) /\ (Answers /\ ~ unlucky' => written[p.part] = Len(Numbers))
  <2>1. CASE PassEnds(p)
    BY <2>1, Zenon DEF PassEnds
  <2>2. CASE PassIsLost(p)
    <3>1. ~ Answers
      BY <2>2 DEF PassIsLost, Answers
    <3>2. unlucky' = unlucky
      BY <2>2 DEF PassIsLost
    <3> QED BY <3>1, <3>2, Zenon
  <2> QED BY <2>1, <2>2
<1>4. p.part \in 1 .. 2 /\ p = Process(Utility, p.part)
  BY <1>1, PassesApart DEF Recorded
<1>5. Prepared'
  BY <1>1, <1>2 DEF Recorded, Prepared
<1>6. Attempts'
  <2>1. /\ launched <= Len(passes)
        /\ \A q \in procs' : \E i \in 1 .. launched : q = Process(Utility, passes[i])
        /\ pc' = "wait" /\ ~ unlucky' => launched = Len(passes)
    BY <1>1, <1>3 DEF Recorded, Attempts
  <2>2. \A i : Process(Utility, passes[i])' = Process(Utility, passes[i])
    BY <1>2, Zenon DEF Process
  <2> QED BY <1>1, <1>2, <2>1, <2>2 DEF Attempts, Process
<1>7. Opened'
  <2>1. output'.by.run <= run' /\ pc' \notin {"generate", "monitor"} /\ (pc' = "lost" => ~ Answers)
    BY <1>1, <1>2 DEF Recorded, Opened
  <2>2. Own(output)' = Own(output) /\ FilledBy(output.by.part)' = FilledBy(output.by.part)
    BY <1>1, <1>2, Zenon DEF Own, FilledBy, OwnItem
  <2> QED BY <1>1, <1>2, <2>1, <2>2, Zenon DEF Recorded, Opened
<1>8. Done'
  <2>1. ASSUME Answers, ~ unlucky', NEW i \in 1 .. launched
        PROVE  Process(Utility, passes[i]) \in procs' \/ written[passes[i]] = Len(Numbers)
    <3>1. CASE Process(Utility, passes[i]) = p
      <4>1. p.part = passes[i]
        BY <3>1 DEF Process
      <4> QED BY <1>3, <2>1, <4>1
    <3>2. CASE Process(Utility, passes[i]) # p
      BY <1>1, <1>3, <2>1, <3>2 DEF Recorded, Done
    <3> QED BY <3>1, <3>2
  <2> QED BY <1>1, <1>2, <2>1, Zenon DEF Done
<1>9. ShownOfRun'
  BY <1>1 DEF ShownOfRun
<1>10. Kept'
  BY <1>1, <1>2, KeptStays DEF Recorded
<1> QED BY <1>5, <1>6, <1>7, <1>8, <1>9, <1>10 DEF Recorded

\* An engine of mage, whose output has no number anybody looks at.
LEMMA RecordedByEngine ==
  ASSUME IInv, Recorded, NEW p \in procs, EndMage(p)
  PROVE  Recorded'
<1>1. /\ UNCHANGED <<setup, garbler>> /\ launched' = launched /\ shown' = shown /\ tool = "mage"
      /\ pc \in {"plan", "wait"} /\ pc' = pc /\ written' = written /\ unlucky' = unlucky
      /\ output' = output \/ (output'.items = <<>> /\ output'.by = p)
  BY DEF EndMage
<1>2. /\ task' = task /\ run' = run /\ tool' = tool
  BY <1>1, SameRun
<1>3. p.run = run /\ run \in Nat
  BY ExperimentAssumption DEF IInv, TypeOK
<1>4. Prepared' /\ Attempts' /\ Done' /\ ShownOfRun'
  BY <1>1, <1>2 DEF Recorded, Prepared, Attempts, Done, ShownOfRun
<1>5. Opened'
  <2>1. \A part \in 1 .. 2 : written[part] = NotOpen
    BY <1>1 DEF Recorded, Opened
  <2>2. output'.by.run <= run'
    BY <1>1, <1>2, <1>3 DEF Recorded, Opened
  <2>3. pc' \notin {"lost", "generate", "monitor"}
    BY <1>1
  <2> QED BY <1>1, <1>2, <2>1, <2>2, <2>3, Zenon DEF Opened
<1>6. Kept'
  <2>1. Len(<<>>) = 0 /\ <<>> = [k \in 1 .. 0 |-> <<>>[k]]
    OBVIOUS
  <2>2. output' = output \/ RightItems(output.items)'
    BY <1>1, <2>1 DEF RightItems, List
  <2> QED BY <1>1, <1>2, <2>2, KeptStays DEF Recorded
<1> QED BY <1>4, <1>5, <1>6 DEF Recorded

\* What is shown is the output as it stands when no process is left.
LEMMA RecordedByShow == IInv /\ Recorded /\ Show => Recorded'
<1> SUFFICES ASSUME IInv, Recorded, Show PROVE Recorded'
  OBVIOUS
<1>1. /\ UNCHANGED <<setup, garbler>> /\ launched' = launched /\ unlucky' = unlucky
      /\ procs' = procs /\ procs = {} /\ pc = "wait" /\ pc' = "idle" /\ shown' = output
      /\ output' = output /\ written' = written
  BY DEF Show, file
<1>2. /\ task' = task /\ run' = run /\ tool' = tool /\ threads' = threads /\ passes' = passes
      /\ Answers' = Answers /\ Numbers' = Numbers /\ Utility' = Utility
      /\ \A part : Process(Utility, part)' = Process(Utility, part)
  BY <1>1, SameRun
<1>3. Prepared' /\ Attempts'
  BY <1>1, <1>2 DEF Recorded, Prepared, Attempts
<1>4. Opened'
  <2>1. output'.by.run <= run'
    BY <1>1, <1>2 DEF Recorded, Opened
  <2>2. Own(output)' = Own(output) /\ FilledBy(output.by.part)' = FilledBy(output.by.part)
    BY <1>1, <1>2, Zenon DEF Own, FilledBy, OwnItem
  <2>3. pc' \notin {"lost", "generate", "monitor"}
    BY <1>1
  <2> QED BY <1>1, <1>2, <2>1, <2>2, <2>3, Zenon DEF Recorded, Opened
<1>5. Done'
  BY <1>1, <1>2, Zenon DEF Recorded, Done
<1>6. ShownOfRun'
  <2>1. ASSUME tool \in {"baseline", "osprey"}, run > 0, Own(output) PROVE Answers
    BY <2>1 DEF Recorded, Opened
  <2>2. ASSUME tool \in {"baseline", "osprey"}, run > 0, Answers, ~ unlucky
        PROVE  /\ Own(output) /\ Len(output.items) = Len(Numbers)
               /\ \A k \in 1 .. Len(output.items) : output.items[k].by.run = run
    <3>1. /\ passes \in Seq(1 .. 2) /\ Len(passes) \in 0 .. 2 /\ Len(passes) > 0
          /\ launched = Len(passes)
      BY <1>1, <2>2, PassesAre DEF IInv, TypeOK, Recorded, Attempts, Tools
    <3>2. Len(Numbers) \in Nat
      BY <2>2, AnswersAreRight DEF Recorded
    <3>3. \A i \in 1 .. launched : passes[i] \in 1 .. 2 /\ written[passes[i]] = Len(Numbers)
      BY <1>1, <2>2, <3>1 DEF Recorded, Done
    <3>4. 1 \in 1 .. launched
      BY <3>1
    <3>5. passes[1] \in 1 .. 2 /\ written[passes[1]] # NotOpen
      BY <3>2, <3>3, <3>4 DEF NotOpen
    <3>6. Own(output)
      BY <3>5 DEF Recorded, Opened
    <3>7. FilledBy(output.by.part) /\ written[output.by.part] = Len(Numbers)
      BY <2>2, <3>3, <3>6 DEF Recorded, Opened
    <3>8. Len(output.items) \in Nat
      BY DEF Recorded, Kept, RightItems, List
    <3> QED BY <3>2, <3>6, <3>7, <3>8 DEF FilledBy
  <2> QED BY <1>1, <1>2, <2>1, <2>2 DEF ShownOfRun, Own
<1>7. Kept'
  <2>1. \A name : Right(name)' = Right(name)
    BY <1>2, Zenon DEF Right, Workload, Size
  <2>2. RightItems(shown.items)'
    BY <1>1, <2>1, Zenon DEF Recorded, Kept, RightItems, RightItem
  <2> QED BY <1>1, <1>2, <2>2, KeptStays DEF Recorded
<1> QED BY <1>3, <1>4, <1>5, <1>6, <1>7 DEF Recorded

\* Every step keeps the record.
LEMMA RecordedNext == IInv /\ Recorded /\ [Next]_vars => Recorded'
<1> SUFFICES ASSUME IInv, Recorded, [Next]_vars PROVE Recorded'
  OBVIOUS
<1>1. CASE UNCHANGED vars
  BY <1>1, RecordedStays DEF vars, setup, file
<1>2. CASE Script
  BY <1>2, RecordedByLaunch, RecordedByGenerate, RecordedByStart, RecordedByShow DEF Script
<1>3. CASE Passing
  <2>1. PICK p \in procs : Pass(p) \/ EndMage(p)
    BY <1>3 DEF Passing
  <2>2. ASSUME Pass(p)
        PROVE  PassOpens(p) \/ PassWrites(p) \/ PassEnds(p) \/ PassIsLost(p)
    BY <2>2, Zenon DEF Pass
  <2> QED BY <2>1, <2>2, RecordedByOpening, RecordedByWriting, RecordedByEnding, RecordedByEngine
<1>4. CASE \E r \in Runs : Look(r) \/ LetGo(r)
  BY <1>4, RecordedStays DEF Look, LetGo
<1>5. CASE CkksByHand \/ PlannerByHand
  BY <1>5, RecordedStays DEF CkksByHand, PlannerByHand
<1> QED BY <1>1, <1>2, <1>3, <1>4, <1>5 DEF Next

\* The output is opened only by a run whose command can be served, whatever example_input
\* left of its input; and if it can be, and every pass was started and wrote all of its
\* numbers, what ckks.sh shows at the end (:204) has as many as expected and all of them
\* of this run, though the passes make the file empty (ckks_utils.cpp:62) and write it
\* (:72-77) in any order.
THEOREM FitShown == Spec => []FitIsShown
<1>1. IInv /\ Recorded => FitIsShown
  <2> SUFFICES ASSUME IInv, Recorded PROVE FitIsShown
    OBVIOUS
  <2>1. ASSUME pc = "lost" PROVE ~ Fit
    <3>1. run > 0 /\ ~ Answers
      BY <2>1 DEF IInv, Course, Recorded, Opened
    <3> QED BY <3>1, AnswersAreRight DEF Recorded
  <2>2. ASSUME pc = "idle", tool \in {"baseline", "osprey"}, run > 0
        PROVE  /\ shown.by.run = run => Fit
               /\ Fit /\ ~ unlucky =>
                    /\ shown.by.run = run /\ DOMAIN shown.items = DOMAIN Inputs[task].expected
                    /\ \A k \in DOMAIN shown.items : shown.items[k].by.run = run
    <3>1. /\ Answers <=> Fit
          /\ Answers => DOMAIN Inputs[task].expected = 1 .. Len(Numbers)
      BY <2>2, AnswersAreRight DEF Recorded
    <3>2. DOMAIN shown.items = 1 .. Len(shown.items)
      BY DEF Recorded, Kept, RightItems, List
    <3>3. /\ Own(shown) => Answers
          /\ Answers /\ ~ unlucky =>
               /\ Own(shown) /\ Len(shown.items) = Len(Numbers)
               /\ \A k \in 1 .. Len(shown.items) : shown.items[k].by.run = run
      BY <2>2 DEF Recorded, ShownOfRun
    <3>4. Own(shown) <=> shown.by.run = run
      BY <2>2 DEF Own
    <3> QED BY <3>1, <3>2, <3>3, <3>4, Zenon
  <2> QED BY <2>1, <2>2, Zenon DEF FitIsShown
<1> QED BY <1>1, InitInvariant, NextInvariant, RecordedInitially, RecordedNext, PTL DEF Spec

\* Every number that is shown is the one example_input expects in its place, for every
\* size, by any number of threads, even of a file that some pass did not finish
\* (ckks_utils.cpp:61-79) or two passes wrote; but for the numbers of a speculative pass
\* and the holes.  Several threads of the naive product take B to be stored by rows
\* (pckks_utils.cpp:463), and compute the product of that B.
THEOREM ExpectedShown == Spec => []ShownIsExpected
<1>1. IInv /\ Recorded => ShownIsExpected
  <2> SUFFICES ASSUME IInv, Recorded, NEW k \in DOMAIN shown.items,
                      shown.items[k].by # Nobody, ~ Speculative(shown.items[k].by)
               PROVE  /\ k \in DOMAIN Right(shown.items[k].by.name)
                      /\ shown.items[k].value = Right(shown.items[k].by.name)[k]
    BY Zenon DEF ShownIsExpected
  <2>1. DOMAIN shown.items = 1 .. Len(shown.items)
    BY DEF Recorded, Kept, RightItems, List
  <2>2. RightItem(k, shown.items[k])
    BY <2>1 DEF Recorded, Kept, RightItems
  <2> QED BY <2>2, Zenon DEF RightItem
<1> QED BY <1>1, InitInvariant, NextInvariant, RecordedInitially, RecordedNext, PTL DEF Spec

=================================================================================
