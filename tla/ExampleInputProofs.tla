--------------------------- MODULE ExampleInputProofs ---------------------------
(***************************************************************************)
(* Proofs about ExampleInput: its invariant, which commands are undefined, *)
(* and what the files of a run hold.                                       *)
(***************************************************************************)
EXTENDS ExampleInput, ExampleProblemsProofs

-----------------------------------------------------------------------------
(* The state machine.                                                      *)

\* What a run has got so far: the files it opened are empty until its workload writes.
Underway ==
  /\ pc # "idle" => command.argc \in {4, 5} /\ how = "none" /\ complaint = "none"
  /\ pc = "work" /\ Option # "check" =>
       \A f \in DOMAIN files : OfRun(f) => files[f] = Holding(<<>>)

IInv == TypeOK /\ Underway /\ RefusedAllOrNothing

LEMMA InitIInv == Init => IInv
<1> SUFFICES ASSUME Init PROVE IInv
  OBVIOUS
<1>1. TypeOK
  <2>1. /\ DOMAIN files = Kinds \X WorkerIds
        /\ \A f \in DOMAIN files : files[f] = Absent
    BY DEF Init
  <2>2. \A f \in DOMAIN files : files[f].there \in BOOLEAN
                                /\ (files[f].there \/ files[f].items = <<>>)
    <3>1. Absent.there = FALSE /\ Absent.items = <<>>
      BY DEF Absent
    <3>2. Absent.there \in BOOLEAN
      BY <3>1
    <3> QED BY <2>1, <3>1, <3>2
  <2>3. runs \in 0 .. MaxRuns
    BY InputAssumption DEF Init
  <2> QED BY <2>1, <2>2, <2>3 DEF Init, TypeOK, Endings, Complaints
<1>2. Underway
  BY DEF Init, Underway
<1>3. RefusedAllOrNothing
  BY DEF Init, RefusedAllOrNothing, Refused, NoCommand
<1> QED BY <1>1, <1>2, <1>3 DEF IInv

LEMMA StartIInv == IInv /\ Start => IInv'
<1> SUFFICES ASSUME IInv, Start PROVE IInv'
  OBVIOUS
<1> USE DEF IInv, Start, Ends
<1>1. TypeOK'
  BY InputAssumption DEF TypeOK, Endings, Complaints
<1>2. Underway'
  BY DEF Underway
<1>3. RefusedAllOrNothing'
  BY DEF RefusedAllOrNothing, Refused
<1> QED BY <1>1, <1>2, <1>3

LEMMA OpenIInv == IInv /\ OpenWriters => IInv'
<1> SUFFICES ASSUME IInv, OpenWriters PROVE IInv'
  OBVIOUS
<1>1. TypeOK'
  BY DEF IInv, OpenWriters, TypeOK, Holding
<1>2. Underway'
  <2>1. pc' # "idle" => command'.argc \in {4, 5} /\ how' = "none" /\ complaint' = "none"
    BY DEF IInv, OpenWriters, Underway
  <2>2. Option' # "check" => \A f \in DOMAIN files' : OfRun(f)' => files'[f] = Holding(<<>>)
    BY DEF OpenWriters, OfRun, Workers, Option
  <2> QED BY <2>1, <2>2 DEF Underway
<1>3. RefusedAllOrNothing'
  BY DEF OpenWriters, RefusedAllOrNothing, Refused
<1> QED BY <1>1, <1>2, <1>3 DEF IInv

\* A run that ends before its workload leaves the files as it opened them.
LEMMA EarlyEnd ==
  ASSUME IInv, pc = "work", pc' = "idle", how' \in Endings, complaint' \in Complaints,
         UNCHANGED <<task, command, verdict, files, runs>>
  PROVE  IInv'
<1>1. TypeOK'
  BY DEF IInv, TypeOK
<1>2. Underway'
  BY DEF Underway
<1>3. RefusedAllOrNothing'
  BY DEF IInv, Underway, RefusedAllOrNothing, Refused, OfRun, Option, Workers
<1> QED BY <1>1, <1>2, <1>3 DEF IInv

LEMMA RefuseIInv == IInv /\ Refuse => IInv'
  BY EarlyEnd DEF Refuse, Ends, Endings, Complaints

LEMMA ComplainIInv == IInv /\ Complain => IInv'
  BY EarlyEnd DEF Complain, Ends, Endings, Complaints

LEMMA GenerateIInv == IInv /\ Generate => IInv'
<1> SUFFICES ASSUME IInv, Generate PROVE IInv'
  OBVIOUS
<1> DEFINE writes == Writes(Problem, Size, Workers, Option, command.draw)
<1>1. CASE how' = "undefined" /\ complaint' = "none" /\ UNCHANGED files
  BY <1>1, EarlyEnd DEF Generate, Ends, Endings, Complaints
<1>2. CASE /\ how' = "returned" /\ complaint' = "none"
           /\ files' = [f \in DOMAIN files |->
                          IF Option # "check" /\ OfRun(f)
                          THEN Holding(ItemsOf(writes, f[1], f[2])) ELSE files[f]]
  <2> HIDE DEF writes
  <2>1. TypeOK'
    BY <1>2 DEF IInv, Generate, Ends, TypeOK, Endings, Complaints, Holding
  <2>2. Underway'
    BY DEF Generate, Ends, Underway
  <2>3. RefusedAllOrNothing'
    BY <1>2 DEF RefusedAllOrNothing, Refused
  <2> QED BY <2>1, <2>2, <2>3 DEF IInv
<1> QED BY <1>1, <1>2 DEF Generate, Ends

LEMMA CheckIInv == IInv /\ Check => IInv'
<1> SUFFICES ASSUME IInv, Check PROVE IInv'
  OBVIOUS
<1>1. TypeOK'
  BY DEF IInv, Check, Ends, TypeOK, Endings, Complaints
<1>2. Underway'
  BY DEF Check, Ends, Underway
<1>3. RefusedAllOrNothing'
  BY DEF Check, Checks, RefusedAllOrNothing, Refused, Option
<1> QED BY <1>1, <1>2, <1>3 DEF IInv

LEMMA MageIInv == IInv /\ Mage => IInv'
<1> SUFFICES ASSUME IInv, Mage PROVE IInv'
  OBVIOUS
<1>1. PICK parts : files' = [f \in DOMAIN files |-> IF f[1] = "output" /\ f[2] < Workers
                                        THEN Holding(parts[f[2] + 1]) ELSE files[f]]
  BY DEF Mage
<1>2. TypeOK'
  BY <1>1 DEF IInv, Mage, TypeOK, Holding
<1>3. Underway'
  BY DEF Mage, Generated, Underway
<1>4. RefusedAllOrNothing'
  BY DEF Mage, Generated, RefusedAllOrNothing, Refused
<1> QED BY <1>2, <1>3, <1>4 DEF IInv

THEOREM Invariant == Spec => []IInv
<1>1. IInv /\ [Next]_vars => IInv'
  <2> SUFFICES ASSUME IInv, [Next]_vars PROVE IInv'
    OBVIOUS
  <2>1. CASE UNCHANGED vars
    BY <2>1 DEF vars, IInv, TypeOK, Underway, RefusedAllOrNothing, Refused, OfRun, Workers, Option
  <2> QED BY <2>1, StartIInv, OpenIInv, RefuseIInv, ComplainIInv, GenerateIInv, CheckIInv,
             MageIInv DEF Next
<1> QED BY <1>1, InitIInv, PTL DEF Spec

\* A run that is refused (:311, :406-409, :616, the options' last branches) leaves the
\* files of its workers all empty: the writers of the run before it are truncated
\* (:101-110) before anything is looked at, and nothing is written in between.
THEOREM RefusedLeavesNothing == Spec => []RefusedAllOrNothing
  BY Invariant, PTL DEF IInv

\* The type invariant.
THEOREM TypeCorrect == Spec => []TypeOK
  BY Invariant, PTL DEF IInv

-----------------------------------------------------------------------------
(* Which commands end in undefined behaviour.                              *)

\* "check" of a workload that does not look at it and writes.
ChecksBlindly ==
  /\ Option = "check" /\ Problem \in KnownProblems \ (OptionProblems \cup {"loop_join"})
  /\ Size > 0 \/ Problem \notin {"password", "merge_sorted", "real_cpir"}

\* A product whose rows cannot be cut evenly.
CutsUnevenly ==
  /\ Problem \in MatrixPairs /\ Option \in {"", "random"}
  /\ \E l \in 0 .. MaxWorkers : Workers = Power2[l] /\ Size % Power2[(l + 1) \div 2] # 0

LEMMA CommandTypes ==
  ASSUME TypeOK, command.argc \in {4, 5}
  PROVE  /\ Size \in Nat /\ Workers \in Nat \ {0} /\ Workers <= MaxWorkers
         /\ Option = "random" => DrawnFor(Problem, Size, command.draw)
<1>1. command \in Commands[task]
  <2>1. NoCommand.argc = 0
    BY DEF NoCommand
  <2>2. command # NoCommand
    BY <2>1
  <2> QED BY <2>2 DEF TypeOK
<1>2. task \in Tasks
  BY DEF TypeOK
<1>3. Size \in Nat /\ Workers \in 1 .. MaxWorkers /\ MaxWorkers \in Nat
  BY <1>1, <1>2, InputAssumption DEF Size, Workers
<1>4. Option = "random" => DrawnFor(Problem, Size, command.draw)
  BY <1>1, <1>2, DrawAssumption DEF Option, Problem, Size
<1> QED BY <1>3, <1>4

\* The last step of a workload.
Misses(writes) ==
  \/ DividesByZero
  \/ Option = "check" /\ writes # <<>>
  \/ \E k \in DOMAIN writes : writes[k].worker \notin 0 .. Workers - 1

LEMMA MissesExactly ==
  ASSUME TypeOK, command.argc \in {4, 5}, ~ Aborts, ~ Checks, ~ BadOption, Problem \in KnownProblems
  PROVE  Misses(Writes(Problem, Size, Workers, Option, command.draw))
           <=> ChecksBlindly \/ CutsUnevenly
<1> DEFINE writes == Writes(Problem, Size, Workers, Option, command.draw)
<1> SUFFICES Misses(writes) <=> ChecksBlindly \/ CutsUnevenly
  OBVIOUS
<1>1. /\ Size \in Nat /\ Workers \in Nat \ {0} /\ Workers <= MaxWorkers
      /\ Option = "random" => DrawnFor(Problem, Size, command.draw)
  BY CommandTypes
<1>2. ASSUME Placed(Workers, writes)
      PROVE  ~ \E k \in DOMAIN writes : writes[k].worker \notin 0 .. Workers - 1
  <2>1. DOMAIN writes = 1 .. Len(writes)
    BY <1>2 DEF Placed, List
  <2> QED BY <1>2, <2>1 DEF Placed
<1>3. CASE Problem \in KnownProblems \ (OptionProblems \cup {"loop_join"})
  <2>1. /\ Placed(Workers, writes)
        /\ Len(writes) # 0 <=>
             Size > 0 \/ Problem \notin {"password", "merge_sorted", "real_cpir"}
    BY <1>1, <1>3, SimpleWrites
  <2> HIDE DEF writes
  <2>2. writes # <<>> <=> Len(writes) # 0
    BY <2>1 DEF Placed, List
  <2>3. Problem \notin MatrixPairs
    BY <1>3 DEF OptionProblems
  <2> QED BY <1>2, <1>3, <2>1, <2>2, <2>3 DEF Misses, DividesByZero, ChecksBlindly, CutsUnevenly
<1>4. CASE Problem \in MatrixVectors \cup {"full_sort", "binary_fc_layer", "loop_join"}
  <2>1. Option # "check"
    BY <1>4 DEF BadOption, OptionProblems, Checks
  <2>2. Problem \notin MatrixPairs
    BY <1>4 DEF MatrixPairs, MatrixVectors
  <2>3. Problem = "binary_fc_layer" => Size % BatchSize = 0
    BY DEF Aborts
  <2>4. Placed(Workers, writes)
    BY <1>1, <1>4, <2>3, OtherWrites
  <2> HIDE DEF writes
  <2> QED BY <1>2, <2>1, <2>2, <2>4 DEF Misses, DividesByZero, ChecksBlindly, CutsUnevenly
<1>5. CASE Problem \in MatrixPairs
  <2>1. Option \in {"", "random"} /\ Problem \in OptionProblems
    BY <1>5 DEF BadOption, OptionProblems
  <2>2. PICK l \in 0 .. Workers : Workers = Power2[l]
    BY <1>5 DEF Aborts, PowerOfTwo
  <2> DEFINE rows == PortionsA(Workers)
             columns == PortionsB(Workers)
  <2>3. ASSUME NEW m \in Nat, Workers = Power2[m]
        PROVE  rows = Power2[(m + 1) \div 2] /\ Grid(Workers, rows, columns)
    BY <2>3, PortionsOfPower DEF Grid
  <2>4. l \in Nat /\ l \in 0 .. MaxWorkers
    <3>1. l < Workers
      BY <1>1, <2>2, Power2Exceeds
    <3> QED BY <1>1, <3>1, InputAssumption
  <2>5. Grid(Workers, rows, columns)
    BY <2>2, <2>3, <2>4
  <2> HIDE DEF rows, columns
  <2>6. CutsUnevenly <=> Size % rows # 0
    <3>1. Size % rows # 0 => CutsUnevenly
      BY <1>5, <2>1, <2>2, <2>3, <2>4 DEF CutsUnevenly
    <3>2. ASSUME CutsUnevenly PROVE Size % rows # 0
      <4>1. PICK m \in 0 .. MaxWorkers : Workers = Power2[m] /\ Size % Power2[(m + 1) \div 2] # 0
        BY <3>2 DEF CutsUnevenly
      <4>2. m \in Nat
        BY <4>1
      <4> QED BY <2>3, <4>1, <4>2
    <3> QED BY <3>1, <3>2
  <2>7. PICK owner, a, b, cells :
          /\ writes = Matrices(Size, Workers, owner, a, b, cells)
          /\ Listed(Size * Size, a) /\ Listed(Size * Size, b) /\ Listed(Size * Size, cells)
    BY <1>1, <1>5, ProductWrites
  <2> HIDE DEF writes
  <2>8. DividesByZero <=> Size > 0 /\ Size < rows
    BY <1>5 DEF DividesByZero, rows
  <2>9. rows \in Nat \ {0}
    BY <2>5 DEF Grid
  <2>10. ~ ChecksBlindly /\ Option # "check"
    BY <2>1 DEF ChecksBlindly
  <2>11. CASE Size % rows = 0
    <3>1. ~ DividesByZero
      <4>1. Size < rows => Size % rows = Size
        BY <1>1, <2>9
      <4> QED BY <1>1, <2>8, <2>11, <4>1
    <3>2. Placed(Workers, writes)
      BY <1>1, <2>5, <2>7, <2>11, MatricesPlaced DEF Listed, PlacedShare
    <3> QED BY <1>2, <2>6, <2>10, <2>11, <3>1, <3>2 DEF Misses
  <2>12. CASE Size % rows # 0 /\ Size >= rows
    <3>1. \E k \in DOMAIN writes : writes[k].worker \notin 0 .. Workers - 1
      BY <1>1, <2>5, <2>7, <2>12, MatricesMisplaced DEF Listed
    <3> QED BY <2>6, <2>12, <3>1 DEF Misses
  <2>13. CASE Size % rows # 0 /\ Size < rows
    <3>1. Size # 0
      <4>1. 0 % rows = 0
        BY <2>9
      <4> QED BY <2>13, <4>1
    <3>2. DividesByZero
      BY <1>1, <2>8, <2>13, <3>1
    <3> QED BY <2>6, <2>13, <3>2 DEF Misses
  <2> QED BY <1>1, <2>9, <2>11, <2>12, <2>13
<1> QED BY <1>3, <1>4, <1>5 DEF OptionProblems, KnownProblems

LEMMA UndefinedStays ==
  ASSUME IInv, UndefinedOnlyWhen, [Next]_vars
  PROVE  UndefinedOnlyWhen'
<1>1. ASSUME pc' # "idle" \/ command'.argc \notin {4, 5}
      PROVE  UndefinedOnlyWhen'
  BY <1>1 DEF UndefinedOnlyWhen
<1>2. ASSUME UNCHANGED <<task, command>>,
             how' = "undefined" <=> ChecksBlindly \/ CutsUnevenly
      PROVE  UndefinedOnlyWhen'
  <2>1. Problem' = Problem /\ Size' = Size /\ Option' = Option /\ Workers' = Workers
    BY <1>2 DEF Problem, Size, Option, Workers
  <2>2. ChecksBlindly' = ChecksBlindly /\ CutsUnevenly' = CutsUnevenly
    BY <2>1 DEF ChecksBlindly, CutsUnevenly
  <2>3. how' = "undefined" <=> ChecksBlindly' \/ CutsUnevenly'
    BY <1>2, <2>2
  <2> QED BY <2>3, Zenon DEF UndefinedOnlyWhen, ChecksBlindly, CutsUnevenly
<1>3. CASE Start
  BY <1>1, <1>3 DEF Start, Ends
<1>4. CASE OpenWriters
  BY <1>1, <1>4 DEF OpenWriters
<1>5. CASE Refuse
  <2>1. ~ ChecksBlindly
    BY <1>5 DEF Refuse, Aborts, ChecksBlindly, OptionProblems
  <2>2. ~ CutsUnevenly
    <3>1. SUFFICES ASSUME CutsUnevenly PROVE FALSE
      OBVIOUS
    <3>2. PICK l \in 0 .. MaxWorkers : Workers = Power2[l]
      BY <3>1 DEF CutsUnevenly
    <3>3. l \in 0 .. Workers
      BY <3>2, Power2Exceeds
    <3>4. PowerOfTwo(Workers) /\ Problem \in MatrixPairs
      BY <3>1, <3>2, <3>3 DEF PowerOfTwo, CutsUnevenly
    <3> QED BY <1>5, <3>4 DEF Refuse, Aborts, MatrixPairs
  <2> QED BY <1>2, <1>5, <2>1, <2>2 DEF Refuse, Ends
<1>6. CASE Complain
  <2>1. ~ ChecksBlindly /\ ~ CutsUnevenly
    BY <1>6 DEF Complain, BadOption, ChecksBlindly, CutsUnevenly, KnownProblems, OptionProblems
  <2> QED BY <1>2, <1>6, <2>1 DEF Complain, Ends
<1>7. CASE Generate
  <2> DEFINE writes == Writes(Problem, Size, Workers, Option, command.draw)
  <2>1. how' = "undefined" <=> Misses(writes)
    BY <1>7 DEF Generate, Ends, Misses
  <2>2. Misses(writes) <=> ChecksBlindly \/ CutsUnevenly
    BY <1>7, MissesExactly DEF Generate, IInv, Underway
  <2> QED BY <1>2, <1>7, <2>1, <2>2 DEF Generate
<1>8. CASE Check
  <2>1. ~ ChecksBlindly /\ ~ CutsUnevenly
    BY <1>8 DEF Check, Checks, ChecksBlindly, CutsUnevenly, MatrixPairs
  <2> QED BY <1>2, <1>8, <2>1 DEF Check, Ends
<1>9. CASE Mage \/ UNCHANGED vars
  <2>1. UNCHANGED <<task, command, pc, how>>
    BY <1>9 DEF Mage, vars
  <2>2. Problem' = Problem /\ Size' = Size /\ Option' = Option /\ Workers' = Workers
    BY <2>1 DEF Problem, Size, Option, Workers
  <2> QED BY <2>1, <2>2 DEF UndefinedOnlyWhen
<1> QED BY <1>3, <1>4, <1>5, <1>6, <1>7, <1>8, <1>9 DEF Next

\* example_input uses a writer that is not there (:97-99), or divides by zero (:330-333),
\* on exactly the commands UndefinedOnlyWhen names, for every workload, size, number of
\* workers and content drawn: every other record is dealt to a worker that has a writer.
THEOREM UndefinedExactly == Spec => []UndefinedOnlyWhen
<1>1. Init => UndefinedOnlyWhen
  <2>1. NoCommand.argc = 0
    BY DEF NoCommand
  <2>2. Init => command.argc = 0
    BY <2>1 DEF Init
  <2>3. command.argc = 0 => command.argc \notin {4, 5}
    OBVIOUS
  <2> QED BY <2>2, <2>3, Zenon DEF UndefinedOnlyWhen
<1>2. IInv /\ UndefinedOnlyWhen /\ [Next]_vars => UndefinedOnlyWhen'
  BY UndefinedStays
<1> QED BY <1>1, <1>2, Invariant, PTL DEF Spec

-----------------------------------------------------------------------------
(* What the files hold.                                                    *)

\* What a run writes, as Generate has it.
WrittenTo(kind, w) == ItemsOf(Writes(Problem, Size, Workers, Option, command.draw), kind, w)

\* Once a run has generated, its files hold what it wrote.
Made ==
  Generated =>
    /\ command.argc \in {4, 5} /\ Problem \in KnownProblems
    /\ ~ Aborts /\ ~ BadOption
    /\ ~ Misses(Writes(Problem, Size, Workers, Option, command.draw))
    /\ \A f \in Kinds \X WorkerIds : OfRun(f) => files[f] = Holding(WrittenTo(f[1], f[2]))

LEMMA MadeStays ==
  ASSUME IInv, Made, [Next]_vars
  PROVE  Made'
<1>1. ASSUME ~ Generated' PROVE Made'
  BY <1>1 DEF Made
<1>2. CASE Start
  BY <1>1, <1>2 DEF Start, Ends, Generated
<1>3. CASE OpenWriters
  BY <1>1, <1>3 DEF OpenWriters, Generated
<1>4. CASE Refuse
  BY <1>1, <1>4 DEF Refuse, Ends, Generated
<1>5. CASE Complain
  BY <1>1, <1>5 DEF Complain, Ends, Generated
<1>6. CASE Check
  BY <1>1, <1>6 DEF Check, Checks, Ends, Generated, Option
<1>7. ASSUME UNCHANGED <<task, command>>, command.argc \in {4, 5}, Problem \in KnownProblems,
             ~ Aborts, ~ BadOption,
             ~ Misses(Writes(Problem, Size, Workers, Option, command.draw)),
             \A f \in Kinds \X WorkerIds : OfRun(f) => files'[f] = Holding(WrittenTo(f[1], f[2]))
      PROVE  Made'
  <2>1. Problem' = Problem /\ Size' = Size /\ Option' = Option /\ Workers' = Workers
    BY <1>7 DEF Problem, Size, Option, Workers
  <2>2. Aborts' = Aborts /\ BadOption' = BadOption /\ DividesByZero' = DividesByZero
    BY <2>1 DEF Aborts, BadOption, DividesByZero
  <2>3. Misses(Writes(Problem, Size, Workers, Option, command.draw))'
          = Misses(Writes(Problem, Size, Workers, Option, command.draw))
    BY <1>7, <2>1, <2>2, Zenon DEF Misses
  <2>4. \A f : OfRun(f)' = OfRun(f) /\ WrittenTo(f[1], f[2])' = WrittenTo(f[1], f[2])
    BY <1>7, <2>1, Zenon DEF OfRun, WrittenTo
  <2> QED BY <1>7, <2>1, <2>2, <2>3, <2>4, Zenon DEF Made
<1>8. CASE Generate
  <2>1. CASE how' = "undefined"
    BY <1>1, <2>1 DEF Generated
  <2>2. CASE how' # "undefined"
    <3> DEFINE writes == Writes(Problem, Size, Workers, Option, command.draw)
    <3>1. /\ ~ Misses(writes)
          /\ files' = [f \in DOMAIN files |->
                         IF Option # "check" /\ OfRun(f)
                         THEN Holding(ItemsOf(writes, f[1], f[2])) ELSE files[f]]
      BY <1>8, <2>2 DEF Generate, Ends, Misses
    <3>2. CASE Option # "check"
      <4>1. DOMAIN files = Kinds \X WorkerIds
        BY DEF IInv, TypeOK
      <4>2. \A f \in Kinds \X WorkerIds :
              OfRun(f) => files'[f] = Holding(WrittenTo(f[1], f[2]))
        BY <3>1, <3>2, <4>1, Zenon DEF WrittenTo
      <4>3. command.argc \in {4, 5}
        BY <1>8 DEF Generate, IInv, Underway
      <4> QED BY <1>7, <1>8, <3>1, <4>2, <4>3 DEF Generate
    <3>3. CASE Option = "check"
      BY <1>1, <1>8, <3>3 DEF Generate, Generated, Option
    <3> QED BY <3>2, <3>3
  <2> QED BY <2>1, <2>2
<1>9. CASE Mage
  <2>1. Generated /\ UNCHANGED <<task, command>>
    BY <1>9 DEF Mage
  <2>2. ASSUME NEW f \in Kinds \X WorkerIds, OfRun(f) PROVE files'[f] = files[f]
    <3>1. f[1] # "output"
      BY <2>2 DEF OfRun, Written
    <3>2. f \in DOMAIN files
      BY DEF IInv, TypeOK
    <3> QED BY <1>9, <3>1, <3>2, Zenon DEF Mage
  <2>3. \A f \in Kinds \X WorkerIds : OfRun(f) => files'[f] = Holding(WrittenTo(f[1], f[2]))
    BY <2>1, <2>2, Zenon DEF Made
  <2> QED BY <1>7, <2>1, <2>3, Zenon DEF Made
<1>10. CASE UNCHANGED vars
  <2>1. CASE Generated
    <3>1. \A f \in Kinds \X WorkerIds : OfRun(f) => files'[f] = Holding(WrittenTo(f[1], f[2]))
      BY <1>10, <2>1, Zenon DEF vars, Made
    <3> QED BY <1>7, <1>10, <2>1, <3>1, Zenon DEF vars, Made
  <2>2. CASE ~ Generated
    BY <1>1, <1>10, <2>2 DEF vars, Generated, Option
  <2> QED BY <2>1, <2>2
<1> QED BY <1>2, <1>3, <1>4, <1>5, <1>6, <1>8, <1>9, <1>10 DEF Next

\* The expected files of any two workers differ by one answer at most (:40-49), whatever
\* is generated: what a file holds is the run of answers its worker was dealt.
THEOREM AnswersEvenlyShared == Spec => []AnswersAreShared
<1>1. Init => Made
  BY DEF Init, Made, Generated
<1>2. IInv /\ Made /\ [Next]_vars => Made'
  BY MadeStays
<1>3. ASSUME IInv, Made PROVE AnswersAreShared
  <2> SUFFICES ASSUME Generated, Problem \in Sharing, NEW v \in 0 .. Workers - 1,
                      NEW w \in 0 .. Workers - 1
               PROVE  Answers(v) <= Answers(w) + 1
    BY DEF AnswersAreShared, Sharing
  <2> DEFINE writes == Writes(Problem, Size, Workers, Option, command.draw)
  <2>1. /\ command.argc \in {4, 5}
        /\ \A f \in Kinds \X WorkerIds : OfRun(f) => files[f] = Holding(WrittenTo(f[1], f[2]))
    BY <1>3, Zenon DEF Made
  <2>2. /\ Size \in Nat /\ Workers \in Nat \ {0} /\ Workers <= MaxWorkers
        /\ Option = "random" => DrawnFor(Problem, Size, command.draw)
    BY <1>3, <2>1, CommandTypes DEF IInv
  <2>3. AnswersLast(Workers, writes)
    <3>1. Workers \in Nat
      BY <2>2
    <3> QED BY <2>2, <3>1, WritesAnswersLast
  <2> HIDE DEF writes
  <2>4. PICK share \in Nat : \A u \in 0 .. Workers - 1 :
          Len(ItemsOf(writes, "expected", u)) \in {share, share + 1}
    BY <2>2, <2>3, AnswersEven
  <2>5. ASSUME NEW u \in 0 .. Workers - 1
        PROVE  Answers(u) \in {share, share + 1}
    <3>1. <<"expected", u>> \in Kinds \X WorkerIds
      BY <2>2, InputAssumption DEF Kinds, WorkerIds
    <3>2. OfRun(<<"expected", u>>)
      BY <2>2 DEF OfRun, Written
    <3>3. files[<<"expected", u>>] = Holding(WrittenTo("expected", u))
      BY <2>1, <3>1, <3>2
    <3>4. files[<<"expected", u>>].items = WrittenTo("expected", u)
      BY <3>3 DEF Holding
    <3>5. Answers(u) = Len(ItemsOf(writes, "expected", u))
      BY <3>4, Zenon DEF Answers, WrittenTo, writes
    <3> QED BY <2>4, <3>5
  <2>6. Answers(v) \in {share, share + 1} /\ Answers(w) \in {share, share + 1}
    BY <2>5
  <2> QED BY <2>6
<1> QED BY <1>1, <1>2, <1>3, Invariant, PTL DEF Spec

-----------------------------------------------------------------------------
(* The expected files hold the answer.                                     *)

\* All that the run that is over has written.
Script == Writes(Problem, Size, Workers, Option, command.draw)

\* Once a run has generated, the files of its workers are those the script tells.
Told ==
  /\ command.argc \in {4, 5} /\ Problem \in KnownProblems /\ ~ Aborts /\ ~ BadOption
  /\ ~ Misses(Script)
  /\ \A kind \in Written, w \in 0 .. Workers - 1 :
       files[<<kind, w>>].there /\ files[<<kind, w>>].items = ItemsOf(Script, kind, w)

LEMMA MadeIsTold ==
  ASSUME IInv, Made, Generated
  PROVE  Told /\ Size \in Nat /\ Workers \in Nat \ {0}
              /\ (Option = "random" => DrawnFor(Problem, Size, command.draw))
<1>1. /\ command.argc \in {4, 5} /\ Problem \in KnownProblems /\ ~ Aborts /\ ~ BadOption
      /\ ~ Misses(Script)
      /\ \A f \in Kinds \X WorkerIds : OfRun(f) => files[f] = Holding(WrittenTo(f[1], f[2]))
  BY Zenon DEF Made, Script
<1>2. /\ Size \in Nat /\ Workers \in Nat \ {0} /\ Workers <= MaxWorkers
      /\ Option = "random" => DrawnFor(Problem, Size, command.draw)
  BY <1>1, CommandTypes DEF IInv
<1>3. ASSUME NEW kind \in Written, NEW w \in 0 .. Workers - 1
      PROVE  files[kind, w].there /\ files[kind, w].items = ItemsOf(Script, kind, w)
  <2>1. <<kind, w>> \in Kinds \X WorkerIds
    BY <1>2, InputAssumption DEF Kinds, WorkerIds, Written
  <2>2. OfRun(<<kind, w>>)
    BY <1>2 DEF OfRun
  <2>3. files[<<kind, w>>] = Holding(WrittenTo(kind, w))
    BY <1>1, <2>1, <2>2
  <2>4. files[<<kind, w>>].there /\ files[<<kind, w>>].items = WrittenTo(kind, w)
    BY <2>3 DEF Holding
  <2> QED BY <2>4, Zenon DEF WrittenTo, Script
<1> QED BY <1>1, <1>2, <1>3, Zenon DEF Told

LEMMA WholeIsMerged ==
  ASSUME Told, Workers \in Nat, NEW kind \in Written
  PROVE  Whole(kind) = Merged(Script, kind, Workers)
<1>1. \A w \in 0 .. Workers - 1 : files[kind, w].items = ItemsOf(Script, kind, w)
  BY Zenon DEF Told
<1>2. ASSUME NEW i \in 1 .. Workers PROVE files[kind, i - 1].items = ItemsOf(Script, kind, i - 1)
  <2>1. i - 1 \in 0 .. Workers - 1
    OBVIOUS
  <2> QED BY <1>1, <2>1, Zenon
<1>3. [i \in 1 .. Workers |-> files[kind, i - 1].items]
        = [i \in 1 .. Workers |-> ItemsOf(Script, kind, i - 1)]
  BY <1>2, Zenon
<1> QED BY <1>3, Zenon DEF Whole, Merged

\* The garblers' files, cut after so many items of each.
CutAfter(share) == FlattenSeq([i \in 1 .. Workers |->
  SubSeq(files["garbler", i - 1].items, 1, share[i - 1])])
RestAfter(share) == FlattenSeq([i \in 1 .. Workers |->
  LET items == files["garbler", i - 1].items
  IN  SubSeq(items, share[i - 1] + 1, Len(items))])

LEMMA CutIsFound ==
  ASSUME Told, Workers \in Nat, NEW share
  PROVE  /\ CutAfter(share) = FirstItems(Script, Workers, share)
         /\ RestAfter(share) = SecondItems(Script, Workers, share)
<1>1. \A w \in 0 .. Workers - 1 : files["garbler", w].items = ItemsOf(Script, "garbler", w)
  <2>1. "garbler" \in Written
    BY DEF Written
  <2> QED BY <2>1, Zenon DEF Told
<1>2. ASSUME NEW i \in 1 .. Workers
      PROVE  files["garbler", i - 1].items = ItemsOf(Script, "garbler", i - 1)
  <2>1. i - 1 \in 0 .. Workers - 1
    OBVIOUS
  <2> QED BY <1>1, <2>1, Zenon
<1>3. [i \in 1 .. Workers |-> SubSeq(files["garbler", i - 1].items, 1, share[i - 1])]
        = [i \in 1 .. Workers |-> SubSeq(ItemsOf(Script, "garbler", i - 1), 1, share[i - 1])]
  BY <1>2, Zenon
<1>4. [i \in 1 .. Workers |-> LET items == files["garbler", i - 1].items
                             IN  SubSeq(items, share[i - 1] + 1, Len(items))]
        = [i \in 1 .. Workers |-> SubSeq(ItemsOf(Script, "garbler", i - 1), share[i - 1] + 1,
                                        Len(ItemsOf(Script, "garbler", i - 1)))]
  BY <1>2, Zenon
<1>5. CutAfter(share) = FirstItems(Script, Workers, share)
  BY <1>3, Zenon DEF CutAfter, FirstItems
<1>6. RestAfter(share) = SecondItems(Script, Workers, share)
  BY <1>4, Zenon DEF RestAfter, SecondItems
<1> QED BY <1>5, <1>6

LEMMA HalvesAreFound ==
  ASSUME Told, Workers \in Nat
  PROVE  LET share == HalvesOf(Script, Workers)
         IN  /\ First(Half) = FirstItems(Script, Workers, share)
             /\ Second(Half) = SecondItems(Script, Workers, share)
<1> DEFINE share == HalvesOf(Script, Workers)
<1>1. ASSUME NEW i \in 1 .. Workers
      PROVE  Half(i - 1) = share[i - 1]
  <2>1. i - 1 \in 0 .. Workers - 1 /\ "garbler" \in Written
    BY DEF Written
  <2>2. files["garbler", i - 1].items = ItemsOf(Script, "garbler", i - 1)
    BY <2>1, Zenon DEF Told
  <2>3. share[i - 1] = Len(ItemsOf(Script, "garbler", i - 1)) \div 2
    BY <2>1, Zenon DEF HalvesOf
  <2> QED BY <2>2, <2>3, Zenon DEF Half
<1> HIDE DEF share
<1>2. First(Half) = CutAfter(share)
  <2>1. [i \in 1 .. Workers |-> SubSeq(files["garbler", i - 1].items, 1, Half(i - 1))]
          = [i \in 1 .. Workers |-> SubSeq(files["garbler", i - 1].items, 1, share[i - 1])]
    BY <1>1, Zenon
  <2> QED BY <2>1, Zenon DEF First, CutAfter
<1>3. Second(Half) = RestAfter(share)
  <2>1. [i \in 1 .. Workers |-> LET items == files["garbler", i - 1].items
                               IN  SubSeq(items, Half(i - 1) + 1, Len(items))]
          = [i \in 1 .. Workers |-> LET items == files["garbler", i - 1].items
                                   IN  SubSeq(items, share[i - 1] + 1, Len(items))]
    BY <1>1, Zenon
  <2> QED BY <2>1, Zenon DEF Second, RestAfter
<1> QED BY <1>2, <1>3, CutIsFound DEF share

LEMMA AnswersAreFound ==
  ASSUME Told, Workers \in Nat
  PROVE  LET share == AnswersOf(Script, Workers)
         IN  /\ First(Answers) = FirstItems(Script, Workers, share)
             /\ Second(Answers) = SecondItems(Script, Workers, share)
<1> DEFINE share == AnswersOf(Script, Workers)
<1>1. ASSUME NEW i \in 1 .. Workers
      PROVE  Answers(i - 1) = share[i - 1]
  <2>1. i - 1 \in 0 .. Workers - 1 /\ "expected" \in Written
    BY DEF Written
  <2>2. files["expected", i - 1].items = ItemsOf(Script, "expected", i - 1)
    BY <2>1, Zenon DEF Told
  <2>3. share[i - 1] = Len(ItemsOf(Script, "expected", i - 1))
    BY <2>1, Zenon DEF AnswersOf
  <2> QED BY <2>2, <2>3, Zenon DEF Answers
<1> HIDE DEF share
<1>2. First(Answers) = CutAfter(share)
  <2>1. [i \in 1 .. Workers |-> SubSeq(files["garbler", i - 1].items, 1, Answers(i - 1))]
          = [i \in 1 .. Workers |-> SubSeq(files["garbler", i - 1].items, 1, share[i - 1])]
    BY <1>1, Zenon
  <2> QED BY <2>1, Zenon DEF First, CutAfter
<1>3. Second(Answers) = RestAfter(share)
  <2>1. [i \in 1 .. Workers |-> LET items == files["garbler", i - 1].items
                               IN  SubSeq(items, Answers(i - 1) + 1, Len(items))]
          = [i \in 1 .. Workers |-> LET items == files["garbler", i - 1].items
                                   IN  SubSeq(items, share[i - 1] + 1, Len(items))]
    BY <1>1, Zenon
  <2> QED BY <2>1, Zenon DEF Second, RestAfter
<1> QED BY <1>2, <1>3, CutIsFound DEF share

LEMMA VectorFound ==
  ASSUME Told, Size \in Nat, Workers \in Nat \ {0},
         Option = "random" => DrawnFor(Problem, Size, command.draw),
         Problem \in MatrixVectors \cup {"binary_fc_layer"},
         NEW g, NEW e, NEW x, Gathered(Script, Workers, g, e, x)
  PROVE  \E a, v : /\ VectorProblem(Problem, Size, a, v, x)
                   /\ Problem # "real_matrix_vector_multiply" => g = a /\ e = v
                   /\ Problem = "real_matrix_vector_multiply"
                        => Second(Answers) = a /\ First(Answers) = v
<1>1. PICK a, v, sums :
        /\ Script = MatrixVector(Size, Workers, OwnerOf(Problem),
                                 IF Problem = "binary_fc_layer" THEN ByBatches(Size, Workers)
                                                                ELSE BlockedOf(Workers, Size),
                                 a, v, sums)
        /\ VectorProblem(Problem, Size, a, v, sums)
  BY VectorContents DEF Script
<1>2. Listed(Size * Size, a) /\ Listed(Size, v) /\ Listed(Size, sums)
  BY <1>1 DEF VectorProblem
<1>3. PICK workers : workers = IF Problem = "binary_fc_layer" THEN ByBatches(Size, Workers)
                                                              ELSE BlockedOf(Workers, Size)
  OBVIOUS
<1>4. CutLot(Workers, workers, v)
  <2>1. CASE Problem = "binary_fc_layer"
    <3>1. Size % BatchSize = 0
      BY <2>1 DEF Told, Aborts
    <3> QED BY <1>2, <1>3, <2>1, <3>1, BatchesLot
  <2>2. CASE Problem # "binary_fc_layer"
    BY <1>2, <1>3, <2>2, BlockedLot DEF Listed
  <2> QED BY <2>1, <2>2
<1>5. PICK owner \in {"garbler", "evaluator"} : owner = OwnerOf(Problem)
  BY DEF OwnerOf
<1>6. Gathered(MatrixVector(Size, Workers, owner, workers, a, v, sums), Workers, g, e, x)
  BY <1>1, <1>3, <1>5, Zenon
<1>7. x = sums /\ (owner = "evaluator" => g = a /\ e = v)
  BY <1>2, <1>4, <1>6, VectorMerged
<1>8. CASE Problem # "real_matrix_vector_multiply"
  <2>1. owner = "evaluator"
    BY <1>5, <1>8 DEF OwnerOf, MatrixVectors
  <2> QED BY <1>1, <1>7, <1>8, <2>1
<1>9. CASE Problem = "real_matrix_vector_multiply"
  <2>1. Script = MatrixVector(Size, Workers, "garbler", BlockedOf(Workers, Size), a, v, sums)
    BY <1>1, <1>9 DEF OwnerOf
  <2>2. PICK share : share = AnswersOf(Script, Workers)
    OBVIOUS
  <2>3. FirstItems(Script, Workers, share) = v /\ SecondItems(Script, Workers, share) = a
    BY <1>2, <2>1, <2>2, VectorOfGarbler
  <2>4. First(Answers) = FirstItems(Script, Workers, share)
        /\ Second(Answers) = SecondItems(Script, Workers, share)
    <3>1. Workers \in Nat
      OBVIOUS
    <3> QED BY <2>2, <3>1, AnswersAreFound
  <2> QED BY <1>1, <1>7, <1>9, <2>3, <2>4
<1> QED BY <1>8, <1>9

LEMMA VectorAnswered ==
  ASSUME Told, Size \in Nat, Workers \in Nat \ {0},
         Option = "random" => DrawnFor(Problem, Size, command.draw),
         Problem \in MatrixVectors \cup {"binary_fc_layer"},
         NEW g, NEW e, NEW x, Gathered(Script, Workers, g, e, x)
  PROVE  IsAnswer(g, e, x)
<1>1. PICK a, v : /\ VectorProblem(Problem, Size, a, v, x)
                  /\ Problem # "real_matrix_vector_multiply" => g = a /\ e = v
                  /\ Problem = "real_matrix_vector_multiply"
                       => Second(Answers) = a /\ First(Answers) = v
  BY VectorFound
<1>2. ASSUME Problem \in MatrixVectors
      PROVE  x = [i \in 1 .. Size |-> Dot(Row(a, i), v)]
  <2>1. x = [i \in 1 .. Size |-> ElementSum(Problem, InnerTerms(Size, RowOf(a, Size, i), v))]
    BY <1>1, <1>2, Zenon DEF VectorProblem
  <2> QED BY <2>1, Zenon DEF Dot, Row, InnerTerms, RowOf
<1>3. CASE Problem = "matrix_vector_multiply"
  <2>1. x = [i \in 1 .. Size |-> Dot(Row(g, i), e)]
    <3>1. Problem \in MatrixVectors /\ Problem # "real_matrix_vector_multiply"
      BY <1>3 DEF MatrixVectors
    <3> QED BY <1>1, <1>2, <3>1, Zenon
  <2> HIDE DEF Problem
  <2> QED BY <1>3, <2>1 DEF IsAnswer
<1>4. CASE Problem = "real_matrix_vector_multiply"
  <2>1. x = [i \in 1 .. Size |-> Dot(Row(Second(Answers), i), First(Answers))]
    <3>1. Problem \in MatrixVectors
      BY <1>4 DEF MatrixVectors
    <3> QED BY <1>1, <1>2, <1>4, <3>1, Zenon
  <2> QED BY <1>4, <2>1 DEF IsAnswer
<1>5. CASE Problem = "binary_fc_layer"
  <2>1. x = [i \in 1 .. Size |->
               IF SumOf([k \in 1 .. Size |-> (2 * RowOf(a, Size, i)[k] - 1) * (2 * v[k] - 1)]) >= 0
               THEN 1 ELSE 0]
    BY <1>1, <1>5, Zenon DEF VectorProblem
  <2>2. g = a /\ e = v
    BY <1>1, <1>5
  <2>3. x = [i \in 1 .. Size |->
               IF SumOf([k \in 1 .. Size |-> (2 * Row(g, i)[k] - 1) * (2 * e[k] - 1)]) >= 0
               THEN 1 ELSE 0]
    BY <2>1, <2>2, Zenon DEF Row, RowOf
  <2> QED BY <1>5, <2>3 DEF IsAnswer
<1> QED BY <1>3, <1>4, <1>5 DEF MatrixVectors

LEMMA OthersAnswered ==
  ASSUME Told, Size \in Nat, Workers \in Nat \ {0},
         Option = "random" => DrawnFor(Problem, Size, command.draw),
         Problem \notin MatrixVectors \cup {"binary_fc_layer"} \cup MatrixPairs,
         NEW g, NEW e, NEW x, Gathered(Script, Workers, g, e, x)
  PROVE  IsAnswer(g, e, x)
<1>1. CASE Problem \in {"aspirin", "aspirin_seq"}
  <2>1. Gathered(Aspirin(Size, Workers), Workers, g, e, x)
    <3>1. Script = Aspirin(Size, Workers)
      BY <1>1, PlainContents DEF Script
    <3> QED BY <3>1
  <2>2. ASSUME Size > 0
        PROVE  CountsPatients(g, e, x)
    <3>1. Size \in Nat \ {0}
      BY <2>2
    <3> QED BY <2>1, <3>1, AspirinAnswer
  <2> QED BY <1>1, <2>2, Zenon DEF IsAnswer, CountsPatients
<1>2. CASE Problem = "password"
  <2>1. PICK hash : Gathered(Password(Size, Workers, hash), Workers, g, e, x)
    <3>1. \E hash : Script = Password(Size, Workers, hash)
      BY <1>2, PlainContents DEF Script
    <3> QED BY <3>1
  <2>2. NamesUsers(Size, g, e, x)
    BY <2>1, PasswordAnswer
  <2> QED BY <1>2, <2>2 DEF IsAnswer, NamesUsers
<1>3. CASE Problem \in {"merge_sorted", "full_sort"}
  <2>1. PICK keys : Gathered(Sort(Workers, keys), Workers, g, e, x) /\ AllKeys(Size, keys)
    <3>1. \E keys : Script = Sort(Workers, keys) /\ AllKeys(Size, keys)
      BY <1>3, SortContents DEF Script
    <3> QED BY <3>1
  <2>2. /\ Len(x) = Len(g \o e)
        /\ \A k \in DOMAIN x : Cardinality({m \in DOMAIN x : x[m] = x[k]})
                                 = Cardinality({m \in DOMAIN (g \o e) : (g \o e)[m] = x[k]})
        /\ \A k \in 2 .. Len(x) : x[k - 1] < x[k]
    BY <2>1, SortAnswer
  <2>3. IsPermutation(x, g \o e) /\ \A k \in 2 .. Len(x) : x[k - 1] < x[k]
    BY <2>2, Zenon DEF IsPermutation
  <2> QED BY <1>3, <2>3 DEF IsAnswer
<1>4. CASE Problem = "loop_join"
  <2>1. Gathered(LoopJoin(Size, Workers), Workers, g, e, x)
    <3>1. Script = LoopJoin(Size, Workers)
      BY <1>4, PlainContents DEF Script
    <3> QED BY <3>1
  <2>2. /\ Len(x) = Len(g) * Len(e)
        /\ \A i \in DOMAIN g, j \in DOMAIN e :
             x[(i - 1) * Len(e) + j] = IF g[i] < e[j] THEN <<1, g[i], e[j]>> ELSE <<0, 0, 0>>
    BY <2>1, LoopJoinAnswer
  <2> QED BY <1>4, <2>2 DEF IsAnswer
<1>5. CASE Problem = "real_cpir"
  <2>1. Gathered(Cpir(Size, Workers), Workers, g, e, x)
    <3>1. Script = Cpir(Size, Workers)
      BY <1>5, PlainContents DEF Script
    <3> QED BY <3>1
  <2>2. \A wanted \in DOMAIN g :
          g[wanted] = 1 => x = [k \in 1 .. Size |-> ((k - 1) * Size) + wanted]
    BY <2>1, CpirAnswer
  <2> QED BY <1>5, <2>2 DEF IsAnswer
<1>6. CASE Problem = "real_sum"
  <2>1. Gathered(RealSum(Size, Workers), Workers, g, e, x)
    <3>1. Script = RealSum(Size, Workers)
      BY <1>6, PlainContents DEF Script
    <3> QED BY <3>1
  <2>2. x = <<SumOf(g)>>
    BY <2>1, RealSumAnswer
  <2> QED BY <1>6, <2>2 DEF IsAnswer
<1>7. CASE Problem = "real_statistics"
  <2>1. Gathered(RealStatistics(Size, Workers), Workers, g, e, x)
    <3>1. Script = RealStatistics(Size, Workers)
      BY <1>7, PlainContents DEF Script
    <3> QED BY <3>1
  <2>2. x = <<SumOf(g), SumOf([k \in DOMAIN g |-> g[k] * g[k]])>>
    BY <2>1, RealStatisticsAnswer
  <2> QED BY <1>7, <2>2 DEF IsAnswer
<1>8. CASE Problem = "real_vector_multiply"
  <2>1. Script = RealVectorMultiply(Size, Workers)
    BY <1>8, PlainContents DEF Script
  <2>2. PICK share : share = HalvesOf(Script, Workers)
    OBVIOUS
  <2>3. PICK first, second : /\ first = FirstItems(Script, Workers, share)
                             /\ second = SecondItems(Script, Workers, share)
    OBVIOUS
  <2>4. x = <<SumOf([k \in 1 .. Size |-> first[k] * second[k]])>>
    BY <2>1, <2>2, <2>3, RealVectorMultiplyAnswer
  <2>5. First(Half) = first /\ Second(Half) = second
    <3>1. Workers \in Nat
      OBVIOUS
    <3> QED BY <2>2, <2>3, <3>1, HalvesAreFound
  <2>6. x = <<SumOf([k \in 1 .. Size |-> First(Half)[k] * Second(Half)[k]])>>
    BY <2>4, <2>5, Zenon
  <2> QED BY <1>8, <2>6 DEF IsAnswer
<1> QED BY <1>1, <1>2, <1>3, <1>4, <1>5, <1>6, <1>7, <1>8 DEF Told, KnownProblems, OptionProblems

LEMMA PairsAnswered ==
  ASSUME Problem \in MatrixPairs, NEW g, NEW e, NEW x
  PROVE  IsAnswer(g, e, x)
  BY DEF IsAnswer, MatrixPairs

\* The workers of a product are as many as the rows of the grid and its columns tell.
LEMMA RowsDivide ==
  ASSUME TypeOK, Told, Problem \in MatrixPairs
  PROVE  \E l \in Nat : Workers = Power2[l] /\ Divides(Size, Workers)
<1>1. Size \in Nat /\ Workers \in Nat \ {0} /\ Workers <= MaxWorkers
  BY CommandTypes DEF Told
<1>2. PICK l \in 0 .. Workers : Workers = Power2[l]
  BY DEF Told, Aborts, PowerOfTwo
<1>3. l \in Nat /\ l \in 0 .. MaxWorkers
  <2>1. l \in Nat
    BY <1>1
  <2>2. l < Workers
    BY <1>2, <2>1, Power2Exceeds
  <2> QED BY <1>1, <2>1, <2>2, InputAssumption
<1>4. ~ Checks /\ Option \in {"", "random"}
  BY DEF Told, Checks, BadOption, MatrixPairs, OptionProblems
<1>5. ~ CutsUnevenly
  BY <1>4, MissesExactly DEF Told, Script
<1>6. Size % Power2[(l + 1) \div 2] = 0
  BY <1>2, <1>3, <1>4, <1>5 DEF CutsUnevenly
<1>7. PortionsA(Workers) = Power2[(l + 1) \div 2]
  BY <1>2, <1>3, PortionsOfPower
<1> QED BY <1>2, <1>3, <1>6, <1>7 DEF Divides

LEMMA ProductOnDisk ==
  ASSUME Told, NEW l \in Nat, Workers = Power2[l], Size \in Nat, Divides(Size, Workers),
         NEW a, NEW b, ProductIn(Problem, Script, Workers, Size, a, b)
  PROVE  IsProduct(a, b)
<1>1. SUFFICES
        ASSUME NEW rows \in 1 .. Workers, NEW columns \in 1 .. Workers,
               rows * columns = Workers, rows \in {columns, 2 * columns},
               NEW i \in 0 .. Size - 1, NEW j \in 0 .. Size - 1
        PROVE  LET height == Size \div rows
                   width == Size \div columns
                   worker == (i \div height) * columns + (j \div width)
               IN  files["expected", worker].items[((i % height) * width) + (j % width) + 1]
                     = Dot(Row(a, i + 1), Row(b, j + 1))
  BY Zenon DEF IsProduct
<1> DEFINE height == Size \div rows
           width == Size \div columns
           worker == (i \div height) * columns + (j \div width)
           p == ((i % height) * width) + (j % width) + 1
<1>2. worker \in 0 .. Workers - 1
  <2>1. PICK n \in Nat, s \in Nat : n = Workers /\ s = Size
    BY Power2Exceeds
  <2>2. /\ rows \in 1 .. n /\ columns \in 1 .. n /\ rows * columns = n /\ n = Power2[l]
        /\ Divides(s, n) /\ i \in 0 .. s - 1 /\ j \in 0 .. s - 1
    BY <1>1, <2>1
  <2>3. (i \div (s \div rows)) * columns + (j \div (s \div columns)) \in 0 .. n - 1
    BY <1>1, <2>1, <2>2, WorkerInGrid
  <2> QED BY <2>1, <2>3
<1>3. ItemsOf(Script, "expected", worker)[p]
        = ElementSum(Problem, InnerTerms(Size, RowOf(a, Size, i + 1), RowOf(b, Size, j + 1)))
  BY <1>1, Zenon DEF ProductIn
<1> HIDE DEF worker, p
<1>4. files["expected", worker].items = ItemsOf(Script, "expected", worker)
  <2>1. "expected" \in Written
    BY DEF Written
  <2> QED BY <1>2, <2>1, Zenon DEF Told
<1>5. Dot(Row(a, i + 1), Row(b, j + 1))
        = ElementSum(Problem, InnerTerms(Size, RowOf(a, Size, i + 1), RowOf(b, Size, j + 1)))
  BY Zenon DEF Dot, Row, InnerTerms, RowOf
<1>6. files["expected", worker].items[p] = Dot(Row(a, i + 1), Row(b, j + 1))
  BY <1>3, <1>4, <1>5, Zenon
<1> QED BY <1>6, Zenon DEF worker, p

LEMMA ProductAnswered ==
  ASSUME TypeOK, Told, Size \in Nat, Workers \in Nat \ {0},
         Option = "random" => DrawnFor(Problem, Size, command.draw), Problem \in MatrixPairs
  PROVE  IF Problem = "matrix_multiply" THEN IsProduct(Whole("garbler"), Whole("evaluator"))
                                        ELSE IsProduct(First(Half), Second(Half))
<1>1. PICK l \in Nat : Workers = Power2[l] /\ Divides(Size, Workers)
  BY RowsDivide
<1>2. PICK a, b, cells :
        /\ Script = Matrices(Size, Workers, OwnerOf(Problem), a, b, cells)
        /\ Listed(Size * Size, a) /\ Listed(Size * Size, b)
        /\ CellsOf(Problem, Size, a, b, cells)
  BY ProductContents DEF Script
<1>3. PICK owner \in {"garbler", "evaluator"} : owner = OwnerOf(Problem)
  BY DEF OwnerOf
<1>4. ProductIn(Problem, Script, Workers, Size, a, b) /\ FactorsOf(Script, Workers, owner, a, b)
  BY <1>1, <1>2, <1>3, MatricesAnswer
<1>5. IsProduct(a, b)
  BY <1>1, <1>4, ProductOnDisk
<1>6. Workers \in Nat
  OBVIOUS
<1>7. CASE Problem = "matrix_multiply"
  <2>1. Merged(Script, "garbler", Workers) = a /\ Merged(Script, "evaluator", Workers) = b
    BY <1>3, <1>4, <1>7 DEF OwnerOf, FactorsOf
  <2>2. Whole("garbler") = a /\ Whole("evaluator") = b
    BY <1>6, <2>1, WholeIsMerged DEF Written
  <2> QED BY <1>5, <1>7, <2>2, Zenon
<1>8. CASE Problem # "matrix_multiply"
  <2>1. owner = "garbler"
    BY <1>3, <1>8 DEF OwnerOf, MatrixPairs
  <2>2. PICK share : share = HalvesOf(Script, Workers)
    OBVIOUS
  <2>3. FirstItems(Script, Workers, share) = a /\ SecondItems(Script, Workers, share) = b
    BY <1>4, <2>1, <2>2 DEF FactorsOf
  <2>4. /\ First(Half) = FirstItems(Script, Workers, share)
        /\ Second(Half) = SecondItems(Script, Workers, share)
    BY <1>6, <2>2, HalvesAreFound
  <2>5. First(Half) = a /\ Second(Half) = b
    BY <2>3, <2>4
  <2> QED BY <1>5, <1>8, <2>5, Zenon
<1> QED BY <1>7, <1>8

\* Whatever the workload, the content drawn and the number of workers, the expected
\* files hold the answer to the inputs that the garblers' and evaluators' files hold:
\* the writers share one order (:40-99), and the product of the matrices is cut into
\* the rectangles (:326-348) that the number of the worker tells.
THEOREM ExpectedAnswers == Spec => []ExpectedIsTheAnswer
<1>1. Init => Made
  BY DEF Init, Made, Generated
<1>2. IInv /\ Made /\ [Next]_vars => Made'
  BY MadeStays
<1>3. ASSUME IInv, Made PROVE ExpectedIsTheAnswer
  <2>1. SUFFICES ASSUME Generated
        PROVE  /\ IsAnswer(Whole("garbler"), Whole("evaluator"), Whole("expected"))
               /\ Problem = "matrix_multiply" => IsProduct(Whole("garbler"), Whole("evaluator"))
               /\ Problem \in MatrixPairs \ {"matrix_multiply"} => IsProduct(First(Half), Second(Half))
    BY Zenon DEF ExpectedIsTheAnswer
  <2>2. /\ TypeOK /\ Told /\ Size \in Nat /\ Workers \in Nat \ {0}
        /\ Option = "random" => DrawnFor(Problem, Size, command.draw)
    BY <1>3, <2>1, MadeIsTold DEF IInv
  <2>3. PICK g, e, x : g = Whole("garbler") /\ e = Whole("evaluator") /\ x = Whole("expected")
    OBVIOUS
  <2>4. Gathered(Script, Workers, g, e, x)
    <3>1. Workers \in Nat
      BY <2>2
    <3>2. "garbler" \in Written /\ "evaluator" \in Written /\ "expected" \in Written
      BY DEF Written
    <3>3. /\ g = Merged(Script, "garbler", Workers) /\ e = Merged(Script, "evaluator", Workers)
          /\ x = Merged(Script, "expected", Workers)
      BY <2>2, <2>3, <3>1, <3>2, WholeIsMerged
    <3> QED BY <3>3 DEF Gathered
  <2>5. IsAnswer(g, e, x)
    <3>1. CASE Problem \in MatrixVectors \cup {"binary_fc_layer"}
      BY <2>2, <2>4, <3>1, VectorAnswered
    <3>2. CASE Problem \in MatrixPairs
      BY <3>2, PairsAnswered
    <3>3. CASE Problem \notin MatrixVectors \cup {"binary_fc_layer"} \cup MatrixPairs
      BY <2>2, <2>4, <3>3, OthersAnswered
    <3> QED BY <3>1, <3>2, <3>3
  <2>6. IsAnswer(Whole("garbler"), Whole("evaluator"), Whole("expected"))
    BY <2>3, <2>5, Zenon
  <2>7. ASSUME Problem \in MatrixPairs
        PROVE  IF Problem = "matrix_multiply" THEN IsProduct(Whole("garbler"), Whole("evaluator"))
                                              ELSE IsProduct(First(Half), Second(Half))
    BY <2>2, <2>7, ProductAnswered
  <2>8. Problem = "matrix_multiply" => Problem \in MatrixPairs
    BY DEF MatrixPairs
  <2> QED BY <2>6, <2>7, <2>8
<1> QED BY <1>1, <1>2, <1>3, Invariant, PTL DEF Spec

-----------------------------------------------------------------------------
(* The check of a loop_join: what it reads, and how it sorts.              *)

KeyPairs(P, n) == \A k \in 1 .. n : P[k] \in Nat \X Nat

LEMMA SortedIs ==
  ASSUME NEW P, NEW n \in Nat, List(P), Len(P) = n, KeyPairs(P, n)
  PROVE  /\ Rearranged(Sorted(P), 1 .. n, P) /\ Len(Sorted(P)) = n
         /\ \A p, r \in 1 .. n :
              p < r => PairLess(Sorted(P)[p], Sorted(P)[r]) \/ Sorted(P)[p] = Sorted(P)[r]
<1>1. DOMAIN P = 1 .. n
  BY DEF List
<1> DEFINE NotAfter(c) == PairLess(P[c[1]], P[c[2]]) \/ (P[c[1]] = P[c[2]] /\ c[1] <= c[2])
<1> HIDE DEF NotAfter
<1>2. PICK B : B = {c \in (1 .. n) \X (1 .. n) : NotAfter(c)}
  OBVIOUS
<1>3. ASSUME NEW m \in 1 .. n, NEW k \in 1 .. n
      PROVE  <<m, k>> \in B <=> PairLess(P[m], P[k]) \/ (P[m] = P[k] /\ m <= k)
  <2>1. PICK c : c = <<m, k>>
    OBVIOUS
  <2>2. c \in (1 .. n) \X (1 .. n) /\ c[1] = m /\ c[2] = k
    BY <2>1
  <2>3. c \in B <=> NotAfter(c)
    BY <1>2, <2>2
  <2>4. NotAfter(c) <=> PairLess(P[m], P[k]) \/ (P[m] = P[k] /\ m <= k)
    BY <2>2, Zenon DEF NotAfter
  <2> QED BY <2>1, <2>3, <2>4, Zenon
<1>4. ASSUME NEW j \in 1 .. n, NEW k \in 1 .. n
      PROVE  /\ P[j][1] \in Nat /\ P[j][2] \in Nat
             /\ P[j] = P[k] <=> P[j][1] = P[k][1] /\ P[j][2] = P[k][2]
  <2>1. P[j] \in Nat \X Nat /\ P[k] \in Nat \X Nat
    BY DEF KeyPairs
  <2> QED BY <2>1
<1>5. TotalOrder(B, n)
  <2>1. ASSUME NEW j \in 1 .. n, NEW k \in 1 .. n
        PROVE  /\ <<j, k>> \in B \/ <<k, j>> \in B
               /\ <<j, k>> \in B /\ <<k, j>> \in B => j = k
    <3>1. <<j, k>> \in B <=> PairLess(P[j], P[k]) \/ (P[j] = P[k] /\ j <= k)
      BY <1>3
    <3>2. <<k, j>> \in B <=> PairLess(P[k], P[j]) \/ (P[k] = P[j] /\ k <= j)
      BY <1>3
    <3>3. /\ P[j][1] \in Nat /\ P[j][2] \in Nat /\ P[k][1] \in Nat /\ P[k][2] \in Nat
          /\ P[j] = P[k] <=> P[j][1] = P[k][1] /\ P[j][2] = P[k][2]
      BY <1>4
    <3> QED BY <3>1, <3>2, <3>3 DEF PairLess
  <2>2. ASSUME NEW i \in 1 .. n, NEW j \in 1 .. n, NEW k \in 1 .. n,
               <<i, j>> \in B, <<j, k>> \in B
        PROVE  <<i, k>> \in B
    <3>1. PairLess(P[i], P[j]) \/ (P[i] = P[j] /\ i <= j)
      BY <1>3, <2>2
    <3>2. PairLess(P[j], P[k]) \/ (P[j] = P[k] /\ j <= k)
      BY <1>3, <2>2
    <3>3. PairLess(P[i], P[k]) \/ (P[i] = P[k] /\ i <= k)
      BY <1>4, <3>1, <3>2 DEF PairLess
    <3> QED BY <1>3, <3>3
  <2> QED BY <2>1, <2>2 DEF TotalOrder
<1>6. ASSUME NEW k \in 1 .. n PROVE Rank(P, k) = Cardinality(Down(B, n, k))
  <2>1. Down(B, n, k) = {m \in DOMAIN P : PairLess(P[m], P[k]) \/ (P[m] = P[k] /\ m <= k)}
    BY <1>1, <1>3 DEF Down
  <2> QED BY <2>1, Zenon DEF Rank
<1>7. PICK at : at = [r \in 1 .. n |-> CHOOSE k \in 1 .. n : Rank(P, k) = r]
  OBVIOUS
<1>8. ASSUME NEW r \in 1 .. n PROVE at[r] \in 1 .. n /\ Rank(P, at[r]) = r
  <2>1. \E k \in 1 .. n : Cardinality(Down(B, n, k)) = r
    BY <1>5, RanksFilled
  <2>2. \E k \in 1 .. n : Rank(P, k) = r
    BY <1>6, <2>1
  <2> QED BY <1>7, <2>2
<1>9. \A k \in 1 .. n : \E r \in 1 .. n : at[r] = k
  <2> TAKE k \in 1 .. n
  <2>1. Cardinality(Down(B, n, k)) \in 1 .. n
    BY <1>5, RankType
  <2>2. PICK r \in 1 .. n : r = Rank(P, k)
    BY <1>6, <2>1
  <2>3. at[r] \in 1 .. n /\ Cardinality(Down(B, n, at[r])) = Cardinality(Down(B, n, k))
    BY <1>6, <1>8, <2>2
  <2>4. at[r] = k
    BY <1>5, <2>3, RanksFilled
  <2> QED BY <2>4
<1>10. at \in [1 .. n -> 1 .. n]
  BY <1>7, <1>8
<1>11. \A j, k \in 1 .. n : at[j] = at[k] => j = k
  BY <1>8
<1>12. PICK S : S = Sorted(P)
  OBVIOUS
<1>13. S = [r \in 1 .. n |-> P[at[r]]]
  <2>1. S = [r \in DOMAIN P |-> P[CHOOSE k \in DOMAIN P : Rank(P, k) = r]]
    BY <1>12, Zenon DEF Sorted
  <2>2. S = [r \in 1 .. n |-> P[CHOOSE k \in 1 .. n : Rank(P, k) = r]]
    BY <1>1, <2>1
  <2> QED BY <1>7, <2>2
<1>14. List(S) /\ Len(S) = n
  <2>1. DOMAIN S = 1 .. n /\ S = [r \in 1 .. n |-> S[r]]
    BY <1>13
  <2> QED BY <2>1, ListOf
<1>15. \A r \in 1 .. n : S[r] = P[at[r]]
  BY <1>13
<1>16. Rearranged(S, 1 .. n, P)
  <2>1. PICK D : D = 1 .. n
    OBVIOUS
  <2>2. /\ at \in [1 .. n -> D]
        /\ \A j, k \in 1 .. n : at[j] = at[k] => j = k
        /\ \A d \in D : \E j \in 1 .. n : at[j] = d
        /\ \A j \in 1 .. n : S[j] = P[at[j]]
    BY <1>9, <1>10, <1>11, <1>15, <2>1
  <2>3. Rearranged(S, D, P)
    BY <1>14, <2>2 DEF Rearranged
  <2> QED BY <2>1, <2>3
<1>17. ASSUME NEW p \in 1 .. n, NEW r \in 1 .. n, p < r
       PROVE  PairLess(S[p], S[r]) \/ S[p] = S[r]
  <2>1. at[p] \in 1 .. n /\ at[r] \in 1 .. n /\ Rank(P, at[p]) = p /\ Rank(P, at[r]) = r
    BY <1>8
  <2>2. <<at[p], at[r]>> \in B
    <3>1. SUFFICES ASSUME <<at[p], at[r]>> \notin B PROVE FALSE
      OBVIOUS
    <3>2. <<at[r], at[p]>> \in B /\ at[r] # at[p]
      BY <1>5, <2>1, <3>1 DEF TotalOrder
    <3>3. Cardinality(Down(B, n, at[r])) < Cardinality(Down(B, n, at[p]))
      BY <1>5, <2>1, <3>2, RankGrows
    <3> QED BY <1>6, <1>17, <2>1, <3>3
  <2>3. PairLess(P[at[p]], P[at[r]]) \/ P[at[p]] = P[at[r]]
    BY <1>3, <2>1, <2>2
  <2> QED BY <1>15, <2>3
<1> QED BY <1>12, <1>14, <1>16, <1>17

InJoin(records) == {k \in 1 .. Len(records) : records[k][1] = 1}
KeysOf(records) == [k \in 1 .. Len(records) |-> <<records[k][2], records[k][3]>>]

LEMMA PairsChosen ==
  ASSUME NEW records, List(records)
  PROVE  Chosen(Pairs(records), Len(records), InJoin(records), KeysOf(records))
<1>1. PICK n \in Nat : n = Len(records) /\ DOMAIN records = 1 .. n
  BY DEF List
<1>2. PICK mine, f : mine = InJoin(records) /\ f = KeysOf(records)
  OBVIOUS
<1>3. PICK ss : ss = [k \in DOMAIN records |->
                       IF records[k][1] = 1 THEN << <<records[k][2], records[k][3]>> >> ELSE <<>>]
  OBVIOUS
<1>4. Singles(ss, n, mine, f)
  <2>1. DOMAIN ss = 1 .. n /\ mine \subseteq 1 .. n
    BY <1>1, <1>2, <1>3 DEF InJoin
  <2>2. ASSUME NEW k \in 1 .. n PROVE ss[k] = IF k \in mine THEN <<f[k]>> ELSE <<>>
    <3>1. f[k] = <<records[k][2], records[k][3]>>
      BY <1>1, <1>2 DEF KeysOf
    <3>2. k \in mine <=> records[k][1] = 1
      BY <1>1, <1>2 DEF InJoin
    <3>3. ss[k] = IF records[k][1] = 1 THEN << <<records[k][2], records[k][3]>> >> ELSE <<>>
      BY <1>1, <1>3
    <3> QED BY <3>1, <3>2, <3>3
  <2> QED BY <2>1, <2>2 DEF Singles
<1>5. Chosen(FlattenSeq(ss), n, mine, f)
  BY <1>4, FlattenChosen
<1>6. FlattenSeq(ss) = Pairs(records)
  BY <1>3, Zenon DEF Pairs
<1> QED BY <1>1, <1>2, <1>5, <1>6

\* The order of the pairs.
PairOrder == {c \in (Nat \X Nat) \X (Nat \X Nat) : PairLess(c[1], c[2])}

LEMMA PairOrderIs ==
  ASSUME NEW x \in Nat \X Nat, NEW y \in Nat \X Nat
  PROVE  <<x, y>> \in PairOrder <=> PairLess(x, y)
<1>1. PICK c : c = <<x, y>>
  OBVIOUS
<1>2. c \in (Nat \X Nat) \X (Nat \X Nat) /\ c[1] = x /\ c[2] = y
  BY <1>1
<1>3. c \in PairOrder <=> PairLess(c[1], c[2])
  BY <1>2, Zenon DEF PairOrder
<1> QED BY <1>1, <1>2, <1>3

LEMMA PairOrderAsymmetric == Asymmetric(PairOrder)
<1> SUFFICES ASSUME NEW x, NEW y, <<x, y>> \in PairOrder, <<y, x>> \in PairOrder PROVE FALSE
  BY DEF Asymmetric
<1>1. <<x, y>> \in (Nat \X Nat) \X (Nat \X Nat)
  BY Zenon DEF PairOrder
<1>2. x \in Nat \X Nat /\ y \in Nat \X Nat
  BY <1>1
<1>3. PairLess(x, y) /\ PairLess(y, x)
  BY <1>2, PairOrderIs
<1> QED BY <1>2, <1>3 DEF PairLess

\* The cells of a square, and the record of each.
RecordsOf(s, m, records, up, along) ==
  /\ List(records) /\ Len(records) = m
  /\ \A k \in 1 .. m :
       /\ up[k] \in 0 .. s - 1 /\ along[k] \in 0 .. s - 1 /\ Digits(k - 1, up[k], s, along[k])
       /\ records[k] = IF up[k] < along[k] THEN <<1, up[k], along[k]>> ELSE <<0, 0, 0>>
  /\ \A i, j \in 0 .. s - 1 : \E k \in 1 .. m : up[k] = i /\ along[k] = j

LEMMA JoinRecordsAre ==
  ASSUME NEW s \in Nat, NEW m, m = s * s
  PROVE  \E up, along : RecordsOf(s, m, JoinRecords(s), up, along)
<1>1. m \in Nat
  OBVIOUS
<1>2. PICK up, along : up = [k \in 1 .. m |-> (k - 1) \div s] /\ along = [k \in 1 .. m |-> (k - 1) % s]
  OBVIOUS
<1>3. PICK records : records = JoinRecords(s)
  OBVIOUS
<1>4. List(records) /\ Len(records) = m
  <2>1. DOMAIN records = 1 .. m /\ records = [k \in 1 .. m |-> records[k]]
    BY <1>3, Zenon DEF JoinRecords
  <2> QED BY <1>1, <2>1, ListOf
<1>5. ASSUME NEW k \in 1 .. m
      PROVE  /\ up[k] \in 0 .. s - 1 /\ along[k] \in 0 .. s - 1
             /\ Digits(k - 1, up[k], s, along[k])
  <2>1. s \in Nat \ {0}
    BY <1>1
  <2>2. Below(k - 1, s, s)
    BY <1>1 DEF Below
  <2>3. PICK n : n = k - 1
    OBVIOUS
  <2>4. /\ n \div s \in 0 .. s - 1 /\ n % s \in 0 .. s - 1
        /\ Digits(n, n \div s, s, n % s)
    BY <2>1, <2>2, <2>3, DigitsFound
  <2>5. up[k] = n \div s /\ along[k] = n % s
    BY <1>2, <2>3
  <2> QED BY <2>3, <2>4, <2>5
<1>6. ASSUME NEW k \in 1 .. m
      PROVE  records[k] = IF up[k] < along[k] THEN <<1, up[k], along[k]>> ELSE <<0, 0, 0>>
  <2>1. records[k] = LET i == (k - 1) \div s
                         j == (k - 1) % s
                     IN  IF i < j THEN <<1, i, j>> ELSE <<0, 0, 0>>
    BY <1>3 DEF JoinRecords
  <2>2. up[k] = (k - 1) \div s /\ along[k] = (k - 1) % s
    BY <1>2
  <2> QED BY <2>1, <2>2
<1>7. ASSUME NEW i \in 0 .. s - 1, NEW j \in 0 .. s - 1
      PROVE  \E k \in 1 .. m : up[k] = i /\ along[k] = j
  <2>1. PICK n : Digits(n, i, s, j)
    BY DEF Digits
  <2>2. Below(n, s, s) /\ n \in Nat
    BY <2>1, DigitsBelow
  <2>3. PICK k \in 1 .. m : k - 1 = n
    BY <1>1, <2>2 DEF Below
  <2>4. s \in Nat \ {0} /\ i \in Nat
    OBVIOUS
  <2>5. n \div s = i /\ n % s = j
    BY <2>1, <2>4, DigitsAre
  <2>6. up[k] = (k - 1) \div s /\ along[k] = (k - 1) % s
    BY <1>2
  <2> QED BY <2>3, <2>5, <2>6
<1>8. RecordsOf(s, m, records, up, along)
  BY <1>4, <1>5, <1>6, <1>7, Zenon DEF RecordsOf
<1> QED BY <1>3, <1>8, Zenon

\* The pairs of the join, in order.
Join(s, E) ==
  /\ List(E) /\ Increasing(E, Len(E), PairOrder)
  /\ \A p \in 1 .. Len(E) : \E i, j \in 0 .. s - 1 : i < j /\ E[p] = <<i, j>>
  /\ \A i, j \in 0 .. s - 1 : i < j => \E p \in 1 .. Len(E) : E[p] = <<i, j>>

LEMMA PairsOfJoin ==
  ASSUME NEW s \in Nat
  PROVE  Join(s, Pairs(JoinRecords(s)))
<1>0. PICK m \in Nat : m = s * s
  OBVIOUS
<1>1. PICK records, E : records = JoinRecords(s) /\ E = Pairs(records)
  OBVIOUS
<1>2. PICK up, along : RecordsOf(s, m, records, up, along)
  BY <1>0, <1>1, JoinRecordsAre
<1>3. /\ List(records) /\ Len(records) = m
      /\ \A k \in 1 .. m :
           /\ up[k] \in 0 .. s - 1 /\ along[k] \in 0 .. s - 1 /\ Digits(k - 1, up[k], s, along[k])
           /\ records[k] = IF up[k] < along[k] THEN <<1, up[k], along[k]>> ELSE <<0, 0, 0>>
      /\ \A i, j \in 0 .. s - 1 : \E k \in 1 .. m : up[k] = i /\ along[k] = j
  BY <1>2, Zenon DEF RecordsOf
<1>4. PICK mine, f : mine = InJoin(records) /\ f = KeysOf(records)
  OBVIOUS
<1>5. PICK q \in Nat : \E ix : Enumerates(ix, q, m, mine) /\ Picks(E, q, ix, f)
  BY <1>1, <1>3, <1>4, PairsChosen DEF Chosen
<1>5a. PICK ix : Enumerates(ix, q, m, mine) /\ Picks(E, q, ix, f)
  BY <1>5
<1>6. ASSUME NEW k \in 1 .. m
      PROVE  /\ k \in mine <=> up[k] < along[k]
             /\ up[k] < along[k] => f[k] = <<up[k], along[k]>>
  <2>1. f[k] = <<records[k][2], records[k][3]>>
    BY <1>3, <1>4 DEF KeysOf
  <2>2. k \in mine <=> records[k][1] = 1
    BY <1>3, <1>4 DEF InJoin
  <2>3. CASE up[k] < along[k]
    <3>1. records[k] = <<1, up[k], along[k]>>
      BY <1>3, <2>3
    <3> QED BY <2>1, <2>2, <2>3, <3>1
  <2>4. CASE ~ (up[k] < along[k])
    <3>1. records[k] = <<0, 0, 0>>
      BY <1>3, <2>4
    <3> QED BY <2>2, <2>4, <3>1
  <2> QED BY <2>3, <2>4
<1>7. List(E) /\ Len(E) = q
  BY <1>5a DEF Picks
<1>8. ASSUME NEW p \in 1 .. q
      PROVE  /\ ix[p] \in 1 .. m /\ up[ix[p]] < along[ix[p]]
             /\ E[p] = <<up[ix[p]], along[ix[p]]>>
  <2>1. ix[p] \in 1 .. m /\ ix[p] \in mine /\ E[p] = f[ix[p]]
    BY <1>5a DEF Enumerates, Picks
  <2> QED BY <1>6, <2>1
<1>9. ASSUME NEW p \in 1 .. q, NEW r \in 1 .. q, p < r PROVE <<E[p], E[r]>> \in PairOrder
  <2>1. PICK a \in 1 .. m, b \in 1 .. m : a = ix[p] /\ b = ix[r] /\ a < b
    BY <1>5a, <1>8, <1>9 DEF Enumerates
  <2>2. PICK i \in 0 .. s - 1, j \in 0 .. s - 1 : i = up[a] /\ j = along[a] /\ Digits(a - 1, i, s, j)
    BY <1>3
  <2>3. PICK k \in 0 .. s - 1, l \in 0 .. s - 1 : k = up[b] /\ l = along[b] /\ Digits(b - 1, k, s, l)
    BY <1>3
  <2>4. i < k \/ (i = k /\ j < l)
    <3>1. CASE k < i \/ (k = i /\ l < j)
      <4>1. PICK x, y : x = a - 1 /\ y = b - 1
        OBVIOUS
      <4>2. Digits(x, i, s, j) /\ Digits(y, k, s, l) /\ i \in Nat /\ k \in Nat
        BY <2>2, <2>3, <4>1
      <4>3. y < x
        BY <3>1, <4>2, DigitsOrdered
      <4> QED BY <2>1, <4>1, <4>3
    <3>2. CASE k = i /\ l = j
      <4>1. a - 1 = b - 1
        BY <2>2, <2>3, <3>2 DEF Digits
      <4> QED BY <2>1, <4>1
    <3> QED BY <3>1, <3>2
  <2>5. PICK x, y : x = <<i, j>> /\ y = <<k, l>>
    OBVIOUS
  <2>5a. x \in Nat \X Nat /\ y \in Nat \X Nat
    BY <2>5
  <2>6. PairLess(x, y)
    BY <2>4, <2>5 DEF PairLess
  <2>7. E[p] = x /\ E[r] = y
    BY <1>8, <2>1, <2>2, <2>3, <2>5
  <2> QED BY <2>5a, <2>6, <2>7, PairOrderIs
<1>10. ASSUME NEW p \in 1 .. q PROVE \E i, j \in 0 .. s - 1 : i < j /\ E[p] = <<i, j>>
  <2>1. PICK i \in 0 .. s - 1, j \in 0 .. s - 1 : i = up[ix[p]] /\ j = along[ix[p]]
    BY <1>3, <1>8
  <2>2. i < j /\ E[p] = <<i, j>>
    BY <1>8, <2>1
  <2> QED BY <2>2
<1>11. ASSUME NEW i \in 0 .. s - 1, NEW j \in 0 .. s - 1, i < j
       PROVE  \E p \in 1 .. q : E[p] = <<i, j>>
  <2>1. PICK k \in 1 .. m : up[k] = i /\ along[k] = j
    BY <1>3
  <2>2. k \in mine
    BY <1>6, <1>11, <2>1
  <2>3. PICK p \in 1 .. q : ix[p] = k
    BY <1>5a, <2>2 DEF Enumerates
  <2> QED BY <1>8, <2>1, <2>3
<1>12. Increasing(E, q, PairOrder)
  BY <1>9, Zenon DEF Increasing
<1>13. Join(s, E)
  BY <1>7, <1>10, <1>11, <1>12 DEF Join
<1>14. Join(s, Pairs(JoinRecords(s)))
  BY <1>1, <1>13
<1> QED BY <1>14

\* Records that tell of a pair of keys each, or of none.
ReadAs(s, records) ==
  /\ List(records)
  /\ \A k \in 1 .. Len(records) :
       records[k] = <<0, 0, 0>> \/ \E i, j \in 0 .. s - 1 : records[k] = <<1, i, j>>

\* Their pairs, sorted.
InOrder(s, records, V) ==
  /\ List(V)
  /\ \A p, r \in 1 .. Len(V) : p < r => <<V[p], V[r]>> \in PairOrder \/ V[p] = V[r]
  /\ \A p \in 1 .. Len(V) : \E i, j \in 0 .. s - 1 : V[p] = <<i, j>>
  /\ \A i, j \in 0 .. s - 1 :
       TimesIn(1 .. Len(V), V, <<i, j>>)
         = Cardinality({k \in DOMAIN records : records[k] = <<1, i, j>>})

LEMMA SortedAreInOrder ==
  ASSUME NEW s \in Nat, NEW records, ReadAs(s, records)
  PROVE  InOrder(s, records, Sorted(Pairs(records)))
<1>1. PICK n \in Nat : n = Len(records)
  BY DEF ReadAs, List
<1>2. /\ List(records) /\ DOMAIN records = 1 .. n
      /\ \A k \in 1 .. n :
           records[k] = <<0, 0, 0>> \/ \E i, j \in 0 .. s - 1 : records[k] = <<1, i, j>>
  BY <1>1 DEF ReadAs, List
<1>3. PICK P, mine, f : P = Pairs(records) /\ mine = InJoin(records) /\ f = KeysOf(records)
  OBVIOUS
<1>4. Chosen(P, n, mine, f)
  BY <1>1, <1>2, <1>3, PairsChosen
<1>5. PICK q \in Nat : \E ix : Enumerates(ix, q, n, mine) /\ Picks(P, q, ix, f)
  BY <1>4 DEF Chosen
<1>6. PICK ix : Enumerates(ix, q, n, mine) /\ Picks(P, q, ix, f)
  BY <1>5
<1>7. List(P) /\ Len(P) = q
  BY <1>6 DEF Picks
<1>8. ASSUME NEW k \in 1 .. n
      PROVE  /\ f[k] = <<records[k][2], records[k][3]>>
             /\ k \in mine <=> records[k][1] = 1
  BY <1>1, <1>3 DEF KeysOf, InJoin
<1>9. ASSUME NEW k \in 1 .. n, NEW i \in 0 .. s - 1, NEW j \in 0 .. s - 1
      PROVE  k \in mine /\ f[k] = <<i, j>> <=> records[k] = <<1, i, j>>
  <2>1. CASE records[k] = <<0, 0, 0>>
    BY <1>8, <2>1
  <2>2. CASE \E a, b \in 0 .. s - 1 : records[k] = <<1, a, b>>
    <3>1. PICK a \in 0 .. s - 1, b \in 0 .. s - 1 : records[k] = <<1, a, b>>
      BY <2>2
    <3>2. k \in mine /\ f[k] = <<a, b>>
      BY <1>8, <3>1
    <3> QED BY <3>1, <3>2
  <2> QED BY <1>2, <2>1, <2>2
<1>10. ASSUME NEW k \in mine PROVE \E i, j \in 0 .. s - 1 : f[k] = <<i, j>>
  <2>1. k \in 1 .. n /\ records[k][1] = 1
    BY <1>1, <1>3 DEF InJoin
  <2>2. PICK a \in 0 .. s - 1, b \in 0 .. s - 1 : records[k] = <<1, a, b>>
    <3>1. records[k] # <<0, 0, 0>>
      BY <2>1
    <3> QED BY <1>2, <2>1, <3>1
  <2>3. f[k] = <<a, b>>
    BY <1>8, <2>1, <2>2
  <2> QED BY <2>3
<1>11. ASSUME NEW p \in 1 .. q PROVE \E i, j \in 0 .. s - 1 : P[p] = <<i, j>>
  <2>1. ix[p] \in mine /\ P[p] = f[ix[p]]
    BY <1>6 DEF Enumerates, Picks
  <2> QED BY <1>10, <2>1
<1>12. KeyPairs(P, q)
  <2>1. ASSUME NEW p \in 1 .. q PROVE P[p] \in Nat \X Nat
    <3>1. PICK i \in 0 .. s - 1, j \in 0 .. s - 1 : P[p] = <<i, j>>
      BY <1>11
    <3> QED BY <3>1
  <2> QED BY <2>1 DEF KeyPairs
<1>13. PICK V : V = Sorted(P)
  OBVIOUS
<1>14. /\ Rearranged(V, 1 .. q, P) /\ Len(V) = q
       /\ \A p, r \in 1 .. q : p < r => PairLess(V[p], V[r]) \/ V[p] = V[r]
  BY <1>7, <1>12, <1>13, SortedIs
<1>15. List(V) /\ \A p \in 1 .. q : \E r \in 1 .. q : V[p] = P[r]
  <2>1. PICK D : D = 1 .. q
    OBVIOUS
  <2>2. Holds(V, D, P)
    BY <1>14, <2>1, RearrangedHolds
  <2> QED BY <1>14, <2>1, <2>2 DEF Holds
<1>16. \A p \in 1 .. q : \E i, j \in 0 .. s - 1 : V[p] = <<i, j>>
  <2> TAKE p \in 1 .. q
  <2>1. PICK r \in 1 .. q : V[p] = P[r]
    BY <1>15
  <2>2. PICK i \in 0 .. s - 1, j \in 0 .. s - 1 : P[r] = <<i, j>>
    BY <1>11
  <2> QED BY <2>1, <2>2
<1>17. ASSUME NEW p \in 1 .. q, NEW r \in 1 .. q, p < r
       PROVE  <<V[p], V[r]>> \in PairOrder \/ V[p] = V[r]
  <2>1. PICK x, y : x = V[p] /\ y = V[r]
    OBVIOUS
  <2>2. x \in Nat \X Nat /\ y \in Nat \X Nat
    BY <1>12, <1>15, <2>1 DEF KeyPairs
  <2>3. PairLess(x, y) \/ x = y
    BY <1>14, <1>17, <2>1
  <2> QED BY <2>1, <2>2, <2>3, PairOrderIs
<1>18. ASSUME NEW i \in 0 .. s - 1, NEW j \in 0 .. s - 1
       PROVE  TimesIn(1 .. q, V, <<i, j>>)
                = Cardinality({k \in DOMAIN records : records[k] = <<1, i, j>>})
  <2>1. PICK x : x = <<i, j>>
    OBVIOUS
  <2>2. PICK D : D = 1 .. q
    OBVIOUS
  <2>3. TimesIn(D, V, x) = TimesIn(D, P, x)
    BY <1>14, <2>2, RearrangedTimes
  <2>4. Rearranged(P, mine, f)
    BY <1>4, ChosenRearranged
  <2>5. TimesIn(D, P, x) = TimesIn(mine, f, x)
    BY <1>7, <2>2, <2>4, RearrangedTimes
  <2>6. {d \in mine : f[d] = x} = {k \in DOMAIN records : records[k] = <<1, i, j>>}
    <3>1. mine \subseteq 1 .. n
      BY <1>1, <1>3 DEF InJoin
    <3> QED BY <1>2, <1>9, <2>1, <3>1
  <2> QED BY <2>1, <2>2, <2>3, <2>5, <2>6, Zenon DEF TimesIn
<1>19. InOrder(s, records, V)
  BY <1>14, <1>15, <1>16, <1>17, <1>18, Zenon DEF InOrder
<1> QED BY <1>3, <1>13, <1>19

\* Each pair of the join is told once, and no other.
TellsOnce(s, records) ==
  \A i, j \in 0 .. s - 1 :
    Cardinality({k \in DOMAIN records : records[k] = <<1, i, j>>}) = IF i < j THEN 1 ELSE 0

\* Then the pairs, sorted, are the join's.
LEMMA OnceEach ==
  ASSUME NEW s \in Nat, NEW E, Join(s, E), NEW records, NEW V, InOrder(s, records, V)
  PROVE  V = E <=> TellsOnce(s, records)
<1>1. PICK n \in Nat, m \in Nat : n = Len(V) /\ m = Len(E)
  BY DEF InOrder, Join, List
<1>2. /\ List(V)
      /\ \A p, r \in 1 .. n : p < r => <<V[p], V[r]>> \in PairOrder \/ V[p] = V[r]
      /\ \A p \in 1 .. n : \E i, j \in 0 .. s - 1 : V[p] = <<i, j>>
  BY <1>1, Zenon DEF InOrder
<1>3. /\ List(E) /\ Increasing(E, m, PairOrder)
      /\ \A p \in 1 .. m : \E i, j \in 0 .. s - 1 : i < j /\ E[p] = <<i, j>>
      /\ \A i, j \in 0 .. s - 1 : i < j => \E p \in 1 .. m : E[p] = <<i, j>>
  BY <1>1, Zenon DEF Join
<1>4. SUFFICES V = E <=> \A i, j \in 0 .. s - 1 :
                           TimesIn(1 .. n, V, <<i, j>>) = IF i < j THEN 1 ELSE 0
  <2>1. \A i, j \in 0 .. s - 1 :
          TimesIn(1 .. n, V, <<i, j>>)
            = Cardinality({k \in DOMAIN records : records[k] = <<1, i, j>>})
    BY <1>1, Zenon DEF InOrder
  <2> QED BY <1>4, <2>1, Zenon DEF TellsOnce
<1>5. ASSUME V = E, NEW i \in 0 .. s - 1, NEW j \in 0 .. s - 1
      PROVE  TimesIn(1 .. n, V, <<i, j>>) = IF i < j THEN 1 ELSE 0
  <2>1. PICK S : S = {p \in 1 .. n : V[p] = <<i, j>>}
    OBVIOUS
  <2>2. n = m
    BY <1>1, <1>5
  <2>3. CASE i < j
    <3>1. PICK p \in 1 .. m : E[p] = <<i, j>>
      BY <1>3, <2>3
    <3>2. ASSUME NEW r \in 1 .. m, E[r] = <<i, j>> PROVE r = p
      <4>1. PICK x : x = <<i, j>> /\ E[p] = x /\ E[r] = x
        BY <3>1, <3>2
      <4>2. <<x, x>> \notin PairOrder
        BY PairOrderAsymmetric, Zenon DEF Asymmetric
      <4>3. ~ (p < r) /\ ~ (r < p)
        BY <1>3, <4>1, <4>2 DEF Increasing
      <4> QED BY <4>3
    <3>3. S = {p}
      BY <1>5, <2>1, <2>2, <3>1, <3>2
    <3>4. Cardinality(S) = 1
      BY <3>3, FS_Singleton
    <3> QED BY <2>1, <2>3, <3>4, Zenon DEF TimesIn
  <2>4. CASE ~ (i < j)
    <3>1. ASSUME NEW p \in 1 .. m, E[p] = <<i, j>> PROVE FALSE
      <4>1. PICK a \in 0 .. s - 1, b \in 0 .. s - 1 : a < b /\ E[p] = <<a, b>>
        BY <1>3
      <4> QED BY <2>4, <3>1, <4>1
    <3>2. S = {}
      BY <1>5, <2>1, <2>2, <3>1
    <3>3. Cardinality(S) = 0
      BY <3>2, FS_EmptySet
    <3> QED BY <2>1, <2>4, <3>3, Zenon DEF TimesIn
  <2> QED BY <2>3, <2>4
<1>6. ASSUME \A i, j \in 0 .. s - 1 : TimesIn(1 .. n, V, <<i, j>>) = IF i < j THEN 1 ELSE 0
      PROVE  V = E
  <2>1. ASSUME NEW p \in 1 .. n, NEW r \in 1 .. n, p # r, V[p] = V[r] PROVE FALSE
    <3>1. PICK i \in 0 .. s - 1, j \in 0 .. s - 1 : V[p] = <<i, j>>
      BY <1>2
    <3>2. PICK S : S = {k \in 1 .. n : V[k] = <<i, j>>}
      OBVIOUS
    <3>3. p \in S /\ r \in S
      BY <2>1, <3>1, <3>2
    <3>4. Cardinality(S) \in {0, 1}
      <4>1. Cardinality(S) = IF i < j THEN 1 ELSE 0
        BY <1>6, <3>2, Zenon DEF TimesIn
      <4> QED BY <4>1
    <3>5. IsFiniteSet(S)
      <4>1. IsFiniteSet(1 .. n) /\ S \subseteq 1 .. n
        BY <3>2, FS_Interval
      <4> QED BY <4>1, FS_Subset
    <3>6. S = {} \/ \E x : S = {x}
      BY <3>4, <3>5, FS_EmptySet, FS_Singleton
    <3> QED BY <2>1, <3>3, <3>6
  <2>2. Increasing(V, n, PairOrder)
    BY <1>2, <2>1 DEF Increasing
  <2>3. ASSUME NEW i \in 0 .. s - 1, NEW j \in 0 .. s - 1
        PROVE  i < j <=> \E p \in 1 .. n : V[p] = <<i, j>>
    <3>1. PICK S : S = {k \in 1 .. n : V[k] = <<i, j>>}
      OBVIOUS
    <3>2. Cardinality(S) = IF i < j THEN 1 ELSE 0
      BY <1>6, <3>1, Zenon DEF TimesIn
    <3>3. IsFiniteSet(S)
      <4>1. IsFiniteSet(1 .. n) /\ S \subseteq 1 .. n
        BY <3>1, FS_Interval
      <4> QED BY <4>1, FS_Subset
    <3>4. S = {} <=> ~ (i < j)
      BY <3>2, <3>3, FS_EmptySet
    <3> QED BY <3>1, <3>4
  <2>4. Among(V, n, E, m)
    <3>1. ASSUME NEW p \in 1 .. n PROVE \E r \in 1 .. m : V[p] = E[r]
      <4>1. PICK i \in 0 .. s - 1, j \in 0 .. s - 1 : V[p] = <<i, j>>
        BY <1>2
      <4>2. i < j
        BY <2>3, <4>1
      <4>3. PICK r \in 1 .. m : E[r] = <<i, j>>
        BY <1>3, <4>2
      <4> QED BY <4>1, <4>3
    <3> QED BY <3>1 DEF Among
  <2>5. Among(E, m, V, n)
    <3>1. ASSUME NEW r \in 1 .. m PROVE \E p \in 1 .. n : E[r] = V[p]
      <4>1. PICK i \in 0 .. s - 1, j \in 0 .. s - 1 : i < j /\ E[r] = <<i, j>>
        BY <1>3
      <4>2. PICK p \in 1 .. n : V[p] = <<i, j>>
        BY <2>3, <4>1
      <4> QED BY <4>1, <4>2
    <3> QED BY <3>1 DEF Among
  <2> QED BY <1>1, <1>2, <1>3, <2>2, <2>4, <2>5, PairOrderAsymmetric, SameSorted
<1> QED BY <1>5, <1>6

LEMMA FlatReadAs ==
  ASSUME NEW s, NEW n \in Nat \ {0}, NEW ss, DOMAIN ss = 1 .. n,
         \A i \in 1 .. n : ReadAs(s, ss[i])
  PROVE  ReadAs(s, FlattenSeq(ss))
<1>1. Len(ss) = n
  BY LengthOf
<1>2. PICK f : /\ f[1] = ss[1]
               /\ \A i \in 2 .. n : f[i] = f[i - 1] \o ss[i]
               /\ FlattenSeq(ss) = f[n]
  BY <1>1, FlattenSeqIs
<1>3. ASSUME NEW u, NEW v, ReadAs(s, u), ReadAs(s, v) PROVE ReadAs(s, u \o v)
  <2>1. PICK l \in Nat, m \in Nat : l = Len(u) /\ m = Len(v)
    BY <1>3 DEF ReadAs, List
  <2>2. List(u) /\ List(v)
    BY <1>3 DEF ReadAs
  <2>3. PICK c : c = u \o v
    OBVIOUS
  <2>4. /\ List(c) /\ Len(c) = l + m
        /\ \A k \in 1 .. l : c[k] = u[k]
        /\ \A k \in 1 .. m : c[l + k] = v[k]
    BY <2>1, <2>2, <2>3, Concatenated
  <2>5. ASSUME NEW k \in 1 .. l + m
        PROVE  c[k] = <<0, 0, 0>> \/ \E i, j \in 0 .. s - 1 : c[k] = <<1, i, j>>
    <3>1. CASE k <= l
      BY <1>3, <2>1, <2>4, <3>1 DEF ReadAs
    <3>2. CASE k > l
      <4>1. PICK p \in 1 .. m : k = l + p
        <5>1. k - l \in 1 .. m /\ k = l + (k - l)
          BY <3>2
        <5> QED BY <5>1
      <4>2. c[k] = v[p]
        BY <2>4, <4>1
      <4> QED BY <1>3, <2>1, <4>2 DEF ReadAs
    <3> QED BY <3>1, <3>2
  <2> QED BY <2>3, <2>4, <2>5 DEF ReadAs
<1> DEFINE S == {k \in Nat : k + 1 <= n => ReadAs(s, f[k + 1])}
<1>4. 0 \in S
  BY <1>2
<1>5. ASSUME NEW k \in Nat, k \in S PROVE k + 1 \in S
  <2>1. SUFFICES ASSUME k + 2 <= n PROVE ReadAs(s, f[k + 2])
    OBVIOUS
  <2>2. k + 2 \in 2 .. n /\ k + 2 \in 1 .. n /\ (k + 2) - 1 = k + 1
    BY <2>1
  <2>3. f[k + 2] = f[k + 1] \o ss[k + 2]
    BY <1>2, <2>2
  <2>4. ReadAs(s, f[k + 1])
    BY <1>5, <2>1
  <2>5. ReadAs(s, ss[k + 2])
    BY <2>2
  <2>6. PICK u, v : u = f[k + 1] /\ v = ss[k + 2]
    OBVIOUS
  <2>7. ReadAs(s, u \o v)
    BY <1>3, <2>4, <2>5, <2>6
  <2> QED BY <2>3, <2>6, <2>7
<1> HIDE DEF S
<1>6. \A k \in Nat : k \in S
  BY <1>4, <1>5, Induction
<1>7. n - 1 \in S
  BY <1>6
<1> QED BY <1>2, <1>7 DEF S

\* What a check that has passed has found.
EachOnce ==
  /\ \A w \in 0 .. Workers - 1 : Len(files["output", w].items) = (Size * Size) \div Workers
  /\ TellsOnce(Size, Whole("output"))

LEMMA PassesMeans ==
  ASSUME Size \in Nat, Workers \in Nat, ReadAs(Size, Whole("output"))
  PROVE  Passes <=> EachOnce
<1>1. PICK records : records = Whole("output")
  OBVIOUS
<1>2. PICK V, E : V = Sorted(Pairs(records)) /\ E = Pairs(JoinRecords(Size))
  OBVIOUS
<1>3. Join(Size, E) /\ InOrder(Size, records, V)
  BY <1>1, <1>2, PairsOfJoin, SortedAreInOrder
<1>4. V = E <=> TellsOnce(Size, records)
  BY <1>3, OnceEach
<1>5. V = E <=> (Len(V) = Len(E) /\ \A k \in DOMAIN V : V[k] = E[k])
  <2>1. List(V) /\ List(E)
    BY <1>3 DEF Join, InOrder
  <2> QED BY <2>1 DEF List
<1>6. PICK outputs : outputs = [i \in 1 .. Workers |-> files["output", i - 1].items]
  OBVIOUS
<1>7. records = FlattenSeq(outputs)
  BY <1>1, <1>6, Zenon DEF Whole
<1>8. Passes <=> (\A i \in 1 .. Workers : Len(outputs[i]) = PerWorker) /\ V = E
  BY <1>2, <1>5, <1>6, <1>7, Zenon DEF Passes
<1>9. (\A i \in 1 .. Workers : Len(outputs[i]) = PerWorker)
        <=> \A w \in 0 .. Workers - 1 : Len(files[<<"output", w>>].items) = PerWorker
  <2>1. \A i \in 1 .. Workers : outputs[i] = files[<<"output", i - 1>>].items
    BY <1>6
  <2>2. ASSUME \A i \in 1 .. Workers : Len(outputs[i]) = PerWorker, NEW w \in 0 .. Workers - 1
        PROVE  Len(files[<<"output", w>>].items) = PerWorker
    <3>1. w + 1 \in 1 .. Workers /\ (w + 1) - 1 = w
      OBVIOUS
    <3> QED BY <2>1, <2>2, <3>1
  <2>3. ASSUME \A w \in 0 .. Workers - 1 : Len(files[<<"output", w>>].items) = PerWorker,
               NEW i \in 1 .. Workers
        PROVE  Len(outputs[i]) = PerWorker
    <3>1. i - 1 \in 0 .. Workers - 1
      OBVIOUS
    <3> QED BY <2>1, <2>3, <3>1
  <2> QED BY <2>2, <2>3
<1> QED BY <1>1, <1>4, <1>8, <1>9, Zenon DEF EachOnce, PerWorker

\* The output files hold records that can be read.
Readable == \A w \in WorkerIds : ReadAs(Size, files[<<"output", w>>].items)

\* A check has only been made of a join, and it said whether the files pass.
Judged ==
  verdict # "none" =>
    /\ pc = "idle" /\ Problem = "loop_join" /\ Option = "check" /\ command.argc \in {4, 5}
    /\ (verdict = "PASS") <=> Passes

LEMMA NothingReadable == ASSUME NEW s PROVE ReadAs(s, <<>>)
  BY DEF ReadAs, List

LEMMA WholeReadable ==
  ASSUME Readable, Workers \in Nat \ {0}, Workers <= MaxWorkers
  PROVE  ReadAs(Size, Whole("output"))
<1>1. PICK ss : ss = [i \in 1 .. Workers |-> files[<<"output", i - 1>>].items]
  OBVIOUS
<1>2. ASSUME NEW i \in 1 .. Workers PROVE ReadAs(Size, ss[i])
  <2>1. i - 1 \in WorkerIds
    BY InputAssumption DEF WorkerIds
  <2>2. ReadAs(Size, files[<<"output", i - 1>>].items)
    BY <2>1, Zenon DEF Readable
  <2> QED BY <1>1, <2>2
<1>3. DOMAIN ss = 1 .. Workers
  BY <1>1
<1>4. ReadAs(Size, FlattenSeq(ss))
  BY <1>2, <1>3, FlatReadAs
<1> QED BY <1>1, <1>4, Zenon DEF Whole

LEMMA RecordsReadable == ASSUME NEW s \in Nat PROVE ReadAs(s, JoinRecords(s)) /\ Len(JoinRecords(s)) = s * s
<1>1. PICK m \in Nat : m = s * s
  OBVIOUS
<1>2. PICK up, along : RecordsOf(s, m, JoinRecords(s), up, along)
  BY <1>1, JoinRecordsAre
<1> QED BY <1>1, <1>2 DEF RecordsOf, ReadAs

\* Of a result with two neighbours swapped or a record replaced, too.
LEMMA ResultsReadable ==
  ASSUME NEW s \in Nat, Whole("expected") = JoinRecords(s), NEW result \in Results
  PROVE  ReadAs(s, result) /\ Len(result) = s * s
<1>1. PICK right : right = JoinRecords(s)
  OBVIOUS
<1>2. PICK n \in Nat : n = s * s
  OBVIOUS
<1>3. /\ List(right) /\ Len(right) = n
      /\ \A k \in 1 .. n : right[k] = <<0, 0, 0>> \/ \E i, j \in 0 .. s - 1 : right[k] = <<1, i, j>>
  BY <1>1, <1>2, RecordsReadable DEF ReadAs
<1>4. \/ result = right
      \/ \E k \in 1 .. n - 1 : result = [right EXCEPT ![k] = right[k + 1], ![k + 1] = right[k]]
      \/ \E k, m \in 1 .. n : result = [right EXCEPT ![k] = right[m]]
  BY <1>1, <1>3 DEF Results
<1>5. DOMAIN right = 1 .. n
  BY <1>3 DEF List
<1>6. /\ DOMAIN result = 1 .. n /\ result = [k \in 1 .. n |-> result[k]]
      /\ \A k \in 1 .. n : \E m \in 1 .. n : result[k] = right[m]
  <2>1. CASE result = right
    BY <1>3, <1>5, <2>1 DEF List
  <2>2. CASE \E k \in 1 .. n - 1 : result = [right EXCEPT ![k] = right[k + 1], ![k + 1] = right[k]]
    <3>1. PICK k \in 1 .. n - 1 : result = [right EXCEPT ![k] = right[k + 1], ![k + 1] = right[k]]
      BY <2>2
    <3>2. k \in 1 .. n /\ k + 1 \in 1 .. n
      OBVIOUS
    <3>3. /\ DOMAIN result = 1 .. n /\ result = [m \in 1 .. n |-> result[m]]
          /\ \A m \in 1 .. n :
               result[m] = IF m = k THEN right[k + 1] ELSE IF m = k + 1 THEN right[k] ELSE right[m]
      BY <1>5, <3>1, <3>2
    <3> QED BY <3>2, <3>3
  <2>3. CASE \E k, m \in 1 .. n : result = [right EXCEPT ![k] = right[m]]
    <3>1. PICK k \in 1 .. n, m \in 1 .. n : result = [right EXCEPT ![k] = right[m]]
      BY <2>3
    <3>2. /\ DOMAIN result = 1 .. n /\ result = [l \in 1 .. n |-> result[l]]
          /\ \A l \in 1 .. n : result[l] = IF l = k THEN right[m] ELSE right[l]
      BY <1>5, <3>1
    <3> QED BY <3>2
  <2> QED BY <1>4, <2>1, <2>2, <2>3
<1>7. List(result) /\ Len(result) = n
  BY <1>6, ListOf
<1>8. ASSUME NEW k \in 1 .. n
      PROVE  result[k] = <<0, 0, 0>> \/ \E i, j \in 0 .. s - 1 : result[k] = <<1, i, j>>
  <2>1. PICK m \in 1 .. n : result[k] = right[m]
    BY <1>6
  <2> QED BY <1>3, <2>1
<1> QED BY <1>2, <1>7, <1>8 DEF ReadAs

\* Any part of a result can be read, if it is no longer than the result.
LEMMA PartsReadable ==
  ASSUME NEW s \in Nat, NEW result, ReadAs(s, result), Len(result) = s * s, s = Size,
         Workers \in Nat \ {0}, NEW parts \in Parts(result), NEW i \in 1 .. Workers
  PROVE  ReadAs(s, parts[i])
<1>1. PICK n \in Nat : n = s * s
  OBVIOUS
<1>2. /\ List(result) /\ Len(result) = n
      /\ \A k \in 1 .. n : result[k] = <<0, 0, 0>> \/ \E a, b \in 0 .. s - 1 : result[k] = <<1, a, b>>
  BY <1>1 DEF ReadAs
<1>3. PICK dealt : dealt = Deal("output", BlockedOf(Workers, n), result)
  OBVIOUS
<1>4. \/ parts[i] = ItemsOf(dealt, "output", i - 1)
      \/ parts[i] = SubSeq(result, (i - 1) * PerWorker + 1, i * PerWorker)
  <2>1. \/ parts = [j \in 1 .. Workers |-> ItemsOf(dealt, "output", j - 1)]
        \/ parts = [j \in 1 .. Workers |-> SubSeq(result, (j - 1) * PerWorker + 1, j * PerWorker)]
    BY <1>2, <1>3, Zenon DEF Parts
  <2> QED BY <2>1
<1>5. CASE parts[i] = ItemsOf(dealt, "output", i - 1)
  <2>1. /\ List(dealt) /\ Len(dealt) = n
        /\ \A k \in 1 .. n : dealt[k].value = result[k]
    <3>1. PICK workers : workers = BlockedOf(Workers, n)
      OBVIOUS
    <3>2. /\ List(dealt) /\ Len(dealt) = n
          /\ \A k \in 1 .. n :
               dealt[k] = [kind |-> "output", worker |-> workers[k], value |-> result[k]]
      BY <1>2, <1>3, <3>1, DealIs
    <3> QED BY <3>2
  <2>2. PICK w, D, f, u : /\ w = i - 1 /\ u = ItemsOf(dealt, "output", w)
                          /\ D = {k \in 1 .. n : dealt[k].kind = "output" /\ dealt[k].worker = w}
                          /\ f = [k \in 1 .. n |-> dealt[k].value]
    OBVIOUS
  <2>3. Rearranged(u, D, f)
    <3>1. Rearranged(ItemsOf(dealt, "output", w),
                     {k \in 1 .. Len(dealt) : dealt[k].kind = "output" /\ dealt[k].worker = w},
                     [k \in 1 .. Len(dealt) |-> dealt[k].value])
      BY <2>1, ItemsRearranged, Zenon
    <3> QED BY <2>1, <2>2, <3>1, Zenon
  <2>4. List(u) /\ DOMAIN u = 1 .. Len(u) /\ \A j \in DOMAIN u : \E d \in D : u[j] = f[d]
    BY <2>3, RearrangedHolds DEF Holds
  <2>5. ASSUME NEW j \in 1 .. Len(u)
        PROVE  u[j] = <<0, 0, 0>> \/ \E a, b \in 0 .. s - 1 : u[j] = <<1, a, b>>
    <3>1. PICK k \in 1 .. n : u[j] = result[k]
      <4>1. PICK d \in D : u[j] = f[d]
        BY <2>4, <2>5
      <4>2. d \in 1 .. n /\ f[d] = result[d]
        BY <2>1, <2>2
      <4> QED BY <4>1, <4>2
    <3> QED BY <1>2, <3>1
  <2>6. ReadAs(s, u)
    BY <2>4, <2>5 DEF ReadAs
  <2> QED BY <1>5, <2>2, <2>6
<1>6. CASE parts[i] = SubSeq(result, (i - 1) * PerWorker + 1, i * PerWorker)
  <2>1. PICK q \in Nat : q = PerWorker /\ Workers * q <= n
    <3>1. n \div Workers \in Nat /\ (n \div Workers) * Workers <= n
      BY QuotientBounds, Euclid
    <3>2. PerWorker = n \div Workers
      BY <1>1 DEF PerWorker
    <3> QED BY <3>1, <3>2
  <2>2. PICK lo \in Nat, hi \in Nat : lo = (i - 1) * q /\ hi = i * q /\ hi = lo + q /\ hi <= n
    <3>1. i * q <= Workers * q
      BY Monotone
    <3>2. (i - 1) * q \in Nat /\ i * q = (i - 1) * q + q /\ i * q \in Nat
      OBVIOUS
    <3>3. i * q <= n
      <4>1. Workers * q \in Nat /\ i * q \in Nat
        OBVIOUS
      <4> QED BY <2>1, <3>1, <4>1
    <3> QED BY <3>2, <3>3
  <2>3. PICK u : u = [j \in 1 .. q |-> result[lo + j]]
    OBVIOUS
  <2>4. SubSeq(result, lo + 1, lo + q) = u
    BY <2>3
  <2>5. parts[i] = u
    BY <1>6, <2>1, <2>2, <2>4
  <2>6. List(u) /\ Len(u) = q
    <3>1. DOMAIN u = 1 .. q /\ u = [j \in 1 .. q |-> u[j]]
      BY <2>3
    <3> QED BY <3>1, ListOf
  <2>7. ASSUME NEW j \in 1 .. q
        PROVE  u[j] = <<0, 0, 0>> \/ \E a, b \in 0 .. s - 1 : u[j] = <<1, a, b>>
    <3>1. lo + j \in 1 .. n /\ u[j] = result[lo + j]
      BY <2>2, <2>3
    <3> QED BY <1>2, <3>1
  <2> QED BY <2>5, <2>6, <2>7 DEF ReadAs
<1> QED BY <1>4, <1>5, <1>6

LEMMA ExpectedIsJoin ==
  ASSUME IInv, Made, Generated, Problem = "loop_join"
  PROVE  Size \in Nat /\ Workers \in Nat \ {0} /\ Whole("expected") = JoinRecords(Size)
<1>1. Told /\ Size \in Nat /\ Workers \in Nat \ {0}
  BY MadeIsTold
<1>2. Script = LoopJoin(Size, Workers)
  BY <1>1 DEF Script, Writes, MatrixPairs, MatrixVectors
<1>3. PICK g, e, x : Gathered(Script, Workers, g, e, x)
  BY DEF Gathered
<1>4. x = JoinRecords(Size)
  BY <1>1, <1>2, <1>3, LoopJoinAnswer
<1>5. "expected" \in Written
  BY DEF Written
<1>6. Whole("expected") = x
  BY <1>1, <1>3, <1>5, WholeIsMerged DEF Gathered
<1> QED BY <1>1, <1>4, <1>6

LEMMA ReadableStays ==
  ASSUME IInv, Made, Readable, [Next]_vars
  PROVE  Readable'
<1>1. Size' = Size
  BY DEF Next, vars, Start, OpenWriters, Refuse, Complain, Generate, Check, Mage, Size
<1>2. ASSUME \A w \in WorkerIds : files'[<<"output", w>>] = files[<<"output", w>>]
      PROVE  Readable'
  BY <1>1, <1>2, Zenon DEF Readable
<1>3. ASSUME NEW w \in WorkerIds
      PROVE  <<"output", w>> \in DOMAIN files /\ ~ OfRun(<<"output", w>>)
  BY DEF IInv, TypeOK, Kinds, OfRun, Written
<1>4. CASE OpenWriters
  BY <1>2, <1>3, <1>4 DEF OpenWriters
<1>5. CASE Generate
  <2>1. CASE UNCHANGED files
    BY <1>2, <2>1
  <2>2. CASE ~ UNCHANGED files
    <3>1. PICK writes : files' = [f \in DOMAIN files |->
                                    IF Option # "check" /\ OfRun(f)
                                    THEN Holding(ItemsOf(writes, f[1], f[2])) ELSE files[f]]
      BY <1>5, <2>2, Zenon DEF Generate
    <3> QED BY <1>2, <1>3, <3>1
  <2> QED BY <2>1, <2>2
<1>6. CASE Mage
  <2>1. Generated /\ Problem = "loop_join"
    BY <1>6 DEF Mage
  <2>2. PICK s \in Nat : s = Size /\ Whole("expected") = JoinRecords(s)
    BY <2>1, ExpectedIsJoin
  <2>3. PICK result \in Results : \E parts \in Parts(result) :
          files' = [f \in DOMAIN files |-> IF f[1] = "output" /\ f[2] < Workers
                                           THEN Holding(parts[f[2] + 1]) ELSE files[f]]
    BY <1>6 DEF Mage
  <2>4. PICK parts \in Parts(result) :
          files' = [f \in DOMAIN files |-> IF f[1] = "output" /\ f[2] < Workers
                                           THEN Holding(parts[f[2] + 1]) ELSE files[f]]
    BY <2>3
  <2>5. ReadAs(s, result) /\ Len(result) = s * s /\ Workers \in Nat \ {0}
    BY <2>1, <2>2, ResultsReadable, ExpectedIsJoin
  <2>6. ASSUME NEW w \in WorkerIds PROVE ReadAs(Size, files'[<<"output", w>>].items)
    <3>1. CASE w < Workers
      <4>1. PICK i \in 1 .. Workers : i = w + 1
        BY <2>5, <3>1, InputAssumption DEF WorkerIds
      <4>2. files'[<<"output", w>>] = Holding(parts[i])
        BY <1>3, <2>4, <3>1, <4>1
      <4>3. files'[<<"output", w>>].items = parts[i]
        BY <4>2 DEF Holding
      <4>4. ReadAs(s, parts[i])
        BY <2>2, <2>5, PartsReadable
      <4> QED BY <2>2, <4>3, <4>4
    <3>2. CASE ~ (w < Workers)
      <4>1. files'[<<"output", w>>] = files[<<"output", w>>]
        BY <1>3, <2>4, <3>2
      <4> QED BY <4>1 DEF Readable
    <3> QED BY <3>1, <3>2
  <2> QED BY <1>1, <2>6, Zenon DEF Readable
<1>7. CASE UNCHANGED files
  BY <1>2, <1>7
<1> QED BY <1>4, <1>5, <1>6, <1>7 DEF Next, vars, Start, Refuse, Complain, Check

LEMMA JudgedStays ==
  ASSUME IInv, Judged, [Next]_vars
  PROVE  Judged'
<1>1. ASSUME UNCHANGED <<task, command, files>> PROVE Passes' = Passes
  <2>1. Size' = Size /\ Workers' = Workers
    BY <1>1 DEF Size, Workers
  <2> QED BY <1>1, <2>1, Zenon DEF Passes, PerWorker
<1>2. CASE Start
  BY <1>2 DEF Start, Judged
<1>3. ASSUME verdict = "none", verdict' = verdict PROVE Judged'
  BY <1>3 DEF Judged
<1>4. CASE OpenWriters \/ Refuse \/ Complain \/ Generate
  <2>1. verdict' = verdict /\ pc # "idle"
    BY <1>4 DEF OpenWriters, Refuse, Complain, Generate
  <2> QED BY <1>3, <2>1 DEF Judged
<1>5. CASE Check
  <2>1. /\ pc = "work" /\ Checks /\ UNCHANGED <<task, command, files>> /\ pc' = "idle"
        /\ verdict' = (IF Passes THEN "PASS" ELSE "FAIL") \/ verdict' = verdict
    BY <1>5 DEF Check, Ends
  <2>2. verdict = "none"
    BY <2>1 DEF Judged
  <2>3. Problem' = "loop_join" /\ Option' = "check" /\ command'.argc \in {4, 5}
    BY <2>1 DEF Checks, Problem, Option, IInv, Underway
  <2>4. CASE verdict' = verdict
    BY <1>3, <2>2, <2>4
  <2>5. CASE verdict' = IF Passes THEN "PASS" ELSE "FAIL"
    <3>1. (verdict' = "PASS") <=> Passes
      BY <2>5
    <3>2. Passes' = Passes
      BY <1>1, <2>1
    <3> QED BY <2>1, <2>3, <3>1, <3>2, Zenon DEF Judged
  <2> QED BY <2>1, <2>4, <2>5
<1>6. CASE Mage
  <2>1. Option # "check" /\ verdict' = verdict
    BY <1>6 DEF Mage, Generated
  <2> QED BY <1>3, <2>1 DEF Judged
<1>7. CASE UNCHANGED vars
  <2>1. UNCHANGED <<task, command, files, pc, verdict>>
    BY <1>7 DEF vars
  <2>2. Passes' = Passes /\ Option' = Option /\ Problem' = Problem
    BY <1>1, <2>1 DEF Option, Problem
  <2> QED BY <2>1, <2>2, Zenon DEF Judged
<1> QED BY <1>2, <1>4, <1>5, <1>6, <1>7 DEF Next

LEMMA JudgedInvariant == Spec => [](IInv /\ Made /\ Readable /\ Judged)
<1>1. Init => Made /\ Readable /\ Judged
  <2> SUFFICES ASSUME Init PROVE Made /\ Readable /\ Judged
    OBVIOUS
  <2>1. Made
    BY DEF Init, Made, Generated
  <2>2. Judged
    BY DEF Init, Judged
  <2>3. Readable
    <3>1. ASSUME NEW w \in WorkerIds PROVE files[<<"output", w>>].items = <<>>
      BY DEF Init, Kinds, Absent
    <3> QED BY <3>1, NothingReadable DEF Readable
  <2> QED BY <2>1, <2>2, <2>3
<1>2. IInv /\ Made /\ Readable /\ Judged /\ [Next]_vars => (Made /\ Readable /\ Judged)'
  BY MadeStays, ReadableStays, JudgedStays
<1> QED BY <1>1, <1>2, Invariant, PTL DEF Spec

\* A check passes exactly the output files that hold each pair of the join once, in
\* whatever order, and equally many records each (:263-288).
THEOREM ChecksAreTrue == Spec => []CheckIsTrue
<1>1. ASSUME IInv, Readable, Judged PROVE CheckIsTrue
  <2> SUFFICES ASSUME verdict # "none" PROVE CheckIsTrue
    BY DEF CheckIsTrue
  <2>1. /\ Size \in Nat /\ Workers \in Nat \ {0} /\ Workers <= MaxWorkers
        /\ (verdict = "PASS") <=> Passes
    BY <1>1, CommandTypes DEF IInv, Judged
  <2>2. ReadAs(Size, Whole("output"))
    BY <1>1, <2>1, WholeReadable
  <2>3. Passes <=> EachOnce
    BY <2>1, <2>2, PassesMeans
  <2> QED BY <2>1, <2>3, Zenon DEF CheckIsTrue, EachOnce, TellsOnce
<1> QED BY <1>1, JudgedInvariant, PTL

-----------------------------------------------------------------------------
(* How many records each worker has of a join.                             *)

ShareOf(w, n, t) == BlockStart(w + 1, n, t) - BlockStart(w, n, t)

LEMMA ShareSize ==
  ASSUME NEW n \in Nat \ {0}, NEW t \in Nat, NEW w \in 0 .. n - 1
  PROVE  /\ ShareOf(w, n, t) \in Nat
         /\ ShareOf(w, n, t) = 0 => t <= w
         /\ t % n = 0 => ShareOf(w, n, t) = t \div n
         /\ t < n /\ w < t => ShareOf(w, n, t) = 1
<1>1. PICK per \in Nat, extras \in 0 .. n - 1 : per = t \div n /\ extras = t % n /\ t = n * per + extras
  BY Euclid
<1>2. \A v \in Nat : BlockStart(v, n, t) = v * per + (IF v < extras THEN v ELSE extras)
  BY <1>1 DEF BlockStart
<1>3. ShareOf(w, n, t) = per + (IF w < extras THEN 1 ELSE 0)
  <2>1. BlockStart(w, n, t) = w * per + (IF w < extras THEN w ELSE extras)
    BY <1>2
  <2>2. BlockStart(w + 1, n, t) = (w + 1) * per + (IF w + 1 < extras THEN w + 1 ELSE extras)
    BY <1>2
  <2>3. (w + 1) * per = w * per + per /\ w * per \in Int
    OBVIOUS
  <2> QED BY <2>1, <2>2, <2>3 DEF ShareOf
<1>4. per = 0 => t = extras
  BY <1>1
<1>5. t < n => per = 0
  <2>1. per # 0 => n * 1 <= n * per
    BY Monotone
  <2>2. n * per \in Nat
    BY <1>1
  <2> QED BY <1>1, <2>1, <2>2
<1> QED BY <1>1, <1>3, <1>4, <1>5

\* h adds L up.
Adds(n, L, h) == h[0] = 0 /\ \A k \in 0 .. n - 1 : L[k] \in Nat /\ h[k + 1] = h[k] + L[k]

LEMMA AddsGrow ==
  ASSUME NEW n \in Nat, NEW L, NEW h, Adds(n, L, h)
  PROVE  \A k \in 0 .. n : h[k] \in Nat /\ \A j \in 0 .. k : h[j] <= h[k]
<1> DEFINE S == {k \in Nat : k <= n => h[k] \in Nat /\ \A j \in 0 .. k : h[j] \in Nat /\ h[j] <= h[k]}
<1>1. 0 \in S
  BY DEF Adds
<1>2. ASSUME NEW k \in Nat, k \in S PROVE k + 1 \in S
  BY <1>2 DEF Adds
<1> HIDE DEF S
<1>3. \A k \in Nat : k \in S
  BY <1>1, <1>2, Induction
<1> QED BY <1>3 DEF S

LEMMA AddsEqual ==
  ASSUME NEW n \in Nat, NEW L, NEW h, Adds(n, L, h), NEW q \in Nat, \A w \in 0 .. n - 1 : L[w] = q
  PROVE  h[n] = n * q
<1> DEFINE S == {k \in Nat : k <= n => h[k] = k * q}
<1>1. 0 \in S
  BY DEF Adds
<1>2. ASSUME NEW k \in Nat, k \in S PROVE k + 1 \in S
  <2>1. (k + 1) * q = k * q + q
    OBVIOUS
  <2> QED BY <1>2, <2>1 DEF Adds
<1> HIDE DEF S
<1>3. \A k \in Nat : k \in S
  BY <1>1, <1>2, Induction
<1> QED BY <1>3 DEF S

LEMMA AddsBlocks ==
  ASSUME NEW n \in Nat, NEW L, NEW h, Adds(n, L, h), NEW m \in Nat \ {0}, NEW t \in Nat,
         NEW d \in Nat, d <= n, d <= m, \A w \in 0 .. d - 1 : L[w] = ShareOf(w, m, t)
  PROVE  h[d] = BlockStart(d, m, t)
<1> DEFINE S == {k \in Nat : k <= d => h[k] = BlockStart(k, m, t)}
<1>1. 0 \in S
  BY BlocksAreEven DEF Adds
<1>2. ASSUME NEW k \in Nat, k \in S PROVE k + 1 \in S
  <2>1. SUFFICES ASSUME k + 1 <= d PROVE h[k + 1] = BlockStart(k + 1, m, t)
    OBVIOUS
  <2>2. k \in 0 .. d - 1 /\ k \in 0 .. n - 1
    BY <2>1
  <2>3. h[k + 1] = h[k] + L[k] /\ h[k] = BlockStart(k, m, t) /\ L[k] = ShareOf(k, m, t)
    BY <1>2, <2>1, <2>2 DEF Adds
  <2>4. PICK l \in Nat : l = k + 1 /\ l <= m /\ k <= m
    BY <2>1
  <2>5. BlockStart(k, m, t) \in Nat /\ BlockStart(k + 1, m, t) \in Nat
    <3>1. BlockStart(l, m, t) \in Nat
      BY <2>4, BlocksGrow
    <3>2. BlockStart(k, m, t) \in Nat
      BY <2>4, BlocksGrow
    <3> QED BY <2>4, <3>1, <3>2
  <2> QED BY <2>3, <2>5 DEF ShareOf
<1> HIDE DEF S
<1>3. \A k \in Nat : k \in S
  BY <1>1, <1>2, Induction
<1> QED BY <1>3 DEF S

\* The files of a join that was cut for m workers, and those that are left of other
\* runs: all their records are in the first n files.
Leftover(n, m, t, L) ==
  \A w \in 0 .. n - 1 : IF w < m THEN L[w] = ShareOf(w, m, t) ELSE L[w] = 0 => t <= w

LEMMA NoRest ==
  ASSUME NEW n \in Nat \ {0}, NEW q \in Nat, NEW t, t = n * q
  PROVE  t % n = 0
<1>1. PICK r \in 0 .. n - 1 : r = 0
  OBVIOUS
<1>2. Digits(t, q, n, r)
  BY <1>1 DEF Digits
<1>3. t \div n = q /\ t % n = r
  BY <1>2, DigitsAre
<1> QED BY <1>1, <1>3

LEMMA EqualWhenDivided ==
  ASSUME NEW n \in Nat \ {0}, NEW m \in Nat \ {0}, NEW t \in Nat, NEW L, NEW h,
         Adds(n, L, h), h[n] = t, Leftover(n, m, t, L)
  PROVE  (\A w \in 0 .. n - 1 : L[w] = t \div n) <=> t % n = 0
<1>1. \A k \in 0 .. n : h[k] \in Nat /\ \A j \in 0 .. k : h[j] <= h[k]
  BY AddsGrow
<1>2. ASSUME \A w \in 0 .. n - 1 : L[w] = t \div n PROVE t % n = 0
  <2>1. PICK q \in Nat : q = t \div n
    BY Euclid
  <2>2. t = n * q
    BY <1>2, <2>1, AddsEqual
  <2> QED BY <2>2, NoRest
<1>3. ASSUME t % n = 0, NEW w \in 0 .. n - 1 PROVE L[w] = t \div n
  <2>1. L[w] \in Nat /\ h[w + 1] = h[w] + L[w] /\ h[w] \in Nat /\ h[w + 1] <= t
    <3>1. w \in 0 .. n /\ w + 1 \in 0 .. n /\ n \in 0 .. n
      OBVIOUS
    <3> QED BY <1>1, <3>1 DEF Adds
  <2>2. CASE t = 0
    <3>1. t \div n = 0
      BY <2>2
    <3> QED BY <2>1, <2>2, <3>1
  <2>3. t < n => t = 0
    <3>1. ASSUME t < n PROVE t % n = t
      BY <3>1
    <3> QED BY <1>3, <3>1
  <2>4. CASE n = m
    <3>1. L[w] = ShareOf(w, n, t)
      BY <2>4 DEF Leftover
    <3> QED BY <1>3, <3>1, ShareSize
  <2>5. CASE n < m
    <3>1. \A v \in 0 .. n - 1 : L[v] = ShareOf(v, m, t)
      BY <2>5 DEF Leftover
    <3>2. t = BlockStart(n, m, t)
      BY <2>5, <3>1, AddsBlocks
    <3>3. n \in 0 .. m - 1 /\ n <= n + 1 /\ n + 1 <= m /\ n + 1 \in Nat /\ m \in Nat /\ n \in Nat
      BY <2>5
    <3>4. BlockStart(n + 1, m, t) <= t
      <4>1. BlockStart(n + 1, m, t) <= BlockStart(m, m, t)
        BY <3>3, BlocksGrow
      <4>2. BlockStart(m, m, t) = t
        BY BlocksAreEven
      <4> QED BY <4>1, <4>2
    <3>5. BlockStart(n + 1, m, t) \in Nat
      BY <3>3, BlocksGrow
    <3>6. ShareOf(n, m, t) \in Nat /\ (ShareOf(n, m, t) = 0 => t <= n)
      BY <3>3, ShareSize
    <3>7. t <= n
      BY <3>2, <3>4, <3>5, <3>6 DEF ShareOf
    <3>8. CASE t = n
      <4>1. t < m /\ w < t /\ w \in 0 .. m - 1
        BY <2>5, <3>8
      <4>2. ShareOf(w, m, t) = 1
        BY <4>1, ShareSize
      <4>3. t \div n = 1
        BY <3>8
      <4> QED BY <3>1, <4>2, <4>3
    <3> QED BY <2>2, <2>3, <3>7, <3>8
  <2>6. CASE m < n
    <3>1. \A v \in 0 .. m - 1 : L[v] = ShareOf(v, m, t)
      BY <2>6 DEF Leftover
    <3>2. h[m] = t
      <4>1. h[m] = BlockStart(m, m, t)
        BY <2>6, <3>1, AddsBlocks
      <4>2. BlockStart(m, m, t) = t
        BY BlocksAreEven
      <4> QED BY <4>1, <4>2
    <3>3. m \in 0 .. n - 1 /\ m + 1 \in 0 .. n /\ n \in 0 .. n
      BY <2>6
    <3>4. L[m] \in Nat /\ h[m + 1] = h[m] + L[m] /\ h[m + 1] <= t
      BY <1>1, <3>3 DEF Adds
    <3>5. L[m] = 0
      BY <3>2, <3>4
    <3>6. t <= m
      BY <3>3, <3>5 DEF Leftover
    <3> QED BY <2>2, <2>3, <2>6, <3>6
  <2> QED BY <2>4, <2>5, <2>6
<1> QED BY <1>2, <1>3

\* What n lists make one after another is as long as all of them.
LEMMA FlatLength ==
  ASSUME NEW n \in Nat \ {0}, NEW ss, DOMAIN ss = 1 .. n, \A i \in 1 .. n : List(ss[i]), NEW L,
         \A w \in 0 .. n - 1 : L[w] = Len(ss[w + 1])
  PROVE  \E h : Adds(n, L, h) /\ h[n] = Len(FlattenSeq(ss))
<1>1. Len(ss) = n
  BY LengthOf
<1>2. PICK f : /\ f[1] = ss[1]
               /\ \A i \in 2 .. n : f[i] = f[i - 1] \o ss[i]
               /\ FlattenSeq(ss) = f[n]
  BY <1>1, FlattenSeqIs
<1>3. PICK h : h = [k \in 0 .. n |-> IF k = 0 THEN 0 ELSE Len(f[k])]
  OBVIOUS
<1> DEFINE S == {k \in Nat : k + 1 <= n => List(f[k + 1]) /\ Len(f[k + 1]) = h[k] + L[k]}
<1>4. ASSUME NEW k \in 0 .. n - 1 PROVE List(ss[k + 1]) /\ L[k] \in Nat /\ L[k] = Len(ss[k + 1])
  <2>1. k + 1 \in 1 .. n
    OBVIOUS
  <2> QED BY <2>1 DEF List
<1>5. 0 \in S
  <2>1. h[0] = 0 /\ f[1] = ss[1] /\ List(ss[1]) /\ L[0] = Len(ss[1]) /\ L[0] \in Nat
    <3>1. 0 \in 0 .. n - 1 /\ 0 + 1 = 1
      OBVIOUS
    <3> QED BY <1>2, <1>3, <1>4, <3>1
  <2> QED BY <2>1
<1>6. ASSUME NEW k \in Nat, k \in S PROVE k + 1 \in S
  <2>1. SUFFICES ASSUME k + 2 <= n PROVE List(f[k + 2]) /\ Len(f[k + 2]) = h[k + 1] + L[k + 1]
    OBVIOUS
  <2>2. k + 2 \in 2 .. n /\ (k + 2) - 1 = k + 1 /\ k + 1 \in 0 .. n - 1 /\ (k + 1) + 1 = k + 2
        /\ k + 1 \in 1 .. n
    BY <2>1
  <2>3. PICK u, v : u = f[k + 1] /\ v = ss[k + 2]
    OBVIOUS
  <2>4. f[k + 2] = u \o v
    BY <1>2, <2>2, <2>3
  <2>5. List(u) /\ List(v) /\ Len(v) = L[k + 1]
    BY <1>4, <1>6, <2>1, <2>2, <2>3
  <2>6. h[k + 1] = Len(u)
    BY <1>3, <2>2, <2>3
  <2>7. List(u \o v) /\ Len(u \o v) = Len(u) + Len(v)
    BY <2>5, Concatenated
  <2> QED BY <2>4, <2>5, <2>6, <2>7
<1> HIDE DEF S
<1>7. \A k \in Nat : k \in S
  BY <1>5, <1>6, Induction
<1>8. ASSUME NEW k \in 0 .. n - 1 PROVE h[k + 1] = h[k] + L[k]
  <2>1. k \in S /\ k + 1 \in 0 .. n /\ k + 1 # 0
    BY <1>7
  <2> QED BY <1>3, <2>1 DEF S
<1>9. h[0] = 0 /\ h[n] = Len(f[n])
  BY <1>3
<1>10. Adds(n, L, h)
  BY <1>4, <1>8, <1>9 DEF Adds
<1> QED BY <1>2, <1>9, <1>10

\* The records of a join tell each pair once.
LEMMA JoinTellsOnce ==
  ASSUME NEW s \in Nat
  PROVE  TellsOnce(s, JoinRecords(s))
<1>1. PICK m \in Nat : m = s * s
  OBVIOUS
<1>2. PICK records : records = JoinRecords(s)
  OBVIOUS
<1>3. PICK up, along : RecordsOf(s, m, records, up, along)
  BY <1>1, <1>2, JoinRecordsAre
<1>4. /\ List(records) /\ Len(records) = m
      /\ \A k \in 1 .. m :
           /\ up[k] \in 0 .. s - 1 /\ along[k] \in 0 .. s - 1 /\ Digits(k - 1, up[k], s, along[k])
           /\ records[k] = IF up[k] < along[k] THEN <<1, up[k], along[k]>> ELSE <<0, 0, 0>>
      /\ \A i, j \in 0 .. s - 1 : \E k \in 1 .. m : up[k] = i /\ along[k] = j
  BY <1>3, Zenon DEF RecordsOf
<1>5. ASSUME NEW i \in 0 .. s - 1, NEW j \in 0 .. s - 1
      PROVE  Cardinality({k \in DOMAIN records : records[k] = <<1, i, j>>}) = IF i < j THEN 1 ELSE 0
  <2>1. PICK S : S = {k \in DOMAIN records : records[k] = <<1, i, j>>}
    OBVIOUS
  <2>2. DOMAIN records = 1 .. m
    BY <1>4 DEF List
  <2>3. ASSUME NEW k \in 1 .. m PROVE k \in S <=> i < j /\ up[k] = i /\ along[k] = j
    <3>1. CASE up[k] < along[k]
      <4>1. records[k] = <<1, up[k], along[k]>>
        BY <1>4, <3>1
      <4> QED BY <2>1, <2>2, <3>1, <4>1
    <3>2. CASE ~ (up[k] < along[k])
      <4>1. records[k] = <<0, 0, 0>>
        BY <1>4, <3>2
      <4> QED BY <2>1, <2>2, <3>2, <4>1
    <3> QED BY <3>1, <3>2
  <2>4. CASE i < j
    <3>1. PICK k \in 1 .. m : up[k] = i /\ along[k] = j
      BY <1>4
    <3>2. ASSUME NEW l \in 1 .. m, up[l] = i, along[l] = j PROVE l = k
      <4>1. Digits(l - 1, i, s, j) /\ Digits(k - 1, i, s, j)
        BY <1>4, <3>1, <3>2
      <4> QED BY <4>1 DEF Digits
    <3>3. S = {k}
      BY <2>1, <2>2, <2>3, <2>4, <3>1, <3>2
    <3>4. Cardinality(S) = 1
      BY <3>3, FS_Singleton
    <3> QED BY <2>1, <2>4, <3>4
  <2>5. CASE ~ (i < j)
    <3>1. S = {}
      BY <2>1, <2>2, <2>3, <2>5
    <3>2. Cardinality(S) = 0
      BY <3>1, FS_EmptySet
    <3> QED BY <2>1, <2>5, <3>2
  <2> QED BY <2>4, <2>5
<1> QED BY <1>2, <1>5, Zenon DEF TellsOnce

\* What a run writes of a join.
LEMMA JoinShares ==
  ASSUME NEW s \in Nat, NEW n \in Nat \ {0}, NEW w \in 0 .. n - 1, NEW t, t = s * s
  PROVE  /\ List(ItemsOf(LoopJoin(s, n), "expected", w))
         /\ Len(ItemsOf(LoopJoin(s, n), "expected", w)) = ShareOf(w, n, t)
<1>1. PICK keys, values, workers : keys = [k \in 1 .. s |-> k - 1] /\ values = JoinRecords(s)
                                   /\ workers = BlockedOf(n, t)
  OBVIOUS
<1>2. t \in Nat
  OBVIOUS
<1>3. List(keys) /\ List(values) /\ Len(values) = t
  <2>1. Len(keys) = s /\ DOMAIN keys = 1 .. s /\ keys = [k \in 1 .. s |-> keys[k]]
    BY <1>1, LengthOf
  <2> QED BY <1>1, <2>1, ListOf, RecordsReadable DEF ReadAs
<1>4. OfThree(LoopJoin(s, n), "garbler", BlockedOf(n, s), keys, "evaluator", BlockedOf(n, s), keys,
              "expected", workers, values)
  BY <1>1, <1>3 DEF OfThree, LoopJoin
<1>5. ItemsOf(LoopJoin(s, n), "expected", w) = ItemsOf(Deal("expected", workers, values), "expected", w)
  BY <1>4, ThreeLots
<1>6. PICK cut : Cuts(workers, n, t, cut) /\ \A v \in 0 .. n : cut[v] = BlockStart(v, n, t)
  BY <1>1, <1>2, BlockedCut
<1>7. ItemsOf(Deal("expected", workers, values), "expected", w) = Stretch(values, cut[w], cut[w + 1])
  BY <1>2, <1>3, <1>6, DealtStretch
<1>8. PICK lo, hi : lo = cut[w] /\ hi = cut[w + 1] /\ hi - lo \in Nat /\ hi - lo = ShareOf(w, n, t)
  <2>1. w \in 0 .. n /\ w + 1 \in 0 .. n
    OBVIOUS
  <2>2. ShareOf(w, n, t) \in Nat
    BY <1>2, ShareSize
  <2> QED BY <1>6, <2>1, <2>2 DEF ShareOf
<1>9. PICK u : u = Stretch(values, lo, hi)
  OBVIOUS
<1>10. DOMAIN u = 1 .. hi - lo /\ u = [j \in 1 .. hi - lo |-> u[j]]
  BY <1>9 DEF Stretch
<1>11. List(u) /\ Len(u) = hi - lo
  BY <1>8, <1>10, ListOf
<1> QED BY <1>5, <1>7, <1>8, <1>9, <1>11

\* A worker's expected file, and what is known of it whatever runs have been.
Expected(w) == files[<<"expected", w>>]
Emptied(w) == pc = "work" /\ Option # "check" /\ w < Workers
LeftAlone(w) ==
  /\ List(Expected(w).items)
  /\ Expected(w).there /\ Len(Expected(w).items) = 0 /\ ~ Emptied(w) => Size * Size <= w

\* The expected files of a join are those of the last run that made any, with whatever
\* larger runs before it have left.
Kept(m) ==
  \A w \in 0 .. m - 1 : Expected(w).there /\ Len(Expected(w).items) = ShareOf(w, m, Size * Size)
NeverMade == \A w \in WorkerIds : ~ Expected(w).there
Leavings ==
  Problem = "loop_join" =>
    /\ \A w \in WorkerIds : LeftAlone(w)
    /\ (pc = "work" /\ Option # "check") \/ NeverMade \/ \E m \in 1 .. MaxWorkers : Kept(m)

LEMMA SameLeavings ==
  ASSUME Leavings, Size' = Size, Problem' = Problem, ~ (pc = "work" /\ Option # "check"),
         ~ (pc' = "work" /\ Option' # "check"),
         \A w \in WorkerIds : Expected(w)' = Expected(w)
  PROVE  Leavings'
<1>1. SUFFICES ASSUME Problem = "loop_join" PROVE Leavings'
  BY DEF Leavings
<1>2. ASSUME NEW w \in WorkerIds PROVE LeftAlone(w)'
  <2>1. LeftAlone(w) /\ ~ Emptied(w)
    BY <1>1 DEF Leavings, Emptied
  <2> QED BY <2>1 DEF LeftAlone
<1>3. CASE NeverMade
  <2>1. NeverMade'
    BY <1>3 DEF NeverMade
  <2> QED BY <1>2, <2>1, Zenon DEF Leavings
<1>4. CASE \E m \in 1 .. MaxWorkers : Kept(m)
  <2>1. PICK m \in 1 .. MaxWorkers : Kept(m)
    BY <1>4
  <2>2. \A w \in 0 .. m - 1 : w \in WorkerIds
    BY InputAssumption DEF WorkerIds
  <2>3. Kept(m)'
    BY <2>1, <2>2 DEF Kept
  <2> QED BY <1>2, <2>3, Zenon DEF Leavings
<1> QED BY <1>1, <1>3, <1>4 DEF Leavings

LEMMA LeavingsStay ==
  ASSUME IInv, Leavings, [Next]_vars
  PROVE  Leavings'
<1>1. Size' = Size /\ Problem' = Problem
  BY DEF Next, vars, Start, OpenWriters, Refuse, Complain, Generate, Check, Mage, Size, Problem
<1>2. SUFFICES ASSUME Problem = "loop_join" PROVE Leavings'
  BY <1>1 DEF Leavings
<1>3. ASSUME UNCHANGED files PROVE \A w \in WorkerIds : Expected(w)' = Expected(w)
  BY <1>3 DEF Expected
<1>4. ASSUME NEW w \in WorkerIds
      PROVE  <<"expected", w>> \in DOMAIN files /\ (OfRun(<<"expected", w>>) <=> w < Workers)
  BY DEF IInv, TypeOK, Kinds, OfRun, Written
<1>5. CASE Start
  BY <1>1, <1>3, <1>5, SameLeavings DEF Start, Ends
<1>6. CASE OpenWriters
  <2>1. pc = "open" /\ pc' = "work" /\ UNCHANGED command
    BY <1>6 DEF OpenWriters
  <2>2. Option' = Option /\ Workers' = Workers
    BY <2>1 DEF Option, Workers
  <2>3. CASE Option = "check"
    <3>1. \A w \in WorkerIds : Expected(w)' = Expected(w)
      BY <1>4, <1>6, <2>3 DEF OpenWriters, Expected
    <3> QED BY <1>1, <2>1, <2>2, <2>3, <3>1, SameLeavings
  <2>4. CASE Option # "check"
    <3>1. ASSUME NEW w \in WorkerIds PROVE LeftAlone(w)'
      <4>1. LeftAlone(w) /\ ~ Emptied(w)
        BY <1>2, <2>1 DEF Leavings, Emptied
      <4>2. CASE w < Workers
        <5>1. Expected(w)' = Holding(<<>>)
          BY <1>4, <1>6, <2>4, <4>2 DEF OpenWriters, Expected
        <5>2. Emptied(w)'
          BY <2>1, <2>2, <2>4, <4>2 DEF Emptied
        <5>3. List(<<>>)
          BY DEF List
        <5> QED BY <5>1, <5>2, <5>3 DEF LeftAlone, Holding
      <4>3. CASE ~ (w < Workers)
        <5>1. Expected(w)' = Expected(w)
          BY <1>4, <1>6, <4>3 DEF OpenWriters, Expected
        <5> QED BY <1>1, <4>1, <5>1 DEF LeftAlone
      <4> QED BY <4>2, <4>3
    <3> QED BY <2>1, <2>2, <2>4, <3>1 DEF Leavings
  <2> QED BY <2>3, <2>4
<1>7. ~ Refuse /\ ~ Complain
  BY <1>2 DEF Refuse, Complain, Aborts, BadOption, MatrixPairs, MatrixVectors, OptionProblems,
              KnownProblems
<1>8. CASE Generate
  <2>1. /\ pc = "work" /\ pc' = "idle" /\ ~ Aborts /\ ~ Checks /\ ~ BadOption
        /\ Problem \in KnownProblems /\ UNCHANGED <<task, command>>
    BY <1>8 DEF Generate, Ends
  <2>2. Option # "check" /\ command.argc \in {4, 5} /\ TypeOK
    BY <1>2, <2>1 DEF Checks, IInv, Underway
  <2>3. PICK n \in Nat \ {0} : n = Workers /\ n \in 1 .. MaxWorkers
    BY <2>2, CommandTypes, InputAssumption
  <2>4. PICK s \in Nat, t \in Nat : s = Size /\ t = s * s
    BY <2>2, CommandTypes
  <2>5. ~ Misses(Script)
    <3>1. Misses(Script) <=> ChecksBlindly \/ CutsUnevenly
      BY <2>1, <2>2, MissesExactly, Zenon DEF Script
    <3>2. ~ ChecksBlindly /\ ~ CutsUnevenly
      BY <1>2 DEF ChecksBlindly, CutsUnevenly, MatrixPairs
    <3> QED BY <3>1, <3>2
  <2>6. Script = LoopJoin(s, n)
    BY <1>2, <2>3, <2>4 DEF Script, Writes, MatrixPairs, MatrixVectors
  <2>7. files' = [f \in DOMAIN files |->
                    IF Option # "check" /\ OfRun(f)
                    THEN Holding(ItemsOf(Script, f[1], f[2])) ELSE files[f]]
    BY <1>8, <2>5, Zenon DEF Generate, Misses, Script
  <2>8. ASSUME NEW w \in WorkerIds, w < n
        PROVE  /\ Expected(w)'.there /\ List(Expected(w)'.items)
               /\ Len(Expected(w)'.items) = ShareOf(w, n, t)
    <3>1. w \in 0 .. n - 1
      BY <2>8, InputAssumption DEF WorkerIds
    <3>2. Expected(w)' = Holding(ItemsOf(Script, "expected", w))
      BY <1>4, <2>2, <2>3, <2>7, <2>8 DEF Expected
    <3>3. Expected(w)'.there /\ Expected(w)'.items = ItemsOf(LoopJoin(s, n), "expected", w)
      BY <2>6, <3>2 DEF Holding
    <3>4. PICK u : u = ItemsOf(LoopJoin(s, n), "expected", w)
      OBVIOUS
    <3>5. List(u) /\ Len(u) = ShareOf(w, n, t)
      BY <2>4, <3>1, <3>4, JoinShares
    <3> QED BY <3>3, <3>4, <3>5
  <2>9. ASSUME NEW w \in WorkerIds PROVE LeftAlone(w)'
    <3>1. CASE w < n
      <4>1. w \in 0 .. n - 1
        BY <3>1, InputAssumption DEF WorkerIds
      <4>2. ShareOf(w, n, t) = 0 => t <= w
        BY <4>1, ShareSize
      <4>3. t = Size' * Size'
        BY <1>1, <2>4
      <4> QED BY <2>8, <3>1, <4>2, <4>3 DEF LeftAlone
    <3>2. CASE ~ (w < n)
      <4>1. Expected(w)' = Expected(w)
        BY <1>4, <2>3, <2>7, <3>2 DEF Expected
      <4>2. LeftAlone(w) /\ ~ Emptied(w)
        BY <1>2, <2>3, <3>2 DEF Leavings, Emptied
      <4> QED BY <1>1, <4>1, <4>2 DEF LeftAlone
    <3> QED BY <3>1, <3>2
  <2>10. Kept(n)'
    <3>1. \A w \in 0 .. n - 1 : w \in WorkerIds /\ w < n
      BY <2>3, InputAssumption DEF WorkerIds
    <3>2. t = Size' * Size'
      BY <1>1, <2>4
    <3> QED BY <2>8, <3>1, <3>2 DEF Kept
  <2> QED BY <2>3, <2>9, <2>10, Zenon DEF Leavings
<1>9. CASE Check
  <2>1. pc' = "idle" /\ UNCHANGED files /\ Option = "check"
    BY <1>9 DEF Check, Checks, Ends
  <2> QED BY <1>1, <1>3, <2>1, SameLeavings
<1>10. CASE Mage
  <2>1. pc = "idle" /\ pc' = pc
    BY <1>10 DEF Mage, Generated
  <2>2. \A w \in WorkerIds : Expected(w)' = Expected(w)
    <3> TAKE w \in WorkerIds
    <3>1. <<"expected", w>>[1] # "output"
      OBVIOUS
    <3> QED BY <1>4, <1>10, <3>1 DEF Mage, Expected
  <2> QED BY <1>1, <2>1, <2>2, SameLeavings
<1>11. CASE UNCHANGED vars
  <2>1. UNCHANGED <<pc, files, command, task>>
    BY <1>11 DEF vars
  <2>2. \A w : Expected(w)' = Expected(w) /\ LeftAlone(w)' = LeftAlone(w)
    BY <2>1 DEF Expected, LeftAlone, Emptied, Option, Workers, Size
  <2>3. NeverMade' = NeverMade /\ \A m : Kept(m)' = Kept(m)
    BY <1>1, <2>2, Zenon DEF NeverMade, Kept
  <2> QED BY <1>1, <2>1, <2>2, <2>3, Zenon DEF Leavings, Option
<1> QED BY <1>5, <1>6, <1>7, <1>8, <1>9, <1>10, <1>11 DEF Next

\* The check accepts the expected files themselves exactly when the workers divide the
\* join evenly (:254, :40-49): whatever earlier runs, of other numbers of workers, have
\* left behind.
THEOREM OwnAnswers == Spec => []OwnAnswerAccepted
<1>1. ASSUME IInv, Readable, Judged, Leavings PROVE OwnAnswerAccepted
  <2> SUFFICES ASSUME verdict # "none", pc = "idle",
                      \A w \in 0 .. Workers - 1 :
                        Expected(w).there /\ Expected(w) = files[<<"output", w>>],
                      Whole("expected") = JoinRecords(Size)
               PROVE  (verdict = "PASS") <=> (Size * Size) % Workers = 0
    BY Zenon DEF OwnAnswerAccepted, Expected
  <2>1. /\ Size \in Nat /\ Workers \in Nat \ {0} /\ Workers <= MaxWorkers
        /\ (verdict = "PASS") <=> Passes
    BY <1>1, CommandTypes DEF IInv, Judged
  <2>2. ReadAs(Size, Whole("output"))
    BY <1>1, <2>1, WholeReadable
  <2>3. Passes <=> EachOnce
    BY <2>1, <2>2, PassesMeans
  <2>4. Problem = "loop_join"
    BY <1>1 DEF Judged
  <2>5. PICK n \in Nat \ {0}, t \in Nat : n = Workers /\ t = Size * Size
    BY <2>1
  <2>6. ASSUME NEW w \in 0 .. n - 1
        PROVE  /\ w \in WorkerIds /\ files[<<"output", w>>] = Expected(w) /\ Expected(w).there
               /\ List(Expected(w).items)
               /\ Len(Expected(w).items) \in Nat
               /\ Len(Expected(w).items) = 0 => t <= w
    <3>1. w \in WorkerIds
      BY <2>1, <2>5, InputAssumption DEF WorkerIds
    <3>2. files[<<"output", w>>] = Expected(w) /\ Expected(w).there
      BY <2>5
    <3>3. LeftAlone(w) /\ ~ Emptied(w)
      BY <1>1, <2>4, <3>1 DEF Leavings, Emptied
    <3> QED BY <2>5, <3>1, <3>2, <3>3 DEF LeftAlone, List
  <2>7. PICK ss : ss = [i \in 1 .. n |-> files[<<"expected", i - 1>>].items]
    OBVIOUS
  <2>8. Whole("output") = Whole("expected") /\ FlattenSeq(ss) = Whole("expected")
    <3>1. ASSUME NEW i \in 1 .. n
          PROVE  files[<<"output", i - 1>>].items = files[<<"expected", i - 1>>].items
      <4>1. i - 1 \in 0 .. n - 1
        OBVIOUS
      <4>2. files[<<"output", i - 1>>] = files[<<"expected", i - 1>>]
        BY <2>6, <4>1, Zenon DEF Expected
      <4> QED BY <4>2
    <3>2. [i \in 1 .. n |-> files[<<"output", i - 1>>].items] = ss
      BY <2>7, <3>1
    <3> QED BY <2>5, <2>7, <3>2, Zenon DEF Whole
  <2>9. TellsOnce(Size, Whole("output"))
    BY <2>1, <2>8, JoinTellsOnce
  <2>10. PICK L : L = [w \in 0 .. n - 1 |-> Len(Expected(w).items)]
    OBVIOUS
  <2>11. PICK h : Adds(n, L, h) /\ h[n] = Len(FlattenSeq(ss))
    <3>1. DOMAIN ss = 1 .. n
      BY <2>7
    <3>2. ASSUME NEW i \in 1 .. n PROVE List(ss[i])
      <4>1. i - 1 \in 0 .. n - 1 /\ ss[i] = files[<<"expected", i - 1>>].items
        BY <2>7
      <4> QED BY <2>6, <4>1, Zenon DEF Expected
    <3>3. ASSUME NEW w \in 0 .. n - 1 PROVE L[w] = Len(ss[w + 1])
      <4>1. w + 1 \in 1 .. n /\ (w + 1) - 1 = w
        OBVIOUS
      <4> QED BY <2>7, <2>10, <4>1 DEF Expected
    <3> QED BY <3>1, <3>2, <3>3, FlatLength
  <2>12. h[n] = t
    BY <2>1, <2>5, <2>8, <2>11, RecordsReadable
  <2>13. PICK m \in 1 .. MaxWorkers : Kept(m)
    <3>1. 0 \in 0 .. n - 1
      OBVIOUS
    <3>2. 0 \in WorkerIds /\ Expected(0).there
      BY <2>6, <3>1
    <3>3. ~ NeverMade
      BY <3>2 DEF NeverMade
    <3> QED BY <1>1, <2>4, <3>3 DEF Leavings
  <2>14. Leftover(n, m, t, L)
    <3>1. ASSUME NEW w \in 0 .. n - 1
          PROVE  IF w < m THEN L[w] = ShareOf(w, m, t) ELSE L[w] = 0 => t <= w
      <4>1. L[w] = Len(Expected(w).items)
        BY <2>10
      <4>2. CASE w < m
        <5>1. w \in 0 .. m - 1
          BY <4>2, InputAssumption
        <5> QED BY <2>5, <2>13, <4>1, <4>2, <5>1 DEF Kept
      <4> QED BY <2>6, <4>1, <4>2
    <3> QED BY <3>1 DEF Leftover
  <2>15. (\A w \in 0 .. n - 1 : L[w] = t \div n) <=> t % n = 0
    <3>1. m \in Nat \ {0}
      BY InputAssumption
    <3> QED BY <2>11, <2>12, <2>14, <3>1, EqualWhenDivided
  <2>16. EachOnce <=> \A w \in 0 .. n - 1 : L[w] = t \div n
    <3>1. \A w \in 0 .. n - 1 : L[w] = Len(files[<<"output", w>>].items)
      BY <2>6, <2>10
    <3>2. EachOnce <=> \A w \in 0 .. n - 1 : Len(files[<<"output", w>>].items) = t \div n
      BY <2>5, <2>9, Zenon DEF EachOnce
    <3> QED BY <3>1, <3>2
  <2> QED BY <2>1, <2>3, <2>5, <2>15, <2>16
<1>2. Init => Leavings
  <2> SUFFICES ASSUME Init PROVE Leavings
    OBVIOUS
  <2>1. ASSUME NEW w \in WorkerIds PROVE Expected(w) = Absent
    BY DEF Init, Kinds, Expected
  <2>2. \A w \in WorkerIds : LeftAlone(w)
    BY <2>1 DEF LeftAlone, Absent, List
  <2>3. NeverMade
    BY <2>1 DEF NeverMade, Absent
  <2> QED BY <2>2, <2>3, Zenon DEF Leavings
<1>3. IInv /\ Leavings /\ [Next]_vars => Leavings'
  BY LeavingsStay
<1> QED BY <1>1, <1>2, <1>3, JudgedInvariant, PTL DEF Spec
===============================================================================
