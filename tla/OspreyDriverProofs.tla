-------------------------- MODULE OspreyDriverProofs --------------------------
(***************************************************************************)
(* Proofs about OspreyDriver for every set of descriptors, every command   *)
(* line and every set of inherited descriptors.                            *)
(***************************************************************************)
EXTENDS OspreyDriver, TLAPS

-------------------------------------------------------------------------------
(* The inductive invariant.                                                 *)

Asked == RequestedPasses(argv)

Configured ==
  /\ Accepted(argv)
  /\ Asked # {}
  /\ config.speculativeOnly <=> "prog" \notin Asked
  /\ config.programmedOnly <=> "spec" \notin Asked
  /\ config.programmingAlgorithm \in Watching => Asked # Passes

(* Where the driver is says what has been launched and reaped, and that the *)
(* configuration is the one the command line asks for.                      *)
Flow ==
  /\ exitCode = "none" <=> pc["osprey"] # "exited"
  /\ pc["osprey"] = "main" => pc["spec"] = "idle" /\ pc["prog"] = "idle"
  /\ pc["osprey"] \notin {"main", "exited"} => Configured
  /\ \A p \in Passes : pc[p] # "idle" => Configured /\ p \in Asked
  /\ pc["osprey"] \in {"socketpair", "fork", "adopt"} =>
       /\ launching \in Asked
       /\ launching = "spec" => pc["prog"] = "idle"
       /\ launching = "prog" /\ "spec" \in Asked => pc["spec"] # "idle"
       /\ pc["osprey"] = "adopt" <=> pc[launching] # "idle"
  /\ pc["osprey"] = "handover" => Asked = Passes
  /\ pc["osprey"] \in {"handover", "waitProg", "waitSpec", "cleanup"} =>
       \A p \in Asked : pc[p] # "idle"
  /\ pc["osprey"] = "waitProg" => "prog" \in Asked
  /\ pc["osprey"] = "waitSpec" =>
       "spec" \in Asked /\ ("prog" \in Asked => pc["prog"] = "reaped")
  /\ pc["osprey"] = "cleanup" => \A p \in Asked : pc[p] = "reaped"

(* The pair of pass p exists: its socketpair call has returned.             *)
Paired(p) ==
  pc[p] # "idle" \/ (pc["osprey"] = "fork" /\ launching = p)

(* Who holds which end.  The driver's ends are close-on-exec, except the    *)
(* one of the launch in progress, which the forked child closes itself.     *)
DriverTable ==
  \A f \in FdNums : fds["osprey"][f].file \in DriversOwn =>
    \/ fds["osprey"][f].cloexec
    \/ pc["osprey"] \in {"fork", "adopt"} /\ f = comm[launching].parent

PairTable ==
  /\ \A p \in Passes : ~Paired(p) =>
       \A f \in FdNums : fds["osprey"][f].file # ChildEnd(p)
  /\ pc["osprey"] \in {"fork", "adopt"} =>
       /\ fds["osprey"][comm[launching].parent].file = DriverEnd(launching)
       /\ \A f \in FdNums : fds["osprey"][f].file = ChildEnd(launching)
                              <=> f = comm[launching].child

ChildRow(p) ==
  /\ pc[p] = "prepare" =>
       /\ fds[p][comm[p].parent].file = DriverEnd(p)
       /\ \A f \in FdNums : fds[p][f].file = ChildEnd(p) <=> f = comm[p].child
       /\ \A f \in FdNums : fds[p][f].file \in DriversOwn =>
            fds[p][f].cloexec \/ f = comm[p].parent
  /\ pc[p] = "exec" =>
       \A f \in FdNums : fds[p][f].file \in DriversOwn => fds[p][f].cloexec
  /\ pc[p] = "running" => \A f \in FdNums : fds[p][f].file \notin DriversOwn
  /\ pc[p] \in {"exec", "running"} => Installed(p)

ChildTable == \A p \in Passes : ChildRow(p)

(* The caller's descriptors, in every table that is copied or run with.     *)
InheritedTable ==
  /\ pc["osprey"] # "exited" =>
       \A f \in inherited : fds["osprey"][f] = Slot(Callers, FALSE)
  /\ \A p \in Passes : pc[p] \in Live =>
       \A f \in inherited : fds[p][f] = Slot(Callers, FALSE)
  /\ \A p \in Passes : Paired(p) =>
       comm[p].parent \notin inherited /\ comm[p].child \notin inherited

Tables == DriverTable /\ PairTable /\ ChildTable /\ InheritedTable

(* What the children have been told.                                        *)
Told ==
  /\ pc["prog"] \in {"idle", "prepare"} => env["prog"] = Unset
  /\ WatchNeverFollowsTrace
  /\ SharedMemoryHasTwoSides

-------------------------------------------------------------------------------
(* Facts about the command line, and types.                                 *)

LEMMA ConfigType ==
  ASSUME NEW args, ParseOspreyArgs(args), NEW b \in BOOLEAN
  PROVE  Config(args, b) \in Configs
  BY DEF Config, Configs, ParseOspreyArgs, Given

LEMMA EmptyConfig == Config(<<>>, FALSE) \in Configs
<1>1. \A name : ~Given(<<>>, name)
  BY DEF Given
<1>2. /\ ValueOr(<<>>, "tracing-algorithm", "MICROSET") = "MICROSET"
      /\ ValueOr(<<>>, "programming-algorithm", "3PO") = "3PO"
  BY <1>1 DEF ValueOr
<1>3. Upper("MICROSET") = "MICROSET" /\ Upper("3PO") = "3PO"
  BY DEF Upper, Spellings
<1> QED
  BY <1>1, <1>2, <1>3 DEF Config, Configs, Tracing, Programming, Given

LEMMA Names ==
  /\ Passes \subseteq Procs
  /\ "osprey" \in Procs /\ "osprey" \notin Passes
  /\ "spec" \in Passes /\ "prog" \in Passes
  /\ \A p \in Procs : p \in Passes \/ p = "osprey"
  BY DEF Passes, Procs

LEMMA SlotTypes ==
  /\ Closed \in Slots
  /\ AllClosed \in [FdNums -> Slots]
  /\ Slot(Callers, FALSE) \in Slots
  /\ \A c \in BOOLEAN : Slot(PidFd, c) \in Slots
  /\ \A p \in Passes, c \in BOOLEAN :
       Slot(DriverEnd(p), c) \in Slots /\ Slot(ChildEnd(p), c) \in Slots
  BY DEF Closed, Slots, Slot, Files, AllClosed

LEMMA AppendType ==
  \A s \in Seq(Passes), p \in Passes : Append(s, p) \in Seq(Passes)
  OBVIOUS

(* What every action of the driver proper has in common.                    *)
LEMMA ExitType ==
  ASSUME TypeOK, NEW code \in {"success", "failure"}, DriverExits(code)
  PROVE  /\ fds' \in [Procs -> [FdNums -> Slots]]
         /\ pc' \in [Procs -> DriverPcs \cup ChildPcs]
         /\ pc'["osprey"] \in DriverPcs /\ \A p \in Passes : pc'[p] \in ChildPcs
         /\ exitCode' \in {"none", "success", "failure"}
  BY Names, SlotTypes DEF TypeOK, DriverExits, DriverPcs

LEMMA GoType ==
  ASSUME TypeOK, NEW place \in DriverPcs, DriverGoes(place)
  PROVE  /\ pc' \in [Procs -> DriverPcs \cup ChildPcs]
         /\ pc'["osprey"] \in DriverPcs /\ \A p \in Passes : pc'[p] \in ChildPcs
         /\ exitCode' \in {"none", "success", "failure"}
  BY Names DEF TypeOK, DriverGoes

LEMMA TypeInitially == Init => TypeOK
<1> SUFFICES ASSUME Init PROVE TypeOK
  OBVIOUS
<1>1. fds \in [Procs -> [FdNums -> Slots]]
  BY SlotTypes DEF Init
<1>2. pc \in [Procs -> DriverPcs \cup ChildPcs]
      /\ pc["osprey"] \in DriverPcs /\ \A p \in Passes : pc[p] \in ChildPcs
  BY Names DEF Init, DriverPcs, ChildPcs
<1>3. env \in [Passes -> Environments]
  BY DEF Init, Unset, Environments
<1>4. argv \in CommandLines /\ inherited \in InheritedSets /\ noZombies \in BOOLEAN
      /\ config \in Configs /\ launching \in Passes
  BY EmptyConfig, Names DEF Init
<1>5. comm \in [Passes -> [parent : FdNums, child : FdNums]]
  BY FdAssumption DEF Init
<1>6. /\ view \in [Passes -> {"real", "overlay"}]
      /\ reports \in Seq(Passes)
      /\ exitCode \in {"none", "success", "failure"}
  BY DEF Init
<1> QED
  BY <1>1, <1>2, <1>3, <1>4, <1>5, <1>6 DEF TypeOK

LEMMA TypeInductive == TypeOK /\ [Next]_vars => TypeOK'
<1> SUFFICES ASSUME TypeOK, [Next]_vars PROVE TypeOK'
  OBVIOUS
<1> USE Names, SlotTypes DEF TypeOK
<1>1. CASE Main
  <2>1. config' \in Configs
    BY <1>1, ConfigType DEF Main, Accepted
  <2>2. CASE DriverExits("failure") \/ DriverExits("success")
    BY <1>1, <2>1, <2>2, ExitType DEF Main, given
  <2>3. CASE DriverGoes("socketpair") /\ UNCHANGED fds
    <3>1. launching' \in Passes
      BY <1>1 DEF Main
    <3>2. "socketpair" \in DriverPcs
      BY DEF DriverPcs
    <3> QED
      BY <1>1, <2>1, <2>3, <3>1, <3>2, GoType DEF Main, given
  <2> QED
    BY <1>1, <2>2, <2>3 DEF Main
<1>2. CASE OpenPair
  <2>1. PICK r, w \in FdNums :
          /\ comm' = [comm EXCEPT ![launching] = [parent |-> r, child |-> w]]
          /\ fds' = [fds EXCEPT !["osprey"] =
               [@ EXCEPT ![r] = Slot(DriverEnd(launching), FALSE),
                         ![w] = Slot(ChildEnd(launching), FALSE)]]
    BY <1>2 DEF OpenPair
  <2>2. fds["osprey"] \in [FdNums -> Slots]
    OBVIOUS
  <2>3. fds' \in [Procs -> [FdNums -> Slots]]
    BY <2>1, <2>2
  <2>4. comm' \in [Passes -> [parent : FdNums, child : FdNums]]
    BY <2>1
  <2>5. "fork" \in DriverPcs
    BY DEF DriverPcs
  <2> QED
    BY <1>2, <2>3, <2>4, <2>5, GoType DEF OpenPair, given
<1>3. CASE Fork
  BY <1>3 DEF Fork, given, DriverPcs, ChildPcs
<1>4. CASE LaunchFails
  BY <1>4, ExitType DEF LaunchFails, given
<1>5. CASE AdoptSpeculative
  BY <1>5 DEF AdoptSpeculative, DriverGoes, given, DriverPcs
<1>6. CASE AdoptProgrammed
  <2>1. PICK f \in FdNums :
          fds' = [fds EXCEPT !["osprey"] =
            [@ EXCEPT ![comm["prog"].child] = Closed,
                      ![f] = Slot(PidFd, TRUE),
                      ![comm["prog"].parent] = Slot(DriverEnd("prog"), TRUE)]]
    BY <1>6 DEF AdoptProgrammed
  <2>2. /\ comm["prog"].child \in FdNums /\ comm["prog"].parent \in FdNums
        /\ fds["osprey"] \in [FdNums -> Slots]
    OBVIOUS
  <2>3. fds' \in [Procs -> [FdNums -> Slots]]
    BY <2>1, <2>2
  <2> QED
    BY <1>6, <2>3, GoType DEF AdoptProgrammed, given, DriverPcs
<1>7. CASE Handover
  BY <1>7 DEF Handover, DriverGoes, given, DriverPcs
<1>8. ASSUME NEW p \in Passes, NEW place, NEW after \in DriverPcs, Wait(p, place, after)
      PROVE  TypeOK'
  <2>1. CASE DriverExits("failure")
    BY <1>8, <2>1, ExitType DEF Wait, given
  <2>2. CASE /\ pc' = [pc EXCEPT ![p] = "reaped", !["osprey"] = after]
             /\ UNCHANGED <<fds, exitCode>>
    BY <1>8, <2>2 DEF Wait, given, ChildPcs
  <2> QED
    BY <1>8, <2>1, <2>2 DEF Wait
<1>9. CASE WaitProgrammed \/ WaitSpeculative
  BY <1>8, <1>9 DEF WaitProgrammed, WaitSpeculative, DriverPcs
<1>10. CASE Finish \/ Killed
  BY <1>10, ExitType DEF Finish, Killed, given
<1>11. ASSUME NEW p \in Passes, PrepareChild(p) PROVE TypeOK'
  <2>1. Environment(p) \in Environments
    BY DEF Environment, Environments, Algorithms, Configs
  <2> QED
    BY <1>11, <2>1, FdAssumption DEF PrepareChild, given, ChildPcs
<1>12. ASSUME NEW p \in Passes, Exec(p) PROVE TypeOK'
  BY <1>12 DEF Exec, given, ChildPcs
<1>13. ASSUME NEW p \in Passes, Die(p) PROVE TypeOK'
  BY <1>13, AppendType DEF Die, given, ChildPcs
<1>14. CASE UNCHANGED vars
  BY <1>14 DEF vars
<1> QED
  BY <1>1, <1>2, <1>3, <1>4, <1>5, <1>6, <1>7, <1>9, <1>10, <1>11, <1>12,
     <1>13, <1>14 DEF Next, Driver, Child

-------------------------------------------------------------------------------
(* The control flow.                                                        *)

LEMMA GivenNeverChanges == [Next]_vars => UNCHANGED given
  BY DEF Next, Driver, Child, Main, OpenPair, Fork, LaunchFails, AdoptSpeculative,
         AdoptProgrammed, Handover, WaitProgrammed, WaitSpeculative, Wait, Finish,
         Killed, PrepareChild, Exec, Die, given, vars

LEMMA ConfigIsWhatWasAsked ==
  ASSUME Accepted(argv), ~Given(OspreyPart(argv), "cleanup-only"), NEW b \in BOOLEAN,
         config' = Config(OspreyPart(argv), b), argv' = argv
  PROVE  Configured'
<1> DEFINE spec == Given(OspreyPart(argv), "speculative-only")
           prog == Given(OspreyPart(argv), "programmed-only")
<1>1. /\ config'.speculativeOnly = spec /\ config'.programmedOnly = prog
      /\ config'.programmingAlgorithm = Programming(OspreyPart(argv))
  BY DEF Config
<1>2. /\ ~(spec /\ prog)
      /\ Programming(OspreyPart(argv)) \in Watching => spec \/ prog
  BY DEF Accepted, ParseOspreyArgs, SinglePass, Watching
<1>3. /\ "spec" \in RequestedPasses(argv) <=> ~prog
      /\ "prog" \in RequestedPasses(argv) <=> ~spec
  BY DEF RequestedPasses
<1> HIDE DEF spec, prog
<1>4. spec \in BOOLEAN /\ prog \in BOOLEAN
  BY DEF spec, prog, Given
<1> QED
  BY <1>1, <1>2, <1>3, <1>4 DEF Configured, Asked, Passes

LEMMA FlowInductive == TypeOK /\ Flow /\ [Next]_vars => Flow'
<1> SUFFICES ASSUME TypeOK, Flow, [Next]_vars PROVE Flow'
  OBVIOUS
<1> USE Names
<1>1. argv' = argv /\ Asked' = Asked
  BY GivenNeverChanges DEF given, Asked
<1>2. config' = config => Configured' = Configured
  BY <1>1 DEF Configured
<1>3. Asked \subseteq Passes
  BY DEF Asked, RequestedPasses, Passes
<1>4. \A p \in Passes : p = "spec" \/ p = "prog"
  BY DEF Passes
<1>5. pc["osprey"] \in DriverPcs /\ launching \in Passes /\ pc \in [Procs -> DriverPcs \cup ChildPcs]
  BY DEF TypeOK
<1>6. CASE Main
  <2>1. CASE Accepted(argv) /\ ~Given(OspreyPart(argv), "cleanup-only")
    <3>1. Configured'
      BY <1>1, <1>6, <2>1, ConfigIsWhatWasAsked DEF Main
    <3> QED
      BY <1>1, <1>3, <1>4, <1>5, <1>6, <2>1, <3>1
      DEF Main, DriverGoes, DriverExits, Flow, Configured, Config
  <2>2. CASE ~(Accepted(argv) /\ ~Given(OspreyPart(argv), "cleanup-only"))
    BY <1>1, <1>4, <1>5, <1>6, <2>2 DEF Main, DriverExits, Flow, Config
  <2> QED
    BY <2>1, <2>2
<1>7. CASE OpenPair
  BY <1>1, <1>2, <1>4, <1>5, <1>7 DEF OpenPair, DriverGoes, Flow
<1>8. CASE Fork
  BY <1>1, <1>2, <1>4, <1>5, <1>8 DEF Fork, Flow
<1>9. CASE LaunchFails \/ Finish \/ Killed
  BY <1>1, <1>2, <1>4, <1>5, <1>9 DEF LaunchFails, Finish, Killed, DriverExits, Flow
<1>10. CASE AdoptSpeculative
  BY <1>1, <1>2, <1>3, <1>4, <1>5, <1>10 DEF AdoptSpeculative, DriverGoes, Flow, Configured
<1>11. CASE AdoptProgrammed
  BY <1>1, <1>2, <1>3, <1>4, <1>5, <1>11 DEF AdoptProgrammed, DriverGoes, Flow, Configured, Passes
<1>12. CASE Handover
  BY <1>1, <1>2, <1>4, <1>5, <1>12 DEF Handover, DriverGoes, Flow
<1>13. CASE WaitProgrammed
  BY <1>1, <1>2, <1>3, <1>4, <1>5, <1>13 DEF WaitProgrammed, Wait, DriverExits, Flow, Configured
<1>14. CASE WaitSpeculative
  BY <1>1, <1>2, <1>3, <1>4, <1>5, <1>14 DEF WaitSpeculative, Wait, DriverExits, Flow
<1>15. ASSUME NEW p \in Passes, Child(p) PROVE Flow'
  <2>1. /\ \A q \in Procs : q # p => pc'[q] = pc[q]
        /\ pc[p] \in Live
        /\ pc'[p] \notin {"idle", "reaped"}
        /\ UNCHANGED <<config, exitCode, launching>>
    BY <1>5, <1>15 DEF Child, PrepareChild, Exec, Die, Live
  <2>2. pc'["osprey"] = pc["osprey"] /\ pc[p] \notin {"idle", "reaped"}
    BY <2>1 DEF Live
  <2>3. \A q \in Passes :
          /\ pc'[q] = "idle" <=> pc[q] = "idle"
          /\ pc[q] = "reaped" => pc'[q] = "reaped"
    BY <2>1, <2>2
  <2> QED
    BY <1>1, <1>2, <1>3, <1>5, <2>1, <2>2, <2>3 DEF Flow
<1>16. CASE UNCHANGED vars
  BY <1>1, <1>2, <1>16 DEF vars, Flow
<1> QED
  BY <1>6, <1>7, <1>8, <1>9, <1>10, <1>11, <1>12, <1>13, <1>14, <1>15, <1>16
  DEF Next, Driver

LEMMA FlowInitially == Init => Flow
  BY Names DEF Init, Flow, Passes
-------------------------------------------------------------------------------
(* What each action does to the tables, descriptor by descriptor.           *)

LEMMA FileFacts ==
  /\ NoFile \notin DriversOwn /\ Callers \notin DriversOwn /\ NoFile # Callers
  /\ PidFd # Callers /\ PidFd # NoFile
  /\ \A p \in Passes :
       /\ ChildEnd(p) \notin DriversOwn \cup {NoFile, Callers, PidFd}
       /\ DriverEnd(p) \in DriversOwn
       /\ DriverEnd(p) \notin {NoFile, Callers, PidFd}
  /\ \A p, q \in Passes :
       /\ DriverEnd(p) # ChildEnd(q)
       /\ ChildEnd(p) = ChildEnd(q) => p = q
  BY DEF DriversOwn, Passes, NoFile, Callers, PidFd, ChildEnd, DriverEnd

LEMMA SlotFields ==
  /\ Closed.file = NoFile
  /\ \A file, c : Slot(file, c).file = file /\ Slot(file, c).cloexec = c
  BY DEF Closed, Slot

LEMMA OpenPairEffect ==
  ASSUME TypeOK, OpenPair
  PROVE  \E r, w \in FdNums :
           /\ r # w
           /\ fds["osprey"][r] = Closed /\ fds["osprey"][w] = Closed
           /\ comm'[launching].parent = r /\ comm'[launching].child = w
           /\ \A q \in Passes : q # launching => comm'[q] = comm[q]
           /\ \A q \in Passes : fds'[q] = fds[q]
           /\ fds'["osprey"][r] = Slot(DriverEnd(launching), FALSE)
           /\ fds'["osprey"][w] = Slot(ChildEnd(launching), FALSE)
           /\ \A f \in FdNums \ {r, w} : fds'["osprey"][f] = fds["osprey"][f]
<1>1. PICK r, w \in FdNums :
        /\ LowestOf(r, FreeFds)
        /\ LowestOf(w, FreeFds \ {r})
        /\ comm' = [comm EXCEPT ![launching] = [parent |-> r, child |-> w]]
        /\ fds' = [fds EXCEPT !["osprey"] =
             [@ EXCEPT ![r] = Slot(DriverEnd(launching), FALSE),
                       ![w] = Slot(ChildEnd(launching), FALSE)]]
  BY DEF OpenPair
<1>2. /\ launching \in Passes /\ comm \in [Passes -> [parent : FdNums, child : FdNums]]
      /\ fds \in [Procs -> [FdNums -> Slots]]
  BY DEF TypeOK
<1>3. r # w /\ fds["osprey"][r] = Closed /\ fds["osprey"][w] = Closed
  BY <1>1 DEF LowestOf, FreeFds
<1>4. /\ comm'[launching] = [parent |-> r, child |-> w]
      /\ \A q \in Passes : q # launching => comm'[q] = comm[q]
  BY <1>1, <1>2
<1>5. /\ \A q \in Passes : fds'[q] = fds[q]
      /\ fds'["osprey"] = [fds["osprey"] EXCEPT ![r] = Slot(DriverEnd(launching), FALSE),
                                                ![w] = Slot(ChildEnd(launching), FALSE)]
  BY <1>1, <1>2, Names
<1>6. fds["osprey"] \in [FdNums -> Slots]
  BY <1>2, Names
<1>7. /\ fds'["osprey"][r] = Slot(DriverEnd(launching), FALSE)
      /\ fds'["osprey"][w] = Slot(ChildEnd(launching), FALSE)
      /\ \A f \in FdNums \ {r, w} : fds'["osprey"][f] = fds["osprey"][f]
  BY <1>3, <1>5, <1>6
<1>8. comm'[launching].parent = r /\ comm'[launching].child = w
  BY <1>4
<1> WITNESS r \in FdNums, w \in FdNums
<1> QED
  BY <1>3, <1>4, <1>5, <1>7, <1>8

LEMMA ForkEffect ==
  ASSUME TypeOK, Fork
  PROVE  /\ fds'[launching] = fds["osprey"] /\ fds'["osprey"] = fds["osprey"]
         /\ \A q \in Passes : q # launching => fds'[q] = fds[q]
  BY Names DEF TypeOK, Fork

LEMMA AdoptSpeculativeEffect ==
  ASSUME TypeOK, AdoptSpeculative
  PROVE  /\ \A q \in Passes : fds'[q] = fds[q]
         /\ \A f \in FdNums :
              fds'["osprey"][f] = IF f = comm["spec"].parent
                                  THEN Slot(DriverEnd("spec"), TRUE)
                                  ELSE fds["osprey"][f]
<1>1. /\ fds["osprey"] \in [FdNums -> Slots] /\ fds \in [Procs -> [FdNums -> Slots]]
      /\ comm["spec"].parent \in FdNums
  BY Names DEF TypeOK
<1>2. fds' = [fds EXCEPT !["osprey"][comm["spec"].parent] = Slot(DriverEnd("spec"), TRUE)]
  BY DEF AdoptSpeculative
<1> QED
  BY <1>1, <1>2, Names

LEMMA AdoptProgrammedEffect ==
  ASSUME TypeOK, AdoptProgrammed
  PROVE  \E g \in FdNums :
           /\ fds["osprey"][g] = Closed \/ g = comm["prog"].child
           /\ \A q \in Passes : fds'[q] = fds[q]
           /\ \A f \in FdNums :
                fds'["osprey"][f] =
                  IF f = comm["prog"].parent THEN Slot(DriverEnd("prog"), TRUE)
                  ELSE IF f = g THEN Slot(PidFd, TRUE)
                  ELSE IF f = comm["prog"].child THEN Closed
                  ELSE fds["osprey"][f]
<1>1. PICK g \in FdNums :
        /\ LowestOf(g, FreeFds \cup {comm["prog"].child})
        /\ fds' = [fds EXCEPT !["osprey"] =
              [@ EXCEPT ![comm["prog"].child] = Closed,
                        ![g] = Slot(PidFd, TRUE),
                        ![comm["prog"].parent] = Slot(DriverEnd("prog"), TRUE)]]
  BY DEF AdoptProgrammed
<1>2. /\ fds["osprey"] \in [FdNums -> Slots] /\ fds \in [Procs -> [FdNums -> Slots]]
      /\ comm["prog"].child \in FdNums /\ comm["prog"].parent \in FdNums
  BY Names DEF TypeOK
<1>3. fds["osprey"][g] = Closed \/ g = comm["prog"].child
  BY <1>1 DEF LowestOf, FreeFds
<1>4. /\ \A q \in Passes : fds'[q] = fds[q]
      /\ fds'["osprey"] = [fds["osprey"] EXCEPT
                ![comm["prog"].child] = Closed,
                ![g] = Slot(PidFd, TRUE),
                ![comm["prog"].parent] = Slot(DriverEnd("prog"), TRUE)]
  BY <1>1, <1>2, Names
<1> QED
  BY <1>2, <1>3, <1>4

LEMMA HandoverEffect ==
  ASSUME TypeOK, Handover
  PROVE  /\ \A q \in Passes : fds'[q] = fds[q]
         /\ \A f \in FdNums :
              fds'["osprey"][f] = IF f = comm["spec"].parent THEN Closed
                                  ELSE fds["osprey"][f]
  BY Names DEF TypeOK, Handover

LEMMA ExitEffect ==
  ASSUME TypeOK, NEW code, DriverExits(code)
  PROVE  /\ \A q \in Passes : fds'[q] = fds[q]
         /\ \A f \in FdNums : fds'["osprey"][f] = Closed
         /\ pc'["osprey"] = "exited" /\ \A q \in Passes : pc'[q] = pc[q]
  BY Names DEF TypeOK, DriverExits, AllClosed

LEMMA PrepareEffect ==
  ASSUME TypeOK, NEW p \in Passes, PrepareChild(p)
  PROVE  /\ \A q \in Procs : q # p => fds'[q] = fds[q]
         /\ \A f \in FdNums :
              fds'[p][f] = IF f \in {comm[p].parent, comm[p].child} THEN Closed
                           ELSE IF f = ParentCommFd THEN Slot(ChildEnd(p), FALSE)
                           ELSE fds[p][f]
  BY Names, FdAssumption DEF TypeOK, PrepareChild

LEMMA ExecEffect ==
  ASSUME TypeOK, NEW p \in Passes, Exec(p)
  PROVE  /\ \A q \in Procs : q # p => fds'[q] = fds[q]
         /\ \A f \in FdNums :
              fds'[p][f] = IF fds[p][f].cloexec THEN Closed ELSE fds[p][f]
  BY Names DEF TypeOK, Exec

LEMMA DieEffect ==
  ASSUME TypeOK, NEW p \in Passes, Die(p)
  PROVE  \A q \in Procs : q # p => fds'[q] = fds[q]
  BY Names DEF TypeOK, Die
-------------------------------------------------------------------------------
(* The tables.                                                              *)

LEMMA TablesInitially == Init => Tables
<1> SUFFICES ASSUME Init PROVE Tables
  OBVIOUS
<1>1. \A f \in FdNums : fds["osprey"][f] = IF f \in inherited
                                         THEN Slot(Callers, FALSE)
                                         ELSE Closed
  BY Names DEF Init
<1>2. pc["osprey"] = "main" /\ \A p \in Passes : pc[p] = "idle"
  BY Names DEF Init
<1>7. \A f \in FdNums : fds["osprey"][f].file \in {Callers, NoFile}
  BY <1>1, SlotFields
<1>3. DriverTable
  BY <1>7, FileFacts DEF DriverTable
<1>4. PairTable
  BY <1>2, <1>7, FileFacts DEF PairTable
<1>5. ChildTable
  BY <1>2 DEF ChildTable, ChildRow
<1>6. InheritedTable
  BY <1>1, <1>2, FdAssumption DEF Init, InheritedTable, Live, Paired
<1> QED
  BY <1>3, <1>4, <1>5, <1>6 DEF Tables

(* A step of the driver leaves the children's tables alone.                 *)
LEMMA ChildRowKept ==
  ASSUME NEW p \in Passes, ChildRow(p), fds'[p] = fds[p],
         pc'[p] = pc[p] \/ pc'[p] \notin Live,
         pc[p] = "prepare" => comm'[p] = comm[p]
  PROVE  ChildRow(p)'
<1>1. CASE pc'[p] = pc[p]
  <2>1. Installed(p)' = Installed(p)
    BY DEF Installed
  <2> QED
    BY <1>1, <2>1 DEF ChildRow
<1>2. CASE pc'[p] \notin Live
  BY <1>2 DEF ChildRow, Live
<1> QED
  BY <1>1, <1>2

LEMMA ChildTableKept ==
  ASSUME ChildTable,
         \A p \in Passes : /\ fds'[p] = fds[p]
                           /\ pc'[p] = pc[p] \/ pc'[p] \notin Live
                           /\ pc[p] = "prepare" => comm'[p] = comm[p]
  PROVE  ChildTable'
  BY ChildRowKept DEF ChildTable

(* An exit of the driver empties its table and touches no other.            *)
LEMMA ExitKeepsTables ==
  ASSUME TypeOK, Tables, NEW code, DriverExits(code), UNCHANGED <<comm, inherited>>
  PROVE  Tables'
<1>1. /\ \A q \in Passes : fds'[q] = fds[q] /\ pc'[q] = pc[q]
      /\ \A f \in FdNums : fds'["osprey"][f].file = NoFile
      /\ pc'["osprey"] = "exited"
  BY ExitEffect, SlotFields
<1>2. DriverTable'
  BY <1>1, FileFacts DEF DriverTable
<1>3. PairTable'
  BY <1>1, FileFacts DEF PairTable
<1>4. ChildTable'
  BY <1>1, ChildTableKept DEF Tables
<1>5. InheritedTable'
  BY <1>1 DEF Tables, InheritedTable, Paired
<1> QED
  BY <1>2, <1>3, <1>4, <1>5 DEF Tables

(* So does a move of the driver outside a launch, also when it reaps.       *)
LEMMA MoveKeepsTables ==
  ASSUME TypeOK, Tables, UNCHANGED <<comm, inherited, fds>>,
         pc["osprey"] \notin {"fork", "adopt", "exited"},
         pc'["osprey"] \notin {"fork", "adopt", "exited"},
         \A p \in Passes : pc'[p] = pc[p] \/ (pc[p] = "zombie" /\ pc'[p] = "reaped")
  PROVE  Tables'
<1>1. DriverTable'
  BY DEF Tables, DriverTable
<1>2. PairTable'
  BY DEF Tables, PairTable, Paired
<1>3. ChildTable'
  BY ChildTableKept DEF Tables, Live
<1>4. InheritedTable'
  BY DEF Tables, InheritedTable, Paired, Live
<1> QED
  BY <1>1, <1>2, <1>3, <1>4 DEF Tables

LEMMA OpenPairKeepsTables ==
  ASSUME TypeOK, Flow, Tables, OpenPair
  PROVE  Tables'
<1>1. PICK r, w \in FdNums :
        /\ r # w
        /\ fds["osprey"][r] = Closed /\ fds["osprey"][w] = Closed
        /\ comm'[launching].parent = r /\ comm'[launching].child = w
        /\ \A q \in Passes : q # launching => comm'[q] = comm[q]
        /\ \A q \in Passes : fds'[q] = fds[q]
        /\ fds'["osprey"][r] = Slot(DriverEnd(launching), FALSE)
        /\ fds'["osprey"][w] = Slot(ChildEnd(launching), FALSE)
        /\ \A f \in FdNums \ {r, w} : fds'["osprey"][f] = fds["osprey"][f]
  BY OpenPairEffect
<1>2. /\ pc["osprey"] = "socketpair" /\ pc'["osprey"] = "fork"
      /\ \A p \in Passes : pc'[p] = pc[p]
      /\ launching' = launching /\ inherited' = inherited
      /\ launching \in Passes /\ pc[launching] = "idle"
  <2>1. pc["osprey"] = "socketpair" /\ launching \in Passes
    BY DEF OpenPair, TypeOK
  <2>2. pc[launching] = "idle"
    BY <2>1 DEF Flow
  <2>3. /\ pc'["osprey"] = "fork" /\ \A p \in Passes : pc'[p] = pc[p]
        /\ launching' = launching /\ inherited' = inherited
    BY Names DEF OpenPair, DriverGoes, given, TypeOK
  <2> QED
    BY <2>1, <2>2, <2>3
<1>3. /\ fds'["osprey"][r].file = DriverEnd(launching)
      /\ fds'["osprey"][w].file = ChildEnd(launching)
      /\ fds["osprey"][r].file = NoFile /\ fds["osprey"][w].file = NoFile
  BY <1>1 DEF Slot, Closed
<1>4. \A f \in FdNums : fds["osprey"][f].file # ChildEnd(launching)
  BY <1>2 DEF Tables, PairTable, Paired
<1>5. DriverTable'
  <2>1. \A f \in FdNums \ {r, w} : fds["osprey"][f].file \in DriversOwn => fds["osprey"][f].cloexec
    BY <1>2 DEF Tables, DriverTable
  <2>2. fds'["osprey"][w].file \notin DriversOwn
    BY <1>2, <1>3, FileFacts
  <2> QED
    BY <1>1, <1>2, <2>1, <2>2 DEF DriverTable
<1>6. PairTable'
  <2>1. \A f \in FdNums : fds'["osprey"][f].file = ChildEnd(launching) <=> f = w
    BY <1>1, <1>2, <1>3, <1>4, FileFacts
  <2>2. ASSUME NEW p \in Passes, p # launching, ~Paired(p)', NEW f \in FdNums
        PROVE  fds'["osprey"][f].file # ChildEnd(p)
    <3>1. ~Paired(p)
      BY <1>2, <2>2 DEF Paired
    <3>2. fds["osprey"][f].file # ChildEnd(p)
      BY <3>1 DEF Tables, PairTable
    <3> QED
      BY <1>1, <1>2, <1>3, <2>2, <3>2, FileFacts
  <2>3. Paired(launching)'
    BY <1>2 DEF Paired
  <2>4. \A p \in Passes : ~Paired(p)' =>
          \A f \in FdNums : fds'["osprey"][f].file # ChildEnd(p)
    BY <2>2, <2>3, <1>2
  <2> QED
    BY <1>1, <1>2, <1>3, <2>1, <2>4 DEF PairTable
<1>7. ChildTable'
  <2>1. \A p \in Passes : /\ pc[p] = "prepare" => comm'[p] = comm[p]
                          /\ pc'[p] = pc[p] /\ fds'[p] = fds[p]
    BY <1>1, <1>2
  <2> QED
    BY <2>1, ChildTableKept DEF Tables
<1>8. InheritedTable'
  <2>1. \A f \in inherited : fds["osprey"][f].file = Callers
    BY <1>2 DEF Tables, InheritedTable, Slot
  <2>2. r \notin inherited /\ w \notin inherited
    BY <1>3, <2>1, FileFacts
  <2>3. inherited \subseteq FdNums
    BY FdAssumption DEF TypeOK
  <2>4. \A f \in inherited : fds'["osprey"][f] = fds["osprey"][f]
    BY <1>1, <2>2, <2>3
  <2>5. \A p \in Passes :
          /\ pc'[p] = pc[p] /\ fds'[p] = fds[p]
          /\ p # launching => comm'[p] = comm[p] /\ Paired(p)' = Paired(p)
    BY <1>1, <1>2 DEF Paired
  <2>6. comm'[launching].parent \notin inherited /\ comm'[launching].child \notin inherited
    BY <1>1, <2>2
  <2>7. \A p \in Passes : Paired(p)' =>
          comm'[p].parent \notin inherited /\ comm'[p].child \notin inherited
    BY <2>5, <2>6 DEF Tables, InheritedTable
  <2> QED
    BY <1>2, <2>4, <2>5, <2>7 DEF Tables, InheritedTable
<1> QED
  BY <1>5, <1>6, <1>7, <1>8 DEF Tables

LEMMA ForkKeepsTables ==
  ASSUME TypeOK, Flow, Tables, Fork
  PROVE  Tables'
<1>1. /\ pc["osprey"] = "fork" /\ pc'["osprey"] = "adopt"
      /\ pc'[launching] = "prepare"
      /\ \A p \in Passes : p # launching => pc'[p] = pc[p]
      /\ launching' = launching /\ inherited' = inherited /\ comm' = comm
      /\ launching \in Passes
  BY Names DEF Fork, given, TypeOK
<1> USE ForkEffect, <1>1
<1>2. DriverTable'
  BY DEF Tables, DriverTable
<1>3. PairTable'
  BY DEF Tables, PairTable, Paired
<1>4. ChildTable'
  <2>1. ChildRow(launching)'
    BY DEF Tables, ChildRow, DriverTable, PairTable
  <2>2. ASSUME NEW p \in Passes, p # launching PROVE ChildRow(p)'
    BY <2>2, ChildRowKept DEF Tables, ChildTable
  <2> QED
    BY <2>1, <2>2 DEF ChildTable
<1>5. InheritedTable'
  <2>1. \A f \in inherited : fds["osprey"][f] = Slot(Callers, FALSE)
    BY DEF Tables, InheritedTable
  <2>2. ASSUME NEW p \in Passes, pc'[p] \in Live
        PROVE  \A f \in inherited : fds'[p][f] = Slot(Callers, FALSE)
    <3>1. CASE p = launching
      BY <2>1, <3>1
    <3>2. CASE p # launching
      BY <2>2, <3>2 DEF Tables, InheritedTable
    <3> QED
      BY <3>1, <3>2
  <2>3. \A p \in Passes : Paired(p)' => Paired(p)
    BY DEF Paired
  <2> QED
    BY <2>1, <2>2, <2>3 DEF Tables, InheritedTable
<1> QED
  BY <1>2, <1>3, <1>4, <1>5 DEF Tables
(* A step of the driver that leaves the caller's descriptors alone.         *)
LEMMA InheritedKept ==
  ASSUME InheritedTable, UNCHANGED <<inherited, comm>>, pc["osprey"] # "exited",
         \A f \in inherited : fds'["osprey"][f] = fds["osprey"][f],
         \A p \in Passes : fds'[p] = fds[p] /\ pc'[p] = pc[p] /\ (Paired(p)' => Paired(p))
  PROVE  InheritedTable'
<1>1. pc'["osprey"] # "exited" =>
        \A f \in inherited' : fds'["osprey"][f] = Slot(Callers, FALSE)
  BY DEF InheritedTable
<1>2. \A p \in Passes : pc'[p] \in Live =>
        \A f \in inherited' : fds'[p][f] = Slot(Callers, FALSE)
  BY DEF InheritedTable
<1>3. \A p \in Passes : Paired(p)' =>
        comm'[p].parent \notin inherited' /\ comm'[p].child \notin inherited'
  BY DEF InheritedTable
<1> QED
  BY <1>1, <1>2, <1>3 DEF InheritedTable

(* A step of the driver's launch that only closes, or marks close-on-exec,  *)
(* descriptors of the pair.                                                 *)
LEMMA AdoptSpeculativeKeepsTables ==
  ASSUME TypeOK, Flow, Tables, AdoptSpeculative
  PROVE  Tables'
<1>1. /\ pc["osprey"] = "adopt" /\ launching = "spec"
      /\ pc'["osprey"] \in {"waitSpec", "socketpair"}
      /\ \A p \in Passes : pc'[p] = pc[p]
      /\ inherited' = inherited /\ comm' = comm
      /\ pc["spec"] # "idle"
  BY Names DEF AdoptSpeculative, DriverGoes, given, TypeOK, Flow
<1>2. /\ \A q \in Passes : fds'[q] = fds[q]
      /\ \A f \in FdNums :
           fds'["osprey"][f] = IF f = comm["spec"].parent
                               THEN Slot(DriverEnd("spec"), TRUE)
                               ELSE fds["osprey"][f]
  BY AdoptSpeculativeEffect
<1>3. \A f \in FdNums :
        /\ fds'["osprey"][f].file = fds["osprey"][f].file
        /\ fds["osprey"][f].cloexec \/ f = comm["spec"].parent => fds'["osprey"][f].cloexec
  BY <1>1, <1>2 DEF Slot, Tables, PairTable
<1>4. DriverTable'
  BY <1>1, <1>3 DEF Tables, DriverTable
<1>5. PairTable'
  BY <1>1, <1>3 DEF Tables, PairTable, Paired
<1>6. ChildTable'
  BY <1>1, <1>2, ChildTableKept DEF Tables
<1>7. InheritedTable'
  <2>1. /\ comm["spec"].parent \notin inherited
        /\ inherited \subseteq FdNums
    BY <1>1, Names, FdAssumption DEF Tables, InheritedTable, Paired, TypeOK
  <2>2. \A f \in inherited : fds'["osprey"][f] = fds["osprey"][f]
    BY <1>2, <2>1
  <2>3. \A p \in Passes : fds'[p] = fds[p] /\ pc'[p] = pc[p] /\ (Paired(p)' => Paired(p))
    BY <1>1, <1>2 DEF Paired
  <2> QED
    BY <1>1, <2>2, <2>3, InheritedKept DEF Tables
<1> QED
  BY <1>4, <1>5, <1>6, <1>7 DEF Tables

LEMMA AdoptProgrammedKeepsTables ==
  ASSUME TypeOK, Flow, Tables, AdoptProgrammed
  PROVE  Tables'
<1>1. /\ pc["osprey"] = "adopt" /\ launching = "prog"
      /\ pc'["osprey"] \in {"waitProg", "handover"}
      /\ \A p \in Passes : pc'[p] = pc[p]
      /\ inherited' = inherited /\ comm' = comm
      /\ pc["prog"] # "idle"
  BY Names DEF AdoptProgrammed, DriverGoes, given, TypeOK, Flow
<1>2. PICK g \in FdNums :
        /\ fds["osprey"][g] = Closed \/ g = comm["prog"].child
        /\ \A q \in Passes : fds'[q] = fds[q]
        /\ \A f \in FdNums :
             fds'["osprey"][f] =
               IF f = comm["prog"].parent THEN Slot(DriverEnd("prog"), TRUE)
               ELSE IF f = g THEN Slot(PidFd, TRUE)
               ELSE IF f = comm["prog"].child THEN Closed
               ELSE fds["osprey"][f]
  BY AdoptProgrammedEffect
<1>3. \A f \in FdNums :
        \/ fds'["osprey"][f].cloexec /\ fds'["osprey"][f].file \in {DriverEnd("prog"), PidFd}
        \/ fds'["osprey"][f].file = NoFile
        \/ f # comm["prog"].parent /\ fds'["osprey"][f] = fds["osprey"][f]
  BY <1>2 DEF Slot, Closed
<1>4. DriverTable'
  BY <1>1, <1>3, FileFacts DEF Tables, DriverTable
<1>5. PairTable'
  <2>1. ASSUME NEW p \in Passes, ~Paired(p)', NEW f \in FdNums
        PROVE  fds'["osprey"][f].file # ChildEnd(p)
    <3>1. fds["osprey"][f].file # ChildEnd(p)
      BY <1>1, <2>1 DEF Tables, PairTable, Paired
    <3> QED
      BY <1>3, <3>1, FileFacts, Names
  <2> QED
    BY <1>1, <2>1 DEF PairTable
<1>6. ChildTable'
  BY <1>1, <1>2, ChildTableKept DEF Tables
<1>7. InheritedTable'
  <2>1. /\ comm["prog"].parent \notin inherited /\ comm["prog"].child \notin inherited
        /\ inherited \subseteq FdNums
    BY <1>1, Names, FdAssumption DEF Tables, InheritedTable, Paired, TypeOK
  <2>2. \A f \in inherited : fds["osprey"][f] = Slot(Callers, FALSE)
    BY <1>1 DEF Tables, InheritedTable
  <2>3. g \notin inherited
    <3>1. Closed # Slot(Callers, FALSE)
      BY FileFacts DEF Closed, Slot
    <3> QED
      BY <1>2, <2>1, <2>2, <3>1
  <2>4. \A f \in inherited : fds'["osprey"][f] = fds["osprey"][f]
    BY <1>2, <2>1, <2>3
  <2>5. \A p \in Passes : fds'[p] = fds[p] /\ pc'[p] = pc[p] /\ (Paired(p)' => Paired(p))
    BY <1>1, <1>2 DEF Paired
  <2> QED
    BY <1>1, <2>4, <2>5, InheritedKept DEF Tables
<1> QED
  BY <1>4, <1>5, <1>6, <1>7 DEF Tables

LEMMA HandoverKeepsTables ==
  ASSUME TypeOK, Flow, Tables, Handover
  PROVE  Tables'
<1>1. /\ pc["osprey"] = "handover" /\ pc'["osprey"] = "waitProg"
      /\ \A p \in Passes : pc'[p] = pc[p]
      /\ inherited' = inherited /\ comm' = comm
      /\ pc["spec"] # "idle"
  BY Names DEF Handover, DriverGoes, given, TypeOK, Flow
<1>2. /\ \A q \in Passes : fds'[q] = fds[q]
      /\ \A f \in FdNums :
           fds'["osprey"][f] = IF f = comm["spec"].parent THEN Closed
                               ELSE fds["osprey"][f]
  BY HandoverEffect
<1>3. \A f \in FdNums : \/ fds'["osprey"][f].file = NoFile
                         \/ fds'["osprey"][f] = fds["osprey"][f]
  BY <1>2 DEF Closed, Slot
<1>4. DriverTable'
  BY <1>1, <1>3, FileFacts DEF Tables, DriverTable
<1>5. PairTable'
  BY <1>1, <1>3, FileFacts DEF Tables, PairTable, Paired
<1>6. ChildTable'
  BY <1>1, <1>2, ChildTableKept DEF Tables
<1>7. InheritedTable'
  <2>1. /\ comm["spec"].parent \notin inherited
        /\ inherited \subseteq FdNums
    BY <1>1, Names, FdAssumption DEF Tables, InheritedTable, Paired, TypeOK
  <2>2. \A f \in inherited : fds'["osprey"][f] = fds["osprey"][f]
    BY <1>2, <2>1
  <2>3. \A p \in Passes : fds'[p] = fds[p] /\ pc'[p] = pc[p] /\ (Paired(p)' => Paired(p))
    BY <1>1, <1>2 DEF Paired
  <2> QED
    BY <1>1, <2>2, <2>3, InheritedKept DEF Tables
<1> QED
  BY <1>4, <1>5, <1>6, <1>7 DEF Tables
(* A child's step: the driver's table is not touched, the child's own       *)
(* satisfies what its new place asks, and the other child's is not touched. *)
LEMMA ChildKeepsTables ==
  ASSUME TypeOK, Tables, NEW p \in Passes, UNCHANGED <<launching, comm, inherited>>,
         \A q \in Procs : q # p => fds'[q] = fds[q] /\ pc'[q] = pc[q],
         pc[p] \in Live, pc'[p] \notin {"idle", "prepare"},
         pc'[p] = "exec" =>
           \A f \in FdNums : fds'[p][f].file \in DriversOwn => fds'[p][f].cloexec,
         pc'[p] = "running" => \A f \in FdNums : fds'[p][f].file \notin DriversOwn,
         pc'[p] \in {"exec", "running"} => Installed(p)',
         pc'[p] \in Live => \A f \in inherited : fds'[p][f] = Slot(Callers, FALSE)
  PROVE  Tables'
<1>1. /\ fds'["osprey"] = fds["osprey"] /\ pc'["osprey"] = pc["osprey"]
      /\ \A q \in Passes : q # p => fds'[q] = fds[q] /\ pc'[q] = pc[q]
  BY Names
<1>2. \A q \in Passes : Paired(q)' => Paired(q)
  BY <1>1 DEF Paired, Live
<1>3. \A q \in Passes : Paired(q) => Paired(q)'
  BY <1>1 DEF Paired
<1>4. DriverTable'
  BY <1>1 DEF Tables, DriverTable
<1>5. PairTable'
  BY <1>1, <1>3 DEF Tables, PairTable
<1>6. ChildTable'
  <2>1. ChildRow(p)'
    BY DEF ChildRow
  <2>2. ASSUME NEW q \in Passes, q # p PROVE ChildRow(q)'
    BY <1>1, <2>2, ChildRowKept DEF Tables, ChildTable
  <2> QED
    BY <2>1, <2>2 DEF ChildTable
<1>7. InheritedTable'
  <2>1. \A f \in inherited : pc["osprey"] # "exited" => fds["osprey"][f] = Slot(Callers, FALSE)
    BY DEF Tables, InheritedTable
  <2>2. ASSUME NEW q \in Passes, pc'[q] \in Live
        PROVE  \A f \in inherited : fds'[q][f] = Slot(Callers, FALSE)
    <3>1. CASE q = p
      BY <2>2, <3>1
    <3>2. CASE q # p
      <4>1. fds'[q] = fds[q] /\ pc[q] \in Live
        BY <1>1, <2>2, <3>2
      <4>2. \A f \in inherited : fds[q][f] = Slot(Callers, FALSE)
        BY <4>1, Zenon DEF Tables, InheritedTable
      <4> QED
        BY <4>1, <4>2
    <3> QED
      BY <3>1, <3>2
  <2>3. \A q \in Passes : Paired(q)' =>
          comm[q].parent \notin inherited /\ comm[q].child \notin inherited
    BY <1>2 DEF Tables, InheritedTable
  <2> QED
    BY <1>1, <2>1, <2>2, <2>3 DEF InheritedTable
<1> QED
  BY <1>4, <1>5, <1>6, <1>7 DEF Tables

LEMMA PrepareKeepsTables ==
  ASSUME TypeOK, Tables, NEW p \in Passes, PrepareChild(p)
  PROVE  Tables'
<1>1. /\ pc[p] = "prepare" /\ pc'[p] = "exec"
      /\ \A q \in Procs : q # p => pc'[q] = pc[q]
      /\ UNCHANGED <<launching, comm, inherited>>
      /\ fds[p][ParentCommFd] = Closed
  BY Names DEF PrepareChild, given, TypeOK
<1>2. /\ \A q \in Procs : q # p => fds'[q] = fds[q]
      /\ \A f \in FdNums :
           fds'[p][f] = IF f \in {comm[p].parent, comm[p].child} THEN Closed
                        ELSE IF f = ParentCommFd THEN Slot(ChildEnd(p), FALSE)
                        ELSE fds[p][f]
  BY PrepareEffect
<1>3. /\ fds[p][comm[p].parent].file = DriverEnd(p)
      /\ \A f \in FdNums : fds[p][f].file = ChildEnd(p) <=> f = comm[p].child
      /\ \A f \in FdNums : fds[p][f].file \in DriversOwn =>
           fds[p][f].cloexec \/ f = comm[p].parent
  BY <1>1 DEF Tables, ChildTable, ChildRow, Installed
<1>4. /\ fds[p][ParentCommFd].file = NoFile
      /\ comm[p].parent \in FdNums /\ comm[p].child \in FdNums
  BY <1>1 DEF Closed, Slot, TypeOK
<1>5. ParentCommFd \notin {comm[p].parent, comm[p].child}
  BY <1>3, <1>4, FileFacts
<1>6. \A f \in FdNums :
        \/ f \in {comm[p].parent, comm[p].child} /\ fds'[p][f].file = NoFile
        \/ /\ f = ParentCommFd
           /\ fds'[p][f].file = ChildEnd(p) /\ fds'[p][f].cloexec = FALSE
        \/ f \notin {comm[p].parent, comm[p].child, ParentCommFd} /\ fds'[p][f] = fds[p][f]
  BY <1>2, <1>5 DEF Closed, Slot
<1>7. \A f \in FdNums : fds'[p][f].file \in DriversOwn => fds'[p][f].cloexec
  BY <1>3, <1>6, FileFacts
<1>8. Installed(p)'
  <2>1. fds'[p][ParentCommFd] = Slot(ChildEnd(p), FALSE)
    BY <1>2, <1>5, FdAssumption
  <2>2. \A f \in FdNums : fds'[p][f].file = ChildEnd(p) => f = ParentCommFd
    BY <1>3, <1>6, FileFacts
  <2> QED
    BY <2>1, <2>2 DEF Installed
<1>9. \A f \in inherited : fds'[p][f] = Slot(Callers, FALSE)
  <2>1. \A f \in inherited : fds[p][f] = Slot(Callers, FALSE)
    BY <1>1 DEF Tables, InheritedTable, Live
  <2>2. comm[p].parent \notin inherited /\ comm[p].child \notin inherited
    BY <1>1 DEF Tables, InheritedTable, Paired
  <2>3. ParentCommFd \notin inherited
    BY <1>4, <2>1, FileFacts DEF Slot
  <2>4. inherited \subseteq FdNums
    BY FdAssumption DEF TypeOK
  <2> QED
    BY <1>6, <2>1, <2>2, <2>3, <2>4
<1>10. pc[p] \in Live /\ pc'[p] \notin {"idle", "prepare"}
  BY <1>1 DEF Live
<1> QED
  BY <1>1, <1>2, <1>7, <1>8, <1>9, <1>10, ChildKeepsTables

LEMMA ExecKeepsTables ==
  ASSUME TypeOK, Tables, NEW p \in Passes, Exec(p)
  PROVE  Tables'
<1>1. /\ pc[p] = "exec" /\ pc'[p] = "running"
      /\ \A q \in Procs : q # p => pc'[q] = pc[q]
      /\ UNCHANGED <<launching, comm, inherited>>
  BY Names DEF Exec, given, TypeOK
<1>2. /\ \A q \in Procs : q # p => fds'[q] = fds[q]
      /\ \A f \in FdNums :
           fds'[p][f] = IF fds[p][f].cloexec THEN Closed ELSE fds[p][f]
  BY ExecEffect
<1>3. \A f \in FdNums :
        \/ fds[p][f].cloexec /\ fds'[p][f].file = NoFile
        \/ ~fds[p][f].cloexec /\ fds'[p][f] = fds[p][f]
  BY <1>2 DEF Closed, Slot
<1>4. Installed(p)
  BY <1>1 DEF Tables, ChildTable, ChildRow
<1>5. Installed(p)'
  <2>1. fds'[p][ParentCommFd] = Slot(ChildEnd(p), FALSE)
    <3>1. fds[p][ParentCommFd] = Slot(ChildEnd(p), FALSE)
      BY <1>4 DEF Installed
    <3>2. ~fds[p][ParentCommFd].cloexec
      BY <3>1 DEF Slot
    <3> QED
      BY <1>2, <3>1, <3>2, FdAssumption
  <2>2. \A f \in FdNums : fds'[p][f].file = ChildEnd(p) => f = ParentCommFd
    BY <1>3, <1>4, FileFacts DEF Installed
  <2> QED
    BY <2>1, <2>2 DEF Installed
<1>6. \A f \in inherited : fds'[p][f] = Slot(Callers, FALSE)
  <2>1. \A f \in inherited : fds[p][f] = Slot(Callers, FALSE)
    BY <1>1 DEF Tables, InheritedTable, Live
  <2>2. inherited \subseteq FdNums
    BY FdAssumption DEF TypeOK
  <2>3. \A f \in inherited : ~fds[p][f].cloexec
    BY <2>1 DEF Slot
  <2> QED
    BY <1>2, <2>1, <2>2, <2>3
<1>7. pc[p] \in Live /\ pc'[p] \notin {"idle", "prepare", "exec"}
  BY <1>1 DEF Live
<1>8. \A f \in FdNums : fds'[p][f].file \notin DriversOwn
  BY <1>1, <1>3, FileFacts DEF Tables, ChildTable, ChildRow
<1> QED
  BY <1>1, <1>2, <1>5, <1>6, <1>7, <1>8, ChildKeepsTables
LEMMA TablesInductive == TypeOK /\ Flow /\ Tables /\ [Next]_vars => Tables'
<1> SUFFICES ASSUME TypeOK, Flow, Tables, [Next]_vars PROVE Tables'
  OBVIOUS
<1>1. inherited' = inherited
  BY GivenNeverChanges DEF given
<1>2. CASE Main
  <2>1. CASE DriverExits("failure") \/ DriverExits("success")
    BY <1>1, <1>2, <2>1, ExitKeepsTables DEF Main
  <2>2. CASE DriverGoes("socketpair") /\ UNCHANGED fds
    BY <1>1, <1>2, <2>2, MoveKeepsTables, Names DEF Main, DriverGoes, TypeOK
  <2> QED
    BY <1>2, <2>1, <2>2 DEF Main
<1>3. CASE LaunchFails \/ Finish \/ Killed
  BY <1>1, <1>3, ExitKeepsTables DEF LaunchFails, Finish, Killed
<1>4. ASSUME NEW p \in Passes, NEW place, NEW after, Wait(p, place, after),
             place \notin {"fork", "adopt", "exited"},
             after \notin {"fork", "adopt", "exited"}
      PROVE  Tables'
  <2>1. CASE DriverExits("failure")
    BY <1>1, <1>4, <2>1, ExitKeepsTables DEF Wait
  <2>2. CASE /\ pc[p] = "zombie"
             /\ pc' = [pc EXCEPT ![p] = "reaped", !["osprey"] = after]
             /\ UNCHANGED <<fds, exitCode>>
    BY <1>1, <1>4, <2>2, MoveKeepsTables, Names DEF Wait, TypeOK
  <2> QED
    BY <1>4, <2>1, <2>2 DEF Wait
<1>5. CASE WaitProgrammed \/ WaitSpeculative
  BY <1>4, <1>5, Names DEF WaitProgrammed, WaitSpeculative
<1>6. ASSUME NEW p \in Passes, Die(p) PROVE Tables'
  <2>1. /\ \A q \in Procs : q # p => fds'[q] = fds[q] /\ pc'[q] = pc[q]
        /\ pc[p] \in Live /\ pc'[p] \in {"zombie", "vanished"}
        /\ UNCHANGED <<launching, comm, inherited>>
    BY <1>6, DieEffect, Names DEF Die, given, TypeOK
  <2>2. pc'[p] \notin Live /\ pc'[p] \notin {"idle", "prepare", "exec", "running"}
    BY <2>1 DEF Live
  <2> QED
    BY <2>1, <2>2, ChildKeepsTables
<1>7. CASE UNCHANGED vars
  <2>1. DriverTable' /\ PairTable'
    BY <1>7 DEF vars, Tables, DriverTable, PairTable, Paired
  <2>2. ChildTable'
    BY <1>7, ChildTableKept DEF vars, Tables
  <2>3. InheritedTable'
    BY <1>7 DEF vars, Tables, InheritedTable, Paired
  <2> QED
    BY <2>1, <2>2, <2>3 DEF Tables
<1> QED
  BY <1>2, <1>3, <1>5, <1>6, <1>7, OpenPairKeepsTables, ForkKeepsTables,
     AdoptSpeculativeKeepsTables, AdoptProgrammedKeepsTables, HandoverKeepsTables,
     PrepareKeepsTables, ExecKeepsTables
  DEF Next, Driver, Child

-------------------------------------------------------------------------------
(* What the children are told.                                              *)

LEMMA ToldInitially == Init => Told
  BY Names DEF Init, Told, WatchNeverFollowsTrace, SharedMemoryHasTwoSides, Unset, Watching

LEMMA ToldInductive == TypeOK /\ Flow /\ Told /\ [Next]_vars => Told'
<1> SUFFICES ASSUME TypeOK, Flow, Told, [Next]_vars PROVE Told'
  OBVIOUS
<1>1. argv' = argv
  BY GivenNeverChanges DEF given
<1>2. "none" \notin Watching /\ Unset.algorithm = "none"
  BY DEF Watching, Unset
<1>3. CASE Fork
  <2>1. /\ pc'[launching] = "prepare" /\ env' = env /\ launching \in Passes
        /\ \A p \in Passes : p # launching => pc'[p] = pc[p]
        /\ launching = "spec" => pc["prog"] = "idle"
        /\ pc[launching] = "idle"
    BY <1>3, Names DEF Fork, Flow, TypeOK
  <2>2. WatchNeverFollowsTrace'
    BY <1>2, <2>1, Names DEF Told, WatchNeverFollowsTrace, Passes
  <2>3. SharedMemoryHasTwoSides'
    BY <1>1, <2>1 DEF Told, SharedMemoryHasTwoSides
  <2>4. pc'["prog"] \in {"idle", "prepare"} => env'["prog"] = Unset
    BY <2>1, Names DEF Told
  <2> QED
    BY <2>2, <2>3, <2>4 DEF Told
<1>4. ASSUME NEW p \in Passes, PrepareChild(p) PROVE Told'
  <2>1. /\ pc[p] = "prepare" /\ pc'[p] = "exec" /\ env'[p] = Environment(p)
        /\ \A q \in Passes : q # p => env'[q] = env[q] /\ pc'[q] = pc[q]
    BY <1>4, Names DEF PrepareChild, TypeOK
  <2>2. Configured /\ p \in Asked /\ Asked \subseteq Passes
    BY <2>1 DEF Flow, Asked, RequestedPasses, Passes
  <2>3. Environment(p).shm <=> Asked = Passes
    BY <2>2 DEF Environment, Configured, Passes
  <2>4. p = "prog" /\ Environment(p).algorithm \in Watching => pc["spec"] = "idle"
    <3>1. Environment("prog").algorithm \in {"PARENT", config.programmingAlgorithm}
      BY DEF Environment
    <3>2. "PARENT" \notin Watching
      BY DEF Watching
    <3> QED
      BY <2>2, <3>1, <3>2, Names DEF Configured, Flow, Passes
  <2>5. WatchNeverFollowsTrace'
    BY <2>1, <2>4, Names DEF Told, WatchNeverFollowsTrace
  <2>6. SharedMemoryHasTwoSides'
    BY <1>1, <2>1, <2>3 DEF Told, SharedMemoryHasTwoSides, Asked
  <2>7. pc'["prog"] \in {"idle", "prepare"} => env'["prog"] = Unset
    BY <2>1, Names DEF Told
  <2> QED
    BY <2>5, <2>6, <2>7 DEF Told
<1>5. ASSUME NEW p \in Passes, Exec(p) \/ Die(p) PROVE Told'
  <2>1. /\ pc[p] \in Live /\ env' = env
        /\ pc'[p] \in {"running", "zombie", "vanished"}
        /\ pc'[p] = "running" => pc[p] = "exec"
        /\ \A q \in Passes : q # p => pc'[q] = pc[q]
    BY <1>5, Names DEF Exec, Die, Live, TypeOK
  <2>2. pc[p] # "idle"
    BY <2>1 DEF Live
  <2> QED
    BY <1>1, <2>1, <2>2, Names DEF Told, WatchNeverFollowsTrace, SharedMemoryHasTwoSides
<1>6. CASE env' = env /\ \A p \in Passes :
             pc'[p] = pc[p] \/ (pc[p] = "zombie" /\ pc'[p] = "reaped")
  BY <1>1, <1>6, Names DEF Told, WatchNeverFollowsTrace, SharedMemoryHasTwoSides
<1>7. CASE Driver \/ Killed \/ UNCHANGED vars
  <2>1. CASE WaitProgrammed \/ WaitSpeculative
    BY <1>6, <2>1, Names DEF WaitProgrammed, WaitSpeculative, Wait, DriverExits, TypeOK
  <2>2. CASE Main \/ OpenPair \/ LaunchFails \/ Finish \/ Killed \/ UNCHANGED vars
    BY <1>6, <2>2, Names DEF Main, OpenPair, LaunchFails, Finish, Killed, DriverExits,
                           DriverGoes, TypeOK, vars
  <2>3. CASE AdoptSpeculative \/ AdoptProgrammed \/ Handover
    BY <1>6, <2>3, Names DEF AdoptSpeculative, AdoptProgrammed, Handover, DriverGoes, TypeOK
  <2> QED
    BY <1>3, <1>7, <2>1, <2>2, <2>3 DEF Driver
<1> QED
  BY <1>4, <1>5, <1>7 DEF Next, Child
-------------------------------------------------------------------------------
(* The inductive invariant, and what follows from it.                       *)

IInv == TypeOK /\ Flow /\ Tables /\ Told

LEMMA Inductive == Spec => []IInv
<1>1. Init => IInv
  BY TypeInitially, FlowInitially, TablesInitially, ToldInitially DEF IInv
<1>2. IInv /\ [Next]_vars => IInv'
  BY TypeInductive, FlowInductive, TablesInductive, ToldInductive DEF IInv
<1> QED
  BY <1>1, <1>2, PTL DEF Spec

(* Every variable stays in its range, whatever the command line, the        *)
(* descriptors inherited and the order in which the processes run and die.  *)
THEOREM TypeCorrect == Spec => []TypeOK
<1>1. IInv => TypeOK
  BY DEF IInv
<1> QED
  BY <1>1, Inductive, PTL

(* No target runs with the driver's end of either socket pair or with the   *)
(* pidfd: fork copies them into the child, and the close of comm_fds[0] and *)
(* the close-on-exec flags between them take every copy away.               *)
THEOREM DriverEndsPrivate == Spec => []ParentEndsStayPrivate
<1>1. IInv => ParentEndsStayPrivate
  BY DEF IInv, Tables, ChildTable, ChildRow, ParentEndsStayPrivate, Holds
<1> QED
  BY <1>1, Inductive, PTL

(* A running target has its end of its channel at parent_comm_fd, and only  *)
(* there, for every layout of the descriptors osprey was started with.      *)
THEOREM ChannelInPlace == Spec => []ChannelInstalled
<1>1. IInv => ChannelInstalled
  BY DEF IInv, Tables, ChildTable, ChildRow, ChannelInstalled
<1> QED
  BY <1>1, Inductive, PTL

(* The descriptors osprey was started with reach every target as they were. *)
THEOREM CallersDescriptorsKept == Spec => []InheritedUntouched
<1>1. IInv => InheritedUntouched
  BY DEF IInv, Tables, InheritedTable, InheritedUntouched, Live
<1> QED
  BY <1>1, Inductive, PTL

(* The children are told to share memory exactly when both are launched,    *)
(* for every command line.                                                  *)
THEOREM SharedMemoryAgreed == Spec => []SharedMemoryHasTwoSides
<1>1. IInv => SharedMemoryHasTwoSides
  BY DEF IInv, Told
<1> QED
  BY <1>1, Inductive, PTL

(* A programmed child that watches never runs beside a speculative one.     *)
THEOREM WatchingIsAlone == Spec => []WatchNeverFollowsTrace
<1>1. IInv => WatchNeverFollowsTrace
  BY DEF IInv, Told
<1> QED
  BY <1>1, Inductive, PTL

-------------------------------------------------------------------------------
(* Refinement.                                                              *)

LEMMA AbstractInitially == Init => Abstract!Init
  BY Names DEF Init, Abstract!Init, ChildState, Live, Asked, RequestedPasses, Accepted,
               Abstract!Passes, Passes

LEMMA AbstractStep == IInv /\ [Next]_vars => [Abstract!Next]_Abstract!vars
<1> SUFFICES ASSUME IInv, [Next]_vars PROVE [Abstract!Next]_Abstract!vars
  OBVIOUS
<1> DEFINE child == [p \in Passes |-> ChildState(p)]
           outcome == IF exitCode = "none" THEN "running" ELSE exitCode
<1>1. /\ RequestedPasses(argv)' = RequestedPasses(argv) /\ Accepted(argv)' = Accepted(argv)
      /\ argv' = argv
  BY GivenNeverChanges DEF given
<1>2. TypeOK /\ Flow
  BY DEF IInv
<1>3. outcome = "running" <=> pc["osprey"] # "exited"
  BY <1>2 DEF Flow, TypeOK
<1>4. ASSUME NEW code \in {"success", "failure"}, DriverExits(code), pc["osprey"] # "exited",
             code = "success" =>
               Accepted(argv) /\ \A p \in RequestedPasses(argv) : pc[p] = "reaped"
      PROVE  Abstract!Next
  <2>1. child' = child /\ outcome = "running" /\ outcome' = code
    BY <1>3, <1>4, <1>2, Names DEF DriverExits, ChildState, TypeOK
  <2>2. CASE code = "failure"
    BY <1>1, <2>1, <2>2 DEF Abstract!Next, Abstract!Fail
  <2>3. CASE code = "success"
    <3>1. \A p \in RequestedPasses(argv) : child[p] = "reaped"
      BY <1>4, <2>3 DEF ChildState, Live, RequestedPasses, Passes
    <3> QED
      BY <1>1, <1>4, <2>1, <2>3, <3>1 DEF Abstract!Next, Abstract!Succeed
  <2> QED
    BY <2>2, <2>3
<1>5. ASSUME UNCHANGED <<exitCode>>, \A p \in Passes : pc'[p] = pc[p]
      PROVE  UNCHANGED Abstract!vars
  BY <1>1, <1>5 DEF Abstract!vars, ChildState
<1>6. CASE Main
  <2>1. CASE Accepted(argv) /\ ~Given(OspreyPart(argv), "cleanup-only")
    BY <1>2, <1>5, <1>6, <2>1, Names DEF Main, DriverGoes, Config, TypeOK
  <2>2. CASE ~Accepted(argv)
    BY <1>4, <1>6, <2>2 DEF Main
  <2>3. CASE Accepted(argv) /\ Given(OspreyPart(argv), "cleanup-only")
    <3>1. RequestedPasses(argv) = {}
      BY <2>3 DEF RequestedPasses
    <3> QED
      BY <1>4, <1>6, <2>3, <3>1 DEF Main, Config
  <2> QED
    BY <2>1, <2>2, <2>3
<1>7. CASE OpenPair \/ AdoptSpeculative \/ AdoptProgrammed \/ Handover
  BY <1>2, <1>5, <1>7, Names
  DEF OpenPair, AdoptSpeculative, AdoptProgrammed, Handover, DriverGoes, TypeOK
<1>8. CASE LaunchFails \/ Killed
  BY <1>4, <1>8 DEF LaunchFails, Killed
<1>9. CASE Finish
  BY <1>2, <1>4, <1>9 DEF Finish, Flow, Configured, Asked
<1>10. CASE Fork
  <2>1. /\ pc["osprey"] = "fork" /\ exitCode' = exitCode
        /\ launching \in RequestedPasses(argv) /\ launching \in Passes
        /\ pc[launching] = "idle" /\ pc'[launching] = "prepare"
        /\ \A p \in Passes : p # launching => pc'[p] = pc[p]
        /\ launching = "prog" /\ "spec" \in RequestedPasses(argv) => pc["spec"] # "idle"
    BY <1>2, <1>10, Names DEF Fork, Flow, TypeOK, Asked
  <2>2. /\ child[launching] = "idle"
        /\ child' = [child EXCEPT ![launching] = "live"]
    BY <2>1 DEF ChildState, Live
  <2>3. launching = "prog" /\ "spec" \in RequestedPasses(argv) => child["spec"] # "idle"
    BY <2>1, Names DEF ChildState
  <2>4. outcome = "running" /\ outcome' = outcome
    BY <1>3, <2>1
  <2>5. Abstract!Launch(launching)
    BY <1>1, <2>1, <2>2, <2>3, <2>4 DEF Abstract!Launch
  <2> QED
    BY <2>1, <2>5 DEF Abstract!Next, Abstract!Passes, Passes
<1>11. ASSUME NEW p \in Passes, NEW place, NEW after, Wait(p, place, after), place # "exited"
       PROVE  Abstract!Next
  <2>1. CASE DriverExits("failure")
    BY <1>4, <1>11, <2>1 DEF Wait
  <2>2. CASE /\ pc[p] = "zombie"
             /\ pc' = [pc EXCEPT ![p] = "reaped", !["osprey"] = after]
             /\ UNCHANGED <<fds, exitCode>>
    <3>1. /\ pc["osprey"] = place /\ exitCode' = exitCode /\ pc'[p] = "reaped"
          /\ \A q \in Passes : q # p => pc'[q] = pc[q]
      BY <1>2, <1>11, <2>2, Names DEF Wait, TypeOK
    <3>2. child[p] = "dead" /\ child' = [child EXCEPT ![p] = "reaped"]
      BY <2>2, <3>1 DEF ChildState, Live
    <3>3. outcome = "running" /\ outcome' = outcome
      BY <1>3, <1>11, <3>1
    <3>4. Abstract!Reap(p)
      BY <1>1, <3>2, <3>3 DEF Abstract!Reap
    <3> QED
      BY <3>4 DEF Abstract!Next, Abstract!Passes, Passes
  <2> QED
    BY <1>11, <2>1, <2>2 DEF Wait
<1>12. CASE WaitProgrammed \/ WaitSpeculative
  BY <1>11, <1>12, Names DEF WaitProgrammed, WaitSpeculative
<1>13. ASSUME NEW p \in Passes, PrepareChild(p) \/ Exec(p)
       PROVE  UNCHANGED Abstract!vars
  <2>1. /\ pc[p] \in Live /\ pc'[p] \in Live /\ exitCode' = exitCode
        /\ \A q \in Passes : q # p => pc'[q] = pc[q]
    BY <1>2, <1>13, Names DEF PrepareChild, Exec, Live, TypeOK
  <2>2. child' = child
    BY <2>1 DEF ChildState
  <2> QED
    BY <1>1, <2>1, <2>2 DEF Abstract!vars
<1>14. ASSUME NEW p \in Passes, Die(p)
       PROVE  Abstract!Next
  <2>1. /\ pc[p] \in Live /\ pc'[p] \in {"zombie", "vanished"} /\ exitCode' = exitCode
        /\ \A q \in Passes : q # p => pc'[q] = pc[q]
    BY <1>2, <1>14, Names DEF Die, TypeOK
  <2>2. child[p] = "live" /\ child' = [child EXCEPT ![p] = "dead"]
    BY <2>1 DEF ChildState, Live
  <2>3. Abstract!Die(p)
    BY <1>1, <2>1, <2>2 DEF Abstract!Die
  <2> QED
    BY <2>3 DEF Abstract!Next, Abstract!Passes, Passes
<1>15. CASE UNCHANGED vars
  BY <1>15 DEF vars, Abstract!vars, ChildState
<1> QED
  BY <1>6, <1>7, <1>8, <1>9, <1>10, <1>12, <1>13, <1>14, <1>15 DEF Next, Driver, Child

(* The driver implements the abstract supervisor for every command line and *)
(* every set of descriptors: each requested pass is launched at most once   *)
(* and in order, and success means that all of them have been reaped.       *)
THEOREM Refinement == Spec => ImplementsTwoPass
<1>1. Init => Abstract!Init
  BY AbstractInitially
<1>2. IInv /\ [Next]_vars => [Abstract!Next]_Abstract!vars
  BY AbstractStep
<1> QED
  BY <1>1, <1>2, Inductive, PTL DEF Spec, ImplementsTwoPass, Abstract!Spec
===============================================================================
