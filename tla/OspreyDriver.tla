----------------------------- MODULE OspreyDriver -----------------------------
(***************************************************************************)
(* The osprey driver as a process supervisor (tools/osprey.cpp): main,     *)
(* speculative_only, programmed_only, speculative_and_programmed and the   *)
(* two launch functions, with what each process has in its descriptor      *)
(* table and what the kernel does with it at fork, exec and exit.          *)
(*                                                                         *)
(* A descriptor table belongs to one process and only fork reads another's *)
(* (the child copies the driver's), so the straight-line code between two  *)
(* of fork, exec, close-after-launch, wait and exit is one step.           *)
(*                                                                         *)
(* External: the target program (it runs, may print its timing block, and  *)
(* dies), the overlay library, and osprey::lib::parent_comm_fd, which is   *)
(* declared in a submodule and is the constant ParentCommFd here.          *)
(***************************************************************************)
EXTENDS OspreyArgs

CONSTANTS FdNums,         \* the descriptors above stderr a process may have
          ParentCommFd,   \* where a child expects its end of the socket pair
          CommandLines,   \* the command lines tried
          InheritedSets   \* the sets of descriptors osprey may be started with

ASSUME FdAssumption ==
  /\ FdNums \subseteq Nat
  /\ ParentCommFd \in FdNums
  /\ InheritedSets \subseteq SUBSET FdNums

ASSUME CommandLineAssumption ==
  CommandLines \subseteq Seq([name : STRING, value : STRING])

VARIABLES
  argv,        \* osprey's arguments; never changes
  inherited,   \* descriptors osprey was started with; never changes
  noZombies,   \* osprey was started with SIGCHLD ignored; never changes
  config,      \* OspreyConfig
  pc,          \* where the driver and each child are
  launching,   \* the pass whose launch function the driver is in, or was last
  comm,        \* comm_fds of each launch: parent is comm_fds[0], child [1]
  fds,         \* each process's descriptor table
  env,         \* the OSPREY_ variables of each child
  view,        \* the file system each target runs against
  reports,     \* the timing blocks on the shared stdout, by pass
  exitCode     \* how the driver ended

vars == <<argv, inherited, noZombies, config, pc, launching, comm, fds, env,
          view, reports, exitCode>>
given == <<argv, inherited, noZombies>>

Passes == {"spec", "prog"}
Procs == Passes \cup {"osprey"}

DriverPcs == {"main", "socketpair", "fork", "adopt", "handover",
              "waitProg", "waitSpec", "cleanup", "exited"}
ChildPcs == {"idle", "prepare", "exec", "running", "zombie", "vanished", "reaped"}
Live == {"prepare", "exec", "running"}

(* What a descriptor can refer to: the two ends of a pass's socket pair,    *)
(* the pidfd of the programmed child, something osprey was started with, or *)
(* nothing.                                                                 *)
DriverEnd(p) == <<p, "comm_fds[0]">>
ChildEnd(p) == <<p, "comm_fds[1]">>
PidFd == <<"prog", "pidfd">>
Callers == <<"caller", "inherited">>
NoFile == <<"none", "none">>

Files == {DriverEnd(p) : p \in Passes} \cup {ChildEnd(p) : p \in Passes}
           \cup {PidFd, Callers, NoFile}
Slots == [file : Files, cloexec : BOOLEAN]
Slot(file, cloexec) == [file |-> file, cloexec |-> cloexec]
Closed == Slot(NoFile, FALSE)
AllClosed == [f \in FdNums |-> Closed]

Unset == [mode |-> "none", shm |-> FALSE, algorithm |-> "none"]

Holds(proc, file) == \E f \in FdNums : fds[proc][f].file = file

-------------------------------------------------------------------------------
Init ==
  /\ argv \in CommandLines
  /\ inherited \in InheritedSets
  /\ noZombies \in BOOLEAN
  /\ config = Config(<<>>, FALSE)
  /\ pc = [p \in Procs |-> IF p = "osprey" THEN "main" ELSE "idle"]
  /\ launching = "spec"
  /\ comm = [p \in Passes |-> [parent |-> ParentCommFd, child |-> ParentCommFd]]
  /\ fds = [p \in Procs |->
              [f \in FdNums |->
                 IF p = "osprey" /\ f \in inherited
                 THEN Slot(Callers, FALSE) ELSE Closed]]
  /\ env = [p \in Passes |-> Unset]
  /\ view = [p \in Passes |-> "real"]
  /\ reports = <<>>
  /\ exitCode = "none"

(* exit closes every descriptor of the process.                             *)
DriverExits(code) ==
  /\ pc' = [pc EXCEPT !["osprey"] = "exited"]
  /\ fds' = [fds EXCEPT !["osprey"] = AllClosed]
  /\ exitCode' = code

DriverGoes(place) ==
  /\ pc' = [pc EXCEPT !["osprey"] = place]
  /\ UNCHANGED exitCode

-------------------------------------------------------------------------------
(* main: split the arguments, parse, and dispatch on the mode.              *)

Main ==
  /\ pc["osprey"] = "main"
  /\ IF Accepted(argv)
     THEN \E fromParent \in BOOLEAN :
            config' = Config(OspreyPart(argv), fromParent)
     ELSE UNCHANGED config
  /\ IF ~Accepted(argv)
     THEN DriverExits("failure") /\ UNCHANGED launching
     ELSE IF config'.cleanupOverlays
     THEN DriverExits("success") /\ UNCHANGED launching
     ELSE /\ DriverGoes("socketpair")
          /\ launching' = (IF config'.programmedOnly THEN "prog" ELSE "spec")
          /\ UNCHANGED fds
  /\ UNCHANGED <<given, comm, env, view, reports>>

-------------------------------------------------------------------------------
(* launch_speculative_process and launch_programmed_process, the driver's   *)
(* side.                                                                    *)

FreeFds == {f \in FdNums : fds["osprey"][f] = Closed}
LowestOf(f, S) == f \in S /\ \A g \in S : f <= g

OpenPair ==
  /\ pc["osprey"] = "socketpair"
  /\ \E r, w \in FdNums :
       /\ LowestOf(r, FreeFds)
       /\ LowestOf(w, FreeFds \ {r})
       /\ comm' = [comm EXCEPT ![launching] = [parent |-> r, child |-> w]]
       /\ fds' = [fds EXCEPT !["osprey"] =
            [@ EXCEPT ![r] = Slot(DriverEnd(launching), FALSE),
                      ![w] = Slot(ChildEnd(launching), FALSE)]]
  /\ DriverGoes("fork")
  /\ UNCHANGED <<given, config, launching, env, view, reports>>

Fork ==
  /\ pc["osprey"] = "fork"
  /\ pc' = [pc EXCEPT !["osprey"] = "adopt", ![launching] = "prepare"]
  /\ fds' = [fds EXCEPT ![launching] = fds["osprey"]]
  /\ UNCHANGED <<given, config, launching, comm, env, view, reports, exitCode>>

(* socketpair, fork, or (after the fork) pidfd_open fails: the driver exits *)
(* and whatever it launched stays.                                          *)
LaunchFails ==
  /\ \/ pc["osprey"] \in {"socketpair", "fork"}
     \/ pc["osprey"] = "adopt" /\ launching = "prog"
  /\ DriverExits("failure")
  /\ UNCHANGED <<given, config, launching, comm, env, view, reports>>

(* A slip for the mutation checks: the end is not marked.                   *)
AdoptUnmarked ==
  /\ pc["osprey"] = "adopt" /\ launching = "spec"
  /\ DriverGoes(IF config.speculativeOnly THEN "waitSpec" ELSE "socketpair")
  /\ launching' = (IF config.speculativeOnly THEN "spec" ELSE "prog")
  /\ UNCHANGED <<given, config, comm, fds, env, view, reports>>

(* The speculative launch marks its end close-on-exec; comm_fds[1] stays    *)
(* open.  In the two-pass mode the driver sleeps and launches the second.   *)
AdoptSpeculative ==
  /\ pc["osprey"] = "adopt" /\ launching = "spec"
  /\ fds' = [fds EXCEPT !["osprey"][comm["spec"].parent] = Slot(DriverEnd("spec"), TRUE)]
  /\ DriverGoes(IF config.speculativeOnly THEN "waitSpec" ELSE "socketpair")
  /\ launching' = (IF config.speculativeOnly THEN "spec" ELSE "prog")
  /\ UNCHANGED <<given, config, comm, env, view, reports>>

(* The programmed launch closes comm_fds[1], opens a pidfd, which is        *)
(* close-on-exec and needs the child to exist, and marks its end.           *)
AdoptProgrammed ==
  /\ pc["osprey"] = "adopt" /\ launching = "prog"
  /\ pc["prog"] # "vanished"
  /\ \E f \in FdNums :
       /\ LowestOf(f, FreeFds \cup {comm["prog"].child})
       /\ fds' = [fds EXCEPT !["osprey"] =
            [@ EXCEPT ![comm["prog"].child] = Closed,
                      ![f] = Slot(PidFd, TRUE),
                      ![comm["prog"].parent] = Slot(DriverEnd("prog"), TRUE)]]
  /\ DriverGoes(IF config.programmedOnly THEN "waitProg" ELSE "handover")
  /\ UNCHANGED <<given, config, launching, comm, env, view, reports>>

-------------------------------------------------------------------------------
(* The rest of the three modes.                                             *)

(* A slip: the end is kept.                                                 *)
HandoverKeepsEnd ==
  /\ pc["osprey"] = "handover"
  /\ DriverGoes("waitProg")
  /\ UNCHANGED <<given, config, launching, comm, fds, env, view, reports>>

(* No more communication with the speculative child is necessary.           *)
Handover ==
  /\ pc["osprey"] = "handover"
  /\ fds' = [fds EXCEPT !["osprey"][comm["spec"].parent] = Closed]
  /\ DriverGoes("waitProg")
  /\ UNCHANGED <<given, config, launching, comm, env, view, reports>>

(* waitpid: reaps a zombie; fails with ECHILD once a child whose death      *)
(* leaves no zombie is gone, and the driver returns at once.                *)
Wait(p, place, after) ==
  /\ pc["osprey"] = place
  /\ \/ /\ pc[p] = "zombie"
        /\ pc' = [pc EXCEPT ![p] = "reaped", !["osprey"] = after]
        /\ UNCHANGED <<fds, exitCode>>
     \/ /\ pc[p] = "vanished"
        /\ DriverExits("failure")
  /\ UNCHANGED <<given, config, launching, comm, env, view, reports>>

(* Slips: the second wait of the two-pass mode also, or not at all.         *)
WaitsForBothAlways == Wait("prog", "waitProg", "waitSpec")
WaitsForProgrammedOnly == Wait("prog", "waitProg", "cleanup")

WaitProgrammed ==
  Wait("prog", "waitProg", IF config.programmedOnly THEN "cleanup" ELSE "waitSpec")
WaitSpeculative == Wait("spec", "waitSpec", "cleanup")

(* cleanup_overlay, when there is an overlay, and return EXIT_SUCCESS.      *)
Finish ==
  /\ pc["osprey"] = "cleanup"
  /\ DriverExits("success")
  /\ UNCHANGED <<given, config, launching, comm, env, view, reports>>

(* A signal may end the driver anywhere; its children live on.              *)
Killed ==
  /\ pc["osprey"] # "exited"
  /\ DriverExits("failure")
  /\ UNCHANGED <<given, config, launching, comm, env, view, reports>>

-------------------------------------------------------------------------------
(* The forked child, up to exec.                                            *)

(* A slip: every child is told to share memory.                             *)
EnvironmentAlwaysShared(p) ==
  [mode |-> IF p = "spec" THEN "SPECULATIVE" ELSE "PROGRAMMED", shm |-> TRUE,
   algorithm |-> IF p = "spec" THEN config.tracingAlgorithm
                 ELSE config.programmingAlgorithm]

Environment(p) ==
  IF p = "spec"
  THEN [mode |-> "SPECULATIVE", shm |-> ~config.speculativeOnly,
        algorithm |-> config.tracingAlgorithm]
  ELSE [mode |-> "PROGRAMMED", shm |-> ~config.programmedOnly,
        algorithm |-> IF config.programFromParent THEN "PARENT"
                      ELSE config.programmingAlgorithm]

(* Slips: parent_comm_fd is not checked; comm_fds[1] is not closed.         *)
PrepareUnchecked(p) ==
  /\ pc[p] = "prepare"
  /\ pc' = [pc EXCEPT ![p] = "exec"]
  /\ env' = [env EXCEPT ![p] = Environment(p)]
  /\ fds' = [fds EXCEPT ![p] =
       [@ EXCEPT ![ParentCommFd] = Slot(ChildEnd(p), FALSE),
                 ![comm[p].parent] = Closed,
                 ![comm[p].child] = Closed]]
  /\ UNCHANGED <<given, config, launching, comm, view, reports, exitCode>>
PrepareKeepsChildEnd(p) ==
  /\ pc[p] = "prepare"
  /\ fds[p][ParentCommFd] = Closed
  /\ pc' = [pc EXCEPT ![p] = "exec"]
  /\ env' = [env EXCEPT ![p] = Environment(p)]
  /\ fds' = [fds EXCEPT ![p] =
       [@ EXCEPT ![ParentCommFd] = Slot(ChildEnd(p), FALSE), ![comm[p].parent] = Closed]]
  /\ UNCHANGED <<given, config, launching, comm, view, reports, exitCode>>

(* setenv, the check that parent_comm_fd is free, dup2, the two closes and  *)
(* the overlay mount.                                                       *)
PrepareChild(p) ==
  /\ pc[p] = "prepare"
  /\ fds[p][ParentCommFd] = Closed
  /\ pc' = [pc EXCEPT ![p] = "exec"]
  /\ env' = [env EXCEPT ![p] = Environment(p)]
  /\ fds' = [fds EXCEPT ![p] =
       [@ EXCEPT ![ParentCommFd] = Slot(ChildEnd(p), FALSE),
                 ![comm[p].parent] = Closed,
                 ![comm[p].child] = Closed]]
  /\ view' = [view EXCEPT ![p] =
       IF p = "spec" /\ ~config.noOverlay THEN "overlay" ELSE "real"]
  /\ UNCHANGED <<given, config, launching, comm, reports, exitCode>>

(* execvp keeps every descriptor that is not close-on-exec.                 *)
Exec(p) ==
  /\ pc[p] = "exec"
  /\ pc' = [pc EXCEPT ![p] = "running"]
  /\ fds' = [fds EXCEPT ![p] =
       [f \in FdNums |-> IF @[f].cloexec THEN Closed ELSE @[f]]]
  /\ UNCHANGED <<given, config, launching, comm, env, view, reports, exitCode>>

(* Any death of a child: std::exit after a failed call or a descriptor      *)
(* conflict, the target's own exit, a signal.  A target that got as far may *)
(* have printed its timing block.                                           *)
Die(p) ==
  /\ pc[p] \in Live
  /\ pc' = [pc EXCEPT ![p] = IF noZombies THEN "vanished" ELSE "zombie"]
  /\ fds' = [fds EXCEPT ![p] = AllClosed]
  /\ \/ UNCHANGED reports
     \/ pc[p] = "running" /\ reports' = Append(reports, p)
  /\ UNCHANGED <<given, config, launching, comm, env, view, exitCode>>

-------------------------------------------------------------------------------
Driver == \/ Main \/ OpenPair \/ Fork \/ LaunchFails
          \/ AdoptSpeculative \/ AdoptProgrammed
          \/ Handover \/ WaitProgrammed \/ WaitSpeculative \/ Finish

Child(p) == PrepareChild(p) \/ Exec(p) \/ Die(p)

Next == Driver \/ Killed \/ \E p \in Passes : Child(p)

(* The kernel schedules every process that can run, so a child gets to its  *)
(* target or dies on the way.  A target may run for ever.                   *)
BeforeTarget(p) == PrepareChild(p) \/ Exec(p) \/ (pc[p] # "running" /\ Die(p))

Fairness == WF_vars(Driver) /\ \A p \in Passes : WF_vars(BeforeTarget(p))

Spec == Init /\ [][Next]_vars /\ Fairness

-------------------------------------------------------------------------------
(* Properties.                                                              *)

Configs == [speculativeOnly : BOOLEAN, programmedOnly : BOOLEAN,
            cleanupOverlays : BOOLEAN, noOverlay : {TRUE},
            tracingAlgorithm : {"MICROSET", "FIFO"},
            programmingAlgorithm : {"3PO"} \cup Watching,
            programFromParent : BOOLEAN]
Algorithms == {"MICROSET", "FIFO", "3PO", "PARENT"} \cup Watching
Environments ==
  [mode : {"none", "SPECULATIVE", "PROGRAMMED"}, shm : BOOLEAN,
   algorithm : {"none"} \cup Algorithms]

(* Every variable stays in its range.                                       *)
TypeOK ==
  /\ argv \in CommandLines /\ inherited \in InheritedSets /\ noZombies \in BOOLEAN
  /\ config \in Configs
  /\ pc \in [Procs -> DriverPcs \cup ChildPcs]
  /\ pc["osprey"] \in DriverPcs /\ \A p \in Passes : pc[p] \in ChildPcs
  /\ launching \in Passes
  /\ comm \in [Passes -> [parent : FdNums, child : FdNums]]
  /\ fds \in [Procs -> [FdNums -> Slots]]
  /\ env \in [Passes -> Environments]
  /\ view \in [Passes -> {"real", "overlay"}]
  /\ reports \in Seq(Passes)
  /\ exitCode \in {"none", "success", "failure"}

DriversOwn == {DriverEnd(p) : p \in Passes} \cup {PidFd}

(* A target never runs with the driver's end of a channel or with its       *)
(* pidfd: neither its own, inherited over fork, nor the other pass's, which *)
(* only close-on-exec takes away (:148, :175-182, :296, :330).              *)
ParentEndsStayPrivate ==
  \A p \in Passes : pc[p] = "running" =>
    \A file \in DriversOwn : ~Holds(p, file)

(* A running target finds the child's end of its own channel at             *)
(* parent_comm_fd, open across its execs, and at no other number            *)
(* (:138-155, :286-303).                                                    *)
Installed(p) ==
  /\ fds[p][ParentCommFd] = Slot(ChildEnd(p), FALSE)
  /\ \A f \in FdNums : fds[p][f].file = ChildEnd(p) => f = ParentCommFd

ChannelInstalled == \A p \in Passes : pc[p] = "running" => Installed(p)

(* Whatever descriptors osprey was started with reach the target at their   *)
(* own numbers: neither the socket pairs nor the dup2 over parent_comm_fd   *)
(* take one away.                                                           *)
InheritedUntouched ==
  \A p \in Passes : pc[p] = "running" =>
    \A f \in inherited : fds[p][f] = Slot(Callers, FALSE)

(* The two halves of a run agree on the shared memory between them: a child *)
(* that is told to use it is one of two that both are, and a target of a    *)
(* single-pass run is not waiting for a partner that never comes (:120,     *)
(* :238, :542-548).                                                         *)
SharedMemoryHasTwoSides ==
  \A p \in Passes : pc[p] \in {"exec", "running"} =>
    (env[p].shm <=> RequestedPasses(argv) = Passes)

(* WATCH_ONLY and WATCH_DEBUG programme without a trace: no programmed      *)
(* child is told to watch in a run that has launched a speculative one      *)
(* (:464-468).                                                              *)
WatchNeverFollowsTrace ==
  env["prog"].algorithm \in Watching => pc["spec"] = "idle"

(* Once the driver has handed over (:370), or has ended in whatever way,    *)
(* the speculative process's channel hangs up, also while targets run on    *)
(* for ever: eventually no process has the other end, whoever was forked in *)
(* between.                                                                 *)
LetGo == \/ pc["osprey"] = "exited"
         \/ pc["osprey"] \in {"waitProg", "waitSpec", "cleanup"}
            /\ RequestedPasses(argv) = Passes
ChannelHangsUp ==
  LetGo ~> \A proc \in Procs : ~Holds(proc, DriverEnd("spec"))

(* If no target runs for ever then the driver ends, and a driver that ends  *)
(* well leaves no child behind: neither waitpid is waited in for ever, in   *)
(* whichever order the children die.                                        *)
TargetsEnd == \A p \in Passes : []<>(pc[p] # "running")
DriverTerminates ==
  TargetsEnd =>
    <>(/\ pc["osprey"] = "exited"
       /\ exitCode = "success" => \A p \in Passes : pc[p] \in {"idle", "reaped"})

-------------------------------------------------------------------------------
(* The driver implements TwoPass.                                           *)

ChildState(p) ==
  IF pc[p] \in Live THEN "live"
  ELSE IF pc[p] \in {"zombie", "vanished"} THEN "dead"
  ELSE pc[p]

Abstract == INSTANCE TwoPass WITH
  requested <- RequestedPasses(argv),
  valid     <- Accepted(argv),
  child     <- [p \in Passes |-> ChildState(p)],
  outcome   <- IF exitCode = "none" THEN "running" ELSE exitCode

(* Every behaviour of the driver is one of the abstract supervisor: each    *)
(* requested pass launched once and in order, success only after all of     *)
(* them have been reaped (:189-215, :340-391).                              *)
ImplementsTwoPass == Abstract!Spec

-------------------------------------------------------------------------------
(* What the repository says of the driver and the runs refute.              *)

(* :175-178 and :326-329: "Ensure that any file descriptors we've opened    *)
(* aren't unwittingly passed to another process."  The only descriptor a    *)
(* target should get from the driver is its own end.                        *)
NoDescriptorUnwittinglyPassed ==
  \A p \in Passes : pc[p] = "running" =>
    \A f \in FdNums :
      fds[p][f].file \in {ChildEnd(p), Callers, NoFile}

(* :470: "must be 3PO (or a special debug value)": the programmed process   *)
(* is told the algorithm that was validated.                                *)
AlgorithmAsValidated ==
  pc["prog"] = "running" => env["prog"].algorithm = config.programmingAlgorithm

(* README.md:158: both passes emit the same timing block, and "the second   *)
(* occurrence is the meaningful one", the programmed pass's.                *)
SecondReportIsProgrammed == Len(reports) = 2 => reports[2] = "prog"
===============================================================================
