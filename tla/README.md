# A TLA+ verification of the Osprey tools

This directory holds TLA+ models of the programs in this repository, the TLC
configurations that check them, and proofs checked by TLAPS. Every definition is
a translation of code under `src/`; `PROJECT.json` names the lines each one
stands for, the properties each run checks, and for each property one plausible
bug in the code that the property catches.

Paths below are relative to `src/`, and a bare `:123` is a line of the file the
section is about.

## 1. The system

Osprey runs a memory-hungry program twice: a *speculative* pass that traces its
page accesses, and a *programmed* pass that is prefetched along that trace. The
tracer, the planner and the kernel are in submodules whose directories are empty
here. The repository's own code is:

| Component | State it keeps | Operations | Talks to |
| --- | --- | --- | --- |
| **osprey driver** `tools/osprey.cpp` | configuration, descriptor table, two child pids | parse the command line, launch speculative, launch programmed, reap | forks and execs the target twice; one socket pair per child; environment variables; shared memory between the children |
| **pckks** `tools/pckks_utils.cpp` | input, split among threads, three arrays of atomic flags, `calculate_start`, one partial output per thread | divide, encrypt, format, calculate, decrypt, aggregate | one detached thread per part, all over main's locals; `clear_stats()` of the osprey library |
| **ckks_utils** `tools/ckks_utils.cpp` | as pckks, without threads | encrypt, calculate (in rounds), decrypt | one input and one output file |
| **example_input** `tools/example_input.cpp` | three file writers per worker | distribute records; check a join | files read by all the others, and the outputs of mage's workers |
| **planner, mage** `tools/planner.cpp`, `tools/mage.cpp` | arguments | check arguments, call the mage library | mage submodule |
| **aliased** `aliased/aliased.c` | one page per open file; module reference count | init, open, mmap, fault, release, exit | the kernel's memory management |
| **scripts** `scripts/*.sh` | background jobs, a cgroup, log and output files | generate input, run, monitor, clean up | every tool, a second host |
| **grublist** `grublist/*.py` | the tree of boot entries, the cursor's path | load, move, choose | `grub-reboot` |

### What is hard, and what makes each component correct

* **Driver.** Two forks from a process that holds two socket pairs and a pidfd:
  who inherits what depends on the order of fork, close, `dup2` and
  close-on-exec in three processes. A number (`parent_comm_fd`) is fixed in
  advance and may be taken. The children die in any order, or the driver does
  first. Correct means: each requested pass is launched once and in order,
  success is reported only after both are reaped; each target has exactly its
  own end of its own channel; nothing of the driver's leaks; the caller's
  descriptors survive; the two passes agree on shared memory; the speculative
  child sees its peer hang up.
* **pckks.** Three phases synchronised by polling flags that are looked at one
  after the other; detached threads that use main's locals until main returns;
  statistics that have to be reset while nobody calculates; a division of the
  work that rounds up, in unsigned arithmetic. Correct means: the polling is a
  barrier; aggregate sees every part, whole; nothing touches main's locals
  afterwards; the answer does not depend on the number of threads; main ends.
* **aliased.** Page and module references over open, fork, mmap, fault, unmap and
  release; rollback of a failed init. Correct means: the page lives as long as
  any file or mapping, and is freed exactly once.
* **ckks_utils.** The same answers as pckks from the same input, and the ones
  example_input expected.
* **example_input.** Each record goes to exactly one worker and to one that
  exists, however the division comes out; the expected files are the answer to the
  inputs; a run that is turned away leaves nothing that looks like an input; the
  check tells right from wrong.
* **scripts.** The exit code of no program is looked at, and the files of the run before
  are there: the generator may leave an old input or part of one, osprey may start one
  pass, two or none, two passes write one file at the same time, each after emptying it,
  and any of them may be killed between two numbers. Correct means: no number that is
  shown is wrong, whoever wrote it; a run in which nothing fails shows all of its own
  output; a monitor is never found on a process of an earlier run; the script ends.
* **grublist.** The cursor is always on an entry that exists.

`PROJECT.json` lists the hazards one by one, at the line where each bites.

## 2. Modules

```
TwoPass      <==refines==  OspreyDriver --extends--> OspreyArgs
                                ^  ^
                  MCOspreyDriver    OspreyDriverProofs

PhaseBarrier <==refines==  PckksMain --extends--> PckksProblems <-- PckksProblemsProofs
                                ^  ^                     ^                 |
                    MCPckksMain     PckksMainProofs      | instantiates    v
                                                         |            SequenceFacts
                                                         |                 ^
            CkksExperiment --extends--> CkksUtils, MageTools,              |
                 ^  ^                   ExampleProblems <-- ExampleProblemsProofs
 MCCkksExperiment    CkksExperimentProofs     ^ extends                    ^
                                              |                            |
                                         ExampleInput <--------- ExampleInputProofs
                                              ^
                                        MCExampleInput

PagePool     <==refines==  AliasedDevice
                                ^  ^
                 MCAliasedDevice    AliasedDeviceProofs
```

CkksExperimentProofs extends ExampleProblemsProofs and instantiates PckksProblemsProofs.

### OspreyArgs: the command line

An argument is a name and a value. `OspreyPart` is main's search for the first
argument without a dash (:483-501), `ParseErrors` is what Boost throws on,
`ParseOspreyArgs` the checks of `parse_osprey_args` (:393-475), `Config` the
structure it fills in. Two facts of the code are visible in `Config`: `no_overlay`
is always set (:416), and `program_from_parent` (:60) is never written, so its
value is a choice the model makes anew in every run. The first is one assignment that
contradicts what `README.md:9` says of the speculative pass ("runs against a
memory-resident overlay"), so no run repeats it; what it leads to, two passes that write
one output file, is in CkksExperiment. `Accepted` adds the missing
program (:536). Not in the model: abbreviated option names, which Boost accepts
and which behave like the full ones.

### OspreyDriver: the processes

There are three processes, `osprey`, `spec` and `prog`. `pc` says where each one
is, `fds` what each has in its descriptor table and whether it is close-on-exec,
`env` what each child was told, `view` which file system it runs against.
Descriptors are allocated as the kernel does it, the lowest free number first,
which is what makes it possible for a socket pair to land on `parent_comm_fd`.

| Action | Code |
| --- | --- |
| `Main` | argument split, parse, dispatch (:477-549) |
| `OpenPair`, `Fork` | `socketpair`, `fork` of both launches (:100-107 and the same in the second) |
| `PrepareChild(p)` | the child's `setenv`s, the check that `parent_comm_fd` is free, `dup2`, two `close`s, overlay (:108-164, :225-303) |
| `Exec(p)` | `execvp`, which drops what is close-on-exec (:166, :305) |
| `AdoptSpeculative`, `AdoptProgrammed` | the parent's side after the fork (:171-182, :310-333) |
| `LaunchFails` | every `std::exit` of the parent's side |
| `Handover` | `close` of the speculative end (:370) |
| `WaitProgrammed`, `WaitSpeculative` | `waitpid` (:203, :347, :374, :380) |
| `Finish` | return from main |
| `Die(p)` | any death of a child: a failed call before `execvp`, the target's exit, a signal |
| `Killed` | a signal that ends the driver |

The code between two such steps touches only the process's own table, environment
and locals, which no other process reads except through `fork`, so one step per
stretch loses no interleaving. The child's dying in the middle of its preparation
is `Die` before `PrepareChild`: a dead process has no descriptors, so how far it
got cannot be seen.

`TwoPass` is the promise with all of this hidden: four variables, and actions
`Launch`, `Die`, `Reap`, `Succeed`, `Fail`.

### PckksProblems: the workloads

The number at position `x` of the input file stays symbolic. A ciphertext is the
sequence of the terms that were added up in it, each a number or a product of
two; two sums agree on all inputs exactly when they are permutations of each
other. `Divide`, `Format`, `Calculate` and `Aggregate` are the virtual functions
of `Problem` (:22-45), one operator per class below them. `Extent` computes
`end - start` modulo `2^SizeBits`, as `std::size_t` does, and `RunsBackwards` is
when the range constructor of `std::vector` throws. `Reference` says what each
workload promises with no division of the work in sight.

CKKS itself (levels, scales, noise, key generation) is left out: the model says
which numbers are added and multiplied, not how precisely. Products such as
`p * p` are taken to fit `std::size_t`; only the subtraction that really wraps for
ordinary sizes is modelled with its width.

### PckksMain: the threads

Main's locals are the variables; each load and store of a flag is a step, since
`std::atomic<bool>` is used with sequentially consistent order.

| Action | Code |
| --- | --- |
| `Parse` | :735-772; `std::stoull` throws before the problem is looked up |
| `DivideInput` | keys, reading and `divide` (:774-785) |
| `EncryptInput` | the share and every thread's chunk, also chunks `divide` never made (:787-812) |
| `SpawnThread`, `SpawnFails`, `AllSpawned` | the spawning loop (:814-849) |
| `PollFlag`, `PhaseOver`, `Release` | the polling loop; `clear_stats` and `calculate_start` (:851-881). The model is at `pc = "release"` between the moment the Encrypt scan is complete and the store at :879, which is when `clear_stats` runs |
| `AggregateAndWrite` | :887-891; writing may fail, main returns 0 all the same |
| `ReportEncrypted` ... `ReportDecrypted` | the thread's body (:816-847) |
| `RunsOutOfMemory` | `std::bad_alloc` in a detached thread: nothing catches it (in main it is an outcome of `EncryptInput`) |

`encrypt` and `format` and `calculate` are each one step because they read only
what main has finished writing: what the run shows about `AggregateSeesEveryPart`
and `StatsClearedAtRest` is what justifies it. A process ends `returned`,
`crashed` (a signal or an uncaught exception of its own making), `terminated`
(threads or memory ran out) or `undefined` (it read beyond a vector; nothing is
claimed of what follows).

`PhaseBarrier` is the promise of the flags: a coordinator sees a phase of the whole
team end in one step.

### AliasedDevice: the kernel module

Bare lines are of `aliased/aliased.c`. `file[f]` is where one open of the device is
in its life, `count[f]` its page's reference count, `refs` the module's. A mapping
`m` maps the file `vma[m]`, and `pte` is the set of page table entries, in any
process, that hold the page. The driver runs in the context of whoever calls it, so
an operation is cut at every point where another call can come between: after
`alloc_page`, before and after `module_put`.

| Action | Code |
| --- | --- |
| `InitAliased`, `RollBack` | one registration, or one undoing, a step (:80-108) |
| `Unload`, `CleanupAliased` | `rmmod` (external) and the three undoings (:110-116) |
| `OpenBegins(f)` | the kernel has found the driver by its number (external) |
| `AllocPage(f)` | `alloc_page`, which may fail (:42-49) |
| `OpenReturns(f)` | `try_module_get`, whose result nobody looks at (:51-53) |
| `Release(f)`, `ReleaseModule(f)`, `ReleaseReturns(f)` | `put_page`, `module_put`, return (:55-61) |
| `Mmap(f, m)`, `Fault(m, v)` | :36-41 and :22-34 with its `get_page` |
| `Close`, `Fork`, `Zap`, `Munmap` | what the kernel does to files and mappings (external) |

What is external follows from how the driver uses it: a file is released when no
descriptor and no mapping refers to it; a page table entry is a reference to the
page it shows; `struct file_operations` has no owner (:63), so the kernel does not
keep the module for an open file, and only the driver's own `try_module_get` does.
The model keeps to what a kernel guarantees on that basis: once the module's memory
is gone, its code is not called (`Loaded` in the guards), and
`OnlyUncountedStranded` says which files that concerns.

`PagePool` is the promise: a page is allocated to a first user, joined only while it
has one, and freed when, and only when, the last leaves.

### ExampleProblems and ExampleInput: the input generator

Bare lines are of `tools/example_input.cpp`. `Writes` is everything a workload
writes, in order, as `[kind, worker, value]`: who gets it is what `Cyclic`, `Blocked`
and `CellWriter` say of the code's counters and divisions. A value is the tuple of a
record's fields that are not constant. What the random engines draw is an argument
of a command: bytes for a matrix or a vector, bits for hashes and the fully connected
layer, a permutation for a shuffle, as many as the workload has (`DrawnFor`). A writer's file is what it was given one item after another
(`ItemsOf`).

| Action | Code |
| --- | --- |
| `Start` | the arguments (:83-95) |
| `OpenWriters` | three writers per worker, which create or empty their files, unless the option is `check` (:97-111) |
| `Refuse` | the assertions and `std::abort` (:313, :404-409 and the like) |
| `Complain` | an option or a workload it does not know (:363-366, :612-620) |
| `Generate` | everything a workload writes, or undefined behaviour: a writer that was not opened, or a division by a portion of zero rows |
| `Check` | `loop_join` with `check` (:238-308) |
| `Mage` | the output of mage's workers (external): the right join, one with two records swapped, or one replaced, cut evenly or as the expected files are |

Between two actions nobody looks at the files, so `Generate` is one step. There are
two runs in a row on the same files, since a run finds what the one before left.
Left out: numbers `std::stoull` cannot convert and less than one worker, both of which
fail before a file is opened or at once after.

### CkksUtils, MageTools and CkksExperiment: the experiment

`CkksUtils` is `tools/ckks_utils.cpp` from arguments to output, as an operator: the
program is sequential. Here a ciphertext is the number it encrypts. `MageTools` is
what `tools/planner.cpp` makes of its arguments. `CkksExperiment` is the script
`scripts/ckks.sh` (bare lines below) with everything it starts: the input is what
`ExampleProblems` writes, a pass of the workload comes to what `CkksUtils` or
`PckksProblems` says, and osprey is reduced to what its own model shows: passes
that overlap, of which any may never start.

| Action | Code |
| --- | --- |
| `Launch` | the arguments (:25-94); which passes `--tool_args` asks of osprey: both, or one (`tools/osprey.cpp:542-548`) |
| `Generate` | example_input writes its files, or stops at some number, or leaves what there is; its exit code is not looked at (:143) |
| `StartMonitor` | the monitor goes to the background (:147-150) |
| `StartPass`, `GiveUp` | the pipe with the tool (:158): the next pass starts; or cgexec or osprey has ended, before the first pass or between the two |
| `PassOpens(p)`, `PassWrites(p)` | `write_to_file` (`tools/ckks_utils.cpp:61-79`, and the same in pckks): the output is emptied, then a number gets to the disk |
| `PassEnds(p)`, `PassIsLost(p)` | a pass has written everything, or refuses, crashes, is killed, or cannot write any further, at any point; or reads past its input |
| `StartMage`, `EndMage(p)` | planners in the foreground and engines in the background (:191-199) |
| `Show` | the last pass or engine is gone; the output file is read (:200-206) |
| `Look(r)`, `LetGo(r)` | the monitor of run `r` (:101-125), which nobody waits for |
| `CkksByHand`, `PlannerByHand` | ckks_utils and planner with arguments and inputs of all kinds, without the script |

A file is a sequence of numbers, each with the process that wrote it, and the process that
opened it last. `written[part]` is how far a pass has got since it opened the output: a
pass writes its next number at its own place (`Put`), even if the other pass has emptied
the file since, which leaves a `Hole` before it. Numbers reach the disk one at a time:
that allows every way in which the stream's buffer may hand them over, and `close`
ends it. A number never gets there in part: the stream takes numbers whole and its
buffer is a number of them. `unlucky` is a variable the code does not have: it records
that a pass of this run was not started, or ended before it had written all it had to.

A process of one run is told from one of another by the field `run`. The shell's
`ps | grep | sort | tail` picks *some* process whose name contains the target: PIDs
are sorted as text, which says nothing of their age. The numbers a speculative pass
writes are not known (what the osprey library does to it is in a submodule), so they
are all zero in the model and no property looks at them, only at where they are. Of the
files of the generator the model keeps the input: the script only prints the expected
ones, and what should be there is what `Inputs` says. `ckks_utils` on statistics
that add nothing (no round, or size 0) takes a ciphertext from itself: SEAL, unless
built otherwise, refuses a result that hides no number, which is the crash of
`LeavesNothing`.

## 3. Runs

`CHECK_DEADLOCK FALSE` is in every configuration because every one of these programs
ends: the driver, pckks and the script return, the generator has no more runs to make,
the module has been removed.

### `driver` (OspreyDriver.cfg): passes, about 2,500 states

Instance: six descriptors with `parent_comm_fd` in the middle; ten command lines
(each mode, watching where it is and is not allowed, every kind of line that is
turned away); six sets of inherited descriptors, chosen so that `parent_comm_fd` is
free, taken, hit by the socket pair's first or second end, and so that descriptors
run out; SIGCHLD ignored or not. There are at most two children in the code, so
nothing about them is bounded, and six numbers are enough for two pairs, the pidfd
and `parent_comm_fd`.

| Property | What it says | Proved |
| --- | --- | --- |
| `TypeOK` | types; in particular only configurations the parser may produce | yes |
| `ParentEndsStayPrivate` | no running target has a driver's end or the pidfd | yes |
| `ChannelInstalled` | a running target has its own end at `parent_comm_fd`, not close-on-exec, and at no other number | yes |
| `InheritedUntouched` | the descriptors osprey was started with reach the target | yes |
| `SharedMemoryHasTwoSides` | a child is told to share memory exactly when both passes were asked for | yes |
| `WatchNeverFollowsTrace` | no programmed child watches in a run with a speculative one | yes |
| `ChannelHangsUp` | after the hand-over, or the driver's end, nobody holds the driver's end of the speculative channel for ever, even if the targets run for ever | TLC |
| `DriverTerminates` | if the targets end so does the driver, and it leaves no child unreaped if it reports success | TLC |
| `ImplementsTwoPass` | the driver implements `TwoPass` | yes |

Fairness: weak fairness of the driver, and of each child until its target runs. The
kernel schedules runnable processes, and `waitpid` returns once there is something
to reap. Nothing is assumed of a target: it may run for ever, and only
`DriverTerminates` has the premise that it does not. `Killed` is not fair: nobody
has to kill the driver.

### `pckks` (PckksMain.cfg): passes, about 54,000 states

Instance: all six problems, sizes 0 to 4 with 0 to 3 threads on inputs of the right
size; four threads on matrices of up to six rows and five threads on vectors of six
(the smallest cases in which a worker starts beyond the end); inputs that are too
short or missing; every malformed command line; an output that cannot be written. The
tile is 2 instead of 16 and `size_t` 16 bits wide: the code's behaviour depends only
on divisibility by the tile, and the wrapped extents on being far larger than any
input and on their remainder by the size, which is the same modulo 2^16 as modulo 2^64
for every size in the instance. Division behaves the same for larger sizes because it
depends on `p`, `w` and `p % w` alone; the proofs in `PckksProblemsProofs` and
`PckksMainProofs` cover all of them.

| Property | What it says | Proved |
| --- | --- | --- |
| `TypeOK` | types; a thread's data are empty or exactly its chunk's result | yes |
| `AggregateSeesEveryPart` | at aggregation, and at main's return, every worker has left its whole result and is past its last use of main's locals | yes |
| `StatsClearedAtRest` | every worker is parked when `clear_stats` runs | yes |
| `OnlyMisfitsFail` | exactly which commands crash, read beyond a vector, or succeed | yes |
| `OutputIsTheAnswer` | what a successful run writes is the workload's answer, however it was divided | yes |
| `Terminates` | main ends | TLC |
| `ImplementsBarrier` | the polling implements `PhaseBarrier` | yes |

`OnlyMisfitsFail` has one exception the code really makes: with no threads *and* an
input of the wrong size, the mismatch is reported before the division by zero, the
empty team passes all its phases, and main writes an empty answer and returns 0.

Fairness: weak fairness of main and of every thread. Each of them sleeps in its
waiting loop, so the scheduler runs all of them again and again.

### `aliased` (AliasedDevice.cfg): passes, about 13,000 states

Instance: two opens, two mappings of two pages each. Two files are enough for one to
be released while the other keeps the module or loses it; a second mapping is a
fork's child or a second `mmap`, and two pages let one entry go while another stays.
An open that races a removal, and a release that races both, need no more than these.
The proofs cover every number of each.

| Property | What it says | Proved |
| --- | --- | --- |
| `TypeOK` | types; in particular no count goes below zero | yes |
| `CountsAreReal` | a page's count is the number of its references, and the module's that of the files that count in it | yes |
| `OnlyUncountedStranded` | a file that took its reference never outlives a module that was removed | yes |
| `AllOrNothing` | init and cleanup register and undo everything, in an order in which no device is without its number | yes |
| `ImplementsPagePool` | a page is freed exactly when its last reference goes | yes |
| `PageGivenBack` | what nothing refers to is given back, page and module reference | TLC |

`OnlyUncountedStranded` is as strong as the code allows. `try_module_get` can fail
between `Unload` and the moment the number is unregistered, and the open succeeds all
the same; and a release that has done its `module_put` is still in the module's code.

Fairness: weak fairness of an open that has begun and of a release that is due; the
kernel carries both through. Nobody has to close, unmap, or unload.

### `example_input` (ExampleInput.cfg): passes, about 121,000 states

Instance: every workload with sizes 0 to 4 (5 for the retrieval and
7 for a merge), one to five workers, every option, two runs. Five workers
and four items give shares that are even, uneven, and empty; one, two and four workers
the three kinds of grids. The fully connected layer has batches of 2 instead of 256,
bytes are below 3 and integer elements wrap at 5 instead of 2^16, so that all of it happens.

| Property | What it says | Proved |
| --- | --- | --- |
| `TypeOK` | types; a file that is not there holds nothing | yes |
| `UndefinedOnlyWhen` | exactly which commands use a writer that does not exist, or divide by zero | yes |
| `ExpectedIsTheAnswer` | the expected files are the answer to the input files, workload by workload | yes |
| `AnswersAreShared` | no worker has two answers more than another | yes |
| `RefusedAllOrNothing` | a run that was turned away leaves empty files, nothing of an earlier run | yes |
| `CheckIsTrue` | the check passes exactly the joins, evenly divided | yes |
| `OwnAnswerAccepted` | the check accepts the generator's own expected files exactly if the division is even | yes |

`ExpectedIsTheAnswer` does not repeat the generator: it says what a join, a merge or a
product is of whatever lies in the files. No fairness: these are safety properties of
a sequential program.

### `ckks` (CkksExperiment.cfg): passes, about 5.7 million states

Instance: eight workloads of size 2 or less, among them one of size 0, one that pckks
alone knows and one that nobody does; every tool and choice of passes; one to three
threads; a generator that is stopped after 0, 1 or 3 numbers; two runs of the script,
enough for a file, or a monitor, of one to meet the next. Outputs have up to four
numbers, so that two passes can empty and write the file in every order; tiles are 1 wide,
so that a matrix of 2 has more than one. A product's input has up to eight numbers, and the
matrix is not its own transpose.

| Property | What it says | Proved |
| --- | --- | --- |
| `TypeOK` | types; every process that runs is one of the run under way | yes |
| `ShownIsExpected` | every number shown is what example_input expected in its place, whichever utility, run and pass wrote it, and wherever that pass or the generator stopped | yes |
| `FitIsShown` | when a run opens its output at all, and when everything shown is its own | yes |
| `MonitorNeverBehind` | a monitor never watches a process of an earlier run | yes |

What a reader may not rely on is in these properties too, as exceptions the run
confirms. The script looks at no exit code, so a run that failed shows an earlier run's
output, or part of its own. Under osprey the file may have holes or the speculative pass's
numbers among the programmed one's: `FitIsShown` says only that they are of this run, and
`ShownIsExpected` leaves the speculative ones and the holes out. `pckks_utils` multiplies
naively with B by rows. A monitor that never finds a process keeps looking, also into
later runs, and may find one of theirs or the other pass of its own: it is why the
property is "never behind" and not "of its own run".

### `ckks_small` (CkksExperiment_Small.cfg): passes, about 124,000 states

The script again, with one workload that can be served and one that nobody knows, up to
two threads, and fairness. And without the script, ckks_utils by hand: all five workloads,
sizes 0 to 3, with and without a number of rounds, on every input of up to three numbers
out of 0, 1 and 3 and on two longer ones, and arguments that are no numbers or too many.
Tiles are 2 wide, so that a matrix of 3 has more than one, and the last is short.

| Property | What it says | Proved |
| --- | --- | --- |
| `HandAnswer` | what ckks_utils computes of any input, and on exactly which commands it answers or reads past the end | yes |
| `ScriptEnds` | a run of the script ends | TLC |
| `MonitorLetsGo` | a monitor that found its process lets it go | TLC |

Fairness: weak fairness of the script's own steps, of the passes and engines (which is
what `DriverTerminates` and `Terminates` show, given that targets end), and of every monitor.

`real_sum` counts its first number once too often (:182 of `tools/ckks_utils.cpp`), which
no experiment shows, since the generated numbers begin with zero. How much of an input is
read depends on the rounds: with none, the sums touch its first number only.

### Runs that show a disagreement

Each checks one property that quotes the repository, and TLC finds it violated.

| Run | The repository says | The code |
| --- | --- | --- |
| `driver_unwitting_fds` | "Ensure that any file descriptors we've opened aren't unwittingly passed to another process" (`tools/osprey.cpp:175`) | the speculative launch does not close `comm_fds[1]` in the driver, so the programmed target inherits it |
| `driver_algorithm` | the algorithm "must be 3PO (or a special debug value)" (`tools/osprey.cpp:470`) | an uninitialised field may replace it by PARENT |
| `driver_reports` | "the **second** occurrence is the meaningful one" (`README.md:158`) | the passes overlap, and either may print last |
| `pckks_size_complaint` | "Input data size does not match problem size." (`tools/pckks_utils.cpp:308`) | also said of a right-sized input, when `end - start` wraps |
| `planner_plugin` | a plugin's name may stand for the protocol: "program_name protocol/plugin config.yaml party_id worker_index input_size" (`tools/planner.cpp:42`) | the name is accepted, and then the protocol, which is null, is asked for its plugin |
| `pckks_layout` | "Layout of B is column-major" (`tools/example_input.cpp:553`) | the naive product reads B by rows |

## 4. Proofs

TLAPS checks the theorems for all values of the constants, from the assumptions
named in the modules (`FdAssumption`, `CommandLineAssumption`,
`ProblemsAssumption`, `CommandsAssumption`, `WidthAssumption`, `DeviceAssumption`,
`BatchAssumption`, `InputAssumption`, `DrawAssumption`, `TileAssumption`,
`ExperimentAssumption`, which lets a generator stop at any set of numbers `CutAt`,
`TaskAssumption`, `HandAssumption`): typing only, plus
`ParentCommFd` being one of the descriptors, the sets of files, mappings and pages being
finite and apart, the cells of a matrix fitting `std::size_t` (`WidthAssumption`,
`TaskAssumption`), a byte having at least two values and an element of a result holding
every byte (`BatchAssumption`), and a random input being what the code draws
(`DrawAssumption`, `TaskAssumption`): without the last two, a product of integers would
not be what the expected file says.

**SequenceFacts** is what lets the proofs follow loops of any length. `Induction` is
about a set of numbers, which the provers can be given, and follows from the
well-foundedness of `<`. That a recursive function is equal to its definition is
shown by building it up to every bound. On this rest the facts about concatenation:
`FlattenOfBlocks` says that a list cut at growing places and put together again is the
list, `FlattenOfSome` and `FlattenOfItems` what is left if the pieces are empty or
single. The sums of a sequence are treated the same way.

**OspreyDriverProofs.** The inductive invariant is
`TypeOK /\ Flow /\ Tables /\ Told`. The safety properties are not inductive
because they speak of running targets, and what a target runs with was decided
several steps before: `Flow` ties the place of the driver to what has been launched
and reaped, and `Tables` says, for each place, who holds which end. Its heart is
`DriverTable`: every descriptor of the driver's own is close-on-exec, *except* the
one of the launch in progress, which the forked child closes itself. That is what
makes a fork safe at any point; it would not be inductive if a launch could begin
before the previous one had marked its end. `Refinement` then maps every action to
one of `TwoPass` or to a stutter.

**PckksMainProofs.** The inductive invariant is
`TypeOK /\ Tally /\ Course /\ Seen /\ Data`. `Tally` makes each thread's flags a
function of its place; `Seen` says that the flags a scan has passed are up, which
holds in the next state because flags never fall; `Course` ties main's loop counters
to `calculate_start`; `Data` places each result. `BarrierRefinement` maps the
completion of a scan to `PhaseBarrier`'s `Observe`: since nothing that was seen can
be undone, a scan that ends has seen a state of the whole team.

**PckksProblemsProofs** begins with arithmetic. `BlocksTile`: if the last worker starts within
the body, worker 0 starts at its beginning, each worker starts where the one before
ends, and the last one ends at its end. `BackwardsExactlyWhenUneven`: otherwise, and
only then, some worker's block runs backwards, which is the throw or the wrapped
extent of section 3.

It ends with what the whole workload comes to, for every size, every
number of threads and every tile. A list of the terms of the answer is named for each
workload (`Numbers`, `Squares`, `Pairs`, `RowTerms`, `MatrixTerms`). Each worker leaves
its block of that list (`VectorWorker`, `PairWorker`, `MatrixVectorWorker`,
`MatricesWorker`), or the sum of its block; the blocks together are the list
(`BlocksTogether`, from `BlocksTile`), and the sums have each term once
(`SumsTogether`). A product by tiles adds what a product by rows adds
(`TilesTogether`), and a sum of distinct terms has one polynomial, whatever their order
(`PolynomialOfDistinct`). `AnswerOfShares` puts it together: if the problem fits and is
shared out, aggregating the workers' results gives `Reference`.

Two theorems of **PckksMainProofs** use both. `MisfitsOnly` is `OnlyMisfitsFail`.
`DivideShares` says what a loop that stops early, throws or finishes leaves: a part for
every thread exactly if the last worker starts within the body (for a matrix, only if
it has rows; for the tiles, only if a share is whole tiles), since the wrapped extent
of a block that does not run backwards is its own size. `MissingExactlyWhenRowless`
adds the statistics: a worker leaves two figures unless it has no row, and one has none
only if the last starts at the very end. `Fate` carries this through main: it says for
each place what `divide()` must have left. `AnswersAreRight` is `OutputIsTheAnswer`:
what is written was aggregated from every worker's result (`Answered`, which needs
that main aggregates only when everyone has decrypted), and by `AnswerOfShares` that
is the answer.

**AliasedDeviceProofs.** The inductive invariant is
`TypeOK /\ CountsAreReal /\ Anchored /\ Paired /\ Staged`. That the counts are real
is nearly inductive. What it lacks is that `module_put` gives back a reference that was
taken: a file without one releases it all the same. `Paired` says that there is such a
file only once the module is being removed, and `Staged` that by then nobody has a
reference this could take away. `Anchored` keeps mappings and entries on files
that are still there. Each step that changes a page's references changes a finite set
by known elements, and its cardinality is what the lemmas at the beginning of the
module are about. `PoolRefinement` maps the steps to `PagePool`'s `Allocate`, `Join`
(also of several entries at once, in a fork) and `Leave`.

**ExampleProblemsProofs** is about the generator's lists, without its state. The
arithmetic: `BlockedIsBlock` says that
`get_blocked_worker` gives every item to a worker that exists and each worker one run
of items; `BlocksAreEven` that these runs tile the items and differ by one at most;
`CellInRange` that a product's cells have a worker if the grid divides the size;
`PortionsOfPower` that a power of two of workers is cut into a grid that is square, or
twice as high as wide; `OneGrid` that this grid is the only one of that shape, which
is that no square is twice a square (`NoRoot`, by descent).

What is written: every record of every workload is for a worker there is
(`Placed`, one lemma for each workload) except those of a product, which are exactly if the rows can be
cut evenly: `CellBeyond` is the last cell, which otherwise is for a worker that does
not exist. A workload writes its inputs first and its
answers last (`WritesAnswersLast`), and answers dealt in blocks are a run of items for
each worker (`ItemsInARow`), so no worker has two more than another (`AnswersEven`).

What the files together hold: what is dealt one run of items to each worker, and read
back one file after the other, is what was dealt (`StretchesMerged`, `ThreeMerged`);
what is dealt in turn comes back rearranged, each item once (`ItemsRearranged`,
`PartiesMerged`). From there each workload has its own answer lemma, which
compares what the program wrote down as expected, most often by a formula in the size
alone, with what the property computes from the inputs: `AspirinAnswer`,
`PasswordAnswer`, `SortAnswer`, `LoopJoinAnswer`, `VectorMerged` with
`DrawnVectorAnswer`, `CountingUpAnswer` and the two of the layer, `CpirAnswer`,
`RealSumAnswer`, `RealStatisticsAnswer`, `RealVectorMultiplyAnswer`. For a product of
matrices nothing comes back in order: `CellsAreCut` finds every cell in the file of
the worker whose rectangle it lies in, at its place in that rectangle
(`ItemsEnumerated`: the items of a file are enumerated by any increasing function onto
their positions), and `MatricesAnswer` says that the rectangles are the product.

**ExampleInputProofs.** The program's invariant is `TypeOK /\ Underway /\ RefusedAllOrNothing`,
where `Underway`
says that between opening and writing all files of the run are empty; without it a run
that is turned away could leave what an earlier one wrote. On it rests
`UndefinedExactly`, which is `UndefinedOnlyWhen`, and, with the invariant `Made` (once
a run has generated, each file holds what that run wrote to it), two more:
`AnswersEvenlyShared`, which is `AnswersAreShared`, and `ExpectedAnswers`, which is
`ExpectedIsTheAnswer`, since `Told` brings what is on disk to the list of writes that
the lemmas above are about.

The check of loop_join. `SortedIs` says that placing each pair at its rank is
sorting; so a sorted list of pairs is the join's, entry by entry, exactly if both hold
the same pairs, each once (`SortedAreInOrder`, `OnceEach`). The check reads the output
files of any origin, so the invariant `Readable` says what they
may hold, and `Judged` that a verdict is about the files that are there
(`JudgedStays`: whatever follows a check either clears the verdict or leaves
the files alone). `ChecksAreTrue` is `CheckIsTrue`.

`OwnAnswers` is `OwnAnswerAccepted`. If the expected files are the join and are what
was checked, each pair is there once (`JoinTellsOnce`) and the verdict depends on the
lengths alone. It is not enough that `ShareSize` says how many records a run of that many workers
leaves in each: a check may be told another number of workers than the run that
wrote the files, and files of larger runs lie beside those of the last. The invariant
`Leavings` says what holds of them all the same: the first `m` files, for some `m`,
have the shares of a run of `m` workers (`Kept`), and a file that is empty is one for
which a join of that size has no record left (`LeftAlone`).
`EqualWhenDivided` closes the argument: lengths that are all the same add up
to the join's only if the number of workers divides it, and if it does, the
shares are all the same.

**CkksExperimentProofs.** The invariant adds `Watching` (a monitor of a run to come is
off) and `Course` (no process is left when the script is idle, and as many passes are
launched as the script's place says) to the types.
`MonitorNeverBehind` needs both: a monitor starts only in its own run, and takes
only processes there are, which are of the run under way.

`HandIsRight` is `HandAnswer`. `SigmaIs` says that `Sigma` is what its recursion says,
`SumsOfStretch` and `SumsOfParts` (in `SequenceFacts`) that stretches of a sequence add
up to what the whole adds up to, and `DotByTiles` that a dot product cut into tiles, of
which the last may be short, is therefore the dot product. The rest is finding the
rows: row `i` of a matrix that begins behind `n` numbers is where the loops look for it
(`RowIs`). The invariant `ByHand` says only that the result there is came of the command.
Which commands are answered, which read past the end and which do neither is `RunIs`,
in both directions.

`ExpectedShown` and `FitShown` join three programs, and their proof has two halves. The
first is about one command, whatever the state: `OutcomeIs` says when the utility
answers a task with `w` threads of which the generator wrote `n` numbers, and what. It
rests on what `example_input` writes for one worker (`CountedFiles`, `OnesFiles`,
`VectorFiles`, `ProductFiles`, together `FilesAreWhole`), on what `ckks_utils` makes of
these files (`AloneIs`) and that it answers no shorter one (`CutAlone`), and on what
`pckks_utils` does (`TogetherIs`): the lemmas of PckksProblemsProofs say which numbers the
terms of every thread are of, and `NumbersCome`, `PairsCome`, `RowsCome` and `CellsCome`
what these terms come to on the file.

The second half is the invariant `Recorded`, which `RecordedNext` keeps together with
`IInv`. It has a part for each thing that must be remembered between two steps.
`Kept`: every number in the output, and in what was shown, is right for the process that
wrote it; it carries its writer, so the number of threads may change from run to run while
it stays. `Prepared` and `Attempts`: the input is one the generator can have left, and the
processes are the passes started so far. `Opened`: only a pass that has an answer opens the
output, and from then on everything in the file is of this run or a hole; what the pass
that opened it last has written is all there (`FilledBy`). This is what the interleaving
is about: when one pass empties a file the other has written to, the other's numbers are
lost and its next one may leave a hole, but the pass that emptied it then fills every
place itself, and a place it filled may be overwritten but never lost. `Done`: a pass that
is gone has written all its numbers, unless some pass was unlucky; so when the last one is
gone, the one that opened the file last has filled all of it, which is `ShownOfRun`.
`PutIs` says what `Put` does to a file.

**Model-checked only.** `ChannelHangsUp`, `DriverTerminates`, `Terminates`,
`PageGivenBack`, `ScriptEnds` and `MonitorLetsGo` are liveness under fairness, out of
the prover's reach. Every safety property that a passing run checks is stated by a
theorem. The six refuted properties need no proof.

## 5. Not modelled

* **The submodules** (the osprey library, the 3PO kernel, mage, SEAL, emp-tool). Their
  directories are empty. What the programs here need of them is external in the models.
* **`scripts/gc.sh` and `scripts/mage.sh`.** They drive programs of emp-tool and mage on
  two hosts over ssh. What can go wrong there, the garbler's output being read before
  the garbler is done, depends on when those programs write.
* **`tools/mage.cpp` and `tools/util.hpp`.** Three look-ups before a call into mage, and
  a clock.
* **`grublist/`.** A menu for choosing the kernel to boot. It shares no state with the
  rest, and most of it is drawing and key codes. One hazard is listed for it.
* **The build files**, which have no state at run time.
* **Inside what is modelled:** the arithmetic of CKKS (noise, scale, levels) and key
  generation; products of sizes that would not fit `std::size_t`; the sizes of stream
  buffers; spellings and all wording; the numbers a speculative pass computes; the
  cgroup and swap commands of `ckks.sh`, whose results nothing in the script looks at,
  but for what becomes of a tool that cgexec then cannot start (`GiveUp`).
