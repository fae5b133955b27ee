----------------------------- MODULE AliasedDevice -----------------------------
(***************************************************************************)
(* The aliased kernel module (aliased/aliased.c): every open file has one  *)
(* page, and every virtual page of every mapping of the file is that page. *)
(*                                                                         *)
(* The driver keeps two things alive by counting: the page, with get_page  *)
(* and put_page, and itself, with try_module_get and module_put.  Many     *)
(* processes call it at once, so an operation is split wherever another    *)
(* call may come in between.  What the kernel does on its own (page        *)
(* tables, loading, unloading) is modelled from how the driver uses it.    *)
(* The driver's structures have no owner (:63), so that opening the device *)
(* does not by itself keep the module.                                     *)
(***************************************************************************)
EXTENDS Integers, FiniteSets

CONSTANTS Files,     \* struct file: one for each open of the device
          Mappings,  \* struct vm_area_struct
          VPages,    \* the virtual pages of a mapping
          NoFile     \* what an unused mapping maps

ASSUME DeviceAssumption ==
  /\ IsFiniteSet(Files)
  /\ IsFiniteSet(Mappings)
  /\ IsFiniteSet(VPages)
  /\ NoFile \notin Files
  /\ Files \cap (Mappings \X VPages) = {}

VARIABLES
  mod,    \* where the module is in its life
  reg,    \* what init_aliased has registered and nobody has undone
  refs,   \* the module's reference count
  holds,  \* holds[f]: try_module_get succeeded for f and module_put is to come
  file,   \* where each file is in its life; "dangling" once no descriptor has it
  count,  \* the reference count of each file's page
  vma,    \* the file a mapping maps, which it keeps from being released
  pte     \* the page table entries, in all processes, that are the page

modVars == <<mod, reg>>
refVars == <<refs, holds>>
mapVars == <<vma, pte>>
vars == <<mod, reg, refs, holds, file, count, vma, pte>>

Slots == Mappings \X VPages
Registered == {"chrdev", "class", "device"}

TypeOK ==
  /\ mod \in {"loading", "rollback", "live", "cleanup", "failed", "unloaded"}
  /\ reg \in SUBSET Registered
  /\ refs \in Nat
  /\ holds \in [Files -> BOOLEAN]
  /\ file \in [Files -> {"unused", "opening", "refused", "allocated", "open",
                         "dangling", "releasing", "leaving", "closed"}]
  /\ count \in [Files -> Nat]
  /\ vma \in [Mappings -> Files \cup {NoFile}]
  /\ pte \in SUBSET Slots

Init ==
  /\ mod = "loading"
  /\ reg = {}
  /\ refs = 0
  /\ holds = [f \in Files |-> FALSE]
  /\ file = [f \in Files |-> "unused"]
  /\ count = [f \in Files |-> 0]
  /\ vma = [m \in Mappings |-> NoFile]
  /\ pte = {}

\* The module's code is still there to be called.
Loaded == mod \notin {"failed", "unloaded"}

-----------------------------------------------------------------------------
(* init_aliased and cleanup_aliased.  The device can be opened from the    *)
(* moment its number is registered until it no longer is.                  *)

InitAliased ==
  /\ mod = "loading"
  /\ \/ reg = {} /\ reg' = {"chrdev"} /\ mod' = mod
     \/ reg = {"chrdev"} /\ reg' = {"chrdev", "class"} /\ mod' = mod
     \/ reg = {"chrdev", "class"} /\ reg' = Registered /\ mod' = "live"
     \/ reg' = reg /\ mod' = "rollback"
  /\ UNCHANGED <<refVars, file, count, mapVars>>

\* A slip: the number stays registered when the class cannot be created.
RollBackForgetsChrdev ==
  /\ mod = "rollback"
  /\ reg' = reg \ {"class"}
  /\ mod' = "failed"
  /\ UNCHANGED <<refVars, file, count, mapVars>>

\* init returns its error, and the kernel frees the module, whoever refers to it.
RollBack ==
  /\ mod = "rollback"
  /\ \/ reg = {"chrdev", "class"} /\ reg' = {"chrdev"} /\ mod' = mod
     \/ reg = {"chrdev"} /\ reg' = {} /\ mod' = mod
     \/ reg = {} /\ reg' = reg /\ mod' = "failed"
  /\ UNCHANGED <<refVars, file, count, mapVars>>

\* rmmod: refused while there is a reference; none can be taken afterwards.
Unload ==
  /\ mod = "live"
  /\ refs = 0
  /\ mod' = "cleanup"
  /\ UNCHANGED <<reg, refVars, file, count, mapVars>>

CleanupAliased ==
  /\ mod = "cleanup"
  /\ \/ reg = Registered /\ reg' = {"chrdev", "class"} /\ mod' = mod
     \/ reg = {"chrdev", "class"} /\ reg' = {"chrdev"} /\ mod' = mod
     \/ reg = {"chrdev"} /\ reg' = {} /\ mod' = mod
     \/ reg = {} /\ reg' = reg /\ mod' = "unloaded"
  /\ UNCHANGED <<refVars, file, count, mapVars>>

-----------------------------------------------------------------------------
(* aliased_open and aliased_release.                                       *)

\* The kernel has found the driver by its number, and is calling it.
OpenBegins(f) ==
  /\ "chrdev" \in reg
  /\ file[f] = "unused"
  /\ file' = [file EXCEPT ![f] = "opening"]
  /\ UNCHANGED <<modVars, refVars, count, mapVars>>

AllocPage(f) ==
  /\ Loaded
  /\ file[f] = "opening"
  /\ \/ /\ file' = [file EXCEPT ![f] = "allocated"]
        /\ count' = [count EXCEPT ![f] = 1]
     \/ /\ file' = [file EXCEPT ![f] = "refused"]
        /\ UNCHANGED count
  /\ UNCHANGED <<modVars, refVars, mapVars>>

\* A slip: the file counts on the module without counting in it.
TryModuleGetUncounted(f) ==
  holds' = [holds EXCEPT ![f] = TRUE] /\ UNCHANGED refs

\* Fails once the module is going.
TryModuleGet(f) ==
  IF mod \in {"loading", "rollback", "live"}
  THEN holds' = [holds EXCEPT ![f] = TRUE] /\ refs' = refs + 1
  ELSE UNCHANGED refVars

\* What try_module_get returns is not looked at.
OpenReturns(f) ==
  /\ Loaded
  /\ file[f] = "allocated"
  /\ TryModuleGet(f)
  /\ file' = [file EXCEPT ![f] = "open"]
  /\ UNCHANGED <<modVars, count, mapVars>>

\* The last descriptor is closed.
Close(f) ==
  /\ file[f] = "open"
  /\ file' = [file EXCEPT ![f] = "dangling"]
  /\ UNCHANGED <<modVars, refVars, count, mapVars>>

Unreferenced(f) == file[f] = "dangling" /\ \A m \in Mappings : vma[m] # f

\* Slips: the page is put twice, or not at all.
ReleaseTwice(f) ==
  /\ Loaded
  /\ Unreferenced(f)
  /\ count' = [count EXCEPT ![f] = @ - 2]
  /\ file' = [file EXCEPT ![f] = "releasing"]
  /\ UNCHANGED <<modVars, refVars, mapVars>>
ReleaseKeepsPage(f) ==
  /\ Loaded
  /\ Unreferenced(f)
  /\ file' = [file EXCEPT ![f] = "releasing"]
  /\ UNCHANGED <<modVars, refVars, count, mapVars>>

\* put_page.
Release(f) ==
  /\ Loaded
  /\ Unreferenced(f)
  /\ count' = [count EXCEPT ![f] = @ - 1]
  /\ file' = [file EXCEPT ![f] = "releasing"]
  /\ UNCHANGED <<modVars, refVars, mapVars>>

\* module_put, which leaves a count of zero alone (and warns).  From here to its
\* return aliased_release runs in a module that may go at any time.
ReleaseModule(f) ==
  /\ Loaded
  /\ file[f] = "releasing"
  /\ holds' = [holds EXCEPT ![f] = FALSE]
  /\ refs' = IF refs > 0 THEN refs - 1 ELSE 0
  /\ file' = [file EXCEPT ![f] = "leaving"]
  /\ UNCHANGED <<modVars, count, mapVars>>

ReleaseReturns(f) ==
  /\ Loaded
  /\ file[f] = "leaving"
  /\ file' = [file EXCEPT ![f] = "closed"]
  /\ UNCHANGED <<modVars, refVars, count, mapVars>>

-----------------------------------------------------------------------------
(* aliased_mmap, aliased_vm_fault, and what the kernel does with mappings. *)

Entries(m) == {s \in pte : s[1] = m}

Mmap(f, m) ==
  /\ Loaded
  /\ file[f] = "open"
  /\ vma[m] = NoFile
  /\ vma' = [vma EXCEPT ![m] = f]
  /\ UNCHANGED <<modVars, refVars, file, count, pte>>

\* A slip: the page table's reference is not counted.
FaultUncounted(m, v) ==
  /\ Loaded
  /\ vma[m] # NoFile
  /\ pte' = pte \cup {<<m, v>>}
  /\ UNCHANGED <<modVars, refVars, file, count, vma>>

\* The driver hands out its page with one more reference, which is the page table
\* entry's.  (If the kernel makes a private copy instead, it puts it back.)
Fault(m, v) ==
  /\ Loaded
  /\ vma[m] # NoFile
  /\ <<m, v>> \notin pte
  /\ pte' = pte \cup {<<m, v>>}
  /\ count' = [count EXCEPT ![vma[m]] = @ + 1]
  /\ UNCHANGED <<modVars, refVars, file, vma>>

\* The kernel drops an entry: reclaim, madvise, or a private page being written.
Zap(m, v) ==
  /\ <<m, v>> \in pte
  /\ pte' = pte \ {<<m, v>>}
  /\ count' = [count EXCEPT ![vma[m]] = @ - 1]
  /\ UNCHANGED <<modVars, refVars, file, vma>>

\* fork.  A child's entry is a copy with a reference of its own, or is left for a
\* fault to fill.
Fork(m, n) ==
  /\ Loaded
  /\ vma[m] # NoFile
  /\ vma[n] = NoFile
  /\ vma' = [vma EXCEPT ![n] = vma[m]]
  /\ \/ UNCHANGED <<pte, count>>
     \/ /\ pte' = pte \cup {<<n, s[2]>> : s \in Entries(m)}
        /\ count' = [count EXCEPT ![vma[m]] = @ + Cardinality(Entries(m))]
  /\ UNCHANGED <<modVars, refVars, file>>

Munmap(m) ==
  /\ Loaded
  /\ vma[m] # NoFile
  /\ vma' = [vma EXCEPT ![m] = NoFile]
  /\ pte' = pte \ Entries(m)
  /\ count' = [count EXCEPT ![vma[m]] = @ - Cardinality(Entries(m))]
  /\ UNCHANGED <<modVars, refVars, file>>

-----------------------------------------------------------------------------
ModuleStep == InitAliased \/ RollBack \/ Unload \/ CleanupAliased

OpenStep(f) == AllocPage(f) \/ OpenReturns(f)
ReleaseStep(f) == Release(f) \/ ReleaseModule(f) \/ ReleaseReturns(f)

MapStep(m) ==
  \/ \E f \in Files : Mmap(f, m)
  \/ \E v \in VPages : Fault(m, v) \/ Zap(m, v)
  \/ \E n \in Mappings : Fork(m, n)
  \/ Munmap(m)

Next ==
  \/ ModuleStep
  \/ \E f \in Files : OpenBegins(f) \/ OpenStep(f) \/ Close(f) \/ ReleaseStep(f)
  \/ \E m \in Mappings : MapStep(m)

\* The kernel goes on with an open it has begun, and releases a file that nothing
\* refers to.  Nobody has to close, map, unmap or unload anything.
Fairness == \A f \in Files : WF_vars(OpenStep(f)) /\ WF_vars(ReleaseStep(f))

Spec == Init /\ [][Next]_vars /\ Fairness

-----------------------------------------------------------------------------
(* Properties.                                                             *)

\* The file's own reference: from alloc_page to put_page.
OwnUse(f) == file[f] \in {"allocated", "open", "dangling"}

Uses(f) == {s \in pte : vma[s[1]] = f}

\* All that refers to f's page, in any process.
References(f) == Uses(f) \cup {g \in {f} : OwnUse(g)}

\* A page's count is the number of its references: the file's, from alloc_page in
\* aliased_open to put_page in aliased_release, and one for each page table entry
\* that aliased_vm_fault or a fork filled, in whichever process; and the module's
\* count is the number of files whose try_module_get succeeded.
CountsAreReal ==
  /\ \A f \in Files : count[f] = Cardinality(References(f))
  /\ refs = Cardinality({f \in Files : holds[f]})

\* A file that took its reference never outlives a module that was removed, however
\* opens, releases and removals race, and so neither does a mapping of it.  What may
\* is a file whose try_module_get failed, unnoticed, while the module was going, or
\* that has given its reference back and not returned yet.
OnlyUncountedStranded ==
  mod = "unloaded" => \A f \in Files : ~holds[f]

\* init registers everything or nothing; nothing is left registered of a module that
\* is gone; and at every moment in between a device never outlives its class nor a
\* class its number, so that no device node leads to a number nobody has.
AllOrNothing ==
  /\ mod = "live" => reg = Registered
  /\ ~Loaded => reg = {}
  /\ "device" \in reg => "class" \in reg
  /\ "class" \in reg => "chrdev" \in reg

PageOf(f) ==
  IF file[f] \in {"unused", "opening", "refused"} THEN "none"
  ELSE IF count[f] = 0 THEN "freed" ELSE "held"

Pool == INSTANCE PagePool WITH
  Pages <- Files,
  Users <- Files \cup Slots,
  page  <- [f \in Files |-> PageOf(f)],
  users <- [f \in Files |-> References(f)]

\* The driver implements PagePool: a page is freed exactly when the last file or
\* page table entry that refers to it lets go, and nobody refers to it afterwards.
ImplementsPagePool == Pool!Spec

\* Nothing is leaked: once nothing refers to a file, its page is given back and its
\* reference to the module too, also if it was mapped, forked and unmapped in
\* between; unless the module is gone by then, which only a file that does not
\* count in it, or a failed init, allows.
PageGivenBack ==
  \A f \in Files :
    Unreferenced(f) ~> (PageOf(f) = "freed" /\ ~holds[f]) \/ ~Loaded
===============================================================================
