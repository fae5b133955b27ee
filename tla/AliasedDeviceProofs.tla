-------------------------- MODULE AliasedDeviceProofs --------------------------
(***************************************************************************)
(* The aliased driver for any number of files, mappings and pages: its     *)
(* counts are the numbers of references there are, so a page is freed      *)
(* exactly when its last reference goes, and the module is not removed     *)
(* under a file that counts in it.                                         *)
(***************************************************************************)
EXTENDS AliasedDevice, FiniteSetTheorems, TLAPS

(* A file is mapped, and counts in the module, only between its open and   *)
(* its release, and a page table entry belongs to a mapping.               *)
Anchored ==
  /\ \A m \in Mappings : vma[m] # NoFile => file[vma[m]] \in {"open", "dangling"}
  /\ \A s \in pte : vma[s[1]] # NoFile
  /\ \A f \in Files : holds[f] => file[f] \in {"open", "dangling", "releasing"}

(* A file whose release will put a reference it never got is there only    *)
(* when nobody else has one that it could take away.                       *)
Paired ==
  \A f \in Files :
    file[f] \in {"open", "dangling", "releasing"} =>
      holds[f] \/ mod \in {"cleanup", "unloaded"}

(* What is registered is always the start of what init registers, and a    *)
(* module that is being removed has no references.                         *)
Staged ==
  /\ reg \in {{}, {"chrdev"}, {"chrdev", "class"}, Registered}
  /\ mod = "live" => reg = Registered
  /\ ~Loaded => reg = {}
  /\ mod \in {"cleanup", "unloaded"} => \A f \in Files : ~holds[f]

IInv == TypeOK /\ CountsAreReal /\ Anchored /\ Paired /\ Staged

-----------------------------------------------------------------------------
(* Sets of references.                                                     *)

(* An open file and its page table entries are finitely many references.   *)
LEMMA FiniteReferences ==
  ASSUME TypeOK, NEW f \in Files
  PROVE  IsFiniteSet(References(f)) /\ Cardinality(References(f)) \in Nat
<1>1. IsFiniteSet(Mappings \X VPages)
  BY FS_Product, DeviceAssumption
<1>2. IsFiniteSet(Slots \cup {f})
  BY <1>1, FS_AddElement DEF Slots
<1>3. References(f) \in SUBSET (Slots \cup {f})
  BY DEF References, Uses, TypeOK
<1>4. IsFiniteSet(References(f))
  BY <1>2, <1>3, FS_Subset
<1> QED
  BY <1>4, FS_CardinalityType

(* So are the files that count in the module.                              *)
LEMMA FiniteHolders ==
  /\ IsFiniteSet({f \in Files : holds[f]})
  /\ Cardinality({f \in Files : holds[f]}) \in Nat
<1>1. {f \in Files : holds[f]} \in SUBSET Files
  OBVIOUS
<1>2. IsFiniteSet({f \in Files : holds[f]})
  BY <1>1, FS_Subset, DeviceAssumption
<1> QED
  BY <1>2, FS_CardinalityType

(* A file is no page table entry.                                          *)
LEMMA FileIsNoSlot ==
  ASSUME NEW f \in Files PROVE f \notin Slots
BY DeviceAssumption DEF Slots

(* Disjoint finite sets add up, and subsets can be taken away.             *)
LEMMA DisjointSum ==
  ASSUME NEW S, NEW T, IsFiniteSet(S), IsFiniteSet(T), S \cap T = {}
  PROVE  /\ IsFiniteSet(S \cup T)
         /\ Cardinality(S \cup T) = Cardinality(S) + Cardinality(T)
<1>1. Cardinality(S \cap T) = 0
  BY FS_EmptySet
<1>2. Cardinality(S) \in Nat /\ Cardinality(T) \in Nat
  BY FS_CardinalityType
<1>3. /\ IsFiniteSet(S \cup T)
      /\ Cardinality(S \cup T) = Cardinality(S) + Cardinality(T) - Cardinality(S \cap T)
  BY FS_Union
<1> QED
  BY <1>1, <1>2, <1>3

LEMMA TakenAway ==
  ASSUME NEW S, NEW T \in SUBSET S, IsFiniteSet(S)
  PROVE  Cardinality(S \ T) = Cardinality(S) - Cardinality(T)
<1>1. IsFiniteSet(T) /\ IsFiniteSet(S \ T)
  BY FS_Subset
<1>2. (S \ T) \cap T = {} /\ (S \ T) \cup T = S
  OBVIOUS
<1>3. Cardinality(S) = Cardinality(S \ T) + Cardinality(T)
  BY <1>1, <1>2, DisjointSum
<1>4. Cardinality(S \ T) \in Nat /\ Cardinality(T) \in Nat
  BY <1>1, FS_CardinalityType
<1> QED
  BY <1>3, <1>4

-----------------------------------------------------------------------------
(* The invariant.                                                          *)

LEMMA InitInvariant == Init => IInv
<1> SUFFICES ASSUME Init PROVE IInv
  OBVIOUS
<1>1. TypeOK
  BY DEF Init, TypeOK
<1>2. Anchored /\ Paired /\ Staged
  BY DEF Init, Anchored, Paired, Staged, Loaded, Registered
<1>3. \A f \in Files : References(f) = {}
  BY DEF Init, References, Uses, OwnUse
<1>4. {f \in Files : holds[f]} = {}
  BY DEF Init
<1>5. CountsAreReal
  BY <1>3, <1>4, FS_EmptySet DEF Init, CountsAreReal
<1> QED
  BY <1>1, <1>2, <1>5 DEF IInv

(* A step that changes neither a file nor a mapping keeps all references.  *)
LEMMA CountsKept ==
  ASSUME CountsAreReal, UNCHANGED <<refVars, count, mapVars>>,
         \A f \in Files : OwnUse(f)' = OwnUse(f)
  PROVE  CountsAreReal'
<1>1. \A f \in Files : References(f)' = References(f)
  BY DEF References, Uses, mapVars
<1> QED
  BY <1>1 DEF CountsAreReal, refVars

LEMMA ModuleInvariant ==
  ASSUME IInv, ModuleStep
  PROVE  IInv'
<1> USE DEF IInv
<1>1. UNCHANGED <<refVars, file, count, mapVars>>
  BY DEF ModuleStep, InitAliased, RollBack, Unload, CleanupAliased
<1>2. CountsAreReal'
  BY <1>1, CountsKept DEF OwnUse
<1>3. Anchored' /\ Paired'
  <2>1. mod \in {"cleanup", "unloaded"} => mod' \in {"cleanup", "unloaded"}
    BY DEF ModuleStep, InitAliased, RollBack, Unload, CleanupAliased
  <2>2. Anchored'
    BY <1>1 DEF Anchored, refVars, mapVars
  <2>3. Paired'
    BY <1>1, <2>1 DEF Paired, refVars
  <2> QED
    BY <2>2, <2>3
<1>4. CASE InitAliased
  <2>1. mod' \in {"loading", "live", "rollback"} /\ reg' \in SUBSET Registered
    BY <1>4 DEF InitAliased, TypeOK, Registered
  <2>2. Staged'
    BY <1>1, <1>4 DEF InitAliased, Staged, Loaded, Registered, refVars, TypeOK
  <2> QED
    BY <1>1, <1>2, <1>3, <2>1, <2>2 DEF TypeOK, refVars, mapVars
<1>5. CASE RollBack
  <2>1. mod' \in {"rollback", "failed"} /\ reg' \in SUBSET Registered
    BY <1>5 DEF RollBack, TypeOK, Registered
  <2>2. Staged'
    BY <1>1, <1>5 DEF RollBack, Staged, Loaded, Registered, refVars, TypeOK
  <2> QED
    BY <1>1, <1>2, <1>3, <2>1, <2>2 DEF TypeOK, refVars, mapVars
<1>6. CASE Unload
  <2>1. {f \in Files : holds[f]} = {}
    BY <1>6, FiniteHolders, FS_EmptySet DEF Unload, CountsAreReal
  <2>2. \A f \in Files : ~holds'[f]
    BY <1>1, <2>1 DEF refVars
  <2>3. Staged'
    BY <1>6, <2>2 DEF Unload, Staged, Loaded, Registered
  <2>4. TypeOK'
    BY <1>1, <1>6 DEF Unload, TypeOK, refVars, mapVars
  <2> QED
    BY <1>2, <1>3, <2>3, <2>4
<1>7. CASE CleanupAliased
  <2>1. mod' \in {"cleanup", "unloaded"} /\ reg' \in SUBSET Registered
    BY <1>7 DEF CleanupAliased, TypeOK, Registered
  <2>2. Staged'
    BY <1>1, <1>7 DEF CleanupAliased, Staged, Loaded, Registered, refVars, TypeOK
  <2> QED
    BY <1>1, <1>2, <1>3, <2>1, <2>2 DEF TypeOK, refVars, mapVars
<1> QED
  BY <1>4, <1>5, <1>6, <1>7 DEF ModuleStep

(* Steps of one file that leave its page alone.                            *)
LEMMA OpenBeginsInvariant ==
  ASSUME IInv, NEW f \in Files, OpenBegins(f)
  PROVE  IInv'
<1> USE DEF IInv, OpenBegins
<1>1. TypeOK'
  BY DEF TypeOK, modVars, refVars, mapVars
<1>2. \A g \in Files : OwnUse(g)' = OwnUse(g)
  BY DEF OwnUse, TypeOK
<1>3. CountsAreReal'
  BY <1>2, CountsKept
<1>4. Anchored' /\ Paired'
  BY DEF Anchored, Paired, TypeOK, modVars, refVars, mapVars
<1>5. Staged'
  BY DEF Staged, Loaded, modVars, refVars
<1> QED
  BY <1>1, <1>3, <1>4, <1>5

LEMMA CloseInvariant ==
  ASSUME IInv, NEW f \in Files, Close(f)
  PROVE  IInv'
<1> USE DEF IInv, Close
<1>1. TypeOK'
  BY DEF TypeOK, modVars, refVars, mapVars
<1>2. \A g \in Files : OwnUse(g)' = OwnUse(g)
  BY DEF OwnUse, TypeOK
<1>3. CountsAreReal'
  BY <1>2, CountsKept
<1>4. Anchored' /\ Paired'
  BY DEF Anchored, Paired, TypeOK, modVars, refVars, mapVars
<1>5. Staged'
  BY DEF Staged, Loaded, modVars, refVars
<1> QED
  BY <1>1, <1>3, <1>4, <1>5

LEMMA ReleaseReturnsInvariant ==
  ASSUME IInv, NEW f \in Files, ReleaseReturns(f)
  PROVE  IInv'
<1> USE DEF IInv, ReleaseReturns
<1>1. TypeOK'
  BY DEF TypeOK, modVars, refVars, mapVars
<1>2. \A g \in Files : OwnUse(g)' = OwnUse(g)
  BY DEF OwnUse, TypeOK
<1>3. CountsAreReal'
  BY <1>2, CountsKept
<1>4. Anchored' /\ Paired'
  BY DEF Anchored, Paired, TypeOK, modVars, refVars, mapVars
<1>5. Staged'
  BY DEF Staged, Loaded, modVars, refVars
<1> QED
  BY <1>1, <1>3, <1>4, <1>5

(* try_module_get and module_put: one file joins, or leaves, those that    *)
(* count.                                                                  *)
LEMMA OpenReturnsInvariant ==
  ASSUME IInv, NEW f \in Files, OpenReturns(f)
  PROVE  IInv'
<1> USE DEF IInv
<1> DEFINE H == {g \in Files : holds[g]}
<1>1. /\ file[f] = "allocated" /\ ~holds[f]
      /\ file' = [file EXCEPT ![f] = "open"]
      /\ UNCHANGED <<modVars, count, mapVars>>
  BY DEF OpenReturns, Anchored, TypeOK
<1>2. \A g \in Files : References(g)' = References(g)
  BY <1>1 DEF References, Uses, OwnUse, TypeOK, mapVars
<1>3. \/ UNCHANGED refVars
      \/ /\ mod \in {"loading", "rollback", "live"}
         /\ holds' = [holds EXCEPT ![f] = TRUE]
         /\ refs' = refs + 1
  BY DEF OpenReturns, TryModuleGet
<1>4. refs = Cardinality(H) /\ IsFiniteSet(H) /\ refs \in Nat
  BY FiniteHolders DEF CountsAreReal
<1>5. refs' = Cardinality({g \in Files : holds'[g]})
  <2>1. CASE UNCHANGED refVars
    BY <1>4, <2>1 DEF refVars
  <2>2. CASE holds' = [holds EXCEPT ![f] = TRUE] /\ refs' = refs + 1
    <3>1. {g \in Files : holds'[g]} = H \cup {f} /\ f \notin H
      BY <1>1, <2>2 DEF TypeOK
    <3> QED
      BY <1>4, <2>2, <3>1, FS_AddElement
  <2> QED
    BY <1>3, <2>1, <2>2
<1>6. CountsAreReal'
  BY <1>1, <1>2, <1>5 DEF CountsAreReal
<1>7. TypeOK'
  <2>1. refs' \in Nat
    BY <1>3, <1>4 DEF refVars
  <2>2. holds' \in [Files -> BOOLEAN]
    BY <1>3 DEF refVars, TypeOK
  <2>3. file' \in [Files -> {"unused", "opening", "refused", "allocated", "open",
                            "dangling", "releasing", "leaving", "closed"}]
    BY <1>1 DEF TypeOK
  <2> QED
    BY <1>1, <2>1, <2>2, <2>3 DEF TypeOK, modVars, mapVars
<1>8. Anchored' /\ Paired'
  <2>1. Anchored'
    BY <1>1, <1>3 DEF Anchored, TypeOK, refVars, mapVars
  <2>2. mod \in {"cleanup", "unloaded"} \/ holds'[f]
    BY <1>1, <1>3 DEF OpenReturns, Loaded, TypeOK, TryModuleGet
  <2>3. Paired'
    BY <1>1, <1>3, <2>2 DEF Paired, TypeOK, modVars, refVars, OpenReturns, Loaded
  <2> QED
    BY <2>1, <2>3
<1>9. Staged'
  BY <1>1, <1>3 DEF Staged, Loaded, TypeOK, modVars, refVars
<1> QED
  BY <1>6, <1>7, <1>8, <1>9

LEMMA ReleaseModuleInvariant ==
  ASSUME IInv, NEW f \in Files, ReleaseModule(f)
  PROVE  IInv'
<1> USE DEF IInv
<1> DEFINE H == {g \in Files : holds[g]}
<1>1. /\ file[f] = "releasing"
      /\ holds' = [holds EXCEPT ![f] = FALSE]
      /\ refs' = IF refs > 0 THEN refs - 1 ELSE 0
      /\ file' = [file EXCEPT ![f] = "leaving"]
      /\ UNCHANGED <<modVars, count, mapVars>>
  BY DEF ReleaseModule
<1>2. \A g \in Files : References(g)' = References(g)
  BY <1>1 DEF References, Uses, OwnUse, TypeOK, mapVars
<1>3. refs = Cardinality(H) /\ IsFiniteSet(H) /\ refs \in Nat
  BY FiniteHolders DEF CountsAreReal
<1>4. refs' = Cardinality({g \in Files : holds'[g]})
  <2>1. {g \in Files : holds'[g]} = H \ {f}
    BY <1>1 DEF TypeOK
  <2>2. Cardinality(H \ {f}) = IF f \in H THEN refs - 1 ELSE refs
    BY <1>3, FS_RemoveElement
  <2>3. CASE holds[f]
    <3>1. f \in H /\ refs # 0
      BY <1>3, <2>3, FS_EmptySet
    <3> QED
      BY <1>1, <1>3, <2>1, <2>2, <3>1
  <2>4. CASE ~holds[f]
    <3>1. mod \in {"cleanup", "unloaded"}
      BY <1>1, <2>4 DEF Paired
    <3>2. H = {}
      BY <3>1 DEF Staged
    <3> QED
      BY <1>1, <1>3, <2>1, <3>2, FS_EmptySet
  <2> QED
    BY <2>3, <2>4
<1>5. CountsAreReal'
  BY <1>1, <1>2, <1>4 DEF CountsAreReal
<1>6. TypeOK'
  BY <1>1, <1>3 DEF TypeOK, modVars, refVars, mapVars
<1>7. Anchored' /\ Paired'
  BY <1>1 DEF Anchored, Paired, TypeOK, modVars, refVars, mapVars
<1>8. Staged'
  BY <1>1 DEF Staged, Loaded, TypeOK, modVars, refVars
<1> QED
  BY <1>5, <1>6, <1>7, <1>8

(* Steps that change the references to one page, or move them.             *)

(* What is left of the invariant when module and module count are alone.   *)
LEMMA PageStep ==
  ASSUME IInv, UNCHANGED <<modVars, refVars>>,
         file' \in [Files -> {"unused", "opening", "refused", "allocated", "open",
                              "dangling", "releasing", "leaving", "closed"}],
         vma' \in [Mappings -> Files \cup {NoFile}],
         pte' \in SUBSET Slots,
         count' \in [Files -> Int],
         \A f \in Files : count'[f] = Cardinality(References(f)'),
         Anchored', Paired'
  PROVE  IInv'
<1> USE DEF IInv
<1>1. IsFiniteSet(Slots)
  BY FS_Product, DeviceAssumption DEF Slots
<1>2. ASSUME NEW f \in Files PROVE Cardinality(References(f)') \in Nat
  <2>1. IsFiniteSet(Slots \cup {f})
    BY <1>1, FS_AddElement
  <2>2. References(f)' \in SUBSET (Slots \cup {f})
    BY DEF References, Uses
  <2> QED
    BY <2>1, <2>2, FS_Subset, FS_CardinalityType
<1>3. count' \in [Files -> Nat]
  BY <1>2
<1>4. TypeOK'
  BY <1>3 DEF TypeOK, modVars, refVars
<1>5. CountsAreReal'
  BY DEF CountsAreReal, refVars
<1>6. Staged'
  BY DEF Staged, Loaded, modVars, refVars
<1> QED
  BY <1>4, <1>5, <1>6

LEMMA AllocPageInvariant ==
  ASSUME IInv, NEW f \in Files, AllocPage(f)
  PROVE  IInv'
<1> USE DEF IInv
<1>1. /\ file[f] = "opening"
      /\ UNCHANGED <<modVars, refVars, mapVars>>
      /\ \/ /\ file' = [file EXCEPT ![f] = "allocated"]
            /\ count' = [count EXCEPT ![f] = 1]
         \/ file' = [file EXCEPT ![f] = "refused"] /\ count' = count
  BY DEF AllocPage
<1>2. Anchored' /\ Paired'
  BY <1>1 DEF Anchored, Paired, TypeOK, modVars, refVars, mapVars
<1>3. Uses(f)' = {} /\ References(f) = {}
  BY <1>1 DEF Uses, References, OwnUse, Anchored, TypeOK, Slots, mapVars
<1>4. ASSUME NEW g \in Files PROVE count'[g] = Cardinality(References(g)')
  <2>1. CASE g # f
    BY <1>1, <2>1 DEF References, Uses, OwnUse, CountsAreReal, TypeOK, mapVars
  <2>2. CASE g = f /\ file'[f] = "allocated"
    <3>1. References(f)' = {f} /\ count'[f] = 1
      BY <1>1, <1>3, <2>2 DEF References, OwnUse, TypeOK
    <3> QED
      BY <2>2, <3>1, FS_Singleton
  <2>3. CASE g = f /\ file'[f] = "refused"
    <3>1. References(f)' = {} /\ count'[f] = count[f]
      BY <1>1, <1>3, <2>3 DEF References, OwnUse, TypeOK
    <3> QED
      BY <1>3, <2>3, <3>1 DEF CountsAreReal
  <2> QED
    BY <1>1, <2>1, <2>2, <2>3 DEF TypeOK
<1>5. /\ file' \in [Files -> {"unused", "opening", "refused", "allocated", "open",
                              "dangling", "releasing", "leaving", "closed"}]
      /\ count' \in [Files -> Int]
  BY <1>1 DEF TypeOK
<1> QED
  BY <1>1, <1>2, <1>4, <1>5, PageStep DEF TypeOK, mapVars

LEMMA ReleaseInvariant ==
  ASSUME IInv, NEW f \in Files, Release(f)
  PROVE  IInv'
<1> USE DEF IInv
<1>1. /\ file[f] = "dangling"
      /\ \A m \in Mappings : vma[m] # f
      /\ UNCHANGED <<modVars, refVars, mapVars>>
      /\ file' = [file EXCEPT ![f] = "releasing"]
      /\ count' = [count EXCEPT ![f] = @ - 1]
  BY DEF Release, Unreferenced
<1>2. Anchored' /\ Paired'
  BY <1>1 DEF Anchored, Paired, TypeOK, modVars, refVars, mapVars
<1>3. References(f)' = {} /\ References(f) = {f}
  BY <1>1 DEF Uses, References, OwnUse, TypeOK, Slots, mapVars
<1>4. ASSUME NEW g \in Files PROVE count'[g] = Cardinality(References(g)')
  <2>1. CASE g # f
    BY <1>1, <2>1 DEF References, Uses, OwnUse, CountsAreReal, TypeOK, mapVars
  <2>2. CASE g = f
    <3>1. count[f] = 1
      BY <1>3, FS_Singleton DEF CountsAreReal
    <3>2. count'[f] = 0
      BY <1>1, <3>1 DEF TypeOK
    <3> QED
      BY <1>3, <2>2, <3>2, FS_EmptySet
  <2> QED
    BY <2>1, <2>2
<1>5. /\ file' \in [Files -> {"unused", "opening", "refused", "allocated", "open",
                              "dangling", "releasing", "leaving", "closed"}]
      /\ count' \in [Files -> Int]
  BY <1>1 DEF TypeOK
<1> QED
  BY <1>1, <1>2, <1>4, <1>5, PageStep DEF TypeOK, mapVars

LEMMA MmapInvariant ==
  ASSUME IInv, NEW f \in Files, NEW m \in Mappings, Mmap(f, m)
  PROVE  IInv'
<1> USE DEF IInv
<1>1. /\ file[f] = "open"
      /\ vma[m] = NoFile
      /\ vma' = [vma EXCEPT ![m] = f]
      /\ UNCHANGED <<modVars, refVars, file, count, pte>>
  BY DEF Mmap
<1>2. Anchored' /\ Paired'
  <2>1. Anchored'
    BY <1>1, DeviceAssumption DEF Anchored, TypeOK, refVars, Slots
  <2>2. Paired'
    BY <1>1 DEF Paired, modVars, refVars
  <2> QED
    BY <2>1, <2>2
<1>3. \A g \in Files : References(g)' = References(g)
  BY <1>1 DEF References, Uses, OwnUse, Anchored, TypeOK, Slots
<1>4. vma' \in [Mappings -> Files \cup {NoFile}]
  BY <1>1 DEF TypeOK
<1> QED
  BY <1>1, <1>2, <1>3, <1>4, PageStep DEF CountsAreReal, TypeOK

LEMMA FaultInvariant ==
  ASSUME IInv, NEW m \in Mappings, NEW v \in VPages, Fault(m, v)
  PROVE  IInv'
<1> USE DEF IInv
<1> DEFINE f == vma[m]
<1>1. /\ f \in Files
      /\ <<m, v>> \in Slots \ pte
      /\ pte' = pte \cup {<<m, v>>}
      /\ count' = [count EXCEPT ![f] = @ + 1]
      /\ UNCHANGED <<modVars, refVars, file, vma>>
  BY DEF Fault, TypeOK, Slots
<1>2. Anchored' /\ Paired'
  <2>1. Anchored'
    BY <1>1, DeviceAssumption DEF Anchored, refVars
  <2>2. Paired'
    BY <1>1 DEF Paired, modVars, refVars
  <2> QED
    BY <2>1, <2>2
<1>3. ASSUME NEW g \in Files PROVE count'[g] = Cardinality(References(g)')
  <2>1. CASE g # f
    <3>1. References(g)' = References(g)
      BY <1>1, <2>1 DEF References, Uses, OwnUse
    <3> QED
      BY <1>1, <2>1, <3>1 DEF CountsAreReal, TypeOK
  <2>2. CASE g = f
    <3>1. References(g)' = References(g) \cup {<<m, v>>}
      BY <1>1, <2>2 DEF References, Uses, OwnUse
    <3>2. <<m, v>> \notin References(g)
      BY <1>1, <2>2, FileIsNoSlot DEF References, Uses
    <3>3. Cardinality(References(g) \cup {<<m, v>>}) = Cardinality(References(g)) + 1
      BY <3>2, FiniteReferences, FS_AddElement
    <3>4. count'[g] = count[g] + 1
      BY <1>1, <2>2 DEF TypeOK
    <3> QED
      BY <3>1, <3>3, <3>4 DEF CountsAreReal
  <2> QED
    BY <2>1, <2>2
<1>4. pte' \in SUBSET Slots /\ count' \in [Files -> Int]
  BY <1>1 DEF TypeOK
<1> QED
  BY <1>1, <1>2, <1>3, <1>4, PageStep DEF TypeOK

LEMMA ZapInvariant ==
  ASSUME IInv, NEW m \in Mappings, NEW v \in VPages, Zap(m, v)
  PROVE  IInv'
<1> USE DEF IInv
<1> DEFINE f == vma[m]
<1>1. /\ <<m, v>> \in pte
      /\ pte' = pte \ {<<m, v>>}
      /\ count' = [count EXCEPT ![f] = @ - 1]
      /\ UNCHANGED <<modVars, refVars, file, vma>>
  BY DEF Zap
<1>2. f \in Files
  BY <1>1 DEF Anchored, TypeOK
<1>3. Anchored' /\ Paired'
  <2>1. Anchored'
    BY <1>1 DEF Anchored, refVars
  <2>2. Paired'
    BY <1>1 DEF Paired, modVars, refVars
  <2> QED
    BY <2>1, <2>2
<1>4. ASSUME NEW g \in Files PROVE count'[g] = Cardinality(References(g)')
  <2>1. <<m, v>> # g
    BY <1>1, FileIsNoSlot DEF TypeOK
  <2>2. CASE g # f
    <3>1. References(g)' = References(g)
      BY <1>1, <2>2 DEF References, Uses, OwnUse
    <3> QED
      BY <1>1, <2>2, <3>1 DEF CountsAreReal, TypeOK
  <2>3. CASE g = f
    <3>1. References(g)' = References(g) \ {<<m, v>>}
      BY <1>1, <2>1, <2>3 DEF References, Uses, OwnUse
    <3>2. <<m, v>> \in References(g)
      BY <1>1, <2>3 DEF References, Uses
    <3>3. Cardinality(References(g) \ {<<m, v>>}) = Cardinality(References(g)) - 1
      BY <3>2, FiniteReferences, FS_RemoveElement
    <3>4. count'[g] = count[g] - 1
      BY <1>1, <2>3 DEF TypeOK
    <3> QED
      BY <3>1, <3>3, <3>4 DEF CountsAreReal
  <2> QED
    BY <2>2, <2>3
<1>5. pte' \in SUBSET Slots /\ count' \in [Files -> Int]
  BY <1>1, <1>2 DEF TypeOK
<1> QED
  BY <1>1, <1>3, <1>4, <1>5, PageStep DEF TypeOK

(* The entries of one mapping, which are pairs that begin with it.         *)
LEMMA EntriesOfMapping ==
  ASSUME TypeOK, NEW m
  PROVE  /\ IsFiniteSet(Entries(m))
         /\ Cardinality(Entries(m)) \in Nat
         /\ \A s \in Entries(m) : s = <<m, s[2]>> /\ s[2] \in VPages
<1>1. IsFiniteSet(Slots)
  BY FS_Product, DeviceAssumption DEF Slots
<1>2. Entries(m) \in SUBSET Slots
  BY DEF Entries, TypeOK
<1>3. IsFiniteSet(Entries(m))
  BY <1>1, <1>2, FS_Subset
<1>4. \A s \in Entries(m) : s = <<m, s[2]>> /\ s[2] \in VPages
  BY <1>2 DEF Entries, Slots
<1> QED
  BY <1>3, <1>4, FS_CardinalityType

(* The copies fork makes are as many as the entries it copies.             *)
LEMMA CopiesCounted ==
  ASSUME TypeOK, NEW m \in Mappings, NEW n \in Mappings
  PROVE  /\ IsFiniteSet({<<n, s[2]>> : s \in Entries(m)})
         /\ Cardinality({<<n, s[2]>> : s \in Entries(m)}) = Cardinality(Entries(m))
<1> DEFINE S == Entries(m)
           T == {<<n, s[2]>> : s \in S}
           h == [s \in S |-> <<n, s[2]>>]
<1>1. IsFiniteSet(S) /\ \A s \in S : s = <<m, s[2]>>
  BY EntriesOfMapping
<1>2. h \in [S -> T]
  OBVIOUS
<1>3. \A a, b \in S : h[a] = h[b] => a = b
  <2> SUFFICES ASSUME NEW a \in S, NEW b \in S, h[a] = h[b] PROVE a = b
    OBVIOUS
  <2>1. a[2] = b[2]
    OBVIOUS
  <2> QED
    BY <1>1, <2>1
<1>4. \A t \in T : \E s \in S : h[s] = t
  OBVIOUS
<1>5. h \in Bijection(S, T)
  BY <1>2, <1>3, <1>4 DEF Bijection, Injection, Surjection, IsInjective
<1>6. ExistsBijection(S, T)
  BY <1>5 DEF ExistsBijection
<1> QED
  BY <1>1, <1>6, FS_Bijection

LEMMA ForkInvariant ==
  ASSUME IInv, NEW m \in Mappings, NEW n \in Mappings, Fork(m, n)
  PROVE  IInv'
<1> USE DEF IInv
<1> DEFINE f == vma[m]
           C == {<<n, s[2]>> : s \in Entries(m)}
<1>1. /\ f \in Files
      /\ vma[n] = NoFile
      /\ vma' = [vma EXCEPT ![n] = f]
      /\ UNCHANGED <<modVars, refVars, file>>
      /\ \/ UNCHANGED <<pte, count>>
         \/ /\ pte' = pte \cup C
            /\ count' = [count EXCEPT ![f] = @ + Cardinality(Entries(m))]
  BY DEF Fork, TypeOK
<1>2. C \in SUBSET Slots /\ \A s \in C : s[1] = n
  BY EntriesOfMapping DEF Slots
<1>3. \A s \in pte : s[1] # n
  BY <1>1 DEF Anchored
<1>4. Anchored' /\ Paired'
  <2>1. \A k \in Mappings : vma'[k] # NoFile => file'[vma'[k]] \in {"open", "dangling"}
    BY <1>1 DEF Anchored, TypeOK
  <2>2. \A s \in pte' : vma'[s[1]] # NoFile
    BY <1>1, <1>2, DeviceAssumption DEF Anchored, TypeOK, Slots
  <2>3. Anchored'
    BY <1>1, <2>1, <2>2 DEF Anchored, refVars
  <2>4. Paired'
    BY <1>1 DEF Paired, modVars, refVars
  <2> QED
    BY <2>3, <2>4
<1>5. \A s \in pte : vma'[s[1]] = vma[s[1]]
  BY <1>1, <1>3 DEF TypeOK, Slots
<1>6. ASSUME NEW g \in Files PROVE count'[g] = Cardinality(References(g)')
  <2>1. CASE UNCHANGED <<pte, count>>
    <3>1. References(g)' = References(g)
      BY <1>1, <1>5, <2>1 DEF References, Uses, OwnUse
    <3> QED
      BY <2>1, <3>1 DEF CountsAreReal
  <2>2. CASE /\ pte' = pte \cup C
             /\ count' = [count EXCEPT ![f] = @ + Cardinality(Entries(m))]
    <3>1. \A s \in C : vma'[s[1]] = f
      BY <1>1, <1>2 DEF TypeOK
    <3>2. CASE g # f
      <4>1. References(g)' = References(g)
        BY <1>1, <1>5, <2>2, <3>1, <3>2 DEF References, Uses, OwnUse
      <4> QED
        BY <2>2, <3>2, <4>1 DEF CountsAreReal, TypeOK
    <3>3. CASE g = f
      <4>1. References(g)' = References(g) \cup C
        BY <1>1, <1>5, <2>2, <3>1, <3>3 DEF References, Uses, OwnUse
      <4>2. References(g) \cap C = {}
        <5>1. g \notin C
          BY <1>2, FileIsNoSlot
        <5>2. Uses(g) \cap C = {}
          BY <1>2, <1>3 DEF Uses
        <5> QED
          BY <5>1, <5>2 DEF References
      <4>3. IsFiniteSet(C) /\ Cardinality(C) = Cardinality(Entries(m))
        BY CopiesCounted
      <4>4. Cardinality(References(g) \cup C)
              = Cardinality(References(g)) + Cardinality(Entries(m))
        BY <4>2, <4>3, FiniteReferences, DisjointSum
      <4>5. count'[g] = count[g] + Cardinality(Entries(m))
        BY <2>2, <3>3 DEF TypeOK
      <4> QED
        BY <4>1, <4>4, <4>5 DEF CountsAreReal
    <3> QED
      BY <3>2, <3>3
  <2> QED
    BY <1>1, <2>1, <2>2
<1>7. /\ vma' \in [Mappings -> Files \cup {NoFile}]
      /\ pte' \in SUBSET Slots
  BY <1>1, <1>2 DEF TypeOK
<1>8. count' \in [Files -> Int]
  BY <1>1, EntriesOfMapping DEF TypeOK
<1> QED
  BY <1>1, <1>4, <1>6, <1>7, <1>8, PageStep DEF TypeOK

LEMMA MunmapInvariant ==
  ASSUME IInv, NEW m \in Mappings, Munmap(m)
  PROVE  IInv'
<1> USE DEF IInv
<1> DEFINE f == vma[m]
<1>1. /\ f \in Files
      /\ vma' = [vma EXCEPT ![m] = NoFile]
      /\ pte' = pte \ Entries(m)
      /\ count' = [count EXCEPT ![f] = @ - Cardinality(Entries(m))]
      /\ UNCHANGED <<modVars, refVars, file>>
  BY DEF Munmap, TypeOK
<1>2. \A s \in pte' : s \in pte /\ s[1] # m /\ vma'[s[1]] = vma[s[1]]
  BY <1>1 DEF Entries, TypeOK, Slots
<1>3. Anchored' /\ Paired'
  <2>1. \A k \in Mappings : vma'[k] # NoFile => file'[vma'[k]] \in {"open", "dangling"}
    BY <1>1 DEF Anchored, TypeOK
  <2>2. Anchored'
    BY <1>1, <1>2, <2>1 DEF Anchored, refVars
  <2>3. Paired'
    BY <1>1 DEF Paired, modVars, refVars
  <2> QED
    BY <2>2, <2>3
<1>4. ASSUME NEW g \in Files PROVE count'[g] = Cardinality(References(g)')
  <2>1. CASE g # f
    <3>1. Uses(g) \cap Entries(m) = {}
      BY <2>1 DEF Uses, Entries
    <3>2. Uses(g)' = Uses(g)
      BY <1>1, <1>2, <3>1 DEF Uses
    <3>3. References(g)' = References(g)
      BY <1>1, <3>2 DEF References, OwnUse
    <3> QED
      BY <1>1, <2>1, <3>3 DEF CountsAreReal, TypeOK
  <2>2. CASE g = f
    <3>1. Entries(m) \in SUBSET References(g)
      BY <2>2 DEF References, Uses, Entries
    <3>2. g \notin Entries(m)
      BY FileIsNoSlot DEF Entries, TypeOK
    <3>3. References(g)' = References(g) \ Entries(m)
      BY <1>1, <1>2, <2>2, <3>2 DEF References, Uses, OwnUse, Entries
    <3>4. Cardinality(References(g) \ Entries(m))
            = Cardinality(References(g)) - Cardinality(Entries(m))
      BY <3>1, FiniteReferences, TakenAway
    <3>5. count'[g] = count[g] - Cardinality(Entries(m))
      BY <1>1, <2>2 DEF TypeOK
    <3> QED
      BY <3>3, <3>4, <3>5 DEF CountsAreReal
  <2> QED
    BY <2>1, <2>2
<1>5. /\ vma' \in [Mappings -> Files \cup {NoFile}]
      /\ pte' \in SUBSET Slots
  BY <1>1 DEF TypeOK
<1>6. count' \in [Files -> Int]
  BY <1>1, EntriesOfMapping DEF TypeOK
<1> QED
  BY <1>1, <1>3, <1>4, <1>5, <1>6, PageStep DEF TypeOK

LEMMA NextInvariant ==
  ASSUME IInv, [Next]_vars
  PROVE  IInv'
<1>1. CASE ModuleStep
  BY <1>1, ModuleInvariant
<1>2. ASSUME NEW f \in Files, OpenBegins(f) \/ OpenStep(f) \/ Close(f) \/ ReleaseStep(f)
      PROVE  IInv'
  BY <1>2, OpenBeginsInvariant, AllocPageInvariant, OpenReturnsInvariant, CloseInvariant,
     ReleaseInvariant, ReleaseModuleInvariant, ReleaseReturnsInvariant
     DEF OpenStep, ReleaseStep
<1>3. ASSUME NEW m \in Mappings, MapStep(m) PROVE IInv'
  BY <1>3, MmapInvariant, FaultInvariant, ZapInvariant, ForkInvariant, MunmapInvariant
     DEF MapStep
<1>4. CASE UNCHANGED vars
  BY <1>4 DEF vars, IInv, TypeOK, CountsAreReal, Anchored, Paired, Staged, References,
              Uses, OwnUse, Loaded
<1> QED
  BY <1>1, <1>2, <1>3, <1>4 DEF Next

(* The driver is always in a state the invariant describes.                *)
THEOREM Invariant == Spec => []IInv
BY InitInvariant, NextInvariant, PTL DEF Spec

(* Types: in particular, no count is ever negative, so neither a page nor  *)
(* the module is put more often than it was got.                           *)
THEOREM TypeCorrect == Spec => []TypeOK
<1>1. IInv => TypeOK
  BY DEF IInv
<1> QED
  BY <1>1, Invariant, PTL

(* The counts are the numbers of references, for any number of files,      *)
(* mappings and pages.                                                     *)
THEOREM CountsCorrect == Spec => []CountsAreReal
<1>1. IInv => CountsAreReal
  BY DEF IInv
<1> QED
  BY <1>1, Invariant, PTL

(* A module that was removed has no file that counts in it.                *)
THEOREM SafelyUnloaded == Spec => []OnlyUncountedStranded
<1>1. IInv => OnlyUncountedStranded
  BY DEF IInv, Staged, OnlyUncountedStranded
<1> QED
  BY <1>1, Invariant, PTL

(* init and cleanup register and undo everything, in order.                *)
THEOREM RegistersAllOrNothing == Spec => []AllOrNothing
<1>1. IInv => AllOrNothing
  BY DEF IInv, Staged, AllOrNothing, Registered
<1> QED
  BY <1>1, Invariant, PTL

-----------------------------------------------------------------------------
(* The refinement of PagePool: a page is freed with its last reference.    *)

LEMMA NoReferencesNoCount ==
  ASSUME IInv, NEW f \in Files
  PROVE  count[f] = 0 <=> References(f) = {}
<1>1. IsFiniteSet(References(f))
  BY FiniteReferences DEF IInv
<1>2. count[f] = Cardinality(References(f))
  BY DEF IInv, CountsAreReal
<1> QED
  BY <1>1, <1>2, FS_EmptySet

\* No page yet.
Pageless == {"unused", "opening", "refused"}

(* A page is held while there are references to it, and only then.         *)
Shown ==
  \A f \in Files :
    /\ PageOf(f) = "held" <=> References(f) # {}
    /\ PageOf(f) = "none" <=> file[f] \in Pageless
    /\ PageOf(f) \in {"none", "held", "freed"}

LEMMA ShownFollows == IInv => Shown
<1> SUFFICES ASSUME IInv, NEW f \in Files
             PROVE  /\ PageOf(f) = "held" <=> References(f) # {}
                    /\ PageOf(f) = "none" <=> file[f] \in Pageless
                    /\ PageOf(f) \in {"none", "held", "freed"}
  BY DEF Shown
<1>1. count[f] = 0 <=> References(f) = {}
  BY NoReferencesNoCount
<1>2. file[f] \in Pageless => References(f) = {}
  BY DEF IInv, References, Uses, OwnUse, Anchored, Pageless, TypeOK, Slots
<1> QED
  BY <1>1, <1>2 DEF PageOf, Pageless

LEMMA PoolInit == Init => Pool!Init
<1> SUFFICES ASSUME Init PROVE Pool!Init
  OBVIOUS
<1>1. \A f \in Files : PageOf(f) = "none" /\ References(f) = {}
  BY DEF Init, PageOf, References, Uses, OwnUse
<1> QED
  BY <1>1 DEF Pool!Init

(* What the pool sees of a file, and of the others in a step of it.        *)
Unseen(f) == UNCHANGED <<PageOf(f), References(f)>>

LEMMA PoolStutters ==
  ASSUME \A g \in Files : Unseen(g)
  PROVE  UNCHANGED Pool!vars
BY DEF Pool!vars, Unseen

LEMMA PoolAllocates ==
  ASSUME Shown, Shown', NEW f \in Files, file[f] \in Pageless, References(f)' = {f},
         \A g \in Files \ {f} : Unseen(g)
  PROVE  Pool!Next
<1>1. PageOf(f) = "none" /\ References(f) = {} /\ PageOf(f)' = "held"
  BY DEF Shown
<1>2. Pool!Allocate(f, f)
  BY <1>1 DEF Pool!Allocate, Unseen
<1> QED
  BY <1>2 DEF Pool!Next

LEMMA PoolJoins ==
  ASSUME Shown, Shown', NEW f \in Files, NEW S \in SUBSET (Files \cup Slots),
         References(f) # {}, References(f)' = References(f) \cup S,
         \A g \in Files \ {f} : Unseen(g)
  PROVE  Pool!Next
<1>1. PageOf(f) = "held" /\ PageOf(f)' = "held"
  BY DEF Shown
<1>2. Pool!Join(f, S)
  BY <1>1 DEF Pool!Join, Unseen
<1> QED
  BY <1>2 DEF Pool!Next

LEMMA PoolLeaves ==
  ASSUME Shown, Shown', NEW f \in Files, NEW S \in SUBSET (Files \cup Slots),
         References(f) # {}, S \in SUBSET References(f), References(f)' = References(f) \ S,
         file'[f] \notin Pageless,
         \A g \in Files \ {f} : Unseen(g)
  PROVE  Pool!Next
<1>1. PageOf(f) = "held"
  BY DEF Shown
<1>2. PageOf(f)' = IF S = References(f) THEN "freed" ELSE "held"
  BY DEF Shown
<1>3. Pool!Leave(f, S)
  BY <1>1, <1>2 DEF Pool!Leave, Unseen
<1> QED
  BY <1>3 DEF Pool!Next

LEMMA PoolNext ==
  ASSUME IInv, Shown, Shown', [Next]_vars
  PROVE  [Pool!Next]_Pool!vars
<1> USE DEF IInv
<1>1. ASSUME UNCHANGED mapVars, UNCHANGED count, NEW g \in Files,
             OwnUse(g)' = OwnUse(g), file'[g] \in Pageless <=> file[g] \in Pageless
      PROVE  Unseen(g)
  BY <1>1 DEF Unseen, PageOf, Pageless, References, Uses, mapVars
<1>2. CASE ModuleStep
  <2>1. UNCHANGED <<file, count, mapVars>>
    BY <1>2 DEF ModuleStep, InitAliased, RollBack, Unload, CleanupAliased
  <2>2. \A g \in Files : Unseen(g)
    BY <1>1, <2>1 DEF OwnUse
  <2> QED
    BY <2>2, PoolStutters
<1>3. ASSUME NEW f \in Files,
             OpenBegins(f) \/ OpenReturns(f) \/ Close(f) \/ ReleaseModule(f) \/ ReleaseReturns(f)
      PROVE  [Pool!Next]_Pool!vars
  <2>1. UNCHANGED <<count, mapVars>>
    BY <1>3 DEF OpenBegins, OpenReturns, Close, ReleaseModule, ReleaseReturns
  <2>2. ASSUME NEW g \in Files
        PROVE  OwnUse(g)' = OwnUse(g) /\ (file'[g] \in Pageless <=> file[g] \in Pageless)
    BY <1>3 DEF OpenBegins, OpenReturns, Close, ReleaseModule, ReleaseReturns, OwnUse,
                Pageless, TypeOK
  <2>3. \A g \in Files : Unseen(g)
    BY <1>1, <2>1, <2>2
  <2> QED
    BY <2>3, PoolStutters
<1>4. ASSUME NEW f \in Files, AllocPage(f) PROVE [Pool!Next]_Pool!vars
  <2>1. file[f] = "opening" /\ UNCHANGED mapVars
    BY <1>4 DEF AllocPage
  <2>2. CASE file' = [file EXCEPT ![f] = "refused"] /\ UNCHANGED count
    <3>1. \A g \in Files : Unseen(g)
      BY <1>1, <2>1, <2>2 DEF OwnUse, Pageless, TypeOK
    <3> QED
      BY <3>1, PoolStutters
  <2>3. CASE file' = [file EXCEPT ![f] = "allocated"] /\ count' = [count EXCEPT ![f] = 1]
    <3>1. References(f)' = {f}
      <4>1. Uses(f)' = {}
        BY <2>1 DEF Uses, Anchored, TypeOK, Slots, mapVars
      <4> QED
        BY <2>3, <4>1 DEF References, OwnUse, TypeOK
    <3>2. \A g \in Files \ {f} : Unseen(g)
      BY <2>1, <2>3 DEF Unseen, PageOf, References, Uses, OwnUse, TypeOK, mapVars
    <3> QED
      BY <2>1, <3>1, <3>2, PoolAllocates DEF Pageless
  <2> QED
    BY <1>4, <2>2, <2>3 DEF AllocPage
<1>5. ASSUME NEW f \in Files, Release(f) PROVE [Pool!Next]_Pool!vars
  <2>1. /\ file[f] = "dangling" /\ UNCHANGED mapVars
        /\ \A m \in Mappings : vma[m] # f
        /\ file' = [file EXCEPT ![f] = "releasing"]
        /\ count' = [count EXCEPT ![f] = @ - 1]
    BY <1>5 DEF Release, Unreferenced
  <2>2. References(f) = {f} /\ References(f)' = {} /\ file'[f] = "releasing"
    BY <2>1 DEF References, Uses, OwnUse, TypeOK, Slots, mapVars
  <2>3. \A g \in Files \ {f} : Unseen(g)
    BY <2>1 DEF Unseen, PageOf, References, Uses, OwnUse, TypeOK, mapVars
  <2>4. {f} \in SUBSET (Files \cup Slots) /\ {f} \in SUBSET References(f)
        /\ References(f)' = References(f) \ {f} /\ file'[f] \notin Pageless
    BY <2>2 DEF Pageless
  <2> QED
    BY <2>2, <2>3, <2>4, PoolLeaves
<1>6. ASSUME NEW f \in Files, NEW m \in Mappings, Mmap(f, m) PROVE [Pool!Next]_Pool!vars
  <2>1. /\ vma[m] = NoFile /\ vma' = [vma EXCEPT ![m] = f]
        /\ UNCHANGED <<file, count, pte>>
    BY <1>6 DEF Mmap
  <2>2. \A s \in pte : s[1] # m /\ vma'[s[1]] = vma[s[1]]
    BY <2>1 DEF Anchored, TypeOK, Slots
  <2>3. \A g \in Files : Unseen(g)
    BY <2>1, <2>2 DEF Unseen, PageOf, References, Uses, OwnUse
  <2> QED
    BY <2>3, PoolStutters
<1>7. ASSUME NEW m \in Mappings, vma[m] # NoFile
      PROVE  vma[m] \in Files /\ vma[m] \in References(vma[m])
                              /\ file[vma[m]] \notin Pageless
  BY <1>7 DEF Anchored, TypeOK, References, OwnUse, Pageless
<1>8. ASSUME NEW m \in Mappings, NEW v \in VPages, Fault(m, v)
      PROVE  [Pool!Next]_Pool!vars
  <2> PICK f \in Files : f = vma[m]
    BY <1>7, <1>8 DEF Fault
  <2> DEFINE S == {<<m, v>>}
  <2>1. /\ vma[m] # NoFile /\ pte' = pte \cup S
        /\ count' = [count EXCEPT ![f] = @ + 1]
        /\ UNCHANGED <<file, vma>>
    BY <1>8 DEF Fault
  <2>2. f \in Files /\ References(f) # {} /\ S \in SUBSET (Files \cup Slots)
    BY <1>7, <2>1 DEF Slots
  <2>3. References(f)' = References(f) \cup S
    BY <2>1, <2>2 DEF References, Uses, OwnUse
  <2>4. \A g \in Files \ {f} : Unseen(g)
    BY <2>1, <2>2 DEF Unseen, PageOf, References, Uses, OwnUse, TypeOK
  <2> HIDE DEF S
  <2> QED
    BY <2>2, <2>3, <2>4, PoolJoins
<1>9. ASSUME NEW m \in Mappings, NEW v \in VPages, Zap(m, v)
      PROVE  [Pool!Next]_Pool!vars
  <2>0. <<m, v>> \in pte /\ vma[m] # NoFile
    BY <1>9 DEF Zap, Anchored
  <2> PICK f \in Files : f = vma[m]
    BY <1>7, <2>0
  <2> DEFINE S == {<<m, v>>}
  <2>1. /\ <<m, v>> \in pte /\ pte' = pte \ S
        /\ count' = [count EXCEPT ![f] = @ - 1]
        /\ UNCHANGED <<file, vma>>
    BY <1>9 DEF Zap
  <2>2. /\ f \in Files /\ References(f) # {} /\ S \in SUBSET (Files \cup Slots)
        /\ file'[f] \notin Pageless
    BY <1>7, <2>0, <2>1 DEF Slots
  <2>3. f # <<m, v>>
    BY <2>1, <2>2, FileIsNoSlot DEF TypeOK
  <2>4. S \in SUBSET References(f) /\ References(f)' = References(f) \ S
    BY <2>1, <2>2, <2>3 DEF References, Uses, OwnUse
  <2>5. \A g \in Files \ {f} : Unseen(g)
    BY <2>1, <2>2 DEF Unseen, PageOf, References, Uses, OwnUse, TypeOK
  <2> HIDE DEF S
  <2> QED
    BY <2>2, <2>4, <2>5, PoolLeaves
<1>10. ASSUME NEW m \in Mappings, NEW n \in Mappings, Fork(m, n)
       PROVE  [Pool!Next]_Pool!vars
  <2> PICK f \in Files : f = vma[m]
    BY <1>7, <1>10 DEF Fork
  <2> DEFINE C == {<<n, s[2]>> : s \in Entries(m)}
  <2>1. /\ f # NoFile /\ vma[n] = NoFile
        /\ vma' = [vma EXCEPT ![n] = f]
        /\ UNCHANGED file
    BY <1>10 DEF Fork
  <2>2. f \in Files /\ References(f) # {}
    BY <1>7, <2>1
  <2>3. \A s \in pte : s[1] # n /\ vma'[s[1]] = vma[s[1]]
    BY <2>1 DEF Anchored, TypeOK, Slots
  <2>4. CASE UNCHANGED <<pte, count>>
    <3>1. \A g \in Files : Unseen(g)
      BY <2>1, <2>3, <2>4 DEF Unseen, PageOf, References, Uses, OwnUse
    <3> QED
      BY <3>1, PoolStutters
  <2>5. CASE /\ pte' = pte \cup C
             /\ count' = [count EXCEPT ![f] = @ + Cardinality(Entries(m))]
    <3>1. C \in SUBSET Slots /\ \A s \in C : s[1] = n /\ vma'[s[1]] = f
      BY <2>1, EntriesOfMapping DEF Slots, TypeOK
    <3>2. References(f)' = References(f) \cup C
      BY <2>1, <2>3, <2>5, <3>1 DEF References, Uses, OwnUse
    <3>3. \A g \in Files \ {f} : Unseen(g)
      <4> SUFFICES ASSUME NEW g \in Files \ {f} PROVE Unseen(g)
        OBVIOUS
      <4>1. Uses(g)' = Uses(g)
        BY <2>3, <2>5, <3>1 DEF Uses
      <4>2. count'[g] = count[g]
        BY <2>5 DEF TypeOK
      <4> QED
        BY <2>1, <4>1, <4>2 DEF Unseen, PageOf, References, OwnUse
    <3> HIDE DEF C
    <3>4. C \in SUBSET (Files \cup Slots)
      BY <3>1
    <3> QED
      BY <2>2, <3>2, <3>3, <3>4, PoolJoins
  <2> QED
    BY <1>10, <2>4, <2>5 DEF Fork
<1>11. ASSUME NEW m \in Mappings, Munmap(m) PROVE [Pool!Next]_Pool!vars
  <2> PICK f \in Files : f = vma[m]
    BY <1>7, <1>11 DEF Munmap
  <2>1. /\ f # NoFile
        /\ vma' = [vma EXCEPT ![m] = NoFile]
        /\ pte' = pte \ Entries(m)
        /\ count' = [count EXCEPT ![f] = @ - Cardinality(Entries(m))]
        /\ UNCHANGED file
    BY <1>11 DEF Munmap
  <2>2. /\ f \in Files /\ References(f) # {}
        /\ file'[f] \notin Pageless
    BY <1>7, <2>1
  <2>3. \A s \in pte' : s[1] # m /\ vma'[s[1]] = vma[s[1]]
    BY <2>1 DEF Entries, TypeOK, Slots
  <2>4. f \notin Entries(m) /\ Entries(m) \in SUBSET Slots
    BY <2>2, FileIsNoSlot DEF Entries, TypeOK
  <2>5. Entries(m) \in SUBSET References(f) /\ References(f)' = References(f) \ Entries(m)
    <3>1. Entries(m) \in SUBSET References(f)
      BY DEF References, Uses, Entries
    <3>2. Uses(f)' = Uses(f) \ Entries(m)
      BY <2>1, <2>3 DEF Uses, Entries
    <3> QED
      BY <2>1, <2>4, <3>1, <3>2 DEF References, OwnUse
  <2>6. \A g \in Files \ {f} : Unseen(g)
    <3> SUFFICES ASSUME NEW g \in Files \ {f} PROVE Unseen(g)
      OBVIOUS
    <3>1. Uses(g) \cap Entries(m) = {}
      BY DEF Uses, Entries
    <3>2. Uses(g)' = Uses(g)
      BY <2>1, <2>3, <3>1 DEF Uses
    <3>3. count'[g] = count[g]
      BY <2>1 DEF TypeOK
    <3> QED
      BY <2>1, <3>2, <3>3 DEF Unseen, PageOf, References, OwnUse
  <2> QED
    BY <2>2, <2>4, <2>5, <2>6, PoolLeaves
<1>12. CASE UNCHANGED vars
  <2>1. \A g \in Files : Unseen(g)
    BY <1>12 DEF vars, Unseen, PageOf, References, Uses, OwnUse
  <2> QED
    BY <2>1, PoolStutters
<1> QED
  BY <1>2, <1>3, <1>4, <1>5, <1>6, <1>8, <1>9, <1>10, <1>11, <1>12
     DEF Next, OpenStep, ReleaseStep, MapStep

(* The driver implements PagePool, for any number of files and mappings.   *)
THEOREM PoolRefinement == Spec => ImplementsPagePool
<1>1. IInv' => Shown'
  BY ShownFollows, PTL
<1>2. IInv /\ [Next]_vars => [Pool!Next]_Pool!vars
  BY <1>1, ShownFollows, NextInvariant, PoolNext
<1> QED
  BY <1>2, PoolInit, Invariant, PTL DEF Spec, ImplementsPagePool, Pool!Spec
===============================================================================
