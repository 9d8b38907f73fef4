--------------------------- MODULE HostAbiProofs ---------------------------
(***************************************************************************)
(* The counters of HostAbi are exact, for any number of modules, instances *)
(* and results and any nesting of callbacks, and HostAbi implements        *)
(* HostOwnership.  The invariants are not inductive alone: destroying an   *)
(* instance must not hit one that a frame of the call stack still uses,    *)
(* which is what FramesOK adds.                                            *)
(***************************************************************************)
EXTENDS HostAbi, FiniteSetTheorems, SequenceTheorems, TLAPS

\* Every frame works on an instance of its own, in the state that belongs
\* to the operation.
FramesOK ==
  /\ \A k \in 1..Len(stack) :
       state[stack[k].inst] \in IF stack[k].op = "create" THEN {"READY"}
                                ELSE {"CALLING", "CALLING_HOST"}
  /\ \A k, l \in 1..Len(stack) : stack[k].inst = stack[l].inst => k = l

\* An existing instance has a module, and the registry counts the modules.
CountsOK ==
  /\ \A i \in Instances : Exists(i) => module[i] \in Modules
  /\ activeModules = Cardinality(loaded)

\* Every counter is exact.
CoreInv ==
  /\ TypeOK
  /\ CountsOK
  /\ ModuleRefsExact
  /\ ContextRefsExact

IInv ==
  /\ CoreInv
  /\ FramesOK
  /\ BoundEntriesStable

-----------------------------------------------------------------------------
(* Sequences and finite sets.                                              *)

\* What popping a stack does.
LEMMA PopProps ==
  ASSUME NEW S, NEW s \in Seq(S), s # <<>>
  PROVE  /\ Len(s) \in Nat \ {0}
         /\ s[Len(s)] \in S
         /\ SubSeq(s, 1, Len(s) - 1) \in Seq(S)
         /\ Len(SubSeq(s, 1, Len(s) - 1)) = Len(s) - 1
         /\ \A k \in 1..(Len(s) - 1) : SubSeq(s, 1, Len(s) - 1)[k] = s[k]
<1>1. Len(s) \in Nat \ {0}
  BY EmptySeq
<1>2. s[Len(s)] \in S
  BY <1>1, ElementOfSeq
<1> DEFINE n == Len(s) - 1
<1>3. n \in Nat /\ 1 \in Int /\ n \in Int
  BY <1>1
<1>4. \A k \in 1..n : s[k] \in S
  BY <1>1, ElementOfSeq
<1>5. /\ SubSeq(s, 1, n) \in Seq(S)
      /\ Len(SubSeq(s, 1, n)) = IF 1 <= n THEN n - 1 + 1 ELSE 0
      /\ \A k \in 1..(n - 1 + 1) : SubSeq(s, 1, n)[k] = s[1 + k - 1]
  <2> HIDE DEF n
  <2> QED
    BY <1>3, <1>4, SubSeqProperties
<1>6. Len(SubSeq(s, 1, n)) = n
  <2> HIDE DEF n
  <2> QED
    BY <1>3, <1>5
<1>7. \A k \in 1..n : SubSeq(s, 1, n)[k] = s[k]
  <2> HIDE DEF n
  <2> SUFFICES ASSUME NEW k \in 1..n PROVE SubSeq(s, 1, n)[k] = s[k]
    OBVIOUS
  <2>1. k \in 1..(n - 1 + 1) /\ 1 + k - 1 = k
    BY <1>3
  <2> QED
    BY <2>1, <1>5
<1> QED
  BY <1>1, <1>2, <1>5, <1>6, <1>7

\* Removing one slot of the registry leaves a registry.
LEMMA EraseType ==
  ASSUME NEW S, NEW s \in Seq(S), NEW k \in 1..Len(s)
  PROVE  Erase(s, k) \in Seq(S)
<1>1. SubSeq(s, 1, k - 1) \in Seq(S)
  OBVIOUS
<1>2. SubSeq(s, k + 1, Len(s)) \in Seq(S)
  OBVIOUS
<1> QED
  BY <1>1, <1>2, ConcatProperties DEF Erase

\* The subsets of the finite sets of objects are finite.
LEMMA Finite ==
  /\ \A T \in SUBSET Modules : IsFiniteSet(T)
  /\ \A T \in SUBSET Instances : IsFiniteSet(T)
  /\ \A T \in SUBSET Results : IsFiniteSet(T)
BY HostAbiAssumption, FS_Subset

\* How a finite set's cardinality counts its elements.
LEMMA CardProps ==
  ASSUME NEW T, IsFiniteSet(T)
  PROVE  /\ Cardinality(T) \in Nat
         /\ Cardinality(T) = 0 <=> T = {}
         /\ \A x : x \notin T => Cardinality(T \cup {x}) = Cardinality(T) + 1
         /\ \A x : x \in T => Cardinality(T \ {x}) = Cardinality(T) - 1
BY FS_CardinalityType, FS_EmptySet, FS_AddElement, FS_RemoveElement

-----------------------------------------------------------------------------
(* Consequences of the invariant.                                          *)

\* The counts an instance or a module contributes to.
LEMMA Counted ==
  ASSUME CoreInv
  PROVE  /\ \A m \in Modules : /\ IsFiniteSet(InstancesOf(m))
                              /\ Cardinality(InstancesOf(m)) \in Nat
         /\ IsFiniteSet(loaded) /\ Cardinality(loaded) \in Nat
         /\ IsFiniteSet(results) /\ Cardinality(results) \in Nat
         /\ \A m \in loaded : m \in Modules /\ refs[m] \in Nat \ {0}
         /\ loaded # {} => activeModules # 0 /\ refCount # 0
         /\ results # {} => refCount # 0
<1>1. \A m \in Modules : InstancesOf(m) \in SUBSET Instances
  BY DEF InstancesOf
<1>2. \A m \in Modules : IsFiniteSet(InstancesOf(m)) /\ Cardinality(InstancesOf(m)) \in Nat
  BY <1>1, Finite, FS_CardinalityType
<1>3. IsFiniteSet(loaded) /\ IsFiniteSet(results)
  BY Finite DEF CoreInv, TypeOK
<1>4. /\ Cardinality(loaded) \in Nat /\ Cardinality(results) \in Nat
      /\ loaded # {} => Cardinality(loaded) # 0
      /\ results # {} => Cardinality(results) # 0
  BY <1>3, CardProps
<1>5. \A m \in loaded : m \in Modules /\ refs[m] \in Nat \ {0}
  BY DEF CoreInv, TypeOK, ModuleRefsExact
<1>6. loaded # {} => activeModules # 0 /\ refCount # 0
  BY <1>4 DEF CoreInv, CountsOK, ContextRefsExact
<1>7. results # {} => refCount # 0
  BY <1>4 DEF CoreInv, ContextRefsExact
<1> QED
  BY <1>2, <1>3, <1>4, <1>5, <1>6, <1>7

\* An existing instance keeps its module's code loaded.
LEMMA ModulePinned ==
  ASSUME CoreInv, NEW i \in Instances, Exists(i)
  PROVE  module[i] \in loaded
<1> DEFINE m == module[i]
<1>1. m \in Modules
  BY DEF CoreInv, CountsOK
<1>2. i \in InstancesOf(m)
  BY DEF InstancesOf
<1>3. Cardinality(InstancesOf(m)) \in Nat \ {0}
  BY <1>1, <1>2, Counted, CardProps
<1>4. refs[m] # 0
  BY <1>1, <1>3 DEF CoreInv, ModuleRefsExact
<1> QED
  BY <1>1, <1>4 DEF CoreInv, ModuleRefsExact

PinnedAlive == \A i \in Instances : Exists(i) => module[i] \in loaded /\ alive

\* ... and the context alive.
LEMMA ExistsAlive == CoreInv => PinnedAlive
<1> SUFFICES ASSUME CoreInv, NEW i \in Instances, Exists(i)
             PROVE  module[i] \in loaded /\ alive
  BY DEF PinnedAlive
<1>1. module[i] \in loaded
  BY ModulePinned
<1>2. refCount # 0
  BY <1>1, Counted
<1> QED
  BY <1>1, <1>2 DEF CoreInv, ContextRefsExact

\* The same of the next state.
LEMMA ExistsAliveNext == CoreInv' => PinnedAlive'
BY ExistsAlive, PTL

-----------------------------------------------------------------------------
(* Parts of the invariant that a step leaves alone.                        *)

\* FramesOK depends on the stack and the instances' states only.
LEMMA FramesSame ==
  ASSUME FramesOK, UNCHANGED <<stack, state>>
  PROVE  FramesOK'
BY DEF FramesOK

\* ModuleRefsExact does not depend on the context.
LEMMA ModulesSame ==
  ASSUME ModuleRefsExact, UNCHANGED <<state, module, refs, accepting, loaded>>
  PROVE  ModuleRefsExact'
BY DEF ModuleRefsExact, InstancesOf, Exists

\* CountsOK depends on who exists and on what is loaded.
LEMMA CountsSame ==
  ASSUME CountsOK, UNCHANGED <<state, module, activeModules, loaded>>
  PROVE  CountsOK'
BY DEF CountsOK, Exists

\* ContextRefsExact does not depend on instances.
LEMMA ContextSame ==
  ASSUME ContextRefsExact, UNCHANGED <<refCount, closing, alive, loaded, results>>
  PROVE  ContextRefsExact'
BY DEF ContextRefsExact

\* Who exists is unchanged when states only move between existing ones.
LEMMA SameInstances ==
  ASSUME UNCHANGED module, \A i \in Instances : Exists(i)' <=> Exists(i)
  PROVE  /\ \A m \in Modules : InstancesOf(m)' = InstancesOf(m)
         /\ CountsOK /\ UNCHANGED <<activeModules, loaded>> => CountsOK'
         /\ ModuleRefsExact /\ UNCHANGED <<refs, accepting, loaded>> => ModuleRefsExact'
         /\ BoundEntriesStable /\ UNCHANGED <<alive, bound, functions>> => BoundEntriesStable'
<1>1. \A m \in Modules : InstancesOf(m)' = InstancesOf(m)
  BY DEF InstancesOf
<1>2. CountsOK /\ UNCHANGED <<activeModules, loaded>> => CountsOK'
  BY DEF CountsOK
<1>3. ModuleRefsExact /\ UNCHANGED <<refs, accepting, loaded>> => ModuleRefsExact'
  BY <1>1 DEF ModuleRefsExact
<1>4. BoundEntriesStable /\ UNCHANGED <<alive, bound, functions>> => BoundEntriesStable'
  BY DEF BoundEntriesStable
<1> QED
  BY <1>1, <1>2, <1>3, <1>4

-----------------------------------------------------------------------------
(* Releasing references.                                                   *)

\* The last reference to the context: callers show that they owned one.
LEMMA ReleaseContextOK ==
  ASSUME CoreInv, ReleaseContext, refCount # 0
  PROVE  /\ refCount' = refCount - 1 /\ refCount' \in Nat
         /\ alive' \in BOOLEAN /\ (alive' <=> refCount' # 0)
         /\ functions' \in Seq(Names)
         /\ alive' => functions' = functions
<1>1. refCount \in Nat /\ functions \in Seq(Names)
  BY DEF CoreInv, TypeOK
<1>2. refCount' = refCount - 1 /\ refCount' \in Nat /\ (refCount = 1 <=> refCount' = 0)
  BY <1>1 DEF ReleaseContext
<1>3. <<>> \in Seq(Names)
  OBVIOUS
<1> QED
  BY <1>1, <1>2, <1>3 DEF ReleaseContext

\* Releasing a module drops one of its references, and with the last one
\* the module's share of the registry and of the context.
LEMMA ReleaseModuleOK ==
  ASSUME CoreInv, NEW m \in loaded, ReleaseModule(m), UNCHANGED <<closing, results>>
  PROVE  /\ refs' \in [Modules -> Nat]
         /\ \A x \in Modules : refs'[x] = IF x = m THEN refs[x] - 1 ELSE refs[x]
         /\ loaded' \in SUBSET Modules
         /\ \A x \in Modules : x \in loaded' <=> refs'[x] # 0
         /\ activeModules' \in Nat /\ activeModules' = Cardinality(loaded')
         /\ refCount' \in Nat /\ alive' \in BOOLEAN /\ functions' \in Seq(Names)
         /\ ContextRefsExact'
         /\ alive' => functions' = functions
<1>1. /\ m \in Modules /\ refs[m] \in Nat \ {0} /\ refs \in [Modules -> Nat]
      /\ loaded \in SUBSET Modules /\ loaded # {}
  BY Counted DEF CoreInv, TypeOK
<1>2. refs[m] - 1 \in Nat /\ (refs[m] - 1 = 0 <=> refs[m] = 1)
  BY <1>1
<1>3. /\ refs' \in [Modules -> Nat]
      /\ \A x \in Modules : refs'[x] = IF x = m THEN refs[x] - 1 ELSE refs[x]
  BY <1>1, <1>2 DEF ReleaseModule
<1>4. \A x \in Modules : x \in loaded <=> refs[x] # 0
  BY DEF CoreInv, ModuleRefsExact
<1>5. CASE refs[m] # 1
  <2>1. UNCHANGED <<loaded, activeModules, refCount, alive, functions>>
    BY <1>5 DEF ReleaseModule
  <2>2. \A x \in Modules : x \in loaded' <=> refs'[x] # 0
    BY <1>1, <1>2, <1>3, <1>4, <1>5, <2>1
  <2>3. ContextRefsExact'
    BY <2>1, ContextSame DEF CoreInv
  <2> QED
    BY <1>3, <2>1, <2>2, <2>3 DEF CoreInv, TypeOK, CountsOK
<1>6. CASE refs[m] = 1
  <2>1. loaded' = loaded \ {m} /\ activeModules' = activeModules - 1 /\ ReleaseContext
    BY <1>6 DEF ReleaseModule
  <2>2. \A x \in Modules : x \in loaded' <=> refs'[x] # 0
    BY <1>1, <1>2, <1>3, <1>4, <1>6, <2>1
  <2>3. activeModules \in Nat \ {0} /\ activeModules = Cardinality(loaded) /\ refCount # 0
    BY <1>1, Counted DEF CoreInv, TypeOK, CountsOK
  <2>4. Cardinality(loaded') = Cardinality(loaded) - 1
    BY <2>1, Counted, CardProps
  <2>5. activeModules' \in Nat /\ activeModules' = Cardinality(loaded')
    BY <2>1, <2>3, <2>4
  <2>6. /\ refCount' = refCount - 1 /\ refCount' \in Nat
        /\ alive' \in BOOLEAN /\ (alive' <=> refCount' # 0)
        /\ functions' \in Seq(Names) /\ (alive' => functions' = functions)
    <3>1. CoreInv /\ ReleaseContext /\ refCount # 0
      BY <2>1, <2>3
    <3> QED
      BY ONLY <3>1, ReleaseContextOK
  <2>7. refCount' = (IF closing THEN 0 ELSE 1) + Cardinality(loaded') + Cardinality(results)
    <3>1. refCount = (IF closing THEN 0 ELSE 1) + Cardinality(loaded) + Cardinality(results)
      BY DEF CoreInv, ContextRefsExact
    <3>2. Cardinality(loaded) \in Nat /\ Cardinality(results) \in Nat
      BY Counted
    <3>3. refCount' = refCount - 1
      BY <2>6
    <3> DEFINE u == IF closing THEN 0 ELSE 1
    <3>4. u \in Nat /\ refCount = u + Cardinality(loaded) + Cardinality(results)
      BY <3>1
    <3> HIDE DEF u
    <3>5. refCount' = u + Cardinality(loaded') + Cardinality(results)
      BY ONLY <2>4, <3>2, <3>3, <3>4
    <3> QED
      BY <3>5 DEF u
  <2>8. ContextRefsExact'
    BY <2>6, <2>7 DEF ContextRefsExact
  <2> QED
    BY <1>1, <1>3, <2>1, <2>2, <2>5, <2>6, <2>8
<1> QED
  BY <1>5, <1>6

\* An instance that goes away gives its reference back.
LEMMA DropInstanceOK ==
  ASSUME CoreInv, NEW i \in Instances, Exists(i),
         state' = [state EXCEPT ![i] = "DESTROYED"], ReleaseModule(module[i]),
         UNCHANGED <<closing, results, module, accepting>>
  PROVE  CountsOK' /\ ModuleRefsExact' /\ ContextRefsExact'
<1> DEFINE m == module[i]
<1>1. m \in loaded /\ m \in Modules
  BY ModulePinned, Counted
<1>2. /\ refs' \in [Modules -> Nat]
      /\ \A x \in Modules : refs'[x] = IF x = m THEN refs[x] - 1 ELSE refs[x]
      /\ \A x \in Modules : x \in loaded' <=> refs'[x] # 0
      /\ activeModules' = Cardinality(loaded')
      /\ ContextRefsExact'
  BY <1>1, ReleaseModuleOK
<1>3. state \in [Instances -> {"NONE", "READY", "CALLING", "CALLING_HOST", "FAULTED", "DESTROYED"}]
  BY DEF CoreInv, TypeOK
<1>4. ~Exists(i)' /\ \A j \in Instances \ {i} : Exists(j)' <=> Exists(j)
  BY <1>3 DEF Exists
<1>5. InstancesOf(m)' = InstancesOf(m) \ {i} /\ i \in InstancesOf(m)
  BY <1>4 DEF InstancesOf
<1>6. \A x \in Modules \ {m} : InstancesOf(x)' = InstancesOf(x)
  BY <1>4 DEF InstancesOf
<1>7. Cardinality(InstancesOf(m)') = Cardinality(InstancesOf(m)) - 1
  BY <1>1, <1>5, Counted, CardProps
<1>8. \A x \in Modules :
        refs'[x] = (IF accepting[x] THEN 1 ELSE 0) + Cardinality(InstancesOf(x)')
  <2> SUFFICES ASSUME NEW x \in Modules
               PROVE  refs'[x] = (IF accepting[x] THEN 1 ELSE 0) + Cardinality(InstancesOf(x)')
    OBVIOUS
  <2>1. refs[x] = (IF accepting[x] THEN 1 ELSE 0) + Cardinality(InstancesOf(x))
    BY DEF CoreInv, ModuleRefsExact
  <2>2. CASE x = m
    BY <1>1, <1>2, <1>7, <2>1, <2>2, Counted
  <2>3. CASE x # m
    <3>1. InstancesOf(x)' = InstancesOf(x)
      BY <1>6, <2>3
    <3> QED
      BY <1>2, <2>1, <2>3, <3>1
  <2> QED
    BY <2>2, <2>3
<1>9. ModuleRefsExact'
  BY <1>2, <1>8 DEF ModuleRefsExact
<1>10. CountsOK'
  BY <1>2, <1>4 DEF CountsOK, CoreInv
<1> QED
  BY <1>2, <1>9, <1>10

\* As long as something is bound, the entries are still there.
LEMMA BoundKept ==
  ASSUME CoreInv', alive' => functions' = functions,
         \A i \in Instances : Exists(i)' => bound'[i] = functions
  PROVE  BoundEntriesStable'
BY ExistsAliveNext DEF BoundEntriesStable, PinnedAlive

-----------------------------------------------------------------------------
(* Every action preserves the invariant.                                   *)

\* The owner gives up its reference.
LEMMA FreeInv == IInv /\ Free => IInv'
<1> SUFFICES ASSUME IInv, Free PROVE IInv'
  OBVIOUS
<1> USE DEF IInv
<1>1. refCount # 0
  BY DEF Free, CoreInv, ContextRefsExact
<1>2. /\ refCount' = refCount - 1 /\ refCount' \in Nat
      /\ alive' \in BOOLEAN /\ (alive' <=> refCount' # 0)
      /\ functions' \in Seq(Names) /\ (alive' => functions' = functions)
  BY <1>1, ReleaseContextOK DEF Free
<1>3. TypeOK'
  BY <1>2 DEF CoreInv, TypeOK, Free, instVars
<1>4. CountsOK' /\ ModuleRefsExact' /\ FramesOK'
  BY FramesSame, ModulesSame, CountsSame DEF CoreInv, Free, instVars
<1>5. ContextRefsExact'
  BY <1>2, Counted DEF CoreInv, ContextRefsExact, Free
<1>6. CoreInv'
  BY <1>3, <1>4, <1>5 DEF CoreInv
<1>7. BoundEntriesStable'
  BY <1>2, <1>6, BoundKept DEF BoundEntriesStable, Exists, Free, instVars
<1> QED
  BY <1>4, <1>6, <1>7

\* A new result is a new reference to the context.
LEMMA ResultCreateInv ==
  ASSUME IInv, NEW r \in Results, ResultCreate(r)
  PROVE  IInv'
<1> USE DEF IInv
<1>1. TypeOK'
  BY DEF CoreInv, TypeOK, ResultCreate, RetainContext, instVars
<1>2. CountsOK' /\ ModuleRefsExact' /\ FramesOK'
  BY FramesSame, ModulesSame, CountsSame DEF CoreInv, ResultCreate, RetainContext, instVars
<1>3. Cardinality(results') = Cardinality(results) + 1
  BY Counted, CardProps DEF ResultCreate
<1>4. ContextRefsExact'
  <2>1. /\ refCount' = refCount + 1 /\ refCount \in Nat /\ alive'
        /\ loaded' = loaded /\ closing' = closing
    BY DEF CoreInv, TypeOK, ResultCreate, RetainContext
  <2>2. refCount = (IF closing THEN 0 ELSE 1) + Cardinality(loaded) + Cardinality(results)
    BY DEF CoreInv, ContextRefsExact
  <2>3. refCount' = (IF closing THEN 0 ELSE 1) + Cardinality(loaded) + Cardinality(results')
    BY <1>3, <2>1, <2>2, Counted
  <2> QED
    BY <2>1, <2>3 DEF ContextRefsExact
<1>5. CoreInv'
  BY <1>1, <1>2, <1>4 DEF CoreInv
<1>6. BoundEntriesStable'
  BY DEF BoundEntriesStable, Exists, ResultCreate, RetainContext, instVars
<1> QED
  BY <1>2, <1>5, <1>6

\* A destroyed result gives its reference back.
LEMMA ResultDestroyInv ==
  ASSUME IInv, NEW r \in Results, ResultDestroy(r)
  PROVE  IInv'
<1> USE DEF IInv
<1>1. refCount # 0
  BY Counted DEF ResultDestroy
<1>2. /\ refCount' = refCount - 1 /\ refCount' \in Nat
      /\ alive' \in BOOLEAN /\ (alive' <=> refCount' # 0)
      /\ functions' \in Seq(Names) /\ (alive' => functions' = functions)
  BY <1>1, ReleaseContextOK DEF ResultDestroy
<1>3. TypeOK'
  BY <1>2 DEF CoreInv, TypeOK, ResultDestroy, instVars
<1>4. CountsOK' /\ ModuleRefsExact' /\ FramesOK'
  BY FramesSame, ModulesSame, CountsSame DEF CoreInv, ResultDestroy, instVars
<1>5. Cardinality(results') = Cardinality(results) - 1
  BY Counted, CardProps DEF ResultDestroy
<1>6. ContextRefsExact'
  BY <1>2, <1>5, Counted DEF CoreInv, ContextRefsExact, ResultDestroy
<1>7. CoreInv'
  BY <1>3, <1>4, <1>6 DEF CoreInv
<1>8. BoundEntriesStable'
  BY <1>2, <1>7, BoundKept DEF BoundEntriesStable, Exists, ResultDestroy, instVars
<1> QED
  BY <1>4, <1>7, <1>8

\* The registry only changes while no module is loaded, hence while no
\* instance exists that is bound to it.
LEMMA RegistryInv ==
  ASSUME IInv, NEW f \in Names, Register(f) \/ Unregister(f)
  PROVE  IInv'
<1> USE DEF IInv
<1>1. functions' \in Seq(Names)
  <2>1. CASE Register(f)
    BY <2>1, AppendProperties DEF Register, CoreInv, TypeOK
  <2>2. CASE Unregister(f)
    BY <2>2, EraseType DEF Unregister, CoreInv, TypeOK
  <2> QED
    BY <2>1, <2>2
<1>2. /\ UNCHANGED <<refCount, closing, alive, activeModules, nextGeneration, depth, active,
                     loaded, refs, accepting, instVars, results, stack, handles>>
      /\ activeModules = 0
  BY DEF Register, Unregister, Frozen
<1>3. TypeOK'
  BY <1>1, <1>2 DEF CoreInv, TypeOK, instVars
<1>4. CountsOK' /\ ModuleRefsExact' /\ FramesOK' /\ ContextRefsExact'
  BY <1>2, FramesSame, ModulesSame, CountsSame, ContextSame DEF CoreInv, instVars
<1>5. CoreInv'
  BY <1>3, <1>4 DEF CoreInv
<1>6. \A i \in Instances : ~Exists(i)
  BY <1>2, Counted, ModulePinned
<1>7. \A i \in Instances : ~Exists(i)'
  BY <1>2, <1>6 DEF Exists, instVars
<1>8. BoundEntriesStable'
  BY <1>7 DEF BoundEntriesStable
<1> QED
  BY <1>4, <1>5, <1>8

\* A compiled module holds one reference to itself and one to the context.
LEMMA CompileInv ==
  ASSUME IInv, NEW m \in Modules, Compile(m)
  PROVE  IInv'
<1> USE DEF IInv
<1>1. TypeOK'
  BY DEF CoreInv, TypeOK, Compile, RetainContext, instVars
<1>2. FramesOK'
  BY FramesSame DEF Compile, instVars
<1>3. Cardinality(loaded') = Cardinality(loaded) + 1
  BY Counted, CardProps DEF Compile
<1>4. CountsOK'
  BY <1>3 DEF CoreInv, CountsOK, Exists, Compile, instVars
<1>5. ContextRefsExact'
  <2>1. /\ refCount' = refCount + 1 /\ refCount \in Nat /\ alive'
        /\ results' = results /\ closing' = closing
    BY DEF CoreInv, TypeOK, Compile, RetainContext
  <2>2. refCount = (IF closing THEN 0 ELSE 1) + Cardinality(loaded) + Cardinality(results)
    BY DEF CoreInv, ContextRefsExact
  <2>3. refCount' = (IF closing THEN 0 ELSE 1) + Cardinality(loaded') + Cardinality(results)
    BY <1>3, <2>1, <2>2, Counted
  <2> QED
    BY <2>1, <2>3 DEF ContextRefsExact
<1>6. ModuleRefsExact'
  <2>1. \A x \in Modules : InstancesOf(x)' = InstancesOf(x)
    BY DEF InstancesOf, Exists, Compile, instVars
  <2>2. /\ refs[m] = (IF accepting[m] THEN 1 ELSE 0) + Cardinality(InstancesOf(m))
        /\ refs[m] = 0
    BY DEF Compile, CoreInv, ModuleRefsExact
  <2>3. Cardinality(InstancesOf(m)) = 0
    BY <2>2, Counted
  <2>4. refs'[m] = 1 /\ accepting'[m] /\ m \in loaded'
    BY DEF Compile, CoreInv, TypeOK
  <2>5. \A x \in Modules \ {m} : /\ refs'[x] = refs[x] /\ accepting'[x] = accepting[x]
                                 /\ x \in loaded' <=> x \in loaded
    BY DEF Compile, CoreInv, TypeOK
  <2>6. \A x \in Modules \ {m} :
           /\ refs'[x] = (IF accepting'[x] THEN 1 ELSE 0) + Cardinality(InstancesOf(x)')
           /\ x \in loaded' <=> refs'[x] # 0
    BY <2>1, <2>5 DEF CoreInv, ModuleRefsExact
  <2>7. /\ refs'[m] = (IF accepting'[m] THEN 1 ELSE 0) + Cardinality(InstancesOf(m)')
        /\ m \in loaded' <=> refs'[m] # 0
    BY <2>1, <2>3, <2>4
  <2> QED
    BY <2>6, <2>7 DEF ModuleRefsExact
<1>7. CoreInv'
  BY <1>1, <1>4, <1>5, <1>6 DEF CoreInv
<1>8. BoundEntriesStable'
  BY DEF BoundEntriesStable, Exists, Compile, RetainContext, instVars
<1> QED
  BY <1>2, <1>7, <1>8

\* Closing the public handle gives its reference back, once.
LEMMA DestroyModuleInv ==
  ASSUME IInv, NEW m \in Modules, DestroyModule(m)
  PROVE  IInv'
<1> USE DEF IInv
<1>1. m \in loaded /\ ReleaseModule(m) /\ accepting[m] /\ UNCHANGED <<closing, results>>
  BY DEF DestroyModule, HandleOpen
<1>2. /\ refs' \in [Modules -> Nat]
      /\ \A x \in Modules : refs'[x] = IF x = m THEN refs[x] - 1 ELSE refs[x]
      /\ loaded' \in SUBSET Modules
      /\ \A x \in Modules : x \in loaded' <=> refs'[x] # 0
      /\ activeModules' \in Nat /\ activeModules' = Cardinality(loaded')
      /\ refCount' \in Nat /\ alive' \in BOOLEAN /\ functions' \in Seq(Names)
      /\ ContextRefsExact'
      /\ alive' => functions' = functions
  BY <1>1, ReleaseModuleOK
<1>3. TypeOK'
  BY <1>2 DEF CoreInv, TypeOK, DestroyModule, instVars
<1>4. FramesOK'
  BY FramesSame DEF DestroyModule, instVars
<1>5. CountsOK'
  BY <1>2 DEF CoreInv, CountsOK, Exists, DestroyModule, instVars
<1>6. ModuleRefsExact'
  <2>1. \A x \in Modules : InstancesOf(x)' = InstancesOf(x)
    BY DEF InstancesOf, Exists, DestroyModule, instVars
  <2>2. \A x \in Modules : accepting'[x] = IF x = m THEN FALSE ELSE accepting[x]
    BY DEF DestroyModule, CoreInv, TypeOK
  <2>3. \A x \in Modules :
          refs'[x] = (IF accepting'[x] THEN 1 ELSE 0) + Cardinality(InstancesOf(x)')
    <3> SUFFICES ASSUME NEW x \in Modules
                 PROVE  refs'[x] = (IF accepting'[x] THEN 1 ELSE 0) + Cardinality(InstancesOf(x)')
      OBVIOUS
    <3>1. /\ refs[x] = (IF accepting[x] THEN 1 ELSE 0) + Cardinality(InstancesOf(x))
          /\ Cardinality(InstancesOf(x)) \in Nat
          /\ InstancesOf(x)' = InstancesOf(x)
      BY <2>1, Counted DEF CoreInv, ModuleRefsExact
    <3>2. CASE x = m
      <4>1. accepting[x] /\ ~accepting'[x] /\ refs'[x] = refs[x] - 1
        BY <1>1, <1>2, <2>2, <3>2
      <4> QED
        BY <3>1, <4>1
    <3>3. CASE x # m
      <4>1. accepting'[x] = accepting[x] /\ refs'[x] = refs[x]
        BY <1>2, <2>2, <3>3
      <4> QED
        BY <3>1, <4>1
    <3> QED
      BY <3>2, <3>3
  <2> QED
    BY <1>2, <2>3 DEF ModuleRefsExact
<1>7. CoreInv'
  BY <1>2, <1>3, <1>5, <1>6 DEF CoreInv
<1>8. BoundEntriesStable'
  BY <1>2, <1>7, BoundKept DEF BoundEntriesStable, Exists, DestroyModule, instVars
<1> QED
  BY <1>4, <1>7, <1>8

-----------------------------------------------------------------------------
(* The call stack.                                                         *)

\* The frame that works on an instance says what state it is in.
InFrame(f, st) == st \in IF f.op = "create" THEN {"READY"} ELSE {"CALLING", "CALLING_HOST"}

\* Frames work on instances.
LEMMA FrameInstances ==
  ASSUME CoreInv
  PROVE  \A k \in 1..Len(stack) : stack[k].inst \in Instances
<1>1. stack \in Seq(Frames)
  BY DEF CoreInv, TypeOK
<1>2. \A k \in 1..Len(stack) : stack[k] \in Frames
  <2> HIDE DEF Frames
  <2> QED
    BY <1>1
<1>3. \A f \in Frames : f.inst \in Instances
  BY DEF Frames
<1> QED
  BY <1>2, <1>3

\* A new frame works on an instance no other frame uses.
LEMMA PushFrame ==
  ASSUME CoreInv, FramesOK, NEW f \in Frames, stack' = Append(stack, f),
         \A k \in 1..Len(stack) : stack[k].inst # f.inst,
         \A j \in Instances \ {f.inst} : state'[j] = state[j],
         InFrame(f, state'[f.inst])
  PROVE  FramesOK' /\ stack' \in Seq(Frames)
<1>1. stack \in Seq(Frames) /\ Len(stack) \in Nat
  BY DEF CoreInv, TypeOK
<1>2. /\ stack' \in Seq(Frames) /\ Len(stack') = Len(stack) + 1
      /\ \A k \in 1..Len(stack) : stack'[k] = stack[k]
      /\ stack'[Len(stack) + 1] = f
  BY <1>1, AppendProperties
<1>3. \A k \in 1..Len(stack) : stack[k].inst \in Instances
  BY FrameInstances
<1>4. \A k \in 1..Len(stack') : k \in 1..Len(stack) \/ k = Len(stack) + 1
  BY <1>1, <1>2
<1>5. \A k \in 1..Len(stack') : InFrame(stack'[k], state'[stack'[k].inst])
  <2> SUFFICES ASSUME NEW k \in 1..Len(stack')
               PROVE  InFrame(stack'[k], state'[stack'[k].inst])
    OBVIOUS
  <2>1. CASE k \in 1..Len(stack)
    BY <1>2, <1>3, <2>1 DEF FramesOK, InFrame
  <2>2. CASE k = Len(stack) + 1
    BY <1>2, <2>2
  <2> QED
    BY <1>4, <2>1, <2>2
<1>6. \A k, l \in 1..Len(stack') : stack'[k].inst = stack'[l].inst => k = l
  BY <1>2, <1>4 DEF FramesOK
<1> QED
  BY <1>2, <1>5, <1>6 DEF FramesOK, InFrame

\* The innermost frame goes; only its instance may change state.
LEMMA PopFrame ==
  ASSUME CoreInv, FramesOK, stack # <<>>, stack' = Pop,
         \A j \in Instances \ {Top.inst} : state'[j] = state[j]
  PROVE  FramesOK' /\ stack' \in Seq(Frames)
<1>1. stack \in Seq(Frames)
  BY DEF CoreInv, TypeOK
<1>2. /\ Len(stack) \in Nat \ {0} /\ stack' \in Seq(Frames) /\ Len(stack') = Len(stack) - 1
      /\ \A k \in 1..Len(stack') : stack'[k] = stack[k]
  BY <1>1, PopProps DEF Pop
<1>3. \A k \in 1..Len(stack') : k \in 1..Len(stack) /\ k # Len(stack)
  BY <1>2
<1>4. \A k \in 1..Len(stack') : stack[k].inst \in Instances \ {Top.inst}
  <2>1. Len(stack) \in 1..Len(stack)
    BY <1>2
  <2>2. \A k \in 1..Len(stack) : stack[k].inst \in Instances
    BY FrameInstances
  <2> QED
    BY <1>3, <2>1, <2>2 DEF FramesOK, Top
<1>5. \A k \in 1..Len(stack') : InFrame(stack'[k], state'[stack'[k].inst])
  BY <1>2, <1>3, <1>4 DEF FramesOK, InFrame
<1>6. \A k, l \in 1..Len(stack') : stack'[k].inst = stack'[l].inst => k = l
  BY <1>2, <1>3 DEF FramesOK
<1> QED
  BY <1>2, <1>5, <1>6 DEF FramesOK, InFrame

\* The innermost frame enters or leaves a callback.
LEMMA SetFrame ==
  ASSUME CoreInv, FramesOK, stack # <<>>, NEW f \in Frames, stack' = Append(Pop, f),
         f.inst = Top.inst, f.op = Top.op,
         \A j \in Instances : \/ state'[j] = state[j]
                              \/ /\ state[j] \in {"CALLING", "CALLING_HOST"}
                                 /\ state'[j] \in {"CALLING", "CALLING_HOST"}
  PROVE  FramesOK' /\ stack' \in Seq(Frames)
<1>1. stack \in Seq(Frames)
  BY DEF CoreInv, TypeOK
<1>2. /\ Len(stack) \in Nat \ {0} /\ Pop \in Seq(Frames) /\ Len(Pop) = Len(stack) - 1
      /\ \A k \in 1..(Len(stack) - 1) : Pop[k] = stack[k]
  BY <1>1, PopProps DEF Pop
<1>3. /\ stack' \in Seq(Frames) /\ Len(stack') = Len(stack)
      /\ \A k \in 1..(Len(stack) - 1) : stack'[k] = stack[k]
      /\ stack'[Len(stack)] = f
  <2>1. /\ stack' \in Seq(Frames) /\ Len(stack') = Len(Pop) + 1
        /\ \A k \in 1..Len(Pop) : stack'[k] = Pop[k]
        /\ stack'[Len(Pop) + 1] = f
    BY <1>2, AppendProperties
  <2>2. Len(Pop) + 1 = Len(stack)
    BY <1>2
  <2> QED
    BY <1>2, <2>1, <2>2
<1>4. \A k \in 1..Len(stack) : k \in 1..(Len(stack) - 1) \/ k = Len(stack)
  BY <1>2
<1>5. \A k \in 1..Len(stack) : stack'[k].inst = stack[k].inst /\ stack'[k].op = stack[k].op
  BY <1>3, <1>4 DEF Top
<1>6. \A k \in 1..Len(stack) : stack[k].inst \in Instances
  BY FrameInstances
<1>7. \A k \in 1..Len(stack') : InFrame(stack'[k], state'[stack'[k].inst])
  BY <1>3, <1>5, <1>6 DEF FramesOK, InFrame
<1>8. \A k, l \in 1..Len(stack') : stack'[k].inst = stack'[l].inst => k = l
  BY <1>3, <1>5 DEF FramesOK
<1> QED
  BY <1>3, <1>7, <1>8 DEF FramesOK, InFrame

\* The innermost frame's instance exists.
LEMMA TopExists ==
  ASSUME CoreInv, FramesOK, stack # <<>>
  PROVE  /\ Top \in Frames /\ Top.inst \in Instances /\ Exists(Top.inst)
         /\ Top.op = "create" => state[Top.inst] = "READY"
<1>1. stack \in Seq(Frames)
  BY DEF CoreInv, TypeOK
<1>2. Len(stack) \in 1..Len(stack) /\ Top \in Frames
  BY <1>1, PopProps DEF Top
<1> QED
  BY <1>2 DEF FramesOK, Exists, Frames, Top

\* An instance outside every frame: the host may destroy or call it.
LEMMA IdleInstance ==
  ASSUME CoreInv, FramesOK, NEW i \in Instances, ~Creating(i),
         state[i] \notin {"CALLING", "CALLING_HOST"}
  PROVE  \A k \in 1..Len(stack) : stack[k].inst # i
BY DEF FramesOK, Creating

-----------------------------------------------------------------------------
(* Actions on instances and on the call stack.                             *)

\* A module is pinned before its initializer can call the host back.
LEMMA BeginCreateInv ==
  ASSUME IInv, NEW m \in Modules, NEW i \in Instances, NEW r \in Results, BeginCreate(m, i, r)
  PROVE  IInv'
<1> USE DEF IInv
<1> DEFINE f == [op |-> "create", inst |-> i, result |-> r,
                 callback |-> FALSE, entered |-> None]
<1>1. f \in Frames
  BY DEF Frames
<1>2. /\ stack' = Append(stack, f) /\ state' = [state EXCEPT ![i] = "READY"]
      /\ module' = [module EXCEPT ![i] = m] /\ bound' = [bound EXCEPT ![i] = functions]
      /\ refs' = [refs EXCEPT ![m] = @ + 1] /\ state[i] = "NONE" /\ m \in loaded
      /\ UNCHANGED <<refCount, closing, alive, functions, activeModules, nextGeneration, depth,
                     active, loaded, accepting, generation, results, handles>>
  BY DEF BeginCreate, PinModule
<1>3. FramesOK' /\ stack' \in Seq(Frames)
  <2>1. \A k \in 1..Len(stack) : stack[k].inst # f.inst
    BY <1>2 DEF FramesOK
  <2>2. /\ \A j \in Instances \ {f.inst} : state'[j] = state[j]
        /\ state'[f.inst] = "READY"
    BY <1>2 DEF CoreInv, TypeOK
  <2>3. InFrame(f, state'[f.inst])
    BY <2>2 DEF InFrame
  <2> HIDE DEF f
  <2> QED
    BY <1>1, <1>2, <2>1, <2>2, <2>3, PushFrame
<1>4. TypeOK'
  <2>1. refs' \in [Modules -> Nat]
    BY <1>2 DEF CoreInv, TypeOK
  <2> QED
    BY <1>2, <1>3, <2>1 DEF CoreInv, TypeOK
<1>5. /\ \A j \in Instances \ {i} : /\ Exists(j)' <=> Exists(j)
                                    /\ module'[j] = module[j] /\ bound'[j] = bound[j]
      /\ ~Exists(i) /\ Exists(i)' /\ module'[i] = m /\ bound'[i] = functions
  BY <1>2 DEF Exists, CoreInv, TypeOK
<1>6. CountsOK'
  BY <1>2, <1>5 DEF CoreInv, CountsOK
<1>7. ModuleRefsExact'
  <2>1. InstancesOf(m)' = InstancesOf(m) \cup {i} /\ i \notin InstancesOf(m)
    BY <1>5 DEF InstancesOf
  <2>2. \A x \in Modules \ {m} : InstancesOf(x)' = InstancesOf(x)
    BY <1>5 DEF InstancesOf
  <2>3. Cardinality(InstancesOf(m)') = Cardinality(InstancesOf(m)) + 1
    BY <2>1, Counted, CardProps
  <2>4. \A x \in Modules :
          /\ refs'[x] = (IF accepting[x] THEN 1 ELSE 0) + Cardinality(InstancesOf(x)')
          /\ x \in loaded <=> refs'[x] # 0
    <3> SUFFICES ASSUME NEW x \in Modules
                 PROVE  /\ refs'[x] = (IF accepting[x] THEN 1 ELSE 0) + Cardinality(InstancesOf(x)')
                        /\ x \in loaded <=> refs'[x] # 0
      OBVIOUS
    <3>1. /\ refs[x] = (IF accepting[x] THEN 1 ELSE 0) + Cardinality(InstancesOf(x))
          /\ x \in loaded <=> refs[x] # 0
          /\ Cardinality(InstancesOf(x)) \in Nat /\ refs[x] \in Nat
      BY Counted DEF CoreInv, ModuleRefsExact, TypeOK
    <3>2. CASE x = m
      <4>1. refs'[x] = refs[x] + 1
        BY <1>2, <3>2 DEF CoreInv, TypeOK
      <4> QED
        BY <1>2, <2>3, <3>1, <3>2, <4>1
    <3>3. CASE x # m
      <4>1. refs'[x] = refs[x] /\ InstancesOf(x)' = InstancesOf(x)
        BY <1>2, <2>2, <3>3 DEF CoreInv, TypeOK
      <4> QED
        BY <3>1, <4>1
    <3> QED
      BY <3>2, <3>3
  <2> QED
    BY <1>2, <2>4 DEF ModuleRefsExact
<1>8. ContextRefsExact'
  BY <1>2, ContextSame DEF CoreInv
<1>9. CoreInv'
  BY <1>4, <1>6, <1>7, <1>8 DEF CoreInv
<1>10. BoundEntriesStable'
  BY <1>2, <1>5, <1>9, BoundKept DEF BoundEntriesStable
<1> QED
  BY <1>3, <1>9, <1>10

\* The initializer is done and the instance is handed to the host.
LEMMA CreatedInv == IInv /\ Created => IInv'
<1> SUFFICES ASSUME IInv, Created PROVE IInv'
  OBVIOUS
<1> USE DEF IInv
<1>1. /\ stack # <<>> /\ stack' = Pop
      /\ UNCHANGED <<refCount, closing, alive, functions, activeModules, depth, active, loaded,
                     refs, accepting, state, module, bound, results, handles>>
  BY DEF Created
<1>2. FramesOK' /\ stack' \in Seq(Frames)
  BY <1>1, PopFrame
<1>3. nextGeneration' \in Nat \ {0} /\ generation' \in [Instances -> 0..GenMax]
  <2>1. nextGeneration \in Nat \ {0} /\ GenMax \in Nat /\ generation \in [Instances -> 0..GenMax]
    BY HostAbiAssumption DEF CoreInv, TypeOK
  <2> DEFINE g == nextGeneration % (GenMax + 1)
  <2>2. g \in 0..GenMax
    <3>1. \A d \in Nat \ {0} : nextGeneration % d \in 0..(d - 1)
      BY <2>1
    <3>2. GenMax + 1 \in Nat \ {0} /\ (GenMax + 1) - 1 = GenMax
      BY <2>1
    <3> QED
      BY <3>1, <3>2
  <2>3. generation' = [generation EXCEPT ![Top.inst] = g] /\ nextGeneration' = nextGeneration + 1
    BY DEF Created, TakeGeneration
  <2> HIDE DEF g
  <2>4. nextGeneration' \in Nat \ {0}
    BY <2>1, <2>3
  <2>5. generation' \in [Instances -> 0..GenMax]
    BY <2>1, <2>2, <2>3
  <2> QED
    BY <2>4, <2>5
<1>4. TypeOK'
  BY <1>1, <1>2, <1>3 DEF CoreInv, TypeOK
<1>5. CountsOK' /\ ModuleRefsExact' /\ ContextRefsExact'
  BY <1>1, ModulesSame, CountsSame, ContextSame DEF CoreInv
<1>6. BoundEntriesStable'
  BY <1>1 DEF BoundEntriesStable, Exists
<1> QED
  BY <1>2, <1>4, <1>5, <1>6 DEF CoreInv

\* A failed creation gives the pin back.
LEMMA CreateFailedInv == IInv /\ CreateFailed => IInv'
<1> SUFFICES ASSUME IInv, CreateFailed PROVE IInv'
  OBVIOUS
<1> USE DEF IInv
<1> DEFINE i == Top.inst
<1>1. i \in Instances /\ Exists(i) /\ stack # <<>>
  BY TopExists DEF CreateFailed
<1>2. /\ state' = [state EXCEPT ![i] = "DESTROYED"] /\ ReleaseModule(module[i]) /\ stack' = Pop
      /\ UNCHANGED <<closing, nextGeneration, depth, active, accepting, module, generation,
                     bound, results, handles>>
  BY DEF CreateFailed
<1>3. FramesOK' /\ stack' \in Seq(Frames)
  <2>1. \A j \in Instances \ {Top.inst} : state'[j] = state[j]
    BY <1>2 DEF CoreInv, TypeOK
  <2> QED
    BY <1>1, <1>2, <2>1, PopFrame
<1> HIDE DEF i
<1>4. CountsOK' /\ ModuleRefsExact' /\ ContextRefsExact'
  BY <1>1, <1>2, DropInstanceOK
<1>5. /\ refs' \in [Modules -> Nat] /\ loaded' \in SUBSET Modules
      /\ activeModules' \in Nat /\ refCount' \in Nat /\ alive' \in BOOLEAN
      /\ functions' \in Seq(Names) /\ (alive' => functions' = functions)
  BY <1>1, <1>2, ModulePinned, ReleaseModuleOK
<1>6. TypeOK'
  BY <1>1, <1>2, <1>3, <1>5 DEF CoreInv, TypeOK
<1>7. CoreInv'
  BY <1>4, <1>6 DEF CoreInv
<1>8. \A j \in Instances : Exists(j)' => Exists(j)
  BY <1>1, <1>2 DEF Exists, CoreInv, TypeOK
<1>9. BoundEntriesStable'
  BY <1>2, <1>5, <1>7, <1>8, BoundKept DEF BoundEntriesStable
<1> QED
  BY <1>3, <1>7, <1>9

\* A destroyed instance gives its reference back; no frame is working on it.
LEMMA DestroyInstanceInv ==
  ASSUME IInv, NEW i \in Instances, DestroyInstance(i)
  PROVE  IInv'
<1> USE DEF IInv
<1>1. /\ Exists(i) /\ ~Creating(i) /\ state[i] \in {"READY", "FAULTED"}
      /\ state' = [state EXCEPT ![i] = "DESTROYED"] /\ ReleaseModule(module[i])
      /\ UNCHANGED <<closing, nextGeneration, depth, active, accepting, module, generation,
                     bound, results, stack, handles>>
  BY DEF DestroyInstance, Held, Destroyable
<1>2. FramesOK'
  <2>1. \A k \in 1..Len(stack) : stack[k].inst # i /\ stack[k].inst \in Instances
    BY <1>1, IdleInstance, FrameInstances
  <2>2. \A j \in Instances \ {i} : state'[j] = state[j]
    BY <1>1 DEF CoreInv, TypeOK
  <2> QED
    BY <1>1, <2>1, <2>2 DEF FramesOK
<1>3. CountsOK' /\ ModuleRefsExact' /\ ContextRefsExact'
  BY <1>1, DropInstanceOK
<1>4. /\ refs' \in [Modules -> Nat] /\ loaded' \in SUBSET Modules
      /\ activeModules' \in Nat /\ refCount' \in Nat /\ alive' \in BOOLEAN
      /\ functions' \in Seq(Names) /\ (alive' => functions' = functions)
  BY <1>1, ModulePinned, ReleaseModuleOK
<1>5. TypeOK'
  BY <1>1, <1>4 DEF CoreInv, TypeOK
<1>6. CoreInv'
  BY <1>3, <1>5 DEF CoreInv
<1>7. \A j \in Instances : Exists(j)' => Exists(j)
  BY <1>1 DEF Exists, CoreInv, TypeOK
<1>8. BoundEntriesStable'
  BY <1>1, <1>4, <1>6, <1>7, BoundKept DEF BoundEntriesStable
<1> QED
  BY <1>2, <1>6, <1>8

\* Resolving an export only hands out a handle.
LEMMA ResolveInv ==
  ASSUME IInv, NEW i \in Instances, Resolve(i)
  PROVE  IInv'
<1> USE DEF IInv
<1>1. TypeOK'
  BY DEF CoreInv, TypeOK, Resolve, instVars, ctxVars
<1>2. CountsOK' /\ ModuleRefsExact' /\ FramesOK' /\ ContextRefsExact'
  BY FramesSame, ModulesSame, CountsSame, ContextSame DEF CoreInv, Resolve, instVars, ctxVars
<1>3. BoundEntriesStable'
  BY DEF BoundEntriesStable, Exists, Resolve, instVars, ctxVars
<1> QED
  BY <1>1, <1>2, <1>3 DEF CoreInv

\* The same instances exist and belong to the same owners.
SameOwners ==
  /\ UNCHANGED <<closing, accepting, results, module>>
  /\ \A i \in Instances : Exists(i)' <=> Exists(i)

\* A step that moves instances between existing states and changes the
\* stack keeps every counter.
LEMMA CallStepInv ==
  ASSUME IInv, FramesOK', stack' \in Seq(Frames),
         state' \in [Instances ->
           {"NONE", "READY", "CALLING", "CALLING_HOST", "FAULTED", "DESTROYED"}],
         \A i \in Instances : Exists(i)' <=> Exists(i),
         depth' \in Nat, active' \in Instances \cup {None},
         UNCHANGED <<refCount, closing, alive, functions, activeModules, nextGeneration, loaded,
                     refs, accepting, module, generation, bound, results, handles>>
  PROVE  IInv' /\ SameOwners
<1> USE DEF IInv
<1>1. TypeOK'
  BY DEF CoreInv, TypeOK
<1>2. CountsOK' /\ ModuleRefsExact' /\ BoundEntriesStable'
  BY SameInstances DEF CoreInv
<1>3. ContextRefsExact'
  BY ContextSame DEF CoreInv
<1> QED
  BY <1>1, <1>2, <1>3 DEF CoreInv, SameOwners

\* A call is a frame of its own on a READY instance.
LEMMA BeginCallInv ==
  ASSUME IInv, NEW i \in Instances, NEW h \in handles, NEW r \in Results, BeginCall(i, h, r)
  PROVE  IInv' /\ SameOwners
<1> USE DEF IInv
<1> DEFINE f == [op |-> "call", inst |-> i, result |-> r,
                 callback |-> FALSE, entered |-> None]
<1>1. f \in Frames /\ f.inst = i /\ f.op = "call"
  BY DEF Frames
<1>2. /\ stack' = Append(stack, f) /\ state' = [state EXCEPT ![i] = "CALLING"]
      /\ active' = i /\ state[i] = "READY" /\ ~Creating(i) /\ depth' = depth
      /\ UNCHANGED <<refCount, closing, alive, functions, activeModules, nextGeneration, loaded,
                     refs, accepting, module, generation, bound, results, handles>>
  BY DEF BeginCall, Held, ctxVars
<1> HIDE DEF f
<1>3. /\ state' \in [Instances ->
           {"NONE", "READY", "CALLING", "CALLING_HOST", "FAULTED", "DESTROYED"}]
      /\ \A j \in Instances \ {i} : state'[j] = state[j]
      /\ state'[i] = "CALLING"
      /\ depth' \in Nat /\ active' \in Instances \cup {None}
  BY <1>2 DEF CoreInv, TypeOK
<1>4. FramesOK' /\ stack' \in Seq(Frames)
  <2>1. \A k \in 1..Len(stack) : stack[k].inst # f.inst
    BY <1>1, <1>2, IdleInstance
  <2>2. InFrame(f, state'[f.inst])
    BY <1>1, <1>3 DEF InFrame
  <2> QED
    BY <1>1, <1>2, <1>3, <2>1, <2>2, PushFrame
<1>5. \A j \in Instances : Exists(j)' <=> Exists(j)
  BY <1>2, <1>3 DEF Exists
<1> QED
  BY <1>2, <1>3, <1>4, <1>5, CallStepInv

\* Entering a callback moves the calling instance to CALLING_HOST.
LEMMA EnterCallbackInv == IInv /\ EnterCallback => IInv' /\ SameOwners
<1> SUFFICES ASSUME IInv, EnterCallback PROVE IInv' /\ SameOwners
  OBVIOUS
<1> USE DEF IInv
<1> DEFINE f == [Top EXCEPT !.callback = TRUE, !.entered = active]
<1>1. /\ stack # <<>> /\ stack' = Append(Pop, f) /\ depth' = depth + 1
      /\ active # None => state[active] = "CALLING"
      /\ state' = IF active # None THEN [state EXCEPT ![active] = "CALLING_HOST"] ELSE state
      /\ active' = active
      /\ UNCHANGED <<refCount, closing, alive, functions, activeModules, nextGeneration, loaded,
                     refs, accepting, module, generation, bound, results, handles>>
  BY DEF EnterCallback, ctxVars
<1>2. active \in Instances \cup {None} /\ depth \in Nat
  BY DEF CoreInv, TypeOK
<1>3. f \in Frames /\ f.inst = Top.inst /\ f.op = Top.op
  BY <1>1, <1>2, TopExists DEF Frames
<1> HIDE DEF f
<1>4. /\ state' \in [Instances ->
           {"NONE", "READY", "CALLING", "CALLING_HOST", "FAULTED", "DESTROYED"}]
      /\ \A j \in Instances : state'[j] = state[j]
                              \/ (state[j] = "CALLING" /\ state'[j] = "CALLING_HOST")
  BY <1>1, <1>2 DEF CoreInv, TypeOK
<1>5. FramesOK' /\ stack' \in Seq(Frames)
  BY <1>1, <1>3, <1>4, SetFrame
<1>6. \A j \in Instances : Exists(j)' <=> Exists(j)
  BY <1>4 DEF Exists
<1>7. depth' \in Nat /\ active' \in Instances \cup {None}
  BY <1>1, <1>2
<1> QED
  BY <1>1, <1>4, <1>5, <1>6, <1>7, CallStepInv

\* Leaving it moves the instance back.
LEMMA LeaveCallbackInv == IInv /\ LeaveCallback => IInv' /\ SameOwners
<1> SUFFICES ASSUME IInv, LeaveCallback PROVE IInv' /\ SameOwners
  OBVIOUS
<1> USE DEF IInv
<1> DEFINE f == [Top EXCEPT !.callback = FALSE, !.entered = None]
<1>1. /\ stack # <<>> /\ stack' = Append(Pop, f)
      /\ depth' = IF depth = 0 THEN 0 ELSE depth - 1
      /\ \/ state' = state
         \/ /\ active # None /\ state[active] = "CALLING_HOST"
            /\ state' = [state EXCEPT ![active] = "CALLING"]
      /\ active' = active
      /\ UNCHANGED <<refCount, closing, alive, functions, activeModules, nextGeneration, loaded,
                     refs, accepting, module, generation, bound, results, handles>>
  BY DEF LeaveCallback, ctxVars
<1>2. active \in Instances \cup {None} /\ depth \in Nat
  BY DEF CoreInv, TypeOK
<1>3. f \in Frames /\ f.inst = Top.inst /\ f.op = Top.op
  BY <1>1, TopExists DEF Frames
<1> HIDE DEF f
<1>4. /\ state' \in [Instances ->
           {"NONE", "READY", "CALLING", "CALLING_HOST", "FAULTED", "DESTROYED"}]
      /\ \A j \in Instances : state'[j] = state[j]
                              \/ (state[j] = "CALLING_HOST" /\ state'[j] = "CALLING")
  BY <1>1, <1>2 DEF CoreInv, TypeOK
<1>5. FramesOK' /\ stack' \in Seq(Frames)
  BY <1>1, <1>3, <1>4, SetFrame
<1>6. \A j \in Instances : Exists(j)' <=> Exists(j)
  BY <1>4 DEF Exists
<1>7. depth' \in Nat /\ active' \in Instances \cup {None}
  BY <1>1, <1>2
<1> QED
  BY <1>1, <1>4, <1>5, <1>6, <1>7, CallStepInv

\* A finished call leaves its instance READY or FAULTED.
LEMMA FinishCallInv ==
  ASSUME IInv, NEW ok \in BOOLEAN, FinishCall(ok)
  PROVE  IInv' /\ SameOwners
<1> USE DEF IInv
<1>1. /\ stack # <<>> /\ stack' = Pop /\ depth' = depth
      /\ active' = IF active = Top.inst THEN None ELSE active
      /\ \/ state' = [state EXCEPT ![Top.inst] = "READY"]
         \/ state' = [state EXCEPT ![Top.inst] = "FAULTED"]
      /\ UNCHANGED <<refCount, closing, alive, functions, activeModules, nextGeneration, loaded,
                     refs, accepting, module, generation, bound, results, handles>>
  BY DEF FinishCall, ctxVars
<1>2. Top.inst \in Instances /\ Exists(Top.inst)
  BY <1>1, TopExists
<1>3. /\ state' \in [Instances ->
           {"NONE", "READY", "CALLING", "CALLING_HOST", "FAULTED", "DESTROYED"}]
      /\ \A j \in Instances \ {Top.inst} : state'[j] = state[j]
      /\ state'[Top.inst] \in {"READY", "FAULTED"}
  BY <1>1, <1>2 DEF CoreInv, TypeOK
<1>4. FramesOK' /\ stack' \in Seq(Frames)
  BY <1>1, <1>3, PopFrame
<1>5. \A j \in Instances : Exists(j)' <=> Exists(j)
  BY <1>2, <1>3 DEF Exists
<1>6. depth' \in Nat /\ active' \in Instances \cup {None}
  BY <1>1 DEF CoreInv, TypeOK
<1> QED
  BY <1>1, <1>3, <1>4, <1>5, <1>6, CallStepInv

-----------------------------------------------------------------------------
(* The theorems.                                                           *)

\* The invariant holds in a freshly created context.
LEMMA InitIInv == Init => IInv
<1> SUFFICES ASSUME Init PROVE IInv
  OBVIOUS
<1>1. TypeOK
  <2>1. <<>> \in Seq(Names) /\ <<>> \in Seq(Frames) /\ 0 \in 0..GenMax
    BY HostAbiAssumption, EmptySeq
  <2>2. /\ functions \in Seq(Names) /\ stack \in Seq(Frames)
        /\ bound \in [Instances -> Seq(Names)] /\ generation \in [Instances -> 0..GenMax]
    BY <2>1 DEF Init
  <2>3. handles \in SUBSET [owner : Instances, generation : 0..GenMax]
    BY DEF Init
  <2>4. /\ refCount \in Nat /\ activeModules \in Nat /\ nextGeneration \in Nat \ {0}
        /\ depth \in Nat /\ refs \in [Modules -> Nat]
    BY DEF Init
  <2>5. /\ closing \in BOOLEAN /\ alive \in BOOLEAN /\ accepting \in [Modules -> BOOLEAN]
        /\ active \in Instances \cup {None}
        /\ loaded \in SUBSET Modules /\ results \in SUBSET Results
    BY DEF Init
  <2>6. /\ state \in [Instances ->
             {"NONE", "READY", "CALLING", "CALLING_HOST", "FAULTED", "DESTROYED"}]
        /\ module \in [Instances -> Modules \cup {None}]
    BY DEF Init
  <2> QED
    BY <2>2, <2>3, <2>4, <2>5, <2>6 DEF TypeOK
<1>2. \A i \in Instances : ~Exists(i)
  BY DEF Init, Exists
<1>3. \A m \in Modules : InstancesOf(m) = {}
  BY <1>2 DEF InstancesOf
<1>4. Cardinality({}) = 0
  BY FS_EmptySet
<1>5. ModuleRefsExact
  <2>1. \A m \in Modules : refs[m] = 0 /\ ~accepting[m] /\ m \notin loaded
    BY DEF Init
  <2>2. \A m \in Modules : Cardinality(InstancesOf(m)) = 0
    BY <1>3, <1>4
  <2> QED
    BY <2>1, <2>2 DEF ModuleRefsExact
<1>6. CountsOK /\ ContextRefsExact /\ BoundEntriesStable
  BY <1>2, <1>4 DEF Init, CountsOK, ContextRefsExact, BoundEntriesStable
<1>7. FramesOK
  BY DEF Init, FramesOK
<1> QED
  BY <1>1, <1>5, <1>6, <1>7 DEF IInv, CoreInv

\* Every step of the ABI preserves it.
LEMMA NextIInv == IInv /\ [Next]_vars => IInv'
<1> SUFFICES ASSUME IInv, [Next]_vars PROVE IInv'
  OBVIOUS
<1>1. CASE UNCHANGED vars
  <2>1. TypeOK'
    BY <1>1 DEF IInv, CoreInv, TypeOK, vars
  <2>2. CountsOK' /\ ModuleRefsExact' /\ FramesOK' /\ ContextRefsExact' /\ BoundEntriesStable'
    BY <1>1, FramesSame, ModulesSame, CountsSame, ContextSame
    DEF IInv, CoreInv, vars, BoundEntriesStable, Exists
  <2> QED
    BY <2>1, <2>2 DEF IInv, CoreInv
<1>2. CASE Next
  BY <1>2, FreeInv, ResultCreateInv, ResultDestroyInv, RegistryInv, CompileInv,
     DestroyModuleInv, BeginCreateInv, CreatedInv, CreateFailedInv, DestroyInstanceInv,
     ResolveInv, BeginCallInv, EnterCallbackInv, LeaveCallbackInv, FinishCallInv DEF Next
<1> QED
  BY <1>1, <1>2

\* The invariant of the host ABI.
THEOREM Invariance == Spec => []IInv
BY InitIInv, NextIInv, PTL DEF Spec

\* Module and context reference counts are exact in every reachable state,
\* for any nesting of initializers, callbacks and destructions.
THEOREM CountersExact == Spec => [](TypeOK /\ RefCountsExact)
<1>1. IInv => TypeOK /\ RefCountsExact
  BY DEF IInv, CoreInv, RefCountsExact
<1> QED
  BY <1>1, Invariance, PTL

\* No instance's runtime ever holds a stale pointer into the registry.
THEOREM EntriesStable == Spec => []BoundEntriesStable
<1>1. IInv => BoundEntriesStable
  BY DEF IInv
<1> QED
  BY <1>1, Invariance, PTL

-----------------------------------------------------------------------------
(* HostAbi implements HostOwnership.                                       *)

OpenHandles == {m \in Modules : accepting[m]}
PinnedBy == [i \in Instances |-> IF Exists(i) THEN module[i] ELSE None]
Needs == OpenHandles \cup {m \in Modules : \E i \in Instances : PinnedBy[i] = m}

\* Exact counters say what is in memory: what somebody needs.
MemorySettled ==
  /\ loaded = Needs
  /\ alive = (~closing \/ Needs # {} \/ results # {})

\* The counters decide as the owners would.
LEMMA Settled == IInv => MemorySettled
<1> SUFFICES ASSUME IInv PROVE MemorySettled
  OBVIOUS
<1> USE DEF IInv
<1>1. \A m \in Modules : m \in loaded <=> (accepting[m] \/ InstancesOf(m) # {})
  <2> SUFFICES ASSUME NEW m \in Modules
               PROVE  m \in loaded <=> (accepting[m] \/ InstancesOf(m) # {})
    OBVIOUS
  <2>1. /\ refs[m] = (IF accepting[m] THEN 1 ELSE 0) + Cardinality(InstancesOf(m))
        /\ m \in loaded <=> refs[m] # 0
        /\ Cardinality(InstancesOf(m)) \in Nat
        /\ Cardinality(InstancesOf(m)) = 0 <=> InstancesOf(m) = {}
    BY Counted, CardProps DEF CoreInv, ModuleRefsExact
  <2>2. refs[m] # 0 <=> (accepting[m] \/ Cardinality(InstancesOf(m)) # 0)
    BY <2>1
  <2> QED
    BY <2>1, <2>2
<1>2. \A m \in Modules : InstancesOf(m) # {} <=> \E i \in Instances : PinnedBy[i] = m
  BY HostAbiAssumption DEF InstancesOf, PinnedBy
<1>3. loaded = Needs
  BY <1>1, <1>2 DEF Needs, OpenHandles, CoreInv, TypeOK
<1>4. alive <=> (~closing \/ loaded # {} \/ results # {})
  <2>1. /\ refCount = (IF closing THEN 0 ELSE 1) + Cardinality(loaded) + Cardinality(results)
        /\ alive <=> refCount # 0
    BY DEF CoreInv, ContextRefsExact
  <2>2. /\ Cardinality(loaded) \in Nat /\ (Cardinality(loaded) = 0 <=> loaded = {})
        /\ Cardinality(results) \in Nat /\ (Cardinality(results) = 0 <=> results = {})
    BY Counted, CardProps
  <2>3. refCount # 0 <=> (~closing \/ Cardinality(loaded) # 0 \/ Cardinality(results) # 0)
    BY <2>1, <2>2
  <2> QED
    BY <2>1, <2>2, <2>3
<1>5. alive \in BOOLEAN
  BY DEF CoreInv, TypeOK
<1> QED
  BY <1>3, <1>4, <1>5 DEF MemorySettled

\* The same of the next state.
LEMMA SettledNext == IInv' => MemorySettled'
BY Settled, PTL

\* Hence a step that changes the owners as HostOwnership does also changes
\* memory as HostOwnership does.
LEMMA OwnersStep ==
  ASSUME IInv'
  PROVE  Ownership!Owners(OpenHandles', PinnedBy', results', closing')
<1>1. loaded' = OpenHandles' \cup {m \in Modules : \E i \in Instances : PinnedBy'[i] = m}
  BY SettledNext DEF MemorySettled, Needs
<1>2. alive' = (~closing' \/ loaded' # {} \/ results' # {})
  BY SettledNext DEF MemorySettled
<1>3. /\ Ownership!Needed(OpenHandles', PinnedBy') = loaded'
  BY <1>1 DEF Ownership!Needed
<1> QED
  BY <1>2, <1>3 DEF Ownership!Owners, Ownership!Settle, OpenHandles, PinnedBy

\* A step that leaves the owners alone leaves memory alone.
LEMMA Stutter ==
  ASSUME IInv, IInv', SameOwners
  PROVE  UNCHANGED Ownership!avars
<1>1. OpenHandles' = OpenHandles /\ PinnedBy' = PinnedBy
  BY DEF SameOwners, OpenHandles, PinnedBy
<1>2. loaded' = loaded /\ alive' = alive
  BY <1>1, Settled, SettledNext DEF MemorySettled, Needs, SameOwners
<1> QED
  BY <1>1, <1>2 DEF Ownership!avars, SameOwners, OpenHandles, PinnedBy

\* Every step of the ABI is a step of HostOwnership or no step of it at all.
LEMMA OwnershipStep ==
  IInv /\ IInv' /\ [Next]_vars => [Ownership!ANext]_(Ownership!avars)
<1> SUFFICES ASSUME IInv, IInv', [Next]_vars
             PROVE  Ownership!ANext \/ UNCHANGED Ownership!avars
  OBVIOUS
<1>a. Ownership!Owners(OpenHandles', PinnedBy', results', closing')
  BY OwnersStep
<1>1. CASE UNCHANGED vars
  <2>1. SameOwners
    BY <1>1 DEF SameOwners, vars, Exists
  <2> QED
    BY <2>1, Stutter
<1>2. CASE Free
  <2>1. ~closing /\ OpenHandles' = OpenHandles /\ PinnedBy' = PinnedBy
        /\ results' = results /\ closing' = TRUE
    BY <1>2 DEF Free, OpenHandles, PinnedBy, Exists, instVars
  <2>2. Ownership!Owners(OpenHandles, PinnedBy, results, TRUE)
    BY <1>a, <2>1 DEF Ownership!Owners, Ownership!Settle, Ownership!Needed
  <2> QED
    BY <2>1, <2>2 DEF Ownership!ANext, Ownership!Close, OpenHandles, PinnedBy
<1>3. ASSUME NEW r \in Results, ResultCreate(r) PROVE Ownership!ANext
  <2>1. alive /\ r \notin results /\ OpenHandles' = OpenHandles /\ PinnedBy' = PinnedBy
        /\ results' = results \cup {r} /\ closing' = closing
    BY <1>3 DEF ResultCreate, RetainContext, OpenHandles, PinnedBy, Exists, instVars
  <2>2. Ownership!Owners(OpenHandles, PinnedBy, results \cup {r}, closing)
    BY <1>a, <2>1 DEF Ownership!Owners, Ownership!Settle, Ownership!Needed
  <2> QED
    BY <2>1, <2>2 DEF Ownership!ANext, Ownership!TakeResult, OpenHandles, PinnedBy
<1>4. ASSUME NEW r \in Results, ResultDestroy(r) PROVE Ownership!ANext
  <2>1. r \in results /\ OpenHandles' = OpenHandles /\ PinnedBy' = PinnedBy
        /\ results' = results \ {r} /\ closing' = closing
    BY <1>4 DEF ResultDestroy, OpenHandles, PinnedBy, Exists, instVars
  <2>2. Ownership!Owners(OpenHandles, PinnedBy, results \ {r}, closing)
    BY <1>a, <2>1 DEF Ownership!Owners, Ownership!Settle, Ownership!Needed
  <2> QED
    BY <2>1, <2>2 DEF Ownership!ANext, Ownership!DropResult, OpenHandles, PinnedBy
<1>5. ASSUME NEW f \in Names, Register(f) \/ Unregister(f) PROVE UNCHANGED Ownership!avars
  <2>1. SameOwners
    BY <1>5 DEF Register, Unregister, SameOwners, Exists, instVars
  <2> QED
    BY <2>1, Stutter
<1>6. ASSUME NEW m \in Modules, Compile(m) PROVE Ownership!ANext
  <2>1. /\ alive /\ ~closing /\ m \notin loaded /\ PinnedBy' = PinnedBy
        /\ results' = results /\ closing' = closing
    BY <1>6 DEF Compile, PinnedBy, Exists, instVars
  <2>2. OpenHandles' = OpenHandles \cup {m}
    BY <1>6 DEF Compile, OpenHandles, IInv, CoreInv, TypeOK
  <2>3. Ownership!Owners(OpenHandles \cup {m}, PinnedBy, results, closing)
    BY <1>a, <2>1, <2>2 DEF Ownership!Owners, Ownership!Settle, Ownership!Needed
  <2> QED
    BY <2>1, <2>3 DEF Ownership!ANext, Ownership!Load, OpenHandles, PinnedBy
<1>7. ASSUME NEW m \in Modules, DestroyModule(m) PROVE Ownership!ANext
  <2>1. /\ m \in OpenHandles /\ PinnedBy' = PinnedBy
        /\ results' = results /\ closing' = closing
    BY <1>7 DEF DestroyModule, HandleOpen, OpenHandles, PinnedBy, Exists, instVars
  <2>2. OpenHandles' = OpenHandles \ {m}
    BY <1>7 DEF DestroyModule, OpenHandles, IInv, CoreInv, TypeOK
  <2>3. Ownership!Owners(OpenHandles \ {m}, PinnedBy, results, closing)
    BY <1>a, <2>1, <2>2 DEF Ownership!Owners, Ownership!Settle, Ownership!Needed
  <2> QED
    BY <2>1, <2>3 DEF Ownership!ANext, Ownership!CloseHandle, OpenHandles, PinnedBy
<1>8. ASSUME NEW m \in Modules, NEW i \in Instances, NEW r \in Results, BeginCreate(m, i, r)
      PROVE  Ownership!ANext
  <2>1. /\ ~closing /\ m \in OpenHandles /\ OpenHandles' = OpenHandles
        /\ results' = results /\ closing' = closing
    BY <1>8 DEF BeginCreate, OpenHandles
  <2>2. PinnedBy[i] = None /\ PinnedBy' = [PinnedBy EXCEPT ![i] = m]
    BY <1>8 DEF BeginCreate, PinnedBy, Exists, IInv, CoreInv, TypeOK
  <2>3. Ownership!Owners(OpenHandles, [PinnedBy EXCEPT ![i] = m], results, closing)
    BY <1>a, <2>1, <2>2 DEF Ownership!Owners, Ownership!Settle, Ownership!Needed
  <2> QED
    BY <2>1, <2>2, <2>3 DEF Ownership!ANext, Ownership!Pin, OpenHandles, PinnedBy
<1>9. ASSUME NEW i \in Instances, Exists(i), state' = [state EXCEPT ![i] = "DESTROYED"],
             UNCHANGED <<module, accepting, results, closing>>
      PROVE  Ownership!ANext
  <2>1. OpenHandles' = OpenHandles
    BY <1>9 DEF OpenHandles
  <2>2. PinnedBy[i] # None
    BY <1>9, HostAbiAssumption DEF PinnedBy, IInv, CoreInv, CountsOK
  <2>3. PinnedBy' = [PinnedBy EXCEPT ![i] = None]
    BY <1>9 DEF PinnedBy, Exists, IInv, CoreInv, TypeOK
  <2>4. Ownership!Owners(OpenHandles, [PinnedBy EXCEPT ![i] = None], results, closing)
    BY <1>a, <1>9, <2>1, <2>3 DEF Ownership!Owners, Ownership!Settle, Ownership!Needed
  <2> QED
    BY <2>2, <2>4 DEF Ownership!ANext, Ownership!Unpin, OpenHandles, PinnedBy
<1>10. CASE CreateFailed
  <2>1. Top.inst \in Instances /\ Exists(Top.inst)
    BY <1>10, TopExists DEF CreateFailed, IInv
  <2> QED
    BY <1>9, <1>10, <2>1 DEF CreateFailed
<1>11. ASSUME NEW i \in Instances, DestroyInstance(i) PROVE Ownership!ANext
  BY <1>9, <1>11 DEF DestroyInstance, Held
<1>12. CASE Created
  <2>1. SameOwners
    BY <1>12 DEF Created, SameOwners, Exists
  <2> QED
    BY <2>1, Stutter
<1>13. ASSUME NEW i \in Instances, Resolve(i) PROVE UNCHANGED Ownership!avars
  <2>1. SameOwners
    BY <1>13 DEF Resolve, SameOwners, Exists, instVars
  <2> QED
    BY <2>1, Stutter
<1>14. ASSUME NEW i \in Instances, NEW h \in handles, NEW r \in Results, BeginCall(i, h, r)
       PROVE  UNCHANGED Ownership!avars
  BY <1>14, BeginCallInv, Stutter
<1>15. CASE EnterCallback
  BY <1>15, EnterCallbackInv, Stutter
<1>16. CASE LeaveCallback
  BY <1>16, LeaveCallbackInv, Stutter
<1>17. ASSUME NEW ok \in BOOLEAN, FinishCall(ok) PROVE UNCHANGED Ownership!avars
  BY <1>17, FinishCallInv, Stutter
<1> QED
  BY <1>1, <1>2, <1>3, <1>4, <1>5, <1>6, <1>7, <1>8, <1>10, <1>11, <1>12, <1>13, <1>14,
     <1>15, <1>16, <1>17 DEF Next

\* A fresh context owns nothing but itself.
LEMMA OwnershipInit == Init => Ownership!AInit
<1> SUFFICES ASSUME Init PROVE Ownership!AInit
  OBVIOUS
<1>1. OpenHandles = {} /\ PinnedBy = [i \in Instances |-> None]
  BY DEF Init, OpenHandles, PinnedBy, Exists
<1> QED
  BY <1>1 DEF Init, Ownership!AInit, OpenHandles, PinnedBy

\* The reference counts implement the ownership promise: the code of a
\* module and the context are freed exactly when their last owner goes.
THEOREM Refinement == Spec => ImplementsOwnership
<1>1. Init => Ownership!AInit
  BY OwnershipInit
<1>2. IInv /\ IInv' /\ [Next]_vars => [Ownership!ANext]_(Ownership!avars)
  BY OwnershipStep
<1> QED
  BY <1>1, <1>2, Invariance, PTL DEF Spec, ImplementsOwnership, Ownership!ASpec

-----------------------------------------------------------------------------
(* Callbacks nest properly.                                                *)

\* A callback remembers the instance whose call it interrupted; only a
\* frame that is itself a call has one.
EnteredOK ==
  \A k \in 1..Len(stack) :
    stack[k].callback => stack[k].entered = IF stack[k].op = "call" THEN stack[k].inst ELSE None

Calls == CallsConsistent /\ EnteredOK

\* A step outside the call stack leaves the bookkeeping of calls alone.
LEMMA CallsSame ==
  ASSUME IInv, Calls, UNCHANGED <<stack, depth, active>>,
         \A j \in Instances : state[j] \in {"CALLING", "CALLING_HOST"} => state'[j] = state[j]
  PROVE  Calls'
<1>1. \A k \in 1..Len(stack) : stack[k].inst \in Instances
  BY FrameInstances DEF IInv
<1> QED
  BY <1>1 DEF Calls, CallsConsistent, EnteredOK, HostRuns, Top

\* A frame pushed while the host runs is the only one outside a callback.
LEMMA CallsPush ==
  ASSUME IInv, Calls, HostRuns, NEW f \in Frames, stack' = Append(stack, f), ~f.callback,
         depth' = depth,
         \/ f.op = "create" /\ active' = active
         \/ f.op = "call" /\ depth = 0 /\ active' = f.inst /\ state'[f.inst] = "CALLING",
         \A j \in Instances : state[j] \in {"CALLING", "CALLING_HOST"} => state'[j] = state[j]
  PROVE  Calls'
<1>1. stack \in Seq(Frames) /\ Len(stack) \in Nat
  BY DEF IInv, CoreInv, TypeOK
<1>2. /\ Len(stack') = Len(stack) + 1 /\ stack' # <<>>
      /\ \A k \in 1..Len(stack) : stack'[k] = stack[k]
      /\ stack'[Len(stack) + 1] = f
  BY <1>1, AppendProperties
<1>3. \A k \in 1..Len(stack) : stack[k].inst \in Instances
  BY FrameInstances DEF IInv
<1>4. \A k \in 1..Len(stack') : k \in 1..Len(stack) \/ k = Len(stack')
  BY <1>1, <1>2
<1>5. \A k \in 1..Len(stack) : stack[k].callback
  BY <1>1 DEF Calls, CallsConsistent, HostRuns, Top
<1>6. depth = Len(stack)
  BY DEF Calls, CallsConsistent
<1>7. depth' = IF HostRuns' THEN Len(stack') ELSE Len(stack') - 1
  BY <1>1, <1>2, <1>6 DEF HostRuns, Top
<1>8. EnteredOK'
  BY <1>1, <1>2, <1>4 DEF Calls, EnteredOK
<1>9. CASE f.op = "create" /\ active' = active
  <2>1. \A k \in 1..Len(stack') :
          /\ k # Len(stack') => stack'[k].callback
          /\ stack'[k].op = "call" =>
               /\ k = 1 /\ active' = stack'[k].inst
               /\ state'[active'] = IF stack'[k].callback THEN "CALLING_HOST" ELSE "CALLING"
    BY <1>1, <1>2, <1>3, <1>4, <1>5, <1>9 DEF Calls, CallsConsistent
  <2>2. active' # None => stack' # <<>> /\ stack'[1].op = "call"
    <3>1. stack # <<>> => 1 \in 1..Len(stack)
      BY <1>1, EmptySeq
    <3> QED
      BY <1>2, <1>9, <3>1 DEF Calls, CallsConsistent
  <2> QED
    BY <1>7, <1>8, <2>1, <2>2 DEF Calls, CallsConsistent
<1>10. CASE f.op = "call" /\ depth = 0 /\ active' = f.inst /\ state'[f.inst] = "CALLING"
  <2>1. Len(stack) = 0 /\ Len(stack') = 1 /\ stack'[1] = f
    BY <1>1, <1>2, <1>6, <1>10
  <2> QED
    BY <1>2, <1>4, <1>7, <1>8, <1>10, <2>1 DEF Calls, CallsConsistent
<1> QED
  BY <1>9, <1>10

\* When the innermost frame goes, its caller is inside a callback again.
LEMMA CallsPop ==
  ASSUME IInv, Calls, stack # <<>>, ~Top.callback, stack' = Pop, depth' = depth,
         active' = IF Top.op = "call" THEN None ELSE active,
         \A j \in Instances \ {Top.inst} : state'[j] = state[j],
         Top.op = "create" => state[Top.inst] = "READY"
  PROVE  Calls'
<1>1. stack \in Seq(Frames)
  BY DEF IInv, CoreInv, TypeOK
<1>2. /\ Len(stack) \in Nat \ {0} /\ stack' \in Seq(Frames) /\ Len(stack') = Len(stack) - 1
      /\ \A k \in 1..Len(stack') : stack'[k] = stack[k]
  BY <1>1, PopProps DEF Pop
<1>3. \A k \in 1..Len(stack') : k \in 1..Len(stack) /\ k # Len(stack)
  BY <1>2
<1>4. \A k \in 1..Len(stack') : stack[k].inst \in Instances /\ stack[k].callback
  BY <1>3, FrameInstances DEF IInv, Calls, CallsConsistent
<1>5. depth = Len(stack')
  BY <1>2 DEF Calls, CallsConsistent, HostRuns
<1>6. HostRuns'
  <2>1. stack' # <<>> => Len(stack') \in 1..Len(stack')
    BY <1>2, EmptySeq
  <2> QED
    BY <1>2, <1>4, <2>1 DEF HostRuns, Top
<1>7. EnteredOK'
  BY <1>2, <1>3 DEF Calls, EnteredOK
<1>8. CASE Top.op = "call"
  <2>1. Len(stack) \in 1..Len(stack)
    BY <1>2
  <2>2. Len(stack) = 1
    BY <1>8, <2>1 DEF Calls, CallsConsistent, Top
  <2>3. Len(stack') = 0
    BY <1>2, <2>2
  <2>4. 1..Len(stack') = {}
    BY <2>3
  <2> QED
    BY <1>5, <1>6, <1>7, <1>8, <2>4 DEF Calls, CallsConsistent
<1>9. CASE Top.op # "call"
  <2>1. Top \in Frames /\ Top.op = "create"
    BY <1>9, TopExists DEF IInv, Frames
  <2>2. active' = active
    BY <1>9
  <2>3. \A k \in 1..Len(stack') :
          stack'[k].op = "call" =>
            /\ k = 1 /\ active' = stack'[k].inst
            /\ state'[active'] = IF stack'[k].callback THEN "CALLING_HOST" ELSE "CALLING"
    <3> SUFFICES ASSUME NEW k \in 1..Len(stack'), stack'[k].op = "call"
                 PROVE  /\ k = 1 /\ active' = stack'[k].inst
                        /\ state'[active'] =
                             IF stack'[k].callback THEN "CALLING_HOST" ELSE "CALLING"
      OBVIOUS
    <3>1. stack'[k] = stack[k] /\ k \in 1..Len(stack)
      BY <1>2, <1>3
    <3>2. k = 1 /\ active = stack[k].inst /\ state[active] = "CALLING_HOST" /\ stack[k].callback
      BY <1>4, <3>1 DEF Calls, CallsConsistent
    <3>3. active \in Instances \ {Top.inst}
      BY <1>4, <2>1, <3>2
    <3> QED
      BY <2>2, <3>1, <3>2, <3>3
  <2>4. active' # None => stack' # <<>> /\ stack'[1].op = "call"
    <3> SUFFICES ASSUME active # None PROVE stack' # <<>> /\ stack'[1].op = "call"
      BY <2>2
    <3>1. stack[1].op = "call"
      BY DEF Calls, CallsConsistent
    <3>2. Len(stack) # 1
      BY <1>9, <3>1 DEF Top
    <3>3. 1 \in 1..Len(stack')
      BY <1>2, <3>2
    <3>4. stack' # <<>>
      BY <1>2, <3>3
    <3> QED
      BY <1>2, <3>1, <3>3, <3>4
  <2> QED
    BY <1>2, <1>4, <1>5, <1>6, <1>7, <2>3, <2>4 DEF Calls, CallsConsistent
<1> QED
  BY <1>8, <1>9

\* The innermost frame enters or leaves a callback, and the call that is
\* interrupted or resumed, if any, with it.
LEMMA CallsTurn ==
  ASSUME IInv, Calls, stack # <<>>, NEW f \in Frames, stack' = Append(Pop, f),
         f.inst = Top.inst, f.op = Top.op, f.callback = ~Top.callback,
         f.callback => f.entered = IF f.op = "call" THEN f.inst ELSE None,
         depth' = IF f.callback THEN depth + 1 ELSE depth - 1,
         active' = active,
         \A j \in Instances : state'[j] =
           IF j = Top.inst /\ Top.op = "call"
           THEN IF f.callback THEN "CALLING_HOST" ELSE "CALLING" ELSE state[j]
  PROVE  Calls'
<1>1. stack \in Seq(Frames)
  BY DEF IInv, CoreInv, TypeOK
<1>2. /\ Len(stack) \in Nat \ {0} /\ Pop \in Seq(Frames) /\ Len(Pop) = Len(stack) - 1
      /\ \A k \in 1..(Len(stack) - 1) : Pop[k] = stack[k]
  BY <1>1, PopProps DEF Pop
<1>3. /\ Len(stack') = Len(stack) /\ stack' # <<>>
      /\ \A k \in 1..(Len(stack) - 1) : stack'[k] = stack[k]
      /\ stack'[Len(stack)] = f
  <2>1. /\ Len(stack') = Len(Pop) + 1 /\ stack' # <<>>
        /\ \A k \in 1..Len(Pop) : stack'[k] = Pop[k]
        /\ stack'[Len(Pop) + 1] = f
    BY <1>2, AppendProperties
  <2>2. Len(Pop) + 1 = Len(stack)
    BY <1>2
  <2> QED
    BY <1>2, <2>1, <2>2
<1>4. \A k \in 1..Len(stack) : k # Len(stack) => k \in 1..(Len(stack) - 1)
  BY <1>2
<1>5. /\ \A k \in 1..Len(stack) : stack'[k].inst = stack[k].inst /\ stack'[k].op = stack[k].op
      /\ \A k \in 1..Len(stack) : k # Len(stack) => stack'[k] = stack[k]
  BY <1>3, <1>4 DEF Top
<1>6. 1 \in 1..Len(stack) /\ Len(stack) \in 1..Len(stack)
  BY <1>2
<1>7. Top.callback \in BOOLEAN
  BY TopExists DEF IInv, Frames
<1>8. depth' = IF HostRuns' THEN Len(stack') ELSE Len(stack') - 1
  <2>1. depth = IF Top.callback THEN Len(stack) ELSE Len(stack) - 1
    BY DEF Calls, CallsConsistent, HostRuns
  <2>2. HostRuns' <=> f.callback
    BY <1>3 DEF HostRuns, Top
  <2>3. CASE Top.callback
    <3>1. ~f.callback /\ ~HostRuns'
      BY <1>7, <2>2, <2>3
    <3> QED
      BY <1>2, <1>3, <2>1, <2>3, <3>1
  <2>4. CASE ~Top.callback
    <3>1. f.callback /\ HostRuns'
      BY <1>7, <2>2, <2>4
    <3> QED
      BY <1>2, <1>3, <2>1, <2>4, <3>1
  <2> QED
    BY <2>3, <2>4
<1>9. EnteredOK'
  BY <1>3, <1>5 DEF Calls, EnteredOK
<1>10. \A k \in 1..Len(stack') :
         /\ k # Len(stack') => stack'[k].callback
         /\ stack'[k].op = "call" =>
              /\ k = 1 /\ active' = stack'[k].inst
              /\ state'[active'] = IF stack'[k].callback THEN "CALLING_HOST" ELSE "CALLING"
  <2> SUFFICES ASSUME NEW k \in 1..Len(stack)
               PROVE  /\ k # Len(stack) => stack'[k].callback
                      /\ stack'[k].op = "call" =>
                           /\ k = 1 /\ active = stack'[k].inst
                           /\ state'[active] =
                                IF stack'[k].callback THEN "CALLING_HOST" ELSE "CALLING"
    BY <1>3
  <2>1. stack[k].inst \in Instances
    BY FrameInstances DEF IInv
  <2>2. CASE k = Len(stack)
    <3>1. stack'[k] = f /\ Top = stack[k]
      BY <1>3, <2>2 DEF Top
    <3>2. f.op = "call" => k = 1 /\ active = f.inst
      BY <3>1 DEF Calls, CallsConsistent
    <3> QED
      BY <2>1, <2>2, <3>1, <3>2
  <2>3. CASE k # Len(stack)
    <3>1. stack'[k] = stack[k] /\ stack[k].callback
      BY <1>5, <2>3 DEF Calls, CallsConsistent
    <3>2. stack[k].op = "call" => k = 1 /\ active = stack[k].inst /\ state[active] = "CALLING_HOST"
      BY <3>1 DEF Calls, CallsConsistent
    <3>3. stack[k].inst # Top.inst
      BY <1>6, <2>3 DEF IInv, FramesOK, Top
    <3> QED
      BY <2>1, <2>3, <3>1, <3>2, <3>3
  <2> QED
    BY <2>2, <2>3
<1>11. active' # None => stack' # <<>> /\ stack'[1].op = "call"
  BY <1>3, <1>5, <1>6 DEF Calls, CallsConsistent
<1> QED
  BY <1>8, <1>9, <1>10, <1>11 DEF Calls, CallsConsistent

\* Every step keeps the callbacks and the calls they interrupt in step.
LEMMA CallsStep == IInv /\ Calls /\ [Next]_vars => Calls'
<1> SUFFICES ASSUME IInv, Calls, [Next]_vars PROVE Calls'
  OBVIOUS
<1>t. /\ state \in [Instances ->
           {"NONE", "READY", "CALLING", "CALLING_HOST", "FAULTED", "DESTROYED"}]
      /\ active \in Instances \cup {None} /\ depth \in Nat /\ None \notin Instances
  BY HostAbiAssumption DEF IInv, CoreInv, TypeOK
<1>1. CASE UNCHANGED <<stack, depth, active, state>>
  BY <1>1, CallsSame
<1>2. ASSUME NEW i \in Instances, DestroyInstance(i) PROVE Calls'
  <2>1. \A j \in Instances : state[j] \in {"CALLING", "CALLING_HOST"} => state'[j] = state[j]
    BY <1>2, <1>t DEF DestroyInstance, Destroyable
  <2> QED
    BY <1>2, <2>1, CallsSame DEF DestroyInstance
<1>3. ASSUME NEW m \in Modules, NEW i \in Instances, NEW r \in Results, BeginCreate(m, i, r)
      PROVE  Calls'
  <2> DEFINE f == [op |-> "create", inst |-> i, result |-> r,
                   callback |-> FALSE, entered |-> None]
  <2>1. f \in Frames /\ f.op = "create" /\ ~f.callback
    BY DEF Frames
  <2>2. HostRuns /\ stack' = Append(stack, f) /\ depth' = depth /\ active' = active
    BY <1>3 DEF BeginCreate
  <2>3. \A j \in Instances : state[j] \in {"CALLING", "CALLING_HOST"} => state'[j] = state[j]
    BY <1>3, <1>t DEF BeginCreate
  <2> HIDE DEF f
  <2> QED
    BY <2>1, <2>2, <2>3, CallsPush
<1>4. ASSUME NEW i \in Instances, NEW h \in handles, NEW r \in Results, BeginCall(i, h, r)
      PROVE  Calls'
  <2> DEFINE f == [op |-> "call", inst |-> i, result |-> r,
                   callback |-> FALSE, entered |-> None]
  <2>1. f \in Frames /\ f.op = "call" /\ ~f.callback /\ f.inst = i
    BY DEF Frames
  <2>2. /\ HostRuns /\ stack' = Append(stack, f) /\ depth' = depth /\ depth = 0
        /\ active' = i /\ state[i] = "READY" /\ state' = [state EXCEPT ![i] = "CALLING"]
    BY <1>4 DEF BeginCall
  <2>3. /\ \A j \in Instances : state[j] \in {"CALLING", "CALLING_HOST"} => state'[j] = state[j]
        /\ state'[i] = "CALLING"
    BY <1>t, <2>2
  <2> HIDE DEF f
  <2> QED
    BY <2>1, <2>2, <2>3, CallsPush
<1>5. CASE Created
  <2>1. Top.op = "create" => state[Top.inst] = "READY"
    BY <1>5, TopExists DEF Created, IInv
  <2>2. /\ stack # <<>> /\ ~Top.callback /\ stack' = Pop /\ depth' = depth /\ state' = state
        /\ Top.op = "create" /\ active' = active
    BY <1>5 DEF Created
  <2> QED
    BY <2>1, <2>2, CallsPop
<1>6. CASE CreateFailed
  <2>1. Top.op = "create" => state[Top.inst] = "READY"
    BY <1>6, TopExists DEF CreateFailed, IInv
  <2>2. /\ stack # <<>> /\ ~Top.callback /\ stack' = Pop /\ depth' = depth
        /\ state' = [state EXCEPT ![Top.inst] = "DESTROYED"]
        /\ Top.op = "create" /\ active' = active
    BY <1>6 DEF CreateFailed
  <2>3. \A j \in Instances \ {Top.inst} : state'[j] = state[j]
    BY <1>t, <2>2
  <2> QED
    BY <2>1, <2>2, <2>3, CallsPop
<1>7. ASSUME NEW ok \in BOOLEAN, FinishCall(ok) PROVE Calls'
  <2>1. /\ stack # <<>> /\ ~Top.callback /\ stack' = Pop /\ depth' = depth /\ Top.op = "call"
        /\ active' = IF active = Top.inst THEN None ELSE active
    BY <1>7 DEF FinishCall
  <2>2. \A j \in Instances \ {Top.inst} : state'[j] = state[j]
    BY <1>7, <1>t DEF FinishCall
  <2>3. Len(stack) \in 1..Len(stack)
    BY <2>1, PopProps DEF IInv, CoreInv, TypeOK
  <2>4. active = Top.inst
    BY <2>1, <2>3 DEF Calls, CallsConsistent, Top
  <2> QED
    BY <2>1, <2>2, <2>4, CallsPop
<1>8. CASE EnterCallback
  <2> DEFINE f == [Top EXCEPT !.callback = TRUE, !.entered = active]
  <2>1. /\ stack # <<>> /\ ~Top.callback /\ stack' = Append(Pop, f) /\ depth' = depth + 1
        /\ active # None => state[active] = "CALLING"
        /\ state' = IF active # None THEN [state EXCEPT ![active] = "CALLING_HOST"] ELSE state
        /\ active' = active
    BY <1>8 DEF EnterCallback
  <2>2. Top \in Frames /\ Top.inst \in Instances /\ Len(stack) \in 1..Len(stack)
    BY <2>1, TopExists, PopProps DEF IInv, CoreInv, TypeOK
  <2>3. /\ f \in Frames /\ f.inst = Top.inst /\ f.op = Top.op /\ f.callback = TRUE
        /\ f.entered = active
    BY <1>t, <2>2 DEF Frames
  <2>4. Top.op = "call" => active = Top.inst
    BY <2>2 DEF Calls, CallsConsistent, Top
  <2>5. Top.op # "call" => active = None
    <3> SUFFICES ASSUME Top.op # "call", active # None PROVE FALSE
      OBVIOUS
    <3>1. stack[1].op = "call" /\ 1 \in 1..Len(stack)
      BY <2>2 DEF Calls, CallsConsistent
    <3>2. 1 # Len(stack)
      BY <3>1 DEF Top
    <3>3. stack[1].callback
      BY <3>1, <3>2 DEF Calls, CallsConsistent
    <3>4. state[active] = "CALLING_HOST"
      BY <3>1, <3>3 DEF Calls, CallsConsistent
    <3> QED
      BY <2>1, <3>4
  <2>6. \A j \in Instances : state'[j] =
          IF j = Top.inst /\ Top.op = "call" THEN "CALLING_HOST" ELSE state[j]
    BY <1>t, <2>1, <2>2, <2>4, <2>5
  <2>7. Top.callback = FALSE
    BY <2>1, <2>2 DEF Frames
  <2> HIDE DEF f
  <2> QED
    BY <2>1, <2>3, <2>4, <2>5, <2>6, <2>7, CallsTurn
<1>9. CASE LeaveCallback
  <2> DEFINE f == [Top EXCEPT !.callback = FALSE, !.entered = None]
  <2>1. /\ stack # <<>> /\ Top.callback /\ stack' = Append(Pop, f)
        /\ depth' = (IF depth = 0 THEN 0 ELSE depth - 1)
        /\ state' = IF /\ depth # 0 /\ Top.entered # None /\ active = Top.entered
                       /\ state[active] = "CALLING_HOST"
                    THEN [state EXCEPT ![active] = "CALLING"] ELSE state
        /\ active' = active
    BY <1>9 DEF LeaveCallback
  <2>2. Top \in Frames /\ Top.inst \in Instances /\ Len(stack) \in 1..Len(stack)
    BY <2>1, TopExists, PopProps DEF IInv, CoreInv, TypeOK
  <2>3. /\ f \in Frames /\ f.inst = Top.inst /\ f.op = Top.op /\ f.callback = FALSE
    BY <1>t, <2>2 DEF Frames
  <2>4. depth = Len(stack) /\ depth # 0
    BY <2>1, <2>2 DEF Calls, CallsConsistent, HostRuns
  <2>5. Top.op = "call" => /\ active = Top.inst /\ Top.entered = Top.inst
                           /\ state[active] = "CALLING_HOST"
    BY <2>1, <2>2 DEF Calls, CallsConsistent, EnteredOK, Top
  <2>6. Top.op # "call" => Top.entered = None
    BY <2>1, <2>2 DEF Calls, EnteredOK, Top
  <2>7. \A j \in Instances : state'[j] =
          IF j = Top.inst /\ Top.op = "call" THEN "CALLING" ELSE state[j]
    BY <1>t, <2>1, <2>2, <2>4, <2>5, <2>6
  <2>8. depth' = depth - 1 /\ Top.callback = TRUE
    BY <2>1, <2>2, <2>4 DEF Frames
  <2> HIDE DEF f
  <2> QED
    <3>1. f.callback = ~Top.callback /\ depth' = IF f.callback THEN depth + 1 ELSE depth - 1
      BY <2>3, <2>8
    <3>2. \A j \in Instances : state'[j] =
            IF j = Top.inst /\ Top.op = "call"
            THEN IF f.callback THEN "CALLING_HOST" ELSE "CALLING" ELSE state[j]
      BY <2>3, <2>7
    <3> QED
      BY <2>1, <2>3, <3>1, <3>2, CallsTurn
<1>10. CASE \/ Free
            \/ \E r \in Results : ResultCreate(r) \/ ResultDestroy(r)
            \/ \E g \in Names : Register(g) \/ Unregister(g)
            \/ \E m \in Modules : Compile(m) \/ DestroyModule(m)
            \/ \E i \in Instances : Resolve(i)
  <2>1. UNCHANGED <<stack, depth, active, state>>
    BY <1>10 DEF Free, ResultCreate, ResultDestroy, Register, Unregister, Compile,
       DestroyModule, Resolve, instVars
  <2> QED
    BY <2>1, <1>1
<1>11. CASE UNCHANGED vars
  BY <1>1, <1>11 DEF vars
<1> QED
  BY <1>2, <1>3, <1>4, <1>5, <1>6, <1>7, <1>8, <1>9, <1>10, <1>11 DEF Next

\* However deep instance creations and callbacks nest, the active instance,
\* its state and the callback depth agree with the real call stack: no call
\* ends FAULTED because of a nested one.
THEOREM CallsNest == Spec => []CallsConsistent
<1>1. Init => Calls
  BY DEF Init, Calls, CallsConsistent, EnteredOK, HostRuns
<1>2. IInv /\ Calls /\ [Next]_vars => Calls'
  BY CallsStep
<1>3. Calls => CallsConsistent
  BY DEF Calls
<1> QED
  BY <1>1, <1>2, <1>3, Invariance, PTL DEF Spec

-----------------------------------------------------------------------------
(* Handles name the instance that issued them, until the generations run   *)
(* out: the counter is checked before an initializer runs and taken when   *)
(* it is done, so nested creations can carry it past GenMax.               *)

\* The last generation handed out still fits a handle.
NoWrap == nextGeneration <= GenMax + 1

\* An instance the host does not have yet.
Fresh(i) == state[i] = "NONE" \/ Creating(i)

\* A generation is taken once, when the instance is published, and the
\* handles carry the generation of the instance that issued them.
Issued ==
  /\ \A i \in Instances : generation[i] < nextGeneration
  /\ \A i \in Instances : Held(i) => generation[i] # 0
  /\ \A i \in Instances : Fresh(i) => generation[i] = 0
  /\ \A i, j \in Instances : generation[i] = generation[j] /\ generation[i] # 0 => i = j
  /\ \A h \in handles : h.generation # 0 /\ h.generation = generation[h.owner]

\* Who is being created after a push, a pop, and a turn of the top frame.
LEMMA CreatingPush ==
  ASSUME IInv, NEW f \in Frames, stack' = Append(stack, f), NEW j \in Instances
  PROVE  Creating(j)' <=> Creating(j) \/ (f.op = "create" /\ f.inst = j)
<1>1. stack \in Seq(Frames) /\ Len(stack) \in Nat
  BY DEF IInv, CoreInv, TypeOK
<1>2. /\ Len(stack') = Len(stack) + 1
      /\ \A k \in 1..Len(stack) : stack'[k] = stack[k]
      /\ stack'[Len(stack) + 1] = f
  BY <1>1, AppendProperties
<1>3. \A k : k \in 1..Len(stack') <=> k \in 1..Len(stack) \/ k = Len(stack) + 1
  BY <1>1, <1>2
<1> QED
  BY <1>2, <1>3 DEF Creating

LEMMA CreatingPop ==
  ASSUME IInv, stack # <<>>, stack' = Pop, NEW j \in Instances
  PROVE  /\ Creating(j)' <=> Creating(j) /\ j # Top.inst
         /\ Creating(Top.inst) <=> Top.op = "create"
<1>1. stack \in Seq(Frames)
  BY DEF IInv, CoreInv, TypeOK
<1>2. /\ Len(stack) \in Nat \ {0} /\ Len(stack') = Len(stack) - 1
      /\ \A k \in 1..(Len(stack) - 1) : stack'[k] = stack[k]
  BY <1>1, PopProps DEF Pop
<1>3. \A k : k \in 1..Len(stack) <=> k \in 1..(Len(stack) - 1) \/ k = Len(stack)
  BY <1>2
<1>4. Len(stack) \notin 1..(Len(stack) - 1)
  BY <1>2
<1>5. \A k \in 1..(Len(stack) - 1) : stack[k].inst # Top.inst
  BY <1>3, <1>4 DEF IInv, FramesOK, Top
<1> QED
  BY <1>2, <1>3, <1>5 DEF Creating, Top

LEMMA CreatingTurn ==
  ASSUME IInv, stack # <<>>, NEW f \in Frames, stack' = Append(Pop, f),
         f.inst = Top.inst, f.op = Top.op, NEW j \in Instances
  PROVE  Creating(j)' <=> Creating(j)
<1>1. stack \in Seq(Frames)
  BY DEF IInv, CoreInv, TypeOK
<1>2. /\ Len(stack) \in Nat \ {0} /\ Pop \in Seq(Frames) /\ Len(Pop) = Len(stack) - 1
      /\ \A k \in 1..(Len(stack) - 1) : Pop[k] = stack[k]
  BY <1>1, PopProps DEF Pop
<1>3. /\ Len(stack') = Len(Pop) + 1
      /\ \A k \in 1..Len(Pop) : stack'[k] = Pop[k]
      /\ stack'[Len(Pop) + 1] = f
  BY <1>2, AppendProperties
<1>4. Len(Pop) + 1 = Len(stack)
  BY <1>2
<1>5. \A k : k \in 1..Len(stack) <=> k \in 1..(Len(stack) - 1) \/ k = Len(stack)
  BY <1>2
<1>6. \A k \in 1..Len(stack) : stack'[k].inst = stack[k].inst /\ stack'[k].op = stack[k].op
  BY <1>2, <1>3, <1>4, <1>5 DEF Top
<1> QED
  BY <1>3, <1>4, <1>6 DEF Creating

\* A step that takes no generation, hands out no handle and publishes no
\* instance.
LEMMA IssuedSame ==
  ASSUME Issued, UNCHANGED <<generation, nextGeneration, handles>>,
         \A i \in Instances : (Held(i)' => Held(i)) /\ (Fresh(i)' => Fresh(i))
  PROVE  Issued'
BY DEF Issued

\* The step that publishes an instance.
LEMMA IssuedCreated ==
  ASSUME IInv, Issued, NoWrap', Created
  PROVE  Issued'
<1>0. PICK t \in Instances : t = Top.inst
  BY TopExists DEF Created, IInv
<1> DEFINE g == nextGeneration % (GenMax + 1)
<1>1. /\ stack # <<>> /\ Top.op = "create" /\ stack' = Pop
      /\ generation' = [generation EXCEPT ![t] = g] /\ nextGeneration' = nextGeneration + 1
      /\ state' = state /\ handles' = handles
  BY <1>0 DEF Created, TakeGeneration
<1>2. /\ nextGeneration \in Nat \ {0} /\ GenMax \in Nat
      /\ generation \in [Instances -> 0..GenMax]
      /\ handles \in SUBSET [owner : Instances, generation : 0..GenMax]
  BY HostAbiAssumption DEF IInv, CoreInv, TypeOK
<1>3. t \in Instances /\ Exists(t) /\ state[t] = "READY"
  BY <1>0, <1>1, TopExists DEF IInv
<1>4. g = nextGeneration
  <2>1. nextGeneration \in 0..GenMax
    BY <1>1, <1>2 DEF NoWrap
  <2> QED
    BY <1>2, <2>1
<1>5. Creating(t)
  BY <1>0, <1>1, <1>3, CreatingPop
<1>6. generation[t] = 0
  BY <1>3, <1>5 DEF Issued, Fresh
<1> HIDE DEF g
<1>7. /\ generation'[t] = nextGeneration
      /\ \A j \in Instances \ {t} : generation'[j] = generation[j]
  BY <1>1, <1>2, <1>3, <1>4
<1>8. \A j \in Instances : /\ j # t => (Held(j)' <=> Held(j)) /\ (Fresh(j)' <=> Fresh(j))
                           /\ ~Fresh(t)'
  <2>1. \A j \in Instances : Creating(j)' <=> Creating(j) /\ j # t
    BY <1>0, <1>1, CreatingPop
  <2> QED
    BY <1>1, <1>3, <2>1 DEF Held, Exists, Fresh
<1>9. \A i \in Instances : generation[i] < nextGeneration /\ generation[i] \in Nat
  BY <1>2 DEF Issued
<1>10. \A i \in Instances : generation'[i] < nextGeneration'
  BY <1>1, <1>2, <1>7, <1>9
<1>11. \A i \in Instances : Held(i)' => generation'[i] # 0
  BY <1>2, <1>7, <1>8 DEF Issued
<1>12. \A i \in Instances : Fresh(i)' => generation'[i] = 0
  BY <1>7, <1>8 DEF Issued
<1>13. \A i, j \in Instances : generation'[i] = generation'[j] /\ generation'[i] # 0 => i = j
  <2>1. \A j \in Instances : generation[j] # nextGeneration
    BY <1>2, <1>9
  <2> QED
    BY <1>7, <2>1 DEF Issued
<1>14. \A h \in handles' : h.generation # 0 /\ h.generation = generation'[h.owner]
  <2> SUFFICES ASSUME NEW h \in handles
               PROVE  h.generation # 0 /\ h.generation = generation'[h.owner]
    BY <1>1
  <2>1. h.generation # 0 /\ h.generation = generation[h.owner] /\ h.owner \in Instances
    BY <1>2 DEF Issued
  <2> QED
    BY <1>6, <1>7, <2>1
<1> QED
  BY <1>10, <1>11, <1>12, <1>13, <1>14 DEF Issued

\* Every step before the generations run out.
LEMMA IssuedStep == IInv /\ Issued /\ NoWrap' /\ [Next]_vars => Issued'
<1> SUFFICES ASSUME IInv, Issued, NoWrap', [Next]_vars PROVE Issued'
  OBVIOUS
<1>1. state \in [Instances ->
        {"NONE", "READY", "CALLING", "CALLING_HOST", "FAULTED", "DESTROYED"}]
  BY DEF IInv, CoreInv, TypeOK
<1>2. ASSUME NEW m \in Modules, NEW i \in Instances, NEW r \in Results, BeginCreate(m, i, r)
      PROVE  Issued'
  <2> DEFINE f == [op |-> "create", inst |-> i, result |-> r,
                   callback |-> FALSE, entered |-> None]
  <2>1. f \in Frames /\ f.op = "create" /\ f.inst = i
    BY DEF Frames
  <2>2. /\ stack' = Append(stack, f) /\ state' = [state EXCEPT ![i] = "READY"]
        /\ state[i] = "NONE" /\ UNCHANGED <<generation, nextGeneration, handles>>
    BY <1>2 DEF BeginCreate
  <2> HIDE DEF f
  <2>3. \A j \in Instances : Creating(j)' <=> Creating(j) \/ i = j
    BY <2>1, <2>2, CreatingPush
  <2>4. \A j \in Instances : (Held(j)' => Held(j)) /\ (Fresh(j)' => Fresh(j))
    BY <1>1, <2>2, <2>3 DEF Held, Fresh, Exists
  <2> QED
    BY <2>2, <2>4, IssuedSame
<1>3. CASE Created
  BY <1>3, IssuedCreated
<1>4. CASE CreateFailed
  <2>1. /\ stack # <<>> /\ stack' = Pop /\ state' = [state EXCEPT ![Top.inst] = "DESTROYED"]
        /\ UNCHANGED <<generation, nextGeneration, handles>>
    BY <1>4 DEF CreateFailed
  <2>2. Top.inst \in Instances
    BY <2>1, TopExists DEF IInv
  <2>3. \A j \in Instances : Creating(j)' <=> Creating(j) /\ j # Top.inst
    BY <2>1, CreatingPop
  <2>4. \A j \in Instances : (Held(j)' => Held(j)) /\ (Fresh(j)' => Fresh(j))
    BY <1>1, <2>1, <2>2, <2>3 DEF Held, Fresh, Exists
  <2> QED
    BY <2>1, <2>4, IssuedSame
<1>5. ASSUME NEW i \in Instances, DestroyInstance(i)
      PROVE  Issued'
  BY <1>1, <1>5, IssuedSame DEF DestroyInstance, Held, Fresh, Exists, Creating
<1>6. ASSUME NEW i \in Instances, Resolve(i)
      PROVE  Issued'
  <2>1. /\ Held(i) /\ handles' = handles \cup {[owner |-> i, generation |-> generation[i]]}
        /\ UNCHANGED <<generation, nextGeneration, state, stack>>
    BY <1>6 DEF Resolve, instVars
  <2>2. \A j \in Instances : (Held(j)' <=> Held(j)) /\ (Fresh(j)' <=> Fresh(j))
    BY <2>1 DEF Held, Fresh, Exists, Creating
  <2>3. generation[i] # 0
    BY <2>1 DEF Issued
  <2>4. \A h \in handles' : h.generation # 0 /\ h.generation = generation[h.owner]
    BY <2>1, <2>3 DEF Issued
  <2> QED
    BY <2>1, <2>2, <2>4 DEF Issued
<1>7. ASSUME NEW i \in Instances, NEW h \in handles, NEW r \in Results, BeginCall(i, h, r)
      PROVE  Issued'
  <2> DEFINE f == [op |-> "call", inst |-> i, result |-> r,
                   callback |-> FALSE, entered |-> None]
  <2>1. f \in Frames /\ f.op = "call"
    BY DEF Frames
  <2>2. /\ stack' = Append(stack, f) /\ state' = [state EXCEPT ![i] = "CALLING"]
        /\ state[i] = "READY" /\ UNCHANGED <<generation, nextGeneration, handles>>
    BY <1>7 DEF BeginCall
  <2> HIDE DEF f
  <2>3. \A j \in Instances : Creating(j)' <=> Creating(j)
    BY <2>1, <2>2, CreatingPush
  <2>4. \A j \in Instances : (Held(j)' => Held(j)) /\ (Fresh(j)' => Fresh(j))
    BY <1>1, <2>2, <2>3 DEF Held, Fresh, Exists
  <2> QED
    BY <2>2, <2>4, IssuedSame
<1>8. CASE EnterCallback
  <2> DEFINE f == [Top EXCEPT !.callback = TRUE, !.entered = active]
  <2>1. /\ stack # <<>> /\ stack' = Append(Pop, f)
        /\ UNCHANGED <<generation, nextGeneration, handles>>
    BY <1>8 DEF EnterCallback
  <2>2. f \in Frames /\ f.inst = Top.inst /\ f.op = Top.op
    <3>1. active \in Instances \cup {None}
      BY DEF IInv, CoreInv, TypeOK
    <3> QED
      BY <2>1, <3>1, TopExists DEF Frames, IInv
  <2> HIDE DEF f
  <2>3. \A j \in Instances : Creating(j)' <=> Creating(j)
    BY <2>1, <2>2, CreatingTurn
  <2>4. \A j \in Instances : state'[j] = state[j] \/ (state[j] = "CALLING" /\ state'[j] = "CALLING_HOST")
    BY <1>1, <1>8 DEF EnterCallback, IInv, CoreInv, TypeOK
  <2>5. \A j \in Instances : (Held(j)' => Held(j)) /\ (Fresh(j)' => Fresh(j))
    BY <2>3, <2>4 DEF Held, Fresh, Exists
  <2> QED
    BY <2>1, <2>5, IssuedSame
<1>9. CASE LeaveCallback
  <2> DEFINE f == [Top EXCEPT !.callback = FALSE, !.entered = None]
  <2>1. /\ stack # <<>> /\ stack' = Append(Pop, f)
        /\ UNCHANGED <<generation, nextGeneration, handles>>
    BY <1>9 DEF LeaveCallback
  <2>2. f \in Frames /\ f.inst = Top.inst /\ f.op = Top.op
    BY <2>1, TopExists DEF Frames, IInv
  <2> HIDE DEF f
  <2>3. \A j \in Instances : Creating(j)' <=> Creating(j)
    BY <2>1, <2>2, CreatingTurn
  <2>4. \A j \in Instances : state'[j] = state[j] \/ (state[j] = "CALLING_HOST" /\ state'[j] = "CALLING")
    BY <1>1, <1>9 DEF LeaveCallback, IInv, CoreInv, TypeOK
  <2>5. \A j \in Instances : (Held(j)' => Held(j)) /\ (Fresh(j)' => Fresh(j))
    BY <2>3, <2>4 DEF Held, Fresh, Exists
  <2> QED
    BY <2>1, <2>5, IssuedSame
<1>10. ASSUME NEW ok \in BOOLEAN, FinishCall(ok)
       PROVE  Issued'
  <2>1. /\ stack # <<>> /\ stack' = Pop /\ Top.op = "call"
        /\ \/ state' = [state EXCEPT ![Top.inst] = "READY"]
           \/ state' = [state EXCEPT ![Top.inst] = "FAULTED"]
        /\ UNCHANGED <<generation, nextGeneration, handles>>
    BY <1>10 DEF FinishCall
  <2>2. Top.inst \in Instances /\ Exists(Top.inst)
    BY <2>1, TopExists DEF IInv
  <2>3. \A j \in Instances : Creating(j)' <=> Creating(j)
    BY <2>1, <2>2, CreatingPop
  <2>4. \A j \in Instances : (Held(j)' => Held(j)) /\ (Fresh(j)' => Fresh(j))
    BY <1>1, <2>1, <2>2, <2>3 DEF Held, Fresh, Exists
  <2> QED
    BY <2>1, <2>4, IssuedSame
<1>11. ASSUME \/ Free \/ (\E r \in Results : ResultCreate(r) \/ ResultDestroy(r))
              \/ (\E n \in Names : Register(n) \/ Unregister(n))
              \/ (\E m \in Modules : Compile(m) \/ DestroyModule(m))
              \/ UNCHANGED vars
       PROVE  Issued'
  <2>1. UNCHANGED <<generation, nextGeneration, handles, state, stack>>
    BY <1>11 DEF Free, ResultCreate, ResultDestroy, Register, Unregister, Compile,
       DestroyModule, instVars, vars
  <2> QED
    BY <2>1, IssuedSame DEF Held, Fresh, Exists, Creating
<1> QED
  BY <1>2, <1>3, <1>4, <1>5, <1>6, <1>7, <1>8, <1>9, <1>10, <1>11 DEF Next

\* What the invariant says of handles.
LEMMA IssuedNames == IInv /\ Issued => HandleNamesIssuer
<1> SUFFICES ASSUME IInv, Issued, NEW i \in Instances, NEW h \in handles, Held(i)
             PROVE  Decodes(i, h) <=> h.owner = i
  BY DEF HandleNamesIssuer
<1>1. h.owner \in Instances
  BY DEF IInv, CoreInv, TypeOK
<1> QED
  BY <1>1 DEF Issued, Decodes

\* As long as no generation had to be cut to fit, an export handle is accepted
\* by the instance that issued it and by no other, whatever was created, nested
\* or destroyed in between.
THEOREM HandlesNamed == Spec /\ []NoWrap => []HandleNamesIssuer
<1>1. Init => Issued
  <2> SUFFICES ASSUME Init PROVE Issued
    OBVIOUS
  <2> QED
    BY DEF Init, Issued, Held, Exists
<1>2. IInv /\ Issued /\ NoWrap' /\ [Next]_vars => Issued'
  BY IssuedStep
<1>3. IInv /\ Issued => HandleNamesIssuer
  BY IssuedNames
<1> QED
  BY <1>1, <1>2, <1>3, Invariance, PTL DEF Spec

\* The instances that were published, and one generation for each of them.
Published == {i \in Instances : generation[i] # 0}

Taken == nextGeneration = 1 + Cardinality(Published)

\* A context that creates no more instances than there are generations never
\* cuts one, however its creations nest.
LEMMA TakenStep ==
  ASSUME Cardinality(Instances) <= GenMax
  PROVE  IInv /\ Issued /\ Taken /\ [Next]_vars => NoWrap' /\ Taken'
<1> SUFFICES ASSUME IInv, Issued, Taken, [Next]_vars PROVE NoWrap' /\ Taken'
  OBVIOUS
<1>1. /\ nextGeneration \in Nat \ {0} /\ GenMax \in Nat
      /\ generation \in [Instances -> 0..GenMax]
  BY HostAbiAssumption DEF IInv, CoreInv, TypeOK
<1>2. /\ IsFiniteSet(Instances) /\ IsFiniteSet(Published)
      /\ Cardinality(Instances) \in Nat /\ Cardinality(Published) \in Nat
  BY HostAbiAssumption, Finite, FS_CardinalityType DEF Published
<1>3. CASE Created
  <2>0. PICK t \in Instances : t = Top.inst
    BY <1>3, TopExists DEF Created, IInv
  <2>1. /\ stack # <<>> /\ Top.op = "create" /\ stack' = Pop
        /\ nextGeneration' = nextGeneration + 1
        /\ generation' = [generation EXCEPT ![t] = nextGeneration % (GenMax + 1)]
    BY <1>3, <2>0 DEF Created, TakeGeneration
  <2>2. Creating(t)
    BY <2>0, <2>1, CreatingPop
  <2>3. t \notin Published
    BY <2>2 DEF Issued, Fresh, Published
  <2>4. Cardinality(Published \cup {t}) = Cardinality(Published) + 1
    BY <1>2, <2>3, CardProps
  <2>5. Cardinality(Published \cup {t}) <= Cardinality(Instances)
    <3>1. Published \cup {t} \subseteq Instances
      BY DEF Published
    <3> QED
      BY <1>2, <3>1, FS_Subset
  <2>6. NoWrap'
    BY <1>1, <1>2, <2>1, <2>4, <2>5 DEF NoWrap, Taken
  <2>7. nextGeneration % (GenMax + 1) = nextGeneration
    <3>1. nextGeneration \in 0..GenMax
      BY <1>1, <2>1, <2>6 DEF NoWrap
    <3> QED
      BY <1>1, <3>1
  <2>8. Published' = Published \cup {t}
    BY <1>1, <2>1, <2>7 DEF Published
  <2>9. Taken'
    BY <1>1, <1>2, <2>1, <2>4, <2>8 DEF Taken
  <2> QED
    BY <2>6, <2>9
<1>4. CASE ~Created
  <2>1. UNCHANGED <<generation, nextGeneration>>
    BY <1>4 DEF Next, Free, ResultCreate, ResultDestroy, Register, Unregister, Compile,
       DestroyModule, BeginCreate, CreateFailed, DestroyInstance, Resolve, BeginCall,
       EnterCallback, LeaveCallback, FinishCall, instVars, vars
  <2>2. Taken' /\ nextGeneration' = 1 + Cardinality(Published)
    BY <2>1 DEF Taken, Published
  <2>3. Cardinality(Published) <= Cardinality(Instances)
    <3>1. Published \subseteq Instances
      BY DEF Published
    <3> QED
      BY <1>2, <3>1, FS_Subset
  <2> QED
    BY <1>1, <1>2, <2>2, <2>3 DEF NoWrap
<1> QED
  BY <1>3, <1>4

\* The same without a condition on the run: in a context that creates at most
\* GenMax instances a handle names its issuer for ever.
THEOREM HandlesNamedForever ==
  ASSUME Cardinality(Instances) <= GenMax
  PROVE  Spec => []HandleNamesIssuer
<1>1. Init => Issued /\ Taken
  <2> SUFFICES ASSUME Init PROVE Issued /\ Taken
    OBVIOUS
  <2>1. Published = {}
    BY DEF Init, Published
  <2>2. Taken
    BY <2>1, FS_EmptySet DEF Init, Taken
  <2> QED
    BY <2>2 DEF Init, Issued, Held, Exists
<1>2. IInv /\ Issued /\ Taken /\ [Next]_vars => Issued' /\ Taken'
  BY IssuedStep, TakenStep
<1>3. IInv /\ Issued => HandleNamesIssuer
  BY IssuedNames
<1> QED
  BY <1>1, <1>2, <1>3, Invariance, PTL DEF Spec

=============================================================================
