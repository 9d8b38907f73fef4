------------------------------ MODULE HostAbi ------------------------------
(***************************************************************************)
(* The lifecycle side of the host module ABI (turbo_script/src/host): the  *)
(* context's reference count and closing flag, the host function registry  *)
(* that is frozen while modules are active, compiled modules with their    *)
(* reference counts, instances with their states and generations, results, *)
(* export handles, and the host callbacks through which the host re-enters *)
(* the ABI from inside a call or from inside an instance's initializer.    *)
(*                                                                         *)
(* Everything runs on the context's owner thread (other threads are turned *)
(* away with WRONG_THREAD before they touch state), so the interleaving is *)
(* that of one call stack: the host acts when the stack is empty or when   *)
(* its top frame is inside a host callback.  What happens inside one call  *)
(* is the subject of HostCall; here a call only begins, calls back and     *)
(* ends.  An ABI call that is refused changes nothing and is no step.      *)
(***************************************************************************)
EXTENDS Naturals, Sequences, FiniteSets

CONSTANTS
  Modules,    \* module objects
  Instances,  \* instance objects, each used for one lifetime
  Results,    \* result objects
  Names,      \* host function names
  Capacity,   \* TS_HOST_REGISTRY_CAPACITY
  GenMax,     \* the largest generation a handle can hold (UINT32_MAX)
  MaxDepth,   \* bound on the depth of nested ABI calls
  None

ASSUME HostAbiAssumption ==
  /\ IsFiniteSet(Modules) /\ IsFiniteSet(Instances) /\ IsFiniteSet(Results)
  /\ None \notin Modules \cup Instances \cup Results
  /\ Capacity \in Nat /\ GenMax \in Nat \ {0} /\ MaxDepth \in Nat

VARIABLES
  refCount, closing, alive,           \* the context
  functions, activeModules,           \* its registry of host functions
  nextGeneration, depth, active,      \* its instance bookkeeping
  loaded, refs, accepting,            \* modules
  state, module, generation, bound,   \* instances
  results,                            \* results
  stack,                              \* ABI calls in progress, innermost last
  handles                             \* export handles the host was given

ctxVars  == <<refCount, alive, functions>>
instVars == <<state, module, generation, bound>>
vars == <<refCount, closing, alive, functions, activeModules, nextGeneration, depth, active,
          loaded, refs, accepting, state, module, generation, bound, results, stack, handles>>

Frames == [op : {"create", "call"}, inst : Instances, result : Results,
           callback : BOOLEAN, entered : Instances \cup {None}]

\* An instance exists from its allocation until it is freed.
Exists(i) == state[i] \in {"READY", "CALLING", "CALLING_HOST", "FAULTED"}
Top == stack[Len(stack)]
Pop == SubSeq(stack, 1, Len(stack) - 1)
\* An instance still in its initializer was not handed to the host yet.
Creating(i) == \E k \in 1..Len(stack) : stack[k].op = "create" /\ stack[k].inst = i
Held(i) == Exists(i) /\ ~Creating(i)
\* The host runs at top level or inside a callback.
HostRuns == IF stack = <<>> THEN TRUE ELSE Top.callback

Init ==
  /\ refCount = 1 /\ closing = FALSE /\ alive = TRUE
  /\ functions = <<>> /\ activeModules = 0
  /\ nextGeneration = 1 /\ depth = 0 /\ active = None
  /\ loaded = {}
  /\ refs = [m \in Modules |-> 0]
  /\ accepting = [m \in Modules |-> FALSE]
  /\ state = [i \in Instances |-> "NONE"]
  /\ module = [i \in Instances |-> None]
  /\ generation = [i \in Instances |-> 0]
  /\ bound = [i \in Instances |-> <<>>]
  /\ results = {} /\ stack = <<>> /\ handles = {}

-----------------------------------------------------------------------------
(* The context and its results.                                            *)

\* Mutant: a result does not keep its context alive.
RetainContextNot == UNCHANGED <<refCount, alive, functions>>

RetainContext == refCount' = refCount + 1 /\ UNCHANGED <<alive, functions>>

\* The release of the last reference destroys the context and its registry.
ReleaseContext ==
  /\ refCount' = refCount - 1
  /\ alive' = (refCount # 1)
  /\ functions' = IF refCount = 1 THEN <<>> ELSE functions

Free ==
  /\ HostRuns /\ alive /\ ~closing
  /\ closing' = TRUE
  /\ ReleaseContext
  /\ UNCHANGED <<activeModules, nextGeneration, depth, active, loaded, refs, accepting,
                 instVars, results, stack, handles>>

ResultCreate(r) ==
  /\ HostRuns /\ alive /\ r \notin results
  /\ results' = results \cup {r}
  /\ RetainContext
  /\ UNCHANGED <<closing, activeModules, nextGeneration, depth, active, loaded, refs,
                 accepting, instVars, stack, handles>>

\* A callback does not destroy the result object of the call it is made from.
ResultDestroy(r) ==
  /\ HostRuns /\ r \in results
  /\ \A k \in 1..Len(stack) : stack[k].result # r
  /\ results' = results \ {r}
  /\ ReleaseContext
  /\ UNCHANGED <<closing, activeModules, nextGeneration, depth, active, loaded, refs,
                 accepting, instVars, stack, handles>>

-----------------------------------------------------------------------------
(* The host function registry.  Its entries are bound by address, so a     *)
(* removal moves the entries behind the removed one.                       *)

\* Mutant: the registry thaws although an instance still uses it.
FrozenByHandles == \E m \in Modules : accepting[m]

Frozen == activeModules # 0

Register(f) ==
  /\ HostRuns /\ alive /\ results # {}
  /\ ~Frozen
  /\ \A k \in 1..Len(functions) : functions[k] # f
  /\ Len(functions) < Capacity
  /\ functions' = Append(functions, f)
  /\ UNCHANGED <<refCount, closing, alive, activeModules, nextGeneration, depth, active,
                 loaded, refs, accepting, instVars, results, stack, handles>>

\* vec_erase of one slot.
Erase(s, k) == SubSeq(s, 1, k - 1) \o SubSeq(s, k + 1, Len(s))

Unregister(f) ==
  /\ HostRuns /\ alive /\ results # {}
  /\ ~Frozen
  /\ \E k \in 1..Len(functions) : functions[k] = f /\ functions' = Erase(functions, k)
  /\ UNCHANGED <<refCount, closing, alive, activeModules, nextGeneration, depth, active,
                 loaded, refs, accepting, instVars, results, stack, handles>>

-----------------------------------------------------------------------------
(* Modules.                                                                *)

\* A compilation that fails after acquiring the registry releases it again.
Compile(m) ==
  /\ HostRuns /\ alive /\ results # {} /\ ~closing /\ m \notin loaded
  /\ loaded' = loaded \cup {m}
  /\ refs' = [refs EXCEPT ![m] = 1]
  /\ accepting' = [accepting EXCEPT ![m] = TRUE]
  /\ activeModules' = activeModules + 1
  /\ RetainContext
  /\ UNCHANGED <<closing, nextGeneration, depth, active, instVars, results, stack, handles>>

\* The last reference frees the code, unfreezes the registry, and then
\* releases the context.
ReleaseModule(m) ==
  /\ refs' = [refs EXCEPT ![m] = @ - 1]
  /\ IF refs[m] = 1
     THEN /\ loaded' = loaded \ {m}
          /\ activeModules' = activeModules - 1
          /\ ReleaseContext
     ELSE UNCHANGED <<loaded, activeModules, refCount, alive, functions>>

\* Mutant: module_destroy forgets the accepting_instances check.
HandleOpenUnchecked(m) == TRUE

\* The guard that makes the public handle release its reference once.
HandleOpen(m) == accepting[m]

DestroyModule(m) ==
  /\ HostRuns /\ results # {} /\ m \in loaded
  /\ HandleOpen(m)
  /\ accepting' = [accepting EXCEPT ![m] = FALSE]
  /\ ReleaseModule(m)
  /\ UNCHANGED <<closing, nextGeneration, depth, active, instVars, results, stack, handles>>

-----------------------------------------------------------------------------
(* Instances.  An initializer runs script code, which may call the host    *)
(* back: creating an instance begins and ends in different steps.          *)

\* Mutant: the pin is taken only when the instance is published.
PinModuleLate(m) == UNCHANGED refs

\* The reference that pins the module while its initializer runs.
PinModule(m) == refs' = [refs EXCEPT ![m] = @ + 1]

BeginCreate(m, i, r) ==
  /\ HostRuns /\ r \in results /\ m \in loaded /\ state[i] = "NONE"
  /\ ~closing /\ accepting[m]
  /\ nextGeneration \in 1..GenMax
  /\ Len(stack) < MaxDepth
  /\ PinModule(m)
  /\ state' = [state EXCEPT ![i] = "READY"]
  /\ module' = [module EXCEPT ![i] = m]
  /\ bound' = [bound EXCEPT ![i] = functions]
  /\ stack' = Append(stack, [op |-> "create", inst |-> i, result |-> r,
                             callback |-> FALSE, entered |-> None])
  /\ UNCHANGED <<refCount, closing, alive, functions, activeModules, nextGeneration, depth,
                 active, loaded, accepting, generation, results, handles>>

\* Mutant: the generation counter is not advanced.
TakeGenerationAgain(i) ==
  /\ generation' = [generation EXCEPT ![i] = nextGeneration % (GenMax + 1)]
  /\ UNCHANGED nextGeneration

\* The generation is taken when the initializer is done, from a 64-bit
\* counter that was checked before it began, and cut to 32 bits.
TakeGeneration(i) ==
  /\ generation' = [generation EXCEPT ![i] = nextGeneration % (GenMax + 1)]
  /\ nextGeneration' = nextGeneration + 1

Created ==
  /\ stack # <<>> /\ Top.op = "create" /\ ~Top.callback
  /\ TakeGeneration(Top.inst)
  /\ stack' = Pop
  /\ UNCHANGED <<refCount, closing, alive, functions, activeModules, depth, active, loaded,
                 refs, accepting, state, module, bound, results, handles>>

\* Runtime creation, the initializer, the export binding or the retained
\* memory check failed.
CreateFailed ==
  /\ stack # <<>> /\ Top.op = "create" /\ ~Top.callback
  /\ state' = [state EXCEPT ![Top.inst] = "DESTROYED"]
  /\ ReleaseModule(module[Top.inst])
  /\ stack' = Pop
  /\ UNCHANGED <<closing, nextGeneration, depth, active, accepting, module, generation,
                 bound, results, handles>>

\* An instance inside a call is not destroyed.
Destroyable(i) == state[i] \in {"READY", "FAULTED"}

DestroyInstance(i) ==
  /\ HostRuns /\ results # {} /\ Held(i)
  /\ Destroyable(i)
  /\ state' = [state EXCEPT ![i] = "DESTROYED"]
  /\ ReleaseModule(module[i])
  /\ UNCHANGED <<closing, nextGeneration, depth, active, accepting, module, generation,
                 bound, results, stack, handles>>

\* The export slot half of a handle is left out: it never tells two
\* instances apart.
Resolve(i) ==
  /\ HostRuns /\ results # {} /\ Held(i) /\ ~closing
  /\ handles' = handles \cup {[owner |-> i, generation |-> generation[i]]}
  /\ UNCHANGED <<ctxVars, closing, activeModules, nextGeneration, depth, active, loaded,
                 refs, accepting, instVars, results, stack>>

Decodes(i, h) == h.generation # 0 /\ h.generation = generation[i]

-----------------------------------------------------------------------------
(* Calls and callbacks.                                                    *)

BeginCall(i, h, r) ==
  /\ HostRuns /\ r \in results /\ Held(i) /\ ~closing
  /\ state[i] = "READY" /\ depth = 0 /\ active = None
  /\ Decodes(i, h)
  /\ Len(stack) < MaxDepth
  /\ state' = [state EXCEPT ![i] = "CALLING"]
  /\ active' = i
  /\ stack' = Append(stack, [op |-> "call", inst |-> i, result |-> r,
                             callback |-> FALSE, entered |-> None])
  /\ UNCHANGED <<ctxVars, closing, activeModules, nextGeneration, depth, loaded, refs,
                 accepting, module, generation, bound, results, handles>>

\* A callback that finds another one under way is refused with
\* REENTRANT_CALL, which the script sees as an error.
EnterCallback ==
  /\ stack # <<>> /\ ~Top.callback /\ bound[Top.inst] # <<>>
  /\ IF active = None THEN TRUE ELSE state[active] = "CALLING"
  /\ depth' = depth + 1
  /\ state' = IF active # None THEN [state EXCEPT ![active] = "CALLING_HOST"] ELSE state
  /\ stack' = Append(Pop, [Top EXCEPT !.callback = TRUE, !.entered = active])
  /\ UNCHANGED <<ctxVars, closing, activeModules, nextGeneration, active, loaded, refs,
                 accepting, module, generation, bound, results, handles>>

\* Mutant: leave_callback does not restore the instance's state.
LeaveCallbackForgetsState ==
  /\ stack # <<>> /\ Top.callback
  /\ depth' = depth - 1
  /\ stack' = Append(Pop, [Top EXCEPT !.callback = FALSE, !.entered = None])
  /\ UNCHANGED <<ctxVars, closing, activeModules, nextGeneration, active, loaded, refs,
                 accepting, instVars, results, handles>>

LeaveCallback ==
  /\ stack # <<>> /\ Top.callback
  /\ depth' = IF depth = 0 THEN 0 ELSE depth - 1
  /\ state' = IF /\ depth # 0 /\ Top.entered # None /\ active = Top.entered
                 /\ state[active] = "CALLING_HOST"
              THEN [state EXCEPT ![active] = "CALLING"] ELSE state
  /\ stack' = Append(Pop, [Top EXCEPT !.callback = FALSE, !.entered = None])
  /\ UNCHANGED <<ctxVars, closing, activeModules, nextGeneration, active, loaded, refs,
                 accepting, module, generation, bound, results, handles>>

\* The bookkeeping a call must find when it ends.
CallMatches(i) == active = i /\ state[i] = "CALLING" /\ depth = 0

FinishCall(ok) ==
  /\ stack # <<>> /\ Top.op = "call" /\ ~Top.callback
  /\ active' = IF active = Top.inst THEN None ELSE active
  /\ state' = [state EXCEPT ![Top.inst] =
                 IF CallMatches(Top.inst) /\ ok THEN "READY" ELSE "FAULTED"]
  /\ stack' = Pop
  /\ UNCHANGED <<ctxVars, closing, activeModules, nextGeneration, depth, loaded, refs,
                 accepting, module, generation, bound, results, handles>>

-----------------------------------------------------------------------------
Next ==
  \/ Free
  \/ \E r \in Results : ResultCreate(r)
  \/ \E r \in Results : ResultDestroy(r)
  \/ \E f \in Names : Register(f)
  \/ \E f \in Names : Unregister(f)
  \/ \E m \in Modules : Compile(m)
  \/ \E m \in Modules : DestroyModule(m)
  \/ \E m \in Modules, i \in Instances, r \in Results : BeginCreate(m, i, r)
  \/ Created
  \/ CreateFailed
  \/ \E i \in Instances : DestroyInstance(i)
  \/ \E i \in Instances : Resolve(i)
  \/ \E i \in Instances, h \in handles, r \in Results : BeginCall(i, h, r)
  \/ EnterCallback
  \/ LeaveCallback
  \/ \E ok \in BOOLEAN : FinishCall(ok)

Spec == Init /\ [][Next]_vars

-----------------------------------------------------------------------------
(* Properties.                                                             *)

\* The type of every variable: no reference count (ts_context_release,
\* ts_host_module_release) goes below zero.
TypeOK ==
  /\ refCount \in Nat /\ closing \in BOOLEAN /\ alive \in BOOLEAN
  /\ functions \in Seq(Names) /\ activeModules \in Nat
  /\ nextGeneration \in Nat \ {0} /\ depth \in Nat /\ active \in Instances \cup {None}
  /\ loaded \in SUBSET Modules
  /\ refs \in [Modules -> Nat] /\ accepting \in [Modules -> BOOLEAN]
  /\ state \in [Instances ->
       {"NONE", "READY", "CALLING", "CALLING_HOST", "FAULTED", "DESTROYED"}]
  /\ module \in [Instances -> Modules \cup {None}]
  /\ generation \in [Instances -> 0..GenMax]
  /\ bound \in [Instances -> Seq(Names)]
  /\ results \in SUBSET Results
  /\ stack \in Seq(Frames)
  /\ handles \in SUBSET [owner : Instances, generation : 0..GenMax]

InstancesOf(m) == {i \in Instances : Exists(i) /\ module[i] = m}

\* ts_host_module_retain/release: a module's count is its open handle plus
\* its instances, those still in their initializer included, whatever the
\* callbacks of that initializer destroyed meanwhile.
ModuleRefsExact ==
  \A m \in Modules :
    /\ refs[m] = (IF accepting[m] THEN 1 ELSE 0) + Cardinality(InstancesOf(m))
    /\ m \in loaded <=> refs[m] # 0

\* ts_context_retain/release: the context's count is the owner, the loaded
\* modules and the results, and the context is destroyed with its last one.
ContextRefsExact ==
  /\ refCount = (IF closing THEN 0 ELSE 1) + Cardinality(loaded) + Cardinality(results)
  /\ alive <=> refCount # 0

\* Neither the modules nor the context are released under their users, kept
\* for ever, or released twice.
RefCountsExact == ModuleRefsExact /\ ContextRefsExact

\* The entries an instance's runtime points into are the ones it was bound
\* to: neither moved nor freed while the instance exists.
BoundEntriesStable == \A i \in Instances : Exists(i) => alive /\ bound[i] = functions

\* The bookkeeping of callbacks agrees with the real call stack, so that no
\* call is faulted because a nested ABI call left it inconsistent.
CallsConsistent ==
  /\ depth = IF HostRuns THEN Len(stack) ELSE Len(stack) - 1
  /\ \A k \in 1..Len(stack) :
       /\ k # Len(stack) => stack[k].callback
       /\ stack[k].op = "call" =>
            /\ k = 1 /\ active = stack[k].inst
            /\ state[active] = IF stack[k].callback THEN "CALLING_HOST" ELSE "CALLING"
  /\ active # None => stack # <<>> /\ stack[1].op = "call"

\* An export handle names the instance that issued it: that instance accepts it
\* for as long as it exists, and every other one, created before or after,
\* refuses it.
HandleNamesIssuer ==
  \A i \in Instances, h \in handles : Held(i) => (Decodes(i, h) <=> h.owner = i)

-----------------------------------------------------------------------------
(* The promise of HostOwnership, implemented by counting.                  *)

Ownership == INSTANCE HostOwnership WITH
  closed <- closing,
  open   <- {m \in Modules : accepting[m]},
  pinned <- [i \in Instances |-> IF Exists(i) THEN module[i] ELSE None]

\* Code and context are in memory exactly as long as somebody owns them.
ImplementsOwnership == Ownership!ASpec
=============================================================================
