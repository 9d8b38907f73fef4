------------------------------ MODULE HostCall ------------------------------
(***************************************************************************)
(* One instance of the host ABI executing calls of its exports, one after  *)
(* the other: the call budget and its safe points                          *)
(* (turbo_script_host_limits.c), the script frames that charge and restore *)
(* it (exprtk_runtime.c, turbo_script_mir_value_runtime.c), the host       *)
(* callbacks a script makes (turbo_script_host_registry.c) and the way     *)
(* turbo_script_instance_call turns all this into the status the host sees *)
(* (turbo_script_host_instance.c).                                         *)
(*                                                                         *)
(* The script is arbitrary: any sequence of evaluation steps, loop ticks,  *)
(* calls, throws and catches.  The interrupt flag belongs to the host and  *)
(* may be raised by another thread at any moment.                          *)
(***************************************************************************)
EXTENDS Naturals, Sequences

CONSTANTS
    HardSteps, HardLoops, HardCallbacks, HardRecursion,  \* TS_HOST_HARD_*
    Interval,        \* TS_HOST_INTERRUPT_STEP_INTERVAL
    Options,         \* call options: steps, loops, callbacks, recursion, interrupt
    Limits,          \* instance limits: recursion, stack, retained
    FrameCosts,      \* bytes a frame may take
    StepCosts,       \* 1 for a node, more for a native numeric export
    RetainedSizes    \* bytes the runtime may hold when a call returns

ASSUME HardAssumption ==
    {HardSteps, HardLoops, HardCallbacks, HardRecursion} \subseteq Nat
ASSUME IntervalAssumption == Interval \in Nat \ {0}
ASSUME OptionsAssumption ==
    Options \subseteq [steps : Nat \ {0}, loops : Nat \ {0}, callbacks : Nat \ {0},
                       recursion : Nat \ {0}, interrupt : BOOLEAN]
ASSUME LimitsAssumption == Limits \in [recursion : Nat \ {0}, stack : Nat \ {0}, retained : Nat \ {0}]
ASSUME CostAssumption == FrameCosts \subseteq Nat \ {0} /\ StepCosts \subseteq Nat \ {0}
ASSUME RetainedAssumption == RetainedSizes \subseteq Nat

VARIABLES
    state,      \* instance->state
    pc,         \* where turbo_script_instance_call is
    budget,     \* ts_host_call_budget_t of the call
    frames,     \* the script frames, innermost last
    aborted,    \* env.aborted of the runtime's root environment
    diagnostic, \* instance->diagnostic.present
    verdict,    \* status of the call before the error is published
    reported,   \* status turbo_script_instance_call returned
    flag,       \* the flag the host's interrupt callback reads
    sinceFlag   \* history: steps charged since the flag was raised

vars == <<state, pc, budget, frames, aborted, diagnostic, verdict, reported, flag, sinceFlag>>

States == {"READY", "CALLING", "CALLING_HOST", "FAULTED"}
Statuses == {"OK", "LIMIT_EXCEEDED", "INTERRUPTED", "INVALID_STATE", "HOST_ERROR", "RUNTIME_ERROR"}
Pcs == {"idle", "enter", "run", "callback", "store", "finish"}

(* How the evaluation of a frame goes on: normally, at a call node, with   *)
(* flow = THROW, or returning 0 up to the function's end.                  *)
Modes == {"eval", "call", "throw", "unwind"}

Budgets == [steps : Nat, loops : Nat, callbacks : Nat,
            recursion : Nat, recursionLimit : Nat,
            stack : Nat, stackLimit : Nat, retainedLimit : Nat,
            acc : Nat, interrupt : BOOLEAN, status : Statuses]

(* A frame, with the stack budget that was left before it was entered.     *)
Frames == [bytes : Nat, base : Nat, aborted : BOOLEAN, mode : Modes]

-----------------------------------------------------------------------------
(* The budget and its safe points.                                         *)

MinOf(a, b) == IF a < b THEN a ELSE b

BudgetInit(o) ==
    LET recursion == MinOf(MinOf(o.recursion, Limits.recursion), HardRecursion)
    IN  [steps |-> MinOf(o.steps, HardSteps),
         loops |-> MinOf(o.loops, HardLoops),
         callbacks |-> MinOf(o.callbacks, HardCallbacks),
         recursion |-> recursion, recursionLimit |-> recursion,
         stack |-> Limits.stack, stackLimit |-> Limits.stack,
         retainedLimit |-> Limits.retained,
         acc |-> 0, interrupt |-> o.interrupt, status |-> "OK"]

Failed(b) == b.status # "OK"

(* The first failure is kept.                                              *)
Fail(b, s) == IF Failed(b) THEN b ELSE [b EXCEPT !.status = s]

PollInterrupt(b, f) == IF b.interrupt /\ f THEN Fail(b, "INTERRUPTED") ELSE b

(* Mutants of StepPoint: the poll is one step late; the quota is never     *)
(* charged.                                                                *)
StepPointLatePoll(b, cost, f) ==
    IF Failed(b) THEN b
    ELSE IF b.steps < cost THEN Fail(b, "LIMIT_EXCEEDED")
    ELSE IF b.acc + cost <= Interval
         THEN [b EXCEPT !.steps = @ - cost, !.acc = @ + cost]
    ELSE PollInterrupt([b EXCEPT !.steps = @ - cost, !.acc = 0], f)
StepPointUncharged(b, cost, f) ==
    IF Failed(b) THEN b
    ELSE IF b.steps < cost THEN Fail(b, "LIMIT_EXCEEDED")
    ELSE PollInterrupt(b, f)

(* A step charges the quota; every Interval steps the interrupt is polled. *)
StepPoint(b, cost, f) ==
    IF Failed(b) THEN b
    ELSE IF b.steps < cost THEN Fail(b, "LIMIT_EXCEEDED")
    ELSE IF b.acc + cost < Interval
         THEN [b EXCEPT !.steps = @ - cost, !.acc = @ + cost]
    ELSE PollInterrupt([b EXCEPT !.steps = @ - cost, !.acc = 0], f)

(* Mutant of LoopPoint: the safe point forgets that the budget has failed. *)
LoopPointAfterFailure(b, f) ==
    IF b.loops = 0 THEN Fail(b, "LIMIT_EXCEEDED")
    ELSE PollInterrupt([b EXCEPT !.loops = @ - 1], f)

LoopPoint(b, f) ==
    IF Failed(b) THEN b
    ELSE IF b.loops = 0 THEN Fail(b, "LIMIT_EXCEEDED")
    ELSE PollInterrupt([b EXCEPT !.loops = @ - 1], f)

CallbackBeforePoint(b, f) ==
    IF Failed(b) THEN b
    ELSE IF b.callbacks = 0 THEN Fail(b, "LIMIT_EXCEEDED")
    ELSE PollInterrupt([b EXCEPT !.callbacks = @ - 1], f)

CallbackAfterPoint(b, f) == IF Failed(b) THEN b ELSE PollInterrupt(b, f)

(* Mutant of EnterPoint: only the recursion quota is checked.              *)
EnterPointUncheckedStack(b, cost, f) ==
    IF Failed(b) THEN b
    ELSE IF b.recursion = 0 THEN Fail(b, "LIMIT_EXCEEDED")
    ELSE PollInterrupt([b EXCEPT !.recursion = @ - 1, !.stack = @ - cost], f)

(* An interrupt seen on entry leaves the frame charged: the caller does    *)
(* not enter it and nobody restores it.                                    *)
EnterPoint(b, cost, f) ==
    IF Failed(b) THEN b
    ELSE IF b.recursion = 0 \/ b.stack < cost THEN Fail(b, "LIMIT_EXCEEDED")
    ELSE PollInterrupt([b EXCEPT !.recursion = @ - 1, !.stack = @ - cost], f)

(* Mutant of LeavePoint: the recursion quota is not given back.            *)
LeavePointLeaksRecursion(b, cost) ==
    IF Failed(b) THEN b ELSE [b EXCEPT !.stack = @ + cost]

LeavePoint(b, cost) ==
    IF Failed(b) THEN b
    ELSE IF \/ cost > b.stackLimit
            \/ b.recursion >= b.recursionLimit
            \/ b.stack > b.stackLimit - cost
         THEN Fail(b, "INVALID_STATE")
    ELSE [b EXCEPT !.recursion = @ + 1, !.stack = @ + cost]

RetainedPoint(b, bytes) ==
    IF Failed(b) THEN b
    ELSE IF bytes > b.retainedLimit THEN Fail(b, "LIMIT_EXCEEDED") ELSE b

-----------------------------------------------------------------------------
NoBudget == [steps |-> 0, loops |-> 0, callbacks |-> 0, recursion |-> 0, recursionLimit |-> 0,
             stack |-> 0, stackLimit |-> 0, retainedLimit |-> 0,
             acc |-> 0, interrupt |-> FALSE, status |-> "OK"]

Init ==
    /\ state = "READY"
    /\ pc = "idle"
    /\ budget = NoBudget
    /\ frames = <<>>
    /\ aborted = FALSE
    /\ diagnostic = FALSE
    /\ verdict = "OK"
    /\ reported = "OK"
    /\ flag = FALSE
    /\ sinceFlag = 0

Top == frames[Len(frames)]
Callers == SubSeq(frames, 1, Len(frames) - 1)
SetTop(m, a) == [frames EXCEPT ![Len(frames)].mode = m, ![Len(frames)].aborted = a]

(* What every safe point does when it fails: the root environment aborts.  *)
Charge(b) == budget' = b /\ aborted' = (aborted \/ Failed(b))

(* turbo_script_instance_call up to the backend: initialise the budget,    *)
(* begin the call, which clears the diagnostic, attach the budget, reset   *)
(* the root environment.                                                   *)
BeginCall(o) ==
    /\ pc = "idle" /\ state = "READY"
    /\ state' = "CALLING" /\ pc' = "enter"
    /\ budget' = BudgetInit(o)
    /\ aborted' = FALSE /\ diagnostic' = FALSE
    /\ verdict' = "OK" /\ reported' = "OK"
    /\ sinceFlag' = 0
    /\ UNCHANGED <<frames, flag>>

(* A frame about to be entered, when the stack budget left is base.        *)
NewFrame(cost, base) == [bytes |-> cost, base |-> base, aborted |-> FALSE, mode |-> "eval"]

(* The export's own frame.                                                 *)
EnterExport(cost) ==
    LET b == EnterPoint(budget, cost, flag) IN
    /\ pc = "enter"
    /\ Charge(b)
    /\ \/ /\ ~Failed(b)
          /\ frames' = Append(frames, NewFrame(cost, budget.stack))
          /\ pc' = "run"
          /\ UNCHANGED verdict
       \/ /\ Failed(b)
          /\ verdict' = b.status
          /\ pc' = "finish"
          /\ UNCHANGED frames
    /\ UNCHANGED <<state, diagnostic, reported, flag, sinceFlag>>

(* A node is evaluated.  The node may be a call.                           *)
Step(cost, next) ==
    LET b == StepPoint(budget, cost, flag) IN
    /\ pc = "run" /\ Top.mode = "eval"
    /\ next \in {"eval", "call"}
    /\ Charge(b)
    /\ frames' = IF Failed(b) THEN SetTop("unwind", TRUE) ELSE SetTop(next, Top.aborted)
    /\ sinceFlag' = IF flag THEN sinceFlag + (budget.steps - b.steps) ELSE 0
    /\ UNCHANGED <<state, pc, diagnostic, verdict, reported, flag>>

(* A loop of any kind starts another iteration.                            *)
LoopTick ==
    LET b == LoopPoint(budget, flag) IN
    /\ pc = "run" /\ Top.mode = "eval"
    /\ Charge(b)
    /\ frames' = IF Failed(b) THEN SetTop("unwind", TRUE) ELSE frames
    /\ UNCHANGED <<state, pc, diagnostic, verdict, reported, flag, sinceFlag>>

(* A call of a script function.  When the frame is refused the caller's    *)
(* environment is aborted and evaluation goes on from the call node.       *)
Enter(cost) ==
    LET b == EnterPoint(budget, cost, flag) IN
    /\ pc = "run" /\ Top.mode = "call"
    /\ Charge(b)
    /\ frames' = IF Failed(b) THEN SetTop("eval", TRUE)
                 ELSE Append(SetTop("eval", Top.aborted), NewFrame(cost, budget.stack))
    /\ UNCHANGED <<state, pc, diagnostic, verdict, reported, flag, sinceFlag>>

(* The innermost function returns, normally or by unwinding.               *)
Leave ==
    LET b == LeavePoint(budget, Top.bytes)
        failed == Failed(b) \/ Top.aborted \/ Top.mode = "unwind"
    IN
    /\ pc = "run" /\ Top.mode # "call"
    /\ Charge(b)
    /\ \/ /\ Callers # <<>>
          /\ frames' = [Callers EXCEPT
                           ![Len(Callers)].aborted = failed,
                           ![Len(Callers)].mode = IF Top.mode = "throw" THEN "throw" ELSE "eval"]
          /\ UNCHANGED <<pc, verdict>>
       \/ /\ Callers = <<>>
          /\ frames' = <<>>
          /\ IF failed \/ aborted' \/ Top.mode = "throw"
             THEN /\ verdict' = IF Failed(b) THEN b.status
                                ELSE IF diagnostic THEN "HOST_ERROR" ELSE "RUNTIME_ERROR"
                  /\ pc' = "finish"
             ELSE pc' = "store" /\ UNCHANGED verdict
    /\ UNCHANGED <<state, diagnostic, reported, flag, sinceFlag>>

(* The script throws, or a runtime error is thrown for it; also when the   *)
(* thrown expression itself aborted the environment.                       *)
Throw ==
    /\ pc = "run" /\ Top.mode = "eval"
    /\ frames' = SetTop("throw", Top.aborted)
    /\ UNCHANGED <<state, pc, budget, aborted, diagnostic, verdict, reported, flag, sinceFlag>>

(* A runtime failure other than the budget's aborts the environment.       *)
RuntimeAbort ==
    /\ pc = "run" /\ Top.mode = "eval" /\ ~Top.aborted
    /\ frames' = SetTop("eval", TRUE)
    /\ UNCHANGED <<state, pc, budget, aborted, diagnostic, verdict, reported, flag, sinceFlag>>

(* try/catch: the catch body starts in a fresh environment that is not     *)
(* aborted, and its flag is copied back over the one of the try block.     *)
Catch ==
    LET b == StepPoint(budget, 1, flag) IN
    /\ pc = "run" /\ Top.mode = "throw"
    /\ Charge(b)
    /\ frames' = IF Failed(b) THEN SetTop("unwind", TRUE) ELSE SetTop("eval", FALSE)
    /\ sinceFlag' = IF flag THEN sinceFlag + (budget.steps - b.steps) ELSE 0
    /\ UNCHANGED <<state, pc, diagnostic, verdict, reported, flag>>

-----------------------------------------------------------------------------
(* Host callbacks: ts_host_registry_callback_adapter.                      *)

(* Arity or argument conversion fails: a throw that records a diagnostic,  *)
(* before anything is charged.                                             *)
CallbackRejected ==
    /\ pc = "run" /\ Top.mode = "call"
    /\ frames' = SetTop("throw", Top.aborted)
    /\ diagnostic' = TRUE
    /\ UNCHANGED <<state, pc, budget, aborted, verdict, reported, flag, sinceFlag>>

CallbackBefore ==
    LET b == CallbackBeforePoint(budget, flag) IN
    /\ pc = "run" /\ Top.mode = "call"
    /\ Charge(b)
    /\ \/ /\ Failed(b)
          /\ frames' = SetTop("eval", TRUE)
          /\ UNCHANGED <<pc, state>>
       \/ /\ ~Failed(b)
          /\ pc' = "callback" /\ state' = "CALLING_HOST"
          /\ UNCHANGED frames
    /\ UNCHANGED <<diagnostic, verdict, reported, flag, sinceFlag>>

(* The host returns a value.                                               *)
CallbackValue ==
    LET b == CallbackAfterPoint(budget, flag) IN
    /\ pc = "callback"
    /\ pc' = "run" /\ state' = "CALLING"
    /\ Charge(b)
    /\ frames' = SetTop("eval", Top.aborted \/ Failed(b))
    /\ UNCHANGED <<diagnostic, verdict, reported, flag, sinceFlag>>

(* The host returns an error, or no result at all.                         *)
CallbackError ==
    /\ pc = "callback"
    /\ pc' = "run" /\ state' = "CALLING"
    /\ frames' = SetTop("throw", Top.aborted)
    /\ diagnostic' = TRUE
    /\ UNCHANGED <<budget, aborted, verdict, reported, flag, sinceFlag>>

-----------------------------------------------------------------------------
(* The backend returned a value: it is copied into the result, which may   *)
(* exceed the result quota, and the retained bytes are charged.            *)
StoreResult(bytes) ==
    LET b == RetainedPoint(budget, bytes) IN
    /\ pc = "store"
    /\ pc' = "finish"
    /\ \/ /\ verdict' = "LIMIT_EXCEEDED"
          /\ UNCHANGED <<budget, aborted>>
       \/ /\ Charge(b)
          /\ verdict' = b.status
    /\ UNCHANGED <<state, frames, diagnostic, reported, flag, sinceFlag>>

(* ts_host_instance_finish_call and ts_host_instance_publish_execution_    *)
(* error: a recorded diagnostic takes the place of the verdict.            *)
NextState(v) == IF v = "OK" THEN "READY" ELSE "FAULTED"
Published(v, d) == IF v # "OK" /\ d THEN "HOST_ERROR" ELSE v

Finish ==
    /\ pc = "finish"
    /\ pc' = "idle"
    /\ state' = NextState(verdict)
    /\ reported' = Published(verdict, diagnostic)
    /\ diagnostic' = FALSE
    /\ UNCHANGED <<budget, frames, aborted, verdict, flag, sinceFlag>>

(* Another thread of the host raises the flag, or the host lowers it       *)
(* between two calls.                                                      *)
RaiseFlag ==
    /\ ~flag
    /\ flag' = TRUE
    /\ sinceFlag' = 0
    /\ UNCHANGED <<state, pc, budget, frames, aborted, diagnostic, verdict, reported>>

LowerFlag ==
    /\ flag /\ pc = "idle"
    /\ flag' = FALSE
    /\ UNCHANGED <<state, pc, budget, frames, aborted, diagnostic, verdict, reported, sinceFlag>>

Script ==
    \/ \E c \in StepCosts, next \in {"eval", "call"} : Step(c, next)
    \/ LoopTick
    \/ \E c \in FrameCosts : Enter(c)
    \/ Leave
    \/ Throw
    \/ RuntimeAbort
    \/ Catch
    \/ CallbackRejected
    \/ CallbackBefore

Call ==
    \/ \E c \in FrameCosts : EnterExport(c)
    \/ Script
    \/ CallbackValue
    \/ CallbackError
    \/ \E n \in RetainedSizes : StoreResult(n)
    \/ Finish

Next ==
    \/ \E o \in Options : BeginCall(o)
    \/ Call
    \/ RaiseFlag
    \/ LowerFlag

(* The owner thread keeps executing a call it has begun.                   *)
Spec == Init /\ [][Next]_vars /\ WF_vars(Call)
-----------------------------------------------------------------------------
(* Properties.                                                             *)

(* The quotas of ts_host_call_budget_s never go below zero, the states and *)
(* statuses are those of their enumerations.                               *)
TypeOK ==
    /\ state \in States
    /\ pc \in Pcs
    /\ budget \in Budgets
    /\ frames \in Seq(Frames)
    /\ aborted \in BOOLEAN
    /\ diagnostic \in BOOLEAN
    /\ verdict \in Statuses
    /\ reported \in Statuses
    /\ flag \in BOOLEAN
    /\ sinceFlag \in Nat

(* Frame accounting of ts_host_safe_point: as long as the budget has not   *)
(* failed, the recursion and stack quotas left are exactly those not held  *)
(* by a live frame, so that a FUNCTION_LEAVE never meets an inconsistency, *)
(* whatever throws, catches and refused frames came before it.             *)
FrameAccounting ==
    ~Failed(budget) =>
        /\ budget.recursion + Len(frames) = budget.recursionLimit
        /\ frames = <<>> => budget.stack = budget.stackLimit
        /\ \A i \in 1..Len(frames) :
              /\ i = 1 => frames[i].base = budget.stackLimit
              /\ frames[i].base = frames[i].bytes +
                     (IF i = Len(frames) THEN budget.stack ELSE frames[i + 1].base)

(* The branch "call frame accounting is inconsistent" of FUNCTION_LEAVE is *)
(* never taken.                                                            *)
NeverInconsistent == budget.status # "INVALID_STATE"

(* Interrupt latency: a running call that was given an interrupt callback  *)
(* charges fewer than Interval steps after the host raised the flag.       *)
InterruptLatency ==
    (budget.interrupt /\ flag /\ ~Failed(budget)) => sinceFlag < Interval

(* A spent quota or an interrupt cannot be caught away: the first budget   *)
(* failure of a call stays the failure, nothing is charged after it, and   *)
(* the call leaves the instance FAULTED, although a catch of the script    *)
(* may clear the aborted flag of its environment.                          *)
FailureIsFinal ==
    [][Failed(budget) => /\ pc # "idle" => budget' = budget
                         /\ pc' = "idle" => state' = "FAULTED"]_vars

(* Every call comes back to the host: the quotas bound the script, however *)
(* it loops, recurses, throws and catches.                                 *)
CallTerminates == (pc # "idle") ~> (pc = "idle")

=============================================================================
