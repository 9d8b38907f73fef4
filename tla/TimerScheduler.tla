--------------------------- MODULE TimerScheduler ---------------------------
(***************************************************************************)
(* The timer registry of turbo_script_timer.c.  A timer is a coroutine of  *)
(* the executor's only worker that waits, runs its callback in the root    *)
(* environment of the context, and waits again.  The host thread runs the  *)
(* main script, resizes the registry and finally frees the context.        *)
(*                                                                         *)
(* As in TaskScheduler a section under the registry mutex is one step, and *)
(* what follows the unlock is another.  Time is abstracted: a wait may end *)
(* at any moment.                                                          *)
(***************************************************************************)
EXTENDS Naturals, Sequences, FiniteSets

CONSTANTS
    Capacity,  \* size of the registry, TS_TIMER_DEFAULT_CAPACITY
    QueueCap,  \* executor queue_capacity_per_worker
    Pool,      \* executor coroutine_pool.max_capacity
    MaxId,     \* bound: timer ids handed out
    Kinds,     \* the kinds of timers the scripts start
    Calls      \* per thread, those of start, cancel, resize it uses

Threads == {"host", "worker"}

ASSUME SizeAssumption == {Capacity, QueueCap, Pool, MaxId} \subseteq Nat \ {0}
ASSUME KindsAssumption == Kinds \subseteq {"after", "every", "cron"}
ASSUME CallsAssumption == Calls \in [Threads -> SUBSET {"start", "cancel", "resize"}]

VARIABLES
    jobs,        \* scheduler->jobs
    activeCount, \* scheduler->active_count
    nextId,      \* scheduler->next_id
    queue,       \* submissions the executor has accepted and not started
    co,          \* the executor's coroutines
    exec,        \* the coroutine the worker is executing, 0 if none
    op,          \* what a thread still has to do of a call after an unlock
    phase,       \* how far turbo_script_free is
    sweep,       \* the next slot ts_timer_scheduler_shutdown visits
    epoch,       \* history: which jobs array is in use
    disturbed,   \* history: the timers that shared a slot, or lost it, while in use
    refs,        \* references the registry holds to the callback of a timer
    fired        \* history: how often the callback of a timer was started

vars == <<jobs, activeCount, nextId, queue, co, exec, op, phase, sweep, epoch, disturbed, refs, fired>>

Cos == 1..Pool
Ids == 1..MaxId
Slots == 1..Capacity
MaxEpoch == 1
MaxFired == 2

Terminal == {"COMPLETED", "CANCELLED", "FAILED", "EMPTY"}

(* callback names the timer whose callback the slot owns, 0 if none.       *)
EmptyJob == [id |-> 0, kind |-> "after", state |-> "EMPTY", active |-> FALSE,
             cancelled |-> FALSE, awaitActive |-> FALSE, handle |-> 0, callback |-> 0]
NoCo == [pc |-> "none", slot |-> 0, id |-> 0, epoch |-> 0, woken |-> FALSE]
Idle == [call |-> "idle", slot |-> 0, id |-> 0, handle |-> 0]

Init ==
    /\ jobs = [s \in Slots |-> EmptyJob]
    /\ activeCount = 0
    /\ nextId = 0
    /\ queue = <<>>
    /\ co = [c \in Cos |-> NoCo]
    /\ exec = 0
    /\ op = [t \in Threads |-> Idle]
    /\ phase = "open"
    /\ sweep = 1
    /\ epoch = 0
    /\ disturbed = {}
    /\ refs = [i \in Ids |-> 0]
    /\ fired = [i \in Ids |-> 0]

-----------------------------------------------------------------------------
Closing == phase # "open"
ExecutorDown == phase \in {"drain", "freed"}

(* A script of this thread may make a call.                                *)
InScript(t) ==
    /\ op[t] = Idle
    /\ IF t = "host" THEN phase = "open" ELSE exec # 0 /\ co[exec].pc = "callback"

(* The submissions the executor holds: queued, or run by a coroutine.      *)
Held ==
    {queue[i] : i \in 1..Len(queue)} \cup
    {[slot |-> co[c].slot, id |-> co[c].id, epoch |-> co[c].epoch] :
        c \in {d \in Cos : co[d].pc # "none"}}

(* The timers whose coroutine, or whose start, still uses a slot of S.     *)
HolderIds(S) ==
    {h.id : h \in {g \in Held : g.slot \in S /\ g.epoch = epoch}} \cup
    {op[t].id : t \in {u \in Threads : op[u].call \in {"submit", "rejected"} /\ op[u].slot \in S}}

CountWithout(j) == IF j.active /\ activeCount > 0 THEN activeCount - 1 ELSE activeCount

(* dropcb: the reference to the callback in slot s, if there is one, is    *)
(* given back.                                                             *)
DropRefs(s) ==
    IF jobs[s].callback = 0 THEN refs ELSE [refs EXCEPT ![jobs[s].callback] = @ - 1]
DropCallback(s) == refs' = DropRefs(s) /\ jobs' = [jobs EXCEPT ![s].callback = 0]

(* timer.after, timer.every, timer.cron: start, the section under the      *)
(* mutex.  It takes the first slot in a terminal state, whatever it holds. *)
Start(t, kind) ==
    /\ InScript(t) /\ "start" \in Calls[t]
    /\ ~Closing /\ nextId < MaxId
    /\ \E s \in Slots :
          /\ jobs[s].state \in Terminal
          /\ \A r \in Slots : r < s => jobs[r].state \notin Terminal
          /\ jobs' = [jobs EXCEPT ![s] = [EmptyJob EXCEPT !.id = nextId + 1, !.kind = kind,
                                          !.callback = nextId + 1, !.active = TRUE,
                                          !.state = "SCHEDULED"]]
          /\ disturbed' = IF HolderIds({s}) = {} THEN disturbed
                          ELSE disturbed \cup HolderIds({s}) \cup {nextId + 1}
          /\ op' = [op EXCEPT ![t] = [Idle EXCEPT !.call = "submit", !.slot = s, !.id = nextId + 1]]
    /\ nextId' = nextId + 1
    /\ refs' = [refs EXCEPT ![nextId + 1] = @ + 1]
    /\ activeCount' = activeCount + 1
    /\ UNCHANGED <<queue, co, exec, phase, sweep, epoch, fired>>

(* The rest of start: the executor accepts the job, or rejects it and the  *)
(* job has failed.                                                         *)
Submit(t) ==
    LET s == op[t].slot IN
    /\ op[t].call = "submit"
    /\ \/ /\ ~ExecutorDown /\ Len(queue) < QueueCap
          /\ queue' = Append(queue, [slot |-> s, id |-> op[t].id, epoch |-> epoch])
          /\ op' = [op EXCEPT ![t] = Idle]
          /\ UNCHANGED <<jobs, activeCount>>
       \/ /\ ExecutorDown \/ Len(queue) = QueueCap
          /\ jobs' = [jobs EXCEPT ![s].active = FALSE, ![s].state = "FAILED"]
          /\ activeCount' = CountWithout(jobs[s])
          /\ op' = [op EXCEPT ![t].call = "rejected"]
          /\ UNCHANGED queue
    /\ UNCHANGED <<nextId, co, exec, phase, sweep, epoch, disturbed, refs, fired>>

Rejected(t) ==
    /\ op[t].call = "rejected"
    /\ DropCallback(op[t].slot)
    /\ op' = [op EXCEPT ![t] = Idle]
    /\ UNCHANGED <<activeCount, nextId, queue, co, exec, phase, sweep, epoch, disturbed, fired>>

(* timer.cancel: the lookup under the mutex.                               *)
Cancel(t, id) ==
    /\ InScript(t) /\ "cancel" \in Calls[t]
    /\ \E s \in Slots :
          /\ jobs[s].id = id /\ jobs[s].state # "EMPTY"
          /\ op' = [op EXCEPT ![t] = [Idle EXCEPT !.call = "cancel", !.slot = s, !.id = id]]
    /\ UNCHANGED <<jobs, activeCount, nextId, queue, co, exec, phase, sweep, epoch, disturbed, refs, fired>>

(* Mutant of RequestCancel: the count of active jobs is not adjusted.     *)
RequestCancelUncounted(t) ==
    LET s == op[t].slot IN
    /\ op[t].call = "cancel"
    /\ jobs' = IF jobs[s].state \in Terminal THEN jobs
               ELSE [jobs EXCEPT ![s].cancelled = TRUE, ![s].state = "CANCELLED", ![s].active = FALSE]
    /\ op' = [op EXCEPT ![t] = Idle]
    /\ UNCHANGED <<activeCount, nextId, queue, co, exec, phase, sweep, epoch, disturbed, refs, fired>>

(* request, the section under the mutex: the job is CANCELLED and inactive *)
(* at once, while its coroutine has still to notice.                       *)
RequestCancel(t) ==
    LET s == op[t].slot IN
    /\ op[t].call = "cancel"
    /\ \/ /\ jobs[s].state \in Terminal \/ jobs[s].cancelled
          /\ op' = [op EXCEPT ![t] = Idle]
          /\ UNCHANGED <<jobs, activeCount>>
       \/ /\ jobs[s].state \notin Terminal /\ ~jobs[s].cancelled
          /\ jobs' = [jobs EXCEPT ![s].cancelled = TRUE, ![s].state = "CANCELLED",
                                  ![s].active = FALSE]
          /\ activeCount' = CountWithout(jobs[s])
          /\ op' = [op EXCEPT ![t] = IF jobs[s].awaitActive
                                     THEN [@ EXCEPT !.call = "wake", !.handle = jobs[s].handle]
                                     ELSE Idle]
    /\ UNCHANGED <<nextId, queue, co, exec, phase, sweep, epoch, disturbed, refs, fired>>

(* request after the unlock: complete the await, unless it is stale.       *)
Wake(t) ==
    /\ op[t].call = "wake"
    /\ co' = IF op[t].handle = 0 THEN co ELSE [co EXCEPT ![op[t].handle].woken = TRUE]
    /\ op' = [op EXCEPT ![t] = Idle]
    /\ UNCHANGED <<jobs, activeCount, nextId, queue, exec, phase, sweep, epoch, disturbed, refs, fired>>

-----------------------------------------------------------------------------
(* The coroutine of a timer.  Once its jobs array has been freed what it   *)
(* does is undefined, and the model does not follow it.                    *)
At(c, pc) == exec = c /\ op["worker"] = Idle /\ co[c].pc = pc /\ co[c].epoch = epoch
Job(c) == jobs[co[c].slot]
Goto(c, pc) == co' = [co EXCEPT ![c].pc = pc]

FreeCo(c) == co[c].pc = "none" /\ \A d \in Cos : d < c => co[d].pc # "none"

Begin(c, pc) ==
    /\ exec = 0 /\ queue # <<>> /\ FreeCo(c)
    /\ queue' = Tail(queue)
    /\ exec' = c
    /\ co' = [co EXCEPT ![c] = [pc |-> pc, slot |-> Head(queue).slot, id |-> Head(queue).id,
                                epoch |-> Head(queue).epoch, woken |-> FALSE]]
    /\ UNCHANGED <<jobs, activeCount, nextId, op, phase, sweep, epoch, disturbed, refs, fired>>

(* The executor calls timer_run, or, once shut down, perhaps timer_cancel. *)
Run(c) == Begin(c, "loop")
CancelQueued(c) == ExecutorDown /\ Begin(c, "cancelled")

(* The head of timer_run's loop.                                           *)
Loop(c) ==
    /\ At(c, "loop")
    /\ Goto(c, IF Job(c).cancelled \/ Closing THEN "cancelled" ELSE "begin")
    /\ UNCHANGED <<jobs, activeCount, nextId, queue, exec, op, phase, sweep, epoch, disturbed, refs, fired>>

(* Mutant of BeginWait: a cancellation that came before is not seen.       *)
BeginWaitUnchecked(c) ==
    LET s == co[c].slot IN
    /\ At(c, "begin")
    /\ jobs' = [jobs EXCEPT ![s].handle = c, ![s].awaitActive = TRUE,
                            ![s].state = IF jobs[s].cancelled THEN "CANCELLED" ELSE "SCHEDULED"]
    /\ co' = [co EXCEPT ![c].pc = "await"]
    /\ exec' = 0
    /\ UNCHANGED <<activeCount, nextId, queue, op, phase, sweep, epoch, disturbed, refs, fired>>

(* Mutant of BeginWait: a timer cancelled before it waits is scheduled     *)
(* again.                                                                  *)
BeginWaitRevives(c) ==
    LET s == co[c].slot IN
    /\ At(c, "begin")
    /\ jobs' = [jobs EXCEPT ![s].handle = c, ![s].awaitActive = TRUE, ![s].state = "SCHEDULED"]
    /\ co' = [co EXCEPT ![c].pc = "await", ![c].woken = jobs[s].cancelled]
    /\ exec' = 0
    /\ UNCHANGED <<activeCount, nextId, queue, op, phase, sweep, epoch, disturbed, refs, fired>>

(* ts_timer_wait up to the suspension.                                     *)
BeginWait(c) ==
    LET s == co[c].slot IN
    /\ At(c, "begin")
    /\ jobs' = [jobs EXCEPT ![s].handle = c, ![s].awaitActive = TRUE,
                            ![s].state = IF jobs[s].cancelled THEN "CANCELLED" ELSE "SCHEDULED"]
    /\ co' = [co EXCEPT ![c].pc = "await", ![c].woken = jobs[s].cancelled]
    /\ exec' = 0
    /\ UNCHANGED <<activeCount, nextId, queue, op, phase, sweep, epoch, disturbed, refs, fired>>

(* ts_timer_wait after the suspension.                                     *)
ResumeWait(c) ==
    LET s == co[c].slot IN
    /\ exec = 0 /\ co[c].pc = "await" /\ co[c].epoch = epoch
    /\ exec' = c
    /\ jobs' = [jobs EXCEPT ![s].awaitActive = FALSE,
                            ![s].state = IF @ \in Terminal THEN @ ELSE "PENDING"]
    /\ co' = [co EXCEPT ![c].pc = IF jobs[s].cancelled \/ co[c].woken THEN "cancelled" ELSE "fire",
                        ![c].woken = FALSE]
    /\ op' = [t \in Threads |-> IF op[t].handle = c THEN [op[t] EXCEPT !.handle = 0] ELSE op[t]]
    /\ UNCHANGED <<activeCount, nextId, queue, phase, sweep, epoch, disturbed, refs, fired>>

(* The wait is over: unless the timer has been cancelled meanwhile its     *)
(* callback is called.                                                     *)
Fire(c) ==
    /\ At(c, "fire")
    /\ \/ /\ Job(c).cancelled
          /\ Goto(c, "cancelled")
          /\ UNCHANGED <<jobs, fired>>
       \/ /\ ~Job(c).cancelled
          /\ Goto(c, "callback")
          /\ jobs' = [jobs EXCEPT ![co[c].slot].state = "RUNNING"]
          /\ fired' = IF Job(c).id # 0 /\ fired[Job(c).id] < MaxFired
                      THEN [fired EXCEPT ![Job(c).id] = @ + 1] ELSE fired
    /\ UNCHANGED <<activeCount, nextId, queue, exec, op, phase, sweep, epoch, disturbed, refs>>

(* Mutants of AfterCallback: a one-shot timer goes round again; a failed   *)
(* callback is retried for ever.                                           *)
AfterCallbackAgain(c, failed) ==
    /\ At(c, "callback")
    /\ Goto(c, IF failed THEN "failed" ELSE "loop")
    /\ UNCHANGED <<jobs, activeCount, nextId, queue, exec, op, phase, sweep, epoch, disturbed, refs, fired>>
AfterCallbackRetry(c, failed) ==
    /\ At(c, "callback")
    /\ Goto(c, IF ~failed /\ Job(c).kind = "after" THEN "completed" ELSE "loop")
    /\ UNCHANGED <<jobs, activeCount, nextId, queue, exec, op, phase, sweep, epoch, disturbed, refs, fired>>

(* The callback returns.  A cron expression may have no next occurrence.   *)
AfterCallback(c, failed) ==
    /\ At(c, "callback")
    /\ \/ failed /\ Goto(c, "failed")
       \/ ~failed /\ Job(c).kind = "after" /\ Goto(c, "completed")
       \/ ~failed /\ Job(c).kind = "cron" /\ Goto(c, "failed")
       \/ ~failed /\ Job(c).kind # "after" /\ Goto(c, "loop")
    /\ UNCHANGED <<jobs, activeCount, nextId, queue, exec, op, phase, sweep, epoch, disturbed, refs, fired>>

Verdict == [cancelled |-> "CANCELLED", completed |-> "COMPLETED", failed |-> "FAILED"]

(* done, the section under the mutex.                                      *)
Done(c) ==
    LET s == co[c].slot IN
    /\ \E pc \in DOMAIN Verdict :
          /\ At(c, pc)
          /\ jobs' = [jobs EXCEPT ![s].awaitActive = FALSE, ![s].active = FALSE,
                                  ![s].state = Verdict[pc]]
    /\ activeCount' = CountWithout(jobs[s])
    /\ Goto(c, "drop")
    /\ UNCHANGED <<nextId, queue, exec, op, phase, sweep, epoch, disturbed, refs, fired>>

(* Mutant of Drop: the reference is not given back.                        *)
DropKeepsReference(c) ==
    /\ At(c, "drop")
    /\ jobs' = [jobs EXCEPT ![co[c].slot].callback = 0]
    /\ co' = [co EXCEPT ![c] = NoCo]
    /\ exec' = 0
    /\ UNCHANGED <<activeCount, nextId, queue, op, phase, sweep, epoch, disturbed, refs, fired>>

(* done after the unlock: give the callback back; the coroutine ends.      *)
Drop(c) ==
    /\ At(c, "drop")
    /\ DropCallback(co[c].slot)
    /\ co' = [co EXCEPT ![c] = NoCo]
    /\ exec' = 0
    /\ UNCHANGED <<activeCount, nextId, queue, op, phase, sweep, epoch, disturbed, fired>>

-----------------------------------------------------------------------------
DropAll == [i \in Ids |-> refs[i] - Cardinality({s \in Slots : jobs[s].callback = i})]

(* turbo_script_set_timer_capacity: no job is active; the jobs are freed   *)
(* and a new array is allocated, whose ids start again.  The model keeps   *)
(* counting so that ids stay distinct.                                     *)
Resize ==
    /\ op["host"] = Idle /\ phase = "open" /\ "resize" \in Calls["host"]
    /\ activeCount = 0 /\ epoch < MaxEpoch
    /\ refs' = DropAll
    /\ jobs' = [s \in Slots |-> EmptyJob]
    /\ epoch' = epoch + 1
    /\ disturbed' = disturbed \cup HolderIds(Slots)
    /\ UNCHANGED <<activeCount, nextId, queue, co, exec, op, phase, sweep, fired>>

(* turbo_script_free.                                                      *)
Free ==
    /\ op["host"] = Idle /\ phase = "open"
    /\ phase' = "closing"
    /\ UNCHANGED <<jobs, activeCount, nextId, queue, co, exec, op, sweep, epoch, disturbed, refs, fired>>

CloseRegistry ==
    /\ phase = "closing"
    /\ phase' = "sweep"
    /\ UNCHANGED <<jobs, activeCount, nextId, queue, co, exec, op, sweep, epoch, disturbed, refs, fired>>

SweepNext ==
    /\ phase = "sweep" /\ op["host"] = Idle
    /\ \/ /\ sweep <= Capacity
          /\ op' = [op EXCEPT !["host"] = [Idle EXCEPT !.call = "cancel", !.slot = sweep]]
          /\ sweep' = sweep + 1
          /\ UNCHANGED phase
       \/ /\ sweep > Capacity
          /\ phase' = "drain"
          /\ UNCHANGED <<op, sweep>>
    /\ UNCHANGED <<jobs, activeCount, nextId, queue, co, exec, epoch, disturbed, refs, fired>>

(* The executor has drained: ts_timer_scheduler_destroy.                   *)
Drained ==
    /\ phase = "drain" /\ queue = <<>> /\ \A c \in Cos : co[c].pc = "none"
    /\ phase' = "freed"
    /\ refs' = DropAll
    /\ jobs' = [s \in Slots |-> EmptyJob]
    /\ UNCHANGED <<activeCount, nextId, queue, co, exec, op, sweep, epoch, disturbed, fired>>

-----------------------------------------------------------------------------
Complete(t) == Submit(t) \/ Rejected(t) \/ RequestCancel(t) \/ Wake(t)

Step(c) == Loop(c) \/ BeginWait(c) \/ Fire(c) \/ Done(c) \/ Drop(c)

Teardown == CloseRegistry \/ SweepNext \/ Drained

Next ==
    \/ \E t \in Threads : \/ \E kind \in Kinds : Start(t, kind)
                          \/ \E id \in Ids : Cancel(t, id)
                          \/ Complete(t)
    \/ \E c \in Cos : \/ Run(c) \/ CancelQueued(c)
                      \/ Step(c) \/ ResumeWait(c)
                      \/ \E failed \in BOOLEAN : AfterCallback(c, failed)
    \/ Resize
    \/ Free
    \/ Teardown

(* Both threads keep running, every callback returns, and the executor     *)
(* resumes every coroutine whose wait is over.                             *)
Fairness ==
    /\ WF_vars(Teardown)
    /\ \A t \in Threads : WF_vars(Complete(t))
    /\ \A c \in Cos :
          /\ WF_vars(Step(c))
          /\ SF_vars(ResumeWait(c))
          /\ SF_vars(Run(c) \/ CancelQueued(c))
          /\ SF_vars(\E failed \in BOOLEAN : AfterCallback(c, failed))

Spec == Init /\ [][Next]_vars /\ Fairness
-----------------------------------------------------------------------------
(* Properties.                                                             *)

(* active_count, which the host polls to know whether timers are left, is  *)
(* the number of active jobs, even when a coroutine finds another timer in *)
(* its slot.                                                               *)
ActiveExact == activeCount = Cardinality({s \in Slots : jobs[s].active})

(* "Retained before submission; released exactly once": a timer's callback *)
(* is retained from its start until its coroutine, or the rejected start,  *)
(* is through with it, and no longer, unless its slot was taken meanwhile. *)
CallbackReleasedOnce ==
    \A i \in Ids \ disturbed :
        refs[i] = IF \/ \E h \in Held : h.id = i
                     \/ \E t \in Threads : op[t].call \in {"submit", "rejected"} /\ op[t].id = i
                  THEN 1 ELSE 0

(* The slots whose timer never shared its slot.                            *)
Own == {s \in Slots : jobs[s].id \notin {0} \cup disturbed}

(* A one-shot timer runs its callback at most once.                        *)
AfterFiresOnce == \A s \in Own : jobs[s].kind = "after" => fired[jobs[s].id] <= 1

(* No lost wakeup between timer.cancel and the wait: a coroutine that      *)
(* waits although its timer is cancelled has been woken, or is about to.   *)
NoLostWakeup ==
    \A c \in Cos :
        (co[c].pc = "await" /\ co[c].id \notin disturbed /\ jobs[co[c].slot].cancelled) =>
            \/ co[c].woken
            \/ \E t \in Threads : op[t].call = "wake" /\ op[t].handle = c

(* timer.cancel reports TRUE to one caller only, and for good: wherever    *)
(* the coroutine is, the timer stays in a terminal state, inactive, and    *)
(* its callback is not started again (done may still turn CANCELLED into   *)
(* COMPLETED or FAILED when the callback was running).                     *)
CancelIsFinal ==
    [][\A s \in Own : (jobs[s].cancelled /\ jobs'[s].id = jobs[s].id) =>
          /\ jobs'[s].cancelled /\ jobs'[s].state \in Terminal /\ ~jobs'[s].active
          /\ fired'[jobs[s].id] = fired[jobs[s].id]]_vars

(* A one-shot timer comes to an end: it fires, fails or is cancelled, as   *)
(* long as no slot is taken from under a coroutine.                        *)
AfterEnds ==
    \A s \in Slots : (jobs[s].active /\ jobs[s].kind = "after")
                         ~> (~jobs[s].active \/ disturbed # {})

(* "A successful Executor submission borrows the slot until exactly one    *)
(* run or cancel callback [...] finish."                                   *)
SubmissionBorrowsSlot ==
    \A h \in Held : h.epoch = epoch /\ jobs[h.slot].id = h.id

=============================================================================
