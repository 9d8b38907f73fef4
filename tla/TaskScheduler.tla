--------------------------- MODULE TaskScheduler ---------------------------
(***************************************************************************)
(* The task registry of turbo_script_task.c with the two threads that use  *)
(* it: the host thread, which runs the main script and finally calls       *)
(* turbo_script_free, and the executor's only worker, which runs the task  *)
(* callbacks as coroutines and switches between them when they wait.       *)
(*                                                                         *)
(* A section under the registry mutex is one step; what a function does    *)
(* after the unlock is another step, so the other thread may come between. *)
(* The executor is a library (Salts): a bounded queue, a bounded pool of   *)
(* coroutines, and await handles that a timeout or a completion ends.      *)
(* Time is abstracted: a wait may time out at any moment.                  *)
(***************************************************************************)
EXTENDS Naturals, Sequences, FiniteSets

CONSTANTS
    Capacities,   \* sizes turbo_script_set_task_capacity may be given
    InitCapacity, \* TS_TASK_DEFAULT_CAPACITY
    QueueCap,     \* executor queue_capacity_per_worker
    Pool,         \* executor coroutine_pool.max_capacity
    MaxId,        \* bound: task ids handed out
    MaxCalls,     \* bound: task.* calls a callback makes
    Calls         \* per thread, those of spawn, cancel, release its scripts use

Threads == {"host", "worker"}

ASSUME SizeAssumption ==
    /\ Capacities \subseteq Nat \ {0} /\ InitCapacity \in Capacities
    /\ {QueueCap, Pool, MaxId, MaxCalls} \subseteq Nat \ {0}
ASSUME CallsAssumption == Calls \in [Threads -> SUBSET {"spawn", "cancel", "release"}]

VARIABLES
    jobs,        \* scheduler->jobs
    activeCount, \* scheduler->active_count
    nextId,      \* scheduler->next_id
    queue,       \* submissions the executor has accepted and not started
    co,          \* the executor's coroutines
    exec,        \* the coroutine the worker is executing, 0 if none
    current,     \* ts_task_current_job of the worker thread, 0 for NULL
    op,          \* what a thread still has to do of a call after an unlock
    phase,       \* how far turbo_script_free is
    sweep,       \* the next slot ts_task_scheduler_shutdown visits
    rootAborted  \* a task's error was written into the root environment

vars == <<jobs, activeCount, nextId, queue, co, exec, current, op, phase, sweep, rootAborted>>

Cos == 1..Pool
Ids == 1..MaxId
Slots == DOMAIN jobs

Terminal == {"COMPLETED", "FAILED", "CANCELLED"}
JobStates ==
    {"EMPTY", "SCHEDULED", "RUNNING", "WAITING", "CANCELLING"} \cup Terminal

(* requested and blame are history: the task id named by the task.cancel   *)
(* whose request_cancel marked this job (0: none did, or the sweep of the  *)
(* shutdown), and whose call set native_failed.                            *)
EmptyJob == [id |-> 0, state |-> "EMPTY", active |-> FALSE, cancelled |-> FALSE,
             awaitActive |-> FALSE, handle |-> 0, blame |-> "nobody", requested |-> 0]

(* self is the job a waiting function took from ts_task_current_job.       *)
NoCo == [pc |-> "none", slot |-> 0, id |-> 0, self |-> 0, join |-> 0,
         woken |-> FALSE, calls |-> 0, verdict |-> "EMPTY"]
Idle == [call |-> "idle", slot |-> 0, id |-> 0, handle |-> 0]

Init ==
    /\ jobs = [s \in 1..InitCapacity |-> EmptyJob]
    /\ activeCount = 0
    /\ nextId = 0
    /\ queue = <<>>
    /\ co = [c \in Cos |-> NoCo]
    /\ exec = 0
    /\ current = 0
    /\ op = [t \in Threads |-> Idle]
    /\ phase = "open"
    /\ sweep = 1
    /\ rootAborted = FALSE

-----------------------------------------------------------------------------
(* A thread is at a point where its script may make a call.                *)
InScript(t) ==
    /\ op[t] = Idle
    /\ IF t = "host" THEN phase = "open"
       ELSE exec # 0 /\ co[exec].pc = "run" /\ co[exec].calls < MaxCalls

CountCall(t) ==
    co' = IF t = "host" THEN co ELSE [co EXCEPT ![exec].calls = @ + 1]

(* find_locked: the first slot with this id, 0 for NULL.                   *)
Find(id) ==
    LET matches == {s \in Slots : jobs[s].id = id /\ jobs[s].state # "EMPTY"}
    IN  IF matches = {} THEN 0 ELSE CHOOSE s \in matches : \A r \in matches : s <= r

Closing == phase # "open"
ExecutorDown == phase \in {"drain", "freed"}

(* fail(): the error goes to the job ts_task_current_job names, or to the  *)
(* root environment when it names none.  c is the coroutine that fails, js *)
(* the jobs it leaves behind.  The environment its callback runs in is not *)
(* aborted: the script goes on.                                            *)
FailWith(js, c) ==
    /\ jobs' = IF current = 0 THEN js
               ELSE [js EXCEPT ![current].blame =
                        IF current = co[c].slot /\ @ # "other" THEN "self" ELSE "other"]
    /\ rootAborted' = (rootAborted \/ current = 0)
Fail(c) == FailWith(jobs, c)

(* task.spawn, the section under the mutex.                                *)
Spawn(t) ==
    /\ InScript(t) /\ "spawn" \in Calls[t]
    /\ ~Closing /\ nextId < MaxId
    /\ \E s \in Slots :
          /\ jobs[s].state = "EMPTY"
          /\ \A r \in Slots : r < s => jobs[r].state # "EMPTY"
          /\ jobs' = [jobs EXCEPT ![s].id = nextId + 1, ![s].state = "SCHEDULED",
                                  ![s].active = TRUE]
          /\ op' = [op EXCEPT ![t] = [Idle EXCEPT !.call = "submit", !.slot = s, !.id = nextId + 1]]
    /\ nextId' = nextId + 1
    /\ activeCount' = activeCount + 1
    /\ CountCall(t)
    /\ UNCHANGED <<queue, exec, current, phase, sweep, rootAborted>>

(* task.spawn refused: the registry is closing or full.  In the main       *)
(* script the error is the script's own.                                   *)
SpawnRefused ==
    /\ InScript("worker") /\ "spawn" \in Calls["worker"]
    /\ Closing \/ \A s \in Slots : jobs[s].state # "EMPTY"
    /\ Fail(exec)
    /\ CountCall("worker")
    /\ UNCHANGED <<activeCount, nextId, queue, exec, current, op, phase, sweep>>

Deactivated(j) == [j EXCEPT !.active = FALSE]
CountWithout(j) == IF j.active /\ activeCount > 0 THEN activeCount - 1 ELSE activeCount

(* Mutant of Submit: the queue is taken for full one submission late.      *)
SubmitOverfull(t) ==
    LET s == op[t].slot IN
    /\ op[t].call = "submit"
    /\ IF ~ExecutorDown /\ Len(queue) <= QueueCap
       THEN /\ queue' = Append(queue, [slot |-> s, id |-> op[t].id])
            /\ op' = [op EXCEPT ![t] = Idle]
            /\ UNCHANGED <<jobs, activeCount>>
       ELSE /\ jobs' = [jobs EXCEPT ![s] = [Deactivated(@) EXCEPT !.state = "EMPTY"]]
            /\ activeCount' = CountWithout(jobs[s])
            /\ op' = [op EXCEPT ![t].call = "rejected"]
            /\ UNCHANGED queue
    /\ UNCHANGED <<nextId, co, exec, current, phase, sweep, rootAborted>>

(* The rest of spawn: the executor accepts the job, or rejects it, and     *)
(* then the slot is given back under the mutex and reset after it.         *)
Submit(t) ==
    LET s == op[t].slot IN
    /\ op[t].call = "submit"
    /\ \/ /\ ~ExecutorDown /\ Len(queue) < QueueCap
          /\ queue' = Append(queue, [slot |-> s, id |-> op[t].id])
          /\ op' = [op EXCEPT ![t] = Idle]
          /\ UNCHANGED <<jobs, activeCount>>
       \/ /\ ExecutorDown \/ Len(queue) = QueueCap
          /\ jobs' = [jobs EXCEPT ![s] = [Deactivated(@) EXCEPT !.state = "EMPTY"]]
          /\ activeCount' = CountWithout(jobs[s])
          /\ op' = [op EXCEPT ![t].call = "rejected"]
          /\ UNCHANGED queue
    /\ UNCHANGED <<nextId, co, exec, current, phase, sweep, rootAborted>>

(* reset_job, without the mutex: the whole slot is cleared.  A rejected    *)
(* spawn then fails; in the main script the error is the script's own.     *)
Reset(t) ==
    LET cleared == [jobs EXCEPT ![op[t].slot] = EmptyJob] IN
    /\ op[t].call \in {"rejected", "release"}
    /\ op' = [op EXCEPT ![t] = Idle]
    /\ IF op[t].call = "rejected" /\ t = "worker" THEN FailWith(cleared, exec)
       ELSE jobs' = cleared /\ UNCHANGED rootAborted
    /\ UNCHANGED <<activeCount, nextId, queue, co, exec, current, phase, sweep>>

(* Mutant of Release: the state of the job is not checked.                 *)
ReleaseUnchecked(t, id) ==
    /\ InScript(t) /\ "release" \in Calls[t]
    /\ Find(id) # 0
    /\ op' = [op EXCEPT ![t] = [Idle EXCEPT !.call = "release", !.slot = Find(id), !.id = id]]
    /\ CountCall(t)
    /\ UNCHANGED <<jobs, activeCount, nextId, queue, exec, current, phase, sweep, rootAborted>>

(* task.release: the check under the mutex.                                *)
Release(t, id) ==
    /\ InScript(t) /\ "release" \in Calls[t]
    /\ Find(id) # 0
    /\ LET s == Find(id) IN
          /\ jobs[s].state \in Terminal
          /\ op' = [op EXCEPT ![t] = [Idle EXCEPT !.call = "release", !.slot = s, !.id = id]]
    /\ CountCall(t)
    /\ UNCHANGED <<jobs, activeCount, nextId, queue, exec, current, phase, sweep, rootAborted>>

(* task.cancel: the lookup under the mutex.                                *)
Cancel(t, id) ==
    /\ InScript(t) /\ "cancel" \in Calls[t]
    /\ Find(id) # 0
    /\ op' = [op EXCEPT ![t] = [Idle EXCEPT !.call = "cancel", !.slot = Find(id), !.id = id]]
    /\ CountCall(t)
    /\ UNCHANGED <<jobs, activeCount, nextId, queue, exec, current, phase, sweep, rootAborted>>

(* request_cancel, the section under the mutex.  An EMPTY job is not       *)
(* terminal: it is marked too.                                             *)
RequestCancel(t) ==
    LET s == op[t].slot IN
    /\ op[t].call = "cancel"
    /\ \/ /\ jobs[s].state \in Terminal \/ jobs[s].cancelled
          /\ op' = [op EXCEPT ![t] = Idle]
          /\ UNCHANGED jobs
       \/ /\ jobs[s].state \notin Terminal /\ ~jobs[s].cancelled
          /\ jobs' = [jobs EXCEPT ![s].cancelled = TRUE, ![s].state = "CANCELLING",
                                  ![s].requested = op[t].id]
          /\ op' = [op EXCEPT ![t] = IF jobs[s].awaitActive
                                     THEN [@ EXCEPT !.call = "wake", !.handle = jobs[s].handle]
                                     ELSE Idle]
    /\ UNCHANGED <<activeCount, nextId, queue, co, exec, current, phase, sweep, rootAborted>>

(* request_cancel after the unlock: complete the await, unless its handle  *)
(* has become stale (handle 0).                                            *)
Wake(t) ==
    /\ op[t].call = "wake"
    /\ co' = IF op[t].handle = 0 THEN co ELSE [co EXCEPT ![op[t].handle].woken = TRUE]
    /\ op' = [op EXCEPT ![t] = Idle]
    /\ UNCHANGED <<jobs, activeCount, nextId, queue, exec, current, phase, sweep, rootAborted>>

-----------------------------------------------------------------------------
(* The worker runs the coroutines.                                         *)

FreeCo(c) == co[c].pc = "none" /\ \A d \in Cos : d < c => co[d].pc # "none"

(* run_task up to the callback.                                            *)
Start(c) ==
    LET s == Head(queue).slot
        stop == Closing \/ jobs[s].cancelled \/ jobs[s].state # "SCHEDULED"
    IN
    /\ exec = 0 /\ queue # <<>> /\ FreeCo(c)
    /\ queue' = Tail(queue)
    /\ exec' = c /\ current' = s
    /\ jobs' = IF stop THEN [jobs EXCEPT ![s].cancelled = TRUE]
               ELSE [jobs EXCEPT ![s].state = "RUNNING"]
    /\ co' = [co EXCEPT ![c] = [NoCo EXCEPT !.slot = s, !.id = Head(queue).id,
                                            !.pc = IF stop THEN "finish" ELSE "run",
                                            !.verdict = IF stop THEN "CANCELLED" ELSE "EMPTY"]]
    /\ UNCHANGED <<activeCount, nextId, op, phase, sweep, rootAborted>>

(* cancel_task: an executor that was shut down cancels what it has queued. *)
CancelQueued(c) ==
    LET s == Head(queue).slot IN
    /\ exec = 0 /\ queue # <<>> /\ FreeCo(c) /\ ExecutorDown
    /\ queue' = Tail(queue)
    /\ exec' = c /\ current' = s
    /\ jobs' = [jobs EXCEPT ![s].cancelled = TRUE]
    /\ co' = [co EXCEPT ![c] = [NoCo EXCEPT !.slot = s, !.id = Head(queue).id, !.pc = "finish",
                                            !.verdict = "CANCELLED"]]
    /\ UNCHANGED <<activeCount, nextId, op, phase, sweep, rootAborted>>

AtCall == InScript("worker")
Set(c, p) == [co EXCEPT ![c].pc = p, ![c].calls = @ + 1, ![c].self = current]

(* A task.* function refuses its arguments, its caller or the state of the *)
(* job it is asked about.                                                  *)
ApiError ==
    /\ AtCall
    /\ Fail(exec)
    /\ CountCall("worker")
    /\ UNCHANGED <<activeCount, nextId, queue, exec, current, op, phase, sweep>>

MayYield == IF current = 0 THEN FALSE ELSE ~jobs[current].cancelled

(* task.yield: refused outside a task or when cancelled, else suspended.   *)
Yield ==
    /\ AtCall
    /\ \/ /\ ~MayYield
          /\ Fail(exec)
          /\ CountCall("worker")
          /\ UNCHANGED exec
       \/ /\ MayYield
          /\ co' = Set(exec, "yield")
          /\ exec' = 0
          /\ UNCHANGED <<jobs, rootAborted>>
    /\ UNCHANGED <<activeCount, nextId, queue, current, op, phase, sweep>>

ResumeYield(c) ==
    /\ exec = 0 /\ co[c].pc = "yield"
    /\ exec' = c
    /\ co' = [co EXCEPT ![c].pc = "run", ![c].self = 0]
    /\ IF jobs[co[c].self].cancelled THEN Fail(c) ELSE UNCHANGED <<jobs, rootAborted>>
    /\ UNCHANGED <<activeCount, nextId, queue, current, op, phase, sweep>>

(* task.sleep(0) was a yield that looks at nothing when it comes back.     *)
ResumePause(c) ==
    /\ exec = 0 /\ co[c].pc = "pause"
    /\ exec' = c
    /\ co' = [co EXCEPT ![c].pc = "run", ![c].self = 0]
    /\ UNCHANGED <<jobs, activeCount, nextId, queue, current, op, phase, sweep, rootAborted>>

(* Mutant of BeginWait: the cancellation that came before is not seen.     *)
BeginWaitUnchecked(c, s, next) ==
    /\ jobs' = [jobs EXCEPT ![s].handle = c, ![s].awaitActive = TRUE,
                            ![s].state = IF @ = "CANCELLING" THEN @ ELSE "WAITING"]
    /\ co' = [next EXCEPT ![c].pc = "await", ![c].self = s]
    /\ exec' = 0

(* wait_for up to the suspension: publish the handle, and complete it at   *)
(* once when the job is cancelled already.  s is the job it works on.      *)
BeginWait(c, s, next) ==
    /\ jobs' = [jobs EXCEPT ![s].handle = c, ![s].awaitActive = TRUE,
                            ![s].state = IF jobs[s].cancelled THEN "CANCELLING" ELSE "WAITING"]
    /\ co' = [next EXCEPT ![c].pc = "await", ![c].self = s, ![c].woken = jobs[s].cancelled]
    /\ exec' = 0

(* task.sleep: refused outside a task; a sleep of 0 ms only yields, and    *)
(* looks at no cancellation.                                               *)
Sleep ==
    /\ AtCall
    /\ \/ /\ current = 0
          /\ Fail(exec) /\ CountCall("worker")
          /\ UNCHANGED exec
       \/ /\ current # 0
          /\ co' = Set(exec, "pause")
          /\ exec' = 0
          /\ UNCHANGED <<jobs, rootAborted>>
       \/ /\ current # 0
          /\ BeginWait(exec, current, [co EXCEPT ![exec].calls = @ + 1])
          /\ UNCHANGED rootAborted
    /\ UNCHANGED <<activeCount, nextId, queue, current, op, phase, sweep>>

(* task.join starts: its caller is a task.                                 *)
Join(id) ==
    /\ AtCall /\ current # 0
    /\ co' = [Set(exec, "join") EXCEPT ![exec].join = id]
    /\ UNCHANGED <<jobs, activeCount, nextId, queue, exec, current, op, phase, sweep, rootAborted>>

(* One round of the loop of task.join: the job is unknown or the caller,   *)
(* or it has ended, or the caller waits a millisecond.                     *)
JoinRound(c) ==
    LET self == co[c].self
        found == Find(co[c].join)
        back == [co EXCEPT ![c].pc = "run", ![c].join = 0, ![c].self = 0]
    IN
    /\ exec = c /\ co[c].pc = "join"
    /\ \/ /\ found \in {0, self}
          /\ Fail(c) /\ co' = back
          /\ UNCHANGED exec
       \/ /\ found \notin {0, self}
          /\ LET state == jobs[found].state IN
             \/ /\ state = "COMPLETED" /\ co' = back
                /\ UNCHANGED <<jobs, rootAborted, exec>>
             \/ /\ state \in {"FAILED", "CANCELLED"}
                /\ Fail(c) /\ co' = back
                /\ UNCHANGED exec
             \/ /\ state \notin Terminal
                /\ BeginWait(c, self, co)
                /\ UNCHANGED rootAborted
    /\ UNCHANGED <<activeCount, nextId, queue, current, op, phase, sweep>>

(* Mutant of ResumeWait: a job that has ended meanwhile is running again.  *)
ResumeWaitUnchecked(c) ==
    LET s == co[c].self
        j == [jobs[s] EXCEPT !.awaitActive = FALSE,
                             !.state = IF jobs[s].cancelled THEN @ ELSE "RUNNING"]
        ended == jobs[s].cancelled \/ co[c].woken
        woken == [jobs EXCEPT ![s] = j]
    IN
    /\ exec = 0 /\ co[c].pc = "await"
    /\ exec' = c
    /\ op' = [t \in Threads |-> IF op[t].handle = c THEN [op[t] EXCEPT !.handle = 0] ELSE op[t]]
    /\ IF ~ended
       THEN /\ jobs' = woken
            /\ co' = [co EXCEPT ![c].pc = IF co[c].join = 0 THEN "run" ELSE "join",
                                ![c].self = IF co[c].join = 0 THEN 0 ELSE @]
            /\ UNCHANGED rootAborted
       ELSE /\ co' = [co EXCEPT ![c].pc = "run", ![c].woken = FALSE, ![c].join = 0, ![c].self = 0]
            /\ FailWith(woken, c)
    /\ UNCHANGED <<activeCount, nextId, queue, current, phase, sweep>>

(* wait_for after the suspension, which a timeout or a completion ended;   *)
(* its handle is stale from now on.  A cancelled wait makes its caller     *)
(* fail; task.join goes round again otherwise.                             *)
ResumeWait(c) ==
    LET s == co[c].self
        j == [jobs[s] EXCEPT !.awaitActive = FALSE,
                             !.state = IF @ \in Terminal \/ jobs[s].cancelled THEN @ ELSE "RUNNING"]
        ended == jobs[s].cancelled \/ co[c].woken
        woken == [jobs EXCEPT ![s] = j]
    IN
    /\ exec = 0 /\ co[c].pc = "await"
    /\ exec' = c
    /\ op' = [t \in Threads |-> IF op[t].handle = c THEN [op[t] EXCEPT !.handle = 0] ELSE op[t]]
    /\ IF ~ended
       THEN /\ jobs' = woken
            /\ co' = [co EXCEPT ![c].pc = IF co[c].join = 0 THEN "run" ELSE "join",
                                ![c].self = IF co[c].join = 0 THEN 0 ELSE @]
            /\ UNCHANGED rootAborted
       ELSE /\ co' = [co EXCEPT ![c].pc = "run", ![c].woken = FALSE, ![c].join = 0, ![c].self = 0]
            /\ FailWith(woken, c)
    /\ UNCHANGED <<activeCount, nextId, queue, current, phase, sweep>>

(* The callback ends, perhaps with an exception nobody caught: finish      *)
(* reads the cancellation and the failure.                                 *)
Return(threw) ==
    LET s == co[exec].slot IN
    /\ exec # 0 /\ co[exec].pc = "run" /\ op["worker"] = Idle
    /\ co' = [co EXCEPT ![exec].pc = "finish",
                        ![exec].verdict = IF jobs[s].cancelled THEN "CANCELLED"
                                          ELSE IF threw \/ jobs[s].blame # "nobody" THEN "FAILED"
                                          ELSE "COMPLETED"]
    /\ UNCHANGED <<jobs, activeCount, nextId, queue, exec, current, op, phase, sweep, rootAborted>>

(* Mutant of Finish: the job stays active.                                 *)
FinishKeepsActive ==
    LET s == co[exec].slot IN
    /\ exec # 0 /\ co[exec].pc = "finish"
    /\ jobs' = [jobs EXCEPT ![s].active = FALSE, ![s].awaitActive = FALSE,
                            ![s].state = co[exec].verdict]
    /\ co' = [co EXCEPT ![exec] = NoCo]
    /\ exec' = 0 /\ current' = 0
    /\ UNCHANGED <<activeCount, nextId, queue, op, phase, sweep, rootAborted>>

(* The second section of finish commits the terminal state.                *)
Finish ==
    LET s == co[exec].slot IN
    /\ exec # 0 /\ co[exec].pc = "finish"
    /\ jobs' = [jobs EXCEPT ![s] = [Deactivated(@) EXCEPT !.awaitActive = FALSE,
                                                          !.state = co[exec].verdict]]
    /\ activeCount' = CountWithout(jobs[s])
    /\ co' = [co EXCEPT ![exec] = NoCo]
    /\ exec' = 0 /\ current' = 0
    /\ UNCHANGED <<nextId, queue, op, phase, sweep, rootAborted>>

-----------------------------------------------------------------------------
(* The host resizes the registry: a new scheduler, whose ids start again.  *)
Resize(n) ==
    /\ op["host"] = Idle /\ phase = "open"
    /\ activeCount = 0
    /\ jobs' = [s \in 1..n |-> EmptyJob]
    /\ nextId' = 0
    /\ UNCHANGED <<activeCount, queue, co, exec, current, op, phase, sweep, rootAborted>>

(* turbo_script_free: mark the context closing, close the registry, ask    *)
(* every job to stop, shut the executor down and wait for it to drain.     *)
Free ==
    /\ op["host"] = Idle /\ phase = "open"
    /\ phase' = "closing"
    /\ UNCHANGED <<jobs, activeCount, nextId, queue, co, exec, current, op, sweep, rootAborted>>

CloseRegistry ==
    /\ phase = "closing"
    /\ phase' = "sweep"
    /\ UNCHANGED <<jobs, activeCount, nextId, queue, co, exec, current, op, sweep, rootAborted>>

(* Mutant of SweepNext: the loop stops one slot early.                     *)
SweepNextShort ==
    /\ phase = "sweep" /\ op["host"] = Idle
    /\ IF sweep < Len(jobs)
       THEN /\ op' = [op EXCEPT !["host"] = [Idle EXCEPT !.call = "cancel", !.slot = sweep]]
            /\ sweep' = sweep + 1
            /\ UNCHANGED phase
       ELSE phase' = "drain" /\ UNCHANGED <<op, sweep>>
    /\ UNCHANGED <<jobs, activeCount, nextId, queue, co, exec, current, rootAborted>>

SweepNext ==
    /\ phase = "sweep" /\ op["host"] = Idle
    /\ \/ /\ sweep <= Len(jobs)
          /\ op' = [op EXCEPT !["host"] = [Idle EXCEPT !.call = "cancel", !.slot = sweep]]
          /\ sweep' = sweep + 1
          /\ UNCHANGED phase
       \/ /\ sweep > Len(jobs)
          /\ phase' = "drain"
          /\ UNCHANGED <<op, sweep>>
    /\ UNCHANGED <<jobs, activeCount, nextId, queue, co, exec, current, rootAborted>>

(* The executor has drained: the registry's storage is released.           *)
Drained ==
    /\ phase = "drain" /\ queue = <<>> /\ \A c \in Cos : co[c].pc = "none"
    /\ phase' = "freed"
    /\ jobs' = [s \in Slots |-> EmptyJob]
    /\ UNCHANGED <<activeCount, nextId, queue, co, exec, current, op, sweep, rootAborted>>

-----------------------------------------------------------------------------
ApiCall(t) ==
    \/ Spawn(t)
    \/ \E id \in Ids : Release(t, id) \/ Cancel(t, id)

Complete(t) == Submit(t) \/ Reset(t) \/ RequestCancel(t) \/ Wake(t)

TaskCall == SpawnRefused \/ ApiError \/ Yield \/ Sleep \/ \E id \in Ids : Join(id)

Resume(c) == ResumeYield(c) \/ ResumePause(c) \/ ResumeWait(c)
Coroutine(c) == Resume(c) \/ JoinRound(c)

Teardown == CloseRegistry \/ SweepNext \/ Drained

Next ==
    \/ \E t \in Threads : ApiCall(t) \/ Complete(t)
    \/ TaskCall
    \/ \E c \in Cos : Start(c) \/ CancelQueued(c) \/ Coroutine(c)
    \/ \E threw \in BOOLEAN : Return(threw)
    \/ Finish
    \/ \E n \in Capacities : Resize(n)
    \/ Free
    \/ Teardown

(* Both threads keep running, the executor starts and resumes what it can, *)
(* no coroutine is passed over for ever, and every callback ends.          *)
Fairness ==
    /\ WF_vars(Teardown)
    /\ \A t \in Threads : WF_vars(Complete(t))
    /\ \A c \in Cos : /\ SF_vars(Resume(c))
                      /\ WF_vars(JoinRound(c))
                      /\ SF_vars(Start(c) \/ CancelQueued(c))
    /\ SF_vars(\E threw \in BOOLEAN : Return(threw))
    /\ WF_vars(Finish)

Spec == Init /\ [][Next]_vars /\ Fairness
-----------------------------------------------------------------------------
(* Properties.                                                             *)

SlotOrNone == 0..Len(jobs)
Pcs == {"none", "run", "yield", "pause", "join", "await", "finish"}
OpCalls == {"idle", "submit", "rejected", "release", "cancel", "wake"}
Phases == {"open", "closing", "sweep", "drain", "freed"}

(* Types; the executor's queue (try_submit_to) never exceeds its capacity. *)
TypeOK ==
    /\ jobs \in Seq([id : 0..MaxId, state : JobStates, active : BOOLEAN, cancelled : BOOLEAN,
                     awaitActive : BOOLEAN, handle : 0..Pool,
                     blame : {"nobody", "self", "other"}, requested : 0..MaxId])
    /\ activeCount \in Nat /\ nextId \in 0..MaxId
    /\ queue \in Seq([slot : Slots, id : Ids]) /\ Len(queue) <= QueueCap
    /\ co \in [Cos -> [pc : Pcs, slot : SlotOrNone, id : 0..MaxId, self : SlotOrNone,
                       join : 0..MaxId, woken : BOOLEAN, calls : 0..MaxCalls,
                       verdict : Terminal \cup {"EMPTY"}]]
    /\ exec \in 0..Pool /\ current \in SlotOrNone
    /\ op \in [Threads -> [call : OpCalls, slot : SlotOrNone, id : 0..MaxId, handle : 0..Pool]]
    /\ phase \in Phases /\ sweep \in Nat /\ rootAborted \in BOOLEAN

(* The submissions the executor holds: queued, or run by a coroutine.      *)
Held ==
    {queue[i] : i \in 1..Len(queue)} \cup
    {[slot |-> co[c].slot, id |-> co[c].id] : c \in {d \in Cos : co[d].pc # "none"}}

(* "A successful Executor submission borrows the slot until exactly one    *)
(* run or cancel callback [...] finish": until then the slot belongs to    *)
(* the task that was submitted with it and counts as active.               *)
SubmissionBorrowsSlot ==
    \A h \in Held : jobs[h.slot].id = h.id /\ jobs[h.slot].active

(* active_count, which the host polls to know when all tasks are done, is  *)
(* the number of jobs that are active.                                     *)
ActiveExact == activeCount = Cardinality({s \in Slots : jobs[s].active})

(* The step leaves the state of the job in this slot, or clears the slot.  *)
KeepsState(s) ==
    \/ s \in DOMAIN jobs' /\ jobs'[s].state = jobs[s].state
    \/ s \in DOMAIN jobs' => jobs'[s].id = 0

(* "RUNNING -> {COMPLETED, FAILED, CANCELLED}", "the shard performs the    *)
(* only terminal cleanup": a terminal state stays until the slot is reset. *)
(* Violated by a join that waits on the job of another task.               *)
TerminalIsFinal == [][\A s \in Slots : jobs[s].state \in Terminal => KeepsState(s)]_vars

(* The one way out of a terminal state: a task in task.join took, from     *)
(* ts_task_current_job, the job of a task that has since ended, and waits  *)
(* another millisecond for it.  Cancellations, wait_for after the          *)
(* suspension and finish, on any coroutine, leave a terminal state alone.  *)
TerminalUnlessRejoined ==
    [][\A s \in Slots : jobs[s].state \in Terminal =>
          \/ KeepsState(s)
          \/ \E c \in Cos : co[c].pc = "join" /\ co[c].self = s /\ co[c].slot # s]_vars

(* No lost wakeup between task.cancel and task.sleep or task.join: a task  *)
(* that waits although it is cancelled has been woken, or the thread that  *)
(* cancelled it is about to wake it.                                       *)
NoLostWakeup ==
    \A c \in Cos : (co[c].pc = "await" /\ jobs[co[c].slot].cancelled) =>
        \/ co[c].woken
        \/ \E t \in Threads : op[t].call = "wake" /\ op[t].handle = c

(* "A cancel request wins only from a nonterminal state", and task.cancel  *)
(* of an unknown or ended task returns false: while the context is open, a *)
(* task ends CANCELLED only by a task.cancel that named it.  Violated, as  *)
(* fn_cancel unlocks between the lookup and the request.                   *)
CancelledByName ==
    \A s \in Slots : (jobs[s].state = "CANCELLED" /\ ~Closing) => jobs[s].requested = jobs[s].id

(* turbo_script_free returns: whatever the tasks wait for, the sweep and   *)
(* the closed executor end them all.                                       *)
FreeReturns == Closing ~> (phase = "freed")

(* "An uncaught exception marks only the current task as failed and does   *)
(* not pollute the root script environment": an error raised inside a task *)
(* is recorded in that task.                                               *)
ErrorStaysInTask == ~rootAborted /\ \A s \in Slots : jobs[s].blame # "other"

=============================================================================
