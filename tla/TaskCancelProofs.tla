-------------------------- MODULE TaskCancelProofs --------------------------
(***************************************************************************)
(* What TaskScheduler promises about waits and terminal states, on top of  *)
(* the inductive invariant of TaskSchedulerProofs.                         *)
(*                                                                         *)
(* task.join keeps the job it works for in a local variable across its     *)
(* waits, and takes it from ts_task_current_job, which another coroutine   *)
(* of the worker may have set.  The wakeup of a cancelled wait is promised *)
(* for as long as every coroutine waits on its own job; what happens to    *)
(* terminal states is stated and proved without that proviso.              *)
(***************************************************************************)
EXTENDS TaskSchedulerProofs

OwnJobs == \A c \in Cos : co[c].self \in {0, co[c].slot}

(* A job that waits names the await that ends its wait, and if it is       *)
(* cancelled somebody ends it.                                             *)
WaitOK(c) ==
    co[c].pc = "await" =>
        /\ co[c].self = co[c].slot
        /\ jobs[co[c].slot].awaitActive /\ jobs[co[c].slot].handle = c
        /\ jobs[co[c].slot].cancelled =>
              \/ co[c].woken
              \/ \E t \in Threads : op[t].call = "wake" /\ op[t].handle = c

WaitInv == \A c \in Cos : WaitOK(c)

-----------------------------------------------------------------------------
(* Steps that change at most one job.                                      *)

QuietJob(s) == SameBut(jobs[s], jobs'[s])

(* The coroutine is not made to wait.                                      *)
QuietCo(c) ==
    /\ co'[c].slot = co[c].slot
    /\ co'[c].pc = "await" =>
          co[c].pc = "await" /\ co'[c].self = co[c].self /\ (co[c].woken => co'[c].woken)

(* No wakeup is dropped.                                                   *)
QuietWakes ==
    \A t \in Threads : (op[t].call = "wake" /\ op[t].handle # 0) =>
        \/ op'[t].call = "wake" /\ op'[t].handle = op[t].handle
        \/ co'[op[t].handle].woken
        \/ co'[op[t].handle].pc # "await"

(* What such a step leaves of the invariant for all jobs but s.            *)
LEMMA Elsewhere ==
    ASSUME IInv, WaitInv, NEW s, QuietWakes, \A r \in Slots \ {s} : QuietJob(r),
           NEW c \in Cos, Live(c), co[c].slot # s, QuietCo(c)
    PROVE  WaitOK(c)'
<1> DEFINE r == co[c].slot
<1>1. r \in Slots \ {s} /\ WaitOK(c) /\ co'[c].slot = r
  BY DEF IInv, SlotsInv, HoldersOK, Borrowed, WaitInv, QuietCo
<1>2. SameBut(jobs[r], jobs'[r])
  BY <1>1 DEF QuietJob
<1>3. ASSUME co'[c].pc = "await"
      PROVE  /\ co'[c].self = r /\ jobs'[r].awaitActive /\ jobs'[r].handle = c
             /\ jobs'[r].cancelled =>
                  \/ co'[c].woken
                  \/ \E t \in Threads : op'[t].call = "wake" /\ op'[t].handle = c
  <2>1. /\ co[c].pc = "await" /\ co'[c].self = r /\ jobs'[r].awaitActive /\ jobs'[r].handle = c
        /\ (jobs'[r].cancelled => jobs[r].cancelled) /\ (co[c].woken => co'[c].woken)
    BY <1>1, <1>2, <1>3 DEF WaitOK, QuietCo, SameBut
  <2>2. ASSUME NEW t \in Threads, op[t].call = "wake", op[t].handle = c
        PROVE  co'[c].woken \/ (op'[t].call = "wake" /\ op'[t].handle = c)
    BY <1>3, <2>2, Sizes0 DEF QuietWakes
  <2> QED
    BY <1>1, <2>1, <2>2 DEF WaitOK
<1> QED
  BY <1>1, <1>3 DEF WaitOK

(* Steps that change the job in slot s.                                    *)
LEMMA AtSlot ==
    ASSUME IInv, WaitInv, NEW s, QuietWakes, \A r \in Slots \ {s} : QuietJob(r),
           \A c \in Cos : \/ ~Live(c)'
                          \/ WaitOK(c)'
                          \/ Live(c) /\ co[c].slot # s /\ QuietCo(c)
    PROVE  WaitInv'
<1> SUFFICES ASSUME NEW c \in Cos PROVE WaitOK(c)'
  BY DEF WaitInv
<1>1. CASE ~Live(c)'
  BY <1>1 DEF WaitOK, Live
<1>2. CASE Live(c) /\ co[c].slot # s /\ QuietCo(c)
  BY <1>2, Elsewhere
<1> QED
  BY <1>1, <1>2

(* Steps that change no job but for its error.                             *)
LEMMA Quiet ==
    ASSUME IInv, WaitInv, QuietWakes, \A s \in Slots : QuietJob(s),
           \A c \in Cos : QuietCo(c) /\ (Live(c)' => Live(c))
    PROVE  WaitInv'
<1>1. \A c \in Cos : Live(c) => co[c].slot # 0
  BY SlotsAre DEF IInv, SlotsInv, HoldersOK, Borrowed
<1> QED
  BY <1>1, AtSlot

-----------------------------------------------------------------------------
(* One lemma per action.                                                   *)

LEMMA JobsSame ==
    ASSUME UNCHANGED jobs
    PROVE  Slots' = Slots /\ \A s \in Slots : QuietJob(s)
BY DEF Slots, QuietJob, SameBut

LEMMA FailQuiet ==
    ASSUME IInv, NEW c, Fail(c)
    PROVE  Slots' = Slots /\ \A s \in Slots : QuietJob(s)
<1>1. jobs \in Seq(Job)
  BY SlotsAre DEF IInv
<1> QED
  BY <1>1, FailEffect DEF IInv, Fail, QuietJob

(* One coroutine is written.                                               *)
LEMMA OneCo ==
    ASSUME IInv, NEW c \in Cos, Live(c), NEW k, co' = [co EXCEPT ![c] = k],
           k.slot = co[c].slot, k.pc \notin {"none", "await"}
    PROVE  \A d \in Cos : QuietCo(d) /\ (Live(d)' => Live(d))
<1>1. co'[c] = k /\ \A d \in Cos \ {c} : co'[d] = co[d]
  BY TypeFacts DEF IInv
<1> QED
  BY <1>1 DEF QuietCo, Live

LEMMA CountQuiet ==
    ASSUME IInv, NEW t \in Threads, InScript(t), CountCall(t)
    PROVE  \A d \in Cos : QuietCo(d) /\ (Live(d)' => Live(d))
<1> USE DEF IInv
<1>1. CASE t = "host"
  BY <1>1 DEF CountCall, QuietCo, Live
<1>2. CASE t = "worker"
  <2> DEFINE k == [co[exec] EXCEPT !.calls = @ + 1]
  <2>1. exec \in Cos /\ co[exec] \in CoRec /\ Live(exec) /\ co[exec].pc = "run"
    BY <1>2, ScriptFacts
  <2>2. k.slot = co[exec].slot /\ k.pc = "run"
    BY <2>1 DEF CoRec
  <2>3. co' = [co EXCEPT ![exec] = k]
    BY <1>2, <2>1 DEF CountCall
  <2> HIDE DEF k
  <2> QED
    BY <2>1, <2>2, <2>3, OneCo
<1> QED
  BY <1>1, <1>2 DEF Threads

(* A step that finishes no wakeup.                                         *)
LEMMA QuietStep ==
    ASSUME IInv, WaitInv, \A s \in Slots : QuietJob(s),
           \A c \in Cos : QuietCo(c) /\ (Live(c)' => Live(c)),
           \A t \in Threads : op'[t] = op[t] \/ op[t].call # "wake"
    PROVE  WaitInv'
<1>1. QuietWakes
  BY DEF QuietWakes
<1> QED
  BY <1>1, Quiet

LEMMA LookupCancel ==
    ASSUME IInv, WaitInv, NEW t \in Threads, NEW id \in Ids, Release(t, id) \/ Cancel(t, id)
    PROVE  WaitInv'
<1>1. InScript(t) /\ CountCall(t) /\ UNCHANGED jobs /\ op[t].call = "idle"
  BY DEF Release, Cancel, InScript, Idle
<1>2. \A u \in Threads : op'[u] = op[u] \/ op[u].call # "wake"
  BY <1>1, TypeFacts DEF IInv, Release, Cancel
<1> QED
  BY <1>1, <1>2, JobsSame, CountQuiet, QuietStep

LEMMA RefusedCancel ==
    ASSUME IInv, WaitInv, InScript("worker"), Fail(exec), CountCall("worker"), UNCHANGED op
    PROVE  WaitInv'
BY FailQuiet, CountQuiet, QuietStep DEF Threads

(* task.yield and a sleep of 0 ms.                                         *)
LEMMA SuspendCancel ==
    ASSUME IInv, WaitInv, InScript("worker"), NEW p \in {"yield", "pause"},
           co' = Set(exec, p), UNCHANGED <<jobs, op>>
    PROVE  WaitInv'
<1> USE DEF IInv
<1> DEFINE k == [co[exec] EXCEPT !.pc = p, !.calls = @ + 1, !.self = current]
<1>1. exec \in Cos /\ co[exec] \in CoRec /\ Live(exec)
  BY ScriptFacts
<1>2. k.slot = co[exec].slot /\ k.pc = p
  BY <1>1 DEF CoRec
<1>3. co' = [co EXCEPT ![exec] = k]
  BY DEF Set
<1> HIDE DEF k
<1> QED
  BY <1>1, <1>2, <1>3, OneCo, JobsSame, QuietStep

LEMMA YieldCancel ==
    ASSUME IInv, WaitInv, Yield
    PROVE  WaitInv'
<1>1. InScript("worker") /\ UNCHANGED op
  BY DEF Yield, AtCall
<1>2. CASE Fail(exec) /\ CountCall("worker")
  BY <1>1, <1>2, RefusedCancel
<1>3. CASE co' = Set(exec, "yield") /\ UNCHANGED jobs
  BY <1>1, <1>3, SuspendCancel
<1> QED
  BY <1>2, <1>3 DEF Yield

LEMMA JoinCancel ==
    ASSUME IInv, WaitInv, NEW id \in Ids, Join(id)
    PROVE  WaitInv'
<1> USE DEF IInv
<1> DEFINE k == [co[exec] EXCEPT !.pc = "join", !.calls = @ + 1, !.self = current, !.join = id]
<1>1. InScript("worker") /\ UNCHANGED <<jobs, op>>
  BY DEF Join, AtCall
<1>2. exec \in Cos /\ co[exec] \in CoRec /\ Live(exec)
  BY <1>1, ScriptFacts
<1>3. k.slot = co[exec].slot /\ k.pc = "join"
  BY <1>2 DEF CoRec
<1>4. co' = [co EXCEPT ![exec] = k]
  <2>1. [[co EXCEPT ![exec].pc = "join", ![exec].calls = @ + 1, ![exec].self = current]
          EXCEPT ![exec].join = id] = [co EXCEPT ![exec] = k]
    BY <1>2, TypeFacts DEF CoRec
  <2> QED
    BY <2>1 DEF Join, Set
<1> HIDE DEF k
<1> QED
  BY <1>1, <1>2, <1>3, <1>4, OneCo, JobsSame, QuietStep

LEMMA ResumeYieldCancel ==
    ASSUME IInv, WaitInv, NEW c \in Cos, ResumeYield(c) \/ ResumePause(c)
    PROVE  WaitInv'
<1> USE DEF IInv
<1> DEFINE k == [co[c] EXCEPT !.pc = "run", !.self = 0]
<1>1. /\ co[c].pc \in {"yield", "pause"} /\ UNCHANGED op
      /\ Fail(c) \/ UNCHANGED jobs
  BY DEF ResumeYield, ResumePause
<1>2. co[c] \in CoRec /\ Live(c)
  BY <1>1, TypeFacts DEF Live
<1>3. k.slot = co[c].slot /\ k.pc = "run"
  BY <1>2 DEF CoRec
<1>4. co' = [co EXCEPT ![c] = k]
  BY <1>2, TypeFacts DEF ResumeYield, ResumePause
<1> HIDE DEF k
<1>5. Slots' = Slots /\ \A s \in Slots : QuietJob(s)
  BY <1>1, FailQuiet, JobsSame
<1> QED
  BY <1>1, <1>2, <1>3, <1>4, <1>5, OneCo, QuietStep

LEMMA WakeCancel ==
    ASSUME IInv, WaitInv, NEW t \in Threads, Wake(t)
    PROVE  WaitInv'
<1> USE DEF IInv
<1> DEFINE h == op[t].handle
<1>1. op \in [Threads -> OpRec] /\ h \in 0..Pool /\ op[t].call = "wake"
  BY TypeFacts DEF OpRec, Wake
<1>2. \A d \in Cos : /\ QuietCo(d) /\ (Live(d)' => Live(d))
                     /\ d = h => co'[d].woken
  <2>1. CASE h = 0
    BY <2>1, Sizes0 DEF Wake, QuietCo, Live
  <2>2. CASE h # 0
    <3>1. h \in Cos /\ \A d \in Cos : co[d] \in CoRec
      BY <1>1, <2>2, TypeFacts, Sizes0 DEF Cos
    <3>2. /\ co' = [co EXCEPT ![h].woken = TRUE]
      BY <2>2 DEF Wake
    <3> QED
      BY <3>1, <3>2, TypeFacts DEF CoRec, QuietCo, Live
  <2> QED
    BY <2>1, <2>2
<1>3. \A u \in Threads \ {t} : op'[u] = op[u]
  BY <1>1 DEF Wake
<1>4. QuietWakes
  <2> SUFFICES ASSUME NEW u \in Threads, op[u].call = "wake", op[u].handle # 0
               PROVE  \/ op'[u].call = "wake" /\ op'[u].handle = op[u].handle
                      \/ co'[op[u].handle].woken
    BY DEF QuietWakes
  <2>1. CASE u = t
    <3>1. h \in Cos
      BY <1>1, <2>1, Sizes0 DEF Cos
    <3> QED
      BY <1>2, <2>1, <3>1
  <2>2. CASE u # t
    BY <1>3, <2>2
  <2> QED
    BY <2>1, <2>2
<1> QED
  BY <1>2, <1>4, JobsSame, Quiet DEF Wake

LEMMA ReturnCancel ==
    ASSUME IInv, WaitInv, NEW threw \in BOOLEAN, Return(threw)
    PROVE  WaitInv'
<1> USE DEF IInv
<1> DEFINE s == co[exec].slot
           v == IF jobs[s].cancelled THEN "CANCELLED"
                ELSE IF threw \/ jobs[s].blame # "nobody" THEN "FAILED" ELSE "COMPLETED"
           k == [co[exec] EXCEPT !.pc = "finish", !.verdict = v]
<1>1. exec \in Cos /\ co[exec] \in CoRec /\ Live(exec) /\ UNCHANGED <<jobs, op>>
  BY TypeFacts DEF Return, Live
<1>2. co' = [co EXCEPT ![exec] = k]
  BY <1>1 DEF Return
<1> HIDE DEF v
<1>3. k.slot = co[exec].slot /\ k.pc = "finish"
  BY <1>1 DEF CoRec
<1> HIDE DEF k
<1> QED
  BY <1>1, <1>2, <1>3, OneCo, JobsSame, QuietStep

LEMMA ClosingCancel ==
    ASSUME IInv, WaitInv, Free \/ CloseRegistry \/ SweepNext
    PROVE  WaitInv'
<1>1. UNCHANGED <<jobs, co>>
  BY DEF Free, CloseRegistry, SweepNext
<1>2. \A t \in Threads : op'[t] = op[t] \/ op[t].call # "wake"
  BY TypeFacts DEF IInv, Free, CloseRegistry, SweepNext, Idle, Threads
<1>3. \A d \in Cos : QuietCo(d) /\ (Live(d)' => Live(d))
  BY <1>1 DEF QuietCo, Live
<1> QED
  BY <1>1, <1>2, <1>3, JobsSame, QuietStep

(* The job of a coroutine is nobody else's.                                *)
LEMMA OwnSlot ==
    ASSUME IInv, NEW c \in Cos, Live(c)
    PROVE  /\ co[c].slot \in Slots /\ jobs[co[c].slot] \in Job /\ jobs[co[c].slot].active
           /\ jobs[co[c].slot].state \notin Terminal \cup {"EMPTY"}
           /\ \A d \in Cos \ {c} : Live(d) => co[d].slot # co[c].slot
           /\ \A i \in 1..Len(queue) : queue[i].slot # co[c].slot
           /\ \A t \in Threads : op[t].call = "submit" => op[t].slot # co[c].slot
<1>1. co[c].slot \in Slots /\ jobs[co[c].slot].active
      /\ jobs[co[c].slot].state \notin Terminal \cup {"EMPTY"}
  BY DEF IInv, SlotsInv, HoldersOK, Borrowed
<1> QED
  BY <1>1, SlotsAre DEF IInv, SlotsInv, Apart

(* wait_for publishes the handle and sees the cancellation that came       *)
(* before.                                                                 *)
LEMMA BeginWaitCancel ==
    ASSUME IInv, WaitInv, NEW c \in Cos, Live(c), NEW k \in CoRec, k.slot = co[c].slot,
           BeginWait(c, co[c].slot, [co EXCEPT ![c] = k]), UNCHANGED op
    PROVE  WaitInv'
<1> USE DEF IInv
<1>0. PICK s \in Slots : s = co[c].slot
  BY OwnSlot
<1> DEFINE j == [jobs[s] EXCEPT !.handle = c, !.awaitActive = TRUE,
                     !.state = IF jobs[s].cancelled THEN "CANCELLING" ELSE "WAITING"]
           m == [k EXCEPT !.pc = "await", !.self = s, !.woken = jobs[s].cancelled]
<1>1. /\ s \in Slots /\ jobs[s] \in Job
      /\ \A d \in Cos \ {c} : Live(d) => co[d].slot # s
  BY <1>0, OwnSlot
<1>2. jobs' = [jobs EXCEPT ![s] = j] /\ co' = [co EXCEPT ![c] = m]
  BY <1>0, <1>1, TypeFacts DEF BeginWait
<1>3. /\ j.cancelled = jobs[s].cancelled /\ j.awaitActive /\ j.handle = c
  BY <1>1 DEF Job
<1>4. m.pc = "await" /\ m.slot = s /\ m.self = s /\ m.woken = jobs[s].cancelled
  BY <1>0 DEF CoRec
<1> HIDE DEF j, m
<1>5. Slots' = Slots /\ jobs'[s] = j /\ \A r \in Slots \ {s} : jobs'[r] = jobs[r]
  BY <1>1, <1>2 DEF Slots
<1>6. co'[c] = m /\ \A d \in Cos \ {c} : co'[d] = co[d]
  BY <1>2, TypeFacts
<1>7. WaitOK(c)'
  BY <1>3, <1>4, <1>5, <1>6 DEF WaitOK
<1>8. \A d \in Cos \ {c} : ~Live(d)' \/ (Live(d) /\ co[d].slot # s /\ QuietCo(d))
  BY <1>1, <1>6 DEF Live, QuietCo
<1>9. QuietWakes /\ \A r \in Slots \ {s} : QuietJob(r)
  BY <1>5 DEF QuietWakes, QuietJob, SameBut
<1> QED
  BY <1>7, <1>8, <1>9, AtSlot

LEMMA SleepCancel ==
    ASSUME IInv, WaitInv, OwnJobs', Sleep
    PROVE  WaitInv'
<1> USE DEF IInv
<1> DEFINE k == [co[exec] EXCEPT !.calls = @ + 1]
<1>1. InScript("worker") /\ UNCHANGED op
  BY DEF Sleep, AtCall
<1>2. exec \in Cos /\ co[exec] \in CoRec /\ Live(exec) /\ co[exec].calls + 1 \in 0..MaxCalls
  BY <1>1, ScriptFacts
<1>3. CASE current = 0
  BY <1>1, <1>3, RefusedCancel DEF Sleep
<1>4. CASE current # 0 /\ co' = Set(exec, "pause") /\ UNCHANGED jobs
  BY <1>1, <1>4, SuspendCancel
<1>5. CASE current # 0 /\ BeginWait(exec, current, [co EXCEPT ![exec].calls = @ + 1])
  <2>1. k \in CoRec /\ k.slot = co[exec].slot
    BY <1>2 DEF CoRec
  <2>2. [co EXCEPT ![exec].calls = @ + 1] = [co EXCEPT ![exec] = k]
    BY <1>2
  <2>3. BeginWait(exec, current, [co EXCEPT ![exec] = k])
    BY <1>5, <2>2
  <2> HIDE DEF k
  <2>4. co'[exec].self = current /\ co'[exec].slot = co[exec].slot
    <3> DEFINE m == [k EXCEPT !.pc = "await", !.self = current, !.woken = jobs[current].cancelled]
    <3>1. co' = [co EXCEPT ![exec] = m]
      BY <1>2, <2>3, TypeFacts DEF BeginWait
    <3>2. m.self = current /\ m.slot = co[exec].slot
      BY <2>1 DEF CoRec
    <3> HIDE DEF m
    <3> QED
      BY <1>2, <3>1, <3>2, TypeFacts
  <2>5. current = co[exec].slot
    BY <1>2, <1>5, <2>4 DEF OwnJobs
  <2> QED
    BY <1>1, <1>2, <2>1, <2>3, <2>5, BeginWaitCancel
<1> QED
  BY <1>3, <1>4, <1>5 DEF Sleep

LEMMA JoinRoundCancel ==
    ASSUME IInv, WaitInv, OwnJobs, NEW c \in Cos, JoinRound(c)
    PROVE  WaitInv'
<1> USE DEF IInv
<1> DEFINE k == [co[c] EXCEPT !.pc = "run", !.join = 0, !.self = 0]
           back == co' = [co EXCEPT ![c].pc = "run", ![c].join = 0, ![c].self = 0]
<1>1. co[c].pc = "join" /\ UNCHANGED op
  BY DEF JoinRound
<1>2. co[c] \in CoRec /\ Live(c) /\ co[c].self = co[c].slot
  BY <1>1, TypeFacts DEF Live, OwnJobs, SlotsInv, CurrentOK
<1>3. CASE back /\ (Fail(c) \/ UNCHANGED jobs)
  <2>1. k.slot = co[c].slot /\ k.pc = "run"
    BY <1>2 DEF CoRec
  <2>2. co' = [co EXCEPT ![c] = k]
    BY <1>2, <1>3, TypeFacts
  <2> HIDE DEF k
  <2>3. Slots' = Slots /\ \A s \in Slots : QuietJob(s)
    BY <1>3, FailQuiet, JobsSame
  <2> QED
    BY <1>1, <1>2, <2>1, <2>2, <2>3, OneCo, QuietStep
<1>4. CASE BeginWait(c, co[c].self, co)
  <2>1. co = [co EXCEPT ![c] = co[c]]
    BY TypeFacts
  <2> QED
    BY <1>1, <1>2, <1>4, <2>1, BeginWaitCancel
<1> QED
  BY <1>3, <1>4 DEF JoinRound

LEMMA ResumeWaitCancel ==
    ASSUME IInv, WaitInv, NEW c \in Cos, ResumeWait(c)
    PROVE  WaitInv'
<1> USE DEF IInv
<1>1. /\ co[c].pc = "await"
      /\ op' = [t \in Threads |-> IF op[t].handle = c THEN [op[t] EXCEPT !.handle = 0] ELSE op[t]]
  BY DEF ResumeWait
<1>2. Live(c) /\ co[c] \in CoRec /\ co[c].self = co[c].slot
  BY <1>1, TypeFacts DEF Live, WaitInv, WaitOK
<1>3. PICK s \in Slots : s = co[c].slot
  BY <1>2, OwnSlot
<1>4. /\ jobs[s] \in Job
      /\ \A d \in Cos \ {c} : Live(d) => co[d].slot # s
  BY <1>2, <1>3, OwnSlot
<1> DEFINE j == [jobs[s] EXCEPT !.awaitActive = FALSE,
                     !.state = IF jobs[s].state \in Terminal \/ jobs[s].cancelled
                               THEN jobs[s].state ELSE "RUNNING"]
           js == [jobs EXCEPT ![s] = j]
           ended == jobs[s].cancelled \/ co[c].woken
           k == IF ended
                THEN [co[c] EXCEPT !.pc = "run", !.woken = FALSE, !.join = 0, !.self = 0]
                ELSE [co[c] EXCEPT !.pc = IF co[c].join = 0 THEN "run" ELSE "join",
                                   !.self = IF co[c].join = 0 THEN 0 ELSE co[c].self]
<1>5. co' = [co EXCEPT ![c] = k] /\ (jobs' = js \/ FailWith(js, c))
  BY <1>2, <1>3, TypeFacts DEF ResumeWait
<1>6. k.pc \in {"run", "join"}
  <2>1. CASE ended
    BY <1>2, <2>1 DEF CoRec
  <2>2. CASE ~ended
    BY <1>2, <2>2 DEF CoRec
  <2> QED
    BY <2>1, <2>2
<1>7. j \in Job
  BY <1>4 DEF Job, JobStates, Terminal
<1> HIDE DEF k, j
<1>8. co'[c] = k /\ \A d \in Cos \ {c} : co'[d] = co[d]
  BY <1>5, TypeFacts
<1>9. \A r \in Slots \ {s} : QuietJob(r)
  <2>1. /\ js \in Seq(Job) /\ Len(js) = Len(jobs) /\ js[s] = j
        /\ \A r \in Slots \ {s} : js[r] = jobs[r]
    BY <1>3, <1>7, SlotWritten
  <2>2. CASE FailWith(js, c)
    <3> HIDE DEF js
    <3>1. \A r \in Slots : SameBut(js[r], jobs'[r])
      BY <2>1, <2>2, FailEffect
    <3> QED
      BY <1>3, <2>1, <3>1 DEF QuietJob
  <2>3. CASE jobs' = js
    BY <2>1, <2>3 DEF Slots, QuietJob, SameBut
  <2> QED
    BY <1>5, <2>2, <2>3
<1>10. WaitOK(c)'
  BY <1>6, <1>8 DEF WaitOK
<1>11. \A d \in Cos \ {c} : ~Live(d)' \/ (Live(d) /\ co[d].slot # s /\ QuietCo(d))
  BY <1>4, <1>8 DEF Live, QuietCo
<1>12. \A t \in Threads :
          op'[t].call = op[t].call /\ (op[t].handle # c => op'[t].handle = op[t].handle)
  BY <1>1, TypeFacts DEF OpRec
<1>13. QuietWakes
  BY <1>6, <1>8, <1>12 DEF QuietWakes
<1> QED
  BY <1>9, <1>10, <1>11, <1>13, AtSlot

(* request_cancel reads the handle of the await in the section in which it *)
(* marks the job.                                                          *)
LEMMA RequestCancelCancel ==
    ASSUME IInv, WaitInv, NEW t \in Threads, RequestCancel(t)
    PROVE  WaitInv'
<1> USE DEF IInv
<1>1. op[t].call = "cancel" /\ UNCHANGED co
  BY DEF RequestCancel
<1>2. \A d \in Cos : Live(d)' <=> Live(d)
  BY <1>1 DEF Live
<1>3. PICK s \in Slots : s = op[t].slot
  BY <1>1 DEF SlotsInv, OpsOK, OpOK
<1>4. jobs[s] \in Job /\ op \in [Threads -> OpRec] /\ op[t] \in OpRec
  BY SlotsAre, TypeFacts
<1>5. CASE UNCHANGED jobs /\ op' = [op EXCEPT ![t] = Idle]
  <2>1. \A u \in Threads : op'[u] = op[u] \/ op[u].call # "wake"
    BY <1>1, <1>4, <1>5
  <2>2. \A d \in Cos : QuietCo(d) /\ (Live(d)' => Live(d))
    BY <1>1, <1>2 DEF QuietCo
  <2> QED
    BY <1>1, <1>5, <2>1, <2>2, JobsSame, QuietStep
<1>6. CASE /\ jobs' = [jobs EXCEPT ![s].cancelled = TRUE, ![s].state = "CANCELLING",
                                   ![s].requested = op[t].id]
           /\ op' = [op EXCEPT ![t] = IF jobs[s].awaitActive
                                      THEN [@ EXCEPT !.call = "wake", !.handle = jobs[s].handle]
                                      ELSE Idle]
  <2> DEFINE j == [jobs[s] EXCEPT !.cancelled = TRUE, !.state = "CANCELLING", !.requested = op[t].id]
             r == IF jobs[s].awaitActive
                  THEN [op[t] EXCEPT !.call = "wake", !.handle = jobs[s].handle] ELSE Idle
  <2>1. jobs' = [jobs EXCEPT ![s] = j] /\ op' = [op EXCEPT ![t] = r]
    BY <1>6
  <2>2. /\ j.awaitActive = jobs[s].awaitActive /\ j.handle = jobs[s].handle
    BY <1>4 DEF Job
  <2>3. jobs[s].awaitActive => r.call = "wake" /\ r.handle = jobs[s].handle
    BY <1>4 DEF OpRec, Idle
  <2> HIDE DEF j, r
  <2>4. Slots' = Slots /\ jobs'[s] = j /\ \A q \in Slots \ {s} : jobs'[q] = jobs[q]
    BY <2>1 DEF Slots
  <2>5. op'[t] = r /\ \A u \in Threads \ {t} : op'[u] = op[u]
    BY <1>4, <2>1
  <2>6. ASSUME NEW d \in Cos, Live(d)
        PROVE  WaitOK(d)' \/ (co[d].slot # s /\ QuietCo(d))
    <3>1. CASE co[d].slot = s
      BY <1>1, <2>2, <2>3, <2>4, <2>5, <3>1 DEF WaitOK, WaitInv
    <3>2. CASE co[d].slot # s
      BY <1>1, <3>2 DEF QuietCo
    <3> QED
      BY <3>1, <3>2
  <2>7. QuietWakes /\ \A q \in Slots \ {s} : QuietJob(q)
    BY <1>1, <2>4, <2>5 DEF QuietWakes, QuietJob, SameBut
  <2> QED
    BY <1>2, <2>6, <2>7, AtSlot
<1> QED
  BY <1>3, <1>5, <1>6 DEF RequestCancel

(* Spawn, a submission, a reset, run_task and finish write a job on which  *)
(* no coroutine but a new or ending one works.                             *)
LEMMA SpawnCancel ==
    ASSUME IInv, WaitInv, NEW t \in Threads, Spawn(t)
    PROVE  WaitInv'
<1> USE DEF IInv
<1>1. PICK s \in Slots :
          /\ jobs[s].state = "EMPTY"
          /\ jobs' = [jobs EXCEPT ![s].id = nextId + 1, ![s].state = "SCHEDULED", ![s].active = TRUE]
          /\ op' = [op EXCEPT ![t] = [Idle EXCEPT !.call = "submit", !.slot = s, !.id = nextId + 1]]
  BY DEF Spawn
<1>2. InScript(t) /\ CountCall(t) /\ op[t].call = "idle"
  BY DEF Spawn, InScript, Idle
<1>3. \A r \in Slots \ {s} : QuietJob(r)
  BY <1>1 DEF QuietJob, SameBut, Slots
<1>4. \A d \in Cos : (Live(d) => co[d].slot # s) /\ QuietCo(d) /\ (Live(d)' => Live(d))
  BY <1>1, <1>2, CountQuiet DEF SlotsInv, HoldersOK, Borrowed
<1>5. QuietWakes
  BY <1>1, <1>2, TypeFacts DEF QuietWakes
<1> QED
  BY <1>3, <1>4, <1>5, AtSlot

LEMMA SubmitCancel ==
    ASSUME IInv, WaitInv, NEW t \in Threads, Submit(t)
    PROVE  WaitInv'
<1> USE DEF IInv
<1> DEFINE s == op[t].slot
<1>1. op[t].call = "submit" /\ UNCHANGED co
  BY DEF Submit
<1>2. \A r \in Slots \ {s} : QuietJob(r)
  BY DEF Submit, QuietJob, SameBut, Slots
<1>3. \A d \in Cos : (Live(d) => co[d].slot # s) /\ QuietCo(d) /\ (Live(d)' => Live(d))
  BY <1>1 DEF SlotsInv, Apart, QuietCo, Live
<1>4. QuietWakes
  <2>1. \A u \in Threads \ {t} : op'[u] = op[u]
    BY TypeFacts DEF Submit
  <2> QED
    BY <1>1, <2>1 DEF QuietWakes
<1> QED
  BY <1>2, <1>3, <1>4, AtSlot

LEMMA ResetCancel ==
    ASSUME IInv, WaitInv, NEW t \in Threads, Reset(t)
    PROVE  WaitInv'
<1> USE DEF IInv
<1>1. op[t].call \in {"rejected", "release"} /\ UNCHANGED co /\ op' = [op EXCEPT ![t] = Idle]
  BY DEF Reset
<1>2. PICK s \in Slots : s = op[t].slot /\ ~jobs[s].active
  BY <1>1 DEF SlotsInv, OpsOK, OpOK
<1> DEFINE js == [jobs EXCEPT ![s] = EmptyJob]
<1>3. jobs' = js \/ FailWith(js, exec)
  BY <1>2 DEF Reset
<1>4. EmptyJob \in Job
  BY Sizes0 DEF EmptyJob, Job, JobStates
<1>5. /\ js \in Seq(Job) /\ Len(js) = Len(jobs)
      /\ \A r \in Slots \ {s} : js[r] = jobs[r]
  BY <1>4, SlotWritten
<1>6. \A r \in Slots \ {s} : QuietJob(r)
  <2>1. CASE FailWith(js, exec)
    <3> HIDE DEF js
    <3> QED
      BY <1>5, <2>1, FailEffect DEF QuietJob
  <2>2. CASE jobs' = js
    BY <1>5, <2>2 DEF QuietJob, SameBut
  <2> QED
    BY <1>3, <2>1, <2>2
<1>7. \A d \in Cos : (Live(d) => co[d].slot # s) /\ QuietCo(d) /\ (Live(d)' => Live(d))
  BY <1>1, <1>2 DEF SlotsInv, HoldersOK, Borrowed, QuietCo, Live
<1>8. QuietWakes
  <2>1. \A u \in Threads \ {t} : op'[u] = op[u]
    BY <1>1, TypeFacts
  <2> QED
    BY <1>1, <2>1 DEF QuietWakes
<1> QED
  BY <1>6, <1>7, <1>8, AtSlot

LEMMA StartCancel ==
    ASSUME IInv, WaitInv, NEW c \in Cos, Start(c) \/ CancelQueued(c)
    PROVE  WaitInv'
<1> USE DEF IInv
<1> DEFINE s == Head(queue).slot
           k(p, v) == [NoCo EXCEPT !.slot = s, !.id = Head(queue).id, !.pc = p, !.verdict = v]
<1>1. /\ queue # <<>> /\ UNCHANGED op
      /\ jobs' = [jobs EXCEPT ![s].cancelled = TRUE] \/ jobs' = [jobs EXCEPT ![s].state = "RUNNING"]
  BY DEF Start, CancelQueued
<1>2. \E p \in {"run", "finish"}, v \in {"EMPTY", "CANCELLED"} : co' = [co EXCEPT ![c] = k(p, v)]
  <2>1. CancelQueued(c) => co' = [co EXCEPT ![c] = k("finish", "CANCELLED")]
    BY DEF CancelQueued
  <2>2. Start(c) => \/ co' = [co EXCEPT ![c] = k("finish", "CANCELLED")]
                    \/ co' = [co EXCEPT ![c] = k("run", "EMPTY")]
    BY DEF Start
  <2> QED
    BY <2>1, <2>2
<1>3. \A p, v : k(p, v).pc = p
  BY DEF NoCo
<1>4. \A r \in Slots \ {s} : QuietJob(r)
  BY <1>1 DEF QuietJob, SameBut, Slots
<1>5. \A d \in Cos \ {c} : Live(d) => co[d].slot # s
  <2>1. 1 \in 1..Len(queue) /\ Head(queue) = queue[1]
    BY <1>1 DEF TypeOK
  <2> QED
    BY <2>1 DEF SlotsInv, Apart
<1> HIDE DEF k
<1>6. co'[c].pc \in {"run", "finish"} /\ \A d \in Cos \ {c} : co'[d] = co[d]
  BY <1>2, <1>3, TypeFacts
<1>7. WaitOK(c)' /\ \A d \in Cos \ {c} : QuietCo(d) /\ (Live(d)' => Live(d))
  BY <1>6 DEF WaitOK, QuietCo, Live
<1>8. QuietWakes
  BY <1>1 DEF QuietWakes
<1> QED
  BY <1>4, <1>5, <1>7, <1>8, AtSlot

LEMMA FinishCancel ==
    ASSUME IInv, WaitInv, Finish
    PROVE  WaitInv'
<1> USE DEF IInv
<1>1. PICK c \in Cos : c = exec /\ Live(c)
  BY TypeFacts DEF Finish, Live
<1> DEFINE s == co[c].slot
<1>2. co' = [co EXCEPT ![c] = NoCo] /\ UNCHANGED op
  BY <1>1 DEF Finish
<1>3. \A r \in Slots \ {s} : QuietJob(r)
  BY <1>1 DEF Finish, QuietJob, SameBut, Slots
<1>4. co'[c] = NoCo /\ \A d \in Cos \ {c} : co'[d] = co[d]
  BY <1>2, TypeFacts
<1>5. \A d \in Cos : ~Live(d)' \/ (Live(d) /\ co[d].slot # s /\ QuietCo(d))
  BY <1>1, <1>4, OwnSlot DEF Live, QuietCo, NoCo
<1>6. QuietWakes
  BY <1>2 DEF QuietWakes
<1> QED
  BY <1>3, <1>5, <1>6, AtSlot

(* A new registry, or none: nobody waits.                                  *)
LEMMA FreshCancel ==
    ASSUME IInv, Drained \/ \E n \in Capacities : Resize(n)
    PROVE  WaitInv'
<1>1. \A c \in Cos : ~Live(c)
  BY NoneActive DEF IInv, Drained, Resize, Live
<1> QED
  BY <1>1 DEF Drained, Resize, WaitInv, WaitOK, Live

LEMMA InitCancel ==
    ASSUME Init
    PROVE  WaitInv
BY DEF Init, WaitInv, WaitOK, NoCo

LEMMA NextCancel ==
    ASSUME IInv, WaitInv, OwnJobs, OwnJobs', [Next]_vars
    PROVE  WaitInv'
<1>1. CASE Next
  <2>1. ASSUME NEW t \in Threads, ApiCall(t) \/ Complete(t)
        PROVE  WaitInv'
    BY <2>1, SpawnCancel, LookupCancel, SubmitCancel, ResetCancel, RequestCancelCancel, WakeCancel
       DEF ApiCall, Complete
  <2>2. ASSUME TaskCall
        PROVE  WaitInv'
    <3>1. SpawnRefused \/ ApiError => WaitInv'
      BY RefusedCancel DEF SpawnRefused, ApiError, AtCall
    <3> QED
      BY <2>2, <3>1, YieldCancel, SleepCancel, JoinCancel DEF TaskCall
  <2>3. ASSUME NEW c \in Cos, Start(c) \/ CancelQueued(c) \/ Coroutine(c)
        PROVE  WaitInv'
    BY <2>3, StartCancel, ResumeYieldCancel, ResumeWaitCancel, JoinRoundCancel DEF Coroutine, Resume
  <2>4. ASSUME NEW threw \in BOOLEAN, Return(threw)
        PROVE  WaitInv'
    BY <2>4, ReturnCancel
  <2> QED
    BY <1>1, <2>1, <2>2, <2>3, <2>4, FinishCancel, ClosingCancel, FreshCancel DEF Next, Teardown
<1>2. CASE UNCHANGED vars
  <2>1. UNCHANGED <<jobs, co, op>>
    BY <1>2 DEF vars
  <2>2. \A d \in Cos : QuietCo(d) /\ (Live(d)' => Live(d))
    BY <2>1 DEF QuietCo, Live
  <2>3. \A t \in Threads : op'[t] = op[t]
    BY <2>1
  <2> QED
    BY <2>1, <2>2, <2>3, JobsSame, QuietStep
<1> QED
  BY <1>1, <1>2

-----------------------------------------------------------------------------
(* Terminal states.                                                        *)

(* A coroutine in task.join holds the job in slot s, which is not its own. *)
Rejoined(s) == \E c \in Cos : co[c].pc = "join" /\ co[c].self = s /\ co[c].slot # s

Final(s) == jobs[s].state \in Terminal => KeepsState(s) \/ Rejoined(s)

LEMMA WrittenFinal ==
    ASSUME NEW s \in Slots, NEW js, DOMAIN js = Slots,
           jobs[s].state \in Terminal => js[s].state = jobs[s].state,
           Slots' = Slots, \A r \in Slots \ {s} : js[r] = jobs[r],
           \A r \in Slots : jobs'[r].state = js[r].state
    PROVE  \A r \in Slots : Final(r)
BY DEF Final, KeepsState, Slots

LEMMA QuietFinal ==
    ASSUME Slots' = Slots, \A s \in Slots : QuietJob(s)
    PROVE  \A s \in Slots : Final(s)
BY DEF QuietJob, SameBut, Final, KeepsState, Slots

(* A coroutine that works on a job holds a slot of the registry.           *)
LEMMA SelfIsSlot ==
    ASSUME IInv, NEW c \in Cos, co[c].pc \in {"join", "await"}
    PROVE  co[c].self \in Slots /\ jobs[co[c].self] \in Job
<1>1. co[c].self \in SlotOrNone /\ co[c].self # 0
  BY TypeFacts DEF IInv, CoRec, SlotsInv, CurrentOK
<1> QED
  BY <1>1, SlotsAre DEF IInv, SlotOrNone

LEMMA StepFinal ==
    ASSUME IInv, Next
    PROVE  \A s \in Slots : Final(s)
<1> USE DEF IInv
<1>1. ASSUME UNCHANGED jobs
      PROVE  \A s \in Slots : Final(s)
  BY <1>1, JobsSame, QuietFinal
<1>2. ASSUME NEW c, Fail(c)
      PROVE  \A s \in Slots : Final(s)
  BY <1>2, FailQuiet, QuietFinal
<1>3. ASSUME NEW t \in Threads, Spawn(t)
      PROVE  \A s \in Slots : Final(s)
  BY <1>3 DEF Spawn, Final, KeepsState, Slots, Terminal
<1>4. ASSUME NEW t \in Threads, Submit(t)
      PROVE  \A s \in Slots : Final(s)
  <2>1. op[t].call = "submit"
    BY <1>4 DEF Submit
  <2>2. op[t].slot \in Slots /\ jobs[op[t].slot].state \notin Terminal
    BY <2>1 DEF SlotsInv, OpsOK, OpOK, Borrowed
  <2> QED
    BY <1>1, <1>4, <2>2 DEF Submit, Final, KeepsState, Slots
<1>5. ASSUME NEW t \in Threads, Reset(t)
      PROVE  \A s \in Slots : Final(s)
  <2>1. op[t].call \in {"rejected", "release"}
    BY <1>5 DEF Reset
  <2>2. PICK s \in Slots : s = op[t].slot
    BY <2>1 DEF SlotsInv, OpsOK, OpOK
  <2> DEFINE js == [jobs EXCEPT ![s] = EmptyJob]
  <2>3. jobs' = js \/ FailWith(js, exec)
    BY <1>5, <2>2 DEF Reset
  <2>4. EmptyJob \in Job /\ EmptyJob.id = 0
    BY Sizes0 DEF EmptyJob, Job, JobStates
  <2>5. /\ js \in Seq(Job) /\ Len(js) = Len(jobs) /\ js[s] = EmptyJob
        /\ \A r \in Slots \ {s} : js[r] = jobs[r]
    BY <2>4, SlotWritten
  <2>6. Slots' = Slots /\ \A r \in Slots : SameBut(js[r], jobs'[r])
    <3>1. CASE FailWith(js, exec)
      <4> HIDE DEF js
      <4> QED
        BY <2>5, <3>1, FailEffect
    <3>2. CASE jobs' = js
      BY <3>2 DEF Slots, SameBut
    <3> QED
      BY <2>3, <3>1, <3>2
  <2> HIDE DEF js
  <2> QED
    BY <2>4, <2>5, <2>6 DEF SameBut, Final, KeepsState, Slots
<1>6. ASSUME NEW t \in Threads, RequestCancel(t)
      PROVE  \A s \in Slots : Final(s)
  <2>1. op[t].slot \in Slots
    BY <1>6 DEF RequestCancel, SlotsInv, OpsOK, OpOK
  <2> QED
    BY <1>1, <1>6, <2>1 DEF RequestCancel, Final, KeepsState, Slots
<1>7. ASSUME NEW c \in Cos, Start(c) \/ CancelQueued(c)
      PROVE  \A s \in Slots : Final(s)
  <2>1. queue # <<>>
    BY <1>7 DEF Start, CancelQueued
  <2>2. 1 \in 1..Len(queue) /\ Head(queue) = queue[1]
    BY <2>1 DEF TypeOK
  <2>3. Head(queue).slot \in Slots /\ jobs[Head(queue).slot].state \notin Terminal
    BY <2>2 DEF SlotsInv, HoldersOK, Borrowed
  <2> QED
    BY <1>7, <2>3 DEF Start, CancelQueued, Final, KeepsState, Slots
<1>9. ASSUME Sleep
      PROVE  \A s \in Slots : Final(s)
  <2>1. CASE current = 0
    BY <1>2, <1>9, <2>1 DEF Sleep
  <2>2. CASE current # 0
    <3>1. current \in Slots /\ jobs[current].state \notin Terminal
      BY <2>2 DEF SlotsInv, CurrentOK, HoldersOK, Borrowed
    <3> QED
      BY <1>9, <2>2, <3>1 DEF Sleep, BeginWait, Final, KeepsState, Slots
  <2> QED
    BY <2>1, <2>2
<1>10. ASSUME NEW c \in Cos, JoinRound(c)
       PROVE  \A s \in Slots : Final(s)
  <2>1. co[c].pc = "join" /\ (Fail(c) \/ UNCHANGED jobs \/ BeginWait(c, co[c].self, co))
    BY <1>10 DEF JoinRound
  <2>2. CASE BeginWait(c, co[c].self, co)
    <3>1. PICK s \in Slots : s = co[c].self
      BY <2>1, SelfIsSlot
    <3>2. CASE co[c].slot = s
      <4>1. jobs[s].state \notin Terminal
        BY <2>1, <3>2, OwnSlot DEF Live
      <4> QED
        BY <2>2, <3>1, <4>1 DEF BeginWait, Final, KeepsState, Slots
    <3>3. CASE co[c].slot # s
      BY <2>1, <2>2, <3>1, <3>3 DEF BeginWait, Final, KeepsState, Rejoined, Slots
    <3> QED
      BY <3>2, <3>3
  <2> QED
    BY <1>1, <1>2, <2>1, <2>2
<1>11. ASSUME NEW c \in Cos, ResumeWait(c)
       PROVE  \A s \in Slots : Final(s)
  <2>1. PICK s \in Slots : s = co[c].self /\ jobs[s] \in Job
    BY <1>11, SelfIsSlot DEF ResumeWait
  <2> DEFINE j == [jobs[s] EXCEPT !.awaitActive = FALSE,
                     !.state = IF jobs[s].state \in Terminal \/ jobs[s].cancelled
                               THEN jobs[s].state ELSE "RUNNING"]
             js == [jobs EXCEPT ![s] = j]
  <2>2. jobs' = js \/ FailWith(js, c)
    BY <1>11, <2>1 DEF ResumeWait
  <2>3. j \in Job /\ (jobs[s].state \in Terminal => j.state = jobs[s].state)
    BY <2>1 DEF Job, JobStates
  <2> HIDE DEF j
  <2>4. /\ js \in Seq(Job) /\ Len(js) = Len(jobs) /\ DOMAIN js = Slots
        /\ js[s] = j /\ \A r \in Slots \ {s} : js[r] = jobs[r]
    BY <2>3, SlotWritten
  <2>5. Slots' = Slots /\ \A r \in Slots : SameBut(js[r], jobs'[r])
    <3>1. CASE FailWith(js, c)
      <4> HIDE DEF js
      <4> QED
        BY <2>4, <3>1, FailEffect
    <3>2. CASE jobs' = js
      BY <2>4, <3>2 DEF Slots, SameBut
    <3> QED
      BY <2>2, <3>1, <3>2
  <2> HIDE DEF js
  <2> QED
    BY <2>3, <2>4, <2>5, WrittenFinal DEF SameBut
<1>12. ASSUME Finish
       PROVE  \A s \in Slots : Final(s)
  <2>1. exec \in Cos /\ Live(exec)
    BY <1>12, TypeFacts DEF Finish, Live
  <2>2. co[exec].slot \in Slots /\ jobs[co[exec].slot].state \notin Terminal
    BY <2>1, OwnSlot
  <2> QED
    BY <1>12, <2>2 DEF Finish, Final, KeepsState, Slots
<1>13. ASSUME Drained \/ \E n \in Capacities : Resize(n)
       PROVE  \A s \in Slots : Final(s)
  <2>1. \A s \in DOMAIN jobs' : jobs'[s] = EmptyJob
    BY <1>13 DEF Drained, Resize
  <2> QED
    BY <2>1 DEF Final, KeepsState, EmptyJob
<1>14. ASSUME NEW t \in Threads, ApiCall(t) \/ Complete(t)
       PROVE  \A s \in Slots : Final(s)
  BY <1>1, <1>3, <1>4, <1>5, <1>6, <1>14 DEF ApiCall, Complete, Release, Cancel, Wake
<1>15. ASSUME TaskCall
       PROVE  \A s \in Slots : Final(s)
  BY <1>1, <1>2, <1>9, <1>15 DEF TaskCall, SpawnRefused, ApiError, Yield, Join
<1>16. ASSUME NEW c \in Cos, Coroutine(c)
       PROVE  \A s \in Slots : Final(s)
  BY <1>1, <1>2, <1>10, <1>11, <1>16 DEF Coroutine, Resume, ResumeYield, ResumePause
<1> QED
  BY <1>1, <1>7, <1>12, <1>13, <1>14, <1>15, <1>16
     DEF Next, Return, Free, Teardown, CloseRegistry, SweepNext

-----------------------------------------------------------------------------
(* The theorems.                                                           *)

(* While every coroutine waits on its own job: a task that waits in        *)
(* wait_for although request_cancel has marked it has been woken or is     *)
(* about to be, wherever the two sections under the mutex fall.            *)
THEOREM WakeupOwn ==
    ASSUME Discipline
    PROVE  Spec /\ []OwnJobs => []NoLostWakeup
<1>1. Init => WaitInv
  BY InitCancel
<1>2. IInv /\ WaitInv /\ OwnJobs /\ OwnJobs' /\ [Next]_vars => WaitInv'
  BY NextCancel
<1>3. WaitInv => NoLostWakeup
  BY DEF WaitInv, WaitOK, NoLostWakeup
<1>4. Spec => [](IInv /\ Unused)
  BY Inv
<1> QED
  BY <1>1, <1>2, <1>3, <1>4, PTL DEF Spec

(* With any number of coroutines, each waiting on whatever job it took: a  *)
(* step changes the terminal state of a job only by clearing its slot, or  *)
(* if a task in task.join holds that job although it is not its own.       *)
THEOREM TerminalRejoined ==
    ASSUME Discipline
    PROVE  Spec => TerminalUnlessRejoined
<1>1. IInv /\ [Next]_vars =>
        [\A s \in Slots : jobs[s].state \in Terminal =>
          \/ KeepsState(s)
          \/ \E c \in Cos : co[c].pc = "join" /\ co[c].self = s /\ co[c].slot # s]_vars
  BY StepFinal DEF Final, Rejoined
<1>2. Spec => [](IInv /\ Unused)
  BY Inv
<1> QED
  BY <1>1, <1>2, PTL DEF Spec, TerminalUnlessRejoined

=============================================================================
