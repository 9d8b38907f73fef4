------------------------ MODULE TimerSchedulerProofs ------------------------
(***************************************************************************)
(* TimerScheduler's count of active jobs is exact, for any capacity, queue,  *)
(* pool of coroutines and number of timers.  A coroutine that finds another  *)
(* timer in its slot ends that one, so the proof does not rest on who owns a *)
(* slot: an ended or cancelled job is inactive, and an active one has        *)
(* somebody left to end it, which is what makes freeing the jobs safe.       *)
(***************************************************************************)
EXTENDS TimerScheduler, Integers, FiniteSetTheorems, TLAPS

JobStates == Terminal \cup {"SCHEDULED", "PENDING", "RUNNING"}
Pcs == {"none", "loop", "begin", "await", "fire", "callback", "cancelled", "completed",
        "failed", "drop"}
OpCalls == {"idle", "submit", "rejected", "cancel", "wake"}
Phases == {"open", "closing", "sweep", "drain", "freed"}

JobRec == [id : 0..MaxId, kind : {"after", "every", "cron"}, state : JobStates,
           active : BOOLEAN, cancelled : BOOLEAN, awaitActive : BOOLEAN,
           handle : 0..Pool, callback : 0..MaxId]
Entry == [slot : Slots, id : Ids, epoch : Nat]
CoRec == [pc : Pcs, slot : 0..Capacity, id : 0..MaxId, epoch : Nat, woken : BOOLEAN]
OpRec == [call : OpCalls, slot : 0..Capacity, id : 0..MaxId, handle : 0..Pool]

Live(c) == co[c].pc # "none"
Starting(t) == op[t].call \in {"submit", "rejected"}

(* The type of every variable, and which of the names they hold are real.  *)
Typed ==
    /\ jobs \in [Slots -> JobRec]
    /\ activeCount \in Nat
    /\ nextId \in 0..MaxId
    /\ queue \in Seq(Entry)
    /\ co \in [Cos -> CoRec]
    /\ exec \in 0..Pool
    /\ op \in [Threads -> OpRec]
    /\ phase \in Phases
    /\ sweep \in Nat \ {0}
    /\ epoch \in Nat
    /\ disturbed \in SUBSET Ids
    /\ refs \in [Ids -> Int]
    /\ fired \in [Ids -> 0..MaxFired]
    /\ \A c \in Cos : Live(c) => co[c].slot \in Slots /\ co[c].id \in Ids
    /\ \A t \in Threads :
          /\ op[t].call \in {"submit", "rejected", "cancel"} => op[t].slot \in Slots
          /\ Starting(t) => op[t].id \in Ids

-----------------------------------------------------------------------------
(* The count of active jobs.                                               *)

(* A job that ended, or was told to, is not active.                        *)
Flags ==
    \A s \in Slots : /\ jobs[s].state \in Terminal => ~jobs[s].active
                     /\ jobs[s].cancelled => jobs[s].state \in Terminal

(* The worker is inside a call only while it executes a callback, and the  *)
(* host is in none once the executor is down.                              *)
Callers ==
    /\ op["worker"].call # "idle" => exec # 0 /\ co[exec].pc = "callback"
    /\ ExecutorDown => op["host"].call = "idle"

(* An active job will be ended by somebody.                                *)
ActiveHeld ==
    \A s \in Slots : jobs[s].active =>
        \/ \E k \in 1..Len(queue) : queue[k].slot = s
        \/ \E c \in Cos : co[c].pc \notin {"none", "drop"} /\ co[c].slot = s
        \/ \E t \in Threads : op[t].call = "submit" /\ op[t].slot = s

CountInv == Typed /\ Flags /\ Callers /\ ActiveHeld /\ ActiveExact

-----------------------------------------------------------------------------
(* Types.                                                                  *)

LEMMA Sizes ==
    /\ Capacity \in Nat \ {0} /\ QueueCap \in Nat \ {0} /\ Pool \in Nat \ {0}
    /\ MaxId \in Nat \ {0}
    /\ Ids \subseteq 0..MaxId /\ Cos \subseteq 0..Pool /\ Slots \subseteq 0..Capacity
    /\ 0 \in 0..MaxId /\ 0 \in 0..Pool /\ 0 \in 0..Capacity
    /\ 0 \notin Ids /\ 0 \notin Cos /\ 0 \notin Slots
    /\ \A n \in 0..Pool : n # 0 => n \in Cos
    /\ \A n \in 0..MaxId : n # 0 => n \in Ids
<1>1. {Capacity, QueueCap, Pool, MaxId} \subseteq Nat \ {0}
  BY SizeAssumption
<1> QED
  BY <1>1 DEF Ids, Cos, Slots

LEMMA Records ==
    /\ EmptyJob \in JobRec /\ NoCo \in CoRec /\ Idle \in OpRec
    /\ EmptyJob.id = 0 /\ EmptyJob.state = "EMPTY" /\ ~EmptyJob.active /\ ~EmptyJob.cancelled
    /\ EmptyJob.callback = 0 /\ EmptyJob.kind = "after"
    /\ NoCo.pc = "none" /\ Idle.call = "idle" /\ Idle.handle = 0
<1>1. EmptyJob \in JobRec
  BY Sizes DEF EmptyJob, JobRec, JobStates, Terminal
<1>2. NoCo \in CoRec
  BY Sizes DEF NoCo, CoRec, Pcs
<1>3. Idle \in OpRec
  BY Sizes DEF Idle, OpRec, OpCalls
<1> QED
  BY <1>1, <1>2, <1>3 DEF EmptyJob, NoCo, Idle

LEMMA JobType ==
    ASSUME NEW j \in JobRec
    PROVE  /\ j.id \in 0..MaxId /\ j.kind \in {"after", "every", "cron"} /\ j.state \in JobStates
           /\ j.active \in BOOLEAN /\ j.cancelled \in BOOLEAN /\ j.awaitActive \in BOOLEAN
           /\ j.handle \in 0..Pool /\ j.callback \in 0..MaxId
BY DEF JobRec

LEMMA CoType ==
    ASSUME NEW k \in CoRec
    PROVE  /\ k.pc \in Pcs /\ k.slot \in 0..Capacity /\ k.id \in 0..MaxId /\ k.epoch \in Nat
           /\ k.woken \in BOOLEAN
BY DEF CoRec

LEMMA OpType ==
    ASSUME NEW o \in OpRec
    PROVE  /\ o.call \in OpCalls /\ o.slot \in 0..Capacity /\ o.id \in 0..MaxId
           /\ o.handle \in 0..Pool
BY DEF OpRec

LEMMA EntryType ==
    ASSUME NEW e \in Entry
    PROVE  e.slot \in Slots /\ e.id \in Ids /\ e.epoch \in Nat
BY DEF Entry

LEMMA Facts ==
    ASSUME Typed
    PROVE  /\ \A s \in Slots : jobs[s] \in JobRec
           /\ \A c \in Cos : co[c] \in CoRec
           /\ \A t \in Threads : op[t] \in OpRec
           /\ \A k \in 1..Len(queue) : queue[k] \in Entry
           /\ exec # 0 => exec \in Cos
           /\ Len(queue) \in Nat
<1>1. exec # 0 => exec \in Cos
  BY Sizes DEF Typed
<1>2. queue \in Seq(Entry)
  BY DEF Typed
<1>3. /\ Len(queue) \in Nat /\ \A k \in 1..Len(queue) : queue[k] \in Entry
  <2> HIDE DEF Entry
  <2> QED
    BY <1>2
<1> QED
  BY <1>1, <1>3 DEF Typed

LEMMA JobWritten ==
    ASSUME Typed, NEW s \in Slots, NEW j \in JobRec, jobs' = [jobs EXCEPT ![s] = j]
    PROVE  jobs' \in [Slots -> JobRec] /\ jobs'[s] = j /\ \A r \in Slots \ {s} : jobs'[r] = jobs[r]
BY DEF Typed

LEMMA CoWritten ==
    ASSUME Typed, NEW c \in Cos, NEW k \in CoRec, co' = [co EXCEPT ![c] = k]
    PROVE  co' \in [Cos -> CoRec] /\ co'[c] = k /\ \A d \in Cos \ {c} : co'[d] = co[d]
BY DEF Typed

LEMMA OpWritten ==
    ASSUME Typed, NEW t \in Threads, NEW o \in OpRec, op' = [op EXCEPT ![t] = o]
    PROVE  op' \in [Threads -> OpRec] /\ op'[t] = o /\ \A u \in Threads \ {t} : op'[u] = op[u]
BY DEF Typed

-----------------------------------------------------------------------------
(* The count of active jobs.                                               *)

LEMMA ActiveSet ==
    ASSUME ActiveExact
    PROVE  LET A == {r \in Slots : jobs[r].active}
           IN  IsFiniteSet(A) /\ Cardinality(A) \in Nat /\ activeCount = Cardinality(A)
<1>1. IsFiniteSet(Slots)
  BY Sizes, FS_Interval DEF Slots
<1> QED
  BY <1>1, FS_Subset, FS_CardinalityType DEF ActiveExact

LEMMA ActiveAdded ==
    ASSUME ActiveExact, NEW s \in Slots, ~jobs[s].active, jobs'[s].active,
           \A r \in Slots \ {s} : jobs'[r].active = jobs[r].active,
           activeCount' = activeCount + 1
    PROVE  ActiveExact' /\ activeCount' \in Nat
<1> DEFINE A == {r \in Slots : jobs[r].active}
<1>1. IsFiniteSet(A) /\ Cardinality(A) \in Nat /\ activeCount = Cardinality(A)
  BY ActiveSet
<1>2. {r \in Slots : jobs'[r].active} = A \cup {s}
  OBVIOUS
<1>3. s \notin A /\ Cardinality(A \cup {s}) = IF s \in A THEN Cardinality(A) ELSE Cardinality(A) + 1
  BY <1>1, FS_AddElement
<1>4. activeCount' = Cardinality(A \cup {s}) /\ activeCount' \in Nat
  <2> HIDE DEF A
  <2> QED
    BY <1>1, <1>3
<1> QED
  BY <1>2, <1>4 DEF ActiveExact

LEMMA ActiveRemoved ==
    ASSUME ActiveExact, NEW s \in Slots, ~jobs'[s].active,
           \A r \in Slots \ {s} : jobs'[r].active = jobs[r].active,
           activeCount' = CountWithout(jobs[s])
    PROVE  ActiveExact' /\ activeCount' \in Nat
<1> DEFINE A == {r \in Slots : jobs[r].active}
<1>1. IsFiniteSet(A) /\ Cardinality(A) \in Nat /\ activeCount = Cardinality(A)
  BY ActiveSet
<1>2. {r \in Slots : jobs'[r].active} = A \ {s}
  OBVIOUS
<1>3. Cardinality(A \ {s}) = IF s \in A THEN Cardinality(A) - 1 ELSE Cardinality(A)
  BY <1>1, FS_RemoveElement
<1>4. s \in A => Cardinality(A) # 0
  BY <1>1, FS_EmptySet
<1>5. s \in A <=> jobs[s].active
  OBVIOUS
<1>6. activeCount' = Cardinality(A \ {s}) /\ activeCount' \in Nat
  <2> HIDE DEF A
  <2> QED
    BY <1>1, <1>3, <1>4, <1>5 DEF CountWithout
<1> QED
  BY <1>2, <1>6 DEF ActiveExact

LEMMA ActiveSame ==
    ASSUME ActiveExact, \A r \in Slots : jobs'[r].active = jobs[r].active,
           activeCount' = activeCount
    PROVE  ActiveExact' /\ activeCount' \in Nat
<1>1. {r \in Slots : jobs'[r].active} = {r \in Slots : jobs[r].active}
  OBVIOUS
<1> QED
  BY <1>1, ActiveSet DEF ActiveExact

(* Nobody is active: the jobs may be freed.                                *)
LEMMA NoneActive ==
    ASSUME ActiveExact
    PROVE  activeCount = 0 <=> \A s \in Slots : ~jobs[s].active
<1> DEFINE A == {r \in Slots : jobs[r].active}
<1>1. IsFiniteSet(A) /\ activeCount = Cardinality(A)
  BY ActiveSet
<1>2. Cardinality(A) = 0 <=> A = {}
  BY <1>1, FS_EmptySet
<1> QED
  BY <1>1, <1>2

LEMMA AllFresh ==
    ASSUME jobs' = [s \in Slots |-> EmptyJob], activeCount' = 0
    PROVE  ActiveExact' /\ jobs' \in [Slots -> JobRec] /\ Flags'
<1>1. {r \in Slots : jobs'[r].active} = {}
  BY Records
<1>2. ActiveExact'
  BY <1>1, FS_EmptySet DEF ActiveExact
<1> QED
  BY <1>2, Records DEF Flags

-----------------------------------------------------------------------------
(* A step of a coroutine on its slot.                                      *)

OpsStay(c) ==
    /\ op' \in [Threads -> OpRec]
    /\ \A t \in Threads : /\ op'[t].call = op[t].call /\ op'[t].slot = op[t].slot
                          /\ op'[t].id = op[t].id
                          /\ op'[t].handle = op[t].handle \/ op[t].handle = c

(* Coroutine c goes on as k and leaves j in its slot, which still holds    *)
(* the same timer.                                                         *)
CoStep(c, j, k) ==
    /\ Live(c) /\ co[c].epoch = epoch
    /\ jobs' = [jobs EXCEPT ![co[c].slot] = j]
    /\ co' = [co EXCEPT ![c] = k]
    /\ j.id = jobs[co[c].slot].id /\ j.kind = jobs[co[c].slot].kind
    /\ j.callback = jobs[co[c].slot].callback
    /\ k.pc # "none" /\ k.slot = co[c].slot /\ k.id = co[c].id /\ k.epoch = co[c].epoch
    /\ OpsStay(c)
    /\ UNCHANGED <<queue, nextId, epoch, disturbed, refs, phase, sweep>>

(* Whether a coroutine may go on: flags and count.                         *)
GoesOn(c, j, k) ==
    /\ j.state \in Terminal => ~j.active
    /\ j.cancelled => j.state \in Terminal
    /\ \/ j.active = jobs[co[c].slot].active /\ activeCount' = activeCount /\ k.pc # "drop"
       \/ ~j.active /\ activeCount' = CountWithout(jobs[co[c].slot])
    /\ exec' \in 0..Pool /\ op["worker"].call = "idle"
    /\ fired' \in [Ids -> 0..MaxFired]

LEMMA CoStepCount ==
    ASSUME CountInv, NEW c \in Cos, NEW j \in JobRec, NEW k \in CoRec,
           CoStep(c, j, k), GoesOn(c, j, k)
    PROVE  CountInv'
<1> USE DEF CountInv
<1>0. PICK s \in Slots : s = co[c].slot
  BY DEF CoStep, Typed
<1>1. /\ jobs' \in [Slots -> JobRec] /\ jobs'[s] = j
      /\ \A r \in Slots \ {s} : jobs'[r] = jobs[r]
  BY <1>0, JobWritten DEF CoStep
<1>2. co' \in [Cos -> CoRec] /\ co'[c] = k /\ \A d \in Cos \ {c} : co'[d] = co[d]
  BY CoWritten DEF CoStep
<1>3. ActiveExact' /\ activeCount' \in Nat
  <2>1. CASE j.active = jobs[s].active /\ activeCount' = activeCount
    BY <1>1, <2>1, ActiveSame
  <2>2. CASE ~j.active /\ activeCount' = CountWithout(jobs[s])
    BY <1>1, <2>2, ActiveRemoved
  <2> QED
    BY <1>0, <2>1, <2>2 DEF GoesOn
<1>4. Typed'
  <2>1. \A d \in Cos : Live(d)' => co'[d].slot \in Slots /\ co'[d].id \in Ids
    BY <1>2 DEF CoStep, Typed, Live
  <2>2. \A t \in Threads :
          /\ op'[t].call \in {"submit", "rejected", "cancel"} => op'[t].slot \in Slots
          /\ Starting(t)' => op'[t].id \in Ids
    BY DEF CoStep, OpsStay, Typed, Starting
  <2>3. /\ UNCHANGED <<queue, nextId, epoch, disturbed, refs, phase, sweep>>
        /\ op' \in [Threads -> OpRec] /\ exec' \in 0..Pool /\ fired' \in [Ids -> 0..MaxFired]
    BY DEF CoStep, OpsStay, GoesOn
  <2> QED
    BY <1>1, <1>2, <1>3, <2>1, <2>2, <2>3 DEF Typed
<1>5. Flags'
  BY <1>1 DEF Flags, GoesOn
<1>6. Callers'
  <2>1. "worker" \in Threads /\ "host" \in Threads
    BY DEF Threads
  <2>2. op'["worker"].call = "idle" /\ op'["host"].call = op["host"].call /\ phase' = phase
    BY <2>1 DEF CoStep, OpsStay, GoesOn
  <2> QED
    BY <2>2 DEF Callers, ExecutorDown
<1>7. ActiveHeld'
  <2> SUFFICES ASSUME NEW r \in Slots, jobs'[r].active
               PROVE  \/ \E i \in 1..Len(queue) : queue[i].slot = r
                      \/ \E d \in Cos : co'[d].pc \notin {"none", "drop"} /\ co'[d].slot = r
                      \/ \E t \in Threads : op'[t].call = "submit" /\ op'[t].slot = r
    BY DEF ActiveHeld, CoStep
  <2>1. jobs[r].active /\ (r = s => k.pc # "drop")
    BY <1>0, <1>1 DEF GoesOn
  <2>2. CASE \E i \in 1..Len(queue) : queue[i].slot = r
    BY <2>2
  <2>3. CASE \E d \in Cos : co[d].pc \notin {"none", "drop"} /\ co[d].slot = r
    <3>1. PICK d \in Cos : co[d].pc \notin {"none", "drop"} /\ co[d].slot = r
      BY <2>3
    <3> QED
      BY <1>0, <1>2, <2>1, <3>1 DEF CoStep
  <2>4. CASE \E t \in Threads : op[t].call = "submit" /\ op[t].slot = r
    BY <2>4 DEF CoStep, OpsStay
  <2> QED
    BY <2>1, <2>2, <2>3, <2>4 DEF ActiveHeld
<1> QED
  BY <1>3, <1>4, <1>5, <1>6, <1>7

(* The six steps of a coroutine.                                           *)
LEMMA AtFacts ==
    ASSUME Typed, NEW c \in Cos, Live(c)
    PROVE  /\ co[c].slot \in Slots /\ co[c].id \in Ids /\ co[c] \in CoRec
           /\ jobs[co[c].slot] \in JobRec
           /\ jobs = [jobs EXCEPT ![co[c].slot] = jobs[co[c].slot]]
           /\ UNCHANGED op => OpsStay(c)
BY Facts DEF Typed, OpsStay

LEMMA GotoIs ==
    ASSUME Typed, NEW c \in Cos, NEW pc \in Pcs, Goto(c, pc)
    PROVE  LET k == [co[c] EXCEPT !.pc = pc]
           IN  /\ k \in CoRec /\ co' = [co EXCEPT ![c] = k]
               /\ k.pc = pc /\ k.slot = co[c].slot /\ k.id = co[c].id /\ k.epoch = co[c].epoch
               /\ k.woken = co[c].woken
<1>1. co[c] \in CoRec
  BY Facts
<1> QED
  BY <1>1 DEF Goto, CoRec

LEMMA LoopIs ==
    ASSUME CountInv, NEW c \in Cos, Loop(c)
    PROVE  \E k \in CoRec :
               /\ CoStep(c, jobs[co[c].slot], k) /\ GoesOn(c, jobs[co[c].slot], k)
               /\ k.pc \in {"cancelled", "begin"} /\ co[c].pc = "loop"
               /\ fired' = fired /\ exec' = exec
<1> USE DEF CountInv
<1>1. PICK pc \in {"cancelled", "begin"} : Goto(c, pc)
  BY DEF Loop
<1> DEFINE k == [co[c] EXCEPT !.pc = pc]
<1>2. Live(c) /\ co[c].pc = "loop" /\ co[c].epoch = epoch /\ op["worker"].call = "idle"
  BY Records DEF Loop, At, Live
<1>3. /\ k \in CoRec /\ co' = [co EXCEPT ![c] = k]
      /\ k.pc = pc /\ k.slot = co[c].slot /\ k.id = co[c].id /\ k.epoch = co[c].epoch
  <2>1. pc \in Pcs
    BY DEF Pcs
  <2> QED
    BY <1>1, <2>1, GotoIs
<1> HIDE DEF k
<1>4. CoStep(c, jobs[co[c].slot], k)
  BY <1>2, <1>3, AtFacts DEF CoStep, Loop
<1>5. GoesOn(c, jobs[co[c].slot], k)
  BY <1>2, <1>3, AtFacts DEF GoesOn, Loop, Flags, Typed
<1> QED
  BY <1>2, <1>3, <1>4, <1>5 DEF Loop

LEMMA BeginWaitIs ==
    ASSUME CountInv, NEW c \in Cos, BeginWait(c)
    PROVE  \E j \in JobRec, k \in CoRec :
               /\ CoStep(c, j, k) /\ GoesOn(c, j, k)
               /\ k.pc = "await" /\ co[c].pc = "begin" /\ k.woken = j.cancelled
               /\ j.awaitActive /\ j.handle = c
               /\ j.cancelled = jobs[co[c].slot].cancelled
               /\ fired' = fired /\ exec' = 0
<1> USE DEF CountInv
<1> DEFINE J == jobs[co[c].slot]
<1>1. Live(c) /\ co[c].pc = "begin" /\ co[c].epoch = epoch /\ op["worker"].call = "idle"
  BY Records DEF BeginWait, At, Live
<1>2. /\ co[c].slot \in Slots /\ co[c].id \in Ids /\ co[c] \in CoRec /\ J \in JobRec
      /\ UNCHANGED op => OpsStay(c)
  BY <1>1, AtFacts
<1>3. PICK st \in {"CANCELLED", "SCHEDULED"} : st = IF J.cancelled THEN "CANCELLED" ELSE "SCHEDULED"
  OBVIOUS
<1> DEFINE j == [J EXCEPT !.handle = c, !.awaitActive = TRUE, !.state = st]
<1> DEFINE k == [co[c] EXCEPT !.pc = "await", !.woken = J.cancelled]
<1>4. /\ jobs' = [jobs EXCEPT ![co[c].slot] = j] /\ co' = [co EXCEPT ![c] = k]
  BY <1>3 DEF BeginWait
<1>5. /\ j \in JobRec /\ j.id = J.id /\ j.kind = J.kind /\ j.callback = J.callback
      /\ j.active = J.active /\ j.cancelled = J.cancelled
      /\ j.awaitActive /\ j.handle = c /\ j.state = st
  BY <1>2, Sizes DEF JobRec, JobStates, Terminal
<1>6. /\ k \in CoRec /\ k.pc = "await" /\ k.woken = J.cancelled
      /\ k.slot = co[c].slot /\ k.id = co[c].id /\ k.epoch = co[c].epoch
  BY <1>2 DEF CoRec, Pcs, JobRec
<1>7. UNCHANGED <<queue, nextId, epoch, disturbed, refs, phase, sweep, op, fired, activeCount>> /\ exec' = 0
  BY DEF BeginWait
<1> HIDE DEF j, k
<1>8. CoStep(c, j, k)
  BY <1>1, <1>2, <1>4, <1>5, <1>6, <1>7 DEF CoStep
<1>9. GoesOn(c, j, k)
  <2>1. (J.state \in Terminal => ~J.active) /\ (J.cancelled => J.state \in Terminal)
    BY <1>2 DEF Flags
  <2>2. (st \in Terminal <=> J.cancelled) /\ (J.cancelled => st \in Terminal)
    BY <1>3 DEF Terminal
  <2> QED
    BY <1>1, <1>5, <1>6, <1>7, <2>1, <2>2, Sizes DEF GoesOn, Typed
<1> QED
  BY <1>1, <1>5, <1>6, <1>7, <1>8, <1>9

LEMMA ResumeWaitIs ==
    ASSUME CountInv, NEW c \in Cos, ResumeWait(c)
    PROVE  \E j \in JobRec, k \in CoRec :
               /\ CoStep(c, j, k) /\ GoesOn(c, j, k)
               /\ k.pc \in {"cancelled", "fire"} /\ co[c].pc = "await"
               /\ j.cancelled = jobs[co[c].slot].cancelled
               /\ fired' = fired /\ exec' = c
<1> USE DEF CountInv
<1> DEFINE J == jobs[co[c].slot]
<1>1. Live(c) /\ co[c].pc = "await" /\ co[c].epoch = epoch /\ exec = 0
  BY DEF ResumeWait, Live
<1>2. co[c].slot \in Slots /\ co[c].id \in Ids /\ co[c] \in CoRec /\ J \in JobRec
  BY <1>1, AtFacts
<1>3. PICK st \in JobStates : st = IF J.state \in Terminal THEN J.state ELSE "PENDING"
  BY <1>2, JobType DEF JobStates
<1>3a. PICK pc \in {"cancelled", "fire"} :
          pc = IF J.cancelled \/ co[c].woken THEN "cancelled" ELSE "fire"
  OBVIOUS
<1> DEFINE j == [J EXCEPT !.awaitActive = FALSE, !.state = st]
<1> DEFINE k == [co[c] EXCEPT !.pc = pc, !.woken = FALSE]
<1>4. jobs' = [jobs EXCEPT ![co[c].slot] = j] /\ co' = [co EXCEPT ![c] = k]
  BY <1>2, <1>3, <1>3a DEF ResumeWait
<1>5. /\ j \in JobRec /\ j.id = J.id /\ j.kind = J.kind /\ j.callback = J.callback
      /\ j.active = J.active /\ j.cancelled = J.cancelled /\ j.state = st
  BY <1>2 DEF JobRec
<1>6. /\ k \in CoRec /\ k.pc = pc
      /\ k.slot = co[c].slot /\ k.id = co[c].id /\ k.epoch = co[c].epoch
  BY <1>2 DEF CoRec, Pcs
<1>7. UNCHANGED <<queue, nextId, epoch, disturbed, refs, phase, sweep, fired, activeCount>> /\ exec' = c
  BY DEF ResumeWait
<1>8. OpsStay(c)
  <2>1. op' = [t \in Threads |-> IF op[t].handle = c THEN [op[t] EXCEPT !.handle = 0] ELSE op[t]]
    BY DEF ResumeWait
  <2>2. \A t \in Threads : op[t] \in OpRec
    BY Facts
  <2>3. \A o \in OpRec : LET n == [o EXCEPT !.handle = 0]
                         IN n \in OpRec /\ n.call = o.call /\ n.slot = o.slot /\ n.id = o.id
    BY Sizes DEF OpRec
  <2> QED
    BY <2>1, <2>2, <2>3 DEF OpsStay
<1> HIDE DEF j, k
<1>9. CoStep(c, j, k)
  BY <1>1, <1>2, <1>4, <1>5, <1>6, <1>7, <1>8 DEF CoStep
<1>10. GoesOn(c, j, k)
  <2>1. (J.state \in Terminal => ~J.active) /\ (J.cancelled => J.state \in Terminal)
    BY <1>2 DEF Flags
  <2>2. (st \in Terminal <=> J.state \in Terminal)
    BY <1>3 DEF Terminal
  <2>3. op["worker"].call = "idle"
    BY <1>1 DEF Callers
  <2> QED
    BY <1>1, <1>5, <1>6, <1>7, <2>1, <2>2, <2>3, Sizes DEF GoesOn, Typed
<1> QED
  BY <1>1, <1>5, <1>6, <1>7, <1>9, <1>10

LEMMA FireIs ==
    ASSUME CountInv, NEW c \in Cos, Fire(c)
    PROVE  \E j \in JobRec, k \in CoRec :
               /\ CoStep(c, j, k) /\ GoesOn(c, j, k)
               /\ co[c].pc = "fire" /\ exec' = exec
               /\ j.cancelled = jobs[co[c].slot].cancelled
               /\ \/ /\ k.pc = "cancelled" /\ fired' = fired
                  \/ /\ k.pc = "callback" /\ ~j.cancelled
                     /\ fired' \in [Ids -> 0..MaxFired]
                     /\ \A i \in Ids \ {j.id} : fired'[i] = fired[i]
                     /\ j.id \in Ids => fired'[j.id] <= fired[j.id] + 1
<1> USE DEF CountInv
<1> DEFINE J == jobs[co[c].slot]
<1>1. Live(c) /\ co[c].pc = "fire" /\ co[c].epoch = epoch /\ op["worker"].call = "idle"
  BY Records DEF Fire, At, Live
<1>2. /\ co[c].slot \in Slots /\ co[c].id \in Ids /\ co[c] \in CoRec /\ J \in JobRec
      /\ jobs = [jobs EXCEPT ![co[c].slot] = J]
      /\ UNCHANGED op => OpsStay(c)
  BY <1>1, AtFacts
<1>3. UNCHANGED <<queue, nextId, epoch, disturbed, refs, phase, sweep, op, activeCount, exec>>
  BY DEF Fire
<1>4. (J.state \in Terminal => ~J.active) /\ (J.cancelled => J.state \in Terminal)
  BY <1>2 DEF Flags
<1>5. CASE J.cancelled
  <2> DEFINE k == [co[c] EXCEPT !.pc = "cancelled"]
  <2>1. Goto(c, "cancelled") /\ jobs' = jobs /\ fired' = fired
    BY <1>5 DEF Fire, Job
  <2>2. /\ k \in CoRec /\ co' = [co EXCEPT ![c] = k] /\ k.pc = "cancelled"
        /\ k.slot = co[c].slot /\ k.id = co[c].id /\ k.epoch = co[c].epoch
    BY <2>1, GotoIs DEF Pcs
  <2> HIDE DEF k
  <2>3. CoStep(c, J, k)
    BY <1>1, <1>2, <1>3, <2>1, <2>2 DEF CoStep
  <2>4. GoesOn(c, J, k)
    BY <1>1, <1>3, <1>4, <2>1, <2>2 DEF GoesOn, Typed
  <2> QED
    BY <1>1, <1>2, <1>3, <2>1, <2>2, <2>3, <2>4
<1>6. CASE ~J.cancelled
  <2> DEFINE k == [co[c] EXCEPT !.pc = "callback"]
  <2> DEFINE j == [J EXCEPT !.state = "RUNNING"]
  <2>1. /\ Goto(c, "callback") /\ jobs' = [jobs EXCEPT ![co[c].slot] = j]
        /\ fired' = IF J.id # 0 /\ fired[J.id] < MaxFired
                    THEN [fired EXCEPT ![J.id] = @ + 1] ELSE fired
    BY <1>6 DEF Fire, Job
  <2>2. /\ k \in CoRec /\ co' = [co EXCEPT ![c] = k] /\ k.pc = "callback"
        /\ k.slot = co[c].slot /\ k.id = co[c].id /\ k.epoch = co[c].epoch
    BY <2>1, GotoIs DEF Pcs
  <2>3. /\ j \in JobRec /\ j.id = J.id /\ j.kind = J.kind /\ j.callback = J.callback
        /\ j.active = J.active /\ j.cancelled = J.cancelled /\ j.state = "RUNNING"
    BY <1>2 DEF JobRec, JobStates
  <2> HIDE DEF k, j
  <2>4. /\ fired' \in [Ids -> 0..MaxFired]
        /\ \A i \in Ids \ {j.id} : fired'[i] = fired[i]
        /\ j.id \in Ids => fired'[j.id] <= fired[j.id] + 1
    <3>1. fired \in [Ids -> 0..MaxFired] /\ MaxFired = 2
      BY DEF Typed, MaxFired
    <3>2. J.id # 0 => J.id \in Ids
      BY <1>2, JobType, Sizes
    <3>3. CASE J.id # 0 /\ fired[J.id] < MaxFired
      <4>1. fired[J.id] \in 0..1 /\ fired[J.id] + 1 \in 0..2 /\ J.id \in Ids
        BY <3>1, <3>2, <3>3
      <4>2. fired' = [fired EXCEPT ![J.id] = fired[J.id] + 1]
        BY <2>1, <3>3
      <4> QED
        BY <2>3, <3>1, <4>1, <4>2
    <3>4. CASE ~(J.id # 0 /\ fired[J.id] < MaxFired)
      <4>1. fired' = fired
        BY <2>1, <3>4
      <4> QED
        BY <3>1, <4>1
    <3> QED
      BY <3>3, <3>4
  <2>5. CoStep(c, j, k)
    BY <1>1, <1>2, <1>3, <2>1, <2>2, <2>3 DEF CoStep
  <2>6. GoesOn(c, j, k)
    BY <1>1, <1>3, <1>6, <2>2, <2>3, <2>4 DEF GoesOn, Typed, Terminal
  <2> QED
    BY <1>1, <1>3, <1>6, <2>2, <2>3, <2>4, <2>5, <2>6
<1> QED
  BY <1>5, <1>6

LEMMA AfterCallbackIs ==
    ASSUME CountInv, NEW c \in Cos, NEW failed \in BOOLEAN, AfterCallback(c, failed)
    PROVE  \E k \in CoRec :
               /\ CoStep(c, jobs[co[c].slot], k) /\ GoesOn(c, jobs[co[c].slot], k)
               /\ k.pc \in {"completed", "failed", "loop"} /\ co[c].pc = "callback"
               /\ k.pc = "loop" => jobs[co[c].slot].kind # "after"
               /\ fired' = fired /\ exec' = exec
<1> USE DEF CountInv
<1>1. PICK pc \in {"completed", "failed", "loop"} :
          Goto(c, pc) /\ (pc = "loop" => jobs[co[c].slot].kind # "after")
  BY DEF AfterCallback, Job
<1> DEFINE k == [co[c] EXCEPT !.pc = pc]
<1>2. Live(c) /\ co[c].pc = "callback" /\ co[c].epoch = epoch /\ op["worker"].call = "idle"
  BY Records DEF AfterCallback, At, Live
<1>3. /\ k \in CoRec /\ co' = [co EXCEPT ![c] = k]
      /\ k.pc = pc /\ k.slot = co[c].slot /\ k.id = co[c].id /\ k.epoch = co[c].epoch
  <2>1. pc \in Pcs
    BY DEF Pcs
  <2> QED
    BY <1>1, <2>1, GotoIs
<1> HIDE DEF k
<1>4. UNCHANGED <<jobs, activeCount, nextId, queue, exec, op, phase, sweep, epoch, disturbed, refs, fired>>
  BY DEF AfterCallback
<1>5. CoStep(c, jobs[co[c].slot], k)
  BY <1>2, <1>3, <1>4, AtFacts DEF CoStep
<1>6. GoesOn(c, jobs[co[c].slot], k)
  BY <1>2, <1>3, <1>4, AtFacts DEF GoesOn, Flags, Typed
<1> QED
  BY <1>1, <1>2, <1>3, <1>4, <1>5, <1>6

LEMMA DoneIs ==
    ASSUME CountInv, NEW c \in Cos, Done(c)
    PROVE  \E j \in JobRec, k \in CoRec :
               /\ CoStep(c, j, k) /\ GoesOn(c, j, k)
               /\ k.pc = "drop" /\ co[c].pc \notin {"none", "await"}
               /\ j.cancelled = jobs[co[c].slot].cancelled
               /\ fired' = fired /\ exec' = exec
<1> USE DEF CountInv
<1> DEFINE J == jobs[co[c].slot]
<1>1. PICK pc \in {"cancelled", "completed", "failed"} :
          /\ At(c, pc)
          /\ jobs' = [jobs EXCEPT ![co[c].slot].awaitActive = FALSE, ![co[c].slot].active = FALSE,
                                  ![co[c].slot].state = Verdict[pc]]
  BY DEF Done, Verdict
<1>2. Live(c) /\ co[c].pc = pc /\ co[c].epoch = epoch /\ op["worker"].call = "idle"
  BY <1>1, Records DEF At, Live
<1>3. PICK v \in {"CANCELLED", "COMPLETED", "FAILED"} : v = Verdict[pc]
  BY DEF Verdict
<1>4. /\ co[c].slot \in Slots /\ J \in JobRec /\ (UNCHANGED op => OpsStay(c))
  BY <1>2, AtFacts
<1> DEFINE j == [J EXCEPT !.awaitActive = FALSE, !.active = FALSE, !.state = v]
<1> DEFINE k == [co[c] EXCEPT !.pc = "drop"]
<1>5. jobs' = [jobs EXCEPT ![co[c].slot] = j]
  BY <1>1, <1>3
<1>6. /\ j \in JobRec /\ j.id = J.id /\ j.kind = J.kind /\ j.callback = J.callback
      /\ ~j.active /\ j.cancelled = J.cancelled /\ j.state \in Terminal
  BY <1>4 DEF JobRec, JobStates, Terminal
<1>7. /\ k \in CoRec /\ co' = [co EXCEPT ![c] = k]
      /\ k.pc = "drop" /\ k.slot = co[c].slot /\ k.id = co[c].id /\ k.epoch = co[c].epoch
  BY GotoIs DEF Pcs, Done
<1>8. /\ UNCHANGED <<nextId, queue, exec, op, phase, sweep, epoch, disturbed, refs, fired>>
      /\ activeCount' = CountWithout(J)
  BY DEF Done
<1> HIDE DEF j, k
<1>9. CoStep(c, j, k)
  BY <1>2, <1>4, <1>5, <1>6, <1>7, <1>8 DEF CoStep
<1>10. GoesOn(c, j, k)
  BY <1>2, <1>6, <1>7, <1>8 DEF GoesOn, Typed
<1> QED
  BY <1>2, <1>6, <1>7, <1>8, <1>9, <1>10

-----------------------------------------------------------------------------
(* Steps of a call that leave the queue and the coroutines' places alone.  *)

OpsTyped ==
    /\ op \in [Threads -> OpRec]
    /\ \A t \in Threads :
          /\ op[t].call \in {"submit", "rejected", "cancel"} => op[t].slot \in Slots
          /\ Starting(t) => op[t].id \in Ids

(* The coroutines stay where they are; one may be woken.                   *)
CosStay ==
    /\ co' \in [Cos -> CoRec]
    /\ \A c \in Cos : /\ co'[c].pc = co[c].pc /\ co'[c].slot = co[c].slot
                      /\ co'[c].id = co[c].id /\ co'[c].epoch = co[c].epoch

LEMMA AsideCount ==
    ASSUME CountInv, UNCHANGED <<queue, nextId, exec, epoch, disturbed, fired>>,
           refs' \in [Ids -> Int], CosStay, OpsTyped', Callers', phase' \in Phases, sweep' \in Nat \ {0},
           jobs' \in [Slots -> JobRec], Flags', ActiveExact', activeCount' \in Nat,
           \A s \in Slots : jobs'[s].active => jobs[s].active,
           \A t \in Threads : op[t].call = "submit" =>
               op'[t] = op[t] \/ ~jobs'[op[t].slot].active
    PROVE  CountInv'
<1> USE DEF CountInv
<1>1. Typed'
  <2>1. \A c \in Cos : Live(c)' => co'[c].slot \in Slots /\ co'[c].id \in Ids
    BY DEF CosStay, Typed, Live
  <2> QED
    BY <2>1 DEF Typed, OpsTyped, CosStay
<1>2. ActiveHeld'
  <2> SUFFICES ASSUME NEW r \in Slots, jobs'[r].active
               PROVE  \/ \E i \in 1..Len(queue) : queue[i].slot = r
                      \/ \E d \in Cos : co'[d].pc \notin {"none", "drop"} /\ co'[d].slot = r
                      \/ \E t \in Threads : op'[t].call = "submit" /\ op'[t].slot = r
    BY DEF ActiveHeld
  <2>1. jobs[r].active
    OBVIOUS
  <2>2. CASE \E d \in Cos : co[d].pc \notin {"none", "drop"} /\ co[d].slot = r
    BY <2>2 DEF CosStay
  <2>3. CASE \E t \in Threads : op[t].call = "submit" /\ op[t].slot = r
    BY <2>3
  <2> QED
    BY <2>1, <2>2, <2>3 DEF ActiveHeld
<1> QED
  BY <1>1, <1>2

LEMMA CosSame ==
    ASSUME Typed, UNCHANGED co
    PROVE  CosStay
BY DEF CosStay, Typed

LEMMA JobsSame ==
    ASSUME CountInv, UNCHANGED <<jobs, activeCount>>
    PROVE  /\ jobs' \in [Slots -> JobRec] /\ Flags' /\ ActiveExact' /\ activeCount' \in Nat
           /\ \A s \in Slots : jobs'[s] = jobs[s]
BY DEF CountInv, Typed, Flags, ActiveExact

(* One thread's call is replaced by o.                                     *)
LEMMA OpsSet ==
    ASSUME Typed, NEW t \in Threads, NEW o \in OpRec, op' = [op EXCEPT ![t] = o],
           o.call \in {"submit", "rejected", "cancel"} => o.slot \in Slots,
           o.call \in {"submit", "rejected"} => o.id \in Ids
    PROVE  /\ OpsTyped' /\ op'[t] = o /\ \A u \in Threads \ {t} : op'[u] = op[u]
<1>1. op' \in [Threads -> OpRec] /\ op'[t] = o /\ \A u \in Threads \ {t} : op'[u] = op[u]
  BY OpWritten
<1>2. \A u \in Threads :
          /\ op'[u].call \in {"submit", "rejected", "cancel"} => op'[u].slot \in Slots
          /\ Starting(u)' => op'[u].id \in Ids
  BY <1>1 DEF Typed, Starting
<1> QED
  BY <1>1, <1>2 DEF OpsTyped

LEMMA OpsUnchanged ==
    ASSUME Typed, UNCHANGED op
    PROVE  OpsTyped' /\ \A t \in Threads : op'[t] = op[t]
BY DEF OpsTyped, Typed, Starting

LEMMA CancelCount ==
    ASSUME CountInv, NEW t \in Threads, NEW id \in Ids, Cancel(t, id)
    PROVE  /\ CountInv' /\ CosStay /\ UNCHANGED jobs
           /\ op[t].call = "idle" /\ op'[t].call = "cancel"
           /\ \A u \in Threads \ {t} : op'[u] = op[u]
<1> USE DEF CountInv
<1>1. PICK s \in Slots : op' = [op EXCEPT ![t] = [Idle EXCEPT !.call = "cancel", !.slot = s, !.id = id]]
  BY DEF Cancel
<1> DEFINE o == [Idle EXCEPT !.call = "cancel", !.slot = s, !.id = id]
<1>2. o \in OpRec /\ o.call = "cancel" /\ o.slot = s /\ o.id = id
  <2>1. "cancel" \in OpCalls /\ s \in 0..Capacity /\ id \in 0..MaxId
    BY Sizes DEF OpCalls
  <2> QED
    BY <2>1, Sizes DEF Idle, OpRec
<1> HIDE DEF o
<1>3. /\ UNCHANGED <<jobs, activeCount, nextId, queue, co, exec, phase, sweep, epoch, disturbed, refs, fired>>
      /\ op' = [op EXCEPT ![t] = o] /\ op[t].call = "idle"
      /\ IF t = "host" THEN phase = "open" ELSE exec # 0 /\ co[exec].pc = "callback"
  BY <1>1, Records DEF Cancel, InScript, o
<1>4. OpsTyped' /\ op'[t] = o /\ \A u \in Threads \ {t} : op'[u] = op[u]
  BY <1>2, <1>3, OpsSet
<1>5. Callers'
  BY <1>3, <1>4 DEF Callers, ExecutorDown, Threads
<1>6. CosStay
  BY <1>3, CosSame
<1>7. /\ jobs' \in [Slots -> JobRec] /\ Flags' /\ ActiveExact' /\ activeCount' \in Nat
      /\ \A r \in Slots : jobs'[r] = jobs[r]
  BY <1>3, JobsSame
<1>8. CountInv'
  <2>1. phase' \in Phases /\ sweep' \in Nat \ {0} /\ refs' \in [Ids -> Int]
    BY <1>3 DEF Typed
  <2>2. \A u \in Threads : op[u].call = "submit" => op'[u] = op[u]
    BY <1>3, <1>4
  <2>3. \A r \in Slots : jobs'[r].active => jobs[r].active
    BY <1>7
  <2> QED
    BY <1>3, <1>4, <1>5, <1>6, <1>7, <2>1, <2>2, <2>3, AsideCount
<1> QED
  BY <1>2, <1>3, <1>4, <1>6, <1>8

LEMMA RequestCancelCount ==
    ASSUME CountInv, NEW t \in Threads, RequestCancel(t)
    PROVE  /\ CountInv' /\ CosStay /\ op[t].call = "cancel" /\ op[t].slot \in Slots
           /\ op'[t].call \in {"idle", "wake"}
           /\ \A u \in Threads \ {t} : op'[u] = op[u]
           /\ \A r \in Slots \ {op[t].slot} : jobs'[r] = jobs[r]
           /\ \/ jobs' = jobs
              \/ /\ ~jobs[op[t].slot].cancelled
                 /\ jobs' = [jobs EXCEPT ![op[t].slot].cancelled = TRUE,
                                         ![op[t].slot].state = "CANCELLED",
                                         ![op[t].slot].active = FALSE]
                 /\ jobs[op[t].slot].awaitActive =>
                       op'[t].call = "wake" /\ op'[t].handle = jobs[op[t].slot].handle
<1> USE DEF CountInv
<1>0. PICK s \in Slots : s = op[t].slot
  BY DEF Typed, RequestCancel
<1>1. jobs[s] \in JobRec /\ op[t] \in OpRec /\ op[t].call = "cancel"
  BY Facts DEF RequestCancel
<1>2. UNCHANGED <<nextId, queue, co, exec, phase, sweep, epoch, disturbed, refs, fired>>
  BY DEF RequestCancel
<1>3. CosStay
  BY <1>2, CosSame
<1> DEFINE w == [op[t] EXCEPT !.call = "wake", !.handle = jobs[s].handle]
<1>4. w \in OpRec /\ w.call = "wake" /\ w.handle = jobs[s].handle
  BY <1>1, JobType DEF OpRec, OpCalls
<1>5. PICK o \in {Idle, w} : op' = [op EXCEPT ![t] = o]
  BY <1>0 DEF RequestCancel
<1>6. o \in OpRec /\ o.call \in {"idle", "wake"}
  BY <1>4, Records
<1>7. OpsTyped' /\ op'[t] = o /\ \A u \in Threads \ {t} : op'[u] = op[u]
  BY <1>5, <1>6, OpsSet
<1>8. Callers'
  BY <1>1, <1>2, <1>6, <1>7 DEF Callers, ExecutorDown, Threads
<1>9. phase' \in Phases /\ sweep' \in Nat \ {0} /\ refs' \in [Ids -> Int]
  BY <1>2 DEF Typed
<1>10. \A u \in Threads : op[u].call = "submit" => op'[u] = op[u]
  BY <1>1, <1>7
<1>11. CASE UNCHANGED <<jobs, activeCount>>
  <2>1. CountInv'
    <3>1. /\ jobs' \in [Slots -> JobRec] /\ Flags' /\ ActiveExact' /\ activeCount' \in Nat
          /\ \A r \in Slots : jobs'[r].active => jobs[r].active
      BY <1>11, JobsSame
    <3>2. \A u \in Threads : op[u].call = "submit" =>
            op'[u] = op[u] \/ ~jobs'[op[u].slot].active
      BY <1>10
    <3> QED
      BY <1>2, <1>3, <1>7, <1>8, <1>9, <3>1, <3>2, AsideCount
  <2> QED
    BY <1>0, <1>1, <1>3, <1>6, <1>7, <1>11, <2>1
<1>12. CASE ~UNCHANGED <<jobs, activeCount>>
  <2> DEFINE j == [jobs[s] EXCEPT !.cancelled = TRUE, !.state = "CANCELLED", !.active = FALSE]
  <2>1. /\ jobs' = [jobs EXCEPT ![s] = j] /\ ~jobs[s].cancelled
        /\ activeCount' = CountWithout(jobs[s])
        /\ op' = [op EXCEPT ![t] = IF jobs[s].awaitActive THEN w ELSE Idle]
        /\ jobs' = [jobs EXCEPT ![s].cancelled = TRUE, ![s].state = "CANCELLED", ![s].active = FALSE]
    <3>1. /\ ~jobs[s].cancelled /\ activeCount' = CountWithout(jobs[s])
          /\ op' = [op EXCEPT ![t] = IF jobs[s].awaitActive THEN w ELSE Idle]
          /\ jobs' = [jobs EXCEPT ![s].cancelled = TRUE, ![s].state = "CANCELLED", ![s].active = FALSE]
      BY <1>0, <1>12 DEF RequestCancel
    <3>2. jobs \in [Slots -> JobRec] /\ jobs[s] \in JobRec
      BY <1>1 DEF Typed
    <3>3. jobs' = [jobs EXCEPT ![s] = j]
      BY <3>1, <3>2 DEF JobRec
    <3> QED
      BY <3>1, <3>3
  <2>2. j \in JobRec /\ j.cancelled /\ j.state \in Terminal /\ ~j.active
    BY <1>1 DEF JobRec, JobStates, Terminal
  <2> HIDE DEF j, w
  <2>3. jobs' \in [Slots -> JobRec] /\ jobs'[s] = j /\ \A r \in Slots \ {s} : jobs'[r] = jobs[r]
    BY <2>1, <2>2, JobWritten
  <2>4. Flags' /\ \A r \in Slots : jobs'[r].active => jobs[r].active
    BY <2>2, <2>3 DEF Flags
  <2>5. ActiveExact' /\ activeCount' \in Nat
    BY <2>1, <2>2, <2>3, ActiveRemoved
  <2>6. CountInv'
    BY <1>2, <1>3, <1>7, <1>8, <1>9, <1>10, <2>3, <2>4, <2>5, AsideCount
  <2>7. jobs[s].awaitActive => op'[t] = w
    <3>1. op \in [Threads -> OpRec]
      BY DEF Typed
    <3> QED
      BY <2>1, <3>1
  <2> QED
    BY <1>0, <1>1, <1>3, <1>4, <1>6, <1>7, <2>1, <2>3, <2>6, <2>7
<1> QED
  BY <1>11, <1>12

LEMMA WakeCount ==
    ASSUME CountInv, NEW t \in Threads, Wake(t)
    PROVE  /\ CountInv' /\ CosStay /\ UNCHANGED jobs /\ op[t].call = "wake"
           /\ op'[t].call = "idle" /\ op'[t].handle = 0
           /\ \A u \in Threads \ {t} : op'[u] = op[u]
           /\ \A c \in Cos : co'[c].woken <=> co[c].woken \/ op[t].handle = c
<1> USE DEF CountInv
<1>1. /\ UNCHANGED <<jobs, activeCount, nextId, queue, exec, phase, sweep, epoch, disturbed, refs, fired>>
      /\ op' = [op EXCEPT ![t] = Idle] /\ op[t].call = "wake"
  BY DEF Wake
<1>2. CosStay /\ \A c \in Cos : co'[c].woken <=> co[c].woken \/ op[t].handle = c
  <2>1. CASE op[t].handle = 0
    <3>1. co' = co
      BY <2>1 DEF Wake
    <3> QED
      BY <2>1, <3>1, CosSame, Sizes
  <2>2. CASE op[t].handle # 0
    <3>1. PICK h \in Cos : h = op[t].handle
      BY <2>2, Facts, OpType, Sizes
    <3> DEFINE k == [co[h] EXCEPT !.woken = TRUE]
    <3>2. co' = [co EXCEPT ![h] = k]
      BY <2>2, <3>1 DEF Wake
    <3>3. /\ k \in CoRec /\ k.woken /\ k.pc = co[h].pc /\ k.slot = co[h].slot /\ k.id = co[h].id
          /\ k.epoch = co[h].epoch
      <4>1. co[h] \in CoRec
        BY Facts
      <4> QED
        BY <4>1 DEF CoRec
    <3> HIDE DEF k
    <3>4. co' \in [Cos -> CoRec] /\ co'[h] = k /\ \A d \in Cos \ {h} : co'[d] = co[d]
      BY <3>2, <3>3, CoWritten
    <3> QED
      BY <3>1, <3>3, <3>4 DEF CosStay
  <2> QED
    BY <2>1, <2>2
<1>3. OpsTyped' /\ op'[t] = Idle /\ \A u \in Threads \ {t} : op'[u] = op[u]
  BY <1>1, Records, OpsSet
<1>4. Callers'
  <2>1. exec # 0 => co'[exec].pc = co[exec].pc
    BY <1>2, Facts DEF CosStay
  <2> QED
    BY <1>1, <1>3, <2>1, Records DEF Callers, ExecutorDown, Threads
<1>5. /\ jobs' \in [Slots -> JobRec] /\ Flags' /\ ActiveExact' /\ activeCount' \in Nat
      /\ \A r \in Slots : jobs'[r] = jobs[r]
  BY <1>1, JobsSame
<1>6. CountInv'
  <2>1. phase' \in Phases /\ sweep' \in Nat \ {0} /\ refs' \in [Ids -> Int]
    BY <1>1 DEF Typed
  <2>2. \A u \in Threads : op[u].call = "submit" => op'[u] = op[u]
    BY <1>1, <1>3
  <2>3. \A r \in Slots : jobs'[r].active => jobs[r].active
    BY <1>5
  <2> QED
    BY <1>1, <1>2, <1>3, <1>4, <1>5, <2>1, <2>2, <2>3, AsideCount
<1> QED
  BY <1>1, <1>2, <1>3, <1>6, Records

(* Closing the registry: Free, CloseRegistry and SweepNext.                *)
LEMMA ClosingCount ==
    ASSUME CountInv, Free \/ CloseRegistry \/ SweepNext
    PROVE  /\ CountInv' /\ CosStay /\ UNCHANGED jobs
           /\ \A t \in Threads : \/ op'[t] = op[t]
                                 \/ op[t].call = "idle" /\ op'[t].call = "cancel"
<1> USE DEF CountInv
<1>1. /\ UNCHANGED <<jobs, activeCount, nextId, queue, co, exec, epoch, disturbed, refs, fired>>
  BY DEF Free, CloseRegistry, SweepNext
<1>2. phase' \in Phases /\ sweep' \in Nat \ {0} /\ refs' \in [Ids -> Int]
  BY DEF Free, CloseRegistry, SweepNext, Typed, Phases
<1>3. /\ OpsTyped' /\ Callers'
      /\ \A t \in Threads : op'[t] = op[t] \/ (op[t].call = "idle" /\ op'[t].call = "cancel")
  <2>1. CASE UNCHANGED op
    <3>1. ExecutorDown' => op["host"].call = "idle"
      BY <2>1, Records DEF Free, CloseRegistry, SweepNext, ExecutorDown, Callers
    <3> QED
      BY <1>1, <2>1, <3>1, OpsUnchanged DEF Callers
  <2>2. CASE /\ sweep <= Capacity /\ phase = "sweep" /\ phase' = phase /\ op["host"] = Idle
             /\ op' = [op EXCEPT !["host"] = [Idle EXCEPT !.call = "cancel", !.slot = sweep]]
    <3> DEFINE o == [Idle EXCEPT !.call = "cancel", !.slot = sweep]
    <3>1. sweep \in Slots /\ "host" \in Threads
      BY <2>2, Sizes DEF Slots, Typed, Threads
    <3>2. o \in OpRec /\ o.call = "cancel" /\ o.slot = sweep
      <4>1. "cancel" \in OpCalls /\ sweep \in 0..Capacity
        BY <3>1, Sizes DEF OpCalls
      <4> QED
        BY <4>1, Sizes DEF Idle, OpRec
    <3> HIDE DEF o
    <3>3. OpsTyped' /\ op'["host"] = o /\ \A u \in Threads \ {"host"} : op'[u] = op[u]
      <4>1. op' = [op EXCEPT !["host"] = o]
        BY <2>2 DEF o
      <4> QED
        BY <3>1, <3>2, <4>1, OpsSet
    <3> QED
      BY <1>1, <2>2, <3>1, <3>2, <3>3, Records DEF Callers, ExecutorDown, Threads
  <2> QED
    BY <2>1, <2>2 DEF Free, CloseRegistry, SweepNext
<1>4. CosStay
  BY <1>1, CosSame
<1>5. /\ jobs' \in [Slots -> JobRec] /\ Flags' /\ ActiveExact' /\ activeCount' \in Nat
      /\ \A r \in Slots : jobs'[r] = jobs[r]
  BY <1>1, JobsSame
<1>6. CountInv'
  <2>1. \A u \in Threads : op[u].call = "submit" => op'[u] = op[u]
    BY <1>3
  <2>2. \A r \in Slots : jobs'[r].active => jobs[r].active
    BY <1>5
  <2> QED
    BY <1>1, <1>2, <1>3, <1>4, <1>5, <2>1, <2>2, AsideCount
<1> QED
  BY <1>1, <1>3, <1>4, <1>6

(* A rejected submission: the job has failed, its start goes on.           *)
LEMMA RejectCount ==
    ASSUME CountInv, NEW t \in Threads, op[t].call = "submit",
           jobs' = [jobs EXCEPT ![op[t].slot].active = FALSE, ![op[t].slot].state = "FAILED"],
           activeCount' = CountWithout(jobs[op[t].slot]),
           op' = [op EXCEPT ![t].call = "rejected"],
           UNCHANGED <<queue, nextId, co, exec, phase, sweep, epoch, disturbed, refs, fired>>
    PROVE  /\ CountInv' /\ CosStay /\ op[t].slot \in Slots
           /\ op'[t].call = "rejected" /\ op'[t].slot = op[t].slot /\ op'[t].id = op[t].id
           /\ op'[t].handle = op[t].handle
           /\ \A u \in Threads \ {t} : op'[u] = op[u]
           /\ \A r \in Slots \ {op[t].slot} : jobs'[r] = jobs[r]
           /\ \A r \in Slots : /\ jobs'[r].id = jobs[r].id /\ jobs'[r].kind = jobs[r].kind
                               /\ jobs'[r].callback = jobs[r].callback
                               /\ jobs'[r].cancelled = jobs[r].cancelled
                               /\ jobs'[r].awaitActive = jobs[r].awaitActive
                               /\ jobs'[r].handle = jobs[r].handle
<1> USE DEF CountInv
<1>0. PICK s \in Slots : s = op[t].slot
  BY DEF Typed
<1> DEFINE j == [jobs[s] EXCEPT !.active = FALSE, !.state = "FAILED"]
<1> DEFINE o == [op[t] EXCEPT !.call = "rejected"]
<1>1. jobs[s] \in JobRec /\ op[t] \in OpRec
  BY Facts
<1>2. /\ j \in JobRec /\ ~j.active /\ j.state \in Terminal /\ j.id = jobs[s].id
      /\ j.kind = jobs[s].kind /\ j.callback = jobs[s].callback
      /\ j.cancelled = jobs[s].cancelled
      /\ j.awaitActive = jobs[s].awaitActive /\ j.handle = jobs[s].handle
  BY <1>1 DEF JobRec, JobStates, Terminal
<1>3. /\ o \in OpRec /\ o.call = "rejected" /\ o.slot = s /\ o.id = op[t].id
      /\ o.handle = op[t].handle /\ op[t].id \in Ids
  BY <1>0, <1>1 DEF OpRec, OpCalls, Typed, Starting
<1>4. jobs' = [jobs EXCEPT ![s] = j] /\ op' = [op EXCEPT ![t] = o]
  BY <1>0
<1> HIDE DEF j, o
<1>5. jobs' \in [Slots -> JobRec] /\ jobs'[s] = j /\ \A r \in Slots \ {s} : jobs'[r] = jobs[r]
  BY <1>2, <1>4, JobWritten
<1>6. OpsTyped' /\ op'[t] = o /\ \A u \in Threads \ {t} : op'[u] = op[u]
  BY <1>3, <1>4, OpsSet
<1>7. Flags' /\ \A r \in Slots : jobs'[r].active => jobs[r].active
  BY <1>2, <1>5 DEF Flags
<1>8. ActiveExact' /\ activeCount' \in Nat
  BY <1>0, <1>2, <1>5, ActiveRemoved
<1>9. Callers'
  BY <1>6 DEF Callers, ExecutorDown, Threads
<1>10. CosStay
  BY CosSame
<1>11. CountInv'
  <2>1. \A u \in Threads : op[u].call = "submit" => op'[u] = op[u] \/ ~jobs'[op[u].slot].active
    BY <1>0, <1>2, <1>5, <1>6
  <2>2. phase' \in Phases /\ sweep' \in Nat \ {0} /\ refs' \in [Ids -> Int]
    BY DEF Typed
  <2> QED
    BY <1>5, <1>6, <1>7, <1>8, <1>9, <1>10, <2>1, <2>2, AsideCount
<1> QED
  BY <1>0, <1>2, <1>3, <1>5, <1>6, <1>10, <1>11

-----------------------------------------------------------------------------
(* Steps by which a timer takes, changes or leaves its place.              *)

LEMMA Dropped ==
    ASSUME Typed, NEW s \in Slots, DropCallback(s)
    PROVE  /\ refs' \in [Ids -> Int] /\ jobs' \in [Slots -> JobRec]
           /\ \A i \in Ids : refs'[i] = IF i = jobs[s].callback THEN refs[i] - 1 ELSE refs[i]
           /\ \A r \in Slots \ {s} : jobs'[r] = jobs[r]
           /\ \A r \in Slots : /\ jobs'[r].id = jobs[r].id /\ jobs'[r].kind = jobs[r].kind
                               /\ jobs'[r].state = jobs[r].state
                               /\ jobs'[r].active = jobs[r].active
                               /\ jobs'[r].cancelled = jobs[r].cancelled
                               /\ jobs'[r].awaitActive = jobs[r].awaitActive
                               /\ jobs'[r].handle = jobs[r].handle
           /\ jobs'[s].callback = 0
<1> DEFINE j == [jobs[s] EXCEPT !.callback = 0]
<1>1. jobs[s] \in JobRec /\ refs \in [Ids -> Int]
  BY Facts DEF Typed
<1>2. /\ j \in JobRec /\ j.callback = 0 /\ j.id = jobs[s].id /\ j.kind = jobs[s].kind
      /\ j.state = jobs[s].state /\ j.active = jobs[s].active /\ j.cancelled = jobs[s].cancelled
      /\ j.awaitActive = jobs[s].awaitActive /\ j.handle = jobs[s].handle
  BY <1>1, Sizes DEF JobRec
<1>3. jobs' = [jobs EXCEPT ![s] = j] /\ refs' = DropRefs(s)
  BY DEF DropCallback
<1> HIDE DEF j
<1>4. jobs' \in [Slots -> JobRec] /\ jobs'[s] = j /\ \A r \in Slots \ {s} : jobs'[r] = jobs[r]
  BY <1>2, <1>3, JobWritten
<1>5. /\ refs' \in [Ids -> Int]
      /\ \A i \in Ids : refs'[i] = IF i = jobs[s].callback THEN refs[i] - 1 ELSE refs[i]
  <2>1. CASE jobs[s].callback = 0
    BY <1>1, <1>3, <2>1, Sizes DEF DropRefs
  <2>2. CASE jobs[s].callback # 0
    <3>1. PICK b \in Ids : b = jobs[s].callback
      BY <1>1, <2>2, JobType, Sizes
    <3>2. refs' = [refs EXCEPT ![b] = refs[b] - 1] /\ refs[b] - 1 \in Int
      BY <1>1, <1>3, <2>2, <3>1 DEF DropRefs
    <3> QED
      BY <1>1, <3>1, <3>2
  <2> QED
    BY <2>1, <2>2
<1> QED
  BY <1>2, <1>4, <1>5

LEMMA RejectedCount ==
    ASSUME CountInv, NEW t \in Threads, Rejected(t)
    PROVE  /\ CountInv' /\ CosStay /\ op[t].slot \in Slots /\ DropCallback(op[t].slot)
           /\ op[t].call = "rejected" /\ op'[t].call = "idle"
           /\ \A u \in Threads \ {t} : op'[u] = op[u]
<1> USE DEF CountInv
<1>0. PICK s \in Slots : s = op[t].slot
  BY DEF Typed, Rejected
<1>1. /\ DropCallback(s) /\ op' = [op EXCEPT ![t] = Idle] /\ op[t].call = "rejected"
      /\ UNCHANGED <<activeCount, nextId, queue, co, exec, phase, sweep, epoch, disturbed, fired>>
  BY <1>0 DEF Rejected
<1>2. /\ refs' \in [Ids -> Int] /\ jobs' \in [Slots -> JobRec]
      /\ \A r \in Slots : /\ jobs'[r].state = jobs[r].state
                          /\ jobs'[r].active = jobs[r].active
                          /\ jobs'[r].cancelled = jobs[r].cancelled
  BY <1>1, Dropped
<1>3. Flags' /\ \A r \in Slots : jobs'[r].active => jobs[r].active
  BY <1>2 DEF Flags
<1>4. ActiveExact' /\ activeCount' \in Nat
  BY <1>1, <1>2, ActiveSame
<1>5. OpsTyped' /\ op'[t] = Idle /\ \A u \in Threads \ {t} : op'[u] = op[u]
  BY <1>1, Records, OpsSet
<1>6. Callers'
  BY <1>1, <1>5, Records DEF Callers, ExecutorDown, Threads
<1>7. CosStay
  BY <1>1, CosSame
<1>8. CountInv'
  <2>1. \A u \in Threads : op[u].call = "submit" => op'[u] = op[u]
    BY <1>1, <1>5
  <2>2. phase' \in Phases /\ sweep' \in Nat \ {0}
    BY <1>1 DEF Typed
  <2> QED
    BY <1>1, <1>2, <1>3, <1>4, <1>5, <1>6, <1>7, <2>1, <2>2, AsideCount
<1> QED
  BY <1>0, <1>1, <1>5, <1>7, <1>8, Records

LEMMA DropCount ==
    ASSUME CountInv, NEW c \in Cos, Drop(c)
    PROVE  /\ CountInv' /\ Live(c) /\ co[c].slot \in Slots /\ DropCallback(co[c].slot)
           /\ co[c].pc = "drop" /\ co[c].epoch = epoch
           /\ co'[c].pc = "none" /\ \A d \in Cos \ {c} : co'[d] = co[d]
<1> USE DEF CountInv
<1>0. Live(c) /\ co[c].pc = "drop" /\ op["worker"].call = "idle" /\ co[c].epoch = epoch
  BY Records DEF Drop, At, Live
<1>1. PICK s \in Slots : s = co[c].slot
  BY <1>0 DEF Typed
<1>2. /\ DropCallback(s) /\ co' = [co EXCEPT ![c] = NoCo] /\ exec' = 0
      /\ UNCHANGED <<activeCount, nextId, queue, op, phase, sweep, epoch, disturbed, fired>>
  BY <1>1 DEF Drop
<1>3. /\ refs' \in [Ids -> Int] /\ jobs' \in [Slots -> JobRec]
      /\ \A r \in Slots : /\ jobs'[r].state = jobs[r].state
                          /\ jobs'[r].active = jobs[r].active
                          /\ jobs'[r].cancelled = jobs[r].cancelled
  BY <1>2, Dropped
<1>4. Flags'
  BY <1>3 DEF Flags
<1>5. ActiveExact' /\ activeCount' \in Nat
  BY <1>2, <1>3, ActiveSame
<1>6. co' \in [Cos -> CoRec] /\ co'[c] = NoCo /\ \A d \in Cos \ {c} : co'[d] = co[d]
  BY <1>2, Records, CoWritten
<1>7. Typed'
  <2>1. \A d \in Cos : Live(d)' => co'[d].slot \in Slots /\ co'[d].id \in Ids
    BY <1>6, Records DEF Typed, Live
  <2>2. OpsTyped'
    BY <1>2, OpsUnchanged
  <2>3. exec' \in 0..Pool
    BY <1>2, Sizes
  <2> QED
    BY <1>2, <1>3, <1>5, <1>6, <2>1, <2>2, <2>3 DEF Typed, OpsTyped
<1>8. Callers'
  BY <1>0, <1>2 DEF Callers, ExecutorDown
<1>9. ActiveHeld'
  <2>1. \A d \in Cos : co[d].pc \notin {"none", "drop"} => co'[d] = co[d]
    BY <1>0, <1>6
  <2> QED
    BY <1>2, <1>3, <2>1 DEF ActiveHeld
<1> QED
  BY <1>0, <1>1, <1>2, <1>4, <1>5, <1>6, <1>7, <1>8, <1>9, Records

(* An accepted submission: the start is over, the queue holds the timer.   *)
LEMMA AcceptCount ==
    ASSUME CountInv, NEW t \in Threads, op[t].call = "submit",
           queue' = Append(queue, [slot |-> op[t].slot, id |-> op[t].id, epoch |-> epoch]),
           op' = [op EXCEPT ![t] = Idle],
           UNCHANGED <<jobs, activeCount, nextId, co, exec, phase, sweep, epoch, disturbed, refs, fired>>
    PROVE  /\ CountInv' /\ CosStay /\ op[t].slot \in Slots
           /\ Len(queue') = Len(queue) + 1
           /\ \A k \in 1..Len(queue) : queue'[k] = queue[k]
           /\ queue'[Len(queue) + 1].slot = op[t].slot
           /\ queue'[Len(queue) + 1].id = op[t].id
           /\ queue'[Len(queue) + 1].epoch = epoch
           /\ op'[t].call = "idle"
           /\ \A u \in Threads \ {t} : op'[u] = op[u]
<1> USE DEF CountInv
<1> DEFINE e == [slot |-> op[t].slot, id |-> op[t].id, epoch |-> epoch]
<1>1. op[t].slot \in Slots /\ op[t].id \in Ids
  BY DEF Typed, Starting
<1>2. e \in Entry /\ e.slot = op[t].slot /\ e.id = op[t].id /\ e.epoch = epoch
  BY <1>1 DEF Entry, Typed
<1> HIDE DEF e
<1>3. /\ queue' \in Seq(Entry) /\ Len(queue') = Len(queue) + 1
      /\ \A k \in 1..Len(queue) : queue'[k] = queue[k]
      /\ queue'[Len(queue) + 1] = e
  <2>1. queue \in Seq(Entry) /\ queue' = Append(queue, e)
    BY DEF Typed, e
  <2> HIDE DEF Entry
  <2> QED
    BY <1>2, <2>1
<1>4. OpsTyped' /\ op'[t] = Idle /\ \A u \in Threads \ {t} : op'[u] = op[u]
  BY Records, OpsSet
<1>5. CosStay
  BY CosSame
<1>6. Typed'
  <2>1. \A d \in Cos : Live(d)' => co'[d].slot \in Slots /\ co'[d].id \in Ids
    BY DEF Typed, Live
  <2> QED
    BY <1>3, <1>4, <2>1 DEF Typed, OpsTyped
<1>7. Flags' /\ ActiveExact'
  BY JobsSame
<1>8. Callers'
  BY <1>4, Records DEF Callers, ExecutorDown, Threads
<1>9. ActiveHeld'
  <2> SUFFICES ASSUME NEW r \in Slots, jobs[r].active
               PROVE  \/ \E i \in 1..Len(queue') : queue'[i].slot = r
                      \/ \E d \in Cos : co[d].pc \notin {"none", "drop"} /\ co[d].slot = r
                      \/ \E u \in Threads : op'[u].call = "submit" /\ op'[u].slot = r
    BY DEF ActiveHeld
  <2>1. /\ Len(queue) \in Nat /\ Len(queue) + 1 \in 1..Len(queue')
        /\ \A k \in 1..Len(queue) : k \in 1..Len(queue')
    BY <1>3, Facts
  <2>2. CASE \E i \in 1..Len(queue) : queue[i].slot = r
    BY <1>3, <2>1, <2>2
  <2>3. CASE \E u \in Threads : op[u].call = "submit" /\ op[u].slot = r
    BY <1>2, <1>3, <1>4, <2>1, <2>3
  <2> QED
    BY <2>2, <2>3 DEF ActiveHeld
<1> QED
  BY <1>1, <1>2, <1>3, <1>4, <1>5, <1>6, <1>7, <1>8, <1>9, Records

(* The executor starts the first submission of the queue.                  *)
LEMMA BeginCount ==
    ASSUME CountInv, NEW c \in Cos, NEW pc \in {"loop", "cancelled"}, Begin(c, pc)
    PROVE  /\ CountInv' /\ ~Live(c)
           /\ Len(queue) \in Nat \ {0} /\ Len(queue') = Len(queue) - 1
           /\ \A k \in 1..Len(queue') : queue'[k] = queue[k + 1] /\ k + 1 \in 1..Len(queue)
           /\ \A k \in 1..Len(queue) : k # 1 => k - 1 \in 1..Len(queue')
           /\ co'[c].pc = pc /\ co'[c].slot = queue[1].slot /\ co'[c].id = queue[1].id
           /\ co'[c].epoch = queue[1].epoch
           /\ \A d \in Cos \ {c} : co'[d] = co[d]
           /\ UNCHANGED <<jobs, op>>
<1> USE DEF CountInv
<1>1. /\ exec = 0 /\ queue # <<>> /\ queue' = Tail(queue) /\ exec' = c /\ ~Live(c)
      /\ UNCHANGED <<jobs, activeCount, nextId, op, phase, sweep, epoch, disturbed, refs, fired>>
  BY DEF Begin, FreeCo, Live
<1>2. /\ Len(queue) \in Nat \ {0} /\ Len(queue') = Len(queue) - 1 /\ Head(queue) = queue[1]
      /\ \A k \in 1..Len(queue') : queue'[k] = queue[k + 1] /\ k + 1 \in 1..Len(queue)
      /\ queue' \in Seq(Entry) /\ queue[1] \in Entry
  <2>1. queue \in Seq(Entry)
    BY DEF Typed
  <2> HIDE DEF Entry
  <2> QED
    BY <1>1, <2>1
<1>3. \A k \in 1..Len(queue) : k # 1 => k - 1 \in 1..Len(queue')
  BY <1>2
<1> DEFINE n == [pc |-> pc, slot |-> queue[1].slot, id |-> queue[1].id,
                 epoch |-> queue[1].epoch, woken |-> FALSE]
<1>4. /\ n \in CoRec /\ n.pc = pc /\ n.slot = queue[1].slot /\ n.id = queue[1].id
      /\ n.epoch = queue[1].epoch
  <2>1. /\ queue[1].slot \in 0..Capacity /\ queue[1].id \in 0..MaxId /\ queue[1].epoch \in Nat
        /\ pc \in Pcs
    BY <1>2, EntryType, Sizes DEF Pcs
  <2> QED
    BY <2>1 DEF CoRec
<1>5. co' = [co EXCEPT ![c] = n]
  BY <1>2 DEF Begin
<1> HIDE DEF n
<1>6. co' \in [Cos -> CoRec] /\ co'[c] = n /\ \A d \in Cos \ {c} : co'[d] = co[d]
  BY <1>4, <1>5, CoWritten
<1>7. op["worker"].call = "idle"
  BY <1>1 DEF Callers
<1>8. Typed'
  <2>1. \A d \in Cos : Live(d)' => co'[d].slot \in Slots /\ co'[d].id \in Ids
    BY <1>2, <1>4, <1>6, EntryType DEF Typed, Live
  <2>2. OpsTyped'
    BY <1>1, OpsUnchanged
  <2>3. exec' \in 0..Pool
    BY <1>1, Sizes
  <2> QED
    BY <1>1, <1>2, <1>6, <2>1, <2>2, <2>3 DEF Typed, OpsTyped
<1>9. Flags' /\ ActiveExact'
  BY <1>1, JobsSame
<1>10. Callers'
  BY <1>1, <1>7 DEF Callers, ExecutorDown
<1>11. ActiveHeld'
  <2> SUFFICES ASSUME NEW r \in Slots, jobs[r].active
               PROVE  \/ \E i \in 1..Len(queue') : queue'[i].slot = r
                      \/ \E d \in Cos : co'[d].pc \notin {"none", "drop"} /\ co'[d].slot = r
                      \/ \E u \in Threads : op[u].call = "submit" /\ op[u].slot = r
    BY <1>1 DEF ActiveHeld
  <2>1. CASE \E i \in 1..Len(queue) : queue[i].slot = r
    <3>1. PICK i \in 1..Len(queue) : queue[i].slot = r
      BY <2>1
    <3>2. CASE i = 1
      BY <1>4, <1>6, <3>1, <3>2
    <3>3. CASE i # 1
      <4>1. i - 1 \in 1..Len(queue') /\ (i - 1) + 1 = i
        BY <1>2, <1>3, <3>3
      <4> QED
        BY <1>2, <3>1, <4>1
    <3> QED
      BY <3>2, <3>3
  <2>2. CASE \E d \in Cos : co[d].pc \notin {"none", "drop"} /\ co[d].slot = r
    BY <1>1, <1>6, <2>2 DEF Live
  <2> QED
    BY <2>1, <2>2 DEF ActiveHeld
<1> QED
  BY <1>1, <1>2, <1>3, <1>4, <1>6, <1>8, <1>9, <1>10, <1>11

(* Only real timers use slots.                                             *)
LEMMA HolderIdsType ==
    ASSUME Typed, NEW S
    PROVE  HolderIds(S) \subseteq Ids
<1>1. \A h \in Held : h.id \in Ids
  BY Facts, EntryType DEF Held, Typed, Live
<1> QED
  BY <1>1 DEF HolderIds, Typed, Starting

(* A start takes a slot whose job has ended.                               *)
LEMMA StartCount ==
    ASSUME CountInv, NEW t \in Threads, NEW kind \in Kinds, Start(t, kind)
    PROVE  \E s \in Slots :
               /\ CountInv' /\ nextId' = nextId + 1 /\ nextId' \in Ids
               /\ jobs'[s].id = nextId' /\ jobs'[s].callback = nextId' /\ jobs'[s].kind = kind
               /\ ~jobs'[s].cancelled
               /\ \A r \in Slots \ {s} : jobs'[r] = jobs[r]
               /\ disturbed' = IF HolderIds({s}) = {} THEN disturbed
                               ELSE disturbed \cup HolderIds({s}) \cup {nextId + 1}
               /\ op[t].call = "idle" /\ op'[t].call = "submit"
               /\ op'[t].slot = s /\ op'[t].id = nextId'
               /\ \A u \in Threads \ {t} : op'[u] = op[u]
               /\ \A i \in Ids : refs'[i] = IF i = nextId' THEN refs[i] + 1 ELSE refs[i]
               /\ UNCHANGED <<queue, co, exec, phase, sweep, epoch, fired>>
<1> USE DEF CountInv
<1> DEFINE n == nextId + 1
<1> DEFINE j == [EmptyJob EXCEPT !.id = n, !.kind = kind, !.callback = n, !.active = TRUE,
                                 !.state = "SCHEDULED"]
<1>1. PICK s \in Slots :
          /\ jobs[s].state \in Terminal
          /\ jobs' = [jobs EXCEPT ![s] = j]
          /\ disturbed' = IF HolderIds({s}) = {} THEN disturbed
                          ELSE disturbed \cup HolderIds({s}) \cup {n}
          /\ op' = [op EXCEPT ![t] = [Idle EXCEPT !.call = "submit", !.slot = s, !.id = n]]
  BY DEF Start
<1> DEFINE o == [Idle EXCEPT !.call = "submit", !.slot = s, !.id = n]
<1>2. /\ nextId' = n /\ refs' = [refs EXCEPT ![n] = @ + 1] /\ activeCount' = activeCount + 1
      /\ nextId < MaxId /\ op[t].call = "idle"
      /\ IF t = "host" THEN phase = "open" ELSE exec # 0 /\ co[exec].pc = "callback"
      /\ UNCHANGED <<queue, co, exec, phase, sweep, epoch, fired>>
  BY Records DEF Start, InScript
<1>3. n \in Ids /\ n \in 0..MaxId /\ nextId \in Nat
  BY <1>2, Sizes DEF Ids, Typed
<1> HIDE DEF n
<1>4. /\ j \in JobRec /\ j.id = n /\ j.kind = kind /\ j.callback = n /\ j.active
      /\ j.state = "SCHEDULED" /\ ~j.cancelled
  <2>1. kind \in {"after", "every", "cron"}
    BY KindsAssumption
  <2> QED
    BY <1>3, <2>1, Sizes DEF EmptyJob, JobRec, JobStates
<1>5. o \in OpRec /\ o.call = "submit" /\ o.slot = s /\ o.id = n
  <2>1. "submit" \in OpCalls /\ s \in 0..Capacity
    BY Sizes DEF OpCalls
  <2> QED
    BY <1>3, <2>1, Sizes DEF Idle, OpRec
<1>6. jobs' = [jobs EXCEPT ![s] = j] /\ op' = [op EXCEPT ![t] = o]
  BY <1>1
<1> HIDE DEF j, o
<1>7. jobs' \in [Slots -> JobRec] /\ jobs'[s] = j /\ \A r \in Slots \ {s} : jobs'[r] = jobs[r]
  BY <1>4, <1>6, JobWritten
<1>8. OpsTyped' /\ op'[t] = o /\ \A u \in Threads \ {t} : op'[u] = op[u]
  BY <1>3, <1>5, <1>6, OpsSet
<1>9. /\ refs' \in [Ids -> Int]
      /\ \A i \in Ids : refs'[i] = IF i = n THEN refs[i] + 1 ELSE refs[i]
  BY <1>2, <1>3 DEF Typed
<1>10. ActiveExact' /\ activeCount' \in Nat
  <2>1. ~jobs[s].active
    BY <1>1 DEF Flags
  <2> QED
    BY <1>2, <1>4, <1>7, <2>1, ActiveAdded
<1>11. disturbed' \in SUBSET Ids
  <2>1. HolderIds({s}) \subseteq Ids
    BY HolderIdsType
  <2> QED
    BY <1>1, <1>3, <2>1 DEF Typed
<1>12. Typed'
  <2>1. \A d \in Cos : Live(d)' => co'[d].slot \in Slots /\ co'[d].id \in Ids
    BY <1>2 DEF Typed, Live
  <2> QED
    BY <1>2, <1>3, <1>7, <1>8, <1>9, <1>10, <1>11, <2>1 DEF Typed, OpsTyped
<1>13. Flags'
  BY <1>4, <1>7 DEF Flags, Terminal
<1>14. Callers'
  BY <1>2, <1>8 DEF Callers, ExecutorDown, Threads
<1>15. ActiveHeld'
  <2> SUFFICES ASSUME NEW r \in Slots, jobs'[r].active
               PROVE  \/ \E i \in 1..Len(queue) : queue[i].slot = r
                      \/ \E d \in Cos : co[d].pc \notin {"none", "drop"} /\ co[d].slot = r
                      \/ \E u \in Threads : op'[u].call = "submit" /\ op'[u].slot = r
    BY <1>2 DEF ActiveHeld
  <2>1. CASE r = s
    BY <1>5, <1>8, <2>1
  <2>2. CASE r # s
    <3>1. jobs[r].active
      BY <1>7, <2>2
    <3>2. \A u \in Threads : op[u].call = "submit" => op'[u] = op[u]
      BY <1>2, <1>8
    <3> QED
      BY <3>1, <3>2 DEF ActiveHeld
  <2> QED
    BY <2>1, <2>2
<1>16. CountInv'
  BY <1>10, <1>12, <1>13, <1>14, <1>15
<1> QED
  BY <1>1, <1>2, <1>3, <1>4, <1>5, <1>7, <1>8, <1>9, <1>16 DEF n

(* The jobs are freed: Resize and Drained.                                 *)
LEMMA DropAllTyped ==
    ASSUME Typed
    PROVE  /\ DropAll \in [Ids -> Int]
           /\ \A i \in Ids : (\A s \in Slots : jobs[s].callback # i) => DropAll[i] = refs[i]
<1>1. refs \in [Ids -> Int]
  BY DEF Typed
<1>2. \A i \in Ids : Cardinality({s \in Slots : jobs[s].callback = i}) \in Nat
  <2>1. IsFiniteSet(Slots)
    BY Sizes, FS_Interval DEF Slots
  <2>2. \A i \in Ids : IsFiniteSet({s \in Slots : jobs[s].callback = i})
    BY <2>1, FS_Subset
  <2> QED
    BY <2>2, FS_CardinalityType
<1>3. ASSUME NEW i \in Ids, \A s \in Slots : jobs[s].callback # i
      PROVE  Cardinality({s \in Slots : jobs[s].callback = i}) = 0
  <2>1. {s \in Slots : jobs[s].callback = i} = {}
    BY <1>3
  <2> QED
    BY <2>1, FS_EmptySet
<1> QED
  BY <1>1, <1>2, <1>3 DEF DropAll

LEMMA FreshCount ==
    ASSUME CountInv, jobs' = [s \in Slots |-> EmptyJob], refs' = DropAll, activeCount = 0,
           epoch' \in Nat, disturbed' \in SUBSET Ids, phase' \in Phases, Callers',
           UNCHANGED <<activeCount, nextId, queue, co, exec, op, sweep, fired>>
    PROVE  CountInv'
<1> USE DEF CountInv
<1>1. ActiveExact' /\ jobs' \in [Slots -> JobRec] /\ Flags'
  BY AllFresh
<1>2. Typed'
  <2>1. \A d \in Cos : Live(d)' => co'[d].slot \in Slots /\ co'[d].id \in Ids
    BY DEF Typed, Live
  <2>2. OpsTyped'
    BY OpsUnchanged
  <2> QED
    BY <1>1, <2>1, <2>2, DropAllTyped DEF Typed, OpsTyped
<1>3. ActiveHeld'
  <2>1. \A s \in Slots : ~jobs'[s].active
    BY Records
  <2> QED
    BY <2>1 DEF ActiveHeld
<1> QED
  BY <1>1, <1>2, <1>3

LEMMA ResizeCount ==
    ASSUME CountInv, Resize
    PROVE  CountInv'
<1>1. disturbed' \in SUBSET Ids
  BY HolderIdsType DEF Resize, CountInv, Typed
<1>2. Callers' /\ epoch' \in Nat /\ phase' \in Phases
  BY DEF Resize, CountInv, Callers, ExecutorDown, Typed
<1> QED
  BY <1>1, <1>2, FreshCount DEF Resize

LEMMA DrainedCount ==
    ASSUME CountInv, Drained
    PROVE  CountInv'
<1>1. \A s \in Slots : ~jobs[s].active
  <2>1. op["worker"].call = "idle" /\ op["host"].call = "idle"
    <3>1. exec # 0 => co[exec].pc = "none"
      BY Facts DEF Drained, CountInv
    <3> QED
      BY <3>1 DEF Drained, CountInv, Callers, ExecutorDown
  <2>2. \A k \in 1..Len(queue) : FALSE
    BY DEF Drained
  <2> QED
    BY <2>1, <2>2 DEF Drained, CountInv, ActiveHeld, Threads
<1>2. activeCount = 0
  BY <1>1, NoneActive DEF CountInv
<1>3. Callers' /\ epoch' \in Nat /\ phase' \in Phases /\ disturbed' \in SUBSET Ids
  BY DEF Drained, CountInv, Callers, ExecutorDown, Typed, Phases
<1> QED
  BY <1>2, <1>3, FreshCount DEF Drained

-----------------------------------------------------------------------------
(* The count is exact.                                                     *)

LEMMA InitCount == Init => CountInv
<1> SUFFICES ASSUME Init PROVE CountInv
  OBVIOUS
<1> USE DEF Init
<1>1. Typed
  <2>1. /\ jobs \in [Slots -> JobRec] /\ co \in [Cos -> CoRec] /\ op \in [Threads -> OpRec]
        /\ \A c \in Cos : ~Live(c)
        /\ \A t \in Threads : op[t].call = "idle"
    BY Records DEF Live
  <2>2. nextId \in 0..MaxId /\ exec \in 0..Pool /\ phase \in Phases /\ queue \in Seq(Entry)
    BY Sizes DEF Phases
  <2>3. refs \in [Ids -> Int] /\ fired \in [Ids -> 0..MaxFired]
    BY DEF MaxFired
  <2> QED
    BY <2>1, <2>2, <2>3 DEF Typed, Starting
<1>2. Flags /\ ActiveHeld
  BY Records DEF Flags, ActiveHeld
<1>3. Callers
  BY Records DEF Callers, ExecutorDown, Threads
<1>4. ActiveExact
  <2>1. {s \in Slots : jobs[s].active} = {}
    BY Records
  <2> QED
    BY <2>1, FS_EmptySet DEF ActiveExact
<1> QED
  BY <1>1, <1>2, <1>3, <1>4 DEF CountInv

(* What a submission does.                                                 *)
LEMMA SubmitCases ==
    ASSUME NEW t \in Threads, Submit(t)
    PROVE  /\ op[t].call = "submit"
           /\ \/ /\ queue' = Append(queue, [slot |-> op[t].slot, id |-> op[t].id, epoch |-> epoch])
                 /\ op' = [op EXCEPT ![t] = Idle]
                 /\ UNCHANGED <<jobs, activeCount, nextId, co, exec, phase, sweep, epoch,
                                disturbed, refs, fired>>
              \/ /\ jobs' = [jobs EXCEPT ![op[t].slot].active = FALSE, ![op[t].slot].state = "FAILED"]
                 /\ activeCount' = CountWithout(jobs[op[t].slot])
                 /\ op' = [op EXCEPT ![t].call = "rejected"]
                 /\ UNCHANGED <<queue, nextId, co, exec, phase, sweep, epoch, disturbed, refs, fired>>
BY DEF Submit

LEMMA CallCount ==
    ASSUME CountInv, NEW t \in Threads, Complete(t)
    PROVE  CountInv'
<1>1. CASE Submit(t)
  BY <1>1, SubmitCases, AcceptCount, RejectCount
<1> QED
  BY <1>1, RejectedCount, RequestCancelCount, WakeCount DEF Complete

LEMMA CoCount ==
    ASSUME CountInv, NEW c \in Cos,
           Step(c) \/ ResumeWait(c) \/ \E failed \in BOOLEAN : AfterCallback(c, failed)
    PROVE  CountInv'
<1>0. ASSUME Live(c)
      PROVE  jobs[co[c].slot] \in JobRec
  BY <1>0, AtFacts DEF CountInv
<1>1. CASE Loop(c)
  BY <1>0, <1>1, LoopIs, CoStepCount DEF CoStep
<1>2. CASE BeginWait(c)
  BY <1>2, BeginWaitIs, CoStepCount
<1>3. CASE Fire(c)
  BY <1>3, FireIs, CoStepCount
<1>4. CASE Done(c)
  BY <1>4, DoneIs, CoStepCount
<1>5. CASE Drop(c)
  BY <1>5, DropCount
<1>6. CASE ResumeWait(c)
  BY <1>6, ResumeWaitIs, CoStepCount
<1>7. ASSUME NEW failed \in BOOLEAN, AfterCallback(c, failed)
      PROVE  CountInv'
  BY <1>0, <1>7, AfterCallbackIs, CoStepCount DEF CoStep
<1> QED
  BY <1>1, <1>2, <1>3, <1>4, <1>5, <1>6, <1>7 DEF Step

LEMMA NextCount == CountInv /\ [Next]_vars => CountInv'
<1> SUFFICES ASSUME CountInv, [Next]_vars PROVE CountInv'
  OBVIOUS
<1>1. ASSUME NEW t \in Threads, NEW kind \in Kinds, Start(t, kind)
      PROVE  CountInv'
  BY <1>1, StartCount
<1>2. ASSUME NEW t \in Threads, NEW id \in Ids, Cancel(t, id)
      PROVE  CountInv'
  BY <1>2, CancelCount
<1>3. ASSUME NEW t \in Threads, Complete(t)
      PROVE  CountInv'
  BY <1>3, CallCount
<1>4. ASSUME NEW c \in Cos, Run(c) \/ CancelQueued(c)
      PROVE  CountInv'
  BY <1>4, BeginCount DEF Run, CancelQueued
<1>5. ASSUME NEW c \in Cos,
             Step(c) \/ ResumeWait(c) \/ \E failed \in BOOLEAN : AfterCallback(c, failed)
      PROVE  CountInv'
  BY <1>5, CoCount
<1>6. CASE Resize
  BY <1>6, ResizeCount
<1>7. CASE Free \/ CloseRegistry \/ SweepNext
  BY <1>7, ClosingCount
<1>8. CASE Drained
  BY <1>8, DrainedCount
<1>9. CASE UNCHANGED vars
  BY <1>9 DEF vars, CountInv, Typed, Flags, Callers, ActiveHeld, ActiveExact, Live, Starting, ExecutorDown
<1> QED
  BY <1>1, <1>2, <1>3, <1>4, <1>5, <1>6, <1>7, <1>8, <1>9 DEF Next, Teardown

LEMMA CountAlways == Spec => []CountInv
BY InitCount, NextCount, PTL DEF Spec

(* active_count is the number of active jobs in every reachable state: also   *)
(* when coroutines meet in a slot, when a cancellation races with the end of  *)
(* the job, and after the jobs were freed.                                    *)
THEOREM TimerCountExact == Spec => []ActiveExact
<1>1. CountInv => ActiveExact
  BY DEF CountInv
<1> QED
  BY <1>1, CountAlways, PTL

=============================================================================
