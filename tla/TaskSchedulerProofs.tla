------------------------ MODULE TaskSchedulerProofs ------------------------
(***************************************************************************)
(* The safety properties of TaskScheduler for any capacities, queue, pool  *)
(* of coroutines and number of tasks, under the discipline the registry    *)
(* asks of scripts: reset_job runs after the unlock, so a second thread    *)
(* must not release, or take, the slot meanwhile.                          *)
(***************************************************************************)
EXTENDS TaskScheduler, FiniteSetTheorems, WellFoundedInduction, TLAPS

(* Only one thread releases tasks; and either only one thread spawns them  *)
(* or the executor's queue has room for a submission of every slot, as it  *)
(* has for the default capacity (64 slots, 256 submissions).               *)
OneReleaser == "release" \notin Calls["host"] \/ "release" \notin Calls["worker"]
OneSpawner == "spawn" \notin Calls["host"] \/ "spawn" \notin Calls["worker"]
RoomForAll == \A n \in Capacities : n <= QueueCap
Discipline == OneReleaser /\ (OneSpawner \/ RoomForAll)

-----------------------------------------------------------------------------
(* The inductive invariant.                                                *)

Job == [id : 0..MaxId, state : JobStates, active : BOOLEAN, cancelled : BOOLEAN,
        awaitActive : BOOLEAN, handle : 0..Pool,
        blame : {"nobody", "self", "other"}, requested : 0..MaxId]

Live(c) == co[c].pc # "none"

(* What holds of a slot from its spawn to its finish.                      *)
Borrowed(s, id) ==
    /\ s \in Slots
    /\ jobs[s].id = id /\ jobs[s].active
    /\ jobs[s].state \notin Terminal \cup {"EMPTY"}

Sizes == Len(jobs) \in Capacities /\ sweep \in Nat \ {0}

(* What a call that has released the mutex relies on.                      *)
OpOK(t) ==
    /\ op[t].call \in {"submit", "rejected", "release", "cancel"} => op[t].slot \in Slots
    /\ op[t].call = "submit" =>
          /\ op[t].id \in Ids /\ "spawn" \in Calls[t]
          /\ Borrowed(op[t].slot, op[t].id)
    /\ op[t].call = "rejected" =>
          /\ ~jobs[op[t].slot].active /\ jobs[op[t].slot].state \notin Terminal
          /\ Closing \/ \A u \in Threads \ {t} : "spawn" \notin Calls[u]
    /\ op[t].call = "release" =>
          /\ ~jobs[op[t].slot].active /\ jobs[op[t].slot].state # "EMPTY"
          /\ "release" \in Calls[t]
OpsOK == \A t \in Threads : OpOK(t)

(* The worker is inside a call only while it executes a callback, and the  *)
(* host is in none once the executor is down.                              *)
CallersOK ==
    /\ op["worker"].call # "idle" => exec # 0 /\ co[exec].pc = "run"
    /\ ExecutorDown => op["host"].call = "idle"

HoldersOK ==
    /\ \A i \in 1..Len(queue) : Borrowed(queue[i].slot, queue[i].id)
    /\ \A c \in Cos : Live(c) => Borrowed(co[c].slot, co[c].id)

(* No slot is used by two of: a queued submission, a coroutine, a call.    *)
Apart ==
    /\ \A i, j \in 1..Len(queue) : queue[i].slot = queue[j].slot => i = j
    /\ \A c, d \in Cos : (Live(c) /\ Live(d) /\ co[c].slot = co[d].slot) => c = d
    /\ \A i \in 1..Len(queue), c \in Cos : Live(c) => queue[i].slot # co[c].slot
    /\ \A t \in Threads : op[t].call = "submit" =>
          /\ \A i \in 1..Len(queue) : queue[i].slot # op[t].slot
          /\ \A c \in Cos : Live(c) => co[c].slot # op[t].slot
    /\ \A t, u \in Threads :
          ({op[t].call, op[u].call} \subseteq {"submit", "rejected", "release"}
           /\ op[t].slot = op[u].slot) => t = u

(* An active job will be finished by somebody.                             *)
ActiveHeld ==
    \A s \in Slots : jobs[s].active =>
        \/ \E i \in 1..Len(queue) : queue[i].slot = s
        \/ \E c \in Cos : Live(c) /\ co[c].slot = s
        \/ \E t \in Threads : op[t].call = "submit" /\ op[t].slot = s

(* ts_task_current_job, and what a waiting function took from it.          *)
CurrentOK ==
    /\ current # 0 => \E c \in Cos : Live(c) /\ co[c].slot = current
    /\ \A c \in Cos : co[c].pc \in {"yield", "join", "await"} => co[c].self # 0

SlotsInv == Sizes /\ OpsOK /\ CallersOK /\ HoldersOK /\ Apart /\ ActiveHeld /\ CurrentOK

IInv == TypeOK /\ SlotsInv /\ ActiveExact

(* A coroutine that runs nothing and a thread inside no call name no slot, *)
(* which the registry may not have any more after turbo_script_set_task_   *)
(* capacity.                                                               *)
Unused ==
    /\ \A c \in Cos : co[c].pc = "none" => co[c].slot = 0 /\ co[c].self = 0
    /\ \A t \in Threads : op[t].call = "idle" => op[t].slot = 0

-----------------------------------------------------------------------------
(* Lemmas about the registry.                                              *)

(* A function that agrees with a sequence on the domain is a sequence of   *)
(* the same length.                                                        *)
LEMMA SameLength ==
    ASSUME NEW T, NEW q \in Seq(T), NEW f, f = [s \in DOMAIN q |-> f[s]],
           \A s \in DOMAIN q : f[s] \in T
    PROVE  f \in Seq(T) /\ Len(f) = Len(q)
<1>1. Len(q) \in Nat /\ DOMAIN q = 1..Len(q)
  OBVIOUS
<1>2. f \in [1..Len(q) -> T]
  BY <1>1
<1> QED
  BY <1>1, <1>2

LEMMA SlotsAre ==
    ASSUME TypeOK
    PROVE  /\ jobs \in Seq(Job) /\ Len(jobs) \in Nat /\ Slots = 1..Len(jobs)
           /\ \A s \in Slots : jobs[s] \in Job
<1>1. jobs \in Seq(Job)
  BY DEF TypeOK, Job
<1> QED
  BY <1>1 DEF Slots

(* Writing one slot.                                                       *)
LEMMA SlotWritten ==
    ASSUME TypeOK, NEW s \in Slots, NEW j \in Job
    PROVE  LET js == [jobs EXCEPT ![s] = j]
           IN  /\ js \in Seq(Job) /\ Len(js) = Len(jobs) /\ DOMAIN js = Slots
               /\ js[s] = j /\ \A r \in Slots \ {s} : js[r] = jobs[r]
<1> DEFINE js == [jobs EXCEPT ![s] = j]
<1>1. js = [r \in Slots |-> js[r]] /\ \A r \in Slots : js[r] \in Job
  BY SlotsAre DEF Slots
<1>2. js \in Seq(Job) /\ Len(js) = Len(jobs)
  BY <1>1, SameLength, SlotsAre DEF Slots
<1> QED
  BY <1>1, <1>2 DEF Slots

(* fail() touches only the error of the current job.                       *)
SameBut(j, k) ==
    /\ k.id = j.id /\ k.state = j.state /\ k.active = j.active /\ k.cancelled = j.cancelled
    /\ k.awaitActive = j.awaitActive /\ k.handle = j.handle /\ k.requested = j.requested

LEMMA FailEffect ==
    ASSUME TypeOK, NEW js \in Seq(Job), Len(js) = Len(jobs), NEW c, FailWith(js, c)
    PROVE  /\ jobs' \in Seq(Job) /\ Len(jobs') = Len(jobs) /\ Slots' = Slots
           /\ \A s \in Slots : SameBut(js[s], jobs'[s])
           /\ rootAborted' \in BOOLEAN
<1>1. DOMAIN js = Slots /\ Slots = 1..Len(jobs)
  BY SlotsAre DEF Slots
<1>2. /\ jobs' = [s \in Slots |-> jobs'[s]] 
      /\ \A s \in Slots : SameBut(js[s], jobs'[s]) /\ jobs'[s] \in Job
  <2>1. CASE current = 0
    BY <1>1, <2>1 DEF FailWith, SameBut
  <2>2. CASE current # 0
    <3> DEFINE b == IF current = co[c].slot /\ js[current].blame # "other" THEN "self" ELSE "other"
    <3>1. jobs' = [js EXCEPT ![current].blame = b]
      BY <2>2 DEF FailWith
    <3>2. b \in {"nobody", "self", "other"}
      OBVIOUS
    <3> HIDE DEF b
    <3>3. \A s \in Slots : js[s] \in Job
      BY <1>1
    <3> QED
      BY <1>1, <3>1, <3>2, <3>3 DEF SameBut, Job
  <2> QED
    BY <2>1, <2>2
<1>3. jobs' \in Seq(Job) /\ Len(jobs') = Len(js)
  BY <1>1, <1>2, SameLength
<1>4. rootAborted' \in BOOLEAN
  BY DEF FailWith, TypeOK
<1> QED
  BY <1>1, <1>2, <1>3, <1>4 DEF Slots

(* Steps that move no slot from one user to another.                       *)

JobsKept ==
    /\ jobs' \in Seq(Job) /\ Len(jobs') = Len(jobs) /\ Slots' = Slots
    /\ \A s \in Slots :
          /\ jobs'[s].id = jobs[s].id /\ jobs'[s].active = jobs[s].active
          /\ jobs'[s].state \in Terminal => jobs[s].state \in Terminal
          /\ jobs'[s].state = "EMPTY" => jobs[s].state = "EMPTY"

CosKept ==
    \A c \in Cos : /\ co'[c].pc = "none" <=> co[c].pc = "none"
                   /\ co'[c].slot = co[c].slot /\ co'[c].id = co[c].id

OpsKept ==
    \A t \in Threads :
        \/ op'[t].call = op[t].call /\ op'[t].slot = op[t].slot /\ op'[t].id = op[t].id
        \/ /\ op[t].call # "submit"
           /\ \/ op'[t].call \in {"idle", "wake"}
              \/ op'[t].call = "cancel" /\ op'[t].slot \in Slots

Kept ==
    /\ JobsKept /\ CosKept /\ OpsKept
    /\ queue' = queue /\ activeCount' = activeCount /\ current' = current
    /\ Closing => Closing'

LEMMA JobsUnchanged ==
    ASSUME TypeOK, UNCHANGED jobs
    PROVE  JobsKept
BY SlotsAre DEF JobsKept, Slots

(* Such a step keeps the slots' users apart and the count exact.           *)
LEMMA KeptInv ==
    ASSUME IInv, Kept
    PROVE  /\ OpsOK' /\ HoldersOK' /\ Apart' /\ ActiveHeld' /\ ActiveExact'
           /\ Len(jobs') \in Capacities
           /\ current' # 0 => \E c \in Cos : Live(c)' /\ co'[c].slot = current'
<1> USE DEF IInv, SlotsInv, Kept
<1>1. Slots' = Slots /\ \A s \in Slots : \A id : Borrowed(s, id) => Borrowed(s, id)'
  BY DEF JobsKept, Borrowed
<1>2. \A c \in Cos : Live(c)' <=> Live(c)
  BY DEF CosKept, Live
<1>3. OpsOK'
  <2> SUFFICES ASSUME NEW t \in Threads
               PROVE  OpOK(t)'
    BY DEF OpsOK
  <2> USE DEF OpOK
  <2>1. CASE op'[t].call = op[t].call /\ op'[t].slot = op[t].slot /\ op'[t].id = op[t].id
    BY <1>1, <2>1 DEF OpsOK, JobsKept, Borrowed
  <2>2. CASE op'[t].call \in {"idle", "wake"}
    BY <2>2
  <2>3. CASE op'[t].call = "cancel" /\ op'[t].slot \in Slots
    BY <1>1, <2>3
  <2> QED
    BY <2>1, <2>2, <2>3 DEF OpsKept
<1>4. HoldersOK'
  BY <1>1, <1>2 DEF HoldersOK, CosKept, Borrowed
<1>5. Apart'
  BY <1>2 DEF Apart, CosKept, OpsKept
<1>6. ActiveHeld'
  BY <1>1, <1>2 DEF ActiveHeld, JobsKept, CosKept, OpsKept, OpsOK, Borrowed
<1>7. ActiveExact'
  <2>1. {s \in Slots' : jobs'[s].active} = {s \in Slots : jobs[s].active}
    BY <1>1 DEF JobsKept
  <2> QED
    BY <2>1 DEF ActiveExact
<1>8. current' # 0 => \E c \in Cos : Live(c)' /\ co'[c].slot = current'
  BY <1>2 DEF CurrentOK, CosKept
<1> QED
  BY <1>3, <1>4, <1>5, <1>6, <1>7, <1>8 DEF JobsKept, Sizes

CoRec == [pc : Pcs, slot : SlotOrNone, id : 0..MaxId, self : SlotOrNone, join : 0..MaxId,
          woken : BOOLEAN, calls : 0..MaxCalls, verdict : Terminal \cup {"EMPTY"}]
OpRec == [call : OpCalls, slot : SlotOrNone, id : 0..MaxId, handle : 0..Pool]

LEMMA TypeFacts ==
    ASSUME TypeOK
    PROVE  /\ \A c \in Cos : co[c] \in CoRec
           /\ \A t \in Threads : op[t] \in OpRec
           /\ co \in [Cos -> CoRec] /\ op \in [Threads -> OpRec]
           /\ Slots \subseteq SlotOrNone /\ 0 \in SlotOrNone
           /\ exec # 0 => exec \in Cos
           /\ current # 0 => current \in Slots
<1>1. co \in [Cos -> CoRec] /\ op \in [Threads -> OpRec]
  BY DEF TypeOK, CoRec, OpRec
<1>2. Slots = 1..Len(jobs) /\ Len(jobs) \in Nat
  BY SlotsAre
<1>3. exec # 0 => exec \in Cos
  BY SizeAssumption DEF TypeOK, Cos
<1>4. current # 0 => current \in Slots
  BY <1>2 DEF TypeOK, SlotOrNone
<1> QED
  BY <1>1, <1>2, <1>3, <1>4 DEF SlotOrNone

(* The types of a step that keeps the length of the registry.              *)
LEMMA TypeKept ==
    ASSUME TypeOK, JobsKept, queue' = queue, activeCount' = activeCount, nextId' = nextId,
           co' \in [Cos -> CoRec], exec' \in 0..Pool, current' \in SlotOrNone,
           op' \in [Threads -> OpRec], phase' \in Phases, sweep' \in Nat, rootAborted' \in BOOLEAN
    PROVE  TypeOK'
<1>1. SlotOrNone' = SlotOrNone /\ Slots' = Slots
  BY DEF JobsKept, SlotOrNone
<1>2. jobs' \in Seq(Job)
  BY DEF JobsKept
<1> QED
  BY <1>1, <1>2 DEF TypeOK, Job, CoRec, OpRec

(* What a step that moves no slot still has to show.                       *)
Waiters == \A c \in Cos : co[c].pc \in {"yield", "join", "await"} => co[c].self # 0

LEMMA KeptIInv ==
    ASSUME IInv, Kept, nextId' = nextId, co' \in [Cos -> CoRec], exec' \in 0..Pool,
           op' \in [Threads -> OpRec], phase' \in Phases, sweep' \in Nat \ {0},
           rootAborted' \in BOOLEAN, CallersOK', Waiters'
    PROVE  IInv'
<1>1. TypeOK'
  <2>1. current' \in SlotOrNone /\ sweep' \in Nat
    BY DEF IInv, TypeOK, Kept
  <2> QED
    BY <2>1, TypeKept DEF IInv, Kept
<1> QED
  BY <1>1, KeptInv DEF IInv, SlotsInv, Sizes, CurrentOK, Waiters

LEMMA FailKept ==
    ASSUME TypeOK, NEW c, Fail(c)
    PROVE  JobsKept /\ rootAborted' \in BOOLEAN
BY FailEffect, SlotsAre DEF Fail, JobsKept, SameBut

-----------------------------------------------------------------------------
(* One lemma per action.                                                   *)

(* A set of slots has a first one.                                         *)
LEMMA FirstOf ==
    ASSUME NEW S \in SUBSET Nat, S # {}
    PROVE  \E s \in S : \A r \in S : s <= r
<1> DEFINE R == OpToRel(<, Nat)
<1>1. IsWellFoundedOn(R, Nat)
  BY NatLessThanWellFounded
<1>2. PICK s \in S : \A r \in S : ~(<<r, s>> \in R)
  <2> HIDE DEF R
  <2> QED
    BY <1>1, WFMin
<1>3. \A r \in S : ~(r < s)
  BY <1>2 DEF OpToRel
<1> QED
  BY <1>3

(* find_locked returns a slot with that id.                                *)
LEMMA Found ==
    ASSUME TypeOK, NEW id, Find(id) # 0
    PROVE  Find(id) \in Slots /\ jobs[Find(id)].id = id /\ jobs[Find(id)].state # "EMPTY"
<1> DEFINE matches == {s \in Slots : jobs[s].id = id /\ jobs[s].state # "EMPTY"}
<1>1. matches # {} /\ Find(id) = CHOOSE s \in matches : \A r \in matches : s <= r
  BY DEF Find
<1>2. matches \in SUBSET Nat
  BY SlotsAre
<1>3. \E s \in matches : \A r \in matches : s <= r
  <2> HIDE DEF matches
  <2> QED
    BY <1>1, <1>2, FirstOf
<1>4. Find(id) \in matches
  BY <1>1, <1>3
<1> QED
  BY <1>4

LEMMA Sizes0 ==
    /\ Pool \in Nat \ {0} /\ MaxId \in Nat \ {0} /\ MaxCalls \in Nat \ {0} /\ QueueCap \in Nat \ {0}
    /\ \A n \in Capacities : n \in Nat \ {0}
    /\ 0 \in 0..Pool /\ 0 \in 0..MaxId /\ Ids \subseteq 0..MaxId /\ Cos \subseteq 0..Pool
    /\ 0 \notin Cos /\ 0 \notin Ids
BY SizeAssumption DEF Ids, Cos

(* The types of the records of a call in progress.                         *)
LEMMA OpTyped ==
    ASSUME TypeOK, NEW k \in OpCalls, NEW s \in SlotOrNone, NEW id \in 0..MaxId
    PROVE  /\ Idle \in OpRec
           /\ [Idle EXCEPT !.call = k, !.slot = s, !.id = id] \in OpRec
           /\ [Idle EXCEPT !.call = k, !.slot = s] \in OpRec
<1>1. 0 \in SlotOrNone /\ 0 \in 0..Pool /\ 0 \in 0..MaxId /\ "idle" \in OpCalls
  BY TypeFacts, Sizes0 DEF OpCalls
<1> QED
  BY <1>1 DEF OpRec, Idle

(* A call in a callback counts and touches nothing else of the coroutine.  *)
LEMMA CountCallKept ==
    ASSUME IInv, NEW t \in Threads, InScript(t), CountCall(t)
    PROVE  /\ CosKept /\ co' \in [Cos -> CoRec] /\ Waiters'
           /\ \A c \in Cos : co'[c].pc = co[c].pc
           /\ op[t].call = "idle"
           /\ t = "worker" => exec \in Cos /\ co[exec].pc = "run"
<1> USE DEF IInv
<1>0. op[t].call = "idle"
  BY DEF InScript, Idle
<1>1. Waiters
  BY DEF SlotsInv, CurrentOK, Waiters
<1>2. CASE t = "host"
  BY <1>0, <1>1, <1>2, TypeFacts DEF CountCall, CosKept, Waiters
<1>3. CASE t = "worker"
  <2>1. exec \in Cos /\ co[exec] \in CoRec /\ co[exec].calls + 1 \in 0..MaxCalls
    <3>1. exec # 0 /\ co[exec].calls < MaxCalls
      BY <1>3 DEF InScript
    <3>2. exec \in Cos /\ co[exec] \in CoRec
      BY <3>1, TypeFacts
    <3>3. co[exec].calls \in 0..MaxCalls
      BY <3>2 DEF CoRec
    <3> QED
      BY <3>1, <3>2, <3>3, Sizes0
  <2>2. co' = [co EXCEPT ![exec] = [co[exec] EXCEPT !.calls = co[exec].calls + 1]]
    BY <1>3, <2>1 DEF CountCall
  <2>3. [co[exec] EXCEPT !.calls = co[exec].calls + 1] \in CoRec
    BY <2>1 DEF CoRec
  <2>4. co' \in [Cos -> CoRec]
    BY <2>1, <2>2, <2>3, TypeFacts
  <2>5. \A c \in Cos : /\ co'[c].pc = co[c].pc /\ co'[c].slot = co[c].slot
                       /\ co'[c].id = co[c].id /\ co'[c].self = co[c].self
    BY <2>1, <2>2, TypeFacts DEF CoRec
  <2> QED
    BY <1>0, <1>1, <1>3, <2>1, <2>4, <2>5 DEF CosKept, Waiters, InScript
<1> QED
  BY <1>2, <1>3 DEF Threads

LEMMA CancelKeeps ==
    ASSUME IInv, NEW t \in Threads, NEW id \in Ids, Cancel(t, id)
    PROVE  IInv'
<1> USE DEF IInv, Cancel
<1>1. Find(id) \in Slots
  BY Found
<1>2. /\ CosKept /\ co' \in [Cos -> CoRec] /\ Waiters' /\ op[t].call = "idle"
      /\ \A c \in Cos : co'[c].pc = co[c].pc
      /\ t = "worker" => exec \in Cos /\ co[exec].pc = "run"
  BY CountCallKept
<1>3. OpsKept /\ op' \in [Threads -> OpRec]
  <2>1. [Idle EXCEPT !.call = "cancel", !.slot = Find(id), !.id = id] \in OpRec
    <3>1. "cancel" \in OpCalls /\ Find(id) \in SlotOrNone /\ id \in 0..MaxId
      BY <1>1, TypeFacts, Sizes0 DEF OpCalls
    <3> QED
      BY <3>1, OpTyped
  <2> QED
    BY <1>1, <1>2, <2>1, TypeFacts DEF OpsKept, Idle
<1>4. Kept
  BY <1>2, <1>3, JobsUnchanged DEF Kept, Closing
<1>5. CallersOK'
  BY <1>2, TypeFacts DEF CallersOK, InScript, SlotsInv, Idle, ExecutorDown, Threads
<1> QED
  BY <1>2, <1>3, <1>4, <1>5, KeptIInv DEF TypeOK, SlotsInv, Sizes

(* Writing one record of the registry or one coroutine.                    *)
LEMMA JobWritten ==
    ASSUME TypeOK, NEW s \in Slots, NEW j \in Job, jobs' = [jobs EXCEPT ![s] = j],
           j.id = jobs[s].id, j.active = jobs[s].active,
           j.state \in Terminal => jobs[s].state \in Terminal,
           j.state = "EMPTY" => jobs[s].state = "EMPTY"
    PROVE  JobsKept
<1>1. /\ jobs' \in Seq(Job) /\ Len(jobs') = Len(jobs) /\ Slots' = Slots
      /\ jobs'[s] = j /\ \A r \in Slots \ {s} : jobs'[r] = jobs[r]
  BY SlotWritten DEF Slots
<1> QED
  BY <1>1 DEF JobsKept

LEMMA CoWritten ==
    ASSUME TypeOK, NEW c \in Cos, NEW k \in CoRec, co' = [co EXCEPT ![c] = k]
    PROVE  co' \in [Cos -> CoRec] /\ co'[c] = k /\ \A d \in Cos \ {c} : co'[d] = co[d]
BY TypeFacts

LEMMA RequestCancelKeeps ==
    ASSUME IInv, NEW t \in Threads, RequestCancel(t)
    PROVE  IInv'
<1> USE DEF IInv, RequestCancel
<1> DEFINE s == op[t].slot
<1>1. s \in Slots /\ jobs[s] \in Job /\ op[t] \in OpRec /\ op[t].call = "cancel"
  BY SlotsAre, TypeFacts DEF SlotsInv, OpsOK, OpOK
<1>2. JobsKept
  <2>1. CASE UNCHANGED jobs
    BY <2>1, JobsUnchanged
  <2>2. CASE ~UNCHANGED jobs
    <3> DEFINE j == [jobs[s] EXCEPT !.cancelled = TRUE, !.state = "CANCELLING", !.requested = op[t].id]
    <3>1. jobs' = [jobs EXCEPT ![s] = j]
      BY <2>2
    <3>2. j \in Job /\ j.id = jobs[s].id /\ j.active = jobs[s].active /\ j.state = "CANCELLING"
      BY <1>1 DEF Job, JobStates, OpRec
    <3> HIDE DEF j
    <3> QED
      BY <1>1, <3>1, <3>2, JobWritten DEF Terminal
  <2> QED
    BY <2>1, <2>2
<1>3. op' \in [Threads -> OpRec] /\ OpsKept
  <2>1. jobs[s].handle \in 0..Pool /\ "wake" \in OpCalls
    BY <1>1 DEF Job, OpCalls
  <2>2. Idle \in OpRec /\ [op[t] EXCEPT !.call = "wake", !.handle = jobs[s].handle] \in OpRec
    BY <1>1, <2>1, OpTyped, TypeFacts, Sizes0 DEF OpRec
  <2>3. PICK r \in {Idle, [op[t] EXCEPT !.call = "wake", !.handle = jobs[s].handle]} :
            op' = [op EXCEPT ![t] = r]
    OBVIOUS
  <2>4. r \in OpRec /\ r.call \in {"idle", "wake"}
    <3>1. /\ Idle.call = "idle"
          /\ [op[t] EXCEPT !.call = "wake", !.handle = jobs[s].handle].call = "wake"
      BY <1>1 DEF Idle, OpRec
    <3> QED
      BY <2>2, <2>3, <3>1
  <2> QED
    BY <1>1, <2>3, <2>4, TypeFacts DEF OpsKept
<1>4. Kept
  BY <1>2, <1>3 DEF Kept, Closing, CosKept
<1>5. CallersOK' /\ Waiters'
  BY <1>1, TypeFacts DEF CallersOK, SlotsInv, CurrentOK, Waiters, Idle, ExecutorDown, Threads
<1> QED
  BY <1>3, <1>4, <1>5, KeptIInv, TypeFacts DEF TypeOK, SlotsInv, Sizes

LEMMA WakeKeeps ==
    ASSUME IInv, NEW t \in Threads, Wake(t)
    PROVE  IInv'
<1> USE DEF IInv, Wake
<1> DEFINE h == op[t].handle
<1>1. co' \in [Cos -> CoRec] /\ CosKept /\ Waiters' /\ \A c \in Cos : co'[c].pc = co[c].pc
  <2>0. Waiters
    BY DEF SlotsInv, CurrentOK, Waiters
  <2>1. CASE h = 0
    BY <2>0, <2>1, TypeFacts DEF CosKept, Waiters
  <2>2. CASE h # 0
    <3>1. h \in Cos /\ co[h] \in CoRec
      BY <2>2, TypeFacts, Sizes0 DEF OpRec, Cos
    <3>2. co' = [co EXCEPT ![h] = [co[h] EXCEPT !.woken = TRUE]]
      BY <2>2
    <3>3. [co[h] EXCEPT !.woken = TRUE] \in CoRec
      BY <3>1 DEF CoRec
    <3>4. \A c \in Cos : /\ co'[c].pc = co[c].pc /\ co'[c].slot = co[c].slot
                         /\ co'[c].id = co[c].id /\ co'[c].self = co[c].self
      BY <3>1, <3>2, <3>3, CoWritten DEF CoRec
    <3> QED
      BY <2>0, <3>1, <3>2, <3>3, <3>4, CoWritten DEF CosKept, Waiters
  <2> QED
    BY <2>1, <2>2
<1>2. op' \in [Threads -> OpRec] /\ OpsKept
  BY OpTyped, TypeFacts, Sizes0 DEF OpsKept, Idle, OpCalls
<1>3. Kept
  BY <1>1, <1>2, JobsUnchanged DEF Kept, Closing
<1>4. CallersOK'
  BY <1>1, TypeFacts DEF CallersOK, SlotsInv, Idle, ExecutorDown, Threads
<1> QED
  BY <1>1, <1>2, <1>3, <1>4, KeptIInv DEF TypeOK, SlotsInv, Sizes

(* A refused call: SpawnRefused and ApiError.                              *)
LEMMA RefusedKeeps ==
    ASSUME IInv, InScript("worker"), Fail(exec), CountCall("worker"),
           UNCHANGED <<activeCount, nextId, queue, exec, current, op, phase, sweep>>
    PROVE  IInv'
<1> USE DEF IInv
<1>1. JobsKept /\ rootAborted' \in BOOLEAN
  BY FailKept
<1>2. CosKept /\ co' \in [Cos -> CoRec] /\ Waiters' /\ \A c \in Cos : co'[c].pc = co[c].pc
  BY CountCallKept DEF Threads
<1>3. Kept
  BY <1>1, <1>2 DEF Kept, Closing, OpsKept
<1>4. CallersOK'
  BY <1>2, TypeFacts DEF CallersOK, SlotsInv, ExecutorDown
<1> QED
  BY <1>1, <1>2, <1>3, <1>4, KeptIInv, TypeFacts DEF TypeOK, SlotsInv, Sizes

(* wait_for, up to the suspension, in a coroutine whose calls may have been *)
(* counted.                                                                *)
LEMMA BeginWaitKept ==
    ASSUME IInv, NEW c \in Cos, Live(c), NEW s \in Slots, NEW k \in CoRec,
           k.slot = co[c].slot, k.id = co[c].id,
           BeginWait(c, s, [co EXCEPT ![c] = k])
    PROVE  /\ JobsKept /\ CosKept /\ co' \in [Cos -> CoRec] /\ Waiters' /\ exec' = 0
           /\ co'[c].self = s /\ co'[c].pc = "await"
<1> USE DEF IInv
<1> DEFINE j == [jobs[s] EXCEPT !.handle = c, !.awaitActive = TRUE,
                     !.state = IF jobs[s].cancelled THEN "CANCELLING" ELSE "WAITING"]
           m == [k EXCEPT !.pc = "await", !.self = s, !.woken = jobs[s].cancelled]
<1>1. jobs[s] \in Job /\ c \in 0..Pool /\ s \in SlotOrNone /\ s # 0
  BY SlotsAre, TypeFacts, Sizes0
<1>2. jobs' = [jobs EXCEPT ![s] = j]
  BY <1>1 DEF BeginWait
<1>3. j \in Job /\ j.id = jobs[s].id /\ j.active = jobs[s].active
      /\ j.state \in {"CANCELLING", "WAITING"}
  BY <1>1 DEF Job, JobStates
<1>4. JobsKept
  <2> HIDE DEF j
  <2> QED
    BY <1>2, <1>3, JobWritten DEF Terminal
<1>5. co' = [co EXCEPT ![c] = m]
  BY TypeFacts DEF BeginWait
<1>6. m \in CoRec /\ m.slot = k.slot /\ m.id = k.id /\ m.self = s /\ m.pc = "await"
  BY <1>1 DEF CoRec, Pcs, Job
<1>7. co' \in [Cos -> CoRec] /\ co'[c] = m /\ \A d \in Cos \ {c} : co'[d] = co[d]
  <2> HIDE DEF m
  <2> QED
    BY <1>5, <1>6, CoWritten
<1>8. CosKept /\ Waiters'
  BY <1>1, <1>6, <1>7 DEF CosKept, Waiters, Live, SlotsInv, CurrentOK
<1> QED
  BY <1>4, <1>6, <1>7, <1>8 DEF BeginWait

(* The facts about the coroutine that is in a script.                      *)
LEMMA ScriptFacts ==
    ASSUME IInv, InScript("worker")
    PROVE  /\ exec \in Cos /\ co[exec] \in CoRec /\ co[exec].pc = "run" /\ Live(exec)
           /\ co[exec].calls + 1 \in 0..MaxCalls /\ op["worker"].call = "idle"
           /\ exec # 0
<1> USE DEF IInv
<1>1. exec # 0 /\ co[exec].pc = "run" /\ co[exec].calls < MaxCalls /\ op["worker"].call = "idle"
  BY DEF InScript, Idle
<1>2. exec \in Cos /\ co[exec] \in CoRec
  BY <1>1, TypeFacts
<1>3. co[exec].calls \in 0..MaxCalls
  BY <1>2 DEF CoRec
<1> QED
  BY <1>1, <1>2, <1>3, Sizes0 DEF Live

(* A coroutine that is suspended leaves the worker free.                   *)
LEMMA CallersWhenIdle ==
    ASSUME IInv, op["worker"].call = "idle",
           \A t \in Threads : op'[t].call = op[t].call, UNCHANGED phase
    PROVE  CallersOK'
BY DEF IInv, SlotsInv, CallersOK, Threads, ExecutorDown

(* A coroutine that goes on in its script; co' is what it was but for the  *)
(* fields named.                                                           *)
LEMMA CoGoesOn ==
    ASSUME IInv, NEW c \in Cos, Live(c), NEW k \in CoRec, co' = [co EXCEPT ![c] = k],
           k.slot = co[c].slot, k.id = co[c].id, k.pc # "none",
           k.pc \in {"yield", "join", "await"} => k.self # 0
    PROVE  co' \in [Cos -> CoRec] /\ CosKept /\ Waiters'
<1>1. co' \in [Cos -> CoRec] /\ co'[c] = k /\ \A d \in Cos \ {c} : co'[d] = co[d]
  BY CoWritten DEF IInv
<1> QED
  BY <1>1 DEF CosKept, Waiters, Live, IInv, SlotsInv, CurrentOK

(* task.yield and a sleep of 0 ms give the worker back.                    *)
LEMMA SuspendKeeps ==
    ASSUME IInv, InScript("worker"), current # 0, NEW p \in {"yield", "pause"},
           co' = Set(exec, p), exec' = 0,
           UNCHANGED <<jobs, activeCount, nextId, queue, current, op, phase, sweep, rootAborted>>
    PROVE  IInv'
<1> USE DEF IInv
<1> DEFINE k == [co[exec] EXCEPT !.pc = p, !.calls = co[exec].calls + 1, !.self = current]
<1>1. /\ exec \in Cos /\ co[exec] \in CoRec /\ co[exec].calls + 1 \in 0..MaxCalls
      /\ op["worker"].call = "idle" /\ Live(exec) /\ current \in SlotOrNone
  BY ScriptFacts, TypeFacts
<1>2. /\ k \in CoRec /\ k.slot = co[exec].slot /\ k.id = co[exec].id
      /\ k.self # 0 /\ k.pc = p
  BY <1>1 DEF CoRec, Pcs
<1>3. co' = [co EXCEPT ![exec] = k]
  BY <1>1, TypeFacts DEF Set
<1> HIDE DEF k
<1>4. k.pc # "none" /\ co' \in [Cos -> CoRec] /\ CosKept /\ Waiters'
  BY <1>1, <1>2, <1>3, CoGoesOn
<1>5. Kept /\ CallersOK'
  BY <1>1, <1>4, CallersWhenIdle, JobsUnchanged DEF Kept, OpsKept, Closing
<1> QED
  BY <1>4, <1>5, KeptIInv, TypeFacts, Sizes0 DEF TypeOK, SlotsInv, Sizes

LEMMA YieldKeeps ==
    ASSUME IInv, Yield
    PROVE  IInv'
<1>1. CASE ~MayYield
  BY <1>1, RefusedKeeps DEF Yield, AtCall
<1>2. CASE MayYield
  BY <1>2, SuspendKeeps DEF Yield, AtCall, MayYield
<1> QED
  BY <1>1, <1>2

LEMMA SleepKeeps ==
    ASSUME IInv, Sleep
    PROVE  IInv'
<1> USE DEF IInv, Sleep, AtCall
<1>1. CASE current = 0
  BY <1>1, RefusedKeeps
<1>2. CASE /\ current # 0 /\ co' = Set(exec, "pause")
           /\ exec' = 0 /\ UNCHANGED <<jobs, rootAborted>>
  <2>1. /\ InScript("worker")
        /\ UNCHANGED <<jobs, activeCount, nextId, queue, current, op, phase, sweep, rootAborted>>
    BY <1>2
  <2> HIDE DEF Sleep
  <2> QED
    BY <1>2, <2>1, SuspendKeeps
<1>3. CASE current # 0 /\ BeginWait(exec, current, [co EXCEPT ![exec].calls = @ + 1])
  <2> DEFINE k == [co[exec] EXCEPT !.calls = co[exec].calls + 1]
  <2>1. /\ exec \in Cos /\ co[exec] \in CoRec /\ co[exec].calls + 1 \in 0..MaxCalls
        /\ op["worker"].call = "idle" /\ current \in Slots /\ Live(exec)
    BY <1>3, ScriptFacts, TypeFacts
  <2>2. k \in CoRec /\ k.slot = co[exec].slot /\ k.id = co[exec].id
    BY <2>1 DEF CoRec
  <2>3. BeginWait(exec, current, [co EXCEPT ![exec] = k]) /\ UNCHANGED rootAborted
    BY <1>3, <2>1, TypeFacts
  <2>4. JobsKept /\ CosKept /\ co' \in [Cos -> CoRec] /\ Waiters' /\ exec' = 0
    <3> HIDE DEF k, Sleep
    <3> QED
      BY <2>1, <2>2, <2>3, BeginWaitKept
  <2>5. Kept /\ CallersOK'
    BY <2>1, <2>4, CallersWhenIdle DEF Kept, OpsKept, Closing
  <2> QED
    BY <2>3, <2>4, <2>5, KeptIInv, TypeFacts, Sizes0 DEF TypeOK, SlotsInv, Sizes
<1> QED
  BY <1>1, <1>2, <1>3

LEMMA JoinKeeps ==
    ASSUME IInv, NEW id \in Ids, Join(id)
    PROVE  IInv'
<1> USE DEF IInv, Join, AtCall
<1> DEFINE k == [co[exec] EXCEPT !.pc = "join", !.calls = co[exec].calls + 1, !.self = current,
                                 !.join = id]
<1>1. /\ exec \in Cos /\ co[exec] \in CoRec /\ co[exec].calls + 1 \in 0..MaxCalls
      /\ op["worker"].call = "idle" /\ Live(exec) /\ current # 0 /\ current \in SlotOrNone
      /\ id \in 0..MaxId
  BY ScriptFacts, TypeFacts, Sizes0
<1>2. /\ k \in CoRec /\ k.slot = co[exec].slot /\ k.id = co[exec].id
      /\ k.self # 0 /\ k.pc = "join"
  BY <1>1 DEF CoRec, Pcs
<1>3. co' = [co EXCEPT ![exec] = k]
  BY <1>1, TypeFacts DEF Set
<1>4. co' \in [Cos -> CoRec] /\ co'[exec] = k /\ \A d \in Cos \ {exec} : co'[d] = co[d]
  <2> HIDE DEF k, Join
  <2> QED
    BY <1>1, <1>2, <1>3, CoWritten
<1>5. CosKept /\ Waiters'
  BY <1>1, <1>2, <1>4 DEF CosKept, Waiters, Live, SlotsInv, CurrentOK
<1>6. Kept /\ CallersOK'
  BY <1>1, <1>5, CallersWhenIdle, JobsUnchanged DEF Kept, OpsKept, Closing
<1> QED
  BY <1>4, <1>5, <1>6, KeptIInv, TypeFacts, Sizes0 DEF TypeOK, SlotsInv, Sizes

LEMMA ResumeYieldKeeps ==
    ASSUME IInv, NEW c \in Cos, ResumeYield(c) \/ ResumePause(c)
    PROVE  IInv'
<1> USE DEF IInv, ResumeYield, ResumePause
<1> DEFINE k == [co[c] EXCEPT !.pc = "run", !.self = 0]
<1>1. co[c] \in CoRec /\ 0 \in SlotOrNone /\ Live(c) /\ c \in 0..Pool
  BY TypeFacts, Sizes0 DEF Live
<1>2. k \in CoRec /\ k.slot = co[c].slot /\ k.id = co[c].id /\ k.pc = "run"
  BY <1>1 DEF CoRec, Pcs
<1>3. co' = [co EXCEPT ![c] = k]
  BY <1>1, TypeFacts
<1>4. co' \in [Cos -> CoRec] /\ CosKept /\ Waiters'
  <2> HIDE DEF k, ResumeYield, ResumePause
  <2> QED
    BY <1>1, <1>2, <1>3, CoGoesOn
<1>5. JobsKept /\ rootAborted' \in BOOLEAN
  <2>1. CASE Fail(c)
    BY <2>1, FailKept
  <2>2. CASE UNCHANGED <<jobs, rootAborted>>
    BY <2>2, JobsUnchanged DEF TypeOK
  <2> QED
    BY <2>1, <2>2
<1>6. op["worker"].call = "idle"
  BY DEF SlotsInv, CallersOK
<1>7. Kept /\ CallersOK'
  BY <1>4, <1>5, <1>6, CallersWhenIdle DEF Kept, OpsKept, Closing
<1> QED
  BY <1>1, <1>4, <1>5, <1>7, KeptIInv, TypeFacts DEF TypeOK, SlotsInv, Sizes

LEMMA JoinRoundKeeps ==
    ASSUME IInv, NEW c \in Cos, JoinRound(c)
    PROVE  IInv'
<1> USE DEF IInv
<1> DEFINE k == [co[c] EXCEPT !.pc = "run", !.join = 0, !.self = 0]
           back == co' = [co EXCEPT ![c].pc = "run", ![c].join = 0, ![c].self = 0]
<1>1. /\ exec = c /\ co[c].pc = "join"
      /\ UNCHANGED <<activeCount, nextId, queue, current, op, phase, sweep>>
  BY DEF JoinRound
<1>2. co[c] \in CoRec /\ 0 \in SlotOrNone /\ 0 \in 0..MaxId /\ Live(c) /\ c \in 0..Pool
  BY <1>1, TypeFacts, Sizes0 DEF Live
<1>3. co[c].self \in Slots
  BY <1>1, <1>2, SlotsAre DEF SlotsInv, CurrentOK, CoRec, SlotOrNone
<1>4. op["worker"].call = "idle"
  BY <1>1 DEF SlotsInv, CallersOK
<1>5. ASSUME back PROVE co' \in [Cos -> CoRec] /\ CosKept /\ Waiters'
  <2>1. k \in CoRec /\ k.slot = co[c].slot /\ k.id = co[c].id /\ k.pc = "run"
    BY <1>2 DEF CoRec, Pcs
  <2>2. co' = [co EXCEPT ![c] = k]
    BY <1>2, <1>5, TypeFacts
  <2> HIDE DEF k
  <2> QED
    BY <1>2, <2>1, <2>2, CoGoesOn
<1>6. CASE Fail(c) /\ back /\ UNCHANGED exec
  <2>1. JobsKept /\ rootAborted' \in BOOLEAN
    BY <1>6, FailKept
  <2>2. Kept /\ CallersOK'
    BY <1>1, <1>4, <1>5, <1>6, <2>1, CallersWhenIdle DEF Kept, OpsKept, Closing
  <2> QED
    BY <1>1, <1>5, <1>6, <2>1, <2>2, KeptIInv, TypeFacts DEF TypeOK, SlotsInv, Sizes
<1>7. CASE back /\ UNCHANGED <<jobs, rootAborted, exec>>
  <2>1. Kept /\ CallersOK'
    BY <1>1, <1>4, <1>5, <1>7, JobsUnchanged, CallersWhenIdle DEF Kept, OpsKept, Closing
  <2> QED
    BY <1>1, <1>5, <1>7, <2>1, KeptIInv, TypeFacts DEF TypeOK, SlotsInv, Sizes
<1>8. CASE BeginWait(c, co[c].self, co) /\ UNCHANGED rootAborted
  <2>1. co = [co EXCEPT ![c] = co[c]]
    BY TypeFacts
  <2>2. JobsKept /\ CosKept /\ co' \in [Cos -> CoRec] /\ Waiters' /\ exec' = 0
    BY <1>2, <1>3, <1>8, <2>1, BeginWaitKept
  <2>3. Kept /\ CallersOK'
    BY <1>1, <1>4, <2>2, CallersWhenIdle DEF Kept, OpsKept, Closing
  <2> QED
    BY <1>1, <1>8, <2>2, <2>3, KeptIInv, TypeFacts, Sizes0 DEF TypeOK, SlotsInv, Sizes
<1> QED
  BY <1>6, <1>7, <1>8 DEF JoinRound

LEMMA ResumeWaitKeeps ==
    ASSUME IInv, NEW c \in Cos, ResumeWait(c)
    PROVE  IInv'
<1> USE DEF IInv
<1> DEFINE s == co[c].self
           j == [jobs[s] EXCEPT !.awaitActive = FALSE,
                     !.state = IF jobs[s].state \in Terminal \/ jobs[s].cancelled
                               THEN jobs[s].state ELSE "RUNNING"]
           woken == [jobs EXCEPT ![s] = j]
           ended == jobs[s].cancelled \/ co[c].woken
           k == IF ended
                THEN [co[c] EXCEPT !.pc = "run", !.woken = FALSE, !.join = 0, !.self = 0]
                ELSE [co[c] EXCEPT !.pc = IF co[c].join = 0 THEN "run" ELSE "join",
                                   !.self = IF co[c].join = 0 THEN 0 ELSE co[c].self]
<1>1. /\ exec = 0 /\ co[c].pc = "await" /\ exec' = c
      /\ op' = [t \in Threads |-> IF op[t].handle = c THEN [op[t] EXCEPT !.handle = 0] ELSE op[t]]
      /\ UNCHANGED <<activeCount, nextId, queue, current, phase, sweep>>
  BY DEF ResumeWait
<1>2. co[c] \in CoRec /\ 0 \in SlotOrNone /\ 0 \in 0..MaxId /\ Live(c) /\ c \in 0..Pool
  BY <1>1, TypeFacts, Sizes0 DEF Live
<1>3. s \in Slots /\ s # 0 /\ jobs[s] \in Job
  BY <1>1, <1>2, SlotsAre DEF SlotsInv, CurrentOK, CoRec, SlotOrNone
<1>4. op["worker"].call = "idle"
  BY <1>1 DEF SlotsInv, CallersOK
<1>5. k \in CoRec /\ k.slot = co[c].slot /\ k.id = co[c].id /\ k.pc \in {"run", "join"}
      /\ (k.pc = "join" => k.self # 0)
  <2>1. CASE ended
    BY <1>2, <2>1 DEF CoRec, Pcs
  <2>2. CASE ~ended
    BY <1>2, <1>3, <2>2 DEF CoRec, Pcs
  <2> QED
    BY <2>1, <2>2
<1>6. co' = [co EXCEPT ![c] = k]
  BY <1>2, TypeFacts DEF ResumeWait
<1>7. co' \in [Cos -> CoRec] /\ CosKept /\ Waiters'
  <2> HIDE DEF k
  <2> QED
    BY <1>2, <1>5, <1>6, CoGoesOn
<1>8. j \in Job /\ j.id = jobs[s].id /\ j.active = jobs[s].active
      /\ j.state \in {jobs[s].state, "RUNNING"}
  BY <1>3 DEF Job, JobStates
<1>9. JobsKept /\ rootAborted' \in BOOLEAN
  <2>1. /\ woken \in Seq(Job) /\ Len(woken) = Len(jobs) /\ woken[s] = j
        /\ \A r \in Slots \ {s} : woken[r] = jobs[r]
    <3> HIDE DEF j
    <3> QED
      BY <1>3, <1>8, SlotWritten
  <2>2. (jobs' = woken /\ UNCHANGED rootAborted) \/ FailWith(woken, c)
    BY DEF ResumeWait
  <2> HIDE DEF woken, j
  <2>3. /\ jobs' \in Seq(Job) /\ Len(jobs') = Len(jobs) /\ Slots' = Slots
        /\ \A r \in Slots : SameBut(woken[r], jobs'[r])
        /\ rootAborted' \in BOOLEAN
    <3>1. CASE FailWith(woken, c)
      BY <2>1, <3>1, FailEffect
    <3>2. CASE jobs' = woken /\ UNCHANGED rootAborted
      BY <2>1, <3>2, SlotsAre DEF SameBut, TypeOK, Slots
    <3> QED
      BY <2>2, <3>1, <3>2
  <2> QED
    BY <1>3, <1>8, <2>1, <2>3 DEF JobsKept, SameBut, Terminal
<1>10. op' \in [Threads -> OpRec] /\ OpsKept /\ \A t \in Threads : op'[t].call = op[t].call
  BY <1>1, TypeFacts, Sizes0 DEF OpRec, OpsKept
<1>11. Kept /\ CallersOK'
  BY <1>1, <1>4, <1>7, <1>9, <1>10, CallersWhenIdle DEF Kept, Closing
<1> QED
  BY <1>1, <1>2, <1>7, <1>9, <1>10, <1>11, KeptIInv DEF TypeOK, SlotsInv, Sizes

LEMMA ReturnKeeps ==
    ASSUME IInv, NEW threw \in BOOLEAN, Return(threw)
    PROVE  IInv'
<1> USE DEF IInv
<1> DEFINE s == co[exec].slot
           v == IF jobs[s].cancelled THEN "CANCELLED"
                ELSE IF threw \/ jobs[s].blame # "nobody" THEN "FAILED" ELSE "COMPLETED"
           k == [co[exec] EXCEPT !.pc = "finish", !.verdict = v]
<1>1. /\ exec # 0 /\ co[exec].pc = "run" /\ op["worker"].call = "idle"
      /\ UNCHANGED <<jobs, activeCount, nextId, queue, exec, current, op, phase, sweep, rootAborted>>
  BY DEF Return, Idle
<1>2. exec \in Cos /\ co[exec] \in CoRec /\ Live(exec)
  BY <1>1, TypeFacts DEF Live
<1>3. v \in Terminal
  BY DEF Terminal
<1>4. co' = [co EXCEPT ![exec] = k]
  BY <1>2, TypeFacts DEF Return
<1> HIDE DEF v
<1>5. k \in CoRec /\ k.slot = co[exec].slot /\ k.id = co[exec].id /\ k.pc = "finish"
  BY <1>2, <1>3 DEF CoRec, Pcs
<1>6. co' \in [Cos -> CoRec] /\ CosKept /\ Waiters'
  <2> HIDE DEF k
  <2> QED
    BY <1>2, <1>4, <1>5, CoGoesOn
<1>7. Kept /\ CallersOK'
  BY <1>1, <1>6, JobsUnchanged, CallersWhenIdle DEF Kept, OpsKept, Closing
<1> QED
  BY <1>1, <1>6, <1>7, KeptIInv, TypeFacts DEF TypeOK, SlotsInv, Sizes

(* The steps of turbo_script_free before the registry's storage goes.      *)
LEMMA ClosingKeeps ==
    ASSUME IInv, Free \/ CloseRegistry \/ SweepNext
    PROVE  IInv'
<1> USE DEF IInv, Free, CloseRegistry, SweepNext
<1>1. UNCHANGED <<jobs, activeCount, nextId, queue, co, exec, current, rootAborted>>
  OBVIOUS
<1>2. phase' \in Phases /\ (Closing => Closing') /\ sweep' \in Nat \ {0}
  BY DEF Phases, Closing, TypeOK, SlotsInv, Sizes
<1>3. op' \in [Threads -> OpRec] /\ OpsKept /\ op'["worker"] = op["worker"]
  <2>1. CASE UNCHANGED op
    BY <2>1, TypeFacts DEF OpsKept, Threads
  <2>2. CASE ~UNCHANGED op
    <3>1. sweep <= Len(jobs) /\ sweep \in Slots /\ op["host"] = Idle
      BY <2>2, SlotsAre DEF SlotsInv, Sizes
    <3>2. [Idle EXCEPT !.call = "cancel", !.slot = sweep] \in OpRec
      BY <3>1, OpTyped, TypeFacts, Sizes0 DEF OpCalls
    <3>3. op' = [op EXCEPT !["host"] = [Idle EXCEPT !.call = "cancel", !.slot = sweep]]
      BY <2>2
    <3> QED
      BY <3>1, <3>2, <3>3, TypeFacts DEF OpsKept, Idle, Threads
  <2> QED
    BY <2>1, <2>2
<1>4. Kept
  BY <1>1, <1>2, <1>3, JobsUnchanged DEF Kept, CosKept
<1>5. CallersOK' /\ Waiters'
  BY <1>1, <1>3 DEF CallersOK, Waiters, SlotsInv, CurrentOK, ExecutorDown, Idle
<1> QED
  BY <1>1, <1>2, <1>3, <1>4, <1>5, KeptIInv, TypeFacts DEF TypeOK

-----------------------------------------------------------------------------
(* Steps that give a slot to a user or take it away.                       *)

(* The count follows the one job that becomes active or inactive.          *)
LEMMA ActiveAdded ==
    ASSUME IInv, Slots' = Slots, NEW s \in Slots, ~jobs[s].active, jobs'[s].active,
           \A r \in Slots \ {s} : jobs'[r].active = jobs[r].active,
           activeCount' = activeCount + 1
    PROVE  ActiveExact' /\ activeCount' \in Nat
<1> DEFINE A == {r \in Slots : jobs[r].active}
<1>1. IsFiniteSet(A) /\ Cardinality(A) \in Nat /\ activeCount = Cardinality(A)
  <2>1. IsFiniteSet(Slots)
    BY SlotsAre, FS_Interval DEF IInv
  <2> QED
    BY <2>1, FS_Subset, FS_CardinalityType DEF IInv, ActiveExact
<1>2. {r \in Slots' : jobs'[r].active} = A \cup {s}
  OBVIOUS
<1>3. s \notin A /\ Cardinality(A \cup {s}) = IF s \in A THEN Cardinality(A) ELSE Cardinality(A) + 1
  BY <1>1, FS_AddElement
<1>4. activeCount' = Cardinality(A \cup {s}) /\ activeCount' \in Nat
  <2> HIDE DEF A
  <2> QED
    BY <1>1, <1>3
<1> QED
  BY <1>2, <1>4 DEF ActiveExact

LEMMA ActiveRemoved ==
    ASSUME IInv, Slots' = Slots, NEW s \in Slots, ~jobs'[s].active,
           \A r \in Slots \ {s} : jobs'[r].active = jobs[r].active,
           activeCount' = CountWithout(jobs[s])
    PROVE  ActiveExact' /\ activeCount' \in Nat
<1> DEFINE A == {r \in Slots : jobs[r].active}
<1>1. IsFiniteSet(A) /\ Cardinality(A) \in Nat /\ activeCount = Cardinality(A)
  <2>1. IsFiniteSet(Slots)
    BY SlotsAre, FS_Interval DEF IInv
  <2> QED
    BY <2>1, FS_Subset, FS_CardinalityType DEF IInv, ActiveExact
<1>2. {r \in Slots' : jobs'[r].active} = A \ {s}
  OBVIOUS
<1>3. Cardinality(A \ {s}) = IF s \in A THEN Cardinality(A) - 1 ELSE Cardinality(A)
  BY <1>1, FS_RemoveElement
<1>4. s \in A => Cardinality(A) # 0
  BY <1>1, FS_EmptySet
<1>5. s \in A <=> jobs[s].active
  OBVIOUS
<1>6. activeCount' = Cardinality(A \ {s}) /\ activeCount' \in Nat
  <2> HIDE DEF A
  <2> QED
    BY <1>1, <1>3, <1>4, <1>5 DEF CountWithout
<1> QED
  BY <1>2, <1>6 DEF ActiveExact

(* The types of a step that keeps the length of the registry and the       *)
(* lengths and limits of the rest.                                         *)
LEMMA TypeStep ==
    ASSUME TypeOK, jobs' \in Seq(Job), Len(jobs') = Len(jobs), Slots' = Slots,
           queue' \in Seq([slot : Slots, id : Ids]), Len(queue') <= QueueCap,
           activeCount' \in Nat, nextId' \in 0..MaxId,
           co' \in [Cos -> CoRec], exec' \in 0..Pool, current' \in SlotOrNone,
           op' \in [Threads -> OpRec], phase' \in Phases, sweep' \in Nat, rootAborted' \in BOOLEAN
    PROVE  TypeOK'
<1>1. SlotOrNone' = SlotOrNone /\ Slots' = Slots
  BY DEF SlotOrNone
<1> QED
  BY <1>1 DEF TypeOK, Job, CoRec, OpRec

LEMMA SpawnKeeps ==
    ASSUME IInv, NEW t \in Threads, Spawn(t)
    PROVE  IInv'
<1> USE DEF IInv
<1>1. PICK s \in Slots :
          /\ jobs[s].state = "EMPTY"
          /\ jobs' = [jobs EXCEPT ![s].id = nextId + 1, ![s].state = "SCHEDULED", ![s].active = TRUE]
          /\ op' = [op EXCEPT ![t] = [Idle EXCEPT !.call = "submit", !.slot = s, !.id = nextId + 1]]
  BY DEF Spawn
<1>2. /\ InScript(t) /\ "spawn" \in Calls[t] /\ ~Closing /\ nextId < MaxId
      /\ nextId' = nextId + 1 /\ activeCount' = activeCount + 1 /\ CountCall(t)
      /\ UNCHANGED <<queue, exec, current, phase, sweep, rootAborted>>
  BY DEF Spawn
<1>3. /\ CosKept /\ co' \in [Cos -> CoRec] /\ Waiters' /\ op[t].call = "idle"
      /\ \A c \in Cos : co'[c].pc = co[c].pc
      /\ t = "worker" => exec \in Cos /\ co[exec].pc = "run"
  BY <1>2, CountCallKept
<1>4. nextId + 1 \in Ids /\ nextId + 1 \in 0..MaxId
  BY <1>2, Sizes0 DEF TypeOK, Ids
<1> DEFINE j == [jobs[s] EXCEPT !.id = nextId + 1, !.state = "SCHEDULED", !.active = TRUE]
<1>5. jobs[s] \in Job
  BY SlotsAre
<1>6. j \in Job /\ j.id = nextId + 1 /\ j.state = "SCHEDULED" /\ j.active
  BY <1>4, <1>5 DEF Job, JobStates
<1>7. /\ jobs' \in Seq(Job) /\ Len(jobs') = Len(jobs) /\ Slots' = Slots
      /\ jobs'[s] = j /\ \A r \in Slots \ {s} : jobs'[r] = jobs[r]
  <2>1. jobs' = [jobs EXCEPT ![s] = j]
    BY <1>1
  <2> HIDE DEF j
  <2> QED
    BY <1>6, <2>1, SlotWritten DEF Slots
<1> HIDE DEF j
<1> DEFINE o == [Idle EXCEPT !.call = "submit", !.slot = s, !.id = nextId + 1]
<1>8. o \in OpRec /\ o.call = "submit" /\ o.slot = s /\ o.id = nextId + 1
  BY <1>4, OpTyped, TypeFacts DEF OpCalls, Idle
<1>9. op' \in [Threads -> OpRec] /\ op'[t] = o /\ \A u \in Threads \ {t} : op'[u] = op[u]
  BY <1>1, <1>8, TypeFacts
<1> HIDE DEF o
\* Nobody uses the slot.
<1>10. /\ \A i \in 1..Len(queue) : queue[i].slot # s
       /\ \A c \in Cos : Live(c) => co[c].slot # s
       /\ \A u \in Threads : op[u].call \in {"submit", "rejected", "release"} => op[u].slot # s
       /\ ~jobs[s].active
  <2>1. \A u \in Threads : op[u].call \in {"submit", "rejected", "release"} => op[u].slot # s
    BY <1>1, <1>2, <1>3 DEF SlotsInv, OpsOK, OpOK, Borrowed
  <2> QED
    BY <1>1, <2>1 DEF SlotsInv, HoldersOK, Borrowed, ActiveHeld
<1>11. \A c \in Cos : (Live(c)' <=> Live(c)) /\ co'[c].slot = co[c].slot /\ co'[c].id = co[c].id
  BY <1>3 DEF CosKept, Live
<1>20. ActiveExact' /\ activeCount' \in Nat
  BY <1>2, <1>6, <1>7, <1>10, ActiveAdded
<1>12. TypeOK'
  BY <1>2, <1>3, <1>4, <1>7, <1>9, <1>20, TypeStep DEF TypeOK
<1>13. Sizes'
  BY <1>2, <1>7 DEF SlotsInv, Sizes
<1>14. OpsOK'
  <2> SUFFICES ASSUME NEW u \in Threads PROVE OpOK(u)'
    BY DEF OpsOK
  <2>1. CASE u = t
    BY <1>2, <1>4, <1>6, <1>7, <1>8, <1>9, <2>1 DEF OpOK, Borrowed, Terminal
  <2>2. CASE u # t
    BY <1>2, <1>7, <1>9, <1>10, <2>2 DEF OpOK, Borrowed, SlotsInv, OpsOK, Closing
  <2> QED
    BY <2>1, <2>2
<1>15. CallersOK'
  <2>1. op'["worker"].call # "idle" => exec # 0 /\ exec \in Cos /\ co[exec].pc = "run"
    BY <1>3, <1>9, TypeFacts, Sizes0 DEF CallersOK, SlotsInv, Threads
  <2>2. ~ExecutorDown'
    BY <1>2 DEF ExecutorDown, Closing
  <2> QED
    BY <1>2, <1>3, <2>1, <2>2 DEF CallersOK
<1>16. HoldersOK'
  <2>1. \A i \in 1..Len(queue) : Borrowed(queue[i].slot, queue[i].id) /\ queue[i].slot # s
    BY <1>10 DEF HoldersOK, SlotsInv
  <2>2. \A c \in Cos : Live(c) => Borrowed(co[c].slot, co[c].id) /\ co[c].slot # s
    BY <1>10 DEF HoldersOK, SlotsInv
  <2>3. (\A i \in 1..Len(queue) : Borrowed(queue[i].slot, queue[i].id))'
    BY <1>2, <1>7, <2>1 DEF Borrowed
  <2>4. (\A c \in Cos : Live(c) => Borrowed(co[c].slot, co[c].id))'
    BY <1>7, <1>11, <2>2 DEF Borrowed
  <2> QED
    BY <2>3, <2>4 DEF HoldersOK
<1>17. Apart'
  BY <1>2, <1>8, <1>9, <1>10, <1>11 DEF Apart, SlotsInv
<1>18. ActiveHeld'
  BY <1>2, <1>3, <1>7, <1>8, <1>9, <1>11 DEF ActiveHeld, SlotsInv
<1>19. CurrentOK'
  BY <1>2, <1>3, <1>11 DEF CurrentOK, SlotsInv, Waiters
<1> QED
  BY <1>12, <1>13, <1>14, <1>15, <1>16, <1>17, <1>18, <1>19, <1>20 DEF SlotsInv

LEMMA ReleaseKeeps ==
    ASSUME IInv, Discipline, NEW t \in Threads, NEW id \in Ids, Release(t, id)
    PROVE  IInv'
<1> USE DEF IInv
<1> DEFINE s == Find(id)
           o == [Idle EXCEPT !.call = "release", !.slot = s, !.id = id]
<1>1. /\ InScript(t) /\ "release" \in Calls[t] /\ CountCall(t)
      /\ s # 0 /\ jobs[s].state \in Terminal /\ op' = [op EXCEPT ![t] = o]
      /\ UNCHANGED <<jobs, activeCount, nextId, queue, exec, current, phase, sweep, rootAborted>>
  BY DEF Release
<1>2. s \in Slots
  BY <1>1, Found
<1>3. /\ CosKept /\ co' \in [Cos -> CoRec] /\ Waiters' /\ op[t].call = "idle"
      /\ \A c \in Cos : co'[c].pc = co[c].pc
      /\ t = "worker" => exec \in Cos /\ co[exec].pc = "run"
  BY <1>1, CountCallKept
<1>4. o \in OpRec /\ o.call = "release" /\ o.slot = s
  BY <1>2, OpTyped, TypeFacts, Sizes0 DEF OpCalls, Idle
<1> HIDE DEF o, s
<1>5. op' \in [Threads -> OpRec] /\ op'[t] = o /\ \A u \in Threads \ {t} : op'[u] = op[u]
  BY <1>1, <1>4, TypeFacts
<1>6. /\ \A u \in Threads : op[u].call \in {"submit", "rejected", "release"} => op[u].slot # s
      /\ ~jobs[s].active
  <2>1. \A u \in Threads : op[u].call \in {"submit", "rejected"} => op[u].slot # s
    BY <1>1 DEF SlotsInv, OpsOK, OpOK, Borrowed
  <2>2. \A u \in Threads : op[u].call # "release"
    BY <1>1, <1>3 DEF SlotsInv, OpsOK, OpOK, Discipline, OneReleaser, Threads
  <2> QED
    BY <1>1, <1>2, <2>1, <2>2 DEF SlotsInv, HoldersOK, Borrowed, ActiveHeld
<1>7. \A c \in Cos : (Live(c)' <=> Live(c)) /\ co'[c].slot = co[c].slot /\ co'[c].id = co[c].id
  BY <1>3 DEF CosKept, Live
<1>8. Slots' = Slots /\ jobs' \in Seq(Job) /\ Len(jobs') = Len(jobs)
  BY <1>1, SlotsAre DEF Slots
<1>9. TypeOK'
  BY <1>1, <1>3, <1>5, <1>8, TypeStep DEF TypeOK
<1>10. OpsOK'
  <2> SUFFICES ASSUME NEW u \in Threads PROVE OpOK(u)'
    BY DEF OpsOK
  <2>1. CASE u = t
    BY <1>1, <1>2, <1>4, <1>5, <1>6, <1>8, <2>1 DEF OpOK, Terminal
  <2>2. CASE u # t
    BY <1>1, <1>5, <1>8, <2>2 DEF OpOK, Borrowed, SlotsInv, OpsOK, Closing
  <2> QED
    BY <2>1, <2>2
<1>11. CallersOK'
  <2>1. op'["worker"].call # "idle" => exec # 0 /\ exec \in Cos /\ co[exec].pc = "run"
    BY <1>3, <1>5, TypeFacts, Sizes0 DEF CallersOK, SlotsInv, Threads
  <2>2. ExecutorDown' => ExecutorDown /\ t # "host"
    BY <1>1 DEF ExecutorDown, InScript
  <2> QED
    BY <1>1, <1>3, <1>5, <2>1, <2>2 DEF CallersOK, SlotsInv, Threads
<1>12. HoldersOK'
  BY <1>1, <1>7, <1>8 DEF HoldersOK, SlotsInv, Borrowed
<1>13. Apart'
  BY <1>1, <1>4, <1>5, <1>6, <1>7 DEF Apart, SlotsInv
<1>14. ActiveHeld' /\ CurrentOK'
  <2>1. ActiveHeld'
    BY <1>1, <1>3, <1>5, <1>7, <1>8 DEF ActiveHeld, SlotsInv
  <2>2. CurrentOK'
    BY <1>1, <1>3, <1>7 DEF SlotsInv, CurrentOK, Waiters
  <2> QED
    BY <2>1, <2>2
<1>15. ActiveExact' /\ Sizes'
  BY <1>1 DEF ActiveExact, SlotsInv, Sizes, Slots
<1> QED
  BY <1>9, <1>10, <1>11, <1>12, <1>13, <1>14, <1>15 DEF SlotsInv

LEMMA Interval ==
    ASSUME NEW n \in Nat
    PROVE  IsFiniteSet(1..n) /\ Cardinality(1..n) = n
<1>1. IsFiniteSet(1..n) /\ Cardinality(1..n) = IF 1 > n THEN 0 ELSE n - 1 + 1
  BY FS_Interval
<1> QED
  BY <1>1

(* A submission that waits to be accepted has a slot of its own, so the    *)
(* queue holds fewer submissions than the registry has slots.              *)
LEMMA QueueFits ==
    ASSUME IInv, NEW t \in Threads, op[t].call = "submit"
    PROVE  Len(queue) < Len(jobs)
<1> USE DEF IInv
<1> DEFINE Q == {queue[i].slot : i \in 1..Len(queue)}
           f == [i \in 1..Len(queue) |-> queue[i].slot]
<1>1. Len(queue) \in Nat /\ Len(jobs) \in Nat /\ Slots = 1..Len(jobs)
  BY SlotsAre DEF TypeOK
<1>2. IsFiniteSet(Slots) /\ Cardinality(Slots) = Len(jobs)
  BY <1>1, Interval
<1>3. op[t].slot \in Slots /\ op[t].slot \notin Q /\ Q \subseteq Slots
  BY DEF SlotsInv, OpsOK, OpOK, Apart, HoldersOK, Borrowed
<1>4. IsFiniteSet(Q) /\ Cardinality(Q) = Len(queue)
  <2>1. IsFiniteSet(1..Len(queue)) /\ Cardinality(1..Len(queue)) = Len(queue)
    BY <1>1, Interval
  <2>2. f \in Bijection(1..Len(queue), Q)
    <3>1. f \in [1..Len(queue) -> Q]
      OBVIOUS
    <3>2. \A i, j \in 1..Len(queue) : f[i] = f[j] => i = j
      BY DEF SlotsInv, Apart
    <3>3. \A s \in Q : \E i \in 1..Len(queue) : f[i] = s
      OBVIOUS
    <3> HIDE DEF f, Q
    <3> QED
      BY <3>1, <3>2, <3>3 DEF Bijection, Injection, Surjection, IsInjective
  <2> HIDE DEF f, Q
  <2>3. ExistsBijection(1..Len(queue), Q)
    BY <2>2 DEF ExistsBijection
  <2> QED
    BY <2>1, <2>3, FS_Bijection
<1>5. Cardinality(Q) < Cardinality(Slots)
  <2>1. Q # Slots
    BY <1>3
  <2> HIDE DEF Q
  <2> QED
    BY <1>2, <1>3, <1>4, <2>1, FS_Subset
<1> QED
  BY <1>1, <1>2, <1>4, <1>5

LEMMA SubmitKeeps ==
    ASSUME IInv, Discipline, NEW t \in Threads, Submit(t)
    PROVE  IInv'
<1> USE DEF IInv
<1> DEFINE s == op[t].slot
<1>1. /\ op[t].call = "submit" /\ op[t] \in OpRec
      /\ UNCHANGED <<nextId, co, exec, current, phase, sweep, rootAborted>>
  BY TypeFacts DEF Submit
<1>2. s \in Slots /\ op[t].id \in Ids /\ "spawn" \in Calls[t] /\ Borrowed(s, op[t].id)
  BY <1>1 DEF SlotsInv, OpsOK, OpOK
<1>3. jobs[s] \in Job /\ Len(queue) \in Nat /\ co \in [Cos -> CoRec] /\ Waiters
  <2>1. Waiters
    BY DEF SlotsInv, CurrentOK, Waiters
  <2>2. Len(queue) \in Nat /\ co \in [Cos -> CoRec]
    BY TypeFacts DEF TypeOK
  <2>3. jobs[s] \in Job
    BY <1>2, SlotsAre, TypeFacts DEF TypeOK
  <2> QED
    BY <2>1, <2>2, <2>3
<1>4. \A i \in 1..Len(queue) : queue[i].slot # s
  BY <1>1 DEF SlotsInv, Apart
<1>5. \A c \in Cos : Live(c) => co[c].slot # s
  BY <1>1 DEF SlotsInv, Apart
<1>6. \A u \in Threads \ {t} : op[u].call \in {"submit", "rejected", "release"} => op[u].slot # s
  BY <1>1 DEF SlotsInv, Apart
<1>7. CASE /\ ~ExecutorDown /\ Len(queue) < QueueCap
           /\ queue' = Append(queue, [slot |-> s, id |-> op[t].id])
           /\ op' = [op EXCEPT ![t] = Idle]
           /\ UNCHANGED <<jobs, activeCount>>
  <2>1. /\ queue' \in Seq([slot : Slots, id : Ids]) /\ Len(queue') = Len(queue) + 1
        /\ \A i \in 1..Len(queue) : queue'[i] = queue[i]
        /\ queue'[Len(queue) + 1].slot = s /\ queue'[Len(queue) + 1].id = op[t].id
    BY <1>2, <1>7 DEF TypeOK
  <2>2. \A i \in 1..Len(queue') : i \in 1..Len(queue) \/ i = Len(queue) + 1
    BY <1>3, <2>1
  <2>2a. Len(queue) + 1 \in 1..Len(queue') /\ \A i \in 1..Len(queue) : i \in 1..Len(queue')
    BY <1>3, <2>1
  <2>3. op' \in [Threads -> OpRec] /\ op'[t] = Idle /\ \A u \in Threads \ {t} : op'[u] = op[u]
    BY <1>7, OpTyped, TypeFacts, Sizes0 DEF OpCalls
  <2>4. Idle.call = "idle"
    BY DEF Idle
  <2>5. Slots' = Slots /\ jobs' \in Seq(Job) /\ Len(jobs') = Len(jobs)
    BY <1>7, SlotsAre DEF Slots
  <2>6. TypeOK'
    <3>1. /\ activeCount' \in Nat /\ nextId' \in 0..MaxId /\ exec' \in 0..Pool
          /\ current' \in SlotOrNone /\ phase' \in Phases /\ sweep' \in Nat /\ rootAborted' \in BOOLEAN
      BY <1>1, <1>7 DEF TypeOK
    <3>2. Len(queue') <= QueueCap
      BY <1>3, <1>7, <2>1, Sizes0
    <3>3. co' \in [Cos -> CoRec]
      BY <1>1, <1>3
    <3> QED
      BY <2>1, <2>3, <2>5, <3>1, <3>2, <3>3, TypeStep
  <2>7. OpsOK'
    <3> SUFFICES ASSUME NEW u \in Threads PROVE OpOK(u)'
      BY DEF OpsOK
    <3>1. CASE u = t
      BY <2>3, <2>4, <3>1 DEF OpOK
    <3>2. CASE u # t
      BY <1>1, <1>7, <2>3, <2>5, <3>2 DEF OpOK, Borrowed, SlotsInv, OpsOK, Closing
    <3> QED
      BY <3>1, <3>2
  <2>8. CallersOK'
    BY <1>1, <2>3, <2>4 DEF CallersOK, SlotsInv, ExecutorDown, Threads
  <2>9. HoldersOK'
    BY <1>1, <1>2, <1>7, <2>1, <2>2, <2>5 DEF HoldersOK, SlotsInv, Borrowed, Live
  <2>10. Apart'
    <3>1. \A i, j \in 1..Len(queue') : queue'[i].slot = queue'[j].slot => i = j
      BY <1>4, <2>1, <2>2 DEF SlotsInv, Apart
    <3>2. \A i \in 1..Len(queue'), c \in Cos : Live(c)' => queue'[i].slot # co'[c].slot
      BY <1>1, <1>5, <2>1, <2>2 DEF SlotsInv, Apart, Live
    <3>3. \A u \in Threads : op'[u].call = "submit" =>
              /\ \A i \in 1..Len(queue') : queue'[i].slot # op'[u].slot
              /\ \A c \in Cos : Live(c)' => co'[c].slot # op'[u].slot
      BY <1>1, <1>6, <2>1, <2>2, <2>3, <2>4 DEF SlotsInv, Apart, Live
    <3>4. \A c, d \in Cos : (Live(c)' /\ Live(d)' /\ co'[c].slot = co'[d].slot) => c = d
      BY <1>1 DEF SlotsInv, Apart, Live
    <3>5. \A u, v \in Threads :
          ({op'[u].call, op'[v].call} \subseteq {"submit", "rejected", "release"}
           /\ op'[u].slot = op'[v].slot) => u = v
      BY <2>3, <2>4 DEF SlotsInv, Apart
    <3> QED
      BY <3>1, <3>2, <3>3, <3>4, <3>5 DEF Apart
  <2>11. ActiveHeld'
    <3> SUFFICES ASSUME NEW r \in Slots, jobs[r].active
                 PROVE  \/ \E i \in 1..Len(queue') : queue'[i].slot = r
                        \/ \E c \in Cos : Live(c) /\ co[c].slot = r
                        \/ \E u \in Threads : op'[u].call = "submit" /\ op'[u].slot = r
      BY <1>1, <1>7, <2>5 DEF ActiveHeld, Live
    <3>1. CASE r = s
      BY <2>1, <2>2a, <3>1
    <3>2. CASE r # s
      BY <2>1, <2>2a, <2>3, <3>2 DEF SlotsInv, ActiveHeld
    <3> QED
      BY <3>1, <3>2
  <2>12. CurrentOK' /\ ActiveExact' /\ Sizes'
    BY <1>1, <1>7, <2>5 DEF CurrentOK, SlotsInv, Live, ActiveExact, Sizes
  <2> QED
    BY <2>6, <2>7, <2>8, <2>9, <2>10, <2>11, <2>12 DEF SlotsInv
<1>8. CASE /\ ExecutorDown \/ Len(queue) = QueueCap
           /\ jobs' = [jobs EXCEPT ![s] = [Deactivated(@) EXCEPT !.state = "EMPTY"]]
           /\ activeCount' = CountWithout(jobs[s])
           /\ op' = [op EXCEPT ![t].call = "rejected"]
           /\ UNCHANGED queue
  <2> DEFINE j == [jobs[s] EXCEPT !.active = FALSE, !.state = "EMPTY"]
             o == [op[t] EXCEPT !.call = "rejected"]
  <2>1. j \in Job /\ ~j.active /\ j.state = "EMPTY"
    BY <1>3 DEF Job, JobStates
  <2>2. /\ jobs' \in Seq(Job) /\ Len(jobs') = Len(jobs) /\ Slots' = Slots
        /\ jobs'[s] = j /\ \A r \in Slots \ {s} : jobs'[r] = jobs[r]
    <3>1. jobs' = [jobs EXCEPT ![s] = j]
      BY <1>8 DEF Deactivated
    <3> HIDE DEF j
    <3> QED
      BY <1>2, <2>1, <3>1, SlotWritten DEF Slots
  <2>3. o \in OpRec /\ o.call = "rejected" /\ o.slot = s
    BY <1>1 DEF OpRec, OpCalls
  <2>4. op' \in [Threads -> OpRec] /\ op'[t] = o /\ \A u \in Threads \ {t} : op'[u] = op[u]
    BY <1>8, <2>3, TypeFacts
  <2> HIDE DEF j, o
  <2>5. Closing \/ \A u \in Threads \ {t} : "spawn" \notin Calls[u]
    <3>1. CASE ExecutorDown
      BY <3>1 DEF ExecutorDown, Closing
    <3>2. CASE ~ExecutorDown
      <4>1. Len(queue) < Len(jobs) /\ Len(jobs) \in Capacities
        BY <1>1, QueueFits DEF SlotsInv, Sizes
      <4>2. ~RoomForAll
        BY <1>3, <1>8, <3>2, <4>1, Sizes0 DEF RoomForAll
      <4> QED
        BY <1>2, <4>2 DEF Discipline, OneSpawner, Threads
    <3> QED
      BY <3>1, <3>2
  <2>6. ActiveExact' /\ activeCount' \in Nat
    BY <1>2, <1>8, <2>1, <2>2, ActiveRemoved
  <2>7. TypeOK'
    BY <1>1, <1>3, <1>8, <2>2, <2>4, <2>6, TypeStep DEF TypeOK
  <2>8. OpsOK'
    <3> SUFFICES ASSUME NEW u \in Threads PROVE OpOK(u)'
      BY DEF OpsOK
    <3>1. CASE u = t
      BY <1>1, <1>2, <2>1, <2>2, <2>3, <2>4, <2>5, <3>1 DEF OpOK, Terminal, Closing
    <3>2. CASE u # t
      BY <1>1, <1>6, <2>2, <2>4, <3>2 DEF OpOK, Borrowed, SlotsInv, OpsOK, Closing
    <3> QED
      BY <3>1, <3>2
  <2>9. CallersOK'
    BY <1>1, <2>3, <2>4 DEF CallersOK, SlotsInv, ExecutorDown, Threads
  <2>10. HoldersOK'
    BY <1>1, <1>4, <1>5, <1>8, <2>2 DEF HoldersOK, SlotsInv, Borrowed, Live
  <2>11. Apart'
    <3>1. \A u \in Threads : op'[u].slot = op[u].slot
      BY <2>3, <2>4
    <3>2. \A u \in Threads : op'[u].call = "submit" => op[u].call = "submit"
      BY <2>3, <2>4
    <3>3. \A u \in Threads : op'[u].call \in {"submit", "rejected", "release"}
                             => op[u].call \in {"submit", "rejected", "release"}
      BY <1>1, <2>3, <2>4
    <3> QED
      BY <1>1, <1>8, <3>1, <3>2, <3>3 DEF Apart, SlotsInv, Live
  <2>12. ActiveHeld'
    <3> SUFFICES ASSUME NEW r \in Slots, jobs'[r].active
                 PROVE  \/ \E i \in 1..Len(queue) : queue[i].slot = r
                        \/ \E c \in Cos : Live(c) /\ co[c].slot = r
                        \/ \E u \in Threads : op'[u].call = "submit" /\ op'[u].slot = r
      BY <1>1, <1>8, <2>2 DEF ActiveHeld, Live
    <3>1. r # s /\ jobs[r].active
      BY <2>1, <2>2
    <3> QED
      BY <2>4, <3>1 DEF SlotsInv, ActiveHeld
  <2>13. CurrentOK' /\ Sizes'
    BY <1>1, <2>2 DEF CurrentOK, SlotsInv, Live, Sizes
  <2> QED
    BY <2>6, <2>7, <2>8, <2>9, <2>10, <2>11, <2>12, <2>13 DEF SlotsInv
<1> QED
  BY <1>7, <1>8 DEF Submit

LEMMA ResetKeeps ==
    ASSUME IInv, NEW t \in Threads, Reset(t)
    PROVE  IInv'
<1> USE DEF IInv
<1> DEFINE s == op[t].slot
           cleared == [jobs EXCEPT ![s] = EmptyJob]
<1>1. /\ op[t].call \in {"rejected", "release"} /\ op' = [op EXCEPT ![t] = Idle]
      /\ FailWith(cleared, exec) \/ (jobs' = cleared /\ UNCHANGED rootAborted)
      /\ UNCHANGED <<activeCount, nextId, queue, co, exec, current, phase, sweep>>
  BY DEF Reset
<1>2. s \in Slots /\ ~jobs[s].active
  BY <1>1 DEF SlotsInv, OpsOK, OpOK
<1>3. EmptyJob \in Job /\ ~EmptyJob.active /\ EmptyJob.state = "EMPTY"
  BY Sizes0 DEF EmptyJob, Job, JobStates
<1>4. /\ cleared \in Seq(Job) /\ Len(cleared) = Len(jobs) /\ cleared[s] = EmptyJob
      /\ \A r \in Slots \ {s} : cleared[r] = jobs[r]
  BY <1>2, <1>3, SlotWritten
<1> HIDE DEF cleared
<1>5. /\ jobs' \in Seq(Job) /\ Len(jobs') = Len(jobs) /\ Slots' = Slots
      /\ \A r \in Slots : SameBut(cleared[r], jobs'[r])
      /\ rootAborted' \in BOOLEAN
  <2>1. CASE FailWith(cleared, exec)
    BY <1>4, <2>1, FailEffect
  <2>2. CASE jobs' = cleared /\ UNCHANGED rootAborted
    BY <1>4, <2>2, SlotsAre DEF SameBut, TypeOK, Slots
  <2> QED
    BY <1>1, <2>1, <2>2
<1>6. ~jobs'[s].active /\ \A r \in Slots \ {s} : /\ jobs'[r].active = jobs[r].active
                                                 /\ jobs'[r].id = jobs[r].id
                                                 /\ jobs'[r].state = jobs[r].state
  BY <1>2, <1>3, <1>4, <1>5 DEF SameBut
<1>7. op' \in [Threads -> OpRec] /\ op'[t] = Idle /\ \A u \in Threads \ {t} : op'[u] = op[u]
  BY <1>1, OpTyped, TypeFacts, Sizes0 DEF OpCalls
<1>8. Idle.call = "idle"
  BY DEF Idle
<1>9. /\ \A i \in 1..Len(queue) : queue[i].slot # s
      /\ \A c \in Cos : Live(c) => co[c].slot # s
      /\ \A u \in Threads \ {t} : op[u].call \in {"submit", "rejected", "release"} => op[u].slot # s
  BY <1>1, <1>2 DEF SlotsInv, HoldersOK, Borrowed, Apart
<1>10. TypeOK'
  BY <1>1, <1>5, <1>7, TypeFacts, TypeStep DEF TypeOK
<1>11. OpsOK'
  <2> SUFFICES ASSUME NEW u \in Threads PROVE OpOK(u)'
    BY DEF OpsOK
  <2>1. CASE u = t
    BY <1>7, <1>8, <2>1 DEF OpOK
  <2>2. CASE u # t
    BY <1>1, <1>5, <1>6, <1>7, <1>9, <2>2 DEF OpOK, Borrowed, SlotsInv, OpsOK, Closing
  <2> QED
    BY <2>1, <2>2
<1>12. CallersOK'
  BY <1>1, <1>7, <1>8 DEF CallersOK, SlotsInv, ExecutorDown, Threads
<1>13. HoldersOK'
  <2>1. \A r \in Slots \ {s} : \A id : Borrowed(r, id) =>
          /\ r \in Slots' /\ jobs'[r].id = id /\ jobs'[r].active
          /\ jobs'[r].state \notin Terminal \cup {"EMPTY"}
    BY <1>5, <1>6 DEF Borrowed
  <2>2. /\ \A i \in 1..Len(queue) : Borrowed(queue[i].slot, queue[i].id) /\ queue[i].slot \in Slots \ {s}
        /\ \A c \in Cos : Live(c) => Borrowed(co[c].slot, co[c].id) /\ co[c].slot \in Slots \ {s}
    BY <1>9 DEF HoldersOK, SlotsInv, Borrowed
  <2>3. UNCHANGED <<queue, co>> /\ \A c : Live(c)' <=> Live(c)
    BY <1>1 DEF Live
  <2>4. \A i \in 1..Len(queue) : Borrowed(queue[i].slot, queue[i].id)'
    BY <2>1, <2>2, <2>3 DEF Borrowed
  <2>5. \A c \in Cos : Live(c) => Borrowed(co[c].slot, co[c].id)'
    BY <2>1, <2>2, <2>3 DEF Borrowed
  <2> QED
    BY <2>3, <2>4, <2>5 DEF HoldersOK
<1>14. Apart'
  BY <1>1, <1>7, <1>8 DEF Apart, SlotsInv, Live
<1>15. ActiveHeld'
  <2> SUFFICES ASSUME NEW r \in Slots, jobs'[r].active
               PROVE  \/ \E i \in 1..Len(queue) : queue[i].slot = r
                      \/ \E c \in Cos : Live(c) /\ co[c].slot = r
                      \/ \E u \in Threads : op'[u].call = "submit" /\ op'[u].slot = r
    BY <1>1, <1>5 DEF ActiveHeld, Live
  <2>1. jobs[r].active
    BY <1>6
  <2> QED
    BY <1>1, <1>7, <2>1 DEF SlotsInv, ActiveHeld
<1>16. CurrentOK' /\ Sizes'
  BY <1>1, <1>5 DEF CurrentOK, SlotsInv, Live, Sizes
<1>17. ActiveExact'
  <2>1. {r \in Slots' : jobs'[r].active} = {r \in Slots : jobs[r].active}
    BY <1>2, <1>5, <1>6
  <2> QED
    BY <1>1, <2>1 DEF ActiveExact
<1> QED
  BY <1>10, <1>11, <1>12, <1>13, <1>14, <1>15, <1>16, <1>17 DEF SlotsInv

(* The head of the queue moves to a coroutine; stop and cancel mark its    *)
(* job, run starts it.                                                     *)
LEMMA TakeKeeps ==
    ASSUME IInv, NEW c \in Cos, NEW j \in Job, NEW k \in CoRec,
           exec = 0, queue # <<>>, FreeCo(c),
           queue' = Tail(queue), exec' = c, current' = Head(queue).slot,
           jobs' = [jobs EXCEPT ![Head(queue).slot] = j],
           j.id = jobs[Head(queue).slot].id, j.active = jobs[Head(queue).slot].active,
           j.state \in {jobs[Head(queue).slot].state, "RUNNING"},
           co' = [co EXCEPT ![c] = k],
           k.slot = Head(queue).slot, k.id = Head(queue).id, k.pc \in {"run", "finish"},
           UNCHANGED <<activeCount, nextId, op, phase, sweep, rootAborted>>
    PROVE  IInv'
<1> USE DEF IInv
<1> DEFINE s == Head(queue).slot
<1>1. /\ Len(queue) \in Nat \ {0} /\ 1 \in 1..Len(queue) /\ Head(queue) = queue[1]
      /\ Len(queue') = Len(queue) - 1 /\ queue' \in Seq([slot : Slots, id : Ids])
      /\ \A i \in 1..Len(queue') : queue'[i] = queue[i + 1] /\ i + 1 \in 1..Len(queue)
  BY DEF TypeOK
<1>2. Borrowed(s, Head(queue).id) /\ s \in Slots /\ s # 0
  BY <1>1, SlotsAre DEF SlotsInv, HoldersOK, Borrowed
<1>2a. /\ current' = s /\ jobs' = [jobs EXCEPT ![s] = j] /\ k.slot = s
       /\ j.id = jobs[s].id /\ j.active = jobs[s].active /\ j.state \in {jobs[s].state, "RUNNING"}
       /\ jobs[s].state \notin Terminal \cup {"EMPTY"} /\ jobs[s].active /\ jobs[s].id = k.id
       /\ queue[1].slot = s
  BY <1>1, <1>2 DEF Borrowed
<1> HIDE DEF s
<1>3. ~Live(c) /\ c \in 0..Pool
  BY Sizes0 DEF FreeCo, Live
<1>4. op["worker"].call = "idle"
  BY DEF SlotsInv, CallersOK
<1>5. /\ jobs' \in Seq(Job) /\ Len(jobs') = Len(jobs) /\ Slots' = Slots
      /\ jobs'[s] = j /\ \A r \in Slots \ {s} : jobs'[r] = jobs[r]
  BY <1>2, <1>2a, SlotWritten DEF Slots
<1>6. /\ \A r \in Slots : /\ jobs'[r].id = jobs[r].id /\ jobs'[r].active = jobs[r].active
                         /\ jobs'[r].state \in {jobs[r].state, "RUNNING"}
      /\ \A r \in Slots : \A id : Borrowed(r, id) => Borrowed(r, id)'
      /\ \A r \in Slots \ {s} : jobs'[r].state = jobs[r].state
  <2>1. \A r \in Slots : /\ jobs'[r].id = jobs[r].id /\ jobs'[r].active = jobs[r].active
                         /\ jobs'[r].state \in {jobs[r].state, "RUNNING"}
    BY <1>2, <1>2a, <1>5
  <2> QED
    BY <1>5, <2>1 DEF Borrowed, Terminal
<1>7. co' \in [Cos -> CoRec] /\ co'[c] = k /\ \A d \in Cos \ {c} : co'[d] = co[d]
  BY CoWritten
<1>8. Live(c)' /\ \A d \in Cos \ {c} : Live(d)' <=> Live(d)
  BY <1>7 DEF Live
<1>9. TypeOK'
  <2>1. s \in SlotOrNone /\ op \in [Threads -> OpRec]
    BY <1>2, TypeFacts
  <2>2. Len(queue') <= QueueCap
    <3>1. Len(queue) <= QueueCap
      BY DEF TypeOK
    <3> QED
      BY <1>1, <3>1, Sizes0
  <2> QED
    BY <1>1, <1>2a, <1>3, <1>5, <1>7, <2>1, <2>2, TypeStep DEF TypeOK
<1>10. OpsOK'
  <2> SUFFICES ASSUME NEW t \in Threads PROVE OpOK(t)'
    BY DEF OpsOK
  <2>1. OpOK(t) /\ op'[t] = op[t]
    BY DEF SlotsInv, OpsOK
  <2>2. op[t].call \in {"rejected", "release"} => op[t].slot # s
    BY <1>2, <1>2a, <2>1 DEF OpOK
  <2> QED
    BY <1>5, <1>6, <2>1, <2>2 DEF OpOK, Closing, Borrowed, Terminal
<1>11. CallersOK'
  BY <1>4 DEF SlotsInv, CallersOK, ExecutorDown
<1>12. HoldersOK'
  <2>1. \A i \in 1..Len(queue') : Borrowed(queue[i].slot, queue[i].id)'
    <3> SUFFICES ASSUME NEW i \in 1..Len(queue')
                 PROVE  Borrowed(queue[i].slot, queue[i].id)'
      OBVIOUS
    <3>1. Borrowed(queue[i + 1].slot, queue[i + 1].id) /\ queue'[i] = queue[i + 1]
      BY <1>1 DEF SlotsInv, HoldersOK
    <3>2. queue[i + 1].slot \in Slots
      BY <3>1 DEF Borrowed
    <3> QED
      BY <1>5, <1>6, <3>1, <3>2 DEF Borrowed
  <2>2. \A d \in Cos : Live(d)' => Borrowed(co[d].slot, co[d].id)'
    <3> SUFFICES ASSUME NEW d \in Cos, Live(d)'
                 PROVE  Borrowed(co[d].slot, co[d].id)'
      OBVIOUS
    <3>1. CASE d = c
      BY <1>2, <1>2a, <1>5, <1>6, <1>7, <3>1 DEF Borrowed, Terminal
    <3>2. CASE d # c
      <4>1. Borrowed(co[d].slot, co[d].id) /\ co'[d] = co[d]
        BY <1>7, <1>8, <3>2 DEF SlotsInv, HoldersOK
      <4>2. co[d].slot \in Slots
        BY <4>1 DEF Borrowed
      <4> QED
        BY <1>5, <1>6, <4>1, <4>2 DEF Borrowed
    <3> QED
      BY <3>1, <3>2
  <2> QED
    BY <2>1, <2>2 DEF HoldersOK
<1>13. Apart'
  <2>1. \A i \in 1..Len(queue') : queue'[i].slot # s
    BY <1>1, <1>2a DEF SlotsInv, Apart
  <2>2. \A d \in Cos : Live(d) => co[d].slot # s
    BY <1>1, <1>2a DEF SlotsInv, Apart
  <2>3. \A i, l \in 1..Len(queue') : queue'[i].slot = queue'[l].slot => i = l
    BY <1>1 DEF SlotsInv, Apart
  <2>4. \A d, e \in Cos : (Live(d)' /\ Live(e)' /\ co'[d].slot = co'[e].slot) => d = e
    BY <1>2a, <1>7, <1>8, <2>2 DEF SlotsInv, Apart
  <2>5. \A i \in 1..Len(queue'), d \in Cos : Live(d)' => queue'[i].slot # co'[d].slot
    BY <1>1, <1>2a, <1>7, <1>8, <2>1 DEF SlotsInv, Apart
  <2>6. \A t \in Threads : op'[t].call = "submit" =>
          /\ \A i \in 1..Len(queue') : queue'[i].slot # op'[t].slot
          /\ \A d \in Cos : Live(d)' => co'[d].slot # op'[t].slot
    BY <1>1, <1>2a, <1>7, <1>8 DEF SlotsInv, Apart
  <2>7. \A t, u \in Threads :
          ({op'[t].call, op'[u].call} \subseteq {"submit", "rejected", "release"}
           /\ op'[t].slot = op'[u].slot) => t = u
    BY DEF SlotsInv, Apart
  <2> QED
    BY <2>3, <2>4, <2>5, <2>6, <2>7 DEF Apart
<1>14. ActiveHeld'
  <2> SUFFICES ASSUME NEW r \in Slots, jobs'[r].active
               PROVE  \/ \E i \in 1..Len(queue') : queue'[i].slot = r
                      \/ \E d \in Cos : Live(d)' /\ co'[d].slot = r
                      \/ \E t \in Threads : op[t].call = "submit" /\ op[t].slot = r
    BY <1>5 DEF ActiveHeld
  <2>1. CASE r = s
    BY <1>2a, <1>7, <1>8, <2>1
  <2>2. CASE r # s
    <3>1. jobs[r].active
      BY <1>5, <2>2
    <3>2. CASE \E i \in 1..Len(queue) : queue[i].slot = r
      <4>1. PICK i \in 1..Len(queue) : queue[i].slot = r
        BY <3>2
      <4>2. i # 1 /\ i - 1 \in 1..Len(queue') /\ queue'[i - 1] = queue[i]
        BY <1>1, <1>2a, <2>2, <4>1
      <4> QED
        BY <4>1, <4>2
    <3>3. CASE \E d \in Cos : Live(d) /\ co[d].slot = r
      BY <1>3, <1>7, <1>8, <3>3
    <3> QED
      BY <3>1, <3>2, <3>3 DEF SlotsInv, ActiveHeld
  <2> QED
    BY <2>1, <2>2
<1>15. CurrentOK'
  BY <1>2a, <1>7, <1>8 DEF CurrentOK, SlotsInv
<1>16. ActiveExact' /\ Sizes'
  <2>1. {r \in Slots' : jobs'[r].active} = {r \in Slots : jobs[r].active}
    BY <1>5, <1>6
  <2> QED
    BY <1>5, <2>1 DEF ActiveExact, Sizes, SlotsInv
<1> QED
  BY <1>9, <1>10, <1>11, <1>12, <1>13, <1>14, <1>15, <1>16 DEF SlotsInv

LEMMA StartKeeps ==
    ASSUME IInv, NEW c \in Cos, Start(c) \/ CancelQueued(c)
    PROVE  IInv'
<1> USE DEF IInv
<1> DEFINE s == Head(queue).slot
           mark == [jobs[s] EXCEPT !.cancelled = TRUE]
           run == [jobs[s] EXCEPT !.state = "RUNNING"]
           finish == [NoCo EXCEPT !.slot = s, !.id = Head(queue).id, !.pc = "finish",
                                  !.verdict = "CANCELLED"]
           script == [NoCo EXCEPT !.slot = s, !.id = Head(queue).id, !.pc = "run",
                                  !.verdict = "EMPTY"]
<1>1. /\ exec = 0 /\ queue # <<>> /\ FreeCo(c)
      /\ queue' = Tail(queue) /\ exec' = c /\ current' = s
      /\ UNCHANGED <<activeCount, nextId, op, phase, sweep, rootAborted>>
  BY DEF Start, CancelQueued
<1>2. s \in Slots /\ jobs[s].id = Head(queue).id
  <2>1. queue # <<>>
    BY <1>1
  <2>2. 1 \in 1..Len(queue) /\ Head(queue) = queue[1]
    BY <2>1 DEF TypeOK
  <2> QED
    BY <2>2 DEF SlotsInv, HoldersOK, Borrowed
<1>3. jobs[s] \in Job /\ s \in SlotOrNone /\ Head(queue).id \in 0..MaxId
  <2>1. jobs[s] \in Job /\ s \in SlotOrNone
    BY <1>2, SlotsAre, TypeFacts
  <2> QED
    BY <1>2, <2>1 DEF Job
<1>4. /\ mark \in Job /\ mark.id = jobs[s].id /\ mark.active = jobs[s].active
      /\ mark.state = jobs[s].state
      /\ run \in Job /\ run.id = jobs[s].id /\ run.active = jobs[s].active
      /\ run.state = "RUNNING"
  BY <1>3 DEF Job, JobStates
<1>5. /\ finish \in CoRec /\ finish.slot = s /\ finish.id = Head(queue).id /\ finish.pc = "finish"
      /\ script \in CoRec /\ script.slot = s /\ script.id = Head(queue).id /\ script.pc = "run"
  <2>1. 0 \in SlotOrNone /\ 0 \in 0..MaxId /\ 0 \in 0..MaxCalls
    BY TypeFacts, Sizes0
  <2> QED
    BY <1>3, <2>1 DEF CoRec, NoCo, Pcs, Terminal
<1>6. CASE jobs' = [jobs EXCEPT ![s] = mark] /\ co' = [co EXCEPT ![c] = finish]
  <2> HIDE DEF mark, finish
  <2> QED
    BY <1>1, <1>4, <1>5, <1>6, TakeKeeps
<1>7. CASE jobs' = [jobs EXCEPT ![s] = run] /\ co' = [co EXCEPT ![c] = script]
  <2> HIDE DEF run, script
  <2> QED
    BY <1>1, <1>4, <1>5, <1>7, TakeKeeps
<1>8. CancelQueued(c) => jobs' = [jobs EXCEPT ![s] = mark] /\ co' = [co EXCEPT ![c] = finish]
  BY DEF CancelQueued
<1>9. Start(c) => \/ jobs' = [jobs EXCEPT ![s] = mark] /\ co' = [co EXCEPT ![c] = finish]
                  \/ jobs' = [jobs EXCEPT ![s] = run] /\ co' = [co EXCEPT ![c] = script]
  BY DEF Start
<1> QED
  BY <1>6, <1>7, <1>8, <1>9

LEMMA FinishKeeps ==
    ASSUME IInv, Finish
    PROVE  IInv'
<1> USE DEF IInv
<1> DEFINE s == co[exec].slot
           j == [jobs[s] EXCEPT !.active = FALSE, !.awaitActive = FALSE, !.state = co[exec].verdict]
<1>1. /\ exec # 0 /\ co[exec].pc = "finish"
      /\ jobs' = [jobs EXCEPT ![s] = j]
      /\ activeCount' = CountWithout(jobs[s])
      /\ co' = [co EXCEPT ![exec] = NoCo]
      /\ exec' = 0 /\ current' = 0
      /\ UNCHANGED <<nextId, queue, op, phase, sweep, rootAborted>>
  BY DEF Finish, Deactivated
<1>2. exec \in Cos /\ Live(exec) /\ co[exec] \in CoRec
  BY <1>1, TypeFacts DEF Live
<1>3. Borrowed(s, co[exec].id) /\ s \in Slots /\ jobs[s] \in Job
  BY <1>2, SlotsAre DEF SlotsInv, HoldersOK, Borrowed
<1>4. j \in Job /\ ~j.active
  BY <1>2, <1>3 DEF Job, JobStates, CoRec, Terminal
<1> HIDE DEF j
<1>5. /\ jobs' \in Seq(Job) /\ Len(jobs') = Len(jobs) /\ Slots' = Slots
      /\ jobs'[s] = j /\ \A r \in Slots \ {s} : jobs'[r] = jobs[r]
  BY <1>1, <1>3, <1>4, SlotWritten DEF Slots
<1>6. NoCo \in CoRec /\ NoCo.pc = "none"
  <2>1. 0 \in SlotOrNone /\ 0 \in 0..MaxId /\ 0 \in 0..MaxCalls
    BY TypeFacts, Sizes0
  <2> QED
    BY <2>1 DEF CoRec, NoCo, Pcs, Terminal
<1>7. co' \in [Cos -> CoRec] /\ co'[exec] = NoCo /\ \A d \in Cos \ {exec} : co'[d] = co[d]
  BY <1>1, <1>2, <1>6, CoWritten
<1>8. \A d \in Cos \ {exec} : Live(d)' <=> Live(d)
  BY <1>1, <1>6, <1>7 DEF Live
<1>8a. \A d \in Cos : Live(d)' => Live(d) /\ d # exec /\ co'[d] = co[d]
  BY <1>1, <1>6, <1>7 DEF Live
<1>9. op["worker"].call = "idle"
  BY <1>1 DEF SlotsInv, CallersOK
<1>10. /\ \A i \in 1..Len(queue) : queue[i].slot # s
       /\ \A d \in Cos : Live(d)' => co[d].slot # s
       /\ \A t \in Threads : op[t].call \in {"submit", "rejected", "release"} => op[t].slot # s
  <2>1. \A t \in Threads : op[t].call \in {"rejected", "release"} => op[t].slot # s
    BY <1>3 DEF SlotsInv, OpsOK, OpOK, Borrowed
  <2> QED
    BY <1>2, <1>8a, <2>1 DEF SlotsInv, Apart
<1> HIDE DEF s
<1>11. ActiveExact' /\ activeCount' \in Nat
  BY <1>1, <1>3, <1>4, <1>5, ActiveRemoved
<1>12. TypeOK'
  <2>1. 0 \in SlotOrNone /\ op \in [Threads -> OpRec] /\ 0 \in 0..Pool
    BY TypeFacts, Sizes0
  <2> QED
    BY <1>1, <1>5, <1>7, <1>11, <2>1, TypeStep DEF TypeOK
<1>13. OpsOK'
  BY <1>1, <1>5, <1>10 DEF SlotsInv, OpsOK, OpOK, Borrowed, Closing
<1>14. CallersOK'
  BY <1>1, <1>9 DEF SlotsInv, CallersOK, ExecutorDown
<1>15. HoldersOK'
  BY <1>1, <1>5, <1>8a, <1>10 DEF SlotsInv, HoldersOK, Borrowed
<1>16. Apart'
  BY <1>1, <1>8a DEF SlotsInv, Apart
<1>17. ActiveHeld'
  <2> SUFFICES ASSUME NEW r \in Slots, jobs'[r].active
               PROVE  \/ \E i \in 1..Len(queue) : queue[i].slot = r
                      \/ \E d \in Cos : Live(d)' /\ co'[d].slot = r
                      \/ \E t \in Threads : op[t].call = "submit" /\ op[t].slot = r
    BY <1>1, <1>5 DEF ActiveHeld
  <2>1. r # s /\ jobs[r].active
    BY <1>4, <1>5
  <2>2. \A d \in Cos : (Live(d) /\ co[d].slot = r) => d # exec
    BY <2>1 DEF s
  <2> QED
    BY <1>7, <1>8, <2>1, <2>2 DEF SlotsInv, ActiveHeld
<1>18. CurrentOK' /\ Sizes'
  BY <1>1, <1>5, <1>6, <1>7 DEF CurrentOK, SlotsInv, Sizes
<1> QED
  BY <1>11, <1>12, <1>13, <1>14, <1>15, <1>16, <1>17, <1>18 DEF SlotsInv

(* Nothing uses a slot when the registry is replaced or released.          *)
LEMMA FreshKeeps ==
    ASSUME IInv, Unused, NEW n \in Capacities, jobs' = [s \in 1..n |-> EmptyJob],
           queue = <<>>, \A c \in Cos : ~Live(c),
           \A t \in Threads : op[t].call = "idle",
           activeCount = 0, nextId' \in {0, nextId}, phase' \in Phases,
           UNCHANGED <<activeCount, queue, co, exec, current, op, sweep, rootAborted>>
    PROVE  IInv'
<1> USE DEF IInv
<1>1. EmptyJob \in Job /\ ~EmptyJob.active /\ n \in Nat
  BY Sizes0 DEF EmptyJob, Job, JobStates
<1>2. jobs' \in Seq(Job) /\ Len(jobs') = n /\ Slots' = 1..n /\ SlotOrNone' = 0..n
  <2>1. jobs' \in Seq(Job) /\ DOMAIN jobs' = 1..n
    BY <1>1
  <2> QED
    BY <1>1, <2>1 DEF Slots, SlotOrNone
<1>3. \A s \in Slots' : ~jobs'[s].active
  BY <1>1, <1>2
<1>4. current = 0 /\ \A c \in Cos : co[c].pc = "none"
  BY DEF SlotsInv, CurrentOK, Live
<1>5. co' \in [Cos -> CoRec'] /\ op' \in [Threads -> OpRec']
  <2>1. \A c \in Cos : co[c] \in CoRec'
    <3> SUFFICES ASSUME NEW c \in Cos
                 PROVE  co[c] \in CoRec'
      OBVIOUS
    <3>1. co[c] \in CoRec /\ co[c].slot = 0 /\ co[c].self = 0 /\ 0 \in SlotOrNone'
      BY <1>1, <1>2, <1>4, TypeFacts DEF Unused
    <3> QED
      BY <3>1 DEF CoRec
  <2>2. \A t \in Threads : op[t] \in OpRec'
    <3> SUFFICES ASSUME NEW t \in Threads
                 PROVE  op[t] \in OpRec'
      OBVIOUS
    <3>1. op[t] \in OpRec /\ op[t].slot = 0 /\ 0 \in SlotOrNone'
      BY <1>1, <1>2, TypeFacts DEF Unused
    <3> QED
      BY <3>1 DEF OpRec
  <2> QED
    BY <2>1, <2>2, TypeFacts
<1>6. TypeOK'
  <2>1. queue' \in Seq([slot : Slots', id : Ids]) /\ Len(queue') <= QueueCap
    BY Sizes0
  <2>2. nextId' \in 0..MaxId /\ current' \in SlotOrNone'
    BY <1>1, <1>2, <1>4, Sizes0 DEF TypeOK
  <2> QED
    BY <1>2, <1>5, <2>1, <2>2 DEF TypeOK, CoRec, OpRec, Job
<1>7. Sizes' /\ OpsOK' /\ CallersOK'
  BY <1>2 DEF Sizes, OpsOK, OpOK, CallersOK, SlotsInv, Threads
<1>8. HoldersOK' /\ Apart' /\ ActiveHeld' /\ CurrentOK'
  <2>1. \A c \in Cos : ~Live(c)'
    BY DEF Live
  <2>2. Len(queue') = 0 /\ 1..Len(queue') = {}
    OBVIOUS
  <2>3. HoldersOK'
    BY <2>1, <2>2 DEF HoldersOK
  <2>4. Apart'
    BY <2>1, <2>2 DEF Apart
  <2>5. ActiveHeld' /\ CurrentOK'
    BY <1>3, <1>4 DEF ActiveHeld, CurrentOK
  <2> QED
    BY <2>3, <2>4, <2>5
<1>9. ActiveExact'
  <2>1. {s \in Slots' : jobs'[s].active} = {}
    BY <1>3
  <2> QED
    BY <2>1, FS_EmptySet DEF ActiveExact
<1> QED
  BY <1>6, <1>7, <1>8, <1>9 DEF SlotsInv

(* An empty count means that nobody holds a slot.                          *)
LEMMA NoneActive ==
    ASSUME IInv, activeCount = 0
    PROVE  /\ \A s \in Slots : ~jobs[s].active
           /\ queue = <<>> /\ \A c \in Cos : ~Live(c)
           /\ op["worker"].call = "idle"
<1> USE DEF IInv
<1>1. \A s \in Slots : ~jobs[s].active
  <2> DEFINE A == {s \in Slots : jobs[s].active}
  <2>1. IsFiniteSet(A)
    <3>1. IsFiniteSet(Slots)
      BY SlotsAre, FS_Interval
    <3> QED
      BY <3>1, FS_Subset
  <2>2. A = {}
    BY <2>1, FS_EmptySet DEF ActiveExact
  <2> QED
    BY <2>2
<1>2. \A c \in Cos : ~Live(c)
  BY <1>1 DEF SlotsInv, HoldersOK, Borrowed
<1>3. queue = <<>>
  <2>1. Len(queue) \in Nat /\ (Len(queue) = 0 => queue = <<>>)
    BY DEF TypeOK
  <2>2. Len(queue) # 0 => 1 \in 1..Len(queue)
    BY <2>1
  <2> QED
    BY <1>1, <2>1, <2>2 DEF SlotsInv, HoldersOK, Borrowed
<1>4. op["worker"].call = "idle"
  BY <1>2, TypeFacts DEF SlotsInv, CallersOK, Live
<1> QED
  BY <1>1, <1>2, <1>3, <1>4

LEMMA ResizeKeeps ==
    ASSUME IInv, Unused, NEW n \in Capacities, Resize(n)
    PROVE  IInv'
<1> USE DEF IInv
<1>1. /\ op["host"].call = "idle" /\ activeCount = 0
      /\ jobs' = [s \in 1..n |-> EmptyJob] /\ nextId' = 0 /\ phase' = phase
      /\ UNCHANGED <<activeCount, queue, co, exec, current, op, sweep, rootAborted>>
  BY DEF Resize, Idle
<1>2. /\ queue = <<>> /\ \A c \in Cos : ~Live(c)
      /\ op["worker"].call = "idle"
  BY <1>1, NoneActive
<1>3. (\A t \in Threads : op[t].call = "idle") /\ phase' \in Phases
  BY <1>1, <1>2 DEF Threads, TypeOK
<1> QED
  BY <1>1, <1>2, <1>3, FreshKeeps

LEMMA DrainedKeeps ==
    ASSUME IInv, Unused, Drained
    PROVE  IInv'
<1> USE DEF IInv
<1>1. /\ phase = "drain" /\ queue = <<>> /\ \A c \in Cos : co[c].pc = "none"
      /\ jobs' = [s \in Slots |-> EmptyJob] /\ phase' = "freed"
      /\ UNCHANGED <<activeCount, nextId, queue, co, exec, current, op, sweep, rootAborted>>
  BY DEF Drained
<1>2. \A c \in Cos : ~Live(c)
  BY <1>1 DEF Live
<1>3. \A t \in Threads : op[t].call = "idle"
  <2>1. op["host"].call = "idle"
    BY <1>1 DEF SlotsInv, CallersOK, ExecutorDown
  <2>2. op["worker"].call = "idle"
    BY <1>1, TypeFacts DEF SlotsInv, CallersOK
  <2> QED
    BY <2>1, <2>2 DEF Threads
<1>4. activeCount = 0
  <2>1. \A s \in Slots : ~jobs[s].active
    <3>1. 1..Len(queue) = {}
      BY <1>1
    <3> QED
      BY <1>2, <1>3, <3>1 DEF SlotsInv, ActiveHeld
  <2>2. {s \in Slots : jobs[s].active} = {}
    BY <2>1
  <2> QED
    BY <2>2, FS_EmptySet DEF ActiveExact
<1>5. Slots = 1..Len(jobs) /\ Len(jobs) \in Capacities
  BY SlotsAre DEF SlotsInv, Sizes
<1>6. jobs' = [s \in 1..Len(jobs) |-> EmptyJob]
  BY <1>1, <1>5
<1>7. phase' \in Phases
  BY <1>1 DEF Phases
<1> QED
  BY <1>1, <1>2, <1>3, <1>4, <1>5, <1>6, <1>7, FreshKeeps

-----------------------------------------------------------------------------
(* The invariant.                                                          *)

(* A step that touches no coroutine outside a callback, or one that does.  *)
LEMMA UnusedKeeps ==
    ASSUME IInv, Unused, Next
    PROVE  Unused'
<1> USE DEF IInv
<1> DEFINE CosUnused == \A c \in Cos : co[c].pc = "none" => co[c].slot = 0 /\ co[c].self = 0
           OpsUnused == \A t \in Threads : op[t].call = "idle" => op[t].slot = 0
<1>1. CosUnused /\ OpsUnused
  BY DEF Unused
<1>2. \A c \in Cos : co[c] \in CoRec
  BY TypeFacts
<1>3. co \in [Cos -> CoRec] /\ op \in [Threads -> OpRec] /\ (exec # 0 => exec \in Cos)
  BY TypeFacts
<1>4. ASSUME NEW t \in Threads, ApiCall(t)
      PROVE  Unused'
  <2>1. CountCall(t) /\ InScript(t)
    BY <1>4 DEF ApiCall, Spawn, Release, Cancel
  <2>2. CosUnused'
    BY <1>1, <1>2, <1>3, <2>1 DEF CountCall, InScript, CoRec, Threads
  <2>3. op'[t].call # "idle" /\ \A u \in Threads \ {t} : op'[u] = op[u]
    BY <1>3, <1>4 DEF ApiCall, Spawn, Release, Cancel, Idle
  <2>4. OpsUnused'
    BY <1>1, <2>3
  <2> QED
    BY <2>2, <2>4 DEF Unused
<1>5. ASSUME NEW t \in Threads, Complete(t)
      PROVE  Unused'
  <2>1. CosUnused'
    <3>1. CASE UNCHANGED co
      BY <1>1, <3>1
    <3>2. CASE Wake(t)
      BY <1>1, <1>2, <1>3, <3>2 DEF Wake, CoRec
    <3> QED
      BY <1>5, <3>1, <3>2 DEF Complete, Submit, Reset, RequestCancel
  <2>2. OpsUnused'
    <3>1. op[t] \in OpRec
      BY <1>3
    <3>2. CASE op' = [op EXCEPT ![t] = Idle]
      BY <1>1, <1>3, <3>2 DEF Idle
    <3>3. CASE op' = [op EXCEPT ![t].call = "rejected"]
      BY <1>1, <1>3, <3>1, <3>3 DEF OpRec
    <3>4. CASE op' = [op EXCEPT ![t] = [@ EXCEPT !.call = "wake", !.handle = jobs[op[t].slot].handle]]
      BY <1>1, <1>3, <3>1, <3>4 DEF OpRec
    <3>5. \/ op' = [op EXCEPT ![t] = Idle]
          \/ op' = [op EXCEPT ![t].call = "rejected"]
          \/ op' = [op EXCEPT ![t] = [@ EXCEPT !.call = "wake", !.handle = jobs[op[t].slot].handle]]
      BY <1>5 DEF Complete, Submit, Reset, RequestCancel, Wake
    <3> QED
      BY <3>2, <3>3, <3>4, <3>5
  <2> QED
    BY <2>1, <2>2 DEF Unused
<1>6. ASSUME UNCHANGED op, NEW c \in Cos, co[c].pc # "none",
             NEW k, co' = [co EXCEPT ![c] = k], k.pc # "none" \/ k = NoCo
      PROVE  Unused'
  BY <1>1, <1>3, <1>6 DEF Unused, NoCo
<1>7. ASSUME TaskCall
      PROVE  Unused'
  <2>1. UNCHANGED op /\ exec \in Cos /\ co[exec] \in CoRec /\ co[exec].pc = "run"
    BY <1>7, <1>3 DEF TaskCall, SpawnRefused, ApiError, Yield, Sleep, Join, AtCall, InScript
  <2>2. \E k : co' = [co EXCEPT ![exec] = k] /\ k.pc # "none"
    <3> DEFINE counted == [co[exec] EXCEPT !.calls = @ + 1]
               yields == [co[exec] EXCEPT !.pc = "yield", !.calls = @ + 1, !.self = current]
               pauses == [co[exec] EXCEPT !.pc = "pause", !.calls = @ + 1, !.self = current]
               sleeps == [co[exec] EXCEPT !.calls = @ + 1, !.pc = "await", !.self = current,
                                          !.woken = jobs[current].cancelled]
               joins(id) == [co[exec] EXCEPT !.pc = "join", !.calls = @ + 1, !.self = current,
                                             !.join = id]
    <3>1. /\ counted.pc # "none" /\ yields.pc # "none" /\ pauses.pc # "none" /\ sleeps.pc # "none"
          /\ \A id \in Ids : joins(id).pc # "none"
      BY <2>1 DEF CoRec
    <3>2. \/ co' = [co EXCEPT ![exec] = counted] \/ co' = [co EXCEPT ![exec] = yields]
          \/ co' = [co EXCEPT ![exec] = pauses] \/ co' = [co EXCEPT ![exec] = sleeps]
          \/ \E id \in Ids : co' = [co EXCEPT ![exec] = joins(id)]
      <4>1. SpawnRefused \/ ApiError => co' = [co EXCEPT ![exec] = counted]
        BY <2>1 DEF SpawnRefused, ApiError, CountCall
      <4>2. Yield => \/ co' = [co EXCEPT ![exec] = counted] 
                     \/ co' = [co EXCEPT ![exec] = yields]
        BY <2>1 DEF Yield, CountCall, Set
      <4>3. Sleep => \/ co' = [co EXCEPT ![exec] = counted] 
                     \/ co' = [co EXCEPT ![exec] = pauses]
                     \/ co' = [co EXCEPT ![exec] = sleeps]
        <5>1. [[co EXCEPT ![exec].calls = @ + 1] EXCEPT
                ![exec].pc = "await", ![exec].self = current, ![exec].woken = jobs[current].cancelled]
              = [co EXCEPT ![exec] = sleeps]
          BY <1>3, <2>1 DEF CoRec
        <5> QED
          BY <2>1, <5>1 DEF Sleep, CountCall, BeginWait, Set
      <4>4. ASSUME NEW id \in Ids, Join(id)
            PROVE  co' = [co EXCEPT ![exec] = joins(id)]
        <5>1. [[co EXCEPT ![exec].pc = "join", ![exec].calls = @ + 1, ![exec].self = current]
                EXCEPT ![exec].join = id] = [co EXCEPT ![exec] = joins(id)]
          BY <1>3, <2>1 DEF CoRec
        <5> QED
          BY <4>4, <5>1 DEF Join, Set
      <4> QED
        BY <1>7, <4>1, <4>2, <4>3, <4>4 DEF TaskCall
    <3> HIDE DEF counted, yields, pauses, sleeps, joins
    <3> QED
      BY <3>1, <3>2
  <2> QED
    BY <1>6, <2>1, <2>2
<1>8. ASSUME NEW c \in Cos, Start(c) \/ CancelQueued(c)
      PROVE  Unused'
  BY <1>1, <1>3, <1>8 DEF Start, CancelQueued, NoCo, Unused
<1>9. ASSUME NEW c \in Cos, Coroutine(c)
      PROVE  Unused'
  <2>1. CASE ResumeYield(c) \/ ResumePause(c)
    BY <1>1, <1>2, <1>3, <2>1 DEF ResumeYield, ResumePause, CoRec, Unused
  <2>2. CASE JoinRound(c)
    BY <1>1, <1>2, <1>3, <2>2 DEF JoinRound, BeginWait, CoRec, Unused
  <2>3. CASE ResumeWait(c)
    <3>1. CosUnused'
      BY <1>1, <1>2, <1>3, <2>3 DEF ResumeWait, CoRec
    <3>2. OpsUnused'
      BY <1>1, <1>3, <2>3 DEF ResumeWait, OpRec
    <3> QED
      BY <3>1, <3>2 DEF Unused
  <2> QED
    BY <1>9, <2>1, <2>2, <2>3 DEF Coroutine, Resume
<1>10. ASSUME NEW threw \in BOOLEAN, Return(threw)
       PROVE  Unused'
  BY <1>1, <1>2, <1>3, <1>10 DEF Return, CoRec, Unused
<1>11. ASSUME Finish
       PROVE  Unused'
  BY <1>1, <1>3, <1>11 DEF Finish, NoCo, Unused
<1>12. ASSUME UNCHANGED <<co, op>>
       PROVE  Unused'
  BY <1>1, <1>12 DEF Unused
<1>13. ASSUME SweepNext
       PROVE  Unused'
  BY <1>1, <1>3, <1>13 DEF SweepNext, Idle, Unused
<1> QED
  BY <1>4, <1>5, <1>7, <1>8, <1>9, <1>10, <1>11, <1>12, <1>13
     DEF Next, Resize, Free, Teardown, CloseRegistry, Drained

LEMMA InitInv ==
    ASSUME Init
    PROVE  IInv /\ Unused
<1>1. Slots = 1..InitCapacity /\ InitCapacity \in Nat \ {0} /\ InitCapacity \in Capacities
  BY SizeAssumption DEF Init, Slots
<1>2. EmptyJob \in Job /\ ~EmptyJob.active
  BY Sizes0 DEF EmptyJob, Job, JobStates
<1>3. jobs \in Seq(Job) /\ Len(jobs) = InitCapacity /\ \A s \in Slots : jobs[s] = EmptyJob
  BY <1>1, <1>2 DEF Init
<1>4. 0 \in SlotOrNone
  BY <1>1, <1>3 DEF SlotOrNone
<1>5. NoCo \in CoRec /\ Idle \in OpRec
  BY <1>4, Sizes0 DEF NoCo, CoRec, Idle, OpRec, Pcs, OpCalls, Terminal
<1>6. co \in [Cos -> CoRec] /\ op \in [Threads -> OpRec]
  BY <1>5 DEF Init
<1>7. TypeOK
  <2>1. queue \in Seq([slot : Slots, id : Ids]) /\ Len(queue) <= QueueCap
    BY Sizes0 DEF Init
  <2>2. activeCount \in Nat /\ nextId \in 0..MaxId /\ exec \in 0..Pool /\ current \in SlotOrNone
    BY <1>4, Sizes0 DEF Init
  <2>3. phase \in Phases /\ sweep \in Nat /\ rootAborted \in BOOLEAN
    BY DEF Init, Phases
  <2> QED
    BY <1>3, <1>6, <2>1, <2>2, <2>3 DEF TypeOK, CoRec, OpRec, Job
<1>8. Sizes /\ OpsOK /\ CallersOK /\ CurrentOK
  BY <1>1, <1>3 DEF Init, Sizes, OpsOK, OpOK, CallersOK, CurrentOK, Idle, NoCo, ExecutorDown, Threads
<1>9. HoldersOK /\ Apart /\ ActiveHeld
  <2>1. (\A c \in Cos : ~Live(c)) /\ 1..Len(queue) = {}
    BY DEF Init, Live, NoCo
  <2>2. \A t \in Threads : op[t].call = "idle"
    BY DEF Init, Idle
  <2> QED
    BY <1>2, <1>3, <2>1, <2>2 DEF HoldersOK, Apart, ActiveHeld
<1>10. ActiveExact
  <2>1. {s \in Slots : jobs[s].active} = {}
    BY <1>2, <1>3
  <2> QED
    BY <2>1, FS_EmptySet DEF ActiveExact, Init
<1>11. Unused
  BY DEF Init, Unused, NoCo, Idle
<1> QED
  BY <1>7, <1>8, <1>9, <1>10, <1>11 DEF IInv, SlotsInv

LEMMA NextInv ==
    ASSUME Discipline, IInv, Unused, [Next]_vars
    PROVE  IInv' /\ Unused'
<1>1. CASE Next
  <2>1. ASSUME NEW t \in Threads, ApiCall(t) \/ Complete(t)
        PROVE  IInv'
    BY <2>1, SpawnKeeps, ReleaseKeeps, CancelKeeps, SubmitKeeps, ResetKeeps, RequestCancelKeeps, WakeKeeps
       DEF ApiCall, Complete
  <2>2. ASSUME TaskCall
        PROVE  IInv'
    <3>1. ASSUME NEW id \in Ids, Join(id)
          PROVE  IInv'
      BY <3>1, JoinKeeps
    <3>2. SpawnRefused \/ ApiError => IInv'
      BY RefusedKeeps DEF SpawnRefused, ApiError, AtCall
    <3> QED
      BY <2>2, <3>1, <3>2, YieldKeeps, SleepKeeps DEF TaskCall
  <2>3. ASSUME NEW c \in Cos, Start(c) \/ CancelQueued(c) \/ Coroutine(c)
        PROVE  IInv'
    BY <2>3, StartKeeps, ResumeYieldKeeps, ResumeWaitKeeps, JoinRoundKeeps DEF Coroutine, Resume
  <2>4. ASSUME NEW threw \in BOOLEAN, Return(threw)
        PROVE  IInv'
    BY <2>4, ReturnKeeps
  <2>5. ASSUME NEW n \in Capacities, Resize(n)
        PROVE  IInv'
    BY <2>5, ResizeKeeps
  <2>6. (Free \/ Teardown) => IInv'
    BY ClosingKeeps, DrainedKeeps DEF Teardown
  <2>7. IInv'
    BY <1>1, <2>1, <2>2, <2>3, <2>4, <2>5, <2>6, FinishKeeps DEF Next
  <2> QED
    BY <1>1, <2>7, UnusedKeeps
<1>2. CASE UNCHANGED vars
  <2>1. Unused'
    BY <1>2 DEF vars, Unused
  <2>2. TypeOK' /\ ActiveExact'
    BY <1>2 DEF vars, IInv, TypeOK, ActiveExact, Slots, SlotOrNone
  <2>3. Slots' = Slots /\ \A c \in Cos : Live(c)' <=> Live(c)
    BY <1>2 DEF vars, Slots, Live
  <2>4. Sizes' /\ CallersOK' /\ CurrentOK' /\ Apart' /\ ActiveHeld'
    BY <1>2, <2>3 DEF vars, IInv, SlotsInv, Sizes, CallersOK, CurrentOK, Apart, ActiveHeld, ExecutorDown
  <2>5. OpsOK' /\ HoldersOK'
    BY <1>2, <2>3 DEF vars, IInv, SlotsInv, OpsOK, OpOK, HoldersOK, Borrowed, Closing
  <2> QED
    BY <2>1, <2>2, <2>4, <2>5 DEF IInv, SlotsInv
<1> QED
  BY <1>1, <1>2

(* The inductive invariant of the registry holds in every reachable state. *)
LEMMA Inv ==
    ASSUME Discipline
    PROVE  Spec => [](IInv /\ Unused)
<1>1. Init => IInv /\ Unused
  BY InitInv
<1>2. (IInv /\ Unused) /\ [Next]_vars => (IInv /\ Unused)'
  BY NextInv
<1> QED
  BY <1>1, <1>2, PTL DEF Spec

(* Every record of the registry, the executor and the calls in progress    *)
(* keeps its type, and the executor's queue its capacity, however the      *)
(* registry is resized.                                                    *)
THEOREM TypeCorrect ==
    ASSUME Discipline
    PROVE  Spec => []TypeOK
<1>1. IInv /\ Unused => TypeOK
  BY DEF IInv
<1> QED
  BY <1>1, Inv, PTL

(* A submission the executor holds borrows its slot until finish: the slot *)
(* is neither reset nor given to another task meanwhile.                   *)
THEOREM Borrows ==
    ASSUME Discipline
    PROVE  Spec => []SubmissionBorrowsSlot
<1>1. IInv /\ Unused => SubmissionBorrowsSlot
  BY DEF IInv, SlotsInv, HoldersOK, Borrowed, SubmissionBorrowsSlot, Held, Live
<1> QED
  BY <1>1, Inv, PTL

(* active_count is the number of active jobs, on every path by which a job *)
(* stops being active: finish, a rejected submission, and the replacement  *)
(* of the whole registry.                                                  *)
THEOREM CountExact ==
    ASSUME Discipline
    PROVE  Spec => []ActiveExact
<1>1. IInv /\ Unused => ActiveExact
  BY DEF IInv
<1> QED
  BY <1>1, Inv, PTL

=============================================================================
