-------------------------- MODULE TimerOwnerProofs --------------------------
(***************************************************************************)
(* What TimerScheduler guarantees to a timer whose slot nobody else took:   *)
(* its callback is released exactly once and, for a one-shot timer, called   *)
(* at most once; a cancellation reaches its coroutine, and is final.        *)
(***************************************************************************)
EXTENDS TimerSchedulerProofs

-----------------------------------------------------------------------------
(* Timers that never shared their slot.                                    *)

(* Ids are handed out once, and a slot owns the callback of its timer.     *)
Names ==
    /\ \A s \in Slots : jobs[s].id <= nextId /\ jobs[s].callback \in {0, jobs[s].id}
    /\ \A s, r \in Slots : jobs[s].id = jobs[r].id /\ jobs[s].id # 0 => s = r
    /\ \A k \in 1..Len(queue) : queue[k].id <= nextId
    /\ \A c \in Cos : Live(c) => co[c].id <= nextId
    /\ \A t \in Threads : Starting(t) => op[t].id <= nextId

(* A timer is in one place: a start, the queue, or a coroutine.            *)
OnePlace ==
    /\ \A k, l \in 1..Len(queue) : queue[k].id = queue[l].id => k = l
    /\ \A c, d \in Cos : (Live(c) /\ Live(d) /\ co[c].id = co[d].id) => c = d
    /\ \A t, u \in Threads : (Starting(t) /\ Starting(u) /\ op[t].id = op[u].id) => t = u
    /\ \A k \in 1..Len(queue), c \in Cos : Live(c) => queue[k].id # co[c].id
    /\ \A k \in 1..Len(queue), t \in Threads : Starting(t) => queue[k].id # op[t].id
    /\ \A c \in Cos, t \in Threads : (Live(c) /\ Starting(t)) => co[c].id # op[t].id

(* Only the timer i uses the slot s.                                       *)
OnlyUser(s, i) ==
    /\ \A k \in 1..Len(queue) : (queue[k].slot = s /\ queue[k].epoch = epoch) => queue[k].id = i
    /\ \A c \in Cos : (Live(c) /\ co[c].slot = s /\ co[c].epoch = epoch) => co[c].id = i
    /\ \A t \in Threads : (Starting(t) /\ op[t].slot = s) => op[t].id = i

Alone == \A s \in Own : OnlyUser(s, jobs[s].id)

(* An undisturbed timer finds itself, and its callback, in its slot.       *)
Owns(s, i) == jobs[s].id = i /\ jobs[s].callback = i

Owners ==
    /\ \A k \in 1..Len(queue) : queue[k].id \notin disturbed =>
          queue[k].epoch = epoch /\ Owns(queue[k].slot, queue[k].id)
    /\ \A c \in Cos : (Live(c) /\ co[c].id \notin disturbed) =>
          co[c].epoch = epoch /\ Owns(co[c].slot, co[c].id)
    /\ \A t \in Threads : (Starting(t) /\ op[t].id \notin disturbed) => Owns(op[t].slot, op[t].id)

HeldBy(i) ==
    \/ \E k \in 1..Len(queue) : queue[k].id = i
    \/ \E c \in Cos : Live(c) /\ co[c].id = i
    \/ \E t \in Threads : Starting(t) /\ op[t].id = i

(* The references the registry holds, and the slots that hold them.        *)
Counted == \A i \in Ids \ disturbed : refs[i] = IF HeldBy(i) THEN 1 ELSE 0
Kept == \A s \in Slots : jobs[s].callback \notin {0} \cup disturbed => HeldBy(jobs[s].callback)

OwnInv == Names /\ OnePlace /\ Alone /\ Owners /\ Counted /\ Kept

(* A waiting coroutine is the one its slot names, and a cancellation has   *)
(* reached it or is on its way.                                            *)
Waiting ==
    \A c \in Cos : (co[c].pc = "await" /\ co[c].id \notin disturbed) =>
        /\ jobs[co[c].slot].awaitActive /\ jobs[co[c].slot].handle = c
        /\ jobs[co[c].slot].cancelled =>
              co[c].woken \/ \E t \in Threads : op[t].call = "wake" /\ op[t].handle = c

(* A one-shot timer that is still before its callback has not fired.       *)
Before == {"loop", "begin", "await", "fire"}
Unfired ==
    /\ \A i \in Ids : i > nextId => fired[i] = 0
    /\ \A k \in 1..Len(queue) : queue[k].id \notin disturbed => fired[queue[k].id] = 0
    /\ \A t \in Threads : (Starting(t) /\ op[t].id \notin disturbed) => fired[op[t].id] = 0
    /\ \A c \in Cos : (co[c].pc \in Before /\ co[c].id \notin disturbed
                       /\ jobs[co[c].slot].kind = "after") => fired[co[c].id] = 0

FireInv == AfterFiresOnce /\ Unfired

-----------------------------------------------------------------------------
(* Who uses a slot.                                                        *)

LEMMA Holders ==
    ASSUME Typed, NEW S \in SUBSET Slots
    PROVE  /\ \A k \in 1..Len(queue) :
                  (queue[k].slot \in S /\ queue[k].epoch = epoch) => queue[k].id \in HolderIds(S)
           /\ \A c \in Cos :
                  (Live(c) /\ co[c].slot \in S /\ co[c].epoch = epoch) => co[c].id \in HolderIds(S)
           /\ \A t \in Threads : (Starting(t) /\ op[t].slot \in S) => op[t].id \in HolderIds(S)
<1>1. ASSUME NEW k \in 1..Len(queue), queue[k].slot \in S, queue[k].epoch = epoch
      PROVE  queue[k].id \in HolderIds(S)
  <2>1. queue[k] \in Held
    BY DEF Held
  <2> QED
    BY <1>1, <2>1 DEF HolderIds
<1>2. ASSUME NEW c \in Cos, Live(c), co[c].slot \in S, co[c].epoch = epoch
      PROVE  co[c].id \in HolderIds(S)
  <2> DEFINE h == [slot |-> co[c].slot, id |-> co[c].id, epoch |-> co[c].epoch]
  <2>1. h \in Held
    BY <1>2 DEF Held, Live
  <2>2. h.slot = co[c].slot /\ h.id = co[c].id /\ h.epoch = co[c].epoch
    OBVIOUS
  <2> HIDE DEF h
  <2>3. h \in {g \in Held : g.slot \in S /\ g.epoch = epoch}
    BY <1>2, <2>1, <2>2
  <2> QED
    BY <2>2, <2>3 DEF HolderIds
<1>3. ASSUME NEW t \in Threads, Starting(t), op[t].slot \in S
      PROVE  op[t].id \in HolderIds(S)
  BY <1>3 DEF HolderIds, Starting
<1> QED
  BY <1>1, <1>2, <1>3

(* A step that moves no timer.                                             *)
HoldersSame ==
    /\ UNCHANGED <<queue, nextId, epoch, disturbed, refs>>
    /\ \A s \in Slots : /\ jobs'[s].id = jobs[s].id /\ jobs'[s].kind = jobs[s].kind
                        /\ jobs'[s].callback = jobs[s].callback
    /\ \A c \in Cos : /\ Live(c)' <=> Live(c)
                      /\ co'[c].slot = co[c].slot /\ co'[c].id = co[c].id
                      /\ co'[c].epoch = co[c].epoch
    /\ \A t \in Threads : /\ Starting(t)' <=> Starting(t)
                          /\ Starting(t) => op'[t].slot = op[t].slot /\ op'[t].id = op[t].id

LEMMA SameOwn ==
    ASSUME CountInv, OwnInv, HoldersSame
    PROVE  OwnInv' /\ Own' = Own /\ \A i \in Ids : HeldBy(i)' <=> HeldBy(i)
<1> USE DEF OwnInv
<1>1. Own' = Own
  BY DEF Own, HoldersSame
<1>2. \A i : HeldBy(i)' <=> HeldBy(i)
  BY DEF HeldBy, HoldersSame
<1>3. Names' /\ OnePlace'
  BY DEF Names, OnePlace, HoldersSame
<1>4. Alone'
  <2> SUFFICES ASSUME NEW s \in Own PROVE OnlyUser(s, jobs[s].id)'
    BY <1>1 DEF Alone
  <2>1. OnlyUser(s, jobs[s].id) /\ jobs'[s].id = jobs[s].id
    BY DEF Alone, HoldersSame, Own
  <2> QED
    BY <2>1 DEF OnlyUser, HoldersSame
<1>5. Owners'
  <2>1. \A s \in Slots : \A i : Owns(s, i)' <=> Owns(s, i)
    BY DEF Owns, HoldersSame
  <2>2. /\ \A k \in 1..Len(queue) : queue[k].slot \in Slots
        /\ \A c \in Cos : Live(c) => co[c].slot \in Slots
        /\ \A t \in Threads : Starting(t) => op[t].slot \in Slots
    BY Facts, EntryType DEF CountInv, Typed, Starting
  <2>3. \A k \in 1..Len(queue) : Owns(queue[k].slot, queue[k].id)' <=> Owns(queue[k].slot, queue[k].id)
    BY <2>1, <2>2 DEF HoldersSame, Owns
  <2>4. \A c \in Cos : Live(c) => (Owns(co[c].slot, co[c].id)' <=> Owns(co[c].slot, co[c].id))
    BY <2>2 DEF HoldersSame, Owns
  <2>5. \A t \in Threads : Starting(t) => (Owns(op[t].slot, op[t].id)' <=> Owns(op[t].slot, op[t].id))
    BY <2>2 DEF HoldersSame, Owns
  <2> QED
    BY <2>3, <2>4, <2>5 DEF Owners, HoldersSame
<1>6. Counted'
  BY <1>2 DEF Counted, HoldersSame
<1>7. Kept'
  BY <1>2 DEF Kept, HoldersSame
<1> QED
  BY <1>1, <1>2, <1>3, <1>4, <1>5, <1>6, <1>7

(* Who is who: an undisturbed coroutine is alone in its slot.              *)
LEMMA AloneThere ==
    ASSUME CountInv, OwnInv, NEW c \in Cos, Live(c), co[c].id \notin disturbed
    PROVE  /\ co[c].slot \in Slots /\ co[c].id \in Ids /\ co[c].epoch = epoch
           /\ jobs[co[c].slot].id = co[c].id /\ co[c].slot \in Own
           /\ \A d \in Cos : (Live(d) /\ co[d].slot = co[c].slot /\ co[d].epoch = epoch) => d = c
<1>1. /\ co[c].slot \in Slots /\ co[c].id \in Ids /\ co[c].epoch = epoch
      /\ jobs[co[c].slot].id = co[c].id
  BY DEF CountInv, Typed, OwnInv, Owners, Owns
<1>2. co[c].slot \in Own
  BY <1>1, Sizes DEF Own
<1>3. ASSUME NEW d \in Cos, Live(d), co[d].slot = co[c].slot, co[d].epoch = epoch
      PROVE  d = c
  <2>1. co[d].id = co[c].id
    BY <1>1, <1>2, <1>3 DEF OwnInv, Alone, OnlyUser
  <2> QED
    BY <1>3, <2>1 DEF OwnInv, OnePlace
<1> QED
  BY <1>1, <1>2, <1>3

TInv == OwnInv /\ Waiting /\ FireInv

(* What CancelIsFinal says of a step.                                      *)
Final ==
    \A s \in Own : (jobs[s].cancelled /\ jobs'[s].id = jobs[s].id) =>
        /\ jobs'[s].cancelled /\ jobs'[s].state \in Terminal /\ ~jobs'[s].active
        /\ fired'[jobs[s].id] = fired[jobs[s].id]

LEMMA FinalIf ==
    ASSUME CountInv', \A s \in Own : (jobs[s].cancelled /\ jobs'[s].id = jobs[s].id) =>
                        jobs'[s].cancelled /\ fired'[jobs[s].id] = fired[jobs[s].id]
    PROVE  Final
<1>1. \A s \in Slots : /\ jobs'[s].state \in Terminal => ~jobs'[s].active
                       /\ jobs'[s].cancelled => jobs'[s].state \in Terminal
  BY DEF CountInv, Flags
<1> QED
  BY <1>1 DEF Final, Own

-----------------------------------------------------------------------------
(* Steps of a coroutine that stays in its place.                           *)

(* What a coroutine that begins to wait leaves behind, and that a one-shot *)
(* timer does not go back before its callback.                             *)
WaitsRight(c, j, k) ==
    /\ k.pc = "await" => j.awaitActive /\ j.handle = c /\ (j.cancelled => k.woken)
    /\ jobs[co[c].slot].cancelled => j.cancelled
    /\ k.pc \in Before => co[c].pc \in Before \/ j.kind # "after"

Fires(c, j, k) ==
    /\ co[c].pc = "fire" /\ k.pc = "callback" /\ ~jobs[co[c].slot].cancelled
    /\ \A i \in Ids \ {j.id} : fired'[i] = fired[i]
    /\ j.id \in Ids => fired'[j.id] <= fired[j.id] + 1

LEMMA CoStepSame ==
    ASSUME CountInv, NEW c \in Cos, NEW j \in JobRec, NEW k \in CoRec, CoStep(c, j, k)
    PROVE  /\ HoldersSame /\ co[c].slot \in Slots
           /\ jobs'[co[c].slot] = j /\ \A r \in Slots \ {co[c].slot} : jobs'[r] = jobs[r]
           /\ co'[c] = k /\ \A d \in Cos \ {c} : co'[d] = co[d]
<1>0. PICK s \in Slots : s = co[c].slot
  BY DEF CoStep, CountInv, Typed
<1>1. jobs'[s] = j /\ \A r \in Slots \ {s} : jobs'[r] = jobs[r]
  BY <1>0, JobWritten DEF CoStep, CountInv
<1>2. co'[c] = k /\ \A d \in Cos \ {c} : co'[d] = co[d]
  BY CoWritten DEF CoStep, CountInv
<1>3. \A t \in Threads : /\ Starting(t)' <=> Starting(t)
                         /\ op'[t].slot = op[t].slot /\ op'[t].id = op[t].id
  BY DEF CoStep, OpsStay, Starting
<1>4. \A d \in Cos : /\ Live(d)' <=> Live(d)
                     /\ co'[d].slot = co[d].slot /\ co'[d].id = co[d].id
                     /\ co'[d].epoch = co[d].epoch
  BY <1>2 DEF CoStep, Live
<1>5. \A r \in Slots : /\ jobs'[r].id = jobs[r].id /\ jobs'[r].kind = jobs[r].kind
                       /\ jobs'[r].callback = jobs[r].callback
  BY <1>0, <1>1 DEF CoStep
<1> QED
  BY <1>0, <1>1, <1>2, <1>3, <1>4, <1>5 DEF HoldersSame, CoStep

LEMMA CoStepWaiting ==
    ASSUME CountInv, TInv, NEW c \in Cos, NEW j \in JobRec, NEW k \in CoRec,
           CoStep(c, j, k), WaitsRight(c, j, k)
    PROVE  Waiting'
<1>0. /\ HoldersSame /\ co[c].slot \in Slots
      /\ jobs'[co[c].slot] = j /\ \A r \in Slots \ {co[c].slot} : jobs'[r] = jobs[r]
      /\ co'[c] = k /\ \A d \in Cos \ {c} : co'[d] = co[d]
  BY CoStepSame
<1> SUFFICES ASSUME NEW d \in Cos, co'[d].pc = "await", co'[d].id \notin disturbed
             PROVE  /\ jobs'[co'[d].slot].awaitActive /\ jobs'[co'[d].slot].handle = d
                    /\ jobs'[co'[d].slot].cancelled =>
                          co'[d].woken \/ \E t \in Threads : op'[t].call = "wake" /\ op'[t].handle = d
  BY <1>0 DEF Waiting, HoldersSame
<1>1. CASE d = c
  <2>1. k.slot = co[c].slot
    BY DEF CoStep
  <2> QED
    BY <1>0, <1>1, <2>1 DEF WaitsRight
<1>2. CASE d # c
  <2>1. co'[d] = co[d] /\ Live(d)
    BY <1>0, <1>2 DEF Live
  <2>2. /\ co[d].slot \in Slots /\ co[d].epoch = epoch
        /\ \A e \in Cos : (Live(e) /\ co[e].slot = co[d].slot /\ co[e].epoch = epoch) => e = d
    BY <2>1, AloneThere DEF TInv
  <2>3. co[c].slot # co[d].slot
    BY <1>2, <2>2 DEF CoStep
  <2>4. jobs'[co[d].slot] = jobs[co[d].slot]
    BY <1>0, <2>2, <2>3
  <2>5. \A t \in Threads : op[t].call = "wake" /\ op[t].handle = d =>
                             op'[t].call = "wake" /\ op'[t].handle = d
    BY <1>2 DEF CoStep, OpsStay
  <2> QED
    BY <2>1, <2>4, <2>5 DEF TInv, Waiting
<1> QED
  BY <1>1, <1>2

LEMMA CoStepFire ==
    ASSUME CountInv, CountInv', TInv, NEW c \in Cos, NEW j \in JobRec, NEW k \in CoRec,
           CoStep(c, j, k), WaitsRight(c, j, k), fired' = fired \/ Fires(c, j, k)
    PROVE  FireInv' /\ Final
<1>0. /\ HoldersSame /\ co[c].slot \in Slots
      /\ jobs'[co[c].slot] = j /\ \A r \in Slots \ {co[c].slot} : jobs'[r] = jobs[r]
      /\ co'[c] = k /\ \A d \in Cos \ {c} : co'[d] = co[d]
  BY CoStepSame
<1>1. Own' = Own
  BY <1>0, SameOwn DEF TInv
<1>2. /\ k.id = co[c].id /\ k.slot = co[c].slot /\ Live(c) /\ co[c].epoch = epoch
      /\ j.id = jobs[co[c].slot].id /\ j.kind = jobs[co[c].slot].kind
  BY DEF CoStep
<1>3. \A s \in Slots : jobs[s].cancelled => jobs'[s].cancelled
  BY <1>0 DEF WaitsRight
<1>4. /\ \A s \in Slots : jobs[s].id \in 0..MaxId
      /\ fired \in [Ids -> 0..MaxFired] /\ fired' \in [Ids -> 0..MaxFired]
      /\ \A d \in Cos : Live(d) => co[d].slot \in Slots
  BY Facts, JobType DEF CountInv, Typed
<1>5. CASE fired' = fired
  <2>1. AfterFiresOnce'
    BY <1>0, <1>1, <1>5 DEF AfterFiresOnce, Own, TInv, FireInv, HoldersSame
  <2>2. \A d \in Cos : (co'[d].pc \in Before /\ co'[d].id \notin disturbed'
                        /\ jobs'[co'[d].slot].kind = "after") => fired'[co'[d].id] = 0
    <3> SUFFICES ASSUME NEW d \in Cos, co'[d].pc \in Before, co'[d].id \notin disturbed',
                        jobs'[co'[d].slot].kind = "after"
                 PROVE  fired[co'[d].id] = 0
      BY <1>5
    <3>1. co[d].pc \in Before
      BY <1>0, <1>2 DEF WaitsRight
    <3>2. Live(d)
      BY <3>1 DEF Before, Live
    <3>3. jobs'[co[d].slot].kind = jobs[co[d].slot].kind
      BY <1>0, <1>4, <3>2 DEF HoldersSame
    <3> QED
      BY <1>0, <3>1, <3>3 DEF TInv, FireInv, Unfired, HoldersSame
  <2>3. Unfired'
    BY <1>0, <1>5, <2>2 DEF Unfired, TInv, FireInv, HoldersSame
  <2>4. Final
    BY <1>3, <1>5, FinalIf DEF Own
  <2> QED
    BY <2>1, <2>3, <2>4 DEF FireInv
<1>6. CASE Fires(c, j, k)
  <2> DEFINE i == j.id
  <2>1. /\ co[c].pc = "fire" /\ k.pc = "callback" /\ ~jobs[co[c].slot].cancelled
        /\ \A n \in Ids \ {i} : fired'[n] = fired[n]
        /\ i \in Ids => fired'[i] <= fired[i] + 1
    BY <1>6 DEF Fires
  <2>2. i \in Ids /\ i \notin disturbed => co[c].slot \in Own /\ co[c].id = i
    <3> SUFFICES ASSUME i \in Ids, i \notin disturbed
                 PROVE  co[c].slot \in Own /\ co[c].id = i
      OBVIOUS
    <3>1. co[c].slot \in Own
      BY <1>0, <1>2, Sizes DEF Own
    <3> QED
      BY <1>2, <3>1 DEF TInv, OwnInv, Alone, OnlyUser
  <2>3. i <= nextId
    BY <1>0, <1>2 DEF TInv, OwnInv, Names
  <2>4. \A s \in Slots : jobs[s].id = i /\ i # 0 => s = co[c].slot
    BY <1>0, <1>2 DEF TInv, OwnInv, Names
  <2> HIDE DEF i
  <2>5. \A n \in Ids : n > nextId => fired'[n] = 0
    <3> SUFFICES ASSUME NEW n \in Ids, n > nextId PROVE fired'[n] = 0
      OBVIOUS
    <3>1. n # i
      BY <2>3, Sizes DEF CountInv, Typed, Ids
    <3> QED
      BY <2>1, <3>1 DEF TInv, FireInv, Unfired
  <2>6. \A q \in 1..Len(queue) : queue[q].id \notin disturbed => fired'[queue[q].id] = 0
    <3> SUFFICES ASSUME NEW q \in 1..Len(queue), queue[q].id \notin disturbed
                 PROVE  fired'[queue[q].id] = 0
      OBVIOUS
    <3>1. queue[q].id \in Ids
      BY Facts, EntryType DEF CountInv
    <3>2. queue[q].id # i
      BY <1>2, <2>2, <3>1 DEF TInv, OwnInv, OnePlace
    <3> QED
      BY <2>1, <3>1, <3>2 DEF TInv, FireInv, Unfired
  <2>7. \A t \in Threads : (Starting(t) /\ op[t].id \notin disturbed) => fired'[op[t].id] = 0
    <3> SUFFICES ASSUME NEW t \in Threads, Starting(t), op[t].id \notin disturbed
                 PROVE  fired'[op[t].id] = 0
      OBVIOUS
    <3>1. op[t].id \in Ids
      BY DEF CountInv, Typed
    <3>2. op[t].id # i
      BY <1>2, <2>2, <3>1 DEF TInv, OwnInv, OnePlace
    <3> QED
      BY <2>1, <3>1, <3>2 DEF TInv, FireInv, Unfired
  <2>8. \A d \in Cos : (co'[d].pc \in Before /\ co'[d].id \notin disturbed
                        /\ jobs'[co'[d].slot].kind = "after") => fired'[co'[d].id] = 0
    <3> SUFFICES ASSUME NEW d \in Cos, co'[d].pc \in Before, co'[d].id \notin disturbed,
                        jobs'[co'[d].slot].kind = "after"
                 PROVE  fired'[co'[d].id] = 0
      OBVIOUS
    <3>1. d # c
      BY <1>0, <2>1 DEF Before
    <3>2. co'[d] = co[d] /\ Live(d) /\ co[d].slot \in Slots /\ co[d].id \in Ids
      BY <1>0, <3>1 DEF Before, Live, CountInv, Typed
    <3>3. co[d].id # i
      BY <1>2, <2>2, <3>1, <3>2 DEF TInv, OwnInv, OnePlace
    <3>4. jobs[co[d].slot].kind = "after"
      BY <1>0, <3>2 DEF HoldersSame
    <3> QED
      BY <2>1, <3>2, <3>3, <3>4 DEF TInv, FireInv, Unfired
  <2>9. Unfired'
    <3>1. /\ UNCHANGED <<queue, nextId, disturbed>>
          /\ \A t \in Threads : (Starting(t)' <=> Starting(t)) /\ (Starting(t) => op'[t].id = op[t].id)
      BY <1>0 DEF HoldersSame
    <3> QED
      BY <2>5, <2>6, <2>7, <2>8, <3>1 DEF Unfired
  <2>10. AfterFiresOnce'
    <3> SUFFICES ASSUME NEW s \in Own, jobs'[s].kind = "after" PROVE fired'[jobs'[s].id] <= 1
      BY <1>1 DEF AfterFiresOnce
    <3>1. s \in Slots /\ jobs[s].id \in Ids /\ jobs'[s].id = jobs[s].id /\ jobs[s].kind = "after"
      BY <1>0, <1>4, Sizes DEF Own, HoldersSame
    <3>2. CASE jobs[s].id # i
      BY <2>1, <3>1, <3>2 DEF TInv, FireInv, AfterFiresOnce
    <3>3. CASE jobs[s].id = i
      <4>1. s = co[c].slot /\ i \notin disturbed /\ i \in Ids
        BY <2>4, <3>1, <3>3, Sizes DEF Own
      <4>2. co[c].id = i
        BY <2>2, <4>1
      <4>3. fired[i] = 0
        BY <2>1, <3>1, <4>1, <4>2 DEF TInv, FireInv, Unfired, Before
      <4> QED
        BY <1>4, <2>1, <3>1, <3>3, <4>1, <4>3 DEF MaxFired
    <3> QED
      BY <3>2, <3>3
  <2>11. Final
    <3>1. \A s \in Own : jobs[s].cancelled => fired'[jobs[s].id] = fired[jobs[s].id]
      <4> SUFFICES ASSUME NEW s \in Own, jobs[s].cancelled
                   PROVE  fired'[jobs[s].id] = fired[jobs[s].id]
        OBVIOUS
      <4>1. s \in Slots /\ jobs[s].id \in Ids
        BY <1>4, Sizes DEF Own
      <4>2. jobs[s].id # i
        BY <2>1, <2>4, <4>1, Sizes
      <4> QED
        BY <2>1, <4>1, <4>2
    <3> QED
      BY <1>3, <3>1, FinalIf DEF Own
  <2> QED
    BY <2>9, <2>10, <2>11 DEF FireInv
<1> QED
  BY <1>5, <1>6

LEMMA CoStepOwn ==
    ASSUME CountInv, CountInv', TInv, NEW c \in Cos, NEW j \in JobRec, NEW k \in CoRec,
           CoStep(c, j, k), WaitsRight(c, j, k), fired' = fired \/ Fires(c, j, k)
    PROVE  TInv' /\ Final
<1>1. OwnInv'
  BY CoStepSame, SameOwn DEF TInv
<1> QED
  BY <1>1, CoStepWaiting, CoStepFire DEF TInv

LEMMA CoOwn ==
    ASSUME CountInv, CountInv', TInv, NEW c \in Cos,
           \/ Loop(c) \/ BeginWait(c) \/ Fire(c) \/ Done(c) \/ ResumeWait(c)
           \/ \E failed \in BOOLEAN : AfterCallback(c, failed)
    PROVE  TInv' /\ Final
<1>0. ASSUME Live(c)
      PROVE  jobs[co[c].slot] \in JobRec
  BY <1>0, AtFacts DEF CountInv
<1>1. CASE Loop(c)
  <2>1. PICK k \in CoRec :
            /\ CoStep(c, jobs[co[c].slot], k) /\ k.pc \in {"cancelled", "begin"}
            /\ co[c].pc = "loop" /\ fired' = fired
    BY <1>1, LoopIs
  <2>2. WaitsRight(c, jobs[co[c].slot], k)
    BY <2>1 DEF WaitsRight, Before
  <2> QED
    BY <1>0, <2>1, <2>2, CoStepOwn DEF CoStep
<1>2. CASE BeginWait(c)
  <2>1. PICK j \in JobRec, k \in CoRec :
            /\ CoStep(c, j, k) /\ k.pc = "await" /\ co[c].pc = "begin" /\ k.woken = j.cancelled
            /\ j.awaitActive /\ j.handle = c
            /\ j.cancelled = jobs[co[c].slot].cancelled /\ fired' = fired
    BY <1>2, BeginWaitIs
  <2>2. WaitsRight(c, j, k)
    BY <2>1 DEF WaitsRight, Before
  <2> QED
    BY <2>1, <2>2, CoStepOwn
<1>3. CASE Fire(c)
  <2>1. PICK j \in JobRec, k \in CoRec :
            /\ CoStep(c, j, k) /\ co[c].pc = "fire"
            /\ j.cancelled = jobs[co[c].slot].cancelled
            /\ \/ k.pc = "cancelled" /\ fired' = fired
               \/ /\ k.pc = "callback" /\ ~j.cancelled
                  /\ \A i \in Ids \ {j.id} : fired'[i] = fired[i]
                  /\ j.id \in Ids => fired'[j.id] <= fired[j.id] + 1
    BY <1>3, FireIs
  <2>2. WaitsRight(c, j, k) /\ (fired' = fired \/ Fires(c, j, k))
    BY <2>1 DEF WaitsRight, Before, Fires
  <2> QED
    BY <2>1, <2>2, CoStepOwn
<1>4. CASE Done(c)
  <2>1. PICK j \in JobRec, k \in CoRec :
            /\ CoStep(c, j, k) /\ k.pc = "drop"
            /\ j.cancelled = jobs[co[c].slot].cancelled /\ fired' = fired
    BY <1>4, DoneIs
  <2>2. WaitsRight(c, j, k)
    BY <2>1 DEF WaitsRight, Before
  <2> QED
    BY <2>1, <2>2, CoStepOwn
<1>5. CASE ResumeWait(c)
  <2>1. PICK j \in JobRec, k \in CoRec :
            /\ CoStep(c, j, k) /\ k.pc \in {"cancelled", "fire"} /\ co[c].pc = "await"
            /\ j.cancelled = jobs[co[c].slot].cancelled /\ fired' = fired
    BY <1>5, ResumeWaitIs
  <2>2. WaitsRight(c, j, k)
    BY <2>1 DEF WaitsRight, Before
  <2> QED
    BY <2>1, <2>2, CoStepOwn
<1>6. ASSUME NEW failed \in BOOLEAN, AfterCallback(c, failed)
      PROVE  TInv' /\ Final
  <2>1. PICK k \in CoRec :
            /\ CoStep(c, jobs[co[c].slot], k) /\ k.pc \in {"completed", "failed", "loop"}
            /\ k.pc = "loop" => jobs[co[c].slot].kind # "after"
            /\ fired' = fired
    BY <1>6, AfterCallbackIs
  <2>2. WaitsRight(c, jobs[co[c].slot], k)
    BY <2>1 DEF WaitsRight, Before
  <2> QED
    BY <1>0, <2>1, <2>2, CoStepOwn DEF CoStep
<1> QED
  BY <1>1, <1>2, <1>3, <1>4, <1>5, <1>6

-----------------------------------------------------------------------------
(* Steps of a call that leave the timers where they are.                   *)

(* A step that may only cancel, or wake, and fires nothing.                *)
LEMMA AsideOwn ==
    ASSUME CountInv, CountInv', TInv, CosStay,
           UNCHANGED <<queue, nextId, epoch, disturbed, refs, fired>>,
           \A s \in Slots : /\ jobs'[s].id = jobs[s].id /\ jobs'[s].kind = jobs[s].kind
                            /\ jobs'[s].callback = jobs[s].callback
                            /\ jobs'[s].awaitActive = jobs[s].awaitActive
                            /\ jobs'[s].handle = jobs[s].handle
                            /\ jobs[s].cancelled => jobs'[s].cancelled,
           \A t \in Threads : /\ Starting(t)' <=> Starting(t)
                              /\ Starting(t) => op'[t].slot = op[t].slot /\ op'[t].id = op[t].id,
           \* a waiting coroutine stays woken, and is told of a cancellation
           \A c \in Cos : co[c].woken => co'[c].woken,
           \A t \in Threads, c \in Cos : (op[t].call = "wake" /\ op[t].handle = c) =>
               co'[c].woken \/ (op'[t].call = "wake" /\ op'[t].handle = c),
           \A s \in Slots : (jobs'[s].cancelled /\ ~jobs[s].cancelled /\ jobs[s].awaitActive) =>
               \E t \in Threads : op'[t].call = "wake" /\ op'[t].handle = jobs[s].handle
    PROVE  TInv' /\ Final
<1>1. HoldersSame
  BY DEF HoldersSame, CosStay, Live
<1>2. OwnInv' /\ Own' = Own
  BY <1>1, SameOwn DEF TInv
<1>3. \A c \in Cos : Live(c) => co[c].slot \in Slots
  BY DEF CountInv, Typed
<1>4. Waiting'
  <2> SUFFICES ASSUME NEW c \in Cos, co'[c].pc = "await", co'[c].id \notin disturbed
               PROVE  /\ jobs'[co'[c].slot].awaitActive /\ jobs'[co'[c].slot].handle = c
                      /\ jobs'[co'[c].slot].cancelled =>
                            co'[c].woken \/ \E t \in Threads : op'[t].call = "wake" /\ op'[t].handle = c
    BY DEF Waiting
  <2>0. PICK s \in Slots : s = co[c].slot
    BY <1>3 DEF CosStay, Live
  <2>1. co[c].pc = "await" /\ co[c].id \notin disturbed /\ co'[c].slot = s
    BY <2>0 DEF CosStay
  <2>2. /\ jobs[s].awaitActive /\ jobs[s].handle = c
        /\ jobs[s].cancelled =>
              co[c].woken \/ \E t \in Threads : op[t].call = "wake" /\ op[t].handle = c
    BY <2>0, <2>1 DEF TInv, Waiting
  <2>3. jobs'[s].awaitActive /\ jobs'[s].handle = c
    BY <2>2
  <2>4. jobs'[s].cancelled =>
            co'[c].woken \/ \E t \in Threads : op'[t].call = "wake" /\ op'[t].handle = c
    <3>1. CASE jobs[s].cancelled
      BY <2>2, <3>1
    <3>2. CASE ~jobs[s].cancelled
      BY <2>2, <3>2
    <3> QED
      BY <3>1, <3>2
  <2> QED
    BY <2>1, <2>3, <2>4
<1>5. FireInv'
  <2>1. AfterFiresOnce'
    BY <1>2 DEF AfterFiresOnce, Own, TInv, FireInv
  <2>2. \A d \in Cos : (co'[d].pc \in Before /\ co'[d].id \notin disturbed'
                        /\ jobs'[co'[d].slot].kind = "after") => fired'[co'[d].id] = 0
    <3> SUFFICES ASSUME NEW d \in Cos, co'[d].pc \in Before, co'[d].id \notin disturbed',
                        jobs'[co'[d].slot].kind = "after"
                 PROVE  fired[co'[d].id] = 0
      OBVIOUS
    <3>1. /\ co[d].pc \in Before /\ co[d].slot = co'[d].slot /\ co[d].id = co'[d].id
          /\ co[d].slot \in Slots
      BY <1>3 DEF CosStay, Before, Live
    <3>2. jobs[co[d].slot].kind = "after"
      BY <3>1
    <3> QED
      BY <3>1, <3>2 DEF TInv, FireInv, Unfired
  <2>3. Unfired'
    BY <2>2 DEF Unfired, TInv, FireInv
  <2> QED
    BY <2>1, <2>3 DEF FireInv
<1>6. Final
  BY FinalIf DEF Own
<1> QED
  BY <1>2, <1>4, <1>5, <1>6 DEF TInv

LEMMA StayWoken ==
    ASSUME UNCHANGED co
    PROVE  \A c \in Cos : co[c].woken => co'[c].woken
OBVIOUS

LEMMA CancelOwn ==
    ASSUME CountInv, TInv, NEW t \in Threads, NEW id \in Ids, Cancel(t, id)
    PROVE  TInv' /\ Final
<1>1. /\ CountInv' /\ CosStay /\ UNCHANGED jobs
      /\ op[t].call = "idle" /\ op'[t].call = "cancel"
      /\ \A u \in Threads \ {t} : op'[u] = op[u]
  BY CancelCount
<1>2. UNCHANGED <<jobs, co, queue, nextId, epoch, disturbed, refs, fired>>
  BY DEF Cancel
<1>3. \A u \in Threads : /\ Starting(u)' <=> Starting(u)
                         /\ Starting(u) => op'[u].slot = op[u].slot /\ op'[u].id = op[u].id
  BY <1>1 DEF Starting
<1>4. \A u \in Threads, c \in Cos : (op[u].call = "wake" /\ op[u].handle = c) =>
          (op'[u].call = "wake" /\ op'[u].handle = c)
  BY <1>1
<1> QED
  BY <1>1, <1>2, <1>3, <1>4, AsideOwn

LEMMA RequestCancelOwn ==
    ASSUME CountInv, TInv, NEW t \in Threads, RequestCancel(t)
    PROVE  TInv' /\ Final
<1>0. PICK s \in Slots : s = op[t].slot
  BY RequestCancelCount
<1>1. /\ CountInv' /\ CosStay /\ op[t].call = "cancel"
      /\ op'[t].call \in {"idle", "wake"}
      /\ \A u \in Threads \ {t} : op'[u] = op[u]
      /\ \A r \in Slots \ {s} : jobs'[r] = jobs[r]
      /\ \/ jobs' = jobs
         \/ /\ ~jobs[s].cancelled
            /\ jobs' = [jobs EXCEPT ![s].cancelled = TRUE, ![s].state = "CANCELLED",
                                    ![s].active = FALSE]
            /\ jobs[s].awaitActive => op'[t].call = "wake" /\ op'[t].handle = jobs[s].handle
  BY <1>0, RequestCancelCount
<1>2. UNCHANGED <<co, queue, nextId, epoch, disturbed, refs, fired>>
  BY DEF RequestCancel
<1>3. \A u \in Threads : /\ Starting(u)' <=> Starting(u)
                         /\ Starting(u) => op'[u].slot = op[u].slot /\ op'[u].id = op[u].id
  BY <1>1 DEF Starting
<1>4. \A u \in Threads, c \in Cos : (op[u].call = "wake" /\ op[u].handle = c) =>
          (op'[u].call = "wake" /\ op'[u].handle = c)
  BY <1>1
<1>5. /\ jobs'[s].id = jobs[s].id /\ jobs'[s].kind = jobs[s].kind
      /\ jobs'[s].callback = jobs[s].callback
      /\ jobs'[s].awaitActive = jobs[s].awaitActive
      /\ jobs'[s].handle = jobs[s].handle
      /\ jobs[s].cancelled => jobs'[s].cancelled
  <2>1. CASE jobs' = jobs
    BY <2>1
  <2>2. CASE jobs' # jobs
    <3> DEFINE j == [jobs[s] EXCEPT !.cancelled = TRUE, !.state = "CANCELLED", !.active = FALSE]
    <3>1. jobs[s] \in JobRec /\ jobs \in [Slots -> JobRec]
      BY Facts DEF CountInv, Typed
    <3>2. jobs' = [jobs EXCEPT ![s] = j]
      BY <1>1, <2>2
    <3>3. /\ j.id = jobs[s].id /\ j.kind = jobs[s].kind /\ j.callback = jobs[s].callback
          /\ j.awaitActive = jobs[s].awaitActive /\ j.handle = jobs[s].handle /\ j.cancelled
      BY <3>1 DEF JobRec
    <3> HIDE DEF j
    <3>4. jobs'[s] = j
      BY <3>1, <3>2
    <3> QED
      BY <3>3, <3>4
  <2> QED
    BY <2>1, <2>2
<1>6. \A r \in Slots : /\ jobs'[r].id = jobs[r].id /\ jobs'[r].kind = jobs[r].kind
                       /\ jobs'[r].callback = jobs[r].callback
                       /\ jobs'[r].awaitActive = jobs[r].awaitActive
                       /\ jobs'[r].handle = jobs[r].handle
                       /\ jobs[r].cancelled => jobs'[r].cancelled
  BY <1>1, <1>5
<1>7. \A r \in Slots : (jobs'[r].cancelled /\ ~jobs[r].cancelled /\ jobs[r].awaitActive) =>
          \E u \in Threads : op'[u].call = "wake" /\ op'[u].handle = jobs[r].handle
  <2>1. \A r \in Slots : (jobs'[r].cancelled /\ ~jobs[r].cancelled) => r = s /\ jobs' # jobs
    BY <1>1
  <2> QED
    BY <1>1, <2>1
<1> QED
  BY <1>1, <1>2, <1>3, <1>4, <1>6, <1>7, StayWoken, AsideOwn

LEMMA WakeOwn ==
    ASSUME CountInv, TInv, NEW t \in Threads, Wake(t)
    PROVE  TInv' /\ Final
<1>1. /\ CountInv' /\ CosStay /\ UNCHANGED jobs /\ op[t].call = "wake"
      /\ op'[t].call = "idle"
      /\ \A u \in Threads \ {t} : op'[u] = op[u]
      /\ \A c \in Cos : co'[c].woken <=> co[c].woken \/ op[t].handle = c
  BY WakeCount
<1>2. UNCHANGED <<jobs, queue, nextId, epoch, disturbed, refs, fired>>
  BY DEF Wake
<1>3. \A u \in Threads : /\ Starting(u)' <=> Starting(u)
                         /\ Starting(u) => op'[u].slot = op[u].slot /\ op'[u].id = op[u].id
  BY <1>1 DEF Starting
<1>4. \A u \in Threads, c \in Cos : (op[u].call = "wake" /\ op[u].handle = c) =>
          co'[c].woken \/ (op'[u].call = "wake" /\ op'[u].handle = c)
  BY <1>1
<1>5. \A c \in Cos : co[c].woken => co'[c].woken
  BY <1>1
<1> QED
  BY <1>1, <1>2, <1>3, <1>4, <1>5, AsideOwn

LEMMA ClosingOwn ==
    ASSUME CountInv, TInv, Free \/ CloseRegistry \/ SweepNext
    PROVE  TInv' /\ Final
<1>1. /\ CountInv' /\ CosStay /\ UNCHANGED jobs
      /\ \A t \in Threads : \/ op'[t] = op[t]
                            \/ op[t].call = "idle" /\ op'[t].call = "cancel"
  BY ClosingCount
<1>2. UNCHANGED <<jobs, co, queue, nextId, epoch, disturbed, refs, fired>>
  BY DEF Free, CloseRegistry, SweepNext
<1>3. \A u \in Threads : /\ Starting(u)' <=> Starting(u)
                         /\ Starting(u) => op'[u].slot = op[u].slot /\ op'[u].id = op[u].id
  BY <1>1 DEF Starting
<1>4. \A u \in Threads, c \in Cos : (op[u].call = "wake" /\ op[u].handle = c) =>
          (op'[u].call = "wake" /\ op'[u].handle = c)
  BY <1>1
<1> QED
  BY <1>1, <1>2, <1>3, <1>4, AsideOwn

LEMMA RejectOwn ==
    ASSUME CountInv, TInv, NEW t \in Threads, op[t].call = "submit",
           jobs' = [jobs EXCEPT ![op[t].slot].active = FALSE, ![op[t].slot].state = "FAILED"],
           activeCount' = CountWithout(jobs[op[t].slot]),
           op' = [op EXCEPT ![t].call = "rejected"],
           UNCHANGED <<queue, nextId, co, exec, phase, sweep, epoch, disturbed, refs, fired>>
    PROVE  TInv' /\ Final
<1>1. /\ CountInv' /\ CosStay
      /\ op'[t].call = "rejected" /\ op'[t].slot = op[t].slot /\ op'[t].id = op[t].id
      /\ \A u \in Threads \ {t} : op'[u] = op[u]
      /\ \A r \in Slots : /\ jobs'[r].id = jobs[r].id /\ jobs'[r].kind = jobs[r].kind
                          /\ jobs'[r].callback = jobs[r].callback
                          /\ jobs'[r].cancelled = jobs[r].cancelled
                          /\ jobs'[r].awaitActive = jobs[r].awaitActive
                          /\ jobs'[r].handle = jobs[r].handle
  BY RejectCount
<1>2. \A u \in Threads : /\ Starting(u)' <=> Starting(u)
                         /\ Starting(u) => op'[u].slot = op[u].slot /\ op'[u].id = op[u].id
  BY <1>1 DEF Starting
<1>3. \A u \in Threads, c \in Cos : (op[u].call = "wake" /\ op[u].handle = c) =>
          (op'[u].call = "wake" /\ op'[u].handle = c)
  BY <1>1
<1>4. \A r \in Slots : /\ jobs'[r].id = jobs[r].id /\ jobs'[r].kind = jobs[r].kind
                       /\ jobs'[r].callback = jobs[r].callback
                       /\ jobs'[r].awaitActive = jobs[r].awaitActive
                       /\ jobs'[r].handle = jobs[r].handle
                       /\ jobs[r].cancelled => jobs'[r].cancelled
  BY <1>1
<1>5. \A r \in Slots : (jobs'[r].cancelled /\ ~jobs[r].cancelled /\ jobs[r].awaitActive) =>
          \E u \in Threads : op'[u].call = "wake" /\ op'[u].handle = jobs[r].handle
  BY <1>1
<1>6. CountInv' /\ CosStay
  BY <1>1
<1> QED
  BY <1>2, <1>3, <1>4, <1>5, <1>6, StayWoken, AsideOwn

-----------------------------------------------------------------------------
(* Steps that move a timer from one place to the next.                     *)

(* What the moves that change no slot share.                               *)
LEMMA MovedOwn ==
    ASSUME CountInv, CountInv', TInv,
           UNCHANGED <<jobs, nextId, epoch, disturbed, refs, fired>>,
           Names', OnePlace', Alone', Owners', \A i : HeldBy(i)' <=> HeldBy(i), Waiting', Unfired'
    PROVE  TInv' /\ Final
<1>1. Own' = Own
  BY DEF Own
<1>2. Counted' /\ Kept'
  BY DEF TInv, OwnInv, Counted, Kept
<1>3. AfterFiresOnce'
  BY <1>1 DEF AfterFiresOnce, TInv, FireInv
<1>4. Final
  BY FinalIf DEF Own
<1> QED
  BY <1>2, <1>3, <1>4 DEF TInv, OwnInv, FireInv

(* The executor accepts a timer.                                           *)
LEMMA AcceptOwn ==
    ASSUME CountInv, TInv, NEW t \in Threads, op[t].call = "submit",
           queue' = Append(queue, [slot |-> op[t].slot, id |-> op[t].id, epoch |-> epoch]),
           op' = [op EXCEPT ![t] = Idle],
           UNCHANGED <<jobs, activeCount, nextId, co, exec, phase, sweep, epoch, disturbed, refs, fired>>
    PROVE  TInv' /\ Final
<1> DEFINE n == Len(queue) + 1
<1>1. /\ CountInv' /\ CosStay /\ op[t].slot \in Slots
      /\ Len(queue') = n
      /\ \A k \in 1..Len(queue) : queue'[k] = queue[k]
      /\ queue'[n].slot = op[t].slot /\ queue'[n].id = op[t].id /\ queue'[n].epoch = epoch
      /\ op'[t].call = "idle"
      /\ \A u \in Threads \ {t} : op'[u] = op[u]
  BY AcceptCount
<1>2. \A k \in 1..Len(queue') : (k \in 1..Len(queue) /\ queue'[k] = queue[k]) \/ k = n
  BY <1>1, Facts DEF CountInv
<1>3. n \in 1..Len(queue') /\ 1..Len(queue) \subseteq 1..Len(queue')
  BY <1>1, Facts DEF CountInv
<1>4. Starting(t) /\ ~Starting(t)' /\ \A u \in Threads \ {t} : Starting(u)' <=> Starting(u)
  BY <1>1 DEF Starting
<1>5. \A c \in Cos : (Live(c)' <=> Live(c)) /\ co'[c] = co[c]
  BY DEF Live
<1> HIDE DEF n
<1>6. Names'
  BY <1>1, <1>2, <1>4, <1>5 DEF TInv, OwnInv, Names
<1>7. OnePlace'
  <2>1. \A k, l \in 1..Len(queue') : queue'[k].id = queue'[l].id => k = l
    BY <1>1, <1>2, <1>4 DEF TInv, OwnInv, OnePlace
  <2>2. \A k \in 1..Len(queue'), c \in Cos : Live(c)' => queue'[k].id # co'[c].id
    BY <1>1, <1>2, <1>4, <1>5 DEF TInv, OwnInv, OnePlace
  <2>3. \A k \in 1..Len(queue'), u \in Threads : Starting(u)' => queue'[k].id # op'[u].id
    BY <1>1, <1>2, <1>4 DEF TInv, OwnInv, OnePlace
  <2>4. /\ \A c, d \in Cos : (Live(c)' /\ Live(d)' /\ co'[c].id = co'[d].id) => c = d
        /\ \A u, v \in Threads : (Starting(u)' /\ Starting(v)' /\ op'[u].id = op'[v].id) => u = v
        /\ \A c \in Cos, u \in Threads : (Live(c)' /\ Starting(u)') => co'[c].id # op'[u].id
    BY <1>1, <1>4, <1>5 DEF TInv, OwnInv, OnePlace
  <2> QED
    BY <2>1, <2>2, <2>3, <2>4 DEF OnePlace
<1>8. Alone'
  <2> SUFFICES ASSUME NEW s \in Own PROVE OnlyUser(s, jobs[s].id)'
    BY DEF Alone, Own
  <2>1. OnlyUser(s, jobs[s].id)
    BY DEF TInv, OwnInv, Alone
  <2>2. \A k \in 1..Len(queue') : (queue'[k].slot = s /\ queue'[k].epoch = epoch) =>
            queue'[k].id = jobs[s].id
    BY <1>1, <1>2, <1>4, <2>1 DEF OnlyUser
  <2>3. \A u \in Threads : (Starting(u)' /\ op'[u].slot = s) => op'[u].id = jobs[s].id
    BY <1>1, <1>4, <2>1 DEF OnlyUser
  <2> QED
    BY <1>5, <2>1, <2>2, <2>3 DEF OnlyUser
<1>9. Owners'
  <2>1. \A k \in 1..Len(queue') : queue'[k].id \notin disturbed =>
            queue'[k].epoch = epoch /\ Owns(queue'[k].slot, queue'[k].id)
    BY <1>1, <1>2, <1>4 DEF TInv, OwnInv, Owners
  <2>2. \A u \in Threads : (Starting(u)' /\ op'[u].id \notin disturbed) => Owns(op'[u].slot, op'[u].id)
    BY <1>1, <1>4 DEF TInv, OwnInv, Owners
  <2>3. \A c \in Cos : (Live(c)' /\ co'[c].id \notin disturbed) =>
            co'[c].epoch = epoch /\ Owns(co'[c].slot, co'[c].id)
    BY <1>5 DEF TInv, OwnInv, Owners
  <2> QED
    BY <2>1, <2>2, <2>3 DEF Owners, Owns
<1>10. \A i : HeldBy(i)' <=> HeldBy(i)
  <2> SUFFICES ASSUME NEW i PROVE HeldBy(i)' <=> HeldBy(i)
    OBVIOUS
  <2>1. HeldBy(i) => HeldBy(i)'
    BY <1>1, <1>3, <1>4, <1>5 DEF HeldBy
  <2>2. HeldBy(i)' => HeldBy(i)
    BY <1>1, <1>2, <1>4, <1>5 DEF HeldBy
  <2> QED
    BY <2>1, <2>2
<1>11. Waiting'
  <2>1. \A c \in Cos : (\E u \in Threads : op[u].call = "wake" /\ op[u].handle = c) =>
            \E u \in Threads : op'[u].call = "wake" /\ op'[u].handle = c
    BY <1>1
  <2> QED
    BY <2>1 DEF TInv, Waiting
<1>12. Unfired'
  <2>1. \A k \in 1..Len(queue') : queue'[k].id \notin disturbed => fired[queue'[k].id] = 0
    BY <1>1, <1>2, <1>4 DEF TInv, FireInv, Unfired
  <2>2. \A u \in Threads : (Starting(u)' /\ op'[u].id \notin disturbed) => fired[op'[u].id] = 0
    BY <1>1, <1>4 DEF TInv, FireInv, Unfired
  <2> QED
    BY <2>1, <2>2 DEF TInv, FireInv, Unfired
<1> QED
  BY <1>1, <1>6, <1>7, <1>8, <1>9, <1>10, <1>11, <1>12, MovedOwn

(* A coroutine takes the first timer of the queue.                         *)
LEMMA BeginOwn ==
    ASSUME CountInv, TInv, NEW c \in Cos, NEW pc \in {"loop", "cancelled"}, Begin(c, pc)
    PROVE  TInv' /\ Final
<1>1. /\ CountInv' /\ ~Live(c) /\ Len(queue) \in Nat \ {0}
      /\ \A k \in 1..Len(queue') : queue'[k] = queue[k + 1] /\ k + 1 \in 1..Len(queue)
      /\ \A k \in 1..Len(queue) : k # 1 => k - 1 \in 1..Len(queue')
      /\ co'[c].pc = pc /\ co'[c].slot = queue[1].slot /\ co'[c].id = queue[1].id
      /\ co'[c].epoch = queue[1].epoch
      /\ \A d \in Cos \ {c} : co'[d] = co[d]
  BY BeginCount
<1>2. UNCHANGED <<jobs, op, nextId, epoch, disturbed, refs, fired>>
  BY DEF Begin
<1>3. 1 \in 1..Len(queue)
  BY <1>1
<1>4. \A k \in 1..Len(queue') : k + 1 # 1 /\ k \in Int
  OBVIOUS
<1>5. Live(c)' /\ \A d \in Cos \ {c} : Live(d)' <=> Live(d)
  BY <1>1 DEF Live
<1>6. \A t \in Threads : Starting(t)' <=> Starting(t)
  BY <1>2 DEF Starting
<1>7. Names'
  BY <1>1, <1>2, <1>3, <1>5, <1>6 DEF TInv, OwnInv, Names
<1>8. OnePlace'
  <2>1. \A k, l \in 1..Len(queue') : queue'[k].id = queue'[l].id => k = l
    <3> SUFFICES ASSUME NEW k \in 1..Len(queue'), NEW l \in 1..Len(queue'),
                        queue'[k].id = queue'[l].id
                 PROVE  k = l
      OBVIOUS
    <3>1. k + 1 = l + 1
      BY <1>1 DEF TInv, OwnInv, OnePlace
    <3> QED
      BY <3>1, <1>4
  <2>2. \A k \in 1..Len(queue') : queue'[k].id # queue[1].id
    <3> SUFFICES ASSUME NEW k \in 1..Len(queue'), queue'[k].id = queue[1].id
                 PROVE  FALSE
      OBVIOUS
    <3>1. k + 1 = 1
      BY <1>1, <1>3 DEF TInv, OwnInv, OnePlace
    <3> QED
      BY <3>1, <1>4
  <2>3. \A k \in 1..Len(queue'), d \in Cos : Live(d)' => queue'[k].id # co'[d].id
    BY <1>1, <1>5, <2>2 DEF TInv, OwnInv, OnePlace
  <2>4. \A k \in 1..Len(queue'), t \in Threads : Starting(t)' => queue'[k].id # op'[t].id
    BY <1>1, <1>2, <1>6 DEF TInv, OwnInv, OnePlace
  <2>5. \A d, e \in Cos : (Live(d)' /\ Live(e)' /\ co'[d].id = co'[e].id) => d = e
    BY <1>1, <1>3, <1>5 DEF TInv, OwnInv, OnePlace
  <2>6. \A d \in Cos, t \in Threads : (Live(d)' /\ Starting(t)') => co'[d].id # op'[t].id
    BY <1>1, <1>2, <1>3, <1>5, <1>6 DEF TInv, OwnInv, OnePlace
  <2>7. \A t, u \in Threads : (Starting(t)' /\ Starting(u)' /\ op'[t].id = op'[u].id) => t = u
    BY <1>2, <1>6 DEF TInv, OwnInv, OnePlace
  <2> QED
    BY <2>1, <2>3, <2>4, <2>5, <2>6, <2>7 DEF OnePlace
<1>9. Alone'
  <2> SUFFICES ASSUME NEW s \in Own PROVE OnlyUser(s, jobs[s].id)'
    BY <1>2 DEF Alone, Own
  <2>1. OnlyUser(s, jobs[s].id)
    BY DEF TInv, OwnInv, Alone
  <2>2. \A k \in 1..Len(queue') : (queue'[k].slot = s /\ queue'[k].epoch = epoch) =>
            queue'[k].id = jobs[s].id
    BY <1>1, <2>1 DEF OnlyUser
  <2>3. \A d \in Cos : (Live(d)' /\ co'[d].slot = s /\ co'[d].epoch = epoch) =>
            co'[d].id = jobs[s].id
    BY <1>1, <1>3, <1>5, <2>1 DEF OnlyUser
  <2> QED
    BY <1>2, <1>6, <2>1, <2>2, <2>3 DEF OnlyUser
<1>10. Owners'
  <2>1. \A k \in 1..Len(queue') : queue'[k].id \notin disturbed =>
            queue'[k].epoch = epoch /\ Owns(queue'[k].slot, queue'[k].id)
    BY <1>1 DEF TInv, OwnInv, Owners
  <2>2. \A d \in Cos : (Live(d)' /\ co'[d].id \notin disturbed) =>
            co'[d].epoch = epoch /\ Owns(co'[d].slot, co'[d].id)
    BY <1>1, <1>3, <1>5 DEF TInv, OwnInv, Owners
  <2>3. \A t \in Threads : (Starting(t)' /\ op'[t].id \notin disturbed) => Owns(op'[t].slot, op'[t].id)
    BY <1>2, <1>6 DEF TInv, OwnInv, Owners
  <2> QED
    BY <1>2, <2>1, <2>2, <2>3 DEF Owners, Owns
<1>11. \A i : HeldBy(i)' <=> HeldBy(i)
  <2> SUFFICES ASSUME NEW i PROVE HeldBy(i)' <=> HeldBy(i)
    OBVIOUS
  <2>1. HeldBy(i)' => HeldBy(i)
    BY <1>1, <1>2, <1>3, <1>5, <1>6 DEF HeldBy
  <2>2. ASSUME NEW k \in 1..Len(queue), queue[k].id = i
        PROVE  HeldBy(i)'
    <3>1. CASE k = 1
      BY <1>1, <1>5, <2>2, <3>1 DEF HeldBy
    <3>2. CASE k # 1
      <4>1. k - 1 \in 1..Len(queue') /\ (k - 1) + 1 = k
        BY <1>1, <3>2
      <4>2. queue'[k - 1] = queue[k]
        BY <1>1, <4>1
      <4> QED
        BY <2>2, <4>1, <4>2 DEF HeldBy
    <3> QED
      BY <3>1, <3>2
  <2>3. ASSUME NEW d \in Cos, Live(d), co[d].id = i
        PROVE  HeldBy(i)'
    BY <1>1, <1>5, <2>3 DEF HeldBy
  <2>4. ASSUME NEW t \in Threads, Starting(t), op[t].id = i
        PROVE  HeldBy(i)'
    BY <1>2, <1>6, <2>4 DEF HeldBy
  <2> QED
    BY <2>1, <2>2, <2>3, <2>4 DEF HeldBy
<1>12. Waiting'
  <2>1. \A d \in Cos : co'[d].pc = "await" => co'[d] = co[d]
    BY <1>1
  <2> QED
    BY <1>2, <2>1 DEF TInv, Waiting
<1>13. Unfired'
  <2>1. \A k \in 1..Len(queue') : queue'[k].id \notin disturbed => fired[queue'[k].id] = 0
    BY <1>1 DEF TInv, FireInv, Unfired
  <2>2. \A d \in Cos : (co'[d].pc \in Before /\ co'[d].id \notin disturbed
                        /\ jobs[co'[d].slot].kind = "after") => fired[co'[d].id] = 0
    BY <1>1, <1>3 DEF TInv, FireInv, Unfired
  <2>3. /\ \A i \in Ids : i > nextId => fired[i] = 0
        /\ \A t \in Threads : (Starting(t)' /\ op'[t].id \notin disturbed) => fired[op'[t].id] = 0
    BY <1>2, <1>6 DEF TInv, FireInv, Unfired
  <2> QED
    BY <1>2, <2>1, <2>2, <2>3 DEF Unfired
<1> QED
  BY <1>1, <1>2, <1>7, <1>8, <1>9, <1>10, <1>11, <1>12, <1>13, MovedOwn

(* The timer i, in slot s, comes to its end and gives its callback back.   *)
LEMMA ReleaseOwn ==
    ASSUME CountInv, CountInv', TInv, NEW s \in Slots, NEW i \in Ids, DropCallback(s),
           UNCHANGED <<queue, nextId, epoch, disturbed, fired>>,
           \A c \in Cos : Live(c)' => Live(c) /\ co'[c] = co[c],
           \A t \in Threads : Starting(t)' => Starting(t) /\ op'[t] = op[t],
           \A t \in Threads : op[t].call = "wake" => op'[t] = op[t],
           HeldBy(i), \A n : HeldBy(n)' <=> HeldBy(n) /\ n # i,
           jobs[s].id \notin {0} \cup disturbed => jobs[s].id = i,
           i \notin disturbed => Owns(s, i)
    PROVE  TInv' /\ Final
<1>1. /\ \A n \in Ids : refs'[n] = IF n = jobs[s].callback THEN refs[n] - 1 ELSE refs[n]
      /\ \A r \in Slots \ {s} : jobs'[r] = jobs[r]
      /\ \A r \in Slots : /\ jobs'[r].id = jobs[r].id /\ jobs'[r].kind = jobs[r].kind
                          /\ jobs'[r].cancelled = jobs[r].cancelled
                          /\ jobs'[r].awaitActive = jobs[r].awaitActive
                          /\ jobs'[r].handle = jobs[r].handle
      /\ jobs'[s].callback = 0
  BY Dropped DEF CountInv
<1>2. Own' = Own
  BY <1>1 DEF Own
<1>3. /\ \A k \in 1..Len(queue) : queue[k].slot \in Slots /\ queue[k].id \in Ids
      /\ \A c \in Cos : Live(c) => co[c].slot \in Slots /\ co[c].id \in Ids
      /\ \A t \in Threads : Starting(t) => op[t].slot \in Slots /\ op[t].id \in Ids
  BY Facts, EntryType DEF CountInv, Typed, Starting
<1>4. \A r \in Slots, n \in Ids \ disturbed : (Owns(r, n) /\ n # i) => Owns(r, n)'
  BY <1>1, Sizes DEF Owns
<1>5. Names'
  BY <1>1 DEF TInv, OwnInv, Names
<1>6. OnePlace'
  BY DEF TInv, OwnInv, OnePlace
<1>7. Alone'
  <2> SUFFICES ASSUME NEW r \in Own PROVE OnlyUser(r, jobs[r].id)'
    BY <1>2 DEF Alone
  <2>1. OnlyUser(r, jobs[r].id) /\ jobs'[r].id = jobs[r].id
    BY <1>1 DEF TInv, OwnInv, Alone, Own
  <2> QED
    BY <2>1 DEF OnlyUser
<1>8. Owners'
  <2>1. ASSUME NEW k \in 1..Len(queue), queue[k].id \notin disturbed
        PROVE  queue[k].epoch = epoch /\ Owns(queue[k].slot, queue[k].id)'
    <3>1. queue[k].epoch = epoch /\ Owns(queue[k].slot, queue[k].id)
      BY <2>1 DEF TInv, OwnInv, Owners
    <3>2. HeldBy(queue[k].id)'
      BY DEF HeldBy
    <3>3. queue[k].id # i
      BY <3>2
    <3> QED
      BY <1>3, <1>4, <2>1, <3>1, <3>3 DEF Owns
  <2>2. ASSUME NEW c \in Cos, Live(c)', co'[c].id \notin disturbed
        PROVE  co'[c].epoch = epoch /\ Owns(co[c].slot, co[c].id)' /\ co'[c] = co[c]
    <3>1. co'[c] = co[c] /\ Live(c)
      BY <2>2
    <3>2. co[c].epoch = epoch /\ Owns(co[c].slot, co[c].id)
      BY <2>2, <3>1 DEF TInv, OwnInv, Owners
    <3>3. co[c].id # i
      <4>1. PICK n : n = co[c].id
        OBVIOUS
      <4>2. HeldBy(n)'
        BY <2>2, <3>1, <4>1 DEF HeldBy
      <4> QED
        BY <4>1, <4>2
    <3>4. co[c].slot \in Slots /\ co[c].id \in Ids \ disturbed
      BY <1>3, <2>2, <3>1
    <3>5. jobs'[co[c].slot].id = co[c].id /\ jobs'[co[c].slot].callback = co[c].id
      BY <1>4, <3>2, <3>3, <3>4 DEF Owns
    <3> QED
      BY <3>1, <3>2, <3>5 DEF Owns
  <2>3. ASSUME NEW t \in Threads, Starting(t)', op'[t].id \notin disturbed
        PROVE  Owns(op[t].slot, op[t].id)' /\ op'[t] = op[t]
    <3>1. op'[t] = op[t] /\ Starting(t)
      BY <2>3
    <3>2. Owns(op[t].slot, op[t].id)
      BY <2>3, <3>1 DEF TInv, OwnInv, Owners
    <3>3. op[t].id # i
      <4>1. PICK n : n = op[t].id
        OBVIOUS
      <4>2. HeldBy(n)'
        BY <2>3, <3>1, <4>1 DEF HeldBy
      <4> QED
        BY <4>1, <4>2
    <3>4. op[t].slot \in Slots /\ op[t].id \in Ids \ disturbed
      BY <1>3, <2>3, <3>1
    <3>5. jobs'[op[t].slot].id = op[t].id /\ jobs'[op[t].slot].callback = op[t].id
      BY <1>4, <3>2, <3>3, <3>4 DEF Owns
    <3> QED
      BY <3>1, <3>5 DEF Owns
  <2> QED
    BY <2>1, <2>2, <2>3 DEF Owners, Owns
<1>9. Counted'
  <2> SUFFICES ASSUME NEW n \in Ids, n \notin disturbed
               PROVE  refs'[n] = IF HeldBy(n)' THEN 1 ELSE 0
    BY DEF Counted
  <2>1. refs[n] = IF HeldBy(n) THEN 1 ELSE 0
    BY DEF TInv, OwnInv, Counted
  <2>2. CASE n = i
    <3>1. jobs[s].callback = n
      BY <2>2 DEF Owns
    <3> QED
      BY <1>1, <2>1, <2>2, <3>1
  <2>3. CASE n # i
    <3>1. n # jobs[s].callback
      BY <2>3, Sizes DEF TInv, OwnInv, Names
    <3> QED
      BY <1>1, <2>1, <2>3, <3>1
  <2> QED
    BY <2>2, <2>3
<1>10. Kept'
  <2> SUFFICES ASSUME NEW r \in Slots, NEW n, n = jobs'[r].callback, n \notin {0} \cup disturbed
               PROVE  HeldBy(n)'
    BY DEF Kept, HeldBy
  <2>1. r # s /\ jobs'[r] = jobs[r]
    BY <1>1
  <2>2. HeldBy(n)
    BY <2>1 DEF TInv, OwnInv, Kept
  <2>3. n # i
    BY <2>1 DEF TInv, OwnInv, Names, Owns
  <2> QED
    BY <2>2, <2>3
<1>11. Waiting'
  <2> SUFFICES ASSUME NEW c \in Cos, co'[c].pc = "await", co'[c].id \notin disturbed
               PROVE  /\ jobs'[co'[c].slot].awaitActive /\ jobs'[co'[c].slot].handle = c
                      /\ jobs'[co'[c].slot].cancelled =>
                            co'[c].woken \/ \E t \in Threads : op'[t].call = "wake" /\ op'[t].handle = c
    BY DEF Waiting
  <2>1. Live(c)'
    BY DEF Live
  <2>2. co'[c] = co[c] /\ co[c].slot \in Slots
    BY <1>3, <2>1
  <2>3. /\ jobs[co[c].slot].awaitActive /\ jobs[co[c].slot].handle = c
        /\ jobs[co[c].slot].cancelled =>
              co[c].woken \/ \E t \in Threads : op[t].call = "wake" /\ op[t].handle = c
    BY <2>2 DEF TInv, Waiting
  <2> QED
    BY <1>1, <2>2, <2>3
<1>12. AfterFiresOnce'
  BY <1>1, <1>2 DEF AfterFiresOnce, Own, TInv, FireInv
<1>13. Unfired'
  <2>1. ASSUME NEW c \in Cos, co'[c].pc \in Before, co'[c].id \notin disturbed,
               jobs'[co'[c].slot].kind = "after"
        PROVE  fired[co'[c].id] = 0
    <3>1. Live(c)'
      BY <2>1 DEF Live, Before
    <3>2. co'[c] = co[c] /\ co[c].slot \in Slots
      BY <1>3, <3>1
    <3> QED
      BY <1>1, <2>1, <3>2 DEF TInv, FireInv, Unfired
  <2> QED
    BY <2>1 DEF TInv, FireInv, Unfired
<1>14. Final
  BY <1>1, FinalIf DEF Own
<1> QED
  BY <1>5, <1>6, <1>7, <1>8, <1>9, <1>10, <1>11, <1>12, <1>13, <1>14 DEF TInv, OwnInv, FireInv

LEMMA RejectedOwn ==
    ASSUME CountInv, TInv, NEW t \in Threads, Rejected(t)
    PROVE  TInv' /\ Final
<1>0. PICK s \in Slots : s = op[t].slot
  BY RejectedCount
<1>1. /\ CountInv' /\ DropCallback(s) /\ op[t].call = "rejected" /\ op'[t].call = "idle"
      /\ \A u \in Threads \ {t} : op'[u] = op[u]
  BY <1>0, RejectedCount
<1>2. UNCHANGED <<co, queue, nextId, epoch, disturbed, fired>>
  BY DEF Rejected
<1>3. Starting(t) /\ ~Starting(t)' /\ \A u \in Threads \ {t} : Starting(u)' <=> Starting(u)
  BY <1>1 DEF Starting
<1>4. PICK i \in Ids : i = op[t].id
  BY <1>3 DEF CountInv, Typed
<1>5. \A c \in Cos : (Live(c)' <=> Live(c)) /\ co'[c] = co[c]
  BY <1>2 DEF Live
<1>6. HeldBy(i)
  BY <1>3, <1>4 DEF HeldBy
<1>7. \A n : HeldBy(n)' <=> HeldBy(n) /\ n # i
  BY <1>1, <1>2, <1>3, <1>4, <1>5 DEF HeldBy, TInv, OwnInv, OnePlace
<1>8. jobs[s].id \notin {0} \cup disturbed => jobs[s].id = i
  BY <1>0, <1>3, <1>4 DEF TInv, OwnInv, Alone, OnlyUser, Own
<1>9. i \notin disturbed => Owns(s, i)
  BY <1>0, <1>3, <1>4 DEF TInv, OwnInv, Owners
<1>10. \A u \in Threads : Starting(u)' => Starting(u) /\ op'[u] = op[u]
  BY <1>1, <1>3
<1>11. \A u \in Threads : op[u].call = "wake" => op'[u] = op[u]
  BY <1>1
<1> QED
  BY <1>1, <1>2, <1>5, <1>6, <1>7, <1>8, <1>9, <1>10, <1>11, ReleaseOwn

LEMMA DropOwn ==
    ASSUME CountInv, TInv, NEW c \in Cos, Drop(c)
    PROVE  TInv' /\ Final
<1>0. PICK s \in Slots : s = co[c].slot
  BY DropCount
<1>1. /\ CountInv' /\ Live(c) /\ DropCallback(s) /\ co[c].pc = "drop" /\ co[c].epoch = epoch
      /\ co'[c].pc = "none" /\ \A d \in Cos \ {c} : co'[d] = co[d]
  BY <1>0, DropCount
<1>2. UNCHANGED <<op, queue, nextId, epoch, disturbed, fired>>
  BY DEF Drop
<1>3. ~Live(c)' /\ \A d \in Cos \ {c} : (Live(d)' <=> Live(d)) /\ co'[d] = co[d]
  BY <1>1 DEF Live
<1>4. PICK i \in Ids : i = co[c].id
  BY <1>1 DEF CountInv, Typed
<1>5. \A t \in Threads : (Starting(t)' <=> Starting(t)) /\ op'[t] = op[t]
  BY <1>2 DEF Starting
<1>6. HeldBy(i)
  BY <1>1, <1>4 DEF HeldBy
<1>7. \A n : HeldBy(n)' <=> HeldBy(n) /\ n # i
  BY <1>1, <1>2, <1>3, <1>4, <1>5 DEF HeldBy, TInv, OwnInv, OnePlace
<1>8. jobs[s].id \notin {0} \cup disturbed => jobs[s].id = i
  BY <1>0, <1>1, <1>4 DEF TInv, OwnInv, Alone, OnlyUser, Own
<1>9. i \notin disturbed => Owns(s, i)
  BY <1>0, <1>1, <1>4 DEF TInv, OwnInv, Owners
<1>10. \A d \in Cos : Live(d)' => Live(d) /\ co'[d] = co[d]
  BY <1>3
<1> QED
  BY <1>1, <1>2, <1>5, <1>6, <1>7, <1>8, <1>9, <1>10, ReleaseOwn

-----------------------------------------------------------------------------
(* Steps that write over slots.                                            *)

(* A start takes a slot, and disturbs those who still use it.              *)
LEMMA StartOwn ==
    ASSUME CountInv, TInv, NEW t \in Threads, NEW kind \in Kinds, Start(t, kind)
    PROVE  TInv' /\ Final
<1>1. PICK s \in Slots :
          /\ CountInv' /\ nextId' = nextId + 1 /\ nextId' \in Ids
          /\ jobs'[s].id = nextId' /\ jobs'[s].callback = nextId' /\ ~jobs'[s].cancelled
          /\ \A r \in Slots \ {s} : jobs'[r] = jobs[r]
          /\ disturbed' = IF HolderIds({s}) = {} THEN disturbed
                          ELSE disturbed \cup HolderIds({s}) \cup {nextId + 1}
          /\ op[t].call = "idle" /\ op'[t].call = "submit"
          /\ op'[t].slot = s /\ op'[t].id = nextId'
          /\ \A u \in Threads \ {t} : op'[u] = op[u]
          /\ \A i \in Ids : refs'[i] = IF i = nextId' THEN refs[i] + 1 ELSE refs[i]
          /\ UNCHANGED <<queue, co, exec, phase, sweep, epoch, fired>>
  BY StartCount
<1>2. PICK n \in Ids : n = nextId' /\ n = nextId + 1 /\ n > nextId /\ n # 0
  BY <1>1, Sizes DEF CountInv, Typed
<1>3. /\ \A k \in 1..Len(queue) : queue[k].slot \in Slots /\ queue[k].id \in Ids
      /\ \A c \in Cos : Live(c) => co[c].slot \in Slots /\ co[c].id \in Ids
      /\ \A u \in Threads : Starting(u) => op[u].slot \in Slots /\ op[u].id \in Ids
      /\ \A r \in Slots : jobs[r].id \in 0..MaxId
  BY Facts, EntryType, JobType DEF CountInv, Typed, Starting
<1>4. nextId \in 0..MaxId /\ \A m \in 0..MaxId : m <= nextId => m <= n /\ m # n
  BY <1>2, Sizes DEF CountInv, Typed
<1>5. /\ \A r \in Slots : jobs[r].id # n /\ jobs[r].id <= n
      /\ \A k \in 1..Len(queue) : queue[k].id # n /\ queue[k].id <= n
      /\ \A c \in Cos : Live(c) => co[c].id # n /\ co[c].id <= n
      /\ \A u \in Threads : Starting(u) => op[u].id # n /\ op[u].id <= n
  BY <1>3, <1>4, Sizes DEF TInv, OwnInv, Names
<1>6. ~Starting(t) /\ Starting(t)' /\ \A u \in Threads \ {t} : Starting(u)' <=> Starting(u)
  BY <1>1 DEF Starting
<1>7. \A c \in Cos : (Live(c)' <=> Live(c)) /\ co'[c] = co[c]
  BY <1>1 DEF Live
<1>8. /\ disturbed \subseteq disturbed' /\ HolderIds({s}) \subseteq disturbed'
      /\ n \notin disturbed' => HolderIds({s}) = {}
  BY <1>1, <1>2
<1>9. /\ \A k \in 1..Len(queue) :
            (queue[k].slot = s /\ queue[k].epoch = epoch) => queue[k].id \in HolderIds({s})
      /\ \A c \in Cos : (Live(c) /\ co[c].slot = s /\ co[c].epoch = epoch) => co[c].id \in HolderIds({s})
      /\ \A u \in Threads : (Starting(u) /\ op[u].slot = s) => op[u].id \in HolderIds({s})
  BY Holders DEF CountInv
<1>10. HeldBy(n)' /\ ~HeldBy(n) /\ \A i : i # n => (HeldBy(i)' <=> HeldBy(i))
  BY <1>1, <1>2, <1>5, <1>6, <1>7 DEF HeldBy
<1>11. Names'
  <2>0. n <= n
    BY <1>2 DEF Ids
  <2>1. \A r \in Slots : jobs'[r].id <= n /\ jobs'[r].callback \in {0, jobs'[r].id}
    <3> SUFFICES ASSUME NEW r \in Slots
                 PROVE  jobs'[r].id <= n /\ jobs'[r].callback \in {0, jobs'[r].id}
      OBVIOUS
    <3>1. CASE r = s
      BY <1>1, <1>2, <2>0, <3>1
    <3>2. CASE r # s
      <4>1. jobs'[r] = jobs[r]
        BY <1>1, <3>2
      <4> QED
        BY <1>5, <4>1 DEF TInv, OwnInv, Names
    <3> QED
      BY <3>1, <3>2
  <2>2. \A r, q \in Slots : jobs'[r].id = jobs'[q].id /\ jobs'[r].id # 0 => r = q
    <3>1. \A r \in Slots : (r = s /\ jobs'[r].id = n) \/ (r # s /\ jobs'[r].id = jobs[r].id /\ jobs[r].id # n)
      BY <1>1, <1>2, <1>5
    <3> QED
      BY <3>1 DEF TInv, OwnInv, Names
  <2>3. /\ \A k \in 1..Len(queue) : queue[k].id <= n
        /\ \A c \in Cos : Live(c)' => co'[c].id <= n
    BY <1>5, <1>7
  <2>4. \A u \in Threads : Starting(u)' => op'[u].id <= n
    BY <1>1, <1>2, <1>5, <1>6, <2>0
  <2> QED
    BY <1>1, <1>2, <2>1, <2>2, <2>3, <2>4 DEF Names
<1>12. OnePlace'
  BY <1>1, <1>2, <1>5, <1>6, <1>7 DEF TInv, OwnInv, OnePlace
<1>13. \A r \in Slots : jobs'[r].id \notin {0} \cup disturbed' =>
           \/ r = s /\ HolderIds({s}) = {}
           \/ r # s /\ r \in Own /\ jobs'[r] = jobs[r]
  BY <1>1, <1>2, <1>8 DEF Own
<1>14. Alone'
  <2> SUFFICES ASSUME NEW r \in Slots, jobs'[r].id \notin {0} \cup disturbed'
               PROVE  OnlyUser(r, jobs[r].id)'
    BY DEF Alone, Own
  <2>1. CASE r = s /\ HolderIds({s}) = {}
    BY <1>1, <1>6, <1>7, <1>9, <2>1 DEF OnlyUser
  <2>2. CASE r # s /\ r \in Own /\ jobs'[r] = jobs[r]
    <3>1. OnlyUser(r, jobs[r].id)
      BY <2>2 DEF TInv, OwnInv, Alone
    <3> QED
      BY <1>1, <1>6, <1>7, <2>2, <3>1 DEF OnlyUser
  <2> QED
    BY <1>13, <2>1, <2>2
<1>15. Owners'
  <2>1. ASSUME NEW k \in 1..Len(queue), queue[k].id \notin disturbed'
        PROVE  queue[k].epoch = epoch' /\ Owns(queue[k].slot, queue[k].id)'
    <3>1. queue[k].epoch = epoch /\ Owns(queue[k].slot, queue[k].id)
      BY <1>8, <2>1 DEF TInv, OwnInv, Owners
    <3>2. queue[k].slot \in Slots \ {s}
      BY <1>3, <1>8, <1>9, <2>1, <3>1
    <3>3. jobs'[queue[k].slot] = jobs[queue[k].slot]
      BY <1>1, <3>2
    <3> QED
      BY <1>1, <3>1, <3>3 DEF Owns
  <2>2. ASSUME NEW c \in Cos, Live(c)', co'[c].id \notin disturbed'
        PROVE  co'[c].epoch = epoch' /\ Owns(co[c].slot, co[c].id)'
    <3>0. Live(c) /\ co[c].id \notin disturbed'
      BY <1>7, <2>2
    <3>1. co[c].epoch = epoch /\ Owns(co[c].slot, co[c].id)
      BY <1>8, <3>0 DEF TInv, OwnInv, Owners
    <3>2. co[c].slot \in Slots \ {s}
      BY <1>3, <1>8, <1>9, <3>0, <3>1
    <3>3. jobs'[co[c].slot] = jobs[co[c].slot]
      BY <1>1, <3>2
    <3> QED
      BY <1>1, <1>7, <3>1, <3>3 DEF Owns
  <2>3. ASSUME NEW u \in Threads, Starting(u)', op'[u].id \notin disturbed'
        PROVE  Owns(op[u].slot, op[u].id)'
    <3>1. CASE u = t
      BY <1>1, <3>1 DEF Owns
    <3>2. CASE u # t
      <4>0. Starting(u) /\ op'[u] = op[u] /\ op[u].id \notin disturbed'
        BY <1>1, <1>6, <2>3, <3>2
      <4>1. Owns(op[u].slot, op[u].id)
        BY <1>8, <4>0 DEF TInv, OwnInv, Owners
      <4>2. op[u].slot \in Slots \ {s}
        BY <1>3, <1>8, <1>9, <4>0
      <4>3. jobs'[op[u].slot] = jobs[op[u].slot]
        BY <1>1, <4>2
      <4> QED
        BY <4>0, <4>1, <4>3 DEF Owns
    <3> QED
      BY <3>1, <3>2
  <2> QED
    BY <1>1, <2>1, <2>2, <2>3 DEF Owners, Owns
<1>16. Counted'
  <2> SUFFICES ASSUME NEW i \in Ids, i \notin disturbed'
               PROVE  refs'[i] = IF HeldBy(i)' THEN 1 ELSE 0
    BY DEF Counted
  <2>1. refs[i] = IF HeldBy(i) THEN 1 ELSE 0
    BY <1>8 DEF TInv, OwnInv, Counted
  <2>2. CASE i = n
    BY <1>1, <1>2, <1>10, <2>1, <2>2
  <2>3. CASE i # n
    BY <1>1, <1>2, <1>10, <2>1, <2>3
  <2> QED
    BY <2>2, <2>3
<1>17. Kept'
  <2> SUFFICES ASSUME NEW r \in Slots, NEW i, i = jobs'[r].callback, i \notin {0} \cup disturbed'
               PROVE  HeldBy(i)'
    BY DEF Kept, HeldBy
  <2>1. CASE r = s
    BY <1>1, <1>2, <1>10, <2>1
  <2>2. CASE r # s
    BY <1>1, <1>8, <1>10, <2>2 DEF TInv, OwnInv, Kept
  <2> QED
    BY <2>1, <2>2
<1>18. \A c \in Cos : (Live(c) /\ co[c].id \notin disturbed') =>
           co[c].id \notin disturbed /\ jobs'[co[c].slot] = jobs[co[c].slot]
  BY <1>1, <1>3, <1>8, <1>9 DEF TInv, OwnInv, Owners
<1>19. Waiting'
  <2> SUFFICES ASSUME NEW c \in Cos, co[c].pc = "await", co[c].id \notin disturbed'
               PROVE  /\ jobs'[co[c].slot].awaitActive /\ jobs'[co[c].slot].handle = c
                      /\ jobs'[co[c].slot].cancelled =>
                            co[c].woken \/ \E u \in Threads : op'[u].call = "wake" /\ op'[u].handle = c
    BY <1>7 DEF Waiting
  <2>1. jobs'[co[c].slot] = jobs[co[c].slot] /\ co[c].id \notin disturbed
    BY <1>18 DEF Live
  <2>2. /\ jobs[co[c].slot].awaitActive /\ jobs[co[c].slot].handle = c
        /\ jobs[co[c].slot].cancelled =>
              co[c].woken \/ \E u \in Threads : op[u].call = "wake" /\ op[u].handle = c
    BY <2>1 DEF TInv, Waiting
  <2> QED
    BY <1>1, <2>1, <2>2
<1>20. fired[n] = 0
  BY <1>2 DEF TInv, FireInv, Unfired
<1>21. AfterFiresOnce'
  <2> SUFFICES ASSUME NEW r \in Slots, jobs'[r].id \notin {0} \cup disturbed', jobs'[r].kind = "after"
               PROVE  fired[jobs'[r].id] <= 1
    BY <1>1 DEF AfterFiresOnce, Own
  <2>1. CASE r = s
    BY <1>1, <1>2, <1>20, <2>1
  <2>2. CASE r # s
    BY <1>13, <2>2 DEF TInv, FireInv, AfterFiresOnce
  <2> QED
    BY <2>1, <2>2
<1>22. Unfired'
  <2>1. \A i \in Ids : i > n => fired[i] = 0
    <3>1. \A i \in Ids : i > n => i > nextId
      BY <1>2, <1>4 DEF Ids
    <3> QED
      BY <3>1 DEF TInv, FireInv, Unfired
  <2>2. \A k \in 1..Len(queue) : queue[k].id \notin disturbed' => fired[queue[k].id] = 0
    BY <1>8 DEF TInv, FireInv, Unfired
  <2>3. \A u \in Threads : (Starting(u)' /\ op'[u].id \notin disturbed') => fired[op'[u].id] = 0
    BY <1>1, <1>2, <1>6, <1>8, <1>20 DEF TInv, FireInv, Unfired
  <2>4. \A c \in Cos : (co[c].pc \in Before /\ co[c].id \notin disturbed'
                        /\ jobs'[co[c].slot].kind = "after") => fired[co[c].id] = 0
    BY <1>18 DEF TInv, FireInv, Unfired, Live, Before
  <2> QED
    BY <1>1, <1>2, <2>1, <2>2, <2>3, <2>4 DEF Unfired
<1>23. Final
  <2>1. \A r \in Own : (jobs[r].cancelled /\ jobs'[r].id = jobs[r].id) =>
            jobs'[r].cancelled /\ fired'[jobs[r].id] = fired[jobs[r].id]
    BY <1>1, <1>2, <1>5 DEF Own
  <2> QED
    BY <1>1, <2>1, FinalIf
<1> QED
  BY <1>11, <1>12, <1>14, <1>15, <1>16, <1>17, <1>19, <1>21, <1>22, <1>23 DEF TInv, OwnInv, FireInv

(* The jobs are freed, and those who still use them are disturbed.         *)
LEMMA FreshOwn ==
    ASSUME CountInv, CountInv', TInv, jobs' = [s \in Slots |-> EmptyJob], refs' = DropAll,
           disturbed \subseteq disturbed', \A i : HeldBy(i) => i \in disturbed',
           UNCHANGED <<nextId, queue, co, op, fired>>
    PROVE  TInv' /\ Final
<1>1. \A s \in Slots : jobs'[s].id = 0 /\ jobs'[s].callback = 0
  BY Records
<1>2. Own' = {}
  BY <1>1 DEF Own
<1>3. /\ \A c \in Cos : Live(c)' <=> Live(c)
      /\ \A t \in Threads : Starting(t)' <=> Starting(t)
      /\ \A i : HeldBy(i)' <=> HeldBy(i)
  BY DEF Live, Starting, HeldBy
<1>4. /\ \A k \in 1..Len(queue) : queue[k].id \in disturbed'
      /\ \A c \in Cos : Live(c) => co[c].id \in disturbed'
      /\ \A t \in Threads : Starting(t) => op[t].id \in disturbed'
  BY DEF HeldBy
<1>5. Names'
  <2>1. 0 <= nextId
    BY DEF CountInv, Typed
  <2> QED
    BY <1>1, <1>3, <2>1 DEF TInv, OwnInv, Names
<1>6. OnePlace'
  BY <1>3 DEF TInv, OwnInv, OnePlace
<1>7. Alone' /\ Kept' /\ AfterFiresOnce'
  BY <1>1, <1>2 DEF Alone, Kept, AfterFiresOnce
<1>8. Owners'
  BY <1>3, <1>4 DEF Owners
<1>9. Counted'
  <2> SUFFICES ASSUME NEW i \in Ids, i \notin disturbed'
               PROVE  refs'[i] = IF HeldBy(i)' THEN 1 ELSE 0
    BY DEF Counted
  <2>1. ~HeldBy(i) /\ ~HeldBy(i)' /\ refs[i] = 0
    BY <1>3 DEF TInv, OwnInv, Counted
  <2>2. \A s \in Slots : jobs[s].callback # i
    BY <2>1, Sizes DEF TInv, OwnInv, Kept
  <2> QED
    BY <2>1, <2>2, DropAllTyped DEF CountInv
<1>10. Waiting'
  BY <1>4 DEF Waiting, Live
<1>11. Unfired'
  <2>1. \A c \in Cos : co[c].pc \in Before => co[c].id \in disturbed'
    BY <1>4 DEF Live, Before
  <2> QED
    BY <1>3, <1>4, <2>1 DEF TInv, FireInv, Unfired
<1>12. Final
  BY <1>1, FinalIf DEF Own
<1> QED
  BY <1>5, <1>6, <1>7, <1>8, <1>9, <1>10, <1>11, <1>12 DEF TInv, OwnInv, FireInv

LEMMA ResizeOwn ==
    ASSUME CountInv, TInv, Resize
    PROVE  TInv' /\ Final
<1>1. CountInv'
  BY ResizeCount
<1>2. disturbed' = disturbed \cup HolderIds(Slots)
  BY DEF Resize
<1>3. /\ \A k \in 1..Len(queue) : queue[k].slot \in Slots
      /\ \A c \in Cos : Live(c) => co[c].slot \in Slots
      /\ \A t \in Threads : Starting(t) => op[t].slot \in Slots
  BY Facts, EntryType DEF CountInv, Typed, Starting
<1>4. /\ \A k \in 1..Len(queue) : queue[k].epoch = epoch => queue[k].id \in HolderIds(Slots)
      /\ \A c \in Cos : (Live(c) /\ co[c].epoch = epoch) => co[c].id \in HolderIds(Slots)
      /\ \A t \in Threads : Starting(t) => op[t].id \in HolderIds(Slots)
  BY <1>3, Holders DEF CountInv
<1>5. \A i : HeldBy(i) => i \in disturbed'
  BY <1>2, <1>4 DEF HeldBy, TInv, OwnInv, Owners
<1>6. /\ jobs' = [s \in Slots |-> EmptyJob] /\ refs' = DropAll
      /\ UNCHANGED <<nextId, queue, co, op, fired>>
  BY DEF Resize
<1> QED
  BY <1>1, <1>2, <1>5, <1>6, FreshOwn

LEMMA DrainedOwn ==
    ASSUME CountInv, TInv, Drained
    PROVE  TInv' /\ Final
<1>1. CountInv'
  BY DrainedCount
<1>2. phase = "drain" /\ queue = <<>> /\ \A c \in Cos : co[c].pc = "none"
  BY DEF Drained
<1>3. Len(queue) = 0 /\ \A c \in Cos : ~Live(c)
  BY <1>2 DEF Live
<1>4. op["host"].call = "idle" /\ op["worker"].call = "idle"
  <2>1. exec # 0 => exec \in Cos
    BY Facts DEF CountInv
  <2>2. ~(exec # 0 /\ co[exec].pc = "callback")
    BY <1>2, <2>1
  <2> QED
    BY <1>2, <2>2 DEF CountInv, Callers, ExecutorDown
<1>5. \A t \in Threads : ~Starting(t)
  BY <1>4 DEF Threads, Starting
<1>6. \A i : ~HeldBy(i)
  BY <1>3, <1>5 DEF HeldBy
<1>7. /\ jobs' = [s \in Slots |-> EmptyJob] /\ refs' = DropAll
      /\ UNCHANGED <<nextId, queue, co, op, fired, disturbed>>
  BY DEF Drained
<1> QED
  BY <1>1, <1>6, <1>7, FreshOwn

-----------------------------------------------------------------------------
(* Every step.                                                             *)

LEMMA InitOwn == Init => TInv
<1> SUFFICES ASSUME Init PROVE TInv
  OBVIOUS
<1>1. /\ Len(queue) = 0 /\ \A c \in Cos : ~Live(c) /\ co[c].pc = "none"
      /\ \A t \in Threads : ~Starting(t)
      /\ \A s \in Slots : jobs[s].id = 0 /\ jobs[s].callback = 0
      /\ \A i \in Ids : refs[i] = 0 /\ fired[i] = 0
      /\ nextId = 0 /\ 1..0 = {}
  BY Records DEF Init, Live, Starting
<1>2. Own = {} /\ \A i : ~HeldBy(i)
  BY <1>1 DEF Own, HeldBy
<1>3. Names /\ OnePlace
  BY <1>1 DEF Names, OnePlace
<1>4. Alone /\ Owners /\ Counted /\ Kept
  BY <1>1, <1>2 DEF Alone, Owners, Counted, Kept
<1>5. Waiting /\ FireInv
  BY <1>1, <1>2 DEF Waiting, FireInv, AfterFiresOnce, Unfired, Before
<1> QED
  BY <1>3, <1>4, <1>5 DEF TInv, OwnInv

LEMMA NextOwn ==
    ASSUME CountInv, TInv, Next
    PROVE  TInv' /\ Final
<1>1. ASSUME NEW t \in Threads, NEW kind \in Kinds, Start(t, kind) PROVE TInv' /\ Final
  BY <1>1, StartOwn
<1>2. ASSUME NEW t \in Threads, NEW id \in Ids, Cancel(t, id) PROVE TInv' /\ Final
  BY <1>2, CancelOwn
<1>3. ASSUME NEW t \in Threads, Submit(t) PROVE TInv' /\ Final
  <2>1. CASE /\ queue' = Append(queue, [slot |-> op[t].slot, id |-> op[t].id, epoch |-> epoch])
             /\ op' = [op EXCEPT ![t] = Idle]
             /\ UNCHANGED <<jobs, activeCount, nextId, co, exec, phase, sweep, epoch,
                            disturbed, refs, fired>>
    <3>1. op[t].call = "submit"
      BY <1>3, SubmitCases
    <3> QED
      BY <2>1, <3>1, AcceptOwn
  <2>2. CASE /\ jobs' = [jobs EXCEPT ![op[t].slot].active = FALSE, ![op[t].slot].state = "FAILED"]
             /\ activeCount' = CountWithout(jobs[op[t].slot])
             /\ op' = [op EXCEPT ![t].call = "rejected"]
             /\ UNCHANGED <<queue, nextId, co, exec, phase, sweep, epoch, disturbed, refs, fired>>
    <3>1. op[t].call = "submit"
      BY <1>3, SubmitCases
    <3> QED
      BY <2>2, <3>1, RejectOwn
  <2> QED
    BY <1>3, <2>1, <2>2, SubmitCases
<1>4. ASSUME NEW t \in Threads, Rejected(t) PROVE TInv' /\ Final
  BY <1>4, RejectedOwn
<1>5. ASSUME NEW t \in Threads, RequestCancel(t) PROVE TInv' /\ Final
  BY <1>5, RequestCancelOwn
<1>6. ASSUME NEW t \in Threads, Wake(t) PROVE TInv' /\ Final
  BY <1>6, WakeOwn
<1>7. ASSUME NEW c \in Cos, Run(c) \/ CancelQueued(c) PROVE TInv' /\ Final
  <2>1. PICK pc \in {"loop", "cancelled"} : Begin(c, pc)
    BY <1>7 DEF Run, CancelQueued
  <2> QED
    BY <2>1, BeginOwn
<1>8. ASSUME NEW c \in Cos,
             \/ Loop(c) \/ BeginWait(c) \/ Fire(c) \/ Done(c) \/ ResumeWait(c)
             \/ \E failed \in BOOLEAN : AfterCallback(c, failed)
      PROVE  TInv' /\ Final
  <2>1. Step(c) \/ ResumeWait(c) \/ \E failed \in BOOLEAN : AfterCallback(c, failed)
    BY <1>8 DEF Step
  <2>2. CountInv'
    BY <2>1, CoCount
  <2> QED
    BY <1>8, <2>2, CoOwn
<1>9. ASSUME NEW c \in Cos, Drop(c) PROVE TInv' /\ Final
  BY <1>9, DropOwn
<1>10. CASE Resize
  BY <1>10, ResizeOwn
<1>11. CASE Free \/ CloseRegistry \/ SweepNext
  BY <1>11, ClosingOwn
<1>12. CASE Drained
  BY <1>12, DrainedOwn
<1> QED
  BY <1>1, <1>2, <1>3, <1>4, <1>5, <1>6, <1>7, <1>8, <1>9, <1>10, <1>11, <1>12
  DEF Next, Complete, Step, Teardown

LEMMA StutterOwn ==
    ASSUME TInv, UNCHANGED vars
    PROVE  TInv'
BY DEF vars, TInv, OwnInv, Names, OnePlace, Alone, OnlyUser, Own, Owners, Owns, HeldBy, Counted,
       Kept, Waiting, FireInv, AfterFiresOnce, Unfired, Live, Starting

LEMMA OwnAlways == Spec => [](CountInv /\ TInv)
<1>1. Init => CountInv /\ TInv
  BY InitCount, InitOwn
<1>2. CountInv /\ TInv /\ [Next]_vars => (CountInv /\ TInv)'
  BY NextCount, NextOwn, StutterOwn
<1> QED
  BY <1>1, <1>2, PTL DEF Spec

-----------------------------------------------------------------------------
(* The theorems.                                                           *)

LEMMA HeldIs ==
    ASSUME Typed, NEW i
    PROVE  HeldBy(i) <=>
               \/ \E h \in Held : h.id = i
               \/ \E t \in Threads : op[t].call \in {"submit", "rejected"} /\ op[t].id = i
<1>1. ASSUME NEW k \in 1..Len(queue), queue[k].id = i
      PROVE  \E h \in Held : h.id = i
  BY <1>1 DEF Held
<1>2. ASSUME NEW c \in Cos, Live(c), co[c].id = i
      PROVE  \E h \in Held : h.id = i
  <2> DEFINE h == [slot |-> co[c].slot, id |-> co[c].id, epoch |-> co[c].epoch]
  <2>1. h \in Held /\ h.id = i
    BY <1>2 DEF Held, Live
  <2> QED
    BY <2>1
<1>3. ASSUME NEW h \in Held, h.id = i
      PROVE  HeldBy(i)
  <2>1. CASE \E k \in 1..Len(queue) : h = queue[k]
    BY <1>3, <2>1 DEF HeldBy
  <2>2. CASE \E c \in {d \in Cos : co[d].pc # "none"} :
                h = [slot |-> co[c].slot, id |-> co[c].id, epoch |-> co[c].epoch]
    <3>1. PICK c \in Cos : Live(c) /\ h = [slot |-> co[c].slot, id |-> co[c].id, epoch |-> co[c].epoch]
      BY <2>2 DEF Live
    <3>2. co[c].id = i
      BY <1>3, <3>1
    <3> QED
      BY <3>1, <3>2 DEF HeldBy
  <2> QED
    BY <1>3, <2>1, <2>2 DEF Held
<1> QED
  BY <1>1, <1>2, <1>3 DEF HeldBy, Starting

(* "Retained before submission; released exactly once": a timer that never *)
(* shared its slot has one reference to its callback from start until its  *)
(* coroutine, or the rejected start, is through, and none afterwards, for  *)
(* any capacity, queue, pool and number of timers, through resizes and     *)
(* turbo_script_free.                                                      *)
THEOREM ReleasedOnce == Spec => []CallbackReleasedOnce
<1>1. CountInv /\ TInv => CallbackReleasedOnce
  BY HeldIs DEF CountInv, TInv, OwnInv, Counted, CallbackReleasedOnce
<1> QED
  BY <1>1, OwnAlways, PTL

(* A one-shot timer that never shared its slot calls its callback at most  *)
(* once, however timer_run's loop, cancellations and the closing registry  *)
(* interleave.                                                             *)
THEOREM FiresOnce == Spec => []AfterFiresOnce
<1>1. CountInv /\ TInv => AfterFiresOnce
  BY DEF TInv, FireInv
<1> QED
  BY <1>1, OwnAlways, PTL

(* No cancellation is lost between the flag that timer.cancel sets under   *)
(* the mutex and the wait of the coroutine: ts_timer_wait saw the flag, or *)
(* the caller is about to complete the await of this very coroutine.       *)
THEOREM WakeupKept == Spec => []NoLostWakeup
<1>1. CountInv /\ TInv => NoLostWakeup
  BY DEF TInv, Waiting, NoLostWakeup
<1> QED
  BY <1>1, OwnAlways, PTL

(* A timer that timer.cancel has cancelled stays terminal and inactive and *)
(* does not start its callback again, whatever step comes next.            *)
THEOREM CancelFinal == Spec => CancelIsFinal
<1>1. CountInv /\ TInv /\ [Next]_vars =>
          [\A s \in Own : (jobs[s].cancelled /\ jobs'[s].id = jobs[s].id) =>
              /\ jobs'[s].cancelled /\ jobs'[s].state \in Terminal /\ ~jobs'[s].active
              /\ fired'[jobs[s].id] = fired[jobs[s].id]]_vars
  BY NextOwn DEF Final
<1> QED
  BY <1>1, OwnAlways, PTL DEF Spec, CancelIsFinal

=============================================================================
