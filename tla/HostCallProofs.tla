--------------------------- MODULE HostCallProofs ---------------------------
(***************************************************************************)
(* Proofs about HostCall, for every quota, every polling interval, every   *)
(* set of options and costs, and every script.                             *)
(***************************************************************************)
EXTENDS HostCall, SequenceTheorems, TLAPS

(* Frames exist exactly while the script runs.                             *)
FramesWhenRunning == frames # <<>> <=> pc \in {"run", "callback"}

(* No frame was entered with more stack than the instance's limit.         *)
BasesBounded == \A i \in 1..Len(frames) : frames[i].base <= budget.stackLimit

(* The accumulator stays below the polling interval, and bounds the steps  *)
(* charged since the flag was raised.                                      *)
AccumulatorBounds ==
    ~Failed(budget) =>
        /\ budget.acc < Interval
        /\ (budget.interrupt /\ flag) => sinceFlag <= budget.acc

(* The inductive invariant.                                                *)
IInv ==
    /\ TypeOK
    /\ FramesWhenRunning
    /\ FrameAccounting
    /\ BasesBounded
    /\ AccumulatorBounds
    /\ NeverInconsistent

-----------------------------------------------------------------------------
(* What the safe points do to a budget.                                    *)

SameFrames(r, b) ==
    /\ r.recursion = b.recursion
    /\ r.stack = b.stack

SameLimits(r, b) ==
    /\ r.recursionLimit = b.recursionLimit
    /\ r.stackLimit = b.stackLimit
    /\ r.interrupt = b.interrupt

(* Polling only ever turns an OK budget into an interrupted one.           *)
LEMMA PollFacts ==
    ASSUME NEW b \in Budgets, NEW f \in BOOLEAN
    PROVE  LET r == PollInterrupt(b, f) IN
           /\ r \in Budgets
           /\ r.steps = b.steps /\ r.acc = b.acc
           /\ SameFrames(r, b) /\ SameLimits(r, b)
           /\ Failed(b) => r = b
           /\ ~Failed(r) => ~Failed(b)
           /\ r.status \in {b.status, "INTERRUPTED"}
           /\ (b.interrupt /\ f) => Failed(r)
    BY DEF PollInterrupt, Fail, Failed, Budgets, Statuses, SameFrames, SameLimits

(* A step that leaves the budget unfailed either adds to the accumulator   *)
(* what it charged or has just polled the interrupt.                       *)
LEMMA StepFacts ==
    ASSUME NEW b \in Budgets, NEW c \in Nat \ {0}, NEW f \in BOOLEAN
    PROVE  LET r == StepPoint(b, c, f) IN
           /\ r \in Budgets
           /\ r.steps <= b.steps
           /\ SameFrames(r, b) /\ SameLimits(r, b)
           /\ Failed(b) => r = b
           /\ ~Failed(r) => /\ ~Failed(b)
                            /\ b.acc < Interval => r.acc < Interval
                            /\ (b.interrupt /\ f) => r.acc = b.acc + (b.steps - r.steps)
           /\ r.status \in {b.status, "LIMIT_EXCEEDED", "INTERRUPTED"}
<1> DEFINE charged == [b EXCEPT !.steps = @ - c, !.acc = 0]
<1>1. CASE Failed(b)
    BY <1>1 DEF StepPoint, Failed, Budgets, SameFrames, SameLimits
<1>2. CASE ~Failed(b) /\ b.steps < c
    BY <1>2 DEF StepPoint, Fail, Failed, Budgets, Statuses, SameFrames, SameLimits
<1>3. CASE ~Failed(b) /\ b.steps >= c /\ b.acc + c < Interval
  <2>1. StepPoint(b, c, f) = [b EXCEPT !.steps = @ - c, !.acc = @ + c]
      BY <1>3, IntervalAssumption DEF StepPoint, Budgets
  <2>2. b.steps - c \in Nat /\ b.acc + c \in Nat
      BY <1>3 DEF Budgets
  <2> DEFINE r == [b EXCEPT !.steps = @ - c, !.acc = @ + c]
  <2>3. /\ r \in Budgets
        /\ r.steps = b.steps - c /\ r.acc = b.acc + c
        /\ r.status = b.status
        /\ SameFrames(r, b) /\ SameLimits(r, b)
      BY <2>2 DEF Budgets, SameFrames, SameLimits
  <2>4. b.steps \in Nat /\ b.acc \in Nat
      BY DEF Budgets
  <2>5. QED
      BY <1>3, <2>1, <2>3, <2>4 DEF Failed
<1>4. CASE ~Failed(b) /\ b.steps >= c /\ b.acc + c >= Interval
  <2>1. /\ charged \in Budgets
        /\ charged.steps = b.steps - c /\ charged.acc = 0
        /\ charged.status = b.status
        /\ SameFrames(charged, b) /\ SameLimits(charged, b)
    <3>1. b.steps - c \in Nat
        BY <1>4 DEF Budgets
    <3>2. QED
        BY <3>1 DEF Budgets, SameFrames, SameLimits
  <2>2. StepPoint(b, c, f) = PollInterrupt(charged, f)
      BY <1>4, IntervalAssumption DEF StepPoint, Budgets
  <2>3. b.steps \in Nat /\ b.acc \in Nat
      BY DEF Budgets
  <2> HIDE DEF charged
  <2>4. QED
      BY <1>4, <2>1, <2>2, <2>3, PollFacts, IntervalAssumption
      DEF Failed, SameFrames, SameLimits
<1>5. b.steps \in Nat /\ b.acc \in Nat /\ Interval \in Nat
    BY IntervalAssumption DEF Budgets
<1>6. \/ Failed(b)
      \/ ~Failed(b) /\ b.steps < c
      \/ ~Failed(b) /\ b.steps >= c /\ b.acc + c < Interval
      \/ ~Failed(b) /\ b.steps >= c /\ b.acc + c >= Interval
    BY <1>5
<1>7. QED
    BY <1>1, <1>2, <1>3, <1>4, <1>6

(* Safe points that charge neither steps nor frames, and poll.             *)
LEMMA LoopFacts ==
    ASSUME NEW b \in Budgets, NEW f \in BOOLEAN
    PROVE  LET r == LoopPoint(b, f) IN
           /\ r \in Budgets
           /\ r.steps = b.steps /\ r.acc = b.acc
           /\ SameFrames(r, b) /\ SameLimits(r, b)
           /\ ~Failed(r) => ~Failed(b)
           /\ r.status \in {b.status, "LIMIT_EXCEEDED", "INTERRUPTED"}
<1> DEFINE charged == [b EXCEPT !.loops = @ - 1]
<1>1. CASE Failed(b)
    BY <1>1 DEF LoopPoint, Failed, Budgets, SameFrames, SameLimits
<1>2. CASE ~Failed(b) /\ b.loops = 0
    BY <1>2 DEF LoopPoint, Fail, Failed, Budgets, Statuses, SameFrames, SameLimits
<1>3. CASE ~Failed(b) /\ b.loops # 0
  <2>1. LoopPoint(b, f) = PollInterrupt(charged, f)
      BY <1>3 DEF LoopPoint
  <2>2. b.loops - 1 \in Nat
      BY <1>3 DEF Budgets
  <2>3. /\ charged \in Budgets
        /\ charged.steps = b.steps /\ charged.acc = b.acc
        /\ charged.status = b.status
        /\ SameFrames(charged, b) /\ SameLimits(charged, b)
      BY <2>2 DEF Budgets, SameFrames, SameLimits
  <2> HIDE DEF charged
  <2>4. QED
      BY <1>3, <2>1, <2>3, PollFacts DEF Failed, SameFrames, SameLimits
<1>4. QED
    BY <1>1, <1>2, <1>3

LEMMA CallbackBeforeFacts ==
    ASSUME NEW b \in Budgets, NEW f \in BOOLEAN
    PROVE  LET r == CallbackBeforePoint(b, f) IN
           /\ r \in Budgets
           /\ r.steps = b.steps /\ r.acc = b.acc
           /\ SameFrames(r, b) /\ SameLimits(r, b)
           /\ ~Failed(r) => ~Failed(b)
           /\ r.status \in {b.status, "LIMIT_EXCEEDED", "INTERRUPTED"}
<1> DEFINE charged == [b EXCEPT !.callbacks = @ - 1]
<1>1. CASE Failed(b)
    BY <1>1 DEF CallbackBeforePoint, Failed, Budgets, SameFrames, SameLimits
<1>2. CASE ~Failed(b) /\ b.callbacks = 0
    BY <1>2 DEF CallbackBeforePoint, Fail, Failed, Budgets, Statuses, SameFrames, SameLimits
<1>3. CASE ~Failed(b) /\ b.callbacks # 0
  <2>1. CallbackBeforePoint(b, f) = PollInterrupt(charged, f)
      BY <1>3 DEF CallbackBeforePoint
  <2>2. b.callbacks - 1 \in Nat
      BY <1>3 DEF Budgets
  <2>3. /\ charged \in Budgets
        /\ charged.steps = b.steps /\ charged.acc = b.acc
        /\ charged.status = b.status
        /\ SameFrames(charged, b) /\ SameLimits(charged, b)
      BY <2>2 DEF Budgets, SameFrames, SameLimits
  <2> HIDE DEF charged
  <2>4. QED
      BY <1>3, <2>1, <2>3, PollFacts DEF Failed, SameFrames, SameLimits
<1>4. QED
    BY <1>1, <1>2, <1>3

LEMMA CallbackAfterFacts ==
    ASSUME NEW b \in Budgets, NEW f \in BOOLEAN
    PROVE  LET r == CallbackAfterPoint(b, f) IN
           /\ r \in Budgets
           /\ r.steps = b.steps /\ r.acc = b.acc
           /\ SameFrames(r, b) /\ SameLimits(r, b)
           /\ ~Failed(r) => ~Failed(b)
           /\ r.status \in {b.status, "LIMIT_EXCEEDED", "INTERRUPTED"}
    BY PollFacts DEF CallbackAfterPoint, Failed, SameFrames, SameLimits

(* An entered frame takes one recursion and its bytes.                     *)
LEMMA EnterFacts ==
    ASSUME NEW b \in Budgets, NEW c \in Nat \ {0}, NEW f \in BOOLEAN
    PROVE  LET r == EnterPoint(b, c, f) IN
           /\ r \in Budgets
           /\ r.steps = b.steps /\ r.acc = b.acc
           /\ SameLimits(r, b)
           /\ ~Failed(r) => /\ ~Failed(b)
                            /\ r.recursion + 1 = b.recursion
                            /\ r.stack + c = b.stack
           /\ r.status \in {b.status, "LIMIT_EXCEEDED", "INTERRUPTED"}
<1> DEFINE charged == [b EXCEPT !.recursion = @ - 1, !.stack = @ - c]
<1>1. CASE Failed(b)
    BY <1>1 DEF EnterPoint, Failed, Budgets, SameLimits
<1>2. CASE ~Failed(b) /\ (b.recursion = 0 \/ b.stack < c)
    BY <1>2 DEF EnterPoint, Fail, Failed, Budgets, Statuses, SameLimits
<1>3. CASE ~Failed(b) /\ ~(b.recursion = 0 \/ b.stack < c)
  <2>1. EnterPoint(b, c, f) = PollInterrupt(charged, f)
      BY <1>3 DEF EnterPoint
  <2>2. /\ b.recursion \in Nat /\ b.recursion - 1 \in Nat
        /\ b.stack \in Nat /\ b.stack - c \in Nat
      BY <1>3 DEF Budgets
  <2>3. /\ charged \in Budgets
        /\ charged.steps = b.steps /\ charged.acc = b.acc
        /\ charged.recursion = b.recursion - 1 /\ charged.stack = b.stack - c
        /\ charged.status = b.status
        /\ SameLimits(charged, b)
      BY <2>2 DEF Budgets, SameLimits
  <2> HIDE DEF charged
  <2>4. QED
      BY <1>3, <2>1, <2>2, <2>3, PollFacts DEF Failed, SameFrames, SameLimits
<1>4. QED
    BY <1>1, <1>2, <1>3

(* A left frame gives them back, if the accounting is consistent.          *)
LEMMA LeaveFacts ==
    ASSUME NEW b \in Budgets, NEW c \in Nat,
           ~Failed(b) => /\ b.recursion < b.recursionLimit
                         /\ b.stack + c <= b.stackLimit
    PROVE  LET r == LeavePoint(b, c) IN
           /\ r \in Budgets
           /\ r.steps = b.steps /\ r.acc = b.acc
           /\ SameLimits(r, b)
           /\ ~Failed(r) => /\ ~Failed(b)
                            /\ r.recursion = b.recursion + 1
                            /\ r.stack = b.stack + c
           /\ r.status = b.status
<1> DEFINE restored == [b EXCEPT !.recursion = @ + 1, !.stack = @ + c]
<1>1. CASE Failed(b)
    BY <1>1 DEF LeavePoint, Failed, Budgets, SameLimits
<1>2. CASE ~Failed(b)
  <2>1. ~(c > b.stackLimit \/ b.recursion >= b.recursionLimit \/ b.stack > b.stackLimit - c)
      BY <1>2 DEF Budgets
  <2>2. LeavePoint(b, c) = restored
      BY <1>2, <2>1 DEF LeavePoint
  <2>3. b.recursion + 1 \in Nat /\ b.stack + c \in Nat
      BY DEF Budgets
  <2>4. /\ restored \in Budgets
        /\ restored.steps = b.steps /\ restored.acc = b.acc
        /\ restored.recursion = b.recursion + 1 /\ restored.stack = b.stack + c
        /\ restored.status = b.status
        /\ SameLimits(restored, b)
      BY <2>3 DEF Budgets, SameLimits
  <2>5. QED
      BY <1>2, <2>2, <2>4 DEF Failed
<1>3. QED
    BY <1>1, <1>2

LEMMA RetainedFacts ==
    ASSUME NEW b \in Budgets, NEW n \in Nat
    PROVE  LET r == RetainedPoint(b, n) IN
           /\ r \in Budgets
           /\ r.steps = b.steps /\ r.acc = b.acc
           /\ SameFrames(r, b) /\ SameLimits(r, b)
           /\ ~Failed(r) => ~Failed(b)
           /\ r.status \in {b.status, "LIMIT_EXCEEDED"}
    BY DEF RetainedPoint, Fail, Failed, Budgets, Statuses, SameFrames, SameLimits

LEMMA BudgetInitFacts ==
    ASSUME NEW o \in Options
    PROVE  LET r == BudgetInit(o) IN
           /\ r \in Budgets
           /\ r.acc = 0 /\ r.status = "OK"
           /\ r.recursion = r.recursionLimit
           /\ r.stack = r.stackLimit
    BY HardAssumption, OptionsAssumption, LimitsAssumption
    DEF BudgetInit, MinOf, Budgets, Statuses

-----------------------------------------------------------------------------
(* Sequences of frames.                                                    *)

(* Changing the mode and the abort flag of the innermost frame changes     *)
(* neither the number of frames nor what they hold of the budget.          *)
LEMMA SetTopFacts ==
    ASSUME frames \in Seq(Frames), frames # <<>>, NEW m \in Modes, NEW a \in BOOLEAN
    PROVE  /\ SetTop(m, a) \in Seq(Frames)
           /\ Len(SetTop(m, a)) = Len(frames)
           /\ SetTop(m, a) # <<>>
           /\ \A i \in 1..Len(frames) : /\ SetTop(m, a)[i].bytes = frames[i].bytes
                                        /\ SetTop(m, a)[i].base = frames[i].base
<1> DEFINE n == Len(frames)
<1> DEFINE one == [frames[n] EXCEPT !.mode = m]
<1> DEFINE two == [one EXCEPT !.aborted = a]
<1>1. n \in Nat \ {0} /\ n \in 1..n /\ frames[n] \in Frames
    BY EmptySeq, LenProperties
<1>2. /\ one \in Frames /\ two \in Frames
      /\ two.bytes = frames[n].bytes /\ two.base = frames[n].base
    BY <1>1 DEF Frames
<1>3. SetTop(m, a) = [frames EXCEPT ![n] = two]
    BY <1>1 DEF SetTop
<1> HIDE DEF two
<1>4. SetTop(m, a) \in Seq(Frames) /\ Len(SetTop(m, a)) = n
    BY <1>1, <1>2, <1>3, ExceptSeq
<1>5. \A i \in 1..n : SetTop(m, a)[i] = IF i = n THEN two ELSE frames[i]
    BY <1>1, <1>3
<1>6. QED
    BY <1>1, <1>2, <1>4, <1>5

(* The frames g hold of the budget what the frames f hold.                 *)
SameShape(g, f) ==
    /\ g \in Seq(Frames)
    /\ Len(g) = Len(f)
    /\ \A i \in 1..Len(f) : g[i].bytes = f[i].bytes /\ g[i].base = f[i].base

(* A step that enters and leaves no frame keeps the accounting.            *)
LEMMA KeepAccounting ==
    ASSUME TypeOK, FrameAccounting, BasesBounded, NeverInconsistent,
           SameShape(frames', frames),
           budget' \in Budgets,
           SameFrames(budget', budget), SameLimits(budget', budget),
           ~Failed(budget') => ~Failed(budget),
           budget'.status \in {budget.status, "LIMIT_EXCEEDED", "INTERRUPTED"}
    PROVE  FrameAccounting' /\ BasesBounded' /\ NeverInconsistent'
<1>1. frames \in Seq(Frames) /\ Len(frames) \in Nat /\ Len(frames') = Len(frames)
    BY LenProperties DEF TypeOK, SameShape
<1>2. frames' = <<>> <=> frames = <<>>
    BY <1>1, EmptySeq DEF SameShape
<1>3. BasesBounded'
    BY <1>1 DEF SameShape, BasesBounded, SameLimits
<1>4. NeverInconsistent'
    BY DEF NeverInconsistent
<1>5. ASSUME ~Failed(budget') PROVE FrameAccounting'
  <2>1. FrameAccounting!2
      BY <1>5 DEF FrameAccounting
  <2>2. QED
      BY <1>1, <1>2, <2>1 DEF SameShape, SameFrames, SameLimits, FrameAccounting
<1>6. QED
    BY <1>3, <1>4, <1>5 DEF FrameAccounting

(* Entering a frame keeps the accounting.                                  *)
LEMMA PushAccounting ==
    ASSUME TypeOK, FrameAccounting, BasesBounded, NeverInconsistent,
           NEW c \in FrameCosts, NEW g, SameShape(g, frames),
           frames' = Append(g, NewFrame(c, budget.stack)),
           budget' = EnterPoint(budget, c, flag), ~Failed(budget')
    PROVE  /\ frames' \in Seq(Frames) /\ frames' # <<>>
           /\ FrameAccounting' /\ BasesBounded' /\ NeverInconsistent'
<1> DEFINE n == Len(frames)
<1> DEFINE new == NewFrame(c, budget.stack)
<1>1. frames \in Seq(Frames) /\ n \in Nat /\ g \in Seq(Frames) /\ Len(g) = n
    BY LenProperties DEF TypeOK, SameShape
<1>2. /\ budget \in Budgets /\ budget' \in Budgets
      /\ SameLimits(budget', budget)
      /\ ~Failed(budget)
      /\ budget'.recursion + 1 = budget.recursion
      /\ budget'.stack + c = budget.stack
    BY EnterFacts, CostAssumption DEF TypeOK
<1>3. /\ c \in Nat
      /\ budget.recursion \in Nat /\ budget'.recursion \in Nat /\ budget.recursionLimit \in Nat
      /\ budget.stack \in Nat /\ budget'.stack \in Nat /\ budget.stackLimit \in Nat
    BY <1>2, CostAssumption DEF Budgets
<1>4. new \in Frames /\ new.bytes = c /\ new.base = budget.stack
    BY <1>3 DEF NewFrame, Frames, Modes
<1> HIDE DEF new
<1>5. /\ frames' \in Seq(Frames) /\ frames' # <<>> /\ Len(frames') = n + 1
      /\ \A i \in 1..n : frames'[i] = g[i]
      /\ frames'[n + 1] = new
    BY <1>1, <1>4, AppendProperties DEF new
<1>6. /\ budget.recursion + n = budget.recursionLimit
      /\ frames = <<>> => budget.stack = budget.stackLimit
      /\ \A i \in 1..n :
            /\ i = 1 => frames[i].base = budget.stackLimit
            /\ frames[i].base = frames[i].bytes +
                   (IF i = n THEN budget.stack ELSE frames[i + 1].base)
    BY <1>2 DEF FrameAccounting
<1>7. n = 0 <=> frames = <<>>
    BY <1>1, EmptySeq
<1>8. budget.stack <= budget.stackLimit
  <2>1. CASE n = 0
      BY <2>1, <1>3, <1>6, <1>7
  <2>2. CASE n # 0
    <3>1. n \in 1..n /\ frames[n] \in Frames
        BY <2>2, <1>1, LenProperties
    <3>2. frames[n].base = frames[n].bytes + budget.stack /\ frames[n].base <= budget.stackLimit
        BY <3>1, <1>6 DEF BasesBounded
    <3>3. frames[n].base \in Nat /\ frames[n].bytes \in Nat
        BY <3>1 DEF Frames
    <3>4. QED
        BY <3>2, <3>3, <1>3
  <2>3. QED
      BY <2>1, <2>2
<1>9. BasesBounded'
    BY <1>1, <1>2, <1>4, <1>5, <1>8 DEF BasesBounded, SameShape, SameLimits
<1>10. ASSUME NEW i \in 1..(n + 1)
       PROVE  /\ i = 1 => frames'[i].base = budget'.stackLimit
              /\ frames'[i].base = frames'[i].bytes +
                     (IF i = n + 1 THEN budget'.stack ELSE frames'[i + 1].base)
  <2>1. CASE i = n + 1
      BY <2>1, <1>1, <1>2, <1>3, <1>4, <1>5, <1>6, <1>7 DEF SameLimits
  <2>2. CASE i # n + 1
    <3>1. i \in 1..n /\ frames'[i].base = frames[i].base /\ frames'[i].bytes = frames[i].bytes
        BY <2>2, <1>1, <1>5 DEF SameShape
    <3>2. CASE i = n
        BY <3>1, <3>2, <1>1, <1>2, <1>4, <1>5, <1>6 DEF SameLimits
    <3>3. CASE i # n
      <4>1. i + 1 \in 1..n /\ frames'[i + 1].base = frames[i + 1].base
          BY <3>1, <3>3, <1>1, <1>5 DEF SameShape
      <4>2. QED
          BY <2>2, <3>1, <3>3, <4>1, <1>2, <1>6 DEF SameLimits
    <3>4. QED
        BY <3>2, <3>3
  <2>3. QED
      BY <2>1, <2>2
<1>11. FrameAccounting'
  <2>1. budget'.recursion + (n + 1) = budget'.recursionLimit
      BY <1>1, <1>2, <1>3, <1>6 DEF SameLimits
  <2>2. QED
      BY <2>1, <1>5, <1>10 DEF FrameAccounting
<1>12. NeverInconsistent'
  <2>1. budget'.status = "OK"
      BY DEF Failed
  <2>2. QED
      BY <2>1 DEF NeverInconsistent
<1>13. QED
    BY <1>5, <1>9, <1>11, <1>12

(* Leaving the innermost frame meets no inconsistency, and keeps the       *)
(* accounting of the frames that remain.                                   *)
LEMMA PopAccounting ==
    ASSUME TypeOK, FrameAccounting, BasesBounded, NeverInconsistent,
           frames # <<>>,
           budget' = LeavePoint(budget, Top.bytes),
           frames' \in Seq(Frames), Len(frames') = Len(frames) - 1,
           \A i \in 1..(Len(frames) - 1) : /\ frames'[i].bytes = frames[i].bytes
                                            /\ frames'[i].base = frames[i].base
    PROVE  /\ budget' \in Budgets
           /\ budget'.steps = budget.steps /\ budget'.acc = budget.acc
           /\ SameLimits(budget', budget)
           /\ ~Failed(budget') => ~Failed(budget)
           /\ FrameAccounting' /\ BasesBounded' /\ NeverInconsistent'
<1> DEFINE n == Len(frames)
<1>1. frames \in Seq(Frames) /\ n \in Nat \ {0} /\ n \in 1..n /\ frames[n] \in Frames
    BY EmptySeq, LenProperties DEF TypeOK
<1>2. /\ frames[n].bytes \in Nat /\ frames[n].base \in Nat
      /\ budget \in Budgets /\ budget.recursion \in Nat /\ budget.recursionLimit \in Nat
      /\ budget.stack \in Nat /\ budget.stackLimit \in Nat
    BY <1>1 DEF Frames, TypeOK, Budgets
<1>3. ~Failed(budget) => /\ budget.recursion + n = budget.recursionLimit
                         /\ n = 1 => frames[n].base = budget.stackLimit
                         /\ frames[n].base = frames[n].bytes + budget.stack
                         /\ frames[n].base <= budget.stackLimit
    BY <1>1 DEF FrameAccounting, BasesBounded
<1>4. ~Failed(budget) => /\ budget.recursion < budget.recursionLimit
                         /\ budget.stack + frames[n].bytes <= budget.stackLimit
    BY <1>1, <1>2, <1>3
<1>5. /\ budget' \in Budgets
      /\ budget'.steps = budget.steps /\ budget'.acc = budget.acc
      /\ SameLimits(budget', budget)
      /\ ~Failed(budget') => /\ ~Failed(budget)
                             /\ budget'.recursion = budget.recursion + 1
                             /\ budget'.stack = budget.stack + frames[n].bytes
      /\ budget'.status = budget.status
    BY <1>2, <1>4, LeaveFacts DEF Top
<1>6. BasesBounded'
    BY <1>1, <1>5 DEF BasesBounded, SameLimits
<1>7. NeverInconsistent'
    BY <1>5 DEF NeverInconsistent
<1>8. ASSUME ~Failed(budget') PROVE FrameAccounting'
  <2>1. /\ budget.recursion + n = budget.recursionLimit
        /\ \A i \in 1..n :
              /\ i = 1 => frames[i].base = budget.stackLimit
              /\ frames[i].base = frames[i].bytes +
                     (IF i = n THEN budget.stack ELSE frames[i + 1].base)
      BY <1>5, <1>8 DEF FrameAccounting
  <2>2. budget'.recursion + (n - 1) = budget'.recursionLimit
      BY <1>1, <1>2, <1>5, <1>8, <2>1 DEF SameLimits
  <2>3. frames' = <<>> => budget'.stack = budget'.stackLimit
    <3>1. ASSUME frames' = <<>> PROVE n = 1
        BY <3>1, <1>1, EmptySeq
    <3>2. QED
        BY <3>1, <1>1, <1>2, <1>3, <1>5, <1>8 DEF SameLimits
  <2>4. ASSUME NEW i \in 1..(n - 1)
        PROVE  /\ i = 1 => frames'[i].base = budget'.stackLimit
               /\ frames'[i].base = frames'[i].bytes +
                      (IF i = n - 1 THEN budget'.stack ELSE frames'[i + 1].base)
    <3>1. i \in 1..n /\ i # n /\ i + 1 \in 1..n
        BY <1>1
    <3>2. CASE i = n - 1
      <4>1. i + 1 = n
          BY <3>2, <1>1
      <4>2. budget'.stack = frames[n].base
          BY <1>2, <1>3, <1>5, <1>8
      <4>3. frames[i].base = frames[i].bytes + frames[n].base
          BY <3>1, <4>1, <2>1
      <4>4. QED
          BY <3>1, <3>2, <4>2, <4>3, <2>1, <1>5 DEF SameLimits
    <3>3. CASE i # n - 1
      <4>1. i + 1 \in 1..(n - 1)
          BY <3>3, <1>1
      <4>2. QED
          BY <3>1, <3>3, <4>1, <2>1, <1>5 DEF SameLimits
    <3>4. QED
        BY <3>2, <3>3
  <2>5. QED
      BY <2>2, <2>3, <2>4 DEF FrameAccounting
<1>9. QED
    BY <1>5, <1>6, <1>7, <1>8 DEF FrameAccounting

-----------------------------------------------------------------------------
(* The inductive invariant.                                                *)

THEOREM InitIInv == Init => IInv
<1> SUFFICES ASSUME Init PROVE IInv
    OBVIOUS
<1> USE DEF Init
<1>1. TypeOK
    BY EmptySeq DEF TypeOK, States, Pcs, NoBudget, Budgets, Statuses
<1>2. Len(frames) = 0
    BY EmptySeq
<1>3. QED
    BY <1>1, <1>2, IntervalAssumption
    DEF IInv, FramesWhenRunning, FrameAccounting, BasesBounded, AccumulatorBounds,
        NeverInconsistent, NoBudget, Failed

(* An unchanged sequence of frames has its own shape.                      *)
LEMMA SameShapeReflexive == ASSUME TypeOK PROVE SameShape(frames, frames)
    BY DEF TypeOK, SameShape

(* The innermost frame may change its mode and its abort flag.             *)
LEMMA SameShapeSetTop ==
    ASSUME TypeOK, frames # <<>>, NEW m \in Modes, NEW a \in BOOLEAN
    PROVE  SameShape(SetTop(m, a), frames) /\ SetTop(m, a) # <<>>
    BY SetTopFacts DEF TypeOK, SameShape

LEMMA TopType ==
    ASSUME TypeOK, frames # <<>>
    PROVE  /\ Top \in Frames /\ Top.aborted \in BOOLEAN /\ Top.mode \in Modes
           /\ Top.bytes \in Nat
<1>1. Len(frames) \in 1..Len(frames) /\ frames[Len(frames)] \in Frames
    BY EmptySeq, LenProperties DEF TypeOK
<1>2. QED
    BY <1>1 DEF Top, Frames

LEMMA BeginCallIInv ==
    ASSUME IInv, NEW o \in Options, BeginCall(o) PROVE IInv'
<1>1. /\ budget' \in Budgets /\ budget'.acc = 0 /\ budget'.status = "OK"
      /\ budget'.recursion = budget'.recursionLimit
      /\ budget'.stack = budget'.stackLimit
    BY BudgetInitFacts DEF BeginCall
<1>2. frames' = <<>> /\ Len(frames') = 0
    BY EmptySeq DEF BeginCall, IInv, FramesWhenRunning
<1>3. TypeOK'
    BY <1>1 DEF IInv, TypeOK, BeginCall, States, Pcs, Statuses
<1>4. budget'.recursion + 0 = budget'.recursionLimit
    BY <1>1 DEF Budgets
<1>5. QED
    BY <1>1, <1>2, <1>3, <1>4, IntervalAssumption
    DEF IInv, FramesWhenRunning, FrameAccounting, BasesBounded, AccumulatorBounds,
        NeverInconsistent, BeginCall

LEMMA EnterExportIInv ==
    ASSUME IInv, NEW c \in FrameCosts, EnterExport(c) PROVE IInv'
<1>1. /\ budget' = EnterPoint(budget, c, flag) /\ budget' \in Budgets
      /\ SameLimits(budget', budget)
      /\ budget'.acc = budget.acc
      /\ ~Failed(budget') => ~Failed(budget)
      /\ budget'.status \in {budget.status, "LIMIT_EXCEEDED", "INTERRUPTED"}
  <2>1. budget' = EnterPoint(budget, c, flag)
      BY DEF EnterExport, Charge
  <2>2. budget \in Budgets /\ flag \in BOOLEAN /\ c \in Nat \ {0}
      BY CostAssumption DEF IInv, TypeOK
  <2>3. QED
      BY <2>1, <2>2, EnterFacts
<1>2. aborted' \in BOOLEAN
    BY DEF EnterExport, Charge, IInv, TypeOK
<1>3. AccumulatorBounds'
    BY <1>1 DEF AccumulatorBounds, IInv, EnterExport, SameLimits
<1>4. CASE ~Failed(budget')
  <2>1. /\ frames' = Append(frames, NewFrame(c, budget.stack)) /\ pc' = "run"
        /\ UNCHANGED verdict
      BY <1>1, <1>4 DEF EnterExport
  <2>2. /\ frames' \in Seq(Frames) /\ frames' # <<>>
        /\ FrameAccounting' /\ BasesBounded' /\ NeverInconsistent'
      BY <1>1, <1>4, <2>1, PushAccounting, SameShapeReflexive DEF IInv
  <2>3. TypeOK'
      BY <1>1, <1>2, <2>1, <2>2 DEF IInv, TypeOK, EnterExport, Pcs
  <2>4. QED
      BY <1>3, <2>1, <2>2, <2>3 DEF IInv, FramesWhenRunning
<1>5. CASE Failed(budget')
  <2>1. /\ frames' = frames /\ frames = <<>> /\ pc' = "finish"
        /\ verdict' = budget'.status
      BY <1>1, <1>5 DEF EnterExport, IInv, FramesWhenRunning
  <2>2. TypeOK'
      BY <1>1, <1>2, <2>1 DEF IInv, TypeOK, EnterExport, Pcs, Budgets
  <2>3. BasesBounded' /\ FrameAccounting'
      BY <1>1, <1>5, <2>1 DEF IInv, BasesBounded, FrameAccounting, SameLimits
  <2>4. NeverInconsistent'
      BY <1>1 DEF IInv, NeverInconsistent
  <2>5. QED
      BY <1>3, <2>1, <2>2, <2>3, <2>4 DEF IInv, FramesWhenRunning
<1>6. QED
    BY <1>4, <1>5

(* Step and Catch: a step is charged and the innermost frame goes on in    *)
(* some mode.                                                              *)
LEMMA StepIInv ==
    ASSUME IInv, NEW c \in Nat \ {0}, NEW m \in Modes, NEW a \in BOOLEAN,
           pc = "run", pc' = pc, state' = state,
           Charge(StepPoint(budget, c, flag)), frames' = SetTop(m, a),
           sinceFlag' = IF flag THEN sinceFlag + (budget.steps - budget'.steps) ELSE 0,
           UNCHANGED <<diagnostic, verdict, reported, flag>>
    PROVE  IInv'
<1>1. /\ budget' \in Budgets
      /\ budget'.steps <= budget.steps
      /\ SameFrames(budget', budget) /\ SameLimits(budget', budget)
      /\ ~Failed(budget') =>
            /\ ~Failed(budget)
            /\ budget.acc < Interval => budget'.acc < Interval
            /\ (budget.interrupt /\ flag) => budget'.acc = budget.acc + (budget.steps - budget'.steps)
      /\ budget'.status \in {budget.status, "LIMIT_EXCEEDED", "INTERRUPTED"}
    BY StepFacts DEF Charge, IInv, TypeOK
<1>2. SameShape(frames', frames) /\ frames' # <<>> /\ frames # <<>>
    BY SameShapeSetTop DEF IInv, FramesWhenRunning
<1>3. FrameAccounting' /\ BasesBounded' /\ NeverInconsistent'
    BY <1>1, <1>2, KeepAccounting DEF IInv
<1>4. /\ budget.steps \in Nat /\ budget'.steps \in Nat /\ budget.acc \in Nat
      /\ sinceFlag \in Nat /\ sinceFlag' \in Nat
  <2>1. budget.steps \in Nat /\ budget'.steps \in Nat /\ budget.acc \in Nat
      BY <1>1 DEF IInv, TypeOK, Budgets
  <2>2. QED
      BY <1>1, <2>1 DEF IInv, TypeOK
<1>5. AccumulatorBounds'
    BY <1>1, <1>4 DEF AccumulatorBounds, IInv, SameLimits
<1>6. TypeOK'
    BY <1>1, <1>2, <1>4 DEF IInv, TypeOK, Charge, SameShape
<1>7. QED
    BY <1>2, <1>3, <1>5, <1>6 DEF IInv, FramesWhenRunning

(* The other safe points of a running script: neither steps nor frames are *)
(* charged, and the frames keep their shape.                               *)
LEMMA QuietIInv ==
    ASSUME IInv,
           budget' \in Budgets, budget'.steps = budget.steps, budget'.acc = budget.acc,
           SameFrames(budget', budget), SameLimits(budget', budget),
           ~Failed(budget') => ~Failed(budget),
           budget'.status \in {budget.status, "LIMIT_EXCEEDED", "INTERRUPTED"},
           aborted' \in BOOLEAN, diagnostic' \in BOOLEAN,
           SameShape(frames', frames),
           state' \in States, pc' \in Pcs,
           pc' \in {"run", "callback"} <=> pc \in {"run", "callback"},
           verdict' \in Statuses, reported' \in Statuses,
           UNCHANGED <<flag, sinceFlag>>
    PROVE  IInv'
<1>1. FrameAccounting' /\ BasesBounded' /\ NeverInconsistent'
    BY KeepAccounting DEF IInv
<1>2. AccumulatorBounds'
    BY DEF AccumulatorBounds, IInv, SameLimits
<1>3. TypeOK'
    BY DEF IInv, TypeOK, SameShape
<1>4. frames' = <<>> <=> frames = <<>>
    BY EmptySeq DEF IInv, TypeOK, SameShape
<1>5. QED
    BY <1>1, <1>2, <1>3, <1>4 DEF IInv, FramesWhenRunning

(* An untouched budget is a quiet one.                                     *)
LEMMA SameBudget ==
    ASSUME TypeOK, budget' = budget
    PROVE  /\ budget' \in Budgets /\ budget'.steps = budget.steps /\ budget'.acc = budget.acc
           /\ SameFrames(budget', budget) /\ SameLimits(budget', budget)
           /\ ~Failed(budget') => ~Failed(budget)
           /\ budget'.status \in {budget.status, "LIMIT_EXCEEDED", "INTERRUPTED"}
    BY DEF TypeOK, SameFrames, SameLimits

LEMMA EnterIInv ==
    ASSUME IInv, NEW c \in FrameCosts, Enter(c) PROVE IInv'
<1>1. frames # <<>> /\ Top.aborted \in BOOLEAN
    BY TopType DEF Enter, IInv, FramesWhenRunning
<1>2. budget' = EnterPoint(budget, c, flag) /\ aborted' \in BOOLEAN
    BY DEF Enter, Charge, IInv, TypeOK
<1>3. /\ budget' \in Budgets
      /\ SameLimits(budget', budget)
      /\ budget'.acc = budget.acc
      /\ ~Failed(budget') => ~Failed(budget)
      /\ budget'.status \in {budget.status, "LIMIT_EXCEEDED", "INTERRUPTED"}
  <2>1. budget \in Budgets /\ flag \in BOOLEAN /\ c \in Nat \ {0}
      BY CostAssumption DEF IInv, TypeOK
  <2>2. QED
      BY <1>2, <2>1, EnterFacts
<1>4. AccumulatorBounds'
    BY <1>3 DEF AccumulatorBounds, IInv, Enter, SameLimits
<1>5. CASE ~Failed(budget')
  <2>1. frames' = Append(SetTop("eval", Top.aborted), NewFrame(c, budget.stack))
      BY <1>2, <1>5 DEF Enter
  <2>2. SameShape(SetTop("eval", Top.aborted), frames)
      BY <1>1, SameShapeSetTop DEF IInv, Modes
  <2>3. /\ frames' \in Seq(Frames) /\ frames' # <<>>
        /\ FrameAccounting' /\ BasesBounded' /\ NeverInconsistent'
      BY <1>2, <1>5, <2>1, <2>2, PushAccounting DEF IInv
  <2>4. TypeOK'
      BY <1>2, <1>3, <2>3 DEF IInv, TypeOK, Enter
  <2>5. QED
      BY <1>4, <2>3, <2>4 DEF IInv, FramesWhenRunning, Enter
<1>6. CASE Failed(budget')
  <2>1. frames' = SetTop("eval", TRUE)
      BY <1>2, <1>6 DEF Enter
  <2>2. SameShape(frames', frames) /\ frames' # <<>>
      BY <1>1, <2>1, SameShapeSetTop DEF IInv, Modes
  <2>3. Len(frames') = Len(frames) /\ Len(frames) \in Nat
      BY <2>2, LenProperties DEF IInv, TypeOK, SameShape
  <2>4. BasesBounded'
      BY <1>3, <2>2, <2>3 DEF IInv, BasesBounded, SameShape, SameLimits
  <2>5. FrameAccounting'
      BY <1>6 DEF FrameAccounting
  <2>6. NeverInconsistent'
      BY <1>3 DEF IInv, NeverInconsistent
  <2>7. TypeOK'
      BY <1>2, <1>3, <2>2 DEF IInv, TypeOK, Enter, SameShape
  <2>8. QED
      BY <1>4, <2>2, <2>4, <2>5, <2>6, <2>7 DEF IInv, FramesWhenRunning, Enter
<1>7. QED
    BY <1>5, <1>6

(* The frames that remain when the innermost one is gone.                  *)
LEMMA CallersShape ==
    ASSUME frames \in Seq(Frames), frames # <<>>
    PROVE  /\ Len(frames) - 1 \in Nat
           /\ Callers \in Seq(Frames) /\ Len(Callers) = Len(frames) - 1
           /\ \A i \in 1..(Len(frames) - 1) : Callers[i] = frames[i]
<1> DEFINE n == Len(frames) - 1
<1>1. Len(frames) \in Nat \ {0} /\ frames \in [1..Len(frames) -> Frames]
    BY EmptySeq, LenProperties
<1>2. /\ n \in Nat /\ n \in Int /\ 1 \in Int
      /\ \A i \in 1..n : frames[i] \in Frames
    BY <1>1
<1>3. /\ SubSeq(frames, 1, n) \in Seq(Frames)
      /\ Len(SubSeq(frames, 1, n)) = IF 1 <= n THEN n - 1 + 1 ELSE 0
      /\ \A i \in 1..(n - 1 + 1) : SubSeq(frames, 1, n)[i] = frames[1 + i - 1]
    BY <1>2, SubSeqProperties
<1> HIDE DEF n
<1>4. /\ n - 1 + 1 = n /\ \A i \in 1..n : 1 + i - 1 = i
      /\ (IF 1 <= n THEN n - 1 + 1 ELSE 0) = n
    BY <1>2
<1>5. QED
  <2>1. Callers = SubSeq(frames, 1, n)
      BY DEF Callers, n
  <2>2. Len(Callers) = n
      BY <1>3, <1>4, <2>1
  <2>3. \A i \in 1..n : Callers[i] = frames[i]
    <3>1. TAKE i \in 1..n
    <3>2. i \in 1..(n - 1 + 1) /\ 1 + i - 1 = i
        BY <1>4
    <3>3. QED
        BY <1>3, <3>2, <2>1
  <2>4. QED
      BY <1>2, <1>3, <2>1, <2>2, <2>3 DEF n

(* Handing the outcome of the innermost frame to its caller changes        *)
(* nothing of what the frames hold.                                        *)
LEMMA CallersFacts ==
    ASSUME frames \in Seq(Frames), frames # <<>>, Callers # <<>>,
           NEW a \in BOOLEAN, NEW m \in Modes
    PROVE  LET g == [Callers EXCEPT ![Len(Callers)].aborted = a, ![Len(Callers)].mode = m] IN
           /\ g \in Seq(Frames) /\ Len(g) = Len(Callers) /\ g # <<>>
           /\ \A i \in 1..Len(Callers) : /\ g[i].bytes = Callers[i].bytes
                                         /\ g[i].base = Callers[i].base
<1> DEFINE n == Len(Callers)
<1> DEFINE g == [Callers EXCEPT ![n].aborted = a, ![n].mode = m]
<1>1. /\ Callers \in Seq(Frames)
      /\ n \in Nat \ {0} /\ n \in 1..n /\ Callers[n] \in Frames
    BY CallersShape, EmptySeq, LenProperties
<1> DEFINE one == [Callers[n] EXCEPT !.aborted = a]
<1> DEFINE two == [one EXCEPT !.mode = m]
<1>2. two \in Frames /\ two.bytes = Callers[n].bytes /\ two.base = Callers[n].base
    BY <1>1 DEF Frames
<1>3. g = [Callers EXCEPT ![n] = two]
    BY <1>1
<1> HIDE DEF two, g
<1>4. g \in Seq(Frames) /\ Len(g) = n
    BY <1>1, <1>2, <1>3, ExceptSeq
<1>7. \A i \in 1..n : g[i] = IF i = n THEN two ELSE Callers[i]
    BY <1>1, <1>3
<1>5. g # <<>>
  <2>1. Len(g) # 0
      BY <1>1, <1>4
  <2>2. QED
      BY <2>1, EmptySeq
<1>6. QED
    BY <1>2, <1>4, <1>5, <1>7 DEF g

LEMMA LeaveIInv == ASSUME IInv, Leave PROVE IInv'
<1>1. /\ frames # <<>> /\ frames \in Seq(Frames)
      /\ Top.aborted \in BOOLEAN /\ Top.mode \in Modes
    BY TopType DEF Leave, IInv, FramesWhenRunning, TypeOK
<1>2. budget' = LeavePoint(budget, Top.bytes) /\ aborted' \in BOOLEAN
    BY DEF Leave, Charge, IInv, TypeOK
<1>3. /\ frames' \in Seq(Frames) /\ Len(frames') = Len(frames) - 1
      /\ \A i \in 1..(Len(frames) - 1) : /\ frames'[i].bytes = frames[i].bytes
                                         /\ frames'[i].base = frames[i].base
      /\ frames' # <<>> <=> pc' \in {"run", "callback"}
  <2>1. CASE Callers # <<>>
    <3> DEFINE a == \/ Failed(LeavePoint(budget, Top.bytes)) \/ Top.aborted
                   \/ Top.mode = "unwind"
    <3> DEFINE m == IF Top.mode = "throw" THEN "throw" ELSE "eval"
    <3> DEFINE h == [Callers EXCEPT ![Len(Callers)].aborted = a, ![Len(Callers)].mode = m]
    <3>1. frames' = h
        BY <2>1 DEF Leave
    <3>2. a \in BOOLEAN /\ m \in Modes
        BY <1>1 DEF Modes
    <3> HIDE DEF a, m
    <3>3. /\ frames' \in Seq(Frames) /\ Len(frames') = Len(Callers) /\ frames' # <<>>
          /\ \A i \in 1..Len(Callers) : /\ frames'[i].bytes = Callers[i].bytes
                                        /\ frames'[i].base = Callers[i].base
      <4>1. /\ h \in Seq(Frames) /\ Len(h) = Len(Callers) /\ h # <<>>
            /\ \A i \in 1..Len(Callers) : /\ h[i].bytes = Callers[i].bytes
                                          /\ h[i].base = Callers[i].base
          BY <3>2, <2>1, <1>1, CallersFacts
      <4> HIDE DEF h
      <4>2. QED
          BY <3>1, <4>1
    <3>4. pc' = "run"
        BY <2>1 DEF Leave
    <3>5. /\ Len(Callers) = Len(frames) - 1
          /\ \A i \in 1..(Len(frames) - 1) : Callers[i] = frames[i]
        BY <1>1, CallersShape
    <3>6. QED
        BY <3>3, <3>4, <3>5
  <2>2. CASE Callers = <<>>
    <3>1. frames' = <<>> /\ pc' \in {"finish", "store"}
        BY <2>2 DEF Leave
    <3>2. frames' = Callers /\ frames' \in Seq(Frames)
        BY <2>2, <3>1, EmptySeq
    <3>3. QED
        BY <3>1, <3>2, <1>1, CallersShape
  <2>3. QED
      BY <2>1, <2>2
<1>4. /\ budget' \in Budgets
      /\ budget'.steps = budget.steps /\ budget'.acc = budget.acc
      /\ SameLimits(budget', budget)
      /\ ~Failed(budget') => ~Failed(budget)
      /\ FrameAccounting' /\ BasesBounded' /\ NeverInconsistent'
    BY <1>1, <1>2, <1>3, PopAccounting DEF IInv
<1>5. AccumulatorBounds'
    BY <1>4 DEF AccumulatorBounds, IInv, Leave, SameLimits
<1>6. pc' \in Pcs /\ verdict' \in Statuses
  <2>1. LeavePoint(budget, Top.bytes).status \in Statuses
      BY <1>2, <1>4 DEF Budgets
  <2>2. QED
      BY <2>1 DEF Leave, Pcs, Statuses, IInv, TypeOK
<1>7. TypeOK'
    BY <1>2, <1>3, <1>4, <1>6 DEF IInv, TypeOK, Leave
<1>8. QED
    BY <1>3, <1>4, <1>5, <1>7 DEF IInv, FramesWhenRunning

(* Every step of the specification keeps the inductive invariant.          *)
THEOREM NextIInv == IInv /\ [Next]_vars => IInv'
<1> SUFFICES ASSUME IInv, [Next]_vars PROVE IInv'
    OBVIOUS
<1>1. budget \in Budgets /\ flag \in BOOLEAN
    BY DEF IInv, TypeOK
<1>2. ASSUME pc = "run" \/ pc = "callback"
      PROVE  frames # <<>> /\ Top.aborted \in BOOLEAN
    BY <1>2, TopType DEF IInv, FramesWhenRunning
<1>3. ASSUME NEW o \in Options, BeginCall(o) PROVE IInv'
    BY <1>3, BeginCallIInv
<1>4. ASSUME NEW c \in FrameCosts, EnterExport(c) PROVE IInv'
    BY <1>4, EnterExportIInv
<1>5. ASSUME NEW c \in StepCosts, NEW next \in {"eval", "call"}, Step(c, next) PROVE IInv'
  <2>1. PICK m \in Modes, a \in BOOLEAN : frames' = SetTop(m, a)
      BY <1>2, <1>5 DEF Step, Modes
  <2>2. c \in Nat \ {0}
      BY CostAssumption
  <2>3. QED
      BY <1>5, <2>1, <2>2, StepIInv DEF Step, Charge
<1>6. CASE Catch
  <2>1. PICK m \in Modes, a \in BOOLEAN : frames' = SetTop(m, a)
      BY <1>2, <1>6 DEF Catch, Modes
  <2>2. 1 \in Nat \ {0}
      OBVIOUS
  <2>3. QED
      BY <1>6, <2>1, <2>2, StepIInv DEF Catch, Charge
<1>7. CASE LoopTick
  <2>1. SameShape(frames', frames)
      BY <1>2, <1>7, SameShapeSetTop, SameShapeReflexive DEF LoopTick, Modes, IInv
  <2>2. QED
      BY <1>1, <1>7, <2>1, LoopFacts, QuietIInv DEF LoopTick, Charge, IInv, TypeOK
<1>8. ASSUME NEW c \in FrameCosts, Enter(c) PROVE IInv'
    BY <1>8, EnterIInv
<1>9. CASE Leave
    BY <1>9, LeaveIInv
<1>10. CASE Throw
  <2>1. SameShape(frames', frames)
      BY <1>2, <1>10, SameShapeSetTop DEF Throw, Modes, IInv
  <2>2. QED
      BY <1>10, <2>1, SameBudget, QuietIInv DEF Throw, IInv, TypeOK
<1>11. CASE RuntimeAbort
  <2>1. SameShape(frames', frames)
      BY <1>2, <1>11, SameShapeSetTop DEF RuntimeAbort, Modes, IInv
  <2>2. QED
      BY <1>11, <2>1, SameBudget, QuietIInv DEF RuntimeAbort, IInv, TypeOK
<1>12. CASE CallbackRejected
  <2>1. SameShape(frames', frames)
      BY <1>2, <1>12, SameShapeSetTop DEF CallbackRejected, Modes, IInv
  <2>2. QED
      BY <1>12, <2>1, SameBudget, QuietIInv DEF CallbackRejected, IInv, TypeOK
<1>13. CASE CallbackBefore
  <2>1. SameShape(frames', frames)
      BY <1>2, <1>13, SameShapeSetTop, SameShapeReflexive DEF CallbackBefore, Modes, IInv
  <2>2. state' \in States /\ pc' \in Pcs /\ pc' \in {"run", "callback"}
      BY <1>13 DEF CallbackBefore, IInv, TypeOK, States, Pcs
  <2>3. QED
      BY <1>1, <1>13, <2>1, <2>2, CallbackBeforeFacts, QuietIInv
      DEF CallbackBefore, Charge, IInv, TypeOK
<1>14. CASE CallbackValue
  <2>1. SameShape(frames', frames)
      BY <1>2, <1>14, SameShapeSetTop DEF CallbackValue, Modes, IInv
  <2>2. QED
      BY <1>1, <1>14, <2>1, CallbackAfterFacts, QuietIInv
      DEF CallbackValue, Charge, IInv, TypeOK, States, Pcs
<1>15. CASE CallbackError
  <2>1. SameShape(frames', frames)
      BY <1>2, <1>15, SameShapeSetTop DEF CallbackError, Modes, IInv
  <2>2. QED
      BY <1>15, <2>1, SameBudget, QuietIInv DEF CallbackError, IInv, TypeOK, States, Pcs
<1>16. ASSUME NEW n \in RetainedSizes, StoreResult(n) PROVE IInv'
  <2>1. n \in Nat /\ SameShape(frames', frames)
      BY <1>16, RetainedAssumption, SameShapeReflexive DEF StoreResult, IInv
  <2>2. CASE UNCHANGED <<budget, aborted>> /\ verdict' = "LIMIT_EXCEEDED"
      BY <1>16, <2>1, <2>2, SameBudget, QuietIInv DEF StoreResult, IInv, TypeOK, Pcs, Statuses
  <2>3. CASE Charge(RetainedPoint(budget, n)) /\ verdict' = budget'.status
    <3>1. /\ budget' \in Budgets /\ budget'.steps = budget.steps /\ budget'.acc = budget.acc
          /\ SameFrames(budget', budget) /\ SameLimits(budget', budget)
          /\ ~Failed(budget') => ~Failed(budget)
          /\ budget'.status \in {budget.status, "LIMIT_EXCEEDED", "INTERRUPTED"}
        BY <1>1, <2>1, <2>3, RetainedFacts DEF Charge
    <3>2. verdict' \in Statuses /\ aborted' \in BOOLEAN
        BY <2>3, <3>1 DEF Budgets, Charge, IInv, TypeOK
    <3>3. QED
        BY <1>16, <2>1, <3>1, <3>2, QuietIInv DEF StoreResult, IInv, TypeOK, Pcs
  <2>4. QED
      BY <1>16, <2>2, <2>3 DEF StoreResult, Charge
<1>17. CASE Finish
  <2>1. SameShape(frames', frames)
      BY <1>17, SameShapeReflexive DEF Finish, IInv
  <2>2. /\ reported' \in Statuses /\ state' \in States /\ pc' \in Pcs /\ diagnostic' \in BOOLEAN
        /\ pc' = "idle" /\ pc = "finish"
      BY <1>17 DEF Finish, NextState, Published, IInv, TypeOK, Statuses, States, Pcs
  <2>3. QED
      BY <1>17, <2>1, <2>2, SameBudget, QuietIInv DEF Finish, IInv, TypeOK
<1>18. CASE RaiseFlag
    BY <1>18 DEF RaiseFlag, IInv, TypeOK, FramesWhenRunning, FrameAccounting, BasesBounded,
                 AccumulatorBounds, NeverInconsistent, Budgets, Failed
<1>19. CASE LowerFlag
    BY <1>19 DEF LowerFlag, IInv, TypeOK, FramesWhenRunning, FrameAccounting, BasesBounded,
                 AccumulatorBounds, NeverInconsistent, Failed
<1>20. CASE UNCHANGED vars
    BY <1>20 DEF vars, IInv, TypeOK, FramesWhenRunning, FrameAccounting, BasesBounded,
                 AccumulatorBounds, NeverInconsistent, Failed
<1>21. QED
    BY <1>3, <1>4, <1>5, <1>6, <1>7, <1>8, <1>9, <1>10, <1>11, <1>12, <1>13, <1>14, <1>15,
       <1>16, <1>17, <1>18, <1>19, <1>20
    DEF Next, Call, Script

(* The invariant holds throughout every behaviour.                         *)
THEOREM Invariance == Spec => []IInv
<1>1. QED
    BY InitIInv, NextIInv, PTL DEF Spec

(* Type correctness of the call's state.                                   *)
THEOREM TypeCorrect == Spec => []TypeOK
<1>1. IInv => TypeOK
    BY DEF IInv
<1>2. QED
    BY Invariance, <1>1, PTL

(* The budget left is exactly what no live frame holds, so a frame is      *)
(* always given back and the inconsistency branch is dead.                 *)
THEOREM AccountingCorrect == Spec => [](FrameAccounting /\ NeverInconsistent)
<1>1. IInv => FrameAccounting /\ NeverInconsistent
    BY DEF IInv
<1>2. QED
    BY Invariance, <1>1, PTL

(* No more than Interval - 1 steps are charged between the moment the host *)
(* raises its flag and the moment the call notices.                        *)
THEOREM LatencyBounded == Spec => []InterruptLatency
<1>1. IInv => InterruptLatency
  <2>1. SUFFICES ASSUME IInv, budget.interrupt, flag, ~Failed(budget) PROVE sinceFlag < Interval
      BY DEF InterruptLatency
  <2>2. sinceFlag <= budget.acc /\ budget.acc < Interval
      BY <2>1 DEF IInv, AccumulatorBounds
  <2>3. sinceFlag \in Nat /\ budget.acc \in Nat /\ Interval \in Nat
      BY <2>1, IntervalAssumption DEF IInv, TypeOK, Budgets
  <2>4. QED
      BY <2>2, <2>3
<1>2. QED
    BY Invariance, <1>1, PTL

-----------------------------------------------------------------------------
(* A failed budget is on its way to the host.                              *)
FailureReported ==
    Failed(budget) => /\ pc \notin {"enter", "store"}
                      /\ pc = "idle" => state = "FAULTED"
                      /\ pc = "finish" => verdict # "OK"

(* The safe points with a cost return a failed budget as it is.            *)
LEMMA PointsAfterFailure ==
    ASSUME NEW b, Failed(b), NEW cost, NEW f
    PROVE  /\ StepPoint(b, cost, f) = b /\ EnterPoint(b, cost, f) = b
           /\ LeavePoint(b, cost) = b
    BY DEF StepPoint, EnterPoint, LeavePoint

(* Inside a call, the script's steps and its callbacks leave a failed      *)
(* budget alone.                                                           *)
LEMMA ScriptAfterFailure ==
    ASSUME Failed(budget), Script \/ CallbackValue \/ CallbackError PROVE budget' = budget
<1>1. ASSUME NEW c, NEW n, Step(c, n) PROVE budget' = budget
    BY <1>1, PointsAfterFailure DEF Step, Charge
<1>2. ASSUME NEW c, Enter(c) PROVE budget' = budget
    BY <1>2, PointsAfterFailure DEF Enter, Charge
<1>3. LoopTick \/ CallbackBefore \/ CallbackValue => budget' = budget
    BY DEF LoopTick, CallbackBefore, CallbackValue, Charge, LoopPoint, CallbackBeforePoint,
           CallbackAfterPoint
<1>3a. Catch => budget' = budget
    BY PointsAfterFailure DEF Catch, Charge
<1>4. Leave => budget' = budget
    BY PointsAfterFailure DEF Leave, Charge
<1>5. Throw \/ RuntimeAbort \/ CallbackRejected \/ CallbackError => budget' = budget
    BY DEF Throw, RuntimeAbort, CallbackRejected, CallbackError
<1>6. QED
    BY <1>1, <1>2, <1>3, <1>3a, <1>4, <1>5 DEF Script

LEMMA FailureStep ==
    ASSUME FailureReported, [Next]_vars
    PROVE  /\ FailureReported'
           /\ [Failed(budget) => /\ pc # "idle" => budget' = budget
                                 /\ pc' = "idle" => state' = "FAULTED"]_vars
<1> USE DEF FailureReported
<1>1. ASSUME NEW o \in Options, BeginCall(o) PROVE FailureReported' /\ ~Failed(budget)
    BY <1>1 DEF BeginCall, BudgetInit, Failed
<1>2. ASSUME NEW c \in FrameCosts, EnterExport(c) PROVE FailureReported' /\ ~Failed(budget)
    BY <1>2 DEF EnterExport, Charge, Failed
<1>3. ASSUME NEW n \in RetainedSizes, StoreResult(n) PROVE FailureReported' /\ ~Failed(budget)
    BY <1>3 DEF StoreResult, Charge, Failed
<1>4. ASSUME Script \/ CallbackValue \/ CallbackError
      PROVE  FailureReported' /\ pc' # "idle"
  <2>1. CASE Leave
      BY <2>1 DEF Leave, Charge, Failed
  <2>2. CASE ~Leave
      BY <1>4, <2>2 DEF Script, Step, LoopTick, Enter, Throw, RuntimeAbort, Catch,
         CallbackRejected, CallbackBefore, CallbackValue, CallbackError
  <2>3. QED
      BY <2>1, <2>2
<1>5. ASSUME Finish PROVE FailureReported' /\ budget' = budget /\ (Failed(budget) => state' = "FAULTED")
    BY <1>5 DEF Finish, NextState, Failed
<1>6. ASSUME RaiseFlag \/ LowerFlag \/ UNCHANGED vars
      PROVE  FailureReported' /\ UNCHANGED <<budget, pc, state>>
    BY <1>6 DEF RaiseFlag, LowerFlag, vars, Failed
<1>7. QED
    BY <1>1, <1>2, <1>3, <1>4, <1>5, <1>6, ScriptAfterFailure DEF Next, Call

(* The first budget failure of a call is its failure: no catch of the      *)
(* script, no refused frame and no later safe point changes the budget     *)
(* again, and the call ends with the instance FAULTED.                     *)
THEOREM FailureKept == Spec => FailureIsFinal
<1>1. Init => FailureReported
    BY DEF Init, FailureReported, NoBudget, Failed
<1>2. FailureReported /\ [Next]_vars =>
        /\ FailureReported'
        /\ [Failed(budget) => /\ pc # "idle" => budget' = budget
                              /\ pc' = "idle" => state' = "FAULTED"]_vars
    BY FailureStep
<1>3. QED
    BY <1>1, <1>2, PTL DEF Spec, FailureIsFinal

=============================================================================
