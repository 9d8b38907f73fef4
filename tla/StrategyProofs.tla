---------------------------- MODULE StrategyProofs ----------------------------
(***************************************************************************)
(* What Strategy guarantees for any number of assets and slots, any cash,  *)
(* slippage and spread, any bars, signals and orders, any capacity of the  *)
(* bar windows and any length of the warm-up.                              *)
(*                                                                         *)
(* First the windows: the vectors that a script sees are the last bars of  *)
(* its asset in order, however often the ring has wrapped.  Then the order *)
(* manager, in four parts: what the operators on fractions and sums give;  *)
(* what each function of the manager keeps, with the inductive invariant   *)
(* Good; how that adds up to the books and the equity; and the theorems    *)
(* about the specification.                                                *)
(***************************************************************************)
EXTENDS Strategy, FiniteSetTheorems, SequenceTheorems, WellFoundedInduction, TLAPS

Slot == 0..(Window - 1)
Windows == [ring : [Slot -> Nat], count : 0..Window, writePos : Slot, dirty : BOOLEAN,
            lin : [Slot -> Nat]]

(* A position in the ring, not more than once around it.                   *)
Wrap(x) == IF x < Window THEN x ELSE x - Window

(* Where the oldest bar is.                                                *)
Oldest(w) == IF w.count < Window THEN 0 ELSE w.writePos

(* The ring w holds the last bars of s; before it is full, all of them.    *)
Holds(w, s) ==
  /\ w.count <= Len(s)
  /\ w.count < Window => w.writePos = w.count /\ Len(s) = w.count
  /\ \A i \in 0..(w.count - 1) : w.ring[Wrap(Oldest(w) + i)] = s[Len(s) - w.count + i + 1]

(* The vectors show the last bars of s, oldest first.                      *)
Shows(w, s) == \A i \in 1..w.count : w.lin[i - 1] = s[Len(s) - w.count + i]

IsWindow(w, s) ==
  /\ w \in Windows /\ s \in Seq(Nat)
  /\ Holds(w, s)
  /\ (w.count > 0 /\ ~w.dirty) => Shows(w, s)

WInv ==
  /\ date \in Nat
  /\ window = [a \in Assets |-> window[a]] /\ seen = [a \in Assets |-> seen[a]]
  /\ \A a \in Assets : IsWindow(window[a], seen[a])

-----------------------------------------------------------------------------
(* Arithmetic of the ring.                                                 *)

LEMMA WindowNat == Window \in Nat \ {0} /\ Window - 1 \in Nat
BY WindowAssumption

LEMMA WrapMod ==
  ASSUME NEW x \in 0..(2 * Window - 1)
  PROVE  x % Window = Wrap(x) /\ Wrap(x) \in Slot
<1>1. Window \in Nat \ {0}
  BY WindowNat
<1>2. CASE x < Window
  BY <1>1, <1>2 DEF Wrap, Slot
<1>3. CASE x >= Window
  BY <1>1, <1>3 DEF Wrap, Slot
<1> QED
  BY <1>1, <1>2, <1>3

LEMMA MinOfTwo ==
  ASSUME NEW x \in Int, NEW y \in Int
  PROVE  Min({x, y}) = IF x <= y THEN x ELSE y
BY DEF Min

-----------------------------------------------------------------------------
(* The operations on a window.                                             *)

LEMMA EmptyHolds ==
  ASSUME NEW lin \in [Slot -> Nat]
  PROVE  IsWindow([EmptyWindow EXCEPT !.lin = lin], <<>>)
<1> DEFINE w == [EmptyWindow EXCEPT !.lin = lin]
<1>1. w \in Windows /\ w.count = 0 /\ w.writePos = 0
  <2>1. 0 \in Slot /\ 0 \in 0..Window
    BY WindowNat DEF Slot
  <2> DEFINE zero == [i \in Slot |-> 0]
  <2>2. zero \in [Slot -> Nat]
    OBVIOUS
  <2>3. EmptyWindow = [ring |-> zero, count |-> 0, writePos |-> 0, dirty |-> FALSE, lin |-> zero]
    BY DEF EmptyWindow, Slot
  <2> HIDE DEF zero
  <2>4. EmptyWindow \in Windows /\ EmptyWindow.count = 0 /\ EmptyWindow.writePos = 0
    BY <2>1, <2>2, <2>3 DEF Windows
  <2> QED
    BY <2>4 DEF Windows
<1> HIDE DEF w
<1>2. <<>> \in Seq(Nat) /\ Len(<<>>) = 0
  OBVIOUS
<1>3. Holds(w, <<>>)
  BY <1>1, <1>2, WindowNat DEF Holds
<1> QED
  BY <1>1, <1>2, <1>3 DEF IsWindow, w

(* A bar is pushed: it takes the place of the oldest once the ring is full. *)
LEMMA PushHolds ==
  ASSUME NEW w, NEW s, IsWindow(w, s), NEW d \in Nat
  PROVE  IsWindow(Push(w, d), Append(s, d)) /\ Push(w, d).count > 0 /\ Push(w, d).dirty
<1> DEFINE u == Push(w, d)
<1> DEFINE t == Append(s, d)
<1>1. w \in Windows /\ s \in Seq(Nat) /\ Holds(w, s)
  BY DEF IsWindow
<1>2. PICK c \in 0..Window : c = w.count
  BY <1>1 DEF Windows
<1>3. PICK p \in Slot : p = w.writePos
  BY <1>1 DEF Windows
<1>4. PICK N \in Nat : N = Len(s)
  BY <1>1
<1>5. Window \in Nat \ {0} /\ p \in 0..(Window - 1) /\ c \in Nat /\ p \in Nat
  BY WindowNat DEF Slot
<1>6. w.ring \in [Slot -> Nat] /\ w.lin \in [Slot -> Nat]
  BY <1>1 DEF Windows
<1>7. /\ c <= N /\ (c < Window => p = c /\ N = c)
      /\ \A i \in 0..(c - 1) :
           w.ring[Wrap((IF c < Window THEN 0 ELSE p) + i)] = s[N - c + i + 1]
  BY <1>1, <1>2, <1>3, <1>4 DEF Holds, Oldest
<1>8. t \in Seq(Nat) /\ Len(t) = N + 1 /\ t[N + 1] = d /\ \A i \in 1..N : t[i] = s[i]
  BY <1>1, <1>4
<1>9. (p + 1) % Window = Wrap(p + 1) /\ Wrap(p + 1) \in Slot
  <2>1. p + 1 \in 0..(2 * Window - 1)
    BY <1>5
  <2> QED
    BY <2>1, WrapMod
<1>10. Min({c + 1, Window}) = IF c + 1 <= Window THEN c + 1 ELSE Window
  BY <1>5, MinOfTwo
<1>11. /\ u.ring = [w.ring EXCEPT ![p] = d] /\ u.writePos = Wrap(p + 1)
       /\ u.count = (IF c + 1 <= Window THEN c + 1 ELSE Window) /\ u.dirty = TRUE /\ u.lin = w.lin
       /\ u \in Windows
  <2>1. /\ u.ring = [w.ring EXCEPT ![p] = d] /\ u.writePos = (p + 1) % Window
        /\ u.count = Min({c + 1, Window}) /\ u.dirty = TRUE /\ u.lin = w.lin
        /\ u = [ring |-> u.ring, count |-> u.count, writePos |-> u.writePos, dirty |-> u.dirty,
                lin |-> u.lin]
    <3> DEFINE ring == [w.ring EXCEPT ![p] = d]
    <3> DEFINE new == [ring |-> ring, count |-> Min({c + 1, Window}), writePos |-> (p + 1) % Window,
                       dirty |-> TRUE, lin |-> w.lin]
    <3>1. w = [ring |-> w.ring, count |-> c, writePos |-> p, dirty |-> w.dirty, lin |-> w.lin]
      BY <1>1, <1>2, <1>3 DEF Windows
    <3>2. u = [w EXCEPT !.ring = ring, !.writePos = (p + 1) % Window,
                        !.count = Min({c + 1, Window}), !.dirty = TRUE]
      BY <1>2, <1>3 DEF Push
    <3> HIDE DEF ring, u
    <3>3. u = new
      BY <3>1, <3>2
    <3>4. /\ u.ring = ring /\ u.count = Min({c + 1, Window}) /\ u.writePos = (p + 1) % Window
          /\ u.dirty = TRUE /\ u.lin = w.lin
      BY <3>3
    <3> QED
      BY <3>3, <3>4 DEF ring
  <2> HIDE DEF u
  <2>2. u.ring \in [Slot -> Nat]
    BY <1>6, <2>1
  <2>3. (IF c + 1 <= Window THEN c + 1 ELSE Window) \in 0..Window
    BY <1>5
  <2> QED
    BY <1>6, <1>9, <1>10, <2>1, <2>2, <2>3 DEF Windows
<1> HIDE DEF u, t
<1>12. u.ring[p] = d /\ \A x \in Slot \ {p} : u.ring[x] = w.ring[x]
  BY <1>6, <1>11
<1>13. CASE c < Window
  <2>1. p = c /\ N = c /\ u.count = c + 1 /\ Oldest(u) = 0
    <3>1. p = c /\ N = c /\ u.count = c + 1
      BY <1>5, <1>7, <1>11, <1>13
    <3>2. u.count = Window => u.writePos = 0
      BY <1>5, <1>11, <1>13, <3>1 DEF Wrap
    <3>3. u.count < Window \/ u.count = Window
      BY <1>5, <1>13, <3>1
    <3> QED
      BY <3>1, <3>2, <3>3, <1>5 DEF Oldest
  <2>2. u.count < Window => u.writePos = u.count
    BY <1>5, <1>11, <2>1 DEF Wrap
  <2>3. ASSUME NEW i \in 0..c
        PROVE  u.ring[Wrap(0 + i)] = t[i + 1]
    <3>1. 0 + i = i /\ Wrap(i) = i /\ i \in Slot
      BY <1>5, <1>13 DEF Wrap, Slot
    <3>2. CASE i = c
      BY <1>8, <1>12, <2>1, <3>1, <3>2
    <3>3. CASE i # c
      <4>1. i \in 0..(c - 1) /\ i + 1 \in 1..N /\ N - c + i + 1 = i + 1 /\ i \in Slot \ {p}
        BY <1>5, <2>1, <3>1, <3>3
      <4>2. w.ring[Wrap(0 + i)] = s[N - c + i + 1]
        BY <1>7, <1>13, <4>1
      <4> QED
        BY <1>8, <1>12, <3>1, <4>1, <4>2
    <3> QED
      BY <3>2, <3>3
  <2>4. Len(t) = u.count /\ u.count - 1 = c /\ u.count > 0 /\ u.count <= Len(t)
    BY <1>5, <1>8, <2>1
  <2>5. \A i \in 0..(u.count - 1) : u.ring[Wrap(Oldest(u) + i)] = t[Len(t) - u.count + i + 1]
    <3>1. \A i \in 0..c : Len(t) - u.count + i + 1 = i + 1
      BY <1>5, <1>8, <2>1
    <3> QED
      BY <2>1, <2>3, <2>4, <3>1
  <2>6. Holds(u, t)
    BY <2>2, <2>4, <2>5 DEF Holds
  <2> QED
    BY <1>8, <1>11, <2>4, <2>6 DEF IsWindow, u, t
<1>14. CASE c = Window
  <2>1. u.count = Window /\ Oldest(u) = Wrap(p + 1) /\ ~(u.count < Window)
    BY <1>5, <1>11, <1>14 DEF Oldest
  <2>2. ASSUME NEW i \in 0..(Window - 1)
        PROVE  u.ring[Wrap(Wrap(p + 1) + i)] = t[(N + 1) - Window + i + 1]
    <3>1. CASE i = Window - 1
      <4>1. Wrap(Wrap(p + 1) + i) = p /\ (N + 1) - Window + i + 1 = N + 1
        BY <1>5, <3>1 DEF Wrap
      <4> QED
        BY <1>8, <1>12, <4>1
    <3>2. CASE i # Window - 1
      <4>1. i + 1 \in 0..(c - 1) /\ p + (i + 1) \in 0..(2 * Window - 1)
        BY <1>5, <1>14, <3>2
      <4>2. Wrap(Wrap(p + 1) + i) = Wrap(p + (i + 1)) /\ Wrap(p + (i + 1)) # p
        BY <1>5, <3>2 DEF Wrap
      <4>3. Wrap(p + (i + 1)) \in Slot
        BY <4>1, WrapMod
      <4>4. w.ring[Wrap(p + (i + 1))] = s[N - c + (i + 1) + 1]
        BY <1>7, <1>5, <1>14, <4>1
      <4>5. N - c + (i + 1) + 1 = (N + 1) - Window + i + 1 /\ N - c + (i + 1) + 1 \in 1..N
        BY <1>5, <1>7, <1>14, <3>2
      <4> QED
        BY <1>8, <1>12, <4>2, <4>3, <4>4, <4>5
    <3> QED
      BY <3>1, <3>2
  <2>3. u.count <= Len(t) /\ u.count > 0
    BY <1>5, <1>7, <1>8, <1>14, <2>1
  <2>4. Holds(u, t)
    BY <1>8, <2>1, <2>2, <2>3 DEF Holds
  <2> QED
    BY <1>8, <1>11, <2>3, <2>4 DEF IsWindow, u, t
<1> QED
  BY <1>5, <1>13, <1>14

(* The vectors are brought up to date.                                     *)
LEMMA LinearizeShows ==
  ASSUME NEW w, NEW s, IsWindow(w, s)
  PROVE  IsWindow(Linearize(w), s)
<1>1. w \in Windows /\ s \in Seq(Nat) /\ Holds(w, s)
  BY DEF IsWindow
<1>2. CASE ~w.dirty \/ w.count = 0
  BY <1>2 DEF Linearize
<1>3. CASE ~(~w.dirty \/ w.count = 0)
  <2> DEFINE lin == [i \in Slot |-> IF i < w.count THEN w.ring[(Oldest(w) + i) % Window]
                                    ELSE w.lin[i]]
  <2> DEFINE v == [w EXCEPT !.lin = lin]
  <2> DEFINE u == [v EXCEPT !.dirty = FALSE]
  <2>1. Linearize(w) = u
    BY <1>1, <1>3 DEF Linearize, Oldest, Slot, Windows
  <2>2. w.count \in 0..Window /\ Oldest(w) \in Slot /\ Oldest(w) \in 0..(Window - 1)
    BY <1>1, WindowNat DEF Windows, Oldest, Slot
  <2>3. \A i \in Slot : /\ (Oldest(w) + i) % Window = Wrap(Oldest(w) + i)
                        /\ Wrap(Oldest(w) + i) \in Slot
    <3>1. \A i \in Slot : Oldest(w) + i \in 0..(2 * Window - 1)
      BY <2>2, WindowNat DEF Slot
    <3> QED
      BY <3>1, WrapMod
  <2>4. \A i \in Slot : lin[i] = IF i < w.count THEN w.ring[Wrap(Oldest(w) + i)] ELSE w.lin[i]
    BY <2>3
  <2>5. lin \in [Slot -> Nat]
    BY <1>1, <2>3 DEF Windows
  <2> HIDE DEF lin
  <2>6. v \in Windows /\ v.lin = lin /\ v.ring = w.ring /\ v.count = w.count /\ v.writePos = w.writePos
    BY <1>1, <2>5 DEF Windows
  <2> HIDE DEF v
  <2>7. u \in Windows /\ u.lin = lin /\ u.ring = w.ring /\ u.count = w.count /\ u.writePos = w.writePos
    BY <2>6 DEF Windows
  <2> HIDE DEF u
  <2>8. Holds(u, s)
    BY <1>1, <2>7 DEF Holds, Oldest
  <2>9. Shows(u, s)
    <3>1. ASSUME NEW i \in 1..w.count
          PROVE  lin[i - 1] = s[Len(s) - w.count + i]
      <4>1. i - 1 \in Slot /\ i - 1 \in 0..(w.count - 1) /\ i - 1 < w.count
        BY <2>2, WindowNat DEF Slot
      <4>2. w.ring[Wrap(Oldest(w) + (i - 1))] = s[Len(s) - w.count + (i - 1) + 1]
        BY <1>1, <4>1 DEF Holds
      <4>3. Len(s) - w.count + (i - 1) + 1 = Len(s) - w.count + i
        BY <1>1, <2>2
      <4> QED
        BY <2>4, <4>1, <4>2, <4>3
    <3> QED
      BY <2>7, <3>1 DEF Shows
  <2> QED
    BY <1>1, <2>1, <2>7, <2>8, <2>9 DEF IsWindow
<1> QED
  BY <1>2, <1>3

-----------------------------------------------------------------------------
(* The steps.                                                              *)

LEMMA ClearInv ==
  ASSUME WInv, date' \in Nat, seen' = [a \in Assets |-> <<>>],
         window' = [a \in Assets |-> [EmptyWindow EXCEPT !.lin = window[a].lin]]
  PROVE  WInv'
<1>1. ASSUME NEW a \in Assets
      PROVE  IsWindow(window'[a], seen'[a])
  <2>1. window[a].lin \in [Slot -> Nat]
    BY DEF WInv, IsWindow, Windows
  <2>2. window'[a] = [EmptyWindow EXCEPT !.lin = window[a].lin] /\ seen'[a] = <<>>
    OBVIOUS
  <2> QED
    BY <2>1, <2>2, EmptyHolds
<1>2. window' = [a \in Assets |-> window'[a]] /\ seen' = [a \in Assets |-> seen'[a]]
  OBVIOUS
<1> QED
  BY <1>1, <1>2 DEF WInv

LEMMA OnBarInv ==
  ASSUME WInv, NEW a \in Assets, NEW bar, NEW sig, OnBar(a, bar, sig)
  PROVE  WInv'
<1> DEFINE w == Push(window[a], date)
<1>1. PICK trading \in BOOLEAN :
        window' = [window EXCEPT ![a] = IF trading THEN Linearize(w) ELSE w]
  <2>1. (processed[a] >= Warmup /\ Ready(w)) \in BOOLEAN
    OBVIOUS
  <2> QED
    BY <2>1 DEF OnBar
<1>2. seen' = [seen EXCEPT ![a] = Append(seen[a], date)] /\ UNCHANGED date
  BY DEF OnBar
<1>3. date \in Nat /\ IsWindow(window[a], seen[a])
  BY DEF WInv
<1>4. IsWindow(w, Append(seen[a], date))
  BY <1>3, PushHolds
<1> HIDE DEF w
<1>5. IsWindow(Linearize(w), Append(seen[a], date))
  BY <1>4, LinearizeShows
<1>6. window' = [b \in Assets |-> window'[b]] /\ seen' = [b \in Assets |-> seen'[b]]
  BY <1>1, <1>2 DEF WInv
<1>7. /\ window'[a] = (IF trading THEN Linearize(w) ELSE w) /\ seen'[a] = Append(seen[a], date)
      /\ \A b \in Assets \ {a} : window'[b] = window[b] /\ seen'[b] = seen[b]
  BY <1>1, <1>2 DEF WInv
<1>8. IsWindow(window'[a], seen'[a])
  BY <1>4, <1>5, <1>7
<1>9. \A b \in Assets : IsWindow(window'[b], seen'[b])
  BY <1>7, <1>8 DEF WInv
<1> QED
  BY <1>2, <1>3, <1>6, <1>9 DEF WInv

(* The other steps read the windows at most.                               *)
LEMMA SameInv ==
  ASSUME WInv, UNCHANGED <<window, seen>>, date' \in Nat
  PROVE  WInv'
BY DEF WInv

LEMMA HostInv ==
  ASSUME WInv, HostStep
  PROVE  WInv'
<1>1. UNCHANGED <<window, seen>>
  BY DEF HostStep, HostBar, HostOrder, HostClose, HostStops, HostLink, HostCancel, HostCancelAll,
         ExchangeFills, Direct
<1>2. date' = date + 1 \/ date' = date
  BY DEF HostStep, HostBar, HostOrder, HostClose, HostStops, HostLink, HostCancel, HostCancelAll,
         ExchangeFills
<1>3. date' \in Nat
  BY <1>2 DEF WInv
<1> QED
  BY <1>1, <1>3, SameInv

LEMMA WInit == Init => WInv
<1> SUFFICES ASSUME Init
             PROVE  WInv
  OBVIOUS
<1>1. window = [a \in Assets |-> EmptyWindow] /\ seen = [a \in Assets |-> <<>>] /\ date = 0
  BY DEF Init
<1>2. EmptyWindow.lin \in [Slot -> Nat] /\ [EmptyWindow EXCEPT !.lin = EmptyWindow.lin] = EmptyWindow
  BY DEF EmptyWindow, Slot
<1>3. IsWindow(EmptyWindow, <<>>)
  BY <1>2, EmptyHolds
<1> QED
  BY <1>1, <1>3 DEF WInv

LEMMA WNext == WInv /\ [Next]_vars => WInv'
<1> SUFFICES ASSUME WInv, [Next]_vars
             PROVE  WInv'
  OBVIOUS
<1>0. date \in Nat /\ date + 1 \in Nat
  BY DEF WInv
<1>1. CASE \E a \in Assets : RunSingle(a)
  BY <1>0, <1>1, SameInv DEF RunSingle
<1>2. CASE RunUniverse
  BY <1>0, <1>2, ClearInv DEF RunUniverse
<1>3. CASE NextDate
  BY <1>0, <1>3, SameInv DEF NextDate
<1>4. CASE \E a \in Assets, bar \in Bars, sig \in Signals : OnBar(a, bar, sig)
  BY <1>4, OnBarInv
<1>5. CASE EndDate
  BY <1>0, <1>5, SameInv DEF EndDate
<1>6. CASE FinishRun
  <2>1. UNCHANGED <<window, seen, date>>
    BY <1>6 DEF FinishRun
  <2> QED
    BY <1>0, <2>1, SameInv
<1>7. CASE Reset
  <2>1. date' \in Nat
    BY <1>7 DEF Reset
  <2> QED
    BY <1>7, <2>1, ClearInv DEF Reset
<1>8. CASE HostStep
  BY <1>8, HostInv
<1>9. CASE UNCHANGED vars
  BY <1>0, <1>9, SameInv DEF vars
<1> QED
  BY <1>1, <1>2, <1>3, <1>4, <1>5, <1>6, <1>7, <1>8, <1>9 DEF Next

(* For every window_capacity: whenever bar_window.c has linearized a       *)
(* window, its vectors are the last bars that strategy_on_bar pushed for   *)
(* the asset since the window was cleared, oldest first.                   *)
THEOREM WindowOrdered == Spec => []WindowChronological
<1>1. WInv => WindowChronological
  BY DEF WInv, IsWindow, Shows, WindowChronological
<1>2. Spec => []WInv
  BY WInit, WNext, PTL DEF Spec
<1> QED
  BY <1>1, <1>2, PTL

-----------------------------------------------------------------------------
(* Induction and sums.                                                     *)

(* Every set of numbers has a least element, hence induction: what holds   *)
(* of 0 and of the successor of each number it holds of holds of all.      *)
LEMMA Least ==
  ASSUME NEW T \in SUBSET Nat, T # {}
  PROVE  \E n \in T : \A k \in T : n <= k
<1> DEFINE R == {p \in Nat \X Nat : p[1] < p[2]}
<1>1. IsWellFoundedOn(R, Nat)
  BY NatLessThanWellFounded DEF OpToRel
<1> HIDE DEF R
<1>2. PICK n \in T : \A k \in T : ~(<<k, n>> \in R)
  BY <1>1, WFMin
<1>3. \A k \in T : ~(k < n)
  BY <1>2 DEF R
<1> QED
  BY <1>3

LEMMA Induction ==
  ASSUME NEW S, 0 \in S, \A n \in Nat : n \in S => n + 1 \in S
  PROVE  \A n \in Nat : n \in S
<1> SUFFICES ASSUME Nat \ S # {}
             PROVE  FALSE
  OBVIOUS
<1>1. PICK n \in Nat \ S : \A k \in Nat \ S : n <= k
  BY Least
<1>2. n - 1 \in Nat /\ n - 1 \in S
  BY <1>1
<1> QED
  BY <1>1, <1>2

(* SumTo unfolds: the recursive function it chooses exists.                *)
LEMMA SumDef ==
  ASSUME NEW f, NEW n \in Nat
  PROVE  \E g : /\ g = [i \in 0..n |-> IF i = 0 THEN 0 ELSE g[i - 1] + f[i]]
                /\ SumTo(f, n) = g[n]
<1> DEFINE P(g, k) == g = [i \in 0..k |-> IF i = 0 THEN 0 ELSE g[i - 1] + f[i]]
<1> DEFINE S == {k \in Nat : \E g : P(g, k)}
<1>1. 0 \in S
  <2> DEFINE g == [i \in 0..0 |-> 0]
  <2>1. P(g, 0)
    OBVIOUS
  <2> QED
    BY <2>1
<1>2. ASSUME NEW k \in Nat, k \in S
      PROVE  k + 1 \in S
  <2>1. PICK g : P(g, k)
    BY <1>2
  <2> DEFINE h == [i \in 0..(k + 1) |-> IF i <= k THEN g[i] ELSE g[k] + f[k + 1]]
  <2>2. P(h, k + 1)
    BY <2>1
  <2> HIDE DEF P, h
  <2> QED
    BY <2>2
<1>3. \E g : P(g, n)
  <2> HIDE DEF P
  <2>1. \A k \in Nat : k \in S
    <3> HIDE DEF S
    <3> QED BY <1>1, <1>2, Induction
  <2> QED BY <2>1
<1> QED
  BY <1>3 DEF SumTo

LEMMA SumZero ==
  ASSUME NEW f
  PROVE  SumTo(f, 0) = 0
BY SumDef

LEMMA SumNext ==
  ASSUME NEW f, NEW n \in Nat
  PROVE  SumTo(f, n + 1) = SumTo(f, n) + f[n + 1]
<1> DEFINE D(g, k) == g = [i \in 0..k |-> IF i = 0 THEN 0 ELSE g[i - 1] + f[i]]
<1>1. PICK g : D(g, n) /\ SumTo(f, n) = g[n]
  BY SumDef
<1>2. PICK h : D(h, n + 1) /\ SumTo(f, n + 1) = h[n + 1]
  BY SumDef, n + 1 \in Nat
<1> DEFINE S == {k \in Nat : k <= n => g[k] = h[k]}
<1>3. 0 \in S
  BY <1>1, <1>2
<1>4. ASSUME NEW k \in Nat, k \in S
      PROVE  k + 1 \in S
  BY <1>1, <1>2, <1>4
<1>5. \A k \in Nat : k \in S
  <2> HIDE DEF S
  <2> QED
    BY <1>3, <1>4, Induction
<1>6. g[n] = h[n] /\ h[n + 1] = h[n] + f[n + 1]
  BY <1>2, <1>5
<1> QED
  BY <1>1, <1>2, <1>6

LEMMA SumInt ==
  ASSUME NEW f, NEW n \in Nat, \A i \in 1..n : f[i] \in Int
  PROVE  SumTo(f, n) \in Int
<1> DEFINE S == {k \in Nat : k <= n => SumTo(f, k) \in Int}
<1>1. 0 \in S
  BY SumZero
<1>2. ASSUME NEW k \in Nat, k \in S
      PROVE  k + 1 \in S
  BY <1>2, SumNext
<1>3. \A k \in Nat : k \in S
  <2> HIDE DEF S
  <2> QED
    BY <1>1, <1>2, Induction
<1> QED
  BY <1>3

(* Two functions that differ at x at most.                                 *)
LEMMA SumUpdate ==
  ASSUME NEW n \in Nat, NEW f, NEW g, NEW x \in Nat,
         \A i \in 1..n : f[i] \in Int /\ g[i] \in Int,
         \A i \in (1..n) \ {x} : f[i] = g[i]
  PROVE  SumTo(g, n) = SumTo(f, n) + (IF x \in 1..n THEN g[x] - f[x] ELSE 0)
<1> DEFINE S == {k \in Nat : k <= n => SumTo(g, k) = SumTo(f, k) + (IF x \in 1..k THEN g[x] - f[x] ELSE 0)}
<1>1. 0 \in S
  BY SumZero
<1>2. ASSUME NEW k \in Nat, k \in S
      PROVE  k + 1 \in S
  <2> SUFFICES ASSUME k + 1 <= n
               PROVE  SumTo(g, k + 1) = SumTo(f, k + 1) + (IF x \in 1..(k + 1) THEN g[x] - f[x] ELSE 0)
    OBVIOUS
  <2>1. k <= n /\ k + 1 \in 1..n /\ k \in Nat
    OBVIOUS
  <2>2. SumTo(g, k) = SumTo(f, k) + (IF x \in 1..k THEN g[x] - f[x] ELSE 0)
    BY <1>2, <2>1
  <2>3. SumTo(f, k) \in Int /\ SumTo(g, k) \in Int
    <3>1. \A i \in 1..k : f[i] \in Int /\ g[i] \in Int
      BY <2>1
    <3> QED
      BY <3>1, SumInt
  <2>4. SumTo(g, k + 1) = SumTo(g, k) + g[k + 1] /\ SumTo(f, k + 1) = SumTo(f, k) + f[k + 1]
    BY SumNext
  <2>5. f[k + 1] \in Int /\ g[k + 1] \in Int /\ (x # k + 1 => f[k + 1] = g[k + 1])
    BY <2>1
  <2>6. CASE x = k + 1
    BY <2>2, <2>3, <2>4, <2>5, <2>6
  <2>7. CASE x # k + 1
    <3>1. x \in 1..(k + 1) <=> x \in 1..k
      BY <2>7
    <3>2. CASE x \in 1..k
      <4>1. x \in 1..n
        BY <2>1, <3>2
      <4> QED
        BY <2>2, <2>3, <2>4, <2>5, <2>7, <3>1, <3>2, <4>1
    <3>3. CASE x \notin 1..k
      BY <2>2, <2>3, <2>4, <2>5, <2>7, <3>1, <3>3
    <3> QED
      BY <3>2, <3>3
  <2> QED
    BY <2>6, <2>7
<1>3. \A k \in Nat : k \in S
  <2> HIDE DEF S
  <2> QED
    BY <1>1, <1>2, Induction
<1> QED
  BY <1>3

Positive == Nat \ {0}
Rational == Int \X Positive

(* Arithmetic the provers do not find inside larger goals.                 *)
LEMMA Cancel1 ==
  ASSUME NEW a \in Int, NEW b \in Int, NEW c \in Positive, a * c = b * c
  PROVE  a = b
BY DEF Positive

LEMMA Product == \A x, y \in Positive : x * y \in Positive
BY DEF Positive

LEMMA DivExact ==
  ASSUME NEW n \in Int, NEW g \in Positive, n % g = 0
  PROVE  n \div g \in Int /\ n = (n \div g) * g
BY DEF Positive

LEMMA MaxExists ==
  ASSUME NEW d \in Nat, NEW T \in SUBSET (1..d), T # {}
  PROVE  Max(T) \in T
<1> DEFINE U == {k \in Nat : d - k \in T}
<1>1. U \in SUBSET Nat /\ U # {}
  <2>1. PICK t \in T : TRUE
    OBVIOUS
  <2>2. d - t \in Nat /\ d - (d - t) = t
    BY <2>1
  <2> QED
    BY <2>1, <2>2
<1>2. PICK u \in U : \A k \in U : u <= k
  <2> HIDE DEF U
  <2> QED BY <1>1, Least
<1>3. d - u \in T /\ \A t \in T : d - u >= t
  <2>1. \A t \in T : d - t \in Nat /\ d - (d - t) = t
    OBVIOUS
  <2> QED
    BY <1>2, <2>1
<1> QED
  BY <1>3 DEF Max

(* A ratio in lowest terms is the same number.                             *)
LEMMA RatioIs ==
  ASSUME NEW n \in Int, NEW d \in Positive
  PROVE  /\ Ratio(n, d) \in Rational
         /\ Ratio(n, d)[1] * d = n * Ratio(n, d)[2]
<1> DEFINE T == {k \in 1..d : n % k = 0 /\ d % k = 0}
<1> DEFINE g == Max(T)
<1>1. d \in Nat /\ T \in SUBSET (1..d) /\ T # {}
  <2>1. 1 \in 1..d /\ n % 1 = 0 /\ d % 1 = 0
    BY DEF Positive
  <2> QED
    BY <2>1 DEF Positive
<1>2. g \in T
  <2> HIDE DEF T
  <2> QED
    BY <1>1, MaxExists
<1>3. g \in Positive /\ n % g = 0 /\ d % g = 0 /\ d \in Int
  <2>1. \A k \in T : k \in Positive /\ n % k = 0 /\ d % k = 0
    BY DEF Positive
  <2> HIDE DEF T, g
  <2>2. d \in Int
    BY DEF Positive
  <2> QED
    BY <1>2, <2>1, <2>2
<1>4. Ratio(n, d) = <<n \div g, d \div g>>
  BY DEF Ratio
<1> HIDE DEF g
<1> DEFINE x == n \div g
           y == d \div g
<1>5. x \in Int /\ n = x * g /\ y \in Int /\ d = y * g
  BY <1>3, DivExact
<1> HIDE DEF x, y
<1>6. y \in Positive
  BY <1>3, <1>5 DEF Positive
<1>7. x * d = n * y
  BY <1>3, <1>5, <1>6 DEF Positive
<1>8. Ratio(n, d) = <<x, y>>
  BY <1>4 DEF x, y
<1> QED
  BY <1>5, <1>6, <1>7, <1>8 DEF Rational

(* The number v / D.                                                       *)
Is(x, D, v) == x \in Rational /\ x[1] * D = v * x[2]

(* Equality of fractions is transitive.                                    *)
LEMMA Chain3 ==
  ASSUME NEW a \in Int, NEW b \in Positive, NEW c \in Int, NEW d \in Positive,
         NEW e \in Int, NEW f \in Positive, a * d = c * b, c * f = e * d
  PROVE  a * f = e * b
<1>1. (a * f) * d = (e * b) * d
  <2>1. (a * f) * d = (c * b) * f
    BY DEF Positive
  <2>2. (c * b) * f = (e * d) * b
    BY DEF Positive
  <2> QED
    BY <2>1, <2>2 DEF Positive
<1> QED
  BY <1>1, Cancel1 DEF Positive

(* The operators on fractions over a common denominator.                   *)
LEMMA RatioOf ==
  ASSUME NEW n \in Int, NEW d \in Positive, NEW D \in Positive, NEW v \in Int, n * D = v * d
  PROVE  Is(Ratio(n, d), D, v)
<1> DEFINE a == Ratio(n, d)[1]
           b == Ratio(n, d)[2]
<1>1. Ratio(n, d) \in Rational /\ a \in Int /\ b \in Positive /\ a * d = n * b
  BY RatioIs DEF Rational
<1> HIDE DEF a, b
<1>2. a * D = v * b
  BY <1>1, Chain3
<1> QED
  BY <1>1, <1>2 DEF Is, a, b

LEMMA WholeIs ==
  ASSUME NEW k \in Int, NEW D \in Positive
  PROVE  Is(Whole(k), D, k * D)
BY DEF Is, Whole, Rational, Positive

LEMMA TimesIs ==
  ASSUME NEW x, NEW k \in Int, NEW D \in Positive, NEW v \in Int, Is(x, D, v)
  PROVE  Is(Times(x, k), D, v * k)
<1> DEFINE a == x[1]
           b == x[2]
<1>1. a \in Int /\ b \in Positive /\ a * D = v * b
  BY DEF Is, Rational
<1> HIDE DEF a, b
<1>2. a * k \in Int /\ v * k \in Int /\ (a * k) * D = (v * k) * b
  BY <1>1 DEF Positive
<1>3. Is(Ratio(a * k, b), D, v * k)
  BY <1>1, <1>2, RatioOf
<1> QED
  BY <1>3 DEF Times, a, b

LEMMA PlusIs ==
  ASSUME NEW x, NEW y, NEW D \in Positive, NEW v \in Int, NEW w \in Int, Is(x, D, v), Is(y, D, w)
  PROVE  Is(Plus(x, y), D, v + w)
<1> DEFINE a == x[1]
           b == x[2]
           c == y[1]
           d == y[2]
<1>1. a \in Int /\ b \in Positive /\ a * D = v * b /\ c \in Int /\ d \in Positive /\ c * D = w * d
  BY DEF Is, Rational
<1> HIDE DEF a, b, c, d
<1>2. a * d + c * b \in Int /\ b * d \in Positive /\ v + w \in Int
  BY <1>1, Product DEF Positive
<1>3. (a * d + c * b) * D = (v + w) * (b * d)
  <2>1. (a * d) * D = (v * b) * d
    BY <1>1 DEF Positive
  <2>2. (c * b) * D = (w * d) * b
    BY <1>1 DEF Positive
  <2> QED
    BY <1>1, <2>1, <2>2 DEF Positive
<1>4. Is(Ratio(a * d + c * b, b * d), D, v + w)
  BY <1>2, <1>3, RatioOf
<1> QED
  BY <1>4 DEF Plus, a, b, c, d

LEMMA ScaleIs ==
  ASSUME NEW x, NEW D \in Positive, NEW v \in Int, NEW k \in Positive, Is(x, D, v)
  PROVE  Is(x, D * k, v * k)
<1> DEFINE a == x[1]
           b == x[2]
<1>1. a \in Int /\ b \in Positive /\ a * D = v * b
  BY DEF Is, Rational
<1> HIDE DEF a, b
<1>2. a * (D * k) = (v * k) * b
  BY <1>1 DEF Positive
<1> QED
  BY <1>2 DEF Is, a, b

(* The types of a manager, its slots and its orders.                       *)
Positions == [asset : 0..NumAssets, position : Nat, avg : Rational, boughtToday : Nat,
              stopLoss : Int, takeProfit : Int, trailing : Int, peak : Rational]
OrderTypes == {"MARKET", "LIMIT", "STOP"}
Statuses == {"PENDING", "FILLED", "CANCELLED", "EXPIRED"}
OrderRecords == [id : Positive, asset : Assets, type : OrderTypes, direction : {1, -1},
                 quantity : Positive, price : Int, stopLoss : Int, takeProfit : Int, link : Nat,
                 barsValid : Int, status : Statuses, age : Nat, validity : Int]
LiveOrders == [id : Positive, asset : Assets, direction : {1, -1}, quantity : Positive]
Fills == [id : Positive, link : Nat, age : Nat, validity : Int]
Managers == [rules : Markets, executor : BOOLEAN, cash : Int, equity : Int,
             positions : [Slots -> Positions], pending : SUBSET OrderRecords, nextId : Positive,
             trades : Nat, pnl : Rational, points : Nat, filled : SUBSET Fills,
             live : SUBSET LiveOrders, entryCost : Int,
             sold : [Assets -> Int], held : [Assets -> Int]]

(* What the fills do not touch.                                            *)
SameBook(m, n) ==
  /\ n.rules = m.rules /\ n.executor = m.executor /\ n.equity = m.equity
  /\ n.pending = m.pending /\ n.nextId = m.nextId /\ n.filled = m.filled /\ n.live = m.live
  /\ n.held = m.held /\ n.points = m.points

LEMMA Params ==
  /\ NumAssets \in Nat /\ Capacity \in Nat /\ Cash0 \in Nat /\ SlippagePct \in Nat /\ Spread \in Nat
  /\ Assets = 1..NumAssets /\ Slots = 1..Capacity
BY ManagerAssumption DEF Assets, Slots

LEMMA MaxOfTwo ==
  ASSUME NEW x \in Int, NEW y \in Int
  PROVE  Max({x, y}) = IF x >= y THEN x ELSE y
BY DEF Max

LEMMA RationalType ==
  /\ \A k \in Int : Whole(k) \in Rational
  /\ \A x \in Rational, k \in Int : Times(x, k) \in Rational
  /\ \A x, y \in Rational : Plus(x, y) \in Rational
<1>1. \A k \in Int : Whole(k) \in Rational
  BY DEF Whole, Rational, Positive
<1>2. ASSUME NEW x \in Rational, NEW k \in Int
      PROVE  Times(x, k) \in Rational
  <2>1. x[1] * k \in Int /\ x[2] \in Positive
    BY DEF Rational
  <2> QED
    BY <2>1, RatioIs DEF Times
<1>3. ASSUME NEW x \in Rational, NEW y \in Rational
      PROVE  Plus(x, y) \in Rational
  <2>1. x[1] \in Int /\ x[2] \in Positive /\ y[1] \in Int /\ y[2] \in Positive
    BY DEF Rational
  <2>2. x[1] * y[2] + y[1] * x[2] \in Int /\ x[2] * y[2] \in Positive
    BY <2>1, Product DEF Positive
  <2> QED
    BY <2>2, RatioIs DEF Plus
<1> QED
  BY <1>1, <1>2, <1>3

LEMMA RulesType ==
  ASSUME NEW r \in Markets
  PROVE  /\ r.lot \in Positive /\ r.tPlus \in Nat /\ r.up \in Nat /\ r.dn \in Nat
         /\ r.rate \in Nat /\ r.minCommission \in Nat /\ r.stamp \in Nat
BY DEF Markets, US_EQUITY, CN_ASTOCK, Positive

LEMMA CommissionType ==
  ASSUME NEW r \in Markets, NEW k \in Int, NEW sell \in BOOLEAN
  PROVE  Commission(r, k, sell) \in Int
<1>1. k * r.rate \in Int /\ r.minCommission \in Int /\ k * r.stamp \in Int
  BY RulesType
<1>2. Max({k * r.rate, r.minCommission}) \in Int
  BY <1>1, MaxOfTwo
<1> QED
  BY <1>1, <1>2 DEF Commission

LEMMA ClampType ==
  ASSUME NEW r \in Markets, NEW p \in Int, NEW c \in Int
  PROVE  ClampPrice(r, p, c) \in Int
<1>1. Upper(r, c) \in Int /\ Lower(r, c) \in Int
  BY RulesType DEF Upper, Lower
<1>2. Min({Upper(r, c), p}) \in Int
  BY <1>1, MinOfTwo
<1>3. Max({Lower(r, c), Min({Upper(r, c), p})}) \in Int
  BY <1>1, <1>2, MaxOfTwo
<1> QED
  BY <1>3 DEF ClampPrice

LEMMA RoundLotType ==
  ASSUME NEW r \in Markets, NEW q \in Int
  PROVE  RoundLot(r, q) \in Int
<1>1. r.lot \in Positive
  BY RulesType
<1>2. q \div r.lot \in Int
  BY <1>1 DEF Positive
<1> QED
  BY <1>1, <1>2 DEF RoundLot, Positive

-----------------------------------------------------------------------------
(* The slots of the positions.                                             *)

(* The first slot of an asset, taken or open.                              *)
LEMMA SlotIs ==
  ASSUME NEW m \in Managers, NEW a
  PROVE  /\ SlotOf(m, a) \in Slots => m.positions[SlotOf(m, a)].asset = a
         /\ SlotOf(m, a) \in Slots \/ (SlotOf(m, a) = 0 /\ \A s \in Slots : m.positions[s].asset # a)
<1> DEFINE I == {i \in 1..Len(m.positions) : m.positions[i].asset = a}
<1>1. m.positions \in [1..Capacity -> Positions] /\ Capacity \in Nat
  BY Params DEF Managers
<1>2. Len(m.positions) = Capacity /\ Slots = 1..Capacity
  BY <1>1, Params
<1>3. SlotOf(m, a) = IF I # {} THEN Min(I) ELSE 0
  BY DEF SlotOf, SelectInSeq
<1>4. CASE I = {}
  BY <1>2, <1>3, <1>4
<1>5. CASE I # {}
  <2>1. I \in SUBSET Nat
    BY <1>1, <1>2
  <2>2. \E n \in I : \A k \in I : n <= k
    <3> HIDE DEF I
    <3> QED
      BY <1>5, <2>1, Least
  <2>3. Min(I) \in I
    <3> HIDE DEF I
    <3> QED
      BY <2>2 DEF Min
  <2> QED
    BY <1>2, <1>3, <1>5, <2>3
<1> QED
  BY <1>4, <1>5

LEMMA FoundIs ==
  ASSUME NEW m \in Managers, NEW a
  PROVE  \/ FindPosition(m, a) = 0
         \/ /\ FindPosition(m, a) \in Slots /\ m.positions[FindPosition(m, a)].asset = a
            /\ m.positions[FindPosition(m, a)].position # 0
<1> DEFINE I == {i \in 1..Len(m.positions) : m.positions[i].asset = a /\ m.positions[i].position # 0}
<1>1. m.positions \in [1..Capacity -> Positions] /\ Capacity \in Nat
  BY Params DEF Managers
<1>2. Len(m.positions) = Capacity /\ Slots = 1..Capacity
  BY <1>1, Params
<1>3. FindPosition(m, a) = IF I # {} THEN Min(I) ELSE 0
  BY DEF FindPosition, SelectInSeq
<1>4. CASE I # {}
  <2>1. I \in SUBSET Nat
    BY <1>1, <1>2
  <2>2. \E n \in I : \A k \in I : n <= k
    <3> HIDE DEF I
    <3> QED
      BY <1>4, <2>1, Least
  <2>3. Min(I) \in I
    <3> HIDE DEF I
    <3> QED
      BY <2>2 DEF Min
  <2> QED
    BY <1>2, <1>3, <1>4, <2>3
<1> QED
  BY <1>3, <1>4

(* The first free slot.                                                    *)
LEMMA CreatedIs ==
  ASSUME NEW m \in Managers, NEW a, SlotOf(m, a) = 0
  PROVE  /\ FindOrCreatePosition(m, a) \in Slots =>
              /\ m.positions[FindOrCreatePosition(m, a)].asset = 0
              /\ \A t \in Slots : t < FindOrCreatePosition(m, a) => m.positions[t].asset # 0
         /\ \/ FindOrCreatePosition(m, a) \in Slots
            \/ FindOrCreatePosition(m, a) = 0
<1> DEFINE I == {i \in 1..Len(m.positions) : m.positions[i].asset = 0}
<1>1. m.positions \in [1..Capacity -> Positions] /\ Capacity \in Nat
  BY Params DEF Managers
<1>2. Len(m.positions) = Capacity /\ Slots = 1..Capacity
  BY <1>1, Params
<1>3. FindOrCreatePosition(m, a) = IF I # {} THEN Min(I) ELSE 0
  BY DEF FindOrCreatePosition, SelectInSeq
<1>4. CASE I # {}
  <2>1. I \in SUBSET Nat
    BY <1>1, <1>2
  <2>2. \E n \in I : \A k \in I : n <= k
    <3> HIDE DEF I
    <3> QED
      BY <1>4, <2>1, Least
  <2>3. Min(I) \in I /\ \A k \in I : Min(I) <= k
    <3> HIDE DEF I
    <3> QED
      BY <2>2 DEF Min
  <2>4. \A t \in Slots : t < Min(I) => t \notin I
    BY <2>1, <2>3, <1>1, <1>2
  <2> QED
    BY <1>1, <1>2, <1>3, <1>4, <2>3, <2>4
<1> QED
  BY <1>1, <1>2, <1>3, <1>4

(* Each asset has one slot, the slots are taken in order, and a slot       *)
(* without an asset holds nothing.                                         *)
Seats(m) ==
  /\ \A s \in Slots : m.positions[s].asset = 0 => m.positions[s].position = 0
  /\ \A s, t \in Slots : (m.positions[s].asset = m.positions[t].asset /\ m.positions[s].asset # 0) => s = t
  /\ \A s, t \in Slots : (t < s /\ m.positions[s].asset # 0) => m.positions[t].asset # 0

LEMMA NoPositionType ==
  ASSUME NEW a \in 0..NumAssets
  PROVE  /\ [NoPosition EXCEPT !.asset = a] \in Positions
         /\ [NoPosition EXCEPT !.asset = a].asset = a /\ [NoPosition EXCEPT !.asset = a].position = 0
         /\ [NoPosition EXCEPT !.asset = a].avg = Whole(0)
<1>1. Whole(0) \in Rational
  BY RationalType
<1> QED
  BY <1>1 DEF NoPosition, Positions

(* A manager whose positions, cash and trade log are replaced.             *)
LEMMA Replaced ==
  ASSUME NEW m \in Managers, NEW ps \in [Slots -> Positions]
  PROVE  LET n == [m EXCEPT !.positions = ps]
         IN n \in Managers /\ n.positions = ps /\ SameBook(m, n) /\ n.cash = m.cash
            /\ n.entryCost = m.entryCost /\ n.pnl = m.pnl /\ n.sold = m.sold /\ n.trades = m.trades
BY DEF Managers, SameBook

(* An asset takes a free slot; the positions are as they were.             *)
LEMMA TakeSlotKeeps ==
  ASSUME NEW m \in Managers, Seats(m), NEW a \in Assets
  PROVE  LET n == TakeSlot(m, a)
         IN /\ n \in Managers /\ Seats(n) /\ SameBook(m, n)
            /\ n.cash = m.cash /\ n.entryCost = m.entryCost /\ n.pnl = m.pnl /\ n.trades = m.trades
            /\ \A s \in Slots : /\ n.positions[s].position = m.positions[s].position
                                /\ \/ n.positions[s] = m.positions[s]
                                   \/ n.positions[s].position = 0 /\ n.positions[s].avg = Whole(0)
<1> DEFINE s == FindOrCreatePosition(m, a)
           p == [NoPosition EXCEPT !.asset = a]
           ps == [m.positions EXCEPT ![s] = p]
           n == [m EXCEPT !.positions = ps]
<1>1. CASE s = 0 \/ m.positions[s].asset = a
  <2>1. TakeSlot(m, a) = m
    BY <1>1 DEF TakeSlot
  <2> QED
    BY <2>1 DEF SameBook
<1>2. CASE ~(s = 0 \/ m.positions[s].asset = a)
  <2>1. TakeSlot(m, a) = n
    BY <1>2 DEF TakeSlot
  <2>2. SlotOf(m, a) = 0
    <3>1. SlotOf(m, a) # 0 => s = SlotOf(m, a)
      BY DEF FindOrCreatePosition
    <3> QED
      BY <1>2, <3>1, SlotIs
  <2>3. \A t \in Slots : m.positions[t].asset # a
    BY <2>2, SlotIs, Params
  <2>4. s \in Slots /\ m.positions[s].asset = 0 /\ \A t \in Slots : t < s => m.positions[t].asset # 0
    BY <1>2, <2>2, CreatedIs
  <2>5. p \in Positions /\ p.asset = a /\ p.position = 0 /\ p.avg = Whole(0) /\ a # 0
    BY NoPositionType, Params
  <2> HIDE DEF s, p
  <2>6. /\ ps \in [Slots -> Positions] /\ ps[s] = p
        /\ \A t \in Slots : t # s => ps[t] = m.positions[t]
    BY <2>4, <2>5 DEF Managers
  <2> HIDE DEF ps
  <2>7. /\ n \in Managers /\ n.positions = ps /\ SameBook(m, n) /\ n.cash = m.cash
        /\ n.entryCost = m.entryCost /\ n.pnl = m.pnl /\ n.trades = m.trades
    BY <2>6, Replaced
  <2> HIDE DEF n
  <2>8. Seats(n)
    <3>1. \A t \in Slots : ps[t].asset = 0 => ps[t].position = 0
      BY <2>5, <2>6 DEF Seats
    <3>2. \A t, u \in Slots : (ps[t].asset = ps[u].asset /\ ps[t].asset # 0) => t = u
      BY <2>3, <2>5, <2>6 DEF Seats
    <3>3. \A t, u \in Slots : (u < t /\ ps[t].asset # 0) => ps[u].asset # 0
      BY <2>4, <2>5, <2>6 DEF Seats
    <3> QED
      BY <2>7, <3>1, <3>2, <3>3 DEF Seats
  <2>9. \A t \in Slots : /\ n.positions[t].position = m.positions[t].position
                         /\ \/ n.positions[t] = m.positions[t]
                            \/ n.positions[t].position = 0 /\ n.positions[t].avg = Whole(0)
    BY <2>4, <2>5, <2>6, <2>7 DEF Seats
  <2> QED
    BY <2>1, <2>7, <2>8, <2>9
<1> QED
  BY <1>1, <1>2

-----------------------------------------------------------------------------
(* The books.                                                              *)

LEMMA SumScale ==
  ASSUME NEW n \in Nat, NEW f, NEW g, NEW k \in Int,
         \A i \in 1..n : f[i] \in Int /\ g[i] = f[i] * k
  PROVE  SumTo(g, n) = SumTo(f, n) * k
<1> DEFINE S == {j \in Nat : j <= n => SumTo(f, j) \in Int /\ SumTo(g, j) = SumTo(f, j) * k}
<1>1. 0 \in S
  BY SumZero
<1>2. ASSUME NEW j \in Nat, j \in S
      PROVE  j + 1 \in S
  <2> SUFFICES ASSUME j + 1 <= n
               PROVE  SumTo(f, j + 1) \in Int /\ SumTo(g, j + 1) = SumTo(f, j + 1) * k
    OBVIOUS
  <2>1. j <= n /\ f[j + 1] \in Int /\ g[j + 1] = f[j + 1] * k
    OBVIOUS
  <2>2. SumTo(f, j) \in Int /\ SumTo(g, j) = SumTo(f, j) * k
    BY <1>2, <2>1
  <2>3. SumTo(g, j + 1) = SumTo(g, j) + g[j + 1] /\ SumTo(f, j + 1) = SumTo(f, j) + f[j + 1]
    BY SumNext
  <2> QED
    BY <2>1, <2>2, <2>3
<1>3. \A j \in Nat : j \in S
  <2> HIDE DEF S
  <2> QED
    BY <1>1, <1>2, Induction
<1> QED
  BY <1>3

(* Over a common denominator D the books balance: cash and the cost of the *)
(* positions are the initial cash, less the entry commissions, and the     *)
(* logged profit.                                                          *)
Costs(m, c) == [s \in Slots |-> c[s] * m.positions[s].position]
BalancedAt(m, D, b, c) ==
  /\ Is(m.pnl, D, b) /\ \A s \in Slots : Is(m.positions[s].avg, D, c[s])
  /\ m.cash * D + SumTo(Costs(m, c), Capacity) = (Cash0 - m.entryCost) * D + b
Balanced(m) == \E D \in Positive, b \in Int, c \in [Slots -> Int] : BalancedAt(m, D, b, c)

LEMMA ManagerFacts ==
  ASSUME NEW m \in Managers
  PROVE  /\ m.cash \in Int /\ m.entryCost \in Int /\ m.pnl \in Rational /\ m.equity \in Int
         /\ m.positions \in [Slots -> Positions]
         /\ \A s \in Slots : /\ m.positions[s] \in Positions /\ m.positions[s].position \in Nat
                             /\ m.positions[s].avg \in Rational
         /\ m.rules \in Markets /\ m.nextId \in Positive /\ m.trades \in Nat
         /\ m.pending \in SUBSET OrderRecords /\ m.live \in SUBSET LiveOrders
         /\ m.sold \in [Assets -> Int]
BY DEF Managers, Positions

LEMMA CostsType ==
  ASSUME NEW m \in Managers, NEW c \in [Slots -> Int]
  PROVE  /\ Costs(m, c) \in [Slots -> Int]
         /\ \A i \in 1..Capacity : Costs(m, c)[i] = c[i] * m.positions[i].position /\ Costs(m, c)[i] \in Int
         /\ SumTo(Costs(m, c), Capacity) \in Int
<1>1. /\ Costs(m, c) \in [Slots -> Int]
      /\ \A i \in 1..Capacity : Costs(m, c)[i] = c[i] * m.positions[i].position /\ Costs(m, c)[i] \in Int
  BY ManagerFacts, Params DEF Costs
<1> QED
  BY <1>1, SumInt, Params

(* Nothing but an empty position has changed.                              *)
LEMMA BalancedKept ==
  ASSUME NEW m \in Managers, NEW n \in Managers, Balanced(m),
         n.cash = m.cash, n.entryCost = m.entryCost, n.pnl = m.pnl,
         \A s \in Slots : /\ n.positions[s].position = m.positions[s].position
                          /\ \/ n.positions[s].avg = m.positions[s].avg
                             \/ n.positions[s].position = 0 /\ n.positions[s].avg = Whole(0)
  PROVE  Balanced(n)
<1>1. PICK D \in Positive, b \in Int, c \in [Slots -> Int] : BalancedAt(m, D, b, c)
  BY DEF Balanced
<1> DEFINE e == [s \in Slots |-> IF n.positions[s].avg = m.positions[s].avg THEN c[s] ELSE 0]
<1>2. e \in [Slots -> Int]
  OBVIOUS
<1>3. Costs(n, e) = Costs(m, c)
  <2>1. \A s \in Slots : e[s] * n.positions[s].position = c[s] * m.positions[s].position
    <3> SUFFICES ASSUME NEW s \in Slots
                 PROVE  e[s] * n.positions[s].position = c[s] * m.positions[s].position
      OBVIOUS
    <3>1. CASE n.positions[s].avg = m.positions[s].avg
      BY <3>1
    <3>2. CASE n.positions[s].avg # m.positions[s].avg
      <4>1. n.positions[s].position = 0 /\ m.positions[s].position = 0 /\ c[s] \in Int /\ e[s] \in Int
        BY <3>2, <1>2
      <4> QED
        BY <4>1
    <3> QED
      BY <3>1, <3>2
  <2> HIDE DEF e
  <2> QED
    BY <2>1 DEF Costs
<1>4. \A s \in Slots : Is(n.positions[s].avg, D, e[s])
  <2>1. Is(Whole(0), D, 0)
    BY WholeIs DEF Positive
  <2> QED
    BY <1>1, <2>1 DEF BalancedAt
<1> HIDE DEF e
<1>5. BalancedAt(n, D, b, e)
  BY <1>1, <1>3, <1>4 DEF BalancedAt
<1> QED
  BY <1>2, <1>5 DEF Balanced

(* What a fill of the slot s leaves alone.                                 *)
Filled(m, n, s) ==
  /\ n \in Managers /\ SameBook(m, n)
  /\ \A t \in Slots : /\ n.positions[t].asset = m.positions[t].asset
                      /\ t # s => n.positions[t] = m.positions[t]

(* A buy raises the cost of the slot by what it pays; the new average has  *)
(* the denominator D * k, k the new position, so the books balance there.  *)
LEMMA BuyKeeps ==
  ASSUME NEW m \in Managers, NEW s \in Slots, NEW q \in Positive, NEW price \in Int,
         NEW fee \in Int, NEW sl \in Int, NEW tp \in Int
  PROVE  LET n == ApplyBuy(m, s, q, price, fee, sl, tp)
         IN Filled(m, n, s) /\ n.trades = m.trades /\ (Balanced(m) => Balanced(n))
<1> DEFINE p == m.positions[s]
           cost == Plus(Times(p.avg, p.position), Whole(price * q))
           k == p.position + q
           avg == Ratio(cost[1], cost[2] * k)
           new == [p EXCEPT !.position = k, !.avg = avg, !.boughtToday = p.boughtToday + q,
                            !.stopLoss = IF sl > 0 THEN sl ELSE p.stopLoss,
                            !.takeProfit = IF tp > 0 THEN tp ELSE p.takeProfit]
           ps == [m.positions EXCEPT ![s] = new]
           cash == m.cash - fee - price * q
           n == [m EXCEPT !.cash = cash, !.entryCost = m.entryCost + fee, !.positions = ps]
<1>1. ApplyBuy(m, s, q, price, fee, sl, tp) = n
  BY DEF ApplyBuy
<1>2. /\ p \in Positions /\ p.position \in Nat /\ p.avg \in Rational /\ p.boughtToday \in Nat
      /\ p.stopLoss \in Int /\ p.takeProfit \in Int /\ m.cash \in Int /\ m.entryCost \in Int
      /\ m.positions \in [Slots -> Positions] /\ q \in Nat
  BY ManagerFacts DEF Positions, Positive
<1> HIDE DEF p
<1>3. price * q \in Int /\ k \in Positive /\ cash \in Int /\ m.entryCost + fee \in Int
  <2>1. price * q \in Int
    BY <1>2
  <2> QED
    BY <1>2, <2>1 DEF Positive
<1>4. cost \in Rational
  <2>1. Times(p.avg, p.position) \in Rational
    BY <1>2, RationalType
  <2>2. Whole(price * q) \in Rational
    BY <1>3, RationalType
  <2> QED
    BY <2>1, <2>2, RationalType
<1> HIDE DEF cost
<1>5. cost[1] \in Int /\ cost[2] \in Positive /\ cost[2] * k \in Positive
  BY <1>3, <1>4, Product DEF Rational
<1>6. avg \in Rational
  BY <1>5, RatioIs
<1> HIDE DEF avg, k, cash
<1>7. p.boughtToday + q \in Nat
  BY <1>2
<1>8. /\ new \in Positions /\ new.asset = p.asset /\ new.position = k /\ new.avg = avg
  BY <1>2, <1>3, <1>6, <1>7 DEF Positions, Positive
<1> HIDE DEF new
<1>9. /\ ps \in [Slots -> Positions] /\ ps[s] = new
      /\ \A t \in Slots : t # s => ps[t] = m.positions[t]
  BY <1>2, <1>8
<1> HIDE DEF ps
<1>10. /\ n \in Managers /\ SameBook(m, n) /\ n.positions = ps /\ n.cash = cash /\ n.trades = m.trades
       /\ n.entryCost = m.entryCost + fee /\ n.pnl = m.pnl
  BY <1>2, <1>3, <1>9 DEF Managers, SameBook
<1> HIDE DEF n
<1>11. Filled(m, n, s)
  BY <1>8, <1>9, <1>10 DEF Filled, p
<1>12. ASSUME Balanced(m)
       PROVE  Balanced(n)
  <2>1. PICK D \in Positive, b \in Int, c \in [Slots -> Int] : BalancedAt(m, D, b, c)
    BY <1>12 DEF Balanced
  <2> DEFINE v == c[s] * p.position + (price * q) * D
             e == [t \in Slots |-> IF t = s THEN v ELSE c[t] * k]
             f == [t \in Slots |-> Costs(m, c)[t] * k]
  <2>2. c[s] \in Int /\ v \in Int /\ k \in Int /\ D \in Int /\ D * k \in Positive /\ b * k \in Int
    BY <1>2, <1>3, Product DEF Positive
  <2>3. Is(cost, D, v)
    <3>1. Is(Times(p.avg, p.position), D, c[s] * p.position)
      BY <1>2, <2>1, <2>2, TimesIs DEF BalancedAt, p
    <3>2. Is(Whole(price * q), D, (price * q) * D)
      BY <1>3, WholeIs
    <3>3. c[s] * p.position \in Int /\ (price * q) * D \in Int
      BY <1>2, <1>3, <2>2
    <3> QED
      BY <3>1, <3>2, <3>3, PlusIs DEF cost
  <2> HIDE DEF v
  <2>4. Is(avg, D * k, v)
    <3>1. cost[1] * D = v * cost[2]
      BY <2>3 DEF Is
    <3> DEFINE x == cost[1]
               y == cost[2]
    <3>2. x \in Int /\ y \in Int /\ x * D = v * y
      BY <1>5, <3>1 DEF Positive
    <3> HIDE DEF x, y
    <3>3. x * (D * k) = v * (y * k)
      BY <2>2, <3>2
    <3>4. cost[1] * (D * k) = v * (cost[2] * k)
      BY <3>3 DEF x, y
    <3> QED
      BY <1>5, <2>2, <3>4, RatioOf DEF avg
  <2>5. e \in [Slots -> Int] /\ e[s] = v /\ \A t \in Slots : t # s => e[t] = c[t] * k
    <3>1. \A t \in Slots : c[t] * k \in Int
      BY <2>2
    <3> QED
      BY <2>2, <3>1
  <2> HIDE DEF e
  <2>6. \A t \in Slots : Is(n.positions[t].avg, D * k, e[t])
    <3>1. ASSUME NEW t \in Slots, t # s
          PROVE  Is(n.positions[t].avg, D * k, e[t])
      <4>1. Is(m.positions[t].avg, D, c[t]) /\ c[t] \in Int
        BY <2>1 DEF BalancedAt
      <4>2. Is(m.positions[t].avg, D * k, c[t] * k)
        BY <1>3, <4>1, ScaleIs
      <4> QED
        BY <1>9, <1>10, <2>5, <3>1, <4>2
    <3>2. Is(n.positions[s].avg, D * k, e[s])
      BY <1>8, <1>9, <1>10, <2>4, <2>5
    <3> QED
      BY <3>1, <3>2
  <2>7. Is(n.pnl, D * k, b * k)
    BY <1>3, <1>10, <2>1, ScaleIs DEF BalancedAt
  <2>8. /\ \A i \in 1..Capacity : Costs(m, c)[i] \in Int /\ Costs(m, c)[i] = c[i] * m.positions[i].position
        /\ SumTo(Costs(m, c), Capacity) \in Int
        /\ \A i \in 1..Capacity : Costs(n, e)[i] \in Int /\ Costs(n, e)[i] = e[i] * n.positions[i].position
    BY <1>10, <2>5, CostsType
  <2>9. Slots = 1..Capacity /\ Capacity \in Nat /\ s \in Nat
    BY Params
  <2> DEFINE x == SumTo(Costs(m, c), Capacity)
  <2>10. SumTo(f, Capacity) = x * k
    <3>1. \A i \in 1..Capacity : Costs(m, c)[i] \in Int /\ f[i] = Costs(m, c)[i] * k
      BY <2>8, <2>9
    <3> HIDE DEF f
    <3> QED
      BY <2>2, <2>9, <3>1, SumScale
  <2>11. SumTo(Costs(n, e), Capacity) = SumTo(f, Capacity) + (v * k - (c[s] * p.position) * k)
    <3>1. \A i \in 1..Capacity : f[i] \in Int /\ Costs(n, e)[i] \in Int
      BY <2>2, <2>8, <2>9
    <3>2. ASSUME NEW i \in (1..Capacity) \ {s}
          PROVE  f[i] = Costs(n, e)[i]
      <4>1. f[i] = (c[i] * m.positions[i].position) * k
        BY <2>8, <2>9
      <4>2. Costs(n, e)[i] = (c[i] * k) * m.positions[i].position
        BY <1>9, <1>10, <2>5, <2>8, <2>9
      <4>3. c[i] \in Int /\ m.positions[i].position \in Int /\ k \in Int
        <5>1. i \in Slots
          BY <2>9
        <5>2. m.positions[i].position \in Nat
          BY <5>1, ManagerFacts
        <5> QED
          BY <2>2, <5>1, <5>2
      <4> QED
        BY <4>1, <4>2, <4>3
    <3>3. f[s] = (c[s] * p.position) * k /\ Costs(n, e)[s] = v * k
      BY <1>8, <1>9, <1>10, <2>5, <2>8, <2>9 DEF p
    <3>4. s \in 1..Capacity
      BY <2>9
    <3> HIDE DEF f
    <3> DEFINE h == Costs(n, e)
    <3>5. \A i \in 1..Capacity : f[i] \in Int /\ h[i] \in Int
      BY <3>1
    <3>6. \A i \in (1..Capacity) \ {s} : f[i] = h[i]
      BY <3>2
    <3>7. f[s] = (c[s] * p.position) * k /\ h[s] = v * k
      BY <3>3
    <3> HIDE DEF h
    <3>8. SumTo(h, Capacity) = SumTo(f, Capacity) + (IF s \in 1..Capacity THEN h[s] - f[s] ELSE 0)
      BY <2>9, <3>5, <3>6, SumUpdate
    <3>9. SumTo(h, Capacity) = SumTo(f, Capacity) + (h[s] - f[s])
      BY <3>4, <3>8
    <3> QED
      BY <3>7, <3>9 DEF h
  <2>12. n.cash * (D * k) + SumTo(Costs(n, e), Capacity) = (Cash0 - n.entryCost) * (D * k) + b * k
    <3> DEFINE z == c[s] * p.position
    <3>1. m.cash * D + x = (Cash0 - m.entryCost) * D + b
      BY <2>1 DEF BalancedAt
    <3>2. x \in Int /\ z \in Int /\ Cash0 \in Int /\ m.cash \in Int /\ m.entryCost \in Int
      <4>1. z \in Int
        BY <1>2, <2>2
      <4>2. Cash0 \in Int
        BY Params
      <4> QED
        BY <1>2, <2>8, <4>1, <4>2
    <3>3. SumTo(Costs(n, e), Capacity) = x * k + (v * k - z * k) /\ v = z + (price * q) * D
      BY <2>10, <2>11 DEF v
    <3> HIDE DEF x, z, v
    <3>4. SumTo(Costs(n, e), Capacity) = (x + (price * q) * D) * k
      BY <1>3, <2>2, <3>2, <3>3
    <3>5. n.cash * (D * k) = ((m.cash - fee - price * q) * D) * k
      BY <1>3, <1>10, <2>2 DEF cash
    <3>6. (m.cash - fee - price * q) * D + (x + (price * q) * D) = (Cash0 - (m.entryCost + fee)) * D + b
      <4> DEFINE w == price * q
      <4>1. w \in Int /\ D \in Int
        BY <1>3, <2>2
      <4> HIDE DEF w
      <4>2. (m.cash - fee - w) * D + (x + w * D) = (Cash0 - (m.entryCost + fee)) * D + b
        <5>1. (m.cash - fee - w) * D = m.cash * D - fee * D - w * D
          BY <3>2, <4>1
        <5>2. (Cash0 - (m.entryCost + fee)) * D = (Cash0 - m.entryCost) * D - fee * D
          BY <3>2, <4>1
        <5> DEFINE A == m.cash * D
                   B == (Cash0 - m.entryCost) * D
                   F == fee * D
                   W == w * D
        <5>3. A \in Int /\ B \in Int /\ F \in Int /\ W \in Int
          BY <3>2, <4>1
        <5>4. A + x = B + b
          BY <3>1
        <5> HIDE DEF A, B, F, W
        <5>5. (A - F - W) + (x + W) = (B - F) + b
          BY <3>2, <5>3, <5>4
        <5> QED
          BY <5>1, <5>2, <5>5 DEF A, B, F, W
      <4> QED
        BY <4>2 DEF w
    <3> DEFINE y1 == (m.cash - fee - price * q) * D
               y2 == x + (price * q) * D
               y3 == (Cash0 - (m.entryCost + fee)) * D
    <3>7. y1 \in Int /\ y2 \in Int /\ y3 \in Int /\ y1 + y2 = y3 + b
      BY <1>3, <2>2, <3>2, <3>6
    <3>8. (Cash0 - n.entryCost) * (D * k) = y3 * k
      BY <1>10, <2>2, <3>2
    <3> HIDE DEF y1, y2, y3
    <3>9. n.cash * (D * k) = y1 * k /\ SumTo(Costs(n, e), Capacity) = y2 * k
      BY <3>4, <3>5 DEF y1, y2
    <3> QED
      BY <2>2, <3>7, <3>8, <3>9
  <2>13. BalancedAt(n, D * k, b * k, e)
    BY <2>6, <2>7, <2>12 DEF BalancedAt
  <2> QED
    BY <2>2, <2>5, <2>13 DEF Balanced
<1> QED
  BY <1>1, <1>10, <1>11, <1>12

(* A sell, partial or whole, moves the cost of what it closes to the       *)
(* trade log with the gain.                                                *)
LEMMA SellKeeps ==
  ASSUME NEW m \in Managers, NEW s \in Slots, NEW q \in Positive, NEW price \in Int, NEW fee \in Int,
         m.positions[s].asset # 0
  PROVE  LET n == ApplySell(m, s, q, price, fee)
         IN Filled(m, n, s) /\ n.trades = m.trades + 1 /\ (Balanced(m) => Balanced(n))
<1> DEFINE p == m.positions[s]
           closed == Min({q, p.position})
           gain == Times(Plus(Whole(price), Times(p.avg, -1)), closed)
           pnl == Plus(m.pnl, Plus(gain, Whole(-fee)))
           new == IF closed = p.position
                  THEN [p EXCEPT !.position = 0, !.avg = Whole(0), !.stopLoss = 0, !.takeProfit = 0]
                  ELSE [p EXCEPT !.position = p.position - closed]
           ps == [m.positions EXCEPT ![s] = new]
           sold == [m.sold EXCEPT ![p.asset] = m.sold[p.asset] + closed]
           cash == m.cash - fee + price * closed
           logged == [m EXCEPT !.trades = m.trades + 1, !.pnl = pnl]
           n == [logged EXCEPT !.cash = cash, !.sold = sold, !.positions = ps]
<1>1. /\ p \in Positions /\ p.position \in Nat /\ p.avg \in Rational /\ p.asset \in Assets
      /\ m.cash \in Int /\ m.entryCost \in Int /\ m.pnl \in Rational /\ m.trades \in Nat
      /\ m.positions \in [Slots -> Positions] /\ m.sold \in [Assets -> Int] /\ q \in Nat
  <2>1. /\ p \in Positions /\ p.position \in Nat /\ p.avg \in Rational
        /\ m.cash \in Int /\ m.entryCost \in Int /\ m.pnl \in Rational /\ m.trades \in Nat
        /\ m.positions \in [Slots -> Positions] /\ m.sold \in [Assets -> Int]
    BY ManagerFacts
  <2>2. p.asset \in Assets
    <3>1. p.asset \in 0..NumAssets /\ p.asset # 0
      BY <2>1 DEF Positions
    <3> HIDE DEF p
    <3> QED
      BY ONLY <3>1, Params
  <2>3. q \in Nat
    BY DEF Positive
  <2> QED
    BY <2>1, <2>2, <2>3
<1>2. closed \in Nat /\ closed <= p.position
  <2>1. closed = IF q <= p.position THEN q ELSE p.position
    BY <1>1, MinOfTwo
  <2> HIDE DEF closed, p
  <2> QED
    BY <1>1, <2>1
<1>3. ApplySell(m, s, q, price, fee) = n
  <2>1. logged = RecordTrade(m, s, closed, price, fee)
    BY DEF RecordTrade
  <2>2. logged.cash = m.cash /\ logged.sold = m.sold /\ logged.positions = m.positions
    BY DEF Managers
  <2> HIDE DEF logged, closed
  <2> QED
    BY <2>1, <2>2 DEF ApplySell, closed
<1> HIDE DEF closed, p
<1>4. price * closed \in Int /\ cash \in Int /\ -fee \in Int /\ -1 \in Int /\ p.position - closed \in Nat
  <2>1. price * closed \in Int
    BY <1>2
  <2> QED
    BY <1>1, <1>2, <2>1
<1>5. pnl \in Rational
  <2>1. Whole(price) \in Rational /\ Whole(-fee) \in Rational /\ Times(p.avg, -1) \in Rational
    BY <1>1, <1>4, RationalType
  <2>2. Plus(Whole(price), Times(p.avg, -1)) \in Rational
    BY <2>1, RationalType
  <2>3. gain \in Rational
    BY <1>2, <2>2, RationalType
  <2> HIDE DEF gain
  <2>4. Plus(gain, Whole(-fee)) \in Rational
    BY <2>1, <2>3, RationalType
  <2> QED
    BY <1>1, <2>4, RationalType
<1>6. Whole(0) \in Rational
  BY RationalType
<1>7. /\ new \in Positions /\ new.asset = p.asset /\ new.position = p.position - closed
      /\ closed = p.position => new.avg = Whole(0)
      /\ closed # p.position => new.avg = p.avg
  <2>1. CASE closed = p.position
    <3>1. new = [p EXCEPT !.position = 0, !.avg = Whole(0), !.stopLoss = 0, !.takeProfit = 0]
      BY <2>1
    <3>2. p.position - closed = 0 /\ 0 \in Nat /\ 0 \in Int
      BY <1>1, <2>1
    <3> DEFINE z == Whole(0)
    <3>3. z \in Rational
      BY <1>6
    <3> HIDE DEF new, z
    <3>4. new = [p EXCEPT !.position = 0, !.avg = z, !.stopLoss = 0, !.takeProfit = 0]
      BY <3>1 DEF z
    <3>5. new \in Positions /\ new.asset = p.asset /\ new.position = 0 /\ new.avg = z
      BY <1>1, <3>2, <3>3, <3>4 DEF Positions
    <3> QED
      BY <2>1, <3>2, <3>5 DEF z
  <2>2. CASE closed # p.position
    BY <1>1, <1>4, <2>2 DEF Positions
  <2> QED
    BY <2>1, <2>2
<1>8. sold \in [Assets -> Int]
  BY <1>1, <1>2
<1> HIDE DEF new, pnl, cash, sold
<1>9. /\ ps \in [Slots -> Positions] /\ ps[s] = new
      /\ \A t \in Slots : t # s => ps[t] = m.positions[t]
  BY <1>1, <1>7
<1> HIDE DEF ps
<1>10. /\ logged \in Managers /\ SameBook(m, logged) /\ logged.trades = m.trades + 1
       /\ logged.pnl = pnl /\ logged.entryCost = m.entryCost
  <2>1. m.trades + 1 \in Nat
    BY <1>1
  <2> QED
    BY <1>5, <2>1 DEF Managers, SameBook
<1> HIDE DEF logged
<1>11. /\ n \in Managers /\ SameBook(logged, n) /\ n.positions = ps /\ n.cash = cash
       /\ n.trades = logged.trades /\ n.entryCost = logged.entryCost /\ n.pnl = logged.pnl
  BY <1>4, <1>8, <1>9, <1>10 DEF Managers, SameBook
<1> HIDE DEF n
<1>12. Filled(m, n, s)
  <2>1. SameBook(m, n)
    BY <1>10, <1>11 DEF SameBook
  <2> QED
    BY <1>7, <1>9, <1>11, <2>1 DEF Filled, p
<1>13. ASSUME Balanced(m)
       PROVE  Balanced(n)
  <2>1. PICK D \in Positive, b \in Int, c \in [Slots -> Int] : BalancedAt(m, D, b, c)
    BY <1>13 DEF Balanced
  <2> DEFINE u == c[s]
             v == price * D + u * (-1)
             w == v * closed + (-fee) * D
             e == [c EXCEPT ![s] = IF closed = p.position THEN 0 ELSE u]
  <2>2. u \in Int /\ D \in Int /\ Is(p.avg, D, u) /\ Is(m.pnl, D, b)
    BY <2>1 DEF BalancedAt, Positive, p
  <2>3. e \in [Slots -> Int] /\ e[s] = (IF closed = p.position THEN 0 ELSE u)
        /\ \A t \in Slots : t # s => e[t] = c[t]
    BY <2>2
  <2> HIDE DEF u, e
  <2>4. v \in Int /\ u * (-1) \in Int /\ price * D \in Int
    BY <2>2
  <2>5. w \in Int /\ v * closed \in Int /\ (-fee) * D \in Int
    <3> HIDE DEF v
    <3> QED
      BY <1>2, <1>4, <2>2, <2>4
  <2>6. Is(pnl, D, b + w)
    <3>1. Is(Times(p.avg, -1), D, u * (-1))
      BY <1>4, <2>2, TimesIs
    <3>2. Is(Whole(price), D, price * D) /\ Is(Whole(-fee), D, (-fee) * D)
      BY <1>4, WholeIs
    <3>3. Is(Plus(Whole(price), Times(p.avg, -1)), D, v)
      BY <2>4, <3>1, <3>2, PlusIs
    <3> HIDE DEF v
    <3>4. Is(gain, D, v * closed)
      BY <1>2, <2>4, <3>3, TimesIs
    <3> HIDE DEF gain
    <3>5. Is(Plus(gain, Whole(-fee)), D, w)
      BY <2>5, <3>2, <3>4, PlusIs
    <3> HIDE DEF w
    <3> QED
      BY <2>2, <2>5, <3>5, PlusIs DEF pnl
  <2>7. \A t \in Slots : Is(n.positions[t].avg, D, e[t])
    <3>1. Is(Whole(0), D, 0)
      BY WholeIs DEF Positive
    <3>2. Is(n.positions[s].avg, D, e[s])
      BY <1>7, <1>9, <1>11, <2>2, <2>3, <3>1
    <3> QED
      BY <1>9, <1>11, <2>1, <2>3, <3>2 DEF BalancedAt
  <2>8. /\ \A i \in 1..Capacity : Costs(m, c)[i] \in Int /\ Costs(m, c)[i] = c[i] * m.positions[i].position
        /\ SumTo(Costs(m, c), Capacity) \in Int
        /\ \A i \in 1..Capacity : Costs(n, e)[i] \in Int /\ Costs(n, e)[i] = e[i] * n.positions[i].position
    BY <1>11, <2>3, CostsType
  <2>9. Slots = 1..Capacity /\ Capacity \in Nat /\ s \in Nat /\ s \in 1..Capacity
    BY Params
  <2> DEFINE x == SumTo(Costs(m, c), Capacity)
             f == Costs(m, c)
             h == Costs(n, e)
  <2>10. SumTo(h, Capacity) = SumTo(f, Capacity) + (h[s] - f[s])
    <3>1. \A i \in 1..Capacity : f[i] \in Int /\ h[i] \in Int
      BY <2>8
    <3>2. ASSUME NEW i \in (1..Capacity) \ {s}
          PROVE  f[i] = h[i]
      <4>1. e[i] = c[i] /\ n.positions[i] = m.positions[i]
        BY <1>9, <1>11, <2>3, <2>9
      <4> QED
        BY <2>8, <4>1
    <3> HIDE DEF f, h
    <3>3. SumTo(h, Capacity) = SumTo(f, Capacity) + (IF s \in 1..Capacity THEN h[s] - f[s] ELSE 0)
      BY <2>9, <3>1, <3>2, SumUpdate
    <3> QED
      BY <2>9, <3>3
  <2>11. f[s] = u * p.position /\ h[s] = u * (p.position - closed)
    <3>1. f[s] = u * p.position
      BY <2>8, <2>9 DEF u, p
    <3>2. h[s] = e[s] * (p.position - closed)
      BY <1>7, <1>9, <1>11, <2>8, <2>9
    <3> HIDE DEF f, h
    <3> QED
      BY <1>1, <1>2, <2>2, <2>3, <3>1, <3>2
  <2>12. n.cash * D + SumTo(h, Capacity) = (Cash0 - n.entryCost) * D + (b + w)
    <3>1. m.cash * D + x = (Cash0 - m.entryCost) * D + b
      BY <2>1 DEF BalancedAt
    <3>2. x \in Int /\ Cash0 \in Int
      <4>1. Cash0 \in Int
        BY Params
      <4> QED
        BY <2>8, <4>1
    <3>3. SumTo(h, Capacity) = x + (u * (p.position - closed) - u * p.position)
      BY <2>10, <2>11
    <3> HIDE DEF x, f, h
    <3>4. u * (p.position - closed) = u * p.position - u * closed
      BY <1>1, <1>2, <2>2
    <3>5. w = (price * closed) * D - u * closed - fee * D
      BY <1>2, <2>2
    <3>6. n.cash * D = m.cash * D - fee * D + (price * closed) * D
      BY <1>1, <1>4, <1>11, <2>2 DEF cash
    <3>7. n.entryCost = m.entryCost
      BY <1>10, <1>11
    <3> DEFINE A == m.cash * D
               B == (Cash0 - m.entryCost) * D
               F == fee * D
               G == (price * closed) * D
               U == u * closed
               P == u * p.position
    <3>8. A \in Int /\ B \in Int /\ F \in Int /\ G \in Int /\ U \in Int /\ P \in Int
      BY <1>1, <1>2, <1>4, <2>2, <3>2
    <3>9. A + x = B + b /\ n.cash * D = A - F + G /\ SumTo(h, Capacity) = x + ((P - U) - P)
          /\ w = G - U - F /\ (Cash0 - n.entryCost) * D = B
      BY <3>1, <3>3, <3>4, <3>5, <3>6, <3>7
    <3> HIDE DEF A, B, F, G, U, P, w
    <3> QED
      BY <3>2, <3>8, <3>9
  <2> HIDE DEF w
  <2>13. BalancedAt(n, D, b + w, e)
    BY <1>10, <1>11, <2>6, <2>7, <2>12 DEF BalancedAt
  <2>14. b + w \in Int
    BY <2>5
  <2> QED
    BY <2>3, <2>13, <2>14 DEF Balanced
<1> QED
  BY <1>3, <1>10, <1>11, <1>12, <1>13

-----------------------------------------------------------------------------
(* The inductive invariant of a manager.                                   *)

(* An id names one order.                                                  *)
Unique(m) == \A o, p \in m.pending : o.id = p.id => o = p
(* Ids of orders and of links are given out by the manager.                *)
Given(m) ==
  /\ \A o \in m.pending : o.id < m.nextId /\ o.link < m.nextId
  /\ \A f \in m.filled : f.link < m.nextId
(* barsValid is what is left of the bars an order is valid for.            *)
Counted(m) ==
  \A o \in m.pending : (o.status = "PENDING" /\ o.validity >= 0) =>
                         o.barsValid >= 0 /\ o.age + o.barsValid = o.validity
(* An order linked with a filled one is not pending.                       *)
Linked(m) ==
  \A f \in m.filled, o \in m.pending : (o.status = "PENDING" /\ f.link # 0) => o.link # f.link
Book(m) ==
  /\ Unique(m) /\ Given(m) /\ Counted(m) /\ Linked(m)
  /\ FilledInTime(m) /\ OcoOneFills(m) /\ PendingIsLive(m)
Good(m) == m \in Managers /\ Seats(m) /\ Balanced(m) /\ Book(m)

LEMMA BookSame ==
  ASSUME NEW m, NEW n, Book(m), SameBook(m, n)
  PROVE  Book(n)
BY DEF Book, SameBook, Unique, Given, Counted, Linked, FilledInTime, OcoOneFills, PendingIsLive

(* The fills keep the invariant and do not touch the orders.               *)
LEMMA ApplyFillKeeps ==
  ASSUME NEW m, Good(m), NEW s \in Slots, m.positions[s].asset # 0, NEW d \in {1, -1},
         NEW q \in Positive, NEW price \in Int, NEW sl \in Int, NEW tp \in Int
  PROVE  LET n == ApplyFill(m, s, d, q, price, sl, tp) IN Good(n) /\ SameBook(m, n)
<1> DEFINE n == ApplyFill(m, s, d, q, price, sl, tp)
           fee == Commission(m.rules, price * q, d < 0)
<1>1. m \in Managers /\ Seats(m) /\ Balanced(m) /\ Book(m) /\ m.rules \in Markets
  BY ManagerFacts DEF Good
<1>2. fee \in Int
  <2>1. price * q \in Int /\ (d < 0) \in BOOLEAN
    BY DEF Positive
  <2> QED
    BY <1>1, <2>1, CommissionType
<1>3. Filled(m, n, s) /\ Balanced(n)
  <2>1. CASE d > 0
    <3>1. n = ApplyBuy(m, s, q, price, fee, sl, tp)
      BY <2>1 DEF ApplyFill
    <3> HIDE DEF n, fee
    <3> QED
      BY <1>1, <1>2, <3>1, BuyKeeps
  <2>2. CASE ~(d > 0)
    <3>1. n = ApplySell(m, s, q, price, fee)
      BY <2>2 DEF ApplyFill
    <3> HIDE DEF n, fee
    <3> QED
      BY <1>1, <1>2, <3>1, SellKeeps
  <2> QED
    BY <2>1, <2>2
<1> HIDE DEF n
<1>4. Seats(n)
  BY <1>1, <1>3 DEF Seats, Filled
<1>5. Book(n)
  BY <1>1, <1>3, BookSame DEF Filled
<1> QED
  BY <1>3, <1>4, <1>5 DEF Good, Filled, n

LEMMA TakeSlotGood ==
  ASSUME NEW m, Good(m), NEW a \in Assets
  PROVE  /\ Good(TakeSlot(m, a)) /\ SameBook(m, TakeSlot(m, a))
         /\ SlotOf(TakeSlot(m, a), a) # 0 =>
              /\ SlotOf(TakeSlot(m, a), a) \in Slots
              /\ TakeSlot(m, a).positions[SlotOf(TakeSlot(m, a), a)].asset # 0
<1> DEFINE n == TakeSlot(m, a)
<1>1. m \in Managers /\ Seats(m) /\ Balanced(m) /\ Book(m)
  BY DEF Good
<1>2. /\ n \in Managers /\ Seats(n) /\ SameBook(m, n)
      /\ n.cash = m.cash /\ n.entryCost = m.entryCost /\ n.pnl = m.pnl
      /\ \A s \in Slots : /\ n.positions[s].position = m.positions[s].position
                          /\ \/ n.positions[s] = m.positions[s]
                             \/ n.positions[s].position = 0 /\ n.positions[s].avg = Whole(0)
  BY <1>1, TakeSlotKeeps
<1> HIDE DEF n
<1>3. Balanced(n)
  <2>1. \A s \in Slots : /\ n.positions[s].position = m.positions[s].position
                         /\ \/ n.positions[s].avg = m.positions[s].avg
                            \/ n.positions[s].position = 0 /\ n.positions[s].avg = Whole(0)
    BY <1>2
  <2> QED
    BY <1>1, <1>2, <2>1, BalancedKept
<1>4. Book(n)
  BY <1>1, <1>2, BookSame
<1>5. SlotOf(n, a) # 0 => SlotOf(n, a) \in Slots /\ n.positions[SlotOf(n, a)].asset # 0
  BY <1>2, SlotIs, Params
<1> QED
  BY <1>2, <1>3, <1>4, <1>5 DEF Good, n

LEMMA ExecuteFillKeeps ==
  ASSUME NEW m, Good(m), NEW a \in Assets, NEW d \in {1, -1}, NEW q \in Int, NEW price \in Int,
         NEW prevClose \in Int, NEW sl \in Int, NEW tp \in Int
  PROVE  LET n == ExecuteFill(m, a, d, q, price, prevClose, sl, tp) IN Good(n) /\ SameBook(m, n)
<1> DEFINE k == TakeSlot(m, a)
           s == SlotOf(k, a)
           bought == IF d > 0 THEN k.positions[s].boughtToday ELSE 0
           paid == ApplySlippage(price, d)
           n == ExecuteFill(m, a, d, q, price, prevClose, sl, tp)
           refused == ~ValidateOrder(k.rules, price, q, d, prevClose, k.positions[s].position, bought)
<1>1. Good(k) /\ SameBook(m, k) /\ (s # 0 => s \in Slots /\ k.positions[s].asset # 0)
  BY TakeSlotGood
<1>2. CASE s = 0 \/ refused
  <2>1. n = k
    BY <1>2 DEF ExecuteFill
  <2> HIDE DEF n, k
  <2> QED
    BY <1>1, <2>1 DEF n
<1>3. CASE s # 0 /\ ~refused
  <2>1. n = ApplyFill(k, s, d, q, paid, sl, tp)
    BY <1>3 DEF ExecuteFill
  <2>2. q \in Positive
    BY <1>3 DEF ValidateOrder, Positive
  <2>3. paid \in Int
    BY Params DEF ApplySlippage
  <2> HIDE DEF k, s, paid, n
  <2>4. Good(n) /\ SameBook(k, n)
    BY <1>1, <1>3, <2>1, <2>2, <2>3, ApplyFillKeeps
  <2>5. SameBook(m, n)
    BY <1>1, <2>4 DEF SameBook
  <2> QED
    BY <2>4, <2>5 DEF n
<1> QED
  BY <1>2, <1>3

LEMMA GoodKept ==
  ASSUME NEW m, Good(m), NEW n \in Managers, Book(n),
         n.cash = m.cash, n.entryCost = m.entryCost, n.pnl = m.pnl,
         \A s \in Slots : /\ n.positions[s].asset = m.positions[s].asset
                          /\ n.positions[s].position = m.positions[s].position
                          /\ n.positions[s].avg = m.positions[s].avg
  PROVE  Good(n)
<1>1. Seats(n)
  BY DEF Good, Seats
<1>2. Balanced(n)
  BY BalancedKept DEF Good
<1> QED
  BY <1>1, <1>2 DEF Good

(* Only the orders are touched.                                            *)
LEMMA GoodOrders ==
  ASSUME NEW m, Good(m), NEW n \in Managers, Book(n),
         n.cash = m.cash, n.entryCost = m.entryCost, n.pnl = m.pnl, n.positions = m.positions
  PROVE  Good(n)
BY GoodKept

LEMMA DivType == \A x \in Int, y \in Positive : x \div y \in Int
BY DEF Positive

(* The quantity that a part of the equity buys.                            *)
LEMMA PartType ==
  ASSUME NEW m \in Managers, NEW fraction \in Fraction, NEW price \in Price
  PROVE  RoundLot(m.rules, (m.equity * fraction[1]) \div (fraction[2] * price)) \in Int
<1>1. m.rules \in Markets /\ m.equity \in Int
  BY ManagerFacts
<1>2. fraction[1] \in Int /\ fraction[2] \in Positive /\ price \in Positive
  BY DEF Fraction, Price, Positive
<1>3. m.equity * fraction[1] \in Int /\ fraction[2] * price \in Positive
  BY <1>1, <1>2, Product
<1>4. (m.equity * fraction[1]) \div (fraction[2] * price) \in Int
  BY <1>3, DivType
<1> QED
  BY <1>1, <1>4, RoundLotType

LEMMA QuantityType ==
  ASSUME NEW m \in Managers, NEW fraction \in Fraction, NEW price \in Price
  PROVE  /\ RoundLot(m.rules, (m.equity * fraction[1]) \div (fraction[2] * price)) \in Int
         /\ \A d \in {1, -1} : MarketQuantity(m, d, fraction, price) \in Int
<1> DEFINE part == IF fraction[1] > fraction[2] THEN Whole(1) ELSE fraction
           q == RoundLot(m.rules, (m.equity * part[1]) \div (part[2] * price))
<1>1. m.rules \in Markets /\ m.equity \in Int /\ m.cash \in Int
  BY ManagerFacts
<1>2. part \in Fraction
  BY DEF Fraction, Whole
<1> HIDE DEF part
<1>3. q \in Int
  BY <1>2, PartType
<1>4. QuantityFor(m, m.cash, price * (1 + SlippagePct)) \in Int
  <2>1. price \in Positive /\ 1 + SlippagePct \in Positive
    BY Params DEF Price, Positive
  <2>2. price * (1 + SlippagePct) \in Positive
    BY <2>1, Product
  <2> QED
    BY <1>1, <2>2, DivType, RoundLotType DEF QuantityFor
<1> HIDE DEF q
<1>5. \A d \in {1, -1} : MarketQuantity(m, d, fraction, price) \in Int
  BY <1>3, <1>4 DEF MarketQuantity, q, part
<1> QED
  BY <1>5, PartType

(* What the manager gives out an id for.                                   *)
LEMMA IdGiven ==
  ASSUME NEW m, Good(m), NEW live \in SUBSET LiveOrders, m.live \subseteq live
  PROVE  Good([m EXCEPT !.nextId = m.nextId + 1, !.live = live])
<1> DEFINE n == [m EXCEPT !.nextId = m.nextId + 1, !.live = live]
<1>1. m \in Managers /\ Book(m) /\ m.nextId \in Positive /\ m.pending \in SUBSET OrderRecords
      /\ m.filled \in SUBSET Fills
  BY DEF Good, Managers
<1>2. m.nextId + 1 \in Positive
  BY <1>1 DEF Positive
<1>3. /\ n \in Managers /\ n.nextId = m.nextId + 1 /\ n.live = live /\ n.pending = m.pending
      /\ n.filled = m.filled /\ n.executor = m.executor /\ n.cash = m.cash
      /\ n.entryCost = m.entryCost /\ n.pnl = m.pnl /\ n.positions = m.positions
  BY <1>1, <1>2 DEF Managers
<1> HIDE DEF n
<1>4. Given(n)
  <2>1. \A o \in m.pending : o.id \in Int /\ o.link \in Int
    BY <1>1 DEF OrderRecords, Positive
  <2>2. \A f \in m.filled : f.link \in Int
    BY <1>1 DEF Fills
  <2> QED
    BY <1>1, <1>3, <2>1, <2>2 DEF Book, Given, Positive
<1>5. PendingIsLive(n)
  BY <1>1, <1>3 DEF Book, PendingIsLive
<1>6. Unique(n) /\ Counted(n) /\ Linked(n) /\ FilledInTime(n) /\ OcoOneFills(n)
  BY <1>1, <1>3 DEF Book, Unique, Counted, Linked, FilledInTime, OcoOneFills
<1>7. Good(n)
  BY <1>3, <1>4, <1>5, <1>6, GoodOrders DEF Book
<1> QED
  BY <1>7 DEF n

(* Submission.                                                             *)
LEMMA MarketKeeps ==
  ASSUME NEW m, Good(m), NEW a \in Assets, NEW d \in {1, -1}, NEW fraction \in Fraction,
         NEW price \in Price, NEW prevClose \in Int, NEW sl \in Int, NEW tp \in Int,
         NEW accepted \in BOOLEAN
  PROVE  Good(Market(m, a, d, fraction, price, prevClose, sl, tp, accepted))
<1> DEFINE q == MarketQuantity(m, d, fraction, price)
           l == [id |-> m.nextId, asset |-> a, direction |-> d, quantity |-> q]
           live == IF accepted THEN m.live \cup {l} ELSE m.live
           n == Market(m, a, d, fraction, price, prevClose, sl, tp, accepted)
<1>1. m \in Managers /\ m.live \in SUBSET LiveOrders /\ m.nextId \in Positive
  BY ManagerFacts DEF Good
<1>2. q \in Int /\ price \in Int
  BY <1>1, QuantityType DEF Price
<1> HIDE DEF q
<1>3. CASE q <= 0
  BY <1>3 DEF Market, q
<1>4. CASE ~(q <= 0) /\ m.executor
  <2>1. live \in SUBSET LiveOrders /\ m.live \subseteq live
    <3>1. q \in Positive
      BY <1>2, <1>4 DEF Positive
    <3>2. l \in LiveOrders
      BY <1>1, <3>1 DEF LiveOrders
    <3> HIDE DEF l
    <3> QED
      BY <1>1, <3>2
  <2>2. n = [m EXCEPT !.nextId = m.nextId + 1, !.live = live]
    BY <1>4 DEF Market, q
  <2> HIDE DEF live, n
  <2>3. Good([m EXCEPT !.nextId = m.nextId + 1, !.live = live])
    BY <2>1, IdGiven, Zenon
  <2> QED
    BY <2>2, <2>3 DEF n
<1>5. CASE ~(q <= 0) /\ ~m.executor
  <2>1. n = ExecuteFill(m, a, d, q, price, prevClose, sl, tp)
    BY <1>5 DEF Market, q
  <2> HIDE DEF n
  <2> QED
    BY <1>2, <2>1, ExecuteFillKeeps DEF n
<1> QED
  BY <1>3, <1>4, <1>5

LEMMA CloseKeeps ==
  ASSUME NEW m, Good(m), NEW a \in Assets, NEW price \in Int, NEW accepted \in BOOLEAN
  PROVE  Good(Close(m, a, price, accepted))
<1> DEFINE s == FindPosition(m, a)
           q == m.positions[s].position
           l == [id |-> m.nextId, asset |-> a, direction |-> -1, quantity |-> q]
           live == IF accepted THEN m.live \cup {l} ELSE m.live
           n == Close(m, a, price, accepted)
<1>1. m \in Managers /\ m.live \in SUBSET LiveOrders /\ m.nextId \in Positive
  BY ManagerFacts DEF Good
<1>2. s # 0 => q \in Positive
  BY <1>1, FoundIs, ManagerFacts DEF Positive
<1> HIDE DEF s, q
<1>3. CASE s = 0
  BY <1>3 DEF Close, s
<1>4. CASE s # 0 /\ m.executor
  <2>1. live \in SUBSET LiveOrders /\ m.live \subseteq live
    <3>1. l \in LiveOrders
      BY <1>1, <1>2, <1>4 DEF LiveOrders
    <3> HIDE DEF l
    <3> QED
      BY <1>1, <3>1
  <2>2. n = [m EXCEPT !.nextId = m.nextId + 1, !.live = live]
    BY <1>4 DEF Close, s, q
  <2> HIDE DEF live, n
  <2>3. Good([m EXCEPT !.nextId = m.nextId + 1, !.live = live])
    BY <2>1, IdGiven, Zenon
  <2> QED
    BY <2>2, <2>3 DEF n
<1>5. CASE s # 0 /\ ~m.executor
  <2>1. n = ExecuteFill(m, a, -1, q, price, 0, 0, 0)
    BY <1>5 DEF Close, s, q
  <2>2. q \in Int /\ -1 \in {1, -1}
    BY <1>2, <1>5 DEF Positive
  <2> HIDE DEF n
  <2> QED
    BY <2>1, <2>2, ExecuteFillKeeps DEF n
<1> QED
  BY <1>3, <1>4, <1>5

-----------------------------------------------------------------------------
(* The pending orders.                                                     *)

LEMMA OrderFacts ==
  ASSUME NEW o \in OrderRecords
  PROVE  /\ o.id \in Positive /\ o.id \in Int /\ o.asset \in Assets /\ o.direction \in {1, -1}
         /\ o.quantity \in Positive /\ o.quantity \in Int /\ o.price \in Int /\ o.stopLoss \in Int
         /\ o.takeProfit \in Int /\ o.link \in Nat /\ o.barsValid \in Int /\ o.age \in Nat
         /\ o.validity \in Int
BY DEF OrderRecords, Positive

LEMMA BookFacts ==
  ASSUME NEW m, Good(m)
  PROVE  /\ m \in Managers /\ m.pending \in SUBSET OrderRecords /\ m.live \in SUBSET LiveOrders
         /\ m.filled \in SUBSET Fills /\ m.nextId \in Positive /\ m.nextId \in Int
         /\ \A o \in m.pending : o \in OrderRecords
         /\ \A f \in m.filled : f.link \in Int
         /\ Unique(m) /\ Given(m) /\ Counted(m) /\ Linked(m)
         /\ FilledInTime(m) /\ OcoOneFills(m) /\ PendingIsLive(m)
<1>1. m \in Managers /\ Book(m)
  BY DEF Good
<1>2. /\ m.pending \in SUBSET OrderRecords /\ m.live \in SUBSET LiveOrders
      /\ m.filled \in SUBSET Fills /\ m.nextId \in Positive
  BY <1>1 DEF Managers
<1> QED
  BY <1>1, <1>2 DEF Book, Fills, Positive

(* Each order left over was there before; it may have ended.               *)
LEMMA Narrowed ==
  ASSUME NEW m, Good(m), NEW P, NEW L \in SUBSET LiveOrders,
         \A o \in P :
            /\ o \in OrderRecords
            /\ \E p \in m.pending : /\ o.id = p.id /\ o.link = p.link
                                    /\ o.status = "PENDING" => p.status = "PENDING"
            /\ (o.status = "PENDING" /\ o.validity >= 0) =>
                   o.barsValid >= 0 /\ o.age + o.barsValid = o.validity
            /\ (o.status = "PENDING" /\ m.executor) => \E l \in L : l.id = o.id,
         \A o, p \in P : o.id = p.id => o = p
  PROVE  Good([m EXCEPT !.pending = P, !.live = L])
<1> DEFINE n == [m EXCEPT !.pending = P, !.live = L]
<1>1. P \in SUBSET OrderRecords
  OBVIOUS
<1>2. /\ n \in Managers /\ n.pending = P /\ n.live = L /\ n.executor = m.executor
      /\ n.nextId = m.nextId /\ n.filled = m.filled /\ n.cash = m.cash
      /\ n.entryCost = m.entryCost /\ n.pnl = m.pnl /\ n.positions = m.positions
  BY <1>1 DEF Good, Managers
<1> HIDE DEF n
<1>3. Unique(n) /\ Counted(n) /\ PendingIsLive(n)
  BY <1>2 DEF Unique, Counted, PendingIsLive
<1>4. Given(n)
  BY <1>2, BookFacts DEF Given
<1>5. Linked(n)
  BY <1>2, BookFacts DEF Linked
<1>6. FilledInTime(n) /\ OcoOneFills(n)
  BY <1>2, BookFacts DEF FilledInTime, OcoOneFills
<1>7. Good(n)
  BY <1>2, <1>3, <1>4, <1>5, <1>6, GoodOrders DEF Book
<1> QED
  BY <1>7 DEF n

LEMMA SameLive ==
  ASSUME NEW m, Good(m), NEW P
  PROVE  [m EXCEPT !.pending = P] = [m EXCEPT !.pending = P, !.live = m.live]
<1>1. m.live = m.live /\ m \in Managers
  BY DEF Good
<1> QED
  BY <1>1 DEF Managers

LEMMA CompactKeeps ==
  ASSUME NEW m, Good(m)
  PROVE  Good(Compact(m))
<1> DEFINE P == {o \in m.pending : o.status = "PENDING"}
<1>1. Compact(m) = [m EXCEPT !.pending = P, !.live = m.live]
  BY SameLive DEF Compact
<1>2. Good([m EXCEPT !.pending = P, !.live = m.live])
  <2>1. \A o \in P :
            /\ o \in OrderRecords
            /\ \E p \in m.pending : /\ o.id = p.id /\ o.link = p.link
                                    /\ o.status = "PENDING" => p.status = "PENDING"
            /\ (o.status = "PENDING" /\ o.validity >= 0) =>
                   o.barsValid >= 0 /\ o.age + o.barsValid = o.validity
            /\ (o.status = "PENDING" /\ m.executor) => \E l \in m.live : l.id = o.id
    BY BookFacts DEF Counted, PendingIsLive
  <2>2. \A o, p \in P : o.id = p.id => o = p
    BY BookFacts DEF Unique
  <2>3. m.live \in SUBSET LiveOrders
    BY BookFacts
  <2> HIDE DEF P
  <2> QED
    BY <2>1, <2>2, <2>3, Narrowed
<1> QED
  BY <1>1, <1>2

(* Whether or not the exchange hears of the cancellation in time, the      *)
(* manager no longer takes the orders for pending.                         *)
LEMMA CancelKeeps ==
  ASSUME NEW m, Good(m), NEW orders, orders \subseteq m.pending, NEW late \in BOOLEAN
  PROVE  Good(Cancel(m, orders, late))
<1> DEFINE F(o) == IF o \in orders THEN [o EXCEPT !.status = "CANCELLED"] ELSE o
           P == {F(o) : o \in m.pending}
           L == IF late THEN m.live ELSE {l \in m.live : \A o \in orders : l.id # o.id}
           k == [m EXCEPT !.pending = P, !.live = L]
<1>1. Cancel(m, orders, late) = Compact(k)
  BY DEF Cancel
<1>2. L \in SUBSET LiveOrders
  BY BookFacts
<1>3. \A o \in m.pending : /\ F(o) \in OrderRecords /\ F(o).id = o.id /\ F(o).link = o.link
                           /\ F(o).status = "PENDING" => F(o) = o /\ o \notin orders
  BY BookFacts DEF OrderRecords, Statuses
<1>4. \A o \in m.pending : (o \notin orders /\ o.status = "PENDING" /\ m.executor) => \E l \in L : l.id = o.id
  <2> SUFFICES ASSUME NEW o \in m.pending, o \notin orders, o.status = "PENDING", m.executor
               PROVE  \E l \in L : l.id = o.id
    OBVIOUS
  <2>1. PICK l \in m.live : l.id = o.id
    BY BookFacts DEF PendingIsLive
  <2>2. \A p \in orders : p.id # o.id
    BY BookFacts DEF Unique
  <2> QED
    BY <2>1, <2>2
<1> HIDE DEF F, L
<1>5. \A o \in P :
            /\ o \in OrderRecords
            /\ \E p \in m.pending : /\ o.id = p.id /\ o.link = p.link
                                    /\ o.status = "PENDING" => p.status = "PENDING"
            /\ (o.status = "PENDING" /\ o.validity >= 0) =>
                   o.barsValid >= 0 /\ o.age + o.barsValid = o.validity
            /\ (o.status = "PENDING" /\ m.executor) => \E l \in L : l.id = o.id
  BY <1>3, <1>4, BookFacts DEF Counted
<1>6. \A o, p \in P : o.id = p.id => o = p
  BY <1>3, BookFacts DEF Unique
<1> HIDE DEF P
<1>7. Good(k)
  BY <1>2, <1>5, <1>6, Narrowed
<1> HIDE DEF k
<1> QED
  BY <1>1, <1>7, CompactKeeps

LEMMA QueueKeeps ==
  ASSUME NEW m, Good(m), NEW a \in Assets, NEW type \in OrderTypes, NEW d \in {1, -1},
         NEW fraction \in Fraction, NEW price \in Price, NEW sl \in Int, NEW tp \in Int,
         NEW barsValid \in Int, NEW accepted \in BOOLEAN
  PROVE  Good(Queue(m, a, type, d, fraction, price, sl, tp, barsValid, accepted))
<1> DEFINE q == RoundLot(m.rules, (m.equity * fraction[1]) \div (fraction[2] * price))
           order == [NewOrder EXCEPT !.id = m.nextId, !.asset = a, !.type = type,
                                     !.direction = d, !.quantity = q, !.price = price,
                                     !.stopLoss = sl, !.takeProfit = tp,
                                     !.barsValid = barsValid, !.validity = barsValid]
           l == [id |-> m.nextId, asset |-> a, direction |-> d, quantity |-> q]
           live == IF m.executor THEN m.live \cup {l} ELSE m.live
           n == Queue(m, a, type, d, fraction, price, sl, tp, barsValid, accepted)
<1>1. /\ m \in Managers /\ m.live \in SUBSET LiveOrders /\ m.nextId \in Positive
      /\ m.pending \in SUBSET OrderRecords /\ m.nextId \in Int
  BY BookFacts
<1>2. q \in Int /\ price \in Int
  BY <1>1, QuantityType DEF Price
<1> HIDE DEF q
<1>3. CASE q <= 0
  BY <1>3 DEF Queue, q
<1>4. CASE ~(q <= 0) /\ m.executor /\ ~accepted
  <2>1. n = [m EXCEPT !.nextId = m.nextId + 1]
    BY <1>4 DEF Queue, q
  <2>2. [m EXCEPT !.nextId = m.nextId + 1] = [m EXCEPT !.nextId = m.nextId + 1, !.live = m.live]
    BY <1>1 DEF Managers
  <2>3. Good([m EXCEPT !.nextId = m.nextId + 1, !.live = m.live])
    BY <1>1, IdGiven
  <2> QED
    BY <2>1, <2>2, <2>3
<1>5. CASE ~(q <= 0) /\ ~(m.executor /\ ~accepted)
  <2>1. /\ order \in OrderRecords /\ order.id = m.nextId /\ order.link = 0 /\ order.age = 0
        /\ order.barsValid = barsValid /\ order.validity = barsValid
    <3>1. q \in Positive
      BY <1>2, <1>5 DEF Positive
    <3> QED
      BY <1>1, <1>2, <3>1 DEF OrderRecords, NewOrder, Statuses
  <2>2. l \in LiveOrders /\ l.id = m.nextId
    <3>1. q \in Positive
      BY <1>2, <1>5 DEF Positive
    <3> QED
      BY <1>1, <3>1 DEF LiveOrders
  <2> HIDE DEF order, l
  <2>3. live \in SUBSET LiveOrders /\ m.live \subseteq live /\ (m.executor => l \in live)
    BY <1>1, <2>2
  <2> HIDE DEF live
  <2> DEFINE P == m.pending \cup {order}
             k == [m EXCEPT !.nextId = m.nextId + 1, !.pending = P, !.live = live]
  <2>4. n = k
    BY <1>5 DEF Queue, q, order, l, live
  <2> HIDE DEF n
  <2>5. P \in SUBSET OrderRecords
    BY <1>1, <2>1
  <2>6. m.nextId + 1 \in Positive
    BY <1>1 DEF Positive
  <2> HIDE DEF P
  <2>7. /\ k \in Managers /\ k.nextId = m.nextId + 1 /\ k.live = live /\ k.pending = P
        /\ k.filled = m.filled /\ k.executor = m.executor /\ k.cash = m.cash
        /\ k.entryCost = m.entryCost /\ k.pnl = m.pnl /\ k.positions = m.positions
    BY <1>1, <2>3, <2>5, <2>6 DEF Managers
  <2> HIDE DEF k
  <2>8. Unique(k)
    <3>1. \A o \in m.pending : o.id # order.id
      BY <1>1, <2>1, BookFacts, OrderFacts DEF Given
    <3> QED
      BY <2>7, <3>1, BookFacts DEF Unique, P
  <2>9. Given(k)
    <3>1. \A o \in m.pending : o.id < m.nextId + 1 /\ o.link < m.nextId + 1
      BY <1>1, BookFacts, OrderFacts DEF Given
    <3>2. \A f \in m.filled : f.link < m.nextId + 1
      BY <1>1, BookFacts DEF Given
    <3>3. order.id < m.nextId + 1 /\ order.link < m.nextId + 1
      BY <1>1, <2>1 DEF Positive
    <3> QED
      BY <2>7, <3>1, <3>2, <3>3 DEF Given, P
  <2>10. Counted(k)
    BY <2>1, <2>7, BookFacts DEF Counted, P
  <2>11. Linked(k)
    BY <2>1, <2>7, BookFacts DEF Linked, P
  <2>12. FilledInTime(k) /\ OcoOneFills(k)
    BY <2>7, BookFacts DEF FilledInTime, OcoOneFills
  <2>13. PendingIsLive(k)
    BY <2>1, <2>2, <2>3, <2>7, BookFacts DEF PendingIsLive, P
  <2>14. Good(k)
    BY <2>7, <2>8, <2>9, <2>10, <2>11, <2>12, <2>13, GoodOrders DEF Book
  <2> QED
    BY <2>4, <2>14 DEF n
<1> QED
  BY <1>3, <1>4, <1>5

(* The stops of the positions are replaced.                                *)
LEMMA StopsReplaced ==
  ASSUME NEW m, Good(m), NEW ps \in [Slots -> Positions],
         \A s \in Slots : /\ ps[s].asset = m.positions[s].asset
                          /\ ps[s].position = m.positions[s].position
                          /\ ps[s].avg = m.positions[s].avg
  PROVE  /\ Good([m EXCEPT !.positions = ps])
         /\ SameBook(m, [m EXCEPT !.positions = ps])
<1> DEFINE n == [m EXCEPT !.positions = ps]
<1>1. m \in Managers /\ Book(m)
  BY DEF Good
<1>2. /\ n \in Managers /\ n.positions = ps /\ SameBook(m, n) /\ n.cash = m.cash
      /\ n.entryCost = m.entryCost /\ n.pnl = m.pnl
  BY <1>1 DEF Managers, SameBook
<1> HIDE DEF n
<1>3. Book(n)
  BY <1>1, <1>2, BookSame
<1>4. Good(n)
  BY <1>2, <1>3, GoodKept
<1> QED
  BY <1>2, <1>4 DEF n

(* One of them.                                                            *)
LEMMA StopReplaced ==
  ASSUME NEW m, Good(m), NEW s \in Slots, NEW p \in Positions,
         p.asset = m.positions[s].asset, p.position = m.positions[s].position,
         p.avg = m.positions[s].avg
  PROVE  /\ Good([m EXCEPT !.positions = [m.positions EXCEPT ![s] = p]])
         /\ SameBook(m, [m EXCEPT !.positions = [m.positions EXCEPT ![s] = p]])
<1> DEFINE ps == [m.positions EXCEPT ![s] = p]
<1>1. m \in Managers /\ m.positions \in [Slots -> Positions]
  BY ManagerFacts DEF Good
<1>2. /\ ps \in [Slots -> Positions]
      /\ \A t \in Slots : /\ ps[t].asset = m.positions[t].asset
                          /\ ps[t].position = m.positions[t].position
                          /\ ps[t].avg = m.positions[t].avg
  BY <1>1
<1> HIDE DEF ps
<1>3. Good([m EXCEPT !.positions = ps]) /\ SameBook(m, [m EXCEPT !.positions = ps])
  BY <1>2, StopsReplaced
<1> QED
  BY <1>3 DEF ps

LEMMA SetSlTpKeeps ==
  ASSUME NEW m, Good(m), NEW a, NEW sl \in Int, NEW tp \in Int
  PROVE  Good(SetSlTp(m, a, sl, tp))
<1> DEFINE s == FindPosition(m, a)
           p == m.positions[s]
           new == [p EXCEPT !.stopLoss = IF sl > 0 THEN sl ELSE p.stopLoss,
                            !.takeProfit = IF tp > 0 THEN tp ELSE p.takeProfit]
<1>1. m \in Managers /\ m.positions \in [Slots -> Positions]
  BY ManagerFacts DEF Good
<1>2. CASE s = 0
  BY <1>2 DEF SetSlTp
<1>3. CASE s # 0
  <2>1. s \in Slots /\ p \in Positions
    BY <1>1, <1>3, FoundIs
  <2>2. new \in Positions /\ new.asset = p.asset /\ new.position = p.position /\ new.avg = p.avg
    <3> HIDE DEF p
    <3> QED
      BY <2>1 DEF Positions
  <2>3. SetSlTp(m, a, sl, tp) = [m EXCEPT !.positions = [m.positions EXCEPT ![s] = new]]
    <3> DEFINE x == IF sl > 0 THEN sl ELSE p.stopLoss
               y == IF tp > 0 THEN tp ELSE p.takeProfit
               k == [m EXCEPT !.positions = [m.positions EXCEPT ![s] = [p EXCEPT !.stopLoss = x]]]
    <3>1. SetSlTp(m, a, sl, tp) = [k EXCEPT !.positions[s].takeProfit = IF tp > 0 THEN tp ELSE @]
      BY <1>3 DEF SetSlTp
    <3>2. new = [p EXCEPT !.stopLoss = x, !.takeProfit = y]
      OBVIOUS
    <3> HIDE DEF s, p, x, new
    <3>3. p = m.positions[s]
      BY DEF p
    <3>4. /\ k.positions = [m.positions EXCEPT ![s] = [p EXCEPT !.stopLoss = x]]
          /\ k.positions[s] = [p EXCEPT !.stopLoss = x] /\ k.positions[s].takeProfit = p.takeProfit
      BY <1>1, <2>1 DEF Managers, Positions
    <3>5. SetSlTp(m, a, sl, tp) =
            [k EXCEPT !.positions = [k.positions EXCEPT ![s] = [k.positions[s] EXCEPT !.takeProfit = y]]]
      BY <3>1, <3>4
    <3>6. [k.positions[s] EXCEPT !.takeProfit = y] = new
      BY <3>2, <3>4
    <3>7. [k.positions EXCEPT ![s] = new] = [m.positions EXCEPT ![s] = new]
      BY <1>1, <2>1, <3>4
    <3>8. \A ps : [k EXCEPT !.positions = ps] = [m EXCEPT !.positions = ps]
      BY <1>1 DEF Managers
    <3> QED
      BY <3>5, <3>6, <3>7, <3>8
  <2> HIDE DEF new
  <2>4. Good([m EXCEPT !.positions = [m.positions EXCEPT ![s] = new]])
    BY <2>1, <2>2, StopReplaced
  <2> QED
    BY <2>3, <2>4
<1> QED
  BY <1>2, <1>3

LEMMA SetTrailingStopKeeps ==
  ASSUME NEW m, Good(m), NEW a, NEW distance \in Int
  PROVE  /\ Good(SetTrailingStop(m, a, distance))
         /\ SetTrailingStop(m, a, distance).rules = m.rules
<1> DEFINE s == FindPosition(m, a)
           p == m.positions[s]
           new == [p EXCEPT !.trailing = distance, !.peak = p.avg]
<1>1. m \in Managers /\ m.positions \in [Slots -> Positions]
  BY ManagerFacts DEF Good
<1>2. CASE s = 0
  BY <1>2 DEF SetTrailingStop
<1>3. CASE s # 0
  <2>1. s \in Slots /\ p \in Positions
    BY <1>1, <1>3, FoundIs
  <2>2. new \in Positions /\ new.asset = p.asset /\ new.position = p.position /\ new.avg = p.avg
    <3> HIDE DEF p
    <3> QED
      BY <2>1 DEF Positions
  <2>3. SetTrailingStop(m, a, distance) = [m EXCEPT !.positions = [m.positions EXCEPT ![s] = new]]
    <3>1. SetTrailingStop(m, a, distance) =
            [m EXCEPT !.positions[s].trailing = distance, !.positions[s].peak = m.positions[s].avg]
      BY <1>3 DEF SetTrailingStop
    <3> HIDE DEF s
    <3> QED
      BY <1>1, <2>1, <3>1 DEF Managers, Positions
  <2> HIDE DEF new
  <2>4. /\ Good([m EXCEPT !.positions = [m.positions EXCEPT ![s] = new]])
        /\ SameBook(m, [m EXCEPT !.positions = [m.positions EXCEPT ![s] = new]])
    BY <2>1, <2>2, StopReplaced
  <2> QED
    BY <2>3, <2>4 DEF SameBook
<1> QED
  BY <1>2, <1>3

(* The link is a fresh id, so no filled order has it.                      *)
LEMMA LinkOcoKeeps ==
  ASSUME NEW m, Good(m), NEW i, NEW j
  PROVE  Good(LinkOco(m, i, j))
<1> DEFINE F(o) == IF o.id \in {i, j} THEN [o EXCEPT !.link = m.nextId] ELSE o
           P == {F(o) : o \in m.pending}
           n == [m EXCEPT !.nextId = m.nextId + 1, !.pending = P]
<1>1. LinkOco(m, i, j) = n
  BY DEF LinkOco
<1>2. /\ m \in Managers /\ m.nextId \in Positive /\ m.nextId \in Int
      /\ \A o \in m.pending : o \in OrderRecords
  BY BookFacts
<1>3. ASSUME NEW o \in m.pending
      PROVE  /\ F(o) \in OrderRecords /\ F(o).id = o.id /\ F(o).status = o.status
             /\ F(o).validity = o.validity /\ F(o).age = o.age /\ F(o).barsValid = o.barsValid
             /\ F(o).link = o.link \/ F(o).link = m.nextId
             /\ o.id < m.nextId /\ o.link < m.nextId /\ o.id \in Int /\ o.link \in Int
  <2>1. o \in OrderRecords /\ m.nextId \in Nat
    BY <1>2 DEF Positive
  <2>2. o.id < m.nextId /\ o.link < m.nextId /\ o.id \in Int /\ o.link \in Int
    BY <2>1, BookFacts, OrderFacts DEF Given
  <2>3. CASE o.id \in {i, j}
    <3>1. F(o) = [o EXCEPT !.link = m.nextId]
      BY <2>3
    <3> HIDE DEF F
    <3> QED
      BY <2>1, <2>2, <3>1 DEF OrderRecords
  <2>4. CASE o.id \notin {i, j}
    BY <2>1, <2>2, <2>4
  <2> QED
    BY <2>3, <2>4
<1> HIDE DEF F
<1>4. P \in SUBSET OrderRecords /\ m.nextId + 1 \in Positive
  BY <1>2, <1>3 DEF Positive
<1>5. \A o \in P : \E p \in m.pending : o = F(p)
  OBVIOUS
<1> HIDE DEF P
<1>6. /\ n \in Managers /\ n.nextId = m.nextId + 1 /\ n.pending = P /\ n.live = m.live
      /\ n.filled = m.filled /\ n.executor = m.executor /\ n.cash = m.cash
      /\ n.entryCost = m.entryCost /\ n.pnl = m.pnl /\ n.positions = m.positions
  BY <1>2, <1>4 DEF Managers
<1> HIDE DEF n
<1>7. Unique(n)
  BY <1>3, <1>5, <1>6, BookFacts DEF Unique
<1>8. Given(n)
  <2>1. \A o \in P : o.id < m.nextId + 1 /\ o.link < m.nextId + 1
    BY <1>2, <1>3, <1>5
  <2>2. \A f \in m.filled : f.link < m.nextId + 1
    BY <1>2, BookFacts DEF Given
  <2> QED
    BY <1>6, <2>1, <2>2 DEF Given
<1>9. Counted(n)
  BY <1>3, <1>5, <1>6, BookFacts DEF Counted
<1>10. Linked(n)
  <2> SUFFICES ASSUME NEW f \in m.filled, NEW o \in P, o.status = "PENDING", f.link # 0
               PROVE  o.link # f.link
    BY <1>6 DEF Linked
  <2>1. PICK p \in m.pending : o = F(p)
    BY <1>5
  <2>2. p.status = "PENDING" /\ (o.link = p.link \/ o.link = m.nextId)
    BY <1>3, <2>1
  <2>3. f.link \in Int /\ f.link < m.nextId /\ p.link # f.link
    BY <2>2, BookFacts DEF Given, Linked
  <2> QED
    BY <1>2, <2>2, <2>3
<1>11. FilledInTime(n) /\ OcoOneFills(n)
  BY <1>6, BookFacts DEF FilledInTime, OcoOneFills
<1>12. PendingIsLive(n)
  <2>1. \A o \in P : o.status = "PENDING" => \E p \in m.pending : p.status = "PENDING" /\ p.id = o.id
    BY <1>3, <1>5
  <2>2. PendingIsLive(m)
    BY BookFacts
  <2>3. n.executor = m.executor /\ n.pending = P /\ n.live = m.live
    BY <1>6
  <2> SUFFICES ASSUME n.executor, NEW o \in P, o.status = "PENDING"
               PROVE  \E l \in m.live : l.id = o.id
    BY <2>3 DEF PendingIsLive
  <2>4. PICK p \in m.pending : p.status = "PENDING" /\ p.id = o.id
    BY <2>1
  <2> QED
    BY <2>2, <2>3, <2>4 DEF PendingIsLive
<1>13. Good(n)
  BY <1>6, <1>7, <1>8, <1>9, <1>10, <1>11, <1>12, GoodOrders DEF Book
<1> QED
  BY <1>1, <1>13

(* The order that the exchange reports is no longer pending.               *)
LEMMA ReportFillKeeps ==
  ASSUME NEW m, Good(m), NEW l \in m.live, NEW price \in Int
  PROVE  Good(ReportFill(m, l, price))
<1> DEFINE F(o) == IF o.id = l.id THEN [o EXCEPT !.status = "FILLED"] ELSE o
           P == {F(o) : o \in m.pending}
           L == m.live \ {l}
           k == [m EXCEPT !.live = L, !.pending = P]
           j == TakeSlot(k, l.asset)
           s == SlotOf(j, l.asset)
           n == ReportFill(m, l, price)
<1>1. l \in LiveOrders /\ l.asset \in Assets /\ l.direction \in {1, -1} /\ l.quantity \in Positive
  BY BookFacts DEF LiveOrders
<1>2. n = IF s = 0 THEN j ELSE ApplyFill(j, s, l.direction, l.quantity, price, 0, 0)
  BY DEF ReportFill
<1>3. k = [m EXCEPT !.pending = P, !.live = L]
  BY BookFacts DEF Managers
<1>4. L \in SUBSET LiveOrders
  BY BookFacts
<1>5. \A o \in m.pending : /\ F(o) \in OrderRecords /\ F(o).id = o.id /\ F(o).link = o.link
                           /\ F(o).status = "PENDING" => F(o) = o /\ o.id # l.id
  BY BookFacts DEF OrderRecords, Statuses
<1> HIDE DEF F
<1>6. \A o \in P :
            /\ o \in OrderRecords
            /\ \E p \in m.pending : /\ o.id = p.id /\ o.link = p.link
                                    /\ o.status = "PENDING" => p.status = "PENDING"
            /\ (o.status = "PENDING" /\ o.validity >= 0) =>
                   o.barsValid >= 0 /\ o.age + o.barsValid = o.validity
            /\ (o.status = "PENDING" /\ m.executor) => \E x \in L : x.id = o.id
  BY <1>5, BookFacts DEF Counted, PendingIsLive
<1>7. \A o, p \in P : o.id = p.id => o = p
  BY <1>5, BookFacts DEF Unique
<1> HIDE DEF P, L
<1>8. Good([m EXCEPT !.pending = P, !.live = L])
  BY <1>4, <1>6, <1>7, Narrowed
<1>9. Good(k)
  BY <1>3, <1>8
<1> HIDE DEF k
<1>10. Good(j) /\ (s # 0 => s \in Slots /\ j.positions[s].asset # 0)
  BY <1>1, <1>9, TakeSlotGood
<1> HIDE DEF j, s
<1>11. ASSUME s # 0
       PROVE  Good(ApplyFill(j, s, l.direction, l.quantity, price, 0, 0))
  <2> DEFINE d == l.direction
             q == l.quantity
  <2>1. d \in {1, -1} /\ q \in Positive /\ 0 \in Int /\ s \in Slots /\ j.positions[s].asset # 0 /\ Good(j)
    BY <1>1, <1>10, <1>11
  <2> HIDE DEF d, q
  <2>2. Good(ApplyFill(j, s, d, q, price, 0, 0))
    BY <2>1, ApplyFillKeeps
  <2> QED
    BY <2>2 DEF d, q
<1> HIDE DEF n
<1> QED
  BY <1>2, <1>10, <1>11 DEF n

-----------------------------------------------------------------------------
(* One bar.                                                                *)

LEMMA PositionType ==
  ASSUME NEW m \in Managers, NEW a
  PROVE  Position(m, a) \in Nat
BY SlotIs, ManagerFacts, Params DEF Position

LEMMA BeginBarKeeps ==
  ASSUME NEW m, Good(m)
  PROVE  /\ Good(BeginBar(m)) /\ BeginBar(m).trades = m.trades
         /\ BeginBar(m).executor = m.executor
<1> DEFINE ps == [s \in Slots |-> IF m.rules.tPlus >= 1
                                  THEN [m.positions[s] EXCEPT !.boughtToday = 0] ELSE m.positions[s]]
           sold == [a \in Assets |-> 0]
           held == [a \in Assets |-> Position(m, a)]
           n == [m EXCEPT !.positions = ps, !.sold = sold, !.held = held]
<1>1. m \in Managers /\ Book(m) /\ m.positions \in [Slots -> Positions]
  BY ManagerFacts DEF Good
<1>2. BeginBar(m) = n
  BY DEF BeginBar
<1>3. /\ ps \in [Slots -> Positions]
      /\ \A s \in Slots : /\ ps[s].asset = m.positions[s].asset
                          /\ ps[s].position = m.positions[s].position
                          /\ ps[s].avg = m.positions[s].avg
  <2>1. ASSUME NEW s \in Slots
        PROVE  /\ ps[s] \in Positions /\ ps[s].asset = m.positions[s].asset
               /\ ps[s].position = m.positions[s].position /\ ps[s].avg = m.positions[s].avg
    <3> DEFINE p == m.positions[s]
    <3>1. p \in Positions /\ ps[s] = IF m.rules.tPlus >= 1 THEN [p EXCEPT !.boughtToday = 0] ELSE p
      BY <1>1
    <3> HIDE DEF p, ps
    <3>2. /\ ps[s] \in Positions /\ ps[s].asset = p.asset
          /\ ps[s].position = p.position /\ ps[s].avg = p.avg
      BY <3>1 DEF Positions
    <3> QED
      BY <3>2 DEF p
  <2>2. ps \in [Slots -> Positions]
    BY <2>1
  <2> QED
    BY <2>1, <2>2
<1>4. sold \in [Assets -> Int] /\ held \in [Assets -> Int]
  BY <1>1, PositionType
<1> HIDE DEF ps, sold, held
<1>5. /\ n \in Managers /\ n.positions = ps /\ n.cash = m.cash /\ n.entryCost = m.entryCost
      /\ n.pnl = m.pnl /\ n.pending = m.pending /\ n.nextId = m.nextId /\ n.filled = m.filled
      /\ n.live = m.live /\ n.executor = m.executor /\ n.trades = m.trades
  BY <1>1, <1>3, <1>4 DEF Managers
<1> HIDE DEF n
<1>6. Book(n)
  BY <1>1, <1>5 DEF Book, Unique, Given, Counted, Linked, FilledInTime, OcoOneFills, PendingIsLive
<1>7. Good(n)
  BY <1>3, <1>5, <1>6, GoodKept
<1> QED
  BY <1>2, <1>5, <1>7

(* A bar takes one from barsValid and adds one to the age.                 *)
LEMMA AgedIs ==
  ASSUME NEW o \in OrderRecords
  PROVE  /\ Aged(o) \in OrderRecords /\ Aged(o).id = o.id /\ Aged(o).link = o.link
         /\ Aged(o).validity = o.validity
         /\ Aged(o).status = "PENDING" =>
              /\ o.status = "PENDING" /\ o.barsValid # 0 /\ Aged(o).age = o.age + 1
              /\ Aged(o).barsValid = IF o.barsValid > 0 THEN o.barsValid - 1 ELSE o.barsValid
<1>1. CASE o.barsValid = 0
  <2>1. Aged(o) = [o EXCEPT !.status = "EXPIRED"]
    BY <1>1 DEF Aged
  <2> QED
    BY <2>1 DEF OrderRecords, Statuses
<1>2. CASE o.barsValid # 0
  <2> DEFINE b == IF o.barsValid > 0 THEN o.barsValid - 1 ELSE o.barsValid
             g == o.age + 1
  <2>1. Aged(o) = [o EXCEPT !.barsValid = b, !.age = g]
    BY <1>2 DEF Aged
  <2>2. b \in Int /\ g \in Nat
    BY OrderFacts
  <2> HIDE DEF b, g
  <2>3. /\ Aged(o) \in OrderRecords /\ Aged(o).id = o.id /\ Aged(o).link = o.link
        /\ Aged(o).validity = o.validity /\ Aged(o).status = o.status
        /\ Aged(o).barsValid = b /\ Aged(o).age = g
    BY <2>1, <2>2 DEF OrderRecords
  <2> QED
    BY <1>2, <2>3 DEF b, g
<1> QED
  BY <1>1, <1>2

LEMMA ExpireKeeps ==
  ASSUME NEW m, Good(m), NEW a
  PROVE  Good(Expire(m, a))
<1> DEFINE F(o) == IF o.asset = a /\ o.status = "PENDING" THEN Aged(o) ELSE o
           P == {F(o) : o \in m.pending}
<1>1. Expire(m, a) = [m EXCEPT !.pending = P, !.live = m.live]
  BY SameLive DEF Expire
<1>2. ASSUME NEW o \in m.pending
      PROVE  /\ F(o) \in OrderRecords /\ F(o).id = o.id /\ F(o).link = o.link
             /\ F(o).status = "PENDING" => o.status = "PENDING"
             /\ (F(o).status = "PENDING" /\ F(o).validity >= 0) =>
                   F(o).barsValid >= 0 /\ F(o).age + F(o).barsValid = F(o).validity
  <2>1. o \in OrderRecords
    BY BookFacts
  <2>2. /\ o.barsValid \in Int /\ o.age \in Nat /\ o.validity \in Int
        /\ (o.status = "PENDING" /\ o.validity >= 0) =>
               o.barsValid >= 0 /\ o.age + o.barsValid = o.validity
    BY <2>1, OrderFacts, BookFacts DEF Counted
  <2>3. CASE o.asset = a /\ o.status = "PENDING"
    <3>1. F(o) = Aged(o)
      BY <2>3
    <3> HIDE DEF F
    <3> QED
      BY <2>1, <2>2, <2>3, <3>1, AgedIs
  <2>4. CASE ~(o.asset = a /\ o.status = "PENDING")
    BY <2>1, <2>2, <2>4
  <2> QED
    BY <2>3, <2>4
<1> HIDE DEF F
<1>3. \A o \in P :
            /\ o \in OrderRecords
            /\ \E p \in m.pending : /\ o.id = p.id /\ o.link = p.link
                                    /\ o.status = "PENDING" => p.status = "PENDING"
            /\ (o.status = "PENDING" /\ o.validity >= 0) =>
                   o.barsValid >= 0 /\ o.age + o.barsValid = o.validity
            /\ (o.status = "PENDING" /\ m.executor) => \E l \in m.live : l.id = o.id
  BY <1>2, BookFacts DEF PendingIsLive
<1>4. \A o, p \in P : o.id = p.id => o = p
  BY <1>2, BookFacts DEF Unique
<1>5. m.live \in SUBSET LiveOrders
  BY BookFacts
<1> HIDE DEF P
<1>6. Good([m EXCEPT !.pending = P, !.live = m.live])
  BY <1>3, <1>4, <1>5, Narrowed
<1> QED
  BY <1>1, <1>6

LEMMA TrailType ==
  ASSUME NEW p \in Positions, NEW high \in Int
  PROVE  /\ Trail(p, high) \in Positions /\ Trail(p, high).asset = p.asset
         /\ Trail(p, high).position = p.position /\ Trail(p, high).avg = p.avg
<1> DEFINE z == Whole(high)
           x == Max({p.stopLoss, high - p.trailing})
<1>1. z \in Rational /\ x \in Int
  <2>1. p.stopLoss \in Int /\ high - p.trailing \in Int
    BY DEF Positions
  <2> QED
    BY <2>1, MaxOfTwo, RationalType
<1>2. Trail(p, high) = p \/ Trail(p, high) = [p EXCEPT !.peak = z, !.stopLoss = x]
  BY DEF Trail
<1> HIDE DEF z, x
<1> QED
  BY <1>1, <1>2 DEF Positions

(* A hit order is filled and the orders linked with it are cancelled in    *)
(* the same step, whether or not execute_fill refused.                     *)
LEMMA FillOrderKeeps ==
  ASSUME NEW m, Good(m), NEW f \in m.pending, f.status = "PENDING", NEW prevClose \in Int
  PROVE  Good(FillOrder(m, f, prevClose))
<1> DEFINE price == ClampPrice(m.rules, f.price, prevClose)
           done == ExecuteFill(m, f.asset, f.direction, f.quantity, price, prevClose, f.stopLoss,
                               f.takeProfit)
           g == [f EXCEPT !.status = "FILLED"]
           Q == (m.pending \ {f}) \cup {g}
           F(o) == IF o.id # f.id /\ o.status = "PENDING" /\ f.link > 0 /\ o.link = f.link
                   THEN [o EXCEPT !.status = "CANCELLED"] ELSE o
           P == {F(o) : o \in Q}
           r == [id |-> f.id, link |-> f.link, age |-> f.age, validity |-> f.validity]
           R == m.filled \cup {r}
           n == [done EXCEPT !.pending = P, !.filled = R]
<1>1. /\ f \in OrderRecords /\ m \in Managers /\ m.rules \in Markets
      /\ \A o \in m.pending : o \in OrderRecords
  BY BookFacts, ManagerFacts
<1>2. /\ f.id \in Positive /\ f.link \in Nat /\ f.age \in Nat /\ f.validity \in Int
      /\ f.asset \in Assets /\ f.direction \in {1, -1} /\ f.quantity \in Int /\ f.price \in Int
      /\ f.stopLoss \in Int /\ f.takeProfit \in Int /\ f.barsValid \in Int
  BY <1>1, OrderFacts
<1>3. Good(done) /\ SameBook(m, done)
  <2> DEFINE a == f.asset
             d == f.direction
             q == f.quantity
             sl == f.stopLoss
             tp == f.takeProfit
  <2>1. price \in Int
    BY <1>1, <1>2, ClampType
  <2> HIDE DEF price
  <2>2. a \in Assets /\ d \in {1, -1} /\ q \in Int /\ sl \in Int /\ tp \in Int
    BY <1>2
  <2> HIDE DEF a, d, q, sl, tp
  <2>3. /\ Good(ExecuteFill(m, a, d, q, price, prevClose, sl, tp))
        /\ SameBook(m, ExecuteFill(m, a, d, q, price, prevClose, sl, tp))
    BY <2>1, <2>2, ExecuteFillKeeps
  <2> QED
    BY <2>3 DEF a, d, q, sl, tp
<1>4. FillOrder(m, f, prevClose) = n
  <2>1. done.pending = m.pending /\ done.filled = m.filled
    BY <1>3 DEF SameBook
  <2> HIDE DEF done
  <2> QED
    BY <2>1 DEF FillOrder, CancelLinked, done
<1> HIDE DEF done
<1>5. g \in OrderRecords /\ g.id = f.id /\ g.link = f.link /\ g.status = "FILLED"
  BY <1>1 DEF OrderRecords, Statuses
<1> HIDE DEF g
<1>6. ASSUME NEW o \in Q
      PROVE  /\ F(o) \in OrderRecords /\ F(o).id = o.id /\ F(o).link = o.link
             /\ F(o).status = "PENDING" =>
                  /\ F(o) = o /\ o \in m.pending /\ o.status = "PENDING"
                  /\ o.id # f.id /\ (f.link > 0 => o.link # f.link)
  <2>1. o \in OrderRecords
    BY <1>1, <1>5
  <2>2. o.status = "PENDING" => o \in m.pending /\ o.id # f.id
    BY <1>5, BookFacts DEF Unique
  <2> HIDE DEF Q
  <2>3. CASE o.id # f.id /\ o.status = "PENDING" /\ f.link > 0 /\ o.link = f.link
    <3>1. F(o) = [o EXCEPT !.status = "CANCELLED"]
      BY <2>3
    <3> HIDE DEF F
    <3> QED
      BY <2>1, <3>1 DEF OrderRecords, Statuses
  <2>4. CASE ~(o.id # f.id /\ o.status = "PENDING" /\ f.link > 0 /\ o.link = f.link)
    BY <2>1, <2>2, <2>4
  <2> QED
    BY <2>3, <2>4
<1>7. \A o \in Q : \E p \in m.pending : o.id = p.id /\ o.link = p.link
  BY <1>5
<1>8. \A o, p \in Q : o.id = p.id => o = p
  BY <1>5, BookFacts DEF Unique
<1> HIDE DEF F, Q
<1>9. /\ P \in SUBSET OrderRecords
      /\ \A o \in P : \E p \in m.pending : o.id = p.id /\ o.link = p.link
      /\ \A o, p \in P : o.id = p.id => o = p
      /\ \A o \in P : o.status = "PENDING" =>
            o \in m.pending /\ o.status = "PENDING" /\ (f.link > 0 => o.link # f.link)
  BY <1>6, <1>7, <1>8
<1>10. /\ r \in Fills /\ r.id = f.id /\ r.link = f.link /\ r.age = f.age /\ r.validity = f.validity
  BY <1>2 DEF Fills
<1> HIDE DEF P, r
<1>11. R \in SUBSET Fills
  BY <1>10, BookFacts
<1> HIDE DEF R
<1>12. /\ n \in Managers /\ n.pending = P /\ n.filled = R /\ n.nextId = done.nextId
       /\ n.live = done.live /\ n.executor = done.executor /\ n.cash = done.cash
       /\ n.entryCost = done.entryCost /\ n.pnl = done.pnl /\ n.positions = done.positions
  <2>1. done \in Managers
    BY <1>3 DEF Good
  <2> QED
    BY <1>9, <1>11, <2>1 DEF Managers
<1>13. n.nextId = m.nextId /\ n.live = m.live /\ n.executor = m.executor
  BY <1>3, <1>12 DEF SameBook
<1> HIDE DEF n
<1>14. Unique(n)
  BY <1>9, <1>12 DEF Unique
<1>15. Given(n)
  <2>1. f.link < m.nextId
    BY BookFacts DEF Given
  <2> QED
    BY <1>9, <1>10, <1>12, <1>13, <2>1, BookFacts DEF Given, R
<1>16. Counted(n)
  BY <1>9, <1>12, BookFacts DEF Counted
<1>17. Linked(n)
  <2>1. \A o \in P : (o.status = "PENDING" /\ r.link # 0) => o.link # r.link
    BY <1>2, <1>9, <1>10
  <2>2. \A x \in m.filled, o \in P : (o.status = "PENDING" /\ x.link # 0) => o.link # x.link
    BY <1>9, BookFacts DEF Linked
  <2> QED
    BY <1>12, <2>1, <2>2 DEF Linked, R
<1>18. FilledInTime(n)
  <2>1. f.validity >= 0 => f.age <= f.validity
    <3>1. f.validity >= 0 => f.barsValid >= 0 /\ f.age + f.barsValid = f.validity
      BY BookFacts DEF Counted
    <3> QED
      BY <1>2, <3>1
  <2> QED
    BY <1>10, <1>12, <2>1, BookFacts DEF FilledInTime, R
<1>19. OcoOneFills(n)
  <2>1. \A x \in m.filled : x.link # 0 => x.link # r.link
    BY <1>10, BookFacts DEF Linked
  <2>2. \A x, y \in m.filled : (x.link # 0 /\ x.link = y.link) => x.id = y.id
    BY BookFacts DEF OcoOneFills
  <2> QED
    BY <1>12, <2>1, <2>2 DEF OcoOneFills, R
<1>20. PendingIsLive(n)
  <2>1. \A o \in P : o.status = "PENDING" => o \in m.pending
    BY <1>9
  <2>2. PendingIsLive(m)
    BY BookFacts
  <2>3. n.executor = m.executor /\ n.pending = P /\ n.live = m.live
    BY <1>12, <1>13
  <2> QED
    BY <2>1, <2>2, <2>3 DEF PendingIsLive
<1>21. Good(n)
  BY <1>3, <1>12, <1>14, <1>15, <1>16, <1>17, <1>18, <1>19, <1>20, GoodOrders DEF Book
<1> QED
  BY <1>4, <1>21

LEMMA FillHitKeeps ==
  ASSUME NEW m, Good(m), NEW i, NEW a, NEW bar, NEW prevClose \in Int
  PROVE  Good(FillHit(m, i, a, bar, prevClose))
<1> DEFINE hit == {o \in m.pending : o.id = i /\ o.asset = a /\ o.status = "PENDING" /\ Hits(o, bar)}
           f == CHOOSE o \in hit : TRUE
<1>1. CASE hit = {}
  BY <1>1 DEF FillHit
<1>2. CASE hit # {}
  <2>1. f \in hit
    BY <1>2
  <2>2. f \in m.pending /\ f.status = "PENDING"
    BY <2>1
  <2>3. FillHit(m, i, a, bar, prevClose) = FillOrder(m, f, prevClose)
    BY <1>2 DEF FillHit
  <2> HIDE DEF f
  <2> QED
    BY <2>2, <2>3, FillOrderKeeps
<1> QED
  BY <1>1, <1>2

(* The loop over the pending orders is defined.                            *)
LEMMA FillHitsDef ==
  ASSUME NEW m, m.nextId \in Positive, NEW a, NEW bar, NEW prevClose
  PROVE  \E g : /\ g = [i \in 0..(m.nextId - 1) |->
                           IF i = 0 THEN m ELSE FillHit(g[i - 1], i, a, bar, prevClose)]
                /\ FillHits(m, a, bar, prevClose) = g[m.nextId - 1]
<1> DEFINE P(g, k) == g = [i \in 0..k |-> IF i = 0 THEN m ELSE FillHit(g[i - 1], i, a, bar, prevClose)]
           S == {k \in Nat : \E g : P(g, k)}
<1>1. 0 \in S
  <2> DEFINE g == [i \in 0..0 |-> m]
  <2>1. P(g, 0)
    OBVIOUS
  <2> QED
    BY <2>1
<1>2. ASSUME NEW k \in Nat, k \in S
      PROVE  k + 1 \in S
  <2>1. PICK g : P(g, k)
    BY <1>2
  <2> DEFINE h == [i \in 0..(k + 1) |-> IF i <= k THEN g[i] ELSE FillHit(g[k], k + 1, a, bar, prevClose)]
  <2>2. P(h, k + 1)
    BY <2>1
  <2> HIDE DEF P, h
  <2> QED
    BY <2>2
<1>3. m.nextId - 1 \in Nat
  BY DEF Positive
<1>4. \E g : P(g, m.nextId - 1)
  <2> HIDE DEF P
  <2>1. \A k \in Nat : k \in S
    <3> HIDE DEF S
    <3> QED BY <1>1, <1>2, Induction
  <2> QED
    BY <1>3, <2>1
<1> QED
  BY <1>4 DEF FillHits

LEMMA FillHitsKeeps ==
  ASSUME NEW m, Good(m), NEW a, NEW bar, NEW prevClose \in Int
  PROVE  Good(FillHits(m, a, bar, prevClose))
<1> DEFINE K == m.nextId - 1
<1>1. m.nextId \in Positive /\ K \in Nat
  BY BookFacts DEF Positive
<1>2. PICK g : /\ g = [i \in 0..K |-> IF i = 0 THEN m ELSE FillHit(g[i - 1], i, a, bar, prevClose)]
               /\ FillHits(m, a, bar, prevClose) = g[K]
  BY <1>1, FillHitsDef
<1> HIDE DEF K
<1> DEFINE S == {k \in Nat : k <= K => Good(g[k])}
<1>3. 0 \in S
  BY <1>1, <1>2
<1>4. ASSUME NEW k \in Nat, k \in S
      PROVE  k + 1 \in S
  <2> SUFFICES ASSUME k + 1 <= K
               PROVE  Good(g[k + 1])
    OBVIOUS
  <2>1. Good(g[k])
    BY <1>1, <1>4
  <2>2. g[k + 1] = FillHit(g[k], k + 1, a, bar, prevClose)
    BY <1>1, <1>2
  <2> QED
    BY <2>1, <2>2, FillHitKeeps
<1>5. \A k \in Nat : k \in S
  <2> HIDE DEF S
  <2> QED
    BY <1>3, <1>4, Induction
<1> QED
  BY <1>1, <1>2, <1>5

(* order_manager_check_triggers, for any bar.                              *)
LEMMA CheckTriggersKeeps ==
  ASSUME NEW m0, Good(m0), NEW a \in Assets, NEW bar, bar.high \in Int, NEW prevClose \in Int
  PROVE  Good(CheckTriggers(m0, a, bar, prevClose))
<1> DEFINE m1 == Expire(m0, a)
           s == FindPosition(m1, a)
           m == IF s = 0 THEN m1
                ELSE [m1 EXCEPT !.positions = [m1.positions EXCEPT ![s] = Trail(m1.positions[s], bar.high)]]
           p == m.positions[s]
           n == CheckTriggers(m0, a, bar, prevClose)
<1>1. Good(m1)
  BY ExpireKeeps
<1>2. s # 0 => s \in Slots
  BY <1>1, FoundIs DEF Good
<1>3. n = IF m0.executor THEN m1
          ELSE IF s # 0 /\ p.stopLoss > 0 /\ bar.low <= p.stopLoss
          THEN Close(m, a, ClampPrice(m.rules, p.stopLoss, prevClose), TRUE)
          ELSE IF s # 0 /\ p.takeProfit > 0 /\ bar.high >= p.takeProfit
          THEN Close(m, a, ClampPrice(m.rules, p.takeProfit, prevClose), TRUE)
          ELSE Compact(FillHits(m, a, bar, prevClose))
  BY DEF CheckTriggers
<1> HIDE DEF m1, s, n
<1>4. Good(m)
  <2>1. CASE s = 0
    BY <1>1, <2>1
  <2>2. CASE s # 0
    <3> DEFINE t == Trail(m1.positions[s], bar.high)
    <3>1. m1.positions[s] \in Positions
      BY <1>1, <1>2, <2>2, ManagerFacts DEF Good
    <3>2. /\ t \in Positions /\ t.asset = m1.positions[s].asset
          /\ t.position = m1.positions[s].position /\ t.avg = m1.positions[s].avg
      BY <3>1, TrailType
    <3>3. m = [m1 EXCEPT !.positions = [m1.positions EXCEPT ![s] = t]]
      BY <2>2
    <3> HIDE DEF t, m
    <3>4. Good([m1 EXCEPT !.positions = [m1.positions EXCEPT ![s] = t]])
      BY <1>1, <1>2, <2>2, <3>2, StopReplaced
    <3> QED
      BY <3>3, <3>4
  <2> QED
    BY <2>1, <2>2
<1> HIDE DEF m
<1>5. ASSUME s # 0
      PROVE  /\ ClampPrice(m.rules, p.stopLoss, prevClose) \in Int
             /\ ClampPrice(m.rules, p.takeProfit, prevClose) \in Int
  <2>1. m \in Managers /\ m.rules \in Markets /\ p \in Positions
    BY <1>2, <1>4, <1>5, ManagerFacts DEF Good
  <2>2. p.stopLoss \in Int /\ p.takeProfit \in Int
    BY <2>1 DEF Positions
  <2> QED
    BY <2>1, <2>2, ClampType
<1>6. /\ s # 0 => Good(Close(m, a, ClampPrice(m.rules, p.stopLoss, prevClose), TRUE))
      /\ s # 0 => Good(Close(m, a, ClampPrice(m.rules, p.takeProfit, prevClose), TRUE))
  BY <1>4, <1>5, CloseKeeps
<1>7. Good(Compact(FillHits(m, a, bar, prevClose)))
  BY <1>4, FillHitsKeeps, CompactKeeps
<1>8. Good(n)
  BY <1>1, <1>3, <1>6, <1>7
<1> QED
  BY <1>8 DEF n

-----------------------------------------------------------------------------
(* The mark to market and the managers a run begins with.                  *)

LEMMA ValueType ==
  ASSUME NEW m \in Managers, NEW prices, \A a \in DOMAIN prices : prices[a] \in Int, NEW s \in Slots
  PROVE  Value(m.positions[s], prices) \in Int
<1>1. m.positions[s].position \in Int
  BY ManagerFacts
<1> QED
  BY <1>1 DEF Value

LEMMA MarkKeeps ==
  ASSUME NEW m, Good(m), NEW equity \in Int
  PROVE  LET n == RecordEquity([m EXCEPT !.equity = equity])
         IN /\ Good(n) /\ n.trades = m.trades /\ n.executor = m.executor
            /\ n.equity = equity /\ n.cash = m.cash /\ n.positions = m.positions
<1> DEFINE n == RecordEquity([m EXCEPT !.equity = equity])
<1>1. m \in Managers /\ Book(m)
  BY DEF Good
<1>2. m.points + 1 \in Nat
  BY <1>1 DEF Managers
<1>3. /\ n \in Managers /\ n.positions = m.positions /\ n.cash = m.cash /\ n.entryCost = m.entryCost
      /\ n.pnl = m.pnl /\ n.pending = m.pending /\ n.nextId = m.nextId /\ n.filled = m.filled
      /\ n.live = m.live /\ n.executor = m.executor /\ n.trades = m.trades /\ n.equity = equity
  BY <1>1, <1>2 DEF Managers, RecordEquity
<1> HIDE DEF n
<1>4. Book(n)
  BY <1>1, <1>3 DEF Book, Unique, Given, Counted, Linked, FilledInTime, OcoOneFills, PendingIsLive
<1>5. Good(n)
  BY <1>3, <1>4, GoodKept
<1> QED
  BY <1>3, <1>5 DEF n

LEMMA NewManagerGood ==
  ASSUME NEW rules \in Markets, NEW executor \in BOOLEAN, NEW live \in SUBSET LiveOrders
  PROVE  LET n == [NewManager(rules, executor) EXCEPT !.live = live]
         IN /\ Good(n) /\ n.trades = 0 /\ n.executor = executor
<1> DEFINE n == [NewManager(rules, executor) EXCEPT !.live = live]
           ps == [s \in Slots |-> NoPosition]
           zero == [a \in Assets |-> 0]
<1>1. /\ NoPosition \in Positions /\ NoPosition.asset = 0 /\ NoPosition.position = 0
      /\ NoPosition.avg = Whole(0)
  <2>1. Whole(0) \in Rational
    BY RationalType
  <2> QED
    BY <2>1, Params DEF NoPosition, Positions
<1>2. ps \in [Slots -> Positions] /\ \A s \in Slots : ps[s] = NoPosition
  BY <1>1
<1>3. zero \in [Assets -> Int]
  OBVIOUS
<1>4. n = [rules |-> rules, executor |-> executor, cash |-> Cash0, equity |-> Cash0,
           positions |-> ps, pending |-> {}, nextId |-> 1, trades |-> 0, pnl |-> Whole(0), points |-> 0,
           filled |-> {}, live |-> live, entryCost |-> 0, sold |-> zero, held |-> zero]
  BY DEF NewManager
<1>5. Whole(0) \in Rational /\ Cash0 \in Int /\ 1 \in Positive
  BY RationalType, Params DEF Positive
<1> DEFINE z == Whole(0)
<1>6. z \in Rational
  BY <1>5
<1>7. n = [rules |-> rules, executor |-> executor, cash |-> Cash0, equity |-> Cash0,
           positions |-> ps, pending |-> {}, nextId |-> 1, trades |-> 0, pnl |-> z, points |-> 0,
           filled |-> {}, live |-> live, entryCost |-> 0, sold |-> zero, held |-> zero]
  BY <1>4
<1> HIDE DEF n, ps, zero, z
<1>8. /\ n \in Managers /\ n.positions = ps /\ n.cash = Cash0 /\ n.entryCost = 0 /\ n.pnl = z
      /\ n.pending = {} /\ n.filled = {} /\ n.trades = 0 /\ n.executor = executor
  BY <1>2, <1>3, <1>5, <1>6, <1>7 DEF Managers
<1>9. Book(n)
  BY <1>8 DEF Book, Unique, Given, Counted, Linked, FilledInTime, OcoOneFills, PendingIsLive
<1>10. Seats(n)
  BY <1>1, <1>2, <1>8 DEF Seats
<1>11. Balanced(n)
  <2> DEFINE c == [s \in Slots |-> 0]
             f == Costs(n, c)
  <2>1. c \in [Slots -> Int] /\ \A s \in Slots : c[s] = 0
    OBVIOUS
  <2> HIDE DEF c
  <2>2. \A i \in 1..Capacity : f[i] = 0
    <3>1. \A i \in 1..Capacity : f[i] = c[i] * n.positions[i].position
      BY <1>8, <2>1, CostsType
    <3>2. \A i \in 1..Capacity : c[i] = 0 /\ n.positions[i].position = 0
      BY <1>1, <1>2, <1>8, <2>1, Params
    <3> QED
      BY <3>1, <3>2
  <2> HIDE DEF f
  <2>3. SumTo(f, Capacity) = 0
    <3> DEFINE S == {k \in Nat : k <= Capacity => SumTo(f, k) = 0}
    <3>1. 0 \in S
      BY SumZero
    <3>2. ASSUME NEW k \in Nat, k \in S
          PROVE  k + 1 \in S
      BY <2>2, <3>2, SumNext, Params
    <3>3. \A k \in Nat : k \in S
      <4> HIDE DEF S
      <4> QED
        BY <3>1, <3>2, Induction
    <3> QED
      BY <3>3, Params
  <2>4. 1 \in Positive /\ 0 \in Int
    BY DEF Positive
  <2>5. Is(z, 1, 0)
    BY <2>4, WholeIs DEF z
  <2>6. \A s \in Slots : n.positions[s].avg = z
    BY <1>1, <1>2, <1>8 DEF z
  <2>7. n.cash * 1 + SumTo(Costs(n, c), Capacity) = (Cash0 - n.entryCost) * 1 + 0
    BY <1>5, <1>8, <2>3 DEF f
  <2>8. BalancedAt(n, 1, 0, c)
    BY <1>8, <2>1, <2>5, <2>6, <2>7 DEF BalancedAt
  <2> QED
    BY <2>1, <2>4, <2>8 DEF Balanced
<1> QED
  BY <1>8, <1>9, <1>10, <1>11 DEF Good, n

-----------------------------------------------------------------------------
(* strategy_on_bar and the end of a run.                                   *)

LEMMA BarFacts ==
  ASSUME NEW bar \in Bars
  PROVE  /\ bar.open \in Price /\ bar.open \in Int /\ bar.high \in Int /\ bar.low \in Int
         /\ bar.close \in Int
BY BarsAssumption DEF Price

LEMMA SignalFacts ==
  ASSUME NEW sig \in Signals
  PROVE  /\ sig.type \in OrderTypes /\ sig.size \in Fraction /\ sig.price \in Price
         /\ sig.barsValid \in Int /\ sig.stopLoss \in Int /\ sig.takeProfit \in Int
         /\ sig.trailing \in Int
BY SignalsAssumption DEF OrderTypes

LEMMA PlaceKeeps ==
  ASSUME NEW m, Good(m), NEW a \in Assets, NEW d \in {1, -1}, NEW sig \in Signals, NEW bar \in Bars,
         NEW prevClose \in Int
  PROVE  Good(Place(m, a, d, sig, bar, prevClose))
<1> DEFINE type == sig.type
           size == sig.size
           price == sig.price
           valid == sig.barsValid
           sl == sig.stopLoss
           tp == sig.takeProfit
           open == bar.open
<1>1. /\ type \in OrderTypes /\ size \in Fraction /\ price \in Price /\ valid \in Int /\ sl \in Int
      /\ tp \in Int /\ open \in Price
  BY SignalFacts, BarFacts
<1>2. Place(m, a, d, sig, bar, prevClose) =
        IF type = "MARKET" THEN Market(m, a, d, size, open, prevClose, sl, tp, TRUE)
        ELSE Queue(m, a, type, d, size, price, sl, tp, valid, TRUE)
  BY DEF Place
<1> HIDE DEF type, size, price, valid, sl, tp, open
<1>3. Good(Market(m, a, d, size, open, prevClose, sl, tp, TRUE))
  BY <1>1, MarketKeeps
<1>4. Good(Queue(m, a, type, d, size, price, sl, tp, valid, TRUE))
  BY <1>1, QueueKeeps
<1> QED
  BY <1>2, <1>3, <1>4

(* process_strategy_signals, for any signal.                               *)
LEMMA ProcessSignalsKeeps ==
  ASSUME NEW m0, Good(m0), NEW a \in Assets, NEW sig \in Signals, NEW bar \in Bars,
         NEW prevClose \in Int
  PROVE  Good(ProcessSignals(m0, a, sig, bar, prevClose))
<1> DEFINE held == Position(m0, a) > 0
           m == IF sig.trailing > 0 /\ held THEN SetTrailingStop(m0, a, sig.trailing) ELSE m0
           sold == IF held THEN Close(m, a, bar.open, TRUE) ELSE m
           n == ProcessSignals(m0, a, sig, bar, prevClose)
<1>1. n = CASE sig.signal = "buy" /\ ~held -> Place(m, a, 1, sig, bar, prevClose)
            [] sig.signal = "sell" ->
                   IF m.rules.short THEN Place(sold, a, -1, sig, bar, prevClose) ELSE sold
            [] sig.signal = "flat" /\ held -> Close(CancelPending(m, a, FALSE), a, bar.open, TRUE)
            [] OTHER -> m
  BY DEF ProcessSignals
<1>2. Good(m)
  BY SetTrailingStopKeeps, SignalFacts
<1> HIDE DEF m, held
<1>3. Good(sold)
  BY <1>2, CloseKeeps, BarFacts
<1> HIDE DEF sold
<1>4. 1 \in {1, -1} /\ -1 \in {1, -1}
  OBVIOUS
<1>5. Good(Place(m, a, 1, sig, bar, prevClose)) /\ Good(Place(sold, a, -1, sig, bar, prevClose))
  BY <1>2, <1>3, <1>4, PlaceKeeps
<1>6. Good(CancelPending(m, a, FALSE))
  <2> DEFINE orders == {o \in m.pending : o.asset = a}
  <2>1. orders \subseteq m.pending
    OBVIOUS
  <2> HIDE DEF orders
  <2>2. Good(Cancel(m, orders, FALSE))
    BY <1>2, <2>1, CancelKeeps
  <2> QED
    BY <2>2 DEF CancelPending, orders
<1>7. Good(Close(CancelPending(m, a, FALSE), a, bar.open, TRUE))
  BY <1>6, CloseKeeps, BarFacts
<1> HIDE DEF n
<1>8. \/ n = Place(m, a, 1, sig, bar, prevClose) \/ n = Place(sold, a, -1, sig, bar, prevClose)
      \/ n = sold \/ n = Close(CancelPending(m, a, FALSE), a, bar.open, TRUE) \/ n = m
  BY <1>1
<1> QED
  BY <1>2, <1>3, <1>5, <1>7, <1>8 DEF n

LEMMA TradesKeep ==
  ASSUME Good(mgr), NEW a \in Assets, NEW bar \in Bars, NEW sig \in Signals, prev \in [Assets -> Int]
  PROVE  Good(Trades(a, bar, sig))
<1> DEFINE c == prev[a]
           m == CheckTriggers(mgr, a, bar, c)
<1>1. c \in Int
  OBVIOUS
<1>2. Trades(a, bar, sig) = ProcessSignals(m, a, sig, bar, c)
  BY DEF Trades
<1> HIDE DEF c
<1>3. Good(m)
  BY <1>1, BarFacts, CheckTriggersKeeps
<1> HIDE DEF m
<1> QED
  BY <1>1, <1>2, <1>3, ProcessSignalsKeeps

-----------------------------------------------------------------------------
(* The trade log only grows, and a close adds at most one trade to it.     *)

Grown(m, n) == n.trades >= m.trades
Logged(m, n) == n.trades = m.trades \/ n.trades = m.trades + 1

LEMMA GoodTrades ==
  ASSUME NEW m, Good(m)
  PROVE  m.trades \in Nat /\ m.trades \in Int
BY ManagerFacts DEF Good, Managers

LEMMA GrownChain ==
  ASSUME NEW l, NEW m, NEW n, Good(l), Good(m), Good(n), Grown(l, m), Grown(m, n)
  PROVE  Grown(l, n)
BY GoodTrades DEF Grown

LEMMA LoggedGrown ==
  ASSUME NEW m, NEW n, Good(m), Logged(m, n)
  PROVE  Grown(m, n)
BY GoodTrades DEF Grown, Logged

LEMMA ApplyFillLogs ==
  ASSUME NEW m \in Managers, NEW s, NEW d, NEW q, NEW price, NEW sl, NEW tp
  PROVE  Logged(m, ApplyFill(m, s, d, q, price, sl, tp))
<1> DEFINE fee == Commission(m.rules, price * q, d < 0)
<1>1. Logged(m, ApplyBuy(m, s, q, price, fee, sl, tp))
  <2> HIDE DEF fee
  <2> QED
    BY DEF ApplyBuy, Logged, Managers
<1>2. Logged(m, ApplySell(m, s, q, price, fee))
  <2> HIDE DEF fee
  <2> DEFINE closed == Min({q, m.positions[s].position})
             logged == RecordTrade(m, s, closed, price, fee)
  <2>1. logged.trades = m.trades + 1 /\ DOMAIN logged = DOMAIN m
    BY DEF RecordTrade, Managers
  <2>2. ApplySell(m, s, q, price, fee).trades = logged.trades
    <3> HIDE DEF closed
    <3>1. "trades" \in DOMAIN logged
      BY <2>1 DEF Managers
    <3> HIDE DEF logged
    <3> QED
      BY <3>1 DEF ApplySell, closed, logged
  <2> QED
    BY <2>1, <2>2 DEF Logged
<1> QED
  BY <1>1, <1>2 DEF ApplyFill

LEMMA ExecuteFillLogs ==
  ASSUME NEW m, Good(m), NEW a \in Assets, NEW d, NEW q, NEW price, NEW prevClose, NEW sl, NEW tp
  PROVE  Logged(m, ExecuteFill(m, a, d, q, price, prevClose, sl, tp))
<1> DEFINE k == TakeSlot(m, a)
           s == SlotOf(k, a)
           n == ExecuteFill(m, a, d, q, price, prevClose, sl, tp)
           paid == ApplySlippage(price, d)
<1>1. m \in Managers /\ Seats(m)
  BY DEF Good
<1>2. k \in Managers /\ k.trades = m.trades
  BY <1>1, TakeSlotKeeps
<1>3. n = k \/ n = ApplyFill(k, s, d, q, paid, sl, tp)
  BY DEF ExecuteFill
<1> HIDE DEF k, s, n, paid
<1>4. Logged(k, ApplyFill(k, s, d, q, paid, sl, tp))
  BY <1>2, ApplyFillLogs
<1> QED
  BY <1>2, <1>3, <1>4 DEF Logged, n

LEMMA CloseLogs ==
  ASSUME NEW m, Good(m), NEW a \in Assets, NEW price, NEW accepted
  PROVE  Logged(m, Close(m, a, price, accepted))
<1> DEFINE s == FindPosition(m, a)
           q == m.positions[s].position
<1>1. CASE s # 0 /\ ~m.executor
  <2>1. Close(m, a, price, accepted) = ExecuteFill(m, a, -1, q, price, 0, 0, 0)
    BY <1>1 DEF Close
  <2> HIDE DEF s, q
  <2> QED
    BY <2>1, ExecuteFillLogs
<1>2. CASE s = 0 \/ m.executor
  <2>1. m \in Managers
    BY DEF Good
  <2> QED
    BY <1>2, <2>1 DEF Close, Logged, Managers
<1> QED
  BY <1>1, <1>2

LEMMA MarketLogs ==
  ASSUME NEW m, Good(m), NEW a \in Assets, NEW d, NEW fraction, NEW price, NEW prevClose,
         NEW sl, NEW tp, NEW accepted
  PROVE  Logged(m, Market(m, a, d, fraction, price, prevClose, sl, tp, accepted))
<1> DEFINE q == MarketQuantity(m, d, fraction, price)
<1>1. CASE ~(q <= 0) /\ ~m.executor
  <2>1. Market(m, a, d, fraction, price, prevClose, sl, tp, accepted)
          = ExecuteFill(m, a, d, q, price, prevClose, sl, tp)
    BY <1>1 DEF Market
  <2> HIDE DEF q
  <2> QED
    BY <2>1, ExecuteFillLogs
<1>2. CASE q <= 0 \/ m.executor
  <2>1. m \in Managers
    BY DEF Good
  <2> HIDE DEF q
  <2> QED
    BY <1>2, <2>1 DEF Market, Logged, Managers, q
<1> QED
  BY <1>1, <1>2

(* What does not touch the log.                                            *)
LEMMA QueueLogs ==
  ASSUME NEW m \in Managers, NEW a, NEW type, NEW d, NEW fraction, NEW price, NEW sl, NEW tp,
         NEW valid, NEW accepted
  PROVE  Logged(m, Queue(m, a, type, d, fraction, price, sl, tp, valid, accepted))
BY DEF Queue, Logged, Managers

LEMMA CompactLogs ==
  ASSUME NEW m \in Managers
  PROVE  Compact(m).trades = m.trades
BY DEF Compact, Managers

LEMMA CancelLogs ==
  ASSUME NEW m \in Managers, NEW orders, NEW late
  PROVE  Cancel(m, orders, late).trades = m.trades
BY DEF Cancel, Compact, Managers

LEMMA ExpireLogs ==
  ASSUME NEW m \in Managers, NEW a
  PROVE  Expire(m, a).trades = m.trades
BY DEF Expire, Managers

LEMMA TrailingLogs ==
  ASSUME NEW m \in Managers, NEW a, NEW distance
  PROVE  SetTrailingStop(m, a, distance).trades = m.trades
BY DEF SetTrailingStop, Managers

LEMMA FillHitLogs ==
  ASSUME NEW m, Good(m), NEW i, NEW a \in Assets, NEW bar, NEW prevClose \in Int
  PROVE  Logged(m, FillHit(m, i, a, bar, prevClose))
<1> DEFINE hit == {o \in m.pending : o.id = i /\ o.asset = a /\ o.status = "PENDING" /\ Hits(o, bar)}
           f == CHOOSE o \in hit : TRUE
           done == ExecuteFill(m, f.asset, f.direction, f.quantity,
                               ClampPrice(m.rules, f.price, prevClose), prevClose, f.stopLoss,
                               f.takeProfit)
<1>1. CASE hit = {}
  BY <1>1 DEF FillHit, Logged
<1>2. CASE hit # {}
  <2>1. f \in hit
    BY <1>2
  <2>2. f.asset = a /\ f \in m.pending
    BY <2>1
  <2>3. FillHit(m, i, a, bar, prevClose) = FillOrder(m, f, prevClose)
    BY <1>2 DEF FillHit
  <2> HIDE DEF f
  <2>4. Logged(m, done)
    BY <2>2, ExecuteFillLogs
  <2>5. done \in Managers
    <3>1. f \in OrderRecords /\ m.rules \in Markets
      BY <2>2, ManagerFacts DEF Good, Managers
    <3>2. f.direction \in {1, -1} /\ f.quantity \in Int /\ f.price \in Int /\ f.stopLoss \in Int
          /\ f.takeProfit \in Int
      BY <3>1 DEF OrderRecords, Positive
    <3>3. ClampPrice(m.rules, f.price, prevClose) \in Int
      BY <3>1, <3>2, ClampType
    <3> QED
      BY <2>2, <3>2, <3>3, ExecuteFillKeeps DEF Good
  <2>6. FillOrder(m, f, prevClose).trades = done.trades
    <3> HIDE DEF done
    <3> QED
      BY <2>5 DEF FillOrder, Managers, done
  <2> QED
    BY <2>3, <2>4, <2>6 DEF Logged
<1> QED
  BY <1>1, <1>2

LEMMA FillHitsGrows ==
  ASSUME NEW m, Good(m), NEW a \in Assets, NEW bar, NEW prevClose \in Int
  PROVE  Grown(m, FillHits(m, a, bar, prevClose))
<1> DEFINE K == m.nextId - 1
<1>1. m.nextId \in Positive /\ K \in Nat
  BY BookFacts DEF Positive
<1>2. PICK g : /\ g = [i \in 0..K |-> IF i = 0 THEN m ELSE FillHit(g[i - 1], i, a, bar, prevClose)]
               /\ FillHits(m, a, bar, prevClose) = g[K]
  BY <1>1, FillHitsDef
<1> HIDE DEF K
<1> DEFINE S == {k \in Nat : k <= K => Good(g[k]) /\ Grown(m, g[k])}
<1>3. 0 \in S
  BY <1>1, <1>2, GoodTrades DEF Grown
<1>4. ASSUME NEW k \in Nat, k \in S
      PROVE  k + 1 \in S
  <2> SUFFICES ASSUME k + 1 <= K
               PROVE  Good(g[k + 1]) /\ Grown(m, g[k + 1])
    OBVIOUS
  <2>1. Good(g[k]) /\ Grown(m, g[k])
    BY <1>1, <1>4
  <2>2. g[k + 1] = FillHit(g[k], k + 1, a, bar, prevClose)
    BY <1>1, <1>2
  <2>3. Good(g[k + 1]) /\ Logged(g[k], g[k + 1])
    BY <2>1, <2>2, FillHitKeeps, FillHitLogs
  <2> QED
    BY <2>1, <2>3, LoggedGrown, GrownChain
<1>5. \A k \in Nat : k \in S
  <2> HIDE DEF S
  <2> QED
    BY <1>3, <1>4, Induction
<1> QED
  BY <1>1, <1>2, <1>5

LEMMA CheckTriggersGrows ==
  ASSUME NEW m0, Good(m0), NEW a \in Assets, NEW bar, bar.high \in Int, NEW prevClose \in Int
  PROVE  Grown(m0, CheckTriggers(m0, a, bar, prevClose))
<1> DEFINE m1 == Expire(m0, a)
           s == FindPosition(m1, a)
           m == IF s = 0 THEN m1
                ELSE [m1 EXCEPT !.positions = [m1.positions EXCEPT ![s] = Trail(m1.positions[s], bar.high)]]
           p == m.positions[s]
           n == CheckTriggers(m0, a, bar, prevClose)
<1>1. Good(m1) /\ m1.trades = m0.trades
  BY ExpireKeeps, ExpireLogs DEF Good
<1>2. \/ n = m1
      \/ \E price : n = Close(m, a, price, TRUE)
      \/ n = Compact(FillHits(m, a, bar, prevClose))
  BY DEF CheckTriggers
<1>3. Good(m) /\ m.trades = m1.trades
  <2>1. s # 0 => s \in Slots
    BY <1>1, FoundIs DEF Good
  <2> HIDE DEF m1, s
  <2>2. CASE s = 0
    BY <1>1, <2>2
  <2>3. CASE s # 0
    <3> DEFINE t == Trail(m1.positions[s], bar.high)
    <3>1. m1.positions[s] \in Positions
      BY <1>1, <2>1, <2>3, ManagerFacts DEF Good
    <3>2. /\ t \in Positions /\ t.asset = m1.positions[s].asset
          /\ t.position = m1.positions[s].position /\ t.avg = m1.positions[s].avg
      BY <3>1, TrailType
    <3>3. m = [m1 EXCEPT !.positions = [m1.positions EXCEPT ![s] = t]]
      BY <2>3
    <3> HIDE DEF t, m
    <3>4. Good([m1 EXCEPT !.positions = [m1.positions EXCEPT ![s] = t]])
      BY <1>1, <2>1, <2>3, <3>2, StopReplaced
    <3>5. [m1 EXCEPT !.positions = [m1.positions EXCEPT ![s] = t]].trades = m1.trades
      BY <1>1 DEF Good, Managers
    <3> QED
      BY <3>3, <3>4, <3>5
  <2> QED
    BY <2>2, <2>3
<1> HIDE DEF m, n, m1, s
<1>4. Good(FillHits(m, a, bar, prevClose)) /\ Grown(m, FillHits(m, a, bar, prevClose))
  BY <1>3, FillHitsKeeps, FillHitsGrows
<1>5. Compact(FillHits(m, a, bar, prevClose)).trades = FillHits(m, a, bar, prevClose).trades
  BY <1>4, CompactLogs DEF Good
<1>6. \A price : Grown(m, Close(m, a, price, TRUE))
  BY <1>3, CloseLogs, LoggedGrown
<1>7. Grown(m, n) \/ n = m1
  BY <1>2, <1>4, <1>5, <1>6 DEF Grown
<1>8. m0.trades \in Int
  BY GoodTrades
<1> QED
  BY <1>1, <1>3, <1>7, <1>8 DEF Grown, n

LEMMA PlaceGrows ==
  ASSUME NEW m, Good(m), NEW a \in Assets, NEW d, NEW sig, NEW bar, NEW prevClose
  PROVE  Grown(m, Place(m, a, d, sig, bar, prevClose))
<1>1. Logged(m, Place(m, a, d, sig, bar, prevClose))
  BY MarketLogs, QueueLogs DEF Place, Good
<1> QED
  BY <1>1, LoggedGrown

LEMMA ProcessSignalsGrows ==
  ASSUME NEW m0, Good(m0), NEW a \in Assets, NEW sig \in Signals, NEW bar \in Bars,
         NEW prevClose \in Int
  PROVE  Grown(m0, ProcessSignals(m0, a, sig, bar, prevClose))
<1> DEFINE held == Position(m0, a) > 0
           m == IF sig.trailing > 0 /\ held THEN SetTrailingStop(m0, a, sig.trailing) ELSE m0
           sold == IF held THEN Close(m, a, bar.open, TRUE) ELSE m
           freed == CancelPending(m, a, FALSE)
           n == ProcessSignals(m0, a, sig, bar, prevClose)
<1>1. \/ n = Place(m, a, 1, sig, bar, prevClose) \/ n = Place(sold, a, -1, sig, bar, prevClose)
      \/ n = sold \/ n = Close(freed, a, bar.open, TRUE) \/ n = m
  BY DEF ProcessSignals
<1>2. Good(m) /\ m.trades = m0.trades
  BY SetTrailingStopKeeps, SignalFacts, TrailingLogs DEF Good
<1> HIDE DEF m, held, n
<1>3. m.trades \in Int
  BY <1>2, GoodTrades
<1>4. Good(sold) /\ Grown(m, sold)
  <2>1. Good(Close(m, a, bar.open, TRUE)) /\ Grown(m, Close(m, a, bar.open, TRUE))
    BY <1>2, CloseKeeps, BarFacts, CloseLogs, LoggedGrown
  <2>2. Grown(m, m)
    BY <1>3 DEF Grown
  <2> QED
    BY <1>2, <2>1, <2>2
<1> HIDE DEF sold
<1>5. Good(freed) /\ freed.trades = m.trades
  <2> DEFINE orders == {o \in m.pending : o.asset = a}
  <2>1. orders \subseteq m.pending
    OBVIOUS
  <2> HIDE DEF orders
  <2>2. Good(Cancel(m, orders, FALSE)) /\ Cancel(m, orders, FALSE).trades = m.trades
    BY <1>2, <2>1, CancelKeeps, CancelLogs DEF Good
  <2> QED
    BY <2>2 DEF CancelPending, orders
<1> HIDE DEF freed
<1>6. Grown(freed, Close(freed, a, bar.open, TRUE))
  BY <1>5, CloseLogs, LoggedGrown
<1>7. Grown(m, Place(m, a, 1, sig, bar, prevClose))
  BY <1>2, PlaceGrows
<1>8. Grown(m, Place(sold, a, -1, sig, bar, prevClose))
  <2>1. Grown(sold, Place(sold, a, -1, sig, bar, prevClose))
    BY <1>4, PlaceGrows
  <2>2. -1 \in {1, -1}
    OBVIOUS
  <2>3. Good(Place(sold, a, -1, sig, bar, prevClose))
    BY <1>4, <2>2, PlaceKeeps
  <2> QED
    BY <1>2, <1>4, <2>1, <2>3, GrownChain
<1>9. Grown(m, m) /\ Grown(m, Close(freed, a, bar.open, TRUE))
  <2> DEFINE c == Close(freed, a, bar.open, TRUE)
  <2>1. Grown(m, m)
    BY <1>3 DEF Grown
  <2> HIDE DEF c
  <2>2. Grown(m, c)
    BY <1>5, <1>6 DEF Grown, c
  <2> QED
    BY <2>1, <2>2 DEF c
<1>10. Grown(m, n)
  BY <1>1, <1>4, <1>7, <1>8, <1>9
<1>11. Grown(m0, n)
  BY <1>2, <1>10 DEF Grown
<1> QED
  BY <1>11 DEF n

LEMMA TradesGrow ==
  ASSUME Good(mgr), NEW a \in Assets, NEW bar \in Bars, NEW sig \in Signals, prev \in [Assets -> Int]
  PROVE  Grown(mgr, Trades(a, bar, sig))
<1> DEFINE c == prev[a]
           m == CheckTriggers(mgr, a, bar, c)
<1>1. c \in Int
  OBVIOUS
<1>2. Trades(a, bar, sig) = ProcessSignals(m, a, sig, bar, c) /\ Good(Trades(a, bar, sig))
  BY TradesKeep DEF Trades
<1> HIDE DEF c
<1>3. Good(m) /\ Grown(mgr, m)
  BY <1>1, BarFacts, CheckTriggersKeeps, CheckTriggersGrows
<1> HIDE DEF m
<1>4. Grown(m, ProcessSignals(m, a, sig, bar, c))
  BY <1>1, <1>3, ProcessSignalsGrows
<1> QED
  BY <1>2, <1>3, <1>4, GrownChain

-----------------------------------------------------------------------------
(* The calls of on_fill.                                                   *)

LEMMA FromType ==
  ASSUME NEW n \in Nat
  PROVE  /\ From(1, n) \in Seq(Nat) /\ Len(From(1, n)) = n
         /\ \A i \in 1..n : From(1, n)[i] = i
<1>1. From(1, n) = [i \in 1..n |-> i]
  <2>1. n + 1 - 1 = n /\ \A i \in 1..n : 1 - 1 + i = i
    OBVIOUS
  <2> QED
    BY <2>1 DEF From
<1> QED
  BY <1>1

LEMMA FromNone == From(1, 0) = <<>>
<1>1. From(1, 0) = [i \in 1..0 |-> i]
  <2>1. 0 + 1 - 1 = 0 /\ \A i \in 1..0 : 1 - 1 + i = i
    OBVIOUS
  <2> QED
    BY <2>1 DEF From
<1> QED
  BY <1>1

(* What the bars add to the log of calls.                                  *)
LEMMA FromNext ==
  ASSUME NEW n \in Nat, NEW k \in Nat, n <= k
  PROVE  From(1, n) \o From(n + 1, k) = From(1, k)
<1> DEFINE f == From(1, n)
           g == From(n + 1, k)
           h == From(1, k)
<1>1. f \in Seq(Nat) /\ Len(f) = n /\ \A i \in 1..n : f[i] = i
  BY FromType
<1>2. h \in Seq(Nat) /\ Len(h) = k /\ \A i \in 1..k : h[i] = i
  BY FromType
<1>3. g \in Seq(Nat) /\ Len(g) = k - n /\ \A i \in 1..(k - n) : g[i] = n + i
  <2>1. g = [i \in 1..(k - n) |-> n + i]
    <3>1. k + 1 - (n + 1) = k - n /\ \A i \in 1..(k - n) : n + 1 - 1 + i = n + i
      OBVIOUS
    <3> QED
      BY <3>1 DEF From
  <2>2. k - n \in Nat /\ \A i \in 1..(k - n) : n + i \in Nat
    OBVIOUS
  <2> QED
    BY <2>1, <2>2
<1> HIDE DEF f, g, h
<1>4. /\ f \o g \in Seq(Nat) /\ Len(f \o g) = k
      /\ \A i \in 1..k : (f \o g)[i] = IF i <= n THEN f[i] ELSE g[i - n]
  <2>1. n + (k - n) = k
    OBVIOUS
  <2> QED
    BY <1>1, <1>3, <2>1, ConcatProperties
<1>5. \A i \in 1..k : (f \o g)[i] = h[i]
  <2> SUFFICES ASSUME NEW i \in 1..k
               PROVE  (f \o g)[i] = h[i]
    OBVIOUS
  <2>1. CASE i <= n
    BY <1>1, <1>2, <1>4, <2>1
  <2>2. CASE ~(i <= n)
    <3>1. i - n \in 1..(k - n)
      BY <2>2
    <3>2. (f \o g)[i] = g[i - n] /\ h[i] = i
      BY <1>2, <1>4, <2>2
    <3>3. g[i - n] = n + (i - n)
      BY <1>3, <3>1
    <3> QED
      BY <3>2, <3>3
  <2> QED
    BY <2>1, <2>2
<1>6. f \o g = h
  BY <1>2, <1>4, <1>5, SeqEqual
<1> QED
  BY <1>6 DEF f, g, h

(* What a close at the end of a run adds to it.                            *)
LEMMA FromLast ==
  ASSUME NEW n \in Nat
  PROVE  Append(From(1, n), n + 1) = From(1, n + 1)
<1> DEFINE f == From(1, n)
           h == From(1, n + 1)
<1>1. f \in Seq(Nat) /\ Len(f) = n /\ \A i \in 1..n : f[i] = i
  BY FromType
<1>2. h \in Seq(Nat) /\ Len(h) = n + 1 /\ \A i \in 1..(n + 1) : h[i] = i
  BY FromType
<1> HIDE DEF f, h
<1>3. /\ Append(f, n + 1) \in Seq(Nat) /\ Len(Append(f, n + 1)) = n + 1
      /\ \A i \in 1..n : Append(f, n + 1)[i] = f[i]
      /\ Append(f, n + 1)[n + 1] = n + 1
  BY <1>1
<1>4. \A i \in 1..(n + 1) : Append(f, n + 1)[i] = h[i]
  <2> SUFFICES ASSUME NEW i \in 1..(n + 1)
               PROVE  Append(f, n + 1)[i] = h[i]
    OBVIOUS
  <2>1. i = n + 1 \/ i \in 1..n
    OBVIOUS
  <2> QED
    BY <1>1, <1>2, <1>3, <2>1
<1>5. Append(f, n + 1) = h
  BY <1>2, <1>3, <1>4, SeqEqual
<1> QED
  BY <1>5 DEF f, h

(* What closing all does for one asset.                                    *)
CloseOne(c, a, assets) == IF a \in assets THEN CloseLast(c, a) ELSE c

LEMMA CloseAllDef ==
  ASSUME NEW m, NEW told, NEW assets
  PROVE  \E g : /\ g = [a \in 0..NumAssets |-> IF a = 0 THEN [mgr |-> m, told |-> told]
                                                ELSE CloseOne(g[a - 1], a, assets)]
                /\ CloseAll(m, told, assets) = g[NumAssets]
<1> DEFINE c == [mgr |-> m, told |-> told]
           P(g, k) == g = [a \in 0..k |-> IF a = 0 THEN c ELSE CloseOne(g[a - 1], a, assets)]
           S == {k \in Nat : \E g : P(g, k)}
<1>1. 0 \in S
  <2> DEFINE g == [i \in 0..0 |-> c]
  <2> HIDE DEF c
  <2>1. P(g, 0)
    OBVIOUS
  <2> QED
    BY <2>1
<1>2. ASSUME NEW k \in Nat, k \in S
      PROVE  k + 1 \in S
  <2> HIDE DEF c
  <2>1. PICK g : P(g, k)
    BY <1>2
  <2> DEFINE h == [i \in 0..(k + 1) |-> IF i <= k THEN g[i] ELSE CloseOne(g[k], k + 1, assets)]
  <2>2. P(h, k + 1)
    BY <2>1
  <2> HIDE DEF P, h
  <2> QED
    BY <2>2
<1>3. \E g : P(g, NumAssets)
  <2> HIDE DEF P
  <2>1. \A k \in Nat : k \in S
    <3> HIDE DEF S
    <3> QED BY <1>1, <1>2, Induction
  <2>2. NumAssets \in Nat
    BY Params
  <2> QED
    BY <2>1, <2>2
<1> QED
  BY <1>3 DEF CloseAll, CloseOne

(* A manager, and on_fill called for each of its trades.                   *)
Told(c) == Good(c.mgr) /\ c.told = From(1, c.mgr.trades)

LEMMA CloseOneTells ==
  ASSUME NEW c, Told(c), NEW a \in Assets, NEW assets, mtm \in [Assets -> Int]
  PROVE  Told(CloseOne(c, a, assets))
<1> DEFINE price == mtm[a]
           n == Close(c.mgr, a, price, TRUE)
           told == IF n.trades > c.mgr.trades THEN Append(c.told, n.trades) ELSE c.told
<1>1. price \in Int
  OBVIOUS
<1>2. CloseLast(c, a) = [mgr |-> n, told |-> told]
  BY DEF CloseLast
<1> HIDE DEF price
<1>3. Good(n) /\ Logged(c.mgr, n)
  BY <1>1, CloseKeeps, CloseLogs DEF Told
<1> HIDE DEF n
<1>4. c.mgr.trades \in Nat
  BY GoodTrades DEF Told
<1>5. told = From(1, n.trades)
  <2>1. CASE n.trades = c.mgr.trades
    BY <1>4, <2>1 DEF Told
  <2>2. CASE n.trades = c.mgr.trades + 1
    <3>1. told = Append(c.told, c.mgr.trades + 1)
      BY <1>4, <2>2
    <3>2. c.told = From(1, c.mgr.trades)
      BY DEF Told
    <3>3. Append(From(1, c.mgr.trades), c.mgr.trades + 1) = From(1, c.mgr.trades + 1)
      BY <1>4, FromLast
    <3> HIDE DEF told
    <3> QED
      BY <2>2, <3>1, <3>2, <3>3
  <2> QED
    BY <1>3, <2>1, <2>2 DEF Logged
<1> HIDE DEF told
<1> QED
  BY <1>2, <1>3, <1>5 DEF Told, CloseOne

LEMMA CloseAllTells ==
  ASSUME NEW m, Good(m), NEW told, told = From(1, m.trades), NEW assets, mtm \in [Assets -> Int]
  PROVE  Told(CloseAll(m, told, assets))
<1> DEFINE c == [mgr |-> m, told |-> told]
<1>1. PICK g : /\ g = [a \in 0..NumAssets |-> IF a = 0 THEN c ELSE CloseOne(g[a - 1], a, assets)]
               /\ CloseAll(m, told, assets) = g[NumAssets]
  BY CloseAllDef
<1>2. NumAssets \in Nat /\ Assets = 1..NumAssets
  BY Params
<1>3. Told(c)
  BY DEF Told
<1> HIDE DEF c
<1> DEFINE S == {k \in Nat : k <= NumAssets => Told(g[k])}
<1>4. 0 \in S
  BY <1>1, <1>2, <1>3
<1>5. ASSUME NEW k \in Nat, k \in S
      PROVE  k + 1 \in S
  <2> SUFFICES ASSUME k + 1 <= NumAssets
               PROVE  Told(g[k + 1])
    OBVIOUS
  <2>1. Told(g[k]) /\ k + 1 \in Assets
    BY <1>2, <1>5
  <2>2. g[k + 1] = CloseOne(g[k], k + 1, assets)
    BY <1>1, <1>2
  <2> QED
    BY <2>1, <2>2, CloseOneTells
<1>6. \A k \in Nat : k \in S
  <2> HIDE DEF S
  <2> QED
    BY <1>4, <1>5, Induction
<1> QED
  BY <1>1, <1>2, <1>6

-----------------------------------------------------------------------------
(* The books balance.                                                      *)

(* Fractions that are the same number over D are the same.                 *)
LEMMA SameIs ==
  ASSUME NEW x, NEW y, NEW D \in Positive, NEW v \in Int, Is(x, D, v), Is(y, D, v)
  PROVE  Same(x, y)
<1> DEFINE a == x[1]
           b == x[2]
           e == y[1]
           f == y[2]
<1>1. a \in Int /\ b \in Positive /\ e \in Int /\ f \in Positive /\ a * D = v * b /\ e * D = v * f
  BY DEF Is, Rational
<1> HIDE DEF a, b, e, f
<1>2. v * f = e * D
  BY <1>1
<1>3. a * f = e * b
  BY <1>1, <1>2, Chain3
<1> QED
  BY <1>3 DEF Same, a, b, e, f

(* The cost of the slot s.                                                 *)
CostOf(m, s) == Times(m.positions[s].avg, m.positions[s].position)

LEMMA CostDef ==
  ASSUME NEW m
  PROVE  \E g : /\ g = [s \in 0..Capacity |-> IF s = 0 THEN Whole(0) ELSE Plus(g[s - 1], CostOf(m, s))]
                /\ Reconciles(m) <=> Same(Plus(Whole(m.cash), g[Capacity]),
                                          Plus(Whole(Cash0 - m.entryCost), m.pnl))
<1> DEFINE P(g, k) == g = [s \in 0..k |-> IF s = 0 THEN Whole(0) ELSE Plus(g[s - 1], CostOf(m, s))]
           S == {k \in Nat : \E g : P(g, k)}
<1>1. 0 \in S
  <2> DEFINE g == [i \in 0..0 |-> Whole(0)]
  <2>1. P(g, 0)
    OBVIOUS
  <2> QED
    BY <2>1
<1>2. ASSUME NEW k \in Nat, k \in S
      PROVE  k + 1 \in S
  <2>1. PICK g : P(g, k)
    BY <1>2
  <2> DEFINE h == [i \in 0..(k + 1) |-> IF i <= k THEN g[i] ELSE Plus(g[k], CostOf(m, k + 1))]
  <2>2. P(h, k + 1)
    BY <2>1
  <2> HIDE DEF P, h
  <2> QED
    BY <2>2
<1>3. \E g : P(g, Capacity)
  <2> HIDE DEF P
  <2>1. \A k \in Nat : k \in S
    <3> HIDE DEF S
    <3> QED BY <1>1, <1>2, Induction
  <2>2. Capacity \in Nat
    BY Params
  <2> QED
    BY <2>1, <2>2
<1> DEFINE c == CHOOSE g : P(g, Capacity)
<1>4. P(c, Capacity)
  <2> HIDE DEF P
  <2> QED
    BY <1>3
<1>5. Reconciles(m) <=> Same(Plus(Whole(m.cash), c[Capacity]), Plus(Whole(Cash0 - m.entryCost), m.pnl))
  BY DEF Reconciles, CostOf
<1> HIDE DEF c
<1> QED
  BY <1>4, <1>5

(* The balance over a common denominator is the balance of the fractions.  *)
LEMMA BalancedReconciles ==
  ASSUME NEW m, Good(m)
  PROVE  Reconciles(m)
<1>1. m \in Managers /\ Balanced(m)
  BY DEF Good
<1>2. PICK D \in Positive, b \in Int, c \in [Slots -> Int] : BalancedAt(m, D, b, c)
  BY <1>1 DEF Balanced
<1>3. PICK g : /\ g = [s \in 0..Capacity |-> IF s = 0 THEN Whole(0) ELSE Plus(g[s - 1], CostOf(m, s))]
               /\ Reconciles(m) <=> Same(Plus(Whole(m.cash), g[Capacity]),
                                         Plus(Whole(Cash0 - m.entryCost), m.pnl))
  BY CostDef
<1>4. Capacity \in Nat /\ Slots = 1..Capacity /\ Cash0 \in Int
  BY Params
<1> DEFINE f == Costs(m, c)
           S == {k \in Nat : k <= Capacity => SumTo(f, k) \in Int /\ Is(g[k], D, SumTo(f, k))}
<1>5. 0 \in S
  <2>1. g[0] = Whole(0) /\ SumTo(f, 0) = 0
    BY <1>3, <1>4, SumZero
  <2>2. Is(Whole(0), D, 0)
    BY WholeIs DEF Positive
  <2> QED
    BY <2>1, <2>2
<1>6. \A i \in 1..Capacity : f[i] = c[i] * m.positions[i].position /\ f[i] \in Int
  BY <1>1, CostsType
<1> HIDE DEF f
<1>7. ASSUME NEW k \in Nat, k \in S
      PROVE  k + 1 \in S
  <2> SUFFICES ASSUME k + 1 <= Capacity
               PROVE  SumTo(f, k + 1) \in Int /\ Is(g[k + 1], D, SumTo(f, k + 1))
    OBVIOUS
  <2>1. SumTo(f, k) \in Int /\ Is(g[k], D, SumTo(f, k)) /\ k + 1 \in Slots
    BY <1>4, <1>7
  <2>2. g[k + 1] = Plus(g[k], CostOf(m, k + 1))
    <3>1. g = [s \in 0..Capacity |-> IF s = 0 THEN Whole(0) ELSE Plus(g[s - 1], CostOf(m, s))]
      BY <1>3
    <3>2. k + 1 \in 0..Capacity /\ k + 1 # 0 /\ (k + 1) - 1 = k
      BY <1>4
    <3>3. g[k + 1] = Plus(g[(k + 1) - 1], CostOf(m, k + 1))
      BY <3>1, <3>2, Zenon
    <3> QED
      BY <3>2, <3>3
  <2>3. SumTo(f, k + 1) = SumTo(f, k) + f[k + 1]
    BY SumNext
  <2>4. f[k + 1] = c[k + 1] * m.positions[k + 1].position /\ f[k + 1] \in Int
    BY <1>4, <1>6, <2>1
  <2>5. Is(CostOf(m, k + 1), D, f[k + 1])
    <3> DEFINE x == m.positions[k + 1].avg
               y == m.positions[k + 1].position
               z == c[k + 1]
    <3>1. Is(x, D, z) /\ y \in Int /\ z \in Int
      <4>1. y \in Nat
        BY <1>1, <2>1, ManagerFacts
      <4> QED
        BY <1>2, <2>1, <4>1 DEF BalancedAt
    <3> HIDE DEF x, y, z
    <3>2. Is(Times(x, y), D, z * y)
      BY <3>1, TimesIs
    <3> QED
      BY <2>4, <3>2 DEF CostOf, x, y, z
  <2> QED
    BY <2>1, <2>2, <2>3, <2>4, <2>5, PlusIs
<1>8. \A k \in Nat : k \in S
  <2> HIDE DEF S
  <2> QED
    BY <1>5, <1>7, Induction
<1> DEFINE t == SumTo(f, Capacity)
           v == m.cash * D
           w == (Cash0 - m.entryCost) * D
<1>9. t \in Int /\ Is(g[Capacity], D, t)
  BY <1>4, <1>8
<1>10. m.cash \in Int /\ Cash0 - m.entryCost \in Int /\ v \in Int /\ w \in Int
  <2>1. m.cash \in Int /\ Cash0 - m.entryCost \in Int /\ D \in Int
    BY <1>1, <1>4, ManagerFacts DEF Positive
  <2> QED
    BY <2>1
<1>11. Is(Whole(m.cash), D, v) /\ Is(Whole(Cash0 - m.entryCost), D, w)
  BY <1>10, WholeIs
<1>12. v + t = w + b /\ Is(m.pnl, D, b)
  BY <1>2 DEF BalancedAt, f
<1> HIDE DEF v, w, t
<1>13. Is(Plus(Whole(m.cash), g[Capacity]), D, v + t)
  BY <1>9, <1>10, <1>11, PlusIs
<1>14. Is(Plus(Whole(Cash0 - m.entryCost), m.pnl), D, w + b)
  BY <1>10, <1>11, <1>12, PlusIs
<1>15. v + t \in Int
  BY <1>9, <1>10
<1>16. Same(Plus(Whole(m.cash), g[Capacity]), Plus(Whole(Cash0 - m.entryCost), m.pnl))
  BY <1>12, <1>13, <1>14, <1>15, SameIs
<1> QED
  BY <1>3, <1>16

-----------------------------------------------------------------------------
(* The equity.                                                             *)

(* There are no more seats taken than there are assets.                    *)
LEMMA SeatsFit ==
  ASSUME NEW m \in Managers, Seats(m), NEW s \in Slots, m.positions[s].asset # 0
  PROVE  s <= NumAssets
<1> SUFFICES ASSUME ~(s <= NumAssets)
             PROVE  FALSE
  OBVIOUS
<1>1. NumAssets \in Nat /\ Capacity \in Nat /\ Slots = 1..Capacity /\ s \in Nat /\ s > NumAssets
  BY Params
<1> DEFINE f == [t \in 1..s |-> m.positions[t].asset]
<1>2. \A t \in 1..s : t \in Slots /\ m.positions[t].asset # 0 /\ m.positions[t].asset \in 1..NumAssets
  <2> SUFFICES ASSUME NEW t \in 1..s
               PROVE  t \in Slots /\ m.positions[t].asset # 0 /\ m.positions[t].asset \in 1..NumAssets
    OBVIOUS
  <2>1. t \in Slots
    BY <1>1
  <2>2. m.positions[t].asset # 0
    <3>1. t < s \/ t = s
      BY <1>1
    <3> QED
      BY <2>1, <3>1 DEF Seats
  <2>3. m.positions[t].asset \in 0..NumAssets
    BY <2>1, ManagerFacts DEF Positions
  <2> QED
    BY <1>1, <2>1, <2>2, <2>3
<1>3. f \in [1..s -> 1..NumAssets]
  BY <1>2
<1>4. /\ IsFiniteSet(1..s) /\ IsFiniteSet(1..NumAssets)
      /\ Cardinality(1..s) = s /\ Cardinality(1..NumAssets) = NumAssets
  <2>1. /\ IsFiniteSet(1..s) /\ Cardinality(1..s) = IF 1 > s THEN 0 ELSE s - 1 + 1
    BY <1>1, FS_Interval
  <2>2. /\ IsFiniteSet(1..NumAssets)
        /\ Cardinality(1..NumAssets) = IF 1 > NumAssets THEN 0 ELSE NumAssets - 1 + 1
    <3>1. 1 \in Int /\ NumAssets \in Int
      BY <1>1
    <3> QED
      BY <3>1, FS_Interval, Zenon
  <2> QED
    BY <1>1, <2>1, <2>2
<1>5. Cardinality(1..NumAssets) < Cardinality(1..s)
  BY <1>1, <1>4
<1>6. PICK x, y \in 1..s : x # y /\ f[x] = f[y]
  <2> HIDE DEF f
  <2> QED
    BY <1>3, <1>4, <1>5, FS_PigeonHole
<1>7. m.positions[x].asset = m.positions[y].asset
  BY <1>6
<1> QED
  BY <1>2, <1>6, <1>7 DEF Seats

(* Slot by slot or asset by asset, the value of the positions is the same. *)
LEMMA ValueIs ==
  ASSUME NEW m \in Managers, Seats(m), NEW p \in [Assets -> Int], NEW K \in Nat,
         K <= Capacity, K = Capacity \/ K = NumAssets
  PROVE  SumTo([s \in Slots |-> Value(m.positions[s], p)], K) =
           SumTo([a \in Assets |-> p[a] * Position(m, a)], NumAssets)
<1>1. /\ NumAssets \in Nat /\ Capacity \in Nat /\ Slots = 1..Capacity /\ Assets = 1..NumAssets
      /\ DOMAIN p = Assets
  BY Params
<1> DEFINE F == [s \in Slots |-> Value(m.positions[s], p)]
           G(n) == [a \in Assets |-> IF SlotOf(m, a) \in 1..n THEN p[a] * Position(m, a) ELSE 0]
           S == {n \in Nat : n <= K => SumTo(F, n) = SumTo(G(n), NumAssets)}
<1>2. \A a \in Assets : p[a] * Position(m, a) \in Int
  BY PositionType
<1>3. \A n \in Nat : \A a \in 1..NumAssets : G(n)[a] \in Int
  BY <1>1, <1>2
<1>4. 0 \in S
  <2> DEFINE g == G(0)
             T == {k \in Nat : k <= NumAssets => SumTo(g, k) = 0}
  <2>1. \A a \in 1..NumAssets : g[a] = 0
    BY <1>1
  <2> HIDE DEF g
  <2>2. 0 \in T
    BY SumZero
  <2>3. ASSUME NEW k \in Nat, k \in T
        PROVE  k + 1 \in T
    <3>1. SumTo(g, k + 1) = SumTo(g, k) + g[k + 1]
      BY SumNext
    <3>2. k + 1 <= NumAssets => g[k + 1] = 0 /\ SumTo(g, k) = 0
      BY <1>1, <2>1, <2>3
    <3> QED
      BY <3>1, <3>2
  <2>4. \A k \in Nat : k \in T
    <3> HIDE DEF T
    <3> QED
      BY <2>2, <2>3, Induction
  <2>5. SumTo(g, NumAssets) = 0
    BY <1>1, <2>4
  <2> HIDE DEF F
  <2>6. SumTo(F, 0) = 0
    BY SumZero
  <2> QED
    BY <2>5, <2>6 DEF g
<1>5. ASSUME NEW n \in Nat, n \in S
      PROVE  n + 1 \in S
  <2> SUFFICES ASSUME n + 1 <= K
               PROVE  SumTo(F, n + 1) = SumTo(G(n + 1), NumAssets)
    OBVIOUS
  <2> DEFINE b == m.positions[n + 1].asset
             f == G(n)
             g == G(n + 1)
  <2>1. n + 1 \in Slots /\ n <= K /\ b \in 0..NumAssets /\ b \in Nat /\ m.positions[n + 1].position \in Nat
    <3>1. n + 1 \in Slots /\ n <= K
      BY <1>1
    <3>2. m.positions[n + 1] \in Positions
      BY <3>1, ManagerFacts
    <3> QED
      BY <1>1, <3>1, <3>2 DEF Positions
  <2>2. SumTo(F, n) = SumTo(f, NumAssets)
    BY <1>5, <2>1
  <2>3. SumTo(F, n + 1) = SumTo(F, n) + F[n + 1]
    <3> HIDE DEF F
    <3> QED
      BY SumNext
  <2>4. \A a \in Assets : SlotOf(m, a) = n + 1 <=> b = a
    <3> SUFFICES ASSUME NEW a \in Assets
                 PROVE  SlotOf(m, a) = n + 1 <=> b = a
      OBVIOUS
    <3>1. SlotOf(m, a) = n + 1 => b = a
      BY <2>1, SlotIs
    <3>2. ASSUME b = a
          PROVE  SlotOf(m, a) = n + 1
      <4>1. a # 0
        BY <1>1
      <4>2. SlotOf(m, a) \in Slots /\ m.positions[SlotOf(m, a)].asset = a
        BY <2>1, <3>2, SlotIs
      <4> QED
        BY <2>1, <3>2, <4>1, <4>2 DEF Seats
    <3> QED
      BY <3>1, <3>2
  <2>5. \A a \in (1..NumAssets) \ {b} : f[a] = g[a]
    <3> SUFFICES ASSUME NEW a \in (1..NumAssets) \ {b}
                 PROVE  SlotOf(m, a) \in 1..n <=> SlotOf(m, a) \in 1..(n + 1)
      BY <1>1
    <3>1. SlotOf(m, a) # n + 1
      BY <1>1, <2>4
    <3> QED
      BY <3>1
  <2>6. \A a \in 1..NumAssets : f[a] \in Int /\ g[a] \in Int
    BY <1>3
  <2>7. F[n + 1] = IF b = 0 THEN 0 ELSE p[b] * m.positions[n + 1].position
    <3>1. F[n + 1] = Value(m.positions[n + 1], p)
      BY <2>1
    <3>2. b = 0 => m.positions[n + 1].position = 0
      BY <2>1 DEF Seats
    <3>3. b # 0 => b \in DOMAIN p /\ p[b] \in Int
      BY <1>1, <2>1
    <3> HIDE DEF F
    <3> QED
      BY <2>1, <3>1, <3>2, <3>3 DEF Value
  <2>8. b # 0 => f[b] = 0 /\ g[b] = p[b] * m.positions[n + 1].position /\ b \in 1..NumAssets
    <3> SUFFICES ASSUME b # 0
                 PROVE  f[b] = 0 /\ g[b] = p[b] * m.positions[n + 1].position /\ b \in 1..NumAssets
      OBVIOUS
    <3>1. b \in Assets /\ b \in 1..NumAssets
      BY <1>1, <2>1
    <3>2. SlotOf(m, b) = n + 1
      BY <2>4, <3>1
    <3>3. SlotOf(m, b) # 0 /\ SlotOf(m, b) \notin 1..n /\ SlotOf(m, b) \in 1..(n + 1)
      BY <3>2
    <3>4. Position(m, b) = m.positions[n + 1].position
      BY <3>2, <3>3 DEF Position
    <3> QED
      BY <3>1, <3>3, <3>4
  <2>9. SumTo(f, NumAssets) \in Int
    <3> HIDE DEF f
    <3> QED
      BY <1>1, <2>6, SumInt
  <2> HIDE DEF f, g, F, b
  <2>10. SumTo(g, NumAssets) = SumTo(f, NumAssets) + (IF b \in 1..NumAssets THEN g[b] - f[b] ELSE 0)
    BY <1>1, <2>1, <2>5, <2>6, SumUpdate
  <2>11. CASE b = 0
    <3>1. b \notin 1..NumAssets
      BY <2>11
    <3> QED
      BY <2>2, <2>3, <2>7, <2>9, <2>10, <2>11, <3>1 DEF g
  <2>12. CASE b # 0
    <3>1. g[b] \in Int
      BY <2>6, <2>8, <2>12
    <3> QED
      BY <2>2, <2>3, <2>7, <2>8, <2>9, <2>10, <2>12, <3>1 DEF g
  <2> QED
    BY <2>11, <2>12
<1>6. \A n \in Nat : n \in S
  <2> HIDE DEF S
  <2> QED
    BY <1>4, <1>5, Induction
<1>7. G(K) = [a \in Assets |-> p[a] * Position(m, a)]
  <2> SUFFICES ASSUME NEW a \in Assets
               PROVE  (IF SlotOf(m, a) \in 1..K THEN p[a] * Position(m, a) ELSE 0) = p[a] * Position(m, a)
    OBVIOUS
  <2>1. CASE SlotOf(m, a) = 0
    <3>1. Position(m, a) = 0 /\ p[a] \in Int
      BY <2>1 DEF Position
    <3> QED
      BY <2>1, <3>1
  <2>2. CASE SlotOf(m, a) # 0
    <3> DEFINE s == SlotOf(m, a)
    <3>1. s \in Slots /\ m.positions[s].asset = a /\ a # 0
      BY <1>1, <2>2, SlotIs
    <3>2. s <= NumAssets
      BY <3>1, SeatsFit
    <3>3. s \in 1..K
      BY <1>1, <3>1, <3>2
    <3> QED
      BY <3>3
  <2> QED
    BY <2>1, <2>2
<1>8. SumTo(F, K) = SumTo(G(K), NumAssets)
  BY <1>6
<1> QED
  BY <1>7, <1>8

-----------------------------------------------------------------------------
(* The invariant of the specification.                                     *)

Runs == [phase : {"idle", "dates", "bars"}, assets : SUBSET Assets, todo : SUBSET Assets]
Closes == prev \in [Assets -> Int] /\ mtm \in [Assets -> Int]
MInv ==
  /\ Good(mgr)
  /\ client # "runner" => run = NoRun
  /\ run \in Runs /\ Closes /\ processed \in [Assets -> Int]
  /\ FillsNotified
  /\ run.phase # "idle" => prevTrades = mgr.trades
  /\ EquityExact

LEMMA ZeroType == Zero \in [Assets -> Int] /\ \A a \in Assets : Zero[a] = 0
BY DEF Zero

LEMMA NoRunType == NoRun \in Runs /\ NoRun.phase = "idle"
BY DEF NoRun, Runs

LEMMA MInit == Init => MInv
<1> SUFFICES ASSUME Init
             PROVE  MInv
  OBVIOUS
<1>1. PICK rules \in Markets : mgr = NewManager(rules, client = "exchange")
  BY DEF Init
<1>2. Good(mgr) /\ mgr.trades = 0
  <2> DEFINE x == (client = "exchange")
             l == {}
  <2>1. x \in BOOLEAN /\ l \in SUBSET LiveOrders
    OBVIOUS
  <2>2. NewManager(rules, x) = [NewManager(rules, x) EXCEPT !.live = l]
    BY DEF NewManager
  <2>3. mgr = NewManager(rules, x)
    BY <1>1
  <2> HIDE DEF x, l
  <2>4. Good([NewManager(rules, x) EXCEPT !.live = l]) /\ [NewManager(rules, x) EXCEPT !.live = l].trades = 0
    BY <2>1, NewManagerGood
  <2> QED
    BY <2>2, <2>3, <2>4
<1>3. run = NoRun /\ prev = Zero /\ mtm = Zero /\ processed = Zero /\ notified = <<>>
  BY DEF Init
<1>4. FillsNotified
  BY <1>2, <1>3, FromNone DEF FillsNotified
<1>5. EquityExact
  BY <1>3, NoRunType DEF EquityExact
<1> QED
  BY <1>2, <1>3, <1>4, <1>5, ZeroType, NoRunType DEF MInv, Closes

LEMMA MRunSingle ==
  ASSUME MInv, NEW a \in Assets, RunSingle(a)
  PROVE  MInv'
<1>1. /\ client = "runner" /\ client' = client /\ mgr' = BeginBar(mgr)
      /\ run' = [phase |-> "dates", assets |-> {a}, todo |-> {}]
      /\ prev' = Zero /\ mtm' = Zero /\ processed' = Zero /\ notified' = notified
      /\ prevTrades' = mgr.trades
  BY DEF RunSingle
<1>2. Good(mgr') /\ mgr'.trades = mgr.trades
  BY <1>1, BeginBarKeeps DEF MInv
<1>3. run' \in Runs
  BY <1>1 DEF Runs
<1>4. FillsNotified'
  BY <1>1, <1>2 DEF MInv, FillsNotified
<1>5. EquityExact'
  BY <1>1, ZeroType DEF EquityExact
<1> QED
  BY <1>1, <1>2, <1>3, <1>4, <1>5, ZeroType DEF MInv, Closes

LEMMA MRunUniverse ==
  ASSUME MInv, RunUniverse
  PROVE  MInv'
<1>1. /\ client = "runner" /\ client' = client /\ mgr' = mgr
      /\ run' = [phase |-> "dates", assets |-> Assets, todo |-> {}]
      /\ prev' = Zero /\ mtm' = Zero /\ processed' = Zero /\ notified' = notified
      /\ prevTrades' = mgr.trades
  BY DEF RunUniverse
<1>2. run' \in Runs
  BY <1>1 DEF Runs
<1>3. FillsNotified'
  BY <1>1 DEF MInv, FillsNotified
<1>4. EquityExact'
  BY <1>1, ZeroType DEF EquityExact
<1> QED
  BY <1>1, <1>2, <1>3, <1>4, ZeroType DEF MInv, Closes

LEMMA MNextDate ==
  ASSUME MInv, NextDate
  PROVE  MInv'
<1>1. PICK todo \in SUBSET run.assets \ {{}} : run' = [run EXCEPT !.phase = "bars", !.todo = todo]
  BY DEF NextDate
<1>2. /\ run.phase = "dates" /\ client' = client /\ mgr' = BeginBar(mgr)
      /\ prev' = prev /\ mtm' = mtm /\ processed' = processed /\ notified' = notified
      /\ prevTrades' = prevTrades
  BY DEF NextDate
<1>3. client = "runner"
  BY <1>2, NoRunType DEF MInv
<1>4. Good(mgr') /\ mgr'.trades = mgr.trades
  BY <1>2, BeginBarKeeps DEF MInv
<1>5. run' \in Runs /\ run'.phase = "bars"
  <2>1. run \in Runs /\ run.assets \in SUBSET Assets
    BY DEF MInv, Runs
  <2> QED
    BY <1>1, <2>1 DEF Runs
<1>6. FillsNotified'
  BY <1>2, <1>4 DEF MInv, FillsNotified
<1>7. EquityExact'
  BY <1>5 DEF EquityExact
<1> QED
  BY <1>2, <1>3, <1>4, <1>5, <1>6, <1>7 DEF MInv, Closes

LEMMA MOnBar ==
  ASSUME MInv, NEW a \in Assets, NEW bar \in Bars, NEW sig \in Signals, OnBar(a, bar, sig)
  PROVE  MInv'
<1>1. /\ run.phase = "bars" /\ client' = client
      /\ mgr' = mgr \/ mgr' = Trades(a, bar, sig)
      /\ notified' = notified \o From(prevTrades + 1, mgr'.trades) /\ prevTrades' = mgr'.trades
      /\ prev' = [prev EXCEPT ![a] = bar.close]
      /\ mtm' = [mtm EXCEPT ![a] = bar.close]
      /\ processed' = [processed EXCEPT ![a] = @ + 1]
      /\ run' = [run EXCEPT !.todo = @ \ {a}]
  BY DEF OnBar
<1>2. client = "runner"
  BY <1>1, NoRunType DEF MInv
<1>3. Good(mgr')
  BY <1>1, TradesKeep DEF MInv, Closes
<1>4. /\ mgr.trades \in Nat /\ mgr'.trades \in Nat /\ mgr.trades <= mgr'.trades
      /\ prevTrades = mgr.trades /\ notified = From(1, mgr.trades)
  <2>1. Grown(mgr, Trades(a, bar, sig))
    BY TradesGrow DEF MInv, Closes
  <2>2. mgr.trades \in Nat /\ mgr'.trades \in Nat
    BY <1>3, GoodTrades DEF MInv
  <2> QED
    BY <1>1, <1>2, <2>1, <2>2 DEF MInv, FillsNotified, Grown
<1>5. run' \in Runs /\ run'.phase = "bars"
  <2>1. run \in Runs
    BY DEF MInv
  <2> QED
    BY <1>1, <2>1 DEF Runs
<1>6. Closes' /\ processed' \in [Assets -> Int]
  <2>1. prev \in [Assets -> Int] /\ mtm \in [Assets -> Int] /\ processed \in [Assets -> Int]
    BY DEF MInv, Closes
  <2>2. bar.close \in Int
    BY BarFacts
  <2> QED
    BY <1>1, <2>1, <2>2 DEF Closes
<1>7. FillsNotified'
  <2>1. notified' = From(1, mgr'.trades)
    BY <1>1, <1>4, FromNext
  <2> QED
    BY <2>1 DEF FillsNotified
<1>8. EquityExact'
  BY <1>5 DEF EquityExact
<1> QED
  BY <1>1, <1>2, <1>3, <1>5, <1>6, <1>7, <1>8 DEF MInv

(* The mark to market of a universe run counts every asset.                *)
LEMMA MEndDate ==
  ASSUME MInv, EndDate
  PROVE  MInv'
<1> DEFINE p == [a \in run.assets |-> mtm[a]]
           K == Min({Capacity, Cardinality(DOMAIN p)})
           F == [s \in Slots |-> Value(mgr.positions[s], p)]
           e == mgr.cash + SumTo(F, K)
<1>1. /\ run.phase = "bars" /\ run' = [run EXCEPT !.phase = "dates"] /\ client' = client
      /\ mgr' = RecordEquity(MarkToMarket(mgr, p)) /\ notified' = notified
      /\ prev' = prev /\ mtm' = mtm /\ processed' = processed /\ prevTrades' = prevTrades
  BY DEF EndDate
<1>2. client = "runner"
  BY <1>1, NoRunType DEF MInv
<1>3. mgr' = RecordEquity([mgr EXCEPT !.equity = e])
  BY <1>1 DEF MarkToMarket
<1>4. /\ Good(mgr) /\ mgr \in Managers /\ Seats(mgr) /\ mgr.cash \in Int /\ run \in Runs
      /\ run.assets \in SUBSET Assets /\ mtm \in [Assets -> Int]
  BY ManagerFacts DEF MInv, Good, Closes, Runs
<1>5. /\ NumAssets \in Nat /\ Capacity \in Nat /\ Slots = 1..Capacity /\ Assets = 1..NumAssets
  BY Params
<1>6. /\ IsFiniteSet(Assets) /\ Cardinality(Assets) = NumAssets
      /\ Cardinality(run.assets) \in Nat /\ Cardinality(run.assets) <= NumAssets
  <2>1. 1 \in Int /\ NumAssets \in Int
    BY <1>5
  <2>2. /\ IsFiniteSet(1..NumAssets)
        /\ Cardinality(1..NumAssets) = IF 1 > NumAssets THEN 0 ELSE NumAssets - 1 + 1
    BY <2>1, FS_Interval, Zenon
  <2>3. IsFiniteSet(Assets) /\ Cardinality(Assets) = NumAssets
    BY <1>5, <2>2
  <2>4. IsFiniteSet(run.assets) /\ Cardinality(run.assets) <= NumAssets
    BY <1>4, <2>3, FS_Subset
  <2> QED
    BY <2>3, <2>4, FS_CardinalityType
<1>7. K \in Nat /\ K <= Capacity /\ (run.assets = Assets => K = Capacity \/ K = NumAssets)
  <2>1. DOMAIN p = run.assets
    OBVIOUS
  <2>2. K = IF Capacity <= Cardinality(run.assets) THEN Capacity ELSE Cardinality(run.assets)
    BY <1>5, <1>6, <2>1, MinOfTwo
  <2> HIDE DEF K
  <2> QED
    BY <1>5, <1>6, <2>2
<1>8. \A a \in DOMAIN p : p[a] \in Int
  BY <1>4
<1> HIDE DEF K
<1>9. e \in Int
  <2>1. \A s \in 1..K : F[s] \in Int
    <3> SUFFICES ASSUME NEW s \in 1..K
                 PROVE  Value(mgr.positions[s], p) \in Int
      BY <1>5, <1>7
    <3>1. s \in Slots
      BY <1>5, <1>7
    <3> HIDE DEF p
    <3> QED
      BY <1>4, <1>8, <3>1, ValueType
  <2> HIDE DEF F
  <2>2. SumTo(F, K) \in Int
    BY <1>7, <2>1, SumInt
  <2> QED
    BY <1>4, <2>2
<1> HIDE DEF e
<1>10. /\ Good(mgr') /\ mgr'.trades = mgr.trades /\ mgr'.equity = e /\ mgr'.cash = mgr.cash
       /\ mgr'.positions = mgr.positions
  BY <1>3, <1>4, <1>9, MarkKeeps
<1>11. /\ run' \in Runs /\ run'.assets = run.assets
  BY <1>1, <1>4 DEF Runs
<1>12. FillsNotified'
  BY <1>1, <1>10 DEF MInv, FillsNotified
<1>13. EquityExact'
  <2> SUFFICES ASSUME run.assets = Assets
               PROVE  mgr'.equity = mgr'.cash + SumTo([a \in Assets |-> mtm'[a] * Position(mgr', a)], NumAssets)
    BY <1>11 DEF EquityExact
  <2>1. p = mtm
    BY <1>4
  <2>2. \A a \in Assets : Position(mgr', a) = Position(mgr, a)
    BY <1>10 DEF Position, SlotOf
  <2>3. SumTo([s \in Slots |-> Value(mgr.positions[s], mtm)], K) =
          SumTo([a \in Assets |-> mtm[a] * Position(mgr, a)], NumAssets)
    BY <1>4, <1>7, ValueIs
  <2>4. [a \in Assets |-> mtm'[a] * Position(mgr', a)] = [a \in Assets |-> mtm[a] * Position(mgr, a)]
    BY <1>1, <2>2
  <2>5. e = mgr.cash + SumTo([s \in Slots |-> Value(mgr.positions[s], mtm)], K)
    BY <2>1 DEF e
  <2> HIDE DEF p, F
  <2> QED
    BY <1>10, <2>3, <2>4, <2>5
<1> QED
  BY <1>1, <1>2, <1>10, <1>11, <1>12, <1>13 DEF MInv, Closes

LEMMA MFinishRun ==
  ASSUME MInv, FinishRun
  PROVE  MInv'
<1> DEFINE end == CloseAll(mgr, notified, {a \in run.assets : mtm[a] > 0})
<1>1. /\ run.phase = "dates" /\ run' = NoRun /\ client' = client
      /\ mgr' = end.mgr /\ notified' = end.told
      /\ prev' = prev /\ mtm' = mtm /\ processed' = processed
  BY DEF FinishRun
<1>2. client = "runner"
  BY <1>1, NoRunType DEF MInv
<1>3. Told(end)
  BY <1>2, CloseAllTells DEF MInv, Closes, FillsNotified
<1> HIDE DEF end
<1>4. Good(mgr') /\ FillsNotified'
  BY <1>1, <1>3 DEF Told, FillsNotified
<1>5. EquityExact'
  BY <1>1, NoRunType DEF EquityExact
<1> QED
  BY <1>1, <1>2, <1>4, <1>5, NoRunType DEF MInv, Closes

LEMMA MReset ==
  ASSUME MInv, Reset
  PROVE  MInv'
<1>1. /\ client = "runner" /\ client' = client /\ mgr' = ResetManager(mgr) /\ notified' = <<>>
      /\ run.phase = "idle" /\ run' = run /\ prev' = prev /\ mtm' = mtm /\ processed' = processed
  BY DEF Reset
<1>2. Good(mgr') /\ mgr'.trades = 0
  <2> DEFINE r == mgr.rules
             x == mgr.executor
             l == mgr.live
  <2>1. r \in Markets /\ x \in BOOLEAN /\ l \in SUBSET LiveOrders
    BY DEF MInv, Good, Managers
  <2>2. mgr' = [NewManager(r, x) EXCEPT !.live = l]
    BY <1>1 DEF ResetManager
  <2> HIDE DEF r, x, l
  <2>3. Good([NewManager(r, x) EXCEPT !.live = l]) /\ [NewManager(r, x) EXCEPT !.live = l].trades = 0
    BY <2>1, NewManagerGood
  <2> QED
    BY <2>2, <2>3
<1>3. FillsNotified'
  BY <1>1, <1>2, FromNone DEF FillsNotified
<1>4. EquityExact'
  BY <1>1 DEF EquityExact
<1> QED
  BY <1>1, <1>2, <1>3, <1>4 DEF MInv, Closes

(* A host has no run in progress.                                          *)
LEMMA MDirect ==
  ASSUME MInv, NEW m, Good(m), Direct(m), prev' \in [Assets -> Int]
  PROVE  MInv'
<1>1. /\ client # "runner" /\ client' = client /\ mgr' = m /\ run' = run /\ mtm' = mtm
      /\ processed' = processed /\ notified' = notified
  BY DEF Direct
<1>2. run = NoRun
  BY <1>1 DEF MInv
<1>3. FillsNotified' /\ EquityExact'
  BY <1>1, <1>2, NoRunType DEF FillsNotified, EquityExact
<1> QED
  BY <1>1, <1>2, <1>3, NoRunType DEF MInv, Closes

LEMMA PriceType == \A price \in Prices : price \in Int /\ price + 1 \in Int
<1>1. \A bar \in Bars : bar.close \in Int
  BY BarFacts
<1> QED
  BY <1>1 DEF Prices

LEMMA MHostStep ==
  ASSUME MInv, HostStep
  PROVE  MInv'
<1>1. Good(mgr) /\ prev \in [Assets -> Int] /\ mgr.pending \in SUBSET OrderRecords
  BY BookFacts DEF MInv, Closes
<1>2. ASSUME NEW a \in HostAssets, NEW bar \in Bars, HostBar(a, bar)
      PROVE  MInv'
  <2>1. a \in Assets /\ prev[a] \in Int
    BY <1>1, HostAssetsAssumption
  <2> DEFINE c == prev[a]
             m == CheckTriggers(BeginBar(mgr), a, bar, c)
  <2>2. Direct(m) /\ prev' = [prev EXCEPT ![a] = bar.close]
    BY <1>2 DEF HostBar
  <2>3. c \in Int
    BY <2>1
  <2> HIDE DEF c
  <2>4. Good(m)
    BY <1>1, <2>1, <2>3, BarFacts, BeginBarKeeps, CheckTriggersKeeps
  <2> HIDE DEF m
  <2>5. prev' \in [Assets -> Int]
    BY <1>1, <2>2, BarFacts
  <2> QED
    BY <2>2, <2>4, <2>5, MDirect
<1>3. ASSUME NEW a \in HostAssets, NEW o \in Orders, NEW accepted \in BOOLEAN, HostOrder(a, o, accepted)
      PROVE  MInv'
  <2> DEFINE type == o.type
             d == o.direction
             size == o.size
             price == o.price
             valid == o.barsValid
             c == prev[a]
             m == IF type = "MARKET" THEN Market(mgr, a, d, size, price, c, 0, 0, accepted)
                  ELSE Queue(mgr, a, type, d, size, price, 0, 0, valid, accepted)
  <2>1. /\ a \in Assets /\ c \in Int /\ type \in OrderTypes /\ d \in {1, -1} /\ size \in Fraction
        /\ price \in Price /\ valid \in Int /\ 0 \in Int
    BY <1>1, HostAssetsAssumption, OrdersAssumption DEF OrderTypes
  <2>2. Direct(m) /\ prev' = prev
    BY <1>3 DEF HostOrder
  <2> HIDE DEF type, d, size, price, valid, c
  <2>3. Good(Market(mgr, a, d, size, price, c, 0, 0, accepted))
    BY <1>1, <2>1, MarketKeeps
  <2>4. Good(Queue(mgr, a, type, d, size, price, 0, 0, valid, accepted))
    BY <1>1, <2>1, QueueKeeps
  <2>5. Good(m)
    BY <2>3, <2>4
  <2> HIDE DEF m
  <2> QED
    BY <1>1, <2>2, <2>5, MDirect
<1>4. ASSUME NEW a \in HostAssets, NEW price \in Prices, HostClose(a, price)
      PROVE  MInv'
  <2>1. Direct(Close(mgr, a, price, TRUE)) /\ prev' = prev
    BY <1>4 DEF HostClose
  <2>2. Good(Close(mgr, a, price, TRUE))
    BY <1>1, CloseKeeps, PriceType, HostAssetsAssumption
  <2> QED
    BY <1>1, <2>1, <2>2, MDirect
<1>5. ASSUME NEW a \in HostAssets, NEW price \in Prices, NEW trailing \in {1, 4},
             HostStops(a, price, price + 1, trailing)
      PROVE  MInv'
  <2> DEFINE m == SetTrailingStop(SetSlTp(mgr, a, price, price + 1), a, trailing)
  <2>1. Direct(m) /\ prev' = prev
    BY <1>5 DEF HostStops
  <2>2. Good(SetSlTp(mgr, a, price, price + 1))
    BY <1>1, SetSlTpKeeps, PriceType
  <2>3. Good(m)
    BY <2>2, SetTrailingStopKeeps
  <2> HIDE DEF m
  <2> QED
    BY <1>1, <2>1, <2>3, MDirect
<1>6. ASSUME NEW o \in mgr.pending, NEW p \in mgr.pending, HostLink(o, p)
      PROVE  MInv'
  <2>1. Direct(LinkOco(mgr, o.id, p.id)) /\ prev' = prev
    BY <1>6 DEF HostLink
  <2>2. Good(LinkOco(mgr, o.id, p.id))
    BY <1>1, LinkOcoKeeps
  <2> QED
    BY <1>1, <2>1, <2>2, MDirect
<1>7. ASSUME NEW o \in mgr.pending, NEW late \in BOOLEAN, HostCancel(o, late)
      PROVE  MInv'
  <2> DEFINE orders == {q \in mgr.pending : q.id = o.id}
  <2>1. Direct(Cancel(mgr, orders, late)) /\ prev' = prev /\ orders \subseteq mgr.pending
    BY <1>7 DEF HostCancel, CancelOrder
  <2> HIDE DEF orders
  <2>2. Good(Cancel(mgr, orders, late))
    BY <1>1, <2>1, CancelKeeps
  <2> QED
    BY <1>1, <2>1, <2>2, MDirect
<1>8. ASSUME NEW a \in HostAssets, NEW late \in BOOLEAN, HostCancelAll(a, late)
      PROVE  MInv'
  <2> DEFINE orders == {q \in mgr.pending : q.asset = a}
  <2>1. Direct(Cancel(mgr, orders, late)) /\ prev' = prev /\ orders \subseteq mgr.pending
    BY <1>8 DEF HostCancelAll, CancelPending
  <2> HIDE DEF orders
  <2>2. Good(Cancel(mgr, orders, late))
    BY <1>1, <2>1, CancelKeeps
  <2> QED
    BY <1>1, <2>1, <2>2, MDirect
<1>9. ASSUME NEW l \in mgr.live, NEW price \in Prices, ExchangeFills(l, price)
      PROVE  MInv'
  <2>1. Direct(ReportFill(mgr, l, price)) /\ prev' = prev
    BY <1>9 DEF ExchangeFills
  <2>2. Good(ReportFill(mgr, l, price))
    BY <1>1, ReportFillKeeps, PriceType
  <2> QED
    BY <1>1, <2>1, <2>2, MDirect
<1> QED
  BY <1>2, <1>3, <1>4, <1>5, <1>6, <1>7, <1>8, <1>9 DEF HostStep

LEMMA MNext == MInv /\ [Next]_vars => MInv'
<1> SUFFICES ASSUME MInv, [Next]_vars
             PROVE  MInv'
  OBVIOUS
<1>1. CASE UNCHANGED vars
  BY <1>1 DEF vars, MInv, Closes, FillsNotified, EquityExact
<1>2. ASSUME NEW a \in Assets, RunSingle(a)
      PROVE  MInv'
  BY <1>2, MRunSingle
<1>3. CASE RunUniverse
  BY <1>3, MRunUniverse
<1>4. CASE NextDate
  BY <1>4, MNextDate
<1>5. ASSUME NEW a \in Assets, NEW bar \in Bars, NEW sig \in Signals, OnBar(a, bar, sig)
      PROVE  MInv'
  BY <1>5, MOnBar
<1>6. CASE EndDate
  BY <1>6, MEndDate
<1>7. CASE FinishRun
  BY <1>7, MFinishRun
<1>8. CASE Reset
  BY <1>8, MReset
<1>9. CASE HostStep
  BY <1>9, MHostStep
<1> QED
  BY <1>1, <1>2, <1>3, <1>4, <1>5, <1>6, <1>7, <1>8, <1>9 DEF Next

LEMMA MAlways == Spec => []MInv
BY MInit, MNext, PTL DEF Spec

-----------------------------------------------------------------------------
(* Every cent is accounted for, in exact arithmetic, whatever bars come,   *)
(* whatever the scripts signal and whoever drives the manager: after any   *)
(* number of partial closes, stops and fills, cash plus the cost of the    *)
(* open positions is the initial cash, less the commissions on buys, plus  *)
(* the profit of the trade log.                                            *)
THEOREM BooksBalance == Spec => []CashReconciles
<1>1. MInv => CashReconciles
  BY BalancedReconciles DEF MInv, CashReconciles
<1> QED
  BY <1>1, MAlways, PTL

(* check_triggers fills no pending order on a later bar than it was valid  *)
(* for, and at most one of the orders order_manager_link_oco has linked.   *)
THEOREM FillsInTimeAndOnce == Spec => []FillsAllowed
<1>1. MInv => FillsAllowed
  BY BookFacts DEF MInv, FillsAllowed
<1> QED
  BY <1>1, MAlways, PTL

(* With an executor every order the manager takes for pending is at the    *)
(* exchange, whatever was cancelled, refused or filled too late.           *)
THEOREM PendingAtExchange == Spec => []ExchangeKnowsPending
<1>1. MInv => ExchangeKnowsPending
  BY BookFacts DEF MInv, ExchangeKnowsPending
<1> QED
  BY <1>1, MAlways, PTL

(* on_fill has been called once for each trade of the log, in its order:   *)
(* the trade log only grows, prev_num_trades is its length whenever a run  *)
(* is between two bars, and a close at the end of a run adds at most the   *)
(* one trade that order_manager_close returns.                             *)
THEOREM EveryTradeNotified == Spec => []FillsNotified
<1>1. MInv => FillsNotified
  BY DEF MInv
<1> QED
  BY <1>1, MAlways, PTL

(* After each date of a universe run the equity is cash plus every open    *)
(* position at its last close, although order_manager_mark_to_market looks *)
(* at no more slots than there are prices: no slot beyond them is taken.   *)
THEOREM EquityCountsAll == Spec => []EquityExact
<1>1. MInv => EquityExact
  BY DEF MInv
<1> QED
  BY <1>1, MAlways, PTL
=============================================================================
