---------------------------- MODULE ImportsProofs ----------------------------
(***************************************************************************)
(* What Imports guarantees for any set of files and plugins and any number *)
(* of scopes, imports and runs: the structs that modules exchange are      *)
(* always in place, exports belong to their file and run in its scope, a   *)
(* file is run once unless it imports itself, the chains through the       *)
(* scopes stay whole, and no scope is freed that a function value of its   *)
(* own still names.                                                        *)
(***************************************************************************)
EXTENDS Imports, SequenceTheorems, FiniteSetTheorems, WellFoundedInduction, TLAPS

Places == Addrs \cup {None}
Values == [at : Places, home : Places]
Exporting == [file : Files \cup {None}, exports : Values, has : BOOLEAN,
              by : Files \cup {None}, own : BOOLEAN]
Frames == [file : Files, isolated : BOOLEAN, addr : Addrs, parent : Addrs, prev : Exporting]
Records == [file : Files, isolated : BOOLEAN, exports : Values, has : BOOLEAN,
            by : Files \cup {None}, own : BOOLEAN, scope : Addrs]

(* A struct of exprtk_env_t.  Where its list and its parents go on is the  *)
(* subject of Linked, below.                                               *)
IsScope(s) ==
  /\ s = [live |-> s.live, id |-> s.id, parent |-> s.parent, next |-> s.next, ref |-> s.ref,
          fn |-> s.fn, v |-> s.v, modules |-> s.modules, natives |-> s.natives]
  /\ s.fn \in Values /\ s.v \in Values

(* A memory of scopes whose native functions belong to the plugins L.      *)
IsMem(m, L) ==
  /\ m = [a \in Addrs |-> m[a]]
  /\ \A a \in Addrs : IsScope(m[a]) /\ m[a].natives \subseteq L /\ m[a].id \in Addrs

SameIds(m, n) == \A a \in Addrs : n[a].id = m[a].id

Typed ==
  /\ IsMem(mem, loaded)
  /\ cur \in Exporting
  /\ stack \in Seq(Frames)
  /\ imports \in Seq(Records)
  /\ made \in 0..MaxScopes

-----------------------------------------------------------------------------
(* The operations on the memory.                                           *)

LEMMA Bounds ==
  /\ MaxScopes \in Nat /\ Ctx \in Addrs /\ None \notin Addrs /\ Ctx # None
  /\ Addrs = 0..MaxScopes
<1>1. MaxScopes \in Nat
  BY BoundsAssumption
<1> QED
  BY <1>1 DEF Addrs, Ctx, None

LEMMA NumberType == Number \in Values /\ Number.at = None
BY DEF Number, Value, Values, Places

LEMMA ValueType ==
  ASSUME NEW a \in Places, NEW h \in Places
  PROVE  Value(a, h) \in Values /\ Value(a, h).at = a
BY DEF Value, Values

LEMMA Put ==
  ASSUME NEW L, NEW m, IsMem(m, L), NEW a \in Addrs, NEW s, IsScope(s),
         s.natives \subseteq L, s.id \in Addrs
  PROVE  /\ IsMem([m EXCEPT ![a] = s], L)
         /\ [m EXCEPT ![a] = s][a] = s
         /\ \A b \in Addrs \ {a} : [m EXCEPT ![a] = s][b] = m[b]
BY DEF IsMem

LEMMA SetRef ==
  ASSUME NEW s, IsScope(s), NEW r
  PROVE  /\ IsScope([s EXCEPT !.ref = r])
         /\ [s EXCEPT !.ref = r].id = s.id /\ [s EXCEPT !.ref = r].natives = s.natives
BY DEF IsScope

LEMMA SetV ==
  ASSUME NEW s, IsScope(s), NEW x \in Values
  PROVE  /\ IsScope([s EXCEPT !.v = x])
         /\ [s EXCEPT !.v = x].id = s.id /\ [s EXCEPT !.v = x].natives = s.natives
BY DEF IsScope

LEMMA SetNext ==
  ASSUME NEW s, IsScope(s), NEW x
  PROVE  /\ IsScope([s EXCEPT !.next = x])
         /\ [s EXCEPT !.next = x].id = s.id /\ [s EXCEPT !.next = x].natives = s.natives
BY DEF IsScope

LEMMA SetParent ==
  ASSUME NEW s, IsScope(s), NEW x
  PROVE  /\ IsScope([s EXCEPT !.parent = x])
         /\ [s EXCEPT !.parent = x].id = s.id /\ [s EXCEPT !.parent = x].natives = s.natives
BY DEF IsScope

LEMMA SetFn ==
  ASSUME NEW s, IsScope(s), NEW x \in Values
  PROVE  /\ IsScope([s EXCEPT !.fn = x])
         /\ [s EXCEPT !.fn = x].id = s.id /\ [s EXCEPT !.fn = x].natives = s.natives
BY DEF IsScope

LEMMA RetainMem ==
  ASSUME NEW L, NEW m, IsMem(m, L), NEW a \in Places
  PROVE  IsMem(Retain(m, a), L) /\ SameIds(m, Retain(m, a))
<1>1. CASE a # None /\ m[a].ref > 0
  <2>1. a \in Addrs
    BY <1>1 DEF Places
  <2> DEFINE s == [m[a] EXCEPT !.ref = @ + 1]
  <2>2. IsScope(s) /\ s.id = m[a].id /\ s.natives = m[a].natives
    BY <2>1, SetRef DEF IsMem
  <2>3. Retain(m, a) = [m EXCEPT ![a] = s]
    BY <1>1 DEF Retain
  <2> HIDE DEF s
  <2>4. s.natives \subseteq L /\ s.id \in Addrs
    BY <2>1, <2>2 DEF IsMem
  <2>5. /\ IsMem([m EXCEPT ![a] = s], L) /\ [m EXCEPT ![a] = s][a] = s
        /\ \A b \in Addrs \ {a} : [m EXCEPT ![a] = s][b] = m[b]
    BY <2>1, <2>2, <2>4, Put
  <2>6. SameIds(m, [m EXCEPT ![a] = s])
    BY <2>2, <2>5 DEF SameIds
  <2> QED
    BY <2>3, <2>5, <2>6
<1>2. CASE ~(a # None /\ m[a].ref > 0)
  BY <1>2 DEF Retain, SameIds
<1> QED
  BY <1>1, <1>2

LEMMA CloneMem ==
  ASSUME NEW L, NEW m, IsMem(m, L), NEW x \in Values
  PROVE  IsMem(Clone(m, x), L) /\ SameIds(m, Clone(m, x))
<1>1. x.at \in Places
  BY DEF Values
<1>2. IsMem(Retain(m, x.at), L) /\ SameIds(m, Retain(m, x.at))
  BY <1>1, RetainMem
<1>3. /\ IsMem(Retain(Retain(m, x.at), x.at), L)
      /\ SameIds(Retain(m, x.at), Retain(Retain(m, x.at), x.at))
  BY <1>1, <1>2, RetainMem
<1> QED
  BY <1>2, <1>3 DEF Clone, SameIds

LEMMA ReleaseMem ==
  ASSUME NEW L, NEW m, IsMem(m, L), NEW a \in Places
  PROVE  IsMem(Release(m, a), L) /\ SameIds(m, Release(m, a))
<1>1. CASE a # None /\ m[a].ref > 0
  <2>1. a \in Addrs
    BY <1>1 DEF Places
  <2> DEFINE s == [m[a] EXCEPT !.ref = @ - 1]
  <2>2. IsScope(s) /\ s.id = m[a].id /\ s.natives = m[a].natives
    BY <2>1, SetRef DEF IsMem
  <2>3. Release(m, a) = [m EXCEPT ![a] = s]
    BY <1>1 DEF Release
  <2> HIDE DEF s
  <2>4. s.natives \subseteq L /\ s.id \in Addrs
    BY <2>1, <2>2 DEF IsMem
  <2>5. /\ IsMem([m EXCEPT ![a] = s], L) /\ [m EXCEPT ![a] = s][a] = s
        /\ \A b \in Addrs \ {a} : [m EXCEPT ![a] = s][b] = m[b]
    BY <2>1, <2>2, <2>4, Put
  <2>6. SameIds(m, [m EXCEPT ![a] = s])
    BY <2>2, <2>5 DEF SameIds
  <2> QED
    BY <2>3, <2>5, <2>6
<1>2. CASE ~(a # None /\ m[a].ref > 0)
  BY <1>2 DEF Release, SameIds
<1> QED
  BY <1>1, <1>2

LEMMA AssignMem ==
  ASSUME NEW L, NEW m, IsMem(m, L), NEW x \in Values
  PROVE  IsMem(Assign(m, x), L) /\ SameIds(m, Assign(m, x))
<1>1. x.at \in Places /\ m[Ctx].v.at \in Places
  BY Bounds DEF IsMem, IsScope, Values
<1> DEFINE r == Release(Retain(m, x.at), m[Ctx].v.at)
<1>2. IsMem(r, L) /\ SameIds(m, r)
  <2>1. IsMem(Retain(m, x.at), L) /\ SameIds(m, Retain(m, x.at))
    BY <1>1, RetainMem
  <2> QED
    BY <1>1, <2>1, ReleaseMem DEF SameIds
<1> DEFINE s == [r[Ctx] EXCEPT !.v = x]
<1>3. Assign(m, x) = [r EXCEPT ![Ctx] = s]
  BY DEF Assign
<1> HIDE DEF r
<1>4. IsScope(s) /\ s.id = r[Ctx].id /\ s.natives = r[Ctx].natives
  BY <1>2, Bounds, SetV DEF IsMem
<1> HIDE DEF s
<1>5. s.natives \subseteq L /\ s.id \in Addrs
  BY <1>2, <1>4, Bounds DEF IsMem
<1>6. /\ IsMem([r EXCEPT ![Ctx] = s], L) /\ [r EXCEPT ![Ctx] = s][Ctx] = s
      /\ \A b \in Addrs \ {Ctx} : [r EXCEPT ![Ctx] = s][b] = r[b]
  BY <1>2, <1>4, <1>5, Bounds, Put
<1>7. SameIds(m, [r EXCEPT ![Ctx] = s])
  BY <1>2, <1>4, <1>6 DEF SameIds
<1> QED
  BY <1>3, <1>6, <1>7

LEMMA SnapshotMem ==
  ASSUME NEW L, NEW m, IsMem(m, L), NEW n \in Addrs, NEW x \in Values
  PROVE  /\ IsMem(Snapshot(m, n, x), L)
         /\ Snapshot(m, n, x)[n].id = n
         /\ \A a \in Addrs \ {n} : Snapshot(m, n, x)[a].id = m[a].id
<1> DEFINE root == Root(m)
<1> DEFINE r == Retain(m, x.at)
<1> DEFINE s == [NewScope(n) EXCEPT !.v = x, !.next = m[root].next, !.ref = 1]
<1> DEFINE p == [r EXCEPT ![n] = s]
<1>1. Snapshot(m, n, x) = [p EXCEPT ![root] = [p[root] EXCEPT !.next = n]]
  BY DEF Snapshot
<1>2. x.at \in Places
  BY DEF Values
<1>3. IsMem(r, L) /\ SameIds(m, r)
  BY <1>2, RetainMem
<1>4. IsScope(s) /\ s.id = n /\ s.natives = {}
  <2>1. IsScope(NewScope(n)) /\ NewScope(n).id = n /\ NewScope(n).natives = {}
    BY NumberType DEF NewScope, IsScope
  <2> DEFINE W(y) == [NewScope(n) EXCEPT !.v = x, !.next = y, !.ref = 1]
  <2>2. ASSUME NEW y PROVE IsScope(W(y)) /\ W(y).id = n /\ W(y).natives = {}
    <3> DEFINE e == [NewScope(n) EXCEPT !.v = x]
    <3> DEFINE f == [e EXCEPT !.next = y]
    <3>1. IsScope(e) /\ e.id = n /\ e.natives = {}
      BY <2>1, SetV
    <3>2. W(y) = [f EXCEPT !.ref = 1]
      OBVIOUS
    <3> HIDE DEF e, W
    <3>3. IsScope(f) /\ f.id = n /\ f.natives = {}
      BY <3>1, SetNext
    <3> HIDE DEF f
    <3> QED
      BY <3>2, <3>3, SetRef
  <2>3. s = W(m[root].next)
    OBVIOUS
  <2> HIDE DEF W, s
  <2> QED
    BY <2>2, <2>3
<1> HIDE DEF s, r, root
<1>5. IsMem(p, L) /\ p[n] = s /\ \A a \in Addrs \ {n} : p[a] = r[a]
  BY <1>3, <1>4, Put
<1> HIDE DEF p
<1>6. CASE root \in Addrs
  <2> DEFINE q == [p[root] EXCEPT !.next = n]
  <2>1. IsScope(q) /\ q.id = p[root].id /\ q.natives = p[root].natives
    BY <1>5, <1>6, SetNext DEF IsMem
  <2> HIDE DEF q
  <2>2. q.natives \subseteq L /\ q.id \in Addrs
    BY <1>5, <1>6, <2>1 DEF IsMem
  <2>3. IsMem([p EXCEPT ![root] = q], L) /\ SameIds(p, [p EXCEPT ![root] = q])
    BY <1>5, <1>6, <2>1, <2>2, Put DEF SameIds
  <2>4. Snapshot(m, n, x) = [p EXCEPT ![root] = q]
    BY <1>1 DEF q
  <2> QED
    BY <1>3, <1>4, <1>5, <2>3, <2>4 DEF SameIds
<1>7. CASE root \notin Addrs
  <2>1. Snapshot(m, n, x) = p
    BY <1>1, <1>5, <1>7 DEF IsMem
  <2> QED
    BY <1>3, <1>4, <1>5, <2>1 DEF SameIds
<1> QED
  BY <1>6, <1>7

LEMMA ExchangeMem ==
  ASSUME NEW L, NEW m, IsMem(m, L), NEW n \in Addrs
  PROVE  /\ IsMem(Exchange(m, n), L)
         /\ Exchange(m, n)[Ctx].id = m[n].id /\ Exchange(m, n)[n].id = m[Ctx].id
         /\ \A a \in Addrs \ {Ctx, n} : Exchange(m, n)[a].id = m[a].id
<1> DEFINE p == [m EXCEPT ![Ctx] = m[n]]
<1> DEFINE q == [p EXCEPT ![n] = m[Ctx]]
<1>0. IsScope(m[n]) /\ IsScope(m[Ctx])
  BY Bounds DEF IsMem
<1>1. m[n].natives \subseteq L /\ m[n].id \in Addrs /\ m[Ctx].natives \subseteq L /\ m[Ctx].id \in Addrs
  BY Bounds DEF IsMem
<1>2. IsMem(p, L) /\ p[Ctx] = m[n] /\ \A b \in Addrs \ {Ctx} : p[b] = m[b]
  BY <1>0, <1>1, Bounds, Put
<1>3. Exchange(m, n) = q
  BY DEF Exchange
<1> HIDE DEF p
<1>4. IsMem(q, L) /\ q[n] = m[Ctx] /\ \A b \in Addrs \ {n} : q[b] = p[b]
  BY <1>0, <1>1, <1>2, Put
<1> HIDE DEF q
<1>5. q[Ctx] = m[n]
  BY <1>2, <1>4, Bounds
<1> QED
  BY <1>2, <1>3, <1>4, <1>5

LEMMA ModuleScopeMem ==
  ASSUME NEW L, NEW m, IsMem(m, L), NEW n \in Addrs
  PROVE  /\ IsMem(ModuleScope(m, n), L)
         /\ ModuleScope(m, n)[n].id = n
         /\ \A a \in Addrs \ {n} : ModuleScope(m, n)[a].id = m[a].id
<1> DEFINE p == Snapshot(m, n, m[Ctx].v)
<1> DEFINE s == [p[n] EXCEPT !.parent = Ctx]
<1>1. m[Ctx].v \in Values
  BY Bounds DEF IsMem, IsScope
<1>2. IsMem(p, L) /\ p[n].id = n /\ \A a \in Addrs \ {n} : p[a].id = m[a].id
  BY <1>1, SnapshotMem
<1>3. ModuleScope(m, n) = [p EXCEPT ![n] = s]
  BY DEF ModuleScope
<1> HIDE DEF p
<1>4. IsScope(s) /\ s.id = n /\ s.natives = p[n].natives
  BY <1>2, SetParent DEF IsMem
<1> HIDE DEF s
<1>5. s.natives \subseteq L
  BY <1>2, <1>4 DEF IsMem
<1>6. /\ IsMem([p EXCEPT ![n] = s], L) /\ [p EXCEPT ![n] = s][n] = s
      /\ \A b \in Addrs \ {n} : [p EXCEPT ![n] = s][b] = p[b]
  BY <1>2, <1>4, <1>5, Put
<1> QED
  BY <1>2, <1>3, <1>4, <1>6

(* The memory in which a module begins.                                    *)
Entered(m, n) == [Exchange(ModuleScope(m, n), n) EXCEPT ![Ctx].parent = n]

LEMMA EnterMem ==
  ASSUME NEW L, NEW m, IsMem(m, L), NEW n \in Addrs, n # Ctx
  PROVE  /\ IsMem(Entered(m, n), L) /\ Entered(m, n)[Ctx].id = n
         /\ Entered(m, n)[n].id = m[Ctx].id
         /\ \A a \in Addrs \ {Ctx, n} : Entered(m, n)[a].id = m[a].id
<1> DEFINE p == ModuleScope(m, n)
<1> DEFINE q == Exchange(p, n)
<1> DEFINE s == [q[Ctx] EXCEPT !.parent = n]
<1> DEFINE e == Entered(m, n)
<1>0. e = [q EXCEPT ![Ctx] = s]
  BY DEF Entered
<1>1. IsMem(p, L) /\ p[n].id = n /\ \A a \in Addrs \ {n} : p[a].id = m[a].id
  BY ModuleScopeMem
<1> HIDE DEF p
<1>2. /\ IsMem(q, L) /\ q[Ctx].id = p[n].id /\ q[n].id = p[Ctx].id
      /\ \A a \in Addrs \ {Ctx, n} : q[a].id = p[a].id
  BY <1>1, ExchangeMem
<1> HIDE DEF q
<1>3. IsScope(s) /\ s.id = q[Ctx].id /\ s.natives = q[Ctx].natives
  BY <1>2, Bounds, SetParent DEF IsMem
<1> HIDE DEF s
<1>4. s.natives \subseteq L /\ s.id \in Addrs
  BY <1>2, <1>3, Bounds DEF IsMem
<1>5. /\ IsMem([q EXCEPT ![Ctx] = s], L) /\ [q EXCEPT ![Ctx] = s][Ctx] = s
      /\ \A b \in Addrs \ {Ctx} : [q EXCEPT ![Ctx] = s][b] = q[b]
  BY <1>2, <1>3, <1>4, Bounds, Put
<1> HIDE DEF e
<1>6. /\ IsMem(e, L) /\ e[Ctx].id = n /\ e[n].id = m[Ctx].id
      /\ \A a \in Addrs \ {Ctx, n} : e[a].id = m[a].id
  BY <1>0, <1>1, <1>2, <1>3, <1>5, Bounds
<1> QED
  BY <1>6 DEF e

LEMMA LeaveMem ==
  ASSUME NEW L, NEW m, IsMem(m, L), NEW frame \in Frames
  PROVE  /\ IsMem(LeaveModule(m, frame), L)
         /\ LeaveModule(m, frame)[Ctx].id = m[frame.addr].id
         /\ LeaveModule(m, frame)[frame.addr].id = m[Ctx].id
         /\ \A a \in Addrs \ {Ctx, frame.addr} : LeaveModule(m, frame)[a].id = m[a].id
<1> DEFINE x == IF m[Ctx].fn.at = Ctx THEN [m[Ctx].fn EXCEPT !.at = frame.addr] ELSE m[Ctx].fn
<1> DEFINE p == [m[Ctx] EXCEPT !.fn = x]
<1> DEFINE s == [p EXCEPT !.parent = frame.parent]
<1> DEFINE q == [m EXCEPT ![Ctx] = s]
<1>1. frame.addr \in Addrs
  BY DEF Frames
<1>2. m[Ctx].fn \in Values /\ IsScope(m[Ctx]) /\ m[Ctx].natives \subseteq L /\ m[Ctx].id \in Addrs
  BY Bounds DEF IsMem, IsScope
<1>3. x \in Values
  BY <1>1, <1>2 DEF Values, Places
<1>4. [m EXCEPT ![Ctx].fn = IF @.at = Ctx THEN [@ EXCEPT !.at = frame.addr] ELSE @,
                ![Ctx].parent = frame.parent] = q
  BY <1>2, Bounds DEF IsMem
<1>5. LeaveModule(m, frame) = Exchange(q, frame.addr)
  BY <1>4 DEF LeaveModule
<1> HIDE DEF x
<1>6. IsScope(p) /\ p.id = m[Ctx].id /\ p.natives = m[Ctx].natives
  BY <1>2, <1>3, SetFn
<1> HIDE DEF p
<1>7. IsScope(s) /\ s.id = m[Ctx].id /\ s.natives = m[Ctx].natives
  BY <1>6, SetParent
<1> HIDE DEF s
<1>8. IsMem(q, L) /\ q[Ctx] = s /\ \A b \in Addrs \ {Ctx} : q[b] = m[b]
  BY <1>2, <1>7, Bounds, Put
<1> HIDE DEF q
<1>9. \A a \in Addrs : q[a].id = m[a].id
  BY <1>7, <1>8
<1>10. /\ IsMem(Exchange(q, frame.addr), L)
       /\ Exchange(q, frame.addr)[Ctx].id = q[frame.addr].id
       /\ Exchange(q, frame.addr)[frame.addr].id = q[Ctx].id
       /\ \A a \in Addrs \ {Ctx, frame.addr} : Exchange(q, frame.addr)[a].id = q[a].id
  BY <1>1, <1>8, ExchangeMem
<1> QED
  BY <1>1, <1>5, <1>9, <1>10, Bounds

LEMMA RebindMem ==
  ASSUME NEW L, NEW m, IsMem(m, L), NEW x \in Values, NEW n \in Addrs
  PROVE  /\ IsMem(Rebind(m, x, n).mem, L) /\ SameIds(m, Rebind(m, x, n).mem)
         /\ Rebind(m, x, n).exports \in Values
         /\ Rebind(m, x, n).exports.at = IF x.at = Ctx THEN n ELSE x.at
<1> DEFINE y == IF x.at = Ctx THEN [x EXCEPT !.at = n] ELSE x
<1>1. y \in Values /\ y.at = (IF x.at = Ctx THEN n ELSE x.at) /\ y.at \in Places
  BY DEF Values, Places
<1>2. Rebind(m, x, n) = [mem |-> Retain(m, y.at), exports |-> y]
  BY DEF Rebind
<1> HIDE DEF y
<1>3. IsMem(Retain(m, y.at), L) /\ SameIds(m, Retain(m, y.at))
  BY <1>1, RetainMem
<1> QED
  BY <1>1, <1>2, <1>3

LEMMA ResultMem ==
  ASSUME NEW L, NEW m, IsMem(m, L), NEW d, d.exports \in Values, NEW keep
  PROVE  IsMem(Result(m, d, keep), L) /\ SameIds(m, Result(m, d, keep))
<1> DEFINE c == Clone(m, d.exports)
<1>1. IsMem(c, L) /\ SameIds(m, c)
  BY CloneMem
<1>2. Result(m, d, keep) \in {c, Assign(c, d.exports)}
  BY DEF Result
<1> HIDE DEF c
<1>3. IsMem(Assign(c, d.exports), L) /\ SameIds(c, Assign(c, d.exports))
  BY <1>1, AssignMem
<1> QED
  BY <1>1, <1>2, <1>3 DEF SameIds

LEMMA SweepMem ==
  ASSUME NEW L, NEW m, IsMem(m, L)
  PROVE  IsMem(Sweep(m), L) /\ SameIds(m, Sweep(m))
<1>1. Sweep(m) = [a \in Addrs |-> Sweep(m)[a]]
  BY DEF Sweep
<1>2. ASSUME NEW a \in Addrs
      PROVE  \/ Sweep(m)[a] = m[a]
             \/ Sweep(m)[a] = [m[a] EXCEPT !.live = FALSE]
             \/ \E x, r : Sweep(m)[a] = [m[a] EXCEPT !.next = x, !.ref = r]
  BY DEF Sweep
<1>3. ASSUME NEW a \in Addrs
      PROVE  IsScope(Sweep(m)[a]) /\ Sweep(m)[a].natives = m[a].natives /\ Sweep(m)[a].id = m[a].id
  <2>0. IsScope(m[a])
    BY DEF IsMem
  <2>1. CASE Sweep(m)[a] = m[a]
    BY <2>0, <2>1
  <2>2. CASE Sweep(m)[a] = [m[a] EXCEPT !.live = FALSE]
    BY <2>0, <2>2 DEF IsScope
  <2>3. ASSUME NEW x, NEW r, Sweep(m)[a] = [m[a] EXCEPT !.next = x, !.ref = r]
        PROVE  IsScope(Sweep(m)[a]) /\ Sweep(m)[a].natives = m[a].natives /\ Sweep(m)[a].id = m[a].id
    <3> DEFINE s == [m[a] EXCEPT !.next = x]
    <3>1. IsScope(s) /\ s.id = m[a].id /\ s.natives = m[a].natives
      BY <2>0, SetNext
    <3>2. Sweep(m)[a] = [s EXCEPT !.ref = r]
      BY <2>3
    <3> HIDE DEF s
    <3> QED
      BY <3>1, <3>2, SetRef
  <2> QED
    BY <1>2, <2>1, <2>2, <2>3
<1> QED
  BY <1>1, <1>3 DEF IsMem, SameIds

LEMMA GrowMem ==
  ASSUME NEW L, NEW m, IsMem(m, L), NEW M, L \subseteq M
  PROVE  IsMem(m, M)
BY DEF IsMem

LEMMA InitPluginMem ==
  ASSUME NEW L, NEW m, IsMem(m, L), NEW p, NEW how \in {"unloaded", "unbound", "ok"}
  PROVE  /\ IsMem(InitPlugin(m, p, how), IF how = "ok" THEN L \cup {p} ELSE L)
         /\ SameIds(m, InitPlugin(m, p, how))
<1>0. IsScope(m[Ctx]) /\ m[Ctx].natives \subseteq L /\ m[Ctx].id \in Addrs
  BY Bounds DEF IsMem
<1> DEFINE u == [m[Ctx] EXCEPT !.modules = @ \cup {p}]
<1> DEFINE w == [u EXCEPT !.natives = @ \cup {p}]
<1>1. IsScope(u) /\ u.id = m[Ctx].id /\ u.natives = m[Ctx].natives
  BY <1>0 DEF IsScope
<1>2. CASE how = "unloaded"
  BY <1>2 DEF InitPlugin, SameIds
<1>3. CASE how = "unbound"
  <2>1. InitPlugin(m, p, how) = [m EXCEPT ![Ctx] = u]
    BY <1>3 DEF InitPlugin
  <2> HIDE DEF u
  <2>2. /\ IsMem([m EXCEPT ![Ctx] = u], L) /\ [m EXCEPT ![Ctx] = u][Ctx] = u
        /\ \A b \in Addrs \ {Ctx} : [m EXCEPT ![Ctx] = u][b] = m[b]
    BY <1>0, <1>1, Bounds, Put
  <2>3. SameIds(m, [m EXCEPT ![Ctx] = u])
    BY <1>1, <2>2 DEF SameIds
  <2> QED
    BY <1>3, <2>1, <2>2, <2>3
<1>4. CASE how = "ok"
  <2>1. InitPlugin(m, p, how) = [m EXCEPT ![Ctx] = w]
    BY <1>4, Bounds DEF InitPlugin, IsMem
  <2> HIDE DEF u
  <2>2. IsScope(w) /\ w.id = u.id /\ w.natives = u.natives \cup {p}
    BY <1>1 DEF IsScope
  <2> HIDE DEF w
  <2>3. IsMem(m, L \cup {p}) /\ w.natives \subseteq L \cup {p} /\ w.id \in Addrs
    BY <1>0, <1>1, <2>2, GrowMem
  <2>4. /\ IsMem([m EXCEPT ![Ctx] = w], L \cup {p}) /\ [m EXCEPT ![Ctx] = w][Ctx] = w
        /\ \A b \in Addrs \ {Ctx} : [m EXCEPT ![Ctx] = w][b] = m[b]
    BY <2>2, <2>3, Bounds, Put
  <2>5. SameIds(m, [m EXCEPT ![Ctx] = w])
    BY <1>1, <2>2, <2>4 DEF SameIds
  <2> QED
    BY <1>4, <2>1, <2>4, <2>5
<1> QED
  BY <1>2, <1>3, <1>4

-----------------------------------------------------------------------------
(* The inductive invariant.                                                *)

(* Modules that run have addresses of their own, not yet handed out again. *)
OwnAddrs ==
  /\ \A k \in 1..Len(stack) : stack[k].isolated => stack[k].addr # Ctx /\ stack[k].addr <= made
  /\ \A j, k \in 1..Len(stack) :
        (stack[j].isolated /\ stack[k].isolated /\ stack[j].addr = stack[k].addr) => j = k

(* What is exported so far was exported by the file f; a function of the   *)
(* running scope names it by the address of the context.                   *)
Mine(c, f) == (c.has => c.by = f) /\ (c.own => c.exports.at = Ctx)

(* So for the running file, and for those that wait for an import.         *)
ExportsMine ==
  /\ stack # <<>> => Mine(cur, stack[Len(stack)].file)
  /\ \A k \in 1..Len(stack) : k # 1 => Mine(stack[k].prev, stack[k - 1].file)

(* What is run again while it is running is a circle.                      *)
Circles ==
  /\ \A j, k \in 1..Len(stack) :
        (j # k /\ stack[j].file = stack[k].file /\ stack[j].isolated = stack[k].isolated)
        => <<stack[j].file, stack[j].isolated>> \in cyclic
  /\ \A j \in 1..Len(stack), k \in 1..Len(imports) :
        (stack[j].file = imports[k].file /\ stack[j].isolated = imports[k].isolated)
        => <<stack[j].file, stack[j].isolated>> \in cyclic

IInv ==
  Typed /\ OwnAddrs /\ ScopesInPlace /\ ExportsMine /\ ExportsAtHome /\ Circles /\ ImportedOnce

LEMMA Pushed ==
  ASSUME NEW S, NEW s \in Seq(S), NEW f \in S
  PROVE  /\ Append(s, f) \in Seq(S) /\ Len(Append(s, f)) = Len(s) + 1 /\ Len(s) \in Nat
         /\ \A k \in 1..Len(s) : Append(s, f)[k] = s[k]
         /\ Append(s, f)[Len(s) + 1] = f
OBVIOUS

LEMMA Popped ==
  ASSUME NEW S, NEW s \in Seq(S), s # <<>>
  PROVE  /\ Len(s) \in Nat \ {0} /\ Last(s) = s[Len(s)] /\ Last(s) \in S
         /\ Front(s) \in Seq(S) /\ Len(Front(s)) = Len(s) - 1
         /\ \A k \in 1..(Len(s) - 1) : Front(s)[k] = s[k]
<1>1. Len(s) \in Nat /\ Len(s) # 0
  BY EmptySeq
<1>2. Last(s) = s[Len(s)] /\ s[Len(s)] \in S
  BY <1>1 DEF Last
<1>3. PICK n \in Nat : n = Len(s) - 1
  BY <1>1
<1>4. \A k \in 1..n : s[k] \in S
  BY <1>1, <1>3
<1>5. /\ SubSeq(s, 1, n) \in Seq(S)
      /\ Len(SubSeq(s, 1, n)) = IF 1 <= n THEN n - 1 + 1 ELSE 0
      /\ \A k \in 1..(n - 1 + 1) : SubSeq(s, 1, n)[k] = s[1 + k - 1]
  BY <1>4, SubSeqProperties
<1>6. \A k \in 1..n : k \in 1..(n - 1 + 1) /\ 1 + k - 1 = k
  BY <1>3
<1>7. Front(s) = SubSeq(s, 1, n) /\ (IF 1 <= n THEN n - 1 + 1 ELSE 0) = n
  BY <1>3 DEF Front
<1> QED
  BY <1>1, <1>2, <1>3, <1>5, <1>6, <1>7

LEMMA Facts ==
  ASSUME Typed
  PROVE  /\ Len(stack) \in Nat /\ DOMAIN stack = 1..Len(stack)
         /\ Len(imports) \in Nat /\ DOMAIN imports = 1..Len(imports)
         /\ \A k \in 1..Len(stack) : stack[k] \in Frames
         /\ \A k \in 1..Len(imports) : imports[k] \in Records
BY DEF Typed

-----------------------------------------------------------------------------
(* Steps inside a file.                                                    *)

LEMMA Stays ==
  ASSUME IInv, UNCHANGED <<stack, imports, cyclic>>, IsMem(mem', loaded'), SameIds(mem, mem'),
         made' \in 0..MaxScopes, made <= made', cur' \in Exporting,
         stack # <<>> => Mine(cur', stack[Len(stack)].file)
  PROVE  IInv'
<1>1. Typed'
  BY DEF IInv, Typed
<1>2. OwnAddrs'
  <2>1. \A k \in 1..Len(stack) : stack[k].addr \in 0..MaxScopes
    BY Facts, Bounds DEF IInv, Frames
  <2>2. made \in 0..MaxScopes
    BY DEF IInv, Typed
  <2> QED
    BY <2>1, <2>2 DEF IInv, OwnAddrs
<1>3. ScopesInPlace'
  <2>1. \A j, k : Follows(j, k)' <=> Follows(j, k)
    BY DEF Follows, IsModule
  <2>2. \A k \in 0..(Len(stack) + 1) : AddrOf(k)' = AddrOf(k) /\ AddrOf(k) \in Addrs
    <3> SUFFICES ASSUME NEW k \in 0..(Len(stack) + 1)
                 PROVE  AddrOf(k)' = AddrOf(k) /\ AddrOf(k) \in Addrs
      OBVIOUS
    <3>1. k \in {0, Len(stack) + 1} \/ k \in 1..Len(stack)
      BY Facts DEF IInv
    <3>2. k \in 1..Len(stack) => stack[k].addr \in Addrs
      BY Facts DEF IInv, Frames
    <3> QED
      BY <3>1, <3>2, Bounds DEF AddrOf
  <2> QED
    BY <2>1, <2>2 DEF IInv, ScopesInPlace, SameIds
<1>4. ExportsMine' /\ ExportsAtHome' /\ Circles' /\ ImportedOnce'
  BY DEF IInv, ExportsMine, ExportsAtHome, Circles, ImportedOnce
<1> QED
  BY <1>1, <1>2, <1>3, <1>4 DEF IInv

(* The next snapshot has an address that nobody uses.                      *)
LEMMA NextAddr ==
  ASSUME IInv, made < MaxScopes
  PROVE  /\ made + 1 \in Addrs /\ made + 1 # Ctx /\ mem[made + 1].id = made + 1
         /\ made + 1 \in 0..MaxScopes /\ made <= made + 1
         /\ \A k \in 1..Len(stack) : stack[k].isolated => stack[k].addr # made + 1
<1>1. made \in 0..MaxScopes
  BY DEF IInv, Typed
<1>2. made + 1 \in Addrs /\ made + 1 # Ctx /\ made + 1 \in 0..MaxScopes /\ made <= made + 1
  BY <1>1, Bounds DEF Ctx
<1>3. \A k \in 1..Len(stack) : stack[k].addr \in 0..MaxScopes
  BY Facts, Bounds DEF IInv, Frames
<1>4. \A k \in 1..Len(stack) : stack[k].isolated => stack[k].addr # made + 1
  BY <1>1, <1>3 DEF IInv, OwnAddrs
<1>5. mem[made + 1].id = made + 1
  BY <1>2, <1>4, Facts DEF IInv, ScopesInPlace
<1> QED
  BY <1>2, <1>4, <1>5

LEMMA DefineInv ==
  ASSUME IInv, Define
  PROVE  IInv'
<1> DEFINE s == [mem[Ctx] EXCEPT !.fn = Value(Ctx, Here.id)]
<1> DEFINE p == [mem EXCEPT ![Ctx] = s]
<1>1. UNCHANGED <<cur, stack, imports, loaded, made, cyclic>> /\ mem' = Retain(p, Ctx)
  BY DEF Define
<1>2. IsMem(mem, loaded) /\ IsScope(mem[Ctx]) /\ mem[Ctx].natives \subseteq loaded
      /\ mem[Ctx].id \in Addrs /\ made \in 0..MaxScopes
  BY Bounds DEF IInv, Typed, IsMem
<1>3. Value(Ctx, Here.id) \in Values
  BY <1>2, Bounds, ValueType DEF Here, Places
<1>4. IsScope(s) /\ s.id = mem[Ctx].id /\ s.natives = mem[Ctx].natives
  BY <1>2, <1>3, SetFn
<1> HIDE DEF s
<1>5. IsMem(p, loaded) /\ p[Ctx] = s /\ \A b \in Addrs \ {Ctx} : p[b] = mem[b]
  BY <1>2, <1>4, Bounds, Put
<1> HIDE DEF p
<1>6. IsMem(mem', loaded) /\ SameIds(p, mem')
  BY <1>1, <1>5, Bounds, RetainMem DEF Places
<1>7. SameIds(mem, mem')
  BY <1>4, <1>5, <1>6 DEF SameIds
<1>8. cur' \in Exporting /\ (stack # <<>> => Mine(cur', stack[Len(stack)].file))
  BY <1>1 DEF IInv, Typed, ExportsMine
<1>9. made <= made'
  BY <1>1, <1>2
<1> QED
  BY <1>1, <1>2, <1>6, <1>7, <1>8, <1>9, Stays

LEMMA CloseInv ==
  ASSUME IInv, NEW captured \in BOOLEAN, Close(captured)
  PROVE  IInv'
<1> DEFINE n == made + 1
<1> DEFINE x == IF captured THEN Here.v ELSE Number
<1> DEFINE p == Snapshot(mem, n, x)
<1>1. /\ UNCHANGED <<cur, stack, imports, loaded, cyclic>> /\ made' = n /\ made < MaxScopes
      /\ mem' = Assign(p, Value(n, n))
  BY DEF Close
<1>2. /\ n \in Addrs /\ mem[n].id = n /\ n \in 0..MaxScopes /\ made <= n
  BY <1>1, NextAddr
<1>3. IsMem(mem, loaded) /\ x \in Values
  BY Bounds, NumberType DEF IInv, Typed, IsMem, IsScope, Here
<1> HIDE DEF n, x
<1>4. IsMem(p, loaded) /\ p[n].id = n /\ \A a \in Addrs \ {n} : p[a].id = mem[a].id
  <2>1. n \in Addrs /\ IsMem(mem, loaded) /\ x \in Values
    BY <1>2, <1>3
  <2> QED
    BY <2>1, SnapshotMem
<1> HIDE DEF p
<1>5. Value(n, n) \in Values
  BY <1>2, ValueType DEF Places
<1>6. IsMem(mem', loaded) /\ SameIds(p, mem')
  BY <1>1, <1>4, <1>5, AssignMem
<1>7. SameIds(mem, mem')
  BY <1>2, <1>4, <1>6 DEF SameIds
<1>8. cur' \in Exporting /\ (stack # <<>> => Mine(cur', stack[Len(stack)].file))
  BY <1>1 DEF IInv, Typed, ExportsMine
<1> QED
  BY <1>1, <1>2, <1>6, <1>7, <1>8, Stays

(* Steps that change neither what is exported nor the number of snapshots. *)
LEMMA QuietInv ==
  ASSUME IInv, UNCHANGED <<cur, stack, imports, made, cyclic>>,
         IsMem(mem', loaded'), SameIds(mem, mem')
  PROVE  IInv'
<1>1. made' \in 0..MaxScopes /\ made <= made'
  BY DEF IInv, Typed
<1>2. cur' \in Exporting /\ (stack # <<>> => Mine(cur', stack[Len(stack)].file))
  BY DEF IInv, Typed, ExportsMine
<1> QED
  BY <1>1, <1>2, Stays

LEMMA DropInv ==
  ASSUME IInv, Drop
  PROVE  IInv'
<1>1. UNCHANGED <<cur, stack, imports, loaded, made, cyclic>> /\ mem' = Assign(mem, Number)
  BY DEF Drop
<1>2. IsMem(mem', loaded') /\ SameIds(mem, mem')
  BY <1>1, NumberType, AssignMem DEF IInv, Typed
<1> QED
  BY <1>1, <1>2, QuietInv

LEMMA ImportCachedInv ==
  ASSUME IInv, NEW f \in Files, NEW isolated \in BOOLEAN, NEW keep \in BOOLEAN,
         ImportCached(f, isolated, keep)
  PROVE  IInv'
<1>1. UNCHANGED <<cur, stack, imports, loaded, made, cyclic>>
  BY DEF ImportCached
<1>2. PICK k \in 1..Len(imports) : mem' = Result(mem, imports[k], keep)
  BY Facts DEF IInv, ImportCached, FindImported
<1>3. imports[k].exports \in Values
  BY Facts DEF IInv, Records
<1>4. IsMem(mem', loaded') /\ SameIds(mem, mem')
  BY <1>1, <1>2, <1>3, ResultMem DEF IInv, Typed
<1> QED
  BY <1>1, <1>4, QuietInv

LEMMA SetExportInv ==
  ASSUME IInv, stack # <<>>, NEW x \in Values, NEW own \in BOOLEAN, own => x.at = Ctx,
         NEW m, m \in {mem, Retain(mem, x.at)}, SetExport(m, x, own)
  PROVE  IInv'
<1>1. UNCHANGED <<stack, imports, loaded, made, cyclic>>
  BY DEF SetExport
<1>2. stack[Len(stack)] \in Frames /\ Last(stack) = stack[Len(stack)]
  BY Popped DEF IInv, Typed
<1>3. x.at \in Places
  BY DEF Values
<1>4. IsMem(m, loaded) /\ SameIds(mem, m)
  <2>1. IsMem(mem, loaded) /\ SameIds(mem, mem)
    BY DEF IInv, Typed, SameIds
  <2> QED
    BY <1>3, <2>1, RetainMem
<1>5. IsMem(mem', loaded') /\ SameIds(mem, mem')
  <2>1. mem' = Retain(m, x.at)
    BY DEF SetExport
  <2>2. IsMem(mem', loaded) /\ SameIds(m, mem')
    BY <1>3, <1>4, <2>1, RetainMem
  <2> QED
    BY <1>1, <1>4, <2>2 DEF SameIds
<1>6. /\ cur' \in Exporting /\ cur'.by = stack[Len(stack)].file
      /\ cur'.own = own /\ cur'.exports = x
  <2>1. cur' = [cur EXCEPT !.exports = x, !.has = TRUE, !.by = stack[Len(stack)].file, !.own = own]
    BY <1>2 DEF SetExport
  <2>2. stack[Len(stack)].file \in Files
    BY <1>2 DEF Frames
  <2>3. cur \in Exporting
    BY DEF IInv, Typed
  <2> QED
    BY <2>1, <2>2, <2>3 DEF Exporting
<1>7. Mine(cur', stack[Len(stack)].file)
  BY <1>6 DEF Mine
<1>8. made' \in 0..MaxScopes /\ made <= made'
  BY <1>1 DEF IInv, Typed
<1> QED
  BY <1>1, <1>5, <1>6, <1>7, <1>8, Stays

LEMMA ExportInv ==
  ASSUME IInv, ExportVar \/ ExportFunction
  PROVE  IInv'
<1>1. CASE ExportVar
  <2>1. stack # <<>> /\ SetExport(Retain(mem, Here.v.at), Here.v, FALSE)
    BY <1>1 DEF ExportVar
  <2>2. Here.v \in Values
    BY Bounds DEF IInv, Typed, IsMem, IsScope, Here
  <2> QED
    BY <2>1, <2>2, SetExportInv
<1>2. CASE ExportFunction
  <2>1. PICK a \in Addrs : stack # <<>> /\ SetExport(mem, Value(a, mem[a].fn.home), a = Ctx)
    BY <1>2 DEF ExportFunction
  <2>2. mem[a].fn.home \in Places
    BY DEF IInv, Typed, IsMem, IsScope, Values
  <2>3. Value(a, mem[a].fn.home) \in Values /\ Value(a, mem[a].fn.home).at = a
    BY <2>2, ValueType DEF Places
  <2>4. (a = Ctx) \in BOOLEAN
    OBVIOUS
  <2> QED
    BY <2>1, <2>3, <2>4, SetExportInv
<1> QED
  BY <1>1, <1>2

LEMMA PluginInv ==
  ASSUME IInv, NEW p \in Plugins, NEW how \in {"unloaded", "unbound", "ok"}, LoadPlugin(p, how)
  PROVE  IInv'
<1>1. UNCHANGED <<cur, stack, imports, made, cyclic>>
  BY DEF LoadPlugin
<1>2. IsMem(mem, loaded)
  BY DEF IInv, Typed
<1>3. CASE p \in loaded
  <2>1. UNCHANGED <<mem, loaded>>
    BY <1>3 DEF LoadPlugin
  <2>2. IsMem(mem', loaded') /\ SameIds(mem, mem')
    BY <1>2, <2>1 DEF SameIds
  <2> QED
    BY <1>1, <2>2, QuietInv
<1>4. CASE p \notin loaded
  <2>1. /\ mem' = InitPlugin(mem, p, how)
        /\ loaded' = IF how = "ok" THEN loaded \cup {p} ELSE loaded
    BY <1>4 DEF LoadPlugin
  <2>2. IsMem(mem', loaded') /\ SameIds(mem, mem')
    BY <1>2, <2>1, InitPluginMem
  <2> QED
    BY <1>1, <2>2, QuietInv
<1> QED
  BY <1>3, <1>4

LEMMA RunInv ==
  ASSUME IInv, BeginRun \/ EndRun
  PROVE  IInv'
<1>1. UNCHANGED <<cur, stack, imports, loaded, made, cyclic>>
  BY DEF BeginRun, EndRun
<1>2. IsMem(mem', loaded') /\ SameIds(mem, mem')
  <2>1. CASE BeginRun
    BY <1>1, <2>1 DEF BeginRun, IInv, Typed, SameIds
  <2>2. CASE EndRun
    BY <1>1, <2>2, SweepMem DEF EndRun, IInv, Typed
  <2> QED
    BY <2>1, <2>2
<1> QED
  BY <1>1, <1>2, QuietInv

LEMMA UnreadableInv ==
  ASSUME IInv, NEW f \in Files, NEW isolated \in BOOLEAN, ImportUnreadable(f, isolated)
  PROVE  IInv'
<1>1. UNCHANGED <<cur, stack, imports, loaded, cyclic>>
  BY DEF ImportUnreadable
<1>2. IsMem(mem, loaded)
  BY DEF IInv, Typed
<1>3. CASE isolated
  <2> DEFINE n == made + 1
  <2>1. made < MaxScopes /\ made' = n /\ mem' = ModuleScope(mem, n)
    BY <1>3 DEF ImportUnreadable
  <2>2. n \in Addrs /\ mem[n].id = n /\ n \in 0..MaxScopes /\ made <= n
    BY <2>1, NextAddr
  <2> HIDE DEF n
  <2>3. IsMem(mem', loaded') /\ SameIds(mem, mem')
    BY <1>1, <1>2, <2>1, <2>2, ModuleScopeMem DEF SameIds
  <2>4. cur' \in Exporting /\ (stack # <<>> => Mine(cur', stack[Len(stack)].file))
    BY <1>1 DEF IInv, Typed, ExportsMine
  <2> QED
    BY <1>1, <2>1, <2>2, <2>3, <2>4, Stays
<1>4. CASE ~isolated
  <2>1. UNCHANGED <<mem, made>>
    BY <1>4 DEF ImportUnreadable
  <2>2. IsMem(mem', loaded') /\ SameIds(mem, mem')
    BY <1>1, <1>2, <2>1 DEF SameIds
  <2> QED
    BY <1>1, <2>1, <2>2, QuietInv
<1> QED
  BY <1>3, <1>4

-----------------------------------------------------------------------------
(* Entering and leaving a file.                                            *)

LEMMA Addresses ==
  ASSUME Typed
  PROVE  /\ AddrOf(0) = Ctx /\ AddrOf(Len(stack) + 1) = Ctx
         /\ \A k \in 1..Len(stack) : AddrOf(k) = stack[k].addr /\ AddrOf(k) \in Addrs
         /\ IsModule(0) /\ IsModule(Len(stack) + 1)
         /\ \A k \in 1..Len(stack) : IsModule(k) <=> stack[k].isolated
<1>1. Len(stack) \in Nat /\ \A k \in 1..Len(stack) : stack[k].addr \in Addrs
  BY Facts DEF Frames
<1>2. \A k \in 1..Len(stack) : k \notin {0, Len(stack) + 1}
  BY <1>1
<1> QED
  BY <1>1, <1>2 DEF AddrOf, IsModule

(* A file begins: a module exchanges its snapshot with the running scope.  *)
LEMMA EnterPlaces ==
  ASSUME IInv, Typed', NEW n \in Addrs, NEW isolated \in BOOLEAN,
         Len(stack') = Len(stack) + 1, \A k \in 1..Len(stack) : stack'[k] = stack[k],
         stack'[Len(stack) + 1].isolated = isolated,
         stack'[Len(stack) + 1].addr = n,
         isolated => /\ n # Ctx /\ \A k \in 1..Len(stack) : stack[k].isolated => stack[k].addr # n
                     /\ mem'[Ctx].id = n /\ mem'[n].id = mem[Ctx].id
                     /\ \A a \in Addrs \ {Ctx, n} : mem'[a].id = mem[a].id,
         ~isolated => SameIds(mem, mem')
  PROVE  ScopesInPlace'
<1>0. PICK L \in Nat : L = Len(stack)
  BY Facts DEF IInv
<1>1. /\ AddrOf(0) = Ctx /\ AddrOf(L + 1) = Ctx /\ IsModule(0) /\ IsModule(L + 1)
      /\ \A k \in 1..L : AddrOf(k) = stack[k].addr /\ AddrOf(k) \in Addrs
      /\ \A k \in 1..L : IsModule(k) <=> stack[k].isolated
  BY <1>0, Addresses DEF IInv
<1>2. Len(stack') = L + 1
  BY <1>0
<1>3. \A k \in 1..L : k \notin {0, (L + 1) + 1} /\ k \in 1..(L + 1)
  OBVIOUS
<1>4. /\ AddrOf(0)' = Ctx /\ AddrOf(L + 2)' = Ctx /\ AddrOf(L + 1)' = n
      /\ IsModule(0)' /\ IsModule(L + 2)' /\ IsModule(L + 1)' = isolated
      /\ \A k \in 1..L : AddrOf(k)' = AddrOf(k) /\ IsModule(k)' = IsModule(k)
  <2>1. L + 1 \notin {0, (L + 1) + 1} /\ L + 2 = (L + 1) + 1
    OBVIOUS
  <2>2. AddrOf(0)' = Ctx /\ AddrOf(L + 2)' = Ctx /\ AddrOf(L + 1)' = n
    BY <1>0, <1>2, <2>1 DEF AddrOf
  <2>3. IsModule(0)' /\ IsModule(L + 2)' /\ IsModule(L + 1)' = isolated
    BY <1>0, <1>2, <2>1 DEF IsModule
  <2>4. \A k \in 1..L : AddrOf(k)' = AddrOf(k)
    BY <1>0, <1>1, <1>2, <1>3 DEF AddrOf
  <2>5. \A k \in 1..L : IsModule(k)' = IsModule(k)
    <3>1. \A k \in 1..L : IsModule(k)' <=> stack'[k].isolated
      BY <1>2, <1>3 DEF IsModule
    <3> QED
      BY <1>0, <1>1, <3>1 DEF IsModule
  <2> QED
    BY <2>2, <2>3, <2>4, <2>5
<1>5. \A j, k \in 0..(L + 1) : Follows(j, k) => mem[AddrOf(k)].id = AddrOf(j)
  BY <1>0 DEF IInv, ScopesInPlace
<1>6. \A j, k \in 0..(L + 2) : Follows(j, k)' => mem'[AddrOf(k)'].id = AddrOf(j)'
  <2> SUFFICES ASSUME NEW j \in 0..(L + 2), NEW k \in 0..(L + 2), Follows(j, k)'
               PROVE  mem'[AddrOf(k)'].id = AddrOf(j)'
    OBVIOUS
  <2>1. IsModule(j)' /\ IsModule(k)' /\ j < k /\ \A i \in (j + 1)..(k - 1) : ~IsModule(i)'
    BY DEF Follows
  <2>2. CASE k \in 1..L
    <3>1. j \in 0..L /\ \A i \in (j + 1)..(k - 1) : i \in 1..L
      BY <2>1, <2>2
    <3>2. IsModule(j) /\ IsModule(k) /\ \A i \in (j + 1)..(k - 1) : ~IsModule(i)
      BY <1>1, <1>4, <2>1, <2>2, <3>1
    <3>3. j \in 0..(L + 1) /\ k \in 0..(L + 1) /\ Follows(j, k)
      BY <2>1, <2>2, <3>1, <3>2 DEF Follows
    <3>4. mem[AddrOf(k)].id = AddrOf(j)
      BY <1>5, <3>3
    <3>5. AddrOf(j)' = AddrOf(j) /\ AddrOf(k)' = AddrOf(k)
      BY <1>1, <1>4, <2>2, <3>1
    <3>6. AddrOf(k) \in Addrs \ {Ctx} /\ (isolated => AddrOf(k) # n)
      BY <1>0, <1>1, <2>2, <3>2 DEF IInv, OwnAddrs
    <3>7. mem'[AddrOf(k)].id = mem[AddrOf(k)].id
      BY <3>6 DEF SameIds
    <3> QED
      BY <3>4, <3>5, <3>7
  <2>3. CASE k = L + 1
    <3>1. isolated /\ j \in 0..L /\ \A i \in (j + 1)..L : i \in 1..L
      BY <1>4, <2>1, <2>3
    <3>2. IsModule(j) /\ \A i \in (j + 1)..((L + 1) - 1) : ~IsModule(i)
      BY <1>1, <1>4, <2>1, <2>3, <3>1
    <3>3. j \in 0..(L + 1) /\ L + 1 \in 0..(L + 1) /\ Follows(j, L + 1)
      BY <1>1, <3>1, <3>2 DEF Follows
    <3>4. mem[Ctx].id = AddrOf(j)
      BY <1>1, <1>5, <3>3
    <3>5. AddrOf(j)' = AddrOf(j)
      BY <1>1, <1>4, <3>1
    <3> QED
      BY <1>4, <2>3, <3>1, <3>4, <3>5
  <2>4. CASE k = L + 2 /\ isolated
    <3>1. j = L + 1
      <4>1. j < L + 1 => L + 1 \in (j + 1)..(k - 1)
        BY <2>4
      <4>2. ~(L + 1 \in (j + 1)..(k - 1))
        BY <1>4, <2>1, <2>4
      <4> QED
        BY <2>1, <2>4, <4>1, <4>2
    <3> QED
      BY <1>4, <2>4, <3>1
  <2>5. CASE k = L + 2 /\ ~isolated
    <3>1. j \in 0..L /\ \A i \in (j + 1)..L : i \in 1..L /\ i \in (j + 1)..(k - 1)
      BY <1>4, <2>1, <2>5
    <3>2. IsModule(j) /\ \A i \in (j + 1)..((L + 1) - 1) : ~IsModule(i)
      BY <1>1, <1>4, <2>1, <2>5, <3>1
    <3>3. j \in 0..(L + 1) /\ L + 1 \in 0..(L + 1) /\ Follows(j, L + 1)
      BY <1>1, <3>1, <3>2 DEF Follows
    <3>4. mem[Ctx].id = AddrOf(j)
      BY <1>1, <1>5, <3>3
    <3>5. AddrOf(j)' = AddrOf(j)
      BY <1>1, <1>4, <3>1
    <3> QED
      BY <1>4, <2>5, <3>4, <3>5, Bounds DEF SameIds
  <2>6. k \in 1..L \/ k = L + 1 \/ k = L + 2
    BY <2>1
  <2> QED
    BY <2>2, <2>3, <2>4, <2>5, <2>6
<1>7. \A a \in Addrs \ {Ctx} :
        (\A k \in DOMAIN stack' : stack'[k].isolated => stack'[k].addr # a) => mem'[a].id = a
  <2> SUFFICES ASSUME NEW a \in Addrs \ {Ctx},
                      \A k \in 1..(L + 1) : stack'[k].isolated => stack'[k].addr # a
               PROVE  mem'[a].id = a
    <3>1. DOMAIN stack' = 1..(L + 1)
      BY <1>2, Facts
    <3> QED
      BY <3>1
  <2>1. DOMAIN stack = 1..L
    BY <1>0, Facts DEF IInv
  <2>2. mem[a].id = a
    BY <1>0, <1>3, <2>1 DEF IInv, ScopesInPlace
  <2>3. isolated => a # n
    <3>1. L + 1 \in 1..(L + 1) /\ stack'[L + 1].isolated = isolated /\ stack'[L + 1].addr = n
      BY <1>0
    <3> QED
      BY <3>1
  <2> QED
    BY <2>2, <2>3 DEF SameIds
<1>8. Len(stack') + 1 = L + 2
  BY <1>2
<1> QED
  BY <1>6, <1>7, <1>8 DEF ScopesInPlace

(* The importer waits, with what it exported so far, for the file f.       *)
LEMMA BeginInv ==
  ASSUME IInv, NEW f \in Files, NEW isolated \in BOOLEAN, BeginImport(f, isolated)
  PROVE  IInv'
<1>0. PICK L \in Nat : L = Len(stack)
  BY Facts DEF IInv
<1>1. /\ UNCHANGED <<imports, loaded>> /\ cur' = [NotImporting EXCEPT !.file = f]
      /\ cyclic \subseteq cyclic'
      /\ (\E k \in DOMAIN stack : stack[k].file = f /\ stack[k].isolated = isolated)
         => <<f, isolated>> \in cyclic'
      /\ \A k \in DOMAIN imports : ~(imports[k].file = f /\ imports[k].isolated = isolated)
  BY DEF BeginImport, FindImported
<1>2. IsMem(mem, loaded) /\ made \in 0..MaxScopes /\ stack \in Seq(Frames) /\ cur \in Exporting
  BY DEF IInv, Typed
<1>3. PICK n \in Addrs :
        /\ stack' = Append(stack, Frame(f, isolated, n))
        /\ IsMem(mem', loaded) /\ made' \in 0..MaxScopes /\ made <= made'
        /\ isolated => /\ n # Ctx /\ \A k \in 1..Len(stack) : stack[k].isolated => stack[k].addr # n
                       /\ n <= made'
                       /\ mem'[Ctx].id = n /\ mem'[n].id = mem[Ctx].id
                       /\ \A a \in Addrs \ {Ctx, n} : mem'[a].id = mem[a].id
        /\ ~isolated => SameIds(mem, mem')
  <2>1. CASE isolated
    <3>1. made < MaxScopes
      BY <1>2, <2>1, Bounds DEF BeginImport
    <3>2. PICK n \in Addrs : n = made + 1
      BY <3>1, NextAddr
    <3>3. /\ n # Ctx /\ n \in 0..MaxScopes /\ made <= n
          /\ \A k \in 1..Len(stack) : stack[k].isolated => stack[k].addr # n
      BY <3>1, <3>2, NextAddr
    <3>4. /\ mem' = Entered(mem, n)
          /\ stack' = Append(stack, Frame(f, isolated, n)) /\ made' = n
      BY <2>1, <3>2 DEF BeginImport, Entered
    <3>5. /\ IsMem(mem', loaded) /\ mem'[Ctx].id = n /\ mem'[n].id = mem[Ctx].id
          /\ \A a \in Addrs \ {Ctx, n} : mem'[a].id = mem[a].id
      BY <1>2, <3>3, <3>4, EnterMem
    <3>6. n <= made'
      BY <3>3, <3>4
    <3> QED
      BY <2>1, <3>3, <3>4, <3>5, <3>6
  <2>2. CASE ~isolated
    <3>1. stack' = Append(stack, Frame(f, isolated, Ctx)) /\ UNCHANGED <<mem, made>>
      BY <2>2 DEF BeginImport
    <3>2. made <= made' /\ SameIds(mem, mem')
      BY <1>2, <3>1 DEF SameIds
    <3> QED
      BY <1>2, <2>2, <3>1, <3>2, Bounds
  <2> QED
    BY <2>1, <2>2
<1> DEFINE fr == Frame(f, isolated, n)
<1>4. /\ fr \in Frames /\ fr.file = f /\ fr.isolated = isolated /\ fr.addr = n /\ fr.prev = cur
  BY <1>2, Bounds DEF Frame, Frames
<1> HIDE DEF fr
<1>5. /\ stack' \in Seq(Frames) /\ Len(stack') = L + 1 /\ stack'[L + 1] = fr
      /\ \A k \in 1..L : stack'[k] = stack[k]
  <2>1. stack' = Append(stack, fr)
    BY <1>3 DEF fr
  <2> QED
    BY <1>0, <1>2, <1>4, <2>1, Pushed
<1>6. cur' \in Exporting /\ Mine(cur', f)
  BY <1>1, NumberType DEF NotImporting, Exporting, Mine
<1>7. Typed'
  BY <1>1, <1>3, <1>5, <1>6 DEF IInv, Typed
<1>8. \A k \in 1..(L + 1) : k \in 1..L \/ k = L + 1
  OBVIOUS
<1>9. OwnAddrs'
  <2>1. \A k \in 1..L : stack[k].addr \in 0..MaxScopes
    BY <1>0, Facts, Bounds DEF IInv, Frames
  <2>2. \A k \in 1..L : stack'[k].isolated => stack'[k].addr # Ctx /\ stack'[k].addr <= made'
    BY <1>0, <1>2, <1>3, <1>5, <2>1 DEF IInv, OwnAddrs
  <2>3. \A k \in 1..(L + 1) : stack'[k].isolated => stack'[k].addr # Ctx /\ stack'[k].addr <= made'
    BY <1>3, <1>4, <1>5, <1>8, <2>2
  <2>4. ASSUME NEW j \in 1..(L + 1), NEW k \in 1..(L + 1),
               stack'[j].isolated, stack'[k].isolated, stack'[j].addr = stack'[k].addr
        PROVE  j = k
    <3>1. CASE j \in 1..L /\ k \in 1..L
      BY <1>0, <1>5, <2>4, <3>1 DEF IInv, OwnAddrs
    <3>2. CASE j \in 1..L /\ k = L + 1
      BY <1>0, <1>3, <1>4, <1>5, <2>4, <3>2
    <3>3. CASE j = L + 1 /\ k \in 1..L
      BY <1>0, <1>3, <1>4, <1>5, <2>4, <3>3
    <3> QED
      BY <1>8, <3>1, <3>2, <3>3
  <2> QED
    BY <1>5, <2>3, <2>4 DEF OwnAddrs
<1>10. ScopesInPlace'
  <2>1. /\ Len(stack') = Len(stack) + 1 /\ \A k \in 1..Len(stack) : stack'[k] = stack[k]
        /\ stack'[Len(stack) + 1].isolated = isolated /\ stack'[Len(stack) + 1].addr = n
    BY <1>0, <1>4, <1>5
  <2> QED
    BY <1>3, <1>7, <2>1, EnterPlaces
<1>11. ExportsMine'
  <2>1. Mine(cur', stack'[Len(stack')].file)
    BY <1>4, <1>5, <1>6
  <2>2. ASSUME NEW k \in 1..(L + 1), k # 1
        PROVE  Mine(stack'[k].prev, stack'[k - 1].file)
    <3>1. CASE k \in 1..L
      <4>1. k - 1 \in 1..L
        BY <2>2, <3>1
      <4> QED
        BY <1>0, <1>5, <2>2, <3>1, <4>1 DEF IInv, ExportsMine
    <3>2. CASE k = L + 1
      <4>1. L \in 1..L /\ k - 1 = L
        BY <2>2, <3>2
      <4>2. stack # <<>>
        BY <1>0, <4>1
      <4>3. Mine(cur, stack[L].file)
        BY <1>0, <4>2 DEF IInv, ExportsMine
      <4> QED
        BY <1>4, <1>5, <3>2, <4>1, <4>3
    <3> QED
      BY <1>8, <3>1, <3>2
  <2> QED
    BY <1>5, <2>1, <2>2 DEF ExportsMine
<1>12. ExportsAtHome' /\ ImportedOnce'
  BY <1>1 DEF IInv, ExportsAtHome, ImportedOnce
<1>13. Circles'
  <2>0. DOMAIN stack = 1..L /\ DOMAIN imports = 1..Len(imports)
    BY <1>0, Facts DEF IInv
  <2>1. ASSUME NEW j \in 1..(L + 1), NEW k \in 1..(L + 1), j # k,
               stack'[j].file = stack'[k].file, stack'[j].isolated = stack'[k].isolated
        PROVE  <<stack'[j].file, stack'[j].isolated>> \in cyclic'
    <3>1. CASE j \in 1..L /\ k \in 1..L
      <4>1. <<stack[j].file, stack[j].isolated>> \in cyclic
        BY <1>0, <1>5, <2>1, <3>1 DEF IInv, Circles
      <4> QED
        BY <1>1, <1>5, <3>1, <4>1
    <3>2. CASE j \in 1..L /\ k = L + 1
      BY <1>1, <1>4, <1>5, <2>0, <2>1, <3>2
    <3>3. CASE j = L + 1 /\ k \in 1..L
      BY <1>1, <1>4, <1>5, <2>0, <2>1, <3>3
    <3> QED
      BY <1>8, <2>1, <3>1, <3>2, <3>3
  <2>2. ASSUME NEW j \in 1..(L + 1), NEW k \in 1..Len(imports),
               stack'[j].file = imports[k].file, stack'[j].isolated = imports[k].isolated
        PROVE  <<stack'[j].file, stack'[j].isolated>> \in cyclic'
    <3>1. CASE j \in 1..L
      <4>1. <<stack[j].file, stack[j].isolated>> \in cyclic
        BY <1>0, <1>5, <2>2, <3>1 DEF IInv, Circles
      <4> QED
        BY <1>1, <1>5, <3>1, <4>1
    <3>2. CASE j = L + 1
      BY <1>1, <1>4, <1>5, <2>0, <2>2, <3>2
    <3> QED
      BY <1>8, <3>1, <3>2
  <2> QED
    BY <1>1, <1>5, <2>1, <2>2 DEF Circles
<1> QED
  BY <1>7, <1>9, <1>10, <1>11, <1>12, <1>13 DEF IInv

(* A file ends: a module exchanges its scope with the one that waited.     *)
LEMMA LeavePlaces ==
  ASSUME IInv, Typed', NEW L \in Nat \ {0}, L = Len(stack), Len(stack') = L - 1,
         \A k \in 1..(L - 1) : stack'[k] = stack[k],
         stack[L].isolated =>
           /\ mem'[Ctx].id = mem[stack[L].addr].id /\ mem'[stack[L].addr].id = mem[Ctx].id
           /\ \A a \in Addrs \ {Ctx, stack[L].addr} : mem'[a].id = mem[a].id,
         ~stack[L].isolated => SameIds(mem, mem')
  PROVE  ScopesInPlace'
<1>1. /\ AddrOf(0) = Ctx /\ AddrOf(L + 1) = Ctx /\ IsModule(0) /\ IsModule(L + 1)
      /\ \A k \in 1..L : AddrOf(k) = stack[k].addr /\ AddrOf(k) \in Addrs
      /\ \A k \in 1..L : IsModule(k) <=> stack[k].isolated
  BY Addresses DEF IInv
<1>2. Len(stack') + 1 = L /\ L \in 1..L /\ L \notin 1..(L - 1) /\ 0 \notin 1..(L - 1)
  OBVIOUS
<1>3. \A k \in 1..(L - 1) : k \in 1..L /\ k \notin {0, L}
  OBVIOUS
<1>4. /\ AddrOf(0)' = Ctx /\ AddrOf(L)' = Ctx /\ IsModule(0)' /\ IsModule(L)'
      /\ \A k \in 1..(L - 1) : AddrOf(k)' = AddrOf(k) /\ (IsModule(k)' <=> IsModule(k))
  <2>1. AddrOf(0)' = Ctx /\ AddrOf(L)' = Ctx
    BY <1>2 DEF AddrOf
  <2>2. IsModule(0)' /\ IsModule(L)'
    BY <1>2 DEF IsModule
  <2>3. \A k \in 1..(L - 1) : AddrOf(k)' = AddrOf(k)
    BY <1>1, <1>2, <1>3 DEF AddrOf
  <2>4. \A k \in 1..(L - 1) : IsModule(k)' <=> stack'[k].isolated
    BY <1>2, <1>3 DEF IsModule
  <2>5. \A k \in 1..(L - 1) : IsModule(k)' <=> IsModule(k)
    BY <1>1, <1>3, <2>4
  <2> QED
    BY <2>1, <2>2, <2>3, <2>5
<1>5. \A j, k \in 0..(L + 1) : Follows(j, k) => mem[AddrOf(k)].id = AddrOf(j)
  BY DEF IInv, ScopesInPlace
<1>6. stack[L].isolated => stack[L].addr \in Addrs \ {Ctx}
  BY <1>1, <1>2 DEF IInv, OwnAddrs
<1>7. \A j, k \in 0..L : Follows(j, k)' => mem'[AddrOf(k)'].id = AddrOf(j)'
  <2> SUFFICES ASSUME NEW j \in 0..L, NEW k \in 0..L, Follows(j, k)'
               PROVE  mem'[AddrOf(k)'].id = AddrOf(j)'
    OBVIOUS
  <2>1. IsModule(j)' /\ IsModule(k)' /\ j < k /\ \A i \in (j + 1)..(k - 1) : ~IsModule(i)'
    BY DEF Follows
  <2>2. /\ j = 0 \/ j \in 1..(L - 1)
        /\ \A i \in (j + 1)..(k - 1) : i \in 1..(L - 1)
    BY <2>1
  <2>3. IsModule(j) /\ AddrOf(j)' = AddrOf(j) /\ \A i \in (j + 1)..(k - 1) : ~IsModule(i)
    BY <1>1, <1>4, <2>1, <2>2
  <2>4. CASE k \in 1..(L - 1)
    <3>1. IsModule(k) /\ AddrOf(k)' = AddrOf(k) /\ k \in 1..L
      BY <1>3, <1>4, <2>1, <2>4
    <3>2. j \in 0..(L + 1) /\ k \in 0..(L + 1) /\ Follows(j, k)
      BY <2>1, <2>3, <3>1 DEF Follows
    <3>3. mem[AddrOf(k)].id = AddrOf(j)
      BY <1>5, <3>2
    <3>4. stack[k].isolated /\ k # L
      BY <1>1, <2>4, <3>1
    <3>5. AddrOf(k) \in Addrs \ {Ctx} /\ (stack[L].isolated => AddrOf(k) # stack[L].addr)
      BY <1>1, <1>2, <3>1, <3>4 DEF IInv, OwnAddrs
    <3>6. mem'[AddrOf(k)].id = mem[AddrOf(k)].id
      BY <3>5 DEF SameIds
    <3> QED
      BY <2>3, <3>1, <3>3, <3>6
  <2>5. CASE k = L /\ stack[L].isolated
    <3>1. IsModule(L) /\ AddrOf(L) = stack[L].addr
      BY <1>1, <1>2, <2>5
    <3>2. j \in 0..(L + 1) /\ L \in 0..(L + 1) /\ Follows(j, L)
      BY <2>1, <2>3, <2>5, <3>1 DEF Follows
    <3>3. mem[stack[L].addr].id = AddrOf(j)
      BY <1>5, <3>1, <3>2
    <3> QED
      BY <1>4, <2>3, <2>5, <3>3
  <2>6. CASE k = L /\ ~stack[L].isolated
    <3>1. ~IsModule(L)
      BY <1>1, <1>2, <2>6
    <3>2. \A i \in (j + 1)..((L + 1) - 1) : i \in (j + 1)..(k - 1) \/ i = L
      BY <2>6
    <3>3. \A i \in (j + 1)..((L + 1) - 1) : ~IsModule(i)
      BY <2>3, <3>1, <3>2
    <3>4. j \in 0..(L + 1) /\ L + 1 \in 0..(L + 1) /\ j < L + 1
      BY <2>1
    <3>5. Follows(j, L + 1)
      BY <1>1, <2>3, <3>3, <3>4 DEF Follows
    <3>6. mem[Ctx].id = AddrOf(j)
      BY <1>1, <1>5, <3>4, <3>5
    <3> QED
      BY <1>4, <2>3, <2>6, <3>6, Bounds DEF SameIds
  <2>7. k \in 1..(L - 1) \/ k = L
    BY <2>1
  <2> QED
    BY <2>4, <2>5, <2>6, <2>7
<1>8. ASSUME NEW a \in Addrs \ {Ctx},
             \A k \in 1..(L - 1) : stack'[k].isolated => stack'[k].addr # a
      PROVE  mem'[a].id = a
  <2>1. CASE stack[L].isolated /\ stack[L].addr = a
    <3>1. IsModule(L) /\ AddrOf(L) = a
      BY <1>1, <1>2, <2>1
    <3>2. L \in 0..(L + 1) /\ L + 1 \in 0..(L + 1) /\ L < L + 1 /\ (L + 1)..((L + 1) - 1) = {}
      OBVIOUS
    <3>3. Follows(L, L + 1)
      BY <1>1, <3>1, <3>2 DEF Follows
    <3>4. mem[Ctx].id = a
      BY <1>1, <1>5, <3>1, <3>2, <3>3
    <3> QED
      BY <2>1, <3>4
  <2>2. CASE ~(stack[L].isolated /\ stack[L].addr = a)
    <3>1. \A k \in 1..L : k \in 1..(L - 1) \/ k = L
      OBVIOUS
    <3>2. \A k \in 1..L : stack[k].isolated => stack[k].addr # a
      BY <1>8, <2>2, <3>1
    <3>3. DOMAIN stack = 1..L
      BY Facts DEF IInv
    <3>4. mem[a].id = a
      BY <3>2, <3>3 DEF IInv, ScopesInPlace
    <3> QED
      BY <2>2, <3>4 DEF SameIds
  <2> QED
    BY <2>1, <2>2
<1>9. DOMAIN stack' = 1..(L - 1)
  BY Facts
<1>10. \A a \in Addrs \ {Ctx} :
         (\A k \in DOMAIN stack' : stack'[k].isolated => stack'[k].addr # a) => mem'[a].id = a
  BY <1>8, <1>9
<1> QED
  BY <1>2, <1>7, <1>10 DEF ScopesInPlace

(* What is left of the running file: a module is back at its own address,  *)
(* and nothing that it exports is at the address of the context.           *)
LEMMA EndedMem ==
  ASSUME IInv, stack # <<>>, NEW fr, fr = Last(stack)
  PROVE  /\ IsMem(Ended.mem, loaded) /\ Ended.exports \in Values
         /\ fr.isolated =>
              /\ Ended.mem[Ctx].id = mem[fr.addr].id /\ Ended.mem[fr.addr].id = mem[Ctx].id
              /\ \A a \in Addrs \ {Ctx, fr.addr} : Ended.mem[a].id = mem[a].id
              /\ Ended.exports.at = IF cur.exports.at = Ctx THEN fr.addr ELSE cur.exports.at
         /\ ~fr.isolated => SameIds(mem, Ended.mem)
<1>1. fr \in Frames /\ IsMem(mem, loaded) /\ cur.exports \in Values
  BY Popped DEF IInv, Typed, Exporting
<1>2. fr.addr \in Addrs
  BY <1>1 DEF Frames
<1>3. CASE fr.isolated
  <2> DEFINE r == Rebind(mem, cur.exports, fr.addr)
  <2> DEFINE e == LeaveModule(r.mem, fr)
  <2>1. Ended.mem = e /\ Ended.exports = r.exports
    BY <1>3 DEF Ended
  <2>2. /\ IsMem(r.mem, loaded) /\ SameIds(mem, r.mem) /\ r.exports \in Values
        /\ r.exports.at = IF cur.exports.at = Ctx THEN fr.addr ELSE cur.exports.at
    BY <1>1, <1>2, RebindMem
  <2> HIDE DEF r
  <2>3. /\ IsMem(e, loaded)
        /\ e[Ctx].id = r.mem[fr.addr].id /\ e[fr.addr].id = r.mem[Ctx].id
        /\ \A a \in Addrs \ {Ctx, fr.addr} : e[a].id = r.mem[a].id
    BY <1>1, <2>2, LeaveMem
  <2> HIDE DEF e
  <2> QED
    BY <1>2, <1>3, <2>1, <2>2, <2>3, Bounds DEF SameIds
<1>4. CASE ~fr.isolated
  <2>1. Ended = [mem |-> mem, exports |-> cur.exports]
    BY <1>4 DEF Ended
  <2> QED
    BY <1>1, <1>4, <2>1 DEF SameIds
<1> QED
  BY <1>3, <1>4

(* The part of the invariant that the end of a file keeps, however it ends. *)
LEMMA PopInv ==
  ASSUME IInv, stack # <<>>, stack' = Front(stack), cur' = RestoreImporter,
         UNCHANGED <<loaded, made, cyclic>>, IsMem(mem', loaded'), SameIds(Ended.mem, mem'),
         imports' \in Seq(Records)
  PROVE  /\ Typed' /\ OwnAddrs' /\ ScopesInPlace' /\ ExportsMine'
         /\ \A j, k \in 1..Len(stack') :
              (j # k /\ stack'[j].file = stack'[k].file /\ stack'[j].isolated = stack'[k].isolated)
              => <<stack'[j].file, stack'[j].isolated>> \in cyclic'
<1>0. stack \in Seq(Frames)
  BY DEF IInv, Typed
<1>1. PICK L \in Nat \ {0} : L = Len(stack)
  BY <1>0, Popped
<1>2. /\ Last(stack) = stack[L] /\ stack[L] \in Frames /\ stack' \in Seq(Frames)
      /\ Len(stack') = L - 1 /\ \A k \in 1..(L - 1) : stack'[k] = stack[k]
  BY <1>0, <1>1, Popped
<1>3. \A k \in 1..(L - 1) : k \in 1..L
  OBVIOUS
<1>4. cur' = stack[L].prev /\ cur' \in Exporting
  BY <1>2 DEF RestoreImporter, Frames
<1>5. Typed'
  BY <1>2, <1>4 DEF IInv, Typed
<1>6. OwnAddrs'
  <2>1. OwnAddrs /\ made' = made
    BY DEF IInv
  <2>2. \A k \in 1..(L - 1) : stack[k].isolated => stack[k].addr # Ctx /\ stack[k].addr <= made
    BY <1>1, <1>3, <2>1 DEF OwnAddrs
  <2>3. \A j, k \in 1..(L - 1) :
          (stack[j].isolated /\ stack[k].isolated /\ stack[j].addr = stack[k].addr) => j = k
    BY <1>1, <1>3, <2>1 DEF OwnAddrs
  <2> QED
    BY <1>2, <2>1, <2>2, <2>3 DEF OwnAddrs
<1>7. ScopesInPlace'
  <2>1. /\ stack[L].isolated =>
             /\ Ended.mem[Ctx].id = mem[stack[L].addr].id /\ Ended.mem[stack[L].addr].id = mem[Ctx].id
             /\ \A a \in Addrs \ {Ctx, stack[L].addr} : Ended.mem[a].id = mem[a].id
        /\ ~stack[L].isolated => SameIds(mem, Ended.mem)
    BY <1>2, EndedMem
  <2>2. stack[L].addr \in Addrs
    BY <1>2 DEF Frames
  <2>3. /\ stack[L].isolated =>
             /\ mem'[Ctx].id = mem[stack[L].addr].id /\ mem'[stack[L].addr].id = mem[Ctx].id
             /\ \A a \in Addrs \ {Ctx, stack[L].addr} : mem'[a].id = mem[a].id
        /\ ~stack[L].isolated => SameIds(mem, mem')
    BY <2>1, <2>2, Bounds DEF SameIds
  <2> QED
    BY <1>1, <1>2, <1>5, <2>3, LeavePlaces
<1>8. ExportsMine'
  <2>1. ASSUME stack' # <<>>
        PROVE  Mine(cur', stack'[Len(stack')].file)
    <3>1. Len(stack') # 0
      BY <1>2, <2>1, EmptySeq
    <3>2. L # 1 /\ L \in 1..L /\ L - 1 \in 1..(L - 1)
      BY <1>2, <3>1
    <3>3. Mine(stack[L].prev, stack[L - 1].file)
      BY <1>1, <3>2 DEF IInv, ExportsMine
    <3> QED
      BY <1>2, <1>4, <3>2, <3>3
  <2>2. ASSUME NEW k \in 1..(L - 1), k # 1
        PROVE  Mine(stack'[k].prev, stack'[k - 1].file)
    <3>1. k \in 1..L /\ k - 1 \in 1..(L - 1)
      BY <2>2
    <3> QED
      BY <1>1, <1>2, <2>2, <3>1 DEF IInv, ExportsMine
  <2> QED
    BY <1>2, <2>1, <2>2 DEF ExportsMine
<1>9. \A j, k \in 1..(L - 1) :
        (j # k /\ stack'[j].file = stack'[k].file /\ stack'[j].isolated = stack'[k].isolated)
        => <<stack'[j].file, stack'[j].isolated>> \in cyclic'
  <2>1. \A j, k \in 1..L :
          (j # k /\ stack[j].file = stack[k].file /\ stack[j].isolated = stack[k].isolated)
          => <<stack[j].file, stack[j].isolated>> \in cyclic
    BY <1>1 DEF IInv, Circles
  <2> QED
    BY <1>2, <1>3, <2>1
<1> QED
  BY <1>2, <1>5, <1>6, <1>7, <1>8, <1>9

LEMMA FailInv ==
  ASSUME IInv, FailImport
  PROVE  IInv'
<1>1. /\ stack # <<>> /\ mem' = Ended.mem /\ cur' = RestoreImporter /\ stack' = Front(stack)
      /\ UNCHANGED <<imports, loaded, made, cyclic>>
  BY DEF FailImport, Failed
<1>2. IsMem(Ended.mem, loaded)
  BY <1>1, EndedMem
<1>3. IsMem(mem', loaded') /\ SameIds(Ended.mem, mem') /\ imports' \in Seq(Records)
  BY <1>1, <1>2 DEF SameIds, IInv, Typed
<1>4. /\ Typed' /\ OwnAddrs' /\ ScopesInPlace' /\ ExportsMine'
      /\ \A j, k \in 1..Len(stack') :
           (j # k /\ stack'[j].file = stack'[k].file /\ stack'[j].isolated = stack'[k].isolated)
           => <<stack'[j].file, stack'[j].isolated>> \in cyclic'
  BY <1>1, <1>3, PopInv
<1>5. \A j \in 1..Len(stack') : j \in 1..Len(stack) /\ stack'[j] = stack[j]
  <2>1. /\ Len(stack) \in Nat \ {0} /\ Len(stack') = Len(stack) - 1
        /\ \A k \in 1..(Len(stack) - 1) : stack'[k] = stack[k]
    BY <1>1, Popped DEF IInv, Typed
  <2> QED
    BY <2>1
<1>6. Circles'
  BY <1>1, <1>4, <1>5 DEF IInv, Circles
<1>7. ExportsAtHome' /\ ImportedOnce'
  BY <1>1 DEF IInv, ExportsAtHome, ImportedOnce
<1> QED
  BY <1>4, <1>6, <1>7 DEF IInv

LEMMA EndInv ==
  ASSUME IInv, NEW keep \in BOOLEAN, EndImport(keep)
  PROVE  IInv'
<1>0. stack \in Seq(Frames) /\ imports \in Seq(Records) /\ stack # <<>> /\ cur \in Exporting
  BY DEF IInv, Typed, EndImport
<1>1. PICK L \in Nat \ {0} : L = Len(stack)
  BY <1>0, Popped
<1>2. /\ Last(stack) = stack[L] /\ stack[L] \in Frames
      /\ Len(Front(stack)) = L - 1 /\ \A k \in 1..(L - 1) : Front(stack)[k] = stack[k]
  BY <1>0, <1>1, Popped
<1> DEFINE d == [file |-> stack[L].file, isolated |-> stack[L].isolated, exports |-> Ended.exports,
                 has |-> cur.has, by |-> cur.by, own |-> cur.own, scope |-> stack[L].addr]
<1> DEFINE q == Clone(Ended.mem, Ended.exports)
<1>3. /\ imports' = Append(imports, d) /\ mem' = Result(q, d, keep) /\ cur' = RestoreImporter
      /\ stack' = Front(stack) /\ UNCHANGED <<loaded, made, cyclic>>
  BY <1>2 DEF EndImport
<1>4. /\ IsMem(Ended.mem, loaded) /\ Ended.exports \in Values
      /\ stack[L].isolated =>
           Ended.exports.at = IF cur.exports.at = Ctx THEN stack[L].addr ELSE cur.exports.at
  BY <1>0, <1>2, EndedMem
<1>6. /\ d \in Records /\ d.file = stack[L].file /\ d.isolated = stack[L].isolated
      /\ d.exports = Ended.exports /\ d.has = cur.has /\ d.by = cur.by /\ d.own = cur.own
      /\ d.scope = stack[L].addr
  BY <1>0, <1>2, <1>4 DEF Records, Frames, Exporting
<1>7. IsMem(q, loaded) /\ SameIds(Ended.mem, q)
  BY <1>4, CloneMem
<1> HIDE DEF d, q
<1>9. IsMem(mem', loaded') /\ SameIds(Ended.mem, mem')
  <2>1. d.exports \in Values
    BY <1>4, <1>6
  <2>2. IsMem(mem', loaded) /\ SameIds(q, mem')
    BY <1>3, <1>7, <2>1, ResultMem
  <2> QED
    BY <1>3, <1>7, <2>2 DEF SameIds
<1>10. PICK M \in Nat : M = Len(imports)
  BY Facts DEF IInv
<1>11. /\ imports' \in Seq(Records) /\ Len(imports') = M + 1 /\ imports'[M + 1] = d
       /\ \A k \in 1..M : imports'[k] = imports[k]
  BY <1>0, <1>3, <1>6, <1>10, Pushed
<1>12. \A k \in 1..(M + 1) : k \in 1..M \/ k = M + 1
  OBVIOUS
<1>13. /\ Typed' /\ OwnAddrs' /\ ScopesInPlace' /\ ExportsMine'
       /\ \A j, k \in 1..Len(stack') :
            (j # k /\ stack'[j].file = stack'[k].file /\ stack'[j].isolated = stack'[k].isolated)
            => <<stack'[j].file, stack'[j].isolated>> \in cyclic'
  BY <1>0, <1>3, <1>9, <1>11, PopInv
<1>14. DOMAIN imports = 1..M /\ DOMAIN imports' = 1..(M + 1)
  BY <1>10, <1>11, <1>13, Facts DEF IInv
<1>15. ExportsAtHome'
  <2>1. Mine(cur, stack[L].file) /\ (stack[L].isolated => stack[L].addr # Ctx)
    <3>1. L \in 1..L
      OBVIOUS
    <3> QED
      BY <1>0, <1>1, <3>1 DEF IInv, ExportsMine, OwnAddrs
  <2>2. /\ d.has => d.by = d.file
        /\ d.isolated => d.exports.at # Ctx /\ (d.own => d.exports.at = d.scope)
    BY <1>4, <1>6, <2>1 DEF Mine
  <2>3. \A k \in 1..M :
          /\ imports[k].has => imports[k].by = imports[k].file
          /\ imports[k].isolated => /\ imports[k].exports.at # Ctx
                                    /\ imports[k].own => imports[k].exports.at = imports[k].scope
    BY <1>14 DEF IInv, ExportsAtHome
  <2>4. \A k \in 1..(M + 1) :
          /\ imports'[k].has => imports'[k].by = imports'[k].file
          /\ imports'[k].isolated => /\ imports'[k].exports.at # Ctx
                                     /\ imports'[k].own => imports'[k].exports.at = imports'[k].scope
    BY <1>11, <1>12, <2>2, <2>3
  <2> QED
    BY <1>14, <2>4 DEF ExportsAtHome
<1>16. L \in 1..L /\ \A j \in 1..(L - 1) : j \in 1..L /\ j # L /\ stack'[j] = stack[j]
  BY <1>2, <1>3
<1>17. ASSUME NEW j \in 1..M, imports[j].file = d.file, imports[j].isolated = d.isolated
       PROVE  <<d.file, d.isolated>> \in cyclic
  BY <1>1, <1>6, <1>10, <1>16, <1>17 DEF IInv, Circles
<1>18. ImportedOnce'
  <2>1. ASSUME NEW j \in 1..(M + 1), NEW k \in 1..(M + 1), j # k,
               imports'[j].file = imports'[k].file, imports'[j].isolated = imports'[k].isolated
        PROVE  <<imports'[j].file, imports'[j].isolated>> \in cyclic
    <3>1. CASE j \in 1..M /\ k \in 1..M
      BY <1>11, <1>14, <2>1, <3>1 DEF IInv, ImportedOnce
    <3>2. CASE j \in 1..M /\ k = M + 1
      BY <1>11, <1>17, <2>1, <3>2
    <3>3. CASE j = M + 1 /\ k \in 1..M
      BY <1>11, <1>17, <2>1, <3>3
    <3> QED
      BY <1>12, <2>1, <3>1, <3>2, <3>3
  <2> QED
    BY <1>3, <1>14, <2>1 DEF ImportedOnce
<1>19. Circles'
  <2>1. ASSUME NEW j \in 1..(L - 1), NEW k \in 1..(M + 1),
               stack'[j].file = imports'[k].file, stack'[j].isolated = imports'[k].isolated
        PROVE  <<stack'[j].file, stack'[j].isolated>> \in cyclic
    <3>1. CASE k \in 1..M
      BY <1>1, <1>10, <1>11, <1>16, <2>1, <3>1 DEF IInv, Circles
    <3>2. CASE k = M + 1
      BY <1>1, <1>6, <1>11, <1>16, <2>1, <3>2 DEF IInv, Circles
    <3> QED
      BY <1>12, <3>1, <3>2
  <2>2. Len(stack') = L - 1
    BY <1>2, <1>3
  <2> QED
    BY <1>3, <1>11, <1>13, <2>1, <2>2 DEF Circles
<1> QED
  BY <1>13, <1>15, <1>18, <1>19 DEF IInv

-----------------------------------------------------------------------------
(* Chains.                                                                 *)

(* Induction over the numbers, for sets.                                   *)
LEMMA Least ==
  ASSUME NEW T \in SUBSET Nat, T # {}
  PROVE  \E n \in T : \A k \in T : n <= k
<1> DEFINE R == {p \in Nat \X Nat : p[1] < p[2]}
<1>1. IsWellFoundedOn(R, Nat)
  BY NatLessThanWellFounded DEF OpToRel
<1> HIDE DEF R
<1>2. PICK n \in T : \A k \in T : ~(<<k, n>> \in R)
  BY <1>1, WFMin
<1>3. \A k \in T : ~(k < n)
  BY <1>2 DEF R
<1> QED
  BY <1>3

LEMMA Induction ==
  ASSUME NEW S, 0 \in S, \A n \in Nat : n \in S => n + 1 \in S
  PROVE  \A n \in Nat : n \in S
<1> SUFFICES ASSUME Nat \ S # {}
             PROVE  FALSE
  OBVIOUS
<1>1. PICK n \in Nat \ S : \A k \in Nat \ S : n <= k
  BY Least
<1>2. n - 1 \in Nat /\ n - 1 \in S
  BY <1>1
<1> QED
  BY <1>1, <1>2

(* The largest member of a set of numbers below n.                         *)
LEMMA Largest ==
  ASSUME NEW n \in Nat, NEW T \in SUBSET (0..n), T # {}
  PROVE  Max(T) \in T /\ \A k \in T : k <= Max(T)
<1> DEFINE U == {n - k : k \in T}
<1>0. \A k \in T : k \in 0..n /\ n - k \in Nat
  OBVIOUS
<1>1. U \in SUBSET Nat /\ U # {}
  BY <1>0
<1>2. PICK u \in U : \A k \in U : u <= k
  BY <1>1, Least
<1>3. PICK t \in T : u = n - t
  BY <1>2
<1>4. \A k \in T : k <= t
  <2> SUFFICES ASSUME NEW k \in T
               PROVE  k <= t
    OBVIOUS
  <2>1. n - t <= n - k
    BY <1>2, <1>3
  <2> QED
    BY <1>0, <2>1
<1> QED
  BY <1>4 DEF Max

LEMMA Smallest ==
  ASSUME NEW T \in SUBSET Nat, T # {}
  PROVE  Min(T) \in T /\ \A k \in T : Min(T) <= k
<1>1. PICK t \in T : \A k \in T : t <= k
  BY Least
<1> QED
  BY <1>1 DEF Min

(* One step along the parents, and along the list of closures.             *)
Up(m, x) == IF x = None THEN None ELSE m[x].parent
On(m, x) == IF x = None THEN None ELSE m[x].next

(* Ancestor unfolds: the recursive function it chooses exists.             *)
LEMMA AncestorDef ==
  ASSUME NEW m, NEW a, NEW n \in Nat
  PROVE  \E g : /\ g = [j \in 0..n |-> IF j = 0 THEN a ELSE Up(m, g[j - 1])]
                /\ Ancestor(m, a, n) = g[n]
<1> DEFINE P(g, k) == g = [j \in 0..k |-> IF j = 0 THEN a ELSE Up(m, g[j - 1])]
<1> DEFINE S == {k \in Nat : \E g : P(g, k)}
<1>1. 0 \in S
  <2> DEFINE g == [i \in 0..0 |-> a]
  <2>1. P(g, 0)
    OBVIOUS
  <2> QED
    BY <2>1
<1>2. ASSUME NEW k \in Nat, k \in S
      PROVE  k + 1 \in S
  <2>1. PICK g : P(g, k)
    BY <1>2
  <2> DEFINE h == [i \in 0..(k + 1) |-> IF i <= k THEN g[i] ELSE Up(m, g[k])]
  <2>2. P(h, k + 1)
    BY <2>1
  <2> HIDE DEF P, h
  <2> QED
    BY <2>2
<1>3. \E g : P(g, n)
  <2> HIDE DEF P
  <2>1. \A k \in Nat : k \in S
    <3> HIDE DEF S
    <3> QED BY <1>1, <1>2, Induction
  <2> QED BY <2>1
<1> QED
  BY <1>3 DEF Ancestor, Up

LEMMA AncestorZero ==
  ASSUME NEW m, NEW a
  PROVE  Ancestor(m, a, 0) = a
BY AncestorDef

LEMMA AncestorNext ==
  ASSUME NEW m, NEW a, NEW n \in Nat
  PROVE  Ancestor(m, a, n + 1) = Up(m, Ancestor(m, a, n))
<1> DEFINE D(g, k) == g = [j \in 0..k |-> IF j = 0 THEN a ELSE Up(m, g[j - 1])]
<1>1. PICK g : D(g, n) /\ Ancestor(m, a, n) = g[n]
  BY AncestorDef
<1>2. PICK h : D(h, n + 1) /\ Ancestor(m, a, n + 1) = h[n + 1]
  BY AncestorDef, n + 1 \in Nat
<1> DEFINE S == {k \in Nat : k <= n => g[k] = h[k]}
<1>3. 0 \in S
  BY <1>1, <1>2
<1>4. ASSUME NEW k \in Nat, k \in S
      PROVE  k + 1 \in S
  BY <1>1, <1>2, <1>4
<1>5. \A k \in Nat : k \in S
  <2> HIDE DEF S
  <2> QED
    BY <1>3, <1>4, Induction
<1>6. g[n] = h[n] /\ h[n + 1] = Up(m, h[n])
  BY <1>2, <1>5
<1> QED
  BY <1>1, <1>2, <1>6

(* The walk of Closures: from the struct a along the list.                 *)
IsWalk(f, m, a) ==
  /\ f = [j \in 0..MaxScopes |-> f[j]]
  /\ f[0] = m[a].next
  /\ \A j \in 0..(MaxScopes - 1) : f[j + 1] = On(m, f[j])

Listed(f) == [j \in 1..Cardinality({j \in 0..MaxScopes : f[j] # None}) |-> f[j - 1]]

LEMMA ClosuresDef ==
  ASSUME NEW m, NEW a
  PROVE  \E f : IsWalk(f, m, a) /\ Closures(m, a) = Listed(f)
<1> DEFINE P(g, k) == g = [j \in 0..k |-> IF j = 0 THEN m[a].next ELSE On(m, g[j - 1])]
<1> DEFINE S == {k \in Nat : \E g : P(g, k)}
<1>1. 0 \in S
  <2> DEFINE g == [i \in 0..0 |-> m[a].next]
  <2>1. P(g, 0)
    OBVIOUS
  <2> QED
    BY <2>1
<1>2. ASSUME NEW k \in Nat, k \in S
      PROVE  k + 1 \in S
  <2>1. PICK g : P(g, k)
    BY <1>2
  <2> DEFINE h == [i \in 0..(k + 1) |-> IF i <= k THEN g[i] ELSE On(m, g[k])]
  <2>2. P(h, k + 1)
    BY <2>1
  <2> HIDE DEF P, h
  <2> QED
    BY <2>2
<1>3. \E g : P(g, MaxScopes)
  <2> HIDE DEF P
  <2>1. \A k \in Nat : k \in S
    <3> HIDE DEF S
    <3> QED BY <1>1, <1>2, Induction
  <2> QED BY <2>1, Bounds
<1> DEFINE f == CHOOSE g : P(g, MaxScopes)
<1>4. P(f, MaxScopes)
  BY <1>3
<1>5. Closures(m, a) = Listed(f)
  BY DEF Closures, On, Listed
<1> HIDE DEF f
<1>6. IsWalk(f, m, a)
  <2>0. MaxScopes \in Nat
    BY Bounds
  <2>1. \A j \in 0..MaxScopes : f[j] = IF j = 0 THEN m[a].next ELSE On(m, f[j - 1])
    BY <1>4
  <2>2. \A j \in 0..(MaxScopes - 1) : j + 1 \in 0..MaxScopes /\ j + 1 # 0 /\ (j + 1) - 1 = j
    BY <2>0
  <2>3. f = [j \in 0..MaxScopes |-> f[j]]
    BY <1>4
  <2>4. f[0] = m[a].next
    BY <2>0, <2>1
  <2>5. ASSUME NEW j \in 0..(MaxScopes - 1)
        PROVE  f[j + 1] = On(m, f[j])
    BY <2>1, <2>2
  <2> QED
    BY <2>3, <2>4, <2>5 DEF IsWalk
<1> QED
  BY <1>5, <1>6

(* What the fields id, live, parent and next of the structs say when the   *)
(* addresses in Q, with that of the context, hold the running modules and  *)
(* those that wait, and n snapshots were made.                             *)

(* Nobody is in two structs.  The structs of Q belong to the modules of Q  *)
(* and, one, to the host's script; a module that waits is above its own    *)
(* address.                                                                *)
IdsOK(m, Q) ==
  /\ \A a, b \in Addrs : m[a].id = m[b].id => a = b
  /\ \A a \in Q : m[a].id \in Q /\ (a # Ctx => m[a].id < a)
  /\ \A a \in Addrs \ Q : m[a].id = a

(* A lookup goes from a module to the one that imports it.                 *)
ParentsOK(m, Q) ==
  /\ \A a \in Q : m[a].parent = IF m[a].id = Ctx THEN None ELSE m[a].id
  /\ \A a \in Addrs \ Q : m[a].parent \in {None, Ctx}

LivesOK(m, Q, n) ==
  /\ \A a \in Q : m[a].live
  /\ \A a \in Addrs : m[a].live => a <= n

(* The snapshots behind the scope i in the list: older ones, or all.       *)
Behind(m, i) == {b \in Addrs : m[b].live /\ b # Ctx /\ (i = Ctx \/ b < i)}
IsNext(m, i, x) ==
  IF Behind(m, i) = {} THEN x = None ELSE x \in Behind(m, i) /\ \A b \in Behind(m, i) : b <= x
NextsOK(m) == \A a \in Addrs : m[a].live => IsNext(m, m[a].id, m[a].next)

Linked(m, Q, n) ==
  /\ Q \in SUBSET Addrs /\ Ctx \in Q /\ n \in 0..MaxScopes
  /\ IdsOK(m, Q) /\ ParentsOK(m, Q) /\ LivesOK(m, Q, n) /\ NextsOK(m)

(* Two memories that differ in values only.                                *)
SameLinks(m, p) ==
  \A a \in Addrs : /\ p[a].id = m[a].id /\ p[a].live = m[a].live
                   /\ p[a].parent = m[a].parent /\ p[a].next = m[a].next

LEMMA SameLinked ==
  ASSUME NEW m, NEW Q, NEW n, Linked(m, Q, n), NEW p, SameLinks(m, p)
  PROVE  Linked(p, Q, n)
<1>1. Q \in SUBSET Addrs
  BY DEF Linked
<1>2. IdsOK(p, Q) /\ ParentsOK(p, Q)
  BY <1>1 DEF Linked, SameLinks, IdsOK, ParentsOK
<1>3. LivesOK(p, Q, n)
  BY <1>1 DEF Linked, SameLinks, LivesOK
<1>4. \A i : Behind(p, i) = Behind(m, i)
  BY DEF SameLinks, Behind
<1>5. NextsOK(p)
  BY <1>4 DEF Linked, SameLinks, NextsOK, IsNext
<1> QED
  BY <1>2, <1>3, <1>5 DEF Linked

(* A lookup ends: along Q the addresses fall.                              *)
LEMMA PathStep ==
  ASSUME NEW m, NEW Q, NEW n, Linked(m, Q, n), NEW a \in Q
  PROVE  /\ Up(m, a) = None \/ (Up(m, a) \in Q \ {Ctx} /\ Up(m, a) \in 1..MaxScopes)
         /\ a # Ctx /\ Up(m, a) # None => Up(m, a) < a
         /\ Up(m, a) = None <=> m[a].id = Ctx
<1>1. a \in Addrs /\ a # None
  BY Bounds DEF Linked
<1>2. m[a].id \in Q /\ m[a].id \in 0..MaxScopes /\ (a # Ctx => m[a].id < a)
  BY Bounds DEF Linked, IdsOK
<1>3. m[a].parent = IF m[a].id = Ctx THEN None ELSE m[a].id
  BY DEF Linked, ParentsOK
<1>4. Up(m, a) = m[a].parent
  BY <1>1 DEF Up
<1> QED
  BY <1>2, <1>3, <1>4, Bounds DEF None, Ctx

LEMMA PathFrom ==
  ASSUME NEW m, NEW Q, NEW n, Linked(m, Q, n)
  PROVE  \A k \in Nat : \/ Ancestor(m, Ctx, k) = None
                        \/ /\ Ancestor(m, Ctx, k) \in Q
                           /\ k > 0 => Ancestor(m, Ctx, k) \in 1..(MaxScopes - k + 1)
<1> DEFINE A(k) == Ancestor(m, Ctx, k)
<1> DEFINE S == {k \in Nat : A(k) = None \/ (A(k) \in Q /\ (k > 0 => A(k) \in 1..(MaxScopes - k + 1)))}
<1>0. MaxScopes \in Nat
  BY Bounds
<1>1. 0 \in S
  BY AncestorZero DEF Linked
<1>2. ASSUME NEW k \in Nat, k \in S
      PROVE  k + 1 \in S
  <2>1. A(k + 1) = Up(m, A(k))
    BY AncestorNext
  <2>2. CASE A(k) = None
    BY <2>1, <2>2 DEF Up
  <2>3. CASE A(k) # None
    <3>1. A(k) \in Q /\ (k > 0 => A(k) \in 1..(MaxScopes - k + 1))
      BY <1>2, <2>3
    <3>2. /\ A(k + 1) = None \/ (A(k + 1) \in Q \ {Ctx} /\ A(k + 1) \in 1..MaxScopes)
          /\ A(k) # Ctx /\ A(k + 1) # None => A(k + 1) < A(k)
      BY <2>1, <3>1, PathStep
    <3>3. k > 0 => A(k) # Ctx
      BY <1>0, <3>1 DEF Ctx
    <3> HIDE DEF A
    <3>4. CASE k > 0
      BY <1>0, <3>1, <3>2, <3>3, <3>4
    <3>5. CASE k = 0
      BY <1>0, <3>2, <3>5
    <3> QED
      BY <3>4, <3>5
  <2> QED
    BY <2>2, <2>3
<1>3. \A k \in Nat : k \in S
  <2> HIDE DEF S
  <2> QED
    BY <1>1, <1>2, Induction
<1> QED
  BY <1>3

(* Snapshots are linked to the struct of the host's script.                *)
LEMMA RootIs ==
  ASSUME NEW m, NEW Q, NEW n, Linked(m, Q, n)
  PROVE  Root(m) \in Q /\ m[Root(m)].id = Ctx
<1> DEFINE A(k) == Ancestor(m, Ctx, k)
<1> DEFINE V == Visited(m, Ctx)
<1>0. MaxScopes \in Nat
  BY Bounds
<1>1. A(0) = Ctx /\ Ctx # None
  BY AncestorZero, Bounds
<1>2. V \in SUBSET (0..MaxScopes) /\ 0 \in V
  BY <1>0, <1>1 DEF Visited
<1> DEFINE z == Max(V)
<1>3. z \in V /\ \A k \in V : k <= z
  BY <1>0, <1>2, Largest
<1>4. z \in Nat /\ z \in 0..MaxScopes /\ A(z) # None
  BY <1>2, <1>3 DEF Visited
<1>5. A(z + 1) = None
  <2>1. CASE z + 1 \in 0..MaxScopes
    BY <1>0, <1>3, <1>4, <2>1 DEF Visited
  <2>2. CASE z + 1 \notin 0..MaxScopes
    <3>1. z = MaxScopes
      BY <1>0, <1>4, <2>2
    <3>2. z + 1 \in Nat /\ z + 1 > 0
      BY <1>4
    <3>3. A(z + 1) = None \/ A(z + 1) \in 1..(MaxScopes - (z + 1) + 1)
      BY <3>2, PathFrom
    <3> QED
      BY <1>0, <3>1, <3>3
  <2> QED
    BY <2>1, <2>2
<1>6. A(z) \in Q
  BY <1>4, PathFrom
<1>7. Up(m, A(z)) = None
  BY <1>4, <1>5, AncestorNext
<1>8. Root(m) = A(z)
  BY DEF Root
<1> HIDE DEF A, z
<1> QED
  BY <1>6, <1>7, <1>8, PathStep

(* The lookup from any address ends within MaxScopes + 1 steps.            *)
LEMMA LookupEnds ==
  ASSUME NEW m, NEW Q, NEW n, Linked(m, Q, n), NEW a \in Addrs
  PROVE  Ancestor(m, a, MaxScopes + 1) = None
<1> DEFINE A(k) == Ancestor(m, a, k)
<1>0. MaxScopes \in Nat /\ a \in 0..MaxScopes /\ None \notin Addrs /\ Q \in SUBSET Addrs
  BY Bounds DEF Linked
<1>1. A(0) = a
  BY AncestorZero
<1>2. \A k \in Nat : A(k + 1) = Up(m, A(k))
  BY AncestorNext
<1>3. CASE a \in Q
  <2> DEFINE S == {k \in Nat : A(k) = None \/ (A(k) \in Q /\ (k > 0 => A(k) \in 1..(MaxScopes - k + 1)))}
  <2>1. 0 \in S
    BY <1>1, <1>3
  <2>2. ASSUME NEW k \in Nat, k \in S
        PROVE  k + 1 \in S
    <3>1. CASE A(k) = None
      BY <1>2, <3>1 DEF Up
    <3>2. CASE A(k) # None
      <4>1. A(k) \in Q /\ (k > 0 => A(k) \in 1..(MaxScopes - k + 1))
        BY <2>2, <3>2
      <4>2. /\ A(k + 1) = None \/ (A(k + 1) \in Q \ {Ctx} /\ A(k + 1) \in 1..MaxScopes)
            /\ A(k) # Ctx /\ A(k + 1) # None => A(k + 1) < A(k)
        BY <1>2, <4>1, PathStep
      <4>3. k > 0 => A(k) # Ctx
        BY <1>0, <4>1 DEF Ctx
      <4> HIDE DEF A
      <4>4. CASE k > 0
        BY <1>0, <4>1, <4>2, <4>3, <4>4
      <4>5. CASE k = 0
        BY <1>0, <4>2, <4>5
      <4> QED
        BY <4>4, <4>5
    <3> QED
      BY <3>1, <3>2
  <2>3. \A k \in Nat : k \in S
    <3> HIDE DEF S
    <3> QED
      BY <2>1, <2>2, Induction
  <2> QED
    BY <1>0, <2>3
<1>4. CASE a \notin Q
  <2>0. a # Ctx /\ a # None /\ m[a].parent \in {None, Ctx} /\ Ctx \in Q
    BY <1>0, <1>4 DEF Linked, ParentsOK
  <2>1. A(1) \in {None, Ctx}
    BY <1>1, <1>2, <2>0 DEF Up
  <2> DEFINE H(b) == IF b > a THEN b - 1 ELSE b
  <2> DEFINE S == {k \in Nat : \/ A(k + 1) = None
                               \/ /\ A(k + 1) \in Q
                                  /\ k > 0 => A(k + 1) # Ctx /\ H(A(k + 1)) <= MaxScopes - k}
  <2>2. 0 \in S
    BY <2>0, <2>1
  <2>3. ASSUME NEW k \in Nat, k \in S
        PROVE  k + 1 \in S
    <3>0. A((k + 1) + 1) = Up(m, A(k + 1))
      BY <1>2
    <3>1. CASE A(k + 1) = None
      BY <3>0, <3>1 DEF Up
    <3>2. CASE A(k + 1) # None
      <4> DEFINE x == A(k + 1)
      <4> DEFINE y == A((k + 1) + 1)
      <4>1. x \in Q /\ (k > 0 => x # Ctx /\ H(x) <= MaxScopes - k)
        BY <2>3, <3>2
      <4>2. /\ y = None \/ (y \in Q \ {Ctx} /\ y \in 1..MaxScopes)
            /\ x # Ctx /\ y # None => y < x
        BY <3>0, <4>1, PathStep
      <4>3. x \in 0..MaxScopes /\ x # a /\ y # a
        BY <1>0, <1>4, <2>0, <4>1, <4>2, Bounds
      <4> HIDE DEF A, x, y
      <4>4. k = 0 /\ y # None => H(y) <= MaxScopes - (k + 1)
        BY <1>0, <4>2, <4>3
      <4>5. k > 0 /\ y # None => H(y) <= MaxScopes - (k + 1)
        BY <1>0, <4>1, <4>2, <4>3
      <4>6. y = None \/ (y \in Q /\ y # Ctx /\ H(y) <= MaxScopes - (k + 1))
        BY <4>2, <4>4, <4>5
      <4> QED
        BY <4>6 DEF y
    <3> QED
      BY <3>1, <3>2
  <2>4. \A k \in Nat : k \in S
    <3> HIDE DEF S
    <3> QED
      BY <2>2, <2>3, Induction
  <2>5. CASE MaxScopes > 0
    <3> DEFINE z == A(MaxScopes + 1)
    <3>1. z # None => z \in Q /\ z # Ctx /\ H(z) <= 0
      BY <1>0, <2>4, <2>5
    <3> HIDE DEF z, S
    <3> HIDE DEF H
    <3>2. z # None => z \in 1..MaxScopes /\ z # a
      <4>1. z # None => z \in 0..MaxScopes /\ z # a
        BY <1>0, <1>4, <3>1, Bounds
      <4>2. z # None => z # 0
        BY <3>1 DEF Ctx
      <4> QED
        BY <1>0, <4>1, <4>2
    <3>3. z = None
      <4>1. a # 0
        BY <2>0 DEF Ctx
      <4> QED
        BY <1>0, <3>1, <3>2, <4>1 DEF H
    <3> QED
      BY <3>3 DEF z
  <2>6. CASE MaxScopes = 0
    BY <1>0, <2>0, <2>6 DEF Ctx
  <2> QED
    BY <1>0, <2>5, <2>6
<1> QED
  BY <1>3, <1>4

-----------------------------------------------------------------------------
(* What the operations do to the fields of the structs.                    *)

SameStruct(s, t) ==
  /\ t.id = s.id /\ t.live = s.live /\ t.parent = s.parent /\ t.next = s.next
  /\ t.fn = s.fn /\ t.v = s.v

(* A reference more or less, if the scope is counted at all.               *)
Inc(r, c) == IF c /\ r > 0 THEN r + 1 ELSE r
Dec(r, c) == IF c /\ r > 0 THEN r - 1 ELSE r

LEMMA FieldRef ==
  ASSUME NEW s, IsScope(s), NEW r
  PROVE  SameStruct(s, [s EXCEPT !.ref = r]) /\ [s EXCEPT !.ref = r].ref = r
BY DEF IsScope, SameStruct

LEMMA FieldV ==
  ASSUME NEW s, IsScope(s), NEW x
  PROVE  LET t == [s EXCEPT !.v = x] IN
         /\ t.id = s.id /\ t.live = s.live /\ t.parent = s.parent /\ t.next = s.next
         /\ t.fn = s.fn /\ t.v = x /\ t.ref = s.ref
BY DEF IsScope

LEMMA FieldFn ==
  ASSUME NEW s, IsScope(s), NEW x
  PROVE  LET t == [s EXCEPT !.fn = x] IN
         /\ t.id = s.id /\ t.live = s.live /\ t.parent = s.parent /\ t.next = s.next
         /\ t.fn = x /\ t.v = s.v /\ t.ref = s.ref
BY DEF IsScope

LEMMA FieldNext ==
  ASSUME NEW s, IsScope(s), NEW x
  PROVE  LET t == [s EXCEPT !.next = x] IN
         /\ t.id = s.id /\ t.live = s.live /\ t.parent = s.parent /\ t.next = x
         /\ t.fn = s.fn /\ t.v = s.v /\ t.ref = s.ref
BY DEF IsScope

LEMMA FieldParent ==
  ASSUME NEW s, IsScope(s), NEW x
  PROVE  LET t == [s EXCEPT !.parent = x] IN
         /\ t.id = s.id /\ t.live = s.live /\ t.parent = x /\ t.next = s.next
         /\ t.fn = s.fn /\ t.v = s.v /\ t.ref = s.ref
BY DEF IsScope

LEMMA At ==
  ASSUME NEW L, NEW m, IsMem(m, L), NEW a \in Addrs, NEW s
  PROVE  /\ [m EXCEPT ![a] = s][a] = s
         /\ \A b \in Addrs \ {a} : [m EXCEPT ![a] = s][b] = m[b]
BY DEF IsMem

LEMMA RetainIs ==
  ASSUME NEW L, NEW m, IsMem(m, L), NEW a \in Places
  PROVE  \A b \in Addrs : /\ SameStruct(m[b], Retain(m, a)[b])
                          /\ Retain(m, a)[b].ref = Inc(m[b].ref, b = a)
<1>1. CASE a # None /\ m[a].ref > 0
  <2>1. a \in Addrs
    BY <1>1 DEF Places
  <2> DEFINE s == [m[a] EXCEPT !.ref = @ + 1]
  <2>2. SameStruct(m[a], s) /\ s.ref = m[a].ref + 1
    BY <2>1, FieldRef DEF IsMem
  <2>3. Retain(m, a) = [m EXCEPT ![a] = s]
    BY <1>1 DEF Retain
  <2> HIDE DEF s
  <2>4. [m EXCEPT ![a] = s][a] = s /\ \A b \in Addrs \ {a} : [m EXCEPT ![a] = s][b] = m[b]
    BY <2>1, At
  <2> QED
    BY <1>1, <2>1, <2>2, <2>3, <2>4 DEF SameStruct, Inc
<1>2. CASE ~(a # None /\ m[a].ref > 0)
  BY <1>2, Bounds DEF Retain, SameStruct, Inc
<1> QED
  BY <1>1, <1>2

(* References are taken and none is given up.                              *)
Raised(m, p) ==
  \A b \in Addrs : /\ SameStruct(m[b], p[b])
                   /\ m[b].ref \in Nat => p[b].ref \in Nat /\ m[b].ref <= p[b].ref

LEMMA RaisedTwice ==
  ASSUME NEW m, NEW p, NEW q, Raised(m, p), Raised(p, q)
  PROVE  Raised(m, q)
<1> SUFFICES ASSUME NEW b \in Addrs
             PROVE  /\ SameStruct(m[b], q[b])
                    /\ m[b].ref \in Nat => q[b].ref \in Nat /\ m[b].ref <= q[b].ref
  BY DEF Raised
<1>1. /\ SameStruct(m[b], p[b]) /\ SameStruct(p[b], q[b])
      /\ m[b].ref \in Nat => p[b].ref \in Nat /\ m[b].ref <= p[b].ref
      /\ p[b].ref \in Nat => q[b].ref \in Nat /\ p[b].ref <= q[b].ref
  BY DEF Raised
<1>2. SameStruct(m[b], q[b])
  BY <1>1 DEF SameStruct
<1> QED
  BY <1>1, <1>2

LEMMA RetainRaised ==
  ASSUME NEW L, NEW m, IsMem(m, L), NEW a \in Places
  PROVE  IsMem(Retain(m, a), L) /\ Raised(m, Retain(m, a))
<1> DEFINE p == Retain(m, a)
<1>1. IsMem(p, L) /\ \A b \in Addrs : SameStruct(m[b], p[b]) /\ p[b].ref = Inc(m[b].ref, b = a)
  BY RetainMem, RetainIs
<1> HIDE DEF p
<1>2. \A b \in Addrs : m[b].ref \in Nat => p[b].ref \in Nat /\ m[b].ref <= p[b].ref
  BY <1>1 DEF Inc
<1>3. IsMem(p, L) /\ Raised(m, p)
  BY <1>1, <1>2 DEF Raised
<1> QED
  BY <1>3 DEF p

LEMMA CloneRaised ==
  ASSUME NEW L, NEW m, IsMem(m, L), NEW x \in Values
  PROVE  IsMem(Clone(m, x), L) /\ Raised(m, Clone(m, x))
<1>1. x.at \in Places
  BY DEF Values
<1> DEFINE p == Retain(m, x.at)
<1>2. IsMem(p, L) /\ Raised(m, p)
  BY <1>1, RetainRaised
<1>3. Clone(m, x) = Retain(p, x.at)
  BY DEF Clone
<1> HIDE DEF p
<1>4. IsMem(Retain(p, x.at), L) /\ Raised(p, Retain(p, x.at))
  BY <1>1, <1>2, RetainRaised
<1> QED
  BY <1>2, <1>3, <1>4, RaisedTwice

LEMMA ReleaseIs ==
  ASSUME NEW L, NEW m, IsMem(m, L), NEW a \in Places
  PROVE  \A b \in Addrs : /\ SameStruct(m[b], Release(m, a)[b])
                          /\ Release(m, a)[b].ref = Dec(m[b].ref, b = a)
<1>1. CASE a # None /\ m[a].ref > 0
  <2>1. a \in Addrs
    BY <1>1 DEF Places
  <2> DEFINE s == [m[a] EXCEPT !.ref = @ - 1]
  <2>2. SameStruct(m[a], s) /\ s.ref = m[a].ref - 1
    BY <2>1, FieldRef DEF IsMem
  <2>3. Release(m, a) = [m EXCEPT ![a] = s]
    BY <1>1 DEF Release
  <2> HIDE DEF s
  <2>4. [m EXCEPT ![a] = s][a] = s /\ \A b \in Addrs \ {a} : [m EXCEPT ![a] = s][b] = m[b]
    BY <2>1, At
  <2> QED
    BY <1>1, <2>1, <2>2, <2>3, <2>4 DEF SameStruct, Dec
<1>2. CASE ~(a # None /\ m[a].ref > 0)
  BY <1>2, Bounds DEF Release, SameStruct, Dec
<1> QED
  BY <1>1, <1>2

(* A reference is taken and one is given up.                               *)
LEMMA MoveIs ==
  ASSUME NEW L, NEW m, IsMem(m, L), NEW a \in Places, NEW c \in Places
  PROVE  LET p == Release(Retain(m, a), c) IN
         \A b \in Addrs : /\ SameStruct(m[b], p[b])
                          /\ p[b].ref = Dec(Inc(m[b].ref, b = a), b = c)
<1> DEFINE r == Retain(m, a)
<1>1. IsMem(r, L) /\ \A b \in Addrs : SameStruct(m[b], r[b]) /\ r[b].ref = Inc(m[b].ref, b = a)
  BY RetainMem, RetainIs
<1> HIDE DEF r
<1>2. \A b \in Addrs : SameStruct(r[b], Release(r, c)[b]) /\ Release(r, c)[b].ref = Dec(r[b].ref, b = c)
  BY <1>1, ReleaseIs
<1>3. \A b \in Addrs : /\ SameStruct(m[b], Release(r, c)[b])
                       /\ Release(r, c)[b].ref = Dec(Inc(m[b].ref, b = a), b = c)
  BY <1>1, <1>2 DEF SameStruct
<1> QED
  BY <1>3 DEF r

LEMMA AssignIs ==
  ASSUME NEW L, NEW m, IsMem(m, L), NEW x \in Values
  PROVE  LET p == Assign(m, x) IN
         /\ SameLinks(m, p)
         /\ \A b \in Addrs : /\ p[b].fn = m[b].fn /\ p[b].v = IF b = Ctx THEN x ELSE m[b].v
                             /\ p[b].ref = Dec(Inc(m[b].ref, b = x.at), b = m[Ctx].v.at)
<1>1. x.at \in Places /\ m[Ctx].v.at \in Places
  BY Bounds DEF IsMem, IsScope, Values
<1> DEFINE r == Release(Retain(m, x.at), m[Ctx].v.at)
<1>2. \A b \in Addrs : /\ SameStruct(m[b], r[b])
                       /\ r[b].ref = Dec(Inc(m[b].ref, b = x.at), b = m[Ctx].v.at)
  BY <1>1, MoveIs
<1>3. IsMem(r, L)
  BY <1>1, RetainMem, ReleaseMem
<1> DEFINE s == [r[Ctx] EXCEPT !.v = x]
<1>4. Assign(m, x) = [r EXCEPT ![Ctx] = s]
  BY DEF Assign
<1> HIDE DEF r
<1>5. /\ s.id = r[Ctx].id /\ s.live = r[Ctx].live /\ s.parent = r[Ctx].parent /\ s.next = r[Ctx].next
      /\ s.fn = r[Ctx].fn /\ s.v = x /\ s.ref = r[Ctx].ref
  BY <1>3, Bounds, FieldV DEF IsMem
<1> HIDE DEF s
<1> DEFINE p == [r EXCEPT ![Ctx] = s]
<1>6. p[Ctx] = s /\ \A b \in Addrs \ {Ctx} : p[b] = r[b]
  BY <1>3, Bounds, At
<1> HIDE DEF p
<1>7. /\ SameLinks(m, p)
      /\ \A b \in Addrs : /\ p[b].fn = m[b].fn /\ p[b].v = IF b = Ctx THEN x ELSE m[b].v
                          /\ p[b].ref = Dec(Inc(m[b].ref, b = x.at), b = m[Ctx].v.at)
  BY <1>2, <1>5, <1>6 DEF SameStruct, SameLinks
<1> QED
  BY <1>4, <1>7 DEF p

(* The new scope n holds x and is linked to the root r of the chain.       *)
LEMMA SnapshotIs ==
  ASSUME NEW L, NEW m, IsMem(m, L), NEW n \in Addrs, NEW x \in Values,
         NEW r \in Addrs, r = Root(m), r # n
  PROVE  LET p == Snapshot(m, n, x) IN
         /\ p[n].id = n /\ p[n].live /\ p[n].parent = None /\ p[n].next = m[r].next
         /\ p[n].fn = Number /\ p[n].v = x /\ p[n].ref = 1
         /\ \A b \in Addrs \ {n} :
              /\ p[b].id = m[b].id /\ p[b].live = m[b].live /\ p[b].parent = m[b].parent
              /\ p[b].fn = m[b].fn /\ p[b].v = m[b].v
              /\ p[b].next = IF b = r THEN n ELSE m[b].next
              /\ p[b].ref = Inc(m[b].ref, b = x.at)
<1> DEFINE q == Retain(m, x.at)
<1> DEFINE s == [NewScope(n) EXCEPT !.v = x, !.next = m[r].next, !.ref = 1]
<1> DEFINE e == [q EXCEPT ![n] = s]
<1> DEFINE t == [e[r] EXCEPT !.next = n]
<1> DEFINE p == [e EXCEPT ![r] = t]
<1>1. Snapshot(m, n, x) = p
  BY DEF Snapshot
<1>2. x.at \in Places
  BY DEF Values
<1>3. IsMem(q, L) /\ \A b \in Addrs : SameStruct(m[b], q[b]) /\ q[b].ref = Inc(m[b].ref, b = x.at)
  BY <1>2, RetainMem, RetainIs
<1>4. /\ s.id = n /\ s.live /\ s.parent = None /\ s.next = m[r].next
      /\ s.fn = Number /\ s.v = x /\ s.ref = 1
  BY DEF NewScope
<1> HIDE DEF s, q
<1>5. e[n] = s /\ \A b \in Addrs \ {n} : e[b] = q[b]
  BY <1>3, At
<1>6. IsScope(e[r])
  BY <1>3, <1>5 DEF IsMem
<1>7. /\ t.id = e[r].id /\ t.live = e[r].live /\ t.parent = e[r].parent /\ t.next = n
      /\ t.fn = e[r].fn /\ t.v = e[r].v /\ t.ref = e[r].ref
  BY <1>6, FieldNext
<1>8. e = [b \in Addrs |-> e[b]]
  BY <1>3 DEF IsMem
<1> HIDE DEF e, t
<1>9. p[r] = t /\ \A b \in Addrs \ {r} : p[b] = e[b]
  BY <1>8
<1> HIDE DEF p
<1>10. /\ p[n].id = n /\ p[n].live /\ p[n].parent = None /\ p[n].next = m[r].next
       /\ p[n].fn = Number /\ p[n].v = x /\ p[n].ref = 1
  BY <1>4, <1>5, <1>9
<1>11. ASSUME NEW b \in Addrs \ {n}
       PROVE  /\ p[b].id = m[b].id /\ p[b].live = m[b].live /\ p[b].parent = m[b].parent
              /\ p[b].fn = m[b].fn /\ p[b].v = m[b].v
              /\ p[b].next = IF b = r THEN n ELSE m[b].next
              /\ p[b].ref = Inc(m[b].ref, b = x.at)
  <2>1. CASE b = r
    BY <1>3, <1>5, <1>7, <1>9, <2>1 DEF SameStruct
  <2>2. CASE b # r
    BY <1>3, <1>5, <1>9, <2>2 DEF SameStruct
  <2> QED
    BY <2>1, <2>2
<1> QED
  BY <1>1, <1>10, <1>11

LEMMA ModuleScopeIs ==
  ASSUME NEW L, NEW m, IsMem(m, L), NEW n \in Addrs, NEW r \in Addrs, r = Root(m), r # n
  PROVE  LET p == ModuleScope(m, n)
             x == m[Ctx].v IN
         /\ p[n].id = n /\ p[n].live /\ p[n].parent = Ctx /\ p[n].next = m[r].next
         /\ p[n].fn = Number /\ p[n].v = x /\ p[n].ref = 1
         /\ \A b \in Addrs \ {n} :
              /\ p[b].id = m[b].id /\ p[b].live = m[b].live /\ p[b].parent = m[b].parent
              /\ p[b].fn = m[b].fn /\ p[b].v = m[b].v
              /\ p[b].next = IF b = r THEN n ELSE m[b].next
              /\ p[b].ref = Inc(m[b].ref, b = x.at)
<1> DEFINE x == m[Ctx].v
<1> DEFINE q == Snapshot(m, n, x)
<1> DEFINE s == [q[n] EXCEPT !.parent = Ctx]
<1> DEFINE p == [q EXCEPT ![n] = s]
<1>1. ModuleScope(m, n) = p
  BY DEF ModuleScope
<1>2. x \in Values
  BY Bounds DEF IsMem, IsScope
<1> HIDE DEF x
<1>3. IsMem(q, L)
  BY <1>2, SnapshotMem
<1>4. /\ q[n].id = n /\ q[n].live /\ q[n].parent = None /\ q[n].next = m[r].next
      /\ q[n].fn = Number /\ q[n].v = x /\ q[n].ref = 1
      /\ \A b \in Addrs \ {n} :
           /\ q[b].id = m[b].id /\ q[b].live = m[b].live /\ q[b].parent = m[b].parent
           /\ q[b].fn = m[b].fn /\ q[b].v = m[b].v
           /\ q[b].next = IF b = r THEN n ELSE m[b].next
           /\ q[b].ref = Inc(m[b].ref, b = x.at)
  BY <1>2, SnapshotIs
<1> HIDE DEF q
<1>5. /\ s.id = q[n].id /\ s.live = q[n].live /\ s.parent = Ctx /\ s.next = q[n].next
      /\ s.fn = q[n].fn /\ s.v = q[n].v /\ s.ref = q[n].ref
  BY <1>3, FieldParent DEF IsMem
<1> HIDE DEF s
<1>6. p[n] = s /\ \A b \in Addrs \ {n} : p[b] = q[b]
  BY <1>3, At
<1> HIDE DEF p
<1>7. /\ p[n].id = n /\ p[n].live /\ p[n].parent = Ctx /\ p[n].next = m[r].next
      /\ p[n].fn = Number /\ p[n].v = x /\ p[n].ref = 1
  BY <1>4, <1>5, <1>6
<1>8. \A b \in Addrs \ {n} :
           /\ p[b].id = m[b].id /\ p[b].live = m[b].live /\ p[b].parent = m[b].parent
           /\ p[b].fn = m[b].fn /\ p[b].v = m[b].v
           /\ p[b].next = IF b = r THEN n ELSE m[b].next
           /\ p[b].ref = Inc(m[b].ref, b = x.at)
  BY <1>4, <1>6
<1> QED
  BY <1>1, <1>7, <1>8 DEF x

(* The new module is at the address of the context, its importer at n.     *)
LEMMA EnterIs ==
  ASSUME NEW L, NEW m, IsMem(m, L), NEW n \in Addrs, n # Ctx, NEW r \in Addrs, r = Root(m), r # n
  PROVE  LET p == Entered(m, n)
             x == m[Ctx].v IN
         /\ p[Ctx].id = n /\ p[Ctx].live /\ p[Ctx].parent = n /\ p[Ctx].next = m[r].next
         /\ p[Ctx].fn = Number /\ p[Ctx].v = x /\ p[Ctx].ref = 1
         /\ p[n].id = m[Ctx].id /\ p[n].live = m[Ctx].live /\ p[n].parent = m[Ctx].parent
         /\ p[n].fn = m[Ctx].fn /\ p[n].v = x
         /\ p[n].next = IF Ctx = r THEN n ELSE m[Ctx].next
         /\ p[n].ref = Inc(m[Ctx].ref, Ctx = x.at)
         /\ \A b \in Addrs \ {Ctx, n} :
              /\ p[b].id = m[b].id /\ p[b].live = m[b].live /\ p[b].parent = m[b].parent
              /\ p[b].fn = m[b].fn /\ p[b].v = m[b].v
              /\ p[b].next = IF b = r THEN n ELSE m[b].next
              /\ p[b].ref = Inc(m[b].ref, b = x.at)
<1> DEFINE x == m[Ctx].v
<1> DEFINE q == ModuleScope(m, n)
<1> DEFINE e == Exchange(q, n)
<1> DEFINE s == [e[Ctx] EXCEPT !.parent = n]
<1> DEFINE p == [e EXCEPT ![Ctx] = s]
<1>1. Entered(m, n) = p
  BY DEF Entered
<1>3. IsMem(q, L)
  BY ModuleScopeMem
<1>4. /\ q[n].id = n /\ q[n].live /\ q[n].parent = Ctx /\ q[n].next = m[r].next
      /\ q[n].fn = Number /\ q[n].v = x /\ q[n].ref = 1
      /\ \A b \in Addrs \ {n} :
           /\ q[b].id = m[b].id /\ q[b].live = m[b].live /\ q[b].parent = m[b].parent
           /\ q[b].fn = m[b].fn /\ q[b].v = m[b].v
           /\ q[b].next = IF b = r THEN n ELSE m[b].next
           /\ q[b].ref = Inc(m[b].ref, b = x.at)
  BY ModuleScopeIs
<1> HIDE DEF q
<1>2. IsMem(e, L)
  BY <1>3, ExchangeMem
<1>7. e[Ctx] = q[n] /\ e[n] = q[Ctx] /\ \A b \in Addrs \ {Ctx, n} : e[b] = q[b]
  <2>1. q = [b \in Addrs |-> q[b]]
    BY <1>3 DEF IsMem
  <2> QED
    BY <2>1, Bounds DEF Exchange
<1> HIDE DEF e
<1>5. /\ s.id = e[Ctx].id /\ s.live = e[Ctx].live /\ s.parent = n /\ s.next = e[Ctx].next
      /\ s.fn = e[Ctx].fn /\ s.v = e[Ctx].v /\ s.ref = e[Ctx].ref
  BY <1>2, FieldParent, Bounds DEF IsMem
<1> HIDE DEF s
<1>6. p[Ctx] = s /\ \A b \in Addrs \ {Ctx} : p[b] = e[b]
  BY <1>2, Bounds DEF IsMem
<1> HIDE DEF p
<1>8. Ctx \in Addrs \ {n}
  BY Bounds
<1>9. /\ p[Ctx].id = n /\ p[Ctx].live /\ p[Ctx].parent = n /\ p[Ctx].next = m[r].next
      /\ p[Ctx].fn = Number /\ p[Ctx].v = x /\ p[Ctx].ref = 1
  BY <1>4, <1>5, <1>6, <1>7
<1>10. p[n] = q[Ctx] /\ \A b \in Addrs \ {Ctx, n} : p[b] = q[b]
  BY <1>6, <1>7
<1> HIDE DEF x
<1>11. /\ p[n].id = m[Ctx].id /\ p[n].live = m[Ctx].live /\ p[n].parent = m[Ctx].parent
       /\ p[n].fn = m[Ctx].fn /\ p[n].v = m[Ctx].v
       /\ p[n].next = IF Ctx = r THEN n ELSE m[Ctx].next
       /\ p[n].ref = Inc(m[Ctx].ref, Ctx = x.at)
  BY <1>4, <1>8, <1>10
<1>12. \A b \in Addrs \ {Ctx, n} :
              /\ p[b].id = m[b].id /\ p[b].live = m[b].live /\ p[b].parent = m[b].parent
              /\ p[b].fn = m[b].fn /\ p[b].v = m[b].v
              /\ p[b].next = IF b = r THEN n ELSE m[b].next
              /\ p[b].ref = Inc(m[b].ref, b = x.at)
  BY <1>4, <1>10
<1> QED
  BY <1>1, <1>9, <1>11, <1>12 DEF x

(* The function of a module that ends is bound to its address.             *)
Rehomed(x, n) == IF x.at = Ctx THEN [x EXCEPT !.at = n] ELSE x

LEMMA LeaveIs ==
  ASSUME NEW L, NEW m, IsMem(m, L), NEW frame \in Frames, frame.addr # Ctx
  PROVE  LET p == LeaveModule(m, frame)
             n == frame.addr IN
         /\ p[Ctx] = m[n]
         /\ p[n].id = m[Ctx].id /\ p[n].live = m[Ctx].live /\ p[n].parent = frame.parent
         /\ p[n].next = m[Ctx].next /\ p[n].v = m[Ctx].v /\ p[n].ref = m[Ctx].ref
         /\ p[n].fn = Rehomed(m[Ctx].fn, n)
         /\ \A b \in Addrs \ {Ctx, n} : p[b] = m[b]
<1> DEFINE n == frame.addr
<1> DEFINE x == Rehomed(m[Ctx].fn, n)
<1> DEFINE t == [m[Ctx] EXCEPT !.fn = x]
<1> DEFINE s == [t EXCEPT !.parent = frame.parent]
<1> DEFINE q == [m EXCEPT ![Ctx] = s]
<1>1. n \in Addrs
  BY DEF Frames
<1>2. m[Ctx].fn \in Values /\ IsScope(m[Ctx])
  BY Bounds DEF IsMem, IsScope
<1>3. x \in Values
  BY <1>1, <1>2 DEF Values, Places, Rehomed
<1>4. [m EXCEPT ![Ctx].fn = IF @.at = Ctx THEN [@ EXCEPT !.at = frame.addr] ELSE @,
                ![Ctx].parent = frame.parent] = q
  BY <1>2, Bounds DEF IsMem, Rehomed
<1>5. LeaveModule(m, frame) = Exchange(q, n)
  BY <1>4 DEF LeaveModule
<1> HIDE DEF x
<1>6. /\ t.id = m[Ctx].id /\ t.live = m[Ctx].live /\ t.parent = m[Ctx].parent /\ t.next = m[Ctx].next
      /\ t.fn = x /\ t.v = m[Ctx].v /\ t.ref = m[Ctx].ref
  BY <1>2, FieldFn
<1>7. IsScope(t)
  BY <1>2, <1>3, SetFn
<1> HIDE DEF t
<1>8. /\ s.id = t.id /\ s.live = t.live /\ s.parent = frame.parent /\ s.next = t.next
      /\ s.fn = t.fn /\ s.v = t.v /\ s.ref = t.ref
  BY <1>7, FieldParent
<1> HIDE DEF s
<1>9. q = [b \in Addrs |-> q[b]] /\ q[Ctx] = s /\ \A b \in Addrs \ {Ctx} : q[b] = m[b]
  BY Bounds DEF IsMem
<1> HIDE DEF q
<1> DEFINE p == Exchange(q, n)
<1>10. p[Ctx] = q[n] /\ p[n] = q[Ctx] /\ \A b \in Addrs \ {Ctx, n} : p[b] = q[b]
  BY <1>1, <1>9, Bounds DEF Exchange
<1> HIDE DEF p
<1>11. p[Ctx] = m[n] /\ p[n] = s /\ \A b \in Addrs \ {Ctx, n} : p[b] = m[b]
  BY <1>1, <1>9, <1>10
<1> QED
  BY <1>5, <1>6, <1>8, <1>11 DEF p, x

LEMMA DefineIs ==
  ASSUME NEW L, NEW m, IsMem(m, L), NEW x \in Values
  PROVE  LET p == Retain([m EXCEPT ![Ctx].fn = x], Ctx) IN
         /\ SameLinks(m, p)
         /\ \A b \in Addrs : /\ p[b].v = m[b].v /\ p[b].fn = IF b = Ctx THEN x ELSE m[b].fn
                             /\ p[b].ref = Inc(m[b].ref, b = Ctx)
<1> DEFINE s == [m[Ctx] EXCEPT !.fn = x]
<1> DEFINE q == [m EXCEPT ![Ctx] = s]
<1>1. IsScope(m[Ctx]) /\ m[Ctx].natives \subseteq L /\ m[Ctx].id \in Addrs
  BY Bounds DEF IsMem
<1>2. /\ s.id = m[Ctx].id /\ s.live = m[Ctx].live /\ s.parent = m[Ctx].parent /\ s.next = m[Ctx].next
      /\ s.fn = x /\ s.v = m[Ctx].v /\ s.ref = m[Ctx].ref
  BY <1>1, FieldFn
<1>3. IsScope(s) /\ s.natives = m[Ctx].natives
  BY <1>1, SetFn
<1> HIDE DEF s
<1>4. IsMem(q, L) /\ q[Ctx] = s /\ \A b \in Addrs \ {Ctx} : q[b] = m[b]
  BY <1>1, <1>2, <1>3, Bounds, Put
<1> HIDE DEF q
<1> DEFINE p == Retain(q, Ctx)
<1>5. \A b \in Addrs : SameStruct(q[b], p[b]) /\ p[b].ref = Inc(q[b].ref, b = Ctx)
  BY <1>4, Bounds, RetainIs DEF Places
<1> HIDE DEF p
<1>6. /\ SameLinks(m, p)
      /\ \A b \in Addrs : /\ p[b].v = m[b].v /\ p[b].fn = IF b = Ctx THEN x ELSE m[b].fn
                          /\ p[b].ref = Inc(m[b].ref, b = Ctx)
  BY <1>2, <1>4, <1>5 DEF SameStruct, SameLinks
<1> QED
  BY <1>6 DEF p, q, s

LEMMA InitPluginIs ==
  ASSUME NEW L, NEW m, IsMem(m, L), NEW p, NEW how \in {"unloaded", "unbound", "ok"}
  PROVE  LET q == InitPlugin(m, p, how) IN
         \A b \in Addrs : SameStruct(m[b], q[b]) /\ q[b].ref = m[b].ref
<1>1. IsScope(m[Ctx])
  BY Bounds DEF IsMem
<1> DEFINE u == [m[Ctx] EXCEPT !.modules = @ \cup {p}]
<1> DEFINE w == [u EXCEPT !.natives = @ \cup {p}]
<1>2. IsScope(u) /\ SameStruct(m[Ctx], u) /\ u.ref = m[Ctx].ref
  BY <1>1 DEF IsScope, SameStruct
<1>3. CASE how = "unloaded"
  BY <1>3 DEF InitPlugin, SameStruct
<1>4. CASE how = "unbound"
  <2>1. InitPlugin(m, p, how) = [m EXCEPT ![Ctx] = u]
    BY <1>4 DEF InitPlugin
  <2> HIDE DEF u
  <2>2. [m EXCEPT ![Ctx] = u][Ctx] = u /\ \A b \in Addrs \ {Ctx} : [m EXCEPT ![Ctx] = u][b] = m[b]
    BY Bounds, At
  <2> QED
    BY <1>2, <2>1, <2>2 DEF SameStruct
<1>5. CASE how = "ok"
  <2>1. InitPlugin(m, p, how) = [m EXCEPT ![Ctx] = w]
    BY <1>5, Bounds DEF InitPlugin, IsMem
  <2> HIDE DEF u
  <2>2. SameStruct(u, w) /\ w.ref = u.ref
    BY <1>2 DEF IsScope, SameStruct
  <2> HIDE DEF w
  <2>3. [m EXCEPT ![Ctx] = w][Ctx] = w /\ \A b \in Addrs \ {Ctx} : [m EXCEPT ![Ctx] = w][b] = m[b]
    BY Bounds, At
  <2> QED
    BY <1>2, <2>1, <2>2, <2>3 DEF SameStruct
<1> QED
  BY <1>3, <1>4, <1>5

-----------------------------------------------------------------------------
(* The links stay whole.                                                   *)

SameLink(s, t) == t.id = s.id /\ t.live = s.live /\ t.parent = s.parent /\ t.next = s.next

(* Ids of live scopes, and of those of Q, are no larger than n.            *)
LEMMA IdBelow ==
  ASSUME NEW m, NEW Q, NEW n, Linked(m, Q, n), NEW a \in Addrs, m[a].live
  PROVE  m[a].id \in 0..n /\ a \in 0..n
<1>1. Q \in SUBSET Addrs /\ n \in 0..MaxScopes
  BY DEF Linked
<1>2. \A b \in Addrs : m[b].live => b <= n
  BY DEF Linked, LivesOK
<1>3. CASE a \in Q
  <2>1. m[a].id \in Q
    BY <1>3 DEF Linked, IdsOK
  <2>2. m[m[a].id].live
    BY <2>1 DEF Linked, LivesOK
  <2>3. m[a].id <= n /\ a <= n
    BY <1>1, <1>2, <2>1, <2>2
  <2>4. m[a].id \in 0..MaxScopes /\ a \in 0..MaxScopes
    BY <1>1, <2>1, Bounds
  <2> QED
    BY <1>1, <2>3, <2>4, Bounds
<1>4. CASE a \notin Q
  <2>1. m[a].id = a
    BY <1>4 DEF Linked, IdsOK
  <2> QED
    BY <1>1, <1>2, <2>1, Bounds
<1> QED
  BY <1>3, <1>4

(* A snapshot is linked to the struct r of the host's script.              *)
LEMMA SnapshotLinked ==
  ASSUME NEW m, NEW Q, NEW n, Linked(m, Q, n), n < MaxScopes, NEW z, z = n + 1,
         NEW r \in Q, m[r].id = Ctx, NEW p,
         p[z].id = z, p[z].live, p[z].parent \in {None, Ctx}, p[z].next = m[r].next,
         \A b \in Addrs \ {z} :
           /\ p[b].id = m[b].id /\ p[b].live = m[b].live /\ p[b].parent = m[b].parent
           /\ p[b].next = IF b = r THEN z ELSE m[b].next
  PROVE  Linked(p, Q, z) /\ z \in Addrs /\ z \notin Q /\ z # Ctx /\ \A a \in Q : m[a].id < z /\ a < z
<1>0. Q \in SUBSET Addrs /\ n \in 0..MaxScopes /\ Ctx \in Q /\ MaxScopes \in Nat
  BY Bounds DEF Linked
<1>1. z \in Addrs /\ z \in 0..MaxScopes /\ ~(z <= n)
  BY <1>0, Bounds
<1>2. ~m[z].live
  <2>1. \A a \in Addrs : m[a].live => a <= n
    BY DEF Linked, LivesOK
  <2> QED
    BY <1>1, <2>1
<1>3. z \notin Q /\ z # Ctx
  BY <1>0, <1>2 DEF Linked, LivesOK
<1>4. m[z].id = z
  BY <1>1, <1>3 DEF Linked, IdsOK
<1>5. \A a \in Addrs : p[a].id = m[a].id
  BY <1>4
<1>6. IdsOK(p, Q)
  BY <1>0, <1>5 DEF Linked, IdsOK
<1>7. ParentsOK(p, Q)
  BY <1>0, <1>3, <1>5 DEF Linked, ParentsOK
<1>8. LivesOK(p, Q, z)
  <2>1. \A a \in Addrs \ {z} : p[a].live => a \in 0..n
    BY IdBelow
  <2>2. \A a \in Q : p[a].live
    BY <1>0, <1>3 DEF Linked, LivesOK
  <2> QED
    BY <1>0, <1>1, <2>1, <2>2 DEF LivesOK
<1>9. \A a \in Addrs : m[a].live => m[a].id \in 0..n /\ a \in 0..n
  BY IdBelow
<1>10. NextsOK(p)
  <2> SUFFICES ASSUME NEW a \in Addrs, p[a].live
               PROVE  IsNext(p, p[a].id, p[a].next)
    BY DEF NextsOK
  <2>1. \A b \in Behind(m, Ctx) : b \in Addrs /\ b \in 0..n
    BY <1>9 DEF Behind
  <2>2. CASE a = z
    <3>1. Behind(p, z) = Behind(m, Ctx)
      <4>1. \A b \in Addrs : b \in Behind(p, z) => b \in Behind(m, Ctx)
        <5> SUFFICES ASSUME NEW b \in Addrs, b \in Behind(p, z)
                     PROVE  b \in Behind(m, Ctx)
          OBVIOUS
        <5>1. b # z
          BY <1>1, <1>3, Bounds DEF Behind
        <5> QED
          BY <5>1 DEF Behind
      <4>2. \A b \in Addrs : b \in Behind(m, Ctx) => b \in Behind(p, z)
        BY <1>0, <1>1, <1>2, <2>1, Bounds DEF Behind
      <4> QED
        BY <4>1, <4>2 DEF Behind
    <3>2. r \in Addrs /\ m[r].live
      BY <1>0 DEF Linked, LivesOK
    <3>3. IsNext(m, Ctx, m[r].next)
      BY <3>2 DEF Linked, NextsOK
    <3> QED
      BY <2>2, <3>1, <3>3 DEF IsNext
  <2>3. CASE a # z /\ m[a].id = Ctx
    <3>1. a = r
      BY <1>0, <2>3 DEF Linked, IdsOK
    <3>2. p[a].next = z /\ p[a].id = Ctx
      BY <2>3, <3>1
    <3>3. z \in Behind(p, Ctx)
      BY <1>1, <1>3 DEF Behind
    <3>4. \A b \in Behind(p, Ctx) : b = z \/ b \in Behind(m, Ctx)
      BY DEF Behind
    <3>5. \A b \in Behind(p, Ctx) : b <= z
      BY <1>0, <1>1, <2>1, <3>4
    <3> QED
      BY <3>2, <3>3, <3>5 DEF IsNext
  <2>4. CASE a # z /\ m[a].id # Ctx
    <3>1. p[a].id = m[a].id /\ p[a].next = m[a].next /\ m[a].live
      BY <2>4
    <3>2. m[a].id \in 0..n
      BY <1>9, <3>1
    <3>3. Behind(p, m[a].id) = Behind(m, m[a].id)
      <4>1. ~(z < m[a].id)
        BY <1>0, <1>1, <3>2
      <4>2. z \notin Behind(p, m[a].id) /\ z \notin Behind(m, m[a].id)
        BY <2>4, <4>1 DEF Behind
      <4>3. \A b \in Addrs \ {z} : b \in Behind(p, m[a].id) <=> b \in Behind(m, m[a].id)
        BY DEF Behind
      <4> QED
        BY <4>2, <4>3 DEF Behind
    <3>4. IsNext(m, m[a].id, m[a].next)
      BY <3>1 DEF Linked, NextsOK
    <3> QED
      BY <3>1, <3>3, <3>4 DEF IsNext
  <2> QED
    BY <2>2, <2>3, <2>4
<1>11. \A a \in Q : m[a].id < z /\ a < z
  <2>1. \A a \in Q : m[a].live /\ a \in Addrs
    BY <1>0 DEF Linked, LivesOK
  <2> QED
    BY <1>0, <1>9, <2>1
<1> QED
  BY <1>0, <1>1, <1>3, <1>6, <1>7, <1>8, <1>10, <1>11 DEF Linked

(* The structs at the address of the context and at z are exchanged; where *)
(* the two have their parents is told apart.                               *)
LEMMA SwapNexts ==
  ASSUME NEW m, NEW z \in Addrs, NEW p, NextsOK(m),
         m[Ctx].live, m[z].live, p[Ctx].live, p[z].live,
         p[Ctx].id = m[z].id, p[Ctx].next = m[z].next, p[z].id = m[Ctx].id, p[z].next = m[Ctx].next,
         \A b \in Addrs \ {Ctx, z} : p[b].id = m[b].id /\ p[b].live = m[b].live /\ p[b].next = m[b].next
  PROVE  NextsOK(p)
<1>1. \A b \in Addrs : p[b].live <=> m[b].live
  OBVIOUS
<1>2. \A i : Behind(p, i) = Behind(m, i)
  BY <1>1 DEF Behind
<1>3. ASSUME NEW a \in Addrs, p[a].live
      PROVE  IsNext(m, p[a].id, p[a].next)
  BY <1>1, <1>3, Bounds DEF NextsOK
<1> QED
  BY <1>2, <1>3 DEF NextsOK, IsNext

LEMMA EnterLinked ==
  ASSUME NEW m, NEW Q, NEW z \in Addrs, Linked(m, Q, z), z \notin Q, z # Ctx, m[z].live,
         m[Ctx].id < z, NEW p,
         p[Ctx].id = z, p[Ctx].live, p[Ctx].parent = z, p[Ctx].next = m[z].next,
         SameLink(m[Ctx], p[z]), \A b \in Addrs \ {Ctx, z} : SameLink(m[b], p[b])
  PROVE  Linked(p, Q \cup {z}, z)
<1>0. Q \in SUBSET Addrs /\ Ctx \in Q /\ m[z].id = z /\ m[Ctx].live /\ m[Ctx].id \in Q
  BY DEF Linked, IdsOK, LivesOK
<1>1. IdsOK(p, Q \cup {z})
  <2>1. ASSUME NEW a \in Addrs, NEW b \in Addrs, p[a].id = p[b].id
        PROVE  a = b
    <3>1. \A c, d \in Addrs : m[c].id = m[d].id => c = d
      BY DEF Linked, IdsOK
    <3> DEFINE t(c) == IF c = Ctx THEN z ELSE IF c = z THEN Ctx ELSE c
    <3>2. \A c \in Addrs : p[c].id = m[t(c)].id /\ t(c) \in Addrs
      BY <1>0, Bounds DEF SameLink
    <3>3. t(a) = t(b)
      BY <2>1, <3>1, <3>2
    <3> QED
      BY <3>3
  <2>2. ASSUME NEW a \in Q \cup {z}
        PROVE  p[a].id \in Q \cup {z} /\ (a # Ctx => p[a].id < a)
    <3>1. CASE a = z
      BY <1>0, <3>1 DEF SameLink
    <3>2. CASE a = Ctx
      BY <3>2
    <3>3. CASE a \in Q \ {Ctx}
      BY <1>0, <3>3 DEF SameLink, Linked, IdsOK
    <3> QED
      BY <2>2, <3>1, <3>2, <3>3
  <2>3. ASSUME NEW a \in Addrs \ (Q \cup {z})
        PROVE  p[a].id = a
    BY <1>0, <2>3 DEF SameLink, Linked, IdsOK
  <2> QED
    BY <2>1, <2>2, <2>3 DEF IdsOK
<1>2. ParentsOK(p, Q \cup {z})
  <2>0. z # Ctx
    OBVIOUS
  <2>1. ASSUME NEW a \in Q \cup {z}
        PROVE  p[a].parent = IF p[a].id = Ctx THEN None ELSE p[a].id
    <3>1. CASE a = Ctx
      BY <3>1
    <3>2. CASE a = z
      BY <1>0, <3>2 DEF SameLink, Linked, ParentsOK
    <3>3. CASE a \in Q \ {Ctx}
      BY <1>0, <3>3 DEF SameLink, Linked, ParentsOK
    <3> QED
      BY <2>1, <3>1, <3>2, <3>3
  <2>2. ASSUME NEW a \in Addrs \ (Q \cup {z})
        PROVE  p[a].parent \in {None, Ctx}
    BY <1>0, <2>2 DEF SameLink, Linked, ParentsOK
  <2> QED
    BY <2>1, <2>2 DEF ParentsOK
<1>3. \A b \in Addrs : p[b].live <=> m[b].live
  BY <1>0 DEF SameLink
<1>4. LivesOK(p, Q \cup {z}, z)
  BY <1>0, <1>3 DEF Linked, LivesOK
<1>5. NextsOK(p)
  <2>1. NextsOK(m) /\ p[z].live /\ p[z].id = m[Ctx].id /\ p[z].next = m[Ctx].next
    BY <1>0 DEF Linked, SameLink
  <2>2. \A b \in Addrs \ {Ctx, z} : p[b].id = m[b].id /\ p[b].live = m[b].live /\ p[b].next = m[b].next
    BY DEF SameLink
  <2> QED
    BY <1>0, <2>1, <2>2, SwapNexts
<1>6. z \in 0..MaxScopes
  BY Bounds
<1> QED
  BY <1>0, <1>1, <1>2, <1>4, <1>5, <1>6 DEF Linked

LEMMA LeaveLinked ==
  ASSUME NEW m, NEW Q, NEW n, Linked(m, Q, n), NEW z \in Addrs, m[Ctx].id = z, z # Ctx, NEW p,
         SameLink(m[z], p[Ctx]),
         p[z].id = z, p[z].live = m[Ctx].live, p[z].parent = Ctx, p[z].next = m[Ctx].next,
         \A b \in Addrs \ {Ctx, z} : SameLink(m[b], p[b])
  PROVE  Linked(p, Q \ {z}, n) /\ z \in Q
<1>0. Q \in SUBSET Addrs /\ Ctx \in Q /\ z \in Q /\ n \in 0..MaxScopes
  BY DEF Linked, IdsOK
<1>1. m[Ctx].live /\ m[z].live /\ m[z].id \in Q /\ m[z].id < z
  BY <1>0 DEF Linked, IdsOK, LivesOK
<1>2. \A c, d \in Addrs : m[c].id = m[d].id => c = d
  BY DEF Linked, IdsOK
<1>3. m[z].id # z
  BY <1>0, <1>2, Bounds
<1>4. IdsOK(p, Q \ {z})
  <2>1. ASSUME NEW a \in Addrs, NEW b \in Addrs, p[a].id = p[b].id
        PROVE  a = b
    <3> DEFINE t(c) == IF c = Ctx THEN z ELSE IF c = z THEN Ctx ELSE c
    <3>2. \A c \in Addrs : p[c].id = m[t(c)].id /\ t(c) \in Addrs
      BY <1>0, Bounds DEF SameLink
    <3>3. t(a) = t(b)
      BY <1>2, <2>1, <3>2
    <3> QED
      BY <3>3
  <2>2. ASSUME NEW a \in Q \ {z}
        PROVE  p[a].id \in Q \ {z} /\ (a # Ctx => p[a].id < a)
    <3>1. CASE a = Ctx
      BY <1>1, <1>3, <3>1 DEF SameLink
    <3>2. CASE a # Ctx
      <4>1. p[a].id = m[a].id /\ m[a].id \in Q /\ m[a].id < a
        BY <1>0, <3>2 DEF SameLink, Linked, IdsOK
      <4>2. m[a].id # z
        BY <1>0, <1>2, <3>2
      <4> QED
        BY <4>1, <4>2
    <3> QED
      BY <3>1, <3>2
  <2>3. ASSUME NEW a \in Addrs \ (Q \ {z})
        PROVE  p[a].id = a
    <3>1. CASE a = z
      BY <3>1
    <3>2. CASE a # z
      BY <1>0, <2>3, <3>2 DEF SameLink, Linked, IdsOK
    <3> QED
      BY <3>1, <3>2
  <2> QED
    BY <2>1, <2>2, <2>3 DEF IdsOK
<1>5. ParentsOK(p, Q \ {z})
  <2>1. ASSUME NEW a \in Q \ {z}
        PROVE  p[a].parent = IF p[a].id = Ctx THEN None ELSE p[a].id
    <3>1. CASE a = Ctx
      BY <1>0, <3>1 DEF SameLink, Linked, ParentsOK
    <3>2. CASE a # Ctx
      BY <1>0, <3>2 DEF SameLink, Linked, ParentsOK
    <3> QED
      BY <3>1, <3>2
  <2>2. ASSUME NEW a \in Addrs \ (Q \ {z})
        PROVE  p[a].parent \in {None, Ctx}
    <3>1. CASE a = z
      BY <3>1
    <3>2. CASE a # z
      BY <1>0, <2>2, <3>2 DEF SameLink, Linked, ParentsOK
    <3> QED
      BY <3>1, <3>2
  <2> QED
    BY <2>1, <2>2 DEF ParentsOK
<1>6. \A b \in Addrs : p[b].live <=> m[b].live
  BY <1>1 DEF SameLink
<1>7. LivesOK(p, Q \ {z}, n)
  BY <1>0, <1>6 DEF Linked, LivesOK
<1>8. NextsOK(p)
  <2>1. NextsOK(m) /\ p[Ctx].live /\ p[Ctx].id = m[z].id /\ p[Ctx].next = m[z].next /\ p[z].live
    BY <1>1 DEF Linked, SameLink
  <2>2. \A b \in Addrs \ {Ctx, z} : p[b].id = m[b].id /\ p[b].live = m[b].live /\ p[b].next = m[b].next
    BY DEF SameLink
  <2> QED
    BY <1>1, <2>1, <2>2, SwapNexts
<1> QED
  BY <1>0, <1>4, <1>5, <1>7, <1>8 DEF Linked

(* The walk along the list of the context, between runs of the host: down  *)
(* through all the snapshots that live.                                    *)
LEMMA WalkDown ==
  ASSUME NEW m, NEW n, Linked(m, {Ctx}, n), NEW f, IsWalk(f, m, Ctx), NEW W, W = Behind(m, Ctx)
  PROVE  /\ W \in SUBSET (1..MaxScopes)
         /\ \A a \in Addrs : m[a].id = a
         /\ \A j \in 0..MaxScopes : f[j] \in W \cup {None}
         /\ \A j \in 0..MaxScopes, k \in 0..MaxScopes : j < k /\ f[k] # None => f[j] # None /\ f[k] < f[j]
         /\ \A b \in W : \E j \in 0..MaxScopes : f[j] = b
<1>0. MaxScopes \in Nat /\ None \notin W
  BY Bounds DEF Behind
<1>1. W \in SUBSET (1..MaxScopes)
  <2>1. \A b \in W : b \in 0..MaxScopes /\ b # 0
    BY Bounds DEF Behind, Ctx
  <2> QED
    BY <1>0, <2>1
<1>2. \A a \in Addrs : m[a].id = a
  BY Bounds DEF Linked, IdsOK
<1>3. ASSUME NEW b \in W
      PROVE  /\ On(m, b) \in W \cup {None}
             /\ On(m, b) # None => On(m, b) < b
             /\ \A c \in W : c < b => On(m, b) # None /\ c <= On(m, b)
  <2>1. b \in Addrs /\ m[b].live /\ b # None /\ b # Ctx
    BY Bounds DEF Behind
  <2>2. IsNext(m, b, m[b].next)
    BY <1>2, <2>1 DEF Linked, NextsOK
  <2>3. On(m, b) = m[b].next
    BY <2>1 DEF On
  <2>4. Behind(m, b) = {c \in W : c < b}
    BY <2>1 DEF Behind
  <2> HIDE DEF Behind
  <2> DEFINE x == m[b].next
  <2>5. IF {c \in W : c < b} = {} THEN x = None
        ELSE x \in {c \in W : c < b} /\ \A c \in {d \in W : d < b} : c <= x
    BY <2>2, <2>4 DEF IsNext
  <2> HIDE DEF x
  <2>6. x \in W \cup {None} /\ (x # None => x < b) /\ \A c \in W : c < b => x # None /\ c <= x
    BY <1>0, <2>5
  <2> QED
    BY <2>3, <2>6 DEF x
<1>4. f[0] \in W \cup {None} /\ \A c \in W : f[0] # None /\ c <= f[0]
  <2>1. m[Ctx].live /\ Ctx \in Addrs
    BY Bounds DEF Linked, LivesOK
  <2>2. IsNext(m, Ctx, f[0])
    BY <1>2, <2>1 DEF Linked, NextsOK, IsWalk
  <2> DEFINE x == f[0]
  <2>3. IF W = {} THEN x = None ELSE x \in W /\ \A c \in W : c <= x
    BY <2>2 DEF IsNext
  <2> HIDE DEF x
  <2>4. x \in W \cup {None} /\ \A c \in W : x # None /\ c <= x
    BY <1>0, <2>3
  <2> QED
    BY <2>4 DEF x
<1>5. \A j \in 0..(MaxScopes - 1) : f[j + 1] = On(m, f[j])
  BY DEF IsWalk
<1>6. On(m, None) = None
  BY DEF On
<1> HIDE DEF IsWalk, Linked
<1> DEFINE Falls(j) == \A i \in 0..MaxScopes : i < j /\ f[j] # None => f[i] \in W /\ f[j] < f[i]
<1> DEFINE Passed(j) ==
      \A b \in W : (\E i \in 0..MaxScopes : i <= j /\ f[i] = b) \/ (f[j] # None /\ b < f[j])
<1> DEFINE P(j) == /\ f[j] \in W \cup {None}
                   /\ f[j] # None => f[j] <= MaxScopes - j
                   /\ Falls(j) /\ Passed(j)
<1> DEFINE S == {j \in Nat : j <= MaxScopes => P(j)}
<1>7. 0 \in S
  <2>1. f[0] # None => f[0] <= MaxScopes - 0
    BY <1>0, <1>1, <1>4
  <2>2. Passed(0)
    <3> SUFFICES ASSUME NEW b \in W
                 PROVE  (\E i \in 0..MaxScopes : i <= 0 /\ f[i] = b) \/ (f[0] # None /\ b < f[0])
      OBVIOUS
    <3>1. f[0] # None /\ b <= f[0] /\ b \in Nat /\ f[0] \in Nat
      BY <1>1, <1>4
    <3>2. f[0] = b \/ b < f[0]
      BY <3>1
    <3> QED
      BY <1>0, <3>1, <3>2
  <2>3. Falls(0)
    OBVIOUS
  <2> HIDE DEF Falls, Passed
  <2> QED
    BY <1>0, <1>4, <2>1, <2>2, <2>3
<1>8. ASSUME NEW j \in Nat, j \in S
      PROVE  j + 1 \in S
  <2> SUFFICES ASSUME j + 1 <= MaxScopes
               PROVE  P(j + 1)
    OBVIOUS
  <2>0. j \in 0..(MaxScopes - 1) /\ j \in 0..MaxScopes /\ j + 1 \in 0..MaxScopes
    BY <1>0
  <2>1. P(j)
    BY <1>0, <1>8
  <2>2. f[j + 1] = On(m, f[j])
    BY <1>5, <2>0
  <2> DEFINE x == f[j]
  <2> DEFINE y == f[j + 1]
  <2>3. CASE x = None
    <3>1. y = None
      BY <1>6, <2>2, <2>3
    <3>2. Passed(j + 1)
      BY <1>0, <2>1, <2>3
    <3> QED
      BY <3>1, <3>2
  <2>4. CASE x # None
    <3>1. x \in W
      BY <2>1, <2>4
    <3>2. /\ y \in W \cup {None} /\ (y # None => y < x)
          /\ \A c \in W : c < x => y # None /\ c <= y
      BY <1>3, <2>2, <3>1
    <3>3. y # None => y <= MaxScopes - (j + 1)
      <4>1. x \in Nat /\ x <= MaxScopes - j /\ (y # None => y \in Nat /\ y < x)
        BY <1>1, <2>1, <2>4, <3>1, <3>2
      <4> HIDE DEF x, y
      <4> QED
        BY <1>0, <4>1
    <3>4. Falls(j + 1)
      <4> SUFFICES ASSUME NEW i \in 0..MaxScopes, i < j + 1, y # None
                   PROVE  f[i] \in W /\ y < f[i]
        OBVIOUS
      <4>1. y < x /\ y \in Nat /\ x \in Nat
        BY <1>1, <3>1, <3>2
      <4>2. CASE i = j
        BY <3>1, <4>1, <4>2
      <4>3. CASE i < j
        <5>1. f[i] \in W /\ x < f[i] /\ f[i] \in Nat
          BY <1>1, <2>1, <2>4, <4>3
        <5> HIDE DEF x, y
        <5> QED
          BY <4>1, <5>1
      <4>4. i = j \/ i < j
        OBVIOUS
      <4> QED
        BY <4>2, <4>3, <4>4
    <3>5. Passed(j + 1)
      <4> SUFFICES ASSUME NEW b \in W
                   PROVE  (\E i \in 0..MaxScopes : i <= j + 1 /\ f[i] = b) \/ (y # None /\ b < y)
        OBVIOUS
      <4>1. CASE \E i \in 0..MaxScopes : i <= j /\ f[i] = b
        <5>1. PICK i \in 0..MaxScopes : i <= j /\ f[i] = b
          BY <4>1
        <5>2. i <= j + 1
          BY <5>1
        <5> QED
          BY <5>1, <5>2
      <4>2. CASE b < x
        <5>1. y # None /\ b <= y /\ y \in Nat /\ b \in Nat
          BY <1>1, <3>2, <4>2
        <5>2. y = b \/ b < y
          BY <5>1
        <5> QED
          BY <2>0, <5>1, <5>2
      <4> QED
        BY <2>1, <4>1, <4>2
    <3> HIDE DEF Falls, Passed
    <3> QED
      BY <3>2, <3>3, <3>4, <3>5
  <2> QED
    BY <2>3, <2>4
<1>9. \A j \in 0..MaxScopes : P(j)
  <2>1. \A j \in Nat : j \in S
    <3> HIDE DEF S
    <3> QED
      BY <1>7, <1>8, Induction
  <2> HIDE DEF P
  <2> QED
    BY <1>0, <2>1
<1>10. \A j \in 0..MaxScopes, k \in 0..MaxScopes : j < k /\ f[k] # None => f[j] # None /\ f[k] < f[j]
  BY <1>0, <1>9
<1>11. \A b \in W : \E j \in 0..MaxScopes : f[j] = b
  <2>1. P(MaxScopes)
    BY <1>0, <1>9
  <2>2. f[MaxScopes] = None
    BY <1>0, <1>1, <2>1
  <2> QED
    BY <2>1, <2>2
<1>12. \A j \in 0..MaxScopes : f[j] \in W \cup {None}
  BY <1>9
<1> HIDE DEF P
<1> QED
  BY <1>1, <1>2, <1>10, <1>11, <1>12

(* What Closures returns then.                                             *)
LEMMA ChainIs ==
  ASSUME NEW m, NEW n, Linked(m, {Ctx}, n), NEW W, W = Behind(m, Ctx)
  PROVE  LET c == Closures(m, Ctx) IN
         /\ IsFiniteSet(W) /\ Cardinality(W) \in Nat /\ Len(c) = Cardinality(W)
         /\ c \in Seq(W) /\ DOMAIN c = 1..Len(c) /\ ToSet(c) = W
         /\ \A j, k \in 1..Len(c) : j < k => c[k] < c[j]
<1>1. PICK f : IsWalk(f, m, Ctx) /\ Closures(m, Ctx) = Listed(f)
  BY ClosuresDef
<1>2. /\ W \in SUBSET (1..MaxScopes)
      /\ \A j \in 0..MaxScopes : f[j] \in W \cup {None}
      /\ \A j \in 0..MaxScopes, k \in 0..MaxScopes : j < k /\ f[k] # None => f[j] # None /\ f[k] < f[j]
      /\ \A b \in W : \E j \in 0..MaxScopes : f[j] = b
  BY <1>1, WalkDown
<1> DEFINE D == {j \in 0..MaxScopes : f[j] # None}
<1>0. MaxScopes \in Nat /\ None \notin W /\ None \notin Nat
  BY Bounds DEF Behind, None
<1>3. PICK N \in Nat : D = 0..(N - 1) /\ N <= MaxScopes + 1
  <2> DEFINE T == {j \in 0..(MaxScopes + 1) : j \notin D}
  <2>1. T \in SUBSET Nat /\ MaxScopes + 1 \in T
    BY <1>0
  <2>2. PICK N \in T : \A k \in T : N <= k
    BY <2>1, Least
  <2>3. N \in Nat /\ N <= MaxScopes + 1 /\ N \notin D
    BY <1>0, <2>2
  <2>4. \A j \in 0..(N - 1) : j \in D
    <3> SUFFICES ASSUME NEW j \in 0..(N - 1)
                 PROVE  j \in D
      OBVIOUS
    <3>1. j \in 0..(MaxScopes + 1) /\ ~(N <= j)
      BY <1>0, <2>3
    <3> QED
      BY <2>2, <3>1
  <2>5. \A j \in D : j \in 0..(N - 1)
    <3> SUFFICES ASSUME NEW j \in D, ~(j \in 0..(N - 1))
                 PROVE  FALSE
      OBVIOUS
    <3>1. N < j \/ N = j
      BY <2>3
    <3>2. CASE N < j
      BY <1>0, <1>2, <2>3, <3>2
    <3> QED
      BY <2>3, <3>1, <3>2
  <2> QED
    BY <2>3, <2>4, <2>5
<1>4. IsFiniteSet(0..(N - 1)) /\ Cardinality(0..(N - 1)) = N
  <2>1. 0 \in Int /\ N - 1 \in Int /\ (IF 0 > N - 1 THEN 0 ELSE (N - 1) - 0 + 1) = N
    OBVIOUS
  <2> QED
    BY <2>1, FS_Interval
<1> DEFINE c == Closures(m, Ctx)
<1>5. c = [j \in 1..N |-> f[j - 1]]
  BY <1>1, <1>3, <1>4 DEF Listed
<1> HIDE DEF c
<1>6. \A j \in 0..(N - 1) : f[j] \in W
  BY <1>2, <1>3
<1>7. \A b \in W : \E j \in 0..(N - 1) : f[j] = b
  BY <1>0, <1>2, <1>3
<1>8. \A j, k \in 0..(N - 1) : j < k => f[k] < f[j]
  BY <1>0, <1>2, <1>3
<1>9. \A j \in 1..N : j - 1 \in 0..(N - 1) /\ c[j] = f[j - 1]
  BY <1>5
<1>10. c \in [1..N -> W]
  BY <1>5, <1>6, <1>9
<1>11. c \in Seq(W) /\ Len(c) = N /\ DOMAIN c = 1..N
  BY <1>10
<1>12. \A j, k \in 1..N : j < k => c[k] < c[j]
  BY <1>8, <1>9
<1>13. \A b \in W : \E j \in 1..N : c[j] = b
  <2> SUFFICES ASSUME NEW b \in W
               PROVE  \E j \in 1..N : c[j] = b
    OBVIOUS
  <2>1. PICK j \in 0..(N - 1) : f[j] = b
    BY <1>7
  <2>2. j + 1 \in 1..N /\ (j + 1) - 1 = j
    OBVIOUS
  <2> QED
    BY <1>9, <2>1, <2>2
<1>14. ToSet(c) = W
  BY <1>10, <1>11, <1>13 DEF ToSet
<1>15. c \in Bijection(1..N, W)
  <2>1. \A j, k \in 1..N : c[j] = c[k] => j = k
    <3> SUFFICES ASSUME NEW j \in 1..N, NEW k \in 1..N, c[j] = c[k], j # k
                 PROVE  FALSE
      OBVIOUS
    <3>1. j < k \/ k < j
      OBVIOUS
    <3>2. c[j] \in Nat /\ c[k] \in Nat
      BY <1>2, <1>10
    <3> QED
      BY <1>12, <3>1, <3>2
  <2> QED
    BY <1>10, <1>11, <1>13, <2>1 DEF Bijection, Injection, Surjection, IsInjective
<1>16. IsFiniteSet(1..N) /\ Cardinality(1..N) = N
  <2>1. 1 \in Int /\ N \in Int /\ (IF 1 > N THEN 0 ELSE N - 1 + 1) = N
    OBVIOUS
  <2> QED
    BY <2>1, FS_Interval
<1>17. IsFiniteSet(W) /\ Cardinality(W) = N
  BY <1>15, <1>16, FS_Bijection DEF ExistsBijection
<1> QED
  BY <1>11, <1>12, <1>14, <1>17 DEF c

(* The references that the scopes of S hold to the address b.              *)
Given(m, S, b) == Cardinality({a \in S : m[a].fn.at = b})

(* The scopes that a sweep frees.                                          *)
Freed(m) == {a \in Behind(m, Ctx) : Sweepable(m[a])}

(* The sweep frees the scopes of S and links the others in their order.    *)
LEMMA SweepIs ==
  ASSUME NEW L, NEW m, IsMem(m, L), NEW n, Linked(m, {Ctx}, n)
  PROVE  LET p == Sweep(m)
             S == Freed(m) IN
         /\ \A a \in Addrs : /\ p[a].id = m[a].id /\ p[a].parent = m[a].parent
                             /\ p[a].fn = m[a].fn /\ p[a].v = m[a].v
                             /\ (p[a].live <=> m[a].live /\ a \notin S)
         /\ \A a \in Addrs : m[a].live /\ a \notin S =>
              /\ IsNext(p, a, p[a].next)
              /\ p[a].ref = IF m[a].ref > Given(m, S, a) THEN m[a].ref - Given(m, S, a) ELSE 0
         /\ \A a \in Addrs : a \in S \/ ~m[a].live => p[a].ref = m[a].ref
<1> DEFINE W == Behind(m, Ctx)
<1> DEFINE S == Freed(m)
<1> DEFINE c == Closures(m, Ctx)
<1> DEFINE K == {k \in DOMAIN c : c[k] \notin S}
<1> DEFINE R(k) == {j \in K : j > k}
<1> DEFINE Link(k) == IF R(k) = {} THEN None ELSE c[Min(R(k))]
<1> DEFINE X(a) == Link(IF a = Ctx THEN 0 ELSE CHOOSE k \in K : c[k] = a)
<1> DEFINE C(a) == IF m[a].ref > Given(m, S, a) THEN m[a].ref - Given(m, S, a) ELSE 0
<1> DEFINE p == Sweep(m)
<1>1. /\ Len(c) \in Nat
      /\ c \in Seq(W) /\ DOMAIN c = 1..Len(c) /\ ToSet(c) = W
      /\ \A j, k \in 1..Len(c) : j < k => c[k] < c[j]
  BY ChainIs
<1>2. S = {a \in ToSet(c) : Sweepable(m[a])}
  BY <1>1 DEF Freed
<1>3. p = [a \in Addrs |->
             IF a \in S THEN [m[a] EXCEPT !.live = FALSE]
             ELSE IF a # Ctx /\ a \notin ToSet(c) THEN m[a]
             ELSE [m[a] EXCEPT !.next = X(a), !.ref = C(a)]]
  BY <1>2 DEF Sweep, Given
<1>4. W = {b \in Addrs : m[b].live /\ b # Ctx} /\ m[Ctx].live /\ S \subseteq W
  BY Bounds DEF Behind, Linked, LivesOK, Freed
<1>5. \A b \in W : b \in Nat
  BY <1>4, Bounds
<1> HIDE DEF p, c, X, C, W, S
<1>6. ASSUME NEW a \in Addrs
      PROVE  /\ a \in S => p[a] = [m[a] EXCEPT !.live = FALSE]
             /\ a \notin S /\ ~m[a].live => p[a] = m[a]
             /\ a \notin S /\ m[a].live => p[a] = [m[a] EXCEPT !.next = X(a), !.ref = C(a)]
  <2>1. a \notin S /\ ~m[a].live => a # Ctx /\ a \notin ToSet(c)
    BY <1>1, <1>4
  <2>2. a \notin S /\ m[a].live => ~(a # Ctx /\ a \notin ToSet(c))
    BY <1>1, <1>4
  <2> QED
    BY <1>3, <2>1, <2>2
<1>7. ASSUME NEW a \in Addrs
      PROVE  /\ p[a].id = m[a].id /\ p[a].parent = m[a].parent
             /\ p[a].fn = m[a].fn /\ p[a].v = m[a].v
             /\ (p[a].live <=> m[a].live /\ a \notin S)
             /\ m[a].live /\ a \notin S => p[a].next = X(a) /\ p[a].ref = C(a)
             /\ a \in S \/ ~m[a].live => p[a].ref = m[a].ref
  <2>0. IsScope(m[a])
    BY DEF IsMem
  <2>1. CASE a \in S
    <3>1. m[a].live
      BY <1>4, <2>1
    <3> QED
      BY <1>6, <2>0, <2>1 DEF IsScope
  <2>2. CASE a \notin S /\ ~m[a].live
    BY <1>6, <2>2
  <2>3. CASE a \notin S /\ m[a].live
    <3>1. p[a] = [m[a] EXCEPT !.next = X(a), !.ref = C(a)]
      BY <1>6, <2>3
    <3> DEFINE x == X(a)
    <3> DEFINE r == C(a)
    <3>2. p[a] = [m[a] EXCEPT !.next = x, !.ref = r]
      BY <3>1
    <3> HIDE DEF x, r
    <3>3. /\ p[a].id = m[a].id /\ p[a].parent = m[a].parent
          /\ p[a].fn = m[a].fn /\ p[a].v = m[a].v
          /\ p[a].live = m[a].live /\ p[a].next = x /\ p[a].ref = r
      BY <2>0, <3>2 DEF IsScope
    <3> QED
      BY <2>3, <3>3 DEF x, r
  <2> QED
    BY <2>1, <2>2, <2>3
<1>8. \A i : Behind(p, i) = {b \in W : b \notin S /\ (i = Ctx \/ b < i)}
  BY <1>4, <1>7 DEF Behind
<1>9. \A b \in W : b \notin S => \E k \in K : c[k] = b
  BY <1>1 DEF ToSet
<1>10. ASSUME NEW a \in Addrs, m[a].live, a \notin S
       PROVE  IsNext(p, a, X(a))
  <2>1. \A k \in K : k \in 1..Len(c) /\ c[k] \in W /\ c[k] \notin S
    BY <1>1
  <2> DEFINE k0 == IF a = Ctx THEN 0 ELSE CHOOSE k \in K : c[k] = a
  <2>2. k0 \in Nat /\ k0 \in 0..Len(c) /\ (a # Ctx => k0 \in K /\ c[k0] = a)
    <3>1. CASE a = Ctx
      BY <1>1, <3>1
    <3>2. CASE a # Ctx
      <4>1. \E k \in K : c[k] = a
        BY <1>4, <1>9, <1>10, <3>2
      <4>2. k0 \in K /\ c[k0] = a
        BY <3>2, <4>1
      <4> QED
        BY <1>1, <2>1, <4>2
    <3> QED
      BY <3>1, <3>2
  <2>3. a = Ctx => k0 = 0
    OBVIOUS
  <2>4. X(a) = Link(k0)
    BY DEF X
  <2> HIDE DEF k0
  <2>5. \A k \in K : k > k0 <=> (a = Ctx \/ c[k] < a)
    <3> SUFFICES ASSUME NEW k \in K
                 PROVE  k > k0 <=> (a = Ctx \/ c[k] < a)
      OBVIOUS
    <3>0. k \in 1..Len(c) /\ c[k] \in Nat /\ Len(c) \in Nat
      BY <1>1, <1>5, <2>1
    <3>1. CASE a = Ctx
      BY <2>3, <3>0, <3>1
    <3>2. CASE a # Ctx
      <4>1. k0 \in 1..Len(c) /\ c[k0] = a /\ a \in Nat
        BY <1>5, <2>1, <2>2, <3>2
      <4>2. (k0 < k => c[k] < c[k0]) /\ (k < k0 => c[k0] < c[k])
        BY <1>1, <3>0, <4>1
      <4>3. k = k0 => c[k] = a
        BY <4>1
      <4> HIDE DEF K
      <4> QED
        BY <3>0, <3>2, <4>1, <4>2, <4>3
    <3> QED
      BY <3>1, <3>2
  <2>6. \A k \in R(k0) : k \in K /\ c[k] \in Behind(p, a)
    BY <1>8, <2>1, <2>5
  <2>7. \A b \in Behind(p, a) : \E k \in R(k0) : c[k] = b
    <3> SUFFICES ASSUME NEW b \in Behind(p, a)
                 PROVE  \E k \in R(k0) : c[k] = b
      OBVIOUS
    <3>1. b \in W /\ b \notin S /\ (a = Ctx \/ b < a)
      BY <1>8
    <3>2. PICK k \in K : c[k] = b
      BY <1>9, <3>1
    <3>3. k \in R(k0)
      BY <2>5, <3>1, <3>2
    <3> QED
      BY <3>2, <3>3
  <2>8. CASE R(k0) = {}
    <3>1. Behind(p, a) = {}
      BY <2>7, <2>8
    <3>2. X(a) = None
      BY <2>4, <2>8
    <3> QED
      BY <3>1, <3>2 DEF IsNext
  <2>9. CASE R(k0) # {}
    <3> DEFINE z == Min(R(k0))
    <3>1. R(k0) \in SUBSET Nat
      BY <1>1
    <3>2. z \in R(k0) /\ \A k \in R(k0) : z <= k
      <4> DEFINE T == R(k0)
      <4>1. T \in SUBSET Nat /\ T # {}
        BY <2>9, <3>1
      <4> HIDE DEF T
      <4>2. Min(T) \in T /\ \A k \in T : Min(T) <= k
        BY <4>1, Smallest
      <4> QED
        BY <4>2 DEF T
    <3>3. X(a) = c[z]
      BY <2>4, <2>9
    <3> HIDE DEF z
    <3>4. c[z] \in Behind(p, a)
      BY <2>6, <3>2
    <3>5. ASSUME NEW b \in Behind(p, a)
          PROVE  b <= c[z]
      <4>1. PICK k \in R(k0) : c[k] = b
        BY <2>7
      <4>2. z <= k /\ z \in 1..Len(c) /\ k \in 1..Len(c) /\ c[z] \in Nat /\ c[k] \in Nat
        BY <1>5, <2>1, <2>6, <3>2, <4>1
      <4>3. z = k \/ z < k
        BY <4>2
      <4>4. z < k => c[k] < c[z]
        BY <1>1, <4>2
      <4> QED
        BY <4>1, <4>2, <4>3, <4>4
    <3> QED
      BY <3>3, <3>4, <3>5 DEF IsNext
  <2> QED
    BY <2>8, <2>9
<1> QED
  BY <1>7, <1>10 DEF p, C, S

LEMMA SweepLinked ==
  ASSUME NEW L, NEW m, IsMem(m, L), NEW n, Linked(m, {Ctx}, n)
  PROVE  Linked(Sweep(m), {Ctx}, n)
<1> DEFINE S == Freed(m)
<1> DEFINE p == Sweep(m)
<1>1. /\ \A a \in Addrs : /\ p[a].id = m[a].id /\ p[a].parent = m[a].parent
                          /\ (p[a].live <=> m[a].live /\ a \notin S)
      /\ \A a \in Addrs : m[a].live /\ a \notin S => IsNext(p, a, p[a].next)
  BY SweepIs
<1>2. Ctx \notin S /\ m[Ctx].live
  BY Bounds DEF Freed, Behind, Linked, LivesOK
<1>3. \A a \in Addrs : m[a].id = a
  BY Bounds DEF Linked, IdsOK
<1> HIDE DEF p, S
<1>4. IdsOK(p, {Ctx})
  BY <1>1, <1>3, Bounds DEF IdsOK
<1>8. ParentsOK(p, {Ctx})
  BY <1>1, <1>3, Bounds DEF Linked, ParentsOK
<1>5. LivesOK(p, {Ctx}, n)
  BY <1>1, <1>2, Bounds DEF Linked, LivesOK
<1>6. NextsOK(p)
  BY <1>1, <1>3 DEF NextsOK
<1>7. Linked(p, {Ctx}, n)
  BY <1>4, <1>5, <1>6, <1>8 DEF Linked
<1> QED
  BY <1>7 DEF p

(* Between runs the list of the context holds every scope that lives.      *)
LEMMA ChainWhole ==
  ASSUME NEW n, Linked(mem, {Ctx}, n)
  PROVE  LET chain == Closures(mem, Ctx)
         IN  ToSet(chain) = Live \ {Ctx} /\ Len(chain) = Cardinality(Live) - 1
<1> DEFINE W == Behind(mem, Ctx)
<1>1. /\ IsFiniteSet(W) /\ Cardinality(W) \in Nat /\ Len(Closures(mem, Ctx)) = Cardinality(W)
      /\ ToSet(Closures(mem, Ctx)) = W
  BY ChainIs
<1>2. W = Live \ {Ctx} /\ Ctx \notin W /\ Live = W \cup {Ctx}
  BY Bounds DEF Live, Behind, Linked, LivesOK
<1> HIDE DEF W
<1>3. Cardinality(Live) = Cardinality(W) + 1
  <2>1. Cardinality(W \cup {Ctx}) = Cardinality(W) + 1
    BY <1>1, <1>2, FS_AddElement
  <2>2. Live = W \cup {Ctx}
    BY <1>2
  <2> HIDE DEF Live
  <2> QED
    BY <2>1, <2>2
<1>4. Len(Closures(mem, Ctx)) = Cardinality(Live) - 1
  BY <1>1, <1>2, <1>3
<1> QED
  BY <1>1, <1>2, <1>4

-----------------------------------------------------------------------------
(* The invariant of the links.                                             *)

(* The addresses of the modules that run or wait.                          *)
Mods == {stack[k].addr : k \in {k \in 1..Len(stack) : stack[k].isolated}}

LInv ==
  /\ Linked(mem, Mods \cup {Ctx}, made)
  /\ stack # <<>> => running
  /\ \A k \in 1..Len(stack) : stack[k].parent = Ctx

LEMMA SameLInv ==
  ASSUME LInv, SameLinks(mem, mem'), UNCHANGED <<stack, made>>, stack # <<>> => running'
  PROVE  LInv'
<1>1. Mods' = Mods
  BY DEF Mods
<1>2. Linked(mem', Mods \cup {Ctx}, made)
  BY SameLinked DEF LInv
<1> QED
  BY <1>1, <1>2 DEF LInv

LEMMA ScopesLinks ==
  ASSUME NEW m, NEW p, \A b \in Addrs : SameStruct(m[b], p[b])
  PROVE  SameLinks(m, p)
BY DEF SameStruct, SameLinks

LEMMA RaisedLinks ==
  ASSUME NEW m, NEW p, Raised(m, p)
  PROVE  SameLinks(m, p)
BY ScopesLinks DEF Raised

LEMMA DefineLinks ==
  ASSUME IInv, LInv, Define
  PROVE  LInv'
<1>1. IsMem(mem, loaded) /\ mem[Ctx].id \in Addrs
  BY Bounds DEF IInv, Typed, IsMem
<1>2. PICK x : x = Value(Ctx, Here.id) /\ x \in Values
  BY <1>1, Bounds, ValueType DEF Here, Places
<1>3. mem' = Retain([mem EXCEPT ![Ctx].fn = x], Ctx)
  BY <1>2 DEF Define
<1>4. SameLinks(mem, mem')
  BY <1>1, <1>2, <1>3, DefineIs
<1> QED
  BY <1>4, SameLInv DEF Define, LInv

LEMMA DropLinks ==
  ASSUME IInv, LInv, Drop
  PROVE  LInv'
<1>1. SameLinks(mem, mem')
  BY NumberType, AssignIs DEF IInv, Typed, Drop
<1> QED
  BY <1>1, SameLInv DEF Drop, LInv

LEMMA ResultLinks ==
  ASSUME NEW L, NEW m, IsMem(m, L), NEW d, d.exports \in Values, NEW keep
  PROVE  SameLinks(m, Result(m, d, keep))
<1> DEFINE c == Clone(m, d.exports)
<1>1. IsMem(c, L) /\ Raised(m, c)
  BY CloneRaised
<1>2. Result(m, d, keep) \in {c, Assign(c, d.exports)}
  BY DEF Result
<1> HIDE DEF c
<1>3. SameLinks(m, c) /\ SameLinks(c, Assign(c, d.exports))
  BY <1>1, RaisedLinks, AssignIs
<1> QED
  BY <1>2, <1>3 DEF SameLinks

LEMMA CachedLinks ==
  ASSUME IInv, LInv, NEW f \in Files, NEW isolated \in BOOLEAN, NEW keep \in BOOLEAN,
         ImportCached(f, isolated, keep)
  PROVE  LInv'
<1>1. PICK k \in 1..Len(imports) : mem' = Result(mem, imports[k], keep)
  BY Facts DEF IInv, ImportCached, FindImported
<1>2. imports[k].exports \in Values
  BY Facts DEF IInv, Records
<1>3. SameLinks(mem, mem')
  BY <1>1, <1>2, ResultLinks DEF IInv, Typed
<1> QED
  BY <1>3, SameLInv DEF ImportCached, LInv

LEMMA ExportLinks ==
  ASSUME IInv, LInv, ExportVar \/ ExportFunction
  PROVE  LInv'
<1>1. IsMem(mem, loaded)
  BY DEF IInv, Typed
<1>2. SameLinks(mem, mem') /\ UNCHANGED <<stack, running, made>>
  <2>1. CASE ExportVar
    <3>1. mem' = Clone(mem, Here.v) /\ UNCHANGED <<stack, running, made>>
      BY <2>1 DEF ExportVar, SetExport, Clone
    <3>2. Here.v \in Values
      BY <1>1, Bounds DEF IsMem, IsScope, Here
    <3> QED
      BY <1>1, <3>1, <3>2, CloneRaised, RaisedLinks
  <2>2. CASE ExportFunction
    <3>1. PICK a \in Addrs : SetExport(mem, Value(a, mem[a].fn.home), a = Ctx)
      BY <2>2 DEF ExportFunction
    <3>2. mem' = Retain(mem, a) /\ UNCHANGED <<stack, running, made>>
      BY <3>1 DEF SetExport, Value
    <3>3. a \in Places
      BY DEF Places
    <3> QED
      BY <1>1, <3>2, <3>3, RetainRaised, RaisedLinks
  <2> QED
    BY <2>1, <2>2
<1> QED
  BY <1>2, SameLInv DEF LInv

LEMMA PluginLinks ==
  ASSUME IInv, LInv, NEW p \in Plugins, NEW how \in {"unloaded", "unbound", "ok"}, LoadPlugin(p, how)
  PROVE  LInv'
<1>1. CASE p \in loaded
  <2>1. mem' = mem
    BY <1>1 DEF LoadPlugin
  <2>2. SameLinks(mem, mem')
    BY <2>1 DEF SameLinks
  <2> QED
    BY <2>2, SameLInv DEF LoadPlugin, LInv
<1>2. CASE p \notin loaded
  <2>1. mem' = InitPlugin(mem, p, how)
    BY <1>2 DEF LoadPlugin
  <2>2. \A b \in Addrs : SameStruct(mem[b], mem'[b])
    BY <2>1, InitPluginIs DEF IInv, Typed
  <2>3. SameLinks(mem, mem')
    BY <2>2, ScopesLinks
  <2> QED
    BY <2>3, SameLInv DEF LoadPlugin, LInv
<1> QED
  BY <1>1, <1>2

LEMMA RunLinks ==
  ASSUME IInv, LInv, BeginRun \/ EndRun
  PROVE  LInv'
<1>1. CASE BeginRun
  <2>1. mem' = mem
    BY <1>1 DEF BeginRun
  <2>2. SameLinks(mem, mem')
    BY <2>1 DEF SameLinks
  <2> QED
    BY <1>1, <2>2, SameLInv DEF BeginRun, LInv
<1>2. CASE EndRun
  <2>1. stack = <<>> /\ stack' = <<>> /\ made' = made /\ mem' = Sweep(mem)
    BY <1>2 DEF EndRun
  <2>2. Mods = {} /\ Mods' = {}
    BY <2>1 DEF Mods
  <2>3. Linked(mem, {Ctx}, made)
    BY <2>2 DEF LInv
  <2>4. Linked(mem', {Ctx}, made)
    BY <2>1, <2>3, SweepLinked DEF IInv, Typed
  <2> QED
    BY <2>1, <2>2, <2>4 DEF LInv
<1> QED
  BY <1>1, <1>2

(* The root of the chain, and the next address.                            *)
LEMMA RootFacts ==
  ASSUME IInv, LInv, made < MaxScopes, NEW n, n = made + 1
  PROVE  /\ Root(mem) \in Mods \cup {Ctx} /\ Root(mem) \in Addrs /\ mem[Root(mem)].id = Ctx
         /\ Root(mem) # n /\ n \in Addrs /\ n # Ctx /\ n \notin Mods
<1>1. n \in Addrs /\ n # Ctx /\ mem[n].id = n
  BY NextAddr
<1>2. \A k \in 1..Len(stack) : stack[k].isolated => stack[k].addr # n
  BY NextAddr
<1>3. n \notin Mods
  BY <1>2 DEF Mods
<1>4. Root(mem) \in Mods \cup {Ctx} /\ mem[Root(mem)].id = Ctx
  BY RootIs DEF LInv
<1>5. Root(mem) \in Addrs
  BY <1>4 DEF LInv, Linked
<1> QED
  BY <1>1, <1>3, <1>4, <1>5

LEMMA CloseLinks ==
  ASSUME IInv, LInv, NEW captured \in BOOLEAN, Close(captured)
  PROVE  LInv'
<1> DEFINE n == made + 1
<1> DEFINE x == IF captured THEN Here.v ELSE Number
<1> DEFINE p == Snapshot(mem, n, x)
<1> DEFINE r == Root(mem)
<1>1. /\ UNCHANGED <<stack, running>> /\ made' = n /\ made < MaxScopes
      /\ mem' = Assign(p, Value(n, n))
  BY DEF Close
<1>2. /\ r \in Mods \cup {Ctx} /\ r \in Addrs /\ mem[r].id = Ctx /\ r # n /\ n \in Addrs
  BY <1>1, RootFacts
<1>3. IsMem(mem, loaded) /\ x \in Values
  BY Bounds, NumberType DEF IInv, Typed, IsMem, IsScope, Here
<1> HIDE DEF x, r
<1>4. n = made + 1
  OBVIOUS
<1> HIDE DEF n
<1>5. IsMem(p, loaded)
  BY <1>2, <1>3, SnapshotMem
<1>6. /\ p[n].id = n /\ p[n].live /\ p[n].parent = None /\ p[n].next = mem[r].next
      /\ \A b \in Addrs \ {n} :
           /\ p[b].id = mem[b].id /\ p[b].live = mem[b].live /\ p[b].parent = mem[b].parent
           /\ p[b].next = IF b = r THEN n ELSE mem[b].next
  BY <1>2, <1>3, SnapshotIs DEF r
<1> HIDE DEF p
<1>7. Linked(p, Mods \cup {Ctx}, n)
  BY <1>1, <1>2, <1>4, <1>6, SnapshotLinked DEF LInv
<1>8. Value(n, n) \in Values
  BY <1>2, ValueType DEF Places
<1>9. SameLinks(p, mem')
  BY <1>1, <1>5, <1>8, AssignIs
<1>10. Linked(mem', Mods \cup {Ctx}, n)
  BY <1>7, <1>9, SameLinked
<1>11. Mods' = Mods
  BY <1>1 DEF Mods
<1> QED
  BY <1>1, <1>10, <1>11 DEF LInv

LEMMA ModuleLinked ==
  ASSUME IInv, LInv, made < MaxScopes, NEW n, n = made + 1
  PROVE  LET p == ModuleScope(mem, n) IN
         /\ Linked(p, Mods \cup {Ctx}, n)
         /\ n \in Addrs /\ n \notin Mods \cup {Ctx} /\ p[n].live /\ p[Ctx].id < n
<1> DEFINE p == ModuleScope(mem, n)
<1> DEFINE r == Root(mem)
<1>1. r \in Mods \cup {Ctx} /\ r \in Addrs /\ mem[r].id = Ctx /\ r # n /\ n \in Addrs /\ n # Ctx
  BY RootFacts
<1>2. IsMem(mem, loaded) /\ r = Root(mem)
  BY DEF IInv, Typed
<1> HIDE DEF r
<1>3. /\ p[n].id = n /\ p[n].live /\ p[n].parent = Ctx /\ p[n].next = mem[r].next
      /\ \A b \in Addrs \ {n} :
           /\ p[b].id = mem[b].id /\ p[b].live = mem[b].live /\ p[b].parent = mem[b].parent
           /\ p[b].next = IF b = r THEN n ELSE mem[b].next
  BY <1>1, <1>2, ModuleScopeIs
<1> HIDE DEF p
<1>4. /\ Linked(p, Mods \cup {Ctx}, n) /\ n \notin Mods \cup {Ctx}
      /\ \A a \in Mods \cup {Ctx} : mem[a].id < n
  BY <1>1, <1>3, SnapshotLinked DEF LInv
<1>5. p[Ctx].id < n
  BY <1>1, <1>3, <1>4, Bounds
<1> QED
  BY <1>1, <1>3, <1>4, <1>5 DEF p

LEMMA UnreadableLinks ==
  ASSUME IInv, LInv, NEW f \in Files, NEW isolated \in BOOLEAN, ImportUnreadable(f, isolated)
  PROVE  LInv'
<1>1. Mods' = Mods /\ UNCHANGED <<stack, running>>
  BY DEF ImportUnreadable, Mods
<1>2. CASE isolated
  <2>1. made < MaxScopes /\ made' = made + 1 /\ mem' = ModuleScope(mem, made + 1)
    BY <1>2 DEF ImportUnreadable
  <2>2. Linked(mem', Mods \cup {Ctx}, made')
    BY <2>1, ModuleLinked
  <2> QED
    BY <1>1, <2>2 DEF LInv
<1>3. CASE ~isolated
  <2>1. UNCHANGED <<mem, made>>
    BY <1>3 DEF ImportUnreadable
  <2> QED
    BY <1>1, <2>1 DEF LInv
<1> QED
  BY <1>2, <1>3

LEMMA BeginLinks ==
  ASSUME IInv, LInv, NEW f \in Files, NEW isolated \in BOOLEAN, BeginImport(f, isolated)
  PROVE  LInv'
<1>0. stack \in Seq(Frames) /\ cur \in Exporting /\ IsMem(mem, loaded) /\ Len(stack) \in Nat
  BY Facts DEF IInv, Typed
<1>1. running /\ running' = running
  BY DEF BeginImport, Active
<1> DEFINE L == Len(stack)
<1>2. PICK z \in Addrs : /\ stack' = Append(stack, Frame(f, isolated, z))
                         /\ isolated => z = made + 1 /\ made < MaxScopes
  <2>1. CASE isolated
    <3>1. made + 1 <= MaxScopes /\ stack' = Append(stack, Frame(f, isolated, made + 1))
      BY <2>1 DEF BeginImport
    <3>2. made \in 0..MaxScopes
      BY DEF IInv, Typed
    <3>3. made + 1 \in Addrs /\ made < MaxScopes
      BY <3>1, <3>2, Bounds
    <3> QED
      BY <3>1, <3>3
  <2>2. CASE ~isolated
    BY <2>2, Bounds DEF BeginImport
  <2> QED
    BY <2>1, <2>2
<1> DEFINE fr == Frame(f, isolated, z)
<1>3. fr \in Frames /\ fr.isolated = isolated /\ fr.addr = z /\ fr.parent = Ctx
  BY <1>0, Bounds DEF Frame, Frames
<1> HIDE DEF fr
<1>4. /\ Len(stack') = L + 1 /\ \A k \in 1..L : stack'[k] = stack[k]
      /\ stack'[L + 1] = fr
  BY <1>0, <1>2, <1>3, Pushed DEF fr
<1>5. \A k : k \in 1..(L + 1) <=> k \in 1..L \/ k = L + 1
  BY <1>0
<1>6. Mods' = IF isolated THEN Mods \cup {z} ELSE Mods
  BY <1>3, <1>4, <1>5 DEF Mods
<1>7. \A k \in 1..Len(stack') : stack'[k].parent = Ctx
  BY <1>3, <1>4, <1>5 DEF LInv
<1>8. Linked(mem', Mods' \cup {Ctx}, made')
  <2>1. CASE isolated
    <3>1. made' = z /\ mem' = Entered(mem, z) /\ z = made + 1 /\ made < MaxScopes
      BY <1>2, <2>1 DEF BeginImport, Entered
    <3> DEFINE p == ModuleScope(mem, z)
    <3> DEFINE q == Entered(mem, z)
    <3> DEFINE r == Root(mem)
    <3>2. /\ Linked(p, Mods \cup {Ctx}, z) /\ z \notin Mods \cup {Ctx} /\ p[z].live /\ p[Ctx].id < z
      BY <3>1, ModuleLinked
    <3>3. r \in Addrs /\ r # z /\ z # Ctx
      BY <3>1, RootFacts
    <3>4. /\ p[z].next = mem[r].next
          /\ \A b \in Addrs \ {z} :
               /\ p[b].id = mem[b].id /\ p[b].live = mem[b].live /\ p[b].parent = mem[b].parent
               /\ p[b].next = IF b = r THEN z ELSE mem[b].next
      BY <1>0, <3>3, ModuleScopeIs
    <3>5. /\ q[Ctx].id = z /\ q[Ctx].live /\ q[Ctx].parent = z /\ q[Ctx].next = mem[r].next
          /\ q[z].id = mem[Ctx].id /\ q[z].live = mem[Ctx].live /\ q[z].parent = mem[Ctx].parent
          /\ q[z].next = IF Ctx = r THEN z ELSE mem[Ctx].next
          /\ \A b \in Addrs \ {Ctx, z} :
               /\ q[b].id = mem[b].id /\ q[b].live = mem[b].live /\ q[b].parent = mem[b].parent
               /\ q[b].next = IF b = r THEN z ELSE mem[b].next
      BY <1>0, <3>3, EnterIs
    <3> HIDE DEF p, q, r
    <3>6. SameLink(p[Ctx], q[z]) /\ \A b \in Addrs \ {Ctx, z} : SameLink(p[b], q[b])
      BY <3>3, <3>4, <3>5, Bounds DEF SameLink
    <3>7. Linked(q, (Mods \cup {Ctx}) \cup {z}, z)
      BY <3>2, <3>3, <3>4, <3>5, <3>6, EnterLinked
    <3>8. Mods' \cup {Ctx} = (Mods \cup {Ctx}) \cup {z}
      BY <1>6, <2>1
    <3> QED
      BY <3>1, <3>7, <3>8 DEF q
  <2>2. CASE ~isolated
    <3>1. UNCHANGED <<mem, made>>
      BY <2>2 DEF BeginImport
    <3> QED
      BY <1>6, <2>2, <3>1 DEF LInv
  <2> QED
    BY <2>1, <2>2
<1> QED
  BY <1>1, <1>7, <1>8 DEF LInv

LEMMA RebindIs ==
  ASSUME NEW L, NEW m, IsMem(m, L), NEW x \in Values, NEW n \in Addrs
  PROVE  Raised(m, Rebind(m, x, n).mem) /\ Rebind(m, x, n).exports = Rehomed(x, n)
<1>1. Rebind(m, x, n) = [mem |-> Retain(m, Rehomed(x, n).at), exports |-> Rehomed(x, n)]
  BY DEF Rebind, Rehomed
<1>2. Rehomed(x, n).at \in Places
  BY DEF Rehomed, Values, Places
<1> QED
  BY <1>1, <1>2, RetainRaised

(* The struct of the module that ends is at the address of the context.    *)
LEMMA TopModule ==
  ASSUME IInv, stack # <<>>
  PROVE  /\ Len(stack) \in Nat \ {0} /\ Len(stack) \in 1..Len(stack)
         /\ Last(stack) = stack[Len(stack)] /\ Last(stack) \in Frames
         /\ Last(stack).addr \in Addrs /\ cur.exports \in Values
         /\ Last(stack).isolated => Last(stack).addr = mem[Ctx].id /\ Last(stack).addr # Ctx
<1> DEFINE L == Len(stack)
<1>1. L \in Nat \ {0} /\ Last(stack) = stack[L] /\ stack[L] \in Frames
  BY Popped DEF IInv, Typed
<1>2. stack[L].addr \in Addrs /\ cur.exports \in Values /\ L \in 1..L
  BY <1>1 DEF Frames, IInv, Typed, Exporting
<1>3. ASSUME stack[L].isolated
      PROVE  stack[L].addr = mem[Ctx].id /\ stack[L].addr # Ctx
  <2>1. AddrOf(L + 1) = Ctx /\ AddrOf(L) = stack[L].addr /\ IsModule(L) /\ IsModule(L + 1)
    BY <1>2, <1>3, Addresses DEF IInv
  <2>2. Follows(L, L + 1)
    BY <1>1, <2>1 DEF Follows
  <2>3. L \in 0..(L + 1) /\ L + 1 \in 0..(L + 1)
    BY <1>1
  <2>4. mem[AddrOf(L + 1)].id = AddrOf(L)
    BY <2>2, <2>3 DEF IInv, ScopesInPlace
  <2>5. stack[L].addr # Ctx
    BY <1>2, <1>3 DEF IInv, OwnAddrs
  <2> QED
    BY <2>1, <2>4, <2>5
<1> QED
  BY <1>1, <1>2, <1>3

LEMMA EndedLinked ==
  ASSUME IInv, LInv, stack # <<>>, stack' = Front(stack)
  PROVE  /\ Linked(Ended.mem, Mods' \cup {Ctx}, made)
         /\ \A k \in 1..Len(stack') : stack'[k].parent = Ctx
<1> DEFINE L == Len(stack)
<1> DEFINE fr == stack[L]
<1> DEFINE z == fr.addr
<1>0. IsMem(mem, loaded)
  BY DEF IInv, Typed
<1>1. /\ L \in Nat \ {0} /\ L \in 1..L /\ Last(stack) = fr /\ fr \in Frames /\ z \in Addrs
      /\ cur.exports \in Values /\ (fr.isolated => z = mem[Ctx].id /\ z # Ctx)
  BY TopModule
<1>2. Len(stack') = L - 1 /\ \A k \in 1..(L - 1) : stack'[k] = stack[k]
  BY Popped DEF IInv, Typed
<1>3. \A k : k \in 1..L <=> k \in 1..(L - 1) \/ k = L
  BY <1>1
<1>4. \A k \in 1..Len(stack') : stack'[k].parent = Ctx
  BY <1>2, <1>3 DEF LInv
<1>5. Mods' = IF fr.isolated THEN Mods \ {z} ELSE Mods
  <2>1. Mods' = {stack[k].addr : k \in {k \in 1..(L - 1) : stack[k].isolated}}
    BY <1>2 DEF Mods
  <2>2. \A k \in 1..(L - 1) : fr.isolated /\ stack[k].isolated => stack[k].addr # z
    <3> SUFFICES ASSUME NEW k \in 1..(L - 1), fr.isolated, stack[k].isolated, stack[k].addr = z
                 PROVE  FALSE
      OBVIOUS
    <3>1. k \in 1..L /\ k # L
      BY <1>1
    <3> QED
      BY <1>1, <3>1 DEF IInv, OwnAddrs
  <2>3. ASSUME NEW a
        PROVE  a \in Mods <=> \/ a \in {stack[k].addr : k \in {k \in 1..(L - 1) : stack[k].isolated}}
                              \/ fr.isolated /\ a = z
    BY <1>3 DEF Mods
  <2>4. CASE fr.isolated
    <3>1. z \notin {stack[k].addr : k \in {k \in 1..(L - 1) : stack[k].isolated}}
      BY <2>2, <2>4
    <3> QED
      BY <2>1, <2>3, <2>4, <3>1
  <2>5. CASE ~fr.isolated
    BY <2>1, <2>3, <2>5
  <2> QED
    BY <2>4, <2>5
<1>6. CASE fr.isolated
  <2> DEFINE r == Rebind(mem, cur.exports, z).mem
  <2> DEFINE p == LeaveModule(r, fr)
  <2>1. Ended.mem = p
    BY <1>1, <1>6 DEF Ended
  <2>2. IsMem(r, loaded) /\ Raised(mem, r)
    BY <1>0, <1>1, RebindMem, RebindIs
  <2> HIDE DEF r
  <2>3. SameLinks(mem, r)
    BY <2>2, RaisedLinks
  <2>4. Linked(r, Mods \cup {Ctx}, made) /\ r[Ctx].id = z /\ z # Ctx
    <3>1. Linked(r, Mods \cup {Ctx}, made)
      BY <2>3, SameLinked DEF LInv
    <3> QED
      BY <1>1, <1>6, <2>3, <3>1, Bounds DEF SameLinks
  <2>5. /\ p[Ctx] = r[z]
        /\ p[z].id = r[Ctx].id /\ p[z].live = r[Ctx].live /\ p[z].parent = fr.parent
        /\ p[z].next = r[Ctx].next
        /\ \A b \in Addrs \ {Ctx, z} : p[b] = r[b]
    BY <1>1, <1>6, <2>2, LeaveIs
  <2>6. fr.parent = Ctx
    BY <1>1 DEF LInv
  <2> HIDE DEF p
  <2>7. SameLink(r[z], p[Ctx]) /\ \A b \in Addrs \ {Ctx, z} : SameLink(r[b], p[b])
    BY <2>5 DEF SameLink
  <2>8. Linked(p, (Mods \cup {Ctx}) \ {z}, made)
    BY <1>1, <2>4, <2>5, <2>6, <2>7, LeaveLinked
  <2>9. Mods' \cup {Ctx} = (Mods \cup {Ctx}) \ {z}
    BY <1>5, <1>6, <2>4
  <2> QED
    BY <1>4, <2>1, <2>8, <2>9
<1>7. CASE ~fr.isolated
  <2>1. Ended.mem = mem
    BY <1>1, <1>7 DEF Ended
  <2> QED
    BY <1>4, <1>5, <1>7, <2>1 DEF LInv
<1> QED
  BY <1>6, <1>7

LEMMA PopLinks ==
  ASSUME IInv, LInv, stack # <<>>, stack' = Front(stack), made' = made, running' = running,
         SameLinks(Ended.mem, mem')
  PROVE  LInv'
<1>1. /\ Linked(Ended.mem, Mods' \cup {Ctx}, made)
      /\ \A k \in 1..Len(stack') : stack'[k].parent = Ctx
  BY EndedLinked
<1>2. Linked(mem', Mods' \cup {Ctx}, made)
  BY <1>1, SameLinked
<1> QED
  BY <1>1, <1>2 DEF LInv

LEMMA FailLinks ==
  ASSUME IInv, LInv, FailImport
  PROVE  LInv'
<1>1. mem' = Ended.mem
  BY DEF FailImport, Failed
<1>2. SameLinks(Ended.mem, mem')
  BY <1>1 DEF SameLinks
<1> QED
  BY <1>2, PopLinks DEF FailImport

LEMMA EndLinks ==
  ASSUME IInv, LInv, NEW keep \in BOOLEAN, EndImport(keep)
  PROVE  LInv'
<1>0. stack # <<>> /\ stack' = Front(stack) /\ made' = made /\ running' = running
  BY DEF EndImport
<1> DEFINE x == Ended.exports
<1> DEFINE q == Clone(Ended.mem, x)
<1>1. PICK d : d.exports = x /\ mem' = Result(q, d, keep)
  <2> DEFINE fr == Last(stack)
  <2> DEFINE d == [file |-> fr.file, isolated |-> fr.isolated, exports |-> Ended.exports,
                   has |-> cur.has, by |-> cur.by, own |-> cur.own, scope |-> fr.addr]
  <2>1. mem' = Result(q, d, keep) /\ d.exports = x
    BY DEF EndImport
  <2> HIDE DEF d
  <2> QED
    BY <2>1
<1>2. IsMem(Ended.mem, loaded) /\ x \in Values
  BY <1>0, EndedMem
<1>4. IsMem(q, loaded) /\ Raised(Ended.mem, q)
  BY <1>2, CloneRaised
<1> HIDE DEF q, x
<1>6. SameLinks(Ended.mem, q) /\ SameLinks(q, mem')
  BY <1>1, <1>2, <1>4, RaisedLinks, ResultLinks
<1>7. SameLinks(Ended.mem, mem')
  BY <1>6 DEF SameLinks
<1> QED
  BY <1>0, <1>7, PopLinks

LEMMA InitLinks == Init => LInv
<1> SUFFICES ASSUME Init
             PROVE  LInv
  OBVIOUS
<1>1. stack = <<>> /\ made = 0 /\ Mods = {}
  BY DEF Init, Mods
<1>2. ASSUME NEW a \in Addrs
      PROVE  mem[a].id = a /\ (mem[a].live <=> a = Ctx) /\ mem[a].parent = None /\ mem[a].next = None
  BY DEF Init, NewScope
<1>3. IdsOK(mem, {Ctx})
  BY <1>2, Bounds DEF IdsOK
<1>4. ParentsOK(mem, {Ctx})
  BY <1>2, Bounds DEF ParentsOK
<1>5. LivesOK(mem, {Ctx}, 0)
  <2>1. Ctx <= 0
    BY DEF Ctx
  <2> QED
    BY <1>2, <2>1, Bounds DEF LivesOK
<1>6. NextsOK(mem)
  <2>1. \A i : Behind(mem, i) = {}
    BY <1>2 DEF Behind
  <2> QED
    BY <1>2, <2>1 DEF NextsOK, IsNext
<1>7. Linked(mem, {Ctx}, 0)
  BY <1>3, <1>4, <1>5, <1>6, Bounds DEF Linked
<1> QED
  BY <1>1, <1>7 DEF LInv

LEMMA NextLinks == IInv /\ LInv /\ [Next]_vars => LInv'
<1> SUFFICES ASSUME IInv, LInv, [Next]_vars
             PROVE  LInv'
  OBVIOUS
<1>1. CASE BeginRun \/ EndRun
  BY <1>1, RunLinks
<1>2. CASE Define
  BY <1>2, DefineLinks
<1>3. CASE Drop
  BY <1>3, DropLinks
<1>4. CASE ExportVar \/ ExportFunction
  BY <1>4, ExportLinks
<1>5. CASE FailImport
  BY <1>5, FailLinks
<1>6. CASE \E captured \in BOOLEAN : Close(captured)
  BY <1>6, CloseLinks
<1>7. CASE \E keep \in BOOLEAN : EndImport(keep)
  BY <1>7, EndLinks
<1>8. CASE \E f \in Files, isolated, keep \in BOOLEAN : ImportCached(f, isolated, keep)
  BY <1>8, CachedLinks
<1>9. CASE \E f \in Files, isolated \in BOOLEAN : BeginImport(f, isolated)
  BY <1>9, BeginLinks
<1>10. CASE \E f \in Files, isolated \in BOOLEAN : ImportUnreadable(f, isolated)
  BY <1>10, UnreadableLinks
<1>11. CASE \E p \in Plugins, how \in {"unloaded", "unbound", "ok"} : LoadPlugin(p, how)
  BY <1>11, PluginLinks
<1>12. CASE UNCHANGED vars
  BY <1>12, SameLInv DEF vars, SameLinks, LInv
<1> QED
  BY <1>1, <1>2, <1>3, <1>4, <1>5, <1>6, <1>7, <1>8, <1>9, <1>10, <1>11, <1>12 DEF Next, Step

-----------------------------------------------------------------------------
(* References.                                                             *)

(* The exports of the k-th activation, 0 being the script of the host, and *)
(* the module whose scope it runs in.                                      *)
Exported(st, c, k) == IF k = Len(st) THEN c.exports ELSE st[k + 1].prev.exports
RunsIn(st, k, i) ==
  \E j \in 1..k : st[j].isolated /\ st[j].addr = i /\ \A l \in (j + 1)..k : ~st[l].isolated

(* What counts as a reference to the struct at b: a value that names its   *)
(* address, and inside the module that it is, one that names the address   *)
(* of the context.  M are the modules that run or wait.                    *)
Names(x, b) == b # Ctx /\ x.at = b
OwnV(m, M, a, b) == a = b /\ m[a].v.at = Ctx /\ m[a].id \in M
OwnF(m, M, a, b) == a = b /\ m[a].fn.at = Ctx /\ m[a].id \in M

(* The scopes whose variable, whose function, the activations and the      *)
(* records of imports whose exports refer to it.  The clone of an export   *)
(* in the record of its own module is not counted.                         *)
VIn(m, M, b) == {m[a].id : a \in {a \in Addrs : m[a].live /\ (Names(m[a].v, b) \/ OwnV(m, M, a, b))}}
FIn(m, M, b) == {m[a].id : a \in {a \in Addrs : m[a].live /\ (Names(m[a].fn, b) \/ OwnF(m, M, a, b))}}
XIn(m, st, c, b) ==
  {k \in 0..Len(st) : \/ Names(Exported(st, c, k), b)
                      \/ RunsIn(st, k, m[b].id) /\ Exported(st, c, k).at = Ctx}
IsClone(d) == d.isolated /\ d.exports.at = d.scope
DIn(I, b) == {k \in 1..Len(I) : Names(I[k].exports, b) /\ ~IsClone(I[k])}

(* The list of closures holds one reference, and they hold theirs; scopes  *)
(* in T and the host's are left out.                                       *)
Enough(r, V, F, X, D) ==
  r >= 1 + Cardinality(V) + Cardinality(F) + Cardinality(X) + Cardinality(D)
Counted(m, M, st, c, I, T) ==
  \A b \in Addrs : m[b].live /\ m[b].id \notin T \cup {Ctx} =>
    Enough(m[b].ref, VIn(m, M, b), FIn(m, M, b), XIn(m, st, c, b), DIn(I, b))

Refs(m) == \A a \in Addrs : m[a].ref \in Nat

LEMMA CountFinite ==
  ASSUME NEW m, NEW M, NEW st, NEW c, NEW I, NEW b, Len(st) \in Nat, Len(I) \in Nat,
         \A a \in Addrs : m[a].id \in Addrs
  PROVE  /\ IsFiniteSet(VIn(m, M, b)) /\ IsFiniteSet(FIn(m, M, b))
         /\ IsFiniteSet(XIn(m, st, c, b)) /\ IsFiniteSet(DIn(I, b))
<1>1. IsFiniteSet(Addrs) /\ IsFiniteSet(0..Len(st)) /\ IsFiniteSet(1..Len(I))
  <2>1. 0 \in Int /\ 1 \in Int /\ MaxScopes \in Int /\ Len(st) \in Int /\ Len(I) \in Int
    BY Bounds
  <2> QED
    BY <2>1, Bounds, FS_Interval
<1>2. VIn(m, M, b) \in SUBSET Addrs /\ FIn(m, M, b) \in SUBSET Addrs
  BY DEF VIn, FIn
<1>3. XIn(m, st, c, b) \in SUBSET (0..Len(st)) /\ DIn(I, b) \in SUBSET (1..Len(I))
  BY DEF XIn, DIn
<1> QED
  BY <1>1, <1>2, <1>3, FS_Subset

(* Fewer references, and no fewer counted.                                 *)
LEMMA EnoughLess ==
  ASSUME NEW r \in Nat, NEW s \in Nat, r <= s, NEW V, NEW F, NEW X, NEW D,
         NEW W \in SUBSET V, NEW G \in SUBSET F, NEW Y \in SUBSET X, NEW E \in SUBSET D,
         IsFiniteSet(V), IsFiniteSet(F), IsFiniteSet(X), IsFiniteSet(D), Enough(r, V, F, X, D)
  PROVE  Enough(s, W, G, Y, E)
<1>1. Cardinality(W) \in Nat /\ Cardinality(V) \in Nat /\ Cardinality(W) <= Cardinality(V)
  BY FS_Subset, FS_CardinalityType
<1>2. Cardinality(G) \in Nat /\ Cardinality(F) \in Nat /\ Cardinality(G) <= Cardinality(F)
  BY FS_Subset, FS_CardinalityType
<1>3. Cardinality(Y) \in Nat /\ Cardinality(X) \in Nat /\ Cardinality(Y) <= Cardinality(X)
  BY FS_Subset, FS_CardinalityType
<1>4. Cardinality(E) \in Nat /\ Cardinality(D) \in Nat /\ Cardinality(E) <= Cardinality(D)
  BY FS_Subset, FS_CardinalityType
<1> QED
  BY <1>1, <1>2, <1>3, <1>4 DEF Enough

(* The location i held a reference or not, and now holds one or not.       *)
LEMMA Moved ==
  ASSUME NEW r \in Nat, NEW S, IsFiniteSet(S), NEW k \in Nat, r >= 1 + Cardinality(S) + k,
         NEW i, NEW was \in BOOLEAN, NEW now \in BOOLEAN, i \in S <=> was,
         NEW Z, \A j : j \in Z <=> (j \in S /\ j # i) \/ (now /\ j = i)
  PROVE  /\ Dec(Inc(r, now), was) \in Nat
         /\ Dec(Inc(r, now), was) >= 1 + Cardinality(Z) + k
<1>0. Cardinality(S) \in Nat /\ r > 0
  <2>1. Cardinality(S) \in Nat
    BY FS_CardinalityType
  <2> QED
    BY <2>1
<1> DEFINE U == S \ {i}
<1>1. IsFiniteSet(U) /\ Cardinality(U) = IF was THEN Cardinality(S) - 1 ELSE Cardinality(S)
  BY FS_RemoveElement
<1>2. Z = IF now THEN U \cup {i} ELSE U
  OBVIOUS
<1>3. i \notin U
  OBVIOUS
<1> HIDE DEF U
<1>4. Cardinality(U) \in Nat
  BY <1>1, FS_CardinalityType
<1>5. Cardinality(U \cup {i}) = Cardinality(U) + 1
  BY <1>1, <1>3, FS_AddElement
<1>6. CASE now
  <2>1. Cardinality(Z) = Cardinality(U) + 1
    BY <1>2, <1>5, <1>6
  <2>2. CASE was
    BY <1>0, <1>1, <1>4, <1>6, <2>1, <2>2 DEF Dec, Inc
  <2>3. CASE ~was
    BY <1>0, <1>1, <1>4, <1>6, <2>1, <2>3 DEF Dec, Inc
  <2> QED
    BY <2>2, <2>3
<1>7. CASE ~now
  <2>1. Cardinality(Z) = Cardinality(U)
    BY <1>2, <1>7
  <2>2. CASE was
    BY <1>0, <1>1, <1>4, <1>7, <2>1, <2>2 DEF Dec, Inc
  <2>3. CASE ~was
    BY <1>0, <1>1, <1>4, <1>7, <2>1, <2>3 DEF Dec, Inc
  <2> QED
    BY <2>2, <2>3
<1> QED
  BY <1>6, <1>7

(* So for one of the four.                                                 *)
LEMMA EnoughMoved ==
  ASSUME NEW r \in Nat, NEW V, NEW F, NEW X, NEW D,
         IsFiniteSet(V), IsFiniteSet(F), IsFiniteSet(X), IsFiniteSet(D), Enough(r, V, F, X, D),
         NEW i, NEW was \in BOOLEAN, NEW now \in BOOLEAN, NEW Z
  PROVE  LET s == Dec(Inc(r, now), was)
             Is(S) == (i \in S <=> was) /\ \A j : j \in Z <=> (j \in S /\ j # i) \/ (now /\ j = i) IN
         /\ Is(V) => Enough(s, Z, F, X, D)
         /\ Is(F) => Enough(s, V, Z, X, D)
         /\ Is(X) => Enough(s, V, F, Z, D)
<1>1. Cardinality(V) \in Nat /\ Cardinality(F) \in Nat /\ Cardinality(X) \in Nat
              /\ Cardinality(D) \in Nat
  BY FS_CardinalityType
<1> DEFINE s == Dec(Inc(r, now), was)
<1> DEFINE Is(S) == (i \in S <=> was) /\ \A j : j \in Z <=> (j \in S /\ j # i) \/ (now /\ j = i)
<1>2. ASSUME NEW S, IsFiniteSet(S), Is(S), NEW k \in Nat, r >= 1 + Cardinality(S) + k
      PROVE  s >= 1 + Cardinality(Z) + k /\ s \in Nat /\ Cardinality(Z) \in Nat
  <2>1. s >= 1 + Cardinality(Z) + k /\ s \in Nat
    BY <1>2, Moved
  <2>2. Z \in SUBSET (S \cup {i})
    BY <1>2
  <2>3. IsFiniteSet(Z)
    BY <1>2, <2>2, FS_AddElement, FS_Subset
  <2> QED
    BY <2>1, <2>3, FS_CardinalityType
<1> HIDE DEF s, Is
<1>3. Is(V) => Enough(s, Z, F, X, D)
  <2> DEFINE k == Cardinality(F) + Cardinality(X) + Cardinality(D)
  <2>1. k \in Nat /\ r >= 1 + Cardinality(V) + k
    BY <1>1 DEF Enough
  <2> HIDE DEF k
  <2>2. Is(V) => s >= 1 + Cardinality(Z) + k /\ s \in Nat /\ Cardinality(Z) \in Nat
    BY <1>2, <2>1
  <2> QED
    BY <1>1, <2>2 DEF Enough, k
<1>4. Is(F) => Enough(s, V, Z, X, D)
  <2> DEFINE k == Cardinality(V) + Cardinality(X) + Cardinality(D)
  <2>1. k \in Nat /\ r >= 1 + Cardinality(F) + k
    BY <1>1 DEF Enough
  <2> HIDE DEF k
  <2>2. Is(F) => s >= 1 + Cardinality(Z) + k /\ s \in Nat /\ Cardinality(Z) \in Nat
    BY <1>2, <2>1
  <2> QED
    BY <1>1, <2>2 DEF Enough, k
<1>5. Is(X) => Enough(s, V, F, Z, D)
  <2> DEFINE k == Cardinality(V) + Cardinality(F) + Cardinality(D)
  <2>1. k \in Nat /\ r >= 1 + Cardinality(X) + k
    BY <1>1 DEF Enough
  <2> HIDE DEF k
  <2>2. Is(X) => s >= 1 + Cardinality(Z) + k /\ s \in Nat /\ Cardinality(Z) \in Nat
    BY <1>2, <2>1
  <2> QED
    BY <1>1, <2>2 DEF Enough, k
<1> QED
  BY <1>3, <1>4, <1>5 DEF s, Is

LEMMA RefNat ==
  ASSUME NEW r \in Nat, NEW b \in BOOLEAN, NEW d \in BOOLEAN
  PROVE  /\ Inc(r, b) \in Nat /\ Dec(r, b) \in Nat /\ Dec(Inc(r, b), d) \in Nat /\ r <= Inc(r, b)
         /\ Dec(Inc(r, b), b) = r /\ (~b => Inc(r, b) = r /\ Dec(r, b) = r)
BY DEF Inc, Dec

(* Ids, membership by address.                                             *)
LEMMA InByAddr ==
  ASSUME NEW m, NEW M, NEW n, Linked(m, M \cup {Ctx}, n), NEW a \in Addrs, NEW b
  PROVE  /\ m[a].id \in VIn(m, M, b) <=> m[a].live /\ (Names(m[a].v, b) \/ OwnV(m, M, a, b))
         /\ m[a].id \in FIn(m, M, b) <=> m[a].live /\ (Names(m[a].fn, b) \/ OwnF(m, M, a, b))
<1>1. \A c \in Addrs : m[c].id = m[a].id => c = a
  BY DEF Linked, IdsOK
<1> QED
  BY <1>1 DEF VIn, FIn

(* The struct at the address of the context is the host's, or a module's.  *)
LEMMA CtxId ==
  ASSUME NEW m, NEW M, NEW n, Linked(m, M \cup {Ctx}, n)
  PROVE  m[Ctx].id = Ctx \/ m[Ctx].id \in M
BY DEF Linked, IdsOK

(* The variable of the running scope gets another value.                   *)
LEMMA AssignCounts ==
  ASSUME NEW L, NEW m, IsMem(m, L), NEW M, NEW n, Linked(m, M \cup {Ctx}, n), Refs(m),
         NEW st, NEW c, NEW I, NEW T, Len(st) \in Nat, Len(I) \in Nat,
         Counted(m, M, st, c, I, T), NEW x \in Values
  PROVE  Refs(Assign(m, x)) /\ Counted(Assign(m, x), M, st, c, I, T)
<1> DEFINE p == Assign(m, x)
<1> DEFINE y == m[Ctx].v
<1>1. /\ SameLinks(m, p)
      /\ \A b \in Addrs : /\ p[b].fn = m[b].fn /\ p[b].v = IF b = Ctx THEN x ELSE m[b].v
                          /\ p[b].ref = Dec(Inc(m[b].ref, b = x.at), b = y.at)
  BY AssignIs
<1>2. Linked(p, M \cup {Ctx}, n)
  BY <1>1, SameLinked
<1>3. \A a \in Addrs : p[a].id = m[a].id /\ p[a].live = m[a].live /\ m[a].id \in Addrs
  BY <1>1 DEF SameLinks, IsMem
<1> HIDE DEF p
<1>4. Refs(p)
  <2>1. ASSUME NEW b \in Addrs
        PROVE  p[b].ref \in Nat
    <3> DEFINE r == m[b].ref
    <3> DEFINE now == (b = x.at)
    <3> DEFINE was == (b = y.at)
    <3>1. r \in Nat /\ now \in BOOLEAN /\ was \in BOOLEAN
      BY DEF Refs
    <3>2. p[b].ref = Dec(Inc(r, now), was)
      BY <1>1
    <3> HIDE DEF r, now, was
    <3>3. Dec(Inc(r, now), was) \in Nat
      BY <3>1, RefNat
    <3> QED
      BY <3>2, <3>3
  <2> QED
    BY <2>1 DEF Refs
<1>5. ASSUME NEW b \in Addrs, p[b].live, p[b].id \notin T \cup {Ctx}
      PROVE  Enough(p[b].ref, VIn(p, M, b), FIn(p, M, b), XIn(p, st, c, b), DIn(I, b))
  <2>1. Enough(m[b].ref, VIn(m, M, b), FIn(m, M, b), XIn(m, st, c, b), DIn(I, b))
    BY <1>3, <1>5 DEF Counted
  <2>2. /\ IsFiniteSet(VIn(m, M, b)) /\ IsFiniteSet(FIn(m, M, b))
        /\ IsFiniteSet(XIn(m, st, c, b)) /\ IsFiniteSet(DIn(I, b))
    BY <1>3, CountFinite
  <2>3. FIn(p, M, b) = FIn(m, M, b)
    BY <1>1, <1>3 DEF FIn, OwnF
  <2>4. XIn(p, st, c, b) = XIn(m, st, c, b)
    BY <1>3 DEF XIn
  <2> DEFINE i == m[Ctx].id
  <2>5. m[Ctx].live
    BY DEF Linked, LivesOK
  <2>6. b = Ctx => i \in M
    BY <1>3, <1>5, CtxId
  <2>7. i \in VIn(m, M, b) <=> b = y.at
    <3>1. i \in VIn(m, M, b) <=> m[Ctx].live /\ (Names(m[Ctx].v, b) \/ OwnV(m, M, Ctx, b))
      BY Bounds, InByAddr
    <3> QED
      BY <2>5, <2>6, <3>1 DEF Names, OwnV
  <2>8. ASSUME NEW j
        PROVE  j \in VIn(p, M, b) <=> (j \in VIn(m, M, b) /\ j # i) \/ (b = x.at /\ j = i)
    <3>1. CASE j = i
      <4>1. p[Ctx].id \in VIn(p, M, b) <=> p[Ctx].live /\ (Names(p[Ctx].v, b) \/ OwnV(p, M, Ctx, b))
        BY <1>2, Bounds, InByAddr
      <4>2. p[Ctx].id = i /\ p[Ctx].live /\ p[Ctx].v = x
        BY <1>1, <1>3, <2>5, Bounds
      <4>3. i \in VIn(p, M, b) <=> b = x.at
        BY <2>6, <4>1, <4>2 DEF Names, OwnV
      <4> QED
        BY <3>1, <4>3
    <3>2. CASE j # i
      <4>1. j \in VIn(p, M, b) <=> \E a \in Addrs \ {Ctx} : p[a].id = j /\ p[a].live
                    /\ (Names(p[a].v, b) \/ OwnV(p, M, a, b))
        BY <1>3, <3>2, Bounds DEF VIn
      <4>2. j \in VIn(m, M, b) <=> \E a \in Addrs \ {Ctx} : m[a].id = j /\ m[a].live
                    /\ (Names(m[a].v, b) \/ OwnV(m, M, a, b))
        BY <3>2, Bounds DEF VIn
      <4>3. \A a \in Addrs \ {Ctx} : p[a].v = m[a].v
        BY <1>1
      <4> QED
        BY <1>3, <3>2, <4>1, <4>2, <4>3 DEF OwnV
    <3> QED
      BY <3>1, <3>2
  <2>9. m[b].ref \in Nat /\ (b = y.at) \in BOOLEAN /\ (b = x.at) \in BOOLEAN
    BY DEF Refs
  <2> DEFINE V == VIn(m, M, b)
  <2> DEFINE W == VIn(p, M, b)
  <2> DEFINE F == FIn(m, M, b)
  <2> DEFINE X == XIn(m, st, c, b)
  <2> DEFINE D == DIn(I, b)
  <2> DEFINE r == m[b].ref
  <2> DEFINE was == (b = y.at)
  <2> DEFINE now == (b = x.at)
  <2>10. Enough(Dec(Inc(r, now), was), W, F, X, D)
    <3>1. /\ r \in Nat /\ was \in BOOLEAN /\ now \in BOOLEAN /\ Enough(r, V, F, X, D)
          /\ IsFiniteSet(V) /\ IsFiniteSet(F) /\ IsFiniteSet(X) /\ IsFiniteSet(D)
          /\ (i \in V <=> was) /\ \A j : j \in W <=> (j \in V /\ j # i) \/ (now /\ j = i)
      BY <2>1, <2>2, <2>7, <2>8, <2>9
    <3> HIDE DEF V, W, F, X, D, r, was, now, i
    <3> QED
      BY <3>1, EnoughMoved
  <2>11. p[b].ref = Dec(Inc(r, now), was)
    BY <1>1
  <2> QED
    BY <2>3, <2>4, <2>10, <2>11
<1> QED
  BY <1>4, <1>5 DEF Counted, p

(* The activation on top of the stack runs in the struct of the context.   *)
LEMMA TopRuns ==
  ASSUME IInv, NEW i, i # Ctx
  PROVE  RunsIn(stack, Len(stack), i) <=> i = mem[Ctx].id
<1> DEFINE L == Len(stack)
<1>0. L \in Nat
  BY Facts DEF IInv
<1>1. /\ AddrOf(0) = Ctx /\ AddrOf(L + 1) = Ctx
      /\ \A k \in 1..L : AddrOf(k) = stack[k].addr
      /\ IsModule(0) /\ IsModule(L + 1)
      /\ \A k \in 1..L : IsModule(k) <=> stack[k].isolated
  BY Addresses DEF IInv
<1>2. \A j, k \in 0..(L + 1) : Follows(j, k) => mem[AddrOf(k)].id = AddrOf(j)
  BY DEF IInv, ScopesInPlace
<1>3. ASSUME NEW j \in 1..L, stack[j].isolated, \A l \in (j + 1)..L : ~stack[l].isolated
      PROVE  mem[Ctx].id = stack[j].addr
  <2>1. Follows(j, L + 1)
    <3>1. \A l \in (j + 1)..((L + 1) - 1) : l \in (j + 1)..L /\ l \in 1..L
      BY <1>0
    <3>2. IsModule(j) /\ j < L + 1
      BY <1>0, <1>1, <1>3
    <3> QED
      BY <1>1, <1>3, <3>1, <3>2 DEF Follows
  <2>2. j \in 0..(L + 1) /\ L + 1 \in 0..(L + 1)
    BY <1>0
  <2> QED
    BY <1>1, <1>2, <2>1, <2>2
<1>4. CASE \E j \in 1..L : stack[j].isolated
  <2> DEFINE Z == {j \in 1..L : stack[j].isolated}
  <2>1. Z \in SUBSET (0..L) /\ Z # {}
    BY <1>0, <1>4
  <2>2. PICK j \in Z : \A l \in Z : l <= j
    BY <1>0, <2>1, Largest
  <2>3. stack[j].isolated /\ j \in 1..L /\ \A l \in (j + 1)..L : ~stack[l].isolated
    BY <1>0, <2>2
  <2> QED
    BY <1>3, <2>3 DEF RunsIn
<1>5. CASE \A j \in 1..L : ~stack[j].isolated
  <2>1. Follows(0, L + 1)
    <3>1. \A l \in (0 + 1)..((L + 1) - 1) : l \in 1..L
      BY <1>0
    <3> QED
      BY <1>0, <1>1, <1>5, <3>1 DEF Follows
  <2>2. 0 \in 0..(L + 1) /\ L + 1 \in 0..(L + 1)
    BY <1>0
  <2>3. mem[Ctx].id = Ctx
    BY <1>1, <1>2, <2>1, <2>2
  <2> QED
    BY <1>5, <2>3 DEF RunsIn
<1> QED
  BY <1>4, <1>5

(* The running file exports another value.                                 *)
LEMMA ExportCounts ==
  ASSUME IInv, LInv, Refs(mem), NEW T, Counted(mem, Mods, stack, cur, imports, T),
         NEW x \in Values, NEW d, d.exports = x, NEW p,
         \A b \in Addrs : /\ SameStruct(mem[b], p[b])
                          /\ p[b].ref \in Nat /\ Inc(mem[b].ref, b = x.at) <= p[b].ref
  PROVE  Refs(p) /\ Counted(p, Mods, stack, d, imports, T)
<1> DEFINE m == mem
<1> DEFINE y == cur.exports
<1>0. /\ IsMem(mem, loaded) /\ x.at \in Places /\ y.at \in Places
      /\ Len(stack) \in Nat /\ Len(imports) \in Nat
  BY Facts DEF IInv, Typed, Exporting, Values
<1>1. \A b \in Addrs : SameStruct(m[b], p[b]) /\ Inc(m[b].ref, b = x.at) <= p[b].ref
  OBVIOUS
<1>2. Linked(m, Mods \cup {Ctx}, made)
  BY DEF LInv
<1>3. \A a \in Addrs : p[a].id = m[a].id /\ p[a].live = m[a].live /\ m[a].id \in Addrs
                       /\ p[a].v = m[a].v /\ p[a].fn = m[a].fn
  BY <1>0, <1>1 DEF SameStruct, IsMem
<1>4. Refs(p)
  BY DEF Refs
<1>5. ASSUME NEW b \in Addrs, p[b].live, p[b].id \notin T \cup {Ctx}
      PROVE  Enough(p[b].ref, VIn(p, Mods, b), FIn(p, Mods, b), XIn(p, stack, d, b), DIn(imports, b))
  <2> DEFINE V == VIn(m, Mods, b)
  <2> DEFINE F == FIn(m, Mods, b)
  <2> DEFINE X == XIn(m, stack, cur, b)
  <2> DEFINE Y == XIn(p, stack, d, b)
  <2> DEFINE D == DIn(imports, b)
  <2> DEFINE r == m[b].ref
  <2> DEFINE was == (b = y.at)
  <2> DEFINE now == (b = x.at)
  <2> DEFINE i == Len(stack)
  <2>1. Enough(r, V, F, X, D)
    BY <1>3, <1>5 DEF Counted
  <2>2. IsFiniteSet(V) /\ IsFiniteSet(F) /\ IsFiniteSet(X) /\ IsFiniteSet(D)
    BY <1>0, <1>3, CountFinite
  <2>3. VIn(p, Mods, b) = V /\ FIn(p, Mods, b) = F
    BY <1>3 DEF VIn, FIn, OwnV, OwnF
  <2>4. RunsIn(stack, i, m[b].id) <=> b = Ctx
    <3>1. RunsIn(stack, i, m[b].id) <=> m[b].id = m[Ctx].id
      BY <1>3, <1>5, TopRuns
    <3>2. m[b].id = m[Ctx].id => b = Ctx
      BY <1>2, Bounds DEF Linked, IdsOK
    <3> QED
      BY <3>1, <3>2
  <2>5. i \in X <=> was
    BY <1>0, <2>4 DEF XIn, Exported, Names
  <2>6. i \in Y <=> now
    BY <1>0, <1>3, <2>4 DEF XIn, Exported, Names
  <2>7. \A j : j # i => (j \in Y <=> j \in X)
    BY <1>3 DEF XIn, Exported
  <2>8. r \in Nat /\ was \in BOOLEAN /\ now \in BOOLEAN
    BY DEF Refs
  <2>9. Enough(Dec(Inc(r, now), was), V, F, Y, D)
    <3>1. \A j : j \in Y <=> (j \in X /\ j # i) \/ (now /\ j = i)
      BY <2>6, <2>7
    <3> HIDE DEF V, F, X, Y, D, r, was, now, i
    <3> QED
      BY <2>1, <2>2, <2>5, <2>8, <3>1, EnoughMoved
  <2>10. Dec(Inc(r, now), was) \in Nat /\ p[b].ref \in Nat /\ Dec(Inc(r, now), was) <= p[b].ref
    <3>1. Inc(r, now) <= p[b].ref /\ p[b].ref \in Nat
      BY <1>1, <1>4 DEF Refs
    <3> HIDE DEF r, now, was
    <3> QED
      BY <2>8, <3>1 DEF Dec, Inc
  <2>11. IsFiniteSet(Y)
    BY <1>0, <1>3, CountFinite
  <2> DEFINE s == p[b].ref
  <2> DEFINE q == Dec(Inc(r, now), was)
  <2>12. q \in Nat /\ s \in Nat /\ q <= s /\ Enough(q, V, F, Y, D)
    BY <2>9, <2>10
  <2>13. Enough(s, V, F, Y, D)
    <3> HIDE DEF V, F, Y, D, s, q
    <3> QED
      BY <2>2, <2>11, <2>12, EnoughLess
  <2> QED
    BY <2>3, <2>13
<1> QED
  BY <1>4, <1>5 DEF Counted

(* A definition: the running scope refers to itself.                       *)
LEMMA DefineCounts ==
  ASSUME NEW m, NEW M, NEW n, Linked(m, M \cup {Ctx}, n), Refs(m), \A a \in Addrs : m[a].id \in Addrs,
         NEW st, NEW c, NEW I, NEW T, Len(st) \in Nat, Len(I) \in Nat,
         Counted(m, M, st, c, I, T), m[Ctx].fn.at \in {None, Ctx},
         NEW x, x.at = Ctx, NEW p, SameLinks(m, p),
         \A b \in Addrs : /\ p[b].v = m[b].v /\ p[b].fn = IF b = Ctx THEN x ELSE m[b].fn
                          /\ p[b].ref = Inc(m[b].ref, b = Ctx)
  PROVE  Refs(p) /\ Counted(p, M, st, c, I, T)
<1>2. Linked(p, M \cup {Ctx}, n)
  BY SameLinked
<1>3. \A a \in Addrs : p[a].id = m[a].id /\ p[a].live = m[a].live
  BY DEF SameLinks
<1>4. ASSUME NEW b \in Addrs
      PROVE  m[b].ref \in Nat /\ p[b].ref \in Nat /\ m[b].ref <= p[b].ref
  <2> DEFINE r == m[b].ref
  <2> DEFINE now == (b = Ctx)
  <2>1. r \in Nat /\ now \in BOOLEAN
    BY DEF Refs
  <2>2. p[b].ref = Inc(r, now)
    OBVIOUS
  <2> HIDE DEF now
  <2>3. Inc(r, now) \in Nat /\ r <= Inc(r, now)
    BY <2>1, RefNat
  <2> QED
    BY <2>1, <2>2, <2>3
<1>5. ASSUME NEW b \in Addrs, p[b].live, p[b].id \notin T \cup {Ctx}
      PROVE  Enough(p[b].ref, VIn(p, M, b), FIn(p, M, b), XIn(p, st, c, b), DIn(I, b))
  <2> DEFINE V == VIn(m, M, b)
  <2> DEFINE F == FIn(m, M, b)
  <2> DEFINE G == FIn(p, M, b)
  <2> DEFINE X == XIn(m, st, c, b)
  <2> DEFINE D == DIn(I, b)
  <2> DEFINE r == m[b].ref
  <2>1. Enough(r, V, F, X, D)
    BY <1>3, <1>5 DEF Counted
  <2>2. IsFiniteSet(V) /\ IsFiniteSet(F) /\ IsFiniteSet(X) /\ IsFiniteSet(D)
    BY CountFinite
  <2>3. VIn(p, M, b) = V /\ XIn(p, st, c, b) = X
    BY <1>3 DEF VIn, XIn, OwnV
  <2> DEFINE i == m[Ctx].id
  <2>4. m[Ctx].live
    BY DEF Linked, LivesOK
  <2>5. b = Ctx => i \in M
    <3>1. Linked(m, M \cup {Ctx}, n)
      OBVIOUS
    <3>2. i = Ctx \/ i \in M
      BY ONLY <3>1, CtxId
    <3> QED
      BY <1>3, <1>5, <3>2
  <2>6. b # Ctx => m[Ctx].fn.at # b
    BY Bounds
  <2>7. ASSUME NEW j, j # i
        PROVE  j \in G <=> j \in F
    <3>1. j \in G <=> \E a \in Addrs \ {Ctx} : p[a].id = j /\ p[a].live
                  /\ (Names(p[a].fn, b) \/ OwnF(p, M, a, b))
      BY <1>3, <2>7, Bounds DEF FIn
    <3>2. j \in F <=> \E a \in Addrs \ {Ctx} : m[a].id = j /\ m[a].live
                  /\ (Names(m[a].fn, b) \/ OwnF(m, M, a, b))
      BY <2>7, Bounds DEF FIn
    <3>3. \A a \in Addrs \ {Ctx} : p[a].fn = m[a].fn
      OBVIOUS
    <3>4. \A a \in Addrs \ {Ctx} : OwnF(p, M, a, b) <=> OwnF(m, M, a, b)
      BY <1>3, <3>3 DEF OwnF
    <3> HIDE DEF G, F, i
    <3> QED
      BY <1>3, <3>1, <3>2, <3>3, <3>4
  <2>8. i \in G <=> b = Ctx
    <3>1. p[Ctx].id \in G <=> p[Ctx].live /\ (Names(p[Ctx].fn, b) \/ OwnF(p, M, Ctx, b))
      BY <1>2, Bounds, InByAddr
    <3>2. p[Ctx].id = i /\ p[Ctx].live /\ p[Ctx].fn = x
      BY <1>3, <2>4, Bounds
    <3> HIDE DEF G, i
    <3> QED
      BY <2>5, <3>1, <3>2 DEF Names, OwnF
  <2>9. i \in F => b = Ctx
    <3>1. m[Ctx].id \in F <=> m[Ctx].live /\ (Names(m[Ctx].fn, b) \/ OwnF(m, M, Ctx, b))
      BY Bounds, InByAddr
    <3> QED
      BY <2>6, <3>1 DEF Names, OwnF
  <2>10. r \in Nat /\ p[b].ref \in Nat /\ r <= p[b].ref /\ p[b].ref = Inc(r, b = Ctx)
    BY <1>4
  <2>11. CASE i \in F
    <3>1. G \in SUBSET F
      BY <2>7, <2>11
    <3> DEFINE s == p[b].ref
    <3> HIDE DEF V, F, G, X, D, r, s
    <3>2. r \in Nat /\ s \in Nat /\ r <= s
      BY <2>10 DEF s
    <3>3. V \in SUBSET V /\ X \in SUBSET X /\ D \in SUBSET D
      OBVIOUS
    <3>4. Enough(s, V, G, X, D)
      BY <2>1, <2>2, <3>1, <3>2, <3>3, EnoughLess
    <3> QED
      BY <2>3, <3>4 DEF G, D, s
  <2>12. CASE i \notin F
    <3> DEFINE now == (b = Ctx)
    <3> DEFINE was == FALSE
    <3>1. \A j : j \in G <=> (j \in F /\ j # i) \/ (now /\ j = i)
      BY <2>7, <2>8
    <3>2. now \in BOOLEAN /\ was \in BOOLEAN /\ (i \in F <=> was)
      BY <2>12
    <3>3. p[b].ref = Dec(Inc(r, now), was)
      BY <2>10 DEF Dec
    <3> HIDE DEF V, F, G, X, D, r, now, i, was
    <3>4. Enough(Dec(Inc(r, now), was), V, G, X, D)
      BY <2>1, <2>2, <2>10, <3>1, <3>2, EnoughMoved
    <3> QED
      BY <2>3, <3>3, <3>4 DEF G, D
  <2> QED
    BY <2>11, <2>12
<1>6. Refs(p)
  BY <1>4 DEF Refs
<1> QED
  BY <1>5, <1>6 DEF Counted

(* The struct at a is now at b, and refers to it what referred to it.      *)
LEMMA CountsLess ==
  ASSUME NEW m, NEW M, NEW st, NEW c, NEW I, NEW T, Len(st) \in Nat, Len(I) \in Nat,
         \A a \in Addrs : m[a].id \in Addrs, Refs(m), Counted(m, M, st, c, I, T),
         NEW a \in Addrs, m[a].live, m[a].id \notin T \cup {Ctx},
         NEW s \in Nat, m[a].ref <= s, NEW W \in SUBSET VIn(m, M, a), NEW G \in SUBSET FIn(m, M, a),
         NEW Y \in SUBSET XIn(m, st, c, a), NEW E \in SUBSET DIn(I, a)
  PROVE  Enough(s, W, G, Y, E)
<1> DEFINE V == VIn(m, M, a)
<1> DEFINE F == FIn(m, M, a)
<1> DEFINE X == XIn(m, st, c, a)
<1> DEFINE D == DIn(I, a)
<1> DEFINE r == m[a].ref
<1>1. Enough(r, V, F, X, D)
  BY DEF Counted
<1>2. IsFiniteSet(V) /\ IsFiniteSet(F) /\ IsFiniteSet(X) /\ IsFiniteSet(D)
  BY CountFinite
<1>3. r \in Nat /\ r <= s
  BY DEF Refs
<1>4. W \in SUBSET V /\ G \in SUBSET F /\ Y \in SUBSET X /\ E \in SUBSET D
  OBVIOUS
<1> HIDE DEF V, F, X, D, r
<1> QED
  BY <1>1, <1>2, <1>3, <1>4, EnoughLess

LEMMA RaisedCounts ==
  ASSUME NEW L, NEW m, IsMem(m, L), NEW p, Raised(m, p), Refs(m), NEW M, NEW st, NEW c, NEW I, NEW T,
         Len(st) \in Nat, Len(I) \in Nat, Counted(m, M, st, c, I, T)
  PROVE  Refs(p) /\ Counted(p, M, st, c, I, T)
<1>1. \A b \in Addrs : SameStruct(m[b], p[b]) /\ p[b].ref \in Nat /\ m[b].ref <= p[b].ref
  BY DEF Raised, Refs
<1>2. \A b \in Addrs : /\ p[b].id = m[b].id /\ p[b].live = m[b].live /\ m[b].id \in Addrs
                       /\ p[b].v = m[b].v /\ p[b].fn = m[b].fn
  BY <1>1 DEF SameStruct, IsMem
<1>3. ASSUME NEW b \in Addrs, p[b].live, p[b].id \notin T \cup {Ctx}
      PROVE  Enough(p[b].ref, VIn(p, M, b), FIn(p, M, b), XIn(p, st, c, b), DIn(I, b))
  <2>1. VIn(p, M, b) = VIn(m, M, b) /\ FIn(p, M, b) = FIn(m, M, b)
    BY <1>2 DEF VIn, FIn, OwnV, OwnF
  <2>2. XIn(p, st, c, b) = XIn(m, st, c, b)
    BY <1>2 DEF XIn
  <2>3. m[b].live /\ m[b].id \notin T \cup {Ctx} /\ p[b].ref \in Nat /\ m[b].ref <= p[b].ref
    BY <1>1, <1>2, <1>3
  <2>4. Enough(p[b].ref, VIn(m, M, b), FIn(m, M, b), XIn(m, st, c, b), DIn(I, b))
    BY <1>2, <2>3, CountsLess
  <2> QED
    BY <2>1, <2>2, <2>4
<1> QED
  BY <1>1, <1>3 DEF Refs, Counted

LEMMA EnoughOne ==
  ASSUME NEW V, NEW F, NEW X, NEW D, V = {}, F = {}, X = {}, D = {}
  PROVE  Enough(1, V, F, X, D)
BY FS_EmptySet DEF Enough

(* One more reference, counted.                                            *)
LEMMA EnoughMore ==
  ASSUME NEW r \in Nat, NEW V, NEW F, NEW X, NEW D,
         IsFiniteSet(V), IsFiniteSet(F), IsFiniteSet(X), IsFiniteSet(D), Enough(r, V, F, X, D),
         NEW i, i \notin V, NEW now \in BOOLEAN, NEW Z, \A j : j \in Z <=> j \in V \/ (now /\ j = i)
  PROVE  Enough(Inc(r, now), Z, F, X, D)
<1> DEFINE was == FALSE
<1>1. was \in BOOLEAN /\ (i \in V <=> was) /\ \A j : j \in Z <=> (j \in V /\ j # i) \/ (now /\ j = i)
  OBVIOUS
<1>2. Dec(Inc(r, now), was) = Inc(r, now)
  BY DEF Dec
<1> HIDE DEF was
<1>3. Enough(Dec(Inc(r, now), was), Z, F, X, D)
  BY <1>1, EnoughMoved
<1> QED
  BY <1>2, <1>3

(* No value names the scope n.                                             *)
Unnamed(m, st, c, I, n) ==
  /\ \A a \in Addrs : m[a].live => m[a].v.at # n /\ m[a].fn.at # n
  /\ \A k \in 0..Len(st) : Exported(st, c, k).at # n
  /\ \A k \in 1..Len(I) : I[k].exports.at # n
  /\ \A j \in 1..Len(st) : st[j].isolated => st[j].addr # n

(* A snapshot holds the clone of a value.                                  *)
LEMMA SnapshotCounts ==
  ASSUME NEW m, NEW M, NEW st, NEW c, NEW I, NEW T, Len(st) \in Nat, Len(I) \in Nat,
         \A a \in Addrs : m[a].id \in Addrs, Refs(m), Counted(m, M, st, c, I, T),
         NEW n \in Addrs, n # Ctx, n \notin M, Unnamed(m, st, c, I, n), ~m[n].live,
         \A a \in Addrs \ {n} : m[a].id # n, NEW x \in Values, x.at # n, NEW p,
         p[n].id = n, p[n].live, p[n].fn = Number, p[n].v = x, p[n].ref = 1,
         \A b \in Addrs \ {n} :
           /\ p[b].id = m[b].id /\ p[b].live = m[b].live /\ p[b].fn = m[b].fn /\ p[b].v = m[b].v
           /\ p[b].ref = Inc(m[b].ref, b = x.at)
  PROVE  Refs(p) /\ Counted(p, M, st, c, I, T)
<1>1. ASSUME NEW b \in Addrs \ {n}
      PROVE  m[b].ref \in Nat /\ p[b].ref \in Nat /\ m[b].ref <= p[b].ref
  <2> DEFINE r == m[b].ref
  <2> DEFINE now == (b = x.at)
  <2>1. r \in Nat /\ now \in BOOLEAN
    BY DEF Refs
  <2>2. p[b].ref = Inc(r, now)
    OBVIOUS
  <2> HIDE DEF now
  <2>3. Inc(r, now) \in Nat /\ r <= Inc(r, now)
    BY <2>1, RefNat
  <2> QED
    BY <2>1, <2>2, <2>3
<1>2. Refs(p)
  <2>1. p[n].ref \in Nat
    OBVIOUS
  <2> QED
    BY <1>1, <2>1 DEF Refs
<1>3. Number.at # n
  BY NumberType, Bounds
<1>4. Enough(p[n].ref, VIn(p, M, n), FIn(p, M, n), XIn(p, st, c, n), DIn(I, n))
  <2>1. \A a \in Addrs : p[a].live => p[a].v.at # n /\ p[a].fn.at # n
    BY <1>3 DEF Unnamed
  <2>2. VIn(p, M, n) = {} /\ FIn(p, M, n) = {}
    BY <2>1 DEF VIn, FIn, Names, OwnV, OwnF
  <2>3. XIn(p, st, c, n) = {} /\ DIn(I, n) = {}
    <3>1. \A k \in 0..Len(st) : ~RunsIn(st, k, n)
      BY DEF RunsIn, Unnamed
    <3> QED
      BY <3>1 DEF Unnamed, XIn, DIn, Names
  <2> QED
    BY <2>2, <2>3, EnoughOne
<1>5. ASSUME NEW b \in Addrs \ {n}, p[b].live, p[b].id \notin T \cup {Ctx}
      PROVE  Enough(p[b].ref, VIn(p, M, b), FIn(p, M, b), XIn(p, st, c, b), DIn(I, b))
  <2>1. m[b].live /\ m[b].id \notin T \cup {Ctx}
    BY <1>5
  <2>2. XIn(p, st, c, b) = XIn(m, st, c, b)
    BY DEF XIn
  <2>3. ASSUME NEW j
        PROVE  j \in FIn(p, M, b) <=> j \in FIn(m, M, b)
    <3>1. j \in FIn(p, M, b) <=> \E a \in Addrs \ {n} : p[a].id = j /\ p[a].live
                  /\ (Names(p[a].fn, b) \/ OwnF(p, M, a, b))
      BY NumberType, Bounds DEF FIn, Names, OwnF
    <3>2. j \in FIn(m, M, b) <=> \E a \in Addrs \ {n} : m[a].id = j /\ m[a].live
                  /\ (Names(m[a].fn, b) \/ OwnF(m, M, a, b))
      BY DEF FIn
    <3>3. \A a \in Addrs \ {n} : OwnF(p, M, a, b) <=> OwnF(m, M, a, b)
      BY DEF OwnF
    <3> QED
      BY <3>1, <3>2, <3>3
  <2>4. FIn(p, M, b) = FIn(m, M, b)
    BY <2>3
  <2> DEFINE now == b # Ctx /\ b = x.at
  <2>5. ASSUME NEW j
        PROVE  j \in VIn(p, M, b) <=> (j \in VIn(m, M, b) /\ j # n) \/ (now /\ j = n)
    <3>1. j \in VIn(p, M, b) <=> \/ \E a \in Addrs \ {n} : p[a].id = j /\ p[a].live /\ (Names(p[a].v, b) \/ OwnV(p, M, a, b))
                                 \/ j = n /\ (Names(x, b) \/ OwnV(p, M, n, b))
      BY DEF VIn
    <3>2. j \in VIn(m, M, b) <=> \E a \in Addrs \ {n} : m[a].id = j /\ m[a].live
                  /\ (Names(m[a].v, b) \/ OwnV(m, M, a, b))
      BY DEF VIn
    <3>3. \A a \in Addrs \ {n} : OwnV(p, M, a, b) <=> OwnV(m, M, a, b)
      BY DEF OwnV
    <3>4. (Names(x, b) \/ OwnV(p, M, n, b)) <=> now
      BY DEF Names, OwnV
    <3>5. \A a \in Addrs \ {n} : p[a].id # n
      OBVIOUS
    <3> HIDE DEF now
    <3> QED
      BY <3>1, <3>2, <3>3, <3>4, <3>5
  <2>6. n \notin VIn(m, M, b)
    BY DEF VIn
  <2>7. CASE b = Ctx
    <3>1. VIn(p, M, b) \in SUBSET VIn(m, M, b)
      BY <2>5, <2>7
    <3>2. p[b].ref \in Nat /\ m[b].ref <= p[b].ref
      BY <1>1
    <3> DEFINE s == p[b].ref
    <3> DEFINE W == VIn(p, M, b)
    <3> DEFINE F == FIn(m, M, b)
    <3> DEFINE X == XIn(m, st, c, b)
    <3> DEFINE D == DIn(I, b)
    <3>3. Enough(s, W, F, X, D)
      <4>1. s \in Nat /\ m[b].ref <= s /\ W \in SUBSET VIn(m, M, b) /\ F \in SUBSET FIn(m, M, b)
            /\ X \in SUBSET XIn(m, st, c, b) /\ D \in SUBSET DIn(I, b) /\ b \in Addrs
        BY <3>1, <3>2
      <4> HIDE DEF s, W, F, X, D
      <4> QED
        BY <2>1, <4>1, CountsLess
    <3> QED
      BY <2>2, <2>4, <3>3
  <2>8. CASE b # Ctx
    <3> DEFINE r == m[b].ref
    <3> DEFINE V == VIn(m, M, b)
    <3> DEFINE W == VIn(p, M, b)
    <3> DEFINE F == FIn(m, M, b)
    <3> DEFINE X == XIn(m, st, c, b)
    <3> DEFINE D == DIn(I, b)
    <3>1. Enough(r, V, F, X, D)
      BY <2>1 DEF Counted
    <3>2. IsFiniteSet(V) /\ IsFiniteSet(F) /\ IsFiniteSet(X) /\ IsFiniteSet(D)
      BY CountFinite
    <3>3. r \in Nat /\ now \in BOOLEAN
      BY <1>1
    <3>4. n \notin V
      BY <2>6
    <3>5. \A j : j \in W <=> j \in V \/ (now /\ j = n)
      BY <2>5, <2>6
    <3>6. p[b].ref = Inc(r, now)
      <4>1. now <=> b = x.at
        BY <2>8
      <4>2. p[b].ref = Inc(m[b].ref, b = x.at)
        OBVIOUS
      <4> QED
        BY <4>1, <4>2 DEF Inc
    <3> HIDE DEF V, W, F, X, D, r, now
    <3>7. Enough(Inc(r, now), W, F, X, D)
      BY <3>1, <3>2, <3>3, <3>4, <3>5, EnoughMore
    <3> QED
      BY <2>2, <2>4, <3>6, <3>7 DEF W, F, X, D
  <2> QED
    BY <2>7, <2>8
<1> QED
  BY <1>2, <1>4, <1>5 DEF Counted

(* One more activation, u[Len(u)], on the stack.                           *)
Deeper(st, c, u) ==
  /\ Len(st) \in Nat /\ Len(u) = Len(st) + 1
  /\ \A k \in 1..Len(st) : u[k] = st[k]
  /\ u[Len(u)].prev.exports = c.exports

LEMMA DeeperExports ==
  ASSUME NEW st, NEW c, NEW u, NEW d, Deeper(st, c, u), NEW k \in 0..Len(st)
  PROVE  Exported(u, d, k) = Exported(st, c, k)
<1>0. Len(st) \in Nat /\ Len(u) = Len(st) + 1
  BY DEF Deeper
<1>1. k # Len(u)
  BY <1>0
<1>2. CASE k = Len(st)
  BY <1>0, <1>1, <1>2 DEF Exported, Deeper
<1>3. CASE k # Len(st)
  <2>1. k + 1 \in 1..Len(st)
    BY <1>0, <1>3
  <2> QED
    BY <1>1, <1>3, <2>1 DEF Exported, Deeper
<1> QED
  BY <1>2, <1>3

LEMMA DeeperIndex ==
  ASSUME NEW st, NEW c, NEW u, Deeper(st, c, u)
  PROVE  /\ \A k \in 0..Len(u) : k \in 0..Len(st) \/ k = Len(u)
         /\ \A k \in 0..Len(st) : k \in 0..Len(u) /\ k # Len(u)
<1>0. Len(st) \in Nat /\ Len(u) = Len(st) + 1
  BY DEF Deeper
<1> QED
  BY <1>0

LEMMA DeeperRuns ==
  ASSUME NEW st, NEW c, NEW u, Deeper(st, c, u), NEW k \in 0..Len(st), NEW i
  PROVE  RunsIn(u, k, i) <=> RunsIn(st, k, i)
<1>1. ASSUME NEW j \in 1..k
      PROVE  u[j] = st[j] /\ \A l \in (j + 1)..k : u[l] = st[l]
  BY DEF Deeper
<1> QED
  BY <1>1 DEF RunsIn

(* The references of an activation that exports nothing yet.               *)
LEMMA PushX ==
  ASSUME NEW st, NEW c, NEW u, NEW d, Deeper(st, c, u), d.exports = Number,
         NEW m, NEW a, NEW p, NEW b \in Addrs, p[b].id = m[a].id,
         \A k \in 0..Len(st) : Names(Exported(st, c, k), b) => Names(Exported(st, c, k), a)
  PROVE  XIn(p, u, d, b) \in SUBSET XIn(m, st, c, a)
<1>1. ASSUME NEW k \in XIn(p, u, d, b)
      PROVE  k \in XIn(m, st, c, a)
  <2>1. k \in 0..Len(u) /\ (Names(Exported(u, d, k), b) \/ (RunsIn(u, k, p[b].id) /\ Exported(u, d, k).at = Ctx))
    BY <1>1 DEF XIn
  <2>2. k # Len(u)
    BY <2>1, NumberType, Bounds DEF Names, Exported
  <2>3. k \in 0..Len(st)
    BY <2>1, <2>2, DeeperIndex
  <2>4. Exported(u, d, k) = Exported(st, c, k)
    BY <2>3, DeeperExports
  <2>5. RunsIn(u, k, p[b].id) <=> RunsIn(st, k, p[b].id)
    BY <2>3, DeeperRuns
  <2> QED
    BY <2>1, <2>3, <2>4, <2>5 DEF XIn
<1> QED
  BY <1>1

(* A shared import begins.                                                 *)
LEMMA PushCounts ==
  ASSUME NEW m, NEW M, NEW st, NEW c, NEW I, NEW T, Len(I) \in Nat,
         \A a \in Addrs : m[a].id \in Addrs, Refs(m), Counted(m, M, st, c, I, T),
         NEW u, Deeper(st, c, u), NEW d, d.exports = Number
  PROVE  Counted(m, M, u, d, I, T)
<1>1. ASSUME NEW b \in Addrs, m[b].live, m[b].id \notin T \cup {Ctx}
      PROVE  Enough(m[b].ref, VIn(m, M, b), FIn(m, M, b), XIn(m, u, d, b), DIn(I, b))
  <2>1. XIn(m, u, d, b) \in SUBSET XIn(m, st, c, b)
    BY PushX
  <2> DEFINE W == VIn(m, M, b)
  <2> DEFINE F == FIn(m, M, b)
  <2> DEFINE X == XIn(m, u, d, b)
  <2> DEFINE D == DIn(I, b)
  <2> DEFINE s == m[b].ref
  <2>2. /\ s \in Nat /\ m[b].ref <= s /\ W \in SUBSET VIn(m, M, b) /\ F \in SUBSET FIn(m, M, b)
        /\ X \in SUBSET XIn(m, st, c, b) /\ D \in SUBSET DIn(I, b) /\ Len(st) \in Nat
    BY <2>1 DEF Refs, Deeper
  <2> HIDE DEF s, W, F, X, D
  <2>3. Enough(s, W, F, X, D)
    BY <1>1, <2>2, CountsLess
  <2> QED
    BY <2>3 DEF s, W, F, X, D
<1> QED
  BY <1>1 DEF Counted

(* Two structs that are the same scope with the same values.               *)
SameScope(s, t) ==
  t.id = s.id /\ t.live = s.live /\ t.fn = s.fn /\ t.v = s.v /\ t.ref = s.ref

(* The run of a module begins: n is exchanged with the running scope.      *)
LEMMA EnterCounts ==
  ASSUME NEW m, NEW M, NEW st, NEW c, NEW I, NEW T, Len(I) \in Nat,
         \A a \in Addrs : m[a].id \in Addrs, Refs(m), Counted(m, M, st, c, I, T),
         NEW n \in Addrs, n # Ctx, n \notin M, Unnamed(m, st, c, I, n),
         \A a \in Addrs \ {n} : m[a].id # n,
         m[n].id = n, m[n].fn = Number, m[n].ref = 1, m[n].v.at = Ctx => n \in T,
         NEW u, Deeper(st, c, u), NEW d, d.exports = Number,
         NEW p, SameScope(m[n], p[Ctx]), SameScope(m[Ctx], p[n]),
         \A b \in Addrs \ {Ctx, n} : SameScope(m[b], p[b])
  PROVE  Refs(p) /\ Counted(p, M \cup {n}, u, d, I, T)
<1> DEFINE Q == M \cup {n}
<1>0. Ctx \in Addrs /\ Len(st) \in Nat /\ Number.at # Ctx
  BY Bounds, NumberType DEF Deeper
<1>1. Refs(p)
  BY <1>0 DEF Refs, SameScope
<1>2. \A a \in Addrs : p[a].live => p[a].v.at # n /\ p[a].fn.at # n
  BY <1>0 DEF SameScope, Unnamed
<1>3. ASSUME p[Ctx].id \notin T \cup {Ctx}
      PROVE  Enough(p[Ctx].ref, VIn(p, Q, Ctx), FIn(p, Q, Ctx), XIn(p, u, d, Ctx), DIn(I, Ctx))
  <2>1. VIn(p, Q, Ctx) = {} /\ FIn(p, Q, Ctx) = {}
    BY <1>0, <1>3 DEF VIn, FIn, Names, OwnV, OwnF, SameScope
  <2>2. DIn(I, Ctx) = {}
    BY DEF DIn, Names
  <2>3. XIn(p, u, d, Ctx) = {}
    <3>1. ASSUME NEW k \in XIn(p, u, d, Ctx)
          PROVE  FALSE
      <4>1. k \in 0..Len(u) /\ RunsIn(u, k, n) /\ Exported(u, d, k).at = Ctx
        BY <3>1 DEF XIn, Names, SameScope
      <4>2. k # Len(u)
        BY <1>0, <4>1 DEF Exported
      <4>3. k \in 0..Len(st) /\ RunsIn(st, k, n)
        <5>1. k \in 0..Len(st)
          BY <4>1, <4>2, DeeperIndex
        <5> QED
          BY <4>1, <5>1, DeeperRuns
      <4>4. \A j \in 1..k : j \in 1..Len(st)
        BY <1>0, <4>3
      <4> QED
        BY <4>3, <4>4 DEF RunsIn, Unnamed
    <3> QED
      BY <3>1
  <2>4. p[Ctx].ref = 1
    BY DEF SameScope
  <2> QED
    BY <2>1, <2>2, <2>3, <2>4, EnoughOne
<1>5. ASSUME NEW b \in Addrs, NEW a \in Addrs, b # Ctx, SameScope(m[a], p[b]), a # n, m[a].live,
             m[a].id \notin T \cup {Ctx}, a = IF b = n THEN Ctx ELSE b
      PROVE  Enough(p[b].ref, VIn(p, Q, b), FIn(p, Q, b), XIn(p, u, d, b), DIn(I, b))
  <2>1. m[a].id # n /\ p[b].id = m[a].id
    BY <1>5 DEF SameScope
  <2>2. \A e \in Addrs : \E f \in Addrs : SameScope(m[f], p[e])
    BY <1>0
  <2>3. ASSUME NEW j \in VIn(p, Q, b)
        PROVE  j \in VIn(m, M, a)
    <3>1. PICK e \in Addrs : p[e].id = j /\ p[e].live /\ (Names(p[e].v, b) \/ OwnV(p, Q, e, b))
      BY <2>3 DEF VIn
    <3>2. CASE Names(p[e].v, b)
      <4>1. b # n
        BY <1>2, <3>1, <3>2 DEF Names
      <4>2. PICK f \in Addrs : SameScope(m[f], p[e])
        BY <2>2
      <4> QED
        BY <1>5, <3>1, <3>2, <4>1, <4>2 DEF SameScope, VIn
    <3>3. CASE OwnV(p, Q, e, b)
      <4>1. e = b /\ p[b].v.at = Ctx /\ p[b].id \in M
        BY <2>1, <3>3 DEF OwnV
      <4>2. OwnV(m, M, a, a)
        BY <1>5, <4>1 DEF SameScope, OwnV
      <4> QED
        BY <1>5, <2>1, <3>1, <4>1, <4>2 DEF VIn
    <3> QED
      BY <3>1, <3>2, <3>3
  <2>4. ASSUME NEW j \in FIn(p, Q, b)
        PROVE  j \in FIn(m, M, a)
    <3>1. PICK e \in Addrs : p[e].id = j /\ p[e].live /\ (Names(p[e].fn, b) \/ OwnF(p, Q, e, b))
      BY <2>4 DEF FIn
    <3>2. CASE Names(p[e].fn, b)
      <4>1. b # n
        BY <1>2, <3>1, <3>2 DEF Names
      <4>2. PICK f \in Addrs : SameScope(m[f], p[e])
        BY <2>2
      <4> QED
        BY <1>5, <3>1, <3>2, <4>1, <4>2 DEF SameScope, FIn
    <3>3. CASE OwnF(p, Q, e, b)
      <4>1. e = b /\ p[b].fn.at = Ctx /\ p[b].id \in M
        BY <2>1, <3>3 DEF OwnF
      <4>2. OwnF(m, M, a, a)
        BY <1>5, <4>1 DEF SameScope, OwnF
      <4> QED
        BY <1>5, <2>1, <3>1, <4>1, <4>2 DEF FIn
    <3> QED
      BY <3>1, <3>2, <3>3
  <2>5. XIn(p, u, d, b) \in SUBSET XIn(m, st, c, a)
    <3>1. \A k \in 0..Len(st) : Names(Exported(st, c, k), b) => Names(Exported(st, c, k), a)
      BY <1>5 DEF Unnamed, Names
    <3> QED
      BY <2>1, <3>1, PushX
  <2>6. DIn(I, b) \in SUBSET DIn(I, a)
    BY <1>5 DEF Unnamed, DIn, Names
  <2> DEFINE W == VIn(p, Q, b)
  <2> DEFINE F == FIn(p, Q, b)
  <2> DEFINE X == XIn(p, u, d, b)
  <2> DEFINE D == DIn(I, b)
  <2> DEFINE s == p[b].ref
  <2>7. /\ s \in Nat /\ m[a].ref <= s /\ W \in SUBSET VIn(m, M, a) /\ F \in SUBSET FIn(m, M, a)
        /\ X \in SUBSET XIn(m, st, c, a) /\ D \in SUBSET DIn(I, a)
    <3>1. s = m[a].ref /\ m[a].ref \in Nat
      BY <1>5 DEF SameScope, Refs
    <3>2. W \in SUBSET VIn(m, M, a) /\ F \in SUBSET FIn(m, M, a)
      BY <2>3, <2>4
    <3> HIDE DEF s, W, F
    <3> QED
      BY <2>5, <2>6, <3>1, <3>2
  <2> HIDE DEF s, W, F, X, D
  <2>8. Enough(s, W, F, X, D)
    BY <1>0, <1>5, <2>7, CountsLess
  <2> QED
    BY <2>8 DEF s, W, F, X, D
<1>6. ASSUME NEW b \in Addrs, p[b].live, p[b].id \notin T \cup {Ctx}
      PROVE  Enough(p[b].ref, VIn(p, Q, b), FIn(p, Q, b), XIn(p, u, d, b), DIn(I, b))
  <2>1. CASE b = Ctx
    BY <1>3, <1>6, <2>1
  <2>2. CASE b # Ctx
    <3> DEFINE a == IF b = n THEN Ctx ELSE b
    <3>1. a \in Addrs /\ a # n /\ SameScope(m[a], p[b])
      BY <1>0, <2>2
    <3>2. m[a].live /\ m[a].id \notin T \cup {Ctx}
      BY <1>6, <3>1 DEF SameScope
    <3> QED
      BY <1>5, <2>2, <3>1, <3>2
  <2> QED
    BY <2>1, <2>2
<1> QED
  BY <1>1, <1>6 DEF Counted

(* An activation hands its exports over to the list of imports.            *)
LEMMA EnoughHanded ==
  ASSUME NEW r \in Nat, NEW s \in Nat, r <= s, NEW V, NEW F, NEW X, NEW D,
         IsFiniteSet(V), IsFiniteSet(F), IsFiniteSet(X), IsFiniteSet(D), Enough(r, V, F, X, D),
         NEW W \in SUBSET V, NEW G \in SUBSET F, NEW i, NEW Y \in SUBSET X, i \notin Y,
         NEW j, NEW E \in SUBSET (D \cup {j}), j \in E => i \in X
  PROVE  Enough(s, W, G, Y, E)
<1>1. CASE j \notin E
  <2>1. E \in SUBSET D
    BY <1>1
  <2> QED
    BY <2>1, EnoughLess
<1>2. CASE j \in E
  <2>1. IsFiniteSet(X \ {i}) /\ Cardinality(X \ {i}) = Cardinality(X) - 1 /\ Cardinality(X) \in Nat
    BY <1>2, FS_RemoveElement, FS_CardinalityType
  <2>2. Y \in SUBSET (X \ {i})
    OBVIOUS
  <2>3. Cardinality(Y) \in Nat /\ Cardinality(Y) <= Cardinality(X) - 1
    BY <2>1, <2>2, FS_Subset, FS_CardinalityType
  <2>4. IsFiniteSet(D \cup {j}) /\ Cardinality(D) \in Nat /\ Cardinality(D \cup {j}) <= Cardinality(D) + 1
        /\ Cardinality(D \cup {j}) \in Nat
    <3>1. IsFiniteSet(D \cup {j}) /\ Cardinality(D \cup {j}) = IF j \in D THEN Cardinality(D) ELSE Cardinality(D) + 1
      BY FS_AddElement
    <3>2. Cardinality(D) \in Nat /\ Cardinality(D \cup {j}) \in Nat
      BY <3>1, FS_CardinalityType
    <3> QED
      BY <3>1, <3>2
  <2>5. Cardinality(E) \in Nat /\ Cardinality(E) <= Cardinality(D) + 1
    <3>1. Cardinality(E) \in Nat /\ Cardinality(E) <= Cardinality(D \cup {j})
      BY <2>4, FS_Subset, FS_CardinalityType
    <3> QED
      BY <2>4, <3>1
  <2>6. Cardinality(W) \in Nat /\ Cardinality(V) \in Nat /\ Cardinality(W) <= Cardinality(V)
    BY FS_Subset, FS_CardinalityType
  <2>7. Cardinality(G) \in Nat /\ Cardinality(F) \in Nat /\ Cardinality(G) <= Cardinality(F)
    BY FS_Subset, FS_CardinalityType
  <2> QED
    BY <2>1, <2>3, <2>4, <2>5, <2>6, <2>7 DEF Enough
<1> QED
  BY <1>1, <1>2

LEMMA CountsHanded ==
  ASSUME NEW m, NEW M, NEW st, NEW c, NEW I, NEW T, Len(st) \in Nat, Len(I) \in Nat,
         \A a \in Addrs : m[a].id \in Addrs, Refs(m), Counted(m, M, st, c, I, T),
         NEW a \in Addrs, m[a].live, m[a].id \notin T \cup {Ctx},
         NEW s \in Nat, m[a].ref <= s, NEW W \in SUBSET VIn(m, M, a), NEW G \in SUBSET FIn(m, M, a),
         NEW Y \in SUBSET XIn(m, st, c, a), Len(st) \notin Y,
         NEW E \in SUBSET (DIn(I, a) \cup {Len(I) + 1}), Len(I) + 1 \in E => Len(st) \in XIn(m, st, c, a)
  PROVE  Enough(s, W, G, Y, E)
<1> DEFINE V == VIn(m, M, a)
<1> DEFINE F == FIn(m, M, a)
<1> DEFINE X == XIn(m, st, c, a)
<1> DEFINE D == DIn(I, a)
<1> DEFINE r == m[a].ref
<1> DEFINE i == Len(st)
<1> DEFINE j == Len(I) + 1
<1>1. Enough(r, V, F, X, D)
  BY DEF Counted
<1>2. IsFiniteSet(V) /\ IsFiniteSet(F) /\ IsFiniteSet(X) /\ IsFiniteSet(D)
  BY CountFinite
<1>3. r \in Nat /\ r <= s
  BY DEF Refs
<1>4. W \in SUBSET V /\ G \in SUBSET F /\ Y \in SUBSET X /\ i \notin Y /\ E \in SUBSET (D \cup {j})
      /\ (j \in E => i \in X)
  OBVIOUS
<1> HIDE DEF V, F, X, D, r, i, j
<1> QED
  BY <1>1, <1>2, <1>3, <1>4, EnoughHanded

(* The activation on top is gone.                                          *)
LEMMA PopX ==
  ASSUME NEW w, NEW e, NEW st, NEW c, Deeper(w, e, st),
         NEW m, NEW a, NEW p, NEW b \in Addrs, p[b].id = m[a].id,
         \A k \in 0..Len(w) : Names(Exported(w, e, k), b) => Names(Exported(w, e, k), a)
  PROVE  XIn(p, w, e, b) \in SUBSET XIn(m, st, c, a) /\ Len(st) \notin XIn(p, w, e, b)
<1>1. ASSUME NEW k \in XIn(p, w, e, b)
      PROVE  k \in XIn(m, st, c, a) /\ k # Len(st)
  <2>1. k \in 0..Len(w) /\ (Names(Exported(w, e, k), b) \/ (RunsIn(w, k, p[b].id) /\ Exported(w, e, k).at = Ctx))
    BY <1>1 DEF XIn
  <2>2. k \in 0..Len(st) /\ k # Len(st)
    BY <2>1, DeeperIndex
  <2>3. Exported(st, c, k) = Exported(w, e, k)
    BY <2>1, DeeperExports
  <2>4. RunsIn(st, k, p[b].id) <=> RunsIn(w, k, p[b].id)
    BY <2>1, DeeperRuns
  <2> QED
    BY <2>1, <2>2, <2>3, <2>4 DEF XIn
<1> QED
  BY <1>1

(* One more record, d, in the list of imports.                             *)
Longer(I, J, d) ==
  Len(I) \in Nat /\ Len(J) = Len(I) + 1 /\ (\A k \in 1..Len(I) : J[k] = I[k]) /\ J[Len(I) + 1] = d

LEMMA LongerD ==
  ASSUME NEW I, NEW J, NEW d, Longer(I, J, d), NEW b
  PROVE  /\ DIn(I, b) \in SUBSET DIn(J, b)
         /\ DIn(J, b) \in SUBSET (DIn(I, b) \cup {Len(I) + 1})
         /\ Len(I) + 1 \in DIn(J, b) => Names(d.exports, b) /\ ~IsClone(d)
<1>1. Len(I) \in Nat /\ Len(J) = Len(I) + 1
  BY DEF Longer
<1>2. ASSUME NEW k \in DIn(I, b)
      PROVE  k \in DIn(J, b)
  <2>1. k \in 1..Len(I) /\ Names(I[k].exports, b) /\ ~IsClone(I[k])
    BY <1>2 DEF DIn
  <2>2. J[k] = I[k] /\ k \in 1..Len(J)
    BY <1>1, <2>1 DEF Longer
  <2> QED
    BY <2>1, <2>2 DEF DIn
<1>3. ASSUME NEW k \in DIn(J, b), k # Len(I) + 1
      PROVE  k \in DIn(I, b)
  <2>1. k \in 1..Len(J) /\ Names(J[k].exports, b) /\ ~IsClone(J[k])
    BY <1>3 DEF DIn
  <2>2. k \in 1..Len(I)
    BY <1>1, <1>3, <2>1
  <2>3. J[k] = I[k]
    BY <2>2 DEF Longer
  <2> QED
    BY <2>1, <2>2, <2>3 DEF DIn
<1>4. Len(I) + 1 \in DIn(J, b) => Names(d.exports, b) /\ ~IsClone(d)
  BY DEF Longer, DIn
<1> QED
  BY <1>2, <1>3, <1>4

(* A shared import ends.                                                   *)
LEMMA PopCounts ==
  ASSUME NEW m, NEW M, NEW st, NEW c, NEW I, NEW T, Len(st) \in Nat,
         \A a \in Addrs : m[a].id \in Addrs, Refs(m), Counted(m, M, st, c, I, T),
         NEW w, NEW e, Deeper(w, e, st), NEW J, NEW d, Longer(I, J, d), d.exports = c.exports
  PROVE  Counted(m, M, w, e, J, T)
<1>1. ASSUME NEW b \in Addrs, m[b].live, m[b].id \notin T \cup {Ctx}
      PROVE  Enough(m[b].ref, VIn(m, M, b), FIn(m, M, b), XIn(m, w, e, b), DIn(J, b))
  <2> DEFINE W == VIn(m, M, b)
  <2> DEFINE F == FIn(m, M, b)
  <2> DEFINE X == XIn(m, w, e, b)
  <2> DEFINE D == DIn(J, b)
  <2> DEFINE s == m[b].ref
  <2>1. X \in SUBSET XIn(m, st, c, b) /\ Len(st) \notin X
    BY PopX
  <2>2. D \in SUBSET (DIn(I, b) \cup {Len(I) + 1})
    BY LongerD
  <2>3. Len(I) + 1 \in D => Len(st) \in XIn(m, st, c, b)
    <3>1. Len(I) + 1 \in D => Names(d.exports, b)
      BY LongerD
    <3>2. Len(st) \in 0..Len(st) /\ Exported(st, c, Len(st)) = c.exports
      BY DEF Exported
    <3> QED
      BY <3>1, <3>2 DEF XIn
  <2>4. /\ s \in Nat /\ m[b].ref <= s /\ W \in SUBSET VIn(m, M, b) /\ F \in SUBSET FIn(m, M, b)
        /\ Len(I) \in Nat
    BY DEF Refs, Longer
  <2> HIDE DEF s, W, F, X, D
  <2>5. Enough(s, W, F, X, D)
    BY <1>1, <2>1, <2>2, <2>3, <2>4, CountsHanded
  <2> QED
    BY <2>5 DEF s, W, F, X, D
<1> QED
  BY <1>1 DEF Counted

(* Nothing that stays names the scope z.                                   *)
Foreign(m, w, e, I, z) ==
  /\ \A a \in Addrs : m[a].live => m[a].v.at # z /\ m[a].fn.at # z
  /\ \A k \in 0..Len(w) : Exported(w, e, k).at # z
  /\ \A k \in 1..Len(I) : I[k].exports.at # z

(* The run of the module z ends: p is the memory after the exchange, with  *)
(* no fewer references.                                                    *)
Leaves(m, z, p) ==
  /\ p[Ctx].id = m[z].id /\ p[Ctx].live = m[z].live /\ p[Ctx].v = m[z].v /\ p[Ctx].fn = m[z].fn
  /\ p[z].id = z /\ p[z].live = m[Ctx].live /\ p[z].v = m[Ctx].v
  /\ p[z].fn = Rehomed(m[Ctx].fn, z)
  /\ \A b \in Addrs \ {Ctx, z} : SameStruct(m[b], p[b])
  /\ Refs(p) /\ m[z].ref <= p[Ctx].ref /\ m[Ctx].ref <= p[z].ref
  /\ \A b \in Addrs \ {Ctx, z} : m[b].ref <= p[b].ref

LEMMA RehomedIs ==
  ASSUME NEW x \in Values, NEW z \in Addrs
  PROVE  /\ Rehomed(x, z) \in Values /\ Rehomed(x, z).home = x.home
         /\ Rehomed(x, z).at = IF x.at = Ctx THEN z ELSE x.at
         /\ x.at # Ctx => Rehomed(x, z) = x
BY DEF Rehomed, Values, Places


(* The importer, back at the address of the context.                       *)
LEMMA LeaveImporter ==
  ASSUME NEW m, NEW M, NEW st, NEW c, NEW I, NEW T,
         \A a \in Addrs : m[a].id \in Addrs, Refs(m), Counted(m, M, st, c, I, T),
         NEW z \in Addrs, z # Ctx, m[z].live, m[z].id # z,
         NEW w, NEW e, Deeper(w, e, st), Len(st) \in Nat, Len(I) \in Nat,
         NEW J, NEW p, Leaves(m, z, p), p[Ctx].id \notin T \cup {Ctx}
  PROVE  LET Q == M \ {z} IN
         Enough(p[Ctx].ref, VIn(p, Q, Ctx), FIn(p, Q, Ctx), XIn(p, w, e, Ctx), DIn(J, Ctx))
<1> DEFINE Q == M \ {z}
<1> DEFINE W == VIn(p, Q, Ctx)
<1> DEFINE F == FIn(p, Q, Ctx)
<1> DEFINE X == XIn(p, w, e, Ctx)
<1> DEFINE D == DIn(J, Ctx)
<1> DEFINE s == p[Ctx].ref
<1>0. Ctx \in Addrs /\ p[Ctx].id = m[z].id /\ p[Ctx].v = m[z].v /\ p[Ctx].fn = m[z].fn
  BY Bounds DEF Leaves
<1>1. W \in SUBSET VIn(m, M, z)
  <2>1. ASSUME NEW j \in W
        PROVE  j \in VIn(m, M, z)
    <3>1. j = p[Ctx].id /\ OwnV(p, Q, Ctx, Ctx)
      BY <2>1 DEF VIn, Names, OwnV
    <3>2. OwnV(m, M, z, z)
      BY <1>0, <3>1 DEF OwnV
    <3> QED
      BY <1>0, <3>1, <3>2 DEF VIn
  <2> QED
    BY <2>1
<1>2. F \in SUBSET FIn(m, M, z)
  <2>1. ASSUME NEW j \in F
        PROVE  j \in FIn(m, M, z)
    <3>1. j = p[Ctx].id /\ OwnF(p, Q, Ctx, Ctx)
      BY <2>1 DEF FIn, Names, OwnF
    <3>2. OwnF(m, M, z, z)
      BY <1>0, <3>1 DEF OwnF
    <3> QED
      BY <1>0, <3>1, <3>2 DEF FIn
  <2> QED
    BY <2>1
<1>3. X \in SUBSET XIn(m, st, c, z)
  <2>1. \A k \in 0..Len(w) : Names(Exported(w, e, k), Ctx) => Names(Exported(w, e, k), z)
    BY DEF Names
  <2> QED
    BY <1>0, <2>1, PopX
<1>4. D \in SUBSET DIn(I, z)
  BY DEF DIn, Names
<1>5. s \in Nat /\ m[z].ref <= s /\ m[z].id \notin T \cup {Ctx}
  BY <1>0 DEF Leaves, Refs
<1> HIDE DEF W, F, X, D, s
<1>6. Enough(s, W, F, X, D)
  BY <1>1, <1>2, <1>3, <1>4, <1>5, CountsLess
<1> QED
  BY <1>6 DEF W, F, X, D, s

(* The module, at its own address.                                         *)
LEMMA LeaveModuleCounts ==
  ASSUME NEW m, NEW M, NEW st, NEW c, NEW I, NEW T,
         \A a \in Addrs : m[a].id \in Addrs /\ m[a].fn \in Values,
         Refs(m), Counted(m, M, st, c, I, T),
         NEW z \in M, z \in Addrs, z # Ctx, m[Ctx].id = z, m[Ctx].live,
         NEW w, NEW e, Deeper(w, e, st), Len(st) \in Nat,
         st[Len(st)].isolated, st[Len(st)].addr = z,
         \A k \in 1..Len(w) : w[k].isolated => w[k].addr # z,
         NEW J, NEW d, Longer(I, J, d), d.isolated, d.scope = z,
         NEW p, Leaves(m, z, p), z \notin T, Foreign(m, w, e, I, z), m[z].live
  PROVE  LET Q == M \ {z} IN
         Enough(p[z].ref, VIn(p, Q, z), FIn(p, Q, z), XIn(p, w, e, z), DIn(J, z))
<1> DEFINE Q == M \ {z}
<1>0. Ctx \in Addrs /\ Len(I) \in Nat /\ Len(st) >= 1
  BY Bounds DEF Longer, Deeper
<1>1. VIn(p, Q, z) = {}
  <2>1. \A a \in Addrs : p[a].live => p[a].v.at # z
    BY <1>0 DEF Leaves, SameStruct, Foreign
  <2> QED
    BY <2>1 DEF VIn, Names, OwnV, Leaves
<1>2. FIn(p, Q, z) \in SUBSET FIn(m, M, Ctx)
  <2>1. ASSUME NEW j \in FIn(p, Q, z)
        PROVE  j \in FIn(m, M, Ctx)
    <3>1. PICK a \in Addrs : p[a].id = j /\ p[a].live /\ p[a].fn.at = z
      BY <2>1 DEF FIn, Names, OwnF, Leaves
    <3>2. a = z
      BY <1>0, <3>1 DEF Leaves, SameStruct, Foreign
    <3>3. m[Ctx].fn \in Values /\ p[z].fn = Rehomed(m[Ctx].fn, z)
      BY <1>0 DEF Leaves
    <3>4. m[Ctx].fn.at # z
      BY <1>0 DEF Foreign
    <3>5. m[Ctx].fn.at = Ctx
      BY <3>1, <3>2, <3>3, <3>4, RehomedIs
    <3>6. j = m[Ctx].id
      BY <3>1, <3>2 DEF Leaves
    <3>7. OwnF(m, M, Ctx, Ctx)
      BY <3>5 DEF OwnF
    <3> QED
      BY <1>0, <3>6, <3>7 DEF FIn
  <2> QED
    BY <2>1
<1>3. XIn(p, w, e, z) = {}
  <2>1. ASSUME NEW k \in XIn(p, w, e, z)
        PROVE  FALSE
    <3>1. k \in 0..Len(w) /\ RunsIn(w, k, z)
      BY <2>1 DEF XIn, Names, Foreign, Leaves
    <3>2. \A j \in 1..k : j \in 1..Len(w)
      BY <3>1 DEF Deeper
    <3> QED
      BY <3>1, <3>2 DEF RunsIn
  <2> QED
    BY <2>1
<1>4. DIn(J, z) = {}
  <2>1. DIn(I, z) = {}
    BY DEF DIn, Names, Foreign
  <2>2. Len(I) + 1 \notin DIn(J, z)
    BY LongerD DEF Names, IsClone
  <2> QED
    BY <2>1, <2>2, LongerD
<1> DEFINE G == FIn(p, Q, z)
<1> DEFINE s == p[z].ref
<1> DEFINE N == {}
<1>5. s \in Nat /\ m[Ctx].ref <= s
  BY DEF Leaves, Refs
<1>6. /\ N \in SUBSET VIn(m, M, Ctx) /\ N \in SUBSET XIn(m, st, c, Ctx) /\ N \in SUBSET DIn(I, Ctx)
      /\ G \in SUBSET FIn(m, M, Ctx)
  BY <1>2
<1> HIDE DEF G, s, N
<1>7. Enough(s, N, G, N, N)
  BY <1>0, <1>5, <1>6, CountsLess
<1> QED
  BY <1>1, <1>3, <1>4, <1>7 DEF s, N, G

(* All the others.                                                         *)
LEMMA LeaveOthers ==
  ASSUME NEW m, NEW M, NEW st, NEW c, NEW I, NEW T,
         \A a \in Addrs : m[a].id \in Addrs /\ m[a].fn \in Values, c.exports \in Values,
         Refs(m), Counted(m, M, st, c, I, T),
         NEW z \in Addrs, z # Ctx, m[Ctx].id = z,
         NEW w, NEW e, Deeper(w, e, st), Len(st) \in Nat,
         NEW J, NEW d, Longer(I, J, d), d.exports = Rehomed(c.exports, z),
         NEW p, Leaves(m, z, p), NEW b \in Addrs \ {Ctx, z}, p[b].live, p[b].id \notin T \cup {Ctx}
  PROVE  LET Q == M \ {z} IN
         Enough(p[b].ref, VIn(p, Q, b), FIn(p, Q, b), XIn(p, w, e, b), DIn(J, b))
<1> DEFINE Q == M \ {z}
<1> DEFINE W == VIn(p, Q, b)
<1> DEFINE F == FIn(p, Q, b)
<1> DEFINE X == XIn(p, w, e, b)
<1> DEFINE D == DIn(J, b)
<1> DEFINE s == p[b].ref
<1>0. Ctx \in Addrs /\ SameStruct(m[b], p[b]) /\ b \in Addrs
  BY Bounds DEF Leaves
<1>1. \A a \in Addrs : \E f \in Addrs : p[a].id = m[f].id /\ p[a].live = m[f].live /\ p[a].v = m[f].v
                                        /\ (Names(p[a].fn, b) => Names(m[f].fn, b))
  <2>1. ASSUME NEW a \in Addrs \ {Ctx, z}
        PROVE  p[a].id = m[a].id /\ p[a].live = m[a].live /\ p[a].v = m[a].v /\ p[a].fn = m[a].fn
    BY DEF Leaves, SameStruct
  <2>2. p[Ctx].id = m[z].id /\ p[Ctx].live = m[z].live /\ p[Ctx].v = m[z].v /\ p[Ctx].fn = m[z].fn
    BY DEF Leaves
  <2>3. p[z].id = m[Ctx].id /\ p[z].live = m[Ctx].live /\ p[z].v = m[Ctx].v
    BY DEF Leaves
  <2>4. Names(p[z].fn, b) => Names(m[Ctx].fn, b)
    <3>1. m[Ctx].fn \in Values /\ p[z].fn = Rehomed(m[Ctx].fn, z)
      BY <1>0 DEF Leaves
    <3> QED
      BY <3>1, RehomedIs DEF Names
  <2>5. ASSUME NEW a \in Addrs
        PROVE  \E f \in Addrs : p[a].id = m[f].id /\ p[a].live = m[f].live /\ p[a].v = m[f].v
                                /\ (Names(p[a].fn, b) => Names(m[f].fn, b))
    <3>1. CASE a = Ctx
      BY <2>2, <3>1
    <3>2. CASE a = z
      BY <1>0, <2>3, <2>4, <3>2
    <3>3. CASE a \notin {Ctx, z}
      BY <2>1, <3>3
    <3> QED
      BY <3>1, <3>2, <3>3
  <2> QED
    BY <2>5
<1>2. ASSUME NEW j \in W
      PROVE  j \in VIn(m, M, b)
  <2>1. PICK a \in Addrs : p[a].id = j /\ p[a].live /\ (Names(p[a].v, b) \/ OwnV(p, Q, a, b))
    BY <1>2 DEF VIn
  <2>2. CASE Names(p[a].v, b)
    <3>1. PICK f \in Addrs : p[a].id = m[f].id /\ p[a].live = m[f].live /\ p[a].v = m[f].v
      BY <1>1
    <3> QED
      BY <2>1, <2>2, <3>1 DEF VIn
  <2>3. CASE OwnV(p, Q, a, b)
    <3>1. a = b /\ OwnV(m, M, b, b)
      BY <1>0, <2>3 DEF OwnV, SameStruct
    <3> QED
      BY <1>0, <2>1, <3>1 DEF VIn, SameStruct
  <2> QED
    BY <2>1, <2>2, <2>3
<1>3. ASSUME NEW j \in F
      PROVE  j \in FIn(m, M, b)
  <2>1. PICK a \in Addrs : p[a].id = j /\ p[a].live /\ (Names(p[a].fn, b) \/ OwnF(p, Q, a, b))
    BY <1>3 DEF FIn
  <2>2. CASE Names(p[a].fn, b)
    <3>1. PICK f \in Addrs : p[a].id = m[f].id /\ p[a].live = m[f].live
                  /\ (Names(p[a].fn, b) => Names(m[f].fn, b))
      BY <1>1
    <3> QED
      BY <2>1, <2>2, <3>1 DEF FIn
  <2>3. CASE OwnF(p, Q, a, b)
    <3>1. a = b /\ OwnF(m, M, b, b)
      BY <1>0, <2>3 DEF OwnF, SameStruct
    <3> QED
      BY <1>0, <2>1, <3>1 DEF FIn, SameStruct
  <2> QED
    BY <2>1, <2>2, <2>3
<1>4. X \in SUBSET XIn(m, st, c, b) /\ Len(st) \notin X
  <2>1. p[b].id = m[b].id
    BY <1>0 DEF SameStruct
  <2> QED
    BY <1>0, <2>1, PopX
<1>5. D \in SUBSET (DIn(I, b) \cup {Len(I) + 1})
  BY LongerD
<1>6. Len(I) + 1 \in D => Len(st) \in XIn(m, st, c, b)
  <2>1. Len(I) + 1 \in D => Names(Rehomed(c.exports, z), b)
    BY LongerD
  <2>2. Len(I) + 1 \in D => Names(c.exports, b)
    BY <2>1, RehomedIs DEF Names
  <2>3. Len(st) \in 0..Len(st) /\ Exported(st, c, Len(st)) = c.exports
    BY DEF Exported
  <2> QED
    BY <2>2, <2>3 DEF XIn
<1>7. s \in Nat /\ m[b].ref <= s /\ Len(I) \in Nat /\ m[b].live /\ m[b].id \notin T \cup {Ctx}
  <2>1. s \in Nat /\ m[b].ref <= s /\ Len(I) \in Nat
    BY <1>0 DEF Leaves, Refs, Longer
  <2>2. m[b].live /\ m[b].id \notin T \cup {Ctx}
    BY <1>0 DEF SameStruct
  <2> HIDE DEF s
  <2> QED
    BY <2>1, <2>2
<1>8. W \in SUBSET VIn(m, M, b) /\ F \in SUBSET FIn(m, M, b)
  BY <1>2, <1>3
<1> HIDE DEF W, F, X, D, s
<1>9. Enough(s, W, F, X, D)
  BY <1>0, <1>4, <1>5, <1>6, <1>7, <1>8, CountsHanded
<1> QED
  BY <1>9 DEF W, F, X, D, s

LEMMA LeaveCounts ==
  ASSUME NEW m, NEW M, NEW st, NEW c, NEW I, NEW T, NEW n, Linked(m, M \cup {Ctx}, n),
         \A a \in Addrs : m[a].id \in Addrs /\ m[a].fn \in Values, c.exports \in Values,
         Refs(m), Counted(m, M, st, c, I, T),
         NEW z \in M, z \in Addrs, z # Ctx, m[Ctx].id = z,
         NEW w, NEW e, Deeper(w, e, st), Len(st) \in Nat,
         st[Len(st)].isolated, st[Len(st)].addr = z,
         \A k \in 1..Len(w) : w[k].isolated => w[k].addr # z,
         NEW J, NEW d, Longer(I, J, d), d.isolated, d.scope = z, d.exports = Rehomed(c.exports, z),
         NEW p, Leaves(m, z, p), z \notin T => Foreign(m, w, e, I, z)
  PROVE  Refs(p) /\ Counted(p, M \ {z}, w, e, J, T)
<1> DEFINE Q == M \ {z}
<1>0. Ctx \in Addrs /\ m[z].live /\ m[Ctx].live /\ m[z].id # z /\ Len(I) \in Nat
  <2>1. m[z].live /\ m[Ctx].live
    BY DEF Linked, LivesOK
  <2>2. m[z].id # z
    BY Bounds DEF Linked, IdsOK
  <2> QED
    BY <2>1, <2>2, Bounds DEF Longer
<1>1. Refs(p)
  BY DEF Leaves
<1>2. ASSUME NEW b \in Addrs, p[b].live, p[b].id \notin T \cup {Ctx}
      PROVE  Enough(p[b].ref, VIn(p, Q, b), FIn(p, Q, b), XIn(p, w, e, b), DIn(J, b))
  <2>1. CASE b = Ctx
    BY <1>0, <1>2, <2>1, LeaveImporter
  <2>2. CASE b = z
    <3>1. z \notin T
      BY <1>2, <2>2 DEF Leaves
    <3> QED
      BY <1>0, <2>2, <3>1, LeaveModuleCounts
  <2>3. CASE b \notin {Ctx, z}
    <3>1. b \in Addrs \ {Ctx, z}
      BY <2>3
    <3> QED
      BY <1>2, <3>1, LeaveOthers
  <2> QED
    BY <2>1, <2>2, <2>3
<1> QED
  BY <1>1, <1>2 DEF Counted

(* The functions of the scopes of S give their references up.              *)
LEMMA EnoughFreed ==
  ASSUME NEW r \in Nat, NEW V, NEW F, NEW X, NEW D, NEW S, NEW g,
         IsFiniteSet(V), IsFiniteSet(F), IsFiniteSet(X), IsFiniteSet(D), Enough(r, V, F, X, D),
         g = Cardinality(F \cap S)
  PROVE  LET s == IF r > g THEN r - g ELSE 0 IN s \in Nat /\ Enough(s, V \ S, F \ S, X, D)
<1>1. Cardinality(F \ S) = Cardinality(F) - Cardinality(F \cap S)
  BY FS_Difference
<1>2. IsFiniteSet(F \cap S) /\ IsFiniteSet(V \ S) /\ IsFiniteSet(F \ S)
  BY FS_Subset
<1>3. V \ S \in SUBSET V
  OBVIOUS
<1>4. Cardinality(V \ S) <= Cardinality(V)
  BY <1>3, FS_Subset
<1>5. /\ Cardinality(F \cap S) \in Nat /\ Cardinality(V) \in Nat
      /\ Cardinality(F) \in Nat /\ Cardinality(X) \in Nat /\ Cardinality(D) \in Nat
      /\ Cardinality(V \ S) \in Nat /\ Cardinality(F \ S) \in Nat
  BY <1>2, FS_CardinalityType
<1> QED
  BY <1>1, <1>4, <1>5 DEF Enough

(* Between runs every scope is at home.                                    *)
LEMMA AtHome ==
  ASSUME NEW m, NEW n, Linked(m, {Ctx}, n)
  PROVE  \A a \in Addrs : m[a].id = a
BY Bounds DEF Linked, IdsOK

LEMMA RefersAtHome ==
  ASSUME NEW m, \A a \in Addrs : m[a].id = a, NEW b \in Addrs, b # Ctx
  PROVE  /\ \A a : a \in VIn(m, {}, b) <=> a \in Addrs /\ m[a].live /\ m[a].v.at = b
         /\ \A a : a \in FIn(m, {}, b) <=> a \in Addrs /\ m[a].live /\ m[a].fn.at = b
BY DEF VIn, FIn, Names, OwnV, OwnF

LEMMA SweepCounts ==
  ASSUME NEW m, NEW n, Linked(m, {Ctx}, n), Refs(m), NEW st, NEW c, NEW I, NEW T,
         Len(st) \in Nat, Len(I) \in Nat, Counted(m, {}, st, c, I, T), NEW S, S = Freed(m),
         NEW p,
         \A a \in Addrs : /\ p[a].id = m[a].id /\ p[a].fn = m[a].fn /\ p[a].v = m[a].v
                          /\ (p[a].live <=> m[a].live /\ a \notin S),
         \A a \in Addrs : m[a].live /\ a \notin S =>
           p[a].ref = IF m[a].ref > Given(m, S, a) THEN m[a].ref - Given(m, S, a) ELSE 0,
         \A a \in Addrs : a \in S \/ ~m[a].live => p[a].ref = m[a].ref
  PROVE  Refs(p) /\ Counted(p, {}, st, c, I, T)
<1>1. \A a \in Addrs : m[a].id = a
  BY AtHome
<1>2. S \in SUBSET Addrs /\ \A a \in S : m[a].live
  BY DEF Freed, Behind
<1>3. IsFiniteSet(S)
  <2>1. 0 \in Int /\ MaxScopes \in Int
    BY Bounds
  <2>2. IsFiniteSet(Addrs)
    BY <2>1, Bounds, FS_Interval
  <2> QED
    BY <1>2, <2>2, FS_Subset
<1>4. Refs(p)
  <2>1. ASSUME NEW a \in Addrs
        PROVE  p[a].ref \in Nat
    <3> DEFINE g == Given(m, S, a)
    <3>1. g \in Nat
      <4> DEFINE A == {b \in S : m[b].fn.at = a}
      <4>1. IsFiniteSet(A)
        BY <1>3, FS_Subset
      <4>2. Cardinality(A) \in Nat
        BY <4>1, FS_CardinalityType
      <4> QED
        BY <4>2 DEF Given
    <3>2. m[a].ref \in Nat
      BY DEF Refs
    <3> HIDE DEF g
    <3>3. CASE m[a].live /\ a \notin S
      <4>1. p[a].ref = IF m[a].ref > g THEN m[a].ref - g ELSE 0
        BY <3>3 DEF g
      <4> QED
        BY <3>1, <3>2, <4>1
    <3>4. CASE a \in S \/ ~m[a].live
      BY <3>2, <3>4
    <3> QED
      BY <3>3, <3>4
  <2> QED
    BY <2>1 DEF Refs
<1>5. \A b \in Addrs : /\ IsFiniteSet(VIn(m, {}, b)) /\ IsFiniteSet(FIn(m, {}, b))
                      /\ IsFiniteSet(XIn(m, st, c, b)) /\ IsFiniteSet(DIn(I, b))
  <2>1. Len(st) \in Nat /\ Len(I) \in Nat /\ \A a \in Addrs : m[a].id \in Addrs
    BY <1>1
  <2> QED
    BY ONLY <2>1, CountFinite
<1>6. ASSUME NEW b \in Addrs, p[b].live, p[b].id \notin T \cup {Ctx}
      PROVE  Enough(p[b].ref, VIn(p, {}, b), FIn(p, {}, b), XIn(p, st, c, b), DIn(I, b))
  <2>1. m[b].live /\ b \notin S /\ m[b].id = b /\ b # Ctx /\ m[b].id \notin T \cup {Ctx}
    BY <1>1, <1>6
  <2> DEFINE V == VIn(m, {}, b)
  <2> DEFINE F == FIn(m, {}, b)
  <2> DEFINE X == XIn(m, st, c, b)
  <2> DEFINE D == DIn(I, b)
  <2> DEFINE r == m[b].ref
  <2>2. Enough(r, V, F, X, D)
    BY <2>1 DEF Counted
  <2>3. IsFiniteSet(V) /\ IsFiniteSet(F) /\ IsFiniteSet(X) /\ IsFiniteSet(D)
    BY <1>5
  <2>4. XIn(p, st, c, b) = X
    BY DEF XIn
  <2>5. /\ \A a : a \in V <=> a \in Addrs /\ m[a].live /\ m[a].v.at = b
        /\ \A a : a \in F <=> a \in Addrs /\ m[a].live /\ m[a].fn.at = b
    BY <1>1, <2>1, RefersAtHome
  <2>6. /\ \A a : a \in VIn(p, {}, b) <=> a \in Addrs /\ p[a].live /\ p[a].v.at = b
        /\ \A a : a \in FIn(p, {}, b) <=> a \in Addrs /\ p[a].live /\ p[a].fn.at = b
    <3>1. \A a \in Addrs : p[a].id = a
      BY <1>1
    <3> QED
      BY <2>1, <3>1, RefersAtHome
  <2> HIDE DEF V, F
  <2>7. VIn(p, {}, b) = V \ S
    BY <2>5, <2>6
  <2>8. FIn(p, {}, b) = F \ S
    BY <2>5, <2>6
  <2> DEFINE g == Given(m, S, b)
  <2>9. g = Cardinality(F \cap S)
    <3>1. F \cap S = {a \in S : m[a].fn.at = b}
      BY <1>2, <2>5
    <3> QED
      BY <3>1 DEF Given
  <2>10. p[b].ref = IF r > g THEN r - g ELSE 0
    BY <2>1
  <2>11. r \in Nat
    BY DEF Refs
  <2> HIDE DEF X, D, r, g
  <2>12. Enough(IF r > g THEN r - g ELSE 0, V \ S, F \ S, X, D)
    BY ONLY <2>2, <2>3, <2>9, <2>11, EnoughFreed
  <2> QED
    BY <2>4, <2>7, <2>8, <2>10, <2>12 DEF D
<1> QED
  BY <1>4, <1>6 DEF Counted

(* A scope that a sweep frees is referred to by nothing counted.           *)
Unreferred(m, st, c, I, b) ==
  /\ \A a \in Addrs : m[a].live => m[a].v.at # b /\ m[a].fn.at # b
  /\ \A k \in 0..Len(st) : Exported(st, c, k).at # b
  /\ \A k \in 1..Len(I) : I[k].exports.at = b => IsClone(I[k])

LEMMA FreedUnreferred ==
  ASSUME NEW m, NEW n, Linked(m, {Ctx}, n), Refs(m), NEW st, NEW c, NEW I, NEW T,
         Len(st) \in Nat, Len(I) \in Nat, Counted(m, {}, st, c, I, T),
         NEW b \in Freed(m), b \notin T
  PROVE  Unreferred(m, st, c, I, b)
<1>1. \A a \in Addrs : m[a].id = a
  BY AtHome
<1>2. b \in Addrs /\ m[b].live /\ b # Ctx /\ m[b].ref <= 1 /\ m[b].ref \in Nat
  BY DEF Freed, Behind, Sweepable, Refs
<1> DEFINE V == VIn(m, {}, b)
<1> DEFINE F == FIn(m, {}, b)
<1> DEFINE X == XIn(m, st, c, b)
<1> DEFINE D == DIn(I, b)
<1> DEFINE r == m[b].ref
<1>3. Enough(r, V, F, X, D)
  BY <1>1, <1>2 DEF Counted
<1>4. IsFiniteSet(V) /\ IsFiniteSet(F) /\ IsFiniteSet(X) /\ IsFiniteSet(D)
  BY <1>1, CountFinite
<1>5. r \in Nat /\ r <= 1
  BY <1>2
<1>6. /\ \A a : a \in V <=> a \in Addrs /\ m[a].live /\ m[a].v.at = b
      /\ \A a : a \in F <=> a \in Addrs /\ m[a].live /\ m[a].fn.at = b
  BY <1>1, <1>2, RefersAtHome
<1>7. /\ \A k \in 0..Len(st) : Exported(st, c, k).at = b => k \in X
      /\ \A k \in 1..Len(I) : I[k].exports.at = b => IsClone(I[k]) \/ k \in D
  BY <1>2 DEF XIn, DIn, Names
<1> HIDE DEF V, F, X, D, r
<1>8. /\ Cardinality(V) \in Nat /\ Cardinality(F) \in Nat /\ Cardinality(X) \in Nat /\ Cardinality(D) \in Nat
  BY <1>4, FS_CardinalityType
<1>9. Cardinality(V) = 0 /\ Cardinality(F) = 0 /\ Cardinality(X) = 0 /\ Cardinality(D) = 0
  BY <1>3, <1>5, <1>8 DEF Enough
<1>10. V = {} /\ F = {} /\ X = {} /\ D = {}
  BY <1>4, <1>9, FS_EmptySet
<1> QED
  BY <1>6, <1>7, <1>10 DEF Unreferred

-----------------------------------------------------------------------------
(* Function values.                                                        *)

(* The scope i has a named function.                                       *)
Defd(m, i) == \E a \in Addrs : m[a].id = i /\ m[a].fn # Number

(* The named function of a scope names the address where its scope is, or  *)
(* that of the context while its module runs or waits.                     *)
Fns(m, M, n) ==
  \A a \in Addrs : m[a].fn # Number =>
    m[a].fn = Value(IF a \in M \cup {Ctx} THEN Ctx ELSE a, m[a].id) /\ a <= n

(* The variable of a script that waits does not name its place.            *)
Waits(m, M) == \A a \in M : m[a].v.at # a

(* A module that exports from its own scope has a named function.          *)
Clones(m, M, n, I, T) ==
  \A k \in 1..Len(I) : I[k].isolated =>
    /\ I[k].scope \in Addrs \ {Ctx} /\ I[k].scope <= n /\ I[k].scope \notin M
    /\ I[k].exports.at = I[k].scope /\ I[k].scope \notin T => m[I[k].scope].fn # Number

(* A value names a scope that was made; the address of a module that       *)
(* waits or runs for another scope only, that of the context for a scope   *)
(* with a named function, and a scope that lives unless it is astray.      *)
Sound(m, M, n, T, x) ==
  /\ x.at # None => x.at <= n /\ (x.at \in M => x.home # x.at)
  /\ x.at = Ctx => Defd(m, x.home)
  /\ x.at # None /\ x.at = x.home /\ x.at \notin T => m[x.at].live

(* The values held.                                                        *)
Keeps(m, st, c, I, x) ==
  \/ \E a \in Addrs : m[a].live /\ (x = m[a].v \/ x = m[a].fn)
  \/ \E k \in 0..Len(st) : x = Exported(st, c, k)
  \/ \E k \in 1..Len(I) : x = I[k].exports

Kept(m, M, n, st, c, I, T) ==
  /\ Fns(m, M, n) /\ Waits(m, M) /\ Clones(m, M, n, I, T)
  /\ \A x : Keeps(m, st, c, I, x) => Sound(m, M, n, T, x)

LEMMA HeldIs ==
  ASSUME Typed, NEW x
  PROVE  x \in Held <=> Keeps(mem, stack, cur, imports, x)
<1>1. Len(stack) \in Nat /\ DOMAIN stack = 1..Len(stack) /\ DOMAIN imports = 1..Len(imports)
  BY Facts
<1>0. Len(stack) \in Nat
  BY <1>1
<1>2. (\E k \in 0..Len(stack) : x = Exported(stack, cur, k))
      <=> x = cur.exports \/ \E k \in 1..Len(stack) : x = stack[k].prev.exports
  <2>1. ASSUME NEW k \in 0..Len(stack), x = Exported(stack, cur, k)
        PROVE  x = cur.exports \/ \E l \in 1..Len(stack) : x = stack[l].prev.exports
    <3>1. CASE k = Len(stack)
      BY <2>1, <3>1 DEF Exported
    <3>2. CASE k # Len(stack)
      <4>1. k + 1 \in 1..Len(stack)
        BY <1>0, <3>2
      <4> QED
        BY <2>1, <3>2, <4>1 DEF Exported
    <3> QED
      BY <3>1, <3>2
  <2>2. ASSUME x = cur.exports
        PROVE  \E k \in 0..Len(stack) : x = Exported(stack, cur, k)
    <3>1. Len(stack) \in 0..Len(stack) /\ Exported(stack, cur, Len(stack)) = cur.exports
      BY <1>1 DEF Exported
    <3> QED
      BY <2>2, <3>1
  <2>3. ASSUME NEW k \in 1..Len(stack), x = stack[k].prev.exports
        PROVE  \E l \in 0..Len(stack) : x = Exported(stack, cur, l)
    <3> DEFINE l == k - 1
    <3>1. l \in 0..Len(stack) /\ l # Len(stack) /\ l + 1 = k
      BY <1>1
    <3>2. Exported(stack, cur, l) = x
      BY <2>3, <3>1 DEF Exported
    <3> QED
      BY <3>1, <3>2
  <2> QED
    BY <2>1, <2>2, <2>3
<1> QED
  BY <1>1, <1>2 DEF Held, Live, Keeps

(* Scopes and functions are not lost, and only new scopes become modules.  *)
Grows(m, M, n, p, Q, k) ==
  /\ n \in Nat /\ k \in Nat /\ n <= k
  /\ \A a \in Q : a \in M \/ a > n
  /\ \A a \in Addrs : m[a].live => p[a].live
  /\ \A a \in Addrs : m[a].fn # Number => \E b \in Addrs : p[b].id = m[a].id /\ p[b].fn # Number
  /\ \A a \in Addrs : a # Ctx /\ a <= n /\ a \notin M /\ m[a].fn # Number => p[a].fn # Number

LEMMA SoundGrows ==
  ASSUME NEW m, NEW M, NEW n, NEW p, NEW Q, NEW k, Grows(m, M, n, p, Q, k),
         NEW T, NEW U, T \subseteq U, NEW x \in Values, Sound(m, M, n, T, x)
  PROVE  Sound(p, Q, k, U, x)
<1>1. x.at \in Places /\ n \in Nat /\ k \in Nat /\ n <= k
  BY DEF Values, Grows
<1>2. ASSUME x.at # None
      PROVE  x.at <= k /\ (x.at \in Q => x.home # x.at)
  <2>1. x.at \in Nat /\ x.at <= n /\ (x.at \in M => x.home # x.at)
    BY <1>1, <1>2, Bounds DEF Sound, Places
  <2>2. x.at \in Q => x.at \in M
    BY <1>1, <2>1 DEF Grows
  <2> QED
    BY <1>1, <2>1, <2>2
<1>3. x.at = Ctx => Defd(p, x.home)
  BY DEF Sound, Defd, Grows
<1>4. x.at # None /\ x.at = x.home /\ x.at \notin U => p[x.at].live
  BY <1>1 DEF Sound, Grows, Places
<1> QED
  BY <1>2, <1>3, <1>4 DEF Sound

(* All values held have their type.                                        *)
Valued(m, st, c, I) == \A x : Keeps(m, st, c, I, x) => x \in Values

LEMMA KeptGrows ==
  ASSUME NEW m, NEW M, NEW n, NEW st, NEW c, NEW I, NEW T, Kept(m, M, n, st, c, I, T),
         Valued(m, st, c, I), NEW p, NEW Q, NEW k, Grows(m, M, n, p, Q, k), NEW U, T \subseteq U,
         Fns(p, Q, k), Waits(p, Q), NEW u, NEW d,
         \A x : Keeps(p, u, d, I, x) => Keeps(m, st, c, I, x) \/ Sound(p, Q, k, U, x)
  PROVE  Kept(p, Q, k, u, d, I, U)
<1>1. ASSUME NEW x, Keeps(p, u, d, I, x)
      PROVE  Sound(p, Q, k, U, x)
  <2>1. CASE Keeps(m, st, c, I, x)
    <3>1. x \in Values /\ Sound(m, M, n, T, x)
      BY <2>1 DEF Kept, Valued
    <3> QED
      BY <3>1, SoundGrows
  <2> QED
    BY <1>1, <2>1
<1>2. Clones(p, Q, k, I, U)
  <2>1. ASSUME NEW j \in 1..Len(I), I[j].isolated
        PROVE  /\ I[j].scope \in Addrs \ {Ctx} /\ I[j].scope <= k /\ I[j].scope \notin Q
               /\ I[j].exports.at = I[j].scope /\ I[j].scope \notin U => p[I[j].scope].fn # Number
    <3> DEFINE a == I[j].scope
    <3>1. a \in Addrs \ {Ctx} /\ a <= n /\ a \notin M /\ (I[j].exports.at = a /\ a \notin T => m[a].fn # Number)
      BY <2>1 DEF Kept, Clones
    <3> HIDE DEF a
    <3>2. n \in Nat /\ k \in Nat /\ n <= k /\ (a \in Q => a > n)
      BY <3>1 DEF Grows
    <3>3. a \in Addrs \ {Ctx} /\ a <= k /\ a \notin Q
      BY <3>1, <3>2, Bounds
    <3>4. I[j].exports.at = a /\ a \notin U => p[a].fn # Number
      BY <3>1 DEF Grows
    <3> QED
      BY <3>3, <3>4 DEF a
  <2> QED
    BY <2>1 DEF Clones
<1> QED
  BY <1>1, <1>2 DEF Kept

LEMMA NumberSound ==
  ASSUME NEW m, NEW M, NEW n, NEW T
  PROVE  Sound(m, M, n, T, Number)
BY NumberType, Bounds DEF Sound

(* The variable of the running scope or the exports become x, or nothing   *)
(* changes.                                                                *)
LEMMA ChangeKept ==
  ASSUME NEW m, NEW M, NEW n \in Nat, NEW st, NEW c, NEW I, NEW T, Kept(m, M, n, st, c, I, T),
         Valued(m, st, c, I), Ctx \notin M, NEW x \in Values, Sound(m, M, n, T, x),
         NEW p, \A a \in Addrs : /\ p[a].id = m[a].id /\ p[a].live = m[a].live /\ p[a].fn = m[a].fn
                                 /\ (a # Ctx => p[a].v = m[a].v),
         p[Ctx].v = m[Ctx].v \/ p[Ctx].v = x,
         NEW d, d.exports = c.exports \/ d.exports = x, NEW U, T \subseteq U, M \subseteq Addrs
  PROVE  Kept(p, M, n, st, d, I, U)
<1>1. Grows(m, M, n, p, M, n)
  BY DEF Grows
<1>2. Fns(p, M, n) /\ Waits(p, M)
  BY DEF Kept, Fns, Waits
<1>3. Sound(p, M, n, U, x)
  BY <1>1, SoundGrows
<1>4. ASSUME NEW y, Keeps(p, st, d, I, y)
      PROVE  Keeps(m, st, c, I, y) \/ Sound(p, M, n, U, y)
  <2>1. Keeps(m, st, c, I, y) \/ y = x
    BY <1>4 DEF Keeps, Exported
  <2> QED
    BY <1>3, <2>1
<1> QED
  BY <1>1, <1>2, <1>4, KeptGrows

(* The running scope defines a function.                                   *)
LEMMA DefineKept ==
  ASSUME NEW m, NEW M, NEW n \in Nat, NEW st, NEW c, NEW I, NEW T, Kept(m, M, n, st, c, I, T),
         Valued(m, st, c, I), Ctx \notin M, M \subseteq Addrs, m[Ctx].live, m[Ctx].id \in Addrs,
         NEW p, \A a \in Addrs : /\ p[a].id = m[a].id /\ p[a].live = m[a].live /\ p[a].v = m[a].v
                                 /\ p[a].fn = IF a = Ctx THEN Value(Ctx, m[Ctx].id) ELSE m[a].fn,
         NEW U, T \subseteq U
  PROVE  Kept(p, M, n, st, c, I, U)
<1> DEFINE x == Value(Ctx, m[Ctx].id)
<1>0. Ctx \in Addrs /\ x.at = Ctx /\ x.home = m[Ctx].id /\ x # Number /\ Ctx <= n
  <2>1. x.at = Ctx /\ x.home = m[Ctx].id
    BY DEF Value
  <2>2. x # Number
    BY <2>1, NumberType, Bounds
  <2> QED
    BY <2>1, <2>2, Bounds DEF Ctx
<1>1. Grows(m, M, n, p, M, n)
  BY <1>0 DEF Grows
<1>2. Fns(p, M, n) /\ Waits(p, M)
  BY <1>0 DEF Kept, Fns, Waits
<1>3. Sound(p, M, n, U, x)
  <2>1. Defd(p, m[Ctx].id)
    BY <1>0 DEF Defd
  <2> HIDE DEF x
  <2> QED
    BY <1>0, <2>1 DEF Sound
<1>4. ASSUME NEW y, Keeps(p, st, c, I, y)
      PROVE  Keeps(m, st, c, I, y) \/ Sound(p, M, n, U, y)
  <2>1. Keeps(m, st, c, I, y) \/ y = x
    BY <1>4 DEF Keeps
  <2> QED
    BY <1>3, <2>1
<1> QED
  BY <1>1, <1>2, <1>4, KeptGrows

(* A snapshot with a clone of a value that is held, or of none.            *)
LEMMA SnapshotKept ==
  ASSUME NEW m, NEW M, NEW n \in Nat, NEW st, NEW c, NEW I, NEW T, Kept(m, M, n, st, c, I, T),
         Valued(m, st, c, I), M \subseteq Addrs, NEW z \in Addrs, z = n + 1, z \notin M,
         NEW x \in Values, Sound(m, M, n, T, x), x.at # z,
         NEW p, p[z].live, p[z].fn = Number, p[z].v = x,
         \A a \in Addrs \ {z} : p[a].id = m[a].id /\ p[a].live = m[a].live /\ p[a].v = m[a].v
                       /\ p[a].fn = m[a].fn,
         NEW U, T \subseteq U
  PROVE  Kept(p, M, z, st, c, I, U)
<1>0. z \in Nat /\ z > n /\ m[z].fn = Number /\ n <= z
  BY DEF Kept, Fns
<1>1. Grows(m, M, n, p, M, z)
  BY <1>0 DEF Grows
<1>2. Fns(p, M, z) /\ Waits(p, M)
  <2>1. ASSUME NEW a \in Addrs, p[a].fn # Number
        PROVE  p[a].fn = Value(IF a \in M \cup {Ctx} THEN Ctx ELSE a, p[a].id) /\ a <= z
    <3>1. a # z
      BY <2>1
    <3>2. a <= n /\ a \in Nat
      BY <2>1, <3>1, Bounds DEF Kept, Fns
    <3> QED
      BY <1>0, <2>1, <3>1, <3>2 DEF Kept, Fns
  <2>2. Fns(p, M, z)
    BY <2>1 DEF Fns
  <2>3. Waits(p, M)
    BY DEF Kept, Waits
  <2> QED
    BY <2>2, <2>3
<1>3. Sound(p, M, z, U, x)
  BY <1>1, SoundGrows
<1>4. ASSUME NEW y, Keeps(p, st, c, I, y)
      PROVE  Keeps(m, st, c, I, y) \/ Sound(p, M, z, U, y)
  <2>1. Keeps(m, st, c, I, y) \/ y = x \/ y = Number
    BY <1>4 DEF Keeps
  <2> QED
    BY <1>3, <2>1, NumberSound
<1> QED
  BY <1>1, <1>2, <1>4, KeptGrows

(* An import begins, in the running scope.                                 *)
LEMMA PushKept ==
  ASSUME NEW m, NEW M, NEW n \in Nat, NEW st, NEW c, NEW I, NEW T, Kept(m, M, n, st, c, I, T),
         Valued(m, st, c, I), NEW u, Deeper(st, c, u), NEW d, d.exports = Number, NEW U, T \subseteq U
  PROVE  Kept(m, M, n, u, d, I, U)
<1>1. Grows(m, M, n, m, M, n)
  BY DEF Grows
<1>2. Fns(m, M, n) /\ Waits(m, M)
  BY DEF Kept
<1>3. ASSUME NEW y, Keeps(m, u, d, I, y)
      PROVE  Keeps(m, st, c, I, y) \/ Sound(m, M, n, U, y)
  <2>1. ASSUME NEW k \in 0..Len(u), y = Exported(u, d, k)
        PROVE  y = Number \/ \E l \in 0..Len(st) : y = Exported(st, c, l)
    <3>1. CASE k = Len(u)
      BY <2>1, <3>1 DEF Exported
    <3>2. CASE k # Len(u)
      <4>1. k \in 0..Len(st)
        BY <3>2, DeeperIndex
      <4>2. y = Exported(st, c, k)
        BY <2>1, <4>1, DeeperExports
      <4> QED
        BY <4>1, <4>2
    <3> QED
      BY <3>1, <3>2
  <2>2. Keeps(m, st, c, I, y) \/ y = Number
    BY <1>3, <2>1 DEF Keeps
  <2> QED
    BY <2>2, NumberSound
<1> QED
  BY <1>1, <1>2, <1>3, KeptGrows

(* An import is over.                                                      *)
LEMMA PopKeeps ==
  ASSUME NEW w, NEW e, NEW st, Deeper(w, e, st), NEW m, NEW c, NEW I, NEW y, Keeps(m, w, e, I, y)
  PROVE  Keeps(m, st, c, I, y)
<1>1. ASSUME NEW k \in 0..Len(w), y = Exported(w, e, k)
      PROVE  \E l \in 0..Len(st) : y = Exported(st, c, l)
  <2>1. k \in 0..Len(st)
    BY DeeperIndex
  <2>2. y = Exported(st, c, k)
    BY <1>1, DeeperExports
  <2> QED
    BY <2>1, <2>2
<1> QED
  BY <1>1 DEF Keeps

LEMMA PopKept ==
  ASSUME NEW m, NEW M, NEW n \in Nat, NEW st, NEW c, NEW I, NEW T, Kept(m, M, n, st, c, I, T),
         Valued(m, st, c, I), NEW w, NEW e, Deeper(w, e, st), NEW U, T \subseteq U
  PROVE  Kept(m, M, n, w, e, I, U)
<1>1. Grows(m, M, n, m, M, n)
  BY DEF Grows
<1>2. Fns(m, M, n) /\ Waits(m, M)
  BY DEF Kept
<1>3. ASSUME NEW y, Keeps(m, w, e, I, y)
      PROVE  Keeps(m, st, c, I, y)
  BY <1>3, PopKeeps
<1> QED
  BY <1>1, <1>2, <1>3, KeptGrows

(* A record is added to the list.                                          *)
LEMMA RecordKept ==
  ASSUME NEW m, NEW M, NEW n, NEW st, NEW c, NEW I, NEW T, Kept(m, M, n, st, c, I, T),
         NEW J, NEW d, Longer(I, J, d), Sound(m, M, n, T, d.exports),
         d.isolated => /\ d.scope \in Addrs \ {Ctx} /\ d.scope <= n /\ d.scope \notin M
                       /\ d.exports.at = d.scope /\ d.scope \notin T => m[d.scope].fn # Number
  PROVE  Kept(m, M, n, st, c, J, T)
<1>1. ASSUME NEW k \in 1..Len(J)
      PROVE  (k \in 1..Len(I) /\ J[k] = I[k]) \/ J[k] = d
  <2>1. Len(I) \in Nat /\ Len(J) = Len(I) + 1
    BY DEF Longer
  <2>2. k \in 1..Len(I) \/ k = Len(I) + 1
    BY <2>1
  <2> QED
    BY <2>2 DEF Longer
<1>2. Clones(m, M, n, J, T)
  BY <1>1 DEF Kept, Clones
<1>3. ASSUME NEW y, Keeps(m, st, c, J, y)
      PROVE  Sound(m, M, n, T, y)
  <2>1. Keeps(m, st, c, I, y) \/ y = d.exports
    BY <1>1, <1>3 DEF Keeps
  <2> QED
    BY <2>1 DEF Kept
<1> QED
  BY <1>2, <1>3 DEF Kept

LEMMA ValueIs ==
  ASSUME NEW a, NEW i
  PROVE  Value(a, i).at = a /\ Value(a, i).home = i
BY DEF Value

(* The scope of the module is in the struct of the context, and what was   *)
(* there in the one at the address n of the module.                        *)
Moves(m, n, p) ==
  /\ p[Ctx].live /\ p[Ctx].fn = Number /\ p[Ctx].v = m[Ctx].v
  /\ p[n].id = m[Ctx].id /\ p[n].live = m[Ctx].live
  /\ p[n].fn = m[Ctx].fn /\ p[n].v = m[Ctx].v
  /\ \A a \in Addrs \ {Ctx, n} : p[a].id = m[a].id /\ p[a].live = m[a].live
                               /\ p[a].v = m[a].v /\ p[a].fn = m[a].fn

(* The run of the module z begins.                                         *)
LEMMA EnterKept ==
  ASSUME NEW m, NEW M, NEW n \in Nat, NEW st, NEW c, NEW I, NEW T, Kept(m, M, n, st, c, I, T),
         Valued(m, st, c, I), Ctx \notin M, M \subseteq Addrs, m[Ctx].live,
         NEW z \in Addrs, z = n + 1, z \notin M, z # Ctx,
         NEW p, Moves(m, z, p),
         NEW u, Deeper(st, c, u), NEW d, d.exports = Number, NEW U, T \subseteq U
  PROVE  Kept(p, M \cup {z}, z, u, d, I, U)
<1> USE DEF Moves
<1> DEFINE Q == M \cup {z}
<1>0. z \in Nat /\ z > n /\ n <= z /\ m[z].fn = Number /\ Ctx \in Addrs
  BY Bounds DEF Kept, Fns
<1>1. Grows(m, M, n, p, Q, z)
  <2>1. \A a \in Q : a \in M \/ a > n
    BY <1>0
  <2>2. \A a \in Addrs : m[a].live => p[a].live
    BY <1>0
  <2>3. \A a \in Addrs : m[a].fn # Number => \E b \in Addrs : p[b].id = m[a].id /\ p[b].fn # Number
    BY <1>0
  <2>4. \A a \in Addrs : a # Ctx /\ a <= n /\ a \notin M /\ m[a].fn # Number => p[a].fn # Number
    BY <1>0
  <2> QED
    BY <1>0, <2>1, <2>2, <2>3, <2>4 DEF Grows
<1>2. m[Ctx].v.at # z
  <2>1. Keeps(m, st, c, I, m[Ctx].v)
    BY <1>0 DEF Keeps
  <2>2. Sound(m, M, n, T, m[Ctx].v)
    BY <2>1 DEF Kept
  <2> QED
    BY <1>0, <2>2, Bounds DEF Sound
<1>3. Waits(p, Q)
  BY <1>0, <1>2 DEF Kept, Waits
<1>4. Fns(p, Q, z)
  <2>1. ASSUME NEW a \in Addrs, p[a].fn # Number
        PROVE  p[a].fn = Value(IF a \in Q \cup {Ctx} THEN Ctx ELSE a, p[a].id) /\ a <= z
    <3>1. CASE a = z
      <4>1. m[Ctx].fn = Value(Ctx, m[Ctx].id)
        BY <1>0, <2>1, <3>1 DEF Kept, Fns
      <4> QED
        BY <1>0, <3>1, <4>1
    <3>2. CASE a # z
      <4>1. a # Ctx /\ a \in Nat
        BY <2>1, <3>2, Bounds
      <4>2. m[a].fn = Value(IF a \in M \cup {Ctx} THEN Ctx ELSE a, m[a].id) /\ a <= n
        BY <2>1, <3>2, <4>1 DEF Kept, Fns
      <4>3. a <= z
        BY <1>0, <4>1, <4>2
      <4>4. p[a].fn = m[a].fn /\ p[a].id = m[a].id /\ (a \in Q \cup {Ctx} <=> a \in M \cup {Ctx})
        BY <3>2, <4>1
      <4> QED
        BY <4>2, <4>3, <4>4
    <3> QED
      BY <3>1, <3>2
  <2> QED
    BY <2>1 DEF Fns
<1>5. ASSUME NEW y, Keeps(p, u, d, I, y)
      PROVE  Keeps(m, st, c, I, y) \/ Sound(p, Q, z, U, y)
  <2>1. ASSUME NEW k \in 0..Len(u), y = Exported(u, d, k)
        PROVE  y = Number \/ \E l \in 0..Len(st) : y = Exported(st, c, l)
    <3>1. CASE k = Len(u)
      BY <2>1, <3>1 DEF Exported
    <3>2. CASE k # Len(u)
      <4>1. k \in 0..Len(st)
        BY <3>2, DeeperIndex
      <4>2. y = Exported(st, c, k)
        BY <2>1, <4>1, DeeperExports
      <4> QED
        BY <4>1, <4>2
    <3> QED
      BY <3>1, <3>2
  <2>2. ASSUME NEW a \in Addrs, p[a].live, y = p[a].v \/ y = p[a].fn
        PROVE  y = Number \/ \E b \in Addrs : m[b].live /\ (y = m[b].v \/ y = m[b].fn)
    <3>1. CASE a \in {Ctx, z}
      <4>1. y = Number \/ y = m[Ctx].v \/ y = m[Ctx].fn
        BY <2>2, <3>1
      <4> QED
        BY <1>0, <4>1
    <3>2. CASE a \notin {Ctx, z}
      <4>1. m[a].live /\ p[a].v = m[a].v /\ p[a].fn = m[a].fn
        BY <2>2, <3>2
      <4> QED
        BY <2>2, <4>1
    <3> QED
      BY <3>1, <3>2
  <2>3. Keeps(m, st, c, I, y) \/ y = Number
    BY <1>5, <2>1, <2>2 DEF Keeps
  <2> QED
    BY <2>3, NumberSound
<1> HIDE DEF Q
<1>6. Kept(p, Q, z, u, d, I, U)
  BY <1>1, <1>3, <1>4, <1>5, KeptGrows
<1> QED
  BY <1>6 DEF Q

(* A value that named the context names the module z.                      *)
LEMMA RehomedSound ==
  ASSUME NEW p, NEW Q, NEW n, NEW U, NEW z \in Addrs, z # Ctx, z \notin Q, z <= n, p[z].live,
         NEW x \in Values, x.at = Ctx \/ Sound(p, Q, n, U, x)
  PROVE  Sound(p, Q, n, U, Rehomed(x, z))
<1>1. CASE x.at = Ctx
  <2>1. Rehomed(x, z).at = z
    BY <1>1, RehomedIs
  <2> QED
    BY <2>1 DEF Sound
<1>2. CASE x.at # Ctx
  BY <1>2, RehomedIs
<1> QED
  BY <1>1, <1>2

(* The run of the module z ends.                                           *)
LEMMA LeaveKept ==
  ASSUME NEW m, NEW M, NEW n, NEW st, NEW c, NEW I, NEW T, Kept(m, M, n, st, c, I, T),
         Valued(m, st, c, I), Linked(m, M \cup {Ctx}, n), Ctx \notin M,
         NEW z \in M, z \in Addrs, z # Ctx, m[Ctx].id = z,
         NEW w, NEW e, Deeper(w, e, st), NEW p, Leaves(m, z, p), NEW U, T \subseteq U
  PROVE  /\ Kept(p, M \ {z}, n, w, e, I, U) /\ Grows(m, M, n, p, M \ {z}, n)
         /\ z <= n /\ p[z].live
<1> DEFINE Q == M \ {z}
<1>0. Ctx \in Addrs /\ m[z].live /\ m[Ctx].live /\ z <= n /\ n \in Nat /\ p[z].live /\ p[Ctx].live
  <2>1. m[z].live /\ m[Ctx].live /\ z <= n
    BY DEF Linked, LivesOK
  <2>2. n \in Nat
    BY Bounds DEF Linked
  <2> QED
    BY <2>1, <2>2, Bounds DEF Leaves
<1>1. /\ p[Ctx].id = m[z].id /\ p[Ctx].v = m[z].v /\ p[Ctx].fn = m[z].fn
      /\ p[z].id = z /\ p[z].v = m[Ctx].v /\ p[z].fn = Rehomed(m[Ctx].fn, z)
  BY DEF Leaves
<1>2. \A a \in Addrs \ {Ctx, z} : p[a].id = m[a].id /\ p[a].live = m[a].live /\ p[a].v = m[a].v
              /\ p[a].fn = m[a].fn
  BY DEF Leaves, SameStruct
<1>3. Keeps(m, st, c, I, m[Ctx].fn) /\ m[Ctx].fn \in Values
  BY <1>0 DEF Keeps, Valued
<1>4. m[Ctx].fn # Number => p[z].fn = Value(z, z) /\ p[z].fn # Number
  <2>1. ASSUME m[Ctx].fn # Number
        PROVE  m[Ctx].fn = Value(Ctx, z)
    BY <1>0, <2>1 DEF Kept, Fns
  <2>2. Rehomed(Value(Ctx, z), z) = Value(z, z)
    BY DEF Rehomed, Value
  <2>3. Value(z, z) # Number
    BY NumberType, Bounds, ValueIs
  <2> QED
    BY <1>1, <2>1, <2>2, <2>3
<1>5. p[z].fn # Number => m[Ctx].fn # Number
  BY <1>1, <1>3, NumberType, Bounds DEF Rehomed
<1>6. Grows(m, M, n, p, Q, n)
  <2>1. \A a \in Addrs : m[a].live => p[a].live
    BY <1>0, <1>2
  <2>2. ASSUME NEW a \in Addrs, m[a].fn # Number
        PROVE  \E b \in Addrs : p[b].id = m[a].id /\ p[b].fn # Number
    <3>1. CASE a = Ctx
      BY <1>1, <1>4, <2>2, <3>1
    <3>2. CASE a = z
      BY <1>0, <1>1, <2>2, <3>2
    <3>3. CASE a \notin {Ctx, z}
      BY <1>2, <2>2, <3>3
    <3> QED
      BY <3>1, <3>2, <3>3
  <2>3. \A a \in Addrs : a # Ctx /\ a <= n /\ a \notin M /\ m[a].fn # Number => p[a].fn # Number
    BY <1>2
  <2> QED
    BY <1>0, <2>1, <2>2, <2>3 DEF Grows
<1>7. Waits(p, Q)
  <2>1. \A a \in Q : a \in Addrs \ {Ctx, z}
    BY DEF Linked
  <2> QED
    BY <1>2, <2>1 DEF Kept, Waits
<1>8. Fns(p, Q, n)
  <2>1. ASSUME NEW a \in Addrs, p[a].fn # Number
        PROVE  p[a].fn = Value(IF a \in Q \cup {Ctx} THEN Ctx ELSE a, p[a].id) /\ a <= n
    <3>1. CASE a = z
      BY <1>0, <1>1, <1>4, <1>5, <2>1, <3>1
    <3>2. CASE a = Ctx
      <4>1. m[z].fn = Value(Ctx, m[z].id)
        BY <1>1, <2>1, <3>2 DEF Kept, Fns
      <4>2. Ctx <= n
        BY <1>0 DEF Ctx
      <4> QED
        BY <1>1, <3>2, <4>1, <4>2
    <3>3. CASE a \notin {Ctx, z}
      <4>1. m[a].fn = Value(IF a \in M \cup {Ctx} THEN Ctx ELSE a, m[a].id) /\ a <= n
        BY <1>2, <2>1, <3>3 DEF Kept, Fns
      <4>2. p[a].fn = m[a].fn /\ p[a].id = m[a].id /\ (a \in Q \cup {Ctx} <=> a \in M \cup {Ctx})
        BY <1>2, <3>3
      <4> QED
        BY <4>1, <4>2
    <3> QED
      BY <3>1, <3>2, <3>3
  <2> QED
    BY <2>1 DEF Fns
<1>9. Sound(p, Q, n, U, p[z].fn)
  <2>1. Sound(m, M, n, T, m[Ctx].fn)
    BY <1>3 DEF Kept
  <2>2. Sound(p, Q, n, U, m[Ctx].fn)
    BY <1>3, <1>6, <2>1, SoundGrows
  <2>3. z \notin Q
    OBVIOUS
  <2> HIDE DEF Q
  <2> QED
    BY <1>0, <1>1, <1>3, <2>2, <2>3, RehomedSound
<1>10. ASSUME NEW y, Keeps(p, w, e, I, y)
       PROVE  Keeps(m, st, c, I, y) \/ Sound(p, Q, n, U, y)
  <2>1. ASSUME NEW a \in Addrs, p[a].live, y = p[a].v \/ y = p[a].fn
        PROVE  y = p[z].fn \/ \E b \in Addrs : m[b].live /\ (y = m[b].v \/ y = m[b].fn)
    BY <1>0, <1>1, <1>2, <2>1
  <2>2. Keeps(m, w, e, I, y) \/ y = p[z].fn
    BY <1>10, <2>1 DEF Keeps
  <2>3. Keeps(m, w, e, I, y) => Keeps(m, st, c, I, y)
    BY PopKeeps
  <2> QED
    BY <1>9, <2>2, <2>3
<1> HIDE DEF Q
<1>11. Kept(p, Q, n, w, e, I, U)
  BY <1>6, <1>7, <1>8, <1>10, KeptGrows
<1> QED
  BY <1>0, <1>6, <1>11 DEF Q

(* The sweep between runs.                                                 *)
LEMMA SweepKept ==
  ASSUME NEW m, NEW n, Linked(m, {Ctx}, n), Refs(m), NEW st, NEW c, NEW I, NEW T,
         Kept(m, {}, n, st, c, I, T), Valued(m, st, c, I),
         Len(st) \in Nat, Len(I) \in Nat, Counted(m, {}, st, c, I, T), NEW S, S = Freed(m), NEW p,
         \A a \in Addrs : /\ p[a].id = m[a].id /\ p[a].fn = m[a].fn /\ p[a].v = m[a].v
                          /\ (p[a].live <=> m[a].live /\ a \notin S)
  PROVE  Kept(p, {}, n, st, c, I, T)
<1>1. Fns(p, {}, n) /\ Waits(p, {}) /\ Clones(p, {}, n, I, T)
  BY DEF Kept, Fns, Waits, Clones
<1>2. ASSUME NEW x, Keeps(p, st, c, I, x)
      PROVE  Sound(p, {}, n, T, x)
  <2>1. Keeps(m, st, c, I, x)
    BY <1>2 DEF Keeps
  <2>2. Sound(m, {}, n, T, x) /\ x \in Values
    BY <2>1 DEF Kept, Valued
  <2>3. ASSUME x.at # None, x.at = x.home, x.at \notin T
        PROVE  p[x.at].live
    <3> DEFINE b == x.at
    <3>1. b \in Addrs /\ m[b].live
      BY <2>2, <2>3 DEF Sound, Values, Places
    <3>2. CASE b \in S
      <4>1. /\ \A a \in Addrs : m[a].live => m[a].v.at # b /\ m[a].fn.at # b
            /\ \A k \in 0..Len(st) : Exported(st, c, k).at # b
            /\ \A k \in 1..Len(I) : I[k].exports.at = b => IsClone(I[k])
        <5>1. b \in Freed(m) /\ b \notin T
          BY <2>3, <3>2
        <5> HIDE DEF b
        <5>2. Unreferred(m, st, c, I, b)
          BY <5>1, FreedUnreferred
        <5> QED
          BY <5>2 DEF Unreferred
      <4>2. PICK k \in 1..Len(I) : x = I[k].exports
        BY <2>1, <4>1 DEF Keeps
      <4>3. I[k].isolated /\ I[k].exports.at = I[k].scope /\ I[k].scope = b
        BY <4>1, <4>2 DEF IsClone
      <4>4. m[b].fn # Number /\ b # Ctx
        BY <2>3, <4>3 DEF Kept, Clones
      <4>5. m[b].fn = Value(b, m[b].id)
        BY <3>1, <4>4 DEF Kept, Fns
      <4>6. m[b].fn.at = b
        BY <4>5, ValueIs
      <4> QED
        BY <3>1, <4>1, <4>6
    <3> QED
      BY <3>1, <3>2
  <2>4. x.at = Ctx => Defd(p, x.home)
    BY <2>2 DEF Sound, Defd
  <2> QED
    BY <2>2, <2>3, <2>4 DEF Sound
<1> QED
  BY <1>1, <1>2 DEF Kept

-----------------------------------------------------------------------------
(* The invariant of the references.                                        *)

DInv ==
  /\ Refs(mem)
  /\ Kept(mem, Mods, made, stack, cur, imports, strayed)
  /\ Counted(mem, Mods, stack, cur, imports, strayed)

LEMMA CountedMore ==
  ASSUME NEW m, NEW M, NEW st, NEW c, NEW I, NEW T, Counted(m, M, st, c, I, T),
         NEW U, T \subseteq U
  PROVE  Counted(m, M, st, c, I, U)
BY DEF Counted

(* Counts and values are those of the fields.                              *)
LEMMA CountedSame ==
  ASSUME NEW m, NEW M, NEW st, NEW c, NEW I, NEW T, Refs(m), Counted(m, M, st, c, I, T),
         NEW p, \A b \in Addrs : SameScope(m[b], p[b]), NEW d, d.exports = c.exports
  PROVE  Refs(p) /\ Counted(p, M, st, d, I, T)
<1>1. Refs(p)
  BY DEF Refs, SameScope
<1>2. \A b \in Addrs : VIn(p, M, b) = VIn(m, M, b) /\ FIn(p, M, b) = FIn(m, M, b)
  BY DEF VIn, FIn, OwnV, OwnF, SameScope
<1>3. \A k : Exported(st, d, k) = Exported(st, c, k)
  BY DEF Exported
<1>4. \A b \in Addrs : XIn(p, st, d, b) = XIn(m, st, c, b)
  BY <1>3 DEF XIn, SameScope
<1>5. Counted(p, M, st, d, I, T)
  BY <1>2, <1>4 DEF Counted, SameScope
<1> QED
  BY <1>1, <1>5

LEMMA ValuedIs ==
  ASSUME NEW L, NEW m, IsMem(m, L), NEW st \in Seq(Frames), NEW c \in Exporting,
         NEW I \in Seq(Records)
  PROVE  Valued(m, st, c, I)
<1>1. \A a \in Addrs : m[a].v \in Values /\ m[a].fn \in Values
  BY DEF IsMem, IsScope
<1>2. Len(st) \in Nat
  OBVIOUS
<1>3. \A k \in 1..Len(st) : st[k].prev.exports \in Values
  <2>1. \A k \in 1..Len(st) : st[k] \in Frames
    OBVIOUS
  <2> QED
    BY <2>1 DEF Frames, Exporting
<1>4. \A k \in 1..Len(I) : I[k].exports \in Values
  <2>1. \A k \in 1..Len(I) : I[k] \in Records
    OBVIOUS
  <2> QED
    BY <2>1 DEF Records
<1>5. ASSUME NEW k \in 0..Len(st)
      PROVE  Exported(st, c, k) \in Values
  <2>1. CASE k = Len(st)
    BY <2>1 DEF Exported, Exporting
  <2>2. CASE k # Len(st)
    <3>1. k + 1 \in 1..Len(st)
      BY <1>2, <2>2
    <3> QED
      BY <1>3, <2>2, <3>1 DEF Exported
  <2> QED
    BY <2>1, <2>2
<1> QED
  BY <1>1, <1>4, <1>5 DEF Valued, Keeps

LEMMA DFacts ==
  ASSUME IInv, LInv
  PROVE  /\ made \in Nat /\ Len(stack) \in Nat /\ Len(imports) \in Nat
         /\ IsMem(mem, loaded) /\ Linked(mem, Mods \cup {Ctx}, made)
         /\ Valued(mem, stack, cur, imports)
         /\ Mods \subseteq Addrs /\ Ctx \notin Mods
         /\ mem[Ctx].live
         /\ \A a \in Addrs : mem[a].id \in Addrs /\ mem[a].v \in Values /\ mem[a].fn \in Values
         /\ cur.exports \in Values
<1>1. made \in Nat /\ IsMem(mem, loaded) /\ cur.exports \in Values
  BY Bounds DEF IInv, Typed, Exporting
<1>2. Len(stack) \in Nat
  BY Facts DEF IInv
<1>3. Len(imports) \in Nat
  BY Facts DEF IInv
<1>4. \A a \in Addrs : mem[a].id \in Addrs /\ mem[a].v \in Values /\ mem[a].fn \in Values
  BY <1>1 DEF IsMem, IsScope
<1>5. Linked(mem, Mods \cup {Ctx}, made)
  BY DEF LInv
<1>6. mem[Ctx].live
  BY <1>5 DEF Linked, LivesOK
<1>7. Mods \subseteq Addrs
  BY <1>5 DEF Linked
<1>8. Ctx \notin Mods
  BY DEF IInv, OwnAddrs, Mods
<1>9. Valued(mem, stack, cur, imports)
  BY ValuedIs DEF IInv, Typed
<1> QED
  BY <1>1, <1>2, <1>3, <1>4, <1>5, <1>6, <1>7, <1>8, <1>9

(* What a value of another scope names after a step has strayed.           *)
LEMMA StrayIs ==
  ASSUME Typed', Astray' \subseteq strayed', NEW x, Keeps(mem', stack', cur', imports', x),
         x.at # None, mem'[x.at].id # x.home
  PROVE  mem'[x.at].id \in strayed'
<1>1. Len(stack') \in Nat /\ DOMAIN stack' = 1..Len(stack') /\ DOMAIN imports' = 1..Len(imports')
  BY DEF Typed
<1>0. Len(stack') \in Nat
  BY <1>1
<1>2. ASSUME NEW k \in 0..Len(stack'), x = Exported(stack', cur', k)
      PROVE  x = cur'.exports \/ \E l \in 1..Len(stack') : x = stack'[l].prev.exports
  <2>1. CASE k = Len(stack')
    BY <1>2, <2>1 DEF Exported
  <2>2. CASE k # Len(stack')
    <3>1. k + 1 \in 1..Len(stack')
      BY <1>0, <2>2
    <3> QED
      BY <1>2, <2>2, <3>1 DEF Exported
  <2> QED
    BY <2>1, <2>2
<1>3. x \in Held'
  <2>1. CASE \E a \in Addrs : mem'[a].live /\ (x = mem'[a].v \/ x = mem'[a].fn)
    BY <2>1 DEF Held, Live
  <2>2. CASE \E k \in 0..Len(stack') : x = Exported(stack', cur', k)
    <3>1. x = cur'.exports \/ \E l \in 1..Len(stack') : x = stack'[l].prev.exports
      BY <1>2, <2>2
    <3> QED
      BY <1>1, <3>1 DEF Held
  <2>3. CASE \E k \in 1..Len(imports') : x = imports'[k].exports
    BY <1>1, <2>3 DEF Held
  <2> QED
    BY <2>1, <2>2, <2>3 DEF Keeps
<1>4. mem'[x.at].id \in Astray'
  BY <1>3 DEF Astray
<1> QED
  BY <1>4

(* Steps that leave the values and the counts alone.                       *)
LEMMA QuietRefs ==
  ASSUME IInv, LInv, DInv, \A b \in Addrs : SameScope(mem[b], mem'[b]),
         UNCHANGED <<cur, stack, imports, made>>, strayed \subseteq strayed'
  PROVE  DInv'
<1>1. Mods' = Mods
  BY DEF Mods
<1>2. /\ made \in Nat /\ Valued(mem, stack, cur, imports)
      /\ Mods \subseteq Addrs /\ Ctx \notin Mods
  BY DFacts
<1>3. Sound(mem, Mods, made, strayed, Number) /\ Number \in Values
  BY NumberSound, NumberType
<1>4. /\ \A a \in Addrs : /\ mem'[a].id = mem[a].id /\ mem'[a].live = mem[a].live
                          /\ mem'[a].fn = mem[a].fn /\ mem'[a].v = mem[a].v
      /\ mem'[Ctx].v = mem[Ctx].v
  BY Bounds DEF SameScope
<1>5. Kept(mem, Mods, made, stack, cur, imports, strayed)
  BY DEF DInv
<1>6. Kept(mem', Mods, made, stack, cur, imports, strayed')
  BY <1>2, <1>3, <1>4, <1>5, ChangeKept
<1>7. Refs(mem') /\ Counted(mem', Mods, stack, cur, imports, strayed)
  BY CountedSame DEF DInv
<1>8. Counted(mem', Mods, stack, cur, imports, strayed')
  BY <1>7, CountedMore
<1> QED
  BY <1>1, <1>6, <1>7, <1>8 DEF DInv

(* Steps that give the variable of the running scope a sound value.        *)
LEMMA AssignRefs ==
  ASSUME IInv, LInv, DInv, NEW x \in Values, Sound(mem, Mods, made, strayed, x),
         mem' = Assign(mem, x), UNCHANGED <<cur, stack, imports, made>>, strayed \subseteq strayed'
  PROVE  DInv'
<1>1. Mods' = Mods
  BY DEF Mods
<1>2. /\ made \in Nat /\ Valued(mem, stack, cur, imports)
      /\ Mods \subseteq Addrs /\ Ctx \notin Mods
      /\ IsMem(mem, loaded) /\ Linked(mem, Mods \cup {Ctx}, made)
  BY DFacts
<1>3. Len(stack) \in Nat /\ Len(imports) \in Nat
  BY DFacts
<1>4. /\ SameLinks(mem, mem')
      /\ \A b \in Addrs : mem'[b].fn = mem[b].fn /\ mem'[b].v = IF b = Ctx THEN x ELSE mem[b].v
  BY <1>2, AssignIs
<1>5. /\ \A a \in Addrs : /\ mem'[a].id = mem[a].id /\ mem'[a].live = mem[a].live
                          /\ mem'[a].fn = mem[a].fn /\ (a # Ctx => mem'[a].v = mem[a].v)
      /\ mem'[Ctx].v = x
  BY <1>4, Bounds DEF SameLinks
<1>6. Kept(mem, Mods, made, stack, cur, imports, strayed)
  BY DEF DInv
<1>7. Kept(mem', Mods, made, stack, cur, imports, strayed')
  <2>1. x \in Values /\ Sound(mem, Mods, made, strayed, x) /\ strayed \subseteq strayed'
    OBVIOUS
  <2> QED
    BY ONLY <1>2, <1>5, <1>6, <2>1, ChangeKept
<1>8. Refs(mem) /\ Counted(mem, Mods, stack, cur, imports, strayed)
  BY DEF DInv
<1>9. Refs(Assign(mem, x)) /\ Counted(Assign(mem, x), Mods, stack, cur, imports, strayed)
  BY <1>2, <1>3, <1>8, AssignCounts
<1>10. Refs(mem') /\ Counted(mem', Mods, stack, cur, imports, strayed')
  BY <1>9, CountedMore
<1> QED
  BY <1>1, <1>7, <1>10 DEF DInv

LEMMA DropRefs ==
  ASSUME IInv, LInv, DInv, Drop, strayed \subseteq strayed'
  PROVE  DInv'
<1>1. mem' = Assign(mem, Number) /\ UNCHANGED <<cur, stack, imports, made>>
  BY DEF Drop
<1> QED
  BY <1>1, NumberSound, NumberType, AssignRefs

LEMMA ResultIs ==
  ASSUME NEW L, NEW m, IsMem(m, L), NEW d, d.exports \in Values, NEW keep, NEW p, p = Result(m, d, keep)
  PROVE  /\ \A a \in Addrs : /\ p[a].id = m[a].id /\ p[a].live = m[a].live /\ p[a].fn = m[a].fn
                             /\ (a # Ctx => p[a].v = m[a].v)
         /\ p[Ctx].v = m[Ctx].v \/ p[Ctx].v = d.exports
<1> DEFINE q == Clone(m, d.exports)
<1>1. IsMem(q, L) /\ Raised(m, q)
  BY CloneRaised
<1>2. p \in {q, Assign(q, d.exports)}
  BY DEF Result
<1> HIDE DEF q
<1>3. \A a \in Addrs : q[a].id = m[a].id /\ q[a].live = m[a].live /\ q[a].fn = m[a].fn /\ q[a].v = m[a].v
  BY <1>1 DEF Raised, SameStruct
<1>4. CASE p = q
  BY <1>3, <1>4, Bounds
<1>5. CASE p = Assign(q, d.exports)
  <2>1. /\ SameLinks(q, p)
        /\ \A b \in Addrs : p[b].fn = q[b].fn /\ p[b].v = IF b = Ctx THEN d.exports ELSE q[b].v
    BY <1>1, <1>5, AssignIs
  <2> QED
    BY <1>3, <2>1, Bounds DEF SameLinks
<1> QED
  BY <1>2, <1>4, <1>5

LEMMA ResultCounts ==
  ASSUME NEW L, NEW m, IsMem(m, L), NEW M, NEW n, Linked(m, M \cup {Ctx}, n), Refs(m),
         NEW st, NEW c, NEW I, NEW T, Len(st) \in Nat, Len(I) \in Nat,
         Counted(m, M, st, c, I, T), NEW d, d.exports \in Values, NEW keep,
         NEW p, p = Result(m, d, keep)
  PROVE  Refs(p) /\ Counted(p, M, st, c, I, T)
<1> DEFINE q == Clone(m, d.exports)
<1>1. IsMem(q, L) /\ Raised(m, q)
  BY CloneRaised
<1>2. p \in {q, Assign(q, d.exports)}
  BY DEF Result
<1> HIDE DEF q
<1>3. Refs(q) /\ Counted(q, M, st, c, I, T)
  BY <1>1, RaisedCounts
<1>4. Linked(q, M \cup {Ctx}, n)
  BY <1>1, RaisedLinks, SameLinked
<1>5. Refs(Assign(q, d.exports)) /\ Counted(Assign(q, d.exports), M, st, c, I, T)
  BY <1>1, <1>3, <1>4, AssignCounts
<1> QED
  BY <1>2, <1>3, <1>5

LEMMA CachedRefs ==
  ASSUME IInv, LInv, DInv, NEW f \in Files, NEW isolated \in BOOLEAN, NEW keep \in BOOLEAN,
         ImportCached(f, isolated, keep), strayed \subseteq strayed'
  PROVE  DInv'
<1>1. PICK k \in 1..Len(imports) : mem' = Result(mem, imports[k], keep)
  BY Facts DEF IInv, ImportCached, FindImported
<1> DEFINE x == imports[k].exports
<1>2. x \in Values
  BY Facts DEF IInv, Records
<1>3. Mods' = Mods /\ UNCHANGED <<cur, stack, imports, made>>
  BY DEF ImportCached, Mods
<1>4. /\ made \in Nat /\ Valued(mem, stack, cur, imports)
      /\ Mods \subseteq Addrs /\ Ctx \notin Mods
      /\ IsMem(mem, loaded) /\ Linked(mem, Mods \cup {Ctx}, made)
  BY DFacts
<1>5. Len(stack) \in Nat /\ Len(imports) \in Nat
  BY DFacts
<1>6. /\ Kept(mem, Mods, made, stack, cur, imports, strayed) /\ Refs(mem)
      /\ Counted(mem, Mods, stack, cur, imports, strayed)
  BY DEF DInv
<1>7. Sound(mem, Mods, made, strayed, x)
  BY <1>6 DEF Kept, Keeps
<1>8. /\ \A a \in Addrs : /\ mem'[a].id = mem[a].id /\ mem'[a].live = mem[a].live
                          /\ mem'[a].fn = mem[a].fn /\ (a # Ctx => mem'[a].v = mem[a].v)
      /\ mem'[Ctx].v = mem[Ctx].v \/ mem'[Ctx].v = x
  BY <1>1, <1>2, <1>4, ResultIs
<1>9. Refs(mem') /\ Counted(mem', Mods, stack, cur, imports, strayed)
  BY <1>1, <1>2, <1>4, <1>5, <1>6, ResultCounts
<1> HIDE DEF x
<1>10. Kept(mem', Mods, made, stack, cur, imports, strayed')
  <2>1. strayed \subseteq strayed'
    OBVIOUS
  <2> QED
    BY ONLY <1>2, <1>4, <1>6, <1>7, <1>8, <2>1, ChangeKept
<1>11. Counted(mem', Mods, stack, cur, imports, strayed')
  BY <1>9, CountedMore
<1> QED
  BY <1>3, <1>9, <1>10, <1>11 DEF DInv

LEMMA PluginRefs ==
  ASSUME IInv, LInv, DInv, NEW p \in Plugins, NEW how \in {"unloaded", "unbound", "ok"},
         LoadPlugin(p, how), strayed \subseteq strayed'
  PROVE  DInv'
<1>1. UNCHANGED <<cur, stack, imports, made>>
  BY DEF LoadPlugin
<1>2. \A b \in Addrs : SameScope(mem[b], mem'[b])
  <2>1. CASE p \in loaded
    <3>1. mem' = mem
      BY <2>1 DEF LoadPlugin
    <3> QED
      BY <3>1 DEF SameScope
  <2>2. CASE p \notin loaded
    <3>1. mem' = InitPlugin(mem, p, how)
      BY <2>2 DEF LoadPlugin
    <3>2. \A b \in Addrs : SameStruct(mem[b], mem'[b]) /\ mem'[b].ref = mem[b].ref
      BY <3>1, InitPluginIs DEF IInv, Typed
    <3> QED
      BY <3>2 DEF SameStruct, SameScope
  <2> QED
    BY <2>1, <2>2
<1> QED
  BY <1>1, <1>2, QuietRefs

LEMMA DefineRefs ==
  ASSUME IInv, LInv, DInv, Define, strayed \subseteq strayed'
  PROVE  DInv'
<1>1. Mods' = Mods /\ UNCHANGED <<cur, stack, imports, made>>
  BY DEF Mods, Define
<1>2. /\ made \in Nat /\ Valued(mem, stack, cur, imports)
      /\ Mods \subseteq Addrs /\ Ctx \notin Mods /\ mem[Ctx].live
      /\ IsMem(mem, loaded) /\ Linked(mem, Mods \cup {Ctx}, made)
      /\ \A a \in Addrs : mem[a].id \in Addrs
  BY DFacts
<1>3. Len(stack) \in Nat /\ Len(imports) \in Nat
  BY DFacts
<1>4. mem[Ctx].id \in Addrs
  BY <1>2, Bounds
<1>5. PICK x : x = Value(Ctx, mem[Ctx].id) /\ x \in Values /\ x.at = Ctx
  BY <1>4, Bounds, ValueType DEF Places
<1> DEFINE p == Retain([mem EXCEPT ![Ctx].fn = x], Ctx)
<1>6. mem' = p
  BY <1>5 DEF Define, Here
<1>15. /\ SameLinks(mem, p)
       /\ \A b \in Addrs : /\ p[b].v = mem[b].v /\ p[b].fn = IF b = Ctx THEN x ELSE mem[b].fn
                           /\ p[b].ref = Inc(mem[b].ref, b = Ctx)
  <2>1. IsMem(mem, loaded) /\ x \in Values
    BY <1>2, <1>5
  <2>2. SameLinks(mem, p)
    BY <2>1, DefineIs
  <2>3. \A b \in Addrs : p[b].v = mem[b].v
    BY <2>1, DefineIs
  <2>4. \A b \in Addrs : p[b].fn = IF b = Ctx THEN x ELSE mem[b].fn
    BY <2>1, DefineIs
  <2>5. \A b \in Addrs : p[b].ref = Inc(mem[b].ref, b = Ctx)
    BY <2>1, DefineIs
  <2> QED
    BY <2>2, <2>3, <2>4, <2>5
<1> HIDE DEF p
<1>7. /\ SameLinks(mem, mem')
      /\ \A b \in Addrs : /\ mem'[b].v = mem[b].v /\ mem'[b].fn = IF b = Ctx THEN x ELSE mem[b].fn
                          /\ mem'[b].ref = Inc(mem[b].ref, b = Ctx)
  BY <1>6, <1>15
<1>8. mem[Ctx].fn.at \in {None, Ctx}
  <2>1. Fns(mem, Mods, made)
    BY DEF DInv, Kept
  <2>2. CASE mem[Ctx].fn = Number
    BY <2>2, NumberType
  <2>3. CASE mem[Ctx].fn # Number
    <3>1. mem[Ctx].fn = Value(Ctx, mem[Ctx].id)
      BY <2>1, <2>3, Bounds DEF Fns
    <3> QED
      BY <3>1, ValueIs
  <2> QED
    BY <2>2, <2>3
<1>9. Refs(mem) /\ Counted(mem, Mods, stack, cur, imports, strayed)
  BY DEF DInv
<1>10. Refs(mem') /\ Counted(mem', Mods, stack, cur, imports, strayed)
  BY <1>2, <1>3, <1>5, <1>7, <1>8, <1>9, DefineCounts
<1>11. Counted(mem', Mods, stack, cur, imports, strayed')
  BY <1>10, CountedMore
<1>12. \A a \in Addrs : /\ mem'[a].id = mem[a].id /\ mem'[a].live = mem[a].live /\ mem'[a].v = mem[a].v
                        /\ mem'[a].fn = IF a = Ctx THEN Value(Ctx, mem[Ctx].id) ELSE mem[a].fn
  BY <1>5, <1>7 DEF SameLinks
<1>13. Kept(mem, Mods, made, stack, cur, imports, strayed)
  BY DEF DInv
<1>14. Kept(mem', Mods, made, stack, cur, imports, strayed')
  BY <1>2, <1>4, <1>12, <1>13, DefineKept
<1> QED
  BY <1>1, <1>10, <1>11, <1>14 DEF DInv

(* A named function is found in a scope of the chain.                      *)
LEMMA Found ==
  ASSUME NEW m, NEW Q, NEW n, Linked(m, Q, n), LookupNamed(m, Ctx) # None
  PROVE  LookupNamed(m, Ctx) \in Q /\ m[LookupNamed(m, Ctx)].fn # Number
<1> DEFINE F == {k \in Visited(m, Ctx) : m[Ancestor(m, Ctx, k)].fn # Number}
<1>1. F # {} /\ LookupNamed(m, Ctx) = Ancestor(m, Ctx, Min(F))
  BY DEF LookupNamed
<1>2. F \in SUBSET Nat
  BY Bounds DEF Visited
<1>3. Min(F) \in F /\ Min(F) \in Nat
  BY <1>1, <1>2, Smallest
<1>4. PICK k \in Nat : k = Min(F)
  BY <1>3
<1>5. k \in Visited(m, Ctx) /\ m[Ancestor(m, Ctx, k)].fn # Number
  BY <1>3, <1>4
<1>6. Ancestor(m, Ctx, k) # None
  BY <1>5 DEF Visited
<1> HIDE DEF F
<1>7. Ancestor(m, Ctx, k) \in Q
  BY <1>6, PathFrom
<1> QED
  BY <1>1, <1>4, <1>5, <1>7

LEMMA SetExportRefs ==
  ASSUME IInv, LInv, DInv, NEW x \in Values, Sound(mem, Mods, made, strayed, x), NEW own,
         NEW m, m \in {mem, Retain(mem, x.at)}, SetExport(m, x, own), strayed \subseteq strayed'
  PROVE  DInv'
<1>1. Mods' = Mods /\ UNCHANGED <<stack, imports, made>>
  BY DEF Mods, SetExport
<1>2. /\ made \in Nat /\ Valued(mem, stack, cur, imports)
      /\ Mods \subseteq Addrs /\ Ctx \notin Mods
      /\ IsMem(mem, loaded) /\ cur.exports \in Values
  BY DFacts
<1>3. cur'.exports = x
  BY DEF SetExport, IInv, Typed, Exporting
<1>4. mem' = Retain(m, x.at)
  BY DEF SetExport
<1>5. x.at \in Places
  BY DEF Values
<1>6. \A b \in Addrs : /\ SameStruct(mem[b], mem'[b])
                       /\ mem'[b].ref \in Nat /\ Inc(mem[b].ref, b = x.at) <= mem'[b].ref
  <2> DEFINE r == Retain(mem, x.at)
  <2>1. /\ IsMem(r, loaded)
        /\ \A b \in Addrs : SameStruct(mem[b], r[b]) /\ r[b].ref = Inc(mem[b].ref, b = x.at)
    BY <1>2, <1>5, RetainMem, RetainIs
  <2>2. mem' \in {r, Retain(r, x.at)}
    BY <1>4
  <2> HIDE DEF r
  <2>3. Raised(r, Retain(r, x.at))
    BY <1>5, <2>1, RetainRaised
  <2>4. Raised(r, mem')
    BY <2>2, <2>3 DEF Raised, SameStruct
  <2> SUFFICES ASSUME NEW b \in Addrs
               PROVE  /\ SameStruct(mem[b], mem'[b])
                      /\ mem'[b].ref \in Nat /\ Inc(mem[b].ref, b = x.at) <= mem'[b].ref
    OBVIOUS
  <2>5. SameStruct(mem[b], mem'[b])
    BY <2>1, <2>4 DEF Raised, SameStruct
  <2>6. r[b].ref \in Nat
    <3>1. mem[b].ref \in Nat
      BY DEF DInv, Refs
    <3> QED
      BY <2>1, <3>1 DEF Inc
  <2> QED
    BY <2>1, <2>4, <2>5, <2>6 DEF Raised
<1>7. /\ \A a \in Addrs : /\ mem'[a].id = mem[a].id /\ mem'[a].live = mem[a].live
                          /\ mem'[a].fn = mem[a].fn /\ mem'[a].v = mem[a].v
      /\ mem'[Ctx].v = mem[Ctx].v
  BY <1>6, Bounds DEF SameStruct
<1>8. Kept(mem, Mods, made, stack, cur, imports, strayed)
  BY DEF DInv
<1>9. Kept(mem', Mods, made, stack, cur', imports, strayed')
  BY <1>2, <1>3, <1>7, <1>8, ChangeKept
<1>10. Refs(mem) /\ Counted(mem, Mods, stack, cur, imports, strayed)
  BY DEF DInv
<1>11. Refs(mem') /\ Counted(mem', Mods, stack, cur', imports, strayed)
  BY <1>3, <1>6, <1>10, ExportCounts
<1>12. Counted(mem', Mods, stack, cur', imports, strayed')
  BY <1>11, CountedMore
<1> QED
  BY <1>1, <1>9, <1>11, <1>12 DEF DInv

LEMMA ExportRefs ==
  ASSUME IInv, LInv, DInv, ExportVar \/ ExportFunction, strayed \subseteq strayed'
  PROVE  DInv'
<1>0. /\ mem[Ctx].live /\ Mods \subseteq Addrs /\ Linked(mem, Mods \cup {Ctx}, made)
      /\ \A a \in Addrs : mem[a].id \in Addrs /\ mem[a].v \in Values /\ mem[a].fn \in Values
  BY DFacts
<1>1. CASE ExportVar
  <2>1. SetExport(Retain(mem, mem[Ctx].v.at), mem[Ctx].v, FALSE)
    BY <1>1 DEF ExportVar, Here
  <2>2. mem[Ctx].v \in Values
    BY <1>0, Bounds
  <2>3. Sound(mem, Mods, made, strayed, mem[Ctx].v)
    BY <1>0, Bounds DEF DInv, Kept, Keeps
  <2> QED
    BY <2>1, <2>2, <2>3, SetExportRefs
<1>2. CASE ExportFunction
  <2>1. PICK a : a = LookupNamed(mem, Ctx)
    OBVIOUS
  <2>2. a \in Addrs /\ SetExport(mem, Value(a, mem[a].fn.home), a = Ctx)
    BY <1>2, <2>1 DEF ExportFunction
  <2>3. a # None
    BY <2>2, Bounds
  <2>4. a \in Mods \cup {Ctx} /\ mem[a].fn # Number
    BY <1>0, <2>1, <2>3, Found
  <2>5. mem[a].fn = Value(Ctx, mem[a].id) /\ a <= made
    BY <2>2, <2>4 DEF DInv, Kept, Fns
  <2>6. PICK x : x = Value(a, mem[a].fn.home)
    OBVIOUS
  <2>7. mem[a].id \in Addrs
    BY <1>0, <2>2
  <2>8. x.at = a /\ x.home = mem[a].id /\ x \in Values
    BY <2>2, <2>5, <2>6, <2>7, ValueIs, ValueType DEF Places
  <2>9. a \in Mods /\ a # Ctx => mem[a].id # a
    <3>1. a \in Mods /\ a # Ctx => mem[a].id < a
      BY <1>0 DEF Linked, IdsOK
    <3>2. a \in Nat /\ mem[a].id \in Nat
      BY <2>2, <2>7, Bounds
    <3> QED
      BY <3>1, <3>2
  <2>10. a \in Mods => a # Ctx
    BY DFacts
  <2>11. Defd(mem, x.home)
    BY <2>2, <2>4, <2>8 DEF Defd
  <2>12. mem[a].live
    BY <1>0, <2>4 DEF Linked, LivesOK
  <2>13. Sound(mem, Mods, made, strayed, x)
    BY <2>5, <2>8, <2>9, <2>10, <2>11, <2>12 DEF Sound
  <2> QED
    BY <2>2, <2>6, <2>8, <2>13, SetExportRefs
<1> QED
  BY <1>1, <1>2

(* Nothing names the next snapshot yet.                                    *)
LEMMA NextUnnamed ==
  ASSUME IInv, LInv, DInv, made < MaxScopes, NEW n, n = made + 1
  PROVE  /\ n \in Addrs /\ n # Ctx /\ n \notin Mods /\ n \in Nat
         /\ Unnamed(mem, stack, cur, imports, n) /\ ~mem[n].live
         /\ \A a \in Addrs \ {n} : mem[a].id # n
         /\ mem[Ctx].v.at # n
<1>1. n \in Addrs /\ n # Ctx /\ mem[n].id = n
  BY NextAddr
<1>2. \A k \in 1..Len(stack) : stack[k].isolated => stack[k].addr # n
  BY NextAddr
<1>3. n \notin Mods
  BY <1>2 DEF Mods
<1>4. made \in Nat /\ n \in Nat
  BY DFacts
<1>5. Linked(mem, Mods \cup {Ctx}, made) /\ mem[Ctx].live /\ Valued(mem, stack, cur, imports)
  BY DFacts
<1>6. ~mem[n].live
  <2>1. mem[n].live => n <= made
    BY <1>1, <1>5 DEF Linked, LivesOK
  <2> QED
    BY <1>4, <2>1
<1>7. \A a \in Addrs \ {n} : mem[a].id # n
  BY <1>1, <1>5 DEF Linked, IdsOK
<1>8. \A x : Keeps(mem, stack, cur, imports, x) => x.at # n
  <2> SUFFICES ASSUME NEW x, Keeps(mem, stack, cur, imports, x), x.at = n
               PROVE  FALSE
    OBVIOUS
  <2>1. x.at # None
    BY <1>1, Bounds
  <2>2. x.at <= made
    BY <2>1 DEF DInv, Kept, Sound
  <2> QED
    BY <1>4, <2>2
<1>9. Unnamed(mem, stack, cur, imports, n)
  <2>1. \A a \in Addrs : mem[a].live => mem[a].v.at # n /\ mem[a].fn.at # n
    BY <1>8 DEF Keeps
  <2>2. \A k \in 0..Len(stack) : Exported(stack, cur, k).at # n
    BY <1>8 DEF Keeps
  <2>3. \A k \in 1..Len(imports) : imports[k].exports.at # n
    BY <1>8 DEF Keeps
  <2> QED
    BY <1>2, <2>1, <2>2, <2>3 DEF Unnamed
<1>10. mem[Ctx].v.at # n
  BY <1>5, <1>8, Bounds DEF Keeps
<1> QED
  BY <1>1, <1>3, <1>4, <1>6, <1>7, <1>9, <1>10

LEMMA CloseRefs ==
  ASSUME IInv, LInv, DInv, NEW captured \in BOOLEAN, Close(captured), strayed \subseteq strayed'
  PROVE  DInv'
<1> DEFINE n == made + 1
<1> DEFINE x == IF captured THEN Here.v ELSE Number
<1> DEFINE p == Snapshot(mem, n, x)
<1> DEFINE r == Root(mem)
<1>1. /\ UNCHANGED <<cur, stack, imports>> /\ made' = n /\ made < MaxScopes
      /\ mem' = Assign(p, Value(n, n))
  BY DEF Close
<1>2. r \in Mods \cup {Ctx} /\ r \in Addrs /\ mem[r].id = Ctx /\ r # n
  BY <1>1, RootFacts
<1>3. /\ IsMem(mem, loaded) /\ mem[Ctx].live /\ Linked(mem, Mods \cup {Ctx}, made)
      /\ Valued(mem, stack, cur, imports) /\ Mods \subseteq Addrs /\ Ctx \notin Mods
      /\ \A a \in Addrs : mem[a].id \in Addrs
  BY DFacts
<1>4. Len(stack) \in Nat /\ Len(imports) \in Nat /\ made \in Nat
  BY DFacts
<1>5. /\ n \in Addrs /\ n # Ctx /\ n \notin Mods /\ n \in Nat
      /\ Unnamed(mem, stack, cur, imports, n) /\ ~mem[n].live
      /\ \A a \in Addrs \ {n} : mem[a].id # n
      /\ mem[Ctx].v.at # n
  BY <1>1, NextUnnamed
<1>6. x \in Values /\ x.at # n /\ Sound(mem, Mods, made, strayed, x)
  <2>1. CASE captured
    <3>1. x = mem[Ctx].v
      BY <2>1 DEF Here
    <3>2. mem[Ctx].v \in Values
      BY <1>3, Bounds DEF IsMem, IsScope
    <3>3. Sound(mem, Mods, made, strayed, mem[Ctx].v)
      BY <1>3, Bounds DEF DInv, Kept, Keeps
    <3> QED
      BY <1>5, <3>1, <3>2, <3>3
  <2>2. CASE ~captured
    BY <1>5, <2>2, NumberType, NumberSound, Bounds
  <2> QED
    BY <2>1, <2>2
<1> HIDE DEF x, r
<1>7. n = made + 1
  OBVIOUS
<1> HIDE DEF n
<1>8. IsMem(p, loaded)
  BY <1>2, <1>3, <1>5, <1>6, SnapshotMem
<1>9. /\ p[n].id = n /\ p[n].live /\ p[n].parent = None /\ p[n].next = mem[r].next
      /\ p[n].fn = Number /\ p[n].v = x /\ p[n].ref = 1
      /\ \A b \in Addrs \ {n} :
           /\ p[b].id = mem[b].id /\ p[b].live = mem[b].live /\ p[b].parent = mem[b].parent
           /\ p[b].fn = mem[b].fn /\ p[b].v = mem[b].v
           /\ p[b].next = IF b = r THEN n ELSE mem[b].next
           /\ p[b].ref = Inc(mem[b].ref, b = x.at)
  <2>1. IsMem(mem, loaded) /\ n \in Addrs /\ x \in Values /\ r \in Addrs /\ r # n /\ r = Root(mem)
    BY <1>2, <1>3, <1>5, <1>6 DEF r
  <2> QED
    BY <2>1, SnapshotIs
<1> HIDE DEF p
<1>10. Linked(p, Mods \cup {Ctx}, n)
  BY <1>1, <1>2, <1>7, <1>9, SnapshotLinked DEF LInv
<1>11. /\ Refs(mem) /\ Counted(mem, Mods, stack, cur, imports, strayed)
       /\ Kept(mem, Mods, made, stack, cur, imports, strayed)
  BY DEF DInv
<1>12. Refs(p) /\ Counted(p, Mods, stack, cur, imports, strayed)
  BY <1>3, <1>4, <1>5, <1>6, <1>9, <1>11, SnapshotCounts
<1>13. strayed \subseteq strayed
  OBVIOUS
<1>14. Kept(p, Mods, n, stack, cur, imports, strayed)
  <2>1. /\ \A b \in Addrs \ {n} : p[b].id = mem[b].id /\ p[b].live = mem[b].live
                                  /\ p[b].v = mem[b].v /\ p[b].fn = mem[b].fn
        /\ p[n].live /\ p[n].fn = Number /\ p[n].v = x
    BY <1>9
  <2>2. n \in Addrs /\ n \notin Mods /\ x.at # n
    BY <1>5, <1>6
  <2>3. Valued(mem, stack, cur, imports) /\ Mods \subseteq Addrs
    BY <1>3
  <2> QED
    BY <1>4, <1>6, <1>7, <1>11, <1>13, <2>1, <2>2, <2>3, SnapshotKept
<1>15. PICK y : y = Value(n, n)
  OBVIOUS
<1>16. y \in Values /\ y.at = n /\ y.home = n
  BY <1>5, <1>15, ValueType, ValueIs DEF Places
<1>17. Sound(p, Mods, n, strayed, y)
  BY <1>5, <1>9, <1>16 DEF Sound
<1>18. Valued(p, stack, cur, imports)
  BY <1>8, ValuedIs DEF IInv, Typed
<1>19. mem' = Assign(p, y)
  BY <1>1, <1>15
<1>20. /\ SameLinks(p, mem')
       /\ \A b \in Addrs : mem'[b].fn = p[b].fn /\ mem'[b].v = IF b = Ctx THEN y ELSE p[b].v
  BY <1>8, <1>16, <1>19, AssignIs
<1>21. /\ \A a \in Addrs : /\ mem'[a].id = p[a].id /\ mem'[a].live = p[a].live
                           /\ mem'[a].fn = p[a].fn /\ (a # Ctx => mem'[a].v = p[a].v)
       /\ mem'[Ctx].v = y
  BY <1>20, Bounds DEF SameLinks
<1>22. Kept(mem', Mods, n, stack, cur, imports, strayed')
  <2>1. n \in Nat /\ Ctx \notin Mods /\ Mods \subseteq Addrs /\ y \in Values
    BY <1>3, <1>5, <1>16
  <2>2. cur.exports = cur.exports
    OBVIOUS
  <2> QED
    BY <1>14, <1>17, <1>18, <1>21, <2>1, <2>2, ChangeKept
<1>23. Refs(Assign(p, y)) /\ Counted(Assign(p, y), Mods, stack, cur, imports, strayed)
  BY <1>4, <1>8, <1>10, <1>12, <1>16, AssignCounts
<1>24. Refs(mem') /\ Counted(mem', Mods, stack, cur, imports, strayed')
  BY <1>19, <1>23, CountedMore
<1>25. Mods' = Mods
  BY <1>1 DEF Mods
<1> QED
  BY <1>1, <1>22, <1>24, <1>25 DEF DInv

(* The scope of a module, before it runs.                                  *)
LEMMA ModuleRefs ==
  ASSUME IInv, LInv, DInv, made < MaxScopes, NEW n, n = made + 1
  PROVE  LET p == ModuleScope(mem, n) IN
         /\ Refs(p) /\ Counted(p, Mods, stack, cur, imports, strayed)
         /\ Kept(p, Mods, n, stack, cur, imports, strayed)
<1> DEFINE p == ModuleScope(mem, n)
<1> DEFINE r == Root(mem)
<1> DEFINE x == mem[Ctx].v
<1>2. r \in Addrs /\ r # n
  BY RootFacts
<1>3. /\ IsMem(mem, loaded) /\ mem[Ctx].live
      /\ Valued(mem, stack, cur, imports) /\ Mods \subseteq Addrs
      /\ \A a \in Addrs : mem[a].id \in Addrs
  BY DFacts
<1>4. Len(stack) \in Nat /\ Len(imports) \in Nat /\ made \in Nat
  BY DFacts
<1>5. /\ n \in Addrs /\ n # Ctx /\ n \notin Mods /\ n \in Nat
      /\ Unnamed(mem, stack, cur, imports, n) /\ ~mem[n].live
      /\ \A a \in Addrs \ {n} : mem[a].id # n
      /\ x.at # n
  BY NextUnnamed
<1>6. x \in Values /\ Sound(mem, Mods, made, strayed, x)
  <2>1. mem[Ctx].v \in Values
    BY <1>3, Bounds DEF IsMem, IsScope
  <2>2. Sound(mem, Mods, made, strayed, mem[Ctx].v)
    BY <1>3, Bounds DEF DInv, Kept, Keeps
  <2> QED
    BY <2>1, <2>2
<1>9. /\ p[n].id = n /\ p[n].live
      /\ p[n].fn = Number /\ p[n].v = x /\ p[n].ref = 1
      /\ \A b \in Addrs \ {n} :
           /\ p[b].id = mem[b].id /\ p[b].live = mem[b].live
           /\ p[b].fn = mem[b].fn /\ p[b].v = mem[b].v
           /\ p[b].ref = Inc(mem[b].ref, b = x.at)
  <2>1. IsMem(mem, loaded) /\ n \in Addrs /\ r \in Addrs /\ r # n /\ r = Root(mem)
    BY <1>2, <1>3, <1>5
  <2> HIDE DEF r
  <2> QED
    BY <2>1, ModuleScopeIs
<1> HIDE DEF p, x, r
<1>11. /\ Refs(mem) /\ Counted(mem, Mods, stack, cur, imports, strayed)
       /\ Kept(mem, Mods, made, stack, cur, imports, strayed)
  BY DEF DInv
<1>12. Refs(p) /\ Counted(p, Mods, stack, cur, imports, strayed)
  BY <1>3, <1>4, <1>5, <1>6, <1>9, <1>11, SnapshotCounts
<1>13. strayed \subseteq strayed
  OBVIOUS
<1>14. Kept(p, Mods, n, stack, cur, imports, strayed)
  <2>1. /\ \A b \in Addrs \ {n} : p[b].id = mem[b].id /\ p[b].live = mem[b].live
                                  /\ p[b].v = mem[b].v /\ p[b].fn = mem[b].fn
        /\ p[n].live /\ p[n].fn = Number /\ p[n].v = x
    BY <1>9
  <2>2. n \in Addrs /\ n \notin Mods /\ x.at # n
    BY <1>5
  <2>3. Valued(mem, stack, cur, imports) /\ Mods \subseteq Addrs
    BY <1>3
  <2> QED
    BY <1>4, <1>6, <1>11, <1>13, <2>1, <2>2, <2>3, SnapshotKept
<1> QED
  BY <1>12, <1>14 DEF p

LEMMA KeptMore ==
  ASSUME NEW m, NEW M, NEW n, NEW st, NEW c, NEW I, NEW T, Kept(m, M, n, st, c, I, T),
         NEW U, T \subseteq U
  PROVE  Kept(m, M, n, st, c, I, U)
<1>1. Fns(m, M, n) /\ Waits(m, M)
  BY DEF Kept
<1>2. Clones(m, M, n, I, U)
  BY DEF Kept, Clones
<1>3. \A x : Sound(m, M, n, T, x) => Sound(m, M, n, U, x)
  BY DEF Sound
<1> QED
  BY <1>1, <1>2, <1>3 DEF Kept

LEMMA UnreadableRefs ==
  ASSUME IInv, LInv, DInv, NEW f \in Files, NEW isolated \in BOOLEAN, ImportUnreadable(f, isolated),
         strayed \subseteq strayed'
  PROVE  DInv'
<1>1. Mods' = Mods /\ UNCHANGED <<cur, stack, imports>>
  BY DEF ImportUnreadable, Mods
<1>2. CASE isolated
  <2>1. made < MaxScopes /\ made' = made + 1 /\ mem' = ModuleScope(mem, made + 1)
    BY <1>2 DEF ImportUnreadable
  <2>2. /\ Refs(mem') /\ Counted(mem', Mods, stack, cur, imports, strayed)
        /\ Kept(mem', Mods, made', stack, cur, imports, strayed)
    BY <2>1, ModuleRefs
  <2>3. /\ Counted(mem', Mods, stack, cur, imports, strayed')
        /\ Kept(mem', Mods, made', stack, cur, imports, strayed')
    BY <2>2, CountedMore, KeptMore
  <2> QED
    BY <1>1, <2>2, <2>3 DEF DInv
<1>3. CASE ~isolated
  <2>1. UNCHANGED <<mem, made>>
    BY <1>3 DEF ImportUnreadable
  <2>2. \A b \in Addrs : SameScope(mem[b], mem'[b])
    BY <2>1 DEF SameScope
  <2> QED
    BY <1>1, <2>1, <2>2, QuietRefs
<1> QED
  BY <1>2, <1>3

LEMMA RunRefs ==
  ASSUME IInv, LInv, DInv, BeginRun \/ EndRun, strayed \subseteq strayed'
  PROVE  DInv'
<1>1. CASE BeginRun
  <2>1. mem' = mem /\ UNCHANGED <<cur, stack, imports, made>>
    BY <1>1 DEF BeginRun
  <2>2. \A b \in Addrs : SameScope(mem[b], mem'[b])
    BY <2>1 DEF SameScope
  <2> QED
    BY <2>1, <2>2, QuietRefs
<1>2. CASE EndRun
  <2> DEFINE p == Sweep(mem)
  <2> DEFINE S == Freed(mem)
  <2>1. stack = <<>> /\ mem' = p /\ UNCHANGED <<cur, stack, imports, made>>
    BY <1>2 DEF EndRun
  <2>2. Mods = {} /\ Mods' = {}
    BY <2>1 DEF Mods
  <2>3. Linked(mem, {Ctx}, made)
    BY <2>2 DEF LInv
  <2>4. IsMem(mem, loaded) /\ Valued(mem, stack, cur, imports)
    BY DFacts
  <2>5. Len(stack) \in Nat /\ Len(imports) \in Nat
    BY DFacts
  <2>6. /\ \A a \in Addrs : /\ p[a].id = mem[a].id
                            /\ p[a].fn = mem[a].fn /\ p[a].v = mem[a].v
                            /\ (p[a].live <=> mem[a].live /\ a \notin S)
        /\ \A a \in Addrs : mem[a].live /\ a \notin S =>
             p[a].ref = IF mem[a].ref > Given(mem, S, a) THEN mem[a].ref - Given(mem, S, a) ELSE 0
        /\ \A a \in Addrs : a \in S \/ ~mem[a].live => p[a].ref = mem[a].ref
    BY <2>3, <2>4, SweepIs
  <2>7. S = Freed(mem)
    OBVIOUS
  <2> HIDE DEF p, S
  <2>8. /\ Refs(mem) /\ Counted(mem, {}, stack, cur, imports, strayed)
        /\ Kept(mem, {}, made, stack, cur, imports, strayed)
    BY <2>2 DEF DInv
  <2>9. Refs(p) /\ Counted(p, {}, stack, cur, imports, strayed)
    BY <2>3, <2>5, <2>6, <2>7, <2>8, SweepCounts
  <2>10. Kept(p, {}, made, stack, cur, imports, strayed)
    BY <2>3, <2>4, <2>5, <2>6, <2>7, <2>8, SweepKept
  <2>11. Counted(p, {}, stack, cur, imports, strayed') /\ Kept(p, {}, made, stack, cur, imports, strayed')
    BY <2>9, <2>10, CountedMore, KeptMore
  <2> QED
    BY <2>1, <2>2, <2>9, <2>11 DEF DInv
<1> QED
  BY <1>1, <1>2

(* The structs of the module n and of its importer are exchanged.          *)
LEMMA EnterScopes ==
  ASSUME NEW L, NEW m, IsMem(m, L), NEW n \in Addrs, n # Ctx
  PROVE  LET p == ModuleScope(m, n)
             q == Entered(m, n) IN
         /\ SameScope(p[n], q[Ctx]) /\ SameScope(p[Ctx], q[n])
         /\ \A b \in Addrs \ {Ctx, n} : SameScope(p[b], q[b])
<1> DEFINE p == ModuleScope(m, n)
<1> DEFINE e == Exchange(p, n)
<1> DEFINE s == [e[Ctx] EXCEPT !.parent = n]
<1> DEFINE q == [e EXCEPT ![Ctx] = s]
<1>1. Entered(m, n) = q
  BY DEF Entered
<1>2. IsMem(p, L)
  BY ModuleScopeMem
<1> HIDE DEF p
<1>3. IsMem(e, L)
  BY <1>2, ExchangeMem
<1>4. e[Ctx] = p[n] /\ e[n] = p[Ctx] /\ \A b \in Addrs \ {Ctx, n} : e[b] = p[b]
  <2>1. p = [b \in Addrs |-> p[b]]
    BY <1>2 DEF IsMem
  <2> QED
    BY <2>1, Bounds DEF Exchange
<1> HIDE DEF e
<1>5. SameScope(e[Ctx], s)
  BY <1>3, FieldParent, Bounds DEF IsMem, SameScope
<1> HIDE DEF s
<1>6. q[Ctx] = s /\ \A b \in Addrs \ {Ctx} : q[b] = e[b]
  BY <1>3, Bounds DEF IsMem
<1> HIDE DEF q
<1>7. q[n] = p[Ctx] /\ \A b \in Addrs \ {Ctx, n} : q[b] = p[b]
  BY <1>4, <1>6
<1>8. SameScope(p[n], q[Ctx])
  BY <1>4, <1>5, <1>6
<1>9. SameScope(p[Ctx], q[n]) /\ \A b \in Addrs \ {Ctx, n} : SameScope(p[b], q[b])
  BY <1>7 DEF SameScope
<1> QED
  BY <1>1, <1>8, <1>9 DEF p

(* The snapshot n, which nothing names, and its exchange.                  *)
Fresh(m, M, st, c, I, T, n) ==
  /\ Refs(m) /\ Counted(m, M, st, c, I, T) /\ Len(I) \in Nat
  /\ n \in Addrs /\ n # Ctx /\ n \notin M /\ Unnamed(m, st, c, I, n)
  /\ (\A a \in Addrs : m[a].id \in Addrs) /\ (\A a \in Addrs \ {n} : m[a].id # n)
  /\ m[n].id = n /\ m[n].fn = Number /\ m[n].ref = 1 /\ (m[n].v.at = Ctx => n \in T)
Enters(m, n, p) ==
  /\ SameScope(m[n], p[Ctx]) /\ SameScope(m[Ctx], p[n])
  /\ \A b \in Addrs \ {Ctx, n} : SameScope(m[b], p[b])

LEMMA FreshCounts ==
  ASSUME NEW m, NEW M, NEW st, NEW c, NEW I, NEW T, NEW n, Fresh(m, M, st, c, I, T, n),
         NEW u, Deeper(st, c, u), NEW d, d.exports = Number, NEW p, Enters(m, n, p)
  PROVE  Refs(p) /\ Counted(p, M \cup {n}, u, d, I, T)
BY EnterCounts DEF Fresh, Enters

(* The run of a module begins.  Its copy of a variable that names the      *)
(* context is astray.                                                      *)
LEMMA EnterRefs ==
  ASSUME IInv, LInv, DInv, Typed', made < MaxScopes, NEW z, z = made + 1,
         mem' = Entered(mem, z), Deeper(stack, cur, stack'), cur'.exports = Number,
         UNCHANGED imports, strayed \subseteq strayed', Astray' \subseteq strayed'
  PROVE  /\ Refs(mem') /\ Counted(mem', Mods \cup {z}, stack', cur', imports, strayed')
         /\ Kept(mem', Mods \cup {z}, z, stack', cur', imports, strayed')
<1> DEFINE p == ModuleScope(mem, z)
<1> DEFINE q == Entered(mem, z)
<1> DEFINE r == Root(mem)
<1> DEFINE x == mem[Ctx].v
<1>1. r \in Addrs /\ r # z
  BY RootFacts
<1>2. /\ IsMem(mem, loaded) /\ mem[Ctx].live /\ Ctx \notin Mods
      /\ Valued(mem, stack, cur, imports) /\ Mods \subseteq Addrs
      /\ \A a \in Addrs : mem[a].id \in Addrs
      /\ Linked(mem, Mods \cup {Ctx}, made)
  BY DFacts
<1>3. Len(imports) \in Nat /\ made \in Nat
  BY DFacts
<1>4. /\ z \in Addrs /\ z # Ctx /\ z \notin Mods /\ z \in Nat
      /\ Unnamed(mem, stack, cur, imports, z)
      /\ \A a \in Addrs \ {z} : mem[a].id # z
      /\ x.at # z
  BY NextUnnamed
<1>5. IsMem(mem, loaded) /\ z \in Addrs /\ z # Ctx /\ r \in Addrs /\ r # z /\ r = Root(mem)
  BY <1>1, <1>2, <1>4
<1>6. /\ p[z].id = z /\ p[z].live /\ p[z].fn = Number /\ p[z].v = x /\ p[z].ref = 1
      /\ \A b \in Addrs \ {z} :
           /\ p[b].id = mem[b].id /\ p[b].live = mem[b].live
           /\ p[b].fn = mem[b].fn /\ p[b].v = mem[b].v
  <2> HIDE DEF r
  <2> QED
    BY <1>5, ModuleScopeIs
<1>7. /\ q[Ctx].id = z /\ q[Ctx].live /\ q[Ctx].fn = Number /\ q[Ctx].v = x
      /\ q[z].id = mem[Ctx].id /\ q[z].live = mem[Ctx].live
      /\ q[z].fn = mem[Ctx].fn /\ q[z].v = x
      /\ \A b \in Addrs \ {Ctx, z} :
           /\ q[b].id = mem[b].id /\ q[b].live = mem[b].live
           /\ q[b].fn = mem[b].fn /\ q[b].v = mem[b].v
  <2> HIDE DEF r
  <2> QED
    BY <1>5, EnterIs
<1>8. /\ SameScope(p[z], q[Ctx]) /\ SameScope(p[Ctx], q[z])
      /\ \A b \in Addrs \ {Ctx, z} : SameScope(p[b], q[b])
  BY <1>5, EnterScopes
<1>9. Refs(p) /\ Counted(p, Mods, stack, cur, imports, strayed)
  BY ModuleRefs
<1> HIDE DEF p, q, r, x
<1>10. Counted(p, Mods, stack, cur, imports, strayed')
  BY <1>9, CountedMore
<1>11. mem' = q
  BY DEF q
<1>12. x.at = Ctx => z \in strayed'
  <2> SUFFICES ASSUME x.at = Ctx
               PROVE  z \in strayed'
    OBVIOUS
  <2>1. Keeps(mem', stack', cur', imports', x)
    BY <1>7, <1>11, Bounds DEF Keeps
  <2>2. x.home # z
    <3>1. Sound(mem, Mods, made, strayed, x)
      BY <1>2, Bounds DEF DInv, Kept, Keeps, x
    <3>2. PICK a \in Addrs : mem[a].id = x.home /\ mem[a].fn # Number
      BY <3>1 DEF Sound, Defd
    <3>3. a <= made
      BY <3>2 DEF DInv, Kept, Fns
    <3>4. a # z
      BY <1>3, <1>4, <3>3
    <3> QED
      BY <1>4, <3>2, <3>4
  <2>3. mem'[x.at].id = z /\ x.at # None
    BY <1>7, <1>11, Bounds
  <2> QED
    BY <2>1, <2>2, <2>3, StrayIs
<1>13. Unnamed(p, stack, cur, imports, z)
  <2>1. Number.at # z
    BY <1>4, NumberType, Bounds
  <2>2. \A a \in Addrs : p[a].live => p[a].v.at # z /\ p[a].fn.at # z
    BY <1>4, <1>6, <2>1 DEF Unnamed
  <2> QED
    BY <1>4, <2>2 DEF Unnamed
<1>14. /\ \A a \in Addrs : p[a].id \in Addrs
       /\ \A a \in Addrs \ {z} : p[a].id # z
  <2>1. ASSUME NEW a \in Addrs \ {z}
        PROVE  p[a].id \in Addrs /\ p[a].id # z
    <3>1. p[a].id = mem[a].id /\ a \in Addrs
      BY <1>6
    <3>2. mem[a].id \in Addrs /\ mem[a].id # z
      BY <1>2, <1>4, <3>1
    <3> QED
      BY <3>1, <3>2
  <2>2. p[z].id \in Addrs
    BY <1>4, <1>6
  <2> QED
    BY <2>1, <2>2
<1>15. Refs(q) /\ Counted(q, Mods \cup {z}, stack', cur', imports, strayed')
  <2>1. z \in Addrs /\ z # Ctx /\ z \notin Mods /\ Len(imports) \in Nat
    BY <1>3, <1>4
  <2>2. p[z].id = z /\ p[z].fn = Number /\ p[z].ref = 1 /\ (p[z].v.at = Ctx => z \in strayed')
    BY <1>6, <1>12
  <2>3. Refs(p)
    BY <1>9
  <2>4. Fresh(p, Mods, stack, cur, imports, strayed', z)
    BY <1>10, <1>13, <1>14, <2>1, <2>2, <2>3 DEF Fresh
  <2>5. Enters(p, z, q)
    BY <1>8 DEF Enters
  <2> QED
    BY <2>4, <2>5, FreshCounts
<1>16. Kept(q, Mods \cup {z}, z, stack', cur', imports, strayed')
  <2>1. Kept(mem, Mods, made, stack, cur, imports, strayed)
    BY DEF DInv
  <2>2. Moves(mem, z, q)
    BY <1>7 DEF x, Moves
  <2>3. made \in Nat /\ z \in Addrs /\ z = made + 1 /\ z \notin Mods /\ z # Ctx
    BY <1>3, <1>4
  <2>4. Valued(mem, stack, cur, imports) /\ Ctx \notin Mods /\ Mods \subseteq Addrs /\ mem[Ctx].live
    BY <1>2
  <2>5. Deeper(stack, cur, stack') /\ cur'.exports = Number /\ strayed \subseteq strayed'
    OBVIOUS
  <2> QED
    BY ONLY <2>1, <2>2, <2>3, <2>4, <2>5, EnterKept
<1> QED
  BY <1>11, <1>15, <1>16

LEMMA BeginRefs ==
  ASSUME IInv, LInv, DInv, Typed', NEW f \in Files, NEW isolated \in BOOLEAN, BeginImport(f, isolated),
         strayed \subseteq strayed', Astray' \subseteq strayed'
  PROVE  DInv'
<1>0. stack \in Seq(Frames) /\ cur \in Exporting /\ Len(stack) \in Nat
  BY Facts DEF IInv, Typed
<1> DEFINE L == Len(stack)
<1>1. imports' = imports /\ cur' = [NotImporting EXCEPT !.file = f]
  BY DEF BeginImport
<1>2. cur'.exports = Number
  BY <1>1 DEF NotImporting
<1>3. PICK z \in Addrs : /\ stack' = Append(stack, Frame(f, isolated, z))
                         /\ isolated => z = made + 1 /\ made < MaxScopes
  <2>1. CASE isolated
    <3>1. made + 1 <= MaxScopes /\ stack' = Append(stack, Frame(f, isolated, made + 1))
      BY <2>1 DEF BeginImport
    <3>2. made \in 0..MaxScopes
      BY DEF IInv, Typed
    <3>3. made + 1 \in Addrs /\ made < MaxScopes
      BY <3>1, <3>2, Bounds
    <3> QED
      BY <3>1, <3>3
  <2>2. CASE ~isolated
    BY <2>2, Bounds DEF BeginImport
  <2> QED
    BY <2>1, <2>2
<1> DEFINE fr == Frame(f, isolated, z)
<1>4. fr \in Frames /\ fr.isolated = isolated /\ fr.addr = z /\ fr.prev = cur
  BY <1>0, Bounds DEF Frame, Frames
<1> HIDE DEF fr
<1>5. /\ Len(stack') = L + 1 /\ \A k \in 1..L : stack'[k] = stack[k]
      /\ stack'[L + 1] = fr
  BY <1>0, <1>3, <1>4, Pushed DEF fr
<1>6. \A k : k \in 1..(L + 1) <=> k \in 1..L \/ k = L + 1
  BY <1>0
<1>7. Mods' = IF isolated THEN Mods \cup {z} ELSE Mods
  BY <1>4, <1>5, <1>6 DEF Mods
<1>8. Deeper(stack, cur, stack')
  BY <1>0, <1>4, <1>5 DEF Deeper
<1>9. CASE isolated
  <2>1. made' = z /\ mem' = Entered(mem, z) /\ z = made + 1 /\ made < MaxScopes
    BY <1>3, <1>9 DEF BeginImport, Entered
  <2>2. /\ Refs(mem') /\ Counted(mem', Mods \cup {z}, stack', cur', imports, strayed')
        /\ Kept(mem', Mods \cup {z}, z, stack', cur', imports, strayed')
    BY <1>1, <1>2, <1>8, <2>1, EnterRefs
  <2> QED
    BY <1>1, <1>7, <1>9, <2>1, <2>2 DEF DInv
<1>10. CASE ~isolated
  <2>1. UNCHANGED <<mem, made>>
    BY <1>10 DEF BeginImport
  <2>2. /\ Refs(mem) /\ Counted(mem, Mods, stack, cur, imports, strayed)
        /\ Kept(mem, Mods, made, stack, cur, imports, strayed)
    BY DEF DInv
  <2>3. /\ made \in Nat /\ Len(imports) \in Nat /\ Valued(mem, stack, cur, imports)
        /\ \A a \in Addrs : mem[a].id \in Addrs
    BY DFacts
  <2>4. Counted(mem, Mods, stack', cur', imports, strayed)
    BY <1>2, <1>8, <2>2, <2>3, PushCounts
  <2>5. Counted(mem, Mods, stack', cur', imports, strayed')
    BY <2>4, CountedMore
  <2>6. Kept(mem, Mods, made, stack', cur', imports, strayed')
    BY <1>2, <1>8, <2>2, <2>3, PushKept
  <2>7. Mods' = Mods
    BY <1>7, <1>10
  <2> QED
    BY <1>1, <2>1, <2>2, <2>5, <2>6, <2>7 DEF DInv
<1> QED
  BY <1>9, <1>10

(* What the end of a file leaves.                                          *)
LEMMA EndedIs ==
  ASSUME IInv, Refs(mem), stack # <<>>, NEW z, z = Last(stack).addr
  PROVE  /\ Last(stack).isolated =>
              Leaves(mem, z, Ended.mem) /\ Ended.exports = Rehomed(cur.exports, z)
         /\ ~Last(stack).isolated => Ended.mem = mem /\ Ended.exports = cur.exports
<1> DEFINE fr == Last(stack)
<1>0. IsMem(mem, loaded)
  BY DEF IInv, Typed
<1>1. /\ fr \in Frames /\ z \in Addrs /\ cur.exports \in Values
      /\ (fr.isolated => z = mem[Ctx].id /\ z # Ctx)
  BY TopModule
<1>2. CASE ~fr.isolated
  BY <1>2 DEF Ended
<1>3. CASE fr.isolated
  <2> DEFINE r == Rebind(mem, cur.exports, z).mem
  <2> DEFINE p == LeaveModule(r, fr)
  <2>1. Ended.mem = p /\ Ended.exports = Rebind(mem, cur.exports, z).exports
    BY <1>3 DEF Ended
  <2>2. IsMem(r, loaded) /\ Ended.exports = Rehomed(cur.exports, z)
    BY <1>0, <1>1, <2>1, RebindMem, RebindIs
  <2>3. Raised(mem, r)
    BY <1>0, <1>1, RebindIs
  <2> HIDE DEF r
  <2>4. z # Ctx /\ fr.addr = z
    BY <1>1, <1>3
  <2>5. /\ p[Ctx] = r[z]
        /\ p[z].id = r[Ctx].id /\ p[z].live = r[Ctx].live /\ p[z].v = r[Ctx].v
        /\ p[z].ref = r[Ctx].ref /\ p[z].fn = Rehomed(r[Ctx].fn, z)
        /\ \A b \in Addrs \ {Ctx, z} : p[b] = r[b]
    BY <1>1, <2>2, <2>4, LeaveIs
  <2> HIDE DEF p, fr
  <2>6. \A b \in Addrs : SameStruct(mem[b], r[b]) /\ r[b].ref \in Nat /\ mem[b].ref <= r[b].ref
    BY <2>3 DEF Raised, Refs
  <2>9. /\ p[Ctx].id = mem[z].id /\ p[Ctx].live = mem[z].live /\ p[Ctx].v = mem[z].v
        /\ p[Ctx].fn = mem[z].fn
    BY <1>1, <2>5, <2>6 DEF SameStruct
  <2>10. /\ p[z].id = z /\ p[z].live = mem[Ctx].live /\ p[z].v = mem[Ctx].v
         /\ p[z].fn = Rehomed(mem[Ctx].fn, z)
    BY <1>1, <1>3, <2>5, <2>6, Bounds DEF SameStruct
  <2>11. \A b \in Addrs \ {Ctx, z} : SameStruct(mem[b], p[b])
    BY <2>5, <2>6
  <2>12. /\ mem[z].ref <= p[Ctx].ref /\ mem[Ctx].ref <= p[z].ref
         /\ \A b \in Addrs \ {Ctx, z} : mem[b].ref <= p[b].ref
    BY <1>1, <2>5, <2>6, Bounds
  <2>13. Refs(p)
    <3>1. p[Ctx].ref \in Nat /\ p[z].ref \in Nat /\ \A b \in Addrs \ {Ctx, z} : p[b].ref \in Nat
      BY <1>1, <2>5, <2>6, Bounds
    <3> QED
      BY <3>1 DEF Refs
  <2>14. Leaves(mem, z, p)
    BY <2>9, <2>10, <2>11, <2>12, <2>13 DEF Leaves
  <2> QED
    BY <1>3, <2>1, <2>2, <2>14 DEF fr
<1> QED
  BY <1>2, <1>3

(* The stack after it.                                                     *)
LEMMA EndedStack ==
  ASSUME IInv, LInv, stack # <<>>, stack' = Front(stack), cur' = RestoreImporter,
         NEW z, z = Last(stack).addr
  PROVE  /\ Deeper(stack', cur', stack)
         /\ Last(stack).isolated =>
              /\ Mods' = Mods \ {z} /\ z \in Mods /\ z \in Addrs /\ z # Ctx /\ mem[Ctx].id = z
              /\ stack[Len(stack)].isolated /\ stack[Len(stack)].addr = z
              /\ \A k \in 1..Len(stack') : stack'[k].isolated => stack'[k].addr # z
         /\ ~Last(stack).isolated => Mods' = Mods
<1> DEFINE L == Len(stack)
<1> DEFINE fr == stack[L]
<1>1. /\ L \in Nat \ {0} /\ L \in 1..L /\ Last(stack) = fr /\ z \in Addrs
      /\ (fr.isolated => z = mem[Ctx].id /\ z # Ctx)
  BY TopModule
<1>2. Len(stack') = L - 1 /\ \A k \in 1..(L - 1) : stack'[k] = stack[k]
  BY Popped DEF IInv, Typed
<1>3. \A k : k \in 1..L <=> k \in 1..(L - 1) \/ k = L
  BY <1>1
<1>4. Deeper(stack', cur', stack)
  <2>1. Len(stack') \in Nat /\ L = Len(stack') + 1
    BY <1>1, <1>2
  <2>2. \A k \in 1..Len(stack') : stack[k] = stack'[k]
    BY <1>2
  <2>3. fr.prev.exports = cur'.exports
    BY <1>1 DEF RestoreImporter
  <2> QED
    BY <2>1, <2>2, <2>3 DEF Deeper
<1>5. Mods' = {stack[k].addr : k \in {k \in 1..(L - 1) : stack[k].isolated}}
  BY <1>2 DEF Mods
<1>6. ASSUME NEW a
      PROVE  a \in Mods <=> \/ a \in {stack[k].addr : k \in {k \in 1..(L - 1) : stack[k].isolated}}
                            \/ fr.isolated /\ a = z
  BY <1>1, <1>3 DEF Mods
<1>7. CASE fr.isolated
  <2>1. \A k \in 1..(L - 1) : stack[k].isolated => stack[k].addr # z
    <3> SUFFICES ASSUME NEW k \in 1..(L - 1), stack[k].isolated, stack[k].addr = z
                 PROVE  FALSE
      OBVIOUS
    <3>1. k \in 1..L /\ k # L
      BY <1>1
    <3> QED
      BY <1>1, <1>7, <3>1 DEF IInv, OwnAddrs
  <2>2. z \notin {stack[k].addr : k \in {k \in 1..(L - 1) : stack[k].isolated}}
    BY <2>1
  <2>3. Mods' = Mods \ {z} /\ z \in Mods
    BY <1>5, <1>6, <1>7, <2>2
  <2>4. \A k \in 1..Len(stack') : stack'[k].isolated => stack'[k].addr # z
    BY <1>2, <2>1
  <2> QED
    BY <1>1, <1>4, <1>7, <2>3, <2>4
<1>8. CASE ~fr.isolated
  <2>1. Mods' = Mods
    BY <1>5, <1>6, <1>8
  <2> QED
    BY <1>1, <1>4, <1>8, <2>1
<1> QED
  BY <1>7, <1>8

(* After a module ends, what names it is astray unless it is its own.      *)
LEMMA LeftForeign ==
  ASSUME IInv, LInv, DInv, Typed', Astray' \subseteq strayed',
         NEW z \in Mods, z \in Addrs, z # Ctx, z \notin strayed', Deeper(stack', cur', stack),
         NEW p, Leaves(mem, z, p),
         \A a \in Addrs : mem'[a].id = p[a].id /\ mem'[a].live = p[a].live,
         \A a \in Addrs : a # Ctx => mem'[a].v = p[a].v,
         \A k \in 1..Len(imports) : k \in 1..Len(imports') /\ imports'[k] = imports[k]
  PROVE  Foreign(mem, stack', cur', imports, z)
<1>1. /\ \A x : Keeps(mem, stack, cur, imports, x) => Sound(mem, Mods, made, strayed, x)
      /\ Waits(mem, Mods) /\ Fns(mem, Mods, made)
  BY DEF DInv, Kept
<1>2. mem'[z].id = z /\ z # None
  BY Bounds DEF Leaves
<1>3. ASSUME NEW x, Keeps(mem, stack, cur, imports, x), Keeps(mem', stack', cur', imports', x)
      PROVE  x.at # z
  <2> SUFFICES ASSUME x.at = z
               PROVE  FALSE
    OBVIOUS
  <2>1. x.home # z
    BY <1>1, <1>2, <1>3 DEF Sound
  <2> QED
    BY <1>2, <1>3, <2>1, StrayIs
<1>4. ASSUME NEW a \in Addrs, mem[a].live
      PROVE  mem[a].v.at # z
  <2>1. Keeps(mem, stack, cur, imports, mem[a].v)
    BY <1>4 DEF Keeps
  <2>2. CASE a = z
    BY <1>1, <2>2 DEF Waits
  <2>3. CASE a = Ctx
    <3>1. mem'[z].live /\ mem'[z].v = mem[a].v
      BY <1>4, <2>3 DEF Leaves
    <3> QED
      BY <1>3, <2>1, <3>1 DEF Keeps
  <2>4. CASE a # z /\ a # Ctx
    <3>1. mem'[a].live /\ mem'[a].v = mem[a].v
      BY <1>4, <2>4 DEF Leaves, SameStruct
    <3> QED
      BY <1>3, <2>1, <3>1 DEF Keeps
  <2> QED
    BY <2>2, <2>3, <2>4
<1>5. ASSUME NEW a \in Addrs
      PROVE  mem[a].fn.at # z
  <2>1. CASE mem[a].fn = Number
    BY <1>2, <2>1, NumberType
  <2>2. CASE mem[a].fn # Number
    <3>1. mem[a].fn = Value(IF a \in Mods \cup {Ctx} THEN Ctx ELSE a, mem[a].id)
      BY <1>1, <2>2 DEF Fns
    <3>2. mem[a].fn.at = IF a \in Mods \cup {Ctx} THEN Ctx ELSE a
      BY <3>1, ValueIs
    <3> QED
      BY <3>2
  <2> QED
    BY <2>1, <2>2
<1>6. ASSUME NEW k \in 0..Len(stack')
      PROVE  Exported(stack', cur', k).at # z
  <2>1. Keeps(mem, stack', cur', imports, Exported(stack', cur', k))
    BY DEF Keeps
  <2>2. Keeps(mem, stack, cur, imports, Exported(stack', cur', k))
    BY <2>1, PopKeeps
  <2>3. Keeps(mem', stack', cur', imports', Exported(stack', cur', k))
    BY DEF Keeps
  <2> QED
    BY <1>3, <2>2, <2>3
<1>7. ASSUME NEW k \in 1..Len(imports)
      PROVE  imports[k].exports.at # z
  <2>1. Keeps(mem, stack, cur, imports, imports[k].exports)
    BY DEF Keeps
  <2>2. k \in 1..Len(imports') /\ imports'[k].exports = imports[k].exports
    OBVIOUS
  <2>3. Keeps(mem', stack', cur', imports', imports[k].exports)
    BY <2>2 DEF Keeps
  <2> QED
    BY <1>3, <2>1, <2>3
<1> QED
  BY <1>4, <1>5, <1>6, <1>7 DEF Foreign

(* The record of the file that ends.                                       *)
Entry == [file |-> Last(stack).file, isolated |-> Last(stack).isolated, exports |-> Ended.exports,
          has |-> cur.has, by |-> cur.by, own |-> cur.own, scope |-> Last(stack).addr]

LEMMA EntryIs ==
  ASSUME IInv, stack # <<>>
  PROVE  /\ Entry.exports = Ended.exports /\ Entry.isolated = Last(stack).isolated
         /\ Entry.scope = Last(stack).addr /\ Entry \in Records
         /\ Longer(imports, Append(imports, Entry), Entry)
<1>1. Last(stack) \in Frames
  BY TopModule
<1>2. Ended.exports \in Values
  BY EndedMem
<1>3. cur \in Exporting /\ imports \in Seq(Records)
  BY DEF IInv, Typed
<1>4. Entry \in Records
  BY <1>1, <1>2, <1>3 DEF Entry, Records, Frames, Exporting
<1>5. /\ Entry.exports = Ended.exports /\ Entry.isolated = Last(stack).isolated
      /\ Entry.scope = Last(stack).addr
  BY DEF Entry
<1>6. /\ Len(Append(imports, Entry)) = Len(imports) + 1 /\ Len(imports) \in Nat
      /\ \A k \in 1..Len(imports) : Append(imports, Entry)[k] = imports[k]
      /\ Append(imports, Entry)[Len(imports) + 1] = Entry
  BY <1>3, <1>4, Pushed
<1>7. Longer(imports, Append(imports, Entry), Entry)
  BY <1>6 DEF Longer
<1> QED
  BY <1>4, <1>5, <1>7

LEMMA SoundMore ==
  ASSUME NEW m, NEW M, NEW n, NEW T, NEW x, Sound(m, M, n, T, x), NEW U, T \subseteq U
  PROVE  Sound(m, M, n, U, x)
BY DEF Sound

(* A module ends.                                                          *)
LEMMA LeaveRefsKept ==
  ASSUME IInv, LInv, DInv, stack # <<>>, stack' = Front(stack), cur' = RestoreImporter,
         strayed \subseteq strayed', Last(stack).isolated, NEW z, z = Last(stack).addr,
         NEW J, NEW d, Longer(imports, J, d), d.exports = Ended.exports, d.isolated, d.scope = z,
         z \notin strayed' => Foreign(mem, stack', cur', imports, z)
  PROVE  /\ Refs(Ended.mem) /\ Counted(Ended.mem, Mods', stack', cur', J, strayed')
         /\ Kept(Ended.mem, Mods', made, stack', cur', imports, strayed')
         /\ Sound(Ended.mem, Mods', made, strayed', d.exports)
<1> DEFINE p == Ended.mem
<1>1. Leaves(mem, z, p) /\ d.exports = Rehomed(cur.exports, z)
  BY EndedIs DEF DInv
<1>2. /\ Deeper(stack', cur', stack)
      /\ Mods' = Mods \ {z} /\ z \in Mods /\ z \in Addrs /\ z # Ctx /\ mem[Ctx].id = z
      /\ stack[Len(stack)].isolated /\ stack[Len(stack)].addr = z
      /\ \A k \in 1..Len(stack') : stack'[k].isolated => stack'[k].addr # z
  BY EndedStack
<1>3. /\ Len(stack) \in Nat /\ cur.exports \in Values /\ Ctx \notin Mods
      /\ Linked(mem, Mods \cup {Ctx}, made) /\ Valued(mem, stack, cur, imports)
      /\ \A a \in Addrs : mem[a].id \in Addrs /\ mem[a].fn \in Values
  BY DFacts
<1>4. /\ Refs(mem) /\ Counted(mem, Mods, stack, cur, imports, strayed')
      /\ Kept(mem, Mods, made, stack, cur, imports, strayed)
  BY CountedMore DEF DInv
<1> HIDE DEF p
<1>5. PICK w, e, T : w = stack' /\ e = cur' /\ T = strayed'
  OBVIOUS
<1>6. /\ Deeper(w, e, stack) /\ \A k \in 1..Len(w) : w[k].isolated => w[k].addr # z
  BY <1>2, <1>5
<1>7. Counted(mem, Mods, stack, cur, imports, T) /\ (z \notin T => Foreign(mem, w, e, imports, z))
  BY <1>4, <1>5
<1>8. Refs(p) /\ Counted(p, Mods \ {z}, w, e, J, T)
  BY <1>1, <1>2, <1>3, <1>4, <1>6, <1>7, LeaveCounts
<1>9. strayed \subseteq T
  BY <1>5
<1>10. /\ Kept(p, Mods \ {z}, made, w, e, imports, T) /\ Grows(mem, Mods, made, p, Mods \ {z}, made)
       /\ z <= made /\ p[z].live
  <2>1. z \in Mods /\ z \in Addrs /\ z # Ctx /\ mem[Ctx].id = z /\ Ctx \notin Mods
    BY <1>2, <1>3
  <2>2. Leaves(mem, z, p) /\ Deeper(w, e, stack)
    BY <1>1, <1>6
  <2>3. /\ Kept(mem, Mods, made, stack, cur, imports, strayed)
        /\ Valued(mem, stack, cur, imports) /\ Linked(mem, Mods \cup {Ctx}, made)
    BY <1>3, <1>4
  <2>4. Kept(p, Mods \ {z}, made, w, e, imports, T)
    BY <1>9, <2>1, <2>2, <2>3, LeaveKept
  <2>5. Grows(mem, Mods, made, p, Mods \ {z}, made)
    BY <1>9, <2>1, <2>2, <2>3, LeaveKept
  <2>6. z <= made /\ p[z].live
    <3>1. \A a \in Mods \cup {Ctx} : mem[a].live
      BY <2>3 DEF Linked, LivesOK
    <3>2. z <= made
      BY <2>1, <2>3, <3>1 DEF Linked, LivesOK
    <3>3. p[z].live
      BY <2>2, <3>1 DEF Leaves
    <3> QED
      BY <3>2, <3>3
  <2> QED
    BY <2>4, <2>5, <2>6
<1>11. Sound(mem, Mods, made, strayed, cur.exports)
  <2>1. Exported(stack, cur, Len(stack)) = cur.exports /\ Len(stack) \in 0..Len(stack)
    BY <1>3 DEF Exported
  <2>2. Keeps(mem, stack, cur, imports, cur.exports)
    BY <2>1 DEF Keeps
  <2> QED
    BY <2>2 DEF DInv, Kept
<1>12. Sound(p, Mods \ {z}, made, T, cur.exports)
  BY <1>3, <1>9, <1>10, <1>11, SoundGrows
<1>13. z \notin Mods \ {z}
  OBVIOUS
<1>14. Sound(p, Mods \ {z}, made, T, Rehomed(cur.exports, z))
  BY <1>2, <1>3, <1>10, <1>12, <1>13, RehomedSound
<1> QED
  BY <1>1, <1>2, <1>5, <1>8, <1>10, <1>14 DEF p

LEMMA PopRefs ==
  ASSUME IInv, LInv, DInv, stack # <<>>, stack' = Front(stack), cur' = RestoreImporter,
         strayed \subseteq strayed', NEW z, z = Last(stack).addr,
         NEW J, NEW d, Longer(imports, J, d), d.exports = Ended.exports,
         d.isolated = Last(stack).isolated, d.scope = z,
         Last(stack).isolated /\ z \notin strayed' => Foreign(mem, stack', cur', imports, z)
  PROVE  /\ Refs(Ended.mem) /\ Counted(Ended.mem, Mods', stack', cur', J, strayed')
         /\ Kept(Ended.mem, Mods', made, stack', cur', imports, strayed')
         /\ Sound(Ended.mem, Mods', made, strayed', d.exports)
<1>1. CASE Last(stack).isolated
  BY <1>1, LeaveRefsKept
<1>2. CASE ~Last(stack).isolated
  <2>1. Ended.mem = mem /\ d.exports = cur.exports
    BY <1>2, EndedIs DEF DInv
  <2>2. Deeper(stack', cur', stack) /\ Mods' = Mods
    BY <1>2, EndedStack
  <2>3. /\ made \in Nat /\ Len(stack) \in Nat /\ Valued(mem, stack, cur, imports)
        /\ \A a \in Addrs : mem[a].id \in Addrs
    BY DFacts
  <2>4. /\ Refs(mem) /\ Counted(mem, Mods, stack, cur, imports, strayed)
        /\ Kept(mem, Mods, made, stack, cur, imports, strayed)
    BY DEF DInv
  <2>5. Counted(mem, Mods, stack', cur', J, strayed)
    BY <2>1, <2>2, <2>3, <2>4, PopCounts
  <2>6. Counted(mem, Mods, stack', cur', J, strayed')
    BY <2>5, CountedMore
  <2>7. Kept(mem, Mods, made, stack', cur', imports, strayed')
    BY <2>2, <2>3, <2>4, PopKept
  <2>8. Sound(mem, Mods, made, strayed', cur.exports)
    <3>1. Exported(stack, cur, Len(stack)) = cur.exports /\ Len(stack) \in 0..Len(stack)
      BY <2>3 DEF Exported
    <3>2. Keeps(mem, stack, cur, imports, cur.exports)
      BY <3>1 DEF Keeps
    <3>3. Sound(mem, Mods, made, strayed, cur.exports)
      BY <2>4, <3>2 DEF Kept
    <3> QED
      BY <3>3, SoundMore
  <2> QED
    BY <2>1, <2>2, <2>4, <2>6, <2>7, <2>8
<1> QED
  BY <1>1, <1>2

LEMMA CountedShorter ==
  ASSUME NEW m, NEW M, NEW st, NEW c, NEW I, NEW T, NEW J, NEW d, Longer(I, J, d),
         Len(st) \in Nat, \A a \in Addrs : m[a].id \in Addrs, Refs(m), Counted(m, M, st, c, J, T)
  PROVE  Counted(m, M, st, c, I, T)
<1> SUFFICES ASSUME NEW b \in Addrs, m[b].live, m[b].id \notin T \cup {Ctx}
             PROVE  Enough(m[b].ref, VIn(m, M, b), FIn(m, M, b), XIn(m, st, c, b), DIn(I, b))
  BY DEF Counted
<1>1. Len(J) \in Nat
  BY DEF Longer
<1>2. DIn(I, b) \in SUBSET DIn(J, b)
  BY LongerD
<1>3. m[b].ref \in Nat /\ m[b].ref <= m[b].ref
  BY DEF Refs
<1> QED
  BY <1>1, <1>2, <1>3, CountsLess

LEMMA FailRefs ==
  ASSUME IInv, LInv, DInv, Typed', FailImport,
         strayed \subseteq strayed', Astray' \subseteq strayed'
  PROVE  DInv'
<1> DEFINE z == Last(stack).addr
<1> DEFINE J == Append(imports, Entry)
<1>1. /\ stack # <<>> /\ stack' = Front(stack) /\ cur' = RestoreImporter
      /\ UNCHANGED <<imports, made>> /\ mem' = Ended.mem
  BY DEF FailImport, Failed
<1>2. /\ Entry.exports = Ended.exports /\ Entry.isolated = Last(stack).isolated
      /\ Entry.scope = z /\ Longer(imports, J, Entry)
  BY <1>1, EntryIs
<1>3. ASSUME Last(stack).isolated, z \notin strayed'
      PROVE  Foreign(mem, stack', cur', imports, z)
  <2>1. Leaves(mem, z, mem')
    BY <1>1, <1>3, EndedIs DEF DInv
  <2>2. Deeper(stack', cur', stack) /\ z \in Mods /\ z \in Addrs /\ z # Ctx
    BY <1>1, <1>3, EndedStack
  <2>3. /\ \A a \in Addrs : mem'[a].id = mem'[a].id /\ mem'[a].live = mem'[a].live
        /\ \A a \in Addrs : a # Ctx => mem'[a].v = mem'[a].v
        /\ \A k \in 1..Len(imports) : k \in 1..Len(imports') /\ imports'[k] = imports[k]
    BY <1>1
  <2> HIDE DEF z
  <2> QED
    BY <1>3, <2>1, <2>2, <2>3, LeftForeign
<1>4. z = Last(stack).addr
  OBVIOUS
<1> HIDE DEF z, J
<1>5. /\ Refs(mem') /\ Counted(mem', Mods', stack', cur', J, strayed')
      /\ Kept(mem', Mods', made, stack', cur', imports, strayed')
  BY <1>1, <1>2, <1>3, <1>4, PopRefs
<1>6. Len(stack') \in Nat /\ \A a \in Addrs : mem'[a].id \in Addrs
  BY DEF Typed, IsMem
<1>7. Counted(mem', Mods', stack', cur', imports, strayed')
  BY <1>2, <1>5, <1>6, CountedShorter
<1> QED
  BY <1>1, <1>5, <1>7 DEF DInv

(* A module whose own export is recorded has a named function.             *)
LEMMA EntryClone ==
  ASSUME IInv, LInv, DInv, Typed', stack # <<>>, stack' = Front(stack), cur' = RestoreImporter,
         Astray' \subseteq strayed', Last(stack).isolated, NEW z, z = Last(stack).addr,
         NEW x, x = Ended.exports, x.at = z, z \notin strayed',
         Keeps(mem', stack', cur', imports', x), mem'[z].id = z
  PROVE  Ended.mem[z].fn # Number
<1>1. Leaves(mem, z, Ended.mem) /\ x = Rehomed(cur.exports, z)
  BY EndedIs DEF DInv
<1>2. z \in Mods /\ z \in Addrs /\ z # Ctx /\ mem[Ctx].id = z
  BY EndedStack
<1>3. /\ Len(stack) \in Nat /\ cur.exports \in Values /\ mem[Ctx].fn \in Values
      /\ Linked(mem, Mods \cup {Ctx}, made)
  BY DFacts, Bounds
<1>4. z # None
  BY <1>2, Bounds
<1>5. x.home = z
  BY <1>4, StrayIs
<1>6. cur.exports.home = z /\ (cur.exports.at # Ctx => cur.exports.at = z)
  BY <1>1, <1>2, <1>3, <1>5, RehomedIs
<1>7. Sound(mem, Mods, made, strayed, cur.exports)
  <2>1. Exported(stack, cur, Len(stack)) = cur.exports /\ Len(stack) \in 0..Len(stack)
    BY <1>3 DEF Exported
  <2>2. Keeps(mem, stack, cur, imports, cur.exports)
    BY <2>1 DEF Keeps
  <2> QED
    BY <2>2 DEF DInv, Kept
<1>8. cur.exports.at = Ctx
  BY <1>2, <1>4, <1>6, <1>7 DEF Sound
<1>9. PICK a \in Addrs : mem[a].id = z /\ mem[a].fn # Number
  BY <1>6, <1>7, <1>8 DEF Sound, Defd
<1>10. a = Ctx
  BY <1>2, <1>3, <1>9, Bounds DEF Linked, IdsOK
<1>11. mem[Ctx].fn = Value(Ctx, z)
  BY <1>2, <1>9, <1>10, Bounds DEF DInv, Kept, Fns
<1>12. mem[Ctx].fn.at = Ctx
  BY <1>11, ValueIs
<1>13. Rehomed(mem[Ctx].fn, z).at = z
  BY <1>2, <1>3, <1>12, RehomedIs
<1>14. Ended.mem[z].fn = Rehomed(mem[Ctx].fn, z)
  BY <1>1 DEF Leaves
<1> QED
  BY <1>4, <1>13, <1>14, NumberType

LEMMA EndRefs ==
  ASSUME IInv, LInv, DInv, Typed', NEW keep \in BOOLEAN, EndImport(keep),
         strayed \subseteq strayed', Astray' \subseteq strayed'
  PROVE  DInv'
<1> DEFINE z == Last(stack).addr
<1> DEFINE x == Ended.exports
<1> DEFINE p == Ended.mem
<1> DEFINE q == Clone(p, x)
<1>1. /\ stack # <<>> /\ stack' = Front(stack) /\ cur' = RestoreImporter /\ made' = made
      /\ imports' = Append(imports, Entry) /\ mem' = Result(q, Entry, keep)
  BY DEF EndImport, Entry
<1>2. /\ Entry.exports = x /\ Entry.isolated = Last(stack).isolated
      /\ Entry.scope = z /\ Longer(imports, imports', Entry)
  BY <1>1, EntryIs
<1>3. IsMem(p, loaded) /\ x \in Values
  BY <1>1, EndedMem
<1>5. IsMem(q, loaded) /\ Raised(p, q)
  BY <1>3, CloneRaised
<1>6. \A b \in Addrs : SameStruct(p[b], q[b])
  BY <1>5 DEF Raised
<1>7. /\ z = Last(stack).addr /\ x = Ended.exports
      /\ Linked(p, Mods' \cup {Ctx}, made)
  BY <1>1, EndedLinked
<1>8. /\ ~Last(stack).isolated => Mods' = Mods
      /\ Last(stack).isolated =>
           /\ Mods' = Mods \ {z} /\ z \in Mods /\ z \in Addrs /\ z # Ctx
           /\ Leaves(mem, z, p)
      /\ Deeper(stack', cur', stack)
  BY <1>1, EndedStack, EndedIs DEF DInv
<1> HIDE DEF z, x, q
<1>9. /\ \A a \in Addrs : /\ mem'[a].id = q[a].id /\ mem'[a].live = q[a].live /\ mem'[a].fn = q[a].fn
                          /\ (a # Ctx => mem'[a].v = q[a].v)
      /\ mem'[Ctx].v = q[Ctx].v \/ mem'[Ctx].v = x
  BY <1>1, <1>2, <1>3, <1>5, ResultIs
<1>10. /\ \A a \in Addrs : /\ mem'[a].id = p[a].id /\ mem'[a].live = p[a].live /\ mem'[a].fn = p[a].fn
                           /\ (a # Ctx => mem'[a].v = p[a].v)
       /\ mem'[Ctx].v = p[Ctx].v \/ mem'[Ctx].v = x
  BY <1>6, <1>9, Bounds DEF SameStruct
<1>11. \A k \in 1..Len(imports) : k \in 1..Len(imports') /\ imports'[k] = imports[k]
  BY <1>2 DEF Longer
<1>12. Len(imports) + 1 \in 1..Len(imports') /\ imports'[Len(imports) + 1].exports = x
  BY <1>2 DEF Longer
<1>13. ASSUME Last(stack).isolated, z \notin strayed'
       PROVE  Foreign(mem, stack', cur', imports, z)
  <2>1. /\ \A a \in Addrs : mem'[a].id = p[a].id /\ mem'[a].live = p[a].live
        /\ \A a \in Addrs : a # Ctx => mem'[a].v = p[a].v
    BY <1>10
  <2>2. z \in Mods /\ z \in Addrs /\ z # Ctx /\ Leaves(mem, z, p) /\ Deeper(stack', cur', stack)
    BY <1>8, <1>13
  <2> HIDE DEF p
  <2> QED
    BY <1>11, <1>13, <2>1, <2>2, LeftForeign
<1>14. /\ Refs(p) /\ Counted(p, Mods', stack', cur', imports', strayed')
       /\ Kept(p, Mods', made, stack', cur', imports, strayed')
       /\ Sound(p, Mods', made, strayed', x)
  BY <1>1, <1>2, <1>7, <1>13, PopRefs
<1>15. Keeps(mem', stack', cur', imports', x)
  BY <1>12 DEF Keeps
<1>16. ASSUME Last(stack).isolated
       PROVE  /\ z \in Addrs \ {Ctx} /\ z <= made /\ z \notin Mods'
              /\ x.at = z /\ z \notin strayed' => p[z].fn # Number
  <2>1. z \in Addrs \ {Ctx} /\ z \notin Mods'
    BY <1>8, <1>16
  <2>2. z <= made
    BY <1>8, <1>16 DEF LInv, Linked, LivesOK
  <2>3. mem'[z].id = z
    BY <1>8, <1>10, <1>16 DEF Leaves
  <2>4. ASSUME x.at = z, z \notin strayed'
        PROVE  p[z].fn # Number
    BY <1>1, <1>7, <1>15, <1>16, <2>3, <2>4, EntryClone
  <2> QED
    BY <2>1, <2>2, <2>4
<1> HIDE DEF p
<1>17. Kept(p, Mods', made, stack', cur', imports', strayed')
  BY <1>2, <1>14, <1>16, RecordKept
<1>18. /\ made \in Nat /\ Mods' \subseteq Addrs /\ Ctx \notin Mods'
  <2>1. made \in Nat
    BY DFacts
  <2>2. Mods \subseteq Addrs /\ Ctx \notin Mods
    BY DFacts
  <2> QED
    BY <1>8, <2>1, <2>2
<1>19. Valued(p, stack', cur', imports')
  BY <1>3, ValuedIs DEF Typed
<1>20. Kept(mem', Mods', made, stack', cur', imports', strayed')
  BY <1>3, <1>10, <1>14, <1>17, <1>18, <1>19, ChangeKept
<1>21. Len(stack') \in Nat /\ Len(imports') \in Nat
  BY DEF Typed
<1>22. Refs(q) /\ Counted(q, Mods', stack', cur', imports', strayed')
  BY <1>3, <1>5, <1>14, <1>21, RaisedCounts
<1>23. SameLinks(p, q)
  BY <1>5, RaisedLinks
<1>24. Linked(q, Mods' \cup {Ctx}, made)
  BY <1>7, <1>23, SameLinked
<1>26. Refs(mem') /\ Counted(mem', Mods', stack', cur', imports', strayed')
  BY <1>1, <1>2, <1>3, <1>5, <1>22, <1>21, <1>24, ResultCounts
<1> QED
  BY <1>1, <1>20, <1>26 DEF DInv

-----------------------------------------------------------------------------
(* The theorems.                                                           *)

LEMMA InitInv == Init => IInv
<1> SUFFICES ASSUME Init
             PROVE  IInv
  OBVIOUS
<1>1. stack = <<>> /\ imports = <<>> /\ loaded = {} /\ made = 0 /\ cur = NotImporting
  BY DEF Init
<1>2. mem = [a \in Addrs |-> [NewScope(a) EXCEPT !.live = (a = Ctx)]]
  BY DEF Init
<1>3. ASSUME NEW a \in Addrs
      PROVE  IsScope(mem[a]) /\ mem[a].natives = {} /\ mem[a].id = a
  BY <1>2, NumberType DEF NewScope, IsScope
<1>4. IsMem(mem, loaded)
  <2>1. mem = [a \in Addrs |-> mem[a]]
    BY <1>2
  <2> QED
    BY <1>1, <1>3, <2>1 DEF IsMem
<1>5. Typed
  <2>1. cur \in Exporting
    BY <1>1, NumberType DEF NotImporting, Exporting
  <2>2. stack \in Seq(Frames) /\ imports \in Seq(Records) /\ made \in 0..MaxScopes
    BY <1>1, Bounds
  <2> QED
    BY <1>4, <2>1, <2>2 DEF Typed
<1>6. Len(stack) = 0 /\ Len(imports) = 0 /\ DOMAIN stack = {} /\ DOMAIN imports = {}
  BY <1>1
<1>7. OwnAddrs /\ ExportsMine /\ ExportsAtHome /\ Circles /\ ImportedOnce
  BY <1>1, <1>6 DEF OwnAddrs, ExportsMine, ExportsAtHome, Circles, ImportedOnce
<1>8. ScopesInPlace
  <2>1. \A k \in 0..1 : AddrOf(k) = Ctx
    BY <1>6 DEF AddrOf
  <2>2. \A j, k \in 0..1 : mem[AddrOf(k)].id = AddrOf(j)
    BY <1>3, <2>1, Bounds
  <2> QED
    BY <1>3, <1>6, <2>2 DEF ScopesInPlace
<1> QED
  BY <1>5, <1>7, <1>8 DEF IInv

LEMMA NextInv == IInv /\ [Next]_vars => IInv'
<1> SUFFICES ASSUME IInv, [Next]_vars
             PROVE  IInv'
  OBVIOUS
<1>1. CASE BeginRun \/ EndRun
  BY <1>1, RunInv
<1>2. CASE Define
  BY <1>2, DefineInv
<1>3. CASE Drop
  BY <1>3, DropInv
<1>4. CASE ExportVar \/ ExportFunction
  BY <1>4, ExportInv
<1>5. CASE FailImport
  BY <1>5, FailInv
<1>6. CASE \E captured \in BOOLEAN : Close(captured)
  BY <1>6, CloseInv
<1>7. CASE \E keep \in BOOLEAN : EndImport(keep)
  BY <1>7, EndInv
<1>8. CASE \E f \in Files, isolated, keep \in BOOLEAN : ImportCached(f, isolated, keep)
  BY <1>8, ImportCachedInv
<1>9. CASE \E f \in Files, isolated \in BOOLEAN : BeginImport(f, isolated)
  BY <1>9, BeginInv
<1>10. CASE \E f \in Files, isolated \in BOOLEAN : ImportUnreadable(f, isolated)
  BY <1>10, UnreadableInv
<1>11. CASE \E p \in Plugins, how \in {"unloaded", "unbound", "ok"} : LoadPlugin(p, how)
  BY <1>11, PluginInv
<1>12. CASE UNCHANGED vars
  <2>1. UNCHANGED <<mem, cur, stack, imports, loaded, made, cyclic>>
    BY <1>12 DEF vars
  <2>2. IsMem(mem', loaded') /\ SameIds(mem, mem')
    BY <2>1 DEF IInv, Typed, SameIds
  <2> QED
    BY <2>1, <2>2, QuietInv
<1> QED
  BY <1>1, <1>2, <1>3, <1>4, <1>5, <1>6, <1>7, <1>8, <1>9, <1>10, <1>11, <1>12 DEF Next, Step

LEMMA IAlways == Spec => []IInv
BY InitInv, NextInv, PTL DEF Spec

(* However deep modules import modules and wherever one of them fails      *)
(* (ts_run_script_file_in_env and its struct assignments around the run),  *)
(* every exchanged struct is where its scope belongs.                      *)
THEOREM StructsInPlace == Spec => []ScopesInPlace
<1>1. IInv => ScopesInPlace
  BY DEF IInv
<1> QED
  BY <1>1, IAlways, PTL

(* The list of imports records for a file what that file exported, and     *)
(* ts_rebind_function_closures leaves no export of a module at the address *)
(* of the context.                                                         *)
THEOREM ExportsHome == Spec => []ExportsAtHome
<1>1. IInv => ExportsAtHome
  BY DEF IInv
<1> QED
  BY <1>1, IAlways, PTL

(* The list is searched before a file is read and extended after it has    *)
(* run: only an import inside a run of the same file makes a second entry. *)
THEOREM RunOnce == Spec => []ImportedOnce
<1>1. IInv => ImportedOnce
  BY DEF IInv
<1> QED
  BY <1>1, IAlways, PTL

LEMMA LAlways == Spec => [](IInv /\ LInv)
<1>1. Init => IInv /\ LInv
  BY InitInv, InitLinks
<1>2. (IInv /\ LInv) /\ [Next]_vars => (IInv /\ LInv)'
  BY NextInv, NextLinks
<1> QED
  BY <1>1, <1>2, PTL DEF Spec

(* exprtk_env_snapshot_names links every snapshot to the struct of the     *)
(* host's script, wherever the exchanges have put it: lookups end from     *)
(* every scope, and exprtk_env_sweep_closures and the end of the context   *)
(* see every scope that was not freed, once.                               *)
THEOREM ChainsWhole == Spec => []ChainComplete
<1>1. IInv /\ LInv => ChainComplete
  <2> SUFFICES ASSUME LInv
               PROVE  ChainComplete
    OBVIOUS
  <2>1. LookupsEnd
    BY LookupEnds DEF LInv, LookupsEnd, Live
  <2>2. ASSUME ~running
        PROVE  LET chain == Closures(mem, Ctx)
               IN  ToSet(chain) = Live \ {Ctx} /\ Len(chain) = Cardinality(Live) - 1
    <3>1. stack = <<>>
      BY <2>2 DEF LInv
    <3>2. Mods \cup {Ctx} = {Ctx}
      BY <3>1 DEF Mods
    <3> QED
      BY <3>2, ChainWhole DEF LInv
  <2> QED
    BY <2>1, <2>2 DEF ChainComplete
<1> QED
  BY <1>1, LAlways, PTL

LEMMA InitRefs == Init => DInv
<1> SUFFICES ASSUME Init
             PROVE  DInv
  OBVIOUS
<1>1. stack = <<>> /\ imports = <<>> /\ Mods = {} /\ cur.exports = Number
  BY DEF Init, Mods, NotImporting
<1>2. ASSUME NEW a \in Addrs
      PROVE  /\ mem[a].id = a /\ (mem[a].live <=> a = Ctx) /\ mem[a].ref = 0
             /\ mem[a].fn = Number /\ mem[a].v = Number
  BY DEF Init, NewScope
<1>3. Refs(mem)
  BY <1>2 DEF Refs
<1>4. Counted(mem, Mods, stack, cur, imports, strayed)
  BY <1>2 DEF Counted
<1>5. Fns(mem, Mods, made) /\ Waits(mem, Mods)
  BY <1>1, <1>2 DEF Fns, Waits
<1>6. Len(stack) = 0 /\ Len(imports) = 0
  BY <1>1
<1>7. Clones(mem, Mods, made, imports, strayed)
  BY <1>6 DEF Clones
<1>8. ASSUME NEW x, Keeps(mem, stack, cur, imports, x)
      PROVE  x = Number
  <2>1. \A k \in 0..Len(stack) : Exported(stack, cur, k) = Number
    BY <1>1, <1>6 DEF Exported
  <2>2. \A k \in 1..Len(imports) : FALSE
    BY <1>6
  <2> QED
    BY <1>2, <1>8, <2>1, <2>2 DEF Keeps
<1>9. Kept(mem, Mods, made, stack, cur, imports, strayed)
  BY <1>5, <1>7, <1>8, NumberSound DEF Kept
<1> QED
  BY <1>3, <1>4, <1>9 DEF DInv

LEMMA NextRefs == IInv /\ LInv /\ DInv /\ [Next]_vars => DInv'
<1> SUFFICES ASSUME IInv, LInv, DInv, [Next]_vars
             PROVE  DInv'
  OBVIOUS
<1>0. Typed'
  BY NextInv DEF IInv
<1>1. CASE UNCHANGED vars
  <2>1. UNCHANGED <<mem, cur, stack, imports, made, strayed>>
    BY <1>1 DEF vars
  <2>2. (\A b \in Addrs : SameScope(mem[b], mem'[b])) /\ strayed \subseteq strayed'
    BY <2>1 DEF SameScope
  <2> QED
    BY <2>1, <2>2, QuietRefs
<1>2. CASE Next
  <2>0. Step /\ strayed \subseteq strayed' /\ Astray' \subseteq strayed'
    BY <1>2 DEF Next
  <2>1. CASE BeginRun \/ EndRun
    BY <2>0, <2>1, RunRefs
  <2>2. CASE Define
    BY <2>0, <2>2, DefineRefs
  <2>3. CASE Drop
    BY <2>0, <2>3, DropRefs
  <2>4. CASE ExportVar \/ ExportFunction
    BY <2>0, <2>4, ExportRefs
  <2>5. CASE FailImport
    BY <1>0, <2>0, <2>5, FailRefs
  <2>6. CASE \E captured \in BOOLEAN : Close(captured)
    BY <2>0, <2>6, CloseRefs
  <2>7. CASE \E keep \in BOOLEAN : EndImport(keep)
    BY <1>0, <2>0, <2>7, EndRefs
  <2>8. CASE \E f \in Files, isolated, keep \in BOOLEAN : ImportCached(f, isolated, keep)
    BY <2>0, <2>8, CachedRefs
  <2>9. CASE \E f \in Files, isolated \in BOOLEAN : BeginImport(f, isolated)
    BY <1>0, <2>0, <2>9, BeginRefs
  <2>10. CASE \E f \in Files, isolated \in BOOLEAN : ImportUnreadable(f, isolated)
    BY <2>0, <2>10, UnreadableRefs
  <2>11. CASE \E p \in Plugins, how \in {"unloaded", "unbound", "ok"} : LoadPlugin(p, how)
    BY <2>0, <2>11, PluginRefs
  <2> QED
    BY <2>0, <2>1, <2>2, <2>3, <2>4, <2>5, <2>6, <2>7, <2>8, <2>9, <2>10, <2>11 DEF Step
<1> QED
  BY <1>1, <1>2

LEMMA DAlways == Spec => [](IInv /\ LInv /\ DInv)
<1>1. Init => IInv /\ LInv /\ DInv
  BY InitInv, InitLinks, InitRefs
<1>2. (IInv /\ LInv /\ DInv) /\ [Next]_vars => (IInv /\ LInv /\ DInv)'
  BY NextInv, NextLinks, NextRefs
<1> QED
  BY <1>1, <1>2, PTL DEF Spec

(* No scope is freed that a function value still names: whatever is        *)
(* defined, captured, exported and imported, fails or is dropped, in       *)
(* whatever order, the counts that exprtk_env_sweep_closures relies on     *)
(* are at least the number of values that name the scope (they are more    *)
(* than that: the code keeps references that it never releases), unless a  *)
(* value of another scope has named it, as the exchange of the structs     *)
(* makes possible.                                                         *)
THEOREM NamedAlive == Spec => []NoDangling
<1>1. IInv /\ DInv => NoDangling
  <2> SUFFICES ASSUME IInv, DInv, NEW x \in Held, x.at # None, x.at = x.home, x.at \notin strayed
               PROVE  mem[x.at].live
    BY DEF NoDangling
  <2>1. Keeps(mem, stack, cur, imports, x)
    BY HeldIs DEF IInv
  <2>2. Sound(mem, Mods, made, strayed, x)
    BY <2>1 DEF DInv, Kept
  <2> QED
    BY <2>2 DEF Sound
<1> QED
  BY <1>1, DAlways, PTL

=============================================================================
