----------------------------- MODULE ValueEval ------------------------------
(***************************************************************************)
(* The value evaluator of the MIR runtime, ts_mir_runtime_value_arg: the   *)
(* bodies of script functions and every node the lowering hands to a       *)
(* runtime helper.  It works on the environment the tree evaluator works   *)
(* on; in addition a call may fail (the C function returns 0), and the     *)
(* failure travels to the first caller that is not the evaluator.          *)
(***************************************************************************)
EXTENDS TreeEval

RECURSIVE ValueEval(_, _), ValueSeq(_, _), ValueWhile(_, _), ValueDoWhile(_, _), ValueFor(_, _),
          ValueForIn(_, _, _), ValueCases(_, _, _, _)

\* ts_mir_runtime_body_flow_done: what a body leaves behind, and whether the
\* loop ends.
BodyFlow(st) == [st EXCEPT !.flow = IF @ \in {"break", "continue"} THEN "normal" ELSE @]
BodyEnds(st) == st.flow \in {"break", "return", "throw"} \/ (st.flow # "continue" /\ st.aborted)

ValueSeq(s, st) ==
  IF s = <<>> THEN st
  ELSE LET a == ValueEval(Head(s), st)
       IN IF a.fail \/ a.flow # "normal" \/ a.aborted THEN a ELSE ValueSeq(Tail(s), a)

ValueWhile(n, st) ==
  IF st.flow \notin {"normal", "continue"} THEN st
  ELSE LET c == ValueEval(n.c, [st EXCEPT !.flow = "normal"])
           t == LoopTick(c)
           b == ValueEval(n.b, t)
       IN CASE c.fail \/ c.flow # "normal" \/ c.aborted \/ ~Truthy(c.v) -> c
            [] t.aborted -> t
            [] b.fail -> b
            [] BodyEnds(b) -> BodyFlow(b)
            [] OTHER -> ValueWhile(n, BodyFlow(b))

ValueDoWhile(n, st) ==
  LET b == ValueEval(n.b, st)
      c == ValueEval(n.c, [b EXCEPT !.flow = "normal"])
      t == LoopTick(c)
  IN CASE b.fail -> b
       [] b.flow = "break" -> [b EXCEPT !.flow = "normal"]
       [] b.flow \in {"return", "throw"} \/ b.aborted -> b
       [] c.fail \/ c.flow # "normal" \/ c.aborted \/ ~Truthy(c.v) -> c
       [] t.aborted -> t
       [] OTHER -> ValueDoWhile(n, t)

\* Mutant: a continue that skips the step of a for loop.
ValueForSkipsStep(n, st) ==
  LET c == ValueEval(n.c, st)
      t == LoopTick(c)
      b == ValueEval(n.b, t)
      p == IF b.flow = "continue" THEN b ELSE ValueEval(n.p, b)
  IN CASE c.fail \/ c.flow # "normal" \/ c.aborted \/ ~Truthy(c.v) -> c
       [] t.aborted -> t
       [] b.flow = "break" -> [b EXCEPT !.flow = "normal"]
       [] b.fail \/ b.flow \in {"return", "throw"} \/ b.aborted -> b
       [] OTHER -> ValueFor(n, [p EXCEPT !.flow = "normal"])

\* The step is evaluated with a pending continue still set, but the operators
\* of this evaluator do not look at it.
ValueFor(n, st) ==
  LET c == ValueEval(n.c, st)
      t == LoopTick(c)
      b == ValueEval(n.b, t)
      p == ValueEval(n.p, b)
  IN CASE c.fail \/ c.flow # "normal" \/ c.aborted \/ ~Truthy(c.v) -> c
       [] t.aborted -> t
       [] b.fail -> b
       [] b.flow = "break" -> [b EXCEPT !.flow = "normal"]
       [] b.flow \in {"return", "throw"} \/ b.aborted -> b
       [] p.fail \/ p.flow \notin {"normal", "continue"} -> p
       [] p.aborted -> [p EXCEPT !.flow = "normal"]
       [] OTHER -> ValueFor(n, [p EXCEPT !.flow = "normal"])

ValueForIn(n, st, items) ==
  IF items = <<>> THEN st
  ELSE LET t == LoopTick(st)
           b == ValueEval(n.b, [t EXCEPT !.env = EnvSet(@, n.x, Head(items))])
       IN CASE t.aborted -> t
            [] b.fail -> b
            [] BodyEnds(b) -> BodyFlow(b)
            [] OTHER -> ValueForIn(n, BodyFlow(b), Tail(items))

ValueCases(n, st, v, k) ==
  IF k > Len(n.s) THEN ValueEval(n.d, st)
  ELSE LET c == ValueEval(n.s[k].e, st)
       IN CASE c.fail -> c
            [] c.flow # "normal" \/ c.aborted -> Zero(c)
            [] c.v = v -> ValueEval(n.s[k].b, c)
            [] OTHER -> ValueCases(n, c, v, k + 1)

\* Both operands are evaluated whatever the first one left pending.
ValueBinary(n, st) ==
  LET l == ValueEval(n.l, st)
      r == ValueEval(n.r, l)
  IN IF l.fail THEN l ELSE IF r.fail THEN r ELSE Value(r, Apply(n.o, l.v, r.v))

\* Mutant: a try that also catches the end of a run at a limit.
ValueTryCatchesAbort(n, st) ==
  LET b == ValueEval(n.b, st)
  IN IF b.flow # "throw" /\ ~b.aborted THEN b
     ELSE LeaveCatch(ValueEval(n.c, CatchScope([b EXCEPT !.fail = FALSE], n.x)))

\* When the catch block itself fails, its counters and its abort flag are
\* dropped with its scope.
ValueTry(n, st) ==
  LET b == ValueEval(n.b, st)
      c == ValueEval(n.c, CatchScope(b, n.x))
  IN CASE b.fail \/ b.flow # "throw" -> b
       [] b.flow = "throw" /\ c.fail -> [b EXCEPT !.env = Tail(c.env), !.flow = "normal", !.fail = TRUE]
       [] OTHER -> LeaveCatch(c)

ValueAssign(n, st) ==
  LET a == ValueEval(n.e, st)
      env == IF n.t = "const" THEN EnvSetConstant(a.env, n.x, a.v) ELSE EnvSet(a.env, n.x, a.v)
  IN IF a.fail THEN a ELSE [a EXCEPT !.env = env, !.v = EnvGet(env, n.x)]

\* The condition of an if is used even when evaluating it left a throw pending.
ValueIf(n, st) ==
  LET c == ValueEval(n.c, st)
  IN IF c.fail THEN c ELSE ValueEval(IF Truthy(c.v) THEN n.a ELSE n.b, c)

ValueNode(n, st) ==
  CASE n.t = "num" -> Value(st, n.n)
    [] n.t = "var" -> Value(st, EnvGet(st.env, n.x))
    [] n.t \in {"assign", "const"} -> ValueAssign(n, st)
    [] n.t = "bin" -> ValueBinary(n, st)
    [] n.t = "block" -> ValueSeq(n.s, Zero(st))
    [] n.t = "if" -> ValueIf(n, st)
    [] n.t = "while" -> ValueWhile(n, st)
    [] n.t = "do" -> ValueDoWhile(n, st)
    [] n.t = "for" -> LET i == ValueEval(n.i, st)
                      IN CASE i.fail -> i
                           [] i.flow # "normal" \/ i.aborted -> Zero(i)
                           [] OTHER -> ValueFor(n, i)
    [] n.t = "forin" -> ValueForIn(n, st, n.v)
    [] n.t = "switch" -> LET e == ValueEval(n.e, st)
                         IN CASE e.fail -> e
                              [] e.flow # "normal" \/ e.aborted -> Zero(e)
                              [] OTHER -> ValueCases(n, e, e.v, 1)
    [] n.t = "flow" -> [st EXCEPT !.flow = n.k, !.v = 0]
    [] n.t = "throw" -> LET a == ValueEval(n.e, st)
                        IN IF a.fail THEN a ELSE [a EXCEPT !.flow = "throw", !.err = a.v]
    [] n.t = "try" -> ValueTry(n, st)

\* The entry of ts_mir_runtime_value_arg: every node counts; the abort flag is
\* not looked at.
ValueEval(n, st) ==
  LET s == [st EXCEPT !.nodes = @ + 1]
  IN IF s.nodes > MaxNodes THEN [s EXCEPT !.aborted = TRUE, !.fail = TRUE] ELSE ValueNode(n, s)
=============================================================================
