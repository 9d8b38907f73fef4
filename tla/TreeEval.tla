------------------------------ MODULE TreeEval ------------------------------
(***************************************************************************)
(* The tree evaluator, exprtk_eval: one recursive function over the AST    *)
(* that keeps the pending control flow, the abort flag and the counters of *)
(* the limits in the environment.  An evaluation state holds what          *)
(* exprtk_env_t holds: env (the chain of scopes), flow, err (error_value), *)
(* aborted, nodes (curr_nodes), loops (curr_loop_iterations), and v, the   *)
(* value the last call returned.                                           *)
(***************************************************************************)
EXTENDS Script

CONSTANT MaxNodes            \* exprtk_env_t.max_nodes

Fresh(scope) == [env |-> <<scope>>, flow |-> "normal", err |-> 0, aborted |-> FALSE,
                 nodes |-> 0, loops |-> 0, v |-> 0, fail |-> FALSE]

Zero(st) == [st EXCEPT !.v = 0]
Value(st, n) == [st EXCEPT !.v = n]

\* eval_loop_tick
LoopTick(st) == [st EXCEPT !.loops = @ + 1, !.aborted = @ \/ st.loops + 1 > MaxLoops]

\* A child scope for the catch block: its flow starts normal and its counters
\* where the parent's stand; on the way out flow, error and abort come back.
CatchScope(st, x) ==
  [st EXCEPT !.env = IF x = "" THEN <<NoNames>> \o @ ELSE EnvSetLocal(<<NoNames>> \o @, x, st.err),
             !.flow = "normal", !.aborted = FALSE]
LeaveCatch(st) == [st EXCEPT !.env = Tail(@)]

RECURSIVE TreeEval(_, _), TreeSeq(_, _), TreeWhile(_, _), TreeDoWhile(_, _), TreeFor(_, _),
          TreeForIn(_, _, _), TreeCases(_, _, _, _)

TreeSeq(s, st) ==
  IF s = <<>> THEN st
  ELSE LET a == TreeEval(Head(s), st)
       IN IF a.flow # "normal" \/ a.aborted THEN a ELSE TreeSeq(Tail(s), a)

\* Mutant: a continue that nobody clears.
TreeWhileKeepsContinue(n, st) ==
  IF st.flow # "normal" THEN st
  ELSE LET c == TreeEval(n.c, st)
           t == LoopTick(c)
           b == TreeEval(n.b, t)
       IN CASE c.aborted \/ ~Truthy(c.v) -> c
            [] t.aborted -> t
            [] b.flow = "break" -> [b EXCEPT !.flow = "normal"]
            [] OTHER -> TreeWhile(n, b)

TreeWhile(n, st) ==
  IF st.flow \notin {"normal", "continue"} THEN st
  ELSE LET c == TreeEval(n.c, [st EXCEPT !.flow = "normal"])
           t == LoopTick(c)
           b == TreeEval(n.b, t)
       IN CASE c.flow # "normal" \/ c.aborted \/ ~Truthy(c.v) -> c
            [] t.aborted -> t
            [] b.flow = "break" -> [b EXCEPT !.flow = "normal"]
            [] b.flow = "return" -> b
            [] OTHER -> TreeWhile(n, b)

TreeDoWhile(n, st) ==
  LET b == TreeEval(n.b, st)
      c == TreeEval(n.c, [b EXCEPT !.flow = IF @ = "continue" THEN "normal" ELSE @])
      t == LoopTick(c)
  IN CASE b.flow = "break" -> [b EXCEPT !.flow = "normal"]
       [] b.flow = "return" -> b
       [] c.flow # "normal" \/ c.aborted \/ ~Truthy(c.v) -> c
       [] t.aborted -> t
       [] OTHER -> TreeDoWhile(n, t)

\* The rounds of a for loop, after its initialiser.  The step is evaluated
\* with a pending continue still set; only then is it cleared.
TreeFor(n, st) ==
  LET c == TreeEval(n.c, st)
      t == LoopTick(c)
      b == TreeEval(n.b, t)
      p == TreeEval(n.p, b)
  IN CASE c.flow # "normal" \/ c.aborted \/ ~Truthy(c.v) -> c
       [] t.aborted -> t
       [] b.flow = "break" -> [b EXCEPT !.flow = "normal"]
       [] b.flow = "return" -> b
       [] p.flow \notin {"normal", "continue"} -> p
       [] OTHER -> TreeFor(n, [p EXCEPT !.flow = "normal"])

\* A throw in the body is not looked at until the collection is exhausted.
TreeForIn(n, st, items) ==
  IF items = <<>> THEN st
  ELSE LET t == LoopTick(st)
           b == TreeEval(n.b, [t EXCEPT !.env = EnvSet(@, n.x, Head(items))])
       IN CASE t.aborted -> t
            [] b.flow = "break" -> [b EXCEPT !.flow = "normal"]
            [] b.flow = "return" -> b
            [] b.flow = "continue" -> TreeForIn(n, [b EXCEPT !.flow = "normal"], Tail(items))
            [] OTHER -> TreeForIn(n, b, Tail(items))

TreeCases(n, st, v, k) ==
  IF k > Len(n.s) THEN TreeEval(n.d, st)
  ELSE LET c == TreeEval(n.s[k].e, st)
       IN CASE c.flow # "normal" -> Zero(c)
            [] c.v = v -> TreeEval(n.s[k].b, c)
            [] OTHER -> TreeCases(n, c, v, k + 1)

TreeAssign(n, st) ==
  LET a == TreeEval(n.e, st)
      env == IF n.t = "const" THEN EnvSetConstant(a.env, n.x, a.v) ELSE EnvSet(a.env, n.x, a.v)
  IN [a EXCEPT !.env = env, !.v = EnvGet(env, n.x)]

\* Both operands are evaluated, of && and || too.
TreeBinary(n, st) ==
  LET l == TreeEval(n.l, st)
      r == TreeEval(n.r, l)
  IN CASE l.flow # "normal" -> Zero(l)
       [] r.flow # "normal" -> Zero(r)
       [] OTHER -> Value(r, Apply(n.o, l.v, r.v))

TreeTry(n, st) ==
  LET b == TreeEval(n.b, st)
  IN IF b.flow = "throw" THEN LeaveCatch(TreeEval(n.c, CatchScope(b, n.x))) ELSE b

TreeNode(n, st) ==
  CASE n.t = "num" -> Value(st, n.n)
    [] n.t = "var" -> Value(st, EnvGet(st.env, n.x))
    [] n.t \in {"assign", "const"} -> TreeAssign(n, st)
    [] n.t = "bin" -> TreeBinary(n, st)
    [] n.t = "block" -> TreeSeq(n.s, Zero(st))
    [] n.t = "if" -> LET c == TreeEval(n.c, st)
                     IN IF c.flow # "normal" THEN Zero(c)
                        ELSE TreeEval(IF Truthy(c.v) THEN n.a ELSE n.b, c)
    [] n.t = "while" -> TreeWhile(n, st)
    [] n.t = "do" -> TreeDoWhile(n, st)
    [] n.t = "for" -> LET i == TreeEval(n.i, st)
                      IN IF i.flow # "normal" \/ i.aborted THEN Zero(i) ELSE TreeFor(n, i)
    [] n.t = "forin" -> TreeForIn(n, st, n.v)
    [] n.t = "switch" -> LET e == TreeEval(n.e, st)
                         IN IF e.flow # "normal" THEN Zero(e) ELSE TreeCases(n, e, e.v, 1)
    [] n.t = "flow" -> [st EXCEPT !.flow = n.k, !.v = 0]
    [] n.t = "throw" -> LET a == TreeEval(n.e, st)
                        IN [a EXCEPT !.flow = "throw", !.err = a.v]
    [] n.t = "try" -> TreeTry(n, st)

\* The entry of exprtk_eval: nothing runs once aborted, and every node counts.
TreeEval(n, st) ==
  LET s == [st EXCEPT !.nodes = @ + 1]
  IN CASE st.aborted -> Zero(st)
       [] ~st.aborted /\ s.nodes > MaxNodes -> Zero([s EXCEPT !.aborted = TRUE])
       [] OTHER -> TreeNode(n, s)
=============================================================================
