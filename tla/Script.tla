------------------------------- MODULE Script -------------------------------
(***************************************************************************)
(* The fragment of the script language the engine modules share: numbers,  *)
(* variables, constants, the control statements and exceptions.  A node is *)
(* a record whose field t names its kind (exprtk_node_type_t).  The module *)
(* also holds the chain of scopes of an environment and Meaning, a         *)
(* reference definition of what a program does to its variables, written   *)
(* from the language guide and independent of the three engines.           *)
(***************************************************************************)
EXTENDS Integers, Sequences, FiniteSets

CONSTANT MaxLoops            \* exprtk_env_t.max_loop_iterations

Num(n) == [t |-> "num", n |-> n]
Var(x) == [t |-> "var", x |-> x]
Assign(x, e) == [t |-> "assign", x |-> x, e |-> e]
Const(x, e) == [t |-> "const", x |-> x, e |-> e]
Bin(o, l, r) == [t |-> "bin", o |-> o, l |-> l, r |-> r]
Block(s) == [t |-> "block", s |-> s]
If(c, a, b) == [t |-> "if", c |-> c, a |-> a, b |-> b]
While(c, b) == [t |-> "while", c |-> c, b |-> b]
DoWhile(b, c) == [t |-> "do", c |-> c, b |-> b]
For(i, c, p, b) == [t |-> "for", i |-> i, c |-> c, p |-> p, b |-> b]
ForIn(x, v, b) == [t |-> "forin", x |-> x, v |-> v, b |-> b]
Switch(e, cases, d) == [t |-> "switch", e |-> e, s |-> cases, d |-> d]
Flow(k) == [t |-> "flow", k |-> k]
Throw(e) == [t |-> "throw", e |-> e]
Try(b, x, c) == [t |-> "try", b |-> b, x |-> x, c |-> c]
Skip == Block(<<>>)

\* The direct descendants of a node.
Children(n) ==
  CASE n.t \in {"num", "var", "flow"} -> {}
    [] n.t \in {"assign", "const", "throw"} -> {n.e}
    [] n.t = "bin" -> {n.l, n.r}
    [] n.t = "block" -> {n.s[k] : k \in DOMAIN n.s}
    [] n.t = "if" -> {n.c, n.a, n.b}
    [] n.t \in {"while", "do"} -> {n.c, n.b}
    [] n.t = "for" -> {n.i, n.c, n.p, n.b}
    [] n.t = "forin" -> {n.b}
    [] n.t = "switch" -> {n.e, n.d} \cup UNION {{n.s[k].e, n.s[k].b} : k \in DOMAIN n.s}
    [] n.t = "try" -> {n.b, n.c}

RECURSIVE Nodes(_)
Nodes(n) == {n} \cup UNION {Nodes(c) : c \in Children(n)}

\* The names a program mentions.
Names(n) == {m.x : m \in {k \in Nodes(n) : k.t \in {"var", "assign", "const", "forin", "try"}}} \ {""}

-----------------------------------------------------------------------------
(* An environment is a chain of scopes, innermost first; a scope maps the  *)
(* names it defines to a value and to whether the name is a constant.      *)

NoNames == [x \in {} |-> 0]
Bind(scope, x, n, c) ==
  [y \in DOMAIN scope \cup {x} |-> IF y = x THEN [n |-> n, const |-> c] ELSE scope[y]]

Defining(env, x) == {k \in DOMAIN env : x \in DOMAIN env[k]}
Nearest(env, x) == CHOOSE k \in Defining(env, x) : \A j \in Defining(env, x) : k <= j

EnvGet(env, x) == IF Defining(env, x) = {} THEN 0 ELSE env[Nearest(env, x)][x].n

\* Assign in the nearest scope that has the name, in the current one if none
\* has; an assignment to a constant is ignored.
EnvSet(env, x, n) ==
  IF Defining(env, x) = {} THEN [env EXCEPT ![1] = Bind(@, x, n, FALSE)]
  ELSE LET k == Nearest(env, x)
       IN IF env[k][x].const THEN env ELSE [env EXCEPT ![k] = Bind(@, x, n, FALSE)]

EnvSetLocal(env, x, n) ==
  IF x \in DOMAIN env[1] /\ env[1][x].const THEN env
  ELSE [env EXCEPT ![1] = Bind(@, x, n, FALSE)]

EnvSetConstant(env, x, n) ==
  LET e == EnvSet(env, x, n)
  IN IF x \in DOMAIN e[1] THEN [e EXCEPT ![1][x].const = TRUE] ELSE e

\* What the binary operators compute on numbers.
Apply(o, a, b) ==
  CASE o = "+" -> a + b
    [] o = "<" -> IF a < b THEN 1 ELSE 0
    [] o = "==" -> IF a = b THEN 1 ELSE 0
    [] o = "&&" -> IF a # 0 /\ b # 0 THEN 1 ELSE 0
    [] o = "||" -> IF a # 0 \/ b # 0 THEN 1 ELSE 0

Truthy(v) == v # 0

-----------------------------------------------------------------------------
(* The reference: a node takes an environment to an environment, a value   *)
(* and a completion: normal, break, continue, return, throw, or limit for  *)
(* a program that loops more than MaxLoops times.                          *)

Done(env, v, how) == [env |-> env, v |-> v, how |-> how]

RECURSIVE Meaning(_, _), MeaningOfSeq(_, _), MeaningOfLoop(_, _, _), MeaningOfEach(_, _, _),
          MeaningOfCases(_, _, _, _)

\* One more round of a loop; k rounds have been made.  The step (post) of a
\* for loop runs after a body that ended normally or with continue, a do loop
\* makes its first round without a test.
MeaningOfLoop(n, env, k) ==
  LET c == IF n.t = "do" /\ k = 0 THEN Done(env, 1, "normal") ELSE Meaning(n.c, env)
  IN IF c.how # "normal" THEN c
     ELSE IF ~Truthy(c.v) THEN Done(c.env, 0, "normal")
     ELSE IF k > MaxLoops THEN Done(c.env, 0, "limit")
     ELSE LET b == Meaning(n.b, c.env)
          IN CASE b.how = "break" -> Done(b.env, 0, "normal")
               [] b.how \in {"return", "throw", "limit"} -> b
               [] OTHER -> LET p == IF n.t = "for" THEN Meaning(n.p, b.env) ELSE b
                           IN MeaningOfLoop(n, p.env, k + 1)

MeaningOfEach(n, env, items) ==
  IF items = <<>> THEN Done(env, 0, "normal")
  ELSE LET b == Meaning(n.b, EnvSet(env, n.x, Head(items)))
       IN CASE b.how = "break" -> Done(b.env, 0, "normal")
            [] b.how \in {"return", "throw", "limit"} -> b
            [] OTHER -> MeaningOfEach(n, b.env, Tail(items))

MeaningOfSeq(s, env) ==
  IF s = <<>> THEN Done(env, 0, "normal")
  ELSE LET a == Meaning(Head(s), env)
       IN IF a.how # "normal" THEN a ELSE MeaningOfSeq(Tail(s), a.env)

MeaningOfCases(n, v, env, k) ==
  IF k > Len(n.s) THEN Meaning(n.d, env)
  ELSE LET c == Meaning(n.s[k].e, env)
       IN IF c.v = v THEN Meaning(n.s[k].b, c.env) ELSE MeaningOfCases(n, v, c.env, k + 1)

Meaning(n, env) ==
  CASE n.t = "num" -> Done(env, n.n, "normal")
    [] n.t = "var" -> Done(env, EnvGet(env, n.x), "normal")
    [] n.t = "assign" -> LET a == Meaning(n.e, env)
                         IN Done(EnvSet(a.env, n.x, a.v), a.v, "normal")
    [] n.t = "const" -> LET a == Meaning(n.e, env)
                        IN Done(EnvSetConstant(a.env, n.x, a.v), a.v, "normal")
    [] n.t = "bin" ->
         LET a == Meaning(n.l, env)
             b == Meaning(n.r, a.env)
         IN CASE n.o = "&&" /\ ~Truthy(a.v) -> Done(a.env, 0, "normal")
              [] n.o = "||" /\ Truthy(a.v) -> Done(a.env, 1, "normal")
              [] OTHER -> Done(b.env, Apply(n.o, a.v, b.v), "normal")
    [] n.t = "block" -> MeaningOfSeq(n.s, env)
    [] n.t = "if" -> LET c == Meaning(n.c, env)
                     IN Meaning(IF Truthy(c.v) THEN n.a ELSE n.b, c.env)
    [] n.t \in {"while", "do"} -> MeaningOfLoop(n, env, 0)
    [] n.t = "for" -> MeaningOfLoop(n, Meaning(n.i, env).env, 0)
    [] n.t = "forin" -> MeaningOfEach(n, env, n.v)
    [] n.t = "switch" -> LET e == Meaning(n.e, env) IN MeaningOfCases(n, e.v, e.env, 1)
    [] n.t = "flow" -> Done(env, 0, n.k)
    [] n.t = "throw" -> LET a == Meaning(n.e, env)
                        IN IF a.how = "limit" THEN a ELSE Done(a.env, a.v, "throw")
    [] n.t = "try" ->
         LET b == Meaning(n.b, env)
         IN IF b.how # "throw" THEN b
            ELSE LET c == Meaning(n.c, EnvSetLocal(<<NoNames>> \o b.env, n.x, b.v))
                 IN Done(Tail(c.env), c.v, c.how)
=============================================================================
