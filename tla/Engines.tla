------------------------------ MODULE Engines -------------------------------
(***************************************************************************)
(* One context: the host sets variables and runs a program, which is       *)
(* lowered and executed as MIR code on the context's environment.  The     *)
(* program is also given to the tree evaluator and to the value evaluator  *)
(* on a copy of the environment the run started from, so that what the     *)
(* three make of it can be compared with the reference meaning.            *)
(***************************************************************************)
EXTENDS Lowering

CONSTANTS Programs, SetNames, SetValues, MaxRuns

VARIABLES
  scope,       \* the variables of the context (root scope of ctx->env)
  before,      \* those the last run started from
  program,     \* the program of the host
  out,         \* what each engine made of it
  runs

vars == <<scope, before, program, out, runs>>

\* ts_jit_finish_runtime_state: a run failed if the abort flag or a throw is
\* left; a run of the native code that never ends is reported as "hung".
Outcome(st) ==
  [env |-> st.env[1],
   status |-> CASE st.fail -> "hung"
                [] ~st.fail /\ (st.aborted \/ st.flow = "throw") -> "error"
                [] OTHER -> "ok",
   limit |-> st.loops > MaxLoops \/ st.nodes > MaxNodes]

\* turbo_script_mir_eval_node: a failed evaluation is a run error.
EvalNode(n, sc) ==
  LET a == ValueEval(n, Fresh(sc))
  IN Outcome([a EXCEPT !.fail = FALSE, !.aborted = @ \/ a.fail])

\* What the program should do.
Expected(n, sc) ==
  LET r == Meaning(n, <<sc>>)
  IN [env |-> r.env[1], status |-> IF r.how = "throw" THEN "error" ELSE "ok",
      limit |-> r.how = "limit"]

Init ==
  /\ scope = NoNames
  /\ before = NoNames
  /\ program \in Programs
  /\ out = [e \in {"native", "tree", "value", "meaning"} |-> Outcome(Fresh(NoNames))]
  /\ runs = 0

SetVar(x, n) ==
  /\ runs < MaxRuns
  /\ scope' = EnvSet(<<scope>>, x, n)[1]
  /\ scope' # scope
  /\ UNCHANGED <<before, program, out, runs>>

Run ==
  /\ runs < MaxRuns
  /\ out' = [native |-> Outcome(NativeRun(Compile(program), program, scope)),
             tree |-> Outcome(TreeEval(program, Fresh(scope))),
             value |-> EvalNode(program, scope), meaning |-> Expected(program, scope)]
  /\ scope' = out'.native.env
  /\ before' = scope
  /\ runs' = runs + 1
  /\ UNCHANGED program

Next ==
  \/ \E x \in SetNames, n \in SetValues : SetVar(x, n)
  \/ Run

Spec == Init /\ [][Next]_vars

-----------------------------------------------------------------------------
(* The parts of the language on which an engine is expected to agree with  *)
(* the reference.                                                          *)

Within(n, kinds) == UNION {Nodes(m) : m \in {k \in Nodes(n) : k.t \in kinds}}
Writes(n) == \E m \in Nodes(n) : m.t \in {"assign", "const"}
Has(S, kind) == \E m \in S : m.t = kind
HasFlow(S, kind) == \E m \in S : m.t = "flow" /\ m.k = kind

\* No operand is evaluated for its effect.
PureOperands(n) == \A m \in Nodes(n) : m.t = "bin" => ~Writes(m.r)

\* The evaluators keep a new name of a catch block in the block.
CatchScoped(n, sc) ==
  \A m \in Nodes(n) : m.t = "try" =>
    \A a \in Nodes(m.c) : a.t \in {"assign", "const"} => a.x \in DOMAIN sc

\* The nodes that are lowered to instructions: not those inside a node that is
\* left to the value evaluator.
Helped == {"try", "throw", "forin"}
RECURSIVE Lowered(_)
Lowered(n) == {n} \cup (IF n.t \in Helped THEN {}
                        ELSE UNION {Lowered(c) : c \in Children(n)})
Branching == {"if", "while", "for", "do", "switch"}

\* The synchronisation follows the text: it is exact when no helper call is
\* under a branch or a loop and no return is in a loop.
Straight(n) ==
  \A m \in Lowered(n) :
    /\ m.t \in Branching => \A k \in Lowered(m) : k.t \notin Helped
    /\ m.t \in {"while", "for", "do"} => ~HasFlow(Lowered(m), "return")

\* Control does not leave a helper call except by its end.
HelpersComplete(n) ==
  /\ ~Has(Lowered(n), "throw")
  /\ \A m \in Lowered(n) : m.t \in Helped => ~HasFlow(Nodes(m), "return")
  /\ \A m \in Lowered(n) \ {n} : m.t \in {"while", "for", "do"} =>
       \A k \in Lowered(m) : k.t \in Helped =>
          ~HasFlow(Nodes(k), "break") /\ ~HasFlow(Nodes(k), "continue")

\* An engine does what the program means: it ends the same way and leaves the
\* same values, unless the program or the engine ran into a limit.
Agrees(o) ==
  LET Get(e) == [x \in Names(program) |-> EnvGet(<<e>>, x)]
  IN ~out.meaning.limit
     => o.status = out.meaning.status /\ Get(o.env) = Get(out.meaning.env)

-----------------------------------------------------------------------------
(* Properties.                                                             *)

\* The evaluator the lowered code falls back to gives every program its meaning,
\* whatever breaks, continues, returns, throws and catches are nested in it and
\* whatever the variables were (turbo_script_mir_value_runtime.c).  Programs with
\* an assignment among the operands of an operator are left out: both operands
\* of && and || are evaluated there.
ValueAgrees ==
  runs > 0 /\ PureOperands(program) => Agrees(out.value)

\* The tree evaluator runs the step of a for loop with the continue still
\* pending, and goes on after a throw in the bodies of for and for-in.
TreeFragment(n) ==
  /\ PureOperands(n)
  /\ ~HasFlow(Within(n, {"for"}), "continue")
  /\ ~Has(Within(n, {"for", "forin"}), "throw")

\* Outside of these cases exprtk_eval, with its own flow flags, its own catch
\* scope and its own loops, gives the program the same meaning.
TreeAgrees ==
  runs > 0 /\ TreeFragment(program) => Agrees(out.tree)

\* The lowered code leaves in the environment what the program means: the
\* registers that hold the variables, the marks of those that must be stored
\* before a helper runs, the reloads after it and the labels of break, continue
\* and return work together.  Where every helper call is in straight line code;
\* the native code has no constants, so programs that declare one are left out.
NativeAgrees ==
  runs > 0 /\ Straight(program) /\ HelpersComplete(program) /\ CatchScoped(program, before)
     /\ PureOperands(program) /\ ~Has(Nodes(program), "const")
     /\ out.meaning.status = "ok"
  => Agrees(out.native)

\* What the architecture document asks of the lowered code: the variables that
\* outlive the execution are synchronized through the environment, also where a
\* helper is called under a branch or a loop.  ts_emit_sync_to_env stores and clears
\* the marks in the order of the text, so what a loop assigns behind the call is not
\* stored before the call of the next iteration, and the reload overwrites it.
EnvironmentSynchronized ==
  runs > 0 /\ HelpersComplete(program) /\ CatchScoped(program, before)
     /\ PureOperands(program) /\ ~Has(Nodes(program), "const")
     /\ out.meaning.status = "ok"
  => Agrees(out.native)

\* A program stopped by the loop or node limit is never reported as a success:
\* no catch block forgives the abort (try_catch clears the throw, not the abort).
\* A loop inside a thrown expression is left out: there the throw replaces it.
LimitsReported ==
  runs > 0 /\ (\A m \in Within(program, {"throw"}) : m.t \notin {"while", "for", "do", "forin"})
  => \A o \in {"native", "value"} : out[o].limit => out[o].status # "ok"
=============================================================================
