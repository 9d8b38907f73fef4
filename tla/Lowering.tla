------------------------------ MODULE Lowering ------------------------------
(***************************************************************************)
(* The MIR lowering of a program and the code it emits.  Variables live in *)
(* registers; a node the lowering has no instructions for is handed to the *)
(* value evaluator by a helper call, around which the registers and the    *)
(* environment are synchronised: variables marked dirty are stored before  *)
(* the call, all are loaded after it.  The marks are kept while code is    *)
(* emitted, in the order of the text, not along the paths it may take.     *)
(* Managed slots, dynamic (non-numeric) variables and compiled functions   *)
(* are outside the fragment.                                               *)
(***************************************************************************)
EXTENDS ValueEval, TLC

CONSTANT MaxSteps            \* bound on the instructions of one execution

\* Operands: the register of a variable, a temporary, an immediate.
VarReg(x) == [k |-> "var", x |-> x]
Temp(i) == [k |-> "tmp", i |-> i]
Imm(n) == [k |-> "imm", n |-> n]

\* What ts_mir_compiler_t keeps: the code so far, the dirty marks, the stack of
\* loop labels, fresh labels and temporaries, and r, the last result operand.
Compiler == [code |-> <<>>, dirty |-> {}, loops |-> <<>>, labels |-> 0, temps |-> 0,
             names |-> {}, r |-> Imm(0)]

Emit(c, i) == [c EXCEPT !.code = Append(@, i)]
EmitAll(c, s) == [c EXCEPT !.code = @ \o s]
Move(d, s) == [op |-> "mov", d |-> d, s |-> s]
Calc(o, d, l, r) == [op |-> "bin", o |-> o, d |-> d, l |-> l, r |-> r]
Jump(l) == [op |-> "jmp", l |-> l]
Label(l) == [op |-> "label", l |-> l]
\* Jump to l when the comparison o of a and b holds (want) or fails (~want).
Branch(o, a, b, l, want) == [op |-> "br", o |-> o, a |-> a, b |-> b, l |-> l, want |-> want]
Store(x) == [op |-> "store", x |-> x]
Load(x) == [op |-> "load", x |-> x]
Helper(n, d) == [op |-> "helper", n |-> n, d |-> d]
Ret == [op |-> "ret"]

NewTemp(c) == [c EXCEPT !.temps = @ + 1, !.r = Temp(c.temps + 1)]
NewLabels(c, k) == [c EXCEPT !.labels = @ + k]

SetToSeqOf(S, Op(_)) == LET f == CHOOSE f \in [1..Cardinality(S) -> S] : {f[i] : i \in DOMAIN f} = S
                        IN [i \in DOMAIN f |-> Op(f[i])]

SyncToEnv(c) == [EmitAll(c, SetToSeqOf(c.dirty, Store)) EXCEPT !.dirty = {}]
ReloadFromEnv(c) == [EmitAll(c, SetToSeqOf(c.names, Load)) EXCEPT !.dirty = {}]
MarkDirty(c, x) == [c EXCEPT !.dirty = @ \cup {x}]

\* ts_emit_value_expr: store the dirty variables, call, load every variable.
RuntimeValueNode(c, n) ==
  LET t == NewTemp(c)
      h == ReloadFromEnv(Emit(SyncToEnv(t), Helper(n, t.r)))
  IN [h EXCEPT !.r = t.r]

-----------------------------------------------------------------------------
(* Expressions                                                             *)

RECURSIVE Foldable(_), Folded(_), CompileExpr(_, _), BranchFalse(_, _, _), BranchTrue(_, _, _),
          CompileStmt(_, _), CompileSeq(_, _), CompileCases(_, _, _, _, _)

\* ts_try_fold_constant
Foldable(n) == n.t = "num" \/ (n.t = "bin" /\ Foldable(n.l) /\ Foldable(n.r))
Folded(n) == IF n.t = "num" THEN n.n ELSE Apply(n.o, Folded(n.l), Folded(n.r))

\* A constant declaration is an assignment; nothing marks the name constant.
CompileAssign(n, c) ==
  LET e == CompileExpr(n.e, c)
  IN [MarkDirty(Emit(e, Move(VarReg(n.x), e.r)), n.x) EXCEPT !.r = VarReg(n.x)]

\* && and || jump over the second operand.
CompileLogical(n, c) ==
  LET skip == c.labels + 1
      end == c.labels + 2
      l == CompileExpr(n.l, NewLabels(c, 2))
      t == NewTemp(l)
      b == Emit(t, Branch("==", l.r, Imm(0), skip, n.o = "&&"))
      r == CompileExpr(n.r, b)
  IN [EmitAll(r, <<Calc("&&", t.r, r.r, Imm(1)), Jump(end), Label(skip),
                   Move(t.r, Imm(IF n.o = "&&" THEN 0 ELSE 1)), Label(end)>>) EXCEPT !.r = t.r]

\* The operands of a comparison or an addition are the operands themselves: a
\* variable is read when the instruction runs, after both were evaluated.
CompileArith(n, c) ==
  LET l == CompileExpr(n.l, c)
      r == CompileExpr(n.r, l)
      t == NewTemp(r)
  IN [Emit(t, Calc(n.o, t.r, l.r, r.r)) EXCEPT !.r = t.r]

CompileExpr(n, c) ==
  CASE Foldable(n) -> LET t == NewTemp(c) IN Emit(t, Move(t.r, Imm(Folded(n))))
    [] ~Foldable(n) /\ n.t \in {"assign", "const"} -> CompileAssign(n, c)
    [] ~Foldable(n) /\ n.t = "var" -> [c EXCEPT !.r = VarReg(n.x)]
    [] ~Foldable(n) /\ n.t = "bin" ->
         IF n.o \in {"&&", "||"} THEN CompileLogical(n, c) ELSE CompileArith(n, c)
    [] ~Foldable(n) /\ n.t \in {"try", "throw"} -> RuntimeValueNode(c, n)

\* Branch to label l when the condition is false.
BranchFalse(n, c, l) ==
  CASE n.t = "bin" /\ n.o \in {"<", "=="} ->
         LET a == CompileExpr(n.l, c)
             b == CompileExpr(n.r, a)
         IN Emit(b, Branch(n.o, a.r, b.r, l, FALSE))
    [] n.t = "bin" /\ n.o = "&&" -> BranchFalse(n.r, BranchFalse(n.l, c, l), l)
    [] n.t = "bin" /\ n.o = "||" ->
         LET yes == c.labels + 1
         IN Emit(BranchFalse(n.r, BranchTrue(n.l, NewLabels(c, 1), yes), l), Label(yes))
    [] OTHER -> LET e == CompileExpr(n, c) IN Emit(e, Branch("==", e.r, Imm(0), l, TRUE))

BranchTrue(n, c, l) ==
  IF n.t = "bin" /\ n.o \in {"<", "=="}
  THEN LET a == CompileExpr(n.l, c)
           b == CompileExpr(n.r, a)
       IN Emit(b, Branch(n.o, a.r, b.r, l, TRUE))
  ELSE LET e == CompileExpr(n, c) IN Emit(e, Branch("==", e.r, Imm(0), l, FALSE))

-----------------------------------------------------------------------------
(* Statements                                                              *)

PushLoop(c, brk, cont) == [c EXCEPT !.loops = <<[brk |-> brk, cont |-> cont]>> \o @]
PopLoop(c) == [c EXCEPT !.loops = Tail(@)]

CompileIf(n, c) ==
  LET else == c.labels + 1
      end == c.labels + 2
      f == BranchFalse(n.c, NewLabels(c, 2), else)
      a == EmitAll(CompileStmt(n.a, f), <<Jump(end), Label(else)>>)
  IN Emit(CompileStmt(n.b, a), Label(end))

CompileWhile(n, c) ==
  LET top == c.labels + 1
      end == c.labels + 2
      f == BranchFalse(n.c, Emit(PushLoop(NewLabels(c, 2), end, top), Label(top)), end)
  IN PopLoop(EmitAll(CompileStmt(n.b, f), <<Jump(top), Label(end)>>))

\* Mutant: continue goes to the test of a for loop and not to its step.
CompileForContinueTop(n, c) ==
  LET i == CompileStmt(n.i, c)
      top == i.labels + 1
      end == i.labels + 2
      f == BranchFalse(n.c, Emit(PushLoop(NewLabels(i, 2), end, top), Label(top)), end)
      p == CompileStmt(n.p, CompileStmt(n.b, f))
  IN PopLoop(EmitAll(p, <<Jump(top), Label(end)>>))

CompileFor(n, c) ==
  LET i == CompileStmt(n.i, c)
      top == i.labels + 1
      cont == i.labels + 2
      end == i.labels + 3
      f == BranchFalse(n.c, Emit(PushLoop(NewLabels(i, 3), end, cont), Label(top)), end)
      p == CompileStmt(n.p, Emit(CompileStmt(n.b, f), Label(cont)))
  IN PopLoop(EmitAll(p, <<Jump(top), Label(end)>>))

CompileDoWhile(n, c) ==
  LET top == c.labels + 1
      cont == c.labels + 2
      end == c.labels + 3
      b == CompileStmt(n.b, Emit(PushLoop(NewLabels(c, 3), end, cont), Label(top)))
  IN PopLoop(Emit(BranchTrue(n.c, Emit(b, Label(cont)), top), Label(end)))

\* A return stores what is dirty where it stands in the text.
CompileFlow(n, c) ==
  CASE n.k = "break" -> IF c.loops = <<>> THEN c ELSE Emit(c, Jump(c.loops[1].brk))
    [] n.k = "continue" -> IF c.loops = <<>> THEN c ELSE Emit(c, Jump(c.loops[1].cont))
    [] n.k = "return" -> Emit(EmitAll(c, SetToSeqOf(c.dirty, Store)), Ret)

CompileCases(n, v, c, k, end) ==
  IF k > Len(n.s) THEN Emit(CompileStmt(n.d, c), Label(end))
  ELSE LET next == c.labels + 1
           e == CompileExpr(n.s[k].e, NewLabels(c, 1))
           b == CompileStmt(n.s[k].b, Emit(e, Branch("==", v, e.r, next, FALSE)))
       IN CompileCases(n, v, EmitAll(b, <<Jump(end), Label(next)>>), k + 1, end)

CompileSwitch(n, c) ==
  LET e == CompileExpr(n.e, c)
  IN CompileCases(n, e.r, NewLabels(e, 1), 1, e.labels + 1)

CompileSeq(s, c) == IF s = <<>> THEN c ELSE CompileSeq(Tail(s), CompileStmt(Head(s), c))

CompileStmt(n, c) ==
  CASE n.t = "block" -> CompileSeq(n.s, c)
    [] n.t = "if" -> CompileIf(n, c)
    [] n.t = "while" -> CompileWhile(n, c)
    [] n.t = "for" -> CompileFor(n, c)
    [] n.t = "do" -> CompileDoWhile(n, c)
    [] n.t = "flow" -> CompileFlow(n, c)
    [] n.t = "forin" -> RuntimeValueNode(c, n)
    [] n.t = "switch" -> CompileSwitch(n, c)
    [] OTHER -> CompileExpr(n, c)

\* The initializer of a module: a register for every name, the loads of the
\* prologue, the statements, the stores of the epilogue.
Compile(p) ==
  LET c == [Compiler EXCEPT !.names = Names(p)]
      body == CompileStmt(p, EmitAll(c, SetToSeqOf(c.names, Load)))
  IN Emit(EmitAll(body, SetToSeqOf(body.dirty, Store)), Ret).code

-----------------------------------------------------------------------------
(* Execution of the code                                                   *)

Read(m, o) == CASE o.k = "var" -> m.regs[o.x]
                [] o.k = "tmp" -> m.temps[o.i]
                [] o.k = "imm" -> o.n
Write(m, o, n) == IF o.k = "var" THEN [m EXCEPT !.regs[o.x] = n]
                  ELSE [m EXCEPT !.temps = (o.i :> n) @@ @]
Target(code, l) == CHOOSE i \in DOMAIN code : code[i] = Label(l)

\* ts_mir_value_expr: any flow, abort or failure the evaluator leaves behind
\* becomes a run error (ts_mir_promote_env_error); the code goes on.
CallHelper(m, i) ==
  LET a == ValueEval(i.n, m.st)
      bad == a.fail \/ a.flow # "normal" \/ a.aborted
      st == [a EXCEPT !.fail = FALSE, !.aborted = @ \/ bad]
  IN Write([m EXCEPT !.st = st], i.d, IF a.fail THEN 0 ELSE a.v)

RECURSIVE Exec(_, _, _, _)
Exec(code, m, pc, steps) ==
  LET i == code[pc]
      on(m2) == Exec(code, m2, pc + 1, steps + 1)
  IN CASE steps >= MaxSteps -> [m.st EXCEPT !.fail = TRUE]
       [] steps < MaxSteps /\ i.op = "ret" -> m.st
       [] steps < MaxSteps /\ i.op = "label" -> on(m)
       [] steps < MaxSteps /\ i.op = "mov" -> on(Write(m, i.d, Read(m, i.s)))
       [] steps < MaxSteps /\ i.op = "bin" ->
            on(Write(m, i.d, Apply(i.o, Read(m, i.l), Read(m, i.r))))
       [] steps < MaxSteps /\ i.op = "load" -> on(Write(m, VarReg(i.x), EnvGet(m.st.env, i.x)))
       [] steps < MaxSteps /\ i.op = "store" ->
            on([m EXCEPT !.st.env = EnvSet(@, i.x, m.regs[i.x])])
       [] steps < MaxSteps /\ i.op = "helper" -> on(CallHelper(m, i))
       [] steps < MaxSteps /\ i.op = "jmp" -> Exec(code, m, Target(code, i.l), steps + 1)
       [] steps < MaxSteps /\ i.op = "br" ->
            IF Truthy(Apply(i.o, Read(m, i.a), Read(m, i.b))) = i.want
            THEN Exec(code, m, Target(code, i.l), steps + 1) ELSE on(m)

\* ts_jit_exec_fn: reset the run state, call, report.
NativeRun(code, p, scope) ==
  Exec(code, [regs |-> [x \in Names(p) |-> 0], temps |-> <<>>, st |-> Fresh(scope)], 1, 0)
=============================================================================
