----------------------------- MODULE MCEngines ------------------------------
EXTENDS Engines

i == Var("i")
x == Var("x")
Inc(v, n) == Assign(v, Bin("+", Var(v), Num(n)))
When(n, s) == If(Bin("==", i, Num(n)), s, Skip)

\* Statements for the body of a loop: plain ones, each way to leave it, and the
\* two that are left to the value evaluator.
Protected == Try(Block(<<Inc("x", 2), When(1, Throw(x))>>), "e", Assign("x", Var("e")))
Inner == ForIn("k", <<1, 2>>, Block(<<If(Bin("==", Var("k"), i), Flow("continue"), Skip),
                                      Inc("x", 1)>>))
InBody == {Inc("x", 1), When(1, Flow("break")), When(1, Flow("continue")),
           When(2, Flow("return")), When(1, Throw(Num(3))), Protected, Inner}
Loops(b) ==
  {While(Bin("<", i, Num(2)), Block(<<Inc("i", 1), b>>)),
   DoWhile(Block(<<Inc("i", 1), b>>), Bin("<", i, Num(2))),
   For(Assign("i", Num(0)), Bin("<", i, Num(3)), Inc("i", 1), b),
   ForIn("i", <<1, 2>>, b)}
Bodies == UNION {Loops(Block(<<a, b>>)) : a \in InBody, b \in InBody}
Around(s) ==
  {s,
   Block(<<Assign("x", Num(1)), s, Inc("x", 1)>>),
   Try(Block(<<s, Inc("x", 1)>>), "e", Block(<<Inc("x", 1), Assign("i", Var("e"))>>)),
   Switch(x, <<[e |-> Num(0), b |-> s], [e |-> Num(1), b |-> Inc("i", 1)]>>, Assign("i", Num(0)))}

\* Statements for the top level, loops that reach the limit among them.
Endless == While(Bin("||", Num(1), x), Assign("i", Num(1)))
AtTop == {Inc("x", 1), Assign("i", Bin("&&", x, i)), When(1, Flow("return")), Protected, Inner,
          Const("x", Num(2)), Assign("x", Bin("&&", i, Assign("i", Num(2)))),
          Assign("i", Bin("+", x, Assign("x", Num(1)))),
          Try(Endless, "e", Assign("x", Num(5))), Try(Throw(Endless), "", Inc("x", 1)),
          Try(Flow("return"), "e", Skip)}
MCPrograms ==
  UNION {Around(s) : s \in Bodies} \cup {Block(<<a, b, c>>) : a, b, c \in AtTop}
=============================================================================
