----------------------------- MODULE VmPrograms -----------------------------
(* Programs for the bytecode machine and the interpreter: a grammar of try   *)
(* statements in loops, and one program for each construct and for the ways  *)
(* they meet.  What is observed is what they print and how they end.         *)
EXTENDS Syntax, SequencesExt, FiniteSets

Show(e) == Do("print", <<e>>)
Say(s) == Show(Str(s))
Inc(name) == ExprStmt(Postfix("++", Id(name)))
Set(place, e) == ExprStmt(Binary("=", place, e))
Plus(a, b) == Binary("+", a, b)
ForUpTo(name, n, body) ==
  For(Some(Let(name, Num(0))), Some(Binary("<", Id(name), Num(n))), Some(Postfix("++", Id(name))), Block(body))
Fn(params, body) == FnExpr("", [i \in DOMAIN params |-> P(params[i])], body)
CallOf(e, args) == Call(e, args)
Guarded(stmts) == Try(stmts, Some("x"), Some(<<Say("caught"), Show(Id("x"))>>), None)

-----------------------------------------------------------------------------
(* function f() { LOOP { TRY } }, called twice and each time in a try of its *)
(* own: a handler that is left over, or missing, shows in what the next      *)
(* throw meets.                                                              *)

Leaves == <<Say("a"), Throw(Str("t")), Return(Some(Str("r"))), Break(None), Continue(None)>>
Handlers == <<None, Some(<<Say("c")>>), Some(<<Throw(Id("e"))>>)>>
Finallies == <<None, Some(<<Say("f")>>), Some(<<Throw(Str("u"))>>), Some(<<Return(Some(Str("q")))>>)>>

Loops(body) ==
  <<ForUpTo("i", 2, body),
    ForOf(PId("i"), Arr(<<Num(0), Num(1)>>), Block(body)),
    DoWhile(Block(body), Binary("<", Postfix("++", Id("n")), Num(1)))>>

TryOf(leaf, handler, finally) ==
  Try(<<Let("v", Num(1)), Leaves[leaf], Show(Id("v"))>>, Some("e"), Handlers[handler], Finallies[finally])

Calls(n) ==
  LET call == Guarded(<<Let("r", Call(Id("f"), <<>>)), Show(Id("r"))>>) IN [i \in 1..n |-> call]

TryProgram(loop) ==
  <<FnDecl("f", <<>>, <<Let("n", Num(0)), loop, Say("end"), Return(Some(Id("n")))>>)>> \o Calls(2)

(* A try statement inside the try part of another, in a loop.                *)
Nested(leaf, inner, outer) ==
  <<Try(<<Try(<<Leaves[leaf]>>, None, None, Finallies[inner]), Say("between")>>, Some("e"), Handlers[outer], Finallies[2])>>

(* The i-th choice of one out of each of a, b and c possibilities.           *)
Pick(i, a, b, c) == <<1 + (i % a), 1 + ((i \div a) % b), 1 + ((i \div (a * b)) % c)>>

(* A catch, a finally, or both.                                              *)
Shapes == <<<<1, 2>>, <<1, 3>>, <<1, 4>>, <<2, 1>>, <<2, 2>>, <<2, 3>>, <<2, 4>>, <<3, 1>>, <<3, 2>>, <<3, 3>>, <<3, 4>>>>

TryPrograms == 0..164
NestedPrograms == 165..194
TryProgramAt(i) ==
  LET s == Pick(i, 5, 11, 3) IN TryProgram(Loops(<<TryOf(s[1], Shapes[s[2]][1], Shapes[s[2]][2])>>)[s[3]])
NestedProgramAt(i) ==
  LET s == Pick(i - 165, 5, 2, 3) IN TryProgram(Loops(Nested(s[1], s[2] + 1, s[3]))[2])
-----------------------------------------------------------------------------
(* One program for each construct and its neighbours.                        *)

Op(op, l, r) == Binary(op, l, r)
Show2(a, b) == Do("print", <<a, b>>)
N(x) == Id(x)
CaseOf(n, body) == Case(Num(n), body)

\* Closures made in a loop keep the variable of their turn; the two of one turn share it.
LoopClosures(loop) ==
  <<FnDecl("make", <<P("n")>>,
      <<Let("get", Null), Let("add", Null), loop, ExprStmt(Call(N("add"), <<>>)),
        ExprStmt(Call(N("add"), <<>>)), Return(Some(Call(N("get"), <<>>)))>>),
    Show(Call(N("make"), <<Num(2)>>))>>
Capture(v) == <<If(Op("===", N("get"), Null), Block(<<Set(N("get"), Arrow(<<>>, <<Return(Some(N(v)))>>)),
                                                      Set(N("add"), Arrow(<<>>, <<Inc(v)>>))>>), None)>>
Counter ==
  <<FnDecl("counter", <<>>,
      <<Let("n", Num(0)),
        Return(Some(Obj(<<Prop(NameKey("up"), Fn(<<>>, <<Inc("n"), Return(Some(N("n")))>>)),
                          Prop(NameKey("now"), Arrow(<<>>, <<Return(Some(N("n")))>>))>>)))>>),
    Let("a", Call(N("counter"), <<>>)), Let("b", Call(N("counter"), <<>>)),
    ExprStmt(Call(Member(N("a"), "up"), <<>>)), ExprStmt(Call(Member(N("a"), "up"), <<>>)),
    Show2(Call(Member(N("a"), "now"), <<>>), Call(Member(N("b"), "now"), <<>>))>>
\* Three functions deep: the variable is passed on as an upvalue of an upvalue.
DeepClosure ==
  <<FnDecl("f", <<P("x")>>,
      <<Return(Some(Arrow(<<P("y")>>, <<Return(Some(Arrow(<<>>, <<Set(N("x"), Plus(N("x"), N("y"))), Return(Some(N("x")))>>)))>>)))>>),
    Let("g", Call(Call(N("f"), <<Num(1)>>), <<Num(2)>>)), ExprStmt(Call(N("g"), <<>>)), Show(Call(N("g"), <<>>))>>
BlockClosure ==
  <<Let("g", Null), Block(<<Let("v", Num(1)), Set(N("g"), Arrow(<<>>, <<Inc("v"), Return(Some(N("v")))>>)), Inc("v")>>),
    Block(<<Let("w", Num(9)), Show(Call(N("g"), <<>>)), Show(N("w"))>>), Show(Call(N("g"), <<>>))>>
\* A variable captured in a scope that an exception leaves.
ThrownClosure ==
  <<FnDecl("f", <<>>,
      <<Let("g", Null),
        Try(<<Let("v", Num(5)), Set(N("g"), Arrow(<<>>, <<Inc("v"), Return(Some(N("v")))>>)), Throw(Num(1))>>,
            Some("e"), Some(<<Let("z", Num(7)), Show(Plus(N("e"), N("z")))>>), None),
        Let("u", Num(3)), ExprStmt(Call(N("g"), <<>>)), Show2(Call(N("g"), <<>>), N("u"))>>),
    Do("f", <<>>)>>

Recursion ==
  <<FnDecl("fib", <<P("n")>>, <<If(Op("<", N("n"), Num(2)), Return(Some(N("n"))), None),
      Return(Some(Plus(Call(N("fib"), <<Op("-", N("n"), Num(1))>>), Call(N("fib"), <<Op("-", N("n"), Num(2))>>))))>>),
    Show(Call(N("fib"), <<Num(4)>>))>>
\* Functions of a list are there before its first statement.
Hoisting ==
  <<Show(Call(N("g"), <<Num(1)>>)), FnDecl("g", <<P("a")>>, <<Show(Call(N("h"), <<>>)), Return(Some(Plus(N("a"), Num(1)))), FnDecl("h", <<>>, <<Return(Some(Str("h")))>>)>>)>>
Parameters ==
  <<FnDecl("f", <<P("a"), Param("b", Some(Plus(N("a"), Num(1))), FALSE, None), Param("c", None, TRUE, None)>>,
      <<Show2(N("a"), N("b")), Show2(Member(N("c"), "length"), Index(N("c"), Num(0)))>>),
    Do("f", <<Num(1)>>), Do("f", <<Num(1), Num(5), Num(6), Num(7)>>)>>
PatternParameters ==
  <<FnDecl("f", <<Param("", None, FALSE, Some(PObj(<<PProp("x", None), PProp("y", Some(PDefault(PId("z"), Num(4))))>>, None)))>>,
      <<Show2(N("x"), N("z"))>>),
    Do("f", <<Obj(<<Prop(NameKey("x"), Num(1))>>)>>)>>
Spreads ==
  <<FnDecl("f", <<P("a"), P("b"), P("c")>>, <<Show2(Plus(N("a"), N("b")), N("c"))>>),
    Let("xs", Arr(<<Num(1), Num(2)>>)), Do("f", <<Spread(N("xs")), Num(3)>>),
    Let("ys", Arr(<<Num(0), Spread(N("xs")), Num(9)>>)), Show2(Member(N("ys"), "length"), Index(N("ys"), Num(2))),
    Let("o", Obj(<<Prop(NameKey("p"), Num(1)), Prop(NameKey("q"), Num(2))>>)),
    Let("m", Obj(<<Prop(NameKey("q"), Num(8)), SpreadEntry(N("o")), Prop(NameKey("p"), Num(7))>>)),
    Show2(Member(N("m"), "p"), Member(N("m"), "q"))>>
Strings ==
  <<Let("s", Str("abc")), ForOf(PId("c"), N("s"), Block(<<Show(N("c"))>>)),
    Let("xs", Arr(<<Spread(N("s")), Spread(Str("")), Num(1)>>)), Show2(Member(N("xs"), "length"), Index(N("xs"), Num(1))),
    Show2(Index(N("s"), Num(2)), Index(N("s"), Num(3))), Show2(Member(N("s"), "length"), Member(Str(""), "length")),
    Show2(Op("in", Str("2"), N("xs")), Op("in", Bool(TRUE), N("xs"))),
    Guarded(<<ForIn(PId("c"), N("s"), Block(<<Show(N("c"))>>))>>)>>
Destructuring ==
  <<Var(PArr(<<Some(PId("a")), None, Some(PDefault(PId("b"), Num(5)))>>, Some(PId("r"))),
        Arr(<<Num(1), Num(2), Undef, Num(3)>>), FALSE),
    Show2(N("a"), N("b")), Show2(Member(N("r"), "length"), Index(N("r"), Num(0))),
    Block(<<Var(PObj(<<PProp("x", None), PProp("y", Some(PArr(<<Some(PId("z"))>>, None)))>>, Some(PId("rest"))),
                Obj(<<Prop(NameKey("x"), Num(1)), Prop(NameKey("y"), Arr(<<Num(6)>>)), Prop(NameKey("w"), Num(4))>>), TRUE),
            Show2(N("x"), N("z")), Show2(Member(N("rest"), "w"), Member(N("rest"), "x"))>>)>>

ForInOf ==
  <<Let("o", Obj(<<Prop(NameKey("k"), Num(1)), Prop(NameKey("m"), Num(2))>>)),
    ForIn(PId("key"), N("o"), Block(<<Show2(N("key"), Index(N("o"), N("key")))>>)),
    ForIn(PId("v"), Arr(<<Str("p"), Str("q")>>), Block(<<Show(N("v"))>>)),
    ForOf(PArr(<<Some(PId("a")), Some(PId("b"))>>, None), Arr(<<Arr(<<Num(1), Num(2)>>), Arr(<<Num(3), Num(4)>>)>>),
          Block(<<Show(Plus(N("a"), N("b")))>>))>>
\* A copy is walked: what the body appends or removes does not matter.
ForInChanges ==
  <<Let("o", Obj(<<Prop(NameKey("k"), Num(1)), Prop(NameKey("m"), Num(2))>>)),
    ForIn(PId("key"), N("o"), Block(<<ExprStmt(Unary("delete", Member(N("o"), "m"))), Set(Member(N("o"), "z"), Num(3)), Show(N("key"))>>)),
    Show2(Op("in", Str("m"), N("o")), Op("in", Str("z"), N("o")))>>
Labels ==
  <<Labeled("outer", ForUpTo("i", 3, <<ForUpTo("j", 3,
      <<If(Op("===", N("j"), Num(1)), Continue(Some("outer")), None),
        If(Op("===", N("i"), Num(1)), Break(Some("outer")), None), Show2(N("i"), N("j"))>>)>>)),
    Labeled("b", Block(<<Show(Num(1)), Break(Some("b")), Show(Num(2))>>)), Show(Num(3))>>
BreakLocals ==
  <<FnDecl("f", <<>>,
      <<Let("s", Num(0)),
        While(Bool(TRUE), Block(<<Let("x", Num(1)), Block(<<Let("y", Num(2)), If(Op(">", N("s"), Num(3)), Break(None), None),
          ExprStmt(Op("+=", N("s"), Plus(N("x"), N("y"))))>>)>>)),
        Let("t", Num(10)), Return(Some(Plus(N("s"), N("t"))))>>),
    Show(Call(N("f"), <<>>))>>
Switches ==
  <<FnDecl("f", <<P("n")>>,
      <<Switch(N("n"), <<CaseOf(1, <<Let("a", Str("one")), Show(N("a"))>>), CaseOf(2, <<Return(Some(Str("two")))>>)>>,
               Some(<<Let("d", Str("other")), Show(N("d"))>>)),
        Let("z", Str("z")), Return(Some(N("z")))>>),
    Show(Call(N("f"), <<Num(1)>>)), Show(Call(N("f"), <<Num(2)>>)), Show(Call(N("f"), <<Num(3)>>))>>
SwitchInLoop ==
  <<ForUpTo("i", 3, <<Switch(N("i"), <<CaseOf(0, <<Let("a", Num(1)), Continue(None)>>), CaseOf(2, <<Break(None)>>)>>, None), Show(N("i"))>>),
    Show(Str("end"))>>

Methods ==
  <<Let("o", Obj(<<Prop(NameKey("n"), Num(1)),
                   Prop(NameKey("inc"), Fn(<<"d">>, <<ExprStmt(Op("+=", Member(This, "n"), N("d"))), Return(Some(Member(This, "n")))>>)),
                   Prop(ComputedKey(Plus(Str("a"), Str("b"))), Num(5))>>)),
    Show(Call(Member(N("o"), "inc"), <<Num(4)>>)), Show2(Member(N("o"), "n"), Member(N("o"), "ab"))>>
Accessors ==
  <<Let("o", Obj(<<Prop(NameKey("raw"), Num(1)),
                   GetterEntry(NameKey("v"), <<Show(Str("get")), Return(Some(Plus(Member(This, "raw"), Num(1))))>>),
                   SetterEntry(NameKey("v"), P("x"), <<Show(Str("set")), Set(Member(This, "raw"), N("x"))>>)>>)),
    Show(Member(N("o"), "v")), Set(Member(N("o"), "v"), Num(7)), Show(Member(N("o"), "v")),
    Show(Op("+=", Member(N("o"), "v"), Num(1)))>>
\* One place in the code that meets objects of one shape, of another, and changed ones.
Shapes2 ==
  <<FnDecl("x", <<P("o")>>, <<Return(Some(Member(N("o"), "x")))>>),
    FnDecl("put", <<P("o"), P("v")>>, <<Set(Member(N("o"), "x"), N("v"))>>),
    Let("a", Obj(<<Prop(NameKey("x"), Num(1)), Prop(NameKey("y"), Num(2))>>)),
    Let("b", Obj(<<Prop(NameKey("y"), Num(3)), Prop(NameKey("x"), Num(4))>>)),
    Show2(Call(N("x"), <<N("a")>>), Call(N("x"), <<N("b")>>)), Show(Call(N("x"), <<N("a")>>)),
    ExprStmt(Unary("delete", Member(N("a"), "x"))), Show(Call(N("x"), <<N("a")>>)),
    Do("put", <<N("a"), Num(8)>>), Do("put", <<N("b"), Num(9)>>), Show2(Member(N("a"), "y"), Call(N("x"), <<N("a")>>)),
    ExprStmt(Unary("delete", Member(N("a"), "y"))), Set(Member(N("a"), "x"), Num(6)), Show2(Call(N("x"), <<N("a")>>), Member(N("a"), "y"))>>
GetterThrows ==
  <<Let("o", Obj(<<GetterEntry(NameKey("v"), <<Try(<<Throw(Num(1))>>, None, None, Some(<<Show(Str("f"))>>))>>)>>)),
    FnDecl("f", <<>>, <<Let("a", Num(3)), Guarded(<<Let("b", Num(4)), Show(Member(N("o"), "v"))>>), Return(Some(N("a")))>>),
    Show(Call(N("f"), <<>>)), Show(Call(N("f"), <<>>))>>
OptionalChains ==
  <<Let("n", Null), Let("o", Obj(<<Prop(NameKey("p"), Obj(<<Prop(NameKey("q"), Num(1))>>))>>)),
    Show2(OptMember(N("n"), "a"), OptMember(OptMember(N("o"), "p"), "q")),
    Show2(OptIndex(N("o"), Str("r")), OptIndex(N("n"), Str("r"))), Show(OptCall(Member(N("o"), "f"), <<Num(1)>>)),
    Show(OptCall(Arrow(<<P("z")>>, <<Return(Some(N("z")))>>), <<Num(2)>>))>>
ShortCircuits ==
  <<FnDecl("t", <<P("v")>>, <<Show(N("v")), Return(Some(N("v")))>>),
    Show(Op("&&", Call(N("t"), <<Num(0)>>), Call(N("t"), <<Num(1)>>))), Show(Op("||", Call(N("t"), <<Num(0)>>), Call(N("t"), <<Num(2)>>))),
    Show(Op("??", Call(N("t"), <<Num(0)>>), Call(N("t"), <<Num(3)>>))), Show(Op("??", Null, Call(N("t"), <<Num(4)>>))),
    Show(Conditional(Op("&&", Bool(TRUE), Str("")), Num(1), Num(2)))>>
Assignments ==
  <<Let("a", Num(1)), Let("o", Obj(<<Prop(NameKey("p"), Num(2))>>)), Let("xs", Arr(<<Num(3), Null>>)),
    ExprStmt(Op("+=", N("a"), Num(1))), ExprStmt(Op("*=", Member(N("o"), "p"), Num(5))), ExprStmt(Op("-=", Index(N("xs"), Num(0)), Num(1))),
    ExprStmt(Op("??=", Index(N("xs"), Num(1)), Num(6))), ExprStmt(Op("||=", Member(N("o"), "p"), Num(0))), ExprStmt(Op("&&=", N("a"), Num(9))),
    ExprStmt(Op("??=", Member(N("o"), "new"), Num(11))), Set(Index(N("o"), Str("key")), Num(12)),
    Show2(N("a"), Member(N("o"), "p")), Show2(Index(N("xs"), Num(0)), Index(N("xs"), Num(1))), Show2(Member(N("o"), "new"), Member(N("o"), "key"))>>
Operators ==
  <<Let("n", Undef), Let("s", Str("x")), Let("i", Num(3)),
    Show2(Plus(N("s"), Num(1)), Plus(N("i"), Bool(TRUE))), Show2(Op("==", N("i"), Str("3")), Op("===", N("i"), Str("3"))),
    Show2(Op("==", N("n"), Null), Op("===", N("n"), Null)), Show2(Unary("!", N("n")), Unary("-", N("i"))),
    Show2(Unary("typeof", N("s")), Unary("typeof", N("n"))), Show2(Unary("void", N("i")), Plus(Undef, Num(1))),
    Show2(Op("<", N("i"), Num(4)), Op(">=", N("n"), Num(0))), Show2(Op("!=", Op("+", Undef, N("i")), N("i")), Unary("+", Bool(TRUE))),
    Show(Template(<<Str("<"), N("i"), Str(","), Op("+", N("s"), Str("y")), Str(">")>>)), Show(Op("|>", N("i"), Arrow(<<P("v")>>, <<Return(Some(Plus(N("v"), Num(1))))>>)))>>
Folding ==
  <<Show2(Plus(Num(1), Op("*", Num(2), Num(3))), Plus(Str("a"), Str("b"))), Show2(Op("&&", Bool(TRUE), Bool(FALSE)), Op("<", Num(1), Num(2))),
    Show2(Unary("-", Grouping(Num(2))), Unary("!", Op("==", Num(1), Num(1)))), Show(Op("||", Bool(FALSE), Op("!==", Str("a"), Str("a"))))>>
Deletes ==
  <<Let("o", Obj(<<Prop(NameKey("a"), Num(1)), Prop(NameKey("b"), Num(2))>>)), Let("xs", Arr(<<Num(1), Num(2)>>)),
    Show(Unary("delete", Member(N("o"), "a"))), Show(Unary("delete", Index(N("o"), Str("b")))), Show(Unary("delete", Index(N("xs"), Num(0)))),
    Show2(Member(N("o"), "a"), Op("in", Str("b"), N("o"))), Show2(Index(N("xs"), Num(0)), Member(N("xs"), "length")), Show(Op("in", Num(0), N("xs")))>>

Resource(name) == Obj(<<Prop(NameKey("dispose"), Fn(<<>>, <<Show(Str(name))>>))>>)
Bad(name) == Obj(<<Prop(NameKey("dispose"), Fn(<<>>, <<Show(Str(name)), Throw(Str(name))>>))>>)
Resources ==
  <<Block(<<Using("a", Resource("a")), Using("n", Null), Using("b", Resource("b")), Show(Str("body"))>>),
    Guarded(<<Block(<<Using("c", Resource("c")), Using("d", Bad("d")), Using("e", Bad("e")), Show(Str("in"))>>), Show(Str("not here"))>>),
    Guarded(<<Using("f", Num(1)), Show(Str("nor here"))>>), Show(Str("end"))>>
Errors ==
  <<Guarded(<<Throw(Str("s"))>>), Try(<<Do("missing", <<>>)>>, Some("e"), Some(<<Show(Member(N("e"), "name"))>>), None),
    Try(<<ExprStmt(Member(Null, "x"))>>, Some("e"), Some(<<Show(Member(N("e"), "name"))>>), Some(<<Show(Str("f"))>>)),
    Try(<<ForOf(PId("v"), Num(1), Empty)>>, None, Some(<<Show(Str("caught"))>>), None), Throw(Str("end"))>>
Uncaught == <<FnDecl("f", <<>>, <<Try(<<Throw(Num(4))>>, None, None, Some(<<Show(Str("f"))>>))>>), Do("f", <<>>), Show(Str("not here"))>>
Constants ==
  <<Var(PId("c"), Num(1), TRUE), Guarded(<<ExprStmt(Unary("!", N("c")))>>), Show(N("c")),
    Try(<<Set(N("undeclared"), Num(2))>>, Some("e"), Some(<<Show(Str("no such"))>>), None),
    Try(<<Set(N("c"), Num(2))>>, Some("e"), Some(<<Show(Str("const"))>>), None), Show(N("c"))>>
\* A value returned through a finally is the one there was before it.
ReturnThrough ==
  <<FnDecl("f", <<>>, <<Let("n", Num(1)), Try(<<Return(Some(N("n")))>>, None, None, Some(<<Set(N("n"), Num(2)), Show(N("n"))>>))>>),
    Show(Call(N("f"), <<>>))>>

-----------------------------------------------------------------------------
(* Classes.                                                                  *)

Get1(o, name) == Member(Id(o), name)
Method0(name, body) == Method(name, <<>>, body, FALSE)
ReturnOf(e) == <<Return(Some(e))>>
My(name) == Member(This, name)
SetMy(name, e) == Set(My(name), e)
Send(o, name, args) == Call(Member(o, name), args)
Point ==
  Class("A", None,
    <<Field("x", Some(Num(1)), FALSE), Field("y", None, FALSE),
      Constructor(<<P("n")>>, <<SetMy("x", Plus(My("x"), N("n")))>>),
      Method("sum", <<P("k")>>, ReturnOf(Plus(My("x"), N("k"))), FALSE),
      Getter("twice", ReturnOf(Op("*", My("x"), Num(2))), FALSE),
      Setter("twice", P("v"), <<Show(N("v")), SetMy("x", N("v"))>>, FALSE),
      Field("s", Some(Num(5)), TRUE),
      Method("make", <<P("n")>>, ReturnOf(New(N("A"), <<N("n")>>)), TRUE),
      StaticBlock(<<Let("two", Num(2)), SetMy("t", Plus(My("s"), N("two")))>>)>>)
ClassMembers ==
  <<Point, Let("a", New(N("A"), <<Num(2)>>)),
    Show2(Get1("a", "x"), Get1("a", "y")), Show2(Send(N("a"), "sum", <<Num(1)>>), Get1("a", "twice")),
    Set(Get1("a", "twice"), Num(9)), ExprStmt(Op("+=", Get1("a", "twice"), Num(1))), Show(Get1("a", "x")),
    Show2(Get1("A", "s"), Get1("A", "t")), Show(Member(Send(N("A"), "make", <<Num(3)>>), "x")),
    Show2(Op("instanceof", N("a"), N("A")), Op("instanceof", Num(1), N("A"))),
    ForIn(PId("key"), N("a"), Block(<<Show(N("key"))>>)), Show(Get1("a", "missing")),
    Show(Op("instanceof", New(Get1("a", "constructor"), <<Num(4)>>), N("A")))>>
Derived ==
  <<Point,
    Class("B", Some(N("A")),
      <<Field("z", Some(Plus(My("x"), Num(6))), FALSE),
        Constructor(<<P("n")>>, <<ExprStmt(Call(Super, <<N("n")>>)), SetMy("z", Plus(My("z"), My("x")))>>),
        Method("sum", <<P("k")>>, ReturnOf(Plus(Send(Super, "sum", <<N("k")>>), Num(100))), FALSE),
        Getter("upper", ReturnOf(Send(Super, "sum", <<Spread(Arr(<<Num(1)>>))>>)), FALSE)>>),
    Class("C", Some(N("B")), <<Method("sum", <<P("k")>>, ReturnOf(Plus(Send(Super, "sum", <<N("k")>>), Num(1000))), FALSE)>>),
    Let("c", New(N("C"), <<Spread(Arr(<<Num(2)>>))>>)),
    Show2(Get1("c", "x"), Get1("c", "z")), Show2(Send(N("c"), "sum", <<Num(1)>>), Get1("c", "upper")),
    Show2(Op("instanceof", N("c"), N("A")), Op("instanceof", New(N("A"), <<Num(0)>>), N("B"))),
    Set(Get1("c", "twice"), Num(4)), Show2(Get1("c", "x"), Get1("c", "twice")), Show2(Get1("C", "t"), Get1("B", "s"))>>
Statics ==
  <<Class("S", None,
      <<Field("n", Some(Num(1)), TRUE), Method("inc", <<>>, <<SetMy("n", Plus(My("n"), Num(1))), Return(Some(My("n")))>>, TRUE),
        Getter("four", ReturnOf(Num(4)), TRUE), Setter("four", P("v"), <<Show(N("v"))>>, TRUE)>>),
    Class("T", Some(N("S")), <<Method("twice", <<>>, ReturnOf(Plus(Send(Super, "late", <<>>), Num(0))), FALSE)>>),
    Show2(Send(N("T"), "inc", <<>>), Get1("S", "n")), Set(Get1("T", "n"), Num(7)), Show2(Get1("S", "n"), Get1("T", "n")),
    Set(Get1("T", "four"), Num(5)), Show2(Get1("T", "four"), Get1("S", "none")), Set(Get1("T", "own"), Num(6)),
    Show2(Get1("T", "own"), Get1("S", "own")), Guarded(<<Show(Send(New(N("T"), <<>>), "twice", <<>>))>>) >>
ClassErrors ==
  <<Class("A", None, <<Constructor(<<>>, <<Try(<<SetMy("x", Num(1)), Throw(Str("ctor"))>>, None, None, Some(<<Show(My("x"))>>))>>)>>),
    Class("F", None, <<Field("a", Some(Call(Arrow(<<>>, <<Throw(Str("field"))>>), <<>>)), FALSE), Field("b", Some(Num(2)), FALSE)>>),
    Guarded(<<Show(New(N("A"), <<>>))>>), Guarded(<<Show(New(N("F"), <<>>))>>),
    Guarded(<<Class("G", None, <<StaticBlock(<<Show(Str("block")), Throw(Str("static"))>>), Field("q", Some(Num(1)), TRUE)>>), Show(N("G"))>>),
    Try(<<Class("H", Some(Num(1)), <<>>), Show(Str("not here"))>>, None, Some(<<Show(Str("no class"))>>), None),
    Try(<<Show(New(Num(1), <<>>))>>, None, Some(<<Show(Str("no new"))>>), None),
    Try(<<Show(Op("instanceof", Num(1), Num(2)))>>, None, Some(<<Show(Str("no instance"))>>), None),
    Class("K", Some(N("F")), <<Constructor(<<>>, <<ExprStmt(Call(Super, <<>>))>>)>>), ExprStmt(New(N("K"), <<>>))>>
\* An own property hides the method; one place sets through a setter and plainly.
Hiding ==
  <<Class("A", None, <<Method0("m", ReturnOf(Str("method"))), Setter("w", P("v"), <<SetMy("got", N("v"))>>, FALSE),
                       Getter("r", ReturnOf(Str("getter")), FALSE)>>),
    FnDecl("put", <<P("o")>>, <<Set(Get1("o", "w"), Num(1)), Return(Some(Get1("o", "w")))>>),
    FnDecl("call", <<P("o")>>, <<Return(Some(Send(N("o"), "m", <<>>)))>>), FnDecl("read", <<P("o")>>, ReturnOf(Get1("o", "r"))),
    Let("a", New(N("A"), <<>>)), Let("o", Obj(<<Prop(NameKey("w"), Num(0)), Prop(NameKey("r"), Num(3)), Prop(NameKey("m"), Fn(<<>>, ReturnOf(Str("own"))))>>)),
    Show2(Call(N("call"), <<N("a")>>), Call(N("call"), <<N("o")>>)), Show2(Call(N("put"), <<N("a")>>), Call(N("put"), <<N("o")>>)),
    Show2(Call(N("put"), <<N("o")>>), Call(N("put"), <<N("a")>>)), Show2(Call(N("read"), <<N("a")>>), Call(N("read"), <<N("o")>>)),
    Show2(Call(N("read"), <<N("a")>>), Get1("a", "got")), Set(Get1("a", "m"), Fn(<<>>, ReturnOf(Str("hidden")))), Show(Call(N("call"), <<N("a")>>)),
    Set(Index(N("a"), Str("w")), Num(8)), Show(Get1("a", "w")), Show(Call(N("put"), <<N("a")>>))>>
ClassClosures ==
  <<FnDecl("make", <<P("k")>>,
      <<Let("calls", Num(0)),
        Class("L", None, <<Constructor(<<P("x")>>, <<SetMy("x", N("x"))>>),
                           Method0("hit", <<Inc("calls"), Return(Some(Arrow(<<>>, ReturnOf(Plus(My("x"), Plus(N("k"), N("calls")))))))>>)>>),
        Return(Some(New(N("L"), <<Num(5)>>)))>>),
    Let("l", Call(N("make"), <<Num(10)>>)), ExprStmt(Send(N("l"), "hit", <<>>)), Show(Call(Send(N("l"), "hit", <<>>), <<>>)),
    Class("R", None, <<Constructor(<<P("n")>>, <<SetMy("n", N("n")), Return(Some(Num(3)))>>), Method0("dispose", <<Show(My("n"))>>)>>),
    Block(<<Using("r", New(N("R"), <<Str("r")>>)), Using("q", New(N("R"), <<Str("q")>>)), Show(Str("body"))>>),
    Class("D", None, <<Field("f", Some(Arrow(<<>>, ReturnOf(My("v")))), FALSE), Field("v", Some(Num(8)), FALSE)>>),
    Show(Send(New(N("D"), <<>>), "f", <<>>))>>

-----------------------------------------------------------------------------
(* Arrays.                                                                   *)

Nums(ns) == Arr([i \in DOMAIN ns |-> Num(ns[i])])
Minus(n) == Unary("-", Num(n))
NoNumber == Plus(Undef, Num(1))
ShowAll(e) == Show(Send(e, "join", <<Str("/")>>))
\* What a method returns, and what it leaves in the array.
Tried(method, args, shown) ==
  <<Let("xs", Nums(<<3, 1, 2, 1>>)), Let("r", Send(N("xs"), method, args)), IF shown THEN ShowAll(N("r")) ELSE Show(N("r")), ShowAll(N("xs"))>>
TryAll(methods, argLists, shown) ==
  [i \in 1..(Len(methods) * Len(argLists)) |->
     Block(<<Guarded(Tried(methods[1 + ((i - 1) \div Len(argLists))], argLists[1 + ((i - 1) % Len(argLists))], shown))>>)]
Bounds == <<<<>>, <<Num(1)>>, <<Minus(1)>>, <<Num(1), Num(2)>>, <<Num(2), Minus(1), Num(9)>>, <<Minus(9), Num(3)>>, <<Num(9), Minus(9)>>,
            <<NoNumber, NoNumber>>, <<Str("a"), Num(1)>>, <<Num(0), Str("a")>>, <<Num(1), Num(0), Num(3)>>>>
ArraySlices == TryAll(<<"slice", "splice", "toSpliced">>, Bounds, TRUE)
ArrayWrites == TryAll(<<"fill", "copyWithin", "with">>, Bounds \o <<<<Num(7), Num(1), Num(3)>>>>, TRUE)
ArraySearches ==
  TryAll(<<"indexOf", "lastIndexOf", "includes">>,
         <<<<>>, <<Num(1)>>, <<Num(1), Num(2)>>, <<Num(1), Minus(3)>>, <<Num(3), Minus(9)>>, <<Num(5)>>, <<Num(1), Num(9)>>, <<Num(1), Str("a")>>>>, FALSE)
  \o <<Let("ys", Arr(<<NoNumber, Undef, Str("1")>>)), Show2(Send(N("ys"), "indexOf", <<NoNumber>>), Send(N("ys"), "includes", <<NoNumber>>)),
        Show2(Send(N("ys"), "indexOf", <<Num(1)>>), Send(N("ys"), "lastIndexOf", <<Undef>>)), Show(Send(Arr(<<>>), "lastIndexOf", <<Num(1)>>))>>
ArrayEnds ==
  TryAll(<<"push", "unshift", "at", "pop", "shift">>, <<<<>>, <<Num(5), Num(6)>>, <<Minus(4)>>, <<Minus(5)>>>>, FALSE)
  \o TryAll(<<"reverse", "toReversed", "concat", "flat">>, <<<<>>, <<Arr(<<Num(8), Nums(<<9>>)>>), Num(7)>>>>, TRUE)
  \o <<Let("e", Arr(<<>>)), Show2(Send(N("e"), "pop", <<>>), Send(N("e"), "shift", <<>>)),
        Let("n", Arr(<<Num(1), Nums(<<2>>), Arr(<<Nums(<<3>>), Null>>)>>)), Show2(Send(N("n"), "join", <<Undef>>), Send(N("n"), "join", <<>>)),
        Show2(Member(Send(N("n"), "flat", <<>>), "length"), Member(Send(N("n"), "flat", <<Num(2)>>), "length")),
        Show(Member(Send(N("n"), "flat", <<Num(0)>>), "length")), Guarded(<<ExprStmt(Send(N("n"), "none", <<>>))>>),
        Let("push", Get1("e", "push")), Show2(Call(N("push"), <<Num(4)>>), Call(N("push"), <<Num(5), Num(6)>>)), ShowAll(N("e"))>>
ArraySorts ==
  <<ShowAll(Send(Arr(<<Num(10), Num(9), Str("b"), Num(1), Undef, Str("ab"), Str("1")>>), "toSorted", <<>>)),
    Let("xs", Nums(<<3, 1, 2, 1, 3>>)), Let("asked", Num(0)),
    Let("by", Arrow(<<P("a"), P("b")>>, <<Inc("asked"), Return(Some(Op("-", N("a"), N("b"))))>>)),
    ShowAll(Send(N("xs"), "toSorted", <<N("by")>>)), Show(N("asked")), ShowAll(N("xs")),
    Show(Op("===", Send(N("xs"), "sort", <<N("by")>>), N("xs"))), Show(N("asked")), ShowAll(N("xs")),
    \* Pairs that the comparator calls equal stay in their order; what is no number calls them equal.
    Let("ps", Arr(<<Nums(<<1, 7>>), Nums(<<0, 8>>), Nums(<<1, 6>>), Nums(<<0, 5>>)>>)),
    ExprStmt(Send(N("ps"), "sort", <<Arrow(<<P("a"), P("b")>>, ReturnOf(Op("-", Index(N("a"), Num(0)), Index(N("b"), Num(0)))))>>)),
    ShowAll(N("ps")), ShowAll(Send(N("xs"), "sort", <<Arrow(<<>>, ReturnOf(Str("less")))>>)), ShowAll(Send(N("xs"), "sort", <<Arrow(<<>>, ReturnOf(NoNumber))>>)),
    \* The array in the hands of the comparator, and one that throws.
    ExprStmt(Send(N("xs"), "sort", <<Arrow(<<P("a"), P("b")>>, <<ExprStmt(Send(N("xs"), "push", <<N("a")>>)), Return(Some(Op("-", N("b"), N("a"))))>>)>>)),
    ShowAll(N("xs")),
    Guarded(<<ExprStmt(Send(N("xs"), "sort", <<Arrow(<<P("a"), P("b")>>, <<ExprStmt(Send(N("xs"), "pop", <<>>)), Throw(N("a"))>>)>>))>>), ShowAll(N("xs"))>>

\* A callback of every method that returns, changes the array, or fails.
WalkMethods == <<"map", "filter", "flatMap", "forEach", "find", "findLast", "findIndex", "findLastIndex", "some", "every", "reduce", "reduceRight">>
Acts ==
  <<<<Return(Some(Op("<", N("x"), Num(2))))>>,
    <<ExprStmt(Send(N("xs"), "push", <<N("x")>>)), Return(Some(Op("===", N("x"), Num(1))))>>,
    <<ExprStmt(Send(N("xs"), "shift", <<>>)), Return(Some(Arr(<<N("x"), Nums(<<0>>)>>)))>>,
    <<If(Op("===", N("x"), Num(1)), Throw(Str("one")), None), Return(Some(Num(0)))>>,
    <<Try(<<ExprStmt(Send(Nums(<<5, 6>>), "forEach", <<Arrow(<<P("y")>>, <<If(Op("===", N("y"), Num(6)), Throw(N("x")), None), Show(N("y"))>>)>>))>>,
          Some("e"), Some(<<Show(N("e"))>>), Some(<<Show(Str("f"))>>)), Return(Some(Undef))>>>>
Callback(method, act) ==
  Arrow((IF method \in {"reduce", "reduceRight"} THEN <<P("acc")>> ELSE <<>>) \o <<P("x"), P("i")>>, <<Show2(N("x"), N("i"))>> \o Acts[act])
WalkProgram(method, act) ==
  <<Let("xs", Nums(<<2, 1, 3>>)),
    FnDecl("f", <<P("k")>>,
      <<Let("own", N("k")), Guarded(<<Let("r", Send(N("xs"), method, <<Callback(method, act)>>)), Show2(Unary("typeof", N("r")), N("r")),
                                      If(Op("===", Unary("typeof", N("r")), Str("object")), Block(<<ShowAll(N("r"))>>), None)>>), Return(Some(N("own")))>>),
    Show(Call(N("f"), <<Num(7)>>)), ShowAll(N("xs")), Show(Call(N("f"), <<Num(8)>>))>>
WalkPrograms == 301..(300 + Len(WalkMethods) * Len(Acts))
WalkProgramAt(i) == LET s == Pick(i - 301, Len(WalkMethods), Len(Acts), 1) IN WalkProgram(WalkMethods[s[1]], s[2])
Walks ==
  <<Let("xs", Nums(<<2, 1, 3>>)), Let("add", Arrow(<<P("a"), P("x")>>, ReturnOf(Plus(N("a"), N("x"))))),
    Show2(Send(N("xs"), "reduce", <<N("add"), Str("s")>>), Send(N("xs"), "reduceRight", <<N("add"), Str("s")>>)),
    Show2(Send(Arr(<<>>), "reduce", <<N("add"), Num(1)>>), Send(Nums(<<4>>), "reduceRight", <<N("add")>>)),
    Guarded(<<Show(Send(Arr(<<>>), "reduce", <<N("add")>>))>>), Guarded(<<Show(Send(N("xs"), "map", <<>>))>>),
    Guarded(<<Show(Send(N("xs"), "forEach", <<Num(1)>>))>>), Show(Send(Arr(<<>>), "map", <<Num(1)>>)),
    ExprStmt(Send(N("xs"), "forEach", <<N("print")>>)),
    \* A walk in a walk, in a method, and left from inside by an exception.
    ShowAll(Send(N("xs"), "flatMap", <<Arrow(<<P("x")>>, ReturnOf(Send(N("xs"), "map", <<Arrow(<<P("y")>>, ReturnOf(Op("*", N("x"), N("y"))))>>)))>>)),
    Let("o", Obj(<<Prop(NameKey("k"), Num(10)), Prop(NameKey("m"), Fn(<<"v">>, ReturnOf(Send(N("v"), "map", <<Arrow(<<P("y")>>, ReturnOf(Plus(N("y"), My("k"))))>>))))>>)),
    ShowAll(Send(N("o"), "m", <<N("xs")>>)),
    Guarded(<<ExprStmt(Send(N("xs"), "map", <<Arrow(<<P("x")>>, ReturnOf(Send(N("xs"), "filter", <<Arrow(<<P("y")>>,
                <<If(Op("===", N("y"), Num(1)), Throw(N("x")), None), Return(Some(Bool(TRUE)))>>)>>)))>>)), Show(Str("not here"))>>),
    \* Callbacks that share a variable with the walk's function, and keep it.
    Let("fs", Send(N("xs"), "map", <<Arrow(<<P("x")>>, ReturnOf(Arrow(<<>>, <<Inc("x"), Return(Some(N("x")))>>)))>>)),
    Show2(Call(Index(N("fs"), Num(0)), <<>>), Call(Index(N("fs"), Num(0)), <<>>)), Show(Call(Index(N("fs"), Num(1)), <<>>)), ShowAll(N("xs"))>>

Features ==
  <<LoopClosures(ForUpTo("i", 3, Capture("i"))), LoopClosures(ForOf(PId("v"), Arr(<<Num(5), Num(6)>>), Block(Capture("v")))),
    LoopClosures(While(Op("<", N("n"), Num(4)), Block(<<Inc("n"), Let("w", N("n"))>> \o Capture("w")))),
    LoopClosures(ForIn(PId("k"), Arr(<<Num(5), Num(6)>>), Block(Capture("k")))),
    Counter, DeepClosure, BlockClosure, ThrownClosure, Recursion, Hoisting, Parameters, PatternParameters, Spreads, Strings, Destructuring,
    ForInOf, ForInChanges, Labels, BreakLocals, Switches, SwitchInLoop, Methods, Accessors, Shapes2, GetterThrows, OptionalChains,
    ShortCircuits, Assignments, Operators, Folding, Deletes, Resources, Errors, Uncaught, Constants, ReturnThrough,
    ClassMembers, Derived, Statics, ClassErrors, Hiding, ClassClosures,
    ArraySlices, ArrayWrites, ArraySearches, ArrayEnds, ArraySorts, Walks>>
FeaturePrograms == 201..(200 + Len(Features))

ProgramAt(i) ==
  CASE i \in TryPrograms -> TryProgramAt(i)
    [] i \in NestedPrograms -> NestedProgramAt(i)
    [] i \in WalkPrograms -> WalkProgramAt(i)
    [] OTHER -> Features[i - 200]
=============================================================================
