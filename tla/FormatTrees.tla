----------------------------- MODULE FormatTrees -----------------------------
(* What the formatter is given: every kind of expression in every place that *)
(* an expression can stand in, and a program for each kind of statement.     *)
EXTENDS Syntax, Sequences, FiniteSets

A == Id("a")
B == Id("b")
Operators == {"=", "||", "??", "&&", "|", "^", "&", "==", "<", "in", "|>", "<<", "+", "-", "/", "**"}
BodyOf(e) == <<Return(Some(e))>>
Two == <<ExprStmt(A), Return(None)>>

\* Expressions of every kind.
Kinds ==
  {"id", "num", "rawnum", "bigint", "str", "regexp", "array", "object", "this", "super", "template", "tagged",
   "negative", "positive", "typeof", "postfix", "await", "yield", "yieldnothing", "delegate", "cond", "arrow",
   "arrowobject", "arrowblock", "asyncarrow", "fn", "generator", "new", "newof", "call", "optcall", "index", "optindex",
   "member", "optmember", "import"}
  \cup Operators
KindOf(k) ==
  CASE k \in Operators -> Binary(k, A, B)
    [] k = "id" -> A
    [] k = "num" -> Num(10)
    [] k = "rawnum" -> RawNum("0x1f")
    [] k = "bigint" -> BigInt(7)
    [] k = "str" -> Str("x'\"\\\n")
    [] k = "regexp" -> RegExp("[/]", "g")
    [] k = "array" -> Arr(<<A, Spread(B)>>)
    [] k = "object" -> Obj(<<Prop(NameKey("a"), A), SpreadEntry(B), GetterEntry(NameKey("g"), Two),
                             SetterEntry(NameKey("s"), P("v"), <<>>), Prop(ComputedKey(B), Num(1))>>)
    [] k = "this" -> This
    [] k = "super" -> Super
    [] k = "template" -> Template(<<Str("$Q"), A, Str("")>>)
    [] k = "tagged" -> TaggedTemplate(A, <<Quasi("\\n", "\n"), Quasi("t", "t")>>, <<B>>)
    [] k = "negative" -> Unary("-", A)
    [] k = "positive" -> Unary("+", A)
    [] k = "typeof" -> Unary("typeof", A)
    [] k = "postfix" -> Postfix("++", A)
    [] k = "await" -> Await(A)
    [] k = "yield" -> Yield(Some(A), FALSE)
    [] k = "yieldnothing" -> Yield(None, FALSE)
    [] k = "delegate" -> Yield(Some(A), TRUE)
    [] k = "cond" -> Conditional(A, B, Id("c"))
    [] k = "arrow" -> Arrow(<<P("x"), Param("y", Some(B), FALSE, None), Param("z", None, TRUE, None)>>, BodyOf(A))
    [] k = "arrowobject" -> Arrow(<<>>, BodyOf(Obj(<<>>)))
    [] k = "arrowblock" -> Arrow(<<P("x")>>, Two)
    [] k = "asyncarrow" -> AsyncIf(Arrow(<<P("x")>>, BodyOf(Await(A))), TRUE)
    [] k = "fn" -> FnExpr("", <<P("x")>>, Two)
    [] k = "generator" -> AsyncIf(GeneratorIf(FnExpr("g", <<>>, <<>>), TRUE), TRUE)
    [] k = "new" -> New(A, <<B>>)
    [] k = "newof" -> New(Member(A, "b"), <<>>)
    [] k = "call" -> Call(A, <<B, Spread(A)>>)
    [] k = "optcall" -> OptCall(A, <<B>>)
    [] k = "index" -> Index(A, B)
    [] k = "optindex" -> OptIndex(A, B)
    [] k = "member" -> Member(A, "#b")
    [] k = "optmember" -> OptMember(A, "b")
    [] k = "import" -> DynamicImport(A)

\* The places of an expression.
Operands == {<<op, side>> : op \in Operators, side \in {"left", "right"}}
OtherPlaces ==
  {"statement", "init", "const", "condition", "then", "else", "negated", "voided", "counted", "awaited",
   "yielded", "delegated", "callee", "argument", "spread", "optcallee", "newcallee", "object", "optobject",
   "indexed", "at", "element", "value", "entry", "key", "body", "default", "patterndefault", "interpolated",
   "tag", "quasi", "imported", "forinit", "fortest", "iterated", "returned", "thrown", "case", "parent",
   "field", "decorator", "used", "exported"}
Places == Operands \cup (OtherPlaces \X {""})
InExpression(place, side, e) ==
  CASE place \in Operators -> IF side = "left" THEN Binary(place, e, B) ELSE Binary(place, B, e)
    [] place = "condition" -> Conditional(e, A, B)
    [] place = "then" -> Conditional(A, e, B)
    [] place = "else" -> Conditional(A, B, e)
    [] place = "negated" -> Unary("-", e)
    [] place = "voided" -> Unary("void", e)
    [] place = "counted" -> Postfix("--", e)
    [] place = "awaited" -> Await(e)
    [] place = "yielded" -> Yield(Some(e), FALSE)
    [] place = "delegated" -> Yield(Some(e), TRUE)
    [] place = "callee" -> Call(e, <<>>)
    [] place = "argument" -> Call(A, <<e, B>>)
    [] place = "spread" -> Call(A, <<Spread(e)>>)
    [] place = "optcallee" -> OptCall(e, <<>>)
    [] place = "newcallee" -> New(e, <<B>>)
    [] place = "object" -> Member(e, "b")
    [] place = "optobject" -> OptMember(e, "b")
    [] place = "indexed" -> Index(e, B)
    [] place = "at" -> OptIndex(B, e)
    [] place = "element" -> Arr(<<e>>)
    [] place = "value" -> Obj(<<Prop(NameKey("b"), e)>>)
    [] place = "entry" -> Obj(<<SpreadEntry(e)>>)
    [] place = "key" -> Obj(<<Prop(ComputedKey(e), B)>>)
    [] place = "body" -> Arrow(<<>>, BodyOf(e))
    [] place = "default" -> Arrow(<<Param("x", Some(e), FALSE, None)>>, Two)
    [] place = "interpolated" -> Template(<<Str(""), e, Str("")>>)
    [] place = "tag" -> TaggedTemplate(e, <<Quasi("", "")>>, <<>>)
    [] place = "quasi" -> TaggedTemplate(A, <<Quasi("", ""), Quasi("", "")>>, <<e>>)
    [] place = "imported" -> DynamicImport(e)
InStatement(place, side, e) ==
  CASE place = "statement" -> ExprStmt(e)
    [] place = "const" -> Var(PId("v"), e, TRUE)
    [] place = "patterndefault" ->
         Var(PArr(<<None, Some(PDefault(PObj(<<PProp("p", Some(PDefault(PId("p"), e))), PProp("q", Some(PId("r")))>>, Some(PId("s"))), A))>>, None), B, FALSE)
    [] place = "forinit" -> For(Some(ExprStmt(e)), None, None, Block(<<>>))
    [] place = "fortest" -> For(Some(Let("i", A)), Some(e), Some(e), Block(<<Empty>>))
    [] place = "iterated" -> ForIn(PId("k"), e, Block(<<>>))
    [] place = "returned" -> FnDecl("f", <<P("x")>>, BodyOf(e))
    [] place = "thrown" -> Throw(e)
    [] place = "case" -> Switch(e, <<Case(e, <<>>)>>, Some(<<>>))
    [] place = "parent" -> Class("K", Some(e), <<>>)
    [] place = "field" -> Class("K", None, <<Field("#f", Some(e), TRUE)>>)
    [] place = "decorator" -> Decorated(Class("K", None, <<Decorated(Method("m", <<>>, <<>>, FALSE), <<e>>)>>), <<e>>)
    [] place = "used" -> AwaitIf(Using("u", e), TRUE)
    [] place = "exported" -> ExportDeclaration(Let("v", e))
    [] OTHER -> Let("v", IF place = "init" THEN e ELSE InExpression(place, side, e))
Placed(place, kind) == <<InStatement(place[1], place[2], KindOf(kind))>>

\* Programs for what is left: statements in statements, and what is written over several lines.
Loop(body) == While(A, Block(<<body>>))
Ten == <<Id("first"), Id("second"), Id("third"), Id("fourth"), Str("a rather long text"), Id("sixth"), Id("seventh")>>
Structures ==
  [nothing |-> <<>>,
   empties |-> <<Empty, Block(<<Empty>>), Empty>>,
   branches |-> <<If(A, Block(<<Debugger>>), Some(If(B, Block(<<>>), Some(Block(<<ExprStmt(A)>>)))))>>,
   jumps |-> <<Labeled("l", DoWhile(Block(<<Continue(Some("l")), Break(Some("l")), Break(None), Continue(None)>>), A))>>,
   loops |-> <<Loop(ForOf(PArr(<<Some(PId("x")), None, None>>, Some(PId("y"))), A, Block(<<ForAwaitOf(PObj(<<>>, None), B, Block(<<>>))>>)))>>,
   tries |-> <<Try(<<>>, None, Some(<<>>), None), Try(<<Throw(A)>>, Some("e"), Some(<<ExprStmt(B)>>), Some(<<Try(<<>>, None, None, Some(<<>>))>>))>>,
   functions |-> <<FnDecl("f", <<>>, <<>>), ExprStmt(A), GeneratorIf(FnDecl("g", <<P("a"), P("b")>>, <<FnDecl("h", <<>>, <<Return(None)>>)>>), TRUE),
      AsyncIf(FnDecl("i", <<>>, <<>>), TRUE), ExprStmt(B), ExprStmt(A)>>,
   members |-> <<Class("K", None, <<Constructor(<<P("a")>>, <<ExprStmt(A)>>), Field("f", None, FALSE), Getter("g", Two, TRUE), Setter("#s", P("v"), <<>>, FALSE),
                         Method("get", <<>>, <<>>, TRUE), StaticBlock(<<ExprStmt(A)>>), Method("K", <<>>, <<>>, TRUE)>>)>>,
   modules |-> <<Import(<<ImportDefault("d")>>, "a", <<>>), Import(<<ImportNamespace("n")>>, "b", <<<<"type", "json">>, <<"k", "v">>>>),
      Import(<<ImportNamed("x"), ImportNamed("y")>>, "c", <<>>), ExportNamed(<<"x", "y">>), ExportDeclaration(FnDecl("f", <<>>, <<>>)),
      ExportDeclaration(Class("K", None, <<>>)), ExportDeclaration(ExprStmt(A))>>,
   lists |-> <<Let("v", Arr(Ten)), Do("f", Ten \o <<Arr(Ten)>>), Let("o", Obj([i \in 1..4 |-> Prop(NameKey("key"), Ten[i])])),
      FnDecl("f", [i \in 1..4 |-> Param(Ten[i].name, Some(Ten[5]), FALSE, None)], <<>>)>>,
   nested |-> <<Loop(Do("f", <<Arrow(<<>>, <<ExprStmt(A), ExprStmt(B)>>), Obj(<<Prop(NameKey("k"), FnExpr("", <<>>, <<ExprStmt(A)>>))>>)>>))>>,
   patternparams |-> <<FnDecl("f", <<Param("__pat__", None, FALSE, Some(PObj(<<PProp("a", None)>>, None))), P("b")>>, BodyOf(A))>>,
   commented |-> <<ExprStmt(A), If(A, Block(<<ExprStmt(B)>>), None), FnDecl("f", <<>>, <<Return(Some(A))>>), Labeled("l", ExprStmt(B))>>,
   \* What the printer cannot write so that it is read back.
   singlebranch |-> <<While(A, ExprStmt(B))>>,
   singleelse |-> <<If(A, Block(<<>>), Some(ExprStmt(B)))>>,
   stringkey |-> <<Let("o", Obj(<<Prop(NameKey("two words"), A)>>))>>,
   keywordkey |-> <<Let("o", Obj(<<Prop(NameKey("Class"), A)>>))>>,
   regexstatement |-> <<Block(<<>>), ExprStmt(Member(RegExp("x", ""), "y"))>>]
Unprintable == {"singlebranch", "singleelse", "stringkey", "keywordkey", "regexstatement"}

\* The kinds of expression that the printer cannot write in a place so that they are read back: where its
\* precedences are not the parser's, and where what it writes begins or ends like something else.
Refused(place, kind) ==
  LET callees == {"callee", "optcallee", "newcallee", "object", "optobject", "indexed", "tag"}
  IN  \/ kind = "arrowobject"
      \/ place[1] \in callees \cup {"counted"} /\ kind \in {"/", "**", "negative", "positive", "typeof", "await"}
      \/ place[1] = "counted" /\ kind \in {"+", "-"}
      \/ /\ place[1] = "newcallee"
         /\ kind \in {"call", "optcall", "new", "newof", "index", "optindex", "optmember", "fn", "generator", "import", "tagged"}
      \/ place \in {<<"=", "right">>, <<"then", "">>} /\ kind \in {"yield", "yieldnothing", "delegate"}
      \/ place[1] \in {"interpolated", "quasi", "parent"} /\ kind = "yieldnothing"
      \/ <<place[1], kind>> \in {<<"negated", "negative">>, <<"body", "object">>, <<"forinit", "in">>}

=============================================================================
