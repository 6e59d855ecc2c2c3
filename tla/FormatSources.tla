---------------------------- MODULE FormatSources ----------------------------
(* Source texts for the formatter.  A tree is written with every composite   *)
(* expression in parentheses and a blank after every token, so that neither  *)
(* the table of precedences nor the printer has a part in what it says.      *)
EXTENDS Syntax, Lexer, SequencesExt

Characters(s) == [i \in 1..Len(s) |-> SubSeq(s, i, i)]
Tokens(ts) == FlattenSeq([i \in DOMAIN ts |-> <<ts[i], " ">>])
Symbol(s) == Characters(s) \o <<" ">>
Identifier(n) ==
  IF n # "" /\ SubSeq(n, 1, 1) = "#" THEN <<"#", SubSeq(n, 2, Len(n)), " ">> ELSE <<n, " ">>
SeparatedBy(ts, separator) == FlattenSeq([i \in DOMAIN ts |-> IF i = 1 THEN ts[i] ELSE separator \o ts[i]])
InParens(t) == Tokens(<<"(">>) \o t \o Tokens(<<")">>)
InBraces(t) == Tokens(<<"{">>) \o t \o Tokens(<<"}">>)
If1(condition, t) == IF condition THEN t ELSE <<>>

RECURSIVE WExpr(_), WStmt(_), WPattern(_)
WList(es) == SeparatedBy([i \in DOMAIN es |-> WExpr(es[i])], Tokens(<<",">>))
WBlock(stmts) == InBraces(FlattenSeq([i \in DOMAIN stmts |-> WStmt(stmts[i])]))
WOptional(before, o) == IF o = None THEN <<>> ELSE before \o WExpr(Get(o))
WParam(param) ==
  If1(param.rest, Symbol("..."))
  \o (IF param.pattern = None THEN Identifier(param.name) ELSE WPattern(Get(param.pattern)))
  \o WOptional(Symbol("="), param.default)
WParams(params) == InParens(SeparatedBy([i \in DOMAIN params |-> WParam(params[i])], Tokens(<<",">>)))
WFunction(f, name) ==
  If1(Has(f, "async"), Tokens(<<"Async">>)) \o Tokens(<<IF Has(f, "generator") THEN "GeneratorFn" ELSE "Yopta">>)
  \o If1(name # "", Identifier(name)) \o WParams(f.params) \o WBlock(f.body)
WArrow(f) ==
  If1(Has(f, "async"), Tokens(<<"Async">>)) \o WParams(f.params) \o Symbol("=>")
  \o (IF Len(f.body) = 1 /\ f.body[1].k = "return" /\ f.body[1].value # None
      THEN InParens(WExpr(Get(f.body[1].value))) ELSE WBlock(f.body))
Quoted(s) ==
  LET Escaped(ch) == CASE ch = "\n" -> <<"\\", "n">> [] ch \in {"\\", "\""} -> <<"\\", ch>> [] OTHER -> <<ch>>
  IN  <<"\"">> \o FlattenSeq([i \in 1..Len(s) |-> Escaped(SubSeq(s, i, i))]) \o <<"\"", " ">>
IsIdentifier(n) == n \notin KeywordKind /\ \A i \in 1..Len(n) : IsAlnum(SubSeq(n, i, i))
WKey(key) ==
  IF key.k = "name" THEN (IF IsIdentifier(key.name) THEN Identifier(key.name) ELSE Quoted(key.name))
  ELSE Tokens(<<"[">>) \o WExpr(key.e) \o Tokens(<<"]">>)
WEntry(x) ==
  CASE x.k = "property" -> WKey(x.key) \o Tokens(<<":">>) \o WExpr(x.value)
    [] x.k = "spread" -> Symbol("...") \o WExpr(x.e)
    [] x.k = "getter" -> Tokens(<<"get">>) \o WKey(x.key) \o Tokens(<<"(", ")">>) \o WBlock(x.body)
    [] x.k = "setter" -> Tokens(<<"set">>) \o WKey(x.key) \o InParens(WParam(x.param)) \o WBlock(x.body)
WTemplate(texts, exprs) ==
  <<Backquote>>
  \o FlattenSeq([i \in DOMAIN texts |-> texts[i] \o (IF i > Len(exprs) THEN <<>> ELSE <<"$", "{">> \o WExpr(exprs[i]) \o <<"}">>)])
  \o <<Backquote, " ">>
TemplateText(s) ==
  FlattenSeq([i \in 1..Len(s) |-> LET ch == SubSeq(s, i, i) IN IF ch \in {"\\", Backquote, "$"} THEN <<"\\", ch>> ELSE <<ch>>])
Half(n) == (n + 1) \div 2
WKeyword == [typeof |-> "Typeof", delete |-> "Delete", void |-> "Void", instanceof |-> "Instanceof", in |-> "In"]
WOperator(op) == IF op \in DOMAIN WKeyword THEN Tokens(<<WKeyword[op]>>) ELSE Symbol(op)
WAtomic(e) ==
  CASE e.k = "num" -> Characters(ToString(e.n)) \o <<" ">>
    [] e.k = "rawnum" -> Characters(e.raw) \o <<" ">>
    [] e.k = "bigint" -> Characters(ToString(e.n)) \o <<"n", " ">>
    [] e.k = "regexp" -> <<"/">> \o Characters(e.pattern) \o <<"/">> \o If1(e.flags # "", <<e.flags>>) \o <<" ">>
    [] e.k = "str" -> Quoted(e.s)
    [] e.k = "bool" -> Tokens(<<IF e.b THEN "Pravda" ELSE "Lozh">>)
    [] e.k = "null" -> Tokens(<<"Nol">>)
    [] e.k = "undef" -> Tokens(<<"Undefined">>)
    [] e.k = "array" -> Tokens(<<"[">>) \o WList(e.elements) \o Tokens(<<"]">>)
    [] e.k = "object" ->
         InBraces(SeparatedBy([i \in DOMAIN e.entries |-> WEntry(e.entries[i])], Tokens(<<",">>)))
    [] e.k = "id" -> Identifier(e.name)
    [] e.k = "this" -> Tokens(<<"This">>)
    [] e.k = "super" -> Tokens(<<"Super">>)
    [] e.k = "grouping" -> InParens(WExpr(e.e))
    [] e.k = "spreadarg" -> Symbol("...") \o WExpr(e.e)
    [] e.k = "template" ->
         LET n == Half(Len(e.parts))
         IN  WTemplate([i \in 1..n |-> TemplateText(e.parts[2 * i - 1].s)], [i \in 1..(n - 1) |-> e.parts[2 * i]])
WComposite(e) ==
  CASE e.k = "unary" -> WOperator(e.op) \o WExpr(e.e)
    [] e.k = "binary" -> WExpr(e.l) \o WOperator(e.op) \o WExpr(e.r)
    [] e.k = "postfix" -> WExpr(e.e) \o Symbol(e.op)
    [] e.k = "call" -> WExpr(e.callee) \o InParens(WList(e.args))
    [] e.k = "optcall" -> WExpr(e.callee) \o Symbol("?.") \o InParens(WList(e.args))
    [] e.k = "new" -> Tokens(<<"New">>) \o WExpr(e.callee) \o InParens(WList(e.args))
    [] e.k = "index" -> WExpr(e.o) \o Tokens(<<"[">>) \o WExpr(e.i) \o Tokens(<<"]">>)
    [] e.k = "optindex" -> WExpr(e.o) \o Symbol("?.") \o Tokens(<<"[">>) \o WExpr(e.i) \o Tokens(<<"]">>)
    [] e.k = "member" -> WExpr(e.o) \o Tokens(<<".">>) \o Identifier(e.name)
    [] e.k = "optmember" -> WExpr(e.o) \o Symbol("?.") \o Identifier(e.name)
    [] e.k = "cond" -> WExpr(e.c) \o Tokens(<<"?">>) \o WExpr(e.t) \o Tokens(<<":">>) \o WExpr(e.f)
    [] e.k = "arrow" -> WArrow(e)
    [] e.k = "fn" -> WFunction(e, e.name)
    [] e.k = "yield" -> Tokens(<<IF e.delegate THEN "YieldDelegate" ELSE "Yield">>) \o WOptional(<<>>, e.arg)
    [] e.k = "await" -> Tokens(<<"Await">>) \o WExpr(e.e)
    [] e.k = "import" -> Tokens(<<"Import">>) \o InParens(WExpr(e.e))
    [] e.k = "tagged" -> WExpr(e.tag) \o WTemplate([i \in DOMAIN e.quasis |-> Characters(e.quasis[i].raw)], e.exprs)
Atomic ==
  {"num", "rawnum", "bigint", "regexp", "str", "bool", "null", "undef", "array", "object", "id", "this", "super",
   "grouping", "spreadarg", "template"}
WExpr(e) == IF e.k \in Atomic THEN WAtomic(e) ELSE InParens(WComposite(e))

WRest(rest) == IF rest = None THEN <<>> ELSE <<Symbol("...") \o WPattern(Get(rest))>>
WProp(prop) == Identifier(prop.key) \o (IF prop.value = None THEN <<>> ELSE Tokens(<<":">>) \o WPattern(Get(prop.value)))
WPattern(p) ==
  CASE p.k = "id" -> Identifier(p.name)
    [] p.k = "default" -> WPattern(p.p) \o Symbol("=") \o WExpr(p.e)
    [] p.k = "array" ->
         LET Element(o) == IF o = None THEN <<>> ELSE WPattern(Get(o))
         IN  Tokens(<<"[">>) \o SeparatedBy([i \in DOMAIN p.elements |-> Element(p.elements[i])] \o WRest(p.rest), Tokens(<<",">>))
             \o Tokens(<<"]">>)
    [] p.k = "object" ->
         InBraces(SeparatedBy([i \in DOMAIN p.props |-> WProp(p.props[i])] \o WRest(p.rest), Tokens(<<",">>)))

WName(word, name) == Tokens(<<word>>) \o Identifier(name)
WVar(s) == Tokens(<<IF s.const THEN "YasenHuy" ELSE "Gyy">>) \o WPattern(s.pattern) \o Symbol("=") \o WExpr(s.init) \o Tokens(<<";">>)
WForEach(words, s, word) ==
  Tokens(words) \o InParens(Tokens(<<"Gyy">>) \o WPattern(s.pattern) \o Tokens(<<word>>) \o WExpr(s.e)) \o WStmt(s.body)
WMember(m, class) ==
  LET ds == DecoratorsOf(m)
  IN  FlattenSeq([i \in DOMAIN ds |-> Tokens(<<"@">>) \o WExpr(ds[i])])
      \o If1(m.static, Tokens(<<"Static">>))
      \o CASE m.role = "constructor" -> Identifier(class) \o WParams(m.params) \o WBlock(m.body)
           [] m.role = "block" -> WBlock(m.body)
           [] m.role = "field" -> Identifier(m.name) \o WOptional(Symbol("="), m.init) \o Tokens(<<";">>)
           [] m.role = "method" -> Identifier(m.name) \o WParams(m.params) \o WBlock(m.body)
           [] OTHER -> WName(m.role, m.name) \o WParams(m.params) \o WBlock(m.body)
WSpec(spec) == If1(spec.k = "namespace", Tokens(<<"*", "kak">>)) \o Identifier(spec.local)
WSpecs(specs) ==
  LET ts == SeparatedBy([i \in DOMAIN specs |-> WSpec(specs[i])], Tokens(<<",">>))
  IN  IF specs[1].k = "named" THEN InBraces(ts) ELSE ts
WAttributes(attributes) ==
  IF attributes = <<>> THEN <<>>
  ELSE Tokens(<<"with">>)
       \o InBraces(SeparatedBy([i \in DOMAIN attributes |-> Identifier(attributes[i][1]) \o Tokens(<<":">>) \o Quoted(attributes[i][2])],
                               Tokens(<<",">>)))
End == Tokens(<<";">>)
WSimple(s) ==
  CASE s.k = "var" -> WVar(s)
    [] s.k = "using" -> Tokens(<<"Using">>) \o If1(Has(s, "await"), Tokens(<<"Await">>)) \o Identifier(s.name) \o Symbol("=") \o WExpr(s.init) \o End
    [] s.k = "expr" -> InParens(WExpr(s.e)) \o End
    [] s.k = "empty" -> End
    [] s.k = "break" -> Tokens(<<"Hare">>) \o (IF s.label = None THEN <<>> ELSE Identifier(Get(s.label))) \o End
    [] s.k = "continue" -> Tokens(<<"Dvigay">>) \o (IF s.label = None THEN <<>> ELSE Identifier(Get(s.label))) \o End
    [] s.k = "return" -> WOptional(Tokens(<<"Otvechayu">>), s.value) \o If1(s.value = None, Tokens(<<"Otvechayu">>)) \o End
    [] s.k = "throw" -> Tokens(<<"Throw">>) \o WExpr(s.e) \o End
    [] s.k = "debugger" -> Tokens(<<"Debugger">>) \o End
    [] s.k = "import" -> Tokens(<<"Import">>) \o WSpecs(s.specs) \o Tokens(<<"In">>) \o Quoted(s.source) \o WAttributes(s.attributes) \o End
    [] s.k = "exportnames" ->
         Tokens(<<"Export">>) \o InBraces(SeparatedBy([i \in DOMAIN s.names |-> Identifier(s.names[i])], Tokens(<<",">>))) \o End
WCompound(s) ==
  CASE s.k = "block" -> WBlock(s.stmts)
    [] s.k = "if" ->
         Tokens(<<"Vilkoyvglaz">>) \o InParens(WExpr(s.c)) \o WStmt(s.t)
         \o (IF s.f = None THEN <<>> ELSE Tokens(<<"Ilivzhopuraz">>) \o WStmt(Get(s.f)))
    [] s.k = "while" -> Tokens(<<"Potreshchim">>) \o InParens(WExpr(s.c)) \o WStmt(s.body)
    [] s.k = "dowhile" -> Tokens(<<"DoWhile">>) \o WStmt(s.body) \o Tokens(<<"Potreshchim">>) \o InParens(WExpr(s.c)) \o End
    [] s.k = "for" ->
         Tokens(<<"Go">>)
         \o InParens((IF s.init = None THEN End ELSE WSimple(Get(s.init))) \o WOptional(<<>>, s.c) \o End \o WOptional(<<>>, s.update))
         \o WStmt(s.body)
    [] s.k = "forin" -> WForEach(<<"Go">>, s, "In")
    [] s.k = "forof" -> WForEach(<<"Go">>, s, "Of")
    [] s.k = "forawait" -> WForEach(<<"Go", "Await">>, s, "Of")
    [] s.k = "labeled" -> Identifier(s.label) \o Tokens(<<":">>) \o WStmt(s.body)
    [] s.k = "fndecl" -> WFunction(s, s.name)
    [] s.k = "try" ->
         Tokens(<<"Try">>) \o WBlock(s.body)
         \o (IF s.handler = None THEN <<>>
             ELSE Tokens(<<"Catch">>) \o (IF s.param = None THEN <<>> ELSE InParens(Identifier(Get(s.param)))) \o WBlock(Get(s.handler)))
         \o (IF s.finally = None THEN <<>> ELSE Tokens(<<"Finally">>) \o WBlock(Get(s.finally)))
    [] s.k = "switch" ->
         Tokens(<<"Switch">>) \o InParens(WExpr(s.e))
         \o InBraces(FlattenSeq([i \in DOMAIN s.cases |->
                       Tokens(<<"Case">>) \o WExpr(s.cases[i].e) \o Tokens(<<":">>) \o WBlock(s.cases[i].body)])
                     \o (IF s.default = None THEN <<>> ELSE Tokens(<<"Default">>) \o WBlock(Get(s.default))))
    [] s.k = "class" ->
         LET ds == DecoratorsOf(s)
         IN  FlattenSeq([i \in DOMAIN ds |-> Tokens(<<"@">>) \o WExpr(ds[i])])
             \o WName("Class", s.name) \o WOptional(Tokens(<<"Extends">>), s.parent)
             \o InBraces(FlattenSeq([i \in DOMAIN s.members |-> WMember(s.members[i], s.name)]))
    [] s.k = "export" -> Tokens(<<"Export">>) \o WStmt(s.s)
Simple == {"var", "using", "expr", "empty", "break", "continue", "return", "throw", "debugger", "import", "exportnames"}
WStmt(s) == IF s.k \in Simple THEN WSimple(s) ELSE WCompound(s)
Written(program) == FlattenSeq([i \in DOMAIN program |-> WStmt(program[i])])

-----------------------------------------------------------------------------
(* The same on several lines, in words, and with two comments before any two *)
(* of its blanks.                                                            *)

OnLines(text) ==
  [i \in DOMAIN text |-> IF i > 1 /\ text[i] = " " /\ text[i - 1] \in {";", "{", "}"} THEN "\n" ELSE text[i]]
InWords(text) == [i \in DOMAIN text |-> CASE text[i] = ";" -> "blya" [] text[i] = "{" -> "zhY" [] OTHER -> text[i]]
Comment2(kind, word) ==
  IF kind = "block" THEN <<"/", "*", word, "*", "/", " ">> ELSE <<"/", "/", word, "\n">>
BlanksOf(text) == {i \in DOMAIN text : text[i] \in Blanks}
Commented(text, i, first, j, second) ==
  SubSeq(text, 1, i - 1) \o Comment2(first, "c") \o SubSeq(text, i, j - 1) \o Comment2(second, "d") \o SubSeq(text, j, Len(text))
=============================================================================
