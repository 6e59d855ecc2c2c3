------------------------------- MODULE Printer -------------------------------
(* The printer of yps-fmt (src/printer.rs).  A node becomes a document, a    *)
(* sequence of pieces; Render writes a document as atoms of the lexer, with  *)
(* the indentation, the comments of each statement, and a list on one line   *)
(* where it fits and on a line for every item where it does not.             *)
EXTENDS Syntax, Precedence, Lexer

LOCAL INSTANCE TLC
LOCAL INSTANCE SequencesExt

CONSTANT MaxWidth              \* MAX_WIDTH; a line is as wide as it has atoms
ASSUME PrinterAssumption == MaxWidth \in Nat

-----------------------------------------------------------------------------
(* Documents.                                                                *)

Text(atoms) == <<[p |-> "text", atoms |-> atoms]>>
Word(w) == Text(<<w>>)
Spaced(w) == Text(<<" ", w, " ">>)
Newline == Text(<<"\n">>)
Indentation == <<[p |-> "indentation"]>>
Shift(by) == <<[p |-> "shift", by |-> by]>>
Inside(doc) == Shift(1) \o doc \o Shift(-1)
CommentsBefore(s) == <<[p |-> "leading", at |-> s.at]>>
CommentsAfter(s) == <<[p |-> "trailing", at |-> s.at]>>
Nothing == <<>>
\* print_delimited
Delimited(open, close, pad, items) ==
  <<[p |-> "list", open |-> open, close |-> close, pad |-> IF pad THEN <<" ">> ELSE <<>>, items |-> items]>>
Joined(docs, separator) ==
  FlattenSeq([i \in DOMAIN docs |-> IF i = 1 THEN docs[i] ELSE separator \o docs[i]])
Commas == Text(<<",", " ">>)
Parens(doc) == Word("(") \o doc \o Word(")")
ParensIf(wrap, doc) == IF wrap THEN Parens(doc) ELSE doc

-----------------------------------------------------------------------------
(* A writer: what it has written, how deep it is indented, and the comments  *)
(* by the places of their statements.                                        *)

Write(w, atoms) == [w EXCEPT !.out = @ \o atoms]
INDENT == <<" ", " ", " ", " ">>
Indent(w) == Write(w, FlattenSeq([i \in 1..w.depth |-> INDENT]))
CurrentCol(w) == Len(w.out) - (IF Contains(w.out, "\n") THEN SelectLastInSeq(w.out, LAMBDA a : a = "\n") ELSE 0)

EmitLeading(w, at) ==
  IF at \notin DOMAIN w.comments.leading THEN w
  ELSE FoldLeft(LAMBDA v, text : Write(Write(Indent(v), text), <<"\n">>), w, w.comments.leading[at])
\* Mutant: a comment behind a statement is written on the next line.
EmitTrailingBelow(w, at) ==
  IF at \in DOMAIN w.comments.trailing THEN Write(w, <<"\n">> \o w.comments.trailing[at]) ELSE w
EmitTrailing(w, at) ==
  IF at \in DOMAIN w.comments.trailing THEN Write(w, <<" ">> \o w.comments.trailing[at]) ELSE w

RECURSIVE Render(_, _)
\* What a document is on a line of its own.
Capture(w, doc) == Render([w EXCEPT !.out = <<>>], doc).out
RenderLines(w, l) ==
  LET n == Len(l.items)
      Item(v, i) == Write(Render(Indent(v), l.items[i]), IF i < n THEN <<",", "\n">> ELSE <<"\n">>)
      lines == FoldLeft(Item, [Write(w, <<l.open, "\n">>) EXCEPT !.depth = @ + 1], [i \in 1..n |-> i])
  IN  Write(Indent([lines EXCEPT !.depth = @ - 1]), <<l.close>>)
PrintDelimited(w, l) ==
  LET inline == Capture(w, Joined(l.items, Commas))
      width == CurrentCol(w) + 1 + 2 * Len(l.pad) + Len(inline) + 1
  IN  IF l.items = <<>> THEN Write(w, <<l.open, l.close>>)
      ELSE IF ~ Contains(inline, "\n") /\ width <= MaxWidth
      THEN Write(w, <<l.open>> \o l.pad \o inline \o l.pad \o <<l.close>>)
      ELSE RenderLines(w, l)
RenderPiece(w, x) ==
  CASE x.p = "text" -> Write(w, x.atoms)
    [] x.p = "indentation" -> Indent(w)
    [] x.p = "shift" -> [w EXCEPT !.depth = @ + x.by]
    [] x.p = "leading" -> EmitLeading(w, x.at)
    [] x.p = "trailing" -> EmitTrailing(w, x.at)
    [] x.p = "list" -> PrintDelimited(w, x)
\* The pieces one after the other.  Halving the document, and looking at the writer (which is never that
\* shallow) before the second half, keeps the evaluation from nesting as deep as the document is long.
Render(w, doc) ==
  LET half == Len(doc) \div 2
      middle == Render(w, SubSeq(doc, 1, half))
  IN  CASE doc = <<>> \/ w.depth < 0 -> w
        [] Len(doc) = 1 -> RenderPiece(w, doc[1])
        [] OTHER -> Render(middle, SubSeq(doc, half + 1, Len(doc)))

-----------------------------------------------------------------------------
(* Names and literals.                                                       *)

Chars(s) == [i \in 1..Len(s) |-> SubSeq(s, i, i)]
\* A name is one word, or a word after a `#`; anything else is only ever the key of a string.
Name(n) ==
  LET cs == Chars(n)
      from == IF cs # <<>> /\ cs[1] = "#" THEN 2 ELSE 1
      isWord == Len(cs) >= from /\ cs[from] \notin Digits /\ \A i \in from..Len(cs) : IsAlnum(cs[i])
  IN  Text(IF isWord THEN SubSeq(cs, 1, from - 1) \o <<SubSeq(n, from, Len(n))>> ELSE cs)

QuoteChar(ch, quote) ==
  CASE ch = "\n" -> <<"\\", "n">>
    [] ch = "\t" -> <<"\\", "t">>
    [] ch = "\r" -> <<"\\", "r">>
    [] ch = "\f" -> <<"\\", "0">>
    [] ch = "\\" -> <<"\\", "\\">>
    [] ch = quote -> <<"\\", quote>>
    [] OTHER -> <<ch>>
QuoteString(value) ==
  LET cs == Chars(value)
      quote == IF Contains(cs, "\"") /\ ~ Contains(cs, "'") THEN "'" ELSE "\""
  IN  Text(<<quote>> \o FlattenSeq([i \in DOMAIN cs |-> QuoteChar(cs[i], quote)]) \o <<quote>>)

EscapeTemplate(value) ==
  LET Escaped(ch) ==
        CASE ch \in {"\\", Backquote, "$"} -> <<"\\", ch>>
          [] ch = "\r" -> <<"\\", "r">>
          [] ch = "\f" -> <<"\\", "0">>
          [] OTHER -> <<ch>>
      cs == Chars(value)
  IN  Text(FlattenSeq([i \in DOMAIN cs |-> Escaped(cs[i])]))

-----------------------------------------------------------------------------
(* Expressions; parent is the precedence the place asks for.                 *)

Ellipsis == <<".", ".", ".">>
RECURSIVE ExprDoc(_, _), StmtDoc(_), PatternDoc(_)
Exprs(es) == [i \in DOMAIN es |-> ExprDoc(es[i], 0)]
Args(es) == Delimited("(", ")", FALSE, Exprs(es))
OptExpr(before, o, after) == IF o = None THEN Nothing ELSE before \o ExprDoc(Get(o), 0) \o after

\* Mutant: the line ends before the comment behind the statement.
StmtLineCommentsLast(s) == CommentsBefore(s) \o Indentation \o StmtDoc(s) \o Newline \o CommentsAfter(s)
StmtLine(s) == CommentsBefore(s) \o Indentation \o StmtDoc(s) \o CommentsAfter(s) \o Newline
Shown(stmts) == SelectSeq(stmts, LAMBDA s : s.k # "empty")
BlockDoc(stmts) ==
  LET shown == Shown(stmts)
  IN  IF shown = <<>> THEN Text(<<"{", "}">>)
      ELSE Text(<<"{", "\n">>) \o Inside(FlattenSeq([i \in DOMAIN shown |-> StmtLine(shown[i])])) \o Indentation \o Word("}")

\* A pattern in the place of a parameter is not written, only the name the parser gave it.
ParamDoc(param) ==
  (IF param.rest THEN Text(Ellipsis) ELSE Nothing) \o Name(param.name) \o OptExpr(Spaced("="), param.default, Nothing)
Params(params) == Delimited("(", ")", FALSE, [i \in DOMAIN params |-> ParamDoc(params[i])])
AsyncWord(f) == IF Has(f, "async") THEN Text(<<"Async", " ">>) ELSE Nothing
FunctionWord(f) == Word(IF Has(f, "generator") THEN "GeneratorFn" ELSE "Yopta")
FunctionRest(f) == Params(f.params) \o Word(" ") \o BlockDoc(f.body)

ArrowBody(body) ==
  IF Len(body) = 1 /\ body[1].k = "return" /\ body[1].value # None
  THEN LET value == Get(body[1].value) IN ParensIf(value.k = "object", ExprDoc(value, 0))
  ELSE BlockDoc(body)

KeyDoc(key) == IF key.k = "name" THEN Name(key.name) ELSE Word("[") \o ExprDoc(key.e, 0) \o Word("]")
EntryDoc(entry) ==
  CASE entry.k = "property" /\ entry.key.k = "name" /\ entry.value = Id(entry.key.name) -> Name(entry.key.name)
    [] entry.k = "property" /\ ~ (entry.key.k = "name" /\ entry.value = Id(entry.key.name)) ->
         KeyDoc(entry.key) \o Text(<<":", " ">>) \o ExprDoc(entry.value, 0)
    [] entry.k = "spread" -> Text(Ellipsis) \o ExprDoc(entry.e, AssignPrecedence + 1)
    [] entry.k = "getter" -> Text(<<"get", " ">>) \o KeyDoc(entry.key) \o Text(<<"(", ")", " ">>) \o BlockDoc(entry.body)
    [] entry.k = "setter" ->
         Text(<<"set", " ">>) \o KeyDoc(entry.key) \o Parens(ParamDoc(entry.param)) \o Word(" ") \o BlockDoc(entry.body)

Interpolation(e) == Text(<<"$", "{">>) \o ExprDoc(e, 0) \o Word("}")
TemplateDoc(parts) ==
  Word(Backquote)
  \o FlattenSeq([i \in DOMAIN parts |-> IF i % 2 = 1 THEN EscapeTemplate(parts[i].s) ELSE Interpolation(parts[i])])
  \o Word(Backquote)
TaggedDoc(quasis, exprs) ==
  Word(Backquote)
  \o FlattenSeq([i \in DOMAIN quasis |->
       (IF i > 1 THEN Interpolation(exprs[i - 1]) ELSE Nothing) \o Text(Chars(quasis[i].raw))])
  \o Word(Backquote)

IsLiteral(e) == e.k \in {"num", "rawnum", "bigint", "regexp", "str", "bool", "null", "undef", "array", "object"}
LiteralDoc(e) ==
  CASE e.k = "num" -> Text(Chars(ToString(e.n)))
    [] e.k = "rawnum" -> Text(Chars(e.raw))
    [] e.k = "bigint" -> Text(Append(Chars(ToString(e.n)), "n"))
    [] e.k = "regexp" -> Text(<<"/">> \o Chars(e.pattern) \o <<"/">>) \o (IF e.flags = "" THEN Nothing ELSE Word(e.flags))
    [] e.k = "str" -> QuoteString(e.s)
    [] e.k = "bool" -> Word(IF e.b THEN "Pravda" ELSE "Lozh")
    [] e.k = "null" -> Word("Nol")
    [] e.k = "undef" -> Word("Undefined")
    [] e.k = "array" -> Delimited("[", "]", FALSE, Exprs(e.elements))
    [] e.k = "object" -> Delimited("{", "}", TRUE, [i \in DOMAIN e.entries |-> EntryDoc(e.entries[i])])

UnaryWord == [typeof |-> "Typeof", delete |-> "Delete", void |-> "Void"]
UnaryOpDoc(op) == IF op \in DOMAIN UnaryWord THEN Text(<<UnaryWord[op], " ">>) ELSE Word(op)
BinaryWord(op) == CASE op = "instanceof" -> "Instanceof" [] op = "in" -> "In" [] OTHER -> op
\* The operators of the lexer are single atoms only where they are single characters.
Op(op) == IF op \in OperatorKind THEN Text(Chars(op)) ELSE Word(op)
Callee(e) == ExprDoc(e, CallPrecedence)

\* Mutant: the right operand is given the precedence of the left one.
BinaryDocLeftAssoc(e) ==
  LET prec == BinaryPrecedence(e.op)
  IN  ExprDoc(e.l, prec) \o Word(" ") \o Op(BinaryWord(e.op)) \o Word(" ") \o ExprDoc(e.r, prec)
BinaryDoc(e) ==
  LET prec == BinaryPrecedence(e.op)
      left == IF BinaryIsRightAssoc(e.op) THEN prec + 1 ELSE prec
      right == IF BinaryIsRightAssoc(e.op) THEN prec ELSE prec + 1
  IN  ExprDoc(e.l, left) \o Word(" ") \o Op(BinaryWord(e.op)) \o Word(" ") \o ExprDoc(e.r, right)
ConditionalDoc(e) ==
  ExprDoc(e.c, TernaryPrecedence + 1) \o Spaced("?") \o ExprDoc(e.t, 0) \o Spaced(":") \o ExprDoc(e.f, TernaryPrecedence)
FunctionDoc(e) ==
  AsyncWord(e) \o FunctionWord(e) \o (IF e.name = "" THEN Nothing ELSE Word(" ") \o Name(e.name)) \o FunctionRest(e)
YieldDoc(e) ==
  Word(IF e.delegate THEN "YieldDelegate" ELSE "Yield") \o OptExpr(Word(" "), e.arg, Nothing)

ExprDoc(e, parent) ==
  CASE IsLiteral(e) -> LiteralDoc(e)
    [] e.k = "grouping" -> ExprDoc(e.e, parent)
    [] e.k = "id" -> Name(e.name)
    [] e.k = "this" -> Word("This")
    [] e.k = "super" -> Word("Super")
    [] e.k = "unary" -> ParensIf(UnaryPrecedence < parent, UnaryOpDoc(e.op) \o ExprDoc(e.e, UnaryPrecedence))
    [] e.k = "postfix" -> ParensIf(PostfixPrecedence < parent, ExprDoc(e.e, PostfixPrecedence) \o Op(e.op))
    [] e.k = "binary" -> ParensIf(BinaryPrecedence(e.op) < parent, BinaryDoc(e))
    [] e.k = "cond" -> ParensIf(TernaryPrecedence < parent, ConditionalDoc(e))
    [] e.k = "call" -> Callee(e.callee) \o Args(e.args)
    [] e.k = "optcall" -> Callee(e.callee) \o Text(<<"?", ".">>) \o Args(e.args)
    [] e.k = "new" -> ParensIf(CallPrecedence < parent, Text(<<"New", " ">>) \o Callee(e.callee) \o Args(e.args))
    [] e.k = "index" -> Callee(e.o) \o Word("[") \o ExprDoc(e.i, 0) \o Word("]")
    [] e.k = "optindex" -> Callee(e.o) \o Text(<<"?", ".", "[">>) \o ExprDoc(e.i, 0) \o Word("]")
    [] e.k = "member" -> Callee(e.o) \o Word(".") \o Name(e.name)
    [] e.k = "optmember" -> Callee(e.o) \o Text(<<"?", ".">>) \o Name(e.name)
    [] e.k = "arrow" ->
         ParensIf(parent > AssignPrecedence,
           AsyncWord(e) \o Params(e.params) \o Text(<<" ", "=", ">", " ">>) \o ArrowBody(e.body))
    [] e.k = "fn" -> FunctionDoc(e)
    [] e.k = "spreadarg" -> Text(Ellipsis) \o ExprDoc(e.e, 0)
    [] e.k = "yield" -> ParensIf(AssignPrecedence < parent, YieldDoc(e))
    [] e.k = "await" -> ParensIf(UnaryPrecedence < parent, Text(<<"Await", " ">>) \o ExprDoc(e.e, UnaryPrecedence))
    [] e.k = "import" -> Word("Import") \o Parens(ExprDoc(e.e, 0))
    [] e.k = "template" -> TemplateDoc(e.parts)
    [] e.k = "tagged" -> Callee(e.tag) \o TaggedDoc(e.quasis, e.exprs)

-----------------------------------------------------------------------------
(* Patterns.                                                                 *)

PropDoc(prop) ==
  LET value == Get(prop.value)
  IN  CASE prop.value = None -> Name(prop.key)
        [] prop.value # None /\ value.k = "default" /\ value.p = PId(prop.key) ->
             Name(prop.key) \o Spaced("=") \o ExprDoc(value.e, 0)
        [] OTHER -> Name(prop.key) \o Text(<<":", " ">>) \o PatternDoc(value)
RestDoc(rest) == IF rest = None THEN <<>> ELSE <<Text(Ellipsis) \o PatternDoc(Get(rest))>>
PatternDoc(pattern) ==
  CASE pattern.k = "id" -> Name(pattern.name)
    [] pattern.k = "default" -> PatternDoc(pattern.p) \o Spaced("=") \o ExprDoc(pattern.e, 0)
    [] pattern.k = "array" ->
         LET Element(o) == IF o = None THEN Nothing ELSE PatternDoc(Get(o))
         IN  Word("[")
             \o Joined([i \in DOMAIN pattern.elements |-> Element(pattern.elements[i])] \o RestDoc(pattern.rest), Commas)
             \o Word("]")
    [] pattern.k = "object" ->
         Text(<<"{", " ">>)
         \o Joined([i \in DOMAIN pattern.props |-> PropDoc(pattern.props[i])] \o RestDoc(pattern.rest), Commas)
         \o Text(<<" ", "}">>)

-----------------------------------------------------------------------------
(* Statements.                                                               *)

Conditioned(word, e) == Text(<<word, " ">>) \o Parens(ExprDoc(e, 0)) \o Word(" ")
\* A branch is written as a block, also when it is a single statement.
BranchDoc(s) == IF s.k = "block" THEN BlockDoc(s.stmts) ELSE Text(<<"{", "\n">>) \o Inside(StmtLine(s)) \o Indentation \o Word("}")
VarDoc(s) ==
  Text(<<IF s.const THEN "YasenHuy" ELSE "Gyy", " ">>) \o PatternDoc(s.pattern) \o Spaced("=") \o ExprDoc(s.init, 0) \o Word(";")
ForInitDoc(s) == CASE s.k = "var" -> VarDoc(s) [] s.k = "expr" -> ExprDoc(s.e, 0) \o Word(";") [] OTHER -> StmtDoc(s)
ForDoc(s) ==
  Text(<<"Go", " ", "(">>) \o (IF s.init = None THEN Word(";") ELSE ForInitDoc(Get(s.init))) \o OptExpr(Word(" "), s.c, Nothing)
  \o Word(";") \o OptExpr(Word(" "), s.update, Nothing) \o Text(<<")", " ">>) \o BranchDoc(s.body)
ForEachDoc(s, head, word) ==
  Text(head) \o Text(<<"(", "Gyy", " ">>) \o PatternDoc(s.pattern) \o Spaced(word) \o ExprDoc(s.e, 0) \o Text(<<")", " ">>)
  \o BranchDoc(s.body)
JumpDoc(word, label) == Word(word) \o (IF label = None THEN Nothing ELSE Word(" ") \o Name(Get(label))) \o Word(";")
ElseDoc(s) == Spaced("Ilivzhopuraz") \o (IF s.k = "if" THEN StmtDoc(s) ELSE BranchDoc(s))
TryDoc(s) ==
  LET param == IF s.param = None THEN Nothing ELSE Word(" ") \o Parens(Name(Get(s.param)))
  IN  Text(<<"Try", " ">>) \o BlockDoc(s.body)
      \o (IF s.handler = None THEN Nothing ELSE Text(<<" ", "Catch">>) \o param \o Word(" ") \o BlockDoc(Get(s.handler)))
      \o (IF s.finally = None THEN Nothing ELSE Spaced("Finally") \o BlockDoc(Get(s.finally)))
CaseDoc(case) ==
  Indentation \o Text(<<"Case", " ">>) \o ExprDoc(case.e, 0) \o Text(<<":", " ">>) \o BlockDoc(case.body) \o Newline
SwitchDoc(s) ==
  Conditioned("Switch", s.e) \o Text(<<"{", "\n">>)
  \o Inside(FlattenSeq([i \in DOMAIN s.cases |-> CaseDoc(s.cases[i])])
            \o (IF s.default = None THEN Nothing
                ELSE Indentation \o Text(<<"Default", " ">>) \o BlockDoc(Get(s.default)) \o Newline))
  \o Indentation \o Word("}")

StaticWord(m) == IF m.static THEN Text(<<"Static", " ">>) ELSE Nothing
MemberHead(m) ==
  CASE m.role = "get" -> Text(<<"get", " ">>) \o Name(m.name) \o Text(<<"(", ")", " ">>)
    [] m.role = "set" -> Text(<<"set", " ">>) \o Name(m.name) \o Parens(ParamDoc(m.params[1])) \o Word(" ")
    [] m.role = "method" -> Name(m.name) \o Params(m.params) \o Word(" ")
MemberDoc(m, class) ==
  LET ds == DecoratorsOf(m)
      Decorator(i) == Indentation \o Word("@") \o ExprDoc(ds[i], UnaryPrecedence) \o Newline
      member == CASE m.role = "constructor" -> Name(class) \o Params(m.params) \o Word(" ") \o BlockDoc(m.body)
                  [] m.role = "block" -> StaticWord(m) \o BlockDoc(m.body)
                  [] m.role = "field" -> StaticWord(m) \o Name(m.name) \o OptExpr(Spaced("="), m.init, Nothing) \o Word(";")
                  [] OTHER -> StaticWord(m) \o MemberHead(m) \o BlockDoc(m.body)
  IN  FlattenSeq([i \in DOMAIN ds |-> Decorator(i)]) \o Indentation \o member \o Newline
ClassDoc(s) ==
  LET ds == DecoratorsOf(s)
      Decorator(i) == Word("@") \o ExprDoc(ds[i], UnaryPrecedence) \o Newline \o Indentation
      members == Joined([i \in DOMAIN s.members |-> MemberDoc(s.members[i], s.name)], Newline)
  IN  FlattenSeq([i \in DOMAIN ds |-> Decorator(i)])
      \o Text(<<"Class", " ">>) \o Name(s.name) \o OptExpr(Spaced("Extends"), s.parent, Nothing)
      \o (IF members = <<>> THEN Text(<<" ", "{", "}">>)
          ELSE Text(<<" ", "{", "\n">>) \o Inside(members) \o Indentation \o Word("}"))

NameList(names) ==
  Text(<<"{", " ">>) \o Joined([i \in DOMAIN names |-> Name(names[i])], Commas) \o Text(<<" ", "}">>)
ImportSpecifiers(specs) ==
  LET One(spec) == (IF spec.k = "namespace" THEN Text(<<"*", " ", "kak", " ">>) ELSE Nothing) \o Name(spec.local)
  IN  IF specs # <<>> /\ \A i \in DOMAIN specs : specs[i].k = "named"
      THEN NameList([i \in DOMAIN specs |-> specs[i].local])
      ELSE FlattenSeq([i \in DOMAIN specs |-> One(specs[i])])
ImportDoc(s) ==
  LET Attribute(a) == Name(a[1]) \o Text(<<":", " ">>) \o QuoteString(a[2])
      attributes == Joined([i \in DOMAIN s.attributes |-> Attribute(s.attributes[i])], Commas)
  IN  Text(<<"Import", " ">>) \o ImportSpecifiers(s.specs) \o Spaced("In") \o QuoteString(s.source)
      \o (IF s.attributes = <<>> THEN Nothing ELSE Text(<<" ", "with", " ", "{", " ">>) \o attributes \o Text(<<" ", "}">>))
      \o Word(";")

\* What an expression begins with, and whether a statement may not begin with it.
RECURSIVE StartingExpr(_)
StartingExpr(e) ==
  CASE e.k = "binary" -> StartingExpr(e.l)
    [] e.k = "cond" -> StartingExpr(e.c)
    [] e.k \in {"postfix", "grouping"} -> StartingExpr(e.e)
    [] e.k \in {"member", "optmember", "index", "optindex"} -> StartingExpr(e.o)
    [] e.k \in {"call", "optcall"} -> StartingExpr(e.callee)
    [] e.k = "tagged" -> StartingExpr(e.tag)
    [] OTHER -> e
StmtExprNeedsParens(e) == StartingExpr(e).k \in {"object", "arrow", "fn"}

StmtDoc(s) ==
  CASE s.k = "var" -> VarDoc(s)
    [] s.k = "using" ->
         Text(<<"Using", " ">>) \o (IF Has(s, "await") THEN Text(<<"Await", " ">>) ELSE Nothing) \o Name(s.name) \o Spaced("=")
         \o ExprDoc(s.init, 0) \o Word(";")
    [] s.k = "expr" -> ParensIf(StmtExprNeedsParens(s.e), ExprDoc(s.e, 0)) \o Word(";")
    [] s.k = "block" -> BlockDoc(s.stmts)
    [] s.k = "empty" -> Word(";")
    [] s.k = "if" -> Conditioned("Vilkoyvglaz", s.c) \o BranchDoc(s.t) \o (IF s.f = None THEN Nothing ELSE ElseDoc(Get(s.f)))
    [] s.k = "while" -> Conditioned("Potreshchim", s.c) \o BranchDoc(s.body)
    [] s.k = "dowhile" ->
         Text(<<"DoWhile", " ">>) \o BranchDoc(s.body) \o Spaced("Potreshchim") \o Parens(ExprDoc(s.c, 0)) \o Word(";")
    [] s.k = "for" -> ForDoc(s)
    [] s.k = "forin" -> ForEachDoc(s, <<"Go", " ">>, "In")
    [] s.k = "forof" -> ForEachDoc(s, <<"Go", " ">>, "Of")
    [] s.k = "forawait" -> ForEachDoc(s, <<"Go", " ", "Await", " ">>, "Of")
    [] s.k = "break" -> JumpDoc("Hare", s.label)
    [] s.k = "continue" -> JumpDoc("Dvigay", s.label)
    [] s.k = "labeled" -> Name(s.label) \o Text(<<":", " ">>) \o StmtDoc(s.body)
    [] s.k = "fndecl" -> AsyncWord(s) \o FunctionWord(s) \o Word(" ") \o Name(s.name) \o FunctionRest(s)
    [] s.k = "return" -> Word("Otvechayu") \o OptExpr(Word(" "), s.value, Nothing) \o Word(";")
    [] s.k = "throw" -> Text(<<"Throw", " ">>) \o ExprDoc(s.e, 0) \o Word(";")
    [] s.k = "try" -> TryDoc(s)
    [] s.k = "switch" -> SwitchDoc(s)
    [] s.k = "class" -> ClassDoc(s)
    [] s.k = "debugger" -> Text(<<"Debugger", ";">>)
    [] s.k = "import" -> ImportDoc(s)
    [] s.k = "exportnames" -> Text(<<"Export", " ">>) \o NameList(s.names) \o Word(";")
    [] s.k = "export" -> Text(<<"Export", " ">>) \o StmtDoc(s.s)

-----------------------------------------------------------------------------
\* print_program: a blank line before and after every function and class.
IsTopLevelDecl(s) == s.k \in {"fndecl", "class"}
PrintProgram(program, comments) ==
  LET shown == Shown(program)
      Gap(i) == IF i > 1 /\ (IsTopLevelDecl(shown[i - 1]) \/ IsTopLevelDecl(shown[i])) THEN Newline ELSE Nothing
      doc == FlattenSeq([i \in DOMAIN shown |-> Gap(i) \o StmtLine(shown[i])])
      written == Render([out |-> <<>>, depth |-> 0, comments |-> comments], doc).out
      eof == FlattenSeq([i \in DOMAIN comments.eof |-> comments.eof[i] \o <<"\n">>])
  IN  IF written \o eof = <<>> THEN <<"\n">> ELSE written \o eof
=============================================================================
