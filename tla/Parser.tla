------------------------------- MODULE Parser -------------------------------
(* The parser of yps-parser (src/parser, src/precedence.rs): recursive       *)
(* descent with precedence climbing, backtracking over arrow heads, recovery *)
(* at statements, and the note whether the first error met the end of the    *)
(* text, by which the console knows that a line is to be continued.          *)
EXTENDS Syntax, Precedence, Lexer

LOCAL INSTANCE TLC
LOCAL INSTANCE SequencesExt
LOCAL INSTANCE FiniteSetsExt

CONSTANTS MaxParseDepth,       \* MAX_PARSE_DEPTH
          MaxChainLen,         \* MAX_CHAIN_LEN
          MaxBigInt            \* the largest i128
ASSUME ParserAssumption == MaxParseDepth \in Nat /\ MaxChainLen \in Nat /\ MaxBigInt \in Nat

-----------------------------------------------------------------------------
(* A parser: tokens end with the end of the text.                            *)

StartParser(tokens) == [toks |-> tokens, pos |-> 1, errs |-> 0, eof |-> FALSE, depth |-> 0]

Peek(p, n) == LET i == p.pos + n IN IF i <= Len(p.toks) THEN p.toks[i] ELSE Last(p.toks)
Current(p) == Peek(p, 0)
Previous(p) == p.toks[p.pos - 1]
IsKind(p, kind) == Current(p).kind = kind
IsAtEnd(p) == IsKind(p, "eof")
Advance(p) == IF IsAtEnd(p) THEN p ELSE [p EXCEPT !.pos = @ + 1]

PunctIn(t, S) == t.kind = "punct" /\ t.is \in S
IsPunct(p, s) == PunctIn(Current(p), {s})
IsOp(p, s) == IsKind(p, "op") /\ Current(p).is = s
KwIn(t, S) == t.kind = "kw" /\ t.is \in S
IsKw(p, k) == KwIn(Current(p), {k})
IsWordNamed(p, name) == IsKind(p, "id") /\ Current(p).is = name

(* A result is what was parsed, or an error already reported; either with    *)
(* the parser it leaves.                                                     *)
Ok(p, v) == [ok |-> TRUE, p |-> p, v |-> v]
Bad(p) == [ok |-> FALSE, p |-> p, v |-> <<>>]
Then(r, F(_, _)) == IF r.ok THEN F(r.p, r.v) ELSE r

PushError(p, at) ==
  [p EXCEPT !.eof = @ \/ (p.errs = 0 /\ at >= Last(p.toks).at), !.errs = @ + 1]
FailAt(p, at) == Bad(PushError(p, at))
Fail(p) == FailAt(p, Current(p).at)

Expect(p, s, F(_)) == IF IsPunct(p, s) THEN F(Advance(p)) ELSE Fail(p)
ExpectOp(p, s, F(_)) == IF IsOp(p, s) THEN F(Advance(p)) ELSE Fail(p)
ExpectKw(p, k, F(_)) == IF IsKw(p, k) THEN F(Advance(p)) ELSE Fail(p)

(* enter_depth ... depth -= 1                                                *)
Deeper(p, F(_)) ==
  IF p.depth >= MaxParseDepth THEN Fail(p)
  ELSE LET r == F([p EXCEPT !.depth = @ + 1]) IN [r EXCEPT !.p.depth = @ - 1]

\* Back to where p was: position and diagnostics, but not what is known of the end.
Backtrack(p, r) == [p EXCEPT !.eof = r.p.eof]

Synchronize(p) ==
  LET Stops(i) == \/ p.toks[i].kind \in {"eof", "kw"}
                  \/ PunctIn(p.toks[i], {"{", "}", ")", "]"})
                  \/ i > 1 /\ PunctIn(p.toks[i - 1], {";", "}"})
  IN  [p EXCEPT !.pos = Min({i \in p.pos..Len(p.toks) : Stops(i)})]
\* After a statement that failed; p is the parser before it.
Recover(p, r) == LET q == Synchronize(r.p) IN IF q.pos = p.pos THEN Advance(q) ELSE q

-----------------------------------------------------------------------------
(* Literals and names.                                                       *)

HexDigits == <<"0", "1", "2", "3", "4", "5", "6", "7", "8", "9", "a", "b", "c", "d", "e", "f">>
NumberOf(digits, radix) ==
  FoldLeft(LAMBDA n, d : n * radix + (CHOOSE i \in 1..16 : HexDigits[i] = d) - 1, 0, digits)

Nul == "\f"                    \* U+0000, which TLA+ strings cannot hold
EscapeOf(ch) ==
  CASE ch = "n" -> "\n" [] ch = "t" -> "\t" [] ch = "r" -> "\r" [] ch = "0" -> Nul
    [] ch \in {"\\", "'", "\"", Backquote, "$"} -> ch
    [] OTHER -> "\\" \o ch
RECURSIVE UnescapeString(_)
UnescapeString(atoms) ==
  IF atoms = <<>> THEN ""
  ELSE IF atoms[1] # "\\" THEN atoms[1] \o UnescapeString(Tail(atoms))
  ELSE IF Len(atoms) = 1 THEN "\\"
  ELSE EscapeOf(SubSeq(atoms[2], 1, 1)) \o SubSeq(atoms[2], 2, Len(atoms[2])) \o UnescapeString(SubSeq(atoms, 3, Len(atoms)))
StripDelimiters(raw, suffix) == SubSeq(raw, 2, Len(raw) - suffix)

\* Every literal ends at its one token.
ParseNumber(p) ==
  LET raw == SelectSeq(Current(p).raw, LAMBDA a : a # "_")
      radix == IF Len(raw) > 1 /\ raw[1] = "0" THEN RadixOf(raw[2]) ELSE 10
      digits == SubSeq(raw, IF radix = 10 THEN 1 ELSE 3, Len(raw) - 1)
      value == NumberOf(digits, radix)
      q == Advance(p)
  IN  IF Last(raw) = "n" /\ radix # 10 /\ digits = <<>> THEN Ok(PushError(q, Current(p).at), BigInt(0))
      ELSE IF Last(raw) = "n"
      THEN IF value > MaxBigInt THEN Ok(PushError(q, Current(p).at), BigInt(0)) ELSE Ok(q, BigInt(value))
      ELSE IF Current(p).raw = raw /\ (\A i \in DOMAIN raw : raw[i] \in Digits) /\ (raw[1] # "0" \/ Len(raw) = 1)
      THEN Ok(q, Num(NumberOf(raw, 10)))
      ELSE Ok(q, RawNum(Current(p).is))

StringValue(t) == UnescapeString(StripDelimiters(t.raw, 1))
ParseString(p) == Ok(Advance(p), Str(StringValue(Current(p))))
ParseRegex(p) ==
  LET raw == Current(p).raw
      close == RegexEnd(raw, 2, FALSE)
  IN  Ok(Advance(p), RegExp(Glued(SubSeq(raw, 2, close - 2)), Glued(SubSeq(raw, close, Len(raw)))))

ParseIdentifier(p) == IF IsKind(p, "id") THEN Ok(Advance(p), Current(p).is) ELSE Fail(p)
\* Only where an identifier is next: the name of a function expression, a label.
OptionalIdentifier(p) == IF IsKind(p, "id") THEN Ok(Advance(p), Some(Current(p).is)) ELSE Ok(p, None)

-----------------------------------------------------------------------------
RECURSIVE ParseExpr(_), ParseExpression(_, _), ParseOperators(_, _, _, _), ParsePrefix(_), ParseSuffixes(_, _, _),
          ParsePrimary(_), ParseNewCallee(_, _), CommaList(_, _, _), ParseItem(_, _, _), ParseTemplateParts(_, _),
          ParsePattern(_), PatternItems(_, _, _, _), ParseStatement(_), ParseStatements(_, _), ParseCases(_, _, _),
          ParseMembers(_, _, _), ParseDecorators(_, _), ParseAttributes(_, _)

\* A list up to its closing token: no trailing comma.
ListUntil(p, close, item) == IF IsPunct(p, close) THEN Ok(p, <<>>) ELSE CommaList(p, item, <<>>)
CommaList(p, item, before) ==
  Then(ParseItem(p, item, before), LAMBDA q, v :
    IF IsPunct(q, ",") THEN CommaList(Advance(q), item, Append(before, v)) ELSE Ok(q, Append(before, v)))
ClosedList(p, close, item) ==
  Then(ListUntil(p, close, item), LAMBDA q, vs : Expect(q, close, LAMBDA r : Ok(r, vs)))

Optionally(p, present, r) == IF present THEN Then(r, LAMBDA q, v : Ok(q, Some(v))) ELSE Ok(p, None)

-----------------------------------------------------------------------------
(* expr.rs                                                                   *)

IsYieldArgumentStart(p) == ~ IsAtEnd(p) /\ ~ PunctIn(Current(p), {";", ")", "]", "}", ",", ":"})
ParseYieldExpr(p, delegate) ==
  LET q == Advance(p)
  IN  Then(Optionally(q, delegate \/ IsYieldArgumentStart(q), ParseExpr(q)), LAMBDA r, arg : Ok(r, Yield(arg, delegate)))
ParseExpr(p) ==
  CASE IsKw(p, "Yield") -> ParseYieldExpr(p, FALSE)
    [] IsKw(p, "YieldDelegate") -> ParseYieldExpr(p, TRUE)
    [] OTHER -> ParseExpression(p, 0)

TryParseBinaryOp(t) ==
  CASE t.kind = "op" /\ t.is \notin {"!", "~", "++", "--"} -> Some(t.is)
    [] KwIn(t, {"Instanceof"}) -> Some("instanceof")
    [] KwIn(t, {"In"}) -> Some("in")
    [] OTHER -> None

\* parse_expression_with_precedence
ParseExpression(p, min) ==
  Deeper(p, LAMBDA q : Then(ParsePrefix(q), LAMBDA r, lhs : ParseOperators(r, lhs, min, 1)))
ParseOperators(p, lhs, min, chain) ==
  LET op == TryParseBinaryOp(Current(p))
      prec == BinaryPrecedence(Get(op))
      next == IF BinaryIsRightAssoc(Get(op)) THEN prec ELSE prec + 1
  IN  IF chain > MaxChainLen THEN Fail(p)
      ELSE IF IsPunct(p, "?") /\ min <= TernaryPrecedence
      THEN Then(ParseExpression(Advance(p), 0), LAMBDA q, t :
             Expect(q, ":", LAMBDA r :
               Then(ParseExpression(r, TernaryPrecedence), LAMBDA s, f :
                 ParseOperators(s, Conditional(lhs, t, f), min, chain + 1))))
      ELSE IF op = None \/ prec < min THEN Ok(p, lhs)
      ELSE Then(ParseExpression(Advance(p), next), LAMBDA q, rhs :
             ParseOperators(q, Binary(Get(op), lhs, rhs), min, chain + 1))

UnaryKeyword == [Typeof |-> "typeof", Delete |-> "delete", Void |-> "void"]
ParseUnary(p, op) == Then(ParseExpression(Advance(p), UnaryPrecedence), LAMBDA q, e : Ok(q, Unary(op, e)))
ParseAwait(p) == Then(ParseExpression(Advance(p), UnaryPrecedence), LAMBDA q, e : Ok(q, Await(e)))
ParseDynamicImport(p) ==
  Expect(Advance(p), "(", LAMBDA q : Then(ParseExpr(q), LAMBDA r, e : Expect(r, ")", LAMBDA s : Ok(s, DynamicImport(e)))))

ParseIndex(p) == Then(ParseExpr(p), LAMBDA q, e : Expect(q, "]", LAMBDA r : Ok(r, e)))
ParseMember(p, o) ==
  LET q == Advance(p)
  IN  IF IsKind(q, "private") THEN Ok(Advance(q), Member(o, Current(q).is))
      ELSE Then(ParseIdentifier(q), LAMBDA r, name : Ok(r, Member(o, name)))
ParseNewCallee(p, callee) ==
  IF IsPunct(p, ".") THEN Then(ParseMember(p, callee), LAMBDA q, c : ParseNewCallee(q, c)) ELSE Ok(p, callee)
ParseNewExpr(p) ==
  Then(ParsePrimary(Advance(p)), LAMBDA q, first : Then(ParseNewCallee(q, first), LAMBDA r, callee :
    IF IsPunct(r, "(") THEN Then(ClosedList(Advance(r), ")", "argument"), LAMBDA s, args : Ok(s, New(callee, args)))
    ELSE Ok(r, New(callee, <<>>))))

\* parse_function_params_and_body, and what a function is made of it
ParseBlock(p) ==
  Expect(p, "{", LAMBDA q : Then(ParseStatements(q, <<>>), LAMBDA r, stmts : Expect(r, "}", LAMBDA s : Ok(s, stmts))))
ParamsAndBody(p) ==
  Expect(p, "(", LAMBDA q : Then(ClosedList(q, ")", "param"), LAMBDA r, params :
    Then(ParseBlock(r), LAMBDA s, body : Ok(s, [params |-> params, body |-> body]))))
Flagged(f, generator, async) == AsyncIf(GeneratorIf(f, generator), async)
\* p is at the word for a function.
ParseFunctionExpr(p, async) ==
  Then(OptionalIdentifier(Advance(p)), LAMBDA q, name : Then(ParamsAndBody(q), LAMBDA r, f :
    Ok(r, Flagged(FnExpr(IF name = None THEN "" ELSE Get(name), f.params, f.body), IsKw(p, "GeneratorFn"), async))))

ParseArrowBody(p, params, async) ==
  IF IsPunct(p, "{") THEN Then(ParseBlock(p), LAMBDA q, body : Ok(q, AsyncIf(Arrow(params, body), async)))
  ELSE Then(ParseExpr(p), LAMBDA q, e : Ok(q, AsyncIf(Arrow(params, <<Return(Some(e))>>), async)))
ParseSingleParamArrow(p, async) == ParseArrowBody(Advance(Advance(p)), <<P(Current(p).is)>>, async)
StartsSingleParamArrow(p) == IsKind(p, "id") /\ PunctIn(Peek(p, 1), {"=>"})

\* The place of the `)` that closes the depth parentheses open at i, or 0.
RECURSIVE GroupEnd(_, _, _)
GroupEnd(p, i, depth) ==
  CASE i > Len(p.toks) -> 0
    [] i <= Len(p.toks) /\ PunctIn(p.toks[i], {"("}) -> GroupEnd(p, i + 1, depth + 1)
    [] i <= Len(p.toks) /\ PunctIn(p.toks[i], {")"}) -> IF depth = 1 THEN i ELSE GroupEnd(p, i + 1, depth - 1)
    [] OTHER -> GroupEnd(p, i + 1, depth)
ParenGroupIsArrowHead(p) ==
  LET end == GroupEnd(p, p.pos + 1, 1) IN end # 0 /\ PunctIn(p.toks[end + 1], {"=>"})
\* The parameters of an arrow, its `=>` and its body; NotArrow(q) where there are none.
ArrowFrom(p, item, async, NotArrow(_)) ==
  LET r == ListUntil(Advance(p), ")", item)
  IN  IF r.ok /\ IsPunct(r.p, ")") /\ PunctIn(Peek(r.p, 1), {"=>"})
      THEN ParseArrowBody(Advance(Advance(r.p)), r.v, async)
      ELSE NotArrow(Backtrack(p, r))
ParseGrouping(p) == Then(ParseExpr(Advance(p)), LAMBDA q, e : Expect(q, ")", LAMBDA r : Ok(r, Grouping(e))))

\* An async arrow has plain parameters only.
ParseAsyncExpr(p) ==
  LET q == Advance(p)
  IN  CASE KwIn(Current(q), {"Yopta", "GeneratorFn"}) -> ParseFunctionExpr(q, TRUE)
        [] IsPunct(q, "(") -> ArrowFrom(q, "plainparam", TRUE, LAMBDA r : Fail(r))
        [] StartsSingleParamArrow(q) -> ParseSingleParamArrow(q, TRUE)
        [] OTHER -> Fail(q)

ParsePrefixHead(p) ==
  CASE IsKind(p, "op") /\ Current(p).is \in {"+", "-", "!", "~"} -> ParseUnary(p, Current(p).is)
    [] KwIn(Current(p), DOMAIN UnaryKeyword) -> ParseUnary(p, UnaryKeyword[Current(p).is])
    [] IsKw(p, "Await") -> ParseAwait(p)
    [] IsKw(p, "Async") -> ParseAsyncExpr(p)
    [] KwIn(Current(p), {"Yopta", "GeneratorFn"}) -> ParseFunctionExpr(p, FALSE)
    [] IsKw(p, "New") -> ParseNewExpr(p)
    [] IsKw(p, "Import") /\ PunctIn(Peek(p, 1), {"("}) -> ParseDynamicImport(p)
    [] OTHER -> ParsePrimary(p)
ParsePrefix(p) == Then(ParsePrefixHead(p), LAMBDA q, e : ParseSuffixes(q, e, 1))

ParseOptionalChain(p, o) ==
  LET q == Advance(p)
  IN  CASE IsPunct(q, "(") -> Then(ClosedList(Advance(q), ")", "argument"), LAMBDA r, args : Ok(r, OptCall(o, args)))
        [] IsPunct(q, "[") -> Then(ParseIndex(Advance(q)), LAMBDA r, i : Ok(r, OptIndex(o, i)))
        [] OTHER -> Then(ParseIdentifier(q), LAMBDA r, name : Ok(r, OptMember(o, name)))
ParseTaggedTemplate(p, tag) ==
  LET Quasis(texts) == [i \in DOMAIN texts |-> Quasi(Glued(texts[i]), UnescapeString(texts[i]))]
  IN  IF IsKind(p, "nosub")
      THEN Ok(Advance(p), TaggedTemplate(tag, Quasis(<<StripDelimiters(Current(p).raw, 1)>>), <<>>))
      ELSE Then(ParseTemplateParts(Advance(p), [texts |-> <<StripDelimiters(Current(p).raw, 2)>>, exprs |-> <<>>]),
                LAMBDA q, t : Ok(q, TaggedTemplate(tag, Quasis(t.texts), t.exprs)))
\* The loop of parse_prefix.
ParseSuffix(p, e) ==
  CASE IsPunct(p, "(") -> Then(ClosedList(Advance(p), ")", "argument"), LAMBDA q, args : Ok(q, Call(e, args)))
    [] IsPunct(p, "[") -> Then(ParseIndex(Advance(p)), LAMBDA q, i : Ok(q, Index(e, i)))
    [] IsPunct(p, ".") -> ParseMember(p, e)
    [] IsPunct(p, "?.") -> ParseOptionalChain(p, e)
    [] Current(p).kind \in {"head", "nosub"} -> ParseTaggedTemplate(p, e)
    [] IsKind(p, "op") -> Ok(Advance(p), Postfix(Current(p).is, e))
StartsSuffix(p) ==
  \/ PunctIn(Current(p), {"(", "[", ".", "?."}) \/ Current(p).kind \in {"head", "nosub"} \/ IsOp(p, "++") \/ IsOp(p, "--")
ParseSuffixes(p, e, chain) ==
  IF chain > MaxChainLen THEN Fail(p)
  ELSE IF ~ StartsSuffix(p) THEN Ok(p, e)
  ELSE Then(ParseSuffix(p, e), LAMBDA q, f : ParseSuffixes(q, f, chain + 1))

-----------------------------------------------------------------------------
(* literals.rs                                                               *)

\* Expressions and texts up to the end of the template; p is after its first text.
ParseTemplateParts(p, t) ==
  Then(ParseExpr(p), LAMBDA q, e :
    LET Grown(suffix) ==
          [texts |-> Append(t.texts, StripDelimiters(Current(q).raw, suffix)), exprs |-> Append(t.exprs, e)]
    IN  CASE IsKind(q, "middle") -> ParseTemplateParts(Advance(q), Grown(2))
          [] IsKind(q, "tail") -> Ok(Advance(q), Grown(1))
          [] OTHER -> Fail(q))
ParseTemplateLiteral(p) ==
  Then(ParseTemplateParts(Advance(p), [texts |-> <<StripDelimiters(Current(p).raw, 2)>>, exprs |-> <<>>]),
       LAMBDA q, t : Ok(q, Template([i \in 1..(2 * Len(t.texts) - 1) |->
                              IF i % 2 = 1 THEN Str(UnescapeString(t.texts[(i + 1) \div 2])) ELSE t.exprs[i \div 2]])))

KeywordLiteral ==
  [Pravda |-> Bool(TRUE), Lozh |-> Bool(FALSE), Nol |-> Null, Undefined |-> Undef, This |-> This, Super |-> Super]
ParsePrimary(p) ==
  LET t == Current(p)
  IN  CASE t.kind = "num" -> ParseNumber(p)
        [] t.kind \in {"str", "nosub"} -> ParseString(p)
        [] t.kind = "regex" -> ParseRegex(p)
        [] t.kind = "head" -> ParseTemplateLiteral(p)
        [] KwIn(t, DOMAIN KeywordLiteral) -> Ok(Advance(p), KeywordLiteral[t.is])
        [] t.kind = "id" -> IF StartsSingleParamArrow(p) THEN ParseSingleParamArrow(p, FALSE) ELSE Ok(Advance(p), Id(t.is))
        [] IsPunct(p, "(") ->
             IF ParenGroupIsArrowHead(p) THEN ArrowFrom(p, "param", FALSE, LAMBDA q : ParseGrouping(q)) ELSE ParseGrouping(p)
        [] IsPunct(p, "[") -> Then(ClosedList(Advance(p), "]", "argument"), LAMBDA q, es : Ok(q, Arr(es)))
        [] IsPunct(p, "{") -> Then(ClosedList(Advance(p), "}", "entry"), LAMBDA q, xs : Ok(q, Obj(xs)))
        [] OTHER -> Fail(p)

\* The body of a method or an accessor, p being at its parameters.
ParseSetterParts(p) ==
  Expect(p, "(", LAMBDA q : Then(ListUntil(q, ")", "param"), LAMBDA r, params :
    IF Len(params) # 1 THEN Fail(r)
    ELSE Expect(r, ")", LAMBDA s : Then(ParseBlock(s), LAMBDA t, body : Ok(t, [param |-> params[1], body |-> body])))))
ParseGetterBody(p) == Expect(p, "(", LAMBDA q : Expect(q, ")", LAMBDA r : ParseBlock(r)))
ParseMethodEntry(p, key) == Then(ParamsAndBody(p), LAMBDA q, f : Ok(q, Prop(key, Arrow(f.params, f.body))))
ParseValueEntry(p, key) == Then(ParseExpr(Advance(p)), LAMBDA q, e : Ok(q, Prop(key, e)))
ParseObjectEntry(p) ==
  LET accessor == Peek(p, 1).kind = "id"
      name == NameKey(Peek(p, 1).is)
      own == NameKey(Current(p).is)
      q == Advance(p)
  IN  CASE IsPunct(p, "...") -> Then(ParseExpr(q), LAMBDA r, e : Ok(r, SpreadEntry(e)))
        [] IsPunct(p, "[") ->
             Then(ParseIndex(q), LAMBDA r, key :
               CASE IsPunct(r, "(") -> ParseMethodEntry(r, ComputedKey(key))
                 [] IsPunct(r, ":") -> ParseValueEntry(r, ComputedKey(key))
                 [] OTHER -> Fail(r))
        [] IsKind(p, "str") ->
             IF IsPunct(q, ":") THEN ParseValueEntry(q, NameKey(StringValue(Current(p)))) ELSE Fail(q)
        [] IsWordNamed(p, "get") /\ accessor ->
             Then(ParseGetterBody(Advance(q)), LAMBDA r, body : Ok(r, GetterEntry(name, body)))
        [] IsWordNamed(p, "set") /\ accessor ->
             Then(ParseSetterParts(Advance(q)), LAMBDA r, f : Ok(r, SetterEntry(name, f.param, f.body)))
        [] OTHER ->
             CASE ~ IsKind(p, "id") -> Fail(p)
               [] IsKind(p, "id") /\ IsPunct(q, ":") -> ParseValueEntry(q, own)
               [] IsKind(p, "id") /\ IsPunct(q, "(") -> ParseMethodEntry(q, own)
               [] OTHER -> Ok(q, Prop(own, Id(Current(p).is)))

-----------------------------------------------------------------------------
(* functions.rs and patterns.rs: parameters and patterns.                    *)

SyntheticName == "__pat__"
ParseDefault(p, may) == Optionally(p, may /\ IsOp(p, "="), ParseExpr(Advance(p)))
ParseParam(p, plain, before) ==
  LET rest == IsPunct(p, "...")
      q == IF rest THEN Advance(p) ELSE p
  IN  CASE before # <<>> /\ Last(before).rest -> IF plain THEN Bad(p) ELSE Fail(p)
        [] PunctIn(Current(q), {"{", "["}) /\ ~ plain ->
             Then(ParsePattern(q), LAMBDA r, pattern : Then(ParseDefault(r, TRUE), LAMBDA s, default :
               Ok(s, Param(SyntheticName, default, rest, Some(pattern)))))
        [] plain /\ ~ IsKind(q, "id") -> Bad(q)
        [] OTHER ->
             Then(ParseIdentifier(q), LAMBDA r, name : Then(ParseDefault(r, ~ rest), LAMBDA s, default :
               Ok(s, Param(name, default, rest, None))))

ParsePatternWithDefault(p) ==
  Then(ParsePattern(p), LAMBDA q, pattern : Then(ParseDefault(q, TRUE), LAMBDA r, default :
    Ok(r, IF default = None THEN pattern ELSE PDefault(pattern, Get(default)))))
ParseObjectPatternProp(p) ==
  Then(ParseIdentifier(p), LAMBDA q, key :
    CASE IsPunct(q, ":") -> Then(ParsePatternWithDefault(Advance(q)), LAMBDA r, v : Ok(r, PProp(key, Some(v))))
      [] IsOp(q, "=") -> Then(ParseExpr(Advance(q)), LAMBDA r, e : Ok(r, PProp(key, Some(PDefault(PId(key), e)))))
      [] OTHER -> Ok(q, PProp(key, None)))
ParseElement(p) ==
  IF IsPunct(p, ",") THEN Ok(p, None) ELSE Then(ParsePatternWithDefault(p), LAMBDA q, v : Ok(q, Some(v)))
\* The elements or properties of a pattern and its rest, up to the closing token.
PatternItems(p, close, array, items) ==
  IF IsPunct(p, "...")
  THEN Then(ParsePattern(Advance(p)), LAMBDA q, rest : Expect(q, close, LAMBDA r : Ok(r, [items |-> items, rest |-> Some(rest)])))
  ELSE Then(IF array THEN ParseElement(p) ELSE ParseObjectPatternProp(p), LAMBDA q, item :
         IF IsPunct(q, ",") THEN PatternItems(Advance(q), close, array, Append(items, item))
         ELSE Expect(q, close, LAMBDA r : Ok(r, [items |-> Append(items, item), rest |-> None])))
ParsePatternItems(p, close, array) ==
  IF IsPunct(p, close) THEN Ok(Advance(p), [items |-> <<>>, rest |-> None]) ELSE PatternItems(p, close, array, <<>>)
ParsePattern(outer) ==
  Deeper(outer, LAMBDA p :
    CASE IsPunct(p, "[") -> Then(ParsePatternItems(Advance(p), "]", TRUE), LAMBDA q, r : Ok(q, PArr(r.items, r.rest)))
      [] IsPunct(p, "{") -> Then(ParsePatternItems(Advance(p), "}", FALSE), LAMBDA q, r : Ok(q, PObj(r.items, r.rest)))
      [] IsKind(p, "id") -> Ok(Advance(p), PId(Current(p).is))
      [] OTHER -> Fail(p))

ParseItem(p, item, before) ==
  CASE item = "argument" ->
         IF IsPunct(p, "...") THEN Then(ParseExpr(Advance(p)), LAMBDA q, e : Ok(q, Spread(e))) ELSE ParseExpr(p)
    [] item = "entry" -> ParseObjectEntry(p)
    [] item = "param" -> ParseParam(p, FALSE, before)
    [] item = "plainparam" -> ParseParam(p, TRUE, before)
    [] item = "name" -> ParseIdentifier(p)

-----------------------------------------------------------------------------
(* stmt.rs.  Statements carry their span: the place of their first token and *)
(* the place after the last one.                                             *)

Spanned(p, r) ==
  Then(r, LAMBDA q, s : Ok(q, s @@ [at |-> Current(p).at, to |-> Previous(q).to]))
\* ... of a statement that ends where its last part does.
SpannedAs(p, r, part) == Then(r, LAMBDA q, s : Ok(q, s @@ [at |-> Current(p).at, to |-> s[part].to]))
Ended(r) == Then(r, LAMBDA q, s : Expect(q, ";", LAMBDA t : Ok(t, s)))

ParseParenExpr(p, F(_, _)) ==
  Expect(p, "(", LAMBDA q : Then(ParseExpr(q), LAMBDA r, e : Expect(r, ")", LAMBDA s : F(s, e))))

DeclarationWords == {"Gyy", "Uchastkoviy", "YasenHuy"}
ParseVarDecl(p) ==
  Spanned(p, Ended(Then(ParsePattern(Advance(p)), LAMBDA q, pattern : ExpectOp(q, "=", LAMBDA r :
    Then(ParseExpr(r), LAMBDA s, init : Ok(s, Var(pattern, init, IsKw(p, "YasenHuy"))))))))
ParseUsingStmt(p) ==
  LET isAwait == KwIn(Peek(p, 1), {"Await"})
      first == IF isAwait THEN Advance(Advance(p)) ELSE Advance(p)
  IN  Spanned(p, Ended(Then(ParseIdentifier(first), LAMBDA q, name : ExpectOp(q, "=", LAMBDA r :
        Then(ParseExpr(r), LAMBDA s, init : Ok(s, AwaitIf(Using(name, init), isAwait)))))))

\* The statements of a block or, at depth 0, of the program: one that fails is skipped.
ParseStatements(p, before) ==
  IF IsAtEnd(p) \/ (IsPunct(p, "}") /\ p.depth > 0) THEN Ok(p, before)
  ELSE LET r == ParseStatement(p)
       IN  IF r.ok THEN ParseStatements(r.p, Append(before, r.v)) ELSE ParseStatements(Recover(p, r), before)

(* An arrow in parentheses takes the number of its token for its place.      *)
ParseExprStmt(p) ==
  LET numbered == IsPunct(p, "(") /\ ParenGroupIsArrowHead(p)
  IN  Then(Ended(Then(ParseExpr(p), LAMBDA q, e : Ok(q, ExprStmt(e)))), LAMBDA q, s :
        Ok(q, s @@ [at |-> IF numbered THEN p.pos - 1 ELSE Current(p).at, to |-> Previous(q).to]))

ParseIfStmt(p) ==
  ParseParenExpr(Advance(p), LAMBDA q, c : Then(ParseStatement(q), LAMBDA r, t :
    IF IsKw(r, "Ilivzhopuraz")
    THEN Then(ParseStatement(Advance(r)), LAMBDA s, f :
           Ok(s, If(c, t, Some(f)) @@ [at |-> Current(p).at, to |-> f.to]))
    ELSE Ok(r, If(c, t, None) @@ [at |-> Current(p).at, to |-> t.to])))
ParseWhileStmt(p) ==
  SpannedAs(p, ParseParenExpr(Advance(p), LAMBDA q, c : Then(ParseStatement(q), LAMBDA r, body : Ok(r, While(c, body)))), "body")
ParseDoWhileStmt(p) ==
  Spanned(p, Ended(Then(ParseStatement(Advance(p)), LAMBDA q, body : ExpectKw(q, "Potreshchim", LAMBDA r :
    ParseParenExpr(r, LAMBDA s, c : Ok(s, DoWhile(body, c)))))))

\* scan_for_head_keyword: the keyword after a pattern that begins n tokens on.
RECURSIVE BracketsEnd(_, _, _)
BracketsEnd(p, n, depth) ==
  LET t == Peek(p, n)
  IN  CASE t.kind = "eof" -> 0
        [] PunctIn(t, {"[", "{", "("}) -> BracketsEnd(p, n + 1, depth + 1)
        [] PunctIn(t, {"]", "}", ")"}) -> IF depth = 1 THEN n + 1 ELSE BracketsEnd(p, n + 1, depth - 1)
        [] OTHER -> BracketsEnd(p, n + 1, depth)
ScanForHeadKeyword(p, n) ==
  LET after == CASE Peek(p, n).kind = "id" -> n + 1
                 [] PunctIn(Peek(p, n), {"[", "{"}) -> BracketsEnd(p, n, 0)
                 [] OTHER -> 0
  IN  IF after > 0 /\ KwIn(Peek(p, after), {"In", "Of"}) THEN Peek(p, after).is ELSE "none"

RECURSIVE SkipParens(_, _), SkipBraces(_, _)
SkipParens(p, depth) ==
  IF IsAtEnd(p) \/ depth = 0 THEN p
  ELSE SkipParens(Advance(p), IF IsPunct(p, "(") THEN depth + 1 ELSE IF IsPunct(p, ")") THEN depth - 1 ELSE depth)
SkipBraces(p, depth) ==
  IF IsAtEnd(p) \/ (IsPunct(p, "}") /\ depth = 1) THEN Advance(p)
  ELSE SkipBraces(Advance(p), IF IsPunct(p, "{") THEN depth + 1 ELSE IF IsPunct(p, "}") THEN depth - 1 ELSE depth)
SkipToForRecovery(p) == LET q == SkipParens(p, 1) IN IF IsPunct(q, "{") THEN SkipBraces(q, 0) ELSE q

ParseForEach(p, first, Node(_, _, _)) ==
  SpannedAs(p, Then(ParsePattern(first), LAMBDA q, pattern : Then(ParseExpr(Advance(q)), LAMBDA r, e :
    Expect(r, ")", LAMBDA s : Then(ParseStatement(s), LAMBDA t, body : Ok(t, Node(pattern, e, body)))))), "body")
ParseForInit(p) ==
  CASE IsPunct(p, ";") -> Ok(Advance(p), None)
    [] KwIn(Current(p), DeclarationWords) -> Then(ParseVarDecl(p), LAMBDA q, s : Ok(q, Some(s)))
    [] OTHER -> Then(ParseExpr(p), LAMBDA q, e : Expect(q, ";", LAMBDA r : Ok(r, Some(ExprStmt(e)))))
ParseForRest(p, first) ==
  SpannedAs(p,
    Then(ParseForInit(first), LAMBDA q, init :
      Then(Optionally(q, ~ IsPunct(q, ";"), ParseExpr(q)), LAMBDA r, c :
        Expect(r, ";", LAMBDA s :
          Then(Optionally(s, ~ IsPunct(s, ")"), ParseExpr(s)), LAMBDA t, update :
            Expect(t, ")", LAMBDA u : Then(ParseStatement(u), LAMBDA v, body : Ok(v, For(init, c, update, body)))))))),
    "body")
ParseForStmt(p) ==
  LET isAwait == KwIn(Peek(p, 1), {"Await"})
  IN  Expect(IF isAwait THEN Advance(Advance(p)) ELSE Advance(p), "(", LAMBDA q :
        LET declared == KwIn(Current(q), DeclarationWords)
            first == IF declared THEN Advance(q) ELSE q
            word == ScanForHeadKeyword(q, IF declared THEN 1 ELSE 0)
        IN  CASE word = "Of" /\ isAwait -> ParseForEach(p, first, ForAwaitOf)
              [] word = "Of" /\ ~ isAwait -> ParseForEach(p, first, ForOf)
              [] word = "In" /\ ~ isAwait -> ParseForEach(p, first, ForIn)
              [] word = "none" /\ ~ isAwait -> ParseForRest(p, q)
              [] OTHER -> Bad(SkipToForRecovery(PushError(q, Current(q).at))))

ParseBreakStmt(p) == Spanned(p, Ended(Then(OptionalIdentifier(Advance(p)), LAMBDA q, label : Ok(q, Break(label)))))
ParseContinueStmt(p) == Spanned(p, Ended(Then(OptionalIdentifier(Advance(p)), LAMBDA q, label : Ok(q, Continue(label)))))
ParseLabeledStmt(p) ==
  SpannedAs(p, Then(ParseStatement(Advance(Advance(p))), LAMBDA q, body : Ok(q, Labeled(Current(p).is, body))), "body")
ParseReturnStmt(p) ==
  LET q == Advance(p)
  IN  Spanned(p, Ended(Then(Optionally(q, ~ IsPunct(q, ";"), ParseExpr(q)), LAMBDA r, v : Ok(r, Return(v)))))
ParseThrowStmt(p) == Spanned(p, Ended(Then(ParseExpr(Advance(p)), LAMBDA q, e : Ok(q, Throw(e)))))

ParseCatchParam(p) ==
  IF IsPunct(p, "(")
  THEN Then(ParseIdentifier(Advance(p)), LAMBDA q, name : Expect(q, ")", LAMBDA r : Ok(r, Some(name))))
  ELSE Ok(p, None)
ParseCatch(p) ==
  IF IsKw(p, "Catch")
  THEN Then(ParseCatchParam(Advance(p)), LAMBDA q, param : Then(ParseBlock(q), LAMBDA r, body : Ok(r, <<param, Some(body)>>)))
  ELSE Ok(p, <<None, None>>)
ParseTryStmt(p) ==
  Spanned(p, Then(ParseBlock(Advance(p)), LAMBDA q, body : Then(ParseCatch(q), LAMBDA r, caught :
    Then(Optionally(r, IsKw(r, "Finally"), ParseBlock(Advance(r))), LAMBDA s, finally :
      IF caught[2] = None /\ finally = None THEN Fail(s) ELSE Ok(s, Try(body, caught[1], caught[2], finally))))))

\* The cases of a switch; the last default counts.
ParseCases(p, cases, default) ==
  CASE IsPunct(p, "}") \/ IsAtEnd(p) -> Ok(p, <<cases, default>>)
    [] IsKw(p, "Case") ->
         Then(ParseExpr(Advance(p)), LAMBDA q, e : Expect(q, ":", LAMBDA r :
           Then(ParseBlock(r), LAMBDA s, body : ParseCases(s, Append(cases, Case(e, body)), default))))
    [] IsKw(p, "Default") -> Then(ParseBlock(Advance(p)), LAMBDA q, body : ParseCases(q, cases, Some(body)))
    [] OTHER -> Fail(p)
ParseSwitchStmt(p) ==
  Spanned(p, ParseParenExpr(Advance(p), LAMBDA q, e : Expect(q, "{", LAMBDA r :
    Then(ParseCases(r, <<>>, None), LAMBDA s, cs : Expect(s, "}", LAMBDA t : Ok(t, Switch(e, cs[1], cs[2])))))))

\* p is at the word for a function; the span starts there, after `async`.
ParseFunctionDecl(p, async) ==
  Spanned(p, Then(ParseIdentifier(Advance(p)), LAMBDA q, name : Then(ParamsAndBody(q), LAMBDA r, f :
    Ok(r, Flagged(FnDecl(name, f.params, f.body), IsKw(p, "GeneratorFn"), async)))))
ParseAsyncStmt(p) ==
  LET q == Advance(p)
  IN  IF KwIn(Current(q), {"Yopta", "GeneratorFn"}) THEN ParseFunctionDecl(q, TRUE) ELSE FailAt(q, Current(p).at)

-----------------------------------------------------------------------------
(* class.rs                                                                  *)

ParseDecorators(p, before) ==
  IF IsPunct(p, "@") THEN Then(ParsePrefix(Advance(p)), LAMBDA q, e : ParseDecorators(q, Append(before, e))) ELSE Ok(p, before)

ParseMemberName(p, private) ==
  CASE IsKind(p, "private") -> Ok(Advance(p), Current(p).is)
    [] private /\ ~ IsKind(p, "private") -> Then(ParseIdentifier(p), LAMBDA q, name : Ok(q, "#" \o name))
    [] OTHER -> ParseIdentifier(p)
IsPrivate(name) == SubSeq(name, 1, 1) = "#"

ParseField(p, name, static) ==
  Then(ParseDefault(p, TRUE), LAMBDA q, init : Ok(IF IsPunct(q, ";") THEN Advance(q) ELSE q, Field(name, init, static)))
ParseMethod(p, name, static, class, decorated) ==
  Then(ParamsAndBody(p), LAMBDA q, f :
    IF static \/ IsPrivate(name) \/ name # class THEN Ok(q, Method(name, f.params, f.body, static))
    ELSE IF decorated THEN FailAt(q, Current(p).at)
    ELSE Ok(q, Constructor(f.params, f.body)))
\* A member after its decorators.
ParseMemberAfter(p, class, ds) ==
  LET static == IsKw(p, "Static")
      q == IF static THEN Advance(p) ELSE p
      private == IsKw(q, "Private")
      r == IF KwIn(Current(q), {"Private", "Public", "Protected"}) THEN Advance(q) ELSE q
      accessor == (IsWordNamed(r, "get") \/ IsWordNamed(r, "set")) /\ ~ PunctIn(Peek(r, 1), {"("})
  IN  CASE static /\ IsPunct(q, "{") ->
             IF ds # <<>> THEN Fail(q) ELSE Then(ParseBlock(q), LAMBDA s, body : Ok(s, StaticBlock(body)))
        [] accessor /\ IsWordNamed(r, "get") ->
             Then(ParseMemberName(Advance(r), private), LAMBDA s, name : Then(ParseGetterBody(s), LAMBDA t, body :
               Ok(t, Getter(name, body, static))))
        [] accessor /\ IsWordNamed(r, "set") ->
             Then(ParseMemberName(Advance(r), private), LAMBDA s, name : Then(ParseSetterParts(s), LAMBDA t, f :
               Ok(t, Setter(name, f.param, f.body, static))))
        [] OTHER ->
             Then(ParseMemberName(r, private), LAMBDA s, name :
               IF IsPunct(s, "(") THEN ParseMethod(s, name, static, class, ds # <<>>) ELSE ParseField(s, name, static))
ParseClassMember(p, class) ==
  Then(ParseDecorators(p, <<>>), LAMBDA q, ds :
    Then(ParseMemberAfter(q, class, ds), LAMBDA r, m : Ok(r, Decorated(m, ds))))
ParseMembers(p, class, before) ==
  IF IsPunct(p, "}") \/ IsAtEnd(p) THEN Ok(p, before)
  ELSE Then(ParseClassMember(p, class), LAMBDA q, m : ParseMembers(q, class, Append(before, m)))
\* p is at the word for a class, after the decorators of the class.
ParseClassDecl(p, ds) ==
  Spanned(p, Then(ParseIdentifier(Advance(p)), LAMBDA q, name :
    Then(Optionally(q, IsKw(q, "Extends"), ParseExpr(Advance(q))), LAMBDA r, parent :
      Expect(r, "{", LAMBDA s : Then(ParseMembers(s, name, <<>>), LAMBDA t, members :
        Expect(t, "}", LAMBDA u : Ok(u, Decorated(Class(name, parent, members), ds))))))))
ParseDecoratedClass(p) ==
  Then(ParseDecorators(p, <<>>), LAMBDA q, ds : IF IsKw(q, "Class") THEN ParseClassDecl(q, ds) ELSE Fail(q))

-----------------------------------------------------------------------------
(* modules.rs                                                                *)

ParseNameList(p) ==
  Then(ClosedList(p, "}", "name"), LAMBDA q, names : Ok(q, names))
ParseImportSpecifiers(p) ==
  CASE IsPunct(p, "{") ->
         Then(ParseNameList(Advance(p)), LAMBDA q, names : Ok(q, [i \in DOMAIN names |-> ImportNamed(names[i])]))
    [] IsOp(p, "*") ->
         IF IsWordNamed(Advance(p), "kak")
         THEN Then(ParseIdentifier(Advance(Advance(p))), LAMBDA q, local : Ok(q, <<ImportNamespace(local)>>))
         ELSE Fail(Advance(p))
    [] OTHER -> Then(ParseIdentifier(p), LAMBDA q, local : Ok(q, <<ImportDefault(local)>>))
ParseAttribute(p) ==
  LET key == IF IsKind(p, "str") THEN StringValue(Current(p)) ELSE Current(p).is
      q == Advance(p)
  IN  IF Current(p).kind \notin {"id", "str"} THEN Fail(p)
      ELSE Expect(q, ":", LAMBDA r : IF IsKind(r, "str") THEN Ok(Advance(r), <<key, StringValue(Current(r))>>) ELSE Fail(r))
\* Up to the closing brace; here a comma may come last.
ParseAttributes(p, before) ==
  IF IsPunct(p, "}") THEN Ok(Advance(p), before)
  ELSE Then(ParseAttribute(p), LAMBDA q, a :
         IF IsPunct(q, ",") THEN ParseAttributes(Advance(q), Append(before, a))
         ELSE Expect(q, "}", LAMBDA r : Ok(r, Append(before, a))))
ParseImportStmt(p) ==
  Spanned(p, Ended(Then(ParseImportSpecifiers(Advance(p)), LAMBDA q, specs : ExpectKw(q, "In", LAMBDA r :
    IF ~ IsKind(r, "str") THEN Fail(r)
    ELSE LET s == Advance(r)
             attributes == IF IsWordNamed(s, "with") \/ IsWordNamed(s, "satr")
                           THEN Expect(Advance(s), "{", LAMBDA t : ParseAttributes(t, <<>>)) ELSE Ok(s, <<>>)
         IN  Then(attributes, LAMBDA t, as : Ok(t, Import(specs, StringValue(Current(r)), as)))))))
ParseExportStmt(p) ==
  IF IsPunct(Advance(p), "{")
  THEN Spanned(p, Ended(Then(ParseNameList(Advance(Advance(p))), LAMBDA q, names : Ok(q, ExportNamed(names)))))
  ELSE SpannedAs(p, Then(ParseStatement(Advance(p)), LAMBDA q, s :
         IF s.k \in {"var", "fndecl", "class", "expr"} THEN Ok(q, ExportDeclaration(s)) ELSE Fail(q)), "s")

-----------------------------------------------------------------------------
\* The semicolon after a debugger statement is not in its span.
ParseDebugger(p) ==
  LET q == Advance(p)
  IN  Ok(IF IsPunct(q, ";") THEN Advance(q) ELSE q, Debugger @@ [at |-> Current(p).at, to |-> Current(p).to])

ParseStatementInner(p) ==
  LET t == Current(p)
      Word(k) == KwIn(t, {k})
  IN  CASE t.kind = "id" /\ PunctIn(Peek(p, 1), {":"}) -> ParseLabeledStmt(p)
        [] KwIn(t, DeclarationWords) -> ParseVarDecl(p)
        [] Word("Vilkoyvglaz") -> ParseIfStmt(p)
        [] Word("Potreshchim") -> ParseWhileStmt(p)
        [] Word("Go") -> ParseForStmt(p)
        [] Word("Hare") -> ParseBreakStmt(p)
        [] Word("Dvigay") -> ParseContinueStmt(p)
        [] Word("Yopta") \/ Word("GeneratorFn") -> ParseFunctionDecl(p, FALSE)
        [] Word("Async") -> ParseAsyncStmt(p)
        [] Word("Otvechayu") -> ParseReturnStmt(p)
        [] Word("Try") -> ParseTryStmt(p)
        [] Word("Throw") -> ParseThrowStmt(p)
        [] Word("Switch") -> ParseSwitchStmt(p)
        [] Word("DoWhile") -> ParseDoWhileStmt(p)
        [] Word("Class") -> ParseClassDecl(p, <<>>)
        [] Word("Using") -> ParseUsingStmt(p)
        [] Word("Debugger") -> ParseDebugger(p)
        [] Word("Import") /\ ~ PunctIn(Peek(p, 1), {"("}) -> ParseImportStmt(p)
        [] Word("Export") -> ParseExportStmt(p)
        [] PunctIn(t, {"@"}) -> ParseDecoratedClass(p)
        [] PunctIn(t, {"{"}) -> Spanned(p, Then(ParseBlock(p), LAMBDA q, stmts : Ok(q, Block(stmts))))
        [] PunctIn(t, {";"}) -> Spanned(p, Ok(Advance(p), Empty))
        [] OTHER -> ParseExprStmt(p)
ParseStatement(p) == Deeper(p, ParseStatementInner)

\* parse_program_extended: the statements, whether there were errors, and whether the first met the end.
ParseProgram(tokens) ==
  LET p == ParseStatements(StartParser(tokens), <<>>)
  IN  [program |-> p.v, errors |-> p.p.errs, unexpectedEof |-> p.p.eof]

\* lex_and_parse of yps-fmt
LexAndParse(src) ==
  LET read == Tokenize(src)
      parsed == ParseProgram(read.tokens)
  IN  IF read.errors > 0 THEN [ok |-> FALSE, program |-> <<>>, trivia |-> <<>>]
      ELSE [ok |-> parsed.errors = 0, program |-> parsed.program, trivia |-> read.trivia]
=============================================================================
