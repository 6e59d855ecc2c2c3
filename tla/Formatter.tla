------------------------------ MODULE Formatter ------------------------------
(* The formatter yps-fmt (src/lib.rs, src/comments.rs, src/normalize.rs): it *)
(* reads a source text, gives every comment to a statement, prints the       *)
(* program, reads back what it has printed, and refuses unless both are the  *)
(* same program with the same comments.  What it accepts is formatted again, *)
(* as an editor does on every save.                                          *)
EXTENDS Syntax, Bags

LOCAL INSTANCE TLC
LOCAL INSTANCE SequencesExt
LOCAL INSTANCE FiniteSetsExt

CONSTANTS Inputs,              \* names of the source texts
          SourceOf(_),         \* what each of them is
          Parsed(_),           \* what the parser makes of a text
          Printed(_, _),       \* what the printer makes of a program with its comments
          Rounds               \* how often a text is formatted

VARIABLES input,               \* the name of the first source
          source,              \* the text to format
          round,
          stage,               \* how far this round has come, or how it ended
          program, trivia,     \* what was read
          comments,            \* CommentMap
          text                 \* what was printed
vars == <<input, source, round, stage, program, trivia, comments, text>>

-----------------------------------------------------------------------------
(* normalize.rs: two programs are equivalent when they are the same without  *)
(* groupings, empty statements and places.                                   *)

NonEmpty(stmts) == SelectSeq(stmts, LAMBDA s : s.k # "empty")

RECURSIVE NormExpr(_), NormStmt(_), NormPattern(_)
NormExprs(es) == [i \in DOMAIN es |-> NormExpr(es[i])]
NormBlock(stmts) == LET kept == NonEmpty(stmts) IN [i \in DOMAIN kept |-> NormStmt(kept[i])]
OptBlock(o) == IF o = None THEN None ELSE Some(NormBlock(Get(o)))
OptNormExpr(o) == IF o = None THEN None ELSE Some(NormExpr(Get(o)))
OptNormStmt(o) == IF o = None THEN None ELSE Some(NormStmt(Get(o)))
OptNormPattern(o) == IF o = None THEN None ELSE Some(NormPattern(Get(o)))

\* What pattern a parameter has is not compared: param_eq.
NormParam(param) == [param EXCEPT !.default = OptNormExpr(@), !.pattern = None]
NormParams(params) == [i \in DOMAIN params |-> NormParam(params[i])]
NormKey(key) == IF key.k = "computed" THEN [key EXCEPT !.e = NormExpr(@)] ELSE key
NormEntry(entry) ==
  CASE entry.k = "property" -> [entry EXCEPT !.key = NormKey(@), !.value = NormExpr(@)]
    [] entry.k = "spread" -> [entry EXCEPT !.e = NormExpr(@)]
    [] entry.k = "getter" -> [entry EXCEPT !.key = NormKey(@), !.body = NormBlock(@)]
    [] entry.k = "setter" -> [entry EXCEPT !.key = NormKey(@), !.param = NormParam(@), !.body = NormBlock(@)]
NormQuasi(quasi) == [raw |-> quasi.raw]

NormExpr(e) ==
  CASE e.k = "grouping" -> NormExpr(e.e)
    [] e.k \in {"unary", "postfix", "spreadarg", "await", "import"} -> [e EXCEPT !.e = NormExpr(@)]
    [] e.k = "binary" -> [e EXCEPT !.l = NormExpr(@), !.r = NormExpr(@)]
    [] e.k = "cond" -> [e EXCEPT !.c = NormExpr(@), !.t = NormExpr(@), !.f = NormExpr(@)]
    [] e.k \in {"call", "optcall", "new"} -> [e EXCEPT !.callee = NormExpr(@), !.args = NormExprs(@)]
    [] e.k \in {"index", "optindex"} -> [e EXCEPT !.o = NormExpr(@), !.i = NormExpr(@)]
    [] e.k \in {"member", "optmember"} -> [e EXCEPT !.o = NormExpr(@)]
    [] e.k \in {"arrow", "fn"} -> [e EXCEPT !.params = NormParams(@), !.body = NormBlock(@)]
    [] e.k = "yield" -> [e EXCEPT !.arg = OptNormExpr(@)]
    [] e.k = "template" -> [e EXCEPT !.parts = [i \in DOMAIN @ |-> IF i % 2 = 0 THEN NormExpr(@[i]) ELSE @[i]]]
    [] e.k = "tagged" ->
         [e EXCEPT !.tag = NormExpr(@), !.quasis = [i \in DOMAIN @ |-> NormQuasi(@[i])], !.exprs = NormExprs(@)]
    [] e.k = "array" -> [e EXCEPT !.elements = NormExprs(@)]
    [] e.k = "object" -> [e EXCEPT !.entries = [i \in DOMAIN @ |-> NormEntry(@[i])]]
    [] OTHER -> e

NormPattern(pattern) ==
  CASE pattern.k = "id" -> pattern
    [] pattern.k = "default" -> [pattern EXCEPT !.p = NormPattern(@), !.e = NormExpr(@)]
    [] pattern.k = "array" ->
         [pattern EXCEPT !.elements = [i \in DOMAIN @ |-> OptNormPattern(@[i])], !.rest = OptNormPattern(@)]
    [] pattern.k = "object" ->
         [pattern EXCEPT !.props = [i \in DOMAIN @ |-> [@[i] EXCEPT !.value = OptNormPattern(@)]], !.rest = OptNormPattern(@)]

NormMember(m) ==
  LET ds == DecoratorsOf(m)
      plain == [f \in DOMAIN m \ {"decorators"} |-> m[f]]
  IN  Decorated([plain EXCEPT !.params = NormParams(@), !.body = NormBlock(@), !.init = OptNormExpr(@)], NormExprs(ds))
NormClass(s) ==
  [s EXCEPT !.parent = OptNormExpr(@), !.members = [i \in DOMAIN @ |-> NormMember(@[i])]]
NormCase(case) == [e |-> NormExpr(case.e), body |-> NormBlock(case.body)]
NormSpanless(s) ==
  CASE s.k = "var" -> [s EXCEPT !.pattern = NormPattern(@), !.init = NormExpr(@)]
    [] s.k = "using" -> [s EXCEPT !.init = NormExpr(@)]
    [] s.k \in {"expr", "throw"} -> [s EXCEPT !.e = NormExpr(@)]
    [] s.k = "block" -> [s EXCEPT !.stmts = NormBlock(@)]
    [] s.k = "if" -> [s EXCEPT !.c = NormExpr(@), !.t = NormStmt(@), !.f = OptNormStmt(@)]
    [] s.k \in {"while", "dowhile"} -> [s EXCEPT !.c = NormExpr(@), !.body = NormStmt(@)]
    [] s.k = "for" ->
         [s EXCEPT !.init = OptNormStmt(@), !.c = OptNormExpr(@), !.update = OptNormExpr(@), !.body = NormStmt(@)]
    [] s.k \in {"forin", "forof", "forawait"} ->
         [s EXCEPT !.pattern = NormPattern(@), !.e = NormExpr(@), !.body = NormStmt(@)]
    [] s.k = "labeled" -> [s EXCEPT !.body = NormStmt(@)]
    [] s.k = "fndecl" -> [s EXCEPT !.params = NormParams(@), !.body = NormBlock(@)]
    [] s.k = "return" -> [s EXCEPT !.value = OptNormExpr(@)]
    [] s.k = "try" -> [s EXCEPT !.body = NormBlock(@), !.handler = OptBlock(@), !.finally = OptBlock(@)]
    [] s.k = "switch" ->
         [s EXCEPT !.e = NormExpr(@), !.cases = [i \in DOMAIN @ |-> NormCase(@[i])], !.default = OptBlock(@)]
    [] s.k = "class" ->
         Decorated([f \in DOMAIN s \ {"decorators"} |-> NormClass(s)[f]], NormExprs(DecoratorsOf(s)))
    [] s.k = "export" -> [s EXCEPT !.s = NormStmt(@)]
    [] OTHER -> s
NormStmt(s) == NormSpanless([f \in DOMAIN s \ {"at", "to"} |-> s[f]])
ProgramsEquivalent(a, b) == NormBlock(a) = NormBlock(b)

-----------------------------------------------------------------------------
(* comments.rs: the statements whose spans comments are given to, in order   *)
(* of their places: not those within expressions.                            *)

RECURSIVE StmtSpans(_), SpansOf(_)
BlockSpans(o) == IF o = None THEN <<>> ELSE StmtSpans(Get(o))
ChildSpans(s) ==
  CASE s.k = "block" -> StmtSpans(s.stmts)
    [] s.k = "if" -> SpansOf(s.t) \o (IF s.f = None THEN <<>> ELSE SpansOf(Get(s.f)))
    [] s.k \in {"while", "dowhile", "for", "forin", "forof", "forawait", "labeled"} -> SpansOf(s.body)
    [] s.k = "fndecl" -> StmtSpans(s.body)
    [] s.k = "try" -> StmtSpans(s.body) \o BlockSpans(s.handler) \o BlockSpans(s.finally)
    [] s.k = "switch" -> FlattenSeq([i \in DOMAIN s.cases |-> StmtSpans(s.cases[i].body)]) \o BlockSpans(s.default)
    [] s.k = "class" -> FlattenSeq([i \in DOMAIN s.members |-> StmtSpans(s.members[i].body)])
    [] s.k = "export" -> SpansOf(s.s)
    [] OTHER -> <<>>
SpansOf(s) == IF s.k = "empty" THEN <<>> ELSE <<[at |-> s.at, to |-> s.to]>> \o ChildSpans(s)
StmtSpans(stmts) == FlattenSeq([i \in DOMAIN stmts |-> SpansOf(stmts[i])])

NoComments == [leading |-> <<>>, trailing |-> <<>>, eof |-> <<>>, refused |-> FALSE]
\* One comment more; what decides is the last statement that ends before it, if on the same line, or else
\* the first that starts after it.
Attach(spans, src, before, comment) ==
  LET ended == {i \in DOMAIN spans : spans[i].to <= comment.at}
      next == {i \in DOMAIN spans : spans[i].at >= comment.to}
      preceding == spans[Max({i \in ended : \A j \in ended : spans[j].to <= spans[i].to})]
      inline == ended # {} /\ "\n" \notin {src[i] : i \in preceding.to..(comment.at - 1)}
      place == Min({spans[i].at : i \in next})
      held == IF place \in DOMAIN before.leading THEN before.leading[place] ELSE <<>>
      contained == \E i \in DOMAIN spans : comment.at >= spans[i].at /\ comment.to <= spans[i].to
  IN  CASE before.refused -> before
        [] ~ before.refused /\ inline ->
             IF preceding.at \in DOMAIN before.trailing THEN [before EXCEPT !.refused = TRUE]
             ELSE [before EXCEPT !.trailing = (preceding.at :> comment.raw) @@ @]
        [] ~ before.refused /\ ~ inline /\ next # {} ->
             [before EXCEPT !.leading = (place :> Append(held, comment.raw)) @@ @]
        [] OTHER -> IF contained THEN [before EXCEPT !.refused = TRUE] ELSE [before EXCEPT !.eof = Append(@, comment.raw)]
AttachComments(stmts, comments_, src) ==
  LET spans == SortSeq(StmtSpans(stmts), LAMBDA a, b : a.at < b.at)
  IN  FoldLeft(LAMBDA map, comment : Attach(spans, src, map, comment), NoComments, comments_)

CommentTexts(ts) == FoldLeft(LAMBDA bag, t : bag (+) SetToBag({t.raw}), EmptyBag, ts)
CommentTextsEqual(a, b) == CommentTexts(a) = CommentTexts(b)

-----------------------------------------------------------------------------
(* lib.rs                                                                    *)

Init ==
  /\ input \in Inputs
  /\ source = SourceOf(input)
  /\ round = 1
  /\ stage = "read"
  /\ program = <<>> /\ trivia = <<>> /\ comments = NoComments /\ text = <<>>

Read ==
  /\ stage = "read"
  /\ LET r == Parsed(source)
     IN  /\ stage' = IF r.ok THEN "attach" ELSE "ParseError"
         /\ program' = r.program
         /\ trivia' = r.trivia
  /\ UNCHANGED <<input, source, round, comments, text>>

AttachStep ==
  /\ stage = "attach"
  /\ comments' = AttachComments(program, trivia, source)
  /\ stage' = IF comments'.refused THEN "CommentRefused" ELSE "print"
  /\ UNCHANGED <<input, source, round, program, trivia, text>>

Emit ==
  /\ stage = "print"
  /\ text' = Printed(program, comments)
  /\ stage' = "verify"
  /\ UNCHANGED <<input, source, round, program, trivia, comments>>

\* verify_round_trip
Verify ==
  /\ stage = "verify"
  /\ LET r == Parsed(text)
     IN  stage' = IF r.ok /\ ProgramsEquivalent(program, r.program) /\ CommentTextsEqual(trivia, r.trivia)
                  THEN "formatted" ELSE "RoundTripFailed"
  /\ UNCHANGED <<input, source, round, program, trivia, comments, text>>

\* The text is saved, and formatted on the next occasion.
Again ==
  /\ stage = "formatted"
  /\ round < Rounds
  /\ source' = text
  /\ round' = round + 1
  /\ stage' = "read"
  /\ UNCHANGED <<input, program, trivia, comments, text>>

\* Where the comments of a text stand: with the n-th of its statements, or at its end.
Placements(src) ==
  LET r == Parsed(src)
      map == AttachComments(r.program, r.trivia, src)
      places == {span.at : span \in ToSet(StmtSpans(r.program))}
      Number(at) == Cardinality({other \in places : other <= at})
  IN  [leading |-> {<<Number(at), map.leading[at]>> : at \in DOMAIN map.leading},
       trailing |-> {<<Number(at), map.trailing[at]>> : at \in DOMAIN map.trailing},
       eof |-> map.eof]

Next == Read \/ AttachStep \/ Emit \/ Verify \/ Again
Spec == Init /\ [][Next]_vars
=============================================================================
