----------------------------- MODULE MCFormatter -----------------------------
(* The formatter on every kind of expression in every place, on programs     *)
(* with every kind of statement in three writings, and on a program with two *)
(* comments at any two of its blanks.                                        *)
EXTENDS Formatter, Parser, Printer

Written == INSTANCE FormatSources
Trees == INSTANCE FormatTrees

\* An expression in a place, a structure in one of its writings, or a structure with two comments.
CommentText == Written!OnLines(Written!Written(Trees!Structures.commented))
CommentPlaces == {<<i, j>> \in Written!BlanksOf(CommentText) \X Written!BlanksOf(CommentText) : i <= j}
CommentKinds == {<<x, y>> : x, y \in {"block", "line"}}

Placed == {[place |-> p, kind |-> k] : p \in Trees!Places, k \in Trees!Kinds}
Structures == {[structure |-> n, written |-> w] : n \in DOMAIN Trees!Structures, w \in {"plain", "lines", "words"}}
Commented == {[commented |-> c, kinds |-> k] : c \in CommentPlaces, k \in CommentKinds}
All == Placed \cup Structures \cup Commented

Tree(i) ==
  CASE Has(i, "place") -> Trees!Placed(i.place, i.kind)
    [] Has(i, "structure") -> Trees!Structures[i.structure]
    [] OTHER -> Trees!Structures.commented
Text1(i) == Written!Written(Tree(i))
TheSource(i) ==
  CASE Has(i, "place") -> Text1(i)
    [] Has(i, "structure") ->
         (CASE i.written = "plain" -> Text1(i) [] i.written = "lines" -> Written!OnLines(Text1(i)) [] i.written = "words" -> Written!InWords(Text1(i)))
    [] OTHER -> Written!Commented(CommentText, i.commented[1], i.kinds[1], i.commented[2], i.kinds[2])
Unprintable(i) ==
  CASE Has(i, "place") -> Trees!Refused(i.place, i.kind)
    [] Has(i, "structure") -> i.structure \in Trees!Unprintable
    [] OTHER -> FALSE

-----------------------------------------------------------------------------
\* What a text says is what is read: the parser gives the tree that a text was written from, whatever its
\* blanks, comments and spellings, although operators, regular expressions, arrow heads and interpolations
\* are told apart only by what stands around them (lexer.rs regex context, precedence.rs, parser/expr.rs).
ReadsBack == round = 1 /\ stage # "read" => stage # "ParseError" /\ ProgramsEquivalent(program, Tree(input))

\* The formatter refuses just what it cannot write: the round trip (lib.rs verify_round_trip) fails for the
\* expressions whose parentheses printer.rs loses and for nothing else, so no other program is refused.
Accepted ==
  round = 1 /\ ~ Has(input, "commented") /\ stage \in {"formatted", "RoundTripFailed"}
    => (stage = "formatted") = ~ Unprintable(input)

\* What was formatted once is accepted again and stays as it is: the next save writes the same text
\* (printer.rs print_program; the comments are given to the statements they were printed with).
Stable ==
  round > 1 => stage \notin {"ParseError", "CommentRefused", "RoundTripFailed"} /\ (stage = "verify" => text = source)

\* A comment stays with its statement: the round trip compares only which comments there are (normalize.rs
\* comment_texts_equal), and yet each is before, behind or below the statement it was given to (comments.rs).
CommentsKeepPlace == stage = "formatted" => Placements(text) = Placements(source)

\* The README of the repository: what the formatter writes is the same program.  It is not: a pattern in the
\* place of a parameter is written as the name the parser made up for it (printer.rs print_param), which the
\* round trip takes for the same (normalize.rs param_eq).
PatternsOf(stmts) ==
  {<<s.name, [i \in DOMAIN s.params |-> s.params[i].pattern]>> : s \in {stmts[i] : i \in {j \in DOMAIN stmts : stmts[j].k = "fndecl"}}}
KeepsPatterns == stage = "formatted" => PatternsOf(Parsed(text).program) = PatternsOf(program)
=============================================================================
