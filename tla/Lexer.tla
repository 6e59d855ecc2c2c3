------------------------------- MODULE Lexer -------------------------------
(* The lexer of yps-lexer (src/lexer.rs, src/token.rs, src/trivia.rs).       *)
(* A source text is a sequence of atoms: a word (letters, never split here), *)
(* a digit, a blank, or any other single character.  Positions count atoms.  *)
(* A keyword is written by the name of its kind, which stands for every      *)
(* spelling of the keyword table.                                            *)
EXTENDS Naturals, Sequences, FiniteSets

LOCAL INSTANCE SequencesExt
LOCAL INSTANCE FiniteSetsExt

Backquote == "Q"                            \* its character, which TLA+ strings cannot hold
Blanks == {" ", "\n", "\t"}
Digits == {"0", "1", "2", "3", "4", "5", "6", "7", "8", "9"}
DigitRun(radix) ==
  CASE radix = 2  -> {"0", "1"}
    [] radix = 8  -> Digits \ {"8", "9"}
    [] radix = 10 -> Digits
    [] radix = 16 -> Digits \cup {"a", "b", "c", "d", "e", "f"}

\* KeywordKind
KeywordKind ==
  {"Gyy", "Uchastkoviy", "YasenHuy", "Vilkoyvglaz", "Ilivzhopuraz", "Potreshchim", "Go", "Hare", "Dvigay",
   "Yopta", "Otvechayu", "Pravda", "Lozh", "Nol", "Try", "Catch", "Finally", "Throw", "Switch", "Case",
   "Default", "DoWhile", "In", "Undefined", "Class", "Extends", "Super", "New", "This", "Static", "Typeof",
   "Instanceof", "GeneratorFn", "Yield", "YieldDelegate", "Async", "Await", "Import", "Export", "From", "Of",
   "Delete", "Void", "Using", "Debugger", "Private", "Protected", "Public"}

\* OperatorKind and PunctuationKind, by their characters
OperatorKind ==
  {"+", "-", "*", "**", "/", "%", "=", "+=", "-=", "*=", "/=", "**=", "++", "--", "==", "===", "!=", "!==",
   "<", ">", "<=", ">=", "&&", "||", "!", "??", "??=", "&&=", "||=", "|>", "&", "|", "^", "~", "<<", ">>",
   ">>>", "%=", "&=", "|=", "^=", "<<=", ">>=", ">>>="}
PunctuationKind == {"(", ")", "{", "}", "[", "]", ";", ",", ":", ".", "...", "?", "?.", "=>", "@"}

\* The words that are operators (those that have one) and punctuation.
OperatorWord ==
  [blyabudu |-> "===", blyasuka |-> "==", vnature |-> "=", ilicho |-> "||", icho |-> "&&", konkretno |-> "===",
   odnahuynya |-> "==", pizzhe |-> ">", plyusuyuNa |-> "++", poc |-> "<=", pocik |-> ">=", rovno |-> "==",
   slilsyaNa |-> "--", suka |-> "=", tipa |-> "==", huevey |-> "<", chetkorovno |-> "===", choblya |-> "!",
   ekvalio |-> "=="]
PunctWord == [blya |-> ";", zhY |-> "{", nah |-> ";", nahuy |-> ";"]

Symbols == {"+", "-", "*", "/", "%", "=", "!", "<", ">", "&", "|", "^", "~", "(", ")", "{", "}", "[", "]", ";", ",",
            ":", ".", "?", "@", "#", "\"", "'", Backquote, "\\", "$"}
IsWord(a) == a \notin Symbols \cup Blanks \cup Digits
IsAlnum(a) == IsWord(a) \/ a \in Digits

-----------------------------------------------------------------------------
(* A lexer: what is left to read starts at pos.  braces has, for every       *)
(* template literal being read, the braces opened in its current             *)
(* interpolation.  last is the token before, as kind and text.               *)

Token(kind, is, raw, at, to) == [kind |-> kind, is |-> is, raw |-> raw, at |-> at, to |-> to]
StartLexer(src) ==
  [src |-> src, pos |-> 1, braces |-> <<>>, last |-> <<"none", "">>, tokens |-> <<>>, trivia |-> <<>>, errors |-> 0,
   done |-> FALSE]

AtEnd(src, i) == i > Len(src)
CharAt(src, i) == IF AtEnd(src, i) THEN "eof" ELSE src[i]
Glued(atoms) == FoldLeft(LAMBDA text, a : text \o a, "", atoms)

\* The first place from i on that holds none of the atoms of S, or no alphanumeric one.
RECURSIVE SkipAll(_, _, _), SkipAlnum(_, _)
SkipAll(src, i, S) == IF CharAt(src, i) \in S THEN SkipAll(src, i + 1, S) ELSE i
SkipAlnum(src, i) == IF ~ AtEnd(src, i) /\ IsAlnum(src[i]) THEN SkipAlnum(src, i + 1) ELSE i

Push(L, kind, is, to) ==
  [L EXCEPT !.pos = to, !.last = <<kind, is>>,
            !.tokens = Append(@, Token(kind, is, SubSeq(L.src, L.pos, to - 1), L.pos, to))]
PushText(L, kind, to) == Push(L, kind, Glued(SubSeq(L.src, L.pos, to - 1)), to)
Fault(L) == [L EXCEPT !.errors = @ + 1]
FaultIf(L, bad) == IF bad THEN Fault(L) ELSE L

\* Where a `/` starts a regular expression rather than a division.
RegexContext(last) ==
  CASE last[1] = "none" -> TRUE
    [] last[1] \in {"id", "private", "num", "str", "nosub", "tail", "regex"} -> FALSE
    [] last[1] = "kw" -> last[2] \notin {"Pravda", "Lozh", "Nol", "Undefined", "This", "Super"}
    [] last[1] = "op" -> last[2] \notin {"++", "--"}
    [] last[1] = "punct" -> last[2] \in {"(", "[", "{", ",", ";", ":", "?", "=>", "...", "@"}
    [] OTHER -> TRUE

-----------------------------------------------------------------------------
(* One operator per kind of token.                                           *)

WordTokenKind(text) ==
  CASE text \in KeywordKind -> <<"kw", text>>
    [] text \in DOMAIN OperatorWord -> <<"op", OperatorWord[text]>>
    [] text \in DOMAIN PunctWord -> <<"punct", PunctWord[text]>>
    [] OTHER -> <<"id", text>>

ReadIdentifier(L) ==
  LET to == SkipAlnum(L.src, L.pos)
      kind == WordTokenKind(Glued(SubSeq(L.src, L.pos, to - 1)))
  IN  Push(L, kind[1], kind[2], to)

ReadPrivateIdentifier(L) == PushText(L, "private", SkipAlnum(L.src, L.pos + 1))

\* The place after the closing quote or after the text, and which of the two it is.
RECURSIVE StringEnd(_, _, _)
StringEnd(src, i, quote) ==
  CASE AtEnd(src, i) -> <<"unclosed", i>>
    [] CharAt(src, i) = quote -> <<"end", i + 1>>
    [] CharAt(src, i) = "\\" -> StringEnd(src, IF AtEnd(src, i + 1) THEN i + 1 ELSE i + 2, quote)
    [] OTHER -> StringEnd(src, i + 1, quote)
ReadString(L) ==
  LET end == StringEnd(L.src, L.pos + 1, L.src[L.pos]) IN PushText(FaultIf(L, end[1] = "unclosed"), "str", end[2])

RadixOf(marker) == CASE marker = "x" -> 16 [] marker = "o" -> 8 [] marker = "b" -> 2 [] OTHER -> 10
ReadNumber(L) ==
  LET src == L.src
      Run(i, radix) == SkipAll(src, i, DigitRun(radix) \cup {"_"})
      Suffixed(i) == IF CharAt(src, i) = "n" THEN i + 1 ELSE i
      radix == IF src[L.pos] = "0" THEN RadixOf(CharAt(src, L.pos + 1)) ELSE 10
      prefixed == Run(L.pos + 2, radix)
      whole == Run(L.pos, 10)
      decimal == CharAt(src, whole) = "." /\ CharAt(src, whole + 1) \in Digits
      fraction == IF decimal THEN Run(whole + 1, 10) ELSE whole
      sign == IF CharAt(src, fraction + 1) \in {"+", "-"} THEN 2 ELSE 1
      exponent == CharAt(src, fraction) = "e" /\ CharAt(src, fraction + sign) \in Digits
  IN  IF radix # 10
      THEN PushText(FaultIf(L, \A i \in (L.pos + 2)..(prefixed - 1) : src[i] = "_"), "num", Suffixed(prefixed))
      ELSE PushText(L, "num", CASE exponent -> Run(fraction + sign, 10)
                                [] decimal /\ ~ exponent -> fraction
                                [] OTHER -> Suffixed(fraction))

\* The place after the closing `/`, or 0 when the line ends first.
RECURSIVE RegexEnd(_, _, _)
RegexEnd(src, i, inClass) ==
  CASE CharAt(src, i) \in {"eof", "\n"} -> 0
    [] CharAt(src, i) = "\\" -> RegexEnd(src, IF CharAt(src, i + 1) \in {"eof", "\n"} THEN i + 1 ELSE i + 2, inClass)
    [] CharAt(src, i) = "[" -> RegexEnd(src, i + 1, TRUE)
    [] CharAt(src, i) = "]" -> RegexEnd(src, i + 1, FALSE)
    [] CharAt(src, i) = "/" /\ ~ inClass -> i + 1
    [] OTHER -> RegexEnd(src, i + 1, inClass)
ReadRegex(L) ==
  LET close == RegexEnd(L.src, L.pos + 1, FALSE)
      line == CHOOSE i \in L.pos..(Len(L.src) + 1) : CharAt(L.src, i) \in {"eof", "\n"} /\ \A j \in L.pos..(i - 1) : L.src[j] # "\n"
  IN  IF close = 0 THEN Push(Fault(L), "unknown", "", line)
      ELSE PushText(L, "regex", IF ~ AtEnd(L.src, close) /\ IsWord(L.src[close]) THEN close + 1 ELSE close)

\* The place after the next interpolation opens or after the template, and which of the two it is.
RECURSIVE ReadTemplateChars(_, _)
ReadTemplateChars(src, i) ==
  CASE AtEnd(src, i) -> <<"unclosed", i>>
    [] CharAt(src, i) = Backquote -> <<"end", i + 1>>
    [] CharAt(src, i) = "$" /\ CharAt(src, i + 1) = "{" -> <<"interpolation", i + 2>>
    [] CharAt(src, i) = "\\" -> ReadTemplateChars(src, IF AtEnd(src, i + 1) THEN i + 1 ELSE i + 2)
    [] OTHER -> ReadTemplateChars(src, i + 1)
\* The part of a template from a backquote, or from the brace that closes an interpolation.
ReadTemplatePart(L, whole, first) ==
  LET end == ReadTemplateChars(L.src, L.pos + 1)
      M == FaultIf(L, end[1] = "unclosed")
  IN  IF end[1] = "interpolation" THEN PushText([M EXCEPT !.braces = Append(@, 0)], first, end[2])
      ELSE PushText(M, whole, end[2])

Comment(L, kind, to) ==
  [L EXCEPT !.pos = to,
            !.trivia = Append(@, [kind |-> kind, raw |-> SubSeq(L.src, L.pos, to - 1), at |-> L.pos, to |-> to])]
LineComment(L) ==
  Comment(L, "LineComment",
    CHOOSE i \in L.pos..(Len(L.src) + 1) : CharAt(L.src, i) \in {"eof", "\n"} /\ \A j \in L.pos..(i - 1) : L.src[j] # "\n")
BlockComment(L) ==
  LET ends == {i \in (L.pos + 2)..(Len(L.src) - 1) : L.src[i] = "*" /\ L.src[i + 1] = "/"}
  IN  Comment(FaultIf(L, ends = {}), "BlockComment", IF ends = {} THEN Len(L.src) + 1 ELSE Min(ends) + 2)

OpenBrace(L) ==
  LET n == Len(L.braces) IN Push(IF n = 0 THEN L ELSE [L EXCEPT !.braces[n] = @ + 1], "punct", "{", L.pos + 1)
\* Mutant: the braces opened within an interpolation are not counted.
CloseBraceAnyDepth(L) ==
  IF L.braces # <<>> THEN ReadTemplatePart([L EXCEPT !.braces = Front(@)], "tail", "middle") ELSE Push(L, "punct", "}", L.pos + 1)
CloseBrace(L) ==
  LET n == Len(L.braces)
  IN  IF n > 0 /\ L.braces[n] = 0 THEN ReadTemplatePart([L EXCEPT !.braces = Front(@)], "tail", "middle")
      ELSE Push(IF n = 0 THEN L ELSE [L EXCEPT !.braces[n] = @ - 1], "punct", "}", L.pos + 1)

\* The longest operator or punctuation that starts here; `?.` is none before a digit.
ReadOperatorOrPunctuation(L) ==
  LET Of(n) == Glued(SubSeq(L.src, L.pos, L.pos + n - 1))
      lengths == {n \in 1..4 : /\ L.pos + n - 1 <= Len(L.src)
                               /\ Of(n) \in OperatorKind \cup PunctuationKind
                               /\ ~ (Of(n) = "?." /\ CharAt(L.src, L.pos + 2) \in Digits)}
      text == Of(Max(lengths))
  IN  IF lengths = {} THEN Push(Fault(L), "unknown", "", L.pos + 1)
      ELSE Push(L, IF text \in OperatorKind THEN "op" ELSE "punct", text, L.pos + Len(text))

-----------------------------------------------------------------------------
\* One token or one comment.
ReadOne(L, ch, next) ==
  CASE ch = "#" /\ next # "eof" /\ IsWord(next) -> ReadPrivateIdentifier(L)
    [] IsWord(ch) -> ReadIdentifier(L)
    [] ch \in Digits -> ReadNumber(L)
    [] ch \in {"\"", "'"} -> ReadString(L)
    [] ch = Backquote -> ReadTemplatePart(L, "nosub", "head")
    [] ch = "/" /\ next = "/" -> LineComment(L)
    [] ch = "/" /\ next = "*" -> BlockComment(L)
    [] ch = "/" /\ next \notin {"/", "*"} /\ RegexContext(L.last) -> ReadRegex(L)
    [] ch = "{" -> OpenBrace(L)
    [] ch = "}" -> CloseBrace(L)
    [] OTHER -> ReadOperatorOrPunctuation(L)
NextToken(M) ==
  LET L == [M EXCEPT !.pos = SkipAll(M.src, M.pos, Blanks)]
  IN  IF AtEnd(L.src, L.pos) THEN [Push(L, "eof", "", L.pos) EXCEPT !.done = TRUE]
      ELSE ReadOne(L, L.src[L.pos], CharAt(L.src, L.pos + 1))

\* At most 2^n tokens: the loop of run, halved so that it nests no deeper than n.
RECURSIVE Run(_, _)
Run(L, n) ==
  IF L.done THEN L ELSE IF n = 0 THEN NextToken(L) ELSE LET M == Run(L, n - 1) IN Run(M, n - 1)
Tokenize(src) == LET L == Run(StartLexer(src), 12) IN [tokens |-> L.tokens, trivia |-> L.trivia, errors |-> L.errors]
=============================================================================
