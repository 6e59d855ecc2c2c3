----------------------------- MODULE Precedence -----------------------------
(* The table of yps-parser (src/precedence.rs), by which the parser climbs   *)
(* and the printer of the formatter restores parentheses.                    *)
EXTENDS Naturals

AssignPrecedence == 1
TernaryPrecedence == 2
PostfixPrecedence == 13
CallPrecedence == 14
UnaryPrecedence == 16
Assignments ==
  {"=", "+=", "-=", "*=", "/=", "**=", "??=", "&&=", "||=", "%=", "&=", "|=", "^=", "<<=", ">>=", ">>>="}
BinaryPrecedence(op) ==
  CASE op \in Assignments -> 1
    [] op = "||" -> 3
    [] op = "??" -> 4
    [] op = "&&" -> 5
    [] op = "|" -> 6
    [] op = "^" -> 7
    [] op = "&" -> 8
    [] op \in {"==", "===", "!=", "!=="} -> 9
    [] op \in {"<", ">", "<=", ">=", "instanceof", "in"} -> 10
    [] op = "|>" -> 11
    [] op \in {"<<", ">>", ">>>"} -> 12
    [] op \in {"+", "-"} -> 13
    [] op \in {"*", "/", "%"} -> 14
    [] op = "**" -> 15
BinaryIsRightAssoc(op) == op = "**" \/ op \in Assignments
=============================================================================
