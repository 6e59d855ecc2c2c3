------------------------------ MODULE JsValues ------------------------------
(* Primitive values and the f64 and string operations on them.  A value is a *)
(* tuple whose first component is its kind; numbers are integers and NaN,    *)
(* which is what the programs of the models compute with.  A reference to an *)
(* array, object or function is <<kind, identity>>.                          *)
EXTENDS Integers, Sequences, TLC, FiniteSetsExt, SequencesExt

VNum(n) == <<"num", n>>
VNaN == <<"nan">>
VStr(s) == <<"str", s>>
VBool(b) == <<"bool", b>>
VNull == <<"null">>
VUndef == <<"undef">>

IsNum(v) == v[1] \in {"num", "nan"}
IsStr(v) == v[1] = "str"
IsBool(v) == v[1] = "bool"
IsNullish(v) == v[1] \in {"null", "undef"}
IsRef(v) == v[1] \in {"arr", "obj", "fn", "builtin", "class", "bound"}

Equalities == {"==", "!=", "===", "!=="}
Arithmetic == {"+", "-", "*"}
Comparisons == {"<", ">", "<=", ">="}

(* f64, on integers and NaN.                                                 *)
NumArith(op, l, r) ==
  IF VNaN \in {l, r} THEN VNaN
  ELSE VNum(CASE op = "+" -> l[2] + r[2] [] op = "-" -> l[2] - r[2] [] op = "*" -> l[2] * r[2])
NumCompare(op, l, r) ==
  /\ VNaN \notin {l, r}
  /\ CASE op = "<" -> l[2] < r[2] [] op = ">" -> l[2] > r[2]
       [] op = "<=" -> l[2] <= r[2] [] op = ">=" -> l[2] >= r[2]
NumEq(l, r) == l # VNaN /\ l = r
NumNeg(v) == IF v = VNaN THEN VNaN ELSE VNum(0 - v[2])

(* string_to_number, for the texts the models use.                           *)
Digits == <<"0", "1", "2", "3", "4", "5", "6", "7", "8", "9">>
StrToNumber(s) ==
  IF s = "" THEN VNum(0)
  ELSE IF \E i \in DOMAIN Digits : Digits[i] = s
       THEN VNum((CHOOSE i \in DOMAIN Digits : Digits[i] = s) - 1) ELSE VNaN

PrimToNumber(v) ==
  CASE IsNum(v)  -> v
    [] IsBool(v) -> VNum(IF v[2] THEN 1 ELSE 0)
    [] IsStr(v)  -> StrToNumber(v[2])
    [] v = VNull -> VNum(0)
    [] OTHER -> VNaN

PrimTruthy(v) ==
  CASE IsNum(v)  -> v # VNum(0)                        \* NaN is true
    [] IsStr(v)  -> v[2] # ""
    [] IsBool(v) -> v[2]
    [] OTHER -> ~ IsNullish(v)

(* to_ecma_string; a reference has one text here.                            *)
EcmaString(v) ==
  CASE IsStr(v)  -> v[2]
    [] v = VNaN  -> "NaN"
    [] IsNum(v)  -> ToString(v[2])
    [] IsBool(v) -> IF v[2] THEN "true" ELSE "false"
    [] v = VNull -> "null"
    [] v = VUndef -> "undefined"
    [] OTHER -> "[ref]"

(* typeof_str                                                                *)
TypeOf(v) ==
  CASE IsNum(v)  -> "number"
    [] IsStr(v)  -> "string"
    [] IsBool(v) -> "boolean"
    [] v = VUndef -> "undefined"
    [] v[1] \in {"fn", "builtin", "class"} -> "function"
    [] OTHER -> "object"

IsObj(v) == v[1] = "obj"
IsArr(v) == v[1] = "arr"
IsFn(v) == v[1] = "fn"
IsClass(v) == v[1] = "class"

NewArr(items) == [kind |-> "arr", items |-> items]
NewObj(props) == [kind |-> "obj", props |-> props, gen |-> 0]

(* What a method of an array leaves in it, and what it returns: a value, the *)
(* array itself, or a new one.                                               *)
Gives(items, v) == [kind |-> "value", items |-> items, v |-> v]
GivesSelf(items) == [kind |-> "self", items |-> items]
GivesList(items, vs) == [kind |-> "list", items |-> items, v |-> vs]
Refuses == [kind |-> "error"]

(* Texts in the order of their characters.                                   *)
Alphabet == Digits \o <<"a", "b", "c", "d", "e", "u">>
CharRank(c) == CHOOSE i \in DOMAIN Alphabet : Alphabet[i] = c
TextBefore(a, b) ==
  LET At(s, i) == SubSeq(s, i, i)
  IN  \E i \in 1..Len(b) :
        /\ \A j \in 1..(i - 1) : j <= Len(a) /\ At(a, j) = At(b, j)
        /\ i = Len(a) + 1 \/ (i <= Len(a) /\ CharRank(At(a, i)) < CharRank(At(b, i)))
SortByText(items) ==
  LET text == [i \in DOMAIN items |-> EcmaString(items[i])]
      Before(i) == {j \in DOMAIN items : IF text[j] = text[i] THEN j < i ELSE TextBefore(text[j], text[i])}
  IN  [k \in DOMAIN items |-> items[CHOOSE i \in DOMAIN items : Cardinality(Before(i)) = k - 1]]
JoinTexts(texts, sep) ==
  IF texts = <<>> THEN "" ELSE FoldLeft(LAMBDA text, t : text \o sep \o t, texts[1], Tail(texts))

(* ObjMap: properties in the order of insertion; a key is a name, or the     *)
(* getter or the setter of a name.                                           *)
PropKey(v) == <<"name", EcmaString(v)>>
IndexOf(o, key) ==
  LET found == {i \in DOMAIN o.props : o.props[i].key = key} IN IF found = {} THEN 0 ELSE Min(found)
HasKey(o, key) == IndexOf(o, key) # 0
Lookup(o, key) == IF HasKey(o, key) THEN o.props[IndexOf(o, key)].v ELSE VUndef
Insert(o, key, v) ==
  IF HasKey(o, key) THEN [o EXCEPT !.props[IndexOf(o, key)].v = v]
  ELSE [o EXCEPT !.props = Append(@, [key |-> key, v |-> v]), !.gen = @ + 1]
\* Mutant: a removed property does not change the shape.
RemoveKeySilently(o, key) ==
  IF HasKey(o, key) THEN [o EXCEPT !.props = RemoveAt(@, IndexOf(o, key))] ELSE o
RemoveKey(o, key) ==
  IF HasKey(o, key) THEN [o EXCEPT !.props = RemoveAt(@, IndexOf(o, key)), !.gen = @ + 1] ELSE o
OwnProps(o) == SelectSeq(o.props, LAMBDA p : p.key[1] = "name")

InsertAll(o, props) == FoldLeft(LAMBDA x, p : Insert(x, p.key, p.v), o, props)

-----------------------------------------------------------------------------
(* Classes: the parent (a class or undefined), the members with the function *)
(* of each, and the static fields.  An object of a class has it under a key  *)
(* of its own.                                                               *)
CLASS_TAG == <<"class", "">>
NewClass(name, parent, members) ==
  [kind |-> "class", name |-> name, parent |-> parent, members |-> members, statics |-> NewObj(<<>>)]
ClassOf(heap, v) == IF IsObj(v) THEN Lookup(heap[v[2]], CLASS_TAG) ELSE VUndef

(* The class, its parent, and so on.                                         *)
RECURSIVE Ancestry(_, _)
Ancestry(heap, c) == IF IsClass(c) THEN <<c>> \o Ancestry(heap, heap[c[2]].parent) ELSE <<>>

(* find_method, find_getter, find_setter and their static kin: the member of *)
(* the nearest class that has one, and that class.                           *)
FindMember(heap, c, role, static, name) ==
  LET Has(d, x) == x.role = role /\ x.static = static /\ x.name = name
      Of(d) == SelectSeq(heap[d[2]].members, LAMBDA x : Has(d, x))
      owners == SelectSeq(Ancestry(heap, c), LAMBDA d : Of(d) # <<>>)
  IN  IF owners = <<>> THEN <<>> ELSE <<[f |-> Of(owners[1])[1].f, owner |-> owners[1]]>>

(* find_static_field_owner                                                   *)
StaticOwner(heap, c, name) ==
  LET owners == SelectSeq(Ancestry(heap, c), LAMBDA d : HasKey(heap[d[2]].statics, <<"name", name>>))
  IN  IF owners = <<>> THEN c ELSE owners[1]
StaticField(heap, c, name) == heap[StaticOwner(heap, c, name)[2]].statics
Members(heap, c, role, static) ==
  SelectSeq(heap[c[2]].members, LAMBDA x : x.role = role /\ x.static = static)

-----------------------------------------------------------------------------
(* What for-of, spreads and patterns take from an array or a string.         *)
Chars(s) == [i \in 1..Len(s) |-> VStr(SubSeq(s, i, i))]
Iterates(v) == IsArr(v) \/ IsStr(v)
IterableValues(heap, v) == IF IsArr(v) THEN heap[v[2]].items ELSE Chars(v[2])

(* `in` of an array: a number, or a text that reads as one.                  *)
InArray(k, n) ==
  IF IsNum(k) THEN k # VNaN /\ k[2] \in 0..(n - 1)
  ELSE LET x == StrToNumber(EcmaString(k)) IN EcmaString(k) # "" /\ x # VNaN /\ x[2] \in 0..(n - 1)

(* array_index: a whole number inside the array, as a position.              *)
ArrayIndex(i, n) ==
  LET x == PrimToNumber(i) IN IF x # VNaN /\ x[2] \in 0..(n - 1) THEN x[2] + 1 ELSE 0
=============================================================================
