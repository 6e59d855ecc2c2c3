------------------------------ MODULE StdArrays ------------------------------
(* The methods of arrays in the interpreter's library (stdlib/array.rs) that *)
(* call nobody: what each leaves in the array, and what it returns.          *)
EXTENDS JsValues, FiniteSets

Folds == {"reduce", "reduceRight"}
FromTheEnd == {"reduceRight", "findLast", "findLastIndex"}
Callbacks == Folds \cup FromTheEnd \cup {"map", "filter", "flatMap", "forEach", "find", "findIndex", "some", "every"}
Sorting == {"sort", "toSorted"}
Searches == {"indexOf", "lastIndexOf", "includes"}
Splices == {"splice", "toSpliced"}

(* method_exists                                                             *)
MethodExists(m) ==
  m \in Callbacks \cup Sorting \cup Searches \cup Splices \cup
        {"push", "pop", "shift", "unshift", "slice", "join", "reverse", "concat", "at", "flat", "toReversed", "with",
         "fill", "copyWithin"}

(* require_args and as_number.                                               *)
RequireArgs(m, args) ==
  Len(args) >= IF m = "with" THEN 2 ELSE IF m \in Callbacks \cup Searches \cup {"at", "copyWithin"} THEN 1 ELSE 0
AsNumbers(m, args) ==
  \A i \in DOMAIN args :
    \/ IsNum(args[i])
    \/ ~ \/ i = 1 /\ m \in Splices \cup {"slice", "at", "flat", "with", "copyWithin"}
         \/ i = 2 /\ m \in Splices \cup Searches \cup {"slice", "fill", "copyWithin"}
         \/ i = 3 /\ m \in {"fill", "copyWithin"}

AsIsize(v) == IF v = VNaN THEN 0 ELSE v[2]
NormalizeIndex(i, len) == IF i < 0 THEN Max({len + i, 0}) ELSE i
ClampIndex(i, len) == Min({NormalizeIndex(i, len), len})

(* PartialEq of Value, by which a function equals nothing, and               *)
(* same_value_zero.                                                          *)
SameItem(a, b) == a = b /\ a # VNaN /\ a[1] \notin {"fn", "builtin"}
SameValueZero(a, b) == SameItem(a, b) \/ (a = VNaN /\ b = VNaN)

RECURSIVE Flatten(_, _, _), JoinOne(_, _, _)
Flatten(heap, vs, depth) ==
  FoldLeft(LAMBDA flat, v : flat \o IF IsArr(v) /\ depth > 0 THEN Flatten(heap, heap[v[2]].items, depth - 1) ELSE <<v>>,
           <<>>, vs)
JoinAll(heap, vs, sep) == JoinTexts([i \in DOMAIN vs |-> JoinOne(heap, vs[i], sep)], sep)
JoinOne(heap, v, sep) ==
  IF IsNullish(v) THEN "" ELSE IF IsArr(v) THEN JoinAll(heap, heap[v[2]].items, sep) ELSE EcmaString(v)

(* The first or the last position with the item, or -1.                      *)
Search(vs, m, args) ==
  LET len   == Len(vs)
      raw   == IF Len(args) > 1 THEN AsIsize(args[2]) ELSE IF m = "lastIndexOf" THEN len - 1 ELSE 0
      first == NormalizeIndex(raw, len)
      last  == IF raw < 0 THEN len + raw ELSE Min({raw, len - 1})
      after == {i \in first..(len - 1) : SameItem(vs[i + 1], args[1])}
      up_to == {i \in 0..last : SameItem(vs[i + 1], args[1])}
  IN  CASE m = "indexOf" -> VNum(IF after = {} THEN 0 - 1 ELSE Min(after))
        [] m = "lastIndexOf" -> VNum(IF up_to = {} THEN 0 - 1 ELSE Max(up_to))
        [] m = "includes" -> VBool(\E i \in first..(len - 1) : SameValueZero(vs[i + 1], args[1]))

(* splice_impl                                                               *)
Spliced(vs, args) ==
  LET len    == Len(vs)
      start  == IF args = <<>> THEN 0 ELSE ClampIndex(AsIsize(args[1]), len)
      delete == IF Len(args) < 2 THEN len - start ELSE Min({Max({AsIsize(args[2]), 0}), len - start})
      new    == SubSeq(vs, 1, start) \o SubSeq(args, 3, Len(args)) \o SubSeq(vs, start + delete + 1, len)
  IN  <<new, SubSeq(vs, start + 1, start + delete)>>

(* fill, and copyWithin, which copies from the array as it was.              *)
Overwritten(vs, m, args) ==
  LET len == Len(vs)
      Arg(i, default) == IF i \in DOMAIN args THEN ClampIndex(AsIsize(args[i]), len) ELSE default
      target == Arg(1, 0)
      count  == Min({Max({Arg(3, len) - Arg(2, 0), 0}), len - target})
      value  == IF args = <<>> THEN VUndef ELSE args[1]
      filled == {i \in DOMAIN vs : i \in (Arg(2, 0) + 1)..Arg(3, len)}
  IN  IF m = "fill" THEN [i \in DOMAIN vs |-> IF i \in filled THEN value ELSE vs[i]]
      ELSE [i \in DOMAIN vs |-> IF i \in (target + 1)..(target + count) THEN vs[Arg(2, 0) + i - target] ELSE vs[i]]

Sliced(vs, args) ==
  LET start == IF args = <<>> THEN 0 ELSE ClampIndex(AsIsize(args[1]), Len(vs))
      end   == IF Len(args) < 2 THEN Len(vs) ELSE ClampIndex(AsIsize(args[2]), Len(vs))
  IN  SubSeq(vs, start + 1, end)

(* at and with: the position, counted from the end below zero, or 0.         *)
Position(vs, i) ==
  LET real == IF AsIsize(i) < 0 THEN Len(vs) + AsIsize(i) ELSE AsIsize(i) IN IF real \in 0..(Len(vs) - 1) THEN real + 1 ELSE 0

CallPlain(heap, vs, m, args) ==
  LET sep == IF args = <<>> \/ args[1] = VUndef THEN "," ELSE EcmaString(args[1])
      depth == IF args = <<>> THEN 1 ELSE AsIsize(args[1])
  IN  CASE m = "push" -> Gives(vs \o args, VNum(Len(vs \o args)))
        [] m = "unshift" -> Gives(args \o vs, VNum(Len(args \o vs)))
        [] m = "pop" -> IF vs = <<>> THEN Gives(vs, VUndef) ELSE Gives(Front(vs), Last(vs))
        [] m = "shift" -> IF vs = <<>> THEN Gives(vs, VUndef) ELSE Gives(Tail(vs), vs[1])
        [] m = "slice" -> GivesList(vs, Sliced(vs, args))
        [] m \in Searches -> Gives(vs, Search(vs, m, args))
        [] m = "join" -> Gives(vs, VStr(JoinAll(heap, vs, sep)))
        [] m = "reverse" -> GivesSelf(Reverse(vs))
        [] m = "toReversed" -> GivesList(vs, Reverse(vs))
        [] m = "concat" -> GivesList(vs, vs \o Flatten(heap, args, 1))
        [] m = "at" -> Gives(vs, IF Position(vs, args[1]) = 0 THEN VUndef ELSE vs[Position(vs, args[1])])
        [] m = "flat" -> GivesList(vs, Flatten(heap, vs, depth))
        [] m = "splice" -> GivesList(Spliced(vs, args)[1], Spliced(vs, args)[2])
        [] m = "toSpliced" -> GivesList(vs, Spliced(vs, args)[1])
        [] m = "with" -> IF Position(vs, args[1]) = 0 THEN Refuses ELSE GivesList(vs, [vs EXCEPT ![Position(vs, args[1])] = args[2]])
        [] m \in {"fill", "copyWithin"} -> GivesSelf(Overwritten(vs, m, args))
        [] m = "sort" -> GivesSelf(SortByText(vs))
        [] m = "toSorted" -> GivesList(vs, SortByText(vs))
=============================================================================
