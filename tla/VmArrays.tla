------------------------------ MODULE VmArrays ------------------------------
(* The methods of arrays in the bytecode machine (methods.rs).  One that     *)
(* calls nobody takes the items and the arguments to an outcome.  One with a *)
(* callback is a visit: what is left of the snapshot it walks, and what it   *)
(* has found so far; the machine makes the calls.                            *)
EXTENDS JsValues

StrictEq(a, b) == IF IsNum(a) /\ IsNum(b) THEN NumEq(a, b) ELSE a = b
SameValueZero(a, b) == a = b                                   \* NaN is NaN

Reduces == {"reduce", "reduceRight"}
Sorts == {"sort", "toSorted"}
Backwards == {"reduceRight", "findLast", "findLastIndex"}
Visits == Reduces \cup Backwards \cup {"map", "filter", "flatMap", "forEach", "find", "findIndex", "some", "every"}
ArrayMethods ==
  Visits \cup Sorts \cup
  {"push", "pop", "shift", "unshift", "slice", "indexOf", "lastIndexOf", "includes", "join", "reverse", "concat", "at",
   "flat", "toReversed", "splice", "toSpliced", "with", "fill", "copyWithin"}

(* require_args and as_number: how many arguments there must be, and which   *)
(* of them must be numbers if they are there.                                *)
LeastArgs(m) ==
  CASE m = "with" -> 2
    [] m \in Visits \cup {"indexOf", "lastIndexOf", "includes", "at", "copyWithin"} -> 1
    [] OTHER -> 0
NumberArgs(m) ==
  CASE m \in {"at", "flat", "with"} -> {1}
    [] m \in {"slice", "splice", "toSpliced"} -> {1, 2}
    [] m \in {"indexOf", "lastIndexOf", "includes"} -> {2}
    [] m = "fill" -> {2, 3}
    [] m = "copyWithin" -> {1, 2, 3}
    [] OTHER -> {}
Accepts(m, args) == Len(args) >= LeastArgs(m) /\ \A i \in NumberArgs(m) \cap DOMAIN args : IsNum(args[i])

Isize(v) == IF v = VNaN THEN 0 ELSE v[2]
NormalizeIndex(i, n) == IF i < 0 THEN Max({n + i, 0}) ELSE i
ClampIndex(i, n) == Min({NormalizeIndex(i, n), n})
FromEnd(i, n) == IF i < 0 THEN n + i ELSE i

(* splice_impl: what is left, and what was taken out.                        *)
SpliceImpl(items, args) ==
  LET n     == Len(items)
      start == IF args = <<>> THEN 0 ELSE ClampIndex(Isize(args[1]), n)
      count == IF Len(args) < 2 THEN n - start ELSE Min({Max({Isize(args[2]), 0}), n - start})
  IN  [left |-> SubSeq(items, 1, start) \o SubSeq(args, 3, Len(args)) \o SubSeq(items, start + count + 1, n),
       removed |-> SubSeq(items, start + 1, start + count)]

RECURSIVE FlattenItems(_, _, _), JoinElement(_, _, _)
FlattenItems(heap, items, depth) ==
  FlattenSeq([i \in DOMAIN items |->
                IF IsArr(items[i]) /\ depth > 0 THEN FlattenItems(heap, heap[items[i][2]].items, depth - 1)
                ELSE <<items[i]>>])
JoinItems(heap, items, sep) == JoinTexts([i \in DOMAIN items |-> JoinElement(heap, items[i], sep)], sep)
JoinElement(heap, v, sep) ==
  CASE IsNullish(v) -> ""
    [] IsArr(v) -> JoinItems(heap, heap[v[2]].items, sep)
    [] OTHER -> EcmaString(v)

(* Items found from position start on.                                       *)
IndexOfItem(items, target, start) ==
  LET found == {i \in (start + 1)..Len(items) : StrictEq(items[i], target)}
  IN  IF found = {} THEN VNum(0 - 1) ELSE VNum(Min(found) - 1)
LastIndexOfItem(items, target, args) ==
  LET n     == Len(items)
      start == IF Len(args) > 1 THEN Min({FromEnd(Isize(args[2]), n), n - 1}) ELSE n - 1
      found == {i \in 1..(start + 1) : StrictEq(items[i], target)}
  IN  IF found = {} THEN VNum(0 - 1) ELSE VNum(Max(found) - 1)

FillItems(items, args) ==
  LET n     == Len(items)
      value == IF args = <<>> THEN VUndef ELSE args[1]
      start == IF Len(args) > 1 THEN ClampIndex(Isize(args[2]), n) ELSE 0
      end   == IF Len(args) > 2 THEN ClampIndex(Isize(args[3]), n) ELSE n
  IN  [i \in DOMAIN items |-> IF start < i /\ i <= end THEN value ELSE items[i]]

CopyWithin(items, args) ==
  LET n      == Len(items)
      target == ClampIndex(Isize(args[1]), n)
      start  == IF Len(args) > 1 THEN ClampIndex(Isize(args[2]), n) ELSE 0
      end    == IF Len(args) > 2 THEN ClampIndex(Isize(args[3]), n) ELSE n
      count  == Min({Max({end - start, 0}), n - target})
  IN  [i \in DOMAIN items |-> IF target < i /\ i <= target + count THEN items[i - target + start] ELSE items[i]]

(* The methods that look into the array or make another one of it.           *)
ReadMethod(heap, items, m, args) ==
  LET n == Len(items)
      Number(i, default) == IF i \in DOMAIN args THEN Isize(args[i]) ELSE default
      at == FromEnd(Number(1, 0), n)
      sep == IF args = <<>> \/ args[1] = VUndef THEN "," ELSE EcmaString(args[1])
  IN  CASE m = "slice" -> GivesList(items, SubSeq(items, ClampIndex(Number(1, 0), n) + 1, ClampIndex(Number(2, n), n)))
        [] m = "indexOf" -> Gives(items, IndexOfItem(items, args[1], NormalizeIndex(Number(2, 0), n)))
        [] m = "lastIndexOf" -> Gives(items, LastIndexOfItem(items, args[1], args))
        [] m = "includes" ->
             Gives(items, VBool(\E i \in (NormalizeIndex(Number(2, 0), n) + 1)..n : SameValueZero(items[i], args[1])))
        [] m = "join" -> Gives(items, VStr(JoinItems(heap, items, sep)))
        [] m = "concat" -> GivesList(items, items \o FlattenItems(heap, args, 1))
        [] m = "at" -> Gives(items, IF at \in 0..(n - 1) THEN items[at + 1] ELSE VUndef)
        [] m = "flat" -> GivesList(items, FlattenItems(heap, items, Number(1, 1)))
        [] m = "toReversed" -> GivesList(items, Reverse(items))
        [] m = "toSpliced" -> GivesList(items, SpliceImpl(items, args).left)
        [] m = "with" -> IF at \in 0..(n - 1) THEN GivesList(items, [items EXCEPT ![at + 1] = args[2]]) ELSE Refuses
        [] m = "toSorted" -> GivesList(items, SortByText(items))

(* The methods that change the array.                                        *)
WriteMethod(items, m, args) ==
  CASE m = "push" -> Gives(items \o args, VNum(Len(items) + Len(args)))
    [] m = "unshift" -> Gives(args \o items, VNum(Len(items) + Len(args)))
    [] m \in {"pop", "shift"} /\ items = <<>> -> Gives(items, VUndef)
    [] m = "pop" /\ items # <<>> -> Gives(Front(items), Last(items))
    [] m = "shift" /\ items # <<>> -> Gives(Tail(items), Head(items))
    [] m = "reverse" -> GivesSelf(Reverse(items))
    [] m = "splice" -> GivesList(SpliceImpl(items, args).left, SpliceImpl(items, args).removed)
    [] m = "fill" -> GivesSelf(FillItems(items, args))
    [] m = "copyWithin" -> GivesSelf(CopyWithin(items, args))
    [] m = "sort" -> GivesSelf(SortByText(items))

Writes == {"push", "unshift", "pop", "shift", "reverse", "splice", "fill", "copyWithin", "sort"}
DataMethod(heap, items, m, args) ==
  IF m \in Writes THEN WriteMethod(items, m, args) ELSE ReadMethod(heap, items, m, args)

-----------------------------------------------------------------------------
(* Visits.                                                                   *)

Visiting(m, args) == m \in Visits \/ (m \in Sorts /\ args # <<>>)

(* Each method clones the items first.  A sort keeps the items it has put    *)
(* in order and the place it compares the next one with.                     *)
Visit(m, self, items, args) ==
  LET walk == [i \in DOMAIN items |-> <<i - 1, items[i]>>]
      todo == IF m \in Backwards THEN Reverse(walk) ELSE walk
      bare == m \in Reduces /\ Len(args) = 1
  IN  [m |-> m, f |-> args[1], self |-> self,
       todo |-> IF (bare \/ m \in Sorts) /\ todo # <<>> THEN Tail(todo) ELSE todo,
       acc |-> CASE m \in Sorts -> [sorted |-> SubSeq(items, 1, 1), at |-> 1]
                 [] bare -> Head(todo)[2]
                 [] m \in Reduces /\ ~ bare -> args[2]
                 [] m \in {"map", "filter", "flatMap"} -> <<>>
                 [] m \in {"findIndex", "findLastIndex"} -> VNum(0 - 1)
                 [] m \in {"some", "every"} -> VBool(m = "every")
                 [] OTHER -> VUndef]
NothingToReduce(m, items, args) == m \in Reduces /\ Len(args) = 1 /\ items = <<>>

VisitArgs(run) ==
  LET x == Head(run.todo)
  IN  CASE run.m \in Sorts -> <<x[2], run.acc.sorted[run.acc.at]>>
        [] run.m \in Reduces -> <<run.acc, x[2], VNum(x[1]), run.self>>
        [] OTHER -> <<x[2], VNum(x[1]), run.self>>

(* sort_snapshot: what the comparator says of the next item and the one at   *)
(* the place moves it further down or puts it there.                         *)
Sifted(run, v) ==
  LET less == IsNum(v) /\ v # VNaN /\ v[2] < 0
      at   == run.acc.at
      sorted == InsertAt(run.acc.sorted, IF less THEN 1 ELSE at + 1, Head(run.todo)[2])
  IN  IF less /\ at > 1 THEN [run EXCEPT !.acc.at = at - 1]
      ELSE [run EXCEPT !.todo = Tail(@), !.acc = [sorted |-> sorted, at |-> Len(sorted)]]

(* The visit once the callback has answered v.                               *)
VisitTold(heap, run, v) ==
  LET x == Head(run.todo)
      With(acc) == [run EXCEPT !.todo = Tail(@), !.acc = acc]
      Found(acc) == [run EXCEPT !.todo = <<>>, !.acc = acc]
      yes == PrimTruthy(v)
  IN  CASE run.m \in Sorts -> Sifted(run, v)
        [] run.m = "map" -> With(Append(run.acc, v))
        [] run.m = "filter" -> With(IF yes THEN Append(run.acc, x[2]) ELSE run.acc)
        [] run.m = "flatMap" -> With(run.acc \o FlattenItems(heap, <<v>>, 1))
        [] run.m \in Reduces -> With(v)
        [] run.m \in {"find", "findLast"} /\ yes -> Found(x[2])
        [] run.m \in {"findIndex", "findLastIndex"} /\ yes -> Found(VNum(x[1]))
        [] run.m \in {"some", "every"} /\ yes = (run.m = "some") -> Found(VBool(yes))
        [] OTHER -> With(run.acc)

(* ... and once it has seen everything; a sort overwrites the array with     *)
(* what it sorted, whatever the callbacks have done to it.                   *)
VisitEnd(run, items) ==
  CASE run.m \in {"map", "filter", "flatMap"} -> GivesList(items, run.acc)
    [] run.m = "toSorted" -> GivesList(items, run.acc.sorted)
    [] run.m = "sort" -> GivesSelf(run.acc.sorted)
    [] OTHER -> Gives(items, run.acc)
=============================================================================
