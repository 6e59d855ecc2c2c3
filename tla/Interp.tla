------------------------------- MODULE Interp -------------------------------
(* The tree-walking interpreter (crates/yps-interpreter/src/interpreter) as  *)
(* a function from programs to what they do.  A state is                     *)
(*   env, cur   the scopes (environment.rs), and the current one             *)
(*   heap, out  arrays, objects and functions; what was printed              *)
(*   label      pending_label                                                *)
(* and the result of evaluating something a state, a kind c and a value v.   *)
(* Expressions end in "val", "thrown" (a RuntimeError that carries a value)  *)
(* or "err" (one that does not); statements also in "normal", "break",       *)
(* "continue", "return" and "throw" (ControlFlow).  Where the code leaves    *)
(* with `?`, the current scope is whatever it was there.                     *)
EXTENDS Syntax, StdArrays

Result(st, c, v) == [st |-> st, c |-> c, v |-> v]
Val(st, v) == Result(st, "val", v)
Err(st) == Result(st, "err", VUndef)
Normal(st) == Result(st, "normal", VUndef)
Failures == {"thrown", "err"}

(* `?`, after an expression.                                                 *)
Then(r, F(_, _)) == IF r.c = "val" THEN F(r.st, r.v) ELSE r
(* ... and after an expression whose value a statement does not need.        *)
Discard(r) == IF r.c = "val" THEN Normal(r.st) ELSE r

-----------------------------------------------------------------------------
(* Scopes.                                                                   *)

Scope(parent) == [vars |-> <<>>, consts |-> {}, tdz |-> {}, disposables |-> <<>>, parent |-> parent]
ScopeOf(st) == st.env[st.cur]

PushScopeOn(st, parent) == [st EXCEPT !.env = Append(@, Scope(parent)), !.cur = Len(st.env) + 1]
PushScope(st) == PushScopeOn(st, st.cur)
PopScope(st) == [st EXCEPT !.cur = IF ScopeOf(st).parent = 0 THEN @ ELSE ScopeOf(st).parent]
ForkScope(st) == [st EXCEPT !.env = Append(@, [ScopeOf(st) EXCEPT !.disposables = <<>>]), !.cur = Len(st.env) + 1]

Define(st, name, v, const) ==
  [st EXCEPT !.env[st.cur].vars = (name :> v) @@ @,
             !.env[st.cur].consts = IF const THEN @ \cup {name} ELSE @,
             !.env[st.cur].tdz = @ \ {name}]

MarkTdz(st, names) == [st EXCEPT !.env[st.cur].tdz = @ \cup (names \ DOMAIN ScopeOf(st).vars)]

(* The scopes from s outwards.                                               *)
RECURSIVE Chain(_, _)
Chain(st, s) == IF s = 0 THEN <<>> ELSE <<s>> \o Chain(st, st.env[s].parent)

(* The nearest scope for which Test holds, or 0.                             *)
Nearest(st, Test(_)) == LET found == SelectSeq(Chain(st, st.cur), Test) IN IF found = <<>> THEN 0 ELSE found[1]

Holder(st, name) == Nearest(st, LAMBDA s : name \in DOMAIN st.env[s].vars)
GetVar(st, name) == st.env[Holder(st, name)].vars[name]
IsConst(st, name) == Nearest(st, LAMBDA s : name \in st.env[s].consts) # 0

Builtins == {"print"}
(* lookup_read: a binding, or the mark of one that is not initialized yet.   *)
LookupRead(st, name) ==
  LET s == Nearest(st, LAMBDA x : name \in DOMAIN st.env[x].vars \cup st.env[x].tdz)
  IN  CASE s = 0 -> IF name \in Builtins THEN Val(st, <<"builtin", name>>) ELSE Err(st)
        [] s # 0 /\ name \in DOMAIN st.env[s].vars -> Val(st, st.env[s].vars[name])
        [] OTHER -> Err(st)

SetVariable(st, name, v) ==
  LET s == Holder(st, name)
  IN  IF IsConst(st, name) \/ s = 0 THEN Err(st) ELSE Val([st EXCEPT !.env[s].vars[name] = v], v)

Alloc(st, object, kind) == Val([st EXCEPT !.heap = Append(@, object)], <<kind, Len(st.heap) + 1>>)
Function(st, params, body, scope) == [kind |-> "fn", params |-> params, body |-> body, scope |-> scope]
Items(st, v) == st.heap[v[2]].items

-----------------------------------------------------------------------------
(* Operators.                                                                *)

(* The interpreter's typeof of a class is "object".                          *)
TypeName(v) == IF IsClass(v) THEN "object" ELSE TypeOf(v)
UnaryValue(st, op, v) ==
  Val(st, CASE op = "-" -> NumNeg(PrimToNumber(v)) [] op = "+" -> PrimToNumber(v)
            [] op = "!" -> VBool(~ PrimTruthy(v)) [] op = "typeof" -> VStr(TypeName(v)))

LooselyEqual(a, b) ==
  CASE IsNullish(a) /\ IsNullish(b) -> TRUE
    [] IsNum(a) /\ IsNum(b) -> NumEq(a, b)
    [] {a[1], b[1]} \in {{"num", "str"}, {"num", "bool"}, {"bool", "str"}} -> NumEq(PrimToNumber(a), PrimToNumber(b))
    [] OTHER -> SameItem(a, b)
StrictlyEqual(a, b) == SameItem(a, b)

(* instance_of_check goes by the names of the classes.                       *)
InstanceOf(st, v, c) ==
  \E d \in Range(Ancestry(st.heap, ClassOf(st.heap, v))) : st.heap[d[2]].name = st.heap[c[2]].name

(* eval_binary; - and * take numbers only.                                   *)
BinaryValue(st, op, a, b) ==
  CASE op = "+" -> Val(st, IF IsStr(a) \/ IsStr(b) \/ IsRef(a) \/ IsRef(b) THEN VStr(EcmaString(a) \o EcmaString(b))
                           ELSE NumArith("+", PrimToNumber(a), PrimToNumber(b)))
    [] op \in {"-", "*"} -> IF IsNum(a) /\ IsNum(b) THEN Val(st, NumArith(op, a, b)) ELSE Err(st)
    [] op \in Comparisons -> Val(st, VBool(NumCompare(op, PrimToNumber(a), PrimToNumber(b))))
    [] op \in {"===", "!=="} -> Val(st, VBool(StrictlyEqual(a, b) = (op = "===")))
    [] op \in {"==", "!="} -> Val(st, VBool(LooselyEqual(a, b) = (op = "==")))
    [] op = "instanceof" /\ IsClass(b) -> Val(st, VBool(InstanceOf(st, a, b)))
    [] op = "in" /\ IsObj(b) -> Val(st, VBool(HasKey(st.heap[b[2]], PropKey(a))))
    [] op = "in" /\ IsArr(b) -> Val(st, VBool(InArray(a, Len(Items(st, b)))))
    [] OTHER -> Err(st)

(* `as usize` of a number: what is below zero, and NaN, become 0.            *)
AsUsize(v) == IF v = VNaN \/ (v # VNaN /\ v[2] < 0) THEN 0 ELSE v[2]

IndexValue(st, o, i) ==
  CASE IsArr(o) /\ IsNum(i) ->
         Val(st, IF AsUsize(i) < Len(Items(st, o)) THEN Items(st, o)[AsUsize(i) + 1] ELSE VUndef)
    [] IsObj(o) /\ IsStr(i) -> Val(st, Lookup(st.heap[o[2]], PropKey(i)))
    [] IsObj(o) /\ IsNum(i) -> Val(st, Lookup(st.heap[o[2]], PropKey(VNum(AsUsize(i)))))
    [] IsStr(o) /\ IsNum(i) -> LET at == ArrayIndex(i, Len(o[2]))
                               IN  Val(st, IF at = 0 THEN VUndef ELSE Chars(o[2])[at])
    [] OTHER -> Err(st)

(* set_at_path: segments <<"member", name>> and <<"index", value>>.          *)
RECURSIVE SetAtPath(_, _, _, _)
SetAtPath(st, target, path, v) ==
  LET seg  == path[1]
      at   == AsUsize(seg[2])
      key  == IF seg[1] = "member" THEN <<"name", seg[2]>> ELSE PropKey(seg[2])
      Down(child) == SetAtPath(st, child, Tail(path), v)
      fields == StaticOwner(st.heap, target, seg[2])
  IN  CASE IsArr(target) /\ seg[1] = "index" /\ IsNum(seg[2]) ->
             IF at >= Len(Items(st, target)) THEN Err(st)
             ELSE IF Len(path) = 1 THEN Val([st EXCEPT !.heap[target[2]].items[at + 1] = v], v)
             ELSE Down(Items(st, target)[at + 1])
        [] IsObj(target) /\ (seg[1] = "member" \/ IsStr(seg[2])) ->
             IF Len(path) = 1 THEN Val([st EXCEPT !.heap[target[2]] = Insert(@, key, v)], v)
             ELSE Down(Lookup(st.heap[target[2]], key))
        [] IsClass(target) /\ seg[1] = "member" ->
             IF Len(path) = 1 THEN Val([st EXCEPT !.heap[fields[2]].statics = Insert(@, key, v)], v)
             ELSE Down(Lookup(st.heap[fields[2]].statics, key))
        [] OTHER -> Err(st)

-----------------------------------------------------------------------------
(* Names that a list of statements declares.                                 *)

RECURSIVE PatternNames(_)
PatternNames(p) ==
  CASE p.k = "id" -> {p.name}
    [] p.k = "default" -> PatternNames(p.p)
    [] p.k = "array" -> UNION ({PatternNames(Get(p.elements[i])) : i \in {j \in DOMAIN p.elements : IsSome(p.elements[j])}}
                               \cup IF IsSome(p.rest) THEN {PatternNames(Get(p.rest))} ELSE {})
    [] p.k = "object" -> UNION ({IF IsSome(p.props[i].value) THEN PatternNames(Get(p.props[i].value))
                                 ELSE {p.props[i].key} : i \in DOMAIN p.props}
                                \cup IF IsSome(p.rest) THEN {PatternNames(Get(p.rest))} ELSE {})
LexicalDeclarations(stmts) ==
  UNION {CASE stmts[i].k = "var" -> PatternNames(stmts[i].pattern)
           [] stmts[i].k = "using" -> {stmts[i].name}
           [] OTHER -> {} : i \in DOMAIN stmts}

-----------------------------------------------------------------------------
(* Expressions.                                                              *)

RECURSIVE Eval(_, _), EvalSpread(_, _), BindParams(_, _, _, _), Destructure(_, _, _, _), ExecStmt(_, _),
          ExecStmts(_, _), AccessPath(_, _), EvalEntries(_, _, _), EvalParts(_, _, _), AssignTo(_, _, _),
          CallFunction(_, _, _)

HoistFunctions(st, stmts) ==
  FoldLeft(LAMBDA s, f : IF f.k # "fndecl" THEN s
                         ELSE LET r == Alloc(s, Function(s, f.params, f.body, s.cur), "fn")
                              IN  Define(r.st, f.name, r.v, FALSE),
           st, stmts)
ExecBlockStmts(st, stmts) == ExecStmts(HoistFunctions(st, stmts), stmts)

(* call_function wants as many arguments as there are parameters without     *)
(* default, methods do not.  The caller's scope is current again once the    *)
(* body has run.                                                             *)
Required(params) == Cardinality({i \in DOMAIN params : ~ params[i].rest /\ ~ IsSome(params[i].default)})

(* Runs the body of f in a scope over f's own that holds the given variables.*)
RunBody(st, f, args, params, given, tdz) ==
  LET fn    == st.heap[f[2]]
      inner == PushScopeOn(st, fn.scope)
      bound == BindParams([inner EXCEPT !.env[inner.cur].vars = given], params, args, 1)
      start == IF tdz THEN MarkTdz(bound.st, LexicalDeclarations(fn.body)) ELSE bound.st
      Finish(r) == LET s == [r.st EXCEPT !.cur = st.cur]
                   IN  CASE r.c = "return" -> Val(s, r.v)
                         [] r.c = "normal" -> Val(s, VUndef)
                         [] r.c \in {"throw", "thrown"} -> Result(s, "thrown", r.v)
                         [] OTHER -> Err(s)
  IN  IF bound.c \in Failures THEN bound ELSE Finish(ExecBlockStmts(start, fn.body))

(* call_method_with_this_super: without a class of its own, super is what it *)
(* is for the caller.                                                        *)
CallMethod(st, f, args, this, super) ==
  LET inherited == IF Holder(st, "super") = 0 THEN <<>> ELSE "super" :> GetVar(st, "super")
      given == (IF IsSome(this) THEN "this" :> Get(this) ELSE <<>>)
                 @@ IF IsClass(super) THEN "super" :> super ELSE inherited
  IN  RunBody(st, f, args, st.heap[f[2]].params, given, TRUE)

(* Methods of arrays with a callback walk a copy of the items.               *)
CallbackArgs(self, m, x, acc) ==
  (IF m \in Folds THEN <<acc>> ELSE <<>>) \o <<x[2], VNum(x[1]), self>>
(* What the callback's answer v for item x makes of what was found so far,   *)
(* and whether that is all.                                                  *)
Heard(heap, m, x, acc, v) ==
  LET yes == PrimTruthy(v)
      On(found) == <<found, FALSE>>
  IN  CASE m = "map" -> On(Append(acc, v))
        [] m = "filter" -> On(IF yes THEN Append(acc, x[2]) ELSE acc)
        [] m = "flatMap" -> On(acc \o Flatten(heap, <<v>>, 1))
        [] m \in Folds -> On(v)
        [] m \in {"find", "findLast"} /\ yes -> <<x[2], TRUE>>
        [] m \in {"findIndex", "findLastIndex"} /\ yes -> <<VNum(x[1]), TRUE>>
        [] m = "some" /\ yes -> <<VBool(TRUE), TRUE>>
        [] m = "every" /\ ~ yes -> <<VBool(FALSE), TRUE>>
        [] OTHER -> On(acc)
Nothing(m) ==
  CASE m \in {"map", "filter", "flatMap"} -> <<>>
    [] m \in {"findIndex", "findLastIndex"} -> VNum(0 - 1)
    [] m = "some" -> VBool(FALSE) [] m = "every" -> VBool(TRUE) [] OTHER -> VUndef

Walk(st, self, m, f, walk, acc) ==
  LET One(r, x) ==
        LET answer == CallFunction(r.st, f, CallbackArgs(self, m, x, r.v[1]))
        IN  IF r.c # "val" \/ r.v[2] THEN r
            ELSE Then(answer, LAMBDA s, v : Val(s, Heard(s.heap, m, x, r.v[1], v)))
      end == FoldLeft(One, Val(st, <<acc, FALSE>>), walk)
  IN  Then(end, LAMBDA s, found : IF m \in {"map", "filter", "flatMap"} THEN Alloc(s, NewArr(found[1]), "arr") ELSE Val(s, found[1]))

CallWithCallback(st, self, m, args) ==
  LET vs   == Items(st, self)
      all  == [i \in DOMAIN vs |-> <<i - 1, vs[i]>>]
      walk == IF m \in FromTheEnd THEN Reverse(all) ELSE all
  IN  CASE m \in Folds /\ Len(args) > 1 -> Walk(st, self, m, args[1], walk, args[2])
        [] m \in Folds /\ Len(args) = 1 -> IF vs = <<>> THEN Err(st) ELSE Walk(st, self, m, args[1], Tail(walk), Head(walk)[2])
        [] OTHER -> Walk(st, self, m, args[1], walk, Nothing(m))

(* sort_snapshot sorts a copy, by insertion (the standard library's sort of  *)
(* short slices); sort writes it over what the callbacks left.               *)
RECURSIVE PlaceOf(_, _, _, _, _)
PlaceOf(st, f, x, sorted, at) ==
  IF at = 0 THEN Val(st, 1)
  ELSE Then(CallFunction(st, f, <<x, sorted[at]>>), LAMBDA s, v :
            IF IsNum(v) /\ v # VNaN /\ v[2] < 0 THEN PlaceOf(s, f, x, sorted, at - 1) ELSE Val(s, at + 1))
SortWith(st, self, m, f) ==
  LET One(r, x) == Then(r, LAMBDA s, sorted : Then(PlaceOf(s, f, x, sorted, Len(sorted)), LAMBDA t, k : Val(t, InsertAt(sorted, k, x))))
  IN  Then(FoldLeft(One, Val(st, <<>>), Items(st, self)), LAMBDA s, sorted :
           IF m = "sort" THEN Val([s EXCEPT !.heap[self[2]].items = sorted], self) ELSE Alloc(s, NewArr(sorted), "arr"))

CallArray(st, self, m, args) ==
  LET outcome == CallPlain(st.heap, Items(st, self), m, args)
      kept == [st EXCEPT !.heap[self[2]].items = outcome.items]
  IN  CASE ~ MethodExists(m) \/ ~ RequireArgs(m, args) \/ ~ AsNumbers(m, args) -> Err(st)
        [] MethodExists(m) /\ RequireArgs(m, args) /\ m \in Callbacks -> CallWithCallback(st, self, m, args)
        [] m \in Sorting /\ args # <<>> -> SortWith(st, self, m, args[1])
        [] OTHER -> CASE outcome.kind = "error" -> Err(st)
                      [] outcome.kind = "list" -> Alloc(kept, NewArr(outcome.v), "arr")
                      [] outcome.kind = "self" -> Val(kept, self)
                      [] OTHER -> Val(kept, outcome.v)

CallFunction(st, f, args) ==
  CASE IsFn(f) -> LET params == st.heap[f[2]].params
                  IN  IF Len(args) < Required(params) THEN Err(st) ELSE RunBody(st, f, args, params, <<>>, TRUE)
    [] f = <<"builtin", "print">> ->
         Val([st EXCEPT !.out = Append(@, [i \in DOMAIN args |-> EcmaString(args[i])])], VUndef)
    [] f[1] = "bound" -> CallArray(st, f[2], f[3], args)
    [] OTHER -> Err(st)

BindParams(st, params, args, i) ==
  IF i > Len(params) THEN Normal(st)
  ELSE LET p == params[i]
           given == IF i <= Len(args) THEN Val(st, args[i])
                    ELSE IF IsSome(p.default) THEN Eval(st, Get(p.default)) ELSE Val(st, VUndef)
           bound == IF IsSome(p.pattern) THEN Destructure(given.st, Get(p.pattern), given.v, FALSE)
                    ELSE Normal(Define(given.st, p.name, given.v, FALSE))
       IN  IF p.rest
           THEN LET r == Alloc(st, NewArr(SubSeq(args, i, Len(args))), "arr") IN Normal(Define(r.st, p.name, r.v, FALSE))
           ELSE IF given.c \in Failures THEN given
           ELSE IF bound.c \in Failures THEN bound ELSE BindParams(bound.st, params, args, i + 1)

(* eval_member: a getter is run with the object as `this`; one of a class    *)
(* has the parent of its class as super, a static one no `this`.             *)
ParentOf(st, found) == st.heap[found[1].owner[2]].parent
MemberValue(st, o, name) ==
  LET own   == Lookup(st.heap[o[2]], <<"get", name>>)
      class == ClassOf(st.heap, o)
      Of(role) == FindMember(st.heap, class, role, FALSE, name)
      Static(role) == FindMember(st.heap, o, role, TRUE, name)
  IN  CASE IsObj(o) ->
             (CASE IsFn(own) -> CallMethod(st, own, <<>>, Some(o), VUndef)
                [] HasKey(st.heap[o[2]], <<"name", name>>) -> Val(st, Lookup(st.heap[o[2]], <<"name", name>>))
                [] name = "constructor" /\ IsClass(class) -> Val(st, class)
                [] Of("get") # <<>> -> CallMethod(st, Of("get")[1].f, <<>>, Some(o), ParentOf(st, Of("get")))
                [] Of("method") # <<>> -> Val(st, Of("method")[1].f)
                [] OTHER -> Val(st, VUndef))
        [] IsClass(o) ->
             (CASE Static("get") # <<>> -> CallMethod(st, Static("get")[1].f, <<>>, None, VUndef)
                [] HasKey(StaticField(st.heap, o, name), <<"name", name>>) ->
                     Val(st, Lookup(StaticField(st.heap, o, name), <<"name", name>>))
                [] Static("method") # <<>> -> Val(st, Static("method")[1].f)
                [] OTHER -> Val(st, VUndef))
        [] IsArr(o) -> Val(st, CASE name = "length" -> VNum(Len(Items(st, o)))
                                 [] MethodExists(name) -> <<"bound", o, name>>
                                 [] OTHER -> VUndef)
        [] IsStr(o) -> Val(st, IF name = "length" THEN VNum(Len(o[2])) ELSE VUndef)
        [] o[1] = "builtin" -> Val(st, <<"builtin", o[2] \o "." \o name>>)
        [] OTHER -> Err(st)

(* Elements and arguments: a spread array gives its elements, a string its   *)
(* characters.                                                               *)
EvalSpread(st, es) ==
  IF es = <<>> THEN Val(st, <<>>)
  ELSE LET spread == es[1].k = "spreadarg"
           first == Eval(st, IF spread THEN es[1].e ELSE es[1])
           Rest(s, vs) == Then(EvalSpread(s, Tail(es)), LAMBDA t, ws : Val(t, vs \o ws))
       IN  Then(first, LAMBDA s, v : IF ~ spread THEN Rest(s, <<v>>) ELSE IF Iterates(v) THEN Rest(s, IterableValues(s.heap, v)) ELSE Err(s))

EvalKey(st, key) == IF key.k = "name" THEN Val(st, VStr(key.name)) ELSE Eval(st, key.e)

EvalEntry(st, x, o) ==
  LET Accessor(role, params) ==
        Then(EvalKey(st, x.key), LAMBDA s, k :
             Then(Alloc(s, Function(s, params, x.body, s.cur), "fn"), LAMBDA t, f :
                  Val(t, Insert(o, <<role, EcmaString(k)>>, f))))
  IN  CASE x.k = "property" ->
             Then(EvalKey(st, x.key), LAMBDA s, k : Then(Eval(s, x.value), LAMBDA t, v : Val(t, Insert(o, PropKey(k), v))))
        [] x.k = "spread" ->
             Then(Eval(st, x.e), LAMBDA s, v : IF IsObj(v) THEN Val(s, InsertAll(o, OwnProps(s.heap[v[2]]))) ELSE Err(s))
        [] x.k = "getter" -> Accessor("get", <<>>)
        [] x.k = "setter" -> Accessor("set", <<x.param>>)
EvalEntries(st, xs, o) ==
  IF xs = <<>> THEN Alloc(st, o, "obj")
  ELSE Then(EvalEntry(st, xs[1], o), LAMBDA s, p : EvalEntries(s, Tail(xs), p))

EvalParts(st, parts, text) ==
  IF parts = <<>> THEN Val(st, VStr(text))
  ELSE IF parts[1].k = "str" THEN EvalParts(st, Tail(parts), text \o parts[1].s)
  ELSE Then(Eval(st, parts[1]), LAMBDA s, v : EvalParts(s, Tail(parts), text \o EcmaString(v)))

(* Calls: the property is read before the arguments are evaluated; a         *)
(* function of an object gets the object as `this`, and as super the parent  *)
(* of the class whose method has that name.                                  *)
SuperFor(st, found) == IF found = <<>> THEN VUndef ELSE ParentOf(st, found)
CallMember(st, o, name, f, args) ==
  LET Of == FindMember(st.heap, ClassOf(st.heap, o), "method", FALSE, name)
      Static == FindMember(st.heap, o, "method", TRUE, name)
  IN  CASE IsObj(o) /\ IsFn(f) -> CallMethod(st, f, args, Some(o), SuperFor(st, Of))
        [] IsClass(o) /\ Static # <<>> /\ IsFn(f) -> CallMethod(st, f, args, Some(o), SuperFor(st, Static))
        [] OTHER -> CallFunction(st, f, args)

ThisOf(st) == IF Holder(st, "this") = 0 THEN None ELSE Some(GetVar(st, "this"))

(* super(...) and super.name(...).                                           *)
EvalSuper(st, role, name, args) ==
  LET class == GetVar(st, "super")
      found == FindMember(st.heap, class, role, FALSE, name)
      owned == found # <<>> /\ (role = "constructor" => found[1].owner = class)
  IN  IF Holder(st, "super") = 0 \/ ~ owned THEN Err(st)
      ELSE Then(EvalSpread(st, args), LAMBDA s, vs : CallMethod(s, found[1].f, vs, ThisOf(s), ParentOf(s, found)))

EvalCall(st, e) ==
  CASE e.callee = Super -> EvalSuper(st, "constructor", "", e.args)
    [] e.callee.k = "member" /\ e.callee.o = Super -> EvalSuper(st, "method", e.callee.name, e.args)
    [] e.callee.k = "member" /\ e.callee.o # Super ->
         Then(Eval(st, e.callee.o), LAMBDA s1, o :
           IF IsStr(o) \/ IsNum(o) THEN Err(s1)                            \* their methods are not modelled
           ELSE IF IsArr(o) THEN Then(EvalSpread(s1, e.args), LAMBDA s2, args : CallArray(s2, o, e.callee.name, args))
           ELSE Then(MemberValue(s1, o, e.callee.name), LAMBDA s2, f :
                Then(EvalSpread(s2, e.args), LAMBDA s3, args : CallMember(s3, o, e.callee.name, f, args))))
    [] OTHER ->
         Then(Eval(st, e.callee), LAMBDA s1, f : Then(EvalSpread(s1, e.args), LAMBDA s2, args : CallFunction(s2, f, args)))

-----------------------------------------------------------------------------
(* Classes.                                                                  *)

(* init_fields: those of the ancestors first.  An initializer is run over    *)
(* the scope in which the instance is made.                                  *)
InitField(r, x, obj) ==
  LET scope == PushScope(r.st)
      made  == ExecStmts(Define(scope, "this", obj, FALSE), r.st.heap[x.f[2]].body)
      value == IF IsFn(x.f) THEN made ELSE Result(r.st, "return", VUndef)
  IN  IF r.c \in Failures THEN r
      ELSE IF value.c \in Failures THEN [value EXCEPT !.st.cur = r.st.cur]
      ELSE Normal([value.st EXCEPT !.cur = r.st.cur, !.heap[obj[2]] = Insert(@, <<"name", x.name>>, value.v)])
InitFields(st, c, obj) ==
  LET fields == FlattenSeq([i \in DOMAIN Ancestry(st.heap, c) |->
                              Members(st.heap, Reverse(Ancestry(st.heap, c))[i], "field", FALSE)])
  IN  FoldLeft(LAMBDA r, x : InitField(r, x, obj), Normal(st), fields)

(* construct_instance: a class without a constructor runs its parent's only  *)
(* if that must have arguments.                                              *)
Construct(st, c, args) ==
  LET parent == st.heap[c[2]].parent
      Own(d) == IF IsClass(d) THEN Members(st.heap, d, "constructor", FALSE) ELSE <<>>
      made   == Alloc(st, NewObj(<<[key |-> CLASS_TAG, v |-> c]>>), "obj")
      fields == InitFields(made.st, c, made.v)
      Run(d) ==
        LET f == Own(d)[1].f
            given == ("this" :> made.v) @@ IF IsClass(st.heap[d[2]].parent) THEN "super" :> st.heap[d[2]].parent ELSE <<>>
            params == [i \in DOMAIN st.heap[f[2]].params |-> [st.heap[f[2]].params[i] EXCEPT !.pattern = None]]
        IN  IF Len(args) < Required(params) THEN Err(fields.st)
            ELSE Then(RunBody(fields.st, f, args, params, given, FALSE), LAMBDA s, ignored : Val(s, made.v))
  IN  CASE ~ IsClass(c) -> Err(st)
        [] IsClass(c) /\ fields.c \in Failures -> fields
        [] IsClass(c) /\ fields.c \notin Failures /\ Own(c) # <<>> -> Run(c)
        [] IsClass(c) /\ fields.c \notin Failures /\ Own(c) = <<>> /\ Own(parent) # <<>>
             /\ Required(st.heap[Own(parent)[1].f[2]].params) > 0 -> Run(parent)
        [] OTHER -> Val(fields.st, made.v)

(* collect_method_members and collect_field_members.                         *)
MemberFunction(st, m) ==
  Alloc(st, Function(st, m.params, IF m.role = "field" THEN <<Return(m.init)>> ELSE m.body, st.cur), "fn")
Collected(st, members) ==
  FoldLeft(LAMBDA r, m :
             LET f == IF m.role = "field" /\ ~ IsSome(m.init) THEN Val(r.st, VUndef) ELSE MemberFunction(r.st, m)
             IN  [st |-> f.st, members |-> Append(r.members, [role |-> m.role, name |-> m.name, static |-> m.static, f |-> f.v])],
           [st |-> st, members |-> <<>>], members)

(* run_static_init_actions: one scope with this and super for all.           *)
StaticAction(r, c, x) ==
  LET body == r.st.heap[x.f[2]].body
      init == IF IsFn(x.f) THEN Eval(r.st, Get(body[1].value)) ELSE Val(r.st, VUndef)
      block == ExecBlockStmts(PushScope(r.st), body)
      done == [block EXCEPT !.st = PopScope(@)]
  IN  CASE r.c \in Failures -> r
        [] r.c \notin Failures /\ x.role = "field" ->
             Then(init, LAMBDA s, v : Normal([s EXCEPT !.heap[c[2]].statics = Insert(@, <<"name", x.name>>, v)]))
        [] OTHER -> IF done.c = "throw" THEN [done EXCEPT !.c = "thrown"]
                    ELSE IF done.c \in Failures THEN done ELSE Normal(done.st)

ExecClass(st, s) ==
  LET parent == IF IsSome(s.parent) THEN Eval(st, Get(s.parent)) ELSE Val(st, VUndef)
      parts == Collected(parent.st, s.members)
      class == Alloc(parts.st, NewClass(s.name, parent.v, parts.members), "class")
      inner == Define(PushScope(class.st), "this", class.v, FALSE)
      scope == IF IsClass(parent.v) THEN Define(inner, "super", parent.v, FALSE) ELSE inner
      inits == SelectSeq(parts.members, LAMBDA x : x.static /\ x.role \in {"field", "block"})
      done  == FoldLeft(LAMBDA r, x : StaticAction(r, class.v, x), Normal(scope), inits)
      back  == [done.st EXCEPT !.cur = parts.st.cur]
  IN  CASE parent.c \in Failures -> parent
        [] parent.c \notin Failures /\ IsSome(s.parent) /\ ~ IsClass(parent.v) -> Err(parent.st)
        [] OTHER -> IF done.c \in Failures THEN [done EXCEPT !.st = back]
                    ELSE Normal(Define(back, s.name, class.v, FALSE))

-----------------------------------------------------------------------------
EvalDelete(st, e) ==
  LET Deleted(s, o, key) == Val([s EXCEPT !.heap[o[2]] = RemoveKey(@, key)], VBool(TRUE))
  IN  CASE e.k = "member" ->
             Then(Eval(st, e.o), LAMBDA s, o : IF IsObj(o) THEN Deleted(s, o, <<"name", e.name>>) ELSE Val(s, VBool(TRUE)))
        [] e.k = "index" ->
             Then(Eval(st, e.i), LAMBDA s, i : Then(Eval(s, e.o), LAMBDA t, o :
               CASE IsObj(o) -> Deleted(t, o, PropKey(i))
                 [] IsArr(o) /\ IsNum(i) /\ ArrayIndex(i, Len(Items(t, o))) # 0 ->
                      Val([t EXCEPT !.heap[o[2]].items[i[2] + 1] = VUndef], VBool(TRUE))
                 [] IsStr(o) -> Err(t)
                 [] OTHER -> Val(t, VBool(TRUE))))
        [] OTHER -> Val(st, VBool(TRUE))

EvalUnary(st, e) ==
  CASE e.op = "typeof" /\ e.e.k = "id" ->
         LET r == LookupRead(st, e.e.name)
         IN  IF Nearest(st, LAMBDA x : e.e.name \in DOMAIN st.env[x].vars \cup st.env[x].tdz) = 0
                /\ e.e.name \notin Builtins
             THEN Val(st, VStr(TypeOf(VUndef))) ELSE Then(r, LAMBDA s, v : Val(s, VStr(TypeName(v))))
    [] e.op = "delete" -> EvalDelete(st, e.e)
    [] e.op = "void" -> Then(Eval(st, e.e), LAMBDA s, v : Val(s, VUndef))
    [] OTHER -> Then(Eval(st, e.e), LAMBDA s, v : UnaryValue(s, e.op, v))

-----------------------------------------------------------------------------
(* Assignments.                                                              *)

(* collect_access_path: the segments from the root variable on; the indices  *)
(* are evaluated from the outermost in.                                      *)
AccessPath(st, e) ==
  CASE e.k = "id" -> Val(st, [root |-> e.name, path |-> <<>>])
    [] e.k = "this" -> Val(st, [root |-> "this", path |-> <<>>])
    [] e.k = "index" -> Then(Eval(st, e.i), LAMBDA s, i :
         Then(AccessPath(s, e.o), LAMBDA t, p : Val(t, [p EXCEPT !.path = Append(@, <<"index", i>>)])))
    [] e.k = "member" -> Then(AccessPath(st, e.o), LAMBDA t, p : Val(t, [p EXCEPT !.path = Append(@, <<"member", e.name>>)]))
    [] OTHER -> Err(st)

AssignViaPath(st, target, v) ==
  Then(AccessPath(st, target), LAMBDA s, p :
       IF IsConst(s, p.root) \/ Holder(s, p.root) = 0 THEN Err(s) ELSE SetAtPath(s, GetVar(s, p.root), p.path, v))

(* A setter of the object or of its class, or a static one, takes the value; the object expression is   *)
(* evaluated for that and once more for the path.                            *)
AssignMember(st, target, v) ==
  Then(Eval(st, target.o), LAMBDA s, o :
       LET own    == IF IsObj(o) THEN Lookup(s.heap[o[2]], <<"set", target.name>>) ELSE VUndef
           Of     == FindMember(s.heap, ClassOf(s.heap, o), "set", FALSE, target.name)
           Static == FindMember(s.heap, o, "set", TRUE, target.name)
           Run(f) == LET p == s.heap[f[2]].params[1]
                     IN  RunBody(s, f, <<v>>, <<P(p.name)>>, "this" :> o, FALSE)
           Done(r) == Then(r, LAMBDA t, ignored : Val(t, v))
       IN  CASE IsFn(own) -> Done(Run(own))
             [] ~ IsFn(own) /\ Of # <<>> -> Done(Run(Of[1].f))
             [] IsClass(o) /\ Static # <<>> -> Done(CallMethod(s, Static[1].f, <<v>>, None, VUndef))
             [] OTHER -> AssignViaPath(s, target, v))

AssignTo(st, target, v) ==
  CASE target.k = "id" -> SetVariable(st, target.name, v)
    [] target.k = "member" -> AssignMember(st, target, v)
    [] target.k = "index" -> Then(Eval(st, target.o), LAMBDA s, o : AssignViaPath(s, target, v))
    [] target.k = "grouping" -> AssignTo(st, target.e, v)
    [] OTHER -> Err(st)

(* Compound and logical assignments; the place of an index is evaluated once.*)
RECURSIVE RootName(_)
RootName(e) ==
  CASE e.k = "id" -> Some(e.name) [] e.k = "this" -> Some("this")
    [] e.k \in {"member", "index"} -> RootName(e.o) [] e.k = "grouping" -> RootName(e.e) [] OTHER -> None

Update(st, l, Write(_, _), Fresh(_, _)) ==
  LET Store(s, o, i, v) == IF IsSome(RootName(l.o)) /\ IsConst(s, Get(RootName(l.o))) THEN Err(s)
                           ELSE SetAtPath(s, o, <<<<"index", i>>>>, v)
  IN  IF l.k = "index"
      THEN Then(Eval(st, l.o), LAMBDA s1, o : Then(Eval(s1, l.i), LAMBDA s2, i : Then(IndexValue(s2, o, i), LAMBDA s3, old :
             IF ~ Write(s3, old) THEN Val(s3, old) ELSE Then(Fresh(s3, old), LAMBDA s4, v : Store(s4, o, i, v)))))
      ELSE Then(Eval(st, l), LAMBDA s, old :
             IF ~ Write(s, old) THEN Val(s, old) ELSE Then(Fresh(s, old), LAMBDA t, v : AssignTo(t, l, v)))

CompoundOp == [op \in {"+=", "-=", "*="} |-> CASE op = "+=" -> "+" [] op = "-=" -> "-" [] op = "*=" -> "*"]

(* eval_logical_assignment and eval_compound_assignment.                     *)
EvalUpdate(st, e) ==
  CASE e.op = "&&=" -> Update(st, e.l, LAMBDA s, v : PrimTruthy(v), LAMBDA s, v : Eval(s, e.r))
    [] e.op = "||=" -> Update(st, e.l, LAMBDA s, v : ~ PrimTruthy(v), LAMBDA s, v : Eval(s, e.r))
    [] e.op = "??=" -> Update(st, e.l, LAMBDA s, v : IsNullish(v), LAMBDA s, v : Eval(s, e.r))
    [] OTHER -> Update(st, e.l, LAMBDA s, v : TRUE,
                       LAMBDA s, old : Then(Eval(s, e.r), LAMBDA t, v : BinaryValue(t, CompoundOp[e.op], old, v)))

EvalBinary(st, e) ==
  CASE e.op = "&&" -> Then(Eval(st, e.l), LAMBDA s, v : IF PrimTruthy(v) THEN Eval(s, e.r) ELSE Val(s, v))
    [] e.op = "||" -> Then(Eval(st, e.l), LAMBDA s, v : IF PrimTruthy(v) THEN Val(s, v) ELSE Eval(s, e.r))
    [] e.op = "??" -> Then(Eval(st, e.l), LAMBDA s, v : IF IsNullish(v) THEN Eval(s, e.r) ELSE Val(s, v))
    [] e.op \in {"&&=", "||=", "??="} \cup DOMAIN CompoundOp -> EvalUpdate(st, e)
    [] e.op = "|>" -> Then(Eval(st, e.l), LAMBDA s, v : Then(Eval(s, e.r), LAMBDA t, f : CallFunction(t, f, <<v>>)))
    [] e.op = "=" -> Then(Eval(st, e.r), LAMBDA s, v : AssignTo(s, e.l, v))
    [] OTHER -> Then(Eval(st, e.l), LAMBDA s, a : Then(Eval(s, e.r), LAMBDA t, b : BinaryValue(t, e.op, a, b)))

EvalPostfix(st, e) ==
  IF e.e.k # "id" THEN Err(st)
  ELSE IF Holder(st, e.e.name) = 0 \/ ~ IsNum(GetVar(st, e.e.name)) THEN Err(st)
  ELSE LET old == GetVar(st, e.e.name)
       IN  Then(SetVariable(st, e.e.name, NumArith(IF e.op = "++" THEN "+" ELSE "-", old, VNum(1))),
                LAMBDA s, v : Val(s, old))

(* A named function expression sees its own name.                            *)
EvalFunction(st, e) ==
  IF e.k = "arrow" \/ e.name = "" THEN Alloc(st, Function(st, e.params, e.body, st.cur), "fn")
  ELSE LET own == PushScope(st)
       IN  Then(Alloc(own, Function(own, e.params, e.body, own.cur), "fn"), LAMBDA s, f :
                Val([Define(s, e.name, f, FALSE) EXCEPT !.cur = st.cur], f))

(* ?. stops at null and undefined.                                           *)
EvalOptional(st, e) ==
  Then(Eval(st, IF e.k = "optcall" THEN e.callee ELSE e.o), LAMBDA s, v :
    CASE IsNullish(v) -> Val(s, VUndef)
      [] ~ IsNullish(v) /\ e.k = "optmember" -> MemberValue(s, v, e.name)
      [] ~ IsNullish(v) /\ e.k = "optindex" -> Then(Eval(s, e.i), LAMBDA t, i : IndexValue(t, v, i))
      [] OTHER -> Then(EvalSpread(s, e.args), LAMBDA t, args : CallFunction(t, v, args)))

EvalLiteral(st, e) ==
  CASE e.k = "num"  -> Val(st, VNum(e.n))
    [] e.k = "str"  -> Val(st, VStr(e.s))
    [] e.k = "bool" -> Val(st, VBool(e.b))
    [] e.k = "null" -> Val(st, VNull)
    [] e.k = "undef" -> Val(st, VUndef)
    [] e.k = "array" -> Then(EvalSpread(st, e.elements), LAMBDA s, vs : Alloc(s, NewArr(vs), "arr"))
    [] e.k = "object" -> EvalEntries(st, e.entries, NewObj(<<>>))

Eval(st, e) ==
  CASE e.k \in {"num", "str", "bool", "null", "undef", "array", "object"} -> EvalLiteral(st, e)
    [] e.k = "id"   -> LookupRead(st, e.name)
    [] e.k = "this" -> IF Holder(st, "this") = 0 THEN Err(st) ELSE Val(st, GetVar(st, "this"))
    [] e.k = "grouping" -> Eval(st, e.e)
    [] e.k = "unary" -> EvalUnary(st, e)
    [] e.k = "binary" -> EvalBinary(st, e)
    [] e.k = "postfix" -> EvalPostfix(st, e)
    [] e.k = "cond" -> Then(Eval(st, e.c), LAMBDA s, v : Eval(s, IF PrimTruthy(v) THEN e.t ELSE e.f))
    [] e.k = "call" -> EvalCall(st, e)
    [] e.k = "index" -> Then(Eval(st, e.o), LAMBDA s, o : Then(Eval(s, e.i), LAMBDA t, i : IndexValue(t, o, i)))
    [] e.k = "member" -> Then(Eval(st, e.o), LAMBDA s, o : MemberValue(s, o, e.name))
    [] e.k = "super" -> IF Holder(st, "super") = 0 THEN Err(st) ELSE Val(st, GetVar(st, "super"))
    [] e.k = "new" -> Then(Eval(st, e.callee), LAMBDA s, c : Then(EvalSpread(s, e.args), LAMBDA t, args : Construct(t, c, args)))
    [] e.k \in {"optmember", "optindex", "optcall"} -> EvalOptional(st, e)
    [] e.k \in {"arrow", "fn"} -> EvalFunction(st, e)
    [] e.k = "template" -> EvalParts(st, e.parts, "")
    [] OTHER -> Err(st)

-----------------------------------------------------------------------------
(* Statements.                                                               *)

(* destructure_pattern: an array has its elements, what is missing is        *)
(* undefined; an object is read without its accessors.                       *)
RECURSIVE DestructureList(_, _, _, _)
DestructureList(st, ps, vs, const) ==
  IF ps = <<>> THEN Normal(st)
  ELSE LET r == IF IsSome(ps[1]) THEN Destructure(st, Get(ps[1]), vs[1], const) ELSE Normal(st)
       IN  IF r.c \in Failures THEN r ELSE DestructureList(r.st, Tail(ps), Tail(vs), const)

Destructure(st, p, v, const) ==
  LET WithRest(r, Left) ==
        IF r.c \in Failures \/ ~ IsSome(p.rest) THEN r
        ELSE LET a == Alloc(r.st, Left, IF p.k = "array" THEN "arr" ELSE "obj") IN Destructure(a.st, Get(p.rest), a.v, const)
      items == Items(st, v)
      n     == Len(p.elements)
      props == st.heap[v[2]]
      keys  == {<<"name", p.props[i].key>> : i \in DOMAIN p.props}
      left  == NewObj(SelectSeq(props.props, LAMBDA q : q.key \notin keys))
  IN  CASE p.k = "id" -> Normal(Define(st, p.name, v, const))
        [] p.k = "default" ->
             LET r == IF v = VUndef THEN Eval(st, p.e) ELSE Val(st, v)
             IN  IF r.c \in Failures THEN r ELSE Destructure(r.st, p.p, r.v, const)
        [] p.k = "array" /\ IsArr(v) ->
             WithRest(DestructureList(st, p.elements, [i \in 1..n |-> IF i \in DOMAIN items THEN items[i] ELSE VUndef], const),
                      NewArr(SubSeq(items, n + 1, Len(items))))
        [] p.k = "object" /\ IsObj(v) ->
             WithRest(DestructureList(st, [i \in DOMAIN p.props |->
                                             Some(IF IsSome(p.props[i].value) THEN Get(p.props[i].value) ELSE PId(p.props[i].key))],
                                      [i \in DOMAIN p.props |-> Lookup(props, <<"name", p.props[i].key>>)], const), left)
        [] OTHER -> Err(st)

(* dispose_current_scope: the scope's resources from the last, and the first *)
(* error of those.  The class of a resource is looked up by its name.        *)
DisposeMethod(st, v) ==
  LET class == ClassOf(st.heap, v)
      name  == st.heap[class[2]].name
      named == IF IsClass(class) /\ Holder(st, name) # 0 THEN GetVar(st, name) ELSE VUndef
      found == FindMember(st.heap, named, "method", FALSE, "dispose")
      own   == IF IsObj(v) THEN Lookup(st.heap[v[2]], <<"name", "dispose">>) ELSE VUndef
  IN  IF IsFn(own) \/ found = <<>> THEN own ELSE found[1].f
DisposeScope(st) ==
  LET One(r, v) ==
        LET d == IF IsNullish(v) THEN Normal(r.st)
                 ELSE IF IsFn(DisposeMethod(r.st, v)) THEN CallMethod(r.st, DisposeMethod(r.st, v), <<>>, Some(v), VUndef)
                 ELSE Err(r.st)
        IN  IF r.c \in Failures \/ d.c \notin Failures THEN [r EXCEPT !.st = d.st] ELSE d
  IN  FoldRight(LAMBDA v, r : One(r, v), ScopeOf(st).disposables, Normal([st EXCEPT !.env[st.cur].disposables = <<>>]))

ExecBlock(st, stmts) ==
  LET r == ExecBlockStmts(MarkTdz(PushScope(st), LexicalDeclarations(stmts)), stmts)
      d == DisposeScope(r.st)
  IN  [IF r.c \notin Failures /\ d.c \in Failures THEN d ELSE r EXCEPT !.st = PopScope(d.st)]

(* ControlFlow::for_loop: what a loop makes of how its body ended.           *)
BreaksLoop(r, label) == r.c = "break" /\ (r.v = None \/ r.v = label)
ContinuesLoop(r, label) == r.c = "normal" \/ (r.c = "continue" /\ (r.v = None \/ r.v = label))

(* The rounds of a while loop (first test TRUE) or a do-while loop.          *)
RECURSIVE WhileRounds(_, _, _, _)
WhileRounds(st, s, label, first) ==
  LET test == IF first THEN Eval(st, s.c) ELSE Val(st, VBool(TRUE))
      r    == ExecStmt(test.st, s.body)
  IN  CASE test.c \in Failures -> test
        [] test.c \notin Failures /\ ~ PrimTruthy(test.v) -> Normal(test.st)
        [] test.c \notin Failures /\ PrimTruthy(test.v) /\ BreaksLoop(r, label) -> Normal(r.st)
        [] test.c \notin Failures /\ PrimTruthy(test.v) /\ ContinuesLoop(r, label) -> WhileRounds(r.st, s, label, TRUE)
        [] OTHER -> r

(* Each round of a for loop has a copy of the loop's scope, made before the  *)
(* update.                                                                   *)
RECURSIVE ForRounds(_, _, _)
ForRounds(st, s, label) ==
  LET test == IF IsSome(s.c) THEN Eval(st, Get(s.c)) ELSE Val(st, VBool(TRUE))
      r    == ExecStmt(test.st, s.body)
      upd  == IF IsSome(s.update) THEN Eval(ForkScope(r.st), Get(s.update)) ELSE Val(ForkScope(r.st), VUndef)
  IN  IF test.c \in Failures THEN test
      ELSE IF ~ PrimTruthy(test.v) THEN Normal(PopScope(test.st))
      ELSE IF BreaksLoop(r, label) THEN Normal(PopScope(r.st))
      ELSE IF ContinuesLoop(r, label) THEN (IF upd.c \in Failures THEN upd ELSE ForRounds(upd.st, s, label))
      ELSE IF r.c \in Failures THEN r ELSE [r EXCEPT !.st = PopScope(@)]

ExecFor(st, s, label) ==
  LET init == IF IsSome(s.init) THEN ExecStmt(PushScope(st), Get(s.init)) ELSE Normal(PushScope(st))
  IN  IF init.c \in Failures THEN init ELSE ForRounds(init.st, s, label)

RECURSIVE EachItem(_, _, _, _)
EachItem(st, s, items, label) ==
  IF items = <<>> THEN Normal(PopScope(st))
  ELSE LET bound == Destructure(ForkScope(st), s.pattern, items[1], FALSE)
           r     == ExecStmt(bound.st, s.body)
       IN  IF bound.c \in Failures THEN [bound EXCEPT !.st = PopScope(@)]
           ELSE IF BreaksLoop(r, label) THEN Normal(PopScope(r.st))
           ELSE IF ContinuesLoop(r, label) THEN EachItem(r.st, s, Tail(items), label)
           ELSE IF r.c \in Failures THEN r ELSE [r EXCEPT !.st = PopScope(@)]

ExecForIn(st, s, label) ==
  LET c == Eval(st, s.e)
      names == OwnProps(c.st.heap[c.v[2]])
  IN  CASE c.c \in Failures -> c
        [] c.c \notin Failures /\ IsArr(c.v) -> EachItem(PushScope(c.st), s, Items(c.st, c.v), label)
        [] c.c \notin Failures /\ IsObj(c.v) ->
             EachItem(PushScope(c.st), s, [i \in DOMAIN names |-> VStr(names[i].key[2])], label)
        [] OTHER -> Err(c.st)

ExecForOf(st, s, label) ==
  LET c == Eval(st, s.e)
  IN  IF c.c \in Failures THEN c
      ELSE IF Iterates(c.v) THEN EachItem(PushScope(c.st), s, IterableValues(c.st.heap, c.v), label) ELSE Err(c.st)

ExecLabeled(st, s) ==
  LET r == ExecStmt([st EXCEPT !.label = Some(s.label)], s.body)
      q == [r EXCEPT !.st.label = None]
  IN  IF q.c \in {"break", "continue"} /\ q.v = Some(s.label) THEN Normal(q.st) ELSE q

RECURSIVE ExecSwitch(_, _, _, _)
ExecSwitch(st, s, v, i) ==
  IF i > Len(s.cases) THEN (IF IsSome(s.default) THEN ExecBlock(st, Get(s.default)) ELSE Normal(st))
  ELSE LET c == Eval(st, s.cases[i].e)
       IN  IF c.c \in Failures THEN c
           ELSE IF StrictlyEqual(v, c.v) THEN ExecBlock(c.st, s.cases[i].body) ELSE ExecSwitch(c.st, s, v, i + 1)

ErrorObject == NewObj(<<[key |-> <<"name", "name">>, v |-> VStr("Error")],
                        [key |-> <<"name", "message">>, v |-> VStr("message")]>>)

(* run_catch: the scope of the parameter is the scope of the catch body.     *)
RunCatch(st, s, v) ==
  LET body  == Get(s.handler)
      scope == IF IsSome(s.param) THEN Define(PushScope(st), Get(s.param), v, FALSE) ELSE PushScope(st)
      r     == ExecBlockStmts(MarkTdz(scope, LexicalDeclarations(body)), body)
  IN  [r EXCEPT !.st = PopScope(@)]

(* The finally block decides by returning, throwing or failing only.         *)
ExecTry(st, s) ==
  LET t == ExecBlock(st, s.body)
      obj == Alloc(t.st, ErrorObject, "obj")
      r == CASE ~ IsSome(s.handler) -> t
             [] IsSome(s.handler) /\ t.c \in {"throw", "thrown"} -> RunCatch(t.st, s, t.v)
             [] IsSome(s.handler) /\ t.c = "err" -> RunCatch(obj.st, s, obj.v)
             [] OTHER -> t
      f == ExecBlock(r.st, Get(s.finally))
  IN  IF ~ IsSome(s.finally) THEN r
      ELSE IF f.c \in Failures \/ f.c \in {"return", "throw"} THEN f ELSE [r EXCEPT !.st = f.st]

ExecUsing(st, s) ==
  LET r == Eval(st, s.init)
      noted == IF IsNullish(r.v) THEN r.st ELSE [r.st EXCEPT !.env[r.st.cur].disposables = Append(@, r.v)]
  IN  IF r.c \in Failures THEN r
      ELSE IF ~ IsNullish(r.v) /\ ~ IsFn(DisposeMethod(r.st, r.v)) THEN Err(r.st)
      ELSE Normal(Define(noted, s.name, r.v, TRUE))

ExecStmt(before, s) ==
  LET label == before.label
      st == [before EXCEPT !.label = None]
      Valued(kind, r) == IF r.c \in Failures THEN r ELSE Result(r.st, kind, r.v)
      Branch(r) == IF r.c \in Failures THEN r
                   ELSE IF PrimTruthy(r.v) THEN ExecStmt(r.st, s.t)
                   ELSE IF IsSome(s.f) THEN ExecStmt(r.st, Get(s.f)) ELSE Normal(r.st)
      Declare(r) == IF r.c \in Failures THEN r ELSE Destructure(r.st, s.pattern, r.v, s.const)
      Select(r) == IF r.c \in Failures THEN r ELSE ExecSwitch(r.st, s, r.v, 1)
  IN  CASE s.k = "var"   -> Declare(Eval(st, s.init))
        [] s.k = "expr"  -> Discard(Eval(st, s.e))
        [] s.k = "block" -> ExecBlock(st, s.stmts)
        [] s.k = "empty" -> Normal(st)
        [] s.k = "if"    -> Branch(Eval(st, s.c))
        [] s.k = "while" -> WhileRounds(st, s, label, TRUE)
        [] s.k = "dowhile" -> WhileRounds(st, s, label, FALSE)
        [] s.k = "for"   -> ExecFor(st, s, label)
        [] s.k = "forin" -> ExecForIn(st, s, label)
        [] s.k = "forof" -> ExecForOf(st, s, label)
        [] s.k = "break" -> Result(st, "break", s.label)
        [] s.k = "continue" -> Result(st, "continue", s.label)
        [] s.k = "labeled" -> ExecLabeled(st, s)
        [] s.k = "fndecl" -> Normal(HoistFunctions(st, <<s>>))
        [] s.k = "return" -> IF IsSome(s.value) THEN Valued("return", Eval(st, Get(s.value))) ELSE Result(st, "return", VUndef)
        [] s.k = "throw" -> Valued("throw", Eval(st, s.e))
        [] s.k = "try"   -> ExecTry(st, s)
        [] s.k = "switch" -> Select(Eval(st, s.e))
        [] s.k = "using" -> ExecUsing(st, s)
        [] s.k = "class" -> ExecClass(st, s)

ExecStmts(st, stmts) ==
  IF stmts = <<>> THEN Normal(st)
  ELSE LET r == ExecStmt(st, stmts[1]) IN IF r.c = "normal" THEN ExecStmts(r.st, Tail(stmts)) ELSE r

(* run_internal, up to the event loop: what a script prints and how it ends. *)
RunProgram(program) ==
  LET start == [env |-> <<Scope(0)>>, cur |-> 1, heap |-> <<>>, out |-> <<>>, label |-> None]
      r == ExecBlockStmts(start, program)
  IN  [out |-> r.st.out,
       status |-> CASE r.c \in {"normal", "return"} -> <<"done">>
                    [] r.c \in {"throw", "thrown"} -> <<"threw", EcmaString(r.v)>>
                    [] OTHER -> <<"failed">>]
=============================================================================
