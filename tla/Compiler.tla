------------------------------ MODULE Compiler ------------------------------
(* The bytecode compiler of yps-vm (compiler.rs): a fold over the tree that  *)
(* threads the compiler's state C, a record of                               *)
(*   fs      the stack of functions being compiled (FnState)                 *)
(*   protos  the finished functions, in the order their Closure is emitted   *)
(*   err     the first compile errors, none for a program that compiles      *)
(* Constants are operands of their instructions.  Slots count from 0, as in  *)
(* the code; instructions from 1.  Generators, async functions and imports   *)
(* are left to GenMachine and ModuleBackends.                                *)
EXTENDS Syntax, Integers, SequencesExt, JsValues

THIS_LOCAL == "\\0this"
TEMP == "\\0destr"
PARAM == "\\0param"
NoSlot == -1

-----------------------------------------------------------------------------
(* The state.                                                                *)

LocalOf(name, depth, const, init) ==
  [name |-> name, depth |-> depth, const |-> const, captured |-> FALSE, init |-> init]

NewFnState(kind, name) ==
  [kind |-> kind, name |-> name, arity |-> 0, rest |-> FALSE, method |-> FALSE,
   locals |-> <<LocalOf("", 0, FALSE, TRUE)>>, ups |-> <<>>, depth |-> 0, code |-> <<>>,
   loops |-> <<>>, trys |-> <<>>, plabel |-> None, using |-> <<0>>]

Cur(C) == Last(C.fs)
WithCur(C, f) == [C EXCEPT !.fs[Len(C.fs)] = f]
Fail(C, why) == [C EXCEPT !.err = Append(@, why)]
Here(C) == Len(Cur(C).code) + 1

Emit(C, op) == [C EXCEPT !.fs[Len(C.fs)].code = Append(@, op)]
EmitAll(C, ops) == [C EXCEPT !.fs[Len(C.fs)].code = @ \o ops]

(* patch_jump: every jump carries its target as its first operand.           *)
Patch(C, at, target) == [C EXCEPT !.fs[Len(C.fs)].code[at][2] = target]
PatchHere(C, at) == Patch(C, at, Here(C))

-----------------------------------------------------------------------------
(* Scopes and locals.                                                        *)

BeginScope(C) ==
  WithCur(C, [Cur(C) EXCEPT !.depth = @ + 1, !.using = Append(@, 0)])

(* What drops the locals above the first n, innermost first.                 *)
Discards(locals, n) ==
  [i \in 1..(Len(locals) - n) |->
     IF locals[Len(locals) + 1 - i].captured THEN <<"CloseUpvalue">> ELSE <<"Pop">>]

EndScope(C) ==
  LET f    == Cur(C)
      n    == Cardinality({i \in DOMAIN f.locals : f.locals[i].depth < f.depth})
      used == IF Last(f.using) > 0 THEN Emit(C, <<"DisposeScope", Last(f.using)>>) ELSE C
      done == EmitAll(used, Discards(f.locals, n))
  IN  WithCur(done, [Cur(done) EXCEPT !.locals = SubSeq(@, 1, n), !.depth = @ - 1, !.using = Front(@)])

PushLocal(C, name, const, init) ==
  [C EXCEPT !.fs[Len(C.fs)].locals = Append(@, LocalOf(name, Cur(C).depth, const, init))]
AddLocal(C, name, const) == PushLocal(C, name, const, TRUE)
ReserveLocal(C, name, const) == PushLocal(C, name, const, FALSE)
PushTemp(C) == PushLocal(C, TEMP, FALSE, TRUE)
TempSlot(C) == Len(Cur(C).locals)

IsGlobalScope(C) == Cur(C).kind = "script" /\ Cur(C).depth = 0

(* Slot 0 holds the callee: only `this` may name it.                         *)
ResolveLocal(f, name) ==
  LET found == {i \in DOMAIN f.locals : /\ f.locals[i].name = name
                                        /\ i = 1 => name = THIS_LOCAL}
  IN  IF found = {} THEN NoSlot ELSE Max(found) - 1

MarkInitialized(C, name) ==
  LET found == {i \in DOMAIN Cur(C).locals : Cur(C).locals[i].name = name}
  IN  IF found = {} THEN C ELSE [C EXCEPT !.fs[Len(C.fs)].locals[Max(found)].init = TRUE]

AddUpvalue(fs, i, up) ==
  IF up \in Range(fs[i].ups)
  THEN [fs |-> fs, slot |-> (CHOOSE k \in DOMAIN fs[i].ups : fs[i].ups[k] = up) - 1]
  ELSE [fs |-> [fs EXCEPT ![i].ups = Append(@, up)], slot |-> Len(fs[i].ups)]

(* The functions between the use and the declaration each pass the variable  *)
(* on; the declaring one learns that the local is captured.                  *)
RECURSIVE ResolveUpvalue(_, _, _)
ResolveUpvalue(fs, i, name) ==
  IF i = 1 THEN [fs |-> fs, slot |-> NoSlot]
  ELSE LET slot == ResolveLocal(fs[i - 1], name)
           up   == ResolveUpvalue(fs, i - 1, name)
       IN  IF slot # NoSlot
           THEN AddUpvalue([fs EXCEPT ![i - 1].locals[slot + 1].captured = TRUE], i, <<TRUE, slot>>)
           ELSE IF up.slot # NoSlot THEN AddUpvalue(up.fs, i, <<FALSE, up.slot>>) ELSE up

(* VarLoc, with the compiler's state after the upvalues it took.             *)
Resolve(C, name) ==
  LET slot == ResolveLocal(Cur(C), name)
      up   == ResolveUpvalue(C.fs, Len(C.fs), name)
  IN  IF slot # NoSlot THEN [C |-> C, at |-> "local", slot |-> slot]
      ELSE IF up.slot # NoSlot THEN [C |-> [C EXCEPT !.fs = up.fs], at |-> "upvalue", slot |-> up.slot]
      ELSE [C |-> C, at |-> "global", slot |-> NoSlot]

CompileVarGet(C, name) ==
  LET r == Resolve(C, name)
  IN  CASE r.at = "local"   -> IF Cur(C).locals[r.slot + 1].init THEN Emit(C, <<"GetLocal", r.slot>>)
                               ELSE Fail(C, "undefined variable")
        [] r.at = "upvalue" -> Emit(r.C, <<"GetUpvalue", r.slot>>)
        [] r.at = "global"  -> Emit(C, <<"GetGlobal", name>>)

CompileVarSet(C, name) ==
  LET r == Resolve(C, name)
  IN  CASE r.at = "local"   -> IF Cur(C).locals[r.slot + 1].const THEN Fail(C, "const")
                               ELSE Emit(C, <<"SetLocal", r.slot>>)
        [] r.at = "upvalue" -> Emit(r.C, <<"SetUpvalue", r.slot>>)
        [] r.at = "global"  -> Emit(C, <<"SetGlobal", name>>)

-----------------------------------------------------------------------------
RECURSIVE CompileExpr(_, _), CompileStmt(_, _), Destructure(_, _, _, _)

(* F for each of xs in turn, up to the first error.                          *)
Each(F(_, _), C, xs) ==
  LET RECURSIVE From(_, _)
      From(D, i) == IF i > Len(xs) \/ D.err # <<>> THEN D ELSE From(F(D, xs[i]), i + 1)
  IN  From(C, 1)

CompileExprs(C, es) == Each(CompileExpr, C, es)

(* Constant folding.  A folded value is Some(value), as in JsValues.         *)
FoldUnary(op, v) ==
  CASE op = "-" -> Some(NumNeg(PrimToNumber(v)))
    [] op = "+" -> Some(PrimToNumber(v))
    [] op = "!" -> Some(VBool(~ PrimTruthy(v)))
    [] OTHER -> None

FoldBinary(op, l, r) ==
  CASE IsNum(l) /\ IsNum(r) /\ op \in Arithmetic     -> Some(NumArith(op, l, r))
    [] IsNum(l) /\ IsNum(r) /\ op \in Comparisons    -> Some(VBool(NumCompare(op, l, r)))
    [] IsNum(l) /\ IsNum(r) /\ op \in Equalities     -> Some(VBool(NumEq(l, r) = (op \in {"==", "==="})))
    [] IsStr(l) /\ IsStr(r) /\ op = "+"              -> Some(VStr(l[2] \o r[2]))
    [] IsStr(l) /\ IsStr(r) /\ op \in Equalities     -> Some(VBool((l = r) = (op \in {"==", "==="})))
    [] IsBool(l) /\ IsBool(r) /\ op \in Equalities   -> Some(VBool((l = r) = (op \in {"==", "==="})))
    [] IsBool(l) /\ IsBool(r) /\ op = "&&"           -> Some(VBool(l[2] /\ r[2]))
    [] IsBool(l) /\ IsBool(r) /\ op = "||"           -> Some(VBool(l[2] \/ r[2]))
    [] OTHER -> None

RECURSIVE FoldConst(_)
FoldConst(e) ==
  CASE e.k = "num"  -> Some(VNum(e.n))
    [] e.k = "str"  -> Some(VStr(e.s))
    [] e.k = "bool" -> Some(VBool(e.b))
    [] e.k = "grouping" -> FoldConst(e.e)
    [] e.k = "unary" -> LET v == FoldConst(e.e) IN IF IsSome(v) THEN FoldUnary(e.op, Get(v)) ELSE None
    [] e.k = "binary" -> LET l == FoldConst(e.l)
                             r == FoldConst(e.r)
                         IN IF IsSome(l) /\ IsSome(r) THEN FoldBinary(e.op, Get(l), Get(r)) ELSE None
    [] OTHER -> None

EmitFoldConst(C, v) ==
  IF IsBool(v) THEN Emit(C, <<IF v[2] THEN "True" ELSE "False">>) ELSE Emit(C, <<"Constant", v>>)

-----------------------------------------------------------------------------
(* Functions.                                                                *)

RECURSIVE CompileLocalList(_, _), CompileGlobalList(_, _)
CompileStmtList(C, stmts) ==
  IF IsGlobalScope(C) THEN CompileGlobalList(C, stmts) ELSE CompileLocalList(C, stmts)

CompileDefault(C, i, param) ==
  IF ~ IsSome(param.default) THEN C
  ELSE LET test == EmitAll(C, <<<<"GetLocal", i>>, <<"Undefined">>, <<"StrictEq">>, <<"JumpIfFalse", 0>>>>)
           set  == EmitAll(CompileExpr(test, Get(param.default)), <<<<"SetLocal", i>>, <<"Pop">>>>)
       IN  PatchHere(set, Here(test) - 1)

CompileParamPattern(C, i, param) ==
  IF ~ IsSome(param.pattern) THEN C
  ELSE Destructure(Emit(C, <<"GetLocal", i>>), Get(param.pattern), FALSE, FALSE)

(* kind: [this |-> binds_this, method |-> is_method]                         *)
FUNCTION == [this |-> TRUE, method |-> FALSE]
ARROW    == [this |-> FALSE, method |-> FALSE]
METHOD   == [this |-> TRUE, method |-> TRUE]

CompileCallable(C, name, params, body, kind) ==
  LET f0    == [NewFnState("function", name) EXCEPT
                  !.method = kind.method, !.arity = Len(params),
                  !.rest = \E i \in DOMAIN params : params[i].rest,
                  !.locals[1].name = IF kind.this THEN THIS_LOCAL ELSE ""]
      slots == Each(LAMBDA D, p : AddLocal(D, IF IsSome(p.pattern) THEN PARAM ELSE p.name, FALSE),
                        [C EXCEPT !.fs = Append(@, f0)], params)
      dflts == Each(LAMBDA D, i : CompileDefault(D, i, params[i]), slots, [i \in DOMAIN params |-> i])
      pats  == Each(LAMBDA D, i : CompileParamPattern(D, i, params[i]), dflts, [i \in DOMAIN params |-> i])
      done  == EmitAll(CompileStmtList(pats, body), <<<<"Undefined">>, <<"Return">>>>)
      f     == Cur(done)
      proto == [name |-> f.name, arity |-> f.arity, rest |-> f.rest, method |-> f.method,
                ups |-> f.ups, code |-> f.code]
  IN  Emit([done EXCEPT !.fs = Front(@), !.protos = Append(@, proto)],
           <<"Closure", Len(done.protos) + 1>>)

CompileFunctionDecl(C, s) ==
  IF IsGlobalScope(C)
  THEN Emit(CompileCallable(C, s.name, s.params, s.body, FUNCTION), <<"DefineGlobal", s.name, FALSE>>)
  ELSE CompileCallable(AddLocal(C, s.name, FALSE), s.name, s.params, s.body, FUNCTION)

(* The functions of a global list first, then the rest in order.             *)
CompileGlobalList(C, stmts) ==
  LET IsDecl(s) == s.k = "fndecl"
  IN  Each(CompileStmt, Each(CompileFunctionDecl, C, SelectSeq(stmts, IsDecl)),
               SelectSeq(stmts, LAMBDA s : ~ IsDecl(s)))

(* A local list reserves its simple variables and its functions, fills the   *)
(* functions in, and then runs the statements.                               *)
StoreReserved(C, name) ==
  MarkInitialized(EmitAll(C, <<<<"SetLocal", ResolveLocal(Cur(C), name)>>, <<"Pop">>>>), name)

IsSimpleVar(s) == s.k = "var" /\ s.pattern.k = "id"
ReserveFor(C, s) ==
  CASE IsSimpleVar(s)  -> ReserveLocal(Emit(C, <<"Undefined">>), s.pattern.name, s.const)
    [] s.k = "fndecl" -> ReserveLocal(Emit(C, <<"Undefined">>), s.name, FALSE)
    [] OTHER -> C

CompileInLocalList(C, s) ==
  CASE s.k = "fndecl" -> C
    [] IsSimpleVar(s)  -> StoreReserved(CompileExpr(C, s.init), s.pattern.name)
    [] OTHER -> CompileStmt(C, s)

CompileLocalList(C, stmts) ==
  LET Fill(D, s) == IF s.k # "fndecl" THEN D
                    ELSE StoreReserved(CompileCallable(D, s.name, s.params, s.body, FUNCTION), s.name)
  IN  Each(CompileInLocalList, Each(Fill, Each(ReserveFor, C, stmts), stmts), stmts)

-----------------------------------------------------------------------------
(* Declarations and patterns.                                                *)

BindDestructured(C, name, const, global) ==
  IF global THEN Emit(C, <<"DefineGlobal", name, const>>) ELSE AddLocal(C, name, const)

CompileVarDecl(C, s) ==
  IF s.pattern.k = "id"
  THEN BindDestructured(CompileExpr(C, s.init), s.pattern.name, s.const, IsGlobalScope(C))
  ELSE Destructure(CompileExpr(C, s.init), s.pattern, s.const, IsGlobalScope(C))

DestructureDefault(C, p, const, global) ==
  LET test == EmitAll(C, <<<<"Dup">>, <<"Undefined">>, <<"StrictEq">>, <<"JumpIfFalse", 0>>>>)
      dflt == CompileExpr(Emit(test, <<"Pop">>), p.e)
  IN  Destructure(PatchHere(dflt, Here(test) - 1), p.p, const, global)

DestructureArray(C, p, const, global) ==
  LET temp == TempSlot(C)
      Elem(D, i) ==
        IF ~ IsSome(p.elements[i]) THEN D
        ELSE Destructure(EmitAll(D, <<<<"GetLocal", temp>>, <<"Constant", VNum(i - 1)>>, <<"GetIndex">>>>),
                         Get(p.elements[i]), const, global)
      each == Each(Elem, PushTemp(Emit(C, <<"NormalizeIterable">>)), [i \in DOMAIN p.elements |-> i])
  IN  IF ~ IsSome(p.rest) THEN each
      ELSE Destructure(EmitAll(each, <<<<"GetLocal", temp>>, <<"ArrayRest", Len(p.elements)>>>>),
                       Get(p.rest), const, global)

DestructureObject(C, p, const, global) ==
  LET temp == TempSlot(C)
      Bind(D, q) ==
        LET got == EmitAll(D, <<<<"GetLocal", temp>>, <<"GetProp", q.key>>>>)
        IN  IF IsSome(q.value) THEN Destructure(got, Get(q.value), const, global)
            ELSE BindDestructured(got, q.key, const, global)
      each == Each(Bind, PushTemp(C), p.props)
      keys == [i \in DOMAIN p.props |-> <<"Constant", VStr(p.props[i].key)>>]
  IN  IF ~ IsSome(p.rest) THEN each
      ELSE Destructure(EmitAll(each, <<<<"GetLocal", temp>>>> \o keys \o <<<<"ObjectRest", Len(keys)>>>>),
                       Get(p.rest), const, global)

Destructure(C, p, const, global) ==
  CASE p.k = "id"      -> BindDestructured(C, p.name, const, global)
    [] p.k = "default" -> DestructureDefault(C, p, const, global)
    [] p.k = "array"   -> DestructureArray(C, p, const, global)
    [] p.k = "object"  -> DestructureObject(C, p, const, global)

(* The resource stays on the stack as the local, and goes on the disposal    *)
(* list of the enclosing scope.                                              *)
CompileUsing(C, s) ==
  LET made == Emit(CompileExpr(C, s.init), <<"RegisterDisposable">>)
      D    == BindDestructured(made, s.name, TRUE, IsGlobalScope(C))
  IN  [D EXCEPT !.fs[Len(D.fs)].using[Len(Cur(D).using)] = @ + 1]

(* The parent, the constructor, the other members, each a method: a field's  *)
(* initializer returns its value.                                            *)
MemberBody(m) ==
  IF m.role = "field" THEN <<Return(m.init)>> ELSE m.body
HasValue(m) == m.role # "field" \/ IsSome(m.init)
CompileMember(C, m) ==
  IF HasValue(m) THEN CompileCallable(C, m.name, m.params, MemberBody(m), METHOD) ELSE C

CompileClassExpr(C, s) ==
  LET IsCtor(m) == m.role = "constructor"
      parent  == IF IsSome(s.parent) THEN CompileExpr(C, Get(s.parent)) ELSE C
      members == SelectSeq(s.members, IsCtor) \o SelectSeq(s.members, LAMBDA m : ~ IsCtor(m))
      descs   == [i \in DOMAIN members |->
                    [role |-> members[i].role, name |-> members[i].name, static |-> members[i].static,
                     valued |-> HasValue(members[i])]]
  IN  Emit(Each(CompileMember, parent, members), <<"BuildClass", IsSome(s.parent), descs, s.name>>)

CompileClassDecl(C, s) == BindDestructured(CompileClassExpr(C, s), s.name, FALSE, IsGlobalScope(C))

CompileBlockScoped(C, stmts) == EndScope(CompileStmtList(BeginScope(C), stmts))

-----------------------------------------------------------------------------
(* Loops, labels and the exits that cross try statements.                    *)

LoopOf(C, label, isLoop) ==
  [count |-> Len(Cur(C).locals), breaks |-> <<>>, conts |-> <<>>, label |-> label, isLoop |-> isLoop]
PushLoop(C, loop) == [C EXCEPT !.fs[Len(C.fs)].loops = Append(@, loop)]

TakeLabel(C) == [C EXCEPT !.fs[Len(C.fs)].plabel = None]

FinishLoop(C, breakTo, continueTo) ==
  LET ctx == Last(Cur(C).loops)
      D   == [C EXCEPT !.fs[Len(C.fs)].loops = Front(@)]
  IN  Each(LAMBDA E, at : Patch(E, at, continueTo),
               Each(LAMBDA E, at : Patch(E, at, breakTo), D, ctx.breaks), ctx.conts)

IsLoopStmt(s) == s.k \in {"while", "for", "dowhile"}

CompileLabeled(C, s) ==
  IF IsLoopStmt(s.body) THEN CompileStmt([C EXCEPT !.fs[Len(C.fs)].plabel = Some(s.label)], s.body)
  ELSE LET D == CompileStmt(PushLoop(C, LoopOf(C, Some(s.label), FALSE)), s.body)
       IN  FinishLoop(D, Here(D), Here(D))

FindLoop(C, label, needLoop) ==
  LET loops == Cur(C).loops
      found == {i \in DOMAIN loops :
                  IF IsSome(label) THEN loops[i].label = label /\ (needLoop => loops[i].isLoop)
                  ELSE loops[i].isLoop}
  IN  IF found = {} THEN 0 ELSE Max(found)

\* Mutant: an exit leaves the handlers of the try statements it crosses.
EmitTryExitsKeeps(C, indices) ==
  LET saved == Cur(C).trys
      Exit(D, i) ==
        IF IsSome(saved[i].finally)
        THEN CompileBlockScoped([D EXCEPT !.fs[Len(D.fs)].trys = <<>>], Get(saved[i].finally))
        ELSE D
      done == Each(Exit, [C EXCEPT !.fs[Len(C.fs)].trys = <<>>], indices)
  IN  [done EXCEPT !.fs[Len(C.fs)].trys = saved]

(* While an exit's finally is compiled no try statement is in force: the     *)
(* list is drained first, and cutting it at i then does nothing.             *)
EmitTryExits(C, indices) ==
  LET saved == Cur(C).trys
      Exit(D, i) ==
        LET E == EmitAll(D, [n \in 1..saved[i].handlers |-> <<"PopHandler">>])
        IN  IF IsSome(saved[i].finally)
            THEN CompileBlockScoped([E EXCEPT !.fs[Len(E.fs)].trys = <<>>], Get(saved[i].finally))
            ELSE E
      done == Each(Exit, [C EXCEPT !.fs[Len(C.fs)].trys = <<>>], indices)
  IN  [done EXCEPT !.fs[Len(C.fs)].trys = saved]

(* The try statements entered inside loop i, innermost first.                *)
CrossedTrys(C, i) ==
  Reverse(SelectSeq([t \in DOMAIN Cur(C).trys |-> t], LAMBDA t : Cur(C).trys[t].loops >= i))

\* Mutant: break leaves the locals of the loop's body on the stack.
PopLocalsToNone(C, n) == C
PopLocalsTo(C, n) == EmitAll(C, Discards(Cur(C).locals, n))

(* Leaves loop i of the function: field "breaks" or "conts" takes the jump.  *)
ExitLoop(C, i) ==
  LET D == EmitTryExits(C, CrossedTrys(C, i))
  IN  Emit(PopLocalsTo(D, Cur(D).loops[i].count), <<"Jump", 0>>)

CompileBreak(C, label) ==
  LET i == FindLoop(C, label, FALSE)
      D == ExitLoop(C, i)
  IN  IF i = 0 THEN Fail(C, "break")
      ELSE [D EXCEPT !.fs[Len(D.fs)].loops[i].breaks = Append(@, Here(D) - 1)]

CompileContinue(C, label) ==
  LET i == FindLoop(C, label, TRUE)
      D == ExitLoop(C, i)
  IN  IF i = 0 THEN Fail(C, "continue")
      ELSE [D EXCEPT !.fs[Len(D.fs)].loops[i].conts = Append(@, Here(D) - 1)]

CompileReturn(C, s) ==
  LET v == IF IsSome(s.value) THEN CompileExpr(C, Get(s.value)) ELSE Emit(C, <<"Undefined">>)
  IN  Emit(EmitTryExits(v, Reverse([t \in DOMAIN Cur(v).trys |-> t])), <<"Return">>)

CompileWhile(C0, s) ==
  LET label == Cur(C0).plabel
      C     == TakeLabel(C0)
      test  == Emit(CompileExpr(C, s.c), <<"JumpIfFalse", 0>>)
      body  == Emit(CompileStmt(PushLoop(test, LoopOf(test, label, TRUE)), s.body), <<"Jump", Here(C)>>)
  IN  FinishLoop(PatchHere(body, Here(test) - 1), Here(body), Here(C))

\* Mutant: continue skips the test.
CompileDoWhileSkips(C0, s) ==
  LET label == Cur(C0).plabel
      C     == TakeLabel(C0)
      body  == CompileStmt(PushLoop(C, LoopOf(C, label, TRUE)), s.body)
      test  == Emit(CompileExpr(body, s.c), <<"JumpIfFalse", 0>>)
      done  == Emit(test, <<"Jump", Here(C)>>)
  IN  FinishLoop(PatchHere(done, Here(test) - 1), Here(done), Here(C))

CompileDoWhile(C0, s) ==
  LET label == Cur(C0).plabel
      C     == TakeLabel(C0)
      body  == CompileStmt(PushLoop(C, LoopOf(C, label, TRUE)), s.body)
      test  == Emit(CompileExpr(body, s.c), <<"JumpIfFalse", 0>>)
      done  == Emit(test, <<"Jump", Here(C)>>)
  IN  FinishLoop(PatchHere(done, Here(test) - 1), Here(done), Here(body))

(* cond; jump to body; update; jump to cond; body; jump to update.  A        *)
(* captured loop variable is closed before each update, so that every turn   *)
(* has its own.                                                              *)
CompileFor(C0, s) ==
  LET label == Cur(C0).plabel
      C     == BeginScope(TakeLabel(C0))
      first == Len(Cur(C).locals)
      init  == IF IsSome(s.init) THEN CompileStmt(C, Get(s.init)) ELSE C
      cond  == IF IsSome(s.c) THEN Emit(CompileExpr(init, Get(s.c)), <<"JumpIfFalse", 0>>) ELSE init
      jump  == Emit(cond, <<"Jump", 0>>)
      upd   == IF IsSome(s.update) THEN Emit(CompileExpr(jump, Get(s.update)), <<"Pop">>) ELSE jump
      back  == Emit(upd, <<"Jump", Here(init)>>)
      body  == CompileStmt(PushLoop(PatchHere(back, Here(jump) - 1), LoopOf(back, label, TRUE)), s.body)
      own   == \E i \in (first + 1)..Len(Cur(body).locals) : Cur(body).locals[i].captured
      next  == Emit(IF own THEN Emit(body, <<"CloseUpvalueTo", first>>) ELSE body, <<"Jump", Here(jump)>>)
      exit  == IF IsSome(s.c) THEN PatchHere(next, Here(cond) - 1) ELSE next
  IN  EndScope(FinishLoop(exit, Here(exit), IF own THEN Here(body) ELSE Here(jump)))

(* The locals of a for-in: the keys, their number, the counter, the variable.*)
ForInNext(items) == <<<<"GetLocal", items>>, <<"GetLocal", items + 2>>, <<"GetIndex">>>>
ForInCount(items) == <<<<"GetLocal", items + 2>>, <<"Constant", VNum(1)>>, <<"Add">>,
                       <<"SetLocal", items + 2>>, <<"Pop">>>>
ForInTest(items) == <<<<"GetLocal", items + 2>>, <<"GetLocal", items + 1>>, <<"Lt">>, <<"JumpIfFalse", 0>>>>

CompileForIn(C0, s) ==
  LET label == Cur(C0).plabel
      C     == BeginScope(TakeLabel(C0))
      items == TempSlot(C)
      keys  == PushTemp(Emit(CompileExpr(C, s.e), <<"ForInKeys">>))
      len   == PushTemp(EmitAll(keys, <<<<"GetLocal", items>>, <<"ArrayLen">>>>))
      zero  == PushTemp(Emit(len, <<"Constant", VNum(0)>>))
      plain == s.pattern.k = "id"
      var   == items + 3
      head  == IF plain THEN AddLocal(Emit(zero, <<"Undefined">>), s.pattern.name, FALSE) ELSE zero
      test  == EmitAll(head, ForInTest(items))
      next  == EmitAll(test, ForInNext(items) \o IF plain THEN <<<<"SetLocal", var>>, <<"Pop">>>> ELSE <<>>)
      inner == IF plain THEN next ELSE BeginScope(next)
      loop  == PushLoop(inner, LoopOf(inner, label, TRUE))
      body  == IF plain THEN CompileStmt(loop, s.body)
               ELSE EndScope(CompileStmt(Destructure(loop, s.pattern, FALSE, FALSE), s.body))
      own   == plain /\ Cur(body).locals[var + 1].captured
      count == EmitAll(IF own THEN Emit(body, <<"CloseUpvalueTo", var>>) ELSE body, ForInCount(items))
      done  == PatchHere(Emit(count, <<"Jump", Here(head)>>), Here(test) - 1)
  IN  EndScope(FinishLoop(done, Here(done), Here(body)))

(* The locals of a for-of: the iteration's handle and the variable.  Both    *)
(* ends of the loop, exhaustion and break, meet where the handle is closed.  *)
CompileForOf(C0, s) ==
  LET label == Cur(C0).plabel
      C     == BeginScope(TakeLabel(C0))
      hand  == TempSlot(C)
      iter  == PushTemp(Emit(CompileExpr(C, s.e), <<"ForIterInit">>))
      plain == s.pattern.k = "id"
      var   == hand + 1
      head  == IF plain THEN AddLocal(Emit(iter, <<"Undefined">>), s.pattern.name, FALSE) ELSE iter
      step  == EmitAll(head, <<<<"GetLocal", hand>>, <<"ForIterNext", 0>>>>)
      next  == IF plain THEN EmitAll(step, <<<<"SetLocal", var>>, <<"Pop">>>>) ELSE BeginScope(step)
      loop  == PushLoop(next, LoopOf(next, label, TRUE))
      body  == IF plain THEN CompileStmt(loop, s.body)
               ELSE EndScope(CompileStmt(Destructure(loop, s.pattern, FALSE, FALSE), s.body))
      own   == plain /\ Cur(body).locals[var + 1].captured
      back  == Emit(IF own THEN Emit(body, <<"CloseUpvalueTo", var>>) ELSE body, <<"Jump", Here(head)>>)
      done  == FinishLoop(PatchHere(back, Here(step) - 1), Here(back), Here(body))
  IN  EndScope(EmitAll(done, <<<<"GetLocal", hand>>, <<"ForIterClose">>>>))

-----------------------------------------------------------------------------
(* try: the handler of the finally outside that of the catch; the finally's  *)
(* code twice, after a normal end and, rethrowing, after an exception.       *)
CompileCatch(C, s) ==
  LET C1 == BeginScope(C)
      C2 == IF IsSome(s.param) THEN AddLocal(C1, Get(s.param), FALSE) ELSE Emit(C1, <<"Pop">>)
  IN  EndScope(CompileStmtList(C2, Get(s.handler)))

\* Mutant: the exception is not thrown again.
CompileFinallySwallows(C, s, push) ==
  LET normal == Emit(CompileBlockScoped(Emit(C, <<"PopHandler">>), Get(s.finally)), <<"Jump", 0>>)
      thrown == Emit(CompileBlockScoped(PatchHere(normal, push), Get(s.finally)), <<"Pop">>)
  IN  PatchHere(thrown, Here(normal) - 1)
CompileFinally(C, s, push) ==
  LET normal == Emit(CompileBlockScoped(Emit(C, <<"PopHandler">>), Get(s.finally)), <<"Jump", 0>>)
      thrown == Emit(CompileBlockScoped(PatchHere(normal, push), Get(s.finally)), <<"Throw">>)
  IN  PatchHere(thrown, Here(normal) - 1)

CompileTry(C0, s) ==
  LET fin   == IsSome(s.finally)
      cat   == IsSome(s.handler)
      ctx   == [handlers |-> (IF fin THEN 1 ELSE 0) + (IF cat THEN 1 ELSE 0),
                finally |-> s.finally, loops |-> Len(Cur(C0).loops)]
      C     == [C0 EXCEPT !.fs[Len(C0.fs)].trys = Append(@, ctx)]
      outer == IF fin THEN Emit(C, <<"PushHandler", 0, TRUE>>) ELSE C
      inner == IF cat THEN Emit(outer, <<"PushHandler", 0, FALSE>>) ELSE outer
      body  == CompileBlockScoped(inner, s.body)
      done  == Emit(IF cat THEN Emit(body, <<"PopHandler">>) ELSE body, <<"Jump", 0>>)
      caught == IF cat THEN CompileCatch(PatchHere(done, Here(inner) - 1), s) ELSE done
      join  == Emit(caught, <<"Jump", 0>>)
      met   == PatchHere(PatchHere(join, Here(done) - 1), Here(caught))
      out   == [met EXCEPT !.fs[Len(met.fs)].trys = Front(@)]
  IN  IF fin THEN CompileFinally(out, s, Here(outer) - 1) ELSE out

(* switch: all the tests first, each with a jump to its body; no fallthrough.*)
CompileSwitch(C, s) ==
  LET disc  == TempSlot(C)
      start == PushTemp(CompileExpr(BeginScope(C), s.e))
      Test(D, c) ==
        LET t == EmitAll(CompileExpr(Emit(D.C, <<"GetLocal", disc>>), c.e), <<<<"StrictEq">>, <<"JumpIfFalse", 0>>>>)
            j == Emit(t, <<"Jump", 0>>)
        IN  [C |-> PatchHere(j, Here(t) - 1), jumps |-> Append(D.jumps, Here(t))]
      tests == FoldLeft(Test, [C |-> start, jumps |-> <<>>], s.cases)
      dflt  == Emit(tests.C, <<"Jump", 0>>)
      Body(D, i) ==
        LET b == CompileBlockScoped(PatchHere(D.C, tests.jumps[i]), s.cases[i].body)
        IN  [C |-> Emit(b, <<"Jump", 0>>), ends |-> Append(D.ends, Here(b))]
      bodies == FoldLeft(Body, [C |-> dflt, ends |-> <<>>], [i \in DOMAIN s.cases |-> i])
      last  == PatchHere(bodies.C, Here(tests.C))
      done  == IF IsSome(s.default) THEN CompileBlockScoped(last, Get(s.default)) ELSE last
  IN  EndScope(Each(PatchHere, done, bodies.ends))

CompileIf(C, s) ==
  LET test == Emit(CompileExpr(C, s.c), <<"JumpIfFalse", 0>>)
      then == CompileStmt(test, s.t)
      skip == Emit(then, <<"Jump", 0>>)
      else == CompileStmt(PatchHere(skip, Here(test) - 1), Get(s.f))
  IN  IF IsSome(s.f) THEN PatchHere(else, Here(then)) ELSE PatchHere(then, Here(test) - 1)

CompileStmt(C, s) ==
  CASE s.k = "var"      -> CompileVarDecl(C, s)
    [] s.k = "fndecl"   -> CompileFunctionDecl(C, s)
    [] s.k = "expr"     -> Emit(CompileExpr(C, s.e), <<"Pop">>)
    [] s.k = "block"    -> CompileBlockScoped(C, s.stmts)
    [] s.k = "empty"    -> C
    [] s.k = "if"       -> CompileIf(C, s)
    [] s.k = "while"    -> CompileWhile(C, s)
    [] s.k = "dowhile"  -> CompileDoWhile(C, s)
    [] s.k = "for"      -> CompileFor(C, s)
    [] s.k = "forin"    -> CompileForIn(C, s)
    [] s.k = "forof"    -> CompileForOf(C, s)
    [] s.k = "break"    -> CompileBreak(C, s.label)
    [] s.k = "continue" -> CompileContinue(C, s.label)
    [] s.k = "labeled"  -> CompileLabeled(C, s)
    [] s.k = "return"   -> CompileReturn(C, s)
    [] s.k = "throw"    -> Emit(CompileExpr(C, s.e), <<"Throw">>)
    [] s.k = "try"      -> CompileTry(C, s)
    [] s.k = "switch"   -> CompileSwitch(C, s)
    [] s.k = "using"    -> CompileUsing(C, s)
    [] s.k = "class"    -> CompileClassDecl(C, s)

-----------------------------------------------------------------------------
(* Expressions.                                                              *)

CompilePropKey(C, key) ==
  IF key.k = "name" THEN Emit(C, <<"Constant", VStr(key.name)>>) ELSE CompileExpr(C, key.e)

(* An arrow that is the value of a property is a function: it binds `this`.  *)
CompileObjectValue(C, e) ==
  IF e.k = "arrow" THEN CompileCallable(C, "", e.params, e.body, FUNCTION) ELSE CompileExpr(C, e)

CompileEntry(C, x) ==
  CASE x.k = "property" -> Emit(CompileObjectValue(CompilePropKey(C, x.key), x.value), <<"ObjSet">>)
    [] x.k = "spread"   -> Emit(CompileExpr(C, x.e), <<"SpreadObject">>)
    [] x.k = "getter"   -> Emit(CompileCallable(CompilePropKey(C, x.key), "", <<>>, x.body, FUNCTION), <<"DefineGetter">>)
    [] x.k = "setter"   -> Emit(CompileCallable(CompilePropKey(C, x.key), "", <<x.param>>, x.body, FUNCTION), <<"DefineSetter">>)

CompileObject(C, entries) ==
  IF \A i \in DOMAIN entries : entries[i].k = "property"
  THEN Emit(Each(LAMBDA D, x : CompileObjectValue(CompilePropKey(D, x.key), x.value), C, entries),
            <<"NewObject", Len(entries)>>)
  ELSE Each(CompileEntry, Emit(C, <<"NewObject", 0>>), entries)

HasSpread(es) == \E i \in DOMAIN es : es[i].k = "spreadarg"

CompileSpreadArray(C, es) ==
  Each(LAMBDA D, e : IF e.k = "spreadarg" THEN Emit(CompileExpr(D, e.e), <<"AppendSpread">>)
                         ELSE Emit(CompileExpr(D, e), <<"ArrPush">>),
           Emit(C, <<"NewArray", 0>>), es)

CompileArray(C, es) ==
  IF HasSpread(es) THEN CompileSpreadArray(C, es) ELSE Emit(CompileExprs(C, es), <<"NewArray", Len(es)>>)

CompileTemplate(C, parts) ==
  Each(LAMBDA D, p : Emit(IF p.k = "str" THEN Emit(D, <<"Constant", VStr(p.s)>>) ELSE CompileExpr(D, p),
                              <<"ConcatTemplate">>),
           Emit(C, <<"Constant", VStr("")>>), parts)

CompileDelete(C, e) ==
  CASE e.k = "member" -> Emit(CompileExpr(C, e.o), <<"DeleteProp", e.name>>)
    [] e.k = "index"  -> Emit(CompileExpr(CompileExpr(C, e.o), e.i), <<"DeleteIndex">>)
    [] OTHER -> EmitAll(CompileExpr(C, e), <<<<"Pop">>, <<"True">>>>)

UnaryOps == [op \in {"+", "-", "!", "typeof"} |->
               CASE op = "+" -> "Pos" [] op = "-" -> "Neg" [] op = "!" -> "Not" [] op = "typeof" -> "Typeof"]

CompileUnary(C, e) ==
  LET v == FoldConst(e.e)
      folded == IF IsSome(v) THEN FoldUnary(e.op, Get(v)) ELSE None
  IN  CASE e.op = "void"   -> EmitAll(CompileExpr(C, e.e), <<<<"Pop">>, <<"Undefined">>>>)
        [] e.op = "delete" -> CompileDelete(C, e.e)
        [] OTHER -> IF IsSome(folded) THEN EmitFoldConst(C, Get(folded))
                    ELSE Emit(CompileExpr(C, e.e), <<UnaryOps[e.op]>>)

BinaryOps ==
  [op \in Arithmetic \cup Comparisons \cup Equalities \cup {"in", "instanceof"} |->
     CASE op = "+" -> "Add" [] op = "-" -> "Sub" [] op = "*" -> "Mul"
       [] op = "<" -> "Lt" [] op = ">" -> "Gt" [] op = "<=" -> "Le" [] op = ">=" -> "Ge"
       [] op = "==" -> "Eq" [] op = "!=" -> "Ne" [] op = "===" -> "StrictEq" [] op = "!==" -> "StrictNe"
       [] op = "in" -> "In" [] op = "instanceof" -> "Instanceof"]
CompoundOps == [op \in {"+=", "-=", "*="} |-> CASE op = "+=" -> "Add" [] op = "-=" -> "Sub" [] op = "*=" -> "Mul"]

CompileAssign(C, l, r) ==
  CASE l.k = "id"     -> CompileVarSet(CompileExpr(C, r), l.name)
    [] l.k = "index"  -> Emit(CompileExprs(C, <<l.o, l.i, r>>), <<"SetIndex">>)
    [] l.k = "member" -> Emit(CompileExprs(C, <<l.o, r>>), <<"SetProp", l.name>>)
    [] OTHER -> Fail(C, "assignment target")

CompileCompound(C, op, l, r) ==
  CASE l.k = "id" ->
         CompileVarSet(Emit(CompileExpr(CompileVarGet(C, l.name), r), <<CompoundOps[op]>>), l.name)
    [] l.k = "member" ->
         EmitAll(CompileExpr(EmitAll(CompileExpr(C, l.o), <<<<"Dup">>, <<"GetProp", l.name>>>>), r),
                 <<<<CompoundOps[op]>>, <<"SetProp", l.name>>>>)
    [] l.k = "index" ->
         EmitAll(CompileExpr(EmitAll(CompileExprs(C, <<l.o, l.i>>), <<<<"Dup2">>, <<"GetIndex">>>>), r),
                 <<<<CompoundOps[op]>>, <<"SetIndex">>>>)
    [] OTHER -> Fail(C, "assignment target")

ShortCircuit == [op \in {"&&", "||", "&&=", "||=", "??="} |->
  CASE op \in {"&&", "&&="} -> "JumpIfFalsePeek" [] op \in {"||", "||="} -> "JumpIfTruePeek"
    [] op = "??=" -> "JumpIfNotNullishPeek"]

CompileLogicalAssign(C, op, l, r) ==
  LET test == Emit(CompileExpr(C, l), <<ShortCircuit[op], 0>>)
  IN  PatchHere(CompileAssign(Emit(test, <<"Pop">>), l, r), Here(test) - 1)

CompileLogical(C, op, l, r) ==
  LET test == Emit(CompileExpr(C, l), <<ShortCircuit[op], 0>>)
  IN  PatchHere(CompileExpr(Emit(test, <<"Pop">>), r), Here(test) - 1)

CompileNullish(C, l, r) ==
  LET test == Emit(CompileExpr(C, l), <<"JumpIfNullishPeek", 0>>)
      skip == Emit(test, <<"Jump", 0>>)
      rhs  == CompileExpr(Emit(PatchHere(skip, Here(test) - 1), <<"Pop">>), r)
  IN  PatchHere(rhs, Here(test))

CompileBinary(C, e) ==
  LET folded == FoldConst(e)
  IN  CASE IsSome(folded)         -> EmitFoldConst(C, Get(folded))
        [] e.op = "="             -> CompileAssign(C, e.l, e.r)
        [] e.op \in DOMAIN CompoundOps -> CompileCompound(C, e.op, e.l, e.r)
        [] e.op \in {"&&=", "||=", "??="} -> CompileLogicalAssign(C, e.op, e.l, e.r)
        [] e.op \in {"&&", "||"} -> CompileLogical(C, e.op, e.l, e.r)
        [] e.op = "??"            -> CompileNullish(C, e.l, e.r)
        [] e.op = "|>"            -> Emit(CompileExprs(C, <<e.r, e.l>>), <<"Call", 1>>)
        [] OTHER -> Emit(CompileExprs(C, <<e.l, e.r>>), <<BinaryOps[e.op]>>)

(* The old value, as a number, stays under the new one.                      *)
CompilePostfix(C, e) ==
  IF e.e.k # "id" THEN Fail(C, "++ target")
  ELSE LET old == EmitAll(CompileVarGet(C, e.e.name), <<<<"Pos">>, <<"Dup">>, <<"Constant", VNum(1)>>,
                                                     <<IF e.op = "++" THEN "Add" ELSE "Sub">>>>)
       IN  Emit(CompileVarSet(old, e.e.name), <<"Pop">>)

CompileArgs(C, args) ==
  IF HasSpread(args) THEN Emit(CompileSpreadArray(C, args), <<"CallSpread">>)
  ELSE Emit(CompileExprs(C, args), <<"Call", Len(args)>>)

InMethod(C) == \E i \in DOMAIN C.fs : C.fs[i].method
CompileSuperGet(C, name) == IF InMethod(C) THEN Emit(C, <<"SuperGet", name>>) ELSE Fail(C, "super")
(* op and its variant for spread arguments.                                  *)
CompileSuper(C, op, name, args) ==
  CASE ~ InMethod(C) -> Fail(C, "super")
    [] InMethod(C) /\ HasSpread(args) -> Emit(CompileSpreadArray(C, args), <<op \o "Spread", name>>)
    [] OTHER -> Emit(CompileExprs(C, args), <<op, name, Len(args)>>)

(* A method call keeps its receiver, but for one with spread arguments.      *)
CompileCall(C, callee, args) ==
  CASE callee.k = "super" -> CompileSuper(C, "SuperCall", "", args)
    [] callee.k = "member" /\ callee.o = Super -> CompileSuper(C, "SuperInvoke", callee.name, args)
    [] callee.k = "member" /\ callee.o # Super /\ HasSpread(args) ->
         CompileArgs(Emit(CompileExpr(C, callee.o), <<"GetProp", callee.name>>), args)
    [] callee.k = "member" /\ callee.o # Super /\ ~ HasSpread(args) ->
         Emit(CompileExprs(CompileExpr(C, callee.o), args), <<"Invoke", callee.name, Len(args)>>)
    [] OTHER -> CompileArgs(CompileExpr(C, callee), args)

CompileNew(C, callee, args) ==
  IF HasSpread(args) THEN Emit(CompileSpreadArray(CompileExpr(C, callee), args), <<"NewSpread">>)
  ELSE Emit(CompileExprs(CompileExpr(C, callee), args), <<"New", Len(args)>>)

CompileOptional(C, e) ==
  LET test == Emit(CompileExpr(C, IF e.k = "optcall" THEN e.callee ELSE e.o), <<"JumpIfNullishPeek", 0>>)
      access == CASE e.k = "optmember" -> Emit(test, <<"GetProp", e.name>>)
                  [] e.k = "optindex"  -> Emit(CompileExpr(test, e.i), <<"GetIndex">>)
                  [] e.k = "optcall"   -> CompileArgs(test, e.args)
      got  == Emit(access, <<"Jump", 0>>)
      null == EmitAll(PatchHere(got, Here(test) - 1), <<<<"Pop">>, <<"Undefined">>>>)
  IN  PatchHere(null, Here(got) - 1)

CompileConditional(C, e) ==
  LET test == Emit(CompileExpr(C, e.c), <<"JumpIfFalse", 0>>)
      then == Emit(CompileExpr(test, e.t), <<"Jump", 0>>)
      else == CompileExpr(PatchHere(then, Here(test) - 1), e.f)
  IN  PatchHere(else, Here(then) - 1)

CompileThis(C) ==
  IF Resolve(C, THIS_LOCAL).at = "global" THEN Fail(C, "this") ELSE CompileVarGet(C, THIS_LOCAL)

CompileExpr(C, e) ==
  CASE e.k \in {"num", "str", "bool"} ->
         EmitFoldConst(C, Get(FoldConst(e)))
    [] e.k = "null"     -> Emit(C, <<"Null">>)
    [] e.k = "undef"    -> Emit(C, <<"Undefined">>)
    [] e.k = "array"    -> CompileArray(C, e.elements)
    [] e.k = "object"   -> CompileObject(C, e.entries)
    [] e.k = "id"       -> CompileVarGet(C, e.name)
    [] e.k = "grouping" -> CompileExpr(C, e.e)
    [] e.k = "unary"    -> CompileUnary(C, e)
    [] e.k = "binary"   -> CompileBinary(C, e)
    [] e.k = "postfix"  -> CompilePostfix(C, e)
    [] e.k = "cond"     -> CompileConditional(C, e)
    [] e.k = "call"     -> CompileCall(C, e.callee, e.args)
    [] e.k = "index"    -> Emit(CompileExprs(C, <<e.o, e.i>>), <<"GetIndex">>)
    [] e.k = "member"   -> IF e.o = Super THEN CompileSuperGet(C, e.name)
                           ELSE Emit(CompileExpr(C, e.o), <<"GetProp", e.name>>)
    [] e.k = "new"      -> CompileNew(C, e.callee, e.args)
    [] e.k \in {"optmember", "optindex", "optcall"} -> CompileOptional(C, e)
    [] e.k = "arrow"    -> CompileCallable(C, "", e.params, e.body, ARROW)
    [] e.k = "fn"       -> CompileCallable(C, e.name, e.params, e.body, FUNCTION)
    [] e.k = "template" -> CompileTemplate(C, e.parts)
    [] e.k = "this"     -> CompileThis(C)
    [] OTHER -> Fail(C, "unsupported expression")

(* compile_program: the finished functions, and the script as the last.      *)
CompileProgram(program) ==
  LET C    == CompileStmtList([fs |-> <<NewFnState("script", "<script>")>>, protos |-> <<>>, err |-> <<>>], program)
      done == IF Last(Cur(C).using) > 0 THEN Emit(C, <<"DisposeScope", Last(Cur(C).using)>>) ELSE C
      f    == Cur(EmitAll(done, <<<<"Undefined">>, <<"Return">>>>))
  IN  [err |-> C.err,
       protos |-> Append(C.protos, [name |-> f.name, arity |-> 0, rest |-> FALSE, method |-> FALSE,
                                    ups |-> f.ups, code |-> f.code])]
=============================================================================
