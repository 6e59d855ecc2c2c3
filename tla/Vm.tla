--------------------------------- MODULE Vm ---------------------------------
(* The bytecode machine of yps-vm (vm.rs), one action per group of           *)
(* instructions.  Which program it runs is chosen in the initial state, and  *)
(* from there every step is determined.                                      *)
(*                                                                           *)
(* Stack positions count from 1: slot s of a frame is at base + s.  A call   *)
(* that Rust code makes and waits for (an accessor, a dispose method) is a   *)
(* nested run of the machine: an entry of `natives` with the number of       *)
(* frames below it (region_floor) and what is done with the result.  An      *)
(* error on its way to a handler is `pending`.                               *)
EXTENDS VmArrays, FiniteSets, FiniteSetsExt, SequencesExt

CONSTANTS
  Programs,      \* names of programs
  Compiled(_),   \* the compiled program of that name: its functions, the script last, in `protos`
  MaxCallDepth   \* MAX_CALL_DEPTH

ASSUME DepthAssumption == MaxCallDepth \in Nat

VARIABLES
  prog,         \* the compiled program
  frames,       \* [fn, ip, base, owner]: closure, next instruction, position of slot 0, class of a method
  stack,
  handlers,     \* [target, frameLen, stackLen]
  natives,      \* the runs of the machine, innermost last
  cells,        \* upvalues: <<"open", position>> or <<"closed", value>>
  open,         \* open_upvalues: indices into cells
  heap,         \* arrays, objects, closures and iterations
  caches,       \* inline caches, by function and instruction
  globals,      \* name -> [v, const]
  disposables,
  pending,      \* <<>>, or <<[v, thrown]>>
  heights,      \* history: how high the stack was at an instruction
  out,          \* what was printed
  status        \* "running", "done", or how the script failed

vars == <<prog, frames, stack, handlers, natives, cells, open, heap, caches, globals, disposables,
          pending, heights, out, status>>
upvalues == <<cells, open>>
store == <<heap, caches, globals>>
control == <<handlers, natives, disposables>>
world == <<prog, out, status>>

-----------------------------------------------------------------------------
(* Helpers.                                                                  *)

Top == Last(frames)
FnOf(frame) == heap[frame.fn]
ProtoOf(frame) == prog.protos[FnOf(frame).proto]
Instr == ProtoOf(Top).code[Top.ip]
Arg == Instr[2]

Executing == status = <<"running">> /\ pending = <<>> /\ Last(natives).kind \notin {"dispose", "invoke", "make", "visit", "told"}
At(ops) == Executing /\ Instr[1] \in ops

Peek(d) == stack[Len(stack) - d]
Drop(n) == SubSeq(stack, 1, Len(stack) - n)
Args(n) == SubSeq(stack, Len(stack) - n + 1, Len(stack))
Slot(s) == Top.base + s

Jumped(ip) == [frames EXCEPT ![Len(frames)].ip = ip]
Advanced == Jumped(Top.ip + 1)

(* The instruction leaves s on the stack, and touches nothing else.          *)
Leave(s) ==
  /\ stack' = s /\ frames' = Advanced
  /\ UNCHANGED <<upvalues, store, control, pending, world>>

(* It fails.  The operands it took off do not matter: the handler cuts the   *)
(* stack and says where its frame goes on.                                   *)
Fail(ns) ==
  /\ pending' = <<[v |-> VUndef, thrown |-> FALSE]>> /\ natives' = ns
  /\ UNCHANGED <<frames, stack, upvalues, store, handlers, disposables, world>>
Error == Fail(natives)

(* It leaves a new heap object.                                              *)
Allocate(s, object, kind) ==
  /\ heap' = Append(heap, object)
  /\ stack' = Append(s, <<kind, Len(heap) + 1>>) /\ frames' = Advanced
  /\ UNCHANGED <<upvalues, caches, globals, control, pending, world>>

Items(v) == heap[v[2]].items

-----------------------------------------------------------------------------
(* Constants, the stack and operators.                                       *)

PushConstant ==
  /\ At({"Constant", "Null", "Undefined", "True", "False"})
  /\ Leave(Append(stack, CASE Instr[1] = "Constant" -> Arg
                           [] Instr[1] = "Null" -> VNull
                           [] Instr[1] = "Undefined" -> VUndef
                           [] OTHER -> VBool(Instr[1] = "True")))

StackOp ==
  /\ At({"Pop", "Dup", "Dup2", "NormalizeIterable"})
  /\ Leave(CASE Instr[1] = "NormalizeIterable" -> stack    \* for values without an iterator of their own
             [] Instr[1] = "Pop" -> Drop(1)
             [] Instr[1] = "Dup" -> Append(stack, Peek(0))
             [] Instr[1] = "Dup2" -> stack \o <<Peek(1), Peek(0)>>)

UnaryResult(op, v) ==
  CASE op = "Neg" -> NumNeg(PrimToNumber(v))
    [] op = "Pos" -> PrimToNumber(v)
    [] op = "Not" -> VBool(~ PrimTruthy(v))
    [] op = "Typeof" -> VStr(TypeOf(v))

UnaryOp ==
  /\ At({"Neg", "Pos", "Not", "Typeof"})
  /\ Leave(Append(Drop(1), UnaryResult(Instr[1], Peek(0))))

(* add_values, numeric_bin, compare and abstract_eq, for operands without    *)
(* conversion methods.                                                       *)
AddValues(a, b) ==
  IF IsStr(a) \/ IsStr(b) \/ IsRef(a) \/ IsRef(b) THEN VStr(EcmaString(a) \o EcmaString(b))
  ELSE NumArith("+", PrimToNumber(a), PrimToNumber(b))
AbstractEq(a, b) ==
  CASE IsNullish(a) /\ IsNullish(b) -> TRUE
    [] IsNum(a) /\ IsNum(b) -> NumEq(a, b)
    [] \/ {a[1], b[1]} \in {{"num", "str"}, {"num", "bool"}, {"bool", "str"}} ->
         NumEq(PrimToNumber(a), PrimToNumber(b))
    [] OTHER -> a = b

BinaryResult(op, a, b) ==
  CASE op = "Add" -> AddValues(a, b)
    [] op = "Sub" -> NumArith("-", PrimToNumber(a), PrimToNumber(b))
    [] op = "Mul" -> NumArith("*", PrimToNumber(a), PrimToNumber(b))
    [] op = "ConcatTemplate" -> VStr(EcmaString(a) \o EcmaString(b))
    [] op = "Lt" -> VBool(NumCompare("<", PrimToNumber(a), PrimToNumber(b)))
    [] op = "Gt" -> VBool(NumCompare(">", PrimToNumber(a), PrimToNumber(b)))
    [] op = "Le" -> VBool(NumCompare("<=", PrimToNumber(a), PrimToNumber(b)))
    [] op = "Ge" -> VBool(NumCompare(">=", PrimToNumber(a), PrimToNumber(b)))
    [] op = "Eq" -> VBool(AbstractEq(a, b))
    [] op = "Ne" -> VBool(~ AbstractEq(a, b))
    [] op = "StrictEq" -> VBool(StrictEq(a, b))
    [] op = "StrictNe" -> VBool(~ StrictEq(a, b))

BinaryOp ==
  /\ At({"Add", "Sub", "Mul", "ConcatTemplate", "Lt", "Gt", "Le", "Ge", "Eq", "Ne", "StrictEq", "StrictNe"})
  /\ Leave(Append(Drop(2), BinaryResult(Instr[1], Peek(1), Peek(0))))

InOp ==
  /\ At({"In"})
  /\ LET c == Peek(0)
         k == Peek(1)
     IN  CASE IsObj(c) -> Leave(Append(Drop(2), VBool(HasKey(heap[c[2]], PropKey(k)))))
           [] IsArr(c) -> Leave(Append(Drop(2), VBool(InArray(k, Len(Items(c))))))
           [] OTHER -> Error

-----------------------------------------------------------------------------
(* Variables.                                                                *)

Builtins == {"print"}

DefineGlobal ==
  /\ At({"DefineGlobal"})
  /\ globals' = [x \in DOMAIN globals \cup {Arg} |->
                   IF x = Arg THEN [v |-> Peek(0), const |-> Instr[3]] ELSE globals[x]]
  /\ stack' = Drop(1) /\ frames' = Advanced
  /\ UNCHANGED <<upvalues, heap, caches, control, pending, world>>

GetGlobal ==
  /\ At({"GetGlobal"})
  /\ IF Arg \in DOMAIN globals THEN Leave(Append(stack, globals[Arg].v))
     ELSE IF Arg \in Builtins THEN Leave(Append(stack, <<"builtin", Arg>>))
     ELSE Error

SetGlobal ==
  /\ At({"SetGlobal"})
  /\ IF Arg \notin DOMAIN globals \/ (Arg \in DOMAIN globals /\ globals[Arg].const) THEN Error
     ELSE /\ globals' = [globals EXCEPT ![Arg].v = Peek(0)]
          /\ frames' = Advanced
          /\ UNCHANGED <<stack, upvalues, heap, caches, control, pending, world>>

LocalOp ==
  /\ At({"GetLocal", "SetLocal"})
  /\ Leave(IF Instr[1] = "GetLocal" THEN Append(stack, stack[Slot(Arg)])
           ELSE [stack EXCEPT ![Slot(Arg)] = Peek(0)])

(* An open upvalue is a position of the stack; one that is no longer there   *)
(* reads as undefined and takes no value.                                    *)
GetUpvalue ==
  /\ At({"GetUpvalue"})
  /\ LET cell == cells[FnOf(Top).ups[Arg + 1]]
     IN  Leave(Append(stack, CASE cell[1] = "closed" -> cell[2]
                               [] cell[2] \in DOMAIN stack -> stack[cell[2]]
                               [] OTHER -> VUndef))

SetUpvalue ==
  /\ At({"SetUpvalue"})
  /\ LET c == FnOf(Top).ups[Arg + 1]
     IN  IF cells[c][1] = "closed"
         THEN /\ cells' = [cells EXCEPT ![c] = <<"closed", Peek(0)>>] /\ frames' = Advanced
              /\ UNCHANGED <<stack, open, store, control, pending, world>>
         ELSE Leave(IF cells[c][2] \in DOMAIN stack THEN [stack EXCEPT ![cells[c][2]] = Peek(0)] ELSE stack)

(* close_upvalues: those above position n keep the value they have there.    *)
CloseAbove(n) ==
  LET gone == {c \in Range(open) : cells[c][2] > n}
  IN  /\ cells' = [c \in DOMAIN cells |-> IF c \in gone THEN <<"closed", stack[cells[c][2]]>> ELSE cells[c]]
      /\ open' = SelectSeq(open, LAMBDA c : c \notin gone)

CloseUpvalue ==
  /\ At({"CloseUpvalue", "CloseUpvalueTo"})
  /\ CloseAbove((IF Instr[1] = "CloseUpvalue" THEN Len(stack) ELSE Slot(Arg)) - 1)
  /\ stack' = IF Instr[1] = "CloseUpvalue" THEN Drop(1) ELSE stack
  /\ frames' = Advanced /\ UNCHANGED <<store, control, pending, world>>

(* capture_upvalue: a variable captured twice has one upvalue.               *)
Captured(pos) == {c \in Range(open) : cells[c] = <<"open", pos>>}

Closure ==
  /\ At({"Closure"})
  /\ LET descs == prog.protos[Arg].ups
         New(i) == descs[i][1] /\ Captured(Slot(descs[i][2])) = {}
         fresh == SelectSeq([i \in DOMAIN descs |-> i], LAMBDA i : New(i))
         Rank(i) == Cardinality({j \in DOMAIN fresh : fresh[j] <= i})
         ups == [i \in DOMAIN descs |->
                   IF ~ descs[i][1] THEN FnOf(Top).ups[descs[i][2] + 1]
                   ELSE IF New(i) THEN Len(cells) + Rank(i)
                   ELSE CHOOSE c \in Captured(Slot(descs[i][2])) : TRUE]
     IN  /\ cells' = cells \o [j \in DOMAIN fresh |-> <<"open", Slot(descs[fresh[j]][2])>>]
         /\ open' = open \o [j \in DOMAIN fresh |-> Len(cells) + j]
         /\ heap' = Append(heap, [kind |-> "fn", proto |-> Arg, ups |-> ups])
         /\ stack' = Append(stack, <<"fn", Len(heap) + 1>>)
         /\ frames' = Advanced
         /\ UNCHANGED <<caches, globals, control, pending, world>>

-----------------------------------------------------------------------------
(* Jumps, handlers and exceptions.                                           *)

Jump ==
  /\ At({"Jump", "JumpIfFalse", "JumpIfFalsePeek", "JumpIfTruePeek", "JumpIfNullishPeek", "JumpIfNotNullishPeek"})
  /\ frames' = IF CASE Instr[1] = "Jump" -> TRUE
                    [] Instr[1] \in {"JumpIfFalse", "JumpIfFalsePeek"} -> ~ PrimTruthy(Peek(0))
                    [] Instr[1] = "JumpIfTruePeek" -> PrimTruthy(Peek(0))
                    [] Instr[1] = "JumpIfNullishPeek" -> IsNullish(Peek(0))
                    [] Instr[1] = "JumpIfNotNullishPeek" -> ~ IsNullish(Peek(0))
               THEN Jumped(Arg) ELSE Advanced
  /\ stack' = IF Instr[1] = "JumpIfFalse" THEN Drop(1) ELSE stack
  /\ UNCHANGED <<upvalues, store, control, pending, world>>

PushHandler ==
  /\ At({"PushHandler"})
  /\ handlers' = Append(handlers, [target |-> Arg, frameLen |-> Len(frames), stackLen |-> Len(stack)])
  /\ frames' = Advanced
  /\ UNCHANGED <<stack, upvalues, store, natives, disposables, pending, world>>

PopHandler ==
  /\ At({"PopHandler"})
  /\ handlers' = IF handlers = <<>> THEN handlers ELSE Front(handlers)
  /\ frames' = Advanced
  /\ UNCHANGED <<stack, upvalues, store, natives, disposables, pending, world>>

Throw ==
  /\ At({"Throw"})
  /\ pending' = <<[v |-> Peek(0), thrown |-> TRUE]>>
  /\ stack' = Drop(1)
  /\ UNCHANGED <<frames, upvalues, store, control, world>>

ErrorObject == NewObj(<<[key |-> <<"name", "name">>, v |-> VStr("Error")],
                        [key |-> <<"name", "message">>, v |-> VStr("message")]>>)

(* unwind_to_handler_above: handlers of frames that are gone are dropped; a  *)
(* handler of the run's own frames is entered, one below the run stays.      *)
LiveHandler ==
  LET live == {i \in DOMAIN handlers : handlers[i].frameLen <= Len(frames)} IN IF live = {} THEN 0 ELSE Max(live)
Reached == LiveHandler # 0 /\ handlers[LiveHandler].frameLen > Last(natives).floor

Catch ==
  /\ status = <<"running">> /\ pending # <<>> /\ Reached
  /\ LET h  == handlers[LiveHandler]
         n  == IF h.stackLen <= Len(stack) THEN h.stackLen ELSE Len(stack)
         v  == IF pending[1].thrown THEN pending[1].v ELSE <<"obj", Len(heap) + 1>>
     IN  /\ CloseAbove(n)
         /\ stack' = Append(SubSeq(stack, 1, n), v)
         /\ frames' = [SubSeq(frames, 1, h.frameLen) EXCEPT ![h.frameLen].ip = h.target]
         /\ heap' = IF pending[1].thrown THEN heap ELSE Append(heap, ErrorObject)
  /\ handlers' = SubSeq(handlers, 1, LiveHandler - 1)
  /\ pending' = <<>>
  /\ UNCHANGED <<caches, globals, natives, disposables, world>>

(* A run without a handler ends with the error: the whole machine, or the    *)
(* Rust code that waits for the run.  A disposal goes on with the next       *)
(* resource and keeps the first error.                                       *)
RunFails ==
  /\ status = <<"running">> /\ pending # <<>> /\ ~ Reached
  /\ handlers' = SubSeq(handlers, 1, LiveHandler)
  /\ LET run  == Last(natives)
         rest == Front(natives)
     IN  CASE run.kind = "top" ->
                /\ status' = IF pending[1].thrown THEN <<"threw", EcmaString(pending[1].v)>> ELSE <<"failed">>
                /\ UNCHANGED <<natives, pending>>
           [] run.kind = "disposing" ->
                /\ natives' = [rest EXCEPT ![Len(rest)].err = IF @ = <<>> THEN pending ELSE @]
                /\ pending' = <<>> /\ UNCHANGED status
           [] OTHER -> natives' = rest /\ UNCHANGED <<pending, status>>
  /\ UNCHANGED <<prog, frames, stack, upvalues, store, disposables, out>>

-----------------------------------------------------------------------------
(* Calls.                                                                    *)

Bound(proto, args) ==
  LET fixed == IF proto.rest THEN proto.arity - 1 ELSE proto.arity
  IN  [i \in 1..fixed |-> IF i \in DOMAIN args THEN args[i] ELSE VUndef]
        \o IF proto.rest THEN <<<<"arr", Len(heap) + 1>>>> ELSE <<>>

(* The frame of closure f, a member of class owner if that is not undefined, *)
(* over the stack below: slot 0 is self.  fs are the frames and ns the runs  *)
(* there are then.                                                           *)
Entered(f, owner, below, self, args, fs, ns) ==
  LET proto == prog.protos[heap[f[2]].proto]
  IN  /\ stack' = Append(below, self) \o Bound(proto, args)
      /\ heap' = IF proto.rest THEN Append(heap, NewArr(SubSeq(args, proto.arity, Len(args)))) ELSE heap
      /\ frames' = Append(fs, [fn |-> f[2], ip |-> 1, base |-> Len(below) + 1, owner |-> owner])
      /\ natives' = ns
Enter(f, owner, below, self, args, fs, ns) ==
  /\ Entered(f, owner, below, self, args, fs, ns)
  /\ UNCHANGED <<upvalues, caches, globals, handlers, disposables, pending, world>>

TooDeep == Len(frames) >= MaxCallDepth

(* instantiate: the fields of the ancestors first, then the constructor of   *)
(* the nearest class that has one.  What a "make" run has to do: call f and  *)
(* put the result under a name, if there is one.                             *)
Todo(name, f, owner, args) == [name |-> name, f |-> f, owner |-> owner, args |-> args]
Making(self, todo) == [kind |-> "make", floor |-> Last(natives).floor, self |-> self, todo |-> todo]
FieldsOf(c) == [i \in DOMAIN Members(heap, c, "field", FALSE) |->
                  LET x == Members(heap, c, "field", FALSE)[i] IN Todo(x.name, x.f, c, <<>>)]
Instantiate(c, below, args, fs, ns) ==
  LET fields == FlattenSeq([i \in DOMAIN Ancestry(heap, c) |-> FieldsOf(Reverse(Ancestry(heap, c))[i])])
      ctor == FindMember(heap, c, "constructor", FALSE, "")
      last == IF ctor = <<>> THEN <<>> ELSE <<Todo("", ctor[1].f, ctor[1].owner, args)>>
  IN  /\ heap' = Append(heap, NewObj(<<[key |-> CLASS_TAG, v |-> c]>>))
      /\ natives' = Append(ns, Making(<<"obj", Len(heap) + 1>>, fields \o last))
      /\ stack' = below /\ frames' = fs
      /\ UNCHANGED <<upvalues, caches, globals, handlers, disposables, pending, world>>

(* call_array: the method leaves its outcome, or becomes a visit.            *)
Deliver(outcome, self, below, fs, ns) ==
  LET kept == [heap EXCEPT ![self[2]].items = outcome.items]
  IN  IF outcome.kind = "error" THEN Fail(ns)
      ELSE /\ heap' = IF outcome.kind = "list" THEN Append(kept, NewArr(outcome.v)) ELSE kept
           /\ stack' = Append(below, CASE outcome.kind = "list" -> <<"arr", Len(heap) + 1>>
                                      [] outcome.kind = "self" -> self
                                      [] OTHER -> outcome.v)
           /\ frames' = fs /\ natives' = ns
           /\ UNCHANGED <<upvalues, caches, globals, handlers, disposables, pending, world>>

CallArray(self, m, args, below, fs, ns) ==
  CASE ~ Accepts(m, args) \/ NothingToReduce(m, Items(self), args) -> Fail(ns)
    [] Accepts(m, args) /\ ~ Visiting(m, args) ->
         Deliver(DataMethod(heap, Items(self), m, args), self, below, fs, ns)
    [] OTHER -> /\ natives' = Append(ns, [kind |-> "visit", floor |-> Len(fs)] @@ Visit(m, self, Items(self), args))
                /\ stack' = below /\ frames' = fs
                /\ UNCHANGED <<upvalues, store, handlers, disposables, pending, world>>

(* do_call: the callee is below its arguments and becomes slot 0; a call of  *)
(* a method by do_call_with_this puts the receiver there.                    *)
CallValue(callee, below, self, args, fs, ns) ==
  CASE IsFn(callee) -> IF TooDeep THEN Fail(ns) ELSE Enter(callee, VUndef, below, self, args, fs, ns)
    [] IsClass(callee) -> Instantiate(callee, below, args, fs, ns)
    [] callee = <<"builtin", "print">> ->
         /\ out' = Append(out, [i \in DOMAIN args |-> EcmaString(args[i])])
         /\ stack' = Append(below, VUndef) /\ frames' = fs /\ natives' = ns
         /\ UNCHANGED <<prog, status, upvalues, store, handlers, disposables, pending>>
    [] callee[1] = "bound" -> CallArray(callee[2], callee[3], args, below, fs, ns)
    [] OTHER -> Fail(ns)

CallOp ==
  /\ At({"Call", "CallSpread"})
  /\ LET args == IF Instr[1] = "Call" THEN Args(Arg) ELSE Items(Peek(0))
         below == Drop(IF Instr[1] = "Call" THEN Arg + 1 ELSE 2)
         callee == stack[Len(below) + 1]
     IN  CallValue(callee, below, callee, args, Advanced, natives)

(* A nested run: the frame is entered with the receiver as `this`.           *)
RunNested(f, owner, below, self, args, run) ==
  IF TooDeep THEN Error
  ELSE Enter(f, owner, below, self, args, Advanced, Append(natives, [floor |-> Len(frames)] @@ run))

(* The inline cache of an instruction.                                       *)
Site == <<FnOf(Top).proto, Top.ip>>
CacheHit(o) ==
  /\ Site \in DOMAIN caches
  /\ caches[Site].obj = o /\ caches[Site].gen = heap[o].gen
Cached(o) == heap[o].props[caches[Site].index]

(* ic_fill_get and ic_fill_set: a plain property that the object has.        *)
FilledAt(site, h, o, name, accessor) ==
  LET setter == FindMember(h, Lookup(h[o], CLASS_TAG), "set", FALSE, name)
  IN  IF \/ HasKey(h[o], <<accessor, name>>) \/ ~ HasKey(h[o], <<"name", name>>)
         \/ accessor = "set" /\ setter # <<>>
      THEN caches
      ELSE (site :> [obj |-> o, gen |-> h[o].gen, index |-> IndexOf(h[o], <<"name", name>>)]) @@ caches
Filled(h, o, name, accessor) == FilledAt(Site, h, o, name, accessor)

(* What a "make" run puts into the object or the class it makes.             *)
Put(h, self, name, v) ==
  IF IsObj(self) THEN [h EXCEPT ![self[2]] = Insert(@, <<"name", name>>, v)]
  ELSE [h EXCEPT ![self[2]].statics = Insert(@, <<"name", name>>, v)]

Return ==
  /\ At({"Return"})
  /\ LET run  == Last(natives)
         done == Len(frames) - 1 <= run.floor
         s    == SubSeq(stack, 1, Top.base - 1)
         v    == Peek(0)
     IN  /\ CloseAbove(Top.base - 1)
         /\ frames' = Front(frames)
         /\ stack' = CASE ~ done \/ run.kind \in {"top", "get", "asking"} -> Append(s, v)
                       [] run.kind = "set" -> Append(s, run.v)
                       [] run.kind \in {"disposing", "made"} -> s
                       [] run.kind = "invoking" -> [s EXCEPT ![Len(s) - run.argc] = v]
         /\ natives' = CASE ~ done \/ run.kind = "top" -> natives
                         [] run.kind = "invoking" -> Append(Front(natives), [run EXCEPT !.kind = "invoke"])
                         [] run.kind = "asking" -> Append(Front(natives), [run EXCEPT !.kind = "told"])
                         [] run.kind = "made" ->
                              Append(Front(natives), [run EXCEPT !.kind = "make", !.todo = Tail(@)])
                         [] OTHER -> Front(natives)
         /\ heap' = IF done /\ run.kind = "made" /\ Head(run.todo).name # ""
                    THEN Put(heap, run.self, Head(run.todo).name, v) ELSE heap
         /\ caches' = IF done /\ run.kind \in {"get", "set"} /\ run.fill # <<>>
                      THEN FilledAt(run.fill[1], heap, run.fill[2], run.fill[3], run.kind) ELSE caches
         /\ status' = IF done /\ run.kind = "top" THEN <<"done">> ELSE status
  /\ UNCHANGED <<globals, handlers, disposables, pending, prog, out>>

(* The next field, static block or constructor of what is being made.        *)
MakeNext ==
  /\ status = <<"running">> /\ pending = <<>> /\ Last(natives).kind = "make"
  /\ LET run  == Last(natives)
         step == Head(run.todo)
     IN  CASE run.todo = <<>> ->
                /\ stack' = Append(stack, run.self) /\ natives' = Front(natives)
                /\ UNCHANGED <<frames, upvalues, store, handlers, disposables, pending, world>>
           [] run.todo # <<>> /\ ~ IsFn(step.f) ->
                /\ heap' = Put(heap, run.self, step.name, VUndef)
                /\ natives' = Append(Front(natives), [run EXCEPT !.todo = Tail(@)])
                /\ UNCHANGED <<frames, stack, upvalues, caches, globals, handlers, disposables, pending, world>>
           [] run.todo # <<>> /\ IsFn(step.f) /\ TooDeep -> Fail(Front(natives))
           [] OTHER -> Enter(step.f, step.owner, stack, run.self, step.args, frames,
                             Append(Front(natives), [run EXCEPT !.kind = "made", !.floor = Len(frames)]))

(* A visit calls its callback for the next item, takes the answer from the   *)
(* stack, and ends.                                                          *)
VisitNext ==
  /\ status = <<"running">> /\ pending = <<>> /\ Last(natives).kind = "visit"
  /\ LET run == Last(natives)
         As(kind) == Append(Front(natives), [run EXCEPT !.kind = kind])
     IN  CASE run.todo = <<>> -> Deliver(VisitEnd(run, Items(run.self)), run.self, stack, frames, Front(natives))
           [] run.todo # <<>> /\ IsFn(run.f) ->
                IF TooDeep THEN Fail(natives)
                ELSE Enter(run.f, VUndef, stack, VUndef, VisitArgs(run), frames, As("asking"))
           [] OTHER -> CallValue(run.f, stack, VUndef, VisitArgs(run), frames, As("told"))

VisitAnswered ==
  /\ status = <<"running">> /\ pending = <<>> /\ Last(natives).kind = "told"
  /\ natives' = Append(Front(natives), [VisitTold(heap, Last(natives), Peek(0)) EXCEPT !.kind = "visit"])
  /\ stack' = Drop(1)
  /\ UNCHANGED <<frames, upvalues, store, handlers, disposables, pending, world>>

-----------------------------------------------------------------------------
(* Properties of objects and classes.                                        *)

(* get_property for values that are not objects.                             *)
PlainProperty(v, name) ==
  CASE v[1] = "builtin" -> <<"builtin", v[2] \o "." \o name>>
    [] IsArr(v) /\ name = "length" -> VNum(Len(Items(v)))
    [] IsArr(v) /\ name \in ArrayMethods -> <<"bound", v, name>>
    [] IsStr(v) /\ name = "length" -> VNum(Len(v[2]))
    [] OTHER -> VUndef
Readable(v) == v[1] \in {"builtin", "arr", "str", "obj", "class"}

(* get_property: the value of a property, or the getter to run for it and    *)
(* the class of that.  An object's own properties come first; a static       *)
(* getter is given the parent of the class that is asked.                    *)
Plain(v) == [kind |-> "plain", v |-> v]
Getter(f, owner) == [kind |-> "getter", f |-> f, owner |-> owner]
Found(v, name) ==
  LET class == ClassOf(heap, v)
      own   == Lookup(heap[v[2]], <<"get", name>>)
      Of(role) == FindMember(heap, class, role, FALSE, name)
      Static(role) == FindMember(heap, v, role, TRUE, name)
  IN  CASE IsObj(v) ->
             (CASE IsFn(own) -> Getter(own, VUndef)
                [] HasKey(heap[v[2]], <<"name", name>>) -> Plain(Lookup(heap[v[2]], <<"name", name>>))
                [] Of("get") # <<>> -> Getter(Of("get")[1].f, Of("get")[1].owner)
                [] name = "constructor" /\ IsClass(class) -> Plain(class)
                [] Of("method") # <<>> -> Plain(Of("method")[1].f)
                [] OTHER -> Plain(VUndef))
        [] IsClass(v) ->
             (CASE Static("get") # <<>> -> Getter(Static("get")[1].f, heap[v[2]].parent)
                [] HasKey(StaticField(heap, v, name), <<"name", name>>) ->
                     Plain(Lookup(StaticField(heap, v, name), <<"name", name>>))
                [] Static("method") # <<>> -> Plain(Static("method")[1].f)
                [] OTHER -> Plain(VUndef))
        [] OTHER -> Plain(PlainProperty(v, name))

Fill(v) == IF IsObj(v) THEN <<Site, v[2], Arg>> ELSE <<>>

GetProp ==
  /\ At({"GetProp"})
  /\ LET v == Peek(0)
         found == Found(v, Arg)
     IN  CASE ~ Readable(v) -> Error
           [] IsObj(v) /\ CacheHit(v[2]) -> Leave(Append(Drop(1), Cached(v[2]).v))
           [] Readable(v) /\ ~ (IsObj(v) /\ CacheHit(v[2])) /\ found.kind = "getter" ->
                RunNested(found.f, found.owner, Drop(1), v, <<>>, [kind |-> "get", fill |-> Fill(v)])
           [] OTHER -> /\ caches' = IF IsObj(v) THEN Filled(heap, v[2], Arg, "get") ELSE caches
                       /\ stack' = Append(Drop(1), found.v) /\ frames' = Advanced
                       /\ UNCHANGED <<upvalues, heap, globals, control, pending, world>>

(* set_property: the setter to run, if there is one, and its class.          *)
SetterOf(v, name) ==
  LET own   == IF IsObj(v) THEN Lookup(heap[v[2]], <<"set", name>>) ELSE VUndef
      found == FindMember(heap, IF IsClass(v) THEN v ELSE ClassOf(heap, v), "set", IsClass(v), name)
  IN  CASE IsFn(own) -> <<Getter(own, VUndef)>>
        [] ~ IsFn(own) /\ found # <<>> ->
             <<Getter(found[1].f, IF IsClass(v) THEN heap[v[2]].parent ELSE found[1].owner)>>
        [] OTHER -> <<>>

SetProp ==
  /\ At({"SetProp"})
  /\ LET v == Peek(1)
         o == v[2]
         hit == IsObj(v) /\ CacheHit(o)
         setter == SetterOf(v, Arg)
         after == CASE hit -> [heap EXCEPT ![o].props[caches[Site].index].v = Peek(0)]
                    [] IsObj(v) /\ ~ hit -> Put(heap, v, Arg, Peek(0))
                    [] OTHER -> Put(heap, StaticOwner(heap, v, Arg), Arg, Peek(0))
     IN  CASE ~ IsObj(v) /\ ~ IsClass(v) -> Error
           [] (IsObj(v) \/ IsClass(v)) /\ ~ hit /\ setter # <<>> ->
                RunNested(setter[1].f, setter[1].owner, Drop(2), v, <<Peek(0)>>,
                          [kind |-> "set", v |-> Peek(0), fill |-> Fill(v)])
           [] OTHER -> /\ heap' = after
                       /\ caches' = IF hit \/ IsClass(v) THEN caches ELSE Filled(after, o, Arg, "set")
                       /\ stack' = Append(Drop(2), Peek(0)) /\ frames' = Advanced
                       /\ UNCHANGED <<upvalues, globals, control, pending, world>>

(* do_invoke: a method of the receiver's class, unless the receiver has a    *)
(* plain property of the name; else the property is read, through its getter *)
(* if it has one, and called, with an object as the receiver.                *)
ClassMethod(v, name) ==
  CASE IsObj(v) /\ ~ HasKey(heap[v[2]], <<"name", name>>) -> FindMember(heap, ClassOf(heap, v), "method", FALSE, name)
    [] IsClass(v) -> FindMember(heap, v, "method", TRUE, name)
    [] OTHER -> <<>>
SelfOf(callee, v) == IF IsObj(v) /\ IsFn(callee) THEN v ELSE callee

Invoke ==
  /\ At({"Invoke"})
  /\ LET argc == Instr[3]
         v == Peek(argc)
         method == ClassMethod(v, Arg)
         found == Found(v, Arg)
     IN  CASE method # <<>> ->
                RunNested(method[1].f, method[1].owner, Drop(argc + 1), v, Args(argc), [kind |-> "get", fill |-> <<>>])
           [] IsArr(v) /\ Arg \in ArrayMethods -> CallArray(v, Arg, Args(argc), Drop(argc + 1), Advanced, natives)
           [] method = <<>> /\ ~ Readable(v) -> Error
           [] method = <<>> /\ Readable(v) /\ found.kind = "getter" ->
                RunNested(found.f, found.owner, stack, v, <<>>, [kind |-> "invoking", argc |-> argc, v |-> v])
           [] OTHER -> CallValue(found.v, Drop(argc + 1), SelfOf(found.v, v), Args(argc), Advanced, natives)

InvokeGot ==
  /\ status = <<"running">> /\ pending = <<>> /\ Last(natives).kind = "invoke"
  /\ LET run == Last(natives)
         callee == Peek(run.argc)
     IN  CallValue(callee, Drop(run.argc + 1), SelfOf(callee, run.v), Args(run.argc),
                   frames, Front(natives))

DeleteProp ==
  /\ At({"DeleteProp", "DeleteIndex"})
  /\ LET byName == Instr[1] = "DeleteProp"
         v == IF byName THEN Peek(0) ELSE Peek(1)
         key == IF byName THEN <<"name", Arg>> ELSE PropKey(Peek(0))
         at == ArrayIndex(Peek(0), Len(Items(v)))
     IN  IF ~ byName /\ IsStr(v) THEN Error
         ELSE /\ heap' = CASE IsObj(v) -> [heap EXCEPT ![v[2]] = RemoveKey(@, key)]
                           [] IsArr(v) /\ ~ byName /\ at # 0 -> [heap EXCEPT ![v[2]].items[at] = VUndef]
                           [] OTHER -> heap
              /\ stack' = Append(Drop(IF byName THEN 1 ELSE 2), VBool(TRUE)) /\ frames' = Advanced
              /\ UNCHANGED <<upvalues, caches, globals, control, pending, world>>

-----------------------------------------------------------------------------
(* Classes.                                                                  *)

(* build_class: the class is there for its static fields and blocks, which   *)
(* run in order; it goes on the stack when they have.                        *)
BuildClass ==
  /\ At({"BuildClass"})
  /\ LET descs  == Instr[3]
         Before(i) == Cardinality({j \in 1..i : descs[j].valued})
         count  == Before(Len(descs))
         parent == IF Arg THEN Peek(count) ELSE VUndef
         class  == <<"class", Len(heap) + 1>>
         members == [i \in DOMAIN descs |->
                       [role |-> descs[i].role, name |-> descs[i].name, static |-> descs[i].static,
                        f |-> IF descs[i].valued THEN Args(count)[Before(i)] ELSE VUndef]]
         inits  == SelectSeq(members, LAMBDA x : x.static /\ x.role \in {"field", "block"})
     IN  IF Arg /\ ~ IsClass(parent) THEN Error
         ELSE /\ heap' = Append(heap, NewClass(Instr[4], parent, members))
              /\ stack' = Drop(IF Arg THEN count + 1 ELSE count) /\ frames' = Advanced
              /\ natives' = Append(natives, Making(class, [i \in DOMAIN inits |->
                               Todo(inits[i].name, inits[i].f, class, <<>>)]))
              /\ UNCHANGED <<upvalues, caches, globals, handlers, disposables, pending, world>>

NewOp ==
  /\ At({"New", "NewSpread"})
  /\ LET args == IF Instr[1] = "New" THEN Args(Arg) ELSE Items(Peek(0))
         below == Drop(IF Instr[1] = "New" THEN Arg + 1 ELSE 2)
         callee == stack[Len(below) + 1]
     IN  IF IsFn(callee) THEN Error ELSE CallValue(callee, below, callee, args, Advanced, natives)

InstanceofOp ==
  /\ At({"Instanceof"})
  /\ IF ~ IsClass(Peek(0)) THEN Error
     ELSE Leave(Append(Drop(2), VBool(Peek(0) \in Range(Ancestry(heap, ClassOf(heap, Peek(1)))))))

(* super means the parent of the class the running method belongs to.        *)
SuperOp ==
  /\ At({"SuperCall", "SuperCallSpread", "SuperGet", "SuperInvoke", "SuperInvokeSpread"})
  /\ LET op     == Instr[1]
         spread == op \in {"SuperCallSpread", "SuperInvokeSpread"}
         args   == CASE op = "SuperGet" -> <<>> [] spread -> Items(Peek(0)) [] OTHER -> Args(Instr[3])
         below  == Drop(CASE op = "SuperGet" -> 0 [] spread -> 1 [] OTHER -> Instr[3])
         this   == stack[Top.base]
         parent == heap[Top.owner[2]].parent
         Of(role) == FindMember(heap, parent, role, FALSE, Arg)
         Run(found, run) == RunNested(found[1].f, found[1].owner, below, this, args, [fill |-> <<>>] @@ run)
     IN  CASE ~ IsClass(Top.owner) -> Error
           [] IsClass(Top.owner) /\ op = "SuperGet" ->
                IF Of("get") # <<>> THEN Run(Of("get"), [kind |-> "get"])
                ELSE Leave(Append(stack, IF Of("method") = <<>> THEN VUndef ELSE Of("method")[1].f))
           [] IsClass(Top.owner) /\ op \in {"SuperCall", "SuperCallSpread"} ->
                IF ~ IsClass(parent) THEN Error
                ELSE IF Of("constructor") = <<>> THEN Leave(Append(below, VUndef))
                ELSE Run(Of("constructor"), [kind |-> "set", v |-> VUndef])
           [] OTHER -> IF Of("method") = <<>> THEN Error ELSE Run(Of("method"), [kind |-> "get"])

-----------------------------------------------------------------------------
(* Arrays and objects.                                                       *)

(* The instruction changes heap object o and takes n values off.             *)
Change(o, object, n) ==
  /\ heap' = [heap EXCEPT ![o] = object]
  /\ stack' = Drop(n) /\ frames' = Advanced
  /\ UNCHANGED <<upvalues, caches, globals, control, pending, world>>

Pairs(vs) == [i \in 1..(Len(vs) \div 2) |-> [key |-> PropKey(vs[2 * i - 1]), v |-> vs[2 * i]]]

NewCollection ==
  /\ At({"NewArray", "NewObject"})
  /\ IF Instr[1] = "NewArray" THEN Allocate(Drop(Arg), NewArr(Args(Arg)), "arr")
     ELSE Allocate(Drop(2 * Arg), InsertAll(NewObj(<<>>), Pairs(Args(2 * Arg))), "obj")

(* ArrPush, and AppendSpread of an array or a string.                        *)
ArrayAppend ==
  /\ At({"ArrPush", "AppendSpread"})
  /\ LET arr == Peek(1)
         src == Peek(0)
     IN  CASE Instr[1] = "ArrPush" -> Change(arr[2], NewArr(Append(Items(arr), src)), 1)
           [] Instr[1] = "AppendSpread" /\ Iterates(src) -> Change(arr[2], NewArr(Items(arr) \o IterableValues(heap, src)), 1)
           [] OTHER -> Error

ArrayRest ==
  /\ At({"ArrayRest"})
  /\ IF IsArr(Peek(0)) THEN Allocate(Drop(1), NewArr(SubSeq(Items(Peek(0)), Arg + 1, Len(Items(Peek(0))))), "arr")
     ELSE Error

ObjectRest ==
  /\ At({"ObjectRest"})
  /\ LET src == Peek(Arg)
         taken == {PropKey(Args(Arg)[i]) : i \in 1..Arg}
     IN  IF IsObj(src)
         THEN Allocate(Drop(Arg + 1),
                       InsertAll(NewObj(<<>>), SelectSeq(OwnProps(heap[src[2]]), LAMBDA p : p.key \notin taken)), "obj")
         ELSE Error

(* ObjSet, DefineGetter and DefineSetter fill the object below key and value.*)
ObjectFill ==
  /\ At({"ObjSet", "DefineGetter", "DefineSetter", "SpreadObject"})
  /\ LET role == CASE Instr[1] = "DefineGetter" -> "get" [] Instr[1] = "DefineSetter" -> "set" [] OTHER -> "name"
         src  == Peek(0)
     IN  CASE Instr[1] # "SpreadObject" ->
                Change(Peek(2)[2], Insert(heap[Peek(2)[2]], <<role, EcmaString(Peek(1))>>, src), 2)
           [] Instr[1] = "SpreadObject" /\ IsObj(src) ->
                Change(Peek(1)[2], InsertAll(heap[Peek(1)[2]], OwnProps(heap[src[2]])), 1)
           [] OTHER -> Error

(* get_index reads no accessors; set_index does not make an array longer.    *)
GetIndex ==
  /\ At({"GetIndex"})
  /\ LET c == Peek(1)
         at == ArrayIndex(Peek(0), Len(Items(c)))
     IN  CASE IsArr(c) -> Leave(Append(Drop(2), IF at = 0 THEN VUndef ELSE Items(c)[at]))
           [] IsObj(c) -> Leave(Append(Drop(2), Lookup(heap[c[2]], PropKey(Peek(0)))))
           [] IsStr(c) -> LET i == ArrayIndex(Peek(0), Len(c[2]))
                          IN  Leave(Append(Drop(2), IF i = 0 THEN VUndef ELSE Chars(c[2])[i]))
           [] OTHER -> Error

SetIndex ==
  /\ At({"SetIndex"})
  /\ LET c == Peek(2)
         v == Peek(0)
         at == ArrayIndex(Peek(1), Len(Items(c)))
         Written(object) == /\ heap' = [heap EXCEPT ![c[2]] = object]
                            /\ stack' = Append(Drop(3), v) /\ frames' = Advanced
                            /\ UNCHANGED <<upvalues, caches, globals, control, pending, world>>
     IN  CASE IsArr(c) /\ at # 0 -> Written(NewArr([Items(c) EXCEPT ![at] = v]))
           [] IsObj(c) -> Written(Insert(heap[c[2]], PropKey(Peek(1)), v))
           [] OTHER -> Error

ArrayLen ==
  /\ At({"ArrayLen"})
  /\ IF IsArr(Peek(0)) THEN Leave(Append(Drop(1), VNum(Len(Items(Peek(0)))))) ELSE Error

-----------------------------------------------------------------------------
(* Iteration.  for-in takes the elements of an array and the names of an     *)
(* object, for-of a copy of the elements.                                    *)

ForInKeys ==
  /\ At({"ForInKeys"})
  /\ LET c == Peek(0)
         names == OwnProps(heap[c[2]])
     IN  CASE IsArr(c) -> Allocate(Drop(1), NewArr(Items(c)), "arr")
           [] IsObj(c) -> Allocate(Drop(1), NewArr([i \in DOMAIN names |-> VStr(names[i].key[2])]), "arr")
           [] OTHER -> Error

ForIterInit ==
  /\ At({"ForIterInit"})
  /\ IF Iterates(Peek(0))
     THEN Allocate(Drop(1), [kind |-> "iter", values |-> IterableValues(heap, Peek(0)), index |-> 0], "iter")
     ELSE Error

ForIterNext ==
  /\ At({"ForIterNext"})
  /\ LET it == Peek(0)[2]
         i  == heap[it].index
     IN  IF i < Len(heap[it].values)
         THEN /\ heap' = [heap EXCEPT ![it].index = i + 1]
              /\ stack' = Append(Drop(1), heap[it].values[i + 1]) /\ frames' = Advanced
              /\ UNCHANGED <<upvalues, caches, globals, control, pending, world>>
         ELSE /\ stack' = Drop(1) /\ frames' = Jumped(Arg)
              /\ UNCHANGED <<upvalues, store, control, pending, world>>

ForIterClose == At({"ForIterClose"}) /\ Leave(Drop(1))

-----------------------------------------------------------------------------
(* Resources.                                                                *)

DisposeMethod(v) ==
  LET own == IF IsObj(v) THEN Lookup(heap[v[2]], <<"name", "dispose">>) ELSE VUndef
  IN  IF IsFn(own) THEN <<[f |-> own, owner |-> VUndef]>>
      ELSE FindMember(heap, ClassOf(heap, v), "method", FALSE, "dispose")

RegisterDisposable ==
  /\ At({"RegisterDisposable"})
  /\ IF ~ IsNullish(Peek(0)) /\ DisposeMethod(Peek(0)) = <<>> THEN Error
     ELSE /\ disposables' = Append(disposables, Peek(0)) /\ frames' = Advanced
          /\ UNCHANGED <<stack, upvalues, store, handlers, natives, pending, world>>

(* dispose_scope pops that many resources, runs the method of each and fails *)
(* at the end with the first error.                                          *)
DisposeScope ==
  /\ At({"DisposeScope"})
  /\ natives' = Append(natives, [kind |-> "dispose", floor |-> Last(natives).floor, left |-> Arg, err |-> <<>>])
  /\ frames' = Advanced
  /\ UNCHANGED <<stack, upvalues, store, handlers, disposables, pending, world>>

DisposeNext ==
  /\ status = <<"running">> /\ pending = <<>> /\ Last(natives).kind = "dispose"
  /\ LET run == Last(natives)
         rest == Append(Front(natives), [run EXCEPT !.left = @ - 1])
         v == Last(disposables)
         stopped == [run EXCEPT !.err = IF @ = <<>> THEN <<[v |-> VUndef, thrown |-> FALSE]>> ELSE @]
     IN  IF run.left = 0 \/ disposables = <<>>
         THEN /\ natives' = Front(natives) /\ pending' = run.err
              /\ UNCHANGED <<frames, stack, upvalues, store, handlers, disposables, world>>
         ELSE /\ disposables' = Front(disposables)
              /\ CASE IsNullish(v) ->
                        /\ natives' = rest
                        /\ UNCHANGED <<frames, stack, upvalues, store, handlers, pending, world>>
                   [] ~ IsNullish(v) /\ (TooDeep \/ DisposeMethod(v) = <<>>) ->
                        /\ natives' = [rest EXCEPT ![Len(rest)].err = stopped.err]
                        /\ UNCHANGED <<frames, stack, upvalues, store, handlers, pending, world>>
                   [] OTHER ->
                        /\ Entered(DisposeMethod(v)[1].f, DisposeMethod(v)[1].owner, stack, v, <<>>, frames,
                                   Append(rest, [kind |-> "disposing", floor |-> Len(frames)]))
                        /\ UNCHANGED <<upvalues, caches, globals, handlers, pending, world>>

-----------------------------------------------------------------------------
(* The machine.                                                              *)

Init ==
  /\ \E p \in Programs : prog = Compiled(p)
  /\ heap = <<[kind |-> "fn", proto |-> Len(prog.protos), ups |-> <<>>]>>
  /\ stack = <<<<"fn", 1>>>> /\ frames = <<[fn |-> 1, ip |-> 1, base |-> 1, owner |-> VUndef]>>
  /\ natives = <<[kind |-> "top", floor |-> 0]>>
  /\ handlers = <<>> /\ cells = <<>> /\ open = <<>> /\ caches = <<>> /\ globals = <<>>
  /\ disposables = <<>> /\ pending = <<>> /\ heights = <<>> /\ out = <<>> /\ status = <<"running">>

Step ==
  \/ PushConstant \/ StackOp \/ UnaryOp \/ BinaryOp \/ InOp
  \/ DefineGlobal \/ GetGlobal \/ SetGlobal \/ LocalOp
  \/ GetUpvalue \/ SetUpvalue \/ CloseUpvalue \/ Closure
  \/ Jump \/ PushHandler \/ PopHandler \/ Throw \/ Catch \/ RunFails
  \/ CallOp \/ Return \/ Invoke \/ InvokeGot
  \/ VisitNext \/ VisitAnswered
  \/ BuildClass \/ NewOp \/ MakeNext \/ InstanceofOp \/ SuperOp
  \/ GetProp \/ SetProp \/ DeleteProp \/ GetIndex \/ SetIndex
  \/ NewCollection \/ ArrayAppend \/ ArrayRest \/ ArrayLen \/ ObjectRest \/ ObjectFill
  \/ ForInKeys \/ ForIterInit \/ ForIterNext \/ ForIterClose
  \/ RegisterDisposable \/ DisposeScope \/ DisposeNext

Height == Len(stack) - Top.base

Next ==
  \/ /\ Step
     /\ heights' = IF Executing /\ Site \notin DOMAIN heights THEN (Site :> Height) @@ heights ELSE heights
  \/ status # <<"running">> /\ UNCHANGED vars

Spec == Init /\ [][Next]_vars /\ WF_vars(Next)

-----------------------------------------------------------------------------
(* Properties.                                                               *)

VmTypeOK ==
  /\ Len(prog.protos) > 0
  /\ \A i \in DOMAIN frames : frames[i].fn \in DOMAIN heap /\ heap[frames[i].fn].kind = "fn"
  /\ Len(natives) > 0 /\ natives[1].kind = "top"
  /\ Len(pending) <= 1

(* Each frame's stack begins inside the one below it; a handler belongs to a *)
(* frame that is still there and to the code it runs, inner ones last, and   *)
(* none is left when the script has ended: an exception finds the try        *)
(* statement around it (PushHandler, PopHandler and the PopHandlers that     *)
(* break, continue and return are compiled to).                              *)
HandlersNest ==
  /\ pending = <<>> /\ status = <<"running">> /\ Last(natives).kind # "dispose" =>
       /\ \A i \in 1..(Len(frames) - 1) : frames[i].base < frames[i + 1].base
       /\ \A i \in DOMAIN handlers :
            LET h == handlers[i]
            IN  /\ h.frameLen \in DOMAIN frames
                /\ h.stackLen \in frames[h.frameLen].base..Len(stack)
                /\ h.target \in DOMAIN ProtoOf(frames[h.frameLen]).code
                /\ i > 1 => handlers[i - 1].frameLen <= h.frameLen /\ handlers[i - 1].stackLen <= h.stackLen
  /\ status = <<"done">> => handlers = <<>>

(* A slot means the variable the compiler gave it.  An open upvalue is a     *)
(* slot that is still there, and no slot has two: a variable that closures   *)
(* share stays one variable.  And the stack of a function is equally high    *)
(* every time it reaches an instruction, on whatever way.                    *)
SlotsStand ==
  /\ \A i \in DOMAIN open : cells[open[i]][1] = "open" /\ cells[open[i]][2] \in DOMAIN stack
  /\ \A i, j \in DOMAIN open : i # j => cells[open[i]] # cells[open[j]]
  /\ \A c \in DOMAIN cells : cells[c][1] = "open" => c \in Range(open)
  /\ Executing /\ Site \in DOMAIN heights => heights[Site] = Height
  /\ status = <<"done">> => open = <<>> /\ Len(stack) = 1

(* An inline cache whose object has not changed shape reads and writes the   *)
(* property that the instruction names, and one without an accessor.         *)
CacheSound ==
  \A s \in DOMAIN caches :
    LET instr == prog.protos[s[1]].code[s[2]]
        o == heap[caches[s].obj]
    IN  caches[s].gen = o.gen =>
          /\ caches[s].index \in DOMAIN o.props
          /\ o.props[caches[s].index].key = <<"name", instr[2]>>
          /\ ~ HasKey(o, <<IF instr[1] = "SetProp" THEN "set" ELSE "get", instr[2]>>)
          /\ instr[1] = "SetProp" => FindMember(heap, Lookup(o, CLASS_TAG), "set", FALSE, instr[2]) = <<>>

(* Every program ends: no jump leads back for ever, and no error is caught   *)
(* again by the handler that rethrows it.                                    *)
Halts == <>(status # <<"running">>)
=============================================================================
