------------------------------- MODULE Syntax -------------------------------
(* The syntax tree of yps-parser (crates/yps-parser/src/ast): one            *)
(* constructor per kind of node, without spans.  An optional child is a      *)
(* sequence of at most one node, so that two trees never compare a node with *)
(* anything but a node.                                                      *)
EXTENDS Naturals, Sequences

LOCAL INSTANCE TLC

None == <<>>
Some(x) == <<x>>
IsSome(o) == o # <<>>
Get(o) == o[1]

\* ast/literal.rs
Num(n) == [k |-> "num", n |-> n]
RawNum(raw) == [k |-> "rawnum", raw |-> raw]             \* a number not written as decimal digits
BigInt(n) == [k |-> "bigint", n |-> n]
RegExp(pattern, flags) == [k |-> "regexp", pattern |-> pattern, flags |-> flags]
Str(s) == [k |-> "str", s |-> s]
Bool(b) == [k |-> "bool", b |-> b]
Null == [k |-> "null"]
Undef == [k |-> "undef"]
Arr(es) == [k |-> "array", elements |-> es]
Obj(entries) == [k |-> "object", entries |-> entries]
NameKey(name) == [k |-> "name", name |-> name]
ComputedKey(e) == [k |-> "computed", e |-> e]
Prop(key, value) == [k |-> "property", key |-> key, value |-> value]
SpreadEntry(e) == [k |-> "spread", e |-> e]
GetterEntry(key, body) == [k |-> "getter", key |-> key, body |-> body]
SetterEntry(key, param, body) == [k |-> "setter", key |-> key, param |-> param, body |-> body]

\* ast/expr.rs
Id(name) == [k |-> "id", name |-> name]
Unary(op, e) == [k |-> "unary", op |-> op, e |-> e]
Binary(op, l, r) == [k |-> "binary", op |-> op, l |-> l, r |-> r]
Postfix(op, e) == [k |-> "postfix", op |-> op, e |-> e]
Grouping(e) == [k |-> "grouping", e |-> e]
Call(callee, args) == [k |-> "call", callee |-> callee, args |-> args]
Index(o, i) == [k |-> "index", o |-> o, i |-> i]
Member(o, name) == [k |-> "member", o |-> o, name |-> name]
OptMember(o, name) == [k |-> "optmember", o |-> o, name |-> name]
OptIndex(o, i) == [k |-> "optindex", o |-> o, i |-> i]
OptCall(callee, args) == [k |-> "optcall", callee |-> callee, args |-> args]
Conditional(c, t, f) == [k |-> "cond", c |-> c, t |-> t, f |-> f]
Arrow(params, body) == [k |-> "arrow", params |-> params, body |-> body]
FnExpr(name, params, body) == [k |-> "fn", name |-> name, params |-> params, body |-> body]
Template(parts) == [k |-> "template", parts |-> parts]
Spread(e) == [k |-> "spreadarg", e |-> e]
This == [k |-> "this"]
New(callee, args) == [k |-> "new", callee |-> callee, args |-> args]
Super == [k |-> "super"]
Quasi(raw, cooked) == [raw |-> raw, cooked |-> cooked]
TaggedTemplate(tag, quasis, exprs) == [k |-> "tagged", tag |-> tag, quasis |-> quasis, exprs |-> exprs]
Yield(arg, delegate) == [k |-> "yield", arg |-> arg, delegate |-> delegate]
Await(e) == [k |-> "await", e |-> e]
DynamicImport(e) == [k |-> "import", e |-> e]

\* is_async and is_generator of a function, is_await of `using`, and the decorators
\* of a class or member are fields only where they are set.
Has(node, field) == field \in DOMAIN node
AsyncIf(f, set) == IF set THEN f @@ [async |-> TRUE] ELSE f
GeneratorIf(f, set) == IF set THEN f @@ [generator |-> TRUE] ELSE f
AwaitIf(s, set) == IF set THEN s @@ [await |-> TRUE] ELSE s
Decorated(c, ds) == IF ds = <<>> THEN c ELSE c @@ [decorators |-> ds]
DecoratorsOf(c) == IF Has(c, "decorators") THEN c.decorators ELSE <<>>

\* ast/param.rs, ast/pattern.rs
Param(name, default, rest, pattern) ==
  [name |-> name, default |-> default, rest |-> rest, pattern |-> pattern]
P(name) == Param(name, None, FALSE, None)
PId(name) == [k |-> "id", name |-> name]
PArr(elements, rest) == [k |-> "array", elements |-> elements, rest |-> rest]
PObj(props, rest) == [k |-> "object", props |-> props, rest |-> rest]
PProp(key, value) == [key |-> key, value |-> value]
PDefault(p, e) == [k |-> "default", p |-> p, e |-> e]

\* ast/stmt.rs
Var(pattern, init, const) == [k |-> "var", pattern |-> pattern, init |-> init, const |-> const]
Let(name, init) == Var(PId(name), init, FALSE)
ExprStmt(e) == [k |-> "expr", e |-> e]
Block(stmts) == [k |-> "block", stmts |-> stmts]
Empty == [k |-> "empty"]
If(c, t, f) == [k |-> "if", c |-> c, t |-> t, f |-> f]
While(c, body) == [k |-> "while", c |-> c, body |-> body]
DoWhile(body, c) == [k |-> "dowhile", c |-> c, body |-> body]
For(init, c, update, body) == [k |-> "for", init |-> init, c |-> c, update |-> update, body |-> body]
ForIn(pattern, e, body) == [k |-> "forin", pattern |-> pattern, e |-> e, body |-> body]
ForOf(pattern, e, body) == [k |-> "forof", pattern |-> pattern, e |-> e, body |-> body]
ForAwaitOf(pattern, e, body) == [k |-> "forawait", pattern |-> pattern, e |-> e, body |-> body]
Break(label) == [k |-> "break", label |-> label]
Continue(label) == [k |-> "continue", label |-> label]
Labeled(label, body) == [k |-> "labeled", label |-> label, body |-> body]
FnDecl(name, params, body) == [k |-> "fndecl", name |-> name, params |-> params, body |-> body]
Return(value) == [k |-> "return", value |-> value]
Throw(e) == [k |-> "throw", e |-> e]
Try(body, param, handler, finally) ==
  [k |-> "try", body |-> body, param |-> param, handler |-> handler, finally |-> finally]
Switch(e, cases, default) == [k |-> "switch", e |-> e, cases |-> cases, default |-> default]
Case(e, body) == [e |-> e, body |-> body]
Using(name, init) == [k |-> "using", name |-> name, init |-> init]
Debugger == [k |-> "debugger"]
ImportDefault(local) == [k |-> "default", local |-> local]
ImportNamespace(local) == [k |-> "namespace", local |-> local]
ImportNamed(name) == [k |-> "named", local |-> name]       \* imported and local are the same name
Import(specs, source, attributes) ==
  [k |-> "import", specs |-> specs, source |-> source, attributes |-> attributes]
ExportNamed(names) == [k |-> "exportnames", names |-> names]
ExportDeclaration(s) == [k |-> "export", s |-> s]

\* ast/stmt.rs, the members of a class
Class(name, parent, members) == [k |-> "class", name |-> name, parent |-> parent, members |-> members]
ClassMember(role, name, static, params, body) ==
  [role |-> role, name |-> name, static |-> static, params |-> params, body |-> body, init |-> None]
Constructor(params, body) == ClassMember("constructor", "", FALSE, params, body)
Method(name, params, body, static) == ClassMember("method", name, static, params, body)
Getter(name, body, static) == ClassMember("get", name, static, <<>>, body)
Setter(name, param, body, static) == ClassMember("set", name, static, <<param>>, body)
Field(name, init, static) == [ClassMember("field", name, static, <<>>, <<>>) EXCEPT !.init = init]
StaticBlock(body) == ClassMember("block", "", TRUE, <<>>, body)

\* A call of a function known by its name: the shape most programs are made of.
Do(name, args) == ExprStmt(Call(Id(name), args))
=============================================================================
