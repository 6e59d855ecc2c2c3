# A TLA+ verification of the yoptascript implementation

yoptascript is a JavaScript dialect implemented in Rust: one parser, two
backends (a tree-walking interpreter and a bytecode machine) and tools around
them. This directory models the parts whose correctness depends on the *order*
of things (timers, promises, suspended functions, aborts, imports, the threads
of the debugger) and the parts that translate programs and must not change what
they mean (the compiler and its machine, the parser, the formatter). TLC checks
the models on small instances; TLAPS proves the central invariants of all but the
translating parts for every value of the constants.

Paths are relative to `crates/` of the repository; `I/` stands for
`yps-interpreter/src/interpreter/`, `S/` for `yps-interpreter/src/stdlib/`.

## 1. The system

| Component | State it keeps | Operations | Hard behaviour | What makes it correct |
|---|---|---|---|---|
| Macrotask queue, `I/event_loop.rs` | heap by (deadline, seq), cancelled ids, counters | schedule, cancel, pop, re-arm an interval, sleep | stale heap entries, cancelling inside one's own callback, callbacks nested by blocking awaits | order of firing, one tick per timer, cancellation is final, every live timer fires |
| Promises, microtasks, coroutines, `I/promise_rt.rs`, `S/promise.rs`, `I/call.rs` | per promise: state and callbacks; the microtask queue; suspended bodies; await depth | construct, resolve, reject, then/catch/finally, try, async call, await (suspending or blocking), queue microtask | adoption of promises by promises, re-entrant draining, errors in the middle of a drain | settle once, no lost or doubled wakeup, a coroutine is resumed only while suspended, programs end |
| Aggregates, `S/promise.rs:157-342` | kind, results, remaining, settled | всех, всехУстаканить, любой, гонка | items settled before, while and after being attached | exact count, justified outcome, settles |
| Event loop, `I/event_loop.rs:351`, `I/promise_rt.rs:241` | the two queues together | run macrotask, drain, sleep, blocking await | the same queue is popped from nested awaits | timers nest only under awaits, waits keep their timers |
| Abort signals, `S/abort.rs` | per signal: aborted, reason, listeners, promise | abort, subscribe, unsubscribe, any, timeout, guarded timers and waits | listeners that abort, wait or subscribe during an abort; weak links | each listener fires once, nothing made with a signal outlives its abort |
| Generators, `I/generator.rs` (bodies of async functions are lowered first, `I/async_lower.rs`) | explicit stack of frames, scope stack, pending bind/send/return/label | next/return/throw, pump, unwind | try/finally across suspensions, labels, delegation | scopes match frames, finally runs once, errors are caught where they should be |
| Module loaders, `I/module_loader.rs`, `yps-vm/src/vm.rs:2399` | cache, exports, deferred links; files being loaded | load, run, link | import cycles, failing files, two implementations | a file is evaluated once, links end with the exported value, both backends agree |
| Interpreter core, `I/eval_expr.rs`, `I/exec_stmt.rs`, `I/class.rs`, `environment.rs` | scope stack, heap | evaluate, execute, call | early exits through scopes, getters and callbacks in the middle of an expression | the same as the machine's |
| Bytecode compiler and machine, `yps-vm/src/` | value stack, frames, handlers, open upvalues, inline caches, resources | compile, run, call, throw, close, dispose | every way out of try, loops and scopes is compiled apart; nested runs of the machine | handlers and slots are where the compiler counted on them, parity with the interpreter (ADR-0001) |
| The machine's promises and timers, `yps-vm/src/promise.rs`, `yps-vm/src/vm.rs:1235-1476` | the same as the interpreter's, and how many coroutines are in progress | the same | an await suspends the region of a body as a whole, blocks outside of all bodies, and is refused in between | it does nothing the interpreter could not have done |
| Array methods, `yps-vm/src/methods.rs`, `S/array.rs` | a copy of the items, the walk through it | 33 methods, 14 of them with callbacks | callbacks that change the array, throw, or call such a method | both libraries agree |
| Lexer and parser, `yps-lexer/src/`, `yps-parser/src/` | position, depth, template stack, errors | tokens, trivia, expressions, statements | `/` and `}` read by context, arrow heads by backtracking | what was written is what is read |
| Formatter, `yps-fmt/src/` | the tree, comments by statement | read, attach comments, print, verify | parentheses and comments are not part of the tree | same program, same comments in the same places, stable, refuses only what it cannot print |
| Debug adapter, `yps-dap/src/` | session state, deferred requests, pause flag, breakpoints | launch, continue, step, pause, inspect, terminate | two threads and a client | one answer per request, one token to go on, steps land, nothing is left running |
| Collectors, `I/gc.rs`, `yps-vm/src/gc.rs` | registries of weak references | mark, clear | roots held by queues and natives | nothing reachable is cleared |
| REPL, `yps-cli/src/repl.rs` | one interpreter over many inputs | evaluate an input, reset after an error | tasks left from earlier inputs | an error does not leak into later inputs |
| Language server, linter, JS generator, CLI, wasm, VS Code | documents, or none | functions of a text | none but data | coverage of the grammar |

How they interact: the CLI, the REPL, the debug adapter and the playground own
one interpreter and call `run`. `run_internal` (`I/mod.rs:206`) executes the
script and then `drive_event_loop`. Script code calls natives, which enqueue
into the two queues; both queues call script code back. `do_await` closes a
cycle: code that blocks drains both queues underneath itself. Async functions
and generators are frame machines that the promise layer resumes. Abort
signals hold listeners that cancel timers and reject promises. Nothing in the
interpreter runs concurrently (all state is `Rc<RefCell<_>>`); interleaving
comes from callbacks. The debug adapter alone has threads: a session, a
debuggee that runs the interpreter, and whoever reads the client. The bytecode
machine has promises, queues, timers and an event loop of its own, written a second
time (`yps-vm/src/promise.rs`) without code in common with the
interpreter's, and what both backends must agree on is what a program prints, in
which order, and how it ends.

## 2. The modules

```
Timers ───────────────┐
                      ├── EventLoop ── AbortSignals
PromiseJobs ──────────┘
   │  └── Aggregates ── (with EventLoop) VmPromises
   └── implements PromiseContract

GenMachine        DapSession        ModulePrograms ── ModuleLoader ── ModuleBackends

Syntax ─┬─ JsValues ─┬─ Compiler ──────────────┐
        │            ├─ VmArrays ── Vm ────────┤
        │            └─ StdArrays ── Interp ───┼── MCVm
        ├─ VmPrograms ─────────────────────────┘
        │
        ├─ Precedence, Lexer ─┬─ Parser ───────┐
        │                     └─ Printer ──────┼── MCFormatter
        ├─ Formatter ──────────────────────────┤
        └─ FormatSources, FormatTrees ─────────┘
```

### Queues, promises, signals, generators

* **Timers** is `MacrotaskQueue` and the timer natives. `heap` keeps cancelled
  entries as the code does; `PopNext` is `pop_next_blocking`, with the wake-up
  time chosen as `next_deadline` chooses it (any live entry may stand first in
  the array once the least entry is cancelled: `WakeAt`). `running` is the stack
  of callbacks in progress, which the code keeps on the host stack.
* **PromiseJobs** is the promise table, the microtask queue and the calls in
  progress. One record type, `Act`, stands for a callback registered with a
  promise, a queued microtask and a call on `stack`; `op` tells them apart as
  the variants of `Value` do in `call_function`. Script code is arbitrary: at
  each point it may call any builtin in `Api` with any promise it can see,
  return, throw, or fail with a host error (a `RuntimeError` without `thrown`,
  which the runtime treats differently throughout). A blocking await is a call
  "await" on the stack; everything above it was started by its drain. Every
  handler is one action, with all the settling, registering and queueing it does.
* **PromiseContract** is what a program may rely on: promises are created,
  settle once, and never change again. PromiseJobs implements it, and so do
  Aggregates, EventLoop and AbortSignals, which add ways of settling them.
* **Aggregates** adds the state of the combinators; attaching is a function on
  the items' indices, as the loop in `run_aggregate` is. A combinator of nothing
  queues its outcome at once, and is from then on what a derived promise is.
* **EventLoop** joins PromiseJobs and an instance of Timers. `StartTimer` is
  the pop in `drive_event_loop` and in `do_await`; `Wake` is the task of a timer
  promise.
* **AbortSignals** adds signals. `AbortState` takes the listeners and pushes a
  call "abort"; `FireListener` fires the next of them, so that script listeners
  run *inside* the abort and may do anything, abort other signals included.
  `SignalAny` is the whole loop of `signal_any`: `Asked` are the places before the
  first aborted source at which a source was asked to tell the combined signal.
* **VmPromises** is the same runtime in the bytecode machine: `promise.rs` and the
  asynchronous parts of `vm.rs`. It extends Aggregates and EventLoop for their
  variables and for the vocabulary of callbacks and calls, which the two
  implementations share, and defines every action anew from the machine's code:
  how a promise is settled and adopted (`SettlePromise`, `Follow`), subscribed to
  (`Subscribe`), how combinators attach and count (`AttachEach`, `ApplyCounts`,
  `ApplyDecides`), how its own queue of timers is popped (`PopReady`, `MayWakeFor`).
  `CoroutineDepth` counts the bodies in progress, by which `Op::Await` decides
  whether it suspends, blocks or is refused. That every action is written anew is what
  makes comparing it with the interpreter's modules, action by action, worth something.
* **GenMachine** is the frame machine of generators and async functions.
  `frames` is `GenState::frames`; a block's statements are arbitrary, so the body
  may execute any statement (`Statement`) or end at every point. `Pump` has one
  action per kind of frame, `Unwind` takes one frame per step with the completion
  in `unw`, `ResumeSend` and `ResumeAbrupt` are the caller. A completion carries,
  as history, the frame it was meant for when it arose (`target`, computed from
  the stack by the rules of the language and never by the unwinding code), and
  whether it is `lost`: its label stands in the program but in no frame. A frame
  carries, as history, `names`, all the labels before its statement, of which the
  machine keeps one or none;
  `scopes` names the frame that pushed each scope. `sent` is `pending_send`,
  reduced to which suspension it answers. The module stands alone: PromiseJobs
  sees a coroutine only as something that suspends, resumes, finishes or throws.

### Modules and the debugger

* **ModulePrograms** describes the programs that are loaded: a file is a
  sequence of the statements that matter between files (imports of each form,
  its own declaration, exports, a print of an imported name, a timer, a throw).
* **ModuleLoader** is the interpreter's loader: a stack of interpreters, each
  with a scope of its own, a shared cache that hands out partial exports to
  those inside a cycle, and links that rebind the importers' names once the
  file has run. **ModuleBackends** runs the same program on the machine's loader
  (no links, an empty table inside a cycle, no event loop for imported files).
* **DapSession** has three parties: the client (`Ask`, `HangUp`), the session
  thread with the one queue into which requests and reports both go (one action
  per request; `Defer` puts off those that must wait until the program stops), and
  the debuggee (`Statement` is `on_statement`, `Recv` its wait for a command).
  The program is arbitrary: its next statement may be on any line and at any
  depth of calls, it may run for any time, or for ever, in bodies of generators and async
  functions, which never call the hook (`Quietly`), and it need not end.

### Compiler, machine and interpreter

* **Syntax** builds the trees of `yps-parser/src/ast`, **JsValues** the values
  both backends share and their conversions; names, texts and numbers are small.
* **Compiler** is `compiler.rs` as a fold over the tree that threads the
  compiler's state: locals with their depth, upvalues, loop contexts with the
  jumps to patch, try contexts. It ends in the code the machine runs.
* **Vm** is `vm.rs`, one action per group of instructions. The calls that Rust
  code makes of script code (getters, dispose methods, field initialisers,
  callbacks) are nested runs: `natives` holds how many frames are below each,
  and what becomes of its result. `pending` is an error on its way to a handler.
* **VmArrays** and **StdArrays** are the two libraries of array methods. In the
  machine a method with a callback is a *visit*, stepped by `VisitNext` and
  `VisitAnswered`, so that its callback is run by the machine itself.
* **Interp** is the tree-walking interpreter as a function of a program: what it
  prints and how it ends, with the scope stack the code has at every point,
  also where an error leaves it higher than it was. **VmPrograms** are the
  programs; `MCVm` compiles each, and compares at its end with `Interp`.

### Parser and formatter

* **Lexer** reads *atoms*, a word, digit, blank or sign each. It is
  `lexer.rs` with its modes: what a slash means after the token before it, the
  brace depth of every open interpolation, the longest operator. **Precedence**
  holds the two tables, the parser's and the printer's.
* **Parser** is the recursive descent of `yps-parser/src/parser` with its
  limits, recovery and backtracking; a tree carries the position of every
  statement, by which comments are attached. **Printer** turns a tree into a
  document of pieces and `Render` writes it, on one line where a list fits.
* **Formatter** is `format_source`: read, attach, print, verify, and once more
  on what it wrote. Its parser and printer are parameters, given the two modules
  by the configurations. **FormatTrees** and **FormatSources** are what it is
  tried on; sources are written with parentheses around everything, so that
  neither precedence table takes part in saying what they mean.

`MC*` modules choose the small instances; `*_proofs` hold the theorems.
`PROJECT.json` maps every definition that models code to the lines it models.

## 3. What the runs check

| Run | Questions | Instance |
|---|---|---|
| `promises` | `OneObligation` every derived or async promise has exactly one thing that will settle it until it is settled, none afterwards; `SuspendedAwaitsResume`, `NeverFulfilledWithPromise`, `ContractSpec` (PromiseJobs implements PromiseContract); `ProgramEnds` | three promises, four calls of any builtin, two nested awaits |
| `aggregates` | `ItemsAccounted` the remaining count is exact; `OutcomeJustified` each outcome is one the items justify; `AggregateSettles` | two items, three promises, four calls |
| `loop` | `FireOrder` tasks start in (deadline, seq) order; `CancelSticks` a cancelled timer neither starts nor re-arms; `TimersAccounted` callbacks of timers nest only under blocking awaits and a wait is pending exactly while its timer is; `LoopProgramEnds`, `AwaitResumes` | two promises, three schedulings, four calls, two nested awaits |
| `abort` | `ListenersOnce`, `CombinedFollows`, `AbortReaches` once an abort has returned nothing made with its signal is still to fire, `AbortCompletes` | three signals, five calls, two listeners per signal, two sources of a combined signal, two timers |
| `gen` | `CompletionLands` an unwinding ends where the language means its completion to go or in a finally inside of that, unless the machine has lost the label; `ScopesMatch` the scopes are those of the frames; `FinallyOnce`; `AwaitAnswered` for await takes only answers to its own awaits | five frames: two statements of any kind nested in each other around blocks, each with or without the one label |
| `modules` | `EvaluatedOnce` a file is evaluated again only after a failure; `LinkedFinal` what was imported in the middle of a cycle ends with the exported value; `BackendsAgree` | 30 080 programs of an entry, two files and a data file |
| `dap` | `OneToken` the right to go on is one token; `RequestsAccounted`; `StepLands` a step runs past no statement that calls the debug hook and should have stopped it; `PauseStops`; `TerminateStops` | five requests, two lines, one call deep, one breakpoint that moves to the next statement |
| `vm` | `HandlersNest` a throw finds the try around it; `SlotsStand` a slot is the variable the compiler gave it, the stack is equally high every time an instruction is reached; `CacheSound` inline caches are never stale; `Parity` the machine prints and ends as the interpreter does; `Halts` | 303 programs |
| `vm_promises` | `RunsAsInterpreter` the machine's runtime, with promises, combinators and timers together, takes only steps that the interpreter's (Aggregates and EventLoop) could take; it halts only when nothing is left to do (deadlock) | two promises, three calls of any of 21 builtins, two schedulings, two items of a combinator |
| `fmt` | `ReadsBack` the parser reads the tree a text was written from; `Accepted` the formatter refuses just the trees its printer cannot write; `Stable` what it wrote it accepts and leaves alone; `CommentsKeepPlace` | 52 kinds of expression in every place one can stand, every kind of statement in three writings, two comments of each kind at any two blanks; two rounds |

`gen_finally` and `fmt_params` show the disagreements of section 4.

**Bounds.** `MaxCalls` counts builtin calls of the whole program, which may
return, throw or fail in any callback. Every hazard of the queues listed in
`PROJECT.json` needs at most three promises and four calls (settle, adopt,
register, block); two nested awaits are the least that make one await return
before the other. Five frames hold a try in a try, a loop in a try, a try in a
loop and a loop in a loop, each with its block: the least in which one completion
passes one frame and lands at another. A third signal lets a combined one stop at
its second source, aborted already, with its link left at the first, which may be
aborted in turn. Three files make a cycle that does not
contain the entry, one that does, and a second importer of a failed file. Five
requests configure the program, start it, stop it, resume it and leave one to be
put off; `MaxQueue` keeps the client from running ahead, the debuggee's reports
are not counted. A formatted list is broken in lines at `MaxWidth` 60 atoms, which
the longer programs exceed; `MaxParseDepth` and `MaxChainLen` are the code's
limits, scaled down and never reached by these sources.

The machine has no limit on nested awaits (`MAX_AWAIT_DEPTH` is the interpreter's
alone); `vm_promises` sets `MaxAwait` to `MaxCalls`, so that a program cannot reach it,
and `DepthAssumption` states that. Three calls are enough to adopt a promise, to await it
and to settle it from a timer or a combinator, because a timer promise is settled without a
call; every disjunct of the machine's steps is taken. A fourth call or a third promise
is more than the time of the run allows: the agreement of the two runtimes is checked on
a smaller instance than the properties of each.

The programs of `vm` are: a function with one try statement (165: what leaves it
times what its catch and finally do times the loop around it), with two nested ones
(30), one program for each construct and its neighbours (48), and for each
method of arrays with a callback one whose callback plainly answers, pushes,
shifts, throws, or runs another such method that throws (60). They avoid what the two backends are
known to do differently (section 4).

Each property is shown to notice a plausible fault of the code in the run's own
instance: the faulty variants stand beside the definitions they replace.

**Fairness.** The interpreter is one thread that never pauses: while a
microtask, a due timer or a settled await is there, it takes it. Script code
returns: the runs assume weak fairness of `Return`, so a callback that loops
for ever is not considered, and neither is a program that makes calls for ever
(`MaxCalls`). An interval that nobody cancels keeps a program running; the
liveness properties except it as `Stuck`, the state in which the bounds stop it
from re-arming. The bytecode machine is one thread too, with weak fairness of
its only step in `vm`; `vm_promises` has safety properties only. In the debugger the session and the debuggee are threads that the
operating system runs; `DapFairness` says so of each of their steps. Of the program
it says only that it goes on while it runs code that calls the debug hook
(`~quiet /\ Goes`). Once it has gone where the hook is not called it may stay there
for ever, and `PauseStops` and `TerminateStops` except just that (`OutOfReach`). The client need never ask for anything, and the program need not end:
deadlock is not checked there because the client may stop. The loaders and the
formatter are functions of their input, with safety properties only; their runs
end, so deadlock is not checked either.

**Type invariants.** `TimerTypeOK`, `PromiseTypeOK`, `GenTypeOK`, `DapTypeOK` and
`VmTypeOK` hold in the state spaces of the runs of their modules (`TM!TimerTypeOK` in
that of `loop`); all but the last are proved. The configurations leave them out and name what could be wrong in the code.

## 4. Disagreements found

Two runs end in a violation:

| Run | What the code does | What it disagrees with |
|---|---|---|
| `gen_finally` | a return that has run one finally block clears the frames, so the finally blocks around it do not run (`I/generator.rs:432`) | `docs/grammar.md:3`, semantics mirror ECMAScript |
| `fmt_params` | a function with a pattern as a parameter is written with the parser's made-up name instead, and the round trip check does not compare patterns (`yps-fmt/src/normalize.rs:219`) | `README.md:39`, the formatter never silently changes semantics |

The passing properties are stated for what the code does. `OneObligation`
excepts the promises whose settling call failed with a host error (`dropped`),
`FireOrder` allows the oversleeping of `next_deadline`, `FinallyOnce` excepts the
return of `gen_finally`, `ScopesMatch` the runs in which a for initialiser or the
closing of an asynchronous iterator failed (both leave a scope behind),
`CompletionLands` the completions whose label the machine has lost and the condition
of a do-while, `PauseStops` and `TerminateStops` a program that stays where the
debugger does not reach it, `AggregateSettles` a program left before its queue ran,
`RequestsAccounted` the second answer to a configurationDone without a program.

Further behaviour that the models contain and that no run singles out:

*Promises and timers.* A promise resolved with a pending promise can still be
settled by a second call of its resolve function (`I/promise_rt.rs:55`). A host
error in an async body leaves the function's promise pending for ever
(`I/promise_rt.rs:200`). Cancelling a number no timer has yet kills the timer that
draws it later (`I/event_loop.rs:73`). A wait made with a combined signal that the
program does not keep is not rejected when a source aborts (`S/abort.rs:44`). A return at
the top level of a program leaves the interpreter before its event loop
(`I/mod.rs:230`): its timers and microtasks never run (`EndScript`). The machine runs them
(`yps-vm/src/vm.rs:153`).

*Generators.* An error in a loop's condition, update or pattern, or in a
`yield*`, leaves the machine past every try around it and the generator can still
be resumed (`FrameFails`). Labels are recorded only for blocks and loops, one each
(`I/generator.rs:742`): a break to a label on an if, a try or a switch, to any but the last
of several labels, or from within a switch to a statement around it
(`I/generator.rs:793`), which forgets the label, ends at another statement or in
an error (`lost`, `StmtJump`, `StmtSwitchJump`). `continue` in a do-while runs the body again without
its condition (`I/generator.rs:933`, `UnwindContinue`, `DoWhileStep`). ECMAScript, which
`docs/grammar.md:3` says the semantics mirror, has none of these: `CompletionLands` computes the
target of every completion by its rules, from all the names a statement has, and
excepts the lost ones by name. A break without a label inside a switch is the loop's around it,
in the tree walker too. A throw that the inner generator of a
`yield*` swallows is thrown on (`UnwindDelegate`); for-of does not close its
iterator.

*Debugger.* Only `exec_stmt` calls the debug hook (`I/exec_stmt.rs:20`), although
`yps-dap/src/lib.rs:5` and `breakpoints.rs:8` speak of every statement. What the
coroutine machine runs itself (the loops, branches, tries, awaits and returns of an
async function or a generator) and the statements of imported files pass it by:
breakpoints and steps do not see them, a pause waits until one has the hook again,
and a body that loops there for ever can be neither paused nor ended (`Quietly`).
A coroutine's body counts its depth from the bottom, so a step over may stop
inside it. The error that ends a program when the client goes can be caught by
the program (`Fails`).

*Modules.* Inside a cycle the interpreter hands out the exports so far and the
machine an empty table (`yps-vm/src/vm.rs:2405`). The machine does not run the
timers of imported files, and drops an export of a name that is not defined.
`BackendsAgree` is stated for programs without these (`Tame`).

*Machine and interpreter.* `Parity` is checked on programs without the following:

- `break`, `continue` and `return` inside a catch part take one handler too many
  off, and one inside a try inside a finally skips an outer finally
  (`compiler.rs:1363-1380`); a value returned through a finally that declares
  variables is taken from one of their slots (`compiler.rs:463`); the interpreter
  ignores `break` and `continue` in a finally (`I/exec_stmt.rs:238`).
- In the machine any error in an async body rejects the function's promise
  (`yps-vm/src/vm.rs:1807`); in the interpreter one that is not a thrown value goes to
  the caller and leaves the promise pending (`I/promise_rt.rs:200`). An await in a callback
  that Rust code calls inside an async body is an error in the machine
  (`yps-vm/src/vm.rs:220`), where the interpreter blocks. `README.md:109` promises full
  parity. `RunsAsInterpreter` does not see either of the two, because script code is arbitrary in
  both models: the body could have thrown a value of its own there.
- `using` is disposed by the machine only at the normal end of a block, by the
  interpreter in blocks but not at the top level.
- The interpreter leaves a scope behind when the body of a for, for-in or for-of
  fails, and when arguments are bound with an error.
- The interpreter wants as many arguments as there are parameters without
  default, takes numbers only in arithmetic, and calls a function equal to
  nothing, not even itself (`value.rs:1285`, so neither `===` nor `indexOf` finds
  it); the machine does none of these.
- A pipeline evaluates its callee first in the machine; a function expression's
  own name is unbound there; labels on for-in and for-of are not loops there; a
  `break` before the declaration that is captured leaves its slot open.
- Assignments to constants are found at different times, and a temporal dead
  zone is kept by the interpreter only.
- Classes: a class as a callback is constructed by the machine and refused by
  the interpreter; `super` in an arrow or as a value, a local class that names
  itself, `typeof` of a class, and a derived class without a constructor differ.

*Formatter.* It refuses what its round trip does not find again, so these cannot
be formatted at all: a branch that is a single statement, an arrow whose body is
an object in parentheses, operators `*` `/` `**`, unary and `await` where a
callee, object, tag or postfix operand stands, `+` and `-` before `++`, a `new`
whose callee is a call, index, function or import, `yield` on the right of an
assignment or in a conditional, text or keyword keys of an object, a regular
expression as a statement after a block (`Refused`, `Unprintable`). It refuses two
comments behind one statement and a comment behind the brace of a branch.
Comments inside an expression move to the next statement.

## 5. What is proved

Each theorem holds for every value of the constants: any number of promises,
calls, timers, nested awaits, requests, frames, files or statements.

| Theorem | Establishes |
|---|---|
| `Timers_proofs!TimersCorrect` | the queue by itself: types, order and `OneTick` (no timer has two ticks) |
| `Timers_proofs!CancelIsFinal` | the queue by itself: what is cancelled stays cancelled |
| `PromiseJobs_proofs!PromisesCorrect` | types, `NeverFulfilledWithPromise` and `PairedCallbacks` (callbacks wait in matching pairs) |
| `PromiseJobs_proofs!NoWakeupLost` | `OneObligation` |
| `PromiseJobs_proofs!SuspendedUntilResumed` | `SuspendedAwaitsResume` |
| `Aggregates_proofs!AggregatesAccounted` | `ItemsAccounted` |
| `Aggregates_proofs!OutcomesJustified` | `OutcomeJustified` |
| `Aggregates_proofs!AggregatesCorrect`, `AggregatesWake` | what was proved of promises holds in programs with combinators: types, `NeverFulfilledWithPromise`, `PairedCallbacks`, `OneObligation`, `SuspendedAwaitsResume` |
| `PromiseJobs_proofs!PromisesImplementContract`, `EventLoop_proofs!LoopImplementsContract`, `AbortSignals_proofs!AbortsImplementContract`, `Aggregates_proofs!AggregatesImplementContract` | `ContractSpec`: every step of each of these systems is a step of PromiseContract or leaves its variable alone |
| `EventLoop_proofs!TimersMatch` | `TimersAccounted` |
| `EventLoop_proofs!LoopKeepsOrder`, `LoopCancelIsFinal` | `FireOrder`, `CancelSticks` |
| `EventLoop_proofs!LoopLosesNoWakeup` | what was proved of promises by themselves holds of the two together |
| `AbortSignals_proofs!AbortsFireOnce`, `AbortsCombine`, `AbortsReach` | `ListenersOnce`, `CombinedFollows`, `AbortReaches` |
| `AbortSignals_proofs!AbortsLoseNoWakeup`, `AbortsKeepOrder`, `AbortCancelIsFinal` | what was proved of promises and of the queue holds with signals: `OneObligation`, `SuspendedAwaitsResume`, `FireOrder`, `CancelSticks` |
| `GenMachine_proofs!GenTyped` | types |
| `GenMachine_proofs!ScopesFollow` | `ScopesMatch` |
| `GenMachine_proofs!ItemsAnswer` | `AwaitAnswered` |
| `GenMachine_proofs!FinallyBegins`, `EveryCompletionLands` | `FinallyOnce`, `CompletionLands` |
| `ModuleLoader_proofs!LoadedOnce` | `EvaluatedOnce` |
| `ModuleLoader_proofs!LinksFinal` | `LinkedFinal` |
| `DapSession_proofs!TokenHeld` | types, `OneToken` |
| `DapSession_proofs!StepsLand`, `RequestsKept` | `StepLands`, `RequestsAccounted` |

*Timers.* `FireOrder` is not inductive alone: the invariant (`Issued`) adds that
ids and sequence numbers in use are below the counters they are drawn from
(heap and stack ids below `nextId`; heap sequence numbers and that of the last
started task below `nextSeq`) and that the clock has reached the deadline of the
last started task. A popped entry is the least of the live ones, whatever the
queue slept on; new deadlines are not before the clock. The theorems on the queue are stated
under `TimerBounds` (its bounds and delays are natural numbers), which the
assumptions of EventLoop give, and carry over to the loop because each of its
steps is a step of the queue or leaves it alone.

*PromiseJobs.* The invariant `PromiseInv` says that each promise record is
sound by itself (callbacks paired, no promise inside a fulfilled one) and that
whatever waits in the queue or on the stack names only promises of the table
with a side and a value of the right kind. Lemmas establish that the operators
`Settled`, `Registered`, `Jobs` keep sound tables sound; each action then has one
step. `TableStep` says what a step may do to the table: nothing that shows, or
one birth, or one settlement. `TableContract` turns it into a step of PromiseContract,
once for the four systems that create and settle promises.

*Obligations.* `OneObligation` speaks of cardinalities over the lists of
all promises, the queue and the stack. The proof counts up to two instead
(`Load` for a sequence, `Held` for the table, joined by `Plus`), which is enough
to tell none, one and too many; lemmas say what settling, registering, creating
and returning do to the counts. `ObligationInv` adds to `PromiseInv`: a promise of
a chain or an async function that is pending and not dropped is owed one thing,
a promise not made yet or settled by its timer nothing (`Owing`); only pending
promises have callbacks and only async functions are resumed (`Shape`), without
which a list that is thrown away, or a resumption of something else, could hide
a wakeup; and what the queue called runs on a bare stack or on a blocking await
(`Launched`), so that an error which escapes it ends that await and nothing that
still owes.

*Aggregates.* `AggInv` is `ObligationInv` with the aggregates left out of what is
owed, for they owe their handlers something else, and `Kept`. A handler waits with its
item (`WaitsWell`) and is queued with what the item came to (`QueuedWell`), without
which the right number of results could still be the wrong ones. While an aggregate is
undecided its promise is pending, each item not counted has one handler and the
others none, nothing counted decides it, and `remaining` counts the rest
(`Undecided`). Once it is settled the items justify its outcome (`Justified`), for
ever, because settled items stay as they are. Handlers are counted with `Load` and
`Held` as wakeups are, by aggregate and item, so that a promise given twice has two.
`run_aggregate` attaches to any number of items in one step: a recursive function on
their indices. That this function is a chain of `Attach` steps (`ChainExists`), and
what a chain keeps (`AttachedAll`), follow from the least index at which they would
fail, since the library's induction theorems cannot be instantiated here. Handlers that arrive
after the aggregate has settled find it settled and change nothing.

*EventLoop.* `LoopInv` joins the invariants of both parts with what relates them.
`Nests`: an increasing numbering maps the tasks in progress onto the timer calls
of the stack; a timer's call is the first or stands on a blocking await, from
which the bound on nesting follows. `Timed`: a promise that waits for a timer has
one, scheduled or running, and no other promise has. The steps of PromiseJobs
are shown once to move the stack only in ways that keep this (`PromiseMove`); the
obligations of PromiseJobs carry over because nothing but its timer settles a
promise of подождать.

*AbortSignals.* A signal settles promises and cancels timers from outside, so what
the loop keeps (`LoopBase`) has a parameter: with {"timer"} only a timer settles a
promise that waits for one, as in EventLoop, where `Timed` is kept too; with {}
something else may, which is what holds here. `SignalInv` adds what the signals keep.
`Tidy`: tokens of a list are distinct and below the signal's counter, only live
signals have listeners, the aborts in progress are of different, aborted signals,
and a listener refers to something it may act on (`Apt`). `Tells(s, what, ref)`: while s is live a
listener of it does `what` to ref, and once it is aborted that listener is still to
be fired by an abort in progress. A combined signal is told by each source
(`Follows`); a timer or promise made with a signal is told by it, or is over
already (`Guarding`). When an abort returns its list is empty, so nothing is told
by it any more, which is why all that was made with its signal is over. A listener
that is fired leaves the list in the step that does what it is for. `Numbering` says that
ids start at one, so that no timer is mistaken for the absence of one, and
`ForTimeouts` that only signals made by a timeout are aborted by a timer.

*GenMachine.* `GenInv` describes the stack of frames as the machine leaves it
between two entries: each frame stands on one that can hold it, an unwinding has
a target its completion was aimed at when it arose (`AimOK`), completions saved by
finally blocks are aimed outside of them (both unless the label is lost), and the machine waits for an answer
only at an await statement. `ScopesMatch` splits into which scopes there are and
their order. `MeantFacts` relates the two searches: the last statement the language
lets a jump end at, by all its names, is the last frame the machine would stop
at, by the one label it keeps, whenever that label is the one named; both are
greatest indices, found by the least-number principle for sets.

*ModuleLoader.* `LoadInv`: the frames above the entry load distinct files, each at
the import of the frame above, with the exports the cache shares; a file is
loading in the cache exactly while a frame loads it. `LinkInv`: every scope belongs
to a file, and a name whose source has not finished has its link. `LinkedFinal`
needs a hypothesis, `OneSource`: a program imports a name from one file only. A
name imported from two files keeps the link of the first, which then overwrites
the second binding when the first file finishes. The run assumes `OneSource` of its programs too (`MCOneSource`).

*DapSession.* `TokenInv` says who holds the turn and that a step's target (`Aim`) is
the depth of the request that asked for it; `Listed` that each request read is
queued, being handled, parked or answered, and only one of these.

Assumptions: those named in the modules (bounds are natural numbers, those of VmPromises
leave the interpreter's limit on awaits out of reach, plain
values are no promises, the period `Once` is no number, delays are natural
numbers, lines that hold a statement are lines of the program, "own" is no file,
no label is the anonymous one). TLC evaluates them in the runs.

Model-checked only:

- `AbortCompletes` and the other liveness properties: fairness and ENABLED are
  beyond the prover;
- ModuleBackends, whose property relates two executions;
- that VmPromises implements Aggregates and EventLoop (`RunsAsInterpreter`). Where it does, what
  is proved of them (`OneObligation`, `ItemsAccounted`, `OutcomeJustified`, `FireOrder` and the
  rest) is true of the machine too, since each is a formula over the same variables;
  but that step rests on the bounded instance of the run;
- the bytecode machine, compiler, interpreter, lexer, parser, printer and formatter:
  their recursive operators are out of the prover's reach.

## 6. What is not modelled, and the plan

- *Async lowering, the collectors, finalization registries, weak references*:
  reference counts are abstracted to the program dropping its last reference
  (`DropSignal`); the lowering is a large function on trees of its own.
- *Generators in the machine* (the frames and handlers a coroutine saves, delegation,
  return and throw into a generator) and its collector: VmPromises sees a
  coroutine only as something that suspends, goes on, finishes or throws.
- *The rest of the standard library* (texts, dates, typed arrays, iterators,
  maps): sequential algorithms on data, mostly calls into Rust's own library.
- *The REPL*: its one hazard, tasks left over from an input that failed, is
  listed without a property.
- *Linter, language server, JavaScript generator, CLI, playground, editor
  extension, source maps*: functions of a text, or input and output.
- Wording of errors, floating-point digits, Cyrillic spellings of keywords and
  methods (each stands for its kind), NUL bytes and digits of other scripts.

Worth adding: a proof that VmPromises implements PromiseJobs, the machine's coroutines, and async
lowering as a function on trees that keeps the order of evaluation.
