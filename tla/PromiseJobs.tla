---------------------------- MODULE PromiseJobs ----------------------------
(***************************************************************************)
(* Promises, the microtask queue and suspended async functions of the      *)
(* tree-walking interpreter (interpreter/promise_rt.rs, stdlib/promise.rs, *)
(* the promise cases of interpreter/call.rs, and the microtask builtins).  *)
(*                                                                         *)
(* Script code is arbitrary: whenever it has control it may call any of    *)
(* the builtins in Api with any promise or value it can see, return,       *)
(* throw, or fail with a host error (RuntimeError without a thrown value). *)
(* Calls that re-enter the interpreter nest on `stack': an executor, an    *)
(* async body up to its first await, and a blocking await (do_await in     *)
(* code that was not lowered to a coroutine), which drains the queue       *)
(* underneath the code that waits.                                         *)
(*                                                                         *)
(* An async function's coroutine is named by its promise: drive_async      *)
(* always pairs the two.                                                   *)
(***************************************************************************)
EXTENDS Integers, Sequences, FiniteSets

CONSTANTS
    MaxPromise, \* bound: promises a program creates
    MaxCalls,   \* bound: builtins a program calls
    MaxAwait,   \* MAX_AWAIT_DEPTH
    Plain,      \* values that are not promises
    Undef,      \* what a function without a result returns
    HostError,  \* the error object made of a host error (rejection_reason)
    Api         \* the builtins the program uses

Id == 1 .. MaxPromise
Value == Plain \cup Id

ASSUME BoundsAssumption == MaxPromise \in Nat /\ MaxCalls \in Nat /\ MaxAwait \in Nat
ASSUME PlainAssumption == Plain \cap Nat = {} /\ Undef \in Plain /\ HostError \in Plain

VARIABLES
    promise,    \* the PromiseState of each promise and what created it
    micro,      \* the microtask queue
    stack,      \* the calls in progress, script code and blocking awaits
    co,         \* the coroutine behind each async function's promise
    calls,      \* builtins called so far
    loop,       \* "running" until the program ends or fails
    dropped     \* history: promises whose settling call failed with a host error

promiseVars == <<promise, micro, stack, co, calls, loop, dropped>>

(* A callback waiting in a promise, a microtask, or a call in progress: op *)
(* says what it does, p is the promise it settles (0: none), side whether  *)
(* it takes a result or a rejection, val what it is called with.  In arg a *)
(* then-callback says whether it has a handler, and a body whether it runs *)
(* from the queue (1) or under its caller (0).                             *)
Op == {"cap", "then", "finally", "resume", "agg", "task", "quiet", "script", "executor",
       "try", "body", "timer", "await", "wake", "abort"}
Native == {"await", "wake", "abort"}        \* calls in which no script code has control
Side == {"ok", "err"}
Act == [op : Op, p : 0 .. MaxPromise, side : Side, arg : Nat, val : Value]

Callback(op, p, side, arg) == [op |-> op, p |-> p, side |-> side, arg |-> arg, val |-> Undef]
Call(op, p) == Callback(op, p, "ok", 0)
Given(cb, v) == [cb EXCEPT !.val = v]

Origin == {"none", "caps", "static", "chain", "async", "agg", "timer", "signal"}
PromiseRec == [st : {"unborn", "pending", "fulfilled", "rejected"}, val : Value,
               ok : Seq(Act), err : Seq(Act), by : Origin]

Unborn == [st |-> "unborn", val |-> Undef, ok |-> << >>, err |-> << >>, by |-> "none"]
Pending(by) == [st |-> "pending", val |-> Undef, ok |-> << >>, err |-> << >>, by |-> by]
Closed(r, st, v) == [st |-> st, val |-> v, ok |-> << >>, err |-> << >>, by |-> r.by]
WithPair(r, ok, err) == [r EXCEPT !.ok = Append(@, ok), !.err = Append(@, err)]

PromiseInit ==
    /\ promise = [p \in Id |-> Unborn]
    /\ micro = << >>
    /\ stack = <<Call("script", 0)>>
    /\ co = [p \in Id |-> "none"]
    /\ calls = 0
    /\ loop = "running"
    /\ dropped = {}

(***************************************************************************)
(* The promise table.                                                      *)
(***************************************************************************)

Born(p) == promise[p].st # "unborn"

(* Faults of the kind these operations could have stand before them, to    *)
(* show that the properties notice them.                                   *)
OutcomeUnflattened(t, side, v) ==           \* a promise taken for a plain value
    [st |-> IF side = "err" THEN "rejected" ELSE "fulfilled", val |-> v]

(* What resolving p with v, or rejecting it, settles it to: a promise is   *)
(* adopted, a pending one later.                                           *)
Outcome(t, side, v) ==
    IF side = "err" THEN [st |-> "rejected", val |-> v]
    ELSE IF v \in Id THEN [st |-> t[v].st, val |-> t[v].val]
    ELSE [st |-> "fulfilled", val |-> v]

SettledAgain(t, p, side, v) ==              \* no check for an earlier outcome
    LET o == Outcome(t, side, v)
    IN  IF o.st = "pending"
        THEN [t EXCEPT ![v] = WithPair(@, Callback("cap", p, "ok", 0), Callback("cap", p, "err", 0))]
        ELSE [t EXCEPT ![p] = Closed(@, o.st, o.val)]

(* settle_promise, set_fulfilled, set_rejected: the table after ...        *)
Settled(t, p, side, v) ==
    LET o == Outcome(t, side, v)
    IN  IF t[p].st # "pending" THEN t
        ELSE IF o.st = "pending"
             THEN [t EXCEPT ![v] = WithPair(@, Callback("cap", p, "ok", 0), Callback("cap", p, "err", 0))]
             ELSE [t EXCEPT ![p] = Closed(@, o.st, o.val)]

(* The callbacks as microtasks, called with v.                             *)
Called(cbs, v) == [i \in DOMAIN cbs |-> Given(cbs[i], v)]

(* ... and the microtasks it queues, in the order of registration.         *)
Jobs(t, p, side, v) ==
    LET o == Outcome(t, side, v)
        cbs == IF o.st = "fulfilled" THEN t[p].ok ELSE t[p].err
    IN  IF t[p].st # "pending" \/ o.st = "pending" THEN << >>
        ELSE Called(cbs, o.val)

(* The error settle_promise returns instead.                               *)
SelfResolution(p, side, v) == promise[p].st = "pending" /\ side = "ok" /\ v = p

SettleAfter(queue, p, side, v) ==
    /\ promise' = Settled(promise, p, side, v)
    /\ micro' = queue \o Jobs(promise, p, side, v)

(* Registering a pair of callbacks with a promise, or queueing the right   *)
(* one at once when it is settled: chain_promise, finally_promise,         *)
(* schedule_async_resume.                                                  *)
Registered(t, p, ok, err) ==
    IF t[p].st = "pending"
    THEN [t EXCEPT ![p] = WithPair(@, ok, err)]
    ELSE t

RegisteredJobs(t, p, ok, err) ==
    CASE t[p].st = "fulfilled" -> <<Given(ok, t[p].val)>>
      [] t[p].st = "rejected" -> <<Given(err, t[p].val)>>
      [] OTHER -> << >>

(***************************************************************************)
(* Control.                                                                *)
(***************************************************************************)

Top == stack[Len(stack)]
Rest == SubSeq(stack, 1, Len(stack) - 1)

InScript == loop = "running" /\ stack # << >> /\ Top.op \notin Native
Draining == loop = "running" /\ (stack # << >> => Top.op = "await")

EscapeThrough(base) ==                      \* the code that waits ends as well
    IF base = << >>
    THEN stack' = << >> /\ loop' = "failed"
    ELSE stack' = SubSeq(base, 1, Len(base) - 2) /\ UNCHANGED loop

(* An error that escapes a microtask: drain_microtasks stops, and the      *)
(* event loop fails, or the blocking await underneath returns the error to *)
(* the code that waits, which may catch it.                                *)
EscapeTo(base) ==
    IF base = << >>
    THEN stack' = << >> /\ loop' = "failed"
    ELSE stack' = SubSeq(base, 1, Len(base) - 1) /\ UNCHANGED loop

(* A call in a microtask settles p as its last act.                        *)
SettleAndReturn(queue, base, p, side, v) ==
    IF SelfResolution(p, side, v)
    THEN /\ EscapeTo(base)
         /\ micro' = queue
         /\ dropped' = dropped \cup {p}
         /\ UNCHANGED promise
    ELSE /\ SettleAfter(queue, p, side, v)
         /\ stack' = base
         /\ UNCHANGED <<loop, dropped>>

(***************************************************************************)
(* What script code sees and calls.                                        *)
(***************************************************************************)

TryFrames == {i \in DOMAIN stack : stack[i].op = "try"}

(* Promises are numbered in order of creation; each попробовать in         *)
(* progress keeps one for its result, so that the bound never blocks it.   *)
Next1(p) == ~Born(p) /\ \A q \in 1 .. p - 1 : Born(q)
Fresh(p) == Next1(p) /\ p <= MaxPromise - Cardinality(TryFrames)

(* A promise is out of reach while its constructor runs, or its async      *)
(* function has not returned it yet.                                       *)
Hidden(p) ==
    \E i \in DOMAIN stack :
        stack[i].p = p /\ (stack[i].op = "executor" \/ (stack[i].op = "body" /\ stack[i].arg = 0))
Visible == {p \in Id : Born(p) /\ ~Hidden(p)}
Passable == Plain \cup Visible

Calls(name) ==
    /\ name \in Api
    /\ InScript
    /\ calls < MaxCalls
    /\ calls' = calls + 1
    /\ UNCHANGED loop

(* захуярить СловоПацана(executor), and сРешалками, which has no executor. *)
Construct ==
    \E p \in Id :
        /\ Fresh(p)
        /\ promise' = [promise EXCEPT ![p] = Pending("caps")]
        /\ \/ Calls("new") /\ stack' = Append(stack, Call("executor", p))
           \/ Calls("withResolvers") /\ UNCHANGED stack
        /\ UNCHANGED <<micro, co, dropped>>

(* Calling a resolve or reject function.  Resolving a promise with itself  *)
(* is an error the caller sees and nothing changes.                        *)
Resolve ==
    \E p \in Id, side \in Side, v \in Passable :
        /\ Calls("resolve")
        /\ promise[p].by = "caps"
        /\ ~SelfResolution(p, side, v)
        /\ SettleAfter(micro, p, side, v)
        /\ UNCHANGED <<stack, co, dropped>>

(* СловоПацана.решить (a promise is returned as it is) and отвергнуть.     *)
Static ==
    \E p \in Id, v \in Passable :
        /\ Fresh(p)
        /\ \/ Calls("solved") /\ v \notin Id
              /\ promise' = [promise EXCEPT ![p] = Closed(Pending("static"), "fulfilled", v)]
           \/ Calls("rejected")
              /\ promise' = [promise EXCEPT ![p] = Closed(Pending("static"), "rejected", v)]
        /\ UNCHANGED <<micro, stack, co, dropped>>

(* СловоПацана.попробовать(f).                                             *)
Try ==
    /\ Calls("try")
    /\ \E p \in Id : Fresh(p)
    /\ stack' = Append(stack, Call("try", 0))
    /\ UNCHANGED <<promise, micro, co, dropped>>

(* A derived promise d for a pair of callbacks on p.                       *)
Derive(p, d, ok, err) ==
    LET t == [promise EXCEPT ![d] = Pending("chain")]
    IN  /\ Fresh(d)
        /\ promise' = Registered(t, p, ok, err)
        /\ micro' = micro \o RegisteredJobs(t, p, ok, err)
        /\ UNCHANGED <<stack, co, dropped>>

(* потом (ловить has no handler for results): a missing handler passes the *)
(* outcome on.                                                             *)
Then ==
    \E p \in Visible, d \in Id, onOk, onErr \in {0, 1} :
        /\ Calls("then")
        /\ Derive(p, d, Callback("then", d, "ok", onOk), Callback("then", d, "err", onErr))

(* наконец.                                                                *)
Finally ==
    \E p \in Visible, d \in Id :
        /\ Calls("finally")
        /\ Derive(p, d, Callback("finally", d, "ok", 0), Callback("finally", d, "err", 0))

(* сразу, сОчередить (whose errors are only reported), and                 *)
(* наСледующемТике, which goes to the front of the queue.                  *)
QueueMicrotask ==
    /\ \/ Calls("queue") /\ \E op \in {"task", "quiet"} : micro' = Append(micro, Call(op, 0))
       \/ Calls("nextTick") /\ micro' = <<Call("task", 0)>> \o micro
    /\ UNCHANGED <<promise, stack, co, dropped>>

(* Calling an async function: its body starts at once.                     *)
CallAsync ==
    \E p \in Id :
        /\ Calls("async")
        /\ Fresh(p)
        /\ promise' = [promise EXCEPT ![p] = Pending("async")]
        /\ co' = [co EXCEPT ![p] = "running"]
        /\ stack' = Append(stack, Call("body", p))
        /\ UNCHANGED <<micro, dropped>>

(* await in an async body (drive_async, schedule_async_resume): the body   *)
(* suspends and is resumed from the queue, at once for a plain value.      *)
Suspend ==
    /\ Calls("await")
    /\ Top.op = "body"
    /\ LET ok == Callback("resume", Top.p, "ok", 0)
           err == Callback("resume", Top.p, "err", 0)
       IN  \/ \E v \in Visible :
                /\ promise' = Registered(promise, v, ok, err)
                /\ micro' = micro \o RegisteredJobs(promise, v, ok, err)
           \/ \E v \in Plain : micro' = Append(micro, Given(ok, v)) /\ UNCHANGED promise
    /\ co' = [co EXCEPT ![Top.p] = "suspended"]
    /\ stack' = Rest
    /\ UNCHANGED dropped

AwaitDepth == Cardinality({i \in DOMAIN stack : stack[i].op = "await"})

(* await anywhere else (do_await) waits for the promise inside the call;   *)
(* past the depth limit it is an error and nothing changes.                *)
Block ==
    \E p \in Visible :
        /\ Calls("block")
        /\ AwaitDepth < MaxAwait
        /\ stack' = Append(stack, Call("await", p))
        /\ UNCHANGED <<promise, micro, co, dropped>>

ApiCall ==
    \/ Construct \/ Resolve \/ Static \/ Try \/ Then \/ Finally
    \/ QueueMicrotask \/ CallAsync \/ Suspend \/ Block

(***************************************************************************)
(* How script code ends: it returns or throws a value, or fails with a     *)
(* host error.  `ending' is "ok", "err" or "host", v the value.            *)
(***************************************************************************)

(* The top-level script; what remains is the event loop's.  A return at    *)
(* its top level leaves run_internal at once: the queue is never run.      *)
EndScript(ending) ==
    /\ Top.op = "script"
    /\ stack' = Rest
    /\ loop' \in IF ending = "ok" THEN {loop, "done"} ELSE {"failed"}
    /\ UNCHANGED <<promise, micro, co, dropped>>

(* construct: only a thrown value rejects the promise.                     *)
EndExecutor(ending, v) ==
    /\ Top.op = "executor"
    /\ stack' = Rest
    /\ IF ending = "err" THEN SettleAfter(micro, Top.p, "err", v) ELSE UNCHANGED <<promise, micro>>
    /\ UNCHANGED <<co, loop, dropped>>

(* попробовать: a promise is returned as it is, anything else is wrapped.  *)
EndTry(ending, v) ==
    /\ Top.op = "try"
    /\ stack' = Rest
    /\ \/ ending = "ok" /\ v \in Id /\ UNCHANGED promise
       \/ ~(ending = "ok" /\ v \in Id)
          /\ \E p \in Id :
               /\ Next1(p)
               /\ promise' = [promise EXCEPT ![p] =
                      Closed(Pending("static"), IF ending = "ok" THEN "fulfilled" ELSE "rejected", v)]
    /\ UNCHANGED <<micro, co, loop, dropped>>

(* A microtask callback: an error stops the drain, except in сОчередить.   *)
EndTask(ending) ==
    /\ \/ (Top.op = "quiet" \/ ending = "ok") /\ stack' = Rest /\ UNCHANGED loop
       \/ Top.op = "task" /\ ending # "ok" /\ EscapeTo(Rest)
    /\ Top.op \in {"task", "quiet"}
    /\ UNCHANGED <<promise, micro, co, dropped>>

(* invoke_handler: the derived promise takes the handler's outcome.        *)
EndThen(ending, v) ==
    /\ Top.op = "then"
    /\ SettleAndReturn(micro, Rest, Top.p, IF ending = "ok" THEN "ok" ELSE "err", v)
    /\ UNCHANGED co

EndFinallyOnError(ending, v) ==             \* a callback that returns settles nothing
    /\ Top.op = "finally"
    /\ IF ending = "ok" THEN stack' = Rest /\ UNCHANGED <<promise, micro, loop, dropped>>
                        ELSE SettleAndReturn(micro, Rest, Top.p, "err", v)
    /\ UNCHANGED co

(* run_finally: the outcome it was called for, unless the callback fails.  *)
EndFinally(ending, v) ==
    /\ Top.op = "finally"
    /\ IF ending = "ok" THEN SettleAndReturn(micro, Rest, Top.p, Top.side, Top.val)
                        ELSE SettleAndReturn(micro, Rest, Top.p, "err", v)
    /\ UNCHANGED co

(* drive_async: a host error escapes to the caller or the queue and leaves *)
(* the promise pending.                                                    *)
EndBody(ending, v) ==
    /\ Top.op = "body"
    /\ co' = [co EXCEPT ![Top.p] = "done"]
    /\ IF ending = "host"
       THEN /\ IF Top.arg = 0 THEN stack' = Rest /\ UNCHANGED loop ELSE EscapeTo(Rest)
            /\ dropped' = dropped \cup {Top.p}
            /\ UNCHANGED <<promise, micro>>
       ELSE SettleAndReturn(micro, Rest, Top.p, ending, v)

EndCall(ending, v) ==
    /\ InScript
    /\ \/ EndScript(ending) \/ EndExecutor(ending, v) \/ EndTry(ending, v) \/ EndTask(ending)
       \/ EndThen(ending, v) \/ EndFinally(ending, v) \/ EndBody(ending, v)
    /\ UNCHANGED calls

Return == \E v \in Passable : EndCall("ok", v)
Throw == \E v \in Passable : EndCall("err", v)
Fail == EndCall("host", HostError)

(***************************************************************************)
(* The interpreter: draining the microtask queue.                          *)
(***************************************************************************)

Job == Head(micro)

RunSettlerKept ==                           \* the microtask stays at the front
    /\ Job.op = "cap" \/ (Job.op = "then" /\ Job.arg = 0)
    /\ SettleAndReturn(micro, stack, Job.p, Job.side, Job.val)
    /\ UNCHANGED co

(* Takes the next microtask and calls it: resolve and reject functions and *)
(* missing handlers settle at once, the rest runs script code.             *)
RunSettler ==
    /\ Job.op = "cap" \/ (Job.op = "then" /\ Job.arg = 0)
    /\ SettleAndReturn(Tail(micro), stack, Job.p, Job.side, Job.val)
    /\ UNCHANGED co

RunCallback ==
    /\ Job.op \in {"task", "quiet", "finally"} \/ (Job.op = "then" /\ Job.arg = 1)
    /\ stack' = Append(stack, Job)
    /\ micro' = Tail(micro)
    /\ UNCHANGED <<promise, co, loop, dropped>>

RunResumeUnmarked ==                        \* the coroutine still counts as suspended
    /\ Job.op = "resume"
    /\ stack' = Append(stack, [Job EXCEPT !.op = "body", !.arg = 1])
    /\ micro' = Tail(micro)
    /\ UNCHANGED <<promise, co, loop, dropped>>

RunResume ==
    /\ Job.op = "resume"
    /\ stack' = Append(stack, [Job EXCEPT !.op = "body", !.arg = 1])
    /\ micro' = Tail(micro)
    /\ co' = [co EXCEPT ![Job.p] = "running"]
    /\ UNCHANGED <<promise, loop, dropped>>

RunJob ==
    /\ Draining /\ micro # << >>
    /\ RunSettler \/ RunCallback \/ RunResume
    /\ UNCHANGED calls

AwaitReturnsResult ==                       \* a rejection is not noticed
    /\ Draining /\ stack # << >> /\ micro = << >>
    /\ promise[Top.p].st = "fulfilled"
    /\ stack' = Rest
    /\ UNCHANGED <<promise, micro, co, calls, loop, dropped>>

(* do_await: once the queue is empty, the awaited promise decides.         *)
AwaitReturns ==
    /\ Draining /\ stack # << >> /\ micro = << >>
    /\ promise[Top.p].st # "pending"
    /\ stack' = Rest
    /\ UNCHANGED <<promise, micro, co, calls, loop, dropped>>

(* ... and when nothing is left that could settle it, waiting is an error. *)
AwaitStarves ==
    /\ Draining /\ stack # << >> /\ micro = << >>
    /\ promise[Top.p].st = "pending"
    /\ stack' = Rest
    /\ UNCHANGED <<promise, micro, co, calls, loop, dropped>>

(* drive_event_loop returns.                                               *)
LoopEnds ==
    /\ Draining /\ stack = << >> /\ micro = << >>
    /\ loop' = "done"
    /\ UNCHANGED <<promise, micro, stack, co, calls, dropped>>

Ended == loop # "running" /\ UNCHANGED promiseVars

PromiseNext ==
    \/ ApiCall \/ Return \/ Throw \/ Fail
    \/ RunJob \/ AwaitReturns \/ AwaitStarves \/ LoopEnds \/ Ended

PromiseSpec == PromiseInit /\ [][PromiseNext]_promiseVars

(* The interpreter never pauses, and script code ends.                     *)
PromiseFairness ==
    /\ WF_promiseVars(Return)
    /\ WF_promiseVars(RunJob \/ AwaitReturns \/ AwaitStarves \/ LoopEnds)

FairPromiseSpec == PromiseSpec /\ PromiseFairness

(***************************************************************************)
(* Properties.                                                             *)
(***************************************************************************)

(* The program was left before its queue was run: by an error, or by a     *)
(* return at its top level.                                                *)
CutShort == loop = "failed" \/ (loop = "done" /\ micro # << >>)

PromiseTypeOK ==
    /\ promise \in [Id -> PromiseRec]
    /\ micro \in Seq(Act)
    /\ stack \in Seq(Act)
    /\ co \in [Id -> {"none", "running", "suspended", "done"}]
    /\ calls \in Nat
    /\ loop \in {"running", "done", "failed"}
    /\ dropped \subseteq Id

(* A promise is never fulfilled with a promise: whatever a chain of        *)
(* handlers, resolve functions and async functions passes along is         *)
(* flattened before it is observable.                                      *)
NeverFulfilledWithPromise ==
    \A p \in Id : promise[p].st = "fulfilled" => promise[p].val \notin Id

(* Callbacks wait in pairs, at the same position of both lists of one      *)
(* promise, so that settling it releases exactly one of the two.           *)
PairedCallbacks ==
    \A q \in Id :
        /\ Len(promise[q].ok) = Len(promise[q].err)
        /\ \A i \in DOMAIN promise[q].ok :
               /\ promise[q].ok[i].side = "ok" /\ promise[q].err[i].side = "err"
               /\ promise[q].ok[i].op = promise[q].err[i].op
               /\ promise[q].ok[i].p = promise[q].err[i].p

Waiting(d) ==
    UNION {{<<q, i>> : i \in {j \in DOMAIN promise[q].ok : promise[q].ok[j].p = d}} : q \in Id}
Queued(d) == {i \in DOMAIN micro : micro[i].p = d}
InCall(d) == {i \in DOMAIN stack : stack[i].p = d /\ stack[i].op \in {"then", "finally", "body"}}

(* Every promise the runtime settles by itself, derived or of an async     *)
(* function, has exactly one thing that will settle it -- a waiting pair   *)
(* of callbacks, a queued microtask or a call in progress -- until it is   *)
(* settled, and none afterwards: no wakeup is lost, no handler or async    *)
(* body runs twice, and a coroutine is never resumed while it runs.        *)
OneObligation ==
    \A d \in Id :
        promise[d].by \in {"chain", "async"} =>
            Cardinality(Waiting(d)) + Cardinality(Queued(d)) + Cardinality(InCall(d))
                = IF promise[d].st = "pending" /\ d \notin dropped THEN 1 ELSE 0

(* A coroutine is suspended exactly while its resumption waits or is       *)
(* queued, so a resumption always finds it suspended.                      *)
SuspendedAwaitsResume ==
    \A d \in Id :
        co[d] = "suspended" <=>
            \/ \E q \in Id : \E i \in DOMAIN promise[q].ok :
                   promise[q].ok[i].op = "resume" /\ promise[q].ok[i].p = d
            \/ \E i \in Queued(d) : micro[i].op = "resume"

(* What a program may rely on, whatever the queue does.                    *)
Contract == INSTANCE PromiseContract WITH
    outcome <- [p \in Id |-> [st |-> promise[p].st, val |-> promise[p].val]]
ContractSpec == Contract!Spec

(* A program that makes finitely many calls ends: no await, drain or       *)
(* chain of microtasks keeps the interpreter from finishing.               *)
ProgramEnds == <>(loop # "running")

=============================================================================
