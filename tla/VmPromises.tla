----------------------------- MODULE VmPromises -----------------------------
(***************************************************************************)
(* Promises, both queues and suspended async functions of the bytecode     *)
(* machine (crates/yps-vm: promise.rs, and the async and timer parts of    *)
(* vm.rs).  It is a second implementation of what PromiseJobs, Aggregates  *)
(* and EventLoop model of the interpreter, and keeps the same kind of      *)
(* state, so the modules' variables and their vocabulary of callbacks and  *)
(* calls serve here too; what the machine does with them is written from   *)
(* its own code, and the properties compare it with the interpreter.       *)
(*                                                                         *)
(* Two things differ.  The machine runs a coroutine's body, and whatever   *)
(* its bytecode calls, as one region that suspends as a whole; an await in *)
(* a callback that Rust code calls inside it is refused.  And a host error *)
(* in a body is turned into a value that is thrown.                        *)
(***************************************************************************)
EXTENDS Aggregates, EventLoop

(* The machine has no limit on nested awaits; the interpreter's is out of  *)
(* a program's reach, so that both can be compared.                        *)
ASSUME DepthAssumption == MaxCalls <= MaxAwait

vmVars == <<promise, micro, stack, co, calls, loop, dropped, agg, timerVars>>

VmInit == AggInit /\ TM!TimerInit

(***************************************************************************)
(* Settling a promise.                                                     *)
(***************************************************************************)

(* set_fulfilled and set_rejected: each callback becomes a microtask.      *)
SetFulfilled(queue, p, v) ==
    /\ promise' = [promise EXCEPT ![p] = Closed(@, "fulfilled", v)]
    /\ micro' = queue \o Called(promise[p].ok, v)

SetRejected(queue, p, v) ==
    /\ promise' = [promise EXCEPT ![p] = Closed(@, "rejected", v)]
    /\ micro' = queue \o Called(promise[p].err, v)

(* p takes the outcome of another promise, at once or when there is one.   *)
Follow(queue, p, other) ==
    \/ promise[other].st = "fulfilled" /\ SetFulfilled(queue, p, promise[other].val)
    \/ promise[other].st = "rejected" /\ SetRejected(queue, p, promise[other].val)
    \/ /\ promise[other].st = "pending"
       /\ promise' = [promise EXCEPT ![other] =
              WithPair(@, Callback("cap", p, "ok", 0), Callback("cap", p, "err", 0))]
       /\ micro' = queue

(* settle_promise; it fails when a pending promise is resolved with itself.*)
ResolvesItself(p, kind, v) == promise[p].st = "pending" /\ kind = "ok" /\ v = p

SettlePromise(queue, p, kind, v) ==
    \/ promise[p].st # "pending" /\ micro' = queue /\ UNCHANGED promise
    \/ /\ promise[p].st = "pending"
       /\ \/ kind = "err" /\ SetRejected(queue, p, v)
          \/ kind = "ok" /\ v \notin Id /\ SetFulfilled(queue, p, v)
          \/ kind = "ok" /\ v \in Id /\ Follow(queue, p, v)

(* ... as the last act of a microtask with base underneath it: its error   *)
(* ends the drain (drain_microtasks).                                      *)
SettleLast(queue, base, p, kind, v) ==
    \/ /\ ~ResolvesItself(p, kind, v)
       /\ SettlePromise(queue, p, kind, v)
       /\ stack' = base
       /\ UNCHANGED <<loop, dropped>>
    \/ /\ ResolvesItself(p, kind, v)
       /\ EscapeTo(base)
       /\ micro' = queue
       /\ dropped' = dropped \cup {p}
       /\ UNCHANGED promise

(* Waiting for p with a pair of callbacks, in the table t: a settled       *)
(* promise queues the one for its outcome.                                 *)
Subscribe(t, p, ok, err) ==
    \/ t[p].st = "fulfilled" /\ promise' = t /\ micro' = Append(micro, Given(ok, t[p].val))
    \/ t[p].st = "rejected" /\ promise' = t /\ micro' = Append(micro, Given(err, t[p].val))
    \/ t[p].st = "pending" /\ promise' = [t EXCEPT ![p] = WithPair(@, ok, err)] /\ UNCHANGED micro

(***************************************************************************)
(* What script code calls (call_builtin_value, call_promise_static,        *)
(* call_promise_method, call_value).                                       *)
(***************************************************************************)

Created(p, r) == Fresh(p) /\ promise' = [promise EXCEPT ![p] = r]
Made(st, v) == Closed(Pending("static"), st, v)     \* make_fulfilled_promise, make_rejected_promise

(* promise_construct, which calls its executor, and сРешалками.            *)
VmConstruct ==
    \E p \in Id :
        /\ Created(p, Pending("caps"))
        /\ \/ Calls("new") /\ stack' = Append(stack, Call("executor", p))
           \/ Calls("withResolvers") /\ UNCHANGED stack
        /\ UNCHANGED <<micro, co, dropped>>

(* A resolve or reject function (PromiseCapability); resolving a promise   *)
(* with itself is an error the caller sees.                                *)
VmResolve ==
    \E p \in Id, kind \in Side, v \in Passable :
        /\ Calls("resolve")
        /\ promise[p].by = "caps"
        /\ ~ResolvesItself(p, kind, v)
        /\ SettlePromise(micro, p, kind, v)
        /\ UNCHANGED <<stack, co, dropped>>

(* решить, which returns a promise as it is, and отвергнуть.               *)
VmStatic ==
    \E p \in Id, v \in Passable :
        /\ \/ Calls("solved") /\ v \notin Id /\ Created(p, Made("fulfilled", v))
           \/ Calls("rejected") /\ Created(p, Made("rejected", v))
        /\ UNCHANGED <<micro, stack, co, dropped>>

(* попробовать calls its function.                                         *)
VmTry ==
    /\ Calls("try")
    /\ \E p \in Id : Fresh(p)
    /\ stack' = Append(stack, Call("try", 0))
    /\ UNCHANGED <<promise, micro, co, dropped>>

(* chain_promise and finally_promise: a new promise waits for p.           *)
VmChain(op, onOk, onErr) ==
    \E p \in Visible, d \in Id :
        /\ Fresh(d)
        /\ Subscribe([promise EXCEPT ![d] = Pending("chain")], p,
                     Callback(op, d, "ok", onOk), Callback(op, d, "err", onErr))
        /\ UNCHANGED <<stack, co, dropped>>

VmThen == Calls("then") /\ \E onOk, onErr \in {0, 1} : VmChain("then", onOk, onErr)
VmFinally == Calls("finally") /\ VmChain("finally", 0, 0)

(* сразу and наСледующемТике, at the back and the front of the queue, and  *)
(* сОчередить, which only reports what its callback throws.                *)
VmQueueMicrotask ==
    /\ \/ Calls("queue") /\ micro' \in {Append(micro, Call(op, 0)) : op \in {"task", "quiet"}}
       \/ Calls("nextTick") /\ micro' = <<Call("task", 0)>> \o micro
    /\ UNCHANGED <<promise, stack, co, dropped>>

(* spawn_async: the body runs at once, up to its first await.              *)
VmCallAsync ==
    \E p \in Id :
        /\ Calls("async")
        /\ Created(p, Pending("async"))
        /\ co' = [co EXCEPT ![p] = "running"]
        /\ stack' = Append(stack, Call("body", p))
        /\ UNCHANGED <<micro, dropped>>

VmSuspendUnqueued ==                        \* a settled promise is subscribed to as well
    /\ Calls("await")
    /\ Top.op = "body"
    /\ LET ok == Callback("resume", Top.p, "ok", 0)
           err == Callback("resume", Top.p, "err", 0)
       IN  \/ \E v \in Visible : promise' = [promise EXCEPT ![v] = WithPair(@, ok, err)] /\ UNCHANGED micro
           \/ \E v \in Plain : micro' = Append(micro, Given(ok, v)) /\ UNCHANGED promise
    /\ co' = [co EXCEPT ![Top.p] = "suspended"]
    /\ stack' = Rest
    /\ UNCHANGED dropped

(* Op::Await in the region of an async body, through run_generator and     *)
(* drive_async to schedule_async_resume.                                   *)
VmSuspend ==
    /\ Calls("await")
    /\ Top.op = "body"
    /\ LET ok == Callback("resume", Top.p, "ok", 0)
           err == Callback("resume", Top.p, "err", 0)
       IN  \/ \E v \in Visible : Subscribe(promise, v, ok, err)
           \/ \E v \in Plain : micro' = Append(micro, Given(ok, v)) /\ UNCHANGED promise
    /\ co' = [co EXCEPT ![Top.p] = "suspended"]
    /\ stack' = Rest
    /\ UNCHANGED dropped

(* do_await, of code outside coroutines and, whatever is underneath, of an *)
(* async generator that was asked for its next value (step_generator).     *)
VmBlock ==
    \E p \in Visible :
        /\ Calls("block")
        /\ stack' = Append(stack, Call("await", p))
        /\ UNCHANGED <<promise, micro, co, dropped>>

VmApiCall ==
    \/ VmConstruct \/ VmResolve \/ VmStatic \/ VmTry \/ VmThen \/ VmFinally
    \/ VmQueueMicrotask \/ VmCallAsync \/ VmSuspend \/ VmBlock

(***************************************************************************)
(* How script code ends: "ok", "err" (a thrown value) or "host".           *)
(***************************************************************************)

(* Vm::run: an error of the script means the queues never run.             *)
VmEndScript(ending) ==
    /\ Top.op = "script"
    /\ stack' = Rest
    /\ loop' = IF ending = "ok" THEN "running" ELSE "failed"
    /\ UNCHANGED <<promise, micro, co, dropped>>

(* promise_construct: a thrown value rejects, a host error goes on.        *)
VmEndExecutor(ending, v) ==
    /\ Top.op = "executor"
    /\ stack' = Rest
    /\ \/ ending = "err" /\ SettlePromise(micro, Top.p, "err", v)
       \/ ending # "err" /\ UNCHANGED <<promise, micro>>
    /\ UNCHANGED <<co, loop, dropped>>

(* попробовать: the result is a promise already, or made one.              *)
VmEndTry(ending, v) ==
    /\ Top.op = "try"
    /\ stack' = Rest
    /\ IF ending = "ok" /\ v \in Id
       THEN UNCHANGED promise
       ELSE \E p \in Id :
                /\ Next1(p)
                /\ promise' = [promise EXCEPT ![p] = Made(IF ending = "ok" THEN "fulfilled" ELSE "rejected", v)]
    /\ UNCHANGED <<micro, co, loop, dropped>>

(* The callbacks of сразу and наСледующемТике, and of сОчередить.          *)
VmEndTask(ending) ==
    /\ \/ Top.op = "quiet" /\ stack' = Rest /\ UNCHANGED loop
       \/ Top.op = "task" /\ ending = "ok" /\ stack' = Rest /\ UNCHANGED loop
       \/ Top.op = "task" /\ ending # "ok" /\ EscapeTo(Rest)
    /\ UNCHANGED <<promise, micro, co, dropped>>

(* invoke_handler: the handler's outcome, an error of any kind being a     *)
(* reason for rejection.                                                   *)
VmEndThen(ending, v) ==
    /\ Top.op = "then"
    /\ SettleLast(micro, Rest, Top.p, IF ending = "ok" THEN "ok" ELSE "err", v)
    /\ UNCHANGED co

(* run_finally: the outcome it was called for, or the callback's error.    *)
VmEndFinally(ending, v) ==
    /\ Top.op = "finally"
    /\ \/ ending = "ok" /\ SettleLast(micro, Rest, Top.p, Top.side, Top.val)
       \/ ending # "ok" /\ SettleLast(micro, Rest, Top.p, "err", v)
    /\ UNCHANGED co

(* run_generator makes a thrown value of every error in the body, and      *)
(* drive_async, or spawn_async, settles the promise.                       *)
VmEndBody(ending, v) ==
    /\ Top.op = "body"
    /\ co' = [co EXCEPT ![Top.p] = "done"]
    /\ SettleLast(micro, Rest, Top.p, IF ending = "ok" THEN "ok" ELSE "err", v)

VmEndCall(ending, v) ==
    /\ InScript
    /\ \/ VmEndScript(ending) \/ VmEndExecutor(ending, v) \/ VmEndTry(ending, v) \/ VmEndTask(ending)
       \/ VmEndThen(ending, v) \/ VmEndFinally(ending, v) \/ VmEndBody(ending, v)
    /\ UNCHANGED calls

VmReturn == \E v \in Passable : VmEndCall("ok", v)
VmThrow == \E v \in Passable : VmEndCall("err", v)
VmFail == VmEndCall("host", HostError)

(* coroutine_depth: the bodies in progress.  An await suspends the region  *)
(* of a body, or blocks outside of all of them ...                         *)
CoroutineDepth == Cardinality({i \in DOMAIN stack : stack[i].op = "body"})
MayAwait == Top.op = "body" \/ CoroutineDepth = 0

(* ... and is an error anywhere else: exec_op steps out of a region that   *)
(* run_region cannot suspend.                                              *)
VmAwaitRefused == InScript /\ "await" \in Api /\ ~MayAwait /\ VmFail

(***************************************************************************)
(* Combinators.                                                            *)
(***************************************************************************)

(* attach_aggregate, for the items in turn: those that are pending get the *)
(* handlers, the others queue the one for their outcome.                   *)
AttachEach(t, d, items) ==
    LET pending(i) == items[i] \in Id /\ t[items[i]].st = "pending"
        places == [i \in DOMAIN items |-> i]
        waiting(p) == SelectSeq(places, LAMBDA i : items[i] = p)
        ready == SelectSeq(places, LAMBDA i : ~pending(i))
        handlers(side, is) == [k \in DOMAIN is |-> Handler(d, side, is[k])]
        outcome(v) == IF v \in Id THEN t[v] ELSE Made("fulfilled", v)
        side(v) == IF outcome(v).st = "rejected" THEN "err" ELSE "ok"
    IN  /\ promise' = [p \in Id |->
               IF t[p].st # "pending" THEN t[p]
               ELSE [t[p] EXCEPT !.ok = @ \o handlers("ok", waiting(p)),
                                 !.err = @ \o handlers("err", waiting(p))]]
        /\ micro' = micro \o [k \in DOMAIN ready |->
               LET v == items[ready[k]]
               IN  Given(Handler(d, side(v), ready[k]), outcome(v).val)]

(* run_aggregate.  Without items the outcome is queued; гонка refuses.     *)
VmAggregateEmpty(d, kind) ==
    /\ kind # "race"
    /\ promise' = [promise EXCEPT ![d] = Pending("chain")]
    /\ micro' = Append(micro, IF kind = "any"
                              THEN Given(Callback("cap", d, "err", 0), ManyErrors)
                              ELSE Given(Callback("cap", d, "ok", 0), ResultArray))
    /\ agg' = [agg EXCEPT ![d] = [Unused EXCEPT !.kind = kind]]

VmAggregate ==
    \E d \in Id, kind \in Kind, n \in 0 .. MaxItems :
        /\ Calls(kind)
        /\ Fresh(d)
        /\ \/ n = 0 /\ VmAggregateEmpty(d, kind)
           \/ /\ n > 0
              /\ \E items \in [1 .. n -> Passable] :
                     /\ AttachEach([promise EXCEPT ![d] = Pending("agg")], d, items)
                     /\ agg' = [agg EXCEPT ![d] =
                            [kind |-> kind, remaining |-> n, settled |-> FALSE, items |-> items,
                             results |-> [i \in 1 .. n |-> "none"]]]
        /\ UNCHANGED <<stack, co, dropped>>

(* The arms of apply_aggregate that put a result in its place and count;   *)
(* the others settle the promise at once.                                  *)
Counts(kind, side) ==
    <<kind, side>> \in {<<"all", "ok">>, <<"allSettled", "ok">>, <<"allSettled", "err">>, <<"any", "err">>}

ApplySettled ==
    /\ agg[Job.p].settled
    /\ micro' = Tail(micro)
    /\ UNCHANGED <<promise, stack, loop, dropped, agg>>

ApplyCounts ==
    LET a == agg[Job.p]
        left == a.remaining - 1
    IN  /\ ~a.settled /\ Counts(a.kind, Job.side)
        /\ agg' = [agg EXCEPT ![Job.p] =
               [a EXCEPT !.results[Job.arg] = Job.side, !.remaining = left, !.settled = left = 0]]
        /\ \/ left > 0 /\ micro' = Tail(micro) /\ UNCHANGED <<promise, stack, loop, dropped>>
           \/ left = 0 /\ a.kind = "any" /\ SettleLast(Tail(micro), stack, Job.p, "err", ManyErrors)
           \/ left = 0 /\ a.kind # "any" /\ SettleLast(Tail(micro), stack, Job.p, "ok", ResultArray)

ApplyDecides ==
    /\ ~agg[Job.p].settled /\ ~Counts(agg[Job.p].kind, Job.side)
    /\ agg' = [agg EXCEPT ![Job.p].settled = TRUE]
    /\ SettleLast(Tail(micro), stack, Job.p, Job.side, Job.val)

VmRunAggregate ==
    /\ Draining /\ micro # << >> /\ Job.op = "agg"
    /\ ApplySettled \/ ApplyCounts \/ ApplyDecides
    /\ UNCHANGED <<co, calls>>

(***************************************************************************)
(* Draining the microtask queue (drain_microtasks and call_value).         *)
(***************************************************************************)

(* PromiseCapability, and invoke_handler without a handler.                *)
VmRunSettler ==
    /\ Job.op = "cap" \/ (Job.op = "then" /\ Job.arg = 0)
    /\ SettleLast(Tail(micro), stack, Job.p, Job.side, Job.val)
    /\ UNCHANGED co

(* Handlers and callbacks call script code.                                *)
VmRunCallback ==
    /\ Job.op \in {"task", "quiet", "finally"} \/ (Job.op = "then" /\ Job.arg = 1)
    /\ stack' = Append(stack, Job)
    /\ micro' = Tail(micro)
    /\ UNCHANGED <<promise, co, loop, dropped>>

(* AsyncResume: step_coroutine puts the body's region in place and goes on.*)
VmRunResume ==
    /\ Job.op = "resume"
    /\ stack' = Append(stack, [Job EXCEPT !.op = "body", !.arg = 1])
    /\ micro' = Tail(micro)
    /\ co' = [co EXCEPT ![Job.p] = "running"]
    /\ UNCHANGED <<promise, loop, dropped>>

VmRunJob ==
    /\ Draining /\ micro # << >>
    /\ VmRunSettler \/ VmRunCallback \/ VmRunResume
    /\ UNCHANGED calls

(***************************************************************************)
(* Timers: the machine's own MacrotaskQueue, with the state of Timers.     *)
(***************************************************************************)

Cancelled(e) == e.id \in cancelled
Earlier(a, b) == a.deadline < b.deadline \/ (a.deadline = b.deadline /\ a.seq < b.seq)
AtTop(e) == \A f \in heap \ {e} : Earlier(e, f)
NothingLeft == \A e \in heap : Cancelled(e)        \* is_empty

(* schedule and schedule_with_id, after allocate_id.                       *)
VmPush(id, delay, every, task) ==
    /\ nextSeq < MaxSeq /\ now + delay <= Horizon
    /\ heap' = heap \cup {[deadline |-> now + delay, seq |-> nextSeq, id |-> id,
                           every |-> every, task |-> task]}
    /\ nextSeq' = nextSeq + 1

VmSchedule(delay, every, task) == VmPush(nextId, delay, every, task) /\ nextId' = nextId + 1

(* чутка and интервал.                                                     *)
VmSetTimer ==
    /\ \E delay \in Delay :
        \/ Calls("timeout") /\ VmSchedule(delay, Once, 0)
        \/ Calls("interval") /\ VmSchedule(delay, delay, 0)
    /\ UNCHANGED <<promise, micro, stack, co, dropped, cancelled, now, running, last>>

(* отменаЧутки and отменаИнтервала.                                        *)
VmClearTimer ==
    /\ Calls("clear")
    /\ \E id \in TM!TimerId : cancelled' = cancelled \cup {id}
    /\ UNCHANGED <<promise, micro, stack, co, dropped, heap, nextId, nextSeq, now, running, last>>

(* подождать (builtin_wait_promise).                                       *)
VmWait ==
    \E p \in Id, delay \in Delay :
        /\ Calls("wait")
        /\ Created(p, Pending("timer"))
        /\ VmSchedule(delay, Once, p)
        /\ UNCHANGED <<micro, stack, co, dropped, cancelled, now, running, last>>

(* next_deadline takes the first entry of the heap's array that is not     *)
(* cancelled: the top, or any below a top that is.                         *)
MayWakeFor(e) == ~Cancelled(e) /\ (AtTop(e) \/ \E c \in heap : Cancelled(c) /\ AtTop(c))

(* pop_next_blocking sleeps until that entry's deadline, and pop_ready     *)
(* drops the cancelled entries above the first live one, due.              *)
PopReady(due) ==
    /\ ~Cancelled(due)
    /\ \A e \in heap : Earlier(e, due) => Cancelled(e)
    /\ \E e \in heap :
           /\ MayWakeFor(e)
           /\ now' = IF e.deadline > now THEN e.deadline ELSE now
    /\ heap' = {e \in heap : Earlier(due, e)}

(* drive_event_loop, and do_await while its promise is pending.            *)
VmStartTimer ==
    /\ Draining /\ micro = << >>
    /\ stack # << >> => promise[Top.p].st = "pending"
    /\ \E due \in heap :
           /\ PopReady(due)
           /\ running' = Append(running, due)
           /\ last' = [deadline |-> due.deadline, seq |-> due.seq]
           /\ stack' = Append(stack, IF due.task = 0 THEN Call("timer", 0) ELSE Call("wake", due.task))
    /\ UNCHANGED <<promise, micro, co, calls, loop, dropped, cancelled, nextId, nextSeq>>

Task == running[Len(running)]
TaskDone == running' = SubSeq(running, 1, Len(running) - 1)

(* The callback of чутка or интервал ends, its error only reported; the    *)
(* interval goes on unless it was cancelled (schedule_interval_tick).      *)
VmEndTimer ==
    /\ InScript /\ Top.op = "timer"
    /\ stack' = Rest
    /\ TaskDone
    /\ IF Task.every = Once \/ Cancelled(Task)
       THEN UNCHANGED <<heap, nextSeq>>
       ELSE VmPush(Task.id, Task.every, Task.every, Task.task)
    /\ UNCHANGED <<promise, micro, co, calls, loop, dropped, cancelled, nextId, now, last>>

(* The task of подождать resolves its promise.                             *)
VmWake ==
    /\ loop = "running" /\ stack # << >> /\ Top.op = "wake"
    /\ SettlePromise(micro, Top.p, "ok", Undef)
    /\ stack' = Rest
    /\ TaskDone
    /\ UNCHANGED <<co, calls, loop, dropped, heap, cancelled, nextId, nextSeq, now, last>>

(***************************************************************************)
(* The end of a wait, and of the program.                                  *)
(***************************************************************************)

(* do_await, when its promise is settled, or nothing is left to settle it. *)
VmAwaitReturns ==
    /\ Draining /\ stack # << >> /\ micro = << >>
    /\ promise[Top.p].st # "pending" \/ NothingLeft
    /\ stack' = Rest
    /\ UNCHANGED <<promise, micro, co, calls, loop, dropped>>

(* drive_event_loop.                                                       *)
VmLoopEnds ==
    /\ Draining /\ stack = << >> /\ micro = << >>
    /\ NothingLeft
    /\ loop' = "done"
    /\ UNCHANGED <<promise, micro, stack, co, calls, dropped>>

VmScript == VmApiCall \/ VmReturn \/ VmThrow \/ VmFail \/ VmAwaitRefused
VmDrain == VmRunJob \/ VmAwaitReturns \/ VmLoopEnds
VmTimers == VmSetTimer \/ VmClearTimer \/ VmWait \/ VmStartTimer \/ VmEndTimer \/ VmWake

VmNext ==
    \/ (VmScript \/ VmDrain) /\ UNCHANGED <<agg, timerVars>>
    \/ (VmAggregate \/ VmRunAggregate) /\ UNCHANGED timerVars
    \/ (VmTimers \/ Tick) /\ UNCHANGED agg
    \/ LoopEnded /\ UNCHANGED agg

VmSpec == VmInit /\ [][VmNext]_vmVars

(***************************************************************************)
(* Properties.                                                             *)
(***************************************************************************)

(* "Bytecode VM: stack backend at full parity with the interpreter"        *)
(* (README.md:109): whatever the machine does with promises, queues,       *)
(* combinators, coroutines and timers, the interpreter may do, in the same *)
(* order and with the same outcome (promise.rs, and vm.rs from spawn_async *)
(* to builtin_wait_promise).                                               *)
InterpreterStep ==
    \/ (Aggregate \/ RunAggregate) /\ UNCHANGED timerVars
    \/ LoopNext /\ UNCHANGED agg

RunsAsInterpreter == AggInit /\ LoopInit /\ [][InterpreterStep]_vmVars
=============================================================================
