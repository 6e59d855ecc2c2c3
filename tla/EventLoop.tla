----------------------------- MODULE EventLoop -----------------------------
(***************************************************************************)
(* The event loop: promises and microtasks (PromiseJobs) together with     *)
(* the macrotask queue (Timers), as drive_event_loop and do_await of the   *)
(* tree-walking interpreter run them.                                      *)
(*                                                                         *)
(* A timer's callback is a call on `stack' like any other, so it may await *)
(* in its own turn, which starts further timers underneath it.  Timers'    *)
(* `running' holds the tasks of the timer calls on the stack, bottom       *)
(* first.  A timer runs a callback (task 0), resolves the promise of       *)
(* подождать that it was made for, or aborts a signal.                     *)
(***************************************************************************)
EXTENDS PromiseJobs

CONSTANTS
    Delay,      \* the delays programs ask for
    Once,       \* the period of a timer that is not an interval
    Horizon,    \* bound: the clock stops here
    MaxSeq,     \* bound: how many times anything is scheduled
    Signal      \* abort signals, for timers that abort one (see AbortSignals)

ASSUME LoopAssumption ==
    Delay \subseteq Nat /\ Once \notin Nat /\ Horizon \in Nat /\ MaxSeq \in Nat

VARIABLES heap, cancelled, nextId, nextSeq, now, running, last

TM == INSTANCE Timers WITH Task <- (0 .. MaxPromise) \cup Signal, MaxNest <- MaxAwait + 1

timerVars == <<heap, cancelled, nextId, nextSeq, now, running, last>>
loopVars == <<promise, micro, stack, co, calls, loop, dropped, timerVars>>

LoopInit == PromiseInit /\ TM!TimerInit

(***************************************************************************)
(* What script code calls.                                                 *)
(***************************************************************************)

(* чутка and интервал.                                                     *)
SetTimer ==
    /\ \E delay \in Delay :
        \/ Calls("timeout") /\ TM!Schedule(delay, Once, 0)
        \/ Calls("interval") /\ TM!Schedule(delay, delay, 0)
    /\ UNCHANGED <<promise, micro, stack, co, dropped, cancelled, now, running, last>>

(* отменаЧутки and отменаИнтервала, with any number.                       *)
ClearTimer ==
    /\ Calls("clear")
    /\ \E id \in TM!TimerId : TM!Cancel(id)
    /\ UNCHANGED <<promise, micro, stack, co, dropped, heap, nextId, nextSeq, now, running, last>>

(* подождать (make_timer_promise).                                         *)
Wait ==
    \E p \in Id, delay \in Delay :
        /\ Calls("wait")
        /\ Fresh(p)
        /\ promise' = [promise EXCEPT ![p] = Pending("timer")]
        /\ TM!Schedule(delay, Once, p)
        /\ UNCHANGED <<micro, stack, co, dropped, cancelled, now, running, last>>

TimerCall == SetTimer \/ ClearTimer \/ Wait

(***************************************************************************)
(* The loop.                                                               *)
(***************************************************************************)

(* The call a task makes.                                                  *)
TaskCall(task) ==
    IF task \in Id THEN Call("wake", task)
    ELSE IF task \in Signal THEN Call("wake", 0) ELSE Call("timer", 0)

(* Once the microtask queue is empty, drive_event_loop, or do_await while  *)
(* its promise is pending, waits for the next live timer and runs it.      *)
StartTimer ==
    /\ Draining /\ micro = << >>
    /\ stack # << >> => promise[Top.p].st = "pending"
    /\ TM!Start
    /\ stack' = Append(stack, TaskCall(running'[Len(running')].task))
    /\ UNCHANGED <<promise, micro, co, calls, loop, dropped>>

(* A callback returns or fails (which is only reported); an interval then  *)
(* re-arms.                                                                *)
EndTimer ==
    /\ InScript /\ Top.op = "timer"
    /\ stack' = Rest
    /\ TM!FinishOnce \/ TM!FinishTick
    /\ UNCHANGED <<promise, micro, co, calls, loop, dropped>>

WakeSilently ==                             \* the promise is not settled
    /\ loop = "running" /\ stack # << >> /\ Top.op = "wake" /\ Top.p \in Id
    /\ stack' = Rest
    /\ TM!FinishOnce
    /\ UNCHANGED <<promise, micro, co, calls, loop, dropped>>

(* The task of a timer promise resolves it.                                *)
Wake ==
    /\ loop = "running" /\ stack # << >> /\ Top.op = "wake" /\ Top.p \in Id
    /\ SettleAfter(micro, Top.p, "ok", Undef)
    /\ stack' = Rest
    /\ TM!FinishOnce
    /\ UNCHANGED <<co, calls, loop, dropped>>

ExhaustedEmpty == heap = {} /\ (AwaitStarves \/ LoopEnds)   \* cancelled timers count

(* The loop ends, and a blocking await fails, when no timer is left.       *)
Exhausted == TM!Quiet /\ (AwaitStarves \/ LoopEnds)

(* Time passes.                                                            *)
Tick == loop = "running" /\ TM!Tick /\ UNCHANGED promiseVars

(* Nothing follows where the bounds keep an interval from re-arming.       *)
LoopEnded == (loop # "running" \/ TM!Stuck) /\ UNCHANGED loopVars

LoopNext ==
    \/ TimerCall \/ StartTimer \/ EndTimer \/ Wake \/ Tick \/ LoopEnded
    \/ (ApiCall \/ Return \/ Throw \/ Fail \/ RunJob \/ AwaitReturns \/ Exhausted) /\ UNCHANGED timerVars

LoopSpec == LoopInit /\ [][LoopNext]_loopVars

(* The interpreter never pauses, and script code ends.                     *)
LoopFairness ==
    /\ WF_loopVars(Return /\ UNCHANGED timerVars)
    /\ WF_loopVars(EndTimer)
    /\ WF_loopVars(StartTimer \/ Wake)
    /\ WF_loopVars((RunJob \/ AwaitReturns \/ Exhausted) /\ UNCHANGED timerVars)

FairLoopSpec == LoopSpec /\ LoopFairness

(***************************************************************************)
(* Properties.                                                             *)
(***************************************************************************)

(* Tasks start in the order of (deadline, seq), across callbacks that      *)
(* schedule more, oversleeping, and nested awaits: whatever is still       *)
(* queued comes after the task started last (pop_next_blocking).           *)
FireOrder == TM!FireOrder

(* Cancelling sticks: from then on the timer neither starts nor re-arms,   *)
(* even when its own callback cancels it or the loop sleeps on it          *)
(* (pop_ready, schedule_interval_tick).                                    *)
CancelSticks == TM!CancelSticks

TimerCalls == {n \in DOMAIN stack : stack[n].op \in {"timer", "wake"}}

(* The tasks in progress are the timer calls on the stack, in that order   *)
(* (`at' says where), whatever awaits, errors and returns did to it; and a *)
(* timer starts inside another only underneath a blocking await.           *)
TimersNest ==
    /\ \E at \in [DOMAIN running -> TimerCalls] :
           /\ \A n \in TimerCalls : \E i \in DOMAIN running : at[i] = n
           /\ \A i, j \in DOMAIN running : i < j => at[i] < at[j]
           /\ \A i \in DOMAIN running : stack[at[i]] = TaskCall(running[i].task)
    /\ Len(running) <= AwaitDepth + 1
    /\ AwaitDepth <= MaxAwait

Due(d) == {e \in heap : e.task = d}
InTask(d) == {i \in DOMAIN running : running[i].task = d}

(* A promise of подождать is pending exactly while its timer is scheduled  *)
(* or running: it is neither settled early, nor forgotten (unless the      *)
(* program cancels a timer by its number), nor left with a timer that      *)
(* fires after it was settled.                                             *)
WaitHasTimer ==
    \A d \in Id :
        promise[d].by = "timer" =>
            IF promise[d].st = "pending"
            THEN Cardinality(Due(d)) + Cardinality(InTask(d)) = 1 \/ cancelled # {}
            ELSE Due(d) = {} /\ InTask(d) = {}

(* Timers, their callbacks and the promises waiting for them match, at any *)
(* depth of awaits within callbacks (promise_rt.rs drain and               *)
(* make_timer_promise, event_loop.rs).                                     *)
TimersAccounted == TimersNest /\ WaitHasTimer

(* A program that makes finitely many calls ends, unless an interval keeps *)
(* it going.                                                               *)
LoopProgramEnds == <>(loop # "running" \/ TM!Stuck)

(* A blocking await whose promise is settled returns, however deeply       *)
(* timers and further awaits are nested above it.                          *)
Awaiting(n) == n <= Len(stack) /\ stack[n].op = "await"
AwaitResumes ==
    \A n \in 2 .. 2 * MaxAwait :
        (Awaiting(n) /\ promise[stack[n].p].st # "pending") ~>
            (~Awaiting(n) \/ loop = "failed" \/ TM!Stuck)
=============================================================================
