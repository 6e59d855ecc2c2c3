--------------------------- MODULE AbortSignals ---------------------------
(***************************************************************************)
(* Abort controllers and signals (stdlib/abort.rs) and what they do to     *)
(* timers and promises, over the event loop.                               *)
(*                                                                         *)
(* Aborting a signal takes its whole list of listeners and fires them one  *)
(* by one inside the call.  A script listener may itself call anything,    *)
(* await, or abort other signals, so firings nest: each is a call "abort"  *)
(* on `stack', and `firing' holds what is left to fire, bottom first.      *)
(*                                                                         *)
(* A combined signal (любой) is referenced from its sources only weakly:   *)
(* once the program drops it, they no longer reach it.                     *)
(***************************************************************************)
EXTENDS EventLoop

SX == INSTANCE SequencesExt

CONSTANTS
    MaxToken,   \* bound: listeners ever added to one signal
    MaxSources  \* bound: signals combined into one

ASSUME SignalAssumption == Signal \cap Nat = {} /\ MaxToken \in Nat /\ MaxSources \in Nat

VARIABLES
    signal,     \* the AbortState of each signal
    firing,     \* the aborts in progress: a signal and the listeners to come
    guard       \* history: the timers and promises made with a signal

abortVars == <<loopVars, signal, firing, guard>>

(* What a listener does when it fires: run script code, cancel a timer,    *)
(* reject a promise, or abort a combined signal.                           *)
Listener == [what : {"script", "timer", "reject", "signal"}, token : 0 .. MaxToken,
             ref : {0} \cup TM!TimerId \cup Id \cup Signal]

SignalRec == [st : {"unborn", "live", "aborted", "dropped"}, reason : Value,
              listeners : Seq(Listener), next : 0 .. MaxToken, promise : 0 .. MaxPromise,
              by : {"controller", "timeout", "any"}, of : SUBSET Signal]

NewSignal(by, of) == [st |-> "live", reason |-> Undef, listeners |-> << >>, next |-> 0,
                      promise |-> 0, by |-> by, of |-> of]

AbortInit ==
    /\ LoopInit
    /\ signal = [s \in Signal |-> [NewSignal("controller", {}) EXCEPT !.st = "unborn"]]
    /\ firing = << >>
    /\ guard = {}

(* A new signal takes the first free name: which it is, makes no           *)
(* difference.                                                             *)
New(s) ==
    /\ signal[s].st = "unborn"
    /\ s = CHOOSE a \in Signal : signal[a].st = "unborn"

Usable(s) == signal[s].st \in {"live", "aborted"}
Aborted(s) == signal[s].st = "aborted"

(* The signal record with one more listener.                               *)
Heard(r, what, ref) ==
    [r EXCEPT !.listeners = Append(@, [what |-> what, token |-> r.next, ref |-> ref]),
              !.next = @ + 1]

Room(s, n) == signal[s].next + n <= MaxToken

(***************************************************************************)
(* Aborting.                                                               *)
(***************************************************************************)

AbortKeeps(base, rest, s, reason) ==        \* the listeners are copied, not taken
    IF signal[s].st = "live"
    THEN /\ signal' = [signal EXCEPT ![s].st = "aborted", ![s].reason = reason]
         /\ stack' = Append(base, Call("abort", 0))
         /\ firing' = Append(rest, [s |-> s, listeners |-> signal[s].listeners])
    ELSE stack' = base /\ firing' = rest /\ UNCHANGED signal

(* abort_state, called in front of the calls in base: the first abort      *)
(* takes the listeners, any other does nothing.                            *)
AbortState(base, rest, s, reason) ==
    IF signal[s].st = "live"
    THEN /\ signal' = [signal EXCEPT ![s].st = "aborted", ![s].reason = reason, ![s].listeners = << >>]
         /\ stack' = Append(base, Call("abort", 0))
         /\ firing' = Append(rest, [s |-> s, listeners |-> signal[s].listeners])
    ELSE stack' = base /\ firing' = rest /\ UNCHANGED signal

LastFiring == firing[Len(firing)]
FiringRest == SubSeq(firing, 1, Len(firing) - 1)

(* fire_listener for the next listener of the innermost abort.             *)
FireNext(l, left) ==
    LET s == LastFiring.s
    IN  \/ /\ l.what = "script"
           /\ stack' = Append(stack, Call("quiet", 0)) /\ firing' = left
           /\ UNCHANGED <<signal, promise, micro, cancelled>>
        \/ /\ l.what = "timer"
           /\ TM!Cancel(l.ref)
           /\ firing' = left
           /\ UNCHANGED <<signal, stack, promise, micro>>
        \/ /\ l.what = "reject"
           /\ SettleAfter(micro, l.ref, "err", signal[s].reason)
           /\ firing' = left
           /\ UNCHANGED <<signal, stack, cancelled>>
        \/ /\ l.what = "signal"
           /\ AbortState(stack, left, l.ref, signal[s].reason)
           /\ UNCHANGED <<promise, micro, cancelled>>

InAbort == loop = "running" /\ stack # << >> /\ Top.op = "abort"

FireListenerKept ==                         \* the listener stays in the list
    /\ InAbort
    /\ LastFiring.listeners # << >>
    /\ FireNext(Head(LastFiring.listeners), firing)
    /\ UNCHANGED <<co, calls, loop, dropped, guard, heap, nextId, nextSeq, now, running, last>>

FireListener ==
    /\ InAbort
    /\ LastFiring.listeners # << >>
    /\ FireNext(Head(LastFiring.listeners),
                Append(FiringRest, [LastFiring EXCEPT !.listeners = Tail(@)]))
    /\ UNCHANGED <<co, calls, loop, dropped, guard, heap, nextId, nextSeq, now, running, last>>

AbortReturnsEarly ==                        \* a listener ends the abort
    /\ InAbort
    /\ stack' = Rest /\ firing' = FiringRest
    /\ UNCHANGED <<promise, micro, co, calls, loop, dropped, guard, signal, timerVars>>

AbortReturns ==
    /\ InAbort
    /\ LastFiring.listeners = << >>
    /\ stack' = Rest /\ firing' = FiringRest
    /\ UNCHANGED <<promise, micro, co, calls, loop, dropped, guard, signal, timerVars>>

(* The task of отВремени aborts its signal.                                *)
TimeoutFires ==
    /\ loop = "running" /\ stack # << >> /\ Top.op = "wake" /\ Top.p = 0
    /\ LET s == running[Len(running)].task
       IN  IF signal[s].st = "live"
           THEN AbortState(stack, firing, s, HostError) /\ UNCHANGED timerVars
           ELSE stack' = Rest /\ TM!FinishOnce /\ UNCHANGED <<signal, firing>>
    /\ UNCHANGED <<promise, micro, co, calls, loop, dropped, guard>>

(***************************************************************************)
(* What script code calls.                                                 *)
(***************************************************************************)

NewController ==
    \E s \in Signal :
        /\ Calls("controller")
        /\ New(s)
        /\ signal' = [signal EXCEPT ![s] = NewSignal("controller", {})]
        /\ UNCHANGED <<promise, micro, stack, co, dropped, firing, guard, timerVars>>

(* отменить, of a controller: the other signals have none.                 *)
Abort ==
    \E s \in Signal, reason \in Passable :
        /\ Calls("abort")
        /\ Usable(s) /\ signal[s].by = "controller"
        /\ AbortState(stack, firing, s, reason)
        /\ UNCHANGED <<promise, micro, co, dropped, guard, timerVars>>

(* подписатьсяНаОтмену.                                                    *)
Subscribe ==
    \E s \in Signal :
        /\ Calls("subscribe")
        /\ Usable(s) /\ Room(s, 1)
        /\ IF Aborted(s)
           THEN micro' = Append(micro, Call("task", 0)) /\ UNCHANGED signal
           ELSE signal' = [signal EXCEPT ![s] = Heard(@, "script", 0)] /\ UNCHANGED micro
        /\ UNCHANGED <<promise, stack, co, dropped, firing, guard, timerVars>>

(* The function it returned removes the listener with its token; there is  *)
(* one at most (ListenersOnce).                                            *)
Unsubscribe ==
    \E s \in Signal, i \in 1 .. MaxToken :
        /\ Calls("unsubscribe")
        /\ Usable(s)
        /\ i \in DOMAIN signal[s].listeners /\ signal[s].listeners[i].what = "script"
        /\ signal' = [signal EXCEPT ![s].listeners = SX!RemoveAt(@, i)]
        /\ UNCHANGED <<promise, micro, stack, co, dropped, firing, guard, timerVars>>

AskedAfterFirst(a, from, n) == {i \in 2 .. n : from[i] = a}     \* counted from one

(* Where signal a stands among the first n of the sources `from'.          *)
Asked(a, from, n) == {i \in 1 .. n : from[i] = a}

(* The signal record with a listener for a combined signal ref for each    *)
(* time it was asked.                                                      *)
HeardTimes(r, times, ref) ==
    [r EXCEPT !.listeners = @ \o [i \in 1 .. times |->
                                     [what |-> "signal", token |-> r.next + i - 1, ref |-> ref]],
              !.next = @ + times]

(* СигналОтмены.любой (signal_any): listens to its sources in their order, *)
(* up to the first that is aborted already, which aborts it before it has  *)
(* any listener.                                                           *)
SignalAny ==
    \E s \in Signal, from \in SX!BoundedSeq({a \in Signal : Usable(a)}, MaxSources) :
      \E n \in 0 .. Len(from) :
        LET new == NewSignal("any", {from[i] : i \in DOMAIN from})
        IN  /\ Calls("any")
            /\ New(s)
            /\ \A i \in 1 .. n : ~Aborted(from[i])
            /\ n < Len(from) => Aborted(from[n + 1])
            /\ \A i \in 1 .. n : Room(from[i], Cardinality(Asked(from[i], from, n)))
            /\ signal' = [a \in Signal |->
                   IF a # s THEN HeardTimes(signal[a], Cardinality(Asked(a, from, n)), s)
                   ELSE IF n = Len(from) THEN new
                   ELSE [new EXCEPT !.st = "aborted", !.reason = signal[from[n + 1]].reason]]
            /\ UNCHANGED <<promise, micro, stack, co, dropped, firing, guard, timerVars>>

(* The program drops its last reference to a combined signal: nothing else *)
(* keeps it.                                                               *)
DropSignal ==
    \E s \in Signal :
        /\ Calls("drop")
        /\ signal[s].by = "any" /\ Usable(s)
        /\ \A i \in DOMAIN firing : firing[i].s # s
        /\ signal' = [signal EXCEPT ![s].st = "dropped", ![s].listeners = << >>]
        /\ UNCHANGED <<promise, micro, stack, co, dropped, firing, guard, timerVars>>

(* СигналОтмены.отВремени.                                                 *)
TimeoutSignal ==
    \E s \in Signal, delay \in Delay :
        /\ Calls("timeoutSignal")
        /\ New(s)
        /\ signal' = [signal EXCEPT ![s] = NewSignal("timeout", {})]
        /\ TM!Schedule(delay, Once, s)
        /\ UNCHANGED <<promise, micro, stack, co, dropped, firing, guard, cancelled, now, running, last>>

(* сигнал.обещание and СловоПацана.отПодождать: made once.                 *)
SignalPromise ==
    \E s \in Signal, p \in Id :
        /\ Calls("signalPromise")
        /\ Usable(s) /\ signal[s].promise = 0 /\ Fresh(p) /\ Room(s, 1)
        /\ IF Aborted(s)
           THEN /\ promise' = [promise EXCEPT ![p] = Closed(Pending("signal"), "rejected", signal[s].reason)]
                /\ signal' = [signal EXCEPT ![s].promise = p]
           ELSE /\ promise' = [promise EXCEPT ![p] = Pending("signal")]
                /\ signal' = [signal EXCEPT ![s] = [Heard(@, "reject", p) EXCEPT !.promise = p]]
        /\ UNCHANGED <<micro, stack, co, dropped, firing, guard, timerVars>>

Guarded(s, id, p) == guard' = guard \cup {[s |-> s, id |-> id, p |-> p]}

(* чутка and интервал with {сигнал}.                                       *)
SetTimerWithSignal ==
    \E s \in Signal, delay \in Delay, every \in Delay \cup {Once} :
        /\ Calls("signalTimer")
        /\ Usable(s) /\ Room(s, 1) /\ every \in {Once, delay}
        /\ IF Aborted(s)
           THEN UNCHANGED <<signal, guard, heap, nextId, nextSeq>>
           ELSE /\ TM!Schedule(delay, every, 0)
                /\ signal' = [signal EXCEPT ![s] = Heard(@, "timer", nextId)]
                /\ Guarded(s, nextId, 0)
        /\ UNCHANGED <<promise, micro, stack, co, dropped, firing, cancelled, now, running, last>>

(* подождать with {сигнал} (make_timer_promise).                           *)
WaitWithSignal ==
    \E s \in Signal, p \in Id, delay \in Delay :
        /\ Calls("signalWait")
        /\ Usable(s) /\ Fresh(p) /\ Room(s, 2)
        /\ promise' = [promise EXCEPT ![p] = Pending("timer")]
        /\ IF Aborted(s)
           THEN /\ micro' = Append(micro, Given(Callback("cap", p, "err", 0), signal[s].reason))
                /\ Guarded(s, 0, p)
                /\ UNCHANGED <<signal, heap, nextId, nextSeq>>
           ELSE /\ TM!Schedule(delay, Once, p)
                /\ signal' = [signal EXCEPT ![s] = Heard(Heard(@, "reject", p), "timer", nextId)]
                /\ Guarded(s, nextId, p)
                /\ UNCHANGED micro
        /\ UNCHANGED <<stack, co, dropped, firing, cancelled, now, running, last>>

SignalCall ==
    \/ NewController \/ Abort \/ Subscribe \/ Unsubscribe \/ SignalAny \/ DropSignal
    \/ TimeoutSignal \/ SignalPromise \/ SetTimerWithSignal \/ WaitWithSignal

AbortNext ==
    \/ SignalCall \/ FireListener \/ AbortReturns \/ TimeoutFires
    \/ LoopNext /\ UNCHANGED <<signal, firing, guard>>

AbortSpec == AbortInit /\ [][AbortNext]_abortVars

(* The interpreter never pauses, and script code ends.                     *)
AbortFairness ==
    /\ WF_abortVars(Return /\ UNCHANGED <<timerVars, signal, firing, guard>>)
    /\ WF_abortVars(EndTimer /\ UNCHANGED <<signal, firing, guard>>)
    /\ WF_abortVars((StartTimer \/ Wake) /\ UNCHANGED <<signal, firing, guard>>)
    /\ WF_abortVars((RunJob \/ AwaitReturns \/ Exhausted) /\ UNCHANGED <<timerVars, signal, firing, guard>>)
    /\ WF_abortVars(FireListener \/ AbortReturns \/ TimeoutFires)

FairAbortSpec == AbortSpec /\ AbortFairness

(***************************************************************************)
(* Properties.                                                             *)
(***************************************************************************)

InFiring(s) == {i \in DOMAIN firing : firing[i].s = s}
Tokens(ls) == {ls[i].token : i \in DOMAIN ls}

(* However aborts nest in listeners and awaits, each listener fires at     *)
(* most once and none is left behind: an aborted signal keeps no listener, *)
(* it is being fired by at most one of the aborts in progress, those are   *)
(* the abort calls on the stack, and no token is given twice.              *)
ListenersOnce ==
    /\ Len(firing) = Cardinality({i \in DOMAIN stack : stack[i].op = "abort"})
    /\ \A s \in Signal :
           /\ Cardinality(InFiring(s)) <= (IF Aborted(s) THEN 1 ELSE 0)
           /\ Aborted(s) => signal[s].listeners = << >>
           /\ Cardinality(Tokens(signal[s].listeners)) = Len(signal[s].listeners)
           /\ \A t \in Tokens(signal[s].listeners) : t < signal[s].next

(* Once the abort of a signal has returned, what was made with the signal  *)
(* is over: no timer of it is still to fire or to re-arm, and its promise  *)
(* is settled or about to be.                                              *)
AbortReaches ==
    \A g \in guard :
        Aborted(g.s) /\ InFiring(g.s) = {} =>
            /\ \A e \in heap : e.id = g.id => ~TM!Live(e)
            /\ g.p # 0 => promise[g.p].st # "pending" \/ Queued(g.p) # {}

(* A combined signal is aborted for the reason of one of its sources, and  *)
(* while it is live each source either is live or is still firing.         *)
CombinedFollows ==
    \A s \in Signal :
        signal[s].by = "any" =>
            /\ Aborted(s) => \E a \in signal[s].of : signal[a].reason = signal[s].reason /\ signal[a].st # "live"
            /\ signal[s].st = "live" =>
                   \A a \in signal[s].of : Aborted(a) => InFiring(a) # {}

(* An abort that has begun fires all its listeners and returns, although   *)
(* they may wait for promises and timers and abort further signals.        *)
AbortCompletes ==
    \A s \in Signal : InFiring(s) # {} ~> (InFiring(s) = {} \/ loop = "failed" \/ TM!Stuck)

=============================================================================
