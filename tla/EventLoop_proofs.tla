-------------------------- MODULE EventLoop_proofs --------------------------
(***************************************************************************)
(* What holds of the event loop for every program, any number of promises, *)
(* timers and nested awaits: seen from the queue of timers it is one of    *)
(* the callers Timers allows, timers, their callbacks and the promises     *)
(* that wait for them match, and what was proved of the promises and of    *)
(* the queue by themselves holds of the two together.                      *)
(***************************************************************************)
EXTENDS EventLoop, PromiseJobs_proofs

TP == INSTANCE Timers_proofs WITH Task <- (0 .. MaxPromise) \cup Signal, MaxNest <- MaxAwait + 1

(* The timer calls on a stack s are those of the tasks r, in that order.   *)
TimerOps == {"timer", "wake"}
Foreign == TimerOps \cup {"abort"}          \* calls that PromiseJobs does not make
Places(s) == {n \in DOMAIN s : s[n].op \in TimerOps}
Matches(at, s, r) ==
    /\ at \in [DOMAIN r -> Places(s)]
    /\ \A n \in Places(s) : \E i \in DOMAIN r : at[i] = n
    /\ \A i, j \in DOMAIN r : i < j => at[i] < at[j]
    /\ \A i \in DOMAIN r : s[at[i]] = TaskCall(r[i].task)
Nested(s, r) == \E at : Matches(at, s, r)

(* A timer's call is the first on the stack or stands on a blocking await. *)
OnAwait(s) == \A n \in Places(s) : n = 1 \/ s[n - 1].op = "await"

Awaits(s) == {n \in DOMAIN s : s[n].op = "await"}

(* A promise has a timer, scheduled or running, only while it waits for    *)
(* one; it has no more than one, and it has one unless timers were         *)
(* cancelled.                                                              *)
Single(d) ==
    /\ \A e, f \in Due(d) : e = f
    /\ \A i, j \in InTask(d) : i = j
    /\ Due(d) = {} \/ InTask(d) = {}
Timed ==
    \A d \in Id :
        /\ Single(d)
        /\ IF promise[d].by = "timer" /\ promise[d].st = "pending"
           THEN Due(d) # {} \/ InTask(d) # {} \/ cancelled # {}
           ELSE Due(d) = {} /\ InTask(d) = {}

Nests(s, r) == Nested(s, r) /\ OnAwait(s) /\ Cardinality(Awaits(s)) <= MaxAwait

(* The promises that timers settle are those that wait for one.            *)
ForWaits == \A d \in Id : Due(d) # {} \/ InTask(d) # {} => promise[d].by = "timer"

(* What holds also where something besides timers settles such promises    *)
(* (X is {}), and with what needs that nothing does (X is {"timer"}).      *)
LoopBase(X) == ObligationInv(X) /\ TP!TimerInv /\ Nests(stack, running) /\ ForWaits
LoopInv == LoopBase({"timer"}) /\ Timed

BaseNext(X) ==
    /\ ObligationInv(X)' /\ Nests(stack', running') /\ ForWaits'
    /\ X = {"timer"} /\ Timed => Timed'

(***************************************************************************)
(* Pushing and popping calls.                                              *)
(***************************************************************************)

LEMMA TaskCallFacts ==
  ASSUME NEW task
  PROVE  /\ TaskCall(task) \in Safe /\ TaskCall(task) \in Act
         /\ TaskCall(task).op \in TimerOps /\ TaskCall(task).op \notin Obliging
         /\ ~FromQueue(TaskCall(task)) /\ \A t : FrameOK(TaskCall(task), t)
         /\ TaskCall(task).op = "timer" => task \notin Id
         /\ TaskCall(task).op = "wake" /\ TaskCall(task).p \in Id => task = TaskCall(task).p
<1>1. \A op \in TimerOps, p \in 0 .. MaxPromise :
         /\ Call(op, p) \in Safe /\ Call(op, p) \in Act /\ Call(op, p).op = op /\ Call(op, p).p = p
  BY CallFacts DEF TimerOps, Settling, Op
<1>2. \E op \in TimerOps, p \in 0 .. MaxPromise :
         /\ TaskCall(task) = Call(op, p)
         /\ op = "timer" => task \notin Id
         /\ op = "wake" /\ p \in Id => task = p
  BY ValueFacts, BoundsAssumption DEF TaskCall, TimerOps, Id
<1> QED BY <1>1, <1>2 DEF TimerOps, Obliging, FromQueue, FrameOK

LEMMA PlacesPush ==
  ASSUME NEW s \in Seq(Act), NEW a \in Act, NEW w, Pushes(w, s, a)
  PROVE  /\ Len(s) \in Nat /\ Places(s) \subseteq 1 .. Len(s) /\ Len(s) + 1 \notin Places(s)
         /\ Places(w) = Places(s) \cup (IF a.op \in TimerOps THEN {Len(s) + 1} ELSE {})
         /\ Awaits(w) = Awaits(s) \cup (IF a.op = "await" THEN {Len(s) + 1} ELSE {})
         /\ w[Len(s) + 1] = a /\ \A n \in 1 .. Len(s) : w[n] = s[n]
<1>1. /\ Len(s) \in Nat /\ DOMAIN s = 1 .. Len(s)
      /\ DOMAIN w = 1 .. Len(s) + 1 /\ w[Len(s) + 1] = a
      /\ \A i \in 1 .. Len(s) : w[i] = s[i]
  BY PushPoints
<1>2. \A n : n \in 1 .. Len(s) + 1 <=> n \in 1 .. Len(s) \/ n = Len(s) + 1
  BY <1>1
<1>3. Len(s) + 1 \notin 1 .. Len(s)
  BY <1>1
<1> QED BY <1>1, <1>2, <1>3 DEF Places, Awaits

LEMMA NestedOther ==
  ASSUME NEW s \in Seq(Act), NEW a \in Act, NEW w, Pushes(w, s, a), a.op \notin TimerOps, NEW r
  PROVE  /\ Nested(w, r) <=> Nested(s, r)
         /\ OnAwait(w) <=> OnAwait(s)
<1>1. /\ Len(s) \in Nat /\ Places(s) \subseteq 1 .. Len(s) /\ Places(w) = Places(s)
      /\ \A n \in 1 .. Len(s) : w[n] = s[n]
  <2>1. Places(w) = Places(s) \cup {}
    BY PlacesPush
  <2> QED BY <2>1, PlacesPush
<1>2. ASSUME NEW at  PROVE Matches(at, w, r) <=> Matches(at, s, r)
  <2>1. ASSUME at \in [DOMAIN r -> Places(s)], NEW i \in DOMAIN r  PROVE w[at[i]] = s[at[i]]
    BY <1>1, <2>1
  <2> QED BY <1>1, <2>1 DEF Matches
<1>3. \A n \in Places(s) : n = 1 \/ w[n - 1] = s[n - 1]
  BY <1>1
<1> QED BY <1>1, <1>2, <1>3 DEF Nested, OnAwait

LEMMA NestedStart ==
  ASSUME NEW s \in Seq(Act), NEW S, NEW r \in Seq(S), NEW e \in S, NEW w,
         Pushes(w, s, TaskCall(e.task)), Waits(s), Nested(s, r), OnAwait(s)
  PROVE  Nested(w, Append(r, e)) /\ OnAwait(w)
<1> DEFINE a == TaskCall(e.task)
           q == Append(r, e)
<1>1. a \in Act /\ a.op \in TimerOps
  BY TaskCallFacts
<1>2. /\ Len(s) \in Nat /\ Places(s) \subseteq 1 .. Len(s) /\ Places(w) = Places(s) \cup {Len(s) + 1}
      /\ w[Len(s) + 1] = a /\ \A n \in 1 .. Len(s) : w[n] = s[n]
  BY <1>1, PlacesPush
<1>3. PICK at : Matches(at, s, r)
  BY DEF Nested
<1>4. /\ Len(r) \in Nat /\ DOMAIN r = 1 .. Len(r) /\ DOMAIN q = 1 .. Len(r) + 1
      /\ q[Len(r) + 1] = e /\ \A i \in 1 .. Len(r) : q[i] = r[i]
  OBVIOUS
<1> HIDE DEF a, q
<1> DEFINE to == [i \in 1 .. Len(r) + 1 |-> IF i = Len(r) + 1 THEN Len(s) + 1 ELSE at[i]]
<1>5. ASSUME NEW i \in 1 .. Len(r)
      PROVE  at[i] \in Places(s) /\ at[i] \in 1 .. Len(s) /\ to[i] = at[i]
  <2>1. at[i] \in Places(s)
    BY <1>3, <1>4 DEF Matches
  <2>2. i \in 1 .. Len(r) + 1 /\ i # Len(r) + 1
    BY <1>4
  <2> QED BY <1>2, <2>1, <2>2
<1>6. to[Len(r) + 1] = Len(s) + 1 /\ DOMAIN to = 1 .. Len(r) + 1
  BY <1>4
<1>7. \A i \in 1 .. Len(r) + 1 : i \in 1 .. Len(r) \/ i = Len(r) + 1
  BY <1>4
<1>8. to \in [DOMAIN q -> Places(w)]
  BY <1>2, <1>4, <1>5, <1>7
<1> HIDE DEF to
<1>9. ASSUME NEW n \in Places(w)  PROVE \E i \in DOMAIN q : to[i] = n
  <2>1. CASE n = Len(s) + 1
    BY <1>4, <1>6, <2>1
  <2>2. CASE n \in Places(s)
    <3>1. PICK i \in 1 .. Len(r) : at[i] = n
      BY <1>3, <1>4, <2>2 DEF Matches
    <3> QED BY <1>4, <1>5, <3>1
  <2> QED BY <1>2, <2>1, <2>2
<1>10. ASSUME NEW i \in DOMAIN q, NEW j \in DOMAIN q, i < j  PROVE to[i] < to[j]
  <2>1. i \in 1 .. Len(r) /\ (j \in 1 .. Len(r) \/ j = Len(r) + 1)
    BY <1>4, <1>10
  <2>2. CASE j \in 1 .. Len(r)
    <3>1. at[i] < at[j]
      BY <1>3, <1>4, <1>10, <2>1, <2>2 DEF Matches
    <3> QED BY <1>5, <2>1, <2>2, <3>1
  <2>3. CASE j = Len(r) + 1
    BY <1>2, <1>5, <1>6, <2>1, <2>3
  <2> QED BY <2>1, <2>2, <2>3
<1>11. ASSUME NEW i \in DOMAIN q  PROVE w[to[i]] = TaskCall(q[i].task)
  <2>1. CASE i = Len(r) + 1
    BY <1>2, <1>4, <1>6, <2>1 DEF a
  <2>2. CASE i \in 1 .. Len(r)
    <3>1. s[at[i]] = TaskCall(r[i].task)
      BY <1>3, <1>4, <2>2 DEF Matches
    <3> QED BY <1>2, <1>4, <1>5, <2>2, <3>1
  <2> QED BY <1>4, <1>7, <2>1, <2>2
<1>12. Matches(to, w, q)
  BY <1>8, <1>9, <1>10, <1>11 DEF Matches
<1>13. OnAwait(w)
  <2> SUFFICES ASSUME NEW n \in Places(w)  PROVE n = 1 \/ w[n - 1].op = "await"
    BY DEF OnAwait
  <2>1. CASE n = Len(s) + 1
    <3>1. CASE Len(s) = 0
      BY <2>1, <3>1
    <3>2. CASE Len(s) # 0
      <4>1. s # << >>
        BY <3>2
      <4>2. s[Len(s)].op = "await" /\ w[Len(s)] = s[Len(s)] /\ n - 1 = Len(s)
        BY <1>2, <2>1, <3>2, <4>1 DEF Waits
      <4> QED BY <4>2
    <3> QED BY <3>1, <3>2
  <2>2. CASE n \in Places(s)
    <3>1. n = 1 \/ (s[n - 1].op = "await" /\ n - 1 \in 1 .. Len(s))
      BY <1>2, <2>2 DEF OnAwait
    <3> QED BY <1>2, <3>1
  <2> QED BY <1>2, <2>1, <2>2
<1> QED BY <1>12, <1>13 DEF Nested, q

LEMMA NestedEnd ==
  ASSUME NEW s \in Seq(Act), NEW a \in Act, NEW w, Pushes(w, s, a), a.op \in TimerOps,
         NEW S, NEW r \in Seq(S), Nested(w, r), OnAwait(w)
  PROVE  /\ r # << >> /\ a = TaskCall(r[Len(r)].task)
         /\ Nested(s, SubSeq(r, 1, Len(r) - 1)) /\ OnAwait(s)
<1> DEFINE q == SubSeq(r, 1, Len(r) - 1)
           l == Len(s) + 1
<1>1. /\ Len(s) \in Nat /\ Places(s) \subseteq 1 .. Len(s) /\ Places(w) = Places(s) \cup {Len(s) + 1}
      /\ w[Len(s) + 1] = a /\ \A n \in 1 .. Len(s) : w[n] = s[n]
      /\ Len(s) + 1 \notin Places(s)
  BY PlacesPush
<1>2. PICK at : Matches(at, w, r)
  BY DEF Nested
<1>3. PICK k \in DOMAIN r : at[k] = l
  BY <1>1, <1>2 DEF Matches
<1>4. Len(r) \in Nat /\ DOMAIN r = 1 .. Len(r)
  OBVIOUS
<1>5. ASSUME NEW i \in 1 .. Len(r)  PROVE at[i] \in Nat /\ at[i] <= l /\ at[i] \in Places(w)
  <2>1. at[i] \in Places(w)
    BY <1>2, <1>4 DEF Matches
  <2> QED BY <1>1, <2>1
<1>6. k = Len(r)
  <2>1. ASSUME k < Len(r)  PROVE FALSE
    <3>1. Len(r) \in 1 .. Len(r)
      BY <1>3, <1>4
    <3>2. at[k] < at[Len(r)]
      BY <1>2, <1>3, <1>4, <2>1, <3>1 DEF Matches
    <3> QED BY <1>1, <1>3, <1>5, <3>1, <3>2
  <2> QED BY <1>3, <1>4, <2>1
<1>7. r # << >> /\ a = TaskCall(r[Len(r)].task)
  BY <1>1, <1>2, <1>3, <1>4, <1>6 DEF Matches
<1>8. /\ DOMAIN q = 1 .. Len(r) - 1 /\ \A i \in 1 .. Len(r) - 1 : q[i] = r[i] /\ i \in DOMAIN r
  BY <1>4, <1>7
<1> HIDE DEF q
<1> DEFINE to == [i \in 1 .. Len(r) - 1 |-> at[i]]
<1>9. ASSUME NEW i \in 1 .. Len(r) - 1
      PROVE  at[i] \in Places(s) /\ at[i] \in 1 .. Len(s) /\ to[i] = at[i] /\ i \in 1 .. Len(r)
  <2>1. i \in 1 .. Len(r) /\ i < Len(r)
    BY <1>4
  <2>2. at[i] < at[k]
    BY <1>2, <1>3, <1>4, <1>6, <2>1 DEF Matches
  <2>3. at[i] \in Places(w) /\ at[i] # l
    BY <1>1, <1>3, <1>5, <2>1, <2>2
  <2> QED BY <1>1, <2>1, <2>3
<1>10. to \in [DOMAIN q -> Places(s)]
  BY <1>8, <1>9
<1> HIDE DEF to
<1>11. ASSUME NEW n \in Places(s)  PROVE \E i \in DOMAIN q : to[i] = n
  <2>1. PICK i \in DOMAIN r : at[i] = n
    BY <1>1, <1>2 DEF Matches
  <2>2. i # Len(r)
    BY <1>1, <1>3, <1>6, <2>1
  <2>3. i \in 1 .. Len(r) - 1
    BY <1>4, <2>1, <2>2
  <2> QED BY <1>8, <1>9, <2>1, <2>3
<1>12. \A i, j \in DOMAIN q : i < j => to[i] < to[j]
  BY <1>2, <1>4, <1>8, <1>9 DEF Matches
<1>13. \A i \in DOMAIN q : s[to[i]] = TaskCall(q[i].task)
  BY <1>1, <1>2, <1>4, <1>8, <1>9 DEF Matches
<1>14. Matches(to, s, q)
  BY <1>10, <1>11, <1>12, <1>13 DEF Matches
<1>15. OnAwait(s)
  BY <1>1 DEF OnAwait
<1> QED BY <1>7, <1>14, <1>15 DEF Nested, q

(***************************************************************************)
(* The queue of timers.                                                    *)
(***************************************************************************)

LEMMA QueueAssumptions ==
  /\ Delay \subseteq Nat /\ Once \notin Nat /\ Horizon \in Nat /\ MaxSeq \in Nat
  /\ MaxAwait + 1 \in Nat /\ 0 \in 0 .. MaxPromise /\ Id \subseteq 0 .. MaxPromise
  /\ TP!TimerBounds
BY LoopAssumption, BoundsAssumption, ValueFacts DEF TP!TimerBounds

(* Whatever the loop does is a step of the queue, or leaves it alone.      *)
LEMMA QueueStep == [LoopNext]_loopVars => [TM!TimerNext]_TM!timerVars
<1> SUFFICES ASSUME [LoopNext]_loopVars  PROVE [TM!TimerNext]_TM!timerVars
  OBVIOUS
<1>1. CASE SetTimer
  BY <1>1, QueueAssumptions DEF SetTimer, TM!TimerNext, TM!SetTimer
<1>2. CASE ClearTimer
  BY <1>2 DEF ClearTimer, TM!TimerNext, TM!ClearTimer
<1>3. CASE Wait
  BY <1>3, QueueAssumptions DEF Wait, TM!TimerNext, TM!SetTimer
<1>4. CASE StartTimer \/ EndTimer \/ Wake \/ Tick
  BY <1>4 DEF StartTimer, EndTimer, Wake, Tick, TM!TimerNext
<1>5. CASE UNCHANGED timerVars
  BY <1>5 DEF timerVars, TM!timerVars
<1>6. CASE LoopEnded \/ UNCHANGED loopVars
  BY <1>6 DEF LoopEnded, loopVars, timerVars, TM!timerVars
<1> QED BY <1>1, <1>2, <1>3, <1>4, <1>5, <1>6 DEF LoopNext, TimerCall

LEMMA SameQueue == [TM!TimerNext]_TM!timerVars => [TP!TimerNext]_TP!timerVars
BY DEF TM!TimerNext, TP!TimerNext, TM!timerVars, TP!timerVars, TM!SetTimer, TP!SetTimer,
   TM!ClearTimer, TP!ClearTimer, TM!Start, TP!Start, TM!FinishOnce, TP!FinishOnce,
   TM!FinishTick, TP!FinishTick, TM!Tick, TP!Tick, TM!Schedule, TP!Schedule, TM!Push, TP!Push,
   TM!Cancel, TP!Cancel, TM!TimerId, TP!TimerId, TM!PopNext, TP!PopNext, TM!Live, TP!Live,
   TM!IsLeast, TP!IsLeast, TM!WakeAt, TP!WakeAt, TM!Before, TP!Before, TM!Top, TP!Top,
   TM!Below, TP!Below, TM!Rearm, TP!Rearm

LEMMA QueueInv == TP!TimerInv /\ [LoopNext]_loopVars => TP!TimerInv'
BY QueueStep, SameQueue, TP!TimerStepInv, QueueAssumptions

LEMMA QueueInit == TM!TimerInit => TP!TimerInv
BY TP!TimerInitInv, QueueAssumptions DEF TM!TimerInit, TP!TimerInit

LEMMA QueueFacts ==
  ASSUME TP!TimerInv
  PROVE  /\ running \in Seq(TP!Entry) /\ heap \subseteq TP!Entry
         /\ TM!TimerTypeOK /\ TM!FireOrder /\ TM!OneTick
BY DEF TP!TimerInv, TP!TimerTypeOK, TM!TimerTypeOK, TP!FireOrder, TM!FireOrder, TP!OneTick, TM!OneTick,
   TP!Entry, TM!Entry, TP!Before, TM!Before, TP!TimerId, TM!TimerId


(***************************************************************************)
(* What the steps of PromiseJobs do to the stack and to the promises that  *)
(* wait for a timer (and settle by nothing else, when X says so).          *)
(***************************************************************************)

(* Calls end down to base, or an error ends the await on top of it too.    *)
Left(base, s) ==
    \/ s = base
    \/ base # << >> /\ Waits(base) /\ s = SubSeq(base, 1, Len(base) - 1)

StackMove ==
    \/ Left(stack, stack')
    \/ \E a \in Act : /\ Pushes(stack', stack, a) /\ a.op \notin Foreign
                      /\ a.op = "await" => AwaitDepth < MaxAwait
    \/ stack # << >> /\ Top.op \notin Foreign /\ Left(Rest, stack')

SameTimers(X, t, n) ==
    \A d \in Id : /\ n[d].by = "timer" <=> t[d].by = "timer"
                  /\ t[d].by = "signal" => n[d].by = "signal"
                  /\ t[d].by \in X => n[d].st = t[d].st /\ n[d].by = t[d].by

LEMMA SettleTimers ==
  ASSUME NEW X \in SUBSET OwnSettled, PromiseInv, Neat(promise), NEW p \in Id, ~Idle(X, p),
         NEW side \in Side, NEW v \in Value,
         Outcome(promise, side, v).st # "unborn"
  PROVE  SameTimers(X, promise, Settled(promise, p, side, v))
<1> DEFINE n == Settled(promise, p, side, v)
           jobs == Jobs(promise, p, side, v)
           queue == << >>
<1>1. Sound(promise) /\ queue \in Seq(Safe)
  BY InvSeqs
<1>2. n = Settled(promise, p, side, v) /\ jobs = Jobs(promise, p, side, v)
  OBVIOUS
<1> HIDE DEF n, jobs, queue
<1>3. (\A q \in Id : n[q].by = promise[q].by) /\ (\A q \in Id \ {p} : n[q].st = promise[q].st)
  BY <1>1, <1>2, SettleLoad
<1> QED BY <1>2, <1>3 DEF SameTimers, Idle

LEMMA BirthTimers ==
  ASSUME NEW X \in SUBSET OwnSettled, PromiseInv, Neat(promise), NEW p \in Id, ~Born(p), NEW r,
         r.by # "timer"
  PROVE  SameTimers(X, promise, [promise EXCEPT ![p] = r])
<1>1. promise \in [Id -> SoundRec] /\ promise[p].by = "none"
  BY InvSeqs DEF Sound, Table, Neat, Born
<1> QED BY <1>1 DEF SameTimers, OwnSettled

LEMMA EscapeLeft ==
  ASSUME NEW X \in SUBSET OwnSettled, NEW base, Waits(base), EscapeTo(base)  PROVE Left(base, stack')
BY DEF EscapeTo, Left

LEMMA SettleReturnLeft ==
  ASSUME NEW X \in SUBSET OwnSettled, PromiseInv, Neat(promise), NEW queue, NEW base, NEW p \in Id,
         ~Idle(X, p),
         NEW side \in Side, NEW v \in Value, Outcome(promise, side, v).st # "unborn",
         SelfResolution(p, side, v) => Waits(base), SettleAndReturn(queue, base, p, side, v)
  PROVE  Left(base, stack') /\ SameTimers(X, promise, promise')
<1>1. CASE SelfResolution(p, side, v)
  <2>1. EscapeTo(base) /\ promise' = promise /\ Waits(base)
    BY <1>1 DEF SettleAndReturn
  <2> QED BY <2>1, EscapeLeft DEF SameTimers
<1>2. CASE ~SelfResolution(p, side, v)
  <2>1. promise' = Settled(promise, p, side, v) /\ stack' = base
    BY <1>2 DEF SettleAndReturn, SettleAfter
  <2> QED BY <2>1, SettleTimers DEF Left
<1> QED BY <1>1, <1>2

(* What a call on top of the stack, or the next microtask, is to settle,   *)
(* is not a timer's.                                                       *)
LEMMA TopNotIdle ==
  ASSUME NEW X \in SUBSET OwnSettled, ObligationInv(X), stack # << >>,
         Top.op \in Obliging \cup {"executor"}
  PROVE  Top.p \in Id /\ ~Idle(X, Top.p)
<1>1. Owing(X) /\ Neat(promise) /\ Top \in Safe
  BY InvSeqs DEF ObligationInv, Shape
<1>2. Top.p \in Id
  BY <1>1 DEF Safe, Goal, Settling, Obliging
<1>3. CASE Top.op = "executor"
  <2>1. promise[Top.p].by = "caps"
    BY <1>3, TopFacts DEF FrameOK
  <2> QED BY <1>1, <1>2, <2>1 DEF Idle, Neat, OwnSettled
<1>4. CASE Top.op \in Obliging
  <2>1. /\ Owed(promise, micro, stack, Top.p)
             = Plus(Plus(Coming(promise, micro, Obliging, Top.p), Load(Rest, Obliging, Top.p)), 1)
        /\ Coming(promise, micro, Obliging, Top.p) \in 0 .. 2 /\ Load(Rest, Obliging, Top.p) \in 0 .. 2
    BY <1>2, <1>4, TopOwed, OwedRange
  <2>2. Owed(promise, micro, stack, Top.p) # 0
    BY <2>1 DEF Plus
  <2> QED BY <1>1, <1>2, <2>2 DEF Owing
<1> QED BY <1>3, <1>4

LEMMA JobNotIdle ==
  ASSUME NEW X \in SUBSET OwnSettled, ObligationInv(X), micro # << >>, Job.op \in Obliging
  PROVE  Job.p \in Id /\ ~Idle(X, Job.p)
<1>1. Owing(X) /\ Job \in Safe
  BY JobTaken DEF ObligationInv, Shape
<1>2. Job.p \in Id
  BY <1>1 DEF Safe, Goal, Settling, Obliging
<1> DEFINE d == Job.p
<1>3. Load(micro, Obliging, d) = Plus(Load(Tail(micro), Obliging, d), Unit(Job, Obliging, d))
  BY JobTaken
<1>4. Unit(Job, Obliging, d) = 1
  BY DEF Unit, Hit, Aim, Obliging
<1>5. /\ Load(Tail(micro), Obliging, d) \in 0 .. 2 /\ Held(promise, Id, Obliging, d) \in 0 .. 2
      /\ Load(stack, Obliging, d) \in 0 .. 2
  BY LoadRange, WaitRange
<1>6. Owed(promise, micro, stack, d) # 0
  BY <1>3, <1>4, <1>5 DEF Owed, Coming, Plus
<1> QED BY <1>1, <1>2, <1>6 DEF Owing


LEMMA RegisterTimers ==
  ASSUME NEW X \in SUBSET OwnSettled, NEW t \in [Id -> SoundRec], NEW q \in Id, NEW ok, NEW err
  PROVE  SameTimers(X, t, Registered(t, q, ok, err))
<1>1. /\ WithPair(t[q], ok, err).st = t[q].st /\ WithPair(t[q], ok, err).by = t[q].by
  BY PairFields
<1> QED BY <1>1 DEF SameTimers, Registered

LEMMA PushMove ==
  ASSUME NEW X \in SUBSET OwnSettled, ObligationInv(X), NEW op \in Op, NEW p \in 0 .. MaxPromise,
         op \in Settling => p \in Id,
         stack' = Append(stack, Call(op, p)), op \notin Foreign, op = "await" => AwaitDepth < MaxAwait
  PROVE  StackMove
<1> DEFINE a == Call(op, p)
<1>1. a \in Act /\ a.op = op
  BY CallFacts
<1>2. Pushes(stack', stack, a)
  BY DEF Pushes
<1> QED BY <1>1, <1>2 DEF StackMove

LEMMA ApiMove ==
  ASSUME NEW X \in SUBSET OwnSettled, ObligationInv(X), ApiCall
  PROVE StackMove /\ SameTimers(X, promise, promise')
<1>1. PromiseInv /\ Neat(promise) /\ promise \in [Id -> SoundRec]
  BY InvSeqs DEF ObligationInv, Shape, Sound, Table
<1>2. stack' = stack => StackMove
  BY DEF StackMove, Left
<1>3. promise' = promise => SameTimers(X, promise, promise')
  BY DEF SameTimers
<1>4. CASE Construct
  <2>1. PICK p \in Id : /\ Fresh(p) /\ promise' = [promise EXCEPT ![p] = Pending("caps")]
                        /\ stack' = Append(stack, Call("executor", p)) \/ stack' = stack
    BY <1>4 DEF Construct
  <2>2. ~Born(p) /\ Pending("caps").by # "timer" /\ p \in 0 .. MaxPromise
    BY <2>1, ValueFacts DEF Fresh, Next1, Pending
  <2>3. SameTimers(X, promise, promise')
    BY <1>1, <2>1, <2>2, BirthTimers
  <2>4. StackMove
    BY <1>2, <2>1, <2>2, PushMove DEF Op, Foreign, TimerOps
  <2> QED BY <2>3, <2>4
<1>5. CASE Resolve
  <2>1. PICK p \in Id, side \in Side, v \in Passable :
          /\ promise[p].by = "caps" /\ SettleAfter(micro, p, side, v) /\ stack' = stack
    BY <1>5 DEF Resolve
  <2>2. v \in Value /\ Outcome(promise, side, v).st # "unborn" /\ ~Idle(X, p)
    BY <1>1, <2>1, PassableFacts DEF Idle, Neat, OwnSettled
  <2> QED BY <1>1, <1>2, <2>1, <2>2, SettleTimers DEF SettleAfter
<1>6. CASE Static
  <2>1. PICK p \in Id, v \in Passable, st \in {"fulfilled", "rejected"} :
          /\ Fresh(p) /\ promise' = [promise EXCEPT ![p] = Closed(Pending("static"), st, v)]
          /\ stack' = stack
    BY <1>6 DEF Static
  <2>2. ~Born(p) /\ Closed(Pending("static"), st, v).by # "timer"
    BY <2>1 DEF Fresh, Next1, Pending, Closed
  <2> QED BY <1>1, <1>2, <2>1, <2>2, BirthTimers
<1>7. CASE Try
  <2>1. promise' = promise /\ stack' = Append(stack, Call("try", 0))
    BY <1>7 DEF Try
  <2> QED BY <1>3, <2>1, PushMove, ValueFacts DEF Op, Foreign, TimerOps, Settling
<1>8. CASE Block
  <2>1. PICK p \in Visible : /\ promise' = promise /\ stack' = Append(stack, Call("await", p))
                             /\ AwaitDepth < MaxAwait
    BY <1>8 DEF Block
  <2>2. p \in 0 .. MaxPromise
    BY ValueFacts DEF Visible
  <2> QED BY <1>3, <2>1, <2>2, PushMove DEF Op, Foreign, TimerOps, Settling
<1>9. CASE Then \/ Finally
  <2>1. PICK q \in Visible, e \in Id, op \in {"then", "finally"}, x \in {0, 1}, y \in {0, 1} :
          Derive(q, e, Callback(op, e, "ok", x), Callback(op, e, "err", y))
    BY <1>9 DEF Then, Finally
  <2> DEFINE t == [promise EXCEPT ![e] = Pending("chain")]
             ok == Callback(op, e, "ok", x)
             err == Callback(op, e, "err", y)
  <2>2. promise' = Registered(t, q, ok, err) /\ stack' = stack /\ ~Born(e) /\ q \in Id
    BY <2>1 DEF Derive, Fresh, Next1, Visible
  <2>3. Pending("chain").by # "timer" /\ Pending("chain") \in SoundRec
    BY FreshRecs DEF Origin, GoodRec, Pending
  <2>4. SameTimers(X, promise, t) /\ t \in [Id -> SoundRec]
    BY <1>1, <2>2, <2>3, BirthTimers
  <2> HIDE DEF t, ok, err
  <2>5. SameTimers(X, t, promise')
    BY <2>2, <2>4, RegisterTimers
  <2> QED BY <1>2, <2>2, <2>4, <2>5 DEF SameTimers
<1>10. CASE QueueMicrotask
  BY <1>2, <1>3, <1>10 DEF QueueMicrotask
<1>11. CASE CallAsync
  <2>1. PICK p \in Id : /\ Fresh(p) /\ promise' = [promise EXCEPT ![p] = Pending("async")]
                        /\ stack' = Append(stack, Call("body", p))
    BY <1>11 DEF CallAsync
  <2>2. ~Born(p) /\ Pending("async").by # "timer" /\ p \in 0 .. MaxPromise
    BY <2>1, ValueFacts DEF Fresh, Next1, Pending
  <2>3. SameTimers(X, promise, promise')
    BY <1>1, <2>1, <2>2, BirthTimers
  <2> QED BY <2>1, <2>2, <2>3, PushMove DEF Op, Foreign, TimerOps
<1>12. CASE Suspend
  <2> DEFINE ok == Callback("resume", Top.p, "ok", 0)
             err == Callback("resume", Top.p, "err", 0)
  <2>1. /\ stack # << >> /\ Top.op = "body" /\ stack' = Rest
        /\ promise' = promise \/ \E v \in Visible : promise' = Registered(promise, v, ok, err)
    BY <1>12 DEF Suspend, Calls, InScript
  <2> HIDE DEF ok, err
  <2>2. SameTimers(X, promise, promise')
    BY <1>1, <1>3, <2>1, RegisterTimers DEF Visible
  <2> QED BY <2>1, <2>2 DEF StackMove, Left, Foreign, TimerOps
<1> QED BY <1>4, <1>5, <1>6, <1>7, <1>8, <1>9, <1>10, <1>11, <1>12 DEF ApiCall

LEMMA EndMove ==
  ASSUME NEW X \in SUBSET OwnSettled, ObligationInv(X), NEW ending \in {"ok", "err", "host"},
         NEW v \in Value, EndCall(ending, v),
         v \in Passable \/ (v \notin Id /\ ending = "host")
  PROVE  StackMove /\ SameTimers(X, promise, promise')
<1>1. /\ PromiseInv /\ Neat(promise) /\ stack # << >> /\ Top \in Safe /\ Top.op \notin Native
      /\ Side = {"ok", "err"}
  BY InvSeqs DEF ObligationInv, Shape, EndCall, InScript, Side
<1>2. \A side \in Side : v \in Passable \/ side = "err" => Outcome(promise, side, v).st # "unborn"
  BY PassableFacts DEF Outcome
<1>3. Left(Rest, stack') /\ Top.op \notin Foreign => StackMove
  BY <1>1 DEF StackMove
<1>4. promise' = promise => SameTimers(X, promise, promise')
  BY DEF SameTimers
<1>5. stack' = Rest => Left(Rest, stack')
  BY DEF Left
<1>6. FromQueue(Top) => Waits(Rest)
  BY <1>1, TopFacts
<1>7. CASE EndScript(ending)
  BY <1>3, <1>4, <1>5, <1>7 DEF EndScript, Foreign, TimerOps
<1>8. CASE EndExecutor(ending, v)
  <2>1. /\ Top.op = "executor" /\ stack' = Rest
        /\ promise' = promise \/ (ending = "err" /\ promise' = Settled(promise, Top.p, "err", v))
    BY <1>8 DEF EndExecutor, SettleAfter
  <2>2. Top.p \in Id /\ ~Idle(X, Top.p)
    BY <1>1, <2>1, TopNotIdle
  <2>3. SameTimers(X, promise, promise')
    BY <1>1, <1>2, <1>4, <2>1, <2>2, SettleTimers
  <2> QED BY <1>3, <1>5, <2>1, <2>3 DEF Foreign, TimerOps
<1>9. CASE EndTry(ending, v)
  <2>1. /\ Top.op = "try" /\ stack' = Rest
        /\ \/ promise' = promise
           \/ \E p \in Id, st \in {"fulfilled", "rejected"} :
                 Next1(p) /\ promise' = [promise EXCEPT ![p] = Closed(Pending("static"), st, v)]
    BY <1>9 DEF EndTry
  <2>2. SameTimers(X, promise, promise')
    <3>1. ASSUME NEW p \in Id, NEW st, ~Born(p)
          PROVE  SameTimers(X, promise, [promise EXCEPT ![p] = Closed(Pending("static"), st, v)])
      <4> DEFINE r == Closed(Pending("static"), st, v)
      <4>1. r.by # "timer"
        BY DEF Closed, Pending
      <4> HIDE DEF r
      <4>2. SameTimers(X, promise, [promise EXCEPT ![p] = r])
        BY <1>1, <3>1, <4>1, BirthTimers
      <4> QED BY <4>2 DEF r
    <3> QED BY <1>4, <2>1, <3>1 DEF Next1
  <2> QED BY <1>3, <1>5, <2>1, <2>2 DEF Foreign, TimerOps
<1>10. CASE EndTask(ending)
  <2>1. /\ Top.op \in {"task", "quiet"} /\ promise' = promise
        /\ stack' = Rest \/ (Top.op = "task" /\ EscapeTo(Rest))
    BY <1>10 DEF EndTask
  <2>2. Left(Rest, stack')
    BY <1>5, <1>6, <2>1, EscapeLeft DEF FromQueue
  <2> QED BY <1>3, <1>4, <2>1, <2>2 DEF Foreign, TimerOps
<1>11. CASE EndThen(ending, v) \/ EndFinally(ending, v)
  <2>1. /\ Top.op \in {"then", "finally"}
        /\ \E side \in Side, x \in Value :
              /\ Outcome(promise, side, x).st # "unborn"
              /\ SettleAndReturn(micro, Rest, Top.p, side, x)
    <3>1. CASE EndThen(ending, v)
      <4>1. /\ Top.op = "then"
            /\ SettleAndReturn(micro, Rest, Top.p, IF ending = "ok" THEN "ok" ELSE "err", v)
        BY <3>1 DEF EndThen
      <4>2. Outcome(promise, IF ending = "ok" THEN "ok" ELSE "err", v).st # "unborn"
        BY <1>1, <1>2
      <4> QED BY <1>1, <4>1, <4>2
    <3>2. CASE EndFinally(ending, v)
      <4>1. /\ Top.op = "finally"
            /\ \/ SettleAndReturn(micro, Rest, Top.p, Top.side, Top.val)
               \/ ending # "ok" /\ SettleAndReturn(micro, Rest, Top.p, "err", v)
        BY <3>2 DEF EndFinally
      <4>2. Top.side \in Side /\ Top.val \in Value /\ Outcome(promise, Top.side, Top.val).st # "unborn"
        BY <1>1 DEF Safe, Goal, Act, Outcome, Side
      <4>3. Outcome(promise, "err", v).st # "unborn" /\ "err" \in Side
        BY <1>1, <1>2
      <4> QED BY <4>1, <4>2, <4>3
    <3> QED BY <1>11, <3>1, <3>2
  <2>2. PICK side \in Side, x \in Value : /\ Outcome(promise, side, x).st # "unborn"
                                          /\ SettleAndReturn(micro, Rest, Top.p, side, x)
    BY <2>1
  <2>3. Top.p \in Id /\ ~Idle(X, Top.p) /\ Waits(Rest)
    BY <1>1, <1>6, <2>1, TopNotIdle DEF Obliging, FromQueue
  <2>4. Left(Rest, stack') /\ SameTimers(X, promise, promise')
    BY <1>1, <2>2, <2>3, SettleReturnLeft
  <2> QED BY <1>3, <2>1, <2>4 DEF Foreign, TimerOps
<1>12. CASE EndBody(ending, v)
  <2>1. Top.op = "body"
    BY <1>12 DEF EndBody
  <2>2. Top.p \in Id /\ ~Idle(X, Top.p)
    BY <1>1, <2>1, TopNotIdle DEF Obliging
  <2>3. Top.arg # 0 => Waits(Rest)
    BY <1>6, <2>1 DEF FromQueue
  <2>4. CASE ending = "host"
    <3>1. (IF Top.arg = 0 THEN stack' = Rest ELSE EscapeTo(Rest)) /\ promise' = promise
      BY <1>12, <2>4 DEF EndBody
    <3>2. Left(Rest, stack')
      BY <1>5, <2>3, <3>1, EscapeLeft
    <3> QED BY <1>3, <1>4, <2>1, <3>1, <3>2 DEF Foreign, TimerOps
  <2>5. CASE ending # "host"
    <3>1. SettleAndReturn(micro, Rest, Top.p, ending, v) /\ ending \in Side /\ v \in Passable
      BY <1>12, <2>5 DEF EndBody, Side
    <3>2. SelfResolution(Top.p, ending, v) => Waits(Rest)
      BY <1>1, <2>1, <2>3, <3>1, BodyHidden DEF SelfResolution
    <3>3. Left(Rest, stack') /\ SameTimers(X, promise, promise')
      BY <1>1, <1>2, <2>2, <3>1, <3>2, SettleReturnLeft
    <3> QED BY <1>3, <2>1, <3>3 DEF Foreign, TimerOps
  <2> QED BY <2>4, <2>5
<1> QED BY <1>7, <1>8, <1>9, <1>10, <1>11, <1>12 DEF EndCall


LEMMA RunMove ==
  ASSUME NEW X \in SUBSET OwnSettled, ObligationInv(X), micro # << >>, Waits(stack),
         RunSettler \/ RunCallback \/ RunResume
  PROVE  StackMove /\ SameTimers(X, promise, promise')
<1>1. /\ PromiseInv /\ Neat(promise) /\ Job \in Act /\ Job \in Safe /\ JobOK(Job, promise)
      /\ stack \in Seq(Act)
  BY InvSeqs, JobTaken DEF ObligationInv, Shape
<1>2. CASE RunSettler
  <2>1. Job.op \in Obliging /\ SettleAndReturn(Tail(micro), stack, Job.p, Job.side, Job.val)
    BY <1>2 DEF RunSettler, Obliging
  <2>2. Job.p \in Id /\ ~Idle(X, Job.p)
    BY <2>1, JobNotIdle
  <2>3. Job.side \in Side /\ Job.val \in Value /\ Outcome(promise, Job.side, Job.val).st # "unborn"
    BY <1>1 DEF Safe, Goal, Act, Outcome, Side
  <2>4. Left(stack, stack') /\ SameTimers(X, promise, promise')
    BY <1>1, <2>1, <2>2, <2>3, SettleReturnLeft
  <2> QED BY <2>4 DEF StackMove
<1>3. CASE RunCallback \/ RunResume
  <2> DEFINE a == IF Job.op = "resume" THEN [Job EXCEPT !.op = "body", !.arg = 1] ELSE Job
  <2>1. promise' = promise /\ stack' = Append(stack, a)
    BY <1>3 DEF RunCallback, RunResume
  <2>2. a \in Act /\ a.op \notin Foreign /\ a.op # "await"
    BY <1>1 DEF Act, Op, JobOK, WaitOK, Releasing, Foreign, TimerOps
  <2>3. Pushes(stack', stack, a)
    BY <2>1 DEF Pushes
  <2> QED BY <2>1, <2>2, <2>3 DEF StackMove, SameTimers
<1> QED BY <1>2, <1>3

LEMMA PromiseMove ==
  ASSUME NEW X \in SUBSET OwnSettled, ObligationInv(X), [PromiseNext]_promiseVars
  PROVE StackMove /\ SameTimers(X, promise, promise')
<1>1. CASE ApiCall
  BY <1>1, ApiMove
<1>2. CASE Return \/ Throw \/ Fail
  <2>1. PICK ending \in {"ok", "err", "host"}, v \in Value :
          EndCall(ending, v) /\ (v \in Passable \/ (v \notin Id /\ ending = "host"))
    BY <1>2, ValueFacts, PassableFacts DEF Return, Throw, Fail
  <2> QED BY <2>1, EndMove
<1>3. CASE RunJob
  <2>1. micro # << >> /\ Waits(stack) /\ (RunSettler \/ RunCallback \/ RunResume)
    BY <1>3 DEF RunJob, Draining, Waits, Top
  <2> QED BY <2>1, RunMove
<1>4. CASE AwaitReturns \/ AwaitStarves
  <2>1. stack # << >> /\ Top.op = "await" /\ stack' = Rest /\ promise' = promise
    BY <1>4 DEF AwaitReturns, AwaitStarves, Draining
  <2> QED BY <2>1 DEF StackMove, Left, Foreign, TimerOps, SameTimers
<1>5. CASE LoopEnds \/ Ended \/ UNCHANGED promiseVars
  <2>1. promise' = promise /\ stack' = stack
    BY <1>5 DEF LoopEnds, Ended, promiseVars
  <2> QED BY <2>1 DEF StackMove, Left, SameTimers
<1> QED BY <1>1, <1>2, <1>3, <1>4, <1>5 DEF PromiseNext


(***************************************************************************)
(* The calls of timers.                                                    *)
(***************************************************************************)

LEMMA AwaitsFinite ==
  ASSUME NEW s \in Seq(Act)
  PROVE  /\ IsFiniteSet(Awaits(s)) /\ Cardinality(Awaits(s)) \in Nat
         /\ Len(s) + 1 \notin Awaits(s)
<1>1. Len(s) \in Nat /\ Awaits(s) \subseteq 1 .. Len(s) /\ Len(s) + 1 \notin 1 .. Len(s)
  BY DEF Awaits
<1>2. IsFiniteSet(1 .. Len(s))
  BY <1>1, FS_Interval
<1>3. IsFiniteSet(Awaits(s))
  BY <1>1, <1>2, FS_Subset
<1> QED BY <1>1, <1>3, FS_CardinalityType

LEMMA NestsPush ==
  ASSUME NEW s \in Seq(Act), NEW a \in Act, NEW w, Pushes(w, s, a), a.op \notin TimerOps, NEW r,
         Nests(s, r), a.op = "await" => Cardinality(Awaits(s)) < MaxAwait
  PROVE  Nests(w, r)
<1>1. Nested(w, r) /\ OnAwait(w)
  BY NestedOther DEF Nests
<1>2. IsFiniteSet(Awaits(s)) /\ Cardinality(Awaits(s)) \in Nat /\ Len(s) + 1 \notin Awaits(s)
  BY AwaitsFinite
<1>3. Awaits(w) = Awaits(s) \cup (IF a.op = "await" THEN {Len(s) + 1} ELSE {})
  BY PlacesPush
<1>4. CASE a.op = "await"
  <2>1. Cardinality(Awaits(w)) = Cardinality(Awaits(s)) + 1
    BY <1>2, <1>3, <1>4, FS_AddElement
  <2> QED BY <1>1, <1>2, <1>4, <2>1, BoundsAssumption DEF Nests
<1>5. CASE a.op # "await"
  <2>1. Awaits(w) = Awaits(s)
    BY <1>3, <1>5
  <2> QED BY <1>1, <2>1 DEF Nests
<1> QED BY <1>4, <1>5

LEMMA FewerAwaits ==
  ASSUME NEW s \in Seq(Act), NEW a \in Act, NEW w \in Seq(Act), Pushes(w, s, a)
  PROVE  Cardinality(Awaits(s)) <= Cardinality(Awaits(w))
<1>1. Awaits(s) \subseteq Awaits(w)
  BY PlacesPush
<1> QED BY <1>1, AwaitsFinite, FS_Subset

LEMMA NestsPop ==
  ASSUME NEW s \in Seq(Act), NEW a \in Act, NEW w \in Seq(Act), Pushes(w, s, a),
         a.op \notin TimerOps,
         NEW r, Nests(w, r)
  PROVE  Nests(s, r)
<1>1. Nested(s, r) /\ OnAwait(s)
  BY NestedOther DEF Nests
<1>2. /\ Cardinality(Awaits(s)) <= Cardinality(Awaits(w)) /\ Cardinality(Awaits(w)) <= MaxAwait
      /\ Cardinality(Awaits(s)) \in Nat /\ Cardinality(Awaits(w)) \in Nat
  BY FewerAwaits, AwaitsFinite DEF Nests
<1> QED BY <1>1, <1>2, BoundsAssumption DEF Nests

LEMMA NestsLeft ==
  ASSUME NEW base \in Seq(Act), NEW s, Left(base, s), NEW r, Nests(base, r)
  PROVE  Nests(s, r)
<1>1. CASE s = base
  BY <1>1
<1>2. CASE base # << >> /\ Waits(base) /\ s = SubSeq(base, 1, Len(base) - 1)
  <2> DEFINE a == base[Len(base)]
  <2>1. s \in Seq(Act) /\ a \in Act /\ a.op = "await"
    BY <1>2 DEF Waits
  <2>2. Pushes(base, s, a)
    BY <1>2, LastPushed
  <2> HIDE DEF a
  <2> QED BY <2>1, <2>2, NestsPop DEF TimerOps
<1> QED BY <1>1, <1>2 DEF Left

LEMMA NestsMove ==
  ASSUME PromiseInv, StackMove, NEW r, Nests(stack, r)  PROVE Nests(stack', r)
<1>1. stack \in Seq(Act)
  BY InvSeqs
<1>2. CASE Left(stack, stack')
  BY <1>1, <1>2, NestsLeft
<1>3. ASSUME NEW a \in Act, Pushes(stack', stack, a), a.op \notin Foreign,
             a.op = "await" => AwaitDepth < MaxAwait
      PROVE  Nests(stack', r)
  <2>1. AwaitDepth = Cardinality(Awaits(stack))
    BY DEF AwaitDepth, Awaits
  <2> QED BY <1>1, <1>3, <2>1, NestsPush DEF Foreign
<1>4. CASE stack # << >> /\ Top.op \notin Foreign /\ Left(Rest, stack')
  <2>1. Top \in Act /\ Rest \in Seq(Act) /\ Pushes(stack, Rest, Top)
    BY <1>4, InvSeqs
  <2>2. Nests(Rest, r)
    BY <1>1, <1>4, <2>1, NestsPop DEF Foreign
  <2> QED BY <1>4, <2>1, <2>2, NestsLeft
<1> QED BY <1>2, <1>3, <1>4 DEF StackMove

(* Timers run inside each other only underneath as many awaits.            *)
LEMMA AwaitsUnder ==
  ASSUME NEW s \in Seq(Act), NEW S, NEW r \in Seq(S), Nested(s, r), OnAwait(s)
  PROVE  Len(r) <= Cardinality(Awaits(s)) + 1
<1>1. PICK at : Matches(at, s, r)
  BY DEF Nested
<1>2. /\ Len(r) \in Nat /\ DOMAIN r = 1 .. Len(r) /\ Len(s) \in Nat /\ DOMAIN s = 1 .. Len(s)
  OBVIOUS
<1>3. ASSUME NEW i \in 1 .. Len(r)  PROVE at[i] \in 1 .. Len(s) /\ at[i] \in Places(s)
  BY <1>1, <1>2 DEF Matches, Places
<1>4. ASSUME NEW i \in 2 .. Len(r)  PROVE at[i] - 1 \in Awaits(s) /\ i \in 1 .. Len(r)
  <2>1. i \in 1 .. Len(r) /\ 1 \in 1 .. Len(r) /\ 1 < i
    BY <1>2
  <2>2. at[1] < at[i]
    BY <1>1, <1>2, <2>1 DEF Matches
  <2>3. at[1] \in 1 .. Len(s) /\ at[i] \in 1 .. Len(s) /\ at[i] \in Places(s)
    BY <1>3, <2>1
  <2>4. at[i] - 1 \in 1 .. Len(s) /\ at[i] # 1
    BY <1>2, <2>2, <2>3
  <2> QED BY <1>2, <2>1, <2>3, <2>4 DEF OnAwait, Awaits
<1> DEFINE to == [i \in 2 .. Len(r) |-> at[i] - 1]
<1>5. to \in [2 .. Len(r) -> Awaits(s)]
  BY <1>4
<1>6. ASSUME NEW i \in 2 .. Len(r), NEW j \in 2 .. Len(r), i < j  PROVE at[i] < at[j]
  BY <1>1, <1>2, <1>4, <1>6 DEF Matches
<1>7. ASSUME NEW i \in 2 .. Len(r), NEW j \in 2 .. Len(r), to[i] = to[j]  PROVE i = j
  <2>1. at[i] \in 1 .. Len(s) /\ at[j] \in 1 .. Len(s) /\ at[i] - 1 = at[j] - 1
    BY <1>3, <1>4, <1>7
  <2>2. at[i] = at[j]
    BY <1>2, <2>1
  <2> QED BY <1>2, <1>6, <2>1, <2>2
<1>8. to \in Injection(2 .. Len(r), Awaits(s))
  BY <1>5, <1>7 DEF Injection, IsInjective
<1>9. IsFiniteSet(Awaits(s)) /\ Cardinality(Awaits(s)) \in Nat
  BY AwaitsFinite
<1> HIDE DEF to
<1>10. Cardinality(2 .. Len(r)) <= Cardinality(Awaits(s))
  BY <1>8, <1>9, FS_Injection
<1>11. 2 \in Int /\ Len(r) \in Int
  BY <1>2
<1>12. Cardinality(2 .. Len(r)) = IF 2 > Len(r) THEN 0 ELSE Len(r) - 2 + 1
  BY <1>11, FS_Interval
<1> QED BY <1>2, <1>9, <1>10, <1>12

LEMMA NestsImplies ==
  ASSUME NEW X \in SUBSET OwnSettled, LoopBase(X)  PROVE TimersNest
<1>1. stack \in Seq(Act) /\ running \in Seq(TP!Entry) /\ Nests(stack, running)
  BY InvSeqs, QueueFacts DEF LoopBase, ObligationInv
<1>2. AwaitDepth = Cardinality(Awaits(stack)) /\ TimerCalls = Places(stack)
  BY DEF AwaitDepth, Awaits, TimerCalls, Places, TimerOps
<1>3. Len(running) <= AwaitDepth + 1 /\ AwaitDepth <= MaxAwait
  BY <1>1, <1>2, AwaitsUnder DEF Nests
<1>4. PICK at : Matches(at, stack, running)
  BY <1>1 DEF Nests, Nested
<1> QED BY <1>2, <1>3, <1>4 DEF TimersNest, Matches


(***************************************************************************)
(* Timers and the promises that wait for them.                             *)
(***************************************************************************)

LEMMA TimedKept ==
  ASSUME NEW X \in SUBSET OwnSettled, SameTimers(X, promise, promise'), heap' = heap,
         running' = running,
         cancelled \subseteq cancelled'
  PROVE  /\ ForWaits => ForWaits'
         /\ X = {"timer"} /\ Timed => Timed'
BY DEF ForWaits, Timed, Single, Due, InTask, SameTimers

LEMMA ScheduleDue ==
  ASSUME NEW delay, NEW every, NEW task, TM!Schedule(delay, every, task)
  PROVE  \E e : /\ e.task = task /\ heap' = heap \cup {e}
                /\ Due(task)' = Due(task) \cup {e} /\ \A d : d # task => Due(d)' = Due(d)
<1> DEFINE e == [deadline |-> now + delay, seq |-> nextSeq, id |-> nextId, every |-> every, task |-> task]
<1>1. heap' = heap \cup {e} /\ e.task = task
  BY DEF TM!Schedule, TM!Push
<1> HIDE DEF e
<1> QED BY <1>1 DEF Due

LEMMA RunningPush ==
  ASSUME NEW S, running \in Seq(S), NEW e \in S, running' = Append(running, e)
  PROVE  /\ Len(running) \in Nat /\ Len(running) + 1 \notin DOMAIN running
         /\ \A d : InTask(d)' = InTask(d) \cup (IF e.task = d THEN {Len(running) + 1} ELSE {})
<1>1. /\ Len(running) \in Nat /\ DOMAIN running = 1 .. Len(running)
      /\ DOMAIN running' = 1 .. Len(running) + 1 /\ running'[Len(running) + 1] = e
      /\ \A i \in 1 .. Len(running) : running'[i] = running[i]
  OBVIOUS
<1>2. \A i : i \in DOMAIN running' <=> i \in DOMAIN running \/ i = Len(running) + 1
  BY <1>1
<1>3. Len(running) + 1 \notin DOMAIN running
  BY <1>1
<1> QED BY <1>1, <1>2, <1>3 DEF InTask

LEMMA RunningPop ==
  ASSUME NEW S, running \in Seq(S), running # << >>, running' = TM!Below
  PROVE  \A d : InTask(d)' = InTask(d) \ {Len(running)}
<1>1. /\ Len(running) \in Nat \ {0} /\ DOMAIN running = 1 .. Len(running)
      /\ DOMAIN running' = 1 .. Len(running) - 1
      /\ \A i \in 1 .. Len(running) - 1 : running'[i] = running[i]
  BY DEF TM!Below
<1>2. \A i : i \in DOMAIN running' <=> i \in DOMAIN running /\ i # Len(running)
  BY <1>1
<1> QED BY <1>1, <1>2 DEF InTask

(***************************************************************************)
(* The invariant, one kind of step at a time.                              *)
(***************************************************************************)

LEMMA PromiseCase ==
  ASSUME NEW X \in SUBSET OwnSettled, LoopBase(X), [PromiseNext]_promiseVars, UNCHANGED timerVars
  PROVE  BaseNext(X)
<1>1. ObligationInv(X) /\ PromiseInv /\ Nests(stack, running) /\ ForWaits
  BY DEF LoopBase, ObligationInv
<1>2. StackMove /\ SameTimers(X, promise, promise') /\ ObligationInv(X)'
  BY <1>1, PromiseMove, ObligationNext
<1>3. heap' = heap /\ running' = running /\ cancelled' = cancelled
  BY DEF timerVars
<1> QED BY <1>1, <1>2, <1>3, NestsMove, TimedKept DEF BaseNext

(* Steps that leave the promises alone.                                    *)
LEMMA PromisesAlone ==
  ASSUME NEW X \in SUBSET OwnSettled, ObligationInv(X), calls' \in Nat,
         UNCHANGED <<promise, micro, stack, co, loop, dropped>>
  PROVE  ObligationInv(X)' /\ SameTimers(X, promise, promise')
<1>1. PromiseInv'
  BY DEF ObligationInv, PromiseInv
<1> QED BY <1>1 DEF ObligationInv, Shape, Owing, Awake, Lost, Born, Settles, Open, Idle, SameTimers

LEMMA SetTimerCase ==
  ASSUME NEW X \in SUBSET OwnSettled, LoopBase(X), SetTimer  PROVE BaseNext(X)
<1>1. /\ calls' = calls + 1 /\ UNCHANGED <<promise, micro, stack, co, loop, dropped>>
      /\ running' = running /\ cancelled' = cancelled
      /\ \E delay, every : TM!Schedule(delay, every, 0)
  BY DEF SetTimer, Calls
<1>2. ObligationInv(X)' /\ SameTimers(X, promise, promise')
  BY <1>1, PromisesAlone DEF LoopBase, ObligationInv, PromiseInv
<1>3. \A d \in Id : d # 0
  BY BoundsAssumption DEF Id
<1>4. \A d \in Id : Due(d)' = Due(d) /\ InTask(d)' = InTask(d)
  BY <1>1, <1>3, ScheduleDue DEF InTask
<1>5. ForWaits' /\ (Timed => Timed')
  BY <1>1, <1>4 DEF LoopBase, ForWaits, Timed, Single
<1> QED BY <1>1, <1>2, <1>5 DEF LoopBase, BaseNext

LEMMA QuietCase ==
  ASSUME NEW X \in SUBSET OwnSettled, LoopBase(X),
         ClearTimer \/ Tick \/ LoopEnded \/ UNCHANGED loopVars
  PROVE  BaseNext(X)
<1>1. /\ calls' \in Nat /\ UNCHANGED <<promise, micro, stack, co, loop, dropped>>
      /\ running' = running /\ heap' = heap /\ cancelled \subseteq cancelled'
  BY DEF LoopBase, ObligationInv, PromiseInv, ClearTimer, Calls, TM!Cancel, Tick, TM!Tick, LoopEnded,
         loopVars, promiseVars, timerVars
<1>2. ObligationInv(X)' /\ SameTimers(X, promise, promise')
  BY <1>1, PromisesAlone DEF LoopBase
<1> QED BY <1>1, <1>2, TimedKept DEF LoopBase, BaseNext

LEMMA WaitCase ==
  ASSUME NEW X \in SUBSET OwnSettled, LoopBase(X), Wait  PROVE BaseNext(X)
<1> DEFINE r == Pending("timer")
<1>1. PICK p \in Id, delay \in Delay :
        /\ Fresh(p) /\ promise' = [promise EXCEPT ![p] = r] /\ TM!Schedule(delay, Once, p)
        /\ calls' = calls + 1
        /\ UNCHANGED <<micro, stack, co, loop, dropped, cancelled, running>>
  BY DEF Wait, Calls
<1>2. /\ PromiseInv /\ Neat(promise) /\ Jobbed(micro, promise) /\ Framed(stack, promise)
      /\ Launched(stack) /\ Lost /\ Owing(X) /\ Awake /\ ForWaits
  BY DEF LoopBase, ObligationInv, Shape
<1>3. ~Born(p) /\ r.st = "pending" /\ r.by = "timer" /\ r.ok = << >> /\ GoodRec(r)
  BY <1>1, FreshRecs DEF Fresh, Next1, Pending, Origin
<1> HIDE DEF r
<1>4. Becomes(promise, promise', p, r)
  BY <1>1, <1>2, InvSeqs DEF Sound, Table, Becomes
<1>5. PromiseInv'
  <2>1. Sound(promise')
    BY <1>1, <1>2, <1>3, CreateStep
  <2> QED BY <1>1, <1>2, <2>1 DEF PromiseInv
<1>6. \A d \in Id : Load(stack', Obliging, d)
                      = Plus(Load(stack, Obliging, d), IF d = p /\ r.by = "async" THEN 1 ELSE 0)
  <2>1. \A d \in Id : Load(stack, Obliging, d) \in 0 .. 2
    BY LoadRange
  <2> QED BY <1>1, <1>3, <2>1 DEF Plus
<1>7. /\ Neat(promise') /\ Jobbed(micro', promise') /\ Keeps(promise, promise') /\ Lost' /\ Owing(X)'
      /\ promise'[p] = r
      /\ \A d \in Id : Resumes(promise', micro', d) = Resumes(promise, micro, d)
  BY <1>1, <1>2, <1>3, <1>4, <1>6, CreateOwing
<1>8. Framed(stack', promise') /\ Launched(stack') /\ Awake'
  BY <1>1, <1>2, <1>7, AllKept, InvSeqs, AwakeSame
<1>9. PICK e : Due(p)' = Due(p) \cup {e} /\ \A d : d # p => Due(d)' = Due(d)
  BY <1>1, ScheduleDue
<1>10. Due(p) = {} /\ InTask(p) = {}
  BY <1>2, <1>3 DEF ForWaits, Neat, Born
<1>11. \A d \in Id : InTask(d)' = InTask(d)
  BY <1>1 DEF InTask
<1>12. \A d \in Id \ {p} : promise'[d] = promise[d]
  BY <1>4 DEF Becomes
<1>13. ForWaits'
  BY <1>2, <1>3, <1>7, <1>9, <1>11, <1>12 DEF ForWaits
<1>14. Timed => Timed'
  BY <1>1, <1>2, <1>3, <1>7, <1>9, <1>10, <1>11, <1>12 DEF Timed, Single
<1> QED BY <1>1, <1>5, <1>7, <1>8, <1>13, <1>14 DEF LoopBase, ObligationInv, Shape, BaseNext


LEMMA StartCase ==
  ASSUME NEW X \in SUBSET OwnSettled, LoopBase(X), StartTimer  PROVE BaseNext(X)
<1>1. /\ Waits(stack) /\ UNCHANGED <<promise, micro, co, calls, loop, dropped, cancelled>>
      /\ stack' = Append(stack, TaskCall(running'[Len(running')].task))
      /\ TM!Start
  BY DEF StartTimer, Draining, Waits, Top, TM!Start
<1>2. PICK due \in heap : TM!PopNext(due) /\ running' = Append(running, due)
  BY <1>1 DEF TM!Start
<1>3. /\ ObligationInv(X) /\ PromiseInv /\ Nests(stack, running) /\ ForWaits
      /\ running \in Seq(TP!Entry) /\ heap \subseteq TP!Entry /\ stack \in Seq(Act) /\ stack \in Seq(Safe)
  BY QueueFacts, InvSeqs DEF LoopBase, ObligationInv
<1>4. /\ Neat(promise) /\ Jobbed(micro, promise) /\ Framed(stack, promise)
      /\ Launched(stack) /\ Lost /\ Owing(X) /\ Awake
  BY <1>3 DEF ObligationInv, Shape
<1> DEFINE a == TaskCall(due.task)
<1>5. /\ a \in Safe /\ a \in Act /\ a.op \in TimerOps /\ a.op \notin Obliging
      /\ ~FromQueue(a) /\ FrameOK(a, promise')
  BY TaskCallFacts
<1>6. stack' = Append(stack, a)
  <2>1. due \in TP!Entry
    BY <1>2, <1>3
  <2>2. running'[Len(running')] = due
    BY <1>2, <1>3, <2>1
  <2> QED BY <1>1, <2>2
<1>7. Pushes(stack', stack, a) /\ Pushes(stack', stack, TaskCall(due.task))
  BY <1>6 DEF Pushes
<1>8. Nests(stack', running')
  <2>1. Nested(stack', Append(running, due)) /\ OnAwait(stack')
    BY <1>1, <1>2, <1>3, <1>7, NestedStart DEF Nests
  <2>2. Awaits(stack') = Awaits(stack) \cup {}
    <3> HIDE DEF a
    <3> QED BY <1>3, <1>5, <1>7, PlacesPush DEF TimerOps
  <2> QED BY <1>2, <1>3, <2>1, <2>2 DEF Nests
<1>9. PromiseInv'
  <2>1. stack' \in Seq(Safe)
    BY <1>3, <1>5, <1>6
  <2> QED BY <1>1, <1>3, <2>1 DEF PromiseInv
<1> HIDE DEF a
<1>10. Framed(stack', promise') /\ Launched(stack')
  <2>1. Framed(stack, promise')
    BY <1>1, <1>4
  <2> QED BY <1>3, <1>4, <1>5, <1>7, <2>1, PushStep
<1>11. Owing(X)' /\ Awake'
  <2>1. \A d \in Id : Load(stack', Obliging, d) = Load(stack, Obliging, d)
    BY <1>3, <1>5, <1>7, PushFree
  <2>2. \A d \in Id : Owed(promise', micro', stack', d) = Owed(promise, micro, stack, d)
    BY <1>1, <2>1 DEF Owed
  <2> QED BY <1>1, <1>4, <2>2, OwingSame, AwakeSame
<1>12. ObligationInv(X)'
  BY <1>1, <1>4, <1>9, <1>10, <1>11 DEF ObligationInv, Shape, Lost, Born
<1>13. /\ heap' = {e \in heap : TM!Before(due, e)}
       /\ \A e \in heap : TM!Live(e) => e = due \/ TM!Before(due, e)
  BY <1>2 DEF TM!PopNext, TM!IsLeast
<1>14. due \notin heap'
  <2>1. due.deadline \in Nat /\ due.seq \in Nat
    BY <1>2, <1>3 DEF TP!Entry
  <2> QED BY <1>13, <2>1 DEF TM!Before
<1>15. \A d : InTask(d)' = InTask(d) \cup (IF due.task = d THEN {Len(running) + 1} ELSE {})
  BY <1>2, <1>3, RunningPush
<1>16. Timed => Timed'
  <2> SUFFICES ASSUME Timed, NEW d \in Id
               PROVE  /\ Single(d)'
                      /\ IF promise[d].by = "timer" /\ promise[d].st = "pending"
                         THEN Due(d)' # {} \/ InTask(d)' # {} \/ cancelled # {}
                         ELSE Due(d)' = {} /\ InTask(d)' = {}
    BY <1>1 DEF Timed
  <2>1. Due(d)' \subseteq Due(d) \ {due}
    BY <1>13, <1>14 DEF Due
  <2>2. CASE due.task = d
    <3>1. due \in Due(d)
      BY <1>2, <2>2 DEF Due
    <3>2. Due(d) = {due} /\ InTask(d) = {}
      BY <3>1 DEF Timed, Single
    <3>3. promise[d].by = "timer" /\ promise[d].st = "pending"
      BY <3>1 DEF Timed
    <3>4. InTask(d)' = {Len(running) + 1} /\ Due(d)' = {}
      BY <1>15, <2>1, <2>2, <3>2
    <3> QED BY <3>3, <3>4 DEF Single
  <2>3. CASE due.task # d
    <3>1. InTask(d)' = InTask(d)
      BY <1>15, <2>3
    <3>2. cancelled = {} => Due(d)' = Due(d)
      BY <1>13, <2>3 DEF Due, TM!Live
    <3> QED BY <2>1, <3>1, <3>2 DEF Timed, Single
  <2> QED BY <2>2, <2>3
<1>17. ForWaits'
  <2> SUFFICES ASSUME NEW d \in Id, Due(d)' # {} \/ InTask(d)' # {}  PROVE promise[d].by = "timer"
    BY <1>1 DEF ForWaits
  <2>1. Due(d)' \subseteq Due(d)
    BY <1>13 DEF Due
  <2>2. due.task = d => due \in Due(d)
    BY <1>2 DEF Due
  <2> QED BY <1>3, <1>15, <2>1, <2>2 DEF ForWaits
<1> QED BY <1>8, <1>12, <1>16, <1>17 DEF BaseNext

(* The top of the stack, when it is a timer's call, is the last started.   *)
LEMMA TopTask ==
  ASSUME NEW X \in SUBSET OwnSettled, LoopBase(X), stack # << >>, Top.op \in TimerOps,
         stack' = Rest, running' = TM!Below
  PROVE  /\ running # << >> /\ running \in Seq(TP!Entry)
         /\ Top = TaskCall(TM!Top.task) /\ Top.op \notin Obliging
         /\ Nests(stack', running')
         /\ \A d : InTask(d)' = InTask(d) \ {Len(running)}
         /\ \A d : Len(running) \in InTask(d) <=> TM!Top.task = d
<1>1. /\ PromiseInv /\ Nests(stack, running) /\ running \in Seq(TP!Entry)
      /\ stack \in Seq(Act) /\ Top \in Act /\ Rest \in Seq(Act) /\ Pushes(stack, Rest, Top)
  BY QueueFacts, InvSeqs DEF LoopBase, ObligationInv
<1>2. /\ running # << >> /\ Top = TaskCall(running[Len(running)].task)
      /\ Nested(Rest, SubSeq(running, 1, Len(running) - 1)) /\ OnAwait(Rest)
  BY <1>1, NestedEnd DEF Nests
<1>3. Cardinality(Awaits(Rest)) <= MaxAwait
  <2>1. /\ Cardinality(Awaits(Rest)) <= Cardinality(Awaits(stack))
        /\ Cardinality(Awaits(stack)) <= MaxAwait
        /\ Cardinality(Awaits(Rest)) \in Nat /\ Cardinality(Awaits(stack)) \in Nat
    BY <1>1, FewerAwaits, AwaitsFinite DEF Nests
  <2> QED BY <2>1, BoundsAssumption
<1>4. Nests(stack', running')
  BY <1>2, <1>3 DEF Nests, TM!Below
<1>5. \A d : InTask(d)' = InTask(d) \ {Len(running)}
  BY <1>1, <1>2, RunningPop
<1>6. Len(running) \in DOMAIN running
  BY <1>1, <1>2
<1> QED BY <1>1, <1>2, <1>4, <1>5, <1>6 DEF InTask, TM!Top, TimerOps, Obliging

LEMMA EndCase ==
  ASSUME NEW X \in SUBSET OwnSettled, LoopBase(X), EndTimer  PROVE BaseNext(X)
<1>1. /\ stack # << >> /\ Top.op = "timer" /\ Top.op \in TimerOps /\ stack' = Rest
      /\ UNCHANGED <<promise, micro, co, calls, loop, dropped, cancelled>>
      /\ running' = TM!Below
      /\ heap' = heap \/ \E e : e.task = TM!Top.task /\ heap' = heap \cup {e}
  BY DEF EndTimer, InScript, TM!FinishOnce, TM!FinishTick, TM!Rearm, TM!Push, TimerOps
<1>2. /\ Top = TaskCall(TM!Top.task) /\ Top.op \notin Obliging /\ Nests(stack', running')
      /\ \A d : InTask(d)' = InTask(d) \ {Len(running)}
      /\ \A d : Len(running) \in InTask(d) <=> TM!Top.task = d
  BY <1>1, TopTask
<1>3. TM!Top.task \notin Id
  BY <1>1, <1>2, TaskCallFacts
<1>4. \A d \in Id : InTask(d)' = InTask(d) /\ Due(d)' = Due(d)
  BY <1>1, <1>2, <1>3 DEF Due
<1>5. ForWaits' /\ (Timed => Timed')
  BY <1>1, <1>4 DEF LoopBase, ForWaits, Timed, Single
<1>6. Shape' /\ Owing(X)' /\ Awake'
  BY <1>1, <1>2, PopOwing DEF LoopBase
<1>7. PromiseInv'
  BY <1>1, StackFacts DEF LoopBase, ObligationInv, PromiseInv
<1> QED BY <1>2, <1>5, <1>6, <1>7 DEF ObligationInv, BaseNext

LEMMA WakeCase ==
  ASSUME NEW X \in SUBSET OwnSettled, LoopBase(X), Wake  PROVE BaseNext(X)
<1> DEFINE d == Top.p
<1>1. /\ stack # << >> /\ Top.op = "wake" /\ Top.op \in TimerOps /\ d \in Id /\ stack' = Rest
      /\ SettleAfter(micro, d, "ok", Undef)
      /\ UNCHANGED <<co, calls, loop, dropped, heap, cancelled>> /\ running' = TM!Below
  BY DEF Wake, TM!FinishOnce, TimerOps
<1>2. /\ Top = TaskCall(TM!Top.task) /\ Top.op \notin Obliging /\ Nests(stack', running')
      /\ \A q : InTask(q)' = InTask(q) \ {Len(running)}
      /\ \A q : Len(running) \in InTask(q) <=> TM!Top.task = q
  BY <1>1, TopTask
<1>3. TM!Top.task = d
  BY <1>1, <1>2, TaskCallFacts
<1>4. /\ ObligationInv(X) /\ PromiseInv /\ Neat(promise) /\ Jobbed(micro, promise) /\ Framed(stack, promise)
      /\ Launched(stack) /\ Lost /\ Owing(X) /\ Awake /\ ForWaits
      /\ micro \in Seq(Safe) /\ Rest \in Seq(Safe) /\ Sound(promise)
  BY <1>1, InvSeqs DEF LoopBase, ObligationInv, Shape
<1> HIDE DEF d
<1>5. promise[d].by = "timer" /\ Len(running) \in InTask(d)
  <2>1. Len(running) \in InTask(d)
    BY <1>2, <1>3
  <2> QED BY <1>1, <1>4, <2>1 DEF ForWaits
<1>6. /\ Undef \in Value /\ "ok" \in Side /\ Outcome(promise, "ok", Undef).st = "fulfilled"
      /\ ~Adopts(promise, d, "ok", Undef)
  BY ValueFacts DEF Side, Outcome, Adopts
<1>7. PromiseInv'
  <2>1. TableStep /\ micro' \in Seq(Safe)
    BY <1>1, <1>4, <1>6, SettleStep
  <2> QED BY <1>1, <1>4, <2>1 DEF PromiseInv, TableStep
<1>8. \A q \in Id : Load(stack', Obliging, q) = Load(stack, Obliging, q)
  <2> SUFFICES ASSUME NEW q \in Id  PROVE Load(stack', Obliging, q) = Load(stack, Obliging, q)
    OBVIOUS
  <2>1. Load(stack, Obliging, q) = Plus(Load(Rest, Obliging, q), 0) /\ Load(Rest, Obliging, q) \in 0 .. 2
    BY <1>1, <1>2, <1>4, TopFacts, LoadRange
  <2> QED BY <1>1, <2>1 DEF Plus
<1>9. /\ Neat(promise') /\ Jobbed(micro', promise') /\ Keeps(promise, promise') /\ Lost' /\ Owing(X)'
      /\ \A q \in Id : Resumes(promise', micro', q) = Resumes(promise, micro, q)
  <2>1. Outcome(promise, "ok", Undef).st # "unborn" /\ dropped' = dropped
    BY <1>1, <1>6
  <2> QED BY <1>1, <1>4, <1>5, <1>6, <1>8, <2>1, SettlePlain
<1>10. Framed(stack', promise') /\ Launched(stack') /\ Awake'
  BY <1>1, <1>4, <1>9, TopFacts, AllKept, AwakeSame
<1>11. /\ promise'[d].by = "timer"
       /\ promise[d].st = "pending" => promise'[d].st = "fulfilled"
       /\ \A q \in Id \ {d} : promise'[q] = promise[q]
  BY <1>1, <1>4, <1>5, <1>6 DEF SettleAfter, Settled, Closed, Sound, Table
<1>12. Timed => Timed'
  <2> SUFFICES ASSUME Timed, NEW q \in Id
               PROVE  /\ Single(q)'
                      /\ IF promise'[q].by = "timer" /\ promise'[q].st = "pending"
                         THEN Due(q)' # {} \/ InTask(q)' # {} \/ cancelled' # {}
                         ELSE Due(q)' = {} /\ InTask(q)' = {}
    BY DEF Timed
  <2>1. Due(q)' = Due(q)
    BY <1>1 DEF Due
  <2>2. CASE q = d
    <3>1. promise[d].st = "pending" /\ InTask(d) = {Len(running)} /\ Due(d) = {}
      BY <1>1, <1>5 DEF Timed, Single
    <3>2. Due(q)' = {} /\ InTask(q)' = {}
      BY <1>2, <2>1, <2>2, <3>1
    <3> QED BY <1>11, <2>2, <3>1, <3>2 DEF Single
  <2>3. CASE q # d
    <3>1. InTask(q)' = InTask(q)
      BY <1>2, <1>3, <2>3
    <3> QED BY <1>1, <1>11, <2>1, <2>3, <3>1 DEF Timed, Single
  <2> QED BY <2>2, <2>3
<1>13. ForWaits'
  <2> SUFFICES ASSUME NEW q \in Id, Due(q)' # {} \/ InTask(q)' # {}  PROVE promise'[q].by = "timer"
    BY DEF ForWaits
  <2>1. Due(q)' = Due(q) /\ InTask(q)' \subseteq InTask(q)
    BY <1>1, <1>2 DEF Due
  <2> QED BY <1>4, <1>11, <2>1 DEF ForWaits
<1> QED BY <1>2, <1>7, <1>9, <1>10, <1>12, <1>13 DEF ObligationInv, Shape, BaseNext


LEMMA BaseStep ==
  ASSUME NEW X \in SUBSET OwnSettled, LoopBase(X), [LoopNext]_loopVars
  PROVE  BaseNext(X) /\ LoopBase(X)'
<1>1. TP!TimerInv'
  BY QueueInv DEF LoopBase
<1> SUFFICES BaseNext(X)
  BY <1>1 DEF LoopBase, BaseNext
<1>2. CASE SetTimer
  BY <1>2, SetTimerCase
<1>3. CASE Wait
  BY <1>3, WaitCase
<1>4. CASE StartTimer
  BY <1>4, StartCase
<1>5. CASE EndTimer
  BY <1>5, EndCase
<1>6. CASE Wake
  BY <1>6, WakeCase
<1>7. CASE ClearTimer \/ Tick \/ LoopEnded \/ UNCHANGED loopVars
  BY <1>7, QuietCase
<1>8. CASE /\ ApiCall \/ Return \/ Throw \/ Fail \/ RunJob \/ AwaitReturns \/ Exhausted
           /\ UNCHANGED timerVars
  <2>1. PromiseNext
    BY <1>8 DEF PromiseNext, Exhausted
  <2> QED BY <1>8, <2>1, PromiseCase
<1> QED BY <1>2, <1>3, <1>4, <1>5, <1>6, <1>7, <1>8 DEF LoopNext, TimerCall

LEMMA LoopStep == LoopInv /\ [LoopNext]_loopVars => LoopInv'
<1> {"timer"} \in SUBSET OwnSettled
  BY DEF OwnSettled
<1> QED BY BaseStep DEF LoopInv, BaseNext

LEMMA BaseInit ==
  ASSUME NEW X \in SUBSET OwnSettled, LoopInit
  PROVE  LoopBase(X) /\ Timed
<1>1. ObligationInv(X) /\ TP!TimerInv
  BY ObligationInit, QueueInit DEF LoopInit
<1>2. /\ heap = {} /\ running = << >> /\ stack = <<Call("script", 0)>>
      /\ \A d \in Id : promise[d].by = "none"
  BY DEF LoopInit, PromiseInit, TM!TimerInit, Unborn
<1>3. Timed /\ ForWaits
  BY <1>2 DEF Timed, ForWaits, Single, Due, InTask
<1> DEFINE a == Call("script", 0)
<1>4. a.op = "script"
  BY CallFacts, ValueFacts DEF Op, Settling
<1>5. DOMAIN stack = {1} /\ stack[1] = a
  BY <1>2
<1> HIDE DEF a
<1>6. Places(stack) = {} /\ Awaits(stack) = {}
  BY <1>4, <1>5 DEF Places, Awaits, TimerOps
<1>7. Nests(stack, running)
  <2>1. Matches(<< >>, stack, running)
    BY <1>2, <1>6 DEF Matches
  <2>2. Cardinality(Awaits(stack)) <= MaxAwait
    BY <1>6, FS_EmptySet, BoundsAssumption
  <2> QED BY <1>6, <2>1, <2>2 DEF Nests, Nested, OnAwait
<1> QED BY <1>1, <1>3, <1>7 DEF LoopBase

LEMMA TimedImplies == LoopInv => WaitHasTimer
<1> SUFFICES ASSUME LoopInv, NEW d \in Id, promise[d].by = "timer"
             PROVE  IF promise[d].st = "pending"
                    THEN Cardinality(Due(d)) + Cardinality(InTask(d)) = 1 \/ cancelled # {}
                    ELSE Due(d) = {} /\ InTask(d) = {}
  BY DEF WaitHasTimer
<1>1. Timed
  BY DEF LoopInv
<1>2. CASE promise[d].st = "pending" /\ cancelled = {}
  <2>1. Due(d) # {} \/ InTask(d) # {}
    BY <1>1, <1>2 DEF Timed
  <2>2. Cardinality({}) = 0 /\ \A x : Cardinality({x}) = 1
    BY FS_EmptySet, FS_Singleton
  <2>3. CASE Due(d) # {}
    <3>1. PICK e : e \in Due(d)
      BY <2>3
    <3>2. Due(d) = {e} /\ InTask(d) = {}
      BY <1>1, <2>3, <3>1 DEF Timed, Single
    <3>3. Cardinality(Due(d)) = 1 /\ Cardinality(InTask(d)) = 0
      BY <2>2, <3>2, Zenon
    <3> QED BY <1>2, <3>3
  <2>4. CASE InTask(d) # {}
    <3>1. PICK i : i \in InTask(d)
      BY <2>4
    <3>2. InTask(d) = {i} /\ Due(d) = {}
      BY <1>1, <2>4, <3>1 DEF Timed, Single
    <3>3. Cardinality(Due(d)) = 0 /\ Cardinality(InTask(d)) = 1
      BY <2>2, <3>2, Zenon
    <3> QED BY <1>2, <3>3
  <2> QED BY <2>1, <2>3, <2>4
<1>3. CASE promise[d].st # "pending"
  BY <1>1, <1>3 DEF Timed
<1> QED BY <1>2, <1>3

LEMMA LoopHolds == LoopSpec => []LoopInv
<1>1. LoopInit => LoopInv
  <2> {"timer"} \in SUBSET OwnSettled
    BY DEF OwnSettled
  <2> QED BY BaseInit DEF LoopInv
<1> QED BY <1>1, LoopStep, PTL DEF LoopSpec

(* Timers, their callbacks and the promises of подождать match, at any     *)
(* depth of awaits within callbacks, whatever the program does.            *)
THEOREM TimersMatch == LoopSpec => []TimersAccounted
<1>1. LoopInv => TimersAccounted
  <2> {"timer"} \in SUBSET OwnSettled
    BY DEF OwnSettled
  <2> QED BY NestsImplies, TimedImplies DEF TimersAccounted, LoopInv
<1> QED BY <1>1, LoopHolds, PTL

(* What holds of promises alone holds when their callbacks run in timers,  *)
(* and timers settle some of them: nothing is fulfilled with a promise,    *)
(* callbacks wait in pairs, no wakeup is lost and none comes twice.        *)
THEOREM LoopLosesNoWakeup ==
  LoopSpec => [](/\ PromiseTypeOK /\ NeverFulfilledWithPromise /\ PairedCallbacks
                 /\ OneObligation /\ SuspendedAwaitsResume)
<1>1. LoopInv => /\ PromiseTypeOK /\ NeverFulfilledWithPromise /\ PairedCallbacks
                 /\ OneObligation /\ SuspendedAwaitsResume
  <2> {"timer"} \in SUBSET OwnSettled
    BY DEF OwnSettled
  <2> QED BY InvImplies, ObligationImplies DEF LoopInv, LoopBase, ObligationInv
<1> QED BY <1>1, LoopHolds, PTL

(* And so does what holds of the queue: tasks start in the order of their  *)
(* deadlines, and an interval has one tick.                                *)
THEOREM LoopKeepsOrder == LoopSpec => [](TM!TimerTypeOK /\ FireOrder /\ TM!OneTick)
<1>1. LoopInv => TM!TimerTypeOK /\ FireOrder /\ TM!OneTick
  BY QueueFacts DEF LoopInv, LoopBase, FireOrder
<1> QED BY <1>1, LoopHolds, PTL

(* A cancelled timer neither starts nor re-arms, whatever callbacks,       *)
(* awaits and errors do in between.                                        *)
THEOREM LoopCancelIsFinal == LoopSpec => CancelSticks
<1> DEFINE Final == [TP!Sticks]_TM!timerVars
<1>1. LoopInv /\ [LoopNext]_loopVars => Final
  <2> SUFFICES ASSUME TP!TimerInv, [LoopNext]_loopVars  PROVE Final
    BY DEF LoopInv, LoopBase
  <2>1. [TP!TimerNext]_TP!timerVars
    BY QueueStep, SameQueue
  <2>2. [TP!Sticks]_TP!timerVars
    BY <2>1, TP!StepSticks, QueueAssumptions
  <2> QED BY <2>2 DEF TP!timerVars, TM!timerVars
<1> QED BY <1>1, LoopHolds, PTL DEF LoopSpec, CancelSticks, TM!CancelSticks, TP!Sticks


(* A step that leaves the promises alone shows nothing of them.            *)
LEMMA SameTable ==
  ASSUME PromiseInv, promise' = promise  PROVE TableStep
BY DEF PromiseInv, TableStep

(* A new promise is one birth.                                             *)
LEMMA BirthTable ==
  ASSUME PromiseInv, NEW p \in Id, Fresh(p), NEW r, GoodRec(r), r.st # "unborn",
         promise' = [promise EXCEPT ![p] = r]
  PROVE  TableStep
<1>1. ~Born(p)
  BY DEF Fresh, Next1
<1> QED BY <1>1, CreateStep DEF TableStep

(* The loop creates and settles promises one at a time, as PromiseJobs.    *)
LEMMA LoopTable ==
  ASSUME PromiseInv, [LoopNext]_loopVars  PROVE TableStep
<1>1. PromiseInv /\ micro \in Seq(Safe)
  BY DEF PromiseInv
<1>2. CASE Wait
  <2>1. PICK p \in Id : Fresh(p) /\ promise' = [promise EXCEPT ![p] = Pending("timer")]
    BY <1>2 DEF Wait
  <2>2. GoodRec(Pending("timer")) /\ Pending("timer").st # "unborn"
    BY FreshRecs DEF Origin
  <2> QED BY <1>1, <2>1, <2>2, BirthTable
<1>3. CASE Wake
  <2>1. Top.p \in Id /\ SettleAfter(micro, Top.p, "ok", Undef)
    BY <1>3 DEF Wake
  <2>2. Undef \in Value /\ "ok" \in Side /\ Outcome(promise, "ok", Undef).st # "unborn"
    BY ValueFacts DEF Side, Outcome
  <2> QED BY <1>1, <2>1, <2>2, SettleStep
<1>4. CASE SetTimer \/ StartTimer \/ EndTimer \/ ClearTimer \/ Tick \/ LoopEnded \/ UNCHANGED loopVars
  <2>1. promise' = promise
    BY <1>4 DEF SetTimer, StartTimer, EndTimer, ClearTimer, Tick, LoopEnded, loopVars, promiseVars
  <2> QED BY <1>1, <2>1, SameTable
<1>5. CASE /\ ApiCall \/ Return \/ Throw \/ Fail \/ RunJob \/ AwaitReturns \/ Exhausted
           /\ UNCHANGED timerVars
  <2>1. PromiseNext
    BY <1>5 DEF PromiseNext, Exhausted
  <2> QED BY <1>1, <2>1, InvNext
<1> QED BY <1>2, <1>3, <1>4, <1>5 DEF LoopNext, TimerCall

(* With timers that settle some of them, promises still are what           *)
(* PromiseContract allows: whatever the timers do and when.        *)
THEOREM LoopImplementsContract == LoopSpec => ContractSpec
<1>1. LoopInit => Contract!Init
  BY ContractInit DEF LoopInit
<1>2. LoopInv /\ [LoopNext]_loopVars => [Contract!Next]_(Shown(promise))
  BY LoopTable, TableContract DEF LoopInv, LoopBase, ObligationInv, PromiseInv
<1> QED BY <1>1, <1>2, LoopHolds, PTL DEF LoopSpec, ContractSpec, Contract!Spec, Shown

=============================================================================
