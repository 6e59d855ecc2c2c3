------------------------- MODULE PromiseJobs_proofs -------------------------
(***************************************************************************)
(* What holds of promises and the microtask queue for every program, with  *)
(* any number of promises and calls and any values: the types of the       *)
(* state, that a promise is never fulfilled with a promise, that the       *)
(* promise table implements PromiseContract, and that no wakeup is lost    *)
(* and none comes twice.                                                   *)
(***************************************************************************)
EXTENDS PromiseJobs, SequenceTheorems, FiniteSetTheorems, TLAPS

(* The inductive invariant.  Everything that will settle a promise names   *)
(* one; what takes a result was never given a promise, since results come  *)
(* from fulfilled promises; rejections wait only in the lists of           *)
(* rejections; and callbacks wait in pairs.                                *)
Settling == {"cap", "then", "finally", "resume", "executor", "body", "agg"}
Goal == {a \in Act : a.op \in Settling => a.p \in Id}
Rejecting == {a \in Goal : a.side = "err"}
Safe == {a \in Goal : a.side = "ok" => a.val \notin Id}

SoundRec == [st : {"unborn", "pending", "fulfilled", "rejected"}, val : Value,
             ok : Seq(Goal), err : Seq(Rejecting), by : Origin]
Table == [Id -> SoundRec]

Twin(ok, err) ==
    /\ ok.side = "ok" /\ err.side = "err" /\ ok.op = err.op /\ ok.p = err.p
    /\ ok.op = "agg" => ok.arg = err.arg
Paired(r) == Len(r.ok) = Len(r.err) /\ \A i \in DOMAIN r.ok : Twin(r.ok[i], r.err[i])

(* Unsettled promises hold no value and fulfilled ones no promise.         *)
Flat(r) ==
    /\ r.st \in {"unborn", "pending"} => r.val = Undef
    /\ r.st = "fulfilled" => r.val \notin Id

Sound(t) == t \in Table /\ \A p \in Id : Paired(t[p]) /\ Flat(t[p])

PromiseInv ==
    /\ Sound(promise)
    /\ micro \in Seq(Safe) /\ stack \in Seq(Safe)
    /\ co \in [Id -> {"none", "running", "suspended", "done"}]
    /\ calls \in Nat
    /\ loop \in {"running", "done", "failed"}
    /\ dropped \subseteq Id

(* What a step may do to the table: nothing that shows, or create one      *)
(* promise, or settle one.                                                 *)
Same(t, n, q) == n[q].st = t[q].st /\ n[q].val = t[q].val
Moves(t, n) ==
    \E p \in Id :
        /\ \A q \in Id \ {p} : Same(t, n, q)
        /\ \/ Same(t, n, p)
           \/ t[p].st = "unborn" /\ n[p].st # "unborn"
           \/ t[p].st = "pending" /\ n[p].st \in {"fulfilled", "rejected"}

(***************************************************************************)
(* Records and callbacks.                                                  *)
(***************************************************************************)

LEMMA ValueFacts ==
  /\ Undef \in Value /\ HostError \in Value /\ Undef \notin Id /\ HostError \notin Id
  /\ Id \subseteq Nat /\ Id \subseteq 0 .. MaxPromise /\ 0 \in 0 .. MaxPromise
  /\ \A v \in Value : v \in Plain <=> v \notin Id
BY PlainAssumption, BoundsAssumption DEF Value, Id

LEMMA CallbackType ==
  ASSUME NEW op \in Op, NEW p \in 0 .. MaxPromise, NEW side \in Side, NEW arg \in Nat,
         op \in Settling => p \in Id
  PROVE  /\ Callback(op, p, side, arg) \in Safe
         /\ Callback(op, p, side, arg).side = side
         /\ Callback(op, p, side, arg).op = op /\ Callback(op, p, side, arg).p = p
BY ValueFacts DEF Callback, Act, Goal, Safe

LEMMA CallType ==
  ASSUME NEW op \in Op, NEW p \in 0 .. MaxPromise, op \in Settling => p \in Id
  PROVE  Call(op, p) \in Safe
BY CallbackType DEF Call, Side

LEMMA GivenType ==
  ASSUME NEW cb \in Goal, NEW v \in Value, v \notin Id \/ cb \in Rejecting
  PROVE  Given(cb, v) \in Safe
BY DEF Given, Act, Goal, Rejecting, Safe

LEMMA CalledType ==
  ASSUME NEW cbs \in Seq(Goal), NEW v \in Value, v \notin Id \/ cbs \in Seq(Rejecting)
  PROVE  Called(cbs, v) \in Seq(Safe)
<1>1. \A i \in 1 .. Len(cbs) : Given(cbs[i], v) \in Safe
  BY GivenType
<1>2. DOMAIN cbs = 1 .. Len(cbs) /\ Len(cbs) \in Nat
  OBVIOUS
<1>3. Called(cbs, v) \in [1 .. Len(cbs) -> Safe]
  BY <1>1, <1>2 DEF Called
<1> QED BY <1>2, <1>3, SeqDef

(* What a promise is made of.                                              *)
GoodRec(r) == r \in SoundRec /\ Paired(r) /\ Flat(r)

LEMMA FreshRecs ==
  /\ GoodRec(Unborn) /\ Unborn.st = "unborn"
  /\ \A by \in Origin : GoodRec(Pending(by)) /\ Pending(by).st = "pending"
<1>1. << >> \in Seq(Goal) /\ << >> \in Seq(Rejecting) /\ Len(<< >>) = 0 /\ DOMAIN << >> = {}
  OBVIOUS
<1> QED BY <1>1, ValueFacts DEF Unborn, Pending, GoodRec, SoundRec, Paired, Flat, Origin

LEMMA ClosedType ==
  ASSUME NEW r \in SoundRec, NEW st \in {"fulfilled", "rejected"}, NEW v \in Value,
         st = "fulfilled" => v \notin Id
  PROVE  GoodRec(Closed(r, st, v)) /\ Closed(r, st, v).st = st /\ Closed(r, st, v).val = v
<1>1. << >> \in Seq(Goal) /\ << >> \in Seq(Rejecting) /\ Len(<< >>) = 0 /\ DOMAIN << >> = {}
  OBVIOUS
<1> QED BY <1>1 DEF Closed, GoodRec, SoundRec, Paired, Flat

LEMMA WithPairType ==
  ASSUME NEW r, GoodRec(r), NEW ok \in Goal, NEW err \in Goal, Twin(ok, err)
  PROVE  /\ GoodRec(WithPair(r, ok, err))
         /\ WithPair(r, ok, err).st = r.st /\ WithPair(r, ok, err).val = r.val
<1> DEFINE w == WithPair(r, ok, err)
<1>1. r.ok \in Seq(Goal) /\ r.err \in Seq(Rejecting) /\ Len(r.ok) = Len(r.err)
  BY DEF GoodRec, SoundRec, Paired
<1>2. err \in Rejecting
  BY DEF Twin, Rejecting
<1>3. Append(r.ok, ok) \in Seq(Goal) /\ Append(r.err, err) \in Seq(Rejecting)
  BY <1>1, <1>2
<1>4. w \in SoundRec /\ w.st = r.st /\ w.val = r.val
      /\ w.ok = Append(r.ok, ok) /\ w.err = Append(r.err, err)
  BY <1>3 DEF WithPair, GoodRec, SoundRec
<1> HIDE DEF w
<1>5. Len(w.ok) = Len(w.err) /\ DOMAIN w.ok = 1 .. Len(r.ok) + 1
  BY <1>1, <1>4
<1>6. ASSUME NEW i \in DOMAIN w.ok  PROVE Twin(w.ok[i], w.err[i])
  <2>1. CASE i = Len(r.ok) + 1
    BY <1>1, <1>4, <2>1
  <2>2. CASE i \in 1 .. Len(r.ok)
    <3>1. w.ok[i] = r.ok[i] /\ w.err[i] = r.err[i] /\ i \in DOMAIN r.ok
      BY <1>1, <1>4, <2>2
    <3> QED BY <3>1 DEF GoodRec, Paired
  <2> QED BY <1>1, <1>5, <2>1, <2>2
<1>7. Flat(w)
  BY <1>4 DEF GoodRec, Flat
<1> QED BY <1>4, <1>5, <1>6, <1>7 DEF GoodRec, Paired, w

(***************************************************************************)
(* Settling and registering.                                               *)
(***************************************************************************)

LEMMA TableGet == \A t : Sound(t) => \A p \in Id : GoodRec(t[p]) /\ t[p] \in SoundRec
BY DEF Sound, Table, GoodRec

LEMMA OutcomeFacts ==
  ASSUME NEW t, Sound(t), NEW side \in Side, NEW v \in Value,
         Outcome(t, side, v).st # "unborn"
  PROVE  /\ Outcome(t, side, v).st \in {"pending", "fulfilled", "rejected"}
         /\ Outcome(t, side, v).val \in Value
         /\ Outcome(t, side, v).st = "pending" => v \in Id
         /\ Outcome(t, side, v).st = "fulfilled" => Outcome(t, side, v).val \notin Id
BY DEF Outcome, Sound, Flat, Table, SoundRec

(* Settling a promise keeps the table sound and touches no other promise.  *)
LEMMA SettledFacts ==
  ASSUME NEW t, Sound(t), NEW p \in Id, NEW side \in Side, NEW v \in Value,
         Outcome(t, side, v).st # "unborn"
  PROVE  /\ Sound(Settled(t, p, side, v)) /\ Moves(t, Settled(t, p, side, v))
         /\ Jobs(t, p, side, v) \in Seq(Safe)
<1> DEFINE o == Outcome(t, side, v)
           n == Settled(t, p, side, v)
           r == Callback("cap", p, "ok", 0)
           e == Callback("cap", p, "err", 0)
<1>1. /\ o.st \in {"pending", "fulfilled", "rejected"} /\ o.val \in Value
      /\ o.st = "pending" => v \in Id
      /\ o.st = "fulfilled" => o.val \notin Id
  BY OutcomeFacts
<1>2. CASE t[p].st # "pending"
  <2>1. n = t /\ Jobs(t, p, side, v) = << >>
    BY <1>2 DEF Settled, Jobs
  <2> QED BY <2>1 DEF Moves, Same
<1>3. CASE t[p].st = "pending" /\ o.st = "pending"
  <2>1. v \in Id /\ n = [t EXCEPT ![v] = WithPair(t[v], r, e)] /\ Jobs(t, p, side, v) = << >>
    BY <1>1, <1>3 DEF Settled, Jobs
  <2>2. GoodRec(t[v])
    BY <2>1, TableGet
  <2>3. r \in Safe /\ e \in Safe /\ Twin(r, e)
    BY CallbackType, ValueFacts DEF Op, Side, Twin
  <2> HIDE DEF r, e, n
  <2>4. r \in Goal /\ e \in Goal
    BY <2>3 DEF Safe
  <2>5. /\ GoodRec(WithPair(t[v], r, e))
        /\ WithPair(t[v], r, e).st = t[v].st /\ WithPair(t[v], r, e).val = t[v].val
    BY <2>2, <2>3, <2>4, WithPairType
  <2>6. Sound(n) /\ n[v] = WithPair(t[v], r, e) /\ \A q \in Id \ {v} : n[q] = t[q]
    BY <2>1, <2>5 DEF Sound, Table, GoodRec
  <2>7. \A q \in Id : Same(t, n, q)
    BY <2>5, <2>6 DEF Same
  <2>8. Moves(t, n)
    BY <2>7 DEF Moves
  <2> QED BY <2>1, <2>6, <2>8 DEF n
<1>4. CASE t[p].st = "pending" /\ o.st # "pending"
  <2>1. n = [t EXCEPT ![p] = Closed(t[p], o.st, o.val)]
    BY <1>4 DEF Settled
  <2>2. t[p] \in SoundRec
    BY TableGet
  <2>3. Called(t[p].ok, o.val) \in Seq(Safe) \/ o.st = "rejected"
    BY <1>1, <1>4, <2>2, CalledType DEF SoundRec
  <2>4. Called(t[p].err, o.val) \in Seq(Safe)
    <3>1. t[p].err \in Seq(Goal) /\ t[p].err \in Seq(Rejecting)
      BY <2>2 DEF SoundRec, Rejecting
    <3> QED BY <1>1, <3>1, CalledType
  <2>5. Jobs(t, p, side, v) \in Seq(Safe)
    BY <1>1, <1>4, <2>3, <2>4 DEF Jobs
  <2> HIDE DEF o, n
  <2>6. o.st \in {"fulfilled", "rejected"} /\ o.val \in Value
    BY <1>1, <1>4
  <2>7. GoodRec(Closed(t[p], o.st, o.val)) /\ Closed(t[p], o.st, o.val).st = o.st
    BY <1>1, <2>2, <2>6, ClosedType
  <2>8. Sound(n) /\ n[p] = Closed(t[p], o.st, o.val) /\ \A q \in Id \ {p} : n[q] = t[q]
    BY <2>1, <2>7 DEF Sound, Table, GoodRec
  <2>9. Moves(t, n)
    BY <1>4, <2>6, <2>7, <2>8 DEF Moves, Same
  <2> QED BY <2>5, <2>8, <2>9 DEF n
<1> QED BY <1>2, <1>3, <1>4

(* Registering a pair of callbacks settles nothing.                        *)
LEMMA RegisteredFacts ==
  ASSUME NEW t, Sound(t), NEW p \in Id, NEW ok \in Safe, NEW err \in Safe, Twin(ok, err)
  PROVE  /\ Sound(Registered(t, p, ok, err))
         /\ \A q \in Id : Same(t, Registered(t, p, ok, err), q)
         /\ RegisteredJobs(t, p, ok, err) \in Seq(Safe)
<1> DEFINE n == Registered(t, p, ok, err)
<1>1. GoodRec(t[p]) /\ t[p] \in SoundRec
  BY TableGet
<1>2. ok \in Goal /\ err \in Goal /\ err \in Rejecting
  BY DEF Safe, Rejecting, Twin
<1>3. /\ GoodRec(WithPair(t[p], ok, err))
      /\ WithPair(t[p], ok, err).st = t[p].st /\ WithPair(t[p], ok, err).val = t[p].val
  BY <1>1, <1>2, WithPairType
<1>4. n = t \/ n = [t EXCEPT ![p] = WithPair(t[p], ok, err)]
  BY DEF Registered
<1>5. RegisteredJobs(t, p, ok, err) \in Seq(Safe)
  <2>1. t[p].val \in Value /\ (t[p].st = "fulfilled" => t[p].val \notin Id)
    BY <1>1 DEF GoodRec, SoundRec, Flat
  <2>2. t[p].st = "fulfilled" => Given(ok, t[p].val) \in Safe
    BY <1>2, <2>1, GivenType
  <2>3. Given(err, t[p].val) \in Safe
    BY <1>2, <2>1, GivenType
  <2> QED BY <2>2, <2>3 DEF RegisteredJobs
<1> HIDE DEF n
<1>6. CASE n = [t EXCEPT ![p] = WithPair(t[p], ok, err)]
  <2>1. Sound(n) /\ n[p] = WithPair(t[p], ok, err) /\ \A q \in Id \ {p} : n[q] = t[q]
    BY <1>3, <1>6 DEF Sound, Table, GoodRec
  <2> QED BY <1>3, <1>5, <2>1 DEF Same, n
<1> QED BY <1>4, <1>5, <1>6 DEF n, Same

(***************************************************************************)
(* Steps.                                                                  *)
(***************************************************************************)

(* What every step must establish of the table.                            *)
TableStep == Sound(promise') /\ (promise' = promise \/ Moves(promise, promise'))

LEMMA SettleStep ==
  ASSUME PromiseInv, NEW queue \in Seq(Safe), NEW p \in Id, NEW side \in Side, NEW v \in Value,
         Outcome(promise, side, v).st # "unborn", SettleAfter(queue, p, side, v)
  PROVE  TableStep /\ micro' \in Seq(Safe)
<1>1. /\ Sound(Settled(promise, p, side, v)) /\ Moves(promise, Settled(promise, p, side, v))
      /\ Jobs(promise, p, side, v) \in Seq(Safe)
  BY SettledFacts DEF PromiseInv
<1> QED BY <1>1 DEF SettleAfter, TableStep

LEMMA EscapeStep ==
  ASSUME PromiseInv, NEW base \in Seq(Safe), EscapeTo(base)
  PROVE  stack' \in Seq(Safe) /\ loop' \in {"running", "done", "failed"}
<1>1. CASE base = << >>
  BY <1>1 DEF EscapeTo
<1>2. CASE base # << >>
  <2>1. SubSeq(base, 1, Len(base) - 1) \in Seq(Safe)
    BY <1>2
  <2> QED BY <1>2, <2>1 DEF EscapeTo, PromiseInv
<1> QED BY <1>1, <1>2

LEMMA SettleReturnStep ==
  ASSUME PromiseInv, NEW queue \in Seq(Safe), NEW base \in Seq(Safe), NEW p \in Id,
         NEW side \in Side, NEW v \in Value, Outcome(promise, side, v).st # "unborn",
         SettleAndReturn(queue, base, p, side, v)
  PROVE  /\ TableStep /\ micro' \in Seq(Safe) /\ stack' \in Seq(Safe)
         /\ loop' \in {"running", "done", "failed"} /\ dropped' \subseteq Id
<1>1. CASE SelfResolution(p, side, v)
  <2>1. EscapeTo(base) /\ micro' = queue /\ dropped' = dropped \cup {p} /\ promise' = promise
    BY <1>1 DEF SettleAndReturn
  <2> QED BY <2>1, EscapeStep DEF PromiseInv, TableStep
<1>2. CASE ~SelfResolution(p, side, v)
  <2>1. SettleAfter(queue, p, side, v) /\ stack' = base /\ loop' = loop /\ dropped' = dropped
    BY <1>2 DEF SettleAndReturn
  <2>2. TableStep /\ micro' \in Seq(Safe)
    BY <2>1, SettleStep
  <2> QED BY <2>1, <2>2 DEF PromiseInv
<1> QED BY <1>1, <1>2

LEMMA PassableFacts ==
  /\ Visible \subseteq Id /\ Passable \subseteq Value
  /\ \A v \in Passable, side \in Side : Outcome(promise, side, v).st # "unborn"
  /\ \A v \in Value, side \in Side :
        side = "err" \/ v \notin Id => Outcome(promise, side, v).st # "unborn"
BY PlainAssumption, BoundsAssumption DEF Passable, Visible, Value, Outcome, Side, Born, Id

LEMMA StackFacts ==
  ASSUME PromiseInv, stack # << >>
  PROVE  Top \in Safe /\ Rest \in Seq(Safe)
BY DEF PromiseInv, Top, Rest

LEMMA HeadFacts ==
  ASSUME PromiseInv, micro # << >>
  PROVE  Job \in Safe /\ Tail(micro) \in Seq(Safe)
BY DEF PromiseInv, Job

(* Creating promise p, which did not exist.                                *)
LEMMA CreateStep ==
  ASSUME PromiseInv, NEW p \in Id, ~Born(p), NEW r, GoodRec(r), r.st # "unborn"
  PROVE  Sound([promise EXCEPT ![p] = r]) /\ Moves(promise, [promise EXCEPT ![p] = r])
<1> DEFINE n == [promise EXCEPT ![p] = r]
<1>1. Sound(n) /\ n[p] = r /\ \A q \in Id \ {p} : n[q] = promise[q]
  BY DEF PromiseInv, Sound, Table, GoodRec
<1> HIDE DEF n
<1>2. Moves(promise, n)
  BY <1>1 DEF Moves, Same, Born
<1> QED BY <1>1, <1>2 DEF n

LEMMA ConcatType ==
  ASSUME NEW s \in Seq(Safe), NEW u \in Seq(Safe), NEW a \in Safe
  PROVE  s \o u \in Seq(Safe) /\ Append(s, a) \in Seq(Safe) /\ <<a>> \o s \in Seq(Safe)
OBVIOUS

(* Registering callbacks with a visible promise q, after creating d.       *)
LEMMA DeriveStep ==
  ASSUME PromiseInv, NEW q \in Visible, NEW d \in Id,
         NEW ok \in Safe, NEW err \in Safe, Twin(ok, err), Derive(q, d, ok, err)
  PROVE  TableStep /\ micro' \in Seq(Safe)
<1> DEFINE t == [promise EXCEPT ![d] = Pending("chain")]
<1>1. ~Born(d) /\ q \in Id
  BY PassableFacts DEF Derive, Fresh, Next1
<1>2. GoodRec(Pending("chain")) /\ Pending("chain").st = "pending"
  BY FreshRecs DEF Origin
<1>3. Sound(t) /\ Moves(promise, t)
  BY <1>1, <1>2, CreateStep
<1>4. promise' = Registered(t, q, ok, err) /\ micro' = micro \o RegisteredJobs(t, q, ok, err)
  BY DEF Derive
<1> HIDE DEF t
<1>5. /\ Sound(promise') /\ \A p \in Id : Same(t, promise', p)
      /\ RegisteredJobs(t, q, ok, err) \in Seq(Safe)
  BY <1>1, <1>3, <1>4, RegisteredFacts
<1>6. Moves(promise, promise')
  BY <1>3, <1>5 DEF Moves, Same
<1>7. micro' \in Seq(Safe)
  BY <1>4, <1>5 DEF PromiseInv
<1> QED BY <1>5, <1>6, <1>7 DEF TableStep

LEMMA ApiStep ==
  ASSUME PromiseInv, ApiCall
  PROVE  PromiseInv' /\ TableStep
<1> USE DEF Calls
<1>0. /\ loop' = loop /\ calls' \in Nat /\ stack # << >>
      /\ micro \in Seq(Safe) /\ stack \in Seq(Safe) /\ dropped \subseteq Id /\ Sound(promise)
      /\ co \in [Id -> {"none", "running", "suspended", "done"}]
  BY DEF PromiseInv, ApiCall, Construct, Resolve, Static, Try, Then, Finally, QueueMicrotask,
         CallAsync, Suspend, Block, InScript
<1>1. CASE Construct
  <2>1. PICK p \in Id : /\ Fresh(p) /\ promise' = [promise EXCEPT ![p] = Pending("caps")]
                        /\ stack' = Append(stack, Call("executor", p)) \/ stack' = stack
                        /\ micro' = micro /\ co' = co /\ dropped' = dropped
    BY <1>1 DEF Construct
  <2>2. TableStep
    BY <2>1, CreateStep, FreshRecs DEF TableStep, Fresh, Next1, Origin
  <2>3. Call("executor", p) \in Safe
    BY CallType, ValueFacts DEF Op
  <2>4. stack' \in Seq(Safe)
    BY <1>0, <2>1, <2>3
  <2> QED BY <1>0, <2>1, <2>2, <2>4 DEF PromiseInv, TableStep
<1>2. CASE Resolve
  <2>1. PICK p \in Id, side \in Side, v \in Passable :
          SettleAfter(micro, p, side, v) /\ stack' = stack /\ co' = co /\ dropped' = dropped
    BY <1>2 DEF Resolve
  <2>2. TableStep /\ micro' \in Seq(Safe)
    BY <1>0, <2>1, SettleStep, PassableFacts
  <2> QED BY <1>0, <2>1, <2>2 DEF PromiseInv, TableStep
<1>3. CASE Static
  <2>1. PICK p \in Id, v \in Passable :
          /\ Fresh(p)
          /\ \/ v \notin Id /\ promise' = [promise EXCEPT ![p] = Closed(Pending("static"), "fulfilled", v)]
             \/ promise' = [promise EXCEPT ![p] = Closed(Pending("static"), "rejected", v)]
          /\ micro' = micro /\ stack' = stack /\ co' = co /\ dropped' = dropped
    BY <1>3 DEF Static
  <2>2. Pending("static") \in SoundRec /\ v \in Value
    BY FreshRecs, PassableFacts DEF Origin, GoodRec
  <2>3. /\ v \notin Id => /\ GoodRec(Closed(Pending("static"), "fulfilled", v))
                         /\ Closed(Pending("static"), "fulfilled", v).st = "fulfilled"
        /\ GoodRec(Closed(Pending("static"), "rejected", v))
        /\ Closed(Pending("static"), "rejected", v).st = "rejected"
    BY <2>2, ClosedType
  <2>4. TableStep
    BY <2>1, <2>3, CreateStep DEF TableStep, Fresh, Next1
  <2> QED BY <1>0, <2>1, <2>4 DEF PromiseInv, TableStep
<1>4. CASE Try
  <2>1. Call("try", 0) \in Safe
    BY CallType, ValueFacts DEF Op, Settling
  <2>2. stack' \in Seq(Safe)
    BY <1>0, <1>4, <2>1 DEF Try
  <2> QED BY <1>0, <1>4, <2>2 DEF PromiseInv, TableStep, Try
<1>5. CASE Then
  <2>1. PICK p \in Visible, d \in Id, onOk \in {0, 1}, onErr \in {0, 1} :
          Derive(p, d, Callback("then", d, "ok", onOk), Callback("then", d, "err", onErr))
    BY <1>5 DEF Then
  <2> DEFINE ok == Callback("then", d, "ok", onOk)
             err == Callback("then", d, "err", onErr)
  <2>2. ok \in Safe /\ err \in Safe /\ Twin(ok, err)
    BY CallbackType, ValueFacts DEF Op, Side, Twin
  <2> HIDE DEF ok, err
  <2>3. TableStep /\ micro' \in Seq(Safe)
    BY <2>1, <2>2, DeriveStep DEF ok, err
  <2>4. stack' = stack /\ co' = co /\ dropped' = dropped
    BY <2>1 DEF Derive
  <2> QED BY <1>0, <2>3, <2>4 DEF PromiseInv, TableStep
<1>6. CASE Finally
  <2>1. PICK p \in Visible, d \in Id :
          Derive(p, d, Callback("finally", d, "ok", 0), Callback("finally", d, "err", 0))
    BY <1>6 DEF Finally
  <2> DEFINE ok == Callback("finally", d, "ok", 0)
             err == Callback("finally", d, "err", 0)
  <2>2. ok \in Safe /\ err \in Safe /\ Twin(ok, err)
    BY CallbackType, ValueFacts DEF Op, Side, Twin
  <2> HIDE DEF ok, err
  <2>3. TableStep /\ micro' \in Seq(Safe)
    BY <2>1, <2>2, DeriveStep DEF ok, err
  <2>4. stack' = stack /\ co' = co /\ dropped' = dropped
    BY <2>1 DEF Derive
  <2> QED BY <1>0, <2>3, <2>4 DEF PromiseInv, TableStep
<1>7. CASE QueueMicrotask
  <2>1. Call("task", 0) \in Safe /\ Call("quiet", 0) \in Safe
    BY CallType, ValueFacts DEF Op, Settling
  <2>2. \/ \E op \in {"task", "quiet"} : micro' = Append(micro, Call(op, 0))
        \/ micro' = <<Call("task", 0)>> \o micro
    BY <1>7 DEF QueueMicrotask
  <2>3. micro' \in Seq(Safe)
    BY <1>0, <2>1, <2>2, ConcatType
  <2> QED BY <1>0, <1>7, <2>3 DEF PromiseInv, TableStep, QueueMicrotask
<1>8. CASE CallAsync
  <2>1. PICK p \in Id : /\ Fresh(p) /\ promise' = [promise EXCEPT ![p] = Pending("async")]
                        /\ co' = [co EXCEPT ![p] = "running"]
                        /\ stack' = Append(stack, Call("body", p))
                        /\ micro' = micro /\ dropped' = dropped
    BY <1>8 DEF CallAsync
  <2>2. TableStep
    BY <2>1, CreateStep, FreshRecs DEF TableStep, Fresh, Next1, Origin
  <2>3. Call("body", p) \in Safe
    BY CallType, ValueFacts DEF Op
  <2>4. stack' \in Seq(Safe)
    BY <1>0, <2>1, <2>3
  <2>5. co' \in [Id -> {"none", "running", "suspended", "done"}]
    BY <1>0, <2>1
  <2> QED BY <1>0, <2>1, <2>2, <2>4, <2>5 DEF PromiseInv, TableStep
<1>9. CASE Suspend
  <2> DEFINE ok == Callback("resume", Top.p, "ok", 0)
             err == Callback("resume", Top.p, "err", 0)
  <2>1. Top \in Safe /\ Rest \in Seq(Safe) /\ Top.op = "body"
    BY <1>0, <1>9, StackFacts DEF Suspend
  <2>2. Top.p \in Id
    BY <2>1 DEF Safe, Goal, Settling
  <2>a. Top.p \in 0 .. MaxPromise
    BY <2>2, ValueFacts
  <2>b. ok \in Safe /\ err \in Safe /\ Twin(ok, err)
    BY <2>2, <2>a, CallbackType DEF Op, Side, Twin
  <2>3. ok \in Safe /\ err \in Safe /\ Twin(ok, err) /\ ok \in Goal
    BY <2>b DEF Safe
  <2>4. \/ \E v \in Visible : /\ promise' = Registered(promise, v, ok, err)
                             /\ micro' = micro \o RegisteredJobs(promise, v, ok, err)
        \/ \E v \in Plain : micro' = Append(micro, Given(ok, v)) /\ promise' = promise
    BY <1>9 DEF Suspend
  <2>5. /\ co' = [co EXCEPT ![Top.p] = "suspended"] /\ stack' = Rest /\ dropped' = dropped
    BY <1>9 DEF Suspend
  <2> HIDE DEF ok, err
  <2>6. TableStep /\ micro' \in Seq(Safe)
    <3>1. CASE \E v \in Visible : /\ promise' = Registered(promise, v, ok, err)
                                /\ micro' = micro \o RegisteredJobs(promise, v, ok, err)
      <4>1. PICK v \in Visible : /\ promise' = Registered(promise, v, ok, err)
                                 /\ micro' = micro \o RegisteredJobs(promise, v, ok, err)
        BY <3>1
      <4>2. v \in Id
        BY PassableFacts
      <4>3. /\ Sound(promise') /\ \A q \in Id : Same(promise, promise', q)
            /\ RegisteredJobs(promise, v, ok, err) \in Seq(Safe)
        BY <1>0, <2>3, <4>1, <4>2, RegisteredFacts
      <4>4. Moves(promise, promise')
        BY <4>2, <4>3 DEF Moves
      <4> QED BY <1>0, <4>1, <4>3, <4>4 DEF TableStep
    <3>2. CASE \E v \in Plain : micro' = Append(micro, Given(ok, v)) /\ promise' = promise
      <4>1. PICK v \in Plain : micro' = Append(micro, Given(ok, v)) /\ promise' = promise
        BY <3>2
      <4>2. v \in Value /\ v \notin Id
        BY ValueFacts DEF Value
      <4>3. Given(ok, v) \in Safe
        BY <2>3, <4>2, GivenType
      <4> QED BY <1>0, <4>1, <4>3, ConcatType DEF TableStep
    <3> QED BY <2>4, <3>1, <3>2
  <2>7. co' \in [Id -> {"none", "running", "suspended", "done"}]
    BY <1>0, <2>5
  <2> QED BY <1>0, <2>1, <2>5, <2>6, <2>7 DEF PromiseInv, TableStep
<1>10. CASE Block
  <2>1. PICK p \in Visible : /\ stack' = Append(stack, Call("await", p))
                             /\ promise' = promise /\ micro' = micro /\ co' = co /\ dropped' = dropped
    BY <1>10 DEF Block
  <2>2. p \in Id
    BY PassableFacts
  <2>3. Call("await", p) \in Safe
    BY <2>2, CallType, ValueFacts DEF Op
  <2>4. stack' \in Seq(Safe)
    BY <1>0, <2>1, <2>3
  <2> QED BY <1>0, <2>1, <2>4 DEF PromiseInv, TableStep
<1> QED BY <1>1, <1>2, <1>3, <1>4, <1>5, <1>6, <1>7, <1>8, <1>9, <1>10 DEF ApiCall

LEMMA EndStep ==
  ASSUME PromiseInv, NEW ending \in {"ok", "err", "host"}, NEW v \in Value, EndCall(ending, v),
         v \in Passable \/ v \notin Id
  PROVE  PromiseInv' /\ TableStep
<1>0. /\ calls' = calls /\ Top \in Safe /\ Rest \in Seq(Safe)
      /\ micro \in Seq(Safe) /\ dropped \subseteq Id /\ Sound(promise) /\ calls \in Nat
      /\ loop \in {"running", "done", "failed"}
      /\ co \in [Id -> {"none", "running", "suspended", "done"}]
  BY StackFacts DEF EndCall, InScript, PromiseInv
<1>a. \A side \in Side : Outcome(promise, side, v).st # "unborn"
  BY PassableFacts
<1>b. Top.op \in {"executor", "then", "finally", "body"} => Top.p \in Id
  BY <1>0 DEF Safe, Goal, Settling
<1>1. CASE EndScript(ending)
  BY <1>0, <1>1 DEF EndScript, PromiseInv, TableStep
<1>2. CASE EndExecutor(ending, v)
  <2>1. \/ SettleAfter(micro, Top.p, "err", v)
        \/ promise' = promise /\ micro' = micro
    BY <1>2 DEF EndExecutor
  <2>2. TableStep /\ micro' \in Seq(Safe)
    BY <1>0, <1>2, <1>a, <1>b, <2>1, SettleStep DEF EndExecutor, TableStep, Side
  <2> QED BY <1>0, <1>2, <2>2 DEF EndExecutor, PromiseInv, TableStep
<1>3. CASE EndTry(ending, v)
  <2>1. CASE promise' = promise
    BY <1>0, <1>3, <2>1 DEF EndTry, PromiseInv, TableStep
  <2>2. CASE promise' # promise
    <3> DEFINE st == IF ending = "ok" THEN "fulfilled" ELSE "rejected"
    <3>1. PICK p \in Id :
            Next1(p) /\ promise' = [promise EXCEPT ![p] = Closed(Pending("static"), st, v)]
      BY <1>3, <2>2 DEF EndTry
    <3>2. st \in {"fulfilled", "rejected"} /\ (st = "fulfilled" => v \notin Id)
      BY <1>3, <2>2 DEF EndTry
    <3>3. Pending("static") \in SoundRec
      BY FreshRecs DEF Origin, GoodRec
    <3> HIDE DEF st
    <3>4. /\ GoodRec(Closed(Pending("static"), st, v))
          /\ Closed(Pending("static"), st, v).st = st
      BY <3>2, <3>3, ClosedType
    <3>5. TableStep
      BY <3>1, <3>2, <3>4, CreateStep DEF TableStep, Next1
    <3> QED BY <1>0, <1>3, <3>5 DEF EndTry, PromiseInv, TableStep
  <2> QED BY <2>1, <2>2
<1>4. CASE EndTask(ending)
  <2>1. stack' \in Seq(Safe) /\ loop' \in {"running", "done", "failed"}
    BY <1>0, <1>4, EscapeStep DEF EndTask
  <2> QED BY <1>0, <1>4, <2>1 DEF EndTask, PromiseInv, TableStep
<1>5. CASE EndThen(ending, v)
  <2>1. PICK side \in Side : SettleAndReturn(micro, Rest, Top.p, side, v)
    BY <1>5 DEF EndThen, Side
  <2>2. /\ TableStep /\ micro' \in Seq(Safe) /\ stack' \in Seq(Safe)
        /\ loop' \in {"running", "done", "failed"} /\ dropped' \subseteq Id
    BY <1>0, <1>5, <1>a, <1>b, <2>1, SettleReturnStep DEF EndThen
  <2> QED BY <1>0, <1>5, <2>2 DEF EndThen, PromiseInv, TableStep
<1>6. CASE EndFinally(ending, v)
  <2>1. \/ SettleAndReturn(micro, Rest, Top.p, Top.side, Top.val)
        \/ SettleAndReturn(micro, Rest, Top.p, "err", v)
    BY <1>6 DEF EndFinally
  <2>2. Top.side \in Side /\ Top.val \in Value /\ (Top.side = "err" \/ Top.val \notin Id)
    BY <1>0 DEF Safe, Goal, Act, Side
  <2>3. Outcome(promise, Top.side, Top.val).st # "unborn"
    BY <2>2, PassableFacts
  <2>4. /\ TableStep /\ micro' \in Seq(Safe) /\ stack' \in Seq(Safe)
        /\ loop' \in {"running", "done", "failed"} /\ dropped' \subseteq Id
    <3>1. CASE SettleAndReturn(micro, Rest, Top.p, Top.side, Top.val)
      BY <1>0, <1>6, <1>b, <2>2, <2>3, <3>1, SettleReturnStep DEF EndFinally
    <3>2. CASE SettleAndReturn(micro, Rest, Top.p, "err", v)
      BY <1>0, <1>6, <1>a, <1>b, <3>2, SettleReturnStep DEF EndFinally, Side
    <3> QED BY <2>1, <3>1, <3>2
  <2> QED BY <1>0, <1>6, <2>4 DEF EndFinally, PromiseInv, TableStep
<1>7. CASE EndBody(ending, v)
  <2>1. Top.p \in Id /\ co' = [co EXCEPT ![Top.p] = "done"]
    BY <1>7, <1>b DEF EndBody
  <2>2. co' \in [Id -> {"none", "running", "suspended", "done"}]
    BY <1>0, <2>1
  <2>3. CASE ending = "host"
    <3>1. stack' \in Seq(Safe) /\ loop' \in {"running", "done", "failed"}
      BY <1>0, <1>7, <2>3, EscapeStep DEF EndBody
    <3>2. dropped' = dropped \cup {Top.p} /\ promise' = promise /\ micro' = micro
      BY <1>7, <2>3 DEF EndBody
    <3> QED BY <1>0, <2>1, <2>2, <3>1, <3>2 DEF PromiseInv, TableStep
  <2>4. CASE ending # "host"
    <3>1. SettleAndReturn(micro, Rest, Top.p, ending, v) /\ ending \in Side
      BY <1>7, <2>4 DEF EndBody, Side
    <3>2. /\ TableStep /\ micro' \in Seq(Safe) /\ stack' \in Seq(Safe)
          /\ loop' \in {"running", "done", "failed"} /\ dropped' \subseteq Id
      BY <1>0, <1>a, <2>1, <3>1, SettleReturnStep
    <3> QED BY <1>0, <2>2, <3>2 DEF PromiseInv, TableStep
  <2> QED BY <2>3, <2>4
<1> QED BY <1>1, <1>2, <1>3, <1>4, <1>5, <1>6, <1>7 DEF EndCall

LEMMA JobStep ==
  ASSUME PromiseInv, RunJob
  PROVE  PromiseInv' /\ TableStep
<1>0. /\ calls' = calls /\ Job \in Safe /\ Tail(micro) \in Seq(Safe) /\ stack \in Seq(Safe)
      /\ dropped \subseteq Id /\ Sound(promise) /\ calls \in Nat
      /\ loop \in {"running", "done", "failed"}
      /\ co \in [Id -> {"none", "running", "suspended", "done"}]
  BY HeadFacts DEF RunJob, PromiseInv
<1>1. CASE RunSettler
  <2>1. Job.p \in Id
    BY <1>0, <1>1 DEF RunSettler, Safe, Goal, Settling
  <2>2. Job.side \in Side /\ Job.val \in Value /\ (Job.side = "err" \/ Job.val \notin Id)
    BY <1>0 DEF Safe, Goal, Act, Side
  <2>3. Outcome(promise, Job.side, Job.val).st # "unborn"
    BY <2>2, PassableFacts
  <2>4. SettleAndReturn(Tail(micro), stack, Job.p, Job.side, Job.val) /\ co' = co
    BY <1>1 DEF RunSettler
  <2>5. /\ TableStep /\ micro' \in Seq(Safe) /\ stack' \in Seq(Safe)
        /\ loop' \in {"running", "done", "failed"} /\ dropped' \subseteq Id
    BY <1>0, <2>1, <2>2, <2>3, <2>4, SettleReturnStep
  <2> QED BY <1>0, <2>4, <2>5 DEF PromiseInv, TableStep
<1>2. CASE RunCallback
  BY <1>0, <1>2, ConcatType DEF RunCallback, PromiseInv, TableStep
<1>3. CASE RunResume
  <2> DEFINE body == [Job EXCEPT !.op = "body", !.arg = 1]
  <2>1. body \in Safe /\ Job.p \in Id
    BY <1>0, <1>3 DEF RunResume, Safe, Goal, Act, Op, Settling
  <2> HIDE DEF body
  <2>2. Append(stack, body) \in Seq(Safe)
    BY <1>0, <2>1
  <2>3. /\ stack' = Append(stack, body) /\ micro' = Tail(micro) /\ promise' = promise
        /\ co' = [co EXCEPT ![Job.p] = "running"] /\ loop' = loop /\ dropped' = dropped
    BY <1>3 DEF RunResume, body
  <2>4. co' \in [Id -> {"none", "running", "suspended", "done"}]
    BY <1>0, <2>1, <2>3
  <2> QED BY <1>0, <2>2, <2>3, <2>4 DEF PromiseInv, TableStep
<1> QED BY <1>1, <1>2, <1>3 DEF RunJob

(***************************************************************************)
(* The theorems.                                                           *)
(***************************************************************************)

LEMMA InvInit == PromiseInit => PromiseInv
<1> SUFFICES ASSUME PromiseInit PROVE PromiseInv
  OBVIOUS
<1>1. GoodRec(Unborn)
  BY FreshRecs
<1>2. Call("script", 0) \in Safe
  BY CallType, ValueFacts DEF Op, Settling
<1>3. promise = [p \in Id |-> Unborn]
  BY DEF PromiseInit
<1>4. Sound(promise)
  BY <1>1, <1>3 DEF Sound, Table, GoodRec
<1> QED BY <1>2, <1>4 DEF PromiseInit, PromiseInv

LEMMA InvNext == PromiseInv /\ [PromiseNext]_promiseVars => PromiseInv' /\ TableStep
<1> SUFFICES ASSUME PromiseInv, [PromiseNext]_promiseVars  PROVE PromiseInv' /\ TableStep
  OBVIOUS
<1>1. CASE ApiCall
  BY <1>1, ApiStep
<1>2. CASE Return \/ Throw
  <2>1. PICK ending \in {"ok", "err", "host"}, v \in Passable : EndCall(ending, v)
    BY <1>2 DEF Return, Throw
  <2> QED BY <2>1, EndStep, PassableFacts
<1>3. CASE Fail
  BY <1>3, EndStep, ValueFacts DEF Fail
<1>4. CASE RunJob
  BY <1>4, JobStep
<1>5. CASE AwaitReturns \/ AwaitStarves
  BY <1>5, StackFacts DEF AwaitReturns, AwaitStarves, PromiseInv, TableStep
<1>6. CASE LoopEnds
  BY <1>6 DEF LoopEnds, PromiseInv, TableStep
<1>7. CASE Ended \/ UNCHANGED promiseVars
  BY <1>7 DEF Ended, promiseVars, PromiseInv, TableStep
<1> QED BY <1>1, <1>2, <1>3, <1>4, <1>5, <1>6, <1>7 DEF PromiseNext

LEMMA InvImplies == PromiseInv => PromiseTypeOK /\ NeverFulfilledWithPromise /\ PairedCallbacks
<1> SUFFICES ASSUME PromiseInv  PROVE PromiseTypeOK /\ NeverFulfilledWithPromise /\ PairedCallbacks
  OBVIOUS
<1>1. Seq(Safe) \subseteq Seq(Act) /\ Seq(Goal) \subseteq Seq(Act) /\ Seq(Rejecting) \subseteq Seq(Act)
  BY SeqMonotonic DEF Safe, Goal, Rejecting
<1>2. SoundRec \subseteq PromiseRec
  BY <1>1 DEF SoundRec, PromiseRec
<1>3. PromiseTypeOK
  BY <1>1, <1>2 DEF PromiseInv, PromiseTypeOK, Sound, Table
<1>4. NeverFulfilledWithPromise
  BY DEF PromiseInv, NeverFulfilledWithPromise, Sound, Flat
<1>5. PairedCallbacks
  BY DEF PromiseInv, PairedCallbacks, Sound, Paired, Twin
<1> QED BY <1>3, <1>4, <1>5

(* In every program, whatever it calls and however its code ends: the      *)
(* state is well typed, no promise is fulfilled with a promise, and        *)
(* callbacks wait in pairs.                                                *)
THEOREM PromisesCorrect == PromiseSpec => [](PromiseTypeOK /\ NeverFulfilledWithPromise /\ PairedCallbacks)
<1>1. PromiseInit => PromiseInv
  BY InvInit
<1>2. PromiseInv /\ [PromiseNext]_promiseVars => PromiseInv'
  BY InvNext
<1>3. PromiseInv => PromiseTypeOK /\ NeverFulfilledWithPromise /\ PairedCallbacks
  BY InvImplies
<1> QED BY <1>1, <1>2, <1>3, PTL DEF PromiseSpec

(***************************************************************************)
(* The promise table implements PromiseContract: every step of the program *)
(* creates one promise, or settles one for good, or shows nothing.         *)
(***************************************************************************)

Shown(t) == [p \in Id |-> [st |-> t[p].st, val |-> t[p].val]]

LEMMA ContractInit == PromiseInit => Contract!Init
BY DEF PromiseInit, Contract!Init, Contract!Open, Unborn

(* A sound record of a settled promise shows a settled outcome.            *)
LEMMA ShownOutcome ==
  ASSUME NEW t, Sound(t), NEW p \in Id
  PROVE  /\ t[p].st \in {"fulfilled", "rejected"} =>
                [st |-> t[p].st, val |-> t[p].val] \in Contract!SettledOutcome
         /\ t[p].st \in {"unborn", "pending"} =>
                [st |-> t[p].st, val |-> t[p].val] = Contract!Open(t[p].st)
<1>1. t[p] \in SoundRec /\ Flat(t[p])
  BY DEF Sound, Table
<1>2. t[p].val \in Plain \/ t[p].st # "fulfilled"
  BY <1>1, ValueFacts DEF SoundRec, Flat
<1>3. t[p].val \in Plain \cup Id
  BY <1>1 DEF SoundRec, Value
<1> QED BY <1>1, <1>2, <1>3 DEF Contract!SettledOutcome, Contract!Open, Flat

LEMMA ContractStep ==
  ASSUME NEW t, Sound(t), NEW n, Sound(n), Moves(t, n), Shown(t) # Shown(n)
  PROVE  \E p \in Id :
           \/ /\ Shown(t)[p] = Contract!Open("unborn")
              /\ \E o \in {Contract!Open("pending")} \cup Contract!SettledOutcome :
                     Shown(n) = [Shown(t) EXCEPT ![p] = o]
           \/ /\ Shown(t)[p] = Contract!Open("pending")
              /\ \E o \in Contract!SettledOutcome : Shown(n) = [Shown(t) EXCEPT ![p] = o]
<1>1. PICK p \in Id :
        /\ \A q \in Id \ {p} : Same(t, n, q)
        /\ \/ Same(t, n, p)
           \/ t[p].st = "unborn" /\ n[p].st # "unborn"
           \/ t[p].st = "pending" /\ n[p].st \in {"fulfilled", "rejected"}
  BY DEF Moves
<1> DEFINE o == [st |-> n[p].st, val |-> n[p].val]
<1>2. Shown(n) = [Shown(t) EXCEPT ![p] = o] /\ Shown(t)[p] = [st |-> t[p].st, val |-> t[p].val]
  BY <1>1 DEF Shown, Same
<1>3. ~Same(t, n, p)
  <2>1. Same(t, n, p) => \A q \in Id : Same(t, n, q)
    BY <1>1
  <2>2. (\A q \in Id : Same(t, n, q)) => Shown(t) = Shown(n)
    BY DEF Same, Shown
  <2> QED BY <2>1, <2>2
<1>4. n[p].st \in {"pending", "fulfilled", "rejected", "unborn"}
  BY DEF Sound, Table, SoundRec
<1>5. t[p].st \in {"unborn", "pending"} /\ Shown(t)[p] = Contract!Open(t[p].st)
  BY <1>1, <1>2, <1>3, ShownOutcome
<1>6. o \in Contract!SettledOutcome \/ (n[p].st = "pending" /\ o = Contract!Open("pending"))
      \/ n[p].st = "unborn"
  BY <1>4, ShownOutcome
<1> HIDE DEF o
<1> QED BY <1>1, <1>2, <1>3, <1>5, <1>6

(* What a step does to the table is a step of the contract, or shows       *)
(* nothing.                                                                *)
LEMMA TableContract ==
  ASSUME Sound(promise), TableStep
  PROVE  [Contract!Next]_(Shown(promise))
<1> SUFFICES ASSUME Shown(promise)' # Shown(promise)
             PROVE  Contract!Next
  BY DEF Contract!Next
<1>1. promise' # promise /\ Moves(promise, promise') /\ Sound(promise')
      /\ Shown(promise') # Shown(promise)
  BY DEF TableStep, Shown
<1>2. PICK p \in Id :
         \/ /\ Shown(promise)[p] = Contract!Open("unborn")
            /\ \E o \in {Contract!Open("pending")} \cup Contract!SettledOutcome :
                   Shown(promise') = [Shown(promise) EXCEPT ![p] = o]
         \/ /\ Shown(promise)[p] = Contract!Open("pending")
            /\ \E o \in Contract!SettledOutcome :
                   Shown(promise') = [Shown(promise) EXCEPT ![p] = o]
  BY <1>1, ContractStep
<1>3. Contract!Create(p) \/ Contract!Settle(p)
  BY <1>2 DEF Contract!Create, Contract!Settle, Shown
<1> QED BY <1>3 DEF Contract!Next

(* Whatever a program does, what it sees of its promises is what           *)
(* PromiseContract allows.                                                 *)
THEOREM PromisesImplementContract == PromiseSpec => ContractSpec
<1>1. PromiseInit => Contract!Init
  BY ContractInit
<1>2. PromiseInv /\ [PromiseNext]_promiseVars => [Contract!Next]_(Shown(promise))
  BY InvNext, TableContract DEF PromiseInv
<1>3. PromiseSpec => []PromiseInv
  BY InvInit, InvNext, PTL DEF PromiseSpec
<1> QED BY <1>1, <1>2, <1>3, PTL DEF PromiseSpec, ContractSpec, Contract!Spec, Shown

(***************************************************************************)
(* No wakeup is lost and none comes twice, in any program: each promise    *)
(* the runtime settles by itself has exactly one thing that will settle it *)
(* until it is settled, and a coroutine is suspended exactly while its     *)
(* resumption waits or is queued.                                          *)
(*                                                                         *)
(* The proof counts, up to two, what a list, the table, the queue and the  *)
(* stack hold for one promise.                                             *)
(***************************************************************************)

(* What a sequence of callbacks, microtasks or calls holds for d: nothing  *)
(* of the kinds in K, one thing or more.  What d may be is a promise or,   *)
(* for the handlers of an aggregate, that of one item.                     *)
Aim(a) == IF a.op = "agg" THEN <<a.p, a.arg>> ELSE a.p
Hit(a, K, d) == a.op \in K /\ Aim(a) = d
NoHit(s, K, d) == \A i \in DOMAIN s : ~Hit(s[i], K, d)
OneHit(s, K, d) == \E i \in DOMAIN s : Hit(s[i], K, d) /\ \A j \in DOMAIN s \ {i} : ~Hit(s[j], K, d)
Load(s, K, d) == IF NoHit(s, K, d) THEN 0 ELSE IF OneHit(s, K, d) THEN 1 ELSE 2
Unit(a, K, d) == IF Hit(a, K, d) THEN 1 ELSE 0

Plus(x, y) == IF x + y > 2 THEN 2 ELSE x + y

(* The same of the lists of the promises in I.                             *)
NoWait(t, I, K, d) == \A q \in I : Load(t[q].ok, K, d) = 0
OneWait(t, I, K, d) ==
    \E q \in I : Load(t[q].ok, K, d) = 1 /\ \A r \in I \ {q} : Load(t[r].ok, K, d) = 0
Held(t, I, K, d) == IF NoWait(t, I, K, d) THEN 0 ELSE IF OneWait(t, I, K, d) THEN 1 ELSE 2

(* What will settle d, and what will resume it.                            *)
Obliging == {"cap", "then", "finally", "resume", "body"}
Coming(t, m, K, d) == Plus(Held(t, Id, K, d), Load(m, K, d))
Owed(t, m, s, d) == Plus(Coming(t, m, Obliging, d), Load(s, Obliging, d))
Resumes(t, m, d) == Coming(t, m, {"resume"}, d)

(* The inductive invariant: PromiseInv, and for each promise what is owed; *)
(* only pending promises have callbacks; what kinds of callbacks wait, are *)
(* queued or are being called, and that only async functions are resumed;  *)
(* and what the queue called and whose errors escape runs on the bare      *)
(* stack or inside a blocking await, so that such an error ends nothing    *)
(* else.  A promise that does not exist yet is owed nothing, and neither   *)
(* is one of an origin in X, which those who use promises settle by        *)
(* themselves.                                                             *)
OwnSettled == {"timer", "agg"}
Releasing == {"cap", "then", "finally", "resume", "agg"}
WaitOK(a, t) ==
    /\ a.op \in Releasing
    /\ a.op = "resume" => t[a.p].by = "async"
    /\ a.op = "agg" => t[a.p].by = "agg"
Neat(t) ==
    \A q \in Id : /\ t[q].st # "pending" => t[q].ok = << >>
                  /\ t[q].st = "unborn" <=> t[q].by = "none"
                  /\ \A i \in DOMAIN t[q].ok : WaitOK(t[q].ok[i], t)
JobOK(a, t) == WaitOK(a, t) \/ (a.op \in {"task", "quiet"} /\ a.p = 0)
Jobbed(m, t) == \A i \in DOMAIN m : JobOK(m[i], t)
FrameOK(a, t) ==
    /\ a.op \notin {"cap", "resume"}
    /\ a.op = "executor" => t[a.p].by = "caps"
    /\ a.op = "body" => t[a.p].by = "async"
Framed(s, t) == \A i \in DOMAIN s : FrameOK(s[i], t)

FromQueue(a) == a.op \in {"task", "then", "finally"} \/ (a.op = "body" /\ a.arg # 0)
Launched(s) == \A i \in DOMAIN s : FromQueue(s[i]) => i = 1 \/ s[i - 1].op = "await"

Settles(d) == promise[d].by \in {"chain", "async"}
Open(d) == promise[d].st = "pending" /\ d \notin dropped
Idle(X, d) == promise[d].st = "unborn" \/ promise[d].by \in X
Owing(X) ==
    \A d \in Id :
        /\ Settles(d) => Owed(promise, micro, stack, d) = IF Open(d) THEN 1 ELSE 0
        /\ Idle(X, d) => Owed(promise, micro, stack, d) = 0
Awake == \A d \in Id : co[d] = "suspended" <=> Resumes(promise, micro, d) # 0

Lost == \A d \in dropped : Born(d)

Shape ==
    Neat(promise) /\ Jobbed(micro, promise) /\ Framed(stack, promise) /\ Launched(stack) /\ Lost
ObligationInv(X) == PromiseInv /\ Shape /\ Owing(X) /\ Awake
(***************************************************************************)
(* Counting in a sequence.                                                 *)
(***************************************************************************)

LEMMA LoadRange ==
  ASSUME NEW s, NEW K, NEW d
  PROVE  Load(s, K, d) \in 0 .. 2
BY DEF Load

LEMMA LoadNone ==
  ASSUME NEW s, NEW K, NEW d
  PROVE  Load(s, K, d) = 0 <=> NoHit(s, K, d)
BY DEF Load, NoHit, OneHit

LEMMA LoadEmpty ==
  ASSUME NEW K, NEW d
  PROVE  Load(<< >>, K, d) = 0
<1>1. DOMAIN << >> = {}
  OBVIOUS
<1> QED BY <1>1 DEF Load, NoHit

LEMMA LoadConcat ==
  ASSUME NEW s \in Seq(Act), NEW u \in Seq(Act), NEW K, NEW d
  PROVE  Load(s \o u, K, d) = Plus(Load(s, K, d), Load(u, K, d))
<1> DEFINE w == s \o u
           m == Len(s)
           n == Len(u)
<1>1. /\ m \in Nat /\ n \in Nat /\ DOMAIN s = 1 .. m /\ DOMAIN u = 1 .. n /\ DOMAIN w = 1 .. m + n
      /\ \A i \in 1 .. m : w[i] = s[i]
      /\ \A i \in 1 .. n : w[m + i] = u[i]
  OBVIOUS
<1> HIDE DEF w, m, n
<1>2. ASSUME NEW i \in 1 .. m + n  PROVE i \in 1 .. m \/ \E j \in 1 .. n : i = m + j
  <2>1. CASE i \notin 1 .. m
    <3>1. i - m \in 1 .. n /\ i = m + (i - m)
      BY <1>1, <2>1
    <3> QED BY <3>1
  <2> QED BY <2>1
<1>3. \A i \in 1 .. m : i \in 1 .. m + n
  BY <1>1
<1>4. \A j \in 1 .. n : m + j \in 1 .. m + n /\ m + j \notin 1 .. m
  BY <1>1
<1>5. NoHit(w, K, d) <=> NoHit(s, K, d) /\ NoHit(u, K, d)
  <2>1. ASSUME NoHit(s, K, d), NoHit(u, K, d), NEW i \in 1 .. m + n  PROVE ~Hit(w[i], K, d)
    <3>1. CASE i \in 1 .. m
      BY <1>1, <2>1, <3>1 DEF NoHit
    <3>2. CASE \E j \in 1 .. n : i = m + j
      BY <1>1, <2>1, <3>2 DEF NoHit
    <3> QED BY <1>2, <2>1, <3>1, <3>2
  <2>2. ASSUME NoHit(w, K, d)  PROVE NoHit(s, K, d) /\ NoHit(u, K, d)
    <3>1. \A i \in 1 .. m + n : ~Hit(w[i], K, d)
      BY <1>1, <2>2 DEF NoHit
    <3>2. \A i \in 1 .. m : ~Hit(s[i], K, d)
      BY <1>1, <1>3, <3>1
    <3>3. \A j \in 1 .. n : ~Hit(u[j], K, d)
      BY <1>1, <1>4, <3>1
    <3> QED BY <1>1, <3>2, <3>3 DEF NoHit
  <2>3. (\A i \in 1 .. m + n : ~Hit(w[i], K, d)) => NoHit(w, K, d)
    BY <1>1 DEF NoHit
  <2> QED BY <2>1, <2>2, <2>3
<1>6. ASSUME OneHit(w, K, d)
      PROVE  (OneHit(s, K, d) /\ NoHit(u, K, d)) \/ (NoHit(s, K, d) /\ OneHit(u, K, d))
  <2>1. PICK i \in 1 .. m + n : Hit(w[i], K, d) /\ \A j \in (1 .. m + n) \ {i} : ~Hit(w[j], K, d)
    BY <1>1, <1>6 DEF OneHit
  <2>2. CASE i \in 1 .. m
    <3>1. Hit(s[i], K, d) /\ \A j \in (1 .. m) \ {i} : ~Hit(s[j], K, d)
      BY <1>1, <1>3, <2>1, <2>2
    <3>2. \A j \in 1 .. n : ~Hit(u[j], K, d)
      BY <1>1, <1>4, <2>1, <2>2
    <3> QED BY <1>1, <2>2, <3>1, <3>2 DEF OneHit, NoHit
  <2>3. CASE \E k \in 1 .. n : i = m + k
    <3>1. PICK k \in 1 .. n : i = m + k
      BY <2>3
    <3>2. \A j \in 1 .. m : ~Hit(s[j], K, d)
      BY <1>1, <1>3, <1>4, <2>1, <3>1
    <3>3. \A j \in (1 .. n) \ {k} : m + j # i
      BY <1>1, <3>1
    <3>4. Hit(u[k], K, d) /\ \A j \in (1 .. n) \ {k} : ~Hit(u[j], K, d)
      BY <1>1, <1>4, <2>1, <3>1, <3>3
    <3> QED BY <1>1, <3>1, <3>2, <3>4 DEF OneHit, NoHit
  <2> QED BY <1>2, <2>1, <2>2, <2>3
<1>7. ASSUME OneHit(s, K, d), NoHit(u, K, d)  PROVE OneHit(w, K, d)
  <2>1. PICK i \in 1 .. m : Hit(s[i], K, d) /\ \A j \in (1 .. m) \ {i} : ~Hit(s[j], K, d)
    BY <1>1, <1>7 DEF OneHit
  <2>2. \A j \in (1 .. m + n) \ {i} : ~Hit(w[j], K, d)
    BY <1>1, <1>2, <1>7, <2>1 DEF NoHit
  <2> QED BY <1>1, <1>3, <2>1, <2>2 DEF OneHit
<1>8. ASSUME NoHit(s, K, d), OneHit(u, K, d)  PROVE OneHit(w, K, d)
  <2>1. PICK k \in 1 .. n : Hit(u[k], K, d) /\ \A j \in (1 .. n) \ {k} : ~Hit(u[j], K, d)
    BY <1>1, <1>8 DEF OneHit
  <2>2. ASSUME NEW j \in 1 .. m + n, j # m + k  PROVE ~Hit(w[j], K, d)
    <3>1. CASE j \in 1 .. m
      BY <1>1, <1>8, <3>1 DEF NoHit
    <3>2. CASE \E l \in 1 .. n : j = m + l
      BY <1>1, <2>1, <2>2, <3>2
    <3> QED BY <1>2, <2>2, <3>1, <3>2
  <2> QED BY <1>1, <1>4, <2>1, <2>2 DEF OneHit
<1>9. ~(NoHit(s, K, d) /\ OneHit(s, K, d)) /\ ~(NoHit(u, K, d) /\ OneHit(u, K, d))
  BY DEF NoHit, OneHit
<1> QED BY <1>5, <1>6, <1>7, <1>8, <1>9 DEF Load, Plus, w

LEMMA LoadSingle ==
  ASSUME NEW a, NEW K, NEW d
  PROVE  Load(<<a>>, K, d) = Unit(a, K, d)
<1>1. DOMAIN <<a>> = {1} /\ <<a>>[1] = a
  OBVIOUS
<1> QED BY <1>1 DEF Load, NoHit, OneHit, Unit

(* Two lists of the same kinds of things for the same promises.            *)
LEMMA LoadTwin ==
  ASSUME NEW s, NEW u, DOMAIN s = DOMAIN u,
         \A i \in DOMAIN s : s[i].op = u[i].op /\ Aim(s[i]) = Aim(u[i]),
         NEW K, NEW d
  PROVE  Load(s, K, d) = Load(u, K, d)
<1>1. \A i \in DOMAIN s : Hit(s[i], K, d) <=> Hit(u[i], K, d)
  BY DEF Hit
<1>2. NoHit(s, K, d) <=> NoHit(u, K, d)
  BY <1>1 DEF NoHit
<1>3. OneHit(s, K, d) <=> OneHit(u, K, d)
  BY <1>1 DEF OneHit
<1> QED BY <1>2, <1>3 DEF Load

(* Fewer kinds count no more.                                              *)
LEMMA LoadFewer ==
  ASSUME NEW s, NEW K, NEW L, K \subseteq L, NEW d, Load(s, L, d) = 0
  PROVE  Load(s, K, d) = 0
<1>1. NoHit(s, L, d)
  BY LoadNone
<1>2. NoHit(s, K, d)
  BY <1>1 DEF NoHit, Hit
<1> QED BY <1>2, LoadNone

LEMMA CalledLoad ==
  ASSUME NEW cbs \in Seq(Act), NEW v, NEW K, NEW d
  PROVE  Load(Called(cbs, v), K, d) = Load(cbs, K, d)
<1>1. DOMAIN Called(cbs, v) = DOMAIN cbs
  BY DEF Called
<1>2. \A i \in DOMAIN cbs : cbs[i] \in Act
  OBVIOUS
<1>3. \A i \in DOMAIN cbs : Called(cbs, v)[i].op = cbs[i].op /\ Aim(Called(cbs, v)[i]) = Aim(cbs[i])
  BY <1>2 DEF Called, Given, Act, Aim
<1> HIDE DEF Called
<1> QED BY <1>1, <1>3, LoadTwin

(* w is s with a behind it.  (The provers read Append as a function; a     *)
(* predicate they can match.)                                              *)
Pushes(w, s, a) == w = Append(s, a)

LEMMA LoadPush ==
  ASSUME NEW s \in Seq(Act), NEW a \in Act, NEW w, Pushes(w, s, a), NEW K, NEW d
  PROVE  Load(w, K, d) = Plus(Load(s, K, d), Unit(a, K, d))
<1> DEFINE one == <<a>>
<1>1. one \in Seq(Act) /\ w = s \o one
  BY DEF Pushes
<1>2. Load(one, K, d) = Unit(a, K, d)
  BY LoadSingle
<1> HIDE DEF one
<1>3. Load(s \o one, K, d) = Plus(Load(s, K, d), Load(one, K, d))
  BY <1>1, LoadConcat
<1> QED BY <1>1, <1>2, <1>3, Zenon

LEMMA LastPushed ==
  ASSUME NEW s \in Seq(Act), s # << >>
  PROVE  Pushes(s, SubSeq(s, 1, Len(s) - 1), s[Len(s)])
<1>1. Len(s) \in Nat /\ Len(s) > 0
  OBVIOUS
<1> QED BY <1>1, AppendProperties DEF Pushes

(* m is w with a before it.                                                *)
Shifts(m, w, a) == m = <<a>> \o w

LEMMA LoadShift ==
  ASSUME NEW w \in Seq(Act), NEW a \in Act, NEW m, Shifts(m, w, a), NEW K, NEW d
  PROVE  Load(m, K, d) = Plus(Load(w, K, d), Unit(a, K, d))
<1> DEFINE one == <<a>>
<1>1. one \in Seq(Act) /\ m = one \o w
  BY DEF Shifts
<1>2. Load(one, K, d) = Unit(a, K, d)
  BY LoadSingle
<1> HIDE DEF one
<1>3. Load(one \o w, K, d) = Plus(Load(one, K, d), Load(w, K, d))
  BY <1>1, LoadConcat
<1>4. Load(w, K, d) \in 0 .. 2
  BY LoadRange
<1>5. Plus(Unit(a, K, d), Load(w, K, d)) = Plus(Load(w, K, d), Unit(a, K, d))
  BY <1>4 DEF Plus, Unit
<1> QED BY <1>1, <1>2, <1>3, <1>5, Zenon

LEMMA HeadShifted ==
  ASSUME NEW s \in Seq(Act), s # << >>
  PROVE  Shifts(s, Tail(s), Head(s))
BY DEF Shifts

(***************************************************************************)
(* Counting in the table.                                                  *)
(***************************************************************************)

LEMMA WaitRange ==
  ASSUME NEW t, NEW I, NEW K, NEW d
  PROVE  Held(t, I, K, d) \in 0 .. 2
BY DEF Held

LEMMA WaitNone ==
  ASSUME NEW t, NEW I, NEW K, NEW d
  PROVE  Held(t, I, K, d) = 0 <=> NoWait(t, I, K, d)
BY DEF Held

(* One promise apart.                                                      *)
LEMMA WaitSplit ==
  ASSUME NEW t, NEW I, NEW p \in I, NEW K, NEW d
  PROVE  Held(t, I, K, d) = Plus(Load(t[p].ok, K, d), Held(t, I \ {p}, K, d))
<1> DEFINE x == Load(t[p].ok, K, d)
           J == I \ {p}
<1>1. x \in 0 .. 2
  BY LoadRange
<1>2. NoWait(t, I, K, d) <=> x = 0 /\ NoWait(t, J, K, d)
  BY DEF NoWait
<1>3. (x = 1 /\ NoWait(t, J, K, d)) \/ (x = 0 /\ OneWait(t, J, K, d)) => OneWait(t, I, K, d)
  <2>1. ASSUME x = 1, NoWait(t, J, K, d)  PROVE OneWait(t, I, K, d)
    BY <2>1 DEF OneWait, NoWait
  <2>2. ASSUME x = 0, OneWait(t, J, K, d)  PROVE OneWait(t, I, K, d)
    <3>1. PICK q \in J : Load(t[q].ok, K, d) = 1 /\ \A r \in J \ {q} : Load(t[r].ok, K, d) = 0
      BY <2>2 DEF OneWait
    <3>2. \A r \in I \ {q} : Load(t[r].ok, K, d) = 0
      BY <2>2, <3>1
    <3> QED BY <3>1, <3>2 DEF OneWait
  <2> QED BY <2>1, <2>2
<1>4. ASSUME OneWait(t, I, K, d)
      PROVE  (x = 1 /\ NoWait(t, J, K, d)) \/ (x = 0 /\ OneWait(t, J, K, d))
  <2>1. PICK q \in I : Load(t[q].ok, K, d) = 1 /\ \A r \in I \ {q} : Load(t[r].ok, K, d) = 0
    BY <1>4 DEF OneWait
  <2>2. CASE q = p
    BY <2>1, <2>2 DEF NoWait
  <2>3. CASE q # p
    <3>1. q \in J /\ x = 0 /\ \A r \in J \ {q} : Load(t[r].ok, K, d) = 0
      BY <2>1, <2>3
    <3> QED BY <2>1, <3>1 DEF OneWait
  <2> QED BY <2>2, <2>3
<1>5. ~(NoWait(t, J, K, d) /\ OneWait(t, J, K, d))
  BY DEF NoWait, OneWait
<1> HIDE DEF x, J
<1> QED BY <1>1, <1>2, <1>3, <1>4, <1>5 DEF Held, Plus, x, J

LEMMA WaitSame ==
  ASSUME NEW t, NEW n, NEW I, NEW K, NEW d,
         \A q \in I : Load(n[q].ok, K, d) = Load(t[q].ok, K, d)
  PROVE  Held(n, I, K, d) = Held(t, I, K, d)
<1>1. NoWait(n, I, K, d) <=> NoWait(t, I, K, d)
  BY DEF NoWait
<1>2. OneWait(n, I, K, d) <=> OneWait(t, I, K, d)
  BY DEF OneWait
<1> QED BY <1>1, <1>2 DEF Held

(* When only p's list changes.                                             *)
OnlyAt(t, n, p) == \A q \in Id \ {p} : n[q].ok = t[q].ok

LEMMA WaitMoves ==
  ASSUME NEW t, NEW n, NEW p \in Id, OnlyAt(t, n, p), NEW K, NEW d
  PROVE  \E rest \in 0 .. 2 :
            /\ Held(t, Id, K, d) = Plus(Load(t[p].ok, K, d), rest)
            /\ Held(n, Id, K, d) = Plus(Load(n[p].ok, K, d), rest)
<1>1. Held(n, Id \ {p}, K, d) = Held(t, Id \ {p}, K, d)
  BY WaitSame DEF OnlyAt
<1> DEFINE rest == Held(t, Id \ {p}, K, d)
<1>2. rest \in 0 .. 2
  BY WaitRange
<1>3. Held(t, Id, K, d) = Plus(Load(t[p].ok, K, d), rest)
  BY WaitSplit
<1>4. Held(n, Id, K, d) = Plus(Load(n[p].ok, K, d), Held(n, Id \ {p}, K, d))
  BY WaitSplit
<1> HIDE DEF rest
<1> QED BY <1>1, <1>2, <1>3, <1>4 DEF rest

LEMMA DueRange ==
  ASSUME NEW t, NEW m, NEW K, NEW d
  PROVE  Coming(t, m, K, d) \in 0 .. 2
<1>1. Held(t, Id, K, d) \in 0 .. 2 /\ Load(m, K, d) \in 0 .. 2
  BY WaitRange, LoadRange
<1> QED BY <1>1 DEF Coming, Plus

LEMMA DueFewer ==
  ASSUME NEW t, NEW m, NEW K, NEW L, K \subseteq L, NEW d, Coming(t, m, L, d) = 0
  PROVE  Coming(t, m, K, d) = 0
<1>1. Held(t, Id, L, d) = 0 /\ Load(m, L, d) = 0
  <2>1. Held(t, Id, L, d) \in 0 .. 2 /\ Load(m, L, d) \in 0 .. 2
    BY WaitRange, LoadRange
  <2> QED BY <2>1 DEF Coming, Plus
<1>2. Load(m, K, d) = 0
  BY <1>1, LoadFewer
<1>3. \A q \in Id : Load(t[q].ok, L, d) = 0
  BY <1>1, WaitNone DEF NoWait
<1>4. \A q \in Id : Load(t[q].ok, K, d) = 0
  BY <1>3, LoadFewer
<1>5. Held(t, Id, K, d) = 0
  BY <1>4, WaitNone DEF NoWait
<1> QED BY <1>2, <1>5 DEF Coming, Plus

(***************************************************************************)
(* What settling, registering and creating do to what is owed.             *)
(***************************************************************************)

LEMMA SafeSeq == Safe \subseteq Goal /\ Goal \subseteq Act /\ Seq(Safe) \subseteq Seq(Act) /\ Seq(Goal) \subseteq Seq(Act)
<1>1. Safe \subseteq Goal /\ Goal \subseteq Act /\ Safe \subseteq Act
  BY DEF Safe, Goal
<1> QED BY <1>1, SeqMonotonic

(* A queued callback does what the waiting one is for.                     *)
LEMMA CalledAlike ==
  ASSUME NEW cbs \in Seq(Act), NEW v
  PROVE  /\ DOMAIN Called(cbs, v) = DOMAIN cbs
         /\ \A i \in DOMAIN cbs : Called(cbs, v)[i].op = cbs[i].op /\ Called(cbs, v)[i].p = cbs[i].p
<1>1. /\ DOMAIN Called(cbs, v) = DOMAIN cbs
      /\ \A i \in DOMAIN cbs : Called(cbs, v)[i] = Given(cbs[i], v)
  BY DEF Called
<1>2. \A a \in Act : Given(a, v).op = a.op /\ Given(a, v).p = a.p
  BY DEF Given, Act
<1> SUFFICES ASSUME NEW i \in DOMAIN cbs
             PROVE  Called(cbs, v)[i].op = cbs[i].op /\ Called(cbs, v)[i].p = cbs[i].p
  BY <1>1
<1>3. cbs[i] \in Act /\ Called(cbs, v)[i] = Given(cbs[i], v)
  BY <1>1
<1> QED BY <1>2, <1>3

LEMMA ListFacts ==
  ASSUME NEW t, Sound(t), NEW q \in Id
  PROVE  /\ t[q].ok \in Seq(Act) /\ t[q].err \in Seq(Act)
         /\ DOMAIN t[q].ok = DOMAIN t[q].err
         /\ \A i \in DOMAIN t[q].ok :
              /\ t[q].ok[i] \in Goal
              /\ t[q].ok[i].op = t[q].err[i].op /\ t[q].ok[i].p = t[q].err[i].p
              /\ Aim(t[q].ok[i]) = Aim(t[q].err[i])
<1>1. t[q] \in SoundRec /\ Paired(t[q])
  BY DEF Sound, Table
<1>2. t[q].ok \in Seq(Goal) /\ t[q].err \in Seq(Rejecting)
  BY <1>1 DEF SoundRec
<1>3. Seq(Rejecting) \subseteq Seq(Act) /\ Seq(Goal) \subseteq Seq(Act)
  BY SeqMonotonic DEF Rejecting, Goal
<1>4. DOMAIN t[q].ok = 1 .. Len(t[q].ok) /\ DOMAIN t[q].err = 1 .. Len(t[q].err)
  BY <1>2, <1>3
<1>5. DOMAIN t[q].ok = DOMAIN t[q].err
  BY <1>1, <1>4 DEF Paired
<1>6. \A i \in DOMAIN t[q].ok :
          /\ t[q].ok[i].op = t[q].err[i].op /\ t[q].ok[i].p = t[q].err[i].p
          /\ Aim(t[q].ok[i]) = Aim(t[q].err[i])
  BY <1>1 DEF Paired, Twin, Aim
<1>8. \A i \in DOMAIN t[q].ok : t[q].ok[i] \in Goal
  BY <1>2
<1> QED BY <1>2, <1>3, <1>5, <1>6, <1>8

LEMMA ErrLoad ==
  ASSUME NEW t, Sound(t), NEW q \in Id, NEW K, NEW d
  PROVE  Load(t[q].err, K, d) = Load(t[q].ok, K, d)
<1> DEFINE ok == t[q].ok
           err == t[q].err
<1>1. DOMAIN err = DOMAIN ok /\ \A i \in DOMAIN err : err[i].op = ok[i].op /\ Aim(err[i]) = Aim(ok[i])
  BY ListFacts
<1> HIDE DEF ok, err
<1>2. Load(err, K, d) = Load(ok, K, d)
  BY <1>1, LoadTwin
<1> QED BY <1>2 DEF ok, err

(* Later tables only add origins.                                          *)
Keeps(t, n) == \A q \in Id : t[q].by # "none" => n[q].by = t[q].by

LEMMA OkKept ==
  ASSUME NEW t, NEW n, Keeps(t, n), NEW a \in Goal
  PROVE  /\ WaitOK(a, t) => WaitOK(a, n)
         /\ JobOK(a, t) => JobOK(a, n)
         /\ FrameOK(a, t) => FrameOK(a, n)
<1>1. a.op \in {"resume", "executor", "body", "agg"} => a.p \in Id
  BY DEF Goal, Settling
<1> QED BY <1>1 DEF Keeps, WaitOK, JobOK, FrameOK

LEMMA AllKept ==
  ASSUME NEW t, NEW n, Keeps(t, n), NEW m \in Seq(Safe)
  PROVE  (Jobbed(m, t) => Jobbed(m, n)) /\ (Framed(m, t) => Framed(m, n))
<1>1. \A i \in DOMAIN m : m[i] \in Goal
  BY DEF Safe
<1> QED BY <1>1, OkKept DEF Jobbed, Framed

LEMMA JobbedConcat ==
  ASSUME NEW s \in Seq(Act), NEW u \in Seq(Act), NEW t, Jobbed(s, t), Jobbed(u, t)
  PROVE  Jobbed(s \o u, t)
<1>1. SUFFICES ASSUME NEW i \in 1 .. Len(s) + Len(u)  PROVE JobOK((s \o u)[i], t)
  BY DEF Jobbed
<1>2. CASE i <= Len(s)
  <2>1. i \in DOMAIN s /\ (s \o u)[i] = s[i]
    BY <1>2
  <2> QED BY <2>1 DEF Jobbed
<1>3. CASE i > Len(s)
  <2>1. i - Len(s) \in DOMAIN u /\ (s \o u)[i] = u[i - Len(s)]
    BY <1>3
  <2> QED BY <2>1 DEF Jobbed
<1> QED BY <1>2, <1>3

(* A table whose lists hold no more than t's.                              *)
LEMMA NeatKept ==
  ASSUME NEW t, Sound(t), Neat(t), NEW n, Keeps(t, n),
         \A q \in Id : /\ n[q].st # "pending" => n[q].ok = << >>
                       /\ n[q].st = "unborn" <=> n[q].by = "none"
                       /\ n[q].ok = t[q].ok \/ \A i \in DOMAIN n[q].ok : WaitOK(n[q].ok[i], n)
  PROVE  Neat(n)
<1>1. ASSUME NEW q \in Id, NEW i \in DOMAIN t[q].ok  PROVE WaitOK(t[q].ok[i], n)
  <2>1. t[q].ok[i] \in Goal
    BY ListFacts
  <2>2. WaitOK(t[q].ok[i], t)
    BY DEF Neat
  <2> QED BY <2>1, <2>2, OkKept
<1> QED BY <1>1 DEF Neat

(* What is appended to a list, and what waits on it otherwise.             *)
LEMMA PairFields ==
  ASSUME NEW r \in SoundRec, NEW ok, NEW err
  PROVE  /\ WithPair(r, ok, err).ok = Append(r.ok, ok)
         /\ WithPair(r, ok, err).st = r.st /\ WithPair(r, ok, err).by = r.by
BY DEF WithPair, SoundRec

LEMMA PairLoad ==
  ASSUME NEW t, Sound(t), NEW q \in Id, NEW ok \in Goal, NEW err \in Goal,
         NEW n, n[q] = WithPair(t[q], ok, err), \A r \in Id \ {q} : n[r] = t[r]
  PROVE  /\ n[q].ok = Append(t[q].ok, ok) /\ n[q].st = t[q].st /\ n[q].by = t[q].by
         /\ \A K, d : Held(n, Id, K, d) = Plus(Held(t, Id, K, d), Unit(ok, K, d))
<1>1. t[q] \in SoundRec
  BY DEF Sound, Table
<1>2. n[q].ok = Append(t[q].ok, ok) /\ n[q].st = t[q].st /\ n[q].by = t[q].by
  BY <1>1, PairFields
<1>3. OnlyAt(t, n, q)
  BY DEF OnlyAt
<1>4. ASSUME NEW K, NEW d  PROVE Held(n, Id, K, d) = Plus(Held(t, Id, K, d), Unit(ok, K, d))
  <2>1. PICK rest \in 0 .. 2 : /\ Held(t, Id, K, d) = Plus(Load(t[q].ok, K, d), rest)
                               /\ Held(n, Id, K, d) = Plus(Load(n[q].ok, K, d), rest)
    BY <1>3, WaitMoves
  <2>2. t[q].ok \in Seq(Act) /\ ok \in Act
    BY ListFacts, SafeSeq
  <2>3. Load(n[q].ok, K, d) = Plus(Load(t[q].ok, K, d), Unit(ok, K, d))
    <3> DEFINE l == t[q].ok
               w == n[q].ok
    <3>1. Pushes(w, l, ok) /\ l \in Seq(Act) /\ ok \in Act
      BY <1>2, <2>2 DEF Pushes
    <3> HIDE DEF l, w
    <3>2. Load(w, K, d) = Plus(Load(l, K, d), Unit(ok, K, d))
      BY <3>1, LoadPush
    <3> QED BY <3>2 DEF l, w
  <2>4. Load(t[q].ok, K, d) \in 0 .. 2 /\ Unit(ok, K, d) \in 0 .. 1
    BY LoadRange DEF Unit
  <2> QED BY <2>1, <2>3, <2>4 DEF Plus
<1> QED BY <1>2, <1>4

LEMMA PairNeat ==
  ASSUME NEW t, Sound(t), Neat(t), NEW q \in Id, t[q].st = "pending",
         NEW ok \in Goal, NEW err \in Goal, WaitOK(ok, t),
         NEW n, n[q] = WithPair(t[q], ok, err), \A r \in Id \ {q} : n[r] = t[r]
  PROVE  Neat(n) /\ Keeps(t, n)
<1>1. n[q].ok = Append(t[q].ok, ok) /\ n[q].st = t[q].st /\ n[q].by = t[q].by
  BY PairLoad
<1>2. Keeps(t, n)
  BY <1>1 DEF Keeps
<1>3. ASSUME NEW i \in DOMAIN n[q].ok  PROVE WaitOK(n[q].ok[i], n)
  <2>1. n[q].ok[i] = ok \/ \E j \in DOMAIN t[q].ok : n[q].ok[i] = t[q].ok[j]
    BY <1>1, ListFacts
  <2>2. \A j \in DOMAIN t[q].ok : t[q].ok[j] \in Goal /\ WaitOK(t[q].ok[j], t)
    BY ListFacts DEF Neat
  <2> QED BY <1>2, <2>1, <2>2, OkKept
<1>4. ASSUME NEW r \in Id
      PROVE  /\ n[r].st # "pending" => n[r].ok = << >>
             /\ n[r].st = "unborn" <=> n[r].by = "none"
             /\ n[r].ok = t[r].ok \/ \A i \in DOMAIN n[r].ok : WaitOK(n[r].ok[i], n)
  <2>1. CASE r = q
    BY <1>1, <1>3, <2>1 DEF Neat
  <2>2. CASE r # q
    BY <2>2 DEF Neat
  <2> QED BY <2>1, <2>2
<1> QED BY <1>2, <1>4, NeatKept

(* Settling p: what waited for it is queued, and p itself waits again when *)
(* it adopts a pending promise.                                            *)
Adopts(t, p, side, v) == t[p].st = "pending" /\ Outcome(t, side, v).st = "pending"
Adopted(p) == Callback("cap", p, "ok", 0)

LEMMA AdoptedFacts ==
  ASSUME NEW p \in Id
  PROVE  /\ Adopted(p) \in Goal /\ Callback("cap", p, "err", 0) \in Goal
         /\ Adopted(p).op = "cap" /\ Adopted(p).p = p
<1>1. Adopted(p) \in Safe /\ Callback("cap", p, "err", 0) \in Safe
      /\ Adopted(p).op = "cap" /\ Adopted(p).p = p
  BY CallbackType, ValueFacts DEF Op, Side, Adopted
<1> QED BY <1>1 DEF Safe

LEMMA SettleLoad ==
  ASSUME NEW t, Sound(t), Neat(t), NEW p \in Id, NEW side \in Side, NEW v \in Value,
         Outcome(t, side, v).st # "unborn", NEW queue \in Seq(Safe),
         NEW n, n = Settled(t, p, side, v), NEW jobs, jobs = Jobs(t, p, side, v)
  PROVE  /\ Neat(n)
         /\ \A q \in Id : n[q].by = t[q].by
         /\ \A q \in Id \ {p} : n[q].st = t[q].st
         /\ n[p].st = "pending" <=> Adopts(t, p, side, v)
         /\ t[p].st # "pending" => n[p].st = t[p].st
         /\ n[p].st = "unborn" => t[p].st = "unborn"
         /\ Jobbed(queue, t) => Jobbed(queue \o jobs, n)
         /\ \A K, d : Coming(n, queue \o jobs, K, d)
                        = Plus(Coming(t, queue, K, d),
                               IF Adopts(t, p, side, v) THEN Unit(Adopted(p), K, d) ELSE 0)
<1> DEFINE o == Outcome(t, side, v)
<1>1. /\ o.st \in {"pending", "fulfilled", "rejected"}
      /\ o.st = "pending" => v \in Id
  BY OutcomeFacts
<1>2. jobs \in Seq(Safe)
  BY SettledFacts
<1>3. queue \in Seq(Act) /\ jobs \in Seq(Act)
  BY <1>2, SafeSeq
<1>4. \A K, d : Load(queue \o jobs, K, d) = Plus(Load(queue, K, d), Load(jobs, K, d))
  <2>1. ASSUME NEW K, NEW d  PROVE Load(queue \o jobs, K, d) = Plus(Load(queue, K, d), Load(jobs, K, d))
    BY <1>3, LoadConcat
  <2> QED BY <2>1
<1>5. ASSUME Keeps(t, n), Jobbed(jobs, n), Jobbed(queue, t)  PROVE Jobbed(queue \o jobs, n)
  BY <1>3, <1>5, AllKept, JobbedConcat
<1>6. CASE t[p].st # "pending"
  <2>1. n = t /\ jobs = << >>
    BY <1>6 DEF Settled, Jobs
  <2>2. \A K, d : Coming(n, queue \o jobs, K, d) = Plus(Coming(t, queue, K, d), 0)
    <3>1. queue \o jobs = queue
      BY <1>3, <2>1
    <3>2. \A K, d : Coming(t, queue, K, d) \in 0 .. 2
      BY DueRange
    <3> QED BY <2>1, <3>1, <3>2 DEF Plus
  <2>3. Keeps(t, n) /\ Jobbed(jobs, n)
    BY <2>1 DEF Keeps, Jobbed
  <2> QED BY <1>5, <1>6, <2>1, <2>2, <2>3 DEF Adopts
<1>7. CASE t[p].st = "pending" /\ o.st = "pending"
  <2>1. v \in Id /\ jobs = << >>
    BY <1>1, <1>7 DEF Settled, Jobs
  <2>a. n = [t EXCEPT ![v] = WithPair(t[v], Adopted(p), Callback("cap", p, "err", 0))]
    BY <1>1, <1>7 DEF Settled, Adopted
  <2>2. n[v] = WithPair(t[v], Adopted(p), Callback("cap", p, "err", 0))
        /\ \A r \in Id \ {v} : n[r] = t[r]
    BY <2>1, <2>a DEF Sound, Table
  <2>3. t[v].st = "pending"
    BY <1>7, <2>1 DEF Outcome, Side
  <2>4. WaitOK(Adopted(p), t)
    BY AdoptedFacts DEF WaitOK, Releasing
  <2>5. /\ n[v].st = t[v].st /\ n[v].by = t[v].by
        /\ \A K, d : Held(n, Id, K, d) = Plus(Held(t, Id, K, d), Unit(Adopted(p), K, d))
    BY <2>1, <2>2, AdoptedFacts, PairLoad
  <2>6. Neat(n) /\ Keeps(t, n)
    BY <2>1, <2>2, <2>3, <2>4, AdoptedFacts, PairNeat
  <2>7. ASSUME NEW K, NEW d
        PROVE  Coming(n, queue \o jobs, K, d) = Plus(Coming(t, queue, K, d), Unit(Adopted(p), K, d))
    <3>1. Load(queue \o jobs, K, d) = Load(queue, K, d)
      BY <1>3, <2>1
    <3>2. Held(t, Id, K, d) \in 0 .. 2 /\ Load(queue, K, d) \in 0 .. 2
      BY WaitRange, LoadRange
    <3>3. Held(n, Id, K, d) = Plus(Held(t, Id, K, d), Unit(Adopted(p), K, d))
      BY <2>5
    <3>4. Unit(Adopted(p), K, d) \in 0 .. 1
      BY DEF Unit
    <3> QED BY <3>1, <3>2, <3>3, <3>4 DEF Coming, Plus
  <2>8. Jobbed(jobs, n)
    BY <2>1 DEF Jobbed
  <2>9. \A q \in Id : n[q].by = t[q].by /\ n[q].st = t[q].st
    BY <2>1, <2>2, <2>5
  <2> QED BY <1>5, <1>7, <2>6, <2>7, <2>8, <2>9 DEF Adopts
<1>8. CASE t[p].st = "pending" /\ o.st # "pending"
  <2>1. n = [t EXCEPT ![p] = Closed(t[p], o.st, o.val)] /\ ~Adopts(t, p, side, v)
    BY <1>8 DEF Settled, Adopts
  <2>2. /\ n[p].st = o.st /\ n[p].ok = << >> /\ n[p].by = t[p].by
        /\ \A r \in Id \ {p} : n[r] = t[r]
    BY <2>1 DEF Sound, Table, Closed
  <2>3. jobs = Called(t[p].ok, o.val) \/ jobs = Called(t[p].err, o.val)
    BY <1>8 DEF Jobs
  <2>4. \A K, d : Load(jobs, K, d) = Load(t[p].ok, K, d)
    <3> SUFFICES ASSUME NEW K, NEW d PROVE Load(jobs, K, d) = Load(t[p].ok, K, d)
      OBVIOUS
    <3>1. t[p].ok \in Seq(Act) /\ t[p].err \in Seq(Act)
      BY ListFacts
    <3>4. Load(t[p].err, K, d) = Load(t[p].ok, K, d)
      BY ErrLoad
    <3>2. Load(Called(t[p].ok, o.val), K, d) = Load(t[p].ok, K, d)
      BY <3>1, CalledLoad
    <3>3. Load(Called(t[p].err, o.val), K, d) = Load(t[p].err, K, d)
      BY <3>1, CalledLoad
    <3> QED BY <2>3, <3>2, <3>3, <3>4, Zenon
  <2>5. ASSUME NEW K, NEW d
        PROVE  Coming(n, queue \o jobs, K, d) = Plus(Coming(t, queue, K, d), 0)
    <3>1. OnlyAt(t, n, p)
      BY <2>2 DEF OnlyAt
    <3>2. PICK rest \in 0 .. 2 : /\ Held(t, Id, K, d) = Plus(Load(t[p].ok, K, d), rest)
                                 /\ Held(n, Id, K, d) = Plus(Load(n[p].ok, K, d), rest)
      BY <3>1, WaitMoves
    <3>3. Load(n[p].ok, K, d) = 0
      BY <2>2, LoadEmpty
    <3>4. Load(t[p].ok, K, d) \in 0 .. 2 /\ Load(queue, K, d) \in 0 .. 2
      BY LoadRange
    <3>5. Load(queue \o jobs, K, d) = Plus(Load(queue, K, d), Load(t[p].ok, K, d))
      BY <1>4, <2>4
    <3> QED BY <3>2, <3>3, <3>4, <3>5 DEF Coming, Plus
  <2>6. Keeps(t, n) /\ \A q \in Id : n[q].by = t[q].by
    BY <2>2 DEF Keeps
  <2>7. ASSUME NEW q \in Id
        PROVE  /\ n[q].st # "pending" => n[q].ok = << >>
               /\ n[q].st = "unborn" <=> n[q].by = "none"
               /\ n[q].ok = t[q].ok \/ \A i \in DOMAIN n[q].ok : WaitOK(n[q].ok[i], n)
    <3>1. CASE q = p
      <4>1. n[q].ok = << >> /\ DOMAIN << >> = {}
        BY <2>2, <3>1
      <4>2. n[q].st # "unborn" /\ n[q].by # "none"
        BY <1>1, <1>8, <2>2, <3>1 DEF Neat
      <4> QED BY <4>1, <4>2
    <3>2. CASE q # p
      BY <2>2, <3>2 DEF Neat
    <3> QED BY <3>1, <3>2
  <2>8. Neat(n)
    BY <2>6, <2>7, NeatKept
  <2>9. Jobbed(jobs, n)
    <3>1. /\ DOMAIN jobs = DOMAIN t[p].ok
          /\ \A i \in DOMAIN jobs : jobs[i].op = t[p].ok[i].op /\ jobs[i].p = t[p].ok[i].p
      <4>1. /\ t[p].ok \in Seq(Act) /\ t[p].err \in Seq(Act) /\ DOMAIN t[p].ok = DOMAIN t[p].err
            /\ \A i \in DOMAIN t[p].ok : t[p].ok[i].op = t[p].err[i].op /\ t[p].ok[i].p = t[p].err[i].p
        BY ListFacts
      <4> HIDE DEF o
      <4>2. CASE jobs = Called(t[p].ok, o.val)
        BY <4>1, <4>2, CalledAlike
      <4>3. CASE jobs = Called(t[p].err, o.val)
        <5>1. /\ DOMAIN jobs = DOMAIN t[p].err
              /\ \A i \in DOMAIN jobs : jobs[i].op = t[p].err[i].op /\ jobs[i].p = t[p].err[i].p
          BY <4>1, <4>3, CalledAlike
        <5> QED BY <4>1, <5>1, Zenon
      <4> QED BY <2>3, <4>2, <4>3
    <3>2. \A i \in DOMAIN t[p].ok : WaitOK(t[p].ok[i], t) /\ t[p].ok[i] \in Goal
      BY ListFacts DEF Neat
    <3>3. \A i \in DOMAIN t[p].ok : WaitOK(t[p].ok[i], n)
      BY <2>6, <3>2, OkKept
    <3>4. \A i \in DOMAIN jobs : WaitOK(jobs[i], n)
      BY <3>1, <3>3 DEF WaitOK
    <3> QED BY <3>4 DEF Jobbed, JobOK
  <2> QED BY <1>1, <1>5, <1>8, <2>1, <2>2, <2>5, <2>6, <2>8, <2>9
<1> QED BY <1>6, <1>7, <1>8

(* Registering a pair of callbacks with q, or queueing one of them.        *)
LEMMA RegisterLoad ==
  ASSUME NEW t, Sound(t), Neat(t), NEW q \in Id, t[q].st # "unborn",
         NEW ok \in Safe, NEW err \in Safe, Twin(ok, err), WaitOK(ok, t),
         NEW queue \in Seq(Safe),
         NEW n, n = Registered(t, q, ok, err), NEW jobs, jobs = RegisteredJobs(t, q, ok, err)
  PROVE  /\ Neat(n)
         /\ \A r \in Id : n[r].by = t[r].by /\ n[r].st = t[r].st
         /\ Jobbed(queue, t) => Jobbed(queue \o jobs, n)
         /\ \A K, d : Coming(n, queue \o jobs, K, d) = Plus(Coming(t, queue, K, d), Unit(ok, K, d))
<1>1. ok \in Goal /\ err \in Goal /\ ok \in Act /\ err \in Act /\ queue \in Seq(Act)
  BY SafeSeq
<1>2. CASE t[q].st = "pending"
  <2>1. n = [t EXCEPT ![q] = WithPair(t[q], ok, err)]
    BY <1>2 DEF Registered
  <2>2. jobs = << >>
    BY <1>2 DEF RegisteredJobs
  <2>3. n[q] = WithPair(t[q], ok, err) /\ \A r \in Id \ {q} : n[r] = t[r]
    BY <2>1 DEF Sound, Table
  <2>4. /\ n[q].st = t[q].st /\ n[q].by = t[q].by
        /\ \A K, d : Held(n, Id, K, d) = Plus(Held(t, Id, K, d), Unit(ok, K, d))
    BY <1>1, <2>3, PairLoad
  <2>5. Neat(n) /\ Keeps(t, n)
    BY <1>1, <1>2, <2>3, PairNeat
  <2>6. queue \o jobs = queue
    BY <1>1, <2>2
  <2>7. ASSUME NEW K, NEW d
        PROVE  Coming(n, queue \o jobs, K, d) = Plus(Coming(t, queue, K, d), Unit(ok, K, d))
    <3>1. Held(t, Id, K, d) \in 0 .. 2 /\ Load(queue, K, d) \in 0 .. 2
      BY WaitRange, LoadRange
    <3>2. Held(n, Id, K, d) = Plus(Held(t, Id, K, d), Unit(ok, K, d))
      BY <2>4
    <3>3. Unit(ok, K, d) \in 0 .. 1
      BY DEF Unit
    <3> QED BY <2>6, <3>1, <3>2, <3>3 DEF Coming, Plus
  <2>8. Jobbed(queue, t) => Jobbed(queue \o jobs, n)
    BY <2>5, <2>6, AllKept
  <2> QED BY <2>3, <2>4, <2>5, <2>7, <2>8
<1>3. CASE t[q].st # "pending"
  <2>1. n = t
    BY <1>3 DEF Registered
  <2>2. \E a \in {ok, err} : jobs = <<Given(a, t[q].val)>>
    BY <1>3, TableGet DEF RegisteredJobs, SoundRec
  <2>3. PICK a \in {ok, err} : jobs = <<Given(a, t[q].val)>>
    BY <2>2
  <2> DEFINE g == Given(a, t[q].val)
  <2>4. t[q].val \in Value
    BY TableGet DEF SoundRec
  <2>5. g.op = ok.op /\ g.p = ok.p /\ Aim(g) = Aim(ok) /\ g \in Act
    BY <1>1, <2>4 DEF Given, Twin, Act, Aim
  <2>6. WaitOK(g, t)
    BY <2>5 DEF WaitOK
  <2> HIDE DEF g
  <2>a. jobs \in Seq(Act)
    BY <2>3, <2>5 DEF g
  <2>7. jobs = <<g>> /\ DOMAIN jobs = {1} /\ jobs[1] = g
    BY <2>3, <2>5 DEF g
  <2>8. Jobbed(jobs, n)
    BY <2>1, <2>6, <2>7 DEF Jobbed, JobOK
  <2>9. Jobbed(queue, t) => Jobbed(queue \o jobs, n)
    BY <1>1, <2>1, <2>a, <2>8, JobbedConcat
  <2>10. ASSUME NEW K, NEW d
         PROVE  Coming(n, queue \o jobs, K, d) = Plus(Coming(t, queue, K, d), Unit(ok, K, d))
    <3>1. Held(t, Id, K, d) \in 0 .. 2 /\ Load(queue, K, d) \in 0 .. 2
      BY WaitRange, LoadRange
    <3>2. Load(jobs, K, d) = Unit(g, K, d)
      BY <2>7, LoadSingle
    <3>3. Unit(g, K, d) = Unit(ok, K, d) /\ Unit(ok, K, d) \in 0 .. 1
      BY <2>5 DEF Unit, Hit, Aim
    <3>4. Load(queue \o jobs, K, d) = Plus(Load(queue, K, d), Load(jobs, K, d))
      BY <1>1, <2>a, LoadConcat
    <3> QED BY <2>1, <3>1, <3>2, <3>3, <3>4 DEF Coming, Plus
  <2> QED BY <2>1, <2>9, <2>10
<1> QED BY <1>2, <1>3

(* Creating a promise nobody waits for.                                    *)
Becomes(t, n, p, r) == n[p] = r /\ \A q \in Id \ {p} : n[q] = t[q]

LEMMA CreateLoad ==
  ASSUME NEW t, Sound(t), Neat(t), NEW p \in Id, t[p].st = "unborn",
         NEW r, r.st # "unborn", r.by # "none", r.ok = << >>,
         NEW n, Becomes(t, n, p, r)
  PROVE  /\ Neat(n) /\ Keeps(t, n)
         /\ \A m, K, d : Coming(n, m, K, d) = Coming(t, m, K, d)
<1>1. n[p] = r /\ \A q \in Id \ {p} : n[q] = t[q]
  BY DEF Becomes
<1>2. t[p].ok = << >> /\ t[p].by = "none"
  BY DEF Neat
<1>3. Keeps(t, n)
  BY <1>1, <1>2 DEF Keeps
<1>4. \A q \in Id : n[q].ok = t[q].ok
  BY <1>1, <1>2
<1>5. ASSUME NEW K, NEW d  PROVE Held(n, Id, K, d) = Held(t, Id, K, d)
  BY <1>4, WaitSame
<1>6. Neat(n)
  <2>1. ASSUME NEW q \in Id
        PROVE  /\ n[q].st # "pending" => n[q].ok = << >>
               /\ n[q].st = "unborn" <=> n[q].by = "none"
               /\ n[q].ok = t[q].ok \/ \A i \in DOMAIN n[q].ok : WaitOK(n[q].ok[i], n)
    BY <1>1, <1>4 DEF Neat
  <2> QED BY <1>3, <2>1, NeatKept
<1> QED BY <1>3, <1>5, <1>6 DEF Coming

(***************************************************************************)
(* The queue and the stack.                                                *)
(***************************************************************************)

LEMMA PushPoints ==
  ASSUME NEW s \in Seq(Act), NEW a \in Act, NEW w, Pushes(w, s, a)
  PROVE  /\ Len(s) \in Nat /\ DOMAIN s = 1 .. Len(s)
         /\ DOMAIN w = 1 .. Len(s) + 1 /\ w[Len(s) + 1] = a
         /\ \A i \in 1 .. Len(s) : w[i] = s[i]
BY DEF Pushes

LEMMA FramesPush ==
  ASSUME NEW s \in Seq(Act), NEW a \in Act, NEW w, Pushes(w, s, a), NEW t
  PROVE  Framed(w, t) <=> Framed(s, t) /\ FrameOK(a, t)
<1>1. /\ Len(s) \in Nat /\ DOMAIN s = 1 .. Len(s)
      /\ DOMAIN w = 1 .. Len(s) + 1 /\ w[Len(s) + 1] = a
      /\ \A i \in 1 .. Len(s) : w[i] = s[i]
  BY PushPoints
<1>2. \A i \in 1 .. Len(s) + 1 : i \in 1 .. Len(s) \/ i = Len(s) + 1
  BY <1>1
<1>3. Len(s) + 1 \in 1 .. Len(s) + 1 /\ \A i \in 1 .. Len(s) : i \in 1 .. Len(s) + 1
  BY <1>1
<1> QED BY <1>1, <1>2, <1>3 DEF Framed

LEMMA JobsPush ==
  ASSUME NEW s \in Seq(Act), NEW a \in Act, NEW w, Pushes(w, s, a), NEW t,
         Jobbed(s, t), JobOK(a, t)
  PROVE  Jobbed(w, t)
BY PushPoints DEF Jobbed

LEMMA JobsShift ==
  ASSUME NEW w \in Seq(Act), NEW a \in Act, NEW m, Shifts(m, w, a), NEW t
  PROVE  Jobbed(m, t) <=> Jobbed(w, t) /\ JobOK(a, t)
<1>1. /\ Len(w) \in Nat /\ DOMAIN w = 1 .. Len(w) /\ DOMAIN m = 1 .. Len(w) + 1
      /\ m[1] = a /\ \A i \in 1 .. Len(w) : m[i + 1] = w[i]
  BY DEF Shifts
<1>2. \A i \in 1 .. Len(w) + 1 : i = 1 \/ (i - 1 \in 1 .. Len(w) /\ i = (i - 1) + 1)
  BY <1>1
<1>3. 1 \in 1 .. Len(w) + 1 /\ \A i \in 1 .. Len(w) : i + 1 \in 1 .. Len(w) + 1
  BY <1>1
<1>4. Jobbed(w, t) /\ JobOK(a, t) => Jobbed(m, t)
  <2>1. ASSUME Jobbed(w, t), JobOK(a, t), NEW i \in 1 .. Len(w) + 1  PROVE JobOK(m[i], t)
    <3>1. CASE i = 1
      BY <1>1, <2>1, <3>1
    <3>2. CASE i # 1
      <4>1. i - 1 \in 1 .. Len(w) /\ m[i] = w[i - 1]
        BY <1>1, <1>2, <3>2
      <4> QED BY <1>1, <2>1, <4>1 DEF Jobbed
    <3> QED BY <3>1, <3>2
  <2> QED BY <1>1, <2>1 DEF Jobbed
<1>5. Jobbed(m, t) => Jobbed(w, t) /\ JobOK(a, t)
  <2> SUFFICES ASSUME Jobbed(m, t) PROVE Jobbed(w, t) /\ JobOK(a, t)
    OBVIOUS
  <2>1. \A i \in 1 .. Len(w) + 1 : JobOK(m[i], t)
    BY <1>1 DEF Jobbed
  <2>2. \A i \in 1 .. Len(w) : JobOK(w[i], t)
    BY <1>1, <1>3, <2>1
  <2> QED BY <1>1, <1>3, <2>1, <2>2 DEF Jobbed
<1> QED BY <1>4, <1>5

(* Code the queue called runs on the bare stack or inside an await.        *)
Waits(s) == s = << >> \/ s[Len(s)].op = "await"

LEMMA LaunchedPush ==
  ASSUME NEW s \in Seq(Act), NEW a \in Act, NEW w, Pushes(w, s, a)
  PROVE  Launched(w) <=> Launched(s) /\ (FromQueue(a) => Waits(s))
<1>1. /\ Len(s) \in Nat /\ DOMAIN s = 1 .. Len(s)
      /\ DOMAIN w = 1 .. Len(s) + 1 /\ w[Len(s) + 1] = a
      /\ \A i \in 1 .. Len(s) : w[i] = s[i]
  BY PushPoints
<1>2. Waits(s) <=> Len(s) + 1 = 1 \/ w[Len(s)].op = "await"
  <2>1. s = << >> <=> Len(s) = 0
    OBVIOUS
  <2>2. Len(s) # 0 => w[Len(s)] = s[Len(s)]
    BY <1>1
  <2> QED BY <1>1, <2>1, <2>2 DEF Waits
<1>3. \A i \in 1 .. Len(s) : i = 1 \/ w[i - 1] = s[i - 1]
  BY <1>1
<1>4. ASSUME Launched(s), FromQueue(a) => Waits(s), NEW i \in 1 .. Len(s) + 1, FromQueue(w[i])
      PROVE  i = 1 \/ w[i - 1].op = "await"
  <2>1. CASE i \in 1 .. Len(s)
    BY <1>1, <1>3, <1>4, <2>1 DEF Launched
  <2>2. CASE i = Len(s) + 1
    <3>1. i - 1 = Len(s)
      BY <1>1, <2>2
    <3> QED BY <1>1, <1>2, <1>4, <2>2, <3>1
  <2> QED BY <1>1, <2>1, <2>2
<1>5. ASSUME Launched(w)  PROVE Launched(s) /\ (FromQueue(a) => Waits(s))
  <2>1. \A i \in 1 .. Len(s) + 1 : FromQueue(w[i]) => i = 1 \/ w[i - 1].op = "await"
    BY <1>1, <1>5 DEF Launched
  <2>2. \A i \in 1 .. Len(s) : FromQueue(s[i]) => i = 1 \/ s[i - 1].op = "await"
    BY <1>1, <1>3, <2>1
  <2>3. Len(s) + 1 \in 1 .. Len(s) + 1 /\ (Len(s) + 1) - 1 = Len(s)
    BY <1>1
  <2>4. FromQueue(a) => Waits(s)
    BY <1>1, <1>2, <2>1, <2>3
  <2> QED BY <1>1, <2>2, <2>4 DEF Launched
<1> QED BY <1>1, <1>4, <1>5 DEF Launched

(***************************************************************************)
(* Settling a promise and returning.                                       *)
(***************************************************************************)

LEMMA EscapeLoad ==
  ASSUME NEW base \in Seq(Safe), Waits(base), EscapeTo(base), NEW t, Framed(base, t), Launched(base)
  PROVE  /\ Framed(stack', t) /\ Launched(stack')
         /\ \A d : Load(stack', Obliging, d) = Load(base, Obliging, d)
<1>1. base \in Seq(Act)
  BY SafeSeq
<1>2. CASE base = << >>
  BY <1>2 DEF EscapeTo
<1>3. CASE base # << >>
  <2> DEFINE s == SubSeq(base, 1, Len(base) - 1)
             a == base[Len(base)]
  <2>1. stack' = s
    BY <1>3 DEF EscapeTo
  <2>2. s \in Seq(Act) /\ a \in Act /\ a.op = "await"
    BY <1>1, <1>3 DEF Waits
  <2>3. Pushes(base, s, a)
    BY <1>1, <1>3, LastPushed
  <2> HIDE DEF s, a
  <2>4. Framed(s, t) /\ Launched(s)
    BY <2>2, <2>3, FramesPush, LaunchedPush
  <2>5. ASSUME NEW d  PROVE Load(base, Obliging, d) = Load(s, Obliging, d)
    <3>1. Load(base, Obliging, d) = Plus(Load(s, Obliging, d), Unit(a, Obliging, d))
      BY <2>2, <2>3, LoadPush
    <3>2. Unit(a, Obliging, d) = 0 /\ Load(s, Obliging, d) \in 0 .. 2
      BY <2>2, LoadRange DEF Unit, Hit, Aim, Obliging
    <3> QED BY <3>1, <3>2 DEF Plus
  <2> QED BY <2>1, <2>4, <2>5
<1> QED BY <1>2, <1>3

LEMMA OwedRange ==
  ASSUME NEW t, NEW m, NEW s, NEW d
  PROVE  Coming(t, m, Obliging, d) \in 0 .. 2 /\ Load(s, Obliging, d) \in 0 .. 2
BY DueRange, LoadRange

LEMMA AdoptedUnit ==
  ASSUME NEW p \in Id, NEW d
  PROVE  /\ Unit(Adopted(p), Obliging, d) = IF d = p THEN 1 ELSE 0
         /\ Unit(Adopted(p), {"resume"}, d) = 0
BY AdoptedFacts DEF Unit, Hit, Aim, Obliging

(* A call off the stack, or a microtask off the queue, that settles p was  *)
(* all that was owed to p.                                                 *)
LEMMA SettleReturnOwing ==
  ASSUME NEW X \in SUBSET OwnSettled, PromiseInv, Neat(promise), Lost, Owing(X),
         NEW queue \in Seq(Safe), NEW base \in Seq(Safe), NEW p \in Id,
         NEW side \in Side, NEW v \in Value, Outcome(promise, side, v).st # "unborn",
         SettleAndReturn(queue, base, p, side, v),
         Jobbed(queue, promise), Framed(base, promise), Launched(base),
         SelfResolution(p, side, v) => Waits(base),
         \A d \in Id : Owed(promise, micro, stack, d)
                         = Plus(Plus(Coming(promise, queue, Obliging, d), Load(base, Obliging, d)),
                                IF d = p THEN 1 ELSE 0)
  PROVE  /\ Shape' /\ Owing(X)'
         /\ \A d \in Id : Resumes(promise', micro', d) = Resumes(promise, queue, d)
<1>1. Sound(promise)
  BY DEF PromiseInv
<1>2. ~Idle(X, p) /\ promise[p].st # "unborn" /\ (Settles(p) => Open(p) /\ Coming(promise, queue, Obliging, p) = 0
                                                  /\ Load(base, Obliging, p) = 0)
  <2>1. Coming(promise, queue, Obliging, p) \in 0 .. 2 /\ Load(base, Obliging, p) \in 0 .. 2
    BY OwedRange
  <2>2. Owed(promise, micro, stack, p)
          = Plus(Plus(Coming(promise, queue, Obliging, p), Load(base, Obliging, p)), 1)
    OBVIOUS
  <2>3. /\ Settles(p) => Owed(promise, micro, stack, p) = IF Open(p) THEN 1 ELSE 0
        /\ Idle(X, p) => Owed(promise, micro, stack, p) = 0
    BY DEF Owing
  <2> QED BY <2>1, <2>2, <2>3 DEF Plus, Idle
<1>3. ASSUME NEW d \in Id, d # p
      PROVE  Owed(promise, micro, stack, d)
                = Plus(Coming(promise, queue, Obliging, d), Load(base, Obliging, d))
  <2>1. Coming(promise, queue, Obliging, d) \in 0 .. 2 /\ Load(base, Obliging, d) \in 0 .. 2
    BY OwedRange
  <2>2. Owed(promise, micro, stack, d)
          = Plus(Plus(Coming(promise, queue, Obliging, d), Load(base, Obliging, d)), 0)
    BY <1>3
  <2> QED BY <2>1, <2>2 DEF Plus
<1>4. CASE SelfResolution(p, side, v)
  <2>1. EscapeTo(base) /\ micro' = queue /\ dropped' = dropped \cup {p} /\ promise' = promise
    BY <1>4 DEF SettleAndReturn
  <2>2. /\ Framed(stack', promise) /\ Launched(stack')
        /\ \A d : Load(stack', Obliging, d) = Load(base, Obliging, d)
    BY <1>4, <2>1, EscapeLoad
  <2>3. Shape'
    BY <1>2, <2>1, <2>2 DEF Shape, Lost, Born
  <2>4. \A d : Owed(promise', micro', stack', d) = Plus(Coming(promise, queue, Obliging, d), Load(base, Obliging, d))
    BY <2>1, <2>2 DEF Owed
  <2>5. Owing(X)'
    <3> SUFFICES ASSUME NEW d \in Id
                 PROVE  /\ Settles(d)' => Owed(promise', micro', stack', d) = IF Open(d)' THEN 1 ELSE 0
                        /\ Idle(X, d)' => Owed(promise', micro', stack', d) = 0
      BY DEF Owing
    <3>1. CASE d = p
      <4>1. ~Open(d)' /\ (Settles(d)' <=> Settles(d))
        BY <2>1, <3>1 DEF Open, Settles
      <4> QED BY <1>2, <2>1, <2>4, <3>1, <4>1 DEF Plus, Idle
    <3>2. CASE d # p
      <4>1. (Open(d)' <=> Open(d)) /\ (Settles(d)' <=> Settles(d))
        BY <2>1, <3>2 DEF Open, Settles
      <4>2. Owed(promise', micro', stack', d) = Owed(promise, micro, stack, d)
        BY <1>3, <2>4, <3>2
      <4> QED BY <2>1, <4>1, <4>2 DEF Owing, Idle
    <3> QED BY <3>1, <3>2
  <2> QED BY <2>1, <2>3, <2>5
<1>5. CASE ~SelfResolution(p, side, v)
  <2> DEFINE jobs == Jobs(promise, p, side, v)
  <2>1. /\ promise' = Settled(promise, p, side, v) /\ micro' = queue \o jobs
        /\ stack' = base /\ dropped' = dropped
    BY <1>5 DEF SettleAndReturn, SettleAfter
  <2> HIDE DEF jobs
  <2>2. /\ Neat(promise')
        /\ \A q \in Id : promise'[q].by = promise[q].by
        /\ \A q \in Id \ {p} : promise'[q].st = promise[q].st
        /\ promise'[p].st = "pending" <=> Adopts(promise, p, side, v)
        /\ promise'[p].st = "unborn" => promise[p].st = "unborn"
        /\ Jobbed(queue \o jobs, promise')
        /\ \A K, d : Coming(promise', queue \o jobs, K, d)
                       = Plus(Coming(promise, queue, K, d),
                              IF Adopts(promise, p, side, v) THEN Unit(Adopted(p), K, d) ELSE 0)
    BY <1>1, <2>1, SettleLoad DEF jobs
  <2>3. Framed(base, promise')
    BY <2>2, AllKept DEF Keeps
  <2>a. \A q \in Id : promise'[q].st = "unborn" => promise[q].st = "unborn"
    BY <2>2
  <2>b. Lost'
    BY <2>1, <2>a DEF Lost, Born, PromiseInv
  <2>4. Shape'
    BY <2>1, <2>2, <2>3, <2>b DEF Shape
  <2>5. ASSUME NEW d \in Id
        PROVE  Owed(promise', micro', stack', d)
                 = Plus(Plus(Coming(promise, queue, Obliging, d),
                             IF Adopts(promise, p, side, v) /\ d = p THEN 1 ELSE 0),
                        Load(base, Obliging, d))
    BY <2>1, <2>2, AdoptedUnit DEF Owed
  <2>6. ASSUME NEW d \in Id, d # p
        PROVE  Owed(promise', micro', stack', d) = Owed(promise, micro, stack, d)
    <3>1. Coming(promise, queue, Obliging, d) \in 0 .. 2
      BY OwedRange
    <3>2. Plus(Coming(promise, queue, Obliging, d), 0) = Coming(promise, queue, Obliging, d)
      BY <3>1 DEF Plus
    <3> QED BY <1>3, <2>5, <2>6, <3>2
  <2>7. Owing(X)'
    <3> SUFFICES ASSUME NEW d \in Id
                 PROVE  /\ Settles(d)' => Owed(promise', micro', stack', d) = IF Open(d)' THEN 1 ELSE 0
                        /\ Idle(X, d)' => Owed(promise', micro', stack', d) = 0
      BY DEF Owing
    <3>1. CASE d = p
      <4>1. (Settles(d)' <=> Settles(d)) /\ ~Idle(X, d)'
        BY <1>2, <2>2, <3>1 DEF Settles, Idle
      <4>2. ASSUME Settles(d)
            PROVE  Owed(promise', micro', stack', d) = IF Open(d)' THEN 1 ELSE 0
        <5>1. Open(d)' <=> Adopts(promise, p, side, v)
          BY <1>2, <2>1, <2>2, <3>1, <4>2 DEF Open
        <5>2. Coming(promise, queue, Obliging, d) = 0 /\ Load(base, Obliging, d) = 0
          BY <1>2, <3>1, <4>2
        <5>3. Owed(promise', micro', stack', d)
                = Plus(Plus(0, IF Adopts(promise, p, side, v) THEN 1 ELSE 0), 0)
          BY <2>5, <3>1, <5>2
        <5> QED BY <5>1, <5>3 DEF Plus
      <4> QED BY <4>1, <4>2
    <3>2. CASE d # p
      <4>1. (Open(d)' <=> Open(d)) /\ (Settles(d)' <=> Settles(d))
        BY <2>1, <2>2, <3>2 DEF Open, Settles
      <4> QED BY <2>2, <2>6, <3>2, <4>1 DEF Owing, Idle
    <3> QED BY <3>1, <3>2
  <2>8. ASSUME NEW d \in Id  PROVE Resumes(promise', micro', d) = Resumes(promise, queue, d)
    <3>1. Coming(promise, queue, {"resume"}, d) \in 0 .. 2
      BY DueRange
    <3>2. Coming(promise', micro', {"resume"}, d) = Plus(Coming(promise, queue, {"resume"}, d), 0)
      BY <2>1, <2>2, AdoptedUnit
    <3> QED BY <3>1, <3>2 DEF Resumes, Plus
  <2> QED BY <2>4, <2>7, <2>8
<1> QED BY <1>4, <1>5

(***************************************************************************)
(* Steps that leave what is owed, or add it with a promise.                *)
(***************************************************************************)

LEMMA OwingSame ==
  ASSUME NEW X \in SUBSET OwnSettled, Owing(X), dropped' = dropped,
         \A d \in Id : /\ promise'[d].st = promise[d].st /\ promise'[d].by = promise[d].by
                       /\ Owed(promise', micro', stack', d) = Owed(promise, micro, stack, d)
  PROVE  Owing(X)'
BY DEF Owing, Idle, Settles, Open

LEMMA AwakeSame ==
  ASSUME Awake, co' = co,
         \A d \in Id : Resumes(promise', micro', d) = Resumes(promise, micro, d)
  PROVE  Awake'
BY DEF Awake

(* A resolve or reject function, a timer, a signal or an item's handler,   *)
(* whose promise has nothing else that settles it.  The handler may have   *)
(* been the next microtask.                                                *)
LEMMA SettleTaken ==
  ASSUME NEW X \in SUBSET OwnSettled,
         PromiseInv, Neat(promise), Lost, Owing(X),
         NEW queue \in Seq(Safe), Jobbed(queue, promise),
         \A K \in {Obliging, {"resume"}} : \A d \in Id : Load(queue, K, d) = Load(micro, K, d),
         NEW p \in Id, NEW side \in Side, NEW v \in Value,
         promise[p].by \in {"caps", "timer", "signal", "agg"}, promise[p].by \in X => ~Adopts(promise, p, side, v),
         Outcome(promise, side, v).st # "unborn", SettleAfter(queue, p, side, v), dropped' = dropped,
         \A d \in Id : Load(stack', Obliging, d) = Load(stack, Obliging, d)
  PROVE  /\ Neat(promise') /\ Jobbed(micro', promise') /\ Keeps(promise, promise') /\ Lost' /\ Owing(X)'
         /\ \A d \in Id : Resumes(promise', micro', d) = Resumes(promise, micro, d)
<1> DEFINE jobs == Jobs(promise, p, side, v)
<1>1. promise' = Settled(promise, p, side, v) /\ micro' = queue \o jobs
  BY DEF SettleAfter
<1>2. Sound(promise)
  BY DEF PromiseInv
<1> HIDE DEF jobs
<1>3. /\ Neat(promise')
      /\ \A q \in Id : promise'[q].by = promise[q].by
      /\ \A q \in Id \ {p} : promise'[q].st = promise[q].st
      /\ promise'[p].st = "unborn" => promise[p].st = "unborn"
      /\ Jobbed(queue \o jobs, promise')
      /\ \A K, d : Coming(promise', queue \o jobs, K, d)
                     = Plus(Coming(promise, queue, K, d),
                            IF Adopts(promise, p, side, v) THEN Unit(Adopted(p), K, d) ELSE 0)
  BY <1>1, <1>2, SettleLoad DEF jobs
<1>a. \A K \in {Obliging, {"resume"}} : \A d \in Id :
          Coming(promise, queue, K, d) = Coming(promise, micro, K, d)
  BY DEF Coming
<1>4. promise[p].st # "unborn" /\ promise'[p].st # "unborn"
  BY <1>3 DEF Neat
<1>5. \A q \in Id : promise'[q].st = "unborn" => promise[q].st = "unborn"
  BY <1>3
<1>6. Lost'
  BY <1>5 DEF Lost, Born, PromiseInv
<1>7. ASSUME NEW d \in Id, d # p \/ ~Adopts(promise, p, side, v)
      PROVE  Owed(promise', micro', stack', d) = Owed(promise, micro, stack, d)
  <2>1. Coming(promise, micro, Obliging, d) \in 0 .. 2
    BY OwedRange
  <2>2. Coming(promise', micro', Obliging, d) = Plus(Coming(promise, micro, Obliging, d), 0)
    BY <1>1, <1>3, <1>7, <1>a, AdoptedUnit
  <2>3. Coming(promise', micro', Obliging, d) = Coming(promise, micro, Obliging, d)
    BY <2>1, <2>2 DEF Plus
  <2> QED BY <2>3 DEF Owed
<1>8. Owing(X)'
  <2> SUFFICES ASSUME NEW d \in Id
               PROVE  /\ Settles(d)' => Owed(promise', micro', stack', d) = IF Open(d)' THEN 1 ELSE 0
                      /\ Idle(X, d)' => Owed(promise', micro', stack', d) = 0
    BY DEF Owing
  <2>1. CASE d = p
    <3>1. CASE promise[p].by \notin X
      BY <1>3, <1>4, <2>1, <3>1 DEF Settles, Idle
    <3>2. CASE promise[p].by \in X /\ ~Adopts(promise, p, side, v)
      <4>1. Idle(X, d) /\ ~Settles(d)'
        BY <1>3, <2>1, <3>2 DEF Settles, Idle
      <4> QED BY <1>7, <2>1, <3>2, <4>1 DEF Owing
    <3> QED BY <3>1, <3>2
  <2>2. CASE d # p
    <3>1. (Open(d)' <=> Open(d)) /\ (Settles(d)' <=> Settles(d))
      BY <1>3, <2>2 DEF Open, Settles
    <3> QED BY <1>3, <1>7, <2>2, <3>1 DEF Owing, Idle
  <2> QED BY <2>1, <2>2
<1>9. ASSUME NEW d \in Id  PROVE Resumes(promise', micro', d) = Resumes(promise, micro, d)
  <2>1. Coming(promise, micro, {"resume"}, d) \in 0 .. 2
    BY DueRange
  <2>2. Coming(promise', micro', {"resume"}, d) = Plus(Coming(promise, micro, {"resume"}, d), 0)
    BY <1>1, <1>3, <1>a, AdoptedUnit
  <2> QED BY <2>1, <2>2 DEF Resumes, Plus
<1> QED BY <1>1, <1>3, <1>6, <1>8, <1>9 DEF Keeps

LEMMA SettlePlain ==
  ASSUME NEW X \in SUBSET OwnSettled,
         PromiseInv, Neat(promise), Jobbed(micro, promise), Lost, Owing(X),
         NEW p \in Id, NEW side \in Side, NEW v \in Value,
         promise[p].by \in {"caps", "timer", "signal"}, promise[p].by \in X => ~Adopts(promise, p, side, v),
         Outcome(promise, side, v).st # "unborn", SettleAfter(micro, p, side, v), dropped' = dropped,
         \A d \in Id : Load(stack', Obliging, d) = Load(stack, Obliging, d)
  PROVE  /\ Neat(promise') /\ Jobbed(micro', promise') /\ Keeps(promise, promise') /\ Lost' /\ Owing(X)'
         /\ \A d \in Id : Resumes(promise', micro', d) = Resumes(promise, micro, d)
<1>1. micro \in Seq(Safe)
  BY DEF PromiseInv
<1> QED BY <1>1, SettleTaken

(* A new promise, which nothing settles by itself unless it is an async    *)
(* function's, whose body then is on the stack.                            *)
LEMMA CreateOwing ==
  ASSUME NEW X \in SUBSET OwnSettled,
         PromiseInv, Neat(promise), Jobbed(micro, promise), Lost, Owing(X),
         NEW p \in Id, ~Born(p), NEW r, r.st # "unborn", r.by # "none", r.ok = << >>,
         r.by # "chain", r.by = "async" => r.st = "pending",
         Becomes(promise, promise', p, r), micro' = micro, dropped' = dropped,
         \A d \in Id : Load(stack', Obliging, d)
                         = Plus(Load(stack, Obliging, d), IF d = p /\ r.by = "async" THEN 1 ELSE 0)
  PROVE  /\ Neat(promise') /\ Jobbed(micro', promise') /\ Keeps(promise, promise') /\ Lost' /\ Owing(X)'
         /\ promise'[p] = r
         /\ \A d \in Id : Resumes(promise', micro', d) = Resumes(promise, micro, d)
<1>1. Sound(promise) /\ micro \in Seq(Safe) /\ promise[p].st = "unborn"
  BY DEF PromiseInv, Born
<1>2. promise'[p] = r /\ \A q \in Id \ {p} : promise'[q] = promise[q]
  BY DEF Becomes
<1>3. /\ Neat(promise') /\ Keeps(promise, promise')
      /\ \A m, K, d : Coming(promise', m, K, d) = Coming(promise, m, K, d)
  BY <1>1, CreateLoad
<1>4. Jobbed(micro', promise')
  BY <1>1, <1>3, AllKept
<1>5. p \notin dropped
  BY DEF Lost
<1>6. Lost'
  BY <1>2, <1>5 DEF Lost, Born, PromiseInv
<1>7. Owing(X)'
  <2> SUFFICES ASSUME NEW d \in Id
               PROVE  /\ Settles(d)' => Owed(promise', micro', stack', d) = IF Open(d)' THEN 1 ELSE 0
                      /\ Idle(X, d)' => Owed(promise', micro', stack', d) = 0
    BY DEF Owing
  <2>1. /\ Coming(promise', micro', Obliging, d) = Coming(promise, micro, Obliging, d)
        /\ Coming(promise, micro, Obliging, d) \in 0 .. 2 /\ Load(stack, Obliging, d) \in 0 .. 2
    BY <1>3, OwedRange
  <2>2. CASE d = p
    <3>1. Coming(promise, micro, Obliging, d) = 0 /\ Load(stack, Obliging, d) = 0
      BY <1>1, <2>1, <2>2 DEF Idle, Owing, Owed, Plus
    <3>2. Settles(d)' => Open(d)' /\ r.by = "async"
      BY <1>2, <1>5, <2>2 DEF Settles, Open
    <3>3. Load(stack', Obliging, d) = IF r.by = "async" THEN 1 ELSE 0
      BY <2>2, <3>1 DEF Plus
    <3> QED BY <1>2, <2>1, <2>2, <3>1, <3>2, <3>3 DEF Idle, OwnSettled, Owed, Plus
  <2>3. CASE d # p
    <3>1. (Open(d)' <=> Open(d)) /\ (Settles(d)' <=> Settles(d)) /\ (Idle(X, d)' <=> Idle(X, d))
      BY <1>2, <2>3 DEF Open, Settles, Idle
    <3>2. Load(stack', Obliging, d) = Load(stack, Obliging, d)
      BY <2>1, <2>3 DEF Plus
    <3>3. Owed(promise', micro', stack', d) = Owed(promise, micro, stack, d)
      BY <2>1, <3>2 DEF Owed
    <3> QED BY <3>1, <3>3 DEF Owing
  <2> QED BY <2>2, <2>3
<1> QED BY <1>2, <1>3, <1>4, <1>6, <1>7 DEF Resumes

(***************************************************************************)
(* Script code calls the runtime.                                          *)
(***************************************************************************)

LEMMA CallFacts ==
  ASSUME NEW op \in Op, NEW p \in 0 .. MaxPromise, op \in Settling => p \in Id
  PROVE  /\ Call(op, p) \in Safe /\ Call(op, p) \in Act
         /\ Call(op, p).op = op /\ Call(op, p).p = p /\ Call(op, p).arg = 0
<1>1. Call(op, p) \in Safe
  BY CallType
<1> QED BY <1>1, SafeSeq DEF Call, Callback

LEMMA PushLoad ==
  ASSUME NEW s \in Seq(Act), NEW a \in Act, NEW w, Pushes(w, s, a), NEW d
  PROVE  Load(w, Obliging, d)
           = Plus(Load(s, Obliging, d), IF a.op \in Obliging /\ d = a.p THEN 1 ELSE 0)
<1>1. Load(w, Obliging, d) = Plus(Load(s, Obliging, d), Unit(a, Obliging, d))
  BY LoadPush
<1>2. Unit(a, Obliging, d) = IF a.op \in Obliging /\ d = a.p THEN 1 ELSE 0
  BY DEF Unit, Hit, Aim, Obliging
<1> QED BY <1>1, <1>2

LEMMA PushFree ==
  ASSUME NEW s \in Seq(Act), NEW a \in Act, NEW w, Pushes(w, s, a), a.op \notin Obliging, NEW d
  PROVE  Load(w, Obliging, d) = Load(s, Obliging, d)
<1>1. Load(w, Obliging, d) = Plus(Load(s, Obliging, d), 0) /\ Load(s, Obliging, d) \in 0 .. 2
  BY PushLoad, LoadRange
<1> QED BY <1>1 DEF Plus

LEMMA InvSeqs ==
  ASSUME PromiseInv
  PROVE  /\ Sound(promise) /\ stack \in Seq(Safe) /\ stack \in Seq(Act)
         /\ micro \in Seq(Safe) /\ micro \in Seq(Act)
         /\ stack # << >> =>
              /\ Top \in Safe /\ Top \in Act /\ Rest \in Seq(Safe) /\ Rest \in Seq(Act)
              /\ Pushes(stack, Rest, Top)
<1>1. /\ Sound(promise) /\ stack \in Seq(Safe) /\ stack \in Seq(Act)
      /\ micro \in Seq(Safe) /\ micro \in Seq(Act)
  BY SafeSeq DEF PromiseInv
<1>2. stack # << >> => Top \in Safe /\ Rest \in Seq(Safe)
  BY StackFacts
<1>3. stack # << >> => Pushes(stack, Rest, Top)
  BY <1>1, LastPushed DEF Rest, Top
<1> QED BY <1>1, <1>2, <1>3, SafeSeq

(* A call pushed by script code, which the queue did not make.             *)
LEMMA PushStep ==
  ASSUME stack \in Seq(Act), NEW a \in Act, Pushes(stack', stack, a), ~FromQueue(a),
         Framed(stack, promise'), FrameOK(a, promise'), Launched(stack)
  PROVE  Framed(stack', promise') /\ Launched(stack')
BY FramesPush, LaunchedPush

LEMMA ConstructOwing ==
  ASSUME NEW X \in SUBSET OwnSettled,
         ObligationInv(X), Construct  PROVE Shape' /\ Owing(X)' /\ Awake'
<1> DEFINE r == Pending("caps")
<1>1. PICK p \in Id :
        /\ Fresh(p) /\ promise' = [promise EXCEPT ![p] = r]
        /\ stack' = Append(stack, Call("executor", p)) \/ stack' = stack
        /\ micro' = micro /\ co' = co /\ dropped' = dropped
  BY DEF Construct
<1>2. /\ PromiseInv /\ Neat(promise) /\ Jobbed(micro, promise) /\ Framed(stack, promise)
      /\ Launched(stack) /\ Lost /\ Owing(X) /\ Awake
  BY DEF ObligationInv, Shape
<1>3. ~Born(p) /\ r.st # "unborn" /\ r.by = "caps" /\ r.ok = << >>
  BY <1>1 DEF Fresh, Next1, Pending
<1> HIDE DEF r
<1>4. Becomes(promise, promise', p, r)
  BY <1>1, <1>2, InvSeqs DEF Sound, Table, Becomes
<1> DEFINE a == Call("executor", p)
<1>5. a \in Act /\ a.op = "executor" /\ a.p = p
  BY CallFacts, ValueFacts DEF Op, Settling
<1>6. stack' = stack \/ Pushes(stack', stack, a)
  BY <1>1 DEF Pushes
<1> HIDE DEF a
<1>7. \A d \in Id : Load(stack', Obliging, d) = Load(stack, Obliging, d)
  BY <1>2, <1>5, <1>6, InvSeqs, PushFree DEF Obliging
<1>8. \A d \in Id : Load(stack', Obliging, d)
                      = Plus(Load(stack, Obliging, d), IF d = p /\ r.by = "async" THEN 1 ELSE 0)
  <2>1. \A d \in Id : Load(stack, Obliging, d) \in 0 .. 2
    BY LoadRange
  <2> QED BY <1>3, <1>7, <2>1 DEF Plus
<1>9. /\ Neat(promise') /\ Jobbed(micro', promise') /\ Keeps(promise, promise') /\ Lost' /\ Owing(X)'
      /\ promise'[p] = r
      /\ \A d \in Id : Resumes(promise', micro', d) = Resumes(promise, micro, d)
  <2>1. micro' = micro /\ dropped' = dropped
    BY <1>1
  <2> QED BY <1>2, <1>3, <1>4, <1>8, <2>1, CreateOwing
<1>10. Framed(stack, promise') /\ FrameOK(a, promise') /\ ~FromQueue(a)
  BY <1>2, <1>3, <1>5, <1>9, AllKept, InvSeqs DEF FrameOK, FromQueue
<1>11. Framed(stack', promise') /\ Launched(stack')
  BY <1>2, <1>5, <1>6, <1>10, InvSeqs, PushStep
<1>12. Awake'
  BY <1>1, <1>2, <1>9, AwakeSame
<1> QED BY <1>9, <1>11, <1>12 DEF Shape

LEMMA ResolveOwing ==
  ASSUME NEW X \in SUBSET OwnSettled, ObligationInv(X), Resolve  PROVE Shape' /\ Owing(X)' /\ Awake'
<1>1. PICK p \in Id, side \in Side, v \in Passable :
        /\ promise[p].by = "caps" /\ SettleAfter(micro, p, side, v)
        /\ stack' = stack /\ co' = co /\ dropped' = dropped
  BY DEF Resolve
<1>2. /\ PromiseInv /\ Neat(promise) /\ Jobbed(micro, promise) /\ Framed(stack, promise)
      /\ Launched(stack) /\ Lost /\ Owing(X) /\ Awake
  BY DEF ObligationInv, Shape
<1>3. v \in Value /\ Outcome(promise, side, v).st # "unborn"
  BY PassableFacts
<1>4. /\ Neat(promise') /\ Jobbed(micro', promise') /\ Keeps(promise, promise') /\ Lost' /\ Owing(X)'
      /\ \A d \in Id : Resumes(promise', micro', d) = Resumes(promise, micro, d)
  BY <1>1, <1>2, <1>3, SettlePlain DEF OwnSettled
<1>5. Framed(stack', promise') /\ Launched(stack')
  BY <1>1, <1>2, <1>4, AllKept, InvSeqs
<1> QED BY <1>1, <1>2, <1>4, <1>5, AwakeSame DEF Shape

LEMMA StaticOwing ==
  ASSUME NEW X \in SUBSET OwnSettled, ObligationInv(X), Static  PROVE Shape' /\ Owing(X)' /\ Awake'
<1>1. PICK p \in Id, v \in Passable, st \in {"fulfilled", "rejected"} :
        /\ Fresh(p) /\ promise' = [promise EXCEPT ![p] = Closed(Pending("static"), st, v)]
        /\ micro' = micro /\ stack' = stack /\ co' = co /\ dropped' = dropped
  BY DEF Static
<1>2. /\ PromiseInv /\ Neat(promise) /\ Jobbed(micro, promise) /\ Framed(stack, promise)
      /\ Launched(stack) /\ Lost /\ Owing(X) /\ Awake
  BY DEF ObligationInv, Shape
<1> DEFINE r == Closed(Pending("static"), st, v)
<1>3. ~Born(p) /\ r.st # "unborn" /\ r.by = "static" /\ r.ok = << >>
  BY <1>1 DEF Fresh, Next1, Pending, Closed
<1> HIDE DEF r
<1>4. Becomes(promise, promise', p, r)
  BY <1>1, <1>2, InvSeqs DEF Sound, Table, Becomes, r
<1>5. \A d \in Id : Load(stack', Obliging, d)
                      = Plus(Load(stack, Obliging, d), IF d = p /\ r.by = "async" THEN 1 ELSE 0)
  <2>1. \A d \in Id : Load(stack, Obliging, d) \in 0 .. 2
    BY LoadRange
  <2> QED BY <1>1, <1>3, <2>1 DEF Plus
<1>6. /\ Neat(promise') /\ Jobbed(micro', promise') /\ Keeps(promise, promise') /\ Lost' /\ Owing(X)'
      /\ \A d \in Id : Resumes(promise', micro', d) = Resumes(promise, micro, d)
  BY <1>1, <1>2, <1>3, <1>4, <1>5, CreateOwing
<1>7. Framed(stack', promise') /\ Launched(stack')
  BY <1>1, <1>2, <1>6, AllKept, InvSeqs
<1> QED BY <1>1, <1>2, <1>6, <1>7, AwakeSame DEF Shape

LEMMA TryOwing ==
  ASSUME NEW X \in SUBSET OwnSettled,
         ObligationInv(X), Try \/ Block  PROVE Shape' /\ Owing(X)' /\ Awake'
<1>1. /\ PromiseInv /\ Neat(promise) /\ Jobbed(micro, promise) /\ Framed(stack, promise)
      /\ Launched(stack) /\ Lost /\ Owing(X) /\ Awake
  BY DEF ObligationInv, Shape
<1>2. /\ promise' = promise /\ micro' = micro /\ co' = co /\ dropped' = dropped
      /\ \E op \in {"try", "await"}, p \in 0 .. MaxPromise : stack' = Append(stack, Call(op, p))
  BY PassableFacts, ValueFacts DEF Try, Block
<1>3. PICK op \in {"try", "await"}, p \in 0 .. MaxPromise : stack' = Append(stack, Call(op, p))
  BY <1>2
<1> DEFINE a == Call(op, p)
<1>4. a \in Act /\ a.op = op
  BY CallFacts DEF Op, Settling
<1>5. Pushes(stack', stack, a)
  BY <1>3 DEF Pushes
<1> HIDE DEF a
<1>6. FrameOK(a, promise) /\ ~FromQueue(a) /\ a.op \notin Obliging
  BY <1>4 DEF FrameOK, FromQueue, Obliging
<1>7. Framed(stack', promise') /\ Launched(stack')
  BY <1>1, <1>2, <1>4, <1>5, <1>6, InvSeqs, PushStep
<1>8. \A d \in Id : Load(stack', Obliging, d) = Load(stack, Obliging, d)
  BY <1>1, <1>4, <1>5, <1>6, InvSeqs, PushFree
<1>9. Owing(X)' /\ Awake'
  <2>1. \A d \in Id : Owed(promise', micro', stack', d) = Owed(promise, micro, stack, d)
    BY <1>2, <1>8 DEF Owed
  <2> QED BY <1>1, <1>2, <2>1, OwingSame, AwakeSame
<1> QED BY <1>1, <1>2, <1>7, <1>9 DEF Shape, Lost, Born

LEMMA QueueOwing ==
  ASSUME NEW X \in SUBSET OwnSettled,
         ObligationInv(X), QueueMicrotask  PROVE Shape' /\ Owing(X)' /\ Awake'
<1>1. /\ PromiseInv /\ Neat(promise) /\ Jobbed(micro, promise) /\ Framed(stack, promise)
      /\ Launched(stack) /\ Lost /\ Owing(X) /\ Awake
  BY DEF ObligationInv, Shape
<1>2. /\ promise' = promise /\ stack' = stack /\ co' = co /\ dropped' = dropped
      /\ \E op \in {"task", "quiet"} :
            micro' = Append(micro, Call(op, 0)) \/ micro' = <<Call(op, 0)>> \o micro
  BY DEF QueueMicrotask
<1>3. PICK op \in {"task", "quiet"} :
        micro' = Append(micro, Call(op, 0)) \/ micro' = <<Call(op, 0)>> \o micro
  BY <1>2
<1> DEFINE a == Call(op, 0)
<1>4. a \in Act /\ a.op = op /\ a.p = 0
  BY CallFacts, ValueFacts DEF Op, Settling
<1>5. Pushes(micro', micro, a) \/ Shifts(micro', micro, a)
  BY <1>3 DEF Pushes, Shifts
<1> HIDE DEF a
<1>6. JobOK(a, promise) /\ \A d : Unit(a, Obliging, d) = 0 /\ Unit(a, {"resume"}, d) = 0
  BY <1>4 DEF JobOK, Unit, Hit, Aim, Obliging
<1>7. Jobbed(micro', promise')
  BY <1>1, <1>2, <1>4, <1>5, <1>6, InvSeqs, JobsPush, JobsShift
<1>8. ASSUME NEW K \in {Obliging, {"resume"}}, NEW d \in Id  PROVE Load(micro', K, d) = Load(micro, K, d)
  <2>1. Load(micro', K, d) = Plus(Load(micro, K, d), Unit(a, K, d))
    BY <1>1, <1>4, <1>5, InvSeqs, LoadPush, LoadShift
  <2>2. Unit(a, K, d) = 0 /\ Load(micro, K, d) \in 0 .. 2
    BY <1>6, LoadRange
  <2> QED BY <2>1, <2>2 DEF Plus
<1>9. Owing(X)' /\ Awake'
  <2>1. \A d \in Id : Owed(promise', micro', stack', d) = Owed(promise, micro, stack, d)
    BY <1>2, <1>8 DEF Owed, Coming
  <2>2. \A d \in Id : Resumes(promise', micro', d) = Resumes(promise, micro, d)
    BY <1>2, <1>8 DEF Resumes, Coming
  <2> QED BY <1>1, <1>2, <2>1, <2>2, OwingSame, AwakeSame
<1> QED BY <1>1, <1>2, <1>7, <1>9 DEF Shape, Lost, Born

LEMMA CallAsyncOwing ==
  ASSUME NEW X \in SUBSET OwnSettled,
         ObligationInv(X), CallAsync  PROVE Shape' /\ Owing(X)' /\ Awake'
<1> DEFINE r == Pending("async")
<1>1. PICK p \in Id :
        /\ Fresh(p) /\ promise' = [promise EXCEPT ![p] = r]
        /\ co' = [co EXCEPT ![p] = "running"] /\ stack' = Append(stack, Call("body", p))
        /\ micro' = micro /\ dropped' = dropped
  BY DEF CallAsync
<1>2. /\ PromiseInv /\ Neat(promise) /\ Jobbed(micro, promise) /\ Framed(stack, promise)
      /\ Launched(stack) /\ Lost /\ Owing(X) /\ Awake
  BY DEF ObligationInv, Shape
<1>3. ~Born(p) /\ r.st = "pending" /\ r.by = "async" /\ r.ok = << >>
  BY <1>1 DEF Fresh, Next1, Pending
<1> HIDE DEF r
<1>4. Becomes(promise, promise', p, r)
  BY <1>1, <1>2, InvSeqs DEF Sound, Table, Becomes
<1> DEFINE a == Call("body", p)
<1>5. a \in Act /\ a.op = "body" /\ a.p = p /\ a.arg = 0
  BY CallFacts, ValueFacts DEF Op, Settling
<1>6. Pushes(stack', stack, a)
  BY <1>1 DEF Pushes
<1> HIDE DEF a
<1>7. \A d \in Id : Load(stack', Obliging, d)
                      = Plus(Load(stack, Obliging, d), IF d = p /\ r.by = "async" THEN 1 ELSE 0)
  <2>1. \A d \in Id : Load(stack', Obliging, d)
                        = Plus(Load(stack, Obliging, d), IF a.op \in Obliging /\ d = a.p THEN 1 ELSE 0)
    BY <1>2, <1>5, <1>6, InvSeqs, PushLoad
  <2> QED BY <1>3, <1>5, <2>1 DEF Obliging
<1>8. /\ Neat(promise') /\ Jobbed(micro', promise') /\ Keeps(promise, promise') /\ Lost' /\ Owing(X)'
      /\ promise'[p] = r
      /\ \A d \in Id : Resumes(promise', micro', d) = Resumes(promise, micro, d)
  <2>1. micro' = micro /\ dropped' = dropped
    BY <1>1
  <2> QED BY <1>2, <1>3, <1>4, <1>7, <2>1, CreateOwing
<1>9. Framed(stack, promise') /\ FrameOK(a, promise') /\ ~FromQueue(a)
  BY <1>2, <1>3, <1>5, <1>8, AllKept, InvSeqs DEF FrameOK, FromQueue
<1>10. Framed(stack', promise') /\ Launched(stack')
  BY <1>2, <1>5, <1>6, <1>9, InvSeqs, PushStep
<1>11. Resumes(promise, micro, p) = 0
  <2>1. Owed(promise, micro, stack, p) = 0
    BY <1>2, <1>3 DEF Owing, Idle, Born
  <2>2. Coming(promise, micro, Obliging, p) = 0
    BY <2>1, OwedRange DEF Owed, Plus
  <2> QED BY <2>2, DueFewer DEF Resumes, Obliging
<1>12. Awake'
  <2>1. \A d \in Id : co'[d] = IF d = p THEN "running" ELSE co[d]
    BY <1>1, <1>2 DEF PromiseInv
  <2> QED BY <1>2, <1>8, <1>11, <2>1 DEF Awake
<1> QED BY <1>8, <1>10, <1>12 DEF Shape

(* A derived promise: its pair of callbacks is all it is owed.             *)
LEMMA DeriveOwing ==
  ASSUME NEW X \in SUBSET OwnSettled,
         ObligationInv(X), NEW q \in Visible, NEW e \in Id, NEW op \in {"then", "finally"},
         NEW x \in {0, 1}, NEW y \in {0, 1},
         Derive(q, e, Callback(op, e, "ok", x), Callback(op, e, "err", y))
  PROVE  Shape' /\ Owing(X)' /\ Awake'
<1> DEFINE r == Pending("chain")
           t == [promise EXCEPT ![e] = r]
           ok == Callback(op, e, "ok", x)
           err == Callback(op, e, "err", y)
           jobs == RegisteredJobs(t, q, ok, err)
<1>1. /\ promise' = Registered(t, q, ok, err) /\ micro' = micro \o jobs
      /\ stack' = stack /\ co' = co /\ dropped' = dropped
  BY DEF Derive
<1>2. /\ PromiseInv /\ Neat(promise) /\ Jobbed(micro, promise) /\ Framed(stack, promise)
      /\ Launched(stack) /\ Lost /\ Owing(X) /\ Awake
  BY DEF ObligationInv, Shape
<1>3. /\ promise[e].st = "unborn" /\ ~Born(e) /\ q \in Id /\ promise[q].st # "unborn"
      /\ r.st = "pending" /\ r.by = "chain" /\ r.ok = << >>
  BY PassableFacts DEF Derive, Fresh, Next1, Pending, Visible, Born
<1>4. GoodRec(r)
  BY FreshRecs DEF Origin
<1>5. Sound(t)
  BY <1>2, <1>3, <1>4, CreateStep
<1>6. ok \in Safe /\ err \in Safe /\ Twin(ok, err) /\ ok.op = op /\ ok.p = e
  BY CallbackType, ValueFacts DEF Op, Side, Twin
<1>7. WaitOK(ok, t)
  BY <1>6 DEF WaitOK, Releasing
<1>8. \A K, d : op \in K => Unit(ok, K, d) = IF d = e THEN 1 ELSE 0
  BY <1>6 DEF Unit, Hit, Aim
<1>9. \A d : Unit(ok, {"resume"}, d) = 0
  BY <1>6 DEF Unit, Hit, Aim
<1>10. Becomes(promise, t, e, r)
  BY <1>2, InvSeqs DEF Sound, Table, Becomes
<1> HIDE DEF r, ok, err, t
<1>11. /\ Neat(t) /\ Keeps(promise, t)
       /\ \A m, K, d : Coming(t, m, K, d) = Coming(promise, m, K, d)
  BY <1>2, <1>3, <1>10, InvSeqs, CreateLoad
<1>12. t[e] = r /\ \A d \in Id \ {e} : t[d] = promise[d]
  BY <1>10 DEF Becomes
<1>13. t[q].st # "unborn"
  BY <1>3, <1>12
<1> HIDE DEF jobs
<1>14. /\ Neat(promise')
       /\ \A d \in Id : promise'[d].by = t[d].by /\ promise'[d].st = t[d].st
       /\ Jobbed(micro, t) => Jobbed(micro \o jobs, promise')
       /\ \A K, d : Coming(promise', micro \o jobs, K, d) = Plus(Coming(t, micro, K, d), Unit(ok, K, d))
  BY <1>1, <1>2, <1>3, <1>5, <1>6, <1>7, <1>11, <1>13, InvSeqs, RegisterLoad DEF jobs
<1>15. Keeps(promise, promise')
  BY <1>11, <1>14 DEF Keeps
<1>16. Jobbed(micro', promise') /\ Framed(stack', promise') /\ Launched(stack')
  BY <1>1, <1>2, <1>11, <1>14, <1>15, AllKept, InvSeqs
<1>17. e \notin dropped
  BY <1>2, <1>3 DEF Lost
<1>18. Lost'
  BY <1>1, <1>2, <1>12, <1>14, <1>17 DEF Lost, Born, PromiseInv
<1>19. Owing(X)'
  <2> SUFFICES ASSUME NEW d \in Id
               PROVE  /\ Settles(d)' => Owed(promise', micro', stack', d) = IF Open(d)' THEN 1 ELSE 0
                      /\ Idle(X, d)' => Owed(promise', micro', stack', d) = 0
    BY DEF Owing
  <2>1. Coming(promise, micro, Obliging, d) \in 0 .. 2 /\ Load(stack, Obliging, d) \in 0 .. 2
    BY OwedRange
  <2>2. Coming(promise', micro', Obliging, d)
          = Plus(Coming(promise, micro, Obliging, d), IF d = e THEN 1 ELSE 0)
    BY <1>1, <1>8, <1>11, <1>14 DEF Obliging
  <2>3. CASE d = e
    <3>1. Coming(promise, micro, Obliging, d) = 0 /\ Load(stack, Obliging, d) = 0
      BY <1>2, <1>3, <2>1, <2>3 DEF Idle, Owing, Owed, Plus
    <3>2. Open(d)' /\ ~Idle(X, d)'
      BY <1>1, <1>3, <1>12, <1>14, <1>17, <2>3 DEF Open, Idle, OwnSettled
    <3> QED BY <1>1, <2>2, <2>3, <3>1, <3>2 DEF Owed, Plus
  <2>4. CASE d # e
    <3>1. (Open(d)' <=> Open(d)) /\ (Settles(d)' <=> Settles(d)) /\ (Idle(X, d)' <=> Idle(X, d))
      BY <1>1, <1>12, <1>14, <2>4 DEF Open, Settles, Idle
    <3>2. Owed(promise', micro', stack', d) = Owed(promise, micro, stack, d)
      BY <1>1, <2>1, <2>2, <2>4 DEF Owed, Plus
    <3> QED BY <1>2, <3>1, <3>2 DEF Owing
  <2> QED BY <2>3, <2>4
<1>20. Awake'
  <2>1. ASSUME NEW d \in Id  PROVE Resumes(promise', micro', d) = Resumes(promise, micro, d)
    <3>1. Coming(promise, micro, {"resume"}, d) \in 0 .. 2
      BY DueRange
    <3>2. Coming(promise', micro', {"resume"}, d) = Plus(Coming(promise, micro, {"resume"}, d), 0)
      BY <1>1, <1>9, <1>11, <1>14
    <3> QED BY <3>1, <3>2 DEF Resumes, Plus
  <2> QED BY <1>1, <1>2, <2>1, AwakeSame
<1> QED BY <1>14, <1>16, <1>18, <1>19, <1>20 DEF Shape

(* A suspended body: what was a call in progress is now its resumption.    *)
LEMMA SuspendOwing ==
  ASSUME NEW X \in SUBSET OwnSettled, ObligationInv(X), Suspend  PROVE Shape' /\ Owing(X)' /\ Awake'
<1> DEFINE b == Top.p
           ok == Callback("resume", b, "ok", 0)
           err == Callback("resume", b, "err", 0)
<1>1. /\ stack # << >> /\ Top.op = "body" /\ stack' = Rest /\ dropped' = dropped
      /\ co' = [co EXCEPT ![b] = "suspended"]
      /\ \/ \E v \in Visible :
              /\ promise' = Registered(promise, v, ok, err)
              /\ micro' = micro \o RegisteredJobs(promise, v, ok, err)
         \/ \E v \in Plain : micro' = Append(micro, Given(ok, v)) /\ promise' = promise
  BY DEF Suspend, Calls, InScript
<1>2. /\ PromiseInv /\ Neat(promise) /\ Jobbed(micro, promise) /\ Framed(stack, promise)
      /\ Launched(stack) /\ Lost /\ Owing(X) /\ Awake
  BY DEF ObligationInv, Shape
<1>3. /\ Top \in Act /\ Rest \in Seq(Act) /\ Rest \in Seq(Safe) /\ Pushes(stack, Rest, Top)
      /\ Sound(promise) /\ micro \in Seq(Safe) /\ micro \in Seq(Act) /\ b \in Id
  BY <1>1, <1>2, InvSeqs DEF Safe, Goal, Settling
<1>4. Framed(Rest, promise) /\ FrameOK(Top, promise) /\ Launched(Rest)
  BY <1>2, <1>3, FramesPush, LaunchedPush
<1>5. ok \in Safe /\ err \in Safe /\ Twin(ok, err) /\ ok.op = "resume" /\ ok.p = b
  <2>1. b \in Id
    BY <1>3
  <2> HIDE DEF b
  <2> QED BY <2>1, CallbackType, ValueFacts DEF Op, Side, Twin
<1>6. WaitOK(ok, promise)
  BY <1>1, <1>4, <1>5 DEF WaitOK, Releasing, FrameOK
<1>7. \A K, d : "resume" \in K => Unit(ok, K, d) = IF d = b THEN 1 ELSE 0
  BY <1>5 DEF Unit, Hit, Aim
<1>8. /\ Neat(promise') /\ Jobbed(micro', promise')
      /\ \A d \in Id : promise'[d].by = promise[d].by /\ promise'[d].st = promise[d].st
      /\ \A K, d : Coming(promise', micro', K, d) = Plus(Coming(promise, micro, K, d), Unit(ok, K, d))
  <2>1. CASE \E v \in Visible :
              /\ promise' = Registered(promise, v, ok, err)
              /\ micro' = micro \o RegisteredJobs(promise, v, ok, err)
    <3>1. PICK v \in Visible :
              /\ promise' = Registered(promise, v, ok, err)
              /\ micro' = micro \o RegisteredJobs(promise, v, ok, err)
      BY <2>1
    <3>2. v \in Id /\ promise[v].st # "unborn"
      BY PassableFacts DEF Visible, Born
    <3> DEFINE jobs == RegisteredJobs(promise, v, ok, err)
    <3> HIDE DEF ok, err, b
    <3>3. micro' = micro \o jobs
      BY <3>1
    <3> HIDE DEF jobs
    <3>4. /\ Neat(promise')
          /\ \A d \in Id : promise'[d].by = promise[d].by /\ promise'[d].st = promise[d].st
          /\ Jobbed(micro, promise) => Jobbed(micro \o jobs, promise')
          /\ \A K, d : Coming(promise', micro \o jobs, K, d)
                         = Plus(Coming(promise, micro, K, d), Unit(ok, K, d))
      BY <1>2, <1>3, <1>5, <1>6, <3>1, <3>2, RegisterLoad DEF jobs
    <3> QED BY <1>2, <3>3, <3>4
  <2>2. CASE \E v \in Plain : micro' = Append(micro, Given(ok, v)) /\ promise' = promise
    <3>1. PICK v \in Plain : micro' = Append(micro, Given(ok, v)) /\ promise' = promise
      BY <2>2
    <3> DEFINE g == Given(ok, v)
    <3>2. v \in Value /\ v \notin Id
      BY ValueFacts DEF Value
    <3>3. g \in Act /\ g.op = ok.op /\ g.p = ok.p
      <4>1. ok \in Goal /\ ok \in Act
        BY <1>5, SafeSeq
      <4>2. Given(ok, v) \in Safe
        BY <3>2, <4>1, GivenType
      <4> QED BY <4>1, <4>2, SafeSeq DEF Given, Act
    <3>4. Pushes(micro', micro, g)
      BY <3>1 DEF Pushes
    <3> HIDE DEF g, ok, err, b
    <3>5. JobOK(g, promise)
      BY <1>6, <3>3 DEF JobOK, WaitOK
    <3>6. Jobbed(micro', promise)
      BY <1>2, <1>3, <3>3, <3>4, <3>5, JobsPush
    <3>7. ASSUME NEW K, NEW d
          PROVE  Coming(promise', micro', K, d) = Plus(Coming(promise, micro, K, d), Unit(ok, K, d))
      <4>1. Load(micro', K, d) = Plus(Load(micro, K, d), Unit(g, K, d))
        BY <1>3, <3>3, <3>4, LoadPush
      <4>2. Unit(g, K, d) = Unit(ok, K, d) /\ Unit(ok, K, d) \in 0 .. 1
        BY <1>5, <3>3 DEF Unit, Hit, Aim
      <4>3. Held(promise, Id, K, d) \in 0 .. 2 /\ Load(micro, K, d) \in 0 .. 2
        BY WaitRange, LoadRange
      <4> QED BY <3>1, <4>1, <4>2, <4>3 DEF Coming, Plus
    <3> QED BY <1>2, <3>1, <3>6, <3>7
  <2> QED BY <1>1, <2>1, <2>2
<1> HIDE DEF ok, err
<1>9. Keeps(promise, promise')
  BY <1>8 DEF Keeps
<1>10. Framed(stack', promise') /\ Launched(stack')
  BY <1>1, <1>3, <1>4, <1>9, AllKept
<1>11. Lost'
  BY <1>1, <1>2, <1>8 DEF Lost, Born, PromiseInv
<1>12. ASSUME NEW d \in Id
       PROVE  Owed(promise', micro', stack', d) = Owed(promise, micro, stack, d)
  <2>1. Coming(promise', micro', Obliging, d)
          = Plus(Coming(promise, micro, Obliging, d), IF d = b THEN 1 ELSE 0)
    BY <1>7, <1>8 DEF Obliging
  <2>2. Load(stack, Obliging, d) = Plus(Load(Rest, Obliging, d), IF d = b THEN 1 ELSE 0)
    BY <1>1, <1>3, PushLoad DEF Obliging
  <2>3. Coming(promise, micro, Obliging, d) \in 0 .. 2 /\ Load(Rest, Obliging, d) \in 0 .. 2
    BY OwedRange
  <2> QED BY <1>1, <2>1, <2>2, <2>3 DEF Owed, Plus
<1>13. Owing(X)'
  BY <1>1, <1>2, <1>8, <1>12, OwingSame
<1>14. Awake'
  <2>1. \A d \in Id : co'[d] = IF d = b THEN "suspended" ELSE co[d]
    BY <1>1, <1>2 DEF PromiseInv
  <2>2. ASSUME NEW d \in Id
        PROVE  Resumes(promise', micro', d) = Plus(Resumes(promise, micro, d), IF d = b THEN 1 ELSE 0)
    BY <1>7, <1>8 DEF Resumes
  <2>3. \A d \in Id : Resumes(promise, micro, d) \in 0 .. 2
    BY DueRange DEF Resumes
  <2> QED BY <1>2, <2>1, <2>2, <2>3 DEF Awake, Plus
<1> QED BY <1>8, <1>10, <1>11, <1>13, <1>14 DEF Shape

LEMMA ApiOwing ==
  ASSUME NEW X \in SUBSET OwnSettled, ObligationInv(X), ApiCall  PROVE Shape' /\ Owing(X)' /\ Awake'
<1>1. CASE Then \/ Finally
  <2>1. PICK q \in Visible, e \in Id, op \in {"then", "finally"}, x \in {0, 1}, y \in {0, 1} :
          Derive(q, e, Callback(op, e, "ok", x), Callback(op, e, "err", y))
    BY <1>1 DEF Then, Finally
  <2> QED BY <2>1, DeriveOwing
<1> QED BY <1>1, ConstructOwing, ResolveOwing, StaticOwing, TryOwing, QueueOwing, CallAsyncOwing,
           SuspendOwing DEF ApiCall

(***************************************************************************)
(* Script code ends.                                                       *)
(***************************************************************************)

LEMMA TopFacts ==
  ASSUME NEW X \in SUBSET OwnSettled, ObligationInv(X), stack # << >>
  PROVE  /\ Framed(Rest, promise) /\ FrameOK(Top, promise) /\ Launched(Rest)
         /\ FromQueue(Top) => Waits(Rest)
         /\ \A d \in Id : Load(stack, Obliging, d)
                            = Plus(Load(Rest, Obliging, d),
                                   IF Top.op \in Obliging /\ d = Top.p THEN 1 ELSE 0)
<1>1. /\ PromiseInv /\ Framed(stack, promise) /\ Launched(stack)
  BY DEF ObligationInv, Shape
<1>2. Top \in Act /\ Rest \in Seq(Act) /\ Pushes(stack, Rest, Top)
  BY <1>1, InvSeqs
<1> QED BY <1>1, <1>2, FramesPush, LaunchedPush, PushLoad

(* A call returns that owed nothing.                                       *)
LEMMA PopOwing ==
  ASSUME NEW X \in SUBSET OwnSettled, ObligationInv(X), stack # << >>, Top.op \notin Obliging,
         stack' = Rest \/ (Waits(Rest) /\ EscapeTo(Rest)),
         promise' = promise, micro' = micro, co' = co, dropped' = dropped
  PROVE  Shape' /\ Owing(X)' /\ Awake'
<1>1. /\ PromiseInv /\ Neat(promise) /\ Jobbed(micro, promise) /\ Lost /\ Owing(X) /\ Awake
      /\ Rest \in Seq(Safe)
  BY InvSeqs DEF ObligationInv, Shape
<1>2. /\ Framed(stack', promise) /\ Launched(stack')
      /\ \A d \in Id : Load(stack', Obliging, d) = Load(Rest, Obliging, d)
  BY <1>1, TopFacts, EscapeLoad
<1>3. ASSUME NEW d \in Id  PROVE Owed(promise', micro', stack', d) = Owed(promise, micro, stack, d)
  <2>1. Load(stack, Obliging, d) = Plus(Load(Rest, Obliging, d), 0) /\ Load(Rest, Obliging, d) \in 0 .. 2
    BY TopFacts, LoadRange
  <2>2. Load(stack, Obliging, d) = Load(stack', Obliging, d)
    BY <1>2, <2>1 DEF Plus
  <2> QED BY <2>2 DEF Owed
<1>4. Owing(X)' /\ Awake'
  BY <1>1, <1>3, OwingSame, AwakeSame
<1> QED BY <1>1, <1>2, <1>4 DEF Shape, Lost, Born

LEMMA ExecutorOwing ==
  ASSUME NEW X \in SUBSET OwnSettled,
         ObligationInv(X), stack # << >>, NEW ending, NEW v \in Passable, EndExecutor(ending, v)
  PROVE  Shape' /\ Owing(X)' /\ Awake'
<1>1. /\ Top.op = "executor" /\ stack' = Rest /\ co' = co /\ dropped' = dropped
      /\ \/ SettleAfter(micro, Top.p, "err", v)
         \/ promise' = promise /\ micro' = micro
  BY DEF EndExecutor
<1>2. CASE promise' = promise /\ micro' = micro
  BY <1>1, <1>2, PopOwing DEF Obliging
<1>3. CASE SettleAfter(micro, Top.p, "err", v)
  <2>1. /\ PromiseInv /\ Neat(promise) /\ Jobbed(micro, promise) /\ Lost /\ Owing(X) /\ Awake
        /\ Rest \in Seq(Safe) /\ Top \in Safe
    BY InvSeqs DEF ObligationInv, Shape
  <2>2. Top.p \in Id /\ promise[Top.p].by = "caps"
    BY <1>1, <2>1, TopFacts DEF Safe, Goal, Settling, FrameOK
  <2>3. v \in Value /\ "err" \in Side /\ Outcome(promise, "err", v).st # "unborn"
    BY PassableFacts DEF Side
  <2>4. ASSUME NEW d \in Id  PROVE Load(stack', Obliging, d) = Load(stack, Obliging, d)
    <3>1. Load(stack, Obliging, d) = Plus(Load(Rest, Obliging, d), 0) /\ Load(Rest, Obliging, d) \in 0 .. 2
      BY <1>1, TopFacts, LoadRange DEF Obliging
    <3> QED BY <1>1, <3>1 DEF Plus
  <2>5. /\ Neat(promise') /\ Jobbed(micro', promise') /\ Keeps(promise, promise') /\ Lost' /\ Owing(X)'
        /\ \A d \in Id : Resumes(promise', micro', d) = Resumes(promise, micro, d)
    BY <1>1, <1>3, <2>1, <2>2, <2>3, <2>4, SettlePlain DEF OwnSettled
  <2>6. Framed(stack', promise') /\ Launched(stack')
    BY <1>1, <2>1, <2>5, TopFacts, AllKept
  <2> QED BY <1>1, <2>1, <2>5, <2>6, AwakeSame DEF Shape
<1> QED BY <1>1, <1>2, <1>3

LEMMA EndTryOwing ==
  ASSUME NEW X \in SUBSET OwnSettled,
         ObligationInv(X), stack # << >>, NEW ending, NEW v, EndTry(ending, v)
  PROVE  Shape' /\ Owing(X)' /\ Awake'
<1>1. /\ Top.op = "try" /\ stack' = Rest /\ micro' = micro /\ co' = co /\ dropped' = dropped
      /\ \/ promise' = promise
         \/ \E p \in Id, st \in {"fulfilled", "rejected"} :
               Next1(p) /\ promise' = [promise EXCEPT ![p] = Closed(Pending("static"), st, v)]
  BY DEF EndTry
<1>2. CASE promise' = promise
  BY <1>1, <1>2, PopOwing DEF Obliging
<1>3. CASE promise' # promise
  <2>1. PICK p \in Id, st \in {"fulfilled", "rejected"} :
           Next1(p) /\ promise' = [promise EXCEPT ![p] = Closed(Pending("static"), st, v)]
    BY <1>1, <1>3
  <2>2. /\ PromiseInv /\ Neat(promise) /\ Jobbed(micro, promise) /\ Lost /\ Owing(X) /\ Awake
        /\ Rest \in Seq(Safe) /\ Sound(promise)
    BY InvSeqs DEF ObligationInv, Shape
  <2> DEFINE r == Closed(Pending("static"), st, v)
  <2>3. ~Born(p) /\ r.st # "unborn" /\ r.by = "static" /\ r.ok = << >>
    BY <2>1 DEF Next1, Pending, Closed
  <2>4. Becomes(promise, promise', p, r)
    BY <2>1, <2>2 DEF Sound, Table, Becomes
  <2> HIDE DEF r
  <2>5. ASSUME NEW d \in Id
        PROVE  Load(stack', Obliging, d)
                 = Plus(Load(stack, Obliging, d), IF d = p /\ r.by = "async" THEN 1 ELSE 0)
    <3>1. Load(stack, Obliging, d) = Plus(Load(Rest, Obliging, d), 0) /\ Load(Rest, Obliging, d) \in 0 .. 2
      BY <1>1, TopFacts, LoadRange DEF Obliging
    <3> QED BY <1>1, <2>3, <3>1 DEF Plus
  <2>6. /\ Neat(promise') /\ Jobbed(micro', promise') /\ Keeps(promise, promise') /\ Lost' /\ Owing(X)'
        /\ \A d \in Id : Resumes(promise', micro', d) = Resumes(promise, micro, d)
    <3>1. micro' = micro /\ dropped' = dropped
      BY <1>1
    <3> QED BY <2>2, <2>3, <2>4, <2>5, <3>1, CreateOwing
  <2>7. Framed(stack', promise') /\ Launched(stack')
    BY <1>1, <2>2, <2>6, TopFacts, AllKept
  <2> QED BY <1>1, <2>2, <2>6, <2>7, AwakeSame DEF Shape
<1> QED BY <1>2, <1>3

LEMMA EndTaskOwing ==
  ASSUME NEW X \in SUBSET OwnSettled, ObligationInv(X), stack # << >>, NEW ending, EndTask(ending)
  PROVE  Shape' /\ Owing(X)' /\ Awake'
<1>1. /\ Top.op \in {"task", "quiet"} /\ (stack' = Rest \/ (Top.op = "task" /\ EscapeTo(Rest)))
      /\ promise' = promise /\ micro' = micro /\ co' = co /\ dropped' = dropped
  BY DEF EndTask
<1>2. Top.op = "task" => Waits(Rest)
  BY <1>1, TopFacts DEF FromQueue
<1> QED BY <1>1, <1>2, PopOwing DEF Obliging

(* The handler or body on top is all its promise is owed.                  *)
LEMMA TopOwed ==
  ASSUME NEW X \in SUBSET OwnSettled,
         ObligationInv(X), stack # << >>, Top.op \in Obliging, NEW d \in Id
  PROVE  Owed(promise, micro, stack, d)
           = Plus(Plus(Coming(promise, micro, Obliging, d), Load(Rest, Obliging, d)),
                  IF d = Top.p THEN 1 ELSE 0)
<1>1. Coming(promise, micro, Obliging, d) \in 0 .. 2 /\ Load(Rest, Obliging, d) \in 0 .. 2
  BY OwedRange
<1>2. Load(stack, Obliging, d) = Plus(Load(Rest, Obliging, d), IF d = Top.p THEN 1 ELSE 0)
  BY TopFacts
<1> QED BY <1>1, <1>2 DEF Owed, Plus

LEMMA HandlerOwing ==
  ASSUME NEW X \in SUBSET OwnSettled,
         ObligationInv(X), stack # << >>, Top.op \in {"then", "finally"}, co' = co,
         NEW side \in Side, NEW v \in Value, Outcome(promise, side, v).st # "unborn",
         SettleAndReturn(micro, Rest, Top.p, side, v)
  PROVE  Shape' /\ Owing(X)' /\ Awake'
<1>1. /\ PromiseInv /\ Neat(promise) /\ Jobbed(micro, promise) /\ Lost /\ Owing(X) /\ Awake
      /\ Rest \in Seq(Safe) /\ Top \in Safe /\ micro \in Seq(Safe)
  BY InvSeqs DEF ObligationInv, Shape
<1>2. Top.p \in Id /\ Top.op \in Obliging
  BY <1>1 DEF Safe, Goal, Settling, Obliging
<1>3. Framed(Rest, promise) /\ Launched(Rest) /\ Waits(Rest)
  BY TopFacts DEF FromQueue
<1>4. \A d \in Id : Owed(promise, micro, stack, d)
                      = Plus(Plus(Coming(promise, micro, Obliging, d), Load(Rest, Obliging, d)),
                             IF d = Top.p THEN 1 ELSE 0)
  BY <1>2, TopOwed
<1>5. /\ Shape' /\ Owing(X)'
      /\ \A d \in Id : Resumes(promise', micro', d) = Resumes(promise, micro, d)
  BY <1>1, <1>2, <1>3, <1>4, SettleReturnOwing
<1> QED BY <1>1, <1>5, AwakeSame

(* A body that ends, or fails with a host error, was not to be resumed.    *)
LEMMA BodyOwed ==
  ASSUME NEW X \in SUBSET OwnSettled, ObligationInv(X), stack # << >>, Top.op = "body"
  PROVE  /\ Top.p \in Id /\ Settles(Top.p) /\ Born(Top.p)
         /\ Coming(promise, micro, Obliging, Top.p) = 0 /\ Load(Rest, Obliging, Top.p) = 0
         /\ Resumes(promise, micro, Top.p) = 0
<1>1. PromiseInv /\ Neat(promise) /\ Owing(X) /\ Top \in Safe
  BY InvSeqs DEF ObligationInv, Shape
<1>2. Top.p \in Id /\ promise[Top.p].by = "async"
  BY <1>1, TopFacts DEF Safe, Goal, Settling, FrameOK
<1>3. Owed(promise, micro, stack, Top.p)
        = Plus(Plus(Coming(promise, micro, Obliging, Top.p), Load(Rest, Obliging, Top.p)), 1)
  BY <1>2, TopOwed DEF Obliging
<1>4. Settles(Top.p) /\ Born(Top.p)
  BY <1>1, <1>2 DEF Settles, Born, Neat
<1>5. Coming(promise, micro, Obliging, Top.p) = 0 /\ Load(Rest, Obliging, Top.p) = 0
  BY <1>1, <1>2, <1>3, <1>4, OwedRange DEF Owing, Plus
<1>6. Resumes(promise, micro, Top.p) = 0
  BY <1>5, DueFewer DEF Resumes, Obliging
<1> QED BY <1>2, <1>4, <1>5, <1>6

(* A body that runs under its caller cannot see its own promise.           *)
LEMMA BodyHidden ==
  ASSUME NEW X \in SUBSET OwnSettled, ObligationInv(X), stack # << >>, Top.op = "body", Top.arg = 0
  PROVE  Top.p \notin Passable
<1>1. stack \in Seq(Safe) /\ Top.p \in Id
  BY InvSeqs, BodyOwed DEF ObligationInv
<1>2. Len(stack) \in DOMAIN stack /\ stack[Len(stack)] = Top
  BY <1>1 DEF Top
<1>3. Hidden(Top.p)
  BY <1>2 DEF Hidden
<1> QED BY <1>1, <1>3, ValueFacts DEF Passable, Visible, Value

LEMMA EndBodyOwing ==
  ASSUME NEW X \in SUBSET OwnSettled,
         ObligationInv(X), stack # << >>, NEW ending \in {"ok", "err", "host"}, NEW v \in Value,
         v \in Passable \/ v \notin Id, EndBody(ending, v)
  PROVE  Shape' /\ Owing(X)' /\ Awake'
<1> DEFINE b == Top.p
<1>1. Top.op = "body" /\ co' = [co EXCEPT ![b] = "done"]
  BY DEF EndBody
<1>2. /\ PromiseInv /\ Neat(promise) /\ Jobbed(micro, promise) /\ Lost /\ Owing(X) /\ Awake
      /\ Rest \in Seq(Safe) /\ Top \in Safe /\ micro \in Seq(Safe) /\ stack \in Seq(Safe)
  BY InvSeqs DEF ObligationInv, Shape
<1>3. /\ b \in Id /\ Settles(b) /\ Born(b)
      /\ Coming(promise, micro, Obliging, b) = 0 /\ Load(Rest, Obliging, b) = 0
      /\ Resumes(promise, micro, b) = 0
  BY <1>1, BodyOwed
<1>4. Framed(Rest, promise) /\ Launched(Rest) /\ (FromQueue(Top) => Waits(Rest))
  BY TopFacts
<1>5. Top.arg # 0 => Waits(Rest)
  BY <1>1, <1>4 DEF FromQueue
<1>6. ASSUME NEW d \in Id
      PROVE  Owed(promise, micro, stack, d)
               = Plus(Plus(Coming(promise, micro, Obliging, d), Load(Rest, Obliging, d)),
                      IF d = b THEN 1 ELSE 0)
  BY <1>1, TopOwed DEF Obliging
<1>7. \A d \in Id : co'[d] = IF d = b THEN "done" ELSE co[d]
  BY <1>1, <1>2 DEF PromiseInv
<1>8. CASE ending = "host"
  <2>1. /\ IF Top.arg = 0 THEN stack' = Rest ELSE EscapeTo(Rest)
        /\ dropped' = dropped \cup {b} /\ promise' = promise /\ micro' = micro
    BY <1>8 DEF EndBody
  <2>2. /\ Framed(stack', promise) /\ Launched(stack')
        /\ \A d \in Id : Load(stack', Obliging, d) = Load(Rest, Obliging, d)
    BY <1>2, <1>4, <1>5, <2>1, EscapeLoad
  <2>3. Owing(X)'
    <3> SUFFICES ASSUME NEW d \in Id
                 PROVE  /\ Settles(d)' => Owed(promise', micro', stack', d) = IF Open(d)' THEN 1 ELSE 0
                        /\ Idle(X, d)' => Owed(promise', micro', stack', d) = 0
      BY DEF Owing
    <3>1. Owed(promise', micro', stack', d)
            = Plus(Coming(promise, micro, Obliging, d), Load(Rest, Obliging, d))
      BY <2>1, <2>2 DEF Owed
    <3>2. CASE d = b
      <4>1. ~Open(d)'
        BY <2>1, <3>2 DEF Open
      <4> QED BY <1>3, <3>1, <3>2, <4>1 DEF Plus
    <3>3. CASE d # b
      <4>1. (Open(d)' <=> Open(d)) /\ (Settles(d)' <=> Settles(d))
        BY <2>1, <3>3 DEF Open, Settles
      <4>2. Owed(promise, micro, stack, d)
              = Plus(Plus(Coming(promise, micro, Obliging, d), Load(Rest, Obliging, d)), 0)
        BY <1>6, <3>3
      <4>3. Coming(promise, micro, Obliging, d) \in 0 .. 2 /\ Load(Rest, Obliging, d) \in 0 .. 2
        BY OwedRange
      <4>4. Owed(promise', micro', stack', d) = Owed(promise, micro, stack, d)
        BY <3>1, <4>2, <4>3 DEF Plus
      <4> QED BY <1>2, <2>1, <4>1, <4>4 DEF Owing, Idle
    <3> QED BY <3>2, <3>3
  <2>4. Awake'
    BY <1>2, <1>3, <1>7, <2>1 DEF Awake
  <2> QED BY <1>2, <1>3, <2>1, <2>2, <2>3, <2>4 DEF Shape, Lost, Born
<1>9. CASE ending # "host"
  <2>1. SettleAndReturn(micro, Rest, b, ending, v) /\ ending \in Side
    BY <1>9 DEF EndBody, Side
  <2>2. Outcome(promise, ending, v).st # "unborn"
    BY <2>1, PassableFacts
  <2>3. SelfResolution(b, ending, v) => Waits(Rest)
    <3>1. SUFFICES ASSUME v = b, Top.arg = 0  PROVE FALSE
      BY <1>5 DEF SelfResolution
    <3>2. b \notin Passable
      BY <1>1, <3>1, BodyHidden
    <3> QED BY <1>3, <3>1, <3>2
  <2> HIDE DEF b
  <2>4. /\ Shape' /\ Owing(X)'
        /\ \A d \in Id : Resumes(promise', micro', d) = Resumes(promise, micro, d)
    BY <1>2, <1>3, <1>4, <1>6, <2>1, <2>2, <2>3, SettleReturnOwing
  <2>5. Awake'
    BY <1>2, <1>3, <1>7, <2>4 DEF Awake
  <2> QED BY <2>4, <2>5
<1> QED BY <1>8, <1>9

LEMMA EndOwing ==
  ASSUME NEW X \in SUBSET OwnSettled,
         ObligationInv(X), NEW ending \in {"ok", "err", "host"}, NEW v \in Value, EndCall(ending, v),
         v \in Passable \/ (v \notin Id /\ ending = "host")
  PROVE  Shape' /\ Owing(X)' /\ Awake'
<1>1. stack # << >> /\ PromiseInv /\ Top \in Safe
  BY InvSeqs DEF EndCall, InScript, ObligationInv
<1>2. \A side \in Side : Outcome(promise, side, v).st # "unborn"
  BY PassableFacts
<1>3. v \in Passable \/ v \notin Id
  OBVIOUS
<1>4. CASE EndScript(ending)
  BY <1>1, <1>4, PopOwing DEF EndScript, Obliging
<1>5. CASE EndExecutor(ending, v)
  <2>1. CASE v \in Passable
    BY <1>1, <1>5, <2>1, ExecutorOwing
  <2>2. CASE ending = "host"
    BY <1>1, <1>5, <2>2, PopOwing DEF EndExecutor, Obliging
  <2> QED BY <2>1, <2>2
<1>6. CASE EndTry(ending, v)
  BY <1>1, <1>6, EndTryOwing
<1>7. CASE EndTask(ending)
  BY <1>1, <1>7, EndTaskOwing
<1>8. CASE EndThen(ending, v)
  <2>1. PICK side \in Side : SettleAndReturn(micro, Rest, Top.p, side, v)
    BY <1>8 DEF EndThen, Side
  <2> QED BY <1>1, <1>2, <1>8, <2>1, HandlerOwing DEF EndThen
<1>9. CASE EndFinally(ending, v)
  <2>1. \/ SettleAndReturn(micro, Rest, Top.p, Top.side, Top.val)
        \/ SettleAndReturn(micro, Rest, Top.p, "err", v)
    BY <1>9 DEF EndFinally
  <2>2. Top.side \in Side /\ Top.val \in Value /\ (Top.side = "err" \/ Top.val \notin Id)
    BY <1>1 DEF Safe, Goal, Act, Side
  <2>3. Outcome(promise, Top.side, Top.val).st # "unborn"
    BY <2>2, PassableFacts
  <2>4. Top.op = "finally" /\ co' = co /\ "err" \in Side
    BY <1>9 DEF EndFinally, Side
  <2>5. CASE SettleAndReturn(micro, Rest, Top.p, Top.side, Top.val)
    BY <1>1, <2>2, <2>3, <2>4, <2>5, HandlerOwing
  <2>6. CASE SettleAndReturn(micro, Rest, Top.p, "err", v)
    BY <1>1, <1>2, <2>4, <2>6, HandlerOwing
  <2> QED BY <2>1, <2>5, <2>6
<1>10. CASE EndBody(ending, v)
  BY <1>1, <1>3, <1>10, EndBodyOwing
<1> QED BY <1>4, <1>5, <1>6, <1>7, <1>8, <1>9, <1>10 DEF EndCall

(***************************************************************************)
(* The interpreter takes the next microtask.                               *)
(***************************************************************************)

LEMMA JobTaken ==
  ASSUME NEW X \in SUBSET OwnSettled, ObligationInv(X), micro # << >>
  PROVE  /\ Job \in Safe /\ Job \in Act /\ Tail(micro) \in Seq(Safe) /\ Tail(micro) \in Seq(Act)
         /\ Jobbed(Tail(micro), promise) /\ JobOK(Job, promise)
         /\ \A K, d : Load(micro, K, d) = Plus(Load(Tail(micro), K, d), Unit(Job, K, d))
<1>1. PromiseInv /\ Jobbed(micro, promise) /\ micro \in Seq(Act)
  BY InvSeqs DEF ObligationInv, Shape
<1>2. Job \in Safe /\ Job \in Act /\ Tail(micro) \in Seq(Safe) /\ Tail(micro) \in Seq(Act)
  BY <1>1, HeadFacts, SafeSeq
<1>3. Shifts(micro, Tail(micro), Job)
  BY <1>1, HeadShifted DEF Job
<1> DEFINE tail == Tail(micro)
<1> HIDE DEF tail
<1>4. tail \in Seq(Act) /\ Shifts(micro, tail, Job)
  BY <1>2, <1>3 DEF tail
<1>5. Jobbed(tail, promise) /\ JobOK(Job, promise)
  BY <1>1, <1>2, <1>4, JobsShift
<1>6. ASSUME NEW K, NEW d  PROVE Load(micro, K, d) = Plus(Load(tail, K, d), Unit(Job, K, d))
  BY <1>2, <1>4, LoadShift
<1> QED BY <1>2, <1>5, <1>6 DEF tail

LEMMA RunSettlerOwing ==
  ASSUME NEW X \in SUBSET OwnSettled, ObligationInv(X), micro # << >>, Waits(stack), RunSettler
  PROVE  Shape' /\ Owing(X)' /\ Awake'
<1> DEFINE tail == Tail(micro)
<1>1. /\ PromiseInv /\ Neat(promise) /\ Framed(stack, promise) /\ Launched(stack) /\ Lost
      /\ Owing(X) /\ Awake /\ stack \in Seq(Safe)
  BY InvSeqs DEF ObligationInv, Shape
<1>2. /\ Job.op \in {"cap", "then"} /\ co' = co
      /\ SettleAndReturn(tail, stack, Job.p, Job.side, Job.val)
  BY DEF RunSettler
<1>3. /\ Job \in Safe /\ tail \in Seq(Safe) /\ Jobbed(tail, promise)
      /\ \A K, d : Load(micro, K, d) = Plus(Load(tail, K, d), Unit(Job, K, d))
  BY JobTaken
<1> HIDE DEF tail
<1>4. Job.p \in Id
  BY <1>2, <1>3 DEF Safe, Goal, Settling
<1>5. Job.side \in Side /\ Job.val \in Value /\ (Job.side = "err" \/ Job.val \notin Id)
  BY <1>3 DEF Safe, Goal, Act, Side
<1>6. Outcome(promise, Job.side, Job.val).st # "unborn"
  BY <1>5, PassableFacts
<1>7. \A d : /\ Unit(Job, Obliging, d) = IF d = Job.p THEN 1 ELSE 0
             /\ Unit(Job, {"resume"}, d) = 0
  BY <1>2 DEF Unit, Hit, Aim, Obliging
<1>8. ASSUME NEW d \in Id
      PROVE  Owed(promise, micro, stack, d)
               = Plus(Plus(Coming(promise, tail, Obliging, d), Load(stack, Obliging, d)),
                      IF d = Job.p THEN 1 ELSE 0)
  <2>1. Load(micro, Obliging, d) = Plus(Load(tail, Obliging, d), IF d = Job.p THEN 1 ELSE 0)
    BY <1>3, <1>7
  <2>2. /\ Held(promise, Id, Obliging, d) \in 0 .. 2 /\ Load(tail, Obliging, d) \in 0 .. 2
        /\ Load(stack, Obliging, d) \in 0 .. 2
    BY WaitRange, LoadRange
  <2> QED BY <2>1, <2>2 DEF Owed, Coming, Plus
<1>9. /\ Shape' /\ Owing(X)'
      /\ \A d \in Id : Resumes(promise', micro', d) = Resumes(promise, tail, d)
  BY <1>1, <1>2, <1>3, <1>4, <1>5, <1>6, <1>8, SettleReturnOwing
<1>10. ASSUME NEW d \in Id  PROVE Resumes(promise, tail, d) = Resumes(promise, micro, d)
  <2>1. Load(micro, {"resume"}, d) = Plus(Load(tail, {"resume"}, d), 0)
    BY <1>3, <1>7
  <2>2. Load(tail, {"resume"}, d) \in 0 .. 2
    BY LoadRange
  <2> QED BY <2>1, <2>2 DEF Resumes, Coming, Plus
<1> QED BY <1>1, <1>2, <1>9, <1>10, AwakeSame

(* What a microtask becomes as a call: the same for the same promise.      *)
LEMMA RunOwing ==
  ASSUME NEW X \in SUBSET OwnSettled,
         ObligationInv(X), micro # << >>, Waits(stack), RunCallback \/ RunResume
  PROVE  Shape' /\ Owing(X)' /\ Awake'
<1> DEFINE tail == Tail(micro)
           a == IF Job.op = "resume" THEN [Job EXCEPT !.op = "body", !.arg = 1] ELSE Job
<1>1. /\ PromiseInv /\ Neat(promise) /\ Framed(stack, promise) /\ Launched(stack) /\ Lost
      /\ Owing(X) /\ Awake /\ stack \in Seq(Act)
  BY InvSeqs DEF ObligationInv, Shape
<1>2. /\ Job \in Safe /\ Job \in Act /\ Jobbed(tail, promise) /\ JobOK(Job, promise)
      /\ \A K, d : Load(micro, K, d) = Plus(Load(tail, K, d), Unit(Job, K, d))
  BY JobTaken
<1>3. /\ Job.op \in {"task", "quiet", "finally", "then", "resume"}
      /\ stack' = Append(stack, a) /\ micro' = tail
      /\ promise' = promise /\ dropped' = dropped
      /\ co' = IF Job.op = "resume" THEN [co EXCEPT ![Job.p] = "running"] ELSE co
  BY DEF RunCallback, RunResume
<1>4. Pushes(stack', stack, a)
  BY <1>3 DEF Pushes
<1>5. /\ a \in Act /\ a.p = Job.p
      /\ a.op = IF Job.op = "resume" THEN "body" ELSE Job.op
  BY <1>2 DEF Act, Op
<1> HIDE DEF a, tail
<1>6. a.op \in {"task", "quiet", "finally", "then", "body"}
      /\ (a.op \in Obliging <=> Job.op \in Obliging)
  BY <1>3, <1>5 DEF Obliging
<1>7. FrameOK(a, promise)
  BY <1>2, <1>3, <1>5, <1>6 DEF FrameOK, JobOK, WaitOK
<1>8. Framed(stack', promise) /\ Launched(stack')
  BY <1>1, <1>4, <1>5, <1>7, FramesPush, LaunchedPush
<1>9. Shape'
  BY <1>1, <1>2, <1>3, <1>8 DEF Shape, Lost, Born
<1>10. ASSUME NEW d \in Id  PROVE Owed(promise', micro', stack', d) = Owed(promise, micro, stack, d)
  <2> DEFINE u == IF Job.op \in Obliging /\ d = Job.p THEN 1 ELSE 0
  <2>1. Load(micro, Obliging, d) = Plus(Load(tail, Obliging, d), u)
    BY <1>2 DEF Unit, Hit, Aim, Obliging
  <2>2. Load(stack', Obliging, d) = Plus(Load(stack, Obliging, d), u)
    BY <1>1, <1>4, <1>5, <1>6, PushLoad
  <2>3. /\ Held(promise, Id, Obliging, d) \in 0 .. 2 /\ Load(tail, Obliging, d) \in 0 .. 2
        /\ Load(stack, Obliging, d) \in 0 .. 2 /\ u \in 0 .. 1
    BY WaitRange, LoadRange
  <2> HIDE DEF u
  <2> QED BY <1>3, <2>1, <2>2, <2>3 DEF Owed, Coming, Plus
<1>11. Owing(X)'
  BY <1>1, <1>3, <1>10, OwingSame
<1>12. ASSUME NEW d \in Id
       PROVE  Resumes(promise, micro, d)
                = Plus(Resumes(promise', micro', d), IF Job.op = "resume" /\ d = Job.p THEN 1 ELSE 0)
  <2>1. Load(micro, {"resume"}, d)
          = Plus(Load(tail, {"resume"}, d), IF Job.op = "resume" /\ d = Job.p THEN 1 ELSE 0)
    BY <1>2 DEF Unit, Hit, Aim
  <2>2. Held(promise, Id, {"resume"}, d) \in 0 .. 2 /\ Load(tail, {"resume"}, d) \in 0 .. 2
    BY WaitRange, LoadRange
  <2> QED BY <1>3, <2>1, <2>2 DEF Resumes, Coming, Plus
<1>13. \A d \in Id : Resumes(promise', micro', d) \in 0 .. 2
  BY DueRange DEF Resumes
<1>14. CASE Job.op # "resume"
  <2>1. \A d \in Id : Resumes(promise', micro', d) = Resumes(promise, micro, d)
    BY <1>12, <1>13, <1>14 DEF Plus
  <2> QED BY <1>1, <1>3, <1>9, <1>11, <1>14, <2>1, AwakeSame
<1>15. CASE Job.op = "resume"
  <2>1. Job.p \in Id /\ promise[Job.p].by = "async"
    BY <1>2, <1>15 DEF Safe, Goal, Settling, JobOK, WaitOK
  <2>2. Settles(Job.p)
    BY <2>1 DEF Settles
  <2>3. Load(stack', Obliging, Job.p) = Plus(Load(stack, Obliging, Job.p), 1)
    BY <1>1, <1>4, <1>5, <1>6, <1>15, <2>1, PushLoad DEF Obliging
  <2>4. Owed(promise', micro', stack', Job.p) \in 0 .. 1
    BY <1>1, <1>10, <2>1, <2>2 DEF Owing
  <2>5. Coming(promise', micro', Obliging, Job.p) = 0
    <3>1. Coming(promise', micro', Obliging, Job.p) \in 0 .. 2 /\ Load(stack, Obliging, Job.p) \in 0 .. 2
      BY OwedRange
    <3> QED BY <2>3, <2>4, <3>1 DEF Owed, Plus
  <2>6. Resumes(promise', micro', Job.p) = 0
    BY <2>5, DueFewer DEF Resumes, Obliging
  <2>7. \A d \in Id : co'[d] = IF d = Job.p THEN "running" ELSE co[d]
    BY <1>1, <1>3, <1>15 DEF PromiseInv
  <2>8. \A d \in Id : d # Job.p => Resumes(promise', micro', d) = Resumes(promise, micro, d)
    BY <1>12, <1>13 DEF Plus
  <2>9. Awake'
    BY <1>1, <2>6, <2>7, <2>8 DEF Awake
  <2> QED BY <1>9, <1>11, <2>9
<1> QED BY <1>14, <1>15

(***************************************************************************)
(* The theorems.                                                           *)
(***************************************************************************)

LEMMA ObligationInit == ASSUME NEW X \in SUBSET OwnSettled, PromiseInit  PROVE ObligationInv(X)
<1>1. /\ promise = [p \in Id |-> Unborn] /\ micro = << >> /\ dropped = {}
      /\ stack = <<Call("script", 0)>> /\ co = [p \in Id |-> "none"]
  BY DEF PromiseInit
<1> DEFINE a == Call("script", 0)
<1>2. a.op = "script"
  BY CallFacts, ValueFacts DEF Op, Settling
<1>3. stack = <<a>> /\ DOMAIN stack = {1} /\ stack[1] = a /\ DOMAIN << >> = {}
  BY <1>1
<1> HIDE DEF a
<1>4. Shape
  BY <1>1, <1>2, <1>3 DEF Shape, Neat, Jobbed, Framed, FrameOK, Launched, FromQueue, Lost, Unborn
<1>5. ASSUME NEW K, NEW d  PROVE Coming(promise, micro, K, d) = 0
  <2>1. \A q \in Id : Load(promise[q].ok, K, d) = 0
    BY <1>1, LoadEmpty DEF Unborn
  <2>2. Held(promise, Id, K, d) = 0
    BY <2>1, WaitNone DEF NoWait
  <2> QED BY <1>1, <2>2, LoadEmpty DEF Coming, Plus
<1>6. \A d : Load(stack, Obliging, d) = 0
  BY <1>2, <1>3, LoadNone DEF NoHit, Hit, Aim, Obliging
<1>7. Owing(X)
  BY <1>1, <1>5, <1>6 DEF Owing, Owed, Settles, Plus, Unborn
<1>8. Awake
  BY <1>1, <1>5 DEF Awake, Resumes
<1> QED BY <1>4, <1>7, <1>8, InvInit DEF ObligationInv

LEMMA ObligationNext ==
  ASSUME NEW X \in SUBSET OwnSettled, ObligationInv(X), [PromiseNext]_promiseVars
  PROVE  ObligationInv(X)'
<1>1. PromiseInv'
  BY InvNext DEF ObligationInv
<1> SUFFICES Shape' /\ Owing(X)' /\ Awake'
  BY <1>1 DEF ObligationInv
<1>2. CASE ApiCall
  BY <1>2, ApiOwing
<1>3. CASE Return \/ Throw
  <2>1. PICK ending \in {"ok", "err", "host"}, v \in Passable : EndCall(ending, v)
    BY <1>3 DEF Return, Throw
  <2> QED BY <2>1, EndOwing, PassableFacts
<1>4. CASE Fail
  BY <1>4, EndOwing, ValueFacts DEF Fail
<1>5. CASE RunJob
  <2>1. micro # << >> /\ Waits(stack) /\ (RunSettler \/ RunCallback \/ RunResume)
    BY <1>5 DEF RunJob, Draining, Waits, Top
  <2> QED BY <2>1, RunSettlerOwing, RunOwing
<1>6. CASE AwaitReturns \/ AwaitStarves
  <2>1. /\ stack # << >> /\ Top.op = "await" /\ stack' = Rest
        /\ promise' = promise /\ micro' = micro /\ co' = co /\ dropped' = dropped
    BY <1>6 DEF AwaitReturns, AwaitStarves, Draining
  <2> QED BY <2>1, PopOwing DEF Obliging
<1>7. CASE LoopEnds \/ Ended \/ UNCHANGED promiseVars
  <2>1. /\ promise' = promise /\ micro' = micro /\ stack' = stack /\ co' = co /\ dropped' = dropped
    BY <1>7 DEF LoopEnds, Ended, promiseVars
  <2> QED BY <2>1 DEF ObligationInv, Shape, Owing, Awake, Lost, Born, Settles, Open, Idle
<1> QED BY <1>2, <1>3, <1>4, <1>5, <1>6, <1>7 DEF PromiseNext

(* From counts up to two to cardinalities.                                 *)
LEMMA LoadCardinality ==
  ASSUME NEW s, NEW K, NEW d, NEW S, S = {i \in DOMAIN s : Hit(s[i], K, d)}, Load(s, K, d) # 2
  PROVE  Cardinality(S) = Load(s, K, d)
<1>1. CASE NoHit(s, K, d)
  <2>1. S = {}
    BY <1>1 DEF NoHit
  <2> QED BY <1>1, <2>1, FS_EmptySet DEF Load
<1>2. CASE ~NoHit(s, K, d)
  <2>1. OneHit(s, K, d) /\ Load(s, K, d) = 1
    BY <1>2 DEF Load
  <2>2. PICK i \in DOMAIN s : Hit(s[i], K, d) /\ \A j \in DOMAIN s \ {i} : ~Hit(s[j], K, d)
    BY <2>1 DEF OneHit
  <2>3. S = {i}
    BY <2>2
  <2> QED BY <2>1, <2>3, FS_Singleton
<1> QED BY <1>1, <1>2

LEMMA WaitCardinality ==
  ASSUME NEW t, NEW K, NEW d, Held(t, Id, K, d) # 2,
         NEW S, S = UNION {{<<q, i>> : i \in {j \in DOMAIN t[q].ok : Hit(t[q].ok[j], K, d)}} : q \in Id}
  PROVE  Cardinality(S) = Held(t, Id, K, d)
<1>1. CASE NoWait(t, Id, K, d)
  <2>1. \A q \in Id : NoHit(t[q].ok, K, d)
    BY <1>1, LoadNone DEF NoWait
  <2>2. S = {}
    BY <2>1 DEF NoHit
  <2> QED BY <1>1, <2>2, FS_EmptySet DEF Held
<1>2. CASE ~NoWait(t, Id, K, d)
  <2>1. OneWait(t, Id, K, d) /\ Held(t, Id, K, d) = 1
    BY <1>2 DEF Held
  <2>2. PICK q \in Id : Load(t[q].ok, K, d) = 1 /\ \A r \in Id \ {q} : Load(t[r].ok, K, d) = 0
    BY <2>1 DEF OneWait
  <2>3. \A r \in Id \ {q} : NoHit(t[r].ok, K, d)
    BY <2>2, LoadNone
  <2>4. OneHit(t[q].ok, K, d)
    BY <2>2 DEF Load
  <2>5. PICK i \in DOMAIN t[q].ok :
            Hit(t[q].ok[i], K, d) /\ \A j \in DOMAIN t[q].ok \ {i} : ~Hit(t[q].ok[j], K, d)
    BY <2>4 DEF OneHit
  <2>6. S = {<<q, i>>}
    BY <2>3, <2>5 DEF NoHit
  <2> QED BY <2>1, <2>6, FS_Singleton
<1> QED BY <1>1, <1>2

LEMMA ObligationImplies ==
  ASSUME NEW X \in SUBSET OwnSettled, ObligationInv(X)
  PROVE  OneObligation /\ SuspendedAwaitsResume
<1>1. /\ PromiseInv /\ Sound(promise) /\ Neat(promise) /\ Jobbed(micro, promise)
      /\ Framed(stack, promise) /\ Owing(X) /\ Awake
  BY InvSeqs DEF ObligationInv, Shape
<1>2. \A d \in Id : d # 0
  BY BoundsAssumption DEF Id
<1>3. ASSUME NEW d \in Id, promise[d].by # "agg"
      PROVE  Waiting(d) = UNION {{<<q, i>> : i \in {j \in DOMAIN promise[q].ok :
                                    Hit(promise[q].ok[j], Obliging, d)}} : q \in Id}
  <2>1. \A q \in Id : \A j \in DOMAIN promise[q].ok :
            Hit(promise[q].ok[j], Obliging, d) <=> promise[q].ok[j].p = d
    BY <1>1, <1>3 DEF Neat, WaitOK, Hit, Aim, Releasing, Obliging
  <2>2. \A q \in Id : {j \in DOMAIN promise[q].ok : Hit(promise[q].ok[j], Obliging, d)}
                        = {j \in DOMAIN promise[q].ok : promise[q].ok[j].p = d}
    BY <2>1
  <2> QED BY <2>2 DEF Waiting
<1>4. ASSUME NEW d \in Id, promise[d].by # "agg"
      PROVE  Queued(d) = {i \in DOMAIN micro : Hit(micro[i], Obliging, d)}
  BY <1>1, <1>2, <1>4 DEF Queued, Jobbed, JobOK, WaitOK, Hit, Aim, Releasing, Obliging
<1>5. ASSUME NEW d \in Id
      PROVE  InCall(d) = {i \in DOMAIN stack : Hit(stack[i], Obliging, d)}
  BY <1>1 DEF InCall, Framed, FrameOK, Hit, Aim, Obliging
<1>6. OneObligation
  <2> SUFFICES ASSUME NEW d \in Id, promise[d].by \in {"chain", "async"}
               PROVE  Cardinality(Waiting(d)) + Cardinality(Queued(d)) + Cardinality(InCall(d))
                        = IF promise[d].st = "pending" /\ d \notin dropped THEN 1 ELSE 0
    BY DEF OneObligation
  <2>1. Owed(promise, micro, stack, d) = IF promise[d].st = "pending" /\ d \notin dropped THEN 1 ELSE 0
    BY <1>1 DEF Owing, Settles, Open
  <2> DEFINE w == Held(promise, Id, Obliging, d)
             m == Load(micro, Obliging, d)
             s == Load(stack, Obliging, d)
  <2>2. w \in 0 .. 2 /\ m \in 0 .. 2 /\ s \in 0 .. 2
    BY WaitRange, LoadRange
  <2>3. w # 2 /\ m # 2 /\ s # 2 /\ w + m + s = IF promise[d].st = "pending" /\ d \notin dropped THEN 1 ELSE 0
    BY <2>1, <2>2 DEF Owed, Coming, Plus
  <2>4. Cardinality(Waiting(d)) = w
    BY <1>3, <2>3, WaitCardinality
  <2>5. Cardinality(Queued(d)) = m
    BY <1>4, <2>3, LoadCardinality
  <2>6. Cardinality(InCall(d)) = s
    BY <1>5, <2>3, LoadCardinality
  <2> QED BY <2>3, <2>4, <2>5, <2>6
<1>7. SuspendedAwaitsResume
  <2> SUFFICES ASSUME NEW d \in Id
               PROVE  co[d] = "suspended" <=>
                        \/ \E q \in Id : \E i \in DOMAIN promise[q].ok :
                               promise[q].ok[i].op = "resume" /\ promise[q].ok[i].p = d
                        \/ \E i \in Queued(d) : micro[i].op = "resume"
    BY DEF SuspendedAwaitsResume
  <2>1. co[d] = "suspended" <=> Resumes(promise, micro, d) # 0
    BY <1>1 DEF Awake
  <2>2. Resumes(promise, micro, d) = 0
          <=> NoWait(promise, Id, {"resume"}, d) /\ NoHit(micro, {"resume"}, d)
    <3>1. Held(promise, Id, {"resume"}, d) \in 0 .. 2 /\ Load(micro, {"resume"}, d) \in 0 .. 2
      BY WaitRange, LoadRange
    <3>2. Resumes(promise, micro, d) = 0
            <=> Held(promise, Id, {"resume"}, d) = 0 /\ Load(micro, {"resume"}, d) = 0
      BY <3>1 DEF Resumes, Coming, Plus
    <3> QED BY <3>2, WaitNone, LoadNone
  <2>3. NoWait(promise, Id, {"resume"}, d) <=> \A q \in Id : NoHit(promise[q].ok, {"resume"}, d)
    BY LoadNone DEF NoWait
  <2> QED BY <2>1, <2>2, <2>3 DEF NoHit, Hit, Aim, Queued
<1> QED BY <1>6, <1>7

LEMMA ObligationHolds == PromiseSpec => [](OneObligation /\ SuspendedAwaitsResume)
<1>1. PromiseInit => ObligationInv({})
  BY ObligationInit
<1>2. ObligationInv({}) /\ [PromiseNext]_promiseVars => ObligationInv({})'
  BY ObligationNext
<1>3. ObligationInv({}) => OneObligation /\ SuspendedAwaitsResume
  BY ObligationImplies
<1> QED BY <1>1, <1>2, <1>3, PTL DEF PromiseSpec

(* In every program, whatever it calls and however its code ends, what the *)
(* runtime settles by itself has exactly one thing that will settle it     *)
(* until it is settled, and none afterwards.                               *)
THEOREM NoWakeupLost == PromiseSpec => []OneObligation
BY ObligationHolds, PTL

(* ... and a coroutine is suspended exactly while its resumption waits or  *)
(* is queued.                                                              *)
THEOREM SuspendedUntilResumed == PromiseSpec => []SuspendedAwaitsResume
BY ObligationHolds, PTL

=============================================================================
