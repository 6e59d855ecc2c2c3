---------------------------- MODULE Aggregates ----------------------------
(***************************************************************************)
(* Promise combinators: всех, всехУстаканить, любой and гонка              *)
(* (run_aggregate, attach_aggregate and apply_aggregate of                 *)
(* stdlib/promise.rs), over the promises and the queue of PromiseJobs.     *)
(*                                                                         *)
(* An aggregate is named by the promise it returns.  Its handler for item  *)
(* i is a callback "agg" with that promise as p and i as arg.              *)
(***************************************************************************)
EXTENDS PromiseJobs

CONSTANTS
    MaxItems,       \* bound: items given to one combinator
    ResultArray,    \* an array of results
    ManyErrors      \* the error of любой when everything was rejected

ASSUME ArrayAssumption == {ResultArray, ManyErrors} \subseteq Plain

VARIABLE agg        \* the AggregateState of each aggregate, by promise

aggVars == <<promiseVars, agg>>

Kind == {"all", "allSettled", "any", "race"}

(* results[i] tells how item i ended, "none" until its handler ran; items  *)
(* are the values the combinator was given (history).                      *)
Unused == [kind |-> "none", remaining |-> 0, results |-> << >>, settled |-> FALSE, items |-> << >>]

AggInit == PromiseInit /\ agg = [p \in Id |-> Unused]

(***************************************************************************)
(* Starting an aggregate.                                                  *)
(***************************************************************************)

Handler(d, side, i) == Callback("agg", d, side, i)

(* attach_aggregate, for item i of items: what it leaves of the table and  *)
(* the queue.                                                              *)
Attach(tq, d, items, i) ==
    LET ok == Handler(d, "ok", i)
        err == Handler(d, "err", i)
        v == items[i]
    IN  IF v \in Id
        THEN [table |-> Registered(tq.table, v, ok, err),
              queue |-> tq.queue \o RegisteredJobs(tq.table, v, ok, err)]
        ELSE [tq EXCEPT !.queue = Append(@, Given(ok, v))]

AttachAll(t, d, items) ==
    LET tq[i \in 0 .. Len(items)] ==
            IF i = 0 THEN [table |-> t, queue |-> micro] ELSE Attach(tq[i - 1], d, items, i)
    IN  tq[Len(items)]

(* With no items the outcome is queued at once, and the promise is settled *)
(* by that microtask as a derived one is; гонка refuses that.              *)
AggregateEmpty(d, kind) ==
    /\ kind # "race"
    /\ micro' = Append(micro, IF kind = "any" THEN Given(Callback("cap", d, "err", 0), ManyErrors)
                                              ELSE Given(Callback("cap", d, "ok", 0), ResultArray))
    /\ promise' = [promise EXCEPT ![d] = Pending("chain")]
    /\ agg' = [agg EXCEPT ![d] = [Unused EXCEPT !.kind = kind]]

AggregateItems(d, kind, items) ==
    LET tq == AttachAll([promise EXCEPT ![d] = Pending("agg")], d, items)
    IN  /\ promise' = tq.table
        /\ micro' = tq.queue
        /\ agg' = [agg EXCEPT ![d] =
               [kind |-> kind, remaining |-> Len(items), settled |-> FALSE, items |-> items,
                results |-> [i \in DOMAIN items |-> "none"]]]

(* run_aggregate.                                                          *)
Aggregate ==
    \E d \in Id, kind \in Kind, n \in 0 .. MaxItems :
        /\ Calls(kind)
        /\ Fresh(d)
        /\ \/ n = 0 /\ AggregateEmpty(d, kind)
           \/ n > 0 /\ \E items \in [1 .. n -> Passable] : AggregateItems(d, kind, items)
        /\ UNCHANGED <<stack, co, dropped>>

(***************************************************************************)
(* One item's handler.                                                     *)
(***************************************************************************)

(* Does this outcome of one item decide the whole?                         *)
Decisive(kind, side) ==
    \/ kind = "race"
    \/ kind = "all" /\ side = "err"
    \/ kind = "any" /\ side = "ok"

AllSideOk(kind) == "ok"                     \* любой fulfilled by rejections alone

(* The aggregate's outcome once every item has counted.                    *)
AllSide(kind) == IF kind = "any" THEN "err" ELSE "ok"
AllValue(kind) == IF kind = "any" THEN ManyErrors ELSE ResultArray

Ignore ==
    /\ agg[Job.p].settled
    /\ UNCHANGED <<promise, stack, loop, dropped, agg>>
    /\ micro' = Tail(micro)

DecideUnmarked ==                           \* the aggregate does not remember that it settled
    /\ ~agg[Job.p].settled /\ Decisive(agg[Job.p].kind, Job.side)
    /\ UNCHANGED agg
    /\ SettleAndReturn(Tail(micro), stack, Job.p, Job.side, Job.val)

Decide ==
    /\ ~agg[Job.p].settled /\ Decisive(agg[Job.p].kind, Job.side)
    /\ agg' = [agg EXCEPT ![Job.p].settled = TRUE]
    /\ SettleAndReturn(Tail(micro), stack, Job.p, Job.side, Job.val)

CountLate ==                                \* compared before the decrement
    LET d == Job.p
        a == agg[d]
    IN  /\ ~a.settled /\ ~Decisive(a.kind, Job.side)
        /\ agg' = [agg EXCEPT ![d] = [a EXCEPT !.results[Job.arg] = Job.side,
                                               !.remaining = a.remaining - 1,
                                               !.settled = a.remaining = 0]]
        /\ IF a.remaining = 0
           THEN SettleAndReturn(Tail(micro), stack, d, AllSide(a.kind), AllValue(a.kind))
           ELSE micro' = Tail(micro) /\ UNCHANGED <<promise, stack, loop, dropped>>

Count ==
    LET d == Job.p
        a == agg[d]
    IN  /\ ~a.settled /\ ~Decisive(a.kind, Job.side)
        /\ agg' = [agg EXCEPT ![d] = [a EXCEPT !.results[Job.arg] = Job.side,
                                               !.remaining = a.remaining - 1,
                                               !.settled = a.remaining = 1]]
        /\ IF a.remaining = 1
           THEN SettleAndReturn(Tail(micro), stack, d, AllSide(a.kind), AllValue(a.kind))
           ELSE micro' = Tail(micro) /\ UNCHANGED <<promise, stack, loop, dropped>>

(* apply_aggregate, called from the queue.                                 *)
RunAggregate ==
    /\ Draining /\ micro # << >>
    /\ Job.op = "agg"
    /\ Ignore \/ Decide \/ Count
    /\ UNCHANGED <<co, calls>>

AggNext == Aggregate \/ RunAggregate \/ (PromiseNext /\ UNCHANGED agg)

AggSpec == AggInit /\ [][AggNext]_aggVars

AggFairness ==
    /\ WF_aggVars(Return /\ UNCHANGED agg)
    /\ WF_aggVars(RunAggregate \/ ((RunJob \/ AwaitReturns \/ AwaitStarves \/ LoopEnds) /\ UNCHANGED agg))

FairAggSpec == AggSpec /\ AggFairness

(***************************************************************************)
(* Properties.                                                             *)
(***************************************************************************)

Items(d) == DOMAIN agg[d].items

(* Handlers for item i of d that wait with a promise, and in the queue.     *)
WaitingFor(d, i) ==
    UNION {{<<q, j>> : j \in {k \in DOMAIN promise[q].ok :
                                 promise[q].ok[k].op = "agg" /\ promise[q].ok[k].p = d
                                 /\ promise[q].ok[k].arg = i}} : q \in Id}
QueuedFor(d, i) ==
    {<<0, j>> : j \in {k \in DOMAIN micro : micro[k].op = "agg" /\ micro[k].p = d /\ micro[k].arg = i}}
Handlers(d, i) == WaitingFor(d, i) \cup QueuedFor(d, i)

(* Until the aggregate settles, every item either has exactly one handler  *)
(* on its way or has been counted, and `remaining' is the number of the    *)
(* former, so that it reaches zero exactly when the last item counts.      *)
ItemsAccounted ==
    \A d \in Id :
        (agg[d].kind # "none" /\ ~agg[d].settled) =>
            /\ \A i \in Items(d) :
                   Cardinality(Handlers(d, i)) = IF agg[d].results[i] = "none" THEN 1 ELSE 0
            /\ agg[d].remaining = Cardinality({i \in Items(d) : agg[d].results[i] = "none"})
            /\ Items(d) # {} => agg[d].remaining > 0 /\ promise[d].st = "pending"

(* How an item shows in the outcome.                                       *)
ItemIs(v, st, val) == IF v \in Id THEN promise[v].st = st /\ promise[v].val = val
                                  ELSE st = "fulfilled" /\ v = val
ItemHas(v, st) == \E val \in Value : ItemIs(v, st, val)

(* What each combinator promises (the documentation of всех,               *)
(* всехУстаканить, любой and гонка): its outcome is the one its items      *)
(* justify, with a complete array of results.                              *)
AllMeans(d) ==
    /\ promise[d].st = "fulfilled" => \A i \in Items(d) : ItemHas(agg[d].items[i], "fulfilled")
    /\ promise[d].st = "rejected" => \E i \in Items(d) : ItemIs(agg[d].items[i], "rejected", promise[d].val)
AllSettledMeans(d) ==
    /\ promise[d].st # "rejected"
    /\ promise[d].st = "fulfilled" =>
           \A i \in Items(d) :
               ItemHas(agg[d].items[i], IF agg[d].results[i] = "ok" THEN "fulfilled" ELSE "rejected")
AnyMeans(d) ==
    /\ promise[d].st = "fulfilled" => \E i \in Items(d) : ItemIs(agg[d].items[i], "fulfilled", promise[d].val)
    /\ promise[d].st = "rejected" => \A i \in Items(d) : ItemHas(agg[d].items[i], "rejected")
RaceMeans(d) ==
    promise[d].st \in {"fulfilled", "rejected"} =>
        \E i \in Items(d) : ItemIs(agg[d].items[i], promise[d].st, promise[d].val)

OutcomeJustified ==
    \A d \in Id :
        /\ agg[d].kind = "all" => AllMeans(d)
        /\ agg[d].kind = "allSettled" => AllSettledMeans(d)
        /\ agg[d].kind = "any" => AnyMeans(d)
        /\ agg[d].kind = "race" => RaceMeans(d)

(* Once every item has settled, so does the aggregate, unless the program  *)
(* fails first, or returns at its top level and leaves its queue.          *)
AggregateSettles ==
    \A d \in Id :
        (agg[d].kind # "none" /\ \A i \in Items(d) : \E st \in {"fulfilled", "rejected"} : ItemHas(agg[d].items[i], st))
            ~> (promise[d].st # "pending" \/ CutShort)
=============================================================================
