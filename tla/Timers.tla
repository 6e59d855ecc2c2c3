------------------------------ MODULE Timers ------------------------------
(***************************************************************************)
(* The macrotask queue of the tree-walking interpreter: MacrotaskQueue in  *)
(* crates/yps-interpreter/src/interpreter/event_loop.rs and the timer      *)
(* builtins that use it.                                                   *)
(*                                                                         *)
(* Scheduled tasks sit in a binary heap ordered by (deadline, seq).        *)
(* Cancelling only records the id: the entry stays in the heap and is      *)
(* skipped when it surfaces.  Callbacks nest: a callback that blocks in    *)
(* do_await lets the queue start the next task before it has returned, so  *)
(* the callbacks in progress form a stack, `running'.                      *)
(*                                                                         *)
(* The code that calls the queue is arbitrary: whenever script code has    *)
(* control it may schedule, cancel, or return.                             *)
(***************************************************************************)
EXTENDS Integers, Sequences

CONSTANTS
    Delay,      \* the delays programs ask for, in clock ticks
    Task,       \* what a timer runs; the queue never looks at it
    Once,       \* the period of a timer that is not an interval
    Horizon,    \* bound: the clock stops here
    MaxSeq,     \* bound: how many times anything is scheduled
    MaxNest     \* bound: callbacks in progress at once (see MAX_AWAIT_DEPTH)

(* What is asked of the constants: parse_delay_ms lets only natural        *)
(* numbers through.  EventLoop assumes it of the delays it is given.       *)
TimerBounds ==
    /\ Delay \subseteq Nat /\ Once \notin Nat
    /\ Horizon \in Nat /\ MaxSeq \in Nat /\ MaxNest \in Nat

VARIABLES
    heap,       \* the scheduled tasks, cancelled ones included
    cancelled,  \* ids passed to cancel, never forgotten
    nextId,     \* the next timer id
    nextSeq,    \* the next tie-breaker among equal deadlines
    now,        \* Instant::now()
    running,    \* the tasks whose callbacks have started and not returned
    last        \* history: the entry started most recently

timerVars == <<heap, cancelled, nextId, nextSeq, now, running, last>>

TimerId == 0 .. MaxSeq + 1

Entry == [deadline : Nat, seq : Nat, id : Nat, every : Delay \cup {Once}, task : Task]

(* The order of ScheduledTask: earliest deadline first, then scheduling order. *)
Before(a, b) ==
    \/ a.deadline < b.deadline
    \/ a.deadline = b.deadline /\ a.seq < b.seq

Live(e) == e.id \notin cancelled

IsLeast(e, S) == \A f \in S \ {e} : Before(e, f)

TimerInit ==
    /\ heap = {}
    /\ cancelled = {}
    /\ nextId = 1
    /\ nextSeq = 0
    /\ now = 0
    /\ running = << >>
    /\ last = [deadline |-> 0, seq |-> -1]

(***************************************************************************)
(* The operations of the queue.                                            *)
(***************************************************************************)

(* schedule_with_id: pushes an entry for an id that is already allocated.  *)
Push(id, delay, every, task) ==
    /\ nextSeq < MaxSeq
    /\ now + delay <= Horizon
    /\ heap' = heap \cup {[deadline |-> now + delay, seq |-> nextSeq, id |-> id,
                           every |-> every, task |-> task]}
    /\ nextSeq' = nextSeq + 1

(* schedule, and allocate_id followed by schedule_with_id: both draw the   *)
(* next id and push.                                                       *)
Schedule(delay, every, task) ==
    /\ Push(nextId, delay, every, task)
    /\ nextId' = nextId + 1

(* cancel: any number a program passes, whether or not it names a timer.   *)
Cancel(id) == cancelled' = cancelled \cup {id}

(* is_empty: nothing but cancelled entries is left.                        *)
Quiet == \A e \in heap : ~Live(e)

(* next_deadline walks the heap's array, not its order: the first element  *)
(* is the least one, but past a cancelled least element any live entry may *)
(* come first in the array.                                                *)
WakeAt ==
    {e.deadline : e \in {e \in heap : /\ Live(e)
                                     /\ \/ IsLeast(e, heap)
                                        \/ \E c \in heap : ~Live(c) /\ IsLeast(c, heap)}}

PopFirstInArray(due) ==                 \* the entry slept on instead of the least
    /\ Live(due)
    /\ due.deadline \in WakeAt
    /\ now' = IF due.deadline > now THEN due.deadline ELSE now
    /\ heap' = heap \ {due}
    /\ last' = [deadline |-> due.deadline, seq |-> due.seq]

(* pop_next_blocking: sleep until the chosen deadline, drop the cancelled  *)
(* entries that surface (pop_ready), and hand out the least live one, due. *)
PopNext(due) ==
    /\ Live(due)
    /\ IsLeast(due, {e \in heap : Live(e)})
    /\ \E wake \in WakeAt : now' = IF wake > now THEN wake ELSE now
    /\ due.deadline <= now'
    /\ heap' = {e \in heap : Before(due, e)}
    /\ last' = [deadline |-> due.deadline, seq |-> due.seq]

(***************************************************************************)
(* The script around the queue.                                            *)
(***************************************************************************)

Top == running[Len(running)]
Below == SubSeq(running, 1, Len(running) - 1)

(* чутка (every = Once) and интервал (every = delay).                      *)
SetTimer ==
    \E delay \in Delay, task \in Task :
        /\ \E every \in {Once, delay} : Schedule(delay, every, task)
        /\ UNCHANGED <<cancelled, now, running, last>>

(* отменаЧутки, отменаИнтервала, and a signal cancelling its timer.        *)
ClearTimer ==
    \E id \in TimerId :
        /\ Cancel(id)
        /\ UNCHANGED <<heap, nextId, nextSeq, now, running, last>>

(* The event loop, or a blocking await inside a callback, starts the next  *)
(* task.                                                                   *)
Start ==
    /\ Len(running) < MaxNest
    /\ \E due \in heap :
        /\ PopNext(due)
        /\ running' = Append(running, due)
    /\ UNCHANGED <<cancelled, nextId, nextSeq>>

(* A one-shot callback returns or fails; either way nothing follows.       *)
FinishOnce ==
    /\ running # << >> /\ Top.every = Once
    /\ running' = Below
    /\ UNCHANGED <<heap, cancelled, nextId, nextSeq, now, last>>

RearmAlways(e) == Push(e.id, e.every, e.every, e.task)  \* a tick that ignores its cancellation

(* schedule_interval_tick: after the callback, re-arm under the same id    *)
(* unless it was cancelled meanwhile.                                      *)
Rearm(e) ==
    IF Live(e) THEN Push(e.id, e.every, e.every, e.task)
               ELSE UNCHANGED <<heap, nextSeq>>

FinishTick ==
    /\ running # << >> /\ Top.every # Once
    /\ Rearm(Top)
    /\ running' = Below
    /\ UNCHANGED <<cancelled, nextId, now, last>>

(* Time passes while callbacks run.                                        *)
Tick ==
    /\ now < Horizon
    /\ now' = now + 1
    /\ UNCHANGED <<heap, cancelled, nextId, nextSeq, running, last>>

TimerNext == SetTimer \/ ClearTimer \/ Start \/ FinishOnce \/ FinishTick \/ Tick

TimerSpec == TimerInit /\ [][TimerNext]_timerVars

(***************************************************************************)
(* Properties.                                                             *)
(***************************************************************************)

TimerTypeOK ==
    /\ heap \subseteq Entry
    /\ cancelled \subseteq Nat
    /\ nextId \in Nat /\ nextSeq \in Nat /\ now \in Nat
    /\ running \in Seq(Entry)
    /\ last \in [deadline : Nat, seq : Int]

(* Tasks start in the order of (deadline, seq), across callbacks that      *)
(* schedule more tasks, oversleeping, and nested waits: whatever is still  *)
(* queued comes after the task started last.                               *)
FireOrder == \A e \in heap : Before(last, e)

(* No timer has two pending ticks, and none is queued while its own        *)
(* callback is in progress: an interval re-arms only after its callback.   *)
OneTick ==
    /\ \A e, f \in heap : e.id = f.id => e = f
    /\ \A i \in DOMAIN running : \A e \in heap : e.id # running[i].id
    /\ \A i, j \in DOMAIN running : running[i].id = running[j].id => i = j

(* Cancelling sticks: from then on the timer neither starts nor re-arms,   *)
(* even when its own callback cancels it or it is the entry being slept on.*)
CancelSticks ==
    [][/\ \A i \in DOMAIN running' \ DOMAIN running : running'[i].id \notin cancelled
       /\ \A e \in heap' \ heap : e.id < nextId => e.id \notin cancelled]_timerVars

(* Where the bounds keep a live interval from re-arming.                   *)
Stuck ==
    /\ running # << >> /\ Top.every # Once /\ Live(Top)
    /\ nextSeq = MaxSeq \/ now + Top.every > Horizon
=============================================================================
