--------------------------- MODULE Timers_proofs ---------------------------
(***************************************************************************)
(* What holds of the macrotask queue for every set of delays and tasks and *)
(* every bound.                                                            *)
(***************************************************************************)
EXTENDS Timers, SequenceTheorems, TLAPS

(* What the inductive step needs beyond the properties: ids and sequence   *)
(* numbers in use are below the counters they are drawn from, and the      *)
(* clock has reached the deadline of the entry started last.               *)
Issued ==
    /\ \A e \in heap : e.id < nextId /\ e.seq < nextSeq
    /\ \A i \in DOMAIN running : running[i].id < nextId
    /\ last.seq < nextSeq
    /\ last.deadline <= now

TimerInv == TimerTypeOK /\ Issued /\ FireOrder /\ OneTick

(* The empty queue satisfies the invariant.                                *)
LEMMA TimerInitInv == TimerInit => TimerInv
BY DEF TimerInit, TimerInv, TimerTypeOK, Issued, FireOrder, OneTick, Entry

(* The ids on the stack of callbacks are below the next id.                *)
LEMMA IssuedRunning ==
  ASSUME TimerTypeOK, Issued, NEW i \in DOMAIN running
  PROVE  running[i].id < nextId /\ running[i].id < nextId + 1 /\ running[i].id # nextId
<1>1. running[i] \in Entry
  BY DEF TimerTypeOK
<1> QED BY <1>1 DEF TimerTypeOK, Issued, Entry

(* Scheduling a fresh id preserves the invariant.                          *)
LEMMA SetTimerInv == ASSUME TimerBounds, TimerInv, SetTimer PROVE TimerInv'
<1>1. PICK delay \in Delay, task \in Task, every \in Delay \cup {Once} :
        /\ Schedule(delay, every, task)
        /\ UNCHANGED <<cancelled, now, running, last>>
  BY DEF SetTimer
<1> DEFINE new == [deadline |-> now + delay, seq |-> nextSeq, id |-> nextId,
                   every |-> every, task |-> task]
<1>2. /\ new \in Entry
      /\ new.id = nextId /\ new.seq = nextSeq /\ new.deadline = now + delay
  BY DEF TimerBounds, Entry, TimerInv, TimerTypeOK
<1>3. heap' = heap \cup {new} /\ nextSeq' = nextSeq + 1 /\ nextId' = nextId + 1
  BY <1>1 DEF Schedule, Push
<1> HIDE DEF new
<1>4. TimerTypeOK'
  BY <1>1, <1>2, <1>3 DEF TimerInv, TimerTypeOK
<1>5. Issued'
  <2>1. \A i \in DOMAIN running : running[i].id < nextId + 1
    BY IssuedRunning DEF TimerInv
  <2>2. last.seq < nextSeq + 1
    BY DEF TimerInv, TimerTypeOK, Issued
  <2> QED BY <1>1, <1>2, <1>3, <2>1, <2>2 DEF TimerInv, TimerTypeOK, Issued, Entry
<1>6. FireOrder'
  <2>1. Before(last, new)
    BY <1>2 DEF TimerBounds, TimerInv, TimerTypeOK, Issued, Before
  <2> QED BY <1>1, <1>3, <2>1 DEF TimerInv, FireOrder
<1>7. OneTick'
  <2>1. \A e \in heap : e.id # nextId
    BY DEF TimerInv, TimerTypeOK, Issued, Entry
  <2>2. \A i \in DOMAIN running : running[i].id # nextId
    BY IssuedRunning DEF TimerInv
  <2> QED BY <1>1, <1>2, <1>3, <2>1, <2>2 DEF TimerInv, OneTick
<1> QED BY <1>4, <1>5, <1>6, <1>7 DEF TimerInv

(* Starting the least live entry preserves the invariant.                  *)
LEMMA StartInv == ASSUME TimerInv, Start PROVE TimerInv'
<1>1. PICK due \in heap : PopNext(due) /\ running' = Append(running, due)
  BY DEF Start
<1>2. /\ heap' = {e \in heap : Before(due, e)}
      /\ last' = [deadline |-> due.deadline, seq |-> due.seq]
      /\ due.deadline <= now'
      /\ UNCHANGED <<cancelled, nextId, nextSeq>>
  BY <1>1 DEF PopNext, Start
<1>3. due \in Entry
  BY <1>1 DEF TimerInv, TimerTypeOK
<1>4. now' \in Nat
  BY <1>1 DEF PopNext, WakeAt, TimerInv, TimerTypeOK, Entry
<1>5. TimerTypeOK'
  BY <1>1, <1>2, <1>3, <1>4 DEF TimerInv, TimerTypeOK, Entry
<1>6. Issued'
  <2>1. \A i \in DOMAIN running' :
           \/ running'[i] = due
           \/ i \in DOMAIN running /\ running'[i] = running[i]
    BY <1>1, <1>3 DEF TimerInv, TimerTypeOK
  <2>2. due.id < nextId /\ \A i \in DOMAIN running : running[i].id < nextId
    BY DEF TimerInv, Issued
  <2>3. \A i \in DOMAIN running' : running'[i].id < nextId
    BY <2>1, <2>2
  <2> QED BY <1>1, <1>2, <1>3, <2>3 DEF TimerInv, TimerTypeOK, Issued, Entry
<1>7. FireOrder'
  BY <1>2, <1>3 DEF FireOrder, Before, Entry
<1>8. OneTick'
  <2>1. ~Before(due, due)
    BY <1>3 DEF Before, Entry
  <2>2. \A e \in heap' : e \in heap /\ e.id # due.id
    BY <1>2, <2>1 DEF TimerInv, OneTick
  <2>3. \A i \in DOMAIN running : running[i].id # due.id
    BY DEF TimerInv, OneTick
  <2>4. DOMAIN running' = 1 .. Len(running) + 1 /\ DOMAIN running = 1 .. Len(running)
    BY <1>1 DEF TimerInv, TimerTypeOK
  <2>5. \A i \in DOMAIN running' :
           running'[i] = IF i = Len(running) + 1 THEN due ELSE running[i]
    BY <1>1 DEF TimerInv, TimerTypeOK
  <2> QED BY <2>2, <2>3, <2>4, <2>5 DEF TimerInv, TimerTypeOK, OneTick
<1> QED BY <1>5, <1>6, <1>7, <1>8 DEF TimerInv

(* Taking the top off the stack of callbacks leaves the rest as it was.    *)
LEMMA BelowFact ==
  ASSUME running \in Seq(Entry), running # << >>
  PROVE  /\ Below \in Seq(Entry)
         /\ DOMAIN Below = 1 .. Len(running) - 1
         /\ DOMAIN running = 1 .. Len(running)
         /\ \A i \in DOMAIN Below : Below[i] = running[i]
         /\ Len(running) \in DOMAIN running /\ Top \in Entry
BY DEF Below, Top

(* Returning from a callback, with an interval re-armed or not.            *)
LEMMA FinishInv == ASSUME TimerBounds, TimerInv, FinishOnce \/ FinishTick PROVE TimerInv'
<1>1. /\ running # << >> /\ running' = Below
      /\ UNCHANGED <<cancelled, nextId, now, last>>
  BY DEF FinishOnce, FinishTick
<1>2. /\ Below \in Seq(Entry)
      /\ DOMAIN Below = 1 .. Len(running) - 1
      /\ DOMAIN running = 1 .. Len(running)
      /\ \A i \in DOMAIN Below : Below[i] = running[i]
      /\ Len(running) \in DOMAIN running /\ Top \in Entry
  BY <1>1, BelowFact DEF TimerInv, TimerTypeOK
<1>3. Len(running) \notin DOMAIN Below
  BY <1>1, <1>2 DEF TimerInv, TimerTypeOK
<1>4. CASE UNCHANGED <<heap, nextSeq>>
  <2>1. TimerTypeOK'
    BY <1>1, <1>2, <1>4 DEF TimerInv, TimerTypeOK
  <2>2. Issued'
    BY <1>1, <1>2, <1>4 DEF TimerInv, Issued
  <2>3. FireOrder'
    BY <1>1, <1>4 DEF TimerInv, FireOrder
  <2>4. OneTick'
    BY <1>1, <1>2, <1>4 DEF TimerInv, OneTick
  <2> QED BY <2>1, <2>2, <2>3, <2>4 DEF TimerInv
<1>5. CASE Push(Top.id, Top.every, Top.every, Top.task) /\ Top.every # Once
  <2> DEFINE new == [deadline |-> now + Top.every, seq |-> nextSeq, id |-> Top.id,
                     every |-> Top.every, task |-> Top.task]
  <2>1. heap' = heap \cup {new} /\ nextSeq' = nextSeq + 1
    BY <1>5 DEF Push
  <2>2. Top.every \in Delay /\ Top.every \in Nat
    BY <1>2, <1>5 DEF TimerBounds, Entry
  <2>3. new \in Entry
    BY <1>2, <2>2 DEF Entry, TimerInv, TimerTypeOK
  <2>4. Top = running[Len(running)]
    BY DEF Top
  <2>5. Top.id < nextId
    BY <1>2, <2>4 DEF TimerInv, Issued
  <2>6. TimerTypeOK'
    BY <1>1, <1>2, <2>1, <2>3 DEF TimerInv, TimerTypeOK
  <2>7. Issued'
    <3>1. \A e \in heap' : e.id < nextId /\ e.seq < nextSeq + 1
      BY <2>1, <2>5 DEF TimerInv, TimerTypeOK, Issued, Entry
    <3>2. \A i \in DOMAIN Below : Below[i].id < nextId
      BY <1>2 DEF TimerInv, Issued
    <3>3. last.seq < nextSeq + 1
      BY DEF TimerInv, TimerTypeOK, Issued
    <3> QED BY <1>1, <2>1, <3>1, <3>2, <3>3 DEF TimerInv, Issued
  <2>8. FireOrder'
    BY <1>1, <2>1, <2>2, <2>3 DEF TimerInv, TimerTypeOK, Issued, FireOrder, Before, Entry
  <2>9. OneTick'
    <3>1. \A e \in heap : e.id # Top.id
      BY <1>2, <2>4 DEF TimerInv, OneTick
    <3>2. \A i \in DOMAIN Below : Below[i].id # Top.id
      BY <1>2, <1>3, <2>4 DEF TimerInv, OneTick
    <3> QED BY <1>1, <1>2, <2>1, <3>1, <3>2 DEF TimerInv, OneTick
  <2> QED BY <2>6, <2>7, <2>8, <2>9 DEF TimerInv
<1> QED BY <1>4, <1>5 DEF FinishOnce, FinishTick, Rearm

(* Every step preserves the invariant.                                     *)
LEMMA TimerStepInv == TimerBounds /\ TimerInv /\ [TimerNext]_timerVars => TimerInv'
<1> SUFFICES ASSUME TimerBounds, TimerInv, [TimerNext]_timerVars PROVE TimerInv'
  OBVIOUS
<1>1. CASE SetTimer BY <1>1, SetTimerInv
<1>2. CASE ClearTimer
  BY <1>2 DEF ClearTimer, Cancel, TimerId, TimerBounds, TimerInv, TimerTypeOK, Issued,
     FireOrder, OneTick
<1>3. CASE Start BY <1>3, StartInv
<1>4. CASE FinishOnce \/ FinishTick BY <1>4, FinishInv
<1>5. CASE Tick
  BY <1>5 DEF Tick, TimerInv, TimerTypeOK, Issued, FireOrder, OneTick
<1>6. CASE UNCHANGED timerVars
  BY <1>6 DEF timerVars, TimerInv, TimerTypeOK, Issued, FireOrder, OneTick
<1> QED BY <1>1, <1>2, <1>3, <1>4, <1>5, <1>6 DEF TimerNext

(* The type invariant, the starting order and the uniqueness of pending    *)
(* ticks hold in every reachable state.                                    *)
THEOREM TimersCorrect == TimerBounds => (TimerSpec => [](TimerTypeOK /\ FireOrder /\ OneTick))
<1> SUFFICES ASSUME TimerBounds PROVE TimerSpec => [](TimerTypeOK /\ FireOrder /\ OneTick)
  OBVIOUS
<1>1. TimerInv => TimerTypeOK /\ FireOrder /\ OneTick
  BY DEF TimerInv
<1>2. TimerInv /\ [TimerNext]_timerVars => TimerInv'
  BY TimerStepInv
<1> QED BY <1>1, <1>2, TimerInitInv, PTL DEF TimerSpec

(* What CancelSticks says of a step.                                       *)
Sticks ==
    /\ \A i \in DOMAIN running' \ DOMAIN running : running'[i].id \notin cancelled
    /\ \A e \in heap' \ heap : e.id < nextId => e.id \notin cancelled

(* Neither popping nor re-arming brings back what was cancelled, and a new *)
(* timer has an id of its own.                                             *)
LEMMA StepSticks == TimerBounds /\ TimerInv /\ [TimerNext]_timerVars => [Sticks]_timerVars
<1> SUFFICES ASSUME TimerInv, TimerNext PROVE Sticks
  OBVIOUS
<1>1. CASE SetTimer
  BY <1>1 DEF SetTimer, Schedule, Push, TimerInv, TimerTypeOK, Sticks
<1>2. CASE Start
  BY <1>2 DEF Start, PopNext, Live, TimerInv, TimerTypeOK, Sticks
<1>3. CASE FinishOnce
  BY <1>3, BelowFact DEF FinishOnce, TimerInv, TimerTypeOK, Sticks
<1>4. CASE FinishTick
  BY <1>4, BelowFact DEF FinishTick, Rearm, Push, Live, TimerInv, TimerTypeOK, Sticks
<1>5. CASE ClearTimer \/ Tick
  BY <1>5 DEF ClearTimer, Tick, Sticks
<1> QED BY <1>1, <1>2, <1>3, <1>4, <1>5 DEF TimerNext

(* A cancelled timer neither starts nor re-arms.                           *)
THEOREM CancelIsFinal == TimerBounds => (TimerSpec => CancelSticks)
<1> SUFFICES ASSUME TimerBounds PROVE TimerSpec => CancelSticks
  OBVIOUS
<1>1. TimerInv /\ [TimerNext]_timerVars => TimerInv'
  BY TimerStepInv
<1>2. TimerInv /\ [TimerNext]_timerVars => [Sticks]_timerVars
  BY StepSticks
<1> QED BY <1>1, <1>2, TimerInitInv, PTL DEF TimerSpec, CancelSticks, Sticks
=============================================================================
