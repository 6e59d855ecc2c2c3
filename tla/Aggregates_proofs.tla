------------------------- MODULE Aggregates_proofs -------------------------
(***************************************************************************)
(* What holds of the promise combinators for every program, with any       *)
(* number of promises, aggregates and items: the handlers of an aggregate  *)
(* are accounted for until it settles, its outcome is the one its items    *)
(* justify, and what PromiseJobs_proofs shows of promises, wakeups and the *)
(* contract of the table still holds when programs use combinators.        *)
(***************************************************************************)
EXTENDS Aggregates, PromiseJobs_proofs, WellFoundedInduction

(***************************************************************************)
(* The inductive invariant, of a table t, a queue m and the aggregates g,  *)
(* which is ObligationInv, with aggregates settled by themselves, and what *)
(* follows.                                                                *)
(***************************************************************************)

(* How item v has ended.                                                   *)
EndedAs(t, v, st, val) == IF v \in Id THEN t[v].st = st /\ t[v].val = val
                                      ELSE st = "fulfilled" /\ val = v
EndedBy(t, v, st) == \E val \in Value : EndedAs(t, v, st, val)
StOf(side) == IF side = "ok" THEN "fulfilled" ELSE "rejected"

(* A handler waits with its item, and is queued with what the item came    *)
(* to.                                                                     *)
ItemOf(g, a) == a.p \in Id /\ g[a.p].kind # "none" /\ a.arg \in DOMAIN g[a.p].items
WaitOf(g, a, q) == a.op = "agg" => ItemOf(g, a) /\ g[a.p].items[a.arg] = q
CameTo(t, g, a) ==
    a.op = "agg" => ItemOf(g, a) /\ EndedAs(t, g[a.p].items[a.arg], StOf(a.side), a.val)
WaitsWell(t, g) == \A q \in Id : \A k \in DOMAIN t[q].ok : WaitOf(g, t[q].ok[k], q)
QueuedWell(t, m, g) == \A k \in DOMAIN m : CameTo(t, g, m[k])

(* How many handlers for item i of d wait or are queued, up to two.        *)
OnWay(t, m, d, i) == Coming(t, m, {"agg"}, <<d, i>>)

(* An aggregate that has not decided: its promise is pending, the items    *)
(* not counted have one handler each and the others none, and nothing      *)
(* counted so far decides it.                                              *)
Active(g, d) == g[d].kind # "none" /\ ~g[d].settled /\ g[d].items # << >>
Counted(t, a, i) ==
    LET r == a.results[i]
    IN  /\ r # "none" => EndedBy(t, a.items[i], StOf(r)) /\ a.kind # "race"
        /\ a.kind = "all" => r # "err"
        /\ a.kind = "any" => r # "ok"
Left(a) == {i \in DOMAIN a.items : a.results[i] = "none"}
Undecided(t, m, g, d) ==
    /\ t[d].st = "pending"
    /\ \A i \in DOMAIN g[d].items :
          /\ OnWay(t, m, d, i) = IF g[d].results[i] = "none" THEN 1 ELSE 0
          /\ Counted(t, g[d], i)
    /\ g[d].remaining = Cardinality(Left(g[d])) /\ g[d].remaining > 0

(* The outcome of r, the promise of aggregate a, is the one its items      *)
(* justify.                                                                *)
AllEnded(t, a) == \A i \in DOMAIN a.items : EndedBy(t, a.items[i], "fulfilled")
NoneEnded(t, a) == \A i \in DOMAIN a.items : EndedBy(t, a.items[i], "rejected")
AllCounted(t, a) == \A i \in DOMAIN a.items :
    EndedBy(t, a.items[i], IF a.results[i] = "ok" THEN "fulfilled" ELSE "rejected")
SomeEnded(t, a, st, val) == \E i \in DOMAIN a.items : EndedAs(t, a.items[i], st, val)
Justified(t, a, r) ==
    /\ r.st = "fulfilled" =>
          /\ a.kind = "all" => AllEnded(t, a)
          /\ a.kind = "allSettled" => AllCounted(t, a)
          /\ a.kind \in {"any", "race"} => SomeEnded(t, a, "fulfilled", r.val)
    /\ r.st = "rejected" =>
          /\ a.kind \in {"all", "race"} => SomeEnded(t, a, "rejected", r.val)
          /\ a.kind # "allSettled"
          /\ a.kind = "any" => NoneEnded(t, a)

(* An aggregate of nothing is settled by its microtask.                    *)
Holds(s, a) == \E k \in DOMAIN s : s[k] = a
EmptyJob(d, kind) == Given(Callback("cap", d, AllSide(kind), 0), AllValue(kind))
Empty(g, d) == g[d].kind # "none" /\ g[d].items = << >>
Vacuous(t, m, g, d) ==
    /\ t[d].by = "chain" /\ g[d].kind # "race" /\ ~g[d].settled /\ g[d].remaining = 0
    /\ t[d].st = "pending" => Holds(m, EmptyJob(d, g[d].kind))

AggRec == [kind : Kind \cup {"none"}, remaining : Nat, results : Seq({"none", "ok", "err"}),
           settled : BOOLEAN, items : Seq(Value)]
Sized(t, g, d) ==
    /\ DOMAIN g[d].results = DOMAIN g[d].items
    /\ g[d].kind # "none" => t[d].st # "unborn"
    /\ g[d].kind # "none" /\ g[d].items # << >> => t[d].by = "agg"

Accounted(t, m, g, d) ==
    /\ Sized(t, g, d)
    /\ Active(g, d) => Undecided(t, m, g, d)
    /\ g[d].kind # "none" => Justified(t, g[d], t[d])
    /\ Empty(g, d) => Vacuous(t, m, g, d)

Kept(t, m, g) ==
    /\ g \in [Id -> AggRec]
    /\ WaitsWell(t, g) /\ QueuedWell(t, m, g)
    /\ \A d \in Id : Accounted(t, m, g, d)

AggInv == ObligationInv({"agg"}) /\ Kept(promise, micro, agg)

(***************************************************************************)
(* What is in a list.                                                      *)
(***************************************************************************)

LEMMA ConcatHolds ==
  ASSUME NEW s \in Seq(Act), NEW u \in Seq(Act), NEW b
  PROVE  Holds(s \o u, b) <=> Holds(s, b) \/ Holds(u, b)
<1> DEFINE w == s \o u
           m == Len(s)
           n == Len(u)
<1>1. /\ m \in Nat /\ n \in Nat /\ DOMAIN s = 1 .. m /\ DOMAIN u = 1 .. n /\ DOMAIN w = 1 .. m + n
      /\ \A i \in 1 .. m : w[i] = s[i]
      /\ \A i \in 1 .. n : w[m + i] = u[i]
  OBVIOUS
<1> HIDE DEF w, m, n
<1>2. ASSUME NEW i \in 1 .. m + n  PROVE i \in 1 .. m \/ \E j \in 1 .. n : i = m + j
  <2>1. CASE i \notin 1 .. m
    <3>1. i - m \in 1 .. n /\ i = m + (i - m)
      BY <1>1, <2>1
    <3> QED BY <3>1
  <2> QED BY <2>1
<1>3. \A i \in 1 .. m : i \in 1 .. m + n
  BY <1>1
<1>4. \A j \in 1 .. n : m + j \in 1 .. m + n
  BY <1>1
<1>5. ASSUME Holds(w, b)  PROVE Holds(s, b) \/ Holds(u, b)
  <2>1. PICK i \in 1 .. m + n : w[i] = b
    BY <1>1, <1>5 DEF Holds
  <2>2. i \in 1 .. m => s[i] = b
    BY <1>1, <2>1
  <2>3. ASSUME NEW j \in 1 .. n, i = m + j  PROVE u[j] = b
    BY <1>1, <2>1, <2>3
  <2> QED BY <1>1, <1>2, <2>2, <2>3 DEF Holds
<1>6. Holds(s, b) => Holds(w, b)
  BY <1>1, <1>3 DEF Holds
<1>7. Holds(u, b) => Holds(w, b)
  BY <1>1, <1>4 DEF Holds
<1> QED BY <1>5, <1>6, <1>7 DEF w

LEMMA SingleHolds ==
  ASSUME NEW a, NEW b
  PROVE  Holds(<<a>>, b) <=> b = a
<1>1. DOMAIN <<a>> = {1} /\ <<a>>[1] = a
  OBVIOUS
<1> QED BY <1>1 DEF Holds

LEMMA EmptyHolds ==
  ASSUME NEW b
  PROVE  ~Holds(<< >>, b)
<1>1. DOMAIN << >> = {}
  OBVIOUS
<1> QED BY <1>1 DEF Holds

LEMMA PushHolds ==
  ASSUME NEW s \in Seq(Act), NEW a \in Act, NEW w, Pushes(w, s, a), NEW b
  PROVE  Holds(w, b) <=> Holds(s, b) \/ b = a
<1> DEFINE one == <<a>>
<1>1. one \in Seq(Act) /\ w = s \o one
  BY DEF Pushes
<1>2. Holds(one, b) <=> b = a
  BY SingleHolds
<1> HIDE DEF one
<1>3. Holds(s \o one, b) <=> Holds(s, b) \/ Holds(one, b)
  BY <1>1, ConcatHolds
<1> QED BY <1>1, <1>2, <1>3, Zenon

LEMMA ShiftHolds ==
  ASSUME NEW w \in Seq(Act), NEW a \in Act, NEW m, Shifts(m, w, a), NEW b
  PROVE  Holds(m, b) <=> Holds(w, b) \/ b = a
<1> DEFINE one == <<a>>
<1>1. one \in Seq(Act) /\ m = one \o w
  BY DEF Shifts
<1>2. Holds(one, b) <=> b = a
  BY SingleHolds
<1> HIDE DEF one
<1>3. Holds(one \o w, b) <=> Holds(one, b) \/ Holds(w, b)
  BY <1>1, ConcatHolds
<1> QED BY <1>1, <1>2, <1>3, Zenon

LEMMA CalledHolds ==
  ASSUME NEW cbs, NEW v, NEW b, Holds(Called(cbs, v), b)
  PROVE  \E k \in DOMAIN cbs : b = Given(cbs[k], v)
BY DEF Holds, Called

LEMMA WaitsHolds ==
  ASSUME NEW t, NEW g
  PROVE  WaitsWell(t, g) <=> \A q \in Id : \A a : Holds(t[q].ok, a) => WaitOf(g, a, q)
BY DEF WaitsWell, Holds

LEMMA QueuedHolds ==
  ASSUME NEW t, NEW m, NEW g
  PROVE  QueuedWell(t, m, g) <=> \A a : Holds(m, a) => CameTo(t, g, a)
BY DEF QueuedWell, Holds

(* What a sequence holds counts in it.                                     *)
LEMMA HoldsLoad ==
  ASSUME NEW s, NEW a, Holds(s, a), NEW K, NEW d, Hit(a, K, d)
  PROVE  Load(s, K, d) # 0
<1>1. ~NoHit(s, K, d)
  BY DEF Holds, NoHit
<1> QED BY <1>1, LoadNone

(* The only thing queued for d, if it is the next microtask.               *)
LEMMA HeadOnly ==
  ASSUME NEW w \in Seq(Act), NEW a \in Act, NEW m, Shifts(m, w, a), NEW K, NEW d,
         Hit(a, K, d), NEW b, Hit(b, K, d), Holds(m, b), Load(m, K, d) # 2
  PROVE  b = a
<1>1. Load(m, K, d) = Plus(Load(w, K, d), Unit(a, K, d)) /\ Load(w, K, d) \in 0 .. 2
  BY LoadShift, LoadRange
<1>2. Load(w, K, d) = 0
  BY <1>1 DEF Unit, Plus
<1>3. ~Holds(w, b)
  BY <1>2, HoldsLoad
<1> QED BY <1>3, ShiftHolds

(***************************************************************************)
(* What steps keep.                                                        *)
(***************************************************************************)

(* What is settled stays as it is.                                         *)
Onward(t, n) ==
    \A q \in Id : /\ t[q].st \in {"fulfilled", "rejected"} => Same(t, n, q)
                  /\ t[q].st # "unborn" => n[q].st # "unborn"

LEMMA OnwardFacts ==
  ASSUME NEW t, NEW n, Moves(t, n)
  PROVE  Onward(t, n)
<1>1. PICK p \in Id : /\ \A q \in Id \ {p} : Same(t, n, q)
                      /\ \/ Same(t, n, p)
                         \/ t[p].st = "unborn" /\ n[p].st # "unborn"
                         \/ t[p].st = "pending" /\ n[p].st \in {"fulfilled", "rejected"}
  BY DEF Moves
<1> QED BY <1>1 DEF Onward, Same

LEMMA EndedKept ==
  ASSUME NEW t, NEW n, Onward(t, n), NEW v, NEW st \in {"fulfilled", "rejected"}
  PROVE  /\ \A val : EndedAs(t, v, st, val) => EndedAs(n, v, st, val)
         /\ EndedBy(t, v, st) => EndedBy(n, v, st)
<1>1. \A val : EndedAs(t, v, st, val) => EndedAs(n, v, st, val)
  BY DEF Onward, Same, EndedAs
<1> QED BY <1>1 DEF EndedBy

LEMMA CameToKept ==
  ASSUME NEW t, NEW n, Onward(t, n), NEW g, NEW a, CameTo(t, g, a)
  PROVE  CameTo(n, g, a)
<1>1. StOf(a.side) \in {"fulfilled", "rejected"}
  BY DEF StOf
<1> QED BY <1>1, EndedKept DEF CameTo

LEMMA CountedKept ==
  ASSUME NEW t, NEW n, Onward(t, n), NEW a, NEW i, Counted(t, a, i)
  PROVE  Counted(n, a, i)
<1>1. StOf(a.results[i]) \in {"fulfilled", "rejected"}
  BY DEF StOf
<1> QED BY <1>1, EndedKept DEF Counted

LEMMA JustifiedKept ==
  ASSUME NEW t, NEW n, Onward(t, n), NEW a, NEW r, Justified(t, a, r)
  PROVE  Justified(n, a, r)
<1>1. AllEnded(t, a) => AllEnded(n, a)
  BY EndedKept DEF AllEnded
<1>2. NoneEnded(t, a) => NoneEnded(n, a)
  BY EndedKept DEF NoneEnded
<1>3. AllCounted(t, a) => AllCounted(n, a)
  BY EndedKept DEF AllCounted
<1>4. \A st \in {"fulfilled", "rejected"} : \A val : SomeEnded(t, a, st, val) => SomeEnded(n, a, st, val)
  BY EndedKept DEF SomeEnded
<1> QED BY <1>1, <1>2, <1>3, <1>4 DEF Justified

(* The outcome of a promise is all that justifying it looks at.            *)
LEMMA JustifiedSame ==
  ASSUME NEW t, NEW a, NEW r, NEW s, s.st = r.st, s.val = r.val, Justified(t, a, r)
  PROVE  Justified(t, a, s)
BY DEF Justified

LEMMA QueuedKept ==
  ASSUME NEW t, NEW n, Onward(t, n), NEW g, NEW m, QueuedWell(t, m, g)
  PROVE  QueuedWell(n, m, g)
BY CameToKept DEF QueuedWell

LEMMA QueuedConcat ==
  ASSUME NEW t, NEW g, NEW s \in Seq(Act), NEW u \in Seq(Act), QueuedWell(t, s, g), QueuedWell(t, u, g)
  PROVE  QueuedWell(t, s \o u, g)
<1>1. \A a : Holds(s \o u, a) => Holds(s, a) \/ Holds(u, a)
  BY ConcatHolds
<1>2. \A a : Holds(s, a) \/ Holds(u, a) => CameTo(t, g, a)
  BY QueuedHolds
<1> QED BY <1>1, <1>2, QueuedHolds

(* Registering a pair of callbacks.                                        *)
LEMMA RegisterKept ==
  ASSUME NEW t, Sound(t), NEW q \in Id, NEW ok \in Safe, NEW err \in Safe, Twin(ok, err),
         NEW g, WaitsWell(t, g), WaitOf(g, ok, q),
         NEW queue \in Seq(Safe), QueuedWell(t, queue, g),
         NEW n, n = Registered(t, q, ok, err), NEW jobs, jobs = RegisteredJobs(t, q, ok, err)
  PROVE  /\ WaitsWell(n, g) /\ QueuedWell(n, queue \o jobs, g)
         /\ \A r \in Id : Same(t, n, r)
         /\ \A a : Holds(queue, a) => Holds(queue \o jobs, a)
<1>1. ok \in Act /\ err \in Act /\ queue \in Seq(Act)
  BY SafeSeq
<1>2. /\ \A r \in Id : Same(t, n, r)
      /\ jobs \in Seq(Safe)
  BY RegisteredFacts
<1>3. Onward(t, n)
  BY <1>2 DEF Onward, Same
<1>4. jobs \in Seq(Act)
  BY <1>2, SafeSeq
<1>5. WaitOf(g, err, q)
  BY DEF WaitOf, ItemOf, Twin
<1>6. WaitsWell(n, g)
  <2>1. n = t \/ n = [t EXCEPT ![q] = WithPair(t[q], ok, err)]
    BY DEF Registered
  <2>2. CASE n = [t EXCEPT ![q] = WithPair(t[q], ok, err)]
    <3>1. n[q] = WithPair(t[q], ok, err) /\ \A r \in Id \ {q} : n[r] = t[r]
      BY <2>2 DEF Sound, Table
    <3>2. t[q].ok \in Seq(Act) /\ n[q].ok = Append(t[q].ok, ok)
      <4>1. t[q].ok \in Seq(Act)
        BY ListFacts
      <4>2. t[q] \in SoundRec
        BY TableGet
      <4>3. WithPair(t[q], ok, err).ok = Append(t[q].ok, ok)
        BY <4>2 DEF WithPair, SoundRec
      <4> QED BY <3>1, <4>1, <4>3
    <3>3. Pushes(n[q].ok, t[q].ok, ok)
      BY <3>2 DEF Pushes
    <3>4. \A a : Holds(n[q].ok, a) => Holds(t[q].ok, a) \/ a = ok
      BY <1>1, <3>2, <3>3, PushHolds
    <3>5. \A r \in Id : \A a : Holds(t[r].ok, a) => WaitOf(g, a, r)
      BY WaitsHolds
    <3>6. \A r \in Id : \A a : Holds(n[r].ok, a) => WaitOf(g, a, r)
      BY <3>1, <3>4, <3>5
    <3> QED BY <3>6, WaitsHolds
  <2> QED BY <2>1, <2>2
<1>7. QueuedWell(n, jobs, g)
  <2>1. CASE t[q].st \in {"fulfilled", "rejected"}
    <3> DEFINE b == IF t[q].st = "fulfilled" THEN ok ELSE err
               x == Given(b, t[q].val)
    <3>1. jobs = <<x>>
      BY <2>1 DEF RegisteredJobs
    <3>2. b \in Act /\ WaitOf(g, b, q) /\ StOf(b.side) = t[q].st
      BY <1>1, <1>5, <2>1 DEF Twin, StOf
    <3>3. x.op = b.op /\ x.p = b.p /\ x.arg = b.arg /\ x.side = b.side /\ x.val = t[q].val
      BY <3>2 DEF Given, Act
    <3> HIDE DEF x, b
    <3>4. CameTo(t, g, x)
      BY <3>2, <3>3 DEF CameTo, WaitOf, ItemOf, EndedAs
    <3>5. CameTo(n, g, x)
      BY <1>3, <3>4, CameToKept
    <3> QED BY <3>1, <3>5, SingleHolds, QueuedHolds
  <2>2. CASE t[q].st \notin {"fulfilled", "rejected"}
    <3>1. jobs = << >>
      BY <2>2 DEF RegisteredJobs
    <3> QED BY <3>1, EmptyHolds, QueuedHolds
  <2> QED BY <2>1, <2>2
<1>8. QueuedWell(n, queue, g)
  BY <1>3, QueuedKept
<1>9. QueuedWell(n, queue \o jobs, g)
  BY <1>1, <1>4, <1>7, <1>8, QueuedConcat
<1>10. \A a : Holds(queue, a) => Holds(queue \o jobs, a)
  BY <1>1, <1>4, ConcatHolds
<1> QED BY <1>2, <1>6, <1>9, <1>10

(* Settling a promise: what waited for it is queued with its outcome.      *)
LEMMA SettleKept ==
  ASSUME NEW t, Sound(t), NEW p \in Id, NEW side \in Side, NEW v \in Value,
         Outcome(t, side, v).st # "unborn",
         NEW g, WaitsWell(t, g), NEW queue \in Seq(Safe), QueuedWell(t, queue, g),
         NEW n, n = Settled(t, p, side, v), NEW jobs, jobs = Jobs(t, p, side, v)
  PROVE  /\ WaitsWell(n, g) /\ QueuedWell(n, queue \o jobs, g)
         /\ \A a : Holds(queue, a) => Holds(queue \o jobs, a)
<1> DEFINE o == Outcome(t, side, v)
<1>1. Moves(t, n) /\ jobs \in Seq(Safe)
  BY SettledFacts
<1>2. Onward(t, n) /\ jobs \in Seq(Act) /\ queue \in Seq(Act)
  BY <1>1, OnwardFacts, SafeSeq
<1>3. QueuedWell(n, queue, g)
  BY <1>2, QueuedKept
<1>4. \A a : Holds(queue, a) => Holds(queue \o jobs, a)
  BY <1>2, ConcatHolds
<1>5. WaitsWell(n, g) /\ QueuedWell(n, jobs, g)
  <2>1. CASE t[p].st # "pending"
    <3>1. n = t /\ jobs = << >>
      BY <2>1 DEF Settled, Jobs
    <3> QED BY <3>1, EmptyHolds, QueuedHolds
  <2>2. CASE t[p].st = "pending" /\ o.st = "pending"
    <3>1. v \in Id /\ jobs = << >>
      BY <2>2, OutcomeFacts DEF Jobs
    <3>2. n = [t EXCEPT ![v] = WithPair(t[v], Adopted(p), Callback("cap", p, "err", 0))]
      BY <2>2 DEF Settled, Adopted
    <3>3. n[v] = WithPair(t[v], Adopted(p), Callback("cap", p, "err", 0))
          /\ \A r \in Id \ {v} : n[r] = t[r]
      BY <3>1, <3>2 DEF Sound, Table
    <3>4. t[v].ok \in Seq(Act) /\ n[v].ok = Append(t[v].ok, Adopted(p))
      <4>1. t[v].ok \in Seq(Act) /\ t[v] \in SoundRec
        BY <3>1, ListFacts, TableGet
      <4>2. WithPair(t[v], Adopted(p), Callback("cap", p, "err", 0)).ok = Append(t[v].ok, Adopted(p))
        BY <4>1, PairFields
      <4> QED BY <3>3, <4>1, <4>2
    <3>5. Pushes(n[v].ok, t[v].ok, Adopted(p)) /\ Adopted(p) \in Act
      BY <3>4, AdoptedFacts, SafeSeq DEF Pushes
    <3>6. \A a : Holds(n[v].ok, a) => Holds(t[v].ok, a) \/ a = Adopted(p)
      BY <3>4, <3>5, PushHolds
    <3>7. \A r \in Id : \A a : Holds(t[r].ok, a) => WaitOf(g, a, r)
      BY WaitsHolds
    <3>8. \A r : WaitOf(g, Adopted(p), r)
      BY AdoptedFacts DEF WaitOf
    <3>9. \A r \in Id : \A a : Holds(n[r].ok, a) => WaitOf(g, a, r)
      BY <3>3, <3>6, <3>7, <3>8
    <3> QED BY <3>1, <3>9, WaitsHolds, EmptyHolds, QueuedHolds
  <2>3. CASE t[p].st = "pending" /\ o.st # "pending"
    <3>1. n = [t EXCEPT ![p] = Closed(t[p], o.st, o.val)]
      BY <2>3 DEF Settled
    <3>2. /\ n[p].st = o.st /\ n[p].val = o.val /\ n[p].ok = << >>
          /\ \A r \in Id \ {p} : n[r] = t[r]
      BY <3>1 DEF Sound, Table, Closed
    <3>3. DOMAIN << >> = {}
      OBVIOUS
    <3>4. WaitsWell(n, g)
      BY <3>2, <3>3 DEF WaitsWell
    <3>5. o.st \in {"fulfilled", "rejected"}
      BY <2>3, OutcomeFacts
    <3> DEFINE cbs == IF o.st = "fulfilled" THEN t[p].ok ELSE t[p].err
    <3>6. jobs = Called(cbs, o.val)
      BY <2>3 DEF Jobs
    <3>7. ASSUME NEW k \in DOMAIN cbs
          PROVE  /\ cbs[k] \in Act /\ StOf(cbs[k].side) = o.st
                 /\ WaitOf(g, cbs[k], p)
      <4>1. /\ t[p].ok \in Seq(Act) /\ t[p].err \in Seq(Act) /\ DOMAIN t[p].ok = DOMAIN t[p].err
        BY ListFacts
      <4>2. k \in DOMAIN t[p].ok /\ t[p].ok[k] \in Act /\ t[p].err[k] \in Act
        BY <4>1
      <4>3. Twin(t[p].ok[k], t[p].err[k])
        BY <4>2 DEF Sound, Paired
      <4>4. WaitOf(g, t[p].ok[k], p)
        BY <4>2 DEF WaitsWell
      <4>5. WaitOf(g, t[p].err[k], p)
        BY <4>3, <4>4 DEF WaitOf, ItemOf, Twin
      <4>6. StOf(t[p].ok[k].side) = "fulfilled" /\ StOf(t[p].err[k].side) = "rejected"
        BY <4>3 DEF Twin, StOf
      <4> QED BY <3>5, <4>2, <4>4, <4>5, <4>6
    <3> HIDE DEF cbs, o
    <3>8. ASSUME NEW a, Holds(jobs, a)  PROVE CameTo(n, g, a)
      <4>1. PICK k \in DOMAIN cbs : a = Given(cbs[k], o.val)
        BY <3>6, <3>8, CalledHolds
      <4>2. /\ a.op = cbs[k].op /\ a.p = cbs[k].p /\ a.arg = cbs[k].arg /\ a.side = cbs[k].side
            /\ a.val = o.val
        BY <3>7, <4>1 DEF Given, Act
      <4> QED BY <3>2, <3>7, <4>2 DEF CameTo, WaitOf, ItemOf, EndedAs
    <3> QED BY <3>4, <3>8, QueuedHolds
  <2> QED BY <2>1, <2>2, <2>3
<1> QED BY <1>2, <1>3, <1>4, <1>5, QueuedConcat

(* Creating a promise.                                                     *)
LEMMA CreateKept ==
  ASSUME NEW t, Sound(t), NEW p \in Id, t[p].st = "unborn", NEW r, r.ok = << >>, r.st # "unborn",
         NEW n, Becomes(t, n, p, r), NEW g, WaitsWell(t, g), NEW m, QueuedWell(t, m, g)
  PROVE  Onward(t, n) /\ WaitsWell(n, g) /\ QueuedWell(n, m, g)
<1>1. n[p] = r /\ \A q \in Id \ {p} : n[q] = t[q]
  BY DEF Becomes
<1>2. Onward(t, n)
  BY <1>1 DEF Onward, Same
<1>3. DOMAIN << >> = {}
  OBVIOUS
<1>4. WaitsWell(n, g)
  BY <1>1, <1>3 DEF WaitsWell
<1> QED BY <1>2, <1>4, QueuedKept

(***************************************************************************)
(* What a step of PromiseJobs does to the table and the queue.             *)
(***************************************************************************)

LEMMA Own == {"agg"} \in SUBSET OwnSettled
BY DEF OwnSettled

Stays == promise' = promise /\ micro' = micro
Queues ==
    /\ promise' = promise
    /\ \E a \in Act : a.op # "agg" /\ (Pushes(micro', micro, a) \/ Shifts(micro', micro, a))
Takes == promise' = promise /\ micro # << >> /\ micro' = Tail(micro) /\ Job.op \notin {"agg", "cap"}
Creates ==
    /\ micro' = micro
    /\ \E p \in Id : \E r : /\ ~Born(p) /\ r.st # "unborn" /\ r.by \notin {"none", "agg"} /\ r.ok = << >>
                            /\ Becomes(promise, promise', p, r)
Derived(t) == t = promise \/ \E d \in Id : ~Born(d) /\ t = [promise EXCEPT ![d] = Pending("chain")]
Registers ==
    \E t : \E q \in Id, ok \in Safe, err \in Safe :
        /\ Derived(t) /\ t[q].st # "unborn"
        /\ Twin(ok, err) /\ WaitOK(ok, t) /\ ok.op # "agg"
        /\ promise' = Registered(t, q, ok, err) /\ micro' = micro \o RegisteredJobs(t, q, ok, err)
Concludes ==
    \E queue : \E p \in Id, side \in Side, v \in Value :
        /\ SettleAfter(queue, p, side, v) /\ Outcome(promise, side, v).st # "unborn"
        /\ \/ queue = micro /\ (promise[p].by = "caps" \/ Load(stack, Obliging, p) # 0)
           \/ /\ micro # << >> /\ queue = Tail(micro) /\ Job.op \in Obliging
              /\ p = Job.p /\ side = Job.side /\ v = Job.val
StepShape == Stays \/ Queues \/ Takes \/ Creates \/ Registers \/ Concludes

LEMMA DeriveShape ==
  ASSUME PromiseInv, NEW q \in Visible, NEW e \in Id, NEW op \in {"then", "finally"},
         NEW x \in {0, 1}, NEW y \in {0, 1},
         Derive(q, e, Callback(op, e, "ok", x), Callback(op, e, "err", y))
  PROVE  Registers
<1> DEFINE t == [promise EXCEPT ![e] = Pending("chain")]
           ok == Callback(op, e, "ok", x)
           err == Callback(op, e, "err", y)
<1>1. ~Born(e) /\ q \in Id /\ promise[q].st # "unborn"
  BY PassableFacts DEF Derive, Fresh, Next1, Visible, Born
<1>2. t[q].st # "unborn"
  BY <1>1 DEF PromiseInv, Sound, Table, Born
<1>3. ok \in Safe /\ err \in Safe /\ Twin(ok, err) /\ ok.op = op
  BY CallbackType, ValueFacts DEF Op, Side, Twin
<1>4. WaitOK(ok, t)
  BY <1>3 DEF WaitOK, Releasing
<1>5. promise' = Registered(t, q, ok, err) /\ micro' = micro \o RegisteredJobs(t, q, ok, err)
  BY DEF Derive
<1>6. Derived(t)
  BY <1>1 DEF Derived
<1> HIDE DEF t, ok, err
<1> QED BY <1>1, <1>2, <1>3, <1>4, <1>5, <1>6 DEF Registers

LEMMA SuspendShape ==
  ASSUME ObligationInv({"agg"}), Suspend  PROVE StepShape
<1> DEFINE b == Top.p
           ok == Callback("resume", b, "ok", 0)
           err == Callback("resume", b, "err", 0)
<1>1. /\ stack # << >> /\ Top.op = "body"
      /\ \/ \E v \in Visible :
              /\ promise' = Registered(promise, v, ok, err)
              /\ micro' = micro \o RegisteredJobs(promise, v, ok, err)
         \/ \E v \in Plain : micro' = Append(micro, Given(ok, v)) /\ promise' = promise
  BY DEF Suspend, Calls, InScript
<1>2. b \in Id /\ promise[b].by = "async"
  BY <1>1, Own, BodyOwed, TopFacts DEF FrameOK
<1> HIDE DEF b
<1>3. ok \in Safe /\ err \in Safe /\ Twin(ok, err) /\ ok.op = "resume" /\ ok.p = b
  BY <1>2, CallbackType, ValueFacts DEF Op, Side, Twin
<1>4. WaitOK(ok, promise)
  BY <1>2, <1>3 DEF WaitOK, Releasing
<1> HIDE DEF ok, err
<1>5. CASE \E v \in Visible : /\ promise' = Registered(promise, v, ok, err)
                              /\ micro' = micro \o RegisteredJobs(promise, v, ok, err)
  <2>1. PICK v \in Visible : /\ promise' = Registered(promise, v, ok, err)
                             /\ micro' = micro \o RegisteredJobs(promise, v, ok, err)
    BY <1>5
  <2>2. v \in Id /\ promise[v].st # "unborn"
    BY DEF Visible, Born
  <2>3. Derived(promise)
    BY DEF Derived
  <2> QED BY <1>3, <1>4, <2>1, <2>2, <2>3, Zenon DEF StepShape, Registers
<1>6. CASE \E v \in Plain : micro' = Append(micro, Given(ok, v)) /\ promise' = promise
  <2>1. PICK v \in Plain : micro' = Append(micro, Given(ok, v)) /\ promise' = promise
    BY <1>6
  <2>2. v \in Value /\ v \notin Id
    BY ValueFacts DEF Value
  <2>3. Given(ok, v) \in Act /\ Given(ok, v).op = "resume"
    BY <1>3, <2>2, GivenType, SafeSeq DEF Given, Act
  <2>4. Pushes(micro', micro, Given(ok, v))
    BY <2>1 DEF Pushes
  <2> QED BY <2>1, <2>3, <2>4 DEF StepShape, Queues
<1> QED BY <1>1, <1>5, <1>6

LEMMA ApiShape ==
  ASSUME ObligationInv({"agg"}), ApiCall  PROVE StepShape
<1>1. PromiseInv /\ Sound(promise)
  BY InvSeqs DEF ObligationInv
<1>2. ASSUME NEW p \in Id, NEW r, ~Born(p), promise' = [promise EXCEPT ![p] = r], micro' = micro,
             r.st # "unborn", r.by \notin {"none", "agg"}, r.ok = << >>
      PROVE  StepShape
  <2>1. Becomes(promise, promise', p, r)
    BY <1>1, <1>2 DEF Sound, Table, Becomes
  <2> QED BY <1>2, <2>1 DEF StepShape, Creates
<1>3. ASSUME NEW by \in {"caps", "async", "static"}, NEW v, NEW st \in {"fulfilled", "rejected"}
      PROVE  /\ Pending(by).st # "unborn" /\ Pending(by).by \notin {"none", "agg"} /\ Pending(by).ok = << >>
             /\ Closed(Pending(by), st, v).st # "unborn" /\ Closed(Pending(by), st, v).ok = << >>
             /\ Closed(Pending(by), st, v).by \notin {"none", "agg"}
  BY DEF Pending, Closed
<1>4. CASE Construct
  <2>1. PICK p \in Id : ~Born(p) /\ promise' = [promise EXCEPT ![p] = Pending("caps")] /\ micro' = micro
    BY <1>4 DEF Construct, Fresh, Next1
  <2> QED BY <1>2, <1>3, <2>1
<1>5. CASE Static
  <2>1. PICK p \in Id, v \in Passable, st \in {"fulfilled", "rejected"} :
          ~Born(p) /\ promise' = [promise EXCEPT ![p] = Closed(Pending("static"), st, v)] /\ micro' = micro
    BY <1>5 DEF Static, Fresh, Next1
  <2> QED BY <1>2, <1>3, <2>1
<1>6. CASE CallAsync
  <2>1. PICK p \in Id : ~Born(p) /\ promise' = [promise EXCEPT ![p] = Pending("async")] /\ micro' = micro
    BY <1>6 DEF CallAsync, Fresh, Next1
  <2> QED BY <1>2, <1>3, <2>1
<1>7. CASE Resolve
  <2>1. PICK p \in Id, side \in Side, v \in Passable : promise[p].by = "caps" /\ SettleAfter(micro, p, side, v)
    BY <1>7 DEF Resolve
  <2>2. v \in Value /\ Outcome(promise, side, v).st # "unborn"
    BY PassableFacts
  <2> QED BY <2>1, <2>2 DEF StepShape, Concludes
<1>8. CASE Try \/ Block
  BY <1>8 DEF Try, Block, StepShape, Stays
<1>9. CASE Then
  <2>1. PICK p \in Visible, d \in Id, x \in {0, 1}, y \in {0, 1} :
          Derive(p, d, Callback("then", d, "ok", x), Callback("then", d, "err", y))
    BY <1>9 DEF Then
  <2> QED BY <1>1, <2>1, DeriveShape DEF StepShape
<1>10. CASE Finally
  <2>1. PICK p \in Visible, d \in Id :
          Derive(p, d, Callback("finally", d, "ok", 0), Callback("finally", d, "err", 0))
    BY <1>10 DEF Finally
  <2> QED BY <1>1, <2>1, DeriveShape DEF StepShape
<1>11. CASE QueueMicrotask
  <2>1. PICK op \in {"task", "quiet"} :
          promise' = promise /\ (micro' = Append(micro, Call(op, 0)) \/ micro' = <<Call(op, 0)>> \o micro)
    BY <1>11 DEF QueueMicrotask
  <2>2. Call(op, 0) \in Act /\ Call(op, 0).op = op
    BY CallFacts, ValueFacts DEF Op, Settling
  <2>3. Pushes(micro', micro, Call(op, 0)) \/ Shifts(micro', micro, Call(op, 0))
    BY <2>1 DEF Pushes, Shifts
  <2> QED BY <2>1, <2>2, <2>3 DEF StepShape, Queues
<1>12. CASE Suspend
  BY <1>12, SuspendShape
<1> QED BY <1>4, <1>5, <1>6, <1>7, <1>8, <1>9, <1>10, <1>11, <1>12 DEF ApiCall

LEMMA ReturnShape ==
  ASSUME ObligationInv({"agg"}), stack # << >>, Top.op \in Obliging, NEW base,
         NEW side \in Side, NEW v \in Value, Outcome(promise, side, v).st # "unborn",
         SettleAndReturn(micro, base, Top.p, side, v)
  PROVE  StepShape
<1> DEFINE p == Top.p
<1>1. p \in Id
  BY InvSeqs DEF ObligationInv, Safe, Goal, Settling, Obliging
<1>2. Load(stack, Obliging, p) = Plus(Load(Rest, Obliging, p), 1) /\ Load(Rest, Obliging, p) \in 0 .. 2
  BY <1>1, Own, TopFacts, LoadRange
<1>3. Load(stack, Obliging, p) # 0
  BY <1>2 DEF Plus
<1> HIDE DEF p
<1>4. SettleAndReturn(micro, base, p, side, v)
  BY DEF p
<1> QED BY <1>1, <1>3, <1>4 DEF SettleAndReturn, StepShape, Stays, Concludes

LEMMA EndShape ==
  ASSUME ObligationInv({"agg"}), NEW ending \in {"ok", "err", "host"}, NEW v \in Value, EndCall(ending, v),
         v \in Passable \/ (v \notin Id /\ ending = "host")
  PROVE  StepShape
<1>1. stack # << >> /\ PromiseInv /\ Top \in Safe /\ Sound(promise)
  BY InvSeqs DEF EndCall, InScript, ObligationInv
<1>2. /\ \A side \in Side : Outcome(promise, side, v).st # "unborn"
      /\ "err" \in Side /\ "ok" \in Side
  BY PassableFacts DEF Side
<1>3. CASE EndScript(ending)
  BY <1>3 DEF EndScript, StepShape, Stays
<1>4. CASE EndExecutor(ending, v)
  <2>1. Top.op = "executor" /\ (SettleAfter(micro, Top.p, "err", v) \/ Stays)
    BY <1>4 DEF EndExecutor, Stays
  <2>2. Top.p \in Id /\ promise[Top.p].by = "caps"
    BY <1>1, <2>1, Own, TopFacts DEF Safe, Goal, Settling, FrameOK
  <2> QED BY <1>2, <2>1, <2>2 DEF StepShape, Concludes
<1>5. CASE EndTry(ending, v)
  <2>1. CASE promise' = promise
    BY <1>5, <2>1 DEF EndTry, StepShape, Stays
  <2>2. CASE promise' # promise
    <3>1. PICK p \in Id, st \in {"fulfilled", "rejected"} :
             /\ Next1(p) /\ promise' = [promise EXCEPT ![p] = Closed(Pending("static"), st, v)]
             /\ micro' = micro
      BY <1>5, <2>2 DEF EndTry
    <3> DEFINE r == Closed(Pending("static"), st, v)
    <3>2. ~Born(p) /\ r.st # "unborn" /\ r.by = "static" /\ r.ok = << >>
      BY <3>1 DEF Next1, Pending, Closed
    <3>3. Becomes(promise, promise', p, r)
      BY <1>1, <3>1 DEF Sound, Table, Becomes
    <3> HIDE DEF r
    <3> QED BY <3>1, <3>2, <3>3 DEF StepShape, Creates
  <2> QED BY <2>1, <2>2
<1>6. CASE EndTask(ending)
  BY <1>6 DEF EndTask, StepShape, Stays
<1>7. CASE EndThen(ending, v)
  <2>1. PICK side \in Side : SettleAndReturn(micro, Rest, Top.p, side, v)
    BY <1>7 DEF EndThen, Side
  <2>2. Top.op \in Obliging
    BY <1>7 DEF EndThen, Obliging
  <2> QED BY <1>1, <1>2, <2>1, <2>2, ReturnShape
<1>8. CASE EndFinally(ending, v)
  <2>1. \/ SettleAndReturn(micro, Rest, Top.p, Top.side, Top.val)
        \/ SettleAndReturn(micro, Rest, Top.p, "err", v)
    BY <1>8 DEF EndFinally
  <2>2. Top.op \in Obliging
    BY <1>8 DEF EndFinally, Obliging
  <2>3. Top.side \in Side /\ Top.val \in Value /\ (Top.side = "err" \/ Top.val \notin Id)
    BY <1>1 DEF Safe, Goal, Act, Side
  <2>4. Outcome(promise, Top.side, Top.val).st # "unborn"
    BY <2>3, PassableFacts
  <2> QED BY <1>1, <1>2, <2>1, <2>2, <2>3, <2>4, ReturnShape
<1>9. CASE EndBody(ending, v)
  <2>1. Top.op \in Obliging
    BY <1>9 DEF EndBody, Obliging
  <2>2. CASE ending = "host"
    BY <1>9, <2>2 DEF EndBody, StepShape, Stays
  <2>3. CASE ending # "host"
    <3>1. SettleAndReturn(micro, Rest, Top.p, ending, v) /\ ending \in Side
      BY <1>9, <2>3 DEF EndBody, Side
    <3> QED BY <1>1, <1>2, <2>1, <3>1, ReturnShape
  <2> QED BY <2>2, <2>3
<1> QED BY <1>3, <1>4, <1>5, <1>6, <1>7, <1>8, <1>9 DEF EndCall

(* A settling microtask carries no promise as its value.                   *)
LEMMA HeadValue ==
  ASSUME ObligationInv({"agg"}), micro # << >>
  PROVE  /\ Job \in Safe /\ Job.side \in Side /\ Job.val \in Value
         /\ Outcome(promise, Job.side, Job.val).st # "unborn"
         /\ Job.side = "err" \/ Job.val \notin Id
         /\ ~SelfResolution(Job.p, Job.side, Job.val)
<1>1. Job \in Safe
  BY HeadFacts DEF ObligationInv
<1>2. Job.side \in Side /\ Job.val \in Value /\ (Job.side = "err" \/ Job.val \notin Id) /\ Job.p \in 0 .. MaxPromise
  BY <1>1 DEF Safe, Goal, Act, Side
<1>3. Outcome(promise, Job.side, Job.val).st # "unborn"
  BY <1>2, PassableFacts
<1>4. ~SelfResolution(Job.p, Job.side, Job.val)
  <2>1. Job.p \in Id \/ Job.p = 0
    BY <1>2, BoundsAssumption DEF Id
  <2>2. 0 \notin Plain /\ 0 \notin Id
    BY PlainAssumption DEF Id
  <2>3. Job.val = Job.p => Job.val \in Id
    BY <1>2, <2>1, <2>2 DEF Value
  <2> QED BY <1>2, <2>3 DEF SelfResolution
<1> QED BY <1>1, <1>2, <1>3, <1>4

LEMMA JobShape ==
  ASSUME ObligationInv({"agg"}), RunJob  PROVE StepShape
<1>1. micro # << >> /\ (RunSettler \/ RunCallback \/ RunResume)
  BY DEF RunJob
<1>2. Job \in Safe /\ Job.side \in Side /\ Job.val \in Value
      /\ Outcome(promise, Job.side, Job.val).st # "unborn" /\ ~SelfResolution(Job.p, Job.side, Job.val)
  BY <1>1, HeadValue
<1>3. CASE RunSettler
  <2>1. Job.op \in Obliging /\ SettleAfter(Tail(micro), Job.p, Job.side, Job.val)
    BY <1>2, <1>3 DEF RunSettler, SettleAndReturn, Obliging
  <2>2. Job.p \in Id
    BY <1>2, <2>1 DEF Safe, Goal, Settling, Obliging
  <2> QED BY <1>1, <1>2, <2>1, <2>2 DEF StepShape, Concludes
<1>4. CASE RunCallback \/ RunResume
  BY <1>1, <1>4 DEF RunCallback, RunResume, StepShape, Takes
<1> QED BY <1>1, <1>3, <1>4

LEMMA NextShape ==
  ASSUME ObligationInv({"agg"}), [PromiseNext]_promiseVars  PROVE StepShape
<1>1. CASE ApiCall
  BY <1>1, ApiShape
<1>2. CASE Return \/ Throw
  <2>1. PICK ending \in {"ok", "err", "host"}, v \in Passable : EndCall(ending, v)
    BY <1>2 DEF Return, Throw
  <2>2. v \in Value
    BY PassableFacts
  <2> QED BY <2>1, <2>2, EndShape
<1>3. CASE Fail
  BY <1>3, EndShape, ValueFacts DEF Fail
<1>4. CASE RunJob
  BY <1>4, JobShape
<1>5. CASE AwaitReturns \/ AwaitStarves \/ LoopEnds \/ Ended \/ UNCHANGED promiseVars
  BY <1>5 DEF AwaitReturns, AwaitStarves, LoopEnds, Ended, promiseVars, StepShape, Stays
<1> QED BY <1>1, <1>2, <1>3, <1>4, <1>5 DEF PromiseNext

(***************************************************************************)
(* Such a step keeps what is known of every aggregate.                     *)
(***************************************************************************)

(* The microtask of an empty aggregate stays, or settles its promise.      *)
Rests(t, m, n, w, d, k) ==
    (t[d].by = "chain" /\ t[d].st = "pending" /\ Holds(m, EmptyJob(d, k))) =>
        \/ n[d].st = "pending" /\ Holds(w, EmptyJob(d, k))
        \/ n[d].st = StOf(AllSide(k)) /\ n[d].val = AllValue(k)
Carries(t, m, n, w, g) ==
    /\ Onward(t, n) /\ Keeps(t, n)
    /\ WaitsWell(n, g) /\ QueuedWell(n, w, g)
    /\ \A d \in Id : t[d].by = "agg" => /\ Same(t, n, d)
                                        /\ \A i : OnWay(n, w, d, i) = OnWay(t, m, d, i)
    /\ \A d \in Id : \A k : Rests(t, m, n, w, d, k)

LEMMA AccountedCarried ==
  ASSUME NEW t, Sound(t), NEW m, NEW g, NEW d \in Id, g[d] \in AggRec, Accounted(t, m, g, d),
         NEW n, NEW w, Onward(t, n), Keeps(t, n),
         t[d].by = "agg" => Same(t, n, d) /\ \A i : OnWay(n, w, d, i) = OnWay(t, m, d, i),
         \A k : Rests(t, m, n, w, d, k)
  PROVE  Accounted(n, w, g, d)
<1> DEFINE a == g[d]
<1>1. Accounted(t, m, g, d) /\ Onward(t, n) /\ Keeps(t, n)
  OBVIOUS
<1>2. t[d].by = "agg" => Same(t, n, d) /\ \A i : OnWay(n, w, d, i) = OnWay(t, m, d, i)
  OBVIOUS
<1>3. Sized(n, g, d)
  BY <1>1 DEF Accounted, Sized, Onward, Keeps
<1>4. ASSUME Active(g, d)  PROVE Undecided(n, w, g, d)
  <2>1. Undecided(t, m, g, d) /\ t[d].by = "agg"
    BY <1>1, <1>4 DEF Accounted, Active, Sized
  <2>2. n[d].st = "pending"
    BY <1>2, <2>1 DEF Same, Undecided
  <2>3. \A i \in DOMAIN g[d].items : Counted(t, g[d], i) => Counted(n, g[d], i)
    BY <1>1, CountedKept
  <2> QED BY <1>2, <2>1, <2>2, <2>3 DEF Undecided
<1>5. ASSUME Same(t, n, d), a.kind # "none"  PROVE Justified(n, a, n[d])
  <2>1. Justified(n, a, t[d])
    BY <1>1, <1>5, JustifiedKept DEF Accounted
  <2>2. n[d].st = t[d].st /\ n[d].val = t[d].val
    BY <1>5 DEF Same
  <2> HIDE DEF a
  <2> QED BY <2>1, <2>2, JustifiedSame
<1>6. CASE a.items # << >> \/ a.kind = "none"
  <2>1. a.kind # "none" => Same(t, n, d)
    BY <1>1, <1>2, <1>6 DEF Accounted, Sized
  <2> QED BY <1>3, <1>4, <1>5, <1>6, <2>1 DEF Accounted, Empty
<1>7. CASE a.items = << >> /\ a.kind # "none"
  <2>1. Vacuous(t, m, g, d) /\ ~Active(g, d)
    BY <1>1, <1>7 DEF Accounted, Empty, Active
  <2>2. a \in AggRec
    OBVIOUS
  <2>3. n[d].by = "chain"
    BY <1>1, <2>1 DEF Vacuous, Keeps
  <2>4. CASE t[d].st # "pending"
    <3>1. t[d].st \in {"fulfilled", "rejected"}
      BY <1>1, <1>7, <2>4, TableGet DEF Accounted, Sized, SoundRec
    <3>2. Same(t, n, d)
      BY <1>1, <3>1 DEF Onward
    <3>3. n[d].st # "pending"
      BY <2>4, <3>2 DEF Same
    <3> QED BY <1>3, <1>5, <1>7, <2>1, <2>3, <3>2, <3>3 DEF Accounted, Vacuous
  <2>5. CASE t[d].st = "pending"
    <3>1. Rests(t, m, n, w, d, a.kind) /\ Holds(m, EmptyJob(d, a.kind))
      BY <2>1, <2>5 DEF Vacuous
    <3>2. CASE n[d].st = "pending" /\ Holds(w, EmptyJob(d, a.kind))
      BY <1>3, <2>1, <2>3, <3>2 DEF Accounted, Vacuous, Justified
    <3>3. CASE n[d].st = StOf(AllSide(a.kind)) /\ n[d].val = AllValue(a.kind)
      <4>1. DOMAIN << >> = {}
        OBVIOUS
      <4>2. AllEnded(n, a) /\ AllCounted(n, a) /\ NoneEnded(n, a)
        BY <1>7, <4>1 DEF AllEnded, AllCounted, NoneEnded
      <4>3. a.kind \in {"all", "allSettled", "any"}
        BY <1>7, <2>1, <2>2 DEF AggRec, Kind, Vacuous
      <4>4. Justified(n, a, n[d])
        BY <3>3, <4>2, <4>3 DEF Justified, AllSide, StOf
      <4>5. n[d].st # "pending"
        BY <3>3 DEF StOf
      <4> QED BY <1>3, <2>1, <2>3, <4>4, <4>5 DEF Accounted, Vacuous
    <3> QED BY <2>1, <2>5, <3>1, <3>2, <3>3 DEF Rests, Vacuous
  <2> QED BY <2>4, <2>5
<1> QED BY <1>6, <1>7

LEMMA KeptCarried ==
  ASSUME NEW t, Sound(t), NEW m, NEW g, Kept(t, m, g), NEW n, NEW w, Carries(t, m, n, w, g)
  PROVE  Kept(n, w, g)
<1> SUFFICES ASSUME NEW d \in Id  PROVE Accounted(n, w, g, d)
  BY DEF Kept, Carries
<1> QED BY AccountedCarried DEF Kept, Carries

(* The queue alone changes.                                                *)
LEMMA QueueCarries ==
  ASSUME NEW t, NEW m, NEW w, NEW g, Kept(t, m, g),
         \A b : Holds(w, b) => Holds(m, b) \/ b.op # "agg",
         \A b : Holds(m, b) => Holds(w, b) \/ b.op # "cap",
         \A d : Load(w, {"agg"}, d) = Load(m, {"agg"}, d)
  PROVE  Carries(t, m, t, w, g)
<1>1. Onward(t, t) /\ Keeps(t, t) /\ \A d \in Id : Same(t, t, d)
  BY DEF Onward, Keeps, Same
<1>2. WaitsWell(t, g)
  BY DEF Kept
<1>3. QueuedWell(t, w, g)
  <2>1. \A b : Holds(m, b) => CameTo(t, g, b)
    BY QueuedHolds DEF Kept
  <2>2. \A b : b.op # "agg" => CameTo(t, g, b)
    BY DEF CameTo
  <2> QED BY <2>1, <2>2, QueuedHolds
<1>4. \A d, i : OnWay(t, w, d, i) = OnWay(t, m, d, i)
  BY DEF OnWay, Coming
<1>5. \A d, k : EmptyJob(d, k).op = "cap"
  BY DEF EmptyJob, Given, Callback
<1>6. \A d, k : Rests(t, m, t, w, d, k)
  BY <1>5 DEF Rests
<1> QED BY <1>1, <1>2, <1>3, <1>4, <1>6 DEF Carries

LEMMA CreateCarries ==
  ASSUME NEW t, Sound(t), Neat(t), NEW p \in Id, t[p].st = "unborn",
         NEW r, r.st # "unborn", r.by \notin {"none", "agg"}, r.ok = << >>,
         NEW n, Becomes(t, n, p, r), NEW m, NEW g, Kept(t, m, g)
  PROVE  Carries(t, m, n, m, g)
<1>1. n[p] = r /\ \A q \in Id \ {p} : n[q] = t[q]
  BY DEF Becomes
<1>2. Keeps(t, n) /\ \A d, i : OnWay(n, m, d, i) = OnWay(t, m, d, i)
  BY CreateLoad DEF OnWay
<1>3. Onward(t, n) /\ WaitsWell(n, g) /\ QueuedWell(n, m, g)
  BY CreateKept DEF Kept
<1>4. t[p].by = "none"
  BY DEF Neat
<1>5. \A d \in Id : t[d].by = "agg" => Same(t, n, d)
  BY <1>1, <1>4 DEF Same
<1>6. \A d \in Id : \A k : Rests(t, m, n, m, d, k)
  BY <1>1, <1>4 DEF Rests
<1> QED BY <1>2, <1>3, <1>5, <1>6 DEF Carries

LEMMA RegisterCarries ==
  ASSUME NEW t, Sound(t), Neat(t), NEW q \in Id, t[q].st # "unborn",
         NEW ok \in Safe, NEW err \in Safe, Twin(ok, err), WaitOK(ok, t), ok.op # "agg",
         NEW m \in Seq(Safe), NEW g, Kept(t, m, g),
         NEW n, n = Registered(t, q, ok, err), NEW jobs, jobs = RegisteredJobs(t, q, ok, err)
  PROVE  Carries(t, m, n, m \o jobs, g)
<1>1. WaitOf(g, ok, q) /\ WaitsWell(t, g) /\ QueuedWell(t, m, g)
  BY DEF WaitOf, Kept
<1>2. /\ WaitsWell(n, g) /\ QueuedWell(n, m \o jobs, g)
      /\ \A r \in Id : Same(t, n, r)
      /\ \A a : Holds(m, a) => Holds(m \o jobs, a)
  BY <1>1, RegisterKept
<1>3. /\ \A r \in Id : n[r].by = t[r].by
      /\ \A K, d : Coming(n, m \o jobs, K, d) = Plus(Coming(t, m, K, d), Unit(ok, K, d))
  BY RegisterLoad
<1>4. Onward(t, n) /\ Keeps(t, n)
  BY <1>2, <1>3 DEF Onward, Keeps, Same
<1>5. ASSUME NEW d, NEW i  PROVE OnWay(n, m \o jobs, d, i) = OnWay(t, m, d, i)
  <2>1. Unit(ok, {"agg"}, <<d, i>>) = 0
    BY DEF Unit, Hit
  <2>2. OnWay(t, m, d, i) \in 0 .. 2
    BY DueRange DEF OnWay
  <2> QED BY <1>3, <2>1, <2>2 DEF OnWay, Plus
<1>6. \A d \in Id : \A k : Rests(t, m, n, m \o jobs, d, k)
  BY <1>2 DEF Rests, Same
<1> QED BY <1>2, <1>4, <1>5, <1>6 DEF Carries

LEMMA EmptyFacts ==
  ASSUME NEW d \in Id, NEW k
  PROVE  /\ EmptyJob(d, k) \in Safe /\ EmptyJob(d, k) \in Act
         /\ EmptyJob(d, k).op = "cap" /\ EmptyJob(d, k).p = d
         /\ EmptyJob(d, k).side = AllSide(k) /\ EmptyJob(d, k).val = AllValue(k)
         /\ AllValue(k) \in Value /\ AllValue(k) \notin Id /\ AllSide(k) \in Side
         /\ Hit(EmptyJob(d, k), Obliging, d)
<1> DEFINE cb == Callback("cap", d, AllSide(k), 0)
<1>1. AllValue(k) \in Plain /\ AllSide(k) \in Side
  BY ArrayAssumption DEF AllValue, AllSide, Side
<1>2. AllValue(k) \in Value /\ AllValue(k) \notin Id
  BY <1>1, ValueFacts DEF Value
<1>3. cb \in Safe /\ cb.op = "cap" /\ cb.p = d /\ cb.side = AllSide(k)
  BY <1>1, CallbackType, ValueFacts DEF Op, Settling
<1>4. cb \in Goal /\ cb \in Act
  BY <1>3, SafeSeq
<1> HIDE DEF cb
<1>5. Given(cb, AllValue(k)) \in Safe
  BY <1>2, <1>4, GivenType
<1>6. /\ Given(cb, AllValue(k)).op = "cap" /\ Given(cb, AllValue(k)).p = d
      /\ Given(cb, AllValue(k)).side = AllSide(k) /\ Given(cb, AllValue(k)).val = AllValue(k)
  BY <1>3, <1>4 DEF Given, Act
<1>7. EmptyJob(d, k) = Given(cb, AllValue(k))
  BY DEF EmptyJob, cb
<1> QED BY <1>1, <1>2, <1>5, <1>6, <1>7, SafeSeq DEF Hit, Aim, Obliging

(* The microtask of an empty aggregate is all its promise is owed.         *)
LEMMA EmptyOwed ==
  ASSUME NEW X, Owing(X), NEW d \in Id, Settles(d), NEW k, Holds(micro, EmptyJob(d, k))
  PROVE  Load(micro, Obliging, d) = 1 /\ Load(stack, Obliging, d) = 0
<1>1. Load(micro, Obliging, d) # 0
  BY EmptyFacts, HoldsLoad
<1>2. /\ Load(micro, Obliging, d) \in 0 .. 2 /\ Load(stack, Obliging, d) \in 0 .. 2
      /\ Held(promise, Id, Obliging, d) \in 0 .. 2
  BY LoadRange, WaitRange
<1>3. Owed(promise, micro, stack, d) \in 0 .. 1
  BY DEF Owing
<1> QED BY <1>1, <1>2, <1>3 DEF Owed, Coming, Plus

LEMMA ConcludeCarries ==
  ASSUME ObligationInv({"agg"}), NEW g, Kept(promise, micro, g), Concludes
  PROVE  Carries(promise, micro, promise', micro', g)
<1>1. PICK queue : \E p \in Id, side \in Side, v \in Value :
        /\ SettleAfter(queue, p, side, v) /\ Outcome(promise, side, v).st # "unborn"
        /\ \/ queue = micro /\ (promise[p].by = "caps" \/ Load(stack, Obliging, p) # 0)
           \/ /\ micro # << >> /\ queue = Tail(micro) /\ Job.op \in Obliging
              /\ p = Job.p /\ side = Job.side /\ v = Job.val
  BY DEF Concludes
<1>2. PICK p \in Id, side \in Side, v \in Value :
        /\ SettleAfter(queue, p, side, v) /\ Outcome(promise, side, v).st # "unborn"
        /\ \/ queue = micro /\ (promise[p].by = "caps" \/ Load(stack, Obliging, p) # 0)
           \/ /\ micro # << >> /\ queue = Tail(micro) /\ Job.op \in Obliging
              /\ p = Job.p /\ side = Job.side /\ v = Job.val
  BY <1>1
<1> DEFINE t == promise
           jobs == Jobs(t, p, side, v)
           n == Settled(t, p, side, v)
<1>3. promise' = n /\ micro' = queue \o jobs
  BY <1>2 DEF SettleAfter
<1>4. /\ PromiseInv /\ Sound(t) /\ Neat(t) /\ Owing({"agg"})
      /\ micro \in Seq(Safe) /\ micro \in Seq(Act)
  BY InvSeqs DEF ObligationInv, Shape
<1>5. micro # << >> => /\ Tail(micro) \in Seq(Safe) /\ Tail(micro) \in Seq(Act) /\ Job \in Act
                       /\ Shifts(micro, Tail(micro), Job)
  BY <1>4, Own, JobTaken, HeadShifted DEF Job
<1> DEFINE taken == queue # micro \/ ~(promise[p].by = "caps" \/ Load(stack, Obliging, p) # 0)
<1>6. taken => /\ queue \in Seq(Safe) /\ queue \in Seq(Act) /\ Job \in Act /\ Shifts(micro, queue, Job)
               /\ Job.op \in Obliging /\ p = Job.p /\ side = Job.side /\ v = Job.val
  BY <1>2, <1>5
<1>7. ~taken => queue = micro /\ (promise[p].by = "caps" \/ Load(stack, Obliging, p) # 0)
  BY <1>2
<1> HIDE DEF jobs, n, taken
<1>8. queue \in Seq(Safe)
  BY <1>4, <1>6, <1>7
<1>9. /\ \A b : Holds(queue, b) => Holds(micro, b)
      /\ \A b : Holds(micro, b) => Holds(queue, b) \/ (taken /\ b = Job)
  BY <1>6, <1>7, ShiftHolds
<1>10. \A d, i : OnWay(t, queue, d, i) = OnWay(t, micro, d, i)
  <2> SUFFICES ASSUME NEW d, NEW i  PROVE Load(queue, {"agg"}, <<d, i>>) = Load(micro, {"agg"}, <<d, i>>)
    BY DEF OnWay, Coming
  <2>1. CASE taken
    <3>1. Load(micro, {"agg"}, <<d, i>>) = Plus(Load(queue, {"agg"}, <<d, i>>), Unit(Job, {"agg"}, <<d, i>>))
      BY <1>6, <2>1, LoadShift
    <3>2. Unit(Job, {"agg"}, <<d, i>>) = 0 /\ Load(queue, {"agg"}, <<d, i>>) \in 0 .. 2
      BY <1>6, <2>1, LoadRange DEF Unit, Hit, Obliging
    <3> QED BY <3>1, <3>2 DEF Plus
  <2> QED BY <1>7, <2>1
<1>11. QueuedWell(t, queue, g) /\ WaitsWell(t, g)
  BY <1>9, QueuedHolds DEF Kept
<1>12. /\ WaitsWell(n, g) /\ QueuedWell(n, queue \o jobs, g)
       /\ \A a : Holds(queue, a) => Holds(queue \o jobs, a)
  BY <1>2, <1>4, <1>8, <1>11, SettleKept DEF n, jobs
<1>13. /\ \A q \in Id : n[q].by = t[q].by
       /\ \A q \in Id \ {p} : n[q].st = t[q].st
       /\ \A K, d : Coming(n, queue \o jobs, K, d)
                      = Plus(Coming(t, queue, K, d),
                             IF Adopts(t, p, side, v) THEN Unit(Adopted(p), K, d) ELSE 0)
  BY <1>2, <1>4, <1>8, SettleLoad DEF n, jobs
<1>14. Onward(t, n) /\ Keeps(t, n)
  <2>1. Moves(t, n)
    BY <1>2, <1>4, SettledFacts DEF n
  <2> QED BY <1>13, <2>1, OnwardFacts DEF Keeps
<1>15. promise[p].by # "agg"
  <2>1. /\ Load(micro, Obliging, p) \in 0 .. 2 /\ Load(stack, Obliging, p) \in 0 .. 2
        /\ Held(promise, Id, Obliging, p) \in 0 .. 2
    BY LoadRange, WaitRange
  <2>2. taken => Load(micro, Obliging, p) # 0
    <3>1. SUFFICES ASSUME taken  PROVE Load(micro, Obliging, p) # 0
      OBVIOUS
    <3>2. Hit(Job, Obliging, p)
      BY <1>6, <3>1 DEF Hit, Aim, Obliging
    <3>3. Load(micro, Obliging, p) = Plus(Load(queue, Obliging, p), Unit(Job, Obliging, p))
          /\ Load(queue, Obliging, p) \in 0 .. 2
      BY <1>6, <3>1, LoadShift, LoadRange
    <3> QED BY <3>2, <3>3 DEF Unit, Plus
  <2>3. promise[p].by = "agg" => Owed(promise, micro, stack, p) = 0
    BY <1>4 DEF Owing, Idle
  <2> QED BY <1>7, <2>1, <2>2, <2>3 DEF Owed, Coming, Plus
<1>16. \A q \in Id : q # p => Same(t, n, q)
  BY <1>2, <1>4 DEF n, Settled, WithPair, Closed, Same, Sound, Table
<1>17. ASSUME NEW d, NEW i  PROVE OnWay(n, queue \o jobs, d, i) = OnWay(t, micro, d, i)
  <2>1. Unit(Adopted(p), {"agg"}, <<d, i>>) = 0
    BY AdoptedFacts DEF Unit, Hit
  <2>2. OnWay(t, queue, d, i) \in 0 .. 2
    BY DueRange DEF OnWay
  <2>3. OnWay(n, queue \o jobs, d, i) = OnWay(t, queue, d, i)
    BY <1>13, <2>1, <2>2 DEF OnWay, Plus
  <2> QED BY <1>10, <2>3
<1>18. ASSUME NEW d \in Id, NEW k  PROVE Rests(t, micro, n, queue \o jobs, d, k)
  <2> DEFINE e == EmptyJob(d, k)
  <2> SUFFICES ASSUME t[d].by = "chain", t[d].st = "pending", Holds(micro, e)
               PROVE  \/ n[d].st = "pending" /\ Holds(queue \o jobs, e)
                      \/ n[d].st = StOf(AllSide(k)) /\ n[d].val = AllValue(k)
    BY DEF Rests
  <2>1. Load(micro, Obliging, d) = 1 /\ Load(stack, Obliging, d) = 0
    BY <1>4, EmptyOwed DEF Settles
  <2>2. /\ e.op = "cap" /\ e.p = d /\ e.side = AllSide(k) /\ e.val = AllValue(k)
        /\ AllValue(k) \notin Id /\ AllSide(k) \in Side /\ Hit(e, Obliging, d)
    BY EmptyFacts
  <2> HIDE DEF e
  <2>3. CASE p # d
    <3>1. n[d].st = "pending"
      BY <1>13, <2>3
    <3>2. taken => e # Job
      BY <1>6, <2>2, <2>3
    <3> QED BY <1>9, <1>12, <3>1, <3>2
  <2>4. CASE p = d
    <3>1. taken
      BY <1>7, <2>1, <2>4
    <3>2. Hit(Job, Obliging, d)
      BY <1>6, <2>4, <3>1 DEF Hit, Aim, Obliging
    <3>3. e = Job
      BY <1>6, <2>1, <2>2, <3>1, <3>2, HeadOnly
    <3>4. side = AllSide(k) /\ v = AllValue(k)
      BY <1>6, <2>2, <3>1, <3>3
    <3>5. Outcome(t, side, v) = [st |-> StOf(side), val |-> v]
      BY <2>2, <3>4 DEF Outcome, StOf, Side
    <3>6. Outcome(t, side, v).st # "pending"
      BY <3>5 DEF StOf
    <3>7. n[d].st = StOf(side) /\ n[d].val = v
      BY <1>4, <2>4, <3>5, <3>6 DEF n, Settled, Closed, Sound, Table
    <3> QED BY <3>4, <3>7
  <2> QED BY <2>3, <2>4
<1> QED BY <1>3, <1>12, <1>14, <1>15, <1>16, <1>17, <1>18 DEF Carries

LEMMA PromiseKept ==
  ASSUME ObligationInv({"agg"}), NEW g, Kept(promise, micro, g), [PromiseNext]_promiseVars
  PROVE  Kept(promise', micro', g)
<1>1. /\ PromiseInv /\ Sound(promise) /\ Neat(promise) /\ micro \in Seq(Safe) /\ micro \in Seq(Act)
      /\ PromiseInv' /\ StepShape
  BY InvSeqs, InvNext, NextShape DEF ObligationInv, Shape
<1>2. CASE Stays
  BY <1>2 DEF Stays
<1>3. CASE Queues
  <2>1. PICK a \in Act : a.op # "agg" /\ (Pushes(micro', micro, a) \/ Shifts(micro', micro, a))
    BY <1>3 DEF Queues
  <2>2. \A b : Holds(micro', b) <=> Holds(micro, b) \/ b = a
    BY <1>1, <2>1, PushHolds, ShiftHolds
  <2>3. ASSUME NEW d  PROVE Load(micro', {"agg"}, d) = Load(micro, {"agg"}, d)
    <3>1. Load(micro', {"agg"}, d) = Plus(Load(micro, {"agg"}, d), Unit(a, {"agg"}, d))
      BY <1>1, <2>1, LoadPush, LoadShift
    <3>2. Unit(a, {"agg"}, d) = 0 /\ Load(micro, {"agg"}, d) \in 0 .. 2
      BY <2>1, LoadRange DEF Unit, Hit
    <3> QED BY <3>1, <3>2 DEF Plus
  <2>4. Carries(promise, micro, promise, micro', g)
    BY <2>1, <2>2, <2>3, QueueCarries
  <2> QED BY <1>1, <1>3, <2>4, KeptCarried DEF Queues
<1>4. CASE Takes
  <2>1. promise' = promise /\ micro # << >> /\ micro' = Tail(micro) /\ Job.op \notin {"agg", "cap"}
    BY <1>4 DEF Takes
  <2>2. micro' \in Seq(Act) /\ Job \in Act /\ Shifts(micro, micro', Job)
    BY <1>1, <2>1, Own, JobTaken, HeadShifted DEF Job
  <2>3. \A b : Holds(micro, b) <=> Holds(micro', b) \/ b = Job
    BY <2>2, ShiftHolds
  <2>4. ASSUME NEW d  PROVE Load(micro', {"agg"}, d) = Load(micro, {"agg"}, d)
    <3>1. Load(micro, {"agg"}, d) = Plus(Load(micro', {"agg"}, d), Unit(Job, {"agg"}, d))
      BY <2>2, LoadShift
    <3>2. Unit(Job, {"agg"}, d) = 0 /\ Load(micro', {"agg"}, d) \in 0 .. 2
      BY <2>1, LoadRange DEF Unit, Hit
    <3> QED BY <3>1, <3>2 DEF Plus
  <2>5. Carries(promise, micro, promise, micro', g)
    BY <2>1, <2>3, <2>4, QueueCarries
  <2> QED BY <1>1, <2>1, <2>5, KeptCarried
<1>5. CASE Creates
  <2>1. PICK p \in Id : \E r : /\ ~Born(p) /\ r.st # "unborn" /\ r.by \notin {"none", "agg"} /\ r.ok = << >>
                               /\ Becomes(promise, promise', p, r)
    BY <1>5 DEF Creates
  <2>2. Carries(promise, micro, promise', micro, g)
    BY <1>1, <2>1, CreateCarries DEF Born
  <2> QED BY <1>1, <1>5, <2>2, KeptCarried DEF Creates
<1>6. CASE Registers
  <2>1. PICK t : \E q \in Id, ok \in Safe, err \in Safe :
        /\ Derived(t) /\ t[q].st # "unborn"
        /\ Twin(ok, err) /\ WaitOK(ok, t) /\ ok.op # "agg"
        /\ promise' = Registered(t, q, ok, err) /\ micro' = micro \o RegisteredJobs(t, q, ok, err)
    BY <1>6 DEF Registers
  <2>2. Sound(t) /\ Neat(t) /\ Kept(t, micro, g)
    <3>1. CASE t = promise
      BY <1>1, <3>1
    <3>2. CASE t # promise
      <4> DEFINE r == Pending("chain")
      <4>1. PICK d \in Id : ~Born(d) /\ t = [promise EXCEPT ![d] = r]
        BY <2>1, <3>2 DEF Derived
      <4>2. GoodRec(r) /\ r.st = "pending" /\ r.by = "chain" /\ r.ok = << >>
        BY FreshRecs DEF Origin, Pending
      <4> HIDE DEF r
      <4>3. Sound(t)
        BY <1>1, <4>1, <4>2, CreateStep
      <4>4. Becomes(promise, t, d, r)
        BY <1>1, <4>1 DEF Sound, Table, Becomes
      <4>5. Neat(t)
        BY <1>1, <4>1, <4>2, <4>4, CreateLoad DEF Born
      <4>6. Carries(promise, micro, t, micro, g)
        BY <1>1, <4>1, <4>2, <4>4, CreateCarries DEF Born
      <4> QED BY <1>1, <4>3, <4>5, <4>6, KeptCarried
    <3> QED BY <3>1, <3>2
  <2>3. Carries(t, micro, promise', micro', g)
    BY <1>1, <2>1, <2>2, RegisterCarries
  <2> QED BY <2>2, <2>3, KeptCarried
<1>7. CASE Concludes
  BY <1>1, <1>7, ConcludeCarries, KeptCarried
<1> QED BY <1>1, <1>2, <1>3, <1>4, <1>5, <1>6, <1>7 DEF StepShape

(***************************************************************************)
(* One item's handler runs.                                                *)
(***************************************************************************)

(* The aggregates differ in what was counted only.                         *)
Alike(g, h) == \A q \in Id : h[q].kind = g[q].kind /\ h[q].items = g[q].items

LEMMA WellAlike ==
  ASSUME NEW t, NEW g, NEW h, Alike(g, h), NEW m
  PROVE  (WaitsWell(t, g) => WaitsWell(t, h)) /\ (QueuedWell(t, m, g) => QueuedWell(t, m, h))
<1>1. \A a : ItemOf(g, a) => ItemOf(h, a) /\ h[a.p].items = g[a.p].items
  BY DEF ItemOf, Alike
<1>2. \A a, q : WaitOf(g, a, q) => WaitOf(h, a, q)
  BY <1>1 DEF WaitOf
<1>3. \A a : CameTo(t, g, a) => CameTo(t, h, a)
  BY <1>1 DEF CameTo
<1> QED BY <1>2, <1>3 DEF WaitsWell, QueuedWell

(* A step of aggregate d leaves the others as they are.                    *)
LEMMA OthersKept ==
  ASSUME NEW t, Sound(t), NEW m, NEW g, Kept(t, m, g), NEW n, NEW w, NEW d \in Id,
         Onward(t, n), Keeps(t, n), WaitsWell(n, g), QueuedWell(n, w, g),
         NEW h \in [Id -> AggRec], Alike(g, h), \A e \in Id \ {d} : h[e] = g[e] /\ Same(t, n, e),
         \A e \in Id \ {d} : \A i : OnWay(n, w, e, i) = OnWay(t, m, e, i),
         \A b : Holds(m, b) /\ b.op # "agg" => Holds(w, b),
         Accounted(n, w, h, d)
  PROVE  Kept(n, w, h)
<1>1. WaitsWell(n, h) /\ QueuedWell(n, w, h)
  BY WellAlike
<1>2. ASSUME NEW e \in Id, e # d  PROVE Accounted(n, w, h, e)
  <2>1. g[e] \in AggRec /\ Accounted(t, m, g, e)
    BY DEF Kept
  <2>2. \A k : Rests(t, m, n, w, e, k)
    <3>1. \A k : EmptyJob(e, k).op = "cap"
      BY EmptyFacts
    <3> QED BY <1>2, <3>1 DEF Rests, Same
  <2>3. Same(t, n, e) /\ \A i : OnWay(n, w, e, i) = OnWay(t, m, e, i)
    BY <1>2
  <2>4. Accounted(n, w, g, e)
    BY <2>1, <2>2, <2>3, AccountedCarried
  <2>5. h[e] = g[e]
    BY <1>2
  <2> QED BY <2>4, <2>5 DEF Accounted, Sized, Active, Undecided, Empty, Vacuous
<1> QED BY <1>1, <1>2 DEF Kept

(* What the handler at the head of the queue finds.                        *)
LEMMA AggHead ==
  ASSUME ObligationInv({"agg"}), NEW g, Kept(promise, micro, g), micro # << >>, Job.op = "agg"
  PROVE  /\ Job.p \in Id /\ promise[Job.p].by = "agg" /\ g[Job.p].kind # "none"
         /\ Job.arg \in DOMAIN g[Job.p].items
         /\ EndedAs(promise, g[Job.p].items[Job.arg], StOf(Job.side), Job.val)
         /\ g[Job.p].items # << >>
         /\ \A d, i : OnWay(promise, micro, d, i)
                        = Plus(OnWay(promise, Tail(micro), d, i), IF d = Job.p /\ i = Job.arg THEN 1 ELSE 0)
         /\ QueuedWell(promise, Tail(micro), g)
         /\ \A b : Holds(micro, b) /\ b.op # "agg" => Holds(Tail(micro), b)
<1> DEFINE tail == Tail(micro)
<1>1. /\ Job \in Safe /\ Job \in Act /\ tail \in Seq(Act) /\ JobOK(Job, promise) /\ micro \in Seq(Act)
      /\ \A K, d : Load(micro, K, d) = Plus(Load(tail, K, d), Unit(Job, K, d))
  BY Own, JobTaken, InvSeqs DEF ObligationInv
<1>2. Shifts(micro, tail, Job)
  BY <1>1, HeadShifted DEF Job
<1> HIDE DEF tail
<1>3. \A b : Holds(micro, b) <=> Holds(tail, b) \/ b = Job
  BY <1>1, <1>2, ShiftHolds
<1>4. CameTo(promise, g, Job) /\ \A b : Holds(tail, b) => CameTo(promise, g, b)
  BY <1>3, QueuedHolds DEF Kept
<1>5. promise[Job.p].by = "agg"
  BY <1>1 DEF JobOK, WaitOK
<1>6. ASSUME NEW d, NEW i
      PROVE  OnWay(promise, micro, d, i)
               = Plus(OnWay(promise, tail, d, i), IF d = Job.p /\ i = Job.arg THEN 1 ELSE 0)
  <2> DEFINE u == IF d = Job.p /\ i = Job.arg THEN 1 ELSE 0
  <2>1. Unit(Job, {"agg"}, <<d, i>>) = u
    BY DEF Unit, Hit, Aim
  <2>2. Load(micro, {"agg"}, <<d, i>>) = Plus(Load(tail, {"agg"}, <<d, i>>), u)
    BY <1>1, <2>1
  <2>3. /\ Held(promise, Id, {"agg"}, <<d, i>>) \in 0 .. 2 /\ Load(tail, {"agg"}, <<d, i>>) \in 0 .. 2
        /\ u \in 0 .. 1
    BY LoadRange, WaitRange
  <2> HIDE DEF u
  <2>4. OnWay(promise, micro, d, i) = Plus(OnWay(promise, tail, d, i), u)
    BY <2>2, <2>3 DEF OnWay, Coming, Plus
  <2> QED BY <2>4 DEF u
<1>7. ItemOf(g, Job) /\ EndedAs(promise, g[Job.p].items[Job.arg], StOf(Job.side), Job.val)
  BY <1>4 DEF CameTo
<1>8. g[Job.p].items # << >>
  <2>1. DOMAIN << >> = {}
    OBVIOUS
  <2> QED BY <1>7, <2>1 DEF ItemOf
<1>9. QueuedWell(promise, tail, g)
  BY <1>4, QueuedHolds
<1> QED BY <1>3, <1>5, <1>6, <1>7, <1>8, <1>9 DEF ItemOf, tail

(* The steps of a handler: ignored, deciding, counted, or the last counted.*)
Recorded(g, d, i, side, settled) ==
    [g EXCEPT ![d] = [g[d] EXCEPT !.results[i] = side, !.remaining = g[d].remaining - 1,
                                  !.settled = settled]]
Skips == promise' = promise /\ micro' = Tail(micro)
Ends(side, v) == SettleAfter(Tail(micro), Job.p, side, v)

LEMMA AggShape ==
  ASSUME ObligationInv({"agg"}), RunAggregate
  PROVE  /\ micro # << >> /\ Job.op = "agg"
         /\ stack' = stack /\ co' = co /\ calls' = calls /\ loop' = loop /\ dropped' = dropped
         /\ LET d == Job.p
                a == agg[d]
            IN  \/ a.settled /\ agg' = agg /\ Skips
                \/ /\ ~a.settled /\ Decisive(a.kind, Job.side)
                   /\ agg' = [agg EXCEPT ![d].settled = TRUE] /\ Ends(Job.side, Job.val)
                \/ /\ ~a.settled /\ ~Decisive(a.kind, Job.side) /\ a.remaining # 1
                   /\ agg' = Recorded(agg, d, Job.arg, Job.side, FALSE) /\ Skips
                \/ /\ ~a.settled /\ ~Decisive(a.kind, Job.side) /\ a.remaining = 1
                   /\ agg' = Recorded(agg, d, Job.arg, Job.side, TRUE)
                   /\ Ends(AllSide(a.kind), AllValue(a.kind))
<1>1. micro # << >> /\ Job.op = "agg" /\ co' = co /\ calls' = calls /\ (Ignore \/ Decide \/ Count)
  BY DEF RunAggregate
<1>2. ~SelfResolution(Job.p, Job.side, Job.val) /\ Job \in Safe
  BY <1>1, HeadValue
<1>3. Job.p \in Id
  BY <1>1, <1>2 DEF Safe, Goal, Settling
<1>4. \A k : ~SelfResolution(Job.p, AllSide(k), AllValue(k))
  BY <1>3, EmptyFacts DEF SelfResolution
<1>5. CASE Ignore
  BY <1>1, <1>5 DEF Ignore, Skips
<1>6. CASE Decide
  BY <1>1, <1>2, <1>6 DEF Decide, SettleAndReturn, Ends
<1>7. CASE Count
  BY <1>1, <1>4, <1>7 DEF Count, SettleAndReturn, Ends, Skips, Recorded
<1> QED BY <1>1, <1>5, <1>6, <1>7

LEMMA FinalOutcome ==
  ASSUME NEW t, NEW side \in Side, NEW v \in Value, side = "err" \/ v \notin Id
  PROVE  Outcome(t, side, v) = [st |-> StOf(side), val |-> v] /\ StOf(side) \in {"fulfilled", "rejected"}
BY DEF Outcome, StOf, Side

LEMMA AggOwing ==
  ASSUME ObligationInv({"agg"}), micro # << >>, Job.op = "agg",
         stack' = stack, co' = co, calls' = calls, loop' = loop, dropped' = dropped,
         \/ Skips
         \/ \E side \in Side, v \in Value : (side = "err" \/ v \notin Id) /\ Ends(side, v)
  PROVE  ObligationInv({"agg"})' /\ TableStep
<1> DEFINE tail == Tail(micro)
<1>1. /\ PromiseInv /\ Sound(promise) /\ Neat(promise) /\ Framed(stack, promise) /\ Launched(stack) /\ Lost
      /\ Owing({"agg"}) /\ Awake /\ stack \in Seq(Safe)
  BY InvSeqs DEF ObligationInv, Shape
<1>2. /\ Job \in Safe /\ tail \in Seq(Safe) /\ Jobbed(tail, promise) /\ JobOK(Job, promise)
      /\ \A K, d : Load(micro, K, d) = Plus(Load(tail, K, d), Unit(Job, K, d))
  BY Own, JobTaken
<1> HIDE DEF tail
<1>3. Job.p \in Id /\ promise[Job.p].by = "agg"
  BY <1>2 DEF Safe, Goal, Settling, JobOK, WaitOK
<1>4. ASSUME NEW K \in {Obliging, {"resume"}}, NEW d  PROVE Load(tail, K, d) = Load(micro, K, d)
  <2>1. Unit(Job, K, d) = 0
    BY DEF Unit, Hit, Obliging
  <2>2. Load(tail, K, d) \in 0 .. 2
    BY LoadRange
  <2> QED BY <1>2, <2>1, <2>2 DEF Plus
<1>5. CASE Skips
  <2>1. promise' = promise /\ micro' = tail
    BY <1>5 DEF Skips, tail
  <2>2. PromiseInv' /\ TableStep
    BY <1>1, <1>2, <2>1 DEF PromiseInv, TableStep
  <2>3. Shape'
    BY <1>1, <1>2, <2>1 DEF Shape, Lost, Born
  <2>4. /\ \A d : Load(tail, Obliging, d) = Load(micro, Obliging, d)
        /\ \A d : Load(tail, {"resume"}, d) = Load(micro, {"resume"}, d)
    BY <1>4
  <2>5. /\ \A d \in Id : Owed(promise', micro', stack', d) = Owed(promise, micro, stack, d)
        /\ \A d \in Id : Resumes(promise', micro', d) = Resumes(promise, micro, d)
    BY <2>1, <2>4 DEF Owed, Resumes, Coming
  <2>6. Owing({"agg"})'
    BY <1>1, <2>1, <2>5, Own, OwingSame
  <2>7. Awake'
    BY <1>1, <2>5, AwakeSame
  <2> QED BY <2>2, <2>3, <2>6, <2>7 DEF ObligationInv
<1>6. CASE \E side \in Side, v \in Value : (side = "err" \/ v \notin Id) /\ Ends(side, v)
  <2>1. PICK side \in Side, v \in Value : (side = "err" \/ v \notin Id) /\ Ends(side, v)
    BY <1>6
  <2> DEFINE p == Job.p
  <2>2. SettleAfter(tail, p, side, v)
    BY <2>1 DEF Ends, tail
  <2>3. p \in Id /\ promise[p].by = "agg"
    BY <1>3
  <2> HIDE DEF p
  <2>4. Outcome(promise, side, v).st \in {"fulfilled", "rejected"}
    BY <2>1, FinalOutcome
  <2>5. ~Adopts(promise, p, side, v) /\ Outcome(promise, side, v).st # "unborn"
    BY <2>4 DEF Adopts
  <2>6. /\ Neat(promise') /\ Jobbed(micro', promise') /\ Keeps(promise, promise') /\ Lost' /\ Owing({"agg"})'
        /\ \A d \in Id : Resumes(promise', micro', d) = Resumes(promise, micro, d)
    BY <1>1, <1>2, <1>4, <2>2, <2>3, <2>5, Own, SettleTaken
  <2>7. TableStep /\ micro' \in Seq(Safe)
    BY <1>1, <1>2, <2>2, <2>3, <2>5, SettleStep
  <2>8. PromiseInv'
    BY <1>1, <2>7 DEF PromiseInv, TableStep
  <2>9. Framed(stack', promise') /\ Launched(stack')
    BY <1>1, <2>6, AllKept
  <2>10. Shape'
    BY <2>6, <2>9 DEF Shape
  <2>11. Awake'
    BY <1>1, <2>6, AwakeSame
  <2> QED BY <2>6, <2>7, <2>8, <2>10, <2>11 DEF ObligationInv
<1> QED BY <1>5, <1>6

(* Settling the promise of an aggregate.                                   *)
LEMMA EndsFacts ==
  ASSUME ObligationInv({"agg"}), NEW g, Kept(promise, micro, g), micro # << >>, Job.op = "agg",
         promise[Job.p].st = "pending",
         NEW side \in Side, NEW v \in Value, side = "err" \/ v \notin Id, Ends(side, v)
  PROVE  /\ promise'[Job.p].st = StOf(side) /\ promise'[Job.p].val = v
         /\ \A q \in Id \ {Job.p} : Same(promise, promise', q)
         /\ Onward(promise, promise') /\ Keeps(promise, promise')
         /\ WaitsWell(promise', g) /\ QueuedWell(promise', micro', g)
         /\ \A d, i : OnWay(promise', micro', d, i) = OnWay(promise, Tail(micro), d, i)
         /\ \A b : Holds(Tail(micro), b) => Holds(micro', b)
<1> DEFINE t == promise
           queue == Tail(micro)
           p == Job.p
           jobs == Jobs(t, p, side, v)
           n == Settled(t, p, side, v)
<1>1. promise' = n /\ micro' = queue \o jobs
  BY DEF Ends, SettleAfter
<1>2. Sound(t) /\ Neat(t) /\ queue \in Seq(Safe)
  BY Own, JobTaken DEF ObligationInv, Shape, PromiseInv
<1>3. p \in Id /\ QueuedWell(t, queue, g) /\ WaitsWell(t, g) /\ t[p].st = "pending"
  BY AggHead DEF Kept
<1> HIDE DEF n, jobs, p, queue
<1>4. Outcome(t, side, v) = [st |-> StOf(side), val |-> v] /\ StOf(side) \in {"fulfilled", "rejected"}
  BY FinalOutcome
<1>5. Outcome(t, side, v).st \notin {"unborn", "pending"} /\ ~Adopts(t, p, side, v)
  BY <1>4 DEF Adopts
<1>6. n = [t EXCEPT ![p] = Closed(@, StOf(side), v)]
  BY <1>3, <1>4, <1>5 DEF n, Settled
<1>7. /\ n[p].st = StOf(side) /\ n[p].val = v
      /\ \A q \in Id \ {p} : n[q] = t[q]
  BY <1>2, <1>3, <1>6 DEF Sound, Table, Closed
<1>8. /\ WaitsWell(n, g) /\ QueuedWell(n, queue \o jobs, g)
      /\ \A a : Holds(queue, a) => Holds(queue \o jobs, a)
  BY <1>2, <1>3, <1>5, SettleKept DEF n, jobs
<1>9. /\ \A q \in Id : n[q].by = t[q].by
      /\ \A K, d : Coming(n, queue \o jobs, K, d)
                     = Plus(Coming(t, queue, K, d),
                            IF Adopts(t, p, side, v) THEN Unit(Adopted(p), K, d) ELSE 0)
  BY <1>2, <1>3, <1>5, SettleLoad DEF n, jobs
<1>10. ASSUME NEW d, NEW i  PROVE OnWay(n, queue \o jobs, d, i) = OnWay(t, queue, d, i)
  <2>1. OnWay(t, queue, d, i) \in 0 .. 2
    BY DueRange DEF OnWay
  <2> QED BY <1>5, <1>9, <2>1 DEF OnWay, Plus
<1>11. Moves(t, n)
  BY <1>2, <1>3, <1>5, SettledFacts DEF n
<1>12. Onward(t, n) /\ Keeps(t, n)
  BY <1>9, <1>11, OnwardFacts DEF Keeps
<1> QED BY <1>1, <1>7, <1>8, <1>10, <1>12 DEF Same, p, queue

(* What the handler counts decides nothing.                                *)
Advances(a, b, i, side) ==
    /\ b.items = a.items /\ b.kind = a.kind
    /\ b.results[i] = side /\ \A j \in DOMAIN a.items \ {i} : b.results[j] = a.results[j]
NoneDecides(t, a) == \A j \in DOMAIN a.items : Counted(t, a, j)

LEMMA HeadCounts ==
  ASSUME NEW t, NEW a, NEW i \in DOMAIN a.items, NEW side \in Side, ~Decisive(a.kind, side),
         EndedBy(t, a.items[i], StOf(side)), NoneDecides(t, a), NEW b, Advances(a, b, i, side)
  PROVE  NoneDecides(t, b)
<1>1. /\ b.items = a.items /\ b.kind = a.kind
      /\ b.results[i] = side /\ \A j \in DOMAIN a.items \ {i} : b.results[j] = a.results[j]
  BY DEF Advances
<1>2. Counted(t, b, i)
  BY <1>1 DEF Counted, Decisive
<1>3. \A j \in DOMAIN b.items \ {i} : Counted(t, b, j)
  BY <1>1 DEF Counted, NoneDecides
<1> QED BY <1>1, <1>2, <1>3 DEF NoneDecides

LEMMA LeftCounts ==
  ASSUME NEW a, NEW i \in DOMAIN a.items, NEW side \in Side, NEW b, Advances(a, b, i, side)
  PROVE  Left(b) = Left(a) \ {i}
BY DEF Advances, Left, Side

LEMMA LeftFinite ==
  ASSUME NEW a \in AggRec
  PROVE  IsFiniteSet(Left(a))
<1>1. a.items \in Seq(Value)
  BY DEF AggRec
<1>2. Len(a.items) \in Nat /\ DOMAIN a.items = 1 .. Len(a.items)
  BY <1>1
<1>3. IsFiniteSet(1 .. Len(a.items))
  BY <1>2, FS_Interval
<1>4. Left(a) \subseteq 1 .. Len(a.items)
  BY <1>2 DEF Left
<1> QED BY <1>3, <1>4, FS_Subset

(* With one item left, the last to be counted.                             *)
LEMMA LastLeft ==
  ASSUME NEW a \in AggRec, NEW i \in Left(a), Cardinality(Left(a)) = 1
  PROVE  Left(a) = {i}
<1>1. IsFiniteSet(Left(a))
  BY LeftFinite
<1>2. PICK x : Left(a) = {x}
  BY <1>1, FS_Singleton
<1> QED BY <1>2

LEMMA RecordType ==
  ASSUME NEW a \in AggRec, NEW rs \in Seq({"none", "ok", "err"}), NEW s \in BOOLEAN, NEW x \in Nat
  PROVE  [a EXCEPT !.results = rs, !.remaining = x, !.settled = s] \in AggRec
BY DEF AggRec

LEMMA RecordedFacts ==
  ASSUME NEW g \in [Id -> AggRec], NEW d \in Id, g[d].remaining > 0,
         NEW i \in DOMAIN g[d].items, DOMAIN g[d].results = DOMAIN g[d].items, NEW side \in Side, NEW s \in BOOLEAN,
         NEW h, h = Recorded(g, d, i, side, s)
  PROVE  /\ h \in [Id -> AggRec] /\ Alike(g, h) /\ \A e \in Id \ {d} : h[e] = g[e]
         /\ h[d].items = g[d].items /\ h[d].kind = g[d].kind
         /\ DOMAIN h[d].results = DOMAIN h[d].items /\ h[d].results[i] = side
         /\ \A j \in DOMAIN g[d].items \ {i} : h[d].results[j] = g[d].results[j]
         /\ h[d].remaining = g[d].remaining - 1 /\ h[d].settled = s
<1> DEFINE a == g[d]
           rs == [a.results EXCEPT ![i] = side]
           x == a.remaining - 1
           b == [a EXCEPT !.results[i] = side, !.remaining = a.remaining - 1, !.settled = s]
<1>1. a \in AggRec /\ a.remaining > 0 /\ i \in DOMAIN a.items /\ DOMAIN a.results = DOMAIN a.items
  OBVIOUS
<1>2. h = [g EXCEPT ![d] = b]
  BY DEF Recorded
<1> HIDE DEF a
<1>3. b.items = a.items /\ b.kind = a.kind /\ b.results = rs /\ b.remaining = x /\ b.settled = s
  BY <1>1 DEF AggRec
<1>4. rs \in Seq({"none", "ok", "err"}) /\ x \in Nat
  BY <1>1 DEF AggRec, Side
<1>5. DOMAIN rs = DOMAIN a.items /\ rs[i] = side /\ \A j \in DOMAIN a.items \ {i} : rs[j] = a.results[j]
  BY <1>1 DEF AggRec
<1>6. b = [a EXCEPT !.results = rs, !.remaining = x, !.settled = s]
  BY <1>1 DEF AggRec
<1> HIDE DEF rs, x, b
<1>7. b \in AggRec
  BY <1>1, <1>4, <1>6, RecordType
<1>8. h[d] = b /\ (\A e \in Id \ {d} : h[e] = g[e]) /\ h \in [Id -> AggRec]
  BY <1>2, <1>7
<1>9. Alike(g, h)
  BY <1>3, <1>8 DEF Alike, a
<1> QED BY <1>3, <1>8, <1>9, <1>5 DEF a, x

(* A handler that finds its aggregate active: its item was not counted.    *)
LEMMA ActiveHead ==
  ASSUME ObligationInv({"agg"}), NEW g, Kept(promise, micro, g), micro # << >>, Job.op = "agg",
         ~g[Job.p].settled
  PROVE  /\ Undecided(promise, micro, g, Job.p) /\ g[Job.p].results[Job.arg] = "none"
         /\ OnWay(promise, Tail(micro), Job.p, Job.arg) = 0
         /\ \A i \in DOMAIN g[Job.p].items \ {Job.arg} :
               OnWay(promise, Tail(micro), Job.p, i) = OnWay(promise, micro, Job.p, i)
<1> DEFINE d == Job.p
           k == Job.arg
           tail == Tail(micro)
<1>1. /\ d \in Id /\ g[d].kind # "none" /\ k \in DOMAIN g[d].items /\ g[d].items # << >>
      /\ \A i : OnWay(promise, micro, d, i)
                  = Plus(OnWay(promise, tail, d, i), IF i = k THEN 1 ELSE 0)
  BY AggHead
<1>2. \A i : OnWay(promise, tail, d, i) \in 0 .. 2
  BY DueRange DEF OnWay
<1>3. Undecided(promise, micro, g, d)
  BY <1>1 DEF Kept, Accounted, Active
<1> HIDE DEF d, k, tail
<1>4. OnWay(promise, micro, d, k) \in 0 .. 1
      /\ (OnWay(promise, micro, d, k) = 1 => g[d].results[k] = "none")
  BY <1>1, <1>3 DEF Undecided
<1>5. OnWay(promise, micro, d, k) = Plus(OnWay(promise, tail, d, k), 1)
  BY <1>1
<1>6. OnWay(promise, tail, d, k) = 0 /\ g[d].results[k] = "none"
  BY <1>2, <1>4, <1>5 DEF Plus
<1>7. ASSUME NEW i \in DOMAIN g[d].items \ {k}
      PROVE  OnWay(promise, tail, d, i) = OnWay(promise, micro, d, i)
  <2>1. OnWay(promise, micro, d, i) = Plus(OnWay(promise, tail, d, i), 0)
    BY <1>1, <1>7
  <2> QED BY <1>2, <2>1 DEF Plus
<1> QED BY <1>3, <1>6, <1>7 DEF d, k, tail

LEMMA SkipKept ==
  ASSUME ObligationInv({"agg"}), NEW g, Kept(promise, micro, g), micro # << >>, Job.op = "agg", Skips,
         NEW h \in [Id -> AggRec], Alike(g, h), \A e \in Id \ {Job.p} : h[e] = g[e],
         Accounted(promise, Tail(micro), h, Job.p)
  PROVE  Kept(promise', micro', h)
<1> DEFINE t == promise
           tail == Tail(micro)
           d == Job.p
<1>1. promise' = t /\ micro' = tail /\ Sound(t)
  BY DEF Skips, ObligationInv, PromiseInv
<1>2. /\ d \in Id /\ QueuedWell(t, tail, g)
      /\ \A e, i : OnWay(t, micro, e, i) = Plus(OnWay(t, tail, e, i), IF e = d /\ i = Job.arg THEN 1 ELSE 0)
      /\ \A b : Holds(micro, b) /\ b.op # "agg" => Holds(tail, b)
  BY AggHead
<1>3. WaitsWell(t, g) /\ Onward(t, t) /\ Keeps(t, t) /\ \A e \in Id : Same(t, t, e)
  BY DEF Kept, Onward, Keeps, Same
<1> HIDE DEF t, tail, d
<1>4. ASSUME NEW e \in Id \ {d}, NEW i  PROVE OnWay(t, tail, e, i) = OnWay(t, micro, e, i)
  <2>1. OnWay(t, micro, e, i) = Plus(OnWay(t, tail, e, i), 0)
    BY <1>2
  <2>2. OnWay(t, tail, e, i) \in 0 .. 2
    BY DueRange DEF OnWay
  <2> QED BY <2>1, <2>2 DEF Plus
<1>5. Accounted(t, tail, h, d) /\ Kept(t, micro, g) /\ \A e \in Id \ {d} : h[e] = g[e]
  BY DEF t, tail, d
<1>6. Kept(t, tail, h)
  BY <1>1, <1>2, <1>3, <1>4, <1>5, OthersKept
<1> QED BY <1>1, <1>6

LEMMA IgnoreKept ==
  ASSUME AggInv, micro # << >>, Job.op = "agg", agg[Job.p].settled, agg' = agg, Skips
  PROVE  Kept(promise', micro', agg')
<1>1. Job.p \in Id /\ agg[Job.p].items # << >>
  BY AggHead DEF AggInv
<1>2. Accounted(promise, micro, agg, Job.p)
  BY <1>1 DEF AggInv, Kept
<1>3. Accounted(promise, Tail(micro), agg, Job.p)
  BY <1>1, <1>2 DEF Accounted, Active, Empty
<1>4. agg \in [Id -> AggRec] /\ Alike(agg, agg)
  BY DEF AggInv, Kept, Alike
<1>5. Kept(promise', micro', agg)
  BY <1>3, <1>4, SkipKept DEF AggInv
<1> QED BY <1>5

LEMMA CountKept ==
  ASSUME ObligationInv({"agg"}), NEW g, Kept(promise, micro, g), micro # << >>, Job.op = "agg", Skips,
         NEW d, d = Job.p, NEW k, k = Job.arg, NEW side, side = Job.side,
         ~g[d].settled, ~Decisive(g[d].kind, side), g[d].remaining # 1,
         NEW s \in BOOLEAN, ~s, NEW h, h = Recorded(g, d, k, side, s)
  PROVE  Kept(promise', micro', h)
<1> DEFINE t == promise
           a == g[d]
           b == h[d]
           tail == Tail(micro)
<1>1. /\ d \in Id /\ t[d].by = "agg" /\ a.kind # "none" /\ k \in DOMAIN a.items
      /\ EndedAs(t, a.items[k], StOf(side), Job.val) /\ a.items # << >>
  BY AggHead
<1>2. side \in Side /\ Job.val \in Value
  BY HeadValue
<1>3. /\ Undecided(t, micro, g, d) /\ a.results[k] = "none" /\ OnWay(t, tail, d, k) = 0
      /\ \A i \in DOMAIN a.items \ {k} : OnWay(t, tail, d, i) = OnWay(t, micro, d, i)
  BY ActiveHead
<1>4. g \in [Id -> AggRec] /\ a \in AggRec /\ Sized(t, g, d)
  BY <1>1 DEF Kept, Accounted
<1>5. a.remaining > 0 /\ a.remaining \in Nat /\ DOMAIN a.results = DOMAIN a.items /\ t[d].st = "pending"
  BY <1>3, <1>4 DEF Undecided, Sized, AggRec
<1>6. /\ h \in [Id -> AggRec] /\ Alike(g, h) /\ \A e \in Id \ {d} : h[e] = g[e]
      /\ b.items = a.items /\ b.kind = a.kind /\ b.remaining = a.remaining - 1
      /\ DOMAIN b.results = DOMAIN b.items /\ b.results[k] = side
      /\ \A j \in DOMAIN a.items \ {k} : b.results[j] = a.results[j]
  BY <1>1, <1>2, <1>4, <1>5, RecordedFacts
<1>7. ~Decisive(a.kind, side) /\ a.remaining # 1 /\ \A j \in DOMAIN a.items : Counted(t, a, j)
  BY <1>3 DEF Undecided
<1>8. a.remaining = Cardinality(Left(a))
  BY <1>3 DEF Undecided
<1> HIDE DEF a, b, t, tail
<1>9. (\A j \in DOMAIN b.items : Counted(t, b, j)) /\ Left(b) = Left(a) \ {k}
  <2>1. EndedAs(t, a.items[k], StOf(side), Job.val)
    BY <1>1
  <2>2. EndedBy(t, a.items[k], StOf(side))
    BY <1>2, <2>1 DEF EndedBy
  <2>3. k \in DOMAIN a.items
    BY <1>1
  <2>4. NoneDecides(t, a)
    BY <1>7 DEF NoneDecides
  <2>5. Advances(a, b, k, side)
    BY <1>6 DEF Advances
  <2>6. NoneDecides(t, b)
    BY <1>2, <1>7, <2>2, <2>3, <2>4, <2>5, HeadCounts
  <2>7. Left(b) = Left(a) \ {k}
    BY <1>2, <2>3, <2>5, LeftCounts
  <2> QED BY <2>6, <2>7 DEF NoneDecides
<1>10. b.remaining = Cardinality(Left(b)) /\ b.remaining > 0
  <2>1. k \in Left(a) /\ IsFiniteSet(Left(a))
    BY <1>1, <1>3, <1>4, LeftFinite DEF Left
  <2>2. Cardinality(Left(a) \ {k}) = Cardinality(Left(a)) - 1
    BY <2>1, FS_RemoveElement
  <2> QED BY <1>5, <1>6, <1>7, <1>8, <1>9, <2>2
<1>11. \A i \in DOMAIN b.items : OnWay(t, tail, d, i) = IF b.results[i] = "none" THEN 1 ELSE 0
  BY <1>2, <1>3, <1>6 DEF Undecided, Side, a
<1>12. Undecided(t, tail, h, d)
  BY <1>5, <1>9, <1>10, <1>11 DEF Undecided, b
<1>13. Accounted(t, tail, h, d)
  <2>1. Sized(t, h, d)
    BY <1>1, <1>4, <1>6 DEF Sized, a, b
  <2>2. Justified(t, h[d], t[d])
    BY <1>5 DEF Justified
  <2>3. ~Empty(h, d)
    BY <1>1, <1>6 DEF Empty, b
  <2> QED BY <1>12, <2>1, <2>2, <2>3 DEF Accounted
<1> QED BY <1>6, <1>13, SkipKept DEF t, tail

LEMMA EndsKept ==
  ASSUME ObligationInv({"agg"}), NEW g, Kept(promise, micro, g), micro # << >>, Job.op = "agg",
         promise[Job.p].st = "pending",
         NEW side \in Side, NEW v \in Value, side = "err" \/ v \notin Id, Ends(side, v),
         NEW h \in [Id -> AggRec], Alike(g, h), \A e \in Id \ {Job.p} : h[e] = g[e],
         Accounted(promise', micro', h, Job.p)
  PROVE  Kept(promise', micro', h)
<1> DEFINE t == promise
           n == promise'
           w == micro'
           tail == Tail(micro)
           d == Job.p
<1>1. /\ \A q \in Id \ {d} : Same(t, n, q)
      /\ Onward(t, n) /\ Keeps(t, n) /\ WaitsWell(n, g) /\ QueuedWell(n, w, g)
      /\ \A e, i : OnWay(n, w, e, i) = OnWay(t, tail, e, i)
      /\ \A b : Holds(tail, b) => Holds(w, b)
  BY EndsFacts
<1>2. /\ d \in Id
      /\ \A e, i : OnWay(t, micro, e, i) = Plus(OnWay(t, tail, e, i), IF e = d /\ i = Job.arg THEN 1 ELSE 0)
      /\ \A b : Holds(micro, b) /\ b.op # "agg" => Holds(tail, b)
  BY AggHead
<1>3. Sound(t)
  BY DEF ObligationInv, PromiseInv
<1> HIDE DEF t, n, w, tail, d
<1>4. ASSUME NEW e \in Id \ {d}, NEW i  PROVE OnWay(n, w, e, i) = OnWay(t, micro, e, i)
  <2>1. OnWay(t, micro, e, i) = Plus(OnWay(t, tail, e, i), 0)
    BY <1>2
  <2>2. OnWay(t, tail, e, i) \in 0 .. 2
    BY DueRange DEF OnWay
  <2> QED BY <1>1, <2>1, <2>2 DEF Plus
<1>5. \A b : Holds(micro, b) /\ b.op # "agg" => Holds(w, b)
  BY <1>1, <1>2
<1>6. Accounted(n, w, h, d) /\ Kept(t, micro, g) /\ \A e \in Id \ {d} : h[e] = g[e]
  BY DEF t, n, w, d
<1>7. Kept(n, w, h)
  BY <1>1, <1>2, <1>3, <1>4, <1>5, <1>6, OthersKept
<1> QED BY <1>7 DEF n, w

LEMMA DecideKept ==
  ASSUME ObligationInv({"agg"}), NEW g, Kept(promise, micro, g), micro # << >>, Job.op = "agg",
         NEW d, d = Job.p, NEW side, side = Job.side, NEW v, v = Job.val,
         ~g[d].settled, Decisive(g[d].kind, side), Ends(side, v),
         NEW h, h = [g EXCEPT ![d].settled = TRUE]
  PROVE  Kept(promise', micro', h)
<1> DEFINE t == promise
           n == promise'
           a == g[d]
           b == h[d]
           k == Job.arg
<1>1. /\ d \in Id /\ t[d].by = "agg" /\ k \in DOMAIN a.items
      /\ EndedAs(t, a.items[k], StOf(side), v) /\ a.items # << >>
  BY AggHead
<1>2. side \in Side /\ v \in Value /\ (side = "err" \/ v \notin Id)
  BY HeadValue
<1>3. t[d].st = "pending"
  BY ActiveHead DEF Undecided
<1>4. g \in [Id -> AggRec] /\ a \in AggRec /\ Sized(t, g, d)
  BY <1>1 DEF Kept, Accounted
<1>5. /\ b.items = a.items /\ b.kind = a.kind /\ b.results = a.results /\ b.settled
      /\ b \in AggRec /\ \A e \in Id \ {d} : h[e] = g[e]
  BY <1>1, <1>4 DEF AggRec
<1>6. h \in [Id -> AggRec]
  BY <1>4, <1>5
<1> HIDE DEF k
<1>7. Alike(g, h)
  BY <1>5 DEF Alike
<1>8. n[d].st = StOf(side) /\ n[d].val = v /\ Onward(t, n) /\ Keeps(t, n)
  BY <1>2, <1>3, EndsFacts
<1> HIDE DEF t, n, a, b
<1>9. SomeEnded(n, b, StOf(side), v)
  <2>1. StOf(side) \in {"fulfilled", "rejected"}
    BY DEF StOf
  <2>2. b.items = a.items
    BY <1>5
  <2>3. EndedAs(t, b.items[k], StOf(side), v) /\ k \in DOMAIN b.items
    BY <1>1, <2>2, Zenon
  <2>4. Onward(t, n)
    BY <1>8
  <2>5. \A val : EndedAs(t, b.items[k], StOf(side), val) => EndedAs(n, b.items[k], StOf(side), val)
    <3> DEFINE st == StOf(side)
               u == b.items[k]
    <3>1. st \in {"fulfilled", "rejected"} /\ Onward(t, n)
      BY <2>1, <2>4
    <3> HIDE DEF st, u
    <3>2. \A val : EndedAs(t, u, st, val) => EndedAs(n, u, st, val)
      BY <3>1, EndedKept
    <3> QED BY <3>2 DEF st, u
  <2> QED BY <2>3, <2>5, Zenon DEF SomeEnded
<1>10. Justified(n, b, n[d])
  <2>1. Decisive(b.kind, side)
    BY <1>5 DEF a
  <2> QED BY <1>2, <1>8, <1>9, <2>1 DEF Justified, Decisive, StOf, Side
<1>11. Accounted(n, micro', h, d)
  <2>1. Sized(n, h, d)
    BY <1>1, <1>4, <1>5, <1>8 DEF Sized, a, b, StOf, Keeps
  <2>2. ~Active(h, d) /\ ~Empty(h, d)
    BY <1>1, <1>5 DEF Active, Empty, b
  <2> QED BY <1>10, <2>1, <2>2 DEF Accounted, b
<1> QED BY <1>2, <1>3, <1>5, <1>6, <1>7, <1>11, EndsKept DEF t, n

LEMMA LastKept ==
  ASSUME ObligationInv({"agg"}), NEW g, Kept(promise, micro, g), micro # << >>, Job.op = "agg",
         NEW d, d = Job.p, NEW k, k = Job.arg, NEW side, side = Job.side,
         ~g[d].settled, ~Decisive(g[d].kind, side), g[d].remaining = 1,
         Ends(AllSide(g[d].kind), AllValue(g[d].kind)),
         NEW s \in BOOLEAN, NEW h, h = Recorded(g, d, k, side, s), h[d].settled
  PROVE  Kept(promise', micro', h)
<1> DEFINE t == promise
           n == promise'
           a == g[d]
           b == h[d]
           x == AllSide(g[d].kind)
           v == AllValue(g[d].kind)
<1>1. /\ d \in Id /\ t[d].by = "agg" /\ k \in DOMAIN a.items
      /\ EndedAs(t, a.items[k], StOf(side), Job.val) /\ a.items # << >>
  BY AggHead
<1>2. side \in Side /\ Job.val \in Value
  BY HeadValue
<1>3. /\ t[d].st = "pending" /\ a.results[k] = "none" /\ a.remaining = Cardinality(Left(a))
      /\ \A j \in DOMAIN a.items : Counted(t, a, j)
  BY ActiveHead DEF Undecided
<1>4. g \in [Id -> AggRec] /\ a \in AggRec /\ Sized(t, g, d)
  BY <1>1 DEF Kept, Accounted
<1>5. /\ a.remaining = 1 /\ a.remaining > 0
      /\ DOMAIN a.results = DOMAIN a.items /\ ~Decisive(a.kind, side)
  BY <1>4 DEF Sized
<1>6. /\ h \in [Id -> AggRec] /\ Alike(g, h) /\ \A e \in Id \ {d} : h[e] = g[e]
      /\ b.items = a.items /\ b.kind = a.kind /\ b.settled
      /\ DOMAIN b.results = DOMAIN b.items /\ b.results[k] = side
      /\ \A j \in DOMAIN a.items \ {k} : b.results[j] = a.results[j]
  <2>1. /\ g \in [Id -> AggRec] /\ d \in Id /\ g[d].remaining > 0 /\ k \in DOMAIN g[d].items
        /\ DOMAIN g[d].results = DOMAIN g[d].items /\ side \in Side
    BY <1>1, <1>2, <1>4, <1>5
  <2>2. /\ h \in [Id -> AggRec] /\ Alike(g, h) /\ \A e \in Id \ {d} : h[e] = g[e]
        /\ h[d].items = g[d].items /\ h[d].kind = g[d].kind
        /\ DOMAIN h[d].results = DOMAIN h[d].items /\ h[d].results[k] = side
        /\ \A j \in DOMAIN g[d].items \ {k} : h[d].results[j] = g[d].results[j]
    BY <2>1, RecordedFacts
  <2> QED BY <2>2
<1>7. x \in Side /\ v \in Value /\ v \notin Id /\ Ends(x, v)
  BY <1>1, EmptyFacts
<1>8. n[d].st = StOf(x) /\ n[d].val = v /\ Onward(t, n) /\ Keeps(t, n)
  <2> HIDE DEF x, v
  <2> QED BY <1>3, <1>7, EndsFacts
<1>9. x = AllSide(b.kind) /\ b \in AggRec
  BY <1>1, <1>6
<1> HIDE DEF t, n, a, b, x, v
<1>10. NoneDecides(t, b) /\ Left(b) = {}
  <2>1. EndedAs(t, a.items[k], StOf(side), Job.val)
    BY <1>1
  <2>2. EndedBy(t, a.items[k], StOf(side))
    BY <1>2, <2>1 DEF EndedBy
  <2>3. k \in DOMAIN a.items
    BY <1>1
  <2>4. NoneDecides(t, a)
    BY <1>3 DEF NoneDecides
  <2>5. Advances(a, b, k, side)
    BY <1>6 DEF Advances
  <2>6. NoneDecides(t, b)
    BY <1>2, <1>5, <2>2, <2>3, <2>4, <2>5, HeadCounts
  <2>7. Left(b) = Left(a) \ {k}
    BY <1>2, <2>3, <2>5, LeftCounts
  <2>8. Left(a) = {k}
    BY <1>3, <1>4, <1>5, <2>3, LastLeft DEF Left
  <2> QED BY <2>6, <2>7, <2>8
<1>11. ASSUME NEW j \in DOMAIN b.items
       PROVE  /\ b.results[j] \in {"ok", "err"} /\ EndedBy(n, b.items[j], StOf(b.results[j]))
              /\ b.kind # "race" /\ (b.kind = "all" => b.results[j] = "ok")
              /\ (b.kind = "any" => b.results[j] = "err")
  <2>1. Counted(n, b, j)
    BY <1>8, <1>10, CountedKept DEF NoneDecides
  <2>2. b.results[j] # "none"
    BY <1>10 DEF Left
  <2>3. b.results[j] \in {"none", "ok", "err"}
    BY <1>6, <1>9 DEF AggRec
  <2> QED BY <2>1, <2>2, <2>3 DEF Counted
<1>12. Justified(n, b, n[d])
  <2>1. b.kind # "race"
    BY <1>1, <1>6, <1>11
  <2>2. b.kind = "all" => AllEnded(n, b)
    BY <1>11 DEF AllEnded, StOf
  <2>3. AllCounted(n, b)
    BY <1>11 DEF AllCounted, StOf
  <2>4. b.kind = "any" => NoneEnded(n, b)
    BY <1>11 DEF NoneEnded, StOf
  <2> QED BY <1>8, <1>9, <2>1, <2>2, <2>3, <2>4 DEF Justified, AllSide, StOf
<1>13. Accounted(n, micro', h, d)
  <2>1. Sized(n, h, d)
    BY <1>1, <1>4, <1>6, <1>8 DEF Sized, a, b, StOf, Keeps
  <2>2. ~Active(h, d) /\ ~Empty(h, d)
    BY <1>1, <1>6 DEF Active, Empty, b
  <2> QED BY <1>12, <2>1, <2>2 DEF Accounted, b
<1> QED BY <1>3, <1>6, <1>7, <1>13, EndsKept DEF t, n

LEMMA RunStep ==
  ASSUME AggInv, RunAggregate
  PROVE  AggInv' /\ TableStep
<1> DEFINE d == Job.p
           a == agg[d]
<1>1. ObligationInv({"agg"}) /\ Kept(promise, micro, agg)
  BY DEF AggInv
<1>2. /\ micro # << >> /\ Job.op = "agg"
      /\ stack' = stack /\ co' = co /\ calls' = calls /\ loop' = loop /\ dropped' = dropped
  BY <1>1, AggShape
<1>3. \/ a.settled /\ agg' = agg /\ Skips
      \/ /\ ~a.settled /\ Decisive(a.kind, Job.side)
         /\ agg' = [agg EXCEPT ![d].settled = TRUE] /\ Ends(Job.side, Job.val)
      \/ /\ ~a.settled /\ ~Decisive(a.kind, Job.side) /\ a.remaining # 1
         /\ agg' = Recorded(agg, d, Job.arg, Job.side, FALSE) /\ Skips
      \/ /\ ~a.settled /\ ~Decisive(a.kind, Job.side) /\ a.remaining = 1
         /\ agg' = Recorded(agg, d, Job.arg, Job.side, TRUE)
         /\ Ends(AllSide(a.kind), AllValue(a.kind))
  BY <1>1, AggShape
<1>4. d \in Id
  BY <1>1, <1>2, AggHead
<1>5. Job.side \in Side /\ Job.val \in Value /\ (Job.side = "err" \/ Job.val \notin Id)
  BY <1>1, <1>2, HeadValue
<1>6. CASE Skips /\ agg' = agg /\ a.settled
  BY <1>1, <1>2, <1>6, AggOwing, IgnoreKept DEF AggInv
<1>7. CASE /\ ~a.settled /\ Decisive(a.kind, Job.side)
           /\ agg' = [agg EXCEPT ![d].settled = TRUE] /\ Ends(Job.side, Job.val)
  <2>1. ObligationInv({"agg"})' /\ TableStep
    BY <1>1, <1>2, <1>5, <1>7, AggOwing
  <2>2. Kept(promise', micro', agg')
    BY <1>1, <1>2, <1>7, DecideKept
  <2> QED BY <2>1, <2>2 DEF AggInv
<1>8. CASE /\ ~a.settled /\ ~Decisive(a.kind, Job.side) /\ a.remaining # 1
           /\ agg' = Recorded(agg, d, Job.arg, Job.side, FALSE) /\ Skips
  <2>1. ObligationInv({"agg"})' /\ TableStep
    BY <1>1, <1>2, <1>8, AggOwing
  <2>2. Kept(promise', micro', agg')
    BY <1>1, <1>2, <1>8, CountKept
  <2> QED BY <2>1, <2>2 DEF AggInv
<1>9. CASE /\ ~a.settled /\ ~Decisive(a.kind, Job.side) /\ a.remaining = 1
           /\ agg' = Recorded(agg, d, Job.arg, Job.side, TRUE)
           /\ Ends(AllSide(a.kind), AllValue(a.kind))
  <2>1. AllSide(a.kind) \in Side /\ AllValue(a.kind) \in Value /\ AllValue(a.kind) \notin Id
    BY <1>4, EmptyFacts
  <2>2. ObligationInv({"agg"})' /\ TableStep
    BY <1>1, <1>2, <1>9, <2>1, AggOwing
  <2>3. /\ agg \in [Id -> AggRec] /\ a.remaining > 0 /\ Job.arg \in DOMAIN a.items
        /\ DOMAIN a.results = DOMAIN a.items
    BY <1>1, <1>2, <1>4, <1>9, AggHead DEF Kept, Accounted, Sized
  <2>4. ASSUME NEW s \in BOOLEAN, agg' = Recorded(agg, d, Job.arg, Job.side, s)
        PROVE  agg'[d].settled = s
    <3> DEFINE g == agg
               h == agg'
               k == Job.arg
               side == Job.side
    <3>1. /\ g \in [Id -> AggRec] /\ d \in Id /\ g[d].remaining > 0 /\ k \in DOMAIN g[d].items
          /\ DOMAIN g[d].results = DOMAIN g[d].items /\ side \in Side /\ h = Recorded(g, d, k, side, s)
      BY <1>4, <1>5, <2>3, <2>4
    <3> HIDE DEF g, h, k, side, d
    <3>2. h[d].settled = s
      BY <3>1, RecordedFacts
    <3> QED BY <3>2 DEF h
  <2>5. agg'[d].settled
    BY <1>9, <2>4
  <2>6. Kept(promise', micro', agg')
    BY <1>1, <1>2, <1>9, <2>5, LastKept
  <2> QED BY <2>2, <2>6 DEF AggInv
<1> QED BY <1>3, <1>6, <1>7, <1>8, <1>9

(***************************************************************************)
(* A combinator is called.                                                 *)
(***************************************************************************)

LEMMA LeastNat ==
  ASSUME NEW T \in SUBSET Nat, T # {}
  PROVE  \E x \in T : \A y \in T : x <= y
<1>1. PICK x \in T : \A y \in T : <<y, x>> \notin OpToRel(<, Nat)
  BY NatLessThanWellFounded, WFMin, Zenon
<1>2. \A y \in T : ~(y < x)
  BY <1>1, Zenon DEF OpToRel
<1> QED BY <1>2

(* What attaching leaves after each item.                                  *)
Chain(f, t, d, items) ==
    f = [i \in 0 .. Len(items) |-> IF i = 0 THEN [table |-> t, queue |-> micro]
                                            ELSE Attach(f[i - 1], d, items, i)]

LEMMA ChainExists ==
  ASSUME NEW t, NEW d, NEW items, Len(items) \in Nat
  PROVE  \E f : Chain(f, t, d, items)
<1> DEFINE first == [table |-> t, queue |-> micro]
           step(x, i) == Attach(x, d, items, i)
           Upto(f, k) == f = [i \in 0 .. k |-> IF i = 0 THEN first ELSE step(f[i - 1], i)]
           T == {k \in Nat : ~\E f : Upto(f, k)}
<1> HIDE DEF first, step
<1>1. ASSUME T # {}  PROVE FALSE
  <2>1. PICK k \in T : \A j \in T : k <= j
    <3>1. T \in SUBSET Nat
      OBVIOUS
    <3> HIDE DEF T
    <3> QED BY <1>1, <3>1, LeastNat
  <2>2. k # 0
    <3>1. Upto([i \in 0 .. 0 |-> first], 0)
      OBVIOUS
    <3> QED BY <3>1
  <2>3. k - 1 \in Nat /\ k - 1 \notin T
    BY <2>1, <2>2
  <2>4. PICK f : Upto(f, k - 1)
    BY <2>3
  <2> DEFINE g == [i \in 0 .. k |-> IF i = k THEN step(f[k - 1], k) ELSE f[i]]
  <2>5. ASSUME NEW i \in 0 .. k  PROVE g[i] = IF i = 0 THEN first ELSE step(g[i - 1], i)
    <3>1. CASE i = k
      <4>1. k - 1 \in 0 .. k /\ k - 1 # k
        BY <2>2, <2>3
      <4>2. g[i - 1] = f[k - 1] /\ g[i] = step(f[k - 1], k)
        BY <3>1, <4>1
      <4> QED BY <2>2, <3>1, <4>2
    <3>2. CASE i # k
      <4>1. i \in 0 .. k - 1
        BY <2>3, <3>2
      <4>2. f[i] = IF i = 0 THEN first ELSE step(f[i - 1], i)
        BY <2>4, <4>1
      <4>3. i # 0 => i - 1 \in 0 .. k /\ i - 1 # k
        BY <3>2
      <4> QED BY <3>2, <4>2, <4>3
    <3> QED BY <3>1, <3>2
  <2>6. g = [i \in 0 .. k |-> IF i = 0 THEN first ELSE step(g[i - 1], i)]
    <3>1. g = [i \in 0 .. k |-> g[i]]
      OBVIOUS
    <3> HIDE DEF g
    <3> QED BY <2>5, <3>1
  <2>7. Upto(g, k)
    BY <2>6
  <2> HIDE DEF g, Upto
  <2> QED BY <2>1, <2>7
<1>2. \E f : Upto(f, Len(items))
  BY <1>1
<1> QED BY <1>2 DEF Chain, first, step

LEMMA AttachAllChain ==
  ASSUME NEW t, NEW d, NEW items, Len(items) \in Nat
  PROVE  \E f : Chain(f, t, d, items) /\ AttachAll(t, d, items) = f[Len(items)]
<1> DEFINE f == CHOOSE x : Chain(x, t, d, items)
<1>1. Chain(f, t, d, items)
  BY ChainExists
<1>2. AttachAll(t, d, items) = f[Len(items)]
  BY DEF AttachAll, Chain
<1> QED BY <1>1, <1>2

LEMMA HandlerFacts ==
  ASSUME NEW d \in Id, NEW side \in Side, NEW i \in Nat
  PROVE  /\ Handler(d, side, i) \in Safe /\ Handler(d, side, i) \in Act
         /\ Handler(d, side, i).op = "agg" /\ Handler(d, side, i).p = d
         /\ Handler(d, side, i).side = side /\ Handler(d, side, i).arg = i
<1>1. Handler(d, side, i) \in Safe
  BY CallbackType, ValueFacts DEF Handler, Op, Settling
<1> QED BY <1>1, SafeSeq DEF Handler, Callback

(* The handlers of the first i items of d have been attached.              *)
Attached(t, m, n, w, h, d, i) ==
    /\ Sound(n) /\ Neat(n) /\ w \in Seq(Safe) /\ Jobbed(w, n)
    /\ \A q \in Id : Same(t, n, q) /\ n[q].by = t[q].by
    /\ WaitsWell(n, h) /\ QueuedWell(n, w, h)
    /\ \A K, e : "agg" \notin K => Coming(n, w, K, e) = Coming(t, m, K, e)
    /\ \A e, j : OnWay(n, w, e, j) = Plus(OnWay(t, m, e, j), IF e = d /\ j \in 1 .. i THEN 1 ELSE 0)
    /\ \A b : Holds(m, b) => Holds(w, b)

(* What attaching one more does.                                           *)
Attaches(n, w, x, y, h, d, i) ==
    /\ Sound(x) /\ Neat(x) /\ y \in Seq(Safe) /\ Jobbed(y, x)
    /\ \A q \in Id : Same(n, x, q) /\ x[q].by = n[q].by
    /\ WaitsWell(x, h) /\ QueuedWell(x, y, h)
    /\ \A K, e : "agg" \notin K => Coming(x, y, K, e) = Coming(n, w, K, e)
    /\ \A e, j : OnWay(x, y, e, j) = Plus(OnWay(n, w, e, j), IF e = d /\ j = i THEN 1 ELSE 0)
    /\ \A b : Holds(w, b) => Holds(y, b)

LEMMA HandlerUnit ==
  ASSUME NEW a, a.op = "agg"
  PROVE  /\ \A e, j : Unit(a, {"agg"}, <<e, j>>) = IF e = a.p /\ j = a.arg THEN 1 ELSE 0
         /\ \A K, e : "agg" \notin K => Unit(a, K, e) = 0
BY DEF Unit, Hit, Aim

LEMMA AttachStep ==
  ASSUME NEW n, Sound(n), Neat(n), NEW w \in Seq(Safe), Jobbed(w, n),
         NEW h, WaitsWell(n, h), QueuedWell(n, w, h),
         NEW d \in Id, n[d].by = "agg", h[d].kind # "none",
         NEW items, h[d].items = items, NEW i \in Nat, i \in DOMAIN items,
         items[i] \in Value, items[i] \in Id => n[items[i]].st # "unborn",
         NEW z, z = [table |-> n, queue |-> w],
         NEW x, NEW y, Attach(z, d, items, i) = [table |-> x, queue |-> y]
  PROVE  Attaches(n, w, x, y, h, d, i)
<1> DEFINE ok == Handler(d, "ok", i)
           err == Handler(d, "err", i)
           v == items[i]
<1>1. /\ ok \in Safe /\ ok \in Act /\ ok.op = "agg" /\ ok.p = d /\ ok.side = "ok" /\ ok.arg = i
      /\ err \in Safe /\ err.op = "agg" /\ err.p = d /\ err.side = "err" /\ err.arg = i
  BY HandlerFacts DEF Side
<1>2. /\ v \in Id => x = Registered(n, v, ok, err) /\ y = w \o RegisteredJobs(n, v, ok, err)
      /\ v \notin Id => x = n /\ y = Append(w, Given(ok, v))
  BY DEF Attach
<1>3. Twin(ok, err) /\ WaitOK(ok, n)
  BY <1>1 DEF Twin, WaitOK, Releasing
<1>4. ItemOf(h, ok) /\ h[ok.p].items[ok.arg] = v
  BY <1>1 DEF ItemOf
<1>5. v \in Value /\ (v \in Id => n[v].st # "unborn")
  OBVIOUS
<1> HIDE DEF ok, err, v
<1>6. CASE v \in Id
  <2> DEFINE jobs == RegisteredJobs(n, v, ok, err)
  <2>1. x = Registered(n, v, ok, err) /\ y = w \o jobs /\ n[v].st # "unborn"
    BY <1>2, <1>5, <1>6
  <2>2. WaitOf(h, ok, v)
    BY <1>4 DEF WaitOf
  <2>3. /\ Sound(x) /\ jobs \in Seq(Safe)
    BY <1>1, <1>3, <1>6, <2>1, RegisteredFacts
  <2>4. /\ Neat(x) /\ \A q \in Id : x[q].by = n[q].by
        /\ Jobbed(w \o jobs, x)
        /\ \A K, e : Coming(x, w \o jobs, K, e) = Plus(Coming(n, w, K, e), Unit(ok, K, e))
    BY <1>1, <1>3, <1>6, <2>1, RegisterLoad
  <2>5. /\ WaitsWell(x, h) /\ QueuedWell(x, w \o jobs, h)
        /\ \A q \in Id : Same(n, x, q)
        /\ \A a : Holds(w, a) => Holds(w \o jobs, a)
    BY <1>1, <1>3, <1>6, <2>1, <2>2, RegisterKept
  <2> HIDE DEF jobs
  <2>6. w \o jobs \in Seq(Safe)
    BY <2>3
  <2>7. ASSUME NEW K, NEW e, "agg" \notin K  PROVE Coming(x, y, K, e) = Coming(n, w, K, e)
    <3>1. Unit(ok, K, e) = 0 /\ Coming(n, w, K, e) \in 0 .. 2
      BY <1>1, <2>7, HandlerUnit, DueRange
    <3>2. Coming(x, y, K, e) = Plus(Coming(n, w, K, e), Unit(ok, K, e))
      BY <2>1, <2>4
    <3> QED BY <3>1, <3>2 DEF Plus
  <2>8. \A e, j : OnWay(x, y, e, j) = Plus(OnWay(n, w, e, j), IF e = d /\ j = i THEN 1 ELSE 0)
    <3> SUFFICES ASSUME NEW e, NEW j
                 PROVE  OnWay(x, y, e, j) = Plus(OnWay(n, w, e, j), IF e = d /\ j = i THEN 1 ELSE 0)
      OBVIOUS
    <3>1. Unit(ok, {"agg"}, <<e, j>>) = IF e = ok.p /\ j = ok.arg THEN 1 ELSE 0
      BY <1>1, HandlerUnit
    <3>2. Coming(x, y, {"agg"}, <<e, j>>) = Plus(Coming(n, w, {"agg"}, <<e, j>>), Unit(ok, {"agg"}, <<e, j>>))
      BY <2>1, <2>4
    <3> QED BY <1>1, <3>1, <3>2 DEF OnWay
  <2> QED BY <2>1, <2>3, <2>4, <2>5, <2>6, <2>7, <2>8 DEF Attaches
<1>7. CASE v \notin Id
  <2> DEFINE a == Given(ok, v)
  <2>1. x = n /\ Pushes(y, w, a)
    BY <1>2, <1>7 DEF Pushes
  <2>2. a \in Safe
    BY <1>1, <1>5, <1>7, GivenType, SafeSeq
  <2>3. a \in Act /\ w \in Seq(Act)
    BY <2>2, SafeSeq
  <2>4. a.op = "agg" /\ a.p = d /\ a.side = "ok" /\ a.arg = i /\ a.val = v
    BY <1>1 DEF Given, Act
  <2> HIDE DEF a
  <2>5. y \in Seq(Safe)
    BY <2>1, <2>2 DEF Pushes
  <2>6. WaitOK(a, n) /\ JobOK(a, n)
    BY <2>4 DEF WaitOK, JobOK, Releasing
  <2>7. Jobbed(y, n)
    BY <2>1, <2>3, <2>6, JobsPush
  <2>8. CameTo(n, h, a)
    BY <1>1, <1>4, <1>7, <2>4 DEF CameTo, ItemOf, EndedAs, StOf
  <2>9. QueuedWell(n, y, h)
    <3>1. \A b : Holds(y, b) => Holds(w, b) \/ b = a
      BY <2>1, <2>3, PushHolds
    <3>2. \A b : Holds(w, b) => CameTo(n, h, b)
      BY QueuedHolds
    <3> QED BY <2>8, <3>1, <3>2, QueuedHolds
  <2>10. \A b : Holds(w, b) => Holds(y, b)
    BY <2>1, <2>3, PushHolds
  <2>11. ASSUME NEW K, NEW e  PROVE Coming(n, y, K, e) = Plus(Coming(n, w, K, e), Unit(a, K, e))
    <3>1. Load(y, K, e) = Plus(Load(w, K, e), Unit(a, K, e))
      BY <2>1, <2>3, LoadPush
    <3>2. /\ Held(n, Id, K, e) \in 0 .. 2 /\ Load(w, K, e) \in 0 .. 2 /\ Unit(a, K, e) \in 0 .. 1
      BY WaitRange, LoadRange DEF Unit
    <3> QED BY <3>1, <3>2 DEF Coming, Plus
  <2>12. ASSUME NEW K, NEW e, "agg" \notin K  PROVE Coming(n, y, K, e) = Coming(n, w, K, e)
    <3>1. Unit(a, K, e) = 0 /\ Coming(n, w, K, e) \in 0 .. 2
      BY <2>4, <2>12, HandlerUnit, DueRange
    <3> QED BY <2>11, <3>1 DEF Plus
  <2>13. \A e, j : OnWay(n, y, e, j) = Plus(OnWay(n, w, e, j), IF e = d /\ j = i THEN 1 ELSE 0)
    <3> SUFFICES ASSUME NEW e, NEW j
                 PROVE  OnWay(n, y, e, j) = Plus(OnWay(n, w, e, j), IF e = d /\ j = i THEN 1 ELSE 0)
      OBVIOUS
    <3>1. Unit(a, {"agg"}, <<e, j>>) = IF e = a.p /\ j = a.arg THEN 1 ELSE 0
      BY <2>4, HandlerUnit
    <3>2. Coming(n, y, {"agg"}, <<e, j>>) = Plus(Coming(n, w, {"agg"}, <<e, j>>), Unit(a, {"agg"}, <<e, j>>))
      BY <2>11
    <3> QED BY <2>4, <3>1, <3>2 DEF OnWay
  <2>14. \A q \in Id : Same(n, n, q)
    BY DEF Same
  <2> QED BY <2>1, <2>5, <2>7, <2>9, <2>10, <2>12, <2>13, <2>14 DEF Attaches
<1> QED BY <1>6, <1>7

LEMMA AttachedNext ==
  ASSUME NEW t, NEW m, NEW n, NEW w, NEW x, NEW y, NEW h, NEW d, NEW i \in Nat \ {0},
         Attached(t, m, n, w, h, d, i - 1), Attaches(n, w, x, y, h, d, i)
  PROVE  Attached(t, m, x, y, h, d, i)
<1>1. \A q \in Id : Same(t, x, q) /\ x[q].by = t[q].by
  BY DEF Attached, Attaches, Same
<1>2. \A K, e : "agg" \notin K => Coming(x, y, K, e) = Coming(t, m, K, e)
  BY DEF Attached, Attaches
<1>3. ASSUME NEW e, NEW j
      PROVE  OnWay(x, y, e, j) = Plus(OnWay(t, m, e, j), IF e = d /\ j \in 1 .. i THEN 1 ELSE 0)
  <2>1. OnWay(n, w, e, j) = Plus(OnWay(t, m, e, j), IF e = d /\ j \in 1 .. i - 1 THEN 1 ELSE 0)
    BY DEF Attached
  <2>2. OnWay(x, y, e, j) = Plus(OnWay(n, w, e, j), IF e = d /\ j = i THEN 1 ELSE 0)
    BY DEF Attaches
  <2>3. OnWay(t, m, e, j) \in 0 .. 2
    BY DueRange DEF OnWay
  <2>4. /\ j = i => j \in 1 .. i /\ j \notin 1 .. i - 1
        /\ j # i => (j \in 1 .. i <=> j \in 1 .. i - 1)
    OBVIOUS
  <2> QED BY <2>1, <2>2, <2>3, <2>4 DEF Plus
<1>4. \A b : Holds(m, b) => Holds(y, b)
  BY DEF Attached, Attaches
<1> QED BY <1>1, <1>2, <1>3, <1>4 DEF Attached, Attaches

Both(n, w) == [table |-> n, queue |-> w]

LEMMA AttachForm ==
  ASSUME NEW n, NEW w, NEW d, NEW items, NEW i
  PROVE  \E a, b : Attach(Both(n, w), d, items, i) = Both(a, b)
<1> DEFINE ok == Handler(d, "ok", i)
           err == Handler(d, "err", i)
           v == items[i]
           z == Both(n, w)
           put(e) == Append(e, Given(ok, v))
<1>1. z = [table |-> n, queue |-> w] /\ z.table = n /\ z.queue = w
  BY DEF Both
<1>2. Attach(z, d, items, i) = IF v \in Id THEN [table |-> Registered(z.table, v, ok, err),
                                                queue |-> z.queue \o RegisteredJobs(z.table, v, ok, err)]
                                          ELSE [z EXCEPT !.queue = put(z.queue)]
  BY DEF Attach
<1> HIDE DEF ok, err, v, put
<1>3. [z EXCEPT !.queue = put(z.queue)] = Both(n, put(w))
  BY DEF Both
<1> HIDE DEF z
<1>4. \/ Attach(z, d, items, i) = Both(Registered(n, v, ok, err), w \o RegisteredJobs(n, v, ok, err))
      \/ Attach(z, d, items, i) = Both(n, put(w))
  <2>1. Attach(z, d, items, i) = IF v \in Id THEN [table |-> Registered(n, v, ok, err),
                                                  queue |-> w \o RegisteredJobs(n, v, ok, err)]
                                            ELSE Both(n, put(w))
    BY <1>1, <1>2, <1>3
  <2> QED BY <2>1, Zenon DEF Both
<1> QED BY <1>4, Zenon DEF z

(* Attaching handlers to all the items, from a table that has d.           *)
LEMMA AttachedAll ==
  ASSUME NEW t, Sound(t), Neat(t), micro \in Seq(Safe), Jobbed(micro, t),
         NEW h, WaitsWell(t, h), QueuedWell(t, micro, h),
         NEW d \in Id, t[d].by = "agg", h[d].kind # "none",
         NEW items, h[d].items = items, Len(items) \in Nat, DOMAIN items = 1 .. Len(items),
         \A i \in DOMAIN items : items[i] \in Value /\ (items[i] \in Id => t[items[i]].st # "unborn"),
         NEW x, x = AttachAll(t, d, items)
  PROVE  Attached(t, micro, x.table, x.queue, h, d, Len(items))
<1> DEFINE N == Len(items)
<1>1. PICK f : Chain(f, t, d, items) /\ x = f[N]
  BY AttachAllChain
<1>2. /\ f[0] = [table |-> t, queue |-> micro]
      /\ \A i \in 1 .. N : f[i] = Attach(f[i - 1], d, items, i)
  BY <1>1 DEF Chain
<1> DEFINE Fine(i) == /\ f[i] = [table |-> f[i].table, queue |-> f[i].queue]
                      /\ Attached(t, micro, f[i].table, f[i].queue, h, d, i)
           T == {i \in Nat : i \in 0 .. N /\ ~Fine(i)}
<1>a. N \in Nat
  OBVIOUS
<1> HIDE DEF N
<1>3. Fine(0)
  <2>1. f[0].table = t /\ f[0].queue = micro
    BY <1>2
  <2>2. \A e, j : OnWay(t, micro, e, j) = Plus(OnWay(t, micro, e, j), IF e = d /\ j \in 1 .. 0 THEN 1 ELSE 0)
    <3> SUFFICES ASSUME NEW e, NEW j  PROVE OnWay(t, micro, e, j) = Plus(OnWay(t, micro, e, j), 0)
      OBVIOUS
    <3>1. OnWay(t, micro, e, j) \in 0 .. 2
      BY DueRange DEF OnWay
    <3> QED BY <3>1 DEF Plus
  <2>3. \A q \in Id : Same(t, t, q)
    BY DEF Same
  <2>4. Attached(t, micro, t, micro, h, d, 0)
    BY <2>2, <2>3 DEF Attached
  <2> QED BY <1>2, <2>1, <2>4
<1>4. ASSUME NEW i \in 1 .. N, Fine(i - 1)  PROVE Fine(i)
  <2> DEFINE n == f[i - 1].table
             w == f[i - 1].queue
             z == f[i - 1]
             y == f[i].table
             u == f[i].queue
  <2>1. z = [table |-> n, queue |-> w] /\ Attached(t, micro, n, w, h, d, i - 1)
    BY <1>4
  <2>2. f[i] = Attach(z, d, items, i)
    BY <1>2
  <2>3. f[i] = [table |-> y, queue |-> u]
    <3> HIDE DEF z, n, w
    <3>1. PICK a, b : Attach(Both(n, w), d, items, i) = Both(a, b)
      BY AttachForm
    <3>2. z = Both(n, w)
      BY <2>1 DEF Both
    <3>3. f[i] = Both(a, b)
      BY <2>2, <3>1, <3>2
    <3> QED BY <3>3 DEF Both
  <2>4. i \in DOMAIN items /\ i \in Nat /\ i \in Nat \ {0}
    BY DEF N
  <2> HIDE DEF n, w, z, y, u
  <2>5. /\ Sound(n) /\ Neat(n) /\ w \in Seq(Safe) /\ Jobbed(w, n)
        /\ WaitsWell(n, h) /\ QueuedWell(n, w, h) /\ n[d].by = "agg"
        /\ items[i] \in Value /\ (items[i] \in Id => n[items[i]].st # "unborn")
    BY <2>1, <2>4 DEF Attached, Same
  <2>6. Attach(z, d, items, i) = [table |-> y, queue |-> u]
    BY <2>2, <2>3
  <2>7. Attaches(n, w, y, u, h, d, i)
    BY <2>1, <2>4, <2>5, <2>6, AttachStep
  <2>8. Attached(t, micro, y, u, h, d, i)
    BY <2>1, <2>4, <2>7, AttachedNext
  <2> QED BY <2>3, <2>8 DEF y, u
<1> HIDE DEF Fine
<1>5. ASSUME T # {}  PROVE FALSE
  <2>1. PICK i \in T : \A j \in T : i <= j
    <3>1. T \in SUBSET Nat
      OBVIOUS
    <3> HIDE DEF T
    <3> QED BY <1>5, <3>1, LeastNat
  <2>2. i \in 1 .. N
    BY <1>3, <2>1
  <2>3. i - 1 \in 0 .. N /\ i - 1 \in Nat /\ i - 1 \notin T
    <3> HIDE DEF T
    <3>1. i - 1 \in 0 .. N /\ i - 1 \in Nat /\ ~(i <= i - 1)
      BY <1>a, <2>2
    <3> QED BY <2>1, <3>1
  <2>4. Fine(i - 1)
    BY <2>3
  <2>5. Fine(i)
    BY <1>4, <2>2, <2>4
  <2>6. ~Fine(i)
    BY <2>1
  <2> QED BY <2>5, <2>6
<1>6. Fine(N)
  BY <1>5 DEF N
<1> QED BY <1>1, <1>6 DEF Fine, N

(* Nothing names an aggregate that does not exist.                         *)
LEMMA NewNamed ==
  ASSUME NEW t, NEW m, NEW g, NEW d, g[d].kind = "none", WaitsWell(t, g), QueuedWell(t, m, g)
  PROVE  /\ \A i : OnWay(t, m, d, i) = 0
         /\ \A h : (\A e \in Id \ {d} : h[e] = g[e]) => WaitsWell(t, h) /\ QueuedWell(t, m, h)
<1>1. \A a : ItemOf(g, a) => a.p # d
  BY DEF ItemOf
<1>2. ASSUME NEW i  PROVE OnWay(t, m, d, i) = 0
  <2>1. ASSUME NEW a, Hit(a, {"agg"}, <<d, i>>)  PROVE a.op = "agg" /\ a.p = d
    BY <2>1 DEF Hit, Aim
  <2>2. \A q \in Id : NoHit(t[q].ok, {"agg"}, <<d, i>>)
    BY <1>1, <2>1 DEF NoHit, WaitsWell, WaitOf
  <2>3. NoHit(m, {"agg"}, <<d, i>>)
    BY <1>1, <2>1 DEF NoHit, QueuedWell, CameTo
  <2>4. Load(m, {"agg"}, <<d, i>>) = 0 /\ Held(t, Id, {"agg"}, <<d, i>>) = 0
    BY <2>2, <2>3, LoadNone, WaitNone DEF NoWait
  <2> QED BY <2>4 DEF OnWay, Coming, Plus
<1>3. ASSUME NEW h, \A e \in Id \ {d} : h[e] = g[e]  PROVE WaitsWell(t, h) /\ QueuedWell(t, m, h)
  <2>1. \A a : ItemOf(g, a) => ItemOf(h, a) /\ h[a.p].items = g[a.p].items
    BY <1>3, <1>1 DEF ItemOf
  <2>2. \A a, q : WaitOf(g, a, q) => WaitOf(h, a, q)
    BY <2>1 DEF WaitOf
  <2>3. \A a : CameTo(t, g, a) => CameTo(t, h, a)
    BY <2>1 DEF CameTo
  <2> QED BY <2>2, <2>3 DEF WaitsWell, QueuedWell
<1> QED BY <1>2, <1>3

(* A step that creates aggregate d leaves the others as they are.          *)
LEMMA NewKept ==
  ASSUME NEW t, Sound(t), NEW m, NEW g, Kept(t, m, g), NEW n, NEW w, NEW d \in Id,
         Onward(t, n), Keeps(t, n),
         NEW h \in [Id -> AggRec], WaitsWell(n, h), QueuedWell(n, w, h),
         \A e \in Id \ {d} : h[e] = g[e] /\ Same(t, n, e),
         \A e \in Id \ {d} : \A i : OnWay(n, w, e, i) = OnWay(t, m, e, i),
         \A b : Holds(m, b) => Holds(w, b),
         Accounted(n, w, h, d)
  PROVE  Kept(n, w, h)
<1>1. ASSUME NEW e \in Id, e # d  PROVE Accounted(n, w, h, e)
  <2>1. g[e] \in AggRec /\ Accounted(t, m, g, e)
    BY DEF Kept
  <2>2. \A k : Rests(t, m, n, w, e, k)
    BY <1>1 DEF Rests, Same
  <2>3. Same(t, n, e) /\ \A i : OnWay(n, w, e, i) = OnWay(t, m, e, i)
    BY <1>1
  <2>4. Accounted(n, w, g, e)
    BY <2>1, <2>2, <2>3, AccountedCarried
  <2>5. h[e] = g[e]
    BY <1>1
  <2> QED BY <2>4, <2>5 DEF Accounted, Sized, Active, Undecided, Empty, Vacuous
<1> QED BY <1>1 DEF Kept

(* What is owed after it.                                                  *)
NewOwed(d) ==
    /\ \A e \in Id : Coming(promise', micro', Obliging, e)
                       = Plus(Coming(promise, micro, Obliging, e),
                              IF e = d /\ promise'[d].by = "chain" THEN 1 ELSE 0)
    /\ \A e \in Id : Coming(promise', micro', {"resume"}, e) = Coming(promise, micro, {"resume"}, e)

LEMMA NewOwing ==
  ASSUME ObligationInv({"agg"}), NEW d \in Id, ~Born(d),
         Sound(promise'), Neat(promise'), micro' \in Seq(Safe), Jobbed(micro', promise'),
         \A e \in Id \ {d} : Same(promise, promise', e) /\ promise'[e].by = promise[e].by,
         promise'[d].st = "pending", promise'[d].by \in {"agg", "chain"}, NewOwed(d),
         stack' = stack, co' = co, dropped' = dropped, calls' = calls + 1, loop' = loop
  PROVE  ObligationInv({"agg"})' /\ TableStep
<1>1. /\ PromiseInv /\ Neat(promise) /\ Framed(stack, promise)
      /\ Launched(stack) /\ Lost /\ Owing({"agg"}) /\ Awake /\ stack \in Seq(Safe)
  BY InvSeqs DEF ObligationInv, Shape
<1>2. promise[d].st = "unborn" /\ promise[d].by = "none" /\ d \notin dropped
  BY <1>1 DEF Born, Neat, Lost
<1>3. Keeps(promise, promise')
  BY <1>2 DEF Keeps
<1>4. PromiseInv' /\ TableStep
  BY <1>1, <1>2 DEF PromiseInv, TableStep, Moves
<1>5. Shape'
  <2>1. Framed(stack', promise') /\ Launched(stack')
    BY <1>1, <1>3, AllKept
  <2>2. Lost'
    BY <1>1, <1>2 DEF Lost, Born, Same, PromiseInv
  <2> QED BY <2>1, <2>2 DEF Shape
<1>6. Owing({"agg"})'
  <2> SUFFICES ASSUME NEW e \in Id
               PROVE  /\ Settles(e)' => Owed(promise', micro', stack', e) = IF Open(e)' THEN 1 ELSE 0
                      /\ Idle({"agg"}, e)' => Owed(promise', micro', stack', e) = 0
    BY DEF Owing
  <2>1. /\ Coming(promise, micro, Obliging, e) \in 0 .. 2 /\ Load(stack, Obliging, e) \in 0 .. 2
        /\ Coming(promise', micro', Obliging, e)
             = Plus(Coming(promise, micro, Obliging, e), IF e = d /\ promise'[d].by = "chain" THEN 1 ELSE 0)
    BY OwedRange DEF NewOwed
  <2>2. CASE e = d
    <3>1. Owed(promise, micro, stack, e) = 0
      BY <1>1, <1>2, <2>2 DEF Idle, Owing
    <3>2. Coming(promise, micro, Obliging, e) = 0 /\ Load(stack, Obliging, e) = 0
      BY <2>1, <3>1 DEF Owed, Plus
    <3>3. Owed(promise', micro', stack', e) = IF promise'[d].by = "chain" THEN 1 ELSE 0
      BY <2>1, <2>2, <3>2 DEF Owed, Plus
    <3> QED BY <1>2, <2>2, <3>3 DEF Settles, Open, Idle
  <2>3. CASE e # d
    <3>1. (Open(e)' <=> Open(e)) /\ (Settles(e)' <=> Settles(e)) /\ (Idle({"agg"}, e)' <=> Idle({"agg"}, e))
      BY <2>3 DEF Open, Settles, Idle, Same
    <3>2. Owed(promise', micro', stack', e) = Owed(promise, micro, stack, e)
      BY <2>1, <2>3 DEF Owed, Plus
    <3> QED BY <1>1, <3>1, <3>2 DEF Owing
  <2> QED BY <2>2, <2>3
<1>7. Awake'
  BY <1>1, AwakeSame DEF NewOwed, Resumes
<1> QED BY <1>4, <1>5, <1>6, <1>7 DEF ObligationInv

LEMMA EmptyStep ==
  ASSUME AggInv, NEW d \in Id, ~Born(d), NEW kind \in Kind, AggregateEmpty(d, kind),
         stack' = stack, co' = co, dropped' = dropped, calls' = calls + 1, loop' = loop
  PROVE  AggInv' /\ TableStep
<1> DEFINE r == Pending("chain")
           a == EmptyJob(d, kind)
           b == [Unused EXCEPT !.kind = kind]
           n == promise'
           w == micro'
           g == agg
           h == agg'
<1>1. /\ kind # "race" /\ w = Append(micro, a) /\ n = [promise EXCEPT ![d] = r]
      /\ h = [agg EXCEPT ![d] = b]
  BY DEF AggregateEmpty, EmptyJob, AllSide, AllValue
<1>2. /\ ObligationInv({"agg"}) /\ PromiseInv /\ Sound(promise) /\ Neat(promise) /\ Jobbed(micro, promise)
      /\ micro \in Seq(Safe) /\ micro \in Seq(Act) /\ promise[d].st = "unborn"
      /\ Kept(promise, micro, g)
  BY InvSeqs DEF AggInv, ObligationInv, Shape, Born
<1>3. GoodRec(r) /\ r.st = "pending" /\ r.by = "chain" /\ r.ok = << >>
  BY FreshRecs DEF Origin, Pending
<1>4. a \in Safe /\ a \in Act /\ a.op = "cap" /\ a.p = d
  BY EmptyFacts
<1>5. b.kind = kind /\ b.items = << >> /\ b.results = << >> /\ b.remaining = 0 /\ ~b.settled
  BY DEF Unused
<1>6. b \in AggRec
  <2>1. << >> \in Seq({"none", "ok", "err"}) /\ << >> \in Seq(Value)
    OBVIOUS
  <2>2. Unused \in AggRec
    BY <2>1 DEF Unused, AggRec
  <2> QED BY <2>2 DEF AggRec
<1>7. g \in [Id -> AggRec] /\ g[d].kind = "none"
  BY <1>2 DEF Kept, Accounted, Sized
<1>8. h \in [Id -> AggRec] /\ h[d] = b /\ \A e \in Id \ {d} : h[e] = g[e]
  BY <1>1, <1>6, <1>7
<1>9. Becomes(promise, n, d, r) /\ Sound(n)
  BY <1>1, <1>2, <1>3, CreateStep DEF Sound, Table, Becomes
<1>10. Pushes(w, micro, a) /\ w \in Seq(Safe)
  BY <1>1, <1>2, <1>4 DEF Pushes
<1> HIDE DEF r, a, b, n, w, g, h
<1>11. n[d] = r /\ \A e \in Id \ {d} : n[e] = promise[e]
  BY <1>9 DEF Becomes
<1>12. /\ Neat(n) /\ Keeps(promise, n)
       /\ \A m, K, e : Coming(n, m, K, e) = Coming(promise, m, K, e)
  BY <1>2, <1>3, <1>9, CreateLoad
<1>13. Onward(promise, n) /\ WaitsWell(n, g) /\ QueuedWell(n, micro, g)
  BY <1>2, <1>3, <1>9, CreateKept DEF Kept
<1>14. WaitsWell(n, h) /\ QueuedWell(n, micro, h)
  BY <1>7, <1>8, <1>13, NewNamed
<1>15. \A c : Holds(w, c) <=> Holds(micro, c) \/ c = a
  BY <1>2, <1>4, <1>10, PushHolds
<1>16. QueuedWell(n, w, h)
  <2>1. \A c : Holds(micro, c) => CameTo(n, h, c)
    BY <1>14, QueuedHolds
  <2>2. CameTo(n, h, a)
    BY <1>4 DEF CameTo
  <2> QED BY <1>15, <2>1, <2>2, QueuedHolds
<1>17. ASSUME NEW K, NEW e  PROVE Coming(n, w, K, e) = Plus(Coming(promise, micro, K, e), Unit(a, K, e))
  <2>1. Load(w, K, e) = Plus(Load(micro, K, e), Unit(a, K, e))
    BY <1>2, <1>4, <1>10, LoadPush
  <2>2. /\ Held(n, Id, K, e) \in 0 .. 2 /\ Load(micro, K, e) \in 0 .. 2 /\ Unit(a, K, e) \in 0 .. 1
    BY WaitRange, LoadRange DEF Unit
  <2>3. Coming(n, w, K, e) = Plus(Coming(n, micro, K, e), Unit(a, K, e))
    BY <2>1, <2>2 DEF Coming, Plus
  <2> QED BY <1>12, <2>3
<1>18. \A e, j : OnWay(n, w, e, j) = OnWay(promise, micro, e, j)
  <2> SUFFICES ASSUME NEW e, NEW j  PROVE OnWay(n, w, e, j) = OnWay(promise, micro, e, j)
    OBVIOUS
  <2>1. Unit(a, {"agg"}, <<e, j>>) = 0
    BY <1>4 DEF Unit, Hit
  <2>2. OnWay(promise, micro, e, j) \in 0 .. 2
    BY DueRange DEF OnWay
  <2> QED BY <1>17, <2>1, <2>2 DEF OnWay, Plus
<1>19. Accounted(n, w, h, d)
  <2>1. Sized(n, h, d) /\ ~Active(h, d)
    BY <1>3, <1>5, <1>8, <1>11 DEF Sized, Active
  <2>2. Justified(n, h[d], n[d])
    BY <1>3, <1>11 DEF Justified
  <2>3. Holds(w, EmptyJob(d, h[d].kind))
    BY <1>5, <1>8, <1>15 DEF a
  <2>4. Vacuous(n, w, h, d)
    BY <1>1, <1>3, <1>5, <1>8, <1>11, <2>3 DEF Vacuous
  <2> QED BY <2>1, <2>2, <2>4 DEF Accounted
<1>20. Kept(n, w, h)
  BY <1>2, <1>8, <1>11, <1>12, <1>13, <1>14, <1>15, <1>16, <1>18, <1>19, NewKept DEF Same
<1>21. NewOwed(d)
  <2>1. \A e : Unit(a, Obliging, e) = IF e = d THEN 1 ELSE 0
    BY <1>4 DEF Unit, Hit, Aim, Obliging
  <2>2. ASSUME NEW e  PROVE Coming(n, w, {"resume"}, e) = Coming(promise, micro, {"resume"}, e)
    <3>1. Unit(a, {"resume"}, e) = 0
      BY <1>4 DEF Unit, Hit
    <3>2. Coming(promise, micro, {"resume"}, e) \in 0 .. 2
      BY DueRange
    <3> QED BY <1>17, <3>1, <3>2 DEF Plus
  <2>3. n[d].by = "chain"
    BY <1>3, <1>11
  <2> QED BY <1>17, <2>1, <2>2, <2>3 DEF NewOwed, n, w
<1>22. Jobbed(w, n)
  <2>1. Jobbed(micro, n)
    BY <1>2, <1>12, AllKept
  <2>2. JobOK(a, n)
    BY <1>4 DEF JobOK, WaitOK, Releasing
  <2> QED BY <1>2, <1>4, <1>10, <2>1, <2>2, JobsPush
<1>23. \A e \in Id \ {d} : Same(promise, n, e) /\ n[e].by = promise[e].by
  BY <1>11 DEF Same
<1>24. n[d].st = "pending" /\ n[d].by \in {"agg", "chain"}
  BY <1>3, <1>11
<1>25. ObligationInv({"agg"})' /\ TableStep
  BY <1>2, <1>9, <1>10, <1>12, <1>21, <1>22, <1>23, <1>24, NewOwing DEF n, w
<1> QED BY <1>20, <1>25 DEF AggInv, n, w, h

LEMMA ItemsStep ==
  ASSUME AggInv, NEW d \in Id, ~Born(d), NEW kind \in Kind, NEW N \in Nat \ {0},
         NEW items \in [1 .. N -> Passable], AggregateItems(d, kind, items),
         stack' = stack, co' = co, dropped' = dropped, calls' = calls + 1, loop' = loop
  PROVE  AggInv' /\ TableStep
<1> DEFINE r == Pending("agg")
           t == [promise EXCEPT ![d] = r]
           x == AttachAll(t, d, items)
           rs == [i \in DOMAIN items |-> "none"]
           b == [kind |-> kind, remaining |-> Len(items), settled |-> FALSE, items |-> items, results |-> rs]
           n == promise'
           w == micro'
           g == agg
           h == agg'
<1>1. n = x.table /\ w = x.queue /\ h = [agg EXCEPT ![d] = b]
  BY DEF AggregateItems
<1>2. /\ ObligationInv({"agg"}) /\ PromiseInv /\ Sound(promise) /\ Neat(promise) /\ Jobbed(micro, promise)
      /\ micro \in Seq(Safe) /\ micro \in Seq(Act) /\ promise[d].st = "unborn"
      /\ Kept(promise, micro, g)
  BY InvSeqs DEF AggInv, ObligationInv, Shape, Born
<1>3. GoodRec(r) /\ r.st = "pending" /\ r.by = "agg" /\ r.ok = << >>
  BY FreshRecs DEF Origin, Pending
<1>4. /\ items \in Seq(Value) /\ Len(items) = N /\ DOMAIN items = 1 .. N
      /\ rs \in Seq({"none", "ok", "err"}) /\ DOMAIN rs = DOMAIN items
      /\ \A i \in DOMAIN items : rs[i] = "none"
  <2>1. items \in [1 .. N -> Value]
    BY PassableFacts
  <2>2. \A S : \A f \in [1 .. N -> S] : f \in Seq(S) /\ Len(f) = N /\ DOMAIN f = 1 .. N
    OBVIOUS
  <2>3. rs \in [1 .. N -> {"none", "ok", "err"}]
    OBVIOUS
  <2> QED BY <2>1, <2>2, <2>3
<1>5. \A i \in DOMAIN items : items[i] \in Value /\ (items[i] \in Id => promise[items[i]].st # "unborn")
  <2>1. \A v \in Passable : v \in Value /\ (v \in Id => promise[v].st # "unborn")
    BY PassableFacts, ValueFacts, PlainAssumption DEF Passable, Visible, Born
  <2> QED BY <2>1
<1> HIDE DEF rs
<1>6. b.kind = kind /\ b.items = items /\ b.results = rs /\ b.remaining = N /\ ~b.settled /\ b \in AggRec
  BY <1>4 DEF AggRec
<1>7. g \in [Id -> AggRec] /\ g[d].kind = "none"
  BY <1>2 DEF Kept, Accounted, Sized
<1> HIDE DEF b, x, r
<1>8. h \in [Id -> AggRec] /\ h[d] = b /\ \A e \in Id \ {d} : h[e] = g[e]
  BY <1>1, <1>6, <1>7
<1>9. Becomes(promise, t, d, r) /\ Sound(t)
  BY <1>2, <1>3, CreateStep DEF Sound, Table, Becomes
<1> HIDE DEF t, n, w, g, h
<1>10. t[d] = r /\ \A e \in Id \ {d} : t[e] = promise[e]
  BY <1>9 DEF Becomes
<1>11. /\ Neat(t) /\ Keeps(promise, t)
       /\ \A m, K, e : Coming(t, m, K, e) = Coming(promise, m, K, e)
  BY <1>2, <1>3, <1>9, CreateLoad
<1>12. Onward(promise, t) /\ WaitsWell(t, g) /\ QueuedWell(t, micro, g)
  BY <1>2, <1>3, <1>9, CreateKept DEF Kept
<1>13. /\ WaitsWell(t, h) /\ QueuedWell(t, micro, h)
       /\ \A i : OnWay(t, micro, d, i) = 0
  BY <1>7, <1>8, <1>12, NewNamed
<1>14. Jobbed(micro, t)
  BY <1>2, <1>11, AllKept
<1>15. Attached(t, micro, n, w, h, d, N)
  <2>1. \A i \in DOMAIN items : items[i] \in Id => t[items[i]].st # "unborn"
    BY <1>3, <1>5, <1>10
  <2>2. h[d].kind # "none" /\ h[d].items = items
    BY <1>6, <1>8 DEF Kind
  <2>3. Len(items) \in Nat /\ DOMAIN items = 1 .. Len(items)
    BY <1>4
  <2>4. t[d].by = "agg"
    BY <1>3, <1>10
  <2>5. Attached(t, micro, x.table, x.queue, h, d, Len(items))
    BY <1>2, <1>5, <1>9, <1>11, <1>13, <1>14, <2>1, <2>2, <2>3, <2>4, AttachedAll DEF x
  <2> QED BY <1>1, <1>4, <2>5
<1>16. /\ Sound(n) /\ Neat(n) /\ w \in Seq(Safe) /\ Jobbed(w, n)
       /\ WaitsWell(n, h) /\ QueuedWell(n, w, h)
       /\ n[d].st = "pending" /\ n[d].by = "agg"
       /\ \A e \in Id \ {d} : Same(promise, n, e) /\ n[e].by = promise[e].by
       /\ \A c : Holds(micro, c) => Holds(w, c)
  BY <1>3, <1>10, <1>15 DEF Attached, Same
<1>17. \A K, e : "agg" \notin K => Coming(n, w, K, e) = Coming(promise, micro, K, e)
  BY <1>11, <1>15 DEF Attached
<1>18. \A e \in Id \ {d} : \A j : OnWay(n, w, e, j) = OnWay(promise, micro, e, j)
  <2> SUFFICES ASSUME NEW e \in Id \ {d}, NEW j  PROVE OnWay(n, w, e, j) = OnWay(promise, micro, e, j)
    OBVIOUS
  <2>1. OnWay(n, w, e, j) = Plus(OnWay(t, micro, e, j), 0)
    BY <1>15 DEF Attached
  <2>2. OnWay(t, micro, e, j) \in 0 .. 2 /\ OnWay(t, micro, e, j) = OnWay(promise, micro, e, j)
    BY <1>11, DueRange DEF OnWay
  <2> QED BY <2>1, <2>2 DEF Plus
<1>19. \A j \in 1 .. N : OnWay(n, w, d, j) = 1
  <2> SUFFICES ASSUME NEW j \in 1 .. N  PROVE OnWay(n, w, d, j) = 1
    OBVIOUS
  <2>1. OnWay(n, w, d, j) = Plus(OnWay(t, micro, d, j), 1)
    BY <1>15 DEF Attached
  <2> QED BY <1>13, <2>1 DEF Plus
<1>20. Keeps(promise, n) /\ Onward(promise, n)
  <2>1. promise[d].by = "none"
    BY <1>2 DEF Neat
  <2> QED BY <1>2, <1>16, <2>1 DEF Keeps, Onward, Same
<1>21. Accounted(n, w, h, d)
  <2>1. Sized(n, h, d)
    BY <1>4, <1>6, <1>8, <1>16 DEF Sized
  <2>2. Justified(n, h[d], n[d])
    BY <1>16 DEF Justified
  <2>3. items # << >>
    <3>1. 1 \in DOMAIN items
      BY <1>4
    <3>2. DOMAIN << >> = {}
      OBVIOUS
    <3> QED BY <3>1, <3>2
  <2>4. ~Empty(h, d)
    BY <1>6, <1>8, <2>3 DEF Empty
  <2>5. Left(b) = 1 .. N
    BY <1>4, <1>6 DEF Left
  <2>6. Cardinality(1 .. N) = N
    BY FS_Interval
  <2>7. b.remaining = Cardinality(Left(b)) /\ b.remaining > 0
    BY <1>6, <2>5, <2>6
  <2>8. \A i \in DOMAIN b.items : b.results[i] = "none" /\ OnWay(n, w, d, i) = 1
    BY <1>4, <1>6, <1>19
  <2>9. \A i \in DOMAIN b.items : Counted(n, b, i)
    BY <2>8 DEF Counted
  <2>10. Undecided(n, w, h, d)
    BY <1>8, <1>16, <2>7, <2>8, <2>9 DEF Undecided
  <2> QED BY <2>1, <2>2, <2>4, <2>10 DEF Accounted
<1>22. Kept(n, w, h)
  BY <1>2, <1>8, <1>16, <1>18, <1>20, <1>21, NewKept
<1>23. NewOwed(d)
  <2>1. "agg" \notin Obliging /\ "agg" \notin {"resume"} /\ n[d].by # "chain"
    BY <1>16 DEF Obliging
  <2>2. \A e : Coming(promise, micro, Obliging, e) \in 0 .. 2
    BY DueRange
  <2>3. \A e : Coming(promise, micro, Obliging, e) = Plus(Coming(promise, micro, Obliging, e), 0)
    BY <2>2 DEF Plus
  <2> QED BY <1>17, <2>1, <2>3 DEF NewOwed, n, w
<1>24. n[d].by \in {"agg", "chain"}
  BY <1>16
<1>25. ObligationInv({"agg"})' /\ TableStep
  BY <1>2, <1>16, <1>23, <1>24, NewOwing DEF n, w
<1> QED BY <1>22, <1>25 DEF AggInv, n, w, h

(* A combinator is called with any items.                                  *)
LEMMA AggregateStep ==
  ASSUME AggInv, Aggregate
  PROVE  AggInv' /\ TableStep
<1>1. PICK d \in Id, kind \in Kind, n \in 0 .. MaxItems :
        /\ Calls(kind) /\ Fresh(d)
        /\ \/ n = 0 /\ AggregateEmpty(d, kind)
           \/ n > 0 /\ \E items \in [1 .. n -> Passable] : AggregateItems(d, kind, items)
        /\ UNCHANGED <<stack, co, dropped>>
  BY DEF Aggregate
<1>2. /\ ~Born(d) /\ calls' = calls + 1 /\ loop' = loop
      /\ stack' = stack /\ co' = co /\ dropped' = dropped
  BY <1>1 DEF Calls, Fresh, Next1
<1>3. CASE n = 0 /\ AggregateEmpty(d, kind)
  BY <1>2, <1>3, EmptyStep
<1>4. CASE n > 0 /\ \E items \in [1 .. n -> Passable] : AggregateItems(d, kind, items)
  <2>1. n \in Nat \ {0}
    BY <1>4
  <2>2. PICK items \in [1 .. n -> Passable] : AggregateItems(d, kind, items)
    BY <1>4
  <2> QED BY <1>2, <2>1, <2>2, ItemsStep
<1> QED BY <1>1, <1>3, <1>4

(***************************************************************************)
(* The invariant holds, and what follows.                                  *)
(***************************************************************************)

LEMMA AggStarts == AggInit => AggInv
<1> SUFFICES ASSUME AggInit  PROVE AggInv
  OBVIOUS
<1>1. PromiseInit /\ agg = [p \in Id |-> Unused]
  BY DEF AggInit
<1>2. ObligationInv({"agg"})
  BY <1>1, Own, ObligationInit
<1>3. promise = [p \in Id |-> Unborn] /\ micro = << >> /\ DOMAIN << >> = {}
  BY <1>1 DEF PromiseInit
<1>4. Unused \in AggRec
  <2>1. << >> \in Seq({"none", "ok", "err"}) /\ << >> \in Seq(Value)
    OBVIOUS
  <2> QED BY <2>1 DEF Unused, AggRec
<1>5. /\ agg \in [Id -> AggRec]
      /\ \A d \in Id : agg[d].kind = "none" /\ agg[d].results = agg[d].items
  BY <1>1, <1>4 DEF Unused
<1>6. WaitsWell(promise, agg) /\ QueuedWell(promise, micro, agg)
  BY <1>3 DEF WaitsWell, QueuedWell, Unborn
<1>7. \A d \in Id : Accounted(promise, micro, agg, d)
  BY <1>5 DEF Accounted, Sized, Active, Empty
<1> QED BY <1>2, <1>5, <1>6, <1>7 DEF AggInv, Kept

LEMMA AggKept == AggInv /\ [AggNext]_aggVars => AggInv' /\ TableStep
<1> SUFFICES ASSUME AggInv, [AggNext]_aggVars  PROVE AggInv' /\ TableStep
  OBVIOUS
<1>1. CASE Aggregate
  BY <1>1, AggregateStep
<1>2. CASE RunAggregate
  BY <1>2, RunStep
<1>3. CASE [PromiseNext]_promiseVars /\ agg' = agg
  <2>1. ObligationInv({"agg"}) /\ Kept(promise, micro, agg) /\ PromiseInv
    BY DEF AggInv, ObligationInv
  <2>2. ObligationInv({"agg"})'
    BY <1>3, <2>1, Own, ObligationNext
  <2>3. TableStep
    BY <1>3, <2>1, InvNext
  <2>4. Kept(promise', micro', agg)
    BY <1>3, <2>1, PromiseKept
  <2> QED BY <1>3, <2>2, <2>3, <2>4 DEF AggInv
<1> QED BY <1>1, <1>2, <1>3 DEF AggNext, aggVars

LEMMA AggAlways == AggSpec => []AggInv
<1>1. AggInit => AggInv
  BY AggStarts
<1>2. AggInv /\ [AggNext]_aggVars => AggInv'
  BY AggKept
<1> QED BY <1>1, <1>2, PTL DEF AggSpec

(* The handlers for one item, counted.                                     *)
LEMMA HandlersCounted ==
  ASSUME NEW d \in Id, NEW i, OnWay(promise, micro, d, i) # 2
  PROVE  Cardinality(Handlers(d, i)) = OnWay(promise, micro, d, i)
<1> DEFINE K == {"agg"}
           e == <<d, i>>
           A == UNION {{<<q, j>> : j \in {k \in DOMAIN promise[q].ok : Hit(promise[q].ok[k], K, e)}} : q \in Id}
           S == {k \in DOMAIN micro : Hit(micro[k], K, e)}
           B == {<<0, j>> : j \in S}
           x == Held(promise, Id, K, e)
           y == Load(micro, K, e)
<1>1. \A a : Hit(a, K, e) <=> a.op = "agg" /\ a.p = d /\ a.arg = i
  BY DEF Hit, Aim
<1>2. Handlers(d, i) = A \cup B
  <2>1. \A z : z \in A <=> \E q \in Id : \E j \in DOMAIN promise[q].ok :
                              Hit(promise[q].ok[j], K, e) /\ z = <<q, j>>
    OBVIOUS
  <2>2. \A z : z \in WaitingFor(d, i) <=> \E q \in Id : \E j \in DOMAIN promise[q].ok :
                 /\ promise[q].ok[j].op = "agg" /\ promise[q].ok[j].p = d /\ promise[q].ok[j].arg = i
                 /\ z = <<q, j>>
    BY DEF WaitingFor
  <2> HIDE DEF A, K, e
  <2>3. \A z : z \in WaitingFor(d, i) <=> z \in A
    BY <1>1, <2>1, <2>2
  <2>4. S = {k \in DOMAIN micro : micro[k].op = "agg" /\ micro[k].p = d /\ micro[k].arg = i}
    BY <1>1
  <2>5. B = QueuedFor(d, i)
    BY <2>4 DEF QueuedFor
  <2> HIDE DEF B
  <2> QED BY <2>3, <2>5 DEF Handlers
<1>3. x \in 0 .. 2 /\ y \in 0 .. 2 /\ OnWay(promise, micro, d, i) = Plus(x, y)
  BY WaitRange, LoadRange DEF OnWay, Coming
<1>4. x # 2 /\ y # 2 /\ OnWay(promise, micro, d, i) = x + y /\ (x = 0 \/ y = 0)
  BY <1>3 DEF Plus
<1>5. Cardinality(A) = x
  BY <1>4, WaitCardinality
<1>6. CASE y = 0
  <2>1. NoHit(micro, K, e)
    BY <1>6, LoadNone
  <2>2. S = {}
    BY <2>1 DEF NoHit
  <2>3. A \cup B = A
    BY <2>2
  <2> HIDE DEF A, B, x, y
  <2>4. Handlers(d, i) = A /\ OnWay(promise, micro, d, i) = x
    BY <1>2, <1>3, <1>4, <1>6, <2>3
  <2> QED BY <1>5, <2>4
<1>7. CASE y # 0
  <2>1. x = 0 /\ y = 1
    BY <1>3, <1>4, <1>7
  <2>2. NoWait(promise, Id, K, e)
    BY <2>1, WaitNone
  <2>3. \A q \in Id : NoHit(promise[q].ok, K, e)
    BY <2>2, LoadNone DEF NoWait
  <2>4. A = {}
    BY <2>3 DEF NoHit
  <2>5. OneHit(micro, K, e)
    BY <2>1 DEF Load
  <2>6. PICK k \in DOMAIN micro : Hit(micro[k], K, e) /\ \A j \in DOMAIN micro \ {k} : ~Hit(micro[j], K, e)
    BY <2>5 DEF OneHit
  <2>7. S = {k}
    BY <2>6
  <2>8. B = {<<0, k>>}
    BY <2>7
  <2> HIDE DEF A, B, x, y
  <2>9. Handlers(d, i) = {<<0, k>>} /\ OnWay(promise, micro, d, i) = 1
    BY <1>2, <1>4, <2>1, <2>4, <2>8
  <2> QED BY <2>9, FS_Singleton
<1> QED BY <1>6, <1>7

LEMMA InvAccounts == AggInv => ItemsAccounted
<1> SUFFICES ASSUME AggInv, NEW d \in Id, agg[d].kind # "none", ~agg[d].settled
             PROVE  /\ \A i \in Items(d) :
                          Cardinality(Handlers(d, i)) = IF agg[d].results[i] = "none" THEN 1 ELSE 0
                    /\ agg[d].remaining = Cardinality({i \in Items(d) : agg[d].results[i] = "none"})
                    /\ Items(d) # {} => agg[d].remaining > 0 /\ promise[d].st = "pending"
  BY DEF ItemsAccounted
<1>1. Accounted(promise, micro, agg, d)
  BY DEF AggInv, Kept
<1>2. Items(d) = DOMAIN agg[d].items /\ {i \in Items(d) : agg[d].results[i] = "none"} = Left(agg[d])
  BY DEF Items, Left
<1>3. CASE agg[d].items = << >>
  <2>1. DOMAIN << >> = {}
    OBVIOUS
  <2>2. Items(d) = {}
    BY <1>2, <1>3, <2>1
  <2>3. agg[d].remaining = 0
    BY <1>1, <1>3 DEF Accounted, Empty, Vacuous
  <2>4. {i \in Items(d) : agg[d].results[i] = "none"} = {}
    BY <2>2
  <2> QED BY <2>2, <2>3, <2>4, FS_EmptySet
<1>4. CASE agg[d].items # << >>
  <2>1. Undecided(promise, micro, agg, d)
    BY <1>1, <1>4 DEF Accounted, Active
  <2>2. ASSUME NEW i \in Items(d)
        PROVE  Cardinality(Handlers(d, i)) = IF agg[d].results[i] = "none" THEN 1 ELSE 0
    <3>1. OnWay(promise, micro, d, i) = IF agg[d].results[i] = "none" THEN 1 ELSE 0
      BY <1>2, <2>1 DEF Undecided
    <3>2. OnWay(promise, micro, d, i) # 2
      BY <3>1
    <3> QED BY <3>1, <3>2, HandlersCounted
  <2>3. agg[d].remaining = Cardinality(Left(agg[d])) /\ agg[d].remaining > 0 /\ promise[d].st = "pending"
    BY <2>1 DEF Undecided
  <2> QED BY <1>2, <2>2, <2>3
<1> QED BY <1>3, <1>4

LEMMA InvJustifies == AggInv => OutcomeJustified
<1> SUFFICES ASSUME AggInv, NEW d \in Id
             PROVE  /\ agg[d].kind = "all" => AllMeans(d)
                    /\ agg[d].kind = "allSettled" => AllSettledMeans(d)
                    /\ agg[d].kind = "any" => AnyMeans(d)
                    /\ agg[d].kind = "race" => RaceMeans(d)
  BY DEF OutcomeJustified
<1>1. agg[d].kind # "none" => Justified(promise, agg[d], promise[d])
  BY DEF AggInv, Kept, Accounted
<1>2. \A v, st, val : ItemIs(v, st, val) <=> EndedAs(promise, v, st, val)
  BY DEF ItemIs, EndedAs
<1>3. \A v, st : ItemHas(v, st) <=> EndedBy(promise, v, st)
  BY <1>2 DEF ItemHas, EndedBy
<1>4. agg[d].kind = "all" => AllMeans(d)
  BY <1>1, <1>2, <1>3 DEF Justified, AllMeans, Items, AllEnded, SomeEnded
<1>5. agg[d].kind = "allSettled" => AllSettledMeans(d)
  BY <1>1, <1>2, <1>3 DEF Justified, AllSettledMeans, Items, AllCounted
<1>6. agg[d].kind = "any" => AnyMeans(d)
  BY <1>1, <1>2, <1>3 DEF Justified, AnyMeans, Items, NoneEnded, SomeEnded
<1>7. agg[d].kind = "race" => RaceMeans(d)
  BY <1>1, <1>2, <1>3 DEF Justified, RaceMeans, Items, SomeEnded
<1> QED BY <1>4, <1>5, <1>6, <1>7

(* In every program, with any items and whenever and in whatever order     *)
(* they settle: until an aggregate settles, each of its items has one      *)
(* handler on its way or has been counted, and `remaining' is the number   *)
(* of those that have not, so that it reaches zero with the last of them.  *)
THEOREM AggregatesAccounted == AggSpec => []ItemsAccounted
BY AggAlways, InvAccounts, PTL

(* Whatever a combinator's promise is settled to is the outcome its items  *)
(* justify, with all the results where it promises all.                    *)
THEOREM OutcomesJustified == AggSpec => []OutcomeJustified
BY AggAlways, InvJustifies, PTL

(* With combinators too, the promises are well typed, none is fulfilled    *)
(* with a promise, and callbacks wait in pairs.                            *)
THEOREM AggregatesCorrect == AggSpec => [](PromiseTypeOK /\ NeverFulfilledWithPromise /\ PairedCallbacks)
<1>1. AggInv => PromiseTypeOK /\ NeverFulfilledWithPromise /\ PairedCallbacks
  BY InvImplies DEF AggInv, ObligationInv
<1> QED BY <1>1, AggAlways, PTL

(* No wakeup is lost or comes twice in a program that uses combinators,    *)
(* those of combinators of nothing included.                               *)
THEOREM AggregatesWake == AggSpec => [](OneObligation /\ SuspendedAwaitsResume)
<1>1. AggInv => OneObligation /\ SuspendedAwaitsResume
  BY Own, ObligationImplies DEF AggInv
<1> QED BY <1>1, AggAlways, PTL

(* Combinators create promises and settle them as PromiseContract allows:  *)
(* one at a time, and each once.                                           *)
THEOREM AggregatesImplementContract == AggSpec => ContractSpec
<1>1. AggInit => Contract!Init
  BY ContractInit DEF AggInit
<1>2. AggInv /\ [AggNext]_aggVars => [Contract!Next]_(Shown(promise))
  BY AggKept, TableContract DEF AggInv, ObligationInv, PromiseInv
<1> QED BY <1>1, <1>2, AggAlways, PTL DEF AggSpec, ContractSpec, Contract!Spec, Shown

=============================================================================
