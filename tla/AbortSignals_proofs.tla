------------------------ MODULE AbortSignals_proofs ------------------------
(***************************************************************************)
(* What holds of abort signals for every program, any number of signals,   *)
(* listeners, timers and promises, and any nesting of aborts and awaits:   *)
(* listeners fire once, combined signals follow their sources, and nothing *)
(* made with a signal outlives its abort.                                  *)
(***************************************************************************)
EXTENDS AbortSignals, EventLoop_proofs

Firing == [s : Signal, listeners : Seq(Listener)]
Items(ls) == {ls[i] : i \in DOMAIN ls}

(* The tokens of a signal's listeners are distinct and were all given out. *)
Numbered(r) ==
    /\ \A i \in DOMAIN r.listeners : r.listeners[i].token < r.next
    /\ \A i, j \in DOMAIN r.listeners : i # j => r.listeners[i].token # r.listeners[j].token

(* What a listener of signal s refers to, in the signals sig and promises  *)
(* t: a timer, a promise that nothing else but its timer settles, or a     *)
(* combined signal that s is a source of.                                  *)
Apt(l, s, sig, t) ==
    /\ l.what = "timer" => l.ref \in TM!TimerId
    /\ l.what = "reject" => l.ref \in Id /\ t[l.ref].by \in {"timer", "signal"}
    /\ l.what = "signal" => l.ref \in Signal /\ sig[l.ref].by = "any" /\ s \in sig[l.ref].of

(* Signals sig and aborts in progress fir: only live signals have          *)
(* listeners, and no two of the aborts are of one signal.                  *)
Silent(r) == (r.st # "live" => r.listeners = << >>) /\ (r.st = "unborn" => r.by = "controller")
Tidy(sig, fir, t) ==
    /\ sig \in [Signal -> SignalRec] /\ fir \in Seq(Firing)
    /\ \A s \in Signal :
           /\ Numbered(sig[s]) /\ Silent(sig[s])
           /\ \A l \in Items(sig[s].listeners) : Apt(l, s, sig, t)
           /\ \A a \in sig[s].of : sig[a].st # "unborn"
    /\ \A k \in DOMAIN fir :
           /\ sig[fir[k].s].st = "aborted"
           /\ \A l \in Items(fir[k].listeners) : Apt(l, fir[k].s, sig, t)
           /\ \A j \in DOMAIN fir : fir[j].s = fir[k].s => j = k

(* While it is live signal s has a listener that does `what' to ref, and   *)
(* once it is aborted that listener is still to fire.                      *)
Has(ls, what, ref) == \E l \in Items(ls) : l.what = what /\ l.ref = ref
Tells(sig, fir, s, what, ref) ==
    /\ sig[s].st # "unborn"
    /\ sig[s].st = "live" => Has(sig[s].listeners, what, ref)
    /\ sig[s].st = "aborted" =>
           \E k \in DOMAIN fir : fir[k].s = s /\ Has(fir[k].listeners, what, ref)

(* A combined signal hears of the abort of each source while it is live,   *)
(* and was aborted by one of them.                                         *)
FollowsAt(sig, fir, s) ==
    sig[s].by = "any" =>
        /\ sig[s].st = "live" => \A a \in sig[s].of : Tells(sig, fir, a, "signal", s)
        /\ sig[s].st = "aborted" =>
               \E a \in sig[s].of : sig[a].reason = sig[s].reason /\ sig[a].st \notin {"live", "unborn"}
Follows(sig, fir) == \A s \in Signal : FollowsAt(sig, fir, s)

(* A promise is settled, or the microtask that rejects it is queued.       *)
Closing(t, m, p) ==
    \/ t[p].st \in {"fulfilled", "rejected"}
    \/ \E i \in DOMAIN m : m[i].op = "cap" /\ m[i].p = p /\ m[i].side = "err"

(* The timer and the promise made with a signal are over, or hear of its   *)
(* abort.                                                                  *)
Guarding(g, sig, fir, t, m, gone) ==
    /\ g.id # 0 => g.id \in gone \/ Tells(sig, fir, g.s, "timer", g.id)
    /\ g.p # 0 => /\ t[g.p].by = "timer"
                  /\ Closing(t, m, g.p) \/ Tells(sig, fir, g.s, "reject", g.p)

(* Timers are numbered from one, and those that abort a signal are of the  *)
(* signals made for that.                                                  *)
Numbering ==
    /\ nextId # 0 /\ nextId <= nextSeq + 1 /\ nextSeq <= MaxSeq
    /\ \A e \in heap : e.id # 0
    /\ \A i \in DOMAIN running : running[i].id # 0
ForTimeouts == \A s \in Signal : Due(s) # {} \/ InTask(s) # {} => signal[s].by = "timeout"

Aborts(s) == {n \in DOMAIN s : s[n].op = "abort"}

SignalInv ==
    /\ Tidy(signal, firing, promise) /\ Follows(signal, firing)
    /\ guard \subseteq [s : Signal, id : TM!TimerId, p : 0 .. MaxPromise]
    /\ \A g \in guard : Guarding(g, signal, firing, promise, micro, cancelled)
    /\ Numbering /\ ForTimeouts
    /\ Len(firing) = Cardinality(Aborts(stack))
AbortInv == LoopBase({}) /\ SignalInv

(***************************************************************************)
(* Lists of listeners.                                                     *)
(***************************************************************************)

What == {"script", "timer", "reject", "signal"}
Ref == {0} \cup TM!TimerId \cup Id \cup Signal

(* Records that differ in their listeners, and in the promise made of them.*)
Alike(r, n) == n.st = r.st /\ n.reason = r.reason /\ n.by = r.by /\ n.of = r.of

LEMMA ItemsAppend ==
  ASSUME NEW S, NEW ls \in Seq(S), NEW l \in S
  PROVE  Items(Append(ls, l)) = Items(ls) \cup {l}
<1> DEFINE w == Append(ls, l)
<1>1. /\ Len(ls) \in Nat /\ DOMAIN ls = 1 .. Len(ls) /\ DOMAIN w = 1 .. Len(ls) + 1
      /\ w[Len(ls) + 1] = l /\ \A i \in 1 .. Len(ls) : w[i] = ls[i]
  OBVIOUS
<1>2. \A i : i \in 1 .. Len(ls) + 1 <=> i \in 1 .. Len(ls) \/ i = Len(ls) + 1
  BY <1>1
<1> HIDE DEF w
<1>3. Items(w) = Items(ls) \cup {l}
  BY <1>1, <1>2 DEF Items
<1> QED BY <1>3 DEF w

LEMMA ItemsTail ==
  ASSUME NEW S, NEW ls \in Seq(S), ls # << >>
  PROVE  Items(ls) = Items(Tail(ls)) \cup {Head(ls)} /\ Tail(ls) \in Seq(S) /\ Head(ls) \in S
<1> DEFINE w == Tail(ls)
           h == Head(ls)
<1>1. /\ Len(ls) \in Nat \ {0} /\ DOMAIN ls = 1 .. Len(ls) /\ DOMAIN w = 1 .. Len(ls) - 1
      /\ h = ls[1] /\ \A i \in 1 .. Len(ls) - 1 : w[i] = ls[i + 1]
      /\ w \in Seq(S) /\ h \in S
  OBVIOUS
<1> HIDE DEF w, h
<1>2. ASSUME NEW i \in 1 .. Len(ls)  PROVE ls[i] = h \/ \E j \in 1 .. Len(ls) - 1 : w[j] = ls[i]
  <2>1. CASE i # 1
    <3>1. i - 1 \in 1 .. Len(ls) - 1 /\ (i - 1) + 1 = i
      BY <1>1, <2>1
    <3>2. w[i - 1] = ls[i]
      BY <1>1, <3>1
    <3> QED BY <3>1, <3>2
  <2> QED BY <1>1, <2>1
<1>3. ASSUME NEW j \in 1 .. Len(ls) - 1  PROVE \E i \in 1 .. Len(ls) : w[j] = ls[i]
  <2>1. j + 1 \in 1 .. Len(ls)
    BY <1>1
  <2> QED BY <1>1, <2>1
<1>4. \E i \in 1 .. Len(ls) : h = ls[i]
  BY <1>1
<1>5. Items(ls) = Items(w) \cup {h}
  <2>1. ASSUME NEW x  PROVE /\ x \in Items(ls) <=> \E i \in 1 .. Len(ls) : x = ls[i]
                            /\ x \in Items(w) <=> \E j \in 1 .. Len(ls) - 1 : x = w[j]
    BY <1>1 DEF Items
  <2>2. ASSUME NEW x  PROVE x \in Items(ls) <=> x \in Items(w) \/ x = h
    <3>1. x \in Items(ls) => x \in Items(w) \/ x = h
      BY <1>2, <2>1
    <3>2. x \in Items(w) => x \in Items(ls)
      BY <1>3, <2>1
    <3>3. h \in Items(ls)
      BY <1>4, <2>1
    <3> QED BY <3>1, <3>2, <3>3
  <2> QED BY <2>2
<1> QED BY <1>1, <1>5 DEF w, h

LEMMA HeardFacts ==
  ASSUME NEW r \in SignalRec, Numbered(r), NEW what \in What, NEW ref \in Ref,
         r.next + 1 <= MaxToken
  PROVE  \E l : /\ l.what = what /\ l.ref = ref
                /\ Heard(r, what, ref) \in SignalRec /\ Numbered(Heard(r, what, ref))
                /\ Heard(r, what, ref).next = r.next + 1
                /\ Heard(r, what, ref).promise = r.promise
                /\ Alike(r, Heard(r, what, ref))
                /\ Items(Heard(r, what, ref).listeners) = Items(r.listeners) \cup {l}
<1> DEFINE l == [what |-> what, token |-> r.next, ref |-> ref]
           n == Heard(r, what, ref)
           ls == r.listeners
<1>1. ls \in Seq(Listener) /\ r.next \in 0 .. MaxToken /\ MaxToken \in Nat
  BY SignalAssumption DEF SignalRec
<1>10. \A x \in Listener : x.token \in Nat
  BY <1>1 DEF Listener
<1>2. l \in Listener /\ l.what = what /\ l.ref = ref /\ l.token = r.next
  BY <1>1 DEF Listener, What, Ref
<1>3. n = [r EXCEPT !.listeners = Append(r.listeners, l), !.next = r.next + 1]
  BY DEF Heard
<1> DEFINE w == Append(r.listeners, l)
<1> HIDE DEF l
<1>4. w \in Seq(Listener)
  BY <1>1, <1>2
<1> HIDE DEF w
<1>11. n = [r EXCEPT !.listeners = w, !.next = r.next + 1]
  BY <1>3 DEF w
<1>12. r.next + 1 \in 0 .. MaxToken
  BY <1>1
<1>5. /\ n \in SignalRec /\ n.next = r.next + 1 /\ n.promise = r.promise /\ Alike(r, n)
      /\ n.listeners = Append(ls, l)
  <2>1. n \in SignalRec
    BY <1>4, <1>11, <1>12 DEF SignalRec
  <2>2. n.listeners = w /\ n.next = r.next + 1 /\ n.promise = r.promise /\ Alike(r, n)
    BY <1>11 DEF SignalRec, Alike
  <2> QED BY <2>1, <2>2 DEF w
<1> HIDE DEF n
<1>6. /\ Len(ls) \in Nat /\ DOMAIN ls = 1 .. Len(ls) /\ DOMAIN n.listeners = 1 .. Len(ls) + 1
      /\ n.listeners[Len(ls) + 1] = l /\ \A i \in 1 .. Len(ls) : n.listeners[i] = ls[i]
  BY <1>1, <1>2, <1>5
<1>7. Items(n.listeners) = Items(ls) \cup {l}
  BY <1>1, <1>2, <1>5, ItemsAppend
<1>8. \A i \in 1 .. Len(ls) : ls[i].token < r.next /\ ls[i].token \in Nat
  BY <1>1, <1>6, <1>10 DEF Numbered
<1> HIDE DEF ls
<1>9. Numbered(n)
  <2>1. \A i \in 1 .. Len(ls) + 1 : i \in 1 .. Len(ls) \/ i = Len(ls) + 1
    BY <1>6
  <2>2. ASSUME NEW i \in 1 .. Len(ls) + 1  PROVE n.listeners[i].token < r.next + 1
    BY <1>1, <1>2, <1>6, <1>8, <2>1
  <2>3. ASSUME NEW i \in 1 .. Len(ls) + 1, NEW j \in 1 .. Len(ls) + 1, i # j
        PROVE  n.listeners[i].token # n.listeners[j].token
    <3>1. CASE i \in 1 .. Len(ls) /\ j \in 1 .. Len(ls)
      BY <1>6, <2>3, <3>1 DEF Numbered, ls
    <3>2. CASE i = Len(ls) + 1
      <4>1. j \in 1 .. Len(ls)
        BY <1>6, <2>3, <3>2
      <4> QED BY <1>1, <1>2, <1>6, <1>8, <3>2, <4>1
    <3>3. CASE j = Len(ls) + 1
      <4>1. i \in 1 .. Len(ls)
        BY <1>6, <2>3, <3>3
      <4> QED BY <1>1, <1>2, <1>6, <1>8, <3>3, <4>1
    <3> QED BY <2>1, <3>1, <3>2, <3>3
  <2> QED BY <1>5, <1>6, <2>2, <2>3 DEF Numbered
<1> QED BY <1>2, <1>5, <1>7, <1>9 DEF n, ls

LEMMA HeardTimesFacts ==
  ASSUME NEW r \in SignalRec, Numbered(r), NEW times \in Nat, NEW ref \in Signal,
         r.next + times <= MaxToken
  PROVE  /\ HeardTimes(r, times, ref) \in SignalRec /\ Numbered(HeardTimes(r, times, ref))
         /\ Alike(r, HeardTimes(r, times, ref))
         /\ Items(r.listeners) \subseteq Items(HeardTimes(r, times, ref).listeners)
         /\ \A l \in Items(HeardTimes(r, times, ref).listeners) :
               l \in Items(r.listeners) \/ (times # 0 /\ l.what = "signal" /\ l.ref = ref)
         /\ times # 0 => Has(HeardTimes(r, times, ref).listeners, "signal", ref)
<1> DEFINE ls == r.listeners
           new == [i \in 1 .. times |-> [what |-> "signal", token |-> r.next + i - 1, ref |-> ref]]
           n == HeardTimes(r, times, ref)
           w == ls \o new
<1>1. ls \in Seq(Listener) /\ r.next \in 0 .. MaxToken /\ MaxToken \in Nat
  BY SignalAssumption DEF SignalRec
<1>2. \A x \in Listener : x.token \in Nat
  BY <1>1 DEF Listener
<1>3. /\ DOMAIN new = 1 .. times
      /\ \A i \in 1 .. times : new[i].what = "signal" /\ new[i].token = r.next + i - 1 /\ new[i].ref = ref
  OBVIOUS
<1>4. new \in [1 .. times -> Listener]
  <2> SUFFICES ASSUME NEW i \in 1 .. times
               PROVE  [what |-> "signal", token |-> r.next + i - 1, ref |-> ref] \in Listener
    OBVIOUS
  <2>1. r.next + i - 1 \in 0 .. MaxToken
    BY <1>1
  <2> QED BY <2>1 DEF Listener
<1> HIDE DEF new
<1>5. new \in Seq(Listener) /\ Len(new) = times
  BY <1>3, <1>4, SeqDef
<1>6. /\ w \in Seq(Listener) /\ Len(ls) \in Nat /\ DOMAIN ls = 1 .. Len(ls)
      /\ DOMAIN w = 1 .. Len(ls) + times
      /\ \A i \in 1 .. Len(ls) : w[i] = ls[i]
      /\ \A i \in 1 .. times : w[Len(ls) + i] = new[i]
  <2> HIDE DEF ls
  <2>1. Len(ls) \in Nat /\ DOMAIN ls = 1 .. Len(ls)
    BY <1>1
  <2>2. /\ w \in Seq(Listener) /\ Len(w) = Len(ls) + times
        /\ \A i \in 1 .. Len(ls) + times : w[i] = IF i <= Len(ls) THEN ls[i] ELSE new[i - Len(ls)]
    BY <1>1, <1>5, ConcatProperties
  <2> HIDE DEF w
  <2>3. DOMAIN w = 1 .. Len(ls) + times
    BY <2>2
  <2>4. ASSUME NEW i \in 1 .. Len(ls)  PROVE w[i] = ls[i]
    BY <2>1, <2>2
  <2>5. ASSUME NEW i \in 1 .. times  PROVE w[Len(ls) + i] = new[i]
    <3> DEFINE x == Len(ls) + i
    <3>1. x \in 1 .. Len(ls) + times /\ ~(x <= Len(ls)) /\ x - Len(ls) = i
      BY <2>1
    <3> HIDE DEF x
    <3>2. w[x] = new[i]
      BY <2>2, <3>1
    <3> QED BY <3>2 DEF x
  <2> QED BY <2>1, <2>2, <2>3, <2>4, <2>5
<1>7. n = [r EXCEPT !.listeners = w, !.next = r.next + times]
  BY DEF HeardTimes, new
<1> HIDE DEF w
<1>8. /\ n \in SignalRec /\ n.listeners = w /\ n.next = r.next + times /\ Alike(r, n)
  <2>1. r.next + times \in 0 .. MaxToken
    BY <1>1
  <2>2. n \in SignalRec
    BY <1>6, <1>7, <2>1 DEF SignalRec
  <2> QED BY <1>7, <2>2 DEF SignalRec, Alike
<1> HIDE DEF n
<1>9. \A i \in 1 .. Len(ls) : ls[i].token < r.next /\ ls[i].token \in Nat
  BY <1>1, <1>2, <1>6 DEF Numbered
<1> HIDE DEF ls
<1>10. ASSUME NEW i \in 1 .. Len(ls) + times
       PROVE  i \in 1 .. Len(ls) \/ (i - Len(ls) \in 1 .. times /\ w[i] = new[i - Len(ls)])
  <2>1. CASE i \notin 1 .. Len(ls)
    <3>1. i - Len(ls) \in 1 .. times /\ Len(ls) + (i - Len(ls)) = i
      BY <1>6, <2>1
    <3> QED BY <1>6, <3>1
  <2> QED BY <2>1
<1>11. Numbered(n)
  <2>1. ASSUME NEW i \in 1 .. Len(ls) + times  PROVE w[i].token < r.next + times /\ w[i].token \in Nat
    <3>1. CASE i \in 1 .. Len(ls)
      BY <1>1, <1>6, <1>9, <3>1
    <3>2. CASE i - Len(ls) \in 1 .. times /\ w[i] = new[i - Len(ls)]
      BY <1>1, <1>3, <3>2
    <3> QED BY <1>10, <3>1, <3>2
  <2>2. ASSUME NEW i \in 1 .. Len(ls) + times, NEW j \in 1 .. Len(ls) + times, i # j
        PROVE  w[i].token # w[j].token
    <3>1. CASE i \in 1 .. Len(ls) /\ j \in 1 .. Len(ls)
      BY <1>6, <2>2, <3>1 DEF Numbered, ls
    <3>2. CASE i \in 1 .. Len(ls) /\ j \notin 1 .. Len(ls)
      BY <1>1, <1>3, <1>6, <1>9, <1>10, <3>2
    <3>3. CASE i \notin 1 .. Len(ls) /\ j \in 1 .. Len(ls)
      BY <1>1, <1>3, <1>6, <1>9, <1>10, <3>3
    <3>4. CASE i \notin 1 .. Len(ls) /\ j \notin 1 .. Len(ls)
      <4> DEFINE x == i - Len(ls)
                 y == j - Len(ls)
      <4>1. x # y /\ x \in 1 .. times /\ y \in 1 .. times
        BY <1>6, <1>10, <2>2, <3>4
      <4>2. w[i] = new[x] /\ w[j] = new[y]
        BY <1>10, <3>4
      <4> HIDE DEF x, y
      <4>3. w[i].token = r.next + x - 1 /\ w[j].token = r.next + y - 1
        BY <1>3, <4>1, <4>2
      <4>4. r.next \in Nat /\ x \in Nat /\ y \in Nat
        BY <1>1, <4>1
      <4> QED BY <4>1, <4>3, <4>4
    <3> QED BY <3>1, <3>2, <3>3, <3>4
  <2> QED BY <1>6, <1>8, <2>1, <2>2 DEF Numbered
<1>12. Items(ls) \subseteq Items(w)
  <2>1. \A i \in 1 .. Len(ls) : i \in 1 .. Len(ls) + times
    BY <1>6
  <2> QED BY <1>6, <2>1 DEF Items
<1>13. ASSUME NEW l \in Items(w)
       PROVE  l \in Items(ls) \/ (times # 0 /\ l.what = "signal" /\ l.ref = ref)
  <2>1. PICK i \in 1 .. Len(ls) + times : l = w[i]
    BY <1>6 DEF Items
  <2>2. CASE i \in 1 .. Len(ls)
    BY <1>6, <2>1, <2>2 DEF Items
  <2>3. CASE i - Len(ls) \in 1 .. times /\ w[i] = new[i - Len(ls)]
    BY <1>3, <2>1, <2>3
  <2> QED BY <1>10, <2>2, <2>3
<1>14. ASSUME times # 0  PROVE Has(w, "signal", ref)
  <2>1. 1 \in 1 .. times /\ Len(ls) + 1 \in 1 .. Len(ls) + times
    BY <1>6, <1>14
  <2>2. w[Len(ls) + 1] \in Items(w) /\ w[Len(ls) + 1] = new[1]
    BY <1>6, <2>1 DEF Items
  <2> QED BY <1>3, <2>1, <2>2 DEF Has
<1> QED BY <1>8, <1>11, <1>12, <1>13, <1>14 DEF n, ls

(* Removing a listener of a kind leaves the others.                        *)
LEMMA RemovedFacts ==
  ASSUME NEW r \in SignalRec, Numbered(r), NEW k \in DOMAIN r.listeners
  PROVE  LET n == [r EXCEPT !.listeners = SX!RemoveAt(@, k)]
         IN  /\ n \in SignalRec /\ Numbered(n) /\ Alike(r, n)
             /\ Items(n.listeners) \subseteq Items(r.listeners)
             /\ \A l \in Items(r.listeners) : l \in Items(n.listeners) \/ l = r.listeners[k]
<1> DEFINE ls == r.listeners
           a == SubSeq(ls, 1, k - 1)
           b == SubSeq(ls, k + 1, Len(ls))
           w == a \o b
           n == [r EXCEPT !.listeners = SX!RemoveAt(@, k)]
<1>1. ls \in Seq(Listener) /\ r.next \in Nat
  BY SignalAssumption DEF SignalRec
<1>2. Len(ls) \in Nat /\ DOMAIN ls = 1 .. Len(ls) /\ k \in 1 .. Len(ls)
  BY <1>1
<1> HIDE DEF ls
<1>3. /\ a \in Seq(Listener) /\ Len(a) = k - 1 /\ \A i \in 1 .. k - 1 : a[i] = ls[i]
  BY <1>1, <1>2, SubSeqProperties
<1>4. /\ b \in Seq(Listener) /\ Len(b) = Len(ls) - k
      /\ \A i \in 1 .. Len(ls) - k : b[i] = ls[k + i]
  <2>1. k + 1 \in 1 .. Len(ls) + 1
    BY <1>2
  <2> QED BY <1>1, <1>2, <2>1, SubSeqProperties
<1>5. w = SX!RemoveAt(ls, k)
  BY DEF SX!RemoveAt
<1> HIDE DEF a, b
<1>6. /\ w \in Seq(Listener) /\ Len(w) = Len(ls) - 1 /\ DOMAIN w = 1 .. Len(ls) - 1
      /\ \A i \in 1 .. k - 1 : w[i] = a[i]
      /\ \A i \in 1 .. Len(ls) - k : w[(k - 1) + i] = b[i]
  <2>1. /\ w \in Seq(Listener) /\ Len(w) = Len(a) + Len(b)
        /\ \A i \in 1 .. Len(a) + Len(b) : w[i] = IF i <= Len(a) THEN a[i] ELSE b[i - Len(a)]
    BY <1>3, <1>4, ConcatProperties
  <2>2. Len(a) + Len(b) = Len(ls) - 1
    BY <1>2, <1>3, <1>4
  <2> HIDE DEF w
  <2>3. ASSUME NEW i \in 1 .. k - 1  PROVE w[i] = a[i]
    <3>1. i \in 1 .. Len(a) + Len(b) /\ i <= Len(a)
      BY <1>2, <1>3, <2>2
    <3> QED BY <2>1, <3>1
  <2>4. ASSUME NEW i \in 1 .. Len(ls) - k  PROVE w[(k - 1) + i] = b[i]
    <3> DEFINE x == (k - 1) + i
    <3>1. Len(a) = k - 1 /\ k \in 1 .. Len(ls) /\ Len(ls) \in Nat
      BY <1>2, <1>3
    <3>2. x \in 1 .. Len(ls) - 1 /\ ~(x <= Len(a)) /\ x - Len(a) = i
      <4>1. \A m \in Nat : \A h \in 1 .. m : \A j \in 1 .. m - h :
              (h - 1) + j \in 1 .. m - 1 /\ ~((h - 1) + j <= h - 1) /\ ((h - 1) + j) - (h - 1) = j
        OBVIOUS
      <4> QED BY <3>1, <4>1
    <3> HIDE DEF x
    <3>3. w[x] = b[i]
      BY <2>1, <2>2, <3>2
    <3> QED BY <3>3 DEF x
  <2> QED BY <2>1, <2>2, <2>3, <2>4
<1> HIDE DEF w
<1>7. ASSUME NEW i \in 1 .. Len(ls) - 1  PROVE w[i] = ls[IF i < k THEN i ELSE i + 1]
  <2>1. CASE i < k
    BY <1>2, <1>3, <1>6, <2>1
  <2>2. CASE ~(i < k)
    <3>1. i - (k - 1) \in 1 .. Len(ls) - k /\ (k - 1) + (i - (k - 1)) = i /\ k + (i - (k - 1)) = i + 1
      BY <1>2, <2>2
    <3> QED BY <1>4, <1>6, <2>2, <3>1
  <2> QED BY <2>1, <2>2
<1>8. ASSUME NEW i \in 1 .. Len(ls), i # k  PROVE \E j \in 1 .. Len(ls) - 1 : w[j] = ls[i]
  <2>1. CASE i < k
    <3>1. i \in 1 .. Len(ls) - 1
      BY <1>2, <2>1
    <3> QED BY <1>7, <2>1, <3>1
  <2>2. CASE ~(i < k)
    <3>1. i - 1 \in 1 .. Len(ls) - 1 /\ ~(i - 1 < k) /\ (i - 1) + 1 = i
      BY <1>2, <1>8, <2>2
    <3> QED BY <1>7, <3>1
  <2> QED BY <2>1, <2>2
<1>9. n \in SignalRec /\ n.listeners = w /\ n.next = r.next /\ Alike(r, n)
  <2>1. n = [r EXCEPT !.listeners = w]
    BY <1>5 DEF ls
  <2>2. n \in SignalRec
    BY <1>6, <2>1 DEF SignalRec
  <2> QED BY <2>1, <2>2 DEF SignalRec, Alike
<1> HIDE DEF n
<1>10. ASSUME NEW i \in 1 .. Len(ls) - 1  PROVE (IF i < k THEN i ELSE i + 1) \in 1 .. Len(ls)
  BY <1>2
<1>11. Numbered(n)
  <2>1. ASSUME NEW i \in 1 .. Len(ls) - 1  PROVE w[i].token < r.next
    BY <1>2, <1>7, <1>10 DEF Numbered, ls
  <2>2. ASSUME NEW i \in 1 .. Len(ls) - 1, NEW j \in 1 .. Len(ls) - 1, i # j
        PROVE  w[i].token # w[j].token
    <3> DEFINE x == IF i < k THEN i ELSE i + 1
               y == IF j < k THEN j ELSE j + 1
    <3>1. x # y
      BY <1>2, <2>2
    <3>2. x \in 1 .. Len(ls) /\ y \in 1 .. Len(ls) /\ w[i] = ls[x] /\ w[j] = ls[y]
      BY <1>7, <1>10
    <3> HIDE DEF x, y
    <3>3. x \in DOMAIN ls /\ y \in DOMAIN ls
      BY <1>2, <3>2
    <3>4. ls[x].token # ls[y].token
      BY <3>1, <3>3 DEF Numbered, ls
    <3> QED BY <3>2, <3>4
  <2> QED BY <1>6, <1>9, <2>1, <2>2 DEF Numbered
<1>12. Items(w) \subseteq Items(ls)
  <2> SUFFICES ASSUME NEW i \in 1 .. Len(ls) - 1  PROVE w[i] \in Items(ls)
    BY <1>6 DEF Items
  <2> QED BY <1>2, <1>7, <1>10 DEF Items
<1>13. \A l \in Items(ls) : l \in Items(w) \/ l = ls[k]
  <2> SUFFICES ASSUME NEW i \in 1 .. Len(ls)  PROVE ls[i] \in Items(w) \/ ls[i] = ls[k]
    BY <1>2 DEF Items
  <2>1. CASE i # k
    <3>1. PICK j \in 1 .. Len(ls) - 1 : w[j] = ls[i]
      BY <1>8, <2>1
    <3> QED BY <1>6, <3>1 DEF Items
  <2> QED BY <2>1
<1> QED BY <1>9, <1>11, <1>12, <1>13 DEF n, ls

(***************************************************************************)
(* What a step may do to signals and to aborts in progress.                *)
(***************************************************************************)

(* A promise made for a timer or a signal stays one.                       *)
Stays(t, n) == \A p \in Id : t[p].by \in {"timer", "signal"} => n[p].by = t[p].by

(* Whoever is to hear of an abort still is, but for the listener of signal *)
(* s that does `what' to ref.                                              *)
Heeds(sig, fir, sig2, fir2, s, what, ref) ==
    Tells(sig, fir, s, what, ref) => Tells(sig2, fir2, s, what, ref)
Kept(sig, fir, sig2, fir2) ==
    \A s \in Signal, what \in What \ {"script"} : \A ref : Heeds(sig, fir, sig2, fir2, s, what, ref)

(* Signal a gains listeners and may lose script listeners.                 *)
Grows(r, n) ==
    /\ n \in SignalRec /\ Numbered(n) /\ Alike(r, n)
    /\ \A l \in Items(r.listeners) : l.what = "script" \/ l \in Items(n.listeners)
    /\ r.st # "live" => n.listeners = << >>

(* Signals B are created, the others gain listeners.                       *)
Growing(sig, sig2, t2, B) ==
    /\ sig2 \in [Signal -> SignalRec]
    /\ \A a \in Signal \ B :
           /\ Grows(sig[a], sig2[a])
           /\ \A l \in Items(sig2[a].listeners) : l \in Items(sig[a].listeners) \/ Apt(l, a, sig2, t2)
    /\ \A a \in B :
           /\ sig[a].st = "unborn" /\ sig2[a].st \in {"live", "aborted"}
           /\ sig2[a].listeners = << >>
           /\ \A b \in sig2[a].of : sig2[b].st # "unborn"

LEMMA AptKept ==
  ASSUME NEW sig, NEW sig2, NEW t, NEW t2, Stays(t, t2), NEW s, NEW l, Apt(l, s, sig, t),
         \A c \in Signal : sig[c].by = "any" => sig2[c].by = "any" /\ sig2[c].of = sig[c].of
  PROVE  Apt(l, s, sig2, t2)
BY DEF Apt, Stays

LEMMA EmptyList ==
  /\ Items(<< >>) = {} /\ << >> \in Seq(Listener)
  /\ \A what, ref : ~Has(<< >>, what, ref)
<1>1. Items(<< >>) = {} /\ << >> \in Seq(Listener)
  BY DEF Items
<1> QED BY <1>1 DEF Has

LEMMA GrowStep ==
  ASSUME NEW sig, NEW fir, NEW t, Tidy(sig, fir, t), NEW B \in SUBSET Signal, NEW sig2, NEW t2,
         Stays(t, t2), Growing(sig, sig2, t2, B)
  PROVE  /\ Tidy(sig2, fir, t2) /\ Kept(sig, fir, sig2, fir)
         /\ \A s \in Signal \ B : FollowsAt(sig, fir, s) => FollowsAt(sig2, fir, s)
<1>1. \A s \in Signal : s \in B \/ s \in Signal \ B
  OBVIOUS
<1>2. \A s \in Signal \ B : Alike(sig[s], sig2[s])
  BY DEF Growing, Grows
<1>3. \A c \in Signal : sig[c].by = "any" => sig2[c].by = "any" /\ sig2[c].of = sig[c].of
  <2> SUFFICES ASSUME NEW c \in Signal, sig[c].by = "any"
               PROVE  sig2[c].by = "any" /\ sig2[c].of = sig[c].of
    OBVIOUS
  <2>1. c \notin B
    BY DEF Growing, Tidy, Silent
  <2> QED BY <1>2, <2>1 DEF Alike
<1>4. \A s, l : Apt(l, s, sig, t) => Apt(l, s, sig2, t2)
  BY <1>3, AptKept
<1>5. \A s \in Signal : sig[s].st # "unborn" => sig2[s].st # "unborn"
  BY <1>1, <1>2 DEF Growing, Alike
<1>6. sig2 \in [Signal -> SignalRec] /\ fir \in Seq(Firing)
  BY DEF Growing, Tidy
<1>7. ASSUME NEW s \in Signal
      PROVE  /\ Numbered(sig2[s]) /\ Silent(sig2[s])
             /\ \A l \in Items(sig2[s].listeners) : Apt(l, s, sig2, t2)
             /\ \A a \in sig2[s].of : sig2[a].st # "unborn"
  <2>1. CASE s \in B
    <3>1. sig2[s].st \in {"live", "aborted"} /\ sig2[s].listeners = << >>
          /\ \A b \in sig2[s].of : sig2[b].st # "unborn"
      BY <2>1 DEF Growing
    <3>2. Items(sig2[s].listeners) = {} /\ DOMAIN sig2[s].listeners = {}
      BY <3>1, EmptyList
    <3> QED BY <3>1, <3>2 DEF Numbered, Silent
  <2>2. CASE s \in Signal \ B
    <3>1. Grows(sig[s], sig2[s])
          /\ \A l \in Items(sig2[s].listeners) : l \in Items(sig[s].listeners) \/ Apt(l, s, sig2, t2)
      BY <2>2 DEF Growing
    <3>2. /\ Silent(sig[s]) /\ \A l \in Items(sig[s].listeners) : Apt(l, s, sig, t)
          /\ \A a \in sig[s].of : sig[a].st # "unborn"
      BY DEF Tidy
    <3>3. Numbered(sig2[s]) /\ Silent(sig2[s])
      BY <3>1, <3>2 DEF Grows, Silent, Alike
    <3>4. \A l \in Items(sig2[s].listeners) : Apt(l, s, sig2, t2)
      BY <1>4, <3>1, <3>2
    <3>5. sig2[s].of = sig[s].of /\ sig[s].of \subseteq Signal
      <4>1. sig[s] \in SignalRec
        BY DEF Tidy
      <4> QED BY <3>1, <4>1 DEF Grows, Alike, SignalRec
    <3> QED BY <1>5, <3>2, <3>3, <3>4, <3>5
  <2> QED BY <1>1, <2>1, <2>2
<1>8. ASSUME NEW k \in DOMAIN fir
      PROVE  /\ sig2[fir[k].s].st = "aborted"
             /\ \A l \in Items(fir[k].listeners) : Apt(l, fir[k].s, sig2, t2)
             /\ \A j \in DOMAIN fir : fir[j].s = fir[k].s => j = k
  <2>1. /\ sig[fir[k].s].st = "aborted" /\ fir[k].s \in Signal
        /\ \A l \in Items(fir[k].listeners) : Apt(l, fir[k].s, sig, t)
        /\ \A j \in DOMAIN fir : fir[j].s = fir[k].s => j = k
    <3>1. fir[k] \in Firing
      BY DEF Tidy
    <3> QED BY <3>1 DEF Tidy, Firing
  <2>2. fir[k].s \notin B
    BY <2>1 DEF Growing
  <2>3. sig2[fir[k].s].st = "aborted"
    BY <1>2, <2>1, <2>2 DEF Alike
  <2> QED BY <1>4, <2>1, <2>3
<1>9. Tidy(sig2, fir, t2)
  BY <1>6, <1>7, <1>8 DEF Tidy
<1>10. ASSUME NEW s \in Signal, NEW what \in What \ {"script"}, NEW ref, Tells(sig, fir, s, what, ref)
       PROVE  Tells(sig2, fir, s, what, ref)
  <2>1. s \in Signal \ B
    BY <1>10 DEF Tells, Growing
  <2>2. sig2[s].st = sig[s].st
    BY <1>2, <2>1 DEF Alike
  <2>3. Has(sig[s].listeners, what, ref) => Has(sig2[s].listeners, what, ref)
    BY <2>1 DEF Growing, Grows, Has
  <2> QED BY <1>10, <2>2, <2>3 DEF Tells
<1>11. Kept(sig, fir, sig2, fir)
  BY <1>10 DEF Kept, Heeds
<1>12. ASSUME NEW s \in Signal \ B, FollowsAt(sig, fir, s)  PROVE FollowsAt(sig2, fir, s)
  <2>1. Alike(sig[s], sig2[s]) /\ sig[s] \in SignalRec
    BY <1>2 DEF Tidy
  <2>2. sig[s].of \subseteq Signal
    BY <2>1 DEF SignalRec
  <2> SUFFICES ASSUME sig[s].by = "any"
               PROVE  /\ sig[s].st = "live" => \A a \in sig[s].of : Tells(sig2, fir, a, "signal", s)
                      /\ sig[s].st = "aborted" =>
                            \E a \in sig[s].of : sig2[a].reason = sig[s].reason /\ sig2[a].st \notin {"live", "unborn"}
    BY <2>1 DEF FollowsAt, Alike
  <2>3. sig[s].st = "live" => \A a \in sig[s].of : Tells(sig2, fir, a, "signal", s)
    <3>1. "signal" \in What \ {"script"}
      BY DEF What
    <3> QED BY <1>10, <1>12, <2>2, <3>1 DEF FollowsAt
  <2>4. ASSUME sig[s].st = "aborted"
        PROVE  \E a \in sig[s].of : sig2[a].reason = sig[s].reason /\ sig2[a].st \notin {"live", "unborn"}
    <3>1. PICK a \in sig[s].of : sig[a].reason = sig[s].reason /\ sig[a].st \notin {"live", "unborn"}
      BY <1>12, <2>4 DEF FollowsAt
    <3>2. a \in Signal \ B
      BY <2>2, <3>1 DEF Growing
    <3> QED BY <1>2, <3>1, <3>2 DEF Alike
  <2> QED BY <2>3, <2>4
<1> QED BY <1>9, <1>11, <1>12

(* Signal s is aborted: the abort takes its listeners.                     *)
Ends(sig, fir, s, reason, sig2, fir2) ==
    /\ sig[s].st = "live"
    /\ sig2 = [sig EXCEPT ![s].st = "aborted", ![s].reason = reason, ![s].listeners = << >>]
    /\ fir2 = Append(fir, [s |-> s, listeners |-> sig[s].listeners])
Caused(sig, s, reason) ==
    sig[s].by = "any" => \E a \in sig[s].of : sig[a].reason = reason /\ sig[a].st \notin {"live", "unborn"}

LEMMA EndsFacts ==
  ASSUME NEW sig, NEW fir, NEW t, Tidy(sig, fir, t), NEW s \in Signal, NEW reason \in Value,
         NEW sig2, NEW fir2, Ends(sig, fir, s, reason, sig2, fir2)
  PROVE  /\ sig2 \in [Signal -> SignalRec] /\ fir2 \in Seq(Firing)
         /\ sig2[s].st = "aborted" /\ sig2[s].reason = reason /\ sig2[s].listeners = << >>
         /\ sig2[s].by = sig[s].by /\ sig2[s].of = sig[s].of
         /\ \A a \in Signal \ {s} : sig2[a] = sig[a]
         /\ Len(fir) \in Nat /\ DOMAIN fir = 1 .. Len(fir) /\ DOMAIN fir2 = 1 .. Len(fir) + 1
         /\ Len(fir2) = Len(fir) + 1
         /\ \A k \in 1 .. Len(fir) : fir2[k] = fir[k] /\ fir[k].s # s /\ fir[k].s \in Signal
         /\ fir2[Len(fir) + 1].s = s /\ fir2[Len(fir) + 1].listeners = sig[s].listeners
<1> DEFINE n == [sig[s] EXCEPT !.st = "aborted", !.reason = reason, !.listeners = << >>]
           f == [s |-> s, listeners |-> sig[s].listeners]
<1>1. sig \in [Signal -> SignalRec] /\ fir \in Seq(Firing) /\ sig[s] \in SignalRec
  BY DEF Tidy
<1>2. n \in SignalRec
  BY <1>1, EmptyList DEF SignalRec
<1>3. /\ n.st = "aborted" /\ n.reason = reason /\ n.listeners = << >>
      /\ n.by = sig[s].by /\ n.of = sig[s].of
  BY <1>1 DEF SignalRec
<1>4. sig2 = [sig EXCEPT ![s] = n]
  BY DEF Ends
<1>5. f \in Firing
  BY <1>1 DEF Firing, SignalRec
<1>50. f.s = s /\ f.listeners = sig[s].listeners
  OBVIOUS
<1>51. fir2 = Append(fir, f)
  BY DEF Ends
<1> HIDE DEF n, f
<1>6. sig2 \in [Signal -> SignalRec] /\ sig2[s] = n /\ \A a \in Signal \ {s} : sig2[a] = sig[a]
  BY <1>1, <1>2, <1>4
<1>7. /\ fir2 \in Seq(Firing) /\ Len(fir) \in Nat /\ DOMAIN fir = 1 .. Len(fir)
      /\ DOMAIN fir2 = 1 .. Len(fir) + 1 /\ Len(fir2) = Len(fir) + 1
      /\ \A k \in 1 .. Len(fir) : fir2[k] = fir[k]
      /\ fir2[Len(fir) + 1] = f
  BY <1>1, <1>5, <1>51
<1>8. ASSUME NEW k \in 1 .. Len(fir)  PROVE fir[k].s # s /\ fir[k].s \in Signal
  <2>1. fir[k] \in Firing /\ sig[fir[k].s].st = "aborted"
    BY <1>1, <1>7 DEF Tidy
  <2> QED BY <2>1 DEF Ends, Firing
<1> QED BY <1>3, <1>50, <1>6, <1>7, <1>8

LEMMA EndsStep ==
  ASSUME NEW sig, NEW fir, NEW t, Tidy(sig, fir, t), NEW s \in Signal, NEW reason \in Value,
         NEW sig2, NEW fir2, Ends(sig, fir, s, reason, sig2, fir2), Caused(sig, s, reason),
         \A c \in Signal \ {s} : FollowsAt(sig, fir, c)
  PROVE  Tidy(sig2, fir2, t) /\ Follows(sig2, fir2) /\ Kept(sig, fir, sig2, fir2)
<1>1. /\ sig2 \in [Signal -> SignalRec] /\ fir2 \in Seq(Firing)
      /\ sig2[s].st = "aborted" /\ sig2[s].reason = reason /\ sig2[s].listeners = << >>
      /\ sig2[s].by = sig[s].by /\ sig2[s].of = sig[s].of
      /\ \A a \in Signal \ {s} : sig2[a] = sig[a]
      /\ Len(fir) \in Nat /\ DOMAIN fir = 1 .. Len(fir) /\ DOMAIN fir2 = 1 .. Len(fir) + 1
      /\ \A k \in 1 .. Len(fir) : fir2[k] = fir[k] /\ fir[k].s # s /\ fir[k].s \in Signal
      /\ fir2[Len(fir) + 1].s = s /\ fir2[Len(fir) + 1].listeners = sig[s].listeners
  BY EndsFacts
<1>2. sig[s].st = "live"
  BY DEF Ends
<1>3. \A c \in Signal : sig2[c].by = sig[c].by /\ sig2[c].of = sig[c].of
  BY <1>1
<1>4. Stays(t, t)
  BY DEF Stays
<1>5. \A a, l : Apt(l, a, sig, t) => Apt(l, a, sig2, t)
  BY <1>3, <1>4, AptKept
<1>6. \A k \in 1 .. Len(fir) + 1 : k \in 1 .. Len(fir) \/ k = Len(fir) + 1
  BY <1>1
<1>7. \A a \in Signal : sig[a].st # "unborn" => sig2[a].st # "unborn"
  BY <1>1
<1>8. ASSUME NEW a \in Signal
      PROVE  /\ Numbered(sig2[a]) /\ Silent(sig2[a])
             /\ \A l \in Items(sig2[a].listeners) : Apt(l, a, sig2, t)
             /\ \A b \in sig2[a].of : sig2[b].st # "unborn"
  <2>1. /\ Numbered(sig[a]) /\ Silent(sig[a]) /\ sig[a] \in SignalRec
        /\ \A l \in Items(sig[a].listeners) : Apt(l, a, sig, t)
        /\ \A b \in sig[a].of : sig[b].st # "unborn"
    BY DEF Tidy
  <2>2. \A b \in sig2[a].of : sig2[b].st # "unborn"
    <3>1. sig[a].of \subseteq Signal
      BY <2>1 DEF SignalRec
    <3> QED BY <1>3, <1>7, <2>1, <3>1
  <2>3. CASE a = s
    <3>1. Items(sig2[s].listeners) = {} /\ DOMAIN sig2[s].listeners = {}
      BY <1>1, EmptyList
    <3> QED BY <1>1, <2>2, <2>3, <3>1 DEF Numbered, Silent
  <2>4. CASE a # s
    BY <1>1, <1>5, <2>1, <2>2, <2>4
  <2> QED BY <2>3, <2>4
<1>9. ASSUME NEW k \in 1 .. Len(fir) + 1
      PROVE  /\ sig2[fir2[k].s].st = "aborted"
             /\ \A l \in Items(fir2[k].listeners) : Apt(l, fir2[k].s, sig2, t)
             /\ \A j \in 1 .. Len(fir) + 1 : fir2[j].s = fir2[k].s => j = k
  <2>1. CASE k \in 1 .. Len(fir)
    <3>1. /\ sig[fir[k].s].st = "aborted" /\ \A l \in Items(fir[k].listeners) : Apt(l, fir[k].s, sig, t)
          /\ \A j \in 1 .. Len(fir) : fir[j].s = fir[k].s => j = k
      BY <1>1, <2>1 DEF Tidy
    <3>2. fir[k].s \in Signal \ {s}
      BY <1>1, <2>1
    <3> QED BY <1>1, <1>5, <1>6, <2>1, <3>1, <3>2
  <2>2. CASE k = Len(fir) + 1
    <3>1. \A l \in Items(sig[s].listeners) : Apt(l, s, sig, t)
      BY DEF Tidy
    <3> QED BY <1>1, <1>5, <1>6, <2>2, <3>1
  <2> QED BY <1>6, <2>1, <2>2
<1>10. Tidy(sig2, fir2, t)
  BY <1>1, <1>8, <1>9 DEF Tidy
<1>11. ASSUME NEW a \in Signal, NEW what, NEW ref, Tells(sig, fir, a, what, ref)
       PROVE  Tells(sig2, fir2, a, what, ref)
  <2>1. CASE a = s
    <3>1. Has(fir2[Len(fir) + 1].listeners, what, ref) /\ fir2[Len(fir) + 1].s = s
      BY <1>1, <1>2, <1>11, <2>1 DEF Tells
    <3>2. Len(fir) + 1 \in DOMAIN fir2
      BY <1>1
    <3> QED BY <1>1, <2>1, <3>1, <3>2 DEF Tells
  <2>2. CASE a # s
    <3>1. sig2[a] = sig[a] /\ \A k \in DOMAIN fir : k \in DOMAIN fir2 /\ fir2[k] = fir[k]
      BY <1>1, <2>2
    <3> QED BY <1>11, <3>1 DEF Tells
  <2> QED BY <2>1, <2>2
<1>12. Kept(sig, fir, sig2, fir2)
  BY <1>11 DEF Kept, Heeds
<1>13. ASSUME NEW c \in Signal  PROVE FollowsAt(sig2, fir2, c)
  <2>1. sig[c].of \subseteq Signal
    <3>1. sig[c] \in SignalRec
      BY DEF Tidy
    <3> QED BY <3>1 DEF SignalRec
  <2>2. ASSUME NEW a \in sig[c].of, sig[a].st \notin {"live", "unborn"}  PROVE sig2[a] = sig[a]
    BY <1>1, <1>2, <2>1, <2>2
  <2>3. CASE c = s
    BY <1>1, <2>2, <2>3 DEF FollowsAt, Caused
  <2>4. CASE c # s
    <3>1. sig2[c] = sig[c] /\ FollowsAt(sig, fir, c)
      BY <1>1, <2>4
    <3> QED BY <1>11, <2>1, <2>2, <3>1 DEF FollowsAt
  <2> QED BY <2>3, <2>4
<1> QED BY <1>10, <1>12, <1>13 DEF Follows

(* The program drops combined signal s.                                    *)
Drops(sig, s, sig2) == sig2 = [sig EXCEPT ![s].st = "dropped", ![s].listeners = << >>]

LEMMA DropStep ==
  ASSUME NEW sig, NEW fir, NEW t, Tidy(sig, fir, t), Follows(sig, fir), NEW s \in Signal,
         sig[s].by = "any", \A k \in DOMAIN fir : fir[k].s # s,
         NEW sig2, Drops(sig, s, sig2)
  PROVE  Tidy(sig2, fir, t) /\ Follows(sig2, fir) /\ Kept(sig, fir, sig2, fir)
<1> DEFINE n == [sig[s] EXCEPT !.st = "dropped", !.listeners = << >>]
<1>1. sig \in [Signal -> SignalRec] /\ fir \in Seq(Firing) /\ sig[s] \in SignalRec
  BY DEF Tidy
<1>2. n \in SignalRec
  BY <1>1, EmptyList DEF SignalRec
<1>3. /\ n.st = "dropped" /\ n.listeners = << >> /\ n.reason = sig[s].reason
      /\ n.by = sig[s].by /\ n.of = sig[s].of
  BY <1>1 DEF SignalRec
<1>4. sig2 = [sig EXCEPT ![s] = n]
  BY DEF Drops
<1> HIDE DEF n
<1>5. sig2 \in [Signal -> SignalRec] /\ sig2[s] = n /\ \A a \in Signal \ {s} : sig2[a] = sig[a]
  BY <1>1, <1>2, <1>4
<1>6. \A c \in Signal : sig2[c].by = sig[c].by /\ sig2[c].of = sig[c].of /\ sig2[c].reason = sig[c].reason
  BY <1>3, <1>5
<1>7. Stays(t, t)
  BY DEF Stays
<1>8. \A a, l : Apt(l, a, sig, t) => Apt(l, a, sig2, t)
  BY <1>6, <1>7, AptKept
<1>9. \A a \in Signal : /\ sig[a].st # "unborn" => sig2[a].st # "unborn"
                        /\ sig[a].st # "live" => sig2[a].st # "live"
  BY <1>3, <1>5
<1>10. ASSUME NEW a \in Signal
       PROVE  /\ Numbered(sig2[a]) /\ Silent(sig2[a]) /\ sig[a].of \subseteq Signal
              /\ \A l \in Items(sig2[a].listeners) : Apt(l, a, sig2, t)
              /\ \A b \in sig2[a].of : sig2[b].st # "unborn"
  <2>1. /\ Numbered(sig[a]) /\ Silent(sig[a]) /\ sig[a] \in SignalRec
        /\ \A l \in Items(sig[a].listeners) : Apt(l, a, sig, t)
        /\ \A b \in sig[a].of : sig[b].st # "unborn"
    BY DEF Tidy
  <2>2. sig[a].of \subseteq Signal /\ \A b \in sig2[a].of : sig2[b].st # "unborn"
    <3>1. sig[a].of \subseteq Signal
      BY <2>1 DEF SignalRec
    <3> QED BY <1>6, <1>9, <2>1, <3>1
  <2>3. CASE a = s
    <3>1. Items(sig2[s].listeners) = {} /\ DOMAIN sig2[s].listeners = {}
      BY <1>3, <1>5, EmptyList
    <3> QED BY <1>3, <1>5, <2>2, <2>3, <3>1 DEF Numbered, Silent
  <2>4. CASE a # s
    BY <1>5, <1>8, <2>1, <2>2, <2>4
  <2> QED BY <2>3, <2>4
<1>11. ASSUME NEW k \in DOMAIN fir
       PROVE  /\ sig2[fir[k].s].st = "aborted"
              /\ \A l \in Items(fir[k].listeners) : Apt(l, fir[k].s, sig2, t)
              /\ \A j \in DOMAIN fir : fir[j].s = fir[k].s => j = k
  <2>1. fir[k] \in Firing
    BY <1>1
  <2>2. fir[k].s \in Signal \ {s}
    BY <2>1 DEF Firing
  <2> QED BY <1>5, <1>8, <2>2 DEF Tidy
<1>12. Tidy(sig2, fir, t)
  BY <1>1, <1>5, <1>10, <1>11 DEF Tidy
<1>13. ASSUME NEW a \in Signal, NEW what, NEW ref, Tells(sig, fir, a, what, ref)
       PROVE  Tells(sig2, fir, a, what, ref)
  <2>1. CASE a = s
    BY <1>3, <1>5, <2>1 DEF Tells
  <2>2. CASE a # s
    BY <1>5, <1>13, <2>2 DEF Tells
  <2> QED BY <2>1, <2>2
<1>14. Kept(sig, fir, sig2, fir)
  BY <1>13 DEF Kept, Heeds
<1>15. ASSUME NEW c \in Signal  PROVE FollowsAt(sig2, fir, c)
  <2>1. CASE c = s
    BY <1>3, <1>5, <2>1 DEF FollowsAt
  <2>2. CASE c # s
    <3>1. sig2[c] = sig[c] /\ FollowsAt(sig, fir, c)
      BY <1>5, <2>2 DEF Follows
    <3>2. sig[c].of \subseteq Signal
      BY <1>10
    <3>3. \A a \in sig[c].of : /\ sig2[a].reason = sig[a].reason
                               /\ sig[a].st \notin {"live", "unborn"} => sig2[a].st \notin {"live", "unborn"}
      BY <1>6, <1>9, <3>2
    <3> QED BY <1>13, <3>1, <3>2, <3>3 DEF FollowsAt
  <2> QED BY <2>1, <2>2
<1> QED BY <1>12, <1>14, <1>15 DEF Follows

Last(s) == s[Len(s)]
Front(s) == SubSeq(s, 1, Len(s) - 1)

LEMMA FrontFacts ==
  ASSUME NEW S, NEW s \in Seq(S), s # << >>
  PROVE  /\ Len(s) \in Nat \ {0} /\ DOMAIN s = 1 .. Len(s) /\ Len(s) - 1 \in Nat
         /\ Len(s) \in DOMAIN s /\ \A k \in 1 .. Len(s) - 1 : k \in DOMAIN s
         /\ \A k \in 1 .. Len(s) : s[k] \in S /\ (k = Len(s) \/ k \in 1 .. Len(s) - 1)
         /\ s[Len(s)] \in S /\ Last(s) = s[Len(s)]
         /\ Front(s) \in Seq(S) /\ Len(Front(s)) = Len(s) - 1 /\ DOMAIN Front(s) = 1 .. Len(s) - 1
         /\ \A k \in 1 .. Len(s) - 1 : Front(s)[k] = s[k]
<1>1. Len(s) \in Nat \ {0} /\ DOMAIN s = 1 .. Len(s) /\ Len(s) - 1 \in Nat
  OBVIOUS
<1>6. \A n \in Nat \ {0} : /\ n \in 1 .. n /\ \A k \in 1 .. n : k = n \/ k \in 1 .. n - 1
                          /\ \A k \in 1 .. n - 1 : k \in 1 .. n
  OBVIOUS
<1>9. Len(s) \in DOMAIN s /\ \A k \in 1 .. Len(s) - 1 : k \in DOMAIN s
  BY <1>1, <1>6
<1>7. \A k \in 1 .. Len(s) : s[k] \in S
  BY <1>1
<1>8. s[Len(s)] \in S
  BY <1>1, <1>7
<1>2. /\ \A k \in 1 .. Len(s) : s[k] \in S /\ (k = Len(s) \/ k \in 1 .. Len(s) - 1)
      /\ s[Len(s)] \in S
  BY <1>1, <1>6, <1>7, <1>8
<1>3. Last(s) = s[Len(s)]
  BY DEF Last
<1> DEFINE w == SubSeq(s, 1, Len(s) - 1)
<1>4. /\ w \in Seq(S) /\ Len(w) = Len(s) - 1 /\ DOMAIN w = 1 .. Len(s) - 1
      /\ \A k \in 1 .. Len(s) - 1 : w[k] = s[k]
  BY <1>1
<1>5. w = Front(s)
  BY DEF Front
<1> QED BY <1>1, <1>2, <1>3, <1>4, <1>5, <1>9

(* The last abort fires its first listener.                                *)
Takes(fir, fir2) == fir2 = Append(Front(fir), [Last(fir) EXCEPT !.listeners = Tail(@)])

LEMMA TakeFacts ==
  ASSUME NEW fir \in Seq(Firing), fir # << >>, Last(fir).listeners # << >>,
         NEW fir2, Takes(fir, fir2)
  PROVE  /\ fir2 \in Seq(Firing) /\ DOMAIN fir2 = 1 .. Len(fir) /\ Len(fir2) = Len(fir)
         /\ \A k \in 1 .. Len(fir) : fir2[k].s = fir[k].s /\ fir[k].s \in Signal
         /\ \A k \in 1 .. Len(fir) - 1 : fir2[k] = fir[k]
         /\ Head(Last(fir).listeners) \in Listener
         /\ Items(Last(fir).listeners) = Items(fir2[Len(fir)].listeners) \cup {Head(Last(fir).listeners)}
<1> DEFINE top == Last(fir)
           ls == top.listeners
           f == [Last(fir) EXCEPT !.listeners = Tail(@)]
<1>1. /\ Len(fir) \in Nat \ {0} /\ DOMAIN fir = 1 .. Len(fir) /\ Len(fir) - 1 \in Nat
      /\ top \in Firing /\ top = fir[Len(fir)]
      /\ Front(fir) \in Seq(Firing) /\ Len(Front(fir)) = Len(fir) - 1
      /\ \A k \in 1 .. Len(fir) - 1 : Front(fir)[k] = fir[k]
      /\ \A k \in 1 .. Len(fir) : fir[k] \in Firing /\ (k = Len(fir) \/ k \in 1 .. Len(fir) - 1)
  BY FrontFacts
<1>2. ls \in Seq(Listener) /\ top.s \in Signal
  BY <1>1 DEF Firing
<1>3. Items(ls) = Items(Tail(ls)) \cup {Head(ls)} /\ Tail(ls) \in Seq(Listener) /\ Head(ls) \in Listener
  BY <1>2, ItemsTail
<1>4. f \in Firing /\ f.s = top.s /\ f.listeners = Tail(ls)
  <2> DEFINE w == Tail(ls)
  <2>1. w \in Seq(Listener)
    BY <1>3
  <2>2. f = [top EXCEPT !.listeners = w]
    OBVIOUS
  <2> HIDE DEF w, f, top
  <2>3. f \in Firing /\ f.s = top.s /\ f.listeners = w
    BY <1>1, <2>1, <2>2 DEF Firing
  <2> QED BY <2>3 DEF w, top
<1>5. fir2 = Append(Front(fir), f)
  BY DEF Takes
<1> HIDE DEF f, top
<1>6. /\ fir2 \in Seq(Firing) /\ Len(fir2) = Len(fir) /\ DOMAIN fir2 = 1 .. Len(fir)
      /\ fir2[Len(fir)] = f /\ \A k \in 1 .. Len(fir) - 1 : fir2[k] = Front(fir)[k]
  <2> DEFINE rest == Front(fir)
             n == Len(fir)
  <2>1. rest \in Seq(Firing) /\ Len(rest) = n - 1 /\ n \in Nat \ {0} /\ fir2 = Append(rest, f) /\ f \in Firing
    BY <1>1, <1>4, <1>5
  <2> HIDE DEF rest, n
  <2>2. /\ fir2 \in Seq(Firing) /\ Len(fir2) = n /\ DOMAIN fir2 = 1 .. n
        /\ fir2[n] = f /\ \A k \in 1 .. n - 1 : fir2[k] = rest[k]
    BY <2>1
  <2> QED BY <2>2 DEF rest, n
<1>7. ASSUME NEW k \in 1 .. Len(fir)  PROVE fir2[k].s = fir[k].s /\ fir[k].s \in Signal
  <2>1. fir[k] \in Firing
    BY <1>1
  <2>2. k = Len(fir) \/ k \in 1 .. Len(fir) - 1
    BY <1>1
  <2> QED BY <1>1, <1>4, <1>6, <2>1, <2>2 DEF Firing
<1> QED BY <1>1, <1>3, <1>4, <1>6, <1>7 DEF top

LEMMA TakeStep ==
  ASSUME NEW sig, NEW fir, NEW t, Tidy(sig, fir, t), fir # << >>, Last(fir).listeners # << >>,
         NEW fir2, Takes(fir, fir2)
  PROVE  \E l \in Listener, s \in Signal :
           /\ l = Head(Last(fir).listeners) /\ s = Last(fir).s
           /\ Apt(l, s, sig, t) /\ sig[s].st = "aborted" /\ Tidy(sig, fir2, t)
           /\ Len(fir2) = Len(fir)
           /\ \A a \in Signal : \A what, ref :
                 Heeds(sig, fir, sig, fir2, a, what, ref) \/ (a = s /\ what = l.what /\ ref = l.ref)
           /\ \A c \in Signal : FollowsAt(sig, fir, c) =>
                 FollowsAt(sig, fir2, c) \/ (l.what = "signal" /\ l.ref = c /\ sig[c].st = "live")
<1> DEFINE l == Head(Last(fir).listeners)
           s == Last(fir).s
<1>1. sig \in [Signal -> SignalRec] /\ fir \in Seq(Firing)
  BY DEF Tidy
<1>11. /\ Len(fir) \in Nat \ {0} /\ DOMAIN fir = 1 .. Len(fir) /\ Last(fir) = fir[Len(fir)]
       /\ Len(fir) \in DOMAIN fir /\ \A k \in 1 .. Len(fir) - 1 : k \in DOMAIN fir
       /\ \A k \in 1 .. Len(fir) : fir[k] \in Firing /\ (k = Len(fir) \/ k \in 1 .. Len(fir) - 1)
  BY <1>1, FrontFacts
<1>2. /\ fir2 \in Seq(Firing) /\ DOMAIN fir2 = 1 .. Len(fir) /\ Len(fir2) = Len(fir)
      /\ \A k \in 1 .. Len(fir) : fir2[k].s = fir[k].s /\ fir[k].s \in Signal
      /\ \A k \in 1 .. Len(fir) - 1 : fir2[k] = fir[k]
      /\ l \in Listener
      /\ Items(Last(fir).listeners) = Items(fir2[Len(fir)].listeners) \cup {l}
  BY <1>1, TakeFacts
<1> HIDE DEF l
<1>3. s \in Signal /\ Len(fir) \in DOMAIN fir
  <2>1. Len(fir) \in 1 .. Len(fir)
    BY <1>11
  <2> QED BY <1>2, <1>11, <2>1
<1>4. sig[s].st = "aborted" /\ Apt(l, s, sig, t)
  BY <1>2, <1>3, <1>11 DEF Tidy
<1>5. \A k \in 1 .. Len(fir) : k = Len(fir) \/ k \in 1 .. Len(fir) - 1
  BY <1>11
<1>6. Tidy(sig, fir2, t)
  <2>1. ASSUME NEW k \in 1 .. Len(fir)
        PROVE  /\ sig[fir2[k].s].st = "aborted"
               /\ \A x \in Items(fir2[k].listeners) : Apt(x, fir2[k].s, sig, t)
               /\ \A j \in 1 .. Len(fir) : fir2[j].s = fir2[k].s => j = k
    <3>1. /\ sig[fir[k].s].st = "aborted" /\ \A x \in Items(fir[k].listeners) : Apt(x, fir[k].s, sig, t)
          /\ \A j \in 1 .. Len(fir) : fir[j].s = fir[k].s => j = k
      BY <1>2, <1>11 DEF Tidy
    <3>2. Items(fir2[k].listeners) \subseteq Items(fir[k].listeners)
      BY <1>2, <1>5, <1>11
    <3> QED BY <1>2, <3>1, <3>2
  <2> QED BY <1>2, <2>1 DEF Tidy
<1>7. ASSUME NEW a \in Signal, NEW what, NEW ref, ~(a = s /\ what = l.what /\ ref = l.ref),
             Tells(sig, fir, a, what, ref)
      PROVE  Tells(sig, fir2, a, what, ref)
  <2>1. ASSUME NEW k \in 1 .. Len(fir), fir[k].s = a, Has(fir[k].listeners, what, ref)
        PROVE  fir2[k].s = a /\ Has(fir2[k].listeners, what, ref)
    <3>1. CASE k \in 1 .. Len(fir) - 1
      BY <1>2, <2>1, <3>1
    <3>2. CASE k = Len(fir)
      <4>1. a = s
        BY <1>11, <2>1, <3>2
      <4>2. PICK x \in Items(Last(fir).listeners) : x.what = what /\ x.ref = ref
        BY <1>11, <2>1, <3>2 DEF Has
      <4>3. x # l
        BY <1>7, <4>1, <4>2
      <4> QED BY <1>2, <2>1, <3>2, <4>2, <4>3 DEF Has
    <3> QED BY <1>5, <3>1, <3>2
  <2> QED BY <1>2, <1>7, <1>11, <2>1 DEF Tells
<1>8. \A a \in Signal : \A what, ref :
        Heeds(sig, fir, sig, fir2, a, what, ref) \/ (a = s /\ what = l.what /\ ref = l.ref)
  BY <1>7 DEF Heeds
<1>9. ASSUME NEW c \in Signal, FollowsAt(sig, fir, c), ~(l.what = "signal" /\ l.ref = c /\ sig[c].st = "live")
      PROVE  FollowsAt(sig, fir2, c)
  <2>1. sig[c].of \subseteq Signal
    BY <1>1 DEF SignalRec
  <2> QED BY <1>7, <1>9, <2>1 DEF FollowsAt
<1>10. \A c \in Signal : FollowsAt(sig, fir, c) =>
         FollowsAt(sig, fir2, c) \/ (l.what = "signal" /\ l.ref = c /\ sig[c].st = "live")
  BY <1>9
<1>12. l \in Listener /\ l = Head(Last(fir).listeners)
  BY <1>2 DEF l
<1> QED BY <1>2, <1>3, <1>4, <1>6, <1>8, <1>10, <1>12

(* The last abort has fired all its listeners.                             *)
LEMMA PopFiring ==
  ASSUME NEW sig, NEW fir, NEW t, Tidy(sig, fir, t), fir # << >>, Last(fir).listeners = << >>,
         NEW fir2, fir2 = Front(fir)
  PROVE  /\ Tidy(sig, fir2, t) /\ Kept(sig, fir, sig, fir2) /\ Len(fir2) = Len(fir) - 1
         /\ Follows(sig, fir) => Follows(sig, fir2)
<1>1. sig \in [Signal -> SignalRec] /\ fir \in Seq(Firing)
  BY DEF Tidy
<1>2. /\ Len(fir) \in Nat \ {0} /\ DOMAIN fir = 1 .. Len(fir) /\ fir2 \in Seq(Firing)
      /\ Last(fir) = fir[Len(fir)] /\ DOMAIN fir2 = 1 .. Len(fir) - 1 /\ Len(fir2) = Len(fir) - 1
      /\ \A k \in 1 .. Len(fir) - 1 : fir2[k] = fir[k]
      /\ \A k \in 1 .. Len(fir) : fir[k] \in Firing /\ (k = Len(fir) \/ k \in 1 .. Len(fir) - 1)
  BY <1>1, FrontFacts
<1>20. /\ \A k \in 1 .. Len(fir) - 1 : k \in DOMAIN fir
  BY <1>1, FrontFacts
<1>3. Tidy(sig, fir2, t)
  <2>1. ASSUME NEW k \in 1 .. Len(fir) - 1
        PROVE  /\ sig[fir2[k].s].st = "aborted"
               /\ \A l \in Items(fir2[k].listeners) : Apt(l, fir2[k].s, sig, t)
               /\ \A j \in 1 .. Len(fir) - 1 : fir2[j].s = fir2[k].s => j = k
    <3>1. k \in DOMAIN fir /\ fir2[k] = fir[k]
      BY <1>2, <1>20
    <3>2. \A j \in 1 .. Len(fir) - 1 : j \in DOMAIN fir /\ fir2[j] = fir[j]
      BY <1>2, <1>20
    <3> QED BY <3>1, <3>2 DEF Tidy
  <2> QED BY <1>2, <2>1 DEF Tidy
<1>4. ASSUME NEW a \in Signal, NEW what, NEW ref, Tells(sig, fir, a, what, ref)
      PROVE  Tells(sig, fir2, a, what, ref)
  <2>1. ASSUME NEW k \in 1 .. Len(fir), Has(fir[k].listeners, what, ref)  PROVE k \in 1 .. Len(fir) - 1
    <3>1. k # Len(fir)
      BY <1>2, <2>1, EmptyList
    <3> QED BY <1>2, <3>1
  <2> QED BY <1>2, <1>4, <2>1 DEF Tells
<1>5. Kept(sig, fir, sig, fir2)
  BY <1>4 DEF Kept, Heeds
<1>6. ASSUME NEW c \in Signal, FollowsAt(sig, fir, c)  PROVE FollowsAt(sig, fir2, c)
  <2>1. sig[c].of \subseteq Signal
    BY <1>1 DEF SignalRec
  <2> QED BY <1>4, <1>6, <2>1 DEF FollowsAt
<1> QED BY <1>2, <1>3, <1>5, <1>6 DEF Follows

(***************************************************************************)
(* What promises and microtasks do to those who are to hear of an abort.   *)
(***************************************************************************)

(* A settled promise stays settled, and a queued rejection stays queued    *)
(* until it has settled its promise.                                       *)
StillCloses(t, m, n, m2) == \A p \in Id : t[p].by = "timer" /\ Closing(t, m, p) => Closing(n, m2, p)

LEMMA QueueGrows ==
  ASSUME NEW t, NEW m, NEW n, NEW m2, Items(m) \subseteq Items(m2),
         \A p \in Id : t[p].st \in {"fulfilled", "rejected"} => n[p].st \in {"fulfilled", "rejected"}
  PROVE  StillCloses(t, m, n, m2)
<1> SUFFICES ASSUME NEW p \in Id, Closing(t, m, p)  PROVE Closing(n, m2, p)
  BY DEF StillCloses
<1>1. CASE t[p].st \in {"fulfilled", "rejected"}
  BY <1>1 DEF Closing
<1>2. CASE \E i \in DOMAIN m : m[i].op = "cap" /\ m[i].p = p /\ m[i].side = "err"
  <2>1. PICK a \in Items(m) : a.op = "cap" /\ a.p = p /\ a.side = "err"
    BY <1>2 DEF Items
  <2>2. PICK j \in DOMAIN m2 : m2[j] = a
    BY <2>1 DEF Items
  <2> QED BY <2>1, <2>2 DEF Closing
<1> QED BY <1>1, <1>2 DEF Closing

LEMMA SettledKept ==
  ASSUME TableStep
  PROVE  \A p \in Id : promise[p].st \in {"fulfilled", "rejected"} => promise'[p].st \in {"fulfilled", "rejected"}
<1>1. CASE promise' = promise
  BY <1>1
<1>2. CASE Moves(promise, promise')
  BY <1>2 DEF Moves, Same
<1> QED BY <1>1, <1>2 DEF TableStep

LEMMA ItemsConcat ==
  ASSUME NEW S, NEW m \in Seq(S), NEW x \in Seq(S)
  PROVE  Items(m) \subseteq Items(m \o x) /\ Items(x) \subseteq Items(m \o x)
<1> DEFINE w == m \o x
<1>1. /\ DOMAIN m = 1 .. Len(m) /\ DOMAIN x = 1 .. Len(x) /\ Len(m) \in Nat /\ Len(x) \in Nat
      /\ DOMAIN w = 1 .. Len(m) + Len(x)
      /\ \A i \in 1 .. Len(m) : w[i] = m[i]
      /\ \A i \in 1 .. Len(x) : w[Len(m) + i] = x[i]
  OBVIOUS
<1>2. /\ \A i \in 1 .. Len(m) : i \in 1 .. Len(m) + Len(x)
      /\ \A i \in 1 .. Len(x) : Len(m) + i \in 1 .. Len(m) + Len(x)
  BY <1>1
<1> HIDE DEF w
<1>3. Items(m) \subseteq Items(w)
  BY <1>1, <1>2 DEF Items
<1>4. Items(x) \subseteq Items(w)
  BY <1>1, <1>2 DEF Items
<1> QED BY <1>3, <1>4 DEF w

LEMMA ItemsOne ==
  ASSUME NEW S, NEW m \in Seq(S), NEW x, x = << >> \/ \E a : x = <<a>>
  PROVE  Items(m) \subseteq Items(m \o x)
<1>1. CASE x = << >>
  <2>1. x \in Seq(S)
    BY <1>1
  <2> QED BY <2>1, ItemsConcat
<1>2. ASSUME NEW a, x = <<a>>  PROVE Items(m) \subseteq Items(m \o x)
  <2> DEFINE T == S \cup {a}
  <2>1. x \in Seq(T) /\ m \in Seq(T)
    BY <1>2
  <2> HIDE DEF T
  <2> QED BY <2>1, ItemsConcat
<1> QED BY <1>1, <1>2

LEMMA SettleItems ==
  ASSUME PromiseInv, NEW queue \in Seq(Safe), NEW p \in Id, NEW side \in Side, NEW v \in Value,
         Outcome(promise, side, v).st # "unborn", SettleAfter(queue, p, side, v)
  PROVE  Items(queue) \subseteq Items(micro')
<1>1. Sound(promise)
  BY DEF PromiseInv
<1>2. Jobs(promise, p, side, v) \in Seq(Safe)
  BY <1>1, SettledFacts
<1>3. micro' = queue \o Jobs(promise, p, side, v)
  BY DEF SettleAfter
<1> QED BY <1>2, <1>3, ItemsConcat

LEMMA ReturnItems ==
  ASSUME PromiseInv, NEW queue \in Seq(Safe), NEW base, NEW p \in Id, NEW side \in Side, NEW v \in Value,
         Outcome(promise, side, v).st # "unborn", SettleAndReturn(queue, base, p, side, v)
  PROVE  Items(queue) \subseteq Items(micro')
<1>1. CASE SelfResolution(p, side, v)
  BY <1>1 DEF SettleAndReturn
<1>2. CASE ~SelfResolution(p, side, v)
  <2>1. SettleAfter(queue, p, side, v)
    BY <1>2 DEF SettleAndReturn
  <2> QED BY <2>1, SettleItems
<1> QED BY <1>1, <1>2

LEMMA RegisteredItems ==
  ASSUME NEW m \in Seq(Safe), NEW t, NEW q, NEW ok, NEW err
  PROVE  Items(m) \subseteq Items(m \o RegisteredJobs(t, q, ok, err))
<1>1. \/ RegisteredJobs(t, q, ok, err) = << >>
      \/ \E a : RegisteredJobs(t, q, ok, err) = <<a>>
  BY DEF RegisteredJobs
<1> QED BY <1>1, ItemsOne

LEMMA ApiItems ==
  ASSUME PromiseInv, ApiCall  PROVE Items(micro) \subseteq Items(micro')
<1>1. micro \in Seq(Safe)
  BY DEF PromiseInv
<1>2. CASE Construct \/ Static \/ Try \/ CallAsync \/ Block
  BY <1>2 DEF Construct, Static, Try, CallAsync, Block
<1>3. CASE Resolve
  <2>1. PICK p \in Id, side \in Side, v \in Passable : SettleAfter(micro, p, side, v)
    BY <1>3 DEF Resolve
  <2>2. v \in Value /\ Outcome(promise, side, v).st # "unborn"
    BY PassableFacts
  <2> QED BY <1>1, <2>1, <2>2, SettleItems
<1>4. CASE Then \/ Finally
  <2>1. \E p, d, ok, err : Derive(p, d, ok, err)
    BY <1>4 DEF Then, Finally
  <2>2. \E t, p, ok, err : micro' = micro \o RegisteredJobs(t, p, ok, err)
    BY <2>1 DEF Derive
  <2> QED BY <1>1, <2>2, RegisteredItems
<1>5. CASE QueueMicrotask
  <2>1. CASE \E op \in {"task", "quiet"} : micro' = Append(micro, Call(op, 0))
    <3>1. PICK a : a \in Safe /\ micro' = Append(micro, a)
      BY <2>1, CallType, ValueFacts DEF Op, Settling
    <3> QED BY <1>1, <3>1, ItemsAppend
  <2>2. CASE micro' = <<Call("task", 0)>> \o micro
    <3>1. Call("task", 0) \in Safe
      BY CallType, ValueFacts DEF Op, Settling
    <3>2. <<Call("task", 0)>> \in Seq(Safe)
      BY <3>1
    <3> QED BY <1>1, <2>2, <3>2, ItemsConcat
  <2> QED BY <1>5, <2>1, <2>2 DEF QueueMicrotask
<1>6. CASE Suspend
  <2>1. CASE \E t, v, ok, err : micro' = micro \o RegisteredJobs(t, v, ok, err)
    BY <1>1, <2>1, RegisteredItems
  <2>2. CASE \E v \in Plain : micro' = Append(micro, Given(Callback("resume", Top.p, "ok", 0), v))
    <3>1. PICK a : micro' = Append(micro, a)
      BY <2>2
    <3> DEFINE S == Safe \cup {a}
    <3>2. micro \in Seq(S) /\ a \in S
      BY <1>1
    <3> HIDE DEF S
    <3> QED BY <3>1, <3>2, ItemsAppend
  <2> QED BY <1>6, <2>1, <2>2 DEF Suspend
<1> QED BY <1>2, <1>3, <1>4, <1>5, <1>6 DEF ApiCall

LEMMA EndItems ==
  ASSUME PromiseInv, NEW ending \in {"ok", "err", "host"}, NEW v \in Value, EndCall(ending, v),
         v \in Passable \/ (v \notin Id /\ ending = "host")
  PROVE  Items(micro) \subseteq Items(micro')
<1>1. micro \in Seq(Safe) /\ stack # << >> /\ Top \in Safe
  BY StackFacts DEF PromiseInv, EndCall, InScript
<1>2. \A side \in Side : Outcome(promise, side, v).st # "unborn"
  BY PassableFacts
<1>3. CASE EndScript(ending) \/ EndTask(ending) \/ EndTry(ending, v)
  BY <1>3 DEF EndScript, EndTask, EndTry
<1>4. CASE EndExecutor(ending, v)
  <2>1. CASE ending = "err"
    <3>1. SettleAfter(micro, Top.p, "err", v) /\ Top.p \in Id /\ "err" \in Side
      BY <1>1, <1>4, <2>1 DEF EndExecutor, Safe, Goal, Settling, Side
    <3> QED BY <1>1, <1>2, <3>1, SettleItems
  <2>2. CASE ending # "err"
    BY <1>4, <2>2 DEF EndExecutor
  <2> QED BY <2>1, <2>2
<1>5. CASE EndThen(ending, v)
  <2>1. /\ Top.p \in Id /\ (IF ending = "ok" THEN "ok" ELSE "err") \in Side
        /\ SettleAndReturn(micro, Rest, Top.p, IF ending = "ok" THEN "ok" ELSE "err", v)
    BY <1>1, <1>5 DEF EndThen, Safe, Goal, Settling, Side
  <2> QED BY <1>1, <1>2, <2>1, ReturnItems
<1>6. CASE EndFinally(ending, v)
  <2>1. Top.p \in Id /\ Top.side \in Side /\ "err" \in Side /\ Top.val \in Value
        /\ (Top.side = "err" \/ Top.val \notin Id)
    BY <1>1, <1>6 DEF EndFinally, Safe, Goal, Act, Settling, Side
  <2>2. Outcome(promise, Top.side, Top.val).st # "unborn"
    BY <2>1, PassableFacts
  <2>3. \/ SettleAndReturn(micro, Rest, Top.p, Top.side, Top.val)
        \/ SettleAndReturn(micro, Rest, Top.p, "err", v)
    BY <1>6 DEF EndFinally
  <2> QED BY <1>1, <1>2, <2>1, <2>2, <2>3, ReturnItems
<1>7. CASE EndBody(ending, v)
  <2>1. CASE ending = "host"
    BY <1>7, <2>1 DEF EndBody
  <2>2. CASE ending # "host"
    <3>1. SettleAndReturn(micro, Rest, Top.p, ending, v) /\ Top.p \in Id /\ ending \in Side
      BY <1>1, <1>7, <2>2 DEF EndBody, Safe, Goal, Settling, Side
    <3> QED BY <1>1, <1>2, <3>1, ReturnItems
  <2> QED BY <2>1, <2>2
<1> QED BY <1>3, <1>4, <1>5, <1>6, <1>7 DEF EndCall

LEMMA JobItems ==
  ASSUME PromiseInv, Neat(promise), RunJob, TableStep
  PROVE  StillCloses(promise, micro, promise', micro')
<1> DEFINE rest == Tail(micro)
<1>1. /\ micro \in Seq(Safe) /\ micro # << >> /\ Job \in Safe /\ rest \in Seq(Safe)
      /\ Items(micro) = Items(rest) \cup {Job}
  BY ItemsTail DEF PromiseInv, RunJob, Job
<1>2. RunSettler \/ RunCallback \/ RunResume
  BY DEF RunJob
<1>3. Items(rest) \subseteq Items(micro')
  <2>1. CASE RunSettler
    <3>1. /\ SettleAndReturn(rest, stack, Job.p, Job.side, Job.val)
          /\ Job.op = "cap" \/ Job.op = "then"
      BY <2>1 DEF RunSettler
    <3>2. Job.p \in Id /\ Job.side \in Side /\ Job.val \in Value /\ (Job.side = "err" \/ Job.val \notin Id)
      BY <1>1, <3>1 DEF Safe, Goal, Act, Settling, Side
    <3>3. Outcome(promise, Job.side, Job.val).st # "unborn"
      BY <3>2, PassableFacts
    <3> HIDE DEF rest
    <3> QED BY <1>1, <3>1, <3>2, <3>3, ReturnItems
  <2>2. CASE RunCallback \/ RunResume
    BY <2>2 DEF RunCallback, RunResume
  <2> QED BY <1>2, <2>1, <2>2
<1>4. \A p \in Id : promise[p].st \in {"fulfilled", "rejected"} => promise'[p].st \in {"fulfilled", "rejected"}
  BY SettledKept
<1>5. StillCloses(promise, rest, promise', micro')
  <2> HIDE DEF rest
  <2> QED BY <1>3, <1>4, QueueGrows
<1> HIDE DEF rest
<1> SUFFICES ASSUME NEW p \in Id, promise[p].by = "timer", Closing(promise, micro, p)
             PROVE  Closing(promise', micro', p)
  BY DEF StillCloses
<1>6. CASE Closing(promise, rest, p)
  BY <1>5, <1>6 DEF StillCloses
<1>7. CASE ~Closing(promise, rest, p)
  <2>1. PICK a \in Items(micro) : a.op = "cap" /\ a.p = p /\ a.side = "err"
    BY <1>7 DEF Closing, Items
  <2>2. a \notin Items(rest)
    BY <1>7, <2>1 DEF Closing, Items
  <2>3. Job.op = "cap" /\ Job.p = p /\ Job.side = "err"
    BY <1>1, <2>1, <2>2
  <2>4. SettleAndReturn(Tail(micro), stack, p, "err", Job.val)
    BY <1>2, <2>3 DEF RunSettler, RunCallback, RunResume
  <2>5. promise' = Settled(promise, p, "err", Job.val)
    BY <2>4 DEF SettleAndReturn, SelfResolution, SettleAfter
  <2>6. promise[p].st \in {"pending", "fulfilled", "rejected"} /\ promise \in [Id -> SoundRec]
    <3>1. promise \in [Id -> SoundRec] /\ promise[p].st # "unborn"
      BY DEF PromiseInv, Sound, Table, Neat
    <3> QED BY <3>1 DEF SoundRec
  <2>7. promise[p].st = "pending" => promise'[p].st = "rejected"
    BY <2>5, <2>6 DEF Settled, Outcome, Closed
  <2>8. promise[p].st # "pending" => promise' = promise
    BY <2>5 DEF Settled
  <2> QED BY <2>6, <2>7, <2>8 DEF Closing
<1> QED BY <1>6, <1>7

LEMMA PromiseHeeds ==
  ASSUME ObligationInv({}), [PromiseNext]_promiseVars
  PROVE  Stays(promise, promise') /\ StillCloses(promise, micro, promise', micro')
<1>1. PromiseInv /\ Neat(promise) /\ TableStep
  BY InvNext DEF ObligationInv, Shape
<1>2. Stays(promise, promise')
  <2>1. SameTimers({}, promise, promise')
    BY PromiseMove
  <2> QED BY <2>1 DEF SameTimers, Stays
<1>3. \A p \in Id : promise[p].st \in {"fulfilled", "rejected"} => promise'[p].st \in {"fulfilled", "rejected"}
  BY <1>1, SettledKept
<1>4. CASE RunJob
  BY <1>1, <1>2, <1>4, JobItems
<1>5. CASE ApiCall
  BY <1>1, <1>2, <1>3, <1>5, ApiItems, QueueGrows
<1>6. CASE Return \/ Throw \/ Fail
  <2>1. \E ending \in {"ok", "err", "host"}, v \in Value :
           EndCall(ending, v) /\ (v \in Passable \/ (v \notin Id /\ ending = "host"))
    BY <1>6, PassableFacts, ValueFacts DEF Return, Throw, Fail
  <2>2. Items(micro) \subseteq Items(micro')
    BY <1>1, <2>1, EndItems
  <2> QED BY <1>2, <1>3, <2>2, QueueGrows
<1>7. CASE AwaitReturns \/ AwaitStarves \/ LoopEnds \/ Ended \/ UNCHANGED promiseVars
  <2>1. micro' = micro
    BY <1>7 DEF AwaitReturns, AwaitStarves, LoopEnds, Ended, promiseVars
  <2>2. Items(micro) \subseteq Items(micro')
    BY <2>1
  <2> QED BY <1>2, <1>3, <2>2, QueueGrows
<1> QED BY <1>4, <1>5, <1>6, <1>7 DEF PromiseNext

(* The timer of a promise settles it.                                      *)
LEMMA WakeHeeds ==
  ASSUME ObligationInv({}), NEW p \in Id, NEW side \in Side, NEW v \in Value,
         Outcome(promise, side, v).st # "unborn", SettleAfter(micro, p, side, v)
  PROVE  /\ Stays(promise, promise') /\ StillCloses(promise, micro, promise', micro')
         /\ side = "err" /\ promise[p].by # "none" => Closing(promise', micro', p)
<1>1. PromiseInv /\ Neat(promise) /\ Sound(promise) /\ micro \in Seq(Safe)
  BY DEF ObligationInv, Shape, PromiseInv
<1>2. TableStep
  BY <1>1, SettleStep
<1>3. StillCloses(promise, micro, promise', micro')
  BY <1>1, <1>2, SettleItems, SettledKept, QueueGrows
<1>4. promise' = Settled(promise, p, side, v)
  BY DEF SettleAfter
<1>5. \A q \in Id : promise'[q].by = promise[q].by
  BY <1>1, <1>4, SettleLoad
<1>6. ASSUME side = "err", promise[p].by # "none"  PROVE Closing(promise', micro', p)
  <2>1. promise[p].st \in {"pending", "fulfilled", "rejected"} /\ promise \in [Id -> SoundRec]
    <3>1. promise \in [Id -> SoundRec] /\ promise[p].st # "unborn"
      BY <1>1, <1>6 DEF Sound, Table, Neat
    <3> QED BY <3>1 DEF SoundRec
  <2>2. promise[p].st = "pending" => promise'[p].st = "rejected"
    BY <1>4, <1>6, <2>1 DEF Settled, Outcome, Closed
  <2>3. promise[p].st # "pending" => promise' = promise
    BY <1>4 DEF Settled
  <2> QED BY <2>1, <2>2, <2>3 DEF Closing
<1> QED BY <1>3, <1>5, <1>6 DEF Stays

(* A promise is created.                                                   *)
LEMMA BirthHeeds ==
  ASSUME PromiseInv, Neat(promise), NEW p \in Id, ~Born(p), NEW r, Becomes(promise, promise', p, r),
         Items(micro) \subseteq Items(micro')
  PROVE  Stays(promise, promise') /\ StillCloses(promise, micro, promise', micro')
<1>1. promise[p].by = "none" /\ promise[p].st = "unborn"
  BY DEF Neat, Born
<1>2. Stays(promise, promise')
  BY <1>1 DEF Becomes, Stays
<1>3. \A q \in Id : promise[q].st \in {"fulfilled", "rejected"} => promise'[q].st \in {"fulfilled", "rejected"}
  BY <1>1 DEF Becomes
<1> QED BY <1>2, <1>3, QueueGrows

LEMMA LoopHeeds ==
  ASSUME LoopBase({}), [LoopNext]_loopVars
  PROVE  /\ Stays(promise, promise') /\ StillCloses(promise, micro, promise', micro')
         /\ cancelled \subseteq cancelled'
<1>1. ObligationInv({}) /\ PromiseInv /\ Neat(promise) /\ promise \in [Id -> SoundRec]
  BY DEF LoopBase, ObligationInv, Shape, PromiseInv, Sound, Table
<1>2. cancelled \subseteq cancelled'
  BY DEF LoopNext, TimerCall, SetTimer, ClearTimer, Wait, TM!Cancel, StartTimer, TM!Start, EndTimer,
         TM!FinishOnce, TM!FinishTick, Wake, Tick, TM!Tick, LoopEnded, loopVars, timerVars
<1>3. CASE UNCHANGED <<promise, micro>>
  BY <1>2, <1>3 DEF Stays, StillCloses
<1>4. CASE Wait
  <2>1. PICK p \in Id : ~Born(p) /\ promise' = [promise EXCEPT ![p] = Pending("timer")] /\ micro' = micro
    BY <1>4 DEF Wait, Fresh, Next1
  <2>2. Becomes(promise, promise', p, Pending("timer"))
    BY <1>1, <2>1 DEF Becomes
  <2>3. Items(micro) \subseteq Items(micro')
    BY <2>1
  <2> QED BY <1>1, <1>2, <2>1, <2>2, <2>3, BirthHeeds
<1>5. CASE Wake
  <2>1. Top.p \in Id /\ SettleAfter(micro, Top.p, "ok", Undef) /\ "ok" \in Side
    BY <1>5 DEF Wake, Side
  <2>2. Undef \in Value /\ Outcome(promise, "ok", Undef).st # "unborn"
    BY ValueFacts DEF Outcome
  <2> QED BY <1>1, <1>2, <2>1, <2>2, WakeHeeds
<1>6. CASE PromiseNext
  BY <1>1, <1>2, <1>6, PromiseHeeds
<1>7. CASE SetTimer \/ ClearTimer \/ StartTimer \/ EndTimer \/ Tick \/ LoopEnded \/ UNCHANGED loopVars
  <2>1. UNCHANGED <<promise, micro>>
    BY <1>7 DEF SetTimer, ClearTimer, StartTimer, EndTimer, Tick, LoopEnded, loopVars, promiseVars
  <2> QED BY <1>3, <2>1
<1> QED BY <1>4, <1>5, <1>6, <1>7 DEF LoopNext, TimerCall, PromiseNext, Exhausted

(***************************************************************************)
(* The calls "abort" on the stack.                                         *)
(***************************************************************************)

LEMMA AbortsPush ==
  ASSUME NEW s \in Seq(Act), NEW a \in Act, NEW w, Pushes(w, s, a)
  PROVE  /\ Len(s) + 1 \notin Aborts(s)
         /\ Aborts(w) = Aborts(s) \cup (IF a.op = "abort" THEN {Len(s) + 1} ELSE {})
<1>1. /\ Len(s) \in Nat /\ DOMAIN s = 1 .. Len(s)
      /\ DOMAIN w = 1 .. Len(s) + 1 /\ w[Len(s) + 1] = a
      /\ \A i \in 1 .. Len(s) : w[i] = s[i]
  BY PushPoints
<1>2. /\ \A i : i \in 1 .. Len(s) + 1 <=> i \in 1 .. Len(s) \/ i = Len(s) + 1
      /\ Len(s) + 1 \notin 1 .. Len(s)
  BY <1>1
<1> QED BY <1>1, <1>2 DEF Aborts

LEMMA AbortsFinite ==
  ASSUME NEW s \in Seq(Act)
  PROVE  IsFiniteSet(Aborts(s)) /\ Cardinality(Aborts(s)) \in Nat
<1>1. Len(s) \in Nat /\ DOMAIN s = 1 .. Len(s)
  OBVIOUS
<1>2. IsFiniteSet(1 .. Len(s))
  BY <1>1, FS_Interval
<1>3. Aborts(s) \subseteq 1 .. Len(s)
  BY <1>1 DEF Aborts
<1>4. IsFiniteSet(Aborts(s))
  BY <1>2, <1>3, FS_Subset
<1> QED BY <1>4, FS_CardinalityType

LEMMA AbortsMore ==
  ASSUME NEW s \in Seq(Act), NEW a \in Act, NEW w, Pushes(w, s, a), a.op = "abort"
  PROVE  Cardinality(Aborts(w)) = Cardinality(Aborts(s)) + 1 /\ Cardinality(Aborts(s)) \in Nat
<1>1. Aborts(w) = Aborts(s) \cup {Len(s) + 1} /\ Len(s) + 1 \notin Aborts(s)
  BY AbortsPush
<1>2. IsFiniteSet(Aborts(s)) /\ Cardinality(Aborts(s)) \in Nat
  BY AbortsFinite
<1> QED BY <1>1, <1>2, FS_AddElement

LEMMA AbortsOther ==
  ASSUME NEW s \in Seq(Act), NEW a \in Act, NEW w, Pushes(w, s, a), a.op # "abort"
  PROVE  Aborts(w) = Aborts(s)
<1>1. Aborts(w) = Aborts(s) \cup {}
  BY AbortsPush
<1> QED BY <1>1

LEMMA AbortsLeft ==
  ASSUME NEW base \in Seq(Act), NEW s, Left(base, s)
  PROVE  Aborts(s) = Aborts(base)
<1>1. CASE s = base
  BY <1>1
<1>2. CASE base # << >> /\ Waits(base) /\ s = SubSeq(base, 1, Len(base) - 1)
  <2>1. Pushes(base, s, base[Len(base)]) /\ s \in Seq(Act) /\ base[Len(base)] \in Act
    BY <1>2, LastPushed
  <2>2. base[Len(base)].op # "abort"
    BY <1>2 DEF Waits
  <2> QED BY <2>1, <2>2, AbortsOther
<1> QED BY <1>1, <1>2 DEF Left

LEMMA LoopAborts ==
  ASSUME LoopBase({}), [LoopNext]_loopVars
  PROVE  Aborts(stack') = Aborts(stack)
<1>1. /\ ObligationInv({}) /\ PromiseInv /\ stack \in Seq(Act)
      /\ stack # << >> => Top \in Act /\ Rest \in Seq(Act) /\ Pushes(stack, Rest, Top)
  BY InvSeqs DEF LoopBase, ObligationInv
<1>2. CASE stack' = stack
  BY <1>2
<1>3. CASE PromiseNext
  <2>1. StackMove
    BY <1>1, <1>3, PromiseMove
  <2>2. CASE Left(stack, stack')
    BY <1>1, <2>2, AbortsLeft
  <2>3. CASE \E a \in Act : Pushes(stack', stack, a) /\ a.op \notin Foreign
    BY <1>1, <2>3, AbortsOther DEF Foreign
  <2>4. CASE stack # << >> /\ Top.op \notin Foreign /\ Left(Rest, stack')
    <3>1. Aborts(stack') = Aborts(Rest)
      BY <1>1, <2>4, AbortsLeft
    <3>2. Aborts(stack) = Aborts(Rest)
      BY <1>1, <2>4, AbortsOther DEF Foreign
    <3> QED BY <3>1, <3>2
  <2> QED BY <2>1, <2>2, <2>3, <2>4 DEF StackMove
<1>4. CASE StartTimer
  <2>1. PICK task : stack' = Append(stack, TaskCall(task))
    BY <1>4 DEF StartTimer
  <2>2. TaskCall(task) \in Act /\ TaskCall(task).op # "abort"
    BY TaskCallFacts DEF TimerOps
  <2>3. Pushes(stack', stack, TaskCall(task))
    BY <2>1 DEF Pushes
  <2> QED BY <1>1, <2>2, <2>3, AbortsOther
<1>5. CASE EndTimer \/ Wake
  <2>1. stack # << >> /\ stack' = Rest /\ Top.op # "abort"
    BY <1>5 DEF EndTimer, InScript, Wake
  <2> QED BY <1>1, <2>1, AbortsOther
<1>6. CASE SetTimer \/ ClearTimer \/ Wait \/ Tick \/ LoopEnded \/ UNCHANGED loopVars
  <2>1. stack' = stack
    BY <1>6 DEF SetTimer, ClearTimer, Wait, Tick, LoopEnded, loopVars, promiseVars
  <2> QED BY <1>2, <2>1
<1> QED BY <1>3, <1>4, <1>5, <1>6 DEF LoopNext, TimerCall, PromiseNext, Exhausted

(***************************************************************************)
(* The queue of timers.                                                    *)
(***************************************************************************)

(* What a step schedules is in T; the rest of it is the queue's.           *)
QueueMove(T) ==
    \/ running' = running /\ \E delay, every : \E task \in T : TM!Schedule(delay, every, task)
    \/ TM!Start \/ TM!FinishOnce \/ TM!FinishTick
    \/ UNCHANGED <<heap, nextId, nextSeq, running>>
Scheduled(d) == Due(d) # {} \/ InTask(d) # {}

LEMMA LoopQueue == ASSUME [LoopNext]_loopVars  PROVE QueueMove(0 .. MaxPromise)
<1>1. CASE SetTimer
  <2>1. running' = running /\ \E delay, every : TM!Schedule(delay, every, 0)
    BY <1>1 DEF SetTimer
  <2>2. 0 \in 0 .. MaxPromise
    BY ValueFacts
  <2> QED BY <2>1, <2>2 DEF QueueMove
<1>2. CASE Wait
  <2>1. running' = running /\ \E p \in Id, delay \in Delay : TM!Schedule(delay, Once, p)
    BY <1>2 DEF Wait
  <2>2. Id \subseteq 0 .. MaxPromise
    BY ValueFacts
  <2> QED BY <2>1, <2>2 DEF QueueMove
<1>3. CASE StartTimer \/ EndTimer \/ Wake
  BY <1>3 DEF StartTimer, EndTimer, Wake, QueueMove
<1>4. CASE ClearTimer \/ Tick \/ LoopEnded \/ UNCHANGED timerVars
  BY <1>4 DEF ClearTimer, Tick, TM!Tick, LoopEnded, loopVars, timerVars, QueueMove
<1> QED BY <1>1, <1>2, <1>3, <1>4 DEF LoopNext, TimerCall, loopVars

LEMMA TasksMove ==
  ASSUME TP!TimerInv, NEW T, QueueMove(T), NEW d, Scheduled(d)'
  PROVE  Scheduled(d) \/ d \in T
<1>1. running \in Seq(TP!Entry) /\ heap \subseteq TP!Entry
  BY QueueFacts
<1>2. ASSUME NEW delay, NEW every, NEW task \in T, TM!Schedule(delay, every, task), running' = running
      PROVE  Scheduled(d) \/ d \in T
  <2>1. d # task => Due(d)' = Due(d)
    BY <1>2, ScheduleDue
  <2>2. InTask(d)' = InTask(d)
    BY <1>2 DEF InTask
  <2> QED BY <2>1, <2>2 DEF Scheduled
<1>3. CASE TM!Start
  <2>1. PICK due \in heap : heap' \subseteq heap /\ running' = Append(running, due)
    BY <1>3 DEF TM!Start, TM!PopNext
  <2>2. InTask(d)' = InTask(d) \cup (IF due.task = d THEN {Len(running) + 1} ELSE {})
    BY <1>1, <2>1, RunningPush
  <2>3. due.task = d => due \in Due(d)
    BY DEF Due
  <2>4. Due(d)' \subseteq Due(d)
    BY <2>1 DEF Due
  <2> QED BY <2>2, <2>3, <2>4 DEF Scheduled
<1>4. CASE TM!FinishOnce \/ TM!FinishTick
  <2>1. /\ running # << >> /\ running' = TM!Below
        /\ heap' = heap \/ \E e : e.task = TM!Top.task /\ heap' = heap \cup {e}
    BY <1>4 DEF TM!FinishOnce, TM!FinishTick, TM!Rearm, TM!Push
  <2>2. InTask(d)' = InTask(d) \ {Len(running)}
    BY <1>1, <2>1, RunningPop
  <2>3. TM!Top.task = d => Len(running) \in InTask(d)
    BY <1>1, <2>1 DEF InTask, TM!Top
  <2>4. TM!Top.task # d => Due(d)' = Due(d)
    BY <2>1 DEF Due
  <2> QED BY <2>2, <2>3, <2>4 DEF Scheduled
<1>5. CASE UNCHANGED <<heap, running>>
  BY <1>5 DEF Scheduled, Due, InTask
<1> QED BY <1>2, <1>3, <1>4, <1>5 DEF QueueMove

LEMMA NumberingMove ==
  ASSUME TP!TimerInv, Numbering, NEW T, QueueMove(T)  PROVE Numbering'
<1>1. /\ running \in Seq(TP!Entry) /\ heap \subseteq TP!Entry
      /\ nextId \in Nat /\ nextSeq \in Nat /\ MaxSeq \in Nat
  BY QueueFacts, LoopAssumption DEF TM!TimerTypeOK
<1>2. ASSUME NEW delay, NEW every, NEW task, TM!Schedule(delay, every, task), running' = running
      PROVE  Numbering'
  <2>1. PICK e : e.id = nextId /\ heap' = heap \cup {e}
    BY <1>2 DEF TM!Schedule, TM!Push
  <2>2. nextSeq < MaxSeq /\ nextSeq' = nextSeq + 1 /\ nextId' = nextId + 1
    BY <1>2 DEF TM!Schedule, TM!Push
  <2>3. nextId' # 0 /\ nextId' <= nextSeq' + 1 /\ nextSeq' <= MaxSeq
    BY <1>1, <2>2 DEF Numbering
  <2>4. \A f \in heap' : f.id # 0
    BY <2>1 DEF Numbering
  <2> QED BY <1>2, <2>3, <2>4 DEF Numbering
<1>3. CASE TM!Start
  <2>1. PICK due \in heap : heap' \subseteq heap /\ running' = Append(running, due)
    BY <1>3 DEF TM!Start, TM!PopNext
  <2>2. nextId' = nextId /\ nextSeq' = nextSeq
    BY <1>3 DEF TM!Start
  <2>3. \A i \in DOMAIN running' : running'[i] = due \/ \E j \in DOMAIN running : running'[i] = running[j]
    BY <1>1, <2>1
  <2> QED BY <2>1, <2>2, <2>3 DEF Numbering
<1>4. CASE TM!FinishOnce \/ TM!FinishTick
  <2>1. /\ running # << >> /\ running' = TM!Below /\ nextId' = nextId
        /\ \/ heap' = heap /\ nextSeq' = nextSeq
           \/ /\ nextSeq < MaxSeq /\ nextSeq' = nextSeq + 1
              /\ \E e : e.id = TM!Top.id /\ heap' = heap \cup {e}
    BY <1>4 DEF TM!FinishOnce, TM!FinishTick, TM!Rearm, TM!Push
  <2>2. \A i \in DOMAIN running' : i \in DOMAIN running /\ running'[i] = running[i]
    BY <1>1, <2>1 DEF TM!Below
  <2>3. TM!Top.id # 0
    BY <1>1, <2>1 DEF TM!Top, Numbering
  <2>4. nextId' # 0 /\ nextId' <= nextSeq' + 1 /\ nextSeq' <= MaxSeq
    BY <1>1, <2>1 DEF Numbering
  <2> QED BY <2>1, <2>2, <2>3, <2>4 DEF Numbering
<1>5. CASE UNCHANGED <<heap, nextId, nextSeq, running>>
  BY <1>5 DEF Numbering
<1> QED BY <1>2, <1>3, <1>4, <1>5 DEF QueueMove

(***************************************************************************)
(* What was made with a signal.                                            *)
(***************************************************************************)

LEMMA GuardStep ==
  ASSUME NEW g \in [s : Signal, id : TM!TimerId, p : 0 .. MaxPromise],
         NEW sig, NEW fir, NEW t, NEW m, NEW gone, Guarding(g, sig, fir, t, m, gone),
         NEW sig2, NEW fir2, NEW n, NEW m2, NEW gone2,
         gone \subseteq gone2, Stays(t, n), StillCloses(t, m, n, m2),
         \A ref : Heeds(sig, fir, sig2, fir2, g.s, "timer", ref) \/ ref \in gone2,
         \A ref : Heeds(sig, fir, sig2, fir2, g.s, "reject", ref) \/ Closing(n, m2, ref)
  PROVE  Guarding(g, sig2, fir2, n, m2, gone2)
<1>1. ASSUME g.id # 0  PROVE g.id \in gone2 \/ Tells(sig2, fir2, g.s, "timer", g.id)
  BY <1>1 DEF Guarding, Heeds
<1>2. ASSUME g.p # 0
      PROVE  n[g.p].by = "timer" /\ (Closing(n, m2, g.p) \/ Tells(sig2, fir2, g.s, "reject", g.p))
  <2>1. g.p \in Id
    BY <1>2, BoundsAssumption DEF Id
  <2>2. t[g.p].by = "timer" /\ (Closing(t, m, g.p) \/ Tells(sig, fir, g.s, "reject", g.p))
    BY <1>2 DEF Guarding
  <2>3. n[g.p].by = "timer"
    BY <2>1, <2>2 DEF Stays
  <2>4. Closing(t, m, g.p) => Closing(n, m2, g.p)
    BY <2>1, <2>2 DEF StillCloses
  <2> QED BY <2>2, <2>3, <2>4 DEF Heeds
<1> QED BY <1>1, <1>2 DEF Guarding

LEMMA KeptRefl ==
  ASSUME NEW sig, NEW fir
  PROVE  Kept(sig, fir, sig, fir) /\ \A s, what, ref : Heeds(sig, fir, sig, fir, s, what, ref)
BY DEF Kept, Heeds

LEMMA StaysRefl ==
  ASSUME NEW t, NEW m
  PROVE  Stays(t, t) /\ StillCloses(t, m, t, m)
BY DEF Stays, StillCloses

(* The signals stay, and promises are made for timers and signals only.    *)
LEMMA TidySame ==
  ASSUME NEW sig, NEW fir, NEW t, NEW n, Tidy(sig, fir, t), Stays(t, n)
  PROVE  Tidy(sig, fir, n)
<1>1. ASSUME NEW l, NEW s \in Signal, Apt(l, s, sig, t)  PROVE Apt(l, s, sig, n)
  BY <1>1, AptKept
<1>2. \A k \in DOMAIN fir : fir[k] \in Firing
  <2>1. fir \in Seq(Firing)
    BY DEF Tidy
  <2> QED BY <2>1
<1>3. \A k \in DOMAIN fir : fir[k].s \in Signal
  BY <1>2 DEF Firing
<1> QED BY <1>1, <1>3 DEF Tidy

(***************************************************************************)
(* The conjuncts about the queue of timers.                                *)
(***************************************************************************)

LEMMA WaitsMove ==
  ASSUME TP!TimerInv, ForWaits, Stays(promise, promise'), NEW T, QueueMove(T),
         \A d \in Id \cap T : promise'[d].by = "timer"
  PROVE  ForWaits'
<1> SUFFICES ASSUME NEW d \in Id, Scheduled(d)'  PROVE promise'[d].by = "timer"
  BY DEF ForWaits, Scheduled
<1>1. Scheduled(d) \/ d \in T
  BY TasksMove
<1> QED BY <1>1 DEF ForWaits, Scheduled, Stays

LEMMA TimeoutsMove ==
  ASSUME TP!TimerInv, ForTimeouts, NEW T, QueueMove(T),
         \A s \in Signal \cap T : signal'[s].by = "timeout",
         \A s \in Signal : signal[s].by = "timeout" => signal'[s].by = "timeout"
  PROVE  ForTimeouts'
<1> SUFFICES ASSUME NEW s \in Signal, Scheduled(s)'  PROVE signal'[s].by = "timeout"
  BY DEF ForTimeouts, Scheduled
<1>1. Scheduled(s) \/ s \in T
  BY TasksMove
<1> QED BY <1>1 DEF ForTimeouts, Scheduled

(***************************************************************************)
(* What the steps of signals do to the loop, one kind at a time.           *)
(***************************************************************************)

LoopGoes ==
    /\ ObligationInv({})' /\ Nests(stack', running')
    /\ Stays(promise, promise') /\ StillCloses(promise, micro, promise', micro')

LEMMA BaseParts ==
  ASSUME LoopBase({})
  PROVE  /\ {} \in SUBSET OwnSettled /\ ObligationInv({}) /\ PromiseInv /\ TP!TimerInv
         /\ Nests(stack, running) /\ ForWaits
         /\ Neat(promise) /\ Jobbed(micro, promise) /\ Framed(stack, promise) /\ Launched(stack)
         /\ Lost /\ Owing({}) /\ Awake
         /\ Sound(promise) /\ promise \in [Id -> SoundRec]
         /\ stack \in Seq(Safe) /\ stack \in Seq(Act) /\ micro \in Seq(Safe) /\ micro \in Seq(Act)
         /\ stack # << >> =>
              /\ Top \in Safe /\ Top \in Act /\ Rest \in Seq(Safe) /\ Rest \in Seq(Act)
              /\ Pushes(stack, Rest, Top)
BY InvSeqs DEF LoopBase, ObligationInv, Shape, Sound, Table

LEMMA AloneStep ==
  ASSUME LoopBase({}), calls' \in Nat, UNCHANGED <<promise, micro, stack, co, loop, dropped, running>>
  PROVE  LoopGoes /\ Aborts(stack') = Aborts(stack)
<1>1. {} \in SUBSET OwnSettled /\ ObligationInv({}) /\ Nests(stack, running)
  BY BaseParts
<1>2. ObligationInv({})'
  BY <1>1, PromisesAlone
<1> QED BY <1>1, <1>2, StaysRefl DEF LoopGoes

(* A call that is not of a timer starts or returns.                        *)
LEMMA CallStarts ==
  ASSUME LoopBase({}), NEW op \in {"abort", "quiet"}, stack' = Append(stack, Call(op, 0)),
         calls' \in Nat, UNCHANGED <<promise, micro, co, loop, dropped, running>>
  PROVE  /\ LoopGoes
         /\ op = "abort" => Cardinality(Aborts(stack')) = Cardinality(Aborts(stack)) + 1
         /\ op # "abort" => Aborts(stack') = Aborts(stack)
<1> DEFINE a == Call(op, 0)
<1>1. /\ a \in Safe /\ a \in Act /\ a.op = op
  BY CallFacts, ValueFacts DEF Op, Settling
<1>2. Pushes(stack', stack, a)
  BY DEF Pushes
<1>3. stack' = Append(stack, a)
  OBVIOUS
<1> HIDE DEF a
<1>4. /\ a.op \notin TimerOps /\ a.op \notin Obliging /\ ~FromQueue(a) /\ FrameOK(a, promise')
      /\ a.op # "await"
  BY <1>1 DEF TimerOps, Obliging, FromQueue, FrameOK
<1>5. Nests(stack', running')
  BY <1>1, <1>2, <1>4, BaseParts, NestsPush
<1>6. PromiseInv'
  <2>1. stack' \in Seq(Safe)
    BY <1>1, <1>3, BaseParts
  <2> QED BY <2>1, BaseParts DEF PromiseInv
<1>7. Framed(stack', promise') /\ Launched(stack')
  <2>1. Framed(stack, promise')
    BY BaseParts
  <2> QED BY <1>1, <1>2, <1>4, <2>1, BaseParts, PushStep
<1>8. Owing({})' /\ Awake'
  <2>1. \A d \in Id : Load(stack', Obliging, d) = Load(stack, Obliging, d)
    BY <1>1, <1>2, <1>4, BaseParts, PushFree
  <2>2. \A d \in Id : Owed(promise', micro', stack', d) = Owed(promise, micro, stack, d)
    BY <2>1 DEF Owed
  <2> QED BY <2>2, BaseParts, OwingSame, AwakeSame
<1>9. ObligationInv({})'
  BY <1>6, <1>7, <1>8, BaseParts DEF ObligationInv, Shape, Lost, Born
<1>10. op = "abort" => Cardinality(Aborts(stack')) = Cardinality(Aborts(stack)) + 1
  BY <1>1, <1>2, BaseParts, AbortsMore
<1>11. op # "abort" => Aborts(stack') = Aborts(stack)
  BY <1>1, <1>2, BaseParts, AbortsOther
<1> QED BY <1>5, <1>9, <1>10, <1>11, StaysRefl DEF LoopGoes

LEMMA CallReturns ==
  ASSUME LoopBase({}), stack # << >>, Top.op = "abort", stack' = Rest,
         UNCHANGED <<promise, micro, co, calls, loop, dropped, running>>
  PROVE  LoopGoes /\ Cardinality(Aborts(stack')) = Cardinality(Aborts(stack)) - 1
<1>1. Top.op \notin TimerOps /\ Top.op \notin Obliging
  BY DEF TimerOps, Obliging
<1>2. Nests(stack', running')
  BY <1>1, BaseParts, NestsPop
<1>3. Shape' /\ Owing({})' /\ Awake'
  BY <1>1, BaseParts, PopOwing
<1>4. PromiseInv'
  BY BaseParts DEF PromiseInv
<1>5. ObligationInv({})'
  BY <1>3, <1>4 DEF ObligationInv
<1>6. Cardinality(Aborts(stack)) = Cardinality(Aborts(Rest)) + 1 /\ Cardinality(Aborts(Rest)) \in Nat
  BY BaseParts, AbortsMore
<1> QED BY <1>2, <1>5, <1>6, StaysRefl DEF LoopGoes

(* A timer's call returns.                                                 *)
LEMMA TimerReturns ==
  ASSUME LoopBase({}), stack # << >>, Top.op = "wake", stack' = Rest, running' = TM!Below,
         UNCHANGED <<promise, micro, co, calls, loop, dropped>>
  PROVE  LoopGoes /\ Aborts(stack') = Aborts(stack)
<1>1. Top.op \in TimerOps
  BY DEF TimerOps
<1>2. Nests(stack', running') /\ Top.op \notin Obliging
  BY <1>1, BaseParts, TopTask
<1>3. Shape' /\ Owing({})' /\ Awake'
  BY <1>2, BaseParts, PopOwing
<1>4. PromiseInv'
  BY BaseParts DEF PromiseInv
<1>5. ObligationInv({})'
  BY <1>3, <1>4 DEF ObligationInv
<1>6. Aborts(stack) = Aborts(Rest)
  BY BaseParts, AbortsOther
<1> QED BY <1>2, <1>5, <1>6, StaysRefl DEF LoopGoes

(* A listener of an aborted signal is queued.                              *)
LEMMA TaskQueued ==
  ASSUME LoopBase({}), micro' = Append(micro, Call("task", 0)),
         calls' \in Nat, UNCHANGED <<promise, stack, co, loop, dropped, running>>
  PROVE  LoopGoes /\ Aborts(stack') = Aborts(stack)
<1> DEFINE a == Call("task", 0)
<1>1. a \in Safe /\ a \in Act /\ a.op = "task" /\ a.p = 0
  BY CallFacts, ValueFacts DEF Op, Settling
<1>2. Pushes(micro', micro, a) /\ micro' = Append(micro, a)
  BY DEF Pushes
<1> HIDE DEF a
<1>3. JobOK(a, promise) /\ \A d : Unit(a, Obliging, d) = 0 /\ Unit(a, {"resume"}, d) = 0
  BY <1>1 DEF JobOK, Unit, Hit, Aim, Obliging
<1>4. Jobbed(micro', promise')
  BY <1>1, <1>2, <1>3, BaseParts, JobsPush
<1>5. ASSUME NEW K \in {Obliging, {"resume"}}, NEW d \in Id  PROVE Load(micro', K, d) = Load(micro, K, d)
  <2>1. Load(micro', K, d) = Plus(Load(micro, K, d), Unit(a, K, d))
    BY <1>1, <1>2, BaseParts, LoadPush
  <2>2. Unit(a, K, d) = 0 /\ Load(micro, K, d) \in 0 .. 2
    BY <1>3, LoadRange
  <2> QED BY <2>1, <2>2 DEF Plus
<1>6. Owing({})' /\ Awake'
  <2>1. \A d \in Id : Owed(promise', micro', stack', d) = Owed(promise, micro, stack, d)
    BY <1>5 DEF Owed, Coming
  <2>2. \A d \in Id : Resumes(promise', micro', d) = Resumes(promise, micro, d)
    BY <1>5 DEF Resumes, Coming
  <2> QED BY <2>1, <2>2, BaseParts, OwingSame, AwakeSame
<1>7. PromiseInv'
  <2>1. micro' \in Seq(Safe)
    BY <1>1, <1>2, BaseParts
  <2> QED BY <2>1, BaseParts DEF PromiseInv
<1>8. ObligationInv({})'
  BY <1>4, <1>6, <1>7, BaseParts DEF ObligationInv, Shape, Lost, Born
<1>9. StillCloses(promise, micro, promise', micro')
  <2>1. Items(micro') = Items(micro) \cup {a}
    BY <1>1, <1>2, BaseParts, ItemsAppend
  <2>2. Items(micro) \subseteq Items(micro')
    BY <2>1
  <2> QED BY <2>2, QueueGrows
<1> QED BY <1>8, <1>9, BaseParts, StaysRefl DEF LoopGoes

LEMMA MadeTable ==
  ASSUME Sound(promise), Neat(promise), NEW p \in Id, promise[p].st = "unborn",
         NEW r, r.st # "unborn", r.by # "none", r.ok = << >>, Becomes(promise, promise', p, r)
  PROVE  /\ Neat(promise') /\ Keeps(promise, promise')
         /\ \A m, K, d : Coming(promise', m, K, d) = Coming(promise, m, K, d)
BY CreateLoad

(* A promise is made for a timer or a signal, whose rejection may already  *)
(* be queued.                                                              *)
LEMMA PromiseMade ==
  ASSUME LoopBase({}), NEW p \in Id, ~Born(p), NEW r, GoodRec(r), r.st # "unborn",
         r.by \in {"timer", "signal"}, r.ok = << >>, promise' = [promise EXCEPT ![p] = r],
         micro' = micro \/ \E a \in Safe : a.op = "cap" /\ a.p = p /\ micro' = Append(micro, a),
         calls' \in Nat, UNCHANGED <<stack, co, loop, dropped, running>>
  PROVE  /\ LoopGoes /\ Aborts(stack') = Aborts(stack) /\ Items(micro) \subseteq Items(micro')
         /\ promise'[p] = r /\ \A q \in Id \ {p} : promise'[q] = promise[q]
<1>1. Becomes(promise, promise', p, r)
  BY BaseParts DEF Becomes
<1>2. promise'[p] = r /\ \A q \in Id \ {p} : promise'[q] = promise[q]
  BY <1>1 DEF Becomes
<1>3. promise[p].st = "unborn" /\ p \notin dropped
  BY BaseParts DEF Born, Lost
<1>4. /\ Neat(promise') /\ Keeps(promise, promise')
      /\ \A m, K, d : Coming(promise', m, K, d) = Coming(promise, m, K, d)
  <2>1. r.by # "none" /\ Sound(promise) /\ Neat(promise)
    BY BaseParts
  <2> QED BY <1>1, <1>3, <2>1, MadeTable
<1>5. Sound(promise')
  BY BaseParts, CreateStep
<1>6. Jobbed(micro, promise') /\ Framed(stack, promise')
  BY <1>4, BaseParts, AllKept
<1>7. /\ micro' \in Seq(Safe) /\ Items(micro) \subseteq Items(micro') /\ Jobbed(micro', promise')
      /\ \A K \in {Obliging, {"resume"}}, d \in Id :
            d # p \/ K = {"resume"} => Load(micro', K, d) = Load(micro, K, d)
  <2>1. CASE micro' = micro
    BY <1>6, <2>1, BaseParts
  <2>2. CASE \E a \in Safe : a.op = "cap" /\ a.p = p /\ micro' = Append(micro, a)
    <3>1. PICK a \in Safe : a.op = "cap" /\ a.p = p /\ micro' = Append(micro, a)
      BY <2>2
    <3>2. Pushes(micro', micro, a) /\ a \in Act
      BY <3>1, SafeSeq DEF Pushes
    <3>3. JobOK(a, promise') /\ \A K \in {Obliging, {"resume"}}, d \in Id :
                                   d # p \/ K = {"resume"} => Unit(a, K, d) = 0
      BY <3>1 DEF JobOK, WaitOK, Releasing, Unit, Hit, Aim
    <3>4. Jobbed(micro', promise')
      BY <1>6, <3>2, <3>3, BaseParts, JobsPush
    <3>5. ASSUME NEW K \in {Obliging, {"resume"}}, NEW d \in Id, d # p \/ K = {"resume"}
          PROVE  Load(micro', K, d) = Load(micro, K, d)
      <4>1. Load(micro', K, d) = Plus(Load(micro, K, d), Unit(a, K, d))
        BY <3>2, BaseParts, LoadPush
      <4>2. Unit(a, K, d) = 0 /\ Load(micro, K, d) \in 0 .. 2
        BY <3>3, <3>5, LoadRange
      <4> QED BY <4>1, <4>2 DEF Plus
    <3>6. micro' \in Seq(Safe)
      BY <3>1, BaseParts
    <3>7. Items(micro') = Items(micro) \cup {a}
      BY <3>1, BaseParts, ItemsAppend
    <3> QED BY <3>4, <3>5, <3>6, <3>7
  <2> QED BY <2>1, <2>2
<1>8. ASSUME NEW d \in Id, d # p  PROVE Owed(promise', micro', stack', d) = Owed(promise, micro, stack, d)
  <2>1. Load(micro', Obliging, d) = Load(micro, Obliging, d)
    BY <1>7, <1>8
  <2>2. Coming(promise', micro', Obliging, d) = Coming(promise, micro', Obliging, d)
    BY <1>4, Zenon
  <2>3. Coming(promise, micro', Obliging, d) = Coming(promise, micro, Obliging, d)
    BY <2>1 DEF Coming
  <2> QED BY <2>2, <2>3 DEF Owed
<1>9. ASSUME NEW d \in Id  PROVE Resumes(promise', micro', d) = Resumes(promise, micro, d)
  <2>1. Load(micro', {"resume"}, d) = Load(micro, {"resume"}, d)
    BY <1>7
  <2>2. Coming(promise', micro', {"resume"}, d) = Coming(promise, micro', {"resume"}, d)
    BY <1>4, Zenon
  <2>3. Coming(promise, micro', {"resume"}, d) = Coming(promise, micro, {"resume"}, d)
    BY <2>1 DEF Coming
  <2> QED BY <2>2, <2>3 DEF Resumes
<1>10. Owing({})'
  <2> SUFFICES ASSUME NEW d \in Id
               PROVE  /\ Settles(d)' => Owed(promise', micro', stack', d) = IF Open(d)' THEN 1 ELSE 0
                      /\ Idle({}, d)' => Owed(promise', micro', stack', d) = 0
    BY DEF Owing
  <2>1. CASE d = p
    BY <1>2, <2>1 DEF Settles, Idle
  <2>2. CASE d # p
    <3>1. (Open(d)' <=> Open(d)) /\ (Settles(d)' <=> Settles(d)) /\ (Idle({}, d)' <=> Idle({}, d))
      BY <1>2, <2>2 DEF Open, Settles, Idle
    <3> QED BY <1>8, <2>2, <3>1, BaseParts DEF Owing
  <2> QED BY <2>1, <2>2
<1>11. Lost'
  BY <1>2, <1>3, BaseParts DEF Lost, Born, PromiseInv
<1>12. ObligationInv({})'
  <2>1. PromiseInv'
    BY <1>5, <1>7, BaseParts DEF PromiseInv
  <2>2. Awake'
    BY <1>9, BaseParts, AwakeSame
  <2>3. Framed(stack', promise') /\ Launched(stack')
    BY <1>6, BaseParts
  <2> QED BY <1>4, <1>7, <1>10, <1>11, <2>1, <2>2, <2>3 DEF ObligationInv, Shape
<1>13. Stays(promise, promise') /\ StillCloses(promise, micro, promise', micro')
  BY <1>1, <1>7, BaseParts, BirthHeeds
<1> QED BY <1>2, <1>7, <1>12, <1>13, BaseParts DEF LoopGoes

(* A signal rejects a promise.                                             *)
LEMMA SignalRejects ==
  ASSUME LoopBase({}), NEW p \in Id, promise[p].by \in {"timer", "signal"}, NEW v \in Value,
         SettleAfter(micro, p, "err", v), calls' \in Nat, UNCHANGED <<stack, co, loop, dropped, running>>
  PROVE  LoopGoes /\ Aborts(stack') = Aborts(stack) /\ Closing(promise', micro', p)
<1>1. "err" \in Side /\ Outcome(promise, "err", v).st # "unborn"
  BY DEF Side, Outcome
<1>2. /\ Neat(promise') /\ Jobbed(micro', promise') /\ Keeps(promise, promise') /\ Lost' /\ Owing({})'
      /\ \A d \in Id : Resumes(promise', micro', d) = Resumes(promise, micro, d)
  <2>1. /\ promise[p].by \in {"caps", "timer", "signal"} /\ promise[p].by \notin {}
        /\ \A d \in Id : Load(stack', Obliging, d) = Load(stack, Obliging, d)
    OBVIOUS
  <2> QED BY <1>1, <2>1, BaseParts, SettlePlain
<1>3. TableStep /\ micro' \in Seq(Safe)
  BY <1>1, BaseParts, SettleStep
<1>4. PromiseInv'
  BY <1>3, BaseParts DEF PromiseInv, TableStep
<1>5. Framed(stack', promise') /\ Launched(stack')
  BY <1>2, BaseParts, AllKept
<1>6. Awake'
  BY <1>2, BaseParts, AwakeSame
<1>7. ObligationInv({})'
  BY <1>2, <1>4, <1>5, <1>6 DEF ObligationInv, Shape
<1>8. /\ Stays(promise, promise') /\ StillCloses(promise, micro, promise', micro')
      /\ Closing(promise', micro', p)
  BY <1>1, BaseParts, WakeHeeds
<1> QED BY <1>7, <1>8, BaseParts DEF LoopGoes

(***************************************************************************)
(* Putting the invariant together.                                         *)
(***************************************************************************)

(* Whoever was to hear of an abort still is, unless it is over.            *)
Told ==
    \A a \in Signal : \A ref :
        /\ Heeds(signal, firing, signal', firing', a, "timer", ref) \/ ref \in cancelled'
        /\ Heeds(signal, firing, signal', firing', a, "reject", ref) \/ Closing(promise', micro', ref)

Guards == [s : Signal, id : TM!TimerId, p : 0 .. MaxPromise]

LEMMA KeptTold == Kept(signal, firing, signal', firing') => Told
<1>1. "timer" \in What \ {"script"} /\ "reject" \in What \ {"script"}
  BY DEF What
<1> QED BY <1>1 DEF Kept, Told

LEMMA MoreCancelled == [TM!TimerNext]_TM!timerVars => cancelled \subseteq cancelled'
BY DEF TM!TimerNext, TM!timerVars, TM!SetTimer, TM!ClearTimer, TM!Cancel, TM!Start, TM!FinishOnce,
       TM!FinishTick, TM!Tick

LEMMA Rejoin ==
  ASSUME AbortInv, LoopGoes, [TM!TimerNext]_TM!timerVars, NEW T, QueueMove(T),
         \A d \in Id \cap T : promise'[d].by = "timer",
         \A s \in Signal \cap T : signal'[s].by = "timeout",
         \A s \in Signal : signal[s].by = "timeout" => signal'[s].by = "timeout",
         Tidy(signal', firing', promise'), Follows(signal', firing'), Told,
         guard' \subseteq Guards,
         \A g \in guard' \ guard : Guarding(g, signal', firing', promise', micro', cancelled'),
         Len(firing') = Cardinality(Aborts(stack'))
  PROVE  AbortInv'
<1>1. /\ LoopBase({}) /\ TP!TimerInv /\ ForWaits /\ ForTimeouts /\ Numbering
      /\ guard \subseteq Guards
      /\ \A g \in guard : Guarding(g, signal, firing, promise, micro, cancelled)
  BY BaseParts DEF AbortInv, SignalInv, Guards
<1>2. TP!TimerInv'
  BY <1>1, SameQueue, TP!TimerStepInv, QueueAssumptions
<1>3. Stays(promise, promise') /\ StillCloses(promise, micro, promise', micro')
  BY DEF LoopGoes
<1>4. ForWaits'
  BY <1>1, <1>3, WaitsMove
<1>5. ForTimeouts'
  BY <1>1, TimeoutsMove
<1>6. Numbering'
  BY <1>1, NumberingMove
<1>7. ASSUME NEW g \in guard'  PROVE Guarding(g, signal', firing', promise', micro', cancelled')
  <2>1. CASE g \in guard
    <3>1. g \in [s : Signal, id : TM!TimerId, p : 0 .. MaxPromise] /\ g.s \in Signal
      BY <1>1, <2>1 DEF Guards
    <3>2. /\ \A ref : Heeds(signal, firing, signal', firing', g.s, "timer", ref) \/ ref \in cancelled'
          /\ \A ref : \/ Heeds(signal, firing, signal', firing', g.s, "reject", ref)
                      \/ Closing(promise', micro', ref)
      BY <3>1 DEF Told
    <3>3. Guarding(g, signal, firing, promise, micro, cancelled)
      BY <1>1, <2>1
    <3> QED BY <1>3, <3>1, <3>2, <3>3, MoreCancelled, GuardStep
  <2> QED BY <2>1
<1>8. LoopBase({})'
  BY <1>2, <1>4 DEF LoopBase, LoopGoes
<1> QED BY <1>5, <1>6, <1>7, <1>8 DEF AbortInv, SignalInv, Guards

(* Signals and aborts stay as they are.                                    *)
LEMMA SignalsAlone ==
  ASSUME Tidy(signal, firing, promise), Follows(signal, firing), Stays(promise, promise'),
         UNCHANGED <<signal, firing>>
  PROVE  Tidy(signal', firing', promise') /\ Follows(signal', firing') /\ Told
<1>1. Tidy(signal, firing, promise')
  BY TidySame
<1> QED BY <1>1, KeptRefl DEF Told

LEMMA QueueAlone ==
  ASSUME UNCHANGED timerVars
  PROVE  [TM!TimerNext]_TM!timerVars /\ QueueMove({}) /\ running' = running
BY DEF timerVars, TM!timerVars, QueueMove

LEMMA QueueGains ==
  ASSUME NEW delay \in Delay, NEW every \in {Once, delay},
         NEW task \in (0 .. MaxPromise) \cup Signal,
         TM!Schedule(delay, every, task), UNCHANGED <<cancelled, now, running, last>>
  PROVE  [TM!TimerNext]_TM!timerVars /\ QueueMove({task})
<1>1. TM!SetTimer
  BY DEF TM!SetTimer
<1>2. QueueMove({task})
  BY DEF QueueMove
<1> QED BY <1>1, <1>2 DEF TM!TimerNext

LEMMA QueueCancels ==
  ASSUME NEW id \in TM!TimerId, TM!Cancel(id),
         UNCHANGED <<heap, nextId, nextSeq, now, running, last>>
  PROVE  [TM!TimerNext]_TM!timerVars /\ QueueMove({}) /\ id \in cancelled'
<1>1. TM!ClearTimer
  BY DEF TM!ClearTimer
<1> QED BY <1>1 DEF TM!TimerNext, TM!Cancel, QueueMove

(***************************************************************************)
(* Signals are created and listened to.                                    *)
(***************************************************************************)

Puts(sig, s, n, sig2) == sig2 = [sig EXCEPT ![s] = n]

LEMMA PutFacts ==
  ASSUME NEW sig, NEW fir, NEW t, Tidy(sig, fir, t), NEW s \in Signal, NEW n \in SignalRec,
         NEW sig2, Puts(sig, s, n, sig2)
  PROVE  /\ sig2 \in [Signal -> SignalRec] /\ sig2[s] = n /\ \A a \in Signal \ {s} : sig2[a] = sig[a]
         /\ \A a \in Signal : sig[a] \in SignalRec
BY DEF Tidy, Puts

LEMMA GrowsSame ==
  ASSUME NEW sig, NEW fir, NEW t, Tidy(sig, fir, t), NEW a \in Signal
  PROVE  Grows(sig[a], sig[a])
BY DEF Tidy, Grows, Alike, Silent

(* One signal gains listeners.                                             *)
LEMMA GrowOne ==
  ASSUME NEW sig, NEW fir, NEW t, Tidy(sig, fir, t), NEW s \in Signal, NEW n, Grows(sig[s], n),
         NEW sig2, Puts(sig, s, n, sig2), NEW t2,
         \A l \in Items(n.listeners) : l \in Items(sig[s].listeners) \/ Apt(l, s, sig2, t2)
  PROVE  Growing(sig, sig2, t2, {})
<1>1. n \in SignalRec
  BY DEF Grows
<1>2. sig2 \in [Signal -> SignalRec] /\ sig2[s] = n /\ \A a \in Signal \ {s} : sig2[a] = sig[a]
  BY <1>1, PutFacts
<1>3. ASSUME NEW a \in Signal
      PROVE  /\ Grows(sig[a], sig2[a])
             /\ \A l \in Items(sig2[a].listeners) : l \in Items(sig[a].listeners) \/ Apt(l, a, sig2, t2)
  <2>1. CASE a = s
    BY <1>2, <2>1
  <2>2. CASE a # s
    <3>1. sig2[a] = sig[a]
      BY <1>2, <2>2
    <3> QED BY <3>1, GrowsSame
  <2> QED BY <2>1, <2>2
<1> QED BY <1>2, <1>3 DEF Growing

(* One signal is created.                                                  *)
LEMMA NewOne ==
  ASSUME NEW sig, NEW fir, NEW t, Tidy(sig, fir, t), NEW s \in Signal, sig[s].st = "unborn",
         NEW by \in {"controller", "timeout"}, NEW sig2, Puts(sig, s, NewSignal(by, {}), sig2), NEW t2
  PROVE  Growing(sig, sig2, t2, {s}) /\ FollowsAt(sig2, fir, s) /\ sig2[s].by = by
<1> DEFINE n == NewSignal(by, {})
<1>1. n \in SignalRec /\ n.st = "live" /\ n.by = by /\ n.listeners = << >> /\ n.of = {}
  <2>1. << >> \in Seq(Listener) /\ Undef \in Value /\ 0 \in 0 .. MaxPromise /\ 0 \in 0 .. MaxToken
    BY ValueFacts, SignalAssumption, EmptyList
  <2> QED BY <2>1 DEF NewSignal, SignalRec
<1> HIDE DEF n
<1>2. sig2 \in [Signal -> SignalRec] /\ sig2[s] = n /\ \A a \in Signal \ {s} : sig2[a] = sig[a]
  BY <1>1, PutFacts DEF n
<1>3. ASSUME NEW a \in Signal \ {s}
      PROVE  /\ Grows(sig[a], sig2[a])
             /\ \A l \in Items(sig2[a].listeners) : l \in Items(sig[a].listeners) \/ Apt(l, a, sig2, t2)
  <2>1. sig2[a] = sig[a]
    BY <1>2
  <2> QED BY <2>1, GrowsSame
<1>4. FollowsAt(sig2, fir, s) /\ sig2[s].by = by
  BY <1>1, <1>2 DEF FollowsAt
<1>5. \A a \in {s} : /\ sig[a].st = "unborn" /\ sig2[a].st \in {"live", "aborted"}
                     /\ sig2[a].listeners = << >>
                     /\ \A b \in sig2[a].of : sig2[b].st # "unborn"
  BY <1>1, <1>2
<1> QED BY <1>2, <1>3, <1>4, <1>5 DEF Growing

(* What growing preserves of the invariant.                                *)
LEMMA GrowsOn ==
  ASSUME Tidy(signal, firing, promise), Follows(signal, firing), Stays(promise, promise'),
         firing' = firing, NEW B \in SUBSET Signal, Growing(signal, signal', promise', B),
         \A s \in B : FollowsAt(signal', firing, s)
  PROVE  /\ Tidy(signal', firing', promise') /\ Follows(signal', firing') /\ Told
         /\ \A s \in Signal : signal[s].by = "timeout" => signal'[s].by = "timeout"
<1>1. /\ Tidy(signal', firing, promise') /\ Kept(signal, firing, signal', firing)
      /\ \A s \in Signal \ B : FollowsAt(signal, firing, s) => FollowsAt(signal', firing, s)
  BY GrowStep
<1>2. Follows(signal', firing)
  BY <1>1 DEF Follows
<1>3. Told
  BY <1>1, KeptTold
<1>4. ASSUME NEW s \in Signal, signal[s].by = "timeout"  PROVE signal'[s].by = "timeout"
  <2>1. s \notin B
    BY <1>4 DEF Growing, Tidy, Silent
  <2> QED BY <1>4, <2>1 DEF Growing, Grows, Alike
<1> QED BY <1>1, <1>2, <1>3, <1>4

LEMMA InvParts ==
  ASSUME AbortInv
  PROVE  /\ LoopBase({}) /\ Tidy(signal, firing, promise) /\ Follows(signal, firing)
         /\ guard \subseteq Guards /\ Numbering /\ ForTimeouts
         /\ Len(firing) = Cardinality(Aborts(stack))
         /\ signal \in [Signal -> SignalRec] /\ firing \in Seq(Firing)
         /\ calls \in Nat /\ calls + 1 \in Nat
BY BaseParts DEF AbortInv, SignalInv, Guards, Tidy, PromiseInv

(* Steps that only create signals or add or remove listeners.              *)
LEMMA SignalsGrow ==
  ASSUME AbortInv, calls' \in Nat,
         UNCHANGED <<promise, micro, stack, co, loop, dropped, firing, guard, timerVars>>,
         NEW B \in SUBSET Signal, Growing(signal, signal', promise', B),
         \A s \in B : FollowsAt(signal', firing, s)
  PROVE  AbortInv'
<1>1. LoopGoes /\ Aborts(stack') = Aborts(stack)
  BY InvParts, QueueAlone, AloneStep
<1>2. [TM!TimerNext]_TM!timerVars /\ QueueMove({})
  BY QueueAlone
<1>3. Stays(promise, promise')
  BY <1>1 DEF LoopGoes
<1>4. /\ Tidy(signal', firing', promise') /\ Follows(signal', firing') /\ Told
      /\ \A s \in Signal : signal[s].by = "timeout" => signal'[s].by = "timeout"
  BY <1>3, InvParts, GrowsOn
<1>5. guard' \subseteq Guards /\ guard' \ guard = {} /\ Len(firing') = Cardinality(Aborts(stack'))
  BY <1>1, InvParts
<1> QED BY <1>1, <1>2, <1>4, <1>5, Rejoin

LEMMA ControllerCase ==
  ASSUME AbortInv, NewController  PROVE AbortInv'
<1>1. PICK s \in Signal :
        /\ calls' = calls + 1 /\ signal[s].st = "unborn"
        /\ signal' = [signal EXCEPT ![s] = NewSignal("controller", {})]
        /\ UNCHANGED <<promise, micro, stack, co, loop, dropped, firing, guard, timerVars>>
  BY Zenon DEF NewController, Calls, New
<1>2. Puts(signal, s, NewSignal("controller", {}), signal')
  BY <1>1 DEF Puts
<1>3. Growing(signal, signal', promise', {s}) /\ FollowsAt(signal', firing, s)
  BY <1>1, <1>2, InvParts, NewOne
<1>4. calls' \in Nat
  BY <1>1, InvParts
<1>5. UNCHANGED <<promise, micro, stack, co, loop, dropped, firing, guard, timerVars>>
  BY <1>1
<1>6. {s} \in SUBSET Signal /\ \A x \in {s} : FollowsAt(signal', firing, x)
  BY <1>3
<1>7. Growing(signal, signal', promise', {s})
  BY <1>3
<1> QED BY <1>4, <1>5, <1>6, <1>7, SignalsGrow

LEMMA CallsFacts == ASSUME AbortInv, NEW name, Calls(name)  PROVE calls' \in Nat /\ loop' = loop
<1>1. calls \in Nat
  BY InvParts
<1> QED BY <1>1 DEF Calls

LEMMA HeardGrows ==
  ASSUME NEW r \in SignalRec, Numbered(r), r.st = "live", NEW what \in What, NEW ref \in Ref,
         r.next + 1 <= MaxToken, NEW n, n = Heard(r, what, ref)
  PROVE  /\ Grows(r, n) /\ n.next = r.next + 1 /\ n.promise = r.promise /\ n.st = "live"
         /\ Has(n.listeners, what, ref)
         /\ \A l \in Items(n.listeners) : l \in Items(r.listeners) \/ (l.what = what /\ l.ref = ref)
<1>1. PICK l : /\ l.what = what /\ l.ref = ref /\ n \in SignalRec /\ Numbered(n)
               /\ n.next = r.next + 1 /\ n.promise = r.promise /\ Alike(r, n)
               /\ Items(n.listeners) = Items(r.listeners) \cup {l}
  BY HeardFacts
<1>2. n.st = "live"
  BY <1>1 DEF Alike
<1>3. Grows(r, n)
  BY <1>1 DEF Grows
<1>4. Has(n.listeners, what, ref)
  BY <1>1 DEF Has
<1> QED BY <1>1, <1>2, <1>3, <1>4

LEMMA GrowsTwice ==
  ASSUME NEW r, NEW m, NEW n, Grows(r, m), Grows(m, n)
  PROVE  Grows(r, n) /\ \A what \in What \ {"script"} : \A ref :
                           Has(m.listeners, what, ref) => Has(n.listeners, what, ref)
BY DEF Grows, Alike, Has

LEMMA SubscribeCase ==
  ASSUME AbortInv, Subscribe  PROVE AbortInv'
<1>1. PICK s \in Signal :
        /\ Calls("subscribe") /\ Usable(s) /\ Room(s, 1)
        /\ IF Aborted(s)
           THEN micro' = Append(micro, Call("task", 0)) /\ UNCHANGED signal
           ELSE signal' = [signal EXCEPT ![s] = Heard(@, "script", 0)] /\ UNCHANGED micro
        /\ UNCHANGED <<promise, stack, co, dropped, firing, guard, timerVars>>
  BY DEF Subscribe
<1>2. calls' \in Nat /\ loop' = loop
  BY <1>1, CallsFacts
<1>3. UNCHANGED <<promise, stack, co, loop, dropped, firing, guard, timerVars>>
  BY <1>1, <1>2
<1>4. /\ signal[s] \in SignalRec /\ Numbered(signal[s])
      /\ signal[s].next + 1 <= MaxToken /\ (signal[s].st = "live" \/ Aborted(s))
  BY <1>1, InvParts DEF Tidy, Room, Usable, Aborted
<1>5. CASE Aborted(s)
  <2>1. micro' = Append(micro, Call("task", 0)) /\ signal' = signal
    BY <1>1, <1>5
  <2>2. running' = running /\ [TM!TimerNext]_TM!timerVars /\ QueueMove({})
    BY <1>3, QueueAlone
  <2>3. LoopGoes /\ Aborts(stack') = Aborts(stack)
    BY <1>2, <1>3, <2>1, <2>2, InvParts, TaskQueued
  <2>4. Stays(promise, promise')
    BY <2>3 DEF LoopGoes
  <2>5. Tidy(signal', firing', promise') /\ Follows(signal', firing') /\ Told
    BY <1>3, <2>1, <2>4, InvParts, SignalsAlone
  <2>6. /\ guard' \subseteq Guards /\ guard' \ guard = {} /\ Len(firing') = Cardinality(Aborts(stack'))
        /\ \A a \in Signal : signal[a].by = "timeout" => signal'[a].by = "timeout"
    BY <1>3, <2>1, <2>3, InvParts
  <2> QED BY <2>2, <2>3, <2>5, <2>6, Rejoin
<1>6. CASE ~Aborted(s)
  <2> DEFINE n == Heard(signal[s], "script", 0)
  <2>1. Puts(signal, s, n, signal') /\ micro' = micro
    BY <1>1, <1>6 DEF Puts
  <2>2. "script" \in What /\ 0 \in Ref /\ signal[s].st = "live"
    BY <1>4, <1>6 DEF What, Ref
  <2>3. /\ Grows(signal[s], n)
        /\ \A l \in Items(n.listeners) : l \in Items(signal[s].listeners) \/ (l.what = "script" /\ l.ref = 0)
    BY <1>4, <2>2, HeardGrows
  <2> HIDE DEF n
  <2>4. \A l \in Items(n.listeners) : l \in Items(signal[s].listeners) \/ Apt(l, s, signal', promise')
    BY <2>3 DEF Apt
  <2>5. Growing(signal, signal', promise', {})
    BY <2>1, <2>3, <2>4, InvParts, GrowOne
  <2>6. UNCHANGED <<promise, micro, stack, co, loop, dropped, firing, guard, timerVars>>
    BY <1>3, <2>1
  <2> QED BY <1>2, <2>5, <2>6, SignalsGrow
<1> QED BY <1>5, <1>6

LEMMA UnsubscribeCase ==
  ASSUME AbortInv, Unsubscribe  PROVE AbortInv'
<1>1. PICK s \in Signal, i \in 1 .. MaxToken :
        /\ Calls("unsubscribe") /\ Usable(s)
        /\ i \in DOMAIN signal[s].listeners /\ signal[s].listeners[i].what = "script"
        /\ signal' = [signal EXCEPT ![s].listeners = SX!RemoveAt(@, i)]
        /\ UNCHANGED <<promise, micro, stack, co, dropped, firing, guard, timerVars>>
  BY DEF Unsubscribe
<1>2. calls' \in Nat /\ loop' = loop
  BY <1>1, CallsFacts
<1>3. UNCHANGED <<promise, micro, stack, co, loop, dropped, firing, guard, timerVars>>
  BY <1>1, <1>2
<1> DEFINE r == signal[s]
           n == [r EXCEPT !.listeners = SX!RemoveAt(@, i)]
<1>4. /\ r \in SignalRec /\ Numbered(r) /\ Silent(r) /\ i \in DOMAIN r.listeners
      /\ r.listeners[i].what = "script"
      /\ \A l \in Items(r.listeners) : Apt(l, s, signal, promise)
  BY <1>1, InvParts DEF Tidy
<1>5. Puts(signal, s, n, signal')
  BY <1>1 DEF Puts
<1>6. /\ n \in SignalRec /\ Numbered(n) /\ Alike(r, n)
      /\ Items(n.listeners) \subseteq Items(r.listeners)
      /\ \A l \in Items(r.listeners) : l \in Items(n.listeners) \/ l = r.listeners[i]
  BY <1>4, RemovedFacts
<1> HIDE DEF n
<1>7. r.st = "live"
  <2>1. r.listeners # << >>
    BY <1>4
  <2> QED BY <1>4, <2>1 DEF Silent
<1>8. Grows(r, n)
  BY <1>4, <1>6, <1>7 DEF Grows
<1>9. \A l \in Items(n.listeners) : l \in Items(r.listeners) \/ Apt(l, s, signal', promise')
  BY <1>6
<1>10. Growing(signal, signal', promise', {})
  BY <1>5, <1>8, <1>9, InvParts, GrowOne
<1> QED BY <1>2, <1>3, <1>10, SignalsGrow

LEMMA DropCase ==
  ASSUME AbortInv, DropSignal  PROVE AbortInv'
<1>1. PICK s \in Signal :
        /\ Calls("drop") /\ signal[s].by = "any" /\ Usable(s)
        /\ \A i \in DOMAIN firing : firing[i].s # s
        /\ signal' = [signal EXCEPT ![s].st = "dropped", ![s].listeners = << >>]
        /\ UNCHANGED <<promise, micro, stack, co, dropped, firing, guard, timerVars>>
  BY DEF DropSignal
<1>2. calls' \in Nat /\ loop' = loop
  BY <1>1, CallsFacts
<1>3. UNCHANGED <<promise, micro, stack, co, loop, dropped, firing, guard, timerVars>>
  BY <1>1, <1>2
<1>4. Drops(signal, s, signal') /\ signal[s].by = "any" /\ \A i \in DOMAIN firing : firing[i].s # s
  BY <1>1 DEF Drops
<1>5. /\ Tidy(signal', firing, promise) /\ Follows(signal', firing)
      /\ Kept(signal, firing, signal', firing)
  BY <1>4, InvParts, DropStep
<1>6. LoopGoes /\ Aborts(stack') = Aborts(stack) /\ [TM!TimerNext]_TM!timerVars /\ QueueMove({})
  BY <1>2, <1>3, InvParts, QueueAlone, AloneStep
<1>7. Tidy(signal', firing', promise') /\ Follows(signal', firing') /\ Told
  BY <1>3, <1>5, KeptTold
<1>8. ASSUME NEW a \in Signal, signal[a].by = "timeout"  PROVE signal'[a].by = "timeout"
  <2>1. a # s
    BY <1>4, <1>8
  <2> QED BY <1>8, <2>1, <1>4, InvParts DEF Drops
<1>9. guard' \subseteq Guards /\ guard' \ guard = {} /\ Len(firing') = Cardinality(Aborts(stack'))
  BY <1>3, <1>6, InvParts
<1> QED BY <1>6, <1>7, <1>8, <1>9, Rejoin

(***************************************************************************)
(* A combined signal is created.                                           *)
(***************************************************************************)

LEMMA AskedFacts ==
  ASSUME NEW a, NEW from, NEW n \in Nat
  PROVE  /\ Cardinality(Asked(a, from, n)) \in Nat /\ Cardinality(Asked(a, from, n)) <= n
         /\ Cardinality(Asked(a, from, n)) # 0 <=> \E i \in 1 .. n : from[i] = a
<1> DEFINE A == Asked(a, from, n)
<1>1. A \in SUBSET (1 .. n)
  BY DEF Asked
<1>2. IsFiniteSet(1 .. n) /\ Cardinality(1 .. n) = n
  <2>1. IsFiniteSet(1 .. n) /\ Cardinality(1 .. n) = IF 1 > n THEN 0 ELSE n - 1 + 1
    BY FS_Interval
  <2> QED BY <2>1
<1>3. A # {} <=> \E i \in 1 .. n : from[i] = a
  BY DEF Asked
<1> HIDE DEF A
<1>4. IsFiniteSet(A) /\ Cardinality(A) <= n
  BY <1>1, <1>2, FS_Subset
<1>5. Cardinality(A) \in Nat /\ (Cardinality(A) = 0 <=> A = {})
  BY <1>4, FS_CardinalityType, FS_EmptySet
<1> QED BY <1>3, <1>4, <1>5 DEF A

LEMMA NextIndex == \A k \in Nat : \A m \in 0 .. k : m # k => m + 1 \in 1 .. k /\ m < k
OBVIOUS

LEMMA NoItems ==
  ASSUME NEW S, NEW ls \in Seq(S), Items(ls) = {}
  PROVE  ls = << >>
<1> SUFFICES ASSUME ls # << >>  PROVE FALSE
  OBVIOUS
<1>1. 1 \in DOMAIN ls
  OBVIOUS
<1> QED BY <1>1 DEF Items

(* What is asked of the sources `from' when s combines them.               *)
Asks(sig, s, from, n, sig2) ==
    /\ sig2 \in [Signal -> SignalRec]
    /\ \A a \in Signal \ {s} : sig2[a] = HeardTimes(sig[a], Cardinality(Asked(a, from, n)), s)
    /\ sig2[s].by = "any" /\ sig2[s].of = {from[i] : i \in DOMAIN from} /\ sig2[s].listeners = << >>
    /\ IF n = Len(from) THEN sig2[s].st = "live"
       ELSE sig2[s].st = "aborted" /\ sig2[s].reason = sig[from[n + 1]].reason
Asking(sig, s, from, n) ==
    /\ sig[s].st = "unborn"
    /\ from \in Seq(Signal) /\ Len(from) <= MaxSources /\ n \in 0 .. Len(from)
    /\ \A i \in DOMAIN from : sig[from[i]].st \in {"live", "aborted"}
    /\ \A i \in 1 .. n : /\ sig[from[i]].st # "aborted"
                         /\ sig[from[i]].next + Cardinality(Asked(from[i], from, n)) <= MaxToken
    /\ n < Len(from) => sig[from[n + 1]].st = "aborted"

LEMMA AskedOne ==
  ASSUME NEW sig, NEW fir, NEW t, Tidy(sig, fir, t), NEW s \in Signal, NEW from, NEW n,
         Asking(sig, s, from, n), NEW a \in Signal,
         NEW m, m = HeardTimes(sig[a], Cardinality(Asked(a, from, n)), s)
  PROVE  /\ Grows(sig[a], m)
         /\ \A l \in Items(m.listeners) :
               l \in Items(sig[a].listeners)
               \/ (l.what = "signal" /\ l.ref = s /\ \E i \in DOMAIN from : from[i] = a)
         /\ (\E i \in 1 .. n : from[i] = a) => sig[a].st = "live" /\ Has(m.listeners, "signal", s)
<1> DEFINE r == sig[a]
           times == Cardinality(Asked(a, from, n))
<1>1. r \in SignalRec /\ Numbered(r) /\ Silent(r) /\ r.next \in 0 .. MaxToken /\ MaxToken \in Nat
  BY SignalAssumption DEF Tidy, SignalRec
<1>2. Len(from) \in Nat /\ DOMAIN from = 1 .. Len(from) /\ n \in Nat /\ n <= MaxSources /\ MaxSources \in Nat
  BY SignalAssumption DEF Asking
<1>3. times \in Nat /\ times <= n /\ (times # 0 <=> \E i \in 1 .. n : from[i] = a)
  BY <1>2, AskedFacts
<1>4. times # 0 => r.st = "live" /\ r.next + times <= MaxToken /\ \E i \in DOMAIN from : from[i] = a
  <2> SUFFICES ASSUME times # 0  PROVE r.st = "live" /\ r.next + times <= MaxToken /\ \E i \in DOMAIN from : from[i] = a
    OBVIOUS
  <2>1. PICK i \in 1 .. n : from[i] = a
    BY <1>3
  <2>2. i \in DOMAIN from
    BY <1>2 DEF Asking
  <2> QED BY <2>1, <2>2 DEF Asking
<1>6. m = HeardTimes(r, times, s)
  BY DEF times
<1> HIDE DEF r
<1>5. r.next + times <= MaxToken
  <2>1. CASE times = 0
    BY <1>1, <2>1
  <2>2. CASE times # 0
    BY <1>4, <2>2
  <2> QED BY <2>1, <2>2
<1> HIDE DEF times
<1>7. /\ m \in SignalRec /\ Numbered(m) /\ Alike(r, m)
      /\ Items(r.listeners) \subseteq Items(m.listeners)
      /\ \A l \in Items(m.listeners) :
            l \in Items(r.listeners) \/ (times # 0 /\ l.what = "signal" /\ l.ref = s)
      /\ times # 0 => Has(m.listeners, "signal", s)
  <2> DEFINE w == HeardTimes(r, times, s)
  <2>1. /\ w \in SignalRec /\ Numbered(w) /\ Alike(r, w)
        /\ Items(r.listeners) \subseteq Items(w.listeners)
        /\ \A l \in Items(w.listeners) :
              l \in Items(r.listeners) \/ (times # 0 /\ l.what = "signal" /\ l.ref = s)
        /\ times # 0 => Has(w.listeners, "signal", s)
    <3>1. /\ r \in SignalRec /\ Numbered(r) /\ times \in Nat /\ s \in Signal
          /\ r.next + times <= MaxToken
      BY <1>1, <1>3, <1>5
    <3> QED BY <3>1, HeardTimesFacts
  <2>2. m = w
    BY <1>6
  <2> HIDE DEF w
  <2> QED BY <2>1, <2>2
<1>8. r.st # "live" => m.listeners = << >>
  <2> SUFFICES ASSUME r.st # "live"  PROVE m.listeners = << >>
    OBVIOUS
  <2>1. times = 0 /\ r.listeners = << >>
    BY <1>1, <1>4 DEF Silent
  <2>2. Items(m.listeners) = {}
    BY <1>7, <2>1, EmptyList
  <2>3. m.listeners \in Seq(Listener)
    BY <1>7 DEF SignalRec
  <2> QED BY <2>2, <2>3, NoItems
<1>9. Grows(r, m)
  BY <1>7, <1>8 DEF Grows
<1> QED BY <1>3, <1>4, <1>7, <1>9 DEF r

LEMMA AskStep ==
  ASSUME NEW sig, NEW fir, NEW t, Tidy(sig, fir, t), NEW s \in Signal, NEW from, NEW n,
         Asking(sig, s, from, n), NEW sig2, Asks(sig, s, from, n, sig2), NEW t2
  PROVE  Growing(sig, sig2, t2, {s}) /\ FollowsAt(sig2, fir, s)
<1>1. /\ from \in Seq(Signal) /\ Len(from) \in Nat /\ DOMAIN from = 1 .. Len(from) /\ n \in 0 .. Len(from)
      /\ \A i \in DOMAIN from : from[i] \in Signal /\ from[i] # s
  BY DEF Asking
<1>2. sig2 \in [Signal -> SignalRec] /\ sig2[s].by = "any" /\ sig2[s].of = {from[i] : i \in DOMAIN from}
  BY DEF Asks
<1>3. ASSUME NEW a \in Signal \ {s}
      PROVE  /\ Grows(sig[a], sig2[a])
             /\ \A l \in Items(sig2[a].listeners) :
                   l \in Items(sig[a].listeners)
                   \/ (l.what = "signal" /\ l.ref = s /\ \E i \in DOMAIN from : from[i] = a)
             /\ (\E i \in 1 .. n : from[i] = a) => sig[a].st = "live" /\ Has(sig2[a].listeners, "signal", s)
  <2>1. sig2[a] = HeardTimes(sig[a], Cardinality(Asked(a, from, n)), s)
    BY DEF Asks
  <2> QED BY <2>1, AskedOne
<1>4. ASSUME NEW a \in Signal \ {s}, NEW l \in Items(sig2[a].listeners)
      PROVE  l \in Items(sig[a].listeners) \/ Apt(l, a, sig2, t2)
  <2>1. CASE l.what = "signal" /\ l.ref = s /\ \E i \in DOMAIN from : from[i] = a
    <3>1. a \in sig2[s].of
      BY <1>2, <2>1
    <3> QED BY <1>2, <2>1, <3>1 DEF Apt
  <2> QED BY <1>3, <2>1
<1>5. \A a \in Signal \ {s} : sig2[a].st = sig[a].st /\ sig2[a].reason = sig[a].reason
  BY <1>3 DEF Grows, Alike
<1>6. \A b \in sig2[s].of : sig2[b].st # "unborn"
  <2> SUFFICES ASSUME NEW i \in DOMAIN from  PROVE sig2[from[i]].st # "unborn"
    BY <1>2
  <2> QED BY <1>1, <1>5 DEF Asking
<1>7. Growing(sig, sig2, t2, {s})
  <2>1. sig[s].st = "unborn" /\ sig2[s].st \in {"live", "aborted"} /\ sig2[s].listeners = << >>
    BY DEF Asking, Asks
  <2> QED BY <1>2, <1>3, <1>4, <1>6, <2>1 DEF Growing
<1>8. CASE n = Len(from)
  <2>1. sig2[s].st = "live"
    BY <1>8 DEF Asks
  <2>2. ASSUME NEW i \in DOMAIN from  PROVE Tells(sig2, fir, from[i], "signal", s)
    <3>1. i \in 1 .. n /\ from[i] \in Signal \ {s}
      BY <1>1, <1>8
    <3>2. sig[from[i]].st = "live" /\ Has(sig2[from[i]].listeners, "signal", s)
      BY <1>3, <3>1
    <3> QED BY <1>5, <3>1, <3>2 DEF Tells
  <2>3. \A a \in sig2[s].of : Tells(sig2, fir, a, "signal", s)
    BY <1>2, <2>2
  <2> QED BY <1>7, <2>1, <2>3 DEF FollowsAt
<1>9. CASE n # Len(from)
  <2>1. sig2[s].st = "aborted" /\ sig2[s].reason = sig[from[n + 1]].reason
    BY <1>9 DEF Asks
  <2>2. n + 1 \in DOMAIN from /\ n < Len(from)
    <3>1. Len(from) \in Nat /\ DOMAIN from = 1 .. Len(from) /\ n \in 0 .. Len(from)
      BY <1>1
    <3>2. n + 1 \in 1 .. Len(from) /\ n < Len(from)
      BY <1>9, <3>1, NextIndex, Zenon
    <3> QED BY <3>1, <3>2
  <2>3. sig[from[n + 1]].st = "aborted" /\ from[n + 1] \in Signal \ {s} /\ from[n + 1] \in sig2[s].of
    BY <1>1, <1>2, <2>2 DEF Asking
  <2>4. sig2[from[n + 1]].st = "aborted" /\ sig2[from[n + 1]].reason = sig2[s].reason
    BY <1>5, <2>1, <2>3
  <2> QED BY <1>7, <2>1, <2>3, <2>4 DEF FollowsAt
<1> QED BY <1>8, <1>9

Gone(r, reason) == [r EXCEPT !.st = "aborted", !.reason = reason]

LEMMA NewCombined ==
  ASSUME NEW of \in SUBSET Signal, NEW reason \in Value, NEW new, new = NewSignal("any", of),
         NEW gone, gone = Gone(new, reason)
  PROVE  /\ new \in SignalRec /\ new.st = "live" /\ new.by = "any" /\ new.of = of
         /\ new.listeners = << >>
         /\ gone \in SignalRec /\ gone.st = "aborted" /\ gone.by = "any" /\ gone.of = of
         /\ gone.listeners = << >> /\ gone.reason = reason
<1>1. << >> \in Seq(Listener) /\ Undef \in Value /\ 0 \in 0 .. MaxPromise /\ 0 \in 0 .. MaxToken
  BY ValueFacts, SignalAssumption, EmptyList
<1> QED BY <1>1 DEF NewSignal, SignalRec, Gone

Joined(s, from, n) ==
    LET new == NewSignal("any", {from[i] : i \in DOMAIN from})
    IN  IF n = Len(from) THEN new
        ELSE Gone(new, signal[from[n + 1]].reason)
Joins(s, from, n) ==
    /\ Calls("any")
    /\ New(s)
    /\ \A i \in 1 .. n : ~Aborted(from[i])
    /\ n < Len(from) => Aborted(from[n + 1])
    /\ \A i \in 1 .. n : Room(from[i], Cardinality(Asked(from[i], from, n)))
    /\ signal' = [a \in Signal |->
           IF a # s THEN HeardTimes(signal[a], Cardinality(Asked(a, from, n)), s) ELSE Joined(s, from, n)]
    /\ UNCHANGED <<promise, micro, stack, co, dropped, firing, guard, timerVars>>

LEMMA AnyCase ==
  ASSUME AbortInv, SignalAny  PROVE AbortInv'
<1>1. PICK s \in Signal, from \in SX!BoundedSeq({a \in Signal : Usable(a)}, MaxSources) :
        \E n \in 0 .. Len(from) : Joins(s, from, n)
  BY Zenon DEF SignalAny, Joins, Joined, Gone
<1> DEFINE of == {from[i] : i \in DOMAIN from}
           new == NewSignal("any", of)
<1>2. PICK n \in 0 .. Len(from) : Joins(s, from, n)
  BY <1>1
<1>20. /\ Calls("any") /\ New(s) /\ signal[s].st = "unborn"
       /\ \A i \in 1 .. n : ~Aborted(from[i])
       /\ n < Len(from) => Aborted(from[n + 1])
       /\ \A i \in 1 .. n : Room(from[i], Cardinality(Asked(from[i], from, n)))
       /\ UNCHANGED <<promise, micro, stack, co, dropped, firing, guard, timerVars>>
  BY <1>2, Zenon DEF Joins, New
<1>3. calls' \in Nat /\ loop' = loop
  BY <1>20, CallsFacts
<1>4. UNCHANGED <<promise, micro, stack, co, loop, dropped, firing, guard, timerVars>>
  BY <1>3, <1>20
<1>5. /\ from \in Seq({a \in Signal : Usable(a)}) /\ Len(from) \in 0 .. MaxSources
      /\ DOMAIN from = 1 .. Len(from)
  <2>1. PICK k \in 0 .. MaxSources : from \in [1 .. k -> {a \in Signal : Usable(a)}]
    BY DEF SX!BoundedSeq, SX!SeqOf
  <2>2. k \in Nat
    BY SignalAssumption
  <2>3. from \in Seq({a \in Signal : Usable(a)}) /\ Len(from) = k
    BY <2>1, <2>2, SeqDef
  <2> QED BY <2>1, <2>3
<1>6. from \in Seq(Signal) /\ \A i \in DOMAIN from : from[i] \in Signal /\ Usable(from[i])
  BY <1>5
<1>7. Asking(signal, s, from, n)
  <2>1. n \in 0 .. Len(from) /\ Len(from) <= MaxSources /\ signal[s].st = "unborn"
    BY <1>5, <1>20, SignalAssumption
  <2>2. \A i \in DOMAIN from : signal[from[i]].st \in {"live", "aborted"}
    BY <1>6 DEF Usable
  <2>3. /\ \A i \in 1 .. n : /\ signal[from[i]].st # "aborted"
                             /\ signal[from[i]].next + Cardinality(Asked(from[i], from, n)) <= MaxToken
        /\ n < Len(from) => signal[from[n + 1]].st = "aborted"
    BY <1>20 DEF Aborted, Room
  <2> QED BY <1>6, <2>1, <2>2, <2>3 DEF Asking
<1>8. of \in SUBSET Signal
  BY <1>6
<1> DEFINE last1 == Joined(s, from, n)
<1>9. /\ last1 \in SignalRec /\ last1.by = "any" /\ last1.of = of /\ last1.listeners = << >>
      /\ IF n = Len(from) THEN last1.st = "live"
         ELSE last1.st = "aborted" /\ last1.reason = signal[from[n + 1]].reason
  <2>1. CASE n = Len(from)
    <3>1. Undef \in Value
      BY ValueFacts
    <3>2. last1 = new
      BY <2>1 DEF Joined
    <3> DEFINE gone == Gone(new, Undef)
    <3>4. new = NewSignal("any", of) /\ gone = Gone(new, Undef)
      OBVIOUS
    <3> HIDE DEF of, last1, new, gone
    <3>3. new \in SignalRec /\ new.st = "live" /\ new.by = "any" /\ new.of = of /\ new.listeners = << >>
      BY <1>8, <3>1, <3>4, NewCombined
    <3> QED BY <2>1, <3>2, <3>3
  <2>2. CASE n # Len(from)
    <3>1. n + 1 \in DOMAIN from
      <4>1. Len(from) \in Nat /\ DOMAIN from = 1 .. Len(from)
        BY <1>5, SignalAssumption
      <4>2. n + 1 \in 1 .. Len(from)
        BY <2>2, <4>1, NextIndex, Zenon
      <4> QED BY <4>1, <4>2
    <3>2. signal[from[n + 1]].reason \in Value
      BY <1>6, <3>1, InvParts DEF SignalRec
    <3> DEFINE gone == Gone(new, signal[from[n + 1]].reason)
    <3>3. last1 = gone
      BY <2>2 DEF Joined
    <3>5. new = NewSignal("any", of) /\ gone = Gone(new, signal[from[n + 1]].reason)
      OBVIOUS
    <3> HIDE DEF of, last1, new, gone
    <3>4. /\ gone \in SignalRec /\ gone.st = "aborted" /\ gone.by = "any" /\ gone.of = of
          /\ gone.listeners = << >> /\ gone.reason = signal[from[n + 1]].reason
      BY <1>8, <3>2, <3>5, NewCombined
    <3> QED BY <2>2, <3>3, <3>4
  <2> QED BY <2>1, <2>2
<1>10. signal' = [a \in Signal |->
           IF a # s THEN HeardTimes(signal[a], Cardinality(Asked(a, from, n)), s) ELSE last1]
  BY <1>2, Zenon DEF Joins
<1> HIDE DEF last1, new
<1>11. Asks(signal, s, from, n, signal')
  <2>1. /\ \A a \in Signal \ {s} : signal'[a] = HeardTimes(signal[a], Cardinality(Asked(a, from, n)), s)
        /\ signal'[s] = last1 /\ DOMAIN signal' = Signal
    BY <1>10
  <2>2. \A a \in Signal \ {s} : HeardTimes(signal[a], Cardinality(Asked(a, from, n)), s) \in SignalRec
    <3> SUFFICES ASSUME NEW a \in Signal \ {s}
                 PROVE  HeardTimes(signal[a], Cardinality(Asked(a, from, n)), s) \in SignalRec
      OBVIOUS
    <3> DEFINE m == HeardTimes(signal[a], Cardinality(Asked(a, from, n)), s)
    <3>1. Grows(signal[a], m)
      BY <1>7, InvParts, AskedOne
    <3> QED BY <3>1 DEF Grows
  <2>3. signal' = [a \in Signal |-> signal'[a]]
    BY <1>10
  <2>4. \A a \in Signal : signal'[a] \in SignalRec
    BY <1>9, <2>1, <2>2
  <2>5. signal' \in [Signal -> SignalRec]
    BY <2>3, <2>4
  <2> QED BY <1>9, <2>1, <2>5 DEF Asks
<1>12. Growing(signal, signal', promise', {s}) /\ FollowsAt(signal', firing, s)
  BY <1>7, <1>11, InvParts, AskStep
<1>13. {s} \in SUBSET Signal /\ \A x \in {s} : FollowsAt(signal', firing, x)
  BY <1>12
<1> QED BY <1>3, <1>4, <1>12, <1>13, SignalsGrow

(***************************************************************************)
(* Timers and promises are made with a signal.                             *)
(***************************************************************************)

LEMMA MadeWith ==
  ASSUME AbortInv, LoopGoes, Aborts(stack') = Aborts(stack), [TM!TimerNext]_TM!timerVars,
         NEW T, QueueMove(T),
         \A d \in Id \cap T : promise'[d].by = "timer",
         \A s \in Signal \cap T : signal'[s].by = "timeout",
         firing' = firing, NEW B \in SUBSET Signal, Growing(signal, signal', promise', B),
         \A s \in B : FollowsAt(signal', firing, s),
         guard' \subseteq Guards,
         \A g \in guard' \ guard : Guarding(g, signal', firing', promise', micro', cancelled')
  PROVE  AbortInv'
<1>1. Stays(promise, promise')
  BY DEF LoopGoes
<1>2. /\ Tidy(signal', firing', promise') /\ Follows(signal', firing') /\ Told
      /\ \A s \in Signal : signal[s].by = "timeout" => signal'[s].by = "timeout"
  BY <1>1, InvParts, GrowsOn
<1>3. Len(firing') = Cardinality(Aborts(stack'))
  BY InvParts
<1> QED BY <1>2, <1>3, Rejoin

LEMMA Kinds ==
  /\ Id \cap Signal = {} /\ 0 \notin Id /\ 0 \notin Signal
  /\ 0 \in 0 .. MaxPromise /\ 0 \in TM!TimerId /\ Id \subseteq 0 .. MaxPromise
<1>1. Id \subseteq Nat /\ 0 \in Nat /\ 0 \notin Id /\ Id \subseteq 0 .. MaxPromise
  BY BoundsAssumption DEF Id
<1>2. 0 \in TM!TimerId
  BY QueueAssumptions DEF TM!TimerId
<1>3. Id \cap Signal = {} /\ 0 \notin Signal
  BY <1>1, SignalAssumption
<1>4. 0 \in 0 .. MaxPromise
  BY BoundsAssumption
<1> QED BY <1>1, <1>2, <1>3, <1>4

LEMMA NextIdFacts ==
  ASSUME AbortInv, NEW delay, NEW every, NEW task, TM!Schedule(delay, every, task)
  PROVE  nextId \in TM!TimerId /\ nextId # 0
<1>1. nextId \in Nat /\ nextSeq \in Nat /\ nextId # 0 /\ nextId <= nextSeq + 1 /\ nextSeq <= MaxSeq
  BY InvParts, BaseParts DEF TP!TimerInv, TP!TimerTypeOK, TM!TimerTypeOK, Numbering
<1> QED BY <1>1, QueueAssumptions DEF TM!TimerId

LEMMA TimeoutCase ==
  ASSUME AbortInv, TimeoutSignal  PROVE AbortInv'
<1>1. PICK s \in Signal, delay \in Delay :
        /\ Calls("timeoutSignal") /\ signal[s].st = "unborn"
        /\ signal' = [signal EXCEPT ![s] = NewSignal("timeout", {})]
        /\ TM!Schedule(delay, Once, s)
        /\ UNCHANGED <<promise, micro, stack, co, dropped, firing, guard, cancelled, now, running, last>>
  BY DEF TimeoutSignal, New
<1>2. calls' \in Nat /\ loop' = loop
  BY <1>1, CallsFacts
<1>3. UNCHANGED <<promise, micro, stack, co, loop, dropped, firing, guard, cancelled, now, running, last>>
  BY <1>1, <1>2
<1>4. Puts(signal, s, NewSignal("timeout", {}), signal') /\ signal[s].st = "unborn"
  BY <1>1 DEF Puts
<1>5. /\ Growing(signal, signal', promise', {s}) /\ FollowsAt(signal', firing, s)
      /\ signal'[s].by = "timeout"
  BY <1>4, InvParts, NewOne
<1>6. LoopGoes /\ Aborts(stack') = Aborts(stack)
  BY <1>2, <1>3, InvParts, AloneStep
<1>7. [TM!TimerNext]_TM!timerVars /\ QueueMove({s})
  <2>1. TM!Schedule(delay, Once, s) /\ Once \in {Once, delay} /\ s \in (0 .. MaxPromise) \cup Signal
    BY <1>1
  <2> QED BY <1>3, <2>1, QueueGains
<1>8. \A d \in Id \cap {s} : promise'[d].by = "timer"
  BY Kinds
<1>9. /\ \A c \in Signal \cap {s} : signal'[c].by = "timeout"
      /\ {s} \in SUBSET Signal /\ \A x \in {s} : FollowsAt(signal', firing, x)
  BY <1>5
<1>10. guard' \subseteq Guards /\ guard' \ guard = {} /\ firing' = firing
  BY <1>3, InvParts
<1> QED BY <1>5, <1>6, <1>7, <1>8, <1>9, <1>10, MadeWith

LEMMA TimerCase ==
  ASSUME AbortInv, SetTimerWithSignal  PROVE AbortInv'
<1>1. PICK s \in Signal, delay \in Delay, every \in Delay \cup {Once} :
        /\ Calls("signalTimer") /\ Usable(s) /\ Room(s, 1) /\ every \in {Once, delay}
        /\ IF Aborted(s)
           THEN UNCHANGED <<signal, guard, heap, nextId, nextSeq>>
           ELSE /\ TM!Schedule(delay, every, 0)
                /\ signal' = [signal EXCEPT ![s] = Heard(@, "timer", nextId)]
                /\ Guarded(s, nextId, 0)
        /\ UNCHANGED <<promise, micro, stack, co, dropped, firing, cancelled, now, running, last>>
  BY DEF SetTimerWithSignal
<1>2. calls' \in Nat /\ loop' = loop
  BY <1>1, CallsFacts
<1>3. UNCHANGED <<promise, micro, stack, co, loop, dropped, firing, cancelled, now, running, last>>
  BY <1>1, <1>2
<1>4. LoopGoes /\ Aborts(stack') = Aborts(stack)
  BY <1>2, <1>3, InvParts, AloneStep
<1>5. CASE Aborted(s)
  <2>1. UNCHANGED <<signal, guard>> /\ UNCHANGED timerVars
    BY <1>1, <1>5 DEF timerVars
  <2>2. Growing(signal, signal', promise', {})
    <3>1. \A a \in Signal : Grows(signal[a], signal[a])
      BY InvParts, GrowsSame
    <3> QED BY <2>1, <3>1, InvParts DEF Growing
  <2>3. UNCHANGED <<promise, micro, stack, co, loop, dropped, firing, guard, timerVars>>
    BY <1>3, <2>1
  <2> QED BY <1>2, <2>2, <2>3, SignalsGrow
<1>6. CASE ~Aborted(s)
  <2> DEFINE n == Heard(signal[s], "timer", nextId)
  <2>1. Puts(signal, s, n, signal') /\ TM!Schedule(delay, every, 0) /\ Guarded(s, nextId, 0)
    BY <1>1, <1>6 DEF Puts
  <2>2. /\ signal[s] \in SignalRec /\ Numbered(signal[s])
        /\ signal[s].next + 1 <= MaxToken /\ signal[s].st = "live"
    BY <1>1, <1>6, InvParts DEF Tidy, Room, Usable, Aborted
  <2>3. nextId \in TM!TimerId /\ nextId # 0
    BY <2>1, NextIdFacts
  <2>4. "timer" \in What /\ nextId \in Ref
    BY <2>3 DEF What, Ref
  <2>5. /\ Grows(signal[s], n) /\ Has(n.listeners, "timer", nextId) /\ n.st = "live"
        /\ \A l \in Items(n.listeners) : l \in Items(signal[s].listeners) \/ (l.what = "timer" /\ l.ref = nextId)
    BY <2>2, <2>4, HeardGrows
  <2> HIDE DEF n
  <2>6. \A l \in Items(n.listeners) : l \in Items(signal[s].listeners) \/ Apt(l, s, signal', promise')
    BY <2>3, <2>5 DEF Apt
  <2>7. Growing(signal, signal', promise', {})
    BY <2>1, <2>5, <2>6, InvParts, GrowOne
  <2>8. signal'[s] = n
    <3>1. n \in SignalRec
      BY <2>5 DEF Grows
    <3> QED BY <2>1, <3>1, InvParts, PutFacts
  <2>9. Tells(signal', firing', s, "timer", nextId)
    BY <2>5, <2>8 DEF Tells
  <2>10. [TM!TimerNext]_TM!timerVars /\ QueueMove({0})
    <3>1. every \in {Once, delay} /\ 0 \in (0 .. MaxPromise) \cup Signal
      BY <1>1, Kinds
    <3> QED BY <1>3, <2>1, <3>1, QueueGains
  <2>11. /\ \A d \in Id \cap {0} : promise'[d].by = "timer"
         /\ \A c \in Signal \cap {0} : signal'[c].by = "timeout"
    BY Kinds
  <2> DEFINE g0 == [s |-> s, id |-> nextId, p |-> 0]
  <2>12. g0 \in Guards /\ guard' = guard \cup {g0}
    BY <2>1, <2>3, Kinds DEF Guards, Guarded
  <2>13. Guarding(g0, signal', firing', promise', micro', cancelled')
    BY <2>9 DEF Guarding
  <2> HIDE DEF g0
  <2>14. /\ guard' \subseteq Guards
         /\ \A g \in guard' \ guard : Guarding(g, signal', firing', promise', micro', cancelled')
    BY <2>12, <2>13, InvParts
  <2>15. {} \in SUBSET Signal /\ firing' = firing
    BY <1>3
  <2> QED BY <1>4, <2>7, <2>10, <2>11, <2>14, <2>15, MadeWith
<1> QED BY <1>5, <1>6

WithPromise(r, p) == [r EXCEPT !.promise = p]

LEMMA PromiseField ==
  ASSUME NEW r \in SignalRec, Numbered(r), NEW p \in 0 .. MaxPromise, NEW n, n = WithPromise(r, p)
  PROVE  n \in SignalRec /\ Numbered(n) /\ Alike(r, n) /\ n.listeners = r.listeners
<1>1. n \in SignalRec /\ Alike(r, n) /\ n.listeners = r.listeners /\ n.next = r.next
  BY DEF WithPromise, SignalRec, Alike
<1> QED BY <1>1 DEF Numbered

(* The promise of a signal, and the signal once it has it.                 *)
MadeOf(s) == IF Aborted(s) THEN Closed(Pending("signal"), "rejected", signal[s].reason)
             ELSE Pending("signal")
Having(s, p) == WithPromise(IF Aborted(s) THEN signal[s] ELSE Heard(signal[s], "reject", p), p)

LEMMA MadeSignalPromise ==
  ASSUME SignalPromise
  PROVE  \E s \in Signal, p \in Id :
        /\ Calls("signalPromise") /\ Usable(s) /\ Fresh(p) /\ Room(s, 1)
        /\ promise' = [promise EXCEPT ![p] = MadeOf(s)]
        /\ Puts(signal, s, Having(s, p), signal')
        /\ UNCHANGED <<micro, stack, co, dropped, firing, guard, timerVars>>
<1>1. PICK s \in Signal, p \in Id :
      /\ Calls("signalPromise") /\ Usable(s) /\ Fresh(p) /\ Room(s, 1)
      /\ IF Aborted(s)
         THEN /\ promise' = [promise EXCEPT ![p] = Closed(Pending("signal"), "rejected", signal[s].reason)]
              /\ signal' = [signal EXCEPT ![s].promise = p]
         ELSE /\ promise' = [promise EXCEPT ![p] = Pending("signal")]
              /\ signal' = [signal EXCEPT ![s] = [Heard(@, "reject", p) EXCEPT !.promise = p]]
      /\ UNCHANGED <<micro, stack, co, dropped, firing, guard, timerVars>>
  BY DEF SignalPromise
<1>2. promise' = [promise EXCEPT ![p] = MadeOf(s)]
  BY <1>1 DEF MadeOf
<1>3. Puts(signal, s, Having(s, p), signal')
  BY <1>1 DEF Puts, WithPromise, Having
<1> QED BY <1>1, <1>2, <1>3

LEMMA SignalPromiseCase ==
  ASSUME AbortInv, SignalPromise  PROVE AbortInv'
<1>1. PICK s \in Signal, p \in Id :
        /\ Calls("signalPromise") /\ Usable(s) /\ Fresh(p) /\ Room(s, 1)
        /\ promise' = [promise EXCEPT ![p] = MadeOf(s)]
        /\ Puts(signal, s, Having(s, p), signal')
        /\ UNCHANGED <<micro, stack, co, dropped, firing, guard, timerVars>>
  BY MadeSignalPromise
<1> DEFINE rec == MadeOf(s)
           m == Having(s, p)
<1>2. calls' \in Nat /\ loop' = loop
  BY <1>1, CallsFacts
<1>3. /\ UNCHANGED <<micro, stack, co, loop, dropped, firing, guard, timerVars>> /\ ~Born(p)
      /\ promise' = [promise EXCEPT ![p] = rec] /\ Puts(signal, s, m, signal')
  BY <1>1, <1>2 DEF Fresh, Next1
<1>4. /\ signal[s] \in SignalRec /\ Numbered(signal[s]) /\ Silent(signal[s]) /\ signal[s].reason \in Value
      /\ signal[s].next + 1 <= MaxToken /\ (signal[s].st = "live" \/ Aborted(s))
  BY <1>1, InvParts DEF Tidy, Room, Usable, Aborted, SignalRec
<1>5. GoodRec(rec) /\ rec.st # "unborn" /\ rec.by = "signal" /\ rec.ok = << >>
  <2>1. GoodRec(Pending("signal")) /\ Pending("signal") \in SoundRec
    BY FreshRecs DEF Origin, GoodRec
  <2>2. "rejected" \in {"fulfilled", "rejected"}
    OBVIOUS
  <2>3. GoodRec(Closed(Pending("signal"), "rejected", signal[s].reason))
    BY <1>4, <2>1, <2>2, ClosedType
  <2> QED BY <2>1, <2>3 DEF Closed, Pending, MadeOf
<1>6. /\ Grows(signal[s], m)
      /\ \A l \in Items(m.listeners) : l \in Items(signal[s].listeners) \/ (l.what = "reject" /\ l.ref = p)
  <2>1. p \in 0 .. MaxPromise /\ "reject" \in What /\ p \in Ref
    BY Kinds DEF What, Ref
  <2>2. CASE Aborted(s)
    <3>1. m = WithPromise(signal[s], p)
      BY <2>2 DEF Having
    <3> HIDE DEF m
    <3>2. m \in SignalRec /\ Numbered(m) /\ Alike(signal[s], m) /\ m.listeners = signal[s].listeners
      BY <1>4, <2>1, <3>1, PromiseField
    <3> QED BY <1>4, <3>2 DEF Grows, Silent
  <2>3. CASE ~Aborted(s)
    <3> DEFINE h == Heard(signal[s], "reject", p)
    <3>1. m = WithPromise(h, p)
      BY <2>3 DEF Having
    <3>2. /\ Grows(signal[s], h) /\ h.st = "live"
          /\ \A l \in Items(h.listeners) : l \in Items(signal[s].listeners) \/ (l.what = "reject" /\ l.ref = p)
      BY <1>4, <2>1, <2>3, HeardGrows
    <3> HIDE DEF m, h
    <3>3. m \in SignalRec /\ Numbered(m) /\ Alike(h, m) /\ m.listeners = h.listeners
      BY <2>1, <3>1, <3>2, PromiseField DEF Grows
    <3> QED BY <3>2, <3>3 DEF Grows, Alike
  <2> QED BY <2>2, <2>3
<1> HIDE DEF m, rec
<1>7. /\ LoopGoes /\ Aborts(stack') = Aborts(stack) /\ promise'[p] = rec
  <2>1. micro' = micro /\ running' = running /\ rec.by \in {"timer", "signal"}
    BY <1>3, <1>5, QueueAlone
  <2> QED BY <1>2, <1>3, <1>5, <2>1, InvParts, PromiseMade
<1>8. \A l \in Items(m.listeners) : l \in Items(signal[s].listeners) \/ Apt(l, s, signal', promise')
  BY <1>5, <1>6, <1>7 DEF Apt
<1>9. Growing(signal, signal', promise', {})
  BY <1>3, <1>6, <1>8, InvParts, GrowOne
<1>10. [TM!TimerNext]_TM!timerVars /\ QueueMove({})
  BY <1>3, QueueAlone
<1>11. guard' \subseteq Guards /\ guard' \ guard = {} /\ firing' = firing /\ {} \in SUBSET Signal
  BY <1>3, InvParts
<1> QED BY <1>7, <1>9, <1>10, <1>11, MadeWith

(* A wait is made with signal s: its promise p, and its timer id if any.   *)
LEMMA WaitGuards ==
  ASSUME AbortInv, NEW s \in Signal, NEW id \in TM!TimerId, NEW p \in Id, Guarded(s, id, p),
         promise'[p].by = "timer",
         id # 0 => Tells(signal', firing', s, "timer", id),
         Closing(promise', micro', p) \/ Tells(signal', firing', s, "reject", p)
  PROVE  /\ guard' \subseteq Guards
         /\ \A g \in guard' \ guard : Guarding(g, signal', firing', promise', micro', cancelled')
<1> DEFINE g0 == [s |-> s, id |-> id, p |-> p]
<1>1. g0 \in Guards /\ guard' = guard \cup {g0}
  BY Kinds DEF Guards, Guarded
<1>2. Guarding(g0, signal', firing', promise', micro', cancelled')
  BY DEF Guarding
<1> HIDE DEF g0
<1> QED BY <1>1, <1>2, InvParts

LEMMA WaitMade ==
  ASSUME AbortInv, NEW p \in Id, ~Born(p), promise' = [promise EXCEPT ![p] = Pending("timer")],
         micro' = micro \/ \E a \in Safe : a.op = "cap" /\ a.p = p /\ micro' = Append(micro, a),
         calls' \in Nat, UNCHANGED <<stack, co, loop, dropped, running>>
  PROVE  LoopGoes /\ Aborts(stack') = Aborts(stack) /\ promise'[p].by = "timer"
<1> DEFINE r == Pending("timer")
<1>1. GoodRec(r) /\ r.st # "unborn" /\ r.by \in {"timer", "signal"} /\ r.ok = << >> /\ r.by = "timer"
  BY FreshRecs DEF Origin, Pending
<1>2. promise' = [promise EXCEPT ![p] = r]
  OBVIOUS
<1> HIDE DEF r
<1>3. LoopGoes /\ Aborts(stack') = Aborts(stack) /\ promise'[p] = r
  BY <1>1, <1>2, InvParts, PromiseMade
<1> QED BY <1>1, <1>3

LEMMA WaitGone ==
  ASSUME AbortInv, NEW s \in Signal, NEW p \in Id, ~Born(p), NEW v \in Value,
         promise' = [promise EXCEPT ![p] = Pending("timer")],
         micro' = Append(micro, Given(Callback("cap", p, "err", 0), v)), Guarded(s, 0, p),
         calls' \in Nat, UNCHANGED <<stack, co, loop, dropped, firing, signal, timerVars>>
  PROVE  AbortInv'
<1> DEFINE a == Given(Callback("cap", p, "err", 0), v)
<1>1. a \in Safe /\ a.op = "cap" /\ a.p = p /\ a.side = "err"
  <2>1. Callback("cap", p, "err", 0) \in Goal /\ Callback("cap", p, "err", 0) \in Rejecting
    <3>1. "cap" \in Op /\ "err" \in Side /\ p \in 0 .. MaxPromise /\ 0 \in Nat
      BY ValueFacts DEF Op, Side
    <3>2. Callback("cap", p, "err", 0) \in Safe /\ Callback("cap", p, "err", 0).side = "err"
      BY <3>1, CallbackType
    <3> QED BY <3>2 DEF Safe, Rejecting
  <2>2. a \in Safe
    BY <2>1, GivenType
  <2> QED BY <2>2 DEF Given, Callback
<1>2. micro' = Append(micro, a)
  OBVIOUS
<1> HIDE DEF a
<1>3. running' = running /\ [TM!TimerNext]_TM!timerVars /\ QueueMove({})
  BY QueueAlone
<1>4. LoopGoes /\ Aborts(stack') = Aborts(stack) /\ promise'[p].by = "timer"
  <2>1. \E b \in Safe : b.op = "cap" /\ b.p = p /\ micro' = Append(micro, b)
    BY <1>1, <1>2
  <2> QED BY <1>3, <2>1, WaitMade
<1>5. Closing(promise', micro', p)
  <2>1. Items(micro') = Items(micro) \cup {a}
    BY <1>1, <1>2, InvParts, BaseParts, ItemsAppend
  <2>2. PICK i \in DOMAIN micro' : micro'[i] = a
    BY <2>1 DEF Items
  <2> QED BY <1>1, <2>2 DEF Closing
<1>6. /\ guard' \subseteq Guards
      /\ \A g \in guard' \ guard : Guarding(g, signal', firing', promise', micro', cancelled')
  BY <1>4, <1>5, Kinds, WaitGuards
<1>7. Growing(signal, signal', promise', {})
  <2>1. \A c \in Signal : Grows(signal[c], signal[c])
    BY InvParts, GrowsSame
  <2> QED BY <2>1, InvParts DEF Growing
<1>8. {} \in SUBSET Signal /\ firing' = firing
  OBVIOUS
<1> QED BY <1>3, <1>4, <1>6, <1>7, <1>8, MadeWith

LEMMA WaitHeard ==
  ASSUME AbortInv, NEW s \in Signal, NEW p \in Id, ~Born(p), NEW delay \in Delay,
         signal[s].st = "live", signal[s].next + 2 <= MaxToken,
         promise' = [promise EXCEPT ![p] = Pending("timer")], TM!Schedule(delay, Once, p),
         Puts(signal, s, Heard(Heard(signal[s], "reject", p), "timer", nextId), signal'),
         Guarded(s, nextId, p), calls' \in Nat,
         UNCHANGED <<micro, stack, co, loop, dropped, firing, cancelled, now, running, last>>
  PROVE  AbortInv'
<1> DEFINE h == Heard(signal[s], "reject", p)
           m == Heard(h, "timer", nextId)
<1>1. /\ signal[s] \in SignalRec /\ Numbered(signal[s]) /\ signal[s].next \in Nat /\ MaxToken \in Nat
  BY InvParts, SignalAssumption DEF Tidy, SignalRec
<1>2. nextId \in TM!TimerId /\ nextId # 0
  BY NextIdFacts
<1>3. "reject" \in What /\ "timer" \in What /\ nextId \in Ref /\ p \in Ref /\ "reject" \in What \ {"script"}
  BY <1>2 DEF What, Ref
<1>4. /\ Grows(signal[s], h) /\ h.next = signal[s].next + 1 /\ h.st = "live" /\ Has(h.listeners, "reject", p)
      /\ \A l \in Items(h.listeners) : l \in Items(signal[s].listeners) \/ (l.what = "reject" /\ l.ref = p)
  <2>1. signal[s].next + 1 <= MaxToken
    BY <1>1
  <2> QED BY <1>1, <1>3, <2>1, HeardGrows
<1>5. Puts(signal, s, m, signal')
  OBVIOUS
<1> HIDE DEF h
<1>6. /\ Grows(h, m) /\ m.st = "live" /\ Has(m.listeners, "timer", nextId)
      /\ \A l \in Items(m.listeners) : l \in Items(h.listeners) \/ (l.what = "timer" /\ l.ref = nextId)
  <2>1. h \in SignalRec /\ Numbered(h) /\ h.next + 1 <= MaxToken
    BY <1>1, <1>4 DEF Grows
  <2> QED BY <1>3, <1>4, <2>1, HeardGrows
<1> HIDE DEF m
<1>7. Grows(signal[s], m) /\ Has(m.listeners, "reject", p)
  BY <1>3, <1>4, <1>6, GrowsTwice
<1>8. LoopGoes /\ Aborts(stack') = Aborts(stack) /\ promise'[p].by = "timer"
  BY WaitMade
<1>9. \A l \in Items(m.listeners) : l \in Items(signal[s].listeners) \/ Apt(l, s, signal', promise')
  <2> SUFFICES ASSUME NEW l \in Items(m.listeners)
               PROVE  l \in Items(signal[s].listeners) \/ Apt(l, s, signal', promise')
    OBVIOUS
  <2>1. CASE l.what = "timer" /\ l.ref = nextId
    BY <1>2, <2>1 DEF Apt
  <2>2. CASE l.what = "reject" /\ l.ref = p
    BY <1>8, <2>2 DEF Apt
  <2> QED BY <1>4, <1>6, <2>1, <2>2
<1>10. Growing(signal, signal', promise', {})
  BY <1>5, <1>7, <1>9, InvParts, GrowOne
<1>11. signal'[s] = m
  <2>1. m \in SignalRec
    BY <1>7 DEF Grows
  <2> QED BY <1>5, <2>1, InvParts, PutFacts
<1>12. Tells(signal', firing', s, "timer", nextId) /\ Tells(signal', firing', s, "reject", p)
  BY <1>6, <1>7, <1>11 DEF Tells
<1>13. [TM!TimerNext]_TM!timerVars /\ QueueMove({p})
  <2>1. Once \in {Once, delay} /\ p \in (0 .. MaxPromise) \cup Signal
    BY Kinds
  <2> QED BY <2>1, QueueGains
<1>14. /\ \A d \in Id \cap {p} : promise'[d].by = "timer"
       /\ \A c \in Signal \cap {p} : signal'[c].by = "timeout"
  BY <1>8, Kinds
<1>15. /\ guard' \subseteq Guards
       /\ \A g \in guard' \ guard : Guarding(g, signal', firing', promise', micro', cancelled')
  BY <1>2, <1>8, <1>12, WaitGuards
<1>16. {} \in SUBSET Signal /\ firing' = firing
  OBVIOUS
<1> QED BY <1>8, <1>10, <1>13, <1>14, <1>15, <1>16, MadeWith

LEMMA SignalWaitCase ==
  ASSUME AbortInv, WaitWithSignal  PROVE AbortInv'
<1>1. PICK s \in Signal, p \in Id, delay \in Delay :
        /\ Calls("signalWait") /\ Usable(s) /\ Fresh(p) /\ Room(s, 2)
        /\ promise' = [promise EXCEPT ![p] = Pending("timer")]
        /\ IF Aborted(s)
           THEN /\ micro' = Append(micro, Given(Callback("cap", p, "err", 0), signal[s].reason))
                /\ Guarded(s, 0, p)
                /\ UNCHANGED <<signal, heap, nextId, nextSeq>>
           ELSE /\ TM!Schedule(delay, Once, p)
                /\ signal' = [signal EXCEPT ![s] = Heard(Heard(@, "reject", p), "timer", nextId)]
                /\ Guarded(s, nextId, p)
                /\ UNCHANGED micro
        /\ UNCHANGED <<stack, co, dropped, firing, cancelled, now, running, last>>
  BY Zenon DEF WaitWithSignal
<1>2. calls' \in Nat /\ loop' = loop
  BY <1>1, CallsFacts
<1>3. ~Born(p) /\ UNCHANGED <<stack, co, loop, dropped, firing, cancelled, now, running, last>>
  BY <1>1, <1>2 DEF Fresh, Next1
<1>4. CASE Aborted(s)
  <2>1. signal[s].reason \in Value
    BY InvParts DEF SignalRec
  <2>2. UNCHANGED <<signal, timerVars>> /\ Guarded(s, 0, p)
    BY <1>1, <1>4 DEF timerVars
  <2>3. micro' = Append(micro, Given(Callback("cap", p, "err", 0), signal[s].reason))
    BY <1>1, <1>4
  <2>4. promise' = [promise EXCEPT ![p] = Pending("timer")]
    BY <1>1
  <2> QED BY <1>2, <1>3, <2>1, <2>2, <2>3, <2>4, WaitGone
<1>5. CASE ~Aborted(s)
  <2>1. signal[s].st = "live" /\ signal[s].next + 2 <= MaxToken
    BY <1>1, <1>5 DEF Room, Usable, Aborted
  <2>2. TM!Schedule(delay, Once, p) /\ Guarded(s, nextId, p) /\ micro' = micro
    BY <1>1, <1>5
  <2>3. Puts(signal, s, Heard(Heard(signal[s], "reject", p), "timer", nextId), signal')
    BY <1>1, <1>5 DEF Puts
  <2>4. promise' = [promise EXCEPT ![p] = Pending("timer")]
    BY <1>1
  <2> QED BY <1>2, <1>3, <2>1, <2>2, <2>3, <2>4, WaitHeard
<1> QED BY <1>4, <1>5

(***************************************************************************)
(* Aborting.                                                               *)
(***************************************************************************)

(* Aborting a signal, where its abort is the last or one fires it.         *)
LEMMA EndsMove ==
  ASSUME AbortInv, NEW left, Tidy(signal, left, promise), Len(left) = Cardinality(Aborts(stack)),
         NEW s \in Signal, NEW reason \in Value, AbortState(stack, left, s, reason),
         Caused(signal, s, reason),
         \A c \in Signal : c # s \/ signal[s].st # "live" => FollowsAt(signal, left, c),
         \A a \in Signal : \A ref : /\ Heeds(signal, firing, signal, left, a, "timer", ref)
                                    /\ Heeds(signal, firing, signal, left, a, "reject", ref),
         calls' \in Nat, UNCHANGED <<promise, micro, co, loop, dropped, guard, timerVars>>
  PROVE  AbortInv'
<1>1. [TM!TimerNext]_TM!timerVars /\ QueueMove({}) /\ running' = running
  BY QueueAlone
<1>2. guard' \subseteq Guards /\ guard' \ guard = {}
  BY InvParts
<1>3. CASE signal[s].st = "live"
  <2>1. Ends(signal, left, s, reason, signal', firing') /\ stack' = Append(stack, Call("abort", 0))
    BY <1>3 DEF AbortState, Ends
  <2>2. LoopGoes /\ Cardinality(Aborts(stack')) = Cardinality(Aborts(stack)) + 1
    <3>1. "abort" \in {"abort", "quiet"}
      OBVIOUS
    <3> QED BY <1>1, <2>1, <3>1, InvParts, CallStarts
  <2>3. \A c \in Signal \ {s} : FollowsAt(signal, left, c)
    OBVIOUS
  <2>4. /\ Tidy(signal', firing', promise) /\ Follows(signal', firing')
        /\ Kept(signal, left, signal', firing')
    BY <2>1, <2>3, EndsStep
  <2>5. /\ Len(firing') = Len(left) + 1
        /\ signal'[s].by = signal[s].by /\ \A a \in Signal \ {s} : signal'[a] = signal[a]
    BY <2>1, EndsFacts
  <2>6. \A a \in Signal : signal[a].by = "timeout" => signal'[a].by = "timeout"
    BY <2>5
  <2>7. Told
    <3>1. "timer" \in What \ {"script"} /\ "reject" \in What \ {"script"}
      BY DEF What
    <3>2. \A a \in Signal : \A ref : /\ Heeds(signal, left, signal', firing', a, "timer", ref)
                                     /\ Heeds(signal, left, signal', firing', a, "reject", ref)
      BY <2>4, <3>1 DEF Kept
    <3> QED BY <3>2 DEF Told, Heeds
  <2>8. Tidy(signal', firing', promise')
    BY <2>4
  <2>9. Len(firing') = Cardinality(Aborts(stack'))
    BY <2>2, <2>5
  <2>10. /\ \A d \in Id \cap {} : promise'[d].by = "timer"
         /\ \A c \in Signal \cap {} : signal'[c].by = "timeout"
    OBVIOUS
  <2> QED BY <1>1, <1>2, <2>2, <2>4, <2>6, <2>7, <2>8, <2>9, <2>10, Rejoin
<1>4. CASE signal[s].st # "live"
  <2>1. stack' = stack /\ firing' = left /\ signal' = signal
    BY <1>4 DEF AbortState
  <2>2. LoopGoes /\ Aborts(stack') = Aborts(stack)
    BY <1>1, <2>1, InvParts, AloneStep
  <2>3. Tidy(signal', firing', promise') /\ Follows(signal', firing') /\ Told
    BY <1>4, <2>1 DEF Follows, Told
  <2>4. /\ Len(firing') = Cardinality(Aborts(stack'))
        /\ \A a \in Signal : signal[a].by = "timeout" => signal'[a].by = "timeout"
        /\ \A d \in Id \cap {} : promise'[d].by = "timer"
        /\ \A c \in Signal \cap {} : signal'[c].by = "timeout"
    BY <2>1, <2>2
  <2> QED BY <1>1, <1>2, <2>2, <2>3, <2>4, Rejoin
<1> QED BY <1>3, <1>4

LEMMA AbortCase ==
  ASSUME AbortInv, Abort  PROVE AbortInv'
<1>1. PICK s \in Signal, reason \in Passable :
        /\ Calls("abort") /\ Usable(s) /\ signal[s].by = "controller"
        /\ AbortState(stack, firing, s, reason)
        /\ UNCHANGED <<promise, micro, co, dropped, guard, timerVars>>
  BY DEF Abort
<1>2. calls' \in Nat /\ UNCHANGED <<promise, micro, co, loop, dropped, guard, timerVars>>
  BY <1>1, CallsFacts
<1>3. reason \in Value
  BY PassableFacts, InvParts, BaseParts
<1>4. Caused(signal, s, reason)
  BY <1>1 DEF Caused
<1>5. /\ \A c \in Signal : FollowsAt(signal, firing, c)
      /\ \A a \in Signal : \A ref : /\ Heeds(signal, firing, signal, firing, a, "timer", ref)
                                    /\ Heeds(signal, firing, signal, firing, a, "reject", ref)
  BY InvParts, KeptRefl DEF Follows
<1>6. AbortState(stack, firing, s, reason)
  BY <1>1
<1> QED BY <1>2, <1>3, <1>4, <1>5, <1>6, InvParts, EndsMove

(* An abort in progress is one of those that fire.                         *)
LEMMA AbortGoing ==
  ASSUME AbortInv, InAbort
  PROVE  firing # << >> /\ LastFiring = Last(firing) /\ FiringRest = Front(firing) /\ stack # << >>
<1>1. stack # << >> /\ Top.op = "abort"
  BY DEF InAbort
<1>2. Top \in Act /\ Rest \in Seq(Act) /\ Pushes(stack, Rest, Top)
  BY <1>1, InvParts, BaseParts
<1>3. Cardinality(Aborts(stack)) = Cardinality(Aborts(Rest)) + 1 /\ Cardinality(Aborts(Rest)) \in Nat
  BY <1>1, <1>2, AbortsMore
<1>4. Len(firing) # 0
  BY <1>3, InvParts
<1>5. firing # << >>
  BY <1>4
<1> QED BY <1>1, <1>5 DEF LastFiring, FiringRest, Last, Front

LEMMA AbortReturnsCase ==
  ASSUME AbortInv, AbortReturns  PROVE AbortInv'
<1>1. /\ InAbort /\ LastFiring.listeners = << >> /\ stack' = Rest /\ firing' = FiringRest
      /\ UNCHANGED <<promise, micro, co, calls, loop, dropped, guard, signal, timerVars>>
  BY DEF AbortReturns
<1>2. /\ firing # << >> /\ Last(firing).listeners = << >> /\ firing' = Front(firing)
      /\ stack # << >> /\ Top.op = "abort"
  BY <1>1, AbortGoing DEF InAbort
<1>3. /\ Tidy(signal, firing', promise) /\ Kept(signal, firing, signal, firing')
      /\ Len(firing') = Len(firing) - 1 /\ Follows(signal, firing')
  BY <1>2, InvParts, PopFiring
<1>4. [TM!TimerNext]_TM!timerVars /\ QueueMove({}) /\ running' = running
  BY <1>1, QueueAlone
<1>5. LoopGoes /\ Cardinality(Aborts(stack')) = Cardinality(Aborts(stack)) - 1
  BY <1>1, <1>2, <1>4, InvParts, CallReturns
<1>6. Tidy(signal', firing', promise') /\ Follows(signal', firing') /\ Told
  BY <1>1, <1>3, KeptTold
<1>7. /\ guard' \subseteq Guards /\ guard' \ guard = {} /\ Len(firing') = Cardinality(Aborts(stack'))
      /\ \A a \in Signal : signal[a].by = "timeout" => signal'[a].by = "timeout"
  BY <1>1, <1>3, <1>5, InvParts
<1> QED BY <1>4, <1>5, <1>6, <1>7, Rejoin

(* The last abort fires its first listener l, which aborts nothing.        *)
LEMMA TakenMove ==
  ASSUME AbortInv, firing # << >>, Last(firing).listeners # << >>, Takes(firing, firing'),
         NEW l, l = Head(Last(firing).listeners), l.what # "signal",
         l.what = "timer" => l.ref \in cancelled',
         l.what = "reject" => Closing(promise', micro', l.ref),
         LoopGoes, Aborts(stack') = Aborts(stack), [TM!TimerNext]_TM!timerVars, QueueMove({}),
         UNCHANGED <<signal, guard>>
  PROVE  AbortInv'
<1>1. /\ Tidy(signal, firing', promise) /\ Len(firing') = Len(firing)
      /\ \A a \in Signal : \A what, ref :
            Heeds(signal, firing, signal, firing', a, what, ref) \/ (what = l.what /\ ref = l.ref)
      /\ \A c \in Signal : FollowsAt(signal, firing, c) => FollowsAt(signal, firing', c)
  <2>1. PICK k \in Listener, s \in Signal :
           /\ k = Head(Last(firing).listeners) /\ s = Last(firing).s
           /\ Apt(k, s, signal, promise) /\ signal[s].st = "aborted" /\ Tidy(signal, firing', promise)
           /\ Len(firing') = Len(firing)
           /\ \A a \in Signal : \A what, ref :
                 Heeds(signal, firing, signal, firing', a, what, ref) \/ (a = s /\ what = k.what /\ ref = k.ref)
           /\ \A c \in Signal : FollowsAt(signal, firing, c) =>
                 FollowsAt(signal, firing', c) \/ (k.what = "signal" /\ k.ref = c /\ signal[c].st = "live")
    BY InvParts, TakeStep
  <2> QED BY <2>1
<1>2. Stays(promise, promise')
  BY DEF LoopGoes
<1>3. Tidy(signal', firing', promise') /\ Follows(signal', firing')
  <2>1. Tidy(signal, firing', promise')
    BY <1>1, <1>2, TidySame
  <2>2. Follows(signal, firing')
    BY <1>1, InvParts DEF Follows
  <2> QED BY <2>1, <2>2
<1>4. Told
  <2> SUFFICES ASSUME NEW a \in Signal, NEW ref
               PROVE  /\ Heeds(signal, firing, signal, firing', a, "timer", ref) \/ ref \in cancelled'
                      /\ Heeds(signal, firing, signal, firing', a, "reject", ref) \/ Closing(promise', micro', ref)
    BY DEF Told
  <2>1. Heeds(signal, firing, signal, firing', a, "timer", ref) \/ ("timer" = l.what /\ ref = l.ref)
    BY <1>1
  <2>2. Heeds(signal, firing, signal, firing', a, "reject", ref) \/ ("reject" = l.what /\ ref = l.ref)
    BY <1>1
  <2> QED BY <2>1, <2>2
<1>5. /\ guard' \subseteq Guards /\ guard' \ guard = {} /\ Len(firing') = Cardinality(Aborts(stack'))
      /\ \A a \in Signal : signal[a].by = "timeout" => signal'[a].by = "timeout"
  BY <1>1, InvParts
<1> QED BY <1>3, <1>4, <1>5, Rejoin

LEMMA FireCase ==
  ASSUME AbortInv, FireListener  PROVE AbortInv'
<1> DEFINE l == Head(Last(firing).listeners)
           s == Last(firing).s
           left == Append(Front(firing), [Last(firing) EXCEPT !.listeners = Tail(@)])
<1>1. InAbort /\ LastFiring.listeners # << >>
  BY DEF FireListener
<1>2. firing # << >> /\ LastFiring = Last(firing) /\ FiringRest = Front(firing)
  BY <1>1, AbortGoing
<1>3. Last(firing).listeners # << >>
  BY <1>1, <1>2
<1>4. /\ FireNext(l, left)
      /\ UNCHANGED <<co, calls, loop, dropped, guard, heap, nextId, nextSeq, now, running, last>>
  BY <1>2 DEF FireListener
<1>5. Takes(firing, left)
  BY DEF Takes
<1> HIDE DEF left
<1>6. /\ l \in Listener /\ s \in Signal
      /\ Apt(l, s, signal, promise) /\ signal[s].st = "aborted" /\ Tidy(signal, left, promise)
      /\ Len(left) = Len(firing)
      /\ \A a \in Signal : \A what, ref :
            Heeds(signal, firing, signal, left, a, what, ref) \/ (a = s /\ what = l.what /\ ref = l.ref)
      /\ \A c \in Signal : FollowsAt(signal, firing, c) =>
            FollowsAt(signal, left, c) \/ (l.what = "signal" /\ l.ref = c /\ signal[c].st = "live")
  BY <1>2, <1>3, <1>5, InvParts, TakeStep
<1>7. signal[s].reason \in Value /\ calls' \in Nat
  BY <1>4, <1>6, InvParts DEF SignalRec
<1>8. UNCHANGED <<co, loop, dropped, running, guard>>
  BY <1>4
<1>9. CASE l.what = "script"
  <2>1. /\ stack' = Append(stack, Call("quiet", 0)) /\ firing' = left
        /\ UNCHANGED <<signal, promise, micro, cancelled>>
    BY <1>2, <1>4, <1>9 DEF FireNext
  <2>2. "quiet" \in {"abort", "quiet"} /\ "quiet" # "abort"
    OBVIOUS
  <2>3. LoopGoes /\ Aborts(stack') = Aborts(stack)
    BY <1>7, <1>8, <2>1, <2>2, InvParts, CallStarts
  <2>4. [TM!TimerNext]_TM!timerVars /\ QueueMove({})
    BY <1>4, <2>1, QueueAlone DEF timerVars
  <2> HIDE DEF l
  <2> QED BY <1>2, <1>3, <1>5, <1>8, <1>9, <2>1, <2>3, <2>4, TakenMove DEF l
<1>10. CASE l.what = "timer"
  <2>1. TM!Cancel(l.ref) /\ firing' = left /\ UNCHANGED <<signal, stack, promise, micro>>
    BY <1>2, <1>4, <1>10 DEF FireNext
  <2>2. l.ref \in TM!TimerId
    BY <1>6, <1>10 DEF Apt
  <2>3. LoopGoes /\ Aborts(stack') = Aborts(stack)
    BY <1>7, <1>8, <2>1, InvParts, AloneStep
  <2>4. [TM!TimerNext]_TM!timerVars /\ QueueMove({}) /\ l.ref \in cancelled'
    <3>1. UNCHANGED <<heap, nextId, nextSeq, now, running, last>> /\ TM!Cancel(l.ref)
      BY <1>4, <2>1
    <3> QED BY <2>2, <3>1, QueueCancels
  <2> QED BY <1>2, <1>3, <1>5, <1>8, <1>10, <2>1, <2>3, <2>4, TakenMove
<1>11. CASE l.what = "reject"
  <2>1. /\ SettleAfter(micro, l.ref, "err", signal[s].reason) /\ firing' = left
        /\ UNCHANGED <<signal, stack, cancelled>>
    BY <1>2, <1>4, <1>11 DEF FireNext
  <2>2. l.ref \in Id /\ promise[l.ref].by \in {"timer", "signal"}
    BY <1>6, <1>11 DEF Apt
  <2>3. LoopGoes /\ Aborts(stack') = Aborts(stack) /\ Closing(promise', micro', l.ref)
    BY <1>7, <1>8, <2>1, <2>2, InvParts, SignalRejects
  <2>4. [TM!TimerNext]_TM!timerVars /\ QueueMove({})
    BY <1>4, <2>1, QueueAlone DEF timerVars
  <2> QED BY <1>2, <1>3, <1>5, <1>8, <1>11, <2>1, <2>3, <2>4, TakenMove
<1>12. CASE l.what = "signal"
  <2>1. AbortState(stack, left, l.ref, signal[s].reason) /\ UNCHANGED <<promise, micro, cancelled>>
    BY <1>2, <1>4, <1>12 DEF FireNext
  <2>2. l.ref \in Signal /\ signal[l.ref].by = "any" /\ s \in signal[l.ref].of
    BY <1>6, <1>12 DEF Apt
  <2>3. Caused(signal, l.ref, signal[s].reason)
    BY <1>6, <2>2 DEF Caused
  <2>4. \A c \in Signal : c # l.ref \/ signal[l.ref].st # "live" => FollowsAt(signal, left, c)
    BY <1>6, InvParts DEF Follows
  <2>5. \A a \in Signal : \A ref : /\ Heeds(signal, firing, signal, left, a, "timer", ref)
                                   /\ Heeds(signal, firing, signal, left, a, "reject", ref)
    <3> SUFFICES ASSUME NEW a \in Signal, NEW ref
                 PROVE  /\ Heeds(signal, firing, signal, left, a, "timer", ref)
                        /\ Heeds(signal, firing, signal, left, a, "reject", ref)
      OBVIOUS
    <3>1. Heeds(signal, firing, signal, left, a, "timer", ref) \/ "timer" = l.what
      BY <1>6
    <3>2. Heeds(signal, firing, signal, left, a, "reject", ref) \/ "reject" = l.what
      BY <1>6
    <3> QED BY <1>12, <3>1, <3>2
  <2>6. UNCHANGED <<promise, micro, co, loop, dropped, guard, timerVars>>
    BY <1>4, <2>1 DEF timerVars
  <2>7. Len(left) = Cardinality(Aborts(stack)) /\ Tidy(signal, left, promise)
    BY <1>6, InvParts
  <2> QED BY <1>7, <2>1, <2>2, <2>3, <2>4, <2>5, <2>6, <2>7, EndsMove
<1> QED BY <1>6, <1>9, <1>10, <1>11, <1>12 DEF Listener

(* The task that aborts a signal is of one made for that.                  *)
LEMMA TimeoutTask ==
  ASSUME AbortInv, stack # << >>, Top.op = "wake", Top.p = 0
  PROVE  /\ running[Len(running)].task \in Signal
         /\ signal[running[Len(running)].task].by = "timeout"
<1> DEFINE k == Len(running)
           d == running[k].task
<1>1. Top \in Act /\ Rest \in Seq(Act) /\ Pushes(stack, Rest, Top) /\ Nests(stack, running)
  BY InvParts, BaseParts
<1>2. running \in Seq(TP!Entry)
  BY InvParts, BaseParts, QueueFacts
<1>3. running # << >> /\ Top = TaskCall(d)
  <2>1. Top.op \in TimerOps /\ Nested(stack, running) /\ OnAwait(stack)
    BY <1>1 DEF TimerOps, Nests
  <2> QED BY <1>1, <1>2, <2>1, NestedEnd
<1>4. k \in DOMAIN running
  BY <1>2, <1>3
<1> HIDE DEF k
<1>5. d \in Signal
  <2>1. d \notin Id
    <3> SUFFICES ASSUME d \in Id  PROVE FALSE
      OBVIOUS
    <3>1. Top = Call("wake", d)
      BY <1>3 DEF TaskCall
    <3> QED BY <3>1, Kinds DEF Call, Callback
  <2> SUFFICES ASSUME d \notin Signal  PROVE FALSE
    OBVIOUS
  <2>2. Top = Call("timer", 0)
    BY <1>3, <2>1 DEF TaskCall
  <2> QED BY <2>2 DEF Call, Callback
<1>6. k \in InTask(d)
  BY <1>4 DEF InTask
<1>7. signal[d].by = "timeout"
  BY <1>5, <1>6, InvParts DEF ForTimeouts
<1> QED BY <1>5, <1>7 DEF k

LEMMA TimeoutFiresCase ==
  ASSUME AbortInv, TimeoutFires  PROVE AbortInv'
<1> DEFINE s == running[Len(running)].task
<1>1. /\ stack # << >> /\ Top.op = "wake" /\ Top.p = 0
      /\ IF signal[s].st = "live"
         THEN AbortState(stack, firing, s, HostError) /\ UNCHANGED timerVars
         ELSE stack' = Rest /\ TM!FinishOnce /\ UNCHANGED <<signal, firing>>
      /\ UNCHANGED <<promise, micro, co, calls, loop, dropped, guard>>
  BY DEF TimeoutFires
<1>2. s \in Signal /\ signal[s].by = "timeout"
  BY <1>1, TimeoutTask
<1> HIDE DEF s
<1>3. CASE signal[s].st = "live"
  <2>1. AbortState(stack, firing, s, HostError)
    BY <1>1, <1>3
  <2>2. UNCHANGED <<promise, micro, co, loop, dropped, guard, timerVars>> /\ calls' \in Nat
    BY <1>1, <1>3, InvParts
  <2>3. Caused(signal, s, HostError) /\ HostError \in Value
    BY <1>2, ValueFacts DEF Caused
  <2>4. /\ \A c \in Signal : FollowsAt(signal, firing, c)
        /\ \A a \in Signal : \A ref : /\ Heeds(signal, firing, signal, firing, a, "timer", ref)
                                      /\ Heeds(signal, firing, signal, firing, a, "reject", ref)
    BY InvParts, KeptRefl DEF Follows
  <2> QED BY <1>2, <2>1, <2>2, <2>3, <2>4, InvParts, EndsMove
<1>4. CASE signal[s].st # "live"
  <2>1. stack' = Rest /\ TM!FinishOnce /\ UNCHANGED <<signal, firing>>
    BY <1>1, <1>4
  <2>2. running' = TM!Below /\ [TM!TimerNext]_TM!timerVars /\ QueueMove({})
    BY <2>1 DEF TM!FinishOnce, TM!TimerNext, QueueMove
  <2>3. LoopGoes /\ Aborts(stack') = Aborts(stack)
    BY <1>1, <2>1, <2>2, InvParts, TimerReturns
  <2>4. Stays(promise, promise')
    BY <2>3 DEF LoopGoes
  <2>5. Tidy(signal', firing', promise') /\ Follows(signal', firing') /\ Told
    BY <2>1, <2>4, InvParts, SignalsAlone
  <2>6. /\ guard' \subseteq Guards /\ guard' \ guard = {} /\ Len(firing') = Cardinality(Aborts(stack'))
        /\ \A a \in Signal : signal[a].by = "timeout" => signal'[a].by = "timeout"
    BY <1>1, <2>1, <2>3, InvParts
  <2> QED BY <2>2, <2>3, <2>5, <2>6, Rejoin
<1> QED BY <1>3, <1>4

(***************************************************************************)
(* The rest of the loop, and the theorems.                                 *)
(***************************************************************************)

LEMMA AbortLoopCase ==
  ASSUME AbortInv, [LoopNext]_loopVars, UNCHANGED <<signal, firing, guard>>  PROVE AbortInv'
<1>1. LoopBase({}) /\ {} \in SUBSET OwnSettled /\ TP!TimerInv
  BY InvParts, BaseParts
<1>2. LoopBase({})'
  BY <1>1, BaseStep
<1>3. /\ Stays(promise, promise') /\ StillCloses(promise, micro, promise', micro')
      /\ cancelled \subseteq cancelled' /\ Aborts(stack') = Aborts(stack)
      /\ QueueMove(0 .. MaxPromise)
  BY <1>1, LoopHeeds, LoopAborts, LoopQueue
<1>4. Numbering'
  BY <1>1, <1>3, InvParts, NumberingMove
<1>5. ForTimeouts'
  <2>1. \A s \in Signal \cap (0 .. MaxPromise) : signal'[s].by = "timeout"
    BY SignalAssumption
  <2>2. \A s \in Signal : signal[s].by = "timeout" => signal'[s].by = "timeout"
    OBVIOUS
  <2> QED BY <1>1, <1>3, <2>1, <2>2, InvParts, TimeoutsMove
<1>6. Tidy(signal', firing', promise') /\ Follows(signal', firing')
  BY <1>3, InvParts, SignalsAlone
<1>7. guard' \subseteq Guards /\ Len(firing') = Cardinality(Aborts(stack'))
  BY <1>3, InvParts
<1>8. ASSUME NEW g \in guard'  PROVE Guarding(g, signal', firing', promise', micro', cancelled')
  <2>1. g \in [s : Signal, id : TM!TimerId, p : 0 .. MaxPromise]
    BY <1>7, <1>8 DEF Guards
  <2>2. Guarding(g, signal, firing, promise, micro, cancelled)
    BY <1>8 DEF AbortInv, SignalInv
  <2>3. \A what, ref : Heeds(signal, firing, signal', firing', g.s, what, ref)
    BY KeptRefl
  <2>4. /\ \A ref : Heeds(signal, firing, signal', firing', g.s, "timer", ref) \/ ref \in cancelled'
        /\ \A ref : \/ Heeds(signal, firing, signal', firing', g.s, "reject", ref)
                    \/ Closing(promise', micro', ref)
    BY <2>3
  <2> QED BY <1>3, <2>1, <2>2, <2>4, GuardStep
<1> QED BY <1>2, <1>4, <1>5, <1>6, <1>7, <1>8 DEF AbortInv, SignalInv, Guards

LEMMA AbortStep ==
  ASSUME AbortInv, [AbortNext]_abortVars  PROVE AbortInv'
<1>1. CASE SignalCall
  BY <1>1, ControllerCase, AbortCase, SubscribeCase, UnsubscribeCase, AnyCase, DropCase, TimeoutCase,
     SignalPromiseCase, TimerCase, SignalWaitCase DEF SignalCall
<1>2. CASE FireListener \/ AbortReturns \/ TimeoutFires
  BY <1>2, FireCase, AbortReturnsCase, TimeoutFiresCase
<1>3. CASE LoopNext /\ UNCHANGED <<signal, firing, guard>>
  BY <1>3, AbortLoopCase
<1>4. CASE UNCHANGED abortVars
  <2>1. UNCHANGED loopVars /\ UNCHANGED <<signal, firing, guard>>
    BY <1>4 DEF abortVars
  <2> QED BY <2>1, AbortLoopCase
<1> QED BY <1>1, <1>2, <1>3, <1>4 DEF AbortNext

LEMMA AbortInitInv ==
  ASSUME AbortInit  PROVE AbortInv
<1> DEFINE r == [NewSignal("controller", {}) EXCEPT !.st = "unborn"]
<1>1. LoopInit /\ signal = [s \in Signal |-> r] /\ firing = << >> /\ guard = {}
  BY DEF AbortInit
<1>2. LoopBase({}) /\ TP!TimerInv
  <2>1. {} \in SUBSET OwnSettled
    OBVIOUS
  <2>2. LoopBase({})
    BY <1>1, <2>1, BaseInit
  <2> QED BY <2>2 DEF LoopBase
<1>3. /\ r \in SignalRec /\ r.st = "unborn" /\ r.by = "controller" /\ r.listeners = << >> /\ r.of = {}
  <2>1. << >> \in Seq(Listener) /\ Undef \in Value /\ 0 \in 0 .. MaxPromise /\ 0 \in 0 .. MaxToken
    BY ValueFacts, SignalAssumption, EmptyList
  <2> QED BY <2>1 DEF NewSignal, SignalRec
<1> HIDE DEF r
<1>4. signal \in [Signal -> SignalRec] /\ \A s \in Signal : signal[s] = r
  BY <1>1, <1>3
<1>5. firing \in Seq(Firing) /\ DOMAIN firing = {} /\ Len(firing) = 0
  BY <1>1
<1>6. Numbered(r) /\ Silent(r) /\ Items(r.listeners) = {}
  BY <1>3, EmptyList DEF Numbered, Silent
<1>7. Tidy(signal, firing, promise)
  BY <1>3, <1>4, <1>5, <1>6 DEF Tidy
<1>8. Follows(signal, firing)
  BY <1>3, <1>4 DEF Follows, FollowsAt
<1>9. heap = {} /\ running = << >> /\ nextId = 1 /\ nextSeq = 0 /\ stack = <<Call("script", 0)>>
  BY <1>1 DEF LoopInit, TM!TimerInit, PromiseInit
<1>10. Numbering /\ ForTimeouts
  BY <1>9, QueueAssumptions DEF Numbering, ForTimeouts, Due, InTask
<1>11. Cardinality(Aborts(stack)) = 0
  <2>1. Call("script", 0).op = "script"
    BY DEF Call, Callback
  <2>2. Aborts(stack) = {}
    BY <1>9, <2>1 DEF Aborts
  <2> QED BY <2>2, FS_EmptySet
<1> QED BY <1>1, <1>2, <1>5, <1>7, <1>8, <1>10, <1>11 DEF AbortInv, SignalInv

LEMMA AbortHolds == AbortSpec => []AbortInv
BY AbortInitInv, AbortStep, PTL DEF AbortSpec

(* As many tokens as listeners, when none is given twice.                  *)
LEMMA TokensCount ==
  ASSUME NEW r \in SignalRec, Numbered(r)
  PROVE  /\ Cardinality(Tokens(r.listeners)) = Len(r.listeners)
         /\ \A t \in Tokens(r.listeners) : t < r.next
<1> DEFINE ls == r.listeners
           f == [i \in 1 .. Len(ls) |-> ls[i].token]
<1>1. ls \in Seq(Listener) /\ Len(ls) \in Nat /\ DOMAIN ls = 1 .. Len(ls)
  BY DEF SignalRec
<1>2. f \in [1 .. Len(ls) -> Tokens(ls)]
  BY <1>1 DEF Tokens
<1>3. \A t \in Tokens(ls) : \E i \in 1 .. Len(ls) : f[i] = t
  BY <1>1 DEF Tokens
<1>4. \A i, j \in 1 .. Len(ls) : f[i] = f[j] => i = j
  BY <1>1 DEF Numbered
<1>5. f \in Bijection(1 .. Len(ls), Tokens(ls))
  <2>1. f \in Injection(1 .. Len(ls), Tokens(ls))
    BY <1>2, <1>4 DEF Injection, IsInjective
  <2>2. f \in Surjection(1 .. Len(ls), Tokens(ls))
    BY <1>2, <1>3 DEF Surjection
  <2> QED BY <2>1, <2>2 DEF Bijection
<1>6. IsFiniteSet(1 .. Len(ls)) /\ Cardinality(1 .. Len(ls)) = Len(ls)
  <2>1. \A n \in Nat : IsFiniteSet(1 .. n) /\ Cardinality(1 .. n) = n
    <3> SUFFICES ASSUME NEW n \in Nat  PROVE IsFiniteSet(1 .. n) /\ Cardinality(1 .. n) = n
      OBVIOUS
    <3>1. IsFiniteSet(1 .. n) /\ Cardinality(1 .. n) = IF 1 > n THEN 0 ELSE n - 1 + 1
      BY FS_Interval
    <3> QED BY <3>1
  <2> HIDE DEF ls
  <2> QED BY <1>1, <2>1
<1>7. ExistsBijection(1 .. Len(ls), Tokens(ls))
  BY <1>5 DEF ExistsBijection
<1>8. Cardinality(Tokens(ls)) = Len(ls)
  BY <1>6, <1>7, FS_Bijection
<1>9. \A t \in Tokens(ls) : t < r.next
  BY <1>1 DEF Tokens, Numbered
<1> QED BY <1>8, <1>9

LEMMA OnceImplied == ASSUME AbortInv  PROVE ListenersOnce
<1>1. Len(firing) = Cardinality({i \in DOMAIN stack : stack[i].op = "abort"})
  BY InvParts DEF Aborts
<1>2. ASSUME NEW s \in Signal
      PROVE  /\ Cardinality(InFiring(s)) <= (IF Aborted(s) THEN 1 ELSE 0)
             /\ Aborted(s) => signal[s].listeners = << >>
             /\ Cardinality(Tokens(signal[s].listeners)) = Len(signal[s].listeners)
             /\ \A t \in Tokens(signal[s].listeners) : t < signal[s].next
  <2>1. /\ signal[s] \in SignalRec /\ Numbered(signal[s]) /\ Silent(signal[s])
        /\ \A k \in DOMAIN firing :
              /\ signal[firing[k].s].st = "aborted"
              /\ \A j \in DOMAIN firing : firing[j].s = firing[k].s => j = k
    BY InvParts DEF Tidy
  <2>2. InFiring(s) = {} \/ (Aborted(s) /\ \E k : InFiring(s) = {k})
    <3> SUFFICES ASSUME NEW k \in InFiring(s)  PROVE Aborted(s) /\ InFiring(s) = {k}
      OBVIOUS
    <3>1. k \in DOMAIN firing /\ firing[k].s = s
      BY DEF InFiring
    <3> QED BY <2>1, <3>1 DEF InFiring, Aborted
  <2>3. Cardinality({}) = 0 /\ \A k : Cardinality({k}) = 1
    BY FS_EmptySet, FS_Singleton
  <2>4. Cardinality(InFiring(s)) <= (IF Aborted(s) THEN 1 ELSE 0)
    <3>1. Cardinality(InFiring(s)) = 0 \/ (Aborted(s) /\ Cardinality(InFiring(s)) = 1)
      BY <2>2, <2>3, Zenon
    <3> QED BY <3>1
  <2> QED BY <2>1, <2>4, TokensCount DEF Silent, Aborted
<1> QED BY <1>1, <1>2 DEF ListenersOnce

LEMMA FollowsImplied == ASSUME AbortInv  PROVE CombinedFollows
<1> SUFFICES ASSUME NEW s \in Signal, signal[s].by = "any"
             PROVE  /\ Aborted(s) => \E a \in signal[s].of : signal[a].reason = signal[s].reason /\ signal[a].st # "live"
                    /\ signal[s].st = "live" =>
                          \A a \in signal[s].of : Aborted(a) => InFiring(a) # {}
  BY DEF CombinedFollows
<1>1. FollowsAt(signal, firing, s)
  BY InvParts DEF Follows
<1>2. ASSUME Aborted(s)
      PROVE  \E a \in signal[s].of : signal[a].reason = signal[s].reason /\ signal[a].st # "live"
  <2>1. PICK a \in signal[s].of : signal[a].reason = signal[s].reason /\ signal[a].st \notin {"live", "unborn"}
    BY <1>1, <1>2 DEF FollowsAt, Aborted
  <2> QED BY <2>1
<1>3. ASSUME signal[s].st = "live", NEW a \in signal[s].of, Aborted(a)  PROVE InFiring(a) # {}
  <2>1. Tells(signal, firing, a, "signal", s)
    BY <1>1, <1>3 DEF FollowsAt
  <2>2. PICK k \in DOMAIN firing : firing[k].s = a
    BY <1>3, <2>1 DEF Tells, Aborted
  <2> QED BY <2>2 DEF InFiring
<1> QED BY <1>2, <1>3

LEMMA ReachesImplied == ASSUME AbortInv  PROVE AbortReaches
<1> SUFFICES ASSUME NEW g \in guard, Aborted(g.s), InFiring(g.s) = {}
             PROVE  /\ \A e \in heap : e.id = g.id => ~TM!Live(e)
                    /\ g.p # 0 => promise[g.p].st # "pending" \/ Queued(g.p) # {}
  BY DEF AbortReaches
<1>1. Guarding(g, signal, firing, promise, micro, cancelled)
  BY DEF AbortInv, SignalInv
<1>2. \A what, ref : ~Tells(signal, firing, g.s, what, ref)
  BY DEF Tells, Aborted, InFiring
<1>3. ASSUME NEW e \in heap, e.id = g.id  PROVE ~TM!Live(e)
  <2>1. g.id # 0
    BY <1>3, InvParts DEF Numbering
  <2> QED BY <1>1, <1>2, <1>3, <2>1 DEF Guarding, TM!Live
<1>4. ASSUME g.p # 0  PROVE promise[g.p].st # "pending" \/ Queued(g.p) # {}
  <2>1. Closing(promise, micro, g.p)
    BY <1>1, <1>2, <1>4 DEF Guarding
  <2> QED BY <2>1 DEF Closing, Queued
<1> QED BY <1>3, <1>4

(* Each listener fires at most once and none is left behind, however       *)
(* aborts nest in listeners, awaits and one another.                       *)
THEOREM AbortsFireOnce == AbortSpec => []ListenersOnce
BY AbortHolds, OnceImplied, PTL

(* A combined signal is aborted for the reason of a source, and while it   *)
(* is live it still is to hear of each source that was aborted.            *)
THEOREM AbortsCombine == AbortSpec => []CombinedFollows
BY AbortHolds, FollowsImplied, PTL

(* Once an abort has returned no timer made with its signal is to fire,    *)
(* and no promise made with it is left without a settlement on its way.    *)
THEOREM AbortsReach == AbortSpec => []AbortReaches
BY AbortHolds, ReachesImplied, PTL

(* Signals, which settle promises from outside, lose no wakeup: whatever   *)
(* they do each promise keeps its one obligation and each coroutine its    *)
(* one resumption.                                                         *)
THEOREM AbortsLoseNoWakeup == AbortSpec => [](OneObligation /\ SuspendedAwaitsResume)
<1>1. AbortInv => OneObligation /\ SuspendedAwaitsResume
  BY BaseParts, ObligationImplies DEF AbortInv
<1> QED BY <1>1, AbortHolds, PTL

(* Whatever a step of signals does to the queue of timers is one of the    *)
(* queue's operations.                                                     *)
LEMMA AbortQueueStep ==
  ASSUME AbortInv, [AbortNext]_abortVars  PROVE [TM!TimerNext]_TM!timerVars
<1>1. CASE UNCHANGED timerVars
  BY <1>1, QueueAlone
<1>2. CASE LoopNext \/ UNCHANGED loopVars
  BY <1>2, QueueStep
<1>3. CASE TimeoutSignal
  <2>1. PICK s \in Signal, delay \in Delay :
          TM!Schedule(delay, Once, s) /\ UNCHANGED <<cancelled, now, running, last>>
    BY <1>3 DEF TimeoutSignal
  <2> QED BY <2>1, QueueGains
<1>4. CASE SetTimerWithSignal
  <2>1. UNCHANGED <<cancelled, now, running, last>>
    BY <1>4 DEF SetTimerWithSignal
  <2>2. \/ UNCHANGED <<heap, nextId, nextSeq>>
        \/ \E delay \in Delay : \E every \in {Once, delay} : TM!Schedule(delay, every, 0)
    BY <1>4 DEF SetTimerWithSignal
  <2>3. 0 \in (0 .. MaxPromise) \cup Signal
    BY Kinds
  <2> QED BY <2>1, <2>2, <2>3, QueueGains DEF TM!timerVars
<1>5. CASE WaitWithSignal
  <2>1. UNCHANGED <<cancelled, now, running, last>>
    BY <1>5 DEF WaitWithSignal
  <2>2. \/ UNCHANGED <<heap, nextId, nextSeq>>
        \/ \E p \in Id, delay \in Delay : TM!Schedule(delay, Once, p)
    BY <1>5 DEF WaitWithSignal
  <2>3. Id \subseteq (0 .. MaxPromise) \cup Signal
    BY Kinds
  <2> QED BY <2>1, <2>2, <2>3, QueueGains DEF TM!timerVars
<1>6. CASE TimeoutFires
  <2>1. TM!FinishOnce \/ UNCHANGED timerVars
    BY <1>6 DEF TimeoutFires
  <2> QED BY <1>1, <2>1 DEF TM!TimerNext
<1>7. CASE FireListener
  <2> DEFINE l == Head(Last(firing).listeners)
             left == Append(Front(firing), [Last(firing) EXCEPT !.listeners = Tail(@)])
  <2>1. InAbort /\ LastFiring.listeners # << >>
    BY <1>7 DEF FireListener
  <2>2. firing # << >> /\ LastFiring = Last(firing) /\ FiringRest = Front(firing)
    BY <2>1, AbortGoing
  <2>3. FireNext(l, left) /\ UNCHANGED <<heap, nextId, nextSeq, now, running, last>>
    BY <1>7, <2>2 DEF FireListener
  <2>4. Takes(firing, left) /\ Last(firing).listeners # << >>
    BY <2>1, <2>2 DEF Takes
  <2> HIDE DEF left
  <2>5. Apt(l, Last(firing).s, signal, promise)
    BY <2>2, <2>4, InvParts, TakeStep
  <2>6. cancelled' = cancelled \/ (l.what = "timer" /\ TM!Cancel(l.ref))
    BY <2>3 DEF FireNext
  <2>7. cancelled' = cancelled \/ \E id \in TM!TimerId : TM!Cancel(id)
    BY <2>5, <2>6 DEF Apt
  <2> QED BY <2>3, <2>7, QueueCancels DEF TM!timerVars
<1>8. CASE NewController \/ Abort \/ Subscribe \/ Unsubscribe
  BY <1>1, <1>8 DEF NewController, Abort, Subscribe, Unsubscribe
<1>9. CASE SignalAny
  BY <1>1, <1>9, Zenon DEF SignalAny
<1>10. CASE DropSignal \/ SignalPromise \/ AbortReturns
  BY <1>1, <1>10 DEF DropSignal, SignalPromise, AbortReturns
<1>11. UNCHANGED abortVars => UNCHANGED loopVars
  BY DEF abortVars
<1> QED BY <1>2, <1>3, <1>4, <1>5, <1>6, <1>7, <1>8, <1>9, <1>10, <1>11 DEF AbortNext, SignalCall

(* With signals that schedule, cancel and finish timers inside the aborts  *)
(* and awaits of one another, tasks still start in the order of their      *)
(* deadlines, and an interval still has one tick.                          *)
THEOREM AbortsKeepOrder == AbortSpec => [](FireOrder /\ TM!OneTick)
<1>1. AbortInv => FireOrder /\ TM!OneTick
  BY InvParts, BaseParts, QueueFacts DEF FireOrder
<1> QED BY <1>1, AbortHolds, PTL

(* A timer that an abort, or the program, cancelled neither starts nor     *)
(* re-arms, although it may be running, or due, while the abort fires.     *)
THEOREM AbortCancelIsFinal == AbortSpec => CancelSticks
<1> DEFINE Final == [TP!Sticks]_TM!timerVars
<1>1. AbortInv /\ [AbortNext]_abortVars => Final
  <2> SUFFICES ASSUME AbortInv, [AbortNext]_abortVars  PROVE Final
    OBVIOUS
  <2>1. TP!TimerInv
    BY InvParts, BaseParts
  <2>2. [TP!TimerNext]_TP!timerVars
    BY AbortQueueStep, SameQueue
  <2>3. [TP!Sticks]_TP!timerVars
    BY <2>1, <2>2, TP!StepSticks, QueueAssumptions
  <2> QED BY <2>3 DEF TP!timerVars, TM!timerVars
<1> QED BY <1>1, AbortHolds, PTL DEF AbortSpec, CancelSticks, TM!CancelSticks, TP!Sticks


(* A signal's promise is one birth, and is rejected once: by its listener. *)
LEMMA BornTable ==
  ASSUME AbortInv, SignalPromise  PROVE TableStep
<1>1. PICK s \in Signal, p \in Id :
        /\ Calls("signalPromise") /\ Usable(s) /\ Fresh(p) /\ Room(s, 1)
        /\ promise' = [promise EXCEPT ![p] = MadeOf(s)]
        /\ Puts(signal, s, Having(s, p), signal')
        /\ UNCHANGED <<micro, stack, co, dropped, firing, guard, timerVars>>
  BY MadeSignalPromise
<1>2. PromiseInv /\ signal[s].reason \in Value
  BY InvParts, BaseParts DEF SignalRec
<1>3. GoodRec(Pending("signal")) /\ Pending("signal") \in SoundRec /\ Pending("signal").st = "pending"
  BY FreshRecs DEF Origin, GoodRec
<1>4. /\ GoodRec(Closed(Pending("signal"), "rejected", signal[s].reason))
      /\ Closed(Pending("signal"), "rejected", signal[s].reason).st = "rejected"
  BY <1>2, <1>3, ClosedType
<1>5. GoodRec(MadeOf(s)) /\ MadeOf(s).st # "unborn"
  BY <1>3, <1>4 DEF MadeOf
<1> QED BY <1>1, <1>2, <1>5, BirthTable

LEMMA FireTable ==
  ASSUME AbortInv, FireListener  PROVE TableStep
<1> DEFINE l == Head(Last(firing).listeners)
           s == Last(firing).s
           left == Append(Front(firing), [Last(firing) EXCEPT !.listeners = Tail(@)])
<1>1. InAbort /\ LastFiring.listeners # << >>
  BY DEF FireListener
<1>2. firing # << >> /\ LastFiring = Last(firing) /\ FiringRest = Front(firing)
  BY <1>1, AbortGoing
<1>3. Last(firing).listeners # << >> /\ FireNext(l, left) /\ Takes(firing, left)
  BY <1>1, <1>2 DEF FireListener, Takes
<1> HIDE DEF left
<1>4. s \in Signal /\ Apt(l, s, signal, promise)
  BY <1>2, <1>3, InvParts, TakeStep
<1>5. PromiseInv /\ micro \in Seq(Safe) /\ signal[s].reason \in Value
  BY <1>4, InvParts, BaseParts DEF SignalRec
<1>6. \/ promise' = promise
      \/ l.what = "reject" /\ SettleAfter(micro, l.ref, "err", signal[s].reason)
  BY <1>2, <1>3 DEF FireNext
<1>7. ASSUME l.what = "reject", SettleAfter(micro, l.ref, "err", signal[s].reason)  PROVE TableStep
  <2>1. l.ref \in Id /\ "err" \in Side /\ Outcome(promise, "err", signal[s].reason).st # "unborn"
    BY <1>4, <1>7 DEF Apt, Side, Outcome
  <2> QED BY <1>5, <1>7, <2>1, SettleStep
<1> QED BY <1>5, <1>6, <1>7, SameTable

LEMMA AbortTable ==
  ASSUME AbortInv, [AbortNext]_abortVars  PROVE TableStep
<1>1. PromiseInv
  BY InvParts, BaseParts
<1>2. CASE LoopNext \/ UNCHANGED loopVars
  BY <1>1, <1>2, LoopTable
<1>3. CASE WaitWithSignal
  <2>1. PICK p \in Id : Fresh(p) /\ promise' = [promise EXCEPT ![p] = Pending("timer")]
    BY <1>3 DEF WaitWithSignal
  <2>2. GoodRec(Pending("timer")) /\ Pending("timer").st # "unborn"
    BY FreshRecs DEF Origin
  <2> QED BY <1>1, <2>1, <2>2, BirthTable
<1>4. CASE NewController \/ Abort \/ Subscribe \/ Unsubscribe \/ DropSignal \/ TimeoutSignal
           \/ SetTimerWithSignal \/ AbortReturns \/ TimeoutFires
  <2>1. promise' = promise
    BY <1>4 DEF NewController, Abort, Subscribe, Unsubscribe, DropSignal, TimeoutSignal,
                SetTimerWithSignal, AbortReturns, TimeoutFires
  <2> QED BY <1>1, <2>1, SameTable
<1>5. CASE SignalAny
  <2>1. promise' = promise
    BY <1>5, Zenon DEF SignalAny
  <2> QED BY <1>1, <2>1, SameTable
<1>6. UNCHANGED abortVars => UNCHANGED loopVars
  BY DEF abortVars
<1> QED BY <1>2, <1>3, <1>4, <1>5, <1>6, BornTable, FireTable DEF AbortNext, SignalCall

(* Signals, which settle promises from outside and make promises that are  *)
(* rejected at birth, still keep each outcome for ever: the loop with      *)
(* signals implements PromiseContract.                                     *)
THEOREM AbortsImplementContract == AbortSpec => ContractSpec
<1>1. AbortInit => Contract!Init
  BY ContractInit DEF AbortInit, LoopInit
<1>2. AbortInv /\ [AbortNext]_abortVars => [Contract!Next]_(Shown(promise))
  BY AbortTable, TableContract, InvParts, BaseParts
<1> QED BY <1>1, <1>2, AbortHolds, PTL DEF AbortSpec, ContractSpec, Contract!Spec, Shown

=============================================================================
