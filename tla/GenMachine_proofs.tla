------------------------- MODULE GenMachine_proofs -------------------------
(***************************************************************************)
(* What holds of the frame machine for every body, with any labels, any    *)
(* nesting of statements and any calls of next, return and throw: the      *)
(* types of the state, where completions land, that finally blocks are     *)
(* entered, that scopes go with their statements, and what for await takes *)
(* as its item.                                                            *)
(***************************************************************************)
EXTENDS GenMachine, SequenceTheorems, WellFoundedInduction, TLAPS

(* The frames of fs at which a completion of this type and label would     *)
(* stop.                                                                   *)
Stoppers(fs, type, label) ==
    {i \in DOMAIN fs :
        \/ type = "throw" /\ fs[i].st = "trying" /\ fs[i].catch
        \/ type \in {"break", "continue"} /\ fs[i].kind \in Loops /\ label \in {Anon, fs[i].label}
        \/ type = "break" /\ fs[i].kind = "block" /\ label # Anon /\ label = fs[i].label}

IsLast(m, S) == IF S = {} THEN m = 0 ELSE m \in S /\ \A i \in S : i <= m
Aimed(fs, c) == ~c.lost => IsLast(c.target, Stoppers(fs, c.type, c.label))

(* A frame is made one way: only blocks say whether they own a scope, only *)
(* try statements have a state, and the label the machine keeps is one of  *)
(* the names of a loop or a block.                                         *)
Shape(f) ==
    /\ f.kind # "block" => ~f.owns
    /\ f.kind = "try" <=> f.st # "none"
    /\ f.label # Anon => f.label \in f.names /\ f.kind \in Loops \cup {"block"}

(* The stack of frames.  A for await has asked for its next item only when *)
(* it is on top; a finally block holds a completion that is aimed below    *)
(* it; and there is room for the body of a loop and of a try statement.    *)
AimedUnder(fs, i, c) ==
    ~c.lost => IsLast(c.target, {j \in Stoppers(fs, c.type, c.label) : j < i})
GoodAt(fs, i) ==
    /\ Shape(fs[i])
    /\ i < Len(fs) /\ fs[i].kind \in Awaiting => fs[i].phase = "check"
    /\ fs[i].kind \in Loops \cup {"try"} => i < MaxFrames
    /\ fs[i].st = "finally" => AimedUnder(fs, i, fs[i].saved)
Good(fs) == \A i \in DOMAIN fs : GoodAt(fs, i)

(* The scopes sc are those of the frames in S.                             *)
OwnersOf(fs) == {i \in DOMAIN fs : Owns(fs[i])}
Lists(sc, S) ==
    /\ {sc[k] : k \in DOMAIN sc} = S
    /\ \A j, k \in DOMAIN sc : j < k => sc[j] < sc[k]
Matched(fs, sc) == Lists(sc, OwnersOf(fs))

Stack(fs, sc) ==
    /\ fs \in Seq(Frame) /\ Len(fs) <= MaxFrames /\ Good(fs)
    /\ sc \in Seq(1 .. MaxFrames)

(* The inductive invariant: the stack, the completion that unwinds it, and *)
(* where the body may be suspended.                                        *)
StackOK == Stack(frames, scopes) /\ (~spoiled /\ mode # "done" => Matched(frames, scopes))
AimOK == unw \in Completion /\ (unw # Normal => mode = "running" /\ Aimed(frames, unw))
ModeOK ==
    /\ mode \in Suspended \cup {"running", "done"}
    /\ sent \in {"none", "start", "late", "loop", "block", "delegate"}
    /\ bind \in BOOLEAN /\ ret \in BOOLEAN /\ spoiled \in BOOLEAN
    /\ bind \/ ret => ~(bind /\ ret) /\ mode \in {"yielded", "awaiting"} /\ Top.kind = "block"
    /\ mode \in {"start", "yielded", "awaiting"} => frames # << >>
    /\ mode = "start" => Top.kind = "block"
    /\ mode = "yielded" => Top.kind \in {"block", "delegate"}
    /\ mode = "awaiting" => Top.kind \in {"block"} \cup Awaiting
GenInv == StackOK /\ AimOK /\ ModeOK /\ AwaitAnswered

(***************************************************************************)
(* The last frame that stops a completion.                                 *)
(***************************************************************************)

LEMMA LeastNat ==
  ASSUME NEW T \in SUBSET Nat, T # {}
  PROVE  \E x \in T : \A y \in T : x <= y
<1>1. PICK x \in T : \A y \in T : <<y, x>> \notin OpToRel(<, Nat)
  BY NatLessThanWellFounded, WFMin, Zenon
<1>2. \A y \in T : ~(y < x)
  BY <1>1, Zenon DEF OpToRel
<1> QED BY <1>2

LEMMA GreatestIndex ==
  ASSUME NEW n \in Nat, NEW S \in SUBSET (1 .. n), S # {}
  PROVE  \E i \in S : \A j \in S : j <= i
<1> DEFINE U == {m \in Nat : \A i \in S : i <= m}
<1>1. PICK m \in U : \A k \in U : m <= k
  <2>1. n \in U /\ U \in SUBSET Nat
    OBVIOUS
  <2> HIDE DEF U
  <2> QED BY <2>1, LeastNat
<1>2. m \in S
  <2>1. SUFFICES ASSUME m \notin S PROVE FALSE
    OBVIOUS
  <2>2. \A i \in S : i \in Nat /\ 1 <= i /\ i <= m /\ i # m
    BY <2>1
  <2>3. m \in Nat /\ m # 0
    <3>1. m \in Nat
      BY <1>1
    <3>2. PICK i : i \in S
      OBVIOUS
    <3> QED BY <2>2, <3>1, <3>2
  <2>4. m - 1 \in U
    BY <2>2, <2>3
  <2> QED BY <1>1, <2>3, <2>4
<1> QED BY <1>1, <1>2

(* Unless its label is lost, a completion is meant for the last frame that *)
(* the machine would let it stop at.                                       *)
LEMMA MeantFacts ==
  ASSUME NEW fs \in Seq(Frame), NEW type, NEW label \in AnyLabel, label = Anon \/ Good(fs)
  PROVE  LET m == Meant(fs, type, label)
         IN  /\ m \in 0 .. Len(fs)
             /\ ~(label # Anon /\ m # 0 /\ fs[m].label # label)
                   => IsLast(m, Stoppers(fs, type, label))
<1> DEFINE S == Stoppers(fs, type, label)
           m == Meant(fs, type, label)
<1>0. Len(fs) \in Nat /\ DOMAIN fs = 1 .. Len(fs) /\ S \in SUBSET (1 .. Len(fs))
  BY DEF Stoppers
<1>1. CASE type \notin {"throw", "break", "continue"}
  <2>1. S = {} /\ m = 0
    BY <1>1 DEF Stoppers, Meant
  <2> QED BY <1>0, <2>1 DEF IsLast
<1>2. CASE type \in {"throw", "break", "continue"}
  <2> DEFINE Found == {i \in DOMAIN fs :
                 \/ type = "throw" /\ fs[i].st = "trying" /\ fs[i].catch
                 \/ /\ type \in {"break", "continue"}
                    /\ \/ fs[i].kind \in Loops /\ (label = Anon \/ label \in fs[i].names)
                       \/ type = "break" /\ label \in fs[i].names}
  <2>1. m = IF Found = {} THEN 0 ELSE CHOOSE i \in Found : \A j \in Found : j <= i
    <3>1. CASE type = "throw"
      <4>1. Found = {i \in DOMAIN fs : fs[i].st = "trying" /\ fs[i].catch}
        BY <3>1
      <4> HIDE DEF Found
      <4> QED BY <3>1, <4>1 DEF Meant, Last
    <3>2. CASE type \in {"break", "continue"}
      <4>1. Found = {i \in DOMAIN fs :
                       \/ fs[i].kind \in Loops /\ (label = Anon \/ label \in fs[i].names)
                       \/ type = "break" /\ label \in fs[i].names}
        BY <3>2
      <4> HIDE DEF Found
      <4> QED BY <3>2, <4>1 DEF Meant, Last
    <3> QED BY <1>2, <3>1, <3>2
  <2>2. Found \in SUBSET (1 .. Len(fs))
    BY <1>0
  <2>3. S \subseteq Found
    <3>1. \A i \in DOMAIN fs : label # Anon /\ label = fs[i].label => label \in fs[i].names
      BY DEF Good, GoodAt, Shape
    <3> QED BY <3>1 DEF Stoppers
  <2>4. \A i \in Found : label = Anon \/ fs[i].label = label => i \in S
    <3>1. CASE label = Anon
      <4>1. \A i \in DOMAIN fs : label \notin fs[i].names
        <5>1. \A i \in DOMAIN fs : fs[i] \in Frame
          BY <1>0, ElementOfSeq
        <5>2. \A f \in Frame : label \notin f.names
          BY <3>1, LabelAssumption DEF Frame
        <5> QED BY <5>1, <5>2
      <4> QED BY <3>1, <4>1 DEF Stoppers
    <3>2. CASE label # Anon
      <4>1. \A i \in DOMAIN fs : fs[i].label = label => fs[i].kind \in Loops \cup {"block"}
        BY <3>2 DEF Good, GoodAt, Shape
      <4> QED BY <3>2, <4>1 DEF Stoppers
    <3> QED BY <3>1, <3>2
  <2> HIDE DEF Found, S, m
  <2>5. CASE Found = {}
    <3>1. S = {} /\ m = 0
      BY <2>1, <2>3, <2>5
    <3> QED BY <1>0, <3>1 DEF IsLast, S, m
  <2>6. CASE Found # {}
    <3>1. \E i \in Found : \A j \in Found : j <= i
      BY <1>0, <2>2, <2>6, GreatestIndex
    <3>2. m \in Found /\ \A j \in Found : j <= m
      BY <2>1, <2>6, <3>1
    <3>3. m \in 1 .. Len(fs)
      BY <2>2, <3>2
    <3>4. ~(label # Anon /\ m # 0 /\ fs[m].label # label) => m \in S /\ \A j \in S : j <= m
      BY <1>0, <2>3, <2>4, <3>2, <3>3
    <3> QED BY <1>0, <3>3, <3>4 DEF IsLast, S, m
  <2> QED BY <2>5, <2>6
<1> QED BY <1>1, <1>2

(***************************************************************************)
(* Taking a frame off and putting one on.                                  *)
(***************************************************************************)

Cut(s) == SubSeq(s, 1, Len(s) - 1)

LEMMA CutFacts ==
  ASSUME NEW S, NEW s \in Seq(S), s # << >>
  PROVE  /\ Len(s) \in Nat \ {0} /\ DOMAIN s = 1 .. Len(s)
         /\ Cut(s) \in Seq(S) /\ Len(Cut(s)) = Len(s) - 1
         /\ DOMAIN Cut(s) = 1 .. Len(s) - 1
         /\ \A i \in 1 .. Len(s) - 1 : Cut(s)[i] = s[i]
<1>1. Len(s) \in Nat \ {0} /\ DOMAIN s = 1 .. Len(s)
  BY EmptySeq
<1>2. \A i \in 1 .. Len(s) - 1 : s[i] \in S
  BY <1>1, ElementOfSeq
<1>3. Cut(s) \in Seq(S) /\ Len(Cut(s)) = Len(s) - 1 /\ DOMAIN Cut(s) = 1 .. Len(Cut(s))
  BY <1>1, <1>2, SubSeqProperties DEF Cut
<1>4. \A i \in 1 .. Len(s) - 1 : Cut(s)[i] = s[i]
  BY <1>1, <1>2, <1>3 DEF Cut
<1> QED BY <1>1, <1>3, <1>4

LEMMA PushFacts ==
  ASSUME NEW S, NEW s \in Seq(S), NEW e \in S
  PROVE  /\ Len(s) \in Nat /\ DOMAIN s = 1 .. Len(s)
         /\ Append(s, e) \in Seq(S) /\ Append(s, e) # << >>
         /\ Len(Append(s, e)) = Len(s) + 1
         /\ DOMAIN Append(s, e) = 1 .. Len(s) + 1
         /\ Append(s, e)[Len(s) + 1] = e
         /\ \A i \in 1 .. Len(s) : Append(s, e)[i] = s[i]
         /\ Cut(Append(s, e)) = s
<1>1. Len(s) \in Nat /\ DOMAIN s = 1 .. Len(s)
  OBVIOUS
<1>2. /\ Append(s, e) \in Seq(S) /\ Append(s, e) # << >> /\ Len(Append(s, e)) = Len(s) + 1
      /\ DOMAIN Append(s, e) = 1 .. Len(s) + 1
      /\ Append(s, e)[Len(s) + 1] = e
      /\ \A i \in 1 .. Len(s) : Append(s, e)[i] = s[i]
  BY <1>1
<1>3. Cut(Append(s, e)) = s
  <2> DEFINE n == Append(s, e)
  <2>1. n \in Seq(S) /\ n # << >> /\ Len(n) - 1 = Len(s) /\ \A i \in 1 .. Len(s) : n[i] = s[i]
    BY <1>1, <1>2
  <2> HIDE DEF n
  <2>2. Cut(n) \in Seq(S) /\ Len(Cut(n)) = Len(s)
    BY <2>1, CutFacts
  <2>3. \A i \in 1 .. Len(s) : Cut(n)[i] = s[i]
    BY <2>1, CutFacts
  <2> QED BY <2>2, <2>3, SeqEqual DEF n
<1> QED BY <1>1, <1>2, <1>3

LEMMA TwoPushes ==
  ASSUME NEW S, NEW s \in Seq(S), NEW e \in S, NEW f \in S
  PROVE  s \o <<e, f>> = Append(Append(s, e), f)
<1>1. /\ <<e, f>> \in Seq(S) /\ Len(<<e, f>>) = 2
      /\ <<e, f>>[1] = e /\ <<e, f>>[2] = f
  OBVIOUS
<1>2. /\ s \o <<e, f>> \in Seq(S) /\ Len(s \o <<e, f>>) = Len(s) + 2
      /\ \A i \in 1 .. Len(s) + 2 :
            (s \o <<e, f>>)[i] = IF i <= Len(s) THEN s[i] ELSE <<e, f>>[i - Len(s)]
  BY <1>1, ConcatProperties
<1>3. /\ Append(s, e) \in Seq(S) /\ Len(s) \in Nat /\ Len(Append(s, e)) = Len(s) + 1
      /\ Append(s, e)[Len(s) + 1] = e
      /\ \A i \in 1 .. Len(s) : Append(s, e)[i] = s[i]
  BY PushFacts
<1> DEFINE m == Append(s, e)
           n == Append(m, f)
<1> HIDE DEF m
<1>4. /\ n \in Seq(S) /\ Len(n) = Len(s) + 2 /\ n[Len(s) + 2] = f
      /\ \A i \in 1 .. Len(s) + 1 : n[i] = m[i]
  BY <1>3, PushFacts DEF m
<1> HIDE DEF n
<1>5. \A i \in 1 .. Len(s) + 2 : (s \o <<e, f>>)[i] = n[i]
  <2> SUFFICES ASSUME NEW i \in 1 .. Len(s) + 2 PROVE (s \o <<e, f>>)[i] = n[i]
    OBVIOUS
  <2>1. CASE i <= Len(s)
    BY <1>2, <1>3, <1>4, <2>1 DEF m
  <2>2. CASE i = Len(s) + 1
    BY <1>1, <1>2, <1>3, <1>4, <2>2 DEF m
  <2>3. CASE i = Len(s) + 2
    BY <1>1, <1>2, <1>3, <1>4, <2>3
  <2> QED BY <1>3, <2>1, <2>2, <2>3
<1>6. s \o <<e, f>> = n
  BY <1>2, <1>3, <1>4, <1>5, SeqEqual
<1> QED BY <1>6 DEF n, m

LEMMA StopCut ==
  ASSUME NEW fs \in Seq(Frame), fs # << >>, NEW type, NEW label
  PROVE  Stoppers(Cut(fs), type, label) = {j \in Stoppers(fs, type, label) : j < Len(fs)}
BY CutFacts DEF Stoppers

LEMMA StopPush ==
  ASSUME NEW fs \in Seq(Frame), NEW f \in Frame, NEW type, NEW label
  PROVE  {j \in Stoppers(Append(fs, f), type, label) : j < Len(fs) + 1} = Stoppers(fs, type, label)
BY PushFacts DEF Stoppers

(* Nothing is put on top of a for await that waits for its item.           *)
Quiet(fs) == fs # << >> /\ fs[Len(fs)].kind \in Awaiting => fs[Len(fs)].phase = "check"

LEMMA GoodCut ==
  ASSUME NEW fs \in Seq(Frame), fs # << >>, Good(fs)
  PROVE  Good(Cut(fs)) /\ Quiet(Cut(fs))
<1> DEFINE n == Cut(fs)
<1>1. /\ Len(fs) \in Nat \ {0} /\ DOMAIN fs = 1 .. Len(fs) /\ n \in Seq(Frame)
      /\ Len(n) = Len(fs) - 1 /\ DOMAIN n = 1 .. Len(fs) - 1
      /\ \A i \in 1 .. Len(fs) - 1 : n[i] = fs[i]
  BY CutFacts
<1>2. \A type, label : Stoppers(n, type, label) = {j \in Stoppers(fs, type, label) : j < Len(fs)}
  BY StopCut
<1>3. \A i \in 1 .. Len(fs) - 1 : \A c : AimedUnder(n, i, c) <=> AimedUnder(fs, i, c)
  <2>1. \A i \in 1 .. Len(fs) - 1 : \A type, label :
          {j \in Stoppers(n, type, label) : j < i} = {j \in Stoppers(fs, type, label) : j < i}
    BY <1>1, <1>2 DEF Stoppers
  <2> QED BY <2>1 DEF AimedUnder
<1> HIDE DEF n
<1>4. \A i \in 1 .. Len(fs) - 1 : i \in DOMAIN fs /\ i < Len(fs)
  BY <1>1
<1>5. Good(n)
  BY <1>1, <1>3, <1>4 DEF Good, GoodAt
<1>6. Quiet(n)
  <2>1. n # << >> => Len(n) \in 1 .. Len(fs) - 1
    BY <1>1, EmptySeq
  <2>2. n # << >> => n[Len(n)] = fs[Len(n)] /\ Len(n) \in DOMAIN fs /\ Len(n) < Len(fs)
    BY <1>1, <1>4, <2>1
  <2> QED BY <2>2 DEF Good, GoodAt, Quiet
<1> QED BY <1>5, <1>6 DEF n

LEMMA GoodPush ==
  ASSUME NEW fs \in Seq(Frame), NEW f \in Frame, Good(fs), Quiet(fs), Shape(f),
         f.st = "finally" => Aimed(fs, f.saved),
         f.kind \in Loops \cup {"try"} => Len(fs) + 1 < MaxFrames
  PROVE  /\ Good(Append(fs, f))
         /\ (f.kind \in Awaiting => f.phase = "check") => Quiet(Append(fs, f))
<1> DEFINE n == Append(fs, f)
<1>1. /\ Len(fs) \in Nat /\ DOMAIN fs = 1 .. Len(fs)
      /\ Len(n) = Len(fs) + 1 /\ DOMAIN n = 1 .. Len(fs) + 1
      /\ n[Len(fs) + 1] = f /\ \A i \in 1 .. Len(fs) : n[i] = fs[i]
  BY PushFacts
<1>2. \A type, label : {j \in Stoppers(n, type, label) : j < Len(fs) + 1} = Stoppers(fs, type, label)
  BY StopPush
<1>3. \A i \in 1 .. Len(fs) : \A c : AimedUnder(n, i, c) <=> AimedUnder(fs, i, c)
  <2>1. \A i \in 1 .. Len(fs) : \A type, label :
          {j \in Stoppers(n, type, label) : j < i} = {j \in Stoppers(fs, type, label) : j < i}
    BY <1>1, <1>2 DEF Stoppers
  <2> QED BY <2>1 DEF AimedUnder
<1>4. \A c : AimedUnder(n, Len(fs) + 1, c) <=> Aimed(fs, c)
  BY <1>2 DEF AimedUnder, Aimed
<1> HIDE DEF n
<1>5. ASSUME NEW i \in 1 .. Len(fs)  PROVE GoodAt(n, i)
  <2>1. n[i] = fs[i] /\ GoodAt(fs, i)
    BY <1>1 DEF Good
  <2>2. fs # << >> /\ (i < Len(fs) \/ i = Len(fs))
    BY <1>1, EmptySeq
  <2>3. n[i].kind \in Awaiting => n[i].phase = "check"
    BY <2>1, <2>2 DEF GoodAt, Quiet
  <2> QED BY <1>3, <2>1, <2>3 DEF GoodAt
<1>6. GoodAt(n, Len(fs) + 1)
  BY <1>1, <1>4 DEF GoodAt
<1>7. Good(n)
  <2>1. \A i \in DOMAIN n : i \in 1 .. Len(fs) \/ i = Len(fs) + 1
    BY <1>1
  <2> QED BY <1>5, <1>6, <2>1 DEF Good
<1>8. (f.kind \in Awaiting => f.phase = "check") => Quiet(n)
  BY <1>1 DEF Quiet
<1> QED BY <1>7, <1>8 DEF n

(***************************************************************************)
(* The scopes of the frames.                                               *)
(***************************************************************************)

LEMMA ListsCut ==
  ASSUME NEW n \in Nat, NEW sc \in Seq(1 .. n), NEW S, Lists(sc, S),
         NEW m \in S, \A i \in S : i <= m
  PROVE  sc # << >> /\ Lists(Cut(sc), S \ {m})
<1>1. PICK k \in DOMAIN sc : sc[k] = m
  BY DEF Lists
<1>2. sc # << >> /\ Len(sc) \in Nat \ {0} /\ DOMAIN sc = 1 .. Len(sc)
  BY <1>1, EmptySeq
<1>3. \A i \in DOMAIN sc : sc[i] \in Nat /\ sc[i] \in S
  BY <1>2, ElementOfSeq DEF Lists
<1>0. \A i, j \in 1 .. Len(sc) : i < j => sc[i] < sc[j]
  BY <1>2 DEF Lists
<1>4. sc[Len(sc)] = m
  <2>1. k < Len(sc) => sc[k] < sc[Len(sc)]
    BY <1>2 DEF Lists
  <2>2. sc[Len(sc)] \in Nat /\ sc[Len(sc)] <= m /\ m \in Nat
    BY <1>1, <1>2, <1>3
  <2> QED BY <1>1, <1>2, <2>1, <2>2
<1> DEFINE d == Cut(sc)
<1>5. DOMAIN d = 1 .. Len(sc) - 1 /\ \A i \in 1 .. Len(sc) - 1 : d[i] = sc[i]
  BY <1>2, CutFacts
<1>6. \A i \in 1 .. Len(sc) - 1 : sc[i] # m
  <2> TAKE i \in 1 .. Len(sc) - 1
  <2>1. i \in 1 .. Len(sc) /\ Len(sc) \in 1 .. Len(sc) /\ i < Len(sc)
    BY <1>2
  <2>2. sc[i] < sc[Len(sc)] /\ sc[i] \in Nat
    BY <1>0, <1>2, <1>3, <2>1
  <2> QED BY <1>4, <2>2
<1> HIDE DEF d
<1>7. {d[i] : i \in DOMAIN d} = {sc[i] : i \in 1 .. Len(sc) - 1}
  BY <1>5
<1>8. {sc[i] : i \in 1 .. Len(sc) - 1} = S \ {m}
  <2>1. {sc[i] : i \in DOMAIN sc} = S
    BY DEF Lists
  <2>2. \A i \in DOMAIN sc : i \in 1 .. Len(sc) - 1 \/ i = Len(sc)
    BY <1>2
  <2>3. \A x \in S \ {m} : x \in {sc[i] : i \in 1 .. Len(sc) - 1}
    BY <1>4, <2>1, <2>2
  <2>4. \A i \in 1 .. Len(sc) - 1 : sc[i] \in S \ {m}
    BY <1>2, <1>3, <1>6
  <2> QED BY <2>3, <2>4
<1>9. \A i, j \in DOMAIN d : i < j => d[i] < d[j]
  <2>1. \A i \in DOMAIN d : i \in 1 .. Len(sc) /\ d[i] = sc[i]
    BY <1>2, <1>5
  <2> QED BY <1>0, <2>1
<1> QED BY <1>2, <1>7, <1>8, <1>9 DEF Lists, d

LEMMA ListsPush ==
  ASSUME NEW n \in Nat, NEW sc \in Seq(1 .. n), NEW S, Lists(sc, S),
         NEW m \in 1 .. n, \A i \in S : i < m
  PROVE  Lists(Append(sc, m), S \cup {m})
<1> DEFINE d == Append(sc, m)
<1>1. /\ Len(sc) \in Nat /\ DOMAIN sc = 1 .. Len(sc)
      /\ DOMAIN d = 1 .. Len(sc) + 1 /\ d[Len(sc) + 1] = m
      /\ \A i \in 1 .. Len(sc) : d[i] = sc[i]
  BY PushFacts
<1>2. {sc[i] : i \in DOMAIN sc} = S
  BY DEF Lists
<1> HIDE DEF d
<1>3. \A i \in DOMAIN d : i \in 1 .. Len(sc) \/ i = Len(sc) + 1
  BY <1>1
<1>4. {d[i] : i \in DOMAIN d} = S \cup {m}
  <2>1. \A i \in DOMAIN d : d[i] \in S \cup {m}
    BY <1>1, <1>2, <1>3
  <2>2. \A x \in S \cup {m} : \E i \in DOMAIN d : x = d[i]
    <3>1. \A x \in S : \E i \in 1 .. Len(sc) : x = d[i]
      BY <1>1, <1>2
    <3> QED BY <1>1, <3>1
  <2> QED BY <2>1, <2>2
<1>5. ASSUME NEW i \in DOMAIN d, NEW j \in DOMAIN d, i < j  PROVE d[i] < d[j]
  <2>1. i \in 1 .. Len(sc) /\ d[i] = sc[i] /\ sc[i] \in S
    BY <1>1, <1>2, <1>3, <1>5
  <2>2. CASE j = Len(sc) + 1
    BY <1>1, <2>1, <2>2
  <2>3. CASE j \in 1 .. Len(sc)
    BY <1>1, <1>5, <2>1, <2>3 DEF Lists
  <2> QED BY <1>3, <2>2, <2>3
<1> QED BY <1>4, <1>5 DEF Lists, d

LEMMA OwnersCut ==
  ASSUME NEW fs \in Seq(Frame), fs # << >>
  PROVE  /\ OwnersOf(Cut(fs)) = OwnersOf(fs) \ {Len(fs)}
         /\ Owns(fs[Len(fs)]) <=> Len(fs) \in OwnersOf(fs)
         /\ \A i \in OwnersOf(fs) : i <= Len(fs)
BY CutFacts DEF OwnersOf

LEMMA OwnersPush ==
  ASSUME NEW fs \in Seq(Frame), NEW f \in Frame
  PROVE  /\ Owns(f) => OwnersOf(Append(fs, f)) = OwnersOf(fs) \cup {Len(fs) + 1}
         /\ ~Owns(f) => OwnersOf(Append(fs, f)) = OwnersOf(fs)
         /\ \A i \in OwnersOf(fs) : i < Len(fs) + 1
BY PushFacts DEF OwnersOf

(***************************************************************************)
(* What the steps do to the stack.                                         *)
(***************************************************************************)

LEMMA PopStack ==
  ASSUME NEW fs, NEW sc, Stack(fs, sc), fs # << >>
  PROVE  LET n == Cut(fs)
             m == IF Owns(fs[Len(fs)]) THEN Cut(sc) ELSE sc
         IN  /\ Stack(n, m) /\ Stack(n, sc) /\ Stack(n, Cut(sc))
             /\ Quiet(n) /\ Len(n) = Len(fs) - 1
             /\ Matched(fs, sc) => Matched(n, m)
             /\ \A c : AimedUnder(fs, Len(fs), c) => Aimed(n, c)
             /\ \A c : Aimed(fs, c) /\ Len(fs) \notin Stoppers(fs, c.type, c.label) => Aimed(n, c)
<1> DEFINE n == Cut(fs)
           m == IF Owns(fs[Len(fs)]) THEN Cut(sc) ELSE sc
<1>1. /\ fs \in Seq(Frame) /\ sc \in Seq(1 .. MaxFrames) /\ MaxFrames \in Nat
      /\ Len(fs) <= MaxFrames /\ Good(fs)
  BY FramesAssumption DEF Stack
<1>2. n \in Seq(Frame) /\ Len(n) = Len(fs) - 1 /\ Len(fs) \in Nat /\ Good(n) /\ Quiet(n)
      /\ DOMAIN fs = 1 .. Len(fs)
  BY <1>1, CutFacts, GoodCut
<1>3. Cut(sc) \in Seq(1 .. MaxFrames)
  <2>1. CASE sc = << >>
    <3>1. Len(sc) = 0 /\ \A i \in 1 .. Len(sc) - 1 : sc[i] \in 1 .. MaxFrames
      BY <1>1, <2>1
    <3> QED BY <3>1, SubSeqProperties DEF Cut
  <2>2. CASE sc # << >>
    BY <1>1, <2>2, CutFacts
  <2> QED BY <2>1, <2>2
<1>4. Stack(n, sc) /\ Stack(n, Cut(sc))
  BY <1>1, <1>2, <1>3 DEF Stack
<1>5. Matched(fs, sc) => Matched(n, m)
  <2>1. CASE Owns(fs[Len(fs)])
    <3>1. /\ OwnersOf(n) = OwnersOf(fs) \ {Len(fs)} /\ Len(fs) \in OwnersOf(fs)
          /\ \A i \in OwnersOf(fs) : i <= Len(fs)
      BY <1>1, <2>1, OwnersCut
    <3>2. Lists(sc, OwnersOf(fs)) => Lists(Cut(sc), OwnersOf(fs) \ {Len(fs)})
      BY <1>1, <3>1, ListsCut
    <3> QED BY <2>1, <3>1, <3>2 DEF Matched
  <2>2. CASE ~Owns(fs[Len(fs)])
    <3>1. OwnersOf(n) = OwnersOf(fs)
      BY <1>1, <2>2, OwnersCut
    <3> QED BY <2>2, <3>1 DEF Matched
  <2> QED BY <2>1, <2>2
<1>6. \A c : Stoppers(n, c.type, c.label) = {j \in Stoppers(fs, c.type, c.label) : j < Len(fs)}
  BY <1>1, StopCut
<1>7. \A c : AimedUnder(fs, Len(fs), c) => Aimed(n, c)
  BY <1>6 DEF AimedUnder, Aimed
<1>8. \A c : Aimed(fs, c) /\ Len(fs) \notin Stoppers(fs, c.type, c.label) => Aimed(n, c)
  <2> SUFFICES ASSUME NEW c, Aimed(fs, c), Len(fs) \notin Stoppers(fs, c.type, c.label)
               PROVE  Aimed(n, c)
    OBVIOUS
  <2>1. \A j \in Stoppers(fs, c.type, c.label) : j \in 1 .. Len(fs) /\ j # Len(fs)
    BY <1>2 DEF Stoppers
  <2>2. {j \in Stoppers(fs, c.type, c.label) : j < Len(fs)} = Stoppers(fs, c.type, c.label)
    BY <1>2, <2>1
  <2>3. Stoppers(n, c.type, c.label) = Stoppers(fs, c.type, c.label)
    BY <1>6, <2>2
  <2> QED BY <2>3 DEF Aimed
<1> HIDE DEF n
<1>9. Stack(n, m)
  BY <1>4
<1> QED BY <1>2, <1>4, <1>5, <1>7, <1>8, <1>9 DEF n

LEMMA PushStack ==
  ASSUME NEW fs, NEW sc, Stack(fs, sc), Quiet(fs), NEW f \in Frame, Shape(f),
         f.st = "finally" => Aimed(fs, f.saved), Len(fs) < MaxFrames,
         f.kind \in Loops \cup {"try"} => Len(fs) + 1 < MaxFrames
  PROVE  LET n == Append(fs, f)
             m == IF Owns(f) THEN Append(sc, Len(fs) + 1) ELSE sc
         IN  /\ Stack(n, m) /\ Stack(n, sc) /\ n # << >> /\ Len(n) = Len(fs) + 1 /\ n[Len(n)] = f
             /\ (f.kind \in Awaiting => f.phase = "check") => Quiet(n)
             /\ Matched(fs, sc) => Matched(n, m)
<1> DEFINE n == Append(fs, f)
           m == IF Owns(f) THEN Append(sc, Len(fs) + 1) ELSE sc
<1>1. /\ fs \in Seq(Frame) /\ sc \in Seq(1 .. MaxFrames) /\ MaxFrames \in Nat
      /\ Len(fs) <= MaxFrames /\ Good(fs) /\ Len(fs) \in Nat
  BY FramesAssumption DEF Stack
<1>2. n \in Seq(Frame) /\ n # << >> /\ Len(n) = Len(fs) + 1 /\ n[Len(n)] = f
  BY <1>1, PushFacts
<1>3. Good(n) /\ ((f.kind \in Awaiting => f.phase = "check") => Quiet(n))
  BY <1>1, GoodPush
<1>4. Append(sc, Len(fs) + 1) \in Seq(1 .. MaxFrames) /\ Len(fs) + 1 \in 1 .. MaxFrames
  BY <1>1, PushFacts
<1>5. Matched(fs, sc) => Matched(n, m)
  <2>1. CASE Owns(f)
    BY <1>1, <1>4, <2>1, OwnersPush, ListsPush DEF Matched
  <2>2. CASE ~Owns(f)
    BY <1>1, <2>2, OwnersPush DEF Matched
  <2> QED BY <2>1, <2>2
<1> HIDE DEF n
<1>6. Stack(n, sc) /\ Stack(n, Append(sc, Len(fs) + 1))
  BY <1>1, <1>2, <1>3, <1>4 DEF Stack
<1>7. Stack(n, m)
  BY <1>6
<1> QED BY <1>2, <1>3, <1>5, <1>6, <1>7 DEF n

(* The frame on top changes and keeps its scope.                           *)
LEMMA SwapStack ==
  ASSUME NEW fs, NEW sc, Stack(fs, sc), fs # << >>, NEW f \in Frame, Shape(f), f.st # "finally",
         Owns(f) <=> Owns(fs[Len(fs)]), f.kind \in Loops \cup {"try"} => Len(fs) < MaxFrames
  PROVE  LET n == Append(Cut(fs), f)
         IN  /\ Stack(n, sc) /\ n # << >> /\ Len(n) = Len(fs) /\ n[Len(n)] = f
             /\ (f.kind \in Awaiting => f.phase = "check") => Quiet(n)
             /\ Matched(fs, sc) => Matched(n, sc)
<1> DEFINE b == Cut(fs)
           n == Append(b, f)
<1>1. fs \in Seq(Frame) /\ Len(fs) \in Nat \ {0} /\ Len(fs) <= MaxFrames /\ MaxFrames \in Nat
  BY FramesAssumption, EmptySeq DEF Stack
<1>2. b \in Seq(Frame) /\ Stack(b, sc) /\ Quiet(b) /\ Len(b) = Len(fs) - 1
  BY <1>1, PopStack, CutFacts
<1>3. OwnersOf(b) = OwnersOf(fs) \ {Len(fs)} /\ (Owns(f) <=> Len(fs) \in OwnersOf(fs))
  BY <1>1, OwnersCut
<1> HIDE DEF b
<1>4. /\ Stack(n, sc) /\ n # << >> /\ Len(n) = Len(fs) /\ n[Len(n)] = f
      /\ (f.kind \in Awaiting => f.phase = "check") => Quiet(n)
  BY <1>1, <1>2, PushStack
<1>5. OwnersOf(n) = OwnersOf(fs)
  <2>1. /\ Owns(f) => OwnersOf(n) = OwnersOf(b) \cup {Len(fs)}
        /\ ~Owns(f) => OwnersOf(n) = OwnersOf(b)
    BY <1>1, <1>2, OwnersPush
  <2> QED BY <1>3, <2>1
<1> HIDE DEF n
<1> QED BY <1>4, <1>5 DEF Matched, n, b

(* What FinallyOnce asks of a step.                                        *)
Once ==
    \A i \in DOMAIN frames :
        /\ PendingFinally(frames[i]) /\ i \notin DOMAIN frames'
              => Top.st = "finally" /\ Top.saved.type = "return" /\ frames' = << >>
        /\ frames[i].st = "finally" /\ i \in DOMAIN frames' => frames'[i] = frames[i]

(* A step that keeps the stack and its scopes in order, and leaves nothing *)
(* on top that waits for an answer.                                        *)
Kept ==
    /\ Stack(frames', scopes') /\ Quiet(frames') /\ Once
    /\ Matched(frames, scopes) => Matched(frames', scopes')

LEMMA FrameFacts ==
  /\ Normal \in Completion
  /\ Body \in Frame /\ Shape(Body) /\ ~Owns(Body) /\ Body.kind = "block" /\ Body.st = "none"
  /\ LET f == Plain("delegate", Anon)
     IN  f \in Frame /\ Shape(f) /\ ~Owns(f) /\ f.kind = "delegate" /\ f.st = "none"
<1>1. Normal \in Completion
  BY FramesAssumption DEF Normal, Completion, AnyLabel
<1>2. Body \in Frame /\ Shape(Body) /\ ~Owns(Body) /\ Body.kind = "block" /\ Body.st = "none"
  BY <1>1 DEF Body, Plain, Frame, Shape, Owns, Loops, Scoped, AnyLabel
<1>3. LET f == Plain("delegate", Anon)
      IN  f \in Frame /\ Shape(f) /\ ~Owns(f) /\ f.kind = "delegate" /\ f.st = "none"
  BY <1>1 DEF Plain, Frame, Shape, Owns, Loops, Scoped, AnyLabel
<1> QED BY <1>1, <1>2, <1>3

(* The frames of a block, of a branch and of a loop, with their names.     *)
LEMMA NamedFrames ==
  ASSUME NEW names \in SUBSET Label, NEW label \in AnyLabel, Recorded(label, names)
  PROVE  /\ LET f == [Plain("block", label) EXCEPT !.names = names, !.owns = TRUE]
            IN  f \in Frame /\ Shape(f) /\ Owns(f) /\ f.kind = "block" /\ f.st = "none"
         /\ LET f == [Body EXCEPT !.names = names]
            IN  f \in Frame /\ Shape(f) /\ ~Owns(f) /\ f.kind = "block" /\ f.st = "none"
         /\ \A kind \in Loops :
               LET f == [Plain(kind, label) EXCEPT !.names = names]
               IN  /\ f \in Frame /\ Shape(f) /\ f.kind = kind /\ f.phase = "check" /\ f.st = "none"
                   /\ Owns(f) <=> kind \in Scoped
<1>1. Normal \in Completion /\ Anon \in AnyLabel /\ Anon \notin Label
      /\ (label # Anon => label \in names)
  BY FrameFacts, LabelAssumption DEF AnyLabel, Recorded
<1>2. LET f == [Plain("block", label) EXCEPT !.names = names, !.owns = TRUE]
      IN  f \in Frame /\ Shape(f) /\ Owns(f) /\ f.kind = "block" /\ f.st = "none"
  BY <1>1 DEF Plain, Frame, Shape, Owns
<1>3. LET f == [Body EXCEPT !.names = names]
      IN  f \in Frame /\ Shape(f) /\ ~Owns(f) /\ f.kind = "block" /\ f.st = "none"
  BY <1>1 DEF Body, Plain, Frame, Shape, Owns, Scoped
<1>4. ASSUME NEW kind \in Loops
      PROVE  LET f == [Plain(kind, label) EXCEPT !.names = names]
             IN  /\ f \in Frame /\ Shape(f) /\ f.kind = kind /\ f.phase = "check" /\ f.st = "none"
                 /\ Owns(f) <=> kind \in Scoped
  BY <1>1, <1>4 DEF Plain, Frame, Shape, Owns, Loops, Scoped
<1> QED BY <1>2, <1>3, <1>4

LEMMA TopFacts ==
  ASSUME StackOK, frames # << >>
  PROVE  /\ Top \in Frame /\ GoodAt(frames, Depth) /\ Top = frames[Len(frames)]
         /\ Depth = Len(frames) /\ Depth \in 1 .. MaxFrames
         /\ Top.kind \in Loops \cup {"try"} => Depth < MaxFrames
         /\ Top.kind # "try" => Top.st = "none" /\ ~PendingFinally(Top)
<1>1. frames \in Seq(Frame) /\ Len(frames) \in Nat \ {0} /\ Len(frames) <= MaxFrames
      /\ DOMAIN frames = 1 .. Len(frames) /\ MaxFrames \in Nat
  BY FramesAssumption, EmptySeq DEF StackOK, Stack
<1>2. Top \in Frame /\ GoodAt(frames, Depth) /\ Top = frames[Len(frames)] /\ Depth = Len(frames)
  BY <1>1, ElementOfSeq DEF StackOK, Stack, Good, Top, Depth
<1> QED BY <1>1, <1>2 DEF GoodAt, Shape, PendingFinally

LEMMA Cuts == Below = Cut(frames) /\ PopScope = Cut(scopes)
BY DEF Below, PopScope, Cut, Depth

LEMMA OnceGrown ==
  ASSUME frames \in Seq(Frame), frames' \in Seq(Frame), Len(frames) <= Len(frames'),
         \A i \in 1 .. Len(frames) : frames[i].st = "finally" => frames'[i] = frames[i]
  PROVE  Once
<1>1. DOMAIN frames = 1 .. Len(frames) /\ DOMAIN frames' = 1 .. Len(frames')
      /\ Len(frames) \in Nat /\ Len(frames') \in Nat
  OBVIOUS
<1> QED BY <1>1 DEF Once

(* A step that leaves the stack alone.                                     *)
LEMMA SameKept ==
  ASSUME StackOK, UNCHANGED <<frames, scopes>>, Quiet(frames)
  PROVE  Kept
BY DEF StackOK, Kept, Once

LEMMA OncePopped ==
  ASSUME StackOK, frames # << >>, frames' = Below, ~PendingFinally(Top)
  PROVE  Once /\ Len(frames') = Depth - 1
<1>1. frames' = Cut(frames) /\ Depth = Len(frames) /\ Top = frames[Len(frames)]
  BY Cuts, TopFacts
<1>2. /\ DOMAIN frames = 1 .. Len(frames) /\ DOMAIN frames' = 1 .. Len(frames) - 1
      /\ Len(frames') = Len(frames) - 1
      /\ \A i \in 1 .. Len(frames) - 1 : frames'[i] = frames[i]
  BY <1>1, CutFacts DEF StackOK, Stack
<1>3. \A i \in DOMAIN frames : i \notin DOMAIN frames' => frames[i] = Top
  BY <1>1, <1>2
<1> QED BY <1>1, <1>2, <1>3 DEF Once

(* A step that takes the top frame off.                                    *)
LEMMA PopKept ==
  ASSUME StackOK, frames # << >>, PopFrame, ~PendingFinally(Top)
  PROVE  /\ Kept /\ Len(frames') = Depth - 1
         /\ \A c : AimedUnder(frames, Depth, c) => Aimed(frames', c)
         /\ \A c : Aimed(frames, c) /\ Depth \notin Stoppers(frames, c.type, c.label)
                 => Aimed(frames', c)
<1>1. /\ frames' = Cut(frames) /\ Depth = Len(frames)
      /\ scopes' = IF Owns(frames[Len(frames)]) THEN Cut(scopes) ELSE scopes
  BY Cuts, TopFacts DEF PopFrame
<1>2. Once /\ Len(frames') = Depth - 1
  BY OncePopped DEF PopFrame
<1> QED BY <1>1, <1>2, PopStack DEF StackOK, Kept

(* A step that puts a frame on.                                            *)
LEMMA PushKept ==
  ASSUME StackOK, Quiet(frames), NEW f \in Frame, Shape(f), f.st # "finally",
         f.kind \in Awaiting => f.phase = "check", frames' = Append(frames, f),
         scopes' = IF Owns(f) THEN Append(scopes, Depth + 1) ELSE scopes,
         Depth < MaxFrames, f.kind \in Loops \cup {"try"} => Depth + 1 < MaxFrames
  PROVE  Kept
<1>1. frames \in Seq(Frame) /\ Depth = Len(frames)
  BY DEF StackOK, Stack, Depth
<1>2. Once
  BY <1>1, PushFacts, OnceGrown
<1> QED BY <1>1, <1>2, PushStack DEF StackOK, Kept

(* A step that changes the top frame, and one that also begins a block     *)
(* above it.                                                               *)
LEMMA SwapKept ==
  ASSUME StackOK, frames # << >>, NEW f \in Frame, Shape(f), f.st # "finally",
         f.kind \in Loops \cup {"try"} => Top.kind \in Loops \cup {"try"},
         Owns(f) <=> Owns(Top), Top.st # "finally", scopes' = scopes
  PROVE  /\ frames' = Append(Below, f) =>
                /\ Stack(frames', scopes') /\ Once /\ frames' # << >> /\ Len(frames') = Depth
                /\ frames'[Len(frames')] = f
                /\ (f.kind \in Awaiting => f.phase = "check") => Quiet(frames')
                /\ Matched(frames, scopes) => Matched(frames', scopes')
         /\ frames' = Below \o <<f, Body>> /\ (f.kind \in Awaiting => f.phase = "check")
            /\ Depth < MaxFrames => Kept /\ Len(frames') = Depth + 1 /\ frames'[Depth] = f
<1> DEFINE b == Cut(frames)
           n == Append(b, f)
<1>1. /\ frames \in Seq(Frame) /\ Depth = Len(frames) /\ Top = frames[Len(frames)] /\ Below = b
      /\ Len(frames) \in Nat \ {0} /\ (f.kind \in Loops \cup {"try"} => Len(frames) < MaxFrames)
      /\ Stack(frames, scopes)
  BY TopFacts, Cuts DEF StackOK, Stack
<1>2. /\ b \in Seq(Frame) /\ Len(b) = Len(frames) - 1
      /\ \A i \in 1 .. Len(frames) - 1 : b[i] = frames[i]
  BY <1>1, CutFacts
<1>3. /\ Stack(n, scopes) /\ n # << >> /\ Len(n) = Len(frames) /\ n[Len(n)] = f
      /\ (f.kind \in Awaiting => f.phase = "check") => Quiet(n)
      /\ Matched(frames, scopes) => Matched(n, scopes)
  BY <1>1, SwapStack
<1> HIDE DEF b
<1>4. n \in Seq(Frame) /\ \A i \in 1 .. Len(frames) : frames[i].st = "finally" => n[i] = frames[i]
  <2>1. n \in Seq(Frame) /\ \A i \in 1 .. Len(frames) - 1 : n[i] = b[i]
    BY <1>2, PushFacts
  <2>2. \A i \in 1 .. Len(frames) : i \in 1 .. Len(frames) - 1 \/ i = Len(frames)
    BY <1>1
  <2> QED BY <1>1, <1>2, <2>1, <2>2
<1> HIDE DEF n
<1>5. frames' = n => Once
  BY <1>1, <1>3, <1>4, OnceGrown
<1>6. ASSUME frames' = b \o <<f, Body>>, f.kind \in Awaiting => f.phase = "check", Len(frames) < MaxFrames
      PROVE  Kept /\ Len(frames') = Len(frames) + 1 /\ frames'[Len(frames)] = f
  <2>1. frames' = Append(n, Body)
    BY <1>2, <1>6, TwoPushes, FrameFacts DEF n
  <2>2. Stack(frames', scopes) /\ Quiet(frames') /\ (Matched(n, scopes) => Matched(frames', scopes))
    <3>1. /\ Body \in Frame /\ Shape(Body) /\ ~Owns(Body) /\ Body.st # "finally"
          /\ Body.kind \notin Loops \cup {"try"} /\ Body.kind \notin Awaiting
      BY FrameFacts DEF Loops, Awaiting
    <3>2. Quiet(n) /\ Len(n) < MaxFrames /\ Stack(n, scopes)
      BY <1>3, <1>6
    <3>3. /\ Stack(Append(n, Body), scopes) /\ Quiet(Append(n, Body))
          /\ Matched(n, scopes) => Matched(Append(n, Body), scopes)
      BY <3>1, <3>2, PushStack
    <3> QED BY <2>1, <3>3
  <2>3. frames' \in Seq(Frame) /\ Len(frames') = Len(frames) + 1
        /\ \A i \in 1 .. Len(frames) : frames'[i] = n[i]
    BY <1>3, <1>4, <2>1, PushFacts, FrameFacts
  <2>4. Once
    BY <1>1, <1>4, <2>3, OnceGrown
  <2>5. frames'[Len(frames)] = f
    BY <1>1, <1>3, <2>3
  <2> QED BY <1>3, <2>2, <2>3, <2>4, <2>5 DEF Kept
<1> QED BY <1>1, <1>3, <1>5, <1>6 DEF n

(***************************************************************************)
(* Completions and errors.                                                 *)
(***************************************************************************)

LEMMA ArisesFacts ==
  ASSUME NEW fs \in Seq(Frame), Len(fs) <= MaxFrames, NEW label \in AnyLabel,
         label = Anon \/ Good(fs),
         NEW type \in {"throw", "return", "break", "continue"}, NEW a \in BOOLEAN
  PROVE  /\ [Arises(fs, type, label) EXCEPT !.again = a] \in Completion
         /\ [Arises(fs, type, label) EXCEPT !.again = a] # Normal
         /\ Aimed(fs, [Arises(fs, type, label) EXCEPT !.again = a])
         /\ Arises(fs, type, label) \in Completion /\ Arises(fs, type, label) # Normal
         /\ Aimed(fs, Arises(fs, type, label))
<1> DEFINE m == Meant(fs, type, label)
<1>1. m \in 0 .. Len(fs) /\ Len(fs) \in Nat
      /\ (~(label # Anon /\ m # 0 /\ fs[m].label # label) => IsLast(m, Stoppers(fs, type, label)))
  BY MeantFacts
<1>2. m \in 0 .. MaxFrames + 1
  BY <1>1, FramesAssumption
<1> HIDE DEF m
<1> DEFINE l == label # Anon /\ m # 0 /\ fs[m].label # label
           r == Arises(fs, type, label)
           q == [r EXCEPT !.again = a]
<1>3. r = [type |-> type, label |-> label, target |-> m, lost |-> l, again |-> FALSE] /\ l \in BOOLEAN
  BY DEF Arises, m
<1>4. ~l => IsLast(m, Stoppers(fs, type, label))
  BY <1>1
<1> HIDE DEF l, r
<1>5. r \in Completion /\ r.type # "normal"
  BY <1>2, <1>3 DEF Completion
<1>6. r.type = type /\ r.label = label /\ r.target = m /\ r.lost = l
  BY <1>3
<1>7. /\ q \in Completion
      /\ q.type = r.type /\ q.label = r.label /\ q.target = r.target /\ q.lost = r.lost
  BY <1>5 DEF Completion
<1> HIDE DEF q
<1>8. Aimed(fs, r) /\ Aimed(fs, q)
  BY <1>4, <1>6, <1>7 DEF Aimed
<1>9. r # Normal /\ q # Normal
  BY <1>5, <1>7 DEF Normal
<1> QED BY <1>5, <1>7, <1>8, <1>9 DEF q, r

LEMMA RouteFacts ==
  ASSUME NEW fs \in Seq(Frame), Len(fs) <= MaxFrames, NEW error, RouteError(fs, error) \/ Escape,
         mode = "running"
  PROVE  /\ unw' \in Completion
         /\ unw' # Normal => mode' = "running" /\ Aimed(fs, unw')
         /\ mode' \in {"running", "escaped"}
         /\ mode' = "running" => unw' # Normal
<1>1. Anon \in AnyLabel
  BY DEF AnyLabel
<1>2. CASE unw' = Arises(fs, "throw", Anon) /\ UNCHANGED mode
  BY <1>1, <1>2, ArisesFacts
<1>3. CASE Escape
  BY <1>3, FrameFacts DEF Escape
<1> QED BY <1>2, <1>3 DEF RouteError

(* A step that keeps the stack, and goes on with the next statement.       *)
LEMMA GoesOn ==
  ASSUME GenInv, Kept, mode = "running", mode' = "running", unw' = Normal,
         sent' \in {sent, "none"}, UNCHANGED <<bind, ret, spoiled>>
  PROVE  GenInv'
<1>1. StackOK' /\ AimOK'
  BY FrameFacts DEF GenInv, StackOK, Kept, AimOK
<1>2. ModeOK'
  BY DEF GenInv, ModeOK, Suspended
<1>3. AwaitAnswered'
  BY DEF Kept, Quiet, AwaitAnswered, Pumping, Top, Depth
<1> QED BY <1>1, <1>2, <1>3 DEF GenInv

(* A step that keeps the stack while a completion goes on.                 *)
LEMMA UnwindsOn ==
  ASSUME GenInv, Kept, mode = "running", mode' = "running", unw' \in Completion, Aimed(frames', unw'),
         UNCHANGED <<sent, bind, ret, spoiled>>
  PROVE  GenInv'
<1>1. StackOK' /\ AimOK'
  BY DEF GenInv, StackOK, Kept, AimOK
<1>2. ModeOK'
  BY DEF GenInv, ModeOK, Suspended
<1>3. AwaitAnswered'
  BY DEF Kept, Quiet, AwaitAnswered, Pumping, Top, Depth
<1> QED BY <1>1, <1>2, <1>3 DEF GenInv

(***************************************************************************)
(* Statements.                                                             *)
(***************************************************************************)

LEMMA AtBlock ==
  ASSUME GenInv, Pumping({"block"})
  PROVE  /\ mode = "running" /\ unw = Normal /\ frames # << >> /\ StackOK /\ Quiet(frames)
         /\ bind = FALSE /\ ret = FALSE /\ Top.kind = "block" /\ Top.st = "none"
         /\ ~PendingFinally(Top) /\ Depth \in 1 .. MaxFrames
         /\ frames \in Seq(Frame) /\ Len(frames) <= MaxFrames /\ Depth = Len(frames)
<1>1. mode = "running" /\ unw = Normal /\ frames # << >> /\ StackOK /\ Top.kind = "block"
  BY DEF Pumping, Running, GenInv
<1>2. Quiet(frames)
  BY <1>1, TopFacts DEF Quiet, Awaiting
<1> QED BY <1>1, <1>2, TopFacts DEF GenInv, ModeOK, StackOK, Stack

LEMMA BlockSuspends ==
  ASSUME GenInv, StmtYield \/ StmtAwait \/ StmtReturnAwait
  PROVE  GenInv' /\ Once
<1>0. Pumping({"block"})
  BY DEF StmtYield, StmtAwait, StmtReturnAwait
<1>1. /\ UNCHANGED <<frames, scopes, unw, sent, spoiled>> /\ mode' \in {"yielded", "awaiting"}
      /\ bind' \in BOOLEAN /\ ret' \in BOOLEAN /\ ~(bind' /\ ret')
  <2>1. bind = FALSE /\ ret = FALSE
    BY <1>0, AtBlock
  <2> QED BY <2>1 DEF StmtYield, StmtAwait, StmtReturnAwait, Suspends
<1>2. StackOK' /\ AimOK'
  BY <1>0, <1>1, AtBlock DEF GenInv, StackOK, AimOK
<1>3. ModeOK'
  BY <1>0, <1>1, AtBlock DEF GenInv, ModeOK, Suspended, Top, Depth
<1>4. AwaitAnswered'
  BY <1>1 DEF AwaitAnswered, Pumping, Running
<1> QED BY <1>0, <1>1, <1>2, <1>3, <1>4, AtBlock, SameKept DEF GenInv, Kept

LEMMA BlockPushes ==
  ASSUME GenInv, StmtDelegate \/ StmtBlock \/ StmtIf \/ StmtLoop
  PROVE  GenInv' /\ Once
<1>1. /\ Pumping({"block"}) /\ Room(1) /\ UNCHANGED <<unw, mode, sent, bind, ret, spoiled>>
  <2>1. Pumping({"block"})
    BY DEF StmtLoop, StmtDelegate, StmtBlock, StmtIf
  <2>2. Depth \in Nat
    BY <2>1, AtBlock
  <2>3. Room(2) => Room(1)
    BY <2>2, FramesAssumption DEF Room
  <2> QED BY <2>1, <2>3 DEF StmtLoop, StmtDelegate, StmtBlock, StmtIf
<1>2. Depth < MaxFrames
  BY <1>1, AtBlock, FramesAssumption DEF Room
<1>3. CASE StmtDelegate
  <2>1. Kept
    BY <1>1, <1>2, <1>3, AtBlock, PushKept, FrameFacts DEF StmtDelegate, Awaiting, Loops
  <2> QED BY <1>1, <2>1, AtBlock, GoesOn DEF Kept
<1>4. CASE StmtBlock
  <2>1. PICK names \in SUBSET Label, label \in AnyLabel :
          /\ Recorded(label, names)
          /\ frames' = Append(frames, [Plain("block", label) EXCEPT !.names = names, !.owns = TRUE])
    BY <1>4 DEF StmtBlock
  <2> DEFINE f == [Plain("block", label) EXCEPT !.names = names, !.owns = TRUE]
  <2>2. f \in Frame /\ Shape(f) /\ Owns(f) /\ f.kind = "block" /\ f.st = "none"
    BY <2>1, NamedFrames
  <2>3. frames' = Append(frames, f) /\ scopes' = Append(scopes, Depth + 1)
    BY <1>4, <2>1 DEF StmtBlock
  <2> HIDE DEF f
  <2>4. Kept
    BY <1>1, <1>2, <2>2, <2>3, AtBlock, PushKept DEF Awaiting, Loops
  <2> QED BY <1>1, <2>4, AtBlock, GoesOn DEF Kept
<1>5. CASE StmtIf
  <2>1. PICK names \in SUBSET Label : frames' = Append(frames, [Body EXCEPT !.names = names])
    BY <1>5 DEF StmtIf
  <2> DEFINE f == [Body EXCEPT !.names = names]
  <2>2. f \in Frame /\ Shape(f) /\ ~Owns(f) /\ f.kind = "block" /\ f.st = "none"
    <3>1. \E label \in AnyLabel : Recorded(label, names)
      BY DEF AnyLabel, Recorded
    <3> QED BY <3>1, NamedFrames
  <2>3. frames' = Append(frames, f) /\ scopes' = scopes
    BY <1>5, <2>1 DEF StmtIf
  <2> HIDE DEF f
  <2>4. Kept
    BY <1>1, <1>2, <2>2, <2>3, AtBlock, PushKept DEF Awaiting, Loops
  <2> QED BY <1>1, <2>4, AtBlock, GoesOn DEF Kept
<1>6. CASE StmtLoop
  <2>1. PICK kind \in Loops, names \in SUBSET Label, label \in AnyLabel :
          /\ Recorded(label, names)
          /\ frames' = Append(frames, [Plain(kind, label) EXCEPT !.names = names])
          /\ scopes' = IF kind \in Scoped THEN Append(scopes, Depth + 1) ELSE scopes
    BY <1>6 DEF StmtLoop
  <2> DEFINE f == [Plain(kind, label) EXCEPT !.names = names]
  <2>2. /\ f \in Frame /\ Shape(f) /\ f.kind = kind /\ f.phase = "check" /\ f.st = "none"
        /\ Owns(f) <=> kind \in Scoped
    BY <2>1, NamedFrames
  <2>3. Depth + 1 < MaxFrames
    BY <1>1, <1>6, AtBlock, FramesAssumption DEF StmtLoop, Room
  <2>4. frames' = Append(frames, f)
        /\ scopes' = IF Owns(f) THEN Append(scopes, Depth + 1) ELSE scopes
    BY <2>1, <2>2
  <2> HIDE DEF f
  <2>5. Kept
    BY <1>1, <1>2, <2>2, <2>3, <2>4, AtBlock, PushKept
  <2> QED BY <1>1, <2>5, AtBlock, GoesOn DEF Kept
<1> QED BY <1>3, <1>4, <1>5, <1>6

(* A step that meets an error: it is routed, or it leaves the machine.     *)
LEMMA ErrorOn ==
  ASSUME GenInv, mode = "running", Stack(frames', scopes'), UNCHANGED <<sent, bind, ret>>,
         spoiled' \in BOOLEAN, ~spoiled' => ~spoiled,
         ~spoiled' /\ Matched(frames, scopes) => Matched(frames', scopes'),
         unw' \in Completion, unw' # Normal => mode' = "running" /\ Aimed(frames', unw'),
         mode' \in {"running", "escaped"}, mode' = "running" => unw' # Normal
  PROVE  GenInv'
<1>1. StackOK' /\ AimOK'
  BY DEF GenInv, StackOK, AimOK
<1>2. ModeOK'
  BY DEF GenInv, ModeOK, Suspended
<1>3. AwaitAnswered'
  BY DEF AwaitAnswered, Pumping, Running
<1> QED BY <1>1, <1>2, <1>3 DEF GenInv

LEMMA BlockFails ==
  ASSUME GenInv, ForInitFails \/ StmtFails
  PROVE  GenInv' /\ Once
<1>1. Pumping({"block"}) /\ UNCHANGED <<frames, sent, bind, ret>>
  BY DEF ForInitFails, StmtFails
<1>2. PICK error \in Error : RouteError(frames, error)
  BY DEF ForInitFails, StmtFails
<1>3. /\ unw' \in Completion /\ (unw' # Normal => mode' = "running" /\ Aimed(frames, unw'))
      /\ mode' \in {"running", "escaped"} /\ (mode' = "running" => unw' # Normal)
  BY <1>1, <1>2, AtBlock, RouteFacts
<1>5. CASE ForInitFails
  <2>1. Depth + 1 \in 1 .. MaxFrames
    BY <1>1, <1>5, AtBlock, FramesAssumption DEF ForInitFails, Room
  <2>2. scopes \in Seq(1 .. MaxFrames) /\ scopes' = Append(scopes, Depth + 1) /\ spoiled' = TRUE
    BY <1>5 DEF ForInitFails, GenInv, StackOK, Stack
  <2>3. Stack(frames', scopes')
    BY <1>1, <2>1, <2>2, PushFacts DEF GenInv, StackOK, Stack
  <2> QED BY <1>1, <1>3, <2>2, <2>3, AtBlock, ErrorOn DEF Once
<1>6. CASE StmtFails
  <2>1. Stack(frames', scopes') /\ UNCHANGED <<frames, scopes, spoiled>> /\ spoiled \in BOOLEAN
    BY <1>6 DEF StmtFails, GenInv, StackOK, ModeOK
  <2> QED BY <1>1, <1>3, <2>1, AtBlock, ErrorOn DEF Once
<1> QED BY <1>5, <1>6

LEMMA BlockEntersTry ==
  ASSUME GenInv, StmtTry
  PROVE  GenInv' /\ Once
<1>1. Pumping({"block"}) /\ UNCHANGED <<unw, mode, sent, bind, ret, spoiled>>
      /\ scopes' = Append(scopes, Depth + 1)
  BY DEF StmtTry
<1>2. PICK catch \in BOOLEAN, fin \in BOOLEAN, names \in SUBSET Label :
        frames' = frames \o <<[Plain("try", Anon) EXCEPT !.names = names, !.st = "trying",
                                                         !.catch = catch, !.fin = fin],
                              Body>>
  BY DEF StmtTry
<1> DEFINE f == [Plain("try", Anon) EXCEPT !.names = names, !.st = "trying",
                                           !.catch = catch, !.fin = fin]
           n == Append(frames, f)
<1>3. f \in Frame /\ Shape(f) /\ Owns(f) /\ f.kind = "try" /\ f.st = "trying"
  BY FrameFacts DEF Plain, Frame, Shape, Owns, AnyLabel
<1>4. frames' = Append(n, Body)
  BY <1>1, <1>2, <1>3, AtBlock, FrameFacts, TwoPushes
<1> HIDE DEF f
<1>5. Depth + 1 < MaxFrames /\ Depth = Len(frames) /\ Len(frames) \in Nat /\ MaxFrames \in Nat
  BY <1>1, AtBlock, FramesAssumption DEF StmtTry, Room
<1>6. frames \in Seq(Frame) /\ Stack(frames, scopes) /\ Quiet(frames)
  BY <1>1, AtBlock DEF GenInv, StackOK
<1>7. /\ Stack(n, scopes') /\ Len(n) = Len(frames) + 1 /\ Quiet(n) /\ n \in Seq(Frame)
      /\ Matched(frames, scopes) => Matched(n, scopes')
  <2>1. f.kind \notin Awaiting /\ Len(frames) < MaxFrames
    BY <1>3, <1>5 DEF Awaiting
  <2>2. scopes' = IF Owns(f) THEN Append(scopes, Len(frames) + 1) ELSE scopes
    BY <1>1, <1>3, <1>5
  <2> QED BY <1>3, <1>5, <1>6, <2>1, <2>2, PushStack, PushFacts
<1>8. \A i \in 1 .. Len(frames) : n[i] = frames[i]
  BY <1>3, <1>6, PushFacts
<1> HIDE DEF n
<1>9. /\ Stack(frames', scopes') /\ Quiet(frames') /\ Len(frames') = Len(n) + 1
      /\ Matched(n, scopes') => Matched(frames', scopes')
  <2>1. /\ Body \in Frame /\ Shape(Body) /\ ~Owns(Body) /\ Body.st # "finally"
        /\ Body.kind \notin Loops \cup {"try"} /\ Body.kind \notin Awaiting
    BY FrameFacts DEF Loops, Awaiting
  <2> QED BY <1>4, <1>5, <1>7, <2>1, PushStack
<1>10. Once
  <2>1. \A i \in 1 .. Len(n) : frames'[i] = n[i]
    BY <1>4, <1>7, FrameFacts, PushFacts
  <2>2. frames' \in Seq(Frame)
    BY <1>9 DEF Stack
  <2> QED BY <1>5, <1>6, <1>7, <1>8, <1>9, <2>1, <2>2, OnceGrown
<1>11. Kept
  BY <1>7, <1>9, <1>10 DEF Kept
<1> QED BY <1>1, <1>10, <1>11, AtBlock, GoesOn

LEMMA BlockGoes ==
  ASSUME GenInv, Pumping({"block"}), UNCHANGED <<frames, scopes, mode, sent, bind, ret, spoiled>>,
         unw' \in Completion, Aimed(frames, unw')
  PROVE  GenInv' /\ Once
<1>1. Kept
  BY AtBlock, SameKept
<1> QED BY <1>1, AtBlock, UnwindsOn DEF Kept

(* return, throw, break and continue are aimed at the last frame that      *)
(* stops them, unless their label is lost.                                 *)
LEMMA BlockJumps ==
  ASSUME GenInv, StmtJump \/ StmtSwitchJump
  PROVE  GenInv' /\ Once
<1>1. Pumping({"block"}) /\ UNCHANGED <<frames, scopes, mode, sent, bind, ret, spoiled>>
  BY DEF StmtJump, StmtSwitchJump
<1>2. frames \in Seq(Frame) /\ Len(frames) <= MaxFrames /\ Good(frames)
      /\ Depth + 1 \in 0 .. MaxFrames + 1
  BY <1>1, AtBlock, FramesAssumption DEF StackOK, Stack
<1>3. CASE StmtJump
  <2>1. PICK type \in {"return", "throw", "break", "continue"}, label \in AnyLabel :
          unw' = [Arises(frames, type, label) EXCEPT !.again = TRUE]
    BY <1>3 DEF StmtJump
  <2> QED BY <1>1, <1>2, <2>1, ArisesFacts, BlockGoes
<1>4. CASE StmtSwitchJump
  <2>1. PICK type \in {"break", "continue"}, label \in Label, own \in BOOLEAN :
          unw' = [Arises(frames, type, label) EXCEPT
                     !.target = IF own THEN Depth + 1 ELSE @,
                     !.label = Anon, !.lost = TRUE, !.again = TRUE]
    BY <1>4 DEF StmtSwitchJump
  <2>2. label \in AnyLabel /\ Anon \in AnyLabel
    BY DEF AnyLabel
  <2>3. Arises(frames, type, label) \in Completion
    BY <1>2, <2>2, ArisesFacts
  <2>4. unw' \in Completion /\ unw'.lost
    BY <1>2, <2>1, <2>2, <2>3 DEF Completion
  <2> QED BY <1>1, <2>4, BlockGoes DEF Aimed
<1> QED BY <1>3, <1>4

LEMMA BlockIsLeft ==
  ASSUME GenInv, BlockEnds
  PROVE  GenInv' /\ Once
<1>1. Pumping({"block"}) /\ PopFrame /\ UNCHANGED <<unw, mode, sent, bind, ret, spoiled>>
  BY DEF BlockEnds
<1>2. Kept
  BY <1>1, AtBlock, PopKept
<1> QED BY <1>1, <1>2, AtBlock, GoesOn DEF Kept

LEMMA StatementKeeps ==
  ASSUME GenInv, Statement
  PROVE  GenInv' /\ Once
BY BlockSuspends, BlockPushes, BlockFails, BlockEntersTry, BlockJumps, BlockIsLeft DEF Statement

(***************************************************************************)
(* The other frames.                                                       *)
(***************************************************************************)

LEMMA AtFrame ==
  ASSUME GenInv, NEW kinds, Pumping(kinds)
  PROVE  /\ mode = "running" /\ unw = Normal /\ frames # << >> /\ StackOK /\ Top.kind \in kinds
         /\ bind = FALSE /\ ret = FALSE
BY DEF Pumping, Running, GenInv, ModeOK

(* The top frame, a loop, goes to one of its phases.                       *)
LEMMA PhaseFacts ==
  ASSUME StackOK, frames # << >>, Top.kind \in Loops, NEW f \in {Top, In("check"), In("after")}
  PROVE  /\ f \in Frame /\ Shape(f) /\ f.st = "none" /\ f.kind = Top.kind
         /\ Owns(f) <=> Owns(Top)
         /\ f = In("check") => f.phase = "check"
<1>1. Top \in Frame /\ Shape(Top) /\ Top.st = "none"
  BY TopFacts DEF GoodAt, Loops
<1>2. CASE f = Top
  <2>1. f = In("check") => f.phase = "check"
    BY <1>1 DEF In, Frame
  <2> QED BY <1>1, <1>2, <2>1
<1>3. CASE f = In("check") \/ f = In("after")
  BY <1>1, <1>3 DEF In, Frame, Shape, Owns
<1> QED BY <1>2, <1>3

LEMMA LoopKept ==
  ASSUME StackOK, frames # << >>, Top.kind \in Loops, NEW f \in {Top, In("check"), In("after")},
         f.kind \in Awaiting => f = In("check"), Enter(f) \/ Stay(f)
  PROVE  Kept /\ (Stay(f) => Len(frames') = Depth)
<1>1. /\ f \in Frame /\ Shape(f) /\ f.st # "finally" /\ (Owns(f) <=> Owns(Top))
      /\ (f.kind \in Awaiting => f.phase = "check") /\ Top.st # "finally"
      /\ f.kind \in Loops \cup {"try"} => Top.kind \in Loops \cup {"try"}
  BY PhaseFacts
<1>2. scopes' = scopes /\ (frames' = Append(Below, f) \/ frames' = Below \o <<f, Body>>)
  BY DEF Enter, Stay
<1>3. Depth < MaxFrames
  BY TopFacts
<1>4. ASSUME frames' = Append(Below, f)  PROVE Kept /\ Len(frames') = Depth
  BY <1>1, <1>2, <1>4, SwapKept DEF Kept
<1>5. ASSUME frames' = Below \o <<f, Body>>  PROVE Kept
  BY <1>1, <1>2, <1>3, <1>5, SwapKept
<1> QED BY <1>2, <1>4, <1>5 DEF Stay

LEMMA LoopSteps ==
  ASSUME GenInv, WhileStep \/ DoWhileStep \/ ForStep \/ ForOfStep
  PROVE  GenInv' /\ Once
<1>1. Pumping({"while", "dowhile", "for", "forof"}) /\ UNCHANGED <<unw, mode, sent, bind, ret, spoiled>>
  BY DEF WhileStep, DoWhileStep, ForStep, ForOfStep, Pumping
<1>2. Top.kind \in Loops /\ Top.kind \notin Awaiting /\ Top.kind # "try"
  <2>1. Top.kind \in {"while", "dowhile", "for", "forof"}
    BY <1>1, AtFrame
  <2> QED BY <2>1 DEF Loops, Awaiting
<1>3. PopFrame \/ \E f \in {Top, In("check"), In("after")} : Enter(f) \/ Stay(f)
  BY DEF WhileStep, DoWhileStep, ForStep, ForOfStep
<1>4. Kept
  <2>1. CASE PopFrame
    BY <1>1, <1>2, <2>1, AtFrame, TopFacts, PopKept
  <2>2. CASE \E f \in {Top, In("check"), In("after")} : Enter(f) \/ Stay(f)
    <3>1. PICK f \in {Top, In("check"), In("after")} : Enter(f) \/ Stay(f)
      BY <2>2
    <3>2. f.kind \notin Awaiting
      BY <1>1, <1>2, AtFrame, PhaseFacts
    <3> QED BY <1>1, <1>2, <3>1, <3>2, AtFrame, LoopKept
  <2> QED BY <1>3, <2>1, <2>2
<1> QED BY <1>1, <1>4, AtFrame, GoesOn DEF Kept

(* A loop that awaits its items asks for one with nothing on top of it.    *)
LEMMA AwaitSteps ==
  ASSUME GenInv, AwaitNext \/ AwaitItem
  PROVE  GenInv' /\ Once
<1>1. Pumping(Awaiting) /\ UNCHANGED <<unw, bind, ret, spoiled>>
  BY DEF AwaitNext, AwaitItem
<1>2. Top.kind \in Awaiting /\ Top.kind \in Loops /\ Top.kind # "try"
  <2>1. Top.kind \in Awaiting
    BY <1>1, AtFrame
  <2> QED BY <2>1 DEF Loops, Awaiting
<1>3. CASE Stay(In("after")) /\ mode' = "awaiting" /\ sent' = sent
  <2> DEFINE f == In("after")
  <2>1. /\ f \in Frame /\ Shape(f) /\ f.st # "finally" /\ (Owns(f) <=> Owns(Top)) /\ Top.st # "finally"
        /\ f.kind = Top.kind
    BY <1>1, <1>2, AtFrame, PhaseFacts
  <2>2. scopes' = scopes /\ frames' = Append(Below, f)
    BY <1>3 DEF Stay
  <2> HIDE DEF f
  <2>3. /\ Stack(frames', scopes') /\ Once /\ frames' # << >> /\ frames'[Len(frames')] = f
        /\ Matched(frames, scopes) => Matched(frames', scopes')
    BY <1>1, <1>2, <2>1, <2>2, AtFrame, SwapKept
  <2>4. StackOK' /\ AimOK'
    BY <1>1, <1>3, <2>3, AtFrame DEF GenInv, StackOK, AimOK
  <2>5. ModeOK'
    BY <1>1, <1>2, <1>3, <2>1, <2>3, AtFrame DEF GenInv, ModeOK, Suspended, Top, Depth
  <2>6. AwaitAnswered'
    BY <1>3 DEF AwaitAnswered, Pumping, Running
  <2> QED BY <2>3, <2>4, <2>5, <2>6 DEF GenInv
<1>4. CASE PopFrame /\ mode' = mode /\ sent' \in {sent, "none"}
  <2>1. Kept
    BY <1>1, <1>2, <1>4, AtFrame, TopFacts, PopKept
  <2> QED BY <1>1, <1>4, <2>1, AtFrame, GoesOn DEF Kept
<1>5. CASE Enter(In("check")) /\ mode' = mode /\ sent' \in {sent, "none"}
  <2>1. Kept
    BY <1>1, <1>2, <1>5, AtFrame, LoopKept
  <2> QED BY <1>1, <1>5, <2>1, AtFrame, GoesOn DEF Kept
<1> QED BY <1>3, <1>4, <1>5 DEF AwaitNext, AwaitItem

LEMMA FrameSteps ==
  ASSUME GenInv, FrameFails \/ DelegateStep \/ PumpEnds
  PROVE  GenInv' /\ Once
<1>1. CASE FrameFails
  <2>1. /\ Pumping(Loops \cup {"delegate"}) /\ UNCHANGED <<frames, scopes, unw, bind, ret, spoiled>>
        /\ mode' = "escaped" /\ sent' \in {sent, "none"}
    BY <1>1 DEF FrameFails
  <2>2. StackOK' /\ AimOK' /\ ModeOK'
    BY <2>1, AtFrame DEF GenInv, StackOK, AimOK, ModeOK, Suspended
  <2>3. AwaitAnswered' /\ Once
    BY <2>1 DEF AwaitAnswered, Pumping, Running, Once
  <2> QED BY <2>2, <2>3 DEF GenInv
<1>2. CASE DelegateStep
  <2>1. Pumping({"delegate"}) /\ sent' = "none" /\ UNCHANGED <<unw, bind, ret, spoiled>>
    BY <1>2 DEF DelegateStep
  <2>2. CASE mode' = "yielded" /\ UNCHANGED <<frames, scopes>>
    <3>1. StackOK' /\ AimOK'
      BY <2>1, <2>2, AtFrame DEF GenInv, StackOK, AimOK
    <3>2. ModeOK'
      BY <2>1, <2>2, AtFrame DEF GenInv, ModeOK, Suspended, Top, Depth
    <3>3. AwaitAnswered' /\ Once
      BY <2>2 DEF AwaitAnswered, Pumping, Running, Once
    <3> QED BY <3>1, <3>2, <3>3 DEF GenInv
  <2>3. CASE PopFrame /\ UNCHANGED mode
    <3>1. frames # << >> /\ StackOK /\ Top.kind = "delegate"
      BY <2>1 DEF Pumping, GenInv
    <3>2. Kept
      BY <2>3, <3>1, TopFacts, PopKept
    <3> QED BY <2>1, <2>3, <3>2, AtFrame, GoesOn DEF Kept
  <2> QED BY <1>2, <2>2, <2>3 DEF DelegateStep
<1>3. CASE PumpEnds
  <2>1. /\ Running /\ mode' = "done"
        /\ UNCHANGED <<frames, scopes, unw, sent, bind, ret, spoiled>>
    BY <1>3 DEF PumpEnds
  <2>2. StackOK' /\ AimOK' /\ ModeOK'
    BY <2>1 DEF GenInv, StackOK, AimOK, ModeOK, Running, Suspended
  <2>3. AwaitAnswered' /\ Once
    BY <2>1 DEF AwaitAnswered, Pumping, Running, Once
  <2> QED BY <2>2, <2>3 DEF GenInv
<1> QED BY <1>1, <1>2, <1>3

(* A try statement begins its finally block: its scope goes, and what the  *)
(* block saves is aimed below it.                                          *)
LEMMA FinallyKept ==
  ASSUME StackOK, frames # << >>, Top.kind = "try", Top.st \in {"trying", "catching"},
         NEW c \in Completion, Aimed(Below, c), scopes' = PopScope,
         frames' = Below \o <<[Top EXCEPT !.st = "finally", !.saved = c], Body>>
  PROVE  /\ Kept /\ Len(frames') = Depth + 1
         /\ frames'[Depth].st = "finally" /\ frames'[Depth].saved = c
<1> DEFINE b == Cut(frames)
           f == [Top EXCEPT !.st = "finally", !.saved = c]
           n == Append(b, f)
<1>1. /\ frames \in Seq(Frame) /\ Depth = Len(frames) /\ Top = frames[Len(frames)] /\ Below = b
      /\ Top \in Frame /\ Shape(Top) /\ Len(frames) \in Nat \ {0} /\ Len(frames) < MaxFrames
      /\ Stack(frames, scopes) /\ scopes' = Cut(scopes)
  BY TopFacts, Cuts DEF StackOK, Stack, GoodAt
<1>2. f \in Frame /\ Shape(f) /\ f.kind = "try" /\ f.st = "finally" /\ f.saved = c /\ ~Owns(f) /\ Owns(Top)
  BY <1>1 DEF Frame, Shape, Owns, Scoped
<1>3. /\ Stack(b, scopes') /\ Quiet(b) /\ Len(b) = Len(frames) - 1 /\ b \in Seq(Frame)
      /\ Matched(frames, scopes) => Matched(b, scopes')
      /\ \A i \in 1 .. Len(frames) - 1 : b[i] = frames[i]
  <2>1. /\ Stack(b, scopes') /\ Quiet(b) /\ Len(b) = Len(frames) - 1
        /\ Matched(frames, scopes) => Matched(b, scopes')
    BY <1>1, <1>2, PopStack
  <2> QED BY <1>1, <2>1, CutFacts
<1>4. frames' = Append(n, Body)
  BY <1>1, <1>2, <1>3, TwoPushes, FrameFacts
<1> HIDE DEF f, b
<1>5. /\ Stack(n, scopes') /\ Len(n) = Len(frames) /\ n[Len(frames)] = f /\ Quiet(n) /\ n \in Seq(Frame)
      /\ Matched(b, scopes') => Matched(n, scopes')
      /\ \A i \in 1 .. Len(frames) - 1 : n[i] = b[i]
  <2>1. Aimed(b, f.saved) /\ f.kind \notin Awaiting /\ Len(b) < MaxFrames /\ Len(b) + 1 < MaxFrames
    BY <1>1, <1>2, <1>3, FramesAssumption DEF Awaiting
  <2>2. /\ Stack(n, scopes') /\ Len(n) = Len(b) + 1 /\ n[Len(n)] = f /\ Quiet(n)
        /\ Matched(b, scopes') => Matched(n, scopes')
    BY <1>2, <1>3, <2>1, PushStack
  <2>3. n \in Seq(Frame) /\ \A i \in 1 .. Len(b) : n[i] = b[i]
    BY <1>2, <1>3, PushFacts
  <2> QED BY <1>1, <1>3, <2>2, <2>3
<1> HIDE DEF n
<1>6. /\ Stack(frames', scopes') /\ Quiet(frames') /\ Len(frames') = Len(n) + 1
      /\ Matched(n, scopes') => Matched(frames', scopes')
  <2>1. /\ Body \in Frame /\ Shape(Body) /\ ~Owns(Body) /\ Body.st # "finally"
        /\ Body.kind \notin Loops \cup {"try"} /\ Body.kind \notin Awaiting
    BY FrameFacts DEF Loops, Awaiting
  <2>2. Len(n) < MaxFrames /\ Stack(n, scopes') /\ Quiet(n)
    BY <1>1, <1>5
  <2>3. LET m == Append(n, Body)
        IN  /\ Stack(m, scopes') /\ Quiet(m) /\ Len(m) = Len(n) + 1
            /\ Matched(n, scopes') => Matched(m, scopes')
    BY <2>1, <2>2, PushStack
  <2> QED BY <1>4, <2>3
<1>7. frames' \in Seq(Frame) /\ \A i \in 1 .. Len(n) : frames'[i] = n[i]
  <2>1. Body \in Frame
    BY FrameFacts
  <2>2. n \in Seq(Frame)
    BY <1>5
  <2>3. Append(n, Body) \in Seq(Frame) /\ \A i \in 1 .. Len(n) : Append(n, Body)[i] = n[i]
    BY <2>1, <2>2, PushFacts
  <2> QED BY <1>4, <2>3
<1>8. Once
  <2>1. \A i \in 1 .. Len(frames) : frames[i].st = "finally" => frames'[i] = frames[i]
    <3>1. \A i \in 1 .. Len(frames) : i \in 1 .. Len(frames) - 1 \/ i = Len(frames)
      BY <1>1
    <3> QED BY <1>1, <1>3, <1>5, <1>7, <3>1
  <2> QED BY <1>1, <1>5, <1>6, <1>7, <2>1, OnceGrown
<1>9. frames'[Len(frames)] = f
  <2>1. Len(frames) \in 1 .. Len(n)
    BY <1>1, <1>5
  <2> QED BY <1>5, <1>7, <2>1
<1> QED BY <1>1, <1>2, <1>3, <1>5, <1>6, <1>8, <1>9 DEF Kept

LEMMA TrySteps ==
  ASSUME GenInv, TryEnds \/ FinallyEnds
  PROVE  GenInv' /\ Once
<1>1. Pumping({"try"}) /\ UNCHANGED <<sent, bind, ret, spoiled>>
  BY DEF TryEnds, FinallyEnds
<1>2. /\ mode = "running" /\ unw = Normal /\ frames # << >> /\ StackOK /\ Top.kind = "try"
      /\ Top \in Frame /\ GoodAt(frames, Depth) /\ Top.st # "none" /\ Top = frames[Depth]
  <2>1. mode = "running" /\ unw = Normal /\ frames # << >> /\ StackOK /\ Top.kind = "try"
    BY <1>1 DEF Pumping, Running, GenInv
  <2>2. Top \in Frame /\ GoodAt(frames, Depth) /\ Top = frames[Depth]
    BY <2>1, TopFacts
  <2> QED BY <2>1, <2>2 DEF GoodAt, Shape
<1>3. CASE TryEnds /\ Top.fin
  <2>1. Top.st \in {"trying", "catching"}
    BY <1>2, <1>3 DEF TryEnds, Frame
  <2>2. Aimed(Below, Normal) /\ Normal \in Completion
    <3>1. Stoppers(Below, "normal", Anon) = {}
      BY DEF Stoppers
    <3> QED BY <3>1, FrameFacts DEF Aimed, IsLast, Normal
  <2>3. /\ frames' = Below \o <<[Top EXCEPT !.st = "finally", !.saved = Normal], Body>>
        /\ scopes' = PopScope /\ UNCHANGED <<unw, mode>>
    BY <1>3 DEF TryEnds
  <2>4. Kept
    BY <1>2, <2>1, <2>2, <2>3, FinallyKept
  <2> QED BY <1>1, <1>2, <2>3, <2>4, GoesOn DEF Kept
<1>4. CASE TryEnds /\ ~Top.fin
  <2>1. PopFrame /\ UNCHANGED <<unw, mode>> /\ ~PendingFinally(Top)
    BY <1>4 DEF TryEnds, PendingFinally
  <2>2. Kept
    BY <1>2, <2>1, PopKept
  <2> QED BY <1>1, <1>2, <2>1, <2>2, GoesOn DEF Kept
<1>5. CASE FinallyEnds /\ Top.saved.type = "return"
  <2>1. frames' = << >> /\ mode' = "done" /\ UNCHANGED <<scopes, unw>> /\ Top.st = "finally"
    BY <1>5 DEF FinallyEnds
  <2>2. DOMAIN frames' = {} /\ frames' \in Seq(Frame) /\ Len(frames') = 0
    BY <2>1
  <2>3. Stack(frames', scopes')
    BY <1>2, <2>1, <2>2, FramesAssumption DEF StackOK, Stack, Good
  <2>4. StackOK' /\ AimOK' /\ ModeOK'
    BY <1>1, <1>2, <2>1, <2>3 DEF GenInv, StackOK, AimOK, ModeOK, Suspended
  <2>5. AwaitAnswered'
    BY <2>1 DEF AwaitAnswered, Pumping, Running
  <2>6. Once
    BY <1>5, <2>1, <2>2 DEF Once
  <2> QED BY <2>4, <2>5, <2>6 DEF GenInv
<1>6. CASE FinallyEnds /\ Top.saved.type # "return"
  <2>1. PopFrame /\ unw' = Top.saved /\ UNCHANGED mode /\ Top.st = "finally"
    BY <1>6 DEF FinallyEnds
  <2>2. AimedUnder(frames, Depth, Top.saved) /\ Top.saved \in Completion /\ ~PendingFinally(Top)
    BY <1>2, <2>1 DEF GoodAt, Frame, PendingFinally
  <2>3. Kept /\ Aimed(frames', Top.saved)
    BY <1>2, <2>1, <2>2, PopKept
  <2> QED BY <1>1, <1>2, <2>1, <2>2, <2>3, UnwindsOn DEF Kept
<1> QED BY <1>3, <1>4, <1>5, <1>6 DEF TryEnds

LEMMA PumpKeeps ==
  ASSUME GenInv, Pump
  PROVE  GenInv' /\ Once
BY LoopSteps, AwaitSteps, FrameSteps, TrySteps DEF Pump

(***************************************************************************)
(* Unwinding.                                                              *)
(***************************************************************************)

(* What a completion meets at the top of the stack, and where it is meant  *)
(* to go: no higher than the top, and to the top just when that stops it.  *)
LEMMA AtUnwind ==
  ASSUME GenInv, mode = "running", unw # Normal, frames # << >>
  PROVE  /\ StackOK /\ unw \in Completion /\ Aimed(frames, unw)
         /\ Top \in Frame /\ Shape(Top) /\ Top = frames[Depth] /\ Depth \in Nat \ {0}
         /\ ~unw.lost /\ Depth \in Stoppers(frames, unw.type, unw.label) => unw.target = Depth
         /\ ~unw.lost /\ Depth \notin Stoppers(frames, unw.type, unw.label) => unw.target < Depth
         /\ Depth \in Stoppers(frames, unw.type, unw.label)
              <=> \/ unw.type = "throw" /\ Top.st = "trying" /\ Top.catch
                  \/ unw.type \in {"break", "continue"} /\ Top.kind \in Loops
                     /\ unw.label \in {Anon, Top.label}
                  \/ unw.type = "break" /\ Top.kind = "block" /\ unw.label # Anon
                     /\ unw.label = Top.label
<1>1. StackOK /\ unw \in Completion /\ Aimed(frames, unw)
  BY DEF GenInv, AimOK
<1>2. /\ Top \in Frame /\ Shape(Top) /\ Top = frames[Depth] /\ Depth \in Nat \ {0}
      /\ frames \in Seq(Frame) /\ Depth = Len(frames) /\ DOMAIN frames = 1 .. Depth
  BY <1>1, TopFacts DEF GoodAt, StackOK, Stack
<1> DEFINE S == Stoppers(frames, unw.type, unw.label)
<1>3. S \in SUBSET (1 .. Depth) /\ (~unw.lost => IsLast(unw.target, S))
  BY <1>1, <1>2 DEF Stoppers, Aimed
<1>4. Depth \in S
        <=> \/ unw.type = "throw" /\ Top.st = "trying" /\ Top.catch
            \/ unw.type \in {"break", "continue"} /\ Top.kind \in Loops
               /\ unw.label \in {Anon, Top.label}
            \/ unw.type = "break" /\ Top.kind = "block" /\ unw.label # Anon
               /\ unw.label = Top.label
  BY <1>2 DEF Stoppers
<1> HIDE DEF S
<1>5. ~unw.lost => (Depth \in S => unw.target = Depth) /\ (Depth \notin S => unw.target < Depth)
  <2> SUFFICES ASSUME ~unw.lost
               PROVE  (Depth \in S => unw.target = Depth) /\ (Depth \notin S => unw.target < Depth)
    OBVIOUS
  <2>1. CASE S = {}
    BY <1>2, <1>3, <2>1 DEF IsLast
  <2>2. CASE S # {}
    <3>1. unw.target \in S /\ unw.target \in 1 .. Depth /\ \A i \in S : i <= unw.target
      BY <1>3, <2>2 DEF IsLast
    <3> QED BY <1>2, <3>1
  <2> QED BY <2>1, <2>2
<1> QED BY <1>1, <1>2, <1>4, <1>5 DEF S

LEMMA ToCatch ==
  ASSUME GenInv, UnwindToCatch
  PROVE  GenInv' /\ Once /\ (unw.lost \/ Lands(unw))
<1> DEFINE f == [Top EXCEPT !.st = "catching"]
<1>1. /\ mode = "running" /\ unw # Normal /\ frames # << >> /\ Top.kind = "try" /\ Caught
      /\ scopes' = scopes /\ frames' = Below \o <<f, Body>> /\ unw' = Normal
      /\ UNCHANGED <<mode, sent, bind, ret, spoiled>>
  BY DEF UnwindToCatch, Unwinding, Enter
<1>2. /\ StackOK /\ Top \in Frame /\ Shape(Top) /\ Depth \in Nat \ {0} /\ (~unw.lost => unw.target = Depth)
      /\ unw.type = "throw" /\ Top.st = "trying"
  BY <1>1, AtUnwind DEF Caught
<1>3. f \in Frame /\ Shape(f) /\ f.kind = "try" /\ f.st = "catching" /\ (Owns(f) <=> Owns(Top))
  BY <1>1, <1>2 DEF Frame, Shape, Owns
<1> HIDE DEF f
<1>4. Kept /\ Len(frames') = Depth + 1 /\ frames'[Depth] = f
  <2>1. f.kind \notin Awaiting
    BY <1>3 DEF Awaiting
  <2>2. Depth < MaxFrames
    BY <1>1, <1>2, TopFacts
  <2> QED BY <1>1, <1>2, <1>3, <2>1, <2>2, SwapKept
<1>5. unw.lost \/ Lands(unw)
  BY <1>2, <1>3, <1>4 DEF Lands
<1> QED BY <1>1, <1>4, <1>5, GoesOn DEF Kept

LEMMA ToFinally ==
  ASSUME GenInv, UnwindToFinally
  PROVE  GenInv' /\ Once /\ (unw.lost \/ Lands(unw))
<1> DEFINE c == [unw EXCEPT !.again = FALSE]
<1>1. /\ mode = "running" /\ unw # Normal /\ frames # << >> /\ Top.kind = "try" /\ ~Caught
      /\ Top.st \in {"trying", "catching"} /\ scopes' = PopScope /\ unw' = Normal
      /\ frames' = Below \o <<[Top EXCEPT !.st = "finally", !.saved = c], Body>>
      /\ UNCHANGED <<mode, sent, bind, ret, spoiled>>
  BY DEF UnwindToFinally, Unwinding
<1>2. /\ StackOK /\ unw \in Completion /\ Aimed(frames, unw) /\ Depth \in Nat \ {0}
      /\ Depth \notin Stoppers(frames, unw.type, unw.label) /\ (~unw.lost => unw.target < Depth)
  BY <1>1, AtUnwind DEF Caught, Loops
<1>3. c \in Completion /\ c.type = unw.type /\ c.label = unw.label /\ c.target = unw.target
      /\ c.lost = unw.lost
  BY <1>2 DEF Completion
<1>4. Aimed(Below, c)
  <2>1. Below = Cut(frames) /\ Depth = Len(frames)
    BY <1>1, <1>2, TopFacts, Cuts
  <2>2. Aimed(Below, unw)
    BY <1>1, <1>2, <2>1, PopStack DEF StackOK
  <2> QED BY <1>3, <2>2 DEF Aimed
<1> HIDE DEF c
<1>5. Kept /\ Len(frames') = Depth + 1 /\ frames'[Depth].st = "finally" /\ frames'[Depth].saved = c
  BY <1>1, <1>2, <1>3, <1>4, FinallyKept
<1>6. unw.lost \/ Lands(unw)
  <2>1. Len(frames') - 1 = Depth /\ (~unw.lost => Depth > unw.target) /\ unw.target \in Nat
    BY <1>2, <1>5, FramesAssumption DEF Completion
  <2> QED BY <1>5, <2>1 DEF Lands, c
<1> QED BY <1>1, <1>5, <1>6, GoesOn DEF Kept

(* A completion leaves a frame that does not stop it, and goes on; or one  *)
(* that stops it, and is over.                                             *)
LEMMA Leaving ==
  ASSUME GenInv, mode = "running", unw # Normal, frames # << >>, ~PendingFinally(Top), PopFrame,
         UNCHANGED <<mode, sent, bind, ret, spoiled>>,
         \/ unw' = unw /\ Depth \notin Stoppers(frames, unw.type, unw.label)
         \/ unw' = Normal /\ unw.type = "break" /\ Depth \in Stoppers(frames, unw.type, unw.label)
  PROVE  GenInv' /\ Once /\ (unw' # unw => unw.lost \/ Lands(unw))
<1>1. StackOK /\ unw \in Completion /\ Aimed(frames, unw) /\ Depth \in Nat \ {0}
  BY AtUnwind
<1>2. Kept /\ Len(frames') = Depth - 1
  BY <1>1, PopKept
<1>3. CASE unw' = unw /\ Depth \notin Stoppers(frames, unw.type, unw.label)
  <2>1. Aimed(frames', unw)
    BY <1>1, <1>3, PopKept
  <2> QED BY <1>1, <1>2, <1>3, <2>1, UnwindsOn DEF Kept
<1>4. CASE unw' = Normal /\ unw.type = "break" /\ Depth \in Stoppers(frames, unw.type, unw.label)
  <2>1. ~unw.lost => unw.target = Depth
    BY <1>4, AtUnwind
  <2>2. unw.lost \/ Lands(unw)
    BY <1>1, <1>2, <1>4, <2>1 DEF Lands
  <2> QED BY <1>2, <1>4, <2>2, GoesOn DEF Kept
<1> QED BY <1>3, <1>4

LEMMA LeavesFrame ==
  ASSUME GenInv, UnwindTry \/ UnwindLoop \/ UnwindBlock
  PROVE  GenInv' /\ Once /\ (unw' # unw => unw.lost \/ Lands(unw))
<1>1. /\ mode = "running" /\ unw # Normal /\ frames # << >> /\ PopFrame
      /\ UNCHANGED <<mode, sent, bind, ret, spoiled>>
  BY DEF UnwindTry, UnwindLoop, UnwindBlock, Unwinding
<1>2. Top \in Frame /\ Shape(Top) /\ unw \in Completion
  BY <1>1, AtUnwind
<1>3. CASE UnwindTry
  <2>1. Top.kind = "try" /\ ~Caught /\ unw' = unw /\ (Top.st = "finally" \/ ~Top.fin)
    BY <1>3 DEF UnwindTry, Unwinding
  <2>2. Depth \notin Stoppers(frames, unw.type, unw.label)
    BY <1>1, <2>1, AtUnwind DEF Caught, Loops
  <2>3. ~PendingFinally(Top)
    BY <2>1 DEF PendingFinally
  <2> QED BY <1>1, <2>1, <2>2, <2>3, Leaving
<1>4. CASE UnwindLoop
  <2>1. /\ Top.kind \in Loops /\ Leaves
        /\ unw' = IF unw.type = "break" /\ Matches(Top, unw) THEN Normal ELSE unw
    BY <1>4 DEF UnwindLoop, Unwinding
  <2>2. Top.st = "none" /\ ~PendingFinally(Top) /\ Top.kind # "block"
    BY <1>2, <2>1 DEF Shape, PendingFinally, Loops
  <2>3. Depth \in Stoppers(frames, unw.type, unw.label) <=> unw.type = "break" /\ Matches(Top, unw)
    BY <1>1, <2>1, <2>2, AtUnwind DEF Leaves, Matches
  <2> QED BY <1>1, <2>1, <2>2, <2>3, Leaving
<1>5. CASE UnwindBlock
  <2>1. Top.kind = "block" /\ unw' = IF Matches(Top, unw) THEN Normal ELSE unw
    BY <1>5 DEF UnwindBlock, Unwinding
  <2>2. Top.st = "none" /\ ~PendingFinally(Top) /\ Top.kind \notin Loops
    BY <1>2, <2>1 DEF Shape, PendingFinally, Loops
  <2>3. /\ Depth \in Stoppers(frames, unw.type, unw.label) <=> Matches(Top, unw)
        /\ Matches(Top, unw) => unw.type = "break"
    BY <1>1, <2>1, <2>2, AtUnwind DEF Matches
  <2> QED BY <1>1, <2>1, <2>2, <2>3, Leaving
<1> QED BY <1>3, <1>4, <1>5

LEMMA Continues ==
  ASSUME GenInv, UnwindContinue
  PROVE  GenInv' /\ Once /\ (unw.lost \/ Lands(unw))
<1>1. /\ mode = "running" /\ unw # Normal /\ frames # << >> /\ Top.kind \in Loops
      /\ unw.type = "continue" /\ Matches(Top, unw) /\ unw' = Normal
      /\ UNCHANGED <<mode, sent, bind, ret, spoiled>>
  BY DEF UnwindContinue, Unwinding
<1>2. StackOK /\ Depth \in Nat \ {0} /\ (~unw.lost => unw.target = Depth)
  <2>1. Top.kind # "block"
    BY <1>1 DEF Loops
  <2> QED BY <1>1, <2>1, AtUnwind DEF Matches
<1>3. PICK f \in {Top, In("check"), In("after")} :
        /\ Stay(f) /\ (Top.kind \in Awaiting => f = In("check"))
        /\ Top.kind = "for" => f = In("after")
        /\ Top.kind \in {"while", "forawait", "forawaitsync"} => f = In("check")
  BY DEF UnwindContinue, Awaiting
<1>4. f.kind = Top.kind /\ f \in Frame /\ NextTurn(f)
  <2>1. f.kind = Top.kind /\ f \in Frame /\ Top \in Frame
    BY <1>1, <1>2, PhaseFacts, TopFacts
  <2>2. In("after").phase = "after" /\ In("check").phase = "check"
    BY <2>1 DEF In, Frame
  <2> QED BY <1>1, <1>3, <2>1, <2>2 DEF NextTurn
<1>5. Kept /\ Len(frames') = Depth
  BY <1>1, <1>2, <1>3, <1>4, LoopKept
<1>6. frames'[Depth] = f
  <2>1. Below \in Seq(Frame) /\ Len(Below) = Depth - 1
    <3>1. frames \in Seq(Frame) /\ frames # << >> /\ Depth = Len(frames) /\ Below = Cut(frames)
      BY <1>1, <1>2, TopFacts, Cuts DEF StackOK, Stack
    <3> QED BY <3>1, CutFacts
  <2>2. Append(Below, f)[Len(Below) + 1] = f
    BY <1>4, <2>1, PushFacts
  <2>3. frames' = Append(Below, f) /\ Len(Below) + 1 = Depth
    BY <1>2, <1>3, <2>1 DEF Stay
  <2> QED BY <2>2, <2>3
<1>7. unw.lost \/ Lands(unw)
  BY <1>1, <1>2, <1>4, <1>5, <1>6 DEF Lands
<1> QED BY <1>1, <1>5, <1>7, GoesOn DEF Kept

LEMMA CloseFails ==
  ASSUME GenInv, UnwindCloseFails
  PROVE  GenInv' /\ Once /\ (unw.lost \/ Lands(unw))
<1>1. /\ mode = "running" /\ unw # Normal /\ frames # << >> /\ Top.kind = "forawait"
      /\ frames' = Below /\ spoiled' = TRUE /\ ~spoiled /\ UNCHANGED <<scopes, sent, bind, ret>>
  BY DEF UnwindCloseFails, Unwinding
<1>2. PICK error : RouteError(Below, error) \/ Escape
  BY DEF UnwindCloseFails
<1>3. StackOK /\ Top \in Frame /\ Shape(Top) /\ ~PendingFinally(Top)
  <2>1. StackOK /\ Top \in Frame /\ Shape(Top)
    BY <1>1, AtUnwind
  <2> QED BY <1>1, <2>1 DEF Shape, PendingFinally
<1>4. Stack(frames', scopes')
  BY <1>1, <1>3, Cuts, PopStack DEF StackOK
<1>5. /\ unw' \in Completion /\ (unw' # Normal => mode' = "running" /\ Aimed(frames', unw'))
      /\ mode' \in {"running", "escaped"} /\ (mode' = "running" => unw' # Normal)
  <2>1. Below \in Seq(Frame) /\ Len(Below) <= MaxFrames
    BY <1>1, <1>4 DEF Stack
  <2> QED BY <1>1, <1>2, <2>1, RouteFacts
<1>6. GenInv'
  BY <1>1, <1>4, <1>5, ErrorOn
<1>7. Lands(unw)
  BY <1>1 DEF Lands
<1> QED BY <1>1, <1>3, <1>6, <1>7, OncePopped

LEMMA AtDelegate ==
  ASSUME GenInv, UnwindDelegate
  PROVE  GenInv' /\ Once /\ (unw' # unw => unw.lost \/ Lands(unw))
<1>1. /\ mode = "running" /\ unw # Normal /\ frames # << >> /\ Top.kind = "delegate"
      /\ UNCHANGED <<sent, bind, ret, spoiled>>
  BY DEF UnwindDelegate, Unwinding
<1>2. StackOK /\ Top \in Frame /\ Shape(Top)
  BY <1>1, AtUnwind
<1>3. CASE mode' \in {"yielded", "escaped"} /\ unw' = Normal /\ UNCHANGED <<frames, scopes>>
  <2>1. StackOK' /\ AimOK'
    BY <1>1, <1>3, FrameFacts DEF GenInv, StackOK, AimOK
  <2>2. ModeOK'
    BY <1>1, <1>3 DEF GenInv, ModeOK, Suspended, Top, Depth
  <2>3. AwaitAnswered' /\ Once /\ Lands(unw)
    BY <1>1, <1>3 DEF AwaitAnswered, Pumping, Running, Once, Lands
  <2> QED BY <2>1, <2>2, <2>3 DEF GenInv
<1>4. CASE PopFrame /\ UNCHANGED <<unw, mode>>
  <2>1. Top.st = "none" /\ ~PendingFinally(Top) /\ Top.kind \notin Loops
    BY <1>1, <1>2 DEF Shape, PendingFinally, Loops
  <2>2. Depth \notin Stoppers(frames, unw.type, unw.label)
    BY <1>1, <2>1, AtUnwind
  <2> QED BY <1>1, <1>4, <2>1, <2>2, Leaving
<1> QED BY <1>3, <1>4 DEF UnwindDelegate, Escape

LEMMA Ends ==
  ASSUME GenInv, UnwindEnds
  PROVE  GenInv' /\ Once /\ (unw.lost \/ Lands(unw))
<1>1. /\ mode = "running" /\ unw # Normal /\ frames = << >> /\ unw' = Normal
      /\ mode' = IF unw.type \in {"throw", "return"} THEN "done" ELSE "escaped"
      /\ UNCHANGED <<frames, scopes, sent, bind, ret, spoiled>>
  BY DEF UnwindEnds, Escape
<1>2. StackOK' /\ AimOK' /\ ModeOK'
  BY <1>1, FrameFacts DEF GenInv, StackOK, AimOK, ModeOK, Suspended
<1>3. AwaitAnswered' /\ Once
  BY <1>1 DEF AwaitAnswered, Pumping, Running, Once
<1>4. (~unw.lost => unw.target = 0) /\ Len(frames') = 0
  <2>1. Aimed(frames, unw) /\ Stoppers(frames, unw.type, unw.label) = {}
    BY <1>1 DEF GenInv, AimOK, Stoppers
  <2> QED BY <1>1, <2>1 DEF Aimed, IsLast
<1>5. unw.lost \/ Lands(unw)
  BY <1>1, <1>4 DEF Lands
<1> QED BY <1>2, <1>3, <1>5 DEF GenInv

LEMMA UnwindKeeps ==
  ASSUME GenInv, Unwind
  PROVE  GenInv' /\ Once /\ (unw' # unw => unw.lost \/ Lands(unw))
BY ToCatch, ToFinally, LeavesFrame, Continues, CloseFails, AtDelegate, Ends DEF Unwind

(***************************************************************************)
(* The caller.                                                             *)
(***************************************************************************)

LEMMA AtRest ==
  ASSUME GenInv, mode \in Suspended
  PROVE  unw = Normal /\ StackOK /\ frames \in Seq(Frame) /\ Len(frames) <= MaxFrames
BY DEF GenInv, AimOK, StackOK, Stack, Suspended

(* Nothing but the answer to its own await, or what is sent after an       *)
(* error, is in pending_send when a for await is on top and goes on.       *)
LEMMA Sends ==
  ASSUME GenInv, ResumeSend
  PROVE  GenInv' /\ Once /\ unw = Normal
<1>1. /\ mode \in Suspended /\ mode' = "running" /\ ret' = FALSE /\ bind' = (bind /\ ret)
      /\ sent' = IF ret \/ bind THEN sent ELSE Answers
      /\ UNCHANGED <<frames, scopes, spoiled>>
  BY DEF ResumeSend
<1>2. unw = Normal /\ StackOK /\ ModeOK
  BY <1>1, AtRest DEF GenInv
<1>3. \/ ret /\ unw' = Arises(frames, "return", Anon)
      \/ ~ret /\ unw' = Normal
  BY <1>2 DEF ResumeSend, ModeOK
<1>4. AimOK'
  <2>1. Anon \in AnyLabel
    BY DEF AnyLabel
  <2>2. unw' = Arises(frames, "return", Anon) => unw' \in Completion /\ Aimed(frames, unw')
    BY <1>1, <2>1, AtRest, ArisesFacts
  <2> QED BY <1>1, <1>3, <2>2, FrameFacts DEF AimOK
<1>5. StackOK'
  BY <1>1, <1>2 DEF StackOK, Suspended
<1>6. Answers \in {"none", "start", "late", "loop", "block", "delegate"}
  <2>1. mode = "start" \/ mode = "escaped" \/ Top.kind \in Loops \/ Top.kind \in {"block", "delegate"}
    BY <1>1, <1>2 DEF ModeOK, Suspended, Awaiting, Loops
  <2> QED BY <2>1 DEF Answers
<1>7. bind' = FALSE
  BY <1>1, <1>2 DEF ModeOK
<1>8. ModeOK'
  BY <1>1, <1>2, <1>6, <1>7 DEF ModeOK
<1>9. AwaitAnswered'
  <2>1. SUFFICES ASSUME Top.kind \in Awaiting PROVE sent' \in {"loop", "late"}
    BY <1>1 DEF AwaitAnswered, Pumping, Top, Depth
  <2>2. Top.kind # "block" /\ Top.kind \in Loops
    BY <2>1 DEF Awaiting, Loops
  <2>3. ~bind /\ ~ret /\ mode # "start"
    BY <1>2, <2>2 DEF ModeOK
  <2>4. Answers \in {"loop", "late"}
    BY <2>2, <2>3 DEF Answers
  <2> QED BY <1>1, <2>3, <2>4
<1> QED BY <1>1, <1>2, <1>4, <1>5, <1>8, <1>9 DEF GenInv, Once

LEMMA Aborts ==
  ASSUME GenInv, ResumeAbrupt
  PROVE  GenInv' /\ Once /\ unw = Normal
<1>1. /\ mode \in Suspended /\ mode' = "running" /\ ret' = FALSE /\ bind' = FALSE /\ sent' = "none"
      /\ UNCHANGED <<frames, scopes, spoiled>>
  BY DEF ResumeAbrupt
<1>2. PICK type \in {"throw", "return"} : unw' = Arises(frames, type, Anon)
  BY DEF ResumeAbrupt
<1>3. Anon \in AnyLabel /\ unw = Normal /\ StackOK /\ ModeOK
  BY <1>1, AtRest DEF AnyLabel, GenInv
<1>4. unw' \in Completion /\ unw' # Normal /\ Aimed(frames, unw')
  BY <1>1, <1>2, <1>3, AtRest, ArisesFacts
<1>5. StackOK' /\ AimOK'
  BY <1>1, <1>3, <1>4 DEF StackOK, AimOK, Suspended
<1>6. ModeOK'
  BY <1>1, <1>3 DEF ModeOK
<1>7. AwaitAnswered'
  BY <1>4 DEF AwaitAnswered, Pumping, Running
<1> QED BY <1>1, <1>3, <1>5, <1>6, <1>7 DEF GenInv, Once

(***************************************************************************)
(* The machine.                                                            *)
(***************************************************************************)

LEMMA GenStarts == GenInit => GenInv
<1> SUFFICES ASSUME GenInit PROVE GenInv
  OBVIOUS
<1>1. /\ frames = <<Body>> /\ scopes = << >> /\ unw = Normal /\ mode = "start" /\ sent = "none"
      /\ bind = FALSE /\ ret = FALSE /\ spoiled = FALSE
  BY DEF GenInit
<1>2. /\ frames \in Seq(Frame) /\ Len(frames) = 1 /\ DOMAIN frames = {1} /\ frames[1] = Body
      /\ frames # << >> /\ Top = Body
  BY <1>1, FrameFacts DEF Top, Depth
<1>3. Shape(Body) /\ ~Owns(Body) /\ Body.kind = "block" /\ Body.st = "none"
  BY FrameFacts
<1>4. Good(frames)
  BY <1>2, <1>3 DEF Good, GoodAt, Loops, Awaiting
<1>5. Matched(frames, scopes)
  BY <1>1, <1>2, <1>3 DEF Matched, Lists, OwnersOf
<1>6. Stack(frames, scopes)
  BY <1>1, <1>2, <1>4, FramesAssumption DEF Stack
<1>7. StackOK /\ AimOK
  BY <1>1, <1>5, <1>6, FrameFacts DEF StackOK, AimOK
<1>8. ModeOK
  BY <1>1, <1>2, <1>3 DEF ModeOK, Suspended
<1>9. AwaitAnswered
  BY <1>1 DEF AwaitAnswered, Pumping, Running
<1> QED BY <1>7, <1>8, <1>9 DEF GenInv

(* Every step keeps the invariant, lets no finally block be passed over,   *)
(* and stops a completion only where it was meant to go.                   *)
LEMMA GenSteps ==
  ASSUME GenInv, [GenNext]_genVars
  PROVE  GenInv' /\ Once /\ (unw # Normal /\ unw' # unw => unw.lost \/ Lands(unw))
<1>1. CASE Statement \/ Pump
  <2>1. unw = Normal
    BY <1>1 DEF Statement, Pump, Pumping, Running, BlockEnds, StmtYield, StmtAwait,
         StmtReturnAwait, StmtDelegate, StmtBlock, StmtIf, StmtLoop, ForInitFails, StmtTry,
         StmtJump, StmtSwitchJump, StmtFails, WhileStep, DoWhileStep, ForStep, ForOfStep,
         AwaitNext, AwaitItem, FrameFails, DelegateStep, TryEnds, FinallyEnds, PumpEnds
  <2> QED BY <1>1, <2>1, StatementKeeps, PumpKeeps
<1>2. CASE Unwind
  BY <1>2, UnwindKeeps
<1>3. CASE ResumeSend \/ ResumeAbrupt
  BY <1>3, Sends, Aborts
<1>4. CASE UNCHANGED genVars
  <2>1. UNCHANGED <<frames, scopes, unw, mode, sent, bind, ret, spoiled>>
    BY <1>4 DEF genVars
  <2>2. StackOK' /\ AimOK'
    BY <2>1 DEF GenInv, StackOK, AimOK
  <2>3. ModeOK'
    BY <2>1 DEF GenInv, ModeOK, Suspended, Top, Depth
  <2>4. AwaitAnswered'
    BY <2>1 DEF GenInv, AwaitAnswered, Pumping, Running, Top, Depth
  <2> QED BY <2>1, <2>2, <2>3, <2>4 DEF GenInv, Once
<1> QED BY <1>1, <1>2, <1>3, <1>4 DEF GenNext, Completed

LEMMA GenInvariant == GenSpec => []GenInv
<1>1. GenInv /\ [GenNext]_genVars => GenInv'
  BY GenSteps
<1> QED BY <1>1, GenStarts, PTL DEF GenSpec

(* The variables have their types, and the answer to an await statement is *)
(* awaited for only while the body is suspended at that statement          *)
(* (pending_bind and pending_return).                                      *)
THEOREM GenTyped == GenSpec => []GenTypeOK
<1>1. GenInv => GenTypeOK
  BY DEF GenInv, GenTypeOK, StackOK, Stack, AimOK, ModeOK, Depth
<1> QED BY <1>1, GenInvariant, PTL

(* By whatever path statements are left, by their end or by unwinding, the *)
(* scopes on the environment are those of the statements still in          *)
(* progress, in their order, unless one of the two errors that leave a     *)
(* scope behind has happened.                                              *)
THEOREM ScopesFollow == GenSpec => []ScopesMatch
<1>1. GenInv => ScopesMatch
  BY DEF GenInv, ScopesMatch, StackOK, Matched, Lists, OwnersOf, Owners
<1> QED BY <1>1, GenInvariant, PTL

(* for await never takes a value that was sent at another suspension for   *)
(* its item.                                                               *)
THEOREM ItemsAnswer == GenSpec => []AwaitAnswered
<1>1. GenInv => AwaitAnswered
  BY DEF GenInv
<1> QED BY <1>1, GenInvariant, PTL

(* A finally block is begun once, and is passed over only by a return that *)
(* ends an inner finally block.                                            *)
THEOREM FinallyBegins == GenSpec => FinallyOnce
<1>1. GenInv /\ [GenNext]_genVars => Once
  BY GenSteps
<1>2. GenInv /\ [GenNext]_genVars =>
        [\A i \in DOMAIN frames :
          /\ PendingFinally(frames[i]) /\ i \notin DOMAIN frames'
                => Top.st = "finally" /\ Top.saved.type = "return" /\ frames' = << >>
          /\ frames[i].st = "finally" /\ i \in DOMAIN frames' => frames'[i] = frames[i]]_genVars
  BY <1>1 DEF Once
<1> QED BY <1>2, GenInvariant, PTL DEF GenSpec, FinallyOnce

(* The unwinding of a completion whose label the machine has not lost      *)
(* stops where the language means it to go, at the next turn of the loop a *)
(* continue names; in a finally block inside of that with the completion   *)
(* saved; at a delegated yield that takes it over; or by the error of a    *)
(* failing close.  (The labels of if, try and switch statements, and all   *)
(* but the last of nested labels, are lost; and do-while goes on with its  *)
(* body where the language has its condition.)                             *)
THEOREM EveryCompletionLands == GenSpec => CompletionLands
<1>1. GenInv /\ [GenNext]_genVars => [unw # Normal /\ unw' # unw => unw.lost \/ Lands(unw)]_genVars
  BY GenSteps
<1> QED BY <1>1, GenInvariant, PTL DEF GenSpec, CompletionLands

=============================================================================
