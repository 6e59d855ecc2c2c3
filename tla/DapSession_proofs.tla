------------------------- MODULE DapSession_proofs -------------------------
(***************************************************************************)
(* What holds of a debug session for every program, any lines, any depth   *)
(* of calls and any requests of the client: the types of the state, that   *)
(* the right to go on is one token, that a step lands where it was asked   *)
(* to, and that no request is lost or answered out of turn.                *)
(***************************************************************************)
EXTENDS DapSession, SequenceTheorems, FiniteSetTheorems, TLAPS

(***************************************************************************)
(* Queues.                                                                 *)
(***************************************************************************)

LEMMA Longer ==
  ASSUME NEW S, NEW q \in Seq(S), NEW m \in S
  PROVE  /\ Append(q, m) \in Seq(S) /\ Append(q, m) # << >>
         /\ Len(q) \in Nat /\ DOMAIN q = 1 .. Len(q)
         /\ Len(Append(q, m)) = Len(q) + 1
         /\ DOMAIN Append(q, m) = DOMAIN q \cup {Len(q) + 1}
         /\ Append(q, m)[Len(q) + 1] = m
         /\ \A i \in DOMAIN q : Append(q, m)[i] = q[i]
<1>1. Len(q) \in Nat /\ DOMAIN q = 1 .. Len(q)
  OBVIOUS
<1>2. DOMAIN Append(q, m) = 1 .. Len(q) + 1
  OBVIOUS
<1>3. 1 .. Len(q) + 1 = (1 .. Len(q)) \cup {Len(q) + 1}
  BY <1>1
<1> QED BY <1>1, <1>2, <1>3

LEMMA Shorter ==
  ASSUME NEW S, NEW q \in Seq(S), q # << >>
  PROVE  /\ Tail(q) \in Seq(S) /\ Head(q) \in S
         /\ 1 \in DOMAIN q /\ Head(q) = q[1]
         /\ Len(q) \in Nat /\ Len(Tail(q)) = Len(q) - 1 /\ DOMAIN q = 1 .. Len(q)
         /\ \A i \in DOMAIN Tail(q) : i + 1 \in DOMAIN q /\ i + 1 # 1 /\ Tail(q)[i] = q[i + 1]
         /\ \A j \in DOMAIN q \ {1} : j - 1 \in DOMAIN Tail(q) /\ Tail(q)[j - 1] = q[j]
<1>1. Len(q) \in Nat /\ DOMAIN q = 1 .. Len(q) /\ Len(q) # 0
  OBVIOUS
<1>2. Tail(q) \in Seq(S) /\ Head(q) \in S /\ Len(Tail(q)) = Len(q) - 1 /\ Head(q) = q[1]
  BY <1>1
<1>3. DOMAIN Tail(q) = 1 .. Len(q) - 1
  BY <1>2
<1>4. \A i \in 1 .. Len(q) - 1 : Tail(q)[i] = q[i + 1]
  BY <1>1, <1>2
<1> QED BY <1>1, <1>2, <1>3, <1>4

(* The stops reported in a queue.                                          *)
StopsIn(q) == {i \in DOMAIN q : q[i].kind = "stopped"}
Lone(q) == \A i, j \in StopsIn(q) : i = j
Place(q, p) == \A i \in StopsIn(q) : q[i].info = p
Ended(q) == \E i \in DOMAIN q : q[i].kind = "exited"

LEMMA AddOther ==
  ASSUME NEW q \in Seq(Incoming), NEW m \in Incoming, m.kind # "stopped"
  PROVE  /\ StopsIn(Append(q, m)) = StopsIn(q)
         /\ Lone(q) => Lone(Append(q, m))
         /\ \A p : Place(q, p) => Place(Append(q, m), p)
         /\ Ended(Append(q, m)) => Ended(q) \/ m.kind = "exited"
<1>1. StopsIn(Append(q, m)) = StopsIn(q)
  BY Longer DEF StopsIn
<1>2. \A p : Place(q, p) => Place(Append(q, m), p)
  BY <1>1, Longer DEF StopsIn, Place
<1>3. Ended(Append(q, m)) => Ended(q) \/ m.kind = "exited"
  BY Longer DEF Ended
<1> QED BY <1>1, <1>2, <1>3 DEF Lone

LEMMA AddStop ==
  ASSUME NEW q \in Seq(Incoming), NEW m \in Incoming, m.kind = "stopped", StopsIn(q) = {}
  PROVE  /\ StopsIn(Append(q, m)) # {}
         /\ Lone(Append(q, m)) /\ Place(Append(q, m), m.info)
         /\ Ended(Append(q, m)) => Ended(q)
<1>1. StopsIn(Append(q, m)) = {Len(q) + 1}
  BY Longer DEF StopsIn
<1>2. Ended(Append(q, m)) => Ended(q)
  BY Longer DEF Ended
<1> QED BY <1>1, <1>2, Longer DEF Lone, Place

LEMMA TakeOther ==
  ASSUME NEW q \in Seq(Incoming), q # << >>, Head(q).kind # "stopped"
  PROVE  /\ StopsIn(Tail(q)) = {} <=> StopsIn(q) = {}
         /\ Lone(q) => Lone(Tail(q))
         /\ \A p : Place(q, p) => Place(Tail(q), p)
         /\ Ended(Tail(q)) => Ended(q)
<1>1. \A i \in StopsIn(Tail(q)) : i + 1 \in StopsIn(q) /\ Tail(q)[i] = q[i + 1] /\ i \in Int
  BY Shorter DEF StopsIn
<1>2. \A j \in StopsIn(q) : j - 1 \in StopsIn(Tail(q))
  BY Shorter DEF StopsIn
<1>3. Ended(Tail(q)) => Ended(q)
  BY Shorter DEF Ended
<1>4. Lone(q) => Lone(Tail(q))
  BY <1>1 DEF Lone
<1>5. \A p : Place(q, p) => Place(Tail(q), p)
  BY <1>1 DEF Place
<1> QED BY <1>1, <1>2, <1>3, <1>4, <1>5

LEMMA TakeStop ==
  ASSUME NEW q \in Seq(Incoming), q # << >>, Head(q).kind = "stopped", Lone(q)
  PROVE  /\ StopsIn(q) # {} /\ StopsIn(Tail(q)) = {}
         /\ \A p : Place(q, p) => Head(q).info = p
         /\ Ended(Tail(q)) => Ended(q)
<1>1. 1 \in StopsIn(q) /\ Head(q) = q[1]
  BY Shorter DEF StopsIn
<1>2. \A i \in StopsIn(Tail(q)) : i + 1 \in StopsIn(q) /\ i + 1 # 1
  BY Shorter DEF StopsIn
<1>3. Ended(Tail(q)) => Ended(q)
  BY Shorter DEF Ended
<1> QED BY <1>1, <1>2, <1>3 DEF Lone, Place

(***************************************************************************)
(* Types.                                                                  *)
(***************************************************************************)

LEMMA ReportType ==
  /\ \A r \in Request : FromClient(r) \in Incoming /\ FromClient(r).kind = "client"
                        /\ FromClient(r).request = r
  /\ \A p \in Position : [kind |-> "stopped", info |-> p] \in Incoming
  /\ \A k \in {"exited", "eof"} : [kind |-> k] \in Incoming
BY DEF Incoming, Report, FromClient

LEMMA IncomingShape ==
  ASSUME NEW m \in Incoming
  PROVE  /\ m.kind \in {"client", "stopped", "exited", "eof"}
         /\ m.kind = "client" => m.request \in Request
         /\ m.kind = "stopped" => m.info \in Position
<1>1. CASE \E r \in Request : m = FromClient(r)
  BY <1>1, ReportType
<1>2. CASE m \in [kind : {"stopped"}, info : Position]
  BY <1>2
<1>3. CASE m \in [kind : {"exited", "eof"}]
  BY <1>3
<1> QED BY <1>1, <1>2, <1>3 DEF Incoming, Report

LEMMA RequestShape ==
  ASSUME NEW r \in Request
  PROVE  /\ r.id \in 1 .. MaxRequests
         /\ r.command \in Step \cup {"launch", "configurationDone", "inspect", "pause", "disconnect",
                                     "setBreakpoints"}
         /\ r.command = "setBreakpoints" => r.lines \in BreakpointLines
BY DEF Request, Step

LEMMA DepthFacts ==
  /\ MaxDepth \in Nat /\ MaxRequests \in Nat
  /\ \A p \in Position \cup {Nowhere} : p.depth \in 0 .. MaxDepth
BY DapBoundsAssumption DEF Position, Nowhere

LEMMA AnswerType ==
  ASSUME NEW r \in Request, NEW n \in Nat, answers \in [1 .. MaxRequests -> Nat], Answer(r, n)
  PROVE  answers' \in [1 .. MaxRequests -> Nat]
BY RequestShape DEF Answer

LEMMA TypeInit == DapInit => DapTypeOK
<1> SUFFICES ASSUME DapInit PROVE DapTypeOK
  OBVIOUS
<1>1. << >> \in Seq(Request) /\ << >> \in Seq(Incoming) /\ << >> \in Seq(Step \cup {"Terminate"})
  OBVIOUS
<1>2. 0 \in 0 .. MaxDepth /\ 0 \in 0 .. MaxRequests /\ answers \in [1 .. MaxRequests -> Nat]
  BY DepthFacts DEF DapInit
<1>3. {} \in SUBSET StatementLine /\ "Continue" \in Step
  BY DEF Step
<1> QED BY <1>1, <1>2, <1>3 DEF DapInit, DapTypeOK

(* What a request does, whether it was deferred or not.                    *)
LEMMA TypeHandle ==
  ASSUME DapTypeOK, NEW r \in Request, NEW rest \in Seq(Request), HandleClient(r, rest),
         events' \in Seq(Incoming), UNCHANGED <<sent, hungUp>>
  PROVE  DapTypeOK'
<1> USE DEF DapTypeOK
<1>1. CASE Launch(r, rest)
  <2>1. answers' \in [1 .. MaxRequests -> Nat]
    BY <1>1, AnswerType DEF Launch
  <2>2. launched' \in BOOLEAN
    BY <1>1 DEF Launch
  <2> QED BY <1>1, <2>1, <2>2 DEF Launch, shared, debuggee
<1>2. CASE SetBreakpoints(r, rest)
  <2>1. breakpoints' \in SUBSET StatementLine
    BY <1>2 DEF SetBreakpoints, Resolve
  <2> QED BY <1>2, <2>1, AnswerType DEF SetBreakpoints, debuggee
<1>3. CASE ConfigurationDone(r, rest)
  <2>1. answers' \in [1 .. MaxRequests -> Nat]
    BY <1>3, AnswerType DEF ConfigurationDone
  <2> QED BY <1>3, <2>1 DEF ConfigurationDone, shared, Step
<1>4. CASE Inspect(r, rest)
  BY <1>4, AnswerType DEF Inspect, shared, debuggee
<1>5. CASE Resume(r, rest)
  <2>1. answers' \in [1 .. MaxRequests -> Nat]
    BY <1>5, AnswerType DEF Resume
  <2>2. /\ Append(resume, r.command) \in Seq(Step \cup {"Terminate"})
        /\ <<r.command, stopped.depth>> \in Step \X (0 .. MaxDepth)
    BY <1>5, DepthFacts DEF Resume
  <2>3. CASE state = "Stopped"
    <3>1. resume' \in Seq(Step \cup {"Terminate"}) /\ asked' \in Step \X (0 .. MaxDepth)
      BY <1>5, <2>2, <2>3 DEF Resume
    <3>2. /\ stopped' = Nowhere /\ state' = "Running" /\ deferred' = rest
          /\ UNCHANGED <<launched, stopOnEntry, over, pauseFlag, breakpoints>>
          /\ UNCHANGED <<pc, quiet, at, entryPending, action, baseline>>
      BY <1>5, <2>3 DEF Resume, debuggee
    <3> QED BY <2>1, <3>1, <3>2
  <2>4. CASE state # "Stopped"
    BY <1>5, <2>1, <2>4 DEF Resume, debuggee
  <2> QED BY <2>3, <2>4
<1>6. CASE Pause(r, rest)
  BY <1>6, AnswerType DEF Pause, debuggee
<1>7. CASE Disconnect(r)
  BY <1>7, AnswerType DEF Disconnect, BeginTerminate, debuggee
<1> QED BY <1>1, <1>2, <1>3, <1>4, <1>5, <1>6, <1>7 DEF HandleClient

LEMMA TypeSession == DapTypeOK /\ (Session \/ OutputFails) => DapTypeOK'
<1> SUFFICES ASSUME DapTypeOK, Session \/ OutputFails PROVE DapTypeOK'
  OBVIOUS
<1> USE DEF DapTypeOK
<1>1. events # << >> => Tail(events) \in Seq(Incoming) /\ Head(events) \in Incoming
  OBVIOUS
<1>2. CASE TakeRequest
  <2> DEFINE r == Head(events).request
  <2>1. r \in Request /\ events' \in Seq(Incoming)
    BY <1>1, <1>2, IncomingShape DEF TakeRequest, Taking
  <2>2. CASE Defer(r)
    BY <1>2, <2>1, <2>2 DEF Defer, TakeRequest, shared, debuggee
  <2>3. CASE HandleClient(r, deferred)
    BY <1>2, <2>1, <2>3, TypeHandle DEF TakeRequest
  <2> QED BY <1>2, <2>2, <2>3 DEF TakeRequest
<1>3. CASE DrainDeferred
  <2>1. Head(deferred) \in Request /\ Tail(deferred) \in Seq(Request)
    BY <1>3 DEF DrainDeferred, Draining
  <2> QED BY <1>3, <2>1, TypeHandle DEF DrainDeferred
<1>4. CASE TakeStopped
  BY <1>1, <1>4, IncomingShape DEF TakeStopped, Taking, shared, debuggee, history
<1>5. CASE TakeExited
  BY <1>1, <1>5 DEF TakeExited, Taking, shared, debuggee, history
<1>6. CASE TakeEof
  BY <1>1, <1>6 DEF TakeEof, Taking, BeginTerminate, debuggee
<1>7. CASE EndTerminate
  BY <1>7 DEF EndTerminate, debuggee, history
<1>8. CASE OutputFails
  BY <1>8 DEF OutputFails, shared, debuggee, history
<1> QED BY <1>2, <1>3, <1>4, <1>5, <1>6, <1>7, <1>8 DEF Session

LEMMA TypeDebuggee == DapTypeOK /\ Debuggee => DapTypeOK'
<1> SUFFICES ASSUME DapTypeOK, Debuggee PROVE DapTypeOK'
  OBVIOUS
<1> USE DEF DapTypeOK
<1>1. CASE LoadFails \/ Finish
  <2>1. Exits
    BY <1>1 DEF LoadFails, Finish
  <2>2. events' \in Seq(Incoming)
    BY <2>1, ReportType, AppendProperties DEF Exits
  <2>3. pc' = "over" /\ quiet' = FALSE /\ UNCHANGED <<at, entryPending, action, baseline>>
    BY <2>1 DEF Exits
  <2>4. UNCHANGED <<session, shared, history>>
    BY <2>1 DEF Exits
  <2>5. UNCHANGED <<state, launched, stopOnEntry, stopped, deferred, over>>
    BY <2>4 DEF session
  <2>6. UNCHANGED <<resume, pauseFlag, breakpoints, sent, answers, hungUp, asked>>
    BY <2>4 DEF shared, history
  <2>7. /\ state' \in {"Configuring", "Running", "Stopped", "Exited"}
        /\ launched' \in BOOLEAN /\ stopOnEntry' \in BOOLEAN
        /\ stopped' \in Position \cup {Nowhere}
        /\ deferred' \in Seq(Request)
        /\ over' \in {"no", "ending", "yes"}
    BY <2>5
  <2>8. /\ resume' \in Seq(Step \cup {"Terminate"})
        /\ pauseFlag' \in BOOLEAN /\ breakpoints' \in SUBSET StatementLine
        /\ sent' \in 0 .. MaxRequests /\ answers' \in [1 .. MaxRequests -> Nat]
        /\ hungUp' \in BOOLEAN /\ asked' \in Step \X (0 .. MaxDepth)
    BY <2>6
  <2>9. /\ pc' \in {"none", "loading", "running", "waiting", "over"}
        /\ quiet' \in BOOLEAN /\ at' \in Position \cup {Nowhere} /\ entryPending' \in BOOLEAN
        /\ action' \in Step \cup {"Terminate"} /\ baseline' \in 0 .. MaxDepth
    BY <2>3
  <2> QED BY <2>2, <2>7, <2>8, <2>9
<1>2. CASE Load
  BY <1>2 DEF Load, session, shared, history
<1>3. ASSUME NEW p \in Position, Statement(p)  PROVE DapTypeOK'
  <2>1. Append(events, [kind |-> "stopped", info |-> p]) \in Seq(Incoming)
    BY ReportType, AppendProperties
  <2> QED BY <1>3, <2>1 DEF Statement, session, history
<1>4. CASE Recv
  <2>1. Head(resume) \in Step \cup {"Terminate"} /\ Tail(resume) \in Seq(Step \cup {"Terminate"})
    BY <1>4 DEF Recv
  <2> QED BY <1>4, <2>1, DepthFacts DEF Recv, session, history
<1>5. CASE RecvFails
  BY <1>5, DepthFacts DEF RecvFails, session, shared, history
<1>6. CASE Quietly
  BY <1>6 DEF Quietly, session, shared, history
<1>7. CASE Fails /\ ~Exits
  BY <1>7 DEF Fails, session, shared, history
<1> QED BY <1>1, <1>2, <1>3, <1>4, <1>5, <1>6, <1>7 DEF Debuggee, Goes, Fails, Finish

LEMMA TypeNext == DapTypeOK /\ [DapNext]_dapVars => DapTypeOK'
<1> SUFFICES ASSUME DapTypeOK, [DapNext]_dapVars PROVE DapTypeOK'
  OBVIOUS
<1>1. CASE Ask
  <2>1. events' \in Seq(Incoming) /\ sent' \in 0 .. MaxRequests
    BY <1>1, ReportType, DepthFacts, AppendProperties DEF Ask, DapTypeOK
  <2> QED BY <1>1, <2>1 DEF Ask, DapTypeOK, session, shared, debuggee
<1>2. CASE HangUp
  <2>1. events' \in Seq(Incoming)
    BY <1>2, ReportType, AppendProperties DEF HangUp, DapTypeOK
  <2> QED BY <1>2, <2>1 DEF HangUp, DapTypeOK, session, shared, debuggee
<1>3. CASE UNCHANGED dapVars
  BY <1>3 DEF DapTypeOK, dapVars, session, shared, debuggee, history
<1> QED BY <1>1, <1>2, <1>3, TypeSession, TypeDebuggee DEF DapNext

(***************************************************************************)
(* The token and the step it carries.                                      *)
(***************************************************************************)

(* OneToken is not inductive alone: it needs that a report tells where the *)
(* program is, that the session configures exactly while there is no       *)
(* program, and that the end is reported only by a program that is over.   *)
Token ==
    over = "no" =>
        /\ Lone(events) /\ Place(events, at)
        /\ Len(resume) <= 1
        /\ StopsIn(events) # {} => state # "Stopped" /\ resume = << >>
        /\ state = "Stopped" => resume = << >> /\ stopped = at
        /\ pc = "waiting" <=> StopsIn(events) # {} \/ state = "Stopped" \/ resume # << >>
        /\ state = "Configuring" <=> pc = "none"
        /\ Ended(events) => pc = "over"

(* The resumption that was asked for is the command in the channel, seen   *)
(* from the place the program waits at, and then what the program does.    *)
Aim ==
    over = "no" =>
        /\ pc \in {"none", "loading"} => asked[1] = "Continue"
        /\ pc = "running" => asked[1] = "Continue" \/ asked = <<action, baseline>>
        /\ resume # << >> => asked = <<Head(resume), at.depth>>

TokenInv == DapTypeOK /\ Token /\ Aim

LEMMA TokenInit == DapInit => Token /\ Aim
<1> SUFFICES ASSUME DapInit PROVE Token /\ Aim
  OBVIOUS
<1>1. StopsIn(events) = {} /\ ~Ended(events) /\ Len(resume) = 0
  BY DEF DapInit, StopsIn, Ended
<1> QED BY <1>1 DEF DapInit, Token, Aim, Lone, Place

(* The queue changed by something that is no report of a stop.             *)
SameStops ==
    /\ StopsIn(events') = {} <=> StopsIn(events) = {}
    /\ Lone(events) => Lone(events')
    /\ \A p : Place(events, p) => Place(events', p)

LEMMA TokenHandle ==
  ASSUME TokenInv, NEW r, NEW rest, HandleClient(r, rest), SameStops, Ended(events') => Ended(events),
         over = "no"
  PROVE  Token' /\ Aim'
<1> USE DEF TokenInv, SameStops, Token, Aim
<1>1. CASE Launch(r, rest) \/ SetBreakpoints(r, rest) \/ Inspect(r, rest) \/ Pause(r, rest)
  BY <1>1 DEF Launch, SetBreakpoints, Inspect, Pause, shared, debuggee
<1>2. CASE ConfigurationDone(r, rest)
  <2>1. CASE pc = "none" /\ launched
    BY <1>2, <2>1 DEF ConfigurationDone, shared
  <2>2. CASE ~(pc = "none" /\ launched)
    BY <1>2, <2>2 DEF ConfigurationDone, shared
  <2> QED BY <2>1, <2>2
<1>3. CASE Resume(r, rest)
  <2>1. CASE state = "Stopped"
    <3>1. resume = << >> /\ stopped = at /\ StopsIn(events) = {} /\ pc = "waiting"
      BY <2>1
    <3>2. resume' = <<r.command>> /\ asked' = <<r.command, at.depth>> /\ state' = "Running"
          /\ UNCHANGED <<over, pc, at, action, baseline>>
      BY <1>3, <2>1, <3>1 DEF Resume, debuggee
    <3>3. Len(resume') = 1 /\ resume' # << >> /\ Head(resume') = r.command
      BY <3>2
    <3> QED BY <3>1, <3>2, <3>3
  <2>2. CASE state # "Stopped"
    BY <1>3, <2>2 DEF Resume, debuggee
  <2> QED BY <2>1, <2>2
<1>4. CASE Disconnect(r)
  BY <1>4 DEF Disconnect, BeginTerminate
<1> QED BY <1>1, <1>2, <1>3, <1>4 DEF HandleClient

LEMMA TokenSession == TokenInv /\ (Session \/ OutputFails) => Token' /\ Aim'
<1> SUFFICES ASSUME TokenInv, Session \/ OutputFails PROVE Token' /\ Aim'
  OBVIOUS
<1>1. events \in Seq(Incoming)
  BY DEF TokenInv, DapTypeOK
<1>2. CASE TakeRequest
  <2> DEFINE r == Head(events).request
  <2>1. SameStops /\ (Ended(events') => Ended(events)) /\ over = "no"
    BY <1>1, <1>2, TakeOther DEF TakeRequest, Taking, SameStops
  <2>2. CASE Defer(r)
    BY <2>1, <2>2 DEF Defer, SameStops, TokenInv, Token, Aim, shared, debuggee
  <2>3. CASE HandleClient(r, deferred)
    BY <2>1, <2>3, TokenHandle
  <2> QED BY <1>2, <2>2, <2>3 DEF TakeRequest
<1>3. CASE DrainDeferred
  BY <1>3, TokenHandle DEF DrainDeferred, SameStops
<1>4. CASE TakeStopped
  <2>1. over = "no" /\ events # << >> /\ Head(events).kind = "stopped" /\ events' = Tail(events)
    BY <1>4 DEF TakeStopped, Taking
  <2>2. StopsIn(events) # {} /\ StopsIn(events') = {} /\ Head(events).info = at
        /\ (Ended(events') => Ended(events))
    BY <1>1, <2>1, TakeStop DEF TokenInv, Token
  <2> QED BY <1>4, <2>1, <2>2
          DEF TakeStopped, TokenInv, Token, Aim, Lone, Place, shared, debuggee, history
<1>5. CASE TakeExited
  <2>1. over = "no" /\ events # << >> /\ Head(events).kind = "exited" /\ events' = Tail(events)
    BY <1>5 DEF TakeExited, Taking
  <2>2. SameStops /\ Ended(events) /\ (Ended(events') => Ended(events))
    BY <1>1, <2>1, TakeOther, Shorter DEF SameStops, Ended
  <2> QED BY <1>5, <2>1, <2>2
          DEF TakeExited, TokenInv, Token, Aim, SameStops, shared, debuggee, history
<1>6. CASE TakeEof \/ EndTerminate \/ OutputFails
  BY <1>6 DEF TakeEof, BeginTerminate, EndTerminate, OutputFails, Token, Aim
<1> QED BY <1>2, <1>3, <1>4, <1>5, <1>6 DEF Session

LEMMA TokenDebuggee == TokenInv /\ Debuggee => Token' /\ Aim'
<1> SUFFICES ASSUME TokenInv, Debuggee PROVE Token' /\ Aim'
  OBVIOUS
<1>1. events \in Seq(Incoming) /\ resume \in Seq(Step \cup {"Terminate"})
  BY DEF TokenInv, DapTypeOK
<1>2. CASE LoadFails \/ Finish
  <2>1. Exits /\ pc \in {"loading", "running"}
    BY <1>2 DEF LoadFails, Finish
  <2>2. SameStops
    BY <1>1, <2>1, ReportType, AddOther DEF Exits, SameStops
  <2> QED BY <2>1, <2>2
          DEF Exits, SameStops, TokenInv, Token, Aim, session, shared, history
<1>3. CASE Load
  BY <1>3 DEF Load, TokenInv, Token, Aim, session, shared, history
<1>4. ASSUME NEW p \in Position, Statement(p)  PROVE Token' /\ Aim'
  <2>1. pc = "running" /\ at' = p /\ UNCHANGED <<over, state, stopped, resume, action, baseline, asked>>
    BY <1>4 DEF Statement, session, history
  <2>2. over = "no" => StopsIn(events) = {} /\ state # "Stopped" /\ resume = << >>
    BY <2>1 DEF TokenInv, Token
  <2>3. CASE Stops(p)
    <3>1. events' = Append(events, [kind |-> "stopped", info |-> p]) /\ pc' = "waiting"
      BY <1>4, <2>3 DEF Statement
    <3>2. over = "no" => StopsIn(events') # {} /\ Lone(events') /\ Place(events', p)
                         /\ (Ended(events') => Ended(events))
      BY <1>1, <2>2, <3>1, ReportType, AddStop
    <3> QED BY <2>1, <2>2, <3>1, <3>2 DEF TokenInv, Token, Aim
  <2>4. CASE ~Stops(p)
    <3>1. UNCHANGED <<events, pc>>
      BY <1>4, <2>4 DEF Statement
    <3> QED BY <2>1, <2>2, <3>1 DEF TokenInv, Token, Aim, Place
  <2> QED BY <2>3, <2>4
<1>5. CASE Recv
  <2>1. pc = "waiting" /\ pc' = "running" /\ resume # << >> /\ resume' = Tail(resume)
        /\ action' = Head(resume) /\ baseline' = at.depth
        /\ UNCHANGED <<over, state, stopped, events, at, asked>>
    BY <1>5 DEF Recv, session, history
  <2>2. over = "no" => StopsIn(events) = {} /\ state # "Stopped" /\ Len(resume) <= 1
                       /\ asked = <<Head(resume), at.depth>>
    BY <2>1 DEF TokenInv, Token, Aim
  <2>3. over = "no" => resume' = << >>
    <3>1. Tail(resume) \in Seq(Step \cup {"Terminate"}) /\ Len(Tail(resume)) = Len(resume) - 1
          /\ Len(resume) \in Nat \ {0}
      BY <1>1, <2>1, Shorter, EmptySeq
    <3> QED BY <2>1, <2>2, <3>1, EmptySeq
  <2> QED BY <2>1, <2>2, <2>3 DEF TokenInv, Token, Aim
<1>6. CASE RecvFails
  BY <1>6 DEF RecvFails, Token, Aim, session
<1>7. CASE Quietly
  BY <1>7 DEF Quietly, TokenInv, Token, Aim, session, shared, history
<1>8. CASE Fails /\ ~Exits
  BY <1>8 DEF Fails, TokenInv, Token, Aim, session, shared, history
<1> QED BY <1>2, <1>3, <1>4, <1>5, <1>6, <1>7, <1>8 DEF Debuggee, Goes, Fails, Finish

LEMMA TokenNext == TokenInv /\ [DapNext]_dapVars => TokenInv'
<1> SUFFICES ASSUME TokenInv, [DapNext]_dapVars PROVE Token' /\ Aim'
  BY TypeNext DEF TokenInv
<1>1. CASE Ask \/ HangUp
  <2>1. PICK m \in Incoming : m.kind \in {"client", "eof"} /\ events' = Append(events, m)
    BY <1>1, ReportType DEF Ask, HangUp
  <2>2. SameStops /\ (Ended(events') => Ended(events))
    BY <2>1, AddOther DEF SameStops, TokenInv, DapTypeOK
  <2> QED BY <1>1, <2>2
          DEF Ask, HangUp, SameStops, TokenInv, Token, Aim, session, shared, debuggee
<1>2. CASE UNCHANGED dapVars
  BY <1>2 DEF TokenInv, Token, Aim, Lone, Place, Ended, StopsIn,
              dapVars, session, shared, debuggee, history
<1> QED BY <1>1, <1>2, TokenSession, TokenDebuggee DEF DapNext

(* Whatever the program and the client do, and in whatever order the two   *)
(* threads go on: the state is well typed, and while the session lasts     *)
(* there is one right to go on, which the program waits for exactly while  *)
(* it is somewhere; so the session shows a program that stands still.      *)
THEOREM TokenHeld == DapSpec => [](DapTypeOK /\ OneToken)
<1>1. DapInit => TokenInv
  BY TypeInit, TokenInit DEF TokenInv
<1>2. TokenInv => DapTypeOK /\ OneToken
  BY DEF TokenInv, Token, OneToken, Lone, StopsIn, Reports
<1> QED BY <1>1, <1>2, TokenNext, PTL DEF DapSpec

(* A program that runs past a statement that calls the hook was not asked  *)
(* to stop there, whatever the depths at which the step began and which    *)
(* the program has been to since, however it left them (by returns, errors *)
(* or the fresh stack of a coroutine), and has no breakpoint on its line.  *)
(* The statements that do not call the hook are outside of it.             *)
THEOREM StepsLand == DapSpec => StepLands
<1>1. DapInit => TokenInv
  BY TypeInit, TokenInit DEF TokenInv
<1>2. ASSUME TokenInv, NEW p \in Position, Statement(p), pc' = "running", over = "no"
      PROVE  /\ asked[1] # "StepIn"
             /\ asked[1] = "Next" => at'.depth > asked[2]
             /\ asked[1] = "StepOut" => at'.depth >= asked[2]
             /\ at'.line \notin breakpoints
  <2>1. ~Stops(p) /\ pc = "running" /\ at' = p
    BY <1>2 DEF Statement
  <2>2. p.line \notin breakpoints /\ ~StepComplete(p.depth)
    BY <2>1 DEF Stops
  <2>3. asked[1] = "Continue" \/ asked = <<action, baseline>>
    BY <1>2, <2>1 DEF TokenInv, Aim
  <2>4. p.depth \in Nat /\ baseline \in Nat
    BY <1>2, DepthFacts DEF TokenInv, DapTypeOK
  <2> QED BY <2>1, <2>2, <2>3, <2>4 DEF StepComplete
<1>3. TokenInv => ((\E p \in Position : Statement(p)) /\ pc' = "running" /\ over = "no" =>
                      /\ asked[1] # "StepIn"
                      /\ asked[1] = "Next" => at'.depth > asked[2]
                      /\ asked[1] = "StepOut" => at'.depth >= asked[2]
                      /\ at'.line \notin breakpoints)
  BY <1>2
<1> QED BY <1>1, <1>3, TokenNext, PTL DEF DapSpec, StepLands

(***************************************************************************)
(* Where the requests are.                                                 *)
(***************************************************************************)

(* The places of a queue that hold an element of S.                        *)
Marks(q, S) == {i \in DOMAIN q : q[i] \in S}
Alone(X) == \E i : X = {i}

LEMMA MarkLonger ==
  ASSUME NEW T, NEW q \in Seq(T), NEW m \in T, NEW S
  PROVE  /\ m \notin S => Marks(Append(q, m), S) = Marks(q, S)
         /\ m \in S /\ Marks(q, S) = {} => Alone(Marks(Append(q, m), S))
<1>1. m \notin S => Marks(Append(q, m), S) = Marks(q, S)
  BY Longer DEF Marks
<1>2. m \in S /\ Marks(q, S) = {} => Marks(Append(q, m), S) = {Len(q) + 1}
  BY Longer DEF Marks
<1> QED BY <1>1, <1>2 DEF Alone

LEMMA MarkShorter ==
  ASSUME NEW T, NEW q \in Seq(T), q # << >>, NEW S
  PROVE  /\ Head(q) \in S => Marks(q, S) # {}
         /\ Head(q) \in S /\ Alone(Marks(q, S)) => Marks(Tail(q), S) = {}
         /\ Head(q) \notin S /\ Marks(q, S) = {} => Marks(Tail(q), S) = {}
         /\ Head(q) \notin S /\ Alone(Marks(q, S)) => Alone(Marks(Tail(q), S))
<1>1. Head(q) \in S => 1 \in Marks(q, S)
  BY Shorter DEF Marks
<1>2. \A i \in Marks(Tail(q), S) : i \in Nat /\ i + 1 \in Marks(q, S) /\ i + 1 # 1
  BY Shorter DEF Marks
<1>3. Head(q) \notin S => \A j \in Marks(q, S) : j \in Nat /\ j - 1 \in Marks(Tail(q), S)
  BY Shorter DEF Marks
<1>4. Head(q) \in S /\ Alone(Marks(q, S)) => Marks(Tail(q), S) = {}
  BY <1>1, <1>2 DEF Alone
<1>5. ASSUME Head(q) \notin S, Alone(Marks(q, S))  PROVE Alone(Marks(Tail(q), S))
  <2>1. PICK j : Marks(q, S) = {j}
    BY <1>5 DEF Alone
  <2>2. j \in Nat /\ j - 1 \in Marks(Tail(q), S)
    BY <1>3, <1>5, <2>1
  <2>3. \A i \in Marks(Tail(q), S) : i = j - 1
    BY <1>2, <2>1, <2>2
  <2>4. Marks(Tail(q), S) = {j - 1}
    BY <2>2, <2>3
  <2> QED BY <2>4 DEF Alone
<1> QED BY <1>1, <1>2, <1>4, <1>5

Of(r) == {x \in Request : x.id = r}
From(r) == {FromClient(x) : x \in Of(r)}

(* A request is not asked yet, in the queue, deferred, or answered.        *)
Located(r) ==
    \/ /\ r > sent
       /\ Marks(events, From(r)) = {} /\ Marks(deferred, Of(r)) = {} /\ answers[r] = 0
    \/ /\ r <= sent
       /\ Alone(Marks(events, From(r))) /\ Marks(deferred, Of(r)) = {} /\ answers[r] = 0
    \/ /\ r <= sent
       /\ Marks(events, From(r)) = {} /\ Alone(Marks(deferred, Of(r))) /\ answers[r] = 0
    \/ /\ r <= sent
       /\ Marks(events, From(r)) = {} /\ Marks(deferred, Of(r)) = {} /\ answers[r] \in 1 .. 2

Listed == over = "no" => \A r \in 1 .. MaxRequests : Located(r)

LEMMA FromFacts ==
  ASSUME NEW m \in Incoming
  PROVE  /\ m.kind # "client" => \A r : m \notin From(r)
         /\ m.kind = "client" => /\ m = FromClient(m.request) /\ m.request \in Request
                                 /\ \A r : m \in From(r) <=> m.request.id = r
<1>1. CASE \E x \in Request : m = FromClient(x)
  BY <1>1, ReportType DEF From, Of
<1>2. CASE m \in Report
  <2>1. m.kind # "client"
    BY <1>2 DEF Report
  <2> QED BY <2>1, ReportType DEF From, Of
<1> QED BY <1>1, <1>2 DEF Incoming

LEMMA ListedInit == DapInit => Listed
<1> SUFFICES ASSUME DapInit, NEW r \in 1 .. MaxRequests PROVE Located(r)
  BY DEF Listed
<1>1. Marks(events, From(r)) = {} /\ Marks(deferred, Of(r)) = {}
  BY DEF DapInit, Marks
<1> QED BY <1>1, DepthFacts DEF DapInit, Located

(* The queue longer or shorter by something that is no request.            *)
LEMMA ListedQueue ==
  ASSUME DapTypeOK, Listed, UNCHANGED <<deferred, answers, sent>>, over' = "no" => over = "no",
         \/ events' = events
         \/ \E m \in Incoming : m.kind # "client" /\ events' = Append(events, m)
         \/ events # << >> /\ Head(events).kind # "client" /\ events' = Tail(events)
  PROVE  Listed'
<1> SUFFICES ASSUME over' = "no", NEW r \in 1 .. MaxRequests PROVE Located(r)'
  BY DEF Listed
<1>1. events \in Seq(Incoming) /\ Located(r)
  BY DEF DapTypeOK, Listed
<1>2. CASE events' = events
  BY <1>1, <1>2 DEF Located
<1>3. CASE \E m \in Incoming : m.kind # "client" /\ events' = Append(events, m)
  <2>1. Marks(events', From(r)) = Marks(events, From(r))
    BY <1>1, <1>3, FromFacts, MarkLonger
  <2> QED BY <1>1, <2>1 DEF Located
<1>4. CASE events # << >> /\ Head(events).kind # "client" /\ events' = Tail(events)
  <2>1. Head(events) \notin From(r)
    BY <1>1, <1>4, FromFacts, Shorter
  <2>2. /\ Marks(events, From(r)) = {} => Marks(events', From(r)) = {}
        /\ Alone(Marks(events, From(r))) => Alone(Marks(events', From(r)))
    BY <1>1, <1>4, <2>1, MarkShorter
  <2> QED BY <1>1, <2>2 DEF Located
<1> QED BY <1>2, <1>3, <1>4

(* A handler answers its request, once or twice, or ends the session.      *)
LEMMA HandlerAnswers ==
  ASSUME NEW r \in Request, NEW rest, HandleClient(r, rest), over' = "no"
  PROVE  deferred' = rest /\ \E n \in 1 .. 2 : Answer(r, n)
<1>1. ~Disconnect(r)
  BY DEF Disconnect, BeginTerminate
<1>2. CASE ConfigurationDone(r, rest)
  BY <1>2 DEF ConfigurationDone
<1>3. CASE Launch(r, rest) \/ SetBreakpoints(r, rest) \/ Inspect(r, rest) \/ Resume(r, rest) \/ Pause(r, rest)
  <2>1. deferred' = rest /\ Answer(r, 1)
    BY <1>3 DEF Launch, SetBreakpoints, Inspect, Resume, Pause
  <2> QED BY <2>1
<1> QED BY <1>1, <1>2, <1>3 DEF HandleClient

LEMMA ListedTake == DapTypeOK /\ Listed /\ TakeRequest => Listed'
<1> SUFFICES ASSUME DapTypeOK, Listed, TakeRequest, over' = "no", NEW r \in 1 .. MaxRequests
             PROVE  Located(r)'
  BY DEF Listed
<1> DEFINE x == Head(events).request
<1>1. /\ events \in Seq(Incoming) /\ deferred \in Seq(Request)
      /\ answers \in [1 .. MaxRequests -> Nat] /\ sent \in Nat
  BY DEF DapTypeOK
<1>2. /\ over = "no" /\ events # << >> /\ Head(events).kind = "client"
      /\ events' = Tail(events) /\ sent' = sent
  BY DEF TakeRequest, Taking
<1>3. x \in Request /\ x.id \in 1 .. MaxRequests /\ \A k : Head(events) \in From(k) <=> x.id = k
  BY <1>1, <1>2, FromFacts, Shorter, RequestShape
<1>4. Located(r) /\ r \in Nat
  BY <1>2 DEF Listed
<1>5. /\ Marks(events, From(r)) = {} => r # x.id /\ Marks(events', From(r)) = {}
      /\ r = x.id /\ Alone(Marks(events, From(r))) => Marks(events', From(r)) = {}
      /\ r # x.id /\ Alone(Marks(events, From(r))) => Alone(Marks(events', From(r)))
  BY <1>1, <1>2, <1>3, MarkShorter
<1>6. CASE Defer(x)
  <2>1. deferred' = Append(deferred, x) /\ answers' = answers
    BY <1>6 DEF Defer
  <2>2. /\ r # x.id => Marks(deferred', Of(r)) = Marks(deferred, Of(r))
        /\ r = x.id /\ Marks(deferred, Of(r)) = {} => Alone(Marks(deferred', Of(r)))
    BY <1>1, <1>3, <2>1, MarkLonger DEF Of
  <2>3. CASE r = x.id
    BY <1>2, <1>4, <1>5, <2>1, <2>2, <2>3 DEF Located
  <2>4. CASE r # x.id
    BY <1>2, <1>4, <1>5, <2>1, <2>2, <2>4 DEF Located
  <2> QED BY <2>3, <2>4
<1>7. CASE HandleClient(x, deferred)
  <2>1. PICK n \in 1 .. 2 : deferred' = deferred /\ Answer(x, n)
    BY <1>3, <1>7, HandlerAnswers
  <2>2. answers'[r] = IF r = x.id THEN answers[r] + n ELSE answers[r]
    BY <1>1, <1>3, <2>1 DEF Answer
  <2>3. CASE r = x.id
    BY <1>2, <1>4, <1>5, <2>1, <2>2, <2>3 DEF Located
  <2>4. CASE r # x.id
    BY <1>2, <1>4, <1>5, <2>1, <2>2, <2>4 DEF Located
  <2> QED BY <2>3, <2>4
<1> QED BY <1>6, <1>7 DEF TakeRequest

LEMMA ListedDrain == DapTypeOK /\ Listed /\ DrainDeferred => Listed'
<1> SUFFICES ASSUME DapTypeOK, Listed, DrainDeferred, over' = "no", NEW r \in 1 .. MaxRequests
             PROVE  Located(r)'
  BY DEF Listed
<1> DEFINE x == Head(deferred)
<1>1. deferred \in Seq(Request) /\ answers \in [1 .. MaxRequests -> Nat] /\ sent \in Nat
  BY DEF DapTypeOK
<1>2. over = "no" /\ deferred # << >> /\ UNCHANGED <<events, sent>>
  BY DEF DrainDeferred, Draining
<1>3. x \in Request /\ x.id \in 1 .. MaxRequests /\ \A k : x \in Of(k) <=> x.id = k
  BY <1>1, <1>2, Shorter, RequestShape DEF Of
<1>4. Located(r) /\ r \in Nat
  BY <1>2 DEF Listed
<1>5. PICK n \in 1 .. 2 : deferred' = Tail(deferred) /\ Answer(x, n)
  BY <1>3, HandlerAnswers DEF DrainDeferred
<1>6. answers'[r] = IF r = x.id THEN answers[r] + n ELSE answers[r]
  BY <1>1, <1>3, <1>5 DEF Answer
<1>7. /\ Marks(deferred, Of(r)) = {} => r # x.id /\ Marks(deferred', Of(r)) = {}
      /\ r = x.id /\ Alone(Marks(deferred, Of(r))) => Marks(deferred', Of(r)) = {}
      /\ r # x.id /\ Alone(Marks(deferred, Of(r))) => Alone(Marks(deferred', Of(r)))
  BY <1>1, <1>2, <1>3, <1>5, MarkShorter
<1>8. CASE r = x.id
  BY <1>2, <1>4, <1>6, <1>7, <1>8 DEF Located
<1>9. CASE r # x.id
  BY <1>2, <1>4, <1>6, <1>7, <1>9 DEF Located
<1> QED BY <1>8, <1>9

LEMMA ListedAsk == DapTypeOK /\ Listed /\ Ask => Listed'
<1> SUFFICES ASSUME DapTypeOK, Listed, Ask, over' = "no", NEW r \in 1 .. MaxRequests
             PROVE  Located(r)'
  BY DEF Listed
<1>1. events \in Seq(Incoming) /\ sent \in Nat
  BY DEF DapTypeOK
<1>2. PICK x \in Request : x.id = sent + 1 /\ events' = Append(events, FromClient(x))
  BY DEF Ask
<1>3. sent' = sent + 1 /\ UNCHANGED <<over, deferred, answers>>
  BY DEF Ask, session
<1>4. Located(r) /\ r \in Nat
  BY <1>3 DEF Listed
<1>5. FromClient(x) \in Incoming /\ (FromClient(x) \in From(r) <=> r = sent + 1)
  BY <1>2, FromFacts, ReportType
<1>6. /\ r # sent + 1 => Marks(events', From(r)) = Marks(events, From(r))
      /\ r = sent + 1 /\ Marks(events, From(r)) = {} => Alone(Marks(events', From(r)))
  BY <1>1, <1>2, <1>5, MarkLonger
<1>7. CASE r = sent + 1
  <2>1. Marks(events, From(r)) = {} /\ Marks(deferred, Of(r)) = {} /\ answers[r] = 0
    BY <1>1, <1>4, <1>7 DEF Located
  <2> QED BY <1>1, <1>3, <1>6, <1>7, <2>1 DEF Located
<1>8. CASE r # sent + 1
  BY <1>1, <1>3, <1>4, <1>6, <1>8 DEF Located
<1> QED BY <1>7, <1>8

LEMMA ListedNext == DapTypeOK /\ Listed /\ [DapNext]_dapVars => Listed'
<1> SUFFICES ASSUME DapTypeOK, Listed, [DapNext]_dapVars PROVE Listed'
  OBVIOUS
<1> USE DEF session, shared, debuggee, history
<1>1. CASE HangUp
  BY <1>1, ReportType, ListedQueue DEF HangUp
<1>2. CASE TakeStopped \/ TakeExited
  BY <1>2, ListedQueue DEF TakeStopped, TakeExited, Taking
<1>3. CASE TakeEof \/ EndTerminate \/ OutputFails
  BY <1>3 DEF TakeEof, BeginTerminate, EndTerminate, OutputFails, Listed
<1>4. CASE LoadFails \/ Finish
  BY <1>4, ReportType, ListedQueue DEF LoadFails, Finish, Exits
<1>5. CASE Load \/ Recv \/ RecvFails \/ Quietly \/ (Fails /\ ~Exits) \/ UNCHANGED dapVars
  BY <1>5, ListedQueue DEF Load, Recv, RecvFails, Quietly, Fails, dapVars
<1>6. ASSUME NEW p \in Position, Statement(p)  PROVE Listed'
  <2>1. [kind |-> "stopped", info |-> p] \in Incoming
    BY ReportType
  <2>2. \/ events' = events
        \/ \E m \in Incoming : m.kind # "client" /\ events' = Append(events, m)
    BY <1>6, <2>1 DEF Statement
  <2> QED BY <1>6, <2>2, ListedQueue DEF Statement
<1> QED BY <1>1, <1>2, <1>3, <1>4, <1>5, <1>6, ListedTake, ListedDrain, ListedAsk
        DEF DapNext, Session, Debuggee, Goes, Fails, Finish

(* No request of the client is lost, answered while it waits, or kept in   *)
(* two places, however requests and reports of the program are mixed.      *)
THEOREM RequestsKept == DapSpec => []RequestsAccounted
<1>1. DapInit => DapTypeOK /\ Listed
  BY TypeInit, ListedInit
<1>2. DapTypeOK /\ Listed => RequestsAccounted
  <2> SUFFICES ASSUME DapTypeOK, Listed, over = "no", NEW r \in 1 .. sent
               PROVE  LET queued == {i \in DOMAIN events :
                                       events[i].kind = "client" /\ events[i].request.id = r}
                          waiting == {i \in DOMAIN deferred : deferred[i].id = r}
                      IN  \/ Cardinality(queued) + Cardinality(waiting) = 1 /\ answers[r] = 0
                          \/ queued = {} /\ waiting = {} /\ answers[r] \in 1 .. 2
    BY DEF RequestsAccounted
  <2> DEFINE queued == {i \in DOMAIN events : events[i].kind = "client" /\ events[i].request.id = r}
             waiting == {i \in DOMAIN deferred : deferred[i].id = r}
  <2>1. \A i \in DOMAIN events : events[i] \in Incoming
    BY ElementOfSeq DEF DapTypeOK
  <2>2. \A i \in DOMAIN deferred : deferred[i] \in Request
    BY ElementOfSeq DEF DapTypeOK
  <2>3. queued = Marks(events, From(r))
    BY <2>1, FromFacts DEF Marks
  <2>4. waiting = Marks(deferred, Of(r))
    BY <2>2 DEF Marks, Of
  <2>5. Located(r) /\ ~(r > sent)
    BY DepthFacts DEF Listed, DapTypeOK
  <2>6. Cardinality({}) = 0 /\ \A X : Alone(X) => Cardinality(X) = 1
    BY FS_EmptySet, FS_Singleton DEF Alone
  <2> HIDE DEF queued, waiting
  <2>7. \/ Cardinality(queued) + Cardinality(waiting) = 1 /\ answers[r] = 0
        \/ queued = {} /\ waiting = {} /\ answers[r] \in 1 .. 2
    BY <2>3, <2>4, <2>5, <2>6 DEF Located
  <2> QED BY <2>7 DEF queued, waiting
<1> QED BY <1>1, <1>2, TypeNext, ListedNext, PTL DEF DapSpec
=============================================================================
