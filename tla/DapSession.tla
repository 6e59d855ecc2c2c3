---------------------------- MODULE DapSession ----------------------------
(***************************************************************************)
(* The debug adapter (yps-dap): a client, the session thread, and the      *)
(* debuggee thread that runs the program.  The session takes everything    *)
(* from one queue, in which the client's requests and the debuggee's       *)
(* reports are mixed; it talks to the debuggee through a channel of resume *)
(* commands, a pause flag and the set of breakpoints.                      *)
(*                                                                         *)
(* The program is arbitrary: its next statement may be on any line, at any *)
(* depth of calls, for ever; it may end or fail at any point.  Not every   *)
(* statement is seen by the debugger: the hook is called by exec_stmt      *)
(* alone, so what the coroutine machine runs itself (the loops, branches,  *)
(* tries, returns, awaits and yields of an async function or a generator)  *)
(* and the statements of an imported file pass it by.                      *)
(***************************************************************************)
EXTENDS Integers, Sequences, FiniteSets

CONSTANTS
    Line,           \* lines of the program
    StatementLine,  \* those on which a statement starts
    BreakpointLines,\* the sets of lines the client may ask breakpoints for
    MaxDepth,       \* bound: depth of calls
    MaxRequests,    \* bound: requests of the client
    MaxQueue        \* bound: messages in the session's queue when the client adds one

ASSUME LineAssumption == Line \subseteq Nat /\ StatementLine \subseteq Line /\ StatementLine # {}
ASSUME BreakpointAssumption == BreakpointLines \subseteq SUBSET Line
ASSUME DapBoundsAssumption == MaxDepth \in Nat /\ MaxRequests \in Nat /\ MaxQueue \in Nat

VARIABLES
    \* the session
    state,          \* Session::state
    launched,       \* Session::program is set
    stopOnEntry,    \* Session::stop_on_entry
    stopped,        \* Session::stopped: the position the debuggee reported, or Nowhere
    deferred,       \* Session::deferred
    over,           \* "no", "ending" (between the two halves of terminate_debuggee), "yes"
    \* between the threads
    events,         \* the session's queue
    resume,         \* the channel of resume commands
    pauseFlag,
    breakpoints,
    \* the debuggee
    pc,             \* "none", "loading", "running", "waiting" (in recv), "over"
    quiet,          \* it runs code that does not call the hook
    at,             \* the last statement that called the hook
    entryPending,
    action,         \* Interpreter::debug_action
    baseline,       \* Interpreter::debug_depth
    \* history
    sent,           \* the number of requests
    answers,        \* how often each was answered
    hungUp,         \* the client has closed its end
    asked           \* the command and position of the last resumption

session == <<state, launched, stopOnEntry, stopped, deferred, over>>
shared == <<resume, pauseFlag, breakpoints>>
debuggee == <<pc, quiet, at, entryPending, action, baseline>>
history == <<sent, answers, hungUp, asked>>
dapVars == <<session, events, shared, debuggee, history>>

Step == {"Continue", "Next", "StepIn", "StepOut"}
Request ==                                  \* inspect: any that only reads
    [id : 1 .. MaxRequests,
     command : Step \cup {"launch", "configurationDone", "inspect", "pause", "disconnect"}]
       \cup [id : 1 .. MaxRequests, command : {"setBreakpoints"}, lines : BreakpointLines]
Position == [line : Line, depth : 0 .. MaxDepth]
Nowhere == [line |-> 0, depth |-> 0]
Report == [kind : {"stopped"}, info : Position] \cup [kind : {"exited", "eof"}]

FromClient(r) == [kind |-> "client", request |-> r]
Incoming == {FromClient(r) : r \in Request} \cup Report

DapInit ==
    /\ state = "Configuring" /\ launched = FALSE /\ stopOnEntry = FALSE
    /\ stopped = Nowhere /\ deferred = << >> /\ over = "no"
    /\ events = << >> /\ resume = << >> /\ pauseFlag = FALSE /\ breakpoints = {}
    /\ pc = "none" /\ quiet = FALSE /\ at = Nowhere /\ entryPending = FALSE /\ action = "Continue" /\ baseline = 0
    /\ sent = 0 /\ answers = [r \in 1 .. MaxRequests |-> 0] /\ hungUp = FALSE
    /\ asked = <<"Continue", 0>>

(***************************************************************************)
(* The client, read by the helper thread of serve.                         *)
(***************************************************************************)

Ask ==
    /\ sent < MaxRequests /\ Len(events) < MaxQueue /\ ~hungUp
    /\ \E r \in Request : r.id = sent + 1 /\ events' = Append(events, FromClient(r))
    /\ sent' = sent + 1
    /\ UNCHANGED <<session, shared, debuggee, answers, hungUp, asked>>

HangUp ==
    /\ ~hungUp /\ Len(events) < MaxQueue
    /\ hungUp' = TRUE
    /\ events' = Append(events, [kind |-> "eof"])
    /\ UNCHANGED <<session, shared, debuggee, sent, answers, asked>>

(***************************************************************************)
(* The session.                                                            *)
(***************************************************************************)

Answer(r, times) == answers' = [answers EXCEPT ![r.id] = @ + times]

(* Requests answered while the program runs; the others wait.              *)
Immediate == {"pause", "disconnect", "setBreakpoints"}

DeferLast(r) ==                             \* wrong: room for one request only
    /\ state = "Running" /\ r.command \notin Immediate
    /\ deferred' = <<r>>
    /\ UNCHANGED <<state, launched, stopOnEntry, stopped, over, shared, debuggee, answers, asked>>

Defer(r) ==
    /\ state = "Running" /\ r.command \notin Immediate
    /\ deferred' = Append(deferred, r)
    /\ UNCHANGED <<state, launched, stopOnEntry, stopped, over, shared, debuggee, answers, asked>>

Launch(r, rest) ==
    /\ r.command = "launch"
    /\ deferred' = rest
    /\ stopOnEntry' \in BOOLEAN
    /\ launched' \in {launched, TRUE}        \* a launch without a program fails
    /\ launched' = launched => stopOnEntry' = stopOnEntry
    /\ Answer(r, 1)
    /\ UNCHANGED <<state, stopped, over, shared, debuggee, asked>>

(* resolve_line: the first line with a statement, from the line asked for. *)
Resolve(line) == {l \in StatementLine : l >= line /\ \A k \in StatementLine : k >= line => l <= k}

SetBreakpoints(r, rest) ==
    /\ r.command = "setBreakpoints"
    /\ deferred' = rest
    /\ breakpoints' = UNION {Resolve(l) : l \in r.lines}
    /\ Answer(r, 1)
    /\ UNCHANGED <<state, launched, stopOnEntry, stopped, over, resume, pauseFlag, debuggee, asked>>

(* configurationDone is answered, and then starts the program; when there  *)
(* is none, it is answered again with a failure.                           *)
ConfigurationDone(r, rest) ==
    /\ r.command = "configurationDone"
    /\ deferred' = rest
    /\ IF pc = "none" /\ launched
       THEN /\ pc' = "loading" /\ state' = "Running"
            /\ entryPending' = stopOnEntry
            /\ action' = IF stopOnEntry THEN "StepIn" ELSE "Continue"
       ELSE UNCHANGED <<pc, state, entryPending, action>>
    /\ Answer(r, IF pc = "none" /\ ~launched THEN 2 ELSE 1)
    /\ UNCHANGED <<launched, stopOnEntry, stopped, over, shared, quiet, at, baseline, asked>>

(* stackTrace, scopes and variables answer from what was reported,         *)
(* initialize and an unknown command from nothing.  (threads, which does   *)
(* not wait either, changes nothing and is left out.)                      *)
Inspect(r, rest) ==
    /\ r.command = "inspect"
    /\ deferred' = rest
    /\ Answer(r, 1)
    /\ UNCHANGED <<state, launched, stopOnEntry, stopped, over, shared, debuggee, asked>>

ResumeAnytime(r, rest) ==                   \* wrong: to a program that need not be stopped
    /\ r.command \in Step
    /\ deferred' = rest
    /\ resume' = IF pc = "none" THEN resume ELSE Append(resume, r.command)
    /\ stopped' = Nowhere /\ state' = IF pc = "none" THEN state ELSE "Running"
    /\ asked' = <<r.command, stopped.depth>>
    /\ Answer(r, 1)
    /\ UNCHANGED <<launched, stopOnEntry, over, pauseFlag, breakpoints, debuggee>>

Resume(r, rest) ==
    /\ r.command \in Step
    /\ deferred' = rest
    /\ IF state = "Stopped"
       THEN /\ resume' = Append(resume, r.command)
            /\ stopped' = Nowhere /\ state' = "Running"
            /\ asked' = <<r.command, stopped.depth>>
       ELSE UNCHANGED <<resume, stopped, state, asked>>
    /\ Answer(r, 1)
    /\ UNCHANGED <<launched, stopOnEntry, over, pauseFlag, breakpoints, debuggee>>

Pause(r, rest) ==
    /\ r.command = "pause"
    /\ deferred' = rest
    /\ pauseFlag' = (pauseFlag \/ pc # "none")
    /\ Answer(r, 1)
    /\ UNCHANGED <<state, launched, stopOnEntry, stopped, over, resume, breakpoints, debuggee, asked>>

BeginTerminateQuietly ==                    \* wrong: a program that never stops never reads the channel
    /\ over' = "ending"
    /\ UNCHANGED <<state, launched, stopOnEntry, stopped, resume, pauseFlag, breakpoints, debuggee, asked>>

(* terminate_debuggee, first half: the flag is set so that the debuggee    *)
(* stops and reads the channel.                                            *)
BeginTerminate ==
    /\ over' = "ending"
    /\ pauseFlag' = (pauseFlag \/ pc # "none")
    /\ UNCHANGED <<state, launched, stopOnEntry, stopped, resume, breakpoints, debuggee, asked>>

Disconnect(r) ==
    /\ r.command = "disconnect"
    /\ BeginTerminate
    /\ Answer(r, 1)
    /\ UNCHANGED deferred

HandleClient(r, rest) ==
    \/ Launch(r, rest) \/ SetBreakpoints(r, rest) \/ ConfigurationDone(r, rest) \/ Inspect(r, rest)
    \/ Resume(r, rest) \/ Pause(r, rest) \/ Disconnect(r)

(* Deferred requests are handled before anything else is taken.            *)
Draining == state # "Running" /\ deferred # << >>
Taking(kind) == over = "no" /\ ~Draining /\ events # << >> /\ Head(events).kind = kind

TakeRequest ==
    /\ Taking("client")
    /\ LET r == Head(events).request
       IN  \/ Defer(r)
           \/ ~(state = "Running" /\ r.command \notin Immediate) /\ HandleClient(r, deferred)
    /\ events' = Tail(events)
    /\ UNCHANGED <<sent, hungUp>>

DrainDeferred ==
    /\ over = "no" /\ Draining
    /\ HandleClient(Head(deferred), Tail(deferred))
    /\ UNCHANGED <<events, sent, hungUp>>

TakeStopped ==
    /\ Taking("stopped")
    /\ stopped' = Head(events).info
    /\ state' = "Stopped"
    /\ events' = Tail(events)
    /\ UNCHANGED <<launched, stopOnEntry, deferred, over, shared, debuggee, history>>

TakeExited ==
    /\ Taking("exited")
    /\ stopped' = Nowhere
    /\ state' = "Exited"
    /\ events' = Tail(events)
    /\ UNCHANGED <<launched, stopOnEntry, deferred, over, shared, debuggee, history>>

TakeEof ==
    /\ Taking("eof")
    /\ BeginTerminate
    /\ events' = Tail(events)
    /\ UNCHANGED <<deferred, sent, answers, hungUp>>

(* terminate_debuggee, second half; serve returns.                         *)
EndTerminate ==
    /\ over = "ending"
    /\ over' = "yes"
    /\ resume' = IF pc = "none" THEN resume ELSE Append(resume, "Terminate")
    /\ stopped' = Nowhere /\ state' = "Exited" /\ deferred' = << >>
    /\ UNCHANGED <<launched, stopOnEntry, events, pauseFlag, breakpoints, debuggee, history>>

(* Writing an answer or an event fails: serve returns and the session is   *)
(* dropped, and with it its ends of the channels.                          *)
OutputFails ==
    /\ over = "no" /\ sent > 0
    /\ over' = "yes"
    /\ UNCHANGED <<state, launched, stopOnEntry, stopped, deferred, events, shared, debuggee, history>>

Session ==
    \/ TakeRequest \/ DrainDeferred \/ TakeStopped \/ TakeExited \/ TakeEof \/ EndTerminate

(***************************************************************************)
(* The debuggee.                                                           *)
(***************************************************************************)

Exits ==
    /\ pc' = "over" /\ quiet' = FALSE
    /\ events' = Append(events, [kind |-> "exited"])
    /\ UNCHANGED <<session, shared, at, entryPending, action, baseline, history>>

(* The file cannot be read, or not be parsed.                              *)
LoadFails == pc = "loading" /\ Exits

Load ==
    /\ pc = "loading"
    /\ pc' = "running"
    /\ UNCHANGED <<session, events, shared, quiet, at, entryPending, action, baseline, history>>

(* debug_before_stmt: is the step that was asked for complete?             *)
StepComplete(depth) ==
    \/ action = "StepIn"
    \/ action = "Next" /\ depth <= baseline
    \/ action = "StepOut" /\ depth < baseline

StopsUnasked(p) == p.line \in breakpoints \/ StepComplete(p.depth)   \* wrong: a pause does not stop

(* The pause flag is taken whether or not the statement stops.             *)
Stops(p) == pauseFlag \/ p.line \in breakpoints \/ StepComplete(p.depth)

(* A statement that calls the hook.  Its depth is the length of the call   *)
(* stack, and need not be near the last one: an error unwinds many calls   *)
(* at once, and the body of a coroutine runs on a stack of its own, which  *)
(* begins anew.  A function of an imported file, called from this one,     *)
(* counts its statements' offsets in this file: any line may come up.      *)
Statement(p) ==
    /\ pc = "running" /\ action # "Terminate"
    /\ at' = p /\ quiet' = FALSE
    /\ pauseFlag' = FALSE
    /\ IF Stops(p)
       THEN /\ pc' = "waiting"
            /\ entryPending' = FALSE
            /\ events' = Append(events, [kind |-> "stopped", info |-> p])
       ELSE UNCHANGED <<pc, entryPending, events>>
    /\ UNCHANGED <<session, resume, breakpoints, action, baseline, history>>

(* The program goes on in code that does not call the hook, and stays in   *)
(* it as long as it likes: an async function may loop for ever there.      *)
Quietly ==
    /\ pc = "running" /\ action # "Terminate"
    /\ quiet' = TRUE
    /\ UNCHANGED <<session, events, shared, pc, at, entryPending, action, baseline, history>>

(* The answer of the hook re-arms the stepping from the present depth.     *)
RecvAnyDepth ==                             \* wrong: the depth of the last step is kept
    /\ pc = "waiting" /\ resume # << >>
    /\ pc' = "running"
    /\ action' = Head(resume) /\ resume' = Tail(resume)
    /\ UNCHANGED <<session, events, pauseFlag, breakpoints, quiet, at, entryPending, baseline, history>>

Recv ==
    /\ pc = "waiting" /\ resume # << >>
    /\ pc' = "running"
    /\ action' = Head(resume) /\ baseline' = at.depth
    /\ resume' = Tail(resume)
    /\ UNCHANGED <<session, events, pauseFlag, breakpoints, quiet, at, entryPending, history>>

(* The session is gone: the program is not left hanging.                   *)
RecvFails ==
    /\ pc = "waiting" /\ resume = << >> /\ over = "yes"
    /\ pc' = "running"
    /\ action' = "Terminate" /\ baseline' = at.depth
    /\ UNCHANGED <<session, events, shared, quiet, at, entryPending, history>>

(* Terminate is an error at every statement that calls the hook, from then *)
(* on.  It is an ordinary error: when no try catches it, it ends the       *)
(* program; when one does, the program goes on, in code without the hook   *)
(* (or to the next error, which a coroutine's loop may catch again).       *)
Fails ==
    /\ pc = "running" /\ action = "Terminate"
    /\ \/ Exits
       \/ quiet' = TRUE /\ UNCHANGED <<session, events, shared, pc, at, entryPending, action, baseline, history>>

(* The program ends by itself, or with an error of its own.                *)
Finish == pc = "running" /\ Exits

Goes == (\E p \in Position : Statement(p)) \/ Quietly \/ Fails

Debuggee == Load \/ LoadFails \/ Goes \/ Recv \/ RecvFails \/ Finish

DapNext == Ask \/ HangUp \/ Session \/ OutputFails \/ Debuggee

(* The session and the debuggee are threads.  A program need not end, and  *)
(* need not come back from code without the hook; out of it, it goes on.   *)
DapFairness ==
    /\ WF_dapVars(Session)
    /\ WF_dapVars(Load) /\ WF_dapVars(~quiet /\ Goes)
    /\ WF_dapVars(Recv) /\ WF_dapVars(RecvFails)

DapSpec == DapInit /\ [][DapNext]_dapVars /\ DapFairness

(***************************************************************************)
(* Properties.                                                             *)
(***************************************************************************)

(* The variables have their types.                                         *)
DapTypeOK ==
    /\ state \in {"Configuring", "Running", "Stopped", "Exited"}
    /\ launched \in BOOLEAN /\ stopOnEntry \in BOOLEAN
    /\ stopped \in Position \cup {Nowhere}
    /\ deferred \in Seq(Request)
    /\ over \in {"no", "ending", "yes"}
    /\ events \in Seq(Incoming)
    /\ resume \in Seq(Step \cup {"Terminate"})
    /\ pauseFlag \in BOOLEAN /\ breakpoints \in SUBSET StatementLine
    /\ pc \in {"none", "loading", "running", "waiting", "over"}
    /\ quiet \in BOOLEAN /\ at \in Position \cup {Nowhere} /\ entryPending \in BOOLEAN
    /\ action \in Step \cup {"Terminate"} /\ baseline \in 0 .. MaxDepth
    /\ sent \in 0 .. MaxRequests /\ answers \in [1 .. MaxRequests -> Nat]
    /\ hungUp \in BOOLEAN /\ asked \in Step \X (0 .. MaxDepth)

Reports == {i \in DOMAIN events : events[i].kind = "stopped"}

(* The right to go on is one token: while the program waits, it is a       *)
(* report of a stop that the session has not taken, or the session's       *)
(* knowledge that the program is stopped, or a command on its way, and     *)
(* never two of them; while the program runs there is none.  So what the   *)
(* client is shown is always the position of a program that stands still,  *)
(* and no command is ever left over for a later stop.                      *)
OneToken ==
    over = "no" =>
        /\ \A i, j \in Reports : i = j
        /\ Len(resume) <= 1
        /\ Reports # {} => state # "Stopped" /\ resume = << >>
        /\ state = "Stopped" => resume = << >> /\ stopped = at
        /\ pc = "waiting" <=> Reports # {} \/ state = "Stopped" \/ resume # << >>

(* A request of the client is in the queue, or deferred, or has been       *)
(* answered, and only one of these (a configurationDone without a program  *)
(* is answered twice).                                                     *)
RequestsAccounted ==
    over = "no" =>
        \A r \in 1 .. sent :
            LET queued == {i \in DOMAIN events : events[i].kind = "client" /\ events[i].request.id = r}
                waiting == {i \in DOMAIN deferred : deferred[i].id = r}
            IN  \/ Cardinality(queued) + Cardinality(waiting) = 1 /\ answers[r] = 0
                \/ queued = {} /\ waiting = {} /\ answers[r] \in 1 .. 2

(* A step lands where it was asked to, among the statements that call the  *)
(* hook, at depths of the call stack as the interpreter keeps it: after a  *)
(* step over from some depth the program runs past none of them at that    *)
(* depth or above it, after a step in past none at all, after a step out   *)
(* past none above it; and it runs past none on a line with a breakpoint.  *)
(* (Of the statements that do not call the hook it says nothing: the       *)
(* program runs past all of those, whatever was asked.)                    *)
StepLands ==
    [][(\E p \in Position : Statement(p)) /\ pc' = "running" /\ over = "no" =>
          /\ asked[1] # "StepIn"
          /\ asked[1] = "Next" => at'.depth > asked[2]
          /\ asked[1] = "StepOut" => at'.depth >= asked[2]
          /\ at'.line \notin breakpoints]_dapVars

(* From some point on the program stays in code without the hook, or in a  *)
(* loop that catches the error of Terminate: nothing reaches it there.     *)
OutOfReach == <>[](pc = "running" /\ quiet)

(* A pause that the session accepted while the program runs stops it, or   *)
(* finds it at its end, even if it would run for ever: unless it goes out  *)
(* of the debugger's reach for good.                                       *)
PauseStops == OutOfReach \/ (pauseFlag /\ pc = "running" ~> pc # "running")

(* A program whose client has gone is not left running or waiting, with    *)
(* the same exception.                                                     *)
TerminateStops == OutOfReach \/ (over = "ending" /\ pc # "none" ~> pc = "over")

===========================================================================
