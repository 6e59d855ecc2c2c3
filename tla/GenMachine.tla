---------------------------- MODULE GenMachine ----------------------------
(***************************************************************************)
(* The frame machine that runs generators and async functions              *)
(* (interpreter/generator.rs).  Instead of the host stack it keeps a stack *)
(* of frames, one for each statement in progress, so that the body can     *)
(* suspend anywhere; leaving loops, try statements and blocks by return,   *)
(* throw, break or continue is done by unwinding that stack.               *)
(*                                                                         *)
(* The body is arbitrary: at each point of a block it may execute any kind *)
(* of statement or reach its end.  The caller may send a value, return or  *)
(* throw into the body whenever it is suspended.                           *)
(***************************************************************************)
EXTENDS Integers, Sequences

CONSTANTS
    Label,      \* statement labels
    Anon,       \* no label
    MaxFrames   \* bound: frames on the stack

ASSUME LabelAssumption == Anon \notin Label
ASSUME FramesAssumption == MaxFrames \in Nat \ {0}

VARIABLES
    frames,     \* the statements in progress, innermost last
    scopes,     \* the scopes pushed by them: the index of the frame that did
    unw,        \* the completion that is unwinding the frames, or Normal
    mode,       \* what the generator is doing
    sent,       \* pending_send: which kind of suspension it answers, "none" when empty
    bind,       \* pending_bind is set
    ret,        \* pending_return
    spoiled     \* history: an error left a scope behind

genVars == <<frames, scopes, unw, mode, sent, bind, ret, spoiled>>

AnyLabel == Label \cup {Anon}

Loops == {"while", "dowhile", "for", "forof", "forawait", "forawaitsync"}
Scoped == {"for", "forof", "forawait", "forawaitsync"}
Awaiting == {"forawait", "forawaitsync"}

(* Completions.  target and lost are history values.  target is the frame  *)
(* the completion is meant for when it arises: 0 is the caller.  lost: the *)
(* machine no longer knows the label it names.  again: an error met while  *)
(* it unwinds is thrown in its place (the statements' own unwinding).      *)
Completion == [type : {"normal", "throw", "return", "break", "continue"},
               label : AnyLabel, target : 0 .. MaxFrames + 1, lost : BOOLEAN, again : BOOLEAN]
Normal == [type |-> "normal", label |-> Anon, target |-> 0, lost |-> FALSE, again |-> FALSE]

(* GenFrame: a block owns its scope or not; a loop has a phase; a try      *)
(* statement has a state and, in its finally block, the completion that    *)
(* led there.  names, a history value, are the labels the program put on   *)
(* the statement, of which the machine keeps at most one, label.           *)
Frame == [kind : Loops \cup {"block", "try", "delegate"}, label : AnyLabel,
          names : SUBSET Label, owns : BOOLEAN,
          phase : {"check", "after"}, st : {"none", "trying", "catching", "finally"},
          catch : BOOLEAN, fin : BOOLEAN, saved : Completion]

Plain(kind, label) ==
    [kind |-> kind, label |-> label, names |-> {label} \ {Anon}, owns |-> FALSE, phase |-> "check", st |-> "none",
     catch |-> FALSE, fin |-> FALSE, saved |-> Normal]
Body == Plain("block", Anon)

GenInit ==
    /\ frames = <<Body>>
    /\ scopes = << >>
    /\ unw = Normal
    /\ mode = "start"
    /\ sent = "none"
    /\ bind = FALSE /\ ret = FALSE
    /\ spoiled = FALSE

Depth == Len(frames)
Top == frames[Depth]
Below == SubSeq(frames, 1, Depth - 1)
Room(n) == Depth + n <= MaxFrames

(* pop_scope.                                                              *)
PopScope == SubSeq(scopes, 1, Len(scopes) - 1)

Owns(f) ==
    \/ f.owns
    \/ f.kind \in Scoped
    \/ f.kind = "try" /\ f.st \in {"trying", "catching"}

PopFrameLoopOnly ==                         \* wrong: the scope of a try block stays
    /\ frames' = Below
    /\ scopes' = IF Owns(Top) /\ Top.kind # "try" THEN PopScope ELSE scopes

(* Take the top frame off, with the scope it owns.                         *)
PopFrame ==
    /\ frames' = Below
    /\ scopes' = IF Owns(Top) THEN PopScope ELSE scopes

(***************************************************************************)
(* Completions.                                                            *)
(***************************************************************************)

MatchesAny(f, c) ==                         \* wrong: the label is not compared
    f.kind \in Loops \/ (f.kind = "block" /\ c.type = "break" /\ c.label # Anon)

(* Does break or continue c end at f?  A label names a loop or, for break, *)
(* a block (targets, and the Block case of unwind).                        *)
Matches(f, c) ==
    \/ f.kind \in Loops /\ c.label \in {Anon, f.label}
    \/ f.kind = "block" /\ c.type = "break" /\ c.label # Anon /\ c.label = f.label

Last(fs, Test(_)) ==
    LET found == {i \in DOMAIN fs : Test(fs[i])}
    IN  IF found = {} THEN 0 ELSE CHOOSE i \in found : \A j \in found : j <= i

(* What a completion means where it arises, by the rules of the language:  *)
(* a throw goes to the innermost try block with a catch, break and         *)
(* continue to the innermost statement the program gave the name, of any   *)
(* kind for break, a loop for continue; without a name, to the innermost   *)
(* loop.                                                                   *)
Meant(fs, type, label) ==
    LET Catches(f) == f.st = "trying" /\ f.catch
        Named(f) == \/ f.kind \in Loops /\ (label = Anon \/ label \in f.names)
                    \/ type = "break" /\ label \in f.names
    IN  CASE type = "throw" -> Last(fs, Catches)
          [] type \in {"break", "continue"} -> Last(fs, Named)
          [] OTHER -> 0

Arises(fs, type, label) ==
    LET target == Meant(fs, type, label)
    IN  [type |-> type, label |-> label, target |-> target,
         lost |-> label # Anon /\ target # 0 /\ fs[target].label # label, again |-> FALSE]

Escape == mode' = "escaped" /\ unw' = Normal

(* route_throw, for an error met with fs on the stack: a host error (any   *)
(* RuntimeError that was not thrown by the program) becomes a throw when   *)
(* there is a try statement, and leaves the machine when there is none.    *)
RouteError(fs, error) ==
    IF error = "thrown" \/ \E i \in DOMAIN fs : fs[i].kind = "try"
    THEN unw' = Arises(fs, "throw", Anon) /\ UNCHANGED mode
    ELSE Escape

Error == {"thrown", "host"}

(***************************************************************************)
(* The statements of a block (step_block_stmt).                            *)
(***************************************************************************)

Running == mode = "running" /\ unw = Normal
Pumping(kinds) == Running /\ frames # << >> /\ Top.kind \in kinds

BlockEnds ==
    /\ Pumping({"block"})
    /\ PopFrame
    /\ UNCHANGED <<unw, mode, sent, bind, ret, spoiled>>

Suspends(how) ==
    /\ mode' = how
    /\ UNCHANGED <<frames, scopes, unw, sent, spoiled>>

(* yield and await, as a statement of their own or giving a variable its   *)
(* value, and return await.                                                *)
StmtYield == Pumping({"block"}) /\ bind' \in BOOLEAN /\ UNCHANGED ret /\ Suspends("yielded")
StmtAwait == Pumping({"block"}) /\ bind' \in BOOLEAN /\ UNCHANGED ret /\ Suspends("awaiting")
StmtReturnAwait == Pumping({"block"}) /\ ret' = TRUE /\ UNCHANGED bind /\ Suspends("awaiting")

(* yield*.                                                                 *)
StmtDelegate ==
    /\ Pumping({"block"}) /\ Room(1)
    /\ frames' = Append(frames, Plain("delegate", Anon))
    /\ UNCHANGED <<scopes, unw, mode, sent, bind, ret, spoiled>>

(* The labels names stand before a block or a loop, nested: pending_label  *)
(* is the last of them.                                                    *)
Recorded(label, names) == IF names = {} THEN label = Anon ELSE label \in names

StmtBlock ==
    /\ Pumping({"block"}) /\ Room(1)
    /\ \E names \in SUBSET Label, label \in AnyLabel :
           /\ Recorded(label, names)
           /\ frames' = Append(frames, [Plain("block", label) EXCEPT !.names = names, !.owns = TRUE])
    /\ scopes' = Append(scopes, Depth + 1)
    /\ UNCHANGED <<unw, mode, sent, bind, ret, spoiled>>

(* A branch of an if statement, whose variables live in the block around;  *)
(* the labels of the statement are not kept.                               *)
StmtIf ==
    /\ Pumping({"block"}) /\ Room(1)
    /\ \E names \in SUBSET Label : frames' = Append(frames, [Body EXCEPT !.names = names])
    /\ UNCHANGED <<scopes, unw, mode, sent, bind, ret, spoiled>>

StmtLoop ==
    /\ Pumping({"block"}) /\ Room(2)
    /\ \E kind \in Loops, names \in SUBSET Label, label \in AnyLabel :
           /\ Recorded(label, names)
           /\ frames' = Append(frames, [Plain(kind, label) EXCEPT !.names = names])
           /\ scopes' = IF kind \in Scoped THEN Append(scopes, Depth + 1) ELSE scopes
    /\ UNCHANGED <<unw, mode, sent, bind, ret, spoiled>>

(* A for loop's initialiser fails: its scope is pushed, its frame is not.  *)
ForInitFails ==
    /\ Pumping({"block"}) /\ Room(1)
    /\ ~spoiled                              \* bound: one scope left behind
    /\ scopes' = Append(scopes, Depth + 1)
    /\ \E error \in Error : RouteError(frames, error)
    /\ spoiled' = TRUE
    /\ UNCHANGED <<frames, sent, bind, ret>>

(* Nor are those of a try statement.                                       *)
StmtTry ==
    /\ Pumping({"block"}) /\ Room(2)
    /\ \E catch, fin \in BOOLEAN, names \in SUBSET Label :
           /\ catch \/ fin
           /\ frames' = frames \o <<[Plain("try", Anon) EXCEPT !.names = names, !.st = "trying",
                                                               !.catch = catch, !.fin = fin],
                                    Body>>
    /\ scopes' = Append(scopes, Depth + 1)
    /\ UNCHANGED <<unw, mode, sent, bind, ret, spoiled>>

(* return, throw, break and continue.  The parser takes any label, and a   *)
(* break or continue without a loop.                                       *)
StmtJump ==
    /\ Pumping({"block"})
    /\ \E type \in {"return", "throw", "break", "continue"}, label \in AnyLabel :
           /\ label # Anon => type \in {"break", "continue"}
           /\ unw' = [Arises(frames, type, label) EXCEPT !.again = TRUE]
    /\ UNCHANGED <<frames, scopes, mode, sent, bind, ret, spoiled>>

(* A labelled break or continue inside a switch, which runs outside of the *)
(* machine: it comes out without its label, and so does a break of the     *)
(* switch itself (meant to end there: a frame above the others).  Without  *)
(* a label it is the loop's, like any other: a switch is no target.        *)
StmtSwitchJump ==
    /\ Pumping({"block"})
    /\ \E type \in {"break", "continue"}, label \in Label, own \in BOOLEAN :
           /\ own => type = "break"
           /\ unw' = [Arises(frames, type, label) EXCEPT
                         !.target = IF own THEN Depth + 1 ELSE @,
                         !.label = Anon, !.lost = TRUE, !.again = TRUE]
    /\ UNCHANGED <<frames, scopes, mode, sent, bind, ret, spoiled>>

(* Evaluating any part of a statement fails.                               *)
StmtFails ==
    /\ Pumping({"block"})
    /\ \E error \in Error : RouteError(frames, error)
    /\ UNCHANGED <<frames, scopes, sent, bind, ret, spoiled>>

Statement ==
    \/ BlockEnds \/ StmtYield \/ StmtAwait \/ StmtReturnAwait \/ StmtDelegate \/ StmtBlock
    \/ StmtIf \/ StmtLoop \/ ForInitFails \/ StmtTry \/ StmtJump \/ StmtSwitchJump \/ StmtFails

(***************************************************************************)
(* The other frames (pump).                                                *)
(***************************************************************************)

Enter(f) == frames' = Below \o <<f, Body>> /\ UNCHANGED scopes     \* f on top, its body begins
Stay(f) == frames' = Append(Below, f) /\ UNCHANGED scopes
In(phase) == [Top EXCEPT !.phase = phase]

WhileStep ==
    /\ Pumping({"while"})
    /\ \/ Top.phase = "check" /\ (Enter(In("after")) \/ PopFrame)
       \/ Top.phase = "after" /\ Stay(In("check"))
    /\ UNCHANGED <<unw, mode, sent, bind, ret, spoiled>>

DoWhileStep ==
    /\ Pumping({"dowhile"})
    /\ \/ Top.phase = "check" /\ Enter(In("after"))
       \/ Top.phase = "after" /\ (Enter(Top) \/ PopFrame)
    /\ UNCHANGED <<unw, mode, sent, bind, ret, spoiled>>

ForStep ==
    /\ Pumping({"for"})
    /\ \/ Top.phase = "check" /\ (Enter(In("after")) \/ PopFrame)
       \/ Top.phase = "after" /\ Stay(In("check"))
    /\ UNCHANGED <<unw, mode, sent, bind, ret, spoiled>>

ForOfStep ==
    /\ Pumping({"forof"})
    /\ Enter(Top) \/ PopFrame
    /\ UNCHANGED <<unw, mode, sent, bind, ret, spoiled>>

(* for await asks its iterator for a promise of the next item; over a      *)
(* synchronous iterator it awaits each item, until there is none.          *)
AwaitNext ==
    /\ Pumping(Awaiting) /\ Top.phase = "check"
    /\ \/ Stay(In("after")) /\ mode' = "awaiting"
       \/ Top.kind = "forawaitsync" /\ PopFrame /\ UNCHANGED mode
    /\ UNCHANGED <<unw, sent, bind, ret, spoiled>>

AwaitItem ==
    /\ Pumping(Awaiting) /\ Top.phase = "after"
    /\ sent' = "none"
    /\ \/ Enter(In("check"))
       \/ Top.kind = "forawait" /\ PopFrame
    /\ UNCHANGED <<unw, mode, bind, ret, spoiled>>

(* A loop's condition, update, iterator or pattern, or the inner iterator  *)
(* of a yield*, fails.  Unlike a statement's, the error is not routed: it  *)
(* leaves the machine, which stays as it is and can be resumed.            *)
FrameFails ==
    /\ Pumping(Loops \cup {"delegate"})
    /\ ~(Top.kind = "while" /\ Top.phase = "after")
    /\ ~(Top.kind = "dowhile" /\ Top.phase = "check")
    /\ mode' = "escaped"
    /\ sent' = IF Top.kind = "delegate" \/ (Top.kind \in Awaiting /\ Top.phase = "after")
                THEN "none" ELSE sent
    /\ UNCHANGED <<frames, scopes, unw, bind, ret, spoiled>>

(* yield* hands what was sent to the inner iterator, which yields or ends. *)
DelegateStep ==
    /\ Pumping({"delegate"})
    /\ sent' = "none"
    /\ \/ mode' = "yielded" /\ UNCHANGED <<frames, scopes>>
       \/ PopFrame /\ UNCHANGED mode
    /\ UNCHANGED <<unw, bind, ret, spoiled>>

(* The end of a try block or of a catch block: the finally block is next,  *)
(* if there is one.                                                        *)
TryEnds ==
    /\ Pumping({"try"}) /\ Top.st # "finally"
    /\ IF Top.fin
       THEN /\ frames' = Below \o <<[Top EXCEPT !.st = "finally", !.saved = Normal], Body>>
            /\ scopes' = PopScope
       ELSE PopFrame
    /\ UNCHANGED <<unw, mode, sent, bind, ret, spoiled>>

(* The end of a finally block: the completion that led there goes on.  A   *)
(* return ends the generator at once, whatever is still on the stack.      *)
FinallyEnds ==
    /\ Pumping({"try"}) /\ Top.st = "finally"
    /\ IF Top.saved.type = "return"
       THEN frames' = << >> /\ mode' = "done" /\ UNCHANGED <<scopes, unw>>
       ELSE PopFrame /\ unw' = Top.saved /\ UNCHANGED mode
    /\ UNCHANGED <<sent, bind, ret, spoiled>>

PumpEnds ==
    /\ Running /\ frames = << >>
    /\ mode' = "done"
    /\ UNCHANGED <<frames, scopes, unw, sent, bind, ret, spoiled>>

Pump ==
    \/ WhileStep \/ DoWhileStep \/ ForStep \/ ForOfStep \/ AwaitNext \/ AwaitItem
    \/ FrameFails \/ DelegateStep \/ TryEnds \/ FinallyEnds \/ PumpEnds

(***************************************************************************)
(* Unwinding, a frame at a time (unwind).                                  *)
(***************************************************************************)

Unwinding(kinds) == mode = "running" /\ unw # Normal /\ frames # << >> /\ Top.kind \in kinds

Caught == unw.type = "throw" /\ Top.st = "trying" /\ Top.catch

UnwindToCatch ==
    /\ Unwinding({"try"}) /\ Caught
    /\ Enter([Top EXCEPT !.st = "catching"])    \* the try block's scope gives way to the catch's
    /\ unw' = Normal
    /\ UNCHANGED <<mode, sent, bind, ret, spoiled>>

UnwindToFinally ==
    /\ Unwinding({"try"}) /\ ~Caught
    /\ Top.st \in {"trying", "catching"} /\ Top.fin
    /\ frames' = Below \o <<[Top EXCEPT !.st = "finally", !.saved = [unw EXCEPT !.again = FALSE]], Body>>
    /\ scopes' = PopScope
    /\ unw' = Normal
    /\ UNCHANGED <<mode, sent, bind, ret, spoiled>>

UnwindTryCatching ==                        \* wrong: a catch block's exit skips the finally
    /\ Unwinding({"try"}) /\ ~Caught
    /\ Top.st # "trying" \/ ~Top.fin
    /\ PopFrame
    /\ UNCHANGED <<unw, mode, sent, bind, ret, spoiled>>

UnwindTry ==
    /\ Unwinding({"try"}) /\ ~Caught
    /\ Top.st = "finally" \/ ~Top.fin
    /\ PopFrame
    /\ UNCHANGED <<unw, mode, sent, bind, ret, spoiled>>

UnwindContinueAfter ==                      \* wrong: for await, too, resumes after its body
    /\ Unwinding(Loops) /\ unw.type = "continue" /\ Matches(Top, unw)
    /\ IF Top.kind \in {"for", "forawait", "forawaitsync"} THEN Stay(In("after")) ELSE Stay(In("check"))
    /\ unw' = Normal
    /\ UNCHANGED <<mode, sent, bind, ret, spoiled>>

UnwindContinue ==
    /\ Unwinding(Loops) /\ unw.type = "continue" /\ Matches(Top, unw)
    /\ CASE Top.kind = "for" -> Stay(In("after"))
         [] Top.kind = "forof" -> Stay(Top)
         [] OTHER -> Stay(In("check"))
    /\ unw' = Normal
    /\ UNCHANGED <<mode, sent, bind, ret, spoiled>>

(* A loop is left, by the break meant for it or by what passes through; an *)
(* asynchronous iterator is closed.                                        *)
Leaves == ~(unw.type = "continue" /\ Matches(Top, unw))

UnwindLoop ==
    /\ Unwinding(Loops) /\ Leaves
    /\ PopFrame
    /\ unw' = IF unw.type = "break" /\ Matches(Top, unw) THEN Normal ELSE unw
    /\ UNCHANGED <<mode, sent, bind, ret, spoiled>>

(* Closing it fails: the frame is gone and its scope is not.               *)
UnwindCloseFails ==
    /\ Unwinding({"forawait"}) /\ Leaves
    /\ ~spoiled                              \* bound: one scope left behind
    /\ frames' = Below
    /\ IF unw.again THEN \E error \in Error : RouteError(Below, error) ELSE Escape
    /\ spoiled' = TRUE
    /\ UNCHANGED <<scopes, sent, bind, ret>>

UnwindBlock ==
    /\ Unwinding({"block"})
    /\ PopFrame
    /\ unw' = IF Matches(Top, unw) THEN Normal ELSE unw
    /\ UNCHANGED <<mode, sent, bind, ret, spoiled>>

(* return and throw are handed to the inner iterator of a yield*, which    *)
(* may yield, end or throw; a host error from it leaves the machine.       *)
UnwindDelegate ==
    /\ Unwinding({"delegate"})
    /\ \/ mode' = "yielded" /\ unw' = Normal /\ UNCHANGED <<frames, scopes>>
       \/ Escape /\ UNCHANGED <<frames, scopes>>
       \/ PopFrame /\ UNCHANGED <<unw, mode>>
    /\ UNCHANGED <<sent, bind, ret, spoiled>>

UnwindEnds ==
    /\ mode = "running" /\ unw # Normal /\ frames = << >>
    /\ IF unw.type \in {"throw", "return"} THEN mode' = "done" /\ unw' = Normal ELSE Escape
    /\ UNCHANGED <<frames, scopes, sent, bind, ret, spoiled>>

Unwind ==
    \/ UnwindToCatch \/ UnwindToFinally \/ UnwindTry \/ UnwindContinue \/ UnwindLoop
    \/ UnwindCloseFails \/ UnwindBlock \/ UnwindDelegate \/ UnwindEnds

(***************************************************************************)
(* The caller (step_generator).                                            *)
(***************************************************************************)

Suspended == {"start", "yielded", "awaiting", "escaped"}

Answers ==                                  \* what a value sent now is the answer to
    CASE mode = "start" -> "start"
      [] mode = "escaped" -> "late"
      [] Top.kind \in Loops -> "loop"
      [] OTHER -> Top.kind

ResumeSend ==
    /\ mode \in Suspended
    /\ mode' = "running"
    /\ IF ret THEN unw' = Arises(frames, "return", Anon) ELSE UNCHANGED unw
    /\ ret' = FALSE
    /\ bind' = (bind /\ ret)
    /\ sent' = IF ret \/ bind THEN sent ELSE Answers
    /\ UNCHANGED <<frames, scopes, spoiled>>

(* return or throw is called: the pending answer is forgotten.  Only a     *)
(* rejection can be thrown at an await, and nothing returns from there.    *)
ResumeAbrupt ==
    /\ mode \in Suspended
    /\ \E type \in {"throw", "return"} :
           /\ mode = "awaiting" => type = "throw"
           /\ unw' = Arises(frames, type, Anon)
    /\ mode' = "running"
    /\ bind' = FALSE /\ ret' = FALSE /\ sent' = "none"
    /\ UNCHANGED <<frames, scopes, spoiled>>

(* A completed generator answers without running.                          *)
Completed == mode = "done" /\ UNCHANGED genVars

GenNext == Statement \/ Pump \/ Unwind \/ ResumeSend \/ ResumeAbrupt \/ Completed

GenSpec == GenInit /\ [][GenNext]_genVars

(***************************************************************************)
(* Properties.                                                             *)
(***************************************************************************)

(* The variables have their types; the answer to an await statement is     *)
(* awaited for only while the body is suspended at that statement.         *)
GenTypeOK ==
    /\ frames \in Seq(Frame) /\ Depth <= MaxFrames
    /\ scopes \in Seq(1 .. MaxFrames)
    /\ unw \in Completion
    /\ mode \in Suspended \cup {"running", "done"}
    /\ sent \in {"none", "start", "late", "loop", "block", "delegate"}
    /\ bind \in BOOLEAN /\ ret \in BOOLEAN /\ spoiled \in BOOLEAN
    /\ bind \/ ret => ~(bind /\ ret) /\ mode \in {"yielded", "awaiting"} /\ Top.kind = "block"

(* The scopes on the environment are those of the frames on the stack that *)
(* own one, in their order: whatever way a statement is left, its names go *)
(* and those of the statements around it stay.  (Two errors break this,    *)
(* ForInitFails and UnwindCloseFails; a completed machine needs no scopes.)*)
Owners == {i \in DOMAIN frames : Owns(frames[i])}

ScopesMatch ==
    ~spoiled /\ mode # "done" =>
        /\ {scopes[k] : k \in DOMAIN scopes} = Owners
        /\ \A j, k \in DOMAIN scopes : j < k => scopes[j] < scopes[k]

(* A loop that goes on with its next turn: a for with its update, the      *)
(* others with their condition or their next item.  (The do-while loop is  *)
(* an exception: the code goes on with its body, without the condition.)   *)
NextTurn(f) ==
    /\ f.kind \in Loops
    /\ f.kind = "for" => f.phase = "after"
    /\ f.kind \in {"while", "forawait", "forawaitsync"} => f.phase = "check"

(* An unwinding stops only where its completion was meant to go: in the    *)
(* catch block of the innermost try around a throw, after the statement a  *)
(* break names, at the next turn of the loop a continue names, at the end  *)
(* for a return, and in an error when a break or continue names nothing.   *)
(* On the way it may stop in a finally block inside of that, with the      *)
(* completion saved; at a yield* that takes it over; or by the error of a  *)
(* failing close.                                                          *)
Lands(c) ==
    LET n == Len(frames')
    IN  \/ c.type = "throw" /\ n = c.target + 1 /\ c.target > 0 /\ frames'[c.target].st = "catching"
        \/ c.type = "break" /\ c.target > 0 /\ n = c.target - 1
        \/ c.type = "continue" /\ c.target > 0 /\ n = c.target /\ NextTurn(frames'[n])
        \/ /\ c.target = 0 /\ n = 0
           /\ mode' = IF c.type \in {"throw", "return"} THEN "done" ELSE "escaped"
        \/ /\ n - 1 > c.target
           /\ frames'[n - 1].st = "finally" /\ frames'[n - 1].saved = [c EXCEPT !.again = FALSE]
        \/ /\ frames # << >> /\ Top.kind = "delegate" /\ frames' = frames
           /\ mode' \in {"yielded", "escaped"}
        \/ spoiled' # spoiled

(* (A label is lost when it stands before an if, a try or a switch, before *)
(* another label, or around the switch it is named in: those jumps go to   *)
(* another statement or fail, against the rules of the language.)          *)
CompletionLands == [][unw # Normal /\ unw' # unw => unw.lost \/ Lands(unw)]_genVars

(* A try statement whose finally block has not begun leaves the stack by   *)
(* no step but one: a return that ends an inner finally block; and a       *)
(* finally block that has begun does not begin again.                      *)
PendingFinally(f) == f.fin /\ f.st \in {"trying", "catching"}

FinallyOnce ==
    [][\A i \in DOMAIN frames :
          /\ PendingFinally(frames[i]) /\ i \notin DOMAIN frames'
                => Top.st = "finally" /\ Top.saved.type = "return" /\ frames' = << >>
          /\ frames[i].st = "finally" /\ i \in DOMAIN frames' => frames'[i] = frames[i]]_genVars

(* The same without the exception, as the language has it.                 *)
FinallyRuns ==
    [][\A i \in DOMAIN frames : PendingFinally(frames[i]) => i \in DOMAIN frames']_genVars

(* for await takes as its item the answer to its own await (or, resumed    *)
(* after an error, whatever is sent then), never a value that was sent at  *)
(* another suspension and stayed in pending_send.                          *)
AwaitAnswered == Pumping(Awaiting) /\ Top.phase = "after" => sent \in {"loop", "late"}

===========================================================================
