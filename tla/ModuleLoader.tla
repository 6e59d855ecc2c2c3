--------------------------- MODULE ModuleLoader ---------------------------
(***************************************************************************)
(* The interpreter's module loader.  Importing a file runs it at once, in  *)
(* an interpreter of its own that shares the cache and the links; a file   *)
(* that is being loaded hands out the exports it has so far, and a link    *)
(* rebinds the importer's name once the file has run.                      *)
(***************************************************************************)
EXTENDS ModulePrograms

VARIABLES
    program,    \* the program being run
    stack,      \* the interpreters at work, the entry's first
    cache,      \* Interpreter::module_cache
    links,      \* Interpreter::module_links: no order, as an import keeps the name
    scopes,     \* the top scope of every interpreter there has been
    raised,     \* an error is on its way out
    log,        \* what the program has printed
    outcome,    \* "running", "done", "error"
    \* history
    started, failed,    \* how often each file was evaluated, and failed
    source              \* of each scope: the file its imported names come from

ASSUME OwnAssumption == "own" \notin Module    \* what source says of names a file declares

loaderVars == <<stack, cache, links, scopes, raised, log, outcome, started, failed, source>>

Interpreter(file, run, scope) ==
    [file |-> file, run |-> run, pc |-> 1, scope |-> scope, exports |-> NoExports, tasks |-> << >>]
Absent == [state |-> "Absent", exports |-> NoExports]

LoaderInit ==
    /\ stack = <<Interpreter(Main, 0, 1)>>
    /\ cache = [f \in Module \cup JsonFile |-> Absent]
    /\ links = {} /\ scopes = <<NoExports>> /\ raised = FALSE
    /\ log = << >> /\ outcome = "running"
    /\ started = [f \in Module |-> 0] /\ failed = [f \in Module |-> 0] /\ source = <<NoExports>>

Top == stack[Len(stack)]
Below == SubSeq(stack, 1, Len(stack) - 1)
Code == program[Top.file]
Now == Code[Top.pc]
Executing(op) == outcome = "running" /\ ~raised /\ Top.pc <= Len(Code) /\ Now.op = op
Scope == scopes[Top.scope]

Continue(frame) == stack' = Append(Below, [frame EXCEPT !.pc = @ + 1])
Raise == raised' = TRUE /\ UNCHANGED <<stack, cache, links, scopes, log, outcome, started, failed, source>>

(* record_export: the exports of a file being loaded are shared with those *)
(* that import it (the cell).                                              *)
Recorded(name, value) ==
    LET exports == Bind(Top.exports, name, value)
    IN  /\ Continue([Top EXCEPT !.exports = exports])
        /\ cache' = IF Len(stack) = 1 THEN cache ELSE [cache EXCEPT ![Top.file].exports = exports]

Declare ==
    /\ Executing("declare")
    /\ LET value == [from |-> Top.file, run |-> Top.run, at |-> Top.pc]
       IN  /\ scopes' = [scopes EXCEPT ![Top.scope] = Bind(@, Top.file, value)]
           /\ Recorded(Top.file, value)
    /\ source' = [source EXCEPT ![Top.scope] = Bind(@, Top.file, "own")]
    /\ UNCHANGED <<links, raised, log, outcome, started, failed>>

ExportName ==
    /\ Executing("export")
    /\ IF Now.name \in DOMAIN Scope
       THEN /\ Recorded(Now.name, Scope[Now.name])
            /\ UNCHANGED <<links, scopes, raised, log, outcome, started, failed, source>>
       ELSE Raise

Show ==
    /\ Executing("show")
    /\ IF Now.name \in DOMAIN Scope
       THEN /\ log' = Append(log, <<Top.file, Scope[Now.name]>>)
            /\ Continue(Top)
            /\ UNCHANGED <<cache, links, scopes, raised, outcome, started, failed, source>>
       ELSE Raise

Later ==
    /\ Executing("later")
    /\ Continue([Top EXCEPT !.tasks = Append(@, Top.file)])
    /\ UNCHANGED <<cache, links, scopes, raised, log, outcome, started, failed, source>>

Throw ==
    /\ Executing("throw")
    /\ IF Now.always \/ failed[Top.file] = 0 THEN Raise
       ELSE Continue(Top) /\ UNCHANGED <<cache, links, scopes, raised, log, outcome, started, failed, source>>

(***************************************************************************)
(* Imports.                                                                *)
(***************************************************************************)

(* What an import statement does with the exports it got, in the frame it  *)
(* is in.  While the file is still being loaded a missing name is          *)
(* undefined, and a link is registered for it.                             *)
Bound(frame, below, statement, exports, loading) ==
    LET name == IF statement.op = "default" THEN "default" ELSE statement.name
        value == IF name \in DOMAIN exports THEN exports[name] ELSE Undefined
    IN  IF statement.op = "import" /\ name \notin DOMAIN exports /\ ~loading
        THEN raised' = TRUE /\ stack' = Append(below, frame) /\ UNCHANGED <<links, scopes, log, source>>
        ELSE /\ stack' = Append(below, [frame EXCEPT !.pc = @ + 1])
             /\ raised' = FALSE
             /\ IF statement.op \in {"import", "default"}
                THEN /\ scopes' = [scopes EXCEPT ![frame.scope] = Bind(@, name, value)]
                     /\ source' = [source EXCEPT ![frame.scope] = Bind(@, name, statement.from)]
                     /\ links' = IF loading
                                 THEN links \cup {[file |-> statement.from, scope |-> frame.scope, name |-> name]}
                                 ELSE links
                     /\ UNCHANGED log
                ELSE /\ log' = Append(log, <<frame.file, statement.from, exports>>)   \* the object is printed
                     /\ UNCHANGED <<scopes, source, links>>

ImportCached ==
    /\ \E op \in {"import", "namespace", "dynamic"} : Executing(op)
    /\ LET entry == cache[Now.from]
       IN  /\ entry # Absent
           /\ Bound(Top, Below, Now, entry.exports, entry.state = "Loading")
    /\ UNCHANGED <<cache, outcome, started, failed>>

ImportJson ==
    /\ Executing("default")
    /\ cache' = [cache EXCEPT ![Now.from] = [state |-> "Loaded", exports |-> Data(Now.from)]]
    /\ Bound(Top, Below, Now, Data(Now.from), FALSE)
    /\ UNCHANGED <<outcome, started, failed>>

ImportUncached ==                           \* wrong: a file is run again while it is being loaded
    /\ \E op \in {"import", "namespace", "dynamic"} : Executing(op)
    /\ cache[Now.from].state # "Loaded" /\ Len(stack) < 4
    /\ cache' = [cache EXCEPT ![Now.from] = [state |-> "Loading", exports |-> NoExports]]
    /\ stack' = Append(stack, Interpreter(Now.from, started[Now.from] + 1, Len(scopes) + 1))
    /\ scopes' = Append(scopes, NoExports) /\ source' = Append(source, NoExports)
    /\ started' = [started EXCEPT ![Now.from] = @ + 1]
    /\ UNCHANGED <<links, raised, log, outcome, failed>>

ImportLoads ==
    /\ \E op \in {"import", "namespace", "dynamic"} : Executing(op)
    /\ cache[Now.from] = Absent
    /\ cache' = [cache EXCEPT ![Now.from] = [state |-> "Loading", exports |-> NoExports]]
    /\ stack' = Append(stack, Interpreter(Now.from, started[Now.from] + 1, Len(scopes) + 1))
    /\ scopes' = Append(scopes, NoExports) /\ source' = Append(source, NoExports)
    /\ started' = [started EXCEPT ![Now.from] = @ + 1]
    /\ UNCHANGED <<links, raised, log, outcome, failed>>

(* The event loop of the interpreter that ran the file, before the file    *)
(* counts as loaded.                                                       *)
RunTask ==
    /\ outcome = "running" /\ ~raised /\ Top.pc > Len(Code) /\ Top.tasks # << >>
    /\ log' = Append(log, <<"task", Head(Top.tasks)>>)
    /\ stack' = Append(Below, [Top EXCEPT !.tasks = Tail(@)])
    /\ UNCHANGED <<cache, links, scopes, raised, outcome, started, failed, source>>

(* apply_module_links: the links to the file are resolved and dropped.     *)
ApplyLinksFirst(file, exports) ==           \* wrong: one link only
    LET waiting == {l \in links : l.file = file}
        first == IF waiting = {} THEN {} ELSE {CHOOSE l \in waiting : TRUE}
    IN  /\ links' = links \ waiting
        /\ scopes' = [s \in DOMAIN scopes |->
                [n \in DOMAIN scopes[s] |->
                    IF [file |-> file, scope |-> s, name |-> n] \in first /\ n \in DOMAIN exports
                    THEN exports[n] ELSE scopes[s][n]]]

ApplyLinks(file, exports) ==
    /\ links' = {l \in links : l.file # file}
    /\ scopes' = [s \in DOMAIN scopes |->
            [n \in DOMAIN scopes[s] |->
                IF [file |-> file, scope |-> s, name |-> n] \in links /\ n \in DOMAIN exports
                THEN exports[n] ELSE scopes[s][n]]]

(* run_module ends: the file is loaded, and its importer still waits.      *)
Loaded ==
    /\ outcome = "running" /\ ~raised /\ Top.pc > Len(Code) /\ Top.tasks = << >> /\ Len(stack) > 1
    /\ cache[Top.file].state = "Loading"
    /\ cache' = [cache EXCEPT ![Top.file] = [state |-> "Loaded", exports |-> Top.exports]]
    /\ ApplyLinks(Top.file, Top.exports)
    /\ UNCHANGED <<stack, raised, log, outcome, started, failed, source>>

(* load_module returns to the import statement.                            *)
Return ==
    /\ outcome = "running" /\ ~raised /\ Top.pc > Len(Code) /\ Len(stack) > 1
    /\ cache[Top.file].state = "Loaded"
    /\ LET importer == Below[Len(Below)]
       IN  Bound(importer, SubSeq(Below, 1, Len(Below) - 1), program[importer.file][importer.pc], Top.exports, FALSE)
    /\ UNCHANGED <<cache, outcome, started, failed>>

(* load_module fails: the file leaves the cache.  The links stay.          *)
Unwind ==
    /\ outcome = "running" /\ raised /\ Len(stack) > 1
    /\ cache' = [cache EXCEPT ![Top.file] = Absent]
    /\ failed' = [failed EXCEPT ![Top.file] = @ + 1]
    /\ LET importer == Below[Len(Below)]
           statement == program[importer.file][importer.pc]
       IN  IF statement.op = "dynamic"      \* the error becomes a rejected promise
           THEN /\ log' = Append(log, <<importer.file, statement.from, Rejected>>)
                /\ stack' = [Below EXCEPT ![Len(Below)].pc = @ + 1] /\ raised' = FALSE
           ELSE stack' = Below /\ UNCHANGED <<log, raised>>
    /\ UNCHANGED <<links, scopes, outcome, started, source>>

End ==
    /\ outcome = "running" /\ Len(stack) = 1
    /\ \/ raised /\ outcome' = "error"
       \/ ~raised /\ Top.pc > Len(Code) /\ Top.tasks = << >> /\ outcome' = "done"
    /\ UNCHANGED <<stack, cache, links, scopes, raised, log, started, failed, source>>

LoaderNext ==
    \/ Declare \/ ExportName \/ Show \/ Later \/ Throw
    \/ ImportCached \/ ImportJson \/ ImportLoads \/ RunTask \/ Loaded \/ Return \/ Unwind \/ End

(***************************************************************************)
(* Properties.                                                             *)
(***************************************************************************)

(* A file is evaluated again only if its last evaluation failed (the entry *)
(* is not in the cache: a file that imports it evaluates it once more).    *)
EvaluatedOnce ==
    \A m \in Module : started[m] = failed[m] + IF cache[m] = Absent THEN 0 ELSE 1

(* Once a file is loaded, a name imported from it has the exported value,  *)
(* in files that imported it before, in the middle of a cycle or of an     *)
(* attempt that failed, as well as after; no link to it is left to overrun *)
(* a later binding.                                                        *)
LinkedFinal ==
    \A m \in Module : cache[m].state = "Loaded" =>
        /\ \A l \in links : l.file # m
        /\ \A s \in DOMAIN scopes : \A n \in DOMAIN source[s] \cap DOMAIN cache[m].exports :
              source[s][n] = m => scopes[s][n] = cache[m].exports[n]
===========================================================================
