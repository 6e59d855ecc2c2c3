-------------------------- MODULE ModuleBackends --------------------------
(***************************************************************************)
(* The bytecode VM's module loader, and one program run by both backends,  *)
(* the interpreter first.  The VM keeps the files being loaded in a set of *)
(* their own and gives those who import them an empty table; it has no     *)
(* links, and does not run the event loop of an imported file.             *)
(***************************************************************************)
EXTENDS ModuleLoader

VARIABLES
    vmStack,    \* the Vms at work; of each, the globals and exports too
    vmCache,    \* Vm::module_cache: the exports of the files loaded
    vmLoading,  \* Vm::module_loading
    vmRaised, vmLog, vmOutcome,
    vmStarted, vmFailed     \* history: how often each file was evaluated, and failed

vmVars == <<vmStack, vmCache, vmLoading, vmRaised, vmLog, vmOutcome, vmStarted, vmFailed>>
backendVars == <<program, loaderVars, vmVars>>

Vm(file, run) ==
    [file |-> file, run |-> run, pc |-> 1, globals |-> NoExports, exports |-> NoExports, tasks |-> << >>]

VmInit ==
    /\ vmStack = <<Vm(Main, 0)>>
    /\ vmCache = NoExports /\ vmLoading = {}
    /\ vmRaised = FALSE /\ vmLog = << >> /\ vmOutcome = "idle"
    /\ vmStarted = [f \in Module |-> 0] /\ vmFailed = [f \in Module |-> 0]

VmTop == vmStack[Len(vmStack)]
VmBelow == SubSeq(vmStack, 1, Len(vmStack) - 1)
VmCode == program[VmTop.file]
VmStatement == VmCode[VmTop.pc]
VmExecuting(op) == vmOutcome = "running" /\ ~vmRaised /\ VmTop.pc <= Len(VmCode) /\ VmStatement.op = op

VmContinue(vm) == vmStack' = Append(VmBelow, [vm EXCEPT !.pc = @ + 1])
VmRaise == vmRaised' = TRUE /\ UNCHANGED <<vmStack, vmCache, vmLoading, vmLog, vmOutcome, vmStarted, vmFailed>>

VmDeclare ==
    /\ VmExecuting("declare")
    /\ LET value == [from |-> VmTop.file, run |-> VmTop.run, at |-> VmTop.pc]
       IN  VmContinue([VmTop EXCEPT !.globals = Bind(@, VmTop.file, value), !.exports = Bind(@, VmTop.file, value)])
    /\ UNCHANGED <<vmCache, vmLoading, vmRaised, vmLog, vmOutcome, vmStarted, vmFailed>>

(* RecordExport of an undefined name does nothing.                         *)
VmExportName ==
    /\ VmExecuting("export")
    /\ LET name == VmStatement.name
       IN  VmContinue(IF name \in DOMAIN VmTop.globals
                      THEN [VmTop EXCEPT !.exports = Bind(@, name, VmTop.globals[name])] ELSE VmTop)
    /\ UNCHANGED <<vmCache, vmLoading, vmRaised, vmLog, vmOutcome, vmStarted, vmFailed>>

VmShow ==
    /\ VmExecuting("show")
    /\ IF VmStatement.name \in DOMAIN VmTop.globals
       THEN /\ vmLog' = Append(vmLog, <<VmTop.file, VmTop.globals[VmStatement.name]>>)
            /\ VmContinue(VmTop)
            /\ UNCHANGED <<vmCache, vmLoading, vmRaised, vmOutcome, vmStarted, vmFailed>>
       ELSE VmRaise

VmLater ==
    /\ VmExecuting("later")
    /\ VmContinue([VmTop EXCEPT !.tasks = Append(@, VmTop.file)])
    /\ UNCHANGED <<vmCache, vmLoading, vmRaised, vmLog, vmOutcome, vmStarted, vmFailed>>

VmThrow ==
    /\ VmExecuting("throw")
    /\ IF VmStatement.always \/ vmFailed[VmTop.file] = 0 THEN VmRaise
       ELSE VmContinue(VmTop) /\ UNCHANGED <<vmCache, vmLoading, vmRaised, vmLog, vmOutcome, vmStarted, vmFailed>>

(* do_import and dynamic_import.                                           *)
VmBound(vm, below, statement, exports) ==
    LET name == IF statement.op = "default" THEN "default" ELSE statement.name
        value == IF name \in DOMAIN exports THEN exports[name] ELSE Undefined
    IN  IF statement.op = "import" /\ name \notin DOMAIN exports
        THEN vmRaised' = TRUE /\ vmStack' = Append(below, vm) /\ UNCHANGED vmLog
        ELSE /\ vmRaised' = FALSE
             /\ IF statement.op \in {"import", "default"}
                THEN /\ vmStack' = Append(below, [vm EXCEPT !.pc = @ + 1, !.globals = Bind(@, name, value)])
                     /\ UNCHANGED vmLog
                ELSE /\ vmStack' = Append(below, [vm EXCEPT !.pc = @ + 1])
                     /\ vmLog' = Append(vmLog, <<vm.file, statement.from, exports>>)

VmImport ==
    /\ \E op \in {"import", "namespace", "dynamic"} : VmExecuting(op)
    /\ LET file == VmStatement.from
       IN  IF file \in DOMAIN vmCache
           THEN VmBound(VmTop, VmBelow, VmStatement, vmCache[file]) /\ UNCHANGED <<vmLoading, vmStarted>>
           ELSE IF file \in vmLoading
           THEN VmBound(VmTop, VmBelow, VmStatement, NoExports) /\ UNCHANGED <<vmLoading, vmStarted>>
           ELSE /\ vmLoading' = vmLoading \cup {file}
                /\ vmStack' = Append(vmStack, Vm(file, vmStarted[file] + 1))
                /\ vmStarted' = [vmStarted EXCEPT ![file] = @ + 1]
                /\ UNCHANGED <<vmRaised, vmLog>>
    /\ UNCHANGED <<vmCache, vmOutcome, vmFailed>>

VmImportJson ==
    /\ VmExecuting("default")
    /\ vmCache' = Bind(vmCache, VmStatement.from, Data(VmStatement.from))
    /\ VmBound(VmTop, VmBelow, VmStatement, Data(VmStatement.from))
    /\ UNCHANGED <<vmLoading, vmOutcome, vmStarted, vmFailed>>

(* load_module_inner returns: the tasks of the file are dropped with its   *)
(* Vm.                                                                     *)
VmReturn ==
    /\ vmOutcome = "running" /\ ~vmRaised /\ VmTop.pc > Len(VmCode) /\ Len(vmStack) > 1
    /\ vmLoading' = vmLoading \ {VmTop.file}
    /\ vmCache' = Bind(vmCache, VmTop.file, VmTop.exports)
    /\ LET importer == VmBelow[Len(VmBelow)]
       IN  VmBound(importer, SubSeq(VmBelow, 1, Len(VmBelow) - 1), program[importer.file][importer.pc], VmTop.exports)
    /\ UNCHANGED <<vmOutcome, vmStarted, vmFailed>>

VmUnwindMarked ==                           \* wrong: the file stays marked as being loaded
    /\ vmOutcome = "running" /\ vmRaised /\ Len(vmStack) > 1
    /\ vmFailed' = [vmFailed EXCEPT ![VmTop.file] = @ + 1]
    /\ LET importer == VmBelow[Len(VmBelow)]
           statement == program[importer.file][importer.pc]
       IN  IF statement.op = "dynamic"
           THEN /\ vmLog' = Append(vmLog, <<importer.file, statement.from, Rejected>>)
                /\ vmStack' = [VmBelow EXCEPT ![Len(VmBelow)].pc = @ + 1] /\ vmRaised' = FALSE
           ELSE vmStack' = VmBelow /\ UNCHANGED <<vmLog, vmRaised>>
    /\ UNCHANGED <<vmCache, vmLoading, vmOutcome, vmStarted>>

VmUnwind ==
    /\ vmOutcome = "running" /\ vmRaised /\ Len(vmStack) > 1
    /\ vmLoading' = vmLoading \ {VmTop.file}
    /\ vmFailed' = [vmFailed EXCEPT ![VmTop.file] = @ + 1]
    /\ LET importer == VmBelow[Len(VmBelow)]
           statement == program[importer.file][importer.pc]
       IN  IF statement.op = "dynamic"
           THEN /\ vmLog' = Append(vmLog, <<importer.file, statement.from, Rejected>>)
                /\ vmStack' = [VmBelow EXCEPT ![Len(VmBelow)].pc = @ + 1] /\ vmRaised' = FALSE
           ELSE vmStack' = VmBelow /\ UNCHANGED <<vmLog, vmRaised>>
    /\ UNCHANGED <<vmCache, vmOutcome, vmStarted>>

(* Vm::run: the event loop of the entry.                                   *)
VmRunTask ==
    /\ vmOutcome = "running" /\ ~vmRaised /\ Len(vmStack) = 1 /\ VmTop.pc > Len(VmCode) /\ VmTop.tasks # << >>
    /\ vmLog' = Append(vmLog, <<"task", Head(VmTop.tasks)>>)
    /\ vmStack' = Append(VmBelow, [VmTop EXCEPT !.tasks = Tail(@)])
    /\ UNCHANGED <<vmCache, vmLoading, vmRaised, vmOutcome, vmStarted, vmFailed>>

VmEnd ==
    /\ vmOutcome = "running" /\ Len(vmStack) = 1
    /\ \/ vmRaised /\ vmOutcome' = "error"
       \/ ~vmRaised /\ VmTop.pc > Len(VmCode) /\ VmTop.tasks = << >> /\ vmOutcome' = "done"
    /\ UNCHANGED <<vmStack, vmCache, vmLoading, vmRaised, vmLog, vmStarted, vmFailed>>

VmNext ==
    \/ VmDeclare \/ VmExportName \/ VmShow \/ VmLater \/ VmThrow \/ VmImport \/ VmImportJson
    \/ VmReturn \/ VmUnwind \/ VmRunTask \/ VmEnd

(***************************************************************************)
(* The same program, run by one and then by the other.                     *)
(***************************************************************************)

BackendsInit == program \in Programs /\ LoaderInit /\ VmInit

StartVm ==
    /\ outcome # "running" /\ vmOutcome = "idle"
    /\ vmOutcome' = "running"
    /\ UNCHANGED <<vmStack, vmCache, vmLoading, vmRaised, vmLog, vmStarted, vmFailed>>

BackendsNext ==
    \/ LoaderNext /\ UNCHANGED <<program, vmVars>>
    \/ (StartVm \/ VmNext) /\ UNCHANGED <<program, loaderVars>>

BackendsSpec == BackendsInit /\ [][BackendsNext]_backendVars

Both == outcome # "running" /\ vmOutcome \in {"done", "error"}

(* The programs the loaders are meant for: no cycle, no timer in a file    *)
(* that is imported, no export of a name that is not defined before.       *)
Defines(s, m, name) == (s.op = "declare" /\ m = name) \/ (s.op = "import" /\ s.name = name)
Tame(p) ==
    /\ ~Cyclic(p)
    /\ \A m \in Module : \A i \in DOMAIN p[m] :
          /\ p[m][i].op = "later" => m = Main
          /\ p[m][i].op = "export" => \E j \in 1 .. i - 1 : Defines(p[m][j], m, p[m][i].name)

(* A tame program prints the same with both backends and ends the same,    *)
(* also when files fail and are imported again.                            *)
BackendsAgree == Both /\ Tame(program) => log = vmLog /\ outcome = vmOutcome

===========================================================================
