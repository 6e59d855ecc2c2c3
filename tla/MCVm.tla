-------------------------------- MODULE MCVm --------------------------------
EXTENDS Vm
Sources == INSTANCE VmPrograms
CompilerOf == INSTANCE Compiler
Interpreter == INSTANCE Interp

\* With the compiled program, what the interpreter makes of its source.
Loaded(p) ==
  LET source == Sources!ProgramAt(p)
  IN  CompilerOf!CompileProgram(source) @@ [name |-> p, expected |-> Interpreter!RunProgram(source)]
All == Sources!TryPrograms \cup Sources!NestedPrograms \cup Sources!FeaturePrograms \cup Sources!WalkPrograms

(* A program does with the machine what it does with the interpreter: it     *)
(* prints the same and ends in the same way (the conformance suite's claim). *)
Parity == status # <<"running">> => [out |-> out, status |-> status] = prog.expected
=============================================================================
