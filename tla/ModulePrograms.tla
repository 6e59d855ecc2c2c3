-------------------------- MODULE ModulePrograms --------------------------
(***************************************************************************)
(* The programs both backends load: a file per module, each a sequence of  *)
(* the statements that matter between modules.  A module exports the one   *)
(* name it declares, which is its own, and may pass on imported ones; a    *)
(* JSON file has the one export "default".                                 *)
(***************************************************************************)
EXTENDS Integers, Sequences, FiniteSets

CONSTANTS
    Module,     \* files with code
    JsonFile,   \* files with data
    Main,       \* the file the program is started from
    Programs    \* the programs: functions from Module to sequences of statements

Name == Module \cup {"default"}
ImportStatement ==
    [op : {"import"}, from : Module, name : Module]         \* спиздить { name } из "from"
      \cup [op : {"default"}, from : JsonFile]              \* ... with { type: "json" }
      \cup [op : {"namespace", "dynamic"}, from : Module]   \* the dynamic one catches errors
Statement ==
    ImportStatement
      \cup [op : {"declare", "later"}]          \* предъява гыы m = v; start a timer
      \cup [op : {"export", "show"}, name : Module]         \* предъява { name }; print it
      \cup [op : {"throw"}, always : BOOLEAN]   \* or in the file's first evaluation only

ASSUME ModuleAssumption == Main \in Module /\ Module \cap JsonFile = {}
ASSUME ProgramsAssumption == \A p \in Programs : p \in [Module -> Seq(Statement)]

Undefined == [from |-> "undefined"]
Rejected == [rejected |-> TRUE]              \* what a dynamic import that failed prints
NoExports == [n \in {} |-> Undefined]
Data(file) == [n \in {"default"} |-> [from |-> file]]
Bind(scope, name, value) == [n \in DOMAIN scope \cup {name} |-> IF n = name THEN value ELSE scope[n]]

Imports(p, m) == {p[m][i].from : i \in {i \in DOMAIN p[m] : p[m][i].op \in {"import", "namespace", "dynamic"}}}
ReachableIn(p, m, n) == LET Grow(S) == S \cup UNION {Imports(p, k) : k \in S}
                        IN  m \in Grow(Grow(Grow(Imports(p, n))))        \* three files
Cyclic(p) == \E m \in Module : ReachableIn(p, m, m)

(* Programs in which no file imports one name from two files: a later      *)
(* import of the name replaces the earlier one, whose link stays.          *)
ImportsName(p, f, m, n) ==
    \E i \in DOMAIN p[f] : p[f][i].op = "import" /\ p[f][i].from = m /\ p[f][i].name = n
OneSource ==
    \A p \in Programs : \A f, m, k \in Module : \A n \in Name :
        ImportsName(p, f, m, n) /\ ImportsName(p, f, k, n) => m = k
===========================================================================
