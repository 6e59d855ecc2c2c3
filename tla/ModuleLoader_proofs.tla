------------------------ MODULE ModuleLoader_proofs ------------------------
(***************************************************************************)
(* Proofs about the interpreter's module loader, for any files and any     *)
(* programs, with the machine's loader beside it (BackendsSpec).           *)
(*   LoadedOnce    a file is evaluated again only after it failed;         *)
(*   LinksFinal    once a file is loaded, whatever was imported from it    *)
(*                 has the exported value, and no link to it is left.      *)
(***************************************************************************)
EXTENDS ModuleBackends, TLAPS

(***************************************************************************)
(* Types.                                                                  *)
(***************************************************************************)
Value == [from : Module, run : Nat, at : Nat] \cup [from : JsonFile \cup {"undefined"}]
Tables(S) == UNION {[D -> S] : D \in SUBSET Name}
Table == Tables(Value)
Origin == Tables(Module \cup JsonFile \cup {"own"})
Frame == [file : Module, run : Nat, pc : Nat \ {0}, scope : Nat \ {0}, exports : Table, tasks : Seq(Module)]
Entry == [state : {"Absent", "Loading", "Loaded"}, exports : Table]
Link == [file : Module, scope : Nat, name : Module]

ScopesTyped ==
    /\ scopes \in Seq(Table) /\ source \in Seq(Origin) /\ Len(source) = Len(scopes)
    /\ \A s \in DOMAIN scopes : DOMAIN source[s] = DOMAIN scopes[s]
    /\ links \subseteq Link /\ \A l \in links : l.scope \in DOMAIN scopes
StackTyped ==
    /\ stack \in Seq(Frame) /\ stack # << >>
    /\ \A i \in DOMAIN stack : stack[i].scope \in DOMAIN scopes
CacheTyped ==
    /\ cache \in [Module \cup JsonFile -> Entry]
    /\ \A m \in Module : cache[m].state = "Absent" => cache[m] = Absent
LoaderTyped ==
    /\ program \in Programs
    /\ ScopesTyped /\ StackTyped /\ CacheTyped
    /\ raised \in BOOLEAN
    /\ started \in [Module -> Nat] /\ failed \in [Module -> Nat]

(***************************************************************************)
(* The stack: every interpreter above the entry's runs a file that the one *)
(* below is at the import of, with its exports in the cache (the cell);    *)
(* it is being loaded, or on top, at its end and about to return.  No file *)
(* is loaded by two of them.                                               *)
(***************************************************************************)
Running == {"import", "namespace", "dynamic"}
AtImport(p, f, m) ==
    f.pc \in DOMAIN p[f.file] /\ p[f.file][f.pc].op \in Running /\ p[f.file][f.pc].from = m
Ended(f) == ~raised /\ f.pc > Len(program[f.file])
Loads(i) ==
    /\ AtImport(program, stack[i - 1], stack[i].file)
    /\ stack[i].exports = cache[stack[i].file].exports
    /\ \/ cache[stack[i].file].state = "Loading"
       \/ i = Len(stack) /\ cache[stack[i].file].state = "Loaded" /\ Ended(stack[i])
Calling ==
    /\ \A i \in 2 .. Len(stack) : Loads(i)
    /\ \A i, j \in 2 .. Len(stack) : stack[i].file = stack[j].file => i = j

LoadInv == LoaderTyped /\ Calling /\ EvaluatedOnce

(***************************************************************************)
(* Tables and frames.                                                      *)
(***************************************************************************)
LEMMA BindTable ==
    ASSUME NEW S, NEW t \in Tables(S), NEW n \in Name, NEW v \in S
    PROVE  Bind(t, n, v) \in Tables(S)
<1>1. PICK D \in SUBSET Name : t \in [D -> S]
  BY DEF Tables
<1>2. Bind(t, n, v) = [k \in D \cup {n} |-> IF k = n THEN v ELSE t[k]]
  BY <1>1 DEF Bind
<1>3. Bind(t, n, v) \in [D \cup {n} -> S]
  BY <1>1, <1>2
<1>4. D \cup {n} \in SUBSET Name
  OBVIOUS
<1> QED BY <1>3, <1>4 DEF Tables

LEMMA BoundName ==
    ASSUME NEW t, NEW n, NEW v
    PROVE  /\ DOMAIN Bind(t, n, v) = DOMAIN t \cup {n}
           /\ Bind(t, n, v)[n] = v
           /\ \A k \in DOMAIN t : k # n => Bind(t, n, v)[k] = t[k]
BY DEF Bind

LEMMA NoExportsTable == NoExports \in Table /\ DOMAIN NoExports = {}
                        /\ NoExports \in Origin
BY DEF NoExports, Table, Origin, Tables

LEMMA TableParts ==
    ASSUME NEW S, NEW t \in Tables(S)
    PROVE  DOMAIN t \subseteq Name /\ (\A n \in DOMAIN t : t[n] \in S) /\ t = [n \in DOMAIN t |-> t[n]]
BY DEF Tables

LEMMA DataTable ==
    ASSUME NEW f \in JsonFile
    PROVE  Data(f) \in Table
<1>1. Data(f) \in [{"default"} -> Value]
  BY DEF Data, Value
<1> QED BY <1>1 DEF Table, Tables, Name

(* A frame whose program counter moves on.                                 *)
Advanced(f) == [f EXCEPT !.pc = @ + 1]
LEMMA AdvancedFrame ==
    ASSUME NEW f \in Frame
    PROVE  /\ Advanced(f) \in Frame /\ Advanced(f).pc = f.pc + 1
           /\ Advanced(f).file = f.file /\ Advanced(f).scope = f.scope
           /\ Advanced(f).exports = f.exports
BY DEF Advanced, Frame

(***************************************************************************)
(* What the loader does to the stack: the top frame changes, a frame is    *)
(* pushed, or it is popped and the one below changes.                      *)
(***************************************************************************)
Swapped(t, s, f) ==
    /\ t \in Seq(Frame) /\ Len(t) = Len(s) /\ t # << >> /\ t[Len(s)] = f
    /\ \A i \in 1 .. Len(s) - 1 : t[i] = s[i]
Pushed(t, s, f) ==
    /\ t \in Seq(Frame) /\ Len(t) = Len(s) + 1 /\ t # << >> /\ t[Len(s) + 1] = f
    /\ \A i \in 1 .. Len(s) : t[i] = s[i]
Popped(t, s, f) ==
    /\ t \in Seq(Frame) /\ Len(t) = Len(s) - 1 /\ t # << >> /\ t[Len(s) - 1] = f
    /\ \A i \in 1 .. Len(s) - 2 : t[i] = s[i]

LEMMA SwapTop ==
    ASSUME NEW s \in Seq(Frame), s # << >>, NEW f \in Frame
    PROVE  Swapped(Append(SubSeq(s, 1, Len(s) - 1), f), s, f)
<1> DEFINE b == SubSeq(s, 1, Len(s) - 1)
<1>1. Len(s) \in Nat /\ Len(s) # 0
  OBVIOUS
<1>2. b \in Seq(Frame) /\ Len(b) = Len(s) - 1 /\ \A i \in 1 .. Len(s) - 1 : b[i] = s[i]
  <2>1. CASE Len(s) > 1
    BY <1>1, <2>1
  <2>2. CASE Len(s) = 1
    <3>1. b = << >>
      BY <2>2
    <3> QED BY <2>2, <3>1
  <2>3. Len(s) > 1 \/ Len(s) = 1
    OBVIOUS
  <2> QED BY <2>1, <2>2, <2>3
<1> HIDE DEF b
<1>3. /\ Append(b, f) \in Seq(Frame) /\ Len(Append(b, f)) = Len(s) /\ Append(b, f)[Len(s)] = f
      /\ \A i \in 1 .. Len(s) - 1 : Append(b, f)[i] = s[i]
  BY <1>1, <1>2
<1>4. Append(b, f) # << >>
  BY <1>1, <1>3
<1> QED BY <1>3, <1>4 DEF Swapped, b

LEMMA PushTop ==
    ASSUME NEW s \in Seq(Frame), NEW f \in Frame
    PROVE  Pushed(Append(s, f), s, f)
<1>1. /\ Append(s, f) \in Seq(Frame) /\ Len(Append(s, f)) = Len(s) + 1 /\ Append(s, f)[Len(s) + 1] = f
      /\ \A i \in 1 .. Len(s) : Append(s, f)[i] = s[i]
  OBVIOUS
<1>2. Append(s, f) # << >>
  BY <1>1
<1> QED BY <1>1, <1>2 DEF Pushed

LEMMA BelowSeq ==
    ASSUME NEW s \in Seq(Frame), Len(s) > 1
    PROVE  LET b == SubSeq(s, 1, Len(s) - 1)
           IN  /\ b \in Seq(Frame) /\ b # << >> /\ Len(b) = Len(s) - 1
               /\ \A i \in 1 .. Len(s) - 1 : b[i] = s[i]
<1> DEFINE b == SubSeq(s, 1, Len(s) - 1)
<1>1. b \in Seq(Frame) /\ Len(b) = Len(s) - 1 /\ \A i \in 1 .. Len(s) - 1 : b[i] = s[i]
  OBVIOUS
<1>2. Len(s) \in Nat
  OBVIOUS
<1> HIDE DEF b
<1>3. b # << >>
  BY <1>1, <1>2
<1> QED BY <1>1, <1>3 DEF b

LEMMA PopTop ==
    ASSUME NEW s \in Seq(Frame), Len(s) > 1, NEW f \in Frame, NEW t,
           LET b == SubSeq(s, 1, Len(s) - 1)
           IN  t = Append(SubSeq(b, 1, Len(b) - 1), f) \/ t = [b EXCEPT ![Len(b)] = f]
    PROVE  Popped(t, s, f)
<1> DEFINE b == SubSeq(s, 1, Len(s) - 1)
<1>1. Len(s) \in Nat /\ b \in Seq(Frame) /\ b # << >> /\ Len(b) = Len(s) - 1 /\ \A i \in 1 .. Len(s) - 1 : b[i] = s[i]
  BY BelowSeq
<1>2. t = Append(SubSeq(b, 1, Len(b) - 1), f) \/ t = [b EXCEPT ![Len(b)] = f]
  OBVIOUS
<1> HIDE DEF b
<1>3. CASE t = Append(SubSeq(b, 1, Len(b) - 1), f)
  <2>1. Swapped(t, b, f)
    BY <1>1, <1>3, SwapTop
  <2> QED BY <2>1, <1>1 DEF Swapped, Popped
<1>4. CASE t = [b EXCEPT ![Len(b)] = f]
  <2>1. t \in Seq(Frame) /\ Len(t) = Len(b) /\ t[Len(b)] = f /\ \A i \in 1 .. Len(b) - 1 : t[i] = b[i]
    BY <1>1, <1>4
  <2>2. t # << >>
    BY <2>1, <1>1
  <2> QED BY <2>1, <2>2, <1>1 DEF Popped
<1> QED BY <1>2, <1>3, <1>4

(***************************************************************************)
(* What the state gives an action.                                         *)
(***************************************************************************)
LEMMA ProgramCode ==
    ASSUME program \in Programs, NEW m \in Module
    PROVE  program[m] \in Seq(Statement)
BY ProgramsAssumption

LEMMA TopFacts ==
    ASSUME LoaderTyped
    PROVE  /\ Len(stack) \in Nat /\ Len(stack) >= 1 /\ Len(stack) \in DOMAIN stack
           /\ Top = stack[Len(stack)] /\ Top \in Frame /\ Top.scope \in DOMAIN scopes
           /\ Code \in Seq(Statement) /\ Scope \in Table
<1>1. stack \in Seq(Frame) /\ stack # << >> /\ \A i \in DOMAIN stack : stack[i].scope \in DOMAIN scopes
  BY DEF LoaderTyped, StackTyped
<1>2. Len(stack) \in Nat /\ Len(stack) >= 1 /\ Len(stack) \in DOMAIN stack
  BY <1>1
<1>3. Top = stack[Len(stack)] /\ Top \in Frame /\ Top.scope \in DOMAIN scopes
  BY <1>1, <1>2 DEF Top
<1>4. Code \in Seq(Statement)
  BY <1>3, ProgramCode DEF Code, LoaderTyped, Frame
<1>5. Scope \in Table
  BY <1>3 DEF Scope, LoaderTyped, ScopesTyped
<1> QED BY <1>2, <1>3, <1>4, <1>5

(* A frame with code left has not been loaded.                             *)
LEMMA AtWork ==
    ASSUME LoadInv, NEW op, Executing(op)
    PROVE  /\ Top.pc \in DOMAIN Code /\ Now \in Statement /\ Now.op = op /\ raised = FALSE
           /\ Len(stack) > 1 => cache[Top.file].state = "Loading" /\ Top.exports = cache[Top.file].exports
<1>1. LoaderTyped /\ Calling
  BY DEF LoadInv
<1>2. Top.pc \in DOMAIN Code
  BY <1>1, TopFacts DEF Executing, Frame
<1>3. Now \in Statement /\ Now.op = op
  BY <1>1, <1>2, TopFacts DEF Now, Executing
<1>4. raised = FALSE
  BY <1>1 DEF LoaderTyped, Executing
<1>5. ASSUME Len(stack) > 1
      PROVE  cache[Top.file].state = "Loading" /\ Top.exports = cache[Top.file].exports
  <2>1. Len(stack) \in 2 .. Len(stack) /\ Top = stack[Len(stack)] /\ Len(Code) \in Nat /\ Top.pc \in Nat
    BY <1>1, <1>5, TopFacts DEF Frame
  <2>2. Loads(Len(stack))
    BY <1>1, <2>1 DEF Calling
  <2>3. ~ Ended(Top)
    BY <2>1 DEF Executing, Ended, Code
  <2> QED BY <2>1, <2>2, <2>3 DEF Loads
<1> QED BY <1>2, <1>3, <1>4, <1>5

LEMMA ImportFacts ==
    ASSUME NEW s \in Statement
    PROVE  /\ s.op \in Running => s.from \in Module
           /\ s.op = "import" => s.name \in Module /\ s = [op |-> "import", from |-> s.from, name |-> s.name]
           /\ s.op = "default" => s.from \in JsonFile
           /\ s.op \in {"export", "show"} => s.name \in Module
BY DEF Statement, ImportStatement, Running

(* A file that is not in the cache.                                        *)
LEMMA AbsentEntry ==
    ASSUME CacheTyped, NEW m \in Module
    PROVE  cache[m] = Absent <=> cache[m].state = "Absent"
BY DEF CacheTyped, Absent

(***************************************************************************)
(* The invariant through the three ways the stack changes.                 *)
(***************************************************************************)
LEMMA CallingSwap ==
    ASSUME LoadInv, NEW f \in Frame, Swapped(stack', stack, f), f.file = Top.file, program' = program,
           \A m \in Module : cache'[m].state = cache[m].state,
           \A m \in Module : m # Top.file \/ Len(stack) = 1 => cache'[m].exports = cache[m].exports,
           Len(stack) > 1 =>
               /\ f.exports = cache'[Top.file].exports
               /\ \/ cache[Top.file].state = "Loading"
                  \/ cache[Top.file].state = "Loaded" /\ ~raised' /\ f.pc > Len(program[f.file])
    PROVE  Calling'
<1>1. LoaderTyped /\ Calling
  BY DEF LoadInv
<1> DEFINE n == Len(stack)
<1>2. n \in Nat /\ n >= 1 /\ Top = stack[n] /\ stack \in Seq(Frame) /\ stack' \in Seq(Frame)
  BY <1>1, TopFacts DEF LoaderTyped, StackTyped, Swapped
<1>3. Len(stack') = n /\ stack'[n] = f /\ \A i \in 1 .. n - 1 : stack'[i] = stack[i]
  BY DEF Swapped
<1>5. \A i, j \in 2 .. n : stack[i].file = stack[j].file => i = j
  BY <1>1 DEF Calling
<1> HIDE DEF n
<1>4. ASSUME NEW i \in 1 .. n
      PROVE  stack'[i].file = stack[i].file /\ stack[i].file \in Module
  <2>1. stack[i] \in Frame /\ (i = n \/ i \in 1 .. n - 1)
    BY <1>2 DEF n
  <2> QED BY <2>1, <1>2, <1>3 DEF Frame
<1>6. ASSUME NEW i \in 2 .. n
      PROVE  Loads(i)'
  <2>1. Loads(i) /\ i \in Nat /\ i - 1 \in 1 .. n - 1 /\ i \in 1 .. n
    BY <1>1, <1>2 DEF Calling, n
  <2>2. AtImport(program', stack'[i - 1], stack'[i].file)
    BY <2>1, <1>3, <1>4 DEF Loads, AtImport
  <2>3. CASE i = n
    <3>1. n > 1 /\ stack'[i] = f /\ f.file = Top.file /\ Top.file \in Module
      BY <1>2, <1>3, <1>4, <2>1, <2>3
    <3>2. f.exports = cache'[Top.file].exports
      BY <3>1 DEF n
    <3>3. \/ cache'[f.file].state = "Loading"
          \/ cache'[f.file].state = "Loaded" /\ Ended(f)'
      BY <3>1 DEF n, Ended
    <3> QED BY <2>2, <2>3, <1>3, <3>1, <3>2, <3>3 DEF Loads, n
  <2>4. CASE i # n
    <3>1. i \in 1 .. n - 1 /\ stack'[i] = stack[i] /\ stack[i].file # Top.file
      BY <1>2, <1>3, <1>5, <2>1, <2>4
    <3>2. cache'[stack[i].file].exports = cache[stack[i].file].exports
      BY <3>1, <1>4, <2>1
    <3>3. cache'[stack[i].file].state = "Loading"
      BY <2>1, <2>4, <1>4 DEF Loads, n
    <3> QED BY <2>1, <2>2, <3>1, <3>2, <3>3 DEF Loads
  <2> QED BY <2>3, <2>4
<1>7. \A i, j \in 2 .. n : stack'[i].file = stack'[j].file => i = j
  BY <1>2, <1>4, <1>5
<1> QED BY <1>3, <1>6, <1>7 DEF Calling, n

LEMMA CallingPush ==
    ASSUME LoadInv, NEW f \in Frame, Pushed(stack', stack, f), program' = program,
           AtImport(program, Top, f.file), cache[f.file].state = "Absent",
           cache'[f.file].state = "Loading", cache'[f.file].exports = f.exports,
           \A m \in Module : m # f.file => cache'[m] = cache[m],
           Len(stack) > 1 => cache[Top.file].state = "Loading"
    PROVE  Calling'
<1>1. LoaderTyped /\ Calling
  BY DEF LoadInv
<1> DEFINE n == Len(stack)
<1>2. n \in Nat /\ n >= 1 /\ Top = stack[n] /\ stack \in Seq(Frame) /\ stack' \in Seq(Frame)
  BY <1>1, TopFacts DEF LoaderTyped, StackTyped, Pushed
<1>3. Len(stack') = n + 1 /\ stack'[n + 1] = f /\ \A i \in 1 .. n : stack'[i] = stack[i]
  BY DEF Pushed
<1>5. \A i, j \in 2 .. n : stack[i].file = stack[j].file => i = j
  BY <1>1 DEF Calling
<1> HIDE DEF n
<1>4. ASSUME NEW i \in 1 .. n
      PROVE  stack[i].file \in Module
  <2>1. stack[i] \in Frame
    BY <1>2 DEF n
  <2> QED BY <2>1 DEF Frame
<1>6. ASSUME NEW i \in 2 .. n
      PROVE  /\ stack'[i] = stack[i] /\ stack[i].file # f.file
             /\ AtImport(program', stack'[i - 1], stack'[i].file)
             /\ stack[i].exports = cache'[stack[i].file].exports
             /\ cache'[stack[i].file].state = "Loading"
  <2>1. Loads(i) /\ i \in Nat /\ i - 1 \in 1 .. n /\ i \in 1 .. n
    BY <1>1, <1>2 DEF Calling, n
  <2>2. cache[stack[i].file].state = "Loading"
    BY <2>1, <1>2 DEF Loads, n
  <2>3. stack[i].file # f.file
    BY <2>2
  <2>4. cache'[stack[i].file] = cache[stack[i].file]
    BY <2>1, <2>3, <1>4
  <2> QED BY <2>1, <2>2, <2>3, <2>4, <1>3 DEF Loads, AtImport
<1>7. ASSUME NEW i \in 2 .. n + 1, i = n + 1
      PROVE  Loads(i)'
  <2>1. i - 1 = n /\ stack'[i] = f
    BY <1>2, <1>3, <1>7
  <2>2. AtImport(program', stack'[i - 1], stack'[i].file)
    BY <1>2, <1>3, <2>1 DEF AtImport
  <2>3. stack'[i].exports = cache'[stack'[i].file].exports /\ cache'[stack'[i].file].state = "Loading"
    BY <2>1
  <2> QED BY <2>2, <2>3 DEF Loads
<1>8. ASSUME NEW i \in 2 .. n + 1
      PROVE  Loads(i)'
  <2>1. i \in 2 .. n \/ i = n + 1
    BY <1>2
  <2>2. CASE i \in 2 .. n
    BY <2>2, <1>6 DEF Loads
  <2> QED BY <2>1, <2>2, <1>7
<1>9. \A i, j \in 2 .. n + 1 : stack'[i].file = stack'[j].file => i = j
  <2> SUFFICES ASSUME NEW i \in 2 .. n + 1, NEW j \in 2 .. n + 1, stack'[i].file = stack'[j].file
               PROVE  i = j
    OBVIOUS
  <2>1. (i \in 2 .. n \/ i = n + 1) /\ (j \in 2 .. n \/ j = n + 1)
    BY <1>2
  <2> QED BY <2>1, <1>3, <1>5, <1>6
<1> QED BY <1>3, <1>8, <1>9 DEF Calling

LEMMA CallingPop ==
    ASSUME LoadInv, Len(stack) > 1, NEW f \in Frame, Popped(stack', stack, f), program' = program,
           f.file = stack[Len(stack) - 1].file, f.exports = stack[Len(stack) - 1].exports,
           \A m \in Module : m # Top.file => cache'[m] = cache[m]
    PROVE  Calling'
<1>1. LoaderTyped /\ Calling
  BY DEF LoadInv
<1> DEFINE n == Len(stack) - 1
<1>2. n \in Nat /\ n >= 1 /\ Top = stack[n + 1] /\ Len(stack) = n + 1 /\ stack \in Seq(Frame) /\ stack' \in Seq(Frame)
  BY <1>1, TopFacts DEF LoaderTyped, StackTyped, Popped
<1>3. Len(stack') = n /\ stack'[n] = f /\ \A i \in 1 .. n - 1 : stack'[i] = stack[i]
  BY DEF Popped
<1>5. \A i, j \in 2 .. n + 1 : stack[i].file = stack[j].file => i = j
  BY <1>1, <1>2 DEF Calling
<1>0. f.file = stack[n].file /\ f.exports = stack[n].exports
  OBVIOUS
<1> HIDE DEF n
<1>4. ASSUME NEW i \in 1 .. n
      PROVE  stack[i].file \in Module /\ stack'[i].file = stack[i].file /\ stack'[i].exports = stack[i].exports
  <2>1. stack[i] \in Frame /\ (i = n \/ i \in 1 .. n - 1)
    BY <1>2
  <2> QED BY <2>1, <1>0, <1>3 DEF Frame
<1>6. ASSUME NEW i \in 2 .. n
      PROVE  Loads(i)'
  <2>1. Loads(i) /\ i \in Nat /\ i - 1 \in 1 .. n - 1 /\ i \in 1 .. n /\ i # n + 1
    BY <1>1, <1>2 DEF Calling
  <2>2. cache[stack[i].file].state = "Loading"
    BY <2>1, <1>2 DEF Loads
  <2>3. stack[i].file # Top.file
    BY <2>1, <1>2, <1>5
  <2>4. cache'[stack[i].file] = cache[stack[i].file]
    BY <2>1, <2>3, <1>4
  <2> QED BY <2>1, <2>2, <2>4, <1>3, <1>4 DEF Loads, AtImport
<1>7. \A i, j \in 2 .. n : stack'[i].file = stack'[j].file => i = j
  BY <1>2, <1>4, <1>5
<1> QED BY <1>3, <1>6, <1>7 DEF Calling

(***************************************************************************)
(* Types, and the count of evaluations, through a step.                    *)
(***************************************************************************)
LEMMA ScopeBinds ==
    ASSUME ScopesTyped, NEW s \in DOMAIN scopes, NEW n \in Name, NEW v \in Value,
           NEW o \in Module \cup JsonFile \cup {"own"},
           scopes' = [scopes EXCEPT ![s] = Bind(@, n, v)], source' = [source EXCEPT ![s] = Bind(@, n, o)],
           links' = links \/ \E l \in Link : l.scope = s /\ links' = links \cup {l}
    PROVE  ScopesTyped' /\ DOMAIN scopes' = DOMAIN scopes
<1>1. scopes \in Seq(Table) /\ source \in Seq(Origin) /\ Len(source) = Len(scopes)
  BY DEF ScopesTyped
<1>2. s \in DOMAIN source /\ scopes[s] \in Table /\ source[s] \in Origin /\ DOMAIN source[s] = DOMAIN scopes[s]
  BY <1>1 DEF ScopesTyped
<1> DEFINE t == Bind(scopes[s], n, v)
           o2 == Bind(source[s], n, o)
<1>3. t \in Table /\ o2 \in Origin /\ DOMAIN t = DOMAIN o2
  <2>1. t \in Table /\ DOMAIN t = DOMAIN scopes[s] \cup {n}
    BY <1>2, BindTable, BoundName DEF Table
  <2>2. o2 \in Origin /\ DOMAIN o2 = DOMAIN source[s] \cup {n}
    BY <1>2, BindTable, BoundName DEF Origin
  <2> QED BY <1>2, <2>1, <2>2
<1>4. scopes' = [scopes EXCEPT ![s] = t] /\ source' = [source EXCEPT ![s] = o2]
  OBVIOUS
<1> HIDE DEF t, o2
<1>5. scopes' \in Seq(Table) /\ Len(scopes') = Len(scopes) /\ DOMAIN scopes' = DOMAIN scopes
  BY <1>1, <1>3, <1>4
<1>6. source' \in Seq(Origin) /\ Len(source') = Len(source)
  BY <1>1, <1>2, <1>3, <1>4
<1>7. \A k \in DOMAIN scopes : DOMAIN source'[k] = DOMAIN scopes'[k]
  BY <1>1, <1>3, <1>4 DEF ScopesTyped
<1>8. links' \subseteq Link /\ \A l \in links' : l.scope \in DOMAIN scopes
  BY DEF ScopesTyped
<1> QED BY <1>1, <1>5, <1>6, <1>7, <1>8 DEF ScopesTyped

LEMMA OnceKept ==
    ASSUME EvaluatedOnce, \A m \in Module : cache'[m] = Absent <=> cache[m] = Absent,
           UNCHANGED <<started, failed>>
    PROVE  EvaluatedOnce'
BY DEF EvaluatedOnce

LEMMA StackTypes ==
    ASSUME LoaderTyped, NEW f \in Frame, f.scope \in DOMAIN scopes', DOMAIN scopes \subseteq DOMAIN scopes',
           Swapped(stack', stack, f) \/ Pushed(stack', stack, f) \/ Popped(stack', stack, f)
    PROVE  StackTyped'
<1>1. /\ stack \in Seq(Frame) /\ Len(stack) \in Nat
      /\ \A i \in 1 .. Len(stack) : stack[i].scope \in DOMAIN scopes'
  BY DEF LoaderTyped, StackTyped
<1>2. stack' \in Seq(Frame) /\ stack' # << >> /\ Len(stack') \in Nat
  BY DEF Swapped, Pushed, Popped
<1>3. ASSUME NEW i \in 1 .. Len(stack')
      PROVE  stack'[i] = f \/ (i \in 1 .. Len(stack) /\ stack'[i] = stack[i])
  <2>1. CASE Swapped(stack', stack, f)
    BY <1>1, <2>1 DEF Swapped
  <2>2. CASE Pushed(stack', stack, f)
    BY <1>1, <2>2 DEF Pushed
  <2>3. CASE Popped(stack', stack, f)
    BY <1>1, <2>3 DEF Popped
  <2> QED BY <2>1, <2>2, <2>3
<1>4. \A i \in 1 .. Len(stack') : stack'[i].scope \in DOMAIN scopes'
  BY <1>1, <1>3
<1> QED BY <1>2, <1>4 DEF StackTyped

(* The frames after a step are frames from before it, further on.          *)
Inherits ==
    \A i \in DOMAIN stack' : \E j \in DOMAIN stack :
        stack'[i].scope = stack[j].scope /\ stack'[i].file = stack[j].file

LEMMA InheritSwap ==
    ASSUME LoaderTyped, NEW f \in Frame, Swapped(stack', stack, f), f.scope = Top.scope, f.file = Top.file
    PROVE  Inherits
<1>1. Len(stack) \in Nat /\ Len(stack) \in DOMAIN stack /\ Top = stack[Len(stack)] /\ stack \in Seq(Frame)
  BY TopFacts DEF LoaderTyped, StackTyped
<1>2. stack' \in Seq(Frame) /\ Len(stack') = Len(stack) /\ stack'[Len(stack)] = f
      /\ \A i \in 1 .. Len(stack) - 1 : stack'[i] = stack[i]
  BY DEF Swapped
<1>3. ASSUME NEW i \in DOMAIN stack'
      PROVE  \E j \in DOMAIN stack : stack'[i].scope = stack[j].scope /\ stack'[i].file = stack[j].file
  <2>1. i \in DOMAIN stack /\ (i = Len(stack) \/ i \in 1 .. Len(stack) - 1)
    BY <1>1, <1>2
  <2> QED BY <1>1, <1>2, <2>1
<1> QED BY <1>3 DEF Inherits

LEMMA InheritPop ==
    ASSUME LoaderTyped, NEW f \in Frame, Popped(stack', stack, f),
           f.scope = stack[Len(stack) - 1].scope, f.file = stack[Len(stack) - 1].file
    PROVE  Inherits
<1>1. Len(stack) \in Nat /\ stack \in Seq(Frame)
  BY TopFacts DEF LoaderTyped, StackTyped
<1>2. stack' \in Seq(Frame) /\ Len(stack') = Len(stack) - 1 /\ stack'[Len(stack) - 1] = f
      /\ \A i \in 1 .. Len(stack) - 2 : stack'[i] = stack[i]
  BY DEF Popped
<1>3. ASSUME NEW i \in DOMAIN stack'
      PROVE  \E j \in DOMAIN stack : stack'[i].scope = stack[j].scope /\ stack'[i].file = stack[j].file
  <2>1. i \in DOMAIN stack /\ (i = Len(stack) - 1 \/ i \in 1 .. Len(stack) - 2)
    BY <1>1, <1>2
  <2> QED BY <1>1, <1>2, <2>1
<1> QED BY <1>3 DEF Inherits

(* The top frame moves on or takes a task; the cache stays.                *)
LEMMA Moves ==
    ASSUME LoadInv, NEW f \in Frame, stack' = Append(Below, f),
           f.file = Top.file, f.scope = Top.scope, f.exports = Top.exports,
           UNCHANGED <<program, cache, started, failed>>,
           ScopesTyped', DOMAIN scopes' = DOMAIN scopes, raised' \in BOOLEAN,
           Len(stack) > 1 =>
               \/ cache[Top.file].state = "Loading"
               \/ cache[Top.file].state = "Loaded" /\ ~raised' /\ f.pc > Len(program[f.file])
    PROVE  LoadInv' /\ Inherits
<1>1. LoaderTyped /\ Calling /\ EvaluatedOnce
  BY DEF LoadInv
<1>2. stack \in Seq(Frame) /\ stack # << >> /\ Top.scope \in DOMAIN scopes /\ Len(stack) \in Nat /\ Len(stack) >= 1
  BY <1>1, TopFacts DEF LoaderTyped, StackTyped
<1>3. Swapped(stack', stack, f)
  BY <1>2, SwapTop DEF Below
<1>4. Len(stack) > 1 => f.exports = cache'[Top.file].exports
  <2>1. SUFFICES ASSUME Len(stack) > 1 PROVE Top.exports = cache[Top.file].exports
    OBVIOUS
  <2>2. Loads(Len(stack))
    BY <1>1, <1>2, <2>1 DEF Calling
  <2> QED BY <2>2 DEF Loads, Top
<1>5. Calling'
  BY <1>3, <1>4, CallingSwap
<1>6. StackTyped'
  BY <1>1, <1>2, <1>3, StackTypes
<1>7. LoaderTyped'
  BY <1>1, <1>6 DEF LoaderTyped, CacheTyped
<1>8. Inherits
  BY <1>1, <1>3, InheritSwap
<1> QED BY <1>1, <1>5, <1>7, <1>8, OnceKept DEF LoadInv

LEMMA Raises ==
    ASSUME LoadInv, NEW op, Executing(op), Raise, UNCHANGED program
    PROVE  LoadInv' /\ Inherits
<1>1. LoaderTyped /\ Calling /\ EvaluatedOnce /\ raised' = TRUE
  BY DEF LoadInv, Raise
<1>2. UNCHANGED <<stack, cache, links, scopes, started, failed, source, program>>
  BY DEF Raise
<1>3. LoaderTyped'
  BY <1>1, <1>2 DEF LoaderTyped, ScopesTyped, StackTyped, CacheTyped
<1>5. Len(stack) > 1 => cache[Top.file].state = "Loading"
  BY AtWork
<1>4. Calling'
  <2>1. ASSUME NEW i \in 2 .. Len(stack)
        PROVE  Loads(i)'
    <3>1. Loads(i) /\ (i = Len(stack) => cache[stack[i].file].state = "Loading")
      <4>1. Len(stack) \in Nat /\ Top = stack[Len(stack)]
        BY <1>1, TopFacts
      <4>2. i \in Nat /\ i >= 2 /\ i <= Len(stack) /\ Loads(i)
        BY <1>1, <4>1 DEF Calling
      <4>3. ASSUME i = Len(stack)
            PROVE  cache[Top.file].state = "Loading"
        BY <4>1, <4>2, <4>3, <1>5
      <4> QED BY <4>1, <4>2, <4>3
    <3> QED BY <1>2, <3>1 DEF Loads, AtImport
  <2> QED BY <1>1, <1>2, <2>1 DEF Calling
<1> QED BY <1>1, <1>2, <1>3, <1>4 DEF LoadInv, EvaluatedOnce, Inherits

(* What an import statement leaves behind.                                 *)
LEMMA BoundTyped ==
    ASSUME ScopesTyped, NEW frame \in Frame, frame.scope \in DOMAIN scopes,
           NEW statement \in ImportStatement, NEW below, NEW exports \in Table, NEW loading \in BOOLEAN,
           loading => statement.op # "default",
           Bound(frame, below, statement, exports, loading)
    PROVE  /\ ScopesTyped' /\ DOMAIN scopes' = DOMAIN scopes
           /\ \/ raised' = TRUE /\ stack' = Append(below, frame)
              \/ raised' = FALSE /\ stack' = Append(below, Advanced(frame))
<1> DEFINE name == IF statement.op = "default" THEN "default" ELSE statement.name
           value == IF name \in DOMAIN exports THEN exports[name] ELSE Undefined
           fails == statement.op = "import" /\ name \notin DOMAIN exports /\ ~loading
           binds == statement.op \in {"import", "default"}
<1>1. CASE fails
  <2>1. raised' = TRUE /\ stack' = Append(below, frame) /\ UNCHANGED <<links, scopes, source>>
    BY <1>1 DEF Bound
  <2> QED BY <2>1 DEF ScopesTyped
<1>2. CASE ~fails
  <2>1. raised' = FALSE /\ stack' = Append(below, Advanced(frame))
    BY <1>2 DEF Bound, Advanced
  <2>2. CASE ~binds
    <3>1. UNCHANGED <<scopes, source, links>>
      BY <1>2, <2>2 DEF Bound
    <3> QED BY <2>1, <3>1 DEF ScopesTyped
  <2>3. CASE binds
    <3>1. name \in Name /\ (statement.op = "import" => name \in Module) /\ statement.from \in Module \cup JsonFile
          /\ (statement.op = "import" => statement.from \in Module)
      BY <2>3 DEF ImportStatement, Name
    <3>2. value \in Value
      <4>1. Undefined \in Value
        BY DEF Undefined, Value
      <4> QED BY <4>1, TableParts DEF Table
    <3>3. /\ scopes' = [scopes EXCEPT ![frame.scope] = Bind(@, name, value)]
          /\ source' = [source EXCEPT ![frame.scope] = Bind(@, name, statement.from)]
          /\ links' = IF loading
                      THEN links \cup {[file |-> statement.from, scope |-> frame.scope, name |-> name]}
                      ELSE links
      BY <1>2, <2>3 DEF Bound
    <3>4. links' = links \/ \E l \in Link : l.scope = frame.scope /\ links' = links \cup {l}
      <4>1. CASE ~loading
        BY <3>3, <4>1
      <4>2. CASE loading
        <5> DEFINE l == [file |-> statement.from, scope |-> frame.scope, name |-> name]
        <5>1. l \in Link /\ l.scope = frame.scope
          BY <2>3, <3>1, <4>2 DEF Link, Frame
        <5>2. links' = links \cup {l}
          BY <3>3, <4>2
        <5> QED BY <5>1, <5>2
      <4> QED BY <4>1, <4>2
    <3> HIDE DEF name, value
    <3> QED BY <2>1, <3>1, <3>2, <3>3, <3>4, ScopeBinds
  <2> QED BY <2>2, <2>3
<1> QED BY <1>1, <1>2

(***************************************************************************)
(* The actions.                                                            *)
(***************************************************************************)
LEMMA Records ==
    ASSUME LoadInv, NEW op, Executing(op), NEW name \in Name, NEW value \in Value, Recorded(name, value),
           ScopesTyped', DOMAIN scopes' = DOMAIN scopes, UNCHANGED <<program, raised, started, failed>>
    PROVE  LoadInv' /\ Inherits
<1>1. LoaderTyped /\ Calling /\ EvaluatedOnce
  BY DEF LoadInv
<1>2. stack \in Seq(Frame) /\ stack # << >> /\ Top \in Frame /\ Top.scope \in DOMAIN scopes
      /\ Len(stack) \in Nat /\ Len(stack) >= 1 /\ Top.file \in Module
  BY <1>1, TopFacts DEF LoaderTyped, StackTyped, Frame
<1>3. Len(stack) > 1 => cache[Top.file].state = "Loading"
  BY AtWork
<1> DEFINE e == Bind(Top.exports, name, value)
           g == [Top EXCEPT !.exports = e]
           f == Advanced(g)
<1>4. e \in Table
  <2>1. Top.exports \in Table
    BY <1>2 DEF Frame
  <2> QED BY <2>1, BindTable DEF Table
<1>5. stack' = Append(Below, f) /\ cache' = IF Len(stack) = 1 THEN cache ELSE [cache EXCEPT ![Top.file].exports = e]
  BY DEF Recorded, Continue, Advanced
<1> HIDE DEF e
<1>6. g \in Frame /\ g.file = Top.file /\ g.scope = Top.scope /\ g.exports = e
  BY <1>2, <1>4 DEF Frame
<1> HIDE DEF g
<1>7. f \in Frame /\ f.file = Top.file /\ f.scope = Top.scope /\ f.exports = e
  BY <1>6, AdvancedFrame
<1> HIDE DEF f
<1>8. Swapped(stack', stack, f)
  BY <1>2, <1>5, <1>7, SwapTop DEF Below
<1>9. /\ cache' \in [Module \cup JsonFile -> Entry]
      /\ \A m \in Module : cache'[m].state = cache[m].state
      /\ \A m \in Module : m # Top.file \/ Len(stack) = 1 => cache'[m] = cache[m]
      /\ Len(stack) > 1 => cache'[Top.file].exports = e
  <2>1. cache \in [Module \cup JsonFile -> Entry]
    BY <1>1 DEF LoaderTyped, CacheTyped
  <2>2. CASE Len(stack) = 1
    BY <2>1, <2>2, <1>5
  <2>3. CASE Len(stack) # 1
    <3> DEFINE c == [cache[Top.file] EXCEPT !.exports = e]
    <3>1. cache[Top.file] \in Entry
      BY <2>1, <1>2
    <3>2. c \in Entry /\ c.state = cache[Top.file].state /\ c.exports = e
      BY <3>1, <1>4 DEF Entry
    <3>3. cache' = [cache EXCEPT ![Top.file] = c]
      BY <2>3, <1>5
    <3> HIDE DEF c
    <3> QED BY <2>1, <2>3, <1>2, <3>2, <3>3
  <2> QED BY <2>2, <2>3
<1>10. \A m \in Module : cache'[m] = Absent <=> cache[m] = Absent
  <2> SUFFICES ASSUME NEW m \in Module PROVE cache'[m] = Absent <=> cache[m] = Absent
    OBVIOUS
  <2>1. CASE m # Top.file \/ Len(stack) = 1
    BY <1>9, <2>1
  <2>2. CASE m = Top.file /\ Len(stack) > 1
    BY <1>3, <1>9, <2>2 DEF Absent
  <2>3. Len(stack) = 1 \/ Len(stack) > 1
    <3> DEFINE n == Len(stack)
    <3>1. n \in Nat /\ n >= 1
      BY <1>2
    <3> HIDE DEF n
    <3>2. n = 1 \/ n > 1
      BY <3>1
    <3> QED BY <3>2 DEF n
  <2> QED BY <2>1, <2>2, <2>3
<1>11. CacheTyped'
  <2>1. \A m \in Module : cache[m].state = "Absent" => cache[m] = Absent
    BY <1>1 DEF LoaderTyped, CacheTyped
  <2> QED BY <2>1, <1>9, <1>10 DEF CacheTyped
<1>12. Calling'
  <2>1. \A m \in Module : m # Top.file \/ Len(stack) = 1 => cache'[m].exports = cache[m].exports
    BY <1>9
  <2> QED BY <2>1, <1>3, <1>7, <1>8, <1>9, CallingSwap
<1>13. LoaderTyped'
  <2>1. StackTyped'
    BY <1>1, <1>2, <1>7, <1>8, StackTypes
  <2> QED BY <1>1, <1>11, <2>1 DEF LoaderTyped
<1>14. Inherits
  BY <1>1, <1>7, <1>8, InheritSwap
<1> QED BY <1>1, <1>10, <1>12, <1>13, <1>14, OnceKept DEF LoadInv

LEMMA ActDeclare ==
    ASSUME LoadInv, Declare, UNCHANGED program
    PROVE  LoadInv' /\ Inherits
<1>1. LoaderTyped
  BY DEF LoadInv
<1> DEFINE value == [from |-> Top.file, run |-> Top.run, at |-> Top.pc]
<1>2. Top.scope \in DOMAIN scopes /\ Top.file \in Module /\ Top.file \in Name /\ value \in Value
  BY <1>1, TopFacts DEF Frame, Name, Value
<1>3. /\ scopes' = [scopes EXCEPT ![Top.scope] = Bind(@, Top.file, value)]
      /\ source' = [source EXCEPT ![Top.scope] = Bind(@, Top.file, "own")]
      /\ links' = links /\ Recorded(Top.file, value) /\ Executing("declare")
      /\ UNCHANGED <<raised, started, failed>>
  BY DEF Declare
<1> HIDE DEF value
<1>4. ScopesTyped' /\ DOMAIN scopes' = DOMAIN scopes
  BY <1>1, <1>2, <1>3, ScopeBinds DEF LoaderTyped
<1> QED BY <1>2, <1>3, <1>4, Records

LEMMA ActExportName ==
    ASSUME LoadInv, ExportName, UNCHANGED program
    PROVE  LoadInv' /\ Inherits
<1>1. LoaderTyped /\ Executing("export")
  BY DEF LoadInv, ExportName
<1>2. CASE Now.name \in DOMAIN Scope
  <2>1. Scope \in Table
    BY <1>1, TopFacts
  <2>2. Now.name \in Name /\ Scope[Now.name] \in Value
    BY <2>1, <1>2, TableParts DEF Table
  <2>3. Recorded(Now.name, Scope[Now.name]) /\ UNCHANGED <<links, scopes, raised, started, failed, source>>
    BY <1>2 DEF ExportName
  <2>4. ScopesTyped' /\ DOMAIN scopes' = DOMAIN scopes
    BY <1>1, <2>3 DEF LoaderTyped, ScopesTyped
  <2> QED BY <1>1, <2>2, <2>3, <2>4, Records
<1>3. CASE Now.name \notin DOMAIN Scope
  <2>1. Raise
    BY <1>3 DEF ExportName
  <2> QED BY <1>1, <2>1, Raises
<1> QED BY <1>2, <1>3

(* Statements that only print, queue a task, or throw.                     *)
LEMMA Steps ==
    ASSUME LoadInv, NEW op, Executing(op), NEW f \in Frame,
           f.file = Top.file, f.scope = Top.scope, f.exports = Top.exports,
           stack' = Append(Below, f), UNCHANGED <<program, cache, links, scopes, raised, started, failed, source>>
    PROVE  LoadInv' /\ Inherits
<1>1. LoaderTyped
  BY DEF LoadInv
<1>2. ScopesTyped' /\ DOMAIN scopes' = DOMAIN scopes /\ raised' \in BOOLEAN
  BY <1>1 DEF LoaderTyped, ScopesTyped
<1>3. Len(stack) > 1 => cache[Top.file].state = "Loading"
  BY AtWork
<1> QED BY <1>2, <1>3, Moves

LEMMA ActStatements ==
    ASSUME LoadInv, Show \/ Later \/ Throw, UNCHANGED program
    PROVE  LoadInv' /\ Inherits
<1>1. LoaderTyped
  BY DEF LoadInv
<1>2. Top \in Frame
  BY <1>1, TopFacts
<1>3. /\ Advanced(Top) \in Frame /\ Advanced(Top).file = Top.file /\ Advanced(Top).scope = Top.scope
      /\ Advanced(Top).exports = Top.exports
  BY <1>2, AdvancedFrame
<1>4. CASE Show
  <2>1. CASE Now.name \in DOMAIN Scope
    <3>1. stack' = Append(Below, Advanced(Top)) /\ UNCHANGED <<cache, links, scopes, raised, started, failed, source>>
      BY <1>4, <2>1 DEF Show, Continue, Advanced
    <3>2. Executing("show")
      BY <1>4 DEF Show
    <3> QED BY <3>1, <3>2, <1>3, Steps
  <2>2. CASE Now.name \notin DOMAIN Scope
    BY <1>4, <2>2, Raises DEF Show
  <2> QED BY <2>1, <2>2
<1>5. CASE Later
  <2> DEFINE g == [Top EXCEPT !.tasks = Append(@, Top.file)]
  <2>1. g \in Frame /\ g.file = Top.file /\ g.scope = Top.scope /\ g.exports = Top.exports
    <3>1. Top.tasks \in Seq(Module) /\ Top.file \in Module
      BY <1>2 DEF Frame
    <3>2. Append(Top.tasks, Top.file) \in Seq(Module)
      BY <3>1
    <3> QED BY <3>2, <1>2 DEF Frame
  <2>2. stack' = Append(Below, Advanced(g)) /\ UNCHANGED <<cache, links, scopes, raised, started, failed, source>>
    BY <1>5 DEF Later, Continue, Advanced
  <2>3. Executing("later")
    BY <1>5 DEF Later
  <2> HIDE DEF g
  <2>4. /\ Advanced(g) \in Frame /\ Advanced(g).file = Top.file /\ Advanced(g).scope = Top.scope
        /\ Advanced(g).exports = Top.exports
    BY <2>1, AdvancedFrame
  <2> QED BY <2>2, <2>3, <2>4, Steps
<1>6. CASE Throw
  <2>1. Executing("throw")
    BY <1>6 DEF Throw
  <2>2. CASE Now.always \/ failed[Top.file] = 0
    <3>1. Raise
      BY <1>6, <2>2 DEF Throw
    <3> QED BY <2>1, <3>1, Raises
  <2>3. CASE ~(Now.always \/ failed[Top.file] = 0)
    <3>1. stack' = Append(Below, Advanced(Top)) /\ UNCHANGED <<cache, links, scopes, raised, started, failed, source>>
      BY <1>6, <2>3 DEF Throw, Continue, Advanced
    <3> QED BY <2>1, <3>1, <1>3, Steps
  <2> QED BY <2>2, <2>3
<1> QED BY <1>4, <1>5, <1>6

LEMMA IsImport ==
    ASSUME NEW s \in Statement, s.op \in Running \cup {"default"}
    PROVE  s \in ImportStatement
BY DEF Statement, ImportStatement, Running

(* An import from a file that is loaded or being loaded.                   *)
LEMMA ActImportCached ==
    ASSUME LoadInv, ImportCached, UNCHANGED program
    PROVE  LoadInv' /\ Inherits
<1>1. LoaderTyped
  BY DEF LoadInv
<1>2. PICK op \in Running : Executing(op)
  BY DEF ImportCached, Running
<1>3. Now \in Statement /\ Now.op = op /\ (Len(stack) > 1 => cache[Top.file].state = "Loading")
  BY <1>2, AtWork
<1>4. Now \in ImportStatement /\ Now.from \in Module /\ Now.op # "default"
  BY <1>2, <1>3, IsImport, ImportFacts DEF Running
<1>5. Top \in Frame /\ Top.scope \in DOMAIN scopes
  BY <1>1, TopFacts
<1> DEFINE exports == cache[Now.from].exports
           loading == cache[Now.from].state = "Loading"
<1>6. Bound(Top, Below, Now, exports, loading) /\ UNCHANGED <<cache, started, failed>>
  BY DEF ImportCached
<1>7. exports \in Table /\ loading \in BOOLEAN
  BY <1>1, <1>4 DEF LoaderTyped, CacheTyped, Entry
<1>8. ScopesTyped
  BY <1>1 DEF LoaderTyped
<1> HIDE DEF exports, loading
<1>9. /\ ScopesTyped' /\ DOMAIN scopes' = DOMAIN scopes
      /\ \/ raised' = TRUE /\ stack' = Append(Below, Top)
         \/ raised' = FALSE /\ stack' = Append(Below, Advanced(Top))
  BY <1>4, <1>5, <1>6, <1>7, <1>8, BoundTyped
<1>10. CASE stack' = Append(Below, Top)
  BY <1>3, <1>5, <1>6, <1>9, <1>10, Moves
<1>11. CASE stack' = Append(Below, Advanced(Top))
  <2>1. /\ Advanced(Top) \in Frame /\ Advanced(Top).file = Top.file /\ Advanced(Top).scope = Top.scope
        /\ Advanced(Top).exports = Top.exports
    BY <1>5, AdvancedFrame
  <2> QED BY <1>3, <1>6, <1>9, <1>11, <2>1, Moves
<1> QED BY <1>9, <1>10, <1>11

(* A data file is read at once.                                            *)
LEMMA ActImportJson ==
    ASSUME LoadInv, ImportJson, UNCHANGED program
    PROVE  LoadInv' /\ Inherits
<1>1. LoaderTyped /\ Calling /\ EvaluatedOnce
  BY DEF LoadInv
<1>2. Executing("default")
  BY DEF ImportJson
<1>3. Now \in Statement /\ Now.op = "default" /\ (Len(stack) > 1 => cache[Top.file].state = "Loading" /\ Top.exports = cache[Top.file].exports)
  BY <1>2, AtWork
<1>4. Now \in ImportStatement /\ Now.from \in JsonFile
  BY <1>3, IsImport, ImportFacts
<1>5. Top \in Frame /\ Top.scope \in DOMAIN scopes /\ Top.file \in Module /\ stack \in Seq(Frame) /\ stack # << >>
  BY <1>1, TopFacts DEF Frame, LoaderTyped, StackTyped
<1>6. Bound(Top, Below, Now, Data(Now.from), FALSE) /\ UNCHANGED <<started, failed>>
      /\ cache' = [cache EXCEPT ![Now.from] = [state |-> "Loaded", exports |-> Data(Now.from)]]
  BY DEF ImportJson
<1>7. Data(Now.from) \in Table
  BY <1>4, DataTable
<1>8. ScopesTyped
  BY <1>1 DEF LoaderTyped
<1>9. /\ ScopesTyped' /\ DOMAIN scopes' = DOMAIN scopes
      /\ \/ raised' = TRUE /\ stack' = Append(Below, Top)
         \/ raised' = FALSE /\ stack' = Append(Below, Advanced(Top))
  BY <1>4, <1>5, <1>6, <1>7, <1>8, BoundTyped
<1>10. PICK f \in Frame : /\ stack' = Append(Below, f) /\ f.file = Top.file /\ f.scope = Top.scope
                          /\ f.exports = Top.exports
  <2>1. /\ Advanced(Top) \in Frame /\ Advanced(Top).file = Top.file /\ Advanced(Top).scope = Top.scope
        /\ Advanced(Top).exports = Top.exports
    BY <1>5, AdvancedFrame
  <2> QED BY <1>5, <1>9, <2>1
<1>11. Swapped(stack', stack, f)
  BY <1>5, <1>10, SwapTop DEF Below
<1>12. /\ cache' \in [Module \cup JsonFile -> Entry]
       /\ \A m \in Module : cache'[m] = cache[m]
  <2>1. [state |-> "Loaded", exports |-> Data(Now.from)] \in Entry
    BY <1>7 DEF Entry
  <2>2. \A m \in Module : m # Now.from
    BY <1>4, ModuleAssumption
  <2>3. cache \in [Module \cup JsonFile -> Entry]
    BY <1>1 DEF LoaderTyped, CacheTyped
  <2> QED BY <1>4, <1>6, <2>1, <2>2, <2>3
<1>13. CacheTyped'
  <2>1. \A m \in Module : cache[m].state = "Absent" => cache[m] = Absent
    BY <1>1 DEF LoaderTyped, CacheTyped
  <2> QED BY <1>12, <2>1 DEF CacheTyped
<1>14. Calling'
  BY <1>3, <1>5, <1>10, <1>11, <1>12, CallingSwap
<1>15. StackTyped'
  BY <1>1, <1>5, <1>9, <1>10, <1>11, StackTypes
<1>16. LoaderTyped'
  BY <1>1, <1>6, <1>9, <1>13, <1>15 DEF LoaderTyped
<1>17. EvaluatedOnce'
  BY <1>1, <1>6, <1>12, OnceKept
<1>18. Inherits
  BY <1>1, <1>10, <1>11, InheritSwap
<1> QED BY <1>14, <1>16, <1>17, <1>18 DEF LoadInv

(* An import of a file that is not in the cache.                           *)
LEMMA ActImportLoads ==
    ASSUME LoadInv, ImportLoads, UNCHANGED program
    PROVE  LoadInv'
<1>1. LoaderTyped /\ Calling /\ EvaluatedOnce
  BY DEF LoadInv
<1>2. PICK op \in Running : Executing(op)
  BY DEF ImportLoads, Running
<1>3. Top.pc \in DOMAIN Code /\ Now \in Statement /\ Now.op = op /\ (Len(stack) > 1 => cache[Top.file].state = "Loading")
  BY <1>2, AtWork
<1> DEFINE m == Now.from
           f == Interpreter(m, started[m] + 1, Len(scopes) + 1)
           c == [state |-> "Loading", exports |-> NoExports]
<1>4. m \in Module /\ AtImport(program, Top, m)
  BY <1>2, <1>3, ImportFacts DEF AtImport, Now, Code
<1>5. /\ cache[m] = Absent /\ cache' = [cache EXCEPT ![m] = c] /\ stack' = Append(stack, f)
      /\ scopes' = Append(scopes, NoExports) /\ source' = Append(source, NoExports)
      /\ started' = [started EXCEPT ![m] = @ + 1] /\ UNCHANGED <<links, raised, failed>>
  BY DEF ImportLoads
<1>6. /\ stack \in Seq(Frame) /\ Top \in Frame /\ scopes \in Seq(Table) /\ source \in Seq(Origin)
      /\ Len(source) = Len(scopes) /\ started \in [Module -> Nat] /\ failed \in [Module -> Nat]
      /\ cache \in [Module \cup JsonFile -> Entry]
  BY <1>1, TopFacts DEF LoaderTyped, StackTyped, ScopesTyped, CacheTyped
<1>7. f \in Frame /\ f.file = m /\ f.exports = NoExports /\ f.scope = Len(scopes) + 1 /\ c \in Entry /\ c # Absent
      /\ c.state = "Loading" /\ c.exports = NoExports
  BY <1>4, <1>6, NoExportsTable DEF Interpreter, Frame, Entry, Absent
<1> HIDE DEF m, f, c
<1>8. ScopesTyped' /\ DOMAIN scopes \subseteq DOMAIN scopes' /\ f.scope \in DOMAIN scopes'
  <2>1. scopes' \in Seq(Table) /\ source' \in Seq(Origin) /\ Len(scopes') = Len(scopes) + 1 /\ Len(source') = Len(source) + 1
    BY <1>5, <1>6, NoExportsTable
  <2>2. \A s \in DOMAIN scopes' : \/ s \in DOMAIN scopes /\ scopes'[s] = scopes[s] /\ source'[s] = source[s]
                                  \/ scopes'[s] = NoExports /\ source'[s] = NoExports
    BY <1>5, <1>6, <2>1
  <2>3. \A s \in DOMAIN scopes' : DOMAIN source'[s] = DOMAIN scopes'[s]
    BY <1>1, <2>2 DEF LoaderTyped, ScopesTyped
  <2>4. DOMAIN scopes \subseteq DOMAIN scopes' /\ f.scope \in DOMAIN scopes'
    BY <1>6, <1>7, <2>1
  <2> QED BY <1>1, <1>5, <1>6, <2>1, <2>3, <2>4 DEF LoaderTyped, ScopesTyped
<1>9. Pushed(stack', stack, f)
  BY <1>5, <1>6, <1>7, PushTop
<1>10. StackTyped'
  BY <1>1, <1>7, <1>8, <1>9, StackTypes
<1>11. /\ cache' \in [Module \cup JsonFile -> Entry] /\ cache'[m] = c
       /\ \A k \in Module : k # m => cache'[k] = cache[k]
  BY <1>4, <1>5, <1>6, <1>7
<1>12. CacheTyped'
  <2>1. \A k \in Module : cache[k].state = "Absent" => cache[k] = Absent
    BY <1>1 DEF LoaderTyped, CacheTyped
  <2> QED BY <1>7, <1>11, <2>1 DEF CacheTyped
<1>13. Calling'
  <2>1. cache[f.file].state = "Absent" /\ cache'[f.file].state = "Loading" /\ cache'[f.file].exports = f.exports
    BY <1>5, <1>7, <1>11 DEF Absent
  <2>2. \A k \in Module : k # f.file => cache'[k] = cache[k]
    BY <1>7, <1>11
  <2> QED BY <1>3, <1>4, <1>7, <1>9, <2>1, <2>2, CallingPush
<1>14. EvaluatedOnce'
  <2> SUFFICES ASSUME NEW k \in Module
               PROVE  started'[k] = failed'[k] + IF cache'[k] = Absent THEN 0 ELSE 1
    BY DEF EvaluatedOnce
  <2>1. started[k] = failed[k] + IF cache[k] = Absent THEN 0 ELSE 1
    BY <1>1 DEF EvaluatedOnce
  <2>2. CASE k = m
    BY <1>4, <1>5, <1>6, <1>7, <1>11, <2>1, <2>2
  <2>3. CASE k # m
    BY <1>5, <1>6, <1>11, <2>1, <2>3
  <2> QED BY <2>2, <2>3
<1>15. LoaderTyped'
  <2>1. started' \in [Module -> Nat]
    BY <1>4, <1>5, <1>6
  <2> QED BY <1>1, <1>5, <1>8, <1>10, <1>12, <2>1 DEF LoaderTyped
<1> QED BY <1>13, <1>14, <1>15 DEF LoadInv

LEMMA ActRunTask ==
    ASSUME LoadInv, RunTask, UNCHANGED program
    PROVE  LoadInv' /\ Inherits
<1>1. LoaderTyped /\ Calling
  BY DEF LoadInv
<1> DEFINE f == [Top EXCEPT !.tasks = Tail(@)]
<1>2. Top \in Frame /\ Len(stack) \in Nat /\ Len(stack) >= 1 /\ Top = stack[Len(stack)]
  BY <1>1, TopFacts
<1>3. f \in Frame /\ f.file = Top.file /\ f.scope = Top.scope /\ f.exports = Top.exports /\ f.pc = Top.pc
  <2>1. Top.tasks \in Seq(Module) /\ Top.tasks # << >>
    BY <1>2 DEF Frame, RunTask
  <2>2. Tail(Top.tasks) \in Seq(Module)
    BY <2>1
  <2> QED BY <2>2, <1>2 DEF Frame
<1>4. stack' = Append(Below, f) /\ UNCHANGED <<cache, links, scopes, raised, started, failed, source>>
      /\ ~raised /\ Top.pc > Len(program[Top.file])
  BY DEF RunTask, Code
<1> HIDE DEF f
<1>5. ScopesTyped' /\ DOMAIN scopes' = DOMAIN scopes /\ raised' \in BOOLEAN
  BY <1>1, <1>4 DEF LoaderTyped, ScopesTyped
<1>6. ASSUME Len(stack) > 1
      PROVE  cache[Top.file].state \in {"Loading", "Loaded"}
  <2>1. Loads(Len(stack))
    BY <1>1, <1>2, <1>6 DEF Calling
  <2> QED BY <1>2, <2>1 DEF Loads
<1> QED BY <1>3, <1>4, <1>5, <1>6, Moves

(* A file has run: it is loaded, and the links to it are resolved.         *)
LEMMA ActLoaded ==
    ASSUME LoadInv, Loaded, UNCHANGED program
    PROVE  LoadInv' /\ Inherits
<1>1. LoaderTyped /\ Calling /\ EvaluatedOnce
  BY DEF LoadInv
<1> DEFINE n == Len(stack)
           m == Top.file
           c == [state |-> "Loaded", exports |-> Top.exports]
<1>2. n \in Nat /\ Top = stack[n] /\ Top \in Frame /\ m \in Module /\ Top.exports \in Table
  BY <1>1, TopFacts DEF Frame
<1>3. /\ n > 1 /\ ~raised /\ Top.pc > Len(program[m]) /\ cache[m].state = "Loading"
      /\ cache' = [cache EXCEPT ![m] = c] /\ ApplyLinks(m, Top.exports)
      /\ UNCHANGED <<stack, raised, started, failed, source>>
  BY DEF Loaded, Code
<1>4. c \in Entry /\ c.state = "Loaded" /\ c.exports = Top.exports /\ c # Absent
  BY <1>2 DEF Entry, Absent
<1>5. cache \in [Module \cup JsonFile -> Entry]
  BY <1>1 DEF LoaderTyped, CacheTyped
<1> HIDE DEF m, c, n
<1>6. /\ cache' \in [Module \cup JsonFile -> Entry] /\ cache'[m] = c
      /\ \A k \in Module : k # m => cache'[k] = cache[k]
  BY <1>2, <1>3, <1>4, <1>5
<1>7. CacheTyped'
  <2>1. \A k \in Module : cache[k].state = "Absent" => cache[k] = Absent
    BY <1>1 DEF LoaderTyped, CacheTyped
  <2> QED BY <1>4, <1>6, <2>1 DEF CacheTyped
<1>8. \A k \in Module : cache'[k] = Absent <=> cache[k] = Absent
  <2>1. cache[m] # Absent
    BY <1>3 DEF Absent
  <2> QED BY <1>4, <1>6, <2>1
<1>9. ScopesTyped' /\ DOMAIN scopes' = DOMAIN scopes
  <2> DEFINE new(s) == [k \in DOMAIN scopes[s] |->
                IF [file |-> m, scope |-> s, name |-> k] \in links /\ k \in DOMAIN Top.exports
                THEN Top.exports[k] ELSE scopes[s][k]]
  <2>1. scopes' = [s \in DOMAIN scopes |-> new(s)] /\ links' = {l \in links : l.file # m}
    BY <1>3 DEF ApplyLinks
  <2>2. scopes \in Seq(Table) /\ Len(source) = Len(scopes) /\ source \in Seq(Origin)
    BY <1>1 DEF LoaderTyped, ScopesTyped
  <2>3. ASSUME NEW s \in DOMAIN scopes
        PROVE  new(s) \in Table /\ DOMAIN new(s) = DOMAIN scopes[s]
    <3>1. scopes[s] \in Tables(Value) /\ Top.exports \in Tables(Value)
      BY <1>2, <2>2 DEF Table
    <3>2. DOMAIN scopes[s] \in SUBSET Name /\ (\A k \in DOMAIN scopes[s] : scopes[s][k] \in Value)
          /\ (\A k \in DOMAIN Top.exports : Top.exports[k] \in Value)
      BY <3>1, TableParts
    <3>3. new(s) \in [DOMAIN scopes[s] -> Value]
      BY <3>2
    <3> QED BY <3>2, <3>3 DEF Table, Tables
  <2> HIDE DEF new
  <2>4. scopes' \in Seq(Table) /\ Len(scopes') = Len(scopes) /\ DOMAIN scopes' = DOMAIN scopes
    <3>1. Len(scopes) \in Nat /\ DOMAIN scopes = 1 .. Len(scopes)
      BY <2>2
    <3>2. scopes' \in [1 .. Len(scopes) -> Table]
      BY <2>1, <2>3, <3>1
    <3> QED BY <3>1, <3>2
  <2>5. \A s \in DOMAIN scopes : DOMAIN source[s] = DOMAIN scopes'[s]
    BY <1>1, <2>1, <2>3 DEF LoaderTyped, ScopesTyped
  <2> QED BY <1>1, <1>3, <2>1, <2>2, <2>4, <2>5 DEF LoaderTyped, ScopesTyped
<1>10. Calling'
  <2>1. \A i, j \in 2 .. n : stack[i].file = stack[j].file => i = j
    BY <1>1 DEF Calling, n
  <2>2. ASSUME NEW i \in 2 .. n
        PROVE  Loads(i)'
    <3>1. Loads(i) /\ stack[i] \in Frame
      BY <1>1 DEF Calling, n, LoaderTyped, StackTyped
    <3>2. AtImport(program', stack'[i - 1], stack'[i].file)
      BY <1>3, <3>1 DEF Loads
    <3>3. CASE i = n
      <4>1. stack'[i] = Top /\ Top.file = m /\ cache'[m].state = "Loaded" /\ cache'[m].exports = Top.exports
        BY <1>2, <1>3, <1>4, <1>6, <3>3 DEF m
      <4>2. stack'[i].pc > Len(program'[stack'[i].file]) /\ ~raised'
        BY <1>3, <4>1
      <4>3. stack'[i].exports = cache'[stack'[i].file].exports /\ cache'[stack'[i].file].state = "Loaded"
        BY <4>1
      <4>4. i = Len(stack')
        BY <1>3, <3>3 DEF n
      <4> QED BY <3>2, <4>2, <4>3, <4>4 DEF Loads, Ended
    <3>4. CASE i # n
      <4>1. stack[i].file # m /\ stack[i].file \in Module
        BY <1>2, <1>3, <2>1, <3>1, <3>4 DEF m, Frame
      <4>2. cache'[stack[i].file] = cache[stack[i].file]
        BY <1>6, <4>1
      <4>3. cache[stack[i].file].state = "Loading"
        BY <3>1, <3>4 DEF Loads, n
      <4> QED BY <1>3, <3>1, <3>2, <4>2, <4>3 DEF Loads
    <3> QED BY <3>3, <3>4
  <2> QED BY <1>3, <2>1, <2>2 DEF Calling, n
<1>11. LoaderTyped'
  BY <1>1, <1>3, <1>7, <1>9 DEF LoaderTyped, StackTyped
<1> QED BY <1>1, <1>3, <1>8, <1>10, <1>11, OnceKept DEF LoadInv, Inherits

(* The frame below the top one, which is at the import of the top's file.  *)
LEMMA Importer ==
    ASSUME LoadInv, Len(stack) > 1
    PROVE  LET i == stack[Len(stack) - 1]
           IN  /\ Below[Len(Below)] = i /\ Below \in Seq(Frame) /\ Below # << >>
               /\ i \in Frame /\ i.scope \in DOMAIN scopes
               /\ program[i.file][i.pc] \in ImportStatement
               /\ program[i.file][i.pc].op \in Running /\ program[i.file][i.pc].from = Top.file
               /\ Top.exports = cache[Top.file].exports /\ Top.file \in Module
               /\ raised => cache[Top.file].state = "Loading"
<1> DEFINE n == Len(stack)
           i == stack[n - 1]
<1>1. LoaderTyped /\ Calling
  BY DEF LoadInv
<1>2. n \in Nat /\ Top = stack[n] /\ stack \in Seq(Frame) /\ Top.file \in Module
  BY <1>1, TopFacts DEF LoaderTyped, StackTyped, Frame
<1>3. Below \in Seq(Frame) /\ Below # << >> /\ Len(Below) = n - 1 /\ \A k \in 1 .. n - 1 : Below[k] = stack[k]
  BY <1>2, BelowSeq DEF Below
<1>4. Below[Len(Below)] = i /\ i \in Frame /\ i.scope \in DOMAIN scopes
  <2>1. n - 1 \in 1 .. n - 1 /\ n - 1 \in DOMAIN stack
    BY <1>2
  <2> QED BY <1>1, <1>2, <1>3, <2>1 DEF LoaderTyped, StackTyped
<1>5. Loads(n)
  BY <1>1, <1>2 DEF Calling
<1>6. AtImport(program, i, Top.file) /\ Top.exports = cache[Top.file].exports
      /\ (raised => cache[Top.file].state = "Loading")
  BY <1>2, <1>5 DEF Loads, Ended
<1>7. program[i.file] \in Seq(Statement)
  BY <1>1, <1>4, ProgramCode DEF LoaderTyped, Frame
<1>8. program[i.file][i.pc] \in Statement /\ program[i.file][i.pc].op \in Running /\ program[i.file][i.pc].from = Top.file
  BY <1>6, <1>7 DEF AtImport
<1> QED BY <1>2, <1>3, <1>4, <1>6, <1>8, IsImport

LEMMA ActReturn ==
    ASSUME LoadInv, Return, UNCHANGED program
    PROVE  LoadInv' /\ Inherits
<1>1. LoaderTyped /\ Calling /\ EvaluatedOnce /\ Len(stack) > 1
  BY DEF LoadInv, Return
<1> DEFINE i == stack[Len(stack) - 1]
           s == program[i.file][i.pc]
           b == SubSeq(Below, 1, Len(Below) - 1)
<1>2. /\ Below[Len(Below)] = i /\ i \in Frame /\ i.scope \in DOMAIN scopes
      /\ s \in ImportStatement /\ s.op \in Running
      /\ Top.exports = cache[Top.file].exports /\ Top.file \in Module
  BY <1>1, Importer
<1>3. Bound(i, b, s, Top.exports, FALSE) /\ UNCHANGED <<cache, started, failed>>
  BY <1>2 DEF Return
<1>4. Top.exports \in Table /\ ScopesTyped
  BY <1>1, TopFacts DEF Frame, LoaderTyped
<1> HIDE DEF b, s, i
<1>5. /\ ScopesTyped' /\ DOMAIN scopes' = DOMAIN scopes
      /\ \/ raised' = TRUE /\ stack' = Append(b, i)
         \/ raised' = FALSE /\ stack' = Append(b, Advanced(i))
  BY <1>2, <1>3, <1>4, BoundTyped
<1>6. PICK f \in Frame : stack' = Append(b, f) /\ f.file = i.file /\ f.scope = i.scope /\ f.exports = i.exports
  <2>1. /\ Advanced(i) \in Frame /\ Advanced(i).file = i.file /\ Advanced(i).scope = i.scope
        /\ Advanced(i).exports = i.exports
    BY <1>2, AdvancedFrame
  <2> QED BY <1>2, <1>5, <2>1
<1>7. Popped(stack', stack, f)
  <2>1. stack \in Seq(Frame)
    BY <1>1 DEF LoaderTyped, StackTyped
  <2> QED BY <2>1, <1>1, <1>6, PopTop DEF b, Below
<1>8. Calling'
  BY <1>1, <1>3, <1>6, <1>7, CallingPop DEF i
<1>9. StackTyped'
  BY <1>1, <1>2, <1>5, <1>6, <1>7, StackTypes
<1>10. LoaderTyped'
  BY <1>1, <1>3, <1>5, <1>9 DEF LoaderTyped, CacheTyped
<1>11. Inherits
  BY <1>1, <1>6, <1>7, InheritPop DEF i
<1> QED BY <1>1, <1>3, <1>8, <1>10, <1>11, OnceKept DEF LoadInv

(* An error leaves the top interpreter.                                    *)
LEMMA ActUnwind ==
    ASSUME LoadInv, Unwind, UNCHANGED program
    PROVE  LoadInv' /\ Inherits
<1>1. LoaderTyped /\ Calling /\ EvaluatedOnce /\ Len(stack) > 1 /\ raised
  BY DEF LoadInv, Unwind
<1> DEFINE i == stack[Len(stack) - 1]
           m == Top.file
<1>2. /\ Below[Len(Below)] = i /\ Below \in Seq(Frame) /\ Below # << >>
      /\ i \in Frame /\ i.scope \in DOMAIN scopes
      /\ m \in Module /\ cache[m].state = "Loading"
  BY <1>1, Importer
<1>3. /\ cache' = [cache EXCEPT ![m] = Absent] /\ failed' = [failed EXCEPT ![m] = @ + 1]
      /\ UNCHANGED <<links, scopes, started, source>>
      /\ \/ stack' = [Below EXCEPT ![Len(Below)] = Advanced(i)] /\ raised' = FALSE
         \/ stack' = Below /\ raised' = raised
  BY <1>2 DEF Unwind, Advanced
<1>4. stack \in Seq(Frame) /\ cache \in [Module \cup JsonFile -> Entry]
      /\ started \in [Module -> Nat] /\ failed \in [Module -> Nat]
  BY <1>1 DEF LoaderTyped, StackTyped, CacheTyped
<1> HIDE DEF i, m
<1>5. PICK f \in Frame : Popped(stack', stack, f) /\ f.file = i.file /\ f.scope = i.scope /\ f.exports = i.exports
  <2>1. /\ Advanced(i) \in Frame /\ Advanced(i).file = i.file /\ Advanced(i).scope = i.scope
        /\ Advanced(i).exports = i.exports
    BY <1>2, AdvancedFrame
  <2>2. CASE stack' = [Below EXCEPT ![Len(Below)] = Advanced(i)]
    <3>1. Popped(stack', stack, Advanced(i))
      BY <1>1, <1>4, <2>1, <2>2, PopTop DEF Below
    <3> QED BY <2>1, <3>1
  <2>3. CASE stack' = Below
    <3>1. Len(Below) = Len(stack) - 1 /\ Len(stack) \in Nat /\ \A k \in 1 .. Len(stack) - 1 : Below[k] = stack[k]
      BY <1>1, <1>4, BelowSeq DEF Below
    <3>2. Popped(stack', stack, i)
      BY <1>1, <1>2, <2>3, <3>1 DEF Popped, i
    <3> QED BY <1>2, <3>2
  <2> QED BY <1>3, <2>2, <2>3
<1>6. /\ cache' \in [Module \cup JsonFile -> Entry] /\ cache'[m] = Absent
      /\ \A k \in Module : k # m => cache'[k] = cache[k]
  <2>1. Absent \in Entry
    BY NoExportsTable DEF Absent, Entry
  <2> QED BY <1>2, <1>3, <1>4, <2>1
<1>7. CacheTyped'
  <2>1. \A k \in Module : cache[k].state = "Absent" => cache[k] = Absent
    BY <1>1 DEF LoaderTyped, CacheTyped
  <2> QED BY <1>6, <2>1 DEF CacheTyped
<1>8. Calling'
  BY <1>1, <1>5, <1>6, CallingPop DEF i, m
<1>9. StackTyped'
  BY <1>1, <1>2, <1>3, <1>5, StackTypes
<1>10. LoaderTyped'
  <2>1. failed' \in [Module -> Nat] /\ ScopesTyped'
    BY <1>1, <1>2, <1>3, <1>4 DEF LoaderTyped, ScopesTyped
  <2>2. raised' \in BOOLEAN
    BY <1>1, <1>3 DEF LoaderTyped
  <2> QED BY <1>1, <1>3, <1>7, <1>9, <2>1, <2>2 DEF LoaderTyped
<1>11. EvaluatedOnce'
  <2> SUFFICES ASSUME NEW k \in Module
               PROVE  started'[k] = failed'[k] + IF cache'[k] = Absent THEN 0 ELSE 1
    BY DEF EvaluatedOnce
  <2>1. started[k] = failed[k] + IF cache[k] = Absent THEN 0 ELSE 1
    BY <1>1 DEF EvaluatedOnce
  <2>2. CASE k = m
    <3>1. cache[k] # Absent
      BY <1>2, <2>2 DEF Absent
    <3> QED BY <1>2, <1>3, <1>4, <1>6, <2>1, <2>2, <3>1
  <2>3. CASE k # m
    BY <1>3, <1>4, <1>6, <2>1, <2>3
  <2> QED BY <2>2, <2>3
<1>12. Inherits
  BY <1>1, <1>5, InheritPop DEF i
<1> QED BY <1>8, <1>10, <1>11, <1>12 DEF LoadInv

(***************************************************************************)
(* The invariant of the loader.                                            *)
(***************************************************************************)
LEMMA LoadInit == BackendsInit => LoadInv
<1> SUFFICES ASSUME program \in Programs, LoaderInit
             PROVE  LoadInv
  BY DEF BackendsInit
<1> DEFINE f == Interpreter(Main, 0, 1)
<1>1. f \in Frame /\ f.scope = 1 /\ f.file = Main
  BY ModuleAssumption, NoExportsTable DEF Interpreter, Frame
<1>2. stack = <<f>> /\ scopes = <<NoExports>> /\ source = <<NoExports>> /\ links = {} /\ raised = FALSE
      /\ cache = [m \in Module \cup JsonFile |-> Absent]
      /\ started = [m \in Module |-> 0] /\ failed = [m \in Module |-> 0]
  BY DEF LoaderInit
<1> HIDE DEF f
<1>3. StackTyped /\ Calling
  BY <1>1, <1>2 DEF StackTyped, Calling
<1>4. ScopesTyped
  BY <1>2, NoExportsTable DEF ScopesTyped
<1>5. CacheTyped
  <2>1. Absent \in Entry
    BY NoExportsTable DEF Absent, Entry
  <2> QED BY <1>2, <2>1 DEF CacheTyped
<1>6. EvaluatedOnce
  BY <1>2 DEF EvaluatedOnce
<1> QED BY <1>2, <1>3, <1>4, <1>5, <1>6 DEF LoadInv, LoaderTyped

LEMMA LoadNext == LoadInv /\ [BackendsNext]_backendVars => LoadInv'
<1> SUFFICES ASSUME LoadInv, [BackendsNext]_backendVars
             PROVE  LoadInv'
  OBVIOUS
<1>1. CASE LoaderNext /\ UNCHANGED program
  <2>1. CASE Declare
    BY <1>1, <2>1, ActDeclare
  <2>2. CASE ExportName
    BY <1>1, <2>2, ActExportName
  <2>3. CASE Show \/ Later \/ Throw
    BY <1>1, <2>3, ActStatements
  <2>4. CASE ImportCached
    BY <1>1, <2>4, ActImportCached
  <2>5. CASE ImportJson
    BY <1>1, <2>5, ActImportJson
  <2>6. CASE ImportLoads
    BY <1>1, <2>6, ActImportLoads
  <2>7. CASE RunTask
    BY <1>1, <2>7, ActRunTask
  <2>8. CASE Loaded
    BY <1>1, <2>8, ActLoaded
  <2>9. CASE Return
    BY <1>1, <2>9, ActReturn
  <2>10. CASE Unwind
    BY <1>1, <2>10, ActUnwind
  <2>11. CASE End
    <3>1. UNCHANGED <<program, stack, cache, links, scopes, raised, started, failed, source>>
      BY <1>1, <2>11 DEF End
    <3> QED BY <3>1 DEF LoadInv, LoaderTyped, ScopesTyped, StackTyped, CacheTyped, Calling, Loads, Ended,
                       EvaluatedOnce
  <2> QED BY <1>1, <2>1, <2>2, <2>3, <2>4, <2>5, <2>6, <2>7, <2>8, <2>9, <2>10, <2>11 DEF LoaderNext
<1>2. CASE UNCHANGED <<program, loaderVars>>
  BY <1>2 DEF loaderVars, LoadInv, LoaderTyped, ScopesTyped, StackTyped, CacheTyped, Calling, Loads, Ended,
             EvaluatedOnce
<1> QED BY <1>1, <1>2 DEF BackendsNext, backendVars

LEMMA LoadHolds == BackendsSpec => []LoadInv
BY LoadInit, LoadNext, PTL DEF BackendsSpec

(* Whatever the programs, their cycles and their errors: a file is         *)
(* evaluated again only if its last evaluation failed, so each of its      *)
(* evaluations but the last has failed.                                    *)
THEOREM LoadedOnce == BackendsSpec => []EvaluatedOnce
<1>1. LoadInv => EvaluatedOnce
  BY DEF LoadInv
<1> QED BY <1>1, LoadHolds, PTL

(***************************************************************************)
(* Links.  Every scope belongs to a file; what was imported into it, and   *)
(* the links to it, come from import statements of that file.  Where a     *)
(* file imports a name from one file only, a link says where the name      *)
(* comes from.  While that file has not been loaded, the link is there.    *)
(***************************************************************************)
Frames(owner) == \A i \in DOMAIN stack : owner[stack[i].scope] = stack[i].file
Sources(owner) ==
    /\ \A s \in DOMAIN scopes : \A n \in DOMAIN source[s] :
           source[s][n] \in Module => ImportsName(program, owner[s], source[s][n], n)
    /\ \A l \in links : ImportsName(program, owner[l.scope], l.file, l.name)
Owned == \E owner \in [DOMAIN scopes -> Module] : Frames(owner) /\ Sources(owner)
Waits(m, s, n) == [file |-> m, scope |-> s, name |-> n] \in links
LinkWaits ==
    \A s \in DOMAIN scopes : \A n \in DOMAIN source[s] :
        source[s][n] \in Module /\ cache[source[s][n]].state # "Loaded" => Waits(source[s][n], s, n)
LinkInv == Owned /\ LinkWaits /\ LinkedFinal

LEMMA OwnedKept ==
    ASSUME LoaderTyped, Inherits, DOMAIN scopes' = DOMAIN scopes,
           NEW owner \in [DOMAIN scopes -> Module], Frames(owner), Sources(owner)'
    PROVE  Owned'
<1>1. Frames(owner)'
  BY DEF Frames, Inherits
<1>2. owner \in [DOMAIN scopes' -> Module]
  OBVIOUS
<1> QED BY <1>1, <1>2 DEF Owned

(* A step that binds nothing, and changes no entry of a loaded file.       *)
LEMMA LinksKept ==
    ASSUME LoaderTyped, LinkInv, Inherits, UNCHANGED <<program, links, scopes, source>>,
           \A m \in Module : cache'[m].state = "Loaded" <=> cache[m].state = "Loaded",
           \A m \in Module : cache[m].state = "Loaded" => cache'[m].exports = cache[m].exports
    PROVE  LinkInv'
<1>1. PICK owner \in [DOMAIN scopes -> Module] : Frames(owner) /\ Sources(owner)
  BY DEF LinkInv, Owned
<1>2. Sources(owner)'
  BY <1>1 DEF Sources, ImportsName
<1>3. Owned'
  BY <1>1, <1>2, OwnedKept
<1>4. LinkWaits'
  BY DEF LinkInv, LinkWaits, Waits
<1>5. LinkedFinal'
  BY DEF LinkInv, LinkedFinal
<1> QED BY <1>3, <1>4, <1>5 DEF LinkInv

(* A step that binds a name: its own, data, or one of a file that is being *)
(* loaded, with a link, or has been.                                       *)
LEMMA LinksBound ==
    ASSUME LoaderTyped, LinkInv, Inherits, UNCHANGED program,
           \A m \in Module : cache'[m].state = "Loaded" <=> cache[m].state = "Loaded",
           \A m \in Module : cache[m].state = "Loaded" => cache'[m].exports = cache[m].exports,
           NEW owner \in [DOMAIN scopes -> Module], Frames(owner), Sources(owner),
           NEW s \in DOMAIN scopes, NEW n \in Name, NEW v, NEW o,
           scopes' = [scopes EXCEPT ![s] = Bind(@, n, v)], source' = [source EXCEPT ![s] = Bind(@, n, o)],
           o \in Module => ImportsName(program, owner[s], o, n),
           \/ o \notin Module /\ links' = links
           \/ o \in Module /\ cache[o].state # "Loaded" /\ links' = links \cup {[file |-> o, scope |-> s, name |-> n]}
           \/ o \in Module /\ cache[o].state = "Loaded" /\ links' = links
                /\ (n \in DOMAIN cache[o].exports => v = cache[o].exports[n])
    PROVE  LinkInv'
<1>1. scopes \in Seq(Table) /\ source \in Seq(Origin) /\ Len(source) = Len(scopes)
  BY DEF LoaderTyped, ScopesTyped
<1>2. DOMAIN scopes' = DOMAIN scopes /\ s \in DOMAIN source /\ DOMAIN source = DOMAIN scopes
  BY <1>1
<1> DEFINE t == Bind(scopes[s], n, v)
           q == Bind(source[s], n, o)
<1>3. /\ scopes'[s] = t /\ source'[s] = q
      /\ \A k \in DOMAIN scopes : k # s => scopes'[k] = scopes[k] /\ source'[k] = source[k]
  BY <1>1, <1>2
<1>4. /\ DOMAIN q = DOMAIN source[s] \cup {n} /\ q[n] = o /\ \A k \in DOMAIN source[s] : k # n => q[k] = source[s][k]
      /\ DOMAIN t = DOMAIN scopes[s] \cup {n} /\ t[n] = v /\ \A k \in DOMAIN scopes[s] : k # n => t[k] = scopes[s][k]
  BY DEF Bind
<1>5. DOMAIN scopes[s] = DOMAIN source[s]
  BY DEF LoaderTyped, ScopesTyped
<1> HIDE DEF t, q
(* Of each name in a scope after the step: it is the bound one or was there *)
<1>6. ASSUME NEW r \in DOMAIN scopes, NEW k \in DOMAIN source'[r]
      PROVE  \/ r = s /\ k = n /\ source'[r][k] = o /\ scopes'[r][k] = v
             \/ k \in DOMAIN source[r] /\ source'[r][k] = source[r][k] /\ scopes'[r][k] = scopes[r][k]
  <2>1. CASE r = s /\ k = n
    BY <2>1, <1>3, <1>4
  <2>2. CASE r = s /\ k # n
    BY <2>2, <1>3, <1>4, <1>5
  <2>3. CASE r # s
    BY <2>3, <1>3
  <2> QED BY <2>1, <2>2, <2>3
<1>7. \A l \in links' : l \in links \/ (o \in Module /\ cache[o].state # "Loaded" /\ l = [file |-> o, scope |-> s, name |-> n])
  OBVIOUS
<1>8. links \subseteq links'
  OBVIOUS
<1>9. Sources(owner)'
  <2>1. ASSUME NEW r \in DOMAIN scopes, NEW k \in DOMAIN source'[r], source'[r][k] \in Module
        PROVE  ImportsName(program, owner[r], source'[r][k], k)
    BY <1>6, <2>1 DEF Sources
  <2>2. ASSUME NEW l \in links'
        PROVE  ImportsName(program, owner[l.scope], l.file, l.name)
    BY <1>7 DEF Sources
  <2> QED BY <1>2, <2>1, <2>2 DEF Sources
<1>10. Owned'
  BY <1>2, <1>9, OwnedKept
<1>11. LinkWaits'
  <2> SUFFICES ASSUME NEW r \in DOMAIN scopes, NEW k \in DOMAIN source'[r], source'[r][k] \in Module,
                      cache'[source'[r][k]].state # "Loaded"
               PROVE  [file |-> source'[r][k], scope |-> r, name |-> k] \in links'
    BY <1>2 DEF LinkWaits, Waits
  <2>1. cache[source'[r][k]].state # "Loaded"
    OBVIOUS
  <2>2. CASE r = s /\ k = n /\ source'[r][k] = o
    BY <2>1, <2>2
  <2>3. CASE k \in DOMAIN source[r] /\ source'[r][k] = source[r][k]
    BY <1>8, <2>1, <2>3 DEF LinkInv, LinkWaits, Waits
  <2> QED BY <1>6, <2>2, <2>3
<1>12. LinkedFinal'
  <2> SUFFICES ASSUME NEW m \in Module, cache'[m].state = "Loaded"
               PROVE  /\ \A l \in links' : l.file # m
                      /\ \A r \in DOMAIN scopes : \A k \in DOMAIN source'[r] \cap DOMAIN cache'[m].exports :
                            source'[r][k] = m => scopes'[r][k] = cache'[m].exports[k]
    BY <1>2 DEF LinkedFinal
  <2>1. cache[m].state = "Loaded" /\ cache'[m].exports = cache[m].exports
    OBVIOUS
  <2>2. \A l \in links' : l.file # m
    BY <1>7, <2>1 DEF LinkInv, LinkedFinal
  <2>3. ASSUME NEW r \in DOMAIN scopes, NEW k \in DOMAIN source'[r], k \in DOMAIN cache[m].exports, source'[r][k] = m
        PROVE  scopes'[r][k] = cache[m].exports[k]
    <3>1. CASE r = s /\ k = n /\ source'[r][k] = o /\ scopes'[r][k] = v
      BY <2>1, <2>3, <3>1
    <3>2. CASE k \in DOMAIN source[r] /\ source'[r][k] = source[r][k] /\ scopes'[r][k] = scopes[r][k]
      BY <2>1, <2>3, <3>2 DEF LinkInv, LinkedFinal
    <3> QED BY <1>6, <3>1, <3>2
  <2> QED BY <2>1, <2>2, <2>3
<1> QED BY <1>10, <1>11, <1>12 DEF LinkInv

(* An import statement that binds or fails, in the frame it is in.         *)
LEMMA LinksImport ==
    ASSUME LoaderTyped, LinkInv, Inherits, UNCHANGED program,
           \A m \in Module : cache'[m] = cache[m],
           NEW j \in DOMAIN stack, NEW below, NEW exports \in Table, NEW loading \in BOOLEAN,
           stack[j].pc \in DOMAIN program[stack[j].file],
           NEW statement, statement = program[stack[j].file][stack[j].pc],
           statement \in ImportStatement, statement.op = "default" => ~loading,
           statement.op # "default" =>
               /\ exports = cache[statement.from].exports
               /\ cache[statement.from].state = IF loading THEN "Loading" ELSE "Loaded",
           Bound(stack[j], below, statement, exports, loading)
    PROVE  LinkInv'
<1> DEFINE frame == stack[j]
           name == IF statement.op = "default" THEN "default" ELSE statement.name
           value == IF name \in DOMAIN exports THEN exports[name] ELSE Undefined
           fails == statement.op = "import" /\ name \notin DOMAIN exports /\ ~loading
           binds == statement.op \in {"import", "default"}
<1>1. frame \in Frame /\ frame.scope \in DOMAIN scopes /\ frame.file \in Module
  <2>1. frame \in Frame /\ frame.scope \in DOMAIN scopes
    BY DEF LoaderTyped, StackTyped
  <2> QED BY <2>1 DEF Frame
<1>2. /\ \A m \in Module : cache'[m].state = "Loaded" <=> cache[m].state = "Loaded"
      /\ \A m \in Module : cache[m].state = "Loaded" => cache'[m].exports = cache[m].exports
  OBVIOUS
<1>3. CASE fails \/ ~binds
  <2>1. UNCHANGED <<links, scopes, source>>
    BY <1>3 DEF Bound
  <2> QED BY <1>2, <2>1, LinksKept
<1>4. CASE ~fails /\ binds
  <2>1. /\ scopes' = [scopes EXCEPT ![frame.scope] = Bind(@, name, value)]
        /\ source' = [source EXCEPT ![frame.scope] = Bind(@, name, statement.from)]
        /\ links' = IF loading
                    THEN links \cup {[file |-> statement.from, scope |-> frame.scope, name |-> name]}
                    ELSE links
    BY <1>4 DEF Bound
  <2>2. PICK owner \in [DOMAIN scopes -> Module] : Frames(owner) /\ Sources(owner)
    BY DEF LinkInv, Owned
  <2>3. CASE statement.op = "default"
    <3>1. statement.from \notin Module /\ name \in Name
      BY <2>3, ModuleAssumption DEF ImportStatement, Name
    <3>2. links' = links
      BY <2>1, <2>3
    <3> HIDE DEF frame, name, value
    <3> QED BY <1>1, <1>2, <2>1, <2>2, <3>1, <3>2, LinksBound
  <2>4. CASE statement.op = "import"
    <3>1. statement.from \in Module /\ name = statement.name /\ name \in Name
      BY <2>4 DEF ImportStatement, Name
    <3>2. ImportsName(program, owner[frame.scope], statement.from, name)
      <4>1. owner[frame.scope] = frame.file
        BY <2>2 DEF Frames
      <4>2. frame.pc \in DOMAIN program[frame.file] /\ program[frame.file][frame.pc] = statement
        OBVIOUS
      <4> QED BY <2>4, <3>1, <4>1, <4>2 DEF ImportsName
    <3>3. CASE loading
      <4>1. links' = links \cup {[file |-> statement.from, scope |-> frame.scope, name |-> name]}
            /\ cache[statement.from].state # "Loaded"
        BY <2>1, <2>4, <3>3
      <4> HIDE DEF frame, name, value
      <4> QED BY <1>1, <1>2, <2>1, <2>2, <3>1, <3>2, <4>1, LinksBound
    <3>4. CASE ~loading
      <4>1. links' = links /\ cache[statement.from].state = "Loaded"
        BY <2>1, <2>4, <3>4
      <4>2. name \in DOMAIN cache[statement.from].exports => value = cache[statement.from].exports[name]
        BY <2>4
      <4> HIDE DEF frame, name, value
      <4> QED BY <1>1, <1>2, <2>1, <2>2, <3>1, <3>2, <4>1, <4>2, LinksBound
    <3> QED BY <3>3, <3>4
  <2> QED BY <1>4, <2>3, <2>4
<1> QED BY <1>3, <1>4

LEMMA LinksLoads ==
    ASSUME LoadInv, LinkInv, ImportLoads, UNCHANGED program
    PROVE  LinkInv'
<1>1. LoaderTyped
  BY DEF LoadInv
<1>2. PICK op \in Running : Executing(op)
  BY DEF ImportLoads, Running
<1>3. Now \in Statement /\ Now.op = op
  BY <1>2, AtWork
<1> DEFINE m == Now.from
           f == Interpreter(m, started[m] + 1, Len(scopes) + 1)
           c == [state |-> "Loading", exports |-> NoExports]
<1>4. m \in Module
  BY <1>2, <1>3, ImportFacts
<1>5. /\ cache[m] = Absent /\ cache' = [cache EXCEPT ![m] = c] /\ stack' = Append(stack, f)
      /\ scopes' = Append(scopes, NoExports) /\ source' = Append(source, NoExports) /\ links' = links
  BY DEF ImportLoads
<1>6. /\ stack \in Seq(Frame) /\ scopes \in Seq(Table) /\ source \in Seq(Origin) /\ Len(source) = Len(scopes)
      /\ cache \in [Module \cup JsonFile -> Entry]
      /\ \A i \in DOMAIN stack : stack[i].scope \in DOMAIN scopes
      /\ \A l \in links : l.scope \in DOMAIN scopes
  BY <1>1 DEF LoaderTyped, StackTyped, ScopesTyped, CacheTyped
<1>7. f.file = m /\ f.scope = Len(scopes) + 1 /\ c.state = "Loading" /\ cache[m].state = "Absent"
  BY <1>5 DEF Interpreter, Absent
<1> HIDE DEF m, f, c
<1>8. /\ DOMAIN scopes = 1 .. Len(scopes) /\ Len(scopes) \in Nat /\ DOMAIN scopes' = 1 .. Len(scopes) + 1
      /\ \A s \in DOMAIN scopes : scopes'[s] = scopes[s] /\ source'[s] = source[s]
      /\ scopes'[Len(scopes) + 1] = NoExports /\ source'[Len(scopes) + 1] = NoExports
  BY <1>5, <1>6
<1>9. \A s \in DOMAIN scopes' : s \in DOMAIN scopes \/ s = Len(scopes) + 1
  BY <1>8
<1>10. \A k \in Module : k # m => cache'[k] = cache[k]
  BY <1>4, <1>5, <1>6
<1>11. cache'[m].state = "Loading"
  BY <1>4, <1>5, <1>6, <1>7
<1>12. Owned'
  <2>1. PICK owner \in [DOMAIN scopes -> Module] : Frames(owner) /\ Sources(owner)
    BY DEF LinkInv, Owned
  <2> DEFINE w == [s \in DOMAIN scopes' |-> IF s \in DOMAIN scopes THEN owner[s] ELSE m]
  <2>2. w \in [DOMAIN scopes' -> Module] /\ (\A s \in DOMAIN scopes : w[s] = owner[s]) /\ w[Len(scopes) + 1] = m
    BY <1>4, <1>8, <2>1
  <2> HIDE DEF w
  <2>3. PICK o2 \in [DOMAIN scopes' -> Module] : (\A s \in DOMAIN scopes : o2[s] = owner[s]) /\ o2[Len(scopes) + 1] = m
    BY <2>2
  <2>4. Frames(o2)'
    <3>1. \A i \in DOMAIN stack' : (i \in DOMAIN stack /\ stack'[i] = stack[i]) \/ stack'[i] = f
      BY <1>5, <1>6
    <3>2. \A i \in DOMAIN stack' : o2[stack'[i].scope] = stack'[i].file
      BY <1>6, <1>7, <2>1, <2>3, <3>1 DEF Frames
    <3> QED BY <3>2 DEF Frames
  <2>5. Sources(o2)'
    <3>1. ASSUME NEW s \in DOMAIN scopes', NEW n \in DOMAIN source'[s], source'[s][n] \in Module
          PROVE  ImportsName(program, o2[s], source'[s][n], n)
      <4>1. s \in DOMAIN scopes
        BY <1>8, <1>9, <3>1, NoExportsTable
      <4> QED BY <1>8, <2>1, <2>3, <3>1, <4>1 DEF Sources
    <3>2. \A l \in links : ImportsName(program, o2[l.scope], l.file, l.name)
      BY <1>6, <2>1, <2>3 DEF Sources
    <3> QED BY <1>5, <3>1, <3>2 DEF Sources
  <2> QED BY <2>3, <2>4, <2>5 DEF Owned
<1>13. LinkWaits'
  <2> SUFFICES ASSUME NEW s \in DOMAIN scopes', NEW n \in DOMAIN source'[s], source'[s][n] \in Module,
                      cache'[source'[s][n]].state # "Loaded"
               PROVE  [file |-> source'[s][n], scope |-> s, name |-> n] \in links
    BY <1>5 DEF LinkWaits, Waits
  <2>1. s \in DOMAIN scopes
    BY <1>8, <1>9, NoExportsTable
  <2>2. source'[s][n] = source[s][n] /\ n \in DOMAIN source[s]
    BY <1>8, <2>1
  <2>3. cache[source[s][n]].state # "Loaded"
    BY <1>7, <1>10, <2>2
  <2> QED BY <2>1, <2>2, <2>3 DEF LinkInv, LinkWaits, Waits
<1>14. LinkedFinal'
  <2> SUFFICES ASSUME NEW k \in Module, cache'[k].state = "Loaded"
               PROVE  /\ \A l \in links : l.file # k
                      /\ \A s \in DOMAIN scopes' : \A n \in DOMAIN source'[s] \cap DOMAIN cache'[k].exports :
                            source'[s][n] = k => scopes'[s][n] = cache'[k].exports[n]
    BY <1>5 DEF LinkedFinal
  <2>1. k # m /\ cache'[k] = cache[k] /\ cache[k].state = "Loaded"
    BY <1>10, <1>11
  <2>2. \A l \in links : l.file # k
    BY <2>1 DEF LinkInv, LinkedFinal
  <2>3. ASSUME NEW s \in DOMAIN scopes', NEW n \in DOMAIN source'[s], n \in DOMAIN cache[k].exports, source'[s][n] = k
        PROVE  scopes'[s][n] = cache[k].exports[n]
    <3>1. s \in DOMAIN scopes
      BY <1>8, <1>9, NoExportsTable
    <3> QED BY <1>8, <2>1, <2>3, <3>1 DEF LinkInv, LinkedFinal
  <2> QED BY <2>1, <2>2, <2>3
<1> QED BY <1>12, <1>13, <1>14 DEF LinkInv

(* A file has run: every link to it is resolved, and no other name in a    *)
(* scope is touched, as the names of the links come from that file.        *)
LEMMA LinksLoaded ==
    ASSUME OneSource, LoadInv, LinkInv, Loaded, UNCHANGED program, Inherits
    PROVE  LinkInv'
<1>1. LoaderTyped
  BY DEF LoadInv
<1> DEFINE m == Top.file
           e == Top.exports
           c == [state |-> "Loaded", exports |-> e]
<1>2. Top \in Frame /\ m \in Module
  BY <1>1, TopFacts DEF Frame
<1>3. /\ cache[m].state = "Loading" /\ cache' = [cache EXCEPT ![m] = c] /\ source' = source
      /\ links' = {l \in links : l.file # m}
      /\ scopes' = [s \in DOMAIN scopes |-> [n \in DOMAIN scopes[s] |->
                       IF Waits(m, s, n) /\ n \in DOMAIN e THEN e[n] ELSE scopes[s][n]]]
  BY DEF Loaded, ApplyLinks, Waits
<1>4. cache \in [Module \cup JsonFile -> Entry] /\ \A s \in DOMAIN scopes : DOMAIN source[s] = DOMAIN scopes[s]
  BY <1>1 DEF LoaderTyped, CacheTyped, ScopesTyped
<1>5. c.state = "Loaded" /\ c.exports = e
  OBVIOUS
<1> HIDE DEF m, e, c
<1>6. cache'[m] = c /\ \A k \in Module : k # m => cache'[k] = cache[k]
  BY <1>2, <1>3, <1>4
<1>7. PICK owner \in [DOMAIN scopes -> Module] : Frames(owner) /\ Sources(owner)
  BY DEF LinkInv, Owned
<1>8. DOMAIN scopes' = DOMAIN scopes
  BY <1>3
<1>9. \A s \in DOMAIN scopes : \A n \in DOMAIN source[s] :
          scopes'[s][n] = IF Waits(m, s, n) /\ n \in DOMAIN e THEN e[n] ELSE scopes[s][n]
  BY <1>3, <1>4
<1>10. Owned'
  <2>1. Sources(owner)'
    BY <1>3, <1>7, <1>8 DEF Sources
  <2> QED BY <1>1, <1>7, <1>8, <2>1, OwnedKept
<1>11. LinkWaits'
  <2> SUFFICES ASSUME NEW s \in DOMAIN scopes, NEW n \in DOMAIN source[s], source[s][n] \in Module,
                      cache'[source[s][n]].state # "Loaded"
               PROVE  [file |-> source[s][n], scope |-> s, name |-> n] \in links'
    BY <1>3, <1>8 DEF LinkWaits, Waits
  <2>1. source[s][n] # m /\ cache[source[s][n]].state # "Loaded"
    BY <1>5, <1>6
  <2>2. [file |-> source[s][n], scope |-> s, name |-> n] \in links
    BY <2>1 DEF LinkInv, LinkWaits, Waits
  <2> QED BY <1>3, <2>1, <2>2
<1>12. ASSUME NEW s \in DOMAIN scopes, NEW n \in DOMAIN source[s], source[s][n] \in Module, source[s][n] # m
       PROVE  ~Waits(m, s, n)
  <2> SUFFICES ASSUME Waits(m, s, n) PROVE FALSE
    OBVIOUS
  <2>1. owner[s] \in Module /\ program \in Programs /\ n \in Name
    <3>1. source[s] \in Tables(Module \cup JsonFile \cup {"own"})
      BY <1>1 DEF LoaderTyped, ScopesTyped, Origin
    <3>2. DOMAIN source[s] \subseteq Name
      BY <3>1, TableParts
    <3> QED BY <1>1, <1>7, <3>2 DEF LoaderTyped
  <2>2. ImportsName(program, owner[s], source[s][n], n)
    BY <1>7, <1>12 DEF Sources
  <2>3. ImportsName(program, owner[s], m, n)
    <3> DEFINE l == [file |-> m, scope |-> s, name |-> n]
    <3>1. l \in links /\ l.scope = s /\ l.file = m /\ l.name = n
      BY DEF Waits
    <3> HIDE DEF l
    <3> QED BY <1>7, <3>1 DEF Sources
  <2> QED BY <1>2, <1>12, <2>1, <2>2, <2>3 DEF OneSource
<1>14. source' = source
  BY <1>3
<1>13. LinkedFinal'
  <2> SUFFICES ASSUME NEW k \in Module, cache'[k].state = "Loaded"
               PROVE  /\ \A l \in links' : l.file # k
                      /\ \A s \in DOMAIN scopes : \A n \in DOMAIN source[s] \cap DOMAIN cache'[k].exports :
                            source[s][n] = k => scopes'[s][n] = cache'[k].exports[n]
    BY <1>8, <1>14 DEF LinkedFinal
  <2>1. CASE k = m
    <3>1. \A l \in links' : l.file # k
      BY <1>3, <2>1
    <3>2. ASSUME NEW s \in DOMAIN scopes, NEW n \in DOMAIN source[s], n \in DOMAIN e, source[s][n] = k
          PROVE  scopes'[s][n] = e[n]
      <4>1. Waits(m, s, n)
        BY <1>2, <1>3, <2>1, <3>2 DEF LinkInv, LinkWaits
      <4> QED BY <1>9, <3>2, <4>1
    <3> QED BY <1>5, <1>6, <2>1, <3>1, <3>2
  <2>2. CASE k # m
    <3>1. cache'[k] = cache[k] /\ cache[k].state = "Loaded"
      BY <1>6, <2>2
    <3>2. \A l \in links' : l.file # k
      BY <1>3, <3>1 DEF LinkInv, LinkedFinal
    <3>3. ASSUME NEW s \in DOMAIN scopes, NEW n \in DOMAIN source[s], n \in DOMAIN cache[k].exports, source[s][n] = k
          PROVE  scopes'[s][n] = cache[k].exports[n]
      <4>1. ~Waits(m, s, n)
        BY <1>12, <2>2, <3>3
      <4>2. scopes'[s][n] = scopes[s][n]
        BY <1>9, <4>1
      <4> QED BY <3>1, <3>3, <4>2 DEF LinkInv, LinkedFinal
    <3> QED BY <3>1, <3>2, <3>3
  <2> QED BY <2>1, <2>2
<1> QED BY <1>10, <1>11, <1>13 DEF LinkInv

(* What record_export does to the cache: it changes no loaded file.        *)
LEMMA RecordedCache ==
    ASSUME LoadInv, NEW op, Executing(op), NEW name, NEW value, Recorded(name, value)
    PROVE  /\ \A m \in Module : cache'[m].state = "Loaded" <=> cache[m].state = "Loaded"
           /\ \A m \in Module : cache[m].state = "Loaded" => cache'[m].exports = cache[m].exports
<1>1. LoaderTyped
  BY DEF LoadInv
<1>2. Len(stack) > 1 => cache[Top.file].state = "Loading"
  BY AtWork
<1>3. Top.file \in Module /\ Len(stack) \in Nat /\ Len(stack) >= 1
  BY <1>1, TopFacts DEF Frame
<1> DEFINE e == Bind(Top.exports, name, value)
<1>4. cache' = IF Len(stack) = 1 THEN cache ELSE [cache EXCEPT ![Top.file].exports = e]
  BY DEF Recorded
<1> HIDE DEF e
<1>5. CASE Len(stack) = 1
  BY <1>4, <1>5
<1>6. CASE Len(stack) # 1
  <2> DEFINE c == [cache[Top.file] EXCEPT !.exports = e]
  <2>1. cache \in [Module \cup JsonFile -> Entry]
    BY <1>1 DEF LoaderTyped, CacheTyped
  <2>5. Len(stack) > 1
    <3> DEFINE n == Len(stack)
    <3>1. n \in Nat /\ n >= 1 /\ n # 1
      BY <1>3, <1>6
    <3> HIDE DEF n
    <3>2. n > 1
      BY <3>1
    <3> QED BY <3>2 DEF n
  <2>2. c.state = "Loading"
    <3>1. cache[Top.file] \in Entry
      BY <1>3, <2>1
    <3> QED BY <1>2, <2>5, <3>1 DEF Entry
  <2>3. cache' = [cache EXCEPT ![Top.file] = c]
    BY <1>4, <1>6
  <2> HIDE DEF c
  <2>4. cache'[Top.file] = c /\ \A m \in Module : m # Top.file => cache'[m] = cache[m]
    BY <1>3, <2>1, <2>3
  <2> QED BY <1>2, <2>2, <2>4, <2>5
<1> QED BY <1>5, <1>6

LEMMA LinksDeclare ==
    ASSUME LoadInv, LinkInv, Declare, UNCHANGED program, Inherits
    PROVE  LinkInv'
<1>1. LoaderTyped
  BY DEF LoadInv
<1> DEFINE value == [from |-> Top.file, run |-> Top.run, at |-> Top.pc]
<1>2. Top.scope \in DOMAIN scopes /\ Top.file \in Name /\ Top.file \in Module
  BY <1>1, TopFacts DEF Frame, Name
<1>3. /\ scopes' = [scopes EXCEPT ![Top.scope] = Bind(@, Top.file, value)]
      /\ source' = [source EXCEPT ![Top.scope] = Bind(@, Top.file, "own")]
      /\ links' = links /\ Executing("declare") /\ Recorded(Top.file, value)
  BY DEF Declare
<1> HIDE DEF value
<1>4. PICK owner \in [DOMAIN scopes -> Module] : Frames(owner) /\ Sources(owner)
  BY DEF LinkInv, Owned
<1>5. /\ \A m \in Module : cache'[m].state = "Loaded" <=> cache[m].state = "Loaded"
      /\ \A m \in Module : cache[m].state = "Loaded" => cache'[m].exports = cache[m].exports
  BY <1>1, <1>3, RecordedCache
<1> QED BY <1>1, <1>2, <1>3, <1>4, <1>5, OwnAssumption, LinksBound

LEMMA LinksExportName ==
    ASSUME LoadInv, LinkInv, ExportName, UNCHANGED program, Inherits
    PROVE  LinkInv'
<1>1. LoaderTyped /\ Executing("export")
  BY DEF LoadInv, ExportName
<1>2. CASE Now.name \in DOMAIN Scope
  <2>1. Recorded(Now.name, Scope[Now.name]) /\ UNCHANGED <<links, scopes, source>>
    BY <1>2 DEF ExportName
  <2>2. /\ \A m \in Module : cache'[m].state = "Loaded" <=> cache[m].state = "Loaded"
        /\ \A m \in Module : cache[m].state = "Loaded" => cache'[m].exports = cache[m].exports
    BY <1>1, <2>1, RecordedCache
  <2> QED BY <1>1, <2>1, <2>2, LinksKept
<1>3. CASE Now.name \notin DOMAIN Scope
  <2>1. UNCHANGED <<cache, links, scopes, source>>
    BY <1>3 DEF ExportName, Raise
  <2> QED BY <1>1, <2>1, LinksKept
<1> QED BY <1>2, <1>3

LEMMA LinksCached ==
    ASSUME LoadInv, LinkInv, ImportCached, UNCHANGED program, Inherits
    PROVE  LinkInv'
<1>1. LoaderTyped
  BY DEF LoadInv
<1>2. PICK op \in Running : Executing(op)
  BY DEF ImportCached, Running
<1>3. Top.pc \in DOMAIN Code /\ Now \in Statement /\ Now.op = op
  BY <1>2, AtWork
<1>4. Now \in ImportStatement /\ Now.from \in Module /\ Now.op # "default"
  BY <1>2, <1>3, IsImport, ImportFacts DEF Running
<1> DEFINE j == Len(stack)
           exports == cache[Now.from].exports
           loading == cache[Now.from].state = "Loading"
<1>5. j \in DOMAIN stack /\ Top = stack[j]
  BY <1>1, TopFacts
<1>6. Bound(stack[j], Below, Now, exports, loading) /\ cache' = cache /\ cache[Now.from] # Absent
  BY <1>5 DEF ImportCached
<1>7. exports \in Table /\ loading \in BOOLEAN /\ cache[Now.from].state = IF loading THEN "Loading" ELSE "Loaded"
  <2>1. CacheTyped
    BY <1>1 DEF LoaderTyped
  <2>2. cache[Now.from] \in Entry /\ cache[Now.from].state # "Absent"
    BY <1>4, <1>6, <2>1, AbsentEntry DEF CacheTyped
  <2> QED BY <2>2 DEF Entry
<1>8. stack[j].pc \in DOMAIN program[stack[j].file] /\ Now = program[stack[j].file][stack[j].pc]
  BY <1>3, <1>5 DEF Code, Now
<1>9. \A m \in Module : cache'[m] = cache[m]
  BY <1>6
<1>10. Now.op = "default" => ~loading
  BY <1>4
<1>11. PICK s : s = Now
  OBVIOUS
<1> HIDE DEF j, loading
<1>12. Bound(stack[j], Below, s, cache[s.from].exports, loading) /\ cache[s.from].exports \in Table
       /\ cache[s.from].state = IF loading THEN "Loading" ELSE "Loaded"
  BY <1>6, <1>7, <1>11
<1> QED BY <1>1, <1>4, <1>5, <1>7, <1>8, <1>9, <1>10, <1>11, <1>12, LinksImport

LEMMA LinksJson ==
    ASSUME LoadInv, LinkInv, ImportJson, UNCHANGED program, Inherits
    PROVE  LinkInv'
<1>1. LoaderTyped
  BY DEF LoadInv
<1>2. Executing("default")
  BY DEF ImportJson
<1>3. Top.pc \in DOMAIN Code /\ Now \in Statement /\ Now.op = "default"
  BY <1>2, AtWork
<1>4. Now \in ImportStatement /\ Now.from \in JsonFile
  BY <1>3, IsImport, ImportFacts
<1> DEFINE j == Len(stack)
<1>5. j \in DOMAIN stack /\ Top = stack[j]
  BY <1>1, TopFacts
<1>6. Bound(stack[j], Below, Now, Data(Now.from), FALSE)
      /\ cache' = [cache EXCEPT ![Now.from] = [state |-> "Loaded", exports |-> Data(Now.from)]]
  BY <1>5 DEF ImportJson
<1>7. Data(Now.from) \in Table
  BY <1>4, DataTable
<1>8. stack[j].pc \in DOMAIN program[stack[j].file] /\ Now = program[stack[j].file][stack[j].pc]
  BY <1>3, <1>5 DEF Code, Now
<1>9. \A m \in Module : cache'[m] = cache[m]
  BY <1>4, <1>6, ModuleAssumption
<1>11. PICK s : s = Now
  OBVIOUS
<1> HIDE DEF j
<1>12. Bound(stack[j], Below, s, Data(s.from), FALSE) /\ Data(s.from) \in Table
  BY <1>6, <1>7, <1>11
<1> QED BY <1>1, <1>3, <1>4, <1>5, <1>8, <1>9, <1>11, <1>12, LinksImport

LEMMA LinksReturn ==
    ASSUME LoadInv, LinkInv, Return, UNCHANGED program, Inherits
    PROVE  LinkInv'
<1>1. LoaderTyped /\ Len(stack) > 1 /\ cache[Top.file].state = "Loaded"
  BY DEF LoadInv, Return
<1> DEFINE j == Len(stack) - 1
           i == stack[j]
           s == program[i.file][i.pc]
           b == SubSeq(Below, 1, Len(Below) - 1)
<1>2. /\ Below[Len(Below)] = i /\ s \in ImportStatement /\ s.op \in Running /\ s.from = Top.file
      /\ Top.exports = cache[Top.file].exports /\ i \in Frame
  BY <1>1, Importer
<1>3. Bound(i, b, s, Top.exports, FALSE) /\ cache' = cache
  BY <1>2 DEF Return
<1>4. Top.exports \in Table
  BY <1>1, TopFacts DEF Frame
<1>5. j \in DOMAIN stack
  BY <1>1, TopFacts DEF LoaderTyped, StackTyped
<1>6. i.pc \in DOMAIN program[i.file]
  <2>1. Loads(Len(stack))
    BY <1>1, TopFacts DEF LoadInv, Calling
  <2> QED BY <2>1 DEF Loads, AtImport
<1>7. \A m \in Module : cache'[m] = cache[m]
  BY <1>3
<1>8. s.op # "default" /\ Top.exports = cache[s.from].exports /\ cache[s.from].state = "Loaded"
  BY <1>1, <1>2 DEF Running
<1>9. PICK t : t = s
  OBVIOUS
<1>10. /\ t = program[stack[j].file][stack[j].pc] /\ t \in ImportStatement /\ t.op # "default"
       /\ Top.exports = cache[t.from].exports /\ cache[t.from].state = "Loaded"
       /\ Bound(stack[j], b, t, Top.exports, FALSE) /\ stack[j].pc \in DOMAIN program[stack[j].file]
  BY <1>2, <1>3, <1>6, <1>8, <1>9
<1> HIDE DEF j, i, s, b
<1> QED BY <1>1, <1>4, <1>5, <1>7, <1>10, LinksImport

LEMMA LinksUnwind ==
    ASSUME LoadInv, LinkInv, Unwind, UNCHANGED program, Inherits
    PROVE  LinkInv'
<1>1. LoaderTyped /\ Len(stack) > 1 /\ raised
  BY DEF LoadInv, Unwind
<1>2. Top.file \in Module /\ cache[Top.file].state = "Loading"
  BY <1>1, Importer
<1>3. cache' = [cache EXCEPT ![Top.file] = Absent] /\ UNCHANGED <<links, scopes, source>>
  BY DEF Unwind
<1>4. cache \in [Module \cup JsonFile -> Entry]
  BY <1>1 DEF LoaderTyped, CacheTyped
<1>5. /\ \A m \in Module : cache'[m].state = "Loaded" <=> cache[m].state = "Loaded"
      /\ \A m \in Module : cache[m].state = "Loaded" => cache'[m].exports = cache[m].exports
  <2> SUFFICES ASSUME NEW m \in Module
               PROVE  /\ cache'[m].state = "Loaded" <=> cache[m].state = "Loaded"
                      /\ cache[m].state = "Loaded" => cache'[m].exports = cache[m].exports
    OBVIOUS
  <2>1. CASE m = Top.file
    <3>1. cache'[m] = Absent
      BY <1>2, <1>3, <1>4, <2>1
    <3> QED BY <1>2, <2>1, <3>1 DEF Absent
  <2>2. CASE m # Top.file
    BY <1>3, <1>4, <2>2
  <2> QED BY <2>1, <2>2
<1> QED BY <1>1, <1>3, <1>5, LinksKept

(* Nothing of what the links need changes.                                 *)
LEMMA LinksAlone ==
    ASSUME LoadInv, LinkInv, Inherits, UNCHANGED <<program, cache, links, scopes, source>>
    PROVE  LinkInv'
BY LinksKept DEF LoadInv

LEMMA LinksInit == BackendsInit => LinkInv
<1> SUFFICES ASSUME LoaderInit
             PROVE  LinkInv
  BY DEF BackendsInit
<1> DEFINE f == Interpreter(Main, 0, 1)
<1>1. f.scope = 1 /\ f.file = Main
  BY DEF Interpreter
<1>2. stack = <<f>> /\ scopes = <<NoExports>> /\ source = <<NoExports>> /\ links = {}
      /\ cache = [m \in Module \cup JsonFile |-> Absent]
  BY DEF LoaderInit
<1> HIDE DEF f
<1>3. Owned
  <2> DEFINE owner == [s \in DOMAIN scopes |-> Main]
  <2>1. owner \in [DOMAIN scopes -> Module]
    BY ModuleAssumption
  <2>2. Frames(owner)
    BY <1>1, <1>2 DEF Frames
  <2>3. Sources(owner)
    BY <1>2, NoExportsTable DEF Sources
  <2> QED BY <2>1, <2>2, <2>3 DEF Owned
<1>4. LinkWaits
  BY <1>2, NoExportsTable DEF LinkWaits
<1>5. LinkedFinal
  BY <1>2 DEF LinkedFinal, Absent
<1> QED BY <1>3, <1>4, <1>5 DEF LinkInv

LEMMA LinksNext == OneSource /\ LoadInv /\ LinkInv /\ [BackendsNext]_backendVars => LinkInv'
<1> SUFFICES ASSUME OneSource, LoadInv, LinkInv, [BackendsNext]_backendVars
             PROVE  LinkInv'
  OBVIOUS
<1>1. CASE LoaderNext /\ UNCHANGED program
  <2>1. CASE Declare
    BY <1>1, <2>1, ActDeclare, LinksDeclare
  <2>2. CASE ExportName
    BY <1>1, <2>2, ActExportName, LinksExportName
  <2>3. CASE Show \/ Later \/ Throw
    <3>1. UNCHANGED <<cache, links, scopes, source>>
      BY <2>3 DEF Show, Later, Throw, Raise
    <3> QED BY <1>1, <2>3, <3>1, ActStatements, LinksAlone
  <2>4. CASE ImportCached
    BY <1>1, <2>4, ActImportCached, LinksCached
  <2>5. CASE ImportJson
    BY <1>1, <2>5, ActImportJson, LinksJson
  <2>6. CASE ImportLoads
    BY <1>1, <2>6, LinksLoads
  <2>7. CASE RunTask
    <3>1. UNCHANGED <<cache, links, scopes, source>>
      BY <2>7 DEF RunTask
    <3> QED BY <1>1, <2>7, <3>1, ActRunTask, LinksAlone
  <2>8. CASE Loaded
    BY <1>1, <2>8, ActLoaded, LinksLoaded
  <2>9. CASE Return
    BY <1>1, <2>9, ActReturn, LinksReturn
  <2>10. CASE Unwind
    BY <1>1, <2>10, ActUnwind, LinksUnwind
  <2>11. CASE End
    <3>1. UNCHANGED <<stack, cache, links, scopes, source>> /\ Inherits
      BY <2>11 DEF End, Inherits
    <3> QED BY <1>1, <3>1, LinksAlone
  <2> QED BY <1>1, <2>1, <2>2, <2>3, <2>4, <2>5, <2>6, <2>7, <2>8, <2>9, <2>10, <2>11 DEF LoaderNext
<1>2. CASE UNCHANGED <<program, loaderVars>>
  <2>1. UNCHANGED <<program, stack, cache, links, scopes, source>> /\ Inherits
    BY <1>2 DEF loaderVars, Inherits
  <2> QED BY <2>1, LinksAlone
<1> QED BY <1>1, <1>2 DEF BackendsNext, backendVars

(* If every file imports a name from one file only: once a file is loaded, *)
(* each name imported from it, before, in the middle of a cycle or after,  *)
(* has the exported value, and no link is left that could overrun another. *)
THEOREM LinksFinal == ASSUME OneSource PROVE BackendsSpec => []LinkedFinal
<1>1. LinkInv => LinkedFinal
  BY DEF LinkInv
<1>2. LoadInv /\ LinkInv /\ [BackendsNext]_backendVars => LinkInv'
  BY LinksNext
<1> QED BY <1>1, <1>2, LinksInit, LoadHolds, PTL DEF BackendsSpec

=============================================================================
