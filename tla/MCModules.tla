----------------------------- MODULE MCModules -----------------------------
(* The entry imports a, b or the data file d, dynamically or not; a and b  *)
(* import each other, themselves or the entry, export, print, start timers *)
(* and fail, always or in their first evaluation.                          *)
EXTENDS ModuleBackends, TLC
CONSTANTS main, a, b, d

Import(m) == [op |-> "import", from |-> m, name |-> m]
Reads(op, m) == [op |-> op, from |-> m]
Does(op) == [op |-> op]
With(op, n) == [op |-> op, name |-> n]
Throws(always) == [op |-> "throw", always |-> always]

Imported(m, other) ==
    {Import(other), Import(m), Import(main), Reads("namespace", other), Reads("dynamic", other)}
Other(m, other) ==
    {Does("declare"), Does("later"), With("export", other), With("show", other), Throws(TRUE), Throws(FALSE)}
Pairs(m, other) ==
    {<<x, y>> : x \in Imported(m, other), y \in Other(m, other)}
      \cup {<<x, y>> : x \in Other(m, other), y \in Imported(m, other)}
      \cup {<<x, y>> : x \in {Does("declare"), Does("later")}, y \in {Does("declare"), With("export", m)}}
Triples(m, other) ==
    {<<x, y, z>> : x \in {Does("declare"), Reads("default", d)}, y \in Imported(m, other),
                   z \in {Does("declare"), With("show", other), Throws(FALSE)}}
MainPrograms ==
    {<<Reads("dynamic", a), Reads("dynamic", a)>>, <<Reads("dynamic", a), Reads("dynamic", b)>>,
     <<Reads("dynamic", b), Import(a), With("show", a)>>, <<Reads("namespace", a), Does("later")>>,
     <<Reads("default", d), Does("declare"), Import(b)>>}
MCPrograms ==
    {(main :> p) @@ (a :> q) @@ (b :> r) :
        p \in MainPrograms, q \in Pairs(a, b) \cup Triples(a, b), r \in Pairs(b, a)}
MCModule == {main, a, b}
MCJson == {d}
ASSUME MCOneSource == OneSource      \* as the theorem about links asks
===========================================================================
