-------------------------- MODULE PromiseContract --------------------------
(***************************************************************************)
(* What a program may rely on of promises, with no queue, callbacks or     *)
(* calls in it: a promise comes into being pending or settled, is settled  *)
(* at most once, keeps its outcome for ever, and is never fulfilled with   *)
(* another promise.                                                        *)
(***************************************************************************)
EXTENDS Naturals

CONSTANTS Id, Plain, Undef

VARIABLE outcome

Open(st) == [st |-> st, val |-> Undef]

SettledOutcome ==
    [st : {"fulfilled"}, val : Plain] \cup [st : {"rejected"}, val : Plain \cup Id]

Init == outcome = [p \in Id |-> Open("unborn")]

Create(p) ==
    /\ outcome[p] = Open("unborn")
    /\ \E o \in {Open("pending")} \cup SettledOutcome : outcome' = [outcome EXCEPT ![p] = o]

Settle(p) ==
    /\ outcome[p] = Open("pending")
    /\ \E o \in SettledOutcome : outcome' = [outcome EXCEPT ![p] = o]

Next == \E p \in Id : Create(p) \/ Settle(p)

Spec == Init /\ [][Next]_outcome
=============================================================================
