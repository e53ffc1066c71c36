----------------------------- MODULE Admission -----------------------------
(***************************************************************************)
(* What a Limiter promises to the stages that call it: whoever is admitted *)
(* holds a weight, and together they hold no more than the limit.  Fetch   *)
(* and Lanes use their limiters in this sense: who waits, and in which     *)
(* order, they leave open.                                                 *)
(***************************************************************************)
EXTENDS Integers, Functions

CONSTANT Callers

VARIABLES limit, held

Total == SumFunction(held)

TypeOK == limit \in Nat /\ held \in [Callers -> Nat]

Init == limit \in Nat \ {0} /\ held = [c \in Callers |-> 0]

Admit(c) ==
    /\ held[c] = 0
    /\ \E w \in 1..(limit - Total) : held' = [held EXCEPT ![c] = w]
    /\ UNCHANGED limit

\* All that was held comes back, at once and one time.
Leave(c) ==
    /\ held[c] # 0
    /\ held' = [held EXCEPT ![c] = 0]
    /\ UNCHANGED limit

Next == \E c \in Callers : Admit(c) \/ Leave(c)

Spec == Init /\ [][Next]_<<limit, held>>
============================================================================
