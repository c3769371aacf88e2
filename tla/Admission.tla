----------------------------- MODULE Admission -----------------------------
(***************************************************************************)
(* What the limits promise, without a deque, counters or a lock: a call    *)
(* enters exactly when its principal has fewer than MaxConcurrent calls    *)
(* running and fewer than MaxPerWindow admissions in the last Window       *)
(* ticks, and is refused exactly when not.                                 *)
(***************************************************************************)
EXTENDS Integers, Sequences, FiniteSets

CONSTANTS Threads, Principals, MaxPerWindow, Window, MaxConcurrent

VARIABLES
    clock,
    admitted,       \* per principal: the times of all its admissions
    holds,          \* per principal: the threads that run one of its calls
    refused         \* the threads whose call was refused

vars == <<clock, admitted, holds, refused>>

WithinCeiling(p) == MaxConcurrent > 0 => Cardinality(holds[p]) < MaxConcurrent

\* The MaxPerWindow-th latest admission, if there is one, has left the window.
WithinRate(p) ==
    LET n == Len(admitted[p])
    IN  MaxPerWindow > 0 /\ n >= MaxPerWindow =>
            admitted[p][n - MaxPerWindow + 1] <= clock - Window

MayEnter(p) == WithinCeiling(p) /\ WithinRate(p)

Init ==
    /\ clock = 0
    /\ admitted = [p \in Principals |-> <<>>]
    /\ holds = [p \in Principals |-> {}]
    /\ refused = {}

Admit(t, p) ==
    /\ MayEnter(p)
    /\ t \notin holds[p]
    /\ admitted' = [admitted EXCEPT ![p] = Append(@, clock)]
    /\ holds' = [holds EXCEPT ![p] = @ \cup {t}]
    /\ UNCHANGED <<clock, refused>>

Refuse(t, p) ==
    /\ ~MayEnter(p)
    /\ refused' = refused \cup {t}
    /\ UNCHANGED <<clock, admitted, holds>>

Leave(t, p) ==
    /\ t \in holds[p]
    /\ holds' = [holds EXCEPT ![p] = @ \ {t}]
    /\ UNCHANGED <<clock, admitted, refused>>

Answer(t) ==
    /\ t \in refused
    /\ refused' = refused \ {t}
    /\ UNCHANGED <<clock, admitted, holds>>

Tick == clock' = clock + 1 /\ UNCHANGED <<admitted, holds, refused>>

Next ==
    \/ \E t \in Threads, p \in Principals : Admit(t, p) \/ Refuse(t, p) \/ Leave(t, p)
    \/ \E t \in Threads : Answer(t)
    \/ Tick

Spec == Init /\ [][Next]_vars
=============================================================================
