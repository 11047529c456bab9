----------------------------- MODULE Semaphore -----------------------------
(***************************************************************************)
(* Counting semaphores as sem_wait and sem_signal promise them: a wait     *)
(* takes effect at once and only when the count is positive.  Each thread  *)
(* waits on one semaphore, uses what it got, and signals another, forever. *)
(***************************************************************************)
EXTENDS Naturals

CONSTANTS Thread, Sem,
          Initial,              \* [Sem -> Nat]
          WaitsOn, Signals      \* [Thread -> Sem]

VARIABLES count, holds          \* [Sem -> Nat], [Thread -> BOOLEAN]

Init ==
    /\ count = Initial
    /\ holds = [t \in Thread |-> FALSE]

Wait(t) ==
    /\ ~holds[t] /\ count[WaitsOn[t]] > 0
    /\ count' = [count EXCEPT ![WaitsOn[t]] = @ - 1]
    /\ holds' = [holds EXCEPT ![t] = TRUE]

Signal(t) ==
    /\ holds[t]
    /\ count' = [count EXCEPT ![Signals[t]] = @ + 1]
    /\ holds' = [holds EXCEPT ![t] = FALSE]

Next == \E t \in Thread : Wait(t) \/ Signal(t)

Spec == Init /\ [][Next]_<<count, holds>>
=============================================================================
