--------------------------- MODULE RecursiveLock ---------------------------
(***************************************************************************)
(* What a caller of kmt->spin_lock and kmt->spin_unlock is promised: a set *)
(* of recursive mutual-exclusion locks.  An agent takes a lock nobody else *)
(* holds, may take it again, and gives it up with its last release.  How   *)
(* often an agent holds a lock is all there is to see of the lock.         *)
(***************************************************************************)
EXTENDS Naturals

CONSTANTS Agent, Lock

VARIABLE held       \* [Agent -> [Lock -> Nat]]

Free(l, a) == \A b \in Agent \ {a} : held[b][l] = 0

Init == held = [a \in Agent |-> [l \in Lock |-> 0]]

Acquire(a, l) ==
    /\ Free(l, a)
    /\ held' = [held EXCEPT ![a][l] = @ + 1]

Release(a, l) ==
    /\ held[a][l] > 0
    /\ held' = [held EXCEPT ![a][l] = @ - 1]

Next == \E a \in Agent, l \in Lock : Acquire(a, l) \/ Release(a, l)

Spec == Init /\ [][Next]_held
=============================================================================
