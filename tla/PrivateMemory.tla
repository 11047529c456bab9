--------------------------- MODULE PrivateMemory ---------------------------
(***************************************************************************)
(* The memory processes are promised: each has its own, a page shows an    *)
(* arbitrary value when it is first touched and what was last written to   *)
(* it from then on, and fork gives the child a copy of the parent's.       *)
(***************************************************************************)
EXTENDS Naturals

CONSTANTS Proc, Root, Page, Value, Untouched

VARIABLES memory,       \* [Proc -> [Page -> Value or Untouched]]
          exists        \* the processes there are

vars == <<memory, exists>>

Init ==
    /\ memory = [p \in Proc |-> [a \in Page |-> Untouched]]
    /\ exists = {Root}

Touch(p, a, x) ==
    /\ p \in exists /\ memory[p][a] = Untouched
    /\ memory' = [memory EXCEPT ![p][a] = x]
    /\ UNCHANGED exists

Write(p, a, x) ==
    /\ p \in exists /\ memory[p][a] # Untouched
    /\ memory' = [memory EXCEPT ![p][a] = x]
    /\ UNCHANGED exists

Fork(p, c) ==
    /\ p \in exists /\ c \notin exists
    /\ memory' = [memory EXCEPT ![c] = memory[p]]
    /\ exists' = exists \cup {c}

Next ==
    \E p \in Proc :
        \/ \E a \in Page, x \in Value : Touch(p, a, x) \/ Write(p, a, x)
        \/ \E c \in Proc : Fork(p, c)

Spec == Init /\ [][Next]_vars
=============================================================================
