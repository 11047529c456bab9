----------------------------- MODULE MCKmtSched -----------------------------
(* Two CPUs; the processes all descend from the one main makes for CPU 0.  *)
EXTENDS KmtSched

CONSTANTS idle0, idle1, k1, k2, p1, p2, p3

MCIdleOf == [c \in 0 .. 1 |-> IF c = 0 THEN idle0 ELSE idle1]
=============================================================================
