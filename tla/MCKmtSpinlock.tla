--------------------------- MODULE MCKmtSpinlock ---------------------------
(* Two CPUs, each with its idle task and one more; a lock for each CPU and *)
(* one that all tasks share.                                               *)
EXTENDS KmtSpinlock

CONSTANTS c1, c2, idle1, idle2, t1, t2, l1, l2, dev

MCIdleOf  == [c \in {c1, c2} |-> IF c = c1 THEN idle1 ELSE idle2]
MCTaskCpu == [t \in {idle1, idle2, t1, t2} |->
                 IF t \in {idle1, t1} THEN c1 ELSE c2]
MCCpuLock == [c \in {c1, c2} |-> IF c = c1 THEN l1 ELSE l2]
=============================================================================
