------------------------------ MODULE RunQueue ------------------------------
(***************************************************************************)
(* What the scheduler of kernel/src/os.c and kmt.c promises: every CPU has *)
(* a queue of tasks whose head is the task it runs.  A scheduling step     *)
(* moves the head to the end; a new task, or process, enters just behind   *)
(* the head of one queue and stays in that queue for ever, in order.       *)
(***************************************************************************)
EXTENDS Sequences

CONSTANTS Cpu, Task, IdleOf

VARIABLE queue      \* [Cpu -> Seq(Task)]

Queued == UNION {{queue[c][k] : k \in DOMAIN queue[c]} : c \in Cpu}

Init == queue = [c \in Cpu |-> <<IdleOf[c]>>]

Rotate(c) ==
    queue' = [queue EXCEPT ![c] = Append(Tail(@), Head(@))]

Enter(c, t) ==
    /\ t \notin Queued
    /\ queue' = [queue EXCEPT ![c] = <<Head(@), t>> \o Tail(@)]

Next == \E c \in Cpu : Rotate(c) \/ \E t \in Task : Enter(c, t)

Spec == Init /\ [][Next]_queue
=============================================================================
