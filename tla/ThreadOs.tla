------------------------------ MODULE ThreadOs ------------------------------
(***************************************************************************)
(* thread-os.c on the processors of X86Smp: tasks in a ring, each run by   *)
(* the processor its number falls to, that print under one spin lock.      *)
(***************************************************************************)
EXTENDS X86Smp

CONSTANT TaskCounts, None

ASSUME ThreadAssumption ==
    TaskCounts \subseteq Nat \ {0} /\ None \notin Nat

VARIABLES
    ntask,      \* LENGTH(tasks)
    context,    \* [task -> where its saved context continues]
    currents,   \* [CPU -> task or None]
    at,         \* [CPU -> where it is in its task; "mp_entry" before the first, "search"]
    printLock

threadVars == <<ntask, context, currents, at, printLock>>

tasks == 0 .. ntask - 1

ThreadInit ==
    /\ ntask \in TaskCounts
    /\ context = [t \in tasks |-> "lock"]
    /\ currents = [c \in CPUs |-> None] /\ at = [c \in CPUs |-> "mp_entry"]
    /\ printLock = FALSE

On(c) == power = "on" /\ smpPc[c] = "user"

Mine(c) == {t \in tasks : t % ncpu = c}

\* The steps of the do-while loop from t to a task of this processor.
Distance(c, t) == CHOOSE d \in 1 .. ntask :
    /\ (t + d) % ntask \in Mine(c)
    /\ \A e \in 1 .. d - 1 : (t + e) % ntask \notin Mine(c)

\* Fault: the interrupted task's context is not stored.
Saved_Never(c) == context

Saved(c) == IF currents[c] = None THEN context ELSE [context EXCEPT ![currents[c]] = at[c]]

on_interrupt(c) ==
    LET from == IF currents[c] = None THEN 0 ELSE currents[c]
        to == (from + Distance(c, from)) % ntask
    IN  /\ On(c) /\ at[c] # "search"
        /\ context' = Saved(c)
        /\ IF Mine(c) = {}
           THEN at' = [at EXCEPT ![c] = "search"] /\ UNCHANGED currents
           ELSE currents' = [currents EXCEPT ![c] = to] /\ at' = [at EXCEPT ![c] = Saved(c)[to]]
        /\ UNCHANGED <<smpVars, ntask, printLock>>

Step(c, from, to) == On(c) /\ at[c] = from /\ at' = [at EXCEPT ![c] = to]

lock(c) == /\ Step(c, "lock", "print") /\ ~printLock /\ printLock' = TRUE
           /\ UNCHANGED <<smpVars, ntask, context, currents>>
Printed(c) == Step(c, "print", "unlock") /\ UNCHANGED <<smpVars, ntask, context, currents, printLock>>
unlock(c) == /\ Step(c, "unlock", "delay") /\ printLock' = FALSE
             /\ UNCHANGED <<smpVars, ntask, context, currents>>
Delayed(c) == Step(c, "delay", "lock") /\ UNCHANGED <<smpVars, ntask, context, currents, printLock>>

func(c) == lock(c) \/ Printed(c) \/ unlock(c) \/ Delayed(c)

ThreadNext == \E c \in CPUs :
    \/ StartUp(c) /\ UNCHANGED threadVars
    \/ on_interrupt(c)
    \/ func(c)

ThreadSpec == SmpInit /\ ThreadInit /\ [][ThreadNext]_<<smpVars, threadVars>>
-----------------------------------------------------------------------------

Running(t) == {c \in CPUs : currents[c] = t}
Place(t) == IF Running(t) = {} THEN context[t] ELSE at[CHOOSE c \in Running(t) : TRUE]

(* However interrupts move the tasks, no task runs on two processors, the  *)
(* lock is taken exactly while one task, running or interrupted, is inside *)
(* it (thread-os.c:23-33, 45-53), and a processor searches for ever only   *)
(* if its number is above every task's.                                    *)
ThreadsSound ==
    /\ \A t \in tasks : Cardinality(Running(t)) <= 1
    /\ Cardinality({t \in tasks : Place(t) \in {"print", "unlock"}}) = (IF printLock THEN 1 ELSE 0)
    /\ \A c \in CPUs : at[c] = "search" => c >= ntask
=============================================================================
