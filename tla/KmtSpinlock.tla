---------------------------- MODULE KmtSpinlock ----------------------------
(***************************************************************************)
(* The recursive, interrupt-masking spin lock of kernel/src/kmt.c, at the  *)
(* granularity of its machine steps, together with the part of os_trap     *)
(* (kernel/src/os.c) that decides which code runs on a CPU and with which  *)
(* interrupt flag.                                                         *)
(*                                                                         *)
(* An agent is a flow of control that can be inside spin_lock or           *)
(* spin_unlock: a task, or the trap handler that runs on a CPU (the CPU    *)
(* itself stands for its handler).  nest[] and intenb[] are kept per CPU   *)
(* and not per agent, so the lock works only if an agent that holds it is  *)
(* never switched out; nothing in the code states this.                    *)
(***************************************************************************)
EXTENDS Naturals

CONSTANTS
    Cpu,        \* the CPUs
    Task,       \* the tasks: one idle task per CPU, kernel threads, processes
    IdleOf,     \* the idle task k_init makes for a CPU
    TaskCpu,    \* the CPU in whose ring a task is (tasks never migrate)
    Spinlock,   \* the spinlock_t objects
    CpuLock,    \* the array locks[] of common.h
    NoLock,     \* stands for the argument of spin_lock when no call is active
    MaxNest     \* bound on the nesting of spin_lock on one lock (fork: 2)

ASSUME ModelAssumption ==
    /\ Cpu \cap Task = {}
    /\ TaskCpu \in [Task -> Cpu]
    /\ IdleOf \in [Cpu -> Task]
    /\ \A c \in Cpu : TaskCpu[IdleOf[c]] = c
    /\ CpuLock \in [Cpu -> Spinlock]
    /\ \A c, d \in Cpu : CpuLock[c] = CpuLock[d] => c = d
    /\ NoLock \notin Spinlock
    /\ MaxNest \in Nat \ {0}

Agent == Task \cup Cpu

VARIABLES
    flag,       \* [Spinlock -> {0, 1}]: spinlock_t.flag
    nest,       \* [Cpu -> Nat]: nest[]
    intenb,     \* [Cpu -> BOOLEAN]: intenb[]
    ienabled,   \* [Cpu -> BOOLEAN]: the IF bit of the CPU's flags register
    curTask,    \* [Cpu -> Task]: percpu[].curTask, equal to currents[]
    stage,      \* [Cpu -> Stage]: how far the trap handler of the CPU is
    inKernel,   \* [Task -> BOOLEAN]: the top saved context of the task is a
                \* point inside a handler (sleep and exit yield in a syscall)
    rflags,     \* [Task -> BOOLEAN]: IF in the task's saved context
    pc,         \* [Agent -> Pc]: where the agent is in spin_lock/spin_unlock
    lk,         \* [Agent -> Spinlock or NoLock]: the argument of its calls
    depth,      \* [Agent -> Nat]: calls of spin_lock it has not undone yet
    i           \* [Agent -> BOOLEAN]: the local variable i of spin_lock
                \* (FALSE when no call is active)

cpuVars  == <<nest, intenb, ienabled>>
trapVars == <<curTask, stage, inKernel, rflags>>
vars     == <<flag, nest, intenb, ienabled, curTask, stage, inKernel, rflags,
              pc, lk, depth, i>>

\* "none": no handler runs; "irq": in irq_handlers; "sched": scheduling;
\* "switched": curTask has been replaced, the lock is still to be released.
Stage == {"none", "irq", "sched", "switched"}

\* "run": in no critical section; "sl_*": the next statement of spin_lock;
\* "cs": in the critical section; "leaving": it has begun to undo its nested
\* calls; "su_*": the next statement of the outermost spin_unlock.
Pc == {"run", "sl_iset", "sl_nest", "sl_xchg", "cs", "leaving", "su_xchg",
       "su_iset"}

CpuOf(a) == IF a \in Cpu THEN a ELSE TaskCpu[a]

\* The agent whose code CPU c is running.
Exec(c) == IF stage[c] = "none" THEN curTask[c] ELSE c
Executing(a) == a = Exec(CpuOf(a))

Idles == {IdleOf[c] : c \in Cpu}

-----------------------------------------------------------------------------
(* k_init makes the idle tasks, which enter os_run with interrupts still   *)
(* off; every other context is made by kcontext or ucontext, with IF set.  *)
Init ==
    /\ flag = [l \in Spinlock |-> 0]
    /\ nest = [c \in Cpu |-> 0]
    /\ intenb = [c \in Cpu |-> FALSE]
    /\ ienabled = [c \in Cpu |-> FALSE]
    /\ curTask = IdleOf
    /\ stage = [c \in Cpu |-> "none"]
    /\ inKernel = [t \in Task |-> FALSE]
    /\ rflags = [t \in Task |-> t \notin Idles]
    /\ pc = [a \in Agent |-> "run"]
    /\ lk = [a \in Agent |-> NoLock]
    /\ depth = [a \in Agent |-> 0]
    /\ i = [a \in Agent |-> FALSE]

-----------------------------------------------------------------------------
(* spin_lock: one action per statement.                                    *)

\* The locks an agent takes: kernel code takes its own CPU's lock or a lock
\* that belongs to no CPU; the trap handler takes locks[cpu_current()] only,
\* in a system call or page fault and again to schedule; os_run takes none.
Takes(a, l) ==
    IF a \in Cpu
    THEN stage[a] \in {"irq", "sched"} /\ l = CpuLock[a]
    ELSE a \notin Idles /\ \A d \in Cpu : l = CpuLock[d] => d = TaskCpu[a]

\* int i = ienabled(), by an agent that holds no lock.
SpinLock(a, l) ==
    /\ Executing(a) /\ pc[a] = "run" /\ Takes(a, l)
    /\ lk' = [lk EXCEPT ![a] = l]
    /\ i' = [i EXCEPT ![a] = ienabled[CpuOf(a)]]
    /\ pc' = [pc EXCEPT ![a] = "sl_iset"]
    /\ UNCHANGED <<flag, cpuVars, trapVars, depth>>

\* Fault: the nested call is for another lock than the one held.
SpinLockAgain_OtherLock(a) ==
    /\ Executing(a) /\ pc[a] = "cs" /\ depth[a] < MaxNest
    /\ a \in Cpu => stage[a] = "irq"
    /\ i' = [i EXCEPT ![a] = ienabled[CpuOf(a)]]
    /\ pc' = [pc EXCEPT ![a] = "sl_iset"]
    /\ \E l \in Spinlock : lk' = [lk EXCEPT ![a] = l]
    /\ UNCHANGED <<flag, cpuVars, trapVars, depth>>

\* The same, nested: fork calls ucreate with locks[cpu] held.
SpinLockAgain(a) ==
    /\ Executing(a) /\ pc[a] = "cs" /\ depth[a] < MaxNest
    /\ a \in Cpu => stage[a] = "irq"
    /\ i' = [i EXCEPT ![a] = ienabled[CpuOf(a)]]
    /\ pc' = [pc EXCEPT ![a] = "sl_iset"]
    /\ UNCHANGED <<flag, cpuVars, trapVars, lk, depth>>

\* Fault: spin_lock leaves interrupts on.
SlIset_Missing(a) ==
    /\ Executing(a) /\ pc[a] = "sl_iset"
    /\ pc' = [pc EXCEPT ![a] = "sl_nest"]
    /\ UNCHANGED <<flag, cpuVars, trapVars, lk, depth, i>>

\* iset(false)
SlIset(a) ==
    /\ Executing(a) /\ pc[a] = "sl_iset"
    /\ ienabled' = [ienabled EXCEPT ![CpuOf(a)] = FALSE]
    /\ pc' = [pc EXCEPT ![a] = "sl_nest"]
    /\ UNCHANGED <<flag, nest, intenb, trapVars, lk, depth, i>>

\* Fault: the nested call overwrites the saved interrupt state.
SlNest_AlwaysSaves(a) ==
    LET c == CpuOf(a) IN
    /\ Executing(a) /\ pc[a] = "sl_nest"
    /\ nest' = [nest EXCEPT ![c] = @ + 1]
    /\ intenb' = [intenb EXCEPT ![c] = i[a]]
    /\ pc' = [pc EXCEPT ![a] = IF nest[c] = 0 THEN "sl_xchg" ELSE "cs"]
    /\ depth' = [depth EXCEPT ![a] = IF nest[c] = 0 THEN @ ELSE @ + 1]
    /\ i' = [i EXCEPT ![a] = FALSE]
    /\ UNCHANGED <<flag, ienabled, trapVars, lk>>

\* nest[c]++; only the outermost call saves i and goes for the flag.
SlNest(a) ==
    LET c == CpuOf(a) IN
    /\ Executing(a) /\ pc[a] = "sl_nest"
    /\ nest' = [nest EXCEPT ![c] = @ + 1]
    /\ IF nest[c] + 1 = 1
       THEN /\ intenb' = [intenb EXCEPT ![c] = i[a]]
            /\ pc' = [pc EXCEPT ![a] = "sl_xchg"]
            /\ UNCHANGED depth
       ELSE /\ pc' = [pc EXCEPT ![a] = "cs"]
            /\ depth' = [depth EXCEPT ![a] = @ + 1]
            /\ UNCHANGED intenb
    /\ i' = [i EXCEPT ![a] = FALSE]
    /\ UNCHANGED <<flag, ienabled, trapVars, lk>>

\* Fault: "if" for "while", the lock is entered whatever the exchange returns.
SlXchg_NoRetry(a) ==
    /\ Executing(a) /\ pc[a] = "sl_xchg"
    /\ flag' = [flag EXCEPT ![lk[a]] = 1]
    /\ pc' = [pc EXCEPT ![a] = "cs"]
    /\ depth' = [depth EXCEPT ![a] = @ + 1]
    /\ UNCHANGED <<cpuVars, trapVars, lk, i>>

\* while (atomic_xchg(&lk->flag, 1)); a failed exchange changes nothing.
SlXchg(a) ==
    /\ Executing(a) /\ pc[a] = "sl_xchg"
    /\ flag[lk[a]] = 0
    /\ flag' = [flag EXCEPT ![lk[a]] = 1]
    /\ pc' = [pc EXCEPT ![a] = "cs"]
    /\ depth' = [depth EXCEPT ![a] = @ + 1]
    /\ UNCHANGED <<cpuVars, trapVars, lk, i>>

-----------------------------------------------------------------------------
(* spin_unlock                                                             *)

\* Fault: every spin_unlock restores interrupts, not only the outermost.
SuNest_RestoresEarly(a) ==
    LET c == CpuOf(a) IN
    /\ Executing(a) /\ pc[a] \in {"cs", "leaving"}
    /\ a \in Cpu => stage[a] # "sched"
    /\ nest' = [nest EXCEPT ![c] = @ - 1]
    /\ ienabled' = [ienabled EXCEPT ![c] = @ \/ intenb[c]]
    /\ pc' = [pc EXCEPT ![a] = IF nest[c] = 1 THEN "su_xchg" ELSE "leaving"]
    /\ depth' = [depth EXCEPT ![a] = IF nest[c] = 1 THEN @ ELSE @ - 1]
    /\ UNCHANGED <<flag, intenb, trapVars, lk, i>>

\* nest[c]--; the handler that schedules unlocks once it has picked a task.
SuNest(a) ==
    LET c == CpuOf(a) IN
    /\ Executing(a) /\ pc[a] \in {"cs", "leaving"}
    /\ a \in Cpu => stage[a] # "sched"
    /\ nest' = [nest EXCEPT ![c] = @ - 1]
    /\ IF nest[c] - 1 = 0
       THEN /\ pc' = [pc EXCEPT ![a] = "su_xchg"]
            /\ UNCHANGED depth
       ELSE /\ pc' = [pc EXCEPT ![a] = "leaving"]
            /\ depth' = [depth EXCEPT ![a] = @ - 1]
    /\ UNCHANGED <<flag, intenb, ienabled, trapVars, lk, i>>

\* Fault: the interrupt state is restored but the flag word is not cleared.
SuXchg_Missing(a) ==
    /\ Executing(a) /\ pc[a] = "su_xchg"
    /\ depth' = [depth EXCEPT ![a] = @ - 1]
    /\ pc' = [pc EXCEPT ![a] = "su_iset"]
    /\ lk' = [lk EXCEPT ![a] = NoLock]
    /\ UNCHANGED <<flag, cpuVars, trapVars, i>>

\* atomic_xchg(&lk->flag, 0)
SuXchg(a) ==
    /\ Executing(a) /\ pc[a] = "su_xchg"
    /\ flag' = [flag EXCEPT ![lk[a]] = 0]
    /\ depth' = [depth EXCEPT ![a] = @ - 1]
    /\ pc' = [pc EXCEPT ![a] = "su_iset"]
    /\ lk' = [lk EXCEPT ![a] = NoLock]
    /\ UNCHANGED <<cpuVars, trapVars, i>>

\* assert(!ienabled()); if (intenb[c]) iset(true).  SafeAsserts states the
\* assertion.
SuIset(a) ==
    LET c == CpuOf(a) IN
    /\ Executing(a) /\ pc[a] = "su_iset"
    /\ ienabled' = [ienabled EXCEPT ![c] = @ \/ intenb[c]]
    /\ pc' = [pc EXCEPT ![a] = "run"]
    /\ UNCHANGED <<flag, nest, intenb, trapVars, lk, depth, i>>

-----------------------------------------------------------------------------
(* Traps.  The handler runs with interrupts off (trap64.S: cli).           *)

\* An interrupt arrives at any instruction while IF is set, also between two
\* statements of spin_lock; a yield, a system call or a page fault is taken
\* in no critical section.
Trap(c) ==
    LET t == curTask[c] IN
    /\ stage[c] = "none"
    /\ ienabled[c] \/ pc[t] = "run"
    /\ rflags' = [rflags EXCEPT ![t] = ienabled[c]]
    /\ ienabled' = [ienabled EXCEPT ![c] = FALSE]
    /\ stage' = [stage EXCEPT ![c] = "irq"]
    /\ UNCHANGED <<flag, nest, intenb, curTask, inKernel, pc, lk, depth, i>>

\* irq_handlers returns.
IrqDone(c) ==
    /\ stage[c] = "irq" /\ pc[c] = "run"
    /\ stage' = [stage EXCEPT ![c] = "sched"]
    /\ UNCHANGED <<flag, cpuVars, curTask, inKernel, rflags, pc, lk, depth, i>>

\* sleep and exit call yield() inside the system call: a second os_trap
\* starts, whose irq_handlers does nothing, and schedules.
SleepYield(c) ==
    /\ stage[c] = "irq" /\ pc[c] = "run"
    /\ curTask[c] \notin Idles
    /\ inKernel' = [inKernel EXCEPT ![curTask[c]] = TRUE]
    /\ stage' = [stage EXCEPT ![c] = "sched"]
    /\ UNCHANGED <<flag, cpuVars, curTask, rflags, pc, lk, depth, i>>

\* The do-while over the ring and currents[cpuid] = curTask, with locks[c]
\* held.  KmtSched has the ring it walks; here it picks any task of CPU c.
Pick(c) ==
    /\ stage[c] = "sched" /\ pc[c] = "cs"
    /\ \E t \in {u \in Task : TaskCpu[u] = c} :
          curTask' = [curTask EXCEPT ![c] = t]
    /\ stage' = [stage EXCEPT ![c] = "switched"]
    /\ UNCHANGED <<flag, cpuVars, inKernel, rflags, pc, lk, depth, i>>

\* return &context[--nc] and iret: back into a handler that yielded (IF stays
\* off) or into the task, whose saved flags are loaded.
Iret(c) ==
    LET t == curTask[c] IN
    /\ stage[c] = "switched" /\ pc[c] = "run"
    /\ IF inKernel[t]
       THEN /\ inKernel' = [inKernel EXCEPT ![t] = FALSE]
            /\ stage' = [stage EXCEPT ![c] = "irq"]
            /\ UNCHANGED ienabled
       ELSE /\ ienabled' = [ienabled EXCEPT ![c] = rflags[t]]
            /\ stage' = [stage EXCEPT ![c] = "none"]
            /\ UNCHANGED inKernel
    /\ UNCHANGED <<flag, nest, intenb, curTask, rflags, pc, lk, depth, i>>

-----------------------------------------------------------------------------
LockStep(a)   == SlIset(a) \/ SlNest(a) \/ SlXchg(a)
UnlockStep(a) == SuNest(a) \/ SuXchg(a) \/ SuIset(a)
TrapStep(c)   == IrqDone(c) \/ Pick(c) \/ Iret(c)

Next ==
    \/ \E a \in Agent, l \in Spinlock : SpinLock(a, l)
    \/ \E a \in Agent : SpinLockAgain(a) \/ LockStep(a) \/ UnlockStep(a)
    \/ \E c \in Cpu : Trap(c) \/ SleepYield(c) \/ TrapStep(c)

Spec == Init /\ [][Next]_vars

\* os_trap's own call of spin_lock, which every trap comes to.
Schedule(c) == stage[c] = "sched" /\ SpinLock(c, CpuLock[c])

\* A CPU keeps executing the statements it is at.  Nothing obliges a task to
\* call spin_lock or a syscall to sleep, and no fairness is assumed of the
\* exchange in SlXchg among CPUs that race for it beyond weak fairness.
FairSpec ==
    /\ Spec
    /\ \A a \in Agent : WF_vars(LockStep(a)) /\ WF_vars(UnlockStep(a))
    /\ \A c \in Cpu : WF_vars(TrapStep(c)) /\ WF_vars(Schedule(c))

-----------------------------------------------------------------------------
(* Properties                                                              *)

\* The variables keep their types, and nest never exceeds MaxNest.
TypeOK ==
    /\ flag \in [Spinlock -> {0, 1}]
    /\ nest \in [Cpu -> 0 .. MaxNest]
    /\ intenb \in [Cpu -> BOOLEAN]
    /\ ienabled \in [Cpu -> BOOLEAN]
    /\ curTask \in [Cpu -> Task]
    /\ stage \in [Cpu -> Stage]
    /\ inKernel \in [Task -> BOOLEAN]
    /\ rflags \in [Task -> BOOLEAN]
    /\ pc \in [Agent -> Pc]
    /\ lk \in [Agent -> Spinlock \cup {NoLock}]
    /\ depth \in [Agent -> 0 .. MaxNest]
    /\ i \in [Agent -> BOOLEAN]

Holds(a, l) == depth[a] > 0 /\ lk[a] = l

\* spin_lock gives a lock to one flow of control at a time, and the flag word
\* is 1 exactly while someone holds it (kmt.c: spin_lock, spin_unlock).
MutualExclusion ==
    \A l \in Spinlock :
        /\ \A a, b \in Agent : Holds(a, l) /\ Holds(b, l) => a = b
        /\ flag[l] = 1 <=> \E a \in Agent : Holds(a, l)

\* A flow of control inside the lock keeps its CPU, with interrupts off: the
\* per-CPU counter nest[] then counts the calls of that one agent.
HolderNotPreempted ==
    \A a \in Agent : depth[a] > 0 => Executing(a) /\ ~ienabled[CpuOf(a)]

\* The two assertions of spin_unlock: nest[c] >= 0 after the decrement and
\* interrupts off before they are restored.
SafeAsserts ==
    \A a \in Agent : Executing(a) =>
        /\ pc[a] \in {"cs", "leaving"} => nest[CpuOf(a)] >= 1
        /\ pc[a] = "su_iset" => ~ienabled[CpuOf(a)]

\* The IF bit an agent has outside critical sections: handlers and the idle
\* loop run with interrupts off, every other task with interrupts on.
BaseIF(a) == a \in Task \ Idles

\* spin_unlock gives back the interrupt state spin_lock found, across nested
\* calls, preemptions and task switches: code outside critical sections runs
\* with the flag its context was made with.
InterruptStateRestored ==
    \A c \in Cpu : pc[Exec(c)] = "run" => ienabled[c] = BaseIF(Exec(c))

\* A lock that is taken is released again, whoever waits for it; and a CPU that
\* begins to schedule gets its lock, picks a task and returns to it: the lock is
\* never held by the task that was interrupted, or the handler would wait for
\* code that cannot run (kmt.c: spin_lock, spin_unlock, os_trap).
LockReleased ==
    /\ \A l \in Spinlock : flag[l] = 1 ~> flag[l] = 0
    /\ \A c \in Cpu : stage[c] = "sched" ~> stage[c] \in {"none", "irq"}

\* The lock words, nest[] and intenb[] together implement recursive locks.
heldMap == [a \in Agent |-> [l \in Spinlock |->
               IF lk[a] = l THEN depth[a] ELSE 0]]

Abstract == INSTANCE RecursiveLock WITH Lock <- Spinlock, held <- heldMap

ImplementsRecursiveLock == Abstract!Spec

-----------------------------------------------------------------------------
(* The inductive invariant behind the safety properties: what is true of   *)
(* an agent depends on whether its CPU is executing it.                    *)

\* An agent that is switched out is outside, or just before iset(false) with
\* the interrupt state of outside in i.
Suspended(a) ==
    /\ depth[a] = 0
    /\ pc[a] \in {"run", "sl_iset"}
    /\ a \in Cpu \cup Idles => pc[a] = "run"
    /\ pc[a] = "sl_iset" => i[a] = BaseIF(a)

\* What the agent's calls have added to nest[] of its CPU.
NestOf(a) == IF pc[a] = "sl_xchg" THEN 1
             ELSE IF pc[a] = "su_xchg" THEN 0 ELSE depth[a]

Unmasked(a) == depth[a] = 0 /\ pc[a] \in {"run", "sl_iset"}

\* The CPU's fields describe the agent it is executing.
Running(a) ==
    LET c == CpuOf(a) IN
    /\ nest[c] = NestOf(a)
    /\ IF Unmasked(a) THEN ienabled[c] = BaseIF(a) ELSE ~ienabled[c]
    /\ pc[a] \in {"run", "sl_xchg", "su_iset"} => depth[a] = 0
    /\ pc[a] \in {"cs", "leaving"} => depth[a] > 0
    /\ pc[a] = "su_xchg" => depth[a] = 1
    /\ pc[a] \in {"sl_iset", "sl_nest"} => depth[a] < MaxNest
    /\ pc[a] \in {"sl_iset", "sl_nest"} /\ depth[a] = 0 => i[a] = BaseIF(a)
    /\ pc[a] \in {"sl_xchg", "su_iset"} \/ depth[a] > 0 =>
          intenb[c] = BaseIF(a)
    /\ a \in Idles => pc[a] = "run"

AgentInv == \A a \in Agent : IF Executing(a) THEN Running(a) ELSE Suspended(a)
CurInv   == \A c \in Cpu : TaskCpu[curTask[c]] = c
SavedInv == \A t \in Task : rflags[t] = BaseIF(t)
LkInv    == \A a \in Agent : lk[a] = NoLock <=> pc[a] \in {"run", "su_iset"}

IInv ==
    TypeOK /\ CurInv /\ SavedInv /\ LkInv /\ AgentInv /\ MutualExclusion
=============================================================================
