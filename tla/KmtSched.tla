------------------------------ MODULE KmtSched ------------------------------
(***************************************************************************)
(* Tasks and their scheduling: the per-CPU rings of kernel/src/kmt.c, the  *)
(* scheduler in os_trap (kernel/src/os.c) and the life of processes        *)
(* (kernel/src/uproc.c: ucreate, fork, exit, sleep).                       *)
(*                                                                         *)
(* locks[c] is only ever taken by CPU c, so it keeps interrupts of that    *)
(* CPU out (KmtSpinlock) and no other CPU: code under it is a sequence of  *)
(* steps of CPU c that the other CPUs interleave with.  glock is a plain   *)
(* spin lock that kcreate alone takes.  numTask, which nothing reads, the  *)
(* memory of processes and the values of system calls are left out.        *)
(***************************************************************************)
EXTENDS Naturals, Sequences, FiniteSets

CONSTANTS
    NCpu,           \* cpu_count()
    IdleOf,         \* [Cpu -> Task]: the idle task of a CPU
    Kthread,        \* the tasks that kcreate may make
    Proc,           \* the processes that ucreate may make
    Null,           \* a null pointer
    RuntimeCreate   \* whether kcreate is called after mpe_init, as the calls
                    \* in os_run (os.c:37-39, commented out) would

Cpu   == 0 .. NCpu - 1
Idles == {IdleOf[c] : c \in Cpu}
Task  == Idles \cup Kthread \cup Proc

ASSUME SchedAssumption ==
    /\ NCpu \in Nat \ {0}
    /\ IdleOf \in [Cpu -> Idles]
    /\ \A c, d \in Cpu : IdleOf[c] = IdleOf[d] => c = d
    /\ Idles \cap (Kthread \cup Proc) = {} /\ Kthread \cap Proc = {}
    /\ IsFiniteSet(Kthread) /\ IsFiniteSet(Proc)
    /\ Null \notin Task \cup Cpu
    /\ RuntimeCreate \in BOOLEAN

VARIABLES
    next, prev,     \* [Task -> Task or Null]: the ring pointers
    status,         \* "unused" until created, then RUNNING or ZOMBIE
    context,        \* [Task -> Seq(Frame)]: context[0 .. nc-1], see Frame
    curTask,        \* [Cpu -> Task]: percpu[].curTask
    currents,       \* [Cpu -> Task]: currents[]
    cpurec,         \* the CPU the next kernel thread goes to
    glock,          \* whether glock is held
    pidrec,         \* the next process number
    pid,            \* [Proc -> Nat], 0 until the process is made
    parent, children, bros, nchildren,  \* the family links of processes
    pc,             \* [Cpu -> Pc]: where the CPU is
    new,            \* [Cpu -> Task or Null]: the task it is creating
    tgt,            \* [Cpu -> Cpu or Null]: the local variable cpu of kcreate
    booted,         \* whether mpe_init has been called
    home            \* [Task -> Cpu or Null]: a history variable, the CPU in
                    \* whose ring the task has been linked

ring   == <<next, prev, home>>
sched  == <<status, context, curTask, currents>>
create == <<cpurec, glock, new, tgt, booted>>
family == <<parent, children, bros, nchildren>>
pids   == <<pidrec, pid>>
vars   == <<next, prev, status, context, curTask, currents, cpurec, glock,
            pidrec, pid, parent, children, bros, nchildren, pc, new, tgt,
            booted, home>>

\* What a saved context returns to: the task's own code, or the system call
\* sleep or exit that yielded in the handler.
Frame == {"user", "sleep", "exit"}

\* "off": not started; "boot": main() before mpe_init; "run": the current
\* task's code; "k_*" and "u_*": in kcreate and ucreate; "fork": after
\* ucreate; "trap": in irq_handlers; "sleep": in the loop of sleep; "sched":
\* in the do-while of os_trap; "switch": after it; "panic": exit returned.
Pc == {"off", "boot", "run", "k_glock", "k_next", "k_prev", "k_link", "k_back",
       "u_back", "u_link", "fork", "trap", "sleep", "sched", "switch", "panic"}

Goto(c, p) == pc' = [pc EXCEPT ![c] = p]

\* k_init: the memory of an idle task reads as 0, so its status is RUNNING.
Init ==
    /\ next = [t \in Task |-> IF t \in Idles THEN t ELSE Null]
    /\ prev = next
    /\ status = [t \in Task |-> IF t \in Idles THEN "RUNNING" ELSE "unused"]
    /\ context = [t \in Task |-> <<>>]
    /\ curTask = IdleOf /\ currents = IdleOf
    /\ cpurec = 0 /\ glock = FALSE
    /\ pidrec = 1 /\ pid = [t \in Proc |-> 0]
    /\ parent = [t \in Proc |-> Null] /\ children = [t \in Proc |-> Null]
    /\ bros = [t \in Proc |-> Null] /\ nchildren = [t \in Proc |-> 0]
    /\ pc = [c \in Cpu |-> IF c = 0 THEN "boot" ELSE "off"]
    /\ new = [c \in Cpu |-> Null] /\ tgt = [c \in Cpu |-> Null]
    /\ booted = FALSE
    /\ home = [t \in Task |->
                 IF t \in Idles THEN CHOOSE c \in Cpu : IdleOf[c] = t ELSE Null]

\* main calls mpe_init: every CPU enters os_run as its idle task.
MpeInit ==
    /\ pc[0] = "boot"
    /\ pc' = [c \in Cpu |-> "run"]
    /\ booted' = TRUE
    /\ UNCHANGED <<ring, sched, cpurec, glock, new, tgt, pids, family>>

-----------------------------------------------------------------------------
(* kcreate, called by main on CPU 0 or by the code CPU c runs.             *)

\* The task's fields, its first context, and locks[c].
KCreate(c, t) ==
    /\ \/ pc[c] = "boot"
       \/ pc[c] = "run" /\ RuntimeCreate /\ currents[c] \notin Proc
    /\ t \in Kthread /\ status[t] = "unused"
    /\ status' = [status EXCEPT ![t] = "RUNNING"]
    /\ context' = [context EXCEPT ![t] = <<"user">>]
    /\ new' = [new EXCEPT ![c] = t]
    /\ Goto(c, "k_glock")
    /\ UNCHANGED <<ring, curTask, currents, cpurec, glock, tgt, booted, pids,
                   family>>

\* lock(&glock); int cpu = cpurec; cpurec = (cpurec + 1) % cpu_count();
KGlock(c) ==
    /\ pc[c] = "k_glock" /\ ~glock
    /\ glock' = TRUE
    /\ tgt' = [tgt EXCEPT ![c] = cpurec]
    /\ cpurec' = (cpurec + 1) % NCpu
    /\ Goto(c, "k_next")
    /\ UNCHANGED <<ring, sched, new, booted, pids, family>>

\* task->next = currents[cpu]->next;
KNext(c) ==
    /\ pc[c] = "k_next"
    /\ next' = [next EXCEPT ![new[c]] = next[currents[tgt[c]]]]
    /\ Goto(c, "k_prev")
    /\ UNCHANGED <<prev, home, sched, create, pids, family>>

\* task->prev = currents[cpu];
KPrev(c) ==
    /\ pc[c] = "k_prev"
    /\ prev' = [prev EXCEPT ![new[c]] = currents[tgt[c]]]
    /\ Goto(c, "k_link")
    /\ UNCHANGED <<next, home, sched, create, pids, family>>

\* currents[cpu]->next = task;
KLink(c) ==
    /\ pc[c] = "k_link"
    /\ next' = [next EXCEPT ![currents[tgt[c]]] = new[c]]
    /\ home' = [home EXCEPT ![new[c]] = tgt[c]]
    /\ Goto(c, "k_back")
    /\ UNCHANGED <<prev, sched, create, pids, family>>

\* task->next->prev = task; both locks are released and kcreate returns.
KBack(c) ==
    /\ pc[c] = "k_back"
    /\ prev' = [prev EXCEPT ![next[new[c]]] = new[c]]
    /\ glock' = FALSE
    /\ new' = [new EXCEPT ![c] = Null] /\ tgt' = [tgt EXCEPT ![c] = Null]
    /\ Goto(c, IF booted THEN "run" ELSE "boot")
    /\ UNCHANGED <<next, home, sched, cpurec, booted, pids, family>>

-----------------------------------------------------------------------------
(* ucreate, called by main for CPU 0 or by fork on its own CPU.            *)

\* main makes one process; fork is a system call of the running process.
CallsUcreate(c) ==
    IF booted THEN pc[c] = "trap" /\ curTask[c] \in Proc
    ELSE pc[c] = "boot" /\ \A p \in Proc : status[p] = "unused"

\* Fault: the process is linked with no saved context.
UCreate_NoContext(c, u) ==
    /\ CallsUcreate(c)
    /\ u \in Proc /\ status[u] = "unused"
    /\ next' = [next EXCEPT ![u] = next[curTask[c]]]
    /\ prev' = [prev EXCEPT ![u] = curTask[c]]
    /\ status' = [status EXCEPT ![u] = "RUNNING"]
    /\ pid' = [pid EXCEPT ![u] = pidrec] /\ pidrec' = pidrec + 1
    /\ new' = [new EXCEPT ![c] = u]
    /\ Goto(c, "u_back")
    /\ UNCHANGED <<home, context, curTask, currents, cpurec, glock, tgt, booted,
                   family>>

\* Up to pidrec ++, with locks[cpu] held: the fields of the process, its place
\* in the ring behind curTask, and its number.
UCreate(c, u) ==
    /\ CallsUcreate(c)
    /\ u \in Proc /\ status[u] = "unused"
    /\ next' = [next EXCEPT ![u] = next[curTask[c]]]
    /\ prev' = [prev EXCEPT ![u] = curTask[c]]
    /\ status' = [status EXCEPT ![u] = "RUNNING"]
    /\ context' = [context EXCEPT ![u] = <<"user">>]
    /\ pid' = [pid EXCEPT ![u] = pidrec] /\ pidrec' = pidrec + 1
    /\ new' = [new EXCEPT ![c] = u]
    /\ Goto(c, "u_back")
    /\ UNCHANGED <<home, curTask, currents, cpurec, glock, tgt, booted, family>>

\* Fault: curTask->next is already the new process when its prev is set.
UBack_Swapped(c) ==
    /\ pc[c] = "u_back"
    /\ prev' = [prev EXCEPT ![new[c]] = new[c]]
    /\ Goto(c, "u_link")
    /\ UNCHANGED <<next, home, sched, create, pids, family>>

\* percpu[cpu].curTask->next->prev = uproc;
UBack(c) ==
    /\ pc[c] = "u_back"
    /\ prev' = [prev EXCEPT ![next[curTask[c]]] = new[c]]
    /\ Goto(c, "u_link")
    /\ UNCHANGED <<next, home, sched, create, pids, family>>

\* percpu[cpu].curTask->next = uproc; and back to main or to fork.
ULink(c) ==
    /\ pc[c] = "u_link"
    /\ next' = [next EXCEPT ![curTask[c]] = new[c]]
    /\ home' = [home EXCEPT ![new[c]] = c]
    /\ IF booted
       THEN /\ Goto(c, "fork")
            /\ UNCHANGED new
       ELSE /\ Goto(c, "boot")
            /\ new' = [new EXCEPT ![c] = Null]
    /\ UNCHANGED <<prev, sched, cpurec, glock, tgt, booted, pids, family>>

\* Fault: the parent's list starts at the new child, which forgets the others.
ForkFamily_DropsBros(c) ==
    LET p == curTask[c]  u == new[c] IN
    /\ pc[c] = "fork"
    /\ parent' = [parent EXCEPT ![u] = p]
    /\ children' = [children EXCEPT ![p] = u]
    /\ nchildren' = [nchildren EXCEPT ![p] = @ + 1]
    /\ new' = [new EXCEPT ![c] = Null]
    /\ Goto(c, "sched")
    /\ UNCHANGED <<ring, sched, cpurec, glock, tgt, booted, pids, bros>>

\* The rest of fork: the child enters its parent's list of children.
ForkFamily(c) ==
    LET p == curTask[c]  u == new[c] IN
    /\ pc[c] = "fork"
    /\ parent' = [parent EXCEPT ![u] = p]
    /\ bros' = [bros EXCEPT ![u] = children[p]]
    /\ children' = [children EXCEPT ![p] = u]
    /\ nchildren' = [nchildren EXCEPT ![p] = @ + 1]
    /\ new' = [new EXCEPT ![c] = Null]
    /\ Goto(c, "sched")
    /\ UNCHANGED <<ring, sched, cpurec, glock, tgt, booted, pids>>

-----------------------------------------------------------------------------
(* os_trap                                                                 *)

Save(c, f) == context' = [context EXCEPT ![currents[c]] = Append(@, f)]

\* An interrupt, a yield, a page fault or a system call: context[nc++].
Trap(c) ==
    /\ pc[c] = "run"
    /\ Save(c, "user")
    /\ Goto(c, "trap")
    /\ UNCHANGED <<ring, status, curTask, currents, create, pids, family>>

\* The event needs no more than irq_handlers does (kputc, getpid, a timer).
TrapDone(c) ==
    /\ pc[c] = "trap"
    /\ Goto(c, "sched")
    /\ UNCHANGED <<ring, sched, create, pids, family>>

\* Fault: exit yields before it marks the process.
Exit_YieldsFirst(c) ==
    /\ pc[c] = "trap" /\ curTask[c] \in Proc
    /\ Save(c, "exit")
    /\ Goto(c, "sched")
    /\ UNCHANGED <<ring, status, curTask, currents, create, pids, family>>

\* exit: the process becomes a ZOMBIE and yields; the nested os_trap saves a
\* second context of it and schedules.
Exit(c) ==
    /\ pc[c] = "trap" /\ curTask[c] \in Proc
    /\ status' = [status EXCEPT ![curTask[c]] = "ZOMBIE"]
    /\ Save(c, "exit")
    /\ Goto(c, "sched")
    /\ UNCHANGED <<ring, curTask, currents, create, pids, family>>

\* sleep: the loop yields while the wake-up time has not passed, then returns
\* to the os_trap that called it, which schedules.
SleepCall(c) ==
    /\ pc[c] = "trap" /\ curTask[c] \in Proc
    /\ Goto(c, "sleep")
    /\ UNCHANGED <<ring, sched, create, pids, family>>

SleepYield(c) ==
    /\ pc[c] = "sleep"
    /\ Save(c, "sleep")
    /\ Goto(c, "sched")
    /\ UNCHANGED <<ring, status, curTask, currents, create, pids, family>>

SleepDone(c) ==
    /\ pc[c] = "sleep"
    /\ Goto(c, "sched")
    /\ UNCHANGED <<ring, sched, create, pids, family>>

\* Fault: the scheduler walks the ring the wrong way round.
Advance_Backwards(c) ==
    LET t == prev[curTask[c]] IN
    /\ pc[c] = "sched"
    /\ curTask' = [curTask EXCEPT ![c] = t]
    /\ Goto(c, IF status[t] = "ZOMBIE" THEN "sched" ELSE "switch")
    /\ UNCHANGED <<ring, status, context, currents, create, pids, family>>

\* Fault: the scheduler starts from the idle task every time.
Advance_FromIdle(c) ==
    LET t == IF curTask[c] = currents[c] THEN next[IdleOf[c]]
             ELSE next[curTask[c]] IN
    /\ pc[c] = "sched"
    /\ curTask' = [curTask EXCEPT ![c] = t]
    /\ Goto(c, IF status[t] = "ZOMBIE" THEN "sched" ELSE "switch")
    /\ UNCHANGED <<ring, status, context, currents, create, pids, family>>

\* One round of the do-while: curTask = curTask->next, again while the task
\* is a ZOMBIE.
Advance(c) ==
    LET t == next[curTask[c]] IN
    /\ pc[c] = "sched"
    /\ curTask' = [curTask EXCEPT ![c] = t]
    /\ Goto(c, IF status[t] = "ZOMBIE" THEN "sched" ELSE "switch")
    /\ UNCHANGED <<ring, status, context, currents, create, pids, family>>

\* currents[cpuid] = curTask; return &context[--nc]: the CPU continues where
\* that context was saved.
Switch(c) ==
    LET t == curTask[c]
        f == context[t][Len(context[t])] IN
    /\ pc[c] = "switch" /\ context[t] # <<>>
    /\ currents' = [currents EXCEPT ![c] = t]
    /\ context' = [context EXCEPT ![t] = SubSeq(@, 1, Len(@) - 1)]
    /\ Goto(c, CASE f = "user" -> "run" [] f = "sleep" -> "sleep"
                 [] f = "exit" -> "panic")
    /\ UNCHANGED <<ring, status, curTask, create, pids, family>>

-----------------------------------------------------------------------------
CpuStep(c) ==
    \/ KGlock(c) \/ KNext(c) \/ KPrev(c) \/ KLink(c) \/ KBack(c)
    \/ UBack(c) \/ ULink(c) \/ ForkFamily(c)
    \/ Trap(c) \/ TrapDone(c) \/ Exit(c)
    \/ SleepCall(c) \/ SleepYield(c) \/ SleepDone(c)
    \/ Advance(c) \/ Switch(c)

Next ==
    \/ MpeInit
    \/ \E c \in Cpu, t \in Task : KCreate(c, t) \/ UCreate(c, t)
    \/ \E c \in Cpu : CpuStep(c)

Spec == Init /\ [][Next]_vars

\* main reaches mpe_init; a CPU goes on with the step it is at; the timer
\* interrupts a task that runs with interrupts on, and os_run yields.  No task
\* need call kcreate or fork, and no sleep need end.
FairSpec ==
    Spec /\ WF_vars(MpeInit) /\ \A c \in Cpu : WF_vars(CpuStep(c))

-----------------------------------------------------------------------------
(* Properties                                                              *)

\* The tasks met from t along the pointers link, Null once they end.
Walk(link, t) ==
    LET w[n \in 0 .. Cardinality(Task)] ==
            IF n = 0 THEN t
            ELSE IF w[n - 1] = Null THEN Null ELSE link[w[n - 1]]
    IN  w

Met(link, t) == {Walk(link, t)[n] : n \in 0 .. Cardinality(Task)}
Ring(c)      == Met(next, curTask[c])

\* Whether a CPU is between the pointer writes of an insertion into c's ring.
Inserting(c) ==
    \E d \in Cpu : \/ (pc[d] = "k_back" /\ tgt[d] = c)
                   \/ (pc[d] = "u_link" /\ d = c)

\* The ring of a CPU is a cycle of exactly the tasks that were linked into it,
\* dead processes included, and prev is the inverse of next in it unless an
\* insertion is under way (kcreate, ucreate).
RingIntact ==
    \A c \in Cpu :
        /\ Ring(c) = {t \in Task : home[t] = c}
        /\ ~Inserting(c) =>
               \A t \in Ring(c) : next[prev[t]] = t /\ prev[next[t]] = t

\* A task that kcreate has added is in the queue of the CPU it was meant for
\* (kmt.c:101, "add this task into CPU queue").
AddedToQueue ==
    \A t \in Kthread : home[t] # Null => t \in Ring(home[t])

\* os_trap never takes context[-1]: a task it switches to has been saved, and
\* the task that runs has nothing saved, so its next trap uses context[0].
ContextSaved ==
    \A c \in Cpu :
        /\ pc[c] = "switch" => context[curTask[c]] # <<>>
        /\ pc[c] = "run" => currents[c] = curTask[c] /\ context[curTask[c]] = <<>>

\* A process that called exit never runs again: its yield does not return.
ExitNeverReturns ==
    \A c \in Cpu : /\ pc[c] # "panic"
                   /\ pc[c] = "run" => status[currents[c]] = "RUNNING"

\* The list children, bros, bros, ... of a process holds its children, each
\* once, and nchildren counts them (fork).
FamilyOK ==
    (\A c \in Cpu : pc[c] # "fork") =>
    \A p \in Proc :
        LET kids == IF children[p] = Null THEN {}
                    ELSE Met(bros, children[p]) \ {Null}
        IN  /\ kids = {q \in Proc : parent[q] = p}
            /\ nchildren[p] = Cardinality(kids)

\* Round robin starves no one: a task that is ready gets its CPU.
EveryTaskRuns ==
    \A t \in Task : status[t] = "RUNNING" ~> \E c \in Cpu : currents[c] = t

\* The queue a ring stands for, from curTask on.
QueueOf(c) ==
    LET w == Walk(next, curTask[c])
        n == CHOOSE k \in 1 .. Cardinality(Task) :
                 w[k] = w[0] /\ \A j \in 1 .. k - 1 : w[j] # w[0]
    IN  [k \in 1 .. n |-> w[k - 1]]

Queues == INSTANCE RunQueue WITH queue <- [c \in Cpu |-> QueueOf(c)]

\* The rings implement the run queues.
ImplementsRunQueue == Queues!Spec
=============================================================================
