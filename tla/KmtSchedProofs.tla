--------------------------- MODULE KmtSchedProofs ---------------------------
(***************************************************************************)
(* Proofs about the scheduler of KmtSched for every number of CPUs, kernel *)
(* threads and processes, where kcreate is called before mpe_init only, as *)
(* in this commit: os_trap never takes context[-1], and exit does not      *)
(* return; the rings of tasks stay whole and implement the run queues of   *)
(* RunQueue; and the lists of children stay right.                         *)
(***************************************************************************)
EXTENDS KmtSched, LeastNumber, FiniteSetTheorems, SequenceTheorems, TLAPS

-----------------------------------------------------------------------------
(* The saved contexts.                                                     *)
(*                                                                         *)
(* Which context a trap returns to depends on the stacks of contexts of    *)
(* all tasks the scheduler may reach.  So the invariant has three layers:  *)
(* following next stays in the ring of the CPU; a task that no CPU         *)
(* executes has on its stack what belongs to its status; and the task a    *)
(* CPU executes has what belongs to the place of the CPU.                  *)

K == {"k_glock", "k_next", "k_prev", "k_link", "k_back"}
U == {"u_back", "u_link"}

\* The contexts a task may have saved: in its own code, and above that in a
\* yield of sleep or of exit.
Own      == <<"user">>
Sleeping == <<"user", "sleep">>
Exited   == <<"user", "exit">>
Stacks   == {<<>>, Own, Sleeping, Exited}

(* The types of the variables the scheduler reads.                         *)
SchedTypeOK ==
    /\ next \in [Task -> Task \cup {Null}]
    /\ status \in [Task -> {"unused", "RUNNING", "ZOMBIE"}]
    /\ context \in [Task -> Stacks]
    /\ curTask \in [Cpu -> Task] /\ currents \in [Cpu -> Task]
    /\ cpurec \in Cpu /\ booted \in BOOLEAN
    /\ pc \in [Cpu -> Pc \ {"panic"}]
    /\ new \in [Cpu -> Task \cup {Null}]
    /\ tgt \in [Cpu -> Cpu \cup {Null}]
    /\ home \in [Task -> Cpu \cup {Null}]

\* Until mpe_init CPU 0 is in main and the others are off, all on their idle
\* tasks; from then on none is in main or in kcreate.
Boot ==
    \A c \in Cpu :
        IF booted
        THEN pc[c] \notin {"off", "boot"} \cup K
        ELSE /\ pc[c] \in (IF c = 0 THEN {"boot"} \cup K \cup U ELSE {"off"})
             /\ curTask[c] = IdleOf[c] /\ currents[c] = IdleOf[c]

\* Following next from a task of a ring one stays in it.
Rings ==
    /\ \A c \in Cpu : home[curTask[c]] = c /\ home[currents[c]] = c
    /\ \A t \in Task : home[t] # Null => next[t] \in Task /\ home[next[t]] = home[t]
    /\ \A t \in Task : status[t] = "unused" => home[t] = Null

Creating(c) == pc[c] \in (K \ {"k_back"}) \cup U

\* A task being created is in no ring, is no other CPU's new task, and points
\* into the ring it will be in.
Fresh ==
    /\ \A c \in Cpu : Creating(c) =>
           new[c] \in Task /\ home[new[c]] = Null /\ status[new[c]] = "RUNNING"
    /\ \A c, d \in Cpu : c # d /\ Creating(c) /\ Creating(d) => new[c] # new[d]
    /\ \A c \in Cpu :
           /\ pc[c] \in K \ {"k_glock"} => tgt[c] \in Cpu
           /\ pc[c] \in {"k_prev", "k_link"} =>
                  next[new[c]] \in Task /\ home[next[new[c]]] = tgt[c]
           /\ pc[c] \in U => next[new[c]] \in Task /\ home[next[new[c]]] = c

Scheduling(c) == pc[c] \in {"sched", "switch"}

Executed(t) == home[t] \in Cpu /\ curTask[home[t]] = t /\ ~Scheduling(home[t])

\* What a task that no CPU executes has saved.
Suspended ==
    \A t \in Task : status[t] # "unused" /\ ~Executed(t) =>
        context[t] \in (IF status[t] = "RUNNING" THEN {Own, Sleeping} ELSE {Exited})

\* What the task that a CPU executes has saved: nothing while its own code
\* runs, the context of that code while the kernel serves it.
Current ==
    \A c \in Cpu :
        /\ ~Scheduling(c) =>
               /\ currents[c] = curTask[c]
               /\ context[curTask[c]] =
                    (IF booted /\ pc[c] # "run" THEN Own ELSE <<>>)
        /\ pc[c] # "sched" => status[curTask[c]] = "RUNNING"

IInv == SchedTypeOK /\ Boot /\ Rings /\ Fresh /\ Suspended /\ Current

(* What the proofs need of the constants.                                  *)
LEMMA Constants ==
    ASSUME SchedAssumption
    PROVE  /\ 0 \in Cpu /\ Null \notin Task /\ Null \notin Cpu
           /\ IdleOf \in [Cpu -> Task]
           /\ \A c, d \in Cpu : IdleOf[c] = IdleOf[d] => c = d
           /\ Proc \subseteq Task /\ Kthread \subseteq Task
           /\ \A n \in Cpu : (n + 1) % NCpu \in Cpu
BY DEF SchedAssumption, Cpu, Idles, Task

(* The stacks of contexts that occur, and what Save and Switch make of     *)
(* them (os.c:44-68).                                                  *)
LEMMA StackFacts ==
    /\ Append(<<>>, "user") = Own
    /\ Append(Own, "sleep") = Sleeping /\ Append(Own, "exit") = Exited
    /\ Own[Len(Own)] = "user" /\ Sleeping[Len(Sleeping)] = "sleep"
    /\ SubSeq(Own, 1, Len(Own) - 1) = <<>>
    /\ SubSeq(Sleeping, 1, Len(Sleeping) - 1) = Own
    /\ Own # <<>> /\ Sleeping # <<>> /\ Exited # <<>>
<1>1. /\ Own \in Seq(Frame) /\ Sleeping \in Seq(Frame) /\ Exited \in Seq(Frame)
      /\ Len(Own) = 1 /\ Len(Sleeping) = 2 /\ Len(Exited) = 2
      /\ Own[1] = "user" /\ Sleeping[1] = "user" /\ Exited[1] = "user"
      /\ Sleeping[2] = "sleep" /\ Exited[2] = "exit"
  BY DEF Own, Sleeping, Exited, Frame
<1>2. Append(<<>>, "user") = Own
  BY DEF Own
<1>3. ASSUME NEW f \in Frame, NEW s \in Seq(Frame), Len(s) = 2, s[1] = "user", s[2] = f
      PROVE  Append(Own, f) = s
  <2>1. Own \in Seq(Frame)
    BY <1>1
  <2>2. /\ Append(Own, f) \in Seq(Frame) /\ Len(Append(Own, f)) = Len(Own) + 1
        /\ \A i \in 1 .. Len(Own) : Append(Own, f)[i] = Own[i]
        /\ Append(Own, f)[Len(Own) + 1] = f
    BY <2>1, AppendProperties
  <2>3. Len(Append(Own, f)) = 2 /\ Append(Own, f)[1] = "user" /\ Append(Own, f)[2] = f
    BY <1>1, <2>2
  <2>4. \A i \in 1 .. 2 : Append(Own, f)[i] = s[i]
    BY <1>3, <2>3
  <2>. QED  BY <1>3, <2>2, <2>3, <2>4, SeqEqual
<1>4. Append(Own, "sleep") = Sleeping /\ Append(Own, "exit") = Exited
  BY <1>1, <1>3 DEF Frame
<1>5. SubSeq(Own, 1, Len(Own) - 1) = <<>>
  BY <1>1
<1>6. SubSeq(Sleeping, 1, Len(Sleeping) - 1) = Own
  <2>1. SubSeq(Sleeping, 1, 1) \in Seq(Frame) /\ Len(SubSeq(Sleeping, 1, 1)) = 1
    BY <1>1
  <2>2. SubSeq(Sleeping, 1, 1)[1] = "user"
    BY <1>1
  <2>3. \A i \in 1 .. 1 : SubSeq(Sleeping, 1, 1)[i] = Own[i]
    BY <1>1, <2>2
  <2>. QED  BY <1>1, <2>1, <2>3, SeqEqual
<1>. QED  BY <1>1, <1>2, <1>4, <1>5, <1>6

(* kcreate fills in a task in no ring.                                     *)
LEMMA KCreateKeeps ==
    ASSUME SchedAssumption, RuntimeCreate = FALSE, IInv, NEW c \in Cpu, NEW t \in Task, KCreate(c, t)
    PROVE  IInv'
<1>1. SchedTypeOK /\ Boot /\ Rings /\ Fresh /\ Suspended /\ Current
    BY DEF IInv
<1>2. context' = [context EXCEPT ![t] = Own]
    BY DEF KCreate, Own
<1>3. SchedTypeOK'
    BY <1>1, <1>2 DEF SchedTypeOK, KCreate, Goto, ring, Pc, Stacks
<1>4. Boot'
    BY <1>1 DEF KCreate, Goto, Boot, K
<1>5. Rings'
    BY <1>1 DEF KCreate, ring, Rings
<1>6. Fresh'
    BY <1>1 DEF SchedTypeOK, KCreate, Goto, ring, Rings, Fresh, Creating, U
<1>7. Suspended'
    BY <1>1, <1>2 DEF SchedTypeOK, KCreate, Goto, ring, Suspended, Executed, Scheduling
<1>8. Current'
    BY <1>1 DEF KCreate, Goto, Current, Scheduling
<1>. QED  BY <1>3, <1>4, <1>5, <1>6, <1>7, <1>8 DEF IInv

(* It takes the next CPU.                                                  *)
LEMMA KGlockKeeps ==
    ASSUME SchedAssumption, RuntimeCreate = FALSE, IInv, NEW c \in Cpu, KGlock(c)
    PROVE  IInv'
<1>1. SchedTypeOK /\ Boot /\ Rings /\ Fresh /\ Suspended /\ Current
    BY DEF IInv
<1>2. SchedTypeOK'
    BY <1>1, Constants DEF SchedTypeOK, KGlock, Goto, ring, sched, Pc
<1>3. Boot'
    BY <1>1 DEF KGlock, Goto, sched, Boot, K
<1>4. Rings'
    BY <1>1 DEF KGlock, ring, sched, Rings
<1>5. Fresh'
    BY <1>1 DEF SchedTypeOK, KGlock, Goto, ring, sched, Fresh, Creating, K, U
<1>6. Suspended'
    BY <1>1 DEF KGlock, Goto, ring, sched, Suspended, Executed, Scheduling
<1>7. Current'
    BY <1>1 DEF KGlock, Goto, sched, Current, Scheduling
<1>. QED  BY <1>2, <1>3, <1>4, <1>5, <1>6, <1>7 DEF IInv

(* The task points into the ring of that CPU ...                           *)
LEMMA KNextKeeps ==
    ASSUME SchedAssumption, RuntimeCreate = FALSE, IInv, NEW c \in Cpu, KNext(c)
    PROVE  IInv'
<1>1. SchedTypeOK /\ Boot /\ Rings /\ Fresh /\ Suspended /\ Current
    BY DEF IInv
<1>2. SchedTypeOK'
    BY <1>1 DEF SchedTypeOK, KNext, Goto, sched, create, Fresh, Creating, K, Pc
<1>3. Boot'
    BY <1>1 DEF KNext, Goto, sched, create, Boot, K
<1>4. Rings'
    BY <1>1 DEF KNext, sched, Rings, Fresh, Creating, K
<1>5. Fresh'
    BY <1>1 DEF SchedTypeOK, KNext, Goto, sched, create, Rings, Fresh, Creating, K, U
<1>6. Suspended'
    BY <1>1 DEF KNext, Goto, sched, Suspended, Executed, Scheduling
<1>7. Current'
    BY <1>1 DEF KNext, Goto, sched, create, Current, Scheduling
<1>. QED  BY <1>2, <1>3, <1>4, <1>5, <1>6, <1>7 DEF IInv

(* ... and back,                                                           *)
LEMMA KPrevKeeps ==
    ASSUME SchedAssumption, RuntimeCreate = FALSE, IInv, NEW c \in Cpu, KPrev(c)
    PROVE  IInv'
<1>1. SchedTypeOK /\ Boot /\ Rings /\ Fresh /\ Suspended /\ Current
    BY DEF IInv
<1>2. SchedTypeOK'
    BY <1>1, SMTT(60) DEF SchedTypeOK, KPrev, sched, create, Boot, Fresh, Current, Rings,
                Creating, Scheduling, K, U, Pc
<1>3. Boot'
    BY <1>1 DEF KPrev, Goto, sched, create, Boot, K
<1>4. Rings'
    BY <1>1 DEF KPrev, sched, Rings
<1>5. Fresh'
    BY <1>1 DEF KPrev, Goto, sched, create, Fresh, Creating, K, U
<1>6. Suspended'
    BY <1>1 DEF KPrev, Goto, sched, Suspended, Executed, Scheduling
<1>7. Current'
    BY <1>1 DEF KPrev, Goto, sched, create, Current, Scheduling
<1>. QED  BY <1>2, <1>3, <1>4, <1>5, <1>6, <1>7 DEF IInv

(* and is linked.                                                          *)
LEMMA KLinkKeeps ==
    ASSUME SchedAssumption, RuntimeCreate = FALSE, IInv, NEW c \in Cpu, KLink(c)
    PROVE  IInv'
<1>1. SchedTypeOK /\ Boot /\ Rings /\ Fresh /\ Suspended /\ Current
    BY DEF IInv
<1>2. SchedTypeOK'
    BY <1>1 DEF SchedTypeOK, KLink, Goto, sched, create, Fresh, Creating, K, Pc
<1>3. Boot'
    BY <1>1 DEF KLink, Goto, sched, create, Boot, K
<1>4. Rings'
    BY <1>1 DEF SchedTypeOK, KLink, sched, Rings, Fresh, Creating, K
<1>5. Fresh'
    BY <1>1 DEF SchedTypeOK, KLink, Goto, create, Boot, Fresh, Creating, K, U
<1>6. Suspended'
    BY <1>1 DEF KLink, Goto, sched, Rings, Fresh, Suspended, Executed, Scheduling
<1>7. Current'
    BY <1>1 DEF KLink, Goto, sched, create, Current, Scheduling
<1>. QED  BY <1>2, <1>3, <1>4, <1>5, <1>6, <1>7 DEF IInv

(* The ring's prev, which the scheduler does not read.                     *)
LEMMA KBackKeeps ==
    ASSUME SchedAssumption, RuntimeCreate = FALSE, IInv, NEW c \in Cpu, KBack(c)
    PROVE  IInv'
<1>1. SchedTypeOK /\ Boot /\ Rings /\ Fresh /\ Suspended /\ Current
    BY DEF IInv
<1>2. SchedTypeOK'
    BY <1>1 DEF SchedTypeOK, KBack, Goto, sched, Pc
<1>3. Boot'
    BY <1>1 DEF KBack, Goto, sched, Boot, K
<1>4. Rings'
    BY <1>1 DEF KBack, sched, Rings
<1>5. Fresh'
    BY <1>1 DEF SchedTypeOK, KBack, Goto, sched, Fresh, Creating, K, U
<1>6. Suspended'
    BY <1>1 DEF KBack, Goto, sched, Suspended, Executed, Scheduling
<1>7. Current'
    BY <1>1 DEF KBack, sched, Boot, Current, Scheduling, K
<1>. QED  BY <1>2, <1>3, <1>4, <1>5, <1>6, <1>7 DEF IInv

(* ucreate fills in a process in no ring, behind the running task.         *)
LEMMA UCreateKeeps ==
    ASSUME SchedAssumption, RuntimeCreate = FALSE, IInv, NEW c \in Cpu, NEW u \in Task, UCreate(c, u)
    PROVE  IInv'
<1>1. SchedTypeOK /\ Boot /\ Rings /\ Fresh /\ Suspended /\ Current
    BY DEF IInv
<1>2. context' = [context EXCEPT ![u] = Own]
    BY DEF UCreate, Own
<1>3. SchedTypeOK'
    BY <1>1, <1>2 DEF SchedTypeOK, UCreate, Goto, Pc, Stacks
<1>4. Boot'
    BY <1>1 DEF UCreate, Goto, Boot, CallsUcreate, K, U
<1>5. Rings'
    BY <1>1 DEF UCreate, Rings
<1>6. Fresh'
    BY <1>1 DEF SchedTypeOK, UCreate, Goto, Rings, Fresh, Creating, K
<1>7. Suspended'
    BY <1>1, <1>2 DEF SchedTypeOK, UCreate, Goto, Suspended, Executed, Scheduling
<1>8. Current'
    BY <1>1 DEF UCreate, Goto, Current, Scheduling, CallsUcreate
<1>. QED  BY <1>3, <1>4, <1>5, <1>6, <1>7, <1>8 DEF IInv

(* The ring's prev.                                                        *)
LEMMA UBackKeeps ==
    ASSUME SchedAssumption, RuntimeCreate = FALSE, IInv, NEW c \in Cpu, UBack(c)
    PROVE  IInv'
<1>1. SchedTypeOK /\ Boot /\ Rings /\ Fresh /\ Suspended /\ Current
    BY DEF IInv
<1>2. SchedTypeOK'
    BY <1>1 DEF SchedTypeOK, UBack, Goto, sched, create, Pc
<1>3. Boot'
    BY <1>1 DEF UBack, Goto, sched, create, Boot, K, U
<1>4. Rings'
    BY <1>1 DEF UBack, sched, Rings
<1>5. Fresh'
    BY <1>1 DEF UBack, Goto, sched, create, Fresh, Creating, K, U
<1>6. Suspended'
    BY <1>1 DEF UBack, Goto, sched, Suspended, Executed, Scheduling
<1>7. Current'
    BY <1>1 DEF UBack, Goto, sched, create, Current, Scheduling
<1>. QED  BY <1>2, <1>3, <1>4, <1>5, <1>6, <1>7 DEF IInv

(* The process is linked.                                                  *)
LEMMA ULinkKeeps ==
    ASSUME SchedAssumption, RuntimeCreate = FALSE, IInv, NEW c \in Cpu, ULink(c)
    PROVE  IInv'
<1>1. SchedTypeOK /\ Boot /\ Rings /\ Fresh /\ Suspended /\ Current
    BY DEF IInv
<1>2. SchedTypeOK'
    BY <1>1 DEF SchedTypeOK, ULink, Goto, sched, create, Fresh, Creating, U, Pc
<1>3. Boot'
    BY <1>1 DEF SchedTypeOK, ULink, Goto, sched, Boot, K
<1>4. Rings'
    BY <1>1 DEF SchedTypeOK, ULink, sched, Rings, Fresh, Creating, U
<1>5. Fresh'
    BY <1>1, SMTT(60) DEF SchedTypeOK, ULink, Goto, sched, Rings, Fresh, Creating, K, U
<1>6. Suspended'
    BY <1>1 DEF SchedTypeOK, ULink, Goto, sched, Rings, Fresh, Suspended, Executed,
                Scheduling, U
<1>7. Current'
    BY <1>1 DEF SchedTypeOK, ULink, Goto, sched, Current, Scheduling
<1>. QED  BY <1>2, <1>3, <1>4, <1>5, <1>6, <1>7 DEF IInv

(* The family links, which the scheduler does not read.                    *)
LEMMA ForkFamilyKeeps ==
    ASSUME SchedAssumption, RuntimeCreate = FALSE, IInv, NEW c \in Cpu, ForkFamily(c)
    PROVE  IInv'
<1>1. SchedTypeOK /\ Boot /\ Rings /\ Fresh /\ Suspended /\ Current
    BY DEF IInv
<1>2. context[curTask[c]] = Own /\ status[curTask[c]] = "RUNNING" /\ home[curTask[c]] = c
    BY <1>1 DEF ForkFamily, Current, Scheduling, Boot, Rings, K, U
<1>3. SchedTypeOK'
    BY <1>1 DEF SchedTypeOK, ForkFamily, Goto, ring, sched, Pc
<1>4. Boot'
    BY <1>1 DEF ForkFamily, Goto, Boot, K, U
<1>5. Rings'
    BY <1>1 DEF ForkFamily, ring, sched, Rings
<1>6. Fresh'
    BY <1>1 DEF ForkFamily, Goto, ring, sched, Fresh, Creating, K, U
<1>7. Suspended'
    BY <1>1, <1>2 DEF ForkFamily, Goto, ring, sched, Suspended, Executed, Scheduling
<1>8. Current'
    BY <1>1 DEF ForkFamily, Goto, sched, Current, Scheduling
<1>. QED  BY <1>3, <1>4, <1>5, <1>6, <1>7, <1>8 DEF IInv

(* A trap saves the task's own code.                                       *)
LEMMA TrapKeeps ==
    ASSUME SchedAssumption, RuntimeCreate = FALSE, IInv, NEW c \in Cpu, Trap(c)
    PROVE  IInv'
<1>1. SchedTypeOK /\ Boot /\ Rings /\ Fresh /\ Suspended /\ Current
    BY DEF IInv
<1>2. context' = [context EXCEPT ![curTask[c]] = Own]
  <2>1. currents[c] = curTask[c] /\ context[curTask[c]] = <<>>
    BY <1>1 DEF Current, Trap, Scheduling
  <2>. QED  BY <1>1, <2>1, StackFacts DEF Trap, Save, SchedTypeOK
<1>3. SchedTypeOK'
    BY <1>1, <1>2, Constants, SMTT(60) DEF SchedTypeOK, Trap, Goto, ring, create, Boot,
                                 Fresh, Current, Rings, K, U
<1>4. Boot'
    BY <1>1 DEF Trap, Goto, create, Boot, K, U
<1>5. Rings'
    BY <1>1 DEF Trap, ring, Rings
<1>6. Fresh'
    BY <1>1 DEF Trap, Goto, ring, create, Fresh, Creating, K, U
<1>7. Suspended'
    BY <1>1, <1>2 DEF Trap, Goto, ring, Rings, Suspended, Executed, Scheduling
<1>8. Current'
    BY <1>1, <1>2 DEF SchedTypeOK, Trap, Goto, create, Boot, Rings, Current,
                      Scheduling, K, U
<1>. QED  BY <1>3, <1>4, <1>5, <1>6, <1>7, <1>8 DEF IInv

(* The kernel has served the trap.                                         *)
LEMMA TrapDoneKeeps ==
    ASSUME SchedAssumption, RuntimeCreate = FALSE, IInv, NEW c \in Cpu, TrapDone(c)
    PROVE  IInv'
<1>1. SchedTypeOK /\ Boot /\ Rings /\ Fresh /\ Suspended /\ Current
    BY DEF IInv
<1>2. SchedTypeOK'
    BY <1>1 DEF SchedTypeOK, TrapDone, Goto, ring, sched, create, Pc
<1>3. Boot'
    BY <1>1 DEF TrapDone, Goto, create, Boot, K, U
<1>4. Rings'
    BY <1>1 DEF TrapDone, ring, sched, Rings
<1>5. Fresh'
    BY <1>1 DEF TrapDone, Goto, ring, sched, create, Fresh, Creating, K, U
<1>6. Suspended'
    BY <1>1, Constants, SMTT(60) DEF TrapDone, sched, Boot, Rings, Suspended, Current
<1>7. Current'
    BY <1>1 DEF TrapDone, Goto, sched, create, Current, Scheduling
<1>. QED  BY <1>2, <1>3, <1>4, <1>5, <1>6, <1>7 DEF IInv

(* exit saves its place above it, and the process is dead.                 *)
LEMMA ExitKeeps ==
    ASSUME SchedAssumption, RuntimeCreate = FALSE, IInv, NEW c \in Cpu, Exit(c)
    PROVE  IInv'
<1>1. SchedTypeOK /\ Boot /\ Rings /\ Fresh /\ Suspended /\ Current
    BY DEF IInv
<1>2. context' = [context EXCEPT ![curTask[c]] = Exited]
  <2>1. currents[c] = curTask[c] /\ context[curTask[c]] = Own
    BY <1>1 DEF Current, Exit, Scheduling, Boot, K, U
  <2>. QED  BY <1>1, <2>1, StackFacts DEF Exit, Save, SchedTypeOK
<1>3. SchedTypeOK'
    BY <1>1, <1>2 DEF SchedTypeOK, Exit, Goto, ring, create, Pc, Stacks
<1>4. Boot'
    BY <1>1 DEF Exit, Goto, create, Boot, K
<1>5. Rings'
    BY <1>1 DEF Exit, ring, Rings
<1>6. Fresh'
    BY <1>1 DEF Exit, Goto, ring, create, Rings, Fresh, Creating, K, U
<1>7. Suspended'
    BY <1>1, <1>2 DEF SchedTypeOK, Exit, Goto, ring, Suspended, Executed, Scheduling
<1>8. Current'
    BY <1>1, Constants, SMTT(60) DEF Exit, Goto, Rings, Current, K, U
<1>. QED  BY <1>3, <1>4, <1>5, <1>6, <1>7, <1>8 DEF IInv

(* sleep enters its loop.                                                  *)
LEMMA SleepCallKeeps ==
    ASSUME SchedAssumption, RuntimeCreate = FALSE, IInv, NEW c \in Cpu, SleepCall(c)
    PROVE  IInv'
<1>1. SchedTypeOK /\ Boot /\ Rings /\ Fresh /\ Suspended /\ Current
    BY DEF IInv
<1>2. SchedTypeOK'
    BY <1>1 DEF SchedTypeOK, SleepCall, Goto, ring, sched, create, Pc
<1>3. Boot'
    BY <1>1 DEF SleepCall, Goto, create, Boot, K
<1>4. Rings'
    BY <1>1 DEF SleepCall, ring, sched, Rings
<1>5. Fresh'
    BY <1>1 DEF SleepCall, Goto, ring, sched, create, Fresh, Creating, K, U
<1>6. Suspended'
    BY <1>1 DEF SleepCall, Goto, ring, sched, Suspended, Executed, Scheduling
<1>7. Current'
    BY <1>1 DEF SleepCall, Goto, sched, create, Current, Scheduling
<1>. QED  BY <1>2, <1>3, <1>4, <1>5, <1>6, <1>7 DEF IInv

(* A yield of sleep saves its place.                                       *)
LEMMA SleepYieldKeeps ==
    ASSUME SchedAssumption, RuntimeCreate = FALSE, IInv, NEW c \in Cpu, SleepYield(c)
    PROVE  IInv'
<1>1. SchedTypeOK /\ Boot /\ Rings /\ Fresh /\ Suspended /\ Current
    BY DEF IInv
<1>2. context' = [context EXCEPT ![curTask[c]] = Sleeping]
  <2>1. currents[c] = curTask[c] /\ context[curTask[c]] = Own
    BY <1>1 DEF Current, SleepYield, Scheduling, Boot, K, U
  <2>. QED  BY <1>1, <2>1, StackFacts DEF SleepYield, Save, SchedTypeOK
<1>3. SchedTypeOK'
    BY <1>1, <1>2, Constants, SMTT(60) DEF SchedTypeOK, SleepYield, Goto, ring, Boot,
                                 Current, Rings, Creating, Scheduling, U, Stacks
<1>4. Boot'
    BY <1>1 DEF SleepYield, Goto, create, Boot, K, U
<1>5. Rings'
    BY <1>1 DEF SleepYield, ring, Rings
<1>6. Fresh'
    BY <1>1 DEF SleepYield, Goto, ring, create, Fresh, Creating, K, U
<1>7. Suspended'
    BY <1>1, Constants, SMTT(60) DEF SleepYield, Goto, Boot, Rings, Suspended, Current,
                           Scheduling, K
<1>8. Current'
    BY <1>1, Constants, SMTT(60) DEF SleepYield, Goto, Rings, Current, Scheduling
<1>. QED  BY <1>3, <1>4, <1>5, <1>6, <1>7, <1>8 DEF IInv

(* sleep returns.                                                          *)
LEMMA SleepDoneKeeps ==
    ASSUME SchedAssumption, RuntimeCreate = FALSE, IInv, NEW c \in Cpu, SleepDone(c)
    PROVE  IInv'
<1>1. SchedTypeOK /\ Boot /\ Rings /\ Fresh /\ Suspended /\ Current
    BY DEF IInv
<1>2. SchedTypeOK'
    BY <1>1 DEF SchedTypeOK, SleepDone, Goto, ring, sched, create, Pc
<1>3. Boot'
    BY <1>1 DEF SleepDone, Goto, create, Boot, K, U
<1>4. Rings'
    BY <1>1 DEF SleepDone, ring, sched, Rings
<1>5. Fresh'
    BY <1>1 DEF SleepDone, Goto, ring, sched, create, Fresh, Creating, K, U
<1>6. Suspended'
    BY <1>1, Constants, SMTT(60) DEF SleepDone, sched, Boot, Rings, Suspended, Current
<1>7. Current'
    BY <1>1 DEF SleepDone, Goto, sched, create, Current, Scheduling
<1>. QED  BY <1>2, <1>3, <1>4, <1>5, <1>6, <1>7 DEF IInv

(* The scheduler looks at the next task of the ring.                       *)
LEMMA AdvanceKeeps ==
    ASSUME SchedAssumption, RuntimeCreate = FALSE, IInv, NEW c \in Cpu, Advance(c)
    PROVE  IInv'
<1>1. SchedTypeOK /\ Boot /\ Rings /\ Fresh /\ Suspended /\ Current
    BY DEF IInv
<1>2. SchedTypeOK'
    BY <1>1 DEF SchedTypeOK, Advance, Goto, ring, create, Rings, Pc
<1>3. Boot'
    BY <1>1 DEF Advance, Goto, create, Boot, K, U
<1>4. Rings'
    BY <1>1 DEF SchedTypeOK, Advance, ring, Rings
<1>5. Fresh'
    BY <1>1 DEF Advance, Goto, ring, create, Fresh, Creating, K, U
<1>6. Suspended'
    BY <1>1 DEF Advance, Goto, ring, Suspended, Executed, Scheduling
<1>7. Current'
    BY <1>1, Constants, SMTT(60) DEF Advance, Goto, Rings, Current, U
<1>. QED  BY <1>2, <1>3, <1>4, <1>5, <1>6, <1>7 DEF IInv

(* What a CPU resumes, and where (os.c:66-67).                             *)
LEMMA Resumed ==
    ASSUME SchedAssumption, IInv, NEW c \in Cpu, Switch(c)
    PROVE  \/ /\ context[curTask[c]] = Own /\ pc' = [pc EXCEPT ![c] = "run"]
              /\ context' = [context EXCEPT ![curTask[c]] = <<>>]
           \/ /\ context[curTask[c]] = Sleeping /\ pc' = [pc EXCEPT ![c] = "sleep"]
              /\ context' = [context EXCEPT ![curTask[c]] = Own]
<1>1. SchedTypeOK /\ Rings /\ Suspended /\ Current
  BY DEF IInv
<1>2. home[curTask[c]] = c /\ status[curTask[c]] = "RUNNING"
  BY <1>1 DEF Switch, Rings, Current
<1>3. context[curTask[c]] \in {Own, Sleeping}
  BY <1>1, <1>2 DEF Switch, Suspended, Executed, Scheduling, SchedTypeOK
<1>4. CASE context[curTask[c]] = Own
  BY <1>1, <1>4, StackFacts DEF Switch, Goto, SchedTypeOK
<1>5. CASE context[curTask[c]] = Sleeping
  BY <1>1, <1>5, StackFacts DEF Switch, Goto, SchedTypeOK
<1>. QED  BY <1>3, <1>4, <1>5

(* The scheduler resumes that task where its last context was saved.       *)
LEMMA SwitchKeeps ==
    ASSUME SchedAssumption, RuntimeCreate = FALSE, IInv, NEW c \in Cpu, Switch(c)
    PROVE  IInv'
<1>1. SchedTypeOK /\ Boot /\ Rings /\ Fresh /\ Suspended /\ Current
    BY DEF IInv
<1>2. booted /\ home[curTask[c]] = c /\ status[curTask[c]] = "RUNNING"
    BY <1>1 DEF Switch, Boot, Rings, Current, K, U
<1>3. \/ /\ context[curTask[c]] = Own /\ pc' = [pc EXCEPT ![c] = "run"]
         /\ context' = [context EXCEPT ![curTask[c]] = <<>>]
      \/ /\ context[curTask[c]] = Sleeping /\ pc' = [pc EXCEPT ![c] = "sleep"]
         /\ context' = [context EXCEPT ![curTask[c]] = Own]
    BY Resumed
<1>4. /\ pc[c] = "switch" /\ currents' = [currents EXCEPT ![c] = curTask[c]]
      /\ UNCHANGED <<next, home, status, curTask, cpurec, new, tgt, booted>>
    BY DEF Switch, ring, create
<1>5. SchedTypeOK'
    BY <1>1, <1>3, <1>4 DEF SchedTypeOK, U, Pc, Stacks
<1>6. Boot'
    BY <1>1, <1>2, <1>3, <1>4 DEF SchedTypeOK, Boot, K
<1>7. Rings'
    BY <1>1, <1>4 DEF Rings
<1>8. Fresh'
    BY <1>1, <1>2, <1>3, <1>4, Constants, SMTT(60) DEF Fresh
<1>9. Suspended'
    BY <1>1, <1>2, <1>3, <1>4 DEF SchedTypeOK, Suspended, Executed, Scheduling
<1>10. Current'
    BY <1>1, <1>2, <1>3, <1>4 DEF SchedTypeOK, Rings, Current, Scheduling
<1>. QED  BY <1>5, <1>6, <1>7, <1>8, <1>9, <1>10 DEF IInv

(* main calls mpe_init, and the CPUs enter os_run.                         *)
LEMMA MpeInitKeeps ==
    ASSUME SchedAssumption, IInv, MpeInit
    PROVE  IInv'
<1>1. SchedTypeOK /\ Boot /\ Rings /\ Fresh /\ Suspended /\ Current
    BY DEF IInv
<1>2. /\ ~booted /\ booted' /\ pc' = [c \in Cpu |-> "run"]
      /\ UNCHANGED <<next, home, status, context, curTask, currents, cpurec, new, tgt>>
    BY <1>1, Constants DEF MpeInit, Boot, ring, sched
<1>3. SchedTypeOK'
    BY <1>1, <1>2 DEF SchedTypeOK, Pc
<1>4. Boot' /\ Rings' /\ Fresh'
    BY <1>1, <1>2 DEF Boot, Rings, Fresh, Creating, K, U
<1>5. \A c \in Cpu : ~Scheduling(c)
    BY <1>1, <1>2 DEF Boot, Scheduling, K, U
<1>6. Suspended'
    BY <1>1, <1>2, <1>5 DEF SchedTypeOK, Suspended, Executed, Scheduling
<1>7. Current'
    BY <1>1, <1>2, <1>5 DEF SchedTypeOK, Current, Scheduling
<1>. QED  BY <1>3, <1>4, <1>6, <1>7 DEF IInv

(* A task that has been started is the idle task of a CPU at first.        *)
LEMMA InitHolds == ASSUME SchedAssumption, Init PROVE IInv
<1>1. \A t \in Idles : home[t] \in Cpu /\ IdleOf[home[t]] = t
  <2> SUFFICES ASSUME NEW t \in Idles
               PROVE  home[t] \in Cpu /\ IdleOf[home[t]] = t
    OBVIOUS
  <2>1. home[t] = CHOOSE c \in Cpu : IdleOf[c] = t
    BY DEF Init, Task
  <2>2. \E c \in Cpu : IdleOf[c] = t
    BY DEF Idles
  <2>. QED  BY <2>1, <2>2
<1>2. \A t \in Task \ Idles : home[t] = Null /\ status[t] = "unused"
  BY DEF Init
<1>3. \A t \in Idles : next[t] = t /\ status[t] = "RUNNING"
  BY DEF Init, Task
<1>4. \A c \in Cpu : IdleOf[c] \in Idles /\ home[IdleOf[c]] = c
  BY <1>1 DEF SchedAssumption
<1>5. SchedTypeOK
  <2>1. home \in [Task -> Cpu \cup {Null}] /\ next \in [Task -> Task \cup {Null}]
    BY <1>1, <1>2, <1>3 DEF Init, Task
  <2>. QED  BY <2>1, Constants DEF Init, SchedTypeOK, Pc, Stacks
<1>6. Boot
  BY DEF Init, Boot
<1>7. Rings
  BY <1>1, <1>2, <1>3, <1>4, Constants DEF Init, Rings
<1>8. Fresh
  BY Constants DEF Init, Fresh, Creating, K, U
<1>9. Suspended
  BY <1>1, <1>2, <1>4 DEF Init, Suspended, Executed, Scheduling
<1>10. Current
  BY <1>3, <1>4, Constants DEF Init, Current, Scheduling
<1>. QED  BY <1>5, <1>6, <1>7, <1>8, <1>9, <1>10 DEF IInv

(* Every step keeps the invariant.                                         *)
LEMMA StepKeeps ==
    ASSUME SchedAssumption, RuntimeCreate = FALSE, IInv, [Next]_vars
    PROVE  IInv'
<1>1. CASE UNCHANGED vars
  BY <1>1 DEF vars, IInv, SchedTypeOK, Boot, Rings, Fresh, Creating, Suspended,
              Executed,
              Current, Scheduling
<1>2. CASE MpeInit
  BY <1>2, MpeInitKeeps
<1>3. ASSUME NEW c \in Cpu, NEW t \in Task, KCreate(c, t) \/ UCreate(c, t)
      PROVE  IInv'
  BY <1>3, KCreateKeeps, UCreateKeeps
<1>4. ASSUME NEW c \in Cpu, CpuStep(c)
      PROVE  IInv'
  <2>1. CASE KGlock(c) \/ KNext(c) \/ KPrev(c) \/ KLink(c) \/ KBack(c)
    BY <2>1, KGlockKeeps, KNextKeeps, KPrevKeeps, KLinkKeeps, KBackKeeps
  <2>2. CASE UBack(c) \/ ULink(c) \/ ForkFamily(c)
    BY <2>2, UBackKeeps, ULinkKeeps, ForkFamilyKeeps
  <2>3. CASE Trap(c) \/ TrapDone(c) \/ Exit(c)
    BY <2>3, TrapKeeps, TrapDoneKeeps, ExitKeeps
  <2>4. CASE SleepCall(c) \/ SleepYield(c) \/ SleepDone(c)
    BY <2>4, SleepCallKeeps, SleepYieldKeeps, SleepDoneKeeps
  <2>5. CASE Advance(c) \/ Switch(c)
    BY <2>5, AdvanceKeeps, SwitchKeeps
  <2>. QED  BY <1>4, <2>1, <2>2, <2>3, <2>4, <2>5 DEF CpuStep
<1>. QED  BY <1>1, <1>2, <1>3, <1>4 DEF Next

(* The invariant holds in every state.                                     *)
LEMMA Invariant == ASSUME SchedAssumption, RuntimeCreate = FALSE PROVE Spec => []IInv
<1>1. Init => IInv
  BY InitHolds
<1>2. IInv /\ [Next]_vars => IInv'
  BY StepKeeps
<1>. QED  BY <1>1, <1>2, PTL DEF Spec

(* os_trap never takes context[-1], and the task that runs has nothing     *)
(* saved (os.c:44-68), for any number of CPUs, kernel threads and          *)
(* processes, as long as kcreate is not called after mpe_init.             *)
THEOREM ContextSavedHolds ==
    ASSUME SchedAssumption, RuntimeCreate = FALSE
    PROVE  Spec => []ContextSaved
<1>1. IInv => ContextSaved
  <2> SUFFICES ASSUME IInv, NEW c \in Cpu
               PROVE  /\ pc[c] = "switch" => context[curTask[c]] # <<>>
                      /\ pc[c] = "run" => currents[c] = curTask[c] /\ context[curTask[c]] = <<>>
    BY DEF ContextSaved
  <2>1. CASE pc[c] = "switch"
    <3>1. curTask[c] \in Task /\ home[curTask[c]] = c /\ status[curTask[c]] = "RUNNING"
      BY <2>1 DEF IInv, SchedTypeOK, Rings, Current
    <3>2. context[curTask[c]] \in {Own, Sleeping}
      BY <2>1, <3>1 DEF IInv, Suspended, Executed, Scheduling
    <3>. QED  BY <2>1, <3>2, StackFacts
  <2>2. CASE pc[c] = "run"
    BY <2>2 DEF IInv, Current, Scheduling
  <2>. QED  BY <2>1, <2>2
<1>. QED  BY <1>1, Invariant, PTL

(* A process that called exit never runs again: its yield does not return  *)
(* (uproc.c:59-64), and what runs is RUNNING, for any number of each, as   *)
(* long as kcreate is not called after mpe_init.                           *)
THEOREM ExitNeverReturnsHolds ==
    ASSUME SchedAssumption, RuntimeCreate = FALSE
    PROVE  Spec => []ExitNeverReturns
<1>1. IInv => ExitNeverReturns
  BY DEF IInv, SchedTypeOK, Current, Scheduling, ExitNeverReturns
<1>. QED  BY <1>1, Invariant, PTL

-----------------------------------------------------------------------------
(* The rings (kcreate and ucreate).                                        *)
(*                                                                         *)
(* That a ring is one cycle of all its tasks is stated without walking it: *)
(* a nonempty set of its tasks that next does not leave is all of them     *)
(* (OneCycle).  That prev is the inverse of next (MutualLinks) fails       *)
(* between the two last pointer writes of an insertion; Adding says what   *)
(* holds instead while a task is being added.                              *)

In(c) == {t \in Task : home[t] = c}

\* No ring falls into parts.
OneCycle ==
    \A c \in Cpu : \A S \in SUBSET In(c) :
        S # {} /\ (\A t \in S : next[t] \in S) => S = In(c)

PrevInverse(t) == prev[next[t]] = t
NextInverse(c, t) == prev[t] \in In(c) /\ next[prev[t]] = t

\* In a ring that no insertion has half done, prev is the inverse of next.
MutualLinks ==
    \A c \in Cpu : ~Inserting(c) => \A t \in In(c) : PrevInverse(t) /\ NextInverse(c, t)

\* What the task being created points to, and which inverses do not hold yet.
AddingBy(c) ==
    /\ pc[c] \in {"k_prev", "k_link"} => next[new[c]] = next[currents[tgt[c]]]
    /\ pc[c] = "k_link" => prev[new[c]] = currents[tgt[c]]
    /\ pc[c] = "k_back" =>
           /\ new[c] \in In(tgt[c]) /\ next[new[c]] # new[c]
           /\ prev[new[c]] = currents[tgt[c]] /\ next[currents[tgt[c]]] = new[c]
           /\ prev[next[new[c]]] = currents[tgt[c]]
           /\ \A t \in In(tgt[c]) :
                  /\ t # new[c] => PrevInverse(t)
                  /\ t # next[new[c]] => NextInverse(tgt[c], t)
    /\ pc[c] \in U => next[new[c]] = next[curTask[c]] /\ prev[new[c]] = curTask[c]
    /\ pc[c] = "u_link" =>
           /\ prev[next[new[c]]] = new[c]
           /\ \A t \in In(c) :
                  /\ t # curTask[c] => PrevInverse(t)
                  /\ t # next[new[c]] => NextInverse(c, t)

Adding == \A c \in Cpu : AddingBy(c)

RingInv ==
    /\ prev \in [Task -> Task \cup {Null}]
    /\ OneCycle /\ MutualLinks /\ Adding

(* A ring stays a cycle when a task is put behind one of its tasks.        *)
LEMMA RingGrows ==
    ASSUME OneCycle, NEW c \in Cpu, NEW p \in In(c), NEW n, n \notin In(c),
           \A t \in In(c) : next[t] \in In(c),
           \A t \in In(c) \ {p} : next'[t] = next[t],
           next'[p] = n, next'[n] = next[p], In(c)' = In(c) \cup {n}
    PROVE  \A S \in SUBSET In(c)' : S # {} /\ (\A t \in S : next'[t] \in S) => S = In(c)'
<1> SUFFICES ASSUME NEW S \in SUBSET (In(c) \cup {n}), S # {}, \A t \in S : next'[t] \in S
             PROVE  S = In(c) \cup {n}
  OBVIOUS
<1>1. \A t \in S \ {n} : next[t] \in S \ {n}
  <2> SUFFICES ASSUME NEW t \in S \ {n} PROVE next[t] \in S \ {n}
    OBVIOUS
  <2>1. CASE t = p
    <3>1. n \in S
      BY <2>1
    <3>. QED  BY <2>1, <3>1
  <2>2. CASE t # p
    BY <2>2
  <2>. QED  BY <2>1, <2>2
<1>2. S \ {n} # {}
  <2>1. ASSUME S \ {n} = {} PROVE FALSE
    <3>1. n \in S /\ next[p] \in S /\ next[p] \in In(c)
      BY <2>1
    <3>. QED  BY <2>1, <3>1
  <2>. QED  BY <2>1
<1>3. S \ {n} = In(c)
  BY <1>1, <1>2 DEF OneCycle
<1>4. n \in S
  BY <1>3
<1>. QED  BY <1>3, <1>4

(* What every ring has, whatever is under way.                             *)
LEMMA RingFacts ==
    ASSUME SchedAssumption, IInv
    PROVE  /\ \A c \in Cpu : curTask[c] \in In(c) /\ currents[c] \in In(c)
           /\ \A c \in Cpu : \A t \in In(c) : next[t] \in In(c) /\ t \in Task
           /\ \A c, d \in Cpu : \A t \in In(c) : t \in In(d) => c = d
           /\ \A c, d \in Cpu : Creating(c) => new[c] \in Task /\ new[c] \notin In(d)
           /\ \A c, d \in Cpu : c # d /\ Creating(c) /\ Creating(d) => new[c] # new[d]
           /\ \A c, d \in Cpu : pc[c] \in K => d = c \/ pc[d] = "off"
<1>1. SchedTypeOK /\ Boot /\ Rings /\ Fresh
  BY DEF IInv
<1>. QED  BY <1>1, Constants DEF SchedTypeOK, Boot, Rings, Fresh, In, K, U

(* Steps that leave the pointers alone, and begin or end no insertion.     *)
LEMMA Untouched ==
    ASSUME SchedAssumption, IInv, RingInv, NEW c \in Cpu, NEW p,
           p \notin {"k_prev", "k_link", "k_back", "u_back", "u_link"},
           pc[c] \notin {"k_back", "u_link"}, pc' = [pc EXCEPT ![c] = p],
           UNCHANGED <<next, prev, home>>,
           \A d \in Cpu \ {c} : new'[d] = new[d] /\ tgt'[d] = tgt[d] /\ curTask'[d] = curTask[d],
           booted \/ currents' = currents
    PROVE  RingInv'
<1>1. SchedTypeOK /\ Boot
  BY DEF IInv
<1>2. \A d \in Cpu : pc'[d] = (IF d = c THEN p ELSE pc[d])
  BY <1>1 DEF SchedTypeOK
<1>3. \A d \in Cpu : In(d)' = In(d) /\ (Inserting(d)' <=> Inserting(d))
  <2>1. \A d \in Cpu : In(d)' = In(d)
    BY DEF In
  <2>2. \A d \in Cpu : pc[d] = "k_back" => tgt'[d] = tgt[d]
    OBVIOUS
  <2>. QED  BY <1>2, <2>1, <2>2 DEF Inserting
<1>4. OneCycle'
  BY <1>3 DEF RingInv, OneCycle
<1>5. MutualLinks'
  BY <1>3 DEF RingInv, MutualLinks, PrevInverse, NextInverse
<1>6. ASSUME NEW d \in Cpu PROVE AddingBy(d)'
  <2>1. CASE d = c
    BY <1>2, <2>1 DEF AddingBy, U
  <2>2. CASE d # c
    <3>1. pc'[d] = pc[d] /\ new'[d] = new[d] /\ tgt'[d] = tgt[d] /\ curTask'[d] = curTask[d]
      BY <1>2, <2>2
    <3>2. pc[d] \in K => currents' = currents
      BY <1>1 DEF Boot
    <3>3. AddingBy(d)
      BY DEF RingInv, Adding
    <3>. QED  BY <3>1, <3>2, <3>3 DEF AddingBy, PrevInverse, NextInverse, In, K
  <2>. QED  BY <2>1, <2>2
<1>. QED  BY <1>4, <1>5, <1>6 DEF RingInv, Adding

(* All actions but those that write next or prev are of this kind.         *)
LEMMA QuietKeeps ==
    ASSUME SchedAssumption, IInv, RingInv, NEW c \in Cpu,
           \/ \E t \in Task : KCreate(c, t)
           \/ KGlock(c) \/ ForkFamily(c) \/ Trap(c) \/ TrapDone(c) \/ Exit(c)
           \/ SleepCall(c) \/ SleepYield(c) \/ SleepDone(c) \/ Advance(c) \/ Switch(c)
    PROVE  RingInv'
<1>1. SchedTypeOK /\ Boot
  BY DEF IInv
<1>2. CASE \E t \in Task : KCreate(c, t)
  <2>1. /\ pc[c] \in {"boot", "run"} /\ pc' = [pc EXCEPT ![c] = "k_glock"]
        /\ UNCHANGED <<next, prev, home, tgt, curTask, currents>>
        /\ \A d \in Cpu \ {c} : new'[d] = new[d]
    BY <1>1, <1>2 DEF KCreate, Goto, ring, SchedTypeOK
  <2>. QED  BY <2>1, Untouched
<1>3. CASE KGlock(c)
  <2>1. /\ pc[c] = "k_glock" /\ pc' = [pc EXCEPT ![c] = "k_next"]
        /\ UNCHANGED <<next, prev, home, new, curTask, currents>>
        /\ \A d \in Cpu \ {c} : tgt'[d] = tgt[d]
    BY <1>1, <1>3 DEF KGlock, Goto, ring, sched, SchedTypeOK
  <2>. QED  BY <2>1, Untouched
<1>4. CASE ForkFamily(c)
  <2>1. /\ pc[c] = "fork" /\ pc' = [pc EXCEPT ![c] = "sched"]
        /\ UNCHANGED <<next, prev, home, tgt, curTask, currents>>
        /\ \A d \in Cpu \ {c} : new'[d] = new[d]
    BY <1>1, <1>4 DEF ForkFamily, Goto, ring, sched, SchedTypeOK
  <2>. QED  BY <2>1, Untouched
<1>5. CASE Trap(c) \/ TrapDone(c) \/ Exit(c) \/ SleepCall(c) \/ SleepYield(c) \/ SleepDone(c)
  <2>1. \E p \in {"trap", "sched", "sleep"} :
            /\ pc[c] \in {"run", "trap", "sleep"} /\ pc' = [pc EXCEPT ![c] = p]
            /\ UNCHANGED <<next, prev, home, new, tgt, curTask, currents>>
    BY <1>5 DEF Trap, TrapDone, Exit, SleepCall, SleepYield, SleepDone, Goto, ring,
                sched, create
  <2>. QED  BY <2>1, Untouched
<1>6. CASE Advance(c)
  <2>1. \E p \in {"sched", "switch"} :
            /\ pc[c] = "sched" /\ pc' = [pc EXCEPT ![c] = p]
            /\ UNCHANGED <<next, prev, home, new, tgt, currents>>
            /\ \A d \in Cpu \ {c} : curTask'[d] = curTask[d]
    BY <1>1, <1>6 DEF Advance, Goto, ring, create, SchedTypeOK
  <2>. QED  BY <2>1, Untouched
<1>7. CASE Switch(c)
  <2>1. booted /\ pc[c] = "switch"
    BY <1>1, <1>7 DEF Switch, Boot, K, U
  <2>2. \E p \in {"run", "sleep"} : pc' = [pc EXCEPT ![c] = p]
    BY <1>7, Resumed
  <2>3. UNCHANGED <<next, prev, home, new, tgt, curTask>>
    BY <1>7 DEF Switch, ring, create
  <2>. QED  BY <2>1, <2>2, <2>3, Untouched
<1>. QED  BY <1>2, <1>3, <1>4, <1>5, <1>6, <1>7

(* task->next = currents[cpu]->next: of a task in no ring.                 *)
LEMMA KNextRing ==
    ASSUME SchedAssumption, IInv, RingInv, NEW c \in Cpu, KNext(c)
    PROVE  RingInv'
<1>1. SchedTypeOK /\ Fresh /\ OneCycle /\ MutualLinks /\ Adding
  BY DEF IInv, RingInv
<1>2. /\ new[c] \in Task /\ \A d \in Cpu : new[c] \notin In(d)
      /\ tgt[c] \in Cpu /\ currents[tgt[c]] \in In(tgt[c])
      /\ \A d \in Cpu : d = c \/ pc[d] = "off"
  BY <1>1, RingFacts DEF KNext, Fresh, Creating, K
<1>3. /\ \A d \in Cpu : pc'[d] = IF d = c THEN "k_prev" ELSE pc[d]
      /\ \A t \in Task : next'[t] = IF t = new[c] THEN next[currents[tgt[c]]] ELSE next[t]
      /\ \A t : t # new[c] => next'[t] = next[t]
      /\ UNCHANGED <<prev, home, new, tgt, curTask, currents>>
  BY <1>1 DEF KNext, Goto, sched, create, SchedTypeOK
<1>4. \A d \in Cpu : In(d)' = In(d) /\ ~Inserting(d) /\ ~Inserting(d)'
  BY <1>2, <1>3 DEF KNext, In, Inserting
<1>5. OneCycle'
  BY <1>1, <1>2, <1>3, <1>4 DEF OneCycle
<1>6. MutualLinks'
  BY <1>1, <1>2, <1>3, <1>4 DEF MutualLinks, PrevInverse, NextInverse
<1>7. Adding'
  BY <1>2, <1>3 DEF Adding, AddingBy, U, In
<1>. QED  BY <1>3, <1>5, <1>6, <1>7 DEF RingInv

(* task->prev = currents[cpu]: likewise.                                   *)
LEMMA KPrevRing ==
    ASSUME SchedAssumption, IInv, RingInv, NEW c \in Cpu, KPrev(c)
    PROVE  RingInv'
<1>1. SchedTypeOK /\ Fresh /\ OneCycle /\ MutualLinks /\ Adding
  BY DEF IInv, RingInv
<1>2. /\ new[c] \in Task /\ \A d \in Cpu : new[c] \notin In(d)
      /\ tgt[c] \in Cpu /\ currents[tgt[c]] \in In(tgt[c])
      /\ \A d \in Cpu : d = c \/ pc[d] = "off"
  BY <1>1, RingFacts DEF KPrev, Fresh, Creating, K
<1>3. /\ \A d \in Cpu : pc'[d] = IF d = c THEN "k_link" ELSE pc[d]
      /\ prev' = [prev EXCEPT ![new[c]] = currents[tgt[c]]]
      /\ UNCHANGED <<next, home, new, tgt, curTask, currents>>
  BY <1>1 DEF KPrev, Goto, sched, create, SchedTypeOK
<1>4. \A d \in Cpu : In(d)' = In(d) /\ ~Inserting(d) /\ ~Inserting(d)'
  BY <1>2, <1>3 DEF KPrev, In, Inserting
<1>5. prev' \in [Task -> Task \cup {Null}]
  BY <1>1, <1>2, <1>3 DEF RingInv, SchedTypeOK
<1>6. OneCycle'
  BY <1>1, <1>3, <1>4 DEF OneCycle
<1>7. MutualLinks'
  BY <1>1, <1>2, <1>3, <1>4, RingFacts DEF MutualLinks, PrevInverse, NextInverse,
                                           RingInv
<1>8. Adding'
  BY <1>1, <1>2, <1>3 DEF Adding, AddingBy, U, In, RingInv, KPrev
<1>. QED  BY <1>5, <1>6, <1>7, <1>8 DEF RingInv

(* currents[cpu]->next = task: the ring is a cycle with the new task in    *)
(* it, and prev of what follows that task still skips it.                  *)
LEMMA KLinkRing ==
    ASSUME SchedAssumption, IInv, RingInv, NEW c \in Cpu, KLink(c)
    PROVE  RingInv'
<1>1. SchedTypeOK /\ Fresh /\ OneCycle /\ MutualLinks /\ Adding
  BY DEF IInv, RingInv
<1>2. PICK r \in Cpu, n \in Task, p \in Task :
         /\ r = tgt[c] /\ n = new[c] /\ p = currents[r]
         /\ p \in In(r) /\ p # n /\ next[n] = next[p] /\ next[p] \in In(r) /\ prev[n] = p
         /\ \A d \in Cpu : n \notin In(d)
         /\ \A d \in Cpu : d = c \/ pc[d] = "off"
         /\ pc[c] = "k_link"
  BY <1>1, RingFacts DEF KLink, Fresh, Creating, K, Adding, AddingBy
<1>3. /\ \A d \in Cpu : pc'[d] = IF d = c THEN "k_back" ELSE pc[d]
      /\ \A t \in Task : next'[t] = IF t = p THEN n ELSE next[t]
      /\ home' = [home EXCEPT ![n] = r]
      /\ UNCHANGED <<prev, new, tgt, curTask, currents>>
  BY <1>1, <1>2 DEF KLink, Goto, sched, create, SchedTypeOK
<1>4. \A d \in Cpu : In(d)' = (IF d = r THEN In(r) \cup {n} ELSE In(d))
  BY <1>1, <1>2, <1>3 DEF In, SchedTypeOK
<1>5. \A d \in Cpu : ~Inserting(d) /\ (Inserting(d)' <=> d = r)
  BY <1>2, <1>3 DEF Inserting
<1>6. OneCycle'
  <2> SUFFICES ASSUME NEW d \in Cpu, NEW S \in SUBSET In(d)', S # {}, \A t \in S : next'[t] \in S
               PROVE  S = In(d)'
    BY DEF OneCycle
  <2>1. CASE d = r
    <3>1. /\ p \in In(r) /\ n \notin In(r)
          /\ \A t \in In(r) : next[t] \in In(r)
          /\ \A t \in In(r) \ {p} : next'[t] = next[t]
          /\ next'[p] = n /\ next'[n] = next[p] /\ In(r)' = In(r) \cup {n}
      BY <1>2, <1>3, <1>4, RingFacts DEF In
    <3>. QED  BY <1>1, <2>1, <3>1, RingGrows
  <2>2. CASE d # r
    BY <1>1, <1>2, <1>3, <1>4, <2>2, RingFacts DEF OneCycle
  <2>. QED  BY <2>1, <2>2
<1>7. MutualLinks'
  <2> SUFFICES ASSUME NEW d \in Cpu, d # r, NEW t \in In(d)
               PROVE  PrevInverse(t)' /\ NextInverse(d, t)'
    BY <1>4, <1>5 DEF MutualLinks
  <2>1. PrevInverse(t) /\ NextInverse(d, t) /\ t # p /\ prev[t] # p /\ t \in Task /\ prev[t] \in Task
    BY <1>1, <1>2, <1>5, RingFacts DEF MutualLinks, NextInverse, In
  <2>. QED  BY <1>3, <1>4, <2>1 DEF PrevInverse, NextInverse
<1>8. AddingBy(c)'
  <2>1. /\ n \in In(r)' /\ next'[n] = next[p] /\ next[p] # n
        /\ prev'[n] = p /\ next'[p] = n
    BY <1>2, <1>3, <1>4
  <2>2. \A t \in In(r)' : t # n => PrevInverse(t)'
    <3> SUFFICES ASSUME NEW t \in In(r) PROVE PrevInverse(t)'
      BY <1>4
    <3>1. PrevInverse(t) /\ t \in Task
      BY <1>1, <1>2, <1>5, RingFacts DEF MutualLinks
    <3>. QED  BY <1>2, <1>3, <3>1 DEF PrevInverse
  <2>3. \A t \in In(r)' : t # next[p] => NextInverse(r, t)'
    <3> SUFFICES ASSUME NEW t \in In(r)', t # next[p] PROVE NextInverse(r, t)'
      OBVIOUS
    <3>1. CASE t = n
      BY <1>2, <1>3, <1>4, <3>1 DEF NextInverse
    <3>2. CASE t # n
      <4>1. t \in In(r) /\ NextInverse(r, t) /\ prev[t] \in Task
        BY <1>1, <1>2, <1>4, <1>5, <3>2 DEF MutualLinks, NextInverse, In
      <4>2. prev[t] # p
        BY <4>1 DEF NextInverse
      <4>. QED  BY <1>3, <1>4, <4>1, <4>2 DEF NextInverse
    <3>. QED  BY <3>1, <3>2
  <2>4. prev'[next'[n]] = p
    BY <1>1, <1>2, <1>3, <1>5 DEF MutualLinks, PrevInverse
  <2>. QED  BY <1>2, <1>3, <2>1, <2>2, <2>3, <2>4 DEF AddingBy, U
<1>9. \A d \in Cpu : d # c => AddingBy(d)'
  BY <1>2, <1>3 DEF AddingBy, U
<1>. QED  BY <1>1, <1>3, <1>6, <1>7, <1>8, <1>9 DEF RingInv, Adding

(* task->next->prev = task: prev is the inverse of next again.             *)
LEMMA KBackRing ==
    ASSUME SchedAssumption, IInv, RingInv, NEW c \in Cpu, KBack(c)
    PROVE  RingInv'
<1>1. SchedTypeOK /\ Boot /\ Fresh /\ OneCycle /\ MutualLinks /\ Adding
  BY DEF IInv, RingInv
<1>2. PICK r \in Cpu, n \in Task, x \in Task :
         /\ r = tgt[c] /\ n = new[c] /\ x = next[n] /\ pc[c] = "k_back"
         /\ n \in In(r) /\ x \in In(r) /\ x # n /\ next[prev[x]] = n
         /\ \A t \in In(r) : t # n => PrevInverse(t)
         /\ \A t \in In(r) : t # x => NextInverse(r, t)
  <2>1. tgt[c] \in Cpu
    BY <1>1 DEF KBack, Fresh, K
  <2>2. new[c] \in In(tgt[c]) /\ next[new[c]] \in In(tgt[c])
    BY <1>1, <2>1, RingFacts DEF KBack, Adding, AddingBy
  <2>. QED  BY <1>1, <2>1, <2>2 DEF KBack, Adding, AddingBy, In
<1>3. ~booted /\ \A d \in Cpu : d = c \/ pc[d] = "off"
  BY <1>1, <1>2, RingFacts DEF Boot, K
<1>4. /\ \A d \in Cpu : pc'[d] = IF d = c THEN "boot" ELSE pc[d]
      /\ \A t \in Task : prev'[t] = IF t = x THEN n ELSE prev[t]
      /\ prev' \in [Task -> Task \cup {Null}]
      /\ UNCHANGED <<next, home, curTask, currents>>
  BY <1>1, <1>2, <1>3 DEF KBack, Goto, sched, SchedTypeOK, RingInv
<1>5. \A d \in Cpu : In(d)' = In(d) /\ ~Inserting(d)' /\ (Inserting(d) <=> d = r)
  BY <1>2, <1>3, <1>4 DEF KBack, In, Inserting
<1>6. OneCycle'
  BY <1>1, <1>4, <1>5 DEF OneCycle
<1>7. MutualLinks'
  <2> SUFFICES ASSUME NEW d \in Cpu, NEW t \in In(d)
               PROVE  PrevInverse(t)' /\ NextInverse(d, t)'
    BY <1>5 DEF MutualLinks
  <2>0. t \in Task /\ next[t] \in In(d) /\ next[t] \in Task
    BY RingFacts DEF In
  <2>1. CASE d # r
    <3>1. PrevInverse(t) /\ NextInverse(d, t) /\ t # x /\ next[t] # x
      BY <1>1, <1>2, <1>5, <2>0, <2>1, RingFacts DEF MutualLinks
    <3>. QED  BY <1>4, <1>5, <2>0, <3>1 DEF PrevInverse, NextInverse
  <2>2. CASE d = r
    <3>1. PrevInverse(t)'
      <4>1. CASE t = n
        BY <1>2, <1>4, <2>0, <4>1 DEF PrevInverse
      <4>2. CASE t # n
        <5>1. prev[next[t]] = t
          BY <1>2, <2>2, <4>2 DEF PrevInverse
        <5>2. next[t] # x
          BY <1>2, <4>2, <5>1
        <5>. QED  BY <1>4, <2>0, <5>1, <5>2 DEF PrevInverse
      <4>. QED  BY <4>1, <4>2
    <3>2. NextInverse(d, t)'
      BY <1>2, <1>4, <1>5, <2>0, <2>2 DEF NextInverse
    <3>. QED  BY <3>1, <3>2
  <2>. QED  BY <2>1, <2>2
<1>8. Adding'
  BY <1>3, <1>4 DEF Adding, AddingBy, U
<1>. QED  BY <1>4, <1>6, <1>7, <1>8 DEF RingInv

(* ucreate sets the pointers of a process that is in no ring.              *)
LEMMA UCreateRing ==
    ASSUME SchedAssumption, IInv, RingInv, NEW c \in Cpu, NEW u \in Task, UCreate(c, u)
    PROVE  RingInv'
<1>1. SchedTypeOK /\ Boot /\ Rings /\ Fresh /\ OneCycle /\ MutualLinks /\ Adding
  BY DEF IInv, RingInv
<1>2. PICK p \in Task :
         /\ p = curTask[c] /\ p \in In(c) /\ p # u /\ next[p] \in Task
         /\ \A d \in Cpu : u \notin In(d)
         /\ \A d \in Cpu : Creating(d) => new[d] # u
         /\ pc[c] \in {"trap", "boot"}
  <2>1. status[u] = "unused" /\ home[u] = Null /\ pc[c] \in {"trap", "boot"}
    BY <1>1 DEF UCreate, CallsUcreate, Rings
  <2>2. curTask[c] \in In(c) /\ next[curTask[c]] \in Task /\ \A d \in Cpu : u \notin In(d)
    BY <2>1, Constants, RingFacts DEF In
  <2>3. \A d \in Cpu : Creating(d) => new[d] # u
    BY <1>1, <2>1 DEF Fresh
  <2>. QED  BY <2>1, <2>2, <2>3 DEF In
<1>3. /\ \A d \in Cpu : pc'[d] = IF d = c THEN "u_back" ELSE pc[d]
      /\ \A d \in Cpu : new'[d] = IF d = c THEN u ELSE new[d]
      /\ \A t \in Task : next'[t] = IF t = u THEN next[p] ELSE next[t]
      /\ \A t \in Task : prev'[t] = IF t = u THEN p ELSE prev[t]
      /\ prev' \in [Task -> Task \cup {Null}]
      /\ UNCHANGED <<home, tgt, curTask, currents>>
  BY <1>1, <1>2 DEF UCreate, Goto, SchedTypeOK, RingInv
<1>4. \A d \in Cpu : In(d)' = In(d) /\ (Inserting(d)' <=> Inserting(d))
  BY <1>2, <1>3 DEF In, Inserting
<1>5. OneCycle'
  <2>1. \A d \in Cpu : \A t \in In(d) : next'[t] = next[t]
    BY <1>2, <1>3 DEF In
  <2>. QED  BY <1>1, <1>4, <2>1 DEF OneCycle
<1>6. \A d \in Cpu : \A t \in In(d) :
          /\ PrevInverse(t) => PrevInverse(t)'
          /\ NextInverse(d, t) => NextInverse(d, t)'
  <2> SUFFICES ASSUME NEW d \in Cpu, NEW t \in In(d)
               PROVE  /\ PrevInverse(t) => PrevInverse(t)'
                      /\ NextInverse(d, t) => NextInverse(d, t)'
    OBVIOUS
  <2>1. t \in Task /\ next[t] \in Task /\ t # u /\ next[t] # u
    BY <1>2, RingFacts DEF In
  <2>. QED  BY <1>2, <1>3, <1>4, <2>1 DEF PrevInverse, NextInverse, In
<1>7. MutualLinks'
  BY <1>1, <1>4, <1>6 DEF MutualLinks
<1>8. AddingBy(c)'
  BY <1>2, <1>3 DEF AddingBy, U
<1>9. ASSUME NEW d \in Cpu, d # c PROVE AddingBy(d)'
  <2>1. pc[d] \notin K
    BY <1>2, <1>9, RingFacts
  <2>2. CASE pc[d] \in U
    <3>1. /\ new[d] \in Task /\ new[d] # u /\ curTask[d] \in In(d) /\ curTask[d] # u
          /\ next[new[d]] \in Task /\ next[new[d]] # u
      BY <1>1, <1>2, <2>2, RingFacts DEF Fresh, Creating, Adding, AddingBy, In
    <3>2. /\ next'[new'[d]] = next[new[d]] /\ prev'[new'[d]] = prev[new[d]]
          /\ next'[curTask'[d]] = next[curTask[d]] /\ prev'[next'[new'[d]]] = prev[next[new[d]]]
          /\ pc'[d] = pc[d] /\ curTask'[d] = curTask[d] /\ new'[d] = new[d]
      BY <1>3, <1>9, <3>1 DEF In
    <3>3. AddingBy(d)
      BY <1>1 DEF Adding
    <3>. QED  BY <1>4, <1>6, <2>1, <2>2, <3>2, <3>3 DEF AddingBy, K
  <2>3. CASE pc[d] \notin U
    BY <1>3, <1>9, <2>1, <2>3 DEF AddingBy, K, U
  <2>. QED  BY <2>2, <2>3
<1>. QED  BY <1>3, <1>5, <1>7, <1>8, <1>9 DEF RingInv, Adding

(* curTask->next->prev = uproc: prev is ahead of next.                     *)
LEMMA UBackRing ==
    ASSUME SchedAssumption, IInv, RingInv, NEW c \in Cpu, UBack(c)
    PROVE  RingInv'
<1>1. SchedTypeOK /\ Boot /\ Rings /\ Fresh /\ OneCycle /\ MutualLinks /\ Adding
  BY DEF IInv, RingInv
<1>2. PICK n \in Task, p \in Task, x \in Task :
         /\ n = new[c] /\ p = curTask[c] /\ x = next[p] /\ pc[c] = "u_back"
         /\ next[n] = x /\ prev[n] = p /\ p \in In(c) /\ x \in In(c) /\ n # x /\ n # p
         /\ \A d \in Cpu : n \notin In(d)
  BY <1>1, RingFacts DEF UBack, Fresh, Creating, U, Adding, AddingBy, In
<1>3. /\ \A d \in Cpu : pc'[d] = IF d = c THEN "u_link" ELSE pc[d]
      /\ \A t \in Task : prev'[t] = IF t = x THEN n ELSE prev[t]
      /\ prev' \in [Task -> Task \cup {Null}]
      /\ UNCHANGED <<next, home, new, tgt, curTask, currents>>
  BY <1>1, <1>2 DEF UBack, Goto, sched, create, SchedTypeOK, RingInv
<1>4. \A d \in Cpu : In(d)' = In(d) /\ (d # c => (Inserting(d)' <=> Inserting(d)))
  BY <1>2, <1>3 DEF In, Inserting
<1>5. ~Inserting(c)
  BY <1>2, RingFacts DEF Inserting, K
<1>6. OneCycle'
  BY <1>1, <1>3, <1>4 DEF OneCycle
<1>7. \A d \in Cpu \ {c} : \A t \in In(d) :
          /\ PrevInverse(t) => PrevInverse(t)'
          /\ NextInverse(d, t) => NextInverse(d, t)'
  <2> SUFFICES ASSUME NEW d \in Cpu \ {c}, NEW t \in In(d)
               PROVE  /\ PrevInverse(t) => PrevInverse(t)'
                      /\ NextInverse(d, t) => NextInverse(d, t)'
    OBVIOUS
  <2>1. t \in Task /\ next[t] \in Task /\ t # x /\ next[t] # x
    BY <1>2, RingFacts DEF In
  <2>. QED  BY <1>3, <1>4, <2>1 DEF PrevInverse, NextInverse
<1>8. MutualLinks'
  <2>1. Inserting(c)'
    BY <1>3 DEF Inserting
  <2>. QED  BY <1>1, <1>4, <1>7, <2>1 DEF MutualLinks
<1>9. AddingBy(c)'
  <2>1. \A t \in In(c) : t # p => PrevInverse(t)'
    <3> SUFFICES ASSUME NEW t \in In(c), t # p PROVE PrevInverse(t)'
      OBVIOUS
    <3>1. prev[next[t]] = t /\ prev[x] = p /\ next[t] \in Task
      BY <1>1, <1>2, <1>5, RingFacts DEF MutualLinks, PrevInverse, In
    <3>. QED  BY <1>3, <3>1 DEF PrevInverse
  <2>2. \A t \in In(c) : t # x => NextInverse(c, t)'
    <3> SUFFICES ASSUME NEW t \in In(c), t # x PROVE NextInverse(c, t)'
      OBVIOUS
    <3>1. NextInverse(c, t) /\ t \in Task
      BY <1>1, <1>5 DEF MutualLinks, In
    <3>. QED  BY <1>3, <1>4, <3>1 DEF NextInverse
  <2>. QED  BY <1>2, <1>3, <1>4, <2>1, <2>2 DEF AddingBy, U
<1>10. ASSUME NEW d \in Cpu, d # c PROVE AddingBy(d)'
  <2>1. pc[d] \notin K
    BY <1>2, <1>10, RingFacts
  <2>2. CASE pc[d] \in U
    <3>1. new[d] \in Task /\ new[d] # x /\ next[new[d]] \in Task /\ next[new[d]] # x
      BY <1>1, <1>2, <1>10, <2>2, RingFacts DEF Fresh, Creating, Adding, AddingBy, In
    <3>2. /\ prev'[new'[d]] = prev[new[d]] /\ prev'[next'[new'[d]]] = prev[next[new[d]]]
          /\ pc'[d] = pc[d]
      BY <1>3, <1>10, <3>1
    <3>3. AddingBy(d)
      BY <1>1 DEF Adding
    <3>. QED  BY <1>3, <1>4, <1>7, <1>10, <2>1, <2>2, <3>2, <3>3 DEF AddingBy, K
  <2>3. CASE pc[d] \notin U
    BY <1>3, <1>10, <2>1, <2>3 DEF AddingBy, K, U
  <2>. QED  BY <2>2, <2>3
<1>. QED  BY <1>3, <1>6, <1>8, <1>9, <1>10 DEF RingInv, Adding

(* curTask->next = uproc: the ring is a cycle with the process in it.      *)
LEMMA ULinkRing ==
    ASSUME SchedAssumption, IInv, RingInv, NEW c \in Cpu, ULink(c)
    PROVE  RingInv'
<1>1. SchedTypeOK /\ Boot /\ Rings /\ Fresh /\ OneCycle /\ MutualLinks /\ Adding
  BY DEF IInv, RingInv
<1>2. PICK n \in Task, p \in Task, x \in Task :
         /\ n = new[c] /\ p = curTask[c] /\ x = next[p] /\ pc[c] = "u_link"
         /\ next[n] = x /\ prev[n] = p /\ p \in In(c) /\ x \in In(c) /\ n # x /\ n # p
         /\ prev[x] = n
         /\ \A d \in Cpu : n \notin In(d)
         /\ \A t \in In(c) : t # p => PrevInverse(t)
         /\ \A t \in In(c) : t # x => NextInverse(c, t)
  <2>1. /\ new[c] \in Task /\ curTask[c] \in In(c) /\ next[curTask[c]] \in In(c)
        /\ \A d \in Cpu : new[c] \notin In(d)
    BY <1>1, RingFacts DEF ULink, Fresh, Creating, U
  <2>. QED  BY <1>1, <2>1 DEF ULink, Adding, AddingBy, U, In
<1>3. /\ \E q \in {"fork", "boot"} : \A d \in Cpu : pc'[d] = IF d = c THEN q ELSE pc[d]
      /\ \A t \in Task : next'[t] = IF t = p THEN n ELSE next[t]
      /\ home' = [home EXCEPT ![n] = c]
      /\ \A d \in Cpu \ {c} : new'[d] = new[d]
      /\ UNCHANGED <<prev, tgt, curTask, currents>>
  BY <1>1, <1>2 DEF ULink, Goto, sched, SchedTypeOK
<1>4. \A d \in Cpu : In(d)' = (IF d = c THEN In(c) \cup {n} ELSE In(d))
  BY <1>1, <1>2, <1>3 DEF In, SchedTypeOK
<1>5. ~Inserting(c)' /\ \A d \in Cpu : d # c => (Inserting(d)' <=> Inserting(d))
  <2>1. \A d \in Cpu : pc[d] \notin K
    BY <1>2, RingFacts DEF K
  <2>. QED  BY <1>2, <1>3, <2>1 DEF Inserting, K
<1>6. OneCycle'
  <2> SUFFICES ASSUME NEW d \in Cpu, NEW S \in SUBSET In(d)', S # {}, \A t \in S : next'[t] \in S
               PROVE  S = In(d)'
    BY DEF OneCycle
  <2>1. CASE d = c
    <3>1. /\ p \in In(c) /\ n \notin In(c)
          /\ \A t \in In(c) : next[t] \in In(c)
          /\ \A t \in In(c) \ {p} : next'[t] = next[t]
          /\ next'[p] = n /\ next'[n] = next[p] /\ In(c)' = In(c) \cup {n}
      BY <1>2, <1>3, <1>4, RingFacts DEF In
    <3>. QED  BY <1>1, <2>1, <3>1, RingGrows
  <2>2. CASE d # c
    BY <1>1, <1>2, <1>3, <1>4, <2>2, RingFacts DEF OneCycle
  <2>. QED  BY <2>1, <2>2
<1>7. \A d \in Cpu \ {c} : \A t \in In(d) :
          /\ PrevInverse(t) => PrevInverse(t)'
          /\ NextInverse(d, t) => NextInverse(d, t)'
  <2> SUFFICES ASSUME NEW d \in Cpu \ {c}, NEW t \in In(d)
               PROVE  /\ PrevInverse(t) => PrevInverse(t)'
                      /\ NextInverse(d, t) => NextInverse(d, t)'
    OBVIOUS
  <2>1. t \in Task /\ t # p /\ p \notin In(d)
    BY <1>2, RingFacts DEF In
  <2>. QED  BY <1>3, <1>4, <2>1 DEF PrevInverse, NextInverse, In
<1>8. \A t \in In(c)' : PrevInverse(t)' /\ NextInverse(c, t)'
  <2> SUFFICES ASSUME NEW t \in In(c)' PROVE PrevInverse(t)' /\ NextInverse(c, t)'
    OBVIOUS
  <2>1. CASE t = n
    BY <1>2, <1>3, <1>4, <2>1 DEF PrevInverse, NextInverse
  <2>2. CASE t # n
    <3>1. t \in In(c) /\ t \in Task
      BY <1>4, <2>2 DEF In
    <3>2. PrevInverse(t)'
      BY <1>2, <1>3, <3>1 DEF PrevInverse
    <3>3. CASE t = x
      BY <1>2, <1>3, <1>4, <3>2, <3>3 DEF NextInverse
    <3>4. CASE t # x
      <4>1. prev[t] \in In(c) /\ prev[t] \in Task /\ next[prev[t]] = t
        BY <1>2, <3>1, <3>4 DEF NextInverse, In
      <4>2. prev[t] # p
        BY <1>2, <3>4, <4>1
      <4>3. next'[prev'[t]] = t
        BY <1>3, <4>1, <4>2
      <4>4. prev'[t] \in In(c)'
        BY <1>3, <1>4, <4>1
      <4>. QED  BY <3>2, <4>3, <4>4 DEF NextInverse
    <3>. QED  BY <3>2, <3>3, <3>4
  <2>. QED  BY <2>1, <2>2
<1>9. MutualLinks'
  BY <1>1, <1>4, <1>5, <1>7, <1>8 DEF MutualLinks
<1>10. ASSUME NEW d \in Cpu PROVE AddingBy(d)'
  <2>1. pc[d] \notin K
    BY <1>2, RingFacts DEF K
  <2>2. CASE d = c
    BY <1>3, <2>2 DEF AddingBy, U
  <2>3. CASE d # c /\ pc[d] \in U
    <3>1. /\ new[d] \in Task /\ new[d] # p /\ new[d] # n
          /\ curTask[d] \in Task /\ curTask[d] # p
      BY <1>1, <1>2, <2>3, RingFacts DEF Fresh, Creating, In
    <3>2. /\ next'[new'[d]] = next[new[d]] /\ next'[curTask'[d]] = next[curTask[d]]
          /\ pc'[d] = pc[d] /\ new'[d] = new[d]
      BY <1>3, <2>3, <3>1
    <3>3. AddingBy(d)
      BY <1>1 DEF Adding
    <3>. QED  BY <1>3, <1>4, <1>7, <2>1, <2>3, <3>2, <3>3 DEF AddingBy, K
  <2>4. CASE d # c /\ pc[d] \notin U
    BY <1>3, <2>1, <2>4 DEF AddingBy, K, U
  <2>. QED  BY <2>2, <2>3, <2>4
<1>11. prev' \in [Task -> Task \cup {Null}]
  BY <1>3 DEF RingInv
<1>. QED  BY <1>6, <1>9, <1>10, <1>11 DEF RingInv, Adding

(* mpe_init leaves the rings alone.                                        *)
LEMMA MpeInitRing == ASSUME SchedAssumption, IInv, RingInv, MpeInit PROVE RingInv'
<1>1. \A c \in Cpu : pc[c] \in {"boot", "off"} /\ pc'[c] = "run"
  BY Constants, RingFacts DEF MpeInit, IInv, Boot
<1>2. UNCHANGED <<next, prev, home>>
  BY DEF MpeInit, ring
<1>3. \A c \in Cpu : In(c)' = In(c) /\ ~Inserting(c) /\ ~Inserting(c)'
  BY <1>1, <1>2 DEF In, Inserting
<1>4. OneCycle' /\ MutualLinks'
  BY <1>2, <1>3 DEF RingInv, OneCycle, MutualLinks, PrevInverse, NextInverse
<1>5. Adding'
  BY <1>1 DEF Adding, AddingBy, U
<1>. QED  BY <1>2, <1>4, <1>5 DEF RingInv

(* A ring is an idle task at first.                                        *)
LEMMA RingInit == ASSUME SchedAssumption, Init PROVE RingInv
<1>1. IInv
  BY InitHolds
<1>2. \A c \in Cpu : \A t \in In(c) : t = IdleOf[c] /\ t \in Task /\ next[t] = t /\ prev[t] = t
  <2> SUFFICES ASSUME NEW c \in Cpu, NEW t \in In(c)
               PROVE  t = IdleOf[c] /\ t \in Task /\ next[t] = t /\ prev[t] = t
    OBVIOUS
  <2>1. t \in Task /\ home[t] = c /\ t \in Idles
    BY Constants DEF Init, In
  <2>2. \E d \in Cpu : IdleOf[d] = t
    BY <2>1 DEF Idles
  <2>3. home[t] = CHOOSE d \in Cpu : IdleOf[d] = t
    BY <2>1 DEF Init
  <2>. QED  BY <2>1, <2>2, <2>3 DEF Init
<1>3. OneCycle
  BY <1>2 DEF OneCycle
<1>4. MutualLinks
  BY <1>2 DEF MutualLinks, PrevInverse, NextInverse
<1>5. Adding
  BY DEF Init, Adding, AddingBy, U
<1>6. prev \in [Task -> Task \cup {Null}]
  BY DEF Init
<1>. QED  BY <1>3, <1>4, <1>5, <1>6 DEF RingInv

(* Every step keeps the rings.                                             *)
LEMMA RingStep ==
    ASSUME SchedAssumption, IInv, RingInv, [Next]_vars
    PROVE  RingInv'
<1>1. CASE UNCHANGED vars
  BY <1>1 DEF vars, RingInv, OneCycle, MutualLinks, Adding, AddingBy, PrevInverse,
              NextInverse,
              In, Inserting
<1>2. CASE MpeInit
  BY <1>2, MpeInitRing
<1>3. ASSUME NEW c \in Cpu, NEW t \in Task, KCreate(c, t) \/ UCreate(c, t)
      PROVE  RingInv'
  BY <1>3, QuietKeeps, UCreateRing
<1>4. ASSUME NEW c \in Cpu, CpuStep(c)
      PROVE  RingInv'
  <2>1. CASE KNext(c) \/ KPrev(c) \/ KLink(c) \/ KBack(c)
    BY <2>1, KNextRing, KPrevRing, KLinkRing, KBackRing
  <2>2. CASE UBack(c) \/ ULink(c)
    BY <2>2, UBackRing, ULinkRing
  <2>3. CASE \/ KGlock(c) \/ ForkFamily(c) \/ Trap(c) \/ TrapDone(c) \/ Exit(c)
             \/ SleepCall(c) \/ SleepYield(c) \/ SleepDone(c) \/ Advance(c) \/ Switch(c)
    BY <2>3, QuietKeeps
  <2>. QED  BY <1>4, <2>1, <2>2, <2>3 DEF CpuStep
<1>. QED  BY <1>1, <1>2, <1>3, <1>4 DEF Next

(* The tasks are finitely many.                                            *)
LEMMA FiniteTasks == ASSUME SchedAssumption PROVE IsFiniteSet(Task) /\ Cardinality(Task) \in Nat
<1>1. IsFiniteSet(Cpu)
  BY FS_Interval DEF SchedAssumption, Cpu
<1>2. IdleOf \in Surjection(Cpu, Idles)
  BY DEF SchedAssumption, Idles, Surjection
<1>3. IsFiniteSet(Idles)
  BY <1>1, <1>2, FS_Surjection
<1>4. IsFiniteSet(Task)
  BY <1>3, FS_Union DEF SchedAssumption, Task
<1>. QED  BY <1>4, FS_CardinalityType

(* Walk follows its pointers, as far as it goes.                           *)
LEMMA WalkSteps ==
    ASSUME SchedAssumption, NEW f, NEW t
    PROVE  /\ Walk(f, t)[0] = t
           /\ \A n \in 1 .. Cardinality(Task) :
                  Walk(f, t)[n] = IF Walk(f, t)[n - 1] = Null THEN Null ELSE f[Walk(f, t)[n - 1]]
<1> DEFINE After(w, n) == IF w[n - 1] = Null THEN Null ELSE f[w[n - 1]]
           Walks(w, m) == w = [n \in 0 .. m |-> IF n = 0 THEN t ELSE After(w, n)]
           Bad == {m \in Nat : ~\E w : Walks(w, m)}
           N == Cardinality(Task)
<1>1. Bad = {}
  <2> SUFFICES ASSUME Bad # {} PROVE FALSE
    OBVIOUS
  <2>1. PICK m \in Bad : \A k \in Bad : ~(k < m)
    BY Smallest
  <2>2. m # 0
    <3>1. Walks([n \in 0 .. 0 |-> t], 0)
      OBVIOUS
    <3>. QED  BY <3>1
  <2>3. m - 1 \in Nat /\ m - 1 \notin Bad
    BY <2>1, <2>2
  <2>4. PICK v : Walks(v, m - 1)
    BY <2>3
  <2>5. PICK w : w = [n \in 0 .. m |-> IF n = 0 THEN t ELSE After(v, n)]
    OBVIOUS
  <2>6. \A n \in 0 .. m - 1 : n \in 0 .. m /\ w[n] = v[n]
    BY <2>3, <2>4, <2>5
  <2>7. \A n \in 0 .. m : n # 0 => n - 1 \in 0 .. m - 1
    BY <2>3
  <2>8. \A n \in 0 .. m : n # 0 => After(w, n) = After(v, n)
    BY <2>6, <2>7
  <2>9. Walks(w, m)
    BY <2>5, <2>8, ZenonT(60)
  <2>. QED  BY <2>1, <2>9
<1>2. N \in Nat
  BY FiniteTasks
<1>3. Walks(Walk(f, t), N)
  <2>1. Walk(f, t) = CHOOSE w : Walks(w, N)
    BY DEF Walk
  <2>2. \E w : Walks(w, N)
    BY <1>1, <1>2
  <2>. QED  BY <2>1, <2>2
<1>. QED  BY <1>2, <1>3

(* A walk of as many steps as there are tasks comes back to one.           *)
LEMMA Repeats ==
    ASSUME SchedAssumption, NEW w, \A n \in 0 .. Cardinality(Task) : w[n] \in Task
    PROVE  \E i, j \in 0 .. Cardinality(Task) : i < j /\ w[i] = w[j]
<1> DEFINE N == Cardinality(Task)
           g == [n \in 0 .. N |-> w[n]]
<1>1. N \in Nat /\ IsFiniteSet(Task)
  BY FiniteTasks
<1>2. g \in [0 .. N -> Task]
  OBVIOUS
<1>3. IsFiniteSet(0 .. N) /\ Cardinality(0 .. N) = N + 1
  BY <1>1, FS_Interval
<1>4. \E i, j \in 0 .. N : i # j /\ g[i] = g[j]
  <2>1. Cardinality(Task) < Cardinality(0 .. N)
    BY <1>1, <1>3
  <2> HIDE DEF N, g
  <2>. QED  BY <1>1, <1>2, <1>3, <2>1, FS_PigeonHole
<1>5. PICK i \in 0 .. N, j \in 0 .. N : i # j /\ g[i] = g[j]
  BY <1>4
<1>6. w[i] = w[j] /\ (i < j \/ j < i)
  BY <1>1, <1>5
<1>. QED  BY <1>6

(* A walk along next meets the tasks of the ring, and no other.            *)
LEMMA WalkMeetsRing ==
    ASSUME SchedAssumption, IInv, RingInv, NEW c \in Cpu
    PROVE  Ring(c) = In(c)
<1> DEFINE w == Walk(next, curTask[c])
           N == Cardinality(Task)
<1>1. N \in Nat /\ IsFiniteSet(Task)
  BY FiniteTasks
<1>2. /\ w[0] = curTask[c]
      /\ \A n \in 1 .. N : w[n] = IF w[n - 1] = Null THEN Null ELSE next[w[n - 1]]
  BY WalkSteps
<1>3. /\ curTask[c] \in In(c)
      /\ \A t \in In(c) : t # Null /\ next[t] \in In(c)
  BY RingFacts, Constants
<1> HIDE DEF w
<1>4. \A n \in 0 .. N : w[n] \in In(c)
  <2> DEFINE Bad == {n \in 0 .. N : w[n] \notin In(c)}
  <2> SUFFICES ASSUME Bad # {} PROVE FALSE
    OBVIOUS
  <2>1. PICK n \in Bad : \A k \in Bad : ~(k < n)
    <3>1. Bad \subseteq Nat
      BY <1>1
    <3>. QED  BY <3>1, Smallest
  <2>2. n # 0
    BY <1>2, <1>3
  <2>3. w[n - 1] \in In(c) /\ n \in 1 .. N
    BY <1>1, <2>1, <2>2
  <2>. QED  BY <1>2, <1>3, <2>1, <2>3
<1>5. \E i, j \in 0 .. N : i < j /\ w[i] = w[j]
  <2>1. \A n \in 0 .. N : w[n] \in Task
    BY <1>4 DEF In
  <2>. QED  BY <2>1, Repeats
<1>6. PICK i \in 0 .. N, j \in 0 .. N : i < j /\ w[i] = w[j]
  BY <1>5
<1> DEFINE S == {w[n] : n \in 0 .. j - 1}
<1>7. S \in SUBSET In(c) /\ S # {}
  <2>1. \A n \in 0 .. j - 1 : n \in 0 .. N
    BY <1>1, <1>6
  <2>2. i \in 0 .. j - 1
    BY <1>1, <1>6
  <2>. QED  BY <1>4, <2>1, <2>2
<1>8. ASSUME NEW n \in 0 .. j - 1 PROVE next[w[n]] \in S
  <2>1. n + 1 \in 1 .. N /\ n \in 0 .. N /\ (n + 1) - 1 = n
    BY <1>1, <1>6
  <2>2. w[n + 1] = next[w[n]]
    BY <1>2, <1>3, <1>4, <2>1
  <2>3. CASE n + 1 = j
    <3>1. i \in 0 .. j - 1 /\ w[n + 1] = w[i]
      BY <1>1, <1>6, <2>3
    <3>. QED  BY <2>2, <3>1
  <2>4. CASE n + 1 # j
    <3>1. n + 1 \in 0 .. j - 1
      BY <1>1, <1>6, <2>4
    <3>. QED  BY <2>2, <3>1
  <2>. QED  BY <2>3, <2>4
<1>9. S = In(c)
  <2>1. \A t \in S : next[t] \in S
    BY <1>8
  <2>. QED  BY <1>7, <2>1 DEF RingInv, OneCycle
<1>10. \A n \in 0 .. j - 1 : n \in 0 .. N
  BY <1>1, <1>6
<1>11. Ring(c) = {w[n] : n \in 0 .. N}
  BY DEF Ring, Met, w
<1>. QED  BY <1>4, <1>9, <1>10, <1>11

(* Every ring is a cycle of exactly the tasks linked into it, and prev is  *)
(* the inverse of next in it when no insertion is under way (kmt.c:87-121, *)
(* uproc.c:90-108), for any number of CPUs, kernel threads and processes,  *)
(* as long as kcreate is not called after mpe_init.                        *)
THEOREM RingIntactHolds ==
    ASSUME SchedAssumption, RuntimeCreate = FALSE
    PROVE  Spec => []RingIntact
<1>1. Init => RingInv
  BY RingInit
<1>2. IInv /\ RingInv /\ [Next]_vars => RingInv'
  BY RingStep
<1>3. IInv /\ RingInv => RingIntact
  <2> SUFFICES ASSUME IInv, RingInv, NEW c \in Cpu
               PROVE  /\ Ring(c) = {t \in Task : home[t] = c}
                      /\ ~Inserting(c) =>
                             \A t \in Ring(c) : next[prev[t]] = t /\ prev[next[t]] = t
    BY DEF RingIntact
  <2>1. Ring(c) = In(c)
    BY WalkMeetsRing
  <2>. QED  BY <2>1 DEF RingInv, MutualLinks, PrevInverse, NextInverse, In
<1>. QED  BY <1>1, <1>2, <1>3, Invariant, PTL DEF Spec

-----------------------------------------------------------------------------
(* The rings as run queues.                                                *)

\* q lists, from t on, the cycle of the pointers f.
Lists(q, f, t) ==
    /\ q \in Seq(Task) /\ Len(q) # 0
    /\ q[1] = t /\ f[q[Len(q)]] = t
    /\ \A i \in 1 .. Len(q) - 1 : f[q[i]] = q[i + 1]
    /\ \A i, j \in 1 .. Len(q) : q[i] = q[j] => i = j

\* QueueOf is the list of a ring.
QueuesListRings ==
    \A c \in Cpu : /\ Lists(QueueOf(c), next, curTask[c])
                   /\ \A i \in 1 .. Len(QueueOf(c)) : QueueOf(c)[i] \in In(c)

(* Following next from curTask, the first task met again is curTask.       *)
LEMMA QueueLists ==
    ASSUME SchedAssumption, IInv, RingInv PROVE QueuesListRings
<1> SUFFICES ASSUME NEW c \in Cpu
             PROVE  /\ Lists(QueueOf(c), next, curTask[c])
                    /\ \A i \in 1 .. Len(QueueOf(c)) : QueueOf(c)[i] \in In(c)
  BY DEF QueuesListRings
<1> DEFINE w == Walk(next, curTask[c])
           N == Cardinality(Task)
<1>1. N \in Nat /\ IsFiniteSet(Task)
  BY FiniteTasks
<1>2. /\ w[0] = curTask[c]
      /\ \A n \in 1 .. N : w[n] = IF w[n - 1] = Null THEN Null ELSE next[w[n - 1]]
  BY WalkSteps
<1>3. /\ curTask[c] \in In(c)
      /\ \A t \in In(c) : t # Null /\ t \in Task /\ next[t] \in In(c)
  BY RingFacts, Constants
<1>4. QueueOf(c) = LET n == CHOOSE k \in 1 .. N :
                               w[k] = w[0] /\ \A j \in 1 .. k - 1 : w[j] # w[0]
                   IN  [k \in 1 .. n |-> w[k - 1]]
  BY DEF QueueOf
<1> HIDE DEF w, N
<1>5. \A n \in 0 .. N : w[n] \in In(c)
  <2> DEFINE Bad == {n \in 0 .. N : w[n] \notin In(c)}
  <2> SUFFICES ASSUME Bad # {} PROVE FALSE
    OBVIOUS
  <2>1. PICK n \in Bad : \A k \in Bad : ~(k < n)
    <3>1. Bad \subseteq Nat
      BY <1>1
    <3>. QED  BY <3>1, Smallest
  <2>2. n # 0
    BY <1>2, <1>3
  <2>3. w[n - 1] \in In(c) /\ n \in 1 .. N
    BY <1>1, <2>1, <2>2
  <2>. QED  BY <1>2, <1>3, <2>1, <2>3
<1>6. \A n \in 1 .. N : w[n] = next[w[n - 1]]
  <2> TAKE n \in 1 .. N
  <2>1. n - 1 \in 0 .. N
    BY <1>1
  <2>. QED  BY <1>2, <1>3, <1>5, <2>1
<1> DEFINE Again == {j \in 0 .. N : \E i \in 0 .. j - 1 : w[i] = w[j]}
<1>7. Again # {} /\ Again \subseteq Nat
  <2>1. \A n \in 0 .. N : w[n] \in Task
    BY <1>3, <1>5
  <2>2. PICK i \in 0 .. N, j \in 0 .. N : i < j /\ w[i] = w[j]
    BY <2>1, Repeats DEF N
  <2>3. i \in 0 .. j - 1
    BY <1>1, <2>2
  <2>. QED  BY <1>1, <2>2, <2>3
<1>8. PICK m \in Again : \A k \in Again : ~(k < m)
  <2> HIDE DEF Again
  <2>. QED  BY <1>7, Smallest
<1>9. m \in 1 .. N
  BY <1>1, <1>8
<1>10. \A i, j \in 0 .. m - 1 : w[i] = w[j] => i = j
  <2>1. ASSUME NEW j \in 0 .. m - 1, NEW i \in 0 .. j - 1, w[i] = w[j] PROVE FALSE
    <3>1. j \in 0 .. N /\ j < m
      BY <1>1, <1>9
    <3>. QED  BY <1>8, <2>1, <3>1
  <2> TAKE i, j \in 0 .. m - 1
  <2>2. i \in 0 .. j - 1 \/ j \in 0 .. i - 1 \/ i = j
    BY <1>1, <1>9
  <2>. QED  BY <2>1, <2>2
<1>11. w[m] = w[0]
  <2>1. PICK i \in 0 .. m - 1 : w[i] = w[m]
    BY <1>8
  <2> DEFINE S == {w[n] : n \in i .. m - 1}
  <2>2. S \in SUBSET In(c) /\ S # {}
    <3>1. \A n \in i .. m - 1 : n \in 0 .. N
      BY <1>1, <1>9, <2>1
    <3>2. i \in i .. m - 1
      BY <1>1, <1>9, <2>1
    <3>. QED  BY <1>5, <3>1, <3>2
  <2>3. ASSUME NEW n \in i .. m - 1 PROVE next[w[n]] \in S
    <3>1. n + 1 \in 1 .. N /\ (n + 1) - 1 = n
      BY <1>1, <1>9, <2>1
    <3>2. w[n + 1] = next[w[n]]
      BY <1>6, <3>1
    <3>3. CASE n + 1 = m
      <4>1. i \in i .. m - 1
        BY <1>1, <1>9, <2>1
      <4>. QED  BY <2>1, <3>2, <3>3, <4>1
    <3>4. CASE n + 1 # m
      <4>1. n + 1 \in i .. m - 1
        BY <1>1, <1>9, <2>1, <3>4
      <4>. QED  BY <3>2, <4>1
    <3>. QED  BY <3>3, <3>4
  <2>4. S = In(c)
    <3>1. \A t \in S : next[t] \in S
      BY <2>3
    <3> HIDE DEF S
    <3>. QED  BY <2>2, <3>1 DEF RingInv, OneCycle
  <2>5. PICK n \in i .. m - 1 : w[0] = w[n]
    BY <1>2, <1>3, <2>4
  <2>6. n = 0
    <3>1. n \in 0 .. m - 1 /\ 0 \in 0 .. m - 1
      BY <1>1, <1>9, <2>1
    <3>. QED  BY <1>10, <2>5, <3>1
  <2>7. i = 0
    BY <2>1, <2>5, <2>6
  <2>. QED  BY <2>1, <2>7
<1>12. QueueOf(c) = [k \in 1 .. m |-> w[k - 1]]
  <2> DEFINE P(k) == w[k] = w[0] /\ \A j \in 1 .. k - 1 : w[j] # w[0]
  <2>1. \A j \in 1 .. m - 1 : w[j] # w[0]
    <3> TAKE j \in 1 .. m - 1
    <3>1. j \in 0 .. m - 1 /\ 0 \in 0 .. m - 1 /\ j # 0
      BY <1>1, <1>9
    <3>. QED  BY <1>10, <3>1
  <2>2. P(m)
    BY <1>11, <2>1
  <2>3. \A k \in 1 .. N : P(k) => k = m
    <3> SUFFICES ASSUME NEW k \in 1 .. N, P(k) PROVE k = m
      OBVIOUS
    <3>1. ~(k < m)
      <4>1. k < m => k \in 1 .. m - 1
        BY <1>1, <1>9
      <4>. QED  BY <2>1, <4>1
    <3>2. ~(m < k)
      <4>1. m < k => m \in 1 .. k - 1
        BY <1>1, <1>9
      <4>. QED  BY <1>11, <4>1
    <3>. QED  BY <1>1, <1>9, <3>1, <3>2
  <2> DEFINE n == CHOOSE k \in 1 .. N : P(k)
  <2>4. n = m
    <3> HIDE DEF P
    <3>. QED  BY <1>9, <2>2, <2>3
  <2>5. QueueOf(c) = [k \in 1 .. n |-> w[k - 1]]
    BY <1>4
  <2>. QED  BY <2>4, <2>5
<1> DEFINE q == [k \in 1 .. m |-> w[k - 1]]
<1>13. \A k \in 1 .. m : q[k] = w[k - 1] /\ k - 1 \in 0 .. m - 1 /\ k - 1 \in 0 .. N
  BY <1>1, <1>9
<1>14. q \in Seq(Task) /\ Len(q) = m
  <2>1. q \in [1 .. m -> Task]
    BY <1>3, <1>5, <1>13
  <2>. QED  BY <1>1, <1>9, <2>1, SeqDef
<1>15. q[1] = curTask[c]
  BY <1>1, <1>2, <1>9, <1>13
<1>16. next[q[m]] = curTask[c]
  <2>1. m \in 1 .. m
    BY <1>1, <1>9
  <2>. QED  BY <1>2, <1>6, <1>9, <1>11, <1>13, <2>1
<1>17. \A i \in 1 .. m - 1 : next[q[i]] = q[i + 1]
  <2> TAKE i \in 1 .. m - 1
  <2>1. i \in 1 .. m /\ i + 1 \in 1 .. m /\ i \in 1 .. N /\ (i + 1) - 1 = i
    BY <1>1, <1>9
  <2>. QED  BY <1>6, <1>13, <2>1
<1>18. \A i, j \in 1 .. m : q[i] = q[j] => i = j
  BY <1>1, <1>9, <1>10, <1>13
<1>19. \A i \in 1 .. m : q[i] \in In(c)
  BY <1>5, <1>13
<1> HIDE DEF q
<1>20. QueueOf(c) = q /\ m # 0
  BY <1>9, <1>12 DEF q
<1>21. Lists(q, next, curTask[c])
  BY <1>14, <1>15, <1>16, <1>17, <1>18, <1>20 DEF Lists
<1>. QED  BY <1>14, <1>19, <1>20, <1>21

(* A cycle has one list from a task on.                                    *)
LEMMA ListsUnique ==
    ASSUME NEW f, NEW t, NEW q, NEW r, Lists(q, f, t), Lists(r, f, t)
    PROVE  q = r
<1>1. /\ q \in Seq(Task) /\ Len(q) \in Nat \ {0} /\ r \in Seq(Task) /\ Len(r) \in Nat \ {0}
      /\ q[1] = t /\ r[1] = t /\ f[q[Len(q)]] = t /\ f[r[Len(r)]] = t
  BY DEF Lists
<1>2. /\ \A i \in 1 .. Len(q) - 1 : f[q[i]] = q[i + 1]
      /\ \A i \in 1 .. Len(r) - 1 : f[r[i]] = r[i + 1]
      /\ \A i \in 2 .. Len(q) : q[i] # t
      /\ \A i \in 2 .. Len(r) : r[i] # t
  BY <1>1 DEF Lists
<1>3. \A i \in Nat : i \in 1 .. Len(q) /\ i \in 1 .. Len(r) => q[i] = r[i]
  <2> DEFINE Bad == {i \in Nat : i \in 1 .. Len(q) /\ i \in 1 .. Len(r) /\ q[i] # r[i]}
  <2> SUFFICES ASSUME Bad # {} PROVE FALSE
    OBVIOUS
  <2>1. PICK i \in Bad : \A k \in Bad : ~(k < i)
    <3>1. Bad \subseteq Nat
      OBVIOUS
    <3> HIDE DEF Bad
    <3>. QED  BY <3>1, Smallest
  <2>2. i # 1
    BY <1>1, <2>1
  <2>3. PICK k \in Nat : k = i - 1 /\ k \in 1 .. Len(q) - 1 /\ k \in 1 .. Len(r) - 1
    BY <1>1, <2>1, <2>2
  <2>4. q[k] = r[k]
    BY <1>1, <2>1, <2>3
  <2>5. q[k + 1] = r[k + 1] /\ k + 1 = i
    BY <1>2, <2>3, <2>4, SMTT(60)
  <2>. QED  BY <2>1, <2>5
<1>4. ~(Len(q) < Len(r))
  <2> SUFFICES ASSUME Len(q) < Len(r) PROVE FALSE
    OBVIOUS
  <2>1. PICK n \in Nat \ {0} : n = Len(q)
    BY <1>1
  <2>2. n \in 1 .. Len(q) /\ n \in 1 .. Len(r) - 1 /\ n + 1 \in 2 .. Len(r)
    BY <1>1, <2>1
  <2>3. q[n] = r[n]
    BY <1>1, <1>3, <2>2
  <2>4. f[r[n]] = r[n + 1]
    BY <1>2, <2>2
  <2>. QED  BY <1>1, <1>2, <2>1, <2>2, <2>3, <2>4
<1>5. ~(Len(r) < Len(q))
  <2> SUFFICES ASSUME Len(r) < Len(q) PROVE FALSE
    OBVIOUS
  <2>1. PICK n \in Nat \ {0} : n = Len(r)
    BY <1>1
  <2>2. n \in 1 .. Len(r) /\ n \in 1 .. Len(q) - 1 /\ n + 1 \in 2 .. Len(q)
    BY <1>1, <2>1
  <2>3. q[n] = r[n]
    BY <1>1, <1>3, <2>2
  <2>4. f[q[n]] = q[n + 1]
    BY <1>2, <2>2
  <2>. QED  BY <1>1, <1>2, <2>1, <2>2, <2>3, <2>4
<1>6. Len(q) = Len(r)
  BY <1>1, <1>4, <1>5
<1>7. \A i \in 1 .. Len(q) : q[i] = r[i]
  BY <1>1, <1>3, <1>6
<1>. QED  BY <1>1, <1>6, <1>7, SeqEqual

(* The scheduler's step along the ring moves the head of its list to the   *)
(* end (os.c: curTask = curTask->next).                                    *)
LEMMA ListsRotate ==
    ASSUME NEW q, NEW f, NEW t, Lists(q, f, t)
    PROVE  Lists(Append(Tail(q), Head(q)), f, f[t])
<1> DEFINE r == Append(Tail(q), Head(q))
<1>1. /\ q \in Seq(Task) /\ q[1] = t /\ f[q[Len(q)]] = t
      /\ \A i \in 1 .. Len(q) - 1 : f[q[i]] = q[i + 1]
      /\ \A i, j \in 1 .. Len(q) : q[i] = q[j] => i = j
  BY DEF Lists
<1>2. PICK m \in Nat \ {0} : m = Len(q)
  BY DEF Lists
<1>3. q # <<>> /\ Head(q) = t /\ t \in Task
  BY <1>1, <1>2
<1>4. /\ Tail(q) \in Seq(Task) /\ Len(Tail(q)) = m - 1
      /\ \A i \in 1 .. m - 1 : Tail(q)[i] = q[i + 1]
  BY <1>1, <1>2, <1>3, HeadTailProperties
<1>5. r \in Seq(Task) /\ Len(r) = m
  BY <1>2, <1>3, <1>4, AppendProperties
<1>6. \A i \in 1 .. m - 1 : r[i] = q[i + 1]
  BY <1>2, <1>3, <1>4, AppendProperties
<1>7. r[m] = t
  BY <1>2, <1>3, <1>4, AppendProperties
<1> HIDE DEF r
<1>8. r[1] = f[t]
  <2>1. CASE m = 1
    BY <1>1, <1>2, <1>7, <2>1
  <2>2. CASE m # 1
    BY <1>1, <1>2, <1>6, <2>2
  <2>. QED  BY <2>1, <2>2
<1>9. f[r[m]] = f[t]
  BY <1>7
<1>10. \A i \in 1 .. m - 1 : f[r[i]] = r[i + 1]
  <2> TAKE i \in 1 .. m - 1
  <2>1. CASE i = m - 1
    BY <1>1, <1>2, <1>6, <1>7, <2>1
  <2>2. CASE i # m - 1
    <3>1. i + 1 \in 1 .. m - 1
      BY <1>2, <2>2
    <3>. QED  BY <1>1, <1>2, <1>6, <3>1
  <2>. QED  BY <2>1, <2>2
<1>11. \A i, j \in 1 .. m : r[i] = r[j] => i = j
  <2> DEFINE p(i) == IF i = m THEN 1 ELSE i + 1
  <2>1. \A i \in 1 .. m : p(i) \in 1 .. m /\ r[i] = q[p(i)]
    BY <1>1, <1>2, <1>6, <1>7
  <2>2. \A i, j \in 1 .. m : p(i) = p(j) => i = j
    BY <1>2
  <2> HIDE DEF p
  <2>. QED  BY <1>1, <1>2, <2>1, <2>2, SMTT(60)
<1>12. Lists(r, f, f[t])
  BY <1>2, <1>5, <1>8, <1>9, <1>10, <1>11 DEF Lists
<1>. QED  BY <1>12 DEF r

(* A task put behind the first is second in the list (kmt.c: kcreate,      *)
(* uproc.c: ucreate).                                                      *)
LEMMA ListsInsert ==
    ASSUME NEW q, NEW f \in [Task -> Task \cup {Null}], NEW t, NEW n \in Task, NEW g,
           Lists(q, f, t), \A i \in 1 .. Len(q) : q[i] # n, f[n] = f[t],
           g = [f EXCEPT ![t] = n]
    PROVE  Lists(<<Head(q), n>> \o Tail(q), g, t)
<1> DEFINE r == <<Head(q), n>> \o Tail(q)
<1>1. /\ q \in Seq(Task) /\ q[1] = t /\ f[q[Len(q)]] = t
      /\ \A i \in 1 .. Len(q) - 1 : f[q[i]] = q[i + 1]
      /\ \A i, j \in 1 .. Len(q) : q[i] = q[j] => i = j
  BY DEF Lists
<1>2. PICK m \in Nat \ {0} : m = Len(q)
  BY DEF Lists
<1>3. q # <<>> /\ Head(q) = t /\ t \in Task
  BY <1>1, <1>2
<1>4. /\ Tail(q) \in Seq(Task) /\ Len(Tail(q)) = m - 1
      /\ \A i \in 1 .. m - 1 : Tail(q)[i] = q[i + 1]
  BY <1>1, <1>2, <1>3, HeadTailProperties
<1>5. <<Head(q), n>> \in Seq(Task) /\ Len(<<Head(q), n>>) = 2
      /\ <<Head(q), n>>[1] = t /\ <<Head(q), n>>[2] = n
  BY <1>3
<1>6. /\ r \in Seq(Task) /\ Len(r) = 2 + (m - 1)
      /\ \A i \in 1 .. 2 + (m - 1) : r[i] = IF i <= 2 THEN <<Head(q), n>>[i] ELSE Tail(q)[i - 2]
  BY <1>4, <1>5, ConcatProperties
<1> HIDE DEF r
<1>7. Len(r) = m + 1 /\ m + 1 # 0 /\ r[1] = t /\ r[2] = n
  BY <1>2, <1>5, <1>6
<1>8. \A i \in 3 .. m + 1 : r[i] = q[i - 1] /\ i - 1 \in 2 .. m
  <2> TAKE i \in 3 .. m + 1
  <2>1. i - 2 \in 1 .. m - 1 /\ (i - 2) + 1 = i - 1 /\ ~(i <= 2) /\ i \in 1 .. 2 + (m - 1)
    BY <1>2
  <2>2. Tail(q)[i - 2] = q[(i - 2) + 1]
    BY <1>4, <2>1
  <2>. QED  BY <1>2, <1>6, <2>1, <2>2
<1>9. g[t] = n /\ g[n] = f[t] /\ \A s \in Task \ {t} : g[s] = f[s]
  <2>1. n # t
    BY <1>1, <1>2
  <2>. QED  BY <1>3, <2>1
<1>10. \A i \in 2 .. m : q[i] \in Task \ {t}
  BY <1>1, <1>2
<1>11. g[r[m + 1]] = t
  <2>1. CASE m = 1
    BY <1>1, <1>2, <1>7, <1>9, <2>1
  <2>2. CASE m # 1
    <3>1. m + 1 \in 3 .. m + 1 /\ (m + 1) - 1 = m /\ m \in 2 .. m
      BY <1>2, <2>2
    <3>2. r[m + 1] = q[m] /\ q[m] \in Task \ {t}
      BY <1>8, <1>10, <3>1
    <3>. QED  BY <1>1, <1>2, <1>9, <3>2
  <2>. QED  BY <2>1, <2>2
<1>12. \A i \in 1 .. m : g[r[i]] = r[i + 1]
  <2> TAKE i \in 1 .. m
  <2>1. CASE i = 1
    BY <1>7, <1>9, <2>1
  <2>2. CASE i = 2
    <3>1. 3 \in 3 .. m + 1 /\ 1 \in 1 .. m - 1
      BY <1>2, <2>2
    <3>2. r[3] = q[2] /\ f[t] = q[2]
      BY <1>1, <1>2, <1>8, <3>1
    <3>. QED  BY <1>7, <1>9, <2>2, <3>2
  <2>3. CASE i > 2
    <3>1. /\ i \in 3 .. m + 1 /\ i + 1 \in 3 .. m + 1 /\ (i + 1) - 1 = i
          /\ i - 1 \in 1 .. m - 1 /\ (i - 1) + 1 = i /\ i - 1 \in 2 .. m
      BY <1>2, <2>3
    <3>2. r[i] = q[i - 1] /\ r[i + 1] = q[i] /\ f[q[i - 1]] = q[i]
      BY <1>1, <1>2, <1>8, <3>1
    <3>3. q[i - 1] \in Task \ {t}
      BY <1>10, <3>1
    <3>. QED  BY <1>9, <3>2, <3>3
  <2>. QED  BY <1>2, <2>1, <2>2, <2>3
<1>13. \A i, j \in 1 .. m + 1 : r[i] = r[j] => i = j
  <2>1. \A i \in 1 .. m + 1 : \/ i = 1 /\ r[i] = q[1]
                              \/ i = 2 /\ r[i] = n
                              \/ i \in 3 .. m + 1 /\ i - 1 \in 2 .. m /\ r[i] = q[i - 1]
    BY <1>1, <1>2, <1>7, <1>8
  <2>2. \A i \in 1 .. m : q[i] # n
    BY <1>2
  <2>. QED  BY <1>1, <1>2, <2>1, <2>2
<1>14. Lists(r, g, t)
  BY <1>6, <1>7, <1>11, <1>12, <1>13 DEF Lists
<1>. QED  BY <1>14 DEF r

(* A list stays as long as the pointers of its tasks do.                   *)
LEMMA ListsSame ==
    ASSUME NEW q, NEW f, NEW t, NEW g, Lists(q, f, t), \A i \in 1 .. Len(q) : g[q[i]] = f[q[i]]
    PROVE  Lists(q, g, t)
<1>1. Len(q) \in Nat \ {0}
  BY DEF Lists
<1>2. Len(q) \in 1 .. Len(q) /\ \A i \in 1 .. Len(q) - 1 : i \in 1 .. Len(q)
  BY <1>1
<1>. QED  BY <1>2 DEF Lists

(* Steps that change neither curTask of a CPU nor next in its ring keep    *)
(* its queue.                                                              *)
LEMMA QueueKept ==
    ASSUME QueuesListRings, QueuesListRings', NEW c \in Cpu, curTask'[c] = curTask[c],
           \A t \in In(c) : next'[t] = next[t]
    PROVE  QueueOf(c)' = QueueOf(c)
<1>1. /\ Lists(QueueOf(c), next, curTask[c])
      /\ \A i \in 1 .. Len(QueueOf(c)) : QueueOf(c)[i] \in In(c)
  BY DEF QueuesListRings
<1>2. Lists(QueueOf(c)', next', curTask[c])
  BY DEF QueuesListRings
<1>3. Lists(QueueOf(c), next', curTask[c])
  BY <1>1, ListsSame
<1>. QED  BY <1>2, <1>3, ListsUnique

(* One round of the do-while of os_trap rotates the queue of its CPU.      *)
LEMMA AdvanceRotates ==
    ASSUME SchedAssumption, IInv, QueuesListRings, QueuesListRings', NEW c \in Cpu, Advance(c)
    PROVE  Queues!Next
<1>1. /\ next' = next
      /\ curTask' = [curTask EXCEPT ![c] = next[curTask[c]]]
      /\ curTask \in [Cpu -> Task]
  BY DEF Advance, ring, IInv, SchedTypeOK
<1>2. \A d \in Cpu \ {c} : QueueOf(d)' = QueueOf(d)
  BY <1>1, QueueKept
<1>3. QueueOf(c)' = Append(Tail(QueueOf(c)), Head(QueueOf(c)))
  <2>1. Lists(QueueOf(c), next, curTask[c]) /\ Lists(QueueOf(c)', next, next[curTask[c]])
    BY <1>1 DEF QueuesListRings
  <2>2. Lists(Append(Tail(QueueOf(c)), Head(QueueOf(c))), next, next[curTask[c]])
    BY <2>1, ListsRotate
  <2>. QED  BY <2>1, <2>2, ListsUnique
<1>4. Queues!Rotate(c)
  BY <1>2, <1>3 DEF Queues!Rotate
<1>. QED  BY <1>4 DEF Queues!Next

(* Linking a new task behind curTask enters it behind the head.            *)
LEMMA LinkEnters ==
    ASSUME SchedAssumption, IInv, QueuesListRings, QueuesListRings', NEW c \in Cpu,
           NEW t \in Task, \A d \in Cpu : t \notin In(d), next[t] = next[curTask[c]],
           next' = [next EXCEPT ![curTask[c]] = t], curTask' = curTask
    PROVE  Queues!Next
<1>1. next \in [Task -> Task \cup {Null}] /\ curTask[c] \in In(c)
  BY RingFacts DEF IInv, SchedTypeOK
<1>2. \A d \in Cpu \ {c} : QueueOf(d)' = QueueOf(d)
  <2> TAKE d \in Cpu \ {c}
  <2>1. curTask[c] \notin In(d)
    BY <1>1 DEF In
  <2>2. \A s \in In(d) : next'[s] = next[s]
    BY <1>1, <2>1 DEF In
  <2>. QED  BY <2>2, QueueKept
<1>3. /\ Lists(QueueOf(c), next, curTask[c]) /\ Lists(QueueOf(c)', next', curTask[c])
      /\ \A i \in 1 .. Len(QueueOf(c)) : QueueOf(c)[i] # t
  <2>1. /\ Lists(QueueOf(c), next, curTask[c])
        /\ \A i \in 1 .. Len(QueueOf(c)) : QueueOf(c)[i] \in In(c)
    BY DEF QueuesListRings
  <2>2. Lists(QueueOf(c)', next', curTask'[c])
    BY DEF QueuesListRings
  <2>. QED  BY <2>1, <2>2
<1>4. QueueOf(c)' = <<Head(QueueOf(c)), t>> \o Tail(QueueOf(c))
  <2>1. Lists(<<Head(QueueOf(c)), t>> \o Tail(QueueOf(c)), next', curTask[c])
    BY <1>1, <1>3, ListsInsert
  <2>. QED  BY <1>3, <2>1, ListsUnique
<1>5. t \notin Queues!Queued
  <2>1. \A d \in Cpu : DOMAIN QueueOf(d) = 1 .. Len(QueueOf(d))
    BY DEF QueuesListRings, Lists
  <2>2. \A d \in Cpu : \A i \in DOMAIN QueueOf(d) : QueueOf(d)[i] # t
    BY <2>1 DEF QueuesListRings
  <2>. QED  BY <2>2 DEF Queues!Queued
<1>6. Queues!Enter(c, t)
  BY <1>2, <1>4, <1>5 DEF Queues!Enter
<1>. QED  BY <1>6 DEF Queues!Next

(* Every step is one of the queues, or changes none.                       *)
LEMMA QueueStep ==
    ASSUME SchedAssumption, RuntimeCreate = FALSE, IInv, RingInv, QueuesListRings,
           QueuesListRings', [Next]_vars
    PROVE  Queues!Next \/ \A c \in Cpu : QueueOf(c)' = QueueOf(c)
<1>1. CASE next' = next /\ curTask' = curTask
  BY <1>1, QueueKept
<1>2. ASSUME NEW t \in Task, \A d \in Cpu : t \notin In(d), curTask' = curTask,
             NEW u, next' = [next EXCEPT ![t] = u]
      PROVE  \A c \in Cpu : QueueOf(c)' = QueueOf(c)
  <2>1. \A c \in Cpu : \A s \in In(c) : next'[s] = next[s]
    BY <1>2 DEF IInv, SchedTypeOK, In
  <2>. QED  BY <1>2, <2>1, QueueKept
<1>3. ASSUME NEW c \in Cpu, NEW t \in Task, UCreate(c, t)
      PROVE  \A d \in Cpu : QueueOf(d)' = QueueOf(d)
  <2>1. \A d \in Cpu : t \notin In(d)
    BY <1>3, Constants DEF UCreate, IInv, Rings, In
  <2>. QED  BY <1>2, <1>3, <2>1 DEF UCreate
<1>4. ASSUME NEW c \in Cpu, KNext(c)
      PROVE  \A d \in Cpu : QueueOf(d)' = QueueOf(d)
  <2>1. new[c] \in Task /\ \A d \in Cpu : new[c] \notin In(d)
    BY <1>4, RingFacts DEF KNext, Creating, K
  <2>. QED  BY <1>2, <1>4, <2>1 DEF KNext, sched
<1>5. ASSUME NEW c \in Cpu, KLink(c) PROVE Queues!Next
  <2>1. new[c] \in Task /\ \A d \in Cpu : new[c] \notin In(d)
    BY <1>5, RingFacts DEF KLink, Creating, K
  <2>2. PICK d \in Cpu : d = tgt[c]
    BY <1>5 DEF KLink, IInv, Fresh, K
  <2>3. currents[d] = curTask[d]
    BY <1>5 DEF KLink, IInv, Boot, K
  <2>4. next[new[c]] = next[currents[d]]
    BY <1>5, <2>2 DEF KLink, RingInv, Adding, AddingBy
  <2>. QED  BY <1>5, <2>1, <2>2, <2>3, <2>4, LinkEnters DEF KLink, sched
<1>6. ASSUME NEW c \in Cpu, ULink(c) PROVE Queues!Next
  <2>1. new[c] \in Task /\ \A d \in Cpu : new[c] \notin In(d)
    BY <1>6, RingFacts DEF ULink, Creating, U
  <2>2. next[new[c]] = next[curTask[c]]
    BY <1>6 DEF ULink, RingInv, Adding, AddingBy, U
  <2>. QED  BY <1>6, <2>1, <2>2, LinkEnters DEF ULink, sched
<1>7. ASSUME NEW c \in Cpu, Advance(c) PROVE Queues!Next
  BY <1>7, AdvanceRotates
<1>8. CASE UNCHANGED vars \/ MpeInit
  BY <1>1, <1>8 DEF vars, MpeInit, ring, sched
<1>9. ASSUME NEW c \in Cpu, NEW t \in Task, KCreate(c, t) PROVE next' = next /\ curTask' = curTask
  BY <1>9 DEF KCreate, ring
<1>10. ASSUME NEW c \in Cpu,
              \/ KGlock(c) \/ KPrev(c) \/ KBack(c) \/ UBack(c) \/ ForkFamily(c) \/ Trap(c)
              \/ TrapDone(c) \/ Exit(c) \/ SleepCall(c) \/ SleepYield(c) \/ SleepDone(c)
              \/ Switch(c)
       PROVE  next' = next /\ curTask' = curTask
  BY <1>10 DEF KGlock, KPrev, KBack, UBack, ForkFamily, Trap, TrapDone, Exit, SleepCall,
               SleepYield, SleepDone, Switch, ring, sched
<1>. QED  BY <1>1, <1>3, <1>4, <1>5, <1>6, <1>7, <1>8, <1>9, <1>10 DEF Next, CpuStep

(* The first queues hold the idle tasks.                                   *)
LEMMA QueueInit ==
    ASSUME SchedAssumption, Init, QueuesListRings
    PROVE  Queues!Init
<1> SUFFICES ASSUME NEW c \in Cpu PROVE QueueOf(c) = <<IdleOf[c]>>
  BY DEF Queues!Init
<1>1. IdleOf[c] \in Task /\ next[IdleOf[c]] = IdleOf[c] /\ curTask[c] = IdleOf[c]
  BY DEF SchedAssumption, Init, Task, Idles
<1>2. Lists(<<IdleOf[c]>>, next, curTask[c])
  BY <1>1 DEF Lists
<1>. QED  BY <1>2, ListsUnique DEF QueuesListRings

(* The rings of tasks implement run queues (kmt.c:87-121, uproc.c:90-108,  *)
(* os.c: os_trap), for any number of CPUs, kernel threads and processes,   *)
(* as long as kcreate is not called after mpe_init.                        *)
THEOREM Refinement ==
    ASSUME SchedAssumption, RuntimeCreate = FALSE
    PROVE  Spec => ImplementsRunQueue
<1>1. Init => RingInv
  BY RingInit
<1>2. IInv /\ RingInv /\ [Next]_vars => RingInv'
  BY RingStep
<1>3. IInv /\ RingInv => QueuesListRings
  BY QueueLists
<1>4. Init /\ QueuesListRings => Queues!Init
  BY QueueInit
<1>5. IInv /\ RingInv /\ QueuesListRings /\ QueuesListRings' /\ [Next]_vars
          => [Queues!Next]_[c \in Cpu |-> QueueOf(c)]
  BY QueueStep
<1>. QED  BY <1>1, <1>2, <1>3, <1>4, <1>5, Invariant, PTL DEF Spec, ImplementsRunQueue, Queues!Spec

-----------------------------------------------------------------------------
(* The lists of children: a set of children with the first that bros does  *)
(* not leave is all of them, and nchildren counts them.                    *)

Kids(p) == {q \in Proc : parent[q] = p}

\* The list of a process.
List(p) ==
    /\ children[p] \in Kids(p) \cup {Null} /\ (children[p] = Null => Kids(p) = {})
    /\ \A q \in Kids(p) : bros[q] \in Kids(p) \cup {Null}
    /\ \A S \in SUBSET Kids(p) :
           children[p] \in S /\ (\A q \in S : bros[q] \in S \cup {Null}) => S = Kids(p)
    /\ nchildren[p] = Cardinality(Kids(p))

Forking(c) == booted /\ pc[c] \in U \cup {"fork"}

\* A process being made has no parent yet, and is one CPU's.
Unborn ==
    /\ \A q \in Proc : status[q] = "unused" => parent[q] = Null
    /\ \A c \in Cpu : Forking(c) =>
           /\ curTask[c] \in Proc /\ new[c] \in Proc
           /\ parent[new[c]] = Null /\ status[new[c]] # "unused"
    /\ \A c, d \in Cpu : c # d /\ Forking(c) /\ Forking(d) => new[c] # new[d]

FamilyInv ==
    /\ parent \in [Proc -> Proc \cup {Null}] /\ children \in [Proc -> Proc \cup {Null}]
    /\ bros \in [Proc -> Proc \cup {Null}] /\ nchildren \in [Proc -> Nat]
    /\ \A p \in Proc : List(p)
    /\ Unborn


(* A list depends on the family links alone.                               *)
LEMMA ListsKept ==
    ASSUME FamilyInv, UNCHANGED family
    PROVE  \A p \in Proc : List(p)'
<1> SUFFICES ASSUME NEW p \in Proc PROVE List(p)'
  OBVIOUS
<1>1. /\ Kids(p)' = Kids(p) /\ children' = children /\ bros' = bros
      /\ nchildren' = nchildren /\ List(p)
  BY DEF Kids, family, FamilyInv
<1>. QED  BY <1>1 DEF List

(* Steps that leave the family links alone and start no fork.              *)
LEMMA FamilyQuiet ==
    ASSUME FamilyInv, UNCHANGED family,
           \A q \in Proc : status'[q] = "unused" => status[q] = "unused",
           \A d \in Cpu : Forking(d)' => Forking(d) /\ new'[d] = new[d] /\ curTask'[d] = curTask[d]
    PROVE  FamilyInv'
<1>1. \A p \in Proc : List(p)'
  BY ListsKept
<1>2. Unborn'
  BY DEF FamilyInv, Unborn, family
<1>. QED  BY <1>1, <1>2 DEF FamilyInv, family

(* ucreate, called by fork: the new process has no parent.                 *)
LEMMA UCreateFamily ==
    ASSUME SchedAssumption, IInv, FamilyInv, NEW c \in Cpu, NEW u \in Task, UCreate(c, u)
    PROVE  FamilyInv'
<1>1. SchedTypeOK /\ Boot
  BY DEF IInv
<1>2. \A p \in Proc : List(p)'
  BY ListsKept DEF UCreate
<1>3. /\ \A d \in Cpu \ {c} : new'[d] = new[d] /\ pc'[d] = pc[d]
      /\ new'[c] = u /\ pc'[c] = "u_back" /\ u \in Proc /\ status[u] = "unused"
      /\ booted' = booted /\ curTask' = curTask /\ parent' = parent
      /\ \A q \in Task : status'[q] = IF q = u THEN "RUNNING" ELSE status[q]
  BY <1>1 DEF SchedTypeOK, UCreate, Goto, family
<1>4. \A q \in Proc : status'[q] = "unused" => parent'[q] = Null
  BY <1>3, Constants DEF FamilyInv, Unborn
<1>5. \A d \in Cpu : d # c /\ Forking(d)' => Forking(d)
  BY <1>3 DEF Forking
<1>6. ASSUME NEW d \in Cpu, Forking(d)'
      PROVE  /\ curTask'[d] \in Proc /\ new'[d] \in Proc
             /\ parent'[new'[d]] = Null /\ status'[new'[d]] # "unused"
  <2>1. CASE d = c
    <3>1. curTask[c] \in Proc
      BY <1>3, <1>6, <2>1 DEF Forking, UCreate, CallsUcreate
    <3>. QED  BY <1>3, <2>1, <3>1, Constants DEF FamilyInv, Unborn
  <2>2. CASE d # c
    BY <1>3, <1>5, <1>6, <2>2, Constants DEF FamilyInv, Unborn
  <2>. QED  BY <2>1, <2>2
<1>7. ASSUME NEW d \in Cpu, NEW e \in Cpu, d # e, Forking(d)', Forking(e)'
      PROVE  new'[d] # new'[e]
  BY <1>3, <1>5, <1>7 DEF FamilyInv, Unborn
<1>8. Unborn'
  BY <1>4, <1>6, <1>7 DEF Unborn
<1>. QED  BY <1>2, <1>8 DEF FamilyInv, UCreate, family

(* The child becomes the first of its parent's list.                       *)
LEMMA ForkFamilyKeepsFamily ==
    ASSUME SchedAssumption, IInv, FamilyInv, NEW c \in Cpu, ForkFamily(c)
    PROVE  FamilyInv'
<1>1. SchedTypeOK /\ Boot
  BY DEF IInv
<1>2. booted /\ Forking(c)
  BY <1>1 DEF ForkFamily, Boot, Forking, K, U
<1>3. PICK p \in Proc, u \in Proc :
        p = curTask[c] /\ u = new[c] /\ parent[u] = Null /\ status[u] # "unused"
  BY <1>2 DEF FamilyInv, Unborn
<1>4. /\ parent' \in [Proc -> Proc \cup {Null}] /\ children' \in [Proc -> Proc \cup {Null}]
      /\ bros' \in [Proc -> Proc \cup {Null}] /\ nchildren' \in [Proc -> Nat]
  BY <1>3 DEF FamilyInv, ForkFamily
<1>5. /\ \A q \in Proc : /\ parent'[q] = (IF q = u THEN p ELSE parent[q])
                         /\ bros'[q] = (IF q = u THEN children[p] ELSE bros[q])
                         /\ children'[q] = (IF q = p THEN u ELSE children[q])
                         /\ nchildren'[q] = (IF q = p THEN nchildren[p] + 1 ELSE nchildren[q])
      /\ status' = status /\ curTask' = curTask /\ booted' = booted
      /\ \A d \in Cpu \ {c} : new'[d] = new[d] /\ pc'[d] = pc[d]
      /\ pc'[c] = "sched"
  BY <1>1, <1>3 DEF SchedTypeOK, FamilyInv, ForkFamily, Goto, sched
<1>6. Null \notin Proc
  BY Constants
<1>7. Kids(p)' = Kids(p) \cup {u} /\ u \notin Kids(p) /\ Null \notin Kids(p)
  BY <1>3, <1>5, <1>6 DEF Kids
<1>8. List(p)'
  <2>0. List(p)
    BY <1>3 DEF FamilyInv
  <2>1. children'[p] = u /\ bros'[u] = children[p] /\ \A q \in Kids(p) : bros'[q] = bros[q]
    BY <1>3, <1>5, <1>7 DEF Kids
  <2>2. children'[p] \in Kids(p)' \cup {Null} /\ (children'[p] = Null => Kids(p)' = {})
    BY <1>3, <1>6, <1>7, <2>1
  <2>3. \A q \in Kids(p)' : bros'[q] \in Kids(p)' \cup {Null}
    BY <1>7, <2>0, <2>1 DEF List
  <2>4. ASSUME NEW S \in SUBSET (Kids(p)'), children'[p] \in S,
               \A q \in S : bros'[q] \in S \cup {Null}
        PROVE  S = Kids(p)'
    <3>1. \A q \in S \ {u} : bros[q] \in (S \ {u}) \cup {Null}
      BY <1>3, <1>6, <1>7, <2>0, <2>1, <2>4 DEF List
    <3>2. S \ {u} \in SUBSET Kids(p) /\ u \in S
      BY <1>7, <2>1, <2>4
    <3>3. CASE children[p] = Null
      BY <1>7, <2>0, <3>2, <3>3 DEF List
    <3>4. CASE children[p] # Null
      <4>1. children[p] \in S \ {u}
        BY <1>7, <2>0, <2>1, <2>4, <3>2, <3>4 DEF List
      <4>2. S \ {u} = Kids(p)
        BY <2>0, <3>1, <3>2, <4>1 DEF List
      <4>. QED  BY <1>7, <3>2, <4>2
    <3>. QED  BY <3>3, <3>4
  <2>5. nchildren'[p] = Cardinality(Kids(p)')
    <3>1. IsFiniteSet(Kids(p))
      BY FS_Subset DEF Kids, SchedAssumption
    <3>2. Cardinality(Kids(p) \cup {u}) = Cardinality(Kids(p)) + 1
      BY <1>7, <3>1, FS_AddElement
    <3>. QED  BY <1>3, <1>5, <1>7, <2>0, <3>2 DEF List
  <2>. QED  BY <2>2, <2>3, <2>4, <2>5, <1>5 DEF List
<1>9. ASSUME NEW q \in Proc, q # p PROVE List(q)'
  <2>1. Kids(q)' = Kids(q) /\ u \notin Kids(q)
    BY <1>3, <1>5, <1>6, <1>9 DEF Kids
  <2>2. \A r \in Kids(q) : bros'[r] = bros[r]
    BY <1>5, <2>1 DEF Kids
  <2>3. children'[q] = children[q] /\ nchildren'[q] = nchildren[q] /\ List(q)
    BY <1>5, <1>9 DEF FamilyInv
  <2>. QED  BY <2>1, <2>2, <2>3 DEF List
<1>10. Unborn'
  <2>1. \A d \in Cpu : Forking(d)' => d # c /\ Forking(d)
    BY <1>5 DEF Forking, U
  <2>2. \A d \in Cpu : Forking(d)' => new[d] # u
    BY <1>2, <1>3, <2>1 DEF FamilyInv, Unborn
  <2>3. \A q \in Proc : status'[q] = "unused" => parent'[q] = Null
    BY <1>3, <1>5 DEF FamilyInv, Unborn
  <2>4. \A d \in Cpu : Forking(d)' =>
           /\ curTask'[d] \in Proc /\ new'[d] \in Proc
           /\ parent'[new'[d]] = Null /\ status'[new'[d]] # "unused"
    BY <1>5, <2>1, <2>2 DEF FamilyInv, Unborn
  <2>5. \A d, e \in Cpu : d # e /\ Forking(d)' /\ Forking(e)' => new'[d] # new'[e]
    BY <1>5, <2>1 DEF FamilyInv, Unborn
  <2>. QED  BY <2>3, <2>4, <2>5 DEF Unborn
<1>11. \A q \in Proc : List(q)'
  BY <1>8, <1>9
<1>. QED  BY <1>4, <1>10, <1>11 DEF FamilyInv

(* A step of a CPU that does not fork.                                     *)
LEMMA CpuStepFamily ==
    ASSUME SchedAssumption, IInv, FamilyInv, NEW c \in Cpu, CpuStep(c)
    PROVE  FamilyInv'
<1>1. SchedTypeOK /\ Boot
  BY DEF IInv
<1> DEFINE Quiet == /\ UNCHANGED family
                    /\ \A q \in Proc : status'[q] = "unused" => status[q] = "unused"
                    /\ \A d \in Cpu : Forking(d)' =>
                           Forking(d) /\ new'[d] = new[d] /\ curTask'[d] = curTask[d]
<1>2. CASE KGlock(c) \/ KNext(c) \/ KPrev(c) \/ KLink(c) \/ KBack(c)
  <2>1. Quiet
    BY <1>1, <1>2 DEF SchedTypeOK, Forking, Goto, sched, create, K, U,
                      KGlock, KNext, KPrev, KLink, KBack
  <2>. QED  BY <2>1, FamilyQuiet
<1>3. CASE UBack(c) \/ ULink(c)
  <2>1. Quiet
    BY <1>1, <1>3 DEF SchedTypeOK, Forking, Goto, sched, create, K, U, UBack, ULink
  <2>. QED  BY <2>1, FamilyQuiet
<1>4. CASE ForkFamily(c)
  BY <1>4, ForkFamilyKeepsFamily
<1>5. CASE Trap(c) \/ TrapDone(c) \/ Exit(c)
  <2>1. Quiet
    BY <1>1, <1>5, Constants DEF SchedTypeOK, Forking, Goto, sched, create, K, U,
                                 Trap, TrapDone, Exit
  <2>. QED  BY <2>1, FamilyQuiet
<1>6. CASE SleepCall(c) \/ SleepYield(c) \/ SleepDone(c)
  <2>1. Quiet
    BY <1>1, <1>6 DEF SchedTypeOK, Forking, Goto, sched, create, K, U,
                      SleepCall, SleepYield, SleepDone
  <2>. QED  BY <2>1, FamilyQuiet
<1>7. CASE Advance(c)
  <2>1. Quiet
    BY <1>1, <1>7 DEF SchedTypeOK, Forking, Goto, sched, create, K, U, Advance
  <2>. QED  BY <2>1, FamilyQuiet
<1>8. CASE Switch(c)
  <2>1. \A d \in Cpu \ {c} : pc'[d] = pc[d]
    BY <1>1, <1>8 DEF SchedTypeOK, Switch, Goto
  <2>2. pc'[c] \in {"run", "sleep", "panic"}
    BY <1>1, <1>8, Resumed DEF SchedTypeOK
  <2>3. Quiet
    BY <1>8, <2>1, <2>2 DEF Forking, create, U, Switch
  <2>. QED  BY <2>3, FamilyQuiet
<1>. QED  BY <1>2, <1>3, <1>4, <1>5, <1>6, <1>7, <1>8 DEF CpuStep

(* Every step keeps it.                                                    *)
LEMMA FamilyStep ==
    ASSUME SchedAssumption, IInv, FamilyInv, [Next]_vars
    PROVE  FamilyInv'
<1>1. SchedTypeOK /\ Boot
  BY DEF IInv
<1>2. CASE UNCHANGED vars
  BY <1>2, FamilyQuiet DEF vars, family, Forking
<1>3. CASE MpeInit
  <2>1. \A d \in Cpu : ~Forking(d)'
    BY <1>3 DEF MpeInit, Forking, U
  <2>2. UNCHANGED <<family, status>>
    BY <1>3 DEF MpeInit, family, sched
  <2>. QED  BY <2>1, <2>2, FamilyQuiet
<1>4. ASSUME NEW c \in Cpu, NEW t \in Task, KCreate(c, t) PROVE FamilyInv'
  <2>1. UNCHANGED family /\ t \in Task
    BY <1>4 DEF KCreate
  <2>2. \A q \in Proc : status'[q] = "unused" => status[q] = "unused"
    BY <1>1, <1>4, Constants DEF KCreate, SchedTypeOK
  <2>3. \A d \in Cpu : Forking(d)' => Forking(d) /\ new'[d] = new[d] /\ curTask'[d] = curTask[d]
    BY <1>1, <1>4 DEF KCreate, SchedTypeOK, Forking, Goto, U
  <2>. QED  BY <2>1, <2>2, <2>3, FamilyQuiet
<1>5. ASSUME NEW c \in Cpu, NEW t \in Task, UCreate(c, t) PROVE FamilyInv'
  BY <1>5, UCreateFamily
<1>6. ASSUME NEW c \in Cpu, CpuStep(c) PROVE FamilyInv'
  BY <1>6, CpuStepFamily
<1>. QED  BY <1>2, <1>3, <1>4, <1>5, <1>6 DEF Next

(* No process has a child at first.                                        *)
LEMMA FamilyInit == ASSUME SchedAssumption, Init PROVE FamilyInv
<1>1. \A p \in Proc : Kids(p) = {}
  BY Constants DEF Init, Kids
<1>2. \A p \in Proc : List(p)
  BY <1>1, FS_EmptySet DEF Init, List
<1>3. Unborn
  BY DEF Init, Unborn, Forking
<1>. QED  BY <1>2, <1>3 DEF FamilyInv, Init

(* A walk of the list of children meets all of them, and no other process. *)
LEMMA WalkMeetsKids ==
    ASSUME SchedAssumption, FamilyInv, NEW p \in Proc, children[p] # Null
    PROVE  Met(bros, children[p]) \ {Null} = Kids(p)
<1> DEFINE w == Walk(bros, children[p])
           N == Cardinality(Task)
<1>1. N \in Nat
  BY FiniteTasks
<1>2. /\ w[0] = children[p]
      /\ \A n \in 1 .. N : w[n] = IF w[n - 1] = Null THEN Null ELSE bros[w[n - 1]]
  BY WalkSteps
<1>3. /\ children[p] \in Kids(p) /\ Null \notin Kids(p)
      /\ \A q \in Kids(p) : bros[q] \in Kids(p) \cup {Null}
  BY Constants DEF FamilyInv, List, Kids
<1> HIDE DEF w
<1>4. \A n \in 0 .. N : w[n] \in Kids(p) \cup {Null}
  <2> DEFINE Bad == {n \in 0 .. N : w[n] \notin Kids(p) \cup {Null}}
  <2> SUFFICES ASSUME Bad # {} PROVE FALSE
    OBVIOUS
  <2>1. PICK n \in Bad : \A k \in Bad : ~(k < n)
    <3>1. Bad \subseteq Nat
      BY <1>1
    <3>. QED  BY <3>1, Smallest
  <2>2. n # 0
    BY <1>2, <1>3
  <2>3. w[n - 1] \in Kids(p) \cup {Null} /\ n \in 1 .. N
    BY <1>1, <2>1, <2>2
  <2>. QED  BY <1>2, <1>3, <2>1, <2>3
<1>5. \E i, j \in 0 .. N : i < j /\ w[i] = w[j]
  <2> DEFINE g == [n \in 0 .. N |-> IF w[n] = Null THEN IdleOf[0] ELSE w[n]]
  <2>1. IdleOf[0] \in Task /\ IdleOf[0] \notin Proc /\ Kids(p) \subseteq Proc
    BY Constants DEF SchedAssumption, Kids
  <2>2. \A n \in 0 .. N : g[n] \in Task
    BY <1>4, <2>1, Constants
  <2>3. \E i, j \in 0 .. N : i < j /\ g[i] = g[j]
    <3> HIDE DEF g
    <3>. QED  BY <2>2, Repeats
  <2>. QED  BY <1>4, <2>1, <2>3
<1>6. PICK i \in 0 .. N, j \in 0 .. N : i < j /\ w[i] = w[j]
  BY <1>5
<1> DEFINE S == {w[n] : n \in 0 .. j - 1}
<1>7. \A n \in 0 .. j - 1 : n \in 0 .. N
  BY <1>1, <1>6
<1>8. ASSUME NEW n \in 0 .. j - 1, w[n] # Null PROVE bros[w[n]] \in S
  <2>1. n + 1 \in 1 .. N /\ n \in 0 .. N /\ (n + 1) - 1 = n
    BY <1>1, <1>6
  <2>2. w[n + 1] = bros[w[n]]
    BY <1>2, <1>8, <2>1
  <2>3. CASE n + 1 = j
    <3>1. i \in 0 .. j - 1 /\ w[n + 1] = w[i]
      BY <1>1, <1>6, <2>3
    <3>. QED  BY <2>2, <3>1
  <2>4. CASE n + 1 # j
    <3>1. n + 1 \in 0 .. j - 1
      BY <1>1, <1>6, <2>4
    <3>. QED  BY <2>2, <3>1
  <2>. QED  BY <2>3, <2>4
<1>9. S \ {Null} = Kids(p)
  <2>1. S \ {Null} \in SUBSET Kids(p)
    BY <1>4, <1>7
  <2>2. children[p] \in S \ {Null}
    <3>1. 0 \in 0 .. j - 1
      BY <1>1, <1>6
    <3>. QED  BY <1>2, <1>3, <3>1
  <2>3. \A q \in S \ {Null} : bros[q] \in (S \ {Null}) \cup {Null}
    BY <1>8
  <2>4. List(p)
    BY DEF FamilyInv
  <2> HIDE DEF S
  <2>. QED  BY <2>1, <2>2, <2>3, <2>4 DEF List
<1>10. Met(bros, children[p]) = {w[n] : n \in 0 .. N}
  BY DEF Met, w
<1>. QED  BY <1>4, <1>7, <1>9, <1>10

(* The list children, bros, bros, ... of a process holds its children,     *)
(* each once, and nchildren counts them (fork, uproc.c), for any number of *)
(* CPUs and processes, as long as kcreate is not called after mpe_init.    *)
THEOREM FamilyOKHolds ==
    ASSUME SchedAssumption, RuntimeCreate = FALSE
    PROVE  Spec => []FamilyOK
<1>1. Init => FamilyInv
  BY FamilyInit
<1>2. IInv /\ FamilyInv /\ [Next]_vars => FamilyInv'
  BY FamilyStep
<1>3. FamilyInv => FamilyOK
  <2> SUFFICES ASSUME FamilyInv, NEW p \in Proc
               PROVE  LET kids == IF children[p] = Null THEN {}
                                  ELSE Met(bros, children[p]) \ {Null}
                      IN  /\ kids = {q \in Proc : parent[q] = p}
                          /\ nchildren[p] = Cardinality(kids)
    BY DEF FamilyOK
  <2>1. (IF children[p] = Null THEN {} ELSE Met(bros, children[p]) \ {Null}) = Kids(p)
    BY WalkMeetsKids DEF FamilyInv, List
  <2>2. nchildren[p] = Cardinality(Kids(p))
    BY DEF FamilyInv, List
  <2>. QED  BY <2>1, <2>2 DEF Kids
<1>. QED  BY <1>1, <1>2, <1>3, Invariant, PTL DEF Spec
=============================================================================
