------------------------- MODULE KmtSpinlockProofs -------------------------
(***************************************************************************)
(* Proofs about the spin lock of kernel/src/kmt.c for any number of CPUs,  *)
(* tasks and locks.  IInv of KmtSpinlock is inductive: every step is one   *)
(* of an agent its CPU is executing, or of the trap handler's entry, switch*)
(* and return, which change who that agent is.                             *)
(***************************************************************************)
EXTENDS KmtSpinlock, TLAPS

-----------------------------------------------------------------------------
(* Who runs where.                                                         *)

\* The agent a CPU is executing is an agent of that CPU, and no other agent
\* of the CPU is being executed.
LEMMA ExecOf ==
    ASSUME TypeOK, CurInv
    PROVE  /\ \A c \in Cpu : Exec(c) \in Agent /\ CpuOf(Exec(c)) = c
           /\ \A a \in Agent : CpuOf(a) \in Cpu
           /\ \A a, b \in Agent :
                 Executing(a) /\ Executing(b) /\ CpuOf(a) = CpuOf(b) => a = b
BY ModelAssumption DEF TypeOK, CurInv, Exec, CpuOf, Agent, Executing

\* A step of one executing agent, which leaves the other agents and the other
\* CPUs alone, preserves the invariant's parts about agents if it preserves
\* them for that agent.
LEMMA OneAgent ==
    ASSUME IInv, NEW a \in Agent, Executing(a), UNCHANGED trapVars,
           \A b \in Agent \ {a} : /\ pc'[b] = pc[b] /\ lk'[b] = lk[b]
                                  /\ depth'[b] = depth[b] /\ i'[b] = i[b],
           \A d \in Cpu \ {CpuOf(a)} : /\ nest'[d] = nest[d]
                                       /\ intenb'[d] = intenb[d]
                                       /\ ienabled'[d] = ienabled[d],
           TypeOK', Running(a)', MutualExclusion',
           lk'[a] = NoLock <=> pc'[a] \in {"run", "su_iset"}
    PROVE  IInv'
<1>1. CurInv' /\ SavedInv' /\ LkInv'
  BY DEF IInv, CurInv, SavedInv, LkInv, trapVars, BaseIF
<1>2. \A b \in Agent : Executing(b)' <=> Executing(b)
  BY DEF Executing, Exec, trapVars, CpuOf
<1>3. ASSUME NEW b \in Agent \ {a}, Executing(b)
      PROVE  Running(b)'
  <2>1. CpuOf(b) \in Cpu \ {CpuOf(a)}
    BY <1>3, ExecOf DEF IInv
  <2>2. Running(b)
    BY <1>3 DEF IInv, AgentInv
  <2> QED BY <2>1, <2>2 DEF Running, NestOf, Unmasked, CpuOf, BaseIF
<1>4. ASSUME NEW b \in Agent \ {a}, ~Executing(b)
      PROVE  Suspended(b)'
  BY <1>4 DEF IInv, AgentInv, Suspended, BaseIF
<1>5. AgentInv'
  BY <1>2, <1>3, <1>4 DEF AgentInv
<1> QED BY <1>1, <1>5 DEF IInv

-----------------------------------------------------------------------------
(* spin_lock                                                               *)

\* spin_lock's entry reads the interrupt flag the agent runs with.
LEMMA SpinLockStep ==
    ASSUME IInv, NEW a \in Agent, NEW l \in Spinlock, SpinLock(a, l)
    PROVE  IInv'
<1>1. Running(a) /\ Executing(a) /\ CpuOf(a) \in Cpu
  BY ExecOf DEF IInv, AgentInv, SpinLock
<1>2. a \notin Idles
  BY ModelAssumption DEF SpinLock, Takes, Idles
<1>3. TypeOK'
  BY <1>1 DEF IInv, TypeOK, SpinLock, cpuVars, trapVars, Pc
<1>4. Running(a)'
  BY <1>1, <1>2, ModelAssumption
  DEF IInv, TypeOK, SpinLock, Running, NestOf, Unmasked, CpuOf, BaseIF,
      cpuVars, Idles
<1>5. MutualExclusion'
  BY <1>1 DEF IInv, TypeOK, MutualExclusion, Holds, SpinLock, Running
<1> QED
  BY <1>1, <1>3, <1>4, <1>5, OneAgent, ModelAssumption
  DEF SpinLock, IInv, TypeOK, cpuVars

\* A nested entry changes nothing but the agent's position.
LEMMA SpinLockAgainStep ==
    ASSUME IInv, NEW a \in Agent, SpinLockAgain(a)
    PROVE  IInv'
<1>1. Running(a) /\ Executing(a) /\ CpuOf(a) \in Cpu
  BY ExecOf DEF IInv, AgentInv, SpinLockAgain
<1>3. TypeOK'
  BY <1>1 DEF IInv, TypeOK, SpinLockAgain, cpuVars, trapVars, Pc
<1>4. Running(a)'
  BY <1>1
  DEF IInv, TypeOK, SpinLockAgain, Running, NestOf, Unmasked, CpuOf, BaseIF,
      cpuVars, Idles
<1>5. MutualExclusion'
  BY DEF IInv, MutualExclusion, Holds, SpinLockAgain
<1> QED
  BY <1>1, <1>3, <1>4, <1>5, OneAgent
  DEF SpinLockAgain, IInv, TypeOK, LkInv, cpuVars

\* iset(false) masks interrupts of the CPU the agent runs on.
LEMMA SlIsetStep ==
    ASSUME IInv, NEW a \in Agent, SlIset(a)
    PROVE  IInv'
<1>1. Running(a) /\ Executing(a) /\ CpuOf(a) \in Cpu
  BY ExecOf DEF IInv, AgentInv, SlIset
<1>2. TypeOK'
  BY <1>1 DEF IInv, TypeOK, SlIset, trapVars, Pc
<1>3. Running(a)'
  BY <1>1
  DEF IInv, TypeOK, SlIset, Running, NestOf, Unmasked, CpuOf, BaseIF, Idles
<1>4. MutualExclusion'
  BY DEF IInv, MutualExclusion, Holds, SlIset
<1> QED
  BY <1>1, <1>2, <1>3, <1>4, OneAgent DEF SlIset, IInv, TypeOK, LkInv

\* nest[c]++: the counter is 0 exactly when the agent holds nothing.
LEMMA SlNestStep ==
    ASSUME IInv, NEW a \in Agent, SlNest(a)
    PROVE  IInv'
<1>1. Running(a) /\ Executing(a) /\ CpuOf(a) \in Cpu
  BY ExecOf DEF IInv, AgentInv, SlNest
<1>2. nest[CpuOf(a)] = depth[a] /\ depth[a] \in 0 .. MaxNest - 1
  BY <1>1, ModelAssumption DEF IInv, TypeOK, SlNest, Running, NestOf
<1>3. ASSUME depth[a] = 0
      PROVE  TypeOK' /\ Running(a)' /\ UNCHANGED depth /\ pc'[a] = "sl_xchg"
  <2>1. /\ nest' = [nest EXCEPT ![CpuOf(a)] = 1]
        /\ intenb' = [intenb EXCEPT ![CpuOf(a)] = i[a]]
        /\ pc' = [pc EXCEPT ![a] = "sl_xchg"]
        /\ UNCHANGED depth
    BY <1>1, <1>2, <1>3 DEF SlNest, IInv, TypeOK
  <2>2. TypeOK'
    BY <1>1, <2>1, ModelAssumption DEF IInv, TypeOK, SlNest, trapVars, Pc
  <2>3. Running(a)'
    BY <1>1, <1>3, <2>1
    DEF IInv, TypeOK, SlNest, Running, NestOf, Unmasked, CpuOf, BaseIF
  <2> QED BY <1>1, <2>1, <2>2, <2>3 DEF IInv, TypeOK
<1>4. ASSUME depth[a] > 0
      PROVE  /\ TypeOK' /\ Running(a)' /\ pc'[a] = "cs"
             /\ depth' = [depth EXCEPT ![a] = @ + 1]
  <2>1. /\ nest' = [nest EXCEPT ![CpuOf(a)] = depth[a] + 1]
        /\ depth' = [depth EXCEPT ![a] = depth[a] + 1]
        /\ pc' = [pc EXCEPT ![a] = "cs"]
        /\ UNCHANGED intenb
    BY <1>1, <1>2, <1>4 DEF SlNest, IInv, TypeOK
  <2>2. depth[a] + 1 \in 0 .. MaxNest /\ depth[a] + 1 > 0
    BY <1>2, ModelAssumption
  <2>3. TypeOK'
    BY <1>1, <2>1, <2>2 DEF IInv, TypeOK, SlNest, trapVars, Pc
  <2>4. Running(a)'
    BY <1>1, <1>4, <2>1, <2>2
    DEF IInv, TypeOK, SlNest, Running, NestOf, Unmasked, CpuOf, BaseIF
  <2> QED BY <1>1, <2>1, <2>3, <2>4 DEF IInv, TypeOK
<1>5. MutualExclusion'
  <2>1. \A b \in Agent : depth'[b] > 0 <=> depth[b] > 0
    BY <1>2, <1>3, <1>4 DEF IInv, TypeOK, SlNest
  <2> QED BY <2>1 DEF IInv, MutualExclusion, Holds, SlNest
<1>6. TypeOK' /\ Running(a)' /\ pc'[a] \in {"sl_xchg", "cs"}
  BY <1>2, <1>3, <1>4
<1>7. lk'[a] = NoLock <=> pc'[a] \in {"run", "su_iset"}
  BY <1>6 DEF SlNest, IInv, LkInv
<1>8. \A b \in Agent \ {a} : /\ pc'[b] = pc[b] /\ lk'[b] = lk[b]
                             /\ depth'[b] = depth[b] /\ i'[b] = i[b]
  BY DEF SlNest, IInv, TypeOK
<1>9. \A d \in Cpu \ {CpuOf(a)} : /\ nest'[d] = nest[d]
                                  /\ intenb'[d] = intenb[d]
                                  /\ ienabled'[d] = ienabled[d]
  BY DEF SlNest, IInv, TypeOK
<1> QED
  BY <1>1, <1>5, <1>6, <1>7, <1>8, <1>9, OneAgent DEF SlNest

\* The exchange that finds the flag 0 makes the agent the only holder.
LEMMA SlXchgStep ==
    ASSUME IInv, NEW a \in Agent, SlXchg(a)
    PROVE  IInv'
<1>1. Running(a) /\ Executing(a) /\ CpuOf(a) \in Cpu
  BY ExecOf DEF IInv, AgentInv, SlXchg
<1>2. depth[a] = 0 /\ depth'[a] = 1 /\ lk[a] \in Spinlock
  <2>1. depth[a] = 0
    BY <1>1 DEF SlXchg, Running
  <2> QED BY <2>1 DEF IInv, TypeOK, SlXchg, LkInv
<1>3. TypeOK'
  BY <1>1, <1>2, ModelAssumption
  DEF IInv, TypeOK, SlXchg, cpuVars, trapVars, Pc
<1>4. Running(a)'
  BY <1>1, <1>2
  DEF IInv, TypeOK, SlXchg, Running, NestOf, Unmasked, CpuOf, BaseIF, Idles,
      cpuVars
<1>5. MutualExclusion'
  <2>1. \A b \in Agent : ~Holds(b, lk[a])
    BY <1>2 DEF IInv, MutualExclusion, SlXchg
  <2>2. \A b \in Agent, l \in Spinlock :
           Holds(b, l)' <=> Holds(b, l) \/ (b = a /\ l = lk[a])
    BY <1>2 DEF IInv, TypeOK, SlXchg, Holds
  <2>3. \A l \in Spinlock : flag'[l] = IF l = lk[a] THEN 1 ELSE flag[l]
    BY DEF IInv, TypeOK, SlXchg
  <2> QED BY <1>2, <2>1, <2>2, <2>3 DEF IInv, MutualExclusion
<1> QED
  BY <1>1, <1>3, <1>4, <1>5, OneAgent DEF SlXchg, IInv, TypeOK, LkInv, cpuVars

-----------------------------------------------------------------------------
(* spin_unlock                                                             *)

\* nest[c]--: it reaches 0 exactly with the agent's last call.
LEMMA SuNestStep ==
    ASSUME IInv, NEW a \in Agent, SuNest(a)
    PROVE  IInv'
<1>1. Running(a) /\ Executing(a) /\ CpuOf(a) \in Cpu
  BY ExecOf DEF IInv, AgentInv, SuNest
<1>2. nest[CpuOf(a)] = depth[a] /\ depth[a] \in 1 .. MaxNest
  BY <1>1, ModelAssumption DEF IInv, TypeOK, SuNest, Running, NestOf
<1>3. ASSUME depth[a] = 1
      PROVE  TypeOK' /\ Running(a)' /\ UNCHANGED depth /\ pc'[a] = "su_xchg"
  <2>1. /\ nest' = [nest EXCEPT ![CpuOf(a)] = 0]
        /\ pc' = [pc EXCEPT ![a] = "su_xchg"]
        /\ UNCHANGED depth
    BY <1>1, <1>2, <1>3 DEF SuNest, IInv, TypeOK
  <2>2. TypeOK'
    BY <1>1, <2>1, ModelAssumption DEF IInv, TypeOK, SuNest, trapVars, Pc
  <2>3. Running(a)'
    BY <1>1, <1>3, <2>1
    DEF IInv, TypeOK, SuNest, Running, NestOf, Unmasked, CpuOf, BaseIF
  <2> QED BY <1>1, <2>1, <2>2, <2>3 DEF IInv, TypeOK
<1>4. ASSUME depth[a] > 1
      PROVE  /\ TypeOK' /\ Running(a)' /\ pc'[a] = "leaving"
             /\ depth' = [depth EXCEPT ![a] = @ - 1]
  <2>1. /\ nest' = [nest EXCEPT ![CpuOf(a)] = depth[a] - 1]
        /\ depth' = [depth EXCEPT ![a] = depth[a] - 1]
        /\ pc' = [pc EXCEPT ![a] = "leaving"]
    BY <1>1, <1>2, <1>4 DEF SuNest, IInv, TypeOK
  <2>2. depth[a] - 1 \in 0 .. MaxNest /\ depth[a] - 1 > 0
    BY <1>2, <1>4, ModelAssumption
  <2>3. TypeOK'
    BY <1>1, <2>1, <2>2 DEF IInv, TypeOK, SuNest, trapVars, Pc
  <2>4. Running(a)'
    BY <1>1, <1>4, <2>1, <2>2
    DEF IInv, TypeOK, SuNest, Running, NestOf, Unmasked, CpuOf, BaseIF
  <2> QED BY <1>1, <2>1, <2>3, <2>4 DEF IInv, TypeOK
<1>5. depth[a] = 1 \/ depth[a] > 1
  BY <1>2, ModelAssumption
<1>6. MutualExclusion'
  <2>1. \A b \in Agent : depth'[b] > 0 <=> depth[b] > 0
    BY <1>2, <1>3, <1>4, <1>5 DEF IInv, TypeOK
  <2> QED BY <2>1 DEF IInv, MutualExclusion, Holds, SuNest
<1> QED
  BY <1>1, <1>3, <1>4, <1>5, <1>6, OneAgent DEF SuNest, IInv, TypeOK, LkInv

\* Clearing the flag leaves the lock with no holder.
LEMMA SuXchgStep ==
    ASSUME IInv, NEW a \in Agent, SuXchg(a)
    PROVE  IInv'
<1>1. Running(a) /\ Executing(a) /\ CpuOf(a) \in Cpu
  BY ExecOf DEF IInv, AgentInv, SuXchg
<1>2. depth[a] = 1 /\ depth'[a] = 0 /\ lk[a] \in Spinlock
  BY <1>1, ModelAssumption, SMTT(60) DEF IInv, TypeOK, SuXchg, Running, LkInv
<1>3. TypeOK'
  BY <1>1, <1>2, ModelAssumption
  DEF IInv, TypeOK, SuXchg, cpuVars, trapVars, Pc
<1>4. Running(a)'
  BY <1>1, <1>2
  DEF IInv, TypeOK, SuXchg, Running, NestOf, Unmasked, CpuOf, BaseIF, Idles,
      cpuVars
<1>5. MutualExclusion'
  <2>1. Holds(a, lk[a])
    BY <1>2 DEF Holds
  <2>2. \A b \in Agent, l \in Spinlock : Holds(b, l)' <=> Holds(b, l) /\ b # a
    BY <1>2 DEF IInv, TypeOK, SuXchg, Holds
  <2>3. \A l \in Spinlock : flag'[l] = IF l = lk[a] THEN 0 ELSE flag[l]
    BY DEF IInv, TypeOK, SuXchg
  <2>4. \A l \in Spinlock : Holds(a, l) => l = lk[a]
    BY DEF Holds
  <2> QED BY <1>2, <2>1, <2>2, <2>3, <2>4 DEF IInv, MutualExclusion
<1> QED
  BY <1>1, <1>3, <1>4, <1>5, OneAgent DEF SuXchg, IInv, TypeOK, LkInv, cpuVars

\* The saved interrupt state is the one the agent has outside.
LEMMA SuIsetStep ==
    ASSUME IInv, NEW a \in Agent, SuIset(a)
    PROVE  IInv'
<1>1. Running(a) /\ Executing(a) /\ CpuOf(a) \in Cpu
  BY ExecOf DEF IInv, AgentInv, SuIset
<1>2. TypeOK'
  BY <1>1 DEF IInv, TypeOK, SuIset, trapVars, Pc
<1>3. Running(a)'
  BY <1>1
  DEF IInv, TypeOK, SuIset, Running, NestOf, Unmasked, CpuOf, BaseIF, Idles
<1>4. MutualExclusion'
  BY DEF IInv, MutualExclusion, Holds, SuIset
<1> QED
  BY <1>1, <1>2, <1>3, <1>4, OneAgent DEF SuIset, IInv, TypeOK, LkInv

-----------------------------------------------------------------------------
(* Traps                                                                   *)

\* A step that changes which agent CPU c executes, and leaves the agents'
\* positions and the locks alone, preserves the invariant if the agent it
\* leaves may be switched out and the fields of c suit the one it enters.
LEMMA OneSwitch ==
    ASSUME IInv, NEW c \in Cpu, NEW e \in Agent, TypeOK', CurInv', SavedInv',
           UNCHANGED <<flag, nest, intenb, pc, lk, depth, i>>,
           \A d \in Cpu \ {c} : /\ curTask'[d] = curTask[d]
                                /\ stage'[d] = stage[d]
                                /\ ienabled'[d] = ienabled[d],
           CpuOf(e) = c, (Exec(c) = e)', Running(e)',
           Exec(c) = e \/ Suspended(Exec(c))
    PROVE  IInv'
<1>1. LkInv' /\ MutualExclusion'
  BY DEF IInv, LkInv, MutualExclusion, Holds
<1>2. \A d \in Cpu \ {c} : Exec(d)' = Exec(d)
  BY DEF Exec
<1>3. ASSUME NEW a \in Agent
      PROVE  IF Executing(a)' THEN Running(a)' ELSE Suspended(a)'
  <2>1. CASE CpuOf(a) # c
    <3>1. CpuOf(a) \in Cpu \ {c}
      BY <2>1, ExecOf DEF IInv
    <3>2. Executing(a)' <=> Executing(a)
      BY <1>2, <3>1 DEF Executing, CpuOf
    <3>3. Running(a) => Running(a)'
      BY <3>1 DEF Running, NestOf, Unmasked, CpuOf, BaseIF
    <3>4. Suspended(a) => Suspended(a)'
      BY DEF Suspended, BaseIF
    <3> QED BY <3>2, <3>3, <3>4 DEF IInv, AgentInv
  <2>2. CASE a = e
    BY <2>2 DEF Executing, CpuOf
  <2>3. CASE CpuOf(a) = c /\ a # e
    <3>1. ~Executing(a)'
      BY <2>3 DEF Executing, CpuOf
    <3>2. Suspended(a)
      BY <2>3 DEF IInv, AgentInv, Executing
    <3>3. Suspended(a)'
      BY <3>2 DEF Suspended, BaseIF
    <3> QED BY <3>1, <3>3
  <2> QED BY <2>1, <2>2, <2>3
<1> QED BY <1>1, <1>3 DEF IInv, AgentInv

\* The interrupted task is outside, or just before iset(false).
LEMMA TrapEntryStep ==
    ASSUME IInv, NEW c \in Cpu, NEW t \in Task, t = curTask[c], Trap(c)
    PROVE  IInv'
<1>1. t \in Agent /\ t \in Task /\ CpuOf(t) = c /\ Exec(c) = t /\ Executing(t)
      /\ c \in Agent /\ CpuOf(c) = c /\ ~Executing(c)
  BY ModelAssumption
  DEF IInv, TypeOK, CurInv, Trap, Exec, CpuOf, Executing, Agent
<1>2. Running(t) /\ Suspended(c)
  BY <1>1 DEF IInv, AgentInv
<1>3. Unmasked(t) /\ ienabled[c] = BaseIF(t)
  BY <1>1, <1>2 DEF Running, Unmasked, Trap, IInv, TypeOK, BaseIF
<1>4. TypeOK'
  BY DEF IInv, TypeOK, Trap, Stage
<1>5. CurInv'
  BY DEF IInv, CurInv, Trap
<1>6. SavedInv'
  BY <1>3 DEF IInv, SavedInv, TypeOK, Trap, BaseIF
<1>7. Suspended(t)
  BY <1>1, <1>2, <1>3, ModelAssumption
  DEF Running, Suspended, Unmasked, BaseIF, Idles
<1>8. (Exec(c) = c)'
  BY DEF Trap, Exec, IInv, TypeOK
<1>9. Running(c)'
  <2>1. nest[c] = 0
    BY <1>1, <1>2, <1>3 DEF Running, NestOf, Unmasked
  <2>2. nest' = nest /\ ienabled'[c] = FALSE /\ pc' = pc /\ depth' = depth
    BY DEF Trap, IInv, TypeOK
  <2>3. pc[c] = "run" /\ depth[c] = 0
    BY <1>2 DEF Suspended
  <2>4. nest'[c] = 0 /\ pc'[c] = "run" /\ depth'[c] = 0 /\ ~(depth'[c] > 0)
    BY <2>1, <2>2, <2>3
  <2>5. BaseIF(c) = FALSE
    BY ModelAssumption DEF BaseIF
  <2>6. ienabled'[c] = BaseIF(c)
    BY <2>2, <2>5, Zenon
  <2>7. c \notin Idles
    BY ModelAssumption DEF Idles
  <2> QED
    BY <1>1, <2>4, <2>6, <2>7 DEF Running, NestOf, Unmasked, BaseIF
<1>10. \A d \in Cpu \ {c} : /\ curTask'[d] = curTask[d]
                            /\ stage'[d] = stage[d]
                            /\ ienabled'[d] = ienabled[d]
  BY DEF Trap, IInv, TypeOK
<1> QED
  BY <1>1, <1>4, <1>5, <1>6, <1>7, <1>8, <1>9, <1>10, OneSwitch DEF Trap

\* The handler goes on: the agent that executes stays the same.
LEMMA HandlerStep ==
    ASSUME IInv, NEW c \in Cpu, IrqDone(c) \/ SleepYield(c) \/ Pick(c)
    PROVE  IInv'
<1>1. stage[c] # "none" /\ stage'[c] # "none"
  BY DEF IrqDone, SleepYield, Pick, IInv, TypeOK
<1>2. Exec(c) = c /\ (Exec(c) = c)' /\ c \in Agent /\ CpuOf(c) = c
  BY <1>1 DEF Exec, Agent, CpuOf
<1>3. TypeOK'
  BY ZenonT(60) DEF IInv, TypeOK, IrqDone, SleepYield, Pick, cpuVars, Stage
<1>4. CurInv' /\ SavedInv'
  BY DEF IInv, CurInv, SavedInv, TypeOK, IrqDone, SleepYield, Pick, BaseIF
<1>5. Running(c)'
  <2>1. Running(c)
    BY <1>2 DEF IInv, AgentInv, Executing
  <2>2. UNCHANGED <<nest, intenb, ienabled, pc, depth, i>>
    BY DEF IrqDone, SleepYield, Pick, cpuVars
  <2> QED BY <2>1, <2>2, Zenon DEF Running, NestOf, Unmasked, BaseIF
<1>6. UNCHANGED <<flag, nest, intenb, ienabled, pc, lk, depth, i>>
  BY DEF IrqDone, SleepYield, Pick, cpuVars
<1>7. \A d \in Cpu \ {c} : curTask'[d] = curTask[d] /\ stage'[d] = stage[d]
  BY DEF IrqDone, SleepYield, Pick, IInv, TypeOK
<1> QED BY <1>2, <1>3, <1>4, <1>5, <1>6, <1>7, OneSwitch

\* The task that continues finds the interrupt flag it was interrupted with.
LEMMA IretStep ==
    ASSUME IInv, NEW c \in Cpu, NEW t \in Task, t = curTask[c], Iret(c)
    PROVE  IInv'
<1>1. c \in Agent /\ CpuOf(c) = c /\ Exec(c) = c /\ t \in Agent /\ t \in Task
      /\ CpuOf(t) = c /\ t # c
  BY ModelAssumption DEF IInv, TypeOK, CurInv, Iret, Exec, CpuOf, Agent
<1>2. Running(c) /\ Suspended(t)
  BY <1>1 DEF IInv, AgentInv, Executing
<1>3. nest[c] = 0 /\ ~ienabled[c] /\ depth[c] = 0 /\ Suspended(c)
  BY <1>1, <1>2, ModelAssumption
  DEF Running, Suspended, Iret, NestOf, Unmasked, BaseIF
<1>4. TypeOK'
  <2>1. inKernel' \in [Task -> BOOLEAN] /\ stage' \in [Cpu -> Stage]
    BY DEF IInv, TypeOK, Iret, Stage
  <2>2. ienabled' \in [Cpu -> BOOLEAN]
    BY <1>1 DEF IInv, TypeOK, Iret
  <2> QED BY <2>1, <2>2 DEF IInv, TypeOK, Iret
<1>5. CurInv' /\ SavedInv'
  BY DEF IInv, CurInv, SavedInv, Iret, BaseIF
<1>6. CASE inKernel[t]
  <2>1. (Exec(c) = c)'
    BY <1>6 DEF Exec, Iret, IInv, TypeOK
  <2>2. Running(c)'
    BY <1>2, <1>6 DEF Running, NestOf, Unmasked, CpuOf, BaseIF, Iret
  <2> QED
    BY <1>1, <1>4, <1>5, <1>6, <2>1, <2>2, OneSwitch DEF Iret, IInv, TypeOK
<1>7. CASE ~inKernel[t]
  <2>1. (Exec(c) = t)'
    BY <1>7 DEF Exec, Iret, IInv, TypeOK
  <2>2. ienabled'[c] = BaseIF(t)
    BY <1>1, <1>7 DEF Iret, IInv, TypeOK, SavedInv
  <2>3. Running(t)'
    BY <1>1, <1>2, <1>3, <2>2, ModelAssumption
    DEF Running, Suspended, NestOf, Unmasked, CpuOf, BaseIF, Iret, IInv, TypeOK
  <2> QED
    BY <1>1, <1>3, <1>4, <1>5, <1>7, <2>1, <2>3, OneSwitch
    DEF Iret, IInv, TypeOK
<1> QED BY <1>6, <1>7

-----------------------------------------------------------------------------
(* The theorems                                                            *)

LEMMA InitIInv == Init => IInv
<1> SUFFICES ASSUME Init PROVE IInv
  OBVIOUS
<1>1. TypeOK
  BY ModelAssumption DEF Init, TypeOK, Stage, Pc, Agent
<1>2. CurInv /\ SavedInv /\ LkInv /\ MutualExclusion
  BY ModelAssumption
  DEF Init, CurInv, SavedInv, LkInv, MutualExclusion, Holds, BaseIF
<1>3. ASSUME NEW a \in Agent PROVE Suspended(a)
  BY <1>3 DEF Init, Suspended
<1>4. ASSUME NEW a \in Agent, Executing(a) PROVE Running(a)
  <2>1. CpuOf(a) \in Cpu /\ a = IdleOf[CpuOf(a)]
    BY <1>4, <1>1, <1>2, ExecOf DEF Init, Executing, Exec
  <2>2. BaseIF(a) = FALSE
    BY <2>1 DEF Idles, BaseIF
  <2>3. nest[CpuOf(a)] = 0 /\ ienabled[CpuOf(a)] = FALSE
    BY <2>1 DEF Init
  <2>4. pc[a] = "run" /\ depth[a] = 0
    BY DEF Init
  <2>5. ienabled[CpuOf(a)] = BaseIF(a)
    BY <2>2, <2>3, Zenon
  <2> QED BY <2>3, <2>4, <2>5 DEF Running, NestOf, Unmasked, BaseIF
<1> QED BY <1>1, <1>2, <1>3, <1>4 DEF IInv, AgentInv

LEMMA NextIInv == IInv /\ [Next]_vars => IInv'
<1> SUFFICES ASSUME IInv, [Next]_vars PROVE IInv'
  OBVIOUS
<1>1. ASSUME NEW a \in Agent, NEW l \in Spinlock, SpinLock(a, l) PROVE IInv'
  BY <1>1, SpinLockStep
<1>2. ASSUME NEW a \in Agent, SpinLockAgain(a) PROVE IInv'
  BY <1>2, SpinLockAgainStep
<1>3. ASSUME NEW a \in Agent, LockStep(a) PROVE IInv'
  BY <1>3, SlIsetStep, SlNestStep, SlXchgStep DEF LockStep
<1>4. ASSUME NEW a \in Agent, UnlockStep(a) PROVE IInv'
  BY <1>4, SuNestStep, SuXchgStep, SuIsetStep DEF UnlockStep
<1>5. ASSUME NEW c \in Cpu, Trap(c) \/ SleepYield(c) \/ TrapStep(c) PROVE IInv'
  <2>1. PICK t \in Task : t = curTask[c]
    BY DEF IInv, TypeOK
  <2>2. CASE Trap(c)
    BY <2>1, <2>2, TrapEntryStep
  <2>3. CASE IrqDone(c) \/ SleepYield(c) \/ Pick(c)
    BY <2>3, HandlerStep
  <2>4. CASE Iret(c)
    BY <2>1, <2>4, IretStep
  <2> QED BY <1>5, <2>2, <2>3, <2>4 DEF TrapStep
<1>6. CASE UNCHANGED vars
  <2>1. TypeOK'
    BY <1>6 DEF IInv, TypeOK, vars
  <2>2. CurInv' /\ SavedInv' /\ LkInv' /\ MutualExclusion'
    BY <1>6
    DEF IInv, CurInv, SavedInv, LkInv, MutualExclusion, Holds, BaseIF, vars
  <2>3. AgentInv'
    BY <1>6
    DEF IInv, AgentInv, Executing, Exec, CpuOf, Running, Suspended, NestOf,
        Unmasked, BaseIF, vars
  <2> QED BY <2>1, <2>2, <2>3 DEF IInv
<1> QED BY <1>1, <1>2, <1>3, <1>4, <1>5, <1>6 DEF Next

\* The strengthening is an invariant of every behaviour.
THEOREM Inductive == Spec => []IInv
<1> QED BY InitIInv, NextIInv, PTL DEF Spec

\* The variables keep their types; nest[c] stays between 0 and MaxNest.
THEOREM TypeCorrect == Spec => []TypeOK
<1>1. IInv => TypeOK
  BY DEF IInv
<1> QED BY <1>1, Inductive, PTL

\* A spin lock has at most one holder, and its flag word says whether it has.
THEOREM MutualExclusionHolds == Spec => []MutualExclusion
<1>1. IInv => MutualExclusion
  BY DEF IInv
<1> QED BY <1>1, Inductive, PTL

\* The agent inside a lock keeps its CPU and runs with interrupts off, which
\* is what makes the per-CPU counter nest[] a counter of that agent's calls.
THEOREM HolderNotPreemptedHolds == Spec => []HolderNotPreempted
<1>1. ASSUME IInv, NEW a \in Agent, depth[a] > 0
      PROVE  Executing(a) /\ ~ienabled[CpuOf(a)]
  <2>1. Executing(a)
    BY <1>1 DEF IInv, AgentInv, Suspended
  <2>2. Running(a)
    BY <1>1, <2>1 DEF IInv, AgentInv
  <2> QED BY <1>1, <2>1, <2>2 DEF Running, Unmasked
<1>2. IInv => HolderNotPreempted
  BY <1>1 DEF HolderNotPreempted
<1> QED BY <1>2, Inductive, PTL

\* The assertions of spin_unlock never fail.
THEOREM SafeAssertsHold == Spec => []SafeAsserts
<1>1. ASSUME IInv, NEW a \in Agent, Executing(a)
      PROVE  /\ pc[a] \in {"cs", "leaving"} => nest[CpuOf(a)] >= 1
             /\ pc[a] = "su_iset" => ~ienabled[CpuOf(a)]
  <2>1. Running(a) /\ depth[a] \in Nat
    BY <1>1, ModelAssumption DEF IInv, AgentInv, TypeOK
  <2> QED BY <2>1 DEF Running, NestOf, Unmasked
<1>2. IInv => SafeAsserts
  BY <1>1 DEF SafeAsserts
<1> QED BY <1>2, Inductive, PTL

\* Outside critical sections an agent runs with the interrupt flag its
\* context was made with, whatever nesting and switching came before.
THEOREM InterruptStateRestoredHolds == Spec => []InterruptStateRestored
<1>1. ASSUME IInv, NEW c \in Cpu, pc[Exec(c)] = "run"
      PROVE  ienabled[c] = BaseIF(Exec(c))
  <2>1. Exec(c) \in Agent /\ CpuOf(Exec(c)) = c
    BY <1>1, ExecOf DEF IInv
  <2>2. Running(Exec(c))
    BY <1>1, <2>1 DEF IInv, AgentInv, Executing
  <2> QED BY <1>1, <2>1, <2>2 DEF Running, Unmasked, BaseIF
<1>2. IInv => InterruptStateRestored
  BY <1>1 DEF InterruptStateRestored
<1> QED BY <1>2, Inductive, PTL

-----------------------------------------------------------------------------
(* Refinement of RecursiveLock.                                            *)

\* A step that leaves the agents' locks and depths alone is a stutter.
LEMMA HeldUnchanged ==
    ASSUME \A a \in Agent, l \in Spinlock :
               heldMap'[a][l] = heldMap[a][l]
    PROVE  heldMap' = heldMap
BY DEF heldMap

\* A step that adds one to the depth of an agent whose lock nobody else
\* holds is an Acquire.
LEMMA DeeperIsAcquire ==
    ASSUME IInv, NEW a \in Agent, NEW l \in Spinlock, l = lk[a],
           \A b \in Agent \ {a} : ~Holds(b, l),
           lk' = lk, depth' = [depth EXCEPT ![a] = @ + 1]
    PROVE  Abstract!Acquire(a, l)
<1>1. \A b \in Agent \ {a} : heldMap[b][l] = 0
  BY DEF IInv, TypeOK, Holds, heldMap
<1>2. heldMap' = [heldMap EXCEPT ![a][l] = @ + 1]
  BY ZenonT(60) DEF IInv, TypeOK, heldMap
<1> QED BY <1>1, <1>2 DEF Abstract!Acquire, Abstract!Free

\* A step that takes one from the depth of an agent is a Release.
LEMMA ShallowerIsRelease ==
    ASSUME IInv, NEW a \in Agent, NEW l \in Spinlock, l = lk[a], depth[a] > 0,
           depth' = [depth EXCEPT ![a] = @ - 1],
           \/ lk' = lk
           \/ depth[a] = 1 /\ lk' = [lk EXCEPT ![a] = NoLock]
    PROVE  Abstract!Release(a, l)
<1>1. heldMap[a][l] > 0
  BY DEF heldMap
<1>2. \A b \in Agent, m \in Spinlock :
         heldMap'[b][m] = IF b = a /\ m = l THEN heldMap[b][m] - 1
                          ELSE heldMap[b][m]
  <2>1. CASE lk' = lk
    BY <2>1 DEF IInv, TypeOK, heldMap
  <2>2. CASE depth[a] = 1 /\ lk' = [lk EXCEPT ![a] = NoLock]
    <3>1. lk'[a] = NoLock /\ NoLock \notin Spinlock
      BY <2>2, ModelAssumption DEF IInv, TypeOK
    <3>2. \A b \in Agent \ {a} : lk'[b] = lk[b] /\ depth'[b] = depth[b]
      BY <2>2 DEF IInv, TypeOK
    <3> QED BY <2>2, <3>1, <3>2 DEF heldMap
  <2> QED BY <2>1, <2>2
<1>3. heldMap' = [heldMap EXCEPT ![a][l] = @ - 1]
  <2>1. \A b \in Agent : heldMap[b] = [m \in Spinlock |-> heldMap[b][m]]
    BY DEF heldMap
  <2>2. \A b \in Agent : heldMap'[b] = [m \in Spinlock |-> heldMap'[b][m]]
    BY DEF heldMap
  <2>3. heldMap'[a] = [heldMap[a] EXCEPT ![l] = @ - 1]
    BY <1>2, <2>1, <2>2, ZenonT(60)
  <2>4. ASSUME NEW b \in Agent \ {a}
        PROVE  heldMap'[b] = heldMap[b]
    <3>1. \A m \in Spinlock : heldMap'[b][m] = heldMap[b][m]
      BY <1>2
    <3>2. heldMap'[b] = [m \in Spinlock |-> heldMap[b][m]]
      BY <2>2, <3>1
    <3> QED BY <2>1, <3>2
  <2>5. heldMap = [b \in Agent |-> heldMap[b]]
        /\ heldMap' = [b \in Agent |-> heldMap'[b]]
    BY DEF heldMap
  <2> HIDE DEF heldMap
  <2> QED BY <2>3, <2>4, <2>5
<1> QED BY <1>1, <1>3 DEF Abstract!Release

\* Every step of the lock's code is a step of RecursiveLock or leaves what an
\* agent holds alone.
LEMMA StepRefines ==
    ASSUME IInv, [Next]_vars
    PROVE  [Abstract!Next]_heldMap
<1>1. ASSUME NEW a \in Agent, NEW l \in Spinlock, SpinLock(a, l)
      PROVE  heldMap' = heldMap
  <2>1. depth[a] = 0 /\ depth' = depth
    BY <1>1 DEF SpinLock, IInv, AgentInv, Running
  <2>2. \A b \in Agent \ {a} : lk'[b] = lk[b]
    BY <1>1 DEF SpinLock, IInv, TypeOK
  <2> QED BY <2>1, <2>2, HeldUnchanged DEF heldMap
<1>2. ASSUME NEW a \in Agent,
             SpinLockAgain(a) \/ SlIset(a) \/ SuIset(a)
      PROVE  heldMap' = heldMap
  BY <1>2 DEF heldMap, SpinLockAgain, SlIset, SuIset
<1>3. ASSUME NEW a \in Agent, SlNest(a)
      PROVE  Abstract!Next \/ heldMap' = heldMap
  <2>1. Running(a) /\ lk' = lk /\ CpuOf(a) \in Cpu
    BY <1>3, ExecOf DEF SlNest, IInv, AgentInv
  <2>2. nest[CpuOf(a)] = depth[a] /\ depth[a] \in Nat
    BY <1>3, <2>1, ModelAssumption DEF SlNest, Running, NestOf, IInv, TypeOK
  <2>3. CASE depth[a] = 0
    <3>1. depth' = depth
      BY <1>3, <2>2, <2>3 DEF SlNest
    <3> QED BY <2>1, <3>1 DEF heldMap
  <2>4. CASE depth[a] > 0
    <3>1. depth' = [depth EXCEPT ![a] = @ + 1]
      BY <1>3, <2>2, <2>4 DEF SlNest
    <3>2. PICK l \in Spinlock : l = lk[a]
      BY <1>3 DEF SlNest, IInv, LkInv, TypeOK
    <3>3. \A b \in Agent \ {a} : ~Holds(b, l)
      BY <2>4, <3>2 DEF IInv, MutualExclusion, Holds
    <3> QED
      BY <2>1, <3>1, <3>2, <3>3, DeeperIsAcquire DEF Abstract!Next
  <2> QED BY <2>2, <2>3, <2>4
<1>4. ASSUME NEW a \in Agent, SlXchg(a)
      PROVE  Abstract!Next
  <2>1. PICK l \in Spinlock : l = lk[a]
    BY <1>4 DEF SlXchg, IInv, LkInv, TypeOK
  <2>2. \A b \in Agent : ~Holds(b, l)
    BY <1>4, <2>1 DEF SlXchg, IInv, MutualExclusion
  <2> QED BY <1>4, <2>1, <2>2, DeeperIsAcquire DEF SlXchg, Abstract!Next
<1>5. ASSUME NEW a \in Agent, SuNest(a)
      PROVE  Abstract!Next \/ heldMap' = heldMap
  <2>1. Running(a) /\ lk' = lk /\ CpuOf(a) \in Cpu
    BY <1>5, ExecOf DEF SuNest, IInv, AgentInv
  <2>2. nest[CpuOf(a)] = depth[a] /\ depth[a] \in Nat /\ depth[a] > 0
    BY <1>5, <2>1, ModelAssumption DEF SuNest, Running, NestOf, IInv, TypeOK
  <2>3. CASE depth[a] = 1
    <3>1. depth' = depth
      BY <1>5, <2>2, <2>3 DEF SuNest
    <3> QED BY <2>1, <3>1 DEF heldMap
  <2>4. CASE depth[a] > 1
    <3>1. depth' = [depth EXCEPT ![a] = @ - 1]
      BY <1>5, <2>2, <2>4 DEF SuNest
    <3>2. PICK l \in Spinlock : l = lk[a]
      BY <1>5 DEF SuNest, IInv, LkInv, TypeOK
    <3> QED
      BY <2>1, <2>2, <3>1, <3>2, ShallowerIsRelease DEF Abstract!Next
  <2> QED BY <2>2, <2>3, <2>4
<1>6. ASSUME NEW a \in Agent, SuXchg(a)
      PROVE  Abstract!Next
  <2>1. PICK l \in Spinlock : l = lk[a]
    BY <1>6 DEF SuXchg, IInv, LkInv, TypeOK
  <2>2. depth[a] = 1 /\ depth[a] > 0
    BY <1>6 DEF SuXchg, IInv, AgentInv, Running
  <2>3. Abstract!Release(a, l)
    BY <1>6, <2>1, <2>2, ShallowerIsRelease DEF SuXchg
  <2> QED BY <2>3 DEF Abstract!Next
<1>7. ASSUME NEW c \in Cpu, Trap(c) \/ SleepYield(c) \/ TrapStep(c)
      PROVE  heldMap' = heldMap
  BY <1>7 DEF heldMap, Trap, SleepYield, TrapStep, IrqDone, Pick, Iret
<1>8. UNCHANGED vars => heldMap' = heldMap
  BY DEF heldMap, vars
<1> QED
  BY <1>1, <1>2, <1>3, <1>4, <1>5, <1>6, <1>7, <1>8
  DEF Next, LockStep, UnlockStep

\* spin_lock and spin_unlock implement recursive locks.
THEOREM Refinement == Spec => ImplementsRecursiveLock
<1>1. Init => Abstract!Init
  BY DEF Init, Abstract!Init, heldMap
<1> QED BY <1>1, StepRefines, Inductive, PTL
        DEF Spec, Abstract!Spec, ImplementsRecursiveLock
=============================================================================
