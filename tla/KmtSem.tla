------------------------------- MODULE KmtSem -------------------------------
(***************************************************************************)
(* The semaphores of kernel/src/kmt.c, used by the producers and consumers *)
(* of kernel/src/os.c.                                                     *)
(*                                                                         *)
(* A semaphore is guarded by a bare lock_t, taken with interrupts on: the  *)
(* timer may switch out a thread that holds it, and the next thread then   *)
(* spins until its own time is up.  A thread that finds no token gives the *)
(* lock back and yields.  os_trap, which runs with interrupts off and      *)
(* touches its own CPU only, is one step here: the next task of the ring.  *)
(***************************************************************************)
EXTENDS Integers, Sequences, FiniteSets

CONSTANTS
    Cpu,
    Ring,           \* [Cpu -> Seq(Thread \cup {Idle})]
    Idle,           \* os_run's while (1) yield()
    Opener, Closer, \* the threads that run producer1 and consumer1
    Capacity        \* the initial value of empty1

Thread == Opener \cup Closer
Sem == {"empty", "fill"}

ASSUME KmtSemAssumption ==
    /\ Capacity \in Nat
    /\ IsFiniteSet(Opener) /\ IsFiniteSet(Closer)
    /\ Opener \cap Closer = {} /\ Idle \notin Thread
    /\ Ring \in [Cpu -> Seq(Thread \cup {Idle}) \ {<<>>}]

\* Fault: the consumer waits on the producer's semaphore.
WaitsOn_Same == [t \in Thread |-> "empty"]

\* producer1: P(&empty1); printf("("); V(&fill1).  consumer1 the other way.
WaitsOn == [t \in Thread |-> IF t \in Opener THEN "empty" ELSE "fill"]
Signals == [t \in Thread |-> IF t \in Opener THEN "fill" ELSE "empty"]
Initial == [s \in Sem |-> IF s = "empty" THEN Capacity ELSE 0]

VARIABLES
    value,      \* [Sem -> Int]
    flag,       \* [Sem -> BOOLEAN]: sem->lk
    at,         \* [Cpu -> Nat]: the position in Ring of the running task
    pc,         \* [Thread -> Pc]
    v,          \* [Thread -> Int]: the value a thread has loaded
    depth       \* '(' printed less ')' printed

vars == <<value, flag, at, pc, v, depth>>

\* "w_*" in sem_wait, "s_*" in sem_signal.
Pc == {"w_lock", "w_load", "w_store", "w_unlock", "w_fail", "yield",
       "print", "s_lock", "s_load", "s_store", "s_unlock"}

Running(t) == \E c \in Cpu : Ring[c][at[c]] = t

Goto(t, p) == pc' = [pc EXCEPT ![t] = p]

At(t, p) == Running(t) /\ pc[t] = p

Init ==
    /\ value = Initial
    /\ flag = [s \in Sem |-> FALSE]
    /\ at = [c \in Cpu |-> 1]
    /\ pc = [t \in Thread |-> "w_lock"]
    /\ v = [t \in Thread |-> 0]
    /\ depth = 0

-----------------------------------------------------------------------------
(* lock, unlock, and the scheduler                                         *)

\* while (atomic_xchg(&m->flag, 1)): a thread spins until it gets 0.
Acquire(t, s, p) ==
    /\ ~flag[s] /\ flag' = [flag EXCEPT ![s] = TRUE]
    /\ Goto(t, p)
    /\ UNCHANGED <<value, at, v, depth>>

Release(t, s, p) ==
    /\ flag' = [flag EXCEPT ![s] = FALSE]
    /\ Goto(t, p)
    /\ UNCHANGED <<value, at, v, depth>>

NextTask(c) == at' = [at EXCEPT ![c] = (@ % Len(Ring[c])) + 1]

\* A timer interrupt, or the idle task's yield.
Preempt(c) == NextTask(c) /\ UNCHANGED <<value, flag, pc, v, depth>>

-----------------------------------------------------------------------------
(* sem_wait                                                                *)

WaitLock(t) == At(t, "w_lock") /\ Acquire(t, WaitsOn[t], "w_load")

\* Fault: a token is taken without one being there.
WaitLoad_NonNegative(t) ==
    /\ At(t, "w_load")
    /\ v' = [v EXCEPT ![t] = value[WaitsOn[t]]]
    /\ Goto(t, IF value[WaitsOn[t]] >= 0 THEN "w_store" ELSE "w_fail")
    /\ UNCHANGED <<value, flag, at, depth>>

\* if (sem->value > 0)
WaitLoad(t) ==
    /\ At(t, "w_load")
    /\ v' = [v EXCEPT ![t] = value[WaitsOn[t]]]
    /\ Goto(t, IF value[WaitsOn[t]] > 0 THEN "w_store" ELSE "w_fail")
    /\ UNCHANGED <<value, flag, at, depth>>

\* sem->value --; acquire = 1;
WaitStore(t) ==
    /\ At(t, "w_store")
    /\ value' = [value EXCEPT ![WaitsOn[t]] = v[t] - 1]
    /\ Goto(t, "w_unlock")
    /\ UNCHANGED <<flag, at, v, depth>>

\* unlock(&sem->lk); the waiter leaves the loop if it has acquired.
WaitUnlock(t) ==
    \/ At(t, "w_unlock") /\ Release(t, WaitsOn[t], "print")
    \/ At(t, "w_fail") /\ Release(t, WaitsOn[t], "yield")

\* if (!acquire) yield(); and the loop again.
Yield(t) ==
    \E c \in Cpu :
        /\ Ring[c][at[c]] = t /\ pc[t] = "yield"
        /\ NextTask(c)
        /\ Goto(t, "w_lock")
        /\ UNCHANGED <<value, flag, v, depth>>

\* printf("(") or printf(")"), between P and V.
Use(t) ==
    /\ At(t, "print")
    /\ depth' = IF t \in Opener THEN depth + 1 ELSE depth - 1
    /\ Goto(t, "s_lock")
    /\ UNCHANGED <<value, flag, at, v>>

-----------------------------------------------------------------------------
(* sem_signal                                                              *)

SignalLock(t) == At(t, "s_lock") /\ Acquire(t, Signals[t], "s_load")

\* sem->value ++; a load and a store.
SignalLoad(t) ==
    /\ At(t, "s_load")
    /\ v' = [v EXCEPT ![t] = value[Signals[t]]]
    /\ Goto(t, "s_store")
    /\ UNCHANGED <<value, flag, at, depth>>

\* Fault: the increment is lost.
SignalStore_Lost(t) ==
    /\ At(t, "s_store") /\ Goto(t, "s_unlock")
    /\ UNCHANGED <<value, flag, at, v, depth>>

SignalStore(t) ==
    /\ At(t, "s_store")
    /\ value' = [value EXCEPT ![Signals[t]] = v[t] + 1]
    /\ Goto(t, "s_unlock")
    /\ UNCHANGED <<flag, at, v, depth>>

SignalUnlock(t) == At(t, "s_unlock") /\ Release(t, Signals[t], "w_lock")

-----------------------------------------------------------------------------
Locking(t) == WaitLock(t) \/ SignalLock(t)

Working(t) ==
    \/ WaitLoad(t) \/ WaitStore(t) \/ WaitUnlock(t) \/ Yield(t) \/ Use(t)
    \/ SignalLoad(t) \/ SignalStore(t) \/ SignalUnlock(t)

Next ==
    \/ \E t \in Thread : Locking(t) \/ Working(t)
    \/ \E c \in Cpu : Preempt(c)

Spec == Init /\ [][Next]_vars

\* The timer of each CPU keeps ticking, and a slice is long enough for a
\* step: a thread that is switched in again and again gets its step done.
SliceFairness ==
    /\ \A c \in Cpu : WF_vars(Preempt(c))
    /\ \A t \in Thread : SF_vars(Working(t))

\* On one CPU a lock that is free while a thread runs is the thread's to take.
LockFairness == \A t \in Thread : SF_vars(WaitLock(t)) /\ SF_vars(SignalLock(t))

FairSpec == Spec /\ SliceFairness /\ LockFairness

-----------------------------------------------------------------------------
(* Properties                                                              *)

\* The variables keep their types.
TypeOK ==
    /\ value \in [Sem -> Int]
    /\ flag \in [Sem -> BOOLEAN]
    /\ at \in [Cpu -> Nat \ {0}]
    /\ \A c \in Cpu : at[c] <= Len(Ring[c])
    /\ pc \in [Thread -> Pc]
    /\ v \in [Thread -> Int]
    /\ depth \in Int

\* The threads inside the critical section of s, running or switched out.
Inside(s) ==
    {t \in Thread :
        \/ WaitsOn[t] = s /\ pc[t] \in {"w_load", "w_store", "w_unlock", "w_fail"}
        \/ Signals[t] = s /\ pc[t] \in {"s_load", "s_store", "s_unlock"}}

\* A thread switched out in the middle of sem_wait or sem_signal keeps every
\* other thread, on any CPU, out of the same semaphore (kmt.c 68-85).
MutualExclusion ==
    \A s \in Sem :
        /\ flag[s] <=> Inside(s) # {}
        /\ \A t, u \in Inside(s) : t = u

\* What the parentheses are printed for: never one too many is open, and none
\* is closed that was not opened (os.c 7-8).
Balanced == 0 <= depth /\ depth <= Capacity

\* As long as there is room, parentheses go on being opened (os.c 7-8).
KeepsPrinting ==
    Capacity > 0 => []<>(\E t \in Opener : pc[t] = "print")

\* The thread has a token between sem_wait's store and sem_signal's.
HasToken(t) == pc[t] \in {"w_unlock", "print", "s_lock", "s_load", "s_store"}
Holds == [t \in Thread |-> HasToken(t)]

Abstract == INSTANCE Semaphore WITH count <- value, holds <- Holds

\* Semaphores guarded by a preemptible spin lock implement counting semaphores.
ImplementsSemaphore == Abstract!Spec

-----------------------------------------------------------------------------
(* The inductive invariant                                                 *)

\* The lock's holder acts on the value it has loaded.
LoadedValue ==
    \A t \in Thread :
        /\ pc[t] = "w_store" => v[t] = value[WaitsOn[t]] /\ v[t] > 0
        /\ pc[t] = "s_store" => v[t] = value[Signals[t]]

\* The threads of S at a place in P, when f is the pc.
Count(f, S, P) == Cardinality({t \in S : f[t] \in P})

Held == {"w_unlock", "print"}               \* a token taken, nothing printed
Used == {"s_lock", "s_load", "s_store"}     \* printed, not yet signalled

\* Every token is in empty1, in fill1 or with a thread.
Accounting ==
    /\ \A s \in Sem : value[s] >= 0
    /\ value["empty"] + Count(pc, Opener, Held) + depth
          + Count(pc, Closer, Used) = Capacity
    /\ value["fill"] + Count(pc, Opener, Used) + Count(pc, Closer, Held) = depth

IInv == TypeOK /\ MutualExclusion /\ LoadedValue /\ Accounting
=============================================================================
