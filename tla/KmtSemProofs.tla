---------------------------- MODULE KmtSemProofs ----------------------------
(***************************************************************************)
(* Proofs about the semaphores of kernel/src/kmt.c, for any number of CPUs,*)
(* any rings, any number of producers and consumers, and any capacity.     *)
(*                                                                         *)
(* IInv of KmtSem is inductive.  Every step of a thread moves that thread  *)
(* from one place to another; LocksStep and CountsStep say what the move  *)
(* does to the critical sections and to the tokens the threads hold.       *)
(***************************************************************************)
EXTENDS KmtSem, TLAPS, FiniteSetTheorems

LEMMA Threads ==
    /\ IsFiniteSet(Thread)
    /\ \A t \in Thread : /\ WaitsOn[t] \in Sem /\ Signals[t] \in Sem
                         /\ WaitsOn[t] # Signals[t]
    /\ \A t \in Opener : /\ t \in Thread /\ t \notin Closer
                         /\ WaitsOn[t] = "empty" /\ Signals[t] = "fill"
    /\ \A t \in Closer : /\ t \in Thread /\ t \notin Opener
                         /\ WaitsOn[t] = "fill" /\ Signals[t] = "empty"
<1>1. IsFiniteSet(Thread)
  BY KmtSemAssumption, FS_Union DEF Thread
<1> QED BY <1>1, KmtSemAssumption DEF Thread, WaitsOn, Signals, Sem

LEMMA CountsAreNaturals ==
    /\ Count(pc, Opener, Held) \in Nat /\ Count(pc, Opener, Used) \in Nat
    /\ Count(pc, Closer, Held) \in Nat /\ Count(pc, Closer, Used) \in Nat
<1> SUFFICES ASSUME NEW S \in {Opener, Closer}, NEW P PROVE Count(pc, S, P) \in Nat
  OBVIOUS
<1>1. IsFiniteSet({t \in S : pc[t] \in P})
  BY KmtSemAssumption, FS_Subset
<1> QED BY <1>1, FS_CardinalityType DEF Count

\* The count of the threads of S in P changes by t's leaving P and entering it.
Counted(S, P, t, p) ==
    /\ Count(pc, S, P) \in Nat /\ Count(pc', S, P) \in Nat
    /\ Count(pc', S, P) = Count(pc, S, P)
         + (IF t \in S /\ p \in P THEN 1 ELSE 0)
         - (IF t \in S /\ pc[t] \in P THEN 1 ELSE 0)

LEMMA CountsStep ==
    ASSUME TypeOK, NEW t \in Thread, NEW p, pc' = [pc EXCEPT ![t] = p],
           NEW S \in SUBSET Thread, NEW P
    PROVE  Counted(S, P, t, p)
<1> DEFINE A == {u \in S : pc[u] \in P}
           B == {u \in S : pc'[u] \in P}
<1> USE DEF TypeOK, Counted
<1>1. IsFiniteSet(S) /\ IsFiniteSet(A) /\ IsFiniteSet(B)
  <2>1. IsFiniteSet(S)
    BY Threads, FS_Subset
  <2> QED BY <2>1, FS_Subset
<1>2. Cardinality(A) \in Nat /\ Cardinality(B) \in Nat
  BY <1>1, FS_CardinalityType
<1>3. CASE t \in S /\ p \in P
  <2>1. B = A \cup {t}
    BY <1>3
  <2>2. t \in A <=> pc[t] \in P
    BY <1>3
  <2> HIDE DEF A, B
  <2>3. Cardinality(B) = IF t \in A THEN Cardinality(A) ELSE Cardinality(A) + 1
    BY <2>1, <1>1, FS_AddElement
  <2>4. Cardinality(B) = Cardinality(A) + 1 - (IF pc[t] \in P THEN 1 ELSE 0)
    BY <2>2, <2>3, <1>2
  <2> QED BY <2>4, <1>2, <1>3 DEF Count, A, B
<1>4. CASE ~(t \in S /\ p \in P)
  <2>1. B = A \ {t}
    BY <1>4
  <2>2. t \in A <=> t \in S /\ pc[t] \in P
    OBVIOUS
  <2> HIDE DEF A, B
  <2>3. Cardinality(B) = IF t \in A THEN Cardinality(A) - 1 ELSE Cardinality(A)
    BY <2>1, <1>1, FS_RemoveElement
  <2>4. Cardinality(B) =
            Cardinality(A) - (IF t \in S /\ pc[t] \in P THEN 1 ELSE 0)
    BY <2>2, <2>3, <1>2
  <2> QED BY <2>4, <1>2, <1>4 DEF Count, A, B
<1> QED BY <1>3, <1>4

-----------------------------------------------------------------------------
(* The steps, one invariant at a time                                      *)

LEMMA InitIInv == Init => IInv
<1> SUFFICES ASSUME Init PROVE IInv
  OBVIOUS
<1>1. TypeOK
  BY KmtSemAssumption DEF Init, TypeOK, Initial, Pc
<1>2. MutualExclusion
  BY DEF Init, MutualExclusion, Inside
<1>3. LoadedValue
  BY DEF Init, LoadedValue
<1>4. \A S \in SUBSET Thread : Count(pc, S, Held) = 0 /\ Count(pc, S, Used) = 0
  <2> TAKE S \in SUBSET Thread
  <2>1. {t \in S : pc[t] \in Held} = {} /\ {t \in S : pc[t] \in Used} = {}
    BY DEF Init, Held, Used
  <2> QED BY <2>1, FS_EmptySet DEF Count
<1>5. Opener \in SUBSET Thread /\ Closer \in SUBSET Thread
  BY DEF Thread
<1>6. Accounting
  <2>1. /\ Count(pc, Opener, Held) = 0 /\ Count(pc, Opener, Used) = 0
        /\ Count(pc, Closer, Held) = 0 /\ Count(pc, Closer, Used) = 0
    BY <1>4, <1>5
  <2>2. depth = 0 /\ value["empty"] = Capacity /\ value["fill"] = 0
    BY DEF Init, Initial, Sem
  <2>3. \A s \in Sem : value[s] >= 0
    BY <2>2, KmtSemAssumption DEF Sem
  <2> QED BY <2>1, <2>2, <2>3, KmtSemAssumption DEF Accounting
<1> QED BY <1>1, <1>2, <1>3, <1>6 DEF IInv

LEMMA TypeStep == TypeOK /\ [Next]_vars => TypeOK'
<1> SUFFICES ASSUME TypeOK, [Next]_vars PROVE TypeOK'
  OBVIOUS
<1> USE DEF TypeOK
<1>1. ASSUME NEW c \in Cpu, NextTask(c)
      PROVE  at' \in [Cpu -> Nat \ {0}] /\ \A d \in Cpu : at'[d] <= Len(Ring[d])
  <2>1. Len(Ring[c]) \in Nat \ {0}
    BY KmtSemAssumption
  <2>2. \A k \in Nat, n \in Nat \ {0} :
            (k % n) + 1 \in Nat \ {0} /\ (k % n) + 1 <= n
    OBVIOUS
  <2> QED BY <1>1, <2>1, <2>2 DEF NextTask
<1>2. ASSUME NEW t \in Thread, Locking(t)
      PROVE  TypeOK'
  BY <1>2, Threads DEF Locking, WaitLock, SignalLock, Acquire, Goto, Pc
<1>3. ASSUME NEW t \in Thread, Working(t)
      PROVE  TypeOK'
  <2>1. CASE WaitLoad(t) \/ SignalLoad(t)
    BY <2>1, Threads, ZenonT(60) DEF WaitLoad, SignalLoad, Goto, Pc
  <2>4. CASE WaitStore(t) \/ SignalStore(t)
    <3>1. value' \in [Sem -> Int]
      BY <2>4 DEF WaitStore, SignalStore
    <3> QED BY <2>4, <3>1 DEF WaitStore, SignalStore, Goto, Pc
  <2>5. CASE WaitUnlock(t) \/ SignalUnlock(t)
    BY <2>5, Threads DEF WaitUnlock, SignalUnlock, Release, Goto, Pc
  <2>2. CASE Yield(t)
    <3>1. PICK c \in Cpu : NextTask(c)
      BY <2>2 DEF Yield
    <3>2. pc' \in [Thread -> Pc] /\ UNCHANGED <<value, flag, v, depth>>
      BY <2>2 DEF Yield, Goto, Pc
    <3>3. at' \in [Cpu -> Nat \ {0}] /\ \A d \in Cpu : at'[d] <= Len(Ring[d])
      BY <3>1, <1>1
    <3> QED BY <3>2, <3>3
  <2>3. CASE Use(t)
    BY <2>3 DEF Use, Goto, Pc
  <2> QED BY <1>3, <2>1, <2>2, <2>3, <2>4, <2>5 DEF Working
<1>4. ASSUME NEW c \in Cpu, Preempt(c)
      PROVE  TypeOK'
  <2>1. UNCHANGED <<value, flag, pc, v, depth>> /\ NextTask(c)
    BY <1>4 DEF Preempt
  <2>2. at' \in [Cpu -> Nat \ {0}] /\ \A d \in Cpu : at'[d] <= Len(Ring[d])
    BY <2>1, <1>1
  <2> QED BY <2>1, <2>2
<1>5. CASE UNCHANGED vars
  BY <1>5 DEF vars
<1> QED BY <1>2, <1>3, <1>4, <1>5 DEF Next

\* A step that leaves the locks alone and moves a thread, if at all, within
\* the critical section it is in or outside all of them.
LEMMA SameSections ==
    ASSUME MutualExclusion, UNCHANGED flag, \A s \in Sem : Inside(s)' = Inside(s)
    PROVE  MutualExclusion'
BY DEF MutualExclusion

LEMMA MutexStep == TypeOK /\ MutualExclusion /\ [Next]_vars => MutualExclusion'
<1> SUFFICES ASSUME TypeOK, MutualExclusion, [Next]_vars PROVE MutualExclusion'
  OBVIOUS
<1>1. ASSUME NEW t \in Thread, NEW s \in Sem, NEW p,
             Acquire(t, s, p),
             \/ pc[t] = "w_lock" /\ s = WaitsOn[t] /\ p = "w_load"
             \/ pc[t] = "s_lock" /\ s = Signals[t] /\ p = "s_load"
      PROVE  MutualExclusion'
  <2>1. Inside(s) = {}
    BY <1>1 DEF Acquire, MutualExclusion
  <2>2. Inside(s)' = {t} /\ \A r \in Sem \ {s} : Inside(r)' = Inside(r)
    BY <1>1, <2>1 DEF Inside, Acquire, Goto, TypeOK
  <2>3. flag'[s] /\ \A r \in Sem \ {s} : flag'[r] = flag[r]
    BY <1>1 DEF Acquire, TypeOK
  <2> QED BY <2>2, <2>3 DEF MutualExclusion
<1>2. ASSUME NEW t \in Thread, NEW s \in Sem, NEW p,
             Release(t, s, p), t \in Inside(s),
             p \in {"print", "yield", "w_lock"}
      PROVE  MutualExclusion'
  <2>1. Inside(s) = {t}
    BY <1>2 DEF MutualExclusion
  <2>2. \A r \in Sem \ {s} : t \notin Inside(r)
    BY <1>2, Threads DEF Inside
  <2>3. Inside(s)' = {} /\ \A r \in Sem \ {s} : Inside(r)' = Inside(r)
    BY <1>2, <2>1, <2>2 DEF Inside, Release, Goto, TypeOK
  <2> QED BY <1>2, <2>3 DEF MutualExclusion, Release, TypeOK
<1>3. ASSUME NEW t \in Thread, Locking(t)
      PROVE  MutualExclusion'
  <2>1. CASE WaitLock(t)
    BY <2>1, <1>1, Threads DEF WaitLock, At
  <2>2. CASE SignalLock(t)
    BY <2>2, <1>1, Threads DEF SignalLock, At
  <2> QED BY <1>3, <2>1, <2>2 DEF Locking
<1>4. ASSUME NEW t \in Thread, Working(t)
      PROVE  MutualExclusion'
  <2>1. CASE WaitLoad(t) \/ WaitStore(t)
    <3>1. \A s \in Sem : Inside(s)' = Inside(s)
      BY <2>1 DEF WaitLoad, WaitStore, Inside, Goto, At, TypeOK
    <3> QED BY <2>1, <3>1, SameSections DEF WaitLoad, WaitStore
  <2>2. CASE SignalLoad(t) \/ SignalStore(t)
    <3>1. \A s \in Sem : Inside(s)' = Inside(s)
      BY <2>2 DEF SignalLoad, SignalStore, Inside, Goto, At, TypeOK
    <3> QED BY <2>2, <3>1, SameSections DEF SignalLoad, SignalStore
  <2>3. CASE Yield(t) \/ Use(t)
    <3>1. \A s \in Sem : Inside(s)' = Inside(s)
      BY <2>3 DEF Yield, Use, Inside, Goto, At, TypeOK
    <3> QED BY <2>3, <3>1, SameSections DEF Yield, Use
  <2>4. CASE WaitUnlock(t)
    <3>1. t \in Inside(WaitsOn[t])
      BY <2>4 DEF WaitUnlock, Inside, At
    <3> QED BY <2>4, <3>1, <1>2, Threads DEF WaitUnlock
  <2>5. CASE SignalUnlock(t)
    <3>1. t \in Inside(Signals[t])
      BY <2>5 DEF SignalUnlock, Inside, At
    <3> QED BY <2>5, <3>1, <1>2, Threads DEF SignalUnlock
  <2> QED BY <1>4, <2>1, <2>2, <2>3, <2>4, <2>5 DEF Working
<1>5. CASE UNCHANGED <<flag, pc>>
  BY <1>5, SameSections DEF Inside
<1> QED BY <1>3, <1>4, <1>5 DEF Next, Preempt, vars

\* Only the thread that holds the lock stores, so what it loaded stays true.
LEMMA LoadedStep ==
    TypeOK /\ MutualExclusion /\ LoadedValue /\ [Next]_vars => LoadedValue'
<1> SUFFICES ASSUME TypeOK, MutualExclusion, LoadedValue, [Next]_vars
             PROVE  LoadedValue'
  OBVIOUS
<1>1. ASSUME NEW t \in Thread, WaitStore(t) \/ SignalStore(t)
      PROVE  LoadedValue'
  <2>1. PICK s \in Sem : /\ t \in Inside(s)
                         /\ \A r \in Sem \ {s} : value'[r] = value[r]
    BY <1>1, Threads DEF WaitStore, SignalStore, Inside, At, TypeOK
  <2>2. \A u \in Thread : u # t =>
            /\ pc[u] = "w_store" => WaitsOn[u] # s
            /\ pc[u] = "s_store" => Signals[u] # s
    BY <2>1 DEF MutualExclusion, Inside
  <2>3. /\ v' = v /\ \A u \in Thread : u # t => pc'[u] = pc[u]
        /\ pc'[t] \notin {"w_store", "s_store"}
    BY <1>1 DEF WaitStore, SignalStore, Goto, TypeOK
  <2> QED BY <2>1, <2>2, <2>3, Threads DEF LoadedValue
<1>2. ASSUME NEW t \in Thread, WaitLoad(t) \/ SignalLoad(t)
      PROVE  LoadedValue'
  BY <1>2 DEF WaitLoad, SignalLoad, LoadedValue, Goto, TypeOK
<1>3. ASSUME NEW t \in Thread,
             Locking(t) \/ WaitUnlock(t) \/ Yield(t) \/ Use(t) \/ SignalUnlock(t)
      PROVE  LoadedValue'
  <2>1. /\ v' = v /\ value' = value
        /\ \A u \in Thread : u # t => pc'[u] = pc[u]
        /\ pc'[t] \notin {"w_store", "s_store"}
    BY <1>3 DEF Locking, WaitLock, SignalLock, Acquire, WaitUnlock, Yield, Use,
                SignalUnlock, Release, Goto, TypeOK
  <2> QED BY <2>1 DEF LoadedValue
<1>4. CASE UNCHANGED <<value, pc, v>>
  BY <1>4 DEF LoadedValue
<1> QED BY <1>1, <1>2, <1>3, <1>4 DEF Next, Working, Preempt, vars

-----------------------------------------------------------------------------
(* Where the tokens are                                                    *)

LEMMA FourCounts ==
    ASSUME TypeOK, NEW t \in Thread, NEW p, pc' = [pc EXCEPT ![t] = p]
    PROVE  /\ Counted(Opener, Held, t, p) /\ Counted(Opener, Used, t, p)
           /\ Counted(Closer, Held, t, p) /\ Counted(Closer, Used, t, p)
<1>1. Opener \in SUBSET Thread /\ Closer \in SUBSET Thread
  BY DEF Thread
<1> QED BY <1>1, CountsStep

\* A step within Held, within Used, or outside both, that prints nothing and
\* stores nothing.
LEMMA SamePlaces ==
    ASSUME TypeOK, Accounting, NEW t \in Thread, NEW p \in Pc,
           pc' = [pc EXCEPT ![t] = p], UNCHANGED <<value, depth>>,
           p \in Held <=> pc[t] \in Held, p \in Used <=> pc[t] \in Used
    PROVE  Accounting'
<1>1. /\ Counted(Opener, Held, t, p) /\ Counted(Opener, Used, t, p)
      /\ Counted(Closer, Held, t, p) /\ Counted(Closer, Used, t, p)
  BY FourCounts
<1>2. /\ Count(pc', Opener, Held) = Count(pc, Opener, Held)
      /\ Count(pc', Opener, Used) = Count(pc, Opener, Used)
      /\ Count(pc', Closer, Held) = Count(pc, Closer, Held)
      /\ Count(pc', Closer, Used) = Count(pc, Closer, Used)
  BY <1>1 DEF Counted
<1> QED BY <1>2 DEF Accounting

LEMMA AccountingStep ==
    TypeOK /\ LoadedValue /\ Accounting /\ [Next]_vars => Accounting'
<1> SUFFICES ASSUME TypeOK, LoadedValue, Accounting, [Next]_vars
             PROVE  Accounting'
  OBVIOUS
<1> DEFINE OH == Count(pc, Opener, Held)
           OU == Count(pc, Opener, Used)
           CH == Count(pc, Closer, Held)
           CU == Count(pc, Closer, Used)
<1>b. /\ value["empty"] \in Int /\ value["fill"] \in Int /\ depth \in Int
      /\ value["empty"] >= 0 /\ value["fill"] >= 0
      /\ value["empty"] + OH + depth + CU = Capacity
      /\ value["fill"] + OU + CH = depth
      /\ OH \in Nat /\ OU \in Nat /\ CH \in Nat /\ CU \in Nat
      /\ Capacity \in Nat
  BY KmtSemAssumption, CountsAreNaturals DEF TypeOK, Accounting, Sem
<1> USE DEF Counted
<1>c. ASSUME value'["empty"] >= 0, value'["fill"] >= 0,
             value'["empty"] + OH' + depth' + CU' = Capacity,
             value'["fill"] + OU' + CH' = depth'
      PROVE  Accounting'
  BY <1>c DEF Accounting, Sem
<1>1. ASSUME NEW t \in Thread, WaitStore(t)
      PROVE  Accounting'
  <2>1. /\ pc' = [pc EXCEPT ![t] = "w_unlock"] /\ pc[t] = "w_store"
        /\ depth' = depth /\ v[t] = value[WaitsOn[t]] /\ v[t] > 0
        /\ value' = [value EXCEPT ![WaitsOn[t]] = v[t] - 1]
    BY <1>1 DEF WaitStore, Goto, At, LoadedValue
  <2>2. "w_unlock" \in Pc /\ "w_unlock" \in Held /\ "w_unlock" \notin Used
        /\ "w_store" \notin Held /\ "w_store" \notin Used
    BY DEF Pc, Held, Used
  <2>3. /\ Counted(Opener, Held, t, "w_unlock") /\ Counted(Opener, Used, t, "w_unlock")
        /\ Counted(Closer, Held, t, "w_unlock") /\ Counted(Closer, Used, t, "w_unlock")
    BY <2>1, FourCounts
  <2>4. CASE t \in Opener
    <3>1. value'["empty"] = value["empty"] - 1 /\ value'["fill"] = value["fill"]
          /\ value["empty"] > 0
      BY <2>1, <2>4, Threads DEF TypeOK, Sem
    <3>2. OH' = OH + 1 /\ OU' = OU /\ CH' = CH /\ CU' = CU
      BY <2>1, <2>2, <2>4, <2>3, Threads
    <3> QED BY <2>1, <3>1, <3>2, <2>3, <1>b, <1>c
  <2>5. CASE t \in Closer
    <3>1. value'["fill"] = value["fill"] - 1 /\ value'["empty"] = value["empty"]
          /\ value["fill"] > 0
      BY <2>1, <2>5, Threads DEF TypeOK, Sem
    <3>2. OH' = OH /\ OU' = OU /\ CH' = CH + 1 /\ CU' = CU
      BY <2>1, <2>2, <2>5, <2>3, Threads
    <3> QED BY <2>1, <3>1, <3>2, <2>3, <1>b, <1>c
  <2> QED BY <2>4, <2>5 DEF Thread
<1>2. ASSUME NEW t \in Thread, Use(t)
      PROVE  Accounting'
  <2>1. /\ pc' = [pc EXCEPT ![t] = "s_lock"] /\ pc[t] = "print"
        /\ depth' = (IF t \in Opener THEN depth + 1 ELSE depth - 1)
        /\ value' = value
    BY <1>2 DEF Use, Goto, At
  <2>2. "s_lock" \in Pc /\ "s_lock" \in Used /\ "s_lock" \notin Held
        /\ "print" \in Held /\ "print" \notin Used
    BY DEF Pc, Held, Used
  <2>3. /\ Counted(Opener, Held, t, "s_lock") /\ Counted(Opener, Used, t, "s_lock")
        /\ Counted(Closer, Held, t, "s_lock") /\ Counted(Closer, Used, t, "s_lock")
    BY <2>1, FourCounts
  <2>4. CASE t \in Opener
    <3>1. OH' = OH - 1 /\ OU' = OU + 1 /\ CH' = CH /\ CU' = CU
      BY <2>1, <2>2, <2>4, <2>3, Threads
    <3>2. depth' = depth + 1 /\ value' = value
      BY <2>1, <2>4
    <3> QED BY <3>1, <3>2, <1>b, <1>c
  <2>5. CASE t \in Closer
    <3>1. OH' = OH /\ OU' = OU /\ CH' = CH - 1 /\ CU' = CU + 1
      BY <2>1, <2>2, <2>5, <2>3, Threads
    <3>2. depth' = depth - 1 /\ value' = value
      BY <2>1, <2>5, Threads
    <3>3. value["empty"] + OH' + depth' + CU' = Capacity
      BY <3>1, <3>2, <1>b
    <3>4. value["fill"] + OU' + CH' = depth'
      BY <3>1, <3>2, <1>b
    <3> QED BY <3>2, <3>3, <3>4, <1>b, <1>c
  <2> QED BY <2>4, <2>5 DEF Thread
<1>3. ASSUME NEW t \in Thread, SignalStore(t)
      PROVE  Accounting'
  <2>1. /\ pc' = [pc EXCEPT ![t] = "s_unlock"] /\ pc[t] = "s_store"
        /\ depth' = depth /\ v[t] = value[Signals[t]]
        /\ value' = [value EXCEPT ![Signals[t]] = v[t] + 1]
    BY <1>3 DEF SignalStore, Goto, At, LoadedValue
  <2>2. "s_unlock" \in Pc /\ "s_unlock" \notin Held /\ "s_unlock" \notin Used
        /\ "s_store" \notin Held /\ "s_store" \in Used
    BY DEF Pc, Held, Used
  <2>3. /\ Counted(Opener, Held, t, "s_unlock") /\ Counted(Opener, Used, t, "s_unlock")
        /\ Counted(Closer, Held, t, "s_unlock") /\ Counted(Closer, Used, t, "s_unlock")
    BY <2>1, FourCounts
  <2>4. CASE t \in Opener
    <3>1. value'["fill"] = value["fill"] + 1 /\ value'["empty"] = value["empty"]
      BY <2>1, <2>4, Threads DEF TypeOK, Sem
    <3>2. OH' = OH /\ OU' = OU - 1 /\ CH' = CH /\ CU' = CU
      BY <2>1, <2>2, <2>4, <2>3, Threads
    <3> QED BY <2>1, <3>1, <3>2, <2>3, <1>b, <1>c
  <2>5. CASE t \in Closer
    <3>1. value'["empty"] = value["empty"] + 1 /\ value'["fill"] = value["fill"]
      BY <2>1, <2>5, Threads DEF TypeOK, Sem
    <3>2. OH' = OH /\ OU' = OU /\ CH' = CH /\ CU' = CU - 1
      BY <2>1, <2>2, <2>5, <2>3, Threads
    <3> QED BY <2>1, <3>1, <3>2, <2>3, <1>b, <1>c
  <2> QED BY <2>4, <2>5 DEF Thread
<1>4. ASSUME NEW t \in Thread,
             Locking(t) \/ WaitLoad(t) \/ WaitUnlock(t) \/ Yield(t)
               \/ SignalLoad(t) \/ SignalUnlock(t)
      PROVE  Accounting'
  <2>1. \E p \in Pc : /\ pc' = [pc EXCEPT ![t] = p]
                      /\ p \in Held <=> pc[t] \in Held
                      /\ p \in Used <=> pc[t] \in Used
    BY <1>4 DEF Locking, WaitLock, SignalLock, Acquire, WaitLoad, WaitUnlock,
                Yield, SignalLoad, SignalUnlock, Release, Goto, At, Held, Used, Pc
  <2>2. UNCHANGED <<value, depth>>
    BY <1>4 DEF Locking, WaitLock, SignalLock, Acquire, WaitLoad, WaitUnlock,
                Yield, SignalLoad, SignalUnlock, Release
  <2> QED BY <2>1, <2>2, SamePlaces
<1>5. CASE UNCHANGED <<value, pc, depth>>
  BY <1>5 DEF Accounting
<1> QED BY <1>1, <1>2, <1>3, <1>4, <1>5 DEF Next, Working, Preempt, vars

-----------------------------------------------------------------------------
(* Theorems                                                                *)

\* IInv holds of every reachable state.
THEOREM Inductive == Spec => []IInv
<1>1. IInv /\ [Next]_vars => IInv'
  BY TypeStep, MutexStep, LoadedStep, AccountingStep DEF IInv
<1> QED BY InitIInv, <1>1, PTL DEF Spec

\* The variables keep their types (kmt.c 62-85).
THEOREM TypeCorrect == Spec => []TypeOK
<1>1. IInv => TypeOK
  BY DEF IInv
<1> QED BY Inductive, <1>1, PTL

\* At most one thread is inside sem_wait's or sem_signal's critical section of
\* a semaphore, switched out or not (kmt.c 68-85).
THEOREM MutualExclusionHolds == Spec => []MutualExclusion
<1>1. IInv => MutualExclusion
  BY DEF IInv
<1> QED BY Inductive, <1>1, PTL

\* However many producers and consumers there are, between 0 and Capacity
\* parentheses are open (os.c 7-8).
THEOREM BalancedHolds == Spec => []Balanced
<1>1. IInv => Balanced
  <2> SUFFICES ASSUME IInv PROVE Balanced
    OBVIOUS
  <2>1. value["empty"] \in Int /\ value["fill"] \in Int /\ depth \in Int
        /\ value["empty"] >= 0 /\ value["fill"] >= 0
    BY DEF IInv, TypeOK, Accounting, Sem
  <2> QED BY <2>1, CountsAreNaturals, KmtSemAssumption, SMTT(60)
          DEF IInv, Accounting, Balanced
<1> QED BY Inductive, <1>1, PTL

\* Mapped to its count and the threads that hold a token, a semaphore takes
\* the steps of a counting semaphore (kmt.c 62-85).
THEOREM Refinement == Spec => ImplementsSemaphore
<1>1. Init => Abstract!Init
  <2> SUFFICES ASSUME Init PROVE Abstract!Init
    OBVIOUS
  <2>1. \A t \in Thread : HasToken(t) = FALSE
    BY DEF Init, HasToken
  <2>2. Holds = [t \in Thread |-> FALSE]
    BY <2>1 DEF Holds
  <2> QED BY <2>2 DEF Init, Abstract!Init
<1>2. IInv /\ [Next]_vars => [Abstract!Next]_<<value, Holds>>
  <2> SUFFICES ASSUME IInv, [Next]_vars
               PROVE  [Abstract!Next]_<<value, Holds>>
    OBVIOUS
  <2> USE DEF IInv, TypeOK
  <2>1. ASSUME NEW t \in Thread, WaitStore(t)
        PROVE  Abstract!Wait(t)
    <3>1. pc[t] = "w_store" /\ pc' = [pc EXCEPT ![t] = "w_unlock"]
      BY <2>1 DEF WaitStore, At, Goto
    <3>2. v[t] = value[WaitsOn[t]] /\ value[WaitsOn[t]] > 0
      BY <3>1 DEF LoadedValue
    <3>3. value' = [value EXCEPT ![WaitsOn[t]] = @ - 1]
      BY <2>1, <3>2 DEF WaitStore
    <3>4. /\ HasToken(t) = FALSE /\ HasToken(t)' = TRUE
          /\ \A u \in Thread \ {t} : HasToken(u)' = HasToken(u)
      BY <3>1 DEF HasToken
    <3>5. ~Holds[t] /\ Holds' = [Holds EXCEPT ![t] = TRUE]
      BY <3>4 DEF Holds
    <3> QED BY <3>2, <3>3, <3>5 DEF Abstract!Wait
  <2>2. ASSUME NEW t \in Thread, SignalStore(t)
        PROVE  Abstract!Signal(t)
    <3>1. pc[t] = "s_store" /\ pc' = [pc EXCEPT ![t] = "s_unlock"]
      BY <2>2 DEF SignalStore, At, Goto
    <3>2. v[t] = value[Signals[t]]
      BY <3>1 DEF LoadedValue
    <3>3. value' = [value EXCEPT ![Signals[t]] = @ + 1]
      BY <2>2, <3>2 DEF SignalStore
    <3>4. /\ HasToken(t) = TRUE /\ HasToken(t)' = FALSE
          /\ \A u \in Thread \ {t} : HasToken(u)' = HasToken(u)
      BY <3>1 DEF HasToken
    <3>5. Holds[t] /\ Holds' = [Holds EXCEPT ![t] = FALSE]
      BY <3>4 DEF Holds
    <3> QED BY <3>3, <3>5 DEF Abstract!Signal
  <2>3. ASSUME NEW t \in Thread,
               Locking(t) \/ WaitLoad(t) \/ WaitUnlock(t) \/ Yield(t) \/ Use(t)
                 \/ SignalLoad(t) \/ SignalUnlock(t)
        PROVE  UNCHANGED <<value, Holds>>
    BY <2>3 DEF Locking, WaitLock, SignalLock, Acquire, WaitLoad, WaitUnlock,
                Yield, Use, SignalLoad, SignalUnlock, Release, Goto, At, Holds, HasToken
  <2>4. CASE UNCHANGED <<value, pc>>
    BY <2>4 DEF Holds, HasToken
  <2> QED BY <2>1, <2>2, <2>3, <2>4
          DEF Next, Working, Preempt, vars, Abstract!Next
<1> QED BY <1>1, <1>2, Inductive, PTL DEF Spec, ImplementsSemaphore, Abstract!Spec
=============================================================================
