------------------------------ MODULE ProcMem ------------------------------
(***************************************************************************)
(* The memory of processes: demand paging in PF_handler and pgmap          *)
(* (kernel/src/os.c), the copy that fork makes (kernel/src/uproc.c) and    *)
(* the mappings of vme.c they rest on.                                     *)
(*                                                                         *)
(* Processes all live on one CPU and the handlers run with interrupts off  *)
(* under its lock (KmtSpinlock), so a handler is one step.  A process keeps*)
(* its mappings twice: in the page table, which the MMU reads, and in the  *)
(* arrays va and pa, which fork reads.  pmm is a set of free pages: alloc  *)
(* returns any of them, as it is, or 0 when there is none, which nobody    *)
(* checks.                                                                 *)
(***************************************************************************)
EXTENDS Naturals, Sequences, FiniteSets, SequencesExt

CONSTANTS
    Proc,
    Root,           \* the process uproc_test makes
    Page,           \* the pages of user space, uvm_area
    Frame,          \* the pages of the heap
    PageZero,       \* the physical page at address 0
    Value,
    None,           \* no mapping
    MaxPages        \* the length of va and pa: 64

ASSUME ProcMemAssumption ==
    /\ Root \in Proc /\ PageZero \notin Frame /\ None \notin Frame \cup {PageZero}
    /\ None \notin Value /\ MaxPages \in Nat

\* Pages of the heap are interchangeable, and so are values: nothing names one.
Interchangeable == Permutations(Frame) \cup Permutations(Value)

VARIABLES
    exists,     \* the processes that have been made
    maps,       \* [Proc -> Seq(Page \X Frame)]: va, pa and np
    table,      \* [Proc -> [Page -> Frame or None]]: as
    memory,     \* [Frame -> Value]
    free,       \* the pages pmm has
    panicked    \* pgmap's assertion or a panic_on of map has failed

vars == <<exists, maps, table, memory, free, panicked>>

Init ==
    /\ exists = {Root}
    /\ maps = [p \in Proc |-> <<>>]
    /\ table = [p \in Proc |-> [a \in Page |-> None]]
    /\ memory \in [Frame \cup {PageZero} -> Value]
    /\ free = Frame
    /\ panicked = FALSE

-----------------------------------------------------------------------------
\* What pmm->alloc may return; 0 is page 0.
Allocated == IF free = {} THEN {PageZero} ELSE free

\* pgmap: the record comes first, then assert(np <= 64), then map, which
\* panics when the page is mapped already.  A panic stops the machine: what the
\* record wrote past the end of the arrays is not kept.
PgMap(p, a, f) ==
    IF Len(maps[p]) + 1 > MaxPages \/ table[p][a] # None
    THEN panicked' = TRUE /\ UNCHANGED <<maps, table>>
    ELSE /\ maps' = [maps EXCEPT ![p] = Append(@, <<a, f>>)]
         /\ table' = [table EXCEPT ![p][a] = f]
         /\ UNCHANGED panicked

\* PF_handler: the page the process touched gets a page of the heap, whose
\* content stays what it is.
PageFault(p, a) ==
    /\ p \in exists /\ table[p][a] = None
    /\ \E f \in Allocated :
          /\ PgMap(p, a, f)
          /\ free' = free \ {f}
    /\ UNCHANGED <<exists, memory>>

\* The process writes to a page that is mapped.
Write(p, a, x) ==
    /\ p \in exists /\ table[p][a] # None
    /\ memory' = [memory EXCEPT ![table[p][a]] = x]
    /\ UNCHANGED <<exists, maps, table, free, panicked>>

\* The pages fork gives the child, one for each of the parent's in order.
NewFrames(n) ==
    {fs \in [1 .. n -> Frame \cup {PageZero}] :
        /\ \A i, j \in 1 .. n : fs[i] = fs[j] /\ fs[i] # PageZero => i = j
        /\ \A i \in 1 .. n : fs[i] \in free \cup {PageZero}
        /\ \A i \in 1 .. n : fs[i] = PageZero <=> i > Cardinality(free)}

\* Fault: the child is given the parent's pages.
Fork_Shares(p, c) ==
    /\ p \in exists /\ c \notin exists
    /\ exists' = exists \cup {c}
    /\ maps' = [maps EXCEPT ![c] = maps[p]]
    /\ table' = [table EXCEPT ![c] = table[p]]
    /\ UNCHANGED <<memory, free, panicked>>

\* Fault: the loop starts at the second page.
Fork_SkipsFirst(p, c) ==
    /\ p \in exists /\ c \notin exists
    /\ exists' = exists \cup {c}
    /\ \E fs \in NewFrames(Len(maps[p])) :
          LET I == 2 .. Len(maps[p])
              m == [i \in 1 .. Len(maps[p]) |-> <<maps[p][i][1], fs[i]>>]
          IN  /\ maps' = [maps EXCEPT ![c] = IF I = {} THEN <<>> ELSE Tail(m)]
              /\ table' = [table EXCEPT ![c] =
                    [a \in Page |-> IF \E i \in I : m[i][1] = a
                                    THEN m[CHOOSE i \in I : m[i][1] = a][2]
                                    ELSE None]]
              /\ memory' = [f \in DOMAIN memory |->
                    IF \E i \in I : fs[i] = f
                    THEN memory[maps[p][CHOOSE i \in I : fs[i] = f][2]]
                    ELSE memory[f]]
              /\ free' = free \ {fs[i] : i \in I}
    /\ UNCHANGED panicked

\* fork: for each page of the parent, pmm->alloc, memcpy and pgmap.  A page 0
\* that alloc returns more than once is copied to again.
Fork(p, c) ==
    /\ p \in exists /\ c \notin exists
    /\ exists' = exists \cup {c}
    /\ \E fs \in NewFrames(Len(maps[p])) :
          LET I == 1 .. Len(maps[p])
              To(f) == {i \in I : fs[i] = f}
              Of(a) == {i \in I : maps[p][i][1] = a}
          IN  /\ maps' = [maps EXCEPT ![c] = [i \in I |-> <<maps[p][i][1], fs[i]>>]]
              /\ table' = [table EXCEPT ![c] =
                    [a \in Page |-> IF Of(a) = {} THEN None ELSE fs[Max(Of(a))]]]
              /\ memory' = [f \in DOMAIN memory |->
                    IF To(f) = {} THEN memory[f]
                    ELSE memory[maps[p][Max(To(f))][2]]]
              /\ free' = free \ {fs[i] : i \in I}
    /\ UNCHANGED panicked

Next ==
    /\ ~panicked
    /\ \E p \in Proc :
          \/ \E a \in Page : PageFault(p, a) \/ (\E x \in Value : Write(p, a, x))
          \/ \E c \in Proc : Fork(p, c)

Spec == Init /\ [][Next]_vars

-----------------------------------------------------------------------------
(* Properties                                                              *)

\* What fork will copy is what the MMU shows, page by page (os.c 94-103): no
\* page is recorded twice or missing from the record.  And no page of the heap
\* belongs to two processes, or to one and to pmm, also after alloc has begun to
\* fail (os.c 105-115, uproc.c 33-40).
MemoryAccounted ==
    \A p \in Proc, a \in Page :
        /\ {m[2] : m \in {x \in ToSet(maps[p]) : x[1] = a}} = {table[p][a]} \ {None}
        /\ table[p][a] \in Frame =>
              /\ table[p][a] \notin free
              /\ \A q \in Proc, b \in Page : table[p][a] = table[q][b] => p = q /\ a = b

Abstract == INSTANCE PrivateMemory WITH
    Untouched <- None,
    memory <- [p \in Proc |-> [a \in Page |->
                 IF table[p][a] = None THEN None ELSE memory[table[p][a]]]]

\* alloc has returned 0 and the page at address 0 has been mapped for it.
Starved == \E p \in Proc, a \in Page : table[p][a] = PageZero

\* As long as the heap lasts, processes have private memory, fork copies it, and
\* a panic changes none of it.
ImplementsPrivateMemory ==
    Abstract!Init /\ [][Starved' \/ Abstract!Next]_(Abstract!vars)
=============================================================================
