-------------------------------- MODULE Pmm --------------------------------
(***************************************************************************)
(* The physical memory allocator of kernel/src/pmm.c: eight free lists of  *)
(* small blocks, two of pages, each in a region of the heap of its own,    *)
(* and a bump allocator for anything larger.                               *)
(*                                                                         *)
(* A CPU is in at most one call: safe_kalloc and safe_kfree turn           *)
(* interrupts off.  The heap is scaled down (fewer small classes, shorter  *)
(* regions); which class serves a request, and which region a pointer is   *)
(* taken to belong to, are computed as the code does.                      *)
(***************************************************************************)
EXTENDS Naturals, FiniteSets

CONSTANTS
    Cpu,
    MinLog,         \* log2 of the smallest block (4 in the code)
    NSmall,         \* the number of small classes (8 in the code)
    HeapStart,      \* heap.start
    SmallRegion, PageRegion, MPageRegion, HugeRegion,
                    \* sizes of the regions (1/16, 1/4, 1/8, 1/8 of the heap)
    Requests        \* the values of ROUND_SELF(size) that are asked for

PageLog  == MinLog + NSmall
HugeLog  == PageLog + 2         \* the first size that goes to hugealloc
NULL     == 0

STARTADDR(k) == HeapStart + SmallRegion * k
PAGESTART    == STARTADDR(NSmall)
MPAGESTART   == PAGESTART + PageRegion
HUGESTART    == MPAGESTART + MPageRegion
HeapEnd      == HUGESTART + HugeRegion

ASSUME PmmAssumption ==
    /\ {MinLog, NSmall, HeapStart, SmallRegion, PageRegion, MPageRegion,
        HugeRegion} \subseteq Nat \ {0}
    /\ Requests \subseteq Nat

\* smallmem[0 ..], pagemem[0], pagemem[1], and the bump allocator.
FreeList == 0 .. NSmall + 1
Page == NSmall
MPage == NSmall + 1
Huge == NSmall + 2
Class == FreeList \cup {Huge}

BlockSize(k) == 2 ^ (MinLog + k)

\* What the proofs need to know of powers of two, of which they have no theory.
ASSUME PowersOfTwo ==
    /\ \A n \in Requests \cup {MinLog + k : k \in FreeList} : 2 ^ n \in Nat \ {0}
    /\ \A n \in Requests : n <= MinLog => 2 ^ MinLog % 2 ^ n = 0

ROUNDUP(a, n) == ((a + n - 1) \div n) * n

\* The region [first, last) of a free list.
RegionStart(k) == IF k < Page THEN STARTADDR(k)
                  ELSE IF k = Page THEN PAGESTART ELSE MPAGESTART
RegionEnd(k)   == IF k < Page THEN STARTADDR(k + 1)
                  ELSE IF k = Page THEN MPAGESTART ELSE HUGESTART

\* The blocks kinit cuts the region into.
Block(k) == {p \in ROUNDUP(RegionStart(k), BlockSize(k)) .. RegionEnd(k) :
                 p % BlockSize(k) = 0 /\ p + BlockSize(k) <= RegionEnd(k)}
Blocks   == UNION {Block(k) : k \in FreeList}

VARIABLES
    freelist,   \* [FreeList -> Blocks or NULL]
    nxt,        \* [Blocks -> Blocks or NULL]: the first word of a block
    locked,     \* [Class -> BOOLEAN]: the m of each list, and g_lock
    hbound,
    allocated,  \* the live allocations, as pairs <<address, size>>
    panicked,   \* a failed assertion stopped the machine
    pc,         \* [Cpu -> Pc]
    req,        \* [Cpu -> Requests or 0]: the request being served
    cls,        \* [Cpu -> Class]: the class of the call
    r           \* [Cpu -> address]: the local variable r, ptr or p

vars == <<freelist, nxt, locked, hbound, allocated, panicked, pc, req, cls, r>>
call == <<req, cls, r>>

\* "a_*" alloc, "f_*" free, "h_*" hugealloc; "a_done", "f_done": about to return.
Pc == {"out", "a_lock", "a_read", "a_pop", "a_unlock", "a_done", "f_lock",
       "f_nxt", "f_push", "f_unlock", "f_done", "h_lock", "h_bump", "h_check"}

Goto(c, p) == pc' = [pc EXCEPT ![c] = p]

\* kinit pushes the blocks of a region in ascending order.
Init ==
    /\ freelist = [k \in FreeList |->
                      IF Block(k) = {} THEN NULL
                      ELSE CHOOSE p \in Block(k) : \A q \in Block(k) : q <= p]
    /\ nxt = [p \in Blocks |->
                 LET k == CHOOSE j \in FreeList : p \in Block(j)
                 IN  IF p - BlockSize(k) \in Block(k) THEN p - BlockSize(k)
                     ELSE NULL]
    /\ locked = [k \in Class |-> FALSE]
    /\ hbound = HUGESTART
    /\ allocated = {} /\ panicked = FALSE
    /\ pc = [c \in Cpu |-> "out"]
    /\ req = [c \in Cpu |-> 0]
    /\ cls = [c \in Cpu |-> 0] /\ r = [c \in Cpu |-> NULL]

-----------------------------------------------------------------------------
(* kalloc                                                                  *)

\* Fault: the second class is served from the list of the first.
ClassOf_TooSmall(sz) == IF sz <= MinLog + 1 THEN 0
                        ELSE IF sz < HugeLog THEN sz - MinLog ELSE Huge

\* kalloc chooses the allocator by sz = ROUND_SELF(size).
ClassOf(sz) == IF sz <= MinLog THEN 0
               ELSE IF sz < HugeLog THEN sz - MinLog ELSE Huge

KAlloc(c, sz) ==
    /\ pc[c] = "out"
    /\ req' = [req EXCEPT ![c] = sz]
    /\ cls' = [cls EXCEPT ![c] = ClassOf(sz)]
    /\ Goto(c, IF ClassOf(sz) = Huge THEN "h_lock" ELSE "a_lock")
    /\ UNCHANGED <<freelist, nxt, locked, hbound, allocated, panicked, r>>

\* Fault: the lists are used without taking their locks.
Lock_Missing(c) ==
    /\ pc[c] \in {"a_lock", "f_lock", "h_lock"}
    /\ Goto(c, CASE pc[c] = "a_lock" -> "a_read" [] pc[c] = "f_lock" -> "f_nxt"
                 [] pc[c] = "h_lock" -> "h_bump")
    /\ UNCHANGED <<freelist, nxt, locked, hbound, allocated, panicked, call>>

\* lock(&mem->m), in smallalloc, pagealloc and sfree, and lock(&g_lock).
Lock(c) ==
    /\ pc[c] \in {"a_lock", "f_lock", "h_lock"} /\ ~locked[cls[c]]
    /\ locked' = [locked EXCEPT ![cls[c]] = TRUE]
    /\ Goto(c, CASE pc[c] = "a_lock" -> "a_read" [] pc[c] = "f_lock" -> "f_nxt"
                 [] pc[c] = "h_lock" -> "h_bump")
    /\ UNCHANGED <<freelist, nxt, hbound, allocated, panicked, call>>

\* if (mem->freelist) r = mem->freelist;
ReadHead(c) ==
    /\ pc[c] = "a_read"
    /\ r' = [r EXCEPT ![c] = freelist[cls[c]]]
    /\ Goto(c, IF freelist[cls[c]] = NULL THEN "a_unlock" ELSE "a_pop")
    /\ UNCHANGED <<freelist, nxt, locked, hbound, allocated, panicked, req, cls>>

\* mem->freelist = r->nxt;
Pop(c) ==
    /\ pc[c] = "a_pop"
    /\ freelist' = [freelist EXCEPT ![cls[c]] = nxt[r[c]]]
    /\ Goto(c, "a_unlock")
    /\ UNCHANGED <<nxt, locked, hbound, allocated, panicked, call>>

\* unlock(&mem->m);
Unlock(c) ==
    /\ pc[c] \in {"a_unlock", "f_unlock"}
    /\ locked' = [locked EXCEPT ![cls[c]] = FALSE]
    /\ Goto(c, IF pc[c] = "a_unlock" THEN "a_done" ELSE "f_done")
    /\ UNCHANGED <<freelist, nxt, hbound, allocated, panicked, call>>

\* The call returns: an allocation is live from here on.
Return(c) ==
    /\ pc[c] \in {"a_done", "f_done"}
    /\ allocated' = IF pc[c] = "f_done" \/ r[c] = NULL THEN allocated
                    ELSE allocated \cup {<<r[c], 2 ^ req[c]>>}
    /\ req' = [req EXCEPT ![c] = 0]
    /\ cls' = [cls EXCEPT ![c] = 0] /\ r' = [r EXCEPT ![c] = NULL]
    /\ Goto(c, "out")
    /\ UNCHANGED <<freelist, nxt, locked, hbound, panicked>>

-----------------------------------------------------------------------------
(* hugealloc                                                               *)

\* p = ROUNDUP(hbound, tsz); hbound = hbound + tsz; unlock(&g_lock);
HugeBump(c) ==
    /\ pc[c] = "h_bump"
    /\ r' = [r EXCEPT ![c] = ROUNDUP(hbound, 2 ^ req[c])]
    /\ hbound' = hbound + 2 ^ req[c]
    /\ locked' = [locked EXCEPT ![Huge] = FALSE]
    /\ Goto(c, "h_check")
    /\ UNCHANGED <<freelist, nxt, allocated, panicked, req, cls>>

\* if (hbound > heap.end) return NULL; hbound is read again, without g_lock.
HugeCheck(c) ==
    /\ pc[c] = "h_check"
    /\ r' = [r EXCEPT ![c] = IF hbound > HeapEnd THEN NULL ELSE @]
    /\ Goto(c, "a_done")
    /\ UNCHANGED <<freelist, nxt, locked, hbound, allocated, panicked, req, cls>>

-----------------------------------------------------------------------------
(* kfree                                                                   *)

\* The small class whose region holds p, if one does.
SmallId(p) == {k \in 0 .. NSmall - 1 : STARTADDR(k) <= p /\ p < STARTADDR(k + 1)}

\* The list a pointer goes back to: kfree tells huge blocks, sfree the rest.
\* No class at all is the failure of assert(id != -1).
ClassOfPtr(p) ==
    IF p >= HUGESTART THEN {Huge}
    ELSE IF p <= PAGESTART THEN SmallId(p)
    ELSE {IF p >= MPAGESTART THEN MPage ELSE Page}

\* Any CPU may free any live block; hfree does nothing.
KFree(c, b) ==
    /\ pc[c] = "out"
    /\ allocated' = allocated \ {b}
    /\ IF ClassOfPtr(b[1]) = {}
       THEN panicked' = TRUE /\ UNCHANGED <<pc, cls, r>>
       ELSE \E k \in ClassOfPtr(b[1]) :
            /\ cls' = [cls EXCEPT ![c] = k]
            /\ r' = [r EXCEPT ![c] = b[1]]
            /\ Goto(c, IF k = Huge THEN "f_done" ELSE "f_lock")
            /\ UNCHANGED panicked
    /\ UNCHANGED <<freelist, nxt, locked, hbound, req>>

\* r->nxt = mem->freelist;
SetNxt(c) ==
    /\ pc[c] = "f_nxt"
    /\ nxt' = [nxt EXCEPT ![r[c]] = freelist[cls[c]]]
    /\ Goto(c, "f_push")
    /\ UNCHANGED <<freelist, locked, hbound, allocated, panicked, call>>

\* mem->freelist = r;
Push(c) ==
    /\ pc[c] = "f_push"
    /\ freelist' = [freelist EXCEPT ![cls[c]] = r[c]]
    /\ Goto(c, "f_unlock")
    /\ UNCHANGED <<nxt, locked, hbound, allocated, panicked, call>>

-----------------------------------------------------------------------------
CpuStep(c) ==
    \/ Lock(c) \/ ReadHead(c) \/ Pop(c) \/ Unlock(c) \/ Return(c)
    \/ HugeBump(c) \/ HugeCheck(c) \/ SetNxt(c) \/ Push(c)

\* hbound only grows: the bound on requests to hugealloc keeps it finite.
HugeBound == 2 * HugeRegion

Next ==
    /\ ~panicked
    /\ \E c \in Cpu :
          \/ \E sz \in Requests :
                KAlloc(c, sz) /\ (sz >= HugeLog => hbound <= HUGESTART + HugeBound)
          \/ \E b \in allocated : KFree(c, b)
          \/ CpuStep(c)

Spec == Init /\ [][Next]_vars

-----------------------------------------------------------------------------
(* Properties                                                              *)

\* The blocks of a free list, and those a CPU has taken off it or is about to
\* put back.
At(k) ==
    LET at[n \in 0 .. Cardinality(Block(k))] ==
            IF n = 0 THEN freelist[k]
            ELSE IF at[n - 1] = NULL THEN NULL ELSE nxt[at[n - 1]]
    IN  at

Listed(k) == {At(k)[n] : n \in 0 .. Cardinality(Block(k))} \ {NULL}

InHand(k) == {c \in Cpu : /\ cls[c] = k /\ r[c] # NULL
                          /\ pc[c] \in {"a_unlock", "a_done", "f_lock", "f_nxt", "f_push"}}

Live(k) == {b[1] : b \in allocated} \cap Block(k)

\* No block is lost, on two lists, or both free and in use: the blocks of each
\* class are on its free list, in a caller's hands, or passing through a CPU
\* (pmm.c, smallalloc, pagealloc and sfree; a failed assertion ends it).
Conserved ==
    ~panicked => \A k \in FreeList :
        /\ Listed(k) \cup Live(k) \cup {r[c] : c \in InHand(k)} = Block(k)
        /\ Cardinality(Listed(k)) + Cardinality(Live(k)) + Cardinality(InHand(k))
              = Cardinality(Block(k))

\* A pointer that alloc returns lies in no area handed out before and not yet
\* freed (kernel/test/test.c, Judge).
ReturnsFresh ==
    \A c \in Cpu : pc[c] = "a_done" /\ r[c] # NULL =>
        \A b \in allocated : ~(b[1] <= r[c] /\ r[c] < b[1] + b[2])

\* assert(id != -1) in sfree holds for every block alloc has handed out.
FreeFindsClass == ~panicked

Abstract == INSTANCE Heap WITH Sizes <- {2 ^ sz : sz \in Requests}

\* The allocator implements Heap.
ImplementsHeap == Abstract!Spec
=============================================================================
