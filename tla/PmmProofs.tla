----------------------------- MODULE PmmProofs -----------------------------
(***************************************************************************)
(* Proofs about the allocator of Pmm (kernel/src/pmm.c), for every number  *)
(* of CPUs, every number of small classes and every size of the regions.   *)
(*                                                                         *)
(* Conserved walks the free lists and counts.  The invariant says instead  *)
(* that each list is a chain of different blocks that ends, and that a     *)
(* block is on it exactly when nobody has it; which needs that a list is   *)
(* in one CPU's hands at a time, and what that CPU has read of it.         *)
(***************************************************************************)
EXTENDS Pmm, LeastNumber, FiniteSetTheorems, TLAPS

\* The program counters of a CPU that has the lock of its class, and of one that
\* has a block in its hands.
Locked == {"a_read", "a_pop", "a_unlock", "f_nxt", "f_push", "f_unlock", "h_bump"}
Handling == {"a_unlock", "a_done", "f_lock", "f_nxt", "f_push"}

Busy(c) == pc[c] \in Locked

Holds(c, p) == r[c] = p /\ pc[c] \in Handling

Lives(p) == \E b \in allocated : b[1] = p

InUse(p) == Lives(p) \/ \E c \in Cpu : Holds(c, p)

TypeOK ==
    /\ freelist \in [FreeList -> Nat] /\ nxt \in [Blocks -> Nat]
    /\ locked \in [Class -> BOOLEAN]
    /\ hbound \in Nat /\ HUGESTART <= hbound
    /\ pc \in [Cpu -> Pc] /\ req \in [Cpu -> Requests \cup {0}]
    /\ cls \in [Cpu -> Class] /\ r \in [Cpu -> Nat]

\* A lock is taken while a CPU works under it, and by one CPU.
LocksExclude ==
    /\ \A c \in Cpu : Busy(c) => locked[cls[c]]
    /\ \A c, d \in Cpu : Busy(c) /\ Busy(d) /\ cls[c] = cls[d] => c = d

\* What a CPU knows of its class and its block.
Local(c) ==
    /\ pc[c] \in {"a_lock", "a_read", "a_pop"} =>
          cls[c] \in FreeList /\ req[c] \in Requests
    /\ pc[c] = "a_pop" => r[c] = freelist[cls[c]] /\ r[c] # NULL
    /\ pc[c] = "a_unlock" =>
          /\ cls[c] \in FreeList /\ req[c] \in Requests
          /\ r[c] \in Block(cls[c]) \cup {NULL}
    /\ pc[c] \in {"f_lock", "f_nxt", "f_push"} =>
          cls[c] \in FreeList /\ r[c] \in Block(cls[c])
    /\ pc[c] = "f_push" => nxt[r[c]] = freelist[cls[c]]
    /\ pc[c] = "f_unlock" => cls[c] \in FreeList
    /\ pc[c] \in {"h_lock", "h_bump", "h_check"} => cls[c] = Huge /\ req[c] \in Requests
    /\ pc[c] = "h_check" => HUGESTART <= r[c]
    /\ pc[c] = "a_done" =>
          /\ req[c] \in Requests
          /\ \/ cls[c] \in FreeList /\ r[c] \in Block(cls[c]) \cup {NULL}
             \/ cls[c] = Huge /\ (r[c] = NULL \/ HUGESTART <= r[c])

\* A live allocation is a block of a class or lies beyond them.
AllocatedOK ==
    /\ \A b \in allocated : b[1] \in Blocks \/ (b[1] \in Nat /\ HUGESTART <= b[1])
    /\ \A b, d \in allocated : b[1] = d[1] /\ b[1] \in Blocks => b = d

\* Nobody else has a block that somebody has.
Sole ==
    \A p \in Blocks :
        /\ \A c, d \in Cpu : Holds(c, p) /\ Holds(d, p) => c = d
        /\ Lives(p) => \A c \in Cpu : ~Holds(c, p)

\* s is the free list of class k: n different blocks, then NULL, and all that
\* are not in use.
Chain(k, n, s) ==
    /\ s \in [0 .. n -> Block(k) \cup {NULL}]
    /\ s[0] = freelist[k] /\ s[n] = NULL
    /\ \A i \in 0 .. n - 1 : s[i] \in Block(k) /\ nxt[s[i]] = s[i + 1]
    /\ \A i, j \in 0 .. n - 1 : s[i] = s[j] => i = j
    /\ \A p \in Block(k) : (\E i \in 0 .. n - 1 : s[i] = p) <=> ~InUse(p)

ListOK(k) == \E n \in Nat : \E s : Chain(k, n, s)

Sound ==
    /\ LocksExclude /\ AllocatedOK /\ Sole
    /\ \A c \in Cpu : Local(c)
    /\ \A k \in FreeList : ListOK(k)

IInv == TypeOK /\ (~panicked => Sound)

-----------------------------------------------------------------------------
(* The regions and their blocks.                                           *)

LEMMA Constants ==
    ASSUME PmmAssumption, PowersOfTwo
    PROVE  /\ MinLog \in Nat /\ NSmall \in Nat /\ HeapStart \in Nat /\ SmallRegion \in Nat
           /\ PageRegion \in Nat /\ MPageRegion \in Nat /\ HugeRegion \in Nat
           /\ MinLog > 0 /\ NSmall > 0 /\ HeapStart > 0 /\ SmallRegion > 0
           /\ PageRegion > 0 /\ MPageRegion > 0 /\ HugeRegion > 0
           /\ \A k \in FreeList : BlockSize(k) \in Nat /\ BlockSize(k) > 0
           /\ \A n \in Requests : n \in Nat /\ 2 ^ n \in Nat /\ 2 ^ n > 0
<1>1. {MinLog, NSmall, HeapStart, SmallRegion, PageRegion, MPageRegion, HugeRegion}
         \subseteq Nat \ {0} /\ Requests \subseteq Nat
  BY DEF PmmAssumption
<1>2. \A k \in FreeList : BlockSize(k) \in Nat \ {0}
  BY DEF PowersOfTwo, BlockSize
<1>3. \A n \in Requests : n \in Nat /\ 2 ^ n \in Nat \ {0}
  BY <1>1 DEF PowersOfTwo
<1>. QED  BY <1>1, <1>2, <1>3

(* Division by a block size.                                               *)
LEMMA Division ==
    ASSUME NEW a \in Nat, NEW n \in Nat \ {0}
    PROVE  /\ a = n * (a \div n) + (a % n) /\ a \div n \in Nat
           /\ 0 <= a % n /\ a % n < n
OBVIOUS

LEMMA Multiple ==
    ASSUME NEW a \in Nat, NEW n \in Nat \ {0}, a % n = 0
    PROVE  \E u \in Nat : a = n * u
<1>1. a = n * (a \div n) + (a % n) /\ a \div n \in Nat
  BY Division
<1>2. n * (a \div n) \in Nat
  BY <1>1
<1>3. a = n * (a \div n)
  BY <1>1, <1>2
<1>. QED  BY <1>1, <1>3

LEMMA RoundedUp ==
    ASSUME NEW a \in Nat, NEW n \in Nat \ {0}
    PROVE  ROUNDUP(a, n) \in Nat /\ a <= ROUNDUP(a, n) /\ ROUNDUP(a, n) % n = 0
BY DEF ROUNDUP

(* The regions follow each other.                                          *)
LEMMA Regions ==
    ASSUME PmmAssumption, PowersOfTwo
    PROVE  /\ \A k \in FreeList : /\ RegionStart(k) \in Nat /\ RegionEnd(k) \in Nat
                                  /\ 0 < RegionStart(k) /\ RegionEnd(k) <= HUGESTART
           /\ \A j, k \in FreeList : j < k => RegionEnd(j) <= RegionStart(k)
           /\ PAGESTART \in Nat /\ MPAGESTART \in Nat /\ HUGESTART \in Nat
           /\ 0 < PAGESTART /\ PAGESTART < MPAGESTART /\ MPAGESTART < HUGESTART
<1>1. /\ NSmall \in Nat /\ HeapStart \in Nat /\ SmallRegion \in Nat
      /\ PageRegion \in Nat /\ MPageRegion \in Nat
      /\ HeapStart > 0 /\ SmallRegion > 0 /\ PageRegion > 0 /\ MPageRegion > 0
  BY Constants
<1>2. \A j, k \in Nat : j <= k => STARTADDR(j) \in Nat /\ STARTADDR(j) <= STARTADDR(k)
                                  /\ 0 < STARTADDR(j)
  <2>1. \A j, k \in Nat : j <= k => SmallRegion * j \in Nat /\ SmallRegion * j <= SmallRegion * k
    BY <1>1
  <2>. QED  BY <1>1, <2>1 DEF STARTADDR
<1>3. /\ PAGESTART \in Nat /\ MPAGESTART \in Nat /\ HUGESTART \in Nat
      /\ 0 < PAGESTART /\ PAGESTART < MPAGESTART /\ MPAGESTART < HUGESTART
  BY <1>1, <1>2 DEF PAGESTART, MPAGESTART, HUGESTART
<1>4. \A k \in FreeList : k \in Nat /\ (k < Page \/ k = Page \/ k = MPage)
  BY <1>1 DEF FreeList, Page, MPage
<1>5. \A k \in Nat : k < Page => STARTADDR(k + 1) <= PAGESTART
  BY <1>1, <1>2 DEF Page, PAGESTART
<1>6. \A k \in FreeList : /\ RegionStart(k) \in Nat /\ RegionEnd(k) \in Nat
                          /\ 0 < RegionStart(k) /\ RegionEnd(k) <= HUGESTART
  BY <1>1, <1>2, <1>3, <1>4, <1>5 DEF RegionStart, RegionEnd, Page, MPage
<1>7. ASSUME NEW j \in FreeList, NEW k \in FreeList, j < k PROVE RegionEnd(j) <= RegionStart(k)
  <2>1. CASE k < Page
    BY <1>1, <1>2, <1>4, <1>7, <2>1 DEF RegionStart, RegionEnd, Page
  <2>2. CASE k = Page
    BY <1>1, <1>4, <1>5, <1>7, <2>2 DEF RegionStart, RegionEnd, Page
  <2>3. CASE k = MPage
    BY <1>1, <1>2, <1>3, <1>4, <1>5, <1>7, <2>3 DEF RegionStart, RegionEnd, Page, MPage
  <2>. QED  BY <1>4, <2>1, <2>2, <2>3
<1>. QED  BY <1>3, <1>6, <1>7

(* A block lies in its region.                                             *)
LEMMA BlockPlace ==
    ASSUME PmmAssumption, PowersOfTwo, NEW k \in FreeList, NEW p \in Block(k)
    PROVE  /\ p \in Nat /\ RegionStart(k) <= p /\ p + BlockSize(k) <= RegionEnd(k)
           /\ p < RegionEnd(k) /\ p # NULL /\ p < HUGESTART /\ p \in Blocks
<1>1. /\ RegionStart(k) \in Nat /\ RegionEnd(k) \in Nat /\ 0 < RegionStart(k)
      /\ RegionEnd(k) <= HUGESTART /\ HUGESTART \in Nat
  BY Regions
<1>2. BlockSize(k) \in Nat /\ BlockSize(k) > 0
  BY Constants
<1>3. ROUNDUP(RegionStart(k), BlockSize(k)) \in Nat
      /\ RegionStart(k) <= ROUNDUP(RegionStart(k), BlockSize(k))
  BY <1>1, <1>2, RoundedUp
<1>4. p \in Nat /\ ROUNDUP(RegionStart(k), BlockSize(k)) <= p
      /\ p + BlockSize(k) <= RegionEnd(k)
  BY <1>1, <1>3 DEF Block
<1>5. p \in Blocks
  BY DEF Blocks
<1>. QED  BY <1>1, <1>2, <1>3, <1>4, <1>5 DEF NULL

(* The classes share no block.                                             *)
LEMMA OneClass ==
    ASSUME PmmAssumption, PowersOfTwo, NEW j \in FreeList, NEW k \in FreeList,
           NEW p \in Block(j), p \in Block(k)
    PROVE  j = k
<1>1. j \in Nat /\ k \in Nat
  BY Constants DEF FreeList
<1>2. /\ p \in Nat /\ RegionStart(j) <= p /\ p < RegionEnd(j)
      /\ RegionStart(k) <= p /\ p < RegionEnd(k)
  BY BlockPlace
<1>3. /\ j < k => RegionEnd(j) <= RegionStart(k)
      /\ k < j => RegionEnd(k) <= RegionStart(j)
      /\ RegionStart(j) \in Nat /\ RegionEnd(j) \in Nat
      /\ RegionStart(k) \in Nat /\ RegionEnd(k) \in Nat
  BY Regions
<1>. QED  BY <1>1, <1>2, <1>3

(* kfree puts a block back where it came from, if it finds a list at all.  *)
LEMMA PtrClass ==
    ASSUME PmmAssumption, PowersOfTwo, NEW k \in FreeList, NEW p \in Block(k)
    PROVE  ClassOfPtr(p) \subseteq {k}
<1>1. /\ p \in Nat /\ RegionStart(k) <= p /\ p < RegionEnd(k) /\ p < HUGESTART
  BY BlockPlace
<1>2. NSmall \in Nat /\ k \in Nat /\ (k < Page \/ k = Page \/ k = MPage)
  BY Constants DEF FreeList, Page, MPage
<1>3. /\ PAGESTART \in Nat /\ MPAGESTART \in Nat /\ HUGESTART \in Nat
      /\ PAGESTART < MPAGESTART /\ MPAGESTART < HUGESTART
  BY Regions
<1>4. ASSUME NEW j \in SmallId(p) PROVE j = k
  <2>1. j \in FreeList /\ j < Page /\ RegionStart(j) <= p /\ p < RegionEnd(j)
    BY <1>2 DEF SmallId, FreeList, Page, RegionStart, RegionEnd
  <2>2. /\ j < k => RegionEnd(j) <= RegionStart(k)
        /\ k < j => RegionEnd(k) <= RegionStart(j)
        /\ RegionStart(j) \in Nat /\ RegionEnd(j) \in Nat
        /\ RegionStart(k) \in Nat /\ RegionEnd(k) \in Nat
    BY <2>1, Regions
  <2>3. j \in Nat
    BY <1>2, <2>1 DEF FreeList
  <2>. QED  BY <1>1, <1>2, <2>1, <2>2, <2>3
<1>5. ~(HUGESTART <= p)
  BY <1>1, <1>3
<1>6. CASE p <= PAGESTART
  BY <1>1, <1>3, <1>4, <1>5, <1>6 DEF ClassOfPtr
<1>7. CASE PAGESTART < p
  <2>1. k = Page => p < MPAGESTART
    BY <1>1, <1>2 DEF RegionEnd, Page
  <2>2. k = MPage => MPAGESTART <= p
    BY <1>1, <1>2 DEF RegionStart, Page, MPage
  <2>3. k < Page => p < PAGESTART
    <3>1. k < Page => k = NSmall - 1 \/ k + 1 < NSmall
      BY <1>2 DEF Page
    <3>2. k < Page => k + 1 \in FreeList /\ Page \in FreeList /\ k < Page
      BY <1>2 DEF FreeList, Page
    <3>3. k < Page => RegionEnd(k) <= RegionStart(Page)
      BY <3>2, Regions
    <3>4. RegionStart(Page) = PAGESTART /\ RegionEnd(k) \in Nat
      BY <1>2, Regions DEF RegionStart, Page
    <3>. QED  BY <1>1, <1>3, <3>3, <3>4
  <2>. QED  BY <1>1, <1>2, <1>3, <1>5, <1>7, <2>1, <2>2, <2>3 DEF ClassOfPtr
<1>. QED  BY <1>1, <1>3, <1>6, <1>7

LEMMA PtrHuge ==
    ASSUME PmmAssumption, PowersOfTwo, NEW p \in Nat, HUGESTART <= p
    PROVE  ClassOfPtr(p) = {Huge}
BY Regions DEF ClassOfPtr

LEMMA FiniteBlocks ==
    ASSUME PmmAssumption, PowersOfTwo, NEW k \in FreeList
    PROVE  IsFiniteSet(Block(k)) /\ Cardinality(Block(k)) \in Nat
<1>1. ROUNDUP(RegionStart(k), BlockSize(k)) \in Nat /\ RegionEnd(k) \in Nat
  BY Regions, Constants, RoundedUp
<1>2. IsFiniteSet(ROUNDUP(RegionStart(k), BlockSize(k)) .. RegionEnd(k))
  BY <1>1, FS_Interval
<1>3. IsFiniteSet(Block(k))
  BY <1>2, FS_Subset DEF Block
<1>. QED  BY <1>3, FS_CardinalityType

-----------------------------------------------------------------------------
(* kinit leaves a list of all the blocks of a region, from the last down.  *)
LEMMA Cut ==
    ASSUME PmmAssumption, PowersOfTwo, Init, NEW k \in FreeList
    PROVE  ListOK(k)
<1>. DEFINE B == BlockSize(k)
            lo == ROUNDUP(RegionStart(k), B)
<1>1. B \in Nat \ {0}
  BY Constants
<1>2. lo \in Nat /\ lo % B = 0 /\ RegionEnd(k) \in Nat
  BY <1>1, Regions, RoundedUp
<1>3. \A p : p \in Block(k) <=> p \in Nat /\ lo <= p /\ p % B = 0 /\ p + B <= RegionEnd(k)
  BY <1>1, <1>2 DEF Block
<1>4. \A p : ~InUse(p)
  BY DEF Init, InUse, Lives, Holds, Handling
<1>5. \A p \in Block(k) : nxt[p] = IF p - B \in Block(k) THEN p - B ELSE NULL
  <2>1. ASSUME NEW p \in Block(k) PROVE (CHOOSE j \in FreeList : p \in Block(j)) = k
    BY OneClass
  <2>2. \A p \in Block(k) : p \in Blocks
    BY BlockPlace
  <2>. QED  BY <2>1, <2>2 DEF Init
<1>. HIDE DEF B, lo
<1>6. CASE Block(k) = {}
  <2>1. freelist[k] = NULL
    BY <1>6 DEF Init
  <2>2. Chain(k, 0, [i \in 0 .. 0 |-> NULL])
    BY <1>6, <2>1 DEF Chain
  <2>. QED  BY <2>2 DEF ListOK
<1>7. CASE Block(k) # {}
  <2>1. PICK M \in Block(k) : \A q \in Block(k) : q <= M
    <3>1. Block(k) \subseteq 0 .. RegionEnd(k)
      BY <1>1, <1>2, <1>3
    <3>. QED  BY <1>2, <1>7, <3>1, Greatest
  <2>2. freelist[k] = M
    <3>1. freelist[k] \in Block(k) /\ \A q \in Block(k) : q <= freelist[k]
      BY <1>7, <2>1 DEF Init
    <3>. QED  BY <1>3, <2>1, <3>1
  <2>3. ASSUME NEW p \in Nat, lo <= p, p % B = 0
        PROVE  \E m \in Nat : p = lo + B * m
    <3>1. PICK x \in Nat : p = B * x
      BY <1>1, <2>3, Multiple
    <3>2. PICK y \in Nat : lo = B * y
      BY <1>1, <1>2, Multiple, ZenonT(60)
    <3>3. y <= x
      BY <1>1, <2>3, <3>1, <3>2
    <3>4. PICK z \in Nat : x = y + z
      <4>1. x - y \in Nat /\ x = y + (x - y)
        BY <3>3
      <4>. QED  BY <4>1
    <3>5. p = lo + B * z
      BY <1>1, <3>1, <3>2, <3>4
    <3>. QED  BY <3>5
  <2>4. PICK m \in Nat : M = lo + B * m
    BY <1>3, <2>1, <2>3
  <2>5. \A j \in Nat : (lo + B * j) % B = 0
    <3>1. PICK u \in Nat : lo = B * u
      BY <1>1, <1>2, Multiple
    <3>2. \A j \in Nat : lo + B * j = B * (u + j) /\ u + j \in Nat
      BY <1>1, <3>1
    <3>3. \A x \in Nat : (B * x) % B = 0
      BY <1>1
    <3>. QED  BY <3>2, <3>3
  <2>6. \A j \in 0 .. m : lo + B * j \in Block(k)
    <3>1. ASSUME NEW j \in 0 .. m PROVE lo + B * j \in Nat /\ lo <= lo + B * j /\ lo + B * j <= M
      <4>1. B * j \in Nat /\ B * m \in Nat /\ B * j <= B * m
        BY <1>1, <2>4
      <4>. QED  BY <1>2, <2>4, <4>1
    <3>2. M + B <= RegionEnd(k) /\ M \in Nat
      BY <1>3, <2>1
    <3>3. ASSUME NEW j \in 0 .. m PROVE lo + B * j \in Block(k)
      <4>1. PICK q \in Nat : q = lo + B * j
        BY <3>1
      <4>2. lo <= q /\ q <= M /\ q % B = 0
        BY <2>5, <3>1, <4>1
      <4>3. q + B <= RegionEnd(k)
        BY <1>1, <1>2, <3>2, <4>2
      <4>. QED  BY <1>3, <4>1, <4>2, <4>3
    <3>. QED  BY <3>3
  <2>. DEFINE s == [i \in 0 .. m + 1 |-> IF i = m + 1 THEN NULL ELSE lo + B * (m - i)]
  <2>7. \A i \in 0 .. m : s[i] = lo + B * (m - i) /\ m - i \in 0 .. m
    BY <2>4
  <2>8. s[m + 1] = NULL
    BY <2>4
  <2>9. s[0] = freelist[k]
    BY <2>2, <2>4, <2>7
  <2>10. s \in [0 .. m + 1 -> Block(k) \cup {NULL}]
    BY <2>4, <2>6, <2>7, <2>8
  <2>. HIDE DEF s
  <2>11. ASSUME NEW i \in 0 .. m PROVE s[i] \in Block(k) /\ nxt[s[i]] = s[i + 1]
    <3>1. s[i] \in Block(k)
      BY <2>6, <2>7
    <3>2. CASE i = m
      <4>1. s[i] = lo
        BY <1>1, <1>2, <2>7, <3>2
      <4>2. lo - B \notin Block(k)
        BY <1>1, <1>2, <1>3
      <4>. QED  BY <1>5, <2>8, <3>1, <3>2, <4>1, <4>2
    <3>3. CASE i # m
      <4>1. i + 1 \in 0 .. m
        BY <2>4, <3>3
      <4>2. s[i + 1] = lo + B * (m - (i + 1)) /\ s[i + 1] \in Block(k)
        BY <2>6, <2>7, <4>1
      <4>3. B * (m - i) = B * (m - (i + 1)) + B
        BY <1>1, <2>4
      <4>4. s[i] - B = s[i + 1]
        <5>1. B * (m - (i + 1)) \in Int
          BY <1>1, <2>4
        <5>. QED  BY <1>1, <1>2, <2>7, <4>2, <4>3, <5>1
      <4>. QED  BY <1>5, <3>1, <4>2, <4>4
    <3>. QED  BY <3>1, <3>2, <3>3
  <2>12. ASSUME NEW i \in 0 .. m, NEW j \in 0 .. m, s[i] = s[j] PROVE i = j
    <3>1. B * (m - i) = B * (m - j)
      <4>1. B * (m - i) \in Int /\ B * (m - j) \in Int
        BY <1>1, <2>4
      <4>. QED  BY <1>2, <2>7, <2>12, <4>1
    <3>. QED  BY <1>1, <2>4, <3>1
  <2>13. ASSUME NEW p \in Block(k) PROVE \E i \in 0 .. m : s[i] = p
    <3>1. PICK j \in Nat : p = lo + B * j
      BY <1>3, <2>3
    <3>2. j <= m
      <4>1. B * j <= B * m
        <5>1. B * j \in Nat /\ B * m \in Nat
          BY <1>1, <2>4
        <5>. QED  BY <1>2, <2>1, <2>4, <3>1, <5>1
      <4>. QED  BY <1>1, <2>4, <4>1
    <3>3. m - j \in 0 .. m /\ m - (m - j) = j
      BY <2>4, <3>2
    <3>. QED  BY <2>7, <3>1, <3>3
  <2>14. (m + 1) - 1 = m /\ m + 1 \in Nat
    BY <2>4
  <2>15. Chain(k, m + 1, s)
    BY <1>4, <2>8, <2>9, <2>10, <2>11, <2>12, <2>13, <2>14 DEF Chain
  <2>. QED  BY <2>14, <2>15 DEF ListOK
<1>. QED  BY <1>6, <1>7

(* At first nobody has a block.                                            *)
LEMMA InitHolds == ASSUME PmmAssumption, PowersOfTwo, Init PROVE IInv
<1>1. freelist \in [FreeList -> Nat]
  <2>1. ASSUME NEW k \in FreeList PROVE freelist[k] \in Nat
    <3>1. PICK n \in Nat : \E s : Chain(k, n, s)
      BY Cut DEF ListOK
    <3>2. PICK s : Chain(k, n, s)
      BY <3>1
    <3>3. s[0] \in Block(k) \cup {NULL} /\ freelist[k] = s[0]
      BY <3>1, <3>2 DEF Chain
    <3>. QED  BY <3>3, BlockPlace DEF NULL
  <2>. QED  BY <2>1 DEF Init
<1>2. nxt \in [Blocks -> Nat]
  <2>1. ASSUME NEW p \in Blocks PROVE nxt[p] \in Nat
    <3>1. PICK k \in FreeList : k = CHOOSE j \in FreeList : p \in Block(j)
      BY DEF Blocks
    <3>2. nxt[p] = IF p - BlockSize(k) \in Block(k) THEN p - BlockSize(k) ELSE NULL
      BY <3>1 DEF Init
    <3>. QED  BY <3>2, BlockPlace DEF NULL
  <2>. QED  BY <2>1 DEF Init
<1>3. 0 \in Class
  BY Constants DEF Class, FreeList
<1>4. TypeOK
  <2>1. HUGESTART \in Nat /\ HUGESTART <= HUGESTART
    BY Regions
  <2>. QED  BY <1>1, <1>2, <1>3, <2>1 DEF Init, TypeOK, Pc, NULL
<1>5. \A k \in FreeList : ListOK(k)
  BY Cut
<1>6. LocksExclude /\ AllocatedOK /\ Sole /\ \A c \in Cpu : Local(c)
  BY DEF Init, LocksExclude, AllocatedOK, Sole, Local, Busy, Locked, Holds, Handling, Lives
<1>. QED  BY <1>4, <1>5, <1>6 DEF IInv, Sound

-----------------------------------------------------------------------------
(* What the steps of a CPU leave alone.                                    *)

\* Only CPU c moves.
Moves(c) ==
    \A d \in Cpu \ {c} :
        pc'[d] = pc[d] /\ cls'[d] = cls[d] /\ r'[d] = r[d] /\ req'[d] = req[d]

(* A list stays what it is with its head, the pointers of the blocks that  *)
(* are on it, and who uses its blocks.                                     *)
LEMMA ListKept ==
    ASSUME NEW k \in FreeList, ListOK(k), freelist'[k] = freelist[k],
           \A p \in Block(k) : ~InUse(p) => nxt'[p] = nxt[p],
           \A p \in Block(k) : InUse(p)' <=> InUse(p)
    PROVE  ListOK(k)'
<1>1. PICK n \in Nat : \E s : Chain(k, n, s)
  BY DEF ListOK
<1>2. PICK s : Chain(k, n, s)
  BY <1>1
<1>3. \A i \in 0 .. n - 1 : s[i] \in Block(k) /\ nxt[s[i]] = s[i + 1] /\ ~InUse(s[i])
  BY <1>2 DEF Chain
<1>4. \A i \in 0 .. n - 1 : s[i] \in Block(k) /\ nxt'[s[i]] = s[i + 1]
  BY <1>3
<1>5. Chain(k, n, s)'
  BY <1>2, <1>4 DEF Chain
<1>. QED  BY <1>5 DEF ListOK

(* The head of a list is a block of its class that nobody has.             *)
LEMMA FirstBlock ==
    ASSUME NEW k \in FreeList, ListOK(k), freelist[k] # NULL
    PROVE  freelist[k] \in Block(k) /\ ~InUse(freelist[k])
<1>1. PICK n \in Nat : \E s : Chain(k, n, s)
  BY DEF ListOK
<1>2. PICK s : Chain(k, n, s)
  BY <1>1
<1>3. n # 0
  BY <1>2 DEF Chain
<1>4. 0 \in 0 .. n - 1
  BY <1>3
<1>5. s[0] = freelist[k] /\ s[0] \in Block(k)
  BY <1>2, <1>4 DEF Chain
<1>6. ~InUse(s[0])
  BY <1>2, <1>4, <1>5 DEF Chain
<1>. QED  BY <1>5, <1>6 DEF InUse, Lives, Holds

(* The other CPUs know what they knew.                                     *)
LEMMA OthersKept ==
    ASSUME NEW c \in Cpu, Moves(c), NEW d \in Cpu \ {c}, Local(d),
           Busy(d) => freelist'[cls[d]] = freelist[cls[d]],
           pc[d] = "f_push" => nxt'[r[d]] = nxt[r[d]]
    PROVE  Local(d)'
BY DEF Moves, Local, Busy, Locked

LEMMA LocksKept ==
    ASSUME NEW c \in Cpu, Moves(c), LocksExclude, locked' = locked,
           Busy(c)' => Busy(c) /\ cls'[c] = cls[c]
    PROVE  LocksExclude'
BY DEF Moves, LocksExclude, Busy

LEMMA LockTaken ==
    ASSUME NEW c \in Cpu, Moves(c), TypeOK, LocksExclude, cls'[c] = cls[c],
           ~locked[cls[c]], locked' = [locked EXCEPT ![cls[c]] = TRUE]
    PROVE  LocksExclude'
<1>1. \A d \in Cpu : cls[d] \in Class
  BY DEF TypeOK
<1>2. \A k \in Class : locked'[k] = IF k = cls[c] THEN TRUE ELSE locked[k]
  BY DEF TypeOK
<1>3. \A d \in Cpu \ {c} : Busy(d)' => Busy(d) /\ cls'[d] = cls[d] /\ cls[d] # cls[c]
  BY DEF Moves, LocksExclude, Busy
<1>. QED  BY <1>1, <1>2, <1>3, ZenonT(60) DEF LocksExclude

LEMMA LockGiven ==
    ASSUME NEW c \in Cpu, Moves(c), TypeOK, LocksExclude, Busy(c), ~Busy(c)',
           locked' = [locked EXCEPT ![cls[c]] = FALSE]
    PROVE  LocksExclude'
<1>1. \A d \in Cpu : cls[d] \in Class
  BY DEF TypeOK
<1>2. \A k \in Class : locked'[k] = IF k = cls[c] THEN FALSE ELSE locked[k]
  BY DEF TypeOK
<1>3. \A d \in Cpu \ {c} : Busy(d)' => Busy(d) /\ cls'[d] = cls[d] /\ cls[d] # cls[c]
  BY DEF Moves, LocksExclude, Busy
<1>. QED  BY <1>1, <1>2, <1>3 DEF LocksExclude

(* A step that gives no block to anybody and takes none.                   *)
LEMMA UseKept ==
    ASSUME NEW c \in Cpu, Moves(c), allocated' = allocated, Sole, AllocatedOK,
           \A p \in Blocks : Holds(c, p)' <=> Holds(c, p)
    PROVE  Sole' /\ AllocatedOK' /\ \A p \in Blocks : InUse(p)' <=> InUse(p)
<1>1. \A p \in Blocks, d \in Cpu : Holds(d, p)' <=> Holds(d, p)
  BY DEF Moves, Holds
<1>2. \A p \in Blocks : Lives(p)' <=> Lives(p)
  BY DEF Lives
<1>3. Sole'
  BY <1>1, <1>2 DEF Sole
<1>4. \A p \in Blocks : InUse(p)' <=> InUse(p)
  BY <1>1, <1>2 DEF InUse
<1>. QED  BY <1>3, <1>4 DEF AllocatedOK

(* A step that leaves the lists and who uses their blocks as they are.     *)
LEMMA Quiet ==
    ASSUME Sound, NEW c \in Cpu, Moves(c), freelist' = freelist, nxt' = nxt,
           Local(c)', LocksExclude', Sole', AllocatedOK',
           \A p \in Blocks : InUse(p)' <=> InUse(p)
    PROVE  Sound'
<1>1. \A k \in FreeList : ListOK(k)'
  <2>1. \A k \in FreeList : \A p \in Block(k) : p \in Blocks
    BY DEF Blocks
  <2>. QED  BY <2>1, ListKept DEF Sound
<1>2. \A d \in Cpu : Local(d)'
  BY OthersKept DEF Sound
<1>. QED  BY <1>1, <1>2 DEF Sound

-----------------------------------------------------------------------------
(* The steps of kalloc, kfree and hugealloc keep the invariant.            *)

LEMMA Classes ==
    ASSUME PmmAssumption, PowersOfTwo
    PROVE  /\ Huge \in Class /\ Huge \notin FreeList
           /\ \A sz \in Requests : ClassOf(sz) = Huge \/ ClassOf(sz) \in FreeList
           /\ \A k \in FreeList : k \in Class
<1>1. MinLog \in Nat /\ NSmall \in Nat /\ \A sz \in Requests : sz \in Nat
  BY Constants
<1>2. Huge \in Class /\ Huge \notin FreeList /\ \A k \in FreeList : k \in Class
  BY <1>1 DEF Class, FreeList, Huge
<1>3. \A sz \in Requests : ClassOf(sz) = Huge \/ ClassOf(sz) \in FreeList
  <2>. SUFFICES ASSUME NEW sz \in Requests PROVE ClassOf(sz) = Huge \/ ClassOf(sz) \in FreeList
    OBVIOUS
  <2>1. HugeLog = MinLog + NSmall + 2
    BY <1>1 DEF HugeLog, PageLog
  <2>2. 0 \in FreeList
    BY <1>1 DEF FreeList
  <2>3. ~(sz <= MinLog) /\ sz < HugeLog => sz - MinLog \in FreeList
    BY <1>1, <2>1 DEF FreeList
  <2>. QED  BY <2>2, <2>3 DEF ClassOf
<1>. QED  BY <1>2, <1>3

LEMMA KAllocKeeps ==
    ASSUME PmmAssumption, PowersOfTwo, TypeOK, Sound, NEW c \in Cpu,
           NEW sz \in Requests, KAlloc(c, sz)
    PROVE  TypeOK' /\ Sound'
<1>1. PICK k \in Class : k = ClassOf(sz) /\ (k = Huge \/ k \in FreeList)
  BY Classes
<1>2. /\ pc[c] = "out" /\ pc' = [pc EXCEPT ![c] = IF k = Huge THEN "h_lock" ELSE "a_lock"]
      /\ req' = [req EXCEPT ![c] = sz] /\ cls' = [cls EXCEPT ![c] = k]
      /\ UNCHANGED <<freelist, nxt, locked, hbound, allocated, panicked, r>>
  BY <1>1 DEF KAlloc, Goto
<1>3. TypeOK'
  BY <1>1, <1>2 DEF TypeOK, Pc
<1>4. /\ Moves(c) /\ pc'[c] = (IF k = Huge THEN "h_lock" ELSE "a_lock")
      /\ req'[c] = sz /\ cls'[c] = k
  BY <1>2 DEF TypeOK, Moves
<1>5. Local(c)'
  BY <1>1, <1>4 DEF Local
<1>6. LocksExclude'
  BY <1>2, <1>4, LocksKept DEF Sound, Busy, Locked
<1>7. Sole' /\ AllocatedOK' /\ \A p \in Blocks : InUse(p)' <=> InUse(p)
  BY <1>2, <1>4, UseKept DEF Sound, Holds, Handling
<1>. QED  BY <1>2, <1>3, <1>4, <1>5, <1>6, <1>7, Quiet

LEMMA LockKeeps ==
    ASSUME PmmAssumption, PowersOfTwo, TypeOK, Sound, NEW c \in Cpu, Lock(c)
    PROVE  TypeOK' /\ Sound'
<1>1. PICK q \in {"a_read", "f_nxt", "h_bump"} :
         /\ \/ pc[c] = "a_lock" /\ q = "a_read"
            \/ pc[c] = "f_lock" /\ q = "f_nxt"
            \/ pc[c] = "h_lock" /\ q = "h_bump"
         /\ pc' = [pc EXCEPT ![c] = q]
  BY DEF Lock, Goto
<1>2. /\ ~locked[cls[c]] /\ locked' = [locked EXCEPT ![cls[c]] = TRUE]
      /\ UNCHANGED <<freelist, nxt, hbound, allocated, panicked, req, cls, r>>
  BY DEF Lock, call
<1>3. TypeOK'
  BY <1>1, <1>2 DEF TypeOK, Pc
<1>4. Moves(c) /\ pc'[c] = q
  BY <1>1, <1>2 DEF TypeOK, Moves
<1>5. Local(c)'
  BY <1>1, <1>2, <1>4 DEF Sound, Local
<1>6. LocksExclude'
  BY <1>2, <1>4, LockTaken DEF Sound
<1>7. Sole' /\ AllocatedOK' /\ \A p \in Blocks : InUse(p)' <=> InUse(p)
  BY <1>1, <1>2, <1>4, UseKept DEF Sound, Holds, Handling
<1>. QED  BY <1>2, <1>3, <1>4, <1>5, <1>6, <1>7, Quiet

LEMMA ReadHeadKeeps ==
    ASSUME PmmAssumption, PowersOfTwo, TypeOK, Sound, NEW c \in Cpu, ReadHead(c)
    PROVE  TypeOK' /\ Sound'
<1>1. PICK k \in FreeList : k = cls[c] /\ req[c] \in Requests
  BY DEF Sound, Local, ReadHead
<1>2. /\ pc[c] = "a_read" /\ r' = [r EXCEPT ![c] = freelist[k]]
      /\ pc' = [pc EXCEPT ![c] = IF freelist[k] = NULL THEN "a_unlock" ELSE "a_pop"]
      /\ UNCHANGED <<freelist, nxt, locked, hbound, allocated, panicked, req, cls>>
  BY <1>1 DEF ReadHead, Goto
<1>3. TypeOK'
  BY <1>1, <1>2 DEF TypeOK, Pc
<1>4. /\ Moves(c) /\ r'[c] = freelist[k]
      /\ pc'[c] = (IF freelist[k] = NULL THEN "a_unlock" ELSE "a_pop")
  BY <1>2 DEF TypeOK, Moves
<1>5. Local(c)'
  BY <1>1, <1>2, <1>4 DEF Local
<1>6. LocksExclude'
  BY <1>2, <1>4, LocksKept DEF Sound, Busy, Locked
<1>7. Sole' /\ AllocatedOK' /\ \A p \in Blocks : InUse(p)' <=> InUse(p)
  <2>1. \A p \in Blocks : p # NULL
    BY BlockPlace DEF Blocks
  <2>. QED  BY <1>2, <1>4, <2>1, UseKept DEF Sound, Holds, Handling
<1>. QED  BY <1>2, <1>3, <1>4, <1>5, <1>6, <1>7, Quiet

LEMMA UnlockKeeps ==
    ASSUME PmmAssumption, PowersOfTwo, TypeOK, Sound, NEW c \in Cpu, Unlock(c)
    PROVE  TypeOK' /\ Sound'
<1>1. PICK q \in {"a_done", "f_done"} :
         /\ \/ pc[c] = "a_unlock" /\ q = "a_done"
            \/ pc[c] = "f_unlock" /\ q = "f_done"
         /\ pc' = [pc EXCEPT ![c] = q]
  BY DEF Unlock, Goto
<1>2. /\ locked' = [locked EXCEPT ![cls[c]] = FALSE]
      /\ UNCHANGED <<freelist, nxt, hbound, allocated, panicked, req, cls, r>>
  BY DEF Unlock, call
<1>3. TypeOK'
  BY <1>1, <1>2 DEF TypeOK, Pc
<1>4. Moves(c) /\ pc'[c] = q
  BY <1>1, <1>2 DEF TypeOK, Moves
<1>5. Local(c)'
  BY <1>1, <1>2, <1>4 DEF Sound, Local
<1>6. LocksExclude'
  BY <1>1, <1>2, <1>4, LockGiven DEF Sound, Busy, Locked
<1>7. Sole' /\ AllocatedOK' /\ \A p \in Blocks : InUse(p)' <=> InUse(p)
  BY <1>1, <1>2, <1>4, UseKept DEF Sound, Holds, Handling
<1>. QED  BY <1>2, <1>3, <1>4, <1>5, <1>6, <1>7, Quiet

LEMMA HugeBumpKeeps ==
    ASSUME PmmAssumption, PowersOfTwo, TypeOK, Sound, NEW c \in Cpu, HugeBump(c)
    PROVE  TypeOK' /\ Sound'
<1>1. pc[c] = "h_bump" /\ cls[c] = Huge /\ req[c] \in Requests
  BY DEF Sound, Local, HugeBump
<1>2. PICK n \in Nat \ {0} : n = 2 ^ req[c]
  BY <1>1, Constants
<1>3. PICK p \in Nat : p = ROUNDUP(hbound, n) /\ HUGESTART <= p
  <2>1. ROUNDUP(hbound, n) \in Nat /\ hbound <= ROUNDUP(hbound, n)
    BY RoundedUp DEF TypeOK
  <2>2. HUGESTART <= ROUNDUP(hbound, n)
    BY <2>1, Regions DEF TypeOK
  <2>. QED  BY <2>1, <2>2
<1>4. /\ r' = [r EXCEPT ![c] = p] /\ hbound' = hbound + n
      /\ locked' = [locked EXCEPT ![cls[c]] = FALSE] /\ pc' = [pc EXCEPT ![c] = "h_check"]
      /\ UNCHANGED <<freelist, nxt, allocated, panicked, req, cls>>
  BY <1>1, <1>2, <1>3 DEF HugeBump, Goto
<1>5. hbound' \in Nat /\ HUGESTART <= hbound'
  BY <1>4, Regions DEF TypeOK
<1>6. TypeOK'
  BY <1>1, <1>4, <1>5 DEF TypeOK, Pc
<1>7. Moves(c) /\ pc'[c] = "h_check" /\ r'[c] = p
  BY <1>4 DEF TypeOK, Moves
<1>8. Local(c)'
  BY <1>1, <1>3, <1>4, <1>7 DEF Local
<1>9. LocksExclude'
  BY <1>1, <1>4, <1>7, LockGiven DEF Sound, Busy, Locked
<1>10. Sole' /\ AllocatedOK' /\ \A x \in Blocks : InUse(x)' <=> InUse(x)
  BY <1>1, <1>4, <1>7, UseKept DEF Sound, Holds, Handling
<1>. QED  BY <1>4, <1>6, <1>7, <1>8, <1>9, <1>10, Quiet

LEMMA HugeCheckKeeps ==
    ASSUME PmmAssumption, PowersOfTwo, TypeOK, Sound, NEW c \in Cpu, HugeCheck(c)
    PROVE  TypeOK' /\ Sound'
<1>1. pc[c] = "h_check" /\ cls[c] = Huge /\ req[c] \in Requests /\ HUGESTART <= r[c]
  BY DEF Sound, Local, HugeCheck
<1>2. PICK p \in Nat : p = (IF hbound > HeapEnd THEN NULL ELSE r[c])
                      /\ (p = NULL \/ HUGESTART <= p)
  BY <1>1 DEF TypeOK, NULL
<1>3. /\ r' = [r EXCEPT ![c] = p] /\ pc' = [pc EXCEPT ![c] = "a_done"]
      /\ UNCHANGED <<freelist, nxt, locked, hbound, allocated, panicked, req, cls>>
  BY <1>2 DEF HugeCheck, Goto
<1>4. TypeOK'
  BY <1>3 DEF TypeOK, Pc
<1>5. Moves(c) /\ pc'[c] = "a_done" /\ r'[c] = p
  BY <1>3 DEF TypeOK, Moves
<1>6. Local(c)'
  BY <1>1, <1>2, <1>3, <1>5 DEF Local
<1>7. LocksExclude'
  BY <1>3, <1>5, LocksKept DEF Sound, Busy, Locked
<1>8. Sole' /\ AllocatedOK' /\ \A x \in Blocks : InUse(x)' <=> InUse(x)
  <2>1. p \notin Blocks
    <3>1. ASSUME NEW x \in Blocks PROVE x \in Nat /\ x # NULL /\ x < HUGESTART
      BY BlockPlace DEF Blocks
    <3>. QED  BY <1>2, <3>1, Regions
  <2>. QED  BY <1>1, <1>3, <1>5, <2>1, UseKept DEF Sound, Holds, Handling
<1>. QED  BY <1>3, <1>4, <1>5, <1>6, <1>7, <1>8, Quiet

(* The head leaves its list: the caller has it, and the list goes on.      *)
LEMMA PopKeeps ==
    ASSUME PmmAssumption, PowersOfTwo, TypeOK, Sound, NEW c \in Cpu, Pop(c)
    PROVE  TypeOK' /\ Sound'
<1>1. PICK k \in FreeList : k = cls[c] /\ req[c] \in Requests
  BY DEF Sound, Local, Pop
<1>2. PICK h : h = r[c] /\ h = freelist[k] /\ h # NULL
  BY <1>1 DEF Sound, Local, Pop
<1>3. h \in Block(k) /\ ~InUse(h) /\ h \in Blocks
  BY <1>2, FirstBlock, BlockPlace DEF Sound
<1>4. /\ pc[c] = "a_pop" /\ pc' = [pc EXCEPT ![c] = "a_unlock"]
      /\ freelist' = [freelist EXCEPT ![k] = nxt[h]]
      /\ UNCHANGED <<nxt, locked, hbound, allocated, panicked, req, cls, r>>
  BY <1>1, <1>2 DEF Pop, Goto, call
<1>5. TypeOK'
  BY <1>1, <1>3, <1>4 DEF TypeOK, Pc
<1>6. Moves(c) /\ pc'[c] = "a_unlock" /\ r'[c] = h /\ cls'[c] = k
  BY <1>1, <1>2, <1>4 DEF TypeOK, Moves
<1>7. Local(c)'
  BY <1>1, <1>3, <1>4, <1>6 DEF Local
<1>8. LocksExclude'
  BY <1>4, <1>6, LocksKept DEF Sound, Busy, Locked
<1>9. \A j \in FreeList : freelist'[j] = IF j = k THEN nxt[h] ELSE freelist[j]
  BY <1>4 DEF TypeOK
<1>10. ASSUME NEW d \in Cpu \ {c} PROVE Local(d)'
  <2>1. Busy(d) => freelist'[cls[d]] = freelist[cls[d]]
    <3>1. Busy(c)
      BY <1>4 DEF Busy, Locked
    <3>2. Busy(d) => cls[d] # k
      BY <1>1, <3>1 DEF Sound, LocksExclude
    <3>. QED  BY <1>4, <3>2 DEF TypeOK
  <2>. QED  BY <1>4, <1>6, <2>1, OthersKept DEF Sound
<1>11. \A p \in Blocks, d \in Cpu : Holds(d, p)' <=> Holds(d, p) \/ (d = c /\ p = h)
  BY <1>4, <1>6 DEF Moves, Holds, Handling
<1>12. \A p \in Blocks : Lives(p)' <=> Lives(p)
  BY <1>4 DEF Lives
<1>13. \A p \in Blocks : InUse(p)' <=> InUse(p) \/ p = h
  BY <1>11, <1>12 DEF InUse
<1>14. Sole' /\ AllocatedOK'
  <2>1. ~Lives(h) /\ \A d \in Cpu : ~Holds(d, h)
    BY <1>3 DEF InUse
  <2>2. Sole'
    BY <1>11, <1>12, <2>1 DEF Sound, Sole
  <2>. QED  BY <1>4, <2>2 DEF Sound, AllocatedOK
<1>15. ListOK(k)'
  <2>1. PICK n \in Nat : \E s : Chain(k, n, s)
    BY DEF Sound, ListOK
  <2>2. PICK s : Chain(k, n, s)
    BY <2>1
  <2>3. /\ s \in [0 .. n -> Block(k) \cup {NULL}] /\ s[0] = h /\ s[n] = NULL
        /\ \A i \in 0 .. n - 1 : s[i] \in Block(k) /\ nxt[s[i]] = s[i + 1]
        /\ \A i, j \in 0 .. n - 1 : s[i] = s[j] => i = j
        /\ \A p \in Block(k) : (\E i \in 0 .. n - 1 : s[i] = p) <=> ~InUse(p)
    BY <1>2, <2>2 DEF Chain
  <2>4. n # 0
    BY <1>2, <2>3
  <2>5. PICK m \in Nat : n = m + 1
    BY <2>4
  <2>. DEFINE t == [i \in 0 .. m |-> s[i + 1]]
  <2>6. /\ \A i \in 0 .. m : t[i] = s[i + 1] /\ i + 1 \in 0 .. n
        /\ \A i \in 0 .. m - 1 : t[i] = s[i + 1] /\ i + 1 \in 0 .. n - 1 /\ t[i + 1] = s[i + 2]
    BY <2>5
  <2>7. t \in [0 .. m -> Block(k) \cup {NULL}] /\ t[0] = s[1] /\ t[m] = NULL
    BY <2>3, <2>5, <2>6
  <2>. HIDE DEF t
  <2>8. freelist'[k] = t[0]
    <3>1. 0 \in 0 .. n - 1
      BY <2>4
    <3>. QED  BY <1>9, <2>3, <2>7, <3>1, SMTT(60)
  <2>9. ASSUME NEW i \in 0 .. m - 1 PROVE t[i] \in Block(k) /\ nxt'[t[i]] = t[i + 1]
    <3>1. i + 1 \in 0 .. n - 1 /\ t[i] = s[i + 1] /\ t[i + 1] = s[(i + 1) + 1]
      BY <2>6
    <3>. QED  BY <1>4, <2>3, <3>1
  <2>10. ASSUME NEW i \in 0 .. m - 1, NEW j \in 0 .. m - 1, t[i] = t[j] PROVE i = j
    <3>1. i + 1 = j + 1
      BY <2>3, <2>6, <2>10, SMTT(60)
    <3>. QED  BY <3>1
  <2>11. ASSUME NEW p \in Block(k) PROVE (\E i \in 0 .. m - 1 : t[i] = p) <=> ~InUse(p)'
    <3>1. InUse(p)' <=> InUse(p) \/ p = h
      BY <1>13, BlockPlace
    <3>2. ASSUME NEW i \in 0 .. m - 1, t[i] = p PROVE ~InUse(p) /\ p # h
      <4>1. i + 1 \in 0 .. n - 1 /\ s[i + 1] = p
        BY <2>6, <3>2
      <4>2. 0 \in 0 .. n - 1 /\ i + 1 # 0
        BY <2>4
      <4>. QED  BY <2>3, <4>1, <4>2
    <3>3. ASSUME ~InUse(p), p # h PROVE \E i \in 0 .. m - 1 : t[i] = p
      <4>1. PICK j \in 0 .. n - 1 : s[j] = p
        BY <2>3, <3>3
      <4>2. j # 0
        BY <2>3, <3>3, <4>1
      <4>3. j - 1 \in 0 .. m - 1 /\ (j - 1) + 1 = j
        BY <2>5, <4>2
      <4>. QED  BY <2>6, <4>1, <4>3
    <3>. QED  BY <3>1, <3>2, <3>3
  <2>12. Chain(k, m, t)'
    BY <2>7, <2>8, <2>9, <2>10, <2>11 DEF Chain
  <2>. QED  BY <2>12 DEF ListOK
<1>16. ASSUME NEW j \in FreeList PROVE ListOK(j)'
  <2>1. CASE j # k
    <3>1. \A p \in Block(j) : p # h /\ p \in Blocks
      BY <1>3, <2>1, OneClass, BlockPlace
    <3>2. freelist'[j] = freelist[j] /\ \A p \in Block(j) : InUse(p)' <=> InUse(p)
      BY <1>9, <1>13, <2>1, <3>1
    <3>3. nxt' = nxt /\ ListOK(j)
      BY <1>4 DEF Sound
    <3>. QED  BY <3>2, <3>3, ListKept
  <2>. QED  BY <1>15, <2>1
<1>. QED  BY <1>5, <1>7, <1>8, <1>10, <1>14, <1>16 DEF Sound

(* What a caller gets is live from here on.                                *)
LEMMA ReturnKeeps ==
    ASSUME PmmAssumption, PowersOfTwo, TypeOK, Sound, NEW c \in Cpu, Return(c)
    PROVE  TypeOK' /\ Sound'
<1>1. /\ pc[c] \in {"a_done", "f_done"} /\ pc' = [pc EXCEPT ![c] = "out"]
      /\ req' = [req EXCEPT ![c] = 0] /\ cls' = [cls EXCEPT ![c] = 0]
      /\ r' = [r EXCEPT ![c] = NULL]
      /\ UNCHANGED <<freelist, nxt, locked, hbound, panicked>>
  BY DEF Return, Goto
<1>2. 0 \in Class /\ NULL \in Nat
  BY Constants DEF Class, FreeList, NULL
<1>3. TypeOK'
  BY <1>1, <1>2 DEF TypeOK, Pc
<1>4. Moves(c) /\ pc'[c] = "out"
  BY <1>1 DEF TypeOK, Moves
<1>5. Local(c)'
  BY <1>4 DEF Local
<1>6. LocksExclude'
  BY <1>1, <1>4, LocksKept DEF Sound, Busy, Locked
<1>7. \A p \in Blocks : p \in Nat /\ p # NULL /\ p < HUGESTART
  BY BlockPlace DEF Blocks
<1>8. CASE pc[c] = "f_done" \/ r[c] = NULL
  <2>1. allocated' = allocated
    BY <1>8 DEF Return
  <2>2. \A p \in Blocks : ~Holds(c, p) /\ ~Holds(c, p)'
    BY <1>4, <1>7, <1>8 DEF Holds, Handling
  <2>3. Sole' /\ AllocatedOK' /\ \A p \in Blocks : InUse(p)' <=> InUse(p)
    BY <1>4, <2>1, <2>2, UseKept DEF Sound
  <2>. QED  BY <1>1, <1>3, <1>4, <1>5, <1>6, <2>3, Quiet
<1>9. CASE pc[c] = "a_done" /\ r[c] # NULL
  <2>1. PICK h \in Nat : h = r[c] /\ (h \in Blocks \/ HUGESTART <= h)
    BY <1>9 DEF TypeOK, Sound, Local, Blocks
  <2>2. PICK b : b[1] = h /\ allocated' = allocated \cup {b}
    <3>1. allocated' = allocated \cup {<<h, 2 ^ req[c]>>}
      BY <1>9, <2>1 DEF Return
    <3>2. <<h, 2 ^ req[c]>>[1] = h
      OBVIOUS
    <3>. QED  BY <3>1, <3>2
  <2>3. \A p \in Blocks, d \in Cpu : Holds(d, p)' <=> Holds(d, p) /\ d # c
    BY <1>4 DEF Moves, Holds, Handling
  <2>4. \A p \in Blocks : Holds(c, p) <=> p = h
    BY <1>9, <2>1 DEF Holds, Handling
  <2>5. \A p \in Blocks : Lives(p)' <=> Lives(p) \/ p = h
    BY <2>2 DEF Lives
  <2>6. \A p \in Blocks : InUse(p)' <=> InUse(p)
    BY <2>3, <2>4, <2>5 DEF InUse
  <2>7. Sole'
    BY <2>3, <2>4, <2>5 DEF Sound, Sole
  <2>8. h \in Blocks => \A d \in allocated : d[1] # h
    BY <2>4 DEF Sound, Sole, Lives
  <2>9. AllocatedOK'
    BY <2>1, <2>2, <2>8 DEF Sound, AllocatedOK
  <2>. QED  BY <1>1, <1>3, <1>4, <1>5, <1>6, <2>6, <2>7, <2>9, Quiet
<1>. QED  BY <1>1, <1>8, <1>9

(* kfree takes a live block from the caller.                               *)
LEMMA KFreeKeeps ==
    ASSUME PmmAssumption, PowersOfTwo, TypeOK, Sound, NEW c \in Cpu,
           NEW b \in allocated, KFree(c, b)
    PROVE  TypeOK' /\ (~panicked' => Sound')
<1>1. PICK h \in Nat : h = b[1] /\ (h \in Blocks \/ HUGESTART <= h)
  <2>1. b[1] \in Nat
    BY BlockPlace DEF Sound, AllocatedOK, Blocks
  <2>. QED  BY <2>1 DEF Sound, AllocatedOK
<1>2. /\ pc[c] = "out" /\ allocated' = allocated \ {b}
      /\ UNCHANGED <<freelist, nxt, locked, hbound, req>>
  BY DEF KFree
<1>3. CASE panicked' = TRUE /\ UNCHANGED <<pc, cls, r>>
  BY <1>2, <1>3 DEF TypeOK
<1>4. CASE \E k \in ClassOfPtr(h) :
            /\ cls' = [cls EXCEPT ![c] = k] /\ r' = [r EXCEPT ![c] = h]
            /\ pc' = [pc EXCEPT ![c] = IF k = Huge THEN "f_done" ELSE "f_lock"]
            /\ UNCHANGED panicked
  <2>1. PICK k \in ClassOfPtr(h) :
            /\ cls' = [cls EXCEPT ![c] = k] /\ r' = [r EXCEPT ![c] = h]
            /\ pc' = [pc EXCEPT ![c] = IF k = Huge THEN "f_done" ELSE "f_lock"]
            /\ UNCHANGED panicked
    BY <1>4
  <2>2. \/ k \in FreeList /\ h \in Block(k)
        \/ k = Huge /\ HUGESTART <= h /\ h \notin Blocks
    <3>1. CASE h \in Blocks
      <4>1. PICK j \in FreeList : h \in Block(j)
        BY <3>1 DEF Blocks
      <4>. QED  BY <4>1, PtrClass
    <3>2. CASE h \notin Blocks
      BY <1>1, <3>2, PtrHuge
    <3>. QED  BY <3>1, <3>2
  <2>3. k \in Class
    BY <2>2, Classes
  <2>4. TypeOK'
    BY <1>2, <2>1, <2>3 DEF TypeOK, Pc
  <2>5. /\ Moves(c) /\ pc'[c] = (IF k = Huge THEN "f_done" ELSE "f_lock")
        /\ r'[c] = h /\ cls'[c] = k
    BY <1>2, <2>1 DEF TypeOK, Moves
  <2>6. Local(c)'
    BY <2>2, <2>5 DEF Local
  <2>7. LocksExclude'
    BY <1>2, <2>5, LocksKept DEF Sound, Busy, Locked
  <2>8. \A p \in Blocks, d \in Cpu : Holds(d, p)' <=> Holds(d, p) \/ (d = c /\ p = h)
    BY <1>2, <2>2, <2>5, Classes DEF Moves, Holds, Handling
  <2>9. \A p \in Blocks : Lives(p)' <=> Lives(p) /\ p # h
    BY <1>1, <1>2 DEF Lives, Sound, AllocatedOK
  <2>10. Lives(h)
    BY <1>1 DEF Lives
  <2>11. \A p \in Blocks : InUse(p)' <=> InUse(p)
    BY <2>8, <2>9, <2>10 DEF InUse
  <2>12. Sole'
    BY <2>8, <2>9, <2>10 DEF Sound, Sole
  <2>13. AllocatedOK'
    BY <1>2 DEF Sound, AllocatedOK
  <2>. QED  BY <1>2, <2>4, <2>5, <2>6, <2>7, <2>11, <2>12, <2>13, Quiet
<1>. QED  BY <1>1, <1>3, <1>4 DEF KFree, Goto

(* The pointer of a block in hand changes: it is on no list.               *)
LEMMA SetNxtKeeps ==
    ASSUME PmmAssumption, PowersOfTwo, TypeOK, Sound, NEW c \in Cpu, SetNxt(c)
    PROVE  TypeOK' /\ Sound'
<1>1. PICK k \in FreeList : k = cls[c] /\ r[c] \in Block(k)
  BY DEF Sound, Local, SetNxt
<1>2. PICK h \in Block(k) : h = r[c] /\ h \in Blocks
  BY <1>1, BlockPlace
<1>3. /\ pc[c] = "f_nxt" /\ pc' = [pc EXCEPT ![c] = "f_push"]
      /\ nxt' = [nxt EXCEPT ![h] = freelist[k]]
      /\ UNCHANGED <<freelist, locked, hbound, allocated, panicked, req, cls, r>>
  BY <1>1, <1>2 DEF SetNxt, Goto, call
<1>4. TypeOK'
  BY <1>3 DEF TypeOK, Pc
<1>5. Moves(c) /\ pc'[c] = "f_push" /\ nxt'[h] = freelist[k]
  BY <1>2, <1>3 DEF TypeOK, Moves
<1>6. Local(c)'
  BY <1>1, <1>2, <1>3, <1>5 DEF Local
<1>7. LocksExclude'
  BY <1>3, <1>5, LocksKept DEF Sound, Busy, Locked
<1>8. Sole' /\ AllocatedOK' /\ \A p \in Blocks : InUse(p)' <=> InUse(p)
  BY <1>3, <1>5, UseKept DEF Sound, Holds, Handling
<1>9. Holds(c, h) /\ InUse(h)
  BY <1>2, <1>3 DEF Holds, Handling, InUse
<1>10. \A p \in Blocks : p # h => nxt'[p] = nxt[p]
  BY <1>3 DEF TypeOK
<1>11. ASSUME NEW d \in Cpu \ {c} PROVE Local(d)'
  <2>1. pc[d] = "f_push" => r[d] # h
    BY <1>2, <1>9 DEF Sound, Sole, Holds, Handling
  <2>2. pc[d] = "f_push" => r[d] \in Blocks
    BY BlockPlace DEF Sound, Local
  <2>. QED  BY <1>3, <1>5, <1>10, <2>1, <2>2, OthersKept DEF Sound
<1>12. ASSUME NEW j \in FreeList PROVE ListOK(j)'
  <2>1. \A p \in Block(j) : ~InUse(p) => nxt'[p] = nxt[p]
    BY <1>9, <1>10, BlockPlace
  <2>2. \A p \in Block(j) : InUse(p)' <=> InUse(p)
    BY <1>8, BlockPlace
  <2>3. freelist'[j] = freelist[j] /\ ListOK(j)
    BY <1>3 DEF Sound
  <2>. QED  BY <2>1, <2>2, <2>3, ListKept
<1>. QED  BY <1>4, <1>6, <1>7, <1>8, <1>11, <1>12 DEF Sound

(* The block becomes the head of its list.                                 *)
LEMMA PushKeeps ==
    ASSUME PmmAssumption, PowersOfTwo, TypeOK, Sound, NEW c \in Cpu, Push(c)
    PROVE  TypeOK' /\ Sound'
<1>1. PICK k \in FreeList : k = cls[c] /\ r[c] \in Block(k)
  BY DEF Sound, Local, Push
<1>2. PICK h \in Block(k) : h = r[c] /\ h \in Blocks /\ h \in Nat
  BY <1>1, BlockPlace
<1>3. /\ pc[c] = "f_push" /\ pc' = [pc EXCEPT ![c] = "f_unlock"]
      /\ freelist' = [freelist EXCEPT ![k] = h] /\ nxt[h] = freelist[k]
      /\ UNCHANGED <<nxt, locked, hbound, allocated, panicked, req, cls, r>>
  BY <1>1, <1>2 DEF Push, Goto, call, Sound, Local
<1>4. TypeOK'
  BY <1>2, <1>3 DEF TypeOK, Pc
<1>5. Moves(c) /\ pc'[c] = "f_unlock" /\ cls'[c] = k
  BY <1>1, <1>3 DEF TypeOK, Moves
<1>6. Local(c)'
  BY <1>5 DEF Local
<1>7. LocksExclude'
  BY <1>3, <1>5, LocksKept DEF Sound, Busy, Locked
<1>8. \A j \in FreeList : freelist'[j] = IF j = k THEN h ELSE freelist[j]
  BY <1>3 DEF TypeOK
<1>9. ASSUME NEW d \in Cpu \ {c} PROVE Local(d)'
  <2>1. Busy(c)
    BY <1>3 DEF Busy, Locked
  <2>2. Busy(d) => cls[d] # k
    BY <1>1, <2>1 DEF Sound, LocksExclude
  <2>3. Busy(d) => freelist'[cls[d]] = freelist[cls[d]]
    BY <1>3, <2>2 DEF TypeOK
  <2>. QED  BY <1>3, <1>5, <2>3, OthersKept DEF Sound
<1>10. /\ \A p \in Blocks, d \in Cpu : Holds(d, p)' <=> Holds(d, p) /\ d # c
       /\ \A p \in Blocks : Holds(c, p) <=> p = h
  BY <1>2, <1>3, <1>5 DEF Moves, Holds, Handling
<1>11. \A p \in Blocks : Lives(p)' <=> Lives(p)
  BY <1>3 DEF Lives
<1>12. ~Lives(h) /\ \A d \in Cpu : Holds(d, h) => d = c
  BY <1>2, <1>10 DEF Sound, Sole
<1>13. \A p \in Blocks : InUse(p)' <=> InUse(p) /\ p # h
  BY <1>2, <1>10, <1>11, <1>12 DEF InUse
<1>14. Sole' /\ AllocatedOK'
  <2>1. Sole'
    BY <1>10, <1>11 DEF Sound, Sole
  <2>. QED  BY <1>3, <2>1 DEF Sound, AllocatedOK
<1>15. ListOK(k)'
  <2>1. PICK n \in Nat : \E s : Chain(k, n, s)
    BY DEF Sound, ListOK
  <2>2. PICK s : Chain(k, n, s)
    BY <2>1
  <2>3. /\ s \in [0 .. n -> Block(k) \cup {NULL}] /\ s[0] = freelist[k] /\ s[n] = NULL
        /\ \A i \in 0 .. n - 1 : s[i] \in Block(k) /\ nxt[s[i]] = s[i + 1]
        /\ \A i, j \in 0 .. n - 1 : s[i] = s[j] => i = j
        /\ \A p \in Block(k) : (\E i \in 0 .. n - 1 : s[i] = p) <=> ~InUse(p)
    BY <2>2 DEF Chain
  <2>4. InUse(h)
    BY <1>2, <1>10 DEF InUse
  <2>5. \A i \in 0 .. n - 1 : s[i] # h
    BY <2>3, <2>4
  <2>. DEFINE t == [i \in 0 .. n + 1 |-> IF i = 0 THEN h ELSE s[i - 1]]
  <2>6. /\ t[0] = h
        /\ \A i \in 1 .. n + 1 : t[i] = s[i - 1] /\ i - 1 \in 0 .. n
    OBVIOUS
  <2>7. \A i \in 0 .. n + 1 : i = 0 \/ i \in 1 .. n + 1
    OBVIOUS
  <2>8. t \in [0 .. n + 1 -> Block(k) \cup {NULL}]
    BY <2>3, <2>6, <2>7
  <2>9. t[n + 1] = NULL
    BY <2>3, <2>6
  <2>. HIDE DEF t
  <2>10. \A i \in 0 .. (n + 1) - 1 : i = 0 \/ (i \in 1 .. n + 1 /\ i - 1 \in 0 .. n - 1)
    OBVIOUS
  <2>11. ASSUME NEW i \in 0 .. (n + 1) - 1 PROVE t[i] \in Block(k) /\ nxt'[t[i]] = t[i + 1]
    <3>1. CASE i = 0
      <4>1. t[1] = s[0]
        <5>1. 1 \in 1 .. n + 1 /\ 1 - 1 = 0
          OBVIOUS
        <5>. QED  BY <2>6, <5>1
      <4>. QED  BY <1>3, <2>3, <2>6, <3>1, <4>1
    <3>2. CASE i # 0
      <4>1. i \in 1 .. n + 1 /\ i - 1 \in 0 .. n - 1 /\ i + 1 \in 1 .. n + 1
        BY <2>10, <3>2
      <4>2. t[i] = s[i - 1] /\ t[i + 1] = s[(i - 1) + 1]
        <5>1. (i + 1) - 1 = (i - 1) + 1
          OBVIOUS
        <5>. QED  BY <2>6, <4>1, <5>1
      <4>. QED  BY <1>3, <2>3, <4>1, <4>2
    <3>. QED  BY <3>1, <3>2
  <2>12. ASSUME NEW i \in 0 .. (n + 1) - 1, NEW j \in 0 .. (n + 1) - 1, t[i] = t[j]
         PROVE  i = j
    <3>1. CASE i # 0 /\ j # 0
      <4>1. i - 1 = j - 1
        BY <2>3, <2>6, <2>10, <2>12, <3>1, SMTT(60)
      <4>. QED  BY <4>1
    <3>2. CASE i = 0 \/ j = 0
      BY <2>5, <2>6, <2>10, <2>12, <3>2
    <3>. QED  BY <3>1, <3>2
  <2>13. ASSUME NEW p \in Block(k)
         PROVE  (\E i \in 0 .. (n + 1) - 1 : t[i] = p) <=> ~InUse(p)'
    <3>1. InUse(p)' <=> InUse(p) /\ p # h
      BY <1>13, BlockPlace
    <3>2. ASSUME NEW i \in 0 .. (n + 1) - 1, t[i] = p PROVE p = h \/ ~InUse(p)
      BY <2>3, <2>6, <2>10, <3>2
    <3>3. ASSUME p = h PROVE \E i \in 0 .. (n + 1) - 1 : t[i] = p
      <4>1. 0 \in 0 .. (n + 1) - 1
        OBVIOUS
      <4>. QED  BY <2>6, <3>3, <4>1
    <3>4. ASSUME ~InUse(p) PROVE \E i \in 0 .. (n + 1) - 1 : t[i] = p
      <4>1. PICK j \in 0 .. n - 1 : s[j] = p
        BY <2>3, <3>4
      <4>2. j + 1 \in 0 .. (n + 1) - 1 /\ j + 1 \in 1 .. n + 1 /\ (j + 1) - 1 = j
        OBVIOUS
      <4>. QED  BY <2>6, <4>1, <4>2
    <3>. QED  BY <3>1, <3>2, <3>3, <3>4
  <2>14. Chain(k, n + 1, t)'
    BY <1>8, <2>6, <2>8, <2>9, <2>11, <2>12, <2>13 DEF Chain
  <2>. QED  BY <2>14 DEF ListOK
<1>16. ASSUME NEW j \in FreeList PROVE ListOK(j)'
  <2>1. CASE j # k
    <3>1. \A p \in Block(j) : p # h /\ p \in Blocks
      BY <2>1, OneClass, BlockPlace
    <3>2. freelist'[j] = freelist[j] /\ \A p \in Block(j) : InUse(p)' <=> InUse(p)
      BY <1>8, <1>13, <2>1, <3>1
    <3>3. nxt' = nxt /\ ListOK(j)
      BY <1>3 DEF Sound
    <3>. QED  BY <3>2, <3>3, ListKept
  <2>. QED  BY <1>15, <2>1
<1>. QED  BY <1>4, <1>6, <1>7, <1>9, <1>14, <1>16 DEF Sound

-----------------------------------------------------------------------------
(* The invariant holds of every run.                                       *)
LEMMA Invariant == Spec => []IInv
<1>1. Init => IInv
  BY InitHolds, PmmAssumption, PowersOfTwo
<1>2. IInv /\ [Next]_vars => IInv'
  <2> SUFFICES ASSUME IInv, [Next]_vars PROVE IInv'
    OBVIOUS
  <2>. USE PmmAssumption, PowersOfTwo
  <2>1. CASE UNCHANGED vars
    <3>1. TypeOK'
      BY <2>1 DEF vars, IInv, TypeOK
    <3>2. Sound' = Sound
      BY <2>1 DEF vars, Sound, LocksExclude, AllocatedOK, Sole, Local, ListOK, Chain,
                  InUse, Lives, Holds, Busy
    <3>. QED  BY <2>1, <3>1, <3>2 DEF vars, IInv
  <2>2. CASE Next
    <3>1. TypeOK /\ Sound
      BY <2>2 DEF IInv, Next
    <3>2. PICK c \in Cpu :
             \/ \E sz \in Requests : KAlloc(c, sz)
             \/ \E b \in allocated : KFree(c, b)
             \/ CpuStep(c)
      BY <2>2 DEF Next
    <3>3. ASSUME NEW sz \in Requests, KAlloc(c, sz) PROVE IInv'
      BY <3>1, <3>3, KAllocKeeps DEF IInv
    <3>4. ASSUME NEW b \in allocated, KFree(c, b) PROVE IInv'
      BY <3>1, <3>4, KFreeKeeps DEF IInv
    <3>5. CASE CpuStep(c)
      BY <3>1, <3>5, LockKeeps, ReadHeadKeeps, PopKeeps, UnlockKeeps, ReturnKeeps,
         HugeBumpKeeps, HugeCheckKeeps, SetNxtKeeps, PushKeeps DEF IInv, CpuStep
    <3>. QED  BY <3>2, <3>3, <3>4, <3>5
  <2>. QED  BY <2>1, <2>2
<1>. QED  BY <1>1, <1>2, PTL DEF Spec

-----------------------------------------------------------------------------
(* Walking and counting.                                                   *)

(* A walk of a list meets its blocks one by one, then NULL.                *)
LEMMA Walked ==
    ASSUME PmmAssumption, PowersOfTwo, NEW k \in FreeList,
           NEW n \in Nat, NEW s, Chain(k, n, s)
    PROVE  /\ n <= Cardinality(Block(k))
           /\ \A i \in 0 .. Cardinality(Block(k)) :
                  At(k)[i] = IF i <= n THEN s[i] ELSE NULL
<1>. DEFINE N == Cardinality(Block(k))
            After(v, i) == IF v[i - 1] = NULL THEN NULL ELSE nxt[v[i - 1]]
            Walks(v) == v = [i \in 0 .. N |-> IF i = 0 THEN freelist[k] ELSE After(v, i)]
            g == [i \in 0 .. N |-> IF i <= n THEN s[i] ELSE NULL]
<1>1. N \in Nat /\ IsFiniteSet(Block(k))
  BY FiniteBlocks
<1>2. /\ s \in [0 .. n -> Block(k) \cup {NULL}] /\ s[0] = freelist[k] /\ s[n] = NULL
      /\ \A i \in 0 .. n - 1 : s[i] \in Block(k) /\ s[i] # NULL /\ nxt[s[i]] = s[i + 1]
      /\ \A i, j \in 0 .. n - 1 : s[i] = s[j] => i = j
  BY BlockPlace DEF Chain
<1>3. n <= N
  <2>. DEFINE f == [i \in 1 .. n |-> s[i - 1]]
  <2>1. \A i \in 1 .. n : i - 1 \in 0 .. n - 1
    OBVIOUS
  <2>2. f \in [1 .. n -> Block(k)]
    BY <1>2, <2>1
  <2>3. ASSUME NEW i \in 1 .. n, NEW j \in 1 .. n, f[i] = f[j] PROVE i = j
    <3>1. i - 1 = j - 1
      BY <1>2, <2>1, <2>3
    <3>. QED  BY <3>1
  <2>. HIDE DEF f
  <2>4. f \in Injection(1 .. n, Block(k))
    BY <2>2, <2>3 DEF Injection, IsInjective
  <2>5. Cardinality(1 .. n) <= N
    BY <1>1, <2>4, FS_Injection
  <2>6. Cardinality(1 .. n) = n
    BY FS_Interval
  <2>. QED  BY <2>5, <2>6
<1>4. Walks(g)
  <2>1. ASSUME NEW i \in 0 .. N
        PROVE  g[i] = IF i = 0 THEN freelist[k] ELSE After(g, i)
    <3>1. CASE i = 0
      BY <1>1, <1>2, <3>1
    <3>2. CASE i # 0
      <4>1. i - 1 \in 0 .. N /\ (i - 1) + 1 = i
        BY <1>1, <3>2
      <4>2. CASE i <= n
        <5>1. i - 1 \in 0 .. n - 1 /\ i - 1 <= n
          BY <3>2, <4>2
        <5>2. g[i - 1] = s[i - 1] /\ g[i] = s[i]
          BY <4>1, <4>2, <5>1
        <5>. QED  BY <1>2, <3>2, <4>1, <5>1, <5>2
      <4>3. CASE i = n + 1
        <5>1. g[i - 1] = s[n] /\ g[i] = NULL
          BY <4>1, <4>3
        <5>. QED  BY <1>2, <3>2, <5>1
      <4>4. CASE i > n + 1
        <5>1. g[i - 1] = NULL /\ g[i] = NULL
          BY <4>1, <4>4
        <5>. QED  BY <3>2, <5>1
      <4>. QED  BY <1>1, <4>2, <4>3, <4>4
    <3>. QED  BY <3>1, <3>2
  <2>. QED  BY <2>1
<1>5. Walks(At(k))
  <2>1. At(k) = CHOOSE v : Walks(v)
    BY DEF At
  <2>2. \E v : Walks(v)
    BY <1>4
  <2>. HIDE DEF Walks
  <2>. QED  BY <2>1, <2>2
<1>6. \A i \in 0 .. N : At(k)[i] = g[i]
  <2>. DEFINE Bad == {i \in 0 .. N : At(k)[i] # g[i]}
  <2> SUFFICES ASSUME Bad # {} PROVE FALSE
    OBVIOUS
  <2>1. PICK d \in Bad : \A e \in Bad : ~(e < d)
    <3>1. Bad \subseteq Nat
      OBVIOUS
    <3>. HIDE DEF Bad
    <3>. QED  BY <3>1, Smallest
  <2>2. /\ \A i \in 0 .. N : At(k)[i] = IF i = 0 THEN freelist[k] ELSE After(At(k), i)
        /\ \A i \in 0 .. N : g[i] = IF i = 0 THEN freelist[k] ELSE After(g, i)
    BY <1>4, <1>5
  <2>3. d # 0
    BY <1>1, <2>1, <2>2
  <2>4. d - 1 \in 0 .. N /\ d - 1 < d
    BY <1>1, <2>1, <2>3
  <2>5. At(k)[d - 1] = g[d - 1]
    BY <2>1, <2>4
  <2>6. At(k)[d] = g[d]
    BY <2>1, <2>2, <2>3, <2>5, SMTT(60)
  <2>. QED  BY <2>1, <2>6
<1>. QED  BY <1>3, <1>6

(* The blocks of a class are listed, live, or in hand.                     *)
LEMMA Whereabouts ==
    ASSUME PmmAssumption, PowersOfTwo, TypeOK, Sound, NEW k \in FreeList
    PROVE  /\ Listed(k) = {p \in Block(k) : ~InUse(p)}
           /\ Live(k) = {p \in Block(k) : Lives(p)}
           /\ {r[c] : c \in InHand(k)} = {p \in Block(k) : \E c \in Cpu : Holds(c, p)}
           /\ \A c, d \in InHand(k) : r[c] = r[d] => c = d
<1>1. Listed(k) = {p \in Block(k) : ~InUse(p)}
  <2>1. PICK n \in Nat : \E s : Chain(k, n, s)
    BY DEF Sound, ListOK
  <2>2. PICK s : Chain(k, n, s)
    BY <2>1
  <2>3. PICK N \in Nat : N = Cardinality(Block(k)) /\ n <= N
    BY <2>2, Walked, FiniteBlocks
  <2>4. \A i \in 0 .. N : At(k)[i] = IF i <= n THEN s[i] ELSE NULL
    BY <2>2, <2>3, Walked
  <2>5. /\ s[n] = NULL /\ \A i \in 0 .. n - 1 : s[i] \in Block(k)
        /\ \A p \in Block(k) : (\E i \in 0 .. n - 1 : s[i] = p) <=> ~InUse(p)
    BY <2>2 DEF Chain
  <2>6. Listed(k) = {At(k)[i] : i \in 0 .. N} \ {NULL}
    BY <2>3 DEF Listed
  <2>7. ASSUME NEW p \in Listed(k) PROVE p \in Block(k) /\ ~InUse(p)
    <3>1. PICK i \in 0 .. N : p = At(k)[i] /\ p # NULL
      BY <2>6
    <3>2. i <= n /\ i # n /\ p = s[i]
      BY <2>4, <2>5, <3>1
    <3>3. i \in 0 .. n - 1
      BY <2>3, <3>2
    <3>. QED  BY <2>5, <3>2, <3>3
  <2>8. ASSUME NEW p \in Block(k), ~InUse(p) PROVE p \in Listed(k)
    <3>1. PICK i \in 0 .. n - 1 : s[i] = p
      BY <2>5, <2>8
    <3>2. i \in 0 .. N /\ i <= n
      BY <2>3
    <3>3. p # NULL
      BY BlockPlace
    <3>. QED  BY <2>4, <2>6, <3>1, <3>2, <3>3
  <2>. QED  BY <2>7, <2>8
<1>2. Live(k) = {p \in Block(k) : Lives(p)}
  BY DEF Live, Lives
<1>3. ASSUME NEW c \in InHand(k) PROVE c \in Cpu /\ r[c] \in Block(k) /\ Holds(c, r[c])
  <2>1. c \in Cpu /\ cls[c] = k /\ r[c] # NULL /\ pc[c] \in Handling
    BY DEF InHand, Handling
  <2>2. r[c] \in Block(k)
    BY <2>1, Classes DEF Sound, Local, Handling
  <2>. QED  BY <2>1, <2>2 DEF Holds
<1>4. ASSUME NEW c \in Cpu, NEW p \in Block(k), Holds(c, p) PROVE c \in InHand(k) /\ r[c] = p
  <2>1. r[c] = p /\ pc[c] \in Handling /\ p # NULL /\ p \in Nat /\ ~(HUGESTART <= p)
    <3>1. p \in Nat /\ p # NULL /\ p < HUGESTART
      BY BlockPlace
    <3>2. HUGESTART \in Nat
      BY Regions
    <3>. QED  BY <1>4, <3>1, <3>2 DEF Holds
  <2>2. cls[c] \in FreeList /\ p \in Block(cls[c])
    BY <2>1 DEF Sound, Local, Handling
  <2>3. cls[c] = k
    BY <2>2, OneClass
  <2>. QED  BY <2>1, <2>3 DEF InHand, Handling
<1>5. {r[c] : c \in InHand(k)} = {p \in Block(k) : \E c \in Cpu : Holds(c, p)}
  BY <1>3, <1>4
<1>6. ASSUME NEW c \in InHand(k), NEW d \in InHand(k), r[c] = r[d] PROVE c = d
  <2>1. PICK p \in Block(k) : p = r[c] /\ p \in Blocks
    BY <1>3, BlockPlace
  <2>2. c \in Cpu /\ d \in Cpu /\ Holds(c, p) /\ Holds(d, p)
    BY <1>3, <1>6, <2>1 DEF Holds
  <2>. QED  BY <2>1, <2>2 DEF Sound, Sole
<1>. QED  BY <1>1, <1>2, <1>5, <1>6

LEMMA Counted ==
    ASSUME NEW S, IsFiniteSet(S), NEW A, NEW B, NEW C, S = A \cup B \cup C,
           A \cap B = {}, A \cap C = {}, B \cap C = {}
    PROVE  /\ Cardinality(A) + Cardinality(B) + Cardinality(C) = Cardinality(S)
           /\ IsFiniteSet(C)
<1>1. IsFiniteSet(A) /\ IsFiniteSet(B) /\ IsFiniteSet(C)
  BY FS_Subset
<1>5. Cardinality(A) \in Nat /\ Cardinality(B) \in Nat /\ Cardinality(C) \in Nat
  BY <1>1, FS_CardinalityType
<1>2. Cardinality({}) = 0
  BY FS_EmptySet
<1>3. IsFiniteSet(A \cup B) /\ Cardinality(A \cup B) = Cardinality(A) + Cardinality(B)
  <2>1. Cardinality(A \cup B) = Cardinality(A) + Cardinality(B) - Cardinality(A \cap B)
    BY <1>1, FS_Union
  <2>2. Cardinality(A \cap B) = 0
    BY <1>2
  <2>3. IsFiniteSet(A \cup B)
    BY <1>1, FS_Union
  <2>. QED  BY <1>5, <2>1, <2>2, <2>3
<1>4. Cardinality(S) = Cardinality(A \cup B) + Cardinality(C)
  <2>1. (A \cup B) \cap C = {}
    OBVIOUS
  <2>2. Cardinality((A \cup B) \cup C)
           = Cardinality(A \cup B) + Cardinality(C) - Cardinality((A \cup B) \cap C)
    BY <1>1, <1>3, FS_Union
  <2>3. Cardinality((A \cup B) \cap C) = 0
    BY <1>2, <2>1
  <2>4. S = (A \cup B) \cup C
    OBVIOUS
  <2>5. Cardinality(A \cup B) \in Nat
    BY <1>3, <1>5
  <2>. QED  BY <1>5, <2>2, <2>3, <2>4, <2>5
<1>. QED  BY <1>1, <1>3, <1>4

(* No block is lost, on two lists, or both free and in use (smallalloc,    *)
(* pagealloc, sfree).                                                      *)
THEOREM ConservedHolds == Spec => []Conserved
<1>. USE PmmAssumption, PowersOfTwo
<1>1. ASSUME IInv, ~panicked, NEW k \in FreeList
      PROVE  /\ Listed(k) \cup Live(k) \cup {r[c] : c \in InHand(k)} = Block(k)
             /\ Cardinality(Listed(k)) + Cardinality(Live(k)) + Cardinality(InHand(k))
                   = Cardinality(Block(k))
  <2>1. TypeOK /\ Sound
    BY <1>1 DEF IInv
  <2>. DEFINE H == {r[c] : c \in InHand(k)}
  <2>2. /\ Listed(k) = {p \in Block(k) : ~InUse(p)}
        /\ Live(k) = {p \in Block(k) : Lives(p)}
        /\ H = {p \in Block(k) : \E c \in Cpu : Holds(c, p)}
        /\ \A c, d \in InHand(k) : r[c] = r[d] => c = d
    BY <2>1, Whereabouts
  <2>3. \A p \in Block(k) : Lives(p) => ~\E c \in Cpu : Holds(c, p)
    BY <2>1, BlockPlace DEF Sound, Sole
  <2>4. Block(k) = Listed(k) \cup Live(k) \cup H
    BY <2>2 DEF InUse
  <2>5. Listed(k) \cap Live(k) = {} /\ Listed(k) \cap H = {} /\ Live(k) \cap H = {}
    BY <2>2, <2>3 DEF InUse
  <2>. HIDE DEF H
  <2>6. /\ Cardinality(Listed(k)) + Cardinality(Live(k)) + Cardinality(H)
              = Cardinality(Block(k))
        /\ IsFiniteSet(H)
    BY <2>4, <2>5, FiniteBlocks, Counted
  <2>7. Cardinality(InHand(k)) = Cardinality(H)
    <3>. DEFINE f == [c \in InHand(k) |-> r[c]]
    <3>1. f \in [InHand(k) -> H] /\ \A c \in InHand(k) : f[c] = r[c]
      BY DEF H
    <3>2. \A p \in H : \E c \in InHand(k) : f[c] = p
      BY <3>1 DEF H
    <3>. HIDE DEF f
    <3>3. f \in Injection(InHand(k), H)
      BY <2>2, <3>1 DEF Injection, IsInjective
    <3>4. f \in Surjection(InHand(k), H)
      BY <3>1, <3>2 DEF Surjection
    <3>5. /\ IsFiniteSet(InHand(k))
          /\ Cardinality(InHand(k)) = Cardinality(H) <=> f \in Surjection(InHand(k), H)
      BY <2>6, <3>3, FS_Injection
    <3>. QED  BY <3>4, <3>5
  <2>. QED  BY <2>4, <2>6, <2>7 DEF H
<1>2. IInv => Conserved
  BY <1>1 DEF Conserved
<1>. QED  BY <1>2, Invariant, PTL

-----------------------------------------------------------------------------
(* The refinement of Heap.  The code keeps the promise of Heap under two   *)
(* conditions it does not see to itself: that one size only is asked of    *)
(* hugealloc, because of two sizes the pieces overlap, and that the region *)
(* of huge pieces begins at a multiple of it, because hbound is compared   *)
(* with the end of the heap and not the end of the piece.                  *)

HugeSizes == {sz \in Requests : sz >= HugeLog}

OneHugeSize == \A m, n \in HugeSizes : m = n /\ HUGESTART % 2 ^ n = 0

Allocating == {"a_lock", "a_read", "a_pop", "a_unlock", "a_done",
               "h_lock", "h_bump", "h_check"}

\* A request is served by the class of its size.
Served ==
    \A c \in Cpu : pc[c] \in Allocating =>
        req[c] \in Requests /\ cls[c] = ClassOf(req[c])

\* A live allocation is a block of the class of its size, or a huge piece.
Sized ==
    \A b \in allocated : \E sz \in Requests :
        /\ b = <<b[1], 2 ^ sz>>
        /\ \/ ClassOf(sz) \in FreeList /\ b[1] \in Block(ClassOf(sz))
           \/ sz \in HugeSizes /\ b[1] \in Nat /\ HUGESTART <= b[1]

\* CPU c has a huge piece for its caller.
HasHuge(c) ==
    /\ pc[c] \in {"h_check", "a_done"} /\ cls[c] = Huge /\ r[c] # NULL

\* Huge pieces follow each other up to hbound, and each is somebody's alone.
Pieces ==
    \A n \in HugeSizes :
        /\ hbound % 2 ^ n = 0
        /\ \A b \in allocated : HUGESTART <= b[1] =>
              b[1] % 2 ^ n = 0 /\ b[1] + 2 ^ n <= hbound
        /\ \A c \in Cpu : HasHuge(c) =>
              /\ HUGESTART <= r[c] /\ r[c] % 2 ^ n = 0 /\ r[c] + 2 ^ n <= hbound
              /\ pc[c] = "a_done" => r[c] + 2 ^ n <= HeapEnd
              /\ \A b \in allocated : b[1] # r[c]
              /\ \A d \in Cpu : HasHuge(d) /\ r[d] = r[c] => c = d

RInv == Served /\ Sized /\ Pieces

(* Heap's own words for the sizes of the model.                            *)
LEMMA ClassSizes ==
    ASSUME PmmAssumption, PowersOfTwo, NEW sz \in Requests
    PROVE  /\ sz \in Nat /\ 2 ^ sz \in Nat /\ 2 ^ sz > 0
           /\ ClassOf(sz) = Huge <=> sz \in HugeSizes
           /\ ClassOf(sz) = Huge \/ ClassOf(sz) \in FreeList
           /\ ClassOf(sz) \in FreeList =>
                 2 ^ sz <= BlockSize(ClassOf(sz)) /\ BlockSize(ClassOf(sz)) % 2 ^ sz = 0
<1>1. MinLog \in Nat /\ NSmall \in Nat /\ sz \in Nat /\ 2 ^ sz \in Nat /\ 2 ^ sz > 0
  BY Constants
<1>2. HugeLog = MinLog + NSmall + 2 /\ Huge = NSmall + 2
  BY <1>1 DEF HugeLog, PageLog, Huge
<1>3. ClassOf(sz) = Huge <=> sz \in HugeSizes
  BY <1>1, <1>2 DEF ClassOf, HugeSizes
<1>4. ClassOf(sz) = Huge \/ ClassOf(sz) \in FreeList
  BY Classes
<1>5. ASSUME ClassOf(sz) \in FreeList
      PROVE  2 ^ sz <= BlockSize(ClassOf(sz)) /\ BlockSize(ClassOf(sz)) % 2 ^ sz = 0
  <2>1. CASE sz <= MinLog
    <3>1. PICK t \in Nat \ {0} : t = 2 ^ sz
      BY <1>1
    <3>2. PICK u \in Nat \ {0} : u = 2 ^ MinLog /\ BlockSize(ClassOf(sz)) = u
      <4>1. ClassOf(sz) = 0 /\ 0 \in FreeList /\ MinLog + 0 = MinLog
        BY <1>1, <2>1 DEF ClassOf, FreeList
      <4>2. BlockSize(0) = 2 ^ MinLog
        BY <4>1 DEF BlockSize
      <4>. QED  BY <4>1, <4>2, Constants
    <3>3. u % t = 0
      BY <2>1, <3>1, <3>2 DEF PowersOfTwo
    <3>4. PICK x \in Nat : u = t * x
      BY <3>3, Multiple
    <3>5. x # 0
      BY <3>2, <3>4
    <3>6. t <= u
      BY <3>4, <3>5
    <3>. QED  BY <3>1, <3>2, <3>3, <3>6
  <2>2. CASE MinLog < sz
    <3>1. ClassOf(sz) = sz - MinLog /\ MinLog + (sz - MinLog) = sz
      BY <1>1, <1>2, <1>5, <2>2, Classes DEF ClassOf
    <3>2. BlockSize(ClassOf(sz)) = 2 ^ sz
      BY <3>1 DEF BlockSize
    <3>3. \A t \in Nat \ {0} : t <= t /\ t % t = 0
      OBVIOUS
    <3>. QED  BY <1>1, <3>2, <3>3
  <2>. QED  BY <1>1, <2>1, <2>2
<1>. QED  BY <1>1, <1>3, <1>4, <1>5

(* Different multiples of a size are that size apart.                      *)
LEMMA MultiplesApart ==
    ASSUME NEW a \in Nat, NEW b \in Nat, NEW n \in Nat \ {0},
           a % n = 0, b % n = 0, a < b
    PROVE  a + n <= b
<1>1. PICK u \in Nat : a = n * u
  BY Multiple
<1>2. PICK v \in Nat : b = n * v
  BY Multiple
<1>3. u + 1 <= v
  BY <1>1, <1>2
<1>4. n * (u + 1) <= n * v
  BY <1>3
<1>. QED  BY <1>1, <1>2, <1>4

LEMMA MultipleOf ==
    ASSUME NEW a \in Nat, NEW n \in Nat \ {0}, NEW m \in Nat \ {0},
           a % n = 0, n % m = 0
    PROVE  a % m = 0
<1>1. PICK u \in Nat : a = n * u
  BY Multiple
<1>2. PICK v \in Nat : n = m * v
  BY Multiple
<1>3. a = m * (v * u) /\ v * u \in Nat
  BY <1>1, <1>2
<1>4. \A x \in Nat : (m * x) % m = 0
  OBVIOUS
<1>. QED  BY <1>3, <1>4

(* Parts of different blocks do not overlap.                               *)
LEMMA BlocksApart ==
    ASSUME PmmAssumption, PowersOfTwo, NEW j \in FreeList, NEW k \in FreeList,
           NEW p \in Block(j), NEW q \in Block(k), p # q,
           NEW m \in Nat, NEW n \in Nat, m <= BlockSize(j), n <= BlockSize(k)
    PROVE  p + m <= q \/ q + n <= p
<1>1. /\ p \in Nat /\ RegionStart(j) <= p /\ p + BlockSize(j) <= RegionEnd(j)
      /\ q \in Nat /\ RegionStart(k) <= q /\ q + BlockSize(k) <= RegionEnd(k)
  BY BlockPlace
<1>2. /\ j < k => RegionEnd(j) <= RegionStart(k)
      /\ k < j => RegionEnd(k) <= RegionStart(j)
      /\ RegionStart(j) \in Nat /\ RegionEnd(j) \in Nat
      /\ RegionStart(k) \in Nat /\ RegionEnd(k) \in Nat
  BY Regions
<1>3. BlockSize(j) \in Nat \ {0} /\ BlockSize(k) \in Nat \ {0} /\ j \in Nat /\ k \in Nat
  BY Constants DEF FreeList
<1>4. CASE j = k
  <2>1. p % BlockSize(j) = 0 /\ q % BlockSize(j) = 0
    BY <1>4 DEF Block
  <2>2. p < q => p + BlockSize(j) <= q
    BY <1>1, <1>3, <2>1, MultiplesApart
  <2>3. q < p => q + BlockSize(j) <= p
    BY <1>1, <1>3, <2>1, MultiplesApart
  <2>. QED  BY <1>1, <1>3, <1>4, <2>2, <2>3
<1>5. CASE j # k
  BY <1>1, <1>2, <1>3, <1>5
<1>. QED  BY <1>4, <1>5

LEMMA HeapBounds ==
    ASSUME PmmAssumption, PowersOfTwo
    PROVE  /\ HeapStart \in Nat /\ HeapEnd \in Nat /\ HUGESTART <= HeapEnd
           /\ HeapStart <= HUGESTART
           /\ \A k \in FreeList : HeapStart <= RegionStart(k)
<1>1. /\ NSmall \in Nat /\ HeapStart \in Nat /\ SmallRegion \in Nat
      /\ PageRegion \in Nat /\ MPageRegion \in Nat /\ HugeRegion \in Nat
  BY Constants
<1>2. \A k \in Nat : STARTADDR(k) \in Nat /\ HeapStart <= STARTADDR(k)
  <2>1. \A k \in Nat : SmallRegion * k \in Nat
    BY <1>1
  <2>. QED  BY <1>1, <2>1 DEF STARTADDR
<1>. QED  BY <1>1, <1>2 DEF HeapEnd, HUGESTART, MPAGESTART, PAGESTART, RegionStart, FreeList

(* At first no piece has been cut off.                                     *)
LEMMA RInitHolds ==
    ASSUME PmmAssumption, PowersOfTwo, OneHugeSize, Init
    PROVE  RInv
BY DEF Init, OneHugeSize, RInv, Served, Sized, Pieces, Allocating, HasHuge

(* A step of a CPU that is not at a huge piece leaves the pieces alone.    *)
LEMMA PiecesKept ==
    ASSUME RInv, NEW c \in Cpu, Moves(c), allocated' = allocated, hbound' = hbound,
           ~HasHuge(c)',
           pc'[c] \in Allocating => req'[c] \in Requests /\ cls'[c] = ClassOf(req'[c])
    PROVE  RInv'
<1>1. \A d \in Cpu : HasHuge(d)' => HasHuge(d) /\ r'[d] = r[d] /\ pc'[d] = pc[d]
  BY DEF Moves, HasHuge
<1>2. Served'
  BY DEF Moves, RInv, Served
<1>3. Sized'
  BY DEF RInv, Sized
<1>4. Pieces'
  BY <1>1 DEF RInv, Pieces
<1>. QED  BY <1>2, <1>3, <1>4 DEF RInv

(* So does every step but those of hugealloc, the return and kfree.        *)
LEMMA PlainKept ==
    ASSUME PmmAssumption, PowersOfTwo, TypeOK, Sound, RInv, NEW c \in Cpu,
           \/ \E sz \in Requests : KAlloc(c, sz)
           \/ Lock(c) \/ ReadHead(c) \/ Pop(c) \/ Unlock(c) \/ SetNxt(c) \/ Push(c)
    PROVE  RInv' /\ allocated' = allocated
<1>1. CASE \E sz \in Requests : KAlloc(c, sz)
  <2>1. PICK sz \in Requests : KAlloc(c, sz)
    BY <1>1
  <2>2. /\ pc' = [pc EXCEPT ![c] = IF ClassOf(sz) = Huge THEN "h_lock" ELSE "a_lock"]
        /\ req' = [req EXCEPT ![c] = sz] /\ cls' = [cls EXCEPT ![c] = ClassOf(sz)]
        /\ r' = r /\ allocated' = allocated /\ hbound' = hbound
    BY <2>1 DEF KAlloc, Goto
  <2>3. /\ Moves(c) /\ pc'[c] \in {"h_lock", "a_lock"} /\ req'[c] = sz
        /\ cls'[c] = ClassOf(sz)
    BY <2>2 DEF TypeOK, Moves
  <2>4. ~HasHuge(c)'
    BY <2>3 DEF HasHuge
  <2>. QED  BY <2>2, <2>3, <2>4, PiecesKept
<1>2. CASE Lock(c) \/ ReadHead(c) \/ Pop(c) \/ Unlock(c) \/ SetNxt(c) \/ Push(c)
  <2>1. /\ UNCHANGED <<allocated, hbound, req, cls>>
        /\ \A d \in Cpu \ {c} : r'[d] = r[d]
    BY <1>2 DEF Lock, ReadHead, Pop, Unlock, SetNxt, Push, call, TypeOK
  <2>2. PICK q \in Pc \ {"out", "h_check"} :
           /\ pc' = [pc EXCEPT ![c] = q]
           /\ q \in Allocating => pc[c] \in Allocating
           /\ q = "a_done" => pc[c] = "a_unlock"
    BY <1>2 DEF Lock, ReadHead, Pop, Unlock, SetNxt, Push, Goto, Pc, Allocating
  <2>3. Moves(c) /\ pc'[c] = q
    BY <2>1, <2>2 DEF TypeOK, Moves
  <2>4. ~HasHuge(c)'
    <3>1. q = "a_done" => cls[c] # Huge
      BY <2>2, Classes DEF Sound, Local
    <3>. QED  BY <2>1, <2>2, <2>3, <3>1 DEF HasHuge
  <2>5. q \in Allocating => req'[c] \in Requests /\ cls'[c] = ClassOf(req'[c])
    BY <2>1, <2>2 DEF RInv, Served
  <2>. QED  BY <2>1, <2>3, <2>4, <2>5, PiecesKept
<1>. QED  BY <1>1, <1>2

(* hugealloc cuts the next piece off.                                      *)
LEMMA HugeBumpCuts ==
    ASSUME PmmAssumption, PowersOfTwo, OneHugeSize, TypeOK, Sound, RInv, NEW c \in Cpu,
           HugeBump(c)
    PROVE  RInv' /\ allocated' = allocated
<1>1. /\ pc[c] = "h_bump" /\ cls[c] = Huge /\ req[c] \in HugeSizes
      /\ req[c] \in Requests /\ cls[c] = ClassOf(req[c])
  BY ClassSizes DEF HugeBump, Sound, Local, RInv, Served, Allocating
<1>2. PICK m \in Nat \ {0} : m = 2 ^ req[c]
  BY <1>1, ClassSizes
<1>3. \A n \in HugeSizes : 2 ^ n = m
  BY <1>1, <1>2 DEF OneHugeSize
<1>4. PICK h \in Nat : h = hbound /\ HUGESTART <= h /\ h % m = 0
  BY <1>1, <1>2 DEF TypeOK, RInv, Pieces
<1>5. ROUNDUP(h, m) = h
  <2>1. PICK u \in Nat : h = m * u
    BY <1>4, Multiple
  <2>2. (m * u + m - 1) \div m = u
    OBVIOUS
  <2>. QED  BY <2>1, <2>2 DEF ROUNDUP
<1>6. /\ r' = [r EXCEPT ![c] = h] /\ hbound' = h + m
      /\ pc' = [pc EXCEPT ![c] = "h_check"] /\ UNCHANGED <<allocated, req, cls>>
  BY <1>2, <1>4, <1>5 DEF HugeBump, Goto
<1>7. Moves(c) /\ pc'[c] = "h_check" /\ r'[c] = h /\ cls'[c] = Huge
  BY <1>1, <1>6 DEF TypeOK, Moves
<1>8. Served'
  BY <1>1, <1>6, <1>7 DEF RInv, Served, Moves
<1>9. Sized'
  BY <1>6 DEF RInv, Sized
<1>10. /\ \A b \in allocated : HUGESTART <= b[1] =>
             b[1] \in Nat /\ b[1] % m = 0 /\ b[1] + m <= h
       /\ \A d \in Cpu : HasHuge(d) =>
             /\ HUGESTART <= r[d] /\ r[d] % m = 0 /\ r[d] + m <= h
             /\ pc[d] = "a_done" => r[d] + m <= HeapEnd
             /\ \A b \in allocated : b[1] # r[d]
             /\ \A e \in Cpu : HasHuge(e) /\ r[e] = r[d] => d = e
  <2>1. Pieces /\ \A b \in allocated : HUGESTART <= b[1] => b[1] \in Nat
    BY BlockPlace DEF RInv, Sound, AllocatedOK, Blocks
  <2>. QED  BY <1>1, <1>2, <1>4, <2>1 DEF Pieces
<1>11. (h + m) % m = 0
  <2>1. PICK u \in Nat : h = m * u
    BY <1>4, Multiple
  <2>2. h + m = m * (u + 1) /\ u + 1 \in Nat
    BY <2>1
  <2>3. \A x \in Nat : (m * x) % m = 0
    OBVIOUS
  <2>. QED  BY <2>2, <2>3
<1>12. \A b \in allocated : b[1] # h
  <2>1. ASSUME NEW b \in allocated, b[1] = h PROVE FALSE
    BY <1>4, <1>10, <2>1
  <2>. QED  BY <2>1
<1>13. \A d \in Cpu : HasHuge(d)' => d = c \/ (HasHuge(d) /\ r'[d] = r[d] /\ pc'[d] = pc[d])
  BY <1>7 DEF Moves, HasHuge
<1>14. \A d \in Cpu : r[d] \in Nat
  BY DEF TypeOK
<1>15. \A d \in Cpu : HasHuge(d) => r[d] # h /\ r[d] + m <= h + m
  BY <1>10, <1>14
<1>16. ASSUME NEW d \in Cpu, HasHuge(d)'
       PROVE  /\ HUGESTART <= r'[d] /\ r'[d] % m = 0 /\ r'[d] + m <= h + m
              /\ pc'[d] = "a_done" => r'[d] + m <= HeapEnd
              /\ \A b \in allocated : b[1] # r'[d]
              /\ \A e \in Cpu : HasHuge(e)' /\ r'[e] = r'[d] => d = e
  <2>1. CASE d = c
    BY <1>4, <1>7, <1>12, <1>13, <1>15, <2>1
  <2>2. CASE d # c
    BY <1>7, <1>10, <1>13, <1>15, <1>16, <2>2
  <2>. QED  BY <2>1, <2>2
<1>17. \A b \in allocated : HUGESTART <= b[1] => b[1] % m = 0 /\ b[1] + m <= h + m
  BY <1>10
<1>18. Pieces'
  BY <1>3, <1>6, <1>11, <1>16, <1>17 DEF Pieces
<1>. QED  BY <1>6, <1>8, <1>9, <1>18 DEF RInv

(* A piece beyond the end of the heap is not handed out.                   *)
LEMMA HugeCheckKept ==
    ASSUME PmmAssumption, PowersOfTwo, OneHugeSize, TypeOK, Sound, RInv, NEW c \in Cpu,
           HugeCheck(c)
    PROVE  RInv' /\ allocated' = allocated
<1>1. /\ pc[c] = "h_check" /\ cls[c] = Huge /\ req[c] \in Requests
      /\ cls[c] = ClassOf(req[c]) /\ HUGESTART <= r[c] /\ r[c] # NULL
  <2>1. HUGESTART <= r[c] => r[c] # NULL
    <3>1. HUGESTART \in Nat /\ 0 < HUGESTART
      BY Regions
    <3>. QED  BY <3>1 DEF NULL
  <2>. QED  BY <2>1 DEF HugeCheck, Sound, Local, RInv, Served, Allocating
<1>2. /\ r' = [r EXCEPT ![c] = IF hbound > HeapEnd THEN NULL ELSE r[c]]
      /\ pc' = [pc EXCEPT ![c] = "a_done"] /\ UNCHANGED <<allocated, hbound, req, cls>>
  BY DEF HugeCheck, Goto
<1>3. /\ Moves(c) /\ pc'[c] = "a_done" /\ cls'[c] = Huge
      /\ r'[c] = (IF hbound > HeapEnd THEN NULL ELSE r[c])
  BY <1>1, <1>2 DEF TypeOK, Moves
<1>4. Served'
  BY <1>1, <1>2, <1>3 DEF RInv, Served, Moves
<1>5. Sized'
  BY <1>2 DEF RInv, Sized
<1>6. \A d \in Cpu : HasHuge(d)' =>
          /\ HasHuge(d) /\ r'[d] = r[d]
          /\ d = c => hbound <= HeapEnd
          /\ d # c => pc'[d] = pc[d]
  <2>1. hbound \in Nat /\ HeapEnd \in Nat
    BY HeapBounds DEF TypeOK
  <2>. QED  BY <1>1, <1>3, <2>1 DEF Moves, HasHuge
<1>7. Pieces'
  <2>1. ASSUME NEW n \in HugeSizes, NEW d \in Cpu, HasHuge(d)', pc'[d] = "a_done"
        PROVE  r'[d] + 2 ^ n <= HeapEnd
    <3>1. r[d] + 2 ^ n <= hbound /\ (pc[d] = "a_done" => r[d] + 2 ^ n <= HeapEnd)
      BY <1>6, <2>1 DEF RInv, Pieces
    <3>2. PICK m \in Nat : m = 2 ^ n
      BY ClassSizes DEF HugeSizes
    <3>3. r[d] \in Nat /\ hbound \in Nat
      BY DEF TypeOK
    <3>4. HeapEnd \in Nat
      BY HeapBounds
    <3>5. r'[d] = r[d] /\ (d = c => hbound <= HeapEnd) /\ (d # c => pc[d] = "a_done")
      BY <1>6, <2>1
    <3>. QED  BY <3>1, <3>2, <3>3, <3>4, <3>5
  <2>. QED  BY <1>2, <1>6, <2>1 DEF RInv, Pieces
<1>. QED  BY <1>2, <1>4, <1>5, <1>7 DEF RInv

(* kfree gives back what was allocated.                                    *)
LEMMA KFreeFrees ==
    ASSUME PmmAssumption, PowersOfTwo, TypeOK, RInv, NEW c \in Cpu, NEW b \in allocated,
           KFree(c, b)
    PROVE  RInv' /\ allocated' = allocated \ {b}
<1>1. /\ pc[c] = "out" /\ allocated' = allocated \ {b} /\ hbound' = hbound /\ req' = req
  BY DEF KFree
<1>2. /\ \A d \in Cpu \ {c} : pc'[d] = pc[d] /\ cls'[d] = cls[d] /\ r'[d] = r[d]
      /\ pc'[c] \in {"out", "f_done", "f_lock"}
  BY <1>1 DEF KFree, Goto, TypeOK
<1>3. \A d \in Cpu : HasHuge(d)' => HasHuge(d) /\ r'[d] = r[d] /\ pc'[d] = pc[d]
  BY <1>2 DEF HasHuge
<1>4. Served'
  BY <1>1, <1>2 DEF RInv, Served, Allocating
<1>5. Sized'
  BY <1>1 DEF RInv, Sized
<1>6. Pieces'
  BY <1>1, <1>3 DEF RInv, Pieces
<1>. QED  BY <1>1, <1>4, <1>5, <1>6 DEF RInv

(* What alloc returns is free memory of the heap, aligned to its size.     *)
LEMMA ReturnAllocates ==
    ASSUME PmmAssumption, PowersOfTwo, OneHugeSize, TypeOK, Sound, RInv, NEW c \in Cpu,
           Return(c)
    PROVE  RInv' /\ (Abstract!Next \/ allocated' = allocated)
<1>1. /\ pc[c] \in {"a_done", "f_done"} /\ hbound' = hbound
      /\ pc' = [pc EXCEPT ![c] = "out"] /\ req' = [req EXCEPT ![c] = 0]
      /\ cls' = [cls EXCEPT ![c] = 0] /\ r' = [r EXCEPT ![c] = NULL]
  BY DEF Return, Goto
<1>2. Moves(c) /\ pc'[c] = "out"
  BY <1>1 DEF TypeOK, Moves
<1>3. CASE pc[c] = "f_done" \/ r[c] = NULL
  <2>1. allocated' = allocated
    BY <1>3 DEF Return
  <2>. QED  BY <1>1, <1>2, <2>1, PiecesKept DEF HasHuge, Allocating
<1>4. CASE pc[c] = "a_done" /\ r[c] # NULL
  <2>1. PICK sz \in Requests : sz = req[c] /\ cls[c] = ClassOf(sz)
    BY <1>4 DEF RInv, Served, Allocating
  <2>2. PICK p \in Nat : p = r[c]
    BY DEF TypeOK
  <2>3. PICK m \in Nat \ {0} : m = 2 ^ sz
    BY ClassSizes
  <2>4. allocated' = allocated \cup {<<p, m>>}
    BY <1>4, <2>1, <2>2, <2>3 DEF Return
  <2>5. \/ cls[c] \in FreeList /\ p \in Block(cls[c]) /\ p < HUGESTART /\ p \in Blocks
        \/ sz \in HugeSizes /\ HasHuge(c) /\ HUGESTART <= p
    <3>1. \/ cls[c] \in FreeList /\ p \in Block(cls[c])
          \/ cls[c] = Huge /\ HUGESTART <= p
      BY <1>4, <2>2 DEF Sound, Local
    <3>2. cls[c] = Huge => sz \in HugeSizes
      BY <2>1, ClassSizes
    <3>3. cls[c] \in FreeList /\ p \in Block(cls[c]) => p < HUGESTART /\ p \in Blocks
      BY BlockPlace
    <3>. QED  BY <1>4, <3>1, <3>2, <3>3 DEF HasHuge
  <2>6. HUGESTART \in Nat /\ hbound \in Nat /\ HeapEnd \in Nat /\ HeapStart \in Nat
    BY Regions, HeapBounds DEF TypeOK
  <2>7. sz \in HugeSizes /\ HasHuge(c) =>
          /\ p % m = 0 /\ p + m <= hbound /\ p + m <= HeapEnd
          /\ \A b \in allocated : b[1] # p
          /\ \A d \in Cpu : HasHuge(d) /\ r[d] = p => c = d
    BY <1>4, <2>2, <2>3 DEF RInv, Pieces
  <2>8. \A d \in Cpu : HasHuge(d)' => d # c /\ HasHuge(d) /\ r'[d] = r[d] /\ pc'[d] = pc[d]
    BY <1>2 DEF Moves, HasHuge
  <2>9. Served'
    BY <1>2 DEF RInv, Served, Allocating, Moves
  <2>10. <<p, m>>[1] = p /\ <<p, m>>[2] = m
    OBVIOUS
  <2>11. Sized'
    <3>1. /\ <<p, m>> = <<<<p, m>>[1], 2 ^ sz>>
          /\ \/ ClassOf(sz) \in FreeList /\ <<p, m>>[1] \in Block(ClassOf(sz))
             \/ sz \in HugeSizes /\ <<p, m>>[1] \in Nat /\ HUGESTART <= <<p, m>>[1]
      BY <2>1, <2>3, <2>5, <2>10
    <3>. QED  BY <2>4, <3>1 DEF RInv, Sized
  <2>12. \A n \in HugeSizes : HUGESTART <= p => 2 ^ n = m /\ sz \in HugeSizes /\ HasHuge(c)
    BY <2>3, <2>5, <2>6 DEF OneHugeSize
  <2>13. Pieces'
    <3>1. ASSUME NEW n \in HugeSizes, NEW b \in allocated', HUGESTART <= b[1]
          PROVE  b[1] % 2 ^ n = 0 /\ b[1] + 2 ^ n <= hbound
      <4>1. CASE b \in allocated
        BY <3>1, <4>1 DEF RInv, Pieces
      <4>2. CASE b = <<p, m>>
        BY <2>7, <2>10, <2>12, <3>1, <4>2
      <4>. QED  BY <2>4, <4>1, <4>2
    <3>2. ASSUME NEW n \in HugeSizes, NEW d \in Cpu, HasHuge(d)'
          PROVE  \A b \in allocated' : b[1] # r[d]
      <4>1. \A b \in allocated : b[1] # r[d]
        BY <2>8, <3>2 DEF RInv, Pieces
      <4>2. p # r[d]
        <5>1. HUGESTART <= r[d] /\ r[d] \in Nat
          BY <2>8, <3>2 DEF RInv, Pieces, TypeOK
        <5>2. d # c /\ HasHuge(d)
          BY <2>8, <3>2
        <5>3. CASE p < HUGESTART
          BY <2>6, <5>1, <5>3
        <5>4. CASE sz \in HugeSizes /\ HasHuge(c)
          <6>1. \A e \in Cpu : HasHuge(e) /\ r[e] = p => c = e
            BY <2>7, <5>4
          <6>. QED  BY <5>2, <6>1
        <5>. QED  BY <2>5, <5>3, <5>4
      <4>. QED  BY <2>4, <2>10, <4>1, <4>2
    <3>. QED  BY <1>1, <2>8, <3>1, <3>2 DEF RInv, Pieces
  <2>14. HeapStart <= p /\ p + m <= HeapEnd /\ p % m = 0
    <3>1. CASE cls[c] \in FreeList /\ p \in Block(cls[c])
      <4>1. PICK k \in FreeList : k = cls[c] /\ p \in Block(k)
        BY <3>1
      <4>2. PICK z \in Nat \ {0} : z = BlockSize(k)
        BY Constants
      <4>3. m <= z /\ z % m = 0
        BY <2>1, <2>3, <4>1, <4>2, ClassSizes
      <4>4. p % z = 0
        BY <4>1, <4>2 DEF Block
      <4>5. RegionStart(k) <= p /\ p + z <= RegionEnd(k)
        BY <4>1, <4>2, BlockPlace
      <4>6. HeapStart <= RegionStart(k) /\ RegionEnd(k) <= HUGESTART /\ HUGESTART <= HeapEnd
            /\ RegionStart(k) \in Nat /\ RegionEnd(k) \in Nat
        BY Regions, HeapBounds
      <4>7. p % m = 0
        BY <4>3, <4>4, MultipleOf
      <4>. QED  BY <2>6, <4>3, <4>5, <4>6, <4>7
    <3>2. CASE sz \in HugeSizes /\ HasHuge(c) /\ HUGESTART <= p
      BY <2>6, <2>7, <3>2, HeapBounds
    <3>. QED  BY <2>5, <3>1, <3>2
  <2>15. ASSUME NEW b \in allocated PROVE Abstract!Disjoint(<<p, m>>, b)
    <3>1. PICK s \in Requests :
             /\ b = <<b[1], 2 ^ s>>
             /\ \/ ClassOf(s) \in FreeList /\ b[1] \in Block(ClassOf(s))
                \/ s \in HugeSizes /\ b[1] \in Nat /\ HUGESTART <= b[1]
      BY DEF RInv, Sized
    <3>2. PICK n \in Nat \ {0} : n = 2 ^ s
      BY ClassSizes
    <3>3. b[2] = n
      BY <3>1, <3>2
    <3>. SUFFICES p + m <= b[1] \/ b[1] + n <= p
      BY <2>10, <3>3 DEF Abstract!Disjoint
    <3>4. b[1] # p
      <4>1. p \in Blocks => ~Lives(p)
        <5>1. Holds(c, p)
          BY <1>4, <2>2 DEF Holds, Handling
        <5>. QED  BY <5>1 DEF Sound, Sole
      <4>. QED  BY <2>5, <2>7, <4>1 DEF Lives
    <3>5. CASE ClassOf(s) \in FreeList /\ b[1] \in Block(ClassOf(s))
      <4>1. PICK k \in FreeList : k = ClassOf(s) /\ b[1] \in Block(k) /\ n <= BlockSize(k)
        BY <3>2, <3>5, ClassSizes
      <4>2. CASE cls[c] \in FreeList /\ p \in Block(cls[c])
        <5>1. PICK j \in FreeList : j = cls[c] /\ p \in Block(j) /\ m <= BlockSize(j)
          BY <2>1, <2>3, <4>2, ClassSizes
        <5>2. PICK q \in Block(k) : q = b[1]
          BY <4>1
        <5>. QED  BY <3>4, <4>1, <5>1, <5>2, BlocksApart
      <4>3. CASE HUGESTART <= p
        <5>1. /\ b[1] \in Nat /\ b[1] + BlockSize(k) <= RegionEnd(k)
              /\ RegionEnd(k) <= HUGESTART /\ RegionEnd(k) \in Nat
              /\ BlockSize(k) \in Nat
          BY <4>1, BlockPlace, Regions, Constants
        <5>. QED  BY <2>6, <4>1, <4>3, <5>1
      <4>. QED  BY <2>5, <4>2, <4>3
    <3>6. CASE s \in HugeSizes /\ b[1] \in Nat /\ HUGESTART <= b[1]
      <4>1. CASE cls[c] \in FreeList /\ p \in Block(cls[c])
        <5>1. PICK j \in FreeList : j = cls[c] /\ p \in Block(j) /\ m <= BlockSize(j)
          BY <2>1, <2>3, <4>1, ClassSizes
        <5>2. /\ p + BlockSize(j) <= RegionEnd(j)
              /\ RegionEnd(j) <= HUGESTART /\ RegionEnd(j) \in Nat
              /\ BlockSize(j) \in Nat
          BY <5>1, BlockPlace, Regions, Constants
        <5>. QED  BY <2>6, <3>6, <5>1, <5>2
      <4>2. CASE sz \in HugeSizes /\ HasHuge(c)
        <5>1. n = m
          BY <2>3, <3>2, <3>6, <4>2 DEF OneHugeSize
        <5>2. b[1] % m = 0 /\ p % m = 0
          BY <2>3, <2>7, <3>6, <4>2 DEF RInv, Pieces
        <5>3. b[1] < p => b[1] + m <= p
          BY <3>6, <5>2, MultiplesApart
        <5>4. p < b[1] => p + m <= b[1]
          BY <3>6, <5>2, MultiplesApart
        <5>. QED  BY <3>4, <3>6, <5>1, <5>3, <5>4
      <4>. QED  BY <2>5, <4>1, <4>2
    <3>. QED  BY <3>1, <3>5, <3>6
  <2>16. Abstract!Alloc(p, m)
    BY <2>4, <2>14, <2>15 DEF Abstract!Alloc
  <2>17. p \in HeapStart .. HeapEnd /\ m \in {2 ^ x : x \in Requests}
    <3>1. p <= HeapEnd
      BY <2>6, <2>14
    <3>. QED  BY <2>3, <2>6, <2>14, <3>1
  <2>18. Abstract!Next
    BY <2>16, <2>17 DEF Abstract!Next
  <2>. QED  BY <2>9, <2>11, <2>13, <2>18 DEF RInv
<1>. QED  BY <1>1, <1>3, <1>4

(* Under the two conditions the allocator is a heap: what it hands out is  *)
(* in the heap, aligned, and overlaps nothing that is live.                *)
THEOREM Refinement == OneHugeSize => (Spec => ImplementsHeap)
<1>. SUFFICES ASSUME OneHugeSize PROVE Spec => ImplementsHeap
  OBVIOUS
<1>. USE PmmAssumption, PowersOfTwo
<1>1. Init => RInv /\ Abstract!Init
  BY RInitHolds DEF Init, Abstract!Init
<1>2. IInv /\ RInv /\ [Next]_vars => RInv' /\ [Abstract!Next]_allocated
  <2> SUFFICES ASSUME IInv, RInv, [Next]_vars
               PROVE  RInv' /\ (Abstract!Next \/ allocated' = allocated)
    OBVIOUS
  <2>1. CASE UNCHANGED vars
    BY <2>1 DEF vars, RInv, Served, Sized, Pieces, HasHuge
  <2>2. CASE Next
    <3>1. TypeOK /\ Sound
      BY <2>2 DEF IInv, Next
    <3>2. PICK c \in Cpu :
             \/ \E sz \in Requests : KAlloc(c, sz)
             \/ \E b \in allocated : KFree(c, b)
             \/ CpuStep(c)
      BY <2>2 DEF Next
    <3>3. CASE \/ \E sz \in Requests : KAlloc(c, sz)
               \/ Lock(c) \/ ReadHead(c) \/ Pop(c) \/ Unlock(c) \/ SetNxt(c) \/ Push(c)
      BY <3>1, <3>3, PlainKept
    <3>4. CASE HugeBump(c)
      BY <3>1, <3>4, HugeBumpCuts
    <3>5. CASE HugeCheck(c)
      BY <3>1, <3>5, HugeCheckKept
    <3>6. ASSUME NEW b \in allocated, KFree(c, b)
          PROVE  RInv' /\ Abstract!Next
      BY <3>1, <3>6, KFreeFrees DEF Abstract!Next, Abstract!Free
    <3>7. CASE Return(c)
      BY <3>1, <3>7, ReturnAllocates
    <3>. QED  BY <3>2, <3>3, <3>4, <3>5, <3>6, <3>7 DEF CpuStep
  <2>. QED  BY <2>1, <2>2
<1>. QED  BY <1>1, <1>2, Invariant, PTL DEF Spec, ImplementsHeap, Abstract!Spec
=============================================================================
