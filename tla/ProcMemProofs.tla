--------------------------- MODULE ProcMemProofs ---------------------------
(***************************************************************************)
(* Proofs about the memory of processes in ProcMem (kernel/src/os.c and    *)
(* uproc.c), for every number of processes, pages and frames and every     *)
(* length of the arrays: the record agrees with the page table, no page of *)
(* the heap is anybody else's, and processes have the private memory of    *)
(* PrivateMemory as long as alloc has not returned 0.                      *)
(*                                                                         *)
(* MemoryAccounted compares the set of frames recorded for a page with the *)
(* table; that is not inductive, because fork copies entry by entry: it    *)
(* needs that no page has two entries.                                     *)
(***************************************************************************)
EXTENDS ProcMem, LeastNumber, SequenceTheorems, TLAPS

Phys == Frame \cup {PageZero}

Entries(p) == 1 .. Len(maps[p])

TypeOK ==
    /\ exists \in SUBSET Proc
    /\ maps \in [Proc -> Seq(Page \X Phys)]
    /\ table \in [Proc -> [Page -> Phys \cup {None}]]
    /\ memory \in [Phys -> Value]
    /\ free \in SUBSET Frame

\* A process that has not been made has no memory.
Unmade ==
    \A p \in Proc \ exists : maps[p] = <<>> /\ \A a \in Page : table[p][a] = None

\* The record and the page table show the same, each page once.
RecordOf(p) ==
    /\ \A i \in Entries(p) : table[p][maps[p][i][1]] = maps[p][i][2]
    /\ \A i, j \in Entries(p) : maps[p][i][1] = maps[p][j][1] => i = j
    /\ \A a \in Page : table[p][a] # None => \E i \in Entries(p) : maps[p][i][1] = a

Recorded == \A p \in Proc : RecordOf(p)

\* A page of the heap is pmm's, or in one place of one table.
Private ==
    \A p \in Proc, a \in Page : table[p][a] \in Frame =>
        /\ table[p][a] \notin free
        /\ \A q \in Proc, b \in Page : table[p][a] = table[q][b] => p = q /\ a = b

IInv == TypeOK /\ Unmade /\ Recorded /\ Private

(* A function on 1 .. n is a sequence of length n.                         *)
LEMMA Listing ==
    ASSUME NEW S, NEW n \in Nat, NEW f \in [1 .. n -> S]
    PROVE  f \in Seq(S) /\ Len(f) = n
OBVIOUS

(* The record read entry by entry.                                         *)
LEMMA Entry ==
    ASSUME TypeOK, NEW p \in Proc
    PROVE  /\ Len(maps[p]) \in Nat
           /\ \A i \in Entries(p) : /\ maps[p][i][1] \in Page /\ maps[p][i][2] \in Phys
                                    /\ maps[p][i] = <<maps[p][i][1], maps[p][i][2]>>
<1>1. maps[p] \in Seq(Page \X Phys)
  BY DEF TypeOK
<1>2. \A i \in Entries(p) : maps[p][i] \in Page \X Phys
  BY <1>1, ElementOfSeq DEF Entries
<1>. QED  BY <1>1, <1>2, LenProperties

(* At first there is one process, without memory.                          *)
LEMMA InitHolds == ASSUME ProcMemAssumption, Init PROVE IInv
<1>1. \A p \in Proc : maps[p] = <<>> /\ maps[p] \in Seq(Page \X Phys) /\ Entries(p) = {}
  BY DEF Init, Entries
<1>2. \A p \in Proc, a \in Page : table[p][a] = None
  BY DEF Init
<1>3. TypeOK
  BY <1>1 DEF Init, TypeOK, ProcMemAssumption, Phys
<1>. QED  BY <1>1, <1>2, <1>3 DEF IInv, Unmade, Recorded, RecordOf, Private, ProcMemAssumption

\* What pgmap writes when it does not panic.
RecordPage(p, a, f) ==
    /\ maps' = [maps EXCEPT ![p] = Append(@, <<a, f>>)]
    /\ table' = [table EXCEPT ![p][a] = f]

(* What a page fault that does not panic changes.                          *)
LEMMA Mapped ==
    ASSUME ProcMemAssumption, TypeOK, NEW p \in Proc, NEW a \in Page, NEW f \in Phys,
           RecordPage(p, a, f)
    PROVE  /\ maps' \in [Proc -> Seq(Page \X Phys)]
           /\ table' \in [Proc -> [Page -> Phys \cup {None}]]
           /\ \A q \in Proc \ {p} : maps'[q] = maps[q]
           /\ Len(maps'[p]) = Len(maps[p]) + 1
           /\ \A i \in 1 .. Len(maps[p]) : maps'[p][i] = maps[p][i]
           /\ maps'[p][Len(maps[p]) + 1] = <<a, f>>
           /\ \A q \in Proc, b \in Page :
                  table'[q][b] = IF q = p /\ b = a THEN f ELSE table[q][b]
<1>1. maps[p] \in Seq(Page \X Phys) /\ <<a, f>> \in Page \X Phys
  BY DEF TypeOK
<1>2. maps'[p] = Append(maps[p], <<a, f>>)
  BY DEF TypeOK, RecordPage
<1>3. /\ maps'[p] \in Seq(Page \X Phys)
      /\ Len(maps'[p]) = Len(maps[p]) + 1
      /\ \A i \in 1 .. Len(maps[p]) : maps'[p][i] = maps[p][i]
      /\ maps'[p][Len(maps[p]) + 1] = <<a, f>>
  BY <1>1, <1>2, AppendProperties
<1>4. /\ table' \in [Proc -> [Page -> Phys \cup {None}]]
      /\ \A q \in Proc, b \in Page :
             table'[q][b] = IF q = p /\ b = a THEN f ELSE table[q][b]
  BY DEF TypeOK, RecordPage
<1>5. maps' \in [Proc -> Seq(Page \X Phys)] /\ \A q \in Proc \ {p} : maps'[q] = maps[q]
  BY <1>3 DEF TypeOK, RecordPage
<1>. QED  BY <1>3, <1>4, <1>5

(* A record that stays what it is, with the process's part of the table.   *)
LEMMA RecordKept ==
    ASSUME NEW p \in Proc, RecordOf(p), maps'[p] = maps[p],
           \A b \in Page : table'[p][b] = table[p][b], TypeOK
    PROVE  RecordOf(p)'
<1>1. Entries(p)' = Entries(p)
  BY DEF Entries
<1>2. \A i \in Entries(p) : maps[p][i][1] \in Page
  BY Entry
<1>. QED  BY <1>1, <1>2 DEF RecordOf

(* PF_handler keeps the invariant (os.c 94-115).                           *)
LEMMA PageFaultKeeps ==
    ASSUME ProcMemAssumption, IInv, NEW p \in Proc, NEW a \in Page, PageFault(p, a)
    PROVE  IInv'
<1>1. TypeOK /\ Unmade /\ Recorded /\ Private /\ p \in exists /\ table[p][a] = None
  BY DEF IInv, PageFault
<1>2. PICK f \in Allocated : PgMap(p, a, f) /\ free' = free \ {f}
  BY DEF PageFault
<1>3. exists' = exists /\ memory' = memory /\ f \in Phys /\ (f \in Frame => f \in free)
  BY <1>1, <1>2 DEF PageFault, Allocated, TypeOK, Phys, ProcMemAssumption
<1>4. CASE UNCHANGED <<maps, table>>
  <2>1. free' \in SUBSET free
    BY <1>2
  <2>2. Recorded'
    BY <1>1, <1>4, RecordKept DEF Recorded
  <2>. QED  BY <1>1, <1>3, <1>4, <2>1, <2>2 DEF IInv, TypeOK, Unmade, Private
<1>5. CASE RecordPage(p, a, f)
  <2>1. PICK n \in Nat : n = Len(maps[p])
    BY <1>1, Entry
  <2>3. /\ maps' \in [Proc -> Seq(Page \X Phys)]
        /\ table' \in [Proc -> [Page -> Phys \cup {None}]]
        /\ \A q \in Proc \ {p} : maps'[q] = maps[q]
        /\ Len(maps'[p]) = Len(maps[p]) + 1
        /\ \A i \in 1 .. Len(maps[p]) : maps'[p][i] = maps[p][i]
        /\ maps'[p][Len(maps[p]) + 1] = <<a, f>>
        /\ \A q \in Proc, b \in Page :
               table'[q][b] = IF q = p /\ b = a THEN f ELSE table[q][b]
    <3>1. f \in Phys /\ TypeOK
      BY <1>1, <1>3
    <3>. HIDE DEF TypeOK
    <3>. QED  BY <1>5, <3>1, Mapped
  <2>4. /\ Len(maps'[p]) = n + 1
        /\ \A i \in 1 .. n : maps'[p][i] = maps[p][i]
        /\ maps'[p][n + 1] = <<a, f>>
    BY <2>1, <2>3
  <2>2. /\ \A q \in Proc \ {p} : maps'[q] = maps[q]
        /\ \A q \in Proc, b \in Page :
               table'[q][b] = IF q = p /\ b = a THEN f ELSE table[q][b]
    BY <2>3
  <2>14. TypeOK'
    BY <1>1, <1>2, <1>3, <2>3 DEF TypeOK
  <2>15. Unmade'
    <3>1. \A q \in Proc \ exists : q # p /\ maps[q] = <<>> /\ \A b \in Page : table[q][b] = None
      BY <1>1 DEF Unmade
    <3>2. \A q \in Proc \ exists : maps'[q] = <<>> /\ \A b \in Page : table'[q][b] = None
      BY <2>2, <3>1
    <3>. QED  BY <1>3, <3>2 DEF Unmade
  <2>5. ASSUME NEW q \in Proc, q # p PROVE RecordOf(q)'
    BY <1>1, <2>2, <2>5, RecordKept DEF Recorded
  <2>6. /\ Entries(p)' = 1 .. n + 1
        /\ \A i \in 1 .. n + 1 : i \in 1 .. n \/ i = n + 1
        /\ \A i \in 1 .. n : i \in 1 .. n + 1
    BY <2>1, <2>4 DEF Entries
  <2>7. /\ \A i \in 1 .. n : table[p][maps[p][i][1]] = maps[p][i][2]
        /\ \A i, j \in 1 .. n : maps[p][i][1] = maps[p][j][1] => i = j
        /\ \A b \in Page : table[p][b] # None => \E i \in 1 .. n : maps[p][i][1] = b
        /\ \A i \in 1 .. n : maps[p][i][1] \in Page /\ maps[p][i][2] \in Phys
    BY <1>1, <2>1, Entry DEF Recorded, RecordOf, Entries
  <2>8. \A i \in 1 .. n : maps[p][i][1] # a
    BY <1>1, <2>7 DEF ProcMemAssumption, Phys
  <2>9. \A i \in Entries(p)' : table'[p][maps'[p][i][1]] = maps'[p][i][2]
    <3>1. ASSUME NEW i \in 1 .. n PROVE table'[p][maps'[p][i][1]] = maps'[p][i][2]
      <4>1. maps'[p][i] = maps[p][i] /\ maps[p][i][1] \in Page /\ maps[p][i][1] # a
        BY <2>4, <2>7, <2>8
      <4>2. table'[p][maps[p][i][1]] = table[p][maps[p][i][1]]
        BY <2>2, <4>1
      <4>. QED  BY <2>7, <4>1, <4>2
    <3>2. table'[p][maps'[p][n + 1][1]] = maps'[p][n + 1][2]
      BY <2>2, <2>4
    <3>. QED  BY <2>6, <3>1, <3>2
  <2>10. \A i, j \in Entries(p)' : maps'[p][i][1] = maps'[p][j][1] => i = j
    <3>1. \A i, j \in 1 .. n : maps'[p][i][1] = maps'[p][j][1] => i = j
      BY <2>4, <2>7
    <3>2. \A i \in 1 .. n : maps'[p][i][1] # maps'[p][n + 1][1]
      BY <2>4, <2>8
    <3>. QED  BY <2>6, <3>1, <3>2
  <2>11. \A b \in Page : table'[p][b] # None => \E i \in Entries(p)' : maps'[p][i][1] = b
    <3> SUFFICES ASSUME NEW b \in Page, table'[p][b] # None
                 PROVE  \E i \in Entries(p)' : maps'[p][i][1] = b
      OBVIOUS
    <3>1. CASE b = a
      <4>1. n + 1 \in 1 .. n + 1
        BY <2>1
      <4>. QED  BY <2>4, <2>6, <3>1, <4>1
    <3>2. CASE b # a
      <4>1. PICK i \in 1 .. n : maps[p][i][1] = b
        BY <2>2, <2>7, <3>2
      <4>. QED  BY <2>4, <2>6, <4>1
    <3>. QED  BY <3>1, <3>2
  <2>12. Recorded'
    <3>1. RecordOf(p)'
      BY <2>9, <2>10, <2>11 DEF RecordOf
    <3>. QED  BY <2>5, <3>1 DEF Recorded
  <2>13. Private'
    <3>1. \A q \in Proc, b \in Page :
             table[q][b] \in Frame => table[q][b] \notin free' /\ table[q][b] # f
      BY <1>1, <1>2, <1>3 DEF Private
    <3>2. f \notin free' /\ (f \in Frame => \A q \in Proc, b \in Page : table[q][b] # f)
      BY <1>1, <1>2, <1>3, <3>1
    <3>3. ASSUME NEW q \in Proc, NEW b \in Page, table'[q][b] \in Frame
          PROVE  /\ table'[q][b] \notin free'
                 /\ \A s \in Proc, d \in Page : table'[q][b] = table'[s][d] => q = s /\ b = d
      <4>1. CASE q = p /\ b = a
        BY <2>2, <3>2, <3>3, <4>1
      <4>2. CASE ~(q = p /\ b = a)
        BY <1>1, <2>2, <3>1, <3>3, <4>2 DEF Private
      <4>. QED  BY <4>1, <4>2
    <3>. QED  BY <3>3 DEF Private
  <2>. QED  BY <2>12, <2>13, <2>14, <2>15 DEF IInv
<1>. QED  BY <1>2, <1>4, <1>5 DEF PgMap, RecordPage

(* So does a write.                                                        *)
LEMMA WriteKeeps ==
    ASSUME ProcMemAssumption, IInv, NEW p \in Proc, NEW a \in Page, NEW x \in Value,
           Write(p, a, x)
    PROVE  IInv'
<1>1. TypeOK /\ Unmade /\ Recorded /\ Private
  BY DEF IInv
<1>2. TypeOK'
  BY <1>1 DEF TypeOK, Write
<1>3. Recorded'
  BY <1>1, RecordKept DEF Recorded, Write
<1>. QED  BY <1>1, <1>2, <1>3 DEF IInv, Unmade, Private, Write

(* A nonempty set of entries has a last one, and Max finds it.             *)
LEMMA MaxIsOne ==
    ASSUME NEW n \in Nat, NEW S, S \subseteq 1 .. n, S # {}
    PROVE  Max(S) \in S
<1>1. S \subseteq 0 .. n
  OBVIOUS
<1>2. PICK x \in S : \A y \in S : y <= x
  BY <1>1, Greatest
<1>. QED  BY <1>2 DEF Max

LEMMA Only == ASSUME NEW x \in Nat PROVE Max({x}) = x
BY DEF Max

(* What fork changes: the child's page a shows what the parent's shows, in *)
(* a page of its own unless alloc has returned 0.                          *)
Copied(p, c, fs) ==
    /\ fs \in [Entries(p) -> Phys]
    /\ \A i, j \in Entries(p) : fs[i] = fs[j] /\ fs[i] # PageZero => i = j
    /\ \A i \in Entries(p) : fs[i] \in free \cup {PageZero}
    /\ maps' = [maps EXCEPT ![c] = [i \in Entries(p) |-> <<maps[p][i][1], fs[i]>>]]
    /\ \A q \in Proc \ {c}, a \in Page : table'[q][a] = table[q][a]
    /\ \A a \in Page : table[p][a] = None => table'[c][a] = None
    /\ \A i \in Entries(p) : table'[c][maps[p][i][1]] = fs[i]
    /\ \A f \in Phys : (\A i \in Entries(p) : fs[i] # f) => memory'[f] = memory[f]
    /\ \A i \in Entries(p) : fs[i] # PageZero => memory'[fs[i]] = memory[maps[p][i][2]]
    /\ free' = free \ {fs[i] : i \in Entries(p)}

LEMMA Forked ==
    ASSUME ProcMemAssumption, IInv, NEW p \in Proc, NEW c \in Proc, Fork(p, c)
    PROVE  /\ p \in exists /\ c \notin exists /\ exists' = exists \cup {c}
           /\ table' \in [Proc -> [Page -> Phys \cup {None}]]
           /\ memory' \in [Phys -> Value]
           /\ \E fs : Copied(p, c, fs)
<1>1. TypeOK /\ RecordOf(p)
  BY DEF IInv, Recorded
<1>2. PICK n \in Nat : n = Len(maps[p])
  BY <1>1, Entry
<1>. DEFINE Of(a) == {i \in 1 .. n : maps[p][i][1] = a}
<1>3. PICK fs \in NewFrames(n) :
         /\ maps' = [maps EXCEPT ![c] = [i \in 1 .. n |-> <<maps[p][i][1], fs[i]>>]]
         /\ table' = [table EXCEPT ![c] =
                [a \in Page |-> IF Of(a) = {} THEN None ELSE fs[Max(Of(a))]]]
         /\ memory' = [f \in DOMAIN memory |->
                IF {i \in 1 .. n : fs[i] = f} = {} THEN memory[f]
                ELSE memory[maps[p][Max({i \in 1 .. n : fs[i] = f})][2]]]
         /\ free' = free \ {fs[i] : i \in 1 .. n}
  BY <1>2, ZenonT(60) DEF Fork
<1>4. p \in exists /\ c \notin exists /\ exists' = exists \cup {c}
  BY DEF Fork
<1>5. /\ fs \in [1 .. n -> Phys]
      /\ \A i, j \in 1 .. n : fs[i] = fs[j] /\ fs[i] # PageZero => i = j
      /\ \A i \in 1 .. n : fs[i] \in free \cup {PageZero}
  BY <1>3 DEF NewFrames, Phys
<1>6. /\ \A i \in 1 .. n : table[p][maps[p][i][1]] = maps[p][i][2]
      /\ \A i, j \in 1 .. n : maps[p][i][1] = maps[p][j][1] => i = j
      /\ \A i \in 1 .. n : maps[p][i][1] \in Page /\ maps[p][i][2] \in Phys
  BY <1>1, <1>2, Entry DEF RecordOf, Entries
<1>7. table' \in [Proc -> [Page -> Phys \cup {None}]]
  <2>1. ASSUME NEW a \in Page, Of(a) # {} PROVE fs[Max(Of(a))] \in Phys
    <3>1. Max(Of(a)) \in Of(a)
      BY <2>1, MaxIsOne
    <3>. QED  BY <1>5, <3>1
  <2>. DEFINE T == [a \in Page |-> IF Of(a) = {} THEN None ELSE fs[Max(Of(a))]]
  <2>2. T \in [Page -> Phys \cup {None}]
    BY <2>1
  <2>3. table' = [table EXCEPT ![c] = T]
    BY <1>3
  <2>. HIDE DEF T
  <2>. QED  BY <1>1, <2>2, <2>3 DEF TypeOK
<1>8. memory' \in [Phys -> Value]
  <2>1. memory \in [Phys -> Value]
    BY <1>1 DEF TypeOK
  <2>. DEFINE To(f) == {i \in 1 .. n : fs[i] = f}
  <2>2. ASSUME NEW f \in Phys, To(f) # {} PROVE memory[maps[p][Max(To(f))][2]] \in Value
    <3>1. Max(To(f)) \in To(f)
      BY <2>2, MaxIsOne
    <3>2. maps[p][Max(To(f))][2] \in Phys
      BY <1>6, <3>1
    <3>. QED  BY <2>1, <3>2
  <2>3. memory' = [f \in Phys |-> IF To(f) = {} THEN memory[f]
                                 ELSE memory[maps[p][Max(To(f))][2]]]
    BY <1>3, <2>1
  <2>. HIDE DEF To
  <2>. QED  BY <2>1, <2>2, <2>3
<1>9. table \in [Proc -> [Page -> Phys \cup {None}]] /\ memory \in [Phys -> Value]
  BY <1>1 DEF TypeOK
<1>10. \A q \in Proc \ {c}, a \in Page : table'[q][a] = table[q][a]
  BY <1>3, <1>9
<1>11. \A a \in Page : table'[c][a] = IF Of(a) = {} THEN None ELSE fs[Max(Of(a))]
  BY <1>3, <1>9
<1>12. \A a \in Page : table[p][a] = None => table'[c][a] = None
  <2>1. \A a \in Page : table[p][a] = None => Of(a) = {}
    BY <1>6 DEF ProcMemAssumption, Phys
  <2>. QED  BY <1>11, <2>1
<1>13. ASSUME NEW i \in 1 .. n PROVE table'[c][maps[p][i][1]] = fs[i]
  <2>1. Of(maps[p][i][1]) = {i} /\ maps[p][i][1] \in Page
    BY <1>6
  <2>2. Max({i}) = i
    BY Only
  <2>. QED  BY <1>11, <2>1, <2>2
<1>14. \A f \in Phys : (\A i \in 1 .. n : fs[i] # f) => memory'[f] = memory[f]
  BY <1>3, <1>9
<1>15. ASSUME NEW i \in 1 .. n, fs[i] # PageZero
       PROVE  memory'[fs[i]] = memory[maps[p][i][2]]
  <2>1. {j \in 1 .. n : fs[j] = fs[i]} = {i} /\ fs[i] \in Phys
    BY <1>5, <1>15, SMTT(60)
  <2>2. Max({i}) = i
    BY Only
  <2>. QED  BY <1>3, <1>9, <2>1, <2>2
<1>16. Copied(p, c, fs)
  BY <1>2, <1>3, <1>5, <1>10, <1>12, <1>13, <1>14, <1>15 DEF Copied, Entries
<1>. QED  BY <1>4, <1>7, <1>8, <1>16

(* fork keeps the invariant (uproc.c 27-44).                               *)
LEMMA ForkKeeps ==
    ASSUME ProcMemAssumption, IInv, NEW p \in Proc, NEW c \in Proc, Fork(p, c)
    PROVE  IInv'
<1>1. TypeOK /\ Unmade /\ Recorded /\ Private
  BY DEF IInv
<1>2. /\ p \in exists /\ c \notin exists /\ exists' = exists \cup {c}
      /\ table' \in [Proc -> [Page -> Phys \cup {None}]]
      /\ memory' \in [Phys -> Value]
  BY Forked
<1>3. PICK fs : Copied(p, c, fs)
  BY Forked
<1>4. PICK n \in Nat : n = Len(maps[p])
  BY <1>1, Entry
<1>5. /\ fs \in [1 .. n -> Phys]
      /\ \A i, j \in 1 .. n : fs[i] = fs[j] /\ fs[i] # PageZero => i = j
      /\ \A i \in 1 .. n : fs[i] \in free \cup {PageZero}
  BY <1>3, <1>4 DEF Copied, Entries
<1>6. /\ \A i \in 1 .. n : table[p][maps[p][i][1]] = maps[p][i][2]
      /\ \A i, j \in 1 .. n : maps[p][i][1] = maps[p][j][1] => i = j
      /\ \A i \in 1 .. n : maps[p][i][1] \in Page /\ maps[p][i][2] \in Phys
      /\ \A a \in Page : table[p][a] # None => \E i \in 1 .. n : maps[p][i][1] = a
  BY <1>1, <1>4, Entry DEF Recorded, RecordOf, Entries
<1>7. /\ \A q \in Proc \ {c}, a \in Page : table'[q][a] = table[q][a]
      /\ \A a \in Page : table[p][a] = None => table'[c][a] = None
      /\ \A i \in 1 .. n : table'[c][maps[p][i][1]] = fs[i]
  BY <1>3, <1>4 DEF Copied, Entries
<1>. DEFINE M == [i \in 1 .. n |-> <<maps[p][i][1], fs[i]>>]
<1>8. maps' = [maps EXCEPT ![c] = M]
  BY <1>3, <1>4 DEF Copied, Entries
<1>9. M \in Seq(Page \X Phys) /\ Len(M) = n
  <2>1. M \in [1 .. n -> Page \X Phys]
    BY <1>5, <1>6
  <2>. HIDE DEF M
  <2>. QED  BY <2>1, Listing
<1>10. \A i \in 1 .. n : M[i][1] = maps[p][i][1] /\ M[i][2] = fs[i]
  OBVIOUS
<1>. HIDE DEF M
<1>11. maps \in [Proc -> Seq(Page \X Phys)]
  BY <1>1 DEF TypeOK
<1>12. /\ maps' \in [Proc -> Seq(Page \X Phys)]
       /\ maps'[c] = M /\ \A q \in Proc \ {c} : maps'[q] = maps[q]
  BY <1>8, <1>9, <1>11
<1>13. free' = free \ {fs[i] : i \in 1 .. n}
  BY <1>3, <1>4 DEF Copied, Entries
<1>14. TypeOK'
  BY <1>1, <1>2, <1>12, <1>13 DEF TypeOK
<1>15. Unmade'
  <2>1. \A q \in Proc \ exists' : maps'[q] = maps[q] /\ \A a \in Page : table'[q][a] = table[q][a]
    BY <1>2, <1>7, <1>12
  <2>2. \A q \in Proc \ exists' : maps[q] = <<>> /\ \A a \in Page : table[q][a] = None
    BY <1>1, <1>2 DEF Unmade
  <2>. QED  BY <2>1, <2>2 DEF Unmade
<1>16. Recorded'
  <2>1. ASSUME NEW q \in Proc, q # c PROVE RecordOf(q)'
    BY <1>1, <1>7, <1>12, <2>1, RecordKept DEF Recorded
  <2>2. Entries(c)' = 1 .. n
    BY <1>9, <1>12 DEF Entries
  <2>6. \A i \in 1 .. n : maps'[c][i][1] = maps[p][i][1] /\ maps'[c][i][2] = fs[i]
    <3>1. maps'[c] = M
      BY <1>12
    <3>. QED  BY <1>10, <3>1
  <2>3. /\ \A i \in 1 .. n : table'[c][maps'[c][i][1]] = maps'[c][i][2]
        /\ \A i, j \in 1 .. n : maps'[c][i][1] = maps'[c][j][1] => i = j
    BY <1>6, <1>7, <2>6
  <2>4. \A a \in Page : table'[c][a] # None => \E i \in 1 .. n : maps'[c][i][1] = a
    BY <1>6, <1>7, <2>6
  <2>5. RecordOf(c)'
    BY <2>2, <2>3, <2>4 DEF RecordOf
  <2>. QED  BY <2>1, <2>5 DEF Recorded
<1>17. Private'
  <2>1. \A q \in Proc \ {c}, a \in Page : table'[q][a] \in Frame =>
            table'[q][a] \notin free /\ table'[q][a] \notin free'
    BY <1>1, <1>7, <1>13 DEF Private
  <2>2. \A a \in Page : table'[c][a] \in Frame =>
            \E i \in 1 .. n : maps[p][i][1] = a /\ table'[c][a] = fs[i]
    BY <1>6, <1>7 DEF ProcMemAssumption
  <2>3. \A i \in 1 .. n : fs[i] \in Frame => fs[i] \in free /\ fs[i] \notin free'
    BY <1>5, <1>13 DEF ProcMemAssumption
  <2>4. ASSUME NEW q \in Proc, NEW a \in Page, table'[q][a] \in Frame
        PROVE  /\ table'[q][a] \notin free'
               /\ \A s \in Proc, b \in Page : table'[q][a] = table'[s][b] => q = s /\ a = b
    <3>1. CASE q = c
      <4>1. PICK i \in 1 .. n : maps[p][i][1] = a /\ table'[c][a] = fs[i]
        BY <2>2, <2>4, <3>1
      <4>2. ASSUME NEW s \in Proc, NEW b \in Page, table'[q][a] = table'[s][b]
            PROVE  q = s /\ a = b
        <5>1. s = c
          BY <2>1, <2>3, <2>4, <3>1, <4>1, <4>2
        <5>2. PICK j \in 1 .. n : maps[p][j][1] = b /\ table'[c][b] = fs[j]
          BY <2>2, <2>4, <3>1, <4>2, <5>1
        <5>3. fs[i] = fs[j] /\ fs[i] # PageZero
          BY <2>4, <3>1, <4>1, <4>2, <5>1, <5>2 DEF ProcMemAssumption
        <5>. QED  BY <1>5, <3>1, <4>1, <5>1, <5>2, <5>3
      <4>. QED  BY <2>3, <2>4, <3>1, <4>1, <4>2
    <3>2. CASE q # c
      <4>1. ASSUME NEW s \in Proc, NEW b \in Page, table'[q][a] = table'[s][b]
            PROVE  q = s /\ a = b
        <5>1. s # c
          BY <2>1, <2>2, <2>3, <2>4, <3>2, <4>1
        <5>. QED  BY <1>1, <1>7, <2>4, <3>2, <4>1, <5>1 DEF Private
      <4>. QED  BY <2>1, <2>4, <3>2, <4>1
    <3>. QED  BY <3>1, <3>2
  <2>. QED  BY <2>4 DEF Private
<1>. QED  BY <1>14, <1>15, <1>16, <1>17 DEF IInv

(* The invariant holds of every run.                                       *)
LEMMA Invariant == Spec => []IInv
<1>1. Init => IInv
  BY InitHolds, ProcMemAssumption
<1>2. IInv /\ [Next]_vars => IInv'
  <2> SUFFICES ASSUME IInv, [Next]_vars PROVE IInv'
    OBVIOUS
  <2>1. ASSUME NEW p \in Proc, NEW a \in Page, PageFault(p, a) PROVE IInv'
    BY <2>1, PageFaultKeeps, ProcMemAssumption
  <2>2. ASSUME NEW p \in Proc, NEW a \in Page, NEW x \in Value, Write(p, a, x) PROVE IInv'
    BY <2>2, WriteKeeps, ProcMemAssumption
  <2>3. ASSUME NEW p \in Proc, NEW c \in Proc, Fork(p, c) PROVE IInv'
    BY <2>3, ForkKeeps, ProcMemAssumption
  <2>4. CASE UNCHANGED vars
    BY <2>4 DEF vars, IInv, TypeOK, Unmade, Recorded, RecordOf, Entries, Private
  <2>. QED  BY <2>1, <2>2, <2>3, <2>4 DEF Next
<1>. QED  BY <1>1, <1>2, PTL DEF Spec

(* What fork will copy is what the MMU shows, and a page of the heap is in *)
(* one place only: pmm's, or one process's (os.c 94-115, uproc.c 27-44).   *)
THEOREM MemoryAccountedHolds == Spec => []MemoryAccounted
<1>1. ASSUME IInv PROVE MemoryAccounted
  <2>1. ASSUME NEW p \in Proc, NEW a \in Page
        PROVE  {m[2] : m \in {x \in ToSet(maps[p]) : x[1] = a}} = {table[p][a]} \ {None}
    <3>1. RecordOf(p) /\ TypeOK
      BY <1>1 DEF IInv, Recorded
    <3>2. \A i \in Entries(p) : maps[p][i][1] = a => maps[p][i][2] = table[p][a] /\ table[p][a] # None
      <4>1. \A i \in Entries(p) : table[p][maps[p][i][1]] = maps[p][i][2]
        BY <3>1 DEF RecordOf
      <4>2. \A i \in Entries(p) : maps[p][i][2] # None
        BY <3>1, Entry, ProcMemAssumption DEF Phys
      <4>. QED  BY <4>1, <4>2
    <3>3. \A m : m \in ToSet(maps[p]) <=> \E i \in Entries(p) : m = maps[p][i]
      <4>1. DOMAIN maps[p] = Entries(p)
        BY <3>1, LenProperties DEF TypeOK, Entries
      <4>. QED  BY <4>1 DEF ToSet
    <3>4. table[p][a] # None => \E i \in Entries(p) : maps[p][i][1] = a
      BY <3>1 DEF RecordOf
    <3>. QED  BY <3>2, <3>3, <3>4
  <2>. QED  BY <1>1, <2>1 DEF MemoryAccounted, IInv, Private
<1>. QED  BY <1>1, Invariant, PTL

-----------------------------------------------------------------------------
(* The refinement of PrivateMemory.                                        *)

\* What process p sees of page a.
Seen(p, a) == IF table[p][a] = None THEN None ELSE memory[table[p][a]]

Sight == [p \in Proc |-> [a \in Page |-> Seen(p, a)]]

(* Two steps of the mapping: where a process sees what it saw, and where   *)
(* the sight of a page changes.                                            *)
LEMMA SightChanges ==
    ASSUME NEW p \in Proc, NEW a \in Page, NEW x, Seen(p, a)' = x,
           \A q \in Proc, b \in Page : ~(q = p /\ b = a) => Seen(q, b)' = Seen(q, b)
    PROVE  Sight' = [Sight EXCEPT ![p][a] = x]
BY DEF Sight

LEMMA SightKept ==
    ASSUME \A q \in Proc, b \in Page : Seen(q, b)' = Seen(q, b)
    PROVE  Sight' = Sight
BY DEF Sight

(* As long as alloc has not returned 0, every page mapped is a page of the *)
(* heap and shows a value.                                                 *)
LEMMA Fed ==
    ASSUME ProcMemAssumption, TypeOK, ~Starved, NEW p \in Proc, NEW a \in Page,
           table[p][a] # None
    PROVE  table[p][a] \in Frame /\ Seen(p, a) = memory[table[p][a]]
           /\ memory[table[p][a]] \in Value /\ Seen(p, a) # None
BY DEF TypeOK, Starved, Seen, Phys, ProcMemAssumption

(* A page fault is the first touch of a page, or a panic.                  *)
LEMMA FaultTouches ==
    ASSUME ProcMemAssumption, IInv, IInv', ~Starved', NEW p \in Proc, NEW a \in Page,
           PageFault(p, a)
    PROVE  Abstract!Next \/ UNCHANGED Abstract!vars
<1>1. TypeOK /\ TypeOK' /\ Private /\ p \in exists /\ table[p][a] = None
      /\ exists' = exists /\ memory' = memory
  BY DEF IInv, PageFault
<1>2. PICK f \in Allocated : PgMap(p, a, f)
  BY DEF PageFault
<1>3. CASE UNCHANGED <<maps, table>>
  <2>1. \A q \in Proc, b \in Page : Seen(q, b)' = Seen(q, b)
    BY <1>1, <1>3 DEF Seen
  <2>2. Sight' = Sight
    BY <2>1, SightKept
  <2>. QED  BY <1>1, <2>2 DEF Abstract!vars, Sight, Seen
<1>4. CASE table' = [table EXCEPT ![p][a] = f]
  <2>1. /\ table'[p][a] = f
        /\ \A q \in Proc, b \in Page : ~(q = p /\ b = a) => table'[q][b] = table[q][b]
    BY <1>1, <1>4 DEF TypeOK
  <2>2. f \in Phys /\ f # None /\ f # PageZero
    BY <1>1, <1>2, <2>1 DEF Allocated, Starved, Phys, TypeOK, ProcMemAssumption
  <2>3. PICK x \in Value : x = memory[f]
    BY <1>1, <2>2 DEF TypeOK
  <2>4. Seen(p, a)' = x
    BY <1>1, <2>1, <2>2, <2>3 DEF Seen
  <2>5. \A q \in Proc, b \in Page : ~(q = p /\ b = a) => Seen(q, b)' = Seen(q, b)
    BY <1>1, <2>1 DEF Seen
  <2>6. Sight' = [Sight EXCEPT ![p][a] = x]
    BY <2>4, <2>5, SightChanges
  <2>7. Sight[p][a] = None
    BY <1>1 DEF Sight, Seen
  <2>8. Abstract!Touch(p, a, x)
    BY <1>1, <2>6, <2>7 DEF Abstract!Touch, Sight, Seen
  <2>. QED  BY <2>8 DEF Abstract!Next
<1>. QED  BY <1>2, <1>3, <1>4 DEF PgMap

(* A write changes one page of one process.                                *)
LEMMA WriteWrites ==
    ASSUME ProcMemAssumption, IInv, IInv', ~Starved', NEW p \in Proc, NEW a \in Page,
           NEW x \in Value, Write(p, a, x)
    PROVE  Abstract!Next
<1>1. TypeOK /\ Private /\ p \in exists /\ table[p][a] # None
      /\ exists' = exists /\ table' = table
      /\ memory' = [memory EXCEPT ![table[p][a]] = x]
  BY DEF IInv, Write
<1>2. ~Starved
  BY <1>1 DEF Starved
<1>3. table[p][a] \in Frame /\ Seen(p, a) # None
  BY <1>1, <1>2, Fed
<1>4. memory \in [Phys -> Value] /\ table[p][a] \in Phys
  BY <1>1, <1>3 DEF TypeOK, Phys
<1>5. Seen(p, a)' = x
  BY <1>1, <1>4 DEF Seen
<1>6. ASSUME NEW q \in Proc, NEW b \in Page, ~(q = p /\ b = a)
      PROVE  Seen(q, b)' = Seen(q, b)
  <2>1. CASE table[q][b] = None
    BY <1>1, <2>1 DEF Seen
  <2>2. CASE table[q][b] # None
    <3>1. table[q][b] \in Phys /\ table[q][b] # table[p][a]
      BY <1>1, <1>2, <1>3, <1>6, <2>2, Fed DEF Private, Phys
    <3>2. memory'[table[q][b]] = memory[table[q][b]]
      BY <1>1, <1>4, <3>1
    <3>. QED  BY <1>1, <3>2 DEF Seen
  <2>. QED  BY <2>1, <2>2
<1>7. Sight' = [Sight EXCEPT ![p][a] = x]
  BY <1>5, <1>6, SightChanges
<1>8. Sight[p][a] # None
  BY <1>3 DEF Sight
<1>9. Abstract!Write(p, a, x)
  BY <1>1, <1>7, <1>8 DEF Abstract!Write, Sight, Seen
<1>. QED  BY <1>9 DEF Abstract!Next

(* fork gives the child what the parent sees.                              *)
LEMMA ForkForks ==
    ASSUME ProcMemAssumption, IInv, IInv', ~Starved', NEW p \in Proc, NEW c \in Proc,
           Fork(p, c)
    PROVE  Abstract!Next
<1>1. TypeOK /\ TypeOK' /\ Private /\ RecordOf(p)
  BY DEF IInv, Recorded
<1>2. p \in exists /\ c \notin exists /\ exists' = exists \cup {c}
  BY Forked
<1>3. PICK fs : Copied(p, c, fs)
  BY Forked
<1>4. /\ \A i \in Entries(p) : maps[p][i][1] \in Page /\ maps[p][i][2] \in Phys
      /\ \A i \in Entries(p) : table[p][maps[p][i][1]] = maps[p][i][2]
      /\ \A a \in Page : table[p][a] # None => \E i \in Entries(p) : maps[p][i][1] = a
  BY <1>1, Entry DEF RecordOf
<1>5. /\ fs \in [Entries(p) -> Phys]
      /\ \A i \in Entries(p) : fs[i] \in free \cup {PageZero}
      /\ \A q \in Proc \ {c}, a \in Page : table'[q][a] = table[q][a]
      /\ \A a \in Page : table[p][a] = None => table'[c][a] = None
      /\ \A i \in Entries(p) : table'[c][maps[p][i][1]] = fs[i]
  BY <1>3 DEF Copied
<1>6. /\ \A f \in Phys : (\A i \in Entries(p) : fs[i] # f) => memory'[f] = memory[f]
      /\ \A i \in Entries(p) : fs[i] # PageZero => memory'[fs[i]] = memory[maps[p][i][2]]
  BY <1>3 DEF Copied
<1>7. \A i \in Entries(p) : fs[i] # PageZero /\ fs[i] \in free
  BY <1>4, <1>5 DEF Starved
<1>8. ASSUME NEW q \in Proc \ {c}, NEW a \in Page PROVE Seen(q, a)' = Seen(q, a)
  <2>1. CASE table[q][a] = None
    BY <1>5, <2>1 DEF Seen
  <2>2. CASE table[q][a] # None
    <3>1. table'[q][a] = table[q][a]
      BY <1>5
    <3>2. table[q][a] \in Frame
      BY <1>1, <2>2, <3>1 DEF Starved, TypeOK, Phys
    <3>3. \A i \in Entries(p) : fs[i] # table[q][a]
      BY <1>1, <1>7, <3>2 DEF Private
    <3>4. memory'[table[q][a]] = memory[table[q][a]]
      BY <1>6, <3>2, <3>3 DEF Phys
    <3>. QED  BY <3>1, <3>4 DEF Seen
  <2>. QED  BY <2>1, <2>2
<1>9. ASSUME NEW a \in Page PROVE Seen(c, a)' = Seen(p, a)
  <2>1. CASE table[p][a] = None
    BY <1>5, <2>1 DEF Seen
  <2>2. CASE table[p][a] # None
    <3>1. PICK i \in Entries(p) : maps[p][i][1] = a
      BY <1>4, <2>2
    <3>2. /\ table'[c][a] = fs[i] /\ table[p][a] = maps[p][i][2]
          /\ memory'[fs[i]] = memory[maps[p][i][2]]
      BY <1>4, <1>5, <1>6, <1>7, <3>1
    <3>3. fs[i] # None
      BY <1>5, <1>7 DEF Phys, ProcMemAssumption
    <3>. QED  BY <2>2, <3>2, <3>3 DEF Seen
  <2>. QED  BY <2>1, <2>2
<1>10. Sight' = [Sight EXCEPT ![c] = Sight[p]]
  BY <1>8, <1>9 DEF Sight
<1>11. Abstract!Fork(p, c)
  BY <1>2, <1>10 DEF Abstract!Fork, Sight, Seen
<1>. QED  BY <1>11 DEF Abstract!Next

(* As long as the heap lasts, processes have private memory: every step is *)
(* a step of PrivateMemory or leaves what processes see as it is (os.c     *)
(* 94-115, uproc.c 27-44).                                                 *)
THEOREM Refinement == Spec => ImplementsPrivateMemory
<1>1. Init => Abstract!Init
  BY DEF Init, Abstract!Init
<1>2. IInv /\ IInv' /\ [Next]_vars => [Starved' \/ Abstract!Next]_(Abstract!vars)
  <2> SUFFICES ASSUME IInv, IInv', [Next]_vars, ~Starved'
               PROVE  Abstract!Next \/ UNCHANGED Abstract!vars
    OBVIOUS
  <2>1. ASSUME NEW p \in Proc, NEW a \in Page, PageFault(p, a)
        PROVE  Abstract!Next \/ UNCHANGED Abstract!vars
    BY <2>1, FaultTouches, ProcMemAssumption
  <2>2. ASSUME NEW p \in Proc, NEW a \in Page, NEW x \in Value, Write(p, a, x)
        PROVE  Abstract!Next
    BY <2>2, WriteWrites, ProcMemAssumption
  <2>3. ASSUME NEW p \in Proc, NEW c \in Proc, Fork(p, c) PROVE Abstract!Next
    BY <2>3, ForkForks, ProcMemAssumption
  <2>4. CASE UNCHANGED vars
    BY <2>4 DEF vars, Abstract!vars
  <2>. QED  BY <2>1, <2>2, <2>3, <2>4 DEF Next
<1>. QED  BY <1>1, <1>2, Invariant, PTL DEF Spec, ImplementsPrivateMemory
=============================================================================
