------------------------------- MODULE X86Vme -------------------------------
(***************************************************************************)
(* Address spaces of the x86 machine, abstract-machine/am/src/x86/qemu/    *)
(* vme.c: page tables of ptlevels levels, whose pages come from the        *)
(* kernel's allocator.  A table is a function of its indices; an AddrSpace *)
(* is a table of one entry, its pointer to the first table.  Whether a page *)
(* may be written is left out.                                             *)
(***************************************************************************)
EXTENDS Integers, FiniteSetsExt

CONSTANTS
    ptlevels,
    PtIndex,        \* indices of a table
    UserTop,        \* the indices of the first table that lie in uvm_area
    PageFrame,      \* the page frames the allocator has
    UserFrame,      \* frames a user may be given
    AddrSpace,      \* AddrSpace objects, no page frames
    KernelAs        \* the one on the stack of vme_init

NoFrame == 0

\* Two levels, or four; some of the first table is for users, some not.
ASSUME VmeAssumption ==
    /\ ptlevels \in Nat /\ ptlevels >= 2
    /\ PtIndex \subseteq Nat /\ IsFiniteSet(PtIndex)
    /\ UserTop \subseteq PtIndex /\ UserTop # {} /\ UserTop # PtIndex
    /\ PageFrame \subseteq Nat \ {NoFrame} /\ NoFrame \notin UserFrame
    /\ KernelAs \notin AddrSpace /\ NoFrame \notin AddrSpace \cup {KernelAs}
    /\ PageFrame \cap (AddrSpace \cup {KernelAs}) = {}

VA == [1 .. ptlevels -> PtIndex]
KernelVA == {va \in VA : va[1] \notin UserTop}

\* The frame kernel address va is mapped to: itself.
Identity(va) == -(100 + 10 * va[1] + va[ptlevels])

VARIABLES
    tables,         \* the tables, and the AddrSpace objects: [owner -> [PtIndex -> entry]]
    avail,          \* frames the allocator has left
    kpt,            \* the first table of the kernel, 0 before vme_init
    live,           \* spaces between protect and unprotect
    vmePanicked

vmeVars == <<tables, avail, kpt, live, vmePanicked>>

Pte(base, u) == [p |-> TRUE, u |-> u, base |-> base]
Absent == [p |-> FALSE, u |-> FALSE, base |-> NoFrame]
Zeroed == [i \in PtIndex |-> Absent]

VmeInit ==
    /\ tables = [x \in PageFrame \cup AddrSpace \cup {KernelAs} |-> Zeroed]
    /\ avail = PageFrame /\ kpt = NoFrame /\ live = {} /\ vmePanicked = FALSE

-----------------------------------------------------------------------------
(* Walks work on a state st = [mem, avail, ok].                            *)

\* Fault: the page is not cleared.
pgallocz_Dirty(st, t, i, u) ==
    IF st.avail = {} THEN [st EXCEPT !.ok = FALSE]
    ELSE LET pg == Min(st.avail)
         IN  [mem |-> [st.mem EXCEPT ![t][i] = Pte(pg, u)], avail |-> st.avail \ {pg}, ok |-> st.ok]

\* A zeroed page, put into entry i of table t; ok tells whether there was one.
pgallocz(st, t, i, u) ==
    IF st.avail = {} THEN [st EXCEPT !.ok = FALSE]
    ELSE LET pg == Min(st.avail)
         IN  [mem |-> [st.mem EXCEPT ![pg] = Zeroed, ![t][i] = Pte(pg, u)],
              avail |-> st.avail \ {pg}, ok |-> st.ok]

Pointer == CHOOSE i \in PtIndex : \A j \in PtIndex : i <= j     \* of an AddrSpace

\* Level 0 is the AddrSpace.
indexof(va, level) == IF level = 0 THEN Pointer ELSE va[level]

\* One level down from w = [st, table], with a table made if there is none.
Descend(w, level, va, u) ==
    IF ~w.st.ok THEN w
    ELSE LET i == indexof(va, level)
             st == IF w.st.mem[w.table][i].p THEN w.st ELSE pgallocz(w.st, w.table, i, u)
         IN  [st |-> st, table |-> st.mem[w.table][i].base]

\* The table of the last level, with those missing on the way added.
ptwalk(st, as, va, u) ==
    LET w[n \in 0 .. ptlevels] == IF n = 0 THEN [st |-> st, table |-> as] ELSE Descend(w[n - 1], n - 1, va, u)
    IN  w[ptlevels]

SetEntry(w, va, e) == [w.st EXCEPT !.mem[w.table][va[ptlevels]] = e]

CurrentTables == [mem |-> tables, avail |-> avail, ok |-> TRUE]
VmePanic == vmePanicked' = TRUE /\ UNCHANGED <<tables, avail, kpt, live>>
Become(st) == tables' = st.mem /\ avail' = st.avail

\* The kernel's tables: every address of its areas maps to itself.
KernelOrder ==
    CHOOSE f \in [1 .. Cardinality(KernelVA) -> KernelVA] :
        \A va \in KernelVA : \E k \in 1 .. Cardinality(KernelVA) : f[k] = va

MapToItself(st, va) ==
    LET w == ptwalk(st, KernelAs, va, FALSE)
    IN  IF ~st.ok THEN st ELSE IF ~w.st.ok THEN w.st ELSE SetEntry(w, va, Pte(Identity(va), FALSE))

IdentityMap(st) ==
    LET done[k \in 0 .. Cardinality(KernelVA)] ==
          IF k = 0 THEN st ELSE MapToItself(done[k - 1], KernelOrder[k])
    IN  done[Cardinality(KernelVA)]

vme_init ==
    /\ ~vmePanicked /\ kpt = NoFrame
    /\ LET st == IdentityMap(CurrentTables)
       IN  IF ~st.ok THEN VmePanic
           ELSE Become(st) /\ kpt' = st.mem[KernelAs][Pointer].base /\ UNCHANGED <<live, vmePanicked>>

VmeReady == ~vmePanicked /\ kpt # NoFrame

\* A first table with the kernel's entries in it.
protect_as(s) ==
    /\ VmeReady /\ s \notin live
    /\ LET st == pgallocz(CurrentTables, s, Pointer, TRUE)
           upt == st.mem[s][Pointer].base
       IN  IF ~st.ok THEN VmePanic
           ELSE /\ Become([st EXCEPT !.mem[upt] =
                              [i \in PtIndex |-> IF i \in UserTop THEN Absent ELSE tables[kpt][i]]])
                /\ live' = live \cup {s}
                /\ UNCHANGED <<kpt, vmePanicked>>

\* The tables freed: those reached by entries of the user.
teardown(s) ==
    LET at[n \in 0 .. ptlevels] ==
          IF n = 0 THEN {s}
          ELSE UNION {{tables[t][i].base : i \in {j \in PtIndex : tables[t][j].p /\ tables[t][j].u}} : t \in at[n - 1]}
    IN  UNION {at[n] : n \in 1 .. ptlevels}

unprotect_as(s) ==
    /\ VmeReady /\ s \in live
    /\ avail' = avail \cup teardown(s)
    /\ live' = live \ {s}
    /\ UNCHANGED <<tables, kpt, vmePanicked>>

\* map with a frame, or with MMAP_NONE if pa is NoFrame.
map_as(s, va, pa) ==
    /\ VmeReady /\ s \in live
    /\ LET w == ptwalk(CurrentTables, s, va, TRUE)
       IN  IF \/ va \in KernelVA \/ ~w.st.ok
              \/ w.st.mem[w.table][va[ptlevels]].p <=> pa # NoFrame
           THEN VmePanic
           ELSE /\ Become(SetEntry(w, va, IF pa = NoFrame THEN Absent ELSE Pte(pa, TRUE)))
                /\ UNCHANGED <<kpt, live, vmePanicked>>

VmeNext ==
    \/ vme_init
    \/ \E s \in AddrSpace : protect_as(s) \/ unprotect_as(s)
    \/ \E s \in AddrSpace, va \in VA, pa \in UserFrame \cup {NoFrame} : map_as(s, va, pa)

VmeSpec == VmeInit /\ [][VmeNext]_vmeVars
-----------------------------------------------------------------------------

\* What the processor finds for va in space s, with mem in memory.
Translate(mem, s, va) ==
    LET found[n \in 0 .. ptlevels + 1] ==
          IF n = 0 THEN s
          ELSE IF found[n - 1] = NoFrame THEN NoFrame
          ELSE LET e == mem[found[n - 1]][indexof(va, n - 1)] IN IF e.p THEN e.base ELSE NoFrame
    IN  found[ptlevels + 1]

view == [s \in live |-> [va \in VA |-> Translate(tables, s, va)]]

Separate == INSTANCE AddressSpaces WITH
    Space <- AddrSpace, Frame <- UserFrame, Kernel <- [va \in KernelVA |-> Identity(va)], stopped <- vmePanicked

\* The tables below pt, the first of a space.
Tables(pt) ==
    LET at[n \in 1 .. ptlevels] ==
          IF n = 1 THEN {pt}
          ELSE UNION {{tables[t][i].base : i \in {j \in PtIndex : tables[t][j].p}} : t \in at[n - 1]}
    IN  UNION {at[n] : n \in 1 .. ptlevels}

TablesAccounted ==
    ~vmePanicked /\ kpt # NoFrame =>
        PageFrame \ avail = Tables(kpt) \cup UNION {Tables(tables[s][Pointer].base) : s \in live}

(* The tables implement separate address spaces (vme.c:77-156): no map in  *)
(* one space, and no table added or freed for it, shows in another or in   *)
(* the kernel's part, which all see alike.  Every page taken for a table   *)
(* is in the kernel's tables or in those of a space in use, and none of    *)
(* these has been given back: unprotect frees all of a space's own tables  *)
(* and none that it shares.                                                *)
SpacesSound == Separate!Spec /\ []TablesAccounted
=============================================================================
