-------------------------------- MODULE Heap --------------------------------
(***************************************************************************)
(* What pmm->alloc and pmm->free promise: alloc hands out memory inside    *)
(* the heap that no live allocation overlaps, aligned to its size (a power *)
(* of two); free makes it available again.  alloc may always give up.      *)
(***************************************************************************)
EXTENDS Naturals

CONSTANTS HeapStart, HeapEnd, Sizes

VARIABLE allocated      \* the live allocations, as pairs <<address, size>>

Disjoint(a, b) == a[1] + a[2] <= b[1] \/ b[1] + b[2] <= a[1]

Init == allocated = {}

Alloc(p, n) ==
    /\ HeapStart <= p /\ p + n <= HeapEnd /\ p % n = 0
    /\ \A b \in allocated : Disjoint(<<p, n>>, b)
    /\ allocated' = allocated \cup {<<p, n>>}

Free(b) == allocated' = allocated \ {b}

Next ==
    \/ \E p \in HeapStart .. HeapEnd, n \in Sizes : Alloc(p, n)
    \/ \E b \in allocated : Free(b)

Spec == Init /\ [][Next]_allocated
=============================================================================
