--------------------------- MODULE AddressSpaces ----------------------------
(***************************************************************************)
(* What an address space promises: each one has a mapping of its own, that *)
(* only its own map and unmap change, beside the mapping of the kernel     *)
(* that all of them share and none changes.                                *)
(***************************************************************************)
CONSTANTS Space, VA, KernelVA, Frame, Kernel, NoFrame

VARIABLES view, stopped     \* [space -> [VA -> frame]] of the spaces in use; panic

New == [va \in VA |-> IF va \in KernelVA THEN Kernel[va] ELSE NoFrame]

Init == view = [s \in {} |-> New] /\ stopped = FALSE

Protect(s) ==
    /\ s \notin DOMAIN view
    /\ view' = [t \in (DOMAIN view) \cup {s} |-> IF t = s THEN New ELSE view[t]]
    /\ UNCHANGED stopped

Unprotect(s) ==
    /\ s \in DOMAIN view
    /\ view' = [t \in (DOMAIN view) \ {s} |-> view[t]]
    /\ UNCHANGED stopped

Map(s, va, pa) ==
    /\ s \in DOMAIN view /\ va \notin KernelVA /\ view[s][va] = NoFrame
    /\ view' = [view EXCEPT ![s][va] = pa]
    /\ UNCHANGED stopped

Unmap(s, va) ==
    /\ s \in DOMAIN view /\ va \notin KernelVA /\ view[s][va] # NoFrame
    /\ view' = [view EXCEPT ![s][va] = NoFrame]
    /\ UNCHANGED stopped

Panic == stopped' = TRUE /\ UNCHANGED view

Next ==
    /\ ~stopped
    /\ \/ Panic
       \/ \E s \in Space : \/ Protect(s) \/ Unprotect(s)
                           \/ \E va \in VA : Unmap(s, va) \/ \E pa \in Frame : Map(s, va, pa)

Spec == Init /\ [][Next]_<<view, stopped>>
=============================================================================
