------------------------------ MODULE NativeVme -----------------------------
(***************************************************************************)
(* Address spaces of the native machine, abstract-machine/am/src/native/   *)
(* vme.c: a space is a list of page maps, found by address with a hash     *)
(* table; switching to it maps its pages into the process that plays the   *)
(* processor, and the pages of the space left out of it.                   *)
(***************************************************************************)
EXTENDS Integers, FiniteSets

CONSTANTS Processes, HostSpaces, UserVA, Frames, Nil

ASSUME NativeAssumption == Nil \notin HostSpaces /\ Nil \notin UserVA

VARIABLES
    heads,          \* [space -> the address its list begins with], of the spaces made
    pps,            \* page maps: [<<space, va>> -> [pa, next, is_mapped]]
    vm_head,        \* [cpu -> the space it has switched to, or Nil]
    host            \* [cpu -> [va -> frame]], what mmap has put there

nativeVars == <<heads, pps, vm_head, host>>

NativeInit ==
    /\ heads = [s \in {} |-> Nil] /\ pps = [p \in {} |-> Nil]
    /\ vm_head = [c \in Processes |-> Nil]
    /\ host = [c \in Processes |-> [va \in {} |-> Nil]]

protect(s) ==
    /\ s \notin DOMAIN heads
    /\ heads' = [t \in (DOMAIN heads) \cup {s} |-> IF t = s THEN Nil ELSE heads[t]]
    /\ UNCHANGED <<pps, vm_head, host>>

\* The addresses mapped in a space, and those its list leads to from its head.
Made(s) == {va \in UserVA : <<s, va>> \in DOMAIN pps}
Follows(s, X) == \A va \in X : pps[<<s, va>>].next \in X \cup {Nil}
Pages(s) ==
    IF s = Nil THEN {}
    ELSE {va \in Made(s) : \A X \in SUBSET Made(s) :
            heads[s] \in X \cup {Nil} /\ Follows(s, X) => va \in X}

\* Fault: the flags are not kept.
Mark_Never(p, s, vas, m) == p

Mark(p, s, vas, m) == [q \in DOMAIN p |-> IF q[1] = s /\ q[2] \in vas THEN [p[q] EXCEPT !.is_mapped = m] ELSE p[q]]

\* __am_switch: out with the mapped pages of the space left, in with all those
\* of the other.
Switch(c, s) ==
    /\ s \in (DOMAIN heads) \cup {Nil} /\ s # vm_head[c]
    /\ LET now == vm_head[c]
           out == {va \in Pages(now) : pps[<<now, va>>].is_mapped}
           in == Pages(s)
       IN  /\ host' = [host EXCEPT ![c] =
                        [va \in ((DOMAIN @) \ out) \cup in |-> IF va \in in THEN pps[<<s, va>>].pa ELSE @[va]]]
           /\ pps' = Mark(Mark(pps, now, out, FALSE), s, in, TRUE)
    /\ vm_head' = [vm_head EXCEPT ![c] = s]
    /\ UNCHANGED heads

\* map on processor c: a new page map at the head of the list, put in place at
\* once in the space the processor is in.
map(c, s, va, pa) ==
    LET here == vm_head[c] = s
        pp == [pa |-> pa, next |-> heads[s], is_mapped |-> here]
    IN  /\ pps' = [q \in (DOMAIN pps) \cup {<<s, va>>} |-> IF q = <<s, va>> THEN pp ELSE pps[q]]
        /\ heads' = [heads EXCEPT ![s] = va]
        /\ host' = IF here
                   THEN [host EXCEPT ![c] = [x \in (DOMAIN @) \cup {va} |-> IF x = va THEN pa ELSE @[x]]]
                   ELSE host
        /\ UNCHANGED vm_head

\* What a kernel does: a space is on one processor at a time, which is the one
\* that maps into it then, and a page is mapped once.
Elsewhere(c, s) == \E d \in Processes \ {c} : vm_head[d] = s /\ s # Nil

NativeNext ==
    \/ \E s \in HostSpaces : protect(s)
    \/ \E c \in Processes, s \in HostSpaces \cup {Nil} : ~Elsewhere(c, s) /\ Switch(c, s)
    \/ \E c \in Processes, s \in DOMAIN heads, va \in UserVA, pa \in Frames :
         ~Elsewhere(c, s) /\ <<s, va>> \notin DOMAIN pps /\ map(c, s, va, pa)

NativeSpec == NativeInit /\ [][NativeNext]_nativeVars
-----------------------------------------------------------------------------

(* A processor has mapped exactly the pages of the space it is in, with    *)
(* their frames: nothing is left over from a space it was in, nothing that *)
(* was mapped while the space was on no processor or on another is missing *)
(* (vme.c:54-121).                                                         *)
HostShowsSpace ==
    \A c \in Processes :
        LET s == vm_head[c]
            mine == IF s = Nil THEN {} ELSE Made(s)
        IN  DOMAIN host[c] = mine /\ \A va \in mine : host[c][va] = pps[<<s, va>>].pa
=============================================================================
