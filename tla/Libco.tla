------------------------------- MODULE Libco -------------------------------
(***************************************************************************)
(* The coroutine library libco/co.c: a ring of coroutines, main among      *)
(* them, and co_start, co_wait and co_yield, which switches to the next    *)
(* one in the ring.                                                        *)
(*                                                                         *)
(* co_yield does not skip a dead coroutine: it makes it current, and then  *)
(* returns on the stack that called it.  So current and the stack that     *)
(* executes are two variables here.  A jump to a context whose call has    *)
(* since returned resumes at that call, with the locals of the frame as    *)
(* they are (in memory) or as they were (in registers that setjmp saved).  *)
(*                                                                         *)
(* The program is one of any number of shapes: main starts coroutines and  *)
(* waits for them, oldest first; each coroutine yields after each of its   *)
(* iterations, and its number of iterations is left open.                  *)
(***************************************************************************)
EXTENDS Naturals, FiniteSets

CONSTANTS
    Co,             \* the coroutines that may be started
    Main, Null,
    MaxInRing,      \* main starts no more when this many are not yet waited for
    MaxIterations   \* bound on the iterations of a coroutine

All == Co \cup {Main}

ASSUME LibcoAssumption ==
    /\ IsFiniteSet(Co) /\ Main \notin Co /\ Null \notin All
    /\ MaxInRing \in Nat \ {0} /\ MaxIterations \in Nat \ {0}

VARIABLES
    status,     \* "NONE", then that of the code; "FREED" is memory given back
    next, front, waiter,
    coContext,  \* [All -> saved context or Null]
    current,
    stack,      \* the coroutine on whose stack the machine executes
    local,      \* [All -> ...]: for main the coroutine it waits for, else the
                \* iterations begun
    coPc,       \* "code", "wait" (main, in the loop of co_wait), "exit", or
                \* "crash": wrapper has returned, to an address nobody stored
    ran         \* [Co -> Nat]: history, the iterations a coroutine executed

links == <<next, front, waiter>>
coVars == <<status, next, front, waiter, coContext, current, stack, local, coPc, ran>>

\* The coroutines linked in.
InRing == {a \in All : status[a] \notin {"NONE", "FREED"}}

\* ready, the constructor: main is a coroutine.
CoInit ==
    /\ status = [a \in All |-> IF a = Main THEN "RUNNING" ELSE "NONE"]
    /\ next = [a \in All |-> IF a = Main THEN Main ELSE Null]
    /\ front = [a \in All |-> IF a = Main THEN Main ELSE Null]
    /\ waiter = [a \in All |-> Null]
    /\ coContext = [a \in All |-> Null]
    /\ current = Main /\ stack = Main
    /\ local = [a \in All |-> IF a = Main THEN Null ELSE 0]
    /\ coPc = "code"
    /\ ran = [c \in Co |-> 0]

-----------------------------------------------------------------------------
(* co_yield                                                                *)

\* What setjmp saves on the stack that executes.
Here(loc) == [stack |-> stack, local |-> loc[stack]]

\* longjmp: the locals of the resumed frame are in memory or in registers.
Resume(k, loc) ==
    /\ stack' = k.stack
    /\ \E x \in {k.local, loc[k.stack]} : local' = [loc EXCEPT ![k.stack] = x]

\* setjmp(current->coContext); current = current->next; and a jump to it, unless
\* it is dead.  st and loc are the statuses and locals at the call; dead says
\* that the call is wrapper's, which must not return.
CoYield(st, loc, dead) ==
    LET n == next[current]
        ctx == [coContext EXCEPT ![current] = Here(loc)]
    IN  /\ current' = n /\ coContext' = ctx
        /\ status' = [st EXCEPT ![n] = IF @ = "NEW" THEN "RUNNING" ELSE @]
        /\ CASE st[n] = "NEW" -> stack' = n /\ local' = loc
             [] st[n] \in {"RUNNING", "WAITING"} -> Resume(ctx[n], loc)
             [] OTHER -> stack' = stack /\ local' = loc
        /\ coPc' = CASE st[n] = "DEAD" -> IF dead THEN "crash" ELSE coPc
                   [] OTHER -> IF stack' = Main THEN "wait" ELSE "code"

-----------------------------------------------------------------------------
(* main                                                                    *)

\* co_start links the new coroutine in after current.
CoStart(c) ==
    /\ stack = Main /\ coPc = "code"
    /\ status[c] = "NONE" /\ Cardinality(InRing \ {Main}) < MaxInRing
    /\ status' = [status EXCEPT ![c] = "NEW"]
    /\ next' = [next EXCEPT ![c] = next[current], ![current] = c]
    /\ front' = [front EXCEPT ![c] = current, ![next[current]] = c]
    /\ UNCHANGED <<waiter, coContext, current, stack, local, coPc, ran>>

\* co_wait, up to its loop.
CoWait(c) ==
    /\ status' = [status EXCEPT ![current] = "WAITING"]
    /\ waiter' = [waiter EXCEPT ![c] = current]
    /\ local' = [local EXCEPT ![Main] = c]
    /\ coPc' = "wait"
    /\ UNCHANGED <<next, front, coContext, current, stack, ran>>

\* main waits for the coroutine it started first.
MainWaits ==
    /\ stack = Main /\ coPc = "code" /\ next[Main] # Main
    /\ CoWait(front[Main])

\* Fault: the loop of co_wait does not yield.
WaitLoop_Spins ==
    /\ stack = Main /\ coPc = "wait" /\ status[local[Main]] # "DEAD"
    /\ UNCHANGED coVars

\* Fault: co_wait yields once and takes it that the coroutine has finished.
WaitLoop_Once ==
    /\ stack = Main /\ coPc = "wait" /\ status[local[Main]] # "DEAD"
    /\ IF next[current] \in InRing /\ status[next[current]] = "DEAD"
       THEN /\ current' = next[current] /\ coPc' = "code"
            /\ UNCHANGED <<status, coContext, stack, local>>
       ELSE CoYield(status, local, FALSE)
    /\ UNCHANGED <<links, ran>>

\* while (co->status != CO_DEAD) co_yield();
WaitLoop ==
    /\ stack = Main /\ coPc = "wait" /\ status[local[Main]] # "DEAD"
    /\ CoYield(status, local, FALSE)
    /\ UNCHANGED <<links, ran>>

\* The rest of co_wait: the coroutine is unlinked and freed.
WaitDone ==
    LET c == local[Main]
    IN  /\ stack = Main /\ coPc = "wait" /\ status[c] = "DEAD"
        /\ status' = [status EXCEPT ![waiter[c]] = "RUNNING", ![c] = "FREED"]
        /\ next' = [next EXCEPT ![front[c]] = next[c]]
        /\ front' = [front EXCEPT ![next[c]] = front[c]]
        /\ local' = [local EXCEPT ![Main] = Null]
        /\ coPc' = "code"
        /\ UNCHANGED <<waiter, coContext, current, stack, ran>>

\* main returns; join, the destructor, waits for whatever is left.  A program
\* leaves at most one.
Exit ==
    /\ stack = Main /\ coPc = "code" /\ Cardinality(InRing) <= 2
    /\ IF next[current] = current
       THEN coPc' = "exit" /\ UNCHANGED <<status, links, coContext, current, stack,
                                        local, ran>>
       ELSE CoWait(next[current])

-----------------------------------------------------------------------------
(* the coroutines                                                          *)

\* One iteration of func, and co_yield().
Iterate ==
    LET c == stack
    IN  /\ c # Main /\ coPc = "code" /\ local[c] < MaxIterations
        /\ ran' = [ran EXCEPT ![c] = @ + 1]
        /\ CoYield(status, [local EXCEPT ![c] = @ + 1], FALSE)
        /\ UNCHANGED links

\* func returns to wrapper, which marks the coroutine dead and yields.
Finish ==
    LET c == stack
    IN  /\ c # Main /\ coPc = "code"
        /\ CoYield([status EXCEPT ![c] = "DEAD"], local, TRUE)
        /\ UNCHANGED <<links, ran>>

CoNext ==
    \/ \E c \in Co : CoStart(c)
    \/ MainWaits \/ WaitLoop \/ WaitDone \/ Exit
    \/ Iterate \/ Finish

CoSpec == CoInit /\ [][CoNext]_coVars

\* There is one thread of control, and it goes on.
CoFairSpec == CoSpec /\ WF_coVars(CoNext)

-----------------------------------------------------------------------------
(* Properties                                                              *)

\* The ring is doubly linked, holds what was started and not waited for, and
\* neither it nor current leads to freed memory (co.c 97-101, 114-116).
RingIntact ==
    /\ current \in InRing
    /\ \A a \in InRing : /\ next[a] \in InRing /\ front[a] \in InRing
                         /\ front[next[a]] = a /\ next[front[a]] = a

\* A coroutine executes each iteration of its loop once, though the frames of
\* its calls of co_yield may be resumed more than once (co.c 122-138).
IterationsOnce == \A c \in Co : ran[c] = local[c]

\* When co_wait returns to main's code, main is current again: what co_start and
\* the next co_wait do to current, and join's assertion, rest on it (co.c 143).
MainIsCurrentAgain == stack = Main /\ coPc \in {"code", "exit"} => current = Main

\* The coroutines of one wait: the ring holds together, nothing is executed
\* twice, and main is current when it goes on (co.c: co_yield, co_wait).
CoroutinesSound == RingIntact /\ IterationsOnce /\ MainIsCurrentAgain

\* A coroutine that has finished switches away for good (M2.md).
WrapperNeverReturns == coPc # "crash"

\* Every wait returns, every coroutine finishes, and the program ends.
ProgramEnds == <>(coPc = "exit" /\ InRing = {Main})
=============================================================================
