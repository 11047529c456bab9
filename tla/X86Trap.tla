------------------------------- MODULE X86Trap -------------------------------
(***************************************************************************)
(* Traps and contexts of one 32-bit x86 processor, word by word: trap32.S, *)
(* cte.c and ucontext of vme.c under abstract-machine/am/src/x86/qemu.     *)
(* A processor saves a frame on the stack of what it interrupts, the       *)
(* kernel's handler picks a context to go on with, and __am_iret takes it  *)
(* apart, moving part of it when it returns within the kernel.             *)
(***************************************************************************)
EXTENDS Integers, Sequences, FiniteSets

CONSTANTS
    Kernel, User,       \* threads: positive integers
    StackWords,         \* length of a kernel stack
    UserEnd             \* uvm_area.end

\* Segment selectors, and addresses of code, arguments and page directories.
KCODE == 1
KDATA == 2
UCODE == 3
UDATA == 4
Start == 50
Panic == 51
Entry(t) == 60 + t
Arg(t) == 70 + t
PageDir(t) == 80 + t

Threads == Kernel \cup User
End(t) == t * StackWords

\* Stacks one after another, each with room for what a thread pushes, three
\* words, and for the frame of a trap.
ASSUME TrapAssumption ==
    /\ Kernel \cap User = {} /\ Cardinality(Threads) \in Nat /\ Threads = 1 .. Cardinality(Threads)
    /\ StackWords \in Nat /\ StackWords >= 23
    /\ UserEnd \in Int

VARIABLES
    words,      \* memory of the kernel stacks
    reg,        \* registers of the processor
    esp0,       \* kernel stack in the task state segment
    step,       \* "run", "trapped" or "return"
    tf,         \* address of the trap frame, or of the context to return to
    thread,     \* the handler's current thread
    ctxOf,      \* the handler's saved contexts
    own         \* what each thread left: registers, and stack up to its end

trapVars == <<words, reg, esp0, step, tf, thread, ctxOf, own>>

\* struct Context, then what struct trap_frame adds.
Fields == <<"cr3", "ds", "eax", "ebx", "ecx", "edx", "esp0", "esi", "edi", "ebp",
            "eip", "cs", "eflags", "esp", "ss3">>
CtxWords == Len(Fields)
Slot(f) == (CHOOSE i \in 1 .. CtxWords : Fields[i] = f) - 1
FrameWords == CtxWords + 7

Regs == {"eax", "ebx", "ecx", "edx", "esi", "edi", "ebp", "ds", "esp", "eip", "cs", "eflags", "cr3"}

Put(m, a, seq) == [x \in DOMAIN m |-> IF x \in a .. a + Len(seq) - 1 THEN seq[x - a + 1] ELSE m[x]]

\* What the contexts of new threads hold, at the end of their stacks.
kcontext(t) == [f \in {Fields[i] : i \in 1 .. CtxWords} |->
    CASE f = "ds" -> KDATA [] f = "cs" -> KCODE [] f = "eip" -> Start [] f = "eflags" -> 1
      [] f = "esp" -> End(t) [] f = "eax" -> Arg(t) [] f = "ebx" -> Entry(t) [] OTHER -> 0]
ucontext(t) == [f \in {Fields[i] : i \in 1 .. CtxWords} |->
    CASE f = "ds" -> UDATA [] f = "cs" -> UCODE [] f = "ss3" -> UDATA [] f = "eip" -> Entry(t)
      [] f = "eflags" -> 1 [] f = "esp" -> UserEnd [] f = "esp0" -> End(t)
      [] f = "cr3" -> PageDir(t) [] OTHER -> 0]

Created(t) == IF t \in User THEN ucontext(t) ELSE kcontext(t)
NewCtx(t) == End(t) - CtxWords
Registers(c) == [r \in Regs |-> c[r]]
InUser(r) == r.cs = UCODE

StackOf(m, r, t) == IF InUser(r) THEN <<>> ELSE [i \in 1 .. End(t) - r.esp |-> m[r.esp + i - 1]]

\* Thread 1 is running; the others have never run.
TrapInit ==
    /\ 1 \in Kernel
    /\ words = [a \in 0 .. StackWords * Cardinality(Threads) - 1 |->
                  LET t == (a \div StackWords) + 1 IN
                  IF a >= NewCtx(t) THEN Created(t)[Fields[a - NewCtx(t) + 1]] ELSE 0]
    /\ reg = Registers(kcontext(1)) /\ esp0 = 0
    /\ step = "run" /\ tf = 0 /\ thread = 1
    /\ ctxOf = [t \in Threads |-> NewCtx(t)]
    /\ own = [t \in Threads |-> [reg |-> Registers(Created(t)), stack |-> <<>>]]

\* The running thread computes, pushes and pops; a new kernel thread starts
\* by pushing its argument and a return address (__am_kcontext_start).
Executes(r, pushed) ==
    /\ step = "run"
    /\ reg' = r
    /\ words' = IF InUser(r) THEN words ELSE Put(words, r.esp, pushed)
    /\ own' = [own EXCEPT ![thread] = [reg |-> r, stack |-> StackOf(words', r, thread)]]
    /\ UNCHANGED <<esp0, step, tf, thread, ctxOf>>

kcontext_start ==
    /\ reg.eip = Start
    /\ Executes([reg EXCEPT !.esp = @ - 2, !.eip = reg.ebx], <<Panic, reg.eax>>)

Compute(r) == reg.eip # Start /\ Executes([reg EXCEPT ![r] = (@ + 1) % 2], <<>>)
PushWord == /\ reg.eip = Entry(thread)
        /\ Executes([reg EXCEPT !.esp = @ - 1, !.eip = @ + 40], <<reg.eax>>)
PopWord == /\ reg.eip = Entry(thread) + 40
       /\ Executes([reg EXCEPT !.esp = @ + 1, !.eip = @ - 40], <<>>)

\* The processor's part of a trap, then __am_irq##id and trap.
trap(irq) ==
    LET hw == <<reg.eip, reg.cs, reg.eflags>> \o (IF InUser(reg) THEN <<reg.esp, UDATA>> ELSE <<>>)
        base == (IF InUser(reg) THEN esp0 ELSE reg.esp) - Len(hw) - 2 - CtxWords
    IN  /\ step = "run" /\ reg.eflags = 1
        /\ words' = Put(Put(words, base + CtxWords, <<irq, 0>> \o hw), base,
                        <<0, reg.ds, reg.eax, reg.ebx, reg.ecx, reg.edx, 0, reg.esi, reg.edi, reg.ebp>>)
        /\ tf' = base /\ step' = "trapped"
        /\ reg' = [reg EXCEPT !.cs = KCODE, !.ds = KDATA, !.eflags = 0, !.esp = base]
        /\ UNCHANGED <<esp0, thread, ctxOf, own>>

irq_handle(n) ==
    LET pushed(k) == words[tf + CtxWords + 2 + k]       \* eip, cs, eflags, esp
        esp == IF pushed(1) = UCODE THEN pushed(3) ELSE tf + FrameWords - 2
        saved == Put(Put(words, tf + Slot("eip"), <<pushed(0), pushed(1), pushed(2), esp, UDATA>>),
                     tf, <<reg.cr3>>)
        filled == Put(saved, tf + Slot("esp0"), <<esp0>>)
        kept == [ctxOf EXCEPT ![thread] = tf]
        ret == kept[n]
    IN  /\ step = "trapped"
        /\ words' = filled
        /\ ctxOf' = kept /\ thread' = n
        /\ tf' = ret /\ step' = "return"
        /\ IF filled[ret + Slot("cr3")] # 0
           THEN /\ reg' = [reg EXCEPT !.cr3 = filled[ret + Slot("cr3")]]
                /\ esp0' = filled[ret + Slot("esp0")]
           ELSE UNCHANGED <<reg, esp0>>
        /\ UNCHANGED own

\* The kernel return moves six words of its context up to where it pops them.
Move(m, to, i) == [m EXCEPT ![to + i] = m[tf + Slot("esi") + i]]

\* Fault: the word that is overwritten last is moved first.
MoveUp_Upwards(m, to) ==
    LET mv(w, i) == Move(w, to, i) IN mv(mv(mv(mv(mv(mv(m, 0), 1), 2), 3), 4), 5)

\* eflags first, so that none is overwritten before it is moved.
MoveUp(m, to) ==
    LET mv(w, i) == Move(w, to, i) IN mv(mv(mv(mv(mv(mv(m, 5), 4), 3), 2), 1), 0)

iret ==
    LET in(m, f) == m[tf + Slot(f)]
        newesp == in(words, "esp")
        moved == MoveUp(words, newesp - 6)
        popped == [reg EXCEPT !.ds = in(words, "ds"), !.eax = in(words, "eax"), !.ebx = in(words, "ebx"),
                              !.ecx = in(words, "ecx"), !.edx = in(words, "edx"), !.esp = newesp]
    IN  /\ step = "return" /\ step' = "run"
        /\ IF in(words, "cs") = KCODE
           THEN /\ words' = moved
                /\ reg' = [popped EXCEPT !.esi = moved[newesp - 6], !.edi = moved[newesp - 5],
                              !.ebp = moved[newesp - 4], !.eip = moved[newesp - 3],
                              !.cs = moved[newesp - 2], !.eflags = moved[newesp - 1]]
           ELSE /\ UNCHANGED words
                /\ reg' = [popped EXCEPT !.esi = in(words, "esi"), !.edi = in(words, "edi"),
                              !.ebp = in(words, "ebp"), !.eip = in(words, "eip"),
                              !.cs = in(words, "cs"), !.eflags = in(words, "eflags")]
        /\ UNCHANGED <<esp0, tf, thread, ctxOf, own>>

TrapNext ==
    \/ kcontext_start \/ PushWord \/ PopWord
    \/ Compute("edi")
    \/ trap(32)
    \/ \E n \in Threads : irq_handle(n)
    \/ iret

TrapSpec == TrapInit /\ [][TrapNext]_trapVars
-----------------------------------------------------------------------------

(* Whatever the handler switches between, a thread that runs has the       *)
(* registers and the stack it was interrupted with, although its context   *)
(* lies just below its stack and is moved over itself on the way back      *)
(* (cte.c:19-106, trap32.S:34-92); a user thread also has its own page     *)
(* directory and its own kernel stack to be interrupted on.                *)
ContextsIntact ==
    step = "run" =>
        /\ [reg EXCEPT !.cr3 = 0] = [own[thread].reg EXCEPT !.cr3 = 0]
        /\ StackOf(words, reg, thread) = own[thread].stack
        /\ thread \in User => reg.cr3 = PageDir(thread) /\ esp0 = End(thread)
=============================================================================
