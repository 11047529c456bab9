------------------------------- MODULE X86Smp -------------------------------
(***************************************************************************)
(* Starting and stopping the processors of the x86 machine: trm.c and      *)
(* mpe.c under abstract-machine/am/src/x86/qemu.  A processor that gets    *)
(* the INIT and STARTUP interrupts executes the jump in the boot record    *)
(* from the beginning, whatever it did before.                             *)
(***************************************************************************)
EXTENDS Integers, FiniteSets

CONSTANT ncpu

ASSUME SmpAssumption == ncpu \in Nat \ {0}

CPUs == 0 .. ncpu - 1

VARIABLES
    smpPc,      \* where each processor is
    jmp_code,   \* boot record: "none", "loader" (jmp 0x7c00) or "stop" (jmp .)
    is_ap,      \* boot record: the processor to start is not the first
    ap_ready,
    cpu,        \* loop variable of mpe_init on the first processor
    cpu_,       \* loop variable of __am_stop_the_world on each processor
    ipi,        \* processors to which a start interrupt is on its way
    inited,     \* processors whose tables and interrupt controller are set up
    entered,    \* how often each processor entered the program
    power

smpVars == <<smpPc, jmp_code, is_ap, ap_ready, cpu, cpu_, ipi, inited, entered, power>>

\* The firmware starts processor 0; the others wait to be started.
SmpInit ==
    /\ smpPc = [c \in CPUs |-> IF c = 0 THEN "loader" ELSE "off"]
    /\ jmp_code = "none" /\ is_ap = FALSE /\ ap_ready = FALSE
    /\ cpu = 1 /\ cpu_ = [c \in CPUs |-> 0]
    /\ ipi = {} /\ inited = {} /\ entered = [c \in CPUs |-> 0]
    /\ power = "on"

To(c, l) == smpPc' = [smpPc EXCEPT ![c] = l]

\* __am_lapic_bootap: the interrupts are sent, and not waited for.
Bootap(c) == ipi' = ipi \cup {c}

Deliver(c) ==
    /\ c \in ipi /\ ipi' = ipi \ {c}
    /\ To(c, "reset")
    /\ UNCHANGED <<jmp_code, is_ap, ap_ready, cpu, cpu_, inited, entered, power>>

Fetch(c) ==
    /\ smpPc[c] = "reset"
    /\ To(c, IF jmp_code = "loader" THEN "loader" ELSE "stopped")
    /\ UNCHANGED <<jmp_code, is_ap, ap_ready, cpu, cpu_, ipi, inited, entered, power>>

_start_c(c) ==
    /\ smpPc[c] = "loader"
    /\ To(c, IF is_ap THEN "othercpu" ELSE "bootcpu")
    /\ UNCHANGED <<jmp_code, is_ap, ap_ready, cpu, cpu_, ipi, inited, entered, power>>

bootcpu_init(c) ==
    /\ smpPc[c] = "bootcpu" /\ To(c, "main")
    /\ inited' = inited \cup {c}
    /\ UNCHANGED <<jmp_code, is_ap, ap_ready, cpu, cpu_, ipi, entered, power>>

mpe_init(c) ==
    /\ smpPc[c] = "main" /\ To(c, "starting")
    /\ jmp_code' = "loader" /\ cpu' = 1
    /\ UNCHANGED <<is_ap, ap_ready, cpu_, ipi, inited, entered, power>>

call_user_entry(c) == To(c, "user") /\ entered' = [entered EXCEPT ![c] = @ + 1]

StartNext(c) ==
    /\ smpPc[c] = "starting"
    /\ IF cpu < ncpu
       THEN is_ap' = TRUE /\ Bootap(cpu) /\ To(c, "waiting") /\ UNCHANGED entered
       ELSE call_user_entry(c) /\ UNCHANGED <<is_ap, ipi>>
    /\ UNCHANGED <<jmp_code, ap_ready, cpu, cpu_, inited, power>>

\* while (xchg(&ap_ready, 0) != 1): a failing exchange changes nothing.
SeeReady(c) ==
    /\ smpPc[c] = "waiting" /\ ap_ready
    /\ ap_ready' = FALSE /\ cpu' = cpu + 1 /\ To(c, "starting")
    /\ UNCHANGED <<jmp_code, is_ap, cpu_, ipi, inited, entered, power>>

othercpu_entry(c) ==
    /\ smpPc[c] = "othercpu" /\ To(c, "ready")
    /\ inited' = inited \cup {c}
    /\ UNCHANGED <<jmp_code, is_ap, ap_ready, cpu, cpu_, ipi, entered, power>>

SayReady(c) ==
    /\ smpPc[c] = "ready"
    /\ ap_ready' = TRUE /\ call_user_entry(c)
    /\ UNCHANGED <<jmp_code, is_ap, cpu, cpu_, ipi, inited, power>>

StartUp(c) ==
    /\ power = "on"
    /\ \/ Deliver(c) \/ Fetch(c) \/ _start_c(c) \/ bootcpu_init(c) \/ mpe_init(c)
       \/ StartNext(c) \/ SeeReady(c) \/ othercpu_entry(c) \/ SayReady(c)

\* Fault: the boot record keeps the jump to the loader.
halt_KeepsJump(c) ==
    /\ smpPc[c] \in {"main", "user"} /\ To(c, "stopping")
    /\ cpu_' = [cpu_ EXCEPT ![c] = 0]
    /\ UNCHANGED <<jmp_code, is_ap, ap_ready, cpu, ipi, inited, entered, power>>

\* halt: called by the program, or when main returns.
halt(c) ==
    /\ smpPc[c] \in {"main", "user"} /\ To(c, "stopping")
    /\ jmp_code' = "stop" /\ cpu_' = [cpu_ EXCEPT ![c] = 0]
    /\ UNCHANGED <<is_ap, ap_ready, cpu, ipi, inited, entered, power>>

StopNext(c) ==
    /\ smpPc[c] = "stopping" /\ cpu_[c] < ncpu
    /\ IF cpu_[c] # c THEN Bootap(cpu_[c]) ELSE UNCHANGED ipi
    /\ cpu_' = [cpu_ EXCEPT ![c] = @ + 1]
    /\ UNCHANGED <<smpPc, jmp_code, is_ap, ap_ready, cpu, inited, entered, power>>

PowerOff(c) ==
    /\ smpPc[c] = "stopping" /\ cpu_[c] = ncpu
    /\ power' = "off"
    /\ UNCHANGED <<smpPc, jmp_code, is_ap, ap_ready, cpu, cpu_, ipi, inited, entered>>

Stop(c) == power = "on" /\ (halt(c) \/ StopNext(c) \/ PowerOff(c))

SmpNext == \E c \in CPUs : StartUp(c) \/ Stop(c)

SmpSpec == SmpInit /\ [][SmpNext]_smpVars
-----------------------------------------------------------------------------

(* Every processor enters the program at most once, although stopping one  *)
(* is the same interrupt that starts it (mpe.c:12-24, 48-55; halt of       *)
(* trm.c:39-59); no two processors are on the one boot stack               *)
(* (boot/start.S:48) at a time; and the first enters when all the others   *)
(* have been set up.                                                       *)
StartsOnce ==
    /\ \A c \in CPUs : entered[c] <= 1
    /\ Cardinality({c \in CPUs : smpPc[c] \in {"loader", "bootcpu"}}) <= 1
    /\ entered[0] = 1 => inited = CPUs
=============================================================================
