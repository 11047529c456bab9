---------------------------- MODULE PartsProofs -----------------------------
(***************************************************************************)
(* Proofs about the parts of the repository that share no state: the       *)
(* processors of the x86 machine (X86Smp) and the demonstration kernel on  *)
(* them (ThreadOs), the coroutines (Libco), the disk and its device        *)
(* (SdDev), the clock and the time stamp counter (RtcTimer), the boot      *)
(* loader (BootLoader), address spaces on the host (NativeVme) and on the  *)
(* x86 machine (X86Vme), and traps and contexts (X86Trap); for every value *)
(* of their constants.                                                     *)
(***************************************************************************)
EXTENDS ThreadOs, Libco, SdDev, RtcTimer, BootLoader, NativeVme, X86Trap, X86Vme,
        LeastNumber, FiniteSetTheorems, SequenceTheorems, TLAPS

-----------------------------------------------------------------------------
(* Division.                                                               *)
LEMMA Divides ==
    ASSUME NEW a \in Nat, NEW b \in Nat \ {0}
    PROVE  /\ a \div b \in Nat /\ a % b \in Nat /\ a % b \in 0 .. b - 1
           /\ a = (a \div b) * b + (a % b)
OBVIOUS

LEMMA Grows ==
    ASSUME NEW x \in Nat, NEW y \in Nat, NEW b \in Nat, x <= y
    PROVE  x * b <= y * b
<1>1. (y - x) * b >= 0 /\ (y - x) * b = y * b - x * b
  OBVIOUS
<1>. QED  BY <1>1

LEMMA Cancels ==
    ASSUME NEW x \in Nat, NEW y \in Nat, NEW b \in Nat, x * b < y * b
    PROVE  x < y
<1>. SUFFICES ASSUME y <= x PROVE FALSE
  OBVIOUS
<1>1. y * b <= x * b
  BY Grows
<1>2. x * b \in Nat /\ y * b \in Nat
  OBVIOUS
<1>. QED  BY <1>1, <1>2

\* The quotient is the number whose multiple the remainder lies above.
LEMMA Quotient ==
    ASSUME NEW a \in Nat, NEW b \in Nat \ {0}, NEW q \in Nat, q * b <= a, a < q * b + b
    PROVE  a \div b = q /\ a % b = a - q * b
<1>. DEFINE p == a \div b
            r == a % b
<1>1. p \in Nat /\ r \in 0 .. b - 1 /\ a = p * b + r
  BY Divides
<1>. HIDE DEF p, r
<1>2. p * b < (q + 1) * b /\ q * b < (p + 1) * b
  <2>1. (q + 1) * b = q * b + b /\ (p + 1) * b = p * b + b /\ p * b \in Nat /\ q * b \in Nat
    BY <1>1
  <2>. QED  BY <1>1, <2>1
<1>3. p < q + 1 /\ q < p + 1
  BY <1>1, <1>2, Cancels
<1>4. p = q
  BY <1>1, <1>3
<1>. QED  BY <1>1, <1>4 DEF p, r

LEMMA TwiceDivided ==
    ASSUME NEW a \in Nat, NEW b \in Nat \ {0}, NEW c \in Nat \ {0}
    PROVE  a \div (b * c) = (a \div b) \div c
<1>. DEFINE q == a \div b
            r == a % b
            p == q \div c
            s == q % c
<1>1. q \in Nat /\ r \in 0 .. b - 1 /\ a = q * b + r
  BY Divides
<1>2. p \in Nat /\ s \in 0 .. c - 1 /\ q = p * c + s
  BY <1>1, Divides
<1>. HIDE DEF q, r, p, s
<1>3. a = p * (b * c) + (s * b + r)
  <2>1. (p * c + s) * b = p * (b * c) + s * b
    BY <1>2
  <2>. QED  BY <1>1, <1>2, <2>1
<1>4. s * b + r < b * c /\ s * b + r \in Nat
  <2>1. s * b <= (c - 1) * b
    BY <1>2, Grows
  <2>2. (c - 1) * b = b * c - b /\ s * b \in Nat /\ b * c \in Nat
    BY <1>2
  <2>. QED  BY <1>1, <2>1, <2>2
<1>5. p * (b * c) <= a /\ a < p * (b * c) + b * c /\ b * c \in Nat \ {0} /\ p * (b * c) \in Nat
  <2>1. b * c \in Nat /\ p * (b * c) \in Nat
    BY <1>2
  <2>. QED  BY <1>3, <1>4, <2>1
<1>6. a \div (b * c) = p
  BY <1>2, <1>5, Quotient
<1>. QED  BY <1>6 DEF p, q

-----------------------------------------------------------------------------
(* StartsOnce of X86Smp.                                                   *)
(*                                                                         *)
(* What an interrupt does to a processor is decided later, by the boot     *)
(* record it finds.  So the invariant says what may be under way under     *)
(* each content of the record: nothing before mpe_init; one processor, and *)
(* it new, while processors are started; anything once one has halted, as  *)
(* then no processor gets past the record, save the one that had.          *)

SmpPlaces == {"off", "reset", "loader", "bootcpu", "main", "starting", "waiting", "othercpu",
           "ready", "user", "stopping", "stopped"}

(* The types of the variables.                                             *)
SmpTypeOK ==
    /\ smpPc \in [CPUs -> SmpPlaces]
    /\ jmp_code \in {"none", "loader", "stop"}
    /\ is_ap \in BOOLEAN /\ ap_ready \in BOOLEAN
    /\ cpu \in 1 .. ncpu
    /\ cpu_ \in [CPUs -> 0 .. ncpu]
    /\ ipi \subseteq CPUs /\ inited \subseteq CPUs
    /\ entered \in [CPUs -> Nat]
    /\ power \in {"on", "off"}

\* BeforeReady the first processor has written the record the others are off.
BeforeReady ==
    jmp_code = "none" =>
        /\ smpPc[0] \in {"loader", "bootcpu", "main"}
        /\ ~is_ap /\ ~ap_ready /\ cpu = 1 /\ ipi = {}
        /\ \A c \in CPUs \ {0} : smpPc[c] = "off" /\ entered[c] = 0

New(c) == smpPc[c] = "off" /\ entered[c] = 0

\* While the record holds the jump to the loader, those that were not started
\* are new, and an interrupt on its way is for the one waited for.
Starting ==
    jmp_code = "loader" =>
        /\ \A c \in CPUs : smpPc[c] # "stopping" /\ (c > cpu => New(c))
        /\ smpPc[0] = "starting" /\ cpu < ncpu => New(cpu)
        /\ \A c \in ipi : New(c)
        /\ \A c \in CPUs : c \in ipi \/ smpPc[c] = "reset" =>
                c = cpu /\ entered[c] = 0 /\ is_ap /\ ~ap_ready /\ smpPc[0] = "waiting"

\* A processor that has fetched the jump is the one waited for, before it says
\* so.
Booting ==
    \A c \in CPUs \ {0} :
        smpPc[c] \in {"loader", "othercpu", "ready"} =>
            /\ c = cpu /\ entered[c] = 0 /\ is_ap /\ ~ap_ready
            /\ jmp_code # "none" /\ smpPc[0] # "starting"
            /\ smpPc[c] = "ready" => c \in inited

\* What the first processor alone does, and what it has done by then.
FirstBoot ==
    /\ \A c \in CPUs \ {0} : smpPc[c] \notin {"bootcpu", "main", "starting", "waiting"}
    /\ smpPc[0] \in {"loader", "bootcpu", "main"} => jmp_code = "none"
    /\ smpPc[0] \notin {"othercpu", "ready"}
    /\ smpPc[0] \in {"loader", "bootcpu", "main", "starting", "waiting"} => entered[0] = 0
    /\ smpPc[0] \in {"main", "starting", "waiting"} => 0 \in inited
    /\ smpPc[0] = "starting" => ~ap_ready
    /\ smpPc[0] = "waiting" => cpu < ncpu

\* Who has been set up.
SetUp ==
    /\ \A c \in CPUs \ {0} : c < cpu => c \in inited
    /\ ap_ready => cpu \in inited
    /\ entered[0] = 1 => inited = CPUs
    /\ \A c \in CPUs : entered[c] <= 1

SmpInv == SmpTypeOK /\ BeforeReady /\ Starting /\ Booting /\ FirstBoot /\ SetUp

(* An interrupt arrives: its processor is new, or the record stops it.     *)
LEMMA DeliverKeeps ==
    ASSUME SmpInv, NEW c \in CPUs, Deliver(c)
    PROVE  SmpInv'
<1>1. SmpTypeOK /\ BeforeReady /\ Starting /\ Booting /\ FirstBoot /\ SetUp /\ 0 \in CPUs
    BY SmpAssumption DEF SmpInv, CPUs
<1>2. \A e \in CPUs : /\ smpPc'[e] = (IF e = c THEN "reset" ELSE smpPc[e])
                       /\ entered'[e] = entered[e]
    BY <1>1 DEF SmpTypeOK, Deliver, To
<1>3. SmpTypeOK'
    BY <1>1, SmpAssumption DEF SmpTypeOK, FirstBoot, SmpPlaces, CPUs, Deliver, To
<1>4. BeforeReady'
    BY <1>1 DEF BeforeReady, Deliver
<1>5. Starting'
  <2> SUFFICES ASSUME jmp_code = "loader" PROVE Starting'
    BY DEF Starting, Deliver
  <2>1. c = cpu /\ c # 0 /\ New(c) /\ is_ap /\ ~ap_ready /\ smpPc[0] = "waiting"
    BY <1>1 DEF Starting, New, Deliver
  <2>2. ipi' = {}
    <3>1. \A e \in ipi : e = c
      BY <1>1, <2>1 DEF Starting, SmpTypeOK
    <3>. QED  BY <3>1 DEF Deliver
  <2>3. \A e \in CPUs : smpPc'[e] # "stopping" /\ (e > cpu => smpPc'[e] = "off" /\ entered'[e] = 0)
    BY <1>1, <1>2, <2>1, SmpAssumption DEF Starting, New, SmpTypeOK, CPUs
  <2>4. \A e \in CPUs : smpPc'[e] = "reset" => e = c
    BY <1>1, <1>2, <2>1 DEF Starting
  <2>. QED  BY <1>1, <1>2, <2>1, <2>2, <2>3, <2>4 DEF Starting, New, Deliver
<1>6. Booting'
    BY <1>1, <1>2 DEF Booting, Deliver
<1>7. FirstBoot'
    BY <1>1, <1>2 DEF FirstBoot, Deliver
<1>8. SetUp'
    BY <1>1 DEF SetUp, Deliver
<1>. QED  BY <1>3, <1>4, <1>5, <1>6, <1>7, <1>8 DEF SmpInv

(* The processor executes the jump in the record.                          *)
LEMMA FetchKeeps ==
    ASSUME SmpInv, NEW c \in CPUs, Fetch(c)
    PROVE  SmpInv'
<1>1. SmpTypeOK /\ BeforeReady /\ Starting /\ Booting /\ FirstBoot /\ SetUp /\ 0 \in CPUs
    BY SmpAssumption DEF SmpInv, CPUs
<1>2. \A e \in CPUs : /\ smpPc'[e] = (IF e = c THEN (IF jmp_code = "loader" THEN "loader" ELSE "stopped") ELSE smpPc[e])
                       /\ entered'[e] = entered[e]
    BY <1>1 DEF SmpTypeOK, Fetch, To
<1>3. SmpTypeOK'
    BY <1>1, SmpAssumption DEF SmpTypeOK, FirstBoot, SmpPlaces, CPUs, Fetch, To
<1>4. BeforeReady'
    BY <1>1 DEF BeforeReady, Fetch
<1>5. Starting'
    BY <1>1 DEF Starting, New, Fetch, To
<1>6. Booting'
    BY <1>1, <1>2 DEF Starting, Booting, Fetch
<1>7. FirstBoot'
    BY <1>1, <1>2 DEF Starting, FirstBoot, Fetch
<1>8. SetUp'
    BY <1>1 DEF SetUp, Fetch
<1>. QED  BY <1>3, <1>4, <1>5, <1>6, <1>7, <1>8 DEF SmpInv

(* The loader branches on is_ap.                                           *)
LEMMA StartCKeeps ==
    ASSUME SmpInv, NEW c \in CPUs, _start_c(c)
    PROVE  SmpInv'
<1>1. SmpTypeOK /\ BeforeReady /\ Starting /\ Booting /\ FirstBoot /\ SetUp /\ 0 \in CPUs
    BY SmpAssumption DEF SmpInv, CPUs
<1>2. \A e \in CPUs : /\ smpPc'[e] = (IF e = c THEN (IF is_ap THEN "othercpu" ELSE "bootcpu") ELSE smpPc[e])
                       /\ entered'[e] = entered[e]
    BY <1>1 DEF SmpTypeOK, _start_c, To
<1>3. SmpTypeOK'
    BY <1>1, SmpAssumption DEF SmpTypeOK, FirstBoot, SmpPlaces, CPUs, _start_c, To
<1>4. BeforeReady'
    BY <1>1, <1>2 DEF BeforeReady, _start_c
<1>5. Starting'
    BY <1>1 DEF Starting, New, _start_c, To
<1>6. Booting'
    BY <1>1, <1>2 DEF Booting, _start_c
<1>7. FirstBoot'
    BY <1>1, <1>2 DEF BeforeReady, Booting, FirstBoot, _start_c
<1>8. SetUp'
    BY <1>1 DEF SetUp, _start_c
<1>. QED  BY <1>3, <1>4, <1>5, <1>6, <1>7, <1>8 DEF SmpInv

(* The first processor sets itself up.                                     *)
LEMMA BootcpuInitKeeps ==
    ASSUME SmpInv, NEW c \in CPUs, bootcpu_init(c)
    PROVE  SmpInv'
<1>1. SmpTypeOK /\ BeforeReady /\ Starting /\ Booting /\ FirstBoot /\ SetUp /\ 0 \in CPUs
    BY SmpAssumption DEF SmpInv, CPUs
<1>2. \A e \in CPUs : /\ smpPc'[e] = (IF e = c THEN "main" ELSE smpPc[e])
                       /\ entered'[e] = entered[e]
    BY <1>1 DEF SmpTypeOK, bootcpu_init, To
<1>3. SmpTypeOK'
    BY <1>1, SmpAssumption DEF SmpTypeOK, FirstBoot, SmpPlaces, CPUs, bootcpu_init, To
<1>4. BeforeReady'
    BY <1>1, <1>2 DEF BeforeReady, bootcpu_init
<1>5. Starting'
    BY <1>1 DEF Starting, New, bootcpu_init, To
<1>6. Booting'
    BY <1>1, <1>2 DEF Booting, bootcpu_init
<1>7. FirstBoot'
    BY <1>1, <1>2 DEF FirstBoot, bootcpu_init
<1>8. SetUp'
    BY <1>1 DEF SetUp, bootcpu_init
<1>. QED  BY <1>3, <1>4, <1>5, <1>6, <1>7, <1>8 DEF SmpInv

(* The first processor writes the jump to the loader into the record.      *)
LEMMA MpeInitKeeps ==
    ASSUME SmpInv, NEW c \in CPUs, mpe_init(c)
    PROVE  SmpInv'
<1>1. SmpTypeOK /\ BeforeReady /\ Starting /\ Booting /\ FirstBoot /\ SetUp /\ 0 \in CPUs
    BY SmpAssumption DEF SmpInv, CPUs
<1>2. \A e \in CPUs : /\ smpPc'[e] = (IF e = c THEN "starting" ELSE smpPc[e])
                       /\ entered'[e] = entered[e]
    BY <1>1 DEF SmpTypeOK, mpe_init, To
<1>3. SmpTypeOK'
    BY <1>1, SmpAssumption DEF SmpTypeOK, FirstBoot, SmpPlaces, CPUs, mpe_init, To
<1>4. BeforeReady'
    BY <1>1 DEF BeforeReady, mpe_init
<1>5. Starting'
    BY <1>1, <1>2, SmpAssumption DEF BeforeReady, Starting, FirstBoot, New, CPUs, mpe_init
<1>6. Booting'
    BY <1>1, <1>2 DEF Booting, FirstBoot, mpe_init
<1>7. FirstBoot'
    BY <1>1, <1>2 DEF BeforeReady, FirstBoot, mpe_init
<1>8. SetUp'
    BY <1>1 DEF BeforeReady, FirstBoot, SetUp, mpe_init
<1>. QED  BY <1>3, <1>4, <1>5, <1>6, <1>7, <1>8 DEF SmpInv

(* The first processor starts the next one, or enters the program.         *)
LEMMA StartNextKeeps ==
    ASSUME SmpInv, NEW c \in CPUs, StartNext(c)
    PROVE  SmpInv'
<1>1. SmpTypeOK /\ BeforeReady /\ Starting /\ Booting /\ FirstBoot /\ SetUp /\ 0 \in CPUs
    BY SmpAssumption DEF SmpInv, CPUs
<1>2. \A e \in CPUs : /\ smpPc'[e] = (IF e = c THEN (IF cpu < ncpu THEN "waiting" ELSE "user") ELSE smpPc[e])
                       /\ entered'[e] = (IF e = c THEN (IF cpu < ncpu THEN entered[c] ELSE entered[c] + 1) ELSE entered[e])
    BY <1>1 DEF SmpTypeOK, StartNext, To, Bootap, call_user_entry
<1>3. SmpTypeOK'
  <2>1. cpu < ncpu => cpu \in CPUs
    BY <1>1, SmpAssumption DEF SmpTypeOK, CPUs
  <2>2. smpPc' \in [CPUs -> SmpPlaces] /\ entered' \in [CPUs -> Nat]
    BY <1>1 DEF SmpTypeOK, SmpPlaces, StartNext, To, call_user_entry
  <2>. QED  BY <1>1, <2>1, <2>2 DEF SmpTypeOK, StartNext, Bootap
<1>4. BeforeReady'
    BY <1>1 DEF BeforeReady, StartNext
<1>5. Starting'
  <2> SUFFICES ASSUME jmp_code = "loader" PROVE Starting'
    BY DEF Starting, StartNext
  <2>1. c = 0 /\ smpPc[0] = "starting" /\ ~ap_ready
    BY <1>1 DEF FirstBoot, StartNext
  <2>2. \A e \in CPUs : e \notin ipi /\ smpPc[e] # "reset"
    BY <1>1, <2>1 DEF Starting
  <2>3. ipi = {}
    BY <1>1, <2>2 DEF SmpTypeOK
  <2>4. CASE cpu < ncpu
    <3>1. cpu \in CPUs /\ cpu # 0 /\ New(cpu)
      BY <1>1, <2>1, <2>4, SmpAssumption DEF Starting, SmpTypeOK, CPUs
    <3>2. smpPc'[cpu] = "off" /\ entered'[cpu] = 0
      BY <1>2, <2>1, <3>1 DEF New
    <3>3. ipi' = {cpu} /\ is_ap' /\ smpPc'[0] = "waiting" /\ cpu' = cpu
      BY <1>1, <1>2, <2>1, <2>3, <2>4 DEF StartNext, Bootap
    <3>4. \A e \in CPUs : smpPc'[e] # "stopping" /\ smpPc'[e] # "reset"
      BY <1>1, <1>2, <2>2 DEF Starting
    <3>5. \A e \in CPUs : e > cpu => smpPc'[e] = "off" /\ entered'[e] = 0
      BY <1>1, <1>2, <2>1, SmpAssumption DEF Starting, New, SmpTypeOK, CPUs
    <3>. QED  BY <2>1, <3>1, <3>2, <3>3, <3>4, <3>5 DEF Starting, New, StartNext
  <2>5. CASE ~(cpu < ncpu)
    <3>1. ipi' = {} /\ smpPc'[0] = "user" /\ cpu' = cpu
      BY <1>1, <1>2, <2>1, <2>3, <2>5 DEF StartNext
    <3>2. \A e \in CPUs : smpPc'[e] # "stopping" /\ smpPc'[e] # "reset" /\ ~(e > cpu)
      BY <1>1, <1>2, <2>2, <2>5, SmpAssumption, SMTT(60) DEF Starting, SmpTypeOK, CPUs
    <3>. QED  BY <3>1, <3>2 DEF Starting
  <2>. QED  BY <2>4, <2>5
<1>6. Booting'
    BY <1>1, <1>2 DEF Booting, StartNext
<1>7. FirstBoot'
    BY <1>1, <1>2 DEF FirstBoot, StartNext
<1>8. SetUp'
  <2>1. c = 0 /\ smpPc[0] = "starting" /\ entered[0] = 0 /\ 0 \in inited
    BY <1>1 DEF FirstBoot, StartNext
  <2>2. ~(cpu < ncpu) => inited = CPUs
    <3> SUFFICES ASSUME ~(cpu < ncpu) PROVE CPUs \subseteq inited
      BY <1>1 DEF SmpTypeOK
    <3>1. \A e \in CPUs : e < cpu
      BY <1>1, SmpAssumption DEF SmpTypeOK, CPUs
    <3>. QED  BY <1>1, <2>1, <3>1 DEF SetUp
  <2>. QED  BY <1>1, <1>2, <2>1, <2>2 DEF SetUp, SmpTypeOK, StartNext
<1>. QED  BY <1>3, <1>4, <1>5, <1>6, <1>7, <1>8 DEF SmpInv

(* The first processor sees the one it started report.                     *)
LEMMA SeeReadyKeeps ==
    ASSUME SmpInv, NEW c \in CPUs, SeeReady(c)
    PROVE  SmpInv'
<1>1. SmpTypeOK /\ BeforeReady /\ Starting /\ Booting /\ FirstBoot /\ SetUp /\ 0 \in CPUs
    BY SmpAssumption DEF SmpInv, CPUs
<1>2. \A e \in CPUs : /\ smpPc'[e] = (IF e = c THEN "starting" ELSE smpPc[e])
                       /\ entered'[e] = entered[e]
    BY <1>1 DEF SmpTypeOK, SeeReady, To
<1>3. SmpTypeOK'
  <2>1. cpu + 1 \in 1 .. ncpu
    BY <1>1, SmpAssumption DEF SmpTypeOK, FirstBoot, SeeReady
  <2>2. smpPc' \in [CPUs -> SmpPlaces]
    BY <1>1 DEF SmpTypeOK, SmpPlaces, SeeReady, To
  <2>. QED  BY <1>1, <2>1, <2>2 DEF SmpTypeOK, SeeReady
<1>4. BeforeReady'
    BY <1>1 DEF BeforeReady, SeeReady
<1>5. Starting'
  <2> SUFFICES ASSUME jmp_code = "loader" PROVE Starting'
    BY DEF Starting, SeeReady
  <2>1. c = 0 /\ ap_ready /\ cpu' = cpu + 1 /\ ipi' = ipi
    BY <1>1 DEF FirstBoot, SeeReady
  <2>2. ipi = {} /\ \A e \in CPUs : smpPc[e] # "reset"
    BY <1>1, <2>1 DEF Starting, SmpTypeOK
  <2>3. \A e \in CPUs : e > cpu => e # 0 /\ New(e)
    BY <1>1, SmpAssumption DEF Starting, SmpTypeOK, CPUs
  <2>4. \A e \in CPUs : e > cpu => New(e)'
    BY <1>2, <2>1, <2>3 DEF New
  <2>5. \A e \in CPUs : e > cpu' => e > cpu
    BY <1>1, <2>1, SmpAssumption DEF SmpTypeOK, CPUs
  <2>6. cpu' < ncpu => cpu' \in CPUs /\ cpu' > cpu
    BY <1>1, <2>1, SmpAssumption DEF SmpTypeOK, CPUs
  <2>7. \A e \in CPUs : smpPc'[e] # "stopping" /\ smpPc'[e] # "reset"
    BY <1>1, <1>2, <2>2 DEF Starting
  <2>. QED  BY <2>1, <2>2, <2>4, <2>5, <2>6, <2>7 DEF Starting
<1>6. Booting'
    BY <1>1, <1>2 DEF Booting, SeeReady
<1>7. FirstBoot'
    BY <1>1, <1>2 DEF FirstBoot, SeeReady
<1>8. SetUp'
    BY <1>1 DEF SmpTypeOK, SetUp, CPUs, SeeReady
<1>. QED  BY <1>3, <1>4, <1>5, <1>6, <1>7, <1>8 DEF SmpInv

(* A processor that was started sets itself up.                            *)
LEMMA OthercpuEntryKeeps ==
    ASSUME SmpInv, NEW c \in CPUs, othercpu_entry(c)
    PROVE  SmpInv'
<1>1. SmpTypeOK /\ BeforeReady /\ Starting /\ Booting /\ FirstBoot /\ SetUp /\ 0 \in CPUs
    BY SmpAssumption DEF SmpInv, CPUs
<1>2. \A e \in CPUs : /\ smpPc'[e] = (IF e = c THEN "ready" ELSE smpPc[e])
                       /\ entered'[e] = entered[e]
    BY <1>1 DEF SmpTypeOK, othercpu_entry, To
<1>3. SmpTypeOK'
    BY <1>1, SmpAssumption DEF SmpTypeOK, FirstBoot, SmpPlaces, CPUs, othercpu_entry, To
<1>4. BeforeReady'
    BY <1>1 DEF BeforeReady, othercpu_entry
<1>5. Starting'
    BY <1>1 DEF Starting, New, othercpu_entry, To
<1>6. Booting'
    BY <1>1, <1>2 DEF Booting, othercpu_entry
<1>7. FirstBoot'
    BY <1>1, <1>2 DEF FirstBoot, othercpu_entry
<1>8. SetUp'
    BY <1>1 DEF SetUp, othercpu_entry
<1>. QED  BY <1>3, <1>4, <1>5, <1>6, <1>7, <1>8 DEF SmpInv

(* A processor that was started reports and enters the program.            *)
LEMMA SayReadyKeeps ==
    ASSUME SmpInv, NEW c \in CPUs, SayReady(c)
    PROVE  SmpInv'
<1>1. SmpTypeOK /\ BeforeReady /\ Starting /\ Booting /\ FirstBoot /\ SetUp /\ 0 \in CPUs
    BY SmpAssumption DEF SmpInv, CPUs
<1>2. \A e \in CPUs : /\ smpPc'[e] = (IF e = c THEN "user" ELSE smpPc[e])
                       /\ entered'[e] = (IF e = c THEN entered[c] + 1 ELSE entered[e])
    BY <1>1 DEF SmpTypeOK, SayReady, To, call_user_entry
<1>3. SmpTypeOK'
    BY <1>1, SmpAssumption, SMTT(60) DEF SmpTypeOK, FirstBoot, SmpPlaces, CPUs, SayReady, To, 
                call_user_entry
<1>4. BeforeReady'
    BY <1>1 DEF BeforeReady, SayReady
<1>5. Starting'
    BY <1>1 DEF Starting, Booting, New, SayReady, To, call_user_entry
<1>6. Booting'
    BY <1>1, <1>2 DEF SmpTypeOK, BeforeReady, Starting, Booting, FirstBoot, SetUp, New,
                      SmpAssumption, CPUs, SayReady, To, call_user_entry
<1>7. FirstBoot'
    BY <1>1, <1>2 DEF Booting, FirstBoot, SayReady
<1>8. SetUp'
  <2>1. c # 0 /\ c = cpu /\ entered[c] = 0 /\ c \in inited
    BY <1>1 DEF FirstBoot, Booting, SayReady
  <2>. QED  BY <1>1, <1>2, <2>1 DEF SetUp, SmpTypeOK, SayReady
<1>. QED  BY <1>3, <1>4, <1>5, <1>6, <1>7, <1>8 DEF SmpInv

(* A processor halts and writes the stop into the record.                  *)
LEMMA HaltKeeps ==
    ASSUME SmpInv, NEW c \in CPUs, halt(c)
    PROVE  SmpInv'
<1>1. SmpTypeOK /\ BeforeReady /\ Starting /\ Booting /\ FirstBoot /\ SetUp /\ 0 \in CPUs
    BY SmpAssumption DEF SmpInv, CPUs
<1>2. \A e \in CPUs : /\ smpPc'[e] = (IF e = c THEN "stopping" ELSE smpPc[e])
                       /\ entered'[e] = entered[e]
    BY <1>1 DEF SmpTypeOK, halt, To
<1>3. SmpTypeOK'
    BY <1>1, SmpAssumption, SMTT(60) DEF SmpTypeOK, FirstBoot, SmpPlaces, CPUs, halt, To
<1>4. BeforeReady'
    BY <1>1 DEF BeforeReady, halt
<1>5. Starting'
    BY <1>1 DEF Starting, halt
<1>6. Booting'
    BY <1>1, <1>2 DEF Booting, halt
<1>7. FirstBoot'
    BY <1>1, <1>2 DEF BeforeReady, FirstBoot, halt
<1>8. SetUp'
    BY <1>1 DEF SetUp, halt
<1>. QED  BY <1>3, <1>4, <1>5, <1>6, <1>7, <1>8 DEF SmpInv

(* A processor that halts interrupts another one.                          *)
LEMMA StopNextKeeps ==
    ASSUME SmpInv, NEW c \in CPUs, StopNext(c)
    PROVE  SmpInv'
<1>1. SmpTypeOK /\ BeforeReady /\ Starting /\ Booting /\ FirstBoot /\ SetUp /\ 0 \in CPUs
    BY SmpAssumption DEF SmpInv, CPUs
<1>2. \A e \in CPUs : /\ smpPc'[e] = smpPc[e]
                       /\ entered'[e] = entered[e]
    BY <1>1 DEF SmpTypeOK, StopNext, Bootap
<1>3. SmpTypeOK'
  <2>1. cpu_[c] \in CPUs /\ cpu_[c] + 1 \in 0 .. ncpu
    BY <1>1, SmpAssumption, SMTT(60) DEF SmpTypeOK, StopNext, CPUs
  <2>2. cpu_' \in [CPUs -> 0 .. ncpu]
    BY <1>1, <2>1 DEF SmpTypeOK, StopNext
  <2>. QED  BY <1>1, <2>1, <2>2 DEF SmpTypeOK, StopNext, Bootap
<1>4. BeforeReady'
    BY <1>1 DEF BeforeReady, StopNext
<1>5. Starting'
    BY <1>1 DEF Starting, StopNext
<1>6. Booting'
    BY <1>1 DEF Booting, StopNext
<1>7. FirstBoot'
    BY <1>1 DEF FirstBoot, StopNext
<1>8. SetUp'
    BY <1>1 DEF SetUp, StopNext
<1>. QED  BY <1>3, <1>4, <1>5, <1>6, <1>7, <1>8 DEF SmpInv

(* A processor that has stopped the others turns the power off.            *)
LEMMA PowerOffKeeps ==
    ASSUME SmpInv, NEW c \in CPUs, PowerOff(c)
    PROVE  SmpInv'
<1>1. SmpTypeOK /\ BeforeReady /\ Starting /\ Booting /\ FirstBoot /\ SetUp /\ 0 \in CPUs
    BY SmpAssumption DEF SmpInv, CPUs
<1>2. \A e \in CPUs : /\ smpPc'[e] = smpPc[e]
                       /\ entered'[e] = entered[e]
    BY <1>1 DEF SmpTypeOK, PowerOff
<1>3. SmpTypeOK'
    BY <1>1, SmpAssumption DEF SmpTypeOK, FirstBoot, SmpPlaces, CPUs, PowerOff
<1>4. BeforeReady'
    BY <1>1 DEF BeforeReady, PowerOff
<1>5. Starting'
    BY <1>1 DEF Starting, PowerOff
<1>6. Booting'
    BY <1>1 DEF Booting, PowerOff
<1>7. FirstBoot'
    BY <1>1 DEF FirstBoot, PowerOff
<1>8. SetUp'
    BY <1>1 DEF SetUp, PowerOff
<1>. QED  BY <1>3, <1>4, <1>5, <1>6, <1>7, <1>8 DEF SmpInv

(* The invariant holds in the initial states, in which nothing is started. *)
LEMMA SmpInitHolds == ASSUME SmpInit PROVE SmpInv
<1>1. 0 \in CPUs /\ 1 \in 1 .. ncpu
  BY SmpAssumption DEF CPUs
<1>2. SmpTypeOK
  <2>1. smpPc \in [CPUs -> SmpPlaces] /\ entered \in [CPUs -> Nat]
    BY DEF SmpInit, SmpPlaces
  <2>2. cpu_ \in [CPUs -> 0 .. ncpu]
    BY SmpAssumption DEF SmpInit
  <2>. QED  BY <1>1, <2>1, <2>2 DEF SmpInit, SmpTypeOK
<1>3. BeforeReady /\ Starting /\ Booting
  BY <1>1 DEF SmpInit, BeforeReady, Starting, Booting
<1>4. FirstBoot /\ SetUp
  BY <1>1, SmpAssumption DEF SmpInit, FirstBoot, SetUp, CPUs
<1>. QED  BY <1>2, <1>3, <1>4 DEF SmpInv

(* A step of starting keeps it, alone or with the program running          *)
(* (trm.c, mpe.c: bootcpu_entry to call_user_entry).                       *)
LEMMA StartUpKeeps ==
    ASSUME SmpInv, NEW c \in CPUs, StartUp(c)
    PROVE  SmpInv'
BY DeliverKeeps, FetchKeeps, StartCKeeps, BootcpuInitKeeps, MpeInitKeeps, StartNextKeeps,
   SeeReadyKeeps, OthercpuEntryKeeps, SayReadyKeeps DEF StartUp

(* Every step keeps it.                                                    *)
LEMMA SmpStepKeeps == ASSUME SmpInv, [SmpNext]_smpVars PROVE SmpInv'
<1>1. ASSUME NEW c \in CPUs, StartUp(c) PROVE SmpInv'
  BY <1>1, StartUpKeeps
<1>2. ASSUME NEW c \in CPUs, Stop(c) PROVE SmpInv'
  BY <1>2, HaltKeeps, StopNextKeeps, PowerOffKeeps DEF Stop
<1>3. CASE UNCHANGED smpVars
  BY <1>3 DEF smpVars, SmpInv, SmpTypeOK, BeforeReady, Starting, Booting, FirstBoot, SetUp, New
<1>. QED  BY <1>1, <1>2, <1>3 DEF SmpNext

(* It implies the property: a processor on the boot stack is the first,    *)
(* before the record is written, or the one being started.                 *)
LEMMA SmpInvImplies == ASSUME SmpInv PROVE StartsOnce
<1> DEFINE Stack == {c \in CPUs : smpPc[c] \in {"loader", "bootcpu"}}
<1>1. PICK x \in CPUs \cup {cpu} : \A c \in Stack : c = x
  <2>1. CASE smpPc[0] \in {"loader", "bootcpu"}
    <3>1. \A c \in CPUs \ {0} : smpPc[c] = "off"
      BY <2>1 DEF SmpInv, FirstBoot, BeforeReady
    <3>. QED  BY <3>1, SmpAssumption DEF CPUs
  <2>2. CASE smpPc[0] \notin {"loader", "bootcpu"}
    <3>1. \A c \in Stack : c = cpu
      BY <2>2 DEF SmpInv, FirstBoot, Booting
    <3>. QED  BY <3>1
  <2>. QED  BY <2>1, <2>2
<1>2. Cardinality(Stack) <= 1
  <2>1. Stack \subseteq {x}
    BY <1>1
  <2>2. Stack = {} \/ Stack = {x}
    BY <2>1
  <2>3. Cardinality({}) = 0 /\ Cardinality({x}) = 1
    BY FS_EmptySet, FS_Singleton
  <2> HIDE DEF Stack
  <2>. QED  BY <2>2, <2>3
<1>. QED  BY <1>2 DEF StartsOnce, SmpInv, SetUp

(* Every processor enters the program at most once, no two are on the boot *)
(* stack, and the first enters when all are set up, however many there are *)
(* and whenever one of them halts (mpe.c: mpe_init, __am_stop_the_world).  *)
THEOREM StartsOnceHolds == SmpSpec => []StartsOnce
<1>1. SmpInit => SmpInv
  BY SmpInitHolds
<1>2. SmpInv /\ [SmpNext]_smpVars => SmpInv'
  BY SmpStepKeeps
<1>3. SmpInv => StartsOnce
  BY SmpInvImplies
<1>. QED  BY <1>1, <1>2, <1>3, PTL DEF SmpSpec

-----------------------------------------------------------------------------
(* ThreadsSound of ThreadOs.                                               *)
(*                                                                         *)
(* A processor runs tasks of its own number only, so the place of a task,  *)
(* in its context or on its processor, moves from one to the other at an   *)
(* interrupt and changes in neither.                                       *)

TaskPlaces == {"lock", "print", "unlock", "delay"}

(* The types of the variables of thread-os.c.                              *)
ThreadTypeOK ==
    /\ ntask \in Nat \ {0}
    /\ context \in [tasks -> TaskPlaces]
    /\ currents \in [CPUs -> tasks \cup {None}]
    /\ at \in [CPUs -> TaskPlaces \cup {"mp_entry", "search"}]
    /\ printLock \in BOOLEAN

\* A processor runs tasks of its number, and searches when there are none.
OwnTasks ==
    \A c \in CPUs :
        /\ currents[c] # None => currents[c] % ncpu = c /\ at[c] \in TaskPlaces
        /\ currents[c] = None => at[c] \in {"mp_entry", "search"}
        /\ at[c] = "search" => Mine(c) = {}

\* TaskPlaces task t is, without a choice.
PlaceOf(t) == IF currents[t % ncpu] = t THEN at[t % ncpu] ELSE context[t]

Inside(t) == PlaceOf(t) \in {"print", "unlock"}

\* The lock is taken while one task is inside.
OneInside ==
    /\ \A t, u \in tasks : Inside(t) /\ Inside(u) => t = u
    /\ printLock <=> \E t \in tasks : Inside(t)

ThreadInv == ThreadTypeOK /\ OwnTasks /\ OneInside

(* A task falls to one processor.                                          *)
LEMMA TaskHasCpu == ASSUME NEW t \in Nat PROVE t % ncpu \in CPUs
BY ThreadAssumption, SmpAssumption DEF CPUs

(* A processor whose number is a task's has that task.                     *)
LEMMA OwnNumber == ASSUME NEW c \in CPUs PROVE c % ncpu = c
BY ThreadAssumption, SmpAssumption DEF CPUs

(* TaskPlaces going round the ring ends.                                        *)
LEMMA FullRound ==
    ASSUME NEW n \in Nat \ {0}, NEW t \in 0 .. n - 1, NEW u \in 0 .. n - 1
    PROVE  \E d \in 1 .. n : (t + d) % n = u
<1>1. CASE u > t
  <2>1. u - t \in 1 .. n /\ (t + (u - t)) % n = u
    BY <1>1
  <2>. QED  BY <2>1
<1>2. CASE ~(u > t)
  <2>1. u - t + n \in 1 .. n /\ t + (u - t + n) = u + n
    BY <1>2
  <2>2. (u + n) % n = u
    OBVIOUS
  <2>. QED  BY <2>1, <2>2
<1>. QED  BY <1>1, <1>2

(* The search of on_interrupt finds a task of its processor if there is    *)
(* one (thread-os.c:50-52).                                                *)
LEMMA SearchEnds ==
    ASSUME ThreadTypeOK, NEW c \in CPUs, NEW t \in tasks, Mine(c) # {}
    PROVE  (t + Distance(c, t)) % ntask \in Mine(c)
<1> DEFINE D == {d \in 1 .. ntask : (t + d) % ntask \in Mine(c)}
<1>1. D # {} /\ D \subseteq Nat
  <2>1. PICK u \in tasks : u \in Mine(c)
    BY DEF Mine
  <2>2. \E d \in 1 .. ntask : (t + d) % ntask = u
    BY FullRound DEF ThreadTypeOK, tasks
  <2>. QED  BY <2>1, <2>2
<1>2. PICK d \in D : \A e \in D : ~(e < d)
  <2> HIDE DEF D
  <2>. QED  BY <1>1, Smallest
<1>3. \A e \in 1 .. d - 1 : (t + e) % ntask \notin Mine(c)
  BY <1>2 DEF ThreadTypeOK
<1>. QED  BY <1>3 DEF Distance

(* A processor without tasks has a number above all of them.               *)
LEMMA NoTaskAbove ==
    ASSUME ThreadTypeOK, NEW c \in CPUs, Mine(c) = {}
    PROVE  c >= ntask
<1> SUFFICES ASSUME ~(c >= ntask) PROVE FALSE
  OBVIOUS
<1>1. c \in tasks
  BY ThreadAssumption, SmpAssumption DEF tasks, CPUs, ThreadTypeOK
<1>. QED  BY <1>1, OwnNumber DEF Mine

(* Under OwnTasks a task runs on its own processor or on none, and is      *)
(* where PlaceOf has it.                                                   *)
LEMMA WhereTasksAre ==
    ASSUME ThreadTypeOK, OwnTasks, NEW t \in tasks
    PROVE  /\ Running(t) = {} \/ Running(t) = {t % ncpu}
           /\ Place(t) = PlaceOf(t)
<1>1. t % ncpu \in CPUs /\ t # None
  BY TaskHasCpu, ThreadAssumption DEF tasks, ThreadTypeOK
<1>2. \A c \in Running(t) : c = t % ncpu
  BY <1>1 DEF Running, OwnTasks
<1>3. Running(t) = IF currents[t % ncpu] = t THEN {t % ncpu} ELSE {}
  BY <1>1, <1>2 DEF Running
<1>. QED  BY <1>3 DEF Place, PlaceOf

(* The invariant implies the property.                                     *)
LEMMA ThreadInvImplies == ASSUME ThreadInv PROVE ThreadsSound
<1>1. \A t \in tasks : Cardinality(Running(t)) <= 1
  <2> TAKE t \in tasks
  <2>1. Running(t) = {} \/ Running(t) = {t % ncpu}
    BY WhereTasksAre DEF ThreadInv
  <2>2. Cardinality({}) = 0 /\ Cardinality({t % ncpu}) = 1
    BY FS_EmptySet, FS_Singleton
  <2>. QED  BY <2>1, <2>2
<1>2. Cardinality({t \in tasks : Place(t) \in {"print", "unlock"}}) = (IF printLock THEN 1 ELSE 0)
  <2> DEFINE In == {t \in tasks : Place(t) \in {"print", "unlock"}}
  <2>1. In = {t \in tasks : Inside(t)}
    BY WhereTasksAre DEF ThreadInv, Inside
  <2>2. CASE printLock
    <3>1. PICK t \in tasks : In = {t}
      BY <2>1, <2>2 DEF ThreadInv, OneInside
    <3>. QED  BY <2>2, <3>1, FS_Singleton
  <2>3. CASE ~printLock
    <3>1. In = {}
      BY <2>1, <2>3 DEF ThreadInv, OneInside
    <3>. QED  BY <2>3, <3>1, FS_EmptySet
  <2>. QED  BY <2>2, <2>3 DEF ThreadInv, ThreadTypeOK
<1>3. \A c \in CPUs : at[c] = "search" => c >= ntask
  BY NoTaskAbove DEF ThreadInv, OwnTasks
<1>. QED  BY <1>1, <1>2, <1>3 DEF ThreadsSound

(* The invariant holds at the start: no task runs, all are before the lock.*)
LEMMA ThreadInitHolds == ASSUME ThreadInit PROVE ThreadInv
<1>1. ThreadTypeOK /\ OwnTasks
  BY ThreadAssumption DEF ThreadInit, ThreadTypeOK, OwnTasks, TaskPlaces, tasks
<1>2. \A t \in tasks : PlaceOf(t) = "lock"
  BY TaskHasCpu, ThreadAssumption DEF ThreadInit, PlaceOf, tasks
<1>3. OneInside
  BY <1>2 DEF ThreadInit, OneInside, Inside
<1>. QED  BY <1>1, <1>3 DEF ThreadInv

(* At an interrupt a task keeps its place: the one interrupted takes it    *)
(* from the processor to its context, the one that goes on the other way   *)
(* (thread-os.c: on_interrupt).                                            *)
LEMMA InterruptKeeps ==
    ASSUME ThreadInv, NEW c \in CPUs, on_interrupt(c)
    PROVE  ThreadInv'
<1> DEFINE from == IF currents[c] = None THEN 0 ELSE currents[c]
           to == (from + Distance(c, from)) % ntask
<1>1. ThreadTypeOK /\ OwnTasks /\ OneInside /\ None \notin tasks
  BY ThreadAssumption DEF ThreadInv, tasks, ThreadTypeOK
<1>2. /\ ntask' = ntask /\ printLock' = printLock /\ context' = Saved(c) /\ at[c] # "search"
      /\ tasks' = tasks
  BY DEF on_interrupt, tasks
<1>3. Saved(c) \in [tasks -> TaskPlaces]
  BY <1>1 DEF Saved, ThreadTypeOK, OwnTasks
<1>4. CASE Mine(c) = {}
  <2>1. currents[c] = None
    BY <1>1, <1>4, TaskHasCpu DEF OwnTasks, Mine, ThreadTypeOK
  <2>2. currents' = currents /\ at' = [at EXCEPT ![c] = "search"] /\ context' = context
    BY <1>2, <1>4, <2>1 DEF on_interrupt, Saved
  <2>3. ThreadTypeOK' /\ OwnTasks'
    BY <1>1, <1>2, <1>4, <2>1, <2>2 DEF ThreadTypeOK, OwnTasks, Mine
  <2>4. \A t \in tasks : PlaceOf(t)' = PlaceOf(t)
    BY <1>1, <2>1, <2>2 DEF PlaceOf, ThreadTypeOK
  <2>. QED  BY <1>1, <1>2, <2>3, <2>4 DEF ThreadInv, OneInside, Inside
<1>5. CASE Mine(c) # {}
  <2>1. from \in tasks
    BY <1>1 DEF ThreadTypeOK, tasks
  <2>2. to \in tasks /\ to % ncpu = c
    BY <1>1, <1>5, <2>1, SearchEnds DEF Mine
  <2>3. /\ currents' = [currents EXCEPT ![c] = to]
        /\ at' = [at EXCEPT ![c] = Saved(c)[to]]
    BY <1>5 DEF on_interrupt
  <2> HIDE DEF to, from
  <2>4. Saved(c)[to] \in TaskPlaces
    BY <1>3, <2>2
  <2>5. ThreadTypeOK'
    BY <1>1, <1>2, <1>3, <2>2, <2>3, <2>4 DEF ThreadTypeOK
  <2>6. OwnTasks'
    BY <1>1, <1>2, <2>2, <2>3, <2>4 DEF OwnTasks, ThreadTypeOK, Mine, TaskPlaces
  <2>7. \A t \in tasks : PlaceOf(t)' = PlaceOf(t)
    <3> TAKE t \in tasks
    <3>1. t % ncpu \in CPUs
      BY TaskHasCpu DEF tasks
    <3>2. CASE t % ncpu # c
      <4>1. currents[c] # t
        BY <1>1, <3>2 DEF OwnTasks
      <4>2. Saved(c)[t] = context[t]
        BY <1>1, <4>1 DEF Saved, ThreadTypeOK
      <4>. QED  BY <1>1, <1>2, <2>3, <3>1, <3>2, <4>2 DEF PlaceOf, ThreadTypeOK
    <3>3. CASE t % ncpu = c
      <4>1. Saved(c)[t] = PlaceOf(t)
        BY <1>1, <3>3 DEF Saved, PlaceOf, ThreadTypeOK
      <4>2. currents'[c] = to /\ at'[c] = Saved(c)[to]
        BY <1>1, <2>3 DEF ThreadTypeOK
      <4>. QED  BY <1>2, <3>3, <4>1, <4>2 DEF PlaceOf
    <3>. QED  BY <3>2, <3>3
  <2>. QED  BY <1>1, <1>2, <2>5, <2>6, <2>7 DEF ThreadInv, OneInside, Inside
<1>. QED  BY <1>4, <1>5

(* A task that goes on is the one its processor runs, and only it moves.   *)
LEMMA StepOfTask ==
    ASSUME ThreadInv, NEW c \in CPUs, NEW l \in TaskPlaces, NEW m \in TaskPlaces,
           Step(c, l, m), UNCHANGED <<ntask, context, currents>>, printLock' \in BOOLEAN
    PROVE  /\ ThreadTypeOK' /\ OwnTasks' /\ tasks' = tasks
           /\ \E t \in tasks : /\ PlaceOf(t) = l /\ PlaceOf(t)' = m
                               /\ \A u \in tasks : u # t => PlaceOf(u)' = PlaceOf(u)
<1>1. ThreadTypeOK /\ OwnTasks
  BY DEF ThreadInv
<1>2. at[c] = l /\ at' = [at EXCEPT ![c] = m]
  BY DEF Step
<1>3. currents[c] \in tasks /\ currents[c] % ncpu = c
  BY <1>1, <1>2 DEF OwnTasks, TaskPlaces, ThreadTypeOK
<1>4. ThreadTypeOK' /\ OwnTasks' /\ tasks' = tasks
  BY <1>1, <1>2, <1>3 DEF ThreadTypeOK, OwnTasks, TaskPlaces, tasks, Mine
<1>5. PlaceOf(currents[c]) = l /\ PlaceOf(currents[c])' = m
  BY <1>1, <1>2, <1>3 DEF PlaceOf, ThreadTypeOK
<1>6. ASSUME NEW u \in tasks, u # currents[c] PROVE PlaceOf(u)' = PlaceOf(u)
  <2>1. u % ncpu \in CPUs
    BY TaskHasCpu DEF tasks
  <2>. QED  BY <1>1, <1>2, <1>6, <2>1 DEF PlaceOf, ThreadTypeOK
<1>. QED  BY <1>3, <1>4, <1>5, <1>6

(* The steps of func keep the invariant (thread-os.c:23-33).               *)
LEMMA FuncKeeps ==
    ASSUME ThreadInv, NEW c \in CPUs, func(c)
    PROVE  ThreadInv'
<1>1. OneInside /\ printLock \in BOOLEAN
  BY DEF ThreadInv, ThreadTypeOK
<1>2. CASE lock(c)
  <2>1. Step(c, "lock", "print") /\ ~printLock /\ printLock' = TRUE /\ UNCHANGED <<ntask, context, currents>>
    BY <1>2 DEF lock
  <2>2. PICK t \in tasks : /\ PlaceOf(t) = "lock" /\ PlaceOf(t)' = "print"
                           /\ \A u \in tasks : u # t => PlaceOf(u)' = PlaceOf(u)
    BY <2>1, StepOfTask DEF TaskPlaces
  <2>3. ThreadTypeOK' /\ OwnTasks' /\ tasks' = tasks
    BY <2>1, StepOfTask DEF TaskPlaces
  <2>. QED  BY <1>1, <2>1, <2>2, <2>3 DEF ThreadInv, OneInside, Inside
<1>3. CASE Printed(c)
  <2>1. Step(c, "print", "unlock") /\ printLock' = printLock /\ UNCHANGED <<ntask, context, currents>>
    BY <1>3 DEF Printed
  <2>2. PICK t \in tasks : /\ PlaceOf(t) = "print" /\ PlaceOf(t)' = "unlock"
                           /\ \A u \in tasks : u # t => PlaceOf(u)' = PlaceOf(u)
    BY <1>1, <2>1, StepOfTask DEF TaskPlaces
  <2>3. ThreadTypeOK' /\ OwnTasks' /\ tasks' = tasks
    BY <1>1, <2>1, StepOfTask DEF TaskPlaces
  <2>. QED  BY <1>1, <2>1, <2>2, <2>3 DEF ThreadInv, OneInside, Inside
<1>4. CASE unlock(c)
  <2>1. Step(c, "unlock", "delay") /\ printLock' = FALSE /\ UNCHANGED <<ntask, context, currents>>
    BY <1>4 DEF unlock
  <2>2. PICK t \in tasks : /\ PlaceOf(t) = "unlock" /\ PlaceOf(t)' = "delay"
                           /\ \A u \in tasks : u # t => PlaceOf(u)' = PlaceOf(u)
    BY <2>1, StepOfTask DEF TaskPlaces
  <2>3. ThreadTypeOK' /\ OwnTasks' /\ tasks' = tasks
    BY <2>1, StepOfTask DEF TaskPlaces
  <2>. QED  BY <1>1, <2>1, <2>2, <2>3 DEF ThreadInv, OneInside, Inside
<1>5. CASE Delayed(c)
  <2>1. Step(c, "delay", "lock") /\ printLock' = printLock /\ UNCHANGED <<ntask, context, currents>>
    BY <1>5 DEF Delayed
  <2>2. PICK t \in tasks : /\ PlaceOf(t) = "delay" /\ PlaceOf(t)' = "lock"
                           /\ \A u \in tasks : u # t => PlaceOf(u)' = PlaceOf(u)
    BY <1>1, <2>1, StepOfTask DEF TaskPlaces
  <2>3. ThreadTypeOK' /\ OwnTasks' /\ tasks' = tasks
    BY <1>1, <2>1, StepOfTask DEF TaskPlaces
  <2>. QED  BY <1>1, <2>1, <2>2, <2>3 DEF ThreadInv, OneInside, Inside
<1>. QED  BY <1>2, <1>3, <1>4, <1>5 DEF func

(* Every step keeps it.                                                    *)
LEMMA ThreadStepKeeps ==
    ASSUME ThreadInv, [ThreadNext]_<<smpVars, threadVars>>
    PROVE  ThreadInv'
<1>1. CASE UNCHANGED threadVars
  BY <1>1 DEF threadVars, ThreadInv, ThreadTypeOK, OwnTasks, OneInside, Inside, PlaceOf,
              tasks, Mine
<1>2. CASE ThreadNext
  BY <1>1, <1>2, InterruptKeeps, FuncKeeps DEF ThreadNext
<1>. QED  BY <1>1, <1>2

(* No task of the demonstration runs on two processors, its lock excludes, *)
(* and only a processor with a number above every task's searches for ever *)
(* (thread-os.c:23-33, 45-53), for any number of both.                     *)
THEOREM ThreadsSoundHolds == ThreadSpec => []ThreadsSound
<1>1. SmpInit /\ ThreadInit => ThreadInv
  BY ThreadInitHolds
<1>2. ThreadInv /\ [ThreadNext]_<<smpVars, threadVars>> => ThreadInv'
  BY ThreadStepKeeps
<1>3. ThreadInv => ThreadsSound
  BY ThreadInvImplies
<1>. QED  BY <1>1, <1>2, <1>3, PTL DEF ThreadSpec

-----------------------------------------------------------------------------
(* CoroutinesSound of Libco.                                               *)
(*                                                                         *)
(* Main runs the others only from co_wait, and then waits for the last of  *)
(* the ring; so what is current is settled by who waits, and a context is  *)
(* resumed on its own stack.  A dead coroutine is still a link while its   *)
(* last call of co_yield looks for a successor: with two linked in beside  *)
(* main, the successor is main, or the other one, which lives.             *)

Alive(a) == status[a] \in {"RUNNING", "WAITING"}
Waiting == status[Main] = "WAITING"

CoTypeOK ==
    /\ status \in [All -> {"NONE", "NEW", "RUNNING", "WAITING", "DEAD", "FREED"}]
    /\ next \in [All -> All \cup {Null}] /\ front \in [All -> All \cup {Null}]
    /\ DOMAIN waiter = All /\ DOMAIN coContext = All /\ DOMAIN local = All
    /\ current \in All /\ stack \in All
    /\ ran \in [Co -> Nat]

\* The ring: every link has its inverse, and only main may be alone.
Linked ==
    /\ Alive(Main)
    /\ \A a \in InRing : /\ next[a] \in InRing /\ front[a] \in InRing
                         /\ front[next[a]] = a /\ next[front[a]] = a
                         /\ a # Main => next[a] # a

\* Which stack executes, and which coroutine is current.
Control ==
    /\ current \in InRing /\ status[current] # "NEW"
    /\ Alive(current) => stack = current
    /\ coPc # "crash" => Alive(stack)
    /\ stack = Main => coPc \in {"code", "wait", "exit"}
    /\ stack # Main => coPc \in {"code", "crash"} /\ Waiting
    /\ stack = Main => (coPc = "wait" <=> Waiting)
    /\ ~Waiting => current = Main
    /\ stack = front[Main] => current = stack
    /\ \A c \in Co : status[c] # "WAITING"

\* Main waits for the last of the ring.
Waits ==
    Waiting =>
        /\ front[Main] # Main
        /\ local[Main] = front[Main] /\ waiter[front[Main]] = Main
        /\ status[front[Main]] = "DEAD" => stack = Main /\ current = Main

\* A coroutine that may be resumed has its own stack in its context.
Contexts ==
    /\ \A a \in All : Alive(a) /\ a # current => coContext[a].stack = a
    /\ current # Main => coContext[Main].local = local[Main]

RingInv == CoTypeOK /\ Linked /\ Control /\ Waits /\ Contexts

\* While at most two are linked in beside main, no frame is resumed twice.
Once ==
    /\ Cardinality(InRing \ {Main}) <= 2
    /\ coPc # "crash"
    /\ stack = Main \/ stack = current
    /\ IterationsOnce
    /\ \A c \in Co : Alive(c) /\ c # current => coContext[c].local = local[c]

-----------------------------------------------------------------------------

(* What a call of co_yield on the stack of s finds: the statuses and the   *)
(* locals it is called with.                                               *)
Called(st, loc, dead) ==
    /\ Waiting /\ coPc \in {"code", "wait"}
    /\ stack = Main => st = status /\ loc = local /\ status[front[Main]] # "DEAD"
    /\ \/ st = status /\ ~dead
       \/ st = [status EXCEPT ![stack] = "DEAD"] /\ loc = local /\ dead /\ stack # Main
    /\ DOMAIN loc = All /\ \A a \in All \ {stack} : loc[a] = local[a]

LEMMA Yields ==
    ASSUME RingInv, NEW st, NEW loc, NEW dead \in BOOLEAN, Called(st, loc, dead),
           CoYield(st, loc, dead), UNCHANGED links, ran' \in [Co -> Nat]
    PROVE  RingInv'
<1>. DEFINE n == next[current]
            ctx == [coContext EXCEPT ![current] = Here(loc)]
<1>1. /\ st \in [All -> {"NONE", "NEW", "RUNNING", "WAITING", "DEAD", "FREED"}]
      /\ \A a \in All : a # stack => st[a] = status[a]
      /\ st[stack] = "DEAD" \/ (st[stack] = status[stack] /\ Alive(stack))
      /\ st[Main] = "WAITING"
      /\ Main \in All /\ Co = All \ {Main}
  BY LibcoAssumption DEF RingInv, CoTypeOK, Control, Called, Waiting, Alive, All
<1>2. /\ n \in InRing /\ n \in All /\ current \in All /\ current \in InRing
      /\ front[n] = current /\ (current # Main => n # current)
  BY DEF RingInv, CoTypeOK, Linked, Control, InRing
<1>3. /\ status' = [st EXCEPT ![n] = IF @ = "NEW" THEN "RUNNING" ELSE @]
      /\ current' = n /\ coContext' = ctx
      /\ next' = next /\ front' = front /\ waiter' = waiter
  BY DEF CoYield, links
<1>4. Alive(stack) /\ stack \in All /\ st[stack] \in {status[stack], "DEAD"}
  BY <1>1 DEF RingInv, CoTypeOK, Control, Called
<1>5. \A a \in All : /\ status'[a] = "DEAD" <=> st[a] = "DEAD"
                     /\ status'[a] \notin {"NONE", "FREED"} <=> status[a] \notin {"NONE", "FREED"}
  BY <1>1, <1>2, <1>3, <1>4 DEF Alive
<1>6. InRing' = InRing
  BY <1>5 DEF InRing
<1>7. /\ front[Main] \in InRing /\ front[Main] # Main /\ local[Main] = front[Main]
      /\ waiter[front[Main]] = Main /\ next[front[Main]] = Main
      /\ stack # Main => status[front[Main]] # "DEAD"
      /\ stack = Main => st = status /\ loc = local /\ status[front[Main]] # "DEAD"
      /\ loc[Main] = local[Main]
  BY <1>1 DEF RingInv, Linked, Waits, Called, InRing, Alive
<1>8. /\ current' \in InRing' /\ status'[current'] # "NEW"
      /\ status' \in [All -> {"NONE", "NEW", "RUNNING", "WAITING", "DEAD", "FREED"}]
      /\ status'[Main] = "WAITING"
  BY <1>1, <1>2, <1>3, <1>6
<1>9. /\ DOMAIN ctx = All /\ ctx[current] = Here(loc)
      /\ \A a \in All : a # current => ctx[a] = coContext[a]
  BY <1>2 DEF RingInv, CoTypeOK
<1>10. Linked'
  BY <1>1, <1>3, <1>6, <1>8 DEF RingInv, Linked, Alive
<1>11. \A c \in Co : status'[c] # "WAITING"
  BY <1>1, <1>2, <1>3, <1>4 DEF RingInv, Control
\* The stack that yields is that of the last of the ring: main is next.
<1>12. st[front[Main]] = "DEAD" => n = Main
  BY <1>1, <1>4, <1>7 DEF RingInv, Control, InRing
\* The contexts, with that of this call.
<1>13. \A a \in All : Alive(a) => ctx[a].stack = a
  BY <1>9 DEF Here, RingInv, Control, Contexts
<1>14. ctx[Main].local = loc[Main]
  <2>1. CASE current = Main
    BY <1>7, <1>9, <2>1 DEF Here, RingInv, Control, Linked
  <2>2. CASE current # Main
    BY <1>1, <1>7, <1>9, <2>2 DEF RingInv, Contexts
  <2>. QED  BY <2>1, <2>2
<1>15. \A a \in All : Alive(a)' => Alive(a) \/ (a = n /\ st[n] = "NEW")
  BY <1>1, <1>2, <1>3, <1>4 DEF Alive
<1>16. CASE st[n] = "NEW"
  <2>1. /\ stack' = n /\ local' = loc /\ status'[n] = "RUNNING" /\ n # Main /\ n # stack
        /\ coPc' = "code"
    BY <1>1, <1>2, <1>3, <1>4, <1>16 DEF CoYield, Alive
  <2>2. CoTypeOK'
    BY <1>2, <1>3, <1>8, <1>9, <2>1 DEF RingInv, CoTypeOK, Called
  <2>3. Control'
    BY <1>2, <1>3, <1>8, <1>11, <2>1 DEF Control, Waiting, Alive
  <2>4. Waits'
    BY <1>1, <1>3, <1>5, <1>7, <1>12, <1>16, <2>1 DEF Waits, InRing
  <2>5. Contexts'
    BY <1>3, <1>13, <1>14, <1>15, <2>1 DEF Contexts
  <2>. QED  BY <1>10, <2>2, <2>3, <2>4, <2>5 DEF RingInv
<1>17. CASE st[n] \in {"RUNNING", "WAITING"}
  <2>1. Alive(n) /\ ctx[n].stack = n
    BY <1>2, <1>4, <1>13, <1>17, <1>1 DEF Alive
  <2>2. PICK x \in {ctx[n].local, loc[n]} :
          stack' = n /\ local' = [loc EXCEPT ![n] = x] /\ status' = [st EXCEPT ![n] = st[n]]
    BY <1>1, <1>2, <1>3, <1>17, <2>1 DEF CoYield, Resume
  <2>3. coPc' = (IF n = Main THEN "wait" ELSE "code") /\ status' = st
    BY <1>1, <1>2, <1>17, <2>2 DEF CoYield
  <2>4. DOMAIN local' = All /\ local'[Main] = loc[Main]
    BY <1>1, <1>14, <2>2 DEF Called
  <2>5. CoTypeOK'
    BY <1>2, <1>3, <1>8, <1>9, <2>2, <2>4 DEF RingInv, CoTypeOK
  <2>6. Control'
    BY <1>2, <1>3, <1>8, <1>11, <1>17, <2>2, <2>3 DEF Control, Waiting, Alive
  <2>7. Waits'
    BY <1>1, <1>3, <1>5, <1>7, <1>12, <1>17, <2>2, <2>4 DEF Waits, InRing
  <2>8. Contexts'
    BY <1>3, <1>13, <1>14, <1>15, <1>17, <2>2, <2>4 DEF Contexts
  <2>. QED  BY <1>10, <2>5, <2>6, <2>7, <2>8 DEF RingInv
<1>18. CASE st[n] = "DEAD"
  <2>1. /\ stack' = stack /\ local' = loc /\ coPc' = (IF dead THEN "crash" ELSE coPc)
        /\ status' = st /\ n # Main
    BY <1>1, <1>2, <1>18 DEF CoYield
  <2>2. CoTypeOK'
    BY <1>2, <1>3, <1>4, <1>8, <1>9, <2>1 DEF RingInv, CoTypeOK, Called
  <2>3. dead => stack # Main
    BY DEF Called
  <2>4. ~dead => Alive(stack)'
    BY <1>4, <2>1 DEF Called, Alive
  <2>5. stack # front[Main]
    BY <1>7, <2>1 DEF RingInv, Control
  <2>6. Control'
    BY <1>1, <1>2, <1>3, <1>8, <1>11, <1>18, <2>1, <2>3, <2>4, <2>5
       DEF RingInv, Control, Waiting, Alive, Called
  <2>7. Waits'
    BY <1>1, <1>3, <1>5, <1>7, <1>12, <1>18, <2>1 DEF Waits, InRing
  <2>8. Contexts'
    BY <1>3, <1>13, <1>14, <1>15, <1>18, <2>1 DEF Contexts
  <2>. QED  BY <1>10, <2>2, <2>6, <2>7, <2>8 DEF RingInv
<1>. QED  BY <1>1, <1>2, <1>16, <1>17, <1>18 DEF InRing

LEMMA Starts ==
    ASSUME RingInv, NEW c \in Co, CoStart(c)
    PROVE  RingInv'
<1>1. /\ c \in All /\ c # Main /\ Main \in All /\ c \notin InRing /\ Main \in InRing
      /\ current = Main /\ stack = Main /\ status[Main] = "RUNNING"
  BY LibcoAssumption DEF RingInv, CoTypeOK, Linked, Control, CoStart, InRing, All, Alive, Waiting
<1>2. InRing' = InRing \cup {c}
  BY <1>1 DEF CoStart, RingInv, CoTypeOK, InRing
<1>3. CoTypeOK'
  BY <1>1 DEF CoStart, RingInv, CoTypeOK, Linked, InRing
<1>4. Linked'
  <2>1. /\ next[Main] \in InRing /\ front[next[Main]] = Main /\ next[Main] \in All
        /\ next' = [next EXCEPT ![c] = next[Main], ![Main] = c]
        /\ front' = [front EXCEPT ![c] = Main, ![next[Main]] = c]
    BY <1>1 DEF CoStart, RingInv, Linked, InRing
  <2>2. Alive(Main)'
    BY <1>1 DEF CoStart, RingInv, CoTypeOK, Alive
  <2>3. ASSUME NEW a \in InRing'
        PROVE  /\ next'[a] \in InRing' /\ front'[a] \in InRing'
               /\ front'[next'[a]] = a /\ next'[front'[a]] = a
               /\ a # Main => next'[a] # a
    <3>1. CASE a = c
      BY <1>1, <1>2, <2>1, <3>1 DEF RingInv, CoTypeOK
    <3>2. CASE a # c
      BY <1>1, <1>2, <2>1, <2>3, <3>2 DEF RingInv, CoTypeOK, Linked, InRing
    <3>. QED  BY <3>1, <3>2
  <2>. QED  BY <2>2, <2>3 DEF Linked
<1>5. Control'
  <2>1. status' = [status EXCEPT ![c] = "NEW"] /\ UNCHANGED <<current, stack, coPc>>
    BY DEF CoStart
  <2>. QED  BY <1>1, <1>2, <2>1 DEF RingInv, CoTypeOK, Control, Waiting, Alive
<1>6. Waits' /\ Contexts'
  BY <1>1 DEF CoStart, RingInv, CoTypeOK, Waits, Contexts, Waiting, Alive
<1>. QED  BY <1>3, <1>4, <1>5, <1>6 DEF RingInv

(* Main waits for the coroutine before it in the ring.                     *)
LEMMA WaitBegins ==
    ASSUME RingInv, stack = Main, coPc = "code", NEW c, c = front[Main], c # Main, CoWait(c)
    PROVE  RingInv'
<1>1. /\ c \in InRing /\ c \in All /\ Main \in InRing /\ Main \in All
      /\ current = Main /\ status[Main] = "RUNNING" /\ next[c] = Main
  BY DEF RingInv, Linked, Control, InRing, Alive, Waiting, All
<1>2. status' = [status EXCEPT ![Main] = "WAITING"] /\ UNCHANGED <<next, front, current, stack>>
  BY <1>1 DEF CoWait
<1>3. InRing' = InRing
  BY <1>1, <1>2 DEF RingInv, CoTypeOK, InRing
<1>4. CoTypeOK' /\ Linked'
  BY <1>1, <1>2, <1>3 DEF CoWait, RingInv, CoTypeOK, Linked, Alive
<1>5. Control'
  BY <1>1, <1>2, <1>3, LibcoAssumption DEF CoWait, RingInv, CoTypeOK, Control, Waiting, Alive
<1>6. Waits' /\ Contexts'
  BY <1>1, <1>2 DEF CoWait, RingInv, CoTypeOK, Waits, Contexts, Waiting, Alive
<1>. QED  BY <1>4, <1>5, <1>6 DEF RingInv

LEMMA MainWaitsStep ==
    ASSUME RingInv, MainWaits
    PROVE  RingInv'
<1>1. front[Main] # Main
  BY DEF MainWaits, RingInv, Linked, InRing, Alive, All
<1>. QED  BY <1>1, WaitBegins DEF MainWaits

LEMMA WaitDoneStep ==
    ASSUME RingInv, WaitDone
    PROVE  RingInv'
<1>. DEFINE c == local[Main]
<1>1. /\ Waiting /\ c = front[Main] /\ c # Main /\ status[c] = "DEAD" /\ waiter[c] = Main
      /\ stack = Main /\ current = Main
      /\ c \in InRing /\ c \in All /\ c \in Co /\ Main \in InRing /\ Main \in All /\ next[c] = Main
      /\ front[c] \in InRing /\ front[c] \in All /\ front[c] # c /\ next[front[c]] = c
  BY DEF WaitDone, RingInv, Control, Waits, Linked, InRing, Alive, All
<1>2. /\ status' = [status EXCEPT ![Main] = "RUNNING", ![c] = "FREED"]
      /\ next' = [next EXCEPT ![front[c]] = Main] /\ front' = [front EXCEPT ![Main] = front[c]]
      /\ UNCHANGED <<waiter, coContext, current, stack, ran>>
      /\ local' = [local EXCEPT ![Main] = Null] /\ coPc' = "code"
  BY <1>1 DEF WaitDone
<1>3. InRing' = InRing \ {c}
  BY <1>1, <1>2 DEF RingInv, CoTypeOK, InRing
<1>4. CoTypeOK'
  BY <1>1, <1>2 DEF RingInv, CoTypeOK
<1>5. ASSUME NEW a \in InRing'
      PROVE  /\ next'[a] \in InRing' /\ front'[a] \in InRing'
             /\ front'[next'[a]] = a /\ next'[front'[a]] = a
             /\ a # Main => next'[a] # a
  <2>1. /\ a \in InRing /\ a # c /\ a \in All /\ next[a] \in InRing /\ front[a] \in InRing
        /\ next[a] \in All /\ front[a] \in All
        /\ front[next[a]] = a /\ next[front[a]] = a /\ (a # Main => next[a] # a)
    BY <1>3, <1>5 DEF RingInv, Linked, InRing
  <2>. QED  BY <1>1, <1>2, <1>3, <2>1 DEF RingInv, CoTypeOK
<1>6. Linked'
  BY <1>1, <1>2, <1>5 DEF RingInv, CoTypeOK, Linked, Alive
<1>7. Control'
  <2>1. /\ status'[Main] = "RUNNING" /\ current' = Main /\ stack' = Main /\ coPc' = "code"
        /\ \A a \in Co : status'[a] \in {status[a], "FREED"}
    BY <1>1, <1>2, LibcoAssumption DEF RingInv, CoTypeOK, All
  <2>2. \A a \in Co : status'[a] # "WAITING"
    BY <2>1 DEF RingInv, Control
  <2>3. Main \in InRing'
    BY <1>1, <1>3
  <2>. QED  BY <2>1, <2>2, <2>3 DEF Control, Waiting, Alive
<1>8. Waits' /\ Contexts'
  BY <1>1, <1>2, LibcoAssumption DEF RingInv, CoTypeOK, Waits, Contexts, Waiting, Alive
<1>. QED  BY <1>4, <1>6, <1>7, <1>8 DEF RingInv

LEMMA ExitStep ==
    ASSUME RingInv, Exit
    PROVE  RingInv'
<1>1. /\ stack = Main /\ current = Main /\ Main \in InRing /\ coPc = "code"
      /\ next[Main] \in InRing /\ front[Main] \in InRing
      /\ next[front[Main]] = Main /\ front[next[Main]] = Main
  BY DEF Exit, RingInv, Control, Linked, InRing, Alive, All, Waiting
<1>2. CASE next[current] = current
  <2>1. coPc' = "exit" /\ UNCHANGED <<status, next, front, waiter, coContext, current, stack, local, ran>>
    BY <1>2 DEF Exit, links
  <2>. QED  BY <1>1, <2>1 DEF RingInv, CoTypeOK, Linked, Control, Waits, Contexts, InRing, Alive, Waiting
<1>3. CASE next[current] # current
  <2>1. CoWait(next[Main])
    BY <1>1, <1>3 DEF Exit
  <2>2. front[Main] # Main
    BY <1>1, <1>3
  <2>3. next[Main] = front[Main]
    <3>1. SUFFICES ASSUME next[Main] # front[Main] PROVE FALSE
      OBVIOUS
    <3>2. IsFiniteSet(InRing)
      BY LibcoAssumption, FS_AddElement, FS_Subset DEF InRing, All
    <3>3. {Main, next[Main]} \cup {front[Main]} \subseteq InRing
      BY <1>1
    <3>4. Cardinality({Main, next[Main]} \cup {front[Main]}) = 3
      <4>1. Cardinality({Main}) = 1 /\ IsFiniteSet({Main})
        BY FS_Singleton
      <4>2. Cardinality({Main} \cup {next[Main]}) = 2 /\ IsFiniteSet({Main} \cup {next[Main]})
        BY <1>1, <1>3, <4>1, FS_AddElement, SMTT(60)
      <4>3. {Main} \cup {next[Main]} = {Main, next[Main]}
        OBVIOUS
      <4>. QED  BY <2>2, <3>1, <4>2, <4>3, FS_AddElement, SMTT(60)
    <3>5. Cardinality(InRing) \in Nat /\ 3 <= Cardinality(InRing)
      BY <3>2, <3>3, <3>4, FS_Subset, FS_CardinalityType
    <3>. QED  BY <3>5 DEF Exit
  <2>. QED  BY <1>1, <2>1, <2>2, <2>3, WaitBegins
<1>. QED  BY <1>2, <1>3

LEMMA WaitLoopStep ==
    ASSUME RingInv, WaitLoop
    PROVE  RingInv'
<1>1. Called(status, local, FALSE)
  BY DEF WaitLoop, RingInv, CoTypeOK, Control, Waits, Called, Waiting
<1>2. ran' \in [Co -> Nat]
  BY DEF WaitLoop, RingInv, CoTypeOK
<1>. QED  BY <1>1, <1>2, Yields DEF WaitLoop

LEMMA IterateStep ==
    ASSUME RingInv, Iterate
    PROVE  RingInv'
<1>1. Called(status, [local EXCEPT ![stack] = @ + 1], FALSE)
  BY DEF Iterate, RingInv, CoTypeOK, Control, Called
<1>2. ran' \in [Co -> Nat]
  BY DEF Iterate, RingInv, CoTypeOK, All
<1>. QED  BY <1>1, <1>2, Yields DEF Iterate

LEMMA FinishStep ==
    ASSUME RingInv, Finish
    PROVE  RingInv'
<1>1. Called([status EXCEPT ![stack] = "DEAD"], local, TRUE)
  BY DEF Finish, RingInv, CoTypeOK, Control, Called
<1>2. ran' \in [Co -> Nat]
  BY DEF Finish, RingInv, CoTypeOK
<1>. QED  BY <1>1, <1>2, Yields DEF Finish

LEMMA RingStarts == CoInit => RingInv
  BY LibcoAssumption DEF CoInit, RingInv, CoTypeOK, Linked, Control, Waits, Contexts, InRing, Alive,
     Waiting, All

LEMMA RingStep == RingInv /\ [CoNext]_coVars => RingInv'
<1>1. ASSUME RingInv, UNCHANGED coVars PROVE RingInv'
  BY <1>1 DEF coVars, RingInv, CoTypeOK, Linked, Control, Waits, Contexts, InRing, Alive, Waiting
<1>. QED  BY <1>1, Starts, MainWaitsStep, WaitLoopStep, WaitDoneStep, ExitStep, IterateStep,
             FinishStep DEF CoNext

LEMMA RingHolds == CoSpec => []RingInv
  BY RingStarts, RingStep, PTL DEF CoSpec

-----------------------------------------------------------------------------
(* With at most two linked in beside main, no frame is resumed twice.      *)

\* A coroutine that runs yields to main or to the last of the ring: not to a
\* dead one, for main is still waiting for the last.
LEMMA NextLives ==
    ASSUME RingInv, Once, Waiting, stack # Main
    PROVE  status[next[current]] # "DEAD" /\ current = stack /\ next[current] # current
<1>. DEFINE a == current
            n == next[current]
<1>1. /\ a = stack /\ a # Main /\ a \in InRing /\ n \in InRing /\ n # a
      /\ front[Main] \in InRing /\ front[Main] # Main /\ next[front[Main]] = Main
      /\ status[Main] = "WAITING" /\ status[front[Main]] # "DEAD" /\ IsFiniteSet(InRing)
  BY LibcoAssumption, FS_AddElement, FS_Subset
     DEF RingInv, Linked, Control, Waits, Once, Waiting, InRing, Alive, All
<1>2. CASE n = Main
  BY <1>1, <1>2
<1>3. CASE n # Main
  <2>1. SUFFICES ASSUME n # front[Main] PROVE FALSE
    BY <1>1
  <2>2. Cardinality({a}) = 1 /\ IsFiniteSet({a})
    BY FS_Singleton
  <2>3. Cardinality({a} \cup {n}) = 2 /\ IsFiniteSet({a} \cup {n})
    <3>1. n \notin {a}
      BY <1>1
    <3>. HIDE DEF a, n
    <3>. QED  BY <2>2, <3>1, FS_AddElement
  <2>4. front[Main] \notin {a} \cup {n}
    BY <1>1, <1>3, <2>1
  <2>5. Cardinality({a} \cup {n} \cup {front[Main]}) = 3
    <3>. DEFINE two == {a} \cup {n}
                f == front[Main]
    <3>1. IsFiniteSet(two) /\ Cardinality(two) = 2 /\ f \notin two
      BY <2>3, <2>4
    <3>. HIDE DEF two, f
    <3>2. Cardinality(two \cup {f}) = Cardinality(two) + 1
      BY <3>1, FS_AddElement, Zenon
    <3>3. Cardinality(two \cup {f}) = 3
      BY <3>1, <3>2
    <3>. QED  BY <3>3 DEF two, f
  <2>6. {a} \cup {n} \cup {front[Main]} \subseteq InRing \ {Main}
    BY <1>1, <1>3
  <2>7. IsFiniteSet(InRing \ {Main}) /\ Cardinality(InRing \ {Main}) \in Nat
    BY <1>1, FS_Subset, FS_CardinalityType
  <2>8. 3 <= Cardinality(InRing \ {Main})
    BY <2>5, <2>6, <2>7, FS_Subset
  <2>. QED  BY <2>7, <2>8 DEF Once
<1>. QED  BY <1>1, <1>2, <1>3

LEMMA YieldsOnce ==
    ASSUME RingInv, Once, NEW st, NEW loc, NEW dead \in BOOLEAN, Called(st, loc, dead),
           CoYield(st, loc, dead), UNCHANGED links, \A c \in Co : ran'[c] = loc[c]
    PROVE  Once'
<1>. DEFINE n == next[current]
            ctx == [coContext EXCEPT ![current] = Here(loc)]
<1>1. /\ st \in [All -> {"NONE", "NEW", "RUNNING", "WAITING", "DEAD", "FREED"}]
      /\ \A a \in All : a # stack => st[a] = status[a]
      /\ st[stack] = "DEAD" \/ (st[stack] = status[stack] /\ Alive(stack))
      /\ st[Main] = "WAITING" /\ status[Main] = "WAITING"
      /\ Main \in All /\ Co = All \ {Main} /\ stack \in All /\ Alive(stack)
  BY LibcoAssumption DEF RingInv, CoTypeOK, Control, Called, Waiting, Alive, All
<1>2. /\ n \in InRing /\ n \in All /\ current \in All /\ n # current
      /\ front[Main] # Main /\ front[n] = current
  BY <1>1 DEF RingInv, CoTypeOK, Linked, Control, Waits, Called, InRing
<1>3. /\ status' = [st EXCEPT ![n] = IF @ = "NEW" THEN "RUNNING" ELSE @]
      /\ current' = n /\ coContext' = ctx
  BY DEF CoYield
<1>4. InRing' = InRing
  BY <1>1, <1>2, <1>3 DEF InRing, Alive
<1>5. /\ DOMAIN ctx = All /\ ctx[current] = [stack |-> stack, local |-> loc[stack]]
      /\ \A a \in All : a # current => ctx[a] = coContext[a]
  BY <1>2 DEF RingInv, CoTypeOK, Here
<1>6. stack # Main => current = stack /\ st[n] # "DEAD"
  BY <1>1, <1>2, NextLives DEF Called
<1>7. st[n] = "DEAD" => stack = Main /\ ~dead
  BY <1>6 DEF Called
<1>8. /\ DOMAIN loc = All /\ \A a \in All : a # stack => loc[a] = local[a]
      /\ stack = Main => loc = local /\ st = status
  BY DEF Called
<1>9. \A c \in Co : Alive(c) /\ c # current => ctx[c].local = loc[c] /\ c # stack
  BY <1>1, <1>5, <1>6, <1>8 DEF Once
<1>10. n \in Co /\ st[n] \in {"RUNNING", "WAITING"} => Alive(n) /\ ctx[n].local = loc[n]
  BY <1>1, <1>2, <1>9 DEF Alive
<1>11. ctx[n].stack = n \/ st[n] \notin {"RUNNING", "WAITING"}
  BY <1>1, <1>2, <1>5 DEF RingInv, Contexts, Alive
<1>12. /\ coPc' # "crash"
       /\ stack' = Main \/ stack' = n
       /\ \A c \in Co : local'[c] = loc[c]
  <2>1. CASE st[n] = "NEW"
    BY <2>1 DEF CoYield
  <2>2. CASE st[n] \in {"RUNNING", "WAITING"}
    <3>1. PICK x \in {ctx[n].local, loc[n]} : stack' = n /\ local' = [loc EXCEPT ![n] = x]
      BY <1>11, <2>2 DEF CoYield, Resume
    <3>2. \A c \in Co : local'[c] = loc[c]
      BY <1>1, <1>2, <1>8, <1>10, <2>2, <3>1
    <3>. QED  BY <2>2, <3>1, <3>2 DEF CoYield
  <2>3. CASE st[n] = "DEAD"
    BY <1>7, <2>3 DEF CoYield, Called
  <2>. QED  BY <1>1, <1>2, <2>1, <2>2, <2>3 DEF InRing, Alive
<1>13. ASSUME NEW c \in Co, Alive(c)', c # n PROVE ctx[c].local = loc[c]
  <2>1. c \in All /\ st[c] \in {"RUNNING", "WAITING"} /\ c # Main
    BY <1>1, <1>2, <1>3, <1>13 DEF Alive
  <2>2. CASE c = current
    <3>1. stack = c
      BY <1>1, <1>8, <2>1, <2>2 DEF RingInv, Control, Alive
    <3>. QED  BY <1>5, <2>2, <3>1
  <2>3. CASE c # current
    <3>1. c # stack
      BY <1>6, <2>1, <2>3
    <3>. QED  BY <1>1, <1>9, <2>1, <2>3, <3>1 DEF Alive
  <2>. QED  BY <2>2, <2>3
<1>. QED  BY <1>1, <1>3, <1>4, <1>12, <1>13 DEF Once, IterationsOnce

\* Main's own steps leave the coroutines' frames alone.
LEMMA StaysOnce ==
    ASSUME RingInv, Once, UNCHANGED <<coContext, current, stack, ran>>, coPc' # "crash",
           InRing' \subseteq InRing, \A c \in Co : Alive(c)' => Alive(c),
           \A c \in Co : local'[c] = local[c]
    PROVE  Once'
<1>1. IsFiniteSet(InRing \ {Main}) /\ InRing' \ {Main} \subseteq InRing \ {Main}
  BY LibcoAssumption, FS_AddElement, FS_Subset DEF InRing, All
<1>2. Cardinality(InRing' \ {Main}) <= Cardinality(InRing \ {Main})
      /\ Cardinality(InRing' \ {Main}) \in Nat /\ Cardinality(InRing \ {Main}) \in Nat
  BY <1>1, FS_Subset, FS_CardinalityType
<1>3. Cardinality(InRing' \ {Main}) <= 2
  BY <1>2 DEF Once
<1>. QED  BY <1>3 DEF Once, IterationsOnce

LEMMA OnceStep ==
    ASSUME MaxInRing <= 2, RingInv, Once, [CoNext]_coVars
    PROVE  Once'
<1>. Main \in All /\ \A c \in Co : c \in All /\ c # Main
  BY LibcoAssumption DEF All
<1>. stack = Main /\ coPc = "code" => current = Main
  BY DEF RingInv, Control, Waiting
<1>1. ASSUME NEW c \in Co, CoStart(c) PROVE Once'
  <2>1. status' = [status EXCEPT ![c] = "NEW"] /\ status[c] = "NONE"
        /\ UNCHANGED <<coContext, current, stack, local, coPc, ran>>
    BY <1>1 DEF CoStart
  <2>2. InRing' \ {Main} = (InRing \ {Main}) \cup {c} /\ c \notin InRing \ {Main}
    BY <2>1 DEF RingInv, CoTypeOK, InRing
  <2>3. IsFiniteSet(InRing \ {Main})
    BY LibcoAssumption, FS_AddElement, FS_Subset DEF InRing, All
  <2>4. Cardinality(InRing' \ {Main}) = Cardinality(InRing \ {Main}) + 1
        /\ Cardinality(InRing \ {Main}) \in Nat
    BY <2>2, <2>3, FS_AddElement, FS_CardinalityType
  <2>5. Cardinality(InRing' \ {Main}) <= 2
    BY <1>1, <2>4, LibcoAssumption DEF CoStart
  <2>6. \A a \in Co : Alive(a)' => Alive(a)
    BY <2>1 DEF RingInv, CoTypeOK, Alive
  <2>. QED  BY <2>1, <2>5, <2>6 DEF Once, IterationsOnce
<1>2. ASSUME NEW c, current = Main, CoWait(c) PROVE Once'
  <2>1. /\ InRing' \subseteq InRing /\ \A a \in Co : Alive(a)' => Alive(a)
        /\ \A a \in Co : local'[a] = local[a]
    BY <1>2 DEF CoWait, RingInv, CoTypeOK, Linked, InRing, Alive
  <2>. QED  BY <1>2, <2>1, StaysOnce DEF CoWait
<1>3. CASE WaitDone
  <2>1. /\ InRing' \subseteq InRing /\ \A a \in Co : Alive(a)' => Alive(a)
        /\ \A a \in Co : local'[a] = local[a]
    BY <1>3, LibcoAssumption
       DEF WaitDone, RingInv, CoTypeOK, Linked, Control, Waits, InRing, Alive, Waiting
  <2>. QED  BY <1>3, <2>1, StaysOnce DEF WaitDone
<1>4. CASE Exit /\ next[current] = current
  BY <1>4, StaysOnce DEF Exit, Alive, InRing, links
<1>5. CASE WaitLoop
  <2>1. Called(status, local, FALSE)
    BY <1>5 DEF WaitLoop, RingInv, CoTypeOK, Control, Waits, Called, Waiting
  <2>. QED  BY <1>5, <2>1, YieldsOnce DEF WaitLoop, Once, IterationsOnce
<1>6. CASE Iterate
  <2>. DEFINE loc == [local EXCEPT ![stack] = @ + 1]
  <2>1. Called(status, loc, FALSE)
    BY <1>6 DEF Iterate, RingInv, CoTypeOK, Control, Called
  <2>2. \A c \in Co : ran'[c] = loc[c]
    BY <1>6 DEF Iterate, RingInv, CoTypeOK, Once, IterationsOnce
  <2>. QED  BY <1>6, <2>1, <2>2, YieldsOnce DEF Iterate
<1>7. CASE Finish
  <2>1. Called([status EXCEPT ![stack] = "DEAD"], local, TRUE)
    BY <1>7 DEF Finish, RingInv, CoTypeOK, Control, Called
  <2>. QED  BY <1>7, <2>1, YieldsOnce DEF Finish, Once, IterationsOnce
<1>8. CASE UNCHANGED coVars
  BY <1>8, StaysOnce DEF coVars, Alive, InRing, Once
<1>. QED  BY <1>1, <1>2, <1>3, <1>4, <1>5, <1>6, <1>7, <1>8 DEF CoNext, MainWaits, Exit

(* The ring of coroutines stays doubly linked with current in it, and main *)
(* is current again when co_wait returns, however many are linked in       *)
(* (co.c 97-101, 114-116, 143).                                            *)
THEOREM RingIntactHolds == CoSpec => [](RingIntact /\ MainIsCurrentAgain)
<1>1. RingInv => RingIntact /\ MainIsCurrentAgain
  BY DEF RingInv, Linked, Control, RingIntact, MainIsCurrentAgain, Waiting, Alive
<1>. QED  BY <1>1, RingHolds, PTL

(* While main keeps at most two coroutines linked in, every iteration is   *)
(* executed once and wrapper never returns either (co.c 122-138).          *)
THEOREM CoroutinesSoundHolds ==
    ASSUME MaxInRing <= 2
    PROVE  CoSpec => [](CoroutinesSound /\ WrapperNeverReturns)
<1>1. CoInit => Once
  <2>1. ASSUME CoInit PROVE Once
    <3>1. InRing \ {Main} = {} /\ \A c \in Co : c # Main
      BY <2>1, LibcoAssumption DEF CoInit, InRing, All
    <3>2. Cardinality(InRing \ {Main}) = 0
      BY <3>1, FS_EmptySet
    <3>. QED  BY <2>1, <3>1, <3>2 DEF CoInit, Once, IterationsOnce, Alive, All
  <2>. QED  BY <2>1
<1>2. RingInv /\ Once /\ [CoNext]_coVars => Once'
  BY OnceStep
<1>3. RingInv /\ Once => CoroutinesSound /\ WrapperNeverReturns
  BY DEF RingInv, Linked, Control, RingIntact, MainIsCurrentAgain, Waiting, Alive, Once,
     CoroutinesSound, WrapperNeverReturns
<1>. QED  BY <1>1, <1>2, <1>3, RingHolds, PTL DEF CoSpec

-----------------------------------------------------------------------------
(* FlatDisk of SdDev.                                                      *)
(*                                                                         *)
(* A call is at an offset of its range, in a block; up to there it has done*)
(* its work, and the buffer holds what its place in the loop says of the   *)
(* block, written over with the part of the data that lies in it.          *)

DiskOps == [pc : {"idle", "loop", "blk_read", "copy", "fill", "blk_write", "get", "put", "assert"},
        kind : {"none", "read", "write"}, offset : Nat, pos : Nat, from : Nat, data : Seq(Byte)]

SdTypeOK ==
    /\ backend \in {"ata", "file", "short"}
    /\ disk \in [Addr -> Byte] /\ flat \in [Addr -> Byte]
    /\ filesize \in {DiskBytes - 1, DiskBytes}
    /\ regs \in [lba0 : Nat, lba1 : Nat, lba2 : Nat, lba3 : Nat, cmd : {"none", "read", "write"}]
    /\ busy \in BOOLEAN
    /\ buf \in [0 .. blksz - 1 -> Byte]
    /\ op \in DiskOps /\ result \in Seq(Byte)

\* How far the call in progress is, and what the drive was told.
InCall ==
    /\ op.pc = "idle" <=> op.kind = "none"
    /\ op.pos <= Len(op.data) /\ op.from + Len(op.data) <= DiskBytes
    /\ op.pos < Len(op.data) => op.offset = op.from + op.pos
    /\ op.pc \notin {"idle", "loop"} => op.pos < Len(op.data)
    /\ op.pc \in {"fill", "blk_write", "put"} => op.kind = "write"
    /\ op.pc = "fill" => n_ = blksz
    /\ op.pc \in {"get", "put"} =>
           backend = "ata" /\ Lba = blkno /\ regs.cmd = (IF op.pc = "put" THEN "write" ELSE "read")

\* What the buffer holds: a block just read, or the block to be written.
BufferSo ==
    /\ op.pc = "copy" => \A i \in 0 .. blksz - 1 : buf[i] = disk[st_ + i]
    /\ op.pc \in {"blk_write", "put"} =>
           \A i \in 0 .. blksz - 1 :
               buf[i] = IF st_ + i \in op.offset .. op.offset + n_ - 1
                        THEN op.data[st_ + i - op.from + 1] ELSE disk[st_ + i]

SdInv == SdTypeOK /\ InCall /\ BufferSo /\ FlatDisk

\* The part of the range in one block, while a call is at work on it.
AtWork == op.pos < Len(op.data)

LEMMA BlockPart ==
    ASSUME SdTypeOK, InCall, AtWork
    PROVE  /\ st_ \in Nat /\ blkno \in Nat /\ st_ = blkno * blksz
           /\ st_ <= op.offset /\ op.offset < st_ + blksz /\ st_ + blksz <= DiskBytes
           /\ n_ \in 1 .. blksz /\ op.offset + n_ <= st_ + blksz
           /\ op.pos + n_ <= Len(op.data) /\ op.offset = op.from + op.pos
           /\ op.pos + n_ < Len(op.data) => st_ + blksz = op.from + (op.pos + n_)
           /\ n_ = blksz => op.offset = st_
<1>1. /\ op.offset \in Nat /\ op.pos \in Nat /\ op.from \in Nat /\ Len(op.data) \in Nat
      /\ op.offset = op.from + op.pos /\ op.from + Len(op.data) <= DiskBytes
      /\ blksz \in Nat \ {0} /\ DiskBytes \in Nat /\ op.pos < Len(op.data)
  BY SdAssumption DEF SdTypeOK, InCall, AtWork, DiskOps
<1>. DEFINE q == op.offset \div blksz
            m == op.offset % blksz
<1>2. m \in 0 .. blksz - 1 /\ q \in Nat /\ op.offset = q * blksz + m
  BY <1>1, Divides
<1>3. st_ = op.offset - m
  BY DEF st_
<1>. HIDE DEF q, m
<1>4. st_ = q * blksz /\ st_ \in Nat /\ st_ <= op.offset /\ op.offset < st_ + blksz
  <2>1. q * blksz \in Nat
    BY <1>1, <1>2
  <2>. QED  BY <1>1, <1>2, <1>3, <2>1, SMTT(60)
<1>5. blkno = q
  BY <1>1, <1>2, <1>4, Quotient DEF blkno
<1>6. st_ + blksz <= DiskBytes
  <2>. DEFINE k == DiskBytes \div blksz
  <2>1. DiskBytes = k * blksz /\ k \in Nat
    BY <1>1, Divides, SdAssumption
  <2>. HIDE DEF k
  <2>2. q * blksz < k * blksz
    BY <1>1, <1>4, <2>1, SMTT(60)
  <2>3. q + 1 <= k
    BY <1>1, <1>2, <2>1, <2>2, Cancels
  <2>4. (q + 1) * blksz <= k * blksz
    BY <1>1, <1>2, <2>1, <2>3, Grows
  <2>5. (q + 1) * blksz = q * blksz + blksz
    BY <1>1, <1>2
  <2>. QED  BY <1>4, <2>1, <2>4, <2>5
<1>7. n_ = (IF blksz - (op.offset - st_) < Len(op.data) - op.pos
           THEN blksz - (op.offset - st_) ELSE Len(op.data) - op.pos)
  BY DEF n_, MinOf
<1>8. PICK o \in Nat, p \in Nat, l \in Nat, f \in Nat, s \in Nat :
          o = op.offset /\ p = op.pos /\ l = Len(op.data) /\ f = op.from /\ s = st_
  BY <1>1, <1>4
<1>9. PICK k : k = n_
  OBVIOUS
<1>10. k = (IF blksz - (o - s) < l - p THEN blksz - (o - s) ELSE l - p)
  BY <1>7, <1>8, <1>9
<1>11. s <= o /\ o < s + blksz /\ p < l /\ o = f + p
  BY <1>1, <1>4, <1>8
<1>12. /\ k \in 1 .. blksz /\ o + k <= s + blksz /\ p + k <= l
       /\ p + k < l => s + blksz = f + (p + k)
       /\ k = blksz => o = s
  BY <1>1, <1>10, <1>11
<1>. QED  BY <1>1, <1>2, <1>4, <1>5, <1>6, <1>8, <1>9, <1>12

\* An address is in the block if and only if its quotient is the block's number.
LEMMA InBlock ==
    ASSUME SdTypeOK, InCall, AtWork, NEW a \in Addr
    PROVE  /\ a \div blksz = blkno <=> st_ <= a /\ a < st_ + blksz
           /\ a \div blksz = blkno => a % blksz = a - st_
<1>1. /\ st_ \in Nat /\ blkno \in Nat /\ st_ = blkno * blksz
      /\ a \in Nat /\ blksz \in Nat \ {0}
  BY BlockPart, SdAssumption DEF Addr
<1>2. a \div blksz \in Nat /\ a % blksz \in 0 .. blksz - 1
      /\ a = (a \div blksz) * blksz + (a % blksz)
  BY <1>1, Divides
<1>3. ASSUME st_ <= a, a < st_ + blksz PROVE a \div blksz = blkno
  BY <1>1, <1>3, Quotient
<1>4. ASSUME a \div blksz = blkno PROVE a = st_ + (a % blksz)
  BY <1>1, <1>2, <1>4
<1>. QED  BY <1>1, <1>2, <1>3, <1>4

\* The registers name the block.
LEMMA Addressed ==
    ASSUME SdTypeOK, InCall, AtWork, SdCommand
    PROVE  Lba' = blkno
<1>. DEFINE x == blkno
            x1 == x \div Base
            x2 == x1 \div Base
            x3 == x2 \div Base
            d0 == x % Base
            d1 == x1 % Base
            d2 == x2 % Base
<1>1. x \in Nat /\ Base \in Nat \ {0} /\ TopBase \in Nat \ {0}
  BY BlockPart, SdAssumption
<1>2. x1 \in Nat /\ d0 \in 0 .. Base - 1 /\ x = x1 * Base + d0
  BY <1>1, Divides
<1>3. x2 \in Nat /\ d1 \in 0 .. Base - 1 /\ x1 = x2 * Base + d1
  BY <1>1, <1>2, Divides
<1>4. x3 \in Nat /\ d2 \in 0 .. Base - 1 /\ x2 = x3 * Base + d2
  BY <1>1, <1>3, Divides
<1>5. blkno \div (Base * Base) = x2 /\ blkno \div (Base * Base * Base) = x3
  <2>1. blkno \div (Base * Base) = x2
    BY <1>1, TwiceDivided
  <2>2. Base * Base \in Nat \ {0}
    BY <1>1
  <2>3. blkno \div ((Base * Base) * Base) = (blkno \div (Base * Base)) \div Base
    BY <1>1, <2>2, TwiceDivided
  <2>. QED  BY <2>1, <2>3
<1>. DEFINE all == Base * (Base * (Base * TopBase))
<1>6. x < all
  <2>1. all \in Nat
    BY <1>1
  <2>2. blkno * blksz < all * blksz
    <3>1. blkno * blksz < DiskBytes /\ DiskBytes <= blksz * all /\ blksz \in Nat \ {0}
          /\ DiskBytes \in Nat /\ blkno * blksz \in Nat
      BY BlockPart, SdAssumption, SMTT(60)
    <3>2. blksz * all = all * blksz /\ blksz * all \in Nat
      BY <2>1, <3>1
    <3>. QED  BY <3>1, <3>2
  <2>. HIDE DEF all
  <2>. QED  BY <1>1, <2>1, <2>2, Cancels, SdAssumption
<1>. HIDE DEF x1, x2, x3, d0, d1, d2
<1>7. x3 < TopBase
  <2>1. x1 < Base * (Base * TopBase)
    <3>1. x1 * Base < (Base * (Base * TopBase)) * Base /\ Base * (Base * TopBase) \in Nat
      <4>1. x1 * Base <= x
        BY <1>1, <1>2
      <4>2. (Base * (Base * TopBase)) * Base = all /\ Base * (Base * TopBase) \in Nat /\ all \in Nat
        BY <1>1
      <4>. HIDE DEF all, x
      <4>. QED  BY <1>1, <1>2, <1>6, <4>1, <4>2
    <3>. QED  BY <1>1, <1>2, <3>1, Cancels
  <2>2. x2 < Base * TopBase
    <3>1. x2 * Base < (Base * TopBase) * Base /\ Base * TopBase \in Nat
      <4>1. x2 * Base <= x1
        BY <1>1, <1>3
      <4>2. (Base * TopBase) * Base = Base * (Base * TopBase) /\ Base * TopBase \in Nat
            /\ Base * (Base * TopBase) \in Nat
        BY <1>1
      <4>. QED  BY <1>1, <1>2, <1>3, <2>1, <4>1, <4>2
    <3>. QED  BY <1>1, <1>3, <3>1, Cancels
  <2>3. x3 * Base < TopBase * Base
    <3>1. x3 * Base <= x2 /\ Base * TopBase = TopBase * Base /\ Base * TopBase \in Nat
      BY <1>1, <1>4
    <3>. QED  BY <1>1, <1>3, <1>4, <2>2, <3>1
  <2>. QED  BY <1>1, <1>4, <2>3, Cancels
<1>8. x3 % TopBase = x3
  BY <1>1, <1>4, <1>7
<1>9. regs' = [lba0 |-> d0, lba1 |-> d1, lba2 |-> d2, lba3 |-> x3,
               cmd |-> IF op.pc = "blk_write" THEN "write" ELSE "read"]
  BY <1>5, <1>8 DEF SdCommand, d0, d1, d2, x1
<1>10. Lba' = d0 + Base * (d1 + Base * (d2 + Base * x3))
  BY <1>9 DEF Lba
<1>11. d2 + Base * x3 = x2 /\ d1 + Base * x2 = x1 /\ d0 + Base * x1 = x
  BY <1>1, <1>2, <1>3, <1>4
<1>. QED  BY <1>10, <1>11

\* A step within the call, to p.
LEMMA Continues ==
    ASSUME SdTypeOK, NEW p \in {"blk_read", "copy", "fill", "blk_write", "get", "put", "assert"},
           Continue(p)
    PROVE  /\ op' \in DiskOps /\ op'.pc = p /\ op'.kind = op.kind /\ op'.offset = op.offset
           /\ op'.pos = op.pos /\ op'.from = op.from /\ op'.data = op.data
           /\ st_' = st_ /\ n_' = n_ /\ blkno' = blkno
<1>1. /\ op' \in DiskOps /\ op'.pc = p /\ op'.kind = op.kind /\ op'.offset = op.offset
      /\ op'.pos = op.pos /\ op'.from = op.from /\ op'.data = op.data
  BY DEF Continue, SdTypeOK, DiskOps
<1>. QED  BY <1>1 DEF st_, n_, blkno

\* The end of a round.
LEMMA NextRoundKeeps ==
    ASSUME SdInv, op.pc \notin {"idle", "loop"}, op' = NextRound
    PROVE  /\ op' \in DiskOps /\ op'.pc = "loop" /\ op'.kind = op.kind /\ op'.kind # "none"
           /\ op'.pos = op.pos + n_ /\ op'.from = op.from /\ op'.data = op.data
           /\ InCall' /\ BufferSo'
<1>1. AtWork
  BY DEF SdInv, InCall, AtWork
<1>2. /\ st_ \in Nat /\ n_ \in Nat /\ blksz \in Nat /\ st_ + blksz \in Nat
      /\ op.pos + n_ <= Len(op.data)
      /\ op.pos + n_ < Len(op.data) => st_ + blksz = op.from + (op.pos + n_)
  BY <1>1, BlockPart, SdAssumption, SMTT(60) DEF SdInv
<1>3. /\ op' \in DiskOps /\ op'.pc = "loop" /\ op'.kind = op.kind /\ op'.offset = st_ + blksz
      /\ op'.pos = op.pos + n_ /\ op'.from = op.from /\ op'.data = op.data
  <2>1. op \in DiskOps /\ op.pos + n_ \in Nat
    BY <1>2, SMTT(60) DEF SdInv, SdTypeOK, DiskOps
  <2>. QED  BY <1>2, <2>1 DEF NextRound, DiskOps
<1>4. InCall' /\ op.kind # "none"
  BY <1>2, <1>3 DEF SdInv, InCall
<1>. QED  BY <1>3, <1>4 DEF BufferSo

\* A block is written, on either disk.
LEMMA WritesBlock ==
    ASSUME SdInv, op.pc \in {"blk_write", "put"}, disk' = WithBlock(blkno), op' = NextRound,
           UNCHANGED <<buf, flat, result>>
    PROVE  disk' \in [Addr -> Byte] /\ InCall' /\ BufferSo' /\ op' \in DiskOps /\ FlatDisk'
<1>1. /\ op.kind = "write" /\ AtWork /\ SdTypeOK /\ InCall
  BY DEF SdInv, InCall, AtWork
<1>2. /\ op' \in DiskOps /\ op'.pc = "loop" /\ op'.kind = "write" /\ op'.pos = op.pos + n_
      /\ op'.from = op.from /\ op'.data = op.data /\ InCall' /\ BufferSo'
  BY <1>1, NextRoundKeeps
<1>3. /\ op.pos \in Nat /\ op.from \in Nat /\ n_ \in 1 .. blksz /\ op.offset = op.from + op.pos
      /\ st_ \in Nat /\ st_ <= op.offset /\ op.offset + n_ <= st_ + blksz
      /\ blksz \in Nat \ {0} /\ op.offset \in Nat
  BY <1>1, BlockPart, SdAssumption DEF SdTypeOK, DiskOps
<1>4. ASSUME NEW a \in Addr
      PROVE  /\ disk'[a] \in Byte
             /\ disk'[a] = IF a \in op.offset .. op.offset + n_ - 1
                           THEN op.data[a - op.from + 1] ELSE disk[a]
  <2>1. a \in Nat
    BY <1>4 DEF Addr
  <2>2. CASE a \div blksz = blkno
    <3>1. st_ <= a /\ a < st_ + blksz /\ a % blksz = a - st_
      BY <1>1, <2>2, InBlock
    <3>2. disk'[a] = buf[a - st_] /\ a - st_ \in 0 .. blksz - 1 /\ st_ + (a - st_) = a
      BY <1>3, <2>1, <2>2, <3>1 DEF WithBlock
    <3>3. buf[a - st_] \in Byte
      BY <1>1, <3>2 DEF SdTypeOK
    <3>4. PICK i \in 0 .. blksz - 1 : i = a - st_ /\ st_ + i = a
      BY <3>2
    <3>5. buf[i] = IF st_ + i \in op.offset .. op.offset + n_ - 1
                   THEN op.data[st_ + i - op.from + 1] ELSE disk[st_ + i]
      BY DEF SdInv, BufferSo
    <3>6. buf[i] = IF a \in op.offset .. op.offset + n_ - 1
                   THEN op.data[a - op.from + 1] ELSE disk[a]
      BY <1>3, <2>1, <3>4, <3>5
    <3>7. disk'[a] = buf[i] /\ buf[i] \in Byte
      BY <3>2, <3>3, <3>4, Zenon
    <3>. QED  BY <3>6, <3>7
  <2>3. CASE a \div blksz # blkno
    <3>1. ~(st_ <= a /\ a < st_ + blksz)
      BY <1>1, <2>3, InBlock
    <3>2. a \notin op.offset .. op.offset + n_ - 1
      BY <1>3, <2>1, <3>1
    <3>3. disk'[a] = disk[a]
      BY <2>3 DEF WithBlock
    <3>4. disk[a] \in Byte
      BY <1>1 DEF SdTypeOK
    <3>. QED  BY <3>2, <3>3, <3>4
  <2>. QED  BY <2>2, <2>3
<1>5. disk' \in [Addr -> Byte]
  BY <1>4 DEF WithBlock
<1>6. FlatBytes'
  <2>1. ASSUME NEW a \in Addr
        PROVE  disk'[a] = IF a \in op.from .. op.from + (op.pos + n_) - 1
                          THEN op.data[a - op.from + 1] ELSE flat[a]
    <3>1. a \in op.from .. op.from + (op.pos + n_) - 1
          <=> a \in op.from .. op.from + op.pos - 1 \/ a \in op.offset .. op.offset + n_ - 1
      BY <1>3 DEF Addr
    <3>2. disk[a] = IF a \in op.from .. op.from + op.pos - 1
                    THEN op.data[a - op.from + 1] ELSE flat[a]
      BY <1>1 DEF SdInv, FlatDisk, FlatBytes
    <3>. QED  BY <1>4, <3>1, <3>2
  <2>. QED  BY <1>2, <2>1 DEF FlatBytes
<1>7. ReadsBytes'
  BY <1>2 DEF ReadsBytes
<1>. QED  BY <1>2, <1>5, <1>6, <1>7 DEF FlatDisk

\* A block is read, on either disk.
LEMMA ReadsBlock ==
    ASSUME SdInv, AtWork, op.pc \in {"blk_read", "get"}, buf' = BlockAt(blkno), Continue("copy"),
           UNCHANGED <<disk, flat, result>>
    PROVE  buf' \in [0 .. blksz - 1 -> Byte] /\ InCall' /\ BufferSo' /\ op' \in DiskOps /\ FlatDisk'
<1>1. SdTypeOK /\ InCall
  BY DEF SdInv
<1>2. /\ op' \in DiskOps /\ op'.pc = "copy" /\ op'.kind = op.kind /\ op'.offset = op.offset
      /\ op'.pos = op.pos /\ op'.from = op.from /\ op'.data = op.data
      /\ st_' = st_ /\ n_' = n_ /\ blkno' = blkno
  BY <1>1, Continues
<1>3. st_ \in Nat /\ st_ = blkno * blksz /\ st_ + blksz <= DiskBytes /\ blksz \in Nat \ {0}
      /\ DiskBytes \in Nat
  BY <1>1, BlockPart, SdAssumption
<1>4. ASSUME NEW i \in 0 .. blksz - 1 PROVE buf'[i] = disk[st_ + i] /\ st_ + i \in Addr
  <2>1. st_ + i \in Addr
    BY <1>3 DEF Addr
  <2>. QED  BY <1>1, <1>3, <2>1 DEF BlockAt, SdTypeOK
<1>5. buf' \in [0 .. blksz - 1 -> Byte]
  BY <1>1, <1>3, <1>4 DEF BlockAt, SdTypeOK
<1>6. InCall'
  BY <1>1, <1>2 DEF InCall, AtWork
<1>7. BufferSo'
  BY <1>2, <1>4 DEF BufferSo
<1>8. FlatDisk'
  BY <1>2 DEF SdInv, FlatDisk, FlatBytes, ReadsBytes
<1>. QED  BY <1>2, <1>5, <1>6, <1>7, <1>8

LEMMA RequestKeeps ==
    ASSUME SdInv, NEW k \in {"read", "write"}, NEW o \in Addr, NEW d \in Seq(Byte), Request(k, o, d)
    PROVE  SdInv'
<1>1. /\ op' = [pc |-> "loop", kind |-> k, offset |-> o, pos |-> 0, from |-> o, data |-> d]
      /\ result' = <<>> /\ op.pc = "idle" /\ o \in Nat /\ Len(d) \in Nat /\ o + Len(d) <= DiskBytes
      /\ UNCHANGED <<backend, disk, filesize, regs, busy, buf, flat>>
  BY DEF Request, Addr
<1>2. op.kind = "none" /\ SdTypeOK'
  BY <1>1, SMTT(60) DEF SdInv, SdTypeOK, InCall, DiskOps
<1>3. InCall' /\ BufferSo'
  BY <1>1 DEF InCall, BufferSo
<1>4. FlatBytes'
  <2>1. \A a \in Addr : disk[a] = flat[a] /\ a \notin o .. o + 0 - 1
    BY <1>1, <1>2 DEF SdInv, FlatDisk, FlatBytes
  <2>. QED  BY <1>1, <2>1 DEF FlatBytes
<1>5. ReadsBytes'
  BY <1>1 DEF ReadsBytes
<1>. QED  BY <1>2, <1>3, <1>4, <1>5 DEF SdInv, FlatDisk

LEMMA LoopKeeps ==
    ASSUME SdInv, Loop
    PROVE  SdInv'
<1>1. /\ op.pc = "loop" /\ SdTypeOK /\ InCall
      /\ UNCHANGED <<backend, disk, filesize, regs, busy, buf, result>>
      /\ op.pos \in Nat /\ Len(op.data) \in Nat /\ op.from \in Nat
  BY DEF Loop, SdInv, SdTypeOK, DiskOps
<1>2. CASE op.pos >= Len(op.data)
  <2>1. op' = Idle /\ flat' = Written
    BY <1>2 DEF Loop
  <2>2. op.pos = Len(op.data)
    BY <1>1, <1>2 DEF InCall
  <2>3. flat' = disk
    <3>1. \A a \in Addr : Written[a] = disk[a]
      BY <2>2 DEF Written, SdInv, FlatDisk, FlatBytes
    <3>. QED  BY <1>1, <2>1, <3>1 DEF Written, SdTypeOK
  <2>4. op' \in DiskOps /\ op'.pc = "idle" /\ op'.kind = "none" /\ op'.pos = 0 /\ op'.from = 0
        /\ Len(op'.data) = 0
    BY <2>1 DEF Idle, DiskOps
  <2>5. InCall' /\ BufferSo'
    <3>1. DiskBytes \in Nat
      BY SdAssumption
    <3>. QED  BY <2>4, <3>1 DEF InCall, BufferSo
  <2>6. FlatDisk' /\ SdTypeOK'
    BY <1>1, <2>3, <2>4 DEF FlatDisk, FlatBytes, ReadsBytes, SdTypeOK
  <2>. QED  BY <2>5, <2>6 DEF SdInv
<1>3. CASE ~(op.pos >= Len(op.data))
  <2>. DEFINE p == IF op.kind = "read" \/ n_ < blksz THEN "blk_read" ELSE "fill"
  <2>1. Continue(p) /\ flat' = flat /\ AtWork /\ p \in {"blk_read", "fill"}
    BY <1>1, <1>3 DEF Loop, AtWork
  <2>2. /\ op' \in DiskOps /\ op'.pc = p /\ op'.kind = op.kind /\ op'.offset = op.offset
        /\ op'.pos = op.pos /\ op'.from = op.from /\ op'.data = op.data
        /\ st_' = st_ /\ n_' = n_ /\ blkno' = blkno
    BY <1>1, <2>1, Continues
  <2>3. n_ \in 1 .. blksz /\ blksz \in Nat
    BY <1>1, <2>1, BlockPart, SdAssumption
  <2>4. p = "fill" => n_ = blksz /\ op.kind = "write"
    BY <1>1, <2>3 DEF SdTypeOK, InCall, DiskOps
  <2>. HIDE DEF p
  <2>5. SdTypeOK' /\ InCall' /\ BufferSo'
    BY <1>1, <2>1, <2>2, <2>4, SMTT(60) DEF SdTypeOK, InCall, BufferSo, AtWork
  <2>6. FlatDisk'
    BY <1>1, <2>1, <2>2 DEF SdInv, FlatDisk, FlatBytes, ReadsBytes
  <2>. QED  BY <2>5, <2>6 DEF SdInv
<1>. QED  BY <1>2, <1>3

LEMMA CopyOutKeeps ==
    ASSUME SdInv, CopyOut
    PROVE  SdInv'
<1>1. /\ SdTypeOK /\ InCall /\ AtWork /\ op.kind = "read" /\ op' = NextRound
      /\ UNCHANGED <<backend, disk, filesize, regs, busy, buf, flat>>
  BY DEF CopyOut, SdInv, InCall, AtWork
<1>2. /\ op' \in DiskOps /\ op'.pc = "loop" /\ op'.kind = "read" /\ op'.pos = op.pos + n_
      /\ op'.from = op.from /\ op'.data = op.data /\ InCall' /\ BufferSo'
  BY <1>1, NextRoundKeeps DEF CopyOut
<1>3. /\ st_ \in Nat /\ st_ <= op.offset /\ op.offset \in Nat /\ n_ \in 1 .. blksz
      /\ op.offset + n_ <= st_ + blksz /\ op.offset = op.from + op.pos
      /\ op.from \in Nat /\ op.pos \in Nat /\ blksz \in Nat
  BY <1>1, BlockPart, SdAssumption DEF SdTypeOK, DiskOps
<1>. DEFINE more == [i \in 1 .. n_ |-> buf[op.offset - st_ + i - 1]]
<1>4. ASSUME NEW i \in 1 .. n_
      PROVE  more[i] \in Byte /\ more[i] = flat[op.from + (op.pos + i) - 1]
  <2>1. PICK j \in 0 .. blksz - 1 :
            j = op.offset - st_ + i - 1 /\ st_ + j = op.from + (op.pos + i) - 1
    BY <1>3
  <2>2. buf[j] = disk[st_ + j] /\ buf[j] \in Byte
    BY <1>1 DEF SdInv, SdTypeOK, BufferSo, CopyOut
  <2>3. st_ + j \in Addr
    <3>1. st_ + blksz <= DiskBytes /\ DiskBytes \in Nat
      BY <1>1, BlockPart, SdAssumption
    <3>. QED  BY <1>3, <3>1 DEF Addr
  <2>4. disk[st_ + j] = flat[st_ + j]
    BY <1>1, <2>3 DEF SdInv, FlatDisk, FlatBytes
  <2>. QED  BY <2>1, <2>2, <2>4
<1>. HIDE DEF more
<1>5. more \in Seq(Byte) /\ Len(more) = n_ /\ result' = result \o more
  <2>1. more \in [1 .. n_ -> Byte]
    BY <1>4 DEF more
  <2>. QED  BY <1>3, <2>1 DEF CopyOut, more
<1>6. result \in Seq(Byte) /\ Len(result) = op.pos
      /\ \A i \in 1 .. op.pos : result[i] = flat[op.from + i - 1]
  BY <1>1 DEF SdInv, SdTypeOK, FlatDisk, ReadsBytes
<1>7. /\ result' \in Seq(Byte) /\ Len(result') = op.pos + n_
      /\ \A i \in 1 .. op.pos + n_ :
            result'[i] = IF i <= op.pos THEN result[i] ELSE more[i - op.pos]
  <2>1. /\ result \o more \in Seq(Byte) /\ Len(result \o more) = Len(result) + Len(more)
        /\ \A i \in 1 .. Len(result) + Len(more) :
              (result \o more)[i] = IF i <= Len(result) THEN result[i] ELSE more[i - Len(result)]
    BY <1>5, <1>6, ConcatProperties
  <2>. QED  BY <1>5, <1>6, <2>1
<1>8. ASSUME NEW i \in 1 .. op.pos + n_ PROVE result'[i] = flat[op.from + i - 1]
  <2>1. CASE i <= op.pos
    BY <1>3, <1>6, <1>7, <1>8, <2>1
  <2>2. CASE ~(i <= op.pos)
    <3>1. PICK j \in 1 .. n_ : i = op.pos + j /\ i - op.pos = j
      BY <1>3, <1>8, <2>2
    <3>2. result'[i] = more[j]
      BY <1>7, <2>2, <3>1
    <3>. QED  BY <1>4, <3>1, <3>2
  <2>. QED  BY <2>1, <2>2
<1>9. FlatBytes' /\ ReadsBytes'
  <2>1. FlatBytes'
    BY <1>1, <1>2 DEF SdInv, FlatDisk, FlatBytes
  <2>2. DOMAIN result' = 1 .. op.pos + n_
    BY <1>7
  <2>. QED  BY <1>1, <1>2, <1>7, <1>8, <2>1, <2>2 DEF ReadsBytes
<1>. QED  BY <1>1, <1>2, <1>7, <1>9 DEF SdInv, SdTypeOK, FlatDisk

LEMMA FillKeeps ==
    ASSUME SdInv, Fill
    PROVE  SdInv'
<1>1. /\ SdTypeOK /\ InCall /\ AtWork /\ op.kind = "write" /\ Continue("blk_write")
      /\ UNCHANGED <<backend, disk, filesize, regs, busy, result, flat>>
  BY DEF Fill, SdInv, InCall, AtWork
<1>2. /\ op' \in DiskOps /\ op'.pc = "blk_write" /\ op'.kind = op.kind /\ op'.offset = op.offset
      /\ op'.pos = op.pos /\ op'.from = op.from /\ op'.data = op.data
      /\ st_' = st_ /\ n_' = n_ /\ blkno' = blkno
  BY <1>1, Continues
<1>3. /\ st_ \in Nat /\ st_ <= op.offset /\ op.offset \in Nat /\ n_ \in 1 .. blksz
      /\ op.offset + n_ <= st_ + blksz /\ op.offset = op.from + op.pos /\ op.pos + n_ <= Len(op.data)
      /\ op.from \in Nat /\ op.pos \in Nat /\ blksz \in Nat /\ (n_ = blksz => op.offset = st_)
  BY <1>1, BlockPart, SdAssumption DEF SdTypeOK, DiskOps
<1>4. op.data \in Seq(Byte) /\ buf \in [0 .. blksz - 1 -> Byte] /\ Len(op.data) \in Nat
  BY <1>1 DEF SdTypeOK, DiskOps
<1>5. ASSUME NEW i \in 0 .. blksz - 1
      PROVE  /\ buf'[i] \in Byte
             /\ buf'[i] = IF st_ + i \in op.offset .. op.offset + n_ - 1
                          THEN op.data[st_ + i - op.from + 1] ELSE disk[st_ + i]
  <2>1. buf'[i] = IF i \in op.offset - st_ .. op.offset - st_ + n_ - 1
                  THEN op.data[op.pos + i - (op.offset - st_) + 1] ELSE buf[i]
    BY <1>4 DEF Fill
  <2>2. CASE i \in op.offset - st_ .. op.offset - st_ + n_ - 1
    <3>1. op.pos + i - (op.offset - st_) + 1 = st_ + i - op.from + 1
          /\ op.pos + i - (op.offset - st_) + 1 \in 1 .. Len(op.data)
      <4>1. PICK o \in Nat, p \in Nat, f \in Nat, z \in Nat, l \in Nat, k \in Nat :
                /\ o = op.offset /\ p = op.pos /\ f = op.from /\ z = st_ /\ l = Len(op.data)
                /\ k = n_
        <5>1. n_ \in Nat
          BY <1>3
        <5>. QED  BY <1>3, <1>4, <5>1
      <4>2. z <= o /\ o = f + p /\ p + k <= l /\ i \in o - z .. o - z + k - 1
        BY <1>3, <2>2, <4>1
      <4>3. i \in Int /\ o - z <= i /\ i <= o - z + k - 1
        BY <4>2
      <4>4. p + i - (o - z) + 1 = z + i - f + 1
        BY <4>2, <4>3
      <4>5. 1 <= p + i - (o - z) + 1 /\ p + i - (o - z) + 1 <= p + k
        BY <4>3
      <4>6. p + i - (o - z) + 1 = z + i - f + 1 /\ p + i - (o - z) + 1 \in 1 .. l
        BY <4>2, <4>3, <4>4, <4>5
      <4>. QED  BY <4>1, <4>6
    <3>2. st_ + i \in op.offset .. op.offset + n_ - 1
      BY <1>3, <2>2, SMTT(60)
    <3>. QED  BY <1>4, <2>1, <2>2, <3>1, <3>2
  <2>3. CASE i \notin op.offset - st_ .. op.offset - st_ + n_ - 1
    <3>1. st_ + i \notin op.offset .. op.offset + n_ - 1 /\ n_ # blksz
      BY <1>3, <2>3, SMTT(60)
    <3>2. op.pc = "copy"
      BY <1>1, <3>1 DEF Fill, InCall
    <3>. QED  BY <1>4, <2>1, <2>3, <3>1, <3>2 DEF SdInv, BufferSo
  <2>. QED  BY <2>2, <2>3
<1>6. buf' \in [0 .. blksz - 1 -> Byte]
  BY <1>4, <1>5 DEF Fill
<1>7. SdTypeOK' /\ InCall'
  BY <1>1, <1>2, <1>6 DEF SdTypeOK, InCall, AtWork
<1>8. BufferSo'
  BY <1>1, <1>2, <1>5 DEF BufferSo
<1>9. FlatDisk'
  BY <1>1, <1>2 DEF SdInv, FlatDisk, FlatBytes, ReadsBytes
<1>. QED  BY <1>7, <1>8, <1>9 DEF SdInv

LEMMA SdCommandKeeps ==
    ASSUME SdInv, SdCommand
    PROVE  SdInv'
<1>. DEFINE p == IF op.pc = "blk_write" THEN "put" ELSE "get"
<1>1. /\ SdTypeOK /\ InCall /\ AtWork /\ Continue(p) /\ p \in {"get", "put"} /\ backend = "ata"
      /\ regs'.cmd = (IF p = "put" THEN "write" ELSE "read")
      /\ p = "put" => op.kind = "write" /\ op.pc = "blk_write"
      /\ busy' = TRUE /\ UNCHANGED <<backend, disk, filesize, buf, result, flat>>
  BY DEF SdCommand, Transferring, SdInv, InCall, AtWork
<1>2. /\ op' \in DiskOps /\ op'.pc = p /\ op'.kind = op.kind /\ op'.offset = op.offset
      /\ op'.pos = op.pos /\ op'.from = op.from /\ op'.data = op.data
      /\ st_' = st_ /\ n_' = n_ /\ blkno' = blkno
  BY <1>1, Continues
<1>. HIDE DEF p
<1>3. Lba' = blkno'
  BY <1>1, <1>2, Addressed
<1>4. regs' \in [lba0 : Nat, lba1 : Nat, lba2 : Nat, lba3 : Nat, cmd : {"none", "read", "write"}]
  <2>1. blkno \in Nat /\ Base \in Nat \ {0} /\ TopBase \in Nat \ {0}
    BY <1>1, BlockPart, SdAssumption
  <2>2. Base * Base \in Nat \ {0} /\ Base * Base * Base \in Nat \ {0}
    BY <2>1
  <2>3. /\ blkno % Base \in Nat /\ (blkno \div Base) % Base \in Nat
        /\ (blkno \div (Base * Base)) % Base \in Nat /\ (blkno \div (Base * Base * Base)) % TopBase \in Nat
    BY <2>1, <2>2, Divides
  <2>. QED  BY <2>3 DEF SdCommand
<1>5. SdTypeOK'
  BY <1>1, <1>2, <1>4 DEF SdTypeOK
<1>6. InCall'
  <2>1. op.kind # "none" /\ backend' = "ata"
    BY <1>1 DEF SdCommand, Transferring, InCall
  <2>. QED  BY <1>1, <1>2, <1>3, <2>1 DEF InCall, AtWork
<1>7. BufferSo'
  BY <1>1, <1>2 DEF SdInv, BufferSo
<1>8. FlatDisk'
  BY <1>1, <1>2 DEF SdInv, FlatDisk, FlatBytes, ReadsBytes
<1>. QED  BY <1>5, <1>6, <1>7, <1>8 DEF SdInv

LEMMA TransferKeeps ==
    ASSUME SdInv, Transfer
    PROVE  SdInv'
<1>1. /\ SdTypeOK /\ InCall /\ AtWork /\ Lba = blkno /\ op.pc \in {"put", "get"}
      /\ regs.cmd = (IF op.pc = "put" THEN "write" ELSE "read")
      /\ UNCHANGED <<backend, filesize, regs, result, flat>>
  BY DEF Transfer, SdInv, InCall, AtWork
<1>2. CASE op.pc = "put"
  <2>1. disk' = WithBlock(blkno) /\ busy' = TRUE /\ op' = NextRound /\ buf' = buf
    BY <1>1, <1>2 DEF Transfer
  <2>2. disk' \in [Addr -> Byte] /\ InCall' /\ BufferSo' /\ op' \in DiskOps /\ FlatDisk'
    BY <1>1, <1>2, <2>1, WritesBlock
  <2>. QED  BY <1>1, <2>1, <2>2 DEF SdInv, SdTypeOK
<1>3. CASE op.pc = "get"
  <2>1. buf' = BlockAt(blkno) /\ Continue("copy") /\ UNCHANGED <<disk, busy>>
    BY <1>1, <1>3 DEF Transfer
  <2>2. buf' \in [0 .. blksz - 1 -> Byte] /\ InCall' /\ BufferSo' /\ op' \in DiskOps /\ FlatDisk'
    BY <1>1, <1>3, <2>1, ReadsBlock
  <2>. QED  BY <1>1, <2>1, <2>2 DEF SdInv, SdTypeOK
<1>. QED  BY <1>1, <1>2, <1>3

LEMMA FileIOKeeps ==
    ASSUME SdInv, FileIO
    PROVE  SdInv'
<1>1. /\ SdTypeOK /\ InCall /\ AtWork /\ op.pc \in {"blk_read", "blk_write"}
      /\ UNCHANGED <<backend, regs, busy, result, flat>>
  BY DEF FileIO, Transferring, SdInv, InCall, AtWork
<1>2. /\ blkno \in Nat /\ blksz \in Nat \ {0} /\ DiskBytes \in Nat \ {0}
      /\ (blkno + 1) * blksz = blkno * blksz + blksz /\ blkno * blksz + blksz <= DiskBytes
      /\ blkno * blksz \in Nat
  BY <1>1, BlockPart, SdAssumption
<1>. DEFINE e == (blkno + 1) * blksz
<1>3. e \in Nat /\ e <= DiskBytes /\ filesize \in {DiskBytes - 1, DiskBytes}
  BY <1>1, <1>2 DEF SdTypeOK
<1>4. CASE op.pc = "blk_write"
  <2>1. /\ disk' = WithBlock(blkno) /\ op' = NextRound /\ buf' = buf
        /\ filesize' = IF e > filesize THEN e ELSE filesize
    BY <1>4 DEF FileIO
  <2>2. filesize' \in {DiskBytes - 1, DiskBytes}
    <3>. HIDE DEF e
    <3>. QED  BY <1>2, <1>3, <2>1
  <2>3. disk' \in [Addr -> Byte] /\ InCall' /\ BufferSo' /\ op' \in DiskOps /\ FlatDisk'
    BY <1>1, <1>4, <2>1, WritesBlock
  <2>. QED  BY <1>1, <2>1, <2>2, <2>3 DEF SdInv, SdTypeOK
<1>5. CASE op.pc = "blk_read" /\ e <= filesize
  <2>1. buf' = BlockAt(blkno) /\ Continue("copy") /\ UNCHANGED <<disk, filesize>>
    BY <1>1, <1>5 DEF FileIO
  <2>2. buf' \in [0 .. blksz - 1 -> Byte] /\ InCall' /\ BufferSo' /\ op' \in DiskOps /\ FlatDisk'
    BY <1>1, <1>5, <2>1, ReadsBlock
  <2>. QED  BY <1>1, <2>1, <2>2 DEF SdInv, SdTypeOK
<1>6. CASE op.pc = "blk_read" /\ ~(e <= filesize)
  <2>1. buf' = buf /\ Continue("assert") /\ UNCHANGED <<disk, filesize>>
    BY <1>1, <1>6 DEF FileIO
  <2>2. /\ op' \in DiskOps /\ op'.pc = "assert" /\ op'.kind = op.kind /\ op'.offset = op.offset
        /\ op'.pos = op.pos /\ op'.from = op.from /\ op'.data = op.data
        /\ st_' = st_ /\ n_' = n_ /\ blkno' = blkno
    BY <1>1, <2>1, Continues
  <2>3. filesize < DiskBytes /\ e = DiskBytes
    <3>. HIDE DEF e
    <3>. QED  BY <1>2, <1>3, <1>6
  <2>4. blkno = (DiskBytes \div blksz) - 1
    <3>1. (blkno + 1) * blksz <= DiskBytes /\ DiskBytes < (blkno + 1) * blksz + blksz
      BY <1>2, <2>3
    <3>2. PICK q \in Nat : q = blkno + 1
      BY <1>2
    <3>3. DiskBytes \div blksz = q
      BY <1>2, <3>1, <3>2, Quotient
    <3>. QED  BY <1>2, <3>2, <3>3
  <2>5. InCall' /\ BufferSo' /\ SdTypeOK'
    BY <1>1, <2>1, <2>2 DEF InCall, AtWork, BufferSo, SdTypeOK
  <2>6. FlatDisk'
    BY <1>1, <2>1, <2>2, <2>3, <2>4 DEF SdInv, FlatDisk, FlatBytes, ReadsBytes
  <2>. QED  BY <2>5, <2>6 DEF SdInv
<1>. QED  BY <1>1, <1>4, <1>5, <1>6

(* The disk is the flat array of bytes its callers see, whatever the size  *)
(* of the blocks and the ranges asked for (dev_sd.c: sd_read, sd_write).   *)
THEOREM FlatDiskHolds == SdSpec => []FlatDisk
<1>1. SdInit => SdInv
  <2>1. ASSUME SdInit PROVE SdInv
    <3>1. /\ op = Idle /\ result = <<>> /\ flat = disk /\ busy = FALSE
          /\ filesize \in {DiskBytes - 1, DiskBytes} /\ backend \in {"ata", "file", "short"}
          /\ regs = [lba0 |-> 0, lba1 |-> 0, lba2 |-> 0, lba3 |-> 0, cmd |-> "none"]
          /\ blksz \in Nat \ {0} /\ DiskBytes \in Nat
      BY <2>1, SdAssumption DEF SdInit
    <3>2. disk \in [Addr -> Byte] /\ buf \in [0 .. blksz - 1 -> Byte]
      <4>1. \A a \in Addr : a % 2 \in Byte
        BY <3>1, SdAssumption DEF Addr
      <4>. QED  BY <2>1, <4>1, SdAssumption DEF SdInit
    <3>3. op \in DiskOps /\ op.pc = "idle" /\ op.kind = "none" /\ op.pos = 0 /\ op.from = 0
          /\ Len(op.data) = 0
      BY <3>1 DEF Idle, DiskOps
    <3>4. SdTypeOK
      <4>1. <<>> \in Seq(Byte)
        OBVIOUS
      <4>. QED  BY <3>1, <3>2, <3>3, <4>1 DEF SdTypeOK
    <3>5. InCall /\ BufferSo
      BY <3>1, <3>3 DEF InCall, BufferSo
    <3>6. FlatDisk
      BY <3>1, <3>3 DEF FlatDisk, FlatBytes, ReadsBytes
    <3>. QED  BY <3>4, <3>5, <3>6 DEF SdInv
  <2>. QED  BY <2>1
<1>2. SdInv /\ [SdNext]_sdVars => SdInv'
  <2>. SUFFICES ASSUME SdInv, [SdNext]_sdVars PROVE SdInv'
    OBVIOUS
  <2>1. ASSUME NEW o \in Addr, NEW d \in Buffers, Request("write", o, d) PROVE SdInv'
    <3>1. d \in Seq(Byte)
      BY SdAssumption DEF Buffers
    <3>. QED  BY <2>1, <3>1, RequestKeeps
  <2>2. ASSUME NEW o \in Addr, NEW k \in 1 .. MaxBytes, Request("read", o, [i \in 1 .. k |-> 0])
        PROVE  SdInv'
    <3>1. [i \in 1 .. k |-> 0] \in Seq(Byte)
      BY SdAssumption
    <3>. QED  BY <2>2, <3>1, RequestKeeps
  <2>3. CASE DriveReady \/ UNCHANGED sdVars
    <3>1. UNCHANGED <<backend, disk, filesize, regs, buf, op, result, flat>> /\ busy' \in BOOLEAN
      BY <2>3 DEF DriveReady, sdVars, SdInv, SdTypeOK
    <3>2. UNCHANGED <<st_, n_, blkno, Lba>>
      BY <3>1 DEF st_, n_, blkno, Lba
    <3>3. SdTypeOK' /\ InCall' /\ BufferSo'
      BY <3>1, <3>2 DEF SdInv, SdTypeOK, InCall, BufferSo
    <3>4. FlatDisk'
      BY <3>1, <3>2 DEF SdInv, FlatDisk, FlatBytes, ReadsBytes
    <3>. QED  BY <3>3, <3>4 DEF SdInv
  <2>. QED  BY <2>1, <2>2, <2>3, LoopKeeps, CopyOutKeeps, FillKeeps, SdCommandKeeps,
               TransferKeeps, FileIOKeeps DEF SdNext, sd_step
<1>3. SdInv => FlatDisk
  BY DEF SdInv
<1>. QED  BY <1>1, <1>2, <1>3, PTL DEF SdSpec

-----------------------------------------------------------------------------
(* RtcSound of RtcTimer.                                                   *)
(*                                                                         *)
(* A date is read in less than a minute, and its seconds are read again at *)
(* the end; if they are the same, no second ended meanwhile and its fields *)
(* are of one date.  The two marks lie within one hour, by the assumption, *)
(* so the seconds between them are those of the dates unless the hour ended*)
(* between them, and then the difference is not positive.                  *)

MarkSet == [date : Seq(Nat), tsc : Nat, torn : BOOLEAN]

RtcTypeOK ==
    /\ tsc \in Nat /\ boot \in Nat /\ begun \in Nat
    /\ rtcPc \in {"t0", "t1", "rtc", "idle"}
    /\ date \in Seq(Nat) /\ Len(date) <= 3
    /\ marks \in Seq(MarkSet) /\ Len(marks) <= 2

\* Each field was on the clock while the date was read, the seconds first.
Reading ==
    /\ boot <= begun /\ begun <= tsc /\ tsc <= boot + Run
    /\ Now(tsc) < Now(begun) + Minute
    /\ Len(date) >= 1 => date[1] = DateAt(begun)[1]
    /\ \A f \in 2 .. 3 : f <= Len(date) => \E c \in begun .. tsc : date[f] = DateAt(c)[f]

\* The first mark lies before what is read now.
Marked ==
    /\ rtcPc \in {"t0", "t1"} => Len(marks) <= 1
    /\ Len(marks) = 1 =>
           /\ marks[1].tsc <= begun
           /\ marks[1].torn \/ \E c \in boot .. marks[1].tsc : DateAt(c) = marks[1].date

RtcInv == RtcTypeOK /\ Reading /\ Marked /\ RtcSound

LEMMA Dates ==
    ASSUME NEW c \in Nat
    PROVE  /\ Now(c) \in Nat /\ DateAt(c) \in Seq(Nat) /\ Len(DateAt(c)) = 3
           /\ \A f \in 1 .. 3 : DateAt(c)[f] \in Nat
           /\ DateAt(c)[1] = Now(c) % Minute
           /\ DateAt(c) = <<DateAt(c)[1], DateAt(c)[2], DateAt(c)[3]>>
<1>1. Now(c) \in Nat
  BY RtcAssumption, Divides DEF Now
<1>2. Now(c) % Minute \in Nat /\ Now(c) \div Minute \in Nat
  BY <1>1, RtcAssumption, Divides
<1>3. (Now(c) \div Minute) % Hour \in Nat
  BY <1>2, RtcAssumption, Divides
<1>4. Minute * Hour \in Nat \ {0}
  BY RtcAssumption
<1>5. Now(c) \div (Minute * Hour) \in Nat
  BY <1>1, <1>4, Divides
<1>. QED  BY <1>1, <1>2, <1>3, <1>5 DEF DateAt

LEMMA ReadsDate ==
    ASSUME RtcTypeOK, NEW f \in 1 .. 3
    PROVE  read_rtc(f) = DateAt(tsc)[f]
<1>1. PICK x \in Nat : x = DateAt(tsc)[f]
  BY Dates DEF RtcTypeOK
<1>2. (x % 10) \in 0 .. 9 /\ (x \div 10) \in Nat /\ x = (x \div 10) * 10 + (x % 10)
  OBVIOUS
<1>3. PICK ones \in 0 .. 9, tens \in Nat : ones = x % 10 /\ tens = x \div 10
  BY <1>2
<1>4. (ones + 16 * tens) % 16 = ones /\ (ones + 16 * tens) \div 16 = tens
  OBVIOUS
<1>. QED  BY <1>1, <1>2, <1>3, <1>4 DEF read_rtc, Bcd

\* The clock does not run backwards.
LEMMA RunsOn ==
    ASSUME NEW c \in Nat, NEW d \in Nat, c <= d
    PROVE  Now(c) <= Now(d)
<1>. DEFINE p == c \div Freq
            q == d \div Freq
            r == c % Freq
            s == d % Freq
<1>1. /\ p \in Nat /\ q \in Nat /\ r \in 0 .. Freq - 1 /\ s \in 0 .. Freq - 1
      /\ c = p * Freq + r /\ d = q * Freq + s /\ Freq \in Nat \ {0}
  BY RtcAssumption, Divides
<1>. HIDE DEF p, q, r, s
<1>2. p * Freq < (q + 1) * Freq
  <2>1. (q + 1) * Freq = q * Freq + Freq /\ q * Freq \in Nat /\ p * Freq \in Nat
    BY <1>1
  <2>. QED  BY <1>1, <2>1
<1>3. p < q + 1
  BY <1>1, <1>2, Cancels
<1>. QED  BY <1>1, <1>3 DEF Now, p, q

\* Within a minute the seconds tell the date.
LEMMA SameSecond ==
    ASSUME NEW m \in Nat, NEW n \in Nat, m <= n, n < m + Minute, m % Minute = n % Minute
    PROVE  m = n
<1>. DEFINE p == m \div Minute
            q == n \div Minute
            r == m % Minute
<1>1. /\ p \in Nat /\ q \in Nat /\ r \in Nat /\ Minute \in Nat \ {0}
      /\ m = p * Minute + r /\ n = q * Minute + r
  BY RtcAssumption, Divides
<1>. HIDE DEF p, q, r
<1>2. q * Minute < (p + 1) * Minute /\ p * Minute < (q + 1) * Minute
  <2>1. /\ (p + 1) * Minute = p * Minute + Minute /\ (q + 1) * Minute = q * Minute + Minute
        /\ p * Minute \in Nat /\ q * Minute \in Nat
    BY <1>1
  <2>. QED  BY <1>1, <2>1
<1>3. q < p + 1 /\ p < q + 1
  BY <1>1, <1>2, Cancels
<1>4. p = q
  BY <1>1, <1>3
<1>. QED  BY <1>1, <1>4

LEMMA NotTorn ==
    ASSUME RtcTypeOK, Reading, Len(date) = 3, read_rtc(1) = date[1]
    PROVE  ~Torn(date)
<1>1. /\ begun \in Nat /\ tsc \in Nat /\ begun <= tsc /\ date[1] = DateAt(begun)[1]
      /\ date[1] = DateAt(tsc)[1]
  BY ReadsDate DEF RtcTypeOK, Reading
<1>2. Now(begun) = Now(tsc)
  <2>1. Now(begun) % Minute = Now(tsc) % Minute
    BY <1>1, Dates
  <2>2. Now(begun) \in Nat /\ Now(tsc) \in Nat /\ Now(begun) <= Now(tsc)
    BY <1>1, Dates, RunsOn
  <2>. QED  BY <2>1, <2>2, SameSecond DEF Reading
<1>3. ASSUME NEW c \in begun .. tsc PROVE DateAt(c) = DateAt(begun)
  <2>. c \in Nat /\ begun <= c /\ c <= tsc
    BY <1>1
  <2>1. Now(begun) <= Now(c) /\ Now(c) <= Now(tsc) /\ Now(c) \in Nat /\ Now(tsc) \in Nat
    BY <1>1, RunsOn, Dates
  <2>2. Now(c) = Now(begun)
    BY <1>2, <2>1
  <2>. QED  BY <2>2 DEF DateAt
<1>4. date[2] = DateAt(begun)[2] /\ date[3] = DateAt(begun)[3]
  BY <1>3 DEF Reading
<1>5. date = <<date[1], date[2], date[3]>>
  BY DEF RtcTypeOK
<1>6. DateAt(begun) = <<DateAt(begun)[1], DateAt(begun)[2], DateAt(begun)[3]>>
  BY <1>1, Dates
<1>7. date = DateAt(begun) /\ begun \in begun .. tsc
  BY <1>1, <1>4, <1>5, <1>6
<1>. QED  BY <1>7 DEF Torn

\* The seconds since the hour began.
LEMMA HourOf ==
    ASSUME NEW c \in Nat
    PROVE  \E k \in Nat : /\ Now(c) = k * (Minute * Hour) + InHour(DateAt(c))
                          /\ InHour(DateAt(c)) \in Nat /\ InHour(DateAt(c)) < Minute * Hour
<1>. DEFINE x == Now(c)
            m == x \div Minute
            s == x % Minute
            k == m \div Hour
            h == m % Hour
<1>1. x \in Nat /\ Minute \in Nat \ {0} /\ Hour \in Nat \ {0}
  BY Dates, RtcAssumption
<1>2. m \in Nat /\ s \in 0 .. Minute - 1 /\ x = m * Minute + s
  BY <1>1, Divides
<1>3. k \in Nat /\ h \in 0 .. Hour - 1 /\ m = k * Hour + h
  BY <1>1, <1>2, Divides
<1>4. InHour(DateAt(c)) = h * Minute + s
  BY DEF InHour, DateAt
<1>. HIDE DEF x, m, s, k, h
<1>5. (k * Hour + h) * Minute = k * (Minute * Hour) + h * Minute /\ h * Minute \in Nat
  BY <1>1, <1>3
<1>6. x = k * (Minute * Hour) + (h * Minute + s)
  <2>1. k * (Minute * Hour) \in Nat
    BY <1>1, <1>3
  <2>. QED  BY <1>2, <1>3, <1>5, <2>1
<1>7. h * Minute + s < Minute * Hour
  <2>1. h * Minute <= (Hour - 1) * Minute
    BY <1>1, <1>3, Grows
  <2>2. (Hour - 1) * Minute = Minute * Hour - Minute /\ Minute * Hour \in Nat
    BY <1>1
  <2>. QED  BY <1>1, <1>2, <1>5, <2>1, <2>2
<1>. QED  BY <1>2, <1>3, <1>4, <1>5, <1>6, <1>7 DEF x

\* An hour of counts is an hour of seconds.
LEMMA HourLater ==
    ASSUME NEW c \in Nat, NEW d \in Nat, d <= c + (Minute * Hour) * Freq
    PROVE  Now(d) <= Now(c) + Minute * Hour
<1>. DEFINE q == c \div Freq
            r == c % Freq
            mh == Minute * Hour
<1>1. q \in Nat /\ r \in 0 .. Freq - 1 /\ c = q * Freq + r /\ Freq \in Nat \ {0} /\ mh \in Nat
  <2>1. Minute * Hour \in Nat
    BY RtcAssumption
  <2>. QED  BY <2>1, RtcAssumption, Divides
<1>2. mh * Freq \in Nat /\ q * Freq \in Nat
  BY <1>1
<1>. DEFINE e == c + mh * Freq
<1>3. e \in Nat /\ d <= e
  BY <1>2
<1>. HIDE DEF q, r, mh
<1>4. (q + mh) * Freq = q * Freq + mh * Freq
  BY <1>1
<1>5. (q + mh) * Freq <= e /\ e < (q + mh) * Freq + Freq /\ q + mh \in Nat
  BY <1>1, <1>2, <1>4
<1>. HIDE DEF e
<1>6. Now(e) = q + mh
  BY <1>1, <1>3, <1>5, Quotient DEF Now
<1>. QED  BY <1>3, <1>6, RunsOn DEF Now, q, mh

\* The seconds between two dates of less than an hour are those that passed.
LEMMA Passed ==
    ASSUME NEW c \in Nat, NEW d \in Nat, c <= d, d <= c + (Minute * Hour) * Freq,
           InHour(DateAt(d)) > InHour(DateAt(c))
    PROVE  InHour(DateAt(d)) - InHour(DateAt(c)) = Now(d) - Now(c)
<1>. DEFINE mh == Minute * Hour
<1>1. PICK k \in Nat, u \in Nat : Now(c) = k * mh + u /\ u = InHour(DateAt(c)) /\ u < mh
  BY HourOf
<1>2. PICK j \in Nat, v \in Nat : Now(d) = j * mh + v /\ v = InHour(DateAt(d)) /\ v < mh
  BY HourOf
<1>3. Now(c) <= Now(d) /\ Now(d) <= Now(c) + mh /\ mh \in Nat /\ u < v
  BY <1>1, <1>2, RunsOn, HourLater, RtcAssumption
<1>. HIDE DEF mh
<1>4. (j + 1) * mh = j * mh + mh /\ (k + 1) * mh = k * mh + mh /\ j * mh \in Nat /\ k * mh \in Nat
  BY <1>3
<1>5. j * mh < (k + 1) * mh /\ k * mh < (j + 1) * mh
  BY <1>1, <1>2, <1>3, <1>4
<1>6. j < k + 1 /\ k < j + 1
  BY <1>3, <1>5, Cancels
<1>7. j = k
  BY <1>6
<1>. QED  BY <1>1, <1>2, <1>4, <1>7

LEMMA EstimateStays ==
    ASSUME RtcTypeOK, EstimateSound, tsc' \in Nat, tsc <= tsc', UNCHANGED <<boot, marks>>
    PROVE  EstimateSound'
<1>1. \A c \in boot .. tsc : c \in boot .. tsc'
  BY DEF RtcTypeOK
<1>2. ASSUME Len(marks) = 2, ~marks[1].torn, ~marks[2].torn
      PROVE  \E c, d \in boot .. tsc' :
                 /\ DateAt(c) = marks[1].date /\ DateAt(d) = marks[2].date
                 /\ c <= marks[1].tsc /\ d <= marks[2].tsc
                 /\ Elapsed(marks) = Now(d) - Now(c)
  BY <1>1, <1>2 DEF EstimateSound
<1>. QED  BY <1>2 DEF EstimateSound, Elapsed

LEMMA FirstMark ==
    ASSUME RtcTypeOK, Len(marks) = 1
    PROVE  marks[1] \in MarkSet /\ marks[1].tsc \in Nat
<1>1. marks \in Seq(MarkSet) /\ 1 \in 1 .. Len(marks)
  BY DEF RtcTypeOK
<1>2. marks[1] \in MarkSet
  BY <1>1, ElementOfSeq
<1>. QED  BY <1>2 DEF MarkSet

LEMMA TickKeeps ==
    ASSUME RtcInv, Tick
    PROVE  RtcInv'
<1>1. /\ RtcTypeOK /\ Reading /\ Marked /\ tsc' = tsc + 1 /\ rtcPc # "idle"
      /\ UNCHANGED <<boot, rtcPc, date, begun, marks>>
      /\ tsc < boot + Run /\ Now(tsc + 1) < Now(begun) + Minute
      /\ tsc \in Nat /\ boot \in Nat /\ begun \in Nat /\ Run \in Nat
  BY RtcAssumption DEF Tick, RtcInv, RtcTypeOK
<1>2. RtcTypeOK'
  BY <1>1 DEF RtcTypeOK
<1>3. \A c \in begun .. tsc : c \in begun .. tsc'
  BY <1>1
<1>4. boot <= begun /\ begun <= tsc' /\ tsc' <= boot + Run /\ Now(tsc') < Now(begun) + Minute
  BY <1>1 DEF Reading
<1>5. Reading'
  BY <1>1, <1>3, <1>4 DEF Reading
<1>6. Marked'
  BY <1>1 DEF Marked
<1>7. EstimateSound' /\ NoTornDate'
  <2>1. tsc <= tsc' /\ tsc' \in Nat
    BY <1>1
  <2>. QED  BY <1>1, <2>1, EstimateStays DEF RtcInv, RtcSound, NoTornDate
<1>. QED  BY <1>2, <1>5, <1>6, <1>7 DEF RtcInv, RtcSound

LEMMA ReadFieldKeeps ==
    ASSUME RtcInv, ReadField
    PROVE  RtcInv'
<1>1. /\ RtcTypeOK /\ Reading /\ Marked /\ rtcPc # "idle" /\ Len(date) < 3
      /\ date' = Append(date, read_rtc(Len(date) + 1))
      /\ begun' = (IF date = <<>> THEN tsc ELSE begun)
      /\ UNCHANGED <<tsc, boot, rtcPc, marks>>
      /\ tsc \in Nat /\ boot \in Nat /\ begun \in Nat /\ date \in Seq(Nat) /\ Len(date) \in 0 .. 2
  <2>1. date \in Seq(Nat) /\ Len(date) \in Nat /\ Len(date) < 3
    BY DEF ReadField, RtcInv, RtcTypeOK
  <2>2. PICK k \in Nat : k = Len(date)
    BY <2>1
  <2>3. Len(date) \in 0 .. 2
    BY <2>1, <2>2
  <2>. QED  BY <2>1, <2>3 DEF ReadField, RtcInv, RtcTypeOK
<1>. DEFINE f == Len(date) + 1
<1>2. f \in 1 .. 3 /\ read_rtc(f) = DateAt(tsc)[f] /\ DateAt(tsc)[f] \in Nat
  <2>1. f \in 1 .. 3
    BY <1>1
  <2>. HIDE DEF f
  <2>. QED  BY <1>1, <2>1, ReadsDate, Dates
<1>3. /\ date' \in Seq(Nat) /\ Len(date') = f /\ date'[f] = DateAt(tsc)[f]
      /\ \A g \in 1 .. Len(date) : date'[g] = date[g]
  BY <1>1, <1>2
<1>4. RtcTypeOK'
  BY <1>1, <1>2, <1>3 DEF RtcTypeOK
<1>5. Reading'
  <2>1. CASE date = <<>>
    <3>1. begun' = tsc /\ f = 1 /\ Now(tsc) \in Nat /\ Minute \in Nat \ {0}
      BY <1>1, <2>1, Dates, RtcAssumption
    <3>2. Now(tsc) < Now(tsc) + Minute
      BY <3>1
    <3>. QED  BY <1>1, <1>3, <3>1, <3>2 DEF Reading
  <2>2. CASE date # <<>>
    <3>1. begun' = begun /\ f \in 2 .. 3
      BY <1>1, <2>2
    <3>2. date'[1] = DateAt(begun)[1]
      BY <1>1, <1>3, <3>1 DEF Reading
    <3>3. ASSUME NEW g \in 2 .. 3, g <= f PROVE \E c \in begun .. tsc : date'[g] = DateAt(c)[g]
      <4>1. CASE g = f
        BY <1>1, <1>3, <4>1, SMTT(60) DEF Reading
      <4>2. CASE g # f
        BY <1>1, <1>3, <3>3, <4>2, SMTT(60) DEF Reading
      <4>. QED  BY <4>1, <4>2
    <3>. QED  BY <1>1, <1>3, <3>1, <3>2, <3>3 DEF Reading
  <2>. QED  BY <2>1, <2>2
<1>6. Marked'
  <2>1. begun <= begun' /\ begun' \in Nat
    BY <1>1 DEF Reading
  <2>2. Len(marks) = 1 => marks[1].tsc \in Nat
    BY <1>1, FirstMark
  <2>. QED  BY <1>1, <2>1, <2>2 DEF Marked
<1>7. EstimateSound' /\ NoTornDate'
  BY <1>1, EstimateStays DEF RtcInv, RtcSound, NoTornDate
<1>. QED  BY <1>4, <1>5, <1>6, <1>7 DEF RtcInv, RtcSound

\* A new date is begun, with the marks at hand.
LEMMA RecheckBegins ==
    ASSUME RtcInv, NEW p \in {"t0", "t1", "rtc"}, NewDate(p)
    PROVE  /\ tsc' = tsc /\ boot' = boot /\ rtcPc' = p /\ begun' = tsc
           /\ marks' \in Seq(MarkSet) /\ Len(marks') <= 2 => RtcTypeOK'
           /\ Reading' /\ NoTornDate'
<1>1. /\ tsc' = tsc /\ boot' = boot /\ rtcPc' = p /\ begun' = tsc /\ date' = <<>>
      /\ tsc \in Nat /\ boot \in Nat /\ begun \in Nat
  BY DEF NewDate, RtcInv, RtcTypeOK
<1>2. boot <= tsc /\ tsc <= boot + Run
  BY <1>1 DEF RtcInv, Reading
<1>3. Now(tsc) < Now(tsc) + Minute
  BY <1>1, Dates, RtcAssumption, SMTT(60)
<1>. QED  BY <1>1, <1>2, <1>3 DEF RtcTypeOK, Reading, NoTornDate

\* The marks stay, and what is read now lies after them.
LEMMA MarksStay ==
    ASSUME RtcInv, NEW p \in {"t0", "t1", "rtc"}, NewDate(p), UNCHANGED marks,
           p = "rtc" \/ rtcPc \in {"t0", "t1"}
    PROVE  RtcInv'
<1>1. tsc' = tsc /\ boot' = boot /\ rtcPc' = p /\ begun' = tsc /\ Reading' /\ NoTornDate' /\ RtcTypeOK'
  BY RecheckBegins DEF RtcInv, RtcTypeOK
<1>2. Marked'
  <2>1. Len(marks) = 1 => marks[1].tsc \in Nat /\ marks[1].tsc <= begun
    BY FirstMark DEF RtcInv, Marked
  <2>2. tsc \in Nat /\ begun \in Nat /\ begun <= tsc
    BY DEF RtcInv, RtcTypeOK, Reading
  <2>3. Len(marks) = 1 => marks[1].tsc <= tsc
    BY <2>1, <2>2
  <2>. QED  BY <1>1, <2>3 DEF Marked, RtcInv
<1>3. EstimateSound'
  BY <1>1, EstimateStays DEF RtcInv, RtcSound, RtcTypeOK
<1>. QED  BY <1>1, <1>2, <1>3 DEF RtcInv, RtcSound

LEMMA WaitSecondKeeps ==
    ASSUME RtcInv, WaitSecond
    PROVE  RtcInv'
<1>. DEFINE mark == [date |-> date, tsc |-> tsc, torn |-> Torn(date)]
            found == Append(marks, mark)
<1>1. /\ RtcTypeOK /\ Reading /\ Marked /\ rtcPc = "t1" /\ Len(date) = 3 /\ tsc \in Nat
      /\ boot \in Nat /\ begun \in Nat /\ marks \in Seq(MarkSet) /\ Len(marks) \in 0 .. 1
      /\ boot <= begun /\ begun <= tsc /\ tsc <= boot + Run
  <2>1. marks \in Seq(MarkSet) /\ Len(marks) \in Nat /\ Len(marks) <= 1
    BY DEF WaitSecond, RtcInv, RtcTypeOK, Marked
  <2>2. PICK k \in Nat : k = Len(marks)
    BY <2>1
  <2>3. Len(marks) \in 0 .. 1
    BY <2>1, <2>2
  <2>. QED  BY <2>1, <2>3 DEF WaitSecond, RtcInv, RtcTypeOK, Reading
<1>2. mark \in MarkSet /\ found \in Seq(MarkSet) /\ Len(found) = Len(marks) + 1
      /\ found[Len(marks) + 1] = mark /\ (Len(marks) = 1 => found[1] = marks[1])
  <2>1. mark \in MarkSet
    BY <1>1 DEF RtcTypeOK, MarkSet, Torn
  <2>. HIDE DEF mark
  <2>. QED  BY <1>1, <2>1
<1>3. mark.date = date /\ mark.tsc = tsc /\ (mark.torn <=> Torn(date))
  OBVIOUS
<1>4. CASE NewDate("t0") /\ UNCHANGED marks
  BY <1>1, <1>4, MarksStay
<1>5. CASE Len(found) = 1 /\ NewDate("t0") /\ marks' = found
  <2>1. tsc' = tsc /\ boot' = boot /\ rtcPc' = "t0" /\ begun' = tsc /\ Reading' /\ NoTornDate' /\ RtcTypeOK'
    BY <1>2, <1>5, RecheckBegins
  <2>2. Len(marks) = 0 /\ marks'[1] = mark
    BY <1>1, <1>2, <1>5
  <2>3. mark.torn \/ \E c \in boot .. tsc : DateAt(c) = date
    <3>1. \A c \in begun .. tsc : c \in boot .. tsc
      BY <1>1
    <3>. QED  BY <1>3, <3>1 DEF Torn
  <2>. HIDE DEF mark, found
  <2>4. Marked'
    <3>1. Len(marks') = 1 /\ tsc <= tsc
      BY <1>1, <1>5
    <3>2. marks'[1].tsc = tsc /\ marks'[1].date = date /\ (marks'[1].torn <=> mark.torn)
      BY <1>3, <2>2
    <3>3. marks'[1].torn \/ \E c \in boot' .. marks'[1].tsc : DateAt(c) = marks'[1].date
      BY <2>1, <2>3, <3>2
    <3>. QED  BY <2>1, <3>1, <3>2, <3>3 DEF Marked
  <2>5. EstimateSound'
    BY <1>5 DEF EstimateSound
  <2>. QED  BY <2>1, <2>4, <2>5 DEF RtcInv, RtcSound
<1>6. CASE NewDate("t0") /\ marks' = <<>>
  <2>1. tsc' = tsc /\ boot' = boot /\ rtcPc' = "t0" /\ Reading' /\ NoTornDate' /\ RtcTypeOK'
    BY <1>6, RecheckBegins
  <2>. QED  BY <1>6, <2>1 DEF RtcInv, RtcSound, Marked, EstimateSound
<1>7. CASE Len(found) # 1 /\ ~(Elapsed(found) <= 0) /\ NewDate("rtc") /\ marks' = found
  <2>1. tsc' = tsc /\ boot' = boot /\ rtcPc' = "rtc" /\ begun' = tsc /\ Reading' /\ NoTornDate'
    BY <1>7, RecheckBegins
  <2>2. Len(marks) = 1 /\ Len(found) = 2 /\ found[1] = marks[1] /\ found[2] = mark
    BY <1>1, <1>2, <1>7
  <2>3. RtcTypeOK'
    BY <1>2, <1>7, <2>2, RecheckBegins
  <2>. HIDE DEF mark, found
  <2>4. Marked'
    BY <1>7, <2>1, <2>2 DEF Marked
  <2>5. EstimateSound'
    <3>1. SUFFICES ASSUME ~found[1].torn, ~found[2].torn
                   PROVE  \E c, d \in boot .. tsc :
                             /\ DateAt(c) = found[1].date /\ DateAt(d) = found[2].date
                             /\ c <= found[1].tsc /\ d <= found[2].tsc
                             /\ Elapsed(found) = Now(d) - Now(c)
      BY <1>7, <2>1 DEF EstimateSound, Elapsed
    <3>2. PICK c \in boot .. marks[1].tsc : DateAt(c) = marks[1].date
      BY <1>1, <2>2, <3>1 DEF Marked
    <3>3. PICK d \in begun .. tsc : DateAt(d) = date
      BY <1>3, <2>2, <3>1 DEF Torn
    <3>4. marks[1].tsc \in Nat /\ marks[1].tsc <= begun
      BY <1>1, <2>2, FirstMark DEF Marked
    <3>5. c \in boot .. tsc /\ d \in boot .. tsc /\ c <= marks[1].tsc /\ d <= tsc /\ c <= d
          /\ c \in Nat /\ d \in Nat
      BY <1>1, <3>4
    <3>6. d <= c + (Minute * Hour) * Freq
      <4>1. (Minute * Hour) * Freq \in Nat /\ Run <= (Minute * Hour) * Freq /\ Run \in Nat
        BY RtcAssumption
      <4>. QED  BY <1>1, <3>5, <4>1
    <3>7. Elapsed(found) = InHour(DateAt(d)) - InHour(DateAt(c))
      BY <1>3, <2>2, <3>2, <3>3 DEF Elapsed
    <3>8. InHour(DateAt(d)) > InHour(DateAt(c))
      <4>1. PICK u \in Nat, v \in Nat : u = InHour(DateAt(c)) /\ v = InHour(DateAt(d))
        BY <3>5, HourOf
      <4>. QED  BY <1>7, <3>7, <4>1
    <3>9. Elapsed(found) = Now(d) - Now(c)
      BY <3>5, <3>6, <3>7, <3>8, Passed
    <3>. QED  BY <1>3, <2>2, <3>2, <3>3, <3>5, <3>9
  <2>. QED  BY <2>1, <2>3, <2>4, <2>5 DEF RtcInv, RtcSound
<1>. QED  BY <1>4, <1>5, <1>6, <1>7 DEF WaitSecond

LEMMA RecheckKeeps ==
    ASSUME RtcInv, Recheck
    PROVE  RtcInv'
<1>1. CASE read_rtc(1) # date[1]
  BY <1>1, MarksStay DEF Recheck
<1>2. CASE read_rtc(1) = date[1]
  <2>1. rtcPc' = "idle" /\ UNCHANGED <<tsc, boot, date, begun, marks>> /\ Len(date) = 3
    BY <1>2 DEF Recheck
  <2>2. ~Torn(date)
    BY <1>2, <2>1, NotTorn DEF RtcInv
  <2>3. NoTornDate'
    BY <2>1, <2>2 DEF NoTornDate, Torn
  <2>4. EstimateSound'
    BY <2>1, EstimateStays DEF RtcInv, RtcSound, RtcTypeOK
  <2>. QED  BY <2>1, <2>3, <2>4 DEF RtcInv, RtcSound, RtcTypeOK, Reading, Marked
<1>. QED  BY <1>1, <1>2

(* timer_rtc returns no date torn by a tick, and the seconds the frequency *)
(* is estimated from are those that passed, for every frequency and every  *)
(* length of a minute and an hour (ioe.c: read_rtc, wait_sec,              *)
(* estimate_freq).                                                         *)
THEOREM RtcSoundHolds == RtcSpec => []RtcSound
<1>1. RtcInit => RtcInv
  <2>1. ASSUME RtcInit PROVE RtcInv
    <3>1. /\ tsc \in Nat /\ boot = tsc /\ begun = tsc /\ Now(tsc) \in Nat
          /\ Run \in Nat /\ Minute \in Nat \ {0}
      BY <2>1, RtcAssumption, Dates DEF RtcInit
    <3>2. tsc <= boot + Run /\ Now(tsc) < Now(begun) + Minute
      BY <3>1
    <3>. QED  BY <2>1, <3>1, <3>2
         DEF RtcInit, RtcInv, RtcTypeOK, Reading, Marked, RtcSound, NoTornDate, EstimateSound
  <2>. QED  BY <2>1
<1>2. RtcInv /\ [RtcNext]_rtcVars => RtcInv'
  <2>. SUFFICES ASSUME RtcInv, [RtcNext]_rtcVars PROVE RtcInv'
    OBVIOUS
  <2>1. CASE WaitFirst
    BY <2>1, MarksStay DEF WaitFirst
  <2>2. CASE UNCHANGED rtcVars
    <3>1. EstimateSound' /\ NoTornDate'
      BY <2>2, EstimateStays DEF rtcVars, RtcInv, RtcSound, RtcTypeOK, NoTornDate, Torn
    <3>. QED  BY <2>2, <3>1 DEF rtcVars, RtcInv, RtcTypeOK, Reading, Marked, RtcSound
  <2>. QED  BY <2>1, <2>2, TickKeeps, ReadFieldKeeps, WaitSecondKeeps, RecheckKeeps DEF RtcNext
<1>3. RtcInv => RtcSound
  BY DEF RtcInv
<1>. QED  BY <1>1, <1>2, <1>3, PTL DEF RtcSpec

-----------------------------------------------------------------------------
(* LoadsProgram of BootLoader.                                             *)
(*                                                                         *)
(* The copies before the current one are in place and stay there, since a  *)
(* later one overwrites and clears nothing of them; the current one is in  *)
(* place up to its sector, and its sector of the disk is that of its place.*)

Plan == load_kernel(ph)
Loaded == Len(Plan) - Len(jobs)

Placed(j) == \A a \in j.buf .. j.buf + j.memsz - 1 :
                 ram[a] = IF a < j.buf + j.nbytes THEN j.disk_offset + (a - j.buf) ELSE 0

BootTypeOK ==
    /\ ph \in Programs
    /\ ram \in [0 .. MemSize - 1 -> Int]
    /\ ide \in {"ready", "busy", "data"}
    /\ jumped \in 0 .. 2 /\ (bootIsAp <=> jumped > 0)
    /\ bootIsAp => jobs = <<>>

\* The copies still to be made are the end of the plan.
Ahead ==
    /\ jobs \in Seq([buf : Int, nbytes : Int, disk_offset : Int, memsz : Int])
    /\ Len(jobs) <= Len(Plan)
    /\ \A x \in 1 .. Len(jobs) : jobs[x] = Plan[Loaded + x]

\* The current copy: sectors follow one another on the disk as in memory.
Current ==
    jobs # <<>> =>
        /\ cur \in Nat /\ cur % SECTSIZE = 0 /\ Sector(job.buf) <= cur
        /\ sect \in Int /\ OnDisk(sect, 0) - job.disk_offset = cur - job.buf
        /\ \A a \in job.buf .. Ed - 1 : a < cur => ram[a] = job.disk_offset + (a - job.buf)
        /\ ide # "ready" => cur < Ed

BootInv == BootTypeOK /\ Ahead /\ Current /\ \A i \in 1 .. Loaded : Placed(Plan[i])

\* A sector of the disk comes to the place its bytes have in the file.
LEMMA InSector ==
    ASSUME NEW c \in Nat, NEW a \in Nat, c % SECTSIZE = 0, c <= a, a < c + SECTSIZE
    PROVE  Sector(a) = c
<1>. DEFINE S == SECTSIZE
            q == c \div S
<1>1. S \in Nat \ {0}
  BY BootAssumption
<1>. HIDE DEF S
<1>2. q \in Nat /\ c = q * S
  BY <1>1, Divides DEF S
<1>. HIDE DEF q
<1>3. a % S = a - q * S
  BY <1>1, <1>2, Quotient DEF S
<1>. QED  BY <1>2, <1>3 DEF Sector, S

\* Where the copies of a program are.
LEMMA Plans ==
    ASSUME ph \in Programs
    PROVE  /\ Plan \in Seq([buf : Int, nbytes : Int, disk_offset : Int, memsz : Int])
           /\ Len(Plan) = Len(ph) + 2 /\ Len(ph) \in Nat
           /\ \A i \in 1 .. Len(Plan) : Placeable(Plan[i])
           /\ \A j \in 1 .. Len(Plan) : \A i \in 1 .. j - 1 :
                \A a \in Plan[i].buf .. Plan[i].buf + Plan[i].memsz - 1 : a \notin Filled(Plan[j])
           /\ Plan[1] = Copy(MAINARG_ADDR, ARGSIZE, -ARGSIZE, ARGSIZE)
           /\ \A i \in 1 .. Len(ph) : Plan[i + 2] = load_program(ph[i])
<1>. DEFINE S == [p_paddr : Nat, p_filesz : Nat, p_memsz : Nat, p_offset : Nat]
            rest == [i \in DOMAIN ph |-> load_program(ph[i])]
            C == [buf : Int, nbytes : Int, disk_offset : Int, memsz : Int]
            one == Copy(MAINARG_ADDR, ARGSIZE, -ARGSIZE, ARGSIZE)
            two == Copy(ElfAddr, HeaderSize, 0, HeaderSize)
<1>1. ph \in Seq(S) /\ Len(ph) \in Nat /\ DOMAIN ph = 1 .. Len(ph)
  BY BootAssumption
<1>2. Plan = <<one, two>> \o rest
  BY DEF Plan, load_kernel
<1>3. rest \in Seq({load_program(s) : s \in S}) /\ Len(rest) = Len(ph)
      /\ \A i \in 1 .. Len(ph) : rest[i] = load_program(ph[i])
  <2>. HIDE DEF S
  <2>1. \A i \in 1 .. Len(ph) : rest[i] = load_program(ph[i]) /\ ph[i] \in S
    BY <1>1
  <2>. QED  BY <1>1, <2>1
<1>4. rest \in Seq(UNION {{load_program(s) : s \in S}, {one, two}})
      /\ <<one, two>> \in Seq(UNION {{load_program(s) : s \in S}, {one, two}})
  BY <1>3
<1>. HIDE DEF rest, one, two, S
<1>5. /\ Len(Plan) = Len(ph) + 2 /\ Plan[1] = one
      /\ \A i \in 1 .. Len(ph) : Plan[i + 2] = rest[i]
      /\ DOMAIN Plan = 1 .. Len(Plan) /\ Plan = [i \in 1 .. Len(Plan) |-> Plan[i]]
  BY <1>1, <1>2, <1>3, <1>4
<1>6. \A i \in 1 .. Len(Plan) : Placeable(Plan[i])
  BY <1>5, BootAssumption DEF Plan
<1>7. \A j \in 1 .. Len(Plan) : \A i \in 1 .. j - 1 :
        Filled(Plan[j]) \cap (Plan[i].buf .. Plan[i].buf + Plan[i].memsz - 1) = {}
  BY <1>5, BootAssumption DEF Plan
<1>8. \A i \in 1 .. Len(Plan) : Plan[i] \in C
  <2>. TAKE i \in 1 .. Len(Plan)
  <2>1. Plan[i] = one \/ Plan[i] = two \/ \E s \in S : Plan[i] = load_program(s)
    BY <1>2, <1>3, <1>5, <1>4
  <2>2. Placeable(Plan[i])
    BY <1>6
  <2>3. \E x, y, z, m : Plan[i] = [buf |-> x, nbytes |-> y, disk_offset |-> z, memsz |-> m]
    BY <2>1 DEF one, two, load_program, Copy
  <2>. QED  BY <2>2, <2>3 DEF Placeable
<1>9. Plan \in Seq(C)
  <2>. HIDE DEF C
  <2>1. Len(Plan) \in Nat
    BY <1>1, <1>5
  <2>. QED  BY <2>1, <1>5, <1>8
<1>. QED  BY <1>1, <1>3, <1>5, <1>6, <1>7, <1>9 DEF one

LEMMA Begun ==
    ASSUME NEW j, Placeable(j)
    PROVE  /\ FirstSector(j).cur \in Nat /\ FirstSector(j).cur % SECTSIZE = 0
           /\ FirstSector(j).cur = Sector(j.buf) /\ Sector(j.buf) <= j.buf
           /\ FirstSector(j).sect \in Int
           /\ OnDisk(FirstSector(j).sect, 0) - j.disk_offset = FirstSector(j).cur - j.buf
<1>. DEFINE S == SECTSIZE
            b == j.buf
            o == j.disk_offset
            A == ARGSIZE \div S
<1>1. S \in Nat \ {0} /\ b \in Nat /\ o \in Int /\ A \in Int /\ b % S = o % S /\ o \div S \in Int
  BY BootAssumption DEF Placeable
<1>2. FirstSector(j).cur = b - (b % S) /\ FirstSector(j).sect = (o \div S) + A + 1 /\ Sector(b) = b - (b % S)
  BY DEF FirstSector, Sector
<1>3. OnDisk(FirstSector(j).sect, 0) = (((o \div S) + A + 1) - 1 - A) * S + 0
  <2>1. FirstSector(j).sect = (o \div S) + A + 1 /\ (o \div S) + A + 1 \in Int
    BY <1>1, <1>2
  <2>2. \A x \in Int : OnDisk(x, 0) = (x - 1 - A) * S + 0
    BY DEF OnDisk
  <2>. DEFINE X == (o \div S) + A + 1
  <2>3. X \in Int /\ FirstSector(j).sect = X
    BY <2>1
  <2>. HIDE DEF X
  <2>4. OnDisk(FirstSector(j).sect, 0) = (X - 1 - A) * S + 0
    BY <2>2, <2>3
  <2>. QED  BY <2>4 DEF X
<1>. HIDE DEF S, b, o, A
<1>4. b % S \in 0 .. S - 1 /\ b = (b \div S) * S + (b % S) /\ b \div S \in Nat
  BY <1>1, Divides
<1>5. o = (o \div S) * S + (o % S)
  BY <1>1
<1>6. ((o \div S) + A + 1) - 1 - A = o \div S
  BY <1>1
<1>7. (b \div S) * S \in Nat /\ (o \div S) * S \in Int
  BY <1>1, <1>4
<1>8. b - (b % S) = (b \div S) * S
  BY <1>4, <1>7, <1>1
<1>9. ((b \div S) * S) % S = 0
  <2>1. (b \div S) * S < (b \div S) * S + S
    BY <1>1, <1>7
  <2>. DEFINE q == b \div S
  <2>2. q \in Nat /\ q * S \in Nat /\ q * S <= q * S /\ q * S < q * S + S
    BY <1>4, <1>7, <2>1
  <2>. HIDE DEF q
  <2>3. (q * S) % S = q * S - q * S
    BY <1>1, <2>2, Quotient
  <2>. QED  BY <2>2, <2>3 DEF q
<1>10. ((o \div S) * S) - o = (b - (b % S)) - b
  BY <1>1, <1>4, <1>5, <1>7
<1>11. (b \div S) * S <= b /\ (o \div S) + A + 1 \in Int
  BY <1>1, <1>4, <1>7
<1>. HIDE DEF OnDisk, FirstSector, Sector
<1>12. FirstSector(j).cur \in Nat /\ FirstSector(j).cur % S = 0 /\ FirstSector(j).cur = Sector(b)
      /\ Sector(b) <= b /\ FirstSector(j).sect \in Int
  <2>. DEFINE q == (b \div S) * S
  <2>1. q \in Nat /\ q % S = 0 /\ q <= b /\ b - (b % S) = q
    BY <1>7, <1>8, <1>9, <1>11
  <2>. HIDE DEF q
  <2>. QED  BY <1>2, <1>11, <2>1
<1>13. OnDisk(FirstSector(j).sect, 0) = (o \div S) * S
  BY <1>3, <1>6, <1>7
<1>14. OnDisk(FirstSector(j).sect, 0) - o = FirstSector(j).cur - b
  BY <1>2, <1>10, <1>13
<1>. QED  BY <1>12, <1>14 DEF S, b, o

\* What holds of the current copy.
LEMMA CurrentJob ==
    ASSUME BootInv, jobs # <<>>
    PROVE  /\ Len(jobs) \in Nat \ {0} /\ Loaded \in Nat /\ Loaded + 1 \in 1 .. Len(Plan)
           /\ job = Plan[Loaded + 1] /\ Placeable(job)
           /\ \A i \in 1 .. Loaded : i \in 1 .. Len(Plan) /\ Placeable(Plan[i])
                /\ \A a \in Plan[i].buf .. Plan[i].buf + Plan[i].memsz - 1 : a \notin Filled(job)
<1>1. /\ Len(jobs) \in Nat /\ Len(Plan) \in Nat /\ Len(jobs) <= Len(Plan) /\ Len(jobs) # 0
      /\ \A x \in 1 .. Len(jobs) : jobs[x] = Plan[Loaded + x]
  <2>1. ph \in Programs
    BY DEF BootInv, BootTypeOK
  <2>2. Len(Plan) \in Nat
    <3>1. Len(Plan) = Len(ph) + 2 /\ Len(ph) \in Nat
      BY <2>1, Plans
    <3>. QED  BY <3>1
  <2>3. Len(jobs) \in Nat /\ Len(jobs) # 0
    BY DEF BootInv, Ahead
  <2>. QED  BY <2>2, <2>3 DEF BootInv, Ahead
<1>2. PICK n \in Nat, m \in Nat : n = Len(jobs) /\ m = Len(Plan)
  BY <1>1
<1>3. Loaded \in Nat /\ Loaded + 1 \in 1 .. Len(Plan) /\ 1 \in 1 .. Len(jobs)
  BY <1>1, <1>2 DEF Loaded
<1>4. job = jobs[1]
  BY DEF job
<1>. HIDE DEF Loaded
<1>5. job = Plan[Loaded + 1]
  BY <1>1, <1>3, <1>4
<1>6. ph \in Programs
  BY DEF BootInv, BootTypeOK
<1>. HIDE DEF job
<1>7. \A i \in 1 .. Loaded : i \in 1 .. Len(Plan) /\ i \in 1 .. (Loaded + 1) - 1
  BY <1>1, <1>2, <1>3
<1>. QED  BY <1>1, <1>3, <1>5, <1>6, <1>7, Plans

\* What is stored within the place of the current copy leaves the others alone.
LEMMA OthersStay ==
    ASSUME BootInv, jobs # <<>>, ram' \in [0 .. MemSize - 1 -> Int],
           \A a \in 0 .. MemSize - 1 : ram'[a] = ram[a] \/ a \in Filled(job),
           NEW i \in 1 .. Loaded, UNCHANGED <<ph, jobs>>
    PROVE  Placed(Plan[i])'
<1>1. /\ Placeable(Plan[i]) /\ Placed(Plan[i]) /\ Loaded \in Nat
      /\ \A a \in Plan[i].buf .. Plan[i].buf + Plan[i].memsz - 1 : a \notin Filled(job)
  <2>1. Placed(Plan[i])
    BY DEF BootInv
  <2>. QED  BY <2>1, CurrentJob
<1>2. Plan' = Plan
  BY DEF Plan
<1>. DEFINE j == Plan[i]
<1>3. \A a \in j.buf .. j.buf + j.memsz - 1 : a \in 0 .. MemSize - 1
  BY <1>1, BootAssumption, SMTT(60) DEF Placeable
<1>4. \A a \in j.buf .. j.buf + j.memsz - 1 : ram'[a] = ram[a]
  BY <1>1, <1>3
<1>5. Plan[i]' = Plan[i]
  BY <1>2
<1>. QED  BY <1>1, <1>4, <1>5 DEF Placed

LEMMA ReadWordsKeeps ==
    ASSUME BootInv, ReadWords
    PROVE  BootInv'
<1>1. /\ jobs # <<>> /\ ide = "data" /\ ide' = "ready" /\ UNCHANGED <<ph, bootIsAp, jobs, jumped>>
      /\ cur' = cur + SECTSIZE /\ sect' = sect + 1
      /\ ram' = [a \in DOMAIN ram |-> IF a \in cur .. cur + SECTSIZE - 1 THEN OnDisk(sect, a - cur) ELSE ram[a]]
  BY DEF ReadWords, Loading
<1>2. /\ ph \in Programs /\ ram \in [0 .. MemSize - 1 -> Int] /\ Placeable(job)
      /\ cur \in Nat /\ cur % SECTSIZE = 0 /\ Sector(job.buf) <= cur /\ cur < Ed
      /\ sect \in Int /\ OnDisk(sect, 0) - job.disk_offset = cur - job.buf
      /\ \A a \in job.buf .. Ed - 1 : a < cur => ram[a] = job.disk_offset + (a - job.buf)
  BY <1>1, CurrentJob DEF BootInv, BootTypeOK, Current
<1>. DEFINE S == SECTSIZE
            A == ARGSIZE \div S
<1>3. S \in Nat \ {0} /\ A \in Int /\ MemSize \in Nat
  BY BootAssumption
<1>4. /\ job.buf \in Nat /\ job.nbytes \in Nat /\ job.memsz \in Nat /\ job.nbytes <= job.memsz
      /\ job.disk_offset \in Int /\ Ed = job.buf + job.nbytes
  BY <1>2 DEF Placeable, Ed
<1>5. job' = job /\ Ed' = Ed
  BY <1>1 DEF job, Ed
<1>6. /\ OnDisk(sect, 0) = cur + (job.disk_offset - job.buf)
      /\ \A k \in Int : OnDisk(sect, k) = OnDisk(sect, 0) + k
      /\ OnDisk(sect + 1, 0) = OnDisk(sect, 0) + S
  <2>1. \A x, k \in Int : OnDisk(x, k) = ((x - 1) - A) * S + k
    BY <1>3 DEF OnDisk
  <2>. DEFINE y == (sect - 1) - A
              z == y * S
  <2>2. y \in Int /\ z \in Int /\ ((sect + 1) - 1) - A = y + 1 /\ (y + 1) * S = z + S
    BY <1>2, <1>3, SMTT(60)
  <2>3. \A k \in Int : OnDisk(sect, k) = z + k
    BY <1>2, <2>1
  <2>4. OnDisk(sect + 1, 0) = (y + 1) * S + 0
    <3>1. OnDisk(sect + 1, 0) = (((sect + 1) - 1) - A) * S + 0
      BY <1>2, <2>1
    <3>. QED  BY <2>2, <3>1
  <2>. HIDE DEF z, y
  <2>5. OnDisk(sect, 0) = z
    BY <2>2, <2>3
  <2>6. OnDisk(sect + 1, 0) = z + S
    BY <1>3, <2>2, <2>4
  <2>7. OnDisk(sect, 0) = cur + (job.disk_offset - job.buf)
    <3>1. z - job.disk_offset = cur - job.buf /\ z \in Int /\ cur \in Int
          /\ job.disk_offset \in Int /\ job.buf \in Int
      BY <1>2, <1>4, <2>2, <2>5
    <3>2. \A x, o, c, b \in Int : x - o = c - b => x = c + (o - b)
      OBVIOUS
    <3>3. z = cur + (job.disk_offset - job.buf)
      BY <3>1, <3>2
    <3>. QED  BY <2>5, <3>3
  <2>8. \A k \in Int : OnDisk(sect, k) = OnDisk(sect, 0) + k
    BY <2>2, <2>3, <2>5
  <2>. QED  BY <2>5, <2>6, <2>7, <2>8
<1>. HIDE DEF S, A
<1>7. \A a \in cur .. cur + S - 1 : OnDisk(sect, a - cur) = job.disk_offset + (a - job.buf)
  BY <1>2, <1>3, <1>4, <1>6, SMTT(60)
<1>8. /\ ram' \in [0 .. MemSize - 1 -> Int]
      /\ \A a \in 0 .. MemSize - 1 : ram'[a] = ram[a] \/ a \in cur .. cur + S - 1
      /\ \A a \in 0 .. MemSize - 1 : a \in cur .. cur + S - 1 => ram'[a] = job.disk_offset + (a - job.buf)
      /\ \A a \in 0 .. MemSize - 1 : a \notin cur .. cur + S - 1 => ram'[a] = ram[a]
  <2>1. DOMAIN ram = 0 .. MemSize - 1 /\ \A a \in 0 .. MemSize - 1 : ram[a] \in Int
    BY <1>2
  <2>2. \A a \in cur .. cur + S - 1 : OnDisk(sect, a - cur) \in Int
    <3>1. \A a \in cur .. cur + S - 1 : job.disk_offset + (a - job.buf) \in Int
      BY <1>2, <1>3, <1>4, SMTT(60)
    <3>. QED  BY <1>7, <3>1
  <2>. QED  BY <1>1, <1>7, <2>1, <2>2 DEF S
<1>9. \A a \in 0 .. MemSize - 1 : a \in cur .. cur + S - 1 => a \in Filled(job)
  <2>. SUFFICES ASSUME NEW a \in 0 .. MemSize - 1, a \in cur .. cur + S - 1
                PROVE  a \in Filled(job)
    OBVIOUS
  <2>1. Sector(a) = cur
    BY <1>2, <1>3, InSector DEF S
  <2>2. Sector(job.buf) \in Int
    <3>1. job.buf % S \in Int
      BY <1>3, <1>4
    <3>. QED  BY <1>3, <1>4, <3>1 DEF Sector, S
  <2>3. cur <= job.buf + job.memsz - 1
    BY <1>2, <1>4, SMTT(60)
  <2>. QED  BY <1>2, <1>4, <2>1, <2>2, <2>3 DEF Filled
<1>10. BootTypeOK'
  BY <1>1, <1>8 DEF BootInv, BootTypeOK
<1>11. Ahead'
  BY <1>1 DEF BootInv, Ahead, Loaded, Plan
<1>12. Current'
  <2>1. cur' \in Nat /\ Sector(job.buf) <= cur' /\ sect' \in Int
    <3>1. Sector(job.buf) \in Int
      <4>1. job.buf % S \in Int
        BY <1>3, <1>4
      <4>. QED  BY <1>3, <1>4, <4>1 DEF Sector, S
    <3>. QED  BY <1>1, <1>2, <1>3, <3>1 DEF S
  <2>2. cur' % SECTSIZE = 0
    <3>1. cur = (cur \div S) * S /\ cur \div S \in Nat
      <4>1. cur \div S \in Nat /\ cur = (cur \div S) * S + (cur % S)
        BY <1>2, <1>3, Divides
      <4>2. (cur \div S) * S \in Nat /\ cur % S = 0
        BY <1>2, <1>3, <4>1 DEF S
      <4>. QED  BY <4>1, <4>2
    <3>. DEFINE q == (cur \div S) + 1
    <3>2. q * S = cur + S /\ q \in Nat
      <4>1. q * S = (cur \div S) * S + S
        BY <1>3, <3>1
      <4>. QED  BY <3>1, <4>1
    <3>3. cur + S \in Nat /\ q * S <= cur + S /\ cur + S < q * S + S
      BY <1>2, <1>3, <3>2
    <3>. HIDE DEF q
    <3>4. (cur + S) % S = (cur + S) - q * S
      BY <1>3, <3>2, <3>3, Quotient
    <3>. QED  BY <1>1, <1>2, <1>3, <3>2, <3>4 DEF S
  <2>3. OnDisk(sect', 0) - job.disk_offset = cur' - job.buf
    BY <1>1, <1>2, <1>3, <1>4, <1>6, SMTT(60) DEF S
  <2>4. \A a \in job.buf .. Ed - 1 : a < cur' => ram'[a] = job.disk_offset + (a - job.buf)
    <3>1. \A a \in job.buf .. Ed - 1 : a \in 0 .. MemSize - 1
      BY <1>2, <1>3, <1>4, SMTT(60) DEF Placeable
    <3>. TAKE a \in job.buf .. Ed - 1
    <3>. HAVE a < cur'
    <3>2. a \in 0 .. MemSize - 1 /\ a \in Int /\ cur' = cur + S
      BY <1>1, <1>4, <3>1 DEF S
    <3>3. CASE a < cur
      BY <1>2, <1>3, <1>8, <3>2, <3>3
    <3>4. CASE ~(a < cur)
      <4>1. a \in cur .. cur + S - 1
        BY <1>2, <1>3, <3>2, <3>4
      <4>. QED  BY <1>8, <3>2, <4>1
    <3>. QED  BY <3>3, <3>4
  <2>. QED  BY <1>1, <1>5, <2>1, <2>2, <2>3, <2>4 DEF Current, OnDisk
<1>13. \A i \in 1 .. Loaded : Placed(Plan[i])'
  BY <1>1, <1>8, <1>9, OthersStay
<1>14. Loaded' = Loaded
  BY <1>1 DEF Loaded, Plan
<1>. QED  BY <1>10, <1>11, <1>12, <1>13, <1>14 DEF BootInv

LEMMA SectorsInOrder ==
    ASSUME NEW a \in Nat, NEW b \in Nat, b <= a
    PROVE  Sector(b) \in Int /\ Sector(a) \in Int /\ Sector(b) <= Sector(a) /\ Sector(a) <= a
<1>. DEFINE S == SECTSIZE
            p == a \div S
            q == b \div S
<1>1. S \in Nat \ {0}
  BY BootAssumption
<1>. HIDE DEF S
<1>2. p \in Nat /\ q \in Nat /\ a % S \in 0 .. S - 1 /\ b % S \in 0 .. S - 1
      /\ a = p * S + (a % S) /\ b = q * S + (b % S)
  BY <1>1, Divides
<1>. HIDE DEF p, q
<1>3. p * S \in Nat /\ q * S \in Nat /\ (p + 1) * S = p * S + S
  BY <1>1, <1>2
<1>4. q * S < (p + 1) * S
  BY <1>1, <1>2, <1>3
<1>5. q <= p
  BY <1>1, <1>2, <1>4, Cancels
<1>6. q * S <= p * S
  BY <1>1, <1>2, <1>5, Grows
<1>7. Sector(a) = p * S /\ Sector(b) = q * S
  <2>1. a - (a % S) = p * S /\ b - (b % S) = q * S
    <3>1. \A x, y, z \in Int : x = y + z => x - z = y
      OBVIOUS
    <3>2. a \in Int /\ b \in Int /\ a % S \in Int /\ b % S \in Int /\ p * S \in Int /\ q * S \in Int
      BY <1>1, <1>2, <1>3
    <3>. QED  BY <1>2, <3>1, <3>2
  <2>. QED  BY <2>1 DEF Sector, S
<1>. QED  BY <1>1, <1>2, <1>3, <1>6, <1>7

\* The next copy begins.
LEMMA ClearKeeps ==
    ASSUME BootInv, Clear
    PROVE  BootInv'
<1>1. /\ jobs # <<>> /\ ~bootIsAp /\ cur >= Ed /\ ide = "ready" /\ UNCHANGED <<ph, bootIsAp, ide, jumped>>
      /\ ram' = [a \in DOMAIN ram |-> IF a \in Ed .. job.buf + job.memsz - 1 THEN 0 ELSE ram[a]]
      /\ jobs' = Tail(jobs)
      /\ Tail(jobs) # <<>> =>
            cur' = FirstSector(Head(Tail(jobs))).cur /\ sect' = FirstSector(Head(Tail(jobs))).sect
  BY DEF Clear, Loading
<1>2. /\ ph \in Programs /\ ram \in [0 .. MemSize - 1 -> Int] /\ Placeable(job)
      /\ cur \in Nat /\ MemSize \in Nat
      /\ \A a \in job.buf .. Ed - 1 : a < cur => ram[a] = job.disk_offset + (a - job.buf)
      /\ Len(jobs) \in Nat \ {0} /\ Len(jobs) <= Len(Plan) /\ Loaded \in Nat /\ Loaded + 1 \in 1 .. Len(Plan)
      /\ job = Plan[Loaded + 1]
      /\ \A x \in 1 .. Len(jobs) : jobs[x] = Plan[Loaded + x]
      /\ jobs \in Seq([buf : Int, nbytes : Int, disk_offset : Int, memsz : Int])
  BY <1>1, CurrentJob, BootAssumption DEF BootInv, BootTypeOK, Current, Ahead
<1>3. /\ job.buf \in Nat /\ job.nbytes \in Nat /\ job.memsz \in Nat /\ job.nbytes <= job.memsz
      /\ job.disk_offset \in Int /\ Ed = job.buf + job.nbytes /\ job.buf + job.memsz <= MemSize
      /\ cur \in Nat /\ MemSize \in Nat /\ cur >= Ed
  BY <1>1, <1>2, SMTT(60) DEF Placeable, Ed
<1>4. /\ ram' \in [0 .. MemSize - 1 -> Int]
      /\ \A a \in 0 .. MemSize - 1 :
            ram'[a] = IF a \in Ed .. job.buf + job.memsz - 1 THEN 0 ELSE ram[a]
  <2>1. DOMAIN ram = 0 .. MemSize - 1 /\ \A a \in 0 .. MemSize - 1 : ram[a] \in Int
    BY <1>2
  <2>. QED  BY <1>1, <2>1
<1>5. \A a \in 0 .. MemSize - 1 : a \in Ed .. job.buf + job.memsz - 1 => a \in Filled(job)
  <2>. SUFFICES ASSUME NEW a \in 0 .. MemSize - 1, a \in Ed .. job.buf + job.memsz - 1
                PROVE  a \in Filled(job)
    OBVIOUS
  <2>1. Sector(job.buf) \in Int /\ Sector(a) \in Int /\ Sector(job.buf) <= Sector(a) /\ Sector(a) <= a
    <3>1. a \in Nat /\ job.buf \in Nat /\ job.buf <= a
      BY <1>3
    <3>. QED  BY <3>1, SectorsInOrder
  <2>. QED  BY <1>3, <2>1 DEF Filled
<1>6. Plan' = Plan
  BY <1>1 DEF Plan
<1>7. /\ Len(jobs') = Len(jobs) - 1 /\ \A x \in 1 .. Len(jobs') : jobs'[x] = jobs[x + 1]
      /\ jobs' \in Seq([buf : Int, nbytes : Int, disk_offset : Int, memsz : Int])
  <2>. DEFINE C == [buf : Int, nbytes : Int, disk_offset : Int, memsz : Int]
  <2>1. jobs \in Seq(C) /\ jobs # <<>> /\ jobs' = Tail(jobs)
    BY <1>1, <1>2
  <2>. HIDE DEF C
  <2>2. Len(jobs') = Len(jobs) - 1 /\ (\A x \in 1 .. Len(jobs') : jobs'[x] = jobs[x + 1]) /\ jobs' \in Seq(C)
    BY <2>1, HeadTailProperties
  <2>. QED  BY <2>2 DEF C
<1>8. Len(Plan) \in Nat
  <2>1. Len(Plan) = Len(ph) + 2 /\ Len(ph) \in Nat
    BY <1>2, Plans
  <2>. QED  BY <2>1
<1>9. Loaded' = Loaded + 1
  BY <1>2, <1>6, <1>7, <1>8 DEF Loaded
<1>. HIDE DEF Loaded
<1>10. Ahead'
  <2>1. \A x \in 1 .. Len(jobs') : jobs'[x] = Plan[(Loaded + 1) + x]
    <3>. TAKE x \in 1 .. Len(jobs')
    <3>1. x + 1 \in 1 .. Len(jobs) /\ jobs'[x] = jobs[x + 1] /\ Loaded + (x + 1) = (Loaded + 1) + x
      BY <1>2, <1>7
    <3>. QED  BY <1>2, <3>1
  <2>2. Len(jobs') <= Len(Plan)
    BY <1>2, <1>7, <1>8
  <2>. QED  BY <1>6, <1>7, <1>9, <2>1, <2>2 DEF Ahead
<1>11. BootTypeOK'
  BY <1>1, <1>4 DEF BootInv, BootTypeOK
<1>12. \A i \in 1 .. Loaded + 1 : Placed(Plan[i])'
  <2>. TAKE i \in 1 .. Loaded + 1
  <2>1. CASE i = Loaded + 1
    <3>1. \A a \in job.buf .. job.buf + job.memsz - 1 :
            ram'[a] = IF a < job.buf + job.nbytes THEN job.disk_offset + (a - job.buf) ELSE 0
      <4>. TAKE a \in job.buf .. job.buf + job.memsz - 1
      <4>1. a \in 0 .. MemSize - 1
        BY <1>3
      <4>2. CASE a < Ed
        <5>1. a < cur /\ a \in job.buf .. Ed - 1 /\ a \notin Ed .. job.buf + job.memsz - 1
          BY <1>3, <4>2
        <5>. QED  BY <1>2, <1>3, <1>4, <4>1, <4>2, <5>1, SMTT(60)
      <4>3. CASE ~(a < Ed)
        <5>1. a \in Ed .. job.buf + job.memsz - 1
          BY <1>3, <4>3
        <5>. QED  BY <1>3, <1>4, <4>1, <4>3, <5>1
      <4>. QED  BY <4>2, <4>3
    <3>2. Plan[i]' = job
      BY <1>2, <1>6, <2>1
    <3>. HIDE DEF job
    <3>. QED  BY <3>1, <3>2 DEF Placed
  <2>2. CASE i # Loaded + 1
    <3>1. i \in 1 .. Loaded
      BY <1>2, <2>2
    <3>2. /\ Placeable(Plan[i]) /\ Placed(Plan[i])
          /\ \A a \in Plan[i].buf .. Plan[i].buf + Plan[i].memsz - 1 : a \notin Filled(job)
      <4>1. Placed(Plan[i])
        BY <3>1 DEF BootInv
      <4>. QED  BY <1>1, <3>1, <4>1, CurrentJob
    <3>. DEFINE j == Plan[i]
    <3>3. \A a \in j.buf .. j.buf + j.memsz - 1 : a \in 0 .. MemSize - 1
      BY <3>2, BootAssumption, SMTT(60) DEF Placeable
    <3>4. \A a \in j.buf .. j.buf + j.memsz - 1 : ram'[a] = ram[a]
      BY <1>4, <1>5, <3>2, <3>3
    <3>5. Plan[i]' = Plan[i]
      BY <1>6
    <3>. QED  BY <3>2, <3>4, <3>5 DEF Placed
  <2>. QED  BY <2>1, <2>2
<1>13. Current'
  <2>. SUFFICES ASSUME jobs' # <<>> PROVE Current'
    BY DEF Current
  <2>. DEFINE j == Head(jobs')
  <2>1. j = job' /\ cur' = FirstSector(j).cur /\ sect' = FirstSector(j).sect /\ ide' = "ready"
    BY <1>1 DEF job
  <2>2. Placeable(j)
    <3>1. Len(jobs') \in Nat /\ Len(jobs') # 0
      BY <1>7, SMTT(60)
    <3>2. 1 \in 1 .. Len(jobs') /\ j = jobs'[1] /\ 2 \in 1 .. Len(jobs)
      BY <1>2, <1>7, <3>1
    <3>3. j = Plan[Loaded + 2] /\ Loaded + 2 \in 1 .. Len(Plan)
      <4>1. jobs'[1] = jobs[2]
        BY <1>7, <3>2
      <4>2. Loaded + 2 <= Len(Plan)
        BY <1>2, <1>8, <3>2 DEF Loaded
      <4>3. j = Plan[Loaded + 2]
        BY <1>2, <3>2, <4>1
      <4>. QED  BY <1>2, <1>8, <4>2, <4>3
    <3>. QED  BY <1>2, <3>3, Plans
  <2>. HIDE DEF j
  <2>3. /\ cur' \in Nat /\ cur' % SECTSIZE = 0 /\ cur' = Sector(j.buf) /\ cur' <= j.buf
        /\ sect' \in Int /\ OnDisk(sect', 0) - j.disk_offset = cur' - j.buf
    BY <2>1, <2>2, Begun
  <2>4. \A a \in j.buf .. Ed' - 1 : ~(a < cur')
    BY <2>2, <2>3 DEF Placeable
  <2>5. Ed' = j.buf + j.nbytes
    BY <2>1 DEF Ed
  <2>. QED  BY <2>1, <2>3, <2>4, <2>5 DEF Current, OnDisk, Sector
<1>. QED  BY <1>9, <1>10, <1>11, <1>12, <1>13 DEF BootInv

LEMMA BootBegins ==
    ASSUME BootInit
    PROVE  BootInv
<1>1. /\ ph \in Programs /\ ram = [a \in 0 .. MemSize - 1 |-> Junk] /\ bootIsAp = FALSE /\ jobs = Plan
      /\ cur = FirstSector(job).cur /\ sect = FirstSector(job).sect /\ ide = "ready" /\ jumped = 0
  BY DEF BootInit, Plan, job
<1>2. /\ Plan \in Seq([buf : Int, nbytes : Int, disk_offset : Int, memsz : Int])
      /\ Len(Plan) \in Nat \ {0} /\ \A i \in 1 .. Len(Plan) : Placeable(Plan[i])
  <2>1. Len(Plan) = Len(ph) + 2 /\ Len(ph) \in Nat
    BY <1>1, Plans
  <2>. QED  BY <1>1, <2>1, Plans
<1>3. Loaded = 0
  BY <1>1, <1>2 DEF Loaded
<1>4. BootTypeOK
  BY <1>1 DEF BootTypeOK, Junk
<1>5. Ahead
  BY <1>1, <1>2, <1>3 DEF Ahead
<1>6. Current
  <2>1. job = Plan[1] /\ 1 \in 1 .. Len(Plan)
    BY <1>1, <1>2 DEF job
  <2>2. Placeable(job)
    BY <1>2, <2>1
  <2>3. /\ cur \in Nat /\ cur % SECTSIZE = 0 /\ cur = Sector(job.buf) /\ cur <= job.buf
        /\ sect \in Int /\ OnDisk(sect, 0) - job.disk_offset = cur - job.buf
    BY <1>1, <2>2, Begun
  <2>4. \A a \in job.buf .. Ed - 1 : ~(a < cur)
    BY <2>2, <2>3 DEF Placeable, Ed
  <2>. QED  BY <1>1, <2>3, <2>4 DEF Current
<1>. QED  BY <1>3, <1>4, <1>5, <1>6 DEF BootInv

LEMMA BootStep ==
    ASSUME BootInv, [BootNext]_bootVars
    PROVE  BootInv'
<1>1. CASE ReadCommand
  <2>1. BootTypeOK'
    BY <1>1 DEF ReadCommand, BootInv, BootTypeOK
  <2>2. UNCHANGED <<Plan, Loaded, job, Ed>>
    BY <1>1 DEF ReadCommand, Plan, Loaded, job, Ed
  <2>3. Ahead'
    BY <1>1, <2>2 DEF ReadCommand, BootInv, Ahead
  <2>4. Current'
    BY <1>1, <2>2 DEF ReadCommand, BootInv, Current, OnDisk, Sector
  <2>5. \A i \in 1 .. Loaded : Placed(Plan[i])'
    BY <1>1, <2>2 DEF ReadCommand, BootInv, Placed
  <2>. QED  BY <2>1, <2>2, <2>3, <2>4, <2>5 DEF BootInv
<1>2. CASE DriveDone
  <2>1. BootTypeOK'
    BY <1>2 DEF DriveDone, BootInv, BootTypeOK
  <2>2. UNCHANGED <<Plan, Loaded, job, Ed>>
    BY <1>2 DEF DriveDone, Plan, Loaded, job, Ed
  <2>3. Ahead'
    BY <1>2, <2>2 DEF DriveDone, BootInv, Ahead
  <2>4. Current'
    BY <1>2, <2>2 DEF DriveDone, BootInv, Current, OnDisk, Sector
  <2>5. \A i \in 1 .. Loaded : Placed(Plan[i])'
    BY <1>2, <2>2 DEF DriveDone, BootInv, Placed
  <2>. QED  BY <2>1, <2>2, <2>3, <2>4, <2>5 DEF BootInv
<1>3. CASE ReadWords
  BY <1>3, ReadWordsKeeps
<1>4. CASE Clear
  BY <1>4, ClearKeeps
<1>5. CASE Jump
  <2>1. jobs = <<>>
    BY <1>5 DEF Jump, BootInv, BootTypeOK
  <2>2. BootTypeOK'
    BY <1>5, <2>1 DEF Jump, BootInv, BootTypeOK
  <2>3. UNCHANGED <<Plan, Loaded>>
    BY <1>5 DEF Jump, Plan, Loaded
  <2>4. Ahead' /\ Current'
    BY <1>5, <2>1, <2>3 DEF Jump, BootInv, Ahead, Current
  <2>5. \A i \in 1 .. Loaded : Placed(Plan[i])'
    BY <1>5, <2>3 DEF Jump, BootInv, Placed
  <2>. QED  BY <2>2, <2>3, <2>4, <2>5 DEF BootInv
<1>6. CASE UNCHANGED bootVars
  <2>1. UNCHANGED <<Plan, Loaded, job, Ed>>
    BY <1>6 DEF bootVars, Plan, Loaded, job, Ed
  <2>2. BootTypeOK' /\ Ahead'
    BY <1>6, <2>1 DEF bootVars, BootInv, BootTypeOK, Ahead
  <2>3. Current'
    BY <1>6, <2>1 DEF bootVars, BootInv, Current, OnDisk, Sector
  <2>4. \A i \in 1 .. Loaded : Placed(Plan[i])'
    BY <1>6, <2>1 DEF bootVars, BootInv, Placed
  <2>. QED  BY <2>1, <2>2, <2>3, <2>4 DEF BootInv
<1>. QED  BY <1>1, <1>2, <1>3, <1>4, <1>5, <1>6 DEF BootNext

LEMMA PlacedProgram ==
    ASSUME BootInv
    PROVE  LoadsProgram
<1>. SUFFICES ASSUME jumped > 0 PROVE LoadsProgram
  BY DEF LoadsProgram
<1>1. ph \in Programs /\ jobs = <<>>
  BY DEF BootInv, BootTypeOK
<1>2. /\ Len(Plan) = Len(ph) + 2 /\ Len(ph) \in Nat /\ DOMAIN ph = 1 .. Len(ph)
      /\ Plan[1] = Copy(MAINARG_ADDR, ARGSIZE, -ARGSIZE, ARGSIZE)
      /\ \A i \in 1 .. Len(ph) : Plan[i + 2] = load_program(ph[i])
      /\ \A i \in 1 .. Len(Plan) : Placeable(Plan[i])
  BY <1>1, Plans, BootAssumption
<1>3. Loaded = Len(Plan)
  BY <1>1, <1>2 DEF Loaded
<1>4. \A i \in 1 .. Len(Plan) : Placed(Plan[i])
  BY <1>3 DEF BootInv
<1>5. ASSUME NEW i \in DOMAIN ph, NEW k \in 0 .. ph[i].p_memsz - 1
      PROVE  ram[ph[i].p_paddr + k] = IF k < ph[i].p_filesz THEN ph[i].p_offset + k ELSE 0
  <2>. DEFINE j == Plan[i + 2]
  <2>1. i + 2 \in 1 .. Len(Plan) /\ j = load_program(ph[i])
    BY <1>2
  <2>2. /\ j.buf = ph[i].p_paddr /\ j.nbytes = ph[i].p_filesz
        /\ j.disk_offset = ph[i].p_offset /\ j.memsz = ph[i].p_memsz
    BY <2>1 DEF load_program, Copy
  <2>3. Placed(j) /\ Placeable(j)
    BY <1>2, <1>4, <2>1
  <2>. HIDE DEF j
  <2>4. /\ j.buf \in Nat /\ j.memsz \in Nat /\ j.nbytes \in Nat /\ j.disk_offset \in Int
        /\ k \in 0 .. j.memsz - 1
    BY <2>2, <2>3 DEF Placeable
  <2>. DEFINE a == j.buf + k
  <2>5. a \in j.buf .. j.buf + j.memsz - 1 /\ (a < j.buf + j.nbytes <=> k < j.nbytes)
        /\ j.disk_offset + (a - j.buf) = j.disk_offset + k
    BY <2>4
  <2>6. ram[a] = IF a < j.buf + j.nbytes THEN j.disk_offset + (a - j.buf) ELSE 0
    BY <2>3, <2>5 DEF Placed
  <2>. QED  BY <2>2, <2>5, <2>6
<1>6. ASSUME NEW k \in 0 .. ARGSIZE - 1
      PROVE  ram[MAINARG_ADDR + k] = k - ARGSIZE
  <2>. DEFINE j == Plan[1]
  <2>1. Placed(j) /\ Placeable(j)
    BY <1>2, <1>4
  <2>2. j.buf = MAINARG_ADDR /\ j.nbytes = ARGSIZE /\ j.disk_offset = -ARGSIZE /\ j.memsz = ARGSIZE
    BY <1>2 DEF Copy
  <2>. HIDE DEF j
  <2>3. ARGSIZE \in Nat /\ MAINARG_ADDR \in Nat
    BY <2>1, <2>2, BootAssumption DEF Placeable
  <2>. DEFINE a == MAINARG_ADDR + k
  <2>4. a \in MAINARG_ADDR .. MAINARG_ADDR + ARGSIZE - 1 /\ a < MAINARG_ADDR + ARGSIZE
        /\ -ARGSIZE + (a - MAINARG_ADDR) = k - ARGSIZE
    BY <2>3
  <2>5. ram[a] = IF a < MAINARG_ADDR + ARGSIZE THEN -ARGSIZE + (a - MAINARG_ADDR) ELSE 0
    BY <2>1, <2>2, <2>4 DEF Placed
  <2>. QED  BY <2>4, <2>5
<1>. QED  BY <1>5, <1>6 DEF LoadsProgram

(* The boot loader leaves every segment of the program in its place, and   *)
(* the argument, for every program whose segments lie as linkers lay them  *)
(* and every size of a sector (boot/main.c: load_kernel, load_program,     *)
(* copy_from_disk).                                                        *)
THEOREM LoadsProgramHolds == BootSpec => []LoadsProgram
<1>1. BootInit => BootInv
  BY BootBegins
<1>2. BootInv /\ [BootNext]_bootVars => BootInv'
  BY BootStep
<1>3. BootInv => LoadsProgram
  BY PlacedProgram
<1>. QED  BY <1>1, <1>2, <1>3, PTL DEF BootSpec

-----------------------------------------------------------------------------
(* HostShowsSpace of NativeVme.                                            *)
(*                                                                         *)
(* The list of a space leads to every page of it and to no other: a set that*)
(* holds the first page and the next of each of its pages holds them all.  *)

PageMap == [pa : Frames, next : UserVA \cup {Nil}, is_mapped : BOOLEAN]

NativeTypeOK ==
    /\ heads \in [DOMAIN heads -> UserVA \cup {Nil}] /\ DOMAIN heads \subseteq HostSpaces
    /\ pps \in [DOMAIN pps -> PageMap] /\ DOMAIN pps \subseteq (DOMAIN heads) \X UserVA
    /\ vm_head \in [Processes -> (DOMAIN heads) \cup {Nil}]
    /\ host \in [Processes -> {host[c] : c \in Processes}]

\* A space is on one processor at a time.
Alone == \A c, d \in Processes : vm_head[c] = vm_head[d] /\ vm_head[c] # Nil => c = d

\* A page map of a space is on its list.
OnTheList == \A s \in DOMAIN heads : \A X \in SUBSET Made(s) :
              heads[s] \in X \cup {Nil} /\ Follows(s, X) => Made(s) \subseteq X

\* A page is marked while its space is on a processor.
Flagged == \A s \in DOMAIN heads : \A va \in Made(s) :
               pps[<<s, va>>].is_mapped <=> \E c \in Processes : vm_head[c] = s

\* A list stays within the pages of its space.
Closed == \A s \in DOMAIN heads : heads[s] \in Made(s) \cup {Nil} /\ Follows(s, Made(s))

NativeInv == NativeTypeOK /\ Alone /\ Closed /\ OnTheList /\ Flagged /\ HostShowsSpace

OwnPages(c) == IF vm_head[c] = Nil THEN {} ELSE Made(vm_head[c])
Shown(c) == DOMAIN host[c] = OwnPages(c) /\ \A va \in OwnPages(c) : host[c][va] = pps[<<vm_head[c], va>>].pa

LEMMA Shows == HostShowsSpace <=> \A c \in Processes : Shown(c)
BY DEF HostShowsSpace, Shown, OwnPages

LEMMA ListIsWhole ==
    ASSUME NativeInv, NEW s \in DOMAIN heads
    PROVE  Pages(s) = Made(s)
<1>1. s # Nil
  BY NativeAssumption DEF NativeInv, NativeTypeOK
<1>2. \A X \in SUBSET Made(s) : heads[s] \in X \cup {Nil} /\ Follows(s, X) => Made(s) \subseteq X
  BY DEF NativeInv, OnTheList
<1>. QED  BY <1>1, <1>2 DEF Pages

LEMMA ProtectKeeps ==
    ASSUME NativeInv, NEW s \in HostSpaces, protect(s)
    PROVE  NativeInv'
<1>1. /\ s \notin DOMAIN heads /\ DOMAIN heads' = (DOMAIN heads) \cup {s}
      /\ heads' \in [DOMAIN heads' -> UserVA \cup {Nil}]
      /\ \A t \in DOMAIN heads : heads'[t] = heads[t]
      /\ UNCHANGED <<pps, vm_head, host>>
  BY DEF protect, NativeInv, NativeTypeOK
<1>2. NativeTypeOK'
  BY <1>1 DEF NativeInv, NativeTypeOK
<1>3. \A t : Made(t)' = Made(t)
  BY <1>1 DEF Made
<1>4. Made(s) = {}
  BY <1>1 DEF Made, NativeInv, NativeTypeOK
<1>5. OnTheList'
  <2>. SUFFICES ASSUME NEW t \in DOMAIN heads', NEW X \in SUBSET Made(t), Follows(t, X),
                       heads'[t] \in X \cup {Nil}
                PROVE  Made(t) \subseteq X
    BY <1>1, <1>3 DEF OnTheList, Follows
  <2>1. CASE t = s
    BY <1>4, <2>1
  <2>2. CASE t # s
    <3>1. t \in DOMAIN heads /\ heads'[t] = heads[t]
      BY <1>1, <2>2
    <3>. QED  BY <3>1 DEF NativeInv, OnTheList
  <2>. QED  BY <2>1, <2>2
<1>6. Flagged'
  <2>. SUFFICES ASSUME NEW t \in DOMAIN heads', NEW va \in Made(t)
                PROVE  pps[<<t, va>>].is_mapped <=> \E c \in Processes : vm_head[c] = t
    BY <1>1, <1>3 DEF Flagged
  <2>1. t \in DOMAIN heads
    BY <1>1, <1>4
  <2>. QED  BY <2>1 DEF NativeInv, Flagged
<1>7. Alone' /\ HostShowsSpace'
  BY <1>1, <1>3 DEF NativeInv, Alone, HostShowsSpace
<1>8. Closed'
  <2>. SUFFICES ASSUME NEW t \in DOMAIN heads'
                PROVE  heads'[t] \in Made(t) \cup {Nil} /\ Follows(t, Made(t))
    BY <1>1, <1>3 DEF Closed, Follows
  <2>1. CASE t = s
    BY <1>4, <2>1 DEF protect, Follows
  <2>2. CASE t # s
    BY <1>1, <2>2 DEF NativeInv, Closed
  <2>. QED  BY <2>1, <2>2
<1>. QED  BY <1>2, <1>5, <1>6, <1>7, <1>8 DEF NativeInv

LEMMA MapKeeps ==
    ASSUME NativeInv, NEW c \in Processes, NEW s \in DOMAIN heads, NEW va \in UserVA, NEW pa \in Frames,
           ~Elsewhere(c, s), <<s, va>> \notin DOMAIN pps, map(c, s, va, pa)
    PROVE  NativeInv'
<1>. DEFINE here == vm_head[c] = s
            q == <<s, va>>
<1>1. s \in HostSpaces /\ s # Nil /\ va # Nil /\ heads[s] \in UserVA \cup {Nil}
  BY NativeAssumption DEF NativeInv, NativeTypeOK
<1>2. /\ DOMAIN pps' = (DOMAIN pps) \cup {q} /\ pps'[q] = [pa |-> pa, next |-> heads[s], is_mapped |-> here]
      /\ pps' \in [DOMAIN pps' -> PageMap]
      /\ \A p \in DOMAIN pps : p # q /\ pps'[p] = pps[p]
  BY <1>1 DEF map, NativeInv, NativeTypeOK, PageMap
<1>3. /\ DOMAIN heads' = DOMAIN heads /\ heads' \in [DOMAIN heads' -> UserVA \cup {Nil}]
      /\ heads'[s] = va /\ \A t \in DOMAIN heads : t # s => heads'[t] = heads[t]
      /\ vm_head' = vm_head
  BY DEF map, NativeInv, NativeTypeOK
<1>4. /\ DOMAIN host' = Processes /\ \A d \in Processes : d # c => host'[d] = host[d]
      /\ ~here => host'[c] = host[c]
      /\ here => host'[c] = [x \in (DOMAIN host[c]) \cup {va} |-> IF x = va THEN pa ELSE host[c][x]]
  BY DEF map, NativeInv, NativeTypeOK
<1>5. NativeTypeOK'
  <2>1. DOMAIN pps' \subseteq (DOMAIN heads') \X UserVA
    BY <1>2, <1>3 DEF NativeInv, NativeTypeOK
  <2>2. host' \in [Processes -> {host[d] : d \in Processes}]'
    BY <1>4 DEF map, NativeInv, NativeTypeOK
  <2>. QED  BY <1>2, <1>3, <2>1, <2>2 DEF NativeInv, NativeTypeOK
<1>6. Made(s)' = Made(s) \cup {va} /\ va \notin Made(s) /\ \A t : t # s => Made(t)' = Made(t)
  <2>1. \A t, x : <<t, x>> = q <=> t = s /\ x = va
    OBVIOUS
  <2>. HIDE DEF q
  <2>2. q \notin DOMAIN pps
    BY DEF q
  <2>. QED  BY <1>2, <2>1, <2>2 DEF Made
<1>7. \A t, x : x \in Made(t) => <<t, x>> \in DOMAIN pps /\ pps'[<<t, x>>] = pps[<<t, x>>]
  BY <1>2 DEF Made
<1>8. Alone' /\ Closed'
  <2>1. \A t \in DOMAIN heads : heads[t] \in Made(t) \cup {Nil} /\ \A x \in Made(t) : pps[<<t, x>>].next \in Made(t) \cup {Nil}
    BY DEF NativeInv, Closed, Follows
  <2>2. \A t \in DOMAIN heads : heads'[t] \in Made(t)' \cup {Nil} /\ \A x \in Made(t)' : pps'[<<t, x>>].next \in Made(t)' \cup {Nil}
    <3>. TAKE t \in DOMAIN heads
    <3>1. CASE t = s
      BY <1>2, <1>3, <1>6, <1>7, <2>1, <3>1
    <3>2. CASE t # s
      BY <1>3, <1>6, <1>7, <2>1, <3>2
    <3>. QED  BY <3>1, <3>2
  <2>. QED  BY <1>3, <2>2 DEF NativeInv, Alone, Closed, Follows
<1>9. OnTheList'
  <2>. SUFFICES ASSUME NEW t \in DOMAIN heads, NEW X \in SUBSET Made(t)',
                       heads'[t] \in X \cup {Nil}, Follows(t, X)'
                PROVE  Made(t)' \subseteq X
    BY <1>3 DEF OnTheList
  <2>1. CASE t = s
    <3>1. va \in X
      BY <1>1, <1>3, <2>1
    <3>2. heads[s] \in X \cup {Nil}
      BY <1>2, <2>1, <3>1 DEF Follows
    <3>. DEFINE Y == X \ {va}
    <3>3. Y \in SUBSET Made(s)
      BY <1>6, <2>1
    <3>4. \A x \in Made(s) : pps[<<s, x>>].next # va
      BY <1>1, <1>6 DEF NativeInv, Closed, Follows
    <3>5. heads[s] # va
      BY <1>1, <1>6 DEF NativeInv, Closed
    <3>6. heads[s] \in Y \cup {Nil} /\ Follows(s, Y)
      BY <1>7, <2>1, <3>2, <3>3, <3>4, <3>5 DEF Follows
    <3>7. Made(s) \subseteq Y
      BY <3>3, <3>6 DEF NativeInv, OnTheList
    <3>. QED  BY <1>6, <2>1, <3>1, <3>7
  <2>2. CASE t # s
    <3>1. Made(t)' = Made(t) /\ heads'[t] = heads[t]
      BY <1>3, <1>6, <2>2
    <3>2. Follows(t, X)
      BY <1>7, <3>1 DEF Follows
    <3>. QED  BY <3>1, <3>2 DEF NativeInv, OnTheList
  <2>. QED  BY <2>1, <2>2
<1>10. Flagged'
  <2>. SUFFICES ASSUME NEW t \in DOMAIN heads, NEW x \in Made(t)'
                PROVE  pps'[<<t, x>>].is_mapped <=> \E d \in Processes : vm_head[d] = t
    BY <1>3 DEF Flagged
  <2>1. CASE t = s /\ x = va
    <3>1. pps'[<<t, x>>].is_mapped <=> here
      <4>1. here \in BOOLEAN
        OBVIOUS
      <4>. HIDE DEF here
      <4>2. pps'[q].is_mapped = here
        BY <1>2
      <4>. QED  BY <2>1, <4>2, <4>1, Zenon
    <3>2. here <=> \E d \in Processes : vm_head[d] = s
      BY <1>1 DEF Elsewhere
    <3>. QED  BY <2>1, <3>1, <3>2
  <2>2. CASE ~(t = s /\ x = va)
    <3>1. x \in Made(t)
      BY <1>6, <2>2
    <3>. QED  BY <1>7, <3>1 DEF NativeInv, Flagged
  <2>. QED  BY <2>1, <2>2
<1>11. HostShowsSpace'
  <2>. SUFFICES ASSUME NEW d \in Processes PROVE Shown(d)'
    BY DEF HostShowsSpace, Shown, OwnPages
  <2>1. Shown(d) /\ vm_head'[d] = vm_head[d]
    BY <1>3, Shows DEF NativeInv
  <2>2. CASE d = c /\ here
    <3>1. DOMAIN host[c] = Made(s) /\ \A x \in Made(s) : host[c][x] = pps[<<s, x>>].pa
      BY <1>1, <2>1, <2>2 DEF Shown, OwnPages
    <3>2. DOMAIN host'[c] = Made(s)'
      BY <1>4, <1>6, <2>2, <3>1
    <3>3. \A x \in Made(s) : host'[c][x] = pps'[<<s, x>>].pa
      BY <1>4, <1>6, <1>7, <2>2, <3>1
    <3>4. host'[c][va] = pps'[q].pa
      BY <1>2, <1>4, <2>2
    <3>5. OwnPages(d)' = Made(s)'
      BY <1>1, <2>1, <2>2 DEF OwnPages
    <3>. QED  BY <1>6, <2>1, <2>2, <3>2, <3>3, <3>4, <3>5 DEF Shown
  <2>3. CASE ~(d = c /\ here)
    <3>1. vm_head[d] # s
      BY <1>1, <2>3 DEF Elsewhere
    <3>2. host'[d] = host[d]
      BY <1>4, <2>3
    <3>3. OwnPages(d)' = OwnPages(d) /\ \A x \in OwnPages(d) : x \in Made(vm_head[d])
      BY <1>6, <2>1, <3>1 DEF OwnPages
    <3>. QED  BY <1>7, <2>1, <3>2, <3>3 DEF Shown
  <2>. QED  BY <2>2, <2>3
<1>. QED  BY <1>5, <1>8, <1>9, <1>10, <1>11 DEF NativeInv

LEMMA SwitchKeeps ==
    ASSUME NativeInv, NEW c \in Processes, NEW s \in HostSpaces \cup {Nil}, ~Elsewhere(c, s), Switch(c, s)
    PROVE  NativeInv'
<1>. DEFINE now == vm_head[c]
            out == {va \in Pages(now) : pps[<<now, va>>].is_mapped}
            in == Pages(s)
<1>1. /\ s \in (DOMAIN heads) \cup {Nil} /\ s # now /\ now \in (DOMAIN heads) \cup {Nil} /\ heads' = heads
      /\ vm_head' = [vm_head EXCEPT ![c] = s]
      /\ host' = [host EXCEPT ![c] =
                    [va \in ((DOMAIN @) \ out) \cup in |-> IF va \in in THEN pps[<<s, va>>].pa ELSE @[va]]]
      /\ pps' = Mark(Mark(pps, now, out, FALSE), s, in, TRUE)
  BY DEF Switch, NativeInv, NativeTypeOK
<1>2. Shown(c)
  BY Shows DEF NativeInv
<1>3. in = (IF s = Nil THEN {} ELSE Made(s)) /\ Pages(now) = (IF now = Nil THEN {} ELSE Made(now))
  BY <1>1, ListIsWhole DEF Pages
<1>4. out = OwnPages(c) /\ DOMAIN host[c] = OwnPages(c)
  <2>1. \A va \in Made(now) : now # Nil => pps[<<now, va>>].is_mapped
    BY <1>1 DEF NativeInv, Flagged
  <2>. QED  BY <1>2, <1>3, <2>1 DEF OwnPages, Shown
<1>. HIDE DEF out, in
<1>5. /\ \A d \in Processes : d # c => host'[d] = host[d] /\ vm_head'[d] = vm_head[d]
      /\ vm_head'[c] = s /\ DOMAIN host' = Processes
      /\ vm_head' \in [Processes -> (DOMAIN heads) \cup {Nil}]
      /\ host'[c] = [va \in ((DOMAIN host[c]) \ out) \cup in |-> IF va \in in THEN pps[<<s, va>>].pa ELSE host[c][va]]
  BY <1>1 DEF NativeInv, NativeTypeOK
<1>6. /\ DOMAIN pps' = DOMAIN pps /\ pps' \in [DOMAIN pps -> PageMap]
      /\ \A p \in DOMAIN pps :
           /\ pps'[p].pa = pps[p].pa /\ pps'[p].next = pps[p].next
           /\ pps'[p].is_mapped = IF p[1] = s /\ p[2] \in in THEN TRUE
                                  ELSE IF p[1] = now /\ p[2] \in out THEN FALSE ELSE pps[p].is_mapped
  <2>. DEFINE mid == Mark(pps, now, out, FALSE)
  <2>1. pps \in [DOMAIN pps -> PageMap]
    BY DEF NativeInv, NativeTypeOK
  <2>2. /\ DOMAIN mid = DOMAIN pps /\ mid \in [DOMAIN pps -> PageMap]
        /\ \A p \in DOMAIN pps :
             /\ mid[p].pa = pps[p].pa /\ mid[p].next = pps[p].next
             /\ mid[p].is_mapped = IF p[1] = now /\ p[2] \in out THEN FALSE ELSE pps[p].is_mapped
    BY <2>1 DEF Mark, PageMap
  <2>. HIDE DEF mid
  <2>3. pps' = Mark(mid, s, in, TRUE)
    BY <1>1 DEF mid
  <2>4. /\ DOMAIN pps' = DOMAIN pps /\ pps' \in [DOMAIN pps -> PageMap]
        /\ \A p \in DOMAIN pps :
             /\ pps'[p].pa = mid[p].pa /\ pps'[p].next = mid[p].next
             /\ pps'[p].is_mapped = IF p[1] = s /\ p[2] \in in THEN TRUE ELSE mid[p].is_mapped
    BY <2>2, <2>3, ZenonT(60) DEF Mark, PageMap
  <2>. QED  BY <2>2, <2>4
<1>7. \A t : Made(t)' = Made(t) /\ \A x \in Made(t) : <<t, x>> \in DOMAIN pps
  BY <1>6 DEF Made
<1>8. NativeTypeOK'
  <2>1. host' \in [Processes -> {host[d] : d \in Processes}]'
    BY <1>1, <1>5 DEF NativeInv, NativeTypeOK
  <2>. QED  BY <1>1, <1>5, <1>6, <2>1 DEF NativeInv, NativeTypeOK
<1>9. Alone'
  BY <1>5 DEF NativeInv, Alone, Elsewhere
<1>10. Closed' /\ OnTheList'
  <2>1. \A t, X : X \subseteq Made(t) => (Follows(t, X)' <=> Follows(t, X))
    BY <1>6, <1>7 DEF Follows
  <2>2. \A t \in DOMAIN heads : Follows(t, Made(t))' <=> Follows(t, Made(t))
    BY <1>6, <1>7 DEF Follows
  <2>3. Closed'
    BY <1>1, <1>7, <2>2 DEF NativeInv, Closed
  <2>4. OnTheList'
    <3>. SUFFICES ASSUME NEW t \in DOMAIN heads, NEW X \in SUBSET Made(t),
                         heads[t] \in X \cup {Nil}, Follows(t, X)'
                  PROVE  Made(t) \subseteq X
      BY <1>1, <1>7 DEF OnTheList
    <3>. QED  BY <2>1 DEF NativeInv, OnTheList
  <2>. QED  BY <2>3, <2>4
<1>11. Flagged'
  <2>. SUFFICES ASSUME NEW t \in DOMAIN heads, NEW x \in Made(t)
                PROVE  pps'[<<t, x>>].is_mapped <=> \E d \in Processes : vm_head'[d] = t
    BY <1>1, <1>7 DEF Flagged
  <2>1. t # Nil /\ <<t, x>> \in DOMAIN pps
    BY <1>7, NativeAssumption DEF NativeInv, NativeTypeOK
  <2>2. pps'[<<t, x>>].is_mapped = IF t = s /\ x \in in THEN TRUE
                                   ELSE IF t = now /\ x \in out THEN FALSE ELSE pps[<<t, x>>].is_mapped
    BY <1>6, <2>1
  <2>3. CASE t = s
    BY <1>3, <1>5, <2>1, <2>2, <2>3
  <2>4. CASE t = now
    <3>1. x \in out /\ t # s
      BY <1>1, <1>4, <2>1, <2>4 DEF OwnPages
    <3>2. \A d \in Processes : vm_head'[d] # t
      BY <1>5, <2>1, <2>4, <3>1 DEF NativeInv, Alone
    <3>. QED  BY <2>2, <3>1, <3>2, <2>4
  <2>5. CASE t # s /\ t # now
    <3>1. (\E d \in Processes : vm_head'[d] = t) <=> \E d \in Processes : vm_head[d] = t
      BY <1>5, <2>5
    <3>2. pps'[<<t, x>>].is_mapped = pps[<<t, x>>].is_mapped
      BY <2>2, <2>5
    <3>. QED  BY <3>1, <3>2 DEF NativeInv, Flagged
  <2>. QED  BY <2>3, <2>4, <2>5
<1>12. HostShowsSpace'
  <2>. SUFFICES ASSUME NEW d \in Processes PROVE Shown(d)'
    BY DEF HostShowsSpace, Shown, OwnPages
  <2>1. CASE d = c
    <3>1. OwnPages(d)' = in
      BY <1>3, <1>5, <1>7, <2>1 DEF OwnPages
    <3>2. DOMAIN host'[c] = in /\ \A x \in in : host'[c][x] = pps[<<s, x>>].pa
      BY <1>4, <1>5
    <3>3. \A x \in in : <<s, x>> \in DOMAIN pps
      BY <1>3, <1>7
    <3>4. \A x \in in : pps'[<<s, x>>].pa = pps[<<s, x>>].pa
      BY <1>6, <3>3
    <3>. QED  BY <1>5, <2>1, <3>1, <3>2, <3>4 DEF Shown
  <2>2. CASE d # c
    <3>1. OwnPages(d)' = OwnPages(d) /\ vm_head'[d] = vm_head[d] /\ host'[d] = host[d]
      BY <1>5, <1>7, <2>2 DEF OwnPages
    <3>2. \A x \in OwnPages(d) : <<vm_head[d], x>> \in DOMAIN pps
      BY <1>7 DEF OwnPages
    <3>3. \A x \in OwnPages(d) : pps'[<<vm_head[d], x>>].pa = pps[<<vm_head[d], x>>].pa
      BY <1>6, <3>2
    <3>4. Shown(d)
      BY Shows DEF NativeInv
    <3>. QED  BY <3>1, <3>3, <3>4 DEF Shown
  <2>. QED  BY <2>1, <2>2
<1>. QED  BY <1>8, <1>9, <1>10, <1>11, <1>12 DEF NativeInv

(* A processor has mapped what its space holds and no more, for any number *)
(* of processors, spaces and pages (native/vme.c: __am_switch, map).       *)
THEOREM HostShowsSpaceHolds == NativeSpec => []HostShowsSpace
<1>1. NativeInit => NativeInv
  <2>. SUFFICES ASSUME NativeInit PROVE NativeInv
    OBVIOUS
  <2>1. NativeTypeOK /\ Alone
    BY DEF NativeInit, NativeTypeOK, Alone
  <2>2. Closed /\ OnTheList /\ Flagged
    BY DEF NativeInit, Closed, OnTheList, Flagged
  <2>3. HostShowsSpace
    BY DEF NativeInit, HostShowsSpace
  <2>. QED  BY <2>1, <2>2, <2>3 DEF NativeInv
<1>2. NativeInv /\ [NativeNext]_nativeVars => NativeInv'
  <2>. SUFFICES ASSUME NativeInv, [NativeNext]_nativeVars PROVE NativeInv'
    OBVIOUS
  <2>1. CASE UNCHANGED nativeVars
    <3>1. UNCHANGED <<heads, pps, vm_head, host>>
      BY <2>1 DEF nativeVars
    <3>2. NativeTypeOK' /\ Alone'
      BY <3>1 DEF NativeInv, NativeTypeOK, Alone
    <3>3. \A t : Made(t)' = Made(t)
      BY <3>1 DEF Made
    <3>4. Closed'
      BY <3>1, <3>3 DEF NativeInv, Closed, Follows
    <3>5. OnTheList'
      BY <3>1, <3>3 DEF NativeInv, OnTheList, Follows
    <3>6. Flagged' /\ HostShowsSpace'
      BY <3>1, <3>3 DEF NativeInv, Flagged, HostShowsSpace
    <3>. QED  BY <3>2, <3>4, <3>5, <3>6 DEF NativeInv
  <2>. QED  BY <2>1, ProtectKeeps, MapKeeps, SwitchKeeps DEF NativeNext
<1>3. NativeInv => HostShowsSpace
  BY DEF NativeInv
<1>. QED  BY <1>1, <1>2, <1>3, PTL DEF NativeSpec

-----------------------------------------------------------------------------
(* ContextsIntact of X86Trap.                                              *)
(*                                                                         *)
(* A thread that does not run has its registers in a context on its own    *)
(* stack, below what it pushed; what the processor, the handler and the    *)
(* return store goes to the stack of the current thread, below the same.   *)

\* Where the fields of a context are.
LEMMA Slots ==
    /\ CtxWords = 15 /\ FrameWords = 22
    /\ Slot("cr3") = 0 /\ Slot("ds") = 1 /\ Slot("eax") = 2 /\ Slot("ebx") = 3 /\ Slot("ecx") = 4
    /\ Slot("edx") = 5 /\ Slot("esp0") = 6 /\ Slot("esi") = 7 /\ Slot("edi") = 8 /\ Slot("ebp") = 9
    /\ Slot("eip") = 10 /\ Slot("cs") = 11 /\ Slot("eflags") = 12 /\ Slot("esp") = 13 /\ Slot("ss3") = 14
<1>1. CtxWords = 15 /\ FrameWords = 22
  BY DEF CtxWords, Fields, FrameWords
<1>. DEFINE D(f) == CHOOSE i \in 1 .. CtxWords : Fields[i] = f
<1>2. D("cr3") = 1 /\ D("ds") = 2 /\ D("eax") = 3 /\ D("ebx") = 4 /\ D("ecx") = 5
  BY <1>1 DEF Fields
<1>3. D("edx") = 6 /\ D("esp0") = 7 /\ D("esi") = 8 /\ D("edi") = 9 /\ D("ebp") = 10
  BY <1>1 DEF Fields
<1>4. D("eip") = 11 /\ D("cs") = 12 /\ D("eflags") = 13 /\ D("esp") = 14 /\ D("ss3") = 15
  BY <1>1 DEF Fields
<1>5. \A f : Slot(f) = D(f) - 1
  BY DEF Slot
<1>. HIDE DEF D
<1>. QED  BY <1>1, <1>2, <1>3, <1>4, <1>5

\* What a store of several words leaves, and what it stores.
LEMMA Puts ==
    ASSUME NEW D \in SUBSET Int, NEW m \in [D -> Int], NEW a \in Int, NEW seq \in Seq(Int)
    PROVE  /\ Put(m, a, seq) \in [D -> Int]
           /\ \A x \in D : ~(x \in a .. a + Len(seq) - 1) => Put(m, a, seq)[x] = m[x]
           /\ \A k \in 1 .. Len(seq) : a + k - 1 \in D => Put(m, a, seq)[a + k - 1] = seq[k]
<1>1. Len(seq) \in Nat /\ \A k \in 1 .. Len(seq) : seq[k] \in Int
  OBVIOUS
<1>2. \A x \in D : x \in a .. a + Len(seq) - 1 => x - a + 1 \in 1 .. Len(seq)
  BY <1>1
<1>3. \A k \in 1 .. Len(seq) : a + k - 1 \in a .. a + Len(seq) - 1 /\ (a + k - 1) - a + 1 = k
  BY <1>1
<1>. QED  BY <1>1, <1>2, <1>3 DEF Put

\* The stacks lie apart from one another.
Region(t) == End(t) - StackWords .. End(t) - 1
Memory == 0 .. StackWords * Cardinality(Threads) - 1

LEMMA MemoryWhole ==
    Memory \subseteq Int
BY DEF Memory

LEMMA Apart ==
    ASSUME NEW t \in Threads
    PROVE  /\ End(t) \in Nat /\ End(t) - StackWords \in Nat /\ Region(t) \subseteq Memory /\ StackWords \in Nat
           /\ t \in Nat \ {0} /\ \A a \in Region(t) : (a \div StackWords) + 1 = t
<1>. DEFINE S == StackWords
            N == Cardinality(Threads)
<1>1. S \in Nat \ {0} /\ N \in Nat /\ t \in 1 .. N
  BY TrapAssumption
<1>. HIDE DEF N, S
<1>2. (t - 1) * S = t * S - S /\ (t - 1) * S \in Nat /\ t * S \in Nat /\ S * N = N * S
  BY <1>1
<1>3. t * S <= N * S
  BY <1>1, Grows
<1>4. End(t) = t * S
  BY DEF End, S
<1>5. \A a \in (t * S) - S .. (t * S) - 1 : a \in 0 .. S * N - 1 /\ (a \div S) + 1 = t
  <2>. TAKE a \in (t * S) - S .. (t * S) - 1
  <2>1. a \in Nat /\ (t - 1) * S <= a /\ a < (t - 1) * S + S /\ t - 1 \in Nat
    BY <1>1, <1>2
  <2>2. a \div S = t - 1
    BY <1>1, <2>1, Quotient
  <2>3. N * S \in Nat /\ a <= N * S - 1
    BY <1>1, <1>2, <1>3, <2>1
  <2>. QED  BY <1>1, <1>2, <2>1, <2>2, <2>3
<1>. QED  BY <1>1, <1>2, <1>4, <1>5 DEF Region, Memory, S, N

LEMMA RegionsApart ==
    ASSUME NEW t \in Threads, NEW u \in Threads, t # u
    PROVE  Region(t) \cap Region(u) = {}
BY Apart

-----------------------------------------------------------------------------
(* The inductive invariant.                                                *)

TrapTypeOK ==
    /\ words \in [Memory -> Int] /\ reg \in [Regs -> Int] /\ esp0 \in Int /\ tf \in Int
    /\ step \in {"run", "trapped", "return"} /\ thread \in Threads
    /\ ctxOf \in [Threads -> Int]
    /\ own \in [Threads -> {own[t] : t \in Threads}] /\ \A t \in Threads : own[t].reg \in [Regs -> Int]

\* The registers of a thread as its program leaves them.
Runs(t, r) ==
    /\ r.eflags = 1
    /\ IF t \in User
       THEN r.cs = UCODE /\ r.ds = UDATA /\ r.eip \in {Entry(t), Entry(t) + 40}
       ELSE /\ r.cs = KCODE /\ r.ds = KDATA
            /\ \/ r.eip = Start /\ r.esp = End(t) /\ r.ebx = Entry(t)
               \/ r.eip = Entry(t) /\ r.esp = End(t) - 2
               \/ r.eip = Entry(t) + 40 /\ r.esp = End(t) - 3

Plain == {"ds", "eax", "ebx", "ecx", "edx", "esi", "edi", "ebp"}
Popped == {"eip", "cs", "eflags", "esp"}

\* A context or a frame at a lies on its thread's stack, below what it holds.
Lies(t, a) ==
    /\ End(t) - StackWords <= a /\ a + CtxWords <= End(t)
    /\ t \in Kernel => a + CtxWords <= own[t].reg.esp

StackKept(t) == StackOf(words, own[t].reg, t) = own[t].stack

\* At a is a context with the registers thread t left.
ContextAt(t, a) ==
    /\ Lies(t, a) /\ StackKept(t)
    /\ \A f \in Plain \cup Popped : words[a + Slot(f)] = own[t].reg[f]
    /\ t \in User => words[a + Slot("cr3")] = PageDir(t) /\ words[a + Slot("esp0")] = End(t)

\* At tf is a trap frame with the registers of the current thread.
Trapped ==
    /\ Lies(thread, tf) /\ StackKept(thread)
    /\ \A f \in Plain : words[tf + Slot(f)] = own[thread].reg[f]
    /\ words[tf + 17] = own[thread].reg.eip /\ words[tf + 18] = own[thread].reg.cs
    /\ words[tf + 19] = own[thread].reg.eflags
    /\ IF thread \in User THEN words[tf + 20] = own[thread].reg.esp
       ELSE tf + 20 = own[thread].reg.esp

UserHere == thread \in User => reg.cr3 = PageDir(thread) /\ esp0 = End(thread)

TrapInv ==
    /\ TrapTypeOK /\ \A t \in Threads : Runs(t, own[t].reg)
    /\ \A t \in Threads : t # thread => ContextAt(t, ctxOf[t])
    /\ UserHere
    /\ step = "trapped" => Trapped
    /\ step = "return" => tf = ctxOf[thread] /\ ContextAt(thread, tf)
    /\ ContextsIntact

\* A thread is of one kind; its code segment says of which.
LEMMA Kinds ==
    ASSUME NEW t \in Threads, NEW r, Runs(t, r)
    PROVE  /\ t \in User <=> t \notin Kernel
           /\ InUser(r) <=> t \in User
           /\ r.cs = KCODE <=> t \notin User
           /\ t \notin User => r.esp \in End(t) - 3 .. End(t)
<1>1. t \in User <=> t \notin Kernel
  BY TrapAssumption DEF Threads
<1>2. End(t) \in Nat
  BY Apart
<1>. QED  BY <1>1, <1>2 DEF Runs, InUser, UCODE, KCODE

LEMMA RunsNow ==
    ASSUME TrapInv, step = "run"
    PROVE  /\ thread \in Threads /\ \A f \in Regs \ {"cr3"} : reg[f] = own[thread].reg[f]
           /\ Runs(thread, reg)
<1>1. /\ reg \in [Regs -> Int] /\ thread \in Threads /\ own[thread].reg \in [Regs -> Int]
      /\ Runs(thread, own[thread].reg)
      /\ [reg EXCEPT !.cr3 = 0] = [own[thread].reg EXCEPT !.cr3 = 0]
  BY DEF TrapInv, TrapTypeOK, ContextsIntact
<1>2. \A f \in Regs \ {"cr3"} : reg[f] = own[thread].reg[f]
  <2>. TAKE f \in Regs \ {"cr3"}
  <2>1. [reg EXCEPT !.cr3 = 0][f] = reg[f] /\ [own[thread].reg EXCEPT !.cr3 = 0][f] = own[thread].reg[f]
    BY <1>1
  <2>. QED  BY <1>1, <2>1
<1>3. {"eflags", "cs", "ds", "eip", "esp", "ebx"} \subseteq Regs \ {"cr3"}
  BY DEF Regs
<1>. QED  BY <1>1, <1>2, <1>3 DEF Runs

LEMMA StackSame ==
    ASSUME NEW t \in Threads, NEW r \in [Regs -> Int], Runs(t, r), NEW m, NEW k,
           \A a \in Region(t) : a >= r.esp => m[a] = k[a]
    PROVE  StackOf(m, r, t) = StackOf(k, r, t)
<1>1. CASE InUser(r)
  BY <1>1 DEF StackOf
<1>2. CASE ~InUser(r)
  <2>1. r.esp \in End(t) - 3 .. End(t) /\ End(t) \in Nat /\ StackWords >= 23 /\ StackWords \in Nat
    BY <1>2, Kinds, Apart, TrapAssumption
  <2>2. PICK e \in Int : e = r.esp
    BY <2>1
  <2>3. \A i \in 1 .. End(t) - e : e + i - 1 \in Region(t) /\ e + i - 1 >= e
    BY <2>1, <2>2 DEF Region
  <2>4. \A i \in 1 .. End(t) - e : m[e + i - 1] = k[e + i - 1]
    BY <2>2, <2>3
  <2>. QED  BY <1>2, <2>2, <2>4 DEF StackOf
<1>. QED  BY <1>1, <1>2

\* What a stack holds depends on two registers.
LEMMA StackRead ==
    ASSUME NEW m, NEW r, NEW q, NEW t, r.cs = q.cs, r.esp = q.esp
    PROVE  StackOf(m, r, t) = StackOf(m, q, t)
<1>1. CASE q.cs = UCODE
  BY <1>1 DEF StackOf, InUser
<1>2. CASE q.cs # UCODE
  BY <1>2 DEF StackOf, InUser
<1>. QED  BY <1>1, <1>2

\* A context keeps what it holds while nothing is stored in its stack.
LEMMA SavedStays ==
    ASSUME NEW t \in Threads, Runs(t, own[t].reg), own[t].reg \in [Regs -> Int], NEW a \in Int, ContextAt(t, a),
           own'[t] = own[t], \A x \in Region(t) : words'[x] = words[x]
    PROVE  ContextAt(t, a)'
<1>1. Lies(t, a)'
  BY DEF ContextAt, Lies
<1>2. StackKept(t)'
  BY StackSame DEF ContextAt, StackKept
<1>3. \A k \in 0 .. 14 : a + k \in Region(t)
  BY Slots, Apart DEF ContextAt, Lies, Region
<1>4. \A f \in Plain \cup Popped \cup {"cr3", "esp0"} : Slot(f) \in 0 .. 14
  BY Slots DEF Plain, Popped
<1>5. \A f \in Plain \cup Popped \cup {"cr3", "esp0"} : words'[a + Slot(f)] = words[a + Slot(f)]
  BY <1>3, <1>4
<1>. QED  BY <1>1, <1>2, <1>5 DEF ContextAt

-----------------------------------------------------------------------------
(* The steps.                                                              *)

\* What is stored in the stack of the current thread leaves the contexts of
\* the others alone.
LEMMA OthersKept ==
    ASSUME TrapInv, NEW n \in Threads,
           \A t \in Threads : t # thread => own'[t] = own[t] /\ ctxOf'[t] = ctxOf[t],
           \A x \in Memory : x \notin Region(thread) => words'[x] = words[x],
           NEW t \in Threads, t # thread
    PROVE  ContextAt(t, ctxOf[t])'
<1>1. ContextAt(t, ctxOf[t]) /\ Runs(t, own[t].reg) /\ own[t].reg \in [Regs -> Int] /\ ctxOf[t] \in Int /\ thread \in Threads
  BY DEF TrapInv, TrapTypeOK
<1>2. \A x \in Region(t) : words'[x] = words[x]
  BY <1>1, Apart, RegionsApart
<1>3. PICK a \in Int : a = ctxOf[t]
  BY <1>1
<1>4. ContextAt(t, a)'
  BY <1>1, <1>2, <1>3, SavedStays
<1>. QED  BY <1>3, <1>4 DEF ContextAt, Lies, StackKept

LEMMA ExecutesKeeps ==
    ASSUME TrapInv, NEW r \in [Regs -> Int], Runs(thread, r), r.cr3 = reg.cr3,
           NEW pushed \in Seq(Int), Len(pushed) <= End(thread) - r.esp \/ thread \in User \/ pushed = <<>>,
           Executes(r, pushed)
    PROVE  TrapInv'
<1>1. /\ step = "run" /\ step' = "run" /\ reg' = r /\ UNCHANGED <<esp0, tf, thread, ctxOf>>
      /\ words' = IF InUser(r) THEN words ELSE Put(words, r.esp, pushed)
      /\ own' = [own EXCEPT ![thread] = [reg |-> r, stack |-> StackOf(words', r, thread)]]
  BY DEF Executes
<1>2. /\ words \in [Memory -> Int] /\ thread \in Threads /\ r.esp \in Int /\ DOMAIN own = Threads
      /\ InUser(r) <=> thread \in User
  BY Kinds DEF TrapInv, TrapTypeOK, Regs
<1>3. words' \in [Memory -> Int] /\ \A x \in Memory : x \notin Region(thread) => words'[x] = words[x]
  <2>1. CASE InUser(r)
    BY <1>1, <1>2, <2>1
  <2>2. CASE ~InUser(r)
    <3>1. r.esp \in End(thread) - 3 .. End(thread) /\ End(thread) \in Nat /\ StackWords \in Nat /\ StackWords >= 23
      BY <1>2, <2>2, Kinds, Apart, TrapAssumption
    <3>2. Memory \subseteq Int /\ words' = Put(words, r.esp, pushed)
      BY <1>1, <2>2 DEF Memory
    <3>3. /\ words' \in [Memory -> Int]
          /\ \A x \in Memory : ~(x \in r.esp .. r.esp + Len(pushed) - 1) => words'[x] = words[x]
      <4>1. Memory \in SUBSET Int /\ words \in [Memory -> Int]
        BY <1>2, <3>2
      <4>2. PICK a \in Int : a = r.esp
        BY <1>2
      <4>. HIDE DEF Memory
      <4>3. /\ Put(words, a, pushed) \in [Memory -> Int]
            /\ \A x \in Memory : ~(x \in a .. a + Len(pushed) - 1) => Put(words, a, pushed)[x] = words[x]
        BY <4>1, Puts
      <4>. QED  BY <3>2, <4>2, <4>3
    <3>4. \A x \in r.esp .. r.esp + Len(pushed) - 1 : x \in Region(thread)
      <4>1. CASE pushed = <<>>
        BY <1>2, <4>1
      <4>2. CASE Len(pushed) <= End(thread) - r.esp
        <5>1. PICK l \in Nat, e \in Int : l = Len(pushed) /\ e = r.esp
          BY <1>2
        <5>. QED  BY <3>1, <4>2, <5>1, SMTT(60) DEF Region
      <4>. QED  BY <1>2, <2>2, <4>1, <4>2
    <3>. QED  BY <3>3, <3>4
  <2>. QED  BY <2>1, <2>2
<1>4. /\ own' \in [Threads -> {own[t] : t \in Threads}]' /\ own'[thread].reg = r
      /\ own'[thread].stack = StackOf(words', r, thread)
      /\ \A t \in Threads : t # thread => own'[t] = own[t]
  BY <1>1, <1>2 DEF TrapInv, TrapTypeOK
<1>5. TrapTypeOK'
  BY <1>1, <1>3, <1>4 DEF TrapInv, TrapTypeOK
<1>6. \A t \in Threads : Runs(t, own[t].reg)'
  BY <1>4, ZenonT(60) DEF TrapInv, Runs
<1>7. \A t \in Threads : t # thread => ContextAt(t, ctxOf[t])'
  BY <1>1, <1>3, <1>4, OthersKept
<1>8. UserHere'
  BY <1>1 DEF TrapInv, UserHere
<1>9. ContextsIntact'
  <2>1. StackOf(words, reg, thread)' = own'[thread].stack
    BY <1>1, <1>4 DEF StackOf, InUser
  <2>. QED  BY <1>1, <1>4, <1>8, <2>1 DEF ContextsIntact, UserHere
<1>. QED  BY <1>1, <1>5, <1>6, <1>7, <1>8, <1>9 DEF TrapInv

LEMMA RunKeeps ==
    ASSUME TrapInv, kcontext_start \/ PushWord \/ PopWord \/ Compute("edi")
    PROVE  TrapInv'
<1>1. step = "run"
  BY DEF kcontext_start, PushWord, PopWord, Compute, Executes
<1>2. Runs(thread, reg) /\ reg \in [Regs -> Int] /\ thread \in Threads
  BY <1>1, RunsNow DEF TrapInv, TrapTypeOK
<1>3. {"eax", "ebx", "edi", "ds", "esp", "eip", "cs", "eflags", "cr3"} \subseteq Regs
  BY DEF Regs
<1>4. End(thread) \in Nat /\ thread \in Nat /\ Entry(thread) \in Nat /\ Entry(thread) # Start /\ Entry(thread) + 40 # Start
      /\ (thread \in User <=> thread \notin Kernel)
  BY <1>2, Apart, Kinds DEF Entry, Start
<1>5. CASE kcontext_start
  <2>. DEFINE r == [reg EXCEPT !.esp = @ - 2, !.eip = reg.ebx]
  <2>1. reg.eip = Start /\ Executes(r, <<Panic, reg.eax>>)
    BY <1>5 DEF kcontext_start
  <2>2. r \in [Regs -> Int] /\ r.cr3 = reg.cr3 /\ <<Panic, reg.eax>> \in Seq(Int) /\ Len(<<Panic, reg.eax>>) = 2
    <3>1. reg.esp - 2 \in Int /\ reg.ebx \in Int
      BY <1>2, <1>3
    <3>2. r \in [Regs -> Int]
      BY <1>2, <3>1
    <3>3. r.cr3 = reg.cr3
      BY <1>2, <1>3
    <3>4. <<Panic, reg.eax>> \in Seq(Int) /\ Len(<<Panic, reg.eax>>) = 2
      BY <1>2, <1>3 DEF Panic
    <3>. QED  BY <3>2, <3>3, <3>4
  <2>3. r.esp = reg.esp - 2 /\ r.eip = reg.ebx /\ r.cs = reg.cs /\ r.ds = reg.ds /\ r.eflags = reg.eflags
    BY <1>2, <1>3
  <2>4. thread \notin User /\ reg.esp = End(thread) /\ reg.ebx = Entry(thread)
    BY <1>2, <1>4, <2>1 DEF Runs
  <2>5. Runs(thread, r)
    BY <1>2, <2>3, <2>4 DEF Runs
  <2>6. Len(<<Panic, reg.eax>>) <= End(thread) - r.esp
    BY <1>4, <2>2, <2>3, <2>4
  <2>. HIDE DEF r
  <2>. QED  BY <2>1, <2>2, <2>5, <2>6, ExecutesKeeps
<1>6. CASE PushWord
  <2>. DEFINE r == [reg EXCEPT !.esp = @ - 1, !.eip = @ + 40]
  <2>1. reg.eip = Entry(thread) /\ Executes(r, <<reg.eax>>)
    BY <1>6 DEF PushWord
  <2>2. r \in [Regs -> Int] /\ r.cr3 = reg.cr3 /\ <<reg.eax>> \in Seq(Int) /\ Len(<<reg.eax>>) = 1
    <3>1. reg.esp - 1 \in Int /\ reg.eip + 40 \in Int
      BY <1>2, <1>3
    <3>2. r \in [Regs -> Int]
      BY <1>2, <3>1
    <3>3. r.cr3 = reg.cr3
      BY <1>2, <1>3
    <3>4. <<reg.eax>> \in Seq(Int) /\ Len(<<reg.eax>>) = 1
      BY <1>2, <1>3
    <3>. QED  BY <3>2, <3>3, <3>4
  <2>3. r.esp = reg.esp - 1 /\ r.eip = reg.eip + 40 /\ r.cs = reg.cs /\ r.ds = reg.ds /\ r.eflags = reg.eflags
    BY <1>2, <1>3
  <2>4. thread \notin User => reg.esp = End(thread) - 2
    BY <1>2, <1>4, <2>1 DEF Runs
  <2>5. thread \notin User => r.esp = End(thread) - 3
    BY <1>4, <2>3, <2>4
  <2>6. Runs(thread, r)
    BY <1>2, <2>1, <2>3, <2>5 DEF Runs
  <2>7. thread \notin User => Len(<<reg.eax>>) <= End(thread) - r.esp
    BY <1>4, <2>2, <2>5
  <2>. HIDE DEF r
  <2>. QED  BY <2>1, <2>2, <2>6, <2>7, ExecutesKeeps
<1>7. CASE PopWord
  <2>. DEFINE r == [reg EXCEPT !.esp = @ + 1, !.eip = @ - 40]
  <2>1. reg.eip = Entry(thread) + 40 /\ Executes(r, <<>>)
    BY <1>7 DEF PopWord
  <2>2. r \in [Regs -> Int] /\ r.cr3 = reg.cr3
    <3>1. reg.esp + 1 \in Int /\ reg.eip - 40 \in Int
      BY <1>2, <1>3
    <3>2. r \in [Regs -> Int]
      BY <1>2, <3>1
    <3>3. r.cr3 = reg.cr3
      BY <1>2, <1>3
    <3>. QED  BY <3>2, <3>3
  <2>3. r.esp = reg.esp + 1 /\ r.eip = reg.eip - 40 /\ r.cs = reg.cs /\ r.ds = reg.ds /\ r.eflags = reg.eflags
    BY <1>2, <1>3
  <2>4. thread \notin User => reg.esp = End(thread) - 3
    BY <1>2, <1>4, <2>1 DEF Runs
  <2>5. r.eip = Entry(thread) /\ (thread \notin User => r.esp = End(thread) - 2)
    BY <1>4, <2>1, <2>3, <2>4
  <2>6. Runs(thread, r)
    BY <1>2, <2>3, <2>5 DEF Runs
  <2>. HIDE DEF r
  <2>. DEFINE none == <<>>
  <2>7. Executes(r, none) /\ none \in Seq(Int) /\ none = <<>>
    BY <2>1
  <2>. HIDE DEF none
  <2>. QED  BY <2>2, <2>6, <2>7, ExecutesKeeps
<1>8. CASE Compute("edi")
  <2>. DEFINE r == [reg EXCEPT !["edi"] = (@ + 1) % 2]
  <2>1. Executes(r, <<>>)
    BY <1>8 DEF Compute
  <2>2. r \in [Regs -> Int] /\ r.cr3 = reg.cr3
    BY <1>2, <1>3
  <2>3. r.esp = reg.esp /\ r.eip = reg.eip /\ r.cs = reg.cs /\ r.ds = reg.ds /\ r.eflags = reg.eflags /\ r.ebx = reg.ebx
    BY <1>2, <1>3
  <2>4. Runs(thread, r)
    BY <1>2, <2>3 DEF Runs
  <2>. HIDE DEF r
  <2>. DEFINE none == <<>>
  <2>5. Executes(r, none) /\ none \in Seq(Int) /\ none = <<>>
    BY <2>1
  <2>. HIDE DEF none
  <2>. QED  BY <2>2, <2>4, <2>5, ExecutesKeeps
<1>. QED  BY <1>5, <1>6, <1>7, <1>8

\* What the processor stores, and how far down the stack.
Pushed == <<reg.eip, reg.cs, reg.eflags>> \o (IF InUser(reg) THEN <<reg.esp, UDATA>> ELSE <<>>)
Over(irq) == <<irq, 0>> \o Pushed
FrameBase == (IF InUser(reg) THEN esp0 ELSE reg.esp) - Len(Pushed) - 2 - CtxWords

LEMMA FrameFits ==
    ASSUME TrapInv, step = "run", NEW irq \in Int
    PROVE  /\ FrameBase \in Int /\ Over(irq) \in Seq(Int)
           /\ Over(irq)[3] = reg.eip /\ Over(irq)[4] = reg.cs /\ Over(irq)[5] = reg.eflags
           /\ thread \in User => /\ Over(irq)[6] = reg.esp /\ Len(Over(irq)) = 7
                                 /\ FrameBase = End(thread) - 22
           /\ thread \notin User => /\ Len(Over(irq)) = 5 /\ FrameBase = reg.esp - 20
                                    /\ reg.esp \in End(thread) - 3 .. End(thread)
<1>. DEFINE hw == Pushed
            over == Over(irq)
            base == FrameBase
<1>1. /\ Runs(thread, reg) /\ reg \in [Regs -> Int] /\ thread \in Threads /\ esp0 \in Int
      /\ thread \in User => esp0 = End(thread)
  BY RunsNow DEF TrapInv, TrapTypeOK, UserHere
<1>2. reg.eip \in Int /\ reg.cs \in Int /\ reg.eflags \in Int /\ reg.esp \in Int
  BY <1>1 DEF Regs
<1>3. /\ InUser(reg) <=> thread \in User
      /\ thread \notin User => reg.esp \in End(thread) - 3 .. End(thread)
      /\ End(thread) \in Nat
  BY <1>1, Kinds, Apart
<1>. DEFINE first == <<reg.eip, reg.cs, reg.eflags>>
            more == IF InUser(reg) THEN <<reg.esp, UDATA>> ELSE <<>>
            head == <<irq, 0>>
<1>4. /\ first \in Seq(Int) /\ Len(first) = 3 /\ first[1] = reg.eip /\ first[2] = reg.cs /\ first[3] = reg.eflags
      /\ head \in Seq(Int) /\ Len(head) = 2
  BY <1>2
<1>5. /\ more \in Seq(Int) /\ Len(more) = (IF thread \in User THEN 2 ELSE 0)
      /\ thread \in User => more[1] = reg.esp
  BY <1>2, <1>3 DEF UDATA
<1>. HIDE DEF first, more, head
<1>6. /\ hw \in Seq(Int) /\ Len(hw) = (IF thread \in User THEN 5 ELSE 3)
      /\ hw[1] = reg.eip /\ hw[2] = reg.cs /\ hw[3] = reg.eflags
      /\ thread \in User => hw[4] = reg.esp
  <2>1. hw = first \o more
    BY DEF first, more, Pushed
  <2>2. /\ hw \in Seq(Int) /\ Len(hw) = 3 + Len(more)
        /\ \A i \in 1 .. 3 + Len(more) : hw[i] = IF i <= 3 THEN first[i] ELSE more[i - 3]
    <3>1. /\ first \o more \in Seq(Int) /\ Len(first \o more) = Len(first) + Len(more)
          /\ \A i \in 1 .. Len(first) + Len(more) :
               (first \o more)[i] = IF i <= Len(first) THEN first[i] ELSE more[i - Len(first)]
      BY <1>4, <1>5, ConcatProperties
    <3>. QED  BY <1>4, <2>1, <3>1
  <2>3. thread \in User => 4 \in 1 .. 3 + Len(more)
    BY <1>5
  <2>4. 1 \in 1 .. 3 + Len(more) /\ 2 \in 1 .. 3 + Len(more) /\ 3 \in 1 .. 3 + Len(more)
    BY <1>5
  <2>. QED  BY <1>4, <1>5, <2>2, <2>3, <2>4, SMTT(60)
<1>7. /\ over \in Seq(Int) /\ Len(over) = (IF thread \in User THEN 7 ELSE 5)
      /\ over[3] = reg.eip /\ over[4] = reg.cs /\ over[5] = reg.eflags
      /\ thread \in User => over[6] = reg.esp
  <2>1. /\ over \in Seq(Int) /\ Len(over) = 2 + Len(hw)
        /\ \A i \in 1 .. 2 + Len(hw) : over[i] = IF i <= 2 THEN head[i] ELSE hw[i - 2]
    <3>1. over = head \o hw
      BY DEF head, Over
    <3>2. /\ head \o hw \in Seq(Int) /\ Len(head \o hw) = Len(head) + Len(hw)
          /\ \A i \in 1 .. Len(head) + Len(hw) :
               (head \o hw)[i] = IF i <= Len(head) THEN head[i] ELSE hw[i - Len(head)]
      BY <1>4, <1>6, ConcatProperties
    <3>. QED  BY <1>4, <3>1, <3>2
  <2>2. thread \in User => 6 \in 1 .. 2 + Len(hw)
    BY <1>6
  <2>3. 3 \in 1 .. 2 + Len(hw) /\ 4 \in 1 .. 2 + Len(hw) /\ 5 \in 1 .. 2 + Len(hw)
    BY <1>6
  <2>. QED  BY <1>6, <2>1, <2>2, <2>3, SMTT(60)
<1>8. base \in Int
      /\ (thread \in User => base = End(thread) - 22) /\ (thread \notin User => base = reg.esp - 20)
  <2>1. CASE thread \in User
    <3>1. base = End(thread) - 5 - 2 - 15
      BY <1>1, <1>3, <1>6, <2>1, Slots DEF FrameBase
    <3>. QED  BY <1>3, <2>1, <3>1
  <2>2. CASE thread \notin User
    <3>1. base = reg.esp - 3 - 2 - 15
      BY <1>3, <1>6, <2>2, Slots DEF FrameBase
    <3>. QED  BY <1>2, <2>2, <3>1
  <2>. QED  BY <2>1, <2>2
<1>. QED  BY <1>3, <1>7, <1>8

LEMMA TrapKeeps ==
    ASSUME TrapInv, NEW irq \in Int, trap(irq)
    PROVE  TrapInv'
<1>. DEFINE base == FrameBase
            over == Over(irq)
            ctx == <<0, reg.ds, reg.eax, reg.ebx, reg.ecx, reg.edx, 0, reg.esi, reg.edi, reg.ebp>>
            mid == Put(words, base + CtxWords, over)
<1>1. /\ step = "run" /\ words' = Put(mid, base, ctx) /\ tf' = base /\ step' = "trapped"
      /\ reg' = [reg EXCEPT !.cs = KCODE, !.ds = KDATA, !.eflags = 0, !.esp = base]
      /\ UNCHANGED <<esp0, thread, ctxOf, own>>
  BY DEF trap, FrameBase, Over, Pushed
<1>2. /\ base \in Int /\ over \in Seq(Int)
      /\ over[3] = reg.eip /\ over[4] = reg.cs /\ over[5] = reg.eflags
      /\ thread \in User => over[6] = reg.esp /\ Len(over) = 7 /\ base = End(thread) - 22
      /\ thread \notin User => Len(over) = 5 /\ base = reg.esp - 20 /\ reg.esp \in End(thread) - 3 .. End(thread)
  BY <1>1, FrameFits
<1>3. ctx \in Seq(Int) /\ Len(ctx) = 10
  <2>1. /\ reg.ds \in Int /\ reg.eax \in Int /\ reg.ebx \in Int /\ reg.ecx \in Int /\ reg.edx \in Int
        /\ reg.esi \in Int /\ reg.edi \in Int /\ reg.ebp \in Int
    BY DEF TrapInv, TrapTypeOK, Regs
  <2>. QED  BY <2>1
<1>4. /\ ctx[2] = reg.ds /\ ctx[3] = reg.eax /\ ctx[4] = reg.ebx /\ ctx[5] = reg.ecx
      /\ ctx[6] = reg.edx /\ ctx[8] = reg.esi /\ ctx[9] = reg.edi /\ ctx[10] = reg.ebp
  OBVIOUS
<1>. HIDE DEF base, over, ctx
<1>5. /\ words \in [Memory -> Int] /\ Memory \in SUBSET Int /\ thread \in Threads /\ reg \in [Regs -> Int]
      /\ own[thread].reg \in [Regs -> Int] /\ Runs(thread, own[thread].reg)
      /\ \A f \in Regs \ {"cr3"} : reg[f] = own[thread].reg[f]
      /\ StackOf(words, reg, thread) = own[thread].stack /\ Runs(thread, reg)
  BY <1>1, RunsNow, SMTT(60) DEF TrapInv, TrapTypeOK, Memory, ContextsIntact
<1>6. /\ End(thread) \in Nat /\ StackWords \in Nat /\ StackWords >= 23 /\ End(thread) - StackWords \in Nat
      /\ Region(thread) \subseteq Memory /\ CtxWords = 15
  BY <1>5, Apart, Slots, TrapAssumption
<1>7. PICK l \in {5, 7}, e \in Nat, w \in Nat, s \in Int :
        /\ l = Len(over) /\ e = End(thread) /\ w = StackWords /\ s = reg.esp
        /\ w >= 23 /\ e - w <= base /\ base + 15 + l <= e
        /\ Region(thread) = e - w .. e - 1
        /\ thread \notin User => l = 5 /\ s = base + 20
  <2>1. reg.esp \in Int
    BY <1>5 DEF Regs
  <2>2. PICK e \in Nat, w \in Nat, s \in Int : e = End(thread) /\ w = StackWords /\ s = reg.esp
    BY <1>6, <2>1
  <2>3. Region(thread) = e - w .. e - 1 /\ w >= 23
    BY <1>6, <2>2 DEF Region
  <2>4. CASE thread \in User
    <3>1. Len(over) = 7 /\ base = e - 22
      BY <1>2, <2>2, <2>4
    <3>2. e - w <= base /\ base + 15 + 7 <= e
      BY <2>3, <3>1
    <3>. QED  BY <2>2, <2>3, <2>4, <3>1, <3>2
  <2>5. CASE thread \notin User
    <3>1. Len(over) = 5 /\ base = s - 20 /\ s \in e - 3 .. e
      BY <1>2, <2>2, <2>5
    <3>2. e - w <= base /\ base + 15 + 5 <= e /\ s = base + 20
      BY <2>3, <3>1
    <3>. QED  BY <2>2, <2>3, <2>5, <3>1, <3>2
  <2>. QED  BY <2>4, <2>5
<1>8. \A k \in 0 .. 14 + l : base + k \in Region(thread) /\ base + k \in Memory
  <2>1. \A k \in 0 .. 14 + l : base + k \in e - w .. e - 1
    <3>1. base \in Int /\ l \in Int /\ e - w <= base /\ base + 15 + l <= e
      BY <1>2, <1>7
    <3>. QED  BY <3>1
  <2>. QED  BY <1>6, <1>7, <2>1
<1>9. /\ mid \in [Memory -> Int]
      /\ \A x \in Memory : ~(x \in base + 15 .. base + 15 + Len(over) - 1) => mid[x] = words[x]
      /\ \A k \in 1 .. Len(over) : base + 15 + k - 1 \in Memory => mid[base + 15 + k - 1] = over[k]
  <2>1. base + 15 \in Int
    BY <1>2
  <2>2. mid = Put(words, base + 15, over)
    BY <1>6 DEF mid
  <2>. HIDE DEF mid
  <2>. DEFINE b == base + 15
  <2>3. mid = Put(words, b, over) /\ b \in Int
    BY <2>1, <2>2
  <2>. HIDE DEF b
  <2>4. /\ mid \in [Memory -> Int]
        /\ \A x \in Memory : ~(x \in b .. b + Len(over) - 1) => mid[x] = words[x]
        /\ \A k \in 1 .. Len(over) : b + k - 1 \in Memory => mid[b + k - 1] = over[k]
    <3>. HIDE DEF Memory
    <3>1. /\ Put(words, b, over) \in [Memory -> Int]
          /\ \A x \in Memory : ~(x \in b .. b + Len(over) - 1) => Put(words, b, over)[x] = words[x]
          /\ \A k \in 1 .. Len(over) : b + k - 1 \in Memory => Put(words, b, over)[b + k - 1] = over[k]
      BY <1>2, <1>5, <2>3, Puts
    <3>. QED  BY <2>3, <3>1
  <2>. QED  BY <2>4 DEF b
<1>. HIDE DEF mid
<1>10. /\ words' \in [Memory -> Int]
       /\ \A x \in Memory : ~(x \in base .. base + 10 - 1) => words'[x] = mid[x]
       /\ \A k \in 1 .. 10 : base + k - 1 \in Memory => words'[base + k - 1] = ctx[k]
  <2>1. /\ Put(mid, base, ctx) \in [Memory -> Int]
        /\ \A x \in Memory : ~(x \in base .. base + Len(ctx) - 1) => Put(mid, base, ctx)[x] = mid[x]
        /\ \A k \in 1 .. Len(ctx) : base + k - 1 \in Memory => Put(mid, base, ctx)[base + k - 1] = ctx[k]
    BY <1>2, <1>3, <1>5, <1>9, Puts, ZenonT(60)
  <2>. QED  BY <1>1, <1>3, <2>1
<1>11. \A x \in Memory : x \notin Region(thread) => words'[x] = words[x]
  <2>. TAKE x \in Memory
  <2>. HAVE x \notin Region(thread)
  <2>1. ~(x \in base .. base + 10 - 1) /\ ~(x \in base + 15 .. base + 15 + l - 1)
    <3>1. base \in Int /\ l \in {5, 7} /\ e - w <= base /\ base + 15 + l <= e
      BY <1>2, <1>7
    <3>2. ~(x \in e - w .. e - 1) /\ x \in Int
      BY <1>5, <1>7
    <3>. QED  BY <3>1, <3>2
  <2>. QED  BY <1>7, <1>9, <1>10, <2>1
<1>12. \A f \in Plain : words'[base + Slot(f)] = reg[f]
  <2>1. \A k \in 1 .. 10 : base + k - 1 \in Memory /\ base + k - 1 = base + (k - 1)
    <3>. TAKE k \in 1 .. 10
    <3>1. k - 1 \in 0 .. 14 + l /\ base + k - 1 = base + (k - 1)
      BY <1>2, SMTT(60)
    <3>. QED  BY <1>8, <3>1
  <2>2. \A k \in 1 .. 10 : words'[base + (k - 1)] = ctx[k]
    BY <1>10, <2>1
  <2>3. /\ words'[base + 1] = reg.ds /\ words'[base + 2] = reg.eax /\ words'[base + 3] = reg.ebx
        /\ words'[base + 4] = reg.ecx /\ words'[base + 5] = reg.edx
    <3>1. words'[base + (2 - 1)] = reg.ds /\ words'[base + (3 - 1)] = reg.eax /\ words'[base + (4 - 1)] = reg.ebx
      BY <1>4, <2>2
    <3>2. words'[base + (5 - 1)] = reg.ecx /\ words'[base + (6 - 1)] = reg.edx
      BY <1>4, <2>2
    <3>. QED  BY <3>1, <3>2
  <2>4. words'[base + 7] = reg.esi /\ words'[base + 8] = reg.edi /\ words'[base + 9] = reg.ebp
    <3>1. words'[base + (8 - 1)] = reg.esi /\ words'[base + (9 - 1)] = reg.edi /\ words'[base + (10 - 1)] = reg.ebp
      BY <1>4, <2>2
    <3>. QED  BY <3>1
  <2>. QED  BY <2>3, <2>4, Slots DEF Plain
<1>13. /\ words'[base + 17] = reg.eip /\ words'[base + 18] = reg.cs /\ words'[base + 19] = reg.eflags
       /\ thread \in User => words'[base + 20] = reg.esp
  <2>1. Len(over) \in {5, 7}
    BY <1>2
  <2>2. \A k \in 3 .. Len(over) : words'[base + (14 + k)] = over[k]
    <3>. TAKE k \in 3 .. Len(over)
    <3>1. /\ base + 15 + k - 1 = base + (14 + k) /\ base + (14 + k) \in Memory
          /\ ~(base + (14 + k) \in base .. base + 10 - 1)
      <4>1. 14 + k \in 0 .. 14 + l /\ base + 15 + k - 1 = base + (14 + k)
            /\ ~(base + (14 + k) \in base .. base + 10 - 1)
        BY <1>2, <1>7
      <4>. QED  BY <1>8, <4>1
    <3>2. mid[base + (14 + k)] = over[k]
      BY <1>9, <2>1, <3>1
    <3>. QED  BY <1>10, <3>1, <3>2
  <2>3. words'[base + (14 + 3)] = over[3] /\ words'[base + (14 + 4)] = over[4] /\ words'[base + (14 + 5)] = over[5]
    BY <2>1, <2>2
  <2>4. thread \in User => words'[base + (14 + 6)] = over[6]
    <3>. HAVE thread \in User
    <3>1. Len(over) = 7
      BY <1>2
    <3>2. 6 \in 3 .. Len(over)
      BY <3>1
    <3>. QED  BY <2>2, <3>2
  <2>. QED  BY <1>2, <2>3, <2>4
<1>14. StackOf(words', reg, thread) = own[thread].stack
  <2>1. CASE thread \in User
    BY <1>5, <2>1, Kinds DEF StackOf
  <2>2. CASE thread \notin User
    <3>1. \A x \in Region(thread) : x >= reg.esp => words'[x] = words[x]
      <4>. SUFFICES ASSUME NEW x \in Region(thread), x >= reg.esp PROVE words'[x] = words[x]
        OBVIOUS
      <4>1. x \in Memory /\ x >= base + 20 /\ x \in Int
        BY <1>6, <1>7, <2>2, SMTT(60)
      <4>2. ~(x \in base .. base + 10 - 1) /\ ~(x \in base + 15 .. base + 15 + Len(over) - 1)
        <5>1. Len(over) = 5
          BY <1>7, <2>2
        <5>. QED  BY <1>2, <4>1, <5>1
      <4>. QED  BY <1>9, <1>10, <4>1, <4>2
    <3>. QED  BY <1>5, <3>1, StackSame
  <2>. QED  BY <2>1, <2>2
<1>15. /\ {"eip", "cs", "eflags", "esp"} \subseteq Regs \ {"cr3"} /\ Plain \subseteq Regs \ {"cr3"}
  BY DEF Regs, Plain
<1>16. Trapped'
  <2>1. Lies(thread, tf)'
    <3>1. thread \in Kernel => thread \notin User
      BY <1>5, Kinds
    <3>2. own[thread].reg.esp = reg.esp
      BY <1>5, <1>15
    <3>3. base + CtxWords <= End(thread) /\ (thread \in Kernel => base + CtxWords <= reg.esp)
      BY <1>2, <1>6, <1>7, <3>1, SMTT(60)
    <3>4. End(thread) - StackWords <= base
      BY <1>7
    <3>. QED  BY <1>1, <3>2, <3>3, <3>4 DEF Lies
  <2>2. StackKept(thread)'
    <3>1. StackOf(words', own[thread].reg, thread) = StackOf(words', reg, thread)
      BY <1>5, <1>15 DEF StackOf, InUser
    <3>2. StackKept(thread)' <=> StackOf(words', own[thread].reg, thread) = own[thread].stack
      BY <1>1 DEF StackKept, StackOf
    <3>. QED  BY <1>14, <3>1, <3>2
  <2>3. \A f \in Plain : words'[base + Slot(f)] = own[thread].reg[f]
    BY <1>5, <1>12, <1>15
  <2>4. /\ words'[base + 17] = own[thread].reg.eip /\ words'[base + 18] = own[thread].reg.cs
        /\ words'[base + 19] = own[thread].reg.eflags
        /\ IF thread \in User THEN words'[base + 20] = own[thread].reg.esp
           ELSE base + 20 = own[thread].reg.esp
    <3>1. reg.eip = own[thread].reg.eip /\ reg.cs = own[thread].reg.cs /\ reg.eflags = own[thread].reg.eflags
          /\ reg.esp = own[thread].reg.esp
      BY <1>5, <1>15
    <3>2. thread \notin User => base + 20 = reg.esp
      BY <1>7
    <3>. QED  BY <1>13, <3>1, <3>2
  <2>. QED  BY <1>1, <2>1, <2>2, <2>3, <2>4 DEF Trapped
<1>17. TrapTypeOK'
  <2>1. reg' \in [Regs -> Int]
    <3>1. KCODE \in Int /\ KDATA \in Int /\ 0 \in Int
      BY DEF KCODE, KDATA
    <3>. HIDE DEF KCODE, KDATA
    <3>. QED  BY <1>1, <1>2, <1>5, <3>1
  <2>. QED  BY <1>1, <1>2, <1>10, <2>1 DEF TrapInv, TrapTypeOK
<1>18. UserHere' /\ \A t \in Threads : Runs(t, own[t].reg)'
  <2>1. reg'.cr3 = reg.cr3
    BY <1>1, <1>5 DEF Regs
  <2>. QED  BY <1>1, <2>1 DEF TrapInv, UserHere, Runs
<1>19. \A t \in Threads : t # thread => ContextAt(t, ctxOf[t])'
  BY <1>1, <1>5, <1>11, OthersKept
<1>20. ContextsIntact'
  BY <1>1 DEF ContextsIntact
<1>. QED  BY <1>1, <1>16, <1>17, <1>18, <1>19, <1>20 DEF TrapInv

LEMMA HandleKeeps ==
    ASSUME TrapInv, NEW n \in Threads, irq_handle(n)
    PROVE  TrapInv'
<1>. DEFINE esp == IF words[tf + 18] = UCODE THEN words[tf + 20] ELSE tf + 20
            five == <<words[tf + 17], words[tf + 18], words[tf + 19], esp, UDATA>>
            m1 == Put(words, tf + 10, five)
            m2 == Put(m1, tf, <<reg.cr3>>)
            m3 == Put(m2, tf + 6, <<esp0>>)
<1>1. Trapped /\ step = "trapped"
  BY DEF irq_handle, TrapInv
<1>2. /\ words \in [Memory -> Int] /\ Memory \in SUBSET Int /\ reg \in [Regs -> Int] /\ esp0 \in Int /\ tf \in Int
      /\ thread \in Threads /\ ctxOf \in [Threads -> Int] /\ reg.cr3 \in Int
      /\ own[thread].reg \in [Regs -> Int] /\ Runs(thread, own[thread].reg)
  <2>. HIDE DEF esp, five, m1, m2, m3
  <2>1. /\ words \in [Memory -> Int] /\ reg \in [Regs -> Int] /\ esp0 \in Int /\ tf \in Int
        /\ thread \in Threads /\ ctxOf \in [Threads -> Int]
        /\ own[thread].reg \in [Regs -> Int] /\ Runs(thread, own[thread].reg)
    BY DEF TrapInv, TrapTypeOK
  <2>2. Memory \in SUBSET Int
    BY DEF Memory
  <2>3. reg.cr3 \in Int
    BY <2>1 DEF Regs
  <2>. QED  BY <2>1, <2>2, <2>3
<1>3. tf + CtxWords + 2 + 0 = tf + 17 /\ tf + CtxWords + 2 + 1 = tf + 18 /\ tf + CtxWords + 2 + 2 = tf + 19
      /\ tf + CtxWords + 2 + 3 = tf + 20 /\ tf + FrameWords - 2 = tf + 20
  BY <1>2, Slots
<1>4. /\ words' = m3 /\ ctxOf' = [ctxOf EXCEPT ![thread] = tf] /\ thread' = n
      /\ tf' = ctxOf'[n] /\ step' = "return" /\ own' = own
      /\ IF words'[tf' + Slot("cr3")] # 0
         THEN reg' = [reg EXCEPT !.cr3 = words'[tf' + Slot("cr3")]] /\ esp0' = words'[tf' + Slot("esp0")]
         ELSE UNCHANGED <<reg, esp0>>
  BY <1>3, Slots DEF irq_handle
<1>5. /\ words[tf + 17] = own[thread].reg.eip /\ words[tf + 18] = own[thread].reg.cs
      /\ words[tf + 19] = own[thread].reg.eflags /\ esp = own[thread].reg.esp
  <2>1. words[tf + 18] = UCODE <=> thread \in User
    BY <1>1, <1>2, Kinds DEF Trapped, InUser
  <2>. QED  BY <1>1, <2>1 DEF Trapped
<1>6. five \in Seq(Int) /\ Len(five) = 5 /\ five[1] = own[thread].reg.eip /\ five[2] = own[thread].reg.cs
      /\ five[3] = own[thread].reg.eflags /\ five[4] = own[thread].reg.esp
  <2>1. /\ own[thread].reg.eip \in Int /\ own[thread].reg.cs \in Int /\ own[thread].reg.eflags \in Int
        /\ own[thread].reg.esp \in Int /\ UDATA \in Int
    BY <1>2 DEF Regs, UDATA
  <2>. HIDE DEF esp
  <2>. QED  BY <1>5, <2>1
<1>. HIDE DEF esp, five
<1>7. PICK w \in Nat, e \in Nat : /\ w = StackWords /\ e = End(thread) /\ e - w <= tf /\ tf + 15 <= e
                                  /\ Region(thread) = e - w .. e - 1 /\ Region(thread) \subseteq Memory
  BY <1>1, <1>2, Apart, Slots DEF Trapped, Lies, Region
<1>8. \A k \in 0 .. 14 : tf + k \in Region(thread) /\ tf + k \in Memory /\ tf + k \in Int
  <2>1. \A k \in 0 .. 14 : tf + k \in e - w .. e - 1
    <3>1. tf \in Int /\ e - w <= tf /\ tf + 15 <= e
      BY <1>2, <1>7
    <3>. QED  BY <3>1
  <2>. QED  BY <1>2, <1>7, <2>1
<1>9. /\ m1 \in [Memory -> Int]
      /\ \A x \in Memory : ~(x \in tf + 10 .. tf + 14) => m1[x] = words[x]
      /\ m1[tf + 10] = five[1] /\ m1[tf + 11] = five[2] /\ m1[tf + 12] = five[3] /\ m1[tf + 13] = five[4]
  <2>. DEFINE b == tf + 10
  <2>1. b \in Int
    BY <1>2
  <2>. HIDE DEF b, Memory
  <2>2. /\ Put(words, b, five) \in [Memory -> Int]
        /\ \A x \in Memory : ~(x \in b .. b + Len(five) - 1) => Put(words, b, five)[x] = words[x]
        /\ \A k \in 1 .. Len(five) : b + k - 1 \in Memory => Put(words, b, five)[b + k - 1] = five[k]
    BY <1>2, <1>6, <2>1, Puts
  <2>3. \A k \in 1 .. 5 : m1[b + k - 1] = five[k]
    <3>1. \A k \in 1 .. 5 : b + k - 1 \in Memory
      <4>. TAKE k \in 1 .. 5
      <4>1. 9 + k \in 0 .. 14 /\ b + k - 1 = tf + (9 + k)
        BY <1>2 DEF b
      <4>. QED  BY <1>8, <4>1
    <3>. QED  BY <1>6, <2>2, <3>1 DEF b
  <2>4. /\ b + 5 - 1 = tf + 14 /\ b + 1 - 1 = tf + 10 /\ b + 2 - 1 = tf + 11
        /\ b + 3 - 1 = tf + 12 /\ b + 4 - 1 = tf + 13
    BY <1>2 DEF b
  <2>5. m1 = Put(words, b, five)
    BY DEF b
  <2>. HIDE DEF m1
  <2>6. m1[b + 1 - 1] = five[1] /\ m1[b + 2 - 1] = five[2] /\ m1[b + 3 - 1] = five[3] /\ m1[b + 4 - 1] = five[4]
    BY <2>3
  <2>7. b .. b + 5 - 1 = tf + 10 .. tf + 14
    BY <2>4 DEF b
  <2>. QED  BY <1>6, <2>2, <2>4, <2>5, <2>6, <2>7
<1>. HIDE DEF m1
<1>10. /\ m2 \in [Memory -> Int] /\ m2[tf] = reg.cr3 /\ \A x \in Memory : x # tf => m2[x] = m1[x]
  <2>1. m2 = [x \in Memory |-> IF x = tf THEN reg.cr3 ELSE m1[x]]
    BY <1>2, <1>9 DEF Put
  <2>2. tf \in Memory
    <3>1. tf + 0 \in Memory /\ tf + 0 = tf
      BY <1>2, <1>8
    <3>. QED  BY <3>1
  <2>. QED  BY <1>2, <1>9, <2>1, <2>2
<1>. HIDE DEF m2
<1>11. /\ m3 \in [Memory -> Int] /\ m3[tf + 6] = esp0 /\ \A x \in Memory : x # tf + 6 => m3[x] = m2[x]
  <2>1. m3 = [x \in Memory |-> IF x = tf + 6 THEN esp0 ELSE m2[x]]
    BY <1>2, <1>10 DEF Put
  <2>. QED  BY <1>2, <1>8, <1>10, <2>1
<1>. HIDE DEF m3
<1>12. /\ words' \in [Memory -> Int] /\ words'[tf + 6] = esp0 /\ words'[tf + 0] = reg.cr3
       /\ words'[tf + 10] = own[thread].reg.eip /\ words'[tf + 11] = own[thread].reg.cs
       /\ words'[tf + 12] = own[thread].reg.eflags /\ words'[tf + 13] = own[thread].reg.esp
       /\ \A k \in {1, 2, 3, 4, 5, 7, 8, 9} : words'[tf + k] = words[tf + k]
       /\ \A x \in Memory : ~(x \in tf .. tf + 14) => words'[x] = words[x]
  <2>1. \A x \in Memory : words'[x] = IF x = tf + 6 THEN esp0 ELSE IF x = tf THEN reg.cr3 ELSE m1[x]
    BY <1>4, <1>10, <1>11
  <2>2. \A k \in 1 .. 14 : k # 6 => words'[tf + k] = m1[tf + k]
    BY <1>2, <1>8, <2>1
  <2>3. words'[tf + 6] = esp0 /\ words'[tf + 0] = reg.cr3
    <3>1. tf + 0 = tf /\ tf + 0 \in Memory /\ tf + 6 \in Memory /\ tf + 6 # tf
      BY <1>2, <1>8
    <3>. QED  BY <2>1, <3>1
  <2>4. \A k \in {1, 2, 3, 4, 5, 7, 8, 9} : words'[tf + k] = words[tf + k]
    <3>. TAKE k \in {1, 2, 3, 4, 5, 7, 8, 9}
    <3>1. k \in 1 .. 14 /\ k # 6 /\ k \in 0 .. 14 /\ ~(tf + k \in tf + 10 .. tf + 14)
      BY <1>2
    <3>. QED  BY <1>8, <1>9, <2>2, <3>1
  <2>5. \A x \in Memory : ~(x \in tf .. tf + 14) => words'[x] = words[x]
    <3>. TAKE x \in Memory
    <3>. HAVE ~(x \in tf .. tf + 14)
    <3>1. x # tf /\ x # tf + 6 /\ ~(x \in tf + 10 .. tf + 14)
      BY <1>2
    <3>. QED  BY <1>9, <2>1, <3>1
  <2>6. /\ words'[tf + 10] = m1[tf + 10] /\ words'[tf + 11] = m1[tf + 11]
        /\ words'[tf + 12] = m1[tf + 12] /\ words'[tf + 13] = m1[tf + 13]
    BY <2>2
  <2>. QED  BY <1>4, <1>6, <1>9, <1>11, <2>3, <2>4, <2>5, <2>6
<1>13. PICK c \in Threads, a \in Int : c = thread /\ a = tf
  BY <1>2
<1>14. ContextAt(c, a)'
  <2>1. Lies(c, a)'
    BY <1>1, <1>4, <1>13 DEF Trapped, Lies
  <2>2. StackKept(c)'
    <3>1. StackOf(words, own[c].reg, c) = own[c].stack
      BY <1>1, <1>13 DEF Trapped, StackKept
    <3>2. CASE c \in User
      BY <1>2, <1>4, <1>13, <3>1, <3>2, Kinds DEF StackKept, StackOf
    <3>3. CASE c \notin User
      <4>1. own[c].reg.esp \in Int /\ a + 15 <= own[c].reg.esp
        BY <1>1, <1>2, <1>13, <3>3, Kinds, Slots DEF Trapped, Lies, Regs
      <4>2. \A x \in Region(c) : x >= own[c].reg.esp => words'[x] = words[x]
        <5>. TAKE x \in Region(c)
        <5>. HAVE x >= own[c].reg.esp
        <5>1. x \in Memory /\ x \in Int
          BY <1>2, <1>7, <1>13
        <5>2. ~(x \in tf .. tf + 14)
          BY <1>13, <4>1, <5>1
        <5>. QED  BY <1>12, <5>1, <5>2
      <4>3. StackOf(words', own[c].reg, c) = StackOf(words, own[c].reg, c)
        BY <1>2, <1>13, <4>2, StackSame
      <4>. QED  BY <1>4, <3>1, <4>3 DEF StackKept, StackOf
    <3>. QED  BY <3>2, <3>3
  <2>3. \A f \in Plain \cup Popped : words'[a + Slot(f)] = own[c].reg[f]
    <3>1. \A f \in Plain : words'[tf + Slot(f)] = own[thread].reg[f]
      <4>1. \A f \in Plain : Slot(f) \in {1, 2, 3, 4, 5, 7, 8, 9}
        BY Slots DEF Plain
      <4>2. \A f \in Plain : words[tf + Slot(f)] = own[thread].reg[f]
        BY <1>1 DEF Trapped
      <4>. QED  BY <1>12, <4>1, <4>2
    <3>2. \A f \in Popped : words'[tf + Slot(f)] = own[thread].reg[f]
      BY <1>12, Slots DEF Popped
    <3>. QED  BY <1>13, <3>1, <3>2
  <2>4. c \in User => words'[a + Slot("cr3")] = PageDir(c) /\ words'[a + Slot("esp0")] = End(c)
    BY <1>12, <1>13, Slots DEF TrapInv, UserHere
  <2>. QED  BY <1>4, <2>1, <2>2, <2>3, <2>4 DEF ContextAt
<1>15. \A t \in Threads : t # c => ContextAt(t, ctxOf[t])'
  <2>1. \A t \in Threads : t # thread => own'[t] = own[t] /\ ctxOf'[t] = ctxOf[t]
    BY <1>2, <1>4
  <2>2. \A x \in Memory : x \notin Region(thread) => words'[x] = words[x]
    <3>. TAKE x \in Memory
    <3>. HAVE x \notin Region(thread)
    <3>1. ~(x \in tf .. tf + 14)
      <4>1. x \notin e - w .. e - 1 /\ x \in Int /\ tf \in Int /\ e - w <= tf /\ tf + 15 <= e
        BY <1>2, <1>7
      <4>. QED  BY <4>1
    <3>. QED  BY <1>12, <3>1
  <2>. QED  BY <1>13, <2>1, <2>2, OthersKept
<1>16. \A t \in Threads : ContextAt(t, ctxOf[t])'
  <2>. TAKE t \in Threads
  <2>1. CASE t = c
    <3>1. ctxOf'[t] = a
      BY <1>2, <1>4, <1>13, <2>1
    <3>. QED  BY <1>14, <2>1, <3>1 DEF ContextAt, Lies, StackKept
  <2>2. CASE t # c
    BY <1>15, <2>2
  <2>. QED  BY <2>1, <2>2
<1>17. /\ reg' \in [Regs -> Int] /\ esp0' \in Int /\ tf' \in Int
       /\ n \in User => reg'.cr3 = PageDir(n) /\ esp0' = End(n)
  <2>1. PICK b \in Int : b = ctxOf'[n] /\ tf' = b
    BY <1>2, <1>4
  <2>2. ContextAt(n, b)'
    BY <1>16, <2>1 DEF ContextAt, Lies, StackKept
  <2>3. n \in User => words'[b + 0] = PageDir(n) /\ words'[b + 6] = End(n) /\ PageDir(n) # 0
    BY <2>2, Slots, Apart DEF ContextAt, PageDir
  <2>4. b + 0 \in Memory /\ b + 6 \in Memory
    <3>1. PICK v \in Nat, f \in Nat : /\ v = StackWords /\ f = End(n) /\ f - v <= b /\ b + 15 <= f
                                      /\ Region(n) = f - v .. f - 1 /\ Region(n) \subseteq Memory
      BY <2>2, Apart, Slots DEF ContextAt, Lies, Region
    <3>2. b + 0 \in f - v .. f - 1 /\ b + 6 \in f - v .. f - 1
      BY <2>1, <3>1, SMTT(60)
    <3>. QED  BY <3>1, <3>2
  <2>5. words'[b + 0] \in Int /\ words'[b + 6] \in Int
    BY <1>12, <2>4
  <2>. QED  BY <1>2, <1>4, <2>1, <2>3, <2>5, Slots DEF Regs
<1>18. TrapTypeOK'
  BY <1>2, <1>4, <1>12, <1>17 DEF TrapInv, TrapTypeOK
<1>19. (\A t \in Threads : Runs(t, own[t].reg)') /\ UserHere'
  BY <1>4, <1>17 DEF TrapInv, UserHere, Runs
<1>20. tf' = ctxOf'[thread'] /\ ContextAt(thread, tf)'
  BY <1>4, <1>16 DEF ContextAt, Lies, StackKept
<1>21. ContextsIntact'
  BY <1>4 DEF ContextsIntact
<1>. QED  BY <1>4, <1>16, <1>18, <1>19, <1>20, <1>21 DEF TrapInv

\* The words of a context come up whole although they are moved over one
\* another.
LEMMA MovesUp ==
    ASSUME NEW m \in [Memory -> Int], NEW to \in Int, tf \in Int, to >= tf + 7,
           \A i \in 0 .. 5 : to + i \in Memory /\ tf + 7 + i \in Memory
    PROVE  /\ MoveUp(m, to) \in [Memory -> Int]
           /\ \A i \in 0 .. 5 : MoveUp(m, to)[to + i] = m[tf + 7 + i]
           /\ \A x \in Memory : ~(x \in to .. to + 5) => MoveUp(m, to)[x] = m[x]
<1>. DEFINE m5 == Move(m, to, 5)
            m4 == Move(m5, to, 4)
            m3 == Move(m4, to, 3)
            m2 == Move(m3, to, 2)
            m1 == Move(m2, to, 1)
            m0 == Move(m1, to, 0)
<1>1. MoveUp(m, to) = m0
  BY DEF MoveUp
<1>2. ASSUME NEW k \in [Memory -> Int], NEW i \in 0 .. 5
      PROVE  /\ Move(k, to, i) \in [Memory -> Int] /\ Move(k, to, i)[to + i] = k[tf + 7 + i]
             /\ \A x \in Memory : x # to + i => Move(k, to, i)[x] = k[x]
  <2>1. to + i \in Memory /\ tf + 7 + i \in Memory /\ k[tf + 7 + i] \in Int
    OBVIOUS
  <2>2. Move(k, to, i) = [k EXCEPT ![to + i] = k[tf + 7 + i]]
    BY Slots DEF Move
  <2>. QED  BY <2>1, <2>2
<1>3. \A i, j \in 0 .. 5 : (i # j => to + i # to + j) /\ (i < j => tf + 7 + i # to + j)
  OBVIOUS
<1>4. \A x \in Memory : x \in Int
  BY DEF Memory
<1>5. /\ m5 \in [Memory -> Int] /\ m5[to + 5] = m[tf + 7 + 5]
      /\ \A x \in Memory : x # to + 5 => m5[x] = m[x]
  BY <1>2
<1>. HIDE DEF m5
<1>6. /\ m4 \in [Memory -> Int] /\ m4[to + 4] = m5[tf + 7 + 4]
      /\ \A x \in Memory : x # to + 4 => m4[x] = m5[x]
  BY <1>2, <1>5
<1>. HIDE DEF m4
<1>7. /\ m3 \in [Memory -> Int] /\ m3[to + 3] = m4[tf + 7 + 3]
      /\ \A x \in Memory : x # to + 3 => m3[x] = m4[x]
  BY <1>2, <1>6
<1>. HIDE DEF m3
<1>8. /\ m2 \in [Memory -> Int] /\ m2[to + 2] = m3[tf + 7 + 2]
      /\ \A x \in Memory : x # to + 2 => m2[x] = m3[x]
  BY <1>2, <1>7
<1>. HIDE DEF m2
<1>9. /\ m1 \in [Memory -> Int] /\ m1[to + 1] = m2[tf + 7 + 1]
      /\ \A x \in Memory : x # to + 1 => m1[x] = m2[x]
  BY <1>2, <1>8
<1>. HIDE DEF m1
<1>10. /\ m0 \in [Memory -> Int] /\ m0[to + 0] = m1[tf + 7 + 0]
       /\ \A x \in Memory : x # to + 0 => m0[x] = m1[x]
  BY <1>2, <1>9
<1>. HIDE DEF m0, Memory
<1>11. \A x \in Memory : ~(x \in to .. to + 5) => m0[x] = m[x]
  <2>. TAKE x \in Memory
  <2>. HAVE ~(x \in to .. to + 5)
  <2>1. x # to + 0 /\ x # to + 1 /\ x # to + 2 /\ x # to + 3 /\ x # to + 4 /\ x # to + 5
    BY <1>4
  <2>. QED  BY <1>5, <1>6, <1>7, <1>8, <1>9, <1>10, <2>1
<1>. DEFINE src(i) == tf + 7 + i
<1>12. \A i \in 0 .. 5 : src(i) \in Memory /\ to + i \in Memory
  OBVIOUS
<1>13. \A i, j \in 0 .. 5 : i < j => src(i) # to + j
  BY <1>3
<1>14. /\ m5[to + 5] = m[src(5)] /\ m4[to + 4] = m5[src(4)] /\ m3[to + 3] = m4[src(3)]
       /\ m2[to + 2] = m3[src(2)] /\ m1[to + 1] = m2[src(1)] /\ m0[to + 0] = m1[src(0)]
  BY <1>5, <1>6, <1>7, <1>8, <1>9, <1>10
<1>. HIDE DEF src
<1>15. m5[src(4)] = m[src(4)]
  BY <1>5, <1>12, <1>13
<1>16. m4[src(3)] = m[src(3)]
  BY <1>5, <1>6, <1>12, <1>13
<1>17. m3[src(2)] = m[src(2)]
  BY <1>5, <1>6, <1>7, <1>12, <1>13
<1>18. m2[src(1)] = m[src(1)]
  BY <1>5, <1>6, <1>7, <1>8, <1>12, <1>13
<1>19. m1[src(0)] = m[src(0)]
  BY <1>5, <1>6, <1>7, <1>8, <1>9, <1>12, <1>13
<1>20. m0[to + 5] = m5[to + 5] /\ m0[to + 4] = m4[to + 4] /\ m0[to + 3] = m3[to + 3]
  BY <1>3, <1>6, <1>7, <1>8, <1>9, <1>10, <1>12
<1>21. m0[to + 2] = m2[to + 2] /\ m0[to + 1] = m1[to + 1]
  BY <1>3, <1>9, <1>10, <1>12
<1>22. \A i \in 0 .. 5 : m0[to + i] = m[src(i)]
  <2>1. /\ m0[to + 5] = m[src(5)] /\ m0[to + 4] = m[src(4)] /\ m0[to + 3] = m[src(3)]
        /\ m0[to + 2] = m[src(2)] /\ m0[to + 1] = m[src(1)] /\ m0[to + 0] = m[src(0)]
    BY <1>14, <1>15, <1>16, <1>17, <1>18, <1>19, <1>20, <1>21
  <2>2. \A i \in 0 .. 5 : i = 0 \/ i = 1 \/ i = 2 \/ i = 3 \/ i = 4 \/ i = 5
    OBVIOUS
  <2>. QED  BY <2>1, <2>2
<1>. QED  BY <1>1, <1>10, <1>11, <1>22 DEF src

LEMMA IretKeeps ==
    ASSUME TrapInv, iret
    PROVE  TrapInv'
<1>. DEFINE R == own[thread].reg
            to == R.esp - 6
            popped == [reg EXCEPT !.ds = words[tf + 1], !.eax = words[tf + 2], !.ebx = words[tf + 3],
                                  !.ecx = words[tf + 4], !.edx = words[tf + 5], !.esp = words[tf + 13]]
<1>1. step = "return" /\ step' = "run" /\ ContextAt(thread, tf) /\ UNCHANGED <<esp0, tf, thread, ctxOf, own>>
  BY DEF iret, TrapInv
<1>2. /\ words \in [Memory -> Int] /\ reg \in [Regs -> Int] /\ esp0 \in Int /\ tf \in Int
      /\ thread \in Threads /\ R \in [Regs -> Int] /\ Runs(thread, R)
  BY DEF TrapInv, TrapTypeOK
<1>3. R.esp \in Int /\ \A f \in Plain \cup Popped : f \in Regs
  BY <1>2 DEF Regs, Plain, Popped
<1>4. /\ words[tf + 1] = R.ds /\ words[tf + 2] = R.eax /\ words[tf + 3] = R.ebx /\ words[tf + 4] = R.ecx
      /\ words[tf + 5] = R.edx /\ words[tf + 7] = R.esi /\ words[tf + 8] = R.edi /\ words[tf + 9] = R.ebp
      /\ words[tf + 10] = R.eip /\ words[tf + 11] = R.cs /\ words[tf + 12] = R.eflags /\ words[tf + 13] = R.esp
  <2>1. \A f \in Plain \cup Popped : words[tf + Slot(f)] = R[f]
    BY <1>1 DEF ContextAt
  <2>2. /\ words[tf + Slot("ds")] = R.ds /\ words[tf + Slot("eax")] = R.eax /\ words[tf + Slot("ebx")] = R.ebx
        /\ words[tf + Slot("ecx")] = R.ecx /\ words[tf + Slot("edx")] = R.edx
        /\ words[tf + Slot("esi")] = R.esi /\ words[tf + Slot("edi")] = R.edi /\ words[tf + Slot("ebp")] = R.ebp
    BY <2>1 DEF Plain
  <2>3. /\ words[tf + Slot("eip")] = R.eip /\ words[tf + Slot("cs")] = R.cs
        /\ words[tf + Slot("eflags")] = R.eflags /\ words[tf + Slot("esp")] = R.esp
    BY <2>1 DEF Popped
  <2>. HIDE DEF R
  <2>. QED  BY <2>2, <2>3, Slots
<1>5. /\ Lies(thread, tf) /\ StackOf(words, R, thread) = own[thread].stack
  BY <1>1 DEF ContextAt, StackKept
<1>. HIDE DEF R
<1>6. PICK w \in Nat, e \in Nat, s \in Int :
        /\ w = StackWords /\ e = End(thread) /\ s = R.esp
        /\ e - w <= tf /\ tf + 15 <= e
        /\ Region(thread) = e - w .. e - 1 /\ Region(thread) \subseteq Memory
        /\ thread \notin User => tf + 15 <= s /\ s <= e
  <2>1. thread \notin User => tf + 15 <= R.esp /\ R.esp \in End(thread) - 3 .. End(thread)
    BY <1>2, <1>5, Kinds, Slots DEF Lies, R
  <2>2. /\ End(thread) - StackWords <= tf /\ tf + 15 <= End(thread) /\ StackWords \in Nat /\ End(thread) \in Nat
        /\ Region(thread) = End(thread) - StackWords .. End(thread) - 1 /\ Region(thread) \subseteq Memory
    BY <1>2, <1>5, Apart, Slots DEF Lies, Region
  <2>3. thread \notin User => tf + 15 <= R.esp /\ R.esp <= End(thread)
    BY <1>3, <2>1, <2>2
  <2>. QED  BY <1>3, <2>2, <2>3
\* Whichever way it returns, the registers come back, and the stack.
<1>7. \E k \in [Memory -> Int] :
        /\ words' = k
        /\ reg' = [popped EXCEPT !.esi = R.esi, !.edi = R.edi, !.ebp = R.ebp,
                                 !.eip = R.eip, !.cs = R.cs, !.eflags = R.eflags]
        /\ \A x \in Memory : x \notin Region(thread) => k[x] = words[x]
        /\ StackOf(k, R, thread) = own[thread].stack
  <2>1. CASE thread \in User
    <3>1. words[tf + Slot("cs")] # KCODE
      BY <1>2, <1>4, <2>1, Kinds, Slots
    <3>2. /\ words' = words
          /\ reg' = [[reg EXCEPT !.ds = words[tf + Slot("ds")], !.eax = words[tf + Slot("eax")],
                                 !.ebx = words[tf + Slot("ebx")], !.ecx = words[tf + Slot("ecx")],
                                 !.edx = words[tf + Slot("edx")], !.esp = words[tf + Slot("esp")]]
                      EXCEPT !.esi = words[tf + Slot("esi")], !.edi = words[tf + Slot("edi")],
                             !.ebp = words[tf + Slot("ebp")], !.eip = words[tf + Slot("eip")],
                             !.cs = words[tf + Slot("cs")], !.eflags = words[tf + Slot("eflags")]]
      BY <3>1 DEF iret
    <3>3. reg' = [popped EXCEPT !.esi = R.esi, !.edi = R.edi, !.ebp = R.ebp,
                                !.eip = R.eip, !.cs = R.cs, !.eflags = R.eflags]
      BY <1>4, <3>2, Slots
    <3>. QED  BY <1>2, <1>5, <3>2, <3>3
  <2>2. CASE thread \notin User
    <3>. DEFINE k == MoveUp(words, to)
    <3>1. PICK y \in Int : y = tf /\ e - w <= y /\ y + 15 <= e /\ y + 15 <= s /\ s <= e
      <4>1. tf \in Int
        BY <1>2
      <4>2. e - w <= tf /\ tf + 15 <= e /\ tf + 15 <= s /\ s <= e
        BY <1>6, <2>2
      <4>. QED  BY <4>1, <4>2
    <3>2. s = R.esp
      BY <1>6
    <3>3. /\ Region(thread) = e - w .. e - 1 /\ Region(thread) \subseteq Memory
      BY <1>6
    <3>4. words[tf + Slot("cs")] = KCODE
      BY <1>2, <1>4, <2>2, Kinds, Slots
    <3>5. to = s - 6 /\ to \in Int /\ to >= tf + 9
      <4>1. to = s - 6
        BY <3>2
      <4>. HIDE DEF to
      <4>. QED  BY <4>1, <3>1
    <3>6. \A i \in 0 .. 5 : to + i \in Memory /\ tf + 7 + i \in Memory
      <4>1. \A i \in 0 .. 5 : to + i \in e - w .. e - 1 /\ tf + 7 + i \in e - w .. e - 1
        <5>1. to = s - 6
          BY <3>5
        <5>. HIDE DEF to
        <5>. QED  BY <3>1, <5>1
      <4>. QED  BY <3>3, <4>1
    <3>. HIDE DEF to
    <3>7. /\ k \in [Memory -> Int] /\ \A i \in 0 .. 5 : k[to + i] = words[tf + 7 + i]
          /\ \A x \in Memory : ~(x \in to .. to + 5) => k[x] = words[x]
      BY <1>2, <3>5, <3>6, MovesUp
    <3>8. /\ words' = MoveUp(words, words[tf + Slot("esp")] - 6)
          /\ LET newesp == words[tf + Slot("esp")]
                 m == MoveUp(words, newesp - 6)
             IN  reg' = [[reg EXCEPT !.ds = words[tf + Slot("ds")], !.eax = words[tf + Slot("eax")],
                                 !.ebx = words[tf + Slot("ebx")], !.ecx = words[tf + Slot("ecx")],
                                 !.edx = words[tf + Slot("edx")], !.esp = words[tf + Slot("esp")]]
                      EXCEPT !.esi = m[newesp - 6], !.edi = m[newesp - 5],
                             !.ebp = m[newesp - 4], !.eip = m[newesp - 3],
                             !.cs = m[newesp - 2], !.eflags = m[newesp - 1]]
      BY <3>4 DEF iret
    <3>9. words[tf + Slot("esp")] = s /\ s - 6 = to
      <4>1. words[tf + Slot("esp")] = R.esp
        BY <1>4, Slots
      <4>. QED  BY <3>5, <3>2, <4>1
    <3>. HIDE DEF k
    <3>10. words' = k
      BY <3>8, <3>9 DEF k
    <3>11. /\ k[s - 6] = R.esi /\ k[s - 5] = R.edi /\ k[s - 4] = R.ebp
           /\ k[s - 3] = R.eip /\ k[s - 2] = R.cs /\ k[s - 1] = R.eflags
      <4>1. /\ to + 0 = s - 6 /\ to + 1 = s - 5 /\ to + 2 = s - 4 /\ to + 3 = s - 3 /\ to + 4 = s - 2 /\ to + 5 = s - 1
            /\ tf + 7 + 0 = tf + 7 /\ tf + 7 + 1 = tf + 8 /\ tf + 7 + 2 = tf + 9 /\ tf + 7 + 3 = tf + 10
            /\ tf + 7 + 4 = tf + 11 /\ tf + 7 + 5 = tf + 12
        BY <1>2, <3>5
      <4>2. /\ k[to + 0] = words[tf + 7 + 0] /\ k[to + 1] = words[tf + 7 + 1] /\ k[to + 2] = words[tf + 7 + 2]
            /\ k[to + 3] = words[tf + 7 + 3] /\ k[to + 4] = words[tf + 7 + 4] /\ k[to + 5] = words[tf + 7 + 5]
        BY <3>7
      <4>. QED  BY <1>4, <4>1, <4>2
    <3>12. reg' = [[reg EXCEPT !.ds = words[tf + 1], !.eax = words[tf + 2],
                               !.ebx = words[tf + 3], !.ecx = words[tf + 4],
                               !.edx = words[tf + 5], !.esp = words[tf + 13]]
                       EXCEPT !.esi = k[s - 6], !.edi = k[s - 5], !.ebp = k[s - 4],
                              !.eip = k[s - 3], !.cs = k[s - 2], !.eflags = k[s - 1]]
      <4>1. words[tf + 13] = s
        BY <3>9, Slots
      <4>. QED  BY <3>8, <3>9, <4>1, Slots DEF k
    <3>13. \A x \in Memory : x \notin Region(thread) => k[x] = words[x]
      <4>. TAKE x \in Memory
      <4>. HAVE x \notin Region(thread)
      <4>1. ~(x \in to .. to + 5)
        <5>1. ~(x \in e - w .. e - 1)
          BY <3>3
        <5>2. x \in Int
          BY MemoryWhole
        <5>. QED  BY <3>1, <3>5, <5>1, <5>2
      <4>. QED  BY <3>7, <4>1
    <3>14. StackOf(k, R, thread) = StackOf(words, R, thread)
      <4>1. \A x \in Region(thread) : x >= R.esp => k[x] = words[x]
        <5>. TAKE x \in Region(thread)
        <5>. HAVE x >= R.esp
        <5>1. x \in Memory /\ x \in Int
          BY <3>3, MemoryWhole
        <5>2. ~(x \in to .. to + 5)
          <6>1. x >= s
            BY <3>2
          <6>. QED  BY <3>5, <5>1, <6>1
        <5>. QED  BY <3>7, <5>1, <5>2
      <4>. QED  BY <1>2, <4>1, StackSame
    <3>. QED  BY <1>5, <3>7, <3>10, <3>11, <3>12, <3>13, <3>14
  <2>. QED  BY <2>1, <2>2
<1>8. PICK k \in [Memory -> Int] :
        /\ words' = k
        /\ reg' = [popped EXCEPT !.esi = R.esi, !.edi = R.edi, !.ebp = R.ebp,
                                 !.eip = R.eip, !.cs = R.cs, !.eflags = R.eflags]
        /\ \A x \in Memory : x \notin Region(thread) => k[x] = words[x]
        /\ StackOf(k, R, thread) = own[thread].stack
  BY <1>7
<1>9. reg' \in [Regs -> Int] /\ reg'.cr3 = reg.cr3 /\ \A f \in Regs \ {"cr3"} : reg'[f] = R[f]
  <2>1. /\ R.ds \in Int /\ R.eax \in Int /\ R.ebx \in Int /\ R.ecx \in Int /\ R.edx \in Int /\ R.esp \in Int
        /\ R.esi \in Int /\ R.edi \in Int /\ R.ebp \in Int /\ R.eip \in Int /\ R.cs \in Int /\ R.eflags \in Int
    BY <1>2 DEF Regs
  <2>2. popped = [reg EXCEPT !.ds = R.ds, !.eax = R.eax, !.ebx = R.ebx, !.ecx = R.ecx, !.edx = R.edx, !.esp = R.esp]
    BY <1>4
  <2>. HIDE DEF popped
  <2>3. popped \in [Regs -> Int] /\ popped.cr3 = reg.cr3
        /\ \A f \in {"ds", "eax", "ebx", "ecx", "edx", "esp"} : popped[f] = R[f]
    BY <1>2, <2>1, <2>2 DEF Regs
  <2>. QED  BY <1>8, <2>1, <2>3 DEF Regs
<1>10. [reg EXCEPT !.cr3 = 0]' = [own[thread].reg EXCEPT !.cr3 = 0]'
  <2>1. /\ DOMAIN [reg' EXCEPT !.cr3 = 0] = Regs /\ DOMAIN [R EXCEPT !.cr3 = 0] = Regs
        /\ \A f \in Regs : [reg' EXCEPT !.cr3 = 0][f] = [R EXCEPT !.cr3 = 0][f]
    BY <1>2, <1>9
  <2>2. [reg' EXCEPT !.cr3 = 0] = [R EXCEPT !.cr3 = 0]
    BY <1>2, <1>9, <2>1
  <2>. QED  BY <1>1, <2>2 DEF R
<1>11. StackOf(words, reg, thread)' = own'[thread].stack
  <2>1. {"cs", "esp"} \subseteq Regs \ {"cr3"}
    BY DEF Regs
  <2>2. reg'.cs = R.cs /\ reg'.esp = R.esp
    BY <1>9, <2>1
  <2>3. StackOf(words', reg', thread) = own[thread].stack
    <3>1. words' = k /\ StackOf(k, R, thread) = own[thread].stack
      BY <1>8
    <3>2. StackOf(k, reg', thread) = StackOf(k, R, thread)
      BY <2>2, StackRead
    <3>. QED  BY <3>1, <3>2
  <2>4. StackOf(words, reg, thread)' = StackOf(words', reg', thread)
    BY <1>1 DEF StackOf, InUser, End
  <2>. QED  BY <1>1, <2>3, <2>4
<1>12. UserHere'
  BY <1>1, <1>9 DEF TrapInv, UserHere
<1>13. ContextsIntact'
  BY <1>1, <1>10, <1>11, <1>12 DEF ContextsIntact, UserHere
<1>14. TrapTypeOK'
  <2>1. TrapTypeOK
    BY DEF TrapInv
  <2>2. words' \in [Memory -> Int] /\ step' \in {"run", "trapped", "return"}
    BY <1>1, <1>8
  <2>. HIDE DEF popped
  <2>. QED  BY <1>1, <1>9, <2>1, <2>2 DEF TrapTypeOK, Memory
<1>15. \A t \in Threads : t # thread => ContextAt(t, ctxOf[t])'
  BY <1>1, <1>2, <1>8, OthersKept
<1>16. \A t \in Threads : Runs(t, own[t].reg)'
  BY <1>1 DEF TrapInv, Runs
<1>. QED  BY <1>1, <1>12, <1>13, <1>14, <1>15, <1>16 DEF TrapInv

-----------------------------------------------------------------------------
(* The first state.                                                        *)

LEMMA TrapInitially ==
    ASSUME TrapInit
    PROVE  TrapInv
<1>1. thread = 1 /\ 1 \in Kernel /\ 1 \in Threads /\ step = "run" /\ tf = 0 /\ esp0 = 0
  BY DEF TrapInit, Threads
<1>2. words = [a \in Memory |->
                  LET t == (a \div StackWords) + 1 IN
                  IF a >= NewCtx(t) THEN Created(t)[Fields[a - NewCtx(t) + 1]] ELSE 0]
  BY DEF TrapInit, Memory
<1>3. \A t \in Threads : own[t].reg = Registers(Created(t)) /\ own[t].stack = <<>> /\ ctxOf[t] = NewCtx(t)
  BY DEF TrapInit
<1>4. /\ DOMAIN own = Threads /\ ctxOf \in [Threads -> Int]
      /\ own \in [Threads -> {own[t] : t \in Threads}]
  <2>1. \A t \in Threads : NewCtx(t) \in Int
    BY Apart, Slots DEF NewCtx
  <2>. QED  BY <2>1 DEF TrapInit
\* What a new context holds.
<1>5. ASSUME NEW t \in Threads
      PROVE  /\ \A i \in 1 .. 15 : Created(t)[Fields[i]] \in Int
             /\ Registers(Created(t)) \in [Regs -> Int]
             /\ Runs(t, Registers(Created(t)))
             /\ \A f \in Plain \cup Popped : Registers(Created(t))[f] = Created(t)[f]
             /\ t \in User => Created(t)["cr3"] = PageDir(t) /\ Created(t)["esp0"] = End(t)
             /\ t \notin User => Registers(Created(t)).esp = End(t)
  <2>. DEFINE FieldNames == {"cr3", "ds", "eax", "ebx", "ecx", "edx", "esp0", "esi", "edi", "ebp",
                             "eip", "cs", "eflags", "esp", "ss3"}
  <2>1. {Fields[i] : i \in 1 .. CtxWords} = FieldNames /\ \A i \in 1 .. 15 : Fields[i] \in FieldNames
    <3>1. \A i \in 1 .. 15 : Fields[i] \in FieldNames
      BY DEF Fields
    <3>2. \A f \in FieldNames : \E i \in 1 .. 15 : Fields[i] = f
      <4>1. /\ Fields[1] = "cr3" /\ Fields[2] = "ds" /\ Fields[3] = "eax" /\ Fields[4] = "ebx" /\ Fields[5] = "ecx"
            /\ Fields[6] = "edx" /\ Fields[7] = "esp0" /\ Fields[8] = "esi" /\ Fields[9] = "edi" /\ Fields[10] = "ebp"
            /\ Fields[11] = "eip" /\ Fields[12] = "cs" /\ Fields[13] = "eflags" /\ Fields[14] = "esp" /\ Fields[15] = "ss3"
        BY DEF Fields
      <4>. QED  BY <4>1
    <3>3. CtxWords = 15
      BY Slots
    <3>. HIDE DEF FieldNames
    <3>. QED  BY <3>1, <3>2, <3>3
  <2>2. End(t) \in Int /\ t \in Int /\ UserEnd \in Int
    BY Apart, TrapAssumption
  <2>3. \A f \in FieldNames : Created(t)[f] \in Int
    BY <2>1, <2>2 DEF Created, ucontext, kcontext, KCODE, KDATA, UCODE, UDATA, Start, Entry, Arg, PageDir
  <2>4. Regs \subseteq FieldNames /\ Plain \cup Popped \subseteq Regs
    BY DEF Regs, Plain, Popped
  <2>5. Registers(Created(t)) \in [Regs -> Int] /\ \A f \in Regs : Registers(Created(t))[f] = Created(t)[f]
    BY <2>3, <2>4 DEF Registers
  <2>6. {"eflags", "cs", "ds", "eip", "esp", "ebx"} \subseteq Regs
    BY DEF Regs
  <2>7. CASE t \in User
    <3>1. /\ Created(t)["eflags"] = 1 /\ Created(t)["cs"] = UCODE /\ Created(t)["ds"] = UDATA
          /\ Created(t)["eip"] = Entry(t) /\ Created(t)["cr3"] = PageDir(t) /\ Created(t)["esp0"] = End(t)
      BY <2>1, <2>7 DEF Created, ucontext
    <3>. QED  BY <2>1, <2>3, <2>4, <2>5, <2>6, <2>7, <3>1 DEF Runs
  <2>8. CASE t \notin User
    <3>1. /\ Created(t)["eflags"] = 1 /\ Created(t)["cs"] = KCODE /\ Created(t)["ds"] = KDATA
          /\ Created(t)["eip"] = Start /\ Created(t)["esp"] = End(t) /\ Created(t)["ebx"] = Entry(t)
      BY <2>1, <2>8, SMTT(60) DEF Created, kcontext
    <3>. QED  BY <2>1, <2>3, <2>4, <2>5, <2>6, <2>8, <3>1 DEF Runs
  <2>. QED  BY <2>7, <2>8
\* Where it is.
<1>6. ASSUME NEW t \in Threads
      PROVE  /\ NewCtx(t) = End(t) - 15 /\ NewCtx(t) \in Int
             /\ \A k \in 0 .. 14 : words[NewCtx(t) + k] = Created(t)[Fields[k + 1]]
  <2>1. NewCtx(t) = End(t) - 15 /\ NewCtx(t) \in Int /\ StackWords \in Nat /\ StackWords >= 23 /\ End(t) \in Nat
    BY Apart, Slots, TrapAssumption, SMTT(60) DEF NewCtx
  <2>. DEFINE c == NewCtx(t)
  <2>2. \A k \in 0 .. 14 : c + k \in Region(t) /\ c + k >= c /\ (c + k) - c + 1 = k + 1
    BY <2>1 DEF Region
  <2>3. \A k \in 0 .. 14 : c + k \in Memory /\ ((c + k) \div StackWords) + 1 = t
    BY <2>2, Apart
  <2>. QED  BY <1>2, <2>1, <2>2, <2>3
<1>7. words \in [Memory -> Int]
  <2>1. ASSUME NEW a \in Memory
        PROVE  words[a] \in Int
    <3>. DEFINE t == (a \div StackWords) + 1
    <3>1. words[a] = IF a >= NewCtx(t) THEN Created(t)[Fields[a - NewCtx(t) + 1]] ELSE 0
      BY <1>2
    <3>2. CASE a >= NewCtx(t)
      <4>1. a \in Nat /\ StackWords \in Nat \ {0} /\ Cardinality(Threads) \in Nat
        BY TrapAssumption DEF Memory
      <4>2. t \in Nat \ {0} /\ a < t * StackWords /\ (t - 1) * StackWords <= a /\ t \in Int
        <5>. DEFINE q == a \div StackWords
        <5>1. q \in Nat /\ a % StackWords \in 0 .. StackWords - 1 /\ a = q * StackWords + (a % StackWords)
          BY <4>1, Divides
        <5>. HIDE DEF q
        <5>2. (q + 1) * StackWords = q * StackWords + StackWords /\ q * StackWords \in Nat
          BY <4>1, <5>1
        <5>3. q + 1 \in Nat \ {0} /\ (q + 1) - 1 = q
          BY <5>1
        <5>4. a < (q + 1) * StackWords /\ q * StackWords <= a
          BY <4>1, <5>1, <5>2
        <5>. QED  BY <5>3, <5>4 DEF q
      <4>. HIDE DEF t
      <4>3. (t - 1) * StackWords < Cardinality(Threads) * StackWords
        <5>1. a < StackWords * Cardinality(Threads) /\ StackWords * Cardinality(Threads) = Cardinality(Threads) * StackWords
          BY <4>1 DEF Memory
        <5>2. (t - 1) * StackWords \in Int /\ Cardinality(Threads) * StackWords \in Int
          BY <4>1, <4>2
        <5>. QED  BY <4>1, <4>2, <5>1, <5>2
      <4>4. t \in Threads
        <5>1. t - 1 \in Nat /\ Cardinality(Threads) \in Nat
          BY <4>1, <4>2
        <5>2. t - 1 < Cardinality(Threads)
          BY <4>1, <4>3, <5>1, Cancels
        <5>3. t \in 1 .. Cardinality(Threads)
          BY <4>2, <5>1, <5>2
        <5>. QED  BY <5>3, TrapAssumption
      <4>5. a - NewCtx(t) + 1 \in 1 .. 15
        <5>1. NewCtx(t) = End(t) - 15 /\ NewCtx(t) \in Int /\ End(t) = t * StackWords
          BY <1>6, <4>4 DEF End
        <5>. QED  BY <3>2, <4>1, <4>2, <5>1 DEF t
      <4>6. Created(t)[Fields[a - NewCtx(t) + 1]] \in Int
        BY <1>5, <4>4, <4>5
      <4>. QED  BY <3>1, <3>2, <4>6 DEF t
    <3>. QED  BY <3>1, <3>2
  <2>. QED  BY <1>2, <2>1
<1>8. \A t \in Threads : StackKept(t)
  <2>. TAKE t \in Threads
  <2>1. own[t].reg = Registers(Created(t)) /\ own[t].stack = <<>> /\ End(t) \in Int /\ Runs(t, own[t].reg)
    BY <1>3, <1>5, Apart, SMTT(60)
  <2>2. CASE InUser(own[t].reg)
    BY <2>1, <2>2 DEF StackKept, StackOf
  <2>3. CASE ~InUser(own[t].reg)
    <3>1. own[t].reg.esp = End(t)
      BY <1>5, <2>1, <2>3, Kinds
    <3>2. 1 .. End(t) - own[t].reg.esp = {}
      BY <2>1, <3>1
    <3>. QED  BY <2>1, <2>3, <3>2 DEF StackKept, StackOf
  <2>. QED  BY <2>2, <2>3
<1>9. \A t \in Threads : ContextAt(t, ctxOf[t])
  <2>. TAKE t \in Threads
  <2>1. /\ ctxOf[t] = NewCtx(t) /\ own[t].reg = Registers(Created(t)) /\ StackKept(t)
        /\ NewCtx(t) = End(t) - 15 /\ End(t) \in Nat /\ StackWords \in Nat /\ StackWords >= 23
    BY <1>3, <1>6, <1>8, Apart, TrapAssumption
  <2>2. Lies(t, NewCtx(t))
    <3>1. t \in Kernel => own[t].reg.esp = End(t)
      BY <1>5, <2>1, TrapAssumption
    <3>. QED  BY <2>1, <3>1, Slots DEF Lies
  <2>3. \A f \in Plain \cup Popped \cup {"cr3", "esp0"} : Slot(f) \in 0 .. 14 /\ Fields[Slot(f) + 1] = f
    BY Slots DEF Plain, Popped, Fields
  <2>4. \A f \in Plain \cup Popped \cup {"cr3", "esp0"} : words[NewCtx(t) + Slot(f)] = Created(t)[f]
    BY <1>6, <2>3
  <2>5. \A f \in Plain \cup Popped : words[NewCtx(t) + Slot(f)] = own[t].reg[f]
    BY <1>5, <2>1, <2>4
  <2>6. t \in User => words[NewCtx(t) + Slot("cr3")] = PageDir(t) /\ words[NewCtx(t) + Slot("esp0")] = End(t)
    BY <1>5, <2>4
  <2>. QED  BY <2>1, <2>2, <2>5, <2>6 DEF ContextAt
<1>10. \A t \in Threads : Runs(t, own[t].reg) /\ own[t].reg \in [Regs -> Int]
  BY <1>3, <1>5
<1>11. reg = own[thread].reg /\ thread \notin User
  <2>1. 1 \notin User
    BY <1>1, TrapAssumption
  <2>. QED  BY <1>1, <1>3, <2>1 DEF TrapInit, Created
<1>12. ContextsIntact
  BY <1>1, <1>8, <1>11 DEF ContextsIntact, StackKept
<1>13. TrapTypeOK
  BY <1>1, <1>4, <1>7, <1>10, <1>11 DEF TrapTypeOK
<1>. QED  BY <1>1, <1>9, <1>10, <1>11, <1>12, <1>13 DEF TrapInv, UserHere

(* In every behaviour a thread that runs has the registers and the stack   *)
(* it was interrupted with, and a user thread its page directory and its   *)
(* kernel stack (cte.c:19-106, trap32.S:34-92), whatever the handler       *)
(* switches between, however many threads there are and for every stack    *)
(* with room for a frame and what a thread pushes.                         *)
THEOREM ContextsIntactHolds ==
    TrapSpec => []ContextsIntact
<1>1. TrapInit => TrapInv
  BY TrapInitially
<1>2. TrapInv /\ [TrapNext]_trapVars => TrapInv'
  <2>. SUFFICES ASSUME TrapInv, [TrapNext]_trapVars
                PROVE  TrapInv'
    OBVIOUS
  <2>1. CASE kcontext_start
    BY <2>1, RunKeeps
  <2>2. CASE PushWord
    BY <2>2, RunKeeps
  <2>3. CASE PopWord
    BY <2>3, RunKeeps
  <2>4. CASE Compute("edi")
    BY <2>4, RunKeeps
  <2>5. CASE trap(32)
    BY <2>5, TrapKeeps
  <2>6. ASSUME NEW n \in Threads, irq_handle(n)
        PROVE  TrapInv'
    BY <2>6, HandleKeeps
  <2>7. CASE iret
    BY <2>7, IretKeeps
  <2>8. CASE UNCHANGED trapVars
    <3>1. /\ words' = words /\ reg' = reg /\ esp0' = esp0 /\ step' = step /\ tf' = tf
          /\ thread' = thread /\ ctxOf' = ctxOf /\ own' = own
      BY <2>8 DEF trapVars
    <3>2. TrapTypeOK' = TrapTypeOK
      BY <3>1 DEF TrapTypeOK, Memory
    <3>3. \A t \in Threads : Runs(t, own[t].reg)' = Runs(t, own[t].reg)
      BY <3>1 DEF Runs
    <3>4. \A t : StackKept(t)' = StackKept(t) /\ StackOf(words, reg, t)' = StackOf(words, reg, t)
      BY <3>1 DEF StackKept, StackOf, InUser
    <3>5. \A t, a : ContextAt(t, a)' = ContextAt(t, a) /\ Lies(t, a)' = Lies(t, a)
      BY <3>1, <3>4 DEF ContextAt, Lies
    <3>6. \A t \in Threads : ContextAt(t, ctxOf[t])' = ContextAt(t, ctxOf[t])
      BY <3>1, <3>4 DEF ContextAt, Lies
    <3>7. Trapped' = Trapped
      BY <3>1, <3>4 DEF Trapped, Lies
    <3>8. ContextsIntact' = ContextsIntact
      BY <3>1, <3>4 DEF ContextsIntact, StackOf, InUser
    <3>9. UserHere' = UserHere /\ ContextAt(thread, tf)' = ContextAt(thread, tf)
      BY <3>1, <3>4 DEF UserHere, ContextAt, Lies
    <3>. QED  BY <3>1, <3>2, <3>3, <3>6, <3>7, <3>8, <3>9 DEF TrapInv
  <2>. QED  BY <2>1, <2>2, <2>3, <2>4, <2>5, <2>6, <2>7, <2>8 DEF TrapNext
<1>3. TrapInv => ContextsIntact
  BY DEF TrapInv
<1>. QED  BY <1>1, <1>2, <1>3, PTL DEF TrapSpec

-----------------------------------------------------------------------------
(* SpacesSound of X86Vme.                                                  *)
(*                                                                         *)
(* The argument is about the table on the way to an address: tab[r][va][n] *)
(* is the one at level n, under the first n - 1 indices of va, of the root *)
(* r, or none.  What is in memory follows from it entry by entry.          *)

Root == AddrSpace \cup {KernelAs}
Node == PageFrame \cup Root
Level == 0 .. ptlevels
Address == {Identity(va) : va \in KernelVA}
PteType == [p : BOOLEAN, u : BOOLEAN, base : PageFrame \cup UserFrame \cup Address \cup {NoFrame}]

\* The same table at level n.
Same(va, vb, n) == \A k \in 1 .. n - 1 : va[k] = vb[k]

\* Below the first table the kernel has kernel addresses, the others have user
\* addresses.
OwnSide(r, va) == r = KernelAs <=> va \in KernelVA

\* The tables of the roots R form trees, apart from one another, of the pages
\* taken from av.
Shape(tab, av, R) ==
    /\ av \subseteq PageFrame /\ R \subseteq Root /\ KernelAs \in R
    /\ tab \in [Root -> [VA -> [Level -> Node \cup {NoFrame}]]]
    /\ \A r \in Root, va \in VA :
         /\ tab[r][va][0] = IF r \in R THEN r ELSE NoFrame
         /\ \A n \in 1 .. ptlevels :
              /\ tab[r][va][n] \in PageFrame \cup {NoFrame}
              /\ tab[r][va][n] # NoFrame => tab[r][va][n - 1] # NoFrame
              /\ n >= 2 /\ tab[r][va][n] # NoFrame => OwnSide(r, va)
    /\ \A r \in Root, va, vb \in VA, n \in Level : Same(va, vb, n) => tab[r][va][n] = tab[r][vb][n]
    /\ \A r, q \in Root, va, vb \in VA, n, k \in Level :
         tab[r][va][n] = tab[q][vb][k] /\ tab[r][va][n] # NoFrame => r = q /\ n = k /\ Same(va, vb, n)
    /\ \A f \in PageFrame : f \notin av <=> \E r \in Root, va \in VA, n \in 1 .. ptlevels : tab[r][va][n] = f

\* The entry for va in its table at level n.
EntryOf(m, tab, r, va, n) == m[tab[r][va][n]][indexof(va, n)]

\* Memory holds these trees; a first table shares the kernel's entries.
InMemory(m, tab, R) ==
    /\ m \in [Node -> [PtIndex -> PteType]]
    /\ \A r \in R, va \in VA, n \in 0 .. ptlevels - 1 :
         tab[r][va][n] # NoFrame /\ (n = 1 => r = KernelAs \/ OwnSide(r, va)) =>
           EntryOf(m, tab, r, va, n) =
             IF tab[r][va][n + 1] = NoFrame THEN Absent ELSE Pte(tab[r][va][n + 1], r # KernelAs)
    /\ \A s \in R \ {KernelAs}, va \in VA :
         /\ tab[s][va][1] # NoFrame /\ tab[KernelAs][va][1] # NoFrame
         /\ va \in KernelVA => EntryOf(m, tab, s, va, 1) = EntryOf(m, tab, KernelAs, va, 1)
         /\ va \notin KernelVA /\ tab[s][va][ptlevels] # NoFrame =>
              EntryOf(m, tab, s, va, ptlevels) \in {Absent} \cup {Pte(pa, TRUE) : pa \in UserFrame}
    /\ \A r \in Root, j \in PtIndex \ {Pointer} : m[r][j] = Absent

Trees(m, av, tab, R) == Shape(tab, av, R) /\ InMemory(m, tab, R)

\* The kernel addresses D are mapped.
Mapped(m, tab, D) ==
    \A va \in D : /\ tab[KernelAs][va][ptlevels] # NoFrame
                  /\ EntryOf(m, tab, KernelAs, va, ptlevels) = Pte(Identity(va), FALSE)

\* Memory m, with the pages av left, holds the tables of the spaces lv.
Held(m, av, tab, lv) ==
    lv \subseteq AddrSpace /\ Trees(m, av, tab, lv \cup {KernelAs}) /\ Mapped(m, tab, KernelVA)

Holds(tab) == Held(tables, avail, tab, live) /\ \A va \in VA : tab[KernelAs][va][1] = kpt

VmeInv ==
    /\ vmePanicked \in BOOLEAN /\ live \subseteq AddrSpace
    /\ IF kpt = NoFrame
       THEN live = {} /\ avail = PageFrame /\ tables = [x \in Node |-> Zeroed]
       ELSE \E tab : Holds(tab)

LEMMA VmeBasics ==
    /\ ptlevels \in Nat /\ ptlevels >= 2 /\ Pointer \in PtIndex
    /\ \A va \in VA, n \in 1 .. ptlevels : va[n] \in PtIndex
    /\ \A va \in VA, n \in 0 .. ptlevels : indexof(va, n) \in PtIndex
    /\ \A va \in VA, n \in 1 .. ptlevels, i \in PtIndex :
         [va EXCEPT ![n] = i] \in VA /\ Same(va, [va EXCEPT ![n] = i], n)
    /\ PageFrame \cap Root = {} /\ NoFrame \notin Node /\ KernelAs \notin AddrSpace
    /\ \A va, vb \in VA : va[1] = vb[1] => (va \in KernelVA <=> vb \in KernelVA)
<1>1. ptlevels \in Nat /\ ptlevels >= 2 /\ PtIndex \subseteq Nat /\ PtIndex # {}
  BY VmeAssumption
<1>2. Pointer \in PtIndex
  <2>1. PICK i \in PtIndex : \A j \in PtIndex : ~(j < i)
    BY <1>1, Smallest
  <2>2. \A j \in PtIndex : i <= j
    BY <1>1, <2>1
  <2>. QED  BY <2>2 DEF Pointer
<1>3. \A va \in VA, n \in 1 .. ptlevels : va[n] \in PtIndex
  BY DEF VA
<1>4. \A va \in VA, n \in 0 .. ptlevels : indexof(va, n) \in PtIndex
  BY <1>1, <1>2, <1>3 DEF indexof
<1>5. ASSUME NEW va \in VA, NEW n \in 1 .. ptlevels, NEW i \in PtIndex
      PROVE  [va EXCEPT ![n] = i] \in VA /\ Same(va, [va EXCEPT ![n] = i], n)
  BY <1>1 DEF VA, Same
<1>6. PageFrame \cap Root = {} /\ NoFrame \notin Node /\ KernelAs \notin AddrSpace
  BY VmeAssumption DEF Root, Node, NoFrame
<1>7. \A va, vb \in VA : va[1] = vb[1] => (va \in KernelVA <=> vb \in KernelVA)
  BY DEF KernelVA
<1>. QED  BY <1>1, <1>2, <1>3, <1>4, <1>5, <1>6, <1>7

(* Paths that agree as far as level n.                                     *)
LEMMA SamePaths ==
    ASSUME NEW va \in VA, NEW vb \in VA, NEW n \in 0 .. ptlevels
    PROVE  /\ Same(va, va, n) /\ (Same(va, vb, n) <=> Same(vb, va, n))
           /\ \A vc \in VA : Same(va, vb, n) /\ Same(va, vc, n) => Same(vb, vc, n)
           /\ n >= 2 /\ Same(va, vb, n) => (va \in KernelVA <=> vb \in KernelVA)
           /\ n < ptlevels => (Same(va, vb, n + 1) <=> Same(va, vb, n) /\ indexof(va, n) = indexof(vb, n))
           /\ Same(va, vb, ptlevels) /\ va[ptlevels] = vb[ptlevels] => va = vb
<1>1. ptlevels \in Nat /\ ptlevels >= 2
  BY VmeBasics
<1>2. Same(va, va, n) /\ (Same(va, vb, n) <=> Same(vb, va, n))
      /\ \A vc \in VA : Same(va, vb, n) /\ Same(va, vc, n) => Same(vb, vc, n)
  BY DEF Same
<1>3. n >= 2 /\ Same(va, vb, n) => (va \in KernelVA <=> vb \in KernelVA)
  <2>1. n >= 2 /\ Same(va, vb, n) => va[1] = vb[1]
    BY <1>1 DEF Same
  <2>. QED  BY <2>1, VmeBasics
<1>4. n < ptlevels => (Same(va, vb, n + 1) <=> Same(va, vb, n) /\ indexof(va, n) = indexof(vb, n))
  <2>1. CASE n = 0
    BY <1>1, <2>1 DEF Same, indexof
  <2>2. CASE n # 0
    <3>1. n + 1 - 1 = n /\ 1 .. n = (1 .. n - 1) \cup {n}
      BY <2>2
    <3>. QED  BY <2>2, <3>1 DEF Same, indexof
  <2>. QED  BY <2>1, <2>2
<1>5. Same(va, vb, ptlevels) /\ va[ptlevels] = vb[ptlevels] => va = vb
  <2>1. 1 .. ptlevels = (1 .. ptlevels - 1) \cup {ptlevels}
    BY <1>1
  <2>. QED  BY <2>1 DEF Same, VA
<1>. QED  BY <1>2, <1>3, <1>4, <1>5

(* The lowest free page is free.                                           *)
LEMMA FreePage ==
    ASSUME NEW av, av \subseteq PageFrame, av # {}
    PROVE  Min(av) \in av
<1>1. PICK x \in av : \A y \in av : ~(y < x)
  <2>1. av \subseteq Nat
    BY VmeAssumption
  <2>. QED  BY <2>1, Smallest
<1>2. \A y \in av : x <= y
  BY <1>1, VmeAssumption
<1>. QED  BY <1>2 DEF Min

-----------------------------------------------------------------------------
(* A table is added.                                                       *)

\* Page pg becomes the table at level n on the way of va from r.
Planted(tab, r, va, n, pg) ==
    [q \in Root |-> [vb \in VA |-> [k \in Level |->
        IF q = r /\ k = n /\ Same(va, vb, n) THEN pg ELSE tab[q][vb][k]]]]

GrownMem(m, t, i, pg, u) == [m EXCEPT ![pg] = Zeroed, ![t][i] = Pte(pg, u)]

\* There is a place for a table below the one at level n.
TablePlace(tab, R, r, va, n) ==
    /\ r \in R /\ va \in VA /\ n \in 0 .. ptlevels - 1 /\ OwnSide(r, va)
    /\ r = KernelAs => R = {KernelAs}
    /\ tab[r][va][n] # NoFrame /\ tab[r][va][n + 1] = NoFrame

\* No root has a table in page pg; every table of tab is in tab2.
NotIn(tab, pg) == \A q \in Root, vb \in VA, k \in Level : tab[q][vb][k] # pg
TablesKept(tab, tab2) ==
    \A q \in Root, vb \in VA, k \in Level : tab[q][vb][k] # NoFrame => tab2[q][vb][k] = tab[q][vb][k]

LEMMA PlantedShape ==
    ASSUME NEW tab, NEW av, NEW R, NEW r, NEW va, NEW n, NEW pg \in av,
           Shape(tab, av, R), TablePlace(tab, R, r, va, n)
    PROVE  /\ Shape(Planted(tab, r, va, n + 1, pg), av \ {pg}, R)
           /\ NotIn(tab, pg) /\ TablesKept(tab, Planted(tab, r, va, n + 1, pg))
<1>. DEFINE tab2 == Planted(tab, r, va, n + 1, pg)
<1>1. /\ r \in Root /\ va \in VA /\ n \in 0 .. ptlevels - 1 /\ n + 1 \in 1 .. ptlevels /\ n \in Level
      /\ n + 1 \in Level /\ OwnSide(r, va) /\ tab[r][va][n] # NoFrame /\ tab[r][va][n + 1] = NoFrame
      /\ ptlevels \in Nat /\ ptlevels >= 2
  BY VmeBasics DEF TablePlace, Shape, Level
<1>2. /\ pg \in PageFrame /\ pg # NoFrame /\ pg \notin Root /\ av \subseteq PageFrame
      /\ R \subseteq Root /\ KernelAs \in R
  BY VmeBasics DEF Shape, Node
<1>3. \A q \in Root, vb \in VA, k \in Level : tab[q][vb][k] # pg
  <2>. SUFFICES ASSUME NEW q \in Root, NEW vb \in VA, NEW k \in Level PROVE tab[q][vb][k] # pg
    OBVIOUS
  <2>1. CASE k = 0
    BY <1>2, <2>1, VmeBasics DEF Shape
  <2>2. CASE k # 0
    <3>1. k \in 1 .. ptlevels
      BY <2>2 DEF Level
    <3>. QED  BY <1>2, <3>1 DEF Shape
  <2>. QED  BY <2>1, <2>2
<1>4. \A q \in Root, vb \in VA, k \in Level :
        tab2[q][vb][k] = IF q = r /\ k = n + 1 /\ Same(va, vb, n + 1) THEN pg ELSE tab[q][vb][k]
  BY DEF Planted
<1>5. \A vb \in VA, k \in Level : Same(va, vb, k) => tab[r][vb][k] = tab[r][va][k]
  BY <1>1 DEF Shape
<1>6. \A q \in Root, vb \in VA, k \in Level : tab[q][vb][k] # NoFrame => tab2[q][vb][k] = tab[q][vb][k]
  BY <1>1, <1>4, <1>5
<1>7. Shape(tab2, av \ {pg}, R)
  <2>1. tab2 \in [Root -> [VA -> [Level -> Node \cup {NoFrame}]]]
    <3>1. pg \in Node
      BY <1>2 DEF Node
    <3>2. \A q \in Root, vb \in VA, k \in Level : tab[q][vb][k] \in Node \cup {NoFrame}
      BY DEF Shape
    <3>. QED  BY <3>1, <3>2 DEF Planted
  <2>2. ASSUME NEW q \in Root, NEW vb \in VA
        PROVE  /\ tab2[q][vb][0] = IF q \in R THEN q ELSE NoFrame
               /\ \A k \in 1 .. ptlevels :
                    /\ tab2[q][vb][k] \in PageFrame \cup {NoFrame}
                    /\ tab2[q][vb][k] # NoFrame => tab2[q][vb][k - 1] # NoFrame
                    /\ k >= 2 /\ tab2[q][vb][k] # NoFrame => OwnSide(q, vb)
    <3>1. tab2[q][vb][0] = tab[q][vb][0]
      BY <1>1, <1>4 DEF Level
    <3>2. ASSUME NEW k \in 1 .. ptlevels
          PROVE  /\ tab2[q][vb][k] \in PageFrame \cup {NoFrame}
                 /\ tab2[q][vb][k] # NoFrame => tab2[q][vb][k - 1] # NoFrame
                 /\ k >= 2 /\ tab2[q][vb][k] # NoFrame => OwnSide(q, vb)
      <4>1. k \in Level /\ k - 1 \in Level
        BY <1>1 DEF Level
      <4>2. CASE q = r /\ k = n + 1 /\ Same(va, vb, n + 1)
        <5>1. tab2[q][vb][k] = pg /\ k - 1 = n
          BY <1>1, <1>4, <4>1, <4>2
        <5>2. Same(va, vb, n) /\ (n + 1 >= 2 => (va \in KernelVA <=> vb \in KernelVA))
          BY <1>1, <4>2, SamePaths
        <5>3. tab[q][vb][n] # NoFrame
          BY <1>1, <1>5, <4>2, <5>2
        <5>. QED  BY <1>1, <1>2, <1>6, <4>2, <5>1, <5>2, <5>3 DEF OwnSide
      <4>3. CASE ~(q = r /\ k = n + 1 /\ Same(va, vb, n + 1))
        <5>1. tab2[q][vb][k] = tab[q][vb][k]
          BY <1>4, <4>1, <4>3
        <5>. QED  BY <1>6, <4>1, <5>1 DEF Shape
      <4>. QED  BY <4>2, <4>3
    <3>. QED  BY <3>1, <3>2 DEF Shape
  <2>3. ASSUME NEW q \in Root, NEW vb \in VA, NEW vc \in VA, NEW k \in Level, Same(vb, vc, k)
        PROVE  tab2[q][vb][k] = tab2[q][vc][k]
    <3>1. tab[q][vb][k] = tab[q][vc][k]
      BY <2>3 DEF Shape
    <3>2. k = n + 1 => (Same(va, vb, n + 1) <=> Same(va, vc, n + 1))
      BY <1>1, <2>3, SamePaths
    <3>. QED  BY <1>4, <3>1, <3>2
  <2>4. ASSUME NEW p \in Root, NEW q \in Root, NEW vb \in VA, NEW vc \in VA, NEW k \in Level, NEW l \in Level,
               tab2[p][vb][k] = tab2[q][vc][l], tab2[p][vb][k] # NoFrame
        PROVE  p = q /\ k = l /\ Same(vb, vc, k)
    <3>1. CASE tab2[p][vb][k] = pg
      <4>1. /\ p = r /\ k = n + 1 /\ Same(va, vb, n + 1)
            /\ q = r /\ l = n + 1 /\ Same(va, vc, n + 1)
        BY <1>3, <1>4, <2>4, <3>1
      <4>. QED  BY <1>1, <4>1, SamePaths
    <3>2. CASE tab2[p][vb][k] # pg
      <4>1. tab2[p][vb][k] = tab[p][vb][k] /\ tab2[q][vc][l] = tab[q][vc][l]
        BY <1>4, <2>4, <3>2
      <4>. QED  BY <2>4, <4>1 DEF Shape
    <3>. QED  BY <3>1, <3>2
  <2>5. ASSUME NEW f \in PageFrame
        PROVE  f \notin av \ {pg} <=> \E q \in Root, vb \in VA, k \in 1 .. ptlevels : tab2[q][vb][k] = f
    <3>1. CASE f = pg
      <4>1. tab2[r][va][n + 1] = pg
        BY <1>1, <1>4, SamePaths
      <4>. QED  BY <1>1, <3>1, <4>1
    <3>2. CASE f # pg
      <4>1. f # NoFrame
        BY VmeBasics DEF Node
      <4>2. \A q \in Root, vb \in VA, k \in 1 .. ptlevels : tab2[q][vb][k] = f <=> tab[q][vb][k] = f
        <5>1. 1 .. ptlevels \subseteq Level
          BY DEF Level
        <5>. QED  BY <1>4, <1>6, <3>2, <4>1, <5>1
      <4>3. f \notin av <=> \E q \in Root, vb \in VA, k \in 1 .. ptlevels : tab[q][vb][k] = f
        BY DEF Shape
      <4>. QED  BY <3>2, <4>2, <4>3
    <3>. QED  BY <3>1, <3>2
  <2>6. av \ {pg} \subseteq PageFrame
    BY <1>2
  <2>. HIDE DEF tab2
  <2>. QED  BY <1>2, <2>1, <2>2, <2>3, <2>4, <2>5, <2>6 DEF Shape
<1>. QED  BY <1>3, <1>6, <1>7 DEF NotIn, TablesKept

\* The entry of the last level, for va in space s.
LeafOf(m, tab, s, va) ==
    IF tab[s][va][ptlevels] = NoFrame THEN Absent ELSE EntryOf(m, tab, s, va, ptlevels)

\* What processors find, and the tables there are, in both memories alike.
Keeps(m, tab, m2, tab2, R) ==
    /\ \A s \in R \ {KernelAs}, vb \in VA : vb \notin KernelVA => LeafOf(m2, tab2, s, vb) = LeafOf(m, tab, s, vb)
    /\ \A vb \in KernelVA : Mapped(m, tab, {vb}) => Mapped(m2, tab2, {vb})
    /\ TablesKept(tab, tab2)

LEMMA EntryTypes ==
    /\ Absent \in PteType /\ Zeroed \in [PtIndex -> PteType]
    /\ \A x \in PageFrame \cup UserFrame \cup Address, u \in BOOLEAN : Pte(x, u) \in PteType
    /\ \A x, u : Pte(x, u).p /\ Pte(x, u).u = u /\ Pte(x, u).base = x /\ Pte(x, u) # Absent
    /\ ~Absent.p /\ ~Absent.u /\ Absent.base = NoFrame
    /\ \A i \in PtIndex : Zeroed[i] = Absent
  BY DEF PteType, Absent, Zeroed, Pte

LEMMA Grown ==
    ASSUME NEW m \in [Node -> [PtIndex -> PteType]], NEW t \in Node, NEW i \in PtIndex,
           NEW pg \in PageFrame, NEW u \in BOOLEAN, t # pg
    PROVE  /\ GrownMem(m, t, i, pg, u) \in [Node -> [PtIndex -> PteType]]
           /\ \A x \in Node, j \in PtIndex :
                GrownMem(m, t, i, pg, u)[x][j] =
                  IF x = t /\ j = i THEN Pte(pg, u) ELSE IF x = pg THEN Absent ELSE m[x][j]
<1>1. pg \in Node /\ Pte(pg, u) \in PteType /\ Zeroed \in [PtIndex -> PteType]
  BY EntryTypes DEF Node
<1>2. [m EXCEPT ![pg] = Zeroed] \in [Node -> [PtIndex -> PteType]]
  BY <1>1
<1>3. GrownMem(m, t, i, pg, u) = [[m EXCEPT ![pg] = Zeroed] EXCEPT ![t][i] = Pte(pg, u)]
  BY DEF GrownMem
<1>4. GrownMem(m, t, i, pg, u) \in [Node -> [PtIndex -> PteType]]
  BY <1>1, <1>2, <1>3
<1>5. ASSUME NEW x \in Node, NEW j \in PtIndex
      PROVE  GrownMem(m, t, i, pg, u)[x][j] =
               IF x = t /\ j = i THEN Pte(pg, u) ELSE IF x = pg THEN Absent ELSE m[x][j]
  <2>1. Zeroed[j] = Absent
    BY EntryTypes
  <2>. QED  BY <1>1, <1>2, <1>3, <2>1
<1>. QED  BY <1>4, <1>5

\* The table below t, on the way of va at level n, is pg.
TablePlaced(m, tab, r, va, n, t, pg) == tab[r][va][n + 1] = pg /\ m[t][indexof(va, n)].base = pg

LEMMA PlantedLinked ==
    ASSUME NEW m, NEW tab, NEW av, NEW R, NEW r, NEW va, NEW n, NEW pg \in av,
           Trees(m, av, tab, R), TablePlace(tab, R, r, va, n)
    PROVE  LET m2 == GrownMem(m, tab[r][va][n], indexof(va, n), pg, r # KernelAs)
               tab2 == Planted(tab, r, va, n + 1, pg)
           IN  /\ Trees(m2, av \ {pg}, tab2, R) /\ Keeps(m, tab, m2, tab2, R)
               /\ TablePlaced(m2, tab2, r, va, n, tab[r][va][n], pg)
<1>. DEFINE t == tab[r][va][n]
            i == indexof(va, n)
            m2 == GrownMem(m, t, i, pg, r # KernelAs)
            tab2 == Planted(tab, r, va, n + 1, pg)
<1>1. /\ r \in Root /\ r \in R /\ va \in VA /\ n \in 0 .. ptlevels - 1 /\ n + 1 \in 1 .. ptlevels
      /\ n \in Level /\ n + 1 \in Level /\ OwnSide(r, va) /\ t # NoFrame /\ tab[r][va][n + 1] = NoFrame
      /\ ptlevels \in Nat /\ ptlevels >= 2 /\ (r = KernelAs => R = {KernelAs}) /\ R \subseteq Root
  BY VmeBasics DEF TablePlace, Trees, Shape, Level
<1>2. /\ pg \in PageFrame /\ pg # NoFrame /\ pg \notin Root
  BY VmeBasics DEF Trees, Shape, Node
<1>3. /\ Shape(tab, av, R) /\ InMemory(m, tab, R) /\ Shape(tab2, av \ {pg}, R)
      /\ \A q \in Root, vb \in VA, k \in Level : tab[q][vb][k] # pg
      /\ \A q \in Root, vb \in VA, k \in Level : tab[q][vb][k] # NoFrame => tab2[q][vb][k] = tab[q][vb][k]
  <2>1. Shape(tab, av, R) /\ InMemory(m, tab, R)
    BY DEF Trees
  <2>2. Shape(tab2, av \ {pg}, R) /\ NotIn(tab, pg) /\ TablesKept(tab, tab2)
    BY <2>1, PlantedShape
  <2>. QED  BY <2>1, <2>2 DEF NotIn, TablesKept
<1>4. \A q \in Root, vb \in VA, k \in Level :
        tab2[q][vb][k] = IF q = r /\ k = n + 1 /\ Same(va, vb, n + 1) THEN pg ELSE tab[q][vb][k]
  BY DEF Planted
<1>5. \A q \in Root, vb \in VA, k \in Level : tab[q][vb][k] \in Node \cup {NoFrame}
  BY <1>3 DEF Shape
<1>6. t \in Node /\ i \in PtIndex /\ t # pg /\ m \in [Node -> [PtIndex -> PteType]]
  BY <1>1, <1>3, <1>5, VmeBasics DEF InMemory
<1>7. /\ m2 \in [Node -> [PtIndex -> PteType]]
      /\ \A x \in Node, j \in PtIndex :
           m2[x][j] = IF x = t /\ j = i THEN Pte(pg, r # KernelAs) ELSE IF x = pg THEN Absent ELSE m[x][j]
  <2>. DEFINE u == r # KernelAs
  <2>1. u \in BOOLEAN
    OBVIOUS
  <2>. HIDE DEF u
  <2>2. /\ GrownMem(m, t, i, pg, u) \in [Node -> [PtIndex -> PteType]]
        /\ \A x \in Node, j \in PtIndex :
             GrownMem(m, t, i, pg, u)[x][j] =
               IF x = t /\ j = i THEN Pte(pg, u) ELSE IF x = pg THEN Absent ELSE m[x][j]
    BY <1>2, <1>6, <2>1, Grown
  <2>. QED  BY <2>2 DEF u
<1>8. \A q \in Root, vb \in VA, k \in Level :
        tab[q][vb][k] = t => q = r /\ k = n /\ Same(va, vb, n)
  <2>1. \A q \in Root, vb \in VA, k \in Level : t = tab[q][vb][k] => r = q /\ n = k /\ Same(va, vb, n)
    BY <1>1, <1>3 DEF Shape
  <2>. QED  BY <2>1
<1>9. \A vb \in VA, k \in Level : indexof(vb, k) \in PtIndex
  BY VmeBasics DEF Level
\* The entries of the tables there were, but for the one.
<1>10. ASSUME NEW q \in Root, NEW vb \in VA, NEW k \in Level, tab[q][vb][k] # NoFrame,
              ~(q = r /\ k = n /\ Same(va, vb, n) /\ indexof(vb, n) = i)
       PROVE  tab2[q][vb][k] = tab[q][vb][k] /\ EntryOf(m2, tab2, q, vb, k) = EntryOf(m, tab, q, vb, k)
  <2>1. tab2[q][vb][k] = tab[q][vb][k] /\ tab[q][vb][k] # pg /\ tab[q][vb][k] \in Node
    BY <1>3, <1>5, <1>10
  <2>2. ~(tab[q][vb][k] = t /\ indexof(vb, k) = i)
    BY <1>8, <1>10
  <2>. QED  BY <1>7, <1>9, <2>1, <2>2 DEF EntryOf
<1>11. \A q \in Root, vb \in VA, k \in Level : tab2[q][vb][k] = pg => EntryOf(m2, tab2, q, vb, k) = Absent
  BY <1>2, <1>6, <1>7, <1>9 DEF EntryOf, Node
<1>12. ASSUME NEW q \in R, NEW vb \in VA, NEW k \in 0 .. ptlevels - 1,
              tab2[q][vb][k] # NoFrame, k = 1 => q = KernelAs \/ OwnSide(q, vb)
       PROVE  EntryOf(m2, tab2, q, vb, k) =
                IF tab2[q][vb][k + 1] = NoFrame THEN Absent ELSE Pte(tab2[q][vb][k + 1], q # KernelAs)
  <2>1. q \in Root /\ k \in Level /\ k + 1 \in Level /\ k + 1 \in 1 .. ptlevels
    BY <1>1 DEF Level
  <2>2. CASE q = r /\ k = n + 1 /\ Same(va, vb, n + 1)
    <3>1. tab2[q][vb][k] = pg /\ tab2[q][vb][k + 1] = tab[q][vb][k + 1]
      BY <1>1, <1>4, <2>1, <2>2
    <3>2. tab[q][vb][k] = NoFrame
      <4>1. tab[r][va][n + 1] = tab[r][vb][n + 1]
        BY <1>1, <1>3, <2>2 DEF Shape
      <4>. QED  BY <1>1, <2>2, <4>1
    <3>3. tab[q][vb][k + 1] = NoFrame
      <4>1. tab[q][vb][k + 1] # NoFrame => tab[q][vb][k + 1 - 1] # NoFrame
        BY <1>3, <2>1 DEF Shape
      <4>2. k + 1 - 1 = k
        BY <2>1 DEF Level
      <4>. QED  BY <3>2, <4>1, <4>2
    <3>. QED  BY <1>11, <2>1, <3>1, <3>3
  <2>3. CASE ~(q = r /\ k = n + 1 /\ Same(va, vb, n + 1))
    <3>1. tab[q][vb][k] # NoFrame /\ tab2[q][vb][k] = tab[q][vb][k]
      BY <1>4, <2>1, <2>3, <1>12
    <3>2. EntryOf(m, tab, q, vb, k) =
            IF tab[q][vb][k + 1] = NoFrame THEN Absent ELSE Pte(tab[q][vb][k + 1], q # KernelAs)
      BY <1>3, <1>12, <3>1 DEF InMemory
    <3>3. CASE q = r /\ k = n /\ Same(va, vb, n) /\ indexof(vb, n) = i
      <4>1. Same(va, vb, n + 1)
        BY <1>1, <3>3, SamePaths
      <4>2. tab2[q][vb][k + 1] = pg
        BY <1>1, <1>4, <3>3, <4>1
      <4>3. tab[q][vb][k] = t
        <5>1. tab[r][va][n] = tab[r][vb][n]
          BY <1>1, <1>3, <3>3 DEF Shape
        <5>. QED  BY <3>3, <5>1
      <4>4. EntryOf(m2, tab2, q, vb, k) = Pte(pg, r # KernelAs)
        BY <1>6, <1>7, <3>1, <3>3, <4>3 DEF EntryOf
      <4>. QED  BY <1>2, <3>3, <4>2, <4>4
    <3>4. CASE ~(q = r /\ k = n /\ Same(va, vb, n) /\ indexof(vb, n) = i)
      <4>1. EntryOf(m2, tab2, q, vb, k) = EntryOf(m, tab, q, vb, k)
        BY <1>10, <2>1, <3>1, <3>4
      <4>2. ~(q = r /\ k + 1 = n + 1 /\ Same(va, vb, n + 1))
        <5>1. Same(va, vb, n + 1) => Same(va, vb, n) /\ indexof(va, n) = indexof(vb, n)
          BY <1>1, SamePaths
        <5>. QED  BY <1>1, <2>1, <3>4, <5>1 DEF Level
      <4>3. tab2[q][vb][k + 1] = tab[q][vb][k + 1]
        BY <1>4, <2>1, <4>2
      <4>. QED  BY <3>2, <4>1, <4>3
    <3>. QED  BY <3>3, <3>4
  <2>. QED  BY <2>2, <2>3
<1>13. ASSUME NEW s \in R \ {KernelAs}, NEW vb \in VA
       PROVE  /\ tab2[s][vb][1] = tab[s][vb][1] /\ tab2[s][vb][1] # NoFrame
              /\ tab2[KernelAs][vb][1] = tab[KernelAs][vb][1] /\ tab2[KernelAs][vb][1] # NoFrame
              /\ vb \in KernelVA => EntryOf(m2, tab2, s, vb, 1) = EntryOf(m2, tab2, KernelAs, vb, 1)
  <2>1. s \in Root /\ KernelAs \in Root /\ 1 \in Level /\ r # KernelAs
    BY <1>1 DEF Root, Level
  <2>2. tab[s][vb][1] # NoFrame /\ tab[KernelAs][vb][1] # NoFrame
    BY <1>3 DEF InMemory
  <2>3. tab2[s][vb][1] = tab[s][vb][1] /\ tab2[KernelAs][vb][1] = tab[KernelAs][vb][1]
    BY <1>3, <2>1, <2>2
  <2>4. ASSUME vb \in KernelVA PROVE EntryOf(m2, tab2, s, vb, 1) = EntryOf(m2, tab2, KernelAs, vb, 1)
    <3>1. EntryOf(m, tab, s, vb, 1) = EntryOf(m, tab, KernelAs, vb, 1)
      BY <1>3, <2>4 DEF InMemory
    <3>2. EntryOf(m2, tab2, KernelAs, vb, 1) = EntryOf(m, tab, KernelAs, vb, 1)
      BY <1>10, <2>1, <2>2
    <3>3. ~(s = r /\ 1 = n /\ Same(va, vb, n) /\ indexof(vb, n) = i)
      <4>1. SUFFICES ASSUME n = 1, va[1] = vb[1] PROVE FALSE
        BY <1>1 DEF indexof
      <4>. QED  BY <1>1, <2>1, <2>4, <4>1, VmeBasics DEF OwnSide
    <3>. QED  BY <1>10, <2>1, <2>2, <3>1, <3>2, <3>3
  <2>. QED  BY <2>2, <2>3, <2>4
<1>14. ASSUME NEW s \in R, NEW vb \in VA
       PROVE  LeafOf(m2, tab2, s, vb) = LeafOf(m, tab, s, vb)
  <2>1. s \in Root /\ ptlevels \in Level /\ ptlevels # n
    BY <1>1 DEF Level
  <2>2. CASE tab[s][vb][ptlevels] # NoFrame
    <3>1. tab2[s][vb][ptlevels] = tab[s][vb][ptlevels]
          /\ EntryOf(m2, tab2, s, vb, ptlevels) = EntryOf(m, tab, s, vb, ptlevels)
      BY <1>10, <2>1, <2>2
    <3>. QED  BY <2>2, <3>1 DEF LeafOf
  <2>3. CASE tab[s][vb][ptlevels] = NoFrame
    <3>1. tab2[s][vb][ptlevels] \in {pg, NoFrame}
      BY <1>4, <2>1, <2>3
    <3>. QED  BY <1>11, <2>1, <2>3, <3>1 DEF LeafOf
  <2>. QED  BY <2>2, <2>3
<1>15. \A q \in Root, j \in PtIndex \ {Pointer} : m2[q][j] = Absent
  <2>. SUFFICES ASSUME NEW q \in Root, NEW j \in PtIndex \ {Pointer} PROVE m2[q][j] = Absent
    OBVIOUS
  <2>1. q \in Node /\ q # pg /\ m[q][j] = Absent
    BY <1>2, <1>3 DEF Node, InMemory
  <2>2. ~(q = t /\ j = i)
    <3>1. CASE n = 0
      BY <3>1 DEF indexof
    <3>2. CASE n # 0
      <4>1. t \in PageFrame
        BY <1>1, <1>3, <3>2 DEF Shape
      <4>. QED  BY <4>1, VmeBasics
    <3>. QED  BY <3>1, <3>2
  <2>. QED  BY <1>7, <2>1, <2>2
<1>16. InMemory(m2, tab2, R)
  <2>1. ASSUME NEW s \in R \ {KernelAs}, NEW vb \in VA, vb \notin KernelVA, tab2[s][vb][ptlevels] # NoFrame
        PROVE  EntryOf(m2, tab2, s, vb, ptlevels) \in {Absent} \cup {Pte(pa, TRUE) : pa \in UserFrame}
    <3>1. LeafOf(m2, tab2, s, vb) = LeafOf(m, tab, s, vb)
      BY <1>14
    <3>2. LeafOf(m, tab, s, vb) \in {Absent} \cup {Pte(pa, TRUE) : pa \in UserFrame}
      BY <1>3, <2>1 DEF LeafOf, InMemory
    <3>. QED  BY <2>1, <3>1, <3>2 DEF LeafOf
  <2>. HIDE DEF m2, tab2
  <2>. QED  BY <1>7, <1>12, <1>13, <1>15, <2>1, ZenonT(60) DEF InMemory
<1>17. Keeps(m, tab, m2, tab2, R)
  <2>1. ASSUME NEW vb \in KernelVA, Mapped(m, tab, {vb}) PROVE Mapped(m2, tab2, {vb})
    <3>1. KernelAs \in Root /\ ptlevels \in Level /\ ptlevels # n /\ vb \in VA
      BY <1>1 DEF Level, Root, KernelVA
    <3>2. tab[KernelAs][vb][ptlevels] # NoFrame /\ EntryOf(m, tab, KernelAs, vb, ptlevels) = Pte(Identity(vb), FALSE)
      BY <2>1 DEF Mapped
    <3>3. tab2[KernelAs][vb][ptlevels] = tab[KernelAs][vb][ptlevels]
          /\ EntryOf(m2, tab2, KernelAs, vb, ptlevels) = EntryOf(m, tab, KernelAs, vb, ptlevels)
      BY <1>10, <3>1, <3>2
    <3>. QED  BY <3>2, <3>3 DEF Mapped
  <2>. HIDE DEF m2, tab2
  <2>. QED  BY <1>3, <1>14, <2>1 DEF Keeps, TablesKept
<1>18. tab2[r][va][n + 1] = pg /\ m2[t][i].base = pg
  <2>1. Same(va, va, n + 1)
    BY <1>1, SamePaths DEF Level
  <2>2. tab2[r][va][n + 1] = pg
    BY <1>1, <1>4, <2>1
  <2>3. m2[t][i].base = pg
    BY <1>6, <1>7, EntryTypes
  <2>. QED  BY <2>2, <2>3
<1>. QED  BY <1>3, <1>16, <1>17, <1>18 DEF Trees, TablePlaced

-----------------------------------------------------------------------------
(* An entry of the last level is set.                                      *)

\* Of the entries of the last level that for va of r has become e.
LeafChanged(m, m2, tab, r, va, e) ==
    \A q \in Root, vb \in VA : tab[q][vb][ptlevels] # NoFrame =>
        EntryOf(m2, tab, q, vb, ptlevels) =
          IF q = r /\ vb = va THEN e ELSE EntryOf(m, tab, q, vb, ptlevels)

LEMMA LeafSet ==
    ASSUME NEW m, NEW av, NEW tab, NEW R, NEW r \in R, NEW va \in VA, NEW e \in PteType,
           Trees(m, av, tab, R), OwnSide(r, va), tab[r][va][ptlevels] # NoFrame,
           r # KernelAs => e \in {Absent} \cup {Pte(pa, TRUE) : pa \in UserFrame}
    PROVE  LET m2 == [m EXCEPT ![tab[r][va][ptlevels]][va[ptlevels]] = e]
           IN  /\ Trees(m2, av, tab, R)
               /\ LeafChanged(m, m2, tab, r, va, e)
<1>. DEFINE t == tab[r][va][ptlevels]
            i == va[ptlevels]
            m2 == [m EXCEPT ![t][i] = e]
<1>1. /\ Shape(tab, av, R) /\ InMemory(m, tab, R) /\ R \subseteq Root /\ r \in Root /\ KernelAs \in Root
      /\ ptlevels \in Nat /\ ptlevels >= 2 /\ ptlevels \in Level /\ i \in PtIndex /\ t # NoFrame
  BY VmeBasics DEF Trees, Shape, Level, Root
<1>2. t \in PageFrame /\ t \in Node
  <2>1. t \in PageFrame \cup {NoFrame}
    BY <1>1 DEF Shape
  <2>. QED  BY <1>1, <2>1 DEF Node
<1>3. m \in [Node -> [PtIndex -> PteType]]
  BY <1>1 DEF InMemory
<1>4. /\ m2 \in [Node -> [PtIndex -> PteType]]
      /\ \A x \in Node, j \in PtIndex : m2[x][j] = IF x = t /\ j = i THEN e ELSE m[x][j]
  BY <1>1, <1>2, <1>3
<1>5. \A q \in Root, vb \in VA, k \in Level :
        tab[q][vb][k] = t => q = r /\ k = ptlevels /\ Same(va, vb, ptlevels)
  <2>1. \A q \in Root, vb \in VA, k \in Level : t = tab[q][vb][k] => r = q /\ ptlevels = k /\ Same(va, vb, ptlevels)
    BY <1>1 DEF Shape
  <2>. QED  BY <2>1
<1>6. \A q \in Root, vb \in VA, k \in Level : tab[q][vb][k] \in Node \cup {NoFrame} /\ indexof(vb, k) \in PtIndex
  BY <1>1, VmeBasics DEF Shape, Level
<1>7. ASSUME NEW q \in Root, NEW vb \in VA, NEW k \in Level, tab[q][vb][k] # NoFrame, k # ptlevels
      PROVE  EntryOf(m2, tab, q, vb, k) = EntryOf(m, tab, q, vb, k)
  BY <1>4, <1>5, <1>6, <1>7 DEF EntryOf
<1>8. ASSUME NEW q \in Root, NEW vb \in VA, tab[q][vb][ptlevels] # NoFrame
      PROVE  EntryOf(m2, tab, q, vb, ptlevels) =
               IF q = r /\ vb = va THEN e ELSE EntryOf(m, tab, q, vb, ptlevels)
  <2>1. indexof(vb, ptlevels) = vb[ptlevels] /\ tab[q][vb][ptlevels] \in Node /\ vb[ptlevels] \in PtIndex
    BY <1>1, <1>6, <1>8, VmeBasics DEF indexof
  <2>2. CASE q = r /\ vb = va
    BY <1>1, <1>2, <1>4, <2>1, <2>2 DEF EntryOf
  <2>3. CASE ~(q = r /\ vb = va)
    <3>1. ~(tab[q][vb][ptlevels] = t /\ vb[ptlevels] = i)
      <4>1. Same(va, vb, ptlevels) /\ va[ptlevels] = vb[ptlevels] => va = vb
        BY <1>1, SamePaths DEF Level
      <4>. QED  BY <1>1, <1>5, <2>3, <4>1
    <3>. QED  BY <1>4, <2>1, <2>3, <3>1 DEF EntryOf
  <2>. QED  BY <2>2, <2>3
<1>9. InMemory(m2, tab, R)
  <2>1. ASSUME NEW q \in R, NEW vb \in VA, NEW k \in 0 .. ptlevels - 1,
               tab[q][vb][k] # NoFrame, k = 1 => q = KernelAs \/ OwnSide(q, vb)
        PROVE  EntryOf(m2, tab, q, vb, k) =
                 IF tab[q][vb][k + 1] = NoFrame THEN Absent ELSE Pte(tab[q][vb][k + 1], q # KernelAs)
    <3>1. q \in Root /\ k \in Level /\ k # ptlevels
      BY <1>1 DEF Level
    <3>2. EntryOf(m2, tab, q, vb, k) = EntryOf(m, tab, q, vb, k)
      BY <1>7, <2>1, <3>1
    <3>. QED  BY <1>1, <2>1, <3>2 DEF InMemory
  <2>2. ASSUME NEW s \in R \ {KernelAs}, NEW vb \in VA
        PROVE  /\ tab[s][vb][1] # NoFrame /\ tab[KernelAs][vb][1] # NoFrame
               /\ vb \in KernelVA => EntryOf(m2, tab, s, vb, 1) = EntryOf(m2, tab, KernelAs, vb, 1)
               /\ vb \notin KernelVA /\ tab[s][vb][ptlevels] # NoFrame =>
                    EntryOf(m2, tab, s, vb, ptlevels) \in {Absent} \cup {Pte(pa, TRUE) : pa \in UserFrame}
    <3>1. s \in Root /\ 1 \in Level /\ 1 # ptlevels
      BY <1>1 DEF Level
    <3>2. /\ tab[s][vb][1] # NoFrame /\ tab[KernelAs][vb][1] # NoFrame
          /\ vb \in KernelVA => EntryOf(m, tab, s, vb, 1) = EntryOf(m, tab, KernelAs, vb, 1)
          /\ vb \notin KernelVA /\ tab[s][vb][ptlevels] # NoFrame =>
               EntryOf(m, tab, s, vb, ptlevels) \in {Absent} \cup {Pte(pa, TRUE) : pa \in UserFrame}
      BY <1>1 DEF InMemory
    <3>3. EntryOf(m2, tab, s, vb, 1) = EntryOf(m, tab, s, vb, 1)
          /\ EntryOf(m2, tab, KernelAs, vb, 1) = EntryOf(m, tab, KernelAs, vb, 1)
      BY <1>1, <1>7, <3>1, <3>2
    <3>4. ASSUME vb \notin KernelVA, tab[s][vb][ptlevels] # NoFrame
          PROVE  EntryOf(m2, tab, s, vb, ptlevels) \in {Absent} \cup {Pte(pa, TRUE) : pa \in UserFrame}
      BY <1>8, <3>1, <3>2, <3>4
    <3>. QED  BY <3>2, <3>3, <3>4
  <2>3. \A q \in Root, j \in PtIndex \ {Pointer} : m2[q][j] = Absent
    <3>. SUFFICES ASSUME NEW q \in Root, NEW j \in PtIndex \ {Pointer} PROVE m2[q][j] = Absent
      OBVIOUS
    <3>1. q \in Node /\ q # t /\ m[q][j] = Absent
      BY <1>1, <1>2, VmeBasics DEF Node, InMemory
    <3>. QED  BY <1>4, <3>1
  <2>. HIDE DEF m2
  <2>. QED  BY <1>4, <2>1, <2>2, <2>3 DEF InMemory
<1>. HIDE DEF t, i
<1>10. Trees(m2, av, tab, R)
  BY <1>1, <1>9 DEF Trees
<1>. QED  BY <1>8, <1>10 DEF t, i, LeafChanged

-----------------------------------------------------------------------------
(* ptwalk.                                                                 *)

Bases == PageFrame \cup UserFrame \cup Address \cup {NoFrame}
States == [mem : [Node -> [PtIndex -> PteType]], avail : SUBSET PageFrame, ok : BOOLEAN]
Walkers == [st : States, table : Node \cup Bases]

LEMMA WalkRecords ==
    /\ \A m \in [Node -> [PtIndex -> PteType]], av \in SUBSET PageFrame, b \in BOOLEAN :
         LET st == [mem |-> m, avail |-> av, ok |-> b]
         IN  st \in States /\ st.mem = m /\ st.avail = av /\ st.ok = b
    /\ \A st \in States, x \in Node \cup Bases :
         LET w == [st |-> st, table |-> x] IN w \in Walkers /\ w.st = st /\ w.table = x
  BY DEF States, Walkers

LEMMA KeepsBoth ==
    ASSUME NEW a, NEW ta, NEW b, NEW tb, NEW c, NEW tc, NEW R,
           Keeps(a, ta, b, tb, R), Keeps(b, tb, c, tc, R)
    PROVE  Keeps(a, ta, c, tc, R)
<1>1. \A s \in R \ {KernelAs}, vb \in VA : vb \notin KernelVA => LeafOf(c, tc, s, vb) = LeafOf(a, ta, s, vb)
  BY DEF Keeps
<1>2. \A vb \in KernelVA : Mapped(a, ta, {vb}) => Mapped(c, tc, {vb})
  BY DEF Keeps
<1>3. TablesKept(ta, tc)
  BY DEF Keeps, TablesKept
<1>. QED  BY <1>1, <1>2, <1>3 DEF Keeps

LEMMA KeepsSelf ==
    ASSUME NEW a, NEW ta, NEW R PROVE Keeps(a, ta, a, ta, R)
  BY DEF Keeps, TablesKept

\* Walk w has come to level n of the trees, to which it may have added.
OnWay(w, n, m, tab, R, r, va) ==
    /\ w \in Walkers
    /\ w.st.ok => \E tab2 : /\ Trees(w.st.mem, w.st.avail, tab2, R) /\ Keeps(m, tab, w.st.mem, tab2, R)
                            /\ w.table = tab2[r][va][n] /\ w.table # NoFrame

LEMMA DescendOn ==
    ASSUME NEW w, NEW n \in 0 .. ptlevels - 1, NEW m, NEW tab, NEW R, NEW r \in R, NEW va \in VA,
           OnWay(w, n, m, tab, R, r, va), OwnSide(r, va), r = KernelAs => R = {KernelAs}
    PROVE  OnWay(Descend(w, n, va, r # KernelAs), n + 1, m, tab, R, r, va)
<1>. DEFINE u == r # KernelAs
            i == indexof(va, n)
            d == Descend(w, n, va, u)
<1>0. w \in Walkers /\ w.st \in States /\ w = [st |-> w.st, table |-> w.table]
  BY DEF OnWay, Walkers
<1>1. CASE ~w.st.ok
  <2>1. d = w
    BY <1>1 DEF Descend
  <2>. QED  BY <1>0, <1>1, <2>1 DEF OnWay
<1>2. CASE w.st.ok
  <2>1. PICK tab2 : /\ Trees(w.st.mem, w.st.avail, tab2, R) /\ Keeps(m, tab, w.st.mem, tab2, R)
                    /\ w.table = tab2[r][va][n] /\ w.table # NoFrame
    BY <1>2 DEF OnWay
  <2>2. /\ Shape(tab2, w.st.avail, R) /\ InMemory(w.st.mem, tab2, R) /\ r \in Root /\ n \in Level
        /\ n + 1 \in Level /\ n + 1 \in 1 .. ptlevels /\ i \in PtIndex
    BY <2>1, VmeBasics DEF Trees, Shape, Level
  <2>3. w.st.mem[w.table][i] = IF tab2[r][va][n + 1] = NoFrame THEN Absent ELSE Pte(tab2[r][va][n + 1], u)
    <3>1. EntryOf(w.st.mem, tab2, r, va, n) =
            IF tab2[r][va][n + 1] = NoFrame THEN Absent ELSE Pte(tab2[r][va][n + 1], u)
      BY <2>1, <2>2 DEF InMemory
    <3>. QED  BY <2>1, <3>1 DEF EntryOf
  <2>4. tab2[r][va][n + 1] \in PageFrame \cup {NoFrame}
    BY <2>2 DEF Shape
  <2>5. CASE tab2[r][va][n + 1] # NoFrame
    <3>1. w.st.mem[w.table][i].p /\ w.st.mem[w.table][i].base = tab2[r][va][n + 1]
      BY <2>3, <2>5, EntryTypes
    <3>2. d = [st |-> w.st, table |-> tab2[r][va][n + 1]]
      BY <1>2, <3>1 DEF Descend
    <3>3. d \in Walkers /\ d.st = w.st /\ d.table = tab2[r][va][n + 1]
      <4>1. tab2[r][va][n + 1] \in Node \cup Bases
        BY <2>4, <2>5 DEF Node
      <4>. HIDE DEF d
      <4>. QED  BY <1>0, <3>2, <4>1, WalkRecords
    <3>. QED  BY <2>1, <2>5, <3>3 DEF OnWay
  <2>6. CASE tab2[r][va][n + 1] = NoFrame
    <3>1. ~w.st.mem[w.table][i].p /\ w.st.mem[w.table][i].base = NoFrame
      BY <2>3, <2>6, EntryTypes
    <3>. DEFINE st == pgallocz(w.st, w.table, i, u)
    <3>2. d = [st |-> st, table |-> st.mem[w.table][i].base]
      BY <1>2, <3>1 DEF Descend
    <3>3. CASE w.st.avail = {}
      <4>1. st = [mem |-> w.st.mem, avail |-> w.st.avail, ok |-> FALSE]
        BY <1>0, <3>3 DEF pgallocz, States
      <4>2. st \in States /\ ~st.ok /\ st.mem = w.st.mem
        <5>1. w.st.mem \in [Node -> [PtIndex -> PteType]] /\ w.st.avail \in SUBSET PageFrame
          BY <1>0 DEF States
        <5>. HIDE DEF st
        <5>. QED  BY <4>1, <5>1, WalkRecords
      <4>3. d \in Walkers /\ ~d.st.ok
        <5>1. NoFrame \in Node \cup Bases /\ d = [st |-> st, table |-> NoFrame]
          BY <3>1, <3>2, <4>2 DEF Bases
        <5>. HIDE DEF st, d
        <5>. QED  BY <4>2, <5>1, WalkRecords
      <4>. QED  BY <4>3 DEF OnWay
    <3>4. CASE w.st.avail # {}
      <4>. DEFINE pg == Min(w.st.avail)
                  m2 == GrownMem(w.st.mem, tab2[r][va][n], i, pg, u)
                  tab3 == Planted(tab2, r, va, n + 1, pg)
      <4>1. pg \in w.st.avail
        BY <1>0, <3>4, FreePage DEF States
      <4>2. st = [mem |-> m2, avail |-> w.st.avail \ {pg}, ok |-> w.st.ok]
        BY <2>1, <3>4 DEF pgallocz, GrownMem
      <4>3. TablePlace(tab2, R, r, va, n)
        BY <2>1, <2>6, SMTT(60) DEF TablePlace
      <4>4. /\ Trees(m2, w.st.avail \ {pg}, tab3, R) /\ Keeps(w.st.mem, tab2, m2, tab3, R)
            /\ tab3[r][va][n + 1] = pg /\ m2[tab2[r][va][n]][i].base = pg
        <5>. HIDE DEF pg
        <5>1. Trees(m2, w.st.avail \ {pg}, tab3, R)
          BY <2>1, <4>1, <4>3, PlantedLinked
        <5>2. Keeps(w.st.mem, tab2, m2, tab3, R)
          BY <2>1, <4>1, <4>3, PlantedLinked
        <5>3. TablePlaced(m2, tab3, r, va, n, tab2[r][va][n], pg)
          BY <2>1, <4>1, <4>3, PlantedLinked
        <5>. QED  BY <5>1, <5>2, <5>3 DEF TablePlaced
      <4>. HIDE DEF m2, tab3, pg
      <4>5. st.mem = m2 /\ st.avail = w.st.avail \ {pg} /\ st.ok
        BY <1>2, <4>2
      <4>6. d = [st |-> st, table |-> pg]
        BY <2>1, <3>2, <4>4, <4>5
      <4>7. pg \in PageFrame /\ pg # NoFrame
        BY <1>0, <4>1, VmeBasics DEF States, Node
      <4>8. m2 \in [Node -> [PtIndex -> PteType]]
        BY <4>4 DEF Trees, InMemory
      <4>9. d \in Walkers /\ d.st = st /\ d.table = pg
        <5>1. w.st.avail \ {pg} \in SUBSET PageFrame /\ pg \in Node \cup Bases
          BY <1>0, <4>7 DEF States, Node
        <5>2. st \in States
          <6>1. w.st.ok \in BOOLEAN
            BY <1>0 DEF States
          <6>. HIDE DEF st
          <6>. QED  BY <4>2, <4>8, <5>1, <6>1, WalkRecords
        <5>. HIDE DEF st, d
        <5>. QED  BY <4>6, <5>1, <5>2, WalkRecords
      <4>10. Keeps(m, tab, m2, tab3, R)
        BY <2>1, <4>4, KeepsBoth
      <4>. QED  BY <4>4, <4>5, <4>7, <4>9, <4>10 DEF OnWay
    <3>. QED  BY <3>3, <3>4
  <2>. QED  BY <2>5, <2>6
<1>. QED  BY <1>1, <1>2

LEMMA PtWalk ==
    ASSUME NEW m, NEW av, NEW tab, NEW R, NEW r \in R, NEW va \in VA,
           Trees(m, av, tab, R), OwnSide(r, va), r = KernelAs => R = {KernelAs}
    PROVE  OnWay(ptwalk([mem |-> m, avail |-> av, ok |-> TRUE], r, va, r # KernelAs),
                 ptlevels, m, tab, R, r, va)
<1>. DEFINE w0 == [st |-> [mem |-> m, avail |-> av, ok |-> TRUE], table |-> r]
            D(x, n) == Descend(x, n, va, r # KernelAs)
            Way(x, n) == OnWay(x, n, m, tab, R, r, va)
            Goes(f) == f = [n \in 0 .. ptlevels |-> IF n = 0 THEN w0 ELSE D(f[n - 1], n - 1)]
<1>1. ptlevels \in Nat /\ ptlevels >= 2 /\ r \in Root
  BY VmeBasics DEF Trees, Shape
<1>2. w0 \in Walkers /\ Way(w0, 0)
  <2>1. r # NoFrame /\ tab[r][va][0] = r /\ av \subseteq PageFrame /\ m \in [Node -> [PtIndex -> PteType]]
    BY <1>1, VmeBasics DEF Trees, Shape, InMemory, Node
  <2>2. w0 \in Walkers
    BY <1>1, <2>1 DEF Walkers, States, Node
  <2>3. w0.st.mem = m /\ w0.st.avail = av /\ w0.table = r
    OBVIOUS
  <2>. HIDE DEF w0
  <2>. QED  BY <2>1, <2>2, <2>3, KeepsSelf DEF OnWay
<1>3. \A x, n : n \in 0 .. ptlevels - 1 /\ Way(x, n) => Way(D(x, n), n + 1) /\ D(x, n) \in Walkers /\ x \in Walkers
  <2>. SUFFICES ASSUME NEW x, NEW n \in 0 .. ptlevels - 1, Way(x, n)
                PROVE  Way(D(x, n), n + 1) /\ D(x, n) \in Walkers /\ x \in Walkers
    OBVIOUS
  <2>1. Way(D(x, n), n + 1)
    BY DescendOn
  <2>. QED  BY <2>1 DEF OnWay
<1>. HIDE DEF w0, D, Way
<1>4. \E f : Goes(f)
  <2>. DEFINE F == [k \in 1 .. ptlevels |-> [x \in Walkers |-> IF D(x, k - 1) \in Walkers THEN D(x, k - 1) ELSE x]]
  <2>1. F \in [1 .. ptlevels -> [Walkers -> Walkers]]
    OBVIOUS
  <2>2. \E f : Recursive(f, ptlevels, Walkers, w0, F)
    <3>. HIDE DEF F
    <3>. QED  BY <1>1, <1>2, <2>1, Recursion
  <2>3. PICK f : Recursive(f, ptlevels, Walkers, w0, F)
    BY <2>2
  <2>. DEFINE P == {k \in 0 .. ptlevels : Way(f[k], k) /\ (k >= 1 => f[k] = D(f[k - 1], k - 1))}
  <2>4. 0 \in P
    BY <1>1, <1>2, <2>3 DEF Recursive
  <2>5. ASSUME NEW k \in 1 .. ptlevels, k - 1 \in P PROVE k \in P
    <3>1. k - 1 \in 0 .. ptlevels - 1 /\ Way(f[k - 1], k - 1) /\ k - 1 + 1 = k
      BY <1>1, <2>5
    <3>2. Way(D(f[k - 1], k - 1), k) /\ D(f[k - 1], k - 1) \in Walkers /\ f[k - 1] \in Walkers
      BY <1>3, <3>1
    <3>3. f[k] = D(f[k - 1], k - 1)
      BY <2>3, <3>2 DEF Recursive
    <3>. QED  BY <3>2, <3>3
  <2>6. \A k \in 0 .. ptlevels : k \in P
    <3>. HIDE DEF P
    <3>. QED  BY <1>1, <2>4, <2>5, UpTo
  <2>7. \A k \in 1 .. ptlevels : f[k] = D(f[k - 1], k - 1)
    BY <1>1, <2>6
  <2>8. f[0] = w0 /\ f = [k \in 0 .. ptlevels |-> f[k]]
    BY <2>3 DEF Recursive
  <2>9. Goes(f)
    <3>1. \A n \in 0 .. ptlevels : f[n] = IF n = 0 THEN w0 ELSE D(f[n - 1], n - 1)
      <4>1. \A n \in 0 .. ptlevels : n = 0 \/ n \in 1 .. ptlevels
        BY <1>1
      <4>. QED  BY <2>7, <2>8, <4>1
    <3>. QED  BY <2>8, <3>1
  <2>. HIDE DEF Goes
  <2>. QED  BY <2>9
<1>. DEFINE g == CHOOSE f : Goes(f)
<1>5. Goes(g)
  <2>. HIDE DEF Goes
  <2>. QED  BY <1>4
<1>. HIDE DEF g
<1>6. Way(g[ptlevels], ptlevels)
  <2>. DEFINE P == {k \in 0 .. ptlevels : Way(g[k], k)}
  <2>1. 0 \in P
    BY <1>1, <1>2, <1>5
  <2>2. ASSUME NEW k \in 1 .. ptlevels, k - 1 \in P PROVE k \in P
    <3>1. k - 1 \in 0 .. ptlevels - 1 /\ Way(g[k - 1], k - 1) /\ k - 1 + 1 = k
      BY <1>1, <2>2
    <3>2. g[k] = D(g[k - 1], k - 1)
      <4>1. k \in 0 .. ptlevels /\ k # 0
        BY <1>1
      <4>. QED  BY <1>5, <4>1
    <3>. QED  BY <1>3, <3>1, <3>2
  <2>3. \A k \in 0 .. ptlevels : k \in P
    <3>. HIDE DEF P
    <3>. QED  BY <1>1, <2>1, <2>2, UpTo
  <2>. QED  BY <1>1, <2>3
<1>7. ptwalk([mem |-> m, avail |-> av, ok |-> TRUE], r, va, r # KernelAs) = g[ptlevels]
  BY DEF ptwalk, g, Goes, D, w0
<1>. QED  BY <1>6, <1>7 DEF Way

LEMMA EntrySet ==
    ASSUME NEW w \in Walkers, NEW va \in VA, NEW e \in PteType, w.table \in Node
    PROVE  LET m2 == [w.st.mem EXCEPT ![w.table][va[ptlevels]] = e]
           IN  /\ SetEntry(w, va, e) = [mem |-> m2, avail |-> w.st.avail, ok |-> w.st.ok]
               /\ SetEntry(w, va, e) \in States
<1>. DEFINE m2 == [w.st.mem EXCEPT ![w.table][va[ptlevels]] = e]
<1>1. w.st \in States /\ w.st.mem \in [Node -> [PtIndex -> PteType]] /\ w.st.avail \in SUBSET PageFrame /\ w.st.ok \in BOOLEAN
  BY DEF Walkers, States
<1>2. va[ptlevels] \in PtIndex
  BY VmeBasics
<1>3. SetEntry(w, va, e) = [mem |-> m2, avail |-> w.st.avail, ok |-> w.st.ok]
  BY <1>1 DEF SetEntry, States
<1>4. m2 \in [Node -> [PtIndex -> PteType]]
  BY <1>1, <1>2
<1>5. SetEntry(w, va, e) \in States
  <2>. HIDE DEF m2
  <2>1. [mem |-> m2, avail |-> w.st.avail, ok |-> w.st.ok] \in States
    BY <1>1, <1>4, WalkRecords
  <2>. QED  BY <1>3, <2>1
<1>. QED  BY <1>3, <1>5

LEMMA PathsFinite == IsFiniteSet(VA)
<1>. DEFINE P == {k \in 0 .. ptlevels : IsFiniteSet([1 .. k -> PtIndex])}
<1>1. 0 \in P
  <2>1. [1 .. 0 -> PtIndex] = {[i \in 1 .. 0 |-> 0]}
    <3>1. \A f \in [1 .. 0 -> PtIndex] : f = [i \in 1 .. 0 |-> 0]
      OBVIOUS
    <3>2. [i \in 1 .. 0 |-> 0] \in [1 .. 0 -> PtIndex]
      OBVIOUS
    <3>. QED  BY <3>1, <3>2
  <2>2. IsFiniteSet([1 .. 0 -> PtIndex])
    BY <2>1, FS_Singleton
  <2>. QED  BY <2>2, VmeBasics
<1>2. ASSUME NEW k \in 1 .. ptlevels, k - 1 \in P PROVE k \in P
  <2>. DEFINE A == [1 .. k - 1 -> PtIndex]
              B == [1 .. k -> PtIndex]
              g == [x \in A \X PtIndex |-> [i \in 1 .. k |-> IF i = k THEN x[2] ELSE x[1][i]]]
  <2>1. IsFiniteSet(A \X PtIndex)
    BY <1>2, FS_Product, VmeAssumption
  <2>2. g \in [A \X PtIndex -> B]
    <3>1. ASSUME NEW x \in A \X PtIndex PROVE [i \in 1 .. k |-> IF i = k THEN x[2] ELSE x[1][i]] \in B
      <4>1. x[2] \in PtIndex /\ \A i \in 1 .. k - 1 : x[1][i] \in PtIndex
        OBVIOUS
      <4>2. \A i \in 1 .. k : i # k => i \in 1 .. k - 1
        OBVIOUS
      <4>. QED  BY <4>1, <4>2
    <3>. QED  BY <3>1
  <2>3. ASSUME NEW f \in B PROVE \E x \in A \X PtIndex : g[x] = f
    <3>. DEFINE h == [i \in 1 .. k - 1 |-> f[i]]
                x == <<h, f[k]>>
    <3>1. h \in A /\ f[k] \in PtIndex
      OBVIOUS
    <3>2. x \in A \X PtIndex /\ x[1] = h /\ x[2] = f[k]
      BY <3>1
    <3>3. g[x] = [i \in 1 .. k |-> IF i = k THEN f[k] ELSE h[i]]
      <4>1. g[x] = [i \in 1 .. k |-> IF i = k THEN x[2] ELSE x[1][i]]
        BY <3>2
      <4>. QED  BY <3>2, <4>1
    <3>4. g[x] = f
      BY <3>3
    <3>. QED  BY <3>2, <3>4
  <2>. HIDE DEF g, A, B
  <2>4. g \in Surjection(A \X PtIndex, B)
    BY <2>2, <2>3 DEF Surjection
  <2>5. IsFiniteSet(B)
    BY <2>1, <2>4, FS_Surjection
  <2>. QED  BY <2>5 DEF B
<1>3. \A k \in 0 .. ptlevels : k \in P
  <2>. HIDE DEF P
  <2>. QED  BY <1>1, <1>2, UpTo, VmeBasics
<1>. QED  BY <1>3, VmeBasics DEF VA

LEMMA OrderOfKernel ==
    /\ Cardinality(KernelVA) \in Nat /\ KernelVA # {} /\ KernelVA \subseteq VA
    /\ \A k \in 1 .. Cardinality(KernelVA) : KernelOrder[k] \in KernelVA
    /\ \A va \in KernelVA : \E k \in 1 .. Cardinality(KernelVA) : KernelOrder[k] = va
<1>1. KernelVA \subseteq VA /\ IsFiniteSet(KernelVA)
  <2>1. KernelVA \in SUBSET VA
    BY DEF KernelVA
  <2>. QED  BY <2>1, PathsFinite, FS_Subset
<1>2. Cardinality(KernelVA) \in Nat /\ ExistsBijection(1 .. Cardinality(KernelVA), KernelVA)
  BY <1>1, FS_CardinalityType
<1>3. PICK f : f \in Bijection(1 .. Cardinality(KernelVA), KernelVA)
  BY <1>2 DEF ExistsBijection
<1>4. /\ f \in [1 .. Cardinality(KernelVA) -> KernelVA]
      /\ \A va \in KernelVA : \E k \in 1 .. Cardinality(KernelVA) : f[k] = va
  BY <1>3 DEF Bijection, Surjection
<1>5. /\ KernelOrder \in [1 .. Cardinality(KernelVA) -> KernelVA]
      /\ \A va \in KernelVA : \E k \in 1 .. Cardinality(KernelVA) : KernelOrder[k] = va
  BY <1>4 DEF KernelOrder
<1>6. KernelVA # {}
  <2>1. PICK i \in PtIndex : i \notin UserTop
    BY VmeAssumption
  <2>2. [n \in 1 .. ptlevels |-> i] \in VA /\ [n \in 1 .. ptlevels |-> i][1] = i
    BY VmeBasics DEF VA
  <2>. QED  BY <2>1, <2>2 DEF KernelVA
<1>. QED  BY <1>1, <1>2, <1>5, <1>6

-----------------------------------------------------------------------------
(* vme_init.                                                               *)

\* The kernel's tables are in st, with the addresses D mapped.
TablesBegun(st, D) ==
    /\ st \in States
    /\ st.ok => \E tab : Trees(st.mem, st.avail, tab, {KernelAs}) /\ Mapped(st.mem, tab, D)

LEMMA MapsOne ==
    ASSUME NEW st, NEW D \in SUBSET KernelVA, NEW va \in KernelVA, TablesBegun(st, D)
    PROVE  TablesBegun(MapToItself(st, va), D \cup {va})
<1>. DEFINE K == KernelAs
            w == ptwalk(st, K, va, FALSE)
            e == Pte(Identity(va), FALSE)
<1>1. va \in VA /\ OwnSide(K, va) /\ K \in Root /\ e \in PteType /\ st \in States
  <2>1. Identity(va) \in Address
    BY DEF Address
  <2>. QED  BY <2>1, EntryTypes, OrderOfKernel DEF OwnSide, Root, TablesBegun
<1>2. CASE ~st.ok
  BY <1>1, <1>2 DEF TablesBegun, MapToItself
<1>3. CASE st.ok
  <2>1. PICK tab : Trees(st.mem, st.avail, tab, {K}) /\ Mapped(st.mem, tab, D)
    BY <1>3 DEF TablesBegun
  <2>2. st = [mem |-> st.mem, avail |-> st.avail, ok |-> TRUE]
    BY <1>1, <1>3 DEF States
  <2>3. OnWay(w, ptlevels, st.mem, tab, {K}, K, va)
    <3>1. FALSE = (K # K)
      OBVIOUS
    <3>2. OnWay(ptwalk([mem |-> st.mem, avail |-> st.avail, ok |-> TRUE], K, va, K # K),
                ptlevels, st.mem, tab, {K}, K, va)
      BY <1>1, <2>1, PtWalk
    <3>. QED  BY <2>2, <3>1, <3>2
  <2>4. w \in Walkers
    BY <2>3 DEF OnWay
  <2>. HIDE DEF w
  <2>5. CASE ~w.st.ok
    <3>1. MapToItself(st, va) = w.st /\ w.st \in States
      BY <1>3, <2>4, <2>5 DEF MapToItself, w, Walkers
    <3>. QED  BY <2>5, <3>1 DEF TablesBegun
  <2>6. CASE w.st.ok
    <3>1. MapToItself(st, va) = SetEntry(w, va, e)
      BY <1>3, <2>6 DEF MapToItself, w
    <3>2. PICK tab2 : /\ Trees(w.st.mem, w.st.avail, tab2, {K}) /\ Keeps(st.mem, tab, w.st.mem, tab2, {K})
                      /\ w.table = tab2[K][va][ptlevels] /\ w.table # NoFrame
      BY <2>3, <2>6 DEF OnWay
    <3>3. w.table \in Node
      <4>1. tab2[K][va][ptlevels] \in Node \cup {NoFrame}
        BY <1>1, <3>2, VmeBasics DEF Trees, Shape, Level
      <4>. QED  BY <3>2, <4>1
    <3>. DEFINE m2 == [w.st.mem EXCEPT ![tab2[K][va][ptlevels]][va[ptlevels]] = e]
    <3>4. SetEntry(w, va, e) = [mem |-> m2, avail |-> w.st.avail, ok |-> w.st.ok] /\ SetEntry(w, va, e) \in States
      BY <1>1, <2>4, <3>2, <3>3, EntrySet
    <3>5. /\ Trees(m2, w.st.avail, tab2, {K})
          /\ LeafChanged(w.st.mem, m2, tab2, K, va, e)
      <4>1. K \in {K} /\ tab2[K][va][ptlevels] # NoFrame
        BY <3>2
      <4>. HIDE DEF e
      <4>. QED  BY <1>1, <3>2, <4>1, LeafSet
    <3>6. Mapped(m2, tab2, D \cup {va})
      <4>. SUFFICES ASSUME NEW vb \in D \cup {va}
                    PROVE  /\ tab2[K][vb][ptlevels] # NoFrame
                           /\ EntryOf(m2, tab2, K, vb, ptlevels) = Pte(Identity(vb), FALSE)
        BY DEF Mapped
      <4>0. vb \in KernelVA /\ vb \in VA
        BY OrderOfKernel
      <4>1. CASE vb = va
        BY <1>1, <3>2, <3>5, <4>1 DEF LeafChanged
      <4>2. CASE vb # va
        <5>1. Mapped(st.mem, tab, {vb})
          BY <2>1, <4>2 DEF Mapped
        <5>2. Mapped(w.st.mem, tab2, {vb})
          BY <3>2, <4>0, <5>1 DEF Keeps
        <5>3. tab2[K][vb][ptlevels] # NoFrame /\ EntryOf(w.st.mem, tab2, K, vb, ptlevels) = Pte(Identity(vb), FALSE)
          BY <5>2 DEF Mapped
        <5>. HIDE DEF m2
        <5>. QED  BY <1>1, <3>5, <4>0, <4>2, <5>3 DEF LeafChanged
      <4>. QED  BY <4>1, <4>2
    <3>. HIDE DEF m2
    <3>7. SetEntry(w, va, e).mem = m2 /\ SetEntry(w, va, e).avail = w.st.avail
      <4>. DEFINE z == SetEntry(w, va, e)
      <4>1. z = [mem |-> m2, avail |-> w.st.avail, ok |-> w.st.ok]
        BY <3>4
      <4>. HIDE DEF z
      <4>2. z.mem = m2 /\ z.avail = w.st.avail
        BY <4>1
      <4>. QED  BY <4>2 DEF z
    <3>. QED  BY <3>1, <3>4, <3>5, <3>6, <3>7 DEF TablesBegun
  <2>. QED  BY <2>5, <2>6
<1>. QED  BY <1>2, <1>3

LEMMA IdentityMaps ==
    ASSUME NEW st, TablesBegun(st, {})
    PROVE  TablesBegun(IdentityMap(st), KernelVA)
<1>. DEFINE N == Cardinality(KernelVA)
            O == KernelOrder
            M(x, va) == MapToItself(x, va)
            B(x, k) == TablesBegun(x, {O[j] : j \in 1 .. k})
            Goes(f) == f = [k \in 0 .. N |-> IF k = 0 THEN st ELSE M(f[k - 1], O[k])]
<1>1. N \in Nat /\ (\A k \in 1 .. N : O[k] \in KernelVA) /\ {O[j] : j \in 1 .. N} = KernelVA
  BY OrderOfKernel
<1>2. st \in States /\ B(st, 0)
  <2>1. {O[j] : j \in 1 .. 0} = {}
    OBVIOUS
  <2>. QED  BY <2>1 DEF TablesBegun
<1>3. ASSUME NEW x, NEW k \in 1 .. N, B(x, k - 1)
      PROVE  B(M(x, O[k]), k) /\ M(x, O[k]) \in States /\ x \in States
  <2>. DEFINE D == {O[j] : j \in 1 .. k - 1}
  <2>1. D \in SUBSET KernelVA /\ O[k] \in KernelVA
    BY <1>1
  <2>2. D \cup {O[k]} = {O[j] : j \in 1 .. k}
    <3>1. \A j \in 1 .. k : j = k \/ j \in 1 .. k - 1
      OBVIOUS
    <3>. QED  BY <3>1
  <2>3. TablesBegun(M(x, O[k]), D \cup {O[k]})
    <3>. HIDE DEF D, O
    <3>1. TablesBegun(x, D)
      BY <1>3 DEF D
    <3>. QED  BY <2>1, <3>1, MapsOne
  <2>. QED  BY <1>3, <2>2, <2>3 DEF TablesBegun
<1>. HIDE DEF N, O, M, B
<1>4. \E f : Goes(f)
  <2>. DEFINE F == [k \in 1 .. N |-> [x \in States |-> IF M(x, O[k]) \in States THEN M(x, O[k]) ELSE x]]
  <2>1. F \in [1 .. N -> [States -> States]]
    OBVIOUS
  <2>2. \E f : Recursive(f, N, States, st, F)
    <3>. HIDE DEF F
    <3>. QED  BY <1>1, <1>2, <2>1, Recursion
  <2>3. PICK f : Recursive(f, N, States, st, F)
    BY <2>2
  <2>. DEFINE P == {k \in 0 .. N : B(f[k], k) /\ (k >= 1 => f[k] = M(f[k - 1], O[k]))}
  <2>4. 0 \in P
    BY <1>1, <1>2, <2>3 DEF Recursive
  <2>5. ASSUME NEW k \in 1 .. N, k - 1 \in P PROVE k \in P
    <3>1. B(M(f[k - 1], O[k]), k) /\ M(f[k - 1], O[k]) \in States /\ f[k - 1] \in States
      BY <1>3, <2>5
    <3>2. f[k] = M(f[k - 1], O[k])
      BY <2>3, <3>1 DEF Recursive
    <3>. QED  BY <1>1, <3>1, <3>2
  <2>6. \A k \in 0 .. N : k \in P
    <3>. HIDE DEF P
    <3>. QED  BY <1>1, <2>4, <2>5, UpTo
  <2>7. \A k \in 1 .. N : f[k] = M(f[k - 1], O[k])
    BY <1>1, <2>6
  <2>8. f[0] = st /\ f = [k \in 0 .. N |-> f[k]]
    BY <2>3 DEF Recursive
  <2>9. Goes(f)
    <3>1. \A k \in 0 .. N : f[k] = IF k = 0 THEN st ELSE M(f[k - 1], O[k])
      <4>1. \A k \in 0 .. N : k = 0 \/ k \in 1 .. N
        BY <1>1
      <4>. QED  BY <2>7, <2>8, <4>1
    <3>. QED  BY <2>8, <3>1
  <2>. HIDE DEF Goes
  <2>. QED  BY <2>9
<1>. DEFINE g == CHOOSE f : Goes(f)
<1>5. Goes(g)
  <2>. HIDE DEF Goes
  <2>. QED  BY <1>4
<1>. HIDE DEF g
<1>6. B(g[N], N)
  <2>. DEFINE P == {k \in 0 .. N : B(g[k], k)}
  <2>1. 0 \in P
    BY <1>1, <1>2, <1>5
  <2>2. ASSUME NEW k \in 1 .. N, k - 1 \in P PROVE k \in P
    <3>1. k \in 0 .. N /\ k # 0
      BY <1>1
    <3>2. g[k] = M(g[k - 1], O[k])
      BY <1>5, <3>1
    <3>. QED  BY <1>3, <2>2, <3>1, <3>2
  <2>3. \A k \in 0 .. N : k \in P
    <3>. HIDE DEF P
    <3>. QED  BY <1>1, <2>1, <2>2, UpTo
  <2>. QED  BY <1>1, <2>3
<1>7. IdentityMap(st) = g[N]
  BY DEF IdentityMap, g, Goes, M, N, O
<1>. QED  BY <1>1, <1>6, <1>7 DEF B

LEMMA InitsTables ==
    ASSUME VmeInv, vme_init PROVE VmeInv'
<1>. DEFINE K == KernelAs
            st == IdentityMap(CurrentTables)
<1>1. live = {} /\ avail = PageFrame /\ tables = [x \in Node |-> Zeroed] /\ kpt = NoFrame /\ vmePanicked \in BOOLEAN
  BY DEF VmeInv, vme_init
<1>2. CASE ~st.ok
  BY <1>1, <1>2 DEF vme_init, VmePanic, VmeInv
<1>3. CASE st.ok
  <2>1. TablesBegun(CurrentTables, {})
    <3>. DEFINE tab == [r \in Root |-> [va \in VA |-> [n \in Level |-> IF r = K /\ n = 0 THEN K ELSE NoFrame]]]
    <3>1. \A r \in Root, va \in VA, n \in Level : tab[r][va][n] = IF r = K /\ n = 0 THEN K ELSE NoFrame
      OBVIOUS
    <3>2. K \in Root /\ K # NoFrame /\ {K} \subseteq Root /\ K \in Node /\ ptlevels \in Nat /\ ptlevels >= 2
          /\ 0 \in Level /\ 1 .. ptlevels \subseteq Level /\ \A f \in PageFrame : f # NoFrame
      BY VmeBasics DEF Root, Node, Level
    <3>3. tab \in [Root -> [VA -> [Level -> Node \cup {NoFrame}]]]
      BY <3>2
    <3>. HIDE DEF tab
    <3>4. \A n \in 1 .. ptlevels : n \in Level /\ n # 0 /\ n - 1 \in Level
      BY <3>2 DEF Level
    <3>5. Shape(tab, PageFrame, {K})
      <4>1. \A r \in Root, va \in VA : tab[r][va][0] = IF r \in {K} THEN r ELSE NoFrame
        BY <3>1, <3>2
      <4>2. \A r \in Root, va \in VA, n \in 1 .. ptlevels : tab[r][va][n] = NoFrame
        BY <3>1, <3>4
      <4>3. \A r, q \in Root, va, vb \in VA, n, k \in Level :
              tab[r][va][n] = tab[q][vb][k] /\ tab[r][va][n] # NoFrame => r = q /\ n = k /\ Same(va, vb, n)
        <5>1. \A va, vb \in VA : Same(va, vb, 0)
          BY DEF Same
        <5>. QED  BY <3>1, <3>2, <5>1
      <4>4. \A r \in Root, va, vb \in VA, n \in Level : Same(va, vb, n) => tab[r][va][n] = tab[r][vb][n]
        BY <3>1
      <4>. QED  BY <3>2, <3>3, <4>1, <4>2, <4>3, <4>4 DEF Shape
    <3>6. InMemory(tables, tab, {K})
      <4>1. tables \in [Node -> [PtIndex -> PteType]]
        BY <1>1, EntryTypes
      <4>2. ASSUME NEW r \in {K}, NEW va \in VA, NEW n \in 0 .. ptlevels - 1, tab[r][va][n] # NoFrame
            PROVE  /\ EntryOf(tables, tab, r, va, n) = Absent /\ tab[r][va][n + 1] = NoFrame
        <5>1. n = 0 /\ n \in Level /\ n + 1 \in Level /\ indexof(va, n) \in PtIndex
          BY <3>1, <3>2, <4>2, VmeBasics DEF Level
        <5>2. tab[r][va][n] = K /\ tab[r][va][n + 1] = NoFrame
          BY <3>1, <3>2, <5>1
        <5>. QED  BY <1>1, <3>2, <5>1, <5>2, EntryTypes DEF EntryOf
      <4>3. \A r \in Root, j \in PtIndex \ {Pointer} : tables[r][j] = Absent
        BY <1>1, EntryTypes DEF Node
      <4>. QED  BY <4>1, <4>2, <4>3 DEF InMemory
    <3>7. CurrentTables \in States /\ CurrentTables.mem = tables /\ CurrentTables.avail = avail
      <4>1. tables \in [Node -> [PtIndex -> PteType]]
        BY <3>6 DEF InMemory
      <4>. QED  BY <1>1, <4>1, WalkRecords DEF CurrentTables
    <3>. QED  BY <1>1, <3>5, <3>6, <3>7 DEF TablesBegun, Trees, Mapped
  <2>2. TablesBegun(st, KernelVA)
    BY <2>1, IdentityMaps
  <2>. HIDE DEF st
  <2>3. PICK tab : Trees(st.mem, st.avail, tab, {K}) /\ Mapped(st.mem, tab, KernelVA)
    BY <1>3, <2>2 DEF TablesBegun
  <2>4. /\ tables' = st.mem /\ avail' = st.avail /\ kpt' = st.mem[K][Pointer].base
        /\ live' = live /\ vmePanicked' = vmePanicked
    BY <1>3 DEF vme_init, Become, st
  <2>5. K \in Root /\ 0 \in Level /\ 1 \in Level /\ ptlevels \in Level /\ ptlevels \in Nat /\ ptlevels >= 2
    BY VmeBasics DEF Root, Level
  <2>6. PICK vk \in KernelVA : vk \in VA
    BY OrderOfKernel
  <2>7. \A n \in 0 .. ptlevels - 1 : tab[K][vk][ptlevels - n] # NoFrame
    <3>. DEFINE P == {n \in 0 .. ptlevels - 1 : tab[K][vk][ptlevels - n] # NoFrame}
    <3>1. 0 \in P
      <4>1. ptlevels - 0 = ptlevels /\ 0 \in 0 .. ptlevels - 1
        BY <2>5
      <4>2. tab[K][vk][ptlevels] # NoFrame
        BY <2>3, <2>6 DEF Mapped
      <4>. QED  BY <4>1, <4>2
    <3>2. ASSUME NEW n \in 1 .. ptlevels - 1, n - 1 \in P PROVE n \in P
      <4>1. ptlevels - (n - 1) \in 1 .. ptlevels /\ ptlevels - (n - 1) - 1 = ptlevels - n
        BY <2>5
      <4>2. tab[K][vk][ptlevels - (n - 1)] # NoFrame => tab[K][vk][ptlevels - (n - 1) - 1] # NoFrame
        BY <2>3, <2>5, <2>6, <4>1 DEF Trees, Shape
      <4>. QED  BY <2>5, <3>2, <4>1, <4>2
    <3>3. \A n \in 0 .. ptlevels - 1 : n \in P
      <4>. HIDE DEF P
      <4>. QED  BY <2>5, <3>1, <3>2, UpTo
    <3>. QED  BY <3>3
  <2>8. tab[K][vk][1] # NoFrame
    <3>1. ptlevels - 1 \in 0 .. ptlevels - 1 /\ ptlevels - (ptlevels - 1) = 1
      BY <2>5
    <3>. QED  BY <2>7, <3>1
  <2>9. kpt' = tab[K][vk][1]
    <3>1. tab[K][vk][0] = K /\ K # NoFrame
      BY <2>3, <2>5, <2>6, VmeBasics DEF Trees, Shape, Node
    <3>2. EntryOf(st.mem, tab, K, vk, 0) = Pte(tab[K][vk][1], FALSE)
      <4>1. 0 \in 0 .. ptlevels - 1 /\ 0 + 1 = 1 /\ K \in {K} /\ (K # K) = FALSE
        BY <2>5
      <4>2. EntryOf(st.mem, tab, K, vk, 0) =
              IF tab[K][vk][0 + 1] = NoFrame THEN Absent ELSE Pte(tab[K][vk][0 + 1], K # KernelAs)
        BY <2>3, <2>6, <3>1, <4>1 DEF Trees, InMemory
      <4>. QED  BY <2>8, <4>1, <4>2
    <3>3. EntryOf(st.mem, tab, K, vk, 0) = st.mem[K][Pointer]
      BY <3>1 DEF EntryOf, indexof
    <3>4. Pte(tab[K][vk][1], FALSE).base = tab[K][vk][1]
      BY EntryTypes
    <3>. QED  BY <2>4, <3>2, <3>3, <3>4
  <2>10. \A va \in VA : tab[K][va][1] = kpt'
    <3>1. \A va \in VA : Same(vk, va, 1)
      BY DEF Same
    <3>. QED  BY <2>3, <2>5, <2>6, <2>9, <3>1 DEF Trees, Shape
  <2>11. live' \cup {K} = {K} /\ live' \subseteq AddrSpace
    BY <1>1, <2>4
  <2>12. Holds(tab)'
    BY <2>3, <2>4, <2>10, <2>11 DEF Holds, Held
  <2>. QED  BY <1>1, <2>4, <2>8, <2>9, <2>11, <2>12 DEF VmeInv
<1>. QED  BY <1>2, <1>3

-----------------------------------------------------------------------------
(* What is found through the tables.                                       *)

(* A table has all those above it.                                         *)
LEMMA WayThere ==
    ASSUME NEW tab, NEW av, NEW R, Shape(tab, av, R), NEW r \in Root, NEW va \in VA,
           NEW n \in Level, tab[r][va][n] # NoFrame
    PROVE  r \in R /\ \A k \in 0 .. n : tab[r][va][k] # NoFrame
<1>. DEFINE P == {k \in 0 .. n : tab[r][va][n - k] # NoFrame}
<1>1. n \in Nat
  BY VmeBasics DEF Level
<1>2. 0 \in P
  BY <1>1
<1>3. ASSUME NEW k \in 1 .. n, k - 1 \in P PROVE k \in P
  <2>1. n - (k - 1) \in 1 .. ptlevels /\ n - (k - 1) - 1 = n - k
    BY <1>1, VmeBasics DEF Level
  <2>2. tab[r][va][n - (k - 1)] # NoFrame => tab[r][va][n - (k - 1) - 1] # NoFrame
    BY <2>1 DEF Shape
  <2>. QED  BY <1>1, <1>3, <2>1, <2>2
<1>4. \A k \in 0 .. n : k \in P
  <2>. HIDE DEF P
  <2>. QED  BY <1>1, <1>2, <1>3, UpTo
<1>5. \A k \in 0 .. n : tab[r][va][k] # NoFrame
  <2>1. \A k \in 0 .. n : n - k \in 0 .. n /\ n - (n - k) = k
    BY <1>1
  <2>. QED  BY <1>4, <2>1
<1>6. r \in R
  BY <1>1, <1>5 DEF Shape
<1>. QED  BY <1>5, <1>6

(* A space sees the kernel's part and, of its own, what its entries say.    *)
LEMMA Sees ==
    ASSUME NEW m, NEW av, NEW tab, NEW lv, Held(m, av, tab, lv), NEW s \in lv, NEW va \in VA
    PROVE  Translate(m, s, va) = IF va \in KernelVA THEN Identity(va) ELSE LeafOf(m, tab, s, va).base
<1>. DEFINE K == KernelAs
            R == lv \cup {K}
            N == ptlevels
            leaf == IF va \in KernelVA THEN Identity(va) ELSE LeafOf(m, tab, s, va).base
            W == [n \in 0 .. N + 1 |-> IF n = N + 1 THEN leaf
                                       ELSE IF va \in KernelVA /\ n >= 2 THEN tab[K][va][n] ELSE tab[s][va][n]]
            G(x, n) == IF x = NoFrame THEN NoFrame
                       ELSE LET e == m[x][indexof(va, n)] IN IF e.p THEN e.base ELSE NoFrame
            Goes(f) == f = [n \in 0 .. N + 1 |-> IF n = 0 THEN s ELSE G(f[n - 1], n - 1)]
<1>1. /\ s \in Root /\ s \in R /\ K \in R /\ s # K /\ K \in Root /\ N \in Nat /\ N >= 2
      /\ Shape(tab, av, R) /\ InMemory(m, tab, R) /\ Mapped(m, tab, KernelVA) /\ s \in R \ {K}
      /\ 0 \in Level /\ 1 \in Level /\ N \in Level
  BY VmeBasics DEF Held, Trees, Root, Level
<1>2. tab[s][va][0] = s /\ s # NoFrame
  BY <1>1, VmeBasics DEF Shape, Node
<1>3. va \in KernelVA => \A n \in 0 .. N : tab[K][va][n] # NoFrame
  <2>1. va \in KernelVA => tab[K][va][N] # NoFrame
    BY <1>1 DEF Mapped
  <2>. QED  BY <1>1, <2>1, WayThere
<1>4. \A r \in R, n \in 0 .. N - 1 : tab[r][va][n] # NoFrame /\ (n = 1 => r = K \/ OwnSide(r, va)) =>
          EntryOf(m, tab, r, va, n) = IF tab[r][va][n + 1] = NoFrame THEN Absent ELSE Pte(tab[r][va][n + 1], r # K)
  BY <1>1 DEF InMemory
<1>5. \A x : Pte(x, FALSE).p /\ Pte(x, FALSE).base = x /\ Pte(x, TRUE).p /\ Pte(x, TRUE).base = x
  BY EntryTypes
<1>6. ~Absent.p /\ Absent.base = NoFrame
  BY EntryTypes
<1>7. tab[s][va][1] # NoFrame
  BY <1>1 DEF InMemory
<1>8. \A n \in 1 .. N : tab[s][va][n] # NoFrame => tab[s][va][n - 1] # NoFrame
  BY <1>1 DEF Shape
<1>9. ASSUME NEW n \in 0 .. N - 1, n # 1, tab[s][va][n] # NoFrame PROVE tab[s][va][n + 1] = G(tab[s][va][n], n)
  <2>1. EntryOf(m, tab, s, va, n) = IF tab[s][va][n + 1] = NoFrame THEN Absent ELSE Pte(tab[s][va][n + 1], TRUE)
    BY <1>1, <1>4, <1>9
  <2>. QED  BY <1>5, <1>6, <1>9, <2>1 DEF EntryOf
<1>10. ASSUME va \notin KernelVA, NEW n \in 0 .. N PROVE W[n + 1] = G(W[n], n)
  <2>1. /\ \A k \in 0 .. N : W[k] = tab[s][va][k]
        /\ W[N + 1] = LeafOf(m, tab, s, va).base
    BY <1>1, <1>10, SMTT(60)
  <2>2. n \in Nat /\ n <= N /\ N \in Nat /\ W[n] = tab[s][va][n]
    BY <1>1, <1>10, <2>1
  <2>3. OwnSide(s, va)
    BY <1>1, <1>10 DEF OwnSide
  <2>. HIDE DEF W
  <2>4. CASE n # N
    <3>1. n + 1 \in 1 .. N /\ n + 1 \in 0 .. N /\ n + 1 - 1 = n /\ n \in 0 .. N - 1
      BY <2>4, <2>2
    <3>2. W[n + 1] = tab[s][va][n + 1]
      BY <2>1, <3>1
    <3>3. CASE tab[s][va][n] = NoFrame
      <4>1. tab[s][va][n + 1] # NoFrame => tab[s][va][n + 1 - 1] # NoFrame
        BY <1>8, <3>1
      <4>2. tab[s][va][n + 1] = NoFrame
        BY <3>1, <3>3, <4>1
      <4>3. W[n] = NoFrame
        BY <2>2, <3>3
      <4>4. G(W[n], n) = NoFrame
        BY <4>3
      <4>. QED  BY <3>2, <4>2, <4>4
    <3>4. CASE tab[s][va][n] # NoFrame
      <4>1. EntryOf(m, tab, s, va, n) = IF tab[s][va][n + 1] = NoFrame THEN Absent ELSE Pte(tab[s][va][n + 1], TRUE)
        BY <1>1, <1>4, <2>3, <3>1, <3>4
      <4>2. tab[s][va][n + 1] = G(tab[s][va][n], n)
        BY <1>5, <1>6, <3>4, <4>1, ZenonT(60) DEF EntryOf
      <4>. QED  BY <2>2, <3>2, <4>2
    <3>. QED  BY <3>3, <3>4
  <2>5. CASE n = N
    <3>1. W[n + 1] = LeafOf(m, tab, s, va).base
      BY <2>1, <2>5
    <3>2. CASE tab[s][va][N] = NoFrame
      BY <1>6, <2>5, <2>2, <3>1, <3>2, ZenonT(60) DEF LeafOf
    <3>3. CASE tab[s][va][N] # NoFrame
      <4>1. EntryOf(m, tab, s, va, N) \in {Absent} \cup {Pte(pa, TRUE) : pa \in UserFrame}
        BY <1>1, <1>10, <3>3 DEF InMemory
      <4>2. LET e == EntryOf(m, tab, s, va, N) IN e.base = IF e.p THEN e.base ELSE NoFrame
        BY <1>5, <1>6, <4>1
      <4>. QED  BY <2>5, <2>2, <3>1, <3>3, <4>2 DEF LeafOf, EntryOf
    <3>. QED  BY <3>2, <3>3
  <2>. QED  BY <2>4, <2>5
<1>11. ASSUME va \in KernelVA, NEW n \in 0 .. N PROVE W[n + 1] = G(W[n], n)
  <2>1. CASE n = 0
    <3>1. W[0] = tab[s][va][0] /\ W[0 + 1] = tab[s][va][0 + 1] /\ 0 \in 0 .. N - 1 /\ 0 # 1
      BY <1>1
    <3>2. tab[s][va][0 + 1] = G(tab[s][va][0], 0)
      BY <1>2, <1>9, <3>1, SMTT(60)
    <3>. QED  BY <2>1, <3>1, <3>2
  <2>2. CASE n # 0
    <3>. DEFINE x == tab[K][va][n]
    <3>1. x # NoFrame /\ n \in 1 .. N
      BY <1>3, <1>11, <2>2, SMTT(60)
    <3>2. m[W[n]][indexof(va, n)] = EntryOf(m, tab, K, va, n) /\ W[n] # NoFrame
      <4>1. CASE n = 1
        <5>1. W[n] = tab[s][va][1]
          BY <1>1, <4>1
        <5>2. EntryOf(m, tab, s, va, 1) = EntryOf(m, tab, K, va, 1)
          BY <1>1, <1>11 DEF InMemory
        <5>. QED  BY <1>7, <4>1, <5>1, <5>2 DEF EntryOf
      <4>2. CASE n # 1
        <5>1. W[n] = x
          BY <1>1, <1>11, <2>2, <4>2
        <5>. QED  BY <3>1, <5>1 DEF EntryOf
      <4>. QED  BY <4>1, <4>2
    <3>3. CASE n # N
      <4>1. n \in 0 .. N - 1 /\ n + 1 \in 0 .. N /\ W[n + 1] = tab[K][va][n + 1]
        BY <1>1, <1>11, <2>2, <3>3
      <4>2. EntryOf(m, tab, K, va, n) = IF tab[K][va][n + 1] = NoFrame THEN Absent ELSE Pte(tab[K][va][n + 1], K # K)
        BY <1>1, <1>4, <3>1, <4>1
      <4>3. (K # K) = FALSE /\ tab[K][va][n + 1] # NoFrame
        BY <1>3, <1>11, <4>1
      <4>4. EntryOf(m, tab, K, va, n) = Pte(tab[K][va][n + 1], FALSE)
        BY <4>2, <4>3
      <4>. HIDE DEF W
      <4>. QED  BY <1>5, <3>2, <4>1, <4>4, ZenonT(60)
    <3>4. CASE n = N
      <4>1. W[n + 1] = Identity(va)
        BY <1>1, <1>11, <3>4
      <4>2. EntryOf(m, tab, K, va, n) = Pte(Identity(va), FALSE)
        BY <1>1, <1>11, <3>4 DEF Mapped
      <4>. HIDE DEF W
      <4>. QED  BY <1>5, <3>2, <4>1, <4>2, ZenonT(60)
    <3>. QED  BY <3>3, <3>4
  <2>. QED  BY <2>1, <2>2
<1>12. W[0] = s /\ W[N + 1] = leaf /\ DOMAIN W = 0 .. N + 1 /\ W = [n \in 0 .. N + 1 |-> W[n]]
  BY <1>1, <1>2
<1>. HIDE DEF W, G
<1>13. \A n \in 1 .. N + 1 : W[n] = G(W[n - 1], n - 1)
  <2>1. \A n \in 1 .. N + 1 : n - 1 \in 0 .. N /\ n - 1 + 1 = n
    BY <1>1
  <2>2. \A n \in 0 .. N : W[n + 1] = G(W[n], n)
    BY <1>10, <1>11
  <2>. QED  BY <2>1, <2>2
<1>14. Goes(W)
  <2>1. \A n \in 0 .. N + 1 : n = 0 \/ n \in 1 .. N + 1
    BY <1>1
  <2>2. \A n \in 0 .. N + 1 : W[n] = IF n = 0 THEN s ELSE G(W[n - 1], n - 1)
    BY <1>12, <1>13, <2>1
  <2>. QED  BY <1>12, <2>2
<1>. DEFINE g == CHOOSE f : Goes(f)
<1>15. Goes(g)
  <2>. HIDE DEF Goes
  <2>. QED  BY <1>14
<1>. HIDE DEF g
<1>16. g[N + 1] = W[N + 1]
  <2>. DEFINE P == {k \in 0 .. N + 1 : g[k] = W[k]}
  <2>1. 0 \in P
    BY <1>1, <1>12, <1>15
  <2>2. ASSUME NEW k \in 1 .. N + 1, k - 1 \in P PROVE k \in P
    <3>1. k \in 0 .. N + 1 /\ k # 0
      BY <1>1
    <3>2. g[k] = G(g[k - 1], k - 1)
      BY <1>15, <3>1
    <3>. QED  BY <1>13, <2>2, <3>1, <3>2
  <2>3. \A k \in 0 .. N + 1 : k \in P
    <3>1. N + 1 \in Nat
      BY <1>1
    <3>. HIDE DEF P, N
    <3>. QED  BY <2>1, <2>2, <3>1, UpTo
  <2>. QED  BY <1>1, <2>3
<1>17. Translate(m, s, va) = g[N + 1]
  BY DEF Translate, g, Goes, G
<1>. QED  BY <1>12, <1>16, <1>17

\* What the spaces lv see.
Seen(m, tab, lv) ==
    [s \in lv |-> [va \in VA |-> IF va \in KernelVA THEN Identity(va) ELSE LeafOf(m, tab, s, va).base]]

LEMMA Views ==
    ASSUME NEW m, NEW av, NEW tab, NEW lv, Held(m, av, tab, lv)
    PROVE  [s \in lv |-> [va \in VA |-> Translate(m, s, va)]] = Seen(m, tab, lv)
<1>1. \A s \in lv, va \in VA :
        Translate(m, s, va) = IF va \in KernelVA THEN Identity(va) ELSE LeafOf(m, tab, s, va).base
  BY Sees
<1>. QED  BY <1>1 DEF Seen

-----------------------------------------------------------------------------
(* protect.                                                                *)

\* The root s comes, with page pg for its first table; or it goes.
Joined(tab, s, pg) ==
    [q \in Root |-> [vb \in VA |-> [k \in Level |->
        IF q = s THEN IF k = 0 THEN s ELSE IF k = 1 THEN pg ELSE NoFrame ELSE tab[q][vb][k]]]]
Left(tab, s) == [q \in Root |-> [vb \in VA |-> [k \in Level |-> IF q = s THEN NoFrame ELSE tab[q][vb][k]]]]

LEMMA JoinedShape ==
    ASSUME NEW tab, NEW av, NEW R, Shape(tab, av, R), NEW s \in Root \ R, NEW pg \in av
    PROVE  Shape(Joined(tab, s, pg), av \ {pg}, R \cup {s}) /\ NotIn(tab, pg)
<1>. DEFINE tab2 == Joined(tab, s, pg)
<1>1. /\ pg \in PageFrame /\ pg # NoFrame /\ pg \notin Root /\ av \subseteq PageFrame
      /\ R \subseteq Root /\ KernelAs \in R /\ s \in Node /\ s # NoFrame /\ s # KernelAs
      /\ 0 \in Level /\ 1 \in Level /\ 1 .. ptlevels \subseteq Level /\ ptlevels \in Nat /\ ptlevels >= 2
  BY VmeBasics DEF Shape, Node, Level
<1>2. \A q \in Root, vb \in VA, k \in Level :
        tab2[q][vb][k] = IF q = s THEN IF k = 0 THEN s ELSE IF k = 1 THEN pg ELSE NoFrame ELSE tab[q][vb][k]
  BY DEF Joined
<1>3. \A vb \in VA, k \in Level : tab[s][vb][k] = NoFrame
  BY WayThere
<1>4. \A q \in Root, vb \in VA : tab[q][vb][0] = IF q \in R THEN q ELSE NoFrame
  BY DEF Shape
<1>5. \A q \in Root, vb \in VA, k \in 1 .. ptlevels : tab[q][vb][k] \in PageFrame \cup {NoFrame} /\ tab[q][vb][k] # pg
  BY <1>1 DEF Shape
<1>6. \A q \in Root, vb \in VA, k \in Level : tab[q][vb][k] # pg /\ (q # s => tab[q][vb][k] # s)
  <2>. SUFFICES ASSUME NEW q \in Root, NEW vb \in VA, NEW k \in Level
                PROVE  tab[q][vb][k] # pg /\ (q # s => tab[q][vb][k] # s)
    OBVIOUS
  <2>1. CASE k = 0
    BY <1>1, <1>4, <2>1
  <2>2. CASE k # 0
    <3>1. k \in 1 .. ptlevels
      BY <2>2 DEF Level
    <3>. QED  BY <1>1, <1>5, <3>1, VmeBasics
  <2>. QED  BY <2>1, <2>2
<1>7. tab2 \in [Root -> [VA -> [Level -> Node \cup {NoFrame}]]]
  <2>1. \A q \in Root, vb \in VA, k \in Level : tab[q][vb][k] \in Node \cup {NoFrame}
    BY DEF Shape
  <2>2. pg \in Node
    BY <1>1 DEF Node
  <2>. QED  BY <1>1, <2>1, <2>2 DEF Joined
<1>8. ASSUME NEW q \in Root, NEW vb \in VA
      PROVE  /\ tab2[q][vb][0] = IF q \in R \cup {s} THEN q ELSE NoFrame
             /\ \A k \in 1 .. ptlevels :
                  /\ tab2[q][vb][k] \in PageFrame \cup {NoFrame}
                  /\ tab2[q][vb][k] # NoFrame => tab2[q][vb][k - 1] # NoFrame
                  /\ k >= 2 /\ tab2[q][vb][k] # NoFrame => OwnSide(q, vb)
  <2>1. tab2[q][vb][0] = IF q \in R \cup {s} THEN q ELSE NoFrame
    BY <1>1, <1>2, <1>4
  <2>2. ASSUME NEW k \in 1 .. ptlevels
        PROVE  /\ tab2[q][vb][k] \in PageFrame \cup {NoFrame}
               /\ tab2[q][vb][k] # NoFrame => tab2[q][vb][k - 1] # NoFrame
               /\ k >= 2 /\ tab2[q][vb][k] # NoFrame => OwnSide(q, vb)
    <3>1. k \in Level /\ k - 1 \in Level /\ k # 0
      BY <1>1 DEF Level
    <3>2. CASE q = s
      <4>1. tab2[q][vb][k] = IF k = 1 THEN pg ELSE NoFrame
        BY <1>2, <3>1, <3>2
      <4>2. k = 1 => tab2[q][vb][k - 1] = s
        BY <1>1, <1>2, <3>2
      <4>. QED  BY <1>1, <4>1, <4>2
    <3>3. CASE q # s
      <4>1. tab2[q][vb][k] = tab[q][vb][k] /\ tab2[q][vb][k - 1] = tab[q][vb][k - 1]
        BY <1>2, <3>1, <3>3
      <4>2. /\ tab[q][vb][k] \in PageFrame \cup {NoFrame}
            /\ tab[q][vb][k] # NoFrame => tab[q][vb][k - 1] # NoFrame
            /\ k >= 2 /\ tab[q][vb][k] # NoFrame => OwnSide(q, vb)
        BY DEF Shape
      <4>. QED  BY <4>1, <4>2
    <3>. QED  BY <3>2, <3>3
  <2>. QED  BY <2>1, <2>2
<1>9. ASSUME NEW q \in Root, NEW vb \in VA, NEW vc \in VA, NEW k \in Level, Same(vb, vc, k)
      PROVE  tab2[q][vb][k] = tab2[q][vc][k]
  <2>1. tab[q][vb][k] = tab[q][vc][k]
    BY <1>9 DEF Shape
  <2>. QED  BY <1>2, <2>1
<1>10. ASSUME NEW p \in Root, NEW q \in Root, NEW vb \in VA, NEW vc \in VA, NEW k \in Level, NEW l \in Level,
              tab2[p][vb][k] = tab2[q][vc][l], tab2[p][vb][k] # NoFrame
       PROVE  p = q /\ k = l /\ Same(vb, vc, k)
  <2>1. CASE p = s
    <3>1. q = s
      BY <1>1, <1>2, <1>6, <1>10, <2>1
    <3>2. k = l /\ k \in {0, 1}
      BY <1>1, <1>2, <1>10, <2>1, <3>1
    <3>3. Same(vb, vc, 0) /\ Same(vb, vc, 1)
      BY DEF Same
    <3>. QED  BY <2>1, <3>1, <3>2, <3>3
  <2>2. CASE p # s
    <3>1. q # s
      BY <1>1, <1>2, <1>6, <1>10, <2>2
    <3>2. tab[p][vb][k] = tab[q][vc][l] /\ tab[p][vb][k] # NoFrame
      BY <1>2, <1>10, <2>2, <3>1
    <3>. QED  BY <3>2 DEF Shape
  <2>. QED  BY <2>1, <2>2
<1>11. ASSUME NEW f \in PageFrame
       PROVE  f \notin av \ {pg} <=> \E q \in Root, vb \in VA, k \in 1 .. ptlevels : tab2[q][vb][k] = f
  <2>1. CASE f = pg
    <3>1. PICK vb : vb \in VA
      BY OrderOfKernel
    <3>2. tab2[s][vb][1] = pg /\ 1 \in 1 .. ptlevels
      BY <1>1, <1>2, <3>1
    <3>. QED  BY <2>1, <3>1, <3>2
  <2>2. CASE f # pg
    <3>1. f # NoFrame /\ f \notin Root
      BY VmeBasics DEF Node
    <3>2. \A q \in Root, vb \in VA, k \in 1 .. ptlevels : tab2[q][vb][k] = f <=> tab[q][vb][k] = f
      <4>1. \A q \in Root, vb \in VA, k \in 1 .. ptlevels : k \in Level /\ k # 0
        BY <1>1
      <4>. QED  BY <1>2, <1>3, <2>2, <3>1, <4>1
    <3>3. f \notin av <=> \E q \in Root, vb \in VA, k \in 1 .. ptlevels : tab[q][vb][k] = f
      BY DEF Shape
    <3>. QED  BY <2>2, <3>2, <3>3
  <2>. QED  BY <2>1, <2>2
<1>. HIDE DEF tab2
<1>12. av \ {pg} \subseteq PageFrame /\ R \cup {s} \subseteq Root /\ KernelAs \in R \cup {s}
  BY <1>1
<1>13. Shape(tab2, av \ {pg}, R \cup {s})
  BY <1>7, <1>8, <1>9, <1>10, <1>11, <1>12 DEF Shape
<1>. QED  BY <1>6, <1>13 DEF tab2, NotIn

\* What a new space has: the kernel's part.
NewSpace == [va \in VA |-> IF va \in KernelVA THEN Identity(va) ELSE NoFrame]

\* Page pg becomes the first table of s, with entries of the table k0.
JoinedMem(m, m2, s, pg, k0) ==
    \A x \in Node, j \in PtIndex :
        m2[x][j] = IF x = s /\ j = Pointer THEN Pte(pg, TRUE)
                   ELSE IF x = pg THEN IF j \in UserTop THEN Absent ELSE m[k0][j]
                   ELSE m[x][j]

JoinedSeen(m, tab, lv, m2, tab2, s) ==
    Seen(m2, tab2, lv \cup {s}) = [t \in lv \cup {s} |-> IF t = s THEN NewSpace ELSE Seen(m, tab, lv)[t]]

TopIs(tab, k0) == \A va \in VA : tab[KernelAs][va][1] = k0

(* A space is added with a first table in page pg.                         *)
LEMMA Joins ==
    ASSUME NEW m, NEW av, NEW tab, NEW lv, Held(m, av, tab, lv), NEW s \in AddrSpace \ lv, NEW pg \in av,
           NEW k0, k0 # NoFrame, TopIs(tab, k0),
           NEW m2 \in [Node -> [PtIndex -> PteType]], JoinedMem(m, m2, s, pg, k0)
    PROVE  /\ Held(m2, av \ {pg}, Joined(tab, s, pg), lv \cup {s})
           /\ JoinedSeen(m, tab, lv, m2, Joined(tab, s, pg), s)
           /\ TopIs(Joined(tab, s, pg), k0)
<1>. DEFINE K == KernelAs
            R == lv \cup {K}
            tab2 == Joined(tab, s, pg)
            N == ptlevels
<1>1. /\ s \in Root \ R /\ s \in Root /\ s # K /\ K \in Root /\ K \in R /\ N \in Nat /\ N >= 2 /\ lv \subseteq AddrSpace
      /\ 0 \in Level /\ 1 \in Level /\ N \in Level /\ Shape(tab, av, R) /\ InMemory(m, tab, R)
      /\ Mapped(m, tab, KernelVA) /\ R \subseteq Root /\ s \in Node
  BY VmeBasics DEF Held, Trees, Root, Level, Node
<1>2. Shape(tab2, av \ {pg}, R \cup {s}) /\ NotIn(tab, pg)
  BY <1>1, JoinedShape
<1>3. \A q \in Root, vb \in VA, k \in Level :
        tab2[q][vb][k] = IF q = s THEN IF k = 0 THEN s ELSE IF k = 1 THEN pg ELSE NoFrame ELSE tab[q][vb][k]
  BY DEF Joined
<1>4. pg \in PageFrame /\ pg # NoFrame /\ pg \in Node /\ pg # s /\ s # NoFrame
  BY <1>1, VmeBasics DEF Shape, Node
<1>5. \A vb \in VA, k \in Level : indexof(vb, k) \in PtIndex
  BY VmeBasics DEF Level
<1>6. ASSUME NEW q \in Root, q # s, NEW vb \in VA, NEW k \in Level, tab[q][vb][k] # NoFrame
      PROVE  EntryOf(m2, tab2, q, vb, k) = EntryOf(m, tab, q, vb, k) /\ tab2[q][vb][k] = tab[q][vb][k]
  <2>1. tab[q][vb][k] \in Node /\ tab[q][vb][k] # pg
    BY <1>1, <1>2, <1>6 DEF Shape, NotIn
  <2>2. tab[q][vb][k] # s
    <3>1. CASE k = 0
      BY <1>1, <1>6, <3>1 DEF Shape
    <3>2. CASE k # 0
      <4>1. k \in 1 .. N
        BY <3>2 DEF Level
      <4>2. tab[q][vb][k] \in PageFrame
        BY <1>1, <1>6, <4>1 DEF Shape
      <4>. QED  BY <1>1, <4>2, VmeBasics
    <3>. QED  BY <3>1, <3>2
  <2>3. tab2[q][vb][k] = tab[q][vb][k]
    BY <1>3, <1>6
  <2>4. indexof(vb, k) \in PtIndex
    BY <1>5
  <2>. HIDE DEF tab2
  <2>. QED  BY <2>1, <2>2, <2>3, <2>4, ZenonT(60) DEF EntryOf, JoinedMem
<1>. HIDE DEF tab2
<1>7. \A vb \in VA : /\ tab2[s][vb][0] = s /\ tab2[s][vb][1] = pg
                     /\ \A k \in Level : k # 0 /\ k # 1 => tab2[s][vb][k] = NoFrame
  BY <1>1, <1>3
<1>8. \A vb \in VA : EntryOf(m2, tab2, s, vb, 0) = Pte(pg, TRUE)
  <2>1. \A vb \in VA : indexof(vb, 0) = Pointer
    BY DEF indexof
  <2>. QED  BY <1>1, <1>7, <2>1, VmeBasics DEF EntryOf, JoinedMem
<1>9. \A vb \in VA : EntryOf(m2, tab2, s, vb, 1) = IF vb \in KernelVA THEN EntryOf(m, tab, K, vb, 1) ELSE Absent
  <2>. SUFFICES ASSUME NEW vb \in VA
                PROVE  EntryOf(m2, tab2, s, vb, 1) = IF vb \in KernelVA THEN EntryOf(m, tab, K, vb, 1) ELSE Absent
    OBVIOUS
  <2>1. indexof(vb, 1) = vb[1] /\ vb[1] \in PtIndex /\ (vb \in KernelVA <=> vb[1] \notin UserTop)
    BY <1>1, <1>5 DEF indexof, KernelVA
  <2>2. EntryOf(m2, tab2, s, vb, 1) = m2[pg][vb[1]]
    BY <1>7, <2>1 DEF EntryOf
  <2>3. m2[pg][vb[1]] = IF vb[1] \in UserTop THEN Absent ELSE m[k0][vb[1]]
    BY <1>4, <2>1 DEF JoinedMem
  <2>4. EntryOf(m, tab, K, vb, 1) = m[k0][vb[1]]
    BY <2>1 DEF EntryOf, TopIs
  <2>. QED  BY <2>1, <2>2, <2>3, <2>4
<1>10. ASSUME NEW r \in R \cup {s}, NEW vb \in VA, NEW k \in 0 .. N - 1,
              tab2[r][vb][k] # NoFrame, k = 1 => r = K \/ OwnSide(r, vb)
       PROVE  EntryOf(m2, tab2, r, vb, k) =
                IF tab2[r][vb][k + 1] = NoFrame THEN Absent ELSE Pte(tab2[r][vb][k + 1], r # K)
  <2>1. k \in Level /\ k + 1 \in Level
    BY <1>1 DEF Level
  <2>2. CASE r = s
    <3>0. (s # K) = TRUE
      BY <1>1
    <3>1. CASE k = 0
      <4>1. tab2[s][vb][0 + 1] = pg
        BY <1>7
      <4>. QED  BY <1>4, <1>8, <2>2, <3>0, <3>1, <4>1
    <3>2. CASE k = 1
      <4>1. vb \notin KernelVA
        BY <1>1, <1>10, <2>2, <3>2 DEF OwnSide
      <4>2. tab2[s][vb][1 + 1] = NoFrame
        BY <1>7, <2>1, <3>2
      <4>. QED  BY <1>9, <2>2, <3>2, <4>1, <4>2
    <3>. QED  BY <1>7, <1>10, <2>1, <2>2, <3>1, <3>2
  <2>3. CASE r # s
    <3>1. r \in R /\ r \in Root /\ tab[r][vb][k] # NoFrame /\ tab2[r][vb][k + 1] = tab[r][vb][k + 1]
      BY <1>1, <1>3, <1>10, <2>1, <2>3 DEF tab2
    <3>2. EntryOf(m2, tab2, r, vb, k) = EntryOf(m, tab, r, vb, k)
      BY <1>6, <2>1, <2>3, <3>1
    <3>. QED  BY <1>1, <1>10, <3>1, <3>2 DEF InMemory
  <2>. QED  BY <2>2, <2>3
<1>11. \A vb \in VA : /\ tab[K][vb][1] # NoFrame /\ tab2[K][vb][1] = tab[K][vb][1]
                      /\ EntryOf(m2, tab2, K, vb, 1) = EntryOf(m, tab, K, vb, 1)
  <2>1. \A vb \in VA : tab[K][vb][1] # NoFrame
    BY DEF TopIs
  <2>. QED  BY <1>1, <1>6, <2>1
<1>12. ASSUME NEW q \in (R \cup {s}) \ {K}, NEW vb \in VA
       PROVE  /\ tab2[q][vb][1] # NoFrame /\ tab2[K][vb][1] # NoFrame
              /\ vb \in KernelVA => EntryOf(m2, tab2, q, vb, 1) = EntryOf(m2, tab2, K, vb, 1)
              /\ vb \notin KernelVA /\ tab2[q][vb][N] # NoFrame =>
                   EntryOf(m2, tab2, q, vb, N) \in {Absent} \cup {Pte(pa, TRUE) : pa \in UserFrame}
  <2>1. CASE q = s
    <3>1. tab2[s][vb][1] # NoFrame /\ tab2[K][vb][1] # NoFrame
      BY <1>4, <1>7, <1>11
    <3>2. vb \in KernelVA => EntryOf(m2, tab2, s, vb, 1) = EntryOf(m2, tab2, K, vb, 1)
      BY <1>9, <1>11
    <3>3. tab2[s][vb][N] = NoFrame
      BY <1>1, <1>7
    <3>. QED  BY <2>1, <3>1, <3>2, <3>3
  <2>2. CASE q # s
    <3>1. q \in R \ {K} /\ q \in Root
      BY <1>1, <2>2
    <3>2. /\ tab[q][vb][1] # NoFrame
          /\ vb \in KernelVA => EntryOf(m, tab, q, vb, 1) = EntryOf(m, tab, K, vb, 1)
          /\ vb \notin KernelVA /\ tab[q][vb][N] # NoFrame =>
               EntryOf(m, tab, q, vb, N) \in {Absent} \cup {Pte(pa, TRUE) : pa \in UserFrame}
      BY <1>1, <3>1 DEF InMemory
    <3>3. tab2[q][vb][1] = tab[q][vb][1] /\ EntryOf(m2, tab2, q, vb, 1) = EntryOf(m, tab, q, vb, 1)
      BY <1>1, <1>6, <2>2, <3>1, <3>2
    <3>4. tab2[q][vb][N] # NoFrame =>
            tab[q][vb][N] # NoFrame /\ EntryOf(m2, tab2, q, vb, N) = EntryOf(m, tab, q, vb, N)
      BY <1>1, <1>3, <1>6, <2>2, <3>1 DEF tab2
    <3>. QED  BY <1>11, <3>2, <3>3, <3>4
  <2>. QED  BY <2>1, <2>2
<1>13. \A r \in Root, j \in PtIndex \ {Pointer} : m2[r][j] = Absent
  <2>1. \A r \in Root, j \in PtIndex \ {Pointer} : m[r][j] = Absent /\ r \in Node /\ r # pg
    BY <1>1, <1>4, VmeBasics DEF InMemory, Node
  <2>. QED  BY <2>1 DEF JoinedMem
<1>14. InMemory(m2, tab2, R \cup {s})
  BY <1>10, <1>12, <1>13 DEF InMemory
<1>15. Mapped(m2, tab2, KernelVA)
  <2>1. \A vb \in KernelVA : vb \in VA /\ tab[K][vb][N] # NoFrame /\ EntryOf(m, tab, K, vb, N) = Pte(Identity(vb), FALSE)
    BY <1>1, OrderOfKernel DEF Mapped
  <2>2. \A vb \in KernelVA : tab2[K][vb][N] = tab[K][vb][N] /\ EntryOf(m2, tab2, K, vb, N) = EntryOf(m, tab, K, vb, N)
    <3>. SUFFICES ASSUME NEW vb \in KernelVA
                  PROVE  tab2[K][vb][N] = tab[K][vb][N] /\ EntryOf(m2, tab2, K, vb, N) = EntryOf(m, tab, K, vb, N)
      OBVIOUS
    <3>. QED  BY <1>1, <1>6, <2>1
  <2>. QED  BY <2>1, <2>2 DEF Mapped
<1>16. Held(m2, av \ {pg}, tab2, lv \cup {s})
  <2>1. (lv \cup {s}) \cup {K} = R \cup {s} /\ lv \cup {s} \subseteq AddrSpace
    BY <1>1
  <2>. HIDE DEF R
  <2>. QED  BY <1>2, <1>14, <1>15, <2>1 DEF Held, Trees, tab2
<1>17. \A vb \in VA : LeafOf(m2, tab2, s, vb).base = NoFrame
  BY <1>1, <1>7, EntryTypes DEF LeafOf
<1>18. \A t \in lv, vb \in VA : LeafOf(m2, tab2, t, vb) = LeafOf(m, tab, t, vb)
  <2>. SUFFICES ASSUME NEW t \in lv, NEW vb \in VA PROVE LeafOf(m2, tab2, t, vb) = LeafOf(m, tab, t, vb)
    OBVIOUS
  <2>1. t \in Root /\ t # s
    BY <1>1 DEF Root
  <2>2. tab2[t][vb][N] = tab[t][vb][N]
    BY <1>1, <1>3, <2>1 DEF tab2
  <2>3. tab[t][vb][N] # NoFrame => EntryOf(m2, tab2, t, vb, N) = EntryOf(m, tab, t, vb, N)
    BY <1>1, <1>6, <2>1
  <2>. QED  BY <2>2, <2>3 DEF LeafOf
<1>19. Seen(m2, tab2, lv \cup {s}) = [t \in lv \cup {s} |-> IF t = s THEN NewSpace ELSE Seen(m, tab, lv)[t]]
  <2>1. Seen(m2, tab2, lv \cup {s}) = [t \in lv \cup {s} |-> [va \in VA |->
          IF va \in KernelVA THEN Identity(va) ELSE LeafOf(m2, tab2, t, va).base]]
    BY DEF Seen
  <2>2. \A t \in lv : Seen(m, tab, lv)[t] = [va \in VA |->
          IF va \in KernelVA THEN Identity(va) ELSE LeafOf(m2, tab2, t, va).base]
    BY <1>18 DEF Seen
  <2>3. NewSpace = [va \in VA |-> IF va \in KernelVA THEN Identity(va) ELSE LeafOf(m2, tab2, s, va).base]
    BY <1>17 DEF NewSpace
  <2>. QED  BY <2>1, <2>2, <2>3
<1>20. TopIs(tab2, k0)
  BY <1>11 DEF TopIs
<1>. QED  BY <1>16, <1>19, <1>20 DEF tab2, JoinedSeen

\* The state changes, by tables like those before, so that spaces see it like f.
Becomes(f) ==
    /\ UNCHANGED <<kpt, vmePanicked>> /\ live' \subseteq AddrSpace
    /\ \E tab : Holds(tab)' /\ Seen(tables', tab, live') = f

LEMMA Protects ==
    ASSUME VmeInv, NEW s \in AddrSpace, protect_as(s)
    PROVE  \/ VmePanic
           \/ s \notin live /\ \E tab : Holds(tab)
                /\ Becomes([t \in live \cup {s} |-> IF t = s THEN NewSpace ELSE Seen(tables, tab, live)[t]])
                /\ live' = live \cup {s}
<1>. DEFINE st == pgallocz(CurrentTables, s, Pointer, TRUE)
            pg == Min(avail)
            upt == st.mem[s][Pointer].base
            top == [i \in PtIndex |-> IF i \in UserTop THEN Absent ELSE tables[kpt][i]]
            m2 == [st.mem EXCEPT ![upt] = top]
<1>1. kpt # NoFrame /\ ~vmePanicked /\ s \notin live
  BY DEF protect_as, VmeReady
<1>2. PICK tab : Holds(tab)
  BY <1>1 DEF VmeInv
<1>3. /\ tables \in [Node -> [PtIndex -> PteType]] /\ avail \subseteq PageFrame /\ live \subseteq AddrSpace
      /\ \A va \in VA : tab[KernelAs][va][1] = kpt
  BY <1>2 DEF Holds, Held, Trees, InMemory, Shape
<1>4. CASE avail = {}
  <2>1. ~st.ok
    BY <1>4 DEF pgallocz, CurrentTables
  <2>. QED  BY <2>1 DEF protect_as
<1>5. CASE avail # {}
  <2>1. pg \in avail
    BY <1>3, <1>5, FreePage
  <2>2. pg \in PageFrame /\ pg \in Node /\ s \in Node /\ s # pg /\ Pointer \in PtIndex /\ s \in Root
    BY <1>3, <2>1, VmeBasics DEF Node, Root
  <2>3. st = [mem |-> GrownMem(tables, s, Pointer, pg, TRUE), avail |-> avail \ {pg}, ok |-> TRUE]
    BY <1>5 DEF pgallocz, CurrentTables, GrownMem
  <2>. HIDE DEF st, pg
  <2>4. st.ok /\ st.avail = avail \ {pg} /\ st.mem = GrownMem(tables, s, Pointer, pg, TRUE)
    BY <2>3
  <2>5. /\ st.mem \in [Node -> [PtIndex -> PteType]]
        /\ \A x \in Node, j \in PtIndex :
             st.mem[x][j] = IF x = s /\ j = Pointer THEN Pte(pg, TRUE) ELSE IF x = pg THEN Absent ELSE tables[x][j]
    <3>. DEFINE u == TRUE
    <3>1. u \in BOOLEAN
      OBVIOUS
    <3>. HIDE DEF u
    <3>2. /\ GrownMem(tables, s, Pointer, pg, u) \in [Node -> [PtIndex -> PteType]]
          /\ \A x \in Node, j \in PtIndex :
               GrownMem(tables, s, Pointer, pg, u)[x][j] =
                 IF x = s /\ j = Pointer THEN Pte(pg, u) ELSE IF x = pg THEN Absent ELSE tables[x][j]
      BY <1>3, <2>2, <3>1, Grown
    <3>3. st.mem = GrownMem(tables, s, Pointer, pg, u)
      BY <2>4 DEF u
    <3>4. /\ st.mem \in [Node -> [PtIndex -> PteType]]
          /\ \A x \in Node, j \in PtIndex :
               st.mem[x][j] = IF x = s /\ j = Pointer THEN Pte(pg, u) ELSE IF x = pg THEN Absent ELSE tables[x][j]
      BY <3>2, <3>3
    <3>. QED  BY <3>4, Zenon DEF u
  <2>6. upt = pg
    <3>1. st.mem[s][Pointer] = Pte(pg, TRUE)
      BY <2>2, <2>5
    <3>2. \A x : Pte(x, TRUE).base = x
      BY EntryTypes
    <3>. QED  BY <3>1, <3>2
  <2>7. kpt \in Node
    <3>1. PICK va : va \in VA
      BY OrderOfKernel
    <3>2. tab[KernelAs][va][1] \in Node \cup {NoFrame}
      BY <1>2, <3>1, VmeBasics, SMTT(60) DEF Holds, Held, Trees, Shape, Level, Root
    <3>. QED  BY <1>1, <1>3, <3>1, <3>2
  <2>8. top \in [PtIndex -> PteType] /\ \A j \in PtIndex : top[j] = IF j \in UserTop THEN Absent ELSE tables[kpt][j]
    BY <1>3, <2>7, EntryTypes
  <2>. HIDE DEF top, upt
  <2>9. /\ m2 \in [Node -> [PtIndex -> PteType]]
        /\ JoinedMem(tables, m2, s, pg, kpt)
    BY <2>2, <2>5, <2>6, <2>8 DEF JoinedMem
  <2>10. /\ tables' = m2 /\ avail' = avail \ {pg} /\ live' = live \cup {s}
         /\ kpt' = kpt /\ vmePanicked' = vmePanicked
    <3>1. Become([st EXCEPT !.mem[upt] = top]) /\ live' = live \cup {s} /\ UNCHANGED <<kpt, vmePanicked>>
      BY <2>4 DEF protect_as, st, upt, top
    <3>2. [st EXCEPT !.mem[upt] = top].mem = m2 /\ [st EXCEPT !.mem[upt] = top].avail = st.avail
      BY <2>3
    <3>. QED  BY <2>4, <3>1, <3>2 DEF Become
  <2>. HIDE DEF m2
  <2>. PICK tab2 : tab2 = Joined(tab, s, pg)
    OBVIOUS
  <2>. DEFINE f == [t \in live \cup {s} |-> IF t = s THEN NewSpace ELSE Seen(tables, tab, live)[t]]
  <2>11. /\ Held(m2, avail \ {pg}, tab2, live \cup {s})
         /\ JoinedSeen(tables, tab, live, m2, tab2, s) /\ TopIs(tab2, kpt)
    <3>1. Held(tables, avail, tab, live) /\ s \in AddrSpace \ live /\ TopIs(tab, kpt)
      BY <1>1, <1>2 DEF Holds, TopIs
    <3>. QED  BY <1>1, <2>1, <2>9, <3>1, Joins
  <2>12. Holds(tab2)' /\ Seen(tables', tab2, live') = f
    BY <2>10, <2>11 DEF Holds, TopIs, JoinedSeen
  <2>. HIDE DEF f
  <2>13. Becomes(f)
    BY <1>1, <1>3, <2>10, <2>12 DEF Becomes
  <2>. QED  BY <1>1, <1>2, <2>10, <2>13 DEF f
<1>. QED  BY <1>4, <1>5

-----------------------------------------------------------------------------
(* The tables of a level.                                                  *)

TablesAt(tab, r, n) == {tab[r][va][n] : va \in VA} \ {NoFrame}

\* Where the entries of the tables T lead: all, and those of the user.
Led(m, T) == UNION {{m[t][i].base : i \in {j \in PtIndex : m[t][j].p}} : t \in T}
LedUser(m, T) == UNION {{m[t][i].base : i \in {j \in PtIndex : m[t][j].p /\ m[t][j].u}} : t \in T}

\* Entry e of a table at level n is on the way of va from r; or on that from
\* the kernel's root.
Own(m, tab, r, va, n, e) == tab[r][va][n + 1] # NoFrame /\ e = Pte(tab[r][va][n + 1], r # KernelAs)
Shared(tab, r, va, n, e) ==
    n = 1 /\ r # KernelAs /\ tab[KernelAs][va][2] # NoFrame /\ e = Pte(tab[KernelAs][va][2], FALSE)

LEMMA EntryFrom ==
    ASSUME NEW m, NEW av, NEW tab, NEW R, Trees(m, av, tab, R), NEW r \in R, NEW va \in VA,
           NEW n \in 0 .. ptlevels - 1, tab[r][va][n] # NoFrame,
           NEW j \in PtIndex, m[tab[r][va][n]][j].p
    PROVE  \E vb \in VA : Own(m, tab, r, vb, n, m[tab[r][va][n]][j]) \/ Shared(tab, r, vb, n, m[tab[r][va][n]][j])
<1>. DEFINE K == KernelAs
            x == tab[r][va][n]
            e == m[x][j]
<1>1. /\ Shape(tab, av, R) /\ InMemory(m, tab, R) /\ R \subseteq Root /\ r \in Root /\ K \in R
      /\ ptlevels \in Nat /\ ptlevels >= 2 /\ n \in Level /\ 0 \in Level
  BY VmeBasics, SMTT(60) DEF Trees, Shape, Level
<1>2. PICK vb \in VA : tab[r][vb][n] = x /\ indexof(vb, n) = j
  <2>1. CASE n = 0
    <3>1. x = r
      BY <1>1, <2>1 DEF Shape
    <3>2. j = Pointer
      <4>1. j # Pointer => m[r][j] = Absent
        BY <1>1 DEF InMemory
      <4>. QED  BY <3>1, <4>1, EntryTypes
    <3>. QED  BY <2>1, <3>2 DEF indexof
  <2>2. CASE n # 0
    <3>. DEFINE vb == [va EXCEPT ![n] = j]
    <3>1. n \in 1 .. ptlevels
      BY <1>1, <2>2
    <3>2. vb \in VA /\ Same(va, vb, n)
      BY <3>1, VmeBasics
    <3>3. vb[n] = j
      BY <3>1 DEF VA
    <3>4. indexof(vb, n) = j
      BY <2>2, <3>3 DEF indexof
    <3>5. tab[r][vb][n] = x
      BY <1>1, <3>2 DEF Shape
    <3>. QED  BY <3>2, <3>4, <3>5
  <2>. QED  BY <2>1, <2>2
<1>3. e = EntryOf(m, tab, r, vb, n) /\ e # Absent
  BY <1>2, EntryTypes DEF EntryOf
<1>4. CASE n = 1 => r = K \/ OwnSide(r, vb)
  <2>1. e = IF tab[r][vb][n + 1] = NoFrame THEN Absent ELSE Pte(tab[r][vb][n + 1], r # K)
    BY <1>1, <1>2, <1>3, <1>4 DEF InMemory
  <2>2. Own(m, tab, r, vb, n, e)
    BY <1>3, <2>1 DEF Own
  <2>. QED  BY <2>2
<1>5. CASE n = 1 /\ r # K /\ ~OwnSide(r, vb)
  <2>1. vb \in KernelVA /\ r \in R \ {K}
    BY <1>5 DEF OwnSide
  <2>2. e = EntryOf(m, tab, K, vb, 1) /\ tab[K][vb][1] # NoFrame
    BY <1>1, <1>3, <1>5, <2>1 DEF InMemory
  <2>3. 1 \in 0 .. ptlevels - 1 /\ 1 + 1 = 2 /\ (K # K) = FALSE
    BY <1>1
  <2>4. EntryOf(m, tab, K, vb, 1) = IF tab[K][vb][1 + 1] = NoFrame THEN Absent ELSE Pte(tab[K][vb][1 + 1], K # KernelAs)
    BY <1>1, <2>2, <2>3 DEF InMemory
  <2>5. e = IF tab[K][vb][2] = NoFrame THEN Absent ELSE Pte(tab[K][vb][2], FALSE)
    BY <2>2, <2>3, <2>4
  <2>6. Shared(tab, r, vb, n, e)
    BY <1>3, <1>5, <2>5 DEF Shared
  <2>. QED  BY <2>6
<1>. QED  BY <1>4, <1>5

LEMMA EntryTo ==
    ASSUME NEW m, NEW av, NEW tab, NEW R, Trees(m, av, tab, R), NEW r \in R, NEW va \in VA,
           NEW n \in 0 .. ptlevels - 1, NEW e, Own(m, tab, r, va, n, e) \/ Shared(tab, r, va, n, e)
    PROVE  tab[r][va][n] # NoFrame /\ indexof(va, n) \in PtIndex /\ m[tab[r][va][n]][indexof(va, n)] = e
<1>. DEFINE K == KernelAs
<1>1. /\ Shape(tab, av, R) /\ InMemory(m, tab, R) /\ R \subseteq Root /\ r \in Root /\ K \in R /\ K \in Root
      /\ ptlevels \in Nat /\ ptlevels >= 2 /\ indexof(va, n) \in PtIndex
  BY VmeBasics DEF Trees, Shape, Level
<1>2. CASE Own(m, tab, r, va, n, e)
  <2>1. n + 1 \in 1 .. ptlevels /\ n + 1 - 1 = n
    BY <1>1
  <2>2. tab[r][va][n + 1] # NoFrame /\ e = Pte(tab[r][va][n + 1], r # K)
    BY <1>2 DEF Own
  <2>3. tab[r][va][n] # NoFrame /\ (n = 1 => OwnSide(r, va))
    <3>1. /\ tab[r][va][n + 1] # NoFrame => tab[r][va][n + 1 - 1] # NoFrame
          /\ n + 1 >= 2 /\ tab[r][va][n + 1] # NoFrame => OwnSide(r, va)
      BY <1>1, <2>1 DEF Shape
    <3>. QED  BY <2>1, <2>2, <3>1
  <2>4. EntryOf(m, tab, r, va, n) = IF tab[r][va][n + 1] = NoFrame THEN Absent ELSE Pte(tab[r][va][n + 1], r # K)
    BY <1>1, <2>3 DEF InMemory
  <2>. QED  BY <1>1, <2>2, <2>3, <2>4 DEF EntryOf
<1>3. CASE Shared(tab, r, va, n, e)
  <2>1. n = 1 /\ r \in R \ {K} /\ tab[K][va][2] # NoFrame /\ e = Pte(tab[K][va][2], FALSE)
    BY <1>3 DEF Shared
  <2>2. 2 \in 1 .. ptlevels /\ 2 - 1 = 1 /\ 1 \in 0 .. ptlevels - 1 /\ 1 + 1 = 2 /\ (K # K) = FALSE
    BY <1>1
  <2>3. OwnSide(K, va) /\ tab[K][va][1] # NoFrame
    BY <1>1, <2>1, <2>2 DEF Shape
  <2>4. EntryOf(m, tab, K, va, 1) = IF tab[K][va][1 + 1] = NoFrame THEN Absent ELSE Pte(tab[K][va][1 + 1], K # KernelAs)
    BY <1>1, <2>2, <2>3 DEF InMemory
  <2>5. EntryOf(m, tab, K, va, 1) = e
    BY <2>1, <2>2, <2>4
  <2>6. tab[r][va][1] # NoFrame /\ EntryOf(m, tab, r, va, 1) = e
    BY <1>1, <2>1, <2>3, <2>5 DEF InMemory, OwnSide
  <2>. QED  BY <1>1, <2>1, <2>6 DEF EntryOf
<1>. QED  BY <1>2, <1>3

(* Where the tables of a level lead to.                                    *)
LEMMA NextLevel ==
    ASSUME NEW m, NEW av, NEW tab, NEW R, Trees(m, av, tab, R), NEW r \in R, NEW n \in 0 .. ptlevels - 1
    PROVE  /\ r # KernelAs => LedUser(m, TablesAt(tab, r, n)) = TablesAt(tab, r, n + 1)
           /\ Led(m, TablesAt(tab, r, n)) =
                TablesAt(tab, r, n + 1) \cup IF n = 1 /\ r # KernelAs THEN TablesAt(tab, KernelAs, 2) ELSE {}
<1>. DEFINE K == KernelAs
            T == TablesAt(tab, r, n)
<1>1. \A x, u : Pte(x, u).base = x /\ Pte(x, u).p
  BY EntryTypes
<1>2. \A x : Pte(x, TRUE).u /\ ~Pte(x, FALSE).u
  BY EntryTypes
<1>3. ASSUME NEW t \in T, NEW j \in PtIndex, m[t][j].p
      PROVE  \E vb \in VA : Own(m, tab, r, vb, n, m[t][j]) \/ Shared(tab, r, vb, n, m[t][j])
  <2>1. PICK va \in VA : t = tab[r][va][n] /\ t # NoFrame
    BY DEF TablesAt
  <2>. QED  BY <1>3, <2>1, EntryFrom
<1>4. ASSUME NEW vb \in VA, NEW e, Own(m, tab, r, vb, n, e) \/ Shared(tab, r, vb, n, e)
      PROVE  \E t \in T, j \in PtIndex : m[t][j] = e
  <2>1. tab[r][vb][n] # NoFrame /\ indexof(vb, n) \in PtIndex /\ m[tab[r][vb][n]][indexof(vb, n)] = e
    BY <1>4, EntryTo
  <2>2. tab[r][vb][n] \in T
    BY <2>1 DEF TablesAt
  <2>. QED  BY <2>1, <2>2
<1>. HIDE DEF T
<1>5. ASSUME r # K PROVE LedUser(m, T) = TablesAt(tab, r, n + 1)
  <2>0. (r # K) = TRUE
    BY <1>5
  <2>1. ASSUME NEW x \in LedUser(m, T) PROVE x \in TablesAt(tab, r, n + 1)
    <3>1. PICK t \in T, j \in PtIndex : m[t][j].p /\ m[t][j].u /\ x = m[t][j].base
      BY DEF LedUser
    <3>2. PICK vb \in VA : Own(m, tab, r, vb, n, m[t][j]) \/ Shared(tab, r, vb, n, m[t][j])
      BY <1>3, <3>1
    <3>3. ~Shared(tab, r, vb, n, m[t][j])
      BY <1>2, <3>1 DEF Shared
    <3>4. tab[r][vb][n + 1] # NoFrame /\ x = tab[r][vb][n + 1]
      BY <1>1, <3>1, <3>2, <3>3 DEF Own
    <3>. QED  BY <3>4 DEF TablesAt
  <2>2. ASSUME NEW x \in TablesAt(tab, r, n + 1) PROVE x \in LedUser(m, T)
    <3>1. PICK vb \in VA : x = tab[r][vb][n + 1] /\ x # NoFrame
      BY DEF TablesAt
    <3>2. Own(m, tab, r, vb, n, Pte(x, TRUE))
      BY <2>0, <3>1 DEF Own
    <3>3. PICK t \in T, j \in PtIndex : m[t][j] = Pte(x, TRUE)
      BY <1>4, <3>2
    <3>4. m[t][j].p /\ m[t][j].u /\ m[t][j].base = x
      BY <1>1, <1>2, <3>3, ZenonT(60)
    <3>. QED  BY <3>4 DEF LedUser
  <2>. QED  BY <2>1, <2>2
<1>6. Led(m, T) = TablesAt(tab, r, n + 1) \cup IF n = 1 /\ r # K THEN TablesAt(tab, K, 2) ELSE {}
  <2>. DEFINE S == TablesAt(tab, r, n + 1) \cup IF n = 1 /\ r # K THEN TablesAt(tab, K, 2) ELSE {}
  <2>1. ASSUME NEW x \in Led(m, T) PROVE x \in S
    <3>1. PICK t \in T, j \in PtIndex : m[t][j].p /\ x = m[t][j].base
      BY DEF Led
    <3>2. PICK vb \in VA : Own(m, tab, r, vb, n, m[t][j]) \/ Shared(tab, r, vb, n, m[t][j])
      BY <1>3, <3>1
    <3>3. CASE Own(m, tab, r, vb, n, m[t][j])
      <4>1. tab[r][vb][n + 1] # NoFrame /\ x = tab[r][vb][n + 1]
        <5>. DEFINE u == r # K
        <5>1. tab[r][vb][n + 1] # NoFrame /\ m[t][j] = Pte(tab[r][vb][n + 1], u)
          BY <3>3 DEF Own
        <5>. HIDE DEF u
        <5>. QED  BY <1>1, <3>1, <5>1
      <4>. QED  BY <4>1 DEF TablesAt
    <3>4. CASE Shared(tab, r, vb, n, m[t][j])
      <4>1. n = 1 /\ r # K /\ tab[K][vb][2] # NoFrame /\ x = tab[K][vb][2]
        BY <1>1, <3>1, <3>4 DEF Shared
      <4>. QED  BY <4>1 DEF TablesAt
    <3>. QED  BY <3>2, <3>3, <3>4
  <2>2. ASSUME NEW x \in S PROVE x \in Led(m, T)
    <3>1. ASSUME NEW vb \in VA, NEW u, Own(m, tab, r, vb, n, Pte(x, u)) \/ Shared(tab, r, vb, n, Pte(x, u))
          PROVE  x \in Led(m, T)
      <4>1. PICK t \in T, j \in PtIndex : m[t][j] = Pte(x, u)
        BY <1>4, <3>1
      <4>2. m[t][j].p /\ m[t][j].base = x
        BY <1>1, <4>1
      <4>. QED  BY <4>2 DEF Led
    <3>2. CASE x \in TablesAt(tab, r, n + 1)
      <4>1. PICK vb \in VA : x = tab[r][vb][n + 1] /\ x # NoFrame
        BY <3>2 DEF TablesAt
      <4>2. Own(m, tab, r, vb, n, Pte(x, r # K))
        BY <4>1 DEF Own
      <4>. QED  BY <3>1, <4>2
    <3>3. CASE n = 1 /\ r # K /\ x \in TablesAt(tab, K, 2)
      <4>1. PICK vb \in VA : x = tab[K][vb][2] /\ x # NoFrame
        BY <3>3 DEF TablesAt
      <4>2. Shared(tab, r, vb, n, Pte(x, FALSE))
        BY <3>3, <4>1 DEF Shared
      <4>. QED  BY <3>1, <4>2
    <3>. QED  BY <3>2, <3>3
  <2>. QED  BY <2>1, <2>2
<1>. QED  BY <1>5, <1>6 DEF T

\* The tables of a space, or of the kernel.
TablesOf(tab, r) == UNION {TablesAt(tab, r, n) : n \in 1 .. ptlevels}

LEMMA TearsDown ==
    ASSUME NEW tab, Holds(tab), NEW s \in live
    PROVE  teardown(s) = TablesOf(tab, s)
<1>. DEFINE N == ptlevels
            W == [n \in 0 .. N |-> TablesAt(tab, s, n)]
            Goes(f) == f = [n \in 0 .. N |-> IF n = 0 THEN {s} ELSE LedUser(tables, f[n - 1])]
<1>1. /\ N \in Nat /\ N >= 2 /\ Trees(tables, avail, tab, live \cup {KernelAs}) /\ s \in live \cup {KernelAs}
      /\ s # KernelAs /\ s \in Root /\ s # NoFrame
  BY VmeBasics DEF Holds, Held, Root, Node
<1>2. TablesAt(tab, s, 0) = {s}
  <2>1. \A va \in VA : tab[s][va][0] = s
    BY <1>1 DEF Trees, Shape
  <2>2. PICK va : va \in VA
    BY OrderOfKernel
  <2>. QED  BY <1>1, <2>1, <2>2 DEF TablesAt
<1>3. \A n \in 1 .. N : TablesAt(tab, s, n) = LedUser(tables, TablesAt(tab, s, n - 1))
  <2>. SUFFICES ASSUME NEW n \in 1 .. N PROVE TablesAt(tab, s, n) = LedUser(tables, TablesAt(tab, s, n - 1))
    OBVIOUS
  <2>. DEFINE k == n - 1
  <2>1. k \in 0 .. N - 1 /\ k + 1 = n
    BY <1>1
  <2>. HIDE DEF k
  <2>2. LedUser(tables, TablesAt(tab, s, k)) = TablesAt(tab, s, k + 1)
    BY <1>1, <2>1, NextLevel
  <2>. QED  BY <2>1, <2>2 DEF k
<1>4. /\ W[0] = {s} /\ W = [n \in 0 .. N |-> W[n]]
      /\ \A n \in 0 .. N : W[n] = TablesAt(tab, s, n)
      /\ \A n \in 1 .. N : W[n] = LedUser(tables, W[n - 1])
  <2>1. \A n \in 1 .. N : n \in 0 .. N /\ n - 1 \in 0 .. N
    BY <1>1
  <2>. QED  BY <1>1, <1>2, <1>3, <2>1
<1>. HIDE DEF W
<1>5. Goes(W)
  <2>1. \A n \in 0 .. N : n = 0 \/ n \in 1 .. N
    BY <1>1
  <2>2. \A n \in 0 .. N : W[n] = IF n = 0 THEN {s} ELSE LedUser(tables, W[n - 1])
    BY <1>4, <2>1
  <2>. QED  BY <1>4, <2>2
<1>. DEFINE g == CHOOSE f : Goes(f)
<1>6. Goes(g)
  <2>. HIDE DEF Goes
  <2>. QED  BY <1>5
<1>. HIDE DEF g
<1>7. \A k \in 0 .. N : g[k] = W[k]
  <2>. DEFINE P == {k \in 0 .. N : g[k] = W[k]}
  <2>1. 0 \in P
    BY <1>1, <1>4, <1>6
  <2>2. ASSUME NEW k \in 1 .. N, k - 1 \in P PROVE k \in P
    <3>1. k \in 0 .. N /\ k # 0
      BY <1>1
    <3>2. g[k] = LedUser(tables, g[k - 1])
      BY <1>6, <3>1
    <3>. QED  BY <1>4, <2>2, <3>1, <3>2
  <2>3. \A k \in 0 .. N : k \in P
    <3>. HIDE DEF P
    <3>. QED  BY <1>1, <2>1, <2>2, UpTo
  <2>. QED  BY <2>3
<1>8. teardown(s) = UNION {g[n] : n \in 1 .. N}
  BY DEF teardown, g, Goes, LedUser
<1>9. \A n \in 1 .. N : g[n] = TablesAt(tab, s, n)
  <2>1. \A n \in 1 .. N : n \in 0 .. N
    BY <1>1
  <2>. QED  BY <1>4, <1>7, <2>1
<1>. QED  BY <1>8, <1>9 DEF TablesOf

-----------------------------------------------------------------------------
(* unprotect.                                                              *)

LEMMA Leaves ==
    ASSUME NEW m, NEW av, NEW tab, NEW lv, Held(m, av, tab, lv), NEW s \in lv
    PROVE  /\ Held(m, av \cup TablesOf(tab, s), Left(tab, s), lv \ {s})
           /\ Seen(m, Left(tab, s), lv \ {s}) = [t \in lv \ {s} |-> Seen(m, tab, lv)[t]]
           /\ \A va \in VA : Left(tab, s)[KernelAs][va] = tab[KernelAs][va]
<1>. DEFINE K == KernelAs
            R == lv \cup {K}
            tab2 == Left(tab, s)
            N == ptlevels
            taken == TablesOf(tab, s)
<1>1. /\ s \in Root /\ s \in R /\ s # K /\ K \in Root /\ N \in Nat /\ N >= 2 /\ lv \subseteq AddrSpace
      /\ 0 \in Level /\ 1 \in Level /\ N \in Level /\ Shape(tab, av, R) /\ InMemory(m, tab, R)
      /\ Mapped(m, tab, KernelVA) /\ R \subseteq Root /\ av \subseteq PageFrame /\ 1 .. N \subseteq Level
  BY VmeBasics DEF Held, Trees, Root, Level, Shape
<1>2. \A q \in Root, vb \in VA, k \in Level : tab2[q][vb][k] = IF q = s THEN NoFrame ELSE tab[q][vb][k]
  BY DEF Left
<1>3. \A q \in Root \ {s}, vb \in VA : tab2[q][vb] = tab[q][vb]
  <2>. SUFFICES ASSUME NEW q \in Root \ {s}, NEW vb \in VA PROVE tab2[q][vb] = tab[q][vb]
    OBVIOUS
  <2>. DEFINE X == Node \cup {NoFrame}
  <2>1. tab[q][vb] \in [Level -> X]
    <3>1. tab \in [Root -> [VA -> [Level -> X]]]
      BY <1>1 DEF Shape
    <3>. HIDE DEF X
    <3>. QED  BY <3>1
  <2>. QED  BY <2>1 DEF Left
<1>4. \A f : f \in taken <=> f # NoFrame /\ \E vb \in VA, k \in 1 .. N : tab[s][vb][k] = f
  BY DEF TablesOf, TablesAt
<1>5. tab2 \in [Root -> [VA -> [Level -> Node \cup {NoFrame}]]]
  <2>1. \A q \in Root, vb \in VA, k \in Level : tab[q][vb][k] \in Node \cup {NoFrame}
    BY <1>1 DEF Shape
  <2>. QED  BY <2>1 DEF Left
<1>6. taken \subseteq PageFrame
  <2>1. \A vb \in VA, k \in 1 .. N : tab[s][vb][k] \in PageFrame \cup {NoFrame}
    BY <1>1 DEF Shape
  <2>. QED  BY <1>4, <2>1
<1>. HIDE DEF tab2, taken
<1>7. ASSUME NEW q \in Root, NEW vb \in VA
      PROVE  /\ tab2[q][vb][0] = IF q \in R \ {s} THEN q ELSE NoFrame
             /\ \A k \in 1 .. N :
                  /\ tab2[q][vb][k] \in PageFrame \cup {NoFrame}
                  /\ tab2[q][vb][k] # NoFrame => tab2[q][vb][k - 1] # NoFrame
                  /\ k >= 2 /\ tab2[q][vb][k] # NoFrame => OwnSide(q, vb)
  <2>1. CASE q = s
    <3>1. \A k \in Level : tab2[q][vb][k] = NoFrame
      BY <1>2, <2>1
    <3>2. \A k \in 1 .. N : k \in Level
      BY <1>1
    <3>. QED  BY <1>1, <2>1, <3>1, <3>2
  <2>2. CASE q # s
    <3>1. tab2[q][vb] = tab[q][vb]
      BY <1>3, <2>2
    <3>2. tab[q][vb][0] = IF q \in R THEN q ELSE NoFrame
      BY <1>1 DEF Shape
    <3>3. \A k \in 1 .. N :
            /\ tab[q][vb][k] \in PageFrame \cup {NoFrame}
            /\ tab[q][vb][k] # NoFrame => tab[q][vb][k - 1] # NoFrame
            /\ k >= 2 /\ tab[q][vb][k] # NoFrame => OwnSide(q, vb)
      BY <1>1 DEF Shape
    <3>4. tab2[q][vb][0] = IF q \in R \ {s} THEN q ELSE NoFrame
      BY <2>2, <3>1, <3>2
    <3>. HIDE DEF N, R
    <3>. QED  BY <3>1, <3>3, <3>4
  <2>. QED  BY <2>1, <2>2
<1>8. ASSUME NEW q \in Root, NEW vb \in VA, NEW vc \in VA, NEW k \in Level, Same(vb, vc, k)
      PROVE  tab2[q][vb][k] = tab2[q][vc][k]
  <2>1. tab[q][vb][k] = tab[q][vc][k]
    BY <1>1, <1>8 DEF Shape
  <2>. QED  BY <1>2, <2>1
<1>9. ASSUME NEW p \in Root, NEW q \in Root, NEW vb \in VA, NEW vc \in VA, NEW k \in Level, NEW l \in Level,
             tab2[p][vb][k] = tab2[q][vc][l], tab2[p][vb][k] # NoFrame
      PROVE  p = q /\ k = l /\ Same(vb, vc, k)
  <2>1. tab[p][vb][k] = tab[q][vc][l] /\ tab[p][vb][k] # NoFrame
    BY <1>2, <1>9
  <2>. QED  BY <1>1, <2>1 DEF Shape
<1>10. ASSUME NEW f \in PageFrame
       PROVE  f \notin av \cup taken <=> \E q \in Root, vb \in VA, k \in 1 .. N : tab2[q][vb][k] = f
  <2>1. f # NoFrame
    BY VmeBasics DEF Node
  <2>2. f \notin av <=> \E q \in Root, vb \in VA, k \in 1 .. N : tab[q][vb][k] = f
    BY <1>1 DEF Shape
  <2>3. ASSUME f \notin av, f \notin taken PROVE \E q \in Root, vb \in VA, k \in 1 .. N : tab2[q][vb][k] = f
    <3>1. PICK q \in Root, vb \in VA, k \in 1 .. N : tab[q][vb][k] = f
      BY <2>2, <2>3
    <3>2. q # s /\ k \in Level
      BY <1>1, <1>4, <2>1, <2>3, <3>1
    <3>. QED  BY <1>2, <3>1, <3>2
  <2>4. ASSUME NEW q \in Root, NEW vb \in VA, NEW k \in 1 .. N, tab2[q][vb][k] = f
        PROVE  f \notin av /\ f \notin taken
    <3>1. k \in Level
      BY <1>1
    <3>2. q # s /\ tab[q][vb][k] = f
      BY <1>2, <2>1, <2>4, <3>1
    <3>3. \A vc \in VA, l \in 1 .. N : tab[s][vc][l] # f
      <4>. SUFFICES ASSUME NEW vc \in VA, NEW l \in 1 .. N, tab[s][vc][l] = f PROVE FALSE
        OBVIOUS
      <4>1. l \in Level /\ tab[q][vb][k] = tab[s][vc][l] /\ tab[q][vb][k] # NoFrame
        BY <1>1, <2>1, <3>2
      <4>2. q = s
        BY <1>1, <3>1, <4>1 DEF Shape
      <4>. QED  BY <3>2, <4>2
    <3>. QED  BY <1>4, <2>2, <3>2, <3>3
  <2>. QED  BY <2>3, <2>4
<1>11. Shape(tab2, av \cup taken, R \ {s})
  <2>1. av \cup taken \subseteq PageFrame /\ R \ {s} \subseteq Root /\ K \in R \ {s}
    BY <1>1, <1>6
  <2>. QED  BY <1>5, <1>7, <1>8, <1>9, <1>10, <2>1 DEF Shape
<1>12. \A q \in Root \ {s}, vb \in VA, k \in Level : EntryOf(m, tab2, q, vb, k) = EntryOf(m, tab, q, vb, k)
  BY <1>3 DEF EntryOf
<1>13. InMemory(m, tab2, R \ {s})
  <2>1. m \in [Node -> [PtIndex -> PteType]] /\ \A r \in Root, j \in PtIndex \ {Pointer} : m[r][j] = Absent
    BY <1>1 DEF InMemory
  <2>2. ASSUME NEW r \in R \ {s}, NEW vb \in VA, NEW n \in 0 .. N - 1,
               tab2[r][vb][n] # NoFrame, n = 1 => r = K \/ OwnSide(r, vb)
        PROVE  EntryOf(m, tab2, r, vb, n) =
                 IF tab2[r][vb][n + 1] = NoFrame THEN Absent ELSE Pte(tab2[r][vb][n + 1], r # K)
    <3>1. r \in Root \ {s} /\ n \in Level
      BY <1>1 DEF Level
    <3>2. tab2[r][vb] = tab[r][vb] /\ EntryOf(m, tab2, r, vb, n) = EntryOf(m, tab, r, vb, n)
      BY <1>3, <1>12, <3>1
    <3>. QED  BY <1>1, <2>2, <3>2 DEF InMemory
  <2>3. ASSUME NEW q \in (R \ {s}) \ {K}, NEW vb \in VA
        PROVE  /\ tab2[q][vb][1] # NoFrame /\ tab2[K][vb][1] # NoFrame
               /\ vb \in KernelVA => EntryOf(m, tab2, q, vb, 1) = EntryOf(m, tab2, K, vb, 1)
               /\ vb \notin KernelVA /\ tab2[q][vb][N] # NoFrame =>
                    EntryOf(m, tab2, q, vb, N) \in {Absent} \cup {Pte(pa, TRUE) : pa \in UserFrame}
    <3>1. q \in Root \ {s} /\ K \in Root \ {s} /\ q \in R \ {K}
      BY <1>1
    <3>2. /\ tab2[q][vb] = tab[q][vb] /\ tab2[K][vb] = tab[K][vb]
          /\ EntryOf(m, tab2, q, vb, 1) = EntryOf(m, tab, q, vb, 1)
          /\ EntryOf(m, tab2, K, vb, 1) = EntryOf(m, tab, K, vb, 1)
          /\ EntryOf(m, tab2, q, vb, N) = EntryOf(m, tab, q, vb, N)
      BY <1>1, <1>3, <1>12, <3>1
    <3>. QED  BY <1>1, <3>1, <3>2 DEF InMemory
  <2>. QED  BY <2>1, <2>2, <2>3 DEF InMemory
<1>14. Mapped(m, tab2, KernelVA)
  <2>1. \A vb \in KernelVA : vb \in VA
    BY OrderOfKernel
  <2>2. \A vb \in VA : tab2[K][vb] = tab[K][vb] /\ EntryOf(m, tab2, K, vb, N) = EntryOf(m, tab, K, vb, N)
    BY <1>1, <1>3, <1>12
  <2>. QED  BY <1>1, <2>1, <2>2 DEF Mapped
<1>15. Held(m, av \cup taken, tab2, lv \ {s})
  <2>1. (lv \ {s}) \cup {K} = R \ {s} /\ lv \ {s} \subseteq AddrSpace
    BY <1>1
  <2>. HIDE DEF R
  <2>. QED  BY <1>11, <1>13, <1>14, <2>1 DEF Held, Trees
<1>16. \A t \in lv \ {s}, vb \in VA : LeafOf(m, tab2, t, vb) = LeafOf(m, tab, t, vb)
  <2>1. \A t \in lv \ {s} : t \in Root \ {s}
    BY <1>1 DEF Root
  <2>2. \A t \in Root \ {s}, vb \in VA :
          tab2[t][vb] = tab[t][vb] /\ EntryOf(m, tab2, t, vb, N) = EntryOf(m, tab, t, vb, N)
    BY <1>1, <1>3, <1>12
  <2>. QED  BY <2>1, <2>2 DEF LeafOf
<1>17. Seen(m, tab2, lv \ {s}) = [t \in lv \ {s} |-> Seen(m, tab, lv)[t]]
  BY <1>16 DEF Seen
<1>. QED  BY <1>1, <1>3, <1>15, <1>17 DEF tab2, taken

LEMMA Unprotects ==
    ASSUME VmeInv, NEW s \in AddrSpace, unprotect_as(s)
    PROVE  s \in live /\ \E tab : Holds(tab)
             /\ Becomes([t \in live \ {s} |-> Seen(tables, tab, live)[t]]) /\ live' = live \ {s}
<1>1. kpt # NoFrame /\ ~vmePanicked /\ s \in live
  BY DEF unprotect_as, VmeReady
<1>2. PICK tab : Holds(tab)
  BY <1>1 DEF VmeInv
<1>3. /\ tables' = tables /\ avail' = avail \cup TablesOf(tab, s) /\ live' = live \ {s}
      /\ kpt' = kpt /\ vmePanicked' = vmePanicked
  <2>1. teardown(s) = TablesOf(tab, s)
    BY <1>1, <1>2, TearsDown
  <2>. QED  BY <2>1 DEF unprotect_as
<1>4. Held(tables, avail, tab, live) /\ live \subseteq AddrSpace /\ \A va \in VA : tab[KernelAs][va][1] = kpt
  BY <1>2 DEF Holds, Held
<1>. PICK tab2 : tab2 = Left(tab, s)
  OBVIOUS
<1>5. /\ Held(tables, avail \cup TablesOf(tab, s), tab2, live \ {s})
      /\ Seen(tables, tab2, live \ {s}) = [t \in live \ {s} |-> Seen(tables, tab, live)[t]]
      /\ \A va \in VA : tab2[KernelAs][va] = tab[KernelAs][va]
  BY <1>1, <1>4, Leaves
<1>6. Holds(tab2)'
  BY <1>3, <1>4, <1>5 DEF Holds
<1>7. Becomes([t \in live \ {s} |-> Seen(tables, tab, live)[t]])
  BY <1>1, <1>3, <1>4, <1>5, <1>6 DEF Becomes
<1>. QED  BY <1>1, <1>2, <1>3, <1>7

-----------------------------------------------------------------------------
(* map.                                                                    *)

LEMMA MapsOneOfUser ==
    ASSUME VmeInv, NEW s \in AddrSpace, NEW va \in VA, NEW pa \in UserFrame \cup {NoFrame}, map_as(s, va, pa)
    PROVE  \/ VmePanic
           \/ /\ s \in live /\ va \notin KernelVA /\ live' = live
              /\ \E tab : /\ Holds(tab) /\ (Seen(tables, tab, live)[s][va] = NoFrame <=> pa # NoFrame)
                          /\ Becomes([Seen(tables, tab, live) EXCEPT ![s][va] = pa])
<1>. DEFINE K == KernelAs
            N == ptlevels
            R == live \cup {K}
            w == ptwalk(CurrentTables, s, va, TRUE)
            e == IF pa = NoFrame THEN Absent ELSE Pte(pa, TRUE)
<1>1. kpt # NoFrame /\ ~vmePanicked /\ s \in live
  BY DEF map_as, VmeReady
<1>2. PICK tab : Holds(tab)
  BY <1>1 DEF VmeInv
<1>3. /\ Trees(tables, avail, tab, R) /\ Mapped(tables, tab, KernelVA) /\ live \subseteq AddrSpace
      /\ s \in R /\ s \in Root /\ s # K /\ K \in Root /\ K \in R /\ N \in Nat /\ N >= 2 /\ 1 \in Level /\ N \in Level
      /\ R \subseteq Root /\ \A vb \in VA : tab[K][vb][1] = kpt
  BY <1>1, <1>2, VmeBasics DEF Holds, Held, Root, Level
<1>4. CASE \/ va \in KernelVA \/ ~w.st.ok
           \/ w.st.mem[w.table][va[ptlevels]].p <=> pa # NoFrame
  <2>1. VmePanic
    <3>. HIDE DEF w
    <3>1. LET x == w IN IF \/ va \in KernelVA \/ ~x.st.ok
                           \/ x.st.mem[x.table][va[ptlevels]].p <=> pa # NoFrame
                        THEN VmePanic
                        ELSE /\ Become(SetEntry(x, va, IF pa = NoFrame THEN Absent ELSE Pte(pa, TRUE)))
                             /\ UNCHANGED <<kpt, live, vmePanicked>>
      BY DEF map_as, w
    <3>. QED  BY <1>4, <3>1
  <2>. QED  BY <2>1
<1>5. CASE /\ va \notin KernelVA /\ w.st.ok
           /\ ~(w.st.mem[w.table][va[ptlevels]].p <=> pa # NoFrame)
  <2>1. Become(SetEntry(w, va, e)) /\ kpt' = kpt /\ live' = live /\ vmePanicked' = vmePanicked
    BY <1>5 DEF map_as
  <2>2. OnWay(w, N, tables, tab, R, s, va)
    <3>1. (s # K) = TRUE /\ OwnSide(s, va)
      BY <1>3, <1>5 DEF OwnSide
    <3>2. OnWay(ptwalk([mem |-> tables, avail |-> avail, ok |-> TRUE], s, va, s # K), N, tables, tab, R, s, va)
      BY <1>3, <3>1, PtWalk
    <3>. QED  BY <3>1, <3>2 DEF CurrentTables
  <2>. HIDE DEF w
  <2>3. w \in Walkers
    BY <2>2 DEF OnWay
  <2>4. PICK tab2 : /\ Trees(w.st.mem, w.st.avail, tab2, R) /\ Keeps(tables, tab, w.st.mem, tab2, R)
                    /\ w.table = tab2[s][va][N] /\ w.table # NoFrame
    BY <1>5, <2>2 DEF OnWay
  <2>5. w.table \in Node
    <3>1. tab2[s][va][N] \in Node \cup {NoFrame}
      BY <1>3, <2>4 DEF Trees, Shape
    <3>. QED  BY <2>4, <3>1
  <2>6. e \in PteType /\ e \in {Absent} \cup {Pte(x, TRUE) : x \in UserFrame} /\ e.base = pa
    <3>1. pa # NoFrame => pa \in UserFrame /\ Pte(pa, TRUE) \in PteType /\ Pte(pa, TRUE).base = pa
      BY EntryTypes DEF Pte, PteType
    <3>. QED  BY <3>1, EntryTypes
  <2>. HIDE DEF e
  <2>. PICK m2 : m2 = [w.st.mem EXCEPT ![w.table][va[ptlevels]] = e]
    OBVIOUS
  <2>7. SetEntry(w, va, e) = [mem |-> m2, avail |-> w.st.avail, ok |-> w.st.ok]
    BY <2>3, <2>5, <2>6, EntrySet
  <2>8. /\ Trees(m2, w.st.avail, tab2, R)
        /\ LeafChanged(w.st.mem, m2, tab2, s, va, e)
    <3>1. OwnSide(s, va) /\ tab2[s][va][N] # NoFrame
      BY <1>3, <1>5, <2>4 DEF OwnSide
    <3>. DEFINE m3 == [w.st.mem EXCEPT ![tab2[s][va][ptlevels]][va[ptlevels]] = e]
    <3>2. m2 = m3
      BY <2>4, SMTT(60)
    <3>3. /\ Trees(m3, w.st.avail, tab2, R)
          /\ LeafChanged(w.st.mem, m3, tab2, s, va, e)
      BY <1>3, <2>4, <2>6, <3>1, LeafSet
    <3>. HIDE DEF m3
    <3>. QED  BY <3>2, <3>3, SMTT(60)
  <2>9. tables' = m2 /\ avail' = w.st.avail
    <3>. DEFINE z == SetEntry(w, va, e)
    <3>1. z = [mem |-> m2, avail |-> w.st.avail, ok |-> w.st.ok]
      BY <2>7
    <3>2. Become(z)
      BY <2>1
    <3>. HIDE DEF z
    <3>3. z.mem = m2 /\ z.avail = w.st.avail
      BY <3>1
    <3>. QED  BY <3>2, <3>3 DEF Become
  <2>10. Mapped(m2, tab2, KernelVA)
    <3>. SUFFICES ASSUME NEW vb \in KernelVA
                  PROVE  /\ tab2[K][vb][N] # NoFrame /\ EntryOf(m2, tab2, K, vb, N) = Pte(Identity(vb), FALSE)
      BY DEF Mapped
    <3>1. Mapped(tables, tab, {vb}) /\ vb \in VA
      BY <1>3, OrderOfKernel DEF Mapped
    <3>2. Mapped(w.st.mem, tab2, {vb})
      BY <2>4, <3>1 DEF Keeps
    <3>3. tab2[K][vb][N] # NoFrame /\ EntryOf(w.st.mem, tab2, K, vb, N) = Pte(Identity(vb), FALSE)
      BY <3>2 DEF Mapped
    <3>. QED  BY <1>3, <2>8, <3>1, <3>3 DEF LeafChanged
  <2>11. \A vb \in VA : tab2[K][vb][1] = kpt
    <3>1. \A vb \in VA : tab[K][vb][1] # NoFrame
      BY <1>1, <1>3
    <3>. QED  BY <1>3, <2>4, <3>1 DEF Keeps, TablesKept
  <2>12. Holds(tab2)'
    BY <1>3, <2>1, <2>8, <2>9, <2>10, <2>11 DEF Holds, Held
  <2>13. ASSUME NEW t \in live, NEW vb \in VA, vb \notin KernelVA
         PROVE  LeafOf(m2, tab2, t, vb) = IF t = s /\ vb = va THEN e ELSE LeafOf(tables, tab, t, vb)
    <3>1. t \in Root /\ t \in R \ {K}
      BY <1>3, VmeBasics DEF Root
    <3>2. LeafOf(w.st.mem, tab2, t, vb) = LeafOf(tables, tab, t, vb)
      BY <2>4, <2>13, <3>1 DEF Keeps
    <3>3. CASE tab2[t][vb][N] = NoFrame
      BY <2>4, <3>2, <3>3 DEF LeafOf
    <3>4. CASE tab2[t][vb][N] # NoFrame
      <4>1. EntryOf(m2, tab2, t, vb, N) = IF t = s /\ vb = va THEN e ELSE EntryOf(w.st.mem, tab2, t, vb, N)
        BY <2>8, <3>1, <3>4 DEF LeafChanged
      <4>. QED  BY <3>2, <3>4, <4>1 DEF LeafOf
    <3>. QED  BY <3>3, <3>4
  <2>14. Seen(m2, tab2, live) = [Seen(tables, tab, live) EXCEPT ![s][va] = pa]
    <3>. DEFINE X == Seen(tables, tab, live)
                Y == Seen(m2, tab2, live)
    <3>1. \A t \in live, vb \in VA :
            Y[t][vb] = IF vb \in KernelVA THEN Identity(vb) ELSE LeafOf(m2, tab2, t, vb).base
      BY DEF Seen
    <3>2. \A t \in live, vb \in VA :
            X[t][vb] = IF vb \in KernelVA THEN Identity(vb) ELSE LeafOf(tables, tab, t, vb).base
      BY DEF Seen
    <3>3. X = [t \in live |-> [vb \in VA |-> X[t][vb]]] /\ Y = [t \in live |-> [vb \in VA |-> Y[t][vb]]]
      BY DEF Seen
    <3>. HIDE DEF X, Y
    <3>4. \A t \in live, vb \in VA : Y[t][vb] = IF t = s /\ vb = va THEN pa ELSE X[t][vb]
      <4>. SUFFICES ASSUME NEW t \in live, NEW vb \in VA
                    PROVE  Y[t][vb] = IF t = s /\ vb = va THEN pa ELSE X[t][vb]
        BY SMTT(60)
      <4>1. CASE vb \in KernelVA
        BY <1>5, <3>1, <3>2, <4>1
      <4>2. CASE vb \notin KernelVA
        BY <2>6, <2>13, <3>1, <3>2, <4>2
      <4>. QED  BY <4>1, <4>2
    <3>5. Y = [t \in live |-> [vb \in VA |-> IF t = s /\ vb = va THEN pa ELSE X[t][vb]]]
      BY <3>3, <3>4
    <3>6. [X EXCEPT ![s][va] = pa] = [t \in live |-> [vb \in VA |-> IF t = s /\ vb = va THEN pa ELSE X[t][vb]]]
      BY <1>1, <3>3
    <3>. QED  BY <3>5, <3>6 DEF X, Y
  <2>15. Seen(tables, tab, live)[s][va] = NoFrame <=> pa # NoFrame
    <3>. DEFINE l == LeafOf(tables, tab, s, va)
    <3>1. Seen(tables, tab, live)[s][va] = l.base
      BY <1>1, <1>5 DEF Seen
    <3>2. l = LeafOf(w.st.mem, tab2, s, va)
      BY <1>3, <1>5, <2>4 DEF Keeps
    <3>3. LeafOf(w.st.mem, tab2, s, va) = w.st.mem[w.table][va[ptlevels]]
      <4>1. indexof(va, N) = va[N]
        BY <1>3 DEF indexof
      <4>. QED  BY <2>4, <4>1 DEF LeafOf, EntryOf
    <3>4. l \in {Absent} \cup {Pte(x, TRUE) : x \in UserFrame}
      <4>1. EntryOf(tables, tab, s, va, N) \in {Absent} \cup {Pte(x, TRUE) : x \in UserFrame} \/ tab[s][va][N] = NoFrame
        BY <1>3, <1>5 DEF Trees, InMemory
      <4>. QED  BY <4>1 DEF LeafOf
    <3>. HIDE DEF l
    <3>5. \A x : Pte(x, TRUE).p /\ Pte(x, TRUE).base = x
      BY EntryTypes
    <3>6. ~Absent.p /\ Absent.base = NoFrame /\ NoFrame \notin UserFrame
      BY EntryTypes, VmeAssumption
    <3>7. l.base = NoFrame <=> ~l.p
      <4>1. CASE l = Absent
        BY <3>6, <4>1
      <4>2. CASE l # Absent
        BY <3>4, <3>5, <3>6, <4>2
      <4>. QED  BY <4>1, <4>2
    <3>8. l.p <=> ~(pa # NoFrame)
      BY <1>5, <3>2, <3>3
    <3>. QED  BY <3>1, <3>7, <3>8
  <2>16. Becomes([Seen(tables, tab, live) EXCEPT ![s][va] = pa])
    BY <1>1, <1>3, <2>1, <2>9, <2>12, <2>14 DEF Becomes
  <2>. QED  BY <1>1, <1>2, <1>5, <2>1, <2>15, <2>16
<1>. QED  BY <1>4, <1>5

-----------------------------------------------------------------------------
(* Every page taken is a table.                                            *)

LEMMA TablesFound ==
    ASSUME NEW tab, NEW R, Trees(tables, avail, tab, R), NEW r \in R, NEW pt, TablesAt(tab, r, 1) = {pt}
    PROVE  TablesOf(tab, r) \subseteq Tables(pt) /\ Tables(pt) \subseteq TablesOf(tab, r) \cup TablesOf(tab, KernelAs)
<1>. DEFINE K == KernelAs
            N == ptlevels
            W == [n \in 1 .. N |-> TablesAt(tab, r, n) \cup IF n >= 2 /\ r # K THEN TablesAt(tab, K, n) ELSE {}]
            Goes(f) == f = [n \in 1 .. N |-> IF n = 1 THEN {pt} ELSE Led(tables, f[n - 1])]
<1>1. N \in Nat /\ N >= 2 /\ K \in R
  BY VmeBasics DEF Trees, Shape
<1>2. \A A, B : Led(tables, A \cup B) = Led(tables, A) \cup Led(tables, B)
  BY DEF Led
<1>3. \A q \in R, n \in 1 .. N - 1 : Led(tables, TablesAt(tab, q, n)) =
        TablesAt(tab, q, n + 1) \cup IF n = 1 /\ q # K THEN TablesAt(tab, K, 2) ELSE {}
  <2>. SUFFICES ASSUME NEW q \in R, NEW n \in 1 .. N - 1
                PROVE  Led(tables, TablesAt(tab, q, n)) =
                         TablesAt(tab, q, n + 1) \cup IF n = 1 /\ q # K THEN TablesAt(tab, K, 2) ELSE {}
    OBVIOUS
  <2>1. n \in 0 .. ptlevels - 1
    BY <1>1
  <2>. QED  BY <2>1, NextLevel
<1>4. \A n \in 1 .. N : W[n] = TablesAt(tab, r, n) \cup IF n >= 2 /\ r # K THEN TablesAt(tab, K, n) ELSE {}
  OBVIOUS
<1>5. W = [n \in 1 .. N |-> W[n]]
  OBVIOUS
<1>. HIDE DEF W
<1>6. W[1] = {pt}
  BY <1>1, <1>4
<1>7. ASSUME NEW n \in 1 .. N - 1 PROVE W[n + 1] = Led(tables, W[n])
  <2>1. n \in 1 .. N /\ n + 1 \in 1 .. N /\ n + 1 >= 2
    BY <1>1
  <2>0. ASSUME n # 1, NEW q \in R PROVE Led(tables, TablesAt(tab, q, n)) = TablesAt(tab, q, n + 1)
    <3>1. Led(tables, TablesAt(tab, q, n)) =
            TablesAt(tab, q, n + 1) \cup IF n = 1 /\ q # K THEN TablesAt(tab, K, 2) ELSE {}
      BY <1>3
    <3>. QED  BY <2>0, <3>1
  <2>2. CASE n = 1
    <3>1. W[1] = TablesAt(tab, r, 1) /\ W[1 + 1] = TablesAt(tab, r, 2) \cup IF r # K THEN TablesAt(tab, K, 2) ELSE {}
      BY <1>4, <2>1, <2>2
    <3>2. Led(tables, TablesAt(tab, r, 1)) = TablesAt(tab, r, 1 + 1) \cup IF r # K THEN TablesAt(tab, K, 2) ELSE {}
      BY <1>1, <1>3
    <3>. QED  BY <2>2, <3>1, <3>2
  <2>3. CASE n # 1 /\ r = K
    <3>1. W[n] = TablesAt(tab, r, n) /\ W[n + 1] = TablesAt(tab, r, n + 1)
      BY <1>4, <2>1, <2>3
    <3>. QED  BY <2>0, <2>3, <3>1
  <2>4. CASE n # 1 /\ r # K
    <3>1. n >= 2
      BY <2>4
    <3>2. W[n] = TablesAt(tab, r, n) \cup TablesAt(tab, K, n) /\ W[n + 1] = TablesAt(tab, r, n + 1) \cup TablesAt(tab, K, n + 1)
      BY <1>4, <2>1, <2>4, <3>1
    <3>3. Led(tables, TablesAt(tab, r, n)) = TablesAt(tab, r, n + 1) /\ Led(tables, TablesAt(tab, K, n)) = TablesAt(tab, K, n + 1)
      BY <1>1, <2>0, <2>4
    <3>. QED  BY <1>2, <3>2, <3>3
  <2>. QED  BY <2>2, <2>3, <2>4
<1>8. \A n \in 1 .. N : n # 1 => W[n] = Led(tables, W[n - 1])
  <2>. SUFFICES ASSUME NEW n \in 1 .. N, n # 1 PROVE W[n] = Led(tables, W[n - 1])
    OBVIOUS
  <2>1. n - 1 \in 1 .. N - 1 /\ n - 1 + 1 = n
    BY <1>1
  <2>. QED  BY <1>7, <2>1
<1>9. Goes(W)
  BY <1>5, <1>6, <1>8
<1>. DEFINE g == CHOOSE f : Goes(f)
<1>10. Goes(g)
  <2>. HIDE DEF Goes
  <2>. QED  BY <1>9
<1>. HIDE DEF g
<1>11. \A k \in 1 .. N : g[k] = W[k]
  <2>. DEFINE P == {k \in 0 .. N : k = 0 \/ g[k] = W[k]}
  <2>1. 0 \in P
    BY <1>1
  <2>2. ASSUME NEW k \in 1 .. N, k - 1 \in P PROVE k \in P
    <3>1. CASE k = 1
      <4>1. g[1] = {pt}
        BY <1>1, <1>10
      <4>. QED  BY <1>1, <1>6, <3>1, <4>1
    <3>2. CASE k # 1
      <4>1. g[k] = Led(tables, g[k - 1]) /\ W[k] = Led(tables, W[k - 1])
        BY <1>8, <1>10, <3>2
      <4>2. g[k - 1] = W[k - 1]
        BY <2>2, <3>2
      <4>. QED  BY <4>1, <4>2
    <3>. QED  BY <3>1, <3>2
  <2>3. \A k \in 0 .. N : k \in P
    <3>. HIDE DEF P
    <3>. QED  BY <1>1, <2>1, <2>2, UpTo
  <2>4. \A k \in 1 .. N : k \in 0 .. N /\ k # 0
    BY <1>1
  <2>. QED  BY <2>3, <2>4
<1>12. Tables(pt) = UNION {g[n] : n \in 1 .. N}
  BY DEF Tables, g, Goes, Led
<1>13. Tables(pt) = UNION {W[n] : n \in 1 .. N}
  BY <1>11, <1>12
<1>. HIDE DEF N
<1>14. \A n \in 1 .. N : TablesAt(tab, r, n) \subseteq W[n] /\ W[n] \subseteq TablesAt(tab, r, n) \cup TablesAt(tab, K, n)
  BY <1>4
<1>. QED  BY <1>13, <1>14 DEF TablesOf, N

LEMMA Accounted == VmeInv => TablesAccounted
<1>. SUFFICES ASSUME VmeInv, kpt # NoFrame
              PROVE  PageFrame \ avail = Tables(kpt) \cup UNION {Tables(tables[s][Pointer].base) : s \in live}
  BY DEF TablesAccounted
<1>. DEFINE K == KernelAs
            R == live \cup {K}
<1>1. PICK tab : Holds(tab)
  BY DEF VmeInv
<1>2. /\ Trees(tables, avail, tab, R) /\ Shape(tab, avail, R) /\ InMemory(tables, tab, R) /\ live \subseteq AddrSpace
      /\ K \in R /\ K \in Root /\ R \subseteq Root /\ 0 \in Level /\ 1 \in Level /\ 1 .. ptlevels \subseteq Level
      /\ 0 \in 0 .. ptlevels - 1 /\ \A va \in VA : tab[K][va][1] = kpt
  BY <1>1, VmeBasics DEF Holds, Held, Trees, Root, Level
<1>3. PICK va : va \in VA
  BY OrderOfKernel
<1>4. \A r \in R : \E pt : TablesAt(tab, r, 1) = {pt} /\ (r = K => pt = kpt) /\ (r # K => tables[r][Pointer].base = pt)
  <2>. SUFFICES ASSUME NEW r \in R
                PROVE  TablesAt(tab, r, 1) = {tab[r][va][1]} /\ (r = K => tab[r][va][1] = kpt)
                       /\ (r # K => tables[r][Pointer].base = tab[r][va][1])
    OBVIOUS
  <2>1. r \in Root
    BY <1>2
  <2>2. \A vb \in VA : tab[r][vb][1] = tab[r][va][1]
    <3>1. \A vb \in VA : Same(va, vb, 1)
      BY DEF Same
    <3>. QED  BY <1>2, <1>3, <2>1, <3>1 DEF Shape
  <2>3. tab[r][va][1] # NoFrame
    BY <1>2, <1>3 DEF InMemory
  <2>4. TablesAt(tab, r, 1) = {tab[r][va][1]}
    BY <1>3, <2>2, <2>3 DEF TablesAt
  <2>5. ASSUME r # K PROVE tables[r][Pointer].base = tab[r][va][1]
    <3>0. (r # K) = TRUE
      BY <2>5
    <3>1. tab[r][va][0] = r /\ r # NoFrame
      BY <1>2, <1>3, <2>1, VmeBasics DEF Shape, Node
    <3>2. EntryOf(tables, tab, r, va, 0) = IF tab[r][va][0 + 1] = NoFrame THEN Absent ELSE Pte(tab[r][va][0 + 1], r # K)
      BY <1>2, <1>3, <3>1 DEF InMemory
    <3>3. EntryOf(tables, tab, r, va, 0) = tables[r][Pointer]
      BY <3>1 DEF EntryOf, indexof
    <3>4. tables[r][Pointer] = Pte(tab[r][va][1], TRUE)
      <4>1. 0 + 1 = 1
        OBVIOUS
      <4>. QED  BY <2>3, <3>0, <3>2, <3>3, <4>1
    <3>5. \A x : Pte(x, TRUE).base = x
      BY EntryTypes
    <3>. QED  BY <3>4, <3>5
  <2>. QED  BY <1>2, <1>3, <2>4, <2>5
<1>5. Tables(kpt) = TablesOf(tab, K)
  <2>1. TablesAt(tab, K, 1) = {kpt}
    BY <1>2, <1>4
  <2>2. TablesOf(tab, K) \subseteq Tables(kpt) /\ Tables(kpt) \subseteq TablesOf(tab, K) \cup TablesOf(tab, K)
    <3>. HIDE DEF R
    <3>. QED  BY <1>2, <2>1, TablesFound
  <2>. QED  BY <2>2
<1>6. \A s \in live : /\ TablesOf(tab, s) \subseteq Tables(tables[s][Pointer].base)
                      /\ Tables(tables[s][Pointer].base) \subseteq TablesOf(tab, s) \cup TablesOf(tab, K)
  <2>. SUFFICES ASSUME NEW s \in live
                PROVE  /\ TablesOf(tab, s) \subseteq Tables(tables[s][Pointer].base)
                       /\ Tables(tables[s][Pointer].base) \subseteq TablesOf(tab, s) \cup TablesOf(tab, K)
    OBVIOUS
  <2>1. s \in R /\ s # K
    BY <1>2, VmeBasics
  <2>2. TablesAt(tab, s, 1) = {tables[s][Pointer].base}
    BY <1>4, <2>1
  <2>. QED  BY <1>2, <2>1, <2>2, TablesFound
<1>7. \A f : f \in PageFrame \ avail <=> \E r \in R : f \in TablesOf(tab, r)
  <2>. SUFFICES ASSUME NEW f PROVE f \in PageFrame \ avail <=> \E r \in R : f \in TablesOf(tab, r)
    OBVIOUS
  <2>1. \A r : f \in TablesOf(tab, r) <=> f # NoFrame /\ \E vb \in VA, n \in 1 .. ptlevels : tab[r][vb][n] = f
    BY DEF TablesOf, TablesAt
  <2>2. ASSUME f \in PageFrame \ avail PROVE \E r \in R : f \in TablesOf(tab, r)
    <3>1. PICK r \in Root, vb \in VA, n \in 1 .. ptlevels : tab[r][vb][n] = f
      BY <1>2, <2>2 DEF Shape
    <3>2. f # NoFrame /\ n \in Level
      BY <1>2, <2>2, VmeBasics DEF Node
    <3>3. r \in R
      BY <1>2, <3>1, <3>2, WayThere
    <3>. QED  BY <2>1, <3>1, <3>2, <3>3
  <2>3. ASSUME NEW r \in R, f \in TablesOf(tab, r) PROVE f \in PageFrame \ avail
    <3>1. r \in Root /\ f # NoFrame /\ \E vb \in VA, n \in 1 .. ptlevels : tab[r][vb][n] = f
      BY <1>2, <2>1, <2>3
    <3>2. PICK vb \in VA, n \in 1 .. ptlevels : tab[r][vb][n] = f
      BY <3>1
    <3>3. f \in PageFrame
      BY <1>2, <3>1, <3>2 DEF Shape
    <3>. QED  BY <1>2, <3>1, <3>2, <3>3 DEF Shape
  <2>. QED  BY <2>2, <2>3
<1>8. \A f : f \in Tables(kpt) \cup UNION {Tables(tables[s][Pointer].base) : s \in live} <=> \E r \in R : f \in TablesOf(tab, r)
  BY <1>5, <1>6
<1>. QED  BY <1>7, <1>8

-----------------------------------------------------------------------------
(* The spaces are separate.                                                *)

(* What is seen, of the state before and of that after.                    *)
LEMMA ViewIs ==
    ASSUME NEW tab, Holds(tab)
    PROVE  view = Seen(tables, tab, live) /\ DOMAIN view = live
<1>1. Held(tables, avail, tab, live)
  BY DEF Holds
<1>2. view = Seen(tables, tab, live)
  BY <1>1, Views DEF view
<1>. QED  BY <1>2 DEF view

LEMMA ViewBecomes ==
    ASSUME NEW f, VmeInv, kpt # NoFrame, Becomes(f)
    PROVE  view' = f /\ VmeInv' /\ vmePanicked' = vmePanicked
<1>1. PICK tab : Holds(tab)' /\ Seen(tables', tab, live') = f
  BY DEF Becomes
<1>2. Held(tables', avail', tab, live')
  BY <1>1 DEF Holds
<1>3. [s \in live' |-> [va \in VA |-> Translate(tables', s, va)]] = Seen(tables', tab, live')
  BY <1>2, Views
<1>4. view' = f
  BY <1>1, <1>3 DEF view
<1>5. VmeInv'
  <2>1. kpt' = kpt /\ vmePanicked' = vmePanicked /\ live' \subseteq AddrSpace
    BY DEF Becomes
  <2>2. vmePanicked' \in BOOLEAN
    BY <2>1 DEF VmeInv
  <2>. QED  BY <1>1, <2>1, <2>2 DEF VmeInv
<1>. QED  BY <1>4, <1>5 DEF Becomes

(* A panic keeps everything; a step without tables shows nothing.          *)
LEMMA PanicStops ==
    ASSUME VmeInv, ~vmePanicked, VmePanic
    PROVE  VmeInv' /\ Separate!Next
<1>1. VmeInv'
  BY DEF VmePanic, VmeInv, Holds
<1>2. view' = view
  BY DEF VmePanic, view
<1>. QED  BY <1>1, <1>2 DEF VmePanic, Separate!Next, Separate!Panic

LEMMA VmeSteps ==
    ASSUME VmeInv, [VmeNext]_vmeVars
    PROVE  VmeInv' /\ [Separate!Next]_<<view, vmePanicked>>
<1>1. CASE vme_init
  <2>1. ~vmePanicked /\ kpt = NoFrame /\ live = {}
    BY <1>1 DEF vme_init, VmeInv
  <2>2. VmeInv'
    BY <1>1, InitsTables
  <2>3. CASE VmePanic
    BY <2>1, <2>3, PanicStops
  <2>4. CASE live' = live /\ vmePanicked' = vmePanicked
    <3>1. view' = view
      BY <2>1, <2>4 DEF view
    <3>. QED  BY <2>2, <2>4, <3>1
  <2>5. VmePanic \/ (live' = live /\ vmePanicked' = vmePanicked)
    BY <1>1 DEF vme_init
  <2>. QED  BY <2>3, <2>4, <2>5
<1>2. ASSUME NEW s \in AddrSpace, protect_as(s)
      PROVE  VmeInv' /\ [Separate!Next]_<<view, vmePanicked>>
  <2>1. kpt # NoFrame /\ ~vmePanicked
    BY <1>2 DEF protect_as, VmeReady
  <2>2. CASE VmePanic
    BY <2>1, <2>2, PanicStops
  <2>3. CASE s \notin live /\ \E tab : Holds(tab)
               /\ Becomes([t \in live \cup {s} |-> IF t = s THEN NewSpace ELSE Seen(tables, tab, live)[t]])
               /\ live' = live \cup {s}
    <3>1. PICK tab : /\ Holds(tab)
                     /\ Becomes([t \in live \cup {s} |-> IF t = s THEN NewSpace ELSE Seen(tables, tab, live)[t]])
      BY <2>3
    <3>2. view = Seen(tables, tab, live) /\ DOMAIN view = live
      BY <3>1, ViewIs
    <3>3. /\ view' = [t \in live \cup {s} |-> IF t = s THEN NewSpace ELSE Seen(tables, tab, live)[t]]
          /\ VmeInv' /\ vmePanicked' = vmePanicked
      BY <2>1, <3>1, ViewBecomes
    <3>4. NewSpace = Separate!New
      BY DEF NewSpace, Separate!New
    <3>5. Separate!Protect(s)
      BY <2>3, <3>2, <3>3, <3>4 DEF Separate!Protect
    <3>. QED  BY <2>1, <3>3, <3>5 DEF Separate!Next
  <2>. QED  BY <1>2, <2>2, <2>3, Protects
<1>3. ASSUME NEW s \in AddrSpace, unprotect_as(s)
      PROVE  VmeInv' /\ [Separate!Next]_<<view, vmePanicked>>
  <2>1. kpt # NoFrame /\ ~vmePanicked
    BY <1>3 DEF unprotect_as, VmeReady
  <2>2. s \in live
    BY <1>3 DEF unprotect_as
  <2>3. PICK tab : Holds(tab) /\ Becomes([t \in live \ {s} |-> Seen(tables, tab, live)[t]])
    BY <1>3, Unprotects
  <2>4. view = Seen(tables, tab, live) /\ DOMAIN view = live
    BY <2>3, ViewIs
  <2>5. view' = [t \in live \ {s} |-> Seen(tables, tab, live)[t]] /\ VmeInv' /\ vmePanicked' = vmePanicked
    BY <2>1, <2>3, ViewBecomes
  <2>6. Separate!Unprotect(s)
    BY <2>2, <2>4, <2>5 DEF Separate!Unprotect
  <2>. QED  BY <2>1, <2>5, <2>6 DEF Separate!Next
<1>4. ASSUME NEW s \in AddrSpace, NEW va \in VA, NEW pa \in UserFrame \cup {NoFrame}, map_as(s, va, pa)
      PROVE  VmeInv' /\ [Separate!Next]_<<view, vmePanicked>>
  <2>1. kpt # NoFrame /\ ~vmePanicked
    BY <1>4 DEF map_as, VmeReady
  <2>2. CASE VmePanic
    BY <2>1, <2>2, PanicStops
  <2>3. CASE /\ s \in live /\ va \notin KernelVA /\ live' = live
             /\ \E tab : /\ Holds(tab) /\ (Seen(tables, tab, live)[s][va] = NoFrame <=> pa # NoFrame)
                         /\ Becomes([Seen(tables, tab, live) EXCEPT ![s][va] = pa])
    <3>1. PICK tab : /\ Holds(tab) /\ (Seen(tables, tab, live)[s][va] = NoFrame <=> pa # NoFrame)
                     /\ Becomes([Seen(tables, tab, live) EXCEPT ![s][va] = pa])
      BY <2>3
    <3>2. view = Seen(tables, tab, live) /\ DOMAIN view = live
      BY <3>1, ViewIs
    <3>3. view' = [Seen(tables, tab, live) EXCEPT ![s][va] = pa] /\ VmeInv' /\ vmePanicked' = vmePanicked
      BY <2>1, <3>1, ViewBecomes
    <3>4. CASE pa = NoFrame
      <4>1. Separate!Unmap(s, va)
        BY <2>3, <3>1, <3>2, <3>3, <3>4 DEF Separate!Unmap
      <4>. QED  BY <2>1, <3>3, <4>1 DEF Separate!Next
    <3>5. CASE pa # NoFrame
      <4>1. Separate!Map(s, va, pa) /\ pa \in UserFrame
        BY <2>3, <3>1, <3>2, <3>3, <3>5 DEF Separate!Map
      <4>. QED  BY <2>1, <3>3, <4>1 DEF Separate!Next
    <3>. QED  BY <3>4, <3>5
  <2>. QED  BY <1>4, <2>2, <2>3, MapsOneOfUser
<1>5. CASE UNCHANGED vmeVars
  BY <1>5 DEF vmeVars, VmeInv, Holds, view
<1>. QED  BY <1>1, <1>2, <1>3, <1>4, <1>5 DEF VmeNext

(* Address spaces are separate, however many levels, indices, pages and     *)
(* spaces there are, and every page taken is in a table in use             *)
(* (vme.c:77-156): the x86 machine's vme implements AddressSpaces.         *)
THEOREM SpacesSoundHolds == VmeSpec => SpacesSound
<1>1. VmeInit => VmeInv /\ Separate!Init
  BY DEF VmeInit, VmeInv, Node, Root, Separate!Init, view
<1>2. VmeInv /\ [VmeNext]_vmeVars => VmeInv' /\ [Separate!Next]_<<view, vmePanicked>>
  BY VmeSteps
<1>3. VmeInv => TablesAccounted
  BY Accounted
<1>. QED  BY <1>1, <1>2, <1>3, PTL DEF VmeSpec, SpacesSound, Separate!Spec
=============================================================================
