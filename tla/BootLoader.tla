----------------------------- MODULE BootLoader -----------------------------
(***************************************************************************)
(* abstract-machine/am/src/x86/qemu/boot/main.c: the loader reads the      *)
(* program's argument, its ELF header and its segments from the disk,      *)
(* sector by sector, clears what the file does not fill and jumps to it.   *)
(* The byte at place x of the image file is the number x.                  *)
(***************************************************************************)
EXTENDS Integers, Sequences

CONSTANTS
    SECTSIZE, ARGSIZE,
    HeaderSize,         \* bytes read as the ELF header (4096)
    MAINARG_ADDR, ElfAddr, MemSize,
    Programs            \* lists of segments: [p_paddr, p_filesz, p_memsz, p_offset]

Junk == -9999

VARIABLES
    ph,         \* the segments of the program on the disk
    ram,        \* [address -> byte]
    bootIsAp,   \* the flag in the boot record
    jobs,       \* copies still to be made, the current one first: [buf, nbytes, disk_offset, memsz]
    cur, sect,  \* place in memory and on the disk of the current copy
    ide,        \* the drive: "ready", "busy" or "data"
    jumped      \* processors that run the program

bootVars == <<ph, ram, bootIsAp, jobs, cur, sect, ide, jumped>>

Copy(buf, nbytes, disk_offset, memsz) ==
    [buf |-> buf, nbytes |-> nbytes, disk_offset |-> disk_offset, memsz |-> memsz]

load_program(p) == Copy(p.p_paddr, p.p_filesz, p.p_offset, p.p_memsz)

\* What load_kernel does for the first processor, in order.
load_kernel(p) ==
    <<Copy(MAINARG_ADDR, ARGSIZE, -ARGSIZE, ARGSIZE), Copy(ElfAddr, HeaderSize, 0, HeaderSize)>>
    \o [i \in DOMAIN p |-> load_program(p[i])]

\* Where the sector of a place begins.
Sector(a) == a - (a % SECTSIZE)

\* Programs as linkers make them: a segment lies at the same place of a sector
\* in memory and in the file, and what is read for it, whole sectors, and what
\* is cleared leave alone what was loaded before, the header included.
Filled(j) == {a \in 0 .. MemSize - 1 : Sector(a) \in Sector(j.buf) .. j.buf + j.memsz - 1}
Placeable(j) ==
    /\ j.buf \in Nat /\ j.nbytes \in 0 .. j.memsz /\ j.memsz \in Nat /\ j.disk_offset \in Int
    /\ j.buf + j.memsz <= MemSize
    /\ j.buf % SECTSIZE = j.disk_offset % SECTSIZE

ASSUME BootAssumption ==
    /\ SECTSIZE \in Nat \ {0} /\ ARGSIZE \in Nat /\ MemSize \in Nat
    /\ \A p \in Programs :
         LET K == load_kernel(p)
         IN  /\ p \in Seq([p_paddr : Nat, p_filesz : Nat, p_memsz : Nat, p_offset : Nat])
             /\ \A j \in DOMAIN K : Placeable(K[j])
             /\ \A j \in DOMAIN K : \A i \in 1 .. j - 1 :
                  Filled(K[j]) \cap (K[i].buf .. K[i].buf + K[i].memsz - 1) = {}

\* Fault: the boot sector is not counted.
FirstSector_NoBoot(j) == [cur |-> Sector(j.buf),
                          sect |-> (j.disk_offset \div SECTSIZE) + (ARGSIZE \div SECTSIZE)]

FirstSector(j) == [cur |-> Sector(j.buf),
                   sect |-> (j.disk_offset \div SECTSIZE) + (ARGSIZE \div SECTSIZE) + 1]

BootInit ==
    /\ ph \in Programs
    /\ ram = [a \in 0 .. MemSize - 1 |-> Junk]
    /\ bootIsAp = FALSE
    /\ jobs = load_kernel(ph)
    /\ cur = FirstSector(Head(jobs)).cur /\ sect = FirstSector(Head(jobs)).sect
    /\ ide = "ready"
    /\ jumped = 0

Loading == jobs # <<>> /\ ~bootIsAp
job == Head(jobs)
Ed == job.buf + job.nbytes

\* read_disk: the command once the drive is ready, the words once it is again.
ReadCommand ==
    /\ Loading /\ cur < Ed /\ ide = "ready"
    /\ ide' = "busy"
    /\ UNCHANGED <<ph, ram, bootIsAp, jobs, cur, sect, jumped>>

DriveDone ==
    /\ ide = "busy" /\ ide' = "data"
    /\ UNCHANGED <<ph, ram, bootIsAp, jobs, cur, sect, jumped>>

\* Sector 0 holds the loader, the argument and then the image file follow.
OnDisk(s, k) == (s - 1 - (ARGSIZE \div SECTSIZE)) * SECTSIZE + k

ReadWords ==
    /\ Loading /\ ide = "data"
    /\ ram' = [a \in DOMAIN ram |-> IF a \in cur .. cur + SECTSIZE - 1 THEN OnDisk(sect, a - cur) ELSE ram[a]]
    /\ cur' = cur + SECTSIZE /\ sect' = sect + 1
    /\ ide' = "ready"
    /\ UNCHANGED <<ph, bootIsAp, jobs, jumped>>

\* The rest of the segment is cleared, the next copy begins.
Clear ==
    /\ Loading /\ cur >= Ed /\ ide = "ready"
    /\ ram' = [a \in DOMAIN ram |-> IF a \in Ed .. job.buf + job.memsz - 1 THEN 0 ELSE ram[a]]
    /\ jobs' = Tail(jobs)
    /\ IF Tail(jobs) = <<>> THEN UNCHANGED <<cur, sect>>
       ELSE cur' = FirstSector(Head(Tail(jobs))).cur /\ sect' = FirstSector(Head(Tail(jobs))).sect
    /\ UNCHANGED <<ph, bootIsAp, ide, jumped>>

\* The entry point; a processor started later finds everything loaded.
Jump ==
    /\ jobs = <<>> \/ bootIsAp
    /\ jumped < 2
    /\ jumped' = jumped + 1 /\ bootIsAp' = TRUE
    /\ UNCHANGED <<ph, ram, jobs, cur, sect, ide>>

BootNext == ReadCommand \/ DriveDone \/ ReadWords \/ Clear \/ Jump

BootSpec == BootInit /\ [][BootNext]_bootVars
-----------------------------------------------------------------------------

(* A processor that jumps to the program finds every segment in its place: *)
(* the bytes of the file, then zeros, and the argument (boot/main.c:27-90)  *)
(* although whole sectors are read over what lies around each segment.     *)
LoadsProgram ==
    jumped > 0 =>
        /\ \A i \in DOMAIN ph : \A k \in 0 .. ph[i].p_memsz - 1 :
             ram[ph[i].p_paddr + k] = IF k < ph[i].p_filesz THEN ph[i].p_offset + k ELSE 0
        /\ \A k \in 0 .. ARGSIZE - 1 : ram[MAINARG_ADDR + k] = k - ARGSIZE
=============================================================================
