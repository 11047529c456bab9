-------------------------------- MODULE SdDev -------------------------------
(***************************************************************************)
(* The disk device of kernel/src/dev/dev_sd.c, which reads and writes any  *)
(* range of bytes through one block buffer, on the two disks it can have:  *)
(* the ATA disk of the x86 machine (x86/qemu/ioe.c), driven by registers,  *)
(* and the disk image of the native one (native/ioe/disk.c).  One task     *)
(* uses the device at a time: nothing in it serialises two.                *)
(***************************************************************************)
EXTENDS Integers, Sequences

CONSTANTS
    blksz,
    DiskBytes,      \* bytes of the disk; the native image may lack the last ones
    Byte,
    Base, TopBase,  \* the values of an address register (256), and of the last one,
                    \* which holds the top of the address only (16)
    MaxBytes,       \* bound: the length of a call
    MaxRequests,    \* bound: calls made in one behaviour
    Backend         \* the disks tried: "ata", "file", or "short", an image cut off

\* disk_config gives the size in blocks, and the registers can name each.
ASSUME SdAssumption ==
    /\ {blksz, DiskBytes, Base, TopBase} \subseteq Nat \ {0}
    /\ MaxBytes \in Nat /\ MaxRequests \in Nat
    /\ DiskBytes % blksz = 0 /\ DiskBytes <= blksz * (Base * (Base * (Base * TopBase)))
    /\ {0, 1} \subseteq Byte /\ Backend \subseteq {"ata", "file", "short"}

VARIABLES
    backend,
    disk,           \* [0 .. DiskBytes - 1 -> Byte]
    filesize,       \* bytes of the image there are
    regs,           \* the command block: [lba0, lba1, lba2, lba3, cmd]
    busy,           \* the drive is at work on the last command
    buf,            \* sd->buf
    op,             \* the call in progress
    result,         \* what the last read copied out
    calls,
    flat            \* history: the disk as one array of bytes

sdVars == <<backend, disk, filesize, regs, busy, buf, op, result, calls, flat>>

Idle == [pc |-> "idle", kind |-> "none", offset |-> 0, pos |-> 0, from |-> 0, data |-> <<>>]
Addr == 0 .. DiskBytes - 1

SdInit ==
    /\ backend \in Backend
    /\ disk = [a \in Addr |-> a % 2]
    /\ filesize = IF backend = "short" THEN DiskBytes - 1 ELSE DiskBytes
    /\ regs = [lba0 |-> 0, lba1 |-> 0, lba2 |-> 0, lba3 |-> 0, cmd |-> "none"]
    /\ busy = FALSE
    /\ buf = [i \in 0 .. blksz - 1 |-> 0]
    /\ op = Idle /\ result = <<>> /\ calls = 0
    /\ flat = disk

\* sd_read or sd_write of Len(data) bytes from offset; a read ignores data.
Request(kind, offset, data) ==
    /\ op.pc = "idle" /\ calls < MaxRequests
    /\ offset + Len(data) <= DiskBytes
    /\ op' = [pc |-> "loop", kind |-> kind, offset |-> offset, pos |-> 0,
              from |-> offset, data |-> data]
    /\ calls' = calls + 1
    /\ result' = <<>>
    /\ UNCHANGED <<backend, disk, filesize, regs, busy, buf, flat>>

-----------------------------------------------------------------------------
(* One round of the loop handles the part of the range in block st_.       *)

st_ == op.offset - (op.offset % blksz)
blkno == st_ \div blksz
MinOf(a, b) == IF a < b THEN a ELSE b
n_ == MinOf(blksz - (op.offset - st_), Len(op.data) - op.pos)

Continue(pc) == op' = [op EXCEPT !.pc = pc]

\* The caller's view of the disk once the call returns.
Written ==
    [a \in Addr |-> IF op.kind = "write" /\ a \in op.from .. op.from + Len(op.data) - 1
                    THEN op.data[a - op.from + 1] ELSE flat[a]]

\* Fault: a write never reads the block first.
Loop_NoRead ==
    /\ op.pc = "loop"
    /\ IF op.pos >= Len(op.data)
       THEN op' = Idle /\ flat' = Written
       ELSE Continue(IF op.kind = "read" THEN "blk_read" ELSE "fill") /\ UNCHANGED flat
    /\ UNCHANGED <<backend, disk, filesize, regs, busy, buf, result, calls>>

Loop ==
    /\ op.pc = "loop"
    /\ IF op.pos >= Len(op.data)
       THEN op' = Idle /\ flat' = Written
       ELSE Continue(IF op.kind = "read" \/ n_ < blksz THEN "blk_read" ELSE "fill") /\ UNCHANGED flat
    /\ UNCHANGED <<backend, disk, filesize, regs, busy, buf, result, calls>>

NextRound == [op EXCEPT !.pos = @ + n_, !.offset = st_ + blksz, !.pc = "loop"]

\* memcpy out of sd->buf, after the block was read.
CopyOut ==
    /\ op.pc = "copy" /\ op.kind = "read"
    /\ result' = result \o [i \in 1 .. n_ |-> buf[op.offset - st_ + i - 1]]
    /\ op' = NextRound
    /\ UNCHANGED <<backend, disk, filesize, regs, busy, buf, calls, flat>>

\* memcpy into sd->buf, which keeps the rest of a block read before.
Fill ==
    /\ op.pc = "fill" \/ (op.pc = "copy" /\ op.kind = "write")
    /\ buf' = [i \in DOMAIN buf |->
                 IF i \in op.offset - st_ .. op.offset - st_ + n_ - 1
                 THEN op.data[op.pos + i - (op.offset - st_) + 1] ELSE buf[i]]
    /\ Continue("blk_write")
    /\ UNCHANGED <<backend, disk, filesize, regs, busy, result, calls, flat>>

-----------------------------------------------------------------------------
(* disk_blkio of one block: wait, command, wait, transfer.                 *)

Transferring == op.pc \in {"blk_read", "blk_write"}

SdCommand ==
    /\ backend = "ata" /\ Transferring /\ ~busy
    /\ regs' = [lba0 |-> blkno % Base, lba1 |-> (blkno \div Base) % Base,
                lba2 |-> (blkno \div (Base * Base)) % Base,
                lba3 |-> (blkno \div (Base * Base * Base)) % TopBase,
                cmd |-> IF op.pc = "blk_write" THEN "write" ELSE "read"]
    /\ busy' = TRUE
    /\ Continue(IF op.pc = "blk_write" THEN "put" ELSE "get")
    /\ UNCHANGED <<backend, disk, filesize, buf, result, calls, flat>>

\* The drive is ready for the transfer, or for the next command.
DriveReady ==
    /\ busy /\ busy' = FALSE
    /\ UNCHANGED <<backend, disk, filesize, regs, buf, op, result, calls, flat>>

Lba == regs.lba0 + Base * (regs.lba1 + Base * (regs.lba2 + Base * regs.lba3))

\* disk with buf as its block b, and the other way round.
WithBlock(b) ==
    [a \in Addr |-> IF a \div blksz = b THEN buf[a % blksz] ELSE disk[a]]
BlockAt(b) == [i \in DOMAIN buf |-> disk[b * blksz + i]]

Transfer ==
    /\ op.pc \in {"put", "get"} /\ ~busy
    /\ IF regs.cmd = "write"
       THEN /\ disk' = WithBlock(Lba) /\ busy' = TRUE /\ op' = NextRound /\ UNCHANGED buf
       ELSE /\ buf' = BlockAt(Lba) /\ Continue("copy") /\ UNCHANGED <<disk, busy>>
    /\ UNCHANGED <<backend, filesize, regs, result, calls, flat>>

\* __am_disk_blkio: a block the image does not hold whole fails the assertion
\* after fread; a write makes the image longer.
FileIO ==
    /\ backend # "ata" /\ Transferring
    /\ IF op.pc = "blk_write"
       THEN /\ disk' = WithBlock(blkno) /\ op' = NextRound /\ UNCHANGED buf
            /\ filesize' = IF (blkno + 1) * blksz > filesize THEN (blkno + 1) * blksz ELSE filesize
       ELSE /\ Continue(IF (blkno + 1) * blksz <= filesize THEN "copy" ELSE "assert")
            /\ buf' = IF (blkno + 1) * blksz <= filesize THEN BlockAt(blkno) ELSE buf
            /\ UNCHANGED <<disk, filesize>>
    /\ UNCHANGED <<backend, regs, busy, result, calls, flat>>

sd_step == Loop \/ CopyOut \/ Fill \/ SdCommand \/ DriveReady \/ Transfer \/ FileIO

Buffers == UNION {[1 .. k -> Byte] : k \in 1 .. MaxBytes}

SdNext ==
    \/ \E o \in Addr, d \in Buffers : Request("write", o, d)
    \/ \E o \in Addr, k \in 1 .. MaxBytes : Request("read", o, [i \in 1 .. k |-> 0])
    \/ sd_step

SdSpec == SdInit /\ [][SdNext]_sdVars
-----------------------------------------------------------------------------

(* The disk is the flat array of bytes its callers see: after any calls,   *)
(* at any offset and length, each byte is the one written last, and the    *)
(* bytes a write shares a block with keep their value (sd_write's read     *)
(* before a partial block, dev_sd.c:52).  While a write runs, the bytes it *)
(* has done are new and all others old.                                    *)
FlatBytes ==
    \A a \in Addr :
        disk[a] = IF op.kind = "write" /\ a \in op.from .. op.from + op.pos - 1
                  THEN op.data[a - op.from + 1] ELSE flat[a]

(* A read copies out exactly the bytes of its range, over every block      *)
(* boundary (dev_sd.c:34-41), and it only fails on the last block of an    *)
(* image whose size is no multiple of the block size: disk_size is rounded *)
(* up (native/ioe/disk.c:17) and the assertion at line 39 then stops it.   *)
ReadsBytes ==
    /\ op.kind = "read" =>
           \A i \in DOMAIN result : result[i] = flat[op.from + i - 1]
    /\ op.kind = "read" => Len(result) = op.pos
    /\ op.pc = "assert" => filesize < DiskBytes /\ blkno = (DiskBytes \div blksz) - 1

\* disk_blkio and the reads and writes over it make the disk a flat array of
\* bytes (dev_sd.c: sd_read, sd_write).
FlatDisk == FlatBytes /\ ReadsBytes
=============================================================================
