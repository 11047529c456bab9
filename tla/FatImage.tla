------------------------------ MODULE FatImage ------------------------------
(***************************************************************************)
(* The FAT32 disk image that fatree and frecov read, and the code the two  *)
(* share: finding a cluster and reading a short name.  A disk is a         *)
(* function of its 32 byte units, numbered from 0; a unit is a directory   *)
(* entry, a part of a long name or 32 bytes of a file.                     *)
(***************************************************************************)
EXTENDS Integers, SequencesExt

CONSTANTS
    BPB_SecPerClus, BPB_RsvdSecCnt, BPB_NumFATs, BPB_FATSz32, BPB_TotSec32,
    UnitsPerSec,        \* BPB_BytsPerSec / 32
    Base, NameLen,      \* slots of a short name before the dot, and in all
    PartLen,            \* characters in one part of a long name
    Trees               \* the file systems that may be on the disk

READ_ONLY == {"READ_ONLY"}
HIDDEN == {"HIDDEN"}
DIRECTORY == {"DIRECTORY"}
ARCHIVE == {"ARCHIVE"}
LONG_NAME == {"READ_ONLY", "HIDDEN", "SYSTEM", "VOLUME_ID"}

CLUS_INVALID == 1000        \* and every number above it

\* Bytes: NUL ends a C string, 0xffff fills a long name, 0xe5 is a deleted entry.
NUL == "0"
Filler == "F"
Deleted == "E5"
DeletedOrd == 229

UnitsPerClus == BPB_SecPerClus * UnitsPerSec
DiskSize == BPB_TotSec32 * UnitsPerSec

\* The unit cluster n starts at.
cluster_to_sec(n) ==
    LET DataSec == BPB_RsvdSecCnt + BPB_NumFATs * BPB_FATSz32 + (n - 2) * BPB_SecPerClus
    IN  DataSec * UnitsPerSec

Before(s, ch) == \* the characters before the first ch
    IF \E i \in DOMAIN s : s[i] = ch
    THEN SubSeq(s, 1, SelectInSeq(s, LAMBDA x : x = ch) - 1) ELSE s

\* Eight and three characters padded with blanks; a dot before the ninth.
get_filename(e) ==
    LET slot(i) == IF e.name[i] = " " THEN <<>>
                   ELSE IF i = Base + 1 THEN <<".", e.name[i]>> ELSE <<e.name[i]>>
    IN  FlattenSeq([i \in 1 .. NameLen |-> slot(i)])

-----------------------------------------------------------------------------
(* How a file system lies on the disk.  A tree is a sequence of nodes, the *)
(* root first: [kind, parent, short, long, chain], a short name of NameLen *)
(* slots, a long name or <<>>, and the clusters; kind is "dir", "file",    *)
(* "hidden" or "deleted".                                                  *)

Children(t, i) == SelectSeq([k \in DOMAIN t |-> k], LAMBDA k : k # 1 /\ t[k].parent = i)

Unit(name, attr, ord, part, clus) ==
    [name |-> name, attr |-> attr, ord |-> ord, part |-> part, clus |-> clus, byte |-> NUL]
Blank == Unit([i \in 1 .. NameLen |-> NUL], {}, 0, <<NUL>>, 0)
Bytes(b) == [Blank EXCEPT !.byte = b]

\* What an entry that is no part of a long name looks like when read as one.
Other == <<"?">>

\* The entry . of a directory, and the entry .. with n = 2.
Dots(n) == Unit([i \in 1 .. NameLen |-> IF i <= n THEN "." ELSE " "], DIRECTORY, 0, Other, 0)

\* The parts of a long name, the last one first; the name ends with NUL, then
\* fillers, unless it fills its last part.
Parts(long) ==
    LET n == (Len(long) + PartLen - 1) \div PartLen
        ch(i) == IF i <= Len(long) THEN long[i] ELSE IF i = Len(long) + 1 THEN NUL ELSE Filler
        part(k) == [i \in 1 .. PartLen |-> ch((k - 1) * PartLen + i)]
    IN  [j \in 1 .. n |-> Unit([i \in 1 .. NameLen |-> "~"], LONG_NAME, n + 1 - j, part(n + 1 - j), 0)]

Attr(node) == CASE node.kind = "dir" -> DIRECTORY
                [] node.kind = "hidden" -> ARCHIVE \cup HIDDEN
                [] OTHER -> ARCHIVE

First(node) == IF node.chain = <<>> THEN 0 ELSE node.chain[1]

Entries(node) ==
    LET first == First(node)
        gone == node.kind = "deleted"
        parts == Parts(node.long)
        name == IF gone THEN [node.short EXCEPT ![1] = Deleted] ELSE node.short
    IN  [p \in DOMAIN parts |-> IF gone THEN [parts[p] EXCEPT !.ord = DeletedOrd] ELSE parts[p]]
        \o <<Unit(name, Attr(node), 0, Other, first)>>

DirUnits(t, i) ==
    (IF i = 1 THEN <<>> ELSE <<Dots(1), Dots(2)>>)
    \o FlattenSeq([k \in DOMAIN Children(t, i) |-> Entries(t[Children(t, i)[k]])])

\* Unit j (from 0) of the k-th cluster of node i; a file ends with a NUL.
UnitOf(t, i, k, j) ==
    LET n == (k - 1) * UnitsPerClus + j + 1
    IN  IF t[i].kind = "dir"
        THEN IF n <= Len(DirUnits(t, i)) THEN DirUnits(t, i)[n] ELSE Blank
        ELSE Bytes(IF j < UnitsPerClus - 1 THEN t[i].short[1] ELSE NUL)

DataStart == (BPB_RsvdSecCnt + BPB_NumFATs * BPB_FATSz32) * UnitsPerSec

DiskOf(t) ==
    [u \in 0 .. DiskSize - 1 |->
        LET c == (u - DataStart) \div UnitsPerClus + 2
            owner == {p \in (DOMAIN t) \X (1 .. 4) : p[2] <= Len(t[p[1]].chain) /\ t[p[1]].chain[p[2]] = c}
        IN  IF u < DataStart \/ owner = {} THEN Blank
            ELSE LET p == CHOOSE p \in owner : TRUE
                 IN  UnitOf(t, p[1], p[2], (u - DataStart) % UnitsPerClus)]

FatOf(t) ==
    [c \in 0 .. DiskSize |->
        IF \E i \in DOMAIN t : \E k \in 1 .. Len(t[i].chain) - 1 : t[i].chain[k] = c
        THEN LET i == CHOOSE i \in DOMAIN t : \E k \in 1 .. Len(t[i].chain) - 1 : t[i].chain[k] = c
             IN  t[i].chain[SelectInSeq(t[i].chain, LAMBDA x : x = c) + 1]
        ELSE CLUS_INVALID + 1]
=============================================================================
