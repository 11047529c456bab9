----------------------------- MODULE FatRecover -----------------------------
(***************************************************************************)
(* frecov.c: recovers the files of a formatted image, with no file         *)
(* allocation table: clusters that look like a directory are walked, and   *)
(* of each file found the first cluster is appended to a file in /tmp.     *)
(***************************************************************************)
EXTENDS FatImage

CONSTANTS
    Window,     \* entries looked at to judge a cluster (128)
    Enough,     \* how many of them make it a directory (32)
    NameRoom,   \* the longest name for which filename and commands have room (114)
    OldTmp      \* what /tmp may hold before

VARIABLES
    lostTree,       \* what was on the disk
    image,          \* the units of the image
    phase,          \* "scan", "walk", "done" or "crash"
    ci,             \* the cluster the scan looks at, from 2
    CurDir,         \* the entry the walk is at; CurLDir is the same one
    before, tmp     \* the files in /tmp: name -> text, at the start and now

frecovVars == <<lostTree, image, phase, ci, CurDir, before, tmp>>

FrecovInit ==
    /\ lostTree \in Trees /\ image = DiskOf(lostTree)
    /\ phase = "scan" /\ ci = 2 /\ CurDir = 0
    /\ before \in OldTmp /\ tmp = before

Get_Data_Clus ==
    (DiskSize - (BPB_RsvdSecCnt + BPB_NumFATs * BPB_FATSz32) * UnitsPerSec) \div UnitsPerClus

ClusEnd(c) == cluster_to_sec(c) + UnitsPerClus

\* How much cluster c looks like a directory.
sup(c) == Cardinality({j \in 0 .. Window - 1 :
                          image[cluster_to_sec(c) + j].attr \in {LONG_NAME, ARCHIVE, DIRECTORY, READ_ONLY}})

\* The scan of main.
Scan ==
    /\ phase = "scan"
    /\ UNCHANGED <<lostTree, image, before, tmp>>
    /\ IF ci >= Get_Data_Clus + 2 THEN phase' = "done" /\ UNCHANGED <<ci, CurDir>>
       ELSE IF sup(ci) >= Enough
       THEN phase' = "walk" /\ CurDir' = cluster_to_sec(ci) /\ UNCHANGED ci
       ELSE ci' = ci + 1 /\ UNCHANGED <<phase, CurDir>>

\* Fault: the parts of the name in the order they lie on the disk.
LongName_Forward(s, n) ==
    Before(Before(FlattenSeq([k \in 1 .. n |-> image[s - n - 1 + k].part]), Filler), NUL)

\* The n parts before the entry at s, up to a filler; a C string ends at NUL.
LongName(s, n) ==
    Before(Before(FlattenSeq([k \in 1 .. n |-> image[s - k].part]), Filler), NUL)

\* The first cluster, as a string.  One that holds no NUL goes on with what
\* follows databuf.
Recovered(c) ==
    LET bytes == [j \in 1 .. UnitsPerClus |-> image[cluster_to_sec(c) + j - 1].byte]
        text == Before(bytes, NUL)
    IN  IF text = bytes THEN {text, Append(text, "junk")} ELSE {text}

Held(files, name) == IF name \in DOMAIN files THEN files[name] ELSE <<>>

\* fopen "a+": what the file of that name holds stays.
file_recovery(name, c) ==
    \E text \in Recovered(c) : tmp' = (name :> Held(tmp, name) \o text) @@ tmp

Leave == phase' = "scan" /\ ci' = ci + 1 /\ UNCHANGED <<CurDir, tmp>>

\* Outside the image, or behind the end of filename or commands: from here on
\* the program may do anything, and nothing is said of it.
Crash == phase' = "crash" /\ UNCHANGED <<ci, CurDir, tmp>>

\* Traverse_Dir, one file: the walk ends after the entry behind the cluster.
Traverse_Dir ==
    /\ phase = "walk"
    /\ UNCHANGED <<lostTree, image, before>>
    /\ IF CurDir > ClusEnd(ci) THEN Leave
       ELSE IF CurDir >= DiskSize THEN Crash
       ELSE LET long == image[CurDir].attr = LONG_NAME
                LdentNum == IF long THEN image[CurDir].ord % 16 ELSE 0
                s == CurDir + LdentNum
                name == IF long THEN LongName(s, LdentNum) ELSE get_filename(image[s])
            IN  IF s > ClusEnd(ci) THEN Leave
                ELSE IF s >= DiskSize \/ (image[s].attr = ARCHIVE /\ Len(name) > NameRoom) THEN Crash
                ELSE /\ CurDir' = s + 1 /\ UNCHANGED <<phase, ci>>
                     /\ IF image[s].attr = ARCHIVE THEN file_recovery(name, image[s].clus) ELSE UNCHANGED tmp

FrecovNext == Scan \/ Traverse_Dir
-----------------------------------------------------------------------------

\* Where the entry of node k lies, counted in units of its directory.
Place(k) ==
    LET t == lostTree  p == t[k].parent  kids == Children(t, p)
        upto == SubSeq(kids, 1, SelectInSeq(kids, LAMBDA x : x = k))
    IN  (IF p = 1 THEN 0 ELSE 2) + Len(FlattenSeq([x \in DOMAIN upto |-> Entries(t[upto[x]])])) - 1

\* The cluster of node k's entry, and whether all its parts are in it.
Home(k) == lostTree[lostTree[k].parent].chain[Place(k) \div UnitsPerClus + 1]
Whole(k) == Place(k) % UnitsPerClus >= Len(Parts(lostTree[k].long))

\* The walk of one directory cluster goes one entry into the next cluster.
Twice(k) == Place(k) % UnitsPerClus = 0 /\ Home(k) > 2 /\ sup(Home(k) - 1) >= Enough

\* A deleted name's parts have lost their numbers: the walk jumps over what
\* follows them.
Skipped(k) == \E x \in 2 .. k - 1 : /\ lostTree[x].parent = lostTree[k].parent /\ Home(x) = Home(k)
                                    /\ lostTree[x].kind = "deleted" /\ lostTree[x].long # <<>>

ShortName(k) == get_filename([name |-> lostTree[k].short])
FileName(k) == IF lostTree[k].long # <<>> THEN lostTree[k].long ELSE ShortName(k)

\* The files found as they are, and what else the walk may take for a file.
Files == {k \in DOMAIN lostTree : lostTree[k].kind = "file"}
Found == {k \in Files : sup(Home(k)) >= Enough /\ Whole(k) /\ ~Twice(k) /\ ~Skipped(k)}
Misread == {k \in DOMAIN lostTree : lostTree[k].kind \in {"file", "deleted"}} \ Found

\* The files found under a name, in the order their entries lie on the disk.
Namesakes(name) ==
    LET Spot(k) == Home(k) * UnitsPerClus + (Place(k) % UnitsPerClus)
    IN  SetToSortSeq({k \in Found : FileName(k) = name}, LAMBDA j, k : Spot(j) < Spot(k))

(* When the scan ends, a file of /tmp holds what it held before, then for  *)
(* every file on the disk that has its name, and whose entry lies with all *)
(* parts of its name in a cluster taken for a directory, its first bytes,  *)
(* once each and in the order of the entries on the disk; an empty file    *)
(* gives what lies two clusters before the data (frecov.c:119-239).  So    *)
(* files of one name in two directories, or of a second run, are joined in *)
(* one file (line 223, "a+"): only a name that is unique on the disk and   *)
(* new in /tmp gets its own bytes and no others.                           *)
(* Not claimed: the first entry behind a directory cluster, where the walk *)
(* looks too (line 144) and which is written twice; names cut by the end   *)
(* of a cluster; what follows a deleted long name, whose parts have lost   *)
(* their numbers (line 149); names that one of these has as well.  Nothing *)
(* is claimed of a disk that makes the program read or write outside its   *)
(* memory: one whose last cluster is a directory, which the walk leaves,   *)
(* and one with a name longer than filename and commands hold, as is every *)
(* name of 16 or more parts, whose number is moreover cut to four bits.    *)
RecoversFiles ==
    phase = "done" =>
        \A name \in {FileName(k) : k \in Found} \ UNION {{FileName(k), ShortName(k)} : k \in Misread} :
            /\ name \in DOMAIN tmp
            /\ tmp[name] \in FoldLeft(LAMBDA texts, k : {t \o u : t \in texts, u \in Recovered(First(lostTree[k]))},
                                      {Held(before, name)}, Namesakes(name))
=============================================================================
