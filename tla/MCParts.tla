------------------------------ MODULE MCParts ------------------------------
(***************************************************************************)
(* The parts of the repository that share no state with one another,       *)
(* checked in one run: a behaviour is one of the part named by the         *)
(* variable part, with the variables of the others at rest.  The parts     *)
(* that the theorems are about are here by EXTENDS, under their own names  *)
(* and with the constants the configuration gives them; every other part   *)
(* is an instance with its constants given here.                           *)
(***************************************************************************)
EXTENDS Pmm, ThreadOs, Libco, SdDev, RtcTimer, BootLoader, NativeVme, X86Trap, X86Vme, TLC, SequencesExt

CONSTANTS
    Checked,        \* the parts to run
    self            \* the user of the process tree

VARIABLES
    part,
    \* the frame buffer
    fb, head,
    \* the libraries
    bytes, libCall, ret, printed, out, operation, res,
    \* the user programs
    tree, image, fat, dfs, listing,
    lostTree, lostImage, phase, ci, CurDir, before, tmp,
    alive, unborn, unread, procs, seen, psAt, opt, psCalls, psPrinted, state,
    input, typed, so, ps, answers,
    segs, frame, screen, code

-----------------------------------------------------------------------------
(* Instances.                                                              *)

\* Rectangles and canvases on a display of 3 by 2, some of them cut off by
\* its edge; the last canvas does not fit the buffer.
Rect(x, y, w, h, shade) ==
    [x |-> x, y |-> y, w |-> w, h |-> h, pixels |-> [i \in 0 .. w * h - 1 |-> shade + i]]
Texture(x, y, w1, h1, w, h, shade) ==
    [type |-> "texture", x1 |-> x, y1 |-> y, w1 |-> w1, h1 |-> h1, w |-> w, h |-> h,
     pixels |-> [i \in 0 .. w * h - 1 |-> shade + i]]
Subtree(x, y, w1, h1, w, h, child) ==
    [type |-> "subtree", x1 |-> x, y1 |-> y, w1 |-> w1, h1 |-> h1, w |-> w, h |-> h,
     child |-> child]
Leaf == Texture(0, 0, 2, 1, 1, 2, 6)
Canvases ==
    {Subtree(0, 0, 3, 2, 4, 2, <<Leaf, Texture(1, 0, 3, 2, 2, 2, 1)>>),
     Subtree(1, 0, 2, 2, 2, 2, <<Subtree(0, 1, 2, 1, 2, 1, <<Leaf>>)>>),
     Texture(0, 0, 3, 1, 2, 1, 3),
     Subtree(0, 0, 3, 2, 4, 4, <<Leaf>>)}

Display == INSTANCE Gpu WITH
    DispW <- 3, DispH <- 2, VMEM_SIZE <- 12, Roots <- Canvases,
    Draws <- {Rect(2, 0, 2, 2, 1), Rect(0, 1, 3, 2, 1), Rect(1, 0, 1, 1, 5)}

\* Programs whose segments share sectors with one another, with the header
\* and with what is cleared.
Segment(addr, size, memsz, offset) ==
    [p_paddr |-> addr, p_filesz |-> size, p_memsz |-> memsz, p_offset |-> offset]

BootPrograms ==
    {<<Segment(16, 6, 9, 4), Segment(29, 2, 7, 9)>>,
     <<Segment(20, 8, 8, 0)>>,
     <<Segment(32, 3, 5, 8), Segment(17, 0, 4, 13), Segment(25, 5, 5, 1)>>}

Lib == INSTANCE Klib WITH
    MemSize <- 5, ByteVal <- {0, 1, 2, 200}, Number <- {-10, 0, 7, 37, 255, 300}, mem <- bytes,
    call <- libCall

Arith == INSTANCE Int64 WITH
    W <- 4, Operand <- {0, 1, 2, 3, 8, 15, 16, 17, 47, 48, 127, 128, 129, 143, 240, 255},
    op <- operation

-----------------------------------------------------------------------------
(* File systems: files of several clusters, directories of several         *)
(* clusters, deleted and hidden files, long names, a file with the number  *)
(* of a lost directory, two files of one name, a name that is too long.    *)
Node(kind, parent, short, long, chain) ==
    [kind |-> kind, parent |-> parent, short |-> short, long |-> long, chain |-> chain]
RootDir(chain) == Node("dir", 0, <<"/", " ", " ">>, <<>>, chain)
A == <<"A", " ", "T">>
B == <<"B", "C", " ">>
Lon == <<"l", "o", "n">>
Lo == <<"l", "o">>
Long == <<"l", "o", "n", "g", "e">>
FileSystems ==
    {<<RootDir(<<2>>), Node("file", 1, A, <<>>, <<3, 4>>), Node("deleted", 1, B, <<>>, <<5>>),
       Node("file", 1, B, Lo, <<6>>)>>,
     <<RootDir(<<2, 4>>), Node("file", 1, A, Lon, <<3, 6>>), Node("dir", 1, B, <<>>, <<5>>),
       Node("hidden", 1, A, <<>>, <<7>>), Node("file", 3, B, Lo, <<>>)>>,
     <<RootDir(<<2>>), Node("dir", 1, A, Lo, <<3, 4>>), Node("file", 2, A, <<>>, <<6>>),
       Node("deleted", 2, B, Lo, <<7>>), Node("file", 2, B, Lo, <<5>>)>>,
     <<RootDir(<<2>>), Node("dir", 1, A, <<>>, <<7>>), Node("file", 2, A, Lo, <<6>>)>>,
     <<RootDir(<<5, 6>>), Node("file", 1, A, Lon, <<2>>), Node("file", 1, B, <<>>, <<4>>),
       Node("file", 1, A, <<>>, <<3>>)>>,
     <<RootDir(<<2>>), Node("dir", 1, A, <<>>, <<4>>), Node("dir", 1, B, <<>>, <<3>>),
       Node("file", 2, A, Lo, <<5>>), Node("file", 3, B, Lo, <<6>>)>>,
     <<RootDir(<<2>>), Node("file", 1, A, Long, <<3>>)>>}

Fatree == INSTANCE FatTree WITH
    BPB_SecPerClus <- 2, BPB_RsvdSecCnt <- 2, BPB_NumFATs <- 2, BPB_FATSz32 <- 1,
    BPB_TotSec32 <- 17, UnitsPerSec <- 2, Base <- 2, NameLen <- 3, PartLen <- 2,
    Trees <- FileSystems, disk <- image, stack <- dfs

Frecov == INSTANCE FatRecover WITH
    BPB_SecPerClus <- 2, BPB_RsvdSecCnt <- 2, BPB_NumFATs <- 2, BPB_FATSz32 <- 1,
    BPB_TotSec32 <- 16, UnitsPerSec <- 2, Base <- 2, NameLen <- 3, PartLen <- 2,
    Window <- 4, Enough <- 2, NameRoom <- 4, OldTmp <- {<<>>, Lo :> <<"old">>},
    Trees <- FileSystems, image <- lostImage

\* A name with a parenthesis, numbers in and out of the order of birth.
Process(ppid, comm) == [ppid |-> ppid, comm |-> comm]

Tree == INSTANCE Pstree WITH
    Families <- {1 :> Process(0, <<"i">>) @@ 2 :> Process(0, <<"k">>)
                   @@ 4 :> Process(1, <<"(", "s">>),
                 1 :> Process(0, <<"i">>) @@ 6 :> Process(1, <<"b">>)
                   @@ 4 :> Process(6, <<"c">>)},
    Newborn <- {3, 5}, Names <- {self}, at <- psAt, calls <- psCalls, printed <- psPrinted

\* Lines that compile, that do not, and that fill the buffer to its end.
Compiled == {<<"int", "f", "1">>, <<"int", "g", "2">>, <<"2">>, <<"g", "-", "f">>,
             <<"3", "-", "1">>, <<"2", "-", "1">>}
Typed == Compiled \cup {<<"3", "-">>, <<"3", "-", "-", "1">>}
Accepted(text) == text \in Compiled
Used(text) == IF text[1] = "int" THEN {} ELSE {"f", "g"} \cap ToSet(text)

Repl == INSTANCE Crepl WITH
    LineSize <- 5, Scripts <- [1 .. 3 -> Typed], Compiles <- Accepted, Calls <- Used,
    OldLibs <- {<<>>, 0 :> <<"3", "-", "1">> @@ 1 :> <<"int", "f", "1">>}

Game == INSTANCE Snake WITH w <- 8, h <- 6, SIDE <- 2, LEN <- 2, MaxFrames <- 7

-----------------------------------------------------------------------------
(* The variables of each part.                                             *)
gpuVars == <<fb, head>>
klibVars == <<bytes, libCall, ret, printed, out>>
int64Vars == <<operation, res>>
fatreeVars == <<tree, image, fat, dfs, listing>>
frecovVars == <<lostTree, lostImage, phase, ci, CurDir, before, tmp>>
pstreeVars == <<alive, unborn, unread, procs, seen, psAt, opt, psCalls, psPrinted, state>>
creplVars == <<input, typed, so, ps, answers>>
snakeVars == <<segs, frame, screen, code>>

allVars == <<part, vars, sdVars, rtcVars, gpuVars, bootVars, smpVars, threadVars, trapVars,
             vmeVars, nativeVars, klibVars, int64Vars, coVars, fatreeVars, frecovVars,
             pstreeVars, creplVars, snakeVars>>

-----------------------------------------------------------------------------
(* Where a part has several initial states, the others see one of them.    *)
In(name) == part = name
One(name, is) == In(name) \/ is

PartsInit ==
    /\ part \in Checked
    /\ Init
    /\ SdInit /\ One("disk", backend = "ata")
    /\ RtcInit /\ One("clock", tsc = 17)
    /\ Display!GpuInit
    /\ BootInit /\ One("boot", Len(ph) = 1)
    /\ SmpInit /\ ThreadInit /\ One("threads", ntask = 2)
    /\ TrapInit
    /\ VmeInit
    /\ NativeInit
    /\ Lib!KlibInit /\ One("klib", \A x \in DOMAIN bytes : bytes[x] = IF x = 5 THEN 1 ELSE 0)
    /\ \A x \in DOMAIN bytes : (bytes[x] = 2 => x = 0) /\ (bytes[x] = 200 => x = 2) /\ bytes[5] = 1
    /\ Arith!Int64Init
    /\ CoInit
    /\ Fatree!FatreeInit /\ One("fatree", Len(tree) = 3)
    /\ Frecov!FrecovInit /\ One("frecov", Len(lostTree) = 3 /\ before = <<>>)
    /\ Tree!PstreeInit
    /\ IF opt = [p |-> TRUE, v |-> FALSE] THEN unborn = {3, 5} ELSE unborn = {} /\ alive[4].ppid = 1
    /\ One("pstree", alive[4].ppid = 1 /\ opt = [p |-> FALSE, v |-> FALSE])
    /\ Repl!CreplInit /\ One("crepl", so = <<>> /\ input = [k \in 1 .. 3 |-> <<"2">>])
    /\ Game!SnakeInit

PartsNext ==
    /\ UNCHANGED part
    /\ IF In("pmm") THEN Next ELSE UNCHANGED vars
    /\ IF In("disk") THEN SdNext ELSE UNCHANGED sdVars
    /\ IF In("clock") THEN RtcNext ELSE UNCHANGED rtcVars
    /\ IF In("display") THEN Display!GpuNext ELSE UNCHANGED gpuVars
    /\ IF In("boot") THEN BootNext ELSE UNCHANGED bootVars
    /\ CASE In("smp") -> SmpNext /\ UNCHANGED threadVars
         [] In("threads") -> ThreadNext
         [] OTHER -> UNCHANGED <<smpVars, threadVars>>
    /\ IF In("cte") THEN TrapNext ELSE UNCHANGED trapVars
    /\ IF In("vme") THEN VmeNext ELSE UNCHANGED vmeVars
    /\ IF In("nativevme") THEN NativeNext ELSE UNCHANGED nativeVars
    /\ IF In("klib") THEN Lib!KlibNext ELSE UNCHANGED klibVars
    /\ IF In("int64") THEN Arith!Int64Next ELSE UNCHANGED int64Vars
    /\ IF In("libco") THEN CoNext ELSE UNCHANGED coVars
    /\ IF In("fatree") THEN Fatree!FatreeNext ELSE UNCHANGED fatreeVars
    /\ IF In("frecov") THEN Frecov!FrecovNext ELSE UNCHANGED frecovVars
    /\ IF In("pstree") THEN Tree!PstreeNext ELSE UNCHANGED pstreeVars
    /\ IF In("crepl") THEN Repl!CreplNext ELSE UNCHANGED creplVars
    /\ IF In("game") THEN Game!SnakeNext ELSE UNCHANGED snakeVars

\* Libco runs on (CoFairSpec of Libco); nothing else is assumed fair.
PartsSpec == PartsInit /\ [][PartsNext]_allVars /\ WF_allVars(In("libco") /\ PartsNext)
-----------------------------------------------------------------------------
(* The properties of the instances, each while its part runs; the other    *)
(* parts are at rest in a first state, where theirs hold.                  *)

\* A canvas or a rectangle is drawn where it belongs and nowhere else (ioe.c:
\* gpu_fbdraw, render; Gpu).
DrawsPicture == Display!DrawsPicture

\* The strings and memory of klib are those of the C library, and a printed
\* number can be read back, but for the exceptions named in Klib (string.c;
\* stdio.c: vsprintf).
KlibSound == Lib!MatchesLibc /\ []Lib!PrintsNumber

\* Division and the counts of zeros are exact (int64.c: __udivmoddi4; Int64).
ArithmeticExact == In("int64") => Arith!ArithmeticExact

\* Every co_wait returns and the program ends (co.c: co_wait; Libco).
Terminates == In("libco") => ProgramEnds

\* The tree of the file system is listed whole (fatree.c: dfs; FatTree).
ListsTree == In("fatree") => Fatree!ListsTree

\* The files of lost directories are recovered, joined under their names (frecov.c:
\* Traverse_Dir, file_recovery; FatRecover).
RecoversFiles == In("frecov") => Frecov!RecoversFiles

\* Every process found, unless cut off from process 1, is printed under the parent
\* it had (pstree.c; Pstree).
TreePrinted == In("pstree") => Tree!TreePrinted

\* The answer to a line that was compiled is the value of that line (crepl.c: main;
\* Crepl).
AnswersLine == In("crepl") => Repl!AnswersLine

\* The snake stays whole and the screen shows it (amgame/src/keyboard.c: game_progress,
\* logic_for_end; Snake).
SnakeIntact == In("game") => Game!SnakeIntact
=============================================================================
